---------------------------- MODULE IncidentsProofs ----------------------------
(***************************************************************************)
(* Incidents, for any number of incidents, groups, requests and owners.    *)
(*                                                                         *)
(* What can be known of an incident only grows: statuses that are logged,  *)
(* that a commit under way is about to log, or that a commit lost.  Every  *)
(* dictionary, every row and every job under way has its statuses from     *)
(* there (Believable, JobFits).  RowsTell follows the rows and Kept the    *)
(* groups of alerts through the worker's pass.  StretchInv counts the      *)
(* worker's escalations against the stretches of the history: one of its   *)
(* own is about to begin a stretch, or a stretch of an analyst's is left.  *)
(***************************************************************************)
EXTENDS Incidents, TLAPS, FiniteSetTheorems

Events == Statuses \cup {"INVESTIGATION_UPDATED", "ASSIGNED", "CREATED", "AUTO_ESCALATED"}
LogEntry == [event: Events, old: Statuses \cup {None}, new: Statuses \cup {None}]
Follows == Investigates \cup {"ESCALATED", "AUTO_ESCALATED"}
Job == [stage: Jobs, inc: Incidents \cup {None}, old: Statuses \cup {None},
        new: Statuses \cup {None}, then: Follows \cup Owners \cup {None}]

TypesFit ==
    /\ row \in [Incidents -> Believed \cup {None}]
    /\ history \in [Incidents -> Seq(LogEntry)]
    /\ timeline \in [Incidents -> Seq(Investigates)]
    /\ DOMAIN cache = Processes
    /\ \A p \in Processes : DOMAIN cache[p] \subseteq Incidents
                            /\ cache[p] \in [DOMAIN cache[p] -> Believed]
    /\ job \in [Actors -> Job]
    /\ lost \in [Incidents -> SUBSET Statuses]
    /\ DOMAIN pass = {"stage", "left"}
    /\ active \subseteq Groups

Known(i) == Logged(i) \cup Pending(i) \cup lost[i]

\* What an actor still has to commit.
JobFits(a) ==
    LET j == job[a]
    IN  /\ j.stage # "idle" => j.inc \in DOMAIN cache[ProcessOf(a)]
        /\ j.stage = "create" => a = "worker" /\ j.inc \in Groups /\ j.new = "OPEN"
        /\ j.stage \in {"lookup", "assign"} => a # "worker"
        /\ j.stage = "assign" => j.then \in Owners
        /\ j.stage = "move" =>
              /\ j.old \in Known(j.inc) \cap Statuses
              /\ j.new \in Statuses
              /\ j.then \in Follows \cup {None}
              /\ j.then = "COMPLETE" => j.new = "CONTAINED"
              /\ j.then = "AUTO_ESCALATED" => j.new = "ESCALATED"
              /\ j.then = "START" => j.new = "INVESTIGATING"
        /\ j.stage = "follow" =>
              /\ j.then \in Follows
              /\ j.then = "COMPLETE" => "CONTAINED" \in Logged(j.inc)
              /\ j.then = "AUTO_ESCALATED" => "ESCALATED" \in Logged(j.inc)
              /\ j.then = "START" => "INVESTIGATING" \in Known(j.inc)

Believable ==
    /\ \A p \in Processes : \A i \in DOMAIN cache[p] : cache[p][i].status \in Known(i)
    /\ \A i \in Incidents : row[i] # None => row[i].status \in Known(i)
    /\ \A i \in Incidents : \A h \in Moves(i) : h.old \in Known(i)

\* The API knows no incident without a row, and none that a worker made.
RowsTell ==
    /\ \A i \in DOMAIN cache["api"] : i \in Manual /\ row[i] # None
    /\ \A i \in Incidents : row[i] = None => Moves(i) = {}
    /\ RowTellsLastEntry

\* The CREATED entry of a group is there with its row, and the row with what
\* the worker knows, unless a commit was lost.
Created(g) == \E h \in Range(history[g]) : h.event = "CREATED"
Kept ==
    /\ \A g \in Groups : lost[g] = {} =>
          /\ row[g] # None => Created(g)
          /\ g \in DOMAIN cache["worker"] =>
                row[g] # None \/ (job["worker"].stage = "create" /\ job["worker"].inc = g)
    /\ pass.stage = "idle" => job["worker"].stage = "idle"
    /\ pass.stage = "sync" => active \ pass.left \subseteq DOMAIN cache["worker"]
    /\ pass.stage = "escalate" =>
          /\ active \cup pass.left \subseteq DOMAIN cache["worker"]
          /\ job["worker"].stage # "create"

IncidentsInv ==
    /\ TypesFit
    /\ \A a \in Actors : JobFits(a)
    /\ Believable
    /\ FollowUpsAreEarned
    /\ RowsTell
    /\ Kept

\* What a process believes stays CLOSED, but for a worker between passes.
Holds ==
    \A p \in Processes : \A i \in DOMAIN cache[p] :
        cache[p][i].status = "CLOSED" /\ i \in DOMAIN cache'[p] =>
            cache'[p][i].status = "CLOSED" \/ (p = "worker" /\ pass = IdlePass)

\* What becomes known of an incident stays so.
Grows == \A i \in Incidents : Known(i) \subseteq Known(i)' /\ Logged(i) \subseteq Logged(i)'

\* A step of one actor that changes what its process believes and what it has
\* to commit, and no more of it.
OneActor(a) ==
    /\ DOMAIN cache' = Processes
    /\ \A q \in Processes \ {ProcessOf(a)} : cache'[q] = cache[q]
    /\ job' \in [Actors -> Job]
    /\ \A b \in Actors \ {a} : job'[b] = job[b]

Decides(a) ==
    LET p == ProcessOf(a)
    IN  /\ OneActor(a)
        /\ UNCHANGED <<row, history, timeline, lost>>
        /\ job[a].stage \notin {"move", "create"}
        /\ DOMAIN cache[p] \subseteq DOMAIN cache'[p] /\ DOMAIN cache'[p] \subseteq Incidents
        /\ p = "api" => DOMAIN cache'[p] = DOMAIN cache[p]
        /\ cache'[p] \in [DOMAIN cache'[p] -> Believed]
        /\ \A i \in DOMAIN cache'[p] :
              \/ i \in DOMAIN cache[p] /\ cache'[p][i].status = cache[p][i].status
              \/ cache'[p][i].status = "OPEN"
              \/ /\ job'[a].stage = "move" /\ job'[a].inc = i
                 /\ cache'[p][i].status = job'[a].new
        /\ \A i \in DOMAIN cache[p] : cache[p][i].status = "CLOSED" =>
                                         cache'[p][i].status = "CLOSED"

--------------------------------------------------------------------------------
(* Statuses and entries.                                                    *)

LEMMA MayBecomeFacts ==
    /\ \A st \in Statuses : MayBecome(st) \subseteq Statuses
    /\ MayBecome("CLOSED") = {"CLOSED"}
BY DEF MayBecome, Statuses

LEMMA NamesFact ==
    /\ "worker" \in Actors /\ "worker" \in Processes /\ "api" \in Processes
    /\ ProcessOf("worker") = "worker"
    /\ \A s \in Sessions : s \in Actors /\ s # "worker" /\ ProcessOf(s) = "api"
    /\ \A a \in Actors : ProcessOf(a) \in Processes /\ (a = "worker" \/ a \in Sessions)
    /\ Groups \subseteq Incidents /\ Manual \subseteq Incidents
    /\ None \notin Incidents /\ None \notin Owners /\ None \notin Believed
    /\ None \notin Statuses
<1>1. \A s \in Sessions : s # "worker"
  BY IncidentsAssumption
<1>2. None \notin Incidents /\ None \notin Owners /\ None \notin Believed
      /\ None \notin Statuses
  BY IncidentsAssumption
<1> QED
  BY <1>1, <1>2 DEF Actors, Processes, ProcessOf, Incidents

LEMMA IdleFact == IdleJob \in Job /\ IdleJob.stage = "idle" /\ IdleJob.inc = None
                  /\ IdleJob.new = None /\ IdleJob.old = None /\ IdleJob.then = None
BY DEF IdleJob, Job, Jobs

LEMMA NewFact == NewIncident \in Believed /\ NewIncident.status = "OPEN" /\ "OPEN" \in Statuses
BY DEF NewIncident, Believed, Statuses

\* What an entry adds to a history.
LEMMA AppendFacts ==
  ASSUME TypesFit, NEW i \in Incidents, NEW e \in LogEntry,
         history' = [history EXCEPT ![i] = Append(@, e)]
  PROVE  /\ history' \in [Incidents -> Seq(LogEntry)]
         /\ \A k \in Incidents \ {i} : history'[k] = history[k]
         /\ Range(history'[i]) = Range(history[i]) \cup {e}
         /\ \A k \in Incidents : Moves(k) \subseteq Moves(k)'
         /\ \A k \in Incidents : \A h \in Moves(k)' : h \in Moves(k) \/ (k = i /\ h = e)
         /\ e.new # None => e \in Moves(i)'
         /\ e.new = None => \A k \in Incidents : Moves(k)' = Moves(k)
         /\ \A k \in Incidents : Logged(k) \subseteq Logged(k)'
         /\ e.new # None => e.new \in Logged(i)'
<1>1. history \in [Incidents -> Seq(LogEntry)]
  BY DEF TypesFit
<1>2. history'[i] = Append(history[i], e) /\ history[i] \in Seq(LogEntry)
  BY <1>1
<1>3. \A k \in Incidents \ {i} : history'[k] = history[k]
  BY <1>1
<1>4. history' \in [Incidents -> Seq(LogEntry)]
  BY <1>1, <1>2
<1>5. Range(history'[i]) = Range(history[i]) \cup {e}
  <2>1. /\ DOMAIN history'[i] = DOMAIN history[i] \cup {Len(history[i]) + 1}
        /\ \A n \in DOMAIN history[i] : history'[i][n] = history[i][n]
        /\ history'[i][Len(history[i]) + 1] = e
    BY <1>2
  <2> QED
    BY <2>1 DEF Range
<1>6. /\ \A k \in Incidents : Moves(k) \subseteq Moves(k)'
      /\ \A k \in Incidents : \A h \in Moves(k)' : h \in Moves(k) \/ (k = i /\ h = e)
      /\ e.new # None => e \in Moves(i)'
      /\ e.new = None => \A k \in Incidents : Moves(k)' = Moves(k)
  BY <1>3, <1>5 DEF Moves
<1>7. /\ \A k \in Incidents : Logged(k) \subseteq Logged(k)'
      /\ e.new # None => e.new \in Logged(i)'
  BY <1>6 DEF Logged
<1> QED
  BY <1>3, <1>4, <1>5, <1>6, <1>7
--------------------------------------------------------------------------------
(* What stays as it is while more becomes known.                            *)

LEMMA JobsKeep ==
  ASSUME TypesFit, Grows, NEW b \in Actors, JobFits(b), job'[b] = job[b],
         DOMAIN cache[ProcessOf(b)] \subseteq DOMAIN cache'[ProcessOf(b)]
  PROVE  JobFits(b)'
<1>1. CASE job[b].stage = "idle"
  BY <1>1 DEF JobFits
<1>2. CASE job[b].stage # "idle"
  <2>1. PICK j : j = job[b]
    OBVIOUS
  <2>2. j.inc \in DOMAIN cache[ProcessOf(b)] /\ j.inc \in Incidents
    BY <1>2, <2>1, NamesFact DEF JobFits, TypesFit
  <2>3. /\ j.inc \in DOMAIN cache'[ProcessOf(b)]
        /\ Known(j.inc) \subseteq Known(j.inc)' /\ Logged(j.inc) \subseteq Logged(j.inc)'
    BY <2>2 DEF Grows
  <2>4. job[b] = j /\ job'[b] = j
    BY <2>1
  <2> QED
    BY <2>2, <2>3, <2>4 DEF JobFits
<1> QED
  BY <1>1, <1>2

LEMMA EarnedKeep ==
  ASSUME FollowUpsAreEarned, Grows, UNCHANGED timeline,
         \A i \in Incidents : Range(history'[i]) = Range(history[i])
  PROVE  FollowUpsAreEarned'
<1>1. FollowUpsAreEarned' = \A i \in Incidents :
        /\ "COMPLETE" \in Range(timeline'[i]) => "CONTAINED" \in Logged(i)'
        /\ "START" \in Range(timeline'[i]) => "INVESTIGATING" \in Known(i)'
        /\ \A h \in Range(history'[i]) :
              h.event = "AUTO_ESCALATED" => "ESCALATED" \in Logged(i)'
  BY DEF FollowUpsAreEarned, Known
<1>2. FollowUpsAreEarned = \A i \in Incidents :
        /\ "COMPLETE" \in Range(timeline[i]) => "CONTAINED" \in Logged(i)
        /\ "START" \in Range(timeline[i]) => "INVESTIGATING" \in Known(i)
        /\ \A h \in Range(history[i]) :
              h.event = "AUTO_ESCALATED" => "ESCALATED" \in Logged(i)
  BY DEF FollowUpsAreEarned, Known
<1> QED
  BY <1>1, <1>2 DEF Grows

\* Commits lost are not forgotten, so that what the row shows stays explained.
LEMMA RowsKeep ==
  ASSUME UNCHANGED <<row, history>>, RowTellsLastEntry,
         \A i \in Incidents : lost[i] \subseteq lost'[i]
  PROVE  RowTellsLastEntry' /\ \A i \in Incidents : Moves(i)' = Moves(i)
<1>1. \A i \in Incidents : Moves(i)' = Moves(i)
  BY DEF Moves
<1> QED
  BY <1>1 DEF RowTellsLastEntry

LEMMA KeptFrame ==
  ASSUME Kept, UNCHANGED <<pass, active>>,
         cache'["worker"] = cache["worker"], job'["worker"] = job["worker"],
         \A g \in Groups : /\ row'[g] = row[g] /\ history'[g] = history[g]
                           /\ lost'[g] = lost[g]
  PROVE  Kept'
BY DEF Kept, Created

LEMMA DecidesGrows ==
  ASSUME NEW a \in Actors, Decides(a)
  PROVE  Grows
<1>1. \A i \in Incidents : Logged(i)' = Logged(i)
  BY DEF Decides, Logged, Moves
<1>2. \A i \in Incidents : Pending(i) \subseteq Pending(i)'
  BY DEF Decides, OneActor, Pending
<1> QED
  BY <1>1, <1>2 DEF Grows, Known, Decides

LEMMA DecidesFacts ==
  ASSUME IncidentsInv, NEW a \in Actors, Decides(a), JobFits(a)'
  PROVE  /\ Grows /\ Believable' /\ FollowUpsAreEarned' /\ RowsTell'
         /\ \A b \in Actors : JobFits(b)'
         /\ DOMAIN pass' = {"stage", "left"} /\ active' \subseteq Groups => TypesFit'
         /\ Holds
<1> DEFINE p == ProcessOf(a)
<1>1. p \in Processes
  BY NamesFact
<1>2. Grows
  BY DecidesGrows
<1>3. \A b \in Actors : JobFits(b)'
  <2>1. ASSUME NEW b \in Actors \ {a} PROVE JobFits(b)'
    <3>1. DOMAIN cache[ProcessOf(b)] \subseteq DOMAIN cache'[ProcessOf(b)]
      BY NamesFact DEF Decides, OneActor
    <3> QED
      BY <1>2, <3>1, JobsKeep DEF IncidentsInv, Decides, OneActor
  <2> QED
    BY <2>1
<1>4. Believable'
  <2>1. ASSUME NEW q \in Processes \ {p}, NEW i \in DOMAIN cache'[q]
        PROVE  cache'[q][i].status \in Known(i)'
    <3>1. cache'[q] = cache[q] /\ i \in Incidents
      BY DEF Decides, OneActor, IncidentsInv, TypesFit
    <3> QED
      BY <3>1, <1>2 DEF IncidentsInv, Believable, Grows
  <2>2. ASSUME NEW i \in DOMAIN cache'[p]
        PROVE  cache'[p][i].status \in Known(i)'
    <3>1. i \in Incidents
      BY DEF Decides
    <3>2. CASE i \in DOMAIN cache[p] /\ cache'[p][i].status = cache[p][i].status
      BY <3>1, <3>2, <1>1, <1>2 DEF IncidentsInv, Believable, Grows
    <3>3. CASE cache'[p][i].status = "OPEN"
      BY <3>3 DEF Known, Logged
    <3>4. CASE /\ job'[a].stage = "move" /\ job'[a].inc = i
               /\ cache'[p][i].status = job'[a].new
      BY <3>4 DEF Known, Pending
    <3> QED
      BY <3>2, <3>3, <3>4 DEF Decides
  <2>3. \A i \in Incidents : row'[i] # None => row'[i].status \in Known(i)'
    BY <1>2 DEF Decides, IncidentsInv, Believable, Grows
  <2>4. \A i \in Incidents : \A h \in Moves(i)' : h.old \in Known(i)'
    <3>1. \A i \in Incidents : Moves(i)' = Moves(i)
      BY DEF Decides, Moves
    <3> QED
      BY <3>1, <1>2 DEF IncidentsInv, Believable, Grows
  <2>5. \A q \in Processes : \A i \in DOMAIN cache'[q] : cache'[q][i].status \in Known(i)'
    BY <2>1, <2>2
  <2> QED
    BY <2>3, <2>4, <2>5 DEF Believable
<1>5. FollowUpsAreEarned'
  BY <1>2, EarnedKeep DEF Decides, IncidentsInv
<1>6. RowsTell'
  <2>1. RowTellsLastEntry' /\ \A i \in Incidents : Moves(i)' = Moves(i)
    BY RowsKeep DEF Decides, IncidentsInv, RowsTell
  <2>2. DOMAIN cache'["api"] = DOMAIN cache["api"]
    BY NamesFact DEF Decides, OneActor
  <2> QED
    BY <2>1, <2>2 DEF Decides, IncidentsInv, RowsTell
<1>7. DOMAIN pass' = {"stage", "left"} /\ active' \subseteq Groups => TypesFit'
  <2>1. \A q \in Processes : DOMAIN cache'[q] \subseteq Incidents
                              /\ cache'[q] \in [DOMAIN cache'[q] -> Believed]
    BY DEF Decides, OneActor, IncidentsInv, TypesFit
  <2> QED
    BY <2>1 DEF Decides, OneActor, IncidentsInv, TypesFit
<1>8. Holds
  BY DEF Holds, Decides, OneActor
<1> QED
  BY <1>2, <1>3, <1>4, <1>5, <1>6, <1>7, <1>8
--------------------------------------------------------------------------------
(* The decisions.                                                           *)

\* What a process knows of an incident.
LEMMA CacheFact ==
  ASSUME IncidentsInv, NEW a \in Actors, NEW i \in DOMAIN cache[ProcessOf(a)]
  PROVE  /\ i \in Incidents
         /\ cache[ProcessOf(a)][i] \in Believed
         /\ cache[ProcessOf(a)][i].status \in Statuses \cap Known(i)
         /\ ProcessOf(a) \in DOMAIN cache
<1>1. ProcessOf(a) \in Processes /\ TypesFit /\ Believable
  BY NamesFact DEF IncidentsInv
<1>2. /\ DOMAIN cache[ProcessOf(a)] \subseteq Incidents
      /\ cache[ProcessOf(a)] \in [DOMAIN cache[ProcessOf(a)] -> Believed]
      /\ ProcessOf(a) \in DOMAIN cache
  BY <1>1 DEF TypesFit
<1>3. cache[ProcessOf(a)][i].status \in Known(i)
  BY <1>1 DEF Believable
<1> QED
  BY <1>2, <1>3 DEF Believed

LEMMA MovingDecides ==
  ASSUME IncidentsInv, NEW a \in Actors, NEW i \in DOMAIN cache[ProcessOf(a)],
         NEW new \in MayBecome(cache[ProcessOf(a)][i].status),
         NEW then \in Follows \cup {None},
         then = "COMPLETE" => new = "CONTAINED",
         then = "AUTO_ESCALATED" => new = "ESCALATED",
         then = "START" => new = "INVESTIGATING",
         job[a].stage \notin {"move", "create"},
         Moving(a, i, new, then), UNCHANGED <<row, history, timeline, lost>>
  PROVE  Decides(a) /\ JobFits(a)'
<1> DEFINE p == ProcessOf(a)
           old == cache[p][i].status
           j == [stage |-> "move", inc |-> i, old |-> old, new |-> new, then |-> then]
<1>1. /\ i \in Incidents /\ cache[p][i] \in Believed /\ old \in Statuses \cap Known(i)
      /\ p \in DOMAIN cache /\ p \in Processes
  BY CacheFact, NamesFact
<1>2. new \in Statuses
  BY <1>1, MayBecomeFacts
<1>3. j \in Job
  BY <1>1, <1>2 DEF Job, Jobs
<1>4. /\ cache' = [cache EXCEPT ![p][i].status = new]
      /\ job' = [job EXCEPT ![a] = j]
  BY DEF Moving
<1>5. TypesFit
  BY DEF IncidentsInv
<1>6. OneActor(a) /\ job'[a] = j
  BY <1>3, <1>4, <1>5 DEF OneActor, TypesFit
<1>7. /\ cache'[p] = [cache[p] EXCEPT ![i].status = new]
      /\ [cache[p][i] EXCEPT !.status = new] \in Believed
  BY <1>1, <1>2, <1>4 DEF Believed
<1>8. /\ DOMAIN cache'[p] = DOMAIN cache[p]
      /\ cache'[p] \in [DOMAIN cache[p] -> Believed]
      /\ cache'[p][i].status = new
      /\ \A k \in DOMAIN cache[p] \ {i} : cache'[p][k] = cache[p][k]
  BY <1>1, <1>5, <1>7 DEF TypesFit, Believed
<1>9. old = "CLOSED" => new = "CLOSED"
  BY MayBecomeFacts
<1>10. Decides(a)
  <2>1. \A k \in DOMAIN cache'[p] :
              \/ k \in DOMAIN cache[p] /\ cache'[p][k].status = cache[p][k].status
              \/ cache'[p][k].status = "OPEN"
              \/ /\ job'[a].stage = "move" /\ job'[a].inc = k
                 /\ cache'[p][k].status = job'[a].new
    BY <1>6, <1>8
  <2>2. \A k \in DOMAIN cache[p] : cache[p][k].status = "CLOSED" =>
                                         cache'[p][k].status = "CLOSED"
    BY <1>8, <1>9
  <2>3. DOMAIN cache'[p] \subseteq Incidents /\ cache'[p] \in [DOMAIN cache'[p] -> Believed]
    BY <1>1, <1>5, <1>8 DEF TypesFit
  <2> QED
    BY <1>6, <1>8, <2>1, <2>2, <2>3 DEF Decides
<1>11. old \in Known(i)'
  BY <1>1, <1>10, DecidesGrows DEF Grows
<1> HIDE DEF old
<1> QED
  BY <1>1, <1>2, <1>6, <1>8, <1>10, <1>11, IdleFact DEF JobFits

\* Decisions that change no dictionary, or the owner in it only.
LEMMA PlanDecides ==
  ASSUME IncidentsInv, NEW a \in Actors, job[a].stage \notin {"move", "create"},
         NEW j \in Job, job' = [job EXCEPT ![a] = j],
         UNCHANGED <<row, history, timeline, lost>>,
         \/ UNCHANGED cache
         \/ \E i \in DOMAIN cache[ProcessOf(a)], o \in Owners :
               cache' = [cache EXCEPT ![ProcessOf(a)][i].owner = o]
  PROVE  /\ Decides(a) /\ job'[a] = j
         /\ DOMAIN cache'[ProcessOf(a)] = DOMAIN cache[ProcessOf(a)]
<1> DEFINE p == ProcessOf(a)
<1>1. TypesFit /\ p \in Processes /\ p \in DOMAIN cache
  BY NamesFact DEF IncidentsInv, TypesFit
<1>2. job' \in [Actors -> Job] /\ job'[a] = j /\ \A b \in Actors \ {a} : job'[b] = job[b]
  BY <1>1 DEF TypesFit
<1>3. /\ DOMAIN cache' = Processes
      /\ \A q \in Processes \ {p} : cache'[q] = cache[q]
      /\ DOMAIN cache'[p] = DOMAIN cache[p]
      /\ cache'[p] \in [DOMAIN cache[p] -> Believed]
      /\ \A k \in DOMAIN cache[p] : cache'[p][k].status = cache[p][k].status
  <2>1. CASE UNCHANGED cache
    BY <1>1, <2>1 DEF TypesFit
  <2>2. ASSUME NEW i \in DOMAIN cache[p], NEW o \in Owners,
               cache' = [cache EXCEPT ![p][i].owner = o]
        PROVE  /\ DOMAIN cache' = Processes
               /\ \A q \in Processes \ {p} : cache'[q] = cache[q]
               /\ DOMAIN cache'[p] = DOMAIN cache[p]
               /\ cache'[p] \in [DOMAIN cache[p] -> Believed]
               /\ \A k \in DOMAIN cache[p] : cache'[p][k].status = cache[p][k].status
    <3>1. cache[p][i] \in Believed /\ cache[p] \in [DOMAIN cache[p] -> Believed]
      BY <1>1, CacheFact DEF TypesFit
    <3>2. cache'[p] = [cache[p] EXCEPT ![i].owner = o]
      BY <1>1, <2>2
    <3>3. [cache[p][i] EXCEPT !.owner = o] \in Believed
          /\ [cache[p][i] EXCEPT !.owner = o].status = cache[p][i].status
      BY <3>1 DEF Believed
    <3>4. DOMAIN cache'[p] = DOMAIN cache[p] /\ cache'[p] \in [DOMAIN cache[p] -> Believed]
          /\ \A k \in DOMAIN cache[p] : cache'[p][k].status = cache[p][k].status
      BY <3>1, <3>2, <3>3
    <3> QED
      BY <1>1, <2>2, <3>4 DEF TypesFit
  <2> QED
    BY <2>1, <2>2
<1> QED
  BY <1>1, <1>2, <1>3 DEF Decides, OneActor, TypesFit
LEMMA EscalateToDecides ==
  ASSUME IncidentsInv, NEW s \in Sessions, NEW i \in DOMAIN cache["api"], NEW o \in Owners,
         job[s].stage \notin {"move", "create"},
         EscalateTo(s, i, o), UNCHANGED <<row, history, timeline, lost>>
  PROVE  Decides(s) /\ JobFits(s)'
<1> DEFINE old == cache["api"][i].status
           j == [stage |-> "move", inc |-> i, old |-> old, new |-> "ESCALATED",
                 then |-> "ESCALATED"]
<1>1. /\ s \in Actors /\ ProcessOf(s) = "api" /\ "api" \in Processes
      /\ i \in Incidents /\ cache["api"][i] \in Believed
      /\ old \in Statuses \cap Known(i) /\ "api" \in DOMAIN cache
  BY NamesFact, CacheFact
<1>2. TypesFit
  BY DEF IncidentsInv
<1>3. CASE "ESCALATED" \in MayBecome(old)
  <2>1. /\ cache' = [[cache EXCEPT !["api"][i].owner = o] EXCEPT !["api"][i].status = "ESCALATED"]
        /\ job' = [job EXCEPT ![s] = j]
    BY <1>3 DEF EscalateTo, Handed, Status
  <2>2. j \in Job /\ OneActor(s) /\ job'[s] = j
    <3>1. j \in Job
      BY <1>1 DEF Job, Jobs, Follows, Statuses
    <3> QED
      BY <1>1, <1>2, <2>1, <3>1 DEF OneActor, TypesFit
  <2>3. /\ DOMAIN cache'["api"] = DOMAIN cache["api"]
        /\ cache'["api"] \in [DOMAIN cache["api"] -> Believed]
        /\ cache'["api"][i].status = "ESCALATED"
        /\ \A k \in DOMAIN cache["api"] \ {i} : cache'["api"][k] = cache["api"][k]
    <3> DEFINE rec == [[cache["api"][i] EXCEPT !.owner = o] EXCEPT !.status = "ESCALATED"]
    <3>1. cache'["api"] = [cache["api"] EXCEPT ![i] = rec]
      BY <1>1, <2>1
    <3>2. rec \in Believed /\ rec.status = "ESCALATED"
      BY <1>1 DEF Believed, Statuses
    <3>3. cache["api"] \in [DOMAIN cache["api"] -> Believed]
      BY <1>1, <1>2 DEF TypesFit
    <3> QED
      BY <3>1, <3>2, <3>3
  <2>4. old # "CLOSED"
    BY <1>3, MayBecomeFacts
  <2>5. Decides(s)
    <3>1. \A k \in DOMAIN cache'["api"] :
              \/ k \in DOMAIN cache["api"] /\ cache'["api"][k].status = cache["api"][k].status
              \/ cache'["api"][k].status = "OPEN"
              \/ /\ job'[s].stage = "move" /\ job'[s].inc = k
                 /\ cache'["api"][k].status = job'[s].new
      BY <2>2, <2>3
    <3>2. \A k \in DOMAIN cache["api"] : cache["api"][k].status = "CLOSED" =>
                                            cache'["api"][k].status = "CLOSED"
      BY <2>3, <2>4
    <3>3. DOMAIN cache["api"] \subseteq Incidents
      BY <1>1, <1>2 DEF TypesFit
    <3> QED
      BY <1>1, <2>2, <2>3, <3>1, <3>2, <3>3 DEF Decides
  <2>6. old \in Known(i)'
    BY <1>1, <2>5, DecidesGrows DEF Grows
  <2> HIDE DEF old
  <2> QED
    BY <1>1, <2>2, <2>3, <2>5, <2>6 DEF JobFits, Follows, Statuses
<1>4. CASE "ESCALATED" \notin MayBecome(old)
  <2>1. /\ cache' = [cache EXCEPT !["api"][i].owner = o]
        /\ job' = [job EXCEPT ![s] = IdleJob]
    BY <1>4 DEF EscalateTo, Handed, Status
  <2>2. Decides(s) /\ job'[s] = IdleJob
    BY <1>1, <2>1, IdleFact, PlanDecides
  <2> QED
    BY <2>2, IdleFact DEF JobFits
<1> QED
  BY <1>3, <1>4

\* What an analyst asks of an incident.
Asks(s, i) ==
    \/ \E new \in {"TRIAGED", "RESOLVED", "CLOSED"} : Transition(s, i, new)
    \/ StartInvestigation(s, i)
    \/ AddNote(s, i)
    \/ CompleteInvestigation(s, i)
    \/ \E o \in Owners : AssignIncident(s, i, o)
    \/ Escalate(s, i)
    \/ \E o \in Owners : EscalateToNamed(s, i, o)
    \/ LookUpOwner(s, i)

LEMMA AsksDecides ==
  ASSUME IncidentsInv, NEW s \in Sessions, NEW i \in Incidents, Asks(s, i)
  PROVE  Decides(s) /\ JobFits(s)' /\ UNCHANGED <<pass, active>>
<1>1. /\ s \in Actors /\ s # "worker" /\ ProcessOf(s) = "api" /\ i \in DOMAIN cache["api"]
      /\ job[s] = IdleJob /\ job[s].stage = "idle"
      /\ UNCHANGED <<row, history, timeline, lost, pass, active>>
  BY NamesFact, IdleFact DEF Asks, Transition, StartInvestigation, AddNote, CompleteInvestigation,
     AssignIncident, Escalate, EscalateToNamed, LookUpOwner, Call
<1>2. i \in DOMAIN cache[ProcessOf(s)] /\ Status(i) = cache[ProcessOf(s)][i].status
      /\ Status(i) \in Known(i)
  BY <1>1, CacheFact DEF Status
<1>3. ASSUME NEW new \in {"TRIAGED", "RESOLVED", "CLOSED"}, Transition(s, i, new)
      PROVE  Decides(s) /\ JobFits(s)'
  <2>1. new \in MayBecome(Status(i)) /\ Moving(s, i, new, None)
    BY <1>3 DEF Transition
  <2>2. None \notin {"COMPLETE", "AUTO_ESCALATED", "START"}
    BY IncidentsAssumption
  <2> QED
    BY <1>1, <1>2, <2>1, <2>2, MovingDecides
<1>4. CASE StartInvestigation(s, i)
  <2>1. CASE /\ "INVESTIGATING" \in MayBecome(Status(i))
             /\ Moving(s, i, "INVESTIGATING", "START")
    BY <1>1, <1>2, <2>1, MovingDecides DEF Follows, Investigates
  <2>2. CASE /\ Status(i) = "INVESTIGATING"
             /\ job' = [job EXCEPT ![s] = [IdleJob EXCEPT !.stage = "follow", !.inc = i,
                                                          !.then = "START"]]
             /\ UNCHANGED cache
    <3> DEFINE j == [IdleJob EXCEPT !.stage = "follow", !.inc = i, !.then = "START"]
    <3>1. j \in Job /\ j.stage = "follow" /\ j.inc = i /\ j.then = "START"
      BY DEF IdleJob, Job, Jobs, Follows, Investigates
    <3>2. Decides(s) /\ job'[s] = j
      BY <1>1, <2>2, <3>1, PlanDecides
    <3>3. "INVESTIGATING" \in Known(i)'
      BY <1>1, <1>2, <2>2, <3>2, DecidesGrows DEF Grows
    <3> HIDE DEF j
    <3> QED
      BY <1>1, <2>2, <3>1, <3>2, <3>3 DEF JobFits, Follows, Investigates
  <2> QED
    BY <1>4, <2>1, <2>2 DEF StartInvestigation
<1>5. CASE AddNote(s, i)
  <2> DEFINE j == [IdleJob EXCEPT !.stage = "follow", !.inc = i, !.then = "NOTE"]
  <2>1. j \in Job /\ j.stage = "follow" /\ j.inc = i /\ j.then = "NOTE"
    BY DEF IdleJob, Job, Jobs, Follows, Investigates
  <2>2. job' = [job EXCEPT ![s] = j] /\ UNCHANGED cache
    BY <1>5 DEF AddNote
  <2>3. Decides(s) /\ job'[s] = j
    BY <1>1, <2>1, <2>2, PlanDecides
  <2> HIDE DEF j
  <2> QED
    BY <1>1, <2>1, <2>2, <2>3 DEF JobFits, Follows, Investigates
<1>6. CASE CompleteInvestigation(s, i)
  BY <1>1, <1>2, <1>6, MovingDecides DEF CompleteInvestigation, Follows, Investigates
<1>7. ASSUME NEW o \in Owners, AssignIncident(s, i, o)
      PROVE  Decides(s) /\ JobFits(s)'
  <2> DEFINE j == [IdleJob EXCEPT !.stage = "assign", !.inc = i, !.then = o]
  <2>1. j \in Job /\ j.stage = "assign" /\ j.inc = i /\ j.then = o
    BY DEF IdleJob, Job, Jobs
  <2>2. job' = [job EXCEPT ![s] = j] /\ cache' = [cache EXCEPT !["api"][i].owner = o]
    BY <1>7 DEF AssignIncident
  <2>3. Decides(s) /\ job'[s] = j /\ DOMAIN cache'["api"] = DOMAIN cache["api"]
    BY <1>1, <2>1, <2>2, PlanDecides
  <2> HIDE DEF j
  <2> QED
    BY <1>1, <2>1, <2>3 DEF JobFits
<1>8. CASE Escalate(s, i)
  BY <1>1, <1>2, <1>8, MovingDecides DEF Escalate, Follows
<1>9. ASSUME NEW o \in Owners, EscalateToNamed(s, i, o)
      PROVE  Decides(s) /\ JobFits(s)'
  BY <1>1, <1>9, EscalateToDecides DEF EscalateToNamed
<1>10. CASE LookUpOwner(s, i)
  <2> DEFINE j == [IdleJob EXCEPT !.stage = "lookup", !.inc = i]
  <2>1. j \in Job /\ j.stage = "lookup" /\ j.inc = i
    BY DEF IdleJob, Job, Jobs
  <2>2. job' = [job EXCEPT ![s] = j] /\ UNCHANGED cache
    BY <1>10 DEF LookUpOwner
  <2>3. Decides(s) /\ job'[s] = j
    BY <1>1, <2>1, <2>2, PlanDecides
  <2> HIDE DEF j
  <2> QED
    BY <1>1, <2>1, <2>2, <2>3 DEF JobFits
<1> QED
  BY <1>1, <1>3, <1>4, <1>5, <1>6, <1>7, <1>8, <1>9, <1>10 DEF Asks

\* A decision of an analyst leaves the worker's pass alone.
LEMMA AnalystsKeep ==
  ASSUME IncidentsInv, NEW s \in Sessions, Decides(s), JobFits(s)', UNCHANGED <<pass, active>>
  PROVE  IncidentsInv' /\ Holds
<1>1. s \in Actors /\ s # "worker" /\ ProcessOf(s) = "api" /\ "worker" \in Processes \ {"api"}
      /\ "worker" \in Actors \ {s}
  BY NamesFact
<1>2. Kept'
  BY <1>1, KeptFrame DEF Decides, OneActor, IncidentsInv
<1>3. DOMAIN pass' = {"stage", "left"} /\ active' \subseteq Groups
  BY DEF IncidentsInv, TypesFit
<1> QED
  BY <1>1, <1>2, <1>3, DecidesFacts DEF IncidentsInv

LEMMA OwnerFoundKeeps ==
  ASSUME IncidentsInv, NEW s \in Sessions, OwnerFound(s)
  PROVE  IncidentsInv' /\ Holds
<1>1. s \in Actors /\ ProcessOf(s) = "api" /\ job[s].stage = "lookup"
  BY NamesFact DEF OwnerFound
<1>2. job[s].inc \in DOMAIN cache["api"]
  BY <1>1 DEF IncidentsInv, JobFits
<1>3. PICK o \in Owners : EscalateTo(s, job[s].inc, o)
  BY DEF OwnerFound
<1>4. PICK i \in DOMAIN cache["api"] : i = job[s].inc
  BY <1>2
<1>5. Decides(s) /\ JobFits(s)'
  BY <1>1, <1>3, <1>4, EscalateToDecides DEF OwnerFound
<1> QED
  BY <1>5, AnalystsKeep DEF OwnerFound
--------------------------------------------------------------------------------
(* The commits.                                                             *)

\* An actor's commit with entry e in the history of i.
Commits(a, i, e) ==
    /\ UNCHANGED <<cache, pass, active, lost>>
    /\ history' = [history EXCEPT ![i] = Append(@, e)]
    /\ job' \in [Actors -> Job]
    /\ \A b \in Actors \ {a} : job'[b] = job[b]

LEMMA CommitFacts ==
  ASSUME IncidentsInv, NEW a \in Actors, NEW i \in Incidents, NEW e \in LogEntry,
         Commits(a, i, e),
         e.new # None => e.old \in Known(i),
         job[a].stage = "move" => job[a].inc = i /\ job[a].new = e.new /\ e.new # None
  PROVE  /\ Grows /\ Holds
         /\ \A b \in Actors \ {a} : JobFits(b)'
         /\ \A p \in Processes : \A k \in DOMAIN cache'[p] : cache'[p][k].status \in Known(k)'
         /\ \A k \in Incidents : \A h \in Moves(k)' : h.old \in Known(k)'
         /\ \A k \in Incidents : row[k] # None => row[k].status \in Known(k)'
<1>1. TypesFit /\ Believable
  BY DEF IncidentsInv
<1>2. /\ \A k \in Incidents : \A h \in Moves(k)' : h \in Moves(k) \/ (k = i /\ h = e)
      /\ \A k \in Incidents : Logged(k) \subseteq Logged(k)'
      /\ e.new # None => e \in Moves(i)' /\ e.new \in Logged(i)'
      /\ e.new = None => \A k \in Incidents : Moves(k)' = Moves(k)
  BY <1>1, AppendFacts DEF Commits
<1>3. Grows
  <2>1. ASSUME NEW k \in Incidents PROVE Known(k) \subseteq Known(k)'
    <3>1. ASSUME NEW b \in Actors, job[b].inc = k, job[b].stage = "move"
          PROVE  job[b].new \in Known(k)'
      <4>1. CASE b = a
        BY <1>2, <3>1, <4>1 DEF Known
      <4>2. CASE b # a
        BY <3>1, <4>2 DEF Known, Pending, Commits
      <4> QED
        BY <4>1, <4>2
    <3>2. Pending(k) \subseteq Known(k)'
      BY <3>1 DEF Pending
    <3>3. lost[k] \subseteq Known(k)'
      BY DEF Known, Commits
    <3>4. Logged(k) \subseteq Known(k)'
      BY <1>2 DEF Known
    <3> QED
      BY <3>2, <3>3, <3>4 DEF Known
  <2> QED
    BY <1>2, <2>1 DEF Grows
<1>4. \A b \in Actors \ {a} : JobFits(b)'
  <2>1. ASSUME NEW b \in Actors \ {a} PROVE JobFits(b)'
    BY <1>3, JobsKeep DEF IncidentsInv, Commits
  <2> QED
    BY <2>1
<1>5. \A p \in Processes : \A k \in DOMAIN cache'[p] : cache'[p][k].status \in Known(k)'
  BY <1>1, <1>3 DEF Commits, Believable, Grows, TypesFit
<1>6. \A k \in Incidents : \A h \in Moves(k)' : h.old \in Known(k)'
  <2>1. ASSUME NEW k \in Incidents, NEW h \in Moves(k)' PROVE h.old \in Known(k)'
    <3>1. CASE h \in Moves(k)
      BY <1>1, <1>3, <3>1 DEF Believable, Grows
    <3>2. CASE h \notin Moves(k)
      <4>1. k = i /\ h = e /\ e.new # None
        BY <1>2, <3>2
      <4> QED
        BY <1>3, <4>1 DEF Grows
    <3> QED
      BY <3>1, <3>2
  <2> QED
    BY <2>1
<1>7. \A k \in Incidents : row[k] # None => row[k].status \in Known(k)'
  BY <1>1, <1>3 DEF Believable, Grows
<1>8. Holds
  BY DEF Holds, Commits
<1> QED
  BY <1>3, <1>4, <1>5, <1>6, <1>7, <1>8

\* Entries that are no moves, with rows that keep their status or begin as OPEN.
LEMMA QuietEntry ==
  ASSUME TypesFit, RowTellsLastEntry, NEW i \in Incidents, NEW e \in LogEntry, e.new = None,
         history' = [history EXCEPT ![i] = Append(@, e)], UNCHANGED lost,
         \A k \in Incidents : row'[k] # None =>
            \/ row[k] # None /\ row'[k].status = row[k].status
            \/ Moves(k) = {} /\ row'[k].status = "OPEN"
  PROVE  RowTellsLastEntry'
<1>1. \A k \in Incidents : Moves(k)' = Moves(k)
  BY AppendFacts
<1>2. ASSUME NEW k \in Incidents, row'[k] # None
      PROVE  IF Moves(k)' = {} THEN lost'[k] \subseteq {"OPEN"} => row'[k].status = "OPEN"
             ELSE \E n \in DOMAIN history'[k] :
                    /\ history'[k][n].new = row'[k].status
                    /\ \A m \in DOMAIN history'[k] : m > n => history'[k][m].new = None
  <2>1. CASE Moves(k) = {}
    BY <1>1, <1>2, <2>1 DEF RowTellsLastEntry
  <2>2. CASE Moves(k) # {}
    <3>1. row[k] # None /\ row'[k].status = row[k].status
      BY <1>2, <2>2
    <3>2. PICK n \in DOMAIN history[k] :
             /\ history[k][n].new = row[k].status
             /\ \A m \in DOMAIN history[k] : m > n => history[k][m].new = None
      BY <2>2, <3>1 DEF RowTellsLastEntry
    <3>3. history \in [Incidents -> Seq(LogEntry)] /\ history[k] \in Seq(LogEntry)
      BY DEF TypesFit
    <3>4. CASE k = i
      <4>1. history'[k] = Append(history[k], e)
        BY <3>3, <3>4
      <4>2. /\ DOMAIN history'[k] = DOMAIN history[k] \cup {Len(history[k]) + 1}
            /\ \A m \in DOMAIN history[k] : history'[k][m] = history[k][m]
            /\ history'[k][Len(history[k]) + 1] = e
        BY <3>3, <4>1
      <4> QED
        BY <1>1, <2>2, <3>1, <3>2, <4>2
    <3>5. CASE k # i
      <4>1. history'[k] = history[k]
        BY <3>3, <3>5
      <4> QED
        BY <1>1, <2>2, <3>1, <3>2, <4>1
    <3> QED
      BY <3>4, <3>5
  <2> QED
    BY <2>1, <2>2
<1> QED
  BY <1>2 DEF RowTellsLastEntry

\* Commits that leave the groups' rows filled keep what the worker counts on.
LEMMA KeptCommit ==
  ASSUME IncidentsInv, NEW a \in Actors, NEW i \in Incidents, NEW e \in LogEntry,
         Commits(a, i, e),
         a = "worker" => job["worker"].stage \notin {"idle", "create"}
                         /\ job'["worker"].stage # "create",
         a # "worker" => i \notin Groups,
         \A k \in Incidents \ {i} : row'[k] = row[k],
         row[i] # None => row'[i] # None,
         row[i] = None => row'[i] = None \/ i \notin Groups \/ lost[i] # {}
  PROVE  Kept'
<1>1. TypesFit /\ Kept /\ "worker" \in Actors /\ Groups \subseteq Incidents
  BY NamesFact DEF IncidentsInv
<1>2. /\ \A k \in Incidents \ {i} : history'[k] = history[k]
      /\ Range(history'[i]) = Range(history[i]) \cup {e}
  BY <1>1, AppendFacts DEF Commits
<1>3. CASE a # "worker"
  <2>1. \A g \in Groups : row'[g] = row[g] /\ history'[g] = history[g] /\ lost'[g] = lost[g]
    BY <1>1, <1>2, <1>3 DEF Commits
  <2> QED
    BY <1>1, <1>3, <2>1, KeptFrame DEF Commits
<1>4. CASE a = "worker"
  <2>1. \A g \in Groups : Created(g) => Created(g)'
    BY <1>1, <1>2 DEF Created
  <2>2. \A g \in Groups : lost[g] = {} => (row'[g] = None <=> row[g] = None)
    BY <1>1
  <2> QED
    BY <1>1, <1>4, <2>1, <2>2 DEF Kept, Commits
<1> QED
  BY <1>3, <1>4
\* What an actor that is about to commit holds.
LEMMA JobFact ==
  ASSUME IncidentsInv, NEW a \in Actors, job[a].stage # "idle"
  PROVE  /\ job[a] \in Job
         /\ job[a].inc \in DOMAIN cache[ProcessOf(a)] /\ job[a].inc \in Incidents
         /\ a # "worker" => job[a].inc \in Manual \ Groups /\ row[job[a].inc] # None
<1>1. job[a] \in Job /\ job[a].inc \in DOMAIN cache[ProcessOf(a)]
  BY DEF IncidentsInv, TypesFit, JobFits
<1>2. job[a].inc \in Incidents
  BY <1>1, CacheFact
<1>3. a # "worker" => job[a].inc \in Manual /\ row[job[a].inc] # None
  BY <1>1, NamesFact DEF IncidentsInv, RowsTell
<1> QED
  BY <1>1, <1>2, <1>3, IncidentsAssumption

LEMMA SaveMoveKeeps ==
  ASSUME IncidentsInv, NEW a \in Actors, SaveMove(a)
  PROVE  IncidentsInv' /\ Holds
<1>1. PICK j : j = job[a]
  OBVIOUS
<1>2. PICK i : i = j.inc
  OBVIOUS
<1> DEFINE e == Entry(j.new, j.old, j.new)
           after == IF j.then = None THEN IdleJob ELSE [j EXCEPT !.stage = "follow"]
<1>3. /\ j \in Job /\ j.stage = "move" /\ i \in Incidents
      /\ i \in DOMAIN cache[ProcessOf(a)]
      /\ a # "worker" => i \in Manual \ Groups /\ row[i] # None
  BY <1>1, <1>2, JobFact DEF SaveMove
<1>4. /\ j.old \in Known(i) /\ j.old \in Statuses /\ j.new \in Statuses
      /\ j.then \in Follows \cup {None}
      /\ j.then = "COMPLETE" => j.new = "CONTAINED"
      /\ j.then = "AUTO_ESCALATED" => j.new = "ESCALATED"
      /\ j.then = "START" => j.new = "INVESTIGATING"
  BY <1>1, <1>2, <1>3 DEF IncidentsInv, JobFits
<1>5. e \in LogEntry /\ e.new = j.new /\ e.old = j.old /\ e.event = j.new /\ e.new # None
  BY <1>4, NamesFact DEF Entry, LogEntry, Events
<1>6. /\ row' = [row EXCEPT ![i] = [Row(i, j.old) EXCEPT !.status = j.new]]
      /\ history' = [history EXCEPT ![i] = Append(@, e)]
      /\ job' = [job EXCEPT ![a] = after]
      /\ UNCHANGED <<timeline, cache, pass, active, lost>>
  BY <1>1, <1>2 DEF SaveMove
<1>7. after \in Job /\ after.stage \in {"idle", "follow"}
      /\ (after.stage = "follow" => after.inc = i /\ after.then = j.then /\ j.then \in Follows)
  BY <1>2, <1>3, <1>4, IdleFact DEF Job, Jobs
<1> HIDE DEF e, after
<1>8. TypesFit /\ RowTellsLastEntry /\ Believable
  BY DEF IncidentsInv, RowsTell
<1>9. job' \in [Actors -> Job] /\ job'[a] = after /\ \A b \in Actors \ {a} : job'[b] = job[b]
  BY <1>6, <1>7, <1>8 DEF TypesFit
<1>10. Commits(a, i, e)
  BY <1>6, <1>9 DEF Commits
<1>11. /\ Grows /\ Holds
       /\ \A b \in Actors \ {a} : JobFits(b)'
       /\ \A p \in Processes : \A k \in DOMAIN cache'[p] : cache'[p][k].status \in Known(k)'
       /\ \A k \in Incidents : \A h \in Moves(k)' : h.old \in Known(k)'
       /\ \A k \in Incidents : row[k] # None => row[k].status \in Known(k)'
  BY <1>1, <1>2, <1>3, <1>4, <1>5, <1>10, CommitFacts
<1>12. /\ history' \in [Incidents -> Seq(LogEntry)]
       /\ \A k \in Incidents \ {i} : history'[k] = history[k]
       /\ Range(history'[i]) = Range(history[i]) \cup {e}
       /\ e \in Moves(i)' /\ j.new \in Logged(i)'
       /\ \A k \in Incidents : Logged(k) \subseteq Logged(k)'
  BY <1>5, <1>6, <1>3, <1>8, AppendFacts
<1>13. /\ row'[i] \in Believed /\ row'[i].status = j.new /\ row'[i] # None
       /\ \A k \in Incidents \ {i} : row'[k] = row[k]
       /\ row' \in [Incidents -> Believed \cup {None}]
  <2>1. Row(i, j.old) \in Believed
    BY <1>3, <1>4, <1>8, NewFact DEF Row, TypesFit, Believed
  <2>2. /\ [Row(i, j.old) EXCEPT !.status = j.new] \in Believed
        /\ [Row(i, j.old) EXCEPT !.status = j.new].status = j.new
    BY <1>4, <2>1 DEF Believed
  <2> QED
    BY <1>3, <1>6, <1>8, <2>2, NamesFact DEF TypesFit
<1>14. TypesFit'
  BY <1>6, <1>8, <1>9, <1>12, <1>13 DEF TypesFit
<1>15. JobFits(a)'
  <2>1. CASE after.stage = "idle"
    BY <1>9, <2>1 DEF JobFits
  <2>2. CASE after.stage = "follow"
    <3>1. "INVESTIGATING" \in Logged(i)' => "INVESTIGATING" \in Known(i)'
      BY DEF Known
    <3> QED
      BY <1>3, <1>4, <1>6, <1>7, <1>9, <1>12, <2>2, <3>1 DEF JobFits
  <2> QED
    BY <1>7, <2>1, <2>2
<1>16. Believable'
  <2>1. \A k \in Incidents : row'[k] # None => row'[k].status \in Known(k)'
    <3>1. j.new \in Known(i)'
      BY <1>12 DEF Known
    <3> QED
      BY <1>11, <1>13, <3>1
  <2> QED
    BY <1>11, <2>1 DEF Believable
<1>17. FollowUpsAreEarned'
  <2>1. e.event # "AUTO_ESCALATED"
    BY <1>4, <1>5 DEF Statuses
  <2>2. \A k \in Incidents : \A h \in Range(history'[k]) :
          h \in Range(history[k]) \/ h.event # "AUTO_ESCALATED"
    BY <1>12, <2>1
  <2>3. \A k \in Incidents :
           /\ Logged(k) \cup Pending(k) \cup lost[k] = Known(k)
           /\ (Logged(k) \cup Pending(k) \cup lost[k])' = Known(k)'
    BY DEF Known
  <2>4. \A k \in Incidents : Known(k) \subseteq Known(k)' /\ Logged(k) \subseteq Logged(k)'
    BY <1>11 DEF Grows
  <2>5. FollowUpsAreEarned /\ timeline' = timeline
    BY <1>6 DEF IncidentsInv
  <2> QED
    BY <2>2, <2>3, <2>4, <2>5 DEF FollowUpsAreEarned
<1>18. RowsTell'
  <2>1. \A k \in DOMAIN cache'["api"] : k \in Manual /\ row'[k] # None
    BY <1>6, <1>13, NamesFact DEF IncidentsInv, RowsTell
  <2>2. \A k \in Incidents \ {i} : Moves(k)' = Moves(k)
    BY <1>12 DEF Moves
  <2>3. \A k \in Incidents : row'[k] = None => Moves(k)' = {}
    BY <1>13, <2>2 DEF IncidentsInv, RowsTell
  <2>4. RowTellsLastEntry'
    <3>1. history[i] \in Seq(LogEntry) /\ history'[i] = Append(history[i], e)
      BY <1>3, <1>6, <1>8 DEF TypesFit
    <3>2. /\ Len(history[i]) + 1 \in DOMAIN history'[i]
          /\ history'[i][Len(history[i]) + 1] = e
          /\ \A m \in DOMAIN history'[i] : ~(m > Len(history[i]) + 1)
      BY <3>1
    <3>3. \E n \in DOMAIN history'[i] :
             /\ history'[i][n].new = row'[i].status
             /\ \A m \in DOMAIN history'[i] : m > n => history'[i][m].new = None
      BY <1>5, <1>13, <3>2
    <3>4. Moves(i)' # {}
      BY <1>12
    <3>5. lost' = lost
      BY <1>6
    <3>6. ASSUME NEW k \in Incidents \ {i}, row'[k] # None
          PROVE  IF Moves(k)' = {} THEN lost'[k] \subseteq {"OPEN"} => row'[k].status = "OPEN"
                 ELSE \E n \in DOMAIN history'[k] :
                        /\ history'[k][n].new = row'[k].status
                        /\ \A m \in DOMAIN history'[k] : m > n => history'[k][m].new = None
      <4>1. history'[k] = history[k] /\ row'[k] = row[k] /\ lost'[k] = lost[k]
            /\ Moves(k)' = Moves(k)
        BY <1>12, <1>13, <2>2, <3>5
      <4> QED
        BY <1>8, <3>6, <4>1 DEF RowTellsLastEntry
    <3> QED
      BY <3>3, <3>4, <3>6 DEF RowTellsLastEntry
  <2> QED
    BY <2>1, <2>3, <2>4 DEF RowsTell
<1>19. Kept'
  <2>1. a = "worker" => row[i] # None \/ i \notin Groups \/ lost[i] # {}
    BY <1>1, <1>2, <1>3, NamesFact DEF IncidentsInv, Kept
  <2>2. a = "worker" => /\ job["worker"].stage = "move"
                        /\ job'["worker"].stage \in {"idle", "follow"}
    BY <1>1, <1>3, <1>7, <1>9
  <2>3. row'[i] # None /\ \A k \in Incidents \ {i} : row'[k] = row[k]
    BY <1>13
  <2>4. a = "worker" => job["worker"].stage \notin {"idle", "create"}
                        /\ job'["worker"].stage # "create"
    BY <2>2
  <2>5. a # "worker" => i \notin Groups
    BY <1>3
  <2>6. row[i] = None => row'[i] = None \/ i \notin Groups \/ lost[i] # {}
    BY <1>3, <2>1
  <2> QED
    BY <1>3, <1>5, <1>10, <2>3, <2>4, <2>5, <2>6, KeptCommit
<1> QED
  BY <1>9, <1>11, <1>14, <1>15, <1>16, <1>17, <1>18, <1>19 DEF IncidentsInv
LEMMA FollowUpKeeps ==
  ASSUME IncidentsInv, NEW a \in Actors, FollowUp(a)
  PROVE  IncidentsInv' /\ Holds
<1>1. PICK j : j = job[a]
  OBVIOUS
<1>2. PICK i : i = j.inc
  OBVIOUS
<1> DEFINE e == Entry(IF j.then \in Investigates THEN "INVESTIGATION_UPDATED" ELSE j.then,
                      None, None)
<1>3. /\ j.stage = "follow" /\ i \in Incidents
      /\ a # "worker" => i \notin Groups
  BY <1>1, <1>2, JobFact DEF FollowUp
<1>4. /\ j.then \in Follows
      /\ j.then = "COMPLETE" => "CONTAINED" \in Logged(i)
      /\ j.then = "AUTO_ESCALATED" => "ESCALATED" \in Logged(i)
      /\ j.then = "START" => "INVESTIGATING" \in Known(i)
  BY <1>1, <1>2, <1>3 DEF IncidentsInv, JobFits
<1>5. e \in LogEntry /\ e.new = None /\ (e.event = "AUTO_ESCALATED" => j.then = "AUTO_ESCALATED")
  BY <1>4 DEF Entry, LogEntry, Events, Follows, Investigates, Statuses
<1>6. /\ history' = [history EXCEPT ![i] = Append(@, e)]
      /\ \/ UNCHANGED timeline
         \/ j.then \in Investigates /\ timeline' = [timeline EXCEPT ![i] = Append(@, j.then)]
      /\ job' = [job EXCEPT ![a] = IdleJob]
      /\ UNCHANGED <<row, cache, pass, active, lost>>
  BY <1>1, <1>2 DEF FollowUp
<1> HIDE DEF e
<1>7. TypesFit /\ RowTellsLastEntry /\ Believable
  BY DEF IncidentsInv, RowsTell
<1>8. /\ job' \in [Actors -> Job] /\ job'[a] = IdleJob
      /\ \A b \in Actors \ {a} : job'[b] = job[b]
  BY <1>6, <1>7, IdleFact DEF TypesFit
<1>9. Commits(a, i, e)
  BY <1>6, <1>8 DEF Commits
<1>10. /\ Grows /\ Holds
       /\ \A b \in Actors \ {a} : JobFits(b)'
       /\ \A p \in Processes : \A k \in DOMAIN cache'[p] : cache'[p][k].status \in Known(k)'
       /\ \A k \in Incidents : \A h \in Moves(k)' : h.old \in Known(k)'
       /\ \A k \in Incidents : row[k] # None => row[k].status \in Known(k)'
  BY <1>1, <1>3, <1>5, <1>9, CommitFacts
<1>11. /\ history' \in [Incidents -> Seq(LogEntry)]
       /\ \A k \in Incidents \ {i} : history'[k] = history[k]
       /\ Range(history'[i]) = Range(history[i]) \cup {e}
       /\ \A k \in Incidents : Moves(k)' = Moves(k)
  BY <1>3, <1>5, <1>6, <1>7, AppendFacts
<1>12. /\ timeline' \in [Incidents -> Seq(Investigates)]
       /\ \A k \in Incidents : \A x \in Range(timeline'[k]) :
             x \in Range(timeline[k]) \/ (k = i /\ x = j.then)
  <2>1. CASE UNCHANGED timeline
    BY <1>7, <2>1 DEF TypesFit
  <2>2. CASE j.then \in Investigates /\ timeline' = [timeline EXCEPT ![i] = Append(@, j.then)]
    <3>1. timeline \in [Incidents -> Seq(Investigates)] /\ timeline[i] \in Seq(Investigates)
      BY <1>3, <1>7 DEF TypesFit
    <3>2. timeline'[i] = Append(timeline[i], j.then)
          /\ \A k \in Incidents \ {i} : timeline'[k] = timeline[k]
      BY <1>3, <2>2, <3>1
    <3>3. timeline' \in [Incidents -> Seq(Investigates)]
      BY <1>3, <2>2, <3>1, <3>2
    <3>4. /\ DOMAIN timeline'[i] = DOMAIN timeline[i] \cup {Len(timeline[i]) + 1}
          /\ \A m \in DOMAIN timeline[i] : timeline'[i][m] = timeline[i][m]
          /\ timeline'[i][Len(timeline[i]) + 1] = j.then
      BY <3>1, <3>2
    <3>5. \A x \in Range(timeline'[i]) : x \in Range(timeline[i]) \/ x = j.then
      BY <3>4 DEF Range
    <3> QED
      BY <3>2, <3>3, <3>5
  <2> QED
    BY <1>6, <2>1, <2>2
<1>13. TypesFit'
  BY <1>6, <1>7, <1>8, <1>11, <1>12 DEF TypesFit
<1>14. JobFits(a)'
  BY <1>8, IdleFact DEF JobFits
<1>15. Believable'
  BY <1>6, <1>10 DEF Believable
<1>16. FollowUpsAreEarned'
  <2>1. \A k \in Incidents :
           /\ Logged(k) \cup Pending(k) \cup lost[k] = Known(k)
           /\ (Logged(k) \cup Pending(k) \cup lost[k])' = Known(k)'
    BY DEF Known
  <2>2. \A k \in Incidents : Known(k) \subseteq Known(k)' /\ Logged(k) \subseteq Logged(k)'
    BY <1>10 DEF Grows
  <2>3. \A k \in Incidents : \A h \in Range(history'[k]) : h.event = "AUTO_ESCALATED" =>
           h \in Range(history[k]) \/ (k = i /\ j.then = "AUTO_ESCALATED")
    BY <1>5, <1>11
  <2>4. \A k \in Incidents :
          /\ "COMPLETE" \in Range(timeline[k]) => "CONTAINED" \in Logged(k)
          /\ "START" \in Range(timeline[k]) => "INVESTIGATING" \in Known(k)
          /\ \A h \in Range(history[k]) :
                h.event = "AUTO_ESCALATED" => "ESCALATED" \in Logged(k)
    BY <2>1 DEF IncidentsInv, FollowUpsAreEarned
  <2>5. \A k \in Incidents :
          /\ "COMPLETE" \in Range(timeline'[k]) => "CONTAINED" \in Logged(k)'
          /\ "START" \in Range(timeline'[k]) => "INVESTIGATING" \in Known(k)'
    BY <1>4, <1>12, <2>2, <2>4
  <2>6. \A k \in Incidents : \A h \in Range(history'[k]) :
                h.event = "AUTO_ESCALATED" => "ESCALATED" \in Logged(k)'
    BY <1>4, <2>2, <2>3, <2>4
  <2> QED
    BY <2>1, <2>5, <2>6 DEF FollowUpsAreEarned
<1>17. RowsTell'
  <2>1. RowTellsLastEntry'
    BY <1>3, <1>5, <1>6, <1>7, QuietEntry
  <2> QED
    BY <1>6, <1>11, <2>1 DEF IncidentsInv, RowsTell
<1>18. Kept'
  <2>1. a = "worker" => job["worker"].stage \notin {"idle", "create"}
                        /\ job'["worker"].stage # "create"
    BY <1>1, <1>3, <1>8, IdleFact
  <2> QED
    BY <1>3, <1>5, <1>6, <1>9, <2>1, KeptCommit
<1> QED
  BY <1>8, <1>10, <1>13, <1>14, <1>15, <1>16, <1>17, <1>18 DEF IncidentsInv

LEMMA SaveOwnerKeeps ==
  ASSUME IncidentsInv, NEW s \in Sessions, SaveOwner(s)
  PROVE  IncidentsInv' /\ Holds
<1>1. PICK j : j = job[s]
  OBVIOUS
<1>2. PICK i : i = j.inc
  OBVIOUS
<1> DEFINE e == Entry("ASSIGNED", None, None)
<1>3. /\ j.stage = "assign" /\ i \in Incidents /\ i \notin Groups /\ row[i] # None
      /\ s \in Actors /\ s # "worker" /\ j.then \in Owners
  BY <1>1, <1>2, NamesFact, JobFact DEF SaveOwner, IncidentsInv, JobFits
<1>4. e \in LogEntry /\ e.new = None /\ e.event = "ASSIGNED"
  BY DEF Entry, LogEntry, Events
<1>5. /\ row' = [row EXCEPT ![i] = [row[i] EXCEPT !.owner = j.then]]
      /\ history' = [history EXCEPT ![i] = Append(@, e)]
      /\ job' = [job EXCEPT ![s] = IdleJob]
      /\ UNCHANGED <<timeline, cache, pass, active, lost>>
  BY <1>1, <1>2, <1>3 DEF SaveOwner, Row
<1> HIDE DEF e
<1>6. TypesFit /\ RowTellsLastEntry /\ Believable
  BY DEF IncidentsInv, RowsTell
<1>7. /\ job' \in [Actors -> Job] /\ job'[s] = IdleJob
      /\ \A b \in Actors \ {s} : job'[b] = job[b]
  BY <1>3, <1>5, <1>6, IdleFact DEF TypesFit
<1>8. Commits(s, i, e)
  BY <1>5, <1>7 DEF Commits
<1>9. /\ Grows /\ Holds
      /\ \A b \in Actors \ {s} : JobFits(b)'
      /\ \A p \in Processes : \A k \in DOMAIN cache'[p] : cache'[p][k].status \in Known(k)'
      /\ \A k \in Incidents : \A h \in Moves(k)' : h.old \in Known(k)'
      /\ \A k \in Incidents : row[k] # None => row[k].status \in Known(k)'
  BY <1>1, <1>3, <1>4, <1>8, CommitFacts
<1>10. /\ history' \in [Incidents -> Seq(LogEntry)]
       /\ \A k \in Incidents \ {i} : history'[k] = history[k]
       /\ Range(history'[i]) = Range(history[i]) \cup {e}
       /\ \A k \in Incidents : Moves(k)' = Moves(k)
  BY <1>3, <1>4, <1>5, <1>6, AppendFacts
<1>11. /\ row' \in [Incidents -> Believed \cup {None}]
       /\ row'[i] # None /\ row'[i].status = row[i].status
       /\ \A k \in Incidents \ {i} : row'[k] = row[k]
  <2>1. row[i] \in Believed
    BY <1>3, <1>6 DEF TypesFit
  <2>2. /\ [row[i] EXCEPT !.owner = j.then] \in Believed
        /\ [row[i] EXCEPT !.owner = j.then].status = row[i].status
    BY <1>3, <2>1 DEF Believed
  <2> QED
    BY <1>3, <1>5, <1>6, <2>2, NamesFact DEF TypesFit
<1>12. TypesFit'
  BY <1>5, <1>6, <1>7, <1>10, <1>11 DEF TypesFit
<1>13. JobFits(s)'
  BY <1>7, IdleFact DEF JobFits
<1>14. Believable'
  <2>1. \A k \in Incidents : row'[k] # None => row'[k].status \in Known(k)'
    BY <1>3, <1>9, <1>11
  <2> QED
    BY <1>9, <2>1 DEF Believable
<1>15. FollowUpsAreEarned'
  <2>1. \A k \in Incidents : \A h \in Range(history'[k]) : h.event = "AUTO_ESCALATED" =>
           h \in Range(history[k])
    BY <1>4, <1>10
  <2>2. \A k \in Incidents :
           /\ Logged(k) \cup Pending(k) \cup lost[k] = Known(k)
           /\ (Logged(k) \cup Pending(k) \cup lost[k])' = Known(k)'
    BY DEF Known
  <2>3. \A k \in Incidents : Known(k) \subseteq Known(k)' /\ Logged(k) \subseteq Logged(k)'
    BY <1>9 DEF Grows
  <2>4. FollowUpsAreEarned /\ timeline' = timeline
    BY <1>5 DEF IncidentsInv
  <2> QED
    BY <2>1, <2>2, <2>3, <2>4 DEF FollowUpsAreEarned
<1>16. RowsTell'
  <2>1. RowTellsLastEntry'
    BY <1>3, <1>4, <1>5, <1>6, <1>11, QuietEntry
  <2>2. \A k \in DOMAIN cache'["api"] : k \in Manual /\ row'[k] # None
    BY <1>5, <1>11, NamesFact DEF IncidentsInv, RowsTell
  <2>3. \A k \in Incidents : row'[k] = None => Moves(k)' = {}
    BY <1>10, <1>11 DEF IncidentsInv, RowsTell
  <2> QED
    BY <2>1, <2>2, <2>3 DEF RowsTell
<1>17. Kept'
  BY <1>3, <1>4, <1>8, <1>11, KeptCommit
<1> QED
  BY <1>3, <1>7, <1>9, <1>12, <1>13, <1>14, <1>15, <1>16, <1>17 DEF IncidentsInv

LEMMA SaveCreatedKeeps ==
  ASSUME IncidentsInv, SaveCreated
  PROVE  IncidentsInv' /\ Holds
<1>1. PICK g : g = job["worker"].inc
  OBVIOUS
<1> DEFINE e == Entry("CREATED", None, None)
<1>2. /\ job["worker"].stage = "create" /\ g \in Groups /\ g \in Incidents /\ row[g] = None
      /\ "worker" \in Actors
  BY <1>1, NamesFact, JobFact DEF SaveCreated, IncidentsInv, JobFits
<1>3. e \in LogEntry /\ e.new = None /\ e.event = "CREATED"
  BY DEF Entry, LogEntry, Events
<1>4. /\ row' = [row EXCEPT ![g] = NewIncident]
      /\ history' = [history EXCEPT ![g] = Append(@, e)]
      /\ job' = [job EXCEPT !["worker"] = IdleJob]
      /\ UNCHANGED <<timeline, cache, pass, active, lost>>
  BY <1>1 DEF SaveCreated
<1> HIDE DEF e
<1>5. TypesFit /\ RowTellsLastEntry /\ Believable /\ Moves(g) = {}
  BY <1>2 DEF IncidentsInv, RowsTell
<1>6. /\ job' \in [Actors -> Job] /\ job'["worker"] = IdleJob
      /\ \A b \in Actors \ {"worker"} : job'[b] = job[b]
  BY <1>2, <1>4, <1>5, IdleFact DEF TypesFit
<1>7. Commits("worker", g, e)
  BY <1>4, <1>6 DEF Commits
<1>8. /\ Grows /\ Holds
      /\ \A b \in Actors \ {"worker"} : JobFits(b)'
      /\ \A p \in Processes : \A k \in DOMAIN cache'[p] : cache'[p][k].status \in Known(k)'
      /\ \A k \in Incidents : \A h \in Moves(k)' : h.old \in Known(k)'
      /\ \A k \in Incidents : row[k] # None => row[k].status \in Known(k)'
  BY <1>2, <1>3, <1>7, CommitFacts
<1>9. /\ history' \in [Incidents -> Seq(LogEntry)]
      /\ \A k \in Incidents \ {g} : history'[k] = history[k]
      /\ Range(history'[g]) = Range(history[g]) \cup {e}
      /\ \A k \in Incidents : Moves(k)' = Moves(k)
  BY <1>2, <1>3, <1>4, <1>5, AppendFacts
<1>10. /\ row' \in [Incidents -> Believed \cup {None}]
       /\ row'[g] # None /\ row'[g].status = "OPEN"
       /\ \A k \in Incidents \ {g} : row'[k] = row[k]
  BY <1>2, <1>4, <1>5, NewFact, NamesFact DEF TypesFit
<1>11. TypesFit'
  BY <1>4, <1>5, <1>6, <1>9, <1>10 DEF TypesFit
<1>12. JobFits("worker")'
  BY <1>6, IdleFact DEF JobFits
<1>13. Believable'
  <2>1. "OPEN" \in Known(g)'
    BY DEF Known, Logged
  <2>2. \A k \in Incidents : row'[k] # None => row'[k].status \in Known(k)'
    BY <1>8, <1>10, <2>1
  <2> QED
    BY <1>8, <2>2 DEF Believable
<1>14. FollowUpsAreEarned'
  <2>1. \A k \in Incidents : \A h \in Range(history'[k]) : h.event = "AUTO_ESCALATED" =>
           h \in Range(history[k])
    BY <1>3, <1>9
  <2>2. \A k \in Incidents :
           /\ Logged(k) \cup Pending(k) \cup lost[k] = Known(k)
           /\ (Logged(k) \cup Pending(k) \cup lost[k])' = Known(k)'
    BY DEF Known
  <2>3. \A k \in Incidents : Known(k) \subseteq Known(k)' /\ Logged(k) \subseteq Logged(k)'
    BY <1>8 DEF Grows
  <2>4. FollowUpsAreEarned /\ timeline' = timeline
    BY <1>4 DEF IncidentsInv
  <2> QED
    BY <2>1, <2>2, <2>3, <2>4 DEF FollowUpsAreEarned
<1>15. RowsTell'
  <2>1. RowTellsLastEntry'
    BY <1>2, <1>3, <1>4, <1>5, <1>10, QuietEntry
  <2>2. \A k \in DOMAIN cache'["api"] : k \in Manual /\ row'[k] # None
    BY <1>4, <1>10, NamesFact DEF IncidentsInv, RowsTell
  <2>3. \A k \in Incidents : row'[k] = None => Moves(k)' = {}
    BY <1>9, <1>10 DEF IncidentsInv, RowsTell
  <2> QED
    BY <2>1, <2>2, <2>3 DEF RowsTell
<1>16. Kept'
  <2>1. Created(g)' /\ \A k \in Groups \ {g} : Created(k)' <=> Created(k)
    BY <1>3, <1>9, NamesFact DEF Created
  <2>2. \A k \in Groups \ {g} : row'[k] = row[k]
    BY <1>10, NamesFact
  <2>3. pass.stage # "escalate"
    BY <1>2 DEF IncidentsInv, Kept
  <2>4. Kept
    BY DEF IncidentsInv
  <2> QED
    BY <1>1, <1>2, <1>4, <1>6, <1>10, <2>1, <2>2, <2>3, <2>4, IdleFact DEF Kept
<1> QED
  BY <1>6, <1>8, <1>11, <1>12, <1>13, <1>14, <1>15, <1>16 DEF IncidentsInv
LEMMA CreateIncidentKeeps ==
  ASSUME IncidentsInv, NEW s \in Sessions, CreateIncident(s)
  PROVE  IncidentsInv' /\ Holds
<1>1. PICK i \in Manual \cap NotYetKnown :
        /\ row' = [row EXCEPT ![i] = NewIncident]
        /\ cache' = [cache EXCEPT !["api"] = Put(@, i, NewIncident)]
  BY DEF CreateIncident
<1>2. UNCHANGED <<history, timeline, job, pass, active, lost>>
  BY DEF CreateIncident
<1>3. /\ i \in Incidents /\ i \notin Groups /\ row[i] = None /\ i \notin DOMAIN cache["api"]
      /\ "api" \in Processes /\ "worker" \in Processes \ {"api"}
  BY NamesFact, IncidentsAssumption DEF NotYetKnown
<1>4. TypesFit /\ Believable /\ RowsTell /\ Moves(i) = {}
  BY <1>3 DEF IncidentsInv, RowsTell
<1>5. /\ DOMAIN cache' = Processes
      /\ \A q \in Processes \ {"api"} : cache'[q] = cache[q]
      /\ DOMAIN cache'["api"] = DOMAIN cache["api"] \cup {i}
      /\ cache'["api"][i] = NewIncident
      /\ \A k \in DOMAIN cache["api"] : cache'["api"][k] = cache["api"][k]
      /\ cache'["api"] \in [DOMAIN cache'["api"] -> Believed]
  <2>1. cache["api"] \in [DOMAIN cache["api"] -> Believed] /\ "api" \in DOMAIN cache
    BY <1>3, <1>4 DEF TypesFit
  <2>2. cache'["api"] = Put(cache["api"], i, NewIncident)
    BY <1>1, <2>1
  <2> QED
    BY <1>1, <1>3, <1>4, <2>1, <2>2, NewFact DEF Put, TypesFit
<1>6. /\ row' \in [Incidents -> Believed \cup {None}]
      /\ row'[i] # None /\ row'[i].status = "OPEN"
      /\ \A k \in Incidents \ {i} : row'[k] = row[k]
  BY <1>1, <1>3, <1>4, NewFact, NamesFact DEF TypesFit
<1>7. \A k \in Incidents : Known(k)' = Known(k) /\ Logged(k)' = Logged(k) /\ Moves(k)' = Moves(k)
  BY <1>2 DEF Known, Logged, Moves, Pending
<1>8. Grows
  BY <1>7 DEF Grows
<1>9. "OPEN" \in Known(i)
  BY DEF Known, Logged
<1>10. TypesFit'
  <2>1. \A p \in Processes : DOMAIN cache'[p] \subseteq Incidents
                              /\ cache'[p] \in [DOMAIN cache'[p] -> Believed]
    BY <1>3, <1>4, <1>5 DEF TypesFit
  <2> QED
    BY <1>2, <1>4, <1>5, <1>6, <2>1 DEF TypesFit
<1>11. \A b \in Actors : JobFits(b)'
  <2>1. ASSUME NEW b \in Actors PROVE JobFits(b)'
    <3>1. DOMAIN cache[ProcessOf(b)] \subseteq DOMAIN cache'[ProcessOf(b)] /\ job'[b] = job[b]
      BY <1>2, <1>5, NamesFact
    <3> QED
      BY <1>8, <3>1, JobsKeep DEF IncidentsInv
  <2> QED
    BY <2>1
<1>12. Believable'
  <2>1. \A p \in Processes : \A k \in DOMAIN cache'[p] : cache'[p][k].status \in Known(k)'
    <3>1. ASSUME NEW p \in Processes, NEW k \in DOMAIN cache'[p]
          PROVE  k \in Incidents /\ cache'[p][k].status \in Known(k)
      BY <1>3, <1>4, <1>5, <1>9, NewFact DEF Believable, TypesFit
    <3> QED
      BY <1>7, <3>1
  <2>2. \A k \in Incidents : row'[k] # None => row'[k].status \in Known(k)
    BY <1>4, <1>6, <1>9 DEF Believable
  <2>3. \A k \in Incidents : \A h \in Moves(k)' : h.old \in Known(k)'
    BY <1>4, <1>7 DEF Believable
  <2> QED
    BY <1>7, <2>1, <2>2, <2>3 DEF Believable
<1>13. FollowUpsAreEarned'
  BY <1>2, <1>8, EarnedKeep DEF IncidentsInv
<1>14. RowsTell'
  <2>1. \A k \in DOMAIN cache'["api"] : k \in Manual /\ row'[k] # None
    BY <1>1, <1>4, <1>5, <1>6, NamesFact DEF RowsTell
  <2>2. \A k \in Incidents : row'[k] = None => Moves(k)' = {}
    BY <1>4, <1>6, <1>7 DEF RowsTell
  <2>3. RowTellsLastEntry'
    BY <1>2, <1>4, <1>6, <1>7 DEF RowsTell, RowTellsLastEntry
  <2> QED
    BY <2>1, <2>2, <2>3 DEF RowsTell
<1>15. Kept'
  <2>1. \A g \in Groups : row'[g] = row[g] /\ history'[g] = history[g] /\ lost'[g] = lost[g]
    BY <1>2, <1>3, <1>6, NamesFact
  <2> QED
    BY <1>2, <1>3, <1>5, <2>1, KeptFrame DEF IncidentsInv
<1>16. Holds
  BY <1>5 DEF Holds
<1> QED
  BY <1>10, <1>11, <1>12, <1>13, <1>14, <1>15, <1>16 DEF IncidentsInv

--------------------------------------------------------------------------------
(* Failures and restarts.                                                   *)

\* What was under way is dropped, and what it had decided is lost.
Drops ==
    /\ UNCHANGED <<row, history, timeline>>
    /\ job' \in [Actors -> Job]
    /\ \A b \in Actors : job'[b] = job[b] \/ job'[b] = IdleJob
    /\ lost' \in [Incidents -> SUBSET Statuses]
    /\ \A i \in Incidents : lost[i] \subseteq lost'[i]
    /\ \A b \in Actors : job[b].stage = "move" /\ job'[b] # job[b] =>
                            job[b].new \in lost'[job[b].inc]
    /\ DOMAIN cache' = Processes
    /\ \A p \in Processes :
          \/ cache'[p] = cache[p]
          \/ cache'[p] = Empty /\ \A b \in Actors : ProcessOf(b) = p => job'[b] = IdleJob
    /\ DOMAIN pass' = {"stage", "left"} /\ active' \subseteq Groups

LEMMA DropsFacts ==
  ASSUME IncidentsInv, Drops, Kept'
  PROVE  IncidentsInv' /\ Holds
<1>1. TypesFit /\ Believable /\ RowsTell /\ FollowUpsAreEarned
  BY DEF IncidentsInv
<1>2. \A k \in Incidents : Moves(k)' = Moves(k) /\ Logged(k)' = Logged(k)
  BY DEF Drops, Moves, Logged
<1>3. Grows
  <2>1. ASSUME NEW k \in Incidents PROVE Known(k) \subseteq Known(k)'
    <3>1. ASSUME NEW b \in Actors, job[b].inc = k, job[b].stage = "move"
          PROVE  job[b].new \in Known(k)'
      <4>1. CASE job'[b] = job[b]
        BY <3>1, <4>1 DEF Known, Pending
      <4>2. CASE job'[b] # job[b]
        BY <3>1, <4>2 DEF Known, Drops
      <4> QED
        BY <4>1, <4>2
    <3>2. Pending(k) \subseteq Known(k)'
      BY <3>1 DEF Pending
    <3>3. lost[k] \subseteq Known(k)' /\ Logged(k) \subseteq Known(k)'
      BY <1>2 DEF Known, Drops
    <3> QED
      BY <3>2, <3>3 DEF Known
  <2> QED
    BY <1>2, <2>1 DEF Grows
<1>4. Empty \in [DOMAIN Empty -> Believed] /\ DOMAIN Empty = {}
  BY DEF Empty
<1>5. TypesFit'
  <2>1. \A p \in Processes : DOMAIN cache'[p] \subseteq Incidents
                              /\ cache'[p] \in [DOMAIN cache'[p] -> Believed]
    BY <1>1, <1>4 DEF Drops, TypesFit
  <2> QED
    BY <1>1, <2>1 DEF Drops, TypesFit
<1>6. \A b \in Actors : JobFits(b)'
  <2>1. ASSUME NEW b \in Actors PROVE JobFits(b)'
    <3>1. CASE job'[b] = IdleJob
      BY <3>1, IdleFact DEF JobFits
    <3>2. CASE job'[b] # IdleJob
      <4>1. cache'[ProcessOf(b)] = cache[ProcessOf(b)] /\ job'[b] = job[b]
        BY <3>2, NamesFact DEF Drops
      <4> QED
        BY <1>1, <1>3, <4>1, JobsKeep DEF IncidentsInv
    <3> QED
      BY <3>1, <3>2
  <2> QED
    BY <2>1
<1>7. Believable'
  <2>1. ASSUME NEW p \in Processes, NEW k \in DOMAIN cache'[p]
        PROVE  cache'[p][k].status \in Known(k)'
    <3>1. cache'[p] = cache[p] /\ k \in Incidents
      BY <1>1, <1>4 DEF Drops, TypesFit
    <3> QED
      BY <1>1, <1>3, <3>1 DEF Believable, Grows
  <2>2. \A p \in Processes : \A k \in DOMAIN cache'[p] : cache'[p][k].status \in Known(k)'
    BY <2>1
  <2>3. \A k \in Incidents : row'[k] # None => row'[k].status \in Known(k)'
    BY <1>1, <1>3 DEF Believable, Grows, Drops
  <2>4. \A k \in Incidents : \A h \in Moves(k)' : h.old \in Known(k)'
    BY <1>1, <1>2, <1>3 DEF Believable, Grows
  <2> QED
    BY <2>2, <2>3, <2>4 DEF Believable
<1>8. FollowUpsAreEarned'
  BY <1>1, <1>3, EarnedKeep DEF Drops
<1>9. RowsTell'
  <2>1. RowTellsLastEntry'
    BY <1>1, RowsKeep DEF Drops, RowsTell
  <2>2. \A k \in DOMAIN cache'["api"] : k \in Manual /\ row'[k] # None
    BY <1>1, <1>4, NamesFact DEF Drops, RowsTell
  <2> QED
    BY <1>1, <1>2, <2>1, <2>2 DEF Drops, RowsTell
<1>10. Holds
  BY <1>4 DEF Holds, Drops
<1> QED
  BY <1>5, <1>6, <1>7, <1>8, <1>9, <1>10 DEF IncidentsInv

LEMMA CommitFailsKeeps ==
  ASSUME IncidentsInv, NEW a \in Actors, CommitFails(a)
  PROVE  IncidentsInv' /\ Holds
<1>1. /\ job[a].stage # "idle" /\ job' = [job EXCEPT ![a] = IdleJob]
      /\ lost' = IF job[a].stage \in {"move", "create"}
                 THEN [lost EXCEPT ![job[a].inc] = @ \cup {job[a].new}] ELSE lost
      /\ pass' = IF a = "worker" THEN IdlePass ELSE pass
      /\ UNCHANGED <<row, history, timeline, cache, active>>
  BY DEF CommitFails
<1>2. /\ job[a].inc \in Incidents
      /\ a # "worker" => job[a].inc \notin Groups
  BY <1>1, JobFact
<1>3. job[a].stage \in {"move", "create"} => job[a].new \in Statuses
  BY <1>1, NewFact DEF IncidentsInv, JobFits
<1>4. TypesFit /\ Kept
  BY DEF IncidentsInv
<1>5. /\ job' \in [Actors -> Job] /\ job'[a] = IdleJob
      /\ \A b \in Actors \ {a} : job'[b] = job[b]
  BY <1>1, <1>4, IdleFact DEF TypesFit
<1>6. /\ lost' \in [Incidents -> SUBSET Statuses]
      /\ \A i \in Incidents : lost[i] \subseteq lost'[i]
      /\ \A i \in Incidents \ {job[a].inc} : lost'[i] = lost[i]
      /\ job[a].stage \in {"move", "create"} => job[a].new \in lost'[job[a].inc]
  BY <1>1, <1>2, <1>3, <1>4 DEF TypesFit
<1>7. DOMAIN pass' = {"stage", "left"}
  BY <1>1, <1>4 DEF TypesFit, IdlePass
<1>8. Drops
  BY <1>1, <1>4, <1>5, <1>6, <1>7 DEF Drops, TypesFit
<1>9. Kept'
  <2>1. CASE a # "worker"
    <3>1. \A g \in Groups : row'[g] = row[g] /\ history'[g] = history[g] /\ lost'[g] = lost[g]
      BY <1>1, <1>2, <1>6, <2>1, NamesFact
    <3> QED
      BY <1>1, <1>4, <1>5, <2>1, <3>1, NamesFact, KeptFrame
  <2>2. CASE a = "worker"
    <3>1. job'["worker"].stage = "idle" /\ pass'.stage = "idle"
      BY <1>1, <1>5, <2>2, IdleFact DEF IdlePass
    <3>2. \A g \in Groups : lost'[g] = {} =>
            lost[g] = {} /\ ~(job["worker"].stage = "create" /\ job["worker"].inc = g)
      BY <1>2, <1>6, <2>2, NamesFact
    <3> QED
      BY <1>1, <1>4, <3>1, <3>2 DEF Kept, Created
  <2> QED
    BY <2>1, <2>2
<1> QED
  BY <1>8, <1>9, DropsFacts

LEMMA RestartApiKeeps ==
  ASSUME IncidentsInv, RestartApi
  PROVE  IncidentsInv' /\ Holds
<1> DEFINE gone(i) == {job[s].new : s \in {x \in Sessions : job[x].stage = "move" /\ job[x].inc = i}}
<1>1. /\ cache' = [cache EXCEPT !["api"] = Empty]
      /\ lost' = [i \in Incidents |-> lost[i] \cup gone(i)]
      /\ job' = [a \in Actors |-> IF a = "worker" THEN job[a] ELSE IdleJob]
      /\ UNCHANGED <<row, history, timeline, pass, active>>
  BY DEF RestartApi
<1>2. TypesFit /\ Kept
  BY DEF IncidentsInv
<1>3. \A s \in Sessions : job[s].stage = "move" =>
        job[s].inc \in Incidents \ Groups /\ job[s].new \in Statuses
  BY NamesFact, JobFact DEF IncidentsInv, JobFits
<1>4. /\ job' \in [Actors -> Job] /\ job'["worker"] = job["worker"]
      /\ \A s \in Sessions : job'[s] = IdleJob
  BY <1>1, <1>2, NamesFact, IdleFact DEF TypesFit
<1>5. /\ lost' \in [Incidents -> SUBSET Statuses]
      /\ \A i \in Incidents : lost[i] \subseteq lost'[i]
      /\ \A g \in Groups : lost'[g] = lost[g]
      /\ \A s \in Sessions : job[s].stage = "move" => job[s].new \in lost'[job[s].inc]
  <2>1. \A i \in Incidents : gone(i) \subseteq Statuses
    BY <1>3
  <2>2. \A g \in Groups : gone(g) = {}
    BY <1>3
  <2>3. \A s \in Sessions : job[s].stage = "move" => job[s].new \in gone(job[s].inc)
    OBVIOUS
  <2> HIDE DEF gone
  <2> QED
    BY <1>1, <1>2, <1>3, <2>1, <2>2, <2>3, NamesFact DEF TypesFit
<1>6. /\ DOMAIN cache' = Processes /\ cache'["api"] = Empty
      /\ \A p \in Processes \ {"api"} : cache'[p] = cache[p]
  BY <1>1, <1>2, NamesFact DEF TypesFit
<1>7. Drops
  <2>1. \A b \in Actors : ProcessOf(b) = "api" => job'[b] = IdleJob
    BY <1>4, NamesFact
  <2>2. \A b \in Actors : job'[b] = job[b] \/ (b \in Sessions /\ job'[b] = IdleJob)
    BY <1>4, NamesFact
  <2> QED
    BY <1>1, <1>2, <1>4, <1>5, <1>6, <2>1, <2>2 DEF Drops, TypesFit
<1>8. Kept'
  BY <1>1, <1>2, <1>4, <1>5, <1>6, NamesFact, KeptFrame
<1> QED
  BY <1>7, <1>8, DropsFacts

LEMMA RestartWorkerKeeps ==
  ASSUME IncidentsInv, RestartWorker
  PROVE  IncidentsInv' /\ Holds
<1>1. /\ cache' = [cache EXCEPT !["worker"] = Empty]
      /\ lost' = IF job["worker"].stage \in {"move", "create"}
                 THEN [lost EXCEPT ![job["worker"].inc] = @ \cup {job["worker"].new}] ELSE lost
      /\ job' = [job EXCEPT !["worker"] = IdleJob]
      /\ pass' = IdlePass /\ active' = {}
      /\ UNCHANGED <<row, history, timeline>>
  BY DEF RestartWorker
<1>2. TypesFit /\ Kept /\ "worker" \in Actors /\ "worker" \in Processes
  BY NamesFact DEF IncidentsInv
<1>3. job["worker"].stage \in {"move", "create"} =>
        job["worker"].inc \in Incidents /\ job["worker"].new \in Statuses
  BY <1>2, JobFact, NewFact DEF IncidentsInv, JobFits
<1>4. /\ job' \in [Actors -> Job] /\ job'["worker"] = IdleJob
      /\ \A b \in Actors \ {"worker"} : job'[b] = job[b]
  BY <1>1, <1>2, IdleFact DEF TypesFit
<1>5. /\ lost' \in [Incidents -> SUBSET Statuses]
      /\ \A i \in Incidents : lost[i] \subseteq lost'[i]
      /\ job["worker"].stage = "move" => job["worker"].new \in lost'[job["worker"].inc]
  BY <1>1, <1>2, <1>3 DEF TypesFit
<1>6. /\ DOMAIN cache' = Processes /\ cache'["worker"] = Empty
      /\ \A p \in Processes \ {"worker"} : cache'[p] = cache[p]
  BY <1>1, <1>2 DEF TypesFit
<1>7. DOMAIN pass' = {"stage", "left"} /\ pass'.stage = "idle"
  BY <1>1 DEF IdlePass
<1>8. Drops
  <2>1. \A b \in Actors : ProcessOf(b) = "worker" => job'[b] = IdleJob
    BY <1>4, NamesFact
  <2> QED
    BY <1>1, <1>4, <1>5, <1>6, <1>7, <2>1 DEF Drops
<1>9. Kept'
  <2>1. \A g \in Groups : lost'[g] = {} => lost[g] = {}
    BY <1>5, NamesFact
  <2> QED
    BY <1>1, <1>2, <1>4, <1>6, <1>7, <2>1, IdleFact DEF Kept, Created, Empty
<1> QED
  BY <1>8, <1>9, DropsFacts
--------------------------------------------------------------------------------
(* The worker's pass.                                                       *)

\* A step of the pass that commits nothing: the worker's dictionary stays, or is
\* loaded while the worker has nothing to commit.
PassesOn ==
    /\ UNCHANGED <<row, history, timeline, job, lost>>
    /\ DOMAIN cache' = Processes /\ cache'["api"] = cache["api"]
    /\ \/ cache'["worker"] = cache["worker"]
       \/ /\ job["worker"].stage = "idle" /\ pass = IdlePass
          /\ cache'["worker"] = Loaded
    /\ DOMAIN pass' = {"stage", "left"} /\ active' \subseteq Groups

LEMMA PassesOnFacts ==
  ASSUME IncidentsInv, PassesOn, Kept'
  PROVE  IncidentsInv' /\ Holds
<1>1. TypesFit /\ Believable /\ RowsTell /\ FollowUpsAreEarned
  BY DEF IncidentsInv
<1>2. \A k \in Incidents : Known(k)' = Known(k) /\ Logged(k)' = Logged(k) /\ Moves(k)' = Moves(k)
  BY DEF PassesOn, Known, Logged, Moves, Pending
<1>3. Grows
  BY <1>2 DEF Grows
<1>4. /\ DOMAIN Loaded \subseteq Incidents /\ Loaded \in [DOMAIN Loaded -> Believed]
      /\ \A i \in DOMAIN Loaded : row[i] # None /\ Loaded[i] = row[i]
  BY <1>1 DEF Loaded, TypesFit
<1> HIDE DEF Loaded
<1>5. TypesFit'
  <2>1. \A p \in Processes : DOMAIN cache'[p] \subseteq Incidents
                              /\ cache'[p] \in [DOMAIN cache'[p] -> Believed]
    BY <1>1, <1>4 DEF PassesOn, TypesFit, Processes
  <2> QED
    BY <1>1, <2>1 DEF PassesOn, TypesFit
<1>6. \A b \in Actors : JobFits(b)'
  <2>1. ASSUME NEW b \in Actors PROVE JobFits(b)'
    <3>1. CASE job[b].stage = "idle"
      BY <3>1 DEF JobFits, PassesOn
    <3>2. CASE job[b].stage # "idle"
      <4>1. cache'[ProcessOf(b)] = cache[ProcessOf(b)] /\ job'[b] = job[b]
        BY <3>2, NamesFact DEF PassesOn
      <4> QED
        BY <1>1, <1>3, <4>1, JobsKeep DEF IncidentsInv
    <3> QED
      BY <3>1, <3>2
  <2> QED
    BY <2>1
<1>7. Believable'
  <2>1. ASSUME NEW p \in Processes, NEW k \in DOMAIN cache'[p]
        PROVE  k \in Incidents /\ cache'[p][k].status \in Known(k)
    <3>1. CASE cache'[p] = cache[p]
      BY <1>1, <3>1 DEF Believable, TypesFit
    <3>2. CASE cache'[p] = Loaded
      BY <1>1, <1>4, <3>2 DEF Believable
    <3> QED
      BY <3>1, <3>2 DEF PassesOn, Processes
  <2>2. \A p \in Processes : \A k \in DOMAIN cache'[p] : cache'[p][k].status \in Known(k)'
    BY <1>2, <2>1
  <2>3. \A k \in Incidents : row'[k] # None => row'[k].status \in Known(k)'
    BY <1>1, <1>2 DEF Believable, PassesOn
  <2>4. \A k \in Incidents : \A h \in Moves(k)' : h.old \in Known(k)'
    BY <1>1, <1>2 DEF Believable
  <2> QED
    BY <2>2, <2>3, <2>4 DEF Believable
<1>8. FollowUpsAreEarned'
  BY <1>1, <1>3, EarnedKeep DEF PassesOn
<1>9. RowsTell'
  <2>1. RowTellsLastEntry'
    BY <1>1, RowsKeep DEF PassesOn, RowsTell
  <2> QED
    BY <1>1, <1>2, <2>1 DEF PassesOn, RowsTell
<1>10. Holds
  BY DEF Holds, PassesOn, Processes
<1> QED
  BY <1>5, <1>6, <1>7, <1>8, <1>9, <1>10 DEF IncidentsInv

LEMMA PassKeeps ==
  ASSUME IncidentsInv, AlertsChange \/ StartPass \/ GroupsSynced \/ EndPass
  PROVE  IncidentsInv' /\ Holds
<1>1. TypesFit /\ Kept /\ job["worker"].stage = "idle"
  BY IdleFact DEF IncidentsInv, AlertsChange, StartPass, GroupsSynced, EndPass, Kept, IdlePass
<1>2. \A g \in Groups : lost[g] = {} =>
         /\ row[g] # None => Created(g)
         /\ g \in DOMAIN cache["worker"] => row[g] # None
  BY <1>1 DEF Kept
<1>3. CASE AlertsChange
  <2>1. UNCHANGED <<row, history, timeline, cache, job, pass, lost>> /\ pass = IdlePass
        /\ active' \subseteq Groups
    BY <1>3 DEF AlertsChange
  <2>2. Kept'
    BY <1>1, <2>1 DEF Kept, Created, IdlePass
  <2> QED
    BY <1>1, <2>1, <2>2, PassesOnFacts DEF PassesOn, TypesFit
<1>4. CASE StartPass
  <2>1. /\ UNCHANGED <<row, history, timeline, job, active, lost>> /\ pass = IdlePass
        /\ cache' = [cache EXCEPT !["worker"] = Loaded] \/ UNCHANGED cache
        /\ pass' = [stage |-> "sync", left |-> active]
    BY <1>4 DEF StartPass
  <2>2. /\ DOMAIN cache' = Processes /\ cache'["api"] = cache["api"]
        /\ cache'["worker"] = cache["worker"] \/ cache'["worker"] = Loaded
    BY <1>1, <2>1, NamesFact DEF TypesFit
  <2>3. \A g \in Groups : lost[g] = {} => (g \in DOMAIN cache'["worker"] => row[g] # None)
    BY <1>2, <2>2 DEF Loaded
  <2>4. Kept'
    BY <1>1, <1>2, <2>1, <2>3 DEF Kept, Created
  <2> QED
    BY <1>1, <2>1, <2>2, <2>4, PassesOnFacts DEF PassesOn, TypesFit
<1>5. CASE GroupsSynced
  <2>1. /\ UNCHANGED <<row, history, timeline, cache, job, active, lost>>
        /\ pass.stage = "sync" /\ pass.left = {}
        /\ pass' = [stage |-> "escalate", left |-> DOMAIN cache["worker"]]
    BY <1>5 DEF GroupsSynced
  <2>2. Kept'
    BY <1>1, <2>1 DEF Kept, Created
  <2> QED
    BY <1>1, <2>1, <2>2, PassesOnFacts DEF PassesOn, TypesFit
<1>6. CASE EndPass
  <2>1. /\ UNCHANGED <<row, history, timeline, cache, job, active, lost>> /\ pass' = IdlePass
    BY <1>6 DEF EndPass
  <2>2. Kept'
    BY <1>1, <2>1 DEF Kept, Created, IdlePass
  <2> QED
    BY <1>1, <2>1, <2>2, PassesOnFacts DEF PassesOn, TypesFit, IdlePass
<1> QED
  BY <1>3, <1>4, <1>5, <1>6

LEMMA SyncGroupKeeps ==
  ASSUME IncidentsInv, NEW g \in Groups, SyncGroup(g)
  PROVE  IncidentsInv' /\ Holds
<1>1. /\ pass.stage = "sync" /\ g \in pass.left /\ job["worker"] = IdleJob
      /\ pass' = [pass EXCEPT !.left = @ \ {g}]
      /\ UNCHANGED <<row, history, timeline, active, lost>>
  BY DEF SyncGroup
<1>2. TypesFit /\ Kept /\ g \in Incidents /\ "worker" \in Actors /\ "worker" \in Processes
      /\ ProcessOf("worker") = "worker" /\ g \in DOMAIN row
  BY NamesFact DEF IncidentsInv, TypesFit
<1>3. DOMAIN pass' = {"stage", "left"} /\ pass'.stage = "sync" /\ pass'.left = pass.left \ {g}
      /\ active' \subseteq Groups
  BY <1>1, <1>2 DEF TypesFit
<1>4. CASE g \in DOMAIN cache["worker"]
  <2>1. UNCHANGED <<cache, job>>
    BY <1>4 DEF SyncGroup
  <2>2. Kept'
    BY <1>1, <1>2, <1>3, <1>4, <2>1 DEF Kept, Created
  <2> QED
    BY <1>1, <1>2, <1>3, <2>1, <2>2, PassesOnFacts DEF PassesOn, TypesFit
<1>5. CASE g \notin DOMAIN cache["worker"]
  <2> DEFINE j == [IdleJob EXCEPT !.stage = "create", !.inc = g, !.new = "OPEN"]
  <2>1. cache' = [cache EXCEPT !["worker"] = Put(@, g, NewIncident)]
        /\ job' = [job EXCEPT !["worker"] = j]
    BY <1>5 DEF SyncGroup
  <2>2. j \in Job /\ j.stage = "create" /\ j.inc = g /\ j.new = "OPEN"
    BY <1>2 DEF IdleJob, Job, Jobs, Statuses
  <2> HIDE DEF j
  <2>3. /\ job' \in [Actors -> Job] /\ job'["worker"] = j
        /\ \A b \in Actors \ {"worker"} : job'[b] = job[b]
    BY <1>2, <2>1, <2>2 DEF TypesFit
  <2>4. /\ DOMAIN cache' = Processes
        /\ \A q \in Processes \ {"worker"} : cache'[q] = cache[q]
        /\ DOMAIN cache'["worker"] = DOMAIN cache["worker"] \cup {g}
        /\ cache'["worker"][g] = NewIncident
        /\ \A k \in DOMAIN cache["worker"] : cache'["worker"][k] = cache["worker"][k]
        /\ cache'["worker"] \in [DOMAIN cache'["worker"] -> Believed]
        /\ DOMAIN cache'["worker"] \subseteq Incidents
    <3>1. cache["worker"] \in [DOMAIN cache["worker"] -> Believed] /\ "worker" \in DOMAIN cache
          /\ DOMAIN cache["worker"] \subseteq Incidents
      BY <1>2 DEF TypesFit
    <3>2. cache'["worker"] = Put(cache["worker"], g, NewIncident)
      BY <2>1, <3>1
    <3> QED
      BY <1>2, <1>5, <2>1, <3>1, <3>2, NewFact DEF Put, TypesFit
  <2>5. Decides("worker")
    BY <1>1, <1>2, <1>5, <2>3, <2>4, IdleFact, NewFact DEF Decides, OneActor
  <2>6. JobFits("worker")'
    BY <1>2, <2>2, <2>3, <2>4 DEF JobFits
  <2>7. Kept'
    <3>1. \A h \in Groups : lost'[h] = {} =>
             /\ row'[h] # None => Created(h)'
             /\ h \in DOMAIN cache'["worker"] =>
                  row'[h] # None \/ (job'["worker"].stage = "create" /\ job'["worker"].inc = h)
      BY <1>1, <1>2, <2>2, <2>3, <2>4, IdleFact DEF Kept, Created
    <3>2. active' \ pass'.left \subseteq DOMAIN cache'["worker"]
      BY <1>1, <1>2, <1>3, <2>4 DEF Kept
    <3> QED
      BY <1>3, <3>1, <3>2 DEF Kept
  <2> QED
    BY <1>2, <1>3, <2>5, <2>6, <2>7, DecidesFacts DEF IncidentsInv
<1> QED
  BY <1>4, <1>5

LEMMA EscalateOverdueKeeps ==
  ASSUME IncidentsInv, NEW i \in Incidents, EscalateOverdue(i)
  PROVE  IncidentsInv' /\ Holds
<1>1. /\ pass.stage = "escalate" /\ i \in pass.left /\ job["worker"] = IdleJob
      /\ UNCHANGED <<row, history, timeline, active, lost>>
  BY DEF EscalateOverdue
<1>2. TypesFit /\ Kept /\ "worker" \in Actors /\ ProcessOf("worker") = "worker"
      /\ i \in DOMAIN cache["worker"] /\ job["worker"].stage = "idle"
  BY <1>1, NamesFact, IdleFact DEF IncidentsInv, Kept
<1>3. CASE "ESCALATED" \in MayBecome(cache["worker"][i].status)
  <2>1. Moving("worker", i, "ESCALATED", "AUTO_ESCALATED")
        /\ pass' = [pass EXCEPT !.left = @ \ {i}]
    BY <1>3 DEF EscalateOverdue
  <2>2. Decides("worker") /\ JobFits("worker")'
    BY <1>1, <1>2, <1>3, <2>1, MovingDecides DEF Follows
  <2>3. /\ DOMAIN cache["worker"] \subseteq DOMAIN cache'["worker"]
        /\ DOMAIN cache'["worker"] = DOMAIN cache["worker"]
        /\ job'["worker"].stage = "move"
    BY <1>2, <2>1, <2>2 DEF Moving, Decides, TypesFit
  <2>4. DOMAIN pass' = {"stage", "left"} /\ pass'.stage = "escalate" /\ pass'.left = pass.left \ {i}
        /\ active' \subseteq Groups
    BY <1>1, <1>2, <2>1 DEF TypesFit
  <2>5. Kept'
    BY <1>1, <1>2, <2>3, <2>4 DEF Kept, Created
  <2> QED
    BY <1>2, <2>2, <2>4, <2>5, DecidesFacts DEF IncidentsInv
<1>4. CASE "ESCALATED" \notin MayBecome(cache["worker"][i].status)
  <2>1. UNCHANGED <<cache, job>> /\ pass' = IdlePass
    BY <1>4 DEF EscalateOverdue
  <2>2. Kept'
    BY <1>1, <1>2, <2>1 DEF Kept, Created, IdlePass
  <2> QED
    BY <1>1, <1>2, <2>1, <2>2, PassesOnFacts DEF PassesOn, TypesFit, IdlePass
<1> QED
  BY <1>3, <1>4

LEMMA StutterKeeps ==
  ASSUME IncidentsInv, UNCHANGED vars
  PROVE  IncidentsInv' /\ Holds
<1>1. Kept'
  BY DEF IncidentsInv, Kept, Created, vars
<1> QED
  BY <1>1, PassesOnFacts DEF PassesOn, vars, IncidentsInv, TypesFit

--------------------------------------------------------------------------------
(* The theorems.                                                            *)

LEMMA TravelledFacts ==
  ASSUME NEW path \in Paths
  PROVE  /\ Travelled(path) \in Seq(LogEntry) /\ At(path) \in Believed
         /\ \A h \in Range(Travelled(path)) : h.event # "AUTO_ESCALATED" /\ h.new # None
         /\ \A h \in Range(Travelled(path)) :
               h.old \in {"OPEN"} \cup {x.new : x \in Range(Travelled(path))}
         /\ \/ Range(Travelled(path)) = {} /\ At(path).status = "OPEN"
            \/ \E n \in DOMAIN Travelled(path) :
                  /\ Travelled(path)[n].new = At(path).status
                  /\ \A m \in DOMAIN Travelled(path) : ~(m > n)
<1> DEFINE t == Travelled(path)
<1>1. CASE path = <<>>
  <2>1. DOMAIN t = {} /\ t = <<>>
    BY <1>1 DEF Travelled
  <2>2. Range(t) = {}
    BY <2>1 DEF Range
  <2>3. At(path) \in Believed /\ At(path).status = "OPEN"
    BY <1>1 DEF At, NewIncident, Believed, Statuses
  <2> QED
    BY <2>1, <2>2, <2>3
<1>2. CASE path # <<>>
  <2> DEFINE z == Len(path)
  <2>1. /\ path \in Seq(Statuses) /\ z \in 1..3 /\ DOMAIN path = 1..z
        /\ "AUTO_ESCALATED" \notin Statuses
    <3>1. CASE path = <<"ESCALATED">>
      BY <3>1 DEF Statuses
    <3>2. CASE path = <<"ESCALATED", "CONTAINED">>
      BY <3>2 DEF Statuses
    <3>3. CASE path = <<"ESCALATED", "CONTAINED", "RESOLVED">>
      BY <3>3 DEF Statuses
    <3> QED
      BY <1>2, <3>1, <3>2, <3>3 DEF Paths
  <2>2. /\ DOMAIN t = 1..z
        /\ \A n \in 1..z : t[n] = Entry(path[n], IF n = 1 THEN "OPEN" ELSE path[n-1], path[n])
    BY <2>1 DEF Travelled
  <2>3. \A n \in 1..z : path[n] \in Statuses /\ (n # 1 => n - 1 \in 1..z)
    BY <2>1
  <2>4. \A n \in 1..z : /\ t[n] \in LogEntry /\ t[n].event = path[n] /\ t[n].new = path[n]
                        /\ t[n].old = IF n = 1 THEN "OPEN" ELSE path[n-1]
    BY <2>1, <2>2, <2>3 DEF Entry, LogEntry, Events, Statuses
  <2>5. t \in Seq(LogEntry)
    <3>1. t = [n \in 1..z |-> t[n]]
      BY <2>2 DEF Travelled
    <3> QED
      BY <2>1, <2>4, <3>1
  <2>6. At(path) \in Believed /\ At(path).status = path[z]
    BY <1>2, <2>1, <2>3 DEF At, NewIncident, Believed, Last
  <2>7. \A h \in Range(t) : h.event # "AUTO_ESCALATED" /\ h.new # None
    BY <2>1, <2>2, <2>3, <2>4, NamesFact DEF Range
  <2>8. \A h \in Range(t) : h.old \in {"OPEN"} \cup {x.new : x \in Range(t)}
    <3>1. ASSUME NEW h \in Range(t) PROVE h.old \in {"OPEN"} \cup {x.new : x \in Range(t)}
      <4>1. PICK n \in 1..z : h = t[n]
        BY <2>2, <3>1 DEF Range
      <4>2. CASE n # 1
        <5>1. n - 1 \in 1..z /\ h.old = path[n-1]
          BY <2>3, <2>4, <4>1, <4>2
        <5>2. t[n-1] \in Range(t) /\ t[n-1].new = path[n-1]
          BY <2>2, <2>4, <5>1 DEF Range
        <5> QED
          BY <5>1, <5>2
      <4> QED
        BY <2>4, <4>1, <4>2
    <3> QED
      BY <3>1
  <2>9. z \in DOMAIN t /\ t[z].new = path[z] /\ \A m \in DOMAIN t : ~(m > z)
    BY <2>1, <2>2, <2>4
  <2> QED
    BY <2>5, <2>6, <2>7, <2>8, <2>9
<1> QED
  BY <1>1, <1>2

LEMMA InitFits == IncidentsInit => IncidentsInv
<1> SUFFICES ASSUME IncidentsInit PROVE IncidentsInv
  OBVIOUS
<1>1. PICK known \in SUBSET Manual : \E path \in [known -> Paths] :
         /\ row = [i \in Incidents |-> IF i \in known THEN At(path[i]) ELSE None]
         /\ history = [i \in Incidents |-> IF i \in known THEN Travelled(path[i]) ELSE <<>>]
         /\ cache = [p \in Processes |->
                       IF p = "api" THEN [i \in known |-> At(path[i])] ELSE Empty]
  BY DEF IncidentsInit
<1>2. PICK path \in [known -> Paths] :
         /\ row = [i \in Incidents |-> IF i \in known THEN At(path[i]) ELSE None]
         /\ history = [i \in Incidents |-> IF i \in known THEN Travelled(path[i]) ELSE <<>>]
         /\ cache = [p \in Processes |->
                       IF p = "api" THEN [i \in known |-> At(path[i])] ELSE Empty]
  BY <1>1
<1>3. /\ timeline = [i \in Incidents |-> <<>>] /\ job = [a \in Actors |-> IdleJob]
      /\ pass = IdlePass /\ active \in SUBSET Groups /\ lost = [i \in Incidents |-> {}]
  BY DEF IncidentsInit
<1>4. known \subseteq Incidents /\ known \cap Groups = {} /\ "api" \in Processes
      /\ "worker" \in Processes
  BY NamesFact, IncidentsAssumption
<1>5. \A i \in known : /\ row[i] = At(path[i]) /\ row[i] \in Believed /\ row[i] # None
                       /\ history[i] = Travelled(path[i]) /\ history[i] \in Seq(LogEntry)
  BY <1>2, <1>4, TravelledFacts, NamesFact
<1>6. \A i \in Incidents \ known : row[i] = None /\ history[i] = <<>> /\ Range(history[i]) = {}
  BY <1>2 DEF Range
<1>7. /\ DOMAIN cache = Processes /\ cache["api"] = [i \in known |-> At(path[i])]
      /\ DOMAIN cache["api"] = known /\ \A i \in known : cache["api"][i] = row[i]
      /\ \A p \in Processes \ {"api"} : DOMAIN cache[p] = {} /\ cache[p] = Empty
  BY <1>2, <1>4, <1>5 DEF Empty
<1>8. TypesFit
  <2>1. row \in [Incidents -> Believed \cup {None}] /\ history \in [Incidents -> Seq(LogEntry)]
    <3>1. ASSUME NEW i \in Incidents
          PROVE  row[i] \in Believed \cup {None} /\ history[i] \in Seq(LogEntry)
      <4>1. CASE i \in known
        BY <1>5, <4>1
      <4>2. CASE i \notin known
        <5>1. row[i] = None /\ history[i] = <<>>
          BY <1>6, <4>2
        <5> QED
          BY <5>1
      <4> QED
        BY <4>1, <4>2
    <3>2. DOMAIN row = Incidents /\ DOMAIN history = Incidents
          /\ row = [i \in Incidents |-> row[i]] /\ history = [i \in Incidents |-> history[i]]
      BY <1>2
    <3> QED
      BY <3>1, <3>2
  <2>2. timeline \in [Incidents -> Seq(Investigates)] /\ lost \in [Incidents -> SUBSET Statuses]
        /\ job \in [Actors -> Job] /\ DOMAIN pass = {"stage", "left"}
    BY <1>3, IdleFact DEF IdlePass
  <2>3. cache["api"] \in [known -> Believed] /\ Empty \in [{} -> Believed]
    BY <1>5, <1>7 DEF Empty
  <2>4. \A p \in Processes : DOMAIN cache[p] \subseteq Incidents
                              /\ cache[p] \in [DOMAIN cache[p] -> Believed]
    BY <1>4, <1>7, <2>3
  <2> QED
    BY <1>3, <1>7, <2>1, <2>2, <2>4 DEF TypesFit
<1>9. \A a \in Actors : job[a].stage = "idle" /\ JobFits(a)
  BY <1>3, IdleFact DEF JobFits
<1>10. \A i \in known : /\ Moves(i) = Range(Travelled(path[i]))
                        /\ \A h \in Moves(i) : h.old \in Logged(i)
                        /\ row[i].status \in Logged(i)
  <2>1. ASSUME NEW i \in known
        PROVE  /\ Moves(i) = Range(Travelled(path[i]))
               /\ \A h \in Moves(i) : h.old \in Logged(i)
               /\ row[i].status \in Logged(i)
    <3>1. Moves(i) = Range(Travelled(path[i]))
      BY <1>5, TravelledFacts DEF Moves
    <3>2. Logged(i) = {"OPEN"} \cup {x.new : x \in Range(Travelled(path[i]))}
      BY <3>1 DEF Logged
    <3>3. At(path[i]).status \in Logged(i)
      BY <3>2, TravelledFacts DEF Range
    <3> QED
      BY <1>5, <3>1, <3>2, <3>3, TravelledFacts
  <2> QED
    BY <2>1
<1>11. \A i \in Incidents \ known : Moves(i) = {}
  BY <1>6 DEF Moves
<1>12. Believable
  <2>1. \A p \in Processes : \A i \in DOMAIN cache[p] : cache[p][i].status \in Known(i)
    <3>1. ASSUME NEW p \in Processes, NEW i \in DOMAIN cache[p]
          PROVE  cache[p][i].status \in Known(i)
      <4>1. p = "api" /\ i \in known /\ cache[p][i] = row[i]
        BY <1>7
      <4>2. row[i].status \in Logged(i)
        BY <1>10, <4>1
      <4>3. Logged(i) \subseteq Known(i)
        BY DEF Known
      <4>4. cache[p][i].status = row[i].status
        BY <4>1
      <4> QED
        BY <4>2, <4>3, <4>4
    <3> QED
      BY <3>1
  <2> QED
    <3>1. ASSUME NEW i \in Incidents, row[i] # None PROVE row[i].status \in Known(i)
      <4>1. i \in known
        BY <1>6, <3>1
      <4>2. row[i].status \in Logged(i)
        BY <1>10, <4>1
      <4> QED
        BY <4>2 DEF Known
    <3>2. \A i \in Incidents : \A h \in Moves(i) : h.old \in Known(i)
      BY <1>10, <1>11 DEF Known
    <3> QED
      BY <2>1, <3>1, <3>2 DEF Believable
<1>13. FollowUpsAreEarned
  <2>1. \A i \in Incidents : Range(timeline[i]) = {}
    <3>1. ASSUME NEW i \in Incidents PROVE Range(timeline[i]) = {}
      <4>1. timeline[i] = <<>>
        BY <1>3
      <4>2. DOMAIN timeline[i] = {}
        BY <4>1
      <4> QED
        BY <4>2 DEF Range
    <3> QED
      BY <3>1
  <2>2. \A i \in Incidents : \A h \in Range(history[i]) : h.event # "AUTO_ESCALATED"
    <3>1. ASSUME NEW i \in known PROVE \A h \in Range(history[i]) : h.event # "AUTO_ESCALATED"
      <4>1. history[i] = Travelled(path[i]) /\ path[i] \in Paths
        BY <1>5
      <4>2. Range(history[i]) = Range(Travelled(path[i]))
        BY <4>1
      <4> QED
        BY <4>1, <4>2, TravelledFacts
    <3> QED
      BY <1>6, <3>1
  <2> QED
    BY <2>1, <2>2 DEF FollowUpsAreEarned
<1>14. RowsTell
  <2>1. RowTellsLastEntry
    <3>1. ASSUME NEW i \in Incidents, row[i] # None
          PROVE  IF Moves(i) = {} THEN lost[i] \subseteq {"OPEN"} => row[i].status = "OPEN"
                 ELSE \E n \in DOMAIN history[i] :
                        /\ history[i][n].new = row[i].status
                        /\ \A m \in DOMAIN history[i] : m > n => history[i][m].new = None
      <4>1. i \in known
        BY <1>6, <3>1
      <4>2. \/ Range(Travelled(path[i])) = {} /\ At(path[i]).status = "OPEN"
            \/ \E n \in DOMAIN Travelled(path[i]) :
                  /\ Travelled(path[i])[n].new = At(path[i]).status
                  /\ \A m \in DOMAIN Travelled(path[i]) : ~(m > n)
        BY <4>1, TravelledFacts
      <4>3. CASE Range(Travelled(path[i])) = {} /\ At(path[i]).status = "OPEN"
        BY <1>5, <1>10, <4>1, <4>3
      <4>4. CASE \E n \in DOMAIN Travelled(path[i]) :
                  /\ Travelled(path[i])[n].new = At(path[i]).status
                  /\ \A m \in DOMAIN Travelled(path[i]) : ~(m > n)
        <5>1. Range(Travelled(path[i])) # {}
          BY <4>4 DEF Range
        <5> QED
          BY <1>5, <1>10, <4>1, <4>4, <5>1
      <4> QED
        BY <4>2, <4>3, <4>4
    <3> QED
      BY <3>1 DEF RowTellsLastEntry
  <2> QED
    BY <1>5, <1>7, <1>11, <2>1 DEF RowsTell
<1>15. Kept
  <2>1. \A g \in Groups : row[g] = None
    BY <1>4, <1>6, NamesFact
  <2>2. DOMAIN cache["worker"] = {} /\ job["worker"].stage = "idle" /\ pass.stage = "idle"
    BY <1>3, <1>7, <1>9, NamesFact DEF Processes, IdlePass
  <2> QED
    BY <2>1, <2>2 DEF Kept
<1> QED
  BY <1>8, <1>9, <1>12, <1>13, <1>14, <1>15 DEF IncidentsInv

LEMMA StepKeeps ==
  ASSUME IncidentsInv, [IncidentsNext]_vars
  PROVE  IncidentsInv' /\ Holds
<1>1. CASE \E s \in Sessions : CreateIncident(s)
  BY <1>1, CreateIncidentKeeps
<1>2. CASE \E s \in Sessions, i \in Incidents : Asks(s, i)
  BY <1>2, AsksDecides, AnalystsKeep
<1>3. CASE \E s \in Sessions : OwnerFound(s)
  BY <1>3, OwnerFoundKeeps
<1>4. CASE \E s \in Sessions : SaveOwner(s)
  BY <1>4, SaveOwnerKeeps
<1>5. CASE \E a \in Actors : SaveMove(a)
  BY <1>5, SaveMoveKeeps
<1>6. CASE \E a \in Actors : FollowUp(a)
  BY <1>6, FollowUpKeeps
<1>7. CASE \E a \in Actors : CommitFails(a)
  BY <1>7, CommitFailsKeeps
<1>8. CASE AlertsChange \/ StartPass \/ GroupsSynced \/ EndPass
  BY <1>8, PassKeeps
<1>9. CASE \E g \in Groups : SyncGroup(g)
  BY <1>9, SyncGroupKeeps
<1>10. CASE SaveCreated
  BY <1>10, SaveCreatedKeeps
<1>11. CASE \E i \in Incidents : EscalateOverdue(i)
  BY <1>11, EscalateOverdueKeeps
<1>12. CASE RestartApi \/ RestartWorker
  BY <1>12, RestartApiKeeps, RestartWorkerKeeps
<1>13. CASE UNCHANGED vars
  BY <1>13, StutterKeeps
<1>14. IncidentsNext =>
         \/ \E s \in Sessions : CreateIncident(s)
         \/ \E s \in Sessions, i \in Incidents : Asks(s, i)
         \/ \E s \in Sessions : OwnerFound(s)
         \/ \E s \in Sessions : SaveOwner(s)
         \/ \E a \in Actors : SaveMove(a)
         \/ \E a \in Actors : FollowUp(a)
         \/ \E a \in Actors : CommitFails(a)
         \/ AlertsChange \/ StartPass \/ GroupsSynced \/ EndPass
         \/ \E g \in Groups : SyncGroup(g)
         \/ SaveCreated
         \/ \E i \in Incidents : EscalateOverdue(i)
         \/ RestartApi \/ RestartWorker
  BY DEF IncidentsNext, Asks
<1> QED
  BY <1>1, <1>2, <1>3, <1>4, <1>5, <1>6, <1>7, <1>8, <1>9, <1>10, <1>11, <1>12, <1>13, <1>14

LEMMA IncidentsInvHolds == IncidentsSpec => []IncidentsInv
<1>1. IncidentsInv /\ [IncidentsNext]_vars => IncidentsInv'
  BY StepKeeps
<1> QED
  BY InitFits, <1>1, PTL DEF IncidentsSpec

\* However the calls overlap, fail and are judged by stale dictionaries, no row,
\* dictionary or timeline says what the histories cannot explain
\* (transition_status and what calls it).
THEOREM HistoriesAlwaysExplain == IncidentsSpec => []HistoriesExplain
<1>1. IncidentsInv => HistoriesExplain
  BY DEF IncidentsInv, Believable, Known, RowsTell, HistoriesExplain, BeliefsAreLogged
<1> QED
  BY IncidentsInvHolds, <1>1, PTL

\* What the API believes of an incident, whose request a session is.
LEMMA ApiFact ==
  ASSUME IncidentsInv
  PROVE  /\ "api" \in DOMAIN cache
         /\ cache["api"] \in [DOMAIN cache["api"] -> Believed]
         /\ DOMAIN cache["api"] \subseteq Incidents
         /\ job \in [Actors -> Job]
         /\ \A s \in Sessions : s \in Actors /\ s # "worker" /\ ProcessOf(s) = "api"
<1>1. "api" \in Processes
  BY DEF Processes
<1> QED
  BY <1>1, NamesFact DEF IncidentsInv, TypesFit

\* A move of the API leaves the owner alone.
LEMMA MovingKeepsOwners ==
  ASSUME IncidentsInv, NEW a \in Actors, NEW i \in Incidents, NEW new, NEW then,
         Moving(a, i, new, then)
  PROVE  ClosedKeepsItsOwner
<1>1. CASE ProcessOf(a) = "api"
  BY <1>1, ApiFact DEF Moving, ClosedKeepsItsOwner, Believed
<1>2. CASE ProcessOf(a) # "api"
  <2>1. cache'["api"] = cache["api"]
    BY <1>2, ApiFact DEF Moving
  <2> QED
    BY <2>1 DEF ClosedKeepsItsOwner
<1> QED
  BY <1>1, <1>2

\* To hand an incident to somebody leaves the others alone.
LEMMA HandedFact ==
  ASSUME IncidentsInv, NEW i, NEW o
  PROVE  /\ "api" \in DOMAIN Handed(i, o)
         /\ DOMAIN Handed(i, o)["api"] = DOMAIN cache["api"]
         /\ \A x \in DOMAIN cache["api"] \ {i} : Handed(i, o)["api"][x] = cache["api"][x]
BY ApiFact DEF Handed

LEMMA EscalateToOthers ==
  ASSUME IncidentsInv, NEW s, NEW i, NEW o, EscalateTo(s, i, o)
  PROVE  \A x \in DOMAIN cache["api"] \ {i} : cache'["api"][x] = cache["api"][x]
<1>1. CASE cache' = Handed(i, o)
  BY <1>1, HandedFact
<1>2. CASE cache' = [Handed(i, o) EXCEPT !["api"][i].status = "ESCALATED"]
  <2>1. cache'["api"] = [Handed(i, o)["api"] EXCEPT ![i].status = "ESCALATED"]
    BY <1>2, HandedFact
  <2> QED
    BY <2>1, HandedFact
<1> QED
  BY <1>1, <1>2 DEF EscalateTo

\* Owners are given to incidents that are open, but for one that was looked up.
LEMMA OwnersStay ==
  ASSUME IncidentsInv, [IncidentsNext]_vars
  PROVE  ClosedKeepsItsOwner
<1>1. ASSUME NEW s \in Sessions, CreateIncident(s)
      PROVE  ClosedKeepsItsOwner
  <2>1. PICK i \in Manual \cap NotYetKnown : cache' = [cache EXCEPT !["api"] = Put(@, i, NewIncident)]
    BY <1>1 DEF CreateIncident
  <2>2. "api" \in Processes /\ i \notin DOMAIN cache["api"]
    BY DEF NotYetKnown, Processes
  <2>3. cache'["api"] = Put(cache["api"], i, NewIncident)
    BY <2>1, ApiFact
  <2> QED
    BY <2>2, <2>3 DEF Put, ClosedKeepsItsOwner
<1>2. ASSUME NEW s \in Sessions, NEW i \in Incidents, NEW new,
             Transition(s, i, new) \/ StartInvestigation(s, i) \/ CompleteInvestigation(s, i)
             \/ Escalate(s, i)
      PROVE  ClosedKeepsItsOwner
  <2>1. s \in Actors
    BY ApiFact
  <2>2. CASE UNCHANGED cache
    BY <2>2 DEF ClosedKeepsItsOwner
  <2>3. CASE \E to, then : Moving(s, i, to, then)
    BY <2>1, <2>3, MovingKeepsOwners
  <2> QED
    BY <1>2, <2>2, <2>3 DEF Transition, StartInvestigation, CompleteInvestigation, Escalate
<1>3. ASSUME NEW s \in Sessions, NEW i \in Incidents, NEW o \in Owners,
             AssignIncident(s, i, o) \/ EscalateToNamed(s, i, o)
      PROVE  ClosedKeepsItsOwner
  <2>1. cache["api"][i].status # "CLOSED"
    BY <1>3 DEF AssignIncident, EscalateToNamed, Status
  <2>2. CASE AssignIncident(s, i, o)
    <3>1. cache' = Handed(i, o)
      BY <2>2 DEF AssignIncident, Handed
    <3> QED
      BY <2>1, <3>1, HandedFact DEF ClosedKeepsItsOwner
  <2>3. CASE EscalateTo(s, i, o)
    BY <2>1, <2>3, EscalateToOthers DEF ClosedKeepsItsOwner
  <2> QED
    BY <1>3, <2>2, <2>3 DEF EscalateToNamed
<1>4. ASSUME NEW s \in Sessions, OwnerFound(s)
      PROVE  ClosedKeepsItsOwner
  <2> DEFINE i == job[s].inc
  <2>1. PICK o \in Owners : EscalateTo(s, i, o)
    BY <1>4 DEF OwnerFound
  <2>2. \A x \in DOMAIN cache["api"] \ {i} : cache'["api"][x] = cache["api"][x]
    BY <2>1, EscalateToOthers
  <2>3. cache["api"][i].status = "CLOSED" => LateOwner(i)
    <3>1. ASSUME cache["api"][i].status = "CLOSED" PROVE "ESCALATED" \notin MayBecome(Status(i))
      BY <3>1 DEF MayBecome, Status
    <3>2. ASSUME cache["api"][i].status = "CLOSED" PROVE job'[s] = IdleJob
      BY <2>1, <3>1, <3>2, ApiFact DEF EscalateTo
    <3> QED
      BY <1>4, <3>2 DEF OwnerFound, LateOwner
  <2> QED
    BY <2>2, <2>3 DEF ClosedKeepsItsOwner
<1>5. ASSUME NEW i \in Incidents, EscalateOverdue(i)
      PROVE  ClosedKeepsItsOwner
  <2>1. "worker" \in Actors
    BY NamesFact
  <2>2. CASE UNCHANGED cache
    BY <2>2 DEF ClosedKeepsItsOwner
  <2>3. CASE Moving("worker", i, "ESCALATED", "AUTO_ESCALATED")
    BY <2>1, <2>3, MovingKeepsOwners
  <2> QED
    BY <1>5, <2>2, <2>3 DEF EscalateOverdue
<1>6. ASSUME StartPass \/ (\E g \in Groups : SyncGroup(g)) \/ RestartWorker
      PROVE  ClosedKeepsItsOwner
  <2>1. ASSUME NEW w, cache' = [cache EXCEPT !["worker"] = w]
        PROVE  cache'["api"] = cache["api"]
    BY <2>1, ApiFact
  <2>2. UNCHANGED cache \/ \E w : cache' = [cache EXCEPT !["worker"] = w]
    <3>1. CASE StartPass
      BY <3>1 DEF StartPass
    <3>2. CASE RestartWorker
      BY <3>2 DEF RestartWorker
    <3>3. ASSUME NEW g \in Groups, SyncGroup(g)
          PROVE  UNCHANGED cache \/ \E w : cache' = [cache EXCEPT !["worker"] = w]
      BY <3>3 DEF SyncGroup
    <3> QED
      BY <1>6, <3>1, <3>2, <3>3
  <2> QED
    BY <2>1, <2>2 DEF ClosedKeepsItsOwner
<1>7. ASSUME RestartApi
      PROVE  ClosedKeepsItsOwner
  <2>1. DOMAIN cache'["api"] = {}
    BY <1>7, ApiFact DEF RestartApi, Empty
  <2> QED
    BY <2>1 DEF ClosedKeepsItsOwner
<1>8. ASSUME UNCHANGED cache
      PROVE  ClosedKeepsItsOwner
  BY <1>8 DEF ClosedKeepsItsOwner
<1>9. \/ UNCHANGED cache
      \/ \E s \in Sessions : CreateIncident(s) \/ OwnerFound(s)
      \/ \E s \in Sessions, i \in Incidents, new \in {"TRIAGED", "RESOLVED", "CLOSED"} :
            Transition(s, i, new)
      \/ \E s \in Sessions, i \in Incidents :
            StartInvestigation(s, i) \/ CompleteInvestigation(s, i) \/ Escalate(s, i)
      \/ \E s \in Sessions, i \in Incidents, o \in Owners :
            AssignIncident(s, i, o) \/ EscalateToNamed(s, i, o)
      \/ \E i \in Incidents : EscalateOverdue(i)
      \/ StartPass \/ (\E g \in Groups : SyncGroup(g)) \/ RestartWorker
      \/ RestartApi
  <2>1. ASSUME NEW s \in Sessions, NEW i \in Incidents, AddNote(s, i) \/ LookUpOwner(s, i)
        PROVE  UNCHANGED cache
    BY <2>1 DEF AddNote, LookUpOwner
  <2>2. ASSUME NEW a \in Actors, SaveMove(a) \/ FollowUp(a) \/ CommitFails(a)
        PROVE  UNCHANGED cache
    BY <2>2 DEF SaveMove, FollowUp, CommitFails
  <2>3. ASSUME \/ \E s \in Sessions : SaveOwner(s)
               \/ AlertsChange \/ SaveCreated \/ GroupsSynced \/ EndPass
        PROVE  UNCHANGED cache
    BY <2>3 DEF SaveOwner, AlertsChange, SaveCreated, GroupsSynced, EndPass
  <2>4. CASE UNCHANGED vars
    BY <2>4 DEF vars
  <2> QED
    BY <2>1, <2>2, <2>3, <2>4 DEF IncidentsNext
<1> QED
  BY <1>1, <1>2, <1>3, <1>4, <1>5, <1>6, <1>7, <1>8, <1>9

\* CLOSED stays, in the dictionary of a process that is not restarted and does
\* not load its incidents anew, and keeps its owner but for a late answer
\* (validate_transition, escalate_to_owner).
THEOREM ClosedStaysClosed == IncidentsSpec => ClosedBeliefsAreFinal
<1>1. IncidentsInv /\ [IncidentsNext]_vars => [ClosedStays /\ ClosedKeepsItsOwner]_vars
  BY StepKeeps, OwnersStay DEF Holds, ClosedStays
<1> QED
  BY IncidentsInvHolds, <1>1, PTL DEF IncidentsSpec, ClosedBeliefsAreFinal

\* A pass that went through its groups has left an incident for each of them
\* (sync_alerts).
THEOREM PassesLeaveIncidents == IncidentsSpec => []PassLeavesIncidents
<1>1. IncidentsInv => PassLeavesIncidents
  BY DEF IncidentsInv, TypesFit, Kept, Created, PassLeavesIncidents
<1> QED
  BY IncidentsInvHolds, <1>1, PTL

--------------------------------------------------------------------------------
(* The worker's escalations and the stretches of the history they fall into. *)

Entries(i) == Cardinality(ByTheWorker(i))
Stretches(i) == Cardinality(Starts(i))
Lasts(i) == Stands(i, Len(history[i]))

\* An escalation of the worker whose entry is still to come.
Owed(i) == IF job["worker"].stage = "follow" /\ job["worker"].inc = i
              /\ job["worker"].then = "AUTO_ESCALATED" THEN 1 ELSE 0

\* Once the worker's escalations have used up the stretches, of which the last one
\* lasts, it neither is about to escalate nor takes the incident for another one.
Settled(i) ==
    Entries(i) + Owed(i) = Stretches(i) /\ Lasts(i) =>
       /\ i \in DOMAIN cache["worker"] => cache["worker"][i].status = "ESCALATED"
       /\ ~(job["worker"].stage = "move" /\ job["worker"].inc = i)

InStep(i) == Entries(i) + Owed(i) <= Stretches(i) /\ Settled(i)

WorkerFits ==
    LET j == job["worker"]
    IN  j.stage = "move" => /\ j.inc \in DOMAIN cache["worker"]
                            /\ j.new = "ESCALATED" /\ j.then = "AUTO_ESCALATED"
                            /\ cache["worker"][j.inc].status = "ESCALATED"

SessionFits(s) == job[s].stage \in {"move", "follow"} => job[s].then # "AUTO_ESCALATED"

\* A worker that is up knows every group that has a row.
GroupsKnown ==
    /\ "booted" \in DOMAIN life
    /\ pass.stage # "idle" => life.booted
    /\ life.booted => \A g \in Groups : row[g] # None => g \in DOMAIN cache["worker"]

StretchInv ==
    /\ \A i \in Incidents : InStep(i)
    /\ WorkerFits
    /\ \A s \in Sessions : SessionFits(s)
    /\ GroupsKnown

LEMMA CountsFact ==
  ASSUME TypesFit, NEW i \in Incidents
  PROVE  /\ IsFiniteSet(ByTheWorker(i)) /\ IsFiniteSet(Starts(i))
         /\ Entries(i) \in Nat /\ Stretches(i) \in Nat /\ Owed(i) \in {0, 1}
<1>1. history[i] \in Seq(LogEntry)
  BY DEF TypesFit
<1>2. Len(history[i]) \in Nat /\ DOMAIN history[i] = 1..Len(history[i])
  BY <1>1
<1>3. IsFiniteSet(DOMAIN history[i])
  BY <1>2, FS_Interval
<1>4. ByTheWorker(i) \in SUBSET DOMAIN history[i] /\ Starts(i) \in SUBSET DOMAIN history[i]
  BY DEF ByTheWorker, Starts
<1>5. IsFiniteSet(ByTheWorker(i)) /\ IsFiniteSet(Starts(i))
  BY <1>3, <1>4, FS_Subset
<1> QED
  BY <1>5, FS_CardinalityType DEF Entries, Stretches, Owed

LEMMA CountsStay ==
  ASSUME NEW i, history'[i] = history[i]
  PROVE  Entries(i)' = Entries(i) /\ Stretches(i)' = Stretches(i) /\ Lasts(i)' = Lasts(i)
<1>1. \A n : Stands(i, n)' = Stands(i, n)
  BY DEF Stands
<1>2. ByTheWorker(i)' = ByTheWorker(i) /\ Starts(i)' = Starts(i)
  <2>1. ByTheWorker(i)' = {n \in DOMAIN history'[i] : history'[i][n].event = "AUTO_ESCALATED"}
    BY DEF ByTheWorker
  <2>2. Starts(i)' = {n \in DOMAIN history'[i] :
                        history'[i][n].new = "ESCALATED" /\ ~Stands(i, n-1)'}
    BY DEF Starts
  <2> QED
    BY <1>1, <2>1, <2>2 DEF ByTheWorker, Starts
<1>3. Lasts(i)' = Lasts(i)
  BY DEF Lasts, Stands
<1> QED
  BY <1>2, <1>3 DEF Entries, Stretches

\* What an entry adds to the counts.
LEMMA CountsGrow ==
  ASSUME TypesFit, NEW i \in Incidents, NEW e \in LogEntry,
         history' = [history EXCEPT ![i] = Append(@, e)]
  PROVE  /\ Entries(i)' = Entries(i) + (IF e.event = "AUTO_ESCALATED" THEN 1 ELSE 0)
         /\ Stretches(i)' = Stretches(i) + (IF e.new = "ESCALATED" /\ ~Lasts(i) THEN 1 ELSE 0)
         /\ Lasts(i)' <=> e.new = "ESCALATED" \/ (e.new = None /\ Lasts(i))
         /\ \A k \in Incidents \ {i} : history'[k] = history[k]
<1>1. history \in [Incidents -> Seq(LogEntry)]
  BY DEF TypesFit
<1>2. PICK z \in Nat : z = Len(history[i])
  BY <1>1
<1>3. /\ history[i] \in Seq(LogEntry) /\ DOMAIN history[i] = 1..z
      /\ history'[i] = Append(history[i], e)
      /\ \A k \in Incidents \ {i} : history'[k] = history[k]
  BY <1>1, <1>2
<1>4. /\ DOMAIN history'[i] = 1..(z+1) /\ Len(history'[i]) = z + 1
      /\ \A n \in 1..z : history'[i][n] = history[i][n]
      /\ history'[i][z+1] = e
  BY <1>2, <1>3
<1>5. DOMAIN history'[i] = DOMAIN history[i] \cup {z+1} /\ z + 1 \notin DOMAIN history[i]
  BY <1>3, <1>4
<1>6. \A n \in 0..z : Stands(i, n)' = Stands(i, n)
  <2>1. ASSUME NEW n \in 0..z PROVE Stands(i, n)' = Stands(i, n)
    <3>1. Stands(i, n)' = \E m \in 1..n : /\ history'[i][m].new = "ESCALATED"
                                          /\ \A k \in (m+1)..n : history'[i][k].new = None
      BY DEF Stands
    <3>2. \A m \in 1..n : m \in 1..z /\ \A k \in (m+1)..n : k \in 1..z
      BY <1>2, <2>1
    <3> QED
      BY <1>4, <3>1, <3>2 DEF Stands
  <2> QED
    BY <2>1
<1>7. Lasts(i)' <=> e.new = "ESCALATED" \/ (e.new = None /\ Lasts(i))
  <2>1. Lasts(i) = Stands(i, z)
    BY <1>2 DEF Lasts
  <2>2. Lasts(i)' = Stands(i, z+1)'
    BY <1>4 DEF Lasts, Stands
  <2>3. Stands(i, z+1)' = \E m \in 1..(z+1) :
              /\ history'[i][m].new = "ESCALATED"
              /\ \A k \in (m+1)..(z+1) : history'[i][k].new = None
    BY DEF Stands
  <2>4. ASSUME e.new = "ESCALATED" PROVE Stands(i, z+1)'
    <3>1. z + 1 \in 1..(z+1) /\ (z+1+1)..(z+1) = {}
      BY <1>2
    <3> QED
      BY <1>4, <2>3, <2>4, <3>1
  <2>5. ASSUME e.new = None, Stands(i, z) PROVE Stands(i, z+1)'
    <3>1. PICK m \in 1..z : /\ history[i][m].new = "ESCALATED"
                            /\ \A k \in (m+1)..z : history[i][k].new = None
      BY <2>5 DEF Stands
    <3>2. m \in 1..(z+1) /\ \A k \in (m+1)..(z+1) : k = z + 1 \/ (k \in (m+1)..z /\ k \in 1..z)
      BY <1>2, <3>1
    <3>3. history'[i][m].new = "ESCALATED"
      BY <1>4, <3>1
    <3>4. \A k \in (m+1)..(z+1) : history'[i][k].new = None
      BY <1>4, <2>5, <3>1, <3>2
    <3> QED
      BY <2>3, <3>2, <3>3, <3>4
  <2>6. ASSUME Stands(i, z+1)', e.new # "ESCALATED" PROVE e.new = None /\ Stands(i, z)
    <3>1. PICK m \in 1..(z+1) : /\ history'[i][m].new = "ESCALATED"
                                /\ \A k \in (m+1)..(z+1) : history'[i][k].new = None
      BY <2>3, <2>6
    <3>2. m # z + 1
      BY <1>4, <2>6, <3>1
    <3>3. m \in 1..z /\ z + 1 \in (m+1)..(z+1)
          /\ \A k \in (m+1)..z : k \in (m+1)..(z+1) /\ k \in 1..z
      BY <1>2, <3>1, <3>2
    <3> QED
      BY <1>4, <3>1, <3>3 DEF Stands
  <2> QED
    BY <2>1, <2>2, <2>4, <2>5, <2>6
<1>8. ByTheWorker(i)' = ByTheWorker(i) \cup (IF e.event = "AUTO_ESCALATED" THEN {z+1} ELSE {})
  <2>1. ByTheWorker(i)' = {n \in DOMAIN history'[i] : history'[i][n].event = "AUTO_ESCALATED"}
    BY DEF ByTheWorker
  <2> QED
    BY <1>3, <1>4, <1>5, <2>1 DEF ByTheWorker
<1>9. Starts(i)' = Starts(i) \cup (IF e.new = "ESCALATED" /\ ~Lasts(i) THEN {z+1} ELSE {})
  <2>1. Starts(i)' = {n \in DOMAIN history'[i] :
                        history'[i][n].new = "ESCALATED" /\ ~Stands(i, n-1)'}
    BY DEF Starts
  <2>2. \A n \in 1..(z+1) : Stands(i, n-1)' = Stands(i, n-1)
    <3>1. \A n \in 1..(z+1) : n - 1 \in 0..z
      BY <1>2
    <3> QED
      BY <1>6, <3>1
  <2>3. Lasts(i) = Stands(i, (z+1)-1)
    <3>1. (z+1)-1 = z
      BY <1>2
    <3> QED
      BY <1>2, <3>1 DEF Lasts
  <2>4. Starts(i)' = {n \in 1..(z+1) : history'[i][n].new = "ESCALATED" /\ ~Stands(i, n-1)}
    BY <1>4, <2>1, <2>2
  <2>5. Starts(i) = {n \in 1..z : history'[i][n].new = "ESCALATED" /\ ~Stands(i, n-1)}
    BY <1>3, <1>4 DEF Starts
  <2>6. 1..(z+1) = 1..z \cup {z+1}
    BY <1>2
  <2> QED
    BY <1>4, <2>3, <2>4, <2>5, <2>6
<1>10. z + 1 \notin ByTheWorker(i) /\ z + 1 \notin Starts(i)
  BY <1>5 DEF ByTheWorker, Starts
<1>11. IsFiniteSet(ByTheWorker(i)) /\ IsFiniteSet(Starts(i))
       /\ Entries(i) \in Nat /\ Stretches(i) \in Nat
  BY CountsFact
<1>12. Entries(i)' = Entries(i) + (IF e.event = "AUTO_ESCALATED" THEN 1 ELSE 0)
  <2>1. Cardinality(ByTheWorker(i) \cup {z+1}) = Cardinality(ByTheWorker(i)) + 1
    BY <1>10, <1>11, FS_AddElement
  <2>2. Entries(i)' = Cardinality(ByTheWorker(i)')
    BY DEF Entries
  <2>3. CASE e.event = "AUTO_ESCALATED"
    BY <1>8, <2>1, <2>2, <2>3 DEF Entries
  <2>4. CASE e.event # "AUTO_ESCALATED"
    <3>1. ByTheWorker(i)' = ByTheWorker(i)
      BY <1>8, <2>4
    <3> QED
      BY <1>11, <2>2, <2>4, <3>1 DEF Entries
  <2> QED
    BY <2>3, <2>4
<1>13. Stretches(i)' = Stretches(i) + (IF e.new = "ESCALATED" /\ ~Lasts(i) THEN 1 ELSE 0)
  <2>1. Cardinality(Starts(i) \cup {z+1}) = Cardinality(Starts(i)) + 1
    BY <1>10, <1>11, FS_AddElement
  <2>2. Stretches(i)' = Cardinality(Starts(i)')
    BY DEF Stretches
  <2>3. CASE e.new = "ESCALATED" /\ ~Lasts(i)
    BY <1>9, <2>1, <2>2, <2>3 DEF Stretches
  <2>4. CASE ~(e.new = "ESCALATED" /\ ~Lasts(i))
    <3>1. Starts(i)' = Starts(i)
      BY <1>9, <2>4
    <3> QED
      BY <1>11, <2>2, <2>4, <3>1 DEF Stretches
  <2> QED
    BY <2>3, <2>4
<1> QED
  BY <1>3, <1>7, <1>12, <1>13

\* A step in which the worker has no part.
WorkerAside ==
    /\ cache'["worker"] = cache["worker"] /\ job'["worker"] = job["worker"]
    /\ pass'.stage = pass.stage
    /\ DOMAIN life' = DOMAIN life /\ life'.booted = life.booted
    /\ \A g \in Groups : row'[g] = row[g]

LEMMA FrameKeeps ==
  ASSUME NEW i, InStep(i), history'[i] = history[i],
         cache'["worker"] = cache["worker"], job'["worker"] = job["worker"]
  PROVE  InStep(i)'
<1>1. Entries(i)' = Entries(i) /\ Stretches(i)' = Stretches(i) /\ Lasts(i)' = Lasts(i)
  BY CountsStay
<1>2. Owed(i)' = Owed(i)
  BY DEF Owed
<1> QED
  BY <1>1, <1>2 DEF InStep, Settled

LEMMA AsideKeeps ==
  ASSUME StretchInv, WorkerAside, UNCHANGED history, \A s \in Sessions : SessionFits(s)'
  PROVE  StretchInv'
<1>1. \A i \in Incidents : InStep(i)'
  BY FrameKeeps DEF StretchInv, WorkerAside
<1>2. WorkerFits' /\ GroupsKnown'
  BY DEF StretchInv, WorkerAside, WorkerFits, GroupsKnown
<1> QED
  BY <1>1, <1>2 DEF StretchInv

\* Entries of analysts begin stretches and end them, and are none of the worker's.
LEMMA EntryKeeps ==
  ASSUME TypesFit, StretchInv, WorkerAside, NEW i \in Incidents, NEW e \in LogEntry,
         history' = [history EXCEPT ![i] = Append(@, e)], e.event # "AUTO_ESCALATED",
         \A s \in Sessions : SessionFits(s)'
  PROVE  StretchInv'
<1>1. /\ Entries(i)' = Entries(i)
      /\ Stretches(i)' = Stretches(i) + (IF e.new = "ESCALATED" /\ ~Lasts(i) THEN 1 ELSE 0)
      /\ Lasts(i)' <=> e.new = "ESCALATED" \/ (e.new = None /\ Lasts(i))
      /\ \A k \in Incidents \ {i} : history'[k] = history[k]
      /\ Entries(i) \in Nat /\ Stretches(i) \in Nat /\ Owed(i) \in {0, 1}
  <2>1. Entries(i) + 0 = Entries(i)
    BY CountsFact
  <2> QED
    BY <2>1, CountsGrow, CountsFact
<1>2. Owed(i)' = Owed(i)
  BY DEF Owed, WorkerAside
<1>3. "ESCALATED" # None
  BY NamesFact DEF Statuses
<1>4. InStep(i)'
  <2>1. InStep(i)
    BY DEF StretchInv
  <2>2. Entries(i)' + Owed(i)' <= Stretches(i)'
    BY <1>1, <1>2, <2>1 DEF InStep
  <2>3. ASSUME Entries(i)' + Owed(i)' = Stretches(i)', Lasts(i)'
        PROVE  Entries(i) + Owed(i) = Stretches(i) /\ Lasts(i)
    BY <1>1, <1>2, <1>3, <2>1, <2>3 DEF InStep
  <2>4. Settled(i)'
    BY <2>1, <2>3 DEF InStep, Settled, WorkerAside
  <2> QED
    BY <2>2, <2>4 DEF InStep
<1>5. \A k \in Incidents \ {i} : InStep(k)'
  BY <1>1, FrameKeeps DEF StretchInv, WorkerAside
<1>6. WorkerFits' /\ GroupsKnown'
  BY DEF StretchInv, WorkerAside, WorkerFits, GroupsKnown
<1> QED
  BY <1>4, <1>5, <1>6 DEF StretchInv

--------------------------------------------------------------------------------
(* The analysts' part.                                                      *)

\* No call of an analyst plans an entry of the worker's.
LEMMA AsksFit ==
  ASSUME IncidentsInv, NEW s \in Sessions,
         (\E i \in Incidents : Asks(s, i)) \/ OwnerFound(s)
  PROVE  SessionFits(s)'
<1>1. s \in Actors /\ ProcessOf(s) = "api" /\ job \in [Actors -> Job]
  BY NamesFact DEF IncidentsInv, TypesFit
<1>2. "ESCALATED" # "AUTO_ESCALATED" /\ None # "AUTO_ESCALATED"
  BY IncidentsAssumption
<1>3. ASSUME NEW i, NEW new, NEW then, Moving(s, i, new, then), then # "AUTO_ESCALATED"
      PROVE  SessionFits(s)'
  BY <1>1, <1>3 DEF Moving, SessionFits
<1>4. ASSUME NEW j, job' = [job EXCEPT ![s] = j],
             j.stage \in {"move", "follow"} => j.then # "AUTO_ESCALATED"
      PROVE  SessionFits(s)'
  BY <1>1, <1>4 DEF SessionFits
<1>5. ASSUME NEW i, NEW o, EscalateTo(s, i, o) PROVE SessionFits(s)'
  <2>1. CASE "ESCALATED" \in MayBecome(Status(i))
    BY <1>4, <1>5, <2>1 DEF EscalateTo
  <2>2. CASE "ESCALATED" \notin MayBecome(Status(i))
    BY <1>4, <1>5, <2>2, IdleFact DEF EscalateTo
  <2> QED
    BY <2>1, <2>2
<1>6. ASSUME NEW i \in Incidents, Asks(s, i) PROVE SessionFits(s)'
  <2>1. CASE \E new \in {"TRIAGED", "RESOLVED", "CLOSED"} : Transition(s, i, new)
    BY <1>2, <1>3, <2>1 DEF Transition
  <2>2. CASE StartInvestigation(s, i)
    <3>1. CASE Moving(s, i, "INVESTIGATING", "START")
      BY <1>3, <3>1
    <3>2. CASE job' = [job EXCEPT ![s] = [IdleJob EXCEPT !.stage = "follow", !.inc = i,
                                                       !.then = "START"]]
      BY <1>4, <3>2 DEF IdleJob
    <3> QED
      BY <2>2, <3>1, <3>2 DEF StartInvestigation
  <2>3. CASE AddNote(s, i)
    BY <1>4, <2>3 DEF AddNote, IdleJob
  <2>4. CASE CompleteInvestigation(s, i)
    BY <1>3, <2>4 DEF CompleteInvestigation
  <2>5. CASE \E o \in Owners : AssignIncident(s, i, o)
    BY <1>4, <2>5 DEF AssignIncident, IdleJob
  <2>6. CASE Escalate(s, i)
    BY <1>3, <2>6 DEF Escalate
  <2>7. CASE \E o \in Owners : EscalateToNamed(s, i, o)
    BY <1>5, <2>7 DEF EscalateToNamed
  <2>8. CASE LookUpOwner(s, i)
    BY <1>4, <2>8 DEF LookUpOwner, IdleJob
  <2> QED
    BY <1>6, <2>1, <2>2, <2>3, <2>4, <2>5, <2>6, <2>7, <2>8 DEF Asks
<1>7. CASE OwnerFound(s)
  BY <1>5, <1>7 DEF OwnerFound
<1> QED
  BY <1>6, <1>7

LEMMA AnalystsInStep ==
  ASSUME IncidentsInv, StretchInv, NEW s \in Sessions,
         \/ \E i \in Incidents : Asks(s, i)
         \/ OwnerFound(s)
         \/ CreateIncident(s)
  PROVE  StretchInv'
<1>1. /\ s \in Actors /\ s # "worker" /\ ProcessOf(s) = "api"
      /\ "worker" \in Processes /\ "worker" \in Actors
      /\ Groups \subseteq Incidents /\ TypesFit
  BY NamesFact DEF IncidentsInv
<1>2. CASE (\E i \in Incidents : Asks(s, i)) \/ OwnerFound(s)
  <2>1. SessionFits(s)'
    BY <1>2, AsksFit
  <2>2. UNCHANGED <<row, history, pass, life>>
    BY <1>2 DEF Asks, OwnerFound, Transition, StartInvestigation, AddNote, CompleteInvestigation,
       AssignIncident, Escalate, EscalateToNamed, LookUpOwner
  <2>3. OneActor(s)
    <3>1. CASE \E i \in Incidents : Asks(s, i)
      BY <3>1, AsksDecides DEF Decides
    <3>2. CASE OwnerFound(s)
      <4>1. job[s].stage = "lookup" /\ job[s].inc \in DOMAIN cache["api"]
        BY <1>1, <3>2 DEF OwnerFound, IncidentsInv, JobFits
      <4>2. PICK i \in DOMAIN cache["api"] : i = job[s].inc
        BY <4>1
      <4>3. PICK o \in Owners : EscalateTo(s, i, o)
        BY <3>2, <4>2 DEF OwnerFound
      <4> QED
        BY <3>2, <4>1, <4>3, EscalateToDecides DEF OwnerFound, Decides
    <3> QED
      BY <1>2, <3>1, <3>2
  <2>4. /\ cache'["worker"] = cache["worker"] /\ job'["worker"] = job["worker"]
        /\ \A x \in Sessions \ {s} : job'[x] = job[x]
    BY <1>1, <2>3, NamesFact DEF OneActor
  <2>5. \A x \in Sessions : SessionFits(x)'
    BY <2>1, <2>4 DEF StretchInv, SessionFits
  <2> QED
    BY <2>2, <2>4, <2>5, AsideKeeps DEF WorkerAside
<1>3. CASE CreateIncident(s)
  <2>1. PICK i \in Manual \cap NotYetKnown :
             /\ row' = [row EXCEPT ![i] = NewIncident]
             /\ cache' = [cache EXCEPT !["api"] = Put(@, i, NewIncident)]
    BY <1>3 DEF CreateIncident
  <2>2. UNCHANGED <<history, job, pass, life>>
    BY <1>3 DEF CreateIncident
  <2>3. i \notin Groups
    BY IncidentsAssumption
  <2>4. \A x \in Sessions : SessionFits(x)'
    BY <2>2 DEF StretchInv, SessionFits
  <2>5. cache'["worker"] = cache["worker"] /\ \A g \in Groups : row'[g] = row[g]
    BY <1>1, <2>1, <2>3 DEF TypesFit
  <2> QED
    BY <2>2, <2>4, <2>5, AsideKeeps DEF WorkerAside
<1> QED
  BY <1>2, <1>3

\* What an analyst's request commits.
LEMMA CommitsInStep ==
  ASSUME IncidentsInv, StretchInv, NEW s \in Sessions,
         SaveMove(s) \/ FollowUp(s) \/ SaveOwner(s)
  PROVE  StretchInv'
<1>1. /\ s \in Actors /\ s # "worker" /\ "worker" \in Actors /\ TypesFit /\ SessionFits(s)
      /\ JobFits(s)
  BY NamesFact DEF IncidentsInv, StretchInv
<1>2. job[s].stage \in {"move", "follow", "assign"}
  BY DEF SaveMove, FollowUp, SaveOwner
<1>3. PICK i \in Incidents : i = job[s].inc /\ i \notin Groups /\ job[s] \in Job
  BY <1>1, <1>2, JobFact
<1>4. job[s].old \in Statuses \cup {None} /\ job[s].new \in Statuses \cup {None}
  BY <1>3 DEF Job
<1>5. \E e \in LogEntry : e.event # "AUTO_ESCALATED"
                          /\ history' = [history EXCEPT ![i] = Append(@, e)]
  <2>1. CASE SaveMove(s)
    <3>1. Entry(job[s].new, job[s].old, job[s].new) \in LogEntry
          /\ job[s].new # "AUTO_ESCALATED"
      <4>1. job[s].new \in Statuses /\ job[s].old \in Statuses
        BY <1>1, <2>1 DEF JobFits, SaveMove
      <4> QED
        BY <4>1 DEF Entry, LogEntry, Events, Statuses
    <3>2. Entry(job[s].new, job[s].old, job[s].new).event = job[s].new
      BY DEF Entry
    <3> QED
      BY <1>3, <2>1, <3>1, <3>2 DEF SaveMove
  <2>2. CASE FollowUp(s)
    <3>1. job[s].then \in Follows /\ job[s].then # "AUTO_ESCALATED" /\ job[s].stage = "follow"
      BY <1>1, <2>2 DEF JobFits, FollowUp, SessionFits
    <3>2. CASE job[s].then \in Investigates
      <4>1. Entry("INVESTIGATION_UPDATED", None, None) \in LogEntry
            /\ Entry("INVESTIGATION_UPDATED", None, None).event # "AUTO_ESCALATED"
        BY DEF Entry, LogEntry, Events
      <4> QED
        BY <1>3, <2>2, <3>2, <4>1 DEF FollowUp
    <3>3. CASE job[s].then \notin Investigates
      <4>1. job[s].then = "ESCALATED"
        BY <3>1, <3>3 DEF Follows
      <4>2. Entry("ESCALATED", None, None) \in LogEntry
            /\ Entry("ESCALATED", None, None).event # "AUTO_ESCALATED"
        BY DEF Entry, LogEntry, Events, Statuses
      <4> QED
        BY <1>3, <2>2, <3>3, <4>1, <4>2 DEF FollowUp
    <3> QED
      BY <3>2, <3>3
  <2>3. CASE SaveOwner(s)
    <3>1. Entry("ASSIGNED", None, None) \in LogEntry
          /\ Entry("ASSIGNED", None, None).event # "AUTO_ESCALATED"
      BY DEF Entry, LogEntry, Events
    <3> QED
      BY <1>3, <2>3, <3>1 DEF SaveOwner
  <2> QED
    BY <2>1, <2>2, <2>3
<1>6. /\ cache'["worker"] = cache["worker"] /\ UNCHANGED <<pass, life>>
      /\ \A g \in Groups : row'[g] = row[g]
  <2>1. UNCHANGED <<cache, pass, life>>
    BY DEF SaveMove, FollowUp, SaveOwner
  <2>2. row' = row \/ \E r : row' = [row EXCEPT ![i] = r]
    BY <1>3 DEF SaveMove, FollowUp, SaveOwner
  <2>3. \A g \in Groups : g # i
    BY <1>3
  <2>4. row \in [Incidents -> Believed \cup {None}] /\ Groups \subseteq Incidents
    BY <1>1, NamesFact DEF TypesFit
  <2> QED
    BY <2>1, <2>2, <2>3, <2>4
<1>7. /\ \A a \in Actors \ {s} : job'[a] = job[a]
      /\ job'[s].stage \in {"move", "follow"} =>
            job[s].stage \in {"move", "follow"} /\ job'[s].then = job[s].then
  <2>1. PICK j : j = job[s]
    OBVIOUS
  <2>2. \/ job' = [job EXCEPT ![s] = IdleJob]
        \/ job' = [job EXCEPT ![s] = [j EXCEPT !.stage = "follow"]] /\ j.stage = "move"
    BY <2>1 DEF SaveMove, FollowUp, SaveOwner
  <2>3. job \in [Actors -> Job] /\ j \in Job
    BY <1>1, <1>3, <2>1 DEF TypesFit
  <2>4. [j EXCEPT !.stage = "follow"].then = j.then
    BY <2>3 DEF Job
  <2> QED
    BY <1>1, <2>1, <2>2, <2>3, <2>4, IdleFact
<1>8. \A x \in Sessions : SessionFits(x)'
  BY <1>1, <1>7, NamesFact DEF StretchInv, SessionFits
<1>9. WorkerAside
  BY <1>1, <1>6, <1>7 DEF WorkerAside
<1> QED
  BY <1>1, <1>5, <1>8, <1>9, EntryKeeps

--------------------------------------------------------------------------------
(* The worker's part.                                                       *)

\* A worker that is idle, or that gives up what it had to commit, owes nothing.
LEMMA IdleOwesNothing ==
  ASSUME NEW i, job'["worker"].stage # "follow"
  PROVE  Owed(i)' = 0
BY DEF Owed

\* Nothing is logged; what the worker takes for an incident it takes as before, or
\* from the row, or the incident has not been escalated.
LEMMA JudgesInStep ==
  ASSUME TypesFit, NEW i \in Incidents, InStep(i), UNCHANGED history,
         job'["worker"].stage # "follow",
         /\ i \in DOMAIN cache'["worker"] =>
               \/ cache'["worker"][i].status = "ESCALATED"
               \/ /\ i \in DOMAIN cache["worker"]
                  /\ cache'["worker"][i].status = cache["worker"][i].status
               \/ ~Lasts(i)
         /\ job'["worker"].stage = "move" /\ job'["worker"].inc = i =>
               \/ job["worker"].stage = "move" /\ job["worker"].inc = i
               \/ i \in DOMAIN cache["worker"] /\ cache["worker"][i].status # "ESCALATED"
  PROVE  InStep(i)'
<1>1. Entries(i)' = Entries(i) /\ Stretches(i)' = Stretches(i) /\ Lasts(i)' = Lasts(i)
  BY CountsStay
<1>2. Owed(i)' = 0 /\ Owed(i) \in {0, 1} /\ Entries(i) \in Nat /\ Stretches(i) \in Nat
  BY CountsFact, IdleOwesNothing
<1>3. Entries(i)' + Owed(i)' <= Stretches(i)'
  BY <1>1, <1>2 DEF InStep
<1>4. ASSUME Entries(i)' + Owed(i)' = Stretches(i)'
      PROVE  Entries(i) + Owed(i) = Stretches(i)
  BY <1>1, <1>2, <1>4 DEF InStep
<1>5. Settled(i)'
  BY <1>1, <1>4 DEF InStep, Settled
<1> QED
  BY <1>3, <1>5 DEF InStep

\* A loaded incident whose last stretch lasts is ESCALATED in its row.
LEMMA LoadedFact ==
  ASSUME IncidentsInv, NEW i \in DOMAIN Loaded, Lasts(i)
  PROVE  Loaded[i].status = "ESCALATED"
<1>1. /\ i \in Incidents /\ row[i] # None /\ Loaded[i] = row[i]
      /\ history[i] \in Seq(LogEntry) /\ RowTellsLastEntry
  BY DEF Loaded, IncidentsInv, TypesFit, RowsTell
<1>2. PICK z \in Nat : z = Len(history[i])
  BY <1>1
<1>3. PICK m \in 1..z : /\ history[i][m].new = "ESCALATED"
                        /\ \A k \in (m+1)..z : history[i][k].new = None
  BY <1>2 DEF Lasts, Stands
<1>4. DOMAIN history[i] = 1..z /\ "ESCALATED" # None
  BY <1>1, <1>2, NamesFact DEF Statuses
<1>5. Moves(i) # {}
  BY <1>3, <1>4 DEF Moves, Range
<1>6. PICK n \in 1..z : /\ history[i][n].new = row[i].status
                        /\ \A k \in 1..z : k > n => history[i][k].new = None
  BY <1>1, <1>4, <1>5 DEF RowTellsLastEntry
<1>7. row[i].status # None
  BY <1>1, NamesFact DEF IncidentsInv, TypesFit, Believed
<1>8. ~(m > n)
  BY <1>3, <1>4, <1>6
<1>9. ~(n > m)
  <2>1. n > m => n \in (m+1)..z
    BY <1>2, <1>3, <1>6
  <2> QED
    BY <1>3, <1>6, <1>7, <2>1
<1>10. n = m
  BY <1>3, <1>6, <1>8, <1>9
<1> QED
  BY <1>1, <1>3, <1>6, <1>10

LEMMA PassInStep ==
  ASSUME IncidentsInv, StretchInv, AlertsChange \/ StartPass \/ GroupsSynced \/ EndPass
  PROVE  StretchInv'
<1>1. TypesFit /\ UNCHANGED <<row, history, job>> /\ job["worker"].stage = "idle"
  BY IdleFact DEF IncidentsInv, AlertsChange, StartPass, GroupsSynced, EndPass, Kept, IdlePass
<1>2. \A s \in Sessions : SessionFits(s)'
  BY <1>1 DEF StretchInv, SessionFits
<1>3. CASE AlertsChange
  <2>1. UNCHANGED <<cache, pass>> /\ life'.booted = life.booted /\ DOMAIN life' = DOMAIN life
    BY <1>3 DEF AlertsChange, StretchInv, GroupsKnown
  <2> QED
    BY <1>1, <1>2, <2>1, AsideKeeps DEF WorkerAside
<1>4. CASE GroupsSynced \/ EndPass
  <2>1. UNCHANGED <<cache, life>> /\ pass.stage # "idle"
    BY <1>4 DEF GroupsSynced, EndPass
  <2>2. \A i \in Incidents : InStep(i)'
    BY <1>1, <2>1, FrameKeeps DEF StretchInv
  <2>3. WorkerFits' /\ GroupsKnown'
    BY <1>1, <2>1 DEF StretchInv, WorkerFits, GroupsKnown
  <2> QED
    BY <1>2, <2>2, <2>3 DEF StretchInv
<1>5. CASE StartPass
  <2>1. /\ cache' = [cache EXCEPT !["worker"] = Loaded] \/ (life.booted /\ UNCHANGED cache)
        /\ life' = [life EXCEPT !.booted = TRUE]
    BY <1>5 DEF StartPass
  <2>2. cache'["worker"] = Loaded \/ (life.booted /\ cache'["worker"] = cache["worker"])
    BY <1>1, <2>1, NamesFact DEF TypesFit
  <2>3. \A i \in Incidents : InStep(i)'
    <3>1. ASSUME NEW i \in Incidents PROVE InStep(i)'
      <4>1. CASE cache'["worker"] = Loaded
        <5>1. i \in DOMAIN cache'["worker"] =>
                 cache'["worker"][i].status = "ESCALATED" \/ ~Lasts(i)
          BY <4>1, LoadedFact
        <5> QED
          BY <1>1, <5>1, JudgesInStep DEF StretchInv
      <4>2. CASE cache'["worker"] = cache["worker"]
        BY <1>1, <4>2, FrameKeeps DEF StretchInv
      <4> QED
        BY <2>2, <4>1, <4>2
    <3> QED
      BY <3>1
  <2>4. WorkerFits'
    BY <1>1 DEF WorkerFits
  <2>5. \A g \in Groups : row[g] # None => g \in DOMAIN Loaded
    BY NamesFact DEF Loaded
  <2>6. \A g \in Groups : row'[g] # None => g \in DOMAIN cache'["worker"]
    BY <1>1, <2>2, <2>5 DEF StretchInv, GroupsKnown
  <2>7. "booted" \in DOMAIN life' /\ (pass'.stage # "idle" => life'.booted)
    BY <2>1 DEF StretchInv, GroupsKnown
  <2> QED
    BY <1>2, <2>3, <2>4, <2>6, <2>7 DEF StretchInv, GroupsKnown
<1> QED
  BY <1>3, <1>4, <1>5

LEMMA SyncInStep ==
  ASSUME IncidentsInv, StretchInv, NEW g \in Groups, SyncGroup(g)
  PROVE  StretchInv'
<1>1. /\ TypesFit /\ RowsTell /\ g \in Incidents /\ "worker" \in Actors /\ "worker" \in Processes
      /\ UNCHANGED <<row, history, life>> /\ job["worker"] = IdleJob
      /\ pass.stage = "sync" /\ pass' = [pass EXCEPT !.left = @ \ {g}]
  BY NamesFact DEF IncidentsInv, SyncGroup
<1>2. pass'.stage = pass.stage /\ life.booted
  BY <1>1 DEF TypesFit, StretchInv, GroupsKnown
<1>3. CASE g \in DOMAIN cache["worker"]
  <2>1. UNCHANGED <<cache, job>>
    BY <1>3 DEF SyncGroup
  <2>2. \A s \in Sessions : SessionFits(s)'
    BY <2>1 DEF StretchInv, SessionFits
  <2> QED
    BY <1>1, <1>2, <2>1, <2>2, AsideKeeps DEF WorkerAside
<1>4. CASE g \notin DOMAIN cache["worker"]
  <2> DEFINE j == [IdleJob EXCEPT !.stage = "create", !.inc = g, !.new = "OPEN"]
  <2>1. cache' = [cache EXCEPT !["worker"] = Put(@, g, NewIncident)]
        /\ job' = [job EXCEPT !["worker"] = j]
    BY <1>4 DEF SyncGroup
  <2>2. j.stage = "create"
    BY DEF IdleJob
  <2> HIDE DEF j
  <2>3. job'["worker"].stage = "create" /\ \A s \in Sessions : job'[s] = job[s]
    BY <1>1, <2>1, <2>2, NamesFact DEF TypesFit
  <2>4. /\ DOMAIN cache'["worker"] = DOMAIN cache["worker"] \cup {g}
        /\ \A k \in DOMAIN cache["worker"] : cache'["worker"][k] = cache["worker"][k]
    <3>1. cache'["worker"] = Put(cache["worker"], g, NewIncident)
      BY <1>1, <2>1 DEF TypesFit
    <3> QED
      BY <1>4, <3>1 DEF Put
  <2>5. row[g] = None
    BY <1>2, <1>4 DEF StretchInv, GroupsKnown
  <2>6. ~Lasts(g)
    <3>1. Moves(g) = {}
      BY <1>1, <2>5 DEF RowsTell
    <3>2. PICK z \in Nat : z = Len(history[g])
      BY <1>1 DEF TypesFit
    <3>3. DOMAIN history[g] = 1..z
      BY <1>1, <3>2 DEF TypesFit
    <3>4. \A m \in 1..z : history[g][m].new = None
      BY <3>1, <3>3 DEF Moves, Range
    <3>5. "ESCALATED" # None
      BY NamesFact DEF Statuses
    <3> QED
      BY <3>2, <3>4, <3>5 DEF Lasts, Stands
  <2>7. \A i \in Incidents : InStep(i)'
    <3>1. ASSUME NEW i \in Incidents PROVE InStep(i)'
      <4>1. i \in DOMAIN cache'["worker"] =>
               \/ /\ i \in DOMAIN cache["worker"]
                  /\ cache'["worker"][i].status = cache["worker"][i].status
               \/ ~Lasts(i)
        BY <2>4, <2>6
      <4> QED
        BY <1>1, <2>3, <4>1, JudgesInStep DEF StretchInv
    <3> QED
      BY <3>1
  <2>8. WorkerFits'
    BY <2>3 DEF WorkerFits
  <2>9. \A s \in Sessions : SessionFits(s)'
    BY <2>3 DEF StretchInv, SessionFits
  <2>10. GroupsKnown'
    BY <1>1, <1>2, <2>4 DEF StretchInv, GroupsKnown
  <2> QED
    BY <2>7, <2>8, <2>9, <2>10 DEF StretchInv
<1> QED
  BY <1>3, <1>4

LEMMA OverdueInStep ==
  ASSUME IncidentsInv, StretchInv, NEW i \in Incidents, EscalateOverdue(i)
  PROVE  StretchInv'
<1>1. /\ TypesFit /\ Kept /\ "worker" \in Actors /\ ProcessOf("worker") = "worker"
      /\ pass.stage = "escalate" /\ i \in pass.left /\ job["worker"] = IdleJob
      /\ UNCHANGED <<row, history, life>>
      /\ cache["worker"][i].status # "ESCALATED"
  BY NamesFact DEF IncidentsInv, EscalateOverdue, Skipped
<1>2. i \in DOMAIN cache["worker"] /\ life.booted
  BY <1>1 DEF Kept, StretchInv, GroupsKnown
<1>3. CASE UNCHANGED <<cache, job>>
  <2>1. \A k \in Incidents : InStep(k)'
    BY <1>1, <1>3, FrameKeeps DEF StretchInv
  <2>2. WorkerFits' /\ \A s \in Sessions : SessionFits(s)'
    BY <1>3 DEF StretchInv, WorkerFits, SessionFits
  <2>3. GroupsKnown'
    BY <1>1, <1>2, <1>3 DEF StretchInv, GroupsKnown
  <2> QED
    BY <2>1, <2>2, <2>3 DEF StretchInv
<1>4. CASE Moving("worker", i, "ESCALATED", "AUTO_ESCALATED")
  <2> DEFINE j == [stage |-> "move", inc |-> i, old |-> cache["worker"][i].status,
                   new |-> "ESCALATED", then |-> "AUTO_ESCALATED"]
  <2>1. /\ cache' = [cache EXCEPT !["worker"][i].status = "ESCALATED"]
        /\ job' = [job EXCEPT !["worker"] = j]
    BY <1>1, <1>4 DEF Moving
  <2>2. j.stage = "move" /\ j.inc = i /\ j.new = "ESCALATED" /\ j.then = "AUTO_ESCALATED"
    OBVIOUS
  <2> HIDE DEF j
  <2>3. job'["worker"] = j /\ \A s \in Sessions : job'[s] = job[s]
    BY <1>1, <2>1, NamesFact DEF TypesFit
  <2>4. /\ DOMAIN cache'["worker"] = DOMAIN cache["worker"]
        /\ cache'["worker"][i].status = "ESCALATED"
        /\ \A k \in DOMAIN cache["worker"] \ {i} : cache'["worker"][k] = cache["worker"][k]
    <3>1. cache["worker"][i] \in Believed /\ "worker" \in DOMAIN cache
      BY <1>1, <1>2, CacheFact
    <3>2. cache'["worker"] = [cache["worker"] EXCEPT ![i].status = "ESCALATED"]
      BY <2>1, <3>1
    <3>3. [cache["worker"][i] EXCEPT !.status = "ESCALATED"].status = "ESCALATED"
      BY <3>1 DEF Believed
    <3> QED
      BY <1>2, <3>2, <3>3
  <2>5. \A k \in Incidents : InStep(k)'
    <3>1. ASSUME NEW k \in Incidents PROVE InStep(k)'
      <4>1. k \in DOMAIN cache'["worker"] =>
               \/ cache'["worker"][k].status = "ESCALATED"
               \/ /\ k \in DOMAIN cache["worker"]
                  /\ cache'["worker"][k].status = cache["worker"][k].status
        BY <2>4
      <4> QED
        BY <1>1, <1>2, <2>2, <2>3, <4>1, JudgesInStep DEF StretchInv
    <3> QED
      BY <3>1
  <2>6. WorkerFits'
    BY <1>2, <2>2, <2>3, <2>4 DEF WorkerFits
  <2>7. \A s \in Sessions : SessionFits(s)'
    BY <2>3 DEF StretchInv, SessionFits
  <2>8. GroupsKnown'
    BY <1>1, <1>2, <2>4 DEF StretchInv, GroupsKnown
  <2> QED
    BY <2>5, <2>6, <2>7, <2>8 DEF StretchInv
<1> QED
  BY <1>3, <1>4 DEF EscalateOverdue

\* What was about to be committed is given up, by the request or the pass.
LEMMA FailsInStep ==
  ASSUME IncidentsInv, StretchInv, NEW a \in Actors, CommitFails(a)
  PROVE  StretchInv'
<1>1. /\ TypesFit /\ UNCHANGED <<row, history, cache, life>>
      /\ job' = [job EXCEPT ![a] = IdleJob]
      /\ pass' = IF a = "worker" THEN IdlePass ELSE pass
  BY DEF CommitFails, IncidentsInv
<1>2. job'[a] = IdleJob /\ \A b \in Actors \ {a} : job'[b] = job[b]
  BY <1>1 DEF TypesFit
<1>3. \A s \in Sessions : SessionFits(s)'
  BY <1>2, IdleFact, NamesFact DEF StretchInv, SessionFits
<1>4. CASE a # "worker"
  <2>1. job'["worker"] = job["worker"] /\ pass' = pass
    BY <1>1, <1>2, <1>4, NamesFact
  <2> QED
    BY <1>1, <1>3, <2>1, AsideKeeps DEF WorkerAside
<1>5. CASE a = "worker"
  <2>1. job'["worker"].stage = "idle" /\ pass'.stage = "idle"
    BY <1>1, <1>2, <1>5, IdleFact DEF IdlePass
  <2>2. \A i \in Incidents : InStep(i)'
    BY <1>1, <2>1, JudgesInStep DEF StretchInv
  <2>3. WorkerFits' /\ GroupsKnown'
    BY <1>1, <2>1 DEF StretchInv, WorkerFits, GroupsKnown
  <2> QED
    BY <1>3, <2>2, <2>3 DEF StretchInv
<1> QED
  BY <1>4, <1>5

LEMMA RestartsInStep ==
  ASSUME IncidentsInv, StretchInv, RestartApi \/ RestartWorker
  PROVE  StretchInv'
<1>1. TypesFit /\ UNCHANGED <<row, history>> /\ "worker" \in Actors /\ "worker" \in Processes
  BY NamesFact DEF IncidentsInv, RestartApi, RestartWorker
<1>2. CASE RestartApi
  <2>1. /\ cache' = [cache EXCEPT !["api"] = Empty] /\ UNCHANGED <<pass, life>>
        /\ job' = [a \in Actors |-> IF a = "worker" THEN job[a] ELSE IdleJob]
    BY <1>2 DEF RestartApi
  <2>2. cache'["worker"] = cache["worker"] /\ job'["worker"] = job["worker"]
    BY <1>1, <2>1 DEF TypesFit
  <2>3. \A s \in Sessions : SessionFits(s)'
    BY <2>1, IdleFact, NamesFact DEF SessionFits
  <2> QED
    BY <1>1, <2>1, <2>2, <2>3, AsideKeeps DEF WorkerAside
<1>3. CASE RestartWorker
  <2>1. /\ cache' = [cache EXCEPT !["worker"] = Empty] /\ pass' = IdlePass
        /\ job' = [job EXCEPT !["worker"] = IdleJob]
        /\ "booted" \in DOMAIN life' /\ life'.booted = FALSE
    BY <1>3 DEF RestartWorker
  <2>2. /\ DOMAIN cache'["worker"] = {} /\ job'["worker"].stage = "idle"
        /\ pass'.stage = "idle" /\ \A s \in Sessions : job'[s] = job[s]
    BY <1>1, <2>1, IdleFact, NamesFact DEF TypesFit, Empty, IdlePass
  <2>3. \A i \in Incidents : InStep(i)'
    BY <1>1, <2>2, JudgesInStep DEF StretchInv
  <2>4. WorkerFits' /\ GroupsKnown'
    BY <2>1, <2>2 DEF WorkerFits, GroupsKnown
  <2>5. \A s \in Sessions : SessionFits(s)'
    BY <2>2 DEF StretchInv, SessionFits
  <2> QED
    BY <2>3, <2>4, <2>5 DEF StretchInv
<1> QED
  BY <1>2, <1>3

\* The worker logs an escalation: it begins a stretch, or one was left for it.
LEMMA WorkerMovesInStep ==
  ASSUME IncidentsInv, StretchInv, SaveMove("worker")
  PROVE  StretchInv'
<1>1. /\ TypesFit /\ "worker" \in Actors /\ WorkerFits /\ "AUTO_ESCALATED" # None
      /\ "ESCALATED" # None /\ JobFits("worker") /\ job["worker"].stage = "move"
  BY NamesFact, IncidentsAssumption DEF IncidentsInv, StretchInv, SaveMove, Statuses
<1>2. PICK j \in Job : j = job["worker"]
  BY <1>1, JobFact
<1>3. PICK i \in Incidents : i = j.inc
  BY <1>1, <1>2, JobFact
<1>4. /\ j.stage = "move" /\ j.new = "ESCALATED" /\ j.then = "AUTO_ESCALATED"
      /\ i \in DOMAIN cache["worker"] /\ cache["worker"][i].status = "ESCALATED"
  BY <1>1, <1>2, <1>3 DEF WorkerFits
<1>5. j.old \in Statuses
  BY <1>1, <1>2 DEF JobFits
<1> DEFINE e == Entry(j.new, j.old, j.new)
           r == [Row(i, j.old) EXCEPT !.status = j.new]
           after == [j EXCEPT !.stage = "follow"]
<1>6. e \in LogEntry /\ e.event = "ESCALATED" /\ e.new = "ESCALATED"
  BY <1>4, <1>5 DEF Entry, LogEntry, Events, Statuses
<1>7. after.stage = "follow" /\ after.inc = i /\ after.then = "AUTO_ESCALATED"
  BY <1>2, <1>3, <1>4 DEF Job
<1>8. /\ row' = [row EXCEPT ![i] = r]
      /\ history' = [history EXCEPT ![i] = Append(@, e)]
      /\ job' = [job EXCEPT !["worker"] = after]
      /\ UNCHANGED <<cache, pass, life>>
  BY <1>1, <1>2, <1>3, <1>4 DEF SaveMove
<1> HIDE DEF e, after, r
<1>9. job'["worker"] = after /\ \A s \in Sessions : job'[s] = job[s]
  BY <1>1, <1>8, NamesFact DEF TypesFit
<1>10. /\ Entries(i)' = Entries(i)
       /\ Stretches(i)' = Stretches(i) + (IF Lasts(i) THEN 0 ELSE 1)
       /\ \A k \in Incidents \ {i} : history'[k] = history[k]
       /\ Entries(i) \in Nat /\ Stretches(i) \in Nat
  <2>1. Entries(i) + 0 = Entries(i) /\ "ESCALATED" # "AUTO_ESCALATED"
    BY <1>1, CountsFact
  <2> QED
    BY <1>1, <1>6, <1>8, <2>1, CountsGrow, CountsFact
<1>11. Owed(i)' = 1 /\ Owed(i) = 0
  BY <1>2, <1>4, <1>7, <1>9 DEF Owed
<1>12. InStep(i)'
  <2>1. Entries(i) <= Stretches(i) /\ (Lasts(i) => Entries(i) # Stretches(i))
    <3>1. InStep(i)
      BY DEF StretchInv
    <3>2. Entries(i) + 0 = Entries(i)
      BY <1>10
    <3> QED
      BY <1>2, <1>3, <1>4, <1>11, <3>1, <3>2 DEF InStep, Settled
  <2>2. Entries(i)' + Owed(i)' <= Stretches(i)'
    BY <1>10, <1>11, <2>1
  <2>3. Settled(i)'
    BY <1>4, <1>7, <1>8, <1>9 DEF Settled
  <2> QED
    BY <2>2, <2>3 DEF InStep
<1>13. ASSUME NEW k \in Incidents \ {i} PROVE InStep(k)'
  <2>1. InStep(k) /\ Entries(k)' = Entries(k) /\ Stretches(k)' = Stretches(k)
        /\ Lasts(k)' = Lasts(k)
    BY <1>10, CountsStay DEF StretchInv
  <2>2. Owed(k)' = 0 /\ Owed(k) = 0
    BY <1>2, <1>4, <1>7, <1>9 DEF Owed
  <2>3. Settled(k)'
    BY <1>7, <1>8, <1>9, <2>1, <2>2 DEF InStep, Settled
  <2> QED
    BY <2>1, <2>2, <2>3 DEF InStep
<1>14. WorkerFits' /\ \A s \in Sessions : SessionFits(s)'
  BY <1>7, <1>9 DEF StretchInv, WorkerFits, SessionFits
<1>15. GroupsKnown'
  <2>1. \A g \in Groups \ {i} : row'[g] = row[g]
    BY <1>1, <1>8, NamesFact DEF TypesFit
  <2> QED
    BY <1>4, <1>8, <2>1 DEF StretchInv, GroupsKnown
<1> QED
  BY <1>12, <1>13, <1>14, <1>15 DEF StretchInv

\* An entry that logs no transition: what the worker owed it owes no more.
LEMMA WorkerEntersInStep ==
  ASSUME IncidentsInv, StretchInv, FollowUp("worker") \/ SaveCreated
  PROVE  StretchInv'
<1>1. /\ TypesFit /\ "worker" \in Actors /\ "AUTO_ESCALATED" # None
      /\ "ESCALATED" # None /\ JobFits("worker")
      /\ job["worker"].stage \in {"follow", "create"}
      /\ UNCHANGED <<cache, pass, life>>
      /\ job' = [job EXCEPT !["worker"] = IdleJob]
  BY NamesFact, IncidentsAssumption DEF IncidentsInv, StretchInv, FollowUp, SaveCreated, Statuses
<1>2. PICK j \in Job : j = job["worker"]
  BY <1>1, JobFact
<1>3. PICK i \in Incidents : i = j.inc
  BY <1>1, <1>2, JobFact
<1>4. i \in DOMAIN cache["worker"]
  BY <1>1, <1>2, <1>3, NamesFact DEF JobFits
<1>5. PICK e \in LogEntry :
         /\ history' = [history EXCEPT ![i] = Append(@, e)]
         /\ e.new = None
         /\ e.event = "AUTO_ESCALATED" <=> (j.stage = "follow" /\ j.then = "AUTO_ESCALATED")
  <2>1. CASE FollowUp("worker")
    <3>1. j.stage = "follow" /\ j.then \in Follows
      BY <1>1, <1>2, <2>1 DEF FollowUp, JobFits
    <3>2. CASE j.then \in Investigates
      <4> DEFINE x == Entry("INVESTIGATION_UPDATED", None, None)
      <4>1. x \in LogEntry /\ x.new = None /\ x.event = "INVESTIGATION_UPDATED"
        BY DEF Entry, LogEntry, Events
      <4>2. j.then # "AUTO_ESCALATED"
        BY <3>2 DEF Investigates
      <4> HIDE DEF x
      <4>3. history' = [history EXCEPT ![i] = Append(@, x)]
        BY <1>2, <1>3, <2>1, <3>2 DEF FollowUp, x
      <4> QED
        BY <4>1, <4>2, <4>3
    <3>3. CASE j.then \notin Investigates
      <4> DEFINE x == Entry(j.then, None, None)
      <4>1. x \in LogEntry /\ x.new = None /\ x.event = j.then
        BY <3>1, <3>3 DEF Entry, LogEntry, Events, Follows, Statuses
      <4> HIDE DEF x
      <4>2. history' = [history EXCEPT ![i] = Append(@, x)]
        BY <1>2, <1>3, <2>1, <3>3 DEF FollowUp, x
      <4> QED
        BY <3>1, <4>1, <4>2
    <3> QED
      BY <3>2, <3>3
  <2>2. CASE SaveCreated
    <3> DEFINE x == Entry("CREATED", None, None)
    <3>1. x \in LogEntry /\ x.new = None /\ x.event = "CREATED"
      BY DEF Entry, LogEntry, Events
    <3> HIDE DEF x
    <3>2. history' = [history EXCEPT ![i] = Append(@, x)] /\ j.stage = "create"
      BY <1>2, <1>3, <2>2 DEF SaveCreated, x
    <3> QED
      BY <3>1, <3>2
  <2> QED
    BY <2>1, <2>2
<1>6. job'["worker"] = IdleJob /\ \A s \in Sessions : job'[s] = job[s]
  BY <1>1, NamesFact DEF TypesFit
<1>7. /\ Entries(i)' = Entries(i) + (IF e.event = "AUTO_ESCALATED" THEN 1 ELSE 0)
      /\ Stretches(i)' = Stretches(i)
      /\ Lasts(i)' = Lasts(i)
      /\ \A k \in Incidents \ {i} : history'[k] = history[k]
      /\ Entries(i) \in Nat /\ Stretches(i) \in Nat
  <2>1. Stretches(i) + 0 = Stretches(i) /\ ~(e.new = "ESCALATED")
    BY <1>1, <1>5, CountsFact
  <2>2. Lasts(i) \in BOOLEAN /\ Lasts(i)' \in BOOLEAN
    BY DEF Lasts, Stands
  <2> QED
    BY <1>1, <1>5, <2>1, <2>2, CountsGrow, CountsFact
<1>8. Owed(i) = (IF e.event = "AUTO_ESCALATED" THEN 1 ELSE 0) /\ Owed(i)' = 0
  BY <1>2, <1>3, <1>5, <1>6, IdleFact DEF Owed
<1>9. InStep(i)'
  <2>1. InStep(i) /\ Entries(i)' + Owed(i)' = Entries(i) + Owed(i)
    BY <1>7, <1>8 DEF StretchInv
  <2>2. Settled(i)'
    BY <1>1, <1>6, <1>7, <2>1, IdleFact DEF InStep, Settled
  <2> QED
    BY <1>7, <2>1, <2>2 DEF InStep
<1>10. ASSUME NEW k \in Incidents \ {i} PROVE InStep(k)'
  <2>1. InStep(k) /\ Entries(k)' = Entries(k) /\ Stretches(k)' = Stretches(k)
        /\ Lasts(k)' = Lasts(k)
    BY <1>7, CountsStay DEF StretchInv
  <2>2. Owed(k)' = 0 /\ Owed(k) = 0
    BY <1>2, <1>3, <1>6, IdleFact DEF Owed
  <2>3. Settled(k)'
    BY <1>1, <1>6, <2>1, <2>2, IdleFact DEF InStep, Settled
  <2> QED
    BY <2>1, <2>2, <2>3 DEF InStep
<1>11. WorkerFits' /\ \A s \in Sessions : SessionFits(s)'
  BY <1>6, IdleFact DEF StretchInv, WorkerFits, SessionFits
<1>12. GroupsKnown'
  <2>1. \A g \in Groups \ {i} : row'[g] = row[g]
    <3>1. row' = row \/ row' = [row EXCEPT ![i] = NewIncident]
      BY <1>2, <1>3 DEF FollowUp, SaveCreated
    <3> QED
      BY <1>1, <3>1, NamesFact DEF TypesFit
  <2> QED
    BY <1>1, <1>4, <2>1 DEF StretchInv, GroupsKnown
<1> QED
  BY <1>9, <1>10, <1>11, <1>12 DEF StretchInv

--------------------------------------------------------------------------------
(* The passes keep up.                                                      *)

LEMMA InitInStep == IncidentsInit => StretchInv
<1> SUFFICES ASSUME IncidentsInit PROVE StretchInv
  OBVIOUS
<1>1. IncidentsInv
  BY InitFits
<1>2. /\ job = [a \in Actors |-> IdleJob] /\ pass = IdlePass
      /\ "booted" \in DOMAIN life /\ life.booted = FALSE
  BY DEF IncidentsInit
<1>3. \A a \in Actors : job[a].stage = "idle"
  BY <1>2, IdleFact
<1>4. "worker" \in Actors /\ Sessions \subseteq Actors /\ DOMAIN cache["worker"] = {}
  <2>1. "worker" \in Actors /\ Sessions \subseteq Actors /\ "worker" \in Processes
    BY NamesFact
  <2>2. cache["worker"] = Empty
    BY <2>1 DEF IncidentsInit
  <2> QED
    BY <2>1, <2>2 DEF Empty
<1>5. ASSUME NEW i \in Incidents PROVE InStep(i)
  <2>1. \A h \in Range(history[i]) : h.event # "AUTO_ESCALATED"
    <3>1. PICK known \in SUBSET Manual : \E path \in [known -> Paths] :
             history = [x \in Incidents |-> IF x \in known THEN Travelled(path[x]) ELSE <<>>]
      BY DEF IncidentsInit
    <3>2. PICK path \in [known -> Paths] :
             history = [x \in Incidents |-> IF x \in known THEN Travelled(path[x]) ELSE <<>>]
      BY <3>1
    <3>3. CASE i \in known
      <4>1. history[i] = Travelled(path[i]) /\ path[i] \in Paths
        BY <3>2, <3>3
      <4> QED
        BY <4>1, TravelledFacts
    <3>4. CASE i \notin known
      <4>1. history[i] = <<>>
        BY <3>2, <3>4
      <4>2. Range(history[i]) = {}
        BY <4>1 DEF Range
      <4> QED
        BY <4>2
    <3> QED
      BY <3>3, <3>4
  <2>2. ByTheWorker(i) = {}
    BY <2>1 DEF ByTheWorker, Range
  <2>3. Entries(i) = 0
    BY <2>2, FS_EmptySet DEF Entries
  <2>4. Owed(i) = 0 /\ Stretches(i) \in Nat
    BY <1>1, <1>3, <1>4, CountsFact DEF Owed, IncidentsInv
  <2> QED
    BY <1>3, <1>4, <2>3, <2>4 DEF InStep, Settled
<1> QED
  BY <1>2, <1>3, <1>4, <1>5 DEF StretchInv, WorkerFits, SessionFits, GroupsKnown, IdlePass

LEMMA StepInStep ==
  ASSUME IncidentsInv, StretchInv, [IncidentsNext]_vars
  PROVE  StretchInv'
<1>1. CASE \/ \E s \in Sessions : CreateIncident(s)
           \/ \E s \in Sessions, i \in Incidents : Asks(s, i)
           \/ \E s \in Sessions : OwnerFound(s)
  BY <1>1, AnalystsInStep
<1>2. CASE \E s \in Sessions : SaveOwner(s)
  BY <1>2, CommitsInStep
<1>3. CASE \E a \in Actors : SaveMove(a) \/ FollowUp(a)
  BY <1>3, CommitsInStep, WorkerMovesInStep, WorkerEntersInStep DEF Actors
<1>4. CASE \E a \in Actors : CommitFails(a)
  BY <1>4, FailsInStep
<1>5. CASE AlertsChange \/ StartPass \/ GroupsSynced \/ EndPass
  BY <1>5, PassInStep
<1>6. CASE \E g \in Groups : SyncGroup(g)
  BY <1>6, SyncInStep
<1>7. CASE SaveCreated
  BY <1>7, WorkerEntersInStep
<1>8. CASE \E i \in Incidents : EscalateOverdue(i)
  BY <1>8, OverdueInStep
<1>9. CASE RestartApi \/ RestartWorker
  BY <1>9, RestartsInStep
<1>10. CASE UNCHANGED vars
  <2>1. \A s \in Sessions : SessionFits(s)'
    BY <1>10 DEF vars, StretchInv, SessionFits
  <2> QED
    BY <1>10, <2>1, AsideKeeps DEF vars, WorkerAside
<1>11. IncidentsNext =>
         \/ \E s \in Sessions : CreateIncident(s)
         \/ \E s \in Sessions, i \in Incidents : Asks(s, i)
         \/ \E s \in Sessions : OwnerFound(s)
         \/ \E s \in Sessions : SaveOwner(s)
         \/ \E a \in Actors : SaveMove(a) \/ FollowUp(a)
         \/ \E a \in Actors : CommitFails(a)
         \/ AlertsChange \/ StartPass \/ GroupsSynced \/ EndPass
         \/ \E g \in Groups : SyncGroup(g)
         \/ SaveCreated
         \/ \E i \in Incidents : EscalateOverdue(i)
         \/ RestartApi \/ RestartWorker
  BY DEF IncidentsNext, Asks
<1> QED
  BY <1>1, <1>2, <1>3, <1>4, <1>5, <1>6, <1>7, <1>8, <1>9, <1>10, <1>11

\* A pass that went through has missed no group of alerts, and the worker escalates
\* an incident once in each stretch at most, however stale its dictionary is
\* (sync_alerts, process_escalations).
THEOREM PassesAlwaysKeepUp == IncidentsSpec => []PassesKeepUp
<1>1. IncidentsInv /\ StretchInv => EscalatedOncePerStretch
  <2> SUFFICES ASSUME IncidentsInv, StretchInv, NEW i \in Incidents
               PROVE  Cardinality(ByTheWorker(i)) <= Cardinality(Starts(i))
    BY DEF EscalatedOncePerStretch
  <2>1. /\ Entries(i) + Owed(i) <= Stretches(i) /\ Owed(i) \in {0, 1}
        /\ Entries(i) \in Nat /\ Stretches(i) \in Nat
    BY CountsFact DEF IncidentsInv, StretchInv, InStep
  <2> QED
    BY <2>1 DEF Entries, Stretches
<1>2. IncidentsInv /\ StretchInv /\ [IncidentsNext]_vars => StretchInv'
  BY StepInStep
<1> QED
  BY IncidentsInvHolds, PassesLeaveIncidents, InitInStep, <1>1, <1>2, PTL
     DEF IncidentsSpec, PassesKeepUp
=============================================================================
