------------------------------- MODULE Incidents -------------------------------
(***************************************************************************)
(* Incidents: the analysts' calls at the API process and the worker's pass *)
(* after a scan step, which groups active alerts into incidents            *)
(* (sync_alerts) and escalates the old critical ones                       *)
(* (process_escalations).                                                  *)
(*                                                                         *)
(* Each process has a dictionary of incidents of its own.  An operation    *)
(* checks and changes the dictionary first and then writes the row, its    *)
(* history entry and its event in one commit; what else it records takes   *)
(* commits of its own.  The worker loads the rows when a run starts, but   *)
(* not for the passes after its later steps; the API never does.  Rows     *)
(* carry a version: two commits on a row that overlap cannot both succeed, *)
(* so that a commit is a step that happens as a whole or fails.            *)
(***************************************************************************)
EXTENDS Integers, Sequences, FiniteSets, SequencesExt, FiniteSetsExt, Functions

CONSTANTS
    Manual,         \* incidents analysts may create
    Groups,         \* groups of alerts the worker may make an incident of
    Critical,       \* the incidents of severity CRITICAL
    Sessions,       \* concurrent requests at the API process
    Owners,
    MaxCalls,       \* bound: requests
    MaxPasses,      \* bound: passes of the worker
    MaxTroubles,    \* bound: commits that fail and restarts
    None

Incidents == Manual \cup Groups
Actors == Sessions \cup {"worker"}
Processes == {"api", "worker"}
ProcessOf(a) == IF a = "worker" THEN "worker" ELSE "api"

Statuses == {"OPEN", "TRIAGED", "INVESTIGATING", "ESCALATED", "CONTAINED",
             "RESOLVED", "CLOSED"}
Believed == [status: Statuses, owner: Owners \cup {None}]

ASSUME IncidentsAssumption ==
    /\ Manual \cap Groups = {} /\ Critical \subseteq Incidents
    /\ "worker" \notin Sessions
    /\ None \notin Owners \cup Incidents \cup Believed \cup Statuses
    /\ None \notin {"START", "COMPLETE", "AUTO_ESCALATED"}
    /\ MaxCalls \in Nat /\ MaxPasses \in Nat /\ MaxTroubles \in Nat

VARIABLES
    row,        \* row[i]: the row of incident i, or None
    history,    \* history[i]: the committed history of i
    timeline,   \* timeline[i]: its committed investigation entries
    cache,      \* cache[p]: the dictionary of process p
    job,        \* job[a]: what actor a still has to commit
    pass,       \* the worker's pass
    active,     \* the groups whose alerts are active in the worker's memory
    lost,       \* lost[i]: statuses set in a dictionary whose commit failed
    life,       \* what the worker has been through, in this process and before
    spent       \* what is used up of the bounds

vars == <<row, history, timeline, cache, job, pass, active, lost, life, spent>>

Empty == [x \in {} |-> None]
Put(dict, key, value) == [x \in DOMAIN dict \cup {key} |->
                             IF x = key THEN value ELSE dict[x]]
NewIncident == [status |-> "OPEN", owner |-> None]
IdleJob == [stage |-> "idle", inc |-> None, old |-> None, new |-> None, then |-> None]
IdlePass == [stage |-> "idle", left |-> {}]
Entry(event, old, new) == [event |-> event, old |-> old, new |-> new]

NotYetKnown == {i \in Incidents : row[i] = None /\ \A p \in Processes : i \notin DOMAIN cache[p]}

Spend(what) == spent[what] < (CASE what = "calls"    -> MaxCalls
                                [] what = "passes"   -> MaxPasses
                                [] what = "troubles" -> MaxTroubles)
               /\ spent' = [spent EXCEPT ![what] = @ + 1]

--------------------------------------------------------------------------------
(* The state machine of an incident.                                       *)

MayBecome_Slip(old) ==                       \* CLOSED not treated on its own
    CASE old = "OPEN"          -> {"OPEN", "TRIAGED", "ESCALATED"}
      [] old = "TRIAGED"       -> {"TRIAGED", "INVESTIGATING", "ESCALATED"}
      [] old = "INVESTIGATING" -> {"INVESTIGATING", "CONTAINED", "ESCALATED"}
      [] old = "ESCALATED"     -> {"ESCALATED", "INVESTIGATING", "CONTAINED"}
      [] old = "CONTAINED"     -> {"CONTAINED", "RESOLVED"}
      [] old = "RESOLVED"      -> {"RESOLVED", "CLOSED"}
      [] OTHER                 -> {"CLOSED", "ESCALATED"}

MayBecome(old) ==
    CASE old = "OPEN"          -> {"OPEN", "TRIAGED", "ESCALATED"}
      [] old = "TRIAGED"       -> {"TRIAGED", "INVESTIGATING", "ESCALATED"}
      [] old = "INVESTIGATING" -> {"INVESTIGATING", "CONTAINED", "ESCALATED"}
      [] old = "ESCALATED"     -> {"ESCALATED", "INVESTIGATING", "CONTAINED"}
      [] old = "CONTAINED"     -> {"CONTAINED", "RESOLVED"}
      [] old = "RESOLVED"      -> {"RESOLVED", "CLOSED"}
      [] old = "CLOSED"        -> {"CLOSED"}

\* Up to its first commit transition_status runs without a pause: it checks the
\* dictionary's status, replaces it, and remembers the one it had.
Moving(a, i, new, then) ==
    LET p == ProcessOf(a)
        old == cache[p][i].status
    IN  /\ cache' = [cache EXCEPT ![p][i].status = new]
        /\ job' = [job EXCEPT ![a] = [stage |-> "move", inc |-> i, old |-> old,
                                      new |-> new, then |-> then]]

\* An incident without a row is inserted first, as the dictionary had it.
Row(i, old) == IF row[i] = None THEN [NewIncident EXCEPT !.status = old] ELSE row[i]

\* After the commit of a transition come its workflow event and audit entry, and
\* then what the caller does next.
SaveMove_Slip(a) ==                          \* the history in a commit of its own
    /\ job[a].stage = "move"
    /\ LET j == job[a] IN
         /\ row' = [row EXCEPT ![j.inc] = [Row(j.inc, j.old) EXCEPT !.status = j.new]]
         /\ job' = [job EXCEPT ![a] = IF j.then = None THEN IdleJob
                                      ELSE [j EXCEPT !.stage = "follow"]]
    /\ UNCHANGED <<timeline, cache, pass, active, lost, life, spent, history>>

SaveMove(a) ==
    /\ job[a].stage = "move"
    /\ LET j == job[a] IN
         /\ row' = [row EXCEPT ![j.inc] = [Row(j.inc, j.old) EXCEPT !.status = j.new]]
         /\ history' = [history EXCEPT ![j.inc] = Append(@, Entry(j.new, j.old, j.new))]
         /\ job' = [job EXCEPT ![a] = IF j.then = None THEN IdleJob
                                      ELSE [j EXCEPT !.stage = "follow"]]
    /\ UNCHANGED <<timeline, cache, pass, active, lost, life, spent>>

\* An investigation entry and its history entry, or the entry of an escalation.
Investigates == {"START", "NOTE", "COMPLETE"}

FollowUp(a) ==
    /\ job[a].stage = "follow"
    /\ LET j == job[a] IN
         IF j.then \in Investigates
         THEN /\ timeline' = [timeline EXCEPT ![j.inc] = Append(@, j.then)]
              /\ history' = [history EXCEPT ![j.inc] =
                                Append(@, Entry("INVESTIGATION_UPDATED", None, None))]
         ELSE /\ history' = [history EXCEPT ![j.inc] = Append(@, Entry(j.then, None, None))]
              /\ UNCHANGED timeline
    /\ job' = [job EXCEPT ![a] = IdleJob]
    /\ UNCHANGED <<row, cache, pass, active, lost, life, spent>>

\* The commit fails, and with it the request or the worker's pass: the dictionary
\* stays as it was changed.  (After a transition's commit, its audit entry.)
CommitFails(a) ==
    /\ job[a].stage \notin {"idle", "lookup"}
    /\ Spend("troubles")
    /\ lost' = IF job[a].stage \in {"move", "create"}
               THEN [lost EXCEPT ![job[a].inc] = @ \cup {job[a].new}] ELSE lost
    /\ job' = [job EXCEPT ![a] = IdleJob]
    /\ pass' = IF a = "worker" THEN IdlePass ELSE pass
    /\ UNCHANGED <<row, history, timeline, cache, active, life>>

--------------------------------------------------------------------------------
(* The analysts.                                                           *)

Call(s, i) == job[s] = IdleJob /\ i \in DOMAIN cache.api /\ Spend("calls")
Status(i) == cache.api[i].status

\* No history is written for an incident made by hand.
CreateIncident(s) ==
    /\ job[s] = IdleJob
    /\ Spend("calls")
    /\ \E i \in Manual \cap NotYetKnown :
          /\ row' = [row EXCEPT ![i] = NewIncident]
          /\ cache' = [cache EXCEPT !.api = Put(@, i, NewIncident)]
    /\ UNCHANGED <<history, timeline, job, pass, active, lost, life>>

\* triage, contain (through complete), resolve, close
Transition(s, i, new) ==
    /\ Call(s, i)
    /\ new \in MayBecome(Status(i))
    /\ Moving(s, i, new, None)
    /\ UNCHANGED <<row, history, timeline, pass, active, lost, life>>

\* An investigation that the dictionary says is under way takes an entry only.
StartInvestigation(s, i) ==
    /\ Call(s, i)
    /\ Status(i) # "CLOSED"
    /\ \/ /\ Status(i) # "INVESTIGATING"
          /\ "INVESTIGATING" \in MayBecome(Status(i))
          /\ Moving(s, i, "INVESTIGATING", "START")
       \/ /\ Status(i) = "INVESTIGATING"
          /\ job' = [job EXCEPT ![s] = [IdleJob EXCEPT !.stage = "follow", !.inc = i,
                                                       !.then = "START"]]
          /\ UNCHANGED cache
    /\ UNCHANGED <<row, history, timeline, pass, active, lost, life>>

AddNote(s, i) ==
    /\ Call(s, i)
    /\ Status(i) # "CLOSED"
    /\ job' = [job EXCEPT ![s] = [IdleJob EXCEPT !.stage = "follow", !.inc = i,
                                                 !.then = "NOTE"]]
    /\ UNCHANGED <<row, history, timeline, cache, pass, active, lost, life>>

CompleteInvestigation(s, i) ==
    /\ Call(s, i)
    /\ Status(i) # "CLOSED"
    /\ "CONTAINED" \in MayBecome(Status(i))
    /\ Moving(s, i, "CONTAINED", "COMPLETE")
    /\ UNCHANGED <<row, history, timeline, pass, active, lost, life>>

AssignIncident(s, i, o) ==
    /\ Call(s, i)
    /\ Status(i) # "CLOSED"
    /\ cache' = [cache EXCEPT !.api[i].owner = o]
    /\ job' = [job EXCEPT ![s] = [IdleJob EXCEPT !.stage = "assign", !.inc = i, !.then = o]]
    /\ UNCHANGED <<row, history, timeline, pass, active, lost, life>>

SaveOwner(s) ==
    /\ job[s].stage = "assign"
    /\ LET j == job[s] IN
         /\ row' = [row EXCEPT ![j.inc] = [Row(j.inc, Status(j.inc)) EXCEPT !.owner = j.then]]
         /\ history' = [history EXCEPT ![j.inc] = Append(@, Entry("ASSIGNED", None, None))]
    /\ job' = [job EXCEPT ![s] = IdleJob]
    /\ UNCHANGED <<timeline, cache, pass, active, lost, life, spent>>

\* To a team or to management.
Escalate(s, i) ==
    /\ Call(s, i)
    /\ Status(i) # "CLOSED"
    /\ "ESCALATED" \in MayBecome(Status(i))
    /\ Moving(s, i, "ESCALATED", "ESCALATED")
    /\ UNCHANGED <<row, history, timeline, pass, active, lost, life>>

\* To an owner who is named, or to the one of the asset's scope, who is looked
\* up after the check.  The owner is set in the dictionary only, and stays set
\* when the transition is refused.
Handed(i, o) == [cache EXCEPT !.api[i].owner = o]

EscalateTo(s, i, o) ==
    IF "ESCALATED" \in MayBecome(Status(i))
    THEN /\ cache' = [Handed(i, o) EXCEPT !.api[i].status = "ESCALATED"]
         /\ job' = [job EXCEPT ![s] = [stage |-> "move", inc |-> i, old |-> Status(i),
                                       new |-> "ESCALATED", then |-> "ESCALATED"]]
    ELSE /\ cache' = Handed(i, o)
         /\ job' = [job EXCEPT ![s] = IdleJob]

EscalateToNamed(s, i, o) ==
    /\ Call(s, i)
    /\ Status(i) # "CLOSED"
    /\ EscalateTo(s, i, o)
    /\ UNCHANGED <<row, history, timeline, pass, active, lost, life>>

LookUpOwner(s, i) ==
    /\ Call(s, i)
    /\ Status(i) # "CLOSED"
    /\ job' = [job EXCEPT ![s] = [IdleJob EXCEPT !.stage = "lookup", !.inc = i]]
    /\ UNCHANGED <<row, history, timeline, cache, pass, active, lost, life>>

OwnerFound(s) ==
    /\ job[s].stage = "lookup"
    /\ \E o \in Owners : EscalateTo(s, job[s].inc, o)
    /\ UNCHANGED <<row, history, timeline, pass, active, lost, life, spent>>

--------------------------------------------------------------------------------
(* The worker.                                                             *)

\* The alerts of the worker come and go between passes.
\* An alert has a new id in a new worker: its group is another one.
AlertsChange ==
    /\ pass = IdlePass
    /\ \E gs \in SUBSET (Groups \ life.past) \ {active} :
          active' = gs /\ life' = [life EXCEPT !.seen = @ \cup gs]
    /\ Spend("passes")
    /\ UNCHANGED <<row, history, timeline, cache, job, pass, lost>>

Loaded == [i \in {x \in Incidents : row[x] # None} |-> row[i]]

\* The pass after the first step of a run finds the rows loaded: a run looks for
\* nodes of the intelligence fabric, and as nothing makes one, every run is a
\* cold start.  The next pass may be one of the same run.
StartPass ==
    /\ pass = IdlePass
    /\ Spend("passes")
    /\ \/ cache' = [cache EXCEPT !.worker = Loaded]
       \/ life.booted /\ UNCHANGED cache
    /\ life' = [life EXCEPT !.booted = TRUE]
    /\ pass' = [stage |-> "sync", left |-> active]
    /\ UNCHANGED <<row, history, timeline, job, active, lost>>

SyncGroup(g) ==
    /\ pass.stage = "sync"
    /\ job["worker"] = IdleJob
    /\ g \in pass.left
    /\ pass' = [pass EXCEPT !.left = @ \ {g}]
    /\ IF g \in DOMAIN cache.worker THEN UNCHANGED <<cache, job>>
       ELSE /\ cache' = [cache EXCEPT !.worker = Put(@, g, NewIncident)]
            /\ job' = [job EXCEPT !["worker"] =
                          [IdleJob EXCEPT !.stage = "create", !.inc = g, !.new = "OPEN"]]
    /\ UNCHANGED <<row, history, timeline, active, lost, life, spent>>

\* The row, the CREATED entry, the evidence and the event in one commit.  (The
\* unique fingerprint refuses nothing here: only a worker makes rows of groups.)
SaveCreated ==
    /\ job["worker"].stage = "create"
    /\ LET g == job["worker"].inc IN
         /\ row[g] = None
         /\ row' = [row EXCEPT ![g] = NewIncident]
         /\ history' = [history EXCEPT ![g] = Append(@, Entry("CREATED", None, None))]
    /\ job' = [job EXCEPT !["worker"] = IdleJob]
    /\ UNCHANGED <<timeline, cache, pass, active, lost, life, spent>>

GroupsSynced ==
    /\ pass.stage = "sync" /\ pass.left = {}
    /\ job["worker"] = IdleJob
    /\ pass' = [stage |-> "escalate", left |-> DOMAIN cache.worker]
    /\ UNCHANGED <<row, history, timeline, cache, job, active, lost, life, spent>>

\* Which of the critical incidents are older than an hour is left open.  One that
\* is CONTAINED cannot be escalated: the error ends the pass.
Skipped_Slip == {"CLOSED", "RESOLVED"}
Skipped == {"CLOSED", "RESOLVED", "ESCALATED"}

EscalateOverdue(i) ==
    /\ pass.stage = "escalate"
    /\ job["worker"] = IdleJob
    /\ i \in pass.left \cap Critical
    /\ cache.worker[i].status \notin Skipped
    /\ IF "ESCALATED" \in MayBecome(cache.worker[i].status)
       THEN /\ Moving("worker", i, "ESCALATED", "AUTO_ESCALATED")
            /\ pass' = [pass EXCEPT !.left = @ \ {i}]
       ELSE pass' = IdlePass /\ UNCHANGED <<cache, job>>
    /\ UNCHANGED <<row, history, timeline, active, lost, life, spent>>

EndPass ==
    /\ pass.stage = "escalate"
    /\ job["worker"] = IdleJob
    /\ pass' = IdlePass
    /\ UNCHANGED <<row, history, timeline, cache, job, active, lost, life, spent>>

--------------------------------------------------------------------------------
(* Restarts: the dictionary and what was under way are gone.  A new worker *)
(* has no alerts yet.                                                      *)

RestartApi ==
    /\ Spend("troubles")
    /\ cache' = [cache EXCEPT !.api = Empty]
    /\ lost' = [i \in Incidents |-> lost[i] \cup
                   {job[s].new : s \in {x \in Sessions : job[x].stage = "move" /\ job[x].inc = i}}]
    /\ job' = [a \in Actors |-> IF a = "worker" THEN job[a] ELSE IdleJob]
    /\ UNCHANGED <<row, history, timeline, pass, active, life>>

RestartWorker ==
    /\ Spend("troubles")
    /\ cache' = [cache EXCEPT !.worker = Empty]
    /\ lost' = IF job["worker"].stage \in {"move", "create"}
               THEN [lost EXCEPT ![job["worker"].inc] = @ \cup {job["worker"].new}] ELSE lost
    /\ job' = [job EXCEPT !["worker"] = IdleJob]
    /\ pass' = IdlePass
    /\ active' = {}
    /\ life' = [booted |-> FALSE, seen |-> {}, past |-> life.past \cup life.seen]
    /\ UNCHANGED <<row, history, timeline>>

\* An incident made by hand may have come some way before; alerts may be active.
Paths == {<<>>, <<"ESCALATED">>, <<"ESCALATED", "CONTAINED">>,
          <<"ESCALATED", "CONTAINED", "RESOLVED">>}
Travelled(path) ==
    [n \in DOMAIN path |-> Entry(path[n], IF n = 1 THEN "OPEN" ELSE path[n-1], path[n])]
At(path) == [NewIncident EXCEPT !.status = IF path = <<>> THEN "OPEN" ELSE Last(path)]

IncidentsInit ==
    /\ \E known \in SUBSET Manual : \E path \in [known -> Paths] :
         /\ row = [i \in Incidents |-> IF i \in known THEN At(path[i]) ELSE None]
         /\ history = [i \in Incidents |-> IF i \in known THEN Travelled(path[i]) ELSE <<>>]
         /\ cache = [p \in Processes |->
                       IF p = "api" THEN [i \in known |-> At(path[i])] ELSE Empty]
    /\ timeline = [i \in Incidents |-> <<>>]
    /\ job = [a \in Actors |-> IdleJob]
    /\ pass = IdlePass
    /\ active \in SUBSET Groups
    /\ lost = [i \in Incidents |-> {}]
    /\ life = [booted |-> FALSE, seen |-> active, past |-> {}]
    /\ spent = [calls |-> 0, passes |-> 0, troubles |-> 0]

IncidentsNext ==
    \/ \E s \in Sessions : CreateIncident(s)
    \/ \E s \in Sessions, i \in Incidents, new \in {"TRIAGED", "RESOLVED", "CLOSED"} :
          Transition(s, i, new)
    \/ \E s \in Sessions, i \in Incidents : StartInvestigation(s, i)
    \/ \E s \in Sessions, i \in Incidents : AddNote(s, i)
    \/ \E s \in Sessions, i \in Incidents : CompleteInvestigation(s, i)
    \/ \E s \in Sessions, i \in Incidents, o \in Owners : AssignIncident(s, i, o)
    \/ \E s \in Sessions, i \in Incidents : Escalate(s, i)
    \/ \E s \in Sessions, i \in Incidents, o \in Owners : EscalateToNamed(s, i, o)
    \/ \E s \in Sessions, i \in Incidents : LookUpOwner(s, i)
    \/ \E s \in Sessions : OwnerFound(s)
    \/ \E s \in Sessions : SaveOwner(s)
    \/ \E a \in Actors : SaveMove(a)
    \/ \E a \in Actors : FollowUp(a)
    \/ \E a \in Actors : CommitFails(a)
    \/ AlertsChange \/ StartPass
    \/ \E g \in Groups : SyncGroup(g)
    \/ SaveCreated \/ GroupsSynced
    \/ \E i \in Incidents : EscalateOverdue(i)
    \/ EndPass
    \/ RestartApi \/ RestartWorker

IncidentsSpec == IncidentsInit /\ [][IncidentsNext]_vars

--------------------------------------------------------------------------------
(* What the dictionaries, the rows and the histories promise.              *)

Jobs == {"idle", "lookup", "create", "move", "assign", "follow"}

\* The types of the variables (IncidentRecord, the incident tables).
IncidentsTypeOK ==
    /\ row \in [Incidents -> Believed \cup {None}]
    /\ \A p \in Processes : DOMAIN cache[p] \subseteq Incidents
                            /\ Range(cache[p]) \subseteq Believed
    /\ \A a \in Actors : /\ job[a].stage \in Jobs
                         /\ job[a].inc \in Incidents \cup {None}
                         /\ job[a].stage = "move" => job[a].new \in MayBecome(job[a].old)
    /\ pass.stage \in {"idle", "sync", "escalate"}
    /\ pass.left \subseteq Incidents /\ active \subseteq Groups
    /\ \A i \in Incidents : Range(timeline[i]) \subseteq Investigates
    /\ \A i \in Incidents : row[i] = None => history[i] = <<>> \/ history[i][1].event \in
                               {"INVESTIGATION_UPDATED", "AUTO_ESCALATED", "ESCALATED"}

Moves(i) == {h \in Range(history[i]) : h.new # None}
Logged(i) == {"OPEN"} \cup {h.new : h \in Moves(i)}
Pending(i) == {job[a].new : a \in {b \in Actors : job[b].inc = i /\ job[b].stage = "move"}}

\* No status without a trace: what a process believes of an incident, and where
\* every logged transition started, was logged before, is about to be, or was
\* lost with a commit that failed - however the calls overlap, the worker's
\* dictionary is stale or the row is inserted late (transition_status).
BeliefsAreLogged ==
    \A i \in Incidents :
      LET known == Logged(i) \cup Pending(i) \cup lost[i]
      IN  /\ \A p \in Processes : i \in DOMAIN cache[p] => cache[p][i].status \in known
          /\ \A h \in Moves(i) : h.old \in known

\* The row shows the transition that was committed last, and the history it can
\* be read from: a stale dictionary can put the row back, never apart from its
\* history (one commit for both).
RowTellsLastEntry ==
    \A i \in Incidents : row[i] # None =>
      IF Moves(i) = {} THEN lost[i] \subseteq {"OPEN"} => row[i].status = "OPEN"
      ELSE \E n \in DOMAIN history[i] :
             /\ history[i][n].new = row[i].status
             /\ \A m \in DOMAIN history[i] : m > n => history[i][m].new = None

\* Entries of the second commit are earned by the first: a completed
\* investigation by a logged containment, an escalation's entry by a logged
\* escalation, a started one by an INVESTIGATING that some call set.
FollowUpsAreEarned ==
    \A i \in Incidents :
      /\ "COMPLETE" \in Range(timeline[i]) => "CONTAINED" \in Logged(i)
      /\ "START" \in Range(timeline[i]) =>
            "INVESTIGATING" \in Logged(i) \cup Pending(i) \cup lost[i]
      /\ \A h \in Range(history[i]) :
            h.event = "AUTO_ESCALATED" => "ESCALATED" \in Logged(i)

\* Rows, dictionaries and timelines can be explained from the histories.
HistoriesExplain == BeliefsAreLogged /\ RowTellsLastEntry /\ FollowUpsAreEarned

\* The history up to entry n has incident i ESCALATED; where such a stretch begins.
Stands(i, n) == \E m \in 1..n : /\ history[i][m].new = "ESCALATED"
                                /\ \A k \in (m+1)..n : history[i][k].new = None
Starts(i) == {n \in DOMAIN history[i] : history[i][n].new = "ESCALATED" /\ ~Stands(i, n-1)}
ByTheWorker(i) == {n \in DOMAIN history[i] : history[i][n].event = "AUTO_ESCALATED"}

\* The worker escalates an incident again only if it had been something else
\* since: it has no more escalations than there are stretches in which the history
\* has the incident ESCALATED, although the worker judges by a dictionary that
\* is stale and loses what it knew with every run (process_escalations).
EscalatedOncePerStretch ==
    \A i \in Incidents : Cardinality(ByTheWorker(i)) <= Cardinality(Starts(i))

\* A pass that went through leaves an incident for every group of active alerts,
\* with its row and its CREATED entry unless the commit was lost (sync_alerts).
PassLeavesIncidents ==
    pass.stage = "escalate" =>
      \A g \in active :
        /\ g \in DOMAIN cache.worker
        /\ lost[g] = {} => /\ row[g] # None
                           /\ \E h \in Range(history[g]) : h.event = "CREATED"

\* A pass misses no group and repeats no escalation.
PassesKeepUp == EscalatedOncePerStretch /\ PassLeavesIncidents

\* In the dictionary of a process CLOSED is for ever: until a run loads it anew or
\* the process restarts, no call, pass or late answer takes an incident out of
\* it (validate_transition).
ClosedStays ==
    \A p \in Processes : \A i \in DOMAIN cache[p] :
        cache[p][i].status = "CLOSED" /\ i \in DOMAIN cache'[p] =>
            \/ cache'[p][i].status = "CLOSED"
            \/ p = "worker" /\ pass = IdlePass

\* Nor does it change hands ("incidents in CLOSED state cannot be reopened or
\* mutated", sprint_17_plan.md:69), with one exception: escalate_to_owner looks an
\* owner up after it has seen the incident open, and sets it although the
\* incident was closed meanwhile and the escalation is refused.
LateOwner(i) ==
    \E s \in Sessions : job[s].stage = "lookup" /\ job[s].inc = i /\ job'[s] = IdleJob
ClosedKeepsItsOwner ==
    \A i \in DOMAIN cache["api"] :
        cache["api"][i].status = "CLOSED" /\ i \in DOMAIN cache'["api"] =>
            cache'["api"][i].owner = cache["api"][i].owner \/ LateOwner(i)

\* What a process believes of a closed incident is final, late owners excepted.
ClosedBeliefsAreFinal == [][ClosedStays /\ ClosedKeepsItsOwner]_vars
================================================================================
