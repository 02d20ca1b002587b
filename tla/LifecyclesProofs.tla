--------------------------- MODULE LifecyclesProofs ---------------------------
(***************************************************************************)
(* Theorems about Lifecycles for any finite sets of requests and workers,  *)
(* any number of passes, refused commits and restarts: types, that the     *)
(* history tells the row, that nothing decided after a record was closed   *)
(* gets into its history, that what the API shows differs from the row     *)
(* only for a reason, and that nothing looked for first is made twice.     *)
(***************************************************************************)
EXTENDS Lifecycles, FiniteSetTheorems, SequenceTheorems, TLAPS

Assigned(s, q) == session' = [session EXCEPT ![s] = q]

-----------------------------------------------------------------------------
(* Ids and turns.                                                           *)

LEMMA SetsFinite ==
    /\ IsFiniteSet(Requests) /\ IsFiniteSet(Workers)
    /\ IsFiniteSet(Sessions) /\ IsFiniteSet(Processes)
<1>1. IsFiniteSet(Requests) /\ IsFiniteSet(Workers)
  BY LifecyclesAssumption
<1>2. QED
  BY <1>1, FS_Union, FS_AddElement DEF Sessions, Processes

LEMMA ProcessFacts ==
    /\ \A s \in Sessions : Process(s) \in Processes
    /\ \A q \in Requests : Process(q) = API
    /\ \A w \in Workers : Process(w) = w /\ w # API /\ w \notin Requests
  BY LifecyclesAssumption DEF Process, Processes, Sessions

LEMMA IdsFinite == IsFiniteSet(IdsInUse)
<1> DEFINE known1 == {q \in Processes : held[q] # None}
           f == [s \in Sessions |-> session[s].id]
           g == [p \in known1 |-> held[p].id]
           A == {r.id : r \in {row} \ {None}}
           B == {session[s].id : s \in Sessions}
           C == {held[p].id : p \in known1}
<1>1. IsFiniteSet(A)
  <2>1. A \subseteq {row.id}
    OBVIOUS
  <2>2. IsFiniteSet({row.id})
    BY FS_Singleton
  <2> HIDE DEF A
  <2>3. QED
    BY <2>1, <2>2, FS_Subset
<1>2. IsFiniteSet(B)
  <2>1. f \in Surjection(Sessions, B)
    BY DEF Surjection
  <2>2. QED
    BY <2>1, SetsFinite, FS_Surjection
<1>3. IsFiniteSet(C)
  <2>1. IsFiniteSet(known1)
    BY SetsFinite, FS_Subset
  <2>2. g \in Surjection(known1, C)
    BY DEF Surjection
  <2>3. QED
    BY <2>1, <2>2, FS_Surjection
<1>4. IdsInUse = (({0} \cup A) \cup B) \cup C
  BY DEF IdsInUse
<1> HIDE DEF A, B, C
<1>5. QED
  BY <1>1, <1>2, <1>3, <1>4, FS_Singleton, FS_Union

\* A new id is a number that nothing has.
LEMMA FreshIdFact == FreshId \in Nat /\ FreshId \notin IdsInUse
<1> DEFINE n == Cardinality(IdsInUse)
<1>1. n \in Nat
  BY IdsFinite, FS_CardinalityType
<1>2. \E i \in 0..n : i \notin IdsInUse
  <2> SUFFICES ASSUME 0..n \subseteq IdsInUse
               PROVE  FALSE
    OBVIOUS
  <2>1. Cardinality(0..n) = n + 1
    BY <1>1, FS_Interval
  <2>2. Cardinality(0..n) <= n
    BY IdsFinite, FS_Subset
  <2>3. QED
    BY <1>1, <2>1, <2>2
<1>3. FreshId \in 0..n /\ FreshId \notin IdsInUse
  BY <1>2 DEF FreshId
<1> HIDE DEF n
<1>4. QED
  BY <1>1, <1>3

Askers == {q \in Requests : session[q].turn > 0}

LEMMA NextTurnFact ==
    /\ IsFiniteSet(Askers) /\ Cardinality(Askers) \in Nat
    /\ NextTurn = Cardinality(Askers) + 1
<1>1. IsFiniteSet(Askers)
  BY SetsFinite, FS_Subset DEF Askers
<1>2. Cardinality(Askers) \in Nat
  BY <1>1, FS_CardinalityType
<1>3. NextTurn = 1 + Cardinality(Askers)
  BY DEF NextTurn, Askers
<1>4. QED
  BY <1>1, <1>2, <1>3

LEMMA AsksType == \A s \in Sessions : Asks(s) \in Nat
  BY NextTurnFact DEF Asks

LEMMA IdleType == Idle \in Session
  BY DEF Idle, Session, PCs, Statuses, Outcomes

LEMMA FirstStatusFact ==
    /\ FirstStatus \in Statuses /\ FirstStatus # "UPDATED"
    /\ ~Terminal(FirstStatus) /\ ~Terminal("UPDATED")
  BY DEF FirstStatus, Statuses, Terminal

LEMMA WhereTo ==
    /\ \A s \in Sessions : Ends(s) \in {"idle", "done"} /\ Breaks(s) \in {"idle", "failed"}
    /\ \A s \in Sessions : Synced(s) \in {"hypotheses", "idle", "done"}
    /\ \A to : Answered(to) \in {"look", "done"}
    /\ \A s \in Sessions : Settled(s) \in {"hypotheses", "idle", "done", "look"}
    /\ \A q \in Requests : Ends(q) = "done" /\ Breaks(q) = "failed" /\ Synced(q) = "done"
                            /\ Settled(q) \in {"look", "done"}
<1>1. \A q \in Requests : q \notin Workers
  BY LifecyclesAssumption
<1>2. \A s \in Sessions : Ends(s) \in {"idle", "done"} /\ Breaks(s) \in {"idle", "failed"}
  BY DEF Ends, Breaks
<1>3. \A s \in Sessions : Synced(s) \in {"hypotheses", "idle", "done"}
  BY <1>2 DEF Synced
<1>4. \A to : Answered(to) \in {"look", "done"}
  BY DEF Answered
<1>5. \A s \in Sessions : Settled(s) \in {"hypotheses", "idle", "done", "look"}
  BY <1>3, <1>4 DEF Settled
<1>6. \A q \in Requests : Ends(q) = "done" /\ Breaks(q) = "failed" /\ Synced(q) = "done"
  BY <1>1 DEF Ends, Breaks, Synced
<1>7. \A q \in Requests : Settled(q) \in {"look", "done"}
  BY <1>4, <1>6 DEF Settled
<1>8. QED
  BY <1>2, <1>3, <1>4, <1>5, <1>6, <1>7

LEMMA FunctionsAreSequences ==
  ASSUME NEW S, NEW n \in Nat, NEW r \in [1..n -> S]
  PROVE  r \in Seq(S)
<1>1. [1..n -> S] \in {[1..m -> S] : m \in Nat}
  OBVIOUS
<1>2. QED
  BY <1>1, SeqDef

LEMMA ChangedSequence ==
  ASSUME NEW S, NEW q \in Seq(S), NEW i, NEW c, i \in DOMAIN q => c \in S
  PROVE  [q EXCEPT ![i] = c] \in Seq(S)
<1>1. Len(q) \in Nat /\ DOMAIN q = 1..Len(q)
  OBVIOUS
<1>2. \A j \in 1..Len(q) : q[j] \in S
  BY <1>1
<1>3. [q EXCEPT ![i] = c] \in [1..Len(q) -> S]
  BY <1>1, <1>2
<1>4. QED
  BY <1>1, <1>3, FunctionsAreSequences

-----------------------------------------------------------------------------
(* Types.                                                                   *)

\* What is loaded is in the dictionary; a restart is counted among the troubles.
Loads == \A s \in Sessions : At(s, "load") => held[Process(s)] # None
Counts == \A p \in Processes : life[p] <= troubles

Typed == LifecyclesTypeOK /\ Loads /\ Counts

\* A session that is replaced by one that is not at "load" leaves Typed as it is.
LEMMA SessionTyped ==
  ASSUME Typed, NEW s \in Sessions, NEW q \in Session, Assigned(s, q), OnlySession,
         q.pc = "load" => held[Process(s)] # None
  PROVE  Typed'
<1>1. session' \in [Sessions -> Session]
  BY DEF Typed, LifecyclesTypeOK, Assigned
<1>2. \A t \in Sessions : session'[t] = IF t = s THEN q ELSE session[t]
  BY DEF Typed, LifecyclesTypeOK, Assigned
<1>3. LifecyclesTypeOK'
  BY <1>1 DEF Typed, LifecyclesTypeOK, OnlySession, Row, Held, Entry, Check, Known
<1>4. Loads'
  BY <1>2 DEF Typed, Loads, At, OnlySession, Process
<1>5. Counts'
  BY DEF Typed, Counts, OnlySession
<1>6. QED
  BY <1>3, <1>4, <1>5 DEF Typed

LEMMA GoesType ==
  ASSUME Typed, NEW s \in Sessions, NEW pc \in PCs, Goes(s, pc)
  PROVE  /\ [session[s] EXCEPT !.pc = pc] \in Session
         /\ [session[s] EXCEPT !.pc = pc].pc = pc
         /\ Assigned(s, [session[s] EXCEPT !.pc = pc])
<1>1. session[s] \in Session
  BY DEF Typed, LifecyclesTypeOK
<1>2. QED
  BY <1>1 DEF Goes, Assigned, Session

LEMMA GoesTyped ==
  ASSUME Typed, NEW s \in Sessions, NEW pc \in PCs, pc # "load", Goes(s, pc), OnlySession
  PROVE  Typed'
<1> DEFINE q == [session[s] EXCEPT !.pc = pc]
<1>1. q \in Session /\ q.pc = pc /\ Assigned(s, q)
  BY GoesType
<1> HIDE DEF q
<1>2. QED
  BY <1>1, SessionTyped

\* A step that changes one session and one entry of the dictionaries.
LEMMA HeldTyped ==
  ASSUME Typed, NEW s \in Sessions, NEW q \in Session, Assigned(s, q),
         NEW p \in Processes, NEW h \in Held, held' = [held EXCEPT ![p] = h],
         p = Process(s),
         UNCHANGED <<kind, row, version, log, hyps, checks, known, cold, life, troubles>>,
         passes' \in [Workers -> 0..MaxPasses]
  PROVE  Typed'
<1>1. session' \in [Sessions -> Session]
  BY DEF Typed, LifecyclesTypeOK, Assigned
<1>2. held' \in [Processes -> Held \cup {None}]
  BY DEF Typed, LifecyclesTypeOK
<1>3. LifecyclesTypeOK'
  BY <1>1, <1>2 DEF Typed, LifecyclesTypeOK, Row, Entry, Check, Known
<1>4. \A t \in Sessions : session'[t] = IF t = s THEN q ELSE session[t]
  BY DEF Typed, LifecyclesTypeOK, Assigned
<1>5. \A r \in Processes : held'[r] = IF r = p THEN h ELSE held[r]
  BY DEF Typed, LifecyclesTypeOK
<1>6. h # None
  BY NoneAssumption
<1>7. Loads'
  BY <1>4, <1>5, <1>6, ProcessFacts DEF Typed, Loads, At, Process
<1>8. Counts'
  BY DEF Typed, Counts
<1>9. QED
  BY <1>3, <1>7, <1>8 DEF Typed

\* Looking the fingerprint up and changing or making the record.
LEMMA MakesTyped ==
  ASSUME Typed, NEW s \in Sessions, NEW facts \in 0..1, NEW turn \in Nat, Makes(s, facts, turn),
         UNCHANGED <<kind, row, version, log, hyps, checks, known, cold, life, troubles>>,
         passes' \in [Workers -> 0..MaxPasses]
  PROVE  Typed'
<1> DEFINE h == [id |-> FreshId, status |-> FirstStatus, facts |-> facts,
                 techniques |-> kind = "exercise"]
           q == [Idle EXCEPT !.pc = "insert", !.op = "create", !.id = FreshId,
                             !.to = FirstStatus, !.facts = facts, !.turn = turn]
<1>1. h \in Held
  BY FreshIdFact, FirstStatusFact DEF Held
<1>2. q \in Session /\ q.pc = "insert"
  BY FreshIdFact, FirstStatusFact, IdleType DEF Session, PCs
<1>3. Assigned(s, q) /\ held' = [held EXCEPT ![Process(s)] = h]
  BY DEF Makes, Assigned
<1> HIDE DEF h, q
<1>4. QED
  BY <1>1, <1>2, <1>3, HeldTyped, ProcessFacts

LEMMA HeldFields ==
  ASSUME Typed, NEW p \in Processes, held[p] # None
  PROVE  /\ held[p] \in Held
         /\ held[p].id \in Nat /\ held[p].status \in Statuses /\ held[p].facts \in 0..1
         /\ \A facts \in 0..1 : [held[p] EXCEPT !.facts = facts] \in Held
         /\ \A to \in Statuses : [held[p] EXCEPT !.status = to] \in Held
<1>1. held[p] \in Held
  BY DEF Typed, LifecyclesTypeOK
<1>2. QED
  BY <1>1 DEF Held

LEMMA SyncsTyped ==
  ASSUME Typed, NEW s \in Sessions, NEW facts \in 0..1, NEW turn \in Nat, NEW frozen,
         held[Process(s)] # None, Syncs(s, facts, turn, frozen),
         UNCHANGED <<kind, row, version, log, hyps, checks, known, cold, life, troubles>>,
         passes' \in [Workers -> 0..MaxPasses]
  PROVE  Typed'
<1> DEFINE mine == held[Process(s)]
           h == [mine EXCEPT !.facts = facts]
           q == [Idle EXCEPT !.pc = "load", !.op = "sync", !.id = mine.id, !.turn = turn]
           o == [Idle EXCEPT !.pc = Synced(s), !.id = mine.id]
<1>1. Process(s) \in Processes
  BY ProcessFacts
<1>2. mine \in Held /\ h \in Held /\ mine.id \in Nat
  BY <1>1, HeldFields
<1>3. CASE mine.facts # facts /\ ~frozen
  <2>1. q \in Session
    BY <1>2, IdleType DEF Session, PCs
  <2>2. Assigned(s, q) /\ held' = [held EXCEPT ![Process(s)] = h]
    BY <1>1, <1>2, <1>3 DEF Syncs, Assigned, Typed, LifecyclesTypeOK
  <2> HIDE DEF h, q, mine
  <2>3. QED
    BY <1>1, <1>2, <2>1, <2>2, HeldTyped
<1>4. CASE ~(mine.facts # facts /\ ~frozen)
  <2>1. o \in Session /\ o.pc # "load"
    BY <1>2, IdleType, WhereTo DEF Session, PCs
  <2>2. Assigned(s, o) /\ UNCHANGED held
    BY <1>4 DEF Syncs, Assigned
  <2>3. held' = [held EXCEPT ![Process(s)] = mine]
    BY <1>1, <2>2 DEF Typed, LifecyclesTypeOK
  <2> HIDE DEF h, o, mine
  <2>4. QED
    BY <1>1, <1>2, <2>1, <2>2, <2>3, HeldTyped
<1>5. QED
  BY <1>3, <1>4

LEMMA CreateOrSyncTyped ==
  ASSUME Typed, NEW s \in Sessions, NEW facts \in 0..1, NEW frozen,
         CreateOrSync(s, facts, frozen),
         UNCHANGED <<kind, row, version, log, hyps, checks, known, cold, life, troubles>>,
         passes' \in [Workers -> 0..MaxPasses]
  PROVE  Typed'
  BY MakesTyped, SyncsTyped, AsksType DEF CreateOrSync

LEMMA PassesSame == Typed /\ UNCHANGED passes => passes' \in [Workers -> 0..MaxPasses]
  BY DEF Typed, LifecyclesTypeOK

LEMMA PostsTyped ==
  ASSUME Typed, NEW q \in Requests,
         \/ PostHunt(q) \/ PostExercise(q) \/ PostPosture(q) \/ PostProgram(q)
         \/ PostDecision(q)
  PROVE  Typed'
<1>1. q \in Sessions
  BY DEF Sessions
<1>2. ASSUME NEW facts \in 0..1, NEW frozen, CreateOrSync(q, facts, frozen), OnlyHeld
      PROVE  Typed'
  BY <1>1, <1>2, CreateOrSyncTyped, PassesSame DEF OnlyHeld
<1>3. CASE PostHunt(q)
  BY <1>2, <1>3 DEF PostHunt, CreateOrSyncHunt
<1>4. CASE PostExercise(q)
  BY <1>2, <1>4 DEF PostExercise, CreateOrSyncExercise
<1>5. CASE PostPosture(q)
  BY <1>2, <1>5 DEF PostPosture, CreateOrSyncPosture
<1>6. CASE PostProgram(q)
  BY <1>2, <1>6 DEF PostProgram, CreateOrSyncProgram
<1>7. CASE PostDecision(q)
  <2> DEFINE o == [Idle EXCEPT !.pc = IF held[Process(q)] = None THEN "seek" ELSE Ends(q)]
  <2>1. o \in Session /\ o.pc # "load"
    BY <1>1, IdleType, WhereTo DEF Session, PCs
  <2>2. Assigned(q, o) /\ OnlySession
    BY <1>7 DEF PostDecision, CreateOrSyncDecision, Assigned
  <2> HIDE DEF o
  <2>3. QED
    BY <1>1, <2>1, <2>2, SessionTyped
<1>8. QED
  BY <1>3, <1>4, <1>5, <1>6, <1>7

\* What one of the methods that change a status may do.
LEMMA MovesTyped ==
  ASSUME Typed, NEW q \in Requests, NEW to \in Statuses, NEW from, NEW unless,
         NEW otherwise \in {"failed", "done"}, held[API] # None,
         Moves(q, to, from, unless, otherwise)
  PROVE  Typed'
<1> DEFINE mine == held[API]
           h == [mine EXCEPT !.status = to]
           c == [session[q] EXCEPT !.pc = Answered(to), !.id = mine.id]
           n == [Idle EXCEPT !.pc = "load", !.op = "move", !.id = mine.id, !.to = to,
                             !.turn = NextTurn]
<1>1. q \in Sessions /\ Process(q) = API /\ API \in Processes
  BY ProcessFacts DEF Sessions, Processes
<1>2. mine \in Held /\ h \in Held /\ mine.id \in Nat
  BY <1>1, HeldFields
<1>3. session[q] \in Session
  BY <1>1 DEF Typed, LifecyclesTypeOK
<1>4. CASE mine.status \in unless
  <2>1. c \in Session /\ c.pc # "load"
    BY <1>2, <1>3, WhereTo DEF Session, PCs
  <2>2. Assigned(q, c) /\ OnlySession
    BY <1>1, <1>4 DEF Moves, Assigned, Typed, LifecyclesTypeOK
  <2> HIDE DEF c
  <2>3. QED
    BY <1>1, <2>1, <2>2, SessionTyped
<1>5. CASE mine.status \notin unless /\ mine.status \notin from
  <2>1. Goes(q, otherwise) /\ OnlySession
    BY <1>5 DEF Moves
  <2>2. otherwise \in PCs /\ otherwise # "load"
    BY DEF PCs
  <2>3. QED
    BY <1>1, <2>1, <2>2, GoesTyped
<1>6. CASE mine.status \notin unless /\ mine.status \in from
  <2> NextTurn \in Nat
    BY NextTurnFact
  <2>1. n \in Session
    BY <1>2, IdleType DEF Session, PCs
  <2>2. Assigned(q, n) /\ held' = [held EXCEPT ![API] = h] /\ OnlyHeld
    BY <1>1, <1>2, <1>6 DEF Moves, Assigned, Typed, LifecyclesTypeOK
  <2> HIDE DEF h, n, mine
  <2>3. QED
    BY <1>1, <1>2, <2>1, <2>2, HeldTyped, PassesSame DEF OnlyHeld
<1>7. QED
  BY <1>4, <1>5, <1>6

\* Every endpoint but the POSTs and the 404 is one of those methods.
LEMMA EndpointsMove ==
  ASSUME NEW q \in Requests,
         \/ HuntEndpoints(q) \/ ExerciseEndpoints(q) \/ PostureEndpoints(q)
         \/ ProgramEndpoints(q) \/ DecisionEndpoints(q)
  PROVE  /\ held[API] # None
         /\ \E to \in Statuses, from, unless \in SUBSET Statuses,
               otherwise \in {"failed", "done"} :
               /\ Moves(q, to, from, unless, otherwise)
               /\ \A st \in from : ~Terminal(st)
               /\ kind = "decision" \/ otherwise = "failed"
<1>1. held[API] # None
  BY DEF HuntEndpoints, ExerciseEndpoints, PostureEndpoints, ProgramEndpoints, DecisionEndpoints
<1>2. /\ {"ACTIVE", "UNDER_REVIEW", "COMPLETED", "ESCALATED", "CLOSED", "ACCEPTED", "MITIGATED",
          "RECOMMENDED", "COMMITTED", "ARCHIVED", "OPEN"} \subseteq Statuses
      /\ Live \subseteq Statuses
  BY DEF Statuses, Live
<1>3. /\ kind # "program" => \A st \in Live : ~Terminal(st)
      /\ \A st \in Live \ {"COMPLETED"} : ~Terminal(st)
      /\ kind # "program" => \A st \in {"OPEN", "UNDER_REVIEW", "ACTIVE", "COMPLETED"} : ~Terminal(st)
  BY DEF Live, Terminal
<1>4. CASE HuntEndpoints(q)
  <2>1. \E to \in {"ACTIVE", "UNDER_REVIEW", "COMPLETED", "ESCALATED", "CLOSED"} : MovesHunt(q, to)
    BY <1>4 DEF HuntEndpoints, ActivateHunt, ReviewHunt, CompleteHunt, EscalateHunt, CloseHunt
  <2>2. PICK to \in {"ACTIVE", "UNDER_REVIEW", "COMPLETED", "ESCALATED", "CLOSED"} :
           kind = "hunt" /\ Moves(q, to, Live, {to}, "failed")
    BY <2>1 DEF MovesHunt
  <2>3. QED
    BY <1>1, <1>2, <1>3, <2>2
<1>5. CASE ExerciseEndpoints(q)
  <2>1. PICK to \in {"ACTIVE", "UNDER_REVIEW", "COMPLETED", "CLOSED"},
             from \in SUBSET {"OPEN", "UNDER_REVIEW", "ACTIVE", "COMPLETED"} : MovesExercise(q, to, from)
    BY <1>5 DEF ExerciseEndpoints, ActivateExercise, ReviewExercise, CompleteExercise, CloseExercise
  <2>2. kind = "exercise" /\ Moves(q, to, from, {to}, "failed")
    BY <2>1 DEF MovesExercise
  <2>3. from \in SUBSET Statuses /\ \A st \in from : ~Terminal(st)
    BY <1>2, <1>3, <2>2
  <2>4. QED
    BY <1>1, <1>2, <2>2, <2>3
<1>6. CASE PostureEndpoints(q)
  <2>1. \E to \in {"ACCEPTED", "MITIGATED", "CLOSED"} : MovesPosture(q, to)
    BY <1>6 DEF PostureEndpoints, AcceptRisk, MitigateRisk, ClosePosture
  <2>2. PICK to \in {"ACCEPTED", "MITIGATED", "CLOSED"} :
           kind = "posture" /\ Moves(q, to, Live, {to}, "failed")
    BY <2>1 DEF MovesPosture
  <2>3. QED
    BY <1>1, <1>2, <1>3, <2>2
<1>7. CASE ProgramEndpoints(q)
  <2>1. PICK to \in {"ACTIVE", "UNDER_REVIEW", "COMPLETED", "CLOSED"} :
           Moves(q, to, Live \ {"COMPLETED"}, {}, "failed")
    BY <1>7 DEF ProgramEndpoints, TransitionProgramStatus
  <2>2. QED
    BY <1>1, <1>2, <1>3, <2>1
<1>8. CASE DecisionEndpoints(q)
  <2>1. \E to \in {"RECOMMENDED", "COMMITTED", "ARCHIVED"} : MovesDecision(q, to)
    BY <1>8 DEF DecisionEndpoints, RecommendDecision, CommitDecision, ArchiveDecision
  <2>2. PICK to \in {"RECOMMENDED", "COMMITTED", "ARCHIVED"} :
           kind = "decision" /\ Moves(q, to, Live, {to}, "done")
    BY <2>1 DEF MovesDecision
  <2>3. QED
    BY <1>1, <1>2, <1>3, <2>2
<1>9. QED
  BY <1>4, <1>5, <1>6, <1>7, <1>8

LEMMA SeekTyped ==
  ASSUME Typed, NEW s \in Sessions, SeekDecision(s) \/ KeepDecision(s)
  PROVE  Typed'
<1>1. session[s] \in Session
  BY DEF Typed, LifecyclesTypeOK
<1>2. CASE SeekDecision(s)
  <2> DEFINE q == IF row = None THEN [session[s] EXCEPT !.pc = "keep", !.op = "create"]
                  ELSE [session[s] EXCEPT !.pc = "keep", !.op = "sync", !.id = row.id,
                                          !.to = row.status]
  <2>1. row # None => row.id \in Nat /\ row.status \in Statuses
    BY DEF Typed, LifecyclesTypeOK, Row
  <2>2. q \in Session /\ q.pc # "load"
    BY <1>1, <2>1 DEF Session, PCs
  <2>3. Assigned(s, q) /\ OnlySession
    BY <1>2 DEF SeekDecision, Assigned, Typed, LifecyclesTypeOK
  <2> HIDE DEF q
  <2>4. QED
    BY <2>2, <2>3, SessionTyped
<1>3. CASE KeepDecision(s) /\ session[s].op = "create"
  <2>1. Makes(s, 0, Asks(s)) /\ OnlyHeld
    BY <1>3 DEF KeepDecision
  <2>2. QED
    BY <2>1, MakesTyped, AsksType, PassesSame DEF OnlyHeld
<1>4. CASE KeepDecision(s) /\ session[s].op # "create"
  <2> DEFINE h == [id |-> session[s].id, status |-> session[s].to, facts |-> 0,
                   techniques |-> FALSE]
             q == [session[s] EXCEPT !.pc = Ends(s)]
  <2>1. h \in Held
    BY <1>1 DEF Session, Held
  <2>2. held' = [held EXCEPT ![Process(s)] = h] /\ Goes(s, Ends(s)) /\ OnlyHeld
    BY <1>4 DEF KeepDecision
  <2>3. q \in Session /\ Assigned(s, q)
    BY <2>2, GoesType, WhereTo DEF PCs
  <2> HIDE DEF h, q
  <2>4. QED
    BY <2>1, <2>2, <2>3, HeldTyped, PassesSame, ProcessFacts DEF OnlyHeld
<1>5. QED
  BY <1>2, <1>3, <1>4

LEMMA LoadTyped ==
  ASSUME Typed, NEW s \in Sessions, LoadRow(s)
  PROVE  Typed'
<1> DEFINE q == [session[s] EXCEPT !.pc = "commit", !.base = version,
                                   !.facts = held[Process(s)].facts]
<1>1. session[s] \in Session /\ version \in Nat
  BY DEF Typed, LifecyclesTypeOK
<1>2. held[Process(s)] # None
  BY DEF Typed, Loads, LoadRow
<1>3. held[Process(s)].facts \in 0..1
  BY <1>2, HeldFields, ProcessFacts
<1>4. CASE IsSaved(session[s].id)
  <2>1. q \in Session /\ q.pc # "load"
    BY <1>1, <1>3 DEF Session, PCs
  <2>2. Assigned(s, q) /\ OnlySession
    BY <1>4 DEF LoadRow, Assigned, Typed, LifecyclesTypeOK
  <2> HIDE DEF q
  <2>3. QED
    BY <2>1, <2>2, SessionTyped
<1>5. CASE ~IsSaved(session[s].id)
  <2>1. Settled(s) \in PCs /\ Settled(s) # "load"
    BY WhereTo DEF PCs
  <2>2. Goes(s, Settled(s)) /\ OnlySession
    BY <1>5 DEF LoadRow
  <2>3. QED
    BY <2>1, <2>2, GoesTyped
<1>6. QED
  BY <1>4, <1>5

\* A step that writes the row and its history.
LEMMA RowTyped ==
  ASSUME Typed, NEW s \in Sessions, NEW pc \in PCs, pc # "load", Goes(s, pc), OnlyRow,
         row' \in Row, version' \in Nat, NEW e \in Entry, log' = Append(log, e)
  PROVE  Typed'
<1> DEFINE q == [session[s] EXCEPT !.pc = pc]
<1>1. q \in Session /\ q.pc = pc /\ Assigned(s, q)
  BY GoesType
<1> HIDE DEF q
<1>2. session' \in [Sessions -> Session]
  BY <1>1 DEF Typed, LifecyclesTypeOK, Assigned
<1>3. \A t \in Sessions : session'[t] = IF t = s THEN q ELSE session[t]
  BY <1>1 DEF Typed, LifecyclesTypeOK, Assigned
<1>4. log' \in Seq(Entry)
  BY DEF Typed, LifecyclesTypeOK
<1>5. LifecyclesTypeOK'
  BY <1>2, <1>4 DEF Typed, LifecyclesTypeOK, OnlyRow, Held, Check, Known
<1>6. Loads'
  BY <1>1, <1>3 DEF Typed, Loads, At, OnlyRow, Process
<1>7. QED
  BY <1>5, <1>6 DEF Typed, Counts, OnlyRow

LEMMA RowFields ==
  ASSUME Typed, row # None
  PROVE  /\ row \in Row
         /\ \A to \in Statuses : /\ [row EXCEPT !.status = to] \in Row
                                 /\ [row EXCEPT !.status = to].status = to
                                 /\ [row EXCEPT !.status = to].id = row.id
         /\ \A facts \in 0..1 : /\ [row EXCEPT !.facts = facts] \in Row
                                /\ [row EXCEPT !.facts = facts].status = row.status
                                /\ [row EXCEPT !.facts = facts].id = row.id
<1>1. row \in Row
  BY DEF Typed, LifecyclesTypeOK
<1>2. QED
  BY <1>1 DEF Row

\* At "commit" there is a row.
Commits == \A s \in Sessions : At(s, "commit") => row # None

LEMMA WriteTyped ==
  ASSUME Typed, Commits, NEW s \in Sessions, WriteRow(s) \/ InsertRow(s)
  PROVE  Typed'
<1>1. session[s] \in Session /\ version \in Nat
  BY DEF Typed, LifecyclesTypeOK
<1>2. /\ session[s].to \in Statuses /\ session[s].facts \in 0..1 /\ session[s].turn \in Nat
      /\ session[s].id \in Nat
  BY <1>1 DEF Session
<1>3. /\ Settled(s) \in PCs /\ Settled(s) # "load" /\ Synced(s) \in PCs /\ Synced(s) # "load"
  BY WhereTo DEF PCs
<1>4. \A st \in Statuses \cup {"UPDATED"} :
         [status |-> st, by |-> s, turn |-> session[s].turn] \in Entry
  BY <1>2 DEF Entry
<1>5. CASE WriteRow(s)
  <2>1. row # None
    BY <1>5 DEF WriteRow, Commits
  <2>2. \E st \in Statuses \cup {"UPDATED"} : log' = Logged(s, st)
    BY <1>2, <1>5 DEF WriteRow
  <2>3. row' \in Row /\ version' \in Nat
    BY <1>1, <1>2, <1>5, <2>1, RowFields DEF WriteRow
  <2>4. Goes(s, Settled(s)) /\ OnlyRow
    BY <1>5 DEF WriteRow
  <2>5. QED
    BY <1>3, <1>4, <2>2, <2>3, <2>4, RowTyped DEF Logged
<1>6. CASE InsertRow(s)
  <2>1. row' \in Row /\ version' \in Nat
    BY <1>2, <1>6, FirstStatusFact DEF InsertRow, Row
  <2>2. log' = Logged(s, FirstStatus) /\ Goes(s, Synced(s)) /\ OnlyRow
    BY <1>6 DEF InsertRow
  <2>3. QED
    BY <1>3, <1>4, <2>1, <2>2, FirstStatusFact, RowTyped DEF Logged
<1>7. QED
  BY <1>5, <1>6

\* A step that changes nothing but where a session is.
LEMMA GoingTyped ==
  ASSUME Typed, NEW s \in Sessions,
         \/ StaleWrite(s) \/ InsertFails(s) \/ FetchFindings(s) \/ LoadCheck(s)
         \/ s \in Requests /\ NotFound(s)
         \/ s \in Workers /\ ReadHypotheses(s)
  PROVE  Typed'
<1>1. \E pc \in PCs \ {"load"} : Goes(s, pc) /\ OnlySession
  BY WhereTo DEF StaleWrite, InsertFails, FetchFindings, LoadCheck, NotFound, ReadHypotheses, PCs
<1>2. QED
  BY <1>1, GoesTyped

\* A step that changes one session, the validations and what a process knows.
LEMMA ChecksTyped ==
  ASSUME Typed, NEW s \in Sessions, NEW q \in Session, Assigned(s, q), q.pc # "load",
         UNCHANGED <<kind, row, version, log, held, hyps, cold, passes, life, troubles>>,
         checks' \in Seq(Check), known' \in [Processes -> Known \cup {None}]
  PROVE  Typed'
<1>1. session' \in [Sessions -> Session]
  BY DEF Typed, LifecyclesTypeOK, Assigned
<1>2. \A t \in Sessions : session'[t] = IF t = s THEN q ELSE session[t]
  BY DEF Typed, LifecyclesTypeOK, Assigned
<1>3. LifecyclesTypeOK'
  BY <1>1 DEF Typed, LifecyclesTypeOK, Row, Held, Entry
<1>4. Loads'
  BY <1>2 DEF Typed, Loads, At, Process
<1>5. QED
  BY <1>3, <1>4 DEF Typed, Counts

LEMMA JudgeTyped ==
  ASSUME Typed, NEW s \in Sessions, Judge(s)
  PROVE  Typed'
<1>1. session[s] \in Session /\ known[Process(s)] \in Known \cup {None}
      /\ Process(s) \in Processes
  BY ProcessFacts DEF Typed, LifecyclesTypeOK
<1>2. CASE Goes(s, Ends(s)) /\ OnlySession
  BY <1>2, WhereTo, GoesTyped DEF PCs
<1>3. ASSUME NEW outcome \in Outcomes, OnlyKnown,
             known' = [known EXCEPT ![Process(s)] =
                   IF @ = None THEN [at |-> 0, outcome |-> outcome]
                   ELSE [@ EXCEPT !.outcome = outcome]],
             session' = [session EXCEPT ![s].outcome = outcome,
                   ![s].pc = IF known[Process(s)] = None THEN "newcheck" ELSE "loadcheck"]
      PROVE  Typed'
  <2> DEFINE k == IF known[Process(s)] = None THEN [at |-> 0, outcome |-> outcome]
                  ELSE [known[Process(s)] EXCEPT !.outcome = outcome]
             q == [session[s] EXCEPT !.outcome = outcome,
                   !.pc = IF known[Process(s)] = None THEN "newcheck" ELSE "loadcheck"]
  <2>1. k \in Known
    BY <1>1 DEF Known
  <2>2. q \in Session /\ q.pc # "load"
    BY <1>1 DEF Session, PCs
  <2>3. Assigned(s, q)
    BY <1>3 DEF Assigned, Typed, LifecyclesTypeOK
  <2>4. known' \in [Processes -> Known \cup {None}]
    BY <1>3, <2>1 DEF Typed, LifecyclesTypeOK
  <2>5. checks' \in Seq(Check)
    BY <1>3 DEF OnlyKnown, Typed, LifecyclesTypeOK
  <2> HIDE DEF q, k
  <2>6. QED
    BY <1>3, <2>2, <2>3, <2>4, <2>5, ChecksTyped DEF OnlyKnown
<1>4. QED
  BY <1>2, <1>3 DEF Judge

LEMMA CheckStepsTyped ==
  ASSUME Typed, NEW s \in Sessions, InsertCheck(s) \/ UpdateCheck(s)
  PROVE  Typed'
<1> DEFINE q == [session[s] EXCEPT !.pc = Ends(s)]
<1>1. /\ session[s] \in Session /\ known[Process(s)] \in Known \cup {None}
      /\ Process(s) \in Processes /\ checks \in Seq(Check) /\ Len(checks) \in Nat
      /\ life[Process(s)] \in Nat /\ session[s].outcome \in Outcomes
  BY ProcessFacts DEF Typed, LifecyclesTypeOK, Session
<1>2. Ends(s) \in PCs /\ Ends(s) # "load" /\ Breaks(s) \in PCs /\ Breaks(s) # "load"
  BY WhereTo DEF PCs
<1>3. CASE Goes(s, Breaks(s)) /\ OnlySession
  BY <1>2, <1>3, GoesTyped
<1>4. ASSUME InsertCheck(s), IsSaved(session[s].id)
      PROVE  Typed'
  <2> DEFINE c == [outcome |-> session[s].outcome, by |-> Process(s), life |-> life[Process(s)]]
  <2> c \in Check
    BY <1>1 DEF Check
  <2> checks' = Append(checks, c)
    BY <1>4 DEF InsertCheck
  <2> HIDE DEF c
  <2>1. checks' \in Seq(Check)
    BY <1>1
  <2>2. known' \in [Processes -> Known \cup {None}]
    <3> DEFINE k == [outcome |-> IF known[Process(s)] = None THEN session[s].outcome
                                 ELSE known[Process(s)].outcome,
                     at |-> Len(checks) + 1]
    <3>1. k \in Known
      BY <1>1 DEF Known
    <3>2. known' = [known EXCEPT ![Process(s)] = k]
      BY <1>1, <1>4 DEF InsertCheck, Typed, LifecyclesTypeOK
    <3> HIDE DEF k
    <3>3. QED
      BY <3>1, <3>2 DEF Typed, LifecyclesTypeOK
  <2>3. Goes(s, Ends(s)) /\ OnlyChecks
    BY <1>4 DEF InsertCheck
  <2>4. q \in Session /\ q.pc # "load" /\ Assigned(s, q)
    BY <1>2, <2>3, GoesType
  <2> HIDE DEF q
  <2>5. QED
    BY <2>1, <2>2, <2>3, <2>4, ChecksTyped DEF OnlyChecks
<1>5. CASE UpdateCheck(s)
  <2> DEFINE i == known[Process(s)].at
             c == [checks[i] EXCEPT !.outcome = session[s].outcome]
  <2>1. i \in DOMAIN checks => c \in Check
    <3>1. i \in DOMAIN checks => checks[i] \in Check
      BY <1>1
    <3>2. session[s].outcome \in Outcomes
      BY <1>1
    <3> HIDE DEF i
    <3>3. QED
      BY <3>1, <3>2 DEF Check
  <2>2. checks' = [checks EXCEPT ![i] = c]
    BY <1>5 DEF UpdateCheck
  <2>3. checks' \in Seq(Check)
    <3> HIDE DEF c, i
    <3>1. [checks EXCEPT ![i] = c] \in Seq(Check)
      BY <1>1, <2>1, ChangedSequence
    <3>2. QED
      BY <2>2, <3>1
  <2>4. Goes(s, Ends(s)) /\ OnlyChecks /\ UNCHANGED known
    BY <1>5 DEF UpdateCheck
  <2>5. q \in Session /\ q.pc # "load" /\ Assigned(s, q)
    BY <1>2, <2>4, GoesType
  <2>6. known' \in [Processes -> Known \cup {None}]
    BY <2>4 DEF Typed, LifecyclesTypeOK
  <2> HIDE DEF q
  <2>7. QED
    BY <2>3, <2>4, <2>5, <2>6, ChecksTyped DEF OnlyChecks
<1>6. CASE InsertCheck(s) /\ ~IsSaved(session[s].id)
  BY <1>3, <1>6 DEF InsertCheck
<1>7. QED
  BY <1>4, <1>5, <1>6

LEMMA PassesTyped ==
  ASSUME Typed, NEW w \in Workers,
         \/ HuntPass(w) \/ ExercisePass(w) \/ PosturePass(w) \/ ProgramPass(w)
         \/ DecisionPass(w)
  PROVE  Typed'
<1>1. w \in Sessions /\ Process(w) = w /\ w \in Processes
  BY ProcessFacts DEF Sessions, Processes
<1>2. PassHeld /\ passes' \in [Workers -> 0..MaxPasses]
  <2>1. PassHeld /\ Counted(w) /\ passes[w] < MaxPasses
    BY DEF HuntPass, ExercisePass, PosturePass, ProgramPass, DecisionPass, StartsPass
  <2>2. passes \in [Workers -> 0..MaxPasses] /\ passes[w] + 1 \in 0..MaxPasses
    BY <2>1, LifecyclesAssumption DEF Typed, LifecyclesTypeOK
  <2>3. QED
    BY <2>1, <2>2 DEF Counted
<1>3. ASSUME NEW facts \in 0..1, NEW frozen, CreateOrSync(w, facts, frozen)
      PROVE  Typed'
  BY <1>1, <1>2, <1>3, CreateOrSyncTyped DEF PassHeld
<1>4. ASSUME NEW q \in Session, q.pc # "load", Assigned(w, q), UNCHANGED held
      PROVE  Typed'
  <2>1. session' \in [Sessions -> Session]
    BY <1>4 DEF Typed, LifecyclesTypeOK, Assigned
  <2>2. \A t \in Sessions : session'[t] = IF t = w THEN q ELSE session[t]
    BY <1>4 DEF Typed, LifecyclesTypeOK, Assigned
  <2>3. LifecyclesTypeOK'
    BY <2>1, <1>2, <1>4 DEF Typed, LifecyclesTypeOK, PassHeld, Row, Held, Entry, Check, Known
  <2>4. Loads'
    BY <2>2, <1>4 DEF Typed, Loads, At, Process
  <2>5. QED
    BY <1>2, <2>3, <2>4 DEF Typed, Counts, PassHeld
<1>5. CASE HuntPass(w)
  BY <1>3, <1>5 DEF HuntPass
<1>6. CASE PosturePass(w)
  BY <1>3, <1>6 DEF PosturePass
<1>7. CASE ProgramPass(w)
  BY <1>3, <1>7 DEF ProgramPass
<1>8. CASE ExercisePass(w)
  <2> DEFINE q == [Idle EXCEPT !.pc = "look", !.id = held[w].id]
  <2>1. held[w].id \in Nat
    BY <1>1, <1>8, HeldFields DEF ExercisePass
  <2>2. q \in Session /\ q.pc # "load"
    BY <2>1, IdleType DEF Session, PCs
  <2>3. Assigned(w, q) /\ UNCHANGED held
    BY <1>8 DEF ExercisePass, Assigned
  <2> HIDE DEF q
  <2>4. QED
    BY <1>4, <2>2, <2>3
<1>9. CASE DecisionPass(w)
  <2> DEFINE q == [Idle EXCEPT !.pc = IF held[w] = None THEN "seek" ELSE "idle"]
  <2>1. q \in Session /\ q.pc # "load"
    BY IdleType DEF Session, PCs
  <2>2. Assigned(w, q) /\ UNCHANGED held
    BY <1>9 DEF DecisionPass, Assigned
  <2> HIDE DEF q
  <2>3. QED
    BY <1>4, <2>1, <2>2
<1>10. QED
  BY <1>5, <1>6, <1>7, <1>8, <1>9

LEMMA BootstrapsTyped ==
  ASSUME Typed, NEW w \in Workers, BootstrapValidations(w) \/ BootstrapRecords(w)
  PROVE  Typed'
<1>1. w \in Sessions /\ Process(w) = w /\ w \in Processes
  BY ProcessFacts DEF Sessions, Processes
<1>2. cold' \in [Workers -> {"cold", "half", "warm"}]
  BY DEF BootstrapValidations, BootstrapRecords, Typed, LifecyclesTypeOK
<1>3. CASE BootstrapValidations(w)
  <2>1. held' \in [Processes -> Held \cup {None}]
    BY <1>3 DEF BootstrapValidations, Typed, LifecyclesTypeOK
  <2>2. known' \in [Processes -> Known \cup {None}]
    <3>1. CASE known' = [known EXCEPT ![w] = None]
      BY <3>1 DEF Typed, LifecyclesTypeOK
    <3>2. CASE \E i \in DOMAIN checks :
                  known' = [known EXCEPT ![w] = [at |-> i, outcome |-> checks[i].outcome]]
      <4>1. PICK i \in DOMAIN checks :
                  known' = [known EXCEPT ![w] = [at |-> i, outcome |-> checks[i].outcome]]
        BY <3>2
      <4>2. i \in Nat /\ checks[i] \in Check
        BY DEF Typed, LifecyclesTypeOK
      <4>3. [at |-> i, outcome |-> checks[i].outcome] \in Known
        BY <4>2 DEF Check, Known
      <4>4. QED
        BY <4>1, <4>3 DEF Typed, LifecyclesTypeOK
    <3>3. QED
      BY <1>3, <3>1, <3>2 DEF BootstrapValidations
  <2>3. LifecyclesTypeOK'
    BY <1>2, <1>3, <2>1, <2>2 DEF BootstrapValidations, Typed, LifecyclesTypeOK, Row, Entry, Check,
                                  Session
  <2>4. Loads'
    <3>1. \A p \in Processes : p # w => held'[p] = held[p]
      BY <1>3 DEF BootstrapValidations, Typed, LifecyclesTypeOK
    <3>2. \A s \in Sessions : Process(s) = w => s = w
      BY ProcessFacts, <1>1 DEF Sessions
    <3>3. QED
      BY <1>3, <3>1, <3>2, ProcessFacts DEF BootstrapValidations, Typed, Loads, At, Process
  <2>5. QED
    BY <1>3, <2>3, <2>4 DEF BootstrapValidations, Typed, Counts
<1>4. CASE BootstrapRecords(w)
  <2>1. row # None => Copy(checks # <<>>) \in Held
    BY RowFields DEF Copy, Row, Held
  <2>2. held' \in [Processes -> Held \cup {None}]
    BY <1>4, <2>1 DEF BootstrapRecords, Typed, LifecyclesTypeOK
  <2>3. LifecyclesTypeOK'
    BY <1>2, <1>4, <2>2 DEF BootstrapRecords, Typed, LifecyclesTypeOK, Row, Entry, Check, Known,
                            Session
  <2>4. Loads'
    <3>1. \A p \in Processes : p # w => held'[p] = held[p]
      BY <1>4 DEF BootstrapRecords, Typed, LifecyclesTypeOK
    <3>2. \A s \in Sessions : Process(s) = w => s = w
      BY ProcessFacts, <1>1 DEF Sessions
    <3>3. QED
      BY <1>4, <3>1, <3>2, ProcessFacts DEF BootstrapRecords, Typed, Loads, At, Process
  <2>5. QED
    BY <1>4, <2>3, <2>4 DEF BootstrapRecords, Typed, Counts
<1>5. QED
  BY <1>3, <1>4

LEMMA HypothesisTyped ==
  ASSUME Typed, NEW w \in Workers, CreateHypothesis(w)
  PROVE  Typed'
<1> DEFINE q == [session[w] EXCEPT !.pc = "idle"]
<1>1. w \in Sessions /\ "idle" \in PCs
  BY DEF Sessions, PCs
<1>2. Goes(w, "idle")
  BY DEF CreateHypothesis
<1>3. q \in Session /\ q.pc = "idle" /\ Assigned(w, q)
  BY <1>1, <1>2, GoesType
<1> HIDE DEF q
<1>4. /\ session' \in [Sessions -> Session]
      /\ \A t \in Sessions : session'[t] = IF t = w THEN q ELSE session[t]
  BY <1>3 DEF Typed, LifecyclesTypeOK, Assigned
<1>5. LifecyclesTypeOK'
  BY <1>4 DEF CreateHypothesis, Typed, LifecyclesTypeOK, Row, Held, Entry, Check, Known
<1>6. Loads'
  BY <1>3, <1>4 DEF CreateHypothesis, Typed, Loads, At, Process
<1>7. QED
  BY <1>5, <1>6 DEF CreateHypothesis, Typed, Counts

LEMMA RefusedTyped ==
  ASSUME Typed, NEW s \in Sessions, Refused(s)
  PROVE  Typed'
<1> DEFINE q == [session[s] EXCEPT !.pc = Breaks(s)]
<1>1. Breaks(s) \in PCs /\ Breaks(s) # "load"
  BY WhereTo DEF PCs
<1>2. Goes(s, Breaks(s))
  BY DEF Refused
<1>3. q \in Session /\ q.pc # "load" /\ Assigned(s, q)
  BY <1>1, <1>2, GoesType
<1> HIDE DEF q
<1>4. /\ session' \in [Sessions -> Session]
      /\ \A t \in Sessions : session'[t] = IF t = s THEN q ELSE session[t]
  BY <1>3 DEF Typed, LifecyclesTypeOK, Assigned
<1>5. troubles' \in 0..MaxTroubles /\ troubles' = troubles + 1
  BY LifecyclesAssumption DEF Refused, Typed, LifecyclesTypeOK
<1>6. LifecyclesTypeOK'
  BY <1>4, <1>5 DEF Refused, Typed, LifecyclesTypeOK, Row, Held, Entry, Check, Known
<1>7. Loads'
  BY <1>3, <1>4 DEF Refused, Typed, Loads, At, Process
<1>8. Counts'
  <2>1. troubles \in Int /\ \A p \in Processes : life[p] \in Int /\ life[p] <= troubles
    BY DEF Typed, Counts, LifecyclesTypeOK
  <2>2. UNCHANGED life
    BY DEF Refused
  <2>3. QED
    BY <1>5, <2>1, <2>2 DEF Counts
<1>9. QED
  BY <1>6, <1>7, <1>8 DEF Typed

\* What a restart does to a session: nothing, or it breaks.
LEMMA RestartedSession ==
  ASSUME Typed, NEW p \in Processes, Restart(p), NEW t \in Sessions
  PROVE  \/ session'[t] = session[t]
         \/ /\ session'[t] = [session[t] EXCEPT !.pc = Breaks(t)]
            /\ Process(t) = p
  BY DEF Restart

LEMMA RestartTyped ==
  ASSUME Typed, NEW p \in Processes, Restart(p)
  PROVE  Typed'
<1>1. \A t \in Sessions : /\ session'[t] \in Session
                          /\ session'[t].pc = "load" => session'[t] = session[t]
  <2> SUFFICES ASSUME NEW t \in Sessions
               PROVE  /\ session'[t] \in Session
                      /\ session'[t].pc = "load" => session'[t] = session[t]
    OBVIOUS
  <2>1. session[t] \in Session /\ Breaks(t) \in PCs /\ Breaks(t) # "load"
    BY WhereTo DEF Typed, LifecyclesTypeOK, PCs
  <2>2. /\ [session[t] EXCEPT !.pc = Breaks(t)] \in Session
        /\ [session[t] EXCEPT !.pc = Breaks(t)].pc # "load"
    BY <2>1 DEF Session
  <2>3. QED
    BY <2>1, <2>2, RestartedSession
<1>2. session' \in [Sessions -> Session]
  <2>1. session' = [t \in Sessions |-> session'[t]]
    BY DEF Restart
  <2>2. \A t \in Sessions : session'[t] \in Session
    BY <1>1
  <2>3. QED
    BY <2>1, <2>2
<1>3. troubles' = troubles + 1 /\ troubles' \in 0..MaxTroubles /\ troubles \in Nat
  BY LifecyclesAssumption DEF Restart, Typed, LifecyclesTypeOK
<1>4. \A r \in Processes : life'[r] = (IF r = p THEN life[r] + 1 ELSE life[r]) /\ life[r] \in Nat
  BY DEF Restart, Typed, LifecyclesTypeOK
<1>5. Counts'
  BY <1>3, <1>4 DEF Typed, Counts
<1>6. life' \in [Processes -> 0..MaxTroubles]
  <2>1. \A r \in Processes : life'[r] \in 0..MaxTroubles
    BY <1>3, <1>4, <1>5, LifecyclesAssumption DEF Counts
  <2>2. life' = [life EXCEPT ![p] = @ + 1] /\ DOMAIN life = Processes
    BY DEF Restart, Typed, LifecyclesTypeOK
  <2>3. life' = [r \in Processes |-> life'[r]]
    BY <2>2
  <2>4. QED
    BY <2>1, <2>3
<1>7. /\ held' \in [Processes -> Held \cup {None}]
      /\ known' \in [Processes -> Known \cup {None}]
      /\ cold' \in [Workers -> {"cold", "half", "warm"}]
  BY DEF Restart, Typed, LifecyclesTypeOK
<1>8. LifecyclesTypeOK'
  BY <1>2, <1>3, <1>6, <1>7 DEF Restart, Typed, LifecyclesTypeOK, Row, Entry, Check
<1>9. Loads'
  <2> SUFFICES ASSUME NEW t \in Sessions, At(t, "load")'
               PROVE  held'[Process(t)] # None
    BY DEF Loads, Process
  <2> session'[t].pc = "load"
    BY DEF At
  <2> session'[t] = session[t]
    BY <1>1
  <2>1. session'[t] = session[t] /\ At(t, "load")
    BY DEF At
  <2>2. session[t] \in Session
    BY DEF Typed, LifecyclesTypeOK
  <2>3. Process(t) # p
    <3> SUFFICES ASSUME Process(t) = p
                 PROVE  FALSE
      OBVIOUS
    <3>1. session'[t] = [session[t] EXCEPT !.pc = Breaks(t)]
      BY <2>1 DEF Restart, At
    <3>2. [session[t] EXCEPT !.pc = Breaks(t)].pc = Breaks(t)
      BY <2>2 DEF Session
    <3>3. QED
      BY <2>1, <3>1, <3>2, WhereTo DEF At
  <2>4. held'[Process(t)] = held[Process(t)]
    BY <2>3, ProcessFacts DEF Restart, Typed, LifecyclesTypeOK
  <2>5. QED
    BY <2>1, <2>4 DEF Typed, Loads
<1>10. QED
  BY <1>5, <1>8, <1>9 DEF Typed

LEMMA InitTyped == LifecyclesInit => Typed
<1> SUFFICES ASSUME LifecyclesInit
             PROVE  Typed
  OBVIOUS
<1>1. row \in Row \cup {None} /\ version \in Nat /\ log \in Seq(Entry)
  <2>1. CASE row = None /\ version = 0 /\ log = <<>>
    BY <2>1
  <2>2. CASE /\ row \in {[id |-> 0, status |-> st, facts |-> 0] : st \in StatusesOf}
             /\ version = 1
             /\ log = <<[status |-> row.status, by |-> None, turn |-> 0]>>
    <3>1. row \in {[id |-> 0, status |-> st, facts |-> 0] : st \in StatusesOf}
      BY <2>2
    <3>2. StatusesOf \subseteq Statuses
      <4>1. kind \in {"hunt", "exercise", "posture", "program", "decision"}
        BY LifecyclesAssumption DEF LifecyclesInit
      <4>2. QED
        BY <4>1 DEF StatusesOf, Statuses
    <3>3. row \in Row
      BY <3>1, <3>2 DEF Row
    <3>4. row.status \in Statuses
      BY <3>3 DEF Row
    <3>5. [status |-> row.status, by |-> None, turn |-> 0] \in Entry
      BY <3>4 DEF Entry
    <3>6. QED
      BY <2>2, <3>3, <3>5
  <2>3. QED
    BY <2>1, <2>2 DEF LifecyclesInit
<1>2. held \in [Processes -> Held \cup {None}]
  <2>1. row # None => Copy(TRUE) \in Held /\ Copy(FALSE) \in Held
    BY <1>1 DEF Copy, Held, Row
  <2>2. QED
    BY <2>1 DEF LifecyclesInit
<1>3. /\ session = [s \in Sessions |-> Idle] /\ Idle.pc = "idle"
      /\ session \in [Sessions -> Session]
  BY IdleType DEF LifecyclesInit, Idle
<1>4. /\ life = [p \in Processes |-> 0] /\ troubles = 0 /\ passes = [w \in Workers |-> 0]
      /\ cold \in [Workers -> {"cold", "warm"}] /\ known = [p \in Processes |-> None]
      /\ checks = <<>> /\ hyps = 0 /\ kind \in Kinds
  BY DEF LifecyclesInit
<1>5. LifecyclesTypeOK
  BY <1>1, <1>2, <1>3, <1>4, LifecyclesAssumption DEF LifecyclesTypeOK
<1>6. Loads
  BY <1>3 DEF Loads, At
<1>7. Counts
  BY <1>4 DEF Counts
<1>8. QED
  BY <1>5, <1>6, <1>7 DEF Typed

LEMMA StutterTyped == Typed /\ UNCHANGED lifeVars => Typed'
  BY DEF lifeVars, Typed, LifecyclesTypeOK, Loads, Counts, Row, Held, Entry, Check, Known, Session,
         At, Process

-----------------------------------------------------------------------------
(* The inductive invariant.                                                 *)

\* The history tells the row; what was loaded and answered is recorded.
TellsRow ==
    /\ row = None => log = <<>> /\ version = 0
    /\ row # None => /\ Len(log) = version
                     /\ \E i \in DOMAIN log :
                           /\ log[i].status = row.status
                           /\ \A j \in (i + 1)..Len(log) : log[j].status = "UPDATED"
Recorded ==
    \A q \in Requests : session[q].base > 0 /\ session[q].pc \notin {"commit", "failed"} =>
                          \E i \in DOMAIN log : log[i].by = q

\* Turns are given once, in order; an entry of the history has its request's.
Turns ==
    /\ \A w \in Workers : session[w].turn = 0 /\ session[w].op # "move"
    /\ \A s \in Sessions : session[s].pc \notin {"seek", "keep"}
    /\ \A q \in Requests : session[q].pc = "idle" => session[q] = Idle
    /\ \A q \in Requests : session[q].pc = "insert" => session[q].op = "create"
    /\ \A q \in Requests : session[q].turn <= Cardinality(Askers)
    /\ \A q, r \in Requests : session[q].turn > 0 /\ session[q].turn = session[r].turn => q = r

Wrote(x, status) ==
    /\ x.op = "sync" => status = "UPDATED"
    /\ x.op = "move" => status = x.to
    /\ x.op \notin {"sync", "move"} => ~Terminal(status)
Entries ==
    \A j \in DOMAIN log : log[j].turn > 0 =>
        /\ log[j].by \in Requests
        /\ session[log[j].by].turn = log[j].turn
        /\ Wrote(session[log[j].by], log[j].status)

\* A request that only updates the facts of a hunt.
Late(x) == kind = "hunt" /\ x.op = "sync"
\* A request that will not write any more: it has not found its row, or will not.
Dead(x) == x.pc # "commit" /\ (x.pc = "load" => x.id # row.id)
\* A request on its way to record that the record is closed.
Closing(x) == x.pc \in {"load", "commit"} /\ x.op = "move" /\ x.turn > 0 /\ Terminal(x.to)

ClosingIsLast ==
    \A q \in Requests : Closing(session[q]) =>
        /\ held[API] # None /\ Terminal(held[API].status)
        /\ \A r \in Requests : session[r].turn > session[q].turn => Late(session[r])
ClosedIsLast ==
    \A i \in DOMAIN log : log[i].turn > 0 /\ Terminal(log[i].status) =>
        /\ held[API] = None \/ Terminal(held[API].status) \/ held[API].id # row.id
        /\ \A r \in Requests :
              session[r].turn > log[i].turn => Late(session[r]) \/ Dead(session[r])

Decisions == Turns /\ Entries /\ ClosingIsLast /\ ClosedIsLast /\ ClosedIsTheLastDecision
\* An entry is the first one, made by a pass or before, or an update of a
\* pass, or tells what its request decided.
ByPass(j) ==
    log[j].by \notin Requests /\ log[j].turn = 0 /\ (j = 1 \/ log[j].status = "UPDATED")
ByRequest(j) ==
    /\ log[j].by \in Requests /\ log[j].turn > 0
    /\ log[j].turn = session[log[j].by].turn
    /\ log[j].status = IF session[log[j].by].op = "sync" THEN "UPDATED"
                       ELSE session[log[j].by].to
Explained == \A j \in DOMAIN log : ByPass(j) \/ ByRequest(j)

\* A request that is on its way to the row has decided what to write there.
OnItsWay(x) ==
    /\ x.pc \in {"insert", "load", "commit"} => x.turn > 0
    /\ x.pc = "insert" => x.op = "create" /\ x.to = FirstStatus
    /\ x.pc \in {"load", "commit"} => x.op \in {"sync", "move"}

\* What the API shows is what the last request that decided a status decided,
\* or what the row began with.
OnlySyncs(turn) == \A r \in Requests : session[r].turn > turn => session[r].op = "sync"
Shows(q) == /\ session[q].turn > 0 /\ session[q].op \in {"create", "move"}
            /\ held[API].status = session[q].to
            /\ OnlySyncs(session[q].turn)
ShowsTheFirst == /\ OnlySyncs(0) /\ row # None /\ log # <<>>
                 /\ held[API].status = log[1].status
Follows == held[API] # None => ShowsTheFirst \/ \E q \in Requests : Shows(q)

DriftInv == Explained /\ (\A q \in Requests : OnItsWay(session[q])) /\ Follows

LifecyclesInv ==
    Typed /\ Commits /\ TellsRow /\ Recorded /\ (kind # "decision" => Decisions /\ DriftInv)

-----------------------------------------------------------------------------
(* Steps that neither decide nor record.                                    *)

\* A request stays as it is, or goes to where nothing is written.
Aside(old, new) ==
    \/ new = old
    \/ /\ new.pc \notin {"idle", "load", "commit"}
       /\ old.pc \in {"commit", "failed"} => new.pc = "failed"
       /\ new.base \in {0, old.base}
       /\ kind # "decision" =>
             /\ new.pc \notin {"insert", "seek", "keep"}
             /\ new.turn = old.turn
             /\ old.turn > 0 => new.op = old.op /\ new.to = old.to /\ new.id = old.id

AsideStep ==
    /\ UNCHANGED <<kind, row, version, log>>
    /\ \A q \in Requests : Aside(session[q], session'[q])
    /\ \A w \in Workers : /\ session'[w].pc = "commit" => session[w].pc = "commit"
                          /\ kind # "decision" => /\ session'[w].turn = 0
                                                  /\ session'[w].op # "move"
                                                  /\ session'[w].pc \notin {"seek", "keep"}
    /\ \/ kind = "decision"
       \/ held'[API] = held[API]
       \/ held'[API] = None /\ \A q \in Requests : session'[q].pc \notin {"load", "commit"}

\* Two requests with the same turns are the same askers.
LEMMA SameAskers ==
  ASSUME \A q \in Requests : session'[q].turn = session[q].turn
  PROVE  Askers' = Askers
  BY DEF Askers

LEMMA AsideKeepsRow ==
  ASSUME LifecyclesInv, AsideStep
  PROVE  Commits' /\ TellsRow' /\ Recorded'
<1>1. \A s \in Sessions : session'[s].pc = "commit" => session[s].pc = "commit"
  BY DEF AsideStep, Aside, Sessions
<1>2. Commits'
  BY <1>1 DEF LifecyclesInv, Commits, At, AsideStep
<1>3. TellsRow'
  BY DEF LifecyclesInv, TellsRow, AsideStep
<1>4. Recorded'
  <2> SUFFICES ASSUME NEW q \in Requests, session'[q].base > 0,
                      session'[q].pc \notin {"commit", "failed"}
               PROVE  \E i \in DOMAIN log' : log'[i].by = q
    BY DEF Recorded
  <2>1. session[q].base > 0 /\ session[q].pc \notin {"commit", "failed"}
    BY DEF AsideStep, Aside
  <2>2. QED
    BY <2>1 DEF LifecyclesInv, Recorded, AsideStep
<1>5. QED
  BY <1>2, <1>3, <1>4

LEMMA AsideKeepsDecisions ==
  ASSUME LifecyclesInv, AsideStep, kind # "decision"
  PROVE  Decisions'
<1>1. Typed /\ Turns /\ Entries /\ ClosingIsLast /\ ClosedIsLast /\ ClosedIsTheLastDecision
  BY DEF LifecyclesInv, Decisions
<1>2. UNCHANGED <<kind, row, version, log>>
  BY DEF AsideStep
<1>3. \A q \in Requests :
         \/ session'[q] = session[q]
         \/ /\ session'[q].pc \notin {"idle", "load", "commit", "insert", "seek", "keep"}
            /\ session'[q].turn = session[q].turn
            /\ session[q].turn > 0 => /\ session'[q].op = session[q].op
                                      /\ session'[q].to = session[q].to
                                      /\ session'[q].id = session[q].id
  BY DEF AsideStep, Aside
<1>4. Askers' = Askers
  BY <1>3, SameAskers
<1>5. \A q \in Requests : session'[q].turn = session[q].turn
  BY <1>3
<1>6. Turns'
  <2>1. \A w \in Workers : /\ session'[w].turn = 0 /\ session'[w].op # "move"
                           /\ session'[w].pc \notin {"seek", "keep"}
    BY DEF AsideStep
  <2>2. \A s \in Sessions : session'[s].pc \notin {"seek", "keep"}
    BY <1>1, <1>3, <2>1 DEF Turns, Sessions
  <2>3. \A q \in Requests : /\ session'[q].pc = "idle" => session'[q] = Idle
                            /\ session'[q].pc = "insert" => session'[q].op = "create"
    BY <1>1, <1>3 DEF Turns
  <2>4. \A q \in Requests : session'[q].turn <= Cardinality(Askers')
    BY <1>1, <1>4, <1>5 DEF Turns
  <2>5. \A q, r \in Requests :
           session'[q].turn > 0 /\ session'[q].turn = session'[r].turn => q = r
    BY <1>1, <1>5 DEF Turns
  <2>6. Idle' = Idle
    BY DEF Idle
  <2>7. QED
    BY <2>1, <2>2, <2>3, <2>4, <2>5 DEF Turns
<1>7. \A st : Terminal(st)' <=> Terminal(st)
  BY <1>2 DEF Terminal
<1>8. Entries'
  BY <1>1, <1>2, <1>3, <1>7 DEF Entries, Wrote, Terminal
<1>9. ClosingIsLast'
  <2> SUFFICES ASSUME NEW q \in Requests, Closing(session[q])'
               PROVE  /\ held'[API] # None /\ Terminal(held[API].status)'
                      /\ \A r \in Requests : session'[r].turn > session'[q].turn
                                                => Late(session[r])'
    BY DEF ClosingIsLast
  <2>1. session'[q] = session[q] /\ session[q].pc \in {"load", "commit"}
    BY <1>3 DEF Closing
  <2>2. Closing(session[q])
    BY <1>2, <2>1 DEF Closing, Terminal
  <2>3. held'[API] = held[API]
    BY <2>1 DEF AsideStep
  <2>4. session[q].turn > 0 /\ session[q].turn \in Nat
    BY <1>1, <2>2 DEF Closing, Typed, LifecyclesTypeOK, Session, Sessions
  <2>5. ASSUME NEW r \in Requests, session'[r].turn > session'[q].turn
        PROVE  Late(session[r])'
    <3>1. session[r].turn > session[q].turn /\ session[r].turn \in Nat
      BY <1>1, <1>5, <2>5 DEF Typed, LifecyclesTypeOK, Session, Sessions
    <3>2. session[r].turn > 0
      BY <2>4, <3>1
    <3>3. Late(session[r])
      BY <1>1, <2>2, <3>1 DEF ClosingIsLast
    <3>4. QED
      BY <1>2, <1>3, <3>2, <3>3 DEF Late
  <2>6. QED
    BY <1>1, <1>2, <2>2, <2>3, <2>5 DEF ClosingIsLast, Terminal
<1>10. ClosedIsLast'
  <2> SUFFICES ASSUME NEW i \in DOMAIN log, log[i].turn > 0, Terminal(log[i].status)
               PROVE  /\ \/ held'[API] = None \/ Terminal(held[API].status)'
                         \/ held'[API].id # row.id
                      /\ \A r \in Requests : session'[r].turn > log[i].turn
                                                => Late(session[r])' \/ Dead(session[r])'
    BY <1>2 DEF ClosedIsLast, Terminal
  <2>1. \/ held'[API] = None \/ Terminal(held[API].status)' \/ held'[API].id # row.id
    BY <1>1, <1>2 DEF AsideStep, ClosedIsLast, Terminal
  <2>2. ASSUME NEW r \in Requests, session'[r].turn > log[i].turn
        PROVE  Late(session[r])' \/ Dead(session[r])'
    <3>1. session[r].turn > log[i].turn
      BY <1>5, <2>2
    <3>2. Late(session[r]) \/ Dead(session[r])
      BY <1>1, <3>1 DEF ClosedIsLast
    <3>3. CASE session'[r] = session[r]
      BY <1>2, <3>2, <3>3 DEF Late, Dead
    <3>4. CASE session'[r].pc \notin {"load", "commit"}
      BY <3>4 DEF Dead
    <3>5. QED
      BY <1>3, <3>3, <3>4
  <2>3. QED
    BY <2>1, <2>2
<1>11. ClosedIsTheLastDecision'
  BY <1>1, <1>2 DEF ClosedIsTheLastDecision, Terminal
<1>12. QED
  BY <1>6, <1>8, <1>9, <1>10, <1>11 DEF Decisions

LEMMA SessionAside ==
  ASSUME LifecyclesInv, NEW s \in Sessions, NEW q, Assigned(s, q),
         UNCHANGED <<kind, row, version, log>>,
         s \in Requests => Aside(session[s], q),
         s \in Workers => /\ q.pc # "commit"
                          /\ kind # "decision" => q.turn = 0 /\ q.op # "move" /\ q.pc \notin {"seek", "keep"},
         kind = "decision" \/ held'[API] = held[API]
  PROVE  AsideStep
<1>1. \A t \in Sessions : session'[t] = IF t = s THEN q ELSE session[t]
  BY DEF Assigned, LifecyclesInv, Typed, LifecyclesTypeOK
<1>2. Requests \subseteq Sessions /\ Workers \subseteq Sessions
  BY DEF Sessions
<1>3. \A r \in Requests : Aside(session[r], session'[r])
  BY <1>1, <1>2 DEF Aside
<1>4. kind # "decision" =>
         \A w \in Workers : /\ session[w].turn = 0 /\ session[w].op # "move"
                            /\ session[w].pc \notin {"seek", "keep"}
  BY <1>2 DEF LifecyclesInv, Decisions, Turns
<1>5. \A w \in Workers : /\ session'[w].pc = "commit" => session[w].pc = "commit"
                         /\ kind # "decision" => /\ session'[w].turn = 0
                                                 /\ session'[w].op # "move"
                                                 /\ session'[w].pc \notin {"seek", "keep"}
  BY <1>1, <1>2, <1>4
<1>6. QED
  BY <1>3, <1>5 DEF AsideStep

LEMMA PcFields ==
  ASSUME LifecyclesInv, NEW s \in Sessions, NEW pc
  PROVE  /\ [session[s] EXCEPT !.pc = pc].pc = pc
         /\ [session[s] EXCEPT !.pc = pc].turn = session[s].turn
         /\ [session[s] EXCEPT !.pc = pc].op = session[s].op
         /\ [session[s] EXCEPT !.pc = pc].to = session[s].to
         /\ [session[s] EXCEPT !.pc = pc].id = session[s].id
         /\ [session[s] EXCEPT !.pc = pc].base = session[s].base
<1>1. session[s] \in Session
  BY DEF LifecyclesInv, Typed, LifecyclesTypeOK
<1>2. QED
  BY <1>1 DEF Session

LEMMA WorkerTurns ==
  ASSUME LifecyclesInv, kind # "decision", NEW w \in Workers
  PROVE  session[w].turn = 0 /\ session[w].op # "move"
  BY DEF LifecyclesInv, Decisions, Turns

LEMMA GoesAside ==
  ASSUME LifecyclesInv, NEW s \in Sessions, NEW pc, Goes(s, pc),
         UNCHANGED <<kind, row, version, log, held>>,
         pc \notin {"load", "commit", "insert", "seek", "keep"},
         s \in Requests => pc # "idle" /\ (session[s].pc \in {"commit", "failed"} => pc = "failed")
  PROVE  AsideStep
<1> DEFINE q == [session[s] EXCEPT !.pc = pc]
<1>1. /\ q.pc = pc /\ q.turn = session[s].turn /\ q.op = session[s].op
      /\ q.to = session[s].to /\ q.id = session[s].id /\ q.base = session[s].base
  BY PcFields
<1>2. Assigned(s, q)
  BY DEF Goes, Assigned, LifecyclesInv, Typed, LifecyclesTypeOK
<1> HIDE DEF q
<1>3. s \in Requests => Aside(session[s], q)
  BY <1>1 DEF Aside
<1>4. s \in Workers => /\ q.pc # "commit"
                       /\ kind # "decision" => q.turn = 0 /\ q.op # "move" /\ q.pc \notin {"seek", "keep"}
  BY <1>1, WorkerTurns
<1>5. QED
  BY <1>2, <1>3, <1>4, SessionAside

LEMMA GoingAside ==
  ASSUME LifecyclesInv, NEW s \in Sessions,
         \/ StaleWrite(s) \/ InsertFails(s) \/ FetchFindings(s) \/ LoadCheck(s)
         \/ s \in Requests /\ NotFound(s)
         \/ s \in Workers /\ (ReadHypotheses(s) \/ CreateHypothesis(s))
         \/ InsertCheck(s) \/ UpdateCheck(s) \/ Refused(s)
         \/ LoadRow(s) /\ ~IsSaved(session[s].id)
  PROVE  AsideStep
<1>1. s \in Requests => s \notin Workers
  BY LifecyclesAssumption
<1>2. CASE StaleWrite(s) \/ InsertFails(s)
  BY <1>2, WhereTo, GoesAside DEF StaleWrite, InsertFails, OnlySession, At
<1>3. CASE FetchFindings(s)
  BY <1>3, GoesAside DEF FetchFindings, OnlySession, At
<1>4. CASE LoadCheck(s)
  <2>1. \E pc \in {Ends(s), "check"} : Goes(s, pc)
    BY <1>4 DEF LoadCheck
  <2>2. QED
    BY <1>4, <2>1, WhereTo, GoesAside DEF LoadCheck, OnlySession, At
<1>5. CASE s \in Requests /\ NotFound(s)
  BY <1>5, GoesAside DEF NotFound, OnlySession, At
<1>6. CASE s \in Workers /\ (ReadHypotheses(s) \/ CreateHypothesis(s))
  <2>1. \E pc \in {"idle", "hypothesize"} : Goes(s, pc)
    BY <1>6 DEF ReadHypotheses, CreateHypothesis
  <2>2. QED
    BY <1>1, <1>6, <2>1, GoesAside DEF ReadHypotheses, CreateHypothesis, OnlySession
<1>7. CASE InsertCheck(s)
  <2>1. \E pc \in {Ends(s), Breaks(s)} : Goes(s, pc)
    BY <1>7 DEF InsertCheck
  <2>2. session[s].pc = "newcheck" /\ UNCHANGED <<kind, row, version, log, held>>
    BY <1>7 DEF InsertCheck, At, OnlyChecks, OnlySession
  <2>3. QED
    BY <2>1, <2>2, WhereTo, GoesAside
<1>8. CASE UpdateCheck(s)
  BY <1>8, WhereTo, GoesAside DEF UpdateCheck, OnlyChecks, At
<1>9. CASE Refused(s)
  BY <1>9, WhereTo, GoesAside DEF Refused
<1>10. CASE LoadRow(s) /\ ~IsSaved(session[s].id)
  BY <1>10, WhereTo, GoesAside DEF LoadRow, OnlySession, At
<1>11. QED
  BY <1>2, <1>3, <1>4, <1>5, <1>6, <1>7, <1>8, <1>9, <1>10

LEMMA JudgeAside ==
  ASSUME LifecyclesInv, NEW s \in Sessions, Judge(s)
  PROVE  AsideStep
<1>1. session[s] \in Session /\ session[s].pc = "judge"
  BY DEF LifecyclesInv, Typed, LifecyclesTypeOK, Judge, At
<1>2. CASE Goes(s, Ends(s)) /\ OnlySession
  BY <1>1, <1>2, WhereTo, GoesAside DEF OnlySession
<1>3. ASSUME NEW outcome, NEW pc \in {"newcheck", "loadcheck"}, OnlyKnown,
             session' = [session EXCEPT ![s].outcome = outcome, ![s].pc = pc]
      PROVE  AsideStep
  <2> DEFINE q == [session[s] EXCEPT !.outcome = outcome, !.pc = pc]
  <2>1. /\ q.pc = pc /\ q.turn = session[s].turn /\ q.op = session[s].op
        /\ q.to = session[s].to /\ q.id = session[s].id /\ q.base = session[s].base
    BY <1>1 DEF Session
  <2>2. Assigned(s, q)
    BY <1>3 DEF Assigned, LifecyclesInv, Typed, LifecyclesTypeOK
  <2> HIDE DEF q
  <2>3. s \in Requests => Aside(session[s], q)
    BY <1>1, <2>1 DEF Aside
  <2>4. s \in Workers => /\ q.pc # "commit"
                         /\ kind # "decision" => q.turn = 0 /\ q.op # "move" /\ q.pc \notin {"seek", "keep"}
    BY <2>1, WorkerTurns
  <2>5. QED
    BY <1>3, <2>2, <2>3, <2>4, SessionAside DEF OnlyKnown
<1>4. QED
  BY <1>2, <1>3 DEF Judge

\* A step of a worker that puts it anywhere but at a commit.
LEMMA WorkerAside ==
  ASSUME LifecyclesInv, NEW w \in Workers, NEW q, Assigned(w, q),
         UNCHANGED <<kind, row, version, log>>, held'[API] = held[API],
         q.pc # "commit",
         kind # "decision" => q.turn = 0 /\ q.op # "move" /\ q.pc \notin {"seek", "keep"}
  PROVE  AsideStep
  BY SessionAside, LifecyclesAssumption DEF Sessions

LEMMA PassAside ==
  ASSUME LifecyclesInv, NEW w \in Workers,
         \/ HuntPass(w) \/ ExercisePass(w) \/ PosturePass(w) \/ ProgramPass(w)
         \/ DecisionPass(w)
  PROVE  AsideStep
<1>1. w \in Sessions /\ Process(w) = w /\ w \in Processes /\ API \in Processes /\ w # API
  BY ProcessFacts DEF Sessions, Processes
<1>2. PassHeld
  BY DEF HuntPass, ExercisePass, PosturePass, ProgramPass, DecisionPass
<1>3. UNCHANGED <<kind, row, version, log>>
  BY <1>2 DEF PassHeld
<1>4. \A h : held' = [held EXCEPT ![w] = h] => held'[API] = held[API]
  BY <1>1 DEF LifecyclesInv, Typed, LifecyclesTypeOK
<1>5. ASSUME NEW facts, NEW frozen, CreateOrSync(w, facts, frozen)
      PROVE  AsideStep
  <2>1. Asks(w) = 0
    BY DEF Asks
  <2>2. held'[API] = held[API]
    <3>1. CASE held[w] = None
      BY <1>1, <1>4, <1>5, <3>1 DEF CreateOrSync, Makes
    <3>2. CASE held[w] # None
      <4>1. held' = [held EXCEPT ![w].facts = facts] \/ UNCHANGED held
        BY <1>1, <1>5, <3>2 DEF CreateOrSync, Syncs
      <4>2. QED
        BY <1>1, <4>1 DEF LifecyclesInv, Typed, LifecyclesTypeOK
    <3>3. QED
      BY <3>1, <3>2
  <2>3. \E q : Assigned(w, q) /\ q.pc \notin {"commit", "seek", "keep"} /\ q.turn = 0
                /\ q.op # "move"
    <3>1. CASE held[w] = None
      <4> DEFINE q == [Idle EXCEPT !.pc = "insert", !.op = "create", !.id = FreshId,
                             !.to = FirstStatus, !.facts = facts, !.turn = Asks(w)]
      <4>1. q.pc = "insert" /\ q.turn = 0 /\ q.op # "move"
        BY <2>1 DEF Idle
      <4>2. Assigned(w, q)
        BY <1>1, <1>5, <3>1 DEF CreateOrSync, Makes, Assigned
      <4> HIDE DEF q
      <4>3. QED
        BY <4>1, <4>2
    <3>2. CASE held[w] # None
      <4> DEFINE q == [Idle EXCEPT !.pc = "load", !.op = "sync", !.id = held[w].id,
                                   !.turn = Asks(w)]
                 o == [Idle EXCEPT !.pc = Synced(w), !.id = held[w].id]
      <4>1. /\ q.pc = "load" /\ q.turn = 0 /\ q.op # "move"
            /\ o.pc = Synced(w) /\ o.turn = 0 /\ o.op # "move"
        BY <2>1 DEF Idle
      <4>2. Assigned(w, q) \/ Assigned(w, o)
        BY <1>1, <1>5, <3>2 DEF CreateOrSync, Syncs, Assigned
      <4> HIDE DEF q, o
      <4>3. QED
        BY <1>1, <4>1, <4>2, WhereTo
    <3>3. QED
      BY <3>1, <3>2
  <2>4. QED
    BY <1>3, <2>2, <2>3, WorkerAside
<1>6. CASE HuntPass(w)
  BY <1>5, <1>6 DEF HuntPass
<1>7. CASE PosturePass(w)
  BY <1>5, <1>7 DEF PosturePass
<1>8. CASE ProgramPass(w)
  BY <1>5, <1>8 DEF ProgramPass
<1>9. CASE ExercisePass(w)
  <2> DEFINE q == [Idle EXCEPT !.pc = "look", !.id = held[w].id]
  <2>1. q.pc = "look" /\ q.turn = 0 /\ q.op # "move"
    BY DEF Idle
  <2>2. Assigned(w, q) /\ UNCHANGED held
    BY <1>9 DEF ExercisePass, Assigned
  <2> HIDE DEF q
  <2>3. QED
    BY <1>3, <2>1, <2>2, WorkerAside
<1>10. CASE DecisionPass(w)
  <2> DEFINE q == [Idle EXCEPT !.pc = IF held[w] = None THEN "seek" ELSE "idle"]
  <2>1. q.pc # "commit"
    BY DEF Idle
  <2>2. Assigned(w, q) /\ UNCHANGED held /\ kind = "decision"
    BY <1>10 DEF DecisionPass, Assigned
  <2> HIDE DEF q
  <2>3. QED
    BY <1>3, <2>1, <2>2, WorkerAside
<1>11. QED
  BY <1>6, <1>7, <1>8, <1>9, <1>10

LEMMA SameSessionsAside ==
  ASSUME LifecyclesInv, UNCHANGED <<kind, row, version, log, session>>, held'[API] = held[API]
  PROVE  AsideStep
<1>1. \A w \in Workers : kind # "decision" => /\ session[w].turn = 0
                                              /\ session[w].op # "move"
                                              /\ session[w].pc \notin {"seek", "keep"}
  BY DEF LifecyclesInv, Decisions, Turns, Sessions
<1>2. QED
  BY <1>1 DEF AsideStep, Aside

LEMMA BootstrapAside ==
  ASSUME LifecyclesInv, NEW w \in Workers, BootstrapValidations(w) \/ BootstrapRecords(w)
  PROVE  AsideStep
<1>1. w \in Processes /\ API \in Processes /\ w # API
  BY ProcessFacts DEF Processes
<1>2. held'[API] = held[API]
  BY <1>1 DEF BootstrapValidations, BootstrapRecords, LifecyclesInv, Typed, LifecyclesTypeOK
<1>3. QED
  BY <1>2, SameSessionsAside DEF BootstrapValidations, BootstrapRecords

LEMMA RestartAside ==
  ASSUME LifecyclesInv, NEW p \in Processes, Restart(p)
  PROVE  AsideStep
<1>1. API \in Processes /\ Requests \subseteq Sessions /\ Workers \subseteq Sessions
  BY DEF Processes, Sessions
<1>2. Typed
  BY DEF LifecyclesInv
<1>3. \A s \in Sessions : \/ session'[s] = session[s]
                          \/ session'[s] = [session[s] EXCEPT !.pc = Breaks(s)]
  BY <1>2, RestartedSession
<1>4. \A q \in Requests : Aside(session[q], session'[q])
  <2> SUFFICES ASSUME NEW q \in Requests
               PROVE  Aside(session[q], session'[q])
    OBVIOUS
  <2>1. CASE session'[q] = session[q]
    BY <2>1 DEF Aside
  <2>2. CASE session'[q] = [session[q] EXCEPT !.pc = Breaks(q)]
    <3>1. Breaks(q) = "failed"
      BY WhereTo
    <3>2. /\ session'[q].pc = "failed" /\ session'[q].turn = session[q].turn
          /\ session'[q].op = session[q].op /\ session'[q].to = session[q].to
          /\ session'[q].id = session[q].id /\ session'[q].base = session[q].base
      BY <1>1, <2>2, <3>1, PcFields
    <3>3. QED
      BY <3>2 DEF Aside
  <2>3. QED
    BY <1>1, <1>3, <2>1, <2>2
<1>5. \A w \in Workers : /\ session'[w].pc = "commit" => session[w].pc = "commit"
                         /\ kind # "decision" => /\ session'[w].turn = 0
                                                 /\ session'[w].op # "move"
                                                 /\ session'[w].pc \notin {"seek", "keep"}
  <2> SUFFICES ASSUME NEW w \in Workers
               PROVE  /\ session'[w].pc = "commit" => session[w].pc = "commit"
                      /\ kind # "decision" => /\ session'[w].turn = 0
                                              /\ session'[w].op # "move"
                                              /\ session'[w].pc \notin {"seek", "keep"}
    OBVIOUS
  <2>1. kind # "decision" => /\ session[w].turn = 0 /\ session[w].op # "move"
                             /\ session[w].pc \notin {"seek", "keep"}
    BY <1>1 DEF LifecyclesInv, Decisions, Turns
  <2>2. CASE session'[w] = session[w]
    BY <2>1, <2>2
  <2>3. CASE session'[w] = [session[w] EXCEPT !.pc = Breaks(w)]
    <3>1. /\ session'[w].pc = Breaks(w) /\ session'[w].turn = session[w].turn
          /\ session'[w].op = session[w].op
      BY <1>1, <2>3, PcFields
    <3>2. QED
      BY <1>1, <2>1, <3>1, WhereTo
  <2>4. QED
    BY <1>1, <1>3, <2>2, <2>3
<1>6. CASE p # API
  <2>1. held'[API] = held[API]
    BY <1>1, <1>2, <1>6 DEF Restart, Typed, LifecyclesTypeOK
  <2>2. QED
    BY <1>4, <1>5, <2>1 DEF AsideStep, Restart
<1>7. CASE p = API
  <2>1. held'[API] = None
    BY <1>1, <1>2, <1>7 DEF Restart, Typed, LifecyclesTypeOK
  <2>2. \A q \in Requests : session'[q].pc \notin {"load", "commit"}
    <3> SUFFICES ASSUME NEW q \in Requests
                 PROVE  session'[q].pc \notin {"load", "commit"}
      OBVIOUS
    <3>1. Process(q) = p /\ q \in Sessions
      BY <1>1, <1>7, ProcessFacts
    <3>2. CASE session[q].pc \in {"done", "idle"} /\ session'[q] = session[q]
      BY <3>2
    <3>3. CASE session'[q] = [session[q] EXCEPT !.pc = Breaks(q)]
      BY <3>1, <3>3, PcFields, WhereTo
    <3>4. QED
      BY <3>1, <3>2, <3>3 DEF Restart, At
  <2>3. QED
    BY <1>4, <1>5, <2>1, <2>2 DEF AsideStep, Restart
<1>8. QED
  BY <1>6, <1>7

-----------------------------------------------------------------------------
(* Steps that decide.                                                       *)

DecideStep(q) ==
    /\ UNCHANGED <<kind, row, version, log>>
    /\ session[q].pc = "idle"
    /\ \A t \in Sessions \ {q} : session'[t] = session[t]
    /\ session'[q].turn = NextTurn /\ session'[q].base = 0
    /\ held'[API] # None
    /\ \/ /\ held[API] = None /\ held'[API].id = FreshId
          /\ session'[q].pc = "insert" /\ session'[q].op = "create"
          /\ session'[q].to = FirstStatus /\ held'[API].status = FirstStatus
       \/ /\ held[API] # None /\ held'[API].id = held[API].id
          /\ session'[q].pc = "load" /\ session'[q].id = held[API].id
          /\ \/ /\ session'[q].op = "sync" /\ held'[API].status = held[API].status
                /\ kind = "hunt" \/ ~Terminal(held[API].status)
             \/ /\ session'[q].op = "move" /\ held'[API].status = session'[q].to
                /\ ~Terminal(held[API].status)

\* A POST that finds nothing, or finds something to change, decides; one that
\* changes nothing does not.
LEMMA CreateOrSyncDecides ==
  ASSUME LifecyclesInv, NEW q \in Requests, NEW facts \in 0..1, NEW frozen,
         session[q].pc = "idle", kind # "decision",
         CreateOrSync(q, facts, frozen), OnlyHeld,
         frozen \/ kind = "hunt" \/ held[API] = None \/ ~Terminal(held[API].status)
  PROVE  AsideStep \/ DecideStep(q)
<1>1. /\ q \in Sessions /\ Process(q) = API /\ API \in Processes /\ q \notin Workers
      /\ Asks(q) = NextTurn
  BY ProcessFacts, LifecyclesAssumption DEF Sessions, Processes, Asks
<1>2. Typed
  BY DEF LifecyclesInv
<1>3. UNCHANGED <<kind, row, version, log>>
  BY DEF OnlyHeld
<1>4. CASE held[API] = None
  <2> DEFINE h == [id |-> FreshId, status |-> FirstStatus, facts |-> facts,
                   techniques |-> kind = "exercise"]
             n == [Idle EXCEPT !.pc = "insert", !.op = "create", !.id = FreshId,
                               !.to = FirstStatus, !.facts = facts, !.turn = NextTurn]
  <2>1. Makes(q, facts, NextTurn)
    BY <1>1, <1>4 DEF CreateOrSync
  <2>2. held' = [held EXCEPT ![API] = h] /\ Assigned(q, n)
    BY <1>1, <2>1 DEF Makes, Assigned
  <2>3. h.id = FreshId /\ h.status = FirstStatus
    OBVIOUS
  <2>4. /\ n.pc = "insert" /\ n.op = "create" /\ n.turn = NextTurn /\ n.base = 0
        /\ n.to = FirstStatus
    BY DEF Idle
  <2> HIDE DEF n
  <2>5. session'[q] = n /\ \A t \in Sessions \ {q} : session'[t] = session[t]
    BY <1>1, <1>2, <2>2 DEF Assigned, Typed, LifecyclesTypeOK
  <2>6. held'[API] = h
    BY <1>1, <1>2, <2>2 DEF Typed, LifecyclesTypeOK
  <2>7. h # None
    <3>1. FreshId \in Nat /\ FirstStatus \in Statuses
      BY FreshIdFact, FirstStatusFact
    <3>2. h \in Held
      BY <3>1 DEF Held
    <3> HIDE DEF h
    <3>3. QED
      BY <3>2, NoneAssumption
  <2> HIDE DEF h
  <2>8. QED
    BY <1>3, <1>4, <2>3, <2>4, <2>5, <2>6, <2>7 DEF DecideStep
<1>5. CASE held[API] # None /\ held[API].facts # facts /\ ~frozen
  <2> DEFINE n == [Idle EXCEPT !.pc = "load", !.op = "sync", !.id = held[API].id,
                               !.turn = NextTurn]
             h == [held[API] EXCEPT !.facts = facts]
  <2>1. held' = [held EXCEPT ![API].facts = facts] /\ Assigned(q, n)
    BY <1>1, <1>5 DEF CreateOrSync, Syncs, Assigned
  <2>2. /\ n.pc = "load" /\ n.op = "sync" /\ n.turn = NextTurn /\ n.base = 0
        /\ n.id = held[API].id
    BY DEF Idle
  <2>3. held[API] \in Held
    BY <1>1, <1>2, <1>5, HeldFields
  <2>4. h \in Held /\ h.id = held[API].id /\ h.status = held[API].status
    BY <2>3 DEF Held
  <2>5. held'[API] = h
    BY <1>1, <1>2, <2>1 DEF Typed, LifecyclesTypeOK
  <2>6. h # None
    BY <2>4, NoneAssumption
  <2> HIDE DEF n, h
  <2>7. session'[q] = n /\ \A t \in Sessions \ {q} : session'[t] = session[t]
    BY <1>1, <1>2, <2>1 DEF Assigned, Typed, LifecyclesTypeOK
  <2>8. QED
    BY <1>3, <1>5, <2>2, <2>4, <2>5, <2>6, <2>7 DEF DecideStep
<1>6. CASE held[API] # None /\ ~(held[API].facts # facts /\ ~frozen)
  <2> DEFINE n == [Idle EXCEPT !.pc = "done", !.id = held[API].id]
  <2>1. Synced(q) = "done"
    BY WhereTo
  <2>2. Assigned(q, n) /\ UNCHANGED held
    BY <1>1, <1>6, <2>1 DEF CreateOrSync, Syncs, Assigned
  <2>3. session[q] = Idle
    BY DEF LifecyclesInv, Decisions, Turns
  <2>4. n.pc = "done" /\ n.turn = 0 /\ n.base = 0 /\ Idle.turn = 0 /\ Idle.pc = "idle"
    BY DEF Idle
  <2> HIDE DEF n
  <2>5. Aside(session[q], n)
    BY <2>3, <2>4 DEF Aside
  <2>6. QED
    BY <1>1, <1>3, <2>2, <2>5, SessionAside
<1>7. QED
  BY <1>4, <1>5, <1>6

LEMMA PostsDecide ==
  ASSUME LifecyclesInv, NEW q \in Requests,
         \/ PostHunt(q) \/ PostExercise(q) \/ PostPosture(q) \/ PostProgram(q)
         \/ PostDecision(q)
  PROVE  AsideStep \/ DecideStep(q)
<1>1. session[q].pc = "idle" /\ q \in Sessions /\ Process(q) = API /\ q \notin Workers
  BY ProcessFacts, LifecyclesAssumption DEF PostHunt, PostExercise, PostPosture, PostProgram, PostDecision, At, Sessions
<1>2. Frozen(API) \/ held[API] = None \/ ~Terminal(held[API].status)
  BY DEF Frozen
<1>3. CASE PostHunt(q)
  <2>1. PICK facts \in 0..1 : kind = "hunt" /\ CreateOrSync(q, facts, FALSE) /\ OnlyHeld
    BY <1>3 DEF PostHunt, CreateOrSyncHunt
  <2>2. QED
    BY <1>1, <2>1, CreateOrSyncDecides
<1>4. CASE PostExercise(q)
  <2>1. PICK facts \in 0..1 : kind = "exercise" /\ CreateOrSync(q, facts, Frozen(API)) /\ OnlyHeld
    BY <1>1, <1>4 DEF PostExercise, CreateOrSyncExercise
  <2>2. QED
    BY <1>1, <1>2, <2>1, CreateOrSyncDecides
<1>5. CASE PostPosture(q)
  <2>1. PICK facts \in 0..1 : kind = "posture" /\ CreateOrSync(q, facts, Frozen(API)) /\ OnlyHeld
    BY <1>1, <1>5 DEF PostPosture, CreateOrSyncPosture
  <2>2. QED
    BY <1>1, <1>2, <2>1, CreateOrSyncDecides
<1>6. CASE PostProgram(q)
  <2>1. PICK facts \in 0..1 : kind = "program" /\ CreateOrSync(q, facts, Frozen(API)) /\ OnlyHeld
    BY <1>1, <1>6 DEF PostProgram, CreateOrSyncProgram
  <2>2. QED
    BY <1>1, <1>2, <2>1, CreateOrSyncDecides
<1>7. CASE PostDecision(q)
  <2> DEFINE n == [Idle EXCEPT !.pc = IF held[Process(q)] = None THEN "seek" ELSE Ends(q)]
  <2>1. n.base = 0 /\ n.pc \in {"seek", "done"}
    BY WhereTo DEF Idle
  <2>2. Assigned(q, n) /\ OnlySession /\ kind = "decision"
    BY <1>7 DEF PostDecision, CreateOrSyncDecision, Assigned
  <2> HIDE DEF n
  <2>3. Aside(session[q], n)
    BY <1>1, <2>1, <2>2 DEF Aside
  <2>4. QED
    BY <1>1, <2>2, <2>3, SessionAside DEF OnlySession
<1>8. QED
  BY <1>3, <1>4, <1>5, <1>6, <1>7

LEMMA SeekAside ==
  ASSUME LifecyclesInv, NEW s \in Sessions, SeekDecision(s) \/ KeepDecision(s)
  PROVE  AsideStep
<1>1. kind = "decision"
  BY DEF LifecyclesInv, Decisions, Turns, SeekDecision, KeepDecision, At
<1>2. UNCHANGED <<kind, row, version, log>> /\ session[s].pc \in {"seek", "keep"}
  BY DEF SeekDecision, KeepDecision, OnlySession, OnlyHeld, At
<1>3. session[s] \in Session
  BY DEF LifecyclesInv, Typed, LifecyclesTypeOK
<1>4. \E n : /\ Assigned(s, n) /\ n.base \in {0, session[s].base}
             /\ n.pc \notin {"load", "commit"}
             /\ s \in Requests => n.pc # "idle"
  <2>1. CASE SeekDecision(s)
    <3> DEFINE n == IF row = None THEN [session[s] EXCEPT !.pc = "keep", !.op = "create"]
                    ELSE [session[s] EXCEPT !.pc = "keep", !.op = "sync", !.id = row.id,
                                            !.to = row.status]
    <3>1. n.pc = "keep" /\ n.base = session[s].base
      BY <1>3 DEF Session
    <3>2. Assigned(s, n)
      BY <2>1 DEF SeekDecision, Assigned, LifecyclesInv, Typed, LifecyclesTypeOK
    <3> HIDE DEF n
    <3>3. QED
      BY <3>1, <3>2
  <2>2. CASE KeepDecision(s) /\ session[s].op = "create"
    <3> DEFINE n == [Idle EXCEPT !.pc = "insert", !.op = "create", !.id = FreshId,
                                 !.to = FirstStatus, !.facts = 0, !.turn = Asks(s)]
    <3>1. n.pc = "insert" /\ n.base = 0
      BY DEF Idle
    <3>2. Assigned(s, n)
      BY <2>2 DEF KeepDecision, Makes, Assigned
    <3> HIDE DEF n
    <3>3. QED
      BY <3>1, <3>2
  <2>3. CASE KeepDecision(s) /\ session[s].op # "create"
    <3> DEFINE n == [session[s] EXCEPT !.pc = Ends(s)]
    <3>1. n.pc = Ends(s) /\ n.base = session[s].base
      BY PcFields
    <3>2. Assigned(s, n)
      BY <2>3 DEF KeepDecision, Goes, Assigned, LifecyclesInv, Typed, LifecyclesTypeOK
    <3> HIDE DEF n
    <3>3. QED
      BY <3>1, <3>2, WhereTo
  <2>4. QED
    BY <2>1, <2>2, <2>3
<1>5. PICK n : /\ Assigned(s, n) /\ n.base \in {0, session[s].base}
               /\ n.pc \notin {"load", "commit"}
               /\ s \in Requests => n.pc # "idle"
  BY <1>4
<1>6. s \in Requests => Aside(session[s], n)
  BY <1>1, <1>2, <1>5 DEF Aside
<1>7. QED
  BY <1>1, <1>2, <1>5, <1>6, SessionAside

LEMMA MovesDecide ==
  ASSUME LifecyclesInv, NEW q \in Requests, NEW to \in Statuses,
         NEW from, NEW unless, NEW otherwise \in {"failed", "done"}, held[API] # None,
         Moves(q, to, from, unless, otherwise), \A st \in from : ~Terminal(st)
  PROVE  AsideStep \/ DecideStep(q)
<1>1. /\ q \in Sessions /\ API \in Processes /\ q \notin Workers
      /\ session[q].pc = "idle" /\ session[q] \in Session
  BY LifecyclesAssumption DEF Sessions, Processes, Moves, At, LifecyclesInv, Typed, LifecyclesTypeOK
<1>2. Typed
  BY DEF LifecyclesInv
<1>3. held[API] \in Held
  BY <1>1, <1>2, HeldFields
<1>4. CASE held[API].status \in unless
  <2> DEFINE n == [session[q] EXCEPT !.pc = Answered(to), !.id = held[API].id]
  <2>1. /\ n.pc = Answered(to) /\ n.turn = session[q].turn /\ n.base = session[q].base
        /\ n.op = session[q].op /\ n.to = session[q].to
    BY <1>1 DEF Session
  <2>2. Assigned(q, n) /\ OnlySession
    BY <1>1, <1>2, <1>4 DEF Moves, Assigned, Typed, LifecyclesTypeOK
  <2>3. n.pc \in {"look", "done"}
    BY <2>1, WhereTo
  <2> HIDE DEF n
  <2>4. kind # "decision" => session[q] = Idle
    BY <1>1 DEF LifecyclesInv, Decisions, Turns
  <2>5. Idle.turn = 0
    BY DEF Idle
  <2>6. Aside(session[q], n)
    BY <1>1, <2>1, <2>3, <2>4, <2>5 DEF Aside
  <2>7. QED
    BY <1>1, <2>2, <2>6, SessionAside DEF OnlySession
<1>5. CASE held[API].status \notin unless /\ held[API].status \notin from
  <2>1. Goes(q, otherwise) /\ OnlySession
    BY <1>5 DEF Moves
  <2>2. QED
    BY <1>1, <2>1, GoesAside DEF OnlySession
<1>6. CASE held[API].status \notin unless /\ held[API].status \in from
  <2> DEFINE n == [Idle EXCEPT !.pc = "load", !.op = "move", !.id = held[API].id, !.to = to,
                               !.turn = NextTurn]
             h == [held[API] EXCEPT !.status = to]
  <2>1. held' = [held EXCEPT ![API].status = to] /\ Assigned(q, n) /\ OnlyHeld
    BY <1>6 DEF Moves, Assigned
  <2>2. /\ n.pc = "load" /\ n.op = "move" /\ n.turn = NextTurn /\ n.base = 0
        /\ n.id = held[API].id /\ n.to = to
    BY DEF Idle
  <2>3. h \in Held /\ h.id = held[API].id /\ h.status = to
    BY <1>3 DEF Held
  <2>4. held'[API] = h
    BY <1>1, <1>2, <2>1 DEF Typed, LifecyclesTypeOK
  <2>5. h # None
    BY <2>3, NoneAssumption
  <2>6. ~Terminal(held[API].status)
    BY <1>6
  <2> HIDE DEF n, h
  <2>7. session'[q] = n /\ \A t \in Sessions \ {q} : session'[t] = session[t]
    BY <1>1, <1>2, <2>1 DEF Assigned, Typed, LifecyclesTypeOK
  <2>8. UNCHANGED <<kind, row, version, log>>
    BY <2>1 DEF OnlyHeld
  <2>9. QED
    BY <1>1, <2>2, <2>3, <2>4, <2>5, <2>6, <2>7, <2>8 DEF DecideStep
<1>7. QED
  BY <1>4, <1>5, <1>6

LEMMA DecideKeepsRow ==
  ASSUME LifecyclesInv, NEW q \in Requests, DecideStep(q)
  PROVE  Commits' /\ TellsRow' /\ Recorded'
<1>1. q \in Sessions /\ Requests \subseteq Sessions
  BY DEF Sessions
<1>2. \A t \in Sessions : session'[t] = session[t] \/ t = q
  BY DEF DecideStep
<1>3. session'[q].pc # "commit" /\ session'[q].base = 0
  BY DEF DecideStep
<1>4. UNCHANGED <<row, version, log>>
  BY DEF DecideStep
<1>5. Commits'
  BY <1>2, <1>3, <1>4 DEF LifecyclesInv, Commits, At
<1>6. TellsRow'
  BY <1>4 DEF LifecyclesInv, TellsRow
<1>7. Recorded'
  <2> SUFFICES ASSUME NEW r \in Requests, session'[r].base > 0,
                      session'[r].pc \notin {"commit", "failed"}
               PROVE  \E i \in DOMAIN log' : log'[i].by = r
    BY DEF Recorded
  <2>1. session'[r] = session[r]
    BY <1>1, <1>2, <1>3
  <2>2. QED
    BY <1>4, <2>1 DEF LifecyclesInv, Recorded
<1>8. QED
  BY <1>5, <1>6, <1>7

\* The turn of a new decision is beyond every other.
LEMMA NewTurn ==
  ASSUME LifecyclesInv, kind # "decision", NEW q \in Requests, DecideStep(q)
  PROVE  /\ session[q] = Idle
         /\ \A r \in Requests \ {q} : session'[r] = session[r]
         /\ \A w \in Workers : session'[w] = session[w]
         /\ \A r \in Requests : session[r].turn \in Nat /\ session[r].turn < NextTurn
         /\ NextTurn \in Nat /\ Cardinality(Askers') = NextTurn
<1>1. Requests \subseteq Sessions /\ Workers \subseteq Sessions /\ q \notin Workers
  BY LifecyclesAssumption DEF Sessions
<1>2. session[q] = Idle /\ Idle.turn = 0
  BY DEF LifecyclesInv, Decisions, Turns, DecideStep, Idle
<1>3. \A r \in Requests \ {q} : session'[r] = session[r]
  BY <1>1 DEF DecideStep
<1>4. \A w \in Workers : session'[w] = session[w]
  BY <1>1 DEF DecideStep
<1>5. \A r \in Requests : session[r].turn \in Nat
  BY <1>1 DEF LifecyclesInv, Typed, LifecyclesTypeOK, Session
<1>6. /\ IsFiniteSet(Askers) /\ Cardinality(Askers) \in Nat
      /\ NextTurn = Cardinality(Askers) + 1
  BY NextTurnFact
<1>7. \A r \in Requests : session[r].turn <= Cardinality(Askers)
  BY DEF LifecyclesInv, Decisions, Turns
<1>8. Askers' = Askers \cup {q} /\ q \notin Askers
  <2>1. session'[q].turn = NextTurn
    BY DEF DecideStep
  <2>2. \A r \in Requests : r \in Askers' <=> (r \in Askers \/ r = q)
    BY <1>3, <1>6, <2>1 DEF Askers
  <2>3. QED
    BY <1>2, <2>2 DEF Askers
<1>9. Cardinality(Askers') = NextTurn
  BY <1>6, <1>8, FS_AddElement
<1>10. QED
  BY <1>2, <1>3, <1>4, <1>5, <1>6, <1>7, <1>9

LEMMA DecideKeepsDecisions ==
  ASSUME LifecyclesInv, kind # "decision", NEW q \in Requests, DecideStep(q)
  PROVE  Decisions'
<1>1. Typed /\ Turns /\ Entries /\ ClosingIsLast /\ ClosedIsLast /\ ClosedIsTheLastDecision
  BY DEF LifecyclesInv, Decisions
<1>2. UNCHANGED <<kind, row, version, log>>
  BY DEF DecideStep
<1>3. /\ session[q] = Idle
      /\ \A r \in Requests \ {q} : session'[r] = session[r]
      /\ \A w \in Workers : session'[w] = session[w]
      /\ \A r \in Requests : session[r].turn \in Nat /\ session[r].turn < NextTurn
      /\ NextTurn \in Nat /\ Cardinality(Askers') = NextTurn
  BY NewTurn
<1>4. session'[q].turn = NextTurn /\ session'[q].pc \in {"insert", "load"}
  BY DEF DecideStep
<1>5. Idle.turn = 0 /\ Idle.pc = "idle" /\ Idle' = Idle
  BY DEF Idle
<1>6. Turns'
  <2>1. \A w \in Workers : session'[w].turn = 0 /\ session'[w].op # "move"
    BY <1>1, <1>3 DEF Turns
  <2>2. \A s \in Sessions : session'[s].pc \notin {"seek", "keep"}
    BY <1>1, <1>4 DEF Turns, DecideStep
  <2>3. \A r \in Requests : /\ session'[r].pc = "idle" => session'[r] = Idle
                            /\ session'[r].pc = "insert" => session'[r].op = "create"
    BY <1>1, <1>3, <1>4 DEF Turns, DecideStep
  <2>4. \A r \in Requests : session'[r].turn <= Cardinality(Askers')
    BY <1>3, <1>4
  <2>5. \A r, t \in Requests :
           session'[r].turn > 0 /\ session'[r].turn = session'[t].turn => r = t
    BY <1>1, <1>3, <1>4 DEF Turns
  <2>6. QED
    BY <1>5, <2>1, <2>2, <2>3, <2>4, <2>5 DEF Turns
<1>7. Entries'
  <2> SUFFICES ASSUME NEW j \in DOMAIN log, log[j].turn > 0
               PROVE  /\ log[j].by \in Requests
                      /\ session'[log[j].by].turn = log[j].turn
                      /\ Wrote(session[log[j].by], log[j].status)'
    BY <1>2 DEF Entries
  <2>1. /\ log[j].by \in Requests /\ session[log[j].by].turn = log[j].turn
        /\ Wrote(session[log[j].by], log[j].status)
    BY <1>1 DEF Entries
  <2>2. log[j].by # q
    BY <1>3, <1>5, <2>1
  <2>3. session'[log[j].by] = session[log[j].by]
    BY <1>3, <2>1, <2>2
  <2>4. QED
    BY <1>2, <2>1, <2>3 DEF Wrote, Terminal
<1>8. ClosingIsLast'
  <2> SUFFICES ASSUME NEW r \in Requests, Closing(session[r])'
               PROVE  /\ held'[API] # None /\ Terminal(held[API].status)'
                      /\ \A t \in Requests : session'[t].turn > session'[r].turn
                                                => Late(session[t])'
    BY DEF ClosingIsLast
  <2>1. CASE r = q
    <3>1. /\ session'[q].pc = "load" /\ session'[q].op = "move"
          /\ held'[API].status = session'[q].to /\ held'[API] # None
      BY <2>1 DEF DecideStep, Closing
    <3>2. Terminal(held[API].status)'
      BY <2>1, <3>1 DEF Closing, Terminal
    <3>3. \A t \in Requests : ~(session'[t].turn > session'[q].turn)
      BY <1>3, <1>4
    <3>4. QED
      BY <2>1, <3>1, <3>2, <3>3
  <2>2. CASE r # q
    <3>1. session'[r] = session[r]
      BY <1>3, <2>2
    <3>2. Closing(session[r])
      BY <1>2, <3>1 DEF Closing, Terminal
    <3>3. /\ held[API] # None /\ Terminal(held[API].status)
          /\ \A t \in Requests : session[t].turn > session[r].turn => Late(session[t])
      BY <1>1, <3>2 DEF ClosingIsLast
    <3>4. /\ held'[API] # None /\ held'[API].status = held[API].status
          /\ session'[q].op = "sync" /\ kind = "hunt"
      BY <3>3 DEF DecideStep
    <3>5. Terminal(held[API].status)'
      BY <1>2, <3>3, <3>4 DEF Terminal
    <3>6. Late(session[q])'
      BY <1>2, <3>4 DEF Late
    <3>7. \A t \in Requests \ {q} : session'[t].turn > session'[r].turn => Late(session[t])'
      BY <1>2, <1>3, <3>1, <3>3 DEF Late
    <3>8. QED
      BY <3>4, <3>5, <3>6, <3>7
  <2>3. QED
    BY <2>1, <2>2
<1>9. ClosedIsLast'
  <2> SUFFICES ASSUME NEW i \in DOMAIN log, log[i].turn > 0, Terminal(log[i].status)
               PROVE  /\ \/ held'[API] = None \/ Terminal(held[API].status)'
                         \/ held'[API].id # row.id
                      /\ \A r \in Requests : session'[r].turn > log[i].turn
                                                => Late(session[r])' \/ Dead(session[r])'
    BY <1>2 DEF ClosedIsLast, Terminal
  <2>1. row # None
    BY DEF LifecyclesInv, TellsRow
  <2>2. /\ held[API] = None \/ Terminal(held[API].status) \/ held[API].id # row.id
        /\ \A r \in Requests :
              session[r].turn > log[i].turn => Late(session[r]) \/ Dead(session[r])
    BY <1>1 DEF ClosedIsLast
  <2>3. \A r \in Requests \ {q} :
           session'[r].turn > log[i].turn => Late(session[r])' \/ Dead(session[r])'
    BY <1>2, <1>3, <2>2 DEF Late, Dead
  <2>4. CASE held[API] = None
    <3>1. held'[API].id = FreshId /\ session'[q].pc = "insert"
      BY <2>4 DEF DecideStep
    <3>2. row.id \in IdsInUse
      BY <2>1 DEF IdsInUse
    <3>3. held'[API].id # row.id
      BY <3>1, <3>2, FreshIdFact
    <3>4. Dead(session[q])'
      BY <3>1 DEF Dead
    <3>5. QED
      BY <2>3, <3>3, <3>4
  <2>5. CASE held[API] # None /\ held[API].id # row.id
    <3>1. /\ held'[API].id = held[API].id /\ session'[q].pc = "load"
          /\ session'[q].id = held[API].id
      BY <2>5 DEF DecideStep
    <3>2. Dead(session[q])'
      BY <1>2, <2>5, <3>1 DEF Dead
    <3>3. QED
      BY <2>3, <2>5, <3>1, <3>2
  <2>6. CASE held[API] # None /\ Terminal(held[API].status)
    <3>1. /\ held'[API].status = held[API].status /\ session'[q].op = "sync"
          /\ kind = "hunt"
      BY <2>6 DEF DecideStep
    <3>2. Terminal(held[API].status)'
      BY <1>2, <2>6, <3>1 DEF Terminal
    <3>3. Late(session[q])'
      BY <1>2, <3>1 DEF Late
    <3>4. QED
      BY <2>3, <3>2, <3>3
  <2>7. QED
    BY <2>2, <2>4, <2>5, <2>6
<1>10. ClosedIsTheLastDecision'
  BY <1>1, <1>2 DEF ClosedIsTheLastDecision, Terminal
<1>11. QED
  BY <1>6, <1>7, <1>8, <1>9, <1>10 DEF Decisions

-----------------------------------------------------------------------------
(* Steps that load and record.                                              *)

\* A session that has found the row by its id goes on to write it.
LoadStep(s) ==
    /\ UNCHANGED <<kind, row, version, log, held>>
    /\ row # None /\ row.id = session[s].id
    /\ session[s].pc = "load" /\ session'[s].pc = "commit"
    /\ session'[s].turn = session[s].turn /\ session'[s].op = session[s].op
    /\ session'[s].to = session[s].to /\ session'[s].id = session[s].id
    /\ \A t \in Sessions \ {s} : session'[t] = session[t]

LEMMA LoadLoads ==
  ASSUME LifecyclesInv, NEW s \in Sessions, LoadRow(s), IsSaved(session[s].id)
  PROVE  LoadStep(s)
<1> DEFINE q == [session[s] EXCEPT !.pc = "commit", !.base = version,
                                   !.facts = held[Process(s)].facts]
<1>1. session[s] \in Session
  BY DEF LifecyclesInv, Typed, LifecyclesTypeOK
<1>2. /\ q.pc = "commit" /\ q.turn = session[s].turn /\ q.op = session[s].op
      /\ q.to = session[s].to /\ q.id = session[s].id
  BY <1>1 DEF Session
<1>3. Assigned(s, q)
  BY DEF LoadRow, Assigned, LifecyclesInv, Typed, LifecyclesTypeOK
<1> HIDE DEF q
<1>4. session'[s] = q /\ \A t \in Sessions \ {s} : session'[t] = session[t]
  BY <1>3 DEF Assigned, LifecyclesInv, Typed, LifecyclesTypeOK
<1>5. QED
  BY <1>2, <1>4 DEF LoadStep, LoadRow, OnlySession, IsSaved, At

LEMMA LoadKeepsRow ==
  ASSUME LifecyclesInv, NEW s \in Sessions, LoadStep(s)
  PROVE  Commits' /\ TellsRow' /\ Recorded'
<1>1. Requests \subseteq Sessions
  BY DEF Sessions
<1>2. Commits'
  BY DEF LifecyclesInv, Commits, At, LoadStep
<1>3. TellsRow'
  BY DEF LifecyclesInv, TellsRow, LoadStep
<1>4. Recorded'
  <2> SUFFICES ASSUME NEW r \in Requests, session'[r].base > 0,
                      session'[r].pc \notin {"commit", "failed"}
               PROVE  \E i \in DOMAIN log' : log'[i].by = r
    BY DEF Recorded
  <2>1. session'[r] = session[r]
    BY <1>1 DEF LoadStep
  <2>2. QED
    BY <2>1 DEF LifecyclesInv, Recorded, LoadStep
<1>5. QED
  BY <1>2, <1>3, <1>4

\* Turns, operations and targets are kept by a step that loads or records.
Keeps ==
    \A s \in Sessions : /\ session'[s].turn = session[s].turn
                        /\ session'[s].op = session[s].op
                        /\ session'[s].to = session[s].to
                        /\ session'[s].pc \notin {"seek", "keep"} \/ session'[s] = session[s]
                        /\ s \in Requests => session'[s].pc \notin {"idle", "insert"}
                                                \/ session'[s] = session[s]

LEMMA KeepsTurns ==
  ASSUME Turns, Keeps
  PROVE  Turns'
<1>1. Requests \subseteq Sessions /\ Workers \subseteq Sessions
  BY DEF Sessions
<1>2. Askers' = Askers
  BY <1>1 DEF Keeps, Askers
<1>3. Idle' = Idle
  BY DEF Idle
<1>4. \A w \in Workers : session'[w].turn = 0 /\ session'[w].op # "move"
  BY <1>1 DEF Keeps, Turns
<1>5. \A s \in Sessions : session'[s].pc \notin {"seek", "keep"}
  BY DEF Keeps, Turns
<1>6. \A q \in Requests : /\ session'[q].pc = "idle" => session'[q] = Idle
                          /\ session'[q].pc = "insert" => session'[q].op = "create"
  BY <1>1 DEF Keeps, Turns
<1>7. \A q \in Requests : session'[q].turn <= Cardinality(Askers')
  BY <1>1, <1>2 DEF Keeps, Turns
<1>8. \A q, r \in Requests :
         session'[q].turn > 0 /\ session'[q].turn = session'[r].turn => q = r
  BY <1>1 DEF Keeps, Turns
<1>9. QED
  BY <1>3, <1>4, <1>5, <1>6, <1>7, <1>8 DEF Turns

LEMMA LoadKeepsDecisions ==
  ASSUME LifecyclesInv, kind # "decision", NEW s \in Sessions, LoadStep(s)
  PROVE  Decisions'
<1>1. Typed /\ Turns /\ Entries /\ ClosingIsLast /\ ClosedIsLast /\ ClosedIsTheLastDecision
  BY DEF LifecyclesInv, Decisions
<1>2. UNCHANGED <<kind, row, version, log, held>>
  BY DEF LoadStep
<1>3. Requests \subseteq Sessions
  BY DEF Sessions
<1>4. Keeps
  BY DEF LoadStep, Keeps
<1>5. Turns'
  BY <1>1, <1>4, KeepsTurns
<1>6. Entries'
  BY <1>1, <1>2, <1>3, <1>4 DEF Entries, Wrote, Terminal, Keeps
<1>7. \A q \in Requests : Closing(session[q])' => Closing(session[q])
  BY <1>2, <1>3 DEF LoadStep, Closing, Terminal
<1>8. ClosingIsLast'
  <2> SUFFICES ASSUME NEW q \in Requests, Closing(session[q])'
               PROVE  /\ held[API] # None /\ Terminal(held[API].status)'
                      /\ \A r \in Requests : session'[r].turn > session'[q].turn
                                                => Late(session[r])'
    BY <1>2 DEF ClosingIsLast
  <2>1. Closing(session[q])
    BY <1>7
  <2>2. QED
    BY <1>1, <1>2, <1>3, <1>4, <2>1 DEF ClosingIsLast, Terminal, Late, Keeps
<1>9. ClosedIsLast'
  <2> SUFFICES ASSUME NEW i \in DOMAIN log, log[i].turn > 0, Terminal(log[i].status)
               PROVE  /\ \/ held[API] = None \/ Terminal(held[API].status)'
                         \/ held[API].id # row.id
                      /\ \A r \in Requests : session'[r].turn > log[i].turn
                                                => Late(session[r])' \/ Dead(session[r])'
    BY <1>2 DEF ClosedIsLast, Terminal
  <2>1. /\ held[API] = None \/ Terminal(held[API].status) \/ held[API].id # row.id
        /\ \A r \in Requests :
              session[r].turn > log[i].turn => Late(session[r]) \/ Dead(session[r])
    BY <1>1 DEF ClosedIsLast
  <2>2. ASSUME NEW r \in Requests, session'[r].turn > log[i].turn
        PROVE  Late(session[r])' \/ Dead(session[r])'
    <3>1. session[r].turn > log[i].turn
      BY <1>3, <1>4, <2>2 DEF Keeps
    <3>2. Late(session[r]) \/ Dead(session[r])
      BY <2>1, <3>1
    <3>3. CASE r = s
      <4>1. ~Dead(session[r])
        BY <3>3 DEF LoadStep, Dead
      <4>2. QED
        BY <1>2, <1>3, <1>4, <3>2, <4>1 DEF Late, Keeps
    <3>4. CASE r # s
      <4>1. session'[r] = session[r]
        BY <1>3, <3>4 DEF LoadStep
      <4>2. QED
        BY <1>2, <3>2, <4>1 DEF Late, Dead
    <3>5. QED
      BY <3>3, <3>4
  <2>3. QED
    BY <1>2, <2>1, <2>2 DEF Terminal
<1>10. ClosedIsTheLastDecision'
  BY <1>1, <1>2 DEF ClosedIsTheLastDecision, Terminal
<1>11. QED
  BY <1>5, <1>6, <1>8, <1>9, <1>10 DEF Decisions

\* The row is written, by an UPDATE or an INSERT, and an entry is appended.
RecordStep(s, status) ==
    /\ kind' = kind /\ held' = held
    /\ log' = Append(log, [status |-> status, by |-> s, turn |-> session[s].turn])
    /\ version' = version + 1
    /\ row' # None
    /\ session'[s].pc \in {"hypotheses", "idle", "done", "look"}
    /\ s \in Requests => session'[s].pc # "idle"
    /\ session'[s].turn = session[s].turn /\ session'[s].op = session[s].op
    /\ session'[s].to = session[s].to /\ session'[s].id = session[s].id
    /\ \A t \in Sessions \ {s} : session'[t] = session[t]
    /\ \/ /\ session[s].pc = "commit" /\ row # None /\ row'.id = row.id
          /\ IF session[s].op = "move" THEN status = session[s].to /\ row'.status = status
             ELSE status = "UPDATED" /\ row'.status = row.status
       \/ /\ session[s].pc = "insert" /\ row = None
          /\ status = FirstStatus /\ row'.status = status

LEMMA Recording ==
  ASSUME LifecyclesInv, NEW s \in Sessions, NEW pc, Goes(s, pc)
  PROVE  /\ session'[s].pc = pc
         /\ session'[s].turn = session[s].turn /\ session'[s].op = session[s].op
         /\ session'[s].to = session[s].to /\ session'[s].id = session[s].id
         /\ \A t \in Sessions \ {s} : session'[t] = session[t]
<1> DEFINE q == [session[s] EXCEPT !.pc = pc]
<1>1. /\ q.pc = pc /\ q.turn = session[s].turn /\ q.op = session[s].op
      /\ q.to = session[s].to /\ q.id = session[s].id
  BY PcFields
<1>2. Assigned(s, q)
  BY DEF Goes, Assigned, LifecyclesInv, Typed, LifecyclesTypeOK
<1> HIDE DEF q
<1>3. session'[s] = q /\ \A t \in Sessions \ {s} : session'[t] = session[t]
  BY <1>2 DEF Assigned, LifecyclesInv, Typed, LifecyclesTypeOK
<1>4. QED
  BY <1>1, <1>3

LEMMA WriteRecords ==
  ASSUME LifecyclesInv, NEW s \in Sessions, WriteRow(s)
  PROVE  \E status : RecordStep(s, status)
<1> DEFINE status == IF session[s].op = "move" THEN session[s].to ELSE "UPDATED"
<1>1. row # None /\ session[s].pc = "commit"
  BY DEF WriteRow, LifecyclesInv, Commits, At
<1>2. session[s] \in Session /\ Typed
  BY DEF LifecyclesInv, Typed, LifecyclesTypeOK
<1>3. session[s].to \in Statuses /\ session[s].facts \in 0..1
  BY <1>2 DEF Session
<1>4. /\ session'[s].pc = Settled(s)
      /\ session'[s].turn = session[s].turn /\ session'[s].op = session[s].op
      /\ session'[s].to = session[s].to /\ session'[s].id = session[s].id
      /\ \A t \in Sessions \ {s} : session'[t] = session[t]
  BY Recording DEF WriteRow
<1>5. /\ Settled(s) \in {"hypotheses", "idle", "done", "look"}
      /\ s \in Requests => Settled(s) # "idle"
  BY WhereTo
<1>6. /\ log' = Append(log, [status |-> status, by |-> s, turn |-> session[s].turn])
      /\ version' = version + 1 /\ kind' = kind /\ held' = held
  BY DEF WriteRow, Logged, OnlyRow
<1>7. /\ row' \in Row /\ row'.id = row.id
      /\ IF session[s].op = "move" THEN row'.status = session[s].to
         ELSE row'.status = row.status
  <2>1. CASE session[s].op = "move"
    <3>1. row' = [row EXCEPT !.status = session[s].to]
      BY <2>1 DEF WriteRow
    <3>2. QED
      BY <1>1, <1>2, <1>3, <2>1, <3>1, RowFields
  <2>2. CASE session[s].op # "move"
    <3>1. row' = [row EXCEPT !.facts = session[s].facts]
      BY <2>2 DEF WriteRow
    <3>2. QED
      BY <1>1, <1>2, <1>3, <2>2, <3>1, RowFields
  <2>3. QED
    BY <2>1, <2>2
<1>8. row' # None
  BY <1>7, NoneAssumption
<1>9. IF session[s].op = "move" THEN status = session[s].to ELSE status = "UPDATED"
  OBVIOUS
<1> HIDE DEF status
<1>10. RecordStep(s, status)
  BY <1>1, <1>4, <1>5, <1>6, <1>7, <1>8, <1>9 DEF RecordStep
<1>11. QED
  BY <1>10

LEMMA InsertRecords ==
  ASSUME LifecyclesInv, NEW s \in Sessions, InsertRow(s)
  PROVE  \E status : RecordStep(s, status)
<1>1. row = None /\ session[s].pc = "insert"
  BY DEF InsertRow, At
<1>2. version = 0 /\ version' = version + 1
  BY <1>1 DEF InsertRow, LifecyclesInv, TellsRow
<1>3. session[s] \in Session
  BY DEF LifecyclesInv, Typed, LifecyclesTypeOK
<1>4. session[s].id \in Nat /\ session[s].facts \in 0..1
  BY <1>3 DEF Session
<1>5. row' \in Row /\ row'.status = FirstStatus
  BY <1>4, FirstStatusFact DEF InsertRow, Row
<1>6. row' # None
  BY <1>5, NoneAssumption
<1>7. /\ session'[s].pc = Synced(s)
      /\ session'[s].turn = session[s].turn /\ session'[s].op = session[s].op
      /\ session'[s].to = session[s].to /\ session'[s].id = session[s].id
      /\ \A t \in Sessions \ {s} : session'[t] = session[t]
  BY Recording DEF InsertRow
<1>8. /\ Synced(s) \in {"hypotheses", "idle", "done"}
      /\ s \in Requests => Synced(s) # "idle"
  BY WhereTo
<1>9. /\ log' = Append(log, [status |-> FirstStatus, by |-> s, turn |-> session[s].turn])
      /\ kind' = kind /\ held' = held
  BY DEF InsertRow, Logged, OnlyRow
<1>10. RecordStep(s, FirstStatus)
  BY <1>1, <1>2, <1>5, <1>6, <1>7, <1>8, <1>9 DEF RecordStep
<1>11. QED
  BY <1>10

\* The old entries stay and the new one is the last.
LEMMA Appended ==
  ASSUME LifecyclesInv, NEW s \in Sessions, NEW status, RecordStep(s, status)
  PROVE  /\ Len(log) \in Nat /\ Len(log') = Len(log) + 1
         /\ DOMAIN log = 1..Len(log) /\ DOMAIN log' = 1..(Len(log) + 1)
         /\ \A i \in DOMAIN log : i \in DOMAIN log' /\ log'[i] = log[i]
         /\ \A i \in DOMAIN log' : i \in DOMAIN log \/ i = Len(log) + 1
         /\ log'[Len(log) + 1] = [status |-> status, by |-> s, turn |-> session[s].turn]
<1>1. log \in Seq(Entry)
  BY DEF LifecyclesInv, Typed, LifecyclesTypeOK
<1>2. log' = Append(log, [status |-> status, by |-> s, turn |-> session[s].turn])
  BY DEF RecordStep
<1>3. Len(log) \in Nat /\ DOMAIN log = 1..Len(log)
  BY <1>1
<1>4. \A e : /\ Len(Append(log, e)) = Len(log) + 1
             /\ DOMAIN Append(log, e) = 1..(Len(log) + 1)
             /\ Append(log, e)[Len(log) + 1] = e
             /\ \A i \in 1..Len(log) : Append(log, e)[i] = log[i]
  BY <1>1, <1>3
<1>5. QED
  BY <1>2, <1>3, <1>4

LEMMA RecordKeepsRow ==
  ASSUME LifecyclesInv, NEW s \in Sessions, NEW status, RecordStep(s, status)
  PROVE  Commits' /\ TellsRow' /\ Recorded'
<1> DEFINE n == Len(log) + 1
<1>1. /\ Len(log) \in Nat /\ Len(log') = n
      /\ DOMAIN log = 1..Len(log) /\ DOMAIN log' = 1..n
      /\ \A i \in DOMAIN log : i \in DOMAIN log' /\ log'[i] = log[i]
      /\ \A i \in DOMAIN log' : i \in DOMAIN log \/ i = n
      /\ log'[n] = [status |-> status, by |-> s, turn |-> session[s].turn]
  BY Appended
<1>2. log'[n].status = status /\ log'[n].by = s /\ n \in DOMAIN log' /\ n \in Nat
  BY <1>1
<1> HIDE DEF n
<1>3. Requests \subseteq Sessions
  BY DEF Sessions
<1>4. Commits'
  BY DEF Commits, RecordStep
<1>5. TellsRow'
  <2>1. Len(log) = version
    <3>1. CASE row = None
      BY <3>1 DEF LifecyclesInv, TellsRow
    <3>2. CASE row # None
      BY <3>2 DEF LifecyclesInv, TellsRow
    <3>3. QED
      BY <3>1, <3>2
  <2>2. Len(log') = version'
    BY <1>1, <2>1 DEF RecordStep, n
  <2>3. \E i \in DOMAIN log' : /\ log'[i].status = row'.status
                              /\ \A j \in (i + 1)..Len(log') : log'[j].status = "UPDATED"
    <3>1. CASE row'.status = status
      <4>1. \A j \in (n + 1)..Len(log') : FALSE
        BY <1>1, <1>2
      <4>2. QED
        BY <1>2, <3>1, <4>1
    <3>2. CASE row'.status = row.status /\ status = "UPDATED" /\ row # None
      <4>1. PICK i \in DOMAIN log :
               /\ log[i].status = row.status
               /\ \A j \in (i + 1)..Len(log) : log[j].status = "UPDATED"
        BY <3>2 DEF LifecyclesInv, TellsRow
      <4>2. ASSUME NEW j \in (i + 1)..Len(log')
            PROVE  log'[j].status = "UPDATED"
        <5>1. (j \in (i + 1)..Len(log) /\ j \in DOMAIN log) \/ j = n
          BY <1>1, <4>1 DEF n
        <5>2. QED
          BY <1>1, <1>2, <3>2, <4>1, <5>1
      <4>3. i \in DOMAIN log' /\ log'[i].status = row'.status
        BY <1>1, <3>2, <4>1
      <4>4. QED
        BY <4>2, <4>3
    <3>3. QED
      BY <3>1, <3>2 DEF RecordStep
  <2>4. row' # None
    BY DEF RecordStep
  <2>5. QED
    BY <2>2, <2>3, <2>4 DEF TellsRow
<1>6. Recorded'
  <2> SUFFICES ASSUME NEW r \in Requests, session'[r].base > 0,
                      session'[r].pc \notin {"commit", "failed"}
               PROVE  \E i \in DOMAIN log' : log'[i].by = r
    BY DEF Recorded
  <2>1. CASE r = s
    BY <1>2, <2>1
  <2>2. CASE r # s
    <3>1. session'[r] = session[r]
      BY <1>3, <2>2 DEF RecordStep
    <3>2. PICK i \in DOMAIN log : log[i].by = r
      BY <3>1 DEF LifecyclesInv, Recorded
    <3>3. QED
      BY <1>1, <3>2
  <2>3. QED
    BY <2>1, <2>2
<1>7. QED
  BY <1>4, <1>5, <1>6

LEMMA TurnTypes ==
  ASSUME Typed, NEW i \in DOMAIN log
  PROVE  log[i].turn \in Nat
<1>1. log \in Seq(Entry)
  BY DEF Typed, LifecyclesTypeOK
<1>2. log[i] \in Entry
  BY <1>1
<1>3. QED
  BY <1>2 DEF Entry

LEMMA RecordKeepsDecisions ==
  ASSUME LifecyclesInv, kind # "decision", NEW s \in Sessions, NEW status,
         RecordStep(s, status)
  PROVE  Decisions'
<1> DEFINE n == Len(log) + 1
<1>1. Typed /\ Turns /\ Entries /\ ClosingIsLast /\ ClosedIsLast /\ ClosedIsTheLastDecision
  BY DEF LifecyclesInv, Decisions
<1>2. /\ DOMAIN log = 1..Len(log)
      /\ \A i \in DOMAIN log : i \in DOMAIN log' /\ log'[i] = log[i]
      /\ \A i \in DOMAIN log' : i \in DOMAIN log \/ i = n
      /\ log'[n] = [status |-> status, by |-> s, turn |-> session[s].turn]
  BY Appended
<1>3. /\ log'[n].status = status /\ log'[n].by = s
      /\ log'[n].turn = session[s].turn
  BY <1>2
<1> HIDE DEF n
<1>4. Requests \subseteq Sessions /\ Sessions = Requests \cup Workers
  BY DEF Sessions
<1>5. kind' = kind /\ held' = held /\ \A st : Terminal(st)' <=> Terminal(st)
  BY DEF RecordStep, Terminal
<1>6. Keeps
  BY DEF RecordStep, Keeps
<1>7. session[s].turn > 0 => s \in Requests
  BY <1>1, <1>4 DEF Turns
<1>8. \A t \in Sessions : session[t].turn \in Nat
  BY <1>1 DEF Typed, LifecyclesTypeOK, Session
<1>9. Turns'
  BY <1>1, <1>6, KeepsTurns
<1>10. s \in Requests => Wrote(session[s], status)
  <2>1. ~Terminal("UPDATED") /\ ~Terminal(FirstStatus)
    BY FirstStatusFact
  <2>2. CASE session[s].pc = "commit"
    BY <2>1, <2>2 DEF RecordStep, Wrote
  <2>3. CASE session[s].pc = "insert" /\ s \in Requests
    <3>1. session[s].op = "create" /\ status = FirstStatus
      BY <1>1, <2>3 DEF Turns, RecordStep
    <3>2. QED
      BY <2>1, <3>1 DEF Wrote
  <2>4. QED
    BY <2>2, <2>3 DEF RecordStep
<1>11. Entries'
  <2> SUFFICES ASSUME NEW j \in DOMAIN log', log'[j].turn > 0
               PROVE  /\ log'[j].by \in Requests
                      /\ session'[log'[j].by].turn = log'[j].turn
                      /\ Wrote(session[log[j].by], log[j].status)'
    BY DEF Entries
  <2>1. CASE j = n
    <3>1. s \in Requests /\ log'[j].by = s /\ log'[j].status = status
          /\ log'[j].turn = session[s].turn
      BY <1>3, <1>7, <2>1
    <3>2. Wrote(session[s], status)
      BY <1>10, <3>1
    <3>3. QED
      BY <1>4, <1>5, <1>6, <3>1, <3>2 DEF Wrote, Keeps
  <2>2. CASE j \in DOMAIN log
    <3>1. log'[j] = log[j]
      BY <1>2, <2>2
    <3>2. /\ log[j].by \in Requests /\ session[log[j].by].turn = log[j].turn
          /\ Wrote(session[log[j].by], log[j].status)
      BY <1>1, <2>2, <3>1 DEF Entries
    <3>3. QED
      BY <1>4, <1>5, <1>6, <3>1, <3>2 DEF Wrote, Keeps
  <2>3. QED
    BY <1>2, <2>1, <2>2
<1>12. ClosingIsLast'
  <2> SUFFICES ASSUME NEW q \in Requests, Closing(session[q])'
               PROVE  /\ held[API] # None /\ Terminal(held[API].status)'
                      /\ \A r \in Requests : session'[r].turn > session'[q].turn
                                                => Late(session[r])'
    BY <1>5 DEF ClosingIsLast
  <2>1. session'[q] = session[q]
    <3>1. session'[q].pc \in {"load", "commit"}
      BY DEF Closing
    <3>2. QED
      BY <1>4, <3>1 DEF RecordStep
  <2>2. Closing(session[q])
    BY <1>5, <2>1 DEF Closing, Terminal
  <2>3. QED
    BY <1>1, <1>4, <1>5, <1>6, <2>2 DEF ClosingIsLast, Terminal, Late, Keeps
\* An entry that closes the record was on its way.
<1>13. ASSUME session[s].turn > 0, Terminal(status)
       PROVE  Closing(session[s]) /\ s \in Requests
  <2>1. s \in Requests
    BY <1>7, <1>13
  <2>2. ~Terminal("UPDATED") /\ ~Terminal(FirstStatus)
    BY FirstStatusFact
  <2>3. session[s].pc = "commit" /\ session[s].op = "move" /\ status = session[s].to
    BY <1>13, <2>2 DEF RecordStep
  <2>4. QED
    BY <1>13, <2>1, <2>3 DEF Closing
<1>14. ClosedIsLast'
  <2> SUFFICES ASSUME NEW i \in DOMAIN log', log'[i].turn > 0, Terminal(log'[i].status)
               PROVE  /\ \/ held[API] = None \/ Terminal(held[API].status)
                         \/ held[API].id # row'.id
                      /\ \A r \in Requests : session'[r].turn > log'[i].turn
                                                => Late(session[r])' \/ Dead(session[r])'
    BY <1>5 DEF ClosedIsLast
  <2>1. CASE i = n
    <3>1. Closing(session[s]) /\ s \in Requests /\ log'[i].turn = session[s].turn
      BY <1>3, <1>13, <2>1
    <3>2. /\ held[API] # None /\ Terminal(held[API].status)
          /\ \A r \in Requests : session[r].turn > session[s].turn => Late(session[r])
      BY <1>1, <3>1 DEF ClosingIsLast
    <3>3. QED
      BY <1>4, <1>5, <1>6, <3>1, <3>2 DEF Late, Keeps
  <2>2. CASE i \in DOMAIN log
    <3>1. log'[i] = log[i]
      BY <1>2, <2>2
    <3>2. /\ held[API] = None \/ Terminal(held[API].status) \/ held[API].id # row.id
          /\ \A r \in Requests :
                session[r].turn > log[i].turn => Late(session[r]) \/ Dead(session[r])
      BY <1>1, <2>2, <3>1 DEF ClosedIsLast
    <3>3. row # None
      BY <1>2, <2>2 DEF LifecyclesInv, TellsRow
    <3>4. session[s].pc = "commit" /\ row'.id = row.id
      BY <3>3 DEF RecordStep
    <3>5. ASSUME NEW r \in Requests, session'[r].turn > log[i].turn
          PROVE  Late(session[r])' \/ Dead(session[r])'
      <4>1. Late(session[r]) \/ Dead(session[r])
        BY <1>4, <1>6, <3>2, <3>5 DEF Keeps
      <4>2. CASE r = s
        BY <1>4, <1>5, <1>6, <3>4, <4>1, <4>2 DEF Late, Dead, Keeps
      <4>3. CASE r # s
        <5>1. session'[r] = session[r]
          BY <1>4, <4>3 DEF RecordStep
        <5>2. QED
          BY <1>5, <3>4, <4>1, <5>1 DEF Late, Dead
      <4>4. QED
        BY <4>2, <4>3
    <3>6. QED
      BY <3>1, <3>2, <3>4, <3>5
  <2>3. QED
    BY <1>2, <2>1, <2>2
<1>15. ClosedIsTheLastDecision'
  <2> SUFFICES ASSUME NEW i \in DOMAIN log', NEW j \in DOMAIN log',
                      log'[i].turn > 0, Terminal(log'[i].status),
                      log'[j].turn > log'[i].turn
               PROVE  kind = "hunt" /\ log'[j].status = "UPDATED"
    BY <1>5 DEF ClosedIsTheLastDecision
  <2>1. CASE i \in DOMAIN log /\ j \in DOMAIN log
    <3>1. log'[i] = log[i] /\ log'[j] = log[j]
      BY <1>2, <2>1
    <3>2. QED
      BY <1>1, <2>1, <3>1 DEF ClosedIsTheLastDecision
  <2>2. CASE i \in DOMAIN log /\ j = n
    <3>1. log'[i] = log[i] /\ log'[j].turn = session[s].turn /\ log'[j].status = status
      BY <1>2, <1>3, <2>2
    <3>2. log[i].turn \in Nat
      BY <1>1, <2>2, TurnTypes
    <3>3. session[s].turn > 0 /\ session[s].turn > log[i].turn
      BY <1>8, <3>1, <3>2
    <3>4. row # None
      BY <1>2, <2>2 DEF LifecyclesInv, TellsRow
    <3>5. session[s].pc = "commit" /\ s \in Requests
      BY <1>7, <3>3, <3>4 DEF RecordStep
    <3>6. Late(session[s])
      BY <1>1, <2>2, <3>1, <3>3, <3>5 DEF ClosedIsLast, Dead
    <3>7. QED
      BY <3>1, <3>4, <3>6 DEF Late, RecordStep
  <2>3. CASE i = n /\ j \in DOMAIN log
    <3>1. log'[j] = log[j] /\ log'[i].turn = session[s].turn /\ log'[i].status = status
      BY <1>2, <1>3, <2>3
    <3>2. Closing(session[s]) /\ s \in Requests
      BY <1>13, <3>1
    <3>3. log[j].turn \in Nat
      BY <1>1, <2>3, TurnTypes
    <3>4. log[j].turn > session[s].turn /\ log[j].turn > 0
      BY <1>8, <3>1, <3>3
    <3>5. /\ log[j].by \in Requests /\ session[log[j].by].turn = log[j].turn
          /\ Wrote(session[log[j].by], log[j].status)
      BY <1>1, <2>3, <3>4 DEF Entries
    <3>6. Late(session[log[j].by])
      BY <1>1, <3>2, <3>4, <3>5 DEF ClosingIsLast
    <3>7. QED
      BY <3>1, <3>5, <3>6 DEF Late, Wrote
  <2>4. CASE i = n /\ j = n
    BY <1>3, <1>8, <2>4
  <2>5. QED
    BY <1>2, <2>1, <2>2, <2>3, <2>4
<1>16. QED
  BY <1>9, <1>11, <1>12, <1>14, <1>15 DEF Decisions

-----------------------------------------------------------------------------
(* What the API shows.                                                      *)

\* A request that has decided keeps what it decided.
DecidedStays ==
    \A q \in Requests : session[q].turn > 0 =>
        /\ session'[q].turn = session[q].turn /\ session'[q].op = session[q].op
        /\ session'[q].to = session[q].to

LEMMA RequestTurns ==
  ASSUME Typed
  PROVE  \A q \in Requests : session[q].turn \in Nat
<1>1. Requests \subseteq Sessions
  BY DEF Sessions
<1>2. QED
  BY <1>1 DEF Typed, LifecyclesTypeOK, Session

LEMMA EntriesStay ==
  ASSUME Explained, DecidedStays, NEW j \in DOMAIN log, log'[j] = log[j]
  PROVE  (ByPass(j) \/ ByRequest(j))'
<1>1. CASE ByPass(j)
  BY <1>1 DEF ByPass
<1>2. CASE ByRequest(j)
  BY <1>2 DEF ByRequest, DecidedStays
<1>3. QED
  BY <1>1, <1>2 DEF Explained

\* Nothing is decided, and the dictionary keeps the record or loses it.
LEMMA FollowsStay ==
  ASSUME Typed, Follows, DecidedStays, \A q \in Requests : session'[q].turn = session[q].turn,
         held'[API] = held[API] \/ held'[API] = None,
         row # None => row' # None,
         log # <<>> => log' # <<>> /\ log'[1] = log[1]
  PROVE  Follows'
<1> SUFFICES ASSUME held'[API] # None
             PROVE  ShowsTheFirst' \/ \E q \in Requests : Shows(q)'
  BY DEF Follows
<1>1. \A q \in Requests : session[q].turn \in Nat
  BY RequestTurns
<1>2. held'[API] = held[API] /\ held[API] # None
  OBVIOUS
<1>3. CASE ShowsTheFirst
  <2>1. OnlySyncs(0)'
    BY <1>1, <1>3 DEF ShowsTheFirst, OnlySyncs, DecidedStays
  <2>2. QED
    BY <1>2, <1>3, <2>1 DEF ShowsTheFirst
<1>4. ASSUME NEW q \in Requests, Shows(q)
      PROVE  Shows(q)'
  <2>1. session'[q].turn = session[q].turn /\ session[q].turn > 0
    BY <1>4 DEF Shows
  <2>2. OnlySyncs(session[q].turn)'
    BY <1>1, <1>4, <2>1 DEF Shows, OnlySyncs, DecidedStays
  <2>3. QED
    BY <1>2, <1>4, <2>1, <2>2 DEF Shows, DecidedStays
<1>5. QED
  BY <1>2, <1>3, <1>4 DEF Follows

LEMMA AsideKeepsDrift ==
  ASSUME LifecyclesInv, AsideStep, kind # "decision"
  PROVE  DriftInv'
<1>1. Typed /\ Explained /\ (\A q \in Requests : OnItsWay(session[q])) /\ Follows
  BY DEF LifecyclesInv, DriftInv
<1>2. UNCHANGED <<kind, row, version, log>> /\ FirstStatus' = FirstStatus
  BY DEF AsideStep, FirstStatus
<1>3. \A q \in Requests :
         \/ session'[q] = session[q]
         \/ /\ session'[q].pc \notin {"idle", "load", "commit", "insert", "seek", "keep"}
            /\ session'[q].turn = session[q].turn
            /\ session[q].turn > 0 => /\ session'[q].op = session[q].op
                                      /\ session'[q].to = session[q].to
  BY DEF AsideStep, Aside
<1>4. DecidedStays /\ \A q \in Requests : session'[q].turn = session[q].turn
  BY <1>3 DEF DecidedStays
<1>5. Explained'
  BY <1>1, <1>2, <1>4, EntriesStay DEF Explained
<1>6. \A q \in Requests : OnItsWay(session[q])'
  BY <1>1, <1>2, <1>3 DEF OnItsWay
<1>7. held'[API] = held[API] \/ held'[API] = None
  BY DEF AsideStep
<1>8. Follows'
  BY <1>1, <1>2, <1>4, <1>7, FollowsStay
<1>9. QED
  BY <1>5, <1>6, <1>8 DEF DriftInv

LEMMA LoadKeepsDrift ==
  ASSUME LifecyclesInv, kind # "decision", NEW s \in Sessions, LoadStep(s)
  PROVE  DriftInv'
<1>1. Typed /\ Explained /\ (\A q \in Requests : OnItsWay(session[q])) /\ Follows
  BY DEF LifecyclesInv, DriftInv
<1>2. UNCHANGED <<kind, row, version, log, held>> /\ FirstStatus' = FirstStatus
  BY DEF LoadStep, FirstStatus
<1>3. Requests \subseteq Sessions
  BY DEF Sessions
<1>4. DecidedStays /\ \A q \in Requests : session'[q].turn = session[q].turn
  BY <1>3 DEF DecidedStays, LoadStep
<1>5. Explained'
  BY <1>1, <1>2, <1>4, EntriesStay DEF Explained
<1>6. \A q \in Requests : OnItsWay(session[q])'
  BY <1>1, <1>2, <1>3 DEF OnItsWay, LoadStep
<1>7. Follows'
  BY <1>1, <1>2, <1>4, FollowsStay
<1>8. QED
  BY <1>5, <1>6, <1>7 DEF DriftInv

LEMMA DecideKeepsDrift ==
  ASSUME LifecyclesInv, kind # "decision", NEW q \in Requests, DecideStep(q)
  PROVE  DriftInv'
<1>1. Typed /\ Explained /\ (\A r \in Requests : OnItsWay(session[r])) /\ Follows
  BY DEF LifecyclesInv, DriftInv
<1>2. UNCHANGED <<kind, row, version, log>> /\ FirstStatus' = FirstStatus
  BY DEF DecideStep, FirstStatus
<1>3. /\ session[q] = Idle /\ Idle.turn = 0
      /\ \A r \in Requests \ {q} : session'[r] = session[r]
      /\ \A r \in Requests : session[r].turn \in Nat /\ session[r].turn < NextTurn
      /\ NextTurn \in Nat
  BY NewTurn DEF Idle
<1>4. session'[q].turn = NextTurn /\ session'[q].pc \in {"insert", "load"}
  BY DEF DecideStep
<1>5. DecidedStays
  BY <1>3 DEF DecidedStays
<1>6. Explained'
  BY <1>1, <1>2, <1>5, EntriesStay DEF Explained
<1>7. \A r \in Requests : OnItsWay(session[r])'
  <2>1. OnItsWay(session[q])'
    BY <1>2, <1>3, <1>4 DEF OnItsWay, DecideStep
  <2>2. \A r \in Requests \ {q} : OnItsWay(session[r])'
    BY <1>1, <1>2, <1>3 DEF OnItsWay
  <2>3. QED
    BY <2>1, <2>2
<1>8. CASE session'[q].op \in {"create", "move"}
  <2>1. session'[q].turn > 0 /\ held'[API].status = session'[q].to
    BY <1>3, <1>4, <1>8 DEF DecideStep
  <2>2. \A r \in Requests : ~(session'[r].turn > session'[q].turn)
    BY <1>3, <1>4
  <2>3. Shows(q)'
    BY <1>8, <2>1, <2>2 DEF Shows, OnlySyncs
  <2>4. QED
    BY <1>6, <1>7, <2>3 DEF DriftInv, Follows
<1>9. CASE session'[q].op \notin {"create", "move"}
  <2>1. /\ session'[q].op = "sync" /\ held[API] # None
        /\ held'[API].status = held[API].status
    BY <1>9 DEF DecideStep
  <2>2. ASSUME NEW t \in Nat, OnlySyncs(t)
        PROVE  \A r \in Requests : session'[r].turn > t => session'[r].op = "sync"
    BY <1>3, <2>1, <2>2 DEF OnlySyncs
  <2>3. CASE ShowsTheFirst
    <3>1. \A r \in Requests : session'[r].turn > 0 => session'[r].op = "sync"
      BY <2>2, <2>3 DEF ShowsTheFirst
    <3>2. ShowsTheFirst'
      BY <1>2, <2>1, <2>3, <3>1 DEF ShowsTheFirst, OnlySyncs
    <3>3. QED
      BY <1>6, <1>7, <3>2 DEF DriftInv, Follows
  <2>4. ASSUME NEW r \in Requests, Shows(r)
        PROVE  DriftInv'
    <3>1. r # q /\ session'[r] = session[r] /\ session[r].turn \in Nat
      BY <1>3, <2>4 DEF Shows
    <3>2. \A t \in Requests : session'[t].turn > session'[r].turn => session'[t].op = "sync"
      BY <2>2, <2>4, <3>1 DEF Shows
    <3>3. Shows(r)'
      BY <2>1, <2>4, <3>1, <3>2 DEF Shows, OnlySyncs
    <3>4. QED
      BY <1>6, <1>7, <3>3 DEF DriftInv, Follows
  <2>5. QED
    BY <1>1, <2>1, <2>3, <2>4 DEF Follows
<1>10. QED
  BY <1>8, <1>9

LEMMA RecordKeepsDrift ==
  ASSUME LifecyclesInv, kind # "decision", NEW s \in Sessions, NEW status,
         RecordStep(s, status)
  PROVE  DriftInv'
<1>1. Typed /\ Explained /\ (\A q \in Requests : OnItsWay(session[q])) /\ Follows
  BY DEF LifecyclesInv, DriftInv
<1>2. kind' = kind /\ held' = held /\ row' # None /\ FirstStatus' = FirstStatus
  BY DEF RecordStep, FirstStatus
<1>3. Requests \subseteq Sessions /\ Workers \subseteq Sessions
      /\ (s \in Requests \/ s \in Workers) /\ (s \in Workers => s \notin Requests)
  BY LifecyclesAssumption DEF Sessions
<1>4. DecidedStays /\ \A q \in Requests : session'[q].turn = session[q].turn
  BY <1>3 DEF DecidedStays, RecordStep
<1>5. PICK n \in Nat :
         /\ n = Len(log) + 1
         /\ \A i \in DOMAIN log : i \in DOMAIN log' /\ log'[i] = log[i]
         /\ \A i \in DOMAIN log' : i \in DOMAIN log \/ i = n
         /\ log'[n] = [status |-> status, by |-> s, turn |-> session[s].turn]
  BY Appended
<1>6. row = None => n = 1
  <2>1. row = None => log = <<>>
    BY DEF LifecyclesInv, TellsRow
  <2>2. QED
    BY <1>5, <2>1
<1>7. log # <<>> => log' # <<>> /\ log'[1] = log[1]
  <2>1. log \in Seq(Entry)
    BY <1>1 DEF Typed, LifecyclesTypeOK
  <2>2. log # <<>> => 1 \in DOMAIN log
    BY <2>1
  <2>3. 1 \in DOMAIN log' => log' # <<>>
    OBVIOUS
  <2>4. QED
    BY <1>5, <2>2, <2>3
<1>8. ByPass(n)' \/ ByRequest(n)'
  <2>1. CASE s \in Workers
    <3>1. session[s].turn = 0 /\ session[s].op # "move"
      BY <2>1, WorkerTurns
    <3>2. n = 1 \/ status = "UPDATED"
      BY <1>6, <3>1 DEF RecordStep
    <3>3. QED
      BY <1>3, <1>5, <2>1, <3>1, <3>2 DEF ByPass
  <2>2. CASE s \in Requests
    <3>1. OnItsWay(session[s]) /\ session[s].pc \in {"insert", "commit"}
      BY <1>1, <2>2 DEF RecordStep
    <3>2. /\ session'[s].turn = session[s].turn /\ session[s].turn > 0
          /\ session'[s].op = session[s].op /\ session'[s].to = session[s].to
      BY <3>1 DEF OnItsWay, RecordStep
    <3>3. status = IF session[s].op = "sync" THEN "UPDATED" ELSE session[s].to
      BY <3>1 DEF OnItsWay, RecordStep
    <3>4. QED
      BY <1>5, <2>2, <3>2, <3>3 DEF ByRequest
  <2>3. QED
    BY <1>3, <2>1, <2>2
<1>9. \A j \in DOMAIN log : (ByPass(j) \/ ByRequest(j))'
  BY <1>1, <1>4, <1>5, EntriesStay
<1>10. Explained'
  BY <1>5, <1>8, <1>9 DEF Explained
<1>11. \A q \in Requests : OnItsWay(session[q])'
  <2>1. \A q \in Requests : session'[q] = session[q] \/
           session'[q].pc \in {"hypotheses", "idle", "done", "look"}
    BY <1>3 DEF RecordStep
  <2>2. QED
    BY <1>1, <1>2, <2>1 DEF OnItsWay
<1>12. Follows'
  BY <1>1, <1>2, <1>4, <1>7, FollowsStay
<1>13. QED
  BY <1>10, <1>11, <1>12 DEF DriftInv

-----------------------------------------------------------------------------
(* The theorems.                                                            *)

LEMMA InitInv == LifecyclesInit => LifecyclesInv
<1> SUFFICES ASSUME LifecyclesInit
             PROVE  LifecyclesInv
  OBVIOUS
<1>1. Typed
  BY InitTyped
<1>2. \A s \in Sessions : session[s] = Idle
  BY DEF LifecyclesInit
<1>3. Requests \subseteq Sessions /\ Workers \subseteq Sessions
  BY DEF Sessions
<1>4. Idle.pc = "idle" /\ Idle.turn = 0 /\ Idle.base = 0 /\ Idle.op # "move"
  BY DEF Idle
<1>5. Commits
  BY <1>2, <1>4 DEF Commits, At
<1>6. \/ row = None /\ version = 0 /\ log = <<>>
      \/ /\ row # None /\ version = 1
         /\ log = <<[status |-> row.status, by |-> None, turn |-> 0]>>
  <2>1. row \in {[id |-> 0, status |-> st, facts |-> 0] : st \in StatusesOf}
                  => row \in Row \cup {None} /\ row # None
    <3>1. row \in Row \cup {None}
      BY <1>1 DEF Typed, LifecyclesTypeOK
    <3>2. row \in {[id |-> 0, status |-> st, facts |-> 0] : st \in StatusesOf} => row # None
      <4> SUFFICES ASSUME NEW st \in StatusesOf, row = [id |-> 0, status |-> st, facts |-> 0]
                   PROVE  row # None
        OBVIOUS
      <4>1. st \in Statuses
        <5>1. kind \in {"hunt", "exercise", "posture", "program", "decision"}
          BY LifecyclesAssumption DEF LifecyclesInit
        <5>2. QED
          BY <5>1 DEF StatusesOf, Statuses
      <4>2. row \in Row
        BY <4>1 DEF Row
      <4>3. QED
        BY <4>2, NoneAssumption
    <3>3. QED
      BY <3>1, <3>2
  <2>2. QED
    BY <2>1 DEF LifecyclesInit
<1>7. DOMAIN log \subseteq {1} /\ \A i \in DOMAIN log : log[i].turn = 0
  BY <1>6
<1>8. TellsRow
  <2>1. CASE row = None /\ version = 0 /\ log = <<>>
    BY <2>1 DEF TellsRow
  <2>2. CASE /\ row # None /\ version = 1
             /\ log = <<[status |-> row.status, by |-> None, turn |-> 0]>>
    <3>1. Len(log) = 1 /\ DOMAIN log = {1} /\ log[1].status = row.status
      BY <2>2
    <3>2. \A j \in (1 + 1)..Len(log) : FALSE
      BY <3>1
    <3>3. QED
      BY <2>2, <3>1, <3>2 DEF TellsRow
  <2>3. QED
    BY <1>6, <2>1, <2>2
<1>9. Recorded
  BY <1>2, <1>3, <1>4 DEF Recorded
<1>10. Askers = {}
  BY <1>2, <1>3, <1>4 DEF Askers
<1>11. Turns
  <2>1. Cardinality(Askers) \in Nat
    BY NextTurnFact
  <2>2. QED
    BY <1>2, <1>3, <1>4, <2>1 DEF Turns
<1>12. Entries /\ ClosedIsLast /\ ClosedIsTheLastDecision
  BY <1>7 DEF Entries, ClosedIsLast, ClosedIsTheLastDecision
<1>13. ClosingIsLast
  BY <1>2, <1>3, <1>4 DEF ClosingIsLast, Closing
<1>14. Explained
  <2>1. \A j \in DOMAIN log : j = 1 /\ log[j].by = None /\ log[j].turn = 0
    BY <1>6
  <2>2. None \notin Requests
    BY LifecyclesAssumption DEF Sessions
  <2>3. QED
    BY <2>1, <2>2 DEF Explained, ByPass
<1>15. \A q \in Requests : OnItsWay(session[q])
  BY <1>2, <1>3, <1>4 DEF OnItsWay
<1>16. Follows
  <2> SUFFICES ASSUME held[API] # None
               PROVE  ShowsTheFirst
    BY DEF Follows
  <2>1. OnlySyncs(0)
    BY <1>2, <1>3, <1>4 DEF OnlySyncs
  <2>2. row # None /\ held[API].status = row.status
    <3>1. API \in Processes
      BY DEF Processes
    <3>2. held[API] \in {None} \cup IF row = None THEN {} ELSE {Copy(TRUE), Copy(FALSE)}
      BY <3>1 DEF LifecyclesInit
    <3>3. \A b : Copy(b).status = row.status
      BY DEF Copy
    <3>4. QED
      BY <3>2, <3>3
  <2>3. log = <<[status |-> row.status, by |-> None, turn |-> 0]>>
    BY <1>6, <2>2
  <2>4. log # <<>> /\ log[1].status = row.status
    BY <2>3
  <2>5. QED
    BY <2>1, <2>2, <2>4 DEF ShowsTheFirst
<1>17. QED
  BY <1>1, <1>5, <1>8, <1>9, <1>11, <1>12, <1>13, <1>14, <1>15, <1>16
     DEF LifecyclesInv, Decisions, DriftInv

LEMMA AsideInv ==
  ASSUME LifecyclesInv, AsideStep, Typed'
  PROVE  LifecyclesInv'
<1>1. kind' = kind
  BY DEF AsideStep
<1>2. QED
  BY <1>1, AsideKeepsRow, AsideKeepsDecisions, AsideKeepsDrift DEF LifecyclesInv

LEMMA DecideInv ==
  ASSUME LifecyclesInv, NEW q \in Requests, DecideStep(q), Typed'
  PROVE  LifecyclesInv'
<1>1. kind' = kind
  BY DEF DecideStep
<1>2. QED
  BY <1>1, DecideKeepsRow, DecideKeepsDecisions, DecideKeepsDrift DEF LifecyclesInv

LEMMA LoadInv ==
  ASSUME LifecyclesInv, NEW s \in Sessions, LoadStep(s), Typed'
  PROVE  LifecyclesInv'
<1>1. kind' = kind
  BY DEF LoadStep
<1>2. QED
  BY <1>1, LoadKeepsRow, LoadKeepsDecisions, LoadKeepsDrift DEF LifecyclesInv

LEMMA RecordInv ==
  ASSUME LifecyclesInv, NEW s \in Sessions, NEW status, RecordStep(s, status), Typed'
  PROVE  LifecyclesInv'
<1>1. kind' = kind
  BY DEF RecordStep
<1>2. QED
  BY <1>1, RecordKeepsRow, RecordKeepsDecisions, RecordKeepsDrift DEF LifecyclesInv

LEMMA RequestSteps ==
  ASSUME LifecyclesInv, NEW q \in Requests,
         \/ PostHunt(q) \/ PostExercise(q) \/ PostPosture(q) \/ PostProgram(q)
         \/ PostDecision(q) \/ NotFound(q)
         \/ HuntEndpoints(q) \/ ExerciseEndpoints(q) \/ PostureEndpoints(q)
         \/ ProgramEndpoints(q) \/ DecisionEndpoints(q)
  PROVE  LifecyclesInv'
<1>1. Typed /\ q \in Sessions
  BY DEF LifecyclesInv, Sessions
<1>2. CASE \/ PostHunt(q) \/ PostExercise(q) \/ PostPosture(q) \/ PostProgram(q)
           \/ PostDecision(q)
  BY <1>1, <1>2, PostsTyped, PostsDecide, AsideInv, DecideInv
<1>3. CASE NotFound(q)
  BY <1>1, <1>3, GoingTyped, GoingAside, AsideInv
<1>4. CASE \/ HuntEndpoints(q) \/ ExerciseEndpoints(q) \/ PostureEndpoints(q)
           \/ ProgramEndpoints(q) \/ DecisionEndpoints(q)
  <2>1. PICK to \in Statuses, from, unless \in SUBSET Statuses,
             otherwise \in {"failed", "done"} :
               /\ Moves(q, to, from, unless, otherwise)
               /\ \A st \in from : ~Terminal(st)
    BY <1>4, EndpointsMove
  <2>2. held[API] # None
    BY <1>4, EndpointsMove
  <2>3. Typed'
    BY <1>1, <2>1, <2>2, MovesTyped
  <2>4. AsideStep \/ DecideStep(q)
    BY <2>1, <2>2, MovesDecide
  <2>5. QED
    BY <2>3, <2>4, AsideInv, DecideInv
<1>5. QED
  BY <1>2, <1>3, <1>4

LEMMA SessionSteps ==
  ASSUME LifecyclesInv, NEW s \in Sessions,
         \/ SeekDecision(s) \/ KeepDecision(s)
         \/ LoadRow(s) \/ WriteRow(s) \/ StaleWrite(s)
         \/ InsertRow(s) \/ InsertFails(s)
         \/ FetchFindings(s) \/ Judge(s) \/ InsertCheck(s) \/ LoadCheck(s) \/ UpdateCheck(s)
         \/ Refused(s)
  PROVE  LifecyclesInv'
<1>1. Typed /\ Commits
  BY DEF LifecyclesInv
<1>2. CASE SeekDecision(s) \/ KeepDecision(s)
  BY <1>1, <1>2, SeekTyped, SeekAside, AsideInv
<1>3. CASE LoadRow(s)
  <2>1. Typed'
    BY <1>1, <1>3, LoadTyped
  <2>2. QED
    BY <1>3, <2>1, GoingAside, AsideInv, LoadLoads, LoadInv
<1>4. CASE WriteRow(s) \/ InsertRow(s)
  BY <1>1, <1>4, WriteTyped, WriteRecords, InsertRecords, RecordInv
<1>5. CASE StaleWrite(s) \/ InsertFails(s) \/ FetchFindings(s) \/ LoadCheck(s)
  BY <1>1, <1>5, GoingTyped, GoingAside, AsideInv
<1>6. CASE Judge(s)
  BY <1>1, <1>6, JudgeTyped, JudgeAside, AsideInv
<1>7. CASE InsertCheck(s) \/ UpdateCheck(s)
  BY <1>1, <1>7, CheckStepsTyped, GoingAside, AsideInv
<1>8. CASE Refused(s)
  BY <1>1, <1>8, RefusedTyped, GoingAside, AsideInv
<1>9. QED
  BY <1>2, <1>3, <1>4, <1>5, <1>6, <1>7, <1>8

LEMMA WorkerSteps ==
  ASSUME LifecyclesInv, NEW w \in Workers,
         \/ ReadHypotheses(w) \/ CreateHypothesis(w)
         \/ BootstrapValidations(w) \/ BootstrapRecords(w)
         \/ HuntPass(w) \/ ExercisePass(w) \/ PosturePass(w) \/ ProgramPass(w)
         \/ DecisionPass(w)
  PROVE  LifecyclesInv'
<1>1. Typed /\ w \in Sessions
  BY DEF LifecyclesInv, Sessions
<1>2. CASE ReadHypotheses(w)
  BY <1>1, <1>2, GoingTyped, GoingAside, AsideInv
<1>3. CASE CreateHypothesis(w)
  BY <1>1, <1>3, HypothesisTyped, GoingAside, AsideInv
<1>4. CASE BootstrapValidations(w) \/ BootstrapRecords(w)
  BY <1>1, <1>4, BootstrapsTyped, BootstrapAside, AsideInv
<1>5. CASE \/ HuntPass(w) \/ ExercisePass(w) \/ PosturePass(w) \/ ProgramPass(w)
           \/ DecisionPass(w)
  BY <1>1, <1>5, PassesTyped, PassAside, AsideInv
<1>6. QED
  BY <1>2, <1>3, <1>4, <1>5

LEMMA NextInv ==
  ASSUME LifecyclesInv, [LifecyclesNext]_lifeVars
  PROVE  LifecyclesInv'
<1>1. Typed
  BY DEF LifecyclesInv
<1>2. CASE UNCHANGED lifeVars
  <2>1. Typed'
    BY <1>1, <1>2, StutterTyped
  <2>2. AsideStep
    BY <1>2, SameSessionsAside DEF lifeVars
  <2>3. QED
    BY <2>1, <2>2, AsideInv
<1>3. ASSUME NEW p \in Processes, Restart(p)
      PROVE  LifecyclesInv'
  BY <1>1, <1>3, RestartTyped, RestartAside, AsideInv
<1>4. CASE LifecyclesNext
  BY <1>3, <1>4, RequestSteps, SessionSteps, WorkerSteps DEF LifecyclesNext
<1>5. QED
  BY <1>2, <1>4

LEMMA InvHolds == LifecyclesSpec => []LifecyclesInv
<1>1. LifecyclesInit => LifecyclesInv
  BY InitInv
<1>2. LifecyclesInv /\ [LifecyclesNext]_lifeVars => LifecyclesInv'
  BY NextInv
<1>3. QED
  BY <1>1, <1>2, PTL DEF LifecyclesSpec

\* The variables keep their types, so that no id, version or turn is lost: the
\* services index dictionaries and rows by them.
THEOREM TypesAreKept == LifecyclesSpec => []LifecyclesTypeOK
<1>1. LifecyclesInv => LifecyclesTypeOK
  BY DEF LifecyclesInv, Typed
<1>2. QED
  BY <1>1, InvHolds, PTL

\* The history tells the row, and who was answered is in it (the transactions
\* of the five services), for any number of requests, workers and restarts.
THEOREM HistoryAlwaysTells == LifecyclesSpec => []HistoryTellsTheRow
<1>1. LifecyclesInv => HistoryTellsTheRow
  <2> SUFFICES ASSUME LifecyclesInv
               PROVE  HistoryTellsTheRow
    OBVIOUS
  <2>1. \A q \in Requests : At(q, "done") /\ session[q].base > 0 =>
           \E i \in DOMAIN log : log[i].by = q
    BY DEF LifecyclesInv, Recorded, At
  <2>2. QED
    BY <2>1 DEF LifecyclesInv, TellsRow, HistoryTellsTheRow
<1>2. QED
  BY <1>1, InvHolds, PTL

\* Nothing that was decided after a record was closed gets into its history,
\* but the facts of a hunt (the checks of the services before they change the
\* dictionary).
THEOREM ClosedIsAlwaysLast == LifecyclesSpec => []ClosedIsTheLastDecision
<1>1. LifecyclesInv => ClosedIsTheLastDecision
  BY DEF LifecyclesInv, Decisions, ClosedIsTheLastDecision
<1>2. QED
  BY <1>1, InvHolds, PTL

\* What the API shows is what the row says, or there is a reason (the services
\* change the dictionary before they look for the row): for any number of
\* requests, workers and restarts, and any id the dictionary has.
THEOREM DriftIsExplained == LifecyclesSpec => []DriftHasACause
<1>1. LifecyclesInv => DriftHasACause
  <2> SUFFICES ASSUME LifecyclesInv, kind # "decision", AllRecorded, InOrder, held[API] # None
               PROVE  row # None /\ held[API].status = row.status
    BY DEF DriftHasACause
  <2>1. Typed /\ TellsRow /\ Explained /\ Follows
    BY DEF LifecyclesInv, DriftInv
  <2>2. /\ log \in Seq(Entry) /\ row \in Row \cup {None} /\ session \in [Sessions -> Session]
        /\ Requests \subseteq Sessions
    BY <2>1 DEF Typed, LifecyclesTypeOK, Sessions
  <2>3. /\ Len(log) \in Nat /\ DOMAIN log = 1..Len(log)
        /\ \A q \in Requests : session[q].turn \in Nat
        /\ \A j \in DOMAIN log : log[j].turn \in Nat
    BY <2>1, <2>2, RequestTurns, TurnTypes
  \* The entry that decides: a later one only updates.
  <2>4. \E j \in DOMAIN log :
           /\ log[j].status = held[API].status
           /\ j = 1 \/ held[API].status # "UPDATED"
           /\ \A i \in DOMAIN log : i > j => log[i].status = "UPDATED"
    <3>1. CASE ShowsTheFirst
      <4>1. 1 \in DOMAIN log
        BY <2>2, <3>1 DEF ShowsTheFirst
      <4>2. \A i \in DOMAIN log : i > 1 => log[i].status = "UPDATED"
        BY <2>1, <2>3, <3>1 DEF Explained, ByPass, ByRequest, ShowsTheFirst, OnlySyncs
      <4>3. QED
        BY <3>1, <4>1, <4>2 DEF ShowsTheFirst
    <3>2. ASSUME NEW q \in Requests, Shows(q)
          PROVE  \E j \in DOMAIN log :
                    /\ log[j].status = held[API].status
                    /\ j = 1 \/ held[API].status # "UPDATED"
                    /\ \A i \in DOMAIN log : i > j => log[i].status = "UPDATED"
      <4>1. PICK j \in DOMAIN log : log[j].by = q
        BY <3>2 DEF Shows, AllRecorded, Decided
      <4>2. ByRequest(j) /\ log[j].turn = session[q].turn /\ log[j].status = session[q].to
        BY <2>1, <3>2, <4>1 DEF Explained, ByPass, ByRequest, Shows
      <4>3. ASSUME NEW i \in DOMAIN log, i > j
            PROVE  log[i].status = "UPDATED"
        <5>1. i # 1
          BY <2>3, <4>3
        <5>2. CASE ByPass(i)
          BY <5>1, <5>2 DEF ByPass
        <5>3. CASE ByRequest(i)
          <6>1. log[i].turn > 0 /\ log[j].turn > 0
            BY <4>2, <5>3 DEF ByRequest
          <6>2. log[j].turn < log[i].turn
            BY <2>3, <4>3, <6>1 DEF InOrder
          <6>3. session[log[i].by].turn > session[q].turn /\ log[i].by \in Requests
            BY <2>3, <4>2, <5>3, <6>2 DEF ByRequest
          <6>4. session[log[i].by].op = "sync"
            BY <3>2, <6>3 DEF Shows, OnlySyncs
          <6>5. QED
            BY <5>3, <6>4 DEF ByRequest
        <5>4. QED
          BY <2>1, <5>2, <5>3 DEF Explained
      <4>4. session[q].to \in Statuses
        BY <2>2 DEF Session
      <4>5. session[q].to # "UPDATED"
        BY <4>4 DEF Statuses
      <4>6. QED
        BY <3>2, <4>2, <4>3, <4>5 DEF Shows
    <3>3. QED
      BY <2>1, <3>1, <3>2 DEF Follows
  <2>5. PICK j \in DOMAIN log :
           /\ log[j].status = held[API].status
           /\ j = 1 \/ held[API].status # "UPDATED"
           /\ \A i \in DOMAIN log : i > j => log[i].status = "UPDATED"
    BY <2>4
  <2>6. row # None
    BY <2>1, <2>5 DEF TellsRow
  <2>7. PICK i \in DOMAIN log :
           /\ log[i].status = row.status
           /\ \A k \in (i + 1)..Len(log) : log[k].status = "UPDATED"
    BY <2>1, <2>6 DEF TellsRow
  <2>8. row.status \in Statuses /\ row.status # "UPDATED"
    <3>1. row \in Row
      BY <2>2, <2>6
    <3>2. QED
      BY <3>1 DEF Row, Statuses
  <2>9. ~(i > j)
    BY <2>5, <2>7, <2>8
  <2>10. ~(j > i)
    <3> SUFFICES ASSUME j > i
                 PROVE  FALSE
      OBVIOUS
    <3>1. log[j].status = "UPDATED"
      BY <2>3, <2>5, <2>7
    <3>2. j # 1
      BY <2>3, <2>5, <2>7
    <3>3. QED
      BY <2>5, <3>1, <3>2
  <2>11. i = j
    BY <2>3, <2>5, <2>7, <2>9, <2>10
  <2>12. QED
    BY <2>5, <2>6, <2>7, <2>11
<1>2. QED
  BY <1>1, InvHolds, PTL

-----------------------------------------------------------------------------
(* What is looked for before it is made.                                    *)

\* The workers that have found no hypothesis and are about to add one.
Adding == {w \in Workers : session[w].pc = "hypothesize" /\ row # None /\ row.id = session[w].id}
HypothesesInv ==
    /\ hyps > 0 => row # None
    /\ hyps + Cardinality(Adding) <= Cardinality(Workers)

\* No validation was inserted by this life of the process.
Unchecked(p) == \A i \in DOMAIN checks : checks[i].by = p => checks[i].life # life[p]
ChecksInv ==
    /\ \A i \in DOMAIN checks : checks[i].life <= life[checks[i].by]
    /\ \A i, j \in DOMAIN checks :
          (checks[i].by = checks[j].by /\ checks[i].life = checks[j].life) => i = j
    /\ \A p \in Processes : known[p] = None => Unchecked(p)
    /\ \A s \in Sessions : At(s, "newcheck") => known[Process(s)] # None /\ Unchecked(Process(s))
    /\ \A s, t \in Sessions :
          At(s, "newcheck") /\ At(t, "newcheck") /\ Process(s) = Process(t) => s = t
MadeInv == HypothesesInv /\ ChecksInv

LEMMA AddingFinite ==
    ASSUME NEW S \in SUBSET Workers
    PROVE  /\ IsFiniteSet(S) /\ Cardinality(S) \in Nat
           /\ Cardinality(S) <= Cardinality(Workers) /\ Cardinality(Workers) \in Nat
BY SetsFinite, FS_Subset, FS_CardinalityType

\* A step that adds no hypothesis.
LEMMA HypothesesStill ==
    ASSUME Typed, HypothesesInv, UNCHANGED hyps, Typed',
           hyps > 0 => row' # None /\ Adding' \subseteq Adding
    PROVE  HypothesesInv'
<1>1. hyps \in Nat
  BY DEF Typed, LifecyclesTypeOK
<1>2. Adding \subseteq Workers /\ Adding' \subseteq Workers
  BY DEF Adding
<1>3. /\ Cardinality(Adding) \in Nat /\ Cardinality(Adding') \in Nat
      /\ Cardinality(Workers) \in Nat /\ Cardinality(Adding') <= Cardinality(Workers)
  BY <1>2, AddingFinite
<1>4. CASE hyps = 0
  BY <1>3, <1>4 DEF HypothesesInv
<1>5. CASE hyps > 0
  <2>1. Adding' \subseteq Adding /\ IsFiniteSet(Adding)
    BY <1>2, <1>5, AddingFinite
  <2>2. Cardinality(Adding') <= Cardinality(Adding)
    BY <2>1, FS_Subset
  <2> QED
    BY <1>1, <1>3, <1>5, <2>2 DEF HypothesesInv
<1> QED
  BY <1>1, <1>4, <1>5

\* Nobody comes to a point where something is made.
NobodyMakes ==
    \A s \in Sessions : session'[s].pc \in {"newcheck", "hypothesize"} => session'[s] = session[s]
RowStays == row # None => row' # None /\ row'.id = row.id

LEMMA NothingAdded ==
    ASSUME Typed, HypothesesInv, UNCHANGED hyps, Typed', NobodyMakes, RowStays
    PROVE  HypothesesInv'
<1>1. ASSUME hyps > 0 PROVE row' # None /\ Adding' \subseteq Adding
  <2>1. row # None /\ row' # None /\ row'.id = row.id
    BY <1>1 DEF HypothesesInv, RowStays
  <2>2. ASSUME NEW w \in Workers, session'[w].pc = "hypothesize" PROVE session'[w] = session[w]
    BY <2>2 DEF NobodyMakes, Sessions
  <2> QED
    BY <2>1, <2>2 DEF Adding
<1> QED
  BY <1>1, HypothesesStill

\* A step that inserts no validation, though it may change an outcome.
LEMMA ChecksStill ==
    ASSUME Typed, ChecksInv, UNCHANGED life,
           DOMAIN checks' = DOMAIN checks,
           \A i \in DOMAIN checks : checks'[i].by = checks[i].by /\ checks'[i].life = checks[i].life,
           \A p \in Processes : known'[p] = None => known[p] = None \/ DOMAIN checks = {},
           \A s \in Sessions : session'[s].pc = "newcheck" =>
              session[s].pc = "newcheck" /\ known'[Process(s)] # None
    PROVE  ChecksInv'
<1>1. \A p : Unchecked(p) => Unchecked(p)'
  BY DEF Unchecked
<1>2. \A p \in Processes : known'[p] = None => Unchecked(p)'
  <2>1. DOMAIN checks = {} => \A p : Unchecked(p)
    BY DEF Unchecked
  <2> QED
    BY <1>1, <2>1 DEF ChecksInv
<1>3. \A i \in DOMAIN checks' : checks'[i].life <= life'[checks'[i].by]
  BY DEF ChecksInv
<1>4. \A i, j \in DOMAIN checks' :
         (checks'[i].by = checks'[j].by /\ checks'[i].life = checks'[j].life) => i = j
  BY DEF ChecksInv
<1>5. \A s \in Sessions : At(s, "newcheck")' => known'[Process(s)] # None /\ Unchecked(Process(s))'
  BY <1>1 DEF ChecksInv, At
<1>6. \A s, t \in Sessions :
         At(s, "newcheck")' /\ At(t, "newcheck")' /\ Process(s) = Process(t) => s = t
  BY DEF ChecksInv, At
<1>7. \A s : Process(s)' = Process(s)
  BY DEF Process
<1> QED
  BY <1>2, <1>3, <1>4, <1>5, <1>6, <1>7 DEF ChecksInv

LEMMA NothingMade ==
    ASSUME Typed, MadeInv, Typed', UNCHANGED <<hyps, checks, known, life>>, NobodyMakes, RowStays
    PROVE  MadeInv'
<1>1. \A s \in Sessions : session'[s].pc = "newcheck" =>
              session[s].pc = "newcheck" /\ known'[Process(s)] # None
  BY DEF NobodyMakes, MadeInv, ChecksInv, At
<1> QED
  BY <1>1, NothingAdded, ChecksStill DEF MadeInv

\* One session goes elsewhere.
LEMMA ElsewhereMakes ==
    ASSUME Typed, NEW s \in Sessions, NEW q, Assigned(s, q), q.pc \notin {"newcheck", "hypothesize"}
    PROVE  NobodyMakes
BY DEF Assigned, NobodyMakes, Typed, LifecyclesTypeOK

LEMMA GoesElsewhere ==
    ASSUME Typed, NEW s \in Sessions, NEW pc \in PCs \ {"newcheck", "hypothesize"}, Goes(s, pc)
    PROVE  NobodyMakes
<1> DEFINE q == [session[s] EXCEPT !.pc = pc]
<1>1. q.pc = pc /\ Assigned(s, q)
  BY GoesType
<1> HIDE DEF q
<1> QED
  BY <1>1, ElsewhereMakes

\* The session's place after a look-up of the fingerprint.
LEMMA LookupMakes ==
    ASSUME Typed, NEW s \in Sessions, NEW facts \in 0..1, NEW frozen, CreateOrSync(s, facts, frozen)
    PROVE  NobodyMakes
<1>1. PICK turn : Makes(s, facts, turn) \/ Syncs(s, facts, turn, frozen)
  BY DEF CreateOrSync
<1>2. \E q : q.pc \in {"insert", "load", "hypotheses", "idle", "done"} /\ Assigned(s, q)
  <2> DEFINE a == [Idle EXCEPT !.pc = "insert", !.op = "create", !.id = FreshId,
                             !.to = FirstStatus, !.facts = facts, !.turn = turn]
             b == [Idle EXCEPT !.pc = "load", !.op = "sync", !.id = held[Process(s)].id, !.turn = turn]
             c == [Idle EXCEPT !.pc = Synced(s), !.id = held[Process(s)].id]
  <2>1. a.pc = "insert" /\ b.pc = "load" /\ c.pc = Synced(s)
    BY DEF Idle
  <2>2. Assigned(s, a) \/ Assigned(s, b) \/ Assigned(s, c)
    BY <1>1 DEF Makes, Syncs, Assigned
  <2> HIDE DEF a, b, c
  <2> QED
    BY <2>1, <2>2, WhereTo
<1>3. PICK q : q.pc \in {"insert", "load", "hypotheses", "idle", "done"} /\ Assigned(s, q)
  BY <1>2
<1> QED
  BY <1>3, ElsewhereMakes

LEMMA SeekFirst ==
    ASSUME NEW s \in Sessions, NEW pc, session' = [session EXCEPT ![s] = [Idle EXCEPT !.pc = pc]], Typed,
           pc \in {"seek", "idle", "done"}
    PROVE  NobodyMakes
<1> DEFINE q == [Idle EXCEPT !.pc = pc]
<1>1. q.pc = pc /\ Assigned(s, q)
  BY DEF Idle, Assigned
<1> HIDE DEF q
<1> QED
  BY <1>1, ElsewhereMakes

LEMMA RequestsMake ==
    ASSUME LifecyclesInv, LifecyclesInv', MadeInv, NEW q \in Requests,
         \/ PostHunt(q) \/ PostExercise(q) \/ PostPosture(q) \/ PostProgram(q)
         \/ PostDecision(q) \/ NotFound(q)
         \/ HuntEndpoints(q) \/ ExerciseEndpoints(q) \/ PostureEndpoints(q)
         \/ ProgramEndpoints(q) \/ DecisionEndpoints(q)
    PROVE  MadeInv'
<1>1. Typed /\ Typed' /\ q \in Sessions
  BY DEF LifecyclesInv, Sessions
<1>2. CASE \/ PostHunt(q) \/ PostExercise(q) \/ PostPosture(q) \/ PostProgram(q)
  <2>1. \E facts \in 0..1, frozen \in BOOLEAN : CreateOrSync(q, facts, frozen) /\ OnlyHeld
    BY <1>2 DEF PostHunt, PostExercise, PostPosture, PostProgram, CreateOrSyncHunt, CreateOrSyncExercise,
       CreateOrSyncPosture, CreateOrSyncProgram, Frozen
  <2>2. NobodyMakes
    BY <1>1, <2>1, LookupMakes
  <2> QED
    BY <1>1, <2>1, <2>2, NothingMade DEF OnlyHeld, RowStays
<1>3. CASE PostDecision(q)
  <2>1. NobodyMakes
    BY <1>1, <1>3, SeekFirst, WhereTo DEF PostDecision, CreateOrSyncDecision
  <2> QED
    BY <1>1, <1>3, <2>1, NothingMade DEF PostDecision, CreateOrSyncDecision, OnlySession, RowStays
<1>4. CASE NotFound(q)
  <2>1. NobodyMakes
    BY <1>1, <1>4, GoesElsewhere DEF NotFound, PCs
  <2> QED
    BY <1>1, <1>4, <2>1, NothingMade DEF NotFound, OnlySession, RowStays
<1>5. CASE \/ HuntEndpoints(q) \/ ExerciseEndpoints(q) \/ PostureEndpoints(q)
           \/ ProgramEndpoints(q) \/ DecisionEndpoints(q)
  <2>1. PICK to \in Statuses, from, unless \in SUBSET Statuses, otherwise \in {"failed", "done"} :
          Moves(q, to, from, unless, otherwise)
    BY <1>5, EndpointsMove
  <2>2. UNCHANGED <<row, hyps, checks, known, life>>
    BY <2>1 DEF Moves, OnlySession, OnlyHeld
  <2>3. NobodyMakes
    <3> DEFINE a == [session[q] EXCEPT !.pc = Answered(to), !.id = held[API].id]
               b == [Idle EXCEPT !.pc = "load", !.op = "move",
                               !.id = held[API].id, !.to = to, !.turn = NextTurn]
    <3>1. a.pc = Answered(to) /\ b.pc = "load"
      BY <1>1 DEF Idle, Typed, LifecyclesTypeOK, Session
    <3>2. Assigned(q, a) \/ Assigned(q, b) \/ Goes(q, otherwise)
      BY <1>1, <2>1 DEF Moves, Assigned, Typed, LifecyclesTypeOK
    <3> HIDE DEF a, b
    <3>3. CASE Goes(q, otherwise)
      BY <1>1, <3>3, GoesElsewhere DEF PCs
    <3> QED
      BY <1>1, <3>1, <3>2, <3>3, WhereTo, ElsewhereMakes
  <2> QED
    BY <1>1, <2>2, <2>3, NothingMade DEF RowStays
<1> QED
  BY <1>2, <1>3, <1>4, <1>5

LEMMA TransactionsMake ==
    ASSUME LifecyclesInv, LifecyclesInv', MadeInv, NEW s \in Sessions,
         \/ SeekDecision(s) \/ KeepDecision(s)
         \/ LoadRow(s) \/ WriteRow(s) \/ StaleWrite(s)
         \/ InsertFails(s) \/ FetchFindings(s) \/ LoadCheck(s) \/ Refused(s)
    PROVE  MadeInv'
<1>1. Typed /\ Typed'
  BY DEF LifecyclesInv
<1>2. UNCHANGED <<hyps, checks, known, life>>
  BY DEF SeekDecision, KeepDecision, LoadRow, WriteRow, StaleWrite, InsertFails, FetchFindings,
     LoadCheck, Refused, OnlySession, OnlyHeld, OnlyRow
<1>3. RowStays
  <2>1. CASE WriteRow(s)
    <3>1. row # None /\ row \in Row
      BY <1>1, <2>1 DEF LifecyclesInv, Commits, WriteRow, Typed, LifecyclesTypeOK
    <3>2. row' # None
      BY <2>1, WriteRecords DEF RecordStep
    <3> QED
      BY <2>1, <3>1, <3>2 DEF WriteRow, RowStays, Row
  <2>2. CASE ~WriteRow(s)
    BY <2>2 DEF SeekDecision, KeepDecision, LoadRow, StaleWrite, InsertFails, FetchFindings,
       LoadCheck, Refused, OnlySession, OnlyHeld, RowStays
  <2> QED
    BY <2>1, <2>2
<1>4. NobodyMakes
  <2>1. CASE StaleWrite(s) \/ InsertFails(s) \/ FetchFindings(s) \/ LoadCheck(s) \/ Refused(s) \/ WriteRow(s)
    <3>1. \E pc \in PCs \ {"newcheck", "hypothesize"} : Goes(s, pc)
      BY <2>1, WhereTo DEF StaleWrite, InsertFails, FetchFindings, LoadCheck, Refused, WriteRow, PCs
    <3> QED
      BY <1>1, <3>1, GoesElsewhere
  <2>2. CASE LoadRow(s)
    <3>1. CASE IsSaved(session[s].id)
      BY <2>2, <3>1, LoadLoads DEF LoadStep, NobodyMakes
    <3>2. CASE ~IsSaved(session[s].id)
      <4>1. \E pc \in PCs \ {"newcheck", "hypothesize"} : Goes(s, pc)
        BY <2>2, <3>2, WhereTo DEF LoadRow, PCs
      <4> QED
        BY <1>1, <4>1, GoesElsewhere
    <3> QED
      BY <3>1, <3>2
  <2>3. CASE SeekDecision(s)
    <3> DEFINE a == [session[s] EXCEPT !.pc = "keep", !.op = "create"]
               b == [session[s] EXCEPT !.pc = "keep", !.op = "sync", !.id = row.id, !.to = row.status]
    <3>1. a.pc = "keep" /\ b.pc = "keep"
      BY <1>1 DEF Typed, LifecyclesTypeOK, Session
    <3>2. Assigned(s, a) \/ Assigned(s, b)
      BY <2>3 DEF SeekDecision, Assigned
    <3> HIDE DEF a, b
    <3> QED
      BY <1>1, <3>1, <3>2, ElsewhereMakes
  <2>4. CASE KeepDecision(s)
    <3>1. CASE Makes(s, 0, Asks(s))
      <4> DEFINE a == [Idle EXCEPT !.pc = "insert", !.op = "create", !.id = FreshId,
                             !.to = FirstStatus, !.facts = 0, !.turn = Asks(s)]
      <4>1. a.pc = "insert" /\ Assigned(s, a)
        BY <3>1 DEF Makes, Idle, Assigned
      <4> HIDE DEF a
      <4> QED
        BY <1>1, <4>1, ElsewhereMakes
    <3>2. CASE Goes(s, Ends(s))
      BY <1>1, <3>2, WhereTo, GoesElsewhere DEF PCs
    <3> QED
      BY <2>4, <3>1, <3>2 DEF KeepDecision
  <2> QED
    BY <2>1, <2>2, <2>3, <2>4
<1> QED
  BY <1>1, <1>2, <1>3, <1>4, NothingMade

LEMMA InsertMakes ==
    ASSUME LifecyclesInv, LifecyclesInv', MadeInv, NEW s \in Sessions, InsertRow(s)
    PROVE  MadeInv'
<1>1. Typed /\ Typed'
  BY DEF LifecyclesInv
<1>2. NobodyMakes
  BY <1>1, WhereTo, GoesElsewhere DEF InsertRow, PCs
<1> QED
  BY <1>1, <1>2, NothingMade DEF InsertRow, OnlyRow, RowStays

\* The outcome is in the dictionary before the INSERT begins.
LEMMA JudgeMakes ==
    ASSUME LifecyclesInv, LifecyclesInv', MadeInv, NEW s \in Sessions, Judge(s)
    PROVE  MadeInv'
<1> DEFINE p == Process(s)
<1>1. Typed /\ Typed' /\ p \in Processes
  BY ProcessFacts DEF LifecyclesInv
<1>2. CASE Goes(s, Ends(s)) /\ OnlySession
  <2>1. NobodyMakes
    BY <1>1, <1>2, WhereTo, GoesElsewhere DEF PCs
  <2> QED
    BY <1>1, <1>2, <2>1, NothingMade DEF OnlySession, RowStays
<1>3. ASSUME NEW outcome \in Outcomes, OnlyKnown,
             known' = [known EXCEPT ![p] =
                   IF @ = None THEN [at |-> 0, outcome |-> outcome]
                   ELSE [@ EXCEPT !.outcome = outcome]],
             session' = [session EXCEPT ![s].outcome = outcome,
                   ![s].pc = IF known[p] = None THEN "newcheck" ELSE "loadcheck"]
      PROVE  MadeInv'
  <2> DEFINE k == IF known[p] = None THEN [at |-> 0, outcome |-> outcome]
                  ELSE [known[p] EXCEPT !.outcome = outcome]
             q == [session[s] EXCEPT !.outcome = outcome,
                   !.pc = IF known[p] = None THEN "newcheck" ELSE "loadcheck"]
  <2>1. k # None
    <3>1. k \in Known
      BY <1>1 DEF Known, Typed, LifecyclesTypeOK
    <3> HIDE DEF k
    <3> QED
      BY <3>1, NoneAssumption
  <2>2. known' = [known EXCEPT ![p] = k]
    BY <1>1, <1>3 DEF Typed, LifecyclesTypeOK
  <2>3. q.pc = IF known[p] = None THEN "newcheck" ELSE "loadcheck"
    BY <1>1 DEF Typed, LifecyclesTypeOK, Session
  <2>4. Assigned(s, q)
    BY <1>1, <1>3 DEF Assigned, Typed, LifecyclesTypeOK
  <2> HIDE DEF k, q
  <2>5. session'[s] = q /\ \A t \in Sessions \ {s} : session'[t] = session[t]
    BY <1>1, <2>4 DEF Assigned, Typed, LifecyclesTypeOK
  <2>6. known'[p] # None /\ \A r \in Processes \ {p} : known'[r] = known[r]
    BY <1>1, <2>1, <2>2 DEF Typed, LifecyclesTypeOK
  <2>7. UNCHANGED <<row, hyps, checks, life>>
    BY <1>3 DEF OnlyKnown
  <2>8. HypothesesInv'
    <3>1. Adding' \subseteq Adding
      BY <2>3, <2>5, <2>7 DEF Adding, Sessions
    <3> QED
      BY <1>1, <2>7, <3>1, HypothesesStill DEF MadeInv, HypothesesInv
  <2>9. CASE known[p] # None
    <3>1. \A t \in Sessions : session'[t].pc = "newcheck" => session[t].pc = "newcheck"
      BY <2>3, <2>5, <2>9
    <3>2. \A t \in Sessions : session'[t].pc = "newcheck" => known'[Process(t)] # None
      BY <2>6, <3>1, ProcessFacts DEF MadeInv, ChecksInv, At
    <3> QED
      BY <1>1, <2>6, <2>7, <2>8, <3>1, <3>2, ChecksStill DEF MadeInv
  <2>10. CASE known[p] = None
    <3>1. Unchecked(p) /\ \A t \in Sessions : At(t, "newcheck") => Process(t) # p
      BY <1>1, <2>10 DEF MadeInv, ChecksInv
    <3>2. \A r : Unchecked(r)' <=> Unchecked(r)
      BY <2>7 DEF Unchecked
    <3>3. \A t \in Sessions : At(t, "newcheck")' => t = s \/ At(t, "newcheck")
      BY <2>5 DEF At
    <3>4. \A t : Process(t)' = Process(t)
      BY DEF Process
    <3>5. \A r \in Processes : known'[r] = None => Unchecked(r)'
      BY <2>6, <3>2 DEF MadeInv, ChecksInv
    <3>6. \A t \in Sessions : At(t, "newcheck")' => known'[Process(t)] # None /\ Unchecked(Process(t))'
      BY <2>6, <3>1, <3>2, <3>3, ProcessFacts DEF MadeInv, ChecksInv
    <3>7. \A t, u \in Sessions :
            At(t, "newcheck")' /\ At(u, "newcheck")' /\ Process(t) = Process(u) => t = u
      BY <3>1, <3>3 DEF MadeInv, ChecksInv
    <3>8. ChecksInv'
      BY <2>7, <3>4, <3>5, <3>6, <3>7 DEF MadeInv, ChecksInv
    <3> QED
      BY <2>8, <3>8 DEF MadeInv
  <2> QED
    BY <2>9, <2>10
<1> QED
  BY <1>2, <1>3 DEF Judge

LEMMA InsertCheckMakes ==
    ASSUME LifecyclesInv, LifecyclesInv', MadeInv, NEW s \in Sessions, InsertCheck(s)
    PROVE  MadeInv'
<1> DEFINE p == Process(s)
           c == [outcome |-> session[s].outcome, by |-> p, life |-> life[p]]
           n == Len(checks) + 1
<1>1. Typed /\ Typed' /\ p \in Processes
  BY ProcessFacts DEF LifecyclesInv
<1>2. CASE Goes(s, Breaks(s)) /\ OnlySession
  <2>1. NobodyMakes
    BY <1>1, <1>2, WhereTo, GoesElsewhere DEF PCs
  <2> QED
    BY <1>1, <1>2, <2>1, NothingMade DEF OnlySession, RowStays
<1>3. CASE /\ checks' = Append(checks, c)
           /\ Goes(s, Ends(s))
           /\ OnlyChecks
           /\ known' = [known EXCEPT ![p] = [outcome |-> IF @ = None THEN session[s].outcome
                                                          ELSE @.outcome,
                                              at |-> n]]
  <2>1. checks \in Seq(Check) /\ Len(checks) \in Nat /\ life \in [Processes -> 0..MaxTroubles]
    BY <1>1 DEF Typed, LifecyclesTypeOK
  <2>2. c.by = p /\ c.life = life[p]
    OBVIOUS
  <2> HIDE DEF c
  <2>3. /\ DOMAIN checks = 1..Len(checks) /\ DOMAIN checks' = 1..(Len(checks) + 1)
        /\ checks'[n] = c
        /\ \A i \in DOMAIN checks : checks'[i] = checks[i]
    <3>1. c \in Check
      BY <1>1, <2>1 DEF c, Check, Typed, LifecyclesTypeOK, Session
    <3> QED
      BY <1>3, <2>1, <3>1
  <2>4. \A i \in DOMAIN checks' : i \in DOMAIN checks \/ i = n
    BY <2>1, <2>3
  <2>5. known'[p] # None /\ \A r \in Processes \ {p} : known'[r] = known[r]
    <3>1. known'[p] \in Known \cup {None} /\ known' \in [Processes -> Known \cup {None}]
      BY <1>1 DEF Typed, LifecyclesTypeOK
    <3>2. known'[p] = [outcome |-> IF known[p] = None THEN session[s].outcome ELSE known[p].outcome,
                       at |-> n]
      BY <1>1, <1>3 DEF Typed, LifecyclesTypeOK
    <3>3. known'[p] \in Known
      <4>1. known[p] \in Known \cup {None} /\ session[s].outcome \in Outcomes /\ n \in Nat
        BY <1>1, <2>1 DEF Typed, LifecyclesTypeOK, Session
      <4> QED
        BY <3>2, <4>1 DEF Known
    <3>4. \A r \in Processes \ {p} : known'[r] = known[r]
      BY <1>1, <1>3 DEF Typed, LifecyclesTypeOK
    <3> QED
      BY <3>3, <3>4, NoneAssumption
  <2>6. NobodyMakes /\ session'[s].pc = Ends(s)
    <3>1. Goes(s, Ends(s)) /\ Ends(s) \in PCs \ {"newcheck", "hypothesize"}
      BY <1>3, WhereTo DEF PCs
    <3> QED
      BY <1>1, <3>1, GoesElsewhere, Recording
  <2>7. UNCHANGED <<row, hyps, life>>
    BY <1>3 DEF OnlyChecks
  <2>8. At(s, "newcheck")
    BY DEF InsertCheck
  <2>9. Unchecked(p) /\ \A t \in Sessions : At(t, "newcheck") /\ Process(t) = p => t = s
    BY <2>8 DEF MadeInv, ChecksInv
  <2>10. \A r : r # p /\ Unchecked(r) => Unchecked(r)'
    BY <2>2, <2>3, <2>4, <2>7 DEF Unchecked
  <2>11. \A i \in DOMAIN checks' : checks'[i].life <= life'[checks'[i].by]
    BY <1>1, <2>1, <2>2, <2>3, <2>4, <2>7 DEF MadeInv, ChecksInv
  <2>12. \A i, j \in DOMAIN checks' :
           (checks'[i].by = checks'[j].by /\ checks'[i].life = checks'[j].life) => i = j
    BY <2>2, <2>3, <2>4, <2>9 DEF Unchecked, MadeInv, ChecksInv
  <2>13. \A t \in Sessions : At(t, "newcheck")' => At(t, "newcheck") /\ Process(t) # p
    BY <2>6, <2>9, WhereTo DEF NobodyMakes, At
  <2>14. \A r \in Processes : known'[r] = None => Unchecked(r)'
    BY <2>5, <2>10 DEF MadeInv, ChecksInv
  <2>15. \A t \in Sessions : At(t, "newcheck")' => known'[Process(t)] # None /\ Unchecked(Process(t))'
    BY <2>5, <2>10, <2>13, ProcessFacts DEF MadeInv, ChecksInv
  <2>16. \A t, u \in Sessions :
            At(t, "newcheck")' /\ At(u, "newcheck")' /\ Process(t) = Process(u) => t = u
    BY <2>13 DEF MadeInv, ChecksInv
  <2>17. \A t : Process(t)' = Process(t)
    BY DEF Process
  <2>18. ChecksInv'
    BY <2>11, <2>12, <2>14, <2>15, <2>16, <2>17 DEF ChecksInv
  <2>19. HypothesesInv'
    BY <1>1, <2>6, <2>7, NothingAdded DEF MadeInv, RowStays
  <2> QED
    BY <2>18, <2>19 DEF MadeInv
<1> QED
  BY <1>2, <1>3 DEF InsertCheck

LEMMA UpdateCheckMakes ==
    ASSUME LifecyclesInv, LifecyclesInv', MadeInv, NEW s \in Sessions, UpdateCheck(s)
    PROVE  MadeInv'
<1>1. Typed /\ Typed'
  BY DEF LifecyclesInv
<1>2. NobodyMakes
  BY <1>1, WhereTo, GoesElsewhere DEF UpdateCheck, PCs
<1>3. UNCHANGED <<row, hyps, life, known>>
  BY DEF UpdateCheck, OnlyChecks
<1>4. /\ DOMAIN checks' = DOMAIN checks
      /\ \A i \in DOMAIN checks : checks'[i].by = checks[i].by /\ checks'[i].life = checks[i].life
  <2>1. checks' = [checks EXCEPT ![known[Process(s)].at].outcome = session[s].outcome]
    BY DEF UpdateCheck
  <2>2. checks \in Seq(Check)
    BY <1>1 DEF Typed, LifecyclesTypeOK
  <2>3. \A i \in DOMAIN checks : checks[i] \in Check
    BY <2>2
  <2>4. DOMAIN checks' = DOMAIN checks
    BY <2>1
  <2>5. ASSUME NEW i \in DOMAIN checks
        PROVE  checks'[i].by = checks[i].by /\ checks'[i].life = checks[i].life
    <3>1. CASE i = known[Process(s)].at
      <4>1. checks'[i] = [checks[i] EXCEPT !.outcome = session[s].outcome]
        BY <2>1, <2>5, <3>1
      <4> QED
        BY <2>3, <2>5, <4>1 DEF Check
    <3>2. CASE i # known[Process(s)].at
      BY <2>1, <2>5, <3>2
    <3> QED
      BY <3>1, <3>2
  <2> QED
    BY <2>4, <2>5
<1>5. \A t \in Sessions : session'[t].pc = "newcheck" =>
              session[t].pc = "newcheck" /\ known'[Process(t)] # None
  BY <1>2, <1>3 DEF NobodyMakes, MadeInv, ChecksInv, At
<1>6. HypothesesInv' /\ ChecksInv'
  BY <1>1, <1>2, <1>3, <1>4, <1>5, NothingAdded, ChecksStill DEF MadeInv, RowStays
<1> QED
  BY <1>6 DEF MadeInv

LEMMA HypothesisMakes ==
    ASSUME LifecyclesInv, LifecyclesInv', MadeInv, NEW w \in Workers,
           ReadHypotheses(w) \/ CreateHypothesis(w)
    PROVE  MadeInv'
<1>1. Typed /\ Typed' /\ w \in Sessions
  BY DEF LifecyclesInv, Sessions
<1>2. \E pc \in {"idle", "hypothesize"} : Goes(w, pc)
  BY DEF ReadHypotheses, CreateHypothesis
<1>3. UNCHANGED <<row, checks, known, life>>
  BY DEF ReadHypotheses, CreateHypothesis, OnlySession
<1>4. /\ session'[w].pc \in {"idle", "hypothesize"} /\ session'[w].id = session[w].id
      /\ \A t \in Sessions \ {w} : session'[t] = session[t]
  <2>1. PICK pc \in {"idle", "hypothesize"} : Goes(w, pc)
    BY <1>2
  <2> QED
    BY <1>1, <2>1, Recording
<1>5. ChecksInv'
  <2>1. \A t \in Sessions : session'[t].pc = "newcheck" =>
              session[t].pc = "newcheck" /\ known'[Process(t)] # None
    BY <1>3, <1>4 DEF MadeInv, ChecksInv, At
  <2> QED
    BY <1>1, <1>3, <2>1, ChecksStill DEF MadeInv
<1>6. CASE ReadHypotheses(w)
  <2>1. UNCHANGED hyps
    BY <1>6 DEF ReadHypotheses, OnlySession
  <2>2. ASSUME hyps > 0 PROVE row' # None /\ Adding' \subseteq Adding
    <3>1. row # None
      BY <2>2 DEF MadeInv, HypothesesInv
    <3>2. w \notin Adding'
      <4>1. CASE row.id = session[w].id
        <5>1. Goes(w, "idle")
          BY <1>6, <2>2, <3>1, <4>1 DEF ReadHypotheses, IsSaved
        <5>2. session'[w].pc = "idle"
          BY <1>1, <5>1, Recording
        <5> QED
          BY <5>2 DEF Adding
      <4>2. CASE row.id # session[w].id
        BY <1>3, <1>4, <4>2 DEF Adding
      <4> QED
        BY <4>1, <4>2
    <3> QED
      BY <1>3, <1>4, <3>1, <3>2 DEF Adding, Sessions
  <2>3. HypothesesInv'
    BY <1>1, <2>1, <2>2, HypothesesStill DEF MadeInv
  <2> QED
    BY <1>5, <2>3 DEF MadeInv
<1>7. CASE CreateHypothesis(w)
  <2>1. session'[w].pc = "idle"
    BY <1>1, <1>7, Recording DEF CreateHypothesis
  <2>2. Adding' = Adding \ {w}
    BY <1>3, <1>4, <2>1 DEF Adding, Sessions
  <2>3. CASE ~IsSaved(session[w].id)
    <3>1. UNCHANGED hyps
      BY <1>7, <2>3 DEF CreateHypothesis
    <3>2. HypothesesInv'
      BY <1>1, <1>3, <2>2, <3>1, HypothesesStill DEF MadeInv, HypothesesInv
    <3> QED
      BY <1>5, <3>2 DEF MadeInv
  <2>4. CASE IsSaved(session[w].id)
    <3>1. w \in Adding /\ row # None /\ hyps' = hyps + 1
      BY <1>7, <2>4 DEF CreateHypothesis, IsSaved, Adding, At
    <3>2. IsFiniteSet(Adding) /\ Cardinality(Adding) \in Nat /\ Cardinality(Workers) \in Nat
      BY AddingFinite DEF Adding
    <3>3. Cardinality(Adding') = Cardinality(Adding) - 1
      BY <2>2, <3>1, <3>2, FS_RemoveElement
    <3>4. hyps \in Nat
      BY <1>1 DEF Typed, LifecyclesTypeOK
    <3>5. HypothesesInv'
      BY <1>3, <3>1, <3>2, <3>3, <3>4 DEF MadeInv, HypothesesInv
    <3> QED
      BY <1>5, <3>5 DEF MadeInv
  <2> QED
    BY <2>3, <2>4
<1> QED
  BY <1>6, <1>7

LEMMA BootstrapMakes ==
    ASSUME LifecyclesInv, LifecyclesInv', MadeInv, NEW w \in Workers,
           BootstrapValidations(w) \/ BootstrapRecords(w)
    PROVE  MadeInv'
<1>1. Typed /\ Typed' /\ w \in Sessions /\ w \in Processes
  BY DEF LifecyclesInv, Sessions, Processes
<1>2. UNCHANGED <<row, hyps, checks, session, life>>
  BY DEF BootstrapValidations, BootstrapRecords
<1>3. HypothesesInv'
  BY <1>1, <1>2, NothingAdded DEF MadeInv, NobodyMakes, RowStays
<1>4. \A p \in Processes : known'[p] = None => known[p] = None \/ DOMAIN checks = {}
  <2>1. CASE BootstrapRecords(w)
    BY <2>1 DEF BootstrapRecords
  <2>2. CASE BootstrapValidations(w) /\ checks = <<>>
    BY <2>2
  <2>3. CASE BootstrapValidations(w) /\ checks # <<>>
    <3>1. PICK i \in DOMAIN checks :
            known' = [known EXCEPT ![w] = [at |-> i, outcome |-> checks[i].outcome]]
      BY <2>3 DEF BootstrapValidations
    <3>2. checks \in Seq(Check) /\ i \in Nat /\ checks[i] \in Check
      BY <1>1, <3>1 DEF Typed, LifecyclesTypeOK
    <3>3. [at |-> i, outcome |-> checks[i].outcome] \in Known
      BY <3>2 DEF Known, Check
    <3>4. \A p \in Processes : known'[p] = known[p] \/ known'[p] \in Known
      BY <1>1, <3>1, <3>3 DEF Typed, LifecyclesTypeOK
    <3> QED
      BY <3>4, NoneAssumption
  <2> QED
    BY <2>1, <2>2, <2>3
<1>5. \A t \in Sessions : session'[t].pc = "newcheck" =>
              session[t].pc = "newcheck" /\ known'[Process(t)] # None
  <2>1. session[w].pc = "idle"
    BY DEF BootstrapValidations, BootstrapRecords, At
  <2>2. \A p \in Processes \ {w} : known'[p] = known[p]
    BY <1>1 DEF BootstrapValidations, BootstrapRecords, Typed, LifecyclesTypeOK
  <2>3. \A t \in Sessions : Process(t) = w => t = w
    BY ProcessFacts DEF Process
  <2> QED
    BY <1>2, <2>1, <2>2, <2>3, ProcessFacts DEF MadeInv, ChecksInv, At
<1> QED
  BY <1>1, <1>2, <1>3, <1>4, <1>5, ChecksStill DEF MadeInv

LEMMA PassMakes ==
    ASSUME LifecyclesInv, LifecyclesInv', MadeInv, NEW w \in Workers,
         \/ HuntPass(w) \/ ExercisePass(w) \/ PosturePass(w) \/ ProgramPass(w)
         \/ DecisionPass(w)
    PROVE  MadeInv'
<1>1. Typed /\ Typed' /\ w \in Sessions
  BY DEF LifecyclesInv, Sessions
<1>2. UNCHANGED <<row, hyps, checks, known, life>>
  BY DEF HuntPass, ExercisePass, PosturePass, ProgramPass, DecisionPass, PassHeld
<1>3. NobodyMakes
  <2>1. CASE HuntPass(w) \/ PosturePass(w) \/ ProgramPass(w)
    <3>1. \E facts \in 0..1, frozen \in BOOLEAN : CreateOrSync(w, facts, frozen)
      BY <2>1 DEF HuntPass, PosturePass, ProgramPass, Frozen
    <3> QED
      BY <1>1, <3>1, LookupMakes
  <2>2. CASE ExercisePass(w)
    <3> DEFINE q == [Idle EXCEPT !.pc = "look", !.id = held[w].id]
    <3>1. q.pc = "look" /\ Assigned(w, q)
      BY <2>2 DEF ExercisePass, Assigned, Idle
    <3> HIDE DEF q
    <3> QED
      BY <1>1, <3>1, ElsewhereMakes
  <2>3. CASE DecisionPass(w)
    BY <1>1, <2>3, SeekFirst DEF DecisionPass
  <2> QED
    BY <2>1, <2>2, <2>3
<1> QED
  BY <1>1, <1>2, <1>3, NothingMade DEF RowStays

\* A restart begins another life, in which nothing was inserted yet.
LEMMA RestartMakes ==
    ASSUME LifecyclesInv, LifecyclesInv', MadeInv, NEW p \in Processes, Restart(p)
    PROVE  MadeInv'
<1>1. Typed /\ Typed'
  BY DEF LifecyclesInv
<1>2. UNCHANGED <<row, hyps, checks>>
  BY DEF Restart
<1>3. NobodyMakes
  <2> SUFFICES ASSUME NEW t \in Sessions, session'[t] # session[t]
               PROVE  session'[t].pc \notin {"newcheck", "hypothesize"}
    BY DEF NobodyMakes
  <2>1. session'[t] = [session[t] EXCEPT !.pc = Breaks(t)] /\ session[t] \in Session
    BY <1>1, RestartedSession DEF Typed, LifecyclesTypeOK
  <2>2. session'[t].pc = Breaks(t)
    BY <2>1 DEF Session
  <2> QED
    BY <2>2, WhereTo
<1>4. HypothesesInv'
  BY <1>1, <1>2, <1>3, NothingAdded DEF MadeInv, RowStays
<1>5. life \in [Processes -> 0..MaxTroubles] /\ life' = [life EXCEPT ![p] = @ + 1]
      /\ known' = [known EXCEPT ![p] = None] /\ known \in [Processes -> Known \cup {None}]
      /\ MaxTroubles \in Nat
  BY <1>1, LifecyclesAssumption DEF Restart, Typed, LifecyclesTypeOK
<1>6. life'[p] = life[p] + 1 /\ life[p] \in Nat
      /\ \A r \in Processes \ {p} : life'[r] = life[r] /\ known'[r] = known[r]
  BY <1>5
<1>7. \A i \in DOMAIN checks : checks[i] \in Check /\ checks[i].by \in Processes /\ checks[i].life \in Nat
  <2>1. checks \in Seq(Check)
    BY <1>1 DEF Typed, LifecyclesTypeOK
  <2>2. \A i \in DOMAIN checks : checks[i] \in Check
    BY <2>1
  <2> QED
    BY <2>2 DEF Check
<1>8. \A i \in DOMAIN checks : checks[i].by = p => checks[i].life <= life[p]
  BY DEF MadeInv, ChecksInv
<1>9. Unchecked(p)'
  BY <1>2, <1>6, <1>7, <1>8 DEF Unchecked
<1>10. \A r \in Processes \ {p} : Unchecked(r) => Unchecked(r)'
  BY <1>2, <1>6 DEF Unchecked
<1>11. \A i \in DOMAIN checks' : checks'[i].life <= life'[checks'[i].by]
  <2> SUFFICES ASSUME NEW i \in DOMAIN checks PROVE checks[i].life <= life'[checks[i].by]
    BY <1>2
  <2>1. CASE checks[i].by = p
    BY <1>6, <1>7, <1>8, <2>1
  <2>2. CASE checks[i].by # p
    BY <1>6, <1>7, <2>2 DEF MadeInv, ChecksInv
  <2> QED
    BY <2>1, <2>2
<1>12. \A t \in Sessions : At(t, "newcheck")' => At(t, "newcheck") /\ Process(t) # p
  <2> SUFFICES ASSUME NEW t \in Sessions, session'[t].pc = "newcheck"
               PROVE  session[t].pc = "newcheck" /\ Process(t) # p
    BY DEF At
  <2>1. session'[t] = session[t] /\ session[t].pc = "newcheck"
    BY <1>3 DEF NobodyMakes
  <2>2. CASE Process(t) = p
    <3>1. session'[t] = [session[t] EXCEPT !.pc = Breaks(t)] /\ session[t] \in Session
      BY <1>1, <2>1, <2>2 DEF Restart, At, Typed, LifecyclesTypeOK
    <3>2. session'[t].pc = Breaks(t)
      BY <3>1 DEF Session
    <3> QED
      BY <2>1, <3>2, WhereTo
  <2> QED
    BY <2>1, <2>2
<1>13. \A r \in Processes : known'[r] = None => Unchecked(r)'
  BY <1>6, <1>9, <1>10 DEF MadeInv, ChecksInv
<1>14. \A t \in Sessions : At(t, "newcheck")' => known'[Process(t)] # None /\ Unchecked(Process(t))'
  BY <1>6, <1>10, <1>12, ProcessFacts DEF MadeInv, ChecksInv
<1>15. \A t, u \in Sessions :
          At(t, "newcheck")' /\ At(u, "newcheck")' /\ Process(t) = Process(u) => t = u
  BY <1>12 DEF MadeInv, ChecksInv
<1>16. \A t : Process(t)' = Process(t)
  BY DEF Process
<1>17. ChecksInv'
  BY <1>2, <1>11, <1>13, <1>14, <1>15, <1>16 DEF MadeInv, ChecksInv
<1> QED
  BY <1>4, <1>17 DEF MadeInv

LEMMA MadeStep ==
    ASSUME LifecyclesInv, LifecyclesInv', MadeInv, [LifecyclesNext]_lifeVars
    PROVE  MadeInv'
<1>1. CASE UNCHANGED lifeVars
  <2>1. NobodyMakes /\ RowStays /\ Typed /\ Typed'
    BY <1>1 DEF lifeVars, NobodyMakes, RowStays, LifecyclesInv
  <2> QED
    BY <1>1, <2>1, NothingMade DEF lifeVars
<1>2. CASE LifecyclesNext
  BY <1>2, RequestsMake, TransactionsMake, InsertMakes, JudgeMakes, InsertCheckMakes,
     UpdateCheckMakes, HypothesisMakes, BootstrapMakes, PassMakes, RestartMakes
     DEF LifecyclesNext
<1> QED
  BY <1>1, <1>2

LEMMA InitMade == LifecyclesInit => MadeInv
<1> SUFFICES ASSUME LifecyclesInit PROVE MadeInv
  OBVIOUS
<1>1. checks = <<>> /\ hyps = 0 /\ \A s \in Sessions : session[s].pc = "idle"
  BY DEF LifecyclesInit, Idle
<1>2. Adding \subseteq Workers
  BY DEF Adding
<1>3. HypothesesInv
  BY <1>1, <1>2, AddingFinite DEF HypothesesInv
<1>4. ChecksInv
  BY <1>1 DEF ChecksInv, Unchecked, At
<1> QED
  BY <1>3, <1>4 DEF MadeInv

\* Hypotheses and validations are made once however requests, passes and
\* restarts overlap (create_hypothesis, validate_exercise_techniques).
THEOREM MadeOnce == LifecyclesSpec => []NothingIsMadeTwice
<1>1. LifecyclesInit => LifecyclesInv /\ MadeInv
  BY InitInv, InitMade
<1>2. LifecyclesInv /\ MadeInv /\ [LifecyclesNext]_lifeVars => LifecyclesInv' /\ MadeInv'
  BY NextInv, MadeStep
<1>3. LifecyclesInv /\ MadeInv => NothingIsMadeTwice
  <2> SUFFICES ASSUME LifecyclesInv, MadeInv PROVE NothingIsMadeTwice
    OBVIOUS
  <2>1. hyps \in Nat /\ Adding \subseteq Workers
    BY DEF LifecyclesInv, Typed, LifecyclesTypeOK, Adding
  <2>2. hyps <= Cardinality(Workers)
    BY <2>1, AddingFinite DEF MadeInv, HypothesesInv
  <2> QED
    BY <2>2 DEF NothingIsMadeTwice, MadeInv, ChecksInv
<1>4. QED
  BY <1>1, <1>2, <1>3, PTL DEF LifecyclesSpec
=============================================================================
