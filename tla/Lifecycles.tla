----------------------------- MODULE Lifecycles -----------------------------
(***************************************************************************)
(* Hunts, purple team exercises, security postures, programs and decisions *)
(* live in a dictionary of each process and in a row of the database.  The *)
(* services of these five kinds change the dictionary first, in the same   *)
(* synchronous stretch as the check of the old status, and only then open  *)
(* a transaction, read the row by the id the dictionary has for it and     *)
(* write row and history.  If the row is not found nothing is recorded and *)
(* the caller is answered all the same.                                    *)
(*                                                                         *)
(* One record of one kind is followed.  The requests are those of the API  *)
(* process, which never loads its dictionaries from the database; a worker *)
(* loads them when a run starts, for it takes every start for a cold one,  *)
(* and makes a pass after each step of the run.                            *)
(***************************************************************************)
EXTENDS Integers, Sequences, FiniteSets

CONSTANTS
    Kinds,       \* the kinds of record to consider
    Requests,    \* requests to the API, each made once
    Workers,     \* worker processes
    MaxPasses,   \* passes a worker makes
    MaxTroubles, \* commits the database refuses and restarts
    API,         \* the API process
    None

Sessions == Requests \cup Workers
Processes == Workers \cup {API}

ASSUME LifecyclesAssumption ==
    /\ Kinds \subseteq {"hunt", "exercise", "posture", "program", "decision"}
    /\ Requests \cap Workers = {}
    /\ IsFiniteSet(Requests) /\ IsFiniteSet(Workers)
    /\ API \notin Sessions
    /\ None \notin Sessions \cup Processes
    /\ MaxPasses \in Nat
    /\ MaxTroubles \in Nat

VARIABLES
    kind,    \* what the record is
    row,     \* its committed row, None before the first INSERT
    version, \* the version column of the row
    log,     \* its committed history
    held,    \* held[p]: what the dictionary of p has under its fingerprint
    hyps,    \* committed standard hypotheses (hunts)
    checks,  \* committed validations of its technique (exercises)
    known,   \* known[p]: the validation the dictionary of p has
    session, \* session[s]: where a request or a pass is
    cold,    \* cold[w]: how much of its bootstrap w still has to do
    passes,  \* passes[w]: passes w has started
    life,    \* life[p]: restarts of p
    troubles \* refused commits and restarts so far

lifeVars == <<kind, row, version, log, held, hyps, checks, known, session, cold,
              passes, life, troubles>>

Statuses == {"OPEN", "PLANNED", "ACTIVE", "UNDER_REVIEW", "ESCALATED", "COMPLETED",
             "CLOSED", "ACCEPTED", "MITIGATED", "RECOMMENDED", "COMMITTED",
             "ARCHIVED"}
Outcomes == {"PASSED", "FAILED"}

\* facts: what a synchronisation compares and copies (description, severity,
\* owner, scores); id: 0 for the first record, another for each new one.
Row == [id: Nat, status: Statuses, facts: 0..1]
\* techniques: the exercise knows the technique it is about.
Held == [id: Nat, status: Statuses, facts: 0..1, techniques: BOOLEAN]
\* turn: when the API process decided the change, 0 for a pass.
Entry == [status: Statuses \cup {"UPDATED"}, by: Sessions \cup {None}, turn: Nat]
Check == [outcome: Outcomes, by: Processes, life: Nat]
Known == [at: Nat, outcome: Outcomes] \* at: its row in checks, 0 for none
ASSUME NoneAssumption == None \notin Row \cup Held \cup Known

FirstStatus == IF kind = "program" THEN "PLANNED"
               ELSE IF kind = "decision" THEN "ACTIVE" ELSE "OPEN"

\* What a service treats as final.
Terminal(st) == \/ st \in {"CLOSED", "ARCHIVED"}
                \/ kind = "program" /\ st = "COMPLETED"

PCs == {"idle", "seek", "keep", "insert", "load", "commit", "hypotheses", "hypothesize",
        "look", "judge", "newcheck", "loadcheck", "check", "done", "failed"}
\* op: what the session does to the record; new: the row as it will write it.
Session == [pc: PCs, op: {"none", "create", "sync", "move"}, id: Nat, to: Statuses,
            facts: 0..1, base: Nat, outcome: Outcomes, turn: Nat]
Idle == [pc |-> "idle", op |-> "none", id |-> 0, to |-> "OPEN", facts |-> 0,
         base |-> 0, outcome |-> "PASSED", turn |-> 0]

LifecyclesTypeOK ==
    /\ kind \in Kinds
    /\ row \in Row \cup {None}
    /\ version \in Nat
    /\ log \in Seq(Entry)
    /\ held \in [Processes -> Held \cup {None}]
    /\ hyps \in Nat
    /\ checks \in Seq(Check)
    /\ known \in [Processes -> Known \cup {None}]
    /\ session \in [Sessions -> Session]
    /\ cold \in [Workers -> {"cold", "half", "warm"}]
    /\ passes \in [Workers -> 0..MaxPasses]
    /\ life \in [Processes -> 0..MaxTroubles]
    /\ troubles \in 0..MaxTroubles

Process(s) == IF s \in Workers THEN s ELSE API
At(s, pc) == session[s].pc = pc
Goes(s, pc) == session' = [session EXCEPT ![s].pc = pc]

\* A request answers; a pass goes on to its next service.
Ends(s) == IF s \in Workers THEN "idle" ELSE "done"
Breaks(s) == IF s \in Workers THEN "idle" ELSE "failed"

IdsInUse == {0} \cup {r.id : r \in {row} \ {None}} \cup {session[s].id : s \in Sessions}
                \cup {held[p].id : p \in {q \in Processes : held[q] # None}}
FreshId == CHOOSE n \in 0..Cardinality(IdsInUse) : n \notin IdsInUse
NextTurn == 1 + Cardinality({q \in Requests : session[q].turn > 0})

OnlySession == UNCHANGED <<kind, row, version, log, held, hyps, checks, known,
                           cold, passes, life, troubles>>
OnlyHeld == UNCHANGED <<kind, row, version, log, hyps, checks, known, cold,
                        passes, life, troubles>>
OnlyKnown == UNCHANGED <<kind, row, version, log, held, hyps, checks, cold,
                         passes, life, troubles>>
OnlyRow == UNCHANGED <<kind, held, hyps, checks, known, cold, passes, life, troubles>>

Copy(techniques) == [id |-> row.id, status |-> row.status, facts |-> row.facts,
                     techniques |-> techniques]

\* The record may exist already, at any point of its life; then the API made
\* it, or does not know it; a worker is cold or has loaded it.
StatusesOf == CASE kind = "hunt" -> {"OPEN", "ACTIVE", "COMPLETED", "CLOSED"}
                [] kind = "exercise" -> {"OPEN", "ACTIVE", "COMPLETED"}
                [] kind = "posture" -> {"OPEN", "ACCEPTED", "CLOSED"}
                [] kind = "program" -> {"PLANNED", "ACTIVE", "COMPLETED"}
                [] kind = "decision" -> {"ACTIVE", "COMMITTED", "ARCHIVED"}

LifecyclesInit ==
    /\ kind \in Kinds
    /\ \/ row = None /\ version = 0 /\ log = <<>>
       \/ /\ row \in {[id |-> 0, status |-> st, facts |-> 0] : st \in StatusesOf}
          /\ version = 1
          /\ log = <<[status |-> row.status, by |-> None, turn |-> 0]>>
    /\ cold \in [Workers -> {"cold", "warm"}]
    /\ checks = <<>> /\ hyps = 0
    /\ held \in [Processes -> {None} \cup
                    IF row = None THEN {} ELSE {Copy(TRUE), Copy(FALSE)}]
    /\ held[API] # None => held[API].techniques
    /\ \A w \in Workers : held[w] = IF cold[w] = "cold" \/ row = None THEN None
                                    ELSE Copy(FALSE)
    /\ known = [p \in Processes |-> None]
    /\ session = [s \in Sessions |-> Idle]
    /\ passes = [w \in Workers |-> 0]
    /\ life = [p \in Processes |-> 0]
    /\ troubles = 0

-----------------------------------------------------------------------------
(* create_or_sync_*: look the fingerprint up in the dictionary; change the  *)
(* record there, or put a new one there, and then go to the database.       *)

Makes(s, facts, turn) ==
    /\ held' = [held EXCEPT ![Process(s)] =
                   [id |-> FreshId, status |-> FirstStatus, facts |-> facts,
                    techniques |-> kind = "exercise"]]
    /\ session' = [session EXCEPT ![s] = [Idle EXCEPT !.pc = "insert", !.op = "create",
                       !.id = FreshId, !.to = FirstStatus, !.facts = facts, !.turn = turn]]

\* Where a pass goes once the record is in step: a hunt gets its hypothesis.
Synced(s) == IF s \in Workers /\ kind = "hunt" THEN "hypotheses" ELSE Ends(s)

Syncs_Slip(s, facts, turn, frozen) ==        \* closed records are changed too
    LET mine == held[Process(s)] IN
    IF mine.facts # facts
    THEN /\ held' = [held EXCEPT ![Process(s)].facts = facts]
         /\ session' = [session EXCEPT ![s] = [Idle EXCEPT !.pc = "load", !.op = "sync",
                            !.id = mine.id, !.turn = turn]]
    ELSE /\ session' = [session EXCEPT ![s] = [Idle EXCEPT !.pc = Synced(s), !.id = mine.id]]
         /\ UNCHANGED held

Syncs(s, facts, turn, frozen) ==
    LET mine == held[Process(s)] IN
    IF mine.facts # facts /\ ~frozen
    THEN /\ held' = [held EXCEPT ![Process(s)].facts = facts]
         /\ session' = [session EXCEPT ![s] = [Idle EXCEPT !.pc = "load", !.op = "sync",
                            !.id = mine.id, !.turn = turn]]
    ELSE /\ session' = [session EXCEPT ![s] = [Idle EXCEPT !.pc = Synced(s), !.id = mine.id]]
         /\ UNCHANGED held

Asks(s) == IF s \in Workers THEN 0 ELSE NextTurn

CreateOrSync(s, facts, frozen) ==
    IF held[Process(s)] = None THEN Makes(s, facts, Asks(s))
    ELSE Syncs(s, facts, Asks(s), frozen)

Frozen(p) == held[p] # None /\ Terminal(held[p].status)

\* A hunt is synchronised whatever its status.
CreateOrSyncHunt(s, facts) ==
    kind = "hunt" /\ CreateOrSync(s, facts, FALSE) /\ OnlyHeld
CreateOrSyncExercise(s, facts) ==
    kind = "exercise" /\ CreateOrSync(s, facts, Frozen(Process(s))) /\ OnlyHeld
CreateOrSyncPosture(s, facts) ==
    kind = "posture" /\ CreateOrSync(s, facts, Frozen(Process(s))) /\ OnlyHeld
CreateOrSyncProgram(s, facts) ==
    kind = "program" /\ CreateOrSync(s, facts, Frozen(Process(s))) /\ OnlyHeld

\* A decision has nothing to synchronise; one that the dictionary lacks is
\* looked up in the database first.  What was found goes into the dictionary
\* when the transaction is closed, whatever the dictionary has by then.
CreateOrSyncDecision(s) ==
    /\ kind = "decision"
    /\ session' = [session EXCEPT ![s] = [Idle EXCEPT
                       !.pc = IF held[Process(s)] = None THEN "seek" ELSE Ends(s)]]
    /\ OnlySession
SeekDecision(s) ==
    /\ At(s, "seek")
    /\ session' = [session EXCEPT ![s] =
           IF row = None THEN [@ EXCEPT !.pc = "keep", !.op = "create"]
           ELSE [@ EXCEPT !.pc = "keep", !.op = "sync", !.id = row.id, !.to = row.status]]
    /\ OnlySession
KeepDecision(s) ==
    /\ At(s, "keep")
    /\ IF session[s].op = "create" THEN Makes(s, 0, Asks(s))
       ELSE /\ held' = [held EXCEPT ![Process(s)] =
                    [id |-> session[s].id, status |-> session[s].to, facts |-> 0,
                     techniques |-> FALSE]]
            /\ Goes(s, Ends(s))
    /\ OnlyHeld

-----------------------------------------------------------------------------
(* The changes of status, each a method of a service.                       *)

\* An activated exercise is validated before the request answers.
Answered(to) == IF kind = "exercise" /\ to = "ACTIVE" THEN "look" ELSE "done"

Moves_Slip(q, to, from, unless, otherwise) ==  \* the dictionary is left behind
    LET mine == held[API] IN
    /\ At(q, "idle")
    /\ IF mine.status \in unless
       THEN /\ session' = [session EXCEPT ![q].pc = Answered(to), ![q].id = mine.id]
            /\ OnlySession
       ELSE IF mine.status \notin from
       THEN Goes(q, otherwise) /\ OnlySession
       ELSE /\ UNCHANGED held
            /\ session' = [session EXCEPT ![q] = [Idle EXCEPT !.pc = "load", !.op = "move",
                               !.id = mine.id, !.to = to, !.turn = NextTurn]]
            /\ OnlyHeld

Moves(q, to, from, unless, otherwise) ==
    LET mine == held[API] IN
    /\ At(q, "idle")
    /\ IF mine.status \in unless
       THEN /\ session' = [session EXCEPT ![q].pc = Answered(to), ![q].id = mine.id]
            /\ OnlySession
       ELSE IF mine.status \notin from
       THEN Goes(q, otherwise) /\ OnlySession
       ELSE /\ held' = [held EXCEPT ![API].status = to]
            /\ session' = [session EXCEPT ![q] = [Idle EXCEPT !.pc = "load", !.op = "move",
                               !.id = mine.id, !.to = to, !.turn = NextTurn]]
            /\ OnlyHeld

Live == Statuses \ {"CLOSED", "ARCHIVED"}
MovesHunt(q, to) == kind = "hunt" /\ Moves(q, to, Live, {to}, "failed")
ActivateHunt(q) == MovesHunt(q, "ACTIVE")
ReviewHunt(q) == MovesHunt(q, "UNDER_REVIEW")
CompleteHunt(q) == MovesHunt(q, "COMPLETED")
EscalateHunt(q) == MovesHunt(q, "ESCALATED")
CloseHunt(q) == MovesHunt(q, "CLOSED")

MovesExercise(q, to, from) == kind = "exercise" /\ Moves(q, to, from, {to}, "failed")
ActivateExercise(q) == MovesExercise(q, "ACTIVE", {"OPEN", "UNDER_REVIEW"})
ReviewExercise(q) == MovesExercise(q, "UNDER_REVIEW", {"ACTIVE"})
CompleteExercise(q) == MovesExercise(q, "COMPLETED", {"ACTIVE", "UNDER_REVIEW"})
CloseExercise(q) == MovesExercise(q, "CLOSED", {"COMPLETED"})

MovesPosture(q, to) == kind = "posture" /\ Moves(q, to, Live, {to}, "failed")
AcceptRisk(q) == MovesPosture(q, "ACCEPTED")
MitigateRisk(q) == MovesPosture(q, "MITIGATED")
ClosePosture(q) == MovesPosture(q, "CLOSED")

\* Any status may follow any other, itself included, unless it is terminal.
TransitionProgramStatus(q) ==
    \E to \in {"ACTIVE", "UNDER_REVIEW", "COMPLETED", "CLOSED"} :
        kind = "program" /\ Moves(q, to, Live \ {"COMPLETED"}, {}, "failed")

\* An archived decision is answered as it is.
MovesDecision(q, to) == kind = "decision" /\ Moves(q, to, Live, {to}, "done")
RecommendDecision(q) == MovesDecision(q, "RECOMMENDED")
CommitDecision(q) == MovesDecision(q, "COMMITTED")
ArchiveDecision(q) == MovesDecision(q, "ARCHIVED")

-----------------------------------------------------------------------------
(* The transactions.                                                        *)

\* The row is looked for by the id in the dictionary; without one the change
\* stays in the dictionary and the caller is answered.
Settled(s) == IF session[s].op = "move" THEN Answered(session[s].to) ELSE Synced(s)
IsSaved(id) == row # None /\ row.id = id
LoadRow(s) ==
    /\ At(s, "load")
    /\ IF IsSaved(session[s].id)
       THEN session' = [session EXCEPT ![s].pc = "commit", ![s].base = version,
                                       ![s].facts = held[Process(s)].facts]
       ELSE Goes(s, Settled(s))
    /\ OnlySession

Logged(s, status) == Append(log, [status |-> status, by |-> s, turn |-> session[s].turn])

\* The two rows a synchronised posture leaves in its history, SCORE_CHANGED and
\* DRIFT_DETECTED of one transaction, stand as one entry.
\* The UPDATE names the version that was read; another writer in between makes
\* it fail, and what the dictionary says stays said.
WriteRow_Slip(s) ==                          \* no version in the UPDATE
    /\ At(s, "commit")
    /\ IF session[s].op = "move"
       THEN row' = [row EXCEPT !.status = session[s].to] /\ log' = Logged(s, session[s].to)
       ELSE row' = [row EXCEPT !.facts = session[s].facts] /\ log' = Logged(s, "UPDATED")
    /\ version' = session[s].base + 1
    /\ Goes(s, Settled(s))
    /\ OnlyRow

WriteRow(s) ==
    /\ At(s, "commit") /\ version = session[s].base
    /\ IF session[s].op = "move"
       THEN row' = [row EXCEPT !.status = session[s].to] /\ log' = Logged(s, session[s].to)
       ELSE row' = [row EXCEPT !.facts = session[s].facts] /\ log' = Logged(s, "UPDATED")
    /\ version' = version + 1
    /\ Goes(s, Settled(s))
    /\ OnlyRow

StaleWrite(s) ==
    /\ At(s, "commit") /\ version # session[s].base
    /\ Goes(s, Breaks(s))
    /\ OnlySession

\* The fingerprint is unique: the second INSERT fails and leaves its record in
\* the dictionary under an id that no row has.
InsertRow(s) ==
    /\ At(s, "insert") /\ row = None
    /\ row' = [id |-> session[s].id, status |-> FirstStatus, facts |-> session[s].facts]
    /\ version' = 1
    /\ log' = Logged(s, FirstStatus)
    /\ Goes(s, Synced(s))
    /\ OnlyRow
InsertFails(s) ==
    /\ At(s, "insert") /\ row # None
    /\ Goes(s, Breaks(s))
    /\ OnlySession

-----------------------------------------------------------------------------
(* The standard hypothesis of a generated hunt: read, then added if absent. *)

ReadHypotheses(w) ==
    /\ At(w, "hypotheses")
    /\ Goes(w, IF IsSaved(session[w].id) /\ hyps > 0 THEN "idle" ELSE "hypothesize")
    /\ OnlySession
CreateHypothesis(w) ==
    /\ At(w, "hypothesize")
    /\ hyps' = IF IsSaved(session[w].id) THEN hyps + 1 ELSE hyps \* else no such hunt
    /\ Goes(w, "idle")
    /\ UNCHANGED <<kind, row, version, log, held, checks, known, cold, passes, life,
                   troubles>>

-----------------------------------------------------------------------------
(* validate_exercise_techniques: findings are queried, then the outcome is  *)
(* compared with the validation in the dictionary, then written.            *)

FetchFindings(s) ==
    /\ At(s, "look")
    /\ Goes(s, "judge")
    /\ OnlySession

Judge_Slip(s) == \E outcome \in Outcomes :   \* in the dictionary once it is saved
    /\ At(s, "judge")
    /\ IF ~held[Process(s)].techniques
       THEN Goes(s, Ends(s)) /\ OnlySession
       ELSE /\ session' = [session EXCEPT ![s].outcome = outcome,
                   ![s].pc = IF known[Process(s)] = None THEN "newcheck" ELSE "loadcheck"]
            /\ OnlySession

Judge(s) == \E outcome \in Outcomes :
    LET p == Process(s) IN
    /\ At(s, "judge")
    /\ IF ~held[p].techniques \/ (known[p] # None /\ known[p].outcome = outcome)
       THEN Goes(s, Ends(s)) /\ OnlySession
       ELSE /\ known' = [known EXCEPT ![p] =
                   IF @ = None THEN [at |-> 0, outcome |-> outcome]
                   ELSE [@ EXCEPT !.outcome = outcome]]
            /\ session' = [session EXCEPT ![s].outcome = outcome,
                   ![s].pc = IF known[p] = None THEN "newcheck" ELSE "loadcheck"]
            /\ OnlyKnown

OnlyChecks == UNCHANGED <<kind, row, version, log, held, hyps, cold, passes, life,
                          troubles>>
\* Refused by the foreign key if the exercise has no row.
InsertCheck(s) ==
    LET p == Process(s) IN
    /\ At(s, "newcheck")
    /\ IF IsSaved(session[s].id)
       THEN /\ checks' = Append(checks, [outcome |-> session[s].outcome, by |-> p,
                                         life |-> life[p]])
            /\ known' = [known EXCEPT ![p] = [outcome |-> IF @ = None THEN session[s].outcome
                                                          ELSE @.outcome,
                                              at |-> Len(checks) + 1]]
            /\ Goes(s, Ends(s))
            /\ OnlyChecks
       ELSE Goes(s, Breaks(s)) /\ OnlySession
LoadCheck(s) ==
    /\ At(s, "loadcheck")
    /\ Goes(s, IF known[Process(s)].at = 0 THEN Ends(s) ELSE "check")
    /\ OnlySession
UpdateCheck(s) ==
    /\ At(s, "check")
    /\ checks' = [checks EXCEPT ![known[Process(s)].at].outcome = session[s].outcome]
    /\ Goes(s, Ends(s))
    /\ UNCHANGED known /\ OnlyChecks

-----------------------------------------------------------------------------
(* Passes.  A run looks for nodes of the intelligence fabric, finds none,   *)
(* for nothing makes one, and so empties and loads the dictionaries, the    *)
(* validations well before the exercises; an exercise has the techniques of *)
(* the validations it finds.                                                *)

BootstrapValidations(w) ==
    /\ At(w, "idle") /\ passes[w] < MaxPasses
    /\ cold' = [cold EXCEPT ![w] = "half"]
    /\ held' = [held EXCEPT ![w] = None]
    /\ IF checks = <<>> THEN known' = [known EXCEPT ![w] = None]
       ELSE \E i \in DOMAIN checks :
               known' = [known EXCEPT ![w] = [at |-> i, outcome |-> checks[i].outcome]]
    /\ UNCHANGED <<kind, row, version, log, hyps, checks, session, passes, life, troubles>>
BootstrapRecords(w) ==
    /\ At(w, "idle") /\ cold[w] = "half"
    /\ cold' = [cold EXCEPT ![w] = "warm"]
    /\ held' = [held EXCEPT ![w] = IF row = None THEN None ELSE Copy(checks # <<>>)]
    /\ UNCHANGED <<kind, row, version, log, hyps, checks, known, session, passes,
                   life, troubles>>

\* Hunts, postures, programs and decisions are synchronised, exercises that
\* the dictionary does not show as closed are validated.
StartsPass(w) == At(w, "idle") /\ cold[w] = "warm" /\ passes[w] < MaxPasses
Counted(w) == passes' = [passes EXCEPT ![w] = @ + 1]
PassHeld == UNCHANGED <<kind, row, version, log, hyps, checks, known, cold, life, troubles>>

HuntPass(w) == \E facts \in 0..1 :
    /\ StartsPass(w) /\ kind = "hunt"
    /\ CreateOrSync(w, facts, FALSE) /\ Counted(w) /\ PassHeld
ExercisePass(w) ==
    /\ StartsPass(w) /\ kind = "exercise"
    /\ held[w] # None /\ held[w].status # "CLOSED"
    /\ session' = [session EXCEPT ![w] = [Idle EXCEPT !.pc = "look", !.id = held[w].id]]
    /\ Counted(w) /\ UNCHANGED held /\ PassHeld
PosturePass(w) == \E facts \in 0..1 :
    /\ StartsPass(w) /\ kind = "posture"
    /\ CreateOrSync(w, facts, Frozen(w)) /\ Counted(w) /\ PassHeld
ProgramPass(w) == \E facts \in 0..1 :
    /\ StartsPass(w) /\ kind = "program"
    /\ CreateOrSync(w, facts, Frozen(w)) /\ Counted(w) /\ PassHeld
DecisionPass(w) ==
    /\ StartsPass(w) /\ kind = "decision"
    /\ session' = [session EXCEPT ![w] = [Idle EXCEPT
                       !.pc = IF held[w] = None THEN "seek" ELSE "idle"]]
    /\ Counted(w) /\ UNCHANGED held /\ PassHeld

\* A commit the database refuses (bound: MaxTroubles, with the restarts).
Refused(s) ==
    /\ session[s].pc \in {"insert", "commit", "hypothesize", "newcheck", "check"}
    /\ troubles < MaxTroubles
    /\ troubles' = troubles + 1
    /\ Goes(s, Breaks(s))
    /\ UNCHANGED <<kind, row, version, log, held, hyps, checks, known, cold, passes, life>>

\* A process loses its dictionaries and what it was doing.
Restart(p) ==
    /\ troubles < MaxTroubles
    /\ held' = [held EXCEPT ![p] = None]
    /\ known' = [known EXCEPT ![p] = None]
    /\ session' = [s \in Sessions |->
           IF Process(s) # p \/ At(s, "done") \/ (s \in Requests /\ At(s, "idle"))
           THEN session[s] ELSE [session[s] EXCEPT !.pc = Breaks(s)]]
    /\ cold' = [w \in Workers |-> IF w = p THEN "cold" ELSE cold[w]]
    /\ life' = [life EXCEPT ![p] = @ + 1]
    /\ troubles' = troubles + 1
    /\ UNCHANGED <<kind, row, version, log, hyps, checks, passes>>

-----------------------------------------------------------------------------

\* The endpoints of the five routers.
PostHunt(q) == At(q, "idle") /\ \E facts \in 0..1 : CreateOrSyncHunt(q, facts)
PostExercise(q) == At(q, "idle") /\ \E facts \in 0..1 : CreateOrSyncExercise(q, facts)
PostPosture(q) == At(q, "idle") /\ \E facts \in 0..1 : CreateOrSyncPosture(q, facts)
PostProgram(q) == At(q, "idle") /\ \E facts \in 0..1 : CreateOrSyncProgram(q, facts)
PostDecision(q) == At(q, "idle") /\ CreateOrSyncDecision(q)

\* A record the dictionary does not have is answered with 404.
NotFound(q) ==
    /\ At(q, "idle") /\ held[API] = None
    /\ Goes(q, "failed")
    /\ OnlySession
HuntEndpoints(q) ==
    /\ held[API] # None
    /\ \/ ActivateHunt(q) \/ ReviewHunt(q) \/ CompleteHunt(q) \/ EscalateHunt(q)
       \/ CloseHunt(q)
ExerciseEndpoints(q) ==
    /\ held[API] # None
    /\ \/ ActivateExercise(q) \/ ReviewExercise(q) \/ CompleteExercise(q)
       \/ CloseExercise(q)
PostureEndpoints(q) ==
    held[API] # None /\ (AcceptRisk(q) \/ MitigateRisk(q) \/ ClosePosture(q))
ProgramEndpoints(q) == held[API] # None /\ TransitionProgramStatus(q)
DecisionEndpoints(q) ==
    held[API] # None /\ (RecommendDecision(q) \/ CommitDecision(q) \/ ArchiveDecision(q))

LifecyclesNext ==
    \/ \E q \in Requests :
          \/ PostHunt(q) \/ PostExercise(q) \/ PostPosture(q) \/ PostProgram(q)
          \/ PostDecision(q) \/ NotFound(q)
          \/ HuntEndpoints(q) \/ ExerciseEndpoints(q) \/ PostureEndpoints(q)
          \/ ProgramEndpoints(q) \/ DecisionEndpoints(q)
    \/ \E s \in Sessions :
          \/ SeekDecision(s) \/ KeepDecision(s)
          \/ LoadRow(s) \/ WriteRow(s) \/ StaleWrite(s)
          \/ InsertRow(s) \/ InsertFails(s)
          \/ FetchFindings(s) \/ Judge(s) \/ InsertCheck(s) \/ LoadCheck(s) \/ UpdateCheck(s)
          \/ Refused(s)
    \/ \E w \in Workers :
          \/ ReadHypotheses(w) \/ CreateHypothesis(w)
          \/ BootstrapValidations(w) \/ BootstrapRecords(w)
          \/ HuntPass(w) \/ ExercisePass(w) \/ PosturePass(w) \/ ProgramPass(w)
          \/ DecisionPass(w)
    \/ \E p \in Processes : Restart(p)

LifecyclesSpec == LifecyclesInit /\ [][LifecyclesNext]_lifeVars

-----------------------------------------------------------------------------
(* Properties.                                                              *)

\* Row, version and history move together: every version has its entry, the
\* last change of status in the history is the status of the row, and a change
\* that found its row and was answered is in the history, so that a writer that
\* lost the race is not told it has won (the transactions of the services).
HistoryTellsTheRow ==
    /\ row # None =>
          /\ Len(log) = version
          /\ \E i \in DOMAIN log : /\ log[i].status = row.status
                                   /\ \A j \in (i + 1)..Len(log) : log[j].status = "UPDATED"
    /\ \A q \in Requests : At(q, "done") /\ session[q].base > 0 =>
          \E i \in DOMAIN log : log[i].by = q

\* The history shows nothing that was decided after the record was closed,
\* though it may show it later: commits overtake each other, decisions do not,
\* because the check and the change of the dictionary are one stretch.  Only a
\* hunt's facts are still updated.  A decision is left out: a lookup that ends
\* late, or comes after a restart, may put an older status back.
ClosedIsTheLastDecision ==
    kind # "decision" => \A i, j \in DOMAIN log :
        (log[i].turn > 0 /\ Terminal(log[i].status) /\ log[j].turn > log[i].turn)
            => (kind = "hunt" /\ log[j].status = "UPDATED")

\* The API shows a record that has no row, or a status other than the row's,
\* only for a reason: a request is still at work, a commit failed, or two
\* commits came in the opposite order of the decisions; or it is a decision's,
\* put back by a lookup.
Decided(q) == session[q].turn > 0
AllRecorded ==
    \A q \in Requests : /\ session[q].pc \in {"idle", "done", "failed"}
                        /\ Decided(q) => \E i \in DOMAIN log : log[i].by = q
InOrder == \A i, j \in DOMAIN log :
               (i < j /\ log[i].turn > 0 /\ log[j].turn > 0) => log[i].turn < log[j].turn
DriftHasACause ==
    (kind # "decision" /\ AllRecorded /\ InOrder /\ held[API] # None)
        => row # None /\ held[API].status = row.status

\* What is looked for before it is made is made once: a worker adds the
\* standard hypothesis of a hunt at most once, and between two restarts a
\* process inserts at most one validation of a technique, however its requests
\* overlap, because the dictionary has it before the INSERT.
NothingIsMadeTwice ==
    /\ hyps <= Cardinality(Workers)
    /\ \A i, j \in DOMAIN checks :
          (checks[i].by = checks[j].by /\ checks[i].life = checks[j].life) => i = j
=============================================================================
