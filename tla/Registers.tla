------------------------------ MODULE Registers ------------------------------
(***************************************************************************)
(* Exposures, security controls, detections, executive reports, IOCs and   *)
(* security plans are kept in dictionaries only: nothing of them reaches   *)
(* the database, and a restart forgets them.  A record is found again by a *)
(* fingerprint of what it is about, so that creating it a second time      *)
(* brings it up to date.  The API process creates records and moves them   *)
(* through their statuses; a worker only synchronises, at the end of a     *)
(* scan, what it can discover, in dictionaries of its own.                 *)
(*                                                                         *)
(* One fingerprint of one register of one process is followed.  A request  *)
(* looks the record up, waits for the database to say who owns the scope,  *)
(* and then does its work in one synchronous stretch -- but for the        *)
(* validation of a control that failed, which waits a second time, to emit *)
(* an event, between changing the status and recording the change.         *)
(***************************************************************************)
EXTENDS Integers, Sequences, FiniteSets

CONSTANTS
    Kinds,       \* the registers to consider
    Requests,    \* requests to the API, each made once
    Techniques,  \* the techniques a control is mapped to
    MaxPasses,   \* passes of the worker
    MaxTroubles, \* failed statements and restarts
    None

ASSUME RegistersAssumption ==
    /\ Kinds \subseteq {"exposure", "control", "detection", "report", "ioc", "plan"}
    /\ None \notin Requests
    /\ Techniques # {} /\ IsFiniteSet(Techniques)
    /\ MaxPasses \in Nat
    /\ MaxTroubles \in Nat

VARIABLES
    kind,        \* the register
    place,       \* whose dictionaries: "api" or "worker"
    record,      \* the record under the fingerprint, None before it is made
    trail,       \* its history
    validations, \* validations of a control
    around,      \* what the other registers and tables hold that it relates to
    links,       \* links[e]: correlations recorded with e
    session,     \* session[r]: where a request is
    pass,        \* where the pass of the worker is
    passes,      \* passes begun
    troubles     \* failed statements and restarts so far

registerVars == <<kind, place, record, trail, validations, around, links, session,
                  pass, passes, troubles>>

ExposureStatuses == {"OPEN", "VALIDATED", "ACCEPTED", "MITIGATED", "CLOSED"}
ControlStatuses == {"ACTIVE", "DEGRADED", "FAILED", "RETIRED"}
DetectionStatuses == {"ACTIVE", "DISABLED", "DEPRECATED"}
ReportStatuses == {"DRAFT", "GENERATED", "PUBLISHED", "ARCHIVED"}
IOCStatuses == {"ACTIVE", "EXPIRED", "REVOKED"}
PlanStatuses == {"DRAFT", "APPROVED", "ACTIVE", "CLOSED"}
StatusesOf(k) == CASE k = "exposure" -> ExposureStatuses
                   [] k = "control" -> ControlStatuses
                   [] k = "detection" -> DetectionStatuses
                   [] k = "report" -> ReportStatuses
                   [] k = "ioc" -> IOCStatuses
                   [] k = "plan" -> PlanStatuses
Statuses == ExposureStatuses \cup ControlStatuses \cup DetectionStatuses
                \cup ReportStatuses \cup IOCStatuses \cup PlanStatuses

\* What the docstrings call terminal.
Final(st) == st \in {"CLOSED", "RETIRED", "ARCHIVED", "DISABLED", "DEPRECATED",
                     "EXPIRED", "REVOKED"}
\* The registers where a final record takes nothing more.
Sealed == {"exposure", "control", "report", "plan"}

Neighbours == {"detection", "hunt", "finding"}
Outcomes == {"PASSED", "PARTIAL", "FAILED"}
Record == [status: Statuses, facts: 0..1, score: Int]
\* to: the status an entry tells of, None when it tells of none.
Entry == [event: {"CREATED", "MOVED", "VALIDATED", "CHANGED", "DRIFT_DETECTED"},
          to: Statuses \cup {None}, by: Requests \cup {None}]
Validation == [outcome: Outcomes, technique: Techniques, by: Requests \cup {None}]

ASSUME NoneAssumption == None \notin Statuses /\ None \notin Record

\* "judged": the answer to a validation, "done" to everything else.
PCs == {"idle", "create", "move", "judge", "emit",
        "done", "judged", "rejected", "refused", "broken", "killed"}
Session == [pc: PCs, to: Statuses, facts: 0..1, outcome: Outcomes,
            technique: Techniques, old: Statuses]
Idle == [pc |-> "idle", to |-> "ACTIVE", facts |-> 0, outcome |-> "PASSED",
         technique |-> CHOOSE t \in Techniques : TRUE, old |-> "ACTIVE"]

(***************************************************************************)
(* Effectiveness of a control, in hundredths.                              *)
(***************************************************************************)
Hundredths(a, b) == (200 * a + b) \div (2 * b)
With(vs, o) == Cardinality({i \in DOMAIN vs : vs[i].outcome = o})
ValidationScore(vs) ==
    IF vs = <<>> THEN 10000 ELSE Hundredths(100 * With(vs, "PASSED") + 50 * With(vs, "PARTIAL"), Len(vs))
CoverageScore(vs) ==
    IF vs = <<>> THEN 10000
    ELSE Hundredths(100 * Cardinality({t \in Techniques : \E i \in DOMAIN vs :
                                          vs[i].outcome = "PASSED" /\ vs[i].technique = t}),
                    Cardinality(Techniques))
Effectiveness(vs) == (70 * ValidationScore(vs) + 30 * CoverageScore(vs) + 50) \div 100
Band(score) == IF score >= 7000 THEN "ACTIVE"
               ELSE IF score >= 2000 THEN "DEGRADED" ELSE "FAILED"

FirstScore == IF kind = "control" THEN 10000 ELSE 0
FirstStatus == CASE kind = "exposure" -> "OPEN"
                 [] kind \in {"report", "plan"} -> "DRAFT"
                 [] OTHER -> "ACTIVE"

Told == {i \in DOMAIN trail : trail[i].to # None}
LastTold == trail[CHOOSE i \in Told : \A j \in Told : j <= i].to

RegistersTypeOK ==
    /\ kind \in Kinds
    /\ place \in {"api", "worker"}
    /\ record \in Record \cup {None}
    /\ trail \in Seq(Entry)
    /\ validations \in Seq(Validation)
    /\ around \subseteq Neighbours
    /\ links \in [Neighbours -> Nat]
    /\ session \in [Requests -> Session]
    /\ pass \in [pc: {"idle", "sync", "link"}, facts: 0..1]
    /\ passes \in 0..MaxPasses
    /\ troubles \in 0..MaxTroubles

\* The record may exist already; only a worker's has never been moved.
StandingScore == IF kind = "control" THEN Effectiveness(validations) ELSE 0
Standing == IF place = "worker" THEN {FirstStatus}
            ELSE IF kind = "control" THEN {"RETIRED", Band(StandingScore)}
            ELSE StatusesOf(kind)

RegistersInit ==
    /\ kind \in Kinds
    /\ place \in IF kind \in Sealed THEN {"api", "worker"} ELSE {"api"}
    /\ validations \in IF kind = "control" /\ place = "api"
                       THEN {<<>>} \cup {<<[outcome |-> o, technique |-> Idle.technique,
                                            by |-> None]>> : o \in Outcomes}
                       ELSE {<<>>}
    /\ record \in {None} \cup
           {[status |-> st, facts |-> 0, score |-> StandingScore] : st \in Standing}
    /\ record = None => validations = <<>>
    /\ trail = IF record = None THEN <<>>
               ELSE <<[event |-> "CREATED", to |-> record.status, by |-> None]>>
    /\ around = {}
    /\ links = [e \in Neighbours |-> 0]
    /\ session = [r \in Requests |-> Idle]
    /\ pass = [pc |-> "idle", facts |-> 0]
    /\ passes = 0
    /\ troubles = 0

At(r, pc) == session[r].pc = pc
Goes(r, pc) == session' = [session EXCEPT ![r].pc = pc]
Event(e, st, by) == [event |-> e, to |-> st, by |-> by]
OnlySession == UNCHANGED <<kind, place, record, trail, validations, around, links,
                           pass, passes, troubles>>
OnlyRecord == UNCHANGED <<kind, place, validations, around, links, pass, passes, troubles>>

(***************************************************************************)
(* Create, or bring up to date what the fingerprint finds.  Nothing in     *)
(* here suspends, though the services are coroutines.                      *)
(***************************************************************************)
New(f, by) ==
    /\ record' = [status |-> FirstStatus, facts |-> f, score |-> FirstScore]
    /\ trail' = Append(trail, Event("CREATED", FirstStatus, by))
Renewed(f, by) ==
    /\ record' = [record EXCEPT !.facts = f]
    /\ trail' = IF record.facts = f THEN trail ELSE Append(trail, Event("CHANGED", None, by))

CreateOrSyncExposure(f, by) ==
    IF record = None THEN New(f, by)
    ELSE IF record.status = "CLOSED" THEN UNCHANGED <<record, trail>>
    ELSE Renewed(f, by)

CreateOrSyncControl_Slip(f, by) ==  \* a retired control is made active again
    IF record = None \/ record.status = "RETIRED" THEN New(f, by)
    ELSE /\ record' = [record EXCEPT !.facts = f, !.score = Effectiveness(validations)]
         /\ trail' = IF record' = record THEN trail
                     ELSE Append(trail, Event("DRIFT_DETECTED", None, by))

\* The score is computed again, the status is not.  A score that differed would
\* have an entry of its own before this one; StatusTellsValidations says that it
\* never differs.
CreateOrSyncControl(f, by) ==
    IF record = None THEN New(f, by)
    ELSE IF record.status = "RETIRED" THEN UNCHANGED <<record, trail>>
    ELSE /\ record' = [record EXCEPT !.facts = f, !.score = Effectiveness(validations)]
         /\ trail' = IF record' = record THEN trail
                     ELSE Append(trail, Event("DRIFT_DETECTED", None, by))

CreateOrSyncDetection(f, by) == IF record = None THEN New(f, by) ELSE Renewed(f, by)

\* A changed rating alone leaves no entry; a changed score does.
CreateOrSyncReport(f, by) ==
    IF record = None THEN New(f, by)
    ELSE IF record.status = "ARCHIVED" THEN UNCHANGED <<record, trail>>
    ELSE \/ Renewed(f, by)
         \/ record' = [record EXCEPT !.facts = f] /\ UNCHANGED trail

\* A new IOC is also told to the event log, by a task nobody waits for and which
\* touches no register.
CreateOrSyncIOC(f, by) == IF record = None THEN New(f, by) ELSE Renewed(f, by)

\* facts: its milestones are reached, which is not taken back.
CreateOrSyncPlan(f, by) ==
    IF record = None THEN New(f, by)
    ELSE /\ record' = IF record.status = "CLOSED" \/ record.facts = 1 THEN record
                      ELSE [record EXCEPT !.facts = f]
         /\ UNCHANGED trail

(***************************************************************************)
(* Requests.                                                               *)
(***************************************************************************)
BeginCreate(r) ==
    /\ place = "api" /\ At(r, "idle")
    /\ \E f \in 0..1 : session' = [session EXCEPT ![r] = [Idle EXCEPT !.pc = "create", !.facts = f]]
    /\ OnlySession

\* The scope, or the asset's scope, is not the user's, or is gone.
Refuse(r) ==
    /\ session[r].pc \in {"create", "move", "judge"}
    /\ Goes(r, "rejected")
    /\ OnlySession

Creates(r, k) == At(r, "create") /\ kind = k /\ Goes(r, "done") /\ OnlyRecord
CreateExposure(r) == Creates(r, "exposure") /\ CreateOrSyncExposure(session[r].facts, r)
CreateControl(r) == Creates(r, "control") /\ CreateOrSyncControl(session[r].facts, r)
CreateDetection(r) == Creates(r, "detection") /\ CreateOrSyncDetection(session[r].facts, r)
CreateReport(r) == Creates(r, "report") /\ CreateOrSyncReport(session[r].facts, r)
CreateIOC(r) == Creates(r, "ioc") /\ CreateOrSyncIOC(session[r].facts, r)
\* A request names no milestones.
CreatePlan(r) == Creates(r, "plan") /\ CreateOrSyncPlan(0, r)

\* The record is looked up before the wait; without one the answer is 404.
BeginMove(r) ==
    /\ place = "api" /\ At(r, "idle") /\ record # None
    /\ \E st \in StatusesOf(kind) :
        session' = [session EXCEPT ![r] = [Idle EXCEPT !.pc = "move", !.to = st]]
    /\ OnlySession

Moves(r, k, st) == At(r, "move") /\ kind = k /\ session[r].to = st
Moved(r, st) ==
    /\ record' = [record EXCEPT !.status = st]
    /\ trail' = Append(trail, Event("MOVED", st, r))
    /\ Goes(r, "done")
Unmoved(r, answer) == UNCHANGED <<record, trail>> /\ Goes(r, answer)

MoveExposure(r, st, from) ==
    /\ Moves(r, "exposure", st)
    /\ IF record.status = st THEN Unmoved(r, "done")
       ELSE IF record.status \in from THEN Moved(r, st)
       ELSE Unmoved(r, "rejected")
    /\ OnlyRecord
ValidateExposure(r) == MoveExposure(r, "VALIDATED", {"OPEN"})
AcceptExposure(r) == MoveExposure(r, "ACCEPTED", {"VALIDATED"})
MitigateExposure(r) == MoveExposure(r, "MITIGATED", {"VALIDATED"})
CloseExposure(r) == MoveExposure(r, "CLOSED", {"ACCEPTED", "MITIGATED"})

\* Disabling, deprecating, expiring, revoking and retiring ask only whether it
\* is done already.
MoveOnce(r, k, st) ==
    /\ Moves(r, k, st)
    /\ IF record.status = st THEN Unmoved(r, "done") ELSE Moved(r, st)
    /\ OnlyRecord
RetireControl(r) == MoveOnce(r, "control", "RETIRED")
DisableDetection(r) == MoveOnce(r, "detection", "DISABLED")
DeprecateDetection(r) == MoveOnce(r, "detection", "DEPRECATED")
ExpireIOC(r) == MoveOnce(r, "ioc", "EXPIRED")
RevokeIOC(r) == MoveOnce(r, "ioc", "REVOKED")

\* From any status to any other, in any order; a closed plan is answered as it is.
MovePlan(r, st) ==
    /\ Moves(r, "plan", st)
    /\ IF record.status \in {"CLOSED", st} THEN Unmoved(r, "done") ELSE Moved(r, st)
    /\ OnlyRecord
ApprovePlan(r) == MovePlan(r, "APPROVED")
ActivatePlan(r) == MovePlan(r, "ACTIVE")
ClosePlan(r) == MovePlan(r, "CLOSED")

\* From any status to any other, until the report is archived.
TransitionReportStatus(r) ==
    /\ At(r, "move") /\ kind = "report"
    /\ IF record.status = "ARCHIVED" THEN Unmoved(r, "rejected") ELSE Moved(r, session[r].to)
    /\ OnlyRecord

(***************************************************************************)
(* Validation of a control.                                                *)
(***************************************************************************)
BeginJudge(r) ==
    /\ place = "api" /\ kind = "control" /\ At(r, "idle") /\ record # None
    /\ \E o \in Outcomes, t \in Techniques :
        session' = [session EXCEPT ![r] = [Idle EXCEPT !.pc = "judge", !.outcome = o, !.technique = t]]
    /\ OnlySession

\* What is around and has no entry yet gets one.
Correlated == links' = [e \in Neighbours |-> IF e \in around /\ links[e] = 0 THEN 1 ELSE links[e]]

\* CorrelateControl asks a detection for technique_id, which it has not.
CorrelateControl(r) ==
    IF "detection" \in around THEN Goes(r, "broken") /\ UNCHANGED links
    ELSE Goes(r, "judged") /\ Correlated

Drift(old, st, log, r) ==
    IF old = st THEN log ELSE Append(log, Event("DRIFT_DETECTED", st, r))

\* The control has these validations and this status from now on.
Judged(r, vs, st) ==
    LET log == Append(trail, Event("VALIDATED", None, r)) IN
    /\ validations' = vs
    /\ record' = [record EXCEPT !.status = st, !.score = Effectiveness(vs)]
    /\ IF session[r].outcome = "FAILED"
       THEN /\ trail' = log
            /\ session' = [session EXCEPT ![r].pc = "emit", ![r].old = record.status]
            /\ UNCHANGED links
       ELSE trail' = Drift(record.status, st, log, r) /\ CorrelateControl(r)
    /\ UNCHANGED <<kind, place, around, pass, passes, troubles>>

ExecuteValidation_Slip(r) ==  \* the status is computed without the new validation
    /\ At(r, "judge")
    /\ IF record.status = "RETIRED" THEN Goes(r, "rejected") /\ OnlySession
       ELSE LET s == session[r]
                vs == Append(validations, [outcome |-> s.outcome, technique |-> s.technique, by |-> r])
            IN Judged(r, vs, Band(Effectiveness(validations)))

ExecuteValidation_Skip(r) ==  \* a result already on record is not recorded again
    /\ At(r, "judge")
    /\ IF record.status = "RETIRED" THEN Goes(r, "rejected") /\ OnlySession
       ELSE LET s == session[r]
                vs == IF \E i \in DOMAIN validations : /\ validations[i].outcome = s.outcome
                                                       /\ validations[i].technique = s.technique
                      THEN validations
                      ELSE Append(validations, [outcome |-> s.outcome, technique |-> s.technique,
                                                by |-> r])
            IN Judged(r, vs, Band(Effectiveness(vs)))

ExecuteValidation(r) ==
    /\ At(r, "judge")
    /\ IF record.status = "RETIRED" THEN Goes(r, "rejected") /\ OnlySession
       ELSE LET s == session[r]
                vs == Append(validations, [outcome |-> s.outcome, technique |-> s.technique, by |-> r])
            IN Judged(r, vs, Band(Effectiveness(vs)))

\* The event is written; the status is compared as it is by now.
FinishValidation_Slip(r) ==  \* a fall to FAILED is never written down
    /\ At(r, "emit")
    /\ trail' = IF record.status = "FAILED" THEN trail ELSE Drift(session[r].old, record.status, trail, r)
    /\ CorrelateControl(r)
    /\ UNCHANGED <<kind, place, record, validations, around, pass, passes, troubles>>

FinishValidation(r) ==
    /\ At(r, "emit")
    /\ trail' = Drift(session[r].old, record.status, trail, r)
    /\ CorrelateControl(r)
    /\ UNCHANGED <<kind, place, record, validations, around, pass, passes, troubles>>

EmitFails(r) ==
    /\ At(r, "emit")
    /\ troubles < MaxTroubles /\ troubles' = troubles + 1
    /\ Goes(r, "refused")
    /\ UNCHANGED <<kind, place, record, trail, validations, around, links, pass, passes>>

(***************************************************************************)
(* A worker's pass.                                                        *)
(***************************************************************************)
BeginPass == place = "worker" /\ pass.pc = "idle" /\ passes < MaxPasses /\ passes' = passes + 1

\* The ports, findings and acceptances of an asset are read, then recorded;
\* the correlations follow when every asset is done.
BeginSyncExposures ==
    /\ kind = "exposure" /\ BeginPass
    /\ \E f \in 0..1 : pass' = [pc |-> "sync", facts |-> f]
    /\ UNCHANGED <<kind, place, record, trail, validations, around, links, session, troubles>>

SyncExposures ==
    /\ pass.pc = "sync"
    /\ CreateOrSyncExposure(pass.facts, None)
    /\ pass' = [pass EXCEPT !.pc = "link"]
    /\ UNCHANGED <<kind, place, validations, around, links, session, passes, troubles>>

CorrelateExposure ==
    /\ pass.pc = "link"
    /\ Correlated
    /\ pass' = [pass EXCEPT !.pc = "idle"]
    /\ UNCHANGED <<kind, place, record, trail, validations, around, session, passes, troubles>>

PassFails ==
    /\ pass.pc # "idle"
    /\ troubles < MaxTroubles /\ troubles' = troubles + 1
    /\ pass' = [pass EXCEPT !.pc = "idle"]
    /\ UNCHANGED <<kind, place, record, trail, validations, around, links, session, passes>>

\* Name, description and severity of a discovered control never vary.
SyncControls ==
    /\ kind = "control" /\ BeginPass
    /\ CreateOrSyncControl(0, None)
    /\ Correlated
    /\ UNCHANGED <<kind, place, validations, around, session, pass, troubles>>

SyncReports ==
    /\ kind = "report" /\ BeginPass
    /\ \E f \in 0..1 : CreateOrSyncReport(f, None)
    /\ UNCHANGED <<kind, place, validations, around, links, session, pass, troubles>>

\* Every run starts as a cold start and forgets the plans.
BeginRun ==
    /\ kind = "plan" /\ place = "worker" /\ record # None
    /\ record' = None /\ trail' = <<>> /\ validations' = <<>>
    /\ UNCHANGED <<kind, place, around, links, session, pass, passes, troubles>>

\* The milestones are the decisions of the scope, reached when committed.
SyncPlans ==
    /\ kind = "plan" /\ BeginPass
    /\ \E f \in 0..1 : CreateOrSyncPlan(f, None)
    /\ UNCHANGED <<kind, place, validations, around, links, session, pass, troubles>>

(***************************************************************************)
(* The surroundings, and the end of a process.                             *)
(***************************************************************************)
\* Detections are made in the API process only.
Appears(e) ==
    /\ e \notin around
    /\ \/ kind = "control" /\ e \in {"detection", "hunt"}
       \/ kind = "exposure" /\ e \in {"finding", "hunt"}
    /\ e = "detection" => place = "api"
    /\ around' = around \cup {e}
    /\ UNCHANGED <<kind, place, record, trail, validations, links, session, pass, passes, troubles>>

Restart ==
    /\ troubles < MaxTroubles /\ troubles' = troubles + 1
    /\ record' = None /\ trail' = <<>> /\ validations' = <<>>
    /\ links' = [e \in Neighbours |-> 0]
    /\ around' = around \cap {"finding"}
    /\ session' = [r \in Requests |-> IF At(r, "idle") THEN session[r]
                                      ELSE [Idle EXCEPT !.pc = "killed"]]
    /\ pass' = [pass EXCEPT !.pc = "idle"]
    /\ UNCHANGED <<kind, place, passes>>

RegistersNext ==
    \/ \E r \in Requests :
        \/ BeginCreate(r) \/ Refuse(r)
        \/ CreateExposure(r) \/ CreateControl(r) \/ CreateDetection(r)
        \/ CreateReport(r) \/ CreateIOC(r) \/ CreatePlan(r)
        \/ BeginMove(r)
        \/ ValidateExposure(r) \/ AcceptExposure(r) \/ MitigateExposure(r) \/ CloseExposure(r)
        \/ RetireControl(r) \/ DisableDetection(r) \/ DeprecateDetection(r)
        \/ ExpireIOC(r) \/ RevokeIOC(r)
        \/ ApprovePlan(r) \/ ActivatePlan(r) \/ ClosePlan(r) \/ TransitionReportStatus(r)
        \/ BeginJudge(r) \/ ExecuteValidation(r) \/ FinishValidation(r) \/ EmitFails(r)
    \/ BeginSyncExposures \/ SyncExposures \/ CorrelateExposure \/ PassFails
    \/ SyncControls \/ SyncReports \/ BeginRun \/ SyncPlans
    \/ \E e \in Neighbours : Appears(e)
    \/ Restart

RegistersSpec == RegistersInit /\ [][RegistersNext]_registerVars

(***************************************************************************)
(* Properties.                                                             *)
(***************************************************************************)
\* The last entry of the history that tells of a status tells the status the
\* record has, though overlapping validations of a control write their entries
\* late, against a status others have changed and after its retirement, and in
\* another order than they changed it; unless a failed validation is still
\* waiting for its event, or never got past it.
TrailTellsStatus ==
    record # None /\ (\A r \in Requests : session[r].pc \notin {"emit", "refused"})
        => Told # {} /\ LastTold = record.status

\* A control that is not retired has the score of all its validations and the
\* status that goes with it, whatever overlapped and whichever synchronisation
\* computed the score again without looking at the status.
StatusTellsValidations ==
    kind = "control" /\ record # None /\ record.status # "RETIRED"
        => /\ record.score = Effectiveness(validations)
           /\ record.status = Band(record.score)

\* A validation that was answered is on record, once, with its entry in the
\* history; one that was rejected left nothing.  One that failed is on record as
\* well, because a failure comes after the recording, from a detection that is
\* about or from an event that could not be written.  No neighbour of a record
\* is linked twice, though validations and passes correlate it again and again.
RecordedOnce ==
    /\ \A e \in Neighbours : links[e] <= 1 /\ (links[e] = 1 => e \in around)
    /\ \A r \in Requests :
        LET mine == {i \in DOMAIN validations : validations[i].by = r} IN
        /\ Cardinality(mine) = IF session[r].pc \in {"emit", "judged", "broken", "refused"}
                               THEN 1 ELSE 0
        /\ At(r, "broken") => "detection" \in around
        /\ Cardinality(mine) = Cardinality({i \in DOMAIN trail :
                                   trail[i].by = r /\ trail[i].event = "VALIDATED"})

\* A record that has come to its end does not come back: a closed exposure
\* or plan, a retired control and an archived report take no status, no fact and no
\* validation any more, whatever was under way when they ended.  The two ends
\* of a detection or an IOC replace each other, but it is never active again.
EndIsTheEnd ==
    [][record # None /\ Final(record.status) /\ record' # None
        => /\ Final(record'.status)
           /\ kind \in Sealed => record' = record /\ validations' = validations]_registerVars
==============================================================================
