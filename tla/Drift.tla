------------------------------- MODULE Drift -------------------------------
(***************************************************************************)
(* Each of the drift services watches a part of the system.  It has a      *)
(* snapshot in the memory of the process, compares it with what it finds,  *)
(* emits an event for every difference and takes a new snapshot.  Their    *)
(* order differs: some compare what the process holds now and renew the    *)
(* snapshot afterwards, some renew it first and compare the two.  (The     *)
(* drift of the intelligence fabric is left out: nothing makes a fabric    *)
(* node, so it has nothing to compare.)                                    *)
(*                                                                         *)
(* One scope and one kind of drift are followed in one process, for the    *)
(* snapshots of two processes have nothing to do with each other: in a     *)
(* worker, which checks it on every pass and commits the events at the     *)
(* end, or in the API process, whose drift requests overlap and commit     *)
(* nothing.                                                                *)
(***************************************************************************)
EXTENDS Integers, Sequences, FiniteSets

CONSTANTS
    Kinds,       \* the kinds of drift to consider
    Worker,      \* a worker process
    Calls,       \* requests to the API, each made once
    MaxChanges,  \* changes of what is watched
    MaxPasses,   \* passes the worker makes
    MaxTroubles, \* failed statements, refused commits and restarts
    NoSnapshot

Sessions == {Worker} \cup Calls

AllKinds == {"detection", "ioc", "hunt", "purple", "exposure", "posture", "control",
             "program", "executive", "resilience", "soc", "risk", "grc", "knowledge",
             "threat", "graph", "decision", "planning", "governance"}

ASSUME DriftAssumption ==
    /\ Kinds \subseteq AllKinds
    /\ Worker \notin Calls
    /\ MaxChanges \in Nat
    /\ MaxPasses \in Nat
    /\ MaxTroubles \in Nat

VARIABLES
    kind,    \* what is watched
    watcher, \* the sessions of the process: the worker's passes, or requests
    live,    \* what the process would find
    age,     \* how often that has changed
    base,    \* the snapshot the process holds, NoSnapshot if none
    session, \* session[s]: where a pass or a request is
    log,     \* the comparisons made, and what became of their events
    cold,    \* the worker has not loaded its dictionaries yet
    passes,  \* passes the worker has started
    since,   \* of these, the ones before its latest run
    life,    \* restarts of the worker
    troubles

driftVars == <<kind, watcher, live, age, base, session, log, cold, passes, since, life, troubles>>

-----------------------------------------------------------------------------
(* What is watched.                                                        *)

Levels == {"high", "middle", "low"}
Rank == [high |-> 3, middle |-> 2, low |-> 1]

\* score, second: averages, coverages, amounts (those a service keeps side by
\* side and compares alike move as one); total: records in the scope, retired:
\* those of them in a final status; level: status of one record.
Facts == [score: 0..1, second: 0..1, total: 1..2, retired: 0..1, level: Levels]
Still == [score |-> 1, second |-> 1, total |-> 1, retired |-> 0, level |-> "high"]

\* The facts a kind is about; the others stay as they are.
About == [detection |-> {"score", "level"}, ioc |-> {"score", "level"},
          hunt |-> {"score", "level"}, purple |-> {"score", "level"},
          exposure |-> {"level", "total"}, posture |-> {"score", "total"},
          control |-> {"score", "second"}, program |-> {"score", "level"},
          executive |-> {"score", "second"}, resilience |-> {"score", "second"},
          soc |-> {"score", "second"}, risk |-> {"score", "second"}, grc |-> {"score"},
          knowledge |-> {"score", "second"}, threat |-> {"score", "total"},
          graph |-> {"score", "total", "retired"}, decision |-> {"total", "level"},
          planning |-> {"score", "level"},
          governance |-> {"score", "total", "level"}]
Possible == {f \in Facts : \A x \in DOMAIN f : x \in About[kind] \/ f[x] = Still[x]}

\* Kinds that renew the snapshot and compare the two; the others compare what
\* the process holds at that moment.
Renewing == {"posture", "control", "program", "resilience", "soc", "risk", "grc",
             "knowledge", "threat", "decision", "planning"}
\* Kinds found in rows every process shares; the others are in dictionaries.
Shared == {"resilience", "soc", "risk", "grc", "knowledge", "governance"}
\* Snapshots that are read, and kept only after another await.
Suspending == {"exposure", "resilience", "soc", "risk", "grc", "knowledge"}
\* Records are compared and reported first, and only then the coverage.
TwoStage == {"hunt", "purple", "exposure"}
\* Kinds the API has a drift request for.
OnRequest == {"purple", "posture", "exposure"}
\* Snapshots a worker takes at the start of a run.
Bootstrapped == {"resilience", "soc", "risk", "grc", "knowledge", "threat", "graph",
                 "decision", "planning"}
\* Kinds found in dictionaries a worker empties and reads again.
Reloaded == (Bootstrapped \ Shared) \cup {"hunt", "purple", "posture", "program"}

If(condition, name) == IF condition THEN {name} ELSE {}

-----------------------------------------------------------------------------
(* What each snapshot keeps and what each comparison tells.  now is the    *)
(* new snapshot of a renewing kind and the facts themselves of the others. *)

DetectionSnapshot(f) == [score |-> f.score, techniques |-> f.level]

\* A technique nothing covers is a gap, with whatever snapshot it is compared.
Gap(now) == If(now.level = "low", "gap_detected")
DetectionGaps(prev, now) ==
    Gap(now)
    \cup If(prev.techniques = "high" /\ now.level # "high", "TECHNIQUE_REGRESSED")
    \cup If(now.score < prev.score, "COVERAGE_REGRESSED")
DetectionDrift(prev, now) ==
    DetectionGaps(prev, now)
    \cup If(now.score < prev.score, "score_decreased")
    \cup If(now.level # prev.techniques, "mapping_changed")

IOCSnapshot(f) == [reputation |-> f.score, record |-> f.level]
IOCDrift(prev, now) ==
    If(now.score # prev.reputation, "reputation_changed")
    \cup If(now.level # prev.record, "attribution_or_severity_changed")

HuntSnapshot_Slip(f) == [hunts |-> IF f.level = "low" THEN "middle" ELSE f.level,
                         coverage |-> f.score]

HuntSnapshot(f) == [hunts |-> f.level, coverage |-> f.score]
HuntDrift(prev, now, stage) ==
    IF stage = 1 THEN If(now.level # prev.hunts, "hunt.drift")
    ELSE If(now.score # prev.coverage, "hunt.coverage_changed")

PurpleTeamSnapshot(f) == [validations |-> f.level, coverage |-> f.score]
PurpleTeamDrift(prev, now, stage) ==
    IF stage = 1 THEN If(Rank[now.level] < Rank[prev.validations], "REGRESSION")
    ELSE If(now.score < prev.coverage, "purple_team.coverage_changed")

ExposureSnapshot(f) == [exposures |-> f.total, severity |-> f.level, surface |-> f.score]
NoExposures == [exposures |-> 0, severity |-> "none", surface |-> 0]
ExposureDrift(prev, now, stage) ==
    IF stage = 1 THEN
        If(now.total > prev.exposures, "NEW_EXPOSURE")
        \cup If(now.total < prev.exposures, "EXPOSURE_REMOVED")
        \cup If(prev.exposures > 0 /\ now.level # prev.severity, "SEVERITY_OR_PRIORITY_CHANGED")
    ELSE If(now.score # prev.surface, "ATTACK_SURFACE_CHANGED")

SecurityPostureSnapshot(f) == [risk |-> 1 - f.score, posture |-> f.score, critical |-> f.total,
                               coverage |-> f.second]
NoPostures == [risk |-> 0, posture |-> 1, critical |-> 0, coverage |-> 1]
PostureDrift(prev, now) ==
    If(now.risk > prev.risk, "RISK_INCREASED") \cup If(now.risk < prev.risk, "RISK_DECREASED")
    \cup If(now.posture # prev.posture, "POSTURE_CHANGED")
    \cup If(now.critical > prev.critical, "EXPOSURE_INCREASED")
    \cup If(now.critical < prev.critical, "EXPOSURE_DECREASED")
    \cup If(now.coverage # prev.coverage, "COVERAGE_CHANGED")

ControlValidationSnapshot(f) == [effectiveness |-> f.score, coverage |-> f.second,
                                 status |-> f.level]
\* (VALIDATION_REGRESSED needs validations, which no worker records.)
ControlDrift(prev, now) ==
    If(now.effectiveness # prev.effectiveness, "EFFECTIVENESS_CHANGED")
    \cup If(now.coverage # prev.coverage, "COVERAGE_CHANGED")
    \cup If(prev.status = "high" /\ now.status = "middle", "CONTROL_DEGRADED")
    \cup If(prev.status # "low" /\ now.status = "low", "CONTROL_FAILED")

SecurityProgramSnapshot(f) == [score |-> f.score, status |-> f.level, kpi |-> f.score,
                               kri |-> f.score]
ProgramDrift(prev, now) ==
    If(now.score < prev.score, "PROGRAM_SCORE_DECREASED")
    \cup If(now.status # prev.status, "PROGRAM_STATUS_CHANGED")
    \cup If(now.kpi < prev.kpi, "KPI_REGRESSED") \cup If(now.kri < prev.kri, "KRI_REGRESSED")

ExecutiveSnapshot(f) == [health |-> f.score, risk |-> f.score, program |-> f.second,
                         kpi |-> f.second, kri |-> f.second, coverage |-> f.second]
ExecutiveDrift(prev, now) ==
    If(now.score < prev.health, "EXECUTIVE_HEALTH_DEGRADED")
    \cup If(now.score < prev.risk, "RISK_INCREASED")
    \cup If(now.second # prev.program, "PROGRAM_SCORE_CHANGED")
    \cup If(now.second # prev.kpi, "KPI_CHANGED") \cup If(now.second # prev.kri, "KRI_CHANGED")
    \cup If(now.second # prev.coverage, "COVERAGE_CHANGED")

CyberResilienceSnapshot(f) == [resilience |-> f.score, readiness |-> f.second,
                               confidence |-> f.second, compliance |-> f.second]
ResilienceDrift(prev, now) ==
    If(now.resilience # prev.resilience, "RESILIENCE_SCORE_CHANGED")
    \cup If(now.readiness < prev.readiness, "READINESS_DECREASED")
    \cup If(now.readiness > prev.readiness, "READINESS_INCREASED")
    \cup If(now.confidence # prev.confidence, "RECOVERY_CONFIDENCE_CHANGED")
    \cup If(now.compliance # prev.compliance, "OBJECTIVE_COMPLIANCE_CHANGED")

SOCSnapshot(f) == [health |-> f.score, efficiency |-> f.second]
SOCDrift_Slip(prev, now) ==
    If(now.health > prev.health, "PERFORMANCE_IMPROVED")
    \cup If(now.efficiency # prev.efficiency, "soc.performance_changed")

SOCDrift(prev, now) ==
    If(now.health < prev.health, "PERFORMANCE_DEGRADED")
    \cup If(now.health > prev.health, "PERFORMANCE_IMPROVED")
    \cup If(now.efficiency # prev.efficiency, "soc.performance_changed")

RiskQuantificationSnapshot(f) == [ale |-> 1 - f.score, forecast |-> f.second]
RiskDrift(prev, now) ==
    If(now.ale > prev.ale, "EXPOSURE_INCREASED")
    \cup If(now.ale < prev.ale, "EXPOSURE_DECREASED")
    \cup If(now.forecast # prev.forecast, "risk.forecast_changed")

ComplianceSnapshot(f) == [compliance |-> f.score]
GRCComplianceDrift(prev, now) ==
    If(now.compliance < prev.compliance, "COMPLIANCE_DECREASED")
    \cup If(now.compliance > prev.compliance, "COMPLIANCE_INCREASED")

KnowledgeSnapshot(f) == [relevance |-> f.score, confidence |-> f.second, records |-> f.total]
KnowledgeDrift(prev, now) ==
    If(now.relevance # prev.relevance, "knowledge.score_changed")
    \cup If(now.confidence # prev.confidence, "CONFIDENCE_CHANGED")
\* The comparison looks for "records_count" in both snapshots; neither has it.

ThreatIntelSnapshot(f) == [fusion |-> f.score, records |-> f.total]
ThreatIntelDrift(prev, now) ==
    If(now.fusion < prev.fusion, "FUSION_SCORE_DECREASED")
    \cup If(now.fusion > prev.fusion, "FUSION_SCORE_INCREASED")
    \cup If(now.records # prev.records, "RECORDS_COUNT_CHANGED")

\* Deprecated components are left out of the snapshot and not of the comparison.
GraphSnapshot(f) == [components |-> f.total - f.retired,
                     weight |-> f.score * (f.total - f.retired)]
GraphDrift(prev, now) ==
    If(now.total # prev.components \/ now.score * now.total # prev.weight, "graph.drift")

DecisionSnapshot(f) == [benefit |-> f.score, decisions |-> f.total,
                        recommended |-> f.level = "high", committed |-> f.level = "middle"]
DecisionDrift(prev, now) ==
    If(now.benefit # prev.benefit, "BENEFIT_SCORE_SHIFTED")
    \cup If(now.decisions # prev.decisions, "DECISIONS_COUNT_SHIFTED")
    \cup If(now.committed # prev.committed \/ now.recommended # prev.recommended,
            "decision.status_changed")

PlanningSnapshot(f) == [progress |-> f.score, plans |-> f.total,
                        approved |-> f.level = "high", active |-> f.level = "middle"]
PlanningDrift(prev, now) ==
    If(now.progress # prev.progress, "PROGRESS_SCORE_SHIFTED")
    \cup If(now.plans # prev.plans, "PLANS_COUNT_SHIFTED")
    \cup If(now.active # prev.active \/ now.approved # prev.approved,
            "planning.milestone_changed")

\* An asset with an open finding (total 2), whose risk is accepted (high),
\* which is excepted or worked on (middle) or neither (low), and with a
\* remediation that is overdue (score 0).
FindingGovernance(f) ==
    IF f.total = 1 THEN "COMPLIANT"
    ELSE CASE f.level = "high" -> "ACCEPTED_RISK"
           [] f.level = "middle" -> "EXCEPTION_ACTIVE"
           [] f.level = "low" -> "NON_COMPLIANT"
AssetGovernance(f) == IF f.score = 0 THEN "NON_COMPLIANT" ELSE FindingGovernance(f)

\* The last known status of the asset, and of the control it would fail.
GovernanceState(f) == [asset |-> AssetGovernance(f), control |-> f.score]
GovernanceDrift(prev, now) ==
    LET asset == AssetGovernance(now) IN
    If(prev.asset = "COMPLIANT" /\ asset = "NON_COMPLIANT", "governance.non_compliant")
    \cup If(prev.asset = "NON_COMPLIANT" /\ asset = "COMPLIANT", "governance.compliant")
    \cup If(prev.control > now.score, "compliance.control_failed")
    \cup If(prev.control < now.score, "compliance.control_restored")

-----------------------------------------------------------------------------
(* The state.                                                              *)

ShotOf(k, f) ==
    CASE k = "detection" -> DetectionSnapshot(f)
      [] k = "ioc" -> IOCSnapshot(f)
      [] k = "hunt" -> HuntSnapshot(f)
      [] k = "purple" -> PurpleTeamSnapshot(f)
      [] k = "exposure" -> ExposureSnapshot(f)
      [] k = "posture" -> SecurityPostureSnapshot(f)
      [] k = "control" -> ControlValidationSnapshot(f)
      [] k = "program" -> SecurityProgramSnapshot(f)
      [] k = "executive" -> ExecutiveSnapshot(f)
      [] k = "resilience" -> CyberResilienceSnapshot(f)
      [] k = "soc" -> SOCSnapshot(f)
      [] k = "risk" -> RiskQuantificationSnapshot(f)
      [] k = "grc" -> ComplianceSnapshot(f)
      [] k = "knowledge" -> KnowledgeSnapshot(f)
      [] k = "threat" -> ThreatIntelSnapshot(f)
      [] k = "graph" -> GraphSnapshot(f)
      [] k = "decision" -> DecisionSnapshot(f)
      [] k = "planning" -> PlanningSnapshot(f)
      [] k = "governance" -> GovernanceState(f)
Shot(f) == ShotOf(kind, f)

Drifts(prev, now, stage) ==
    CASE kind = "detection" -> DetectionDrift(prev, now)
      [] kind = "ioc" -> IOCDrift(prev, now)
      [] kind = "hunt" -> HuntDrift(prev, now, stage)
      [] kind = "purple" -> PurpleTeamDrift(prev, now, stage)
      [] kind = "exposure" -> ExposureDrift(prev, now, stage)
      [] kind = "posture" -> PostureDrift(prev, now)
      [] kind = "control" -> ControlDrift(prev, now)
      [] kind = "program" -> ProgramDrift(prev, now)
      [] kind = "executive" -> ExecutiveDrift(prev, now)
      [] kind = "resilience" -> ResilienceDrift(prev, now)
      [] kind = "soc" -> SOCDrift(prev, now)
      [] kind = "risk" -> RiskDrift(prev, now)
      [] kind = "grc" -> GRCComplianceDrift(prev, now)
      [] kind = "knowledge" -> KnowledgeDrift(prev, now)
      [] kind = "threat" -> ThreatIntelDrift(prev, now)
      [] kind = "graph" -> GraphDrift(prev, now)
      [] kind = "decision" -> DecisionDrift(prev, now)
      [] kind = "planning" -> PlanningDrift(prev, now)
      [] kind = "governance" -> GovernanceDrift(prev, now)

\* A snapshot, the facts it was taken of and their age; age 0: a default the
\* API compares with when it holds no snapshot.
Shots == {ShotOf(k, f) : k \in AllKinds, f \in Facts} \cup {NoExposures, NoPostures}
Snapshots == [shot: Shots, facts: Facts, age: Nat]
ASSUME NoSnapshotAssumption == NoSnapshot \notin Snapshots
Snapshot == [shot |-> Shot(live), facts |-> live, age |-> age]
DefaultSnapshot == [shot |-> IF kind = "exposure" THEN NoExposures ELSE NoPostures,
                    facts |-> Still, age |-> 0]

Points == {"idle", "look", "renew", "keep", "compare", "compare2", "gaps", "emit", "retake",
           "rekeep", "broken", "settle", "done", "failed"}
Fates == {"quiet", "pending", "unsent", "lost", "stored"}

DriftTypeOK ==
    /\ kind \in Kinds
    /\ watcher \in {{Worker}, Calls}
    /\ live \in Facts
    /\ age \in 1..(MaxChanges + 1)
    /\ base \in Snapshots \cup {NoSnapshot}
    /\ session \in [Sessions -> [pc: Points, prev: Snapshots \cup {NoSnapshot},
                                 new: Snapshots \cup {NoSnapshot}, stage: {1, 2}]]
    /\ \A i \in DOMAIN log : /\ log[i].by \in watcher
                             /\ log[i].fate \in Fates
                             /\ log[i].fate = "quiet" <=> log[i].drifts = {}
    /\ cold \in BOOLEAN
    /\ passes \in 0..MaxPasses
    /\ since \in 0..passes
    /\ life \in 0..MaxTroubles
    /\ troubles \in 0..MaxTroubles

IsAt(s, pc) == session[s].pc = pc
Goes(s, pc) == session' = [session EXCEPT ![s].pc = pc]
Idle == [pc |-> "idle", prev |-> NoSnapshot, new |-> NoSnapshot, stage |-> 1]

DriftInit ==
    /\ kind \in Kinds
    /\ watcher \in {{Worker}} \cup (IF kind \in OnRequest THEN {Calls} ELSE {})
    /\ live \in Possible
    /\ age = 1
    /\ base = NoSnapshot
    /\ session = [s \in Sessions |-> Idle]
    /\ log = <<>>
    /\ cold = TRUE
    /\ passes = 0
    /\ since = 0
    /\ life = 0
    /\ troubles = 0

Becomes(f) == /\ live' = f
              /\ age' = IF f = live THEN age ELSE age + 1
              /\ age' <= MaxChanges + 1

Watched == <<live, age, base>>
Rest == <<kind, watcher, cold, passes, since, life, troubles>>

\* Requests, scans and other processes change what is watched at any time,
\* except for the dictionaries of a worker.
Change ==
    /\ kind \in Shared \cup {"exposure"} \/ Worker \notin watcher
    /\ \E f \in Possible \ {live} : Becomes(f)
    /\ UNCHANGED <<base, session, log, Rest>>

\* A run of a worker begins by emptying dictionaries, reading them again and
\* taking some of the snapshots: it looks for fabric nodes, finds none and takes
\* itself for a cold start.
Boot ==
    /\ Worker \in watcher /\ IsAt(Worker, "idle")
    /\ \E f \in IF kind \in Reloaded \/ (cold /\ kind \notin Shared) THEN Possible
             ELSE {live} :
          Becomes(f)
    /\ cold' = FALSE
    /\ since' = passes
    /\ base' = IF kind \in Bootstrapped
               THEN [shot |-> Shot(live'), facts |-> live', age |-> age']
               ELSE base
    /\ UNCHANGED <<kind, watcher, session, log, passes, life, troubles>>

\* A pass synchronises what is watched before it checks it; it does not bring
\* a deprecated component back, nor deprecate one.
Pass ==
    /\ Worker \in watcher /\ ~cold /\ IsAt(Worker, "idle") /\ passes < MaxPasses
    /\ passes' = passes + 1
    /\ \E f \in IF kind \in Shared THEN {live}
                ELSE {g \in Possible : g.retired = live.retired} : Becomes(f)
    /\ session' = [session EXCEPT ![Worker] = [Idle EXCEPT !.pc = "look"]]
    /\ UNCHANGED <<kind, watcher, base, log, cold, since, life, troubles>>

Request(c) ==
    /\ c \in watcher /\ IsAt(c, "idle")
    /\ Goes(c, "look")
    /\ UNCHANGED <<Watched, log, Rest>>

\* Creating or activating an exercise takes a new snapshot and reports nothing.
Refresh(c) ==
    /\ kind = "purple" /\ c \in watcher /\ IsAt(c, "idle")
    /\ base' = Snapshot
    /\ Goes(c, "done")
    /\ UNCHANGED <<live, age, log, Rest>>

-----------------------------------------------------------------------------
(* A check.                                                                *)

\* Compares prev with now and notes what was found; its events come next, or
\* the coverage, or the new snapshot.
AfterCompare(drifts, stage) == IF drifts # {} THEN "emit"
                               ELSE IF stage = 1 /\ kind \in TwoStage THEN "compare2" ELSE "retake"
Compares(s, prev, new, stage) ==
    LET drifts == IF kind \in Renewing THEN Drifts(prev.shot, new.shot, stage)
                  ELSE Drifts(prev.shot, live, stage)
        seen == IF kind \in Renewing THEN new ELSE Snapshot
    IN /\ log' = IF drifts = {} /\ prev.age = seen.age THEN log
                 ELSE Append(log, [by |-> s, life |-> life, since |-> since, pass |-> passes,
                                   stage |-> stage, was |-> prev.age, is |-> seen.age,
                                   from |-> prev.facts, to |-> seen.facts, drifts |-> drifts,
                                   fate |-> IF drifts = {} THEN "quiet" ELSE "pending"])
       /\ session' = [session EXCEPT ![s] = [pc |-> AfterCompare(drifts, stage), prev |-> prev,
                                             new |-> seen, stage |-> stage]]

\* The last snapshot is taken; without one a worker, and the purple team
\* request, only take the first, once the gaps in detection are reported.  What
\* is in memory is compared at once.
Look(s) ==
    LET prev == IF s \in Calls /\ base = NoSnapshot /\ kind # "purple" THEN DefaultSnapshot ELSE base
    IN /\ IsAt(s, "look")
       /\ IF prev = NoSnapshot
          THEN /\ session' = [session EXCEPT
                              ![s].pc = IF kind = "detection" /\ Gap(live) # {} THEN "gaps"
                                        ELSE "retake",
                              ![s].new = Snapshot]
               /\ UNCHANGED log
          ELSE IF kind \in Renewing \cup {"exposure"}
          THEN /\ session' = [session EXCEPT ![s].prev = prev,
                              ![s].pc = IF kind = "exposure" THEN "compare" ELSE "renew"]
               /\ UNCHANGED log
          ELSE Compares(s, prev, NoSnapshot, 1)
       /\ UNCHANGED <<Watched, Rest>>

\* A renewing kind takes its new snapshot and compares the two; what it read
\* from the database it keeps only later.
Renew(s) ==
    /\ IsAt(s, "renew")
    /\ IF kind \in Suspending
       THEN /\ session' = [session EXCEPT ![s].pc = "keep", ![s].new = Snapshot]
            /\ UNCHANGED <<base, log>>
       ELSE /\ base' = Snapshot
            /\ Compares(s, session[s].prev, Snapshot, 1)
    /\ UNCHANGED <<live, age, Rest>>

Keep(s) ==
    /\ IsAt(s, "keep")
    /\ base' = session[s].new
    /\ Compares(s, session[s].prev, session[s].new, 1)
    /\ UNCHANGED <<live, age, Rest>>

\* Exposures are compared once the assets of the scope are read; coverage once
\* the events of the records are out.
Compare(s) ==
    /\ IsAt(s, "compare") \/ IsAt(s, "compare2")
    /\ Compares(s, session[s].prev, NoSnapshot, IF IsAt(s, "compare") THEN 1 ELSE 2)
    /\ UNCHANGED <<Watched, Rest>>

\* The events are flushed into the transaction of the session.  (The log has
\* comparisons: of gaps reported without one there is no entry.)
Emit(s) ==
    /\ IsAt(s, "emit") \/ IsAt(s, "gaps")
    /\ Goes(s, AfterCompare({}, session[s].stage))
    /\ UNCHANGED <<Watched, log, Rest>>

Fate(s, fate) == log' = [i \in DOMAIN log |->
                            IF log[i].by = s /\ log[i].fate = "pending"
                            THEN [log[i] EXCEPT !.fate = fate] ELSE log[i]]
Trouble == troubles < MaxTroubles /\ troubles' = troubles + 1

\* A failed statement fails the transaction: nothing of this pass will be
\* stored, and the rest of the check is skipped.
EmitFails(s) ==
    /\ (IsAt(s, "emit") \/ IsAt(s, "gaps")) /\ Trouble
    /\ Fate(s, "unsent")
    /\ Goes(s, IF s = Worker THEN "broken" ELSE "failed")
    /\ UNCHANGED <<Watched, kind, watcher, cold, passes, since, life>>

Ends(s) == IF s = Worker THEN "settle" ELSE "done"

\* A worker that does not take the second snapshot.
Retake_Slip(s) ==
    /\ IsAt(s, "retake")
    /\ Goes(s, Ends(s))
    /\ base' = IF base = NoSnapshot THEN session[s].new ELSE base
    /\ UNCHANGED <<live, age, log, Rest>>

\* The new snapshot. Governance has none: it keeps what it compared.
Retake(s) ==
    LET new == IF kind = "governance" THEN session[s].new ELSE Snapshot IN
    /\ IsAt(s, "retake")
    /\ IF kind \in Suspending
       THEN session' = [session EXCEPT ![s].pc = "rekeep", ![s].new = new] /\ UNCHANGED base
       ELSE Goes(s, Ends(s)) /\ base' = new
    /\ UNCHANGED <<live, age, log, Rest>>

Rekeep(s) ==
    /\ IsAt(s, "rekeep")
    /\ base' = session[s].new
    /\ Goes(s, Ends(s))
    /\ UNCHANGED <<live, age, log, Rest>>

\* The step of the workflow commits what the services flushed.
Settle ==
    /\ IsAt(Worker, "settle")
    /\ Fate(Worker, "stored")
    /\ Goes(Worker, "idle")
    /\ UNCHANGED <<Watched, Rest>>

SettleFails ==
    /\ \/ IsAt(Worker, "settle") /\ Trouble
       \/ IsAt(Worker, "broken") /\ UNCHANGED troubles
    /\ Fate(Worker, "lost")
    /\ Goes(Worker, "idle")
    /\ UNCHANGED <<Watched, kind, watcher, cold, passes, since, life>>

Restart ==
    /\ Worker \in watcher /\ ~cold
    /\ Trouble
    /\ Fate(Worker, "lost")
    /\ session' = [session EXCEPT ![Worker] = Idle]
    /\ base' = NoSnapshot
    /\ cold' = TRUE
    /\ life' = life + 1
    /\ UNCHANGED <<kind, watcher, live, age, passes, since>>

DriftNext ==
    \/ Change \/ Boot \/ Pass \/ Settle \/ SettleFails \/ Restart
    \/ \E c \in Calls : Request(c) \/ Refresh(c)
    \/ \E s \in Sessions : \/ Look(s) \/ Renew(s) \/ Keep(s) \/ Compare(s) \/ Emit(s)
                           \/ EmitFails(s) \/ Retake(s) \/ Rekeep(s)

DriftSpec == DriftInit /\ [][DriftNext]_driftVars

-----------------------------------------------------------------------------
(* Properties.                                                             *)

\* What a service reports as drift did change after the snapshot it compares
\* with, whoever took that snapshot and however requests overlap.  Two reports
\* are no changes: a gap is reported on every pass for as long as there is one
\* (detection_gap_service.py:26), and the graph counts deprecated components in
\* one of the two only (graph_drift_service.py, graph_snapshot_service.py).
ReportsAreChanges ==
    \A i \in DOMAIN log : log[i].drifts \ {"gap_detected"} # {} =>
        \/ log[i].is > log[i].was
        \/ kind = "graph" /\ log[i].to.retired > 0

\* When what was compared is worse than what the snapshot was taken of, in its
\* score or in the status of a record, something is reported: the comparison
\* of each of the services looks at what its snapshot keeps.  Governance tells
\* of an open finding nobody has accepted, but not of one whose acceptance has
\* ended: only COMPLIANT and NON_COMPLIANT count when they replace each other.
WorseningIsReported ==
    \A i \in DOMAIN log :
        LET e == log[i]
            tells == IF kind \in TwoStage THEN e.stage ELSE 0
        IN e.was > 0 =>
            /\ tells # 1 /\ e.to.score < e.from.score => e.drifts # {}
            /\ tells # 2 /\ e.from.level = "high" /\ e.to.level = "low"
                 /\ (kind = "governance" => AssetGovernance(e.from) = "COMPLIANT" /\ e.to.total = 2)
               => e.drifts # {}

\* In a worker no comparison starts before the last one of that process ended,
\* and a later start than that, a change no comparison sees, has one of two
\* reasons: the facts are rows every process shares (or exposures, whose assets
\* are), and changed between the comparison and the second snapshot of a pass;
\* or the snapshot was taken again at the start of a run, which is why those
\* kinds are held to this within a run only.  A check that broke off ended, for
\* the kinds that renew the snapshot last, where it started, so that the next
\* one makes up for it; for those that renew it first it ended at what it saw,
\* and its report is lost.
SameWatch(i, j) == /\ log[i].by = Worker /\ log[j].by = Worker
                   /\ log[i].life = log[j].life /\ log[i].stage = log[j].stage
                   /\ kind \in Bootstrapped => log[i].since = log[j].since
Follows(i, j) == /\ i < j /\ SameWatch(i, j)
                 /\ \A k \in (i + 1)..(j - 1) : ~SameWatch(k, j)
BrokeOff(e) == \E i \in DOMAIN log : /\ log[i].by = e.by /\ log[i].pass = e.pass
                                     /\ log[i].fate = "unsent"
EndOf(e) == IF BrokeOff(e) /\ kind \notin Renewing THEN e.was ELSE e.is
Meets(start, end) == IF kind \in (Shared \ {"governance"}) \cup {"exposure"}
                     THEN start >= end ELSE start = end
ComparisonsMeet ==
    \A i, j \in DOMAIN log : Follows(i, j) => Meets(log[j].was, EndOf(log[i]))
=============================================================================
