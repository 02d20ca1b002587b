------------------------------ MODULE Monitoring -------------------------------
(***************************************************************************)
(* Drift events and alerts.  After every scan step a worker compares what  *)
(* the database says with its baselines (refresh_all), logs the drift,     *)
(* raises and resolves alerts from the log (generate_alerts) and escalates *)
(* the old ones (process_escalations).  Log, baselines and alerts live in  *)
(* the memory of the process: the worker's are gone when it restarts, and  *)
(* the API process, where analysts work, has alerts of its own.            *)
(*                                                                         *)
(* Each logged event, alert and transition commits an audit entry.  When   *)
(* that commit fails, the pass ends there with its memory half changed.    *)
(*                                                                         *)
(* No code path renames or deletes an asset: ASSET_ADDED is the only drift *)
(* of an asset itself.                                                     *)
(***************************************************************************)
EXTENDS Integers, Sequences, FiniteSets, SequencesExt, FiniteSetsExt, Functions

CONSTANTS
    Assets, Findings,
    AssetOf,          \* AssetOf[f]: the asset finding f is about
    Scores,           \* the risk scores an asset may have
    Severities,
    Manual,           \* alerts an analyst may create through the API
    Critical,         \* the score where risk drift counts whatever its size
    Drift,            \* the least change of a score that counts
    MaxChanges,       \* bound: changes of the database and analysts' calls
    MaxFailures,      \* bound: commits that fail
    MaxRestarts,      \* bound: restarts of the worker
    MaxEscalations,   \* bound: alerts that grow old
    None

\* ACCEPTED_RISK stands for the postures that are neither of the other two.
Postures == {"COMPLIANT", "NON_COMPLIANT", "ACCEPTED_RISK"}
FindingStatuses == {"open", "closed"}
FindingState == [severity: Severities, status: FindingStatuses]

Active == {"OPEN", "ACKNOWLEDGED", "IN_PROGRESS", "ESCALATED"}
Terminal == {"RESOLVED", "SUPPRESSED"}
AlertStatuses == Active \cup Terminal
Processes == {"worker", "api"}

ASSUME MonitoringAssumption ==
    /\ AssetOf \in [Findings -> Assets]
    /\ Scores \subseteq Nat /\ Critical \in Nat /\ Drift \in Nat \ {0}
    /\ "critical" \in Severities
    /\ None \notin Assets \cup Findings \cup FindingState
    /\ MaxChanges \in Nat /\ MaxFailures \in Nat /\ MaxRestarts \in Nat
    /\ MaxEscalations \in Nat

VARIABLES
    facts,      \* the database: risk and posture of the assets, the findings,
                \* the findings whose remediation is overdue, the assets with
                \* an expired risk acceptance
    events,     \* the worker's log of monitoring events
    baseline,   \* the worker's baselines, four dictionaries
    alerts,     \* alerts[p]: process p's alerts by fingerprint
    pass,       \* where the pass is: stage, asset at hand, what is left to do
    outcome,    \* how the last pass ended, whether the facts held still, and the
                \* assets whose posture baseline it did not find
    spent       \* what is used up of the bounds

vars == <<facts, events, baseline, alerts, pass, outcome, spent>>

Empty == [x \in {} |-> None]
Put(dict, key, value) == [x \in DOMAIN dict \cup {key} |->
                             IF x = key THEN value ELSE dict[x]]
Stages == {"idle", "asset", "risk", "posture", "findings", "resolved",
           "generate", "sla", "replay", "calm", "escalate"}
NoBaselines == [assets |-> {}, risk |-> Empty, posture |-> Empty, findings |-> Empty]
Idle == [stage |-> "idle", here |-> None, left |-> {}, batch |-> Empty]

--------------------------------------------------------------------------------
(* The log of events.                                                      *)

\* json.dumps and str of the states: equal texts for equal states only.
RiskText(score) == <<"score", score>>
FindingText(state) == <<"finding", state.severity, state.status>>

Event(type, a, f, prev, cur) ==
    [type |-> type, asset |-> a, finding |-> f, prev |-> prev, cur |-> cur]

\* The fingerprint covers every field: a transition seen before is not logged
\* a second time.
Fresh(e) == e \notin Range(events)
Log(es, e) == IF e \in Range(es) THEN es ELSE Append(es, e)

\* The log after the first n of es, which are two at most: a failed posture may
\* come with the expiry of an acceptance.
Logged(es, n) ==
    CASE n = 0 -> events
      [] n = 1 -> Log(events, es[1])
      [] n = 2 -> Log(Log(events, es[1]), es[2])
Emit(es, n) == events' = Logged(es, n)

\* A baseline that is missing when it is looked up is rebuilt from the log, where
\* the last event of the kind counts.  Asking for any baseline of an asset
\* rebuilds all three, whichever of them the dictionaries have.
RiskDrifts == {"RISK_INCREASED", "RISK_DECREASED"}
PostureDrifts == {"COMPLIANCE_FAILED", "COMPLIANCE_RESTORED", "RISK_ACCEPTANCE_EXPIRED",
                  "GOVERNANCE_DRIFT"}

OfAsset(a, types) == {e \in Range(events) : e.asset = a /\ e.type \in types}
OfFinding(f) == {e \in Range(events) : e.finding = f}
LastOf(wanted) ==
    events[CHOOSE i \in DOMAIN events :
             events[i] \in wanted /\ \A j \in DOMAIN events : events[j] \in wanted => j <= i]

ScoreIn(e) == e.cur[2]
PostureIn(e) == e.cur[1]
FindingIn(e) == [severity |-> e.cur[2], status |-> e.cur[3]]
Rebuilt(dict, key, wanted, last) == IF wanted = {} THEN dict ELSE Put(dict, key, last)

WithAsset(a) ==
    LET risks == OfAsset(a, RiskDrifts)
        postures == OfAsset(a, PostureDrifts)
    IN  [baseline EXCEPT !.assets = @ \cup {e.asset : e \in OfAsset(a, {"ASSET_ADDED"})},
                         !.risk = Rebuilt(@, a, risks, ScoreIn(LastOf(risks))),
                         !.posture = Rebuilt(@, a, postures, PostureIn(LastOf(postures)))]
WithFinding(f) ==
    [baseline EXCEPT !.findings = Rebuilt(@, f, OfFinding(f), FindingIn(LastOf(OfFinding(f))))]

\* The commit after the n-th event of es fails: the event stays in the log, the
\* baseline is known but the new state is not captured, the pass is over.
Fail ==
    /\ spent.failures < MaxFailures
    /\ spent' = [spent EXCEPT !.failures = @ + 1]
    /\ pass' = Idle
    /\ outcome' = [outcome EXCEPT !.last = "failed"]

BreaksAt(known, es) ==
    /\ \E n \in DOMAIN es : Fresh(es[n]) /\ Emit(es, n)
    /\ baseline' = known
    /\ Fail
    /\ UNCHANGED <<facts, alerts>>

\* The events are logged, the baseline captured, and the pass goes on.
Captures(es, captured, next) ==
    /\ Emit(es, Len(es))
    /\ baseline' = captured
    /\ pass' = next
    /\ UNCHANGED <<facts, alerts, spent>>

Observe(known, es, captured, next) ==
    \/ Captures(es, captured, next) /\ UNCHANGED outcome
    \/ BreaksAt(known, es)

--------------------------------------------------------------------------------
(* refresh_all.                                                            *)

At(stage) == [pass EXCEPT !.stage = stage]
NextAsset == IF pass.left = {} THEN {[Idle EXCEPT !.stage = "generate"]}
             ELSE {[stage |-> "asset", here |-> a, left |-> pass.left \ {a}, batch |-> Empty] :
                      a \in pass.left}

StartPass ==
    /\ pass = Idle
    /\ \E a \in Assets :
          pass' = [stage |-> "asset", here |-> a, left |-> Assets \ {a}, batch |-> Empty]
    /\ outcome' = [last |-> "running", still |-> TRUE, rebuilt |-> {}]
    /\ UNCHANGED <<facts, events, baseline, alerts, spent>>

CompareAsset ==
    /\ pass.stage = "asset"
    /\ LET a == pass.here
           known == IF a \in baseline.assets THEN baseline ELSE WithAsset(a)
       IN  Observe(known,
                   IF a \in known.assets THEN <<>>
                   ELSE <<Event("ASSET_ADDED", a, None, <<>>, <<"asset">>)>>,
                   [known EXCEPT !.assets = @ \cup {a}],
                   At("risk"))

RiskChange(old, new) ==
    LET crossed == (old < Critical) # (new < Critical)
    IN  CASE new - old >= Drift \/ (crossed /\ new > old)    -> "RISK_INCREASED"
          [] new - old <= - Drift \/ (crossed /\ new < old)  -> "RISK_DECREASED"
          [] OTHER                                           -> None

CompareRisk ==
    /\ pass.stage = "risk"
    /\ LET a == pass.here
           new == facts.risk[a]
           known == IF a \in DOMAIN baseline.risk THEN baseline ELSE WithAsset(a)
           old == IF a \in DOMAIN known.risk THEN known.risk[a] ELSE new
           change == RiskChange(old, new)
       IN  Observe(known,
                   IF change = None THEN <<>>
                   ELSE <<Event(change, a, None, RiskText(old), RiskText(new))>>,
                   IF change = None /\ a \in DOMAIN known.risk THEN known
                   ELSE [known EXCEPT !.risk = Put(@, a, new)],
                   At("posture"))

\* An expired risk acceptance is an event of its own, before the failure.
PostureEvents(a, old, new) ==
    LET drift(type) == Event(type, a, None, <<old>>, <<new>>)
    IN  CASE old = new -> <<>>
          [] old = "COMPLIANT" /\ new = "NON_COMPLIANT" ->
                IF a \in facts.lapsed
                THEN <<drift("RISK_ACCEPTANCE_EXPIRED"), drift("COMPLIANCE_FAILED")>>
                ELSE <<drift("COMPLIANCE_FAILED")>>
          [] old = "NON_COMPLIANT" /\ new = "COMPLIANT" -> <<drift("COMPLIANCE_RESTORED")>>
          [] OTHER -> <<drift("GOVERNANCE_DRIFT")>>

OpenFindings(a) ==
    LET open == {f \in Findings : AssetOf[f] = a /\ facts.findings[f] # None
                                    /\ facts.findings[f].status = "open"}
    IN  [f \in open |-> facts.findings[f]]

\* The rebuilding that a missing posture sets off comes after the risk was
\* compared, and puts the risk baseline back to the last one logged.
ComparePosture ==
    /\ pass.stage = "posture"
    /\ LET a == pass.here
           new == facts.posture[a]
           missing == {a} \ DOMAIN baseline.posture
           known == IF missing = {} THEN baseline ELSE WithAsset(a)
           old == IF a \in DOMAIN known.posture THEN known.posture[a] ELSE new
           drifts == PostureEvents(a, old, new)
       IN  \/ /\ Captures(drifts, [known EXCEPT !.posture = Put(@, a, new)],
                           [At("findings") EXCEPT !.batch = OpenFindings(a)])
              /\ outcome' = [outcome EXCEPT !.rebuilt = @ \cup missing]
           \/ BreaksAt(known, drifts)

\* The findings that were open when the query ran, one by one.
FindingEvents(f, old, new) ==
    LET drift(type) == <<Event(type, AssetOf[f], f,
                               IF old = None THEN <<>> ELSE FindingText(old),
                               FindingText(new))>>
    IN  CASE old = None                    -> drift("FINDING_ADDED")
          [] old # None /\ old.status # "open" -> drift("FINDING_REDISCOVERED")
          [] old # None /\ old.status = "open" /\ old.severity # new.severity
                                           -> drift("FINDING_MODIFIED")
          [] OTHER                         -> <<>>

CompareFinding(f) ==
    /\ pass.stage = "findings"
    /\ f \in DOMAIN pass.batch
    /\ LET known == IF f \in DOMAIN baseline.findings THEN baseline ELSE WithFinding(f)
           old == IF f \in DOMAIN known.findings THEN known.findings[f] ELSE None
       IN  Observe(known, FindingEvents(f, old, pass.batch[f]),
                   [known EXCEPT !.findings = Put(@, f, pass.batch[f])],
                   [pass EXCEPT !.batch = Restrict(@, DOMAIN @ \ {f})])

\* Then every finding the dictionary has a baseline of, whichever asset's.
FindingsCompared ==
    /\ pass.stage = "findings"
    /\ pass.batch = Empty
    /\ pass' = [At("resolved") EXCEPT !.batch = baseline.findings]
    /\ UNCHANGED <<facts, events, baseline, alerts, outcome, spent>>

\* The new state is not captured.
CompareResolved_Slip(f) ==
    /\ pass.stage = "resolved"
    /\ f \in DOMAIN pass.batch
    /\ LET old == pass.batch[f]
           new == facts.findings[f]
           resolved == AssetOf[f] = pass.here /\ old.status = "open" /\ new.status # "open"
       IN  Observe(baseline,
                   IF resolved THEN <<Event("FINDING_RESOLVED", AssetOf[f], f,
                                            FindingText(old), FindingText(new))>>
                   ELSE <<>>,
                   baseline,
                   [pass EXCEPT !.batch = Restrict(@, DOMAIN @ \ {f})])

CompareResolved(f) ==
    /\ pass.stage = "resolved"
    /\ f \in DOMAIN pass.batch
    /\ LET old == pass.batch[f]
           new == facts.findings[f]
           resolved == AssetOf[f] = pass.here /\ old.status = "open" /\ new.status # "open"
       IN  Observe(baseline,
                   IF resolved THEN <<Event("FINDING_RESOLVED", AssetOf[f], f,
                                            FindingText(old), FindingText(new))>>
                   ELSE <<>>,
                   IF resolved THEN [baseline EXCEPT !.findings = Put(@, f, new)]
                   ELSE baseline,
                   [pass EXCEPT !.batch = Restrict(@, DOMAIN @ \ {f})])

\* Any query of a pass may fail: the pass ends where it is.  The risk of an asset
\* is read from memory.
QueryFails ==
    /\ pass.stage \notin {"idle", "risk"}
    /\ Fail
    /\ UNCHANGED <<facts, events, baseline, alerts>>

AssetDone ==
    /\ pass.stage = "resolved"
    /\ pass.batch = Empty
    /\ pass' \in NextAsset
    /\ UNCHANGED <<facts, events, baseline, alerts, outcome, spent>>

--------------------------------------------------------------------------------
(* The alerts: one for each fingerprint, whatever became of it.            *)

AlertKey(type, a, f, r) == [type |-> type, asset |-> a, finding |-> f, remediation |-> r]

AlertType(e) ==
    CASE e.type = "ASSET_ADDED" -> "ASSET_DRIFT"
      [] e.type \in {"FINDING_ADDED", "FINDING_REDISCOVERED"} ->
            IF e.cur[2] = "critical" THEN "CRITICAL_FINDING" ELSE "FINDING_DRIFT"
      [] e.type = "FINDING_RESOLVED" -> "FINDING_DRIFT"
      [] e.type \in {"RISK_INCREASED", "RISK_DECREASED"} -> "RISK_DRIFT"
      [] e.type = "RISK_ACCEPTANCE_EXPIRED" -> "RISK_ACCEPTANCE_EXPIRATION"
      [] e.type \in {"COMPLIANCE_FAILED", "COMPLIANCE_RESTORED", "GOVERNANCE_DRIFT"} ->
            "COMPLIANCE_DRIFT"
      [] OTHER -> None                                    \* FINDING_MODIFIED

AlertOf(e) == AlertKey(AlertType(e), e.asset, e.finding, None)
SlaAlertOf(f) == AlertKey("SLA_BREACH", AssetOf[f], f, f)

NewAlert == [status |-> "OPEN", trail |-> <<>>]
Raised(mine, keys) ==
    [k \in DOMAIN mine \cup keys |-> IF k \in DOMAIN mine THEN mine[k] ELSE NewAlert]

Moved_Slip(alert, new) ==                       \* logged after the assignment
    [status |-> new, trail |-> Append(alert.trail, <<new, new>>)]
Moved(alert, new) ==
    [status |-> new, trail |-> Append(alert.trail, <<alert.status, new>>)]
Settled(mine, keys, new) ==
    [k \in DOMAIN mine |-> IF k \in keys THEN Moved(mine[k], new) ELSE mine[k]]

ActiveAlerts_Slip(mine) == {k \in DOMAIN mine : mine[k].status # "SUPPRESSED"}
ActiveAlerts(mine) == {k \in DOMAIN mine : mine[k].status \in Active}

\* A section of the pass writes the alerts in todo, in some order: all of them
\* and the pass goes on, or some of them and the commit after the last fails.
\* What is overdue is read once, before the SLA alerts are raised.
GoesOnTo(stage) ==
    /\ pass' = CASE stage = "idle" -> Idle
                 [] stage = "sla"  -> [At(stage) EXCEPT !.left = facts.overdue]
                 [] OTHER          -> At(stage)
    /\ outcome' = IF stage = "idle" THEN [outcome EXCEPT !.last = "done"] ELSE outcome

Section(here, there, todo, Written(_, _)) ==
    /\ pass.stage = here
    /\ \/ /\ alerts' = [alerts EXCEPT !.worker = Written(@, todo)]
          /\ GoesOnTo(there)
          /\ UNCHANGED spent
       \/ /\ \E some \in (SUBSET todo) \ {{}} :
                alerts' = [alerts EXCEPT !.worker = Written(@, some)]
          /\ Fail
    /\ UNCHANGED <<facts, events, baseline>>

\* Only the newest event is looked at.
RaiseAlerts ==
    LET keys == {AlertOf(e) : e \in {x \in Range(events) : AlertType(x) # None}}
    IN  Section("generate", "sla", keys \ DOMAIN alerts.worker, Raised)

RaiseSlaAlerts ==
    LET keys == {SlaAlertOf(f) : f \in pass.left}
    IN  Section("sla", "replay", keys \ DOMAIN alerts.worker, Raised)

Resolved(mine, keys) == Settled(mine, keys, "RESOLVED")

\* Every resolution and restoration ever logged resolves its alerts again.
Recovered(mine) ==
    {k \in ActiveAlerts(mine) : \E e \in Range(events) :
        \/ e.type = "FINDING_RESOLVED" /\ k.finding = e.finding
        \/ e.type = "COMPLIANCE_RESTORED" /\ k.asset = e.asset
                                          /\ k.type = "COMPLIANCE_DRIFT"}
ReplayRecoveries ==
    Section("replay", "calm", Recovered(alerts.worker), Resolved)

CalmSlaAlerts ==
    Section("calm", "escalate",
            {k \in ActiveAlerts(alerts.worker) :
                k.type = "SLA_BREACH" /\ k.remediation \notin pass.left},
            Resolved)

\* Any alert that is not escalated yet may have reached the age at which its
\* severity escalates it; validate_transition is not asked.
EscalateOldAlerts ==
    /\ pass.stage = "escalate"
    /\ \E old \in SUBSET {k \in ActiveAlerts(alerts.worker) :
                              alerts.worker[k].status # "ESCALATED"} :
          /\ spent.escalations + Cardinality(old) <= MaxEscalations
          /\ alerts' = [alerts EXCEPT !.worker = Settled(@, old, "ESCALATED")]
          /\ \/ GoesOnTo("idle")
                /\ spent' = [spent EXCEPT !.escalations = @ + Cardinality(old)]
             \/ /\ old # {} /\ spent.failures < MaxFailures
                /\ pass' = Idle
                /\ outcome' = [outcome EXCEPT !.last = "failed"]
                /\ spent' = [spent EXCEPT !.escalations = @ + Cardinality(old),
                                          !.failures = @ + 1]
    /\ UNCHANGED <<facts, events, baseline>>

--------------------------------------------------------------------------------
(* Analysts, at the API process.                                           *)

Outside ==
    /\ spent.changes < MaxChanges
    /\ spent' = [spent EXCEPT !.changes = @ + 1]

CreateAlert(m) ==
    /\ m \notin DOMAIN alerts.api
    /\ alerts' = [alerts EXCEPT !.api = Put(@, m, NewAlert)]
    /\ Outside
    /\ UNCHANGED <<facts, events, baseline, pass, outcome>>

MayBecome(old) ==
    CASE old = "OPEN"         -> {"ACKNOWLEDGED", "SUPPRESSED", "RESOLVED"}
      [] old = "ACKNOWLEDGED" -> {"IN_PROGRESS", "RESOLVED"}
      [] old = "IN_PROGRESS"  -> {"ESCALATED", "RESOLVED"}
      [] old = "ESCALATED"    -> {"RESOLVED"}
      [] OTHER                -> {}

\* The API has no call that escalates.  A request for the status an alert has is
\* logged and changes nothing; when the audit entry cannot be committed the
\* request fails and the alert has moved all the same.
Requests == {"ACKNOWLEDGED", "IN_PROGRESS", "RESOLVED", "SUPPRESSED"}

TransitionAlert(m, new) ==
    /\ m \in DOMAIN alerts.api
    /\ new \in MayBecome(alerts.api[m].status)
    /\ alerts' = [alerts EXCEPT !.api[m] = Moved(@, new)]
    /\ Outside
    /\ UNCHANGED <<facts, events, baseline, pass, outcome>>

--------------------------------------------------------------------------------
(* The world: scans and people change the database, the worker restarts.   *)

Change(new) ==
    /\ Outside
    /\ facts' = new
    /\ outcome' = [outcome EXCEPT !.still = FALSE]
    /\ UNCHANGED <<events, baseline, alerts, pass>>

ScoreChanges == \E a \in Assets : \E s \in Scores \ {facts.risk[a]} :
    Change([facts EXCEPT !.risk[a] = s])
PostureChanges == \E a \in Assets : \E p \in Postures \ {facts.posture[a]} :
    Change([facts EXCEPT !.posture[a] = p])
FindingIsReported == \E f \in Findings, s \in Severities :
    /\ facts.findings[f] # [severity |-> s, status |-> "open"]
    /\ Change([facts EXCEPT !.findings[f] = [severity |-> s, status |-> "open"]])
FindingIsClosed == \E f \in Findings :
    /\ facts.findings[f] # None
    /\ facts.findings[f].status = "open"
    /\ Change([facts EXCEPT !.findings[f].status = "closed"])
RemediationIsOverdue == \E f \in Findings \ facts.overdue :
    /\ facts.findings[f] # None
    /\ Change([facts EXCEPT !.overdue = @ \cup {f}])
RemediationIsDealtWith == \E f \in facts.overdue :
    Change([facts EXCEPT !.overdue = @ \ {f}])
AcceptanceLapses == \E a \in Assets \ facts.lapsed :
    Change([facts EXCEPT !.lapsed = @ \cup {a}])

Restart ==
    /\ spent.restarts < MaxRestarts
    /\ spent' = [spent EXCEPT !.restarts = @ + 1]
    /\ events' = <<>>
    /\ baseline' = NoBaselines
    /\ alerts' = [alerts EXCEPT !.worker = Empty]
    /\ pass' = Idle
    /\ outcome' = [last |-> "none", still |-> FALSE, rebuilt |-> {}]
    /\ UNCHANGED facts

MonitoringInit ==
    /\ facts \in [risk: [Assets -> Scores], posture: [Assets -> {"COMPLIANT"}],
                  findings: [Findings -> {None}], overdue: {{}}, lapsed: {{}}]
    /\ events = <<>>
    /\ baseline = NoBaselines
    /\ alerts = [p \in Processes |-> Empty]
    /\ pass = Idle
    /\ outcome = [last |-> "none", still |-> FALSE, rebuilt |-> {}]
    /\ spent = [changes |-> 0, failures |-> 0, escalations |-> 0,
               restarts |-> 0]

MonitoringNext ==
    \/ StartPass \/ CompareAsset \/ CompareRisk \/ ComparePosture
    \/ \E f \in Findings : CompareFinding(f)
    \/ FindingsCompared
    \/ \E f \in Findings : CompareResolved(f)
    \/ AssetDone \/ QueryFails
    \/ RaiseAlerts \/ RaiseSlaAlerts \/ ReplayRecoveries \/ CalmSlaAlerts
    \/ EscalateOldAlerts
    \/ \E m \in Manual : CreateAlert(m)
    \/ \E m \in Manual, new \in Requests : TransitionAlert(m, new)
    \/ ScoreChanges \/ PostureChanges \/ FindingIsReported \/ FindingIsClosed
    \/ RemediationIsOverdue \/ RemediationIsDealtWith \/ AcceptanceLapses
    \/ Restart

MonitoringSpec == MonitoringInit /\ [][MonitoringNext]_vars

--------------------------------------------------------------------------------
(* What the log, the baselines and the alerts promise.                     *)

AlertOK(alert) == alert.status \in AlertStatuses
                  /\ alert.trail \in Seq(AlertStatuses \X AlertStatuses)

\* The types of the variables (refresh_all, generate_alerts).
MonitoringTypeOK ==
    /\ facts.risk \in [Assets -> Scores] /\ facts.posture \in [Assets -> Postures]
    /\ facts.findings \in [Findings -> FindingState \cup {None}]
    /\ facts.overdue \subseteq Findings /\ facts.lapsed \subseteq Assets
    /\ IsInjective(events)
    /\ \A e \in Range(events) : e.asset \in Assets /\ e.finding \in Findings \cup {None}
    /\ DOMAIN baseline.risk \subseteq Assets /\ Range(baseline.risk) \subseteq Scores
    /\ DOMAIN baseline.posture \subseteq Assets /\ Range(baseline.posture) \subseteq Postures
    /\ DOMAIN baseline.findings \subseteq {f \in Findings : facts.findings[f] # None}
    /\ Range(baseline.findings) \subseteq FindingState
    /\ \A p \in Processes : \A k \in DOMAIN alerts[p] : AlertOK(alerts[p][k])
    /\ pass.stage \in Stages /\ pass.here \in Assets \cup {None}

\* A pass that ended well while the database held still.
GoodPass == pass = Idle /\ outcome.last = "done" /\ outcome.still

\* Drift is measured against what the last good pass saw: after it every
\* baseline is the database's state, a risk score's up to the drift that does
\* not count, whatever passes failed half way before (refresh_all and the
\* rebuilding of lost baselines).  One exception: where the pass found no posture
\* baseline, as none before it came so far, the rebuilding may have put the risk
\* baseline it had just compared back to a score that was logged earlier.
BaselinesCatchUp ==
    GoodPass =>
      \A a \in Assets :
        /\ a \in baseline.assets
        /\ baseline.posture[a] = facts.posture[a]
        /\ \/ RiskChange(baseline.risk[a], facts.risk[a]) = None
           \/ /\ a \in outcome.rebuilt
              /\ \E e \in OfAsset(a, RiskDrifts) : ScoreIn(e) = baseline.risk[a]
        /\ \A f \in Findings : AssetOf[f] = a /\ f \in DOMAIN baseline.findings =>
              \/ baseline.findings[f] = facts.findings[f]
              \/ baseline.findings[f].status # "open" /\ facts.findings[f].status # "open"

\* No drift stays without its alert because the pass that saw it failed: after
\* a good pass every event that raises alerts has its alert, open or settled
\* (generate_alerts goes through the whole log each time).
DriftIsAlerted ==
    pass = Idle /\ outcome.last = "done" =>
      \A e \in Range(events) : AlertType(e) # None => AlertOf(e) \in DOMAIN alerts.worker

\* After a good pass no alert is active about a finding that was seen to be
\* closed, its SLA alert included, and an SLA alert is active only while its
\* remediation is overdue (auto-resolution, sections a and c).
SettledMattersAreQuiet ==
    GoodPass =>
      \A k \in ActiveAlerts(alerts.worker) :
        /\ k.finding \in DOMAIN baseline.findings =>
              baseline.findings[k.finding].status = "open"
        /\ k.type = "SLA_BREACH" => k.remediation \in facts.overdue

\* One good pass makes up for those that failed half way: baselines, alerts and
\* settled matters together (refresh_all and generate_alerts).
GoodPassMakesUp == BaselinesCatchUp /\ DriftIsAlerted /\ SettledMattersAreQuiet

\* An alert's history tells how it came to its status, through transitions,
\* auto-resolution and the escalation that does without validate_transition:
\* each entry starts where the one before ended, none leaves a terminal status
\* or returns to one.
TrailTellsStatus ==
    \A p \in Processes : \A k \in DOMAIN alerts[p] :
      LET t == alerts[p][k].trail
      IN  /\ alerts[p][k].status = IF t = <<>> THEN "OPEN" ELSE Last(t)[2]
          /\ \A i \in DOMAIN t : t[i][1] = IF i = 1 THEN "OPEN" ELSE t[i-1][2]
          /\ \A i, j \in DOMAIN t : i <= j => t[i][1] # t[j][2]

\* A settled alert stays settled: no pass, replay or escalation reopens it
\* while the process lives (terminal state enforcement).
SettledAlertsStaySettled ==
    [][\A p \in Processes : \A k \in DOMAIN alerts[p] :
          alerts[p][k].status \in Terminal =>
              \/ k \in DOMAIN alerts'[p] /\ alerts'[p][k] = alerts[p][k]
              \/ spent'.restarts > spent.restarts]_vars
================================================================================
