--------------------------- MODULE MonitoringProofs ----------------------------
(***************************************************************************)
(* The alerts, for any number of assets, findings, scores and alerts of    *)
(* analysts.                                                               *)
(*                                                                         *)
(* First their histories: every entry of an alert's trail goes up from     *)
(* OPEN over ACKNOWLEDGED, IN_PROGRESS and ESCALATED to a terminal status. *)
(* What the passes log and compare plays no part in that: whichever alerts *)
(* a section writes, it raises fresh ones or moves active ones up.         *)
(*                                                                         *)
(* Then what a good pass achieves, where it plays every part.              *)
(***************************************************************************)
EXTENDS Monitoring, TLAPS

Rank(s) == CASE s = "OPEN"         -> 0
             [] s = "ACKNOWLEDGED" -> 1
             [] s = "IN_PROGRESS"  -> 2
             [] s = "ESCALATED"    -> 3
             [] OTHER              -> 4

\* Each entry starts where the one before ended, and where an entry starts is
\* below where any later one ends.
Told(alert) ==
    LET t == alert.trail
    IN  /\ alert.status = IF t = <<>> THEN "OPEN" ELSE t[Len(t)][2]
        /\ \A i \in DOMAIN t : t[i][1] = IF i = 1 THEN "OPEN" ELSE t[i-1][2]
        /\ \A i, j \in DOMAIN t : i <= j => Rank(t[i][1]) < Rank(t[j][2])

AlertFits(alert) ==
    /\ alert \in [status: AlertStatuses, trail: Seq(AlertStatuses \X AlertStatuses)]
    /\ Told(alert)

DictFits(mine) == \A k \in DOMAIN mine : AlertFits(mine[k])

MonitoringInv ==
    /\ DOMAIN alerts = Processes
    /\ \A p \in Processes : DictFits(alerts[p])
    /\ "restarts" \in DOMAIN spent
    /\ spent.restarts \in Nat

\* What a step does to one process's alerts: it keeps the terminal ones.
Keeps(old, new) ==
    \A k \in DOMAIN old : old[k].status \in Terminal => k \in DOMAIN new /\ new[k] = old[k]

\* What a step may do to the alerts and to the count of restarts.
Tended ==
    /\ DOMAIN alerts' = Processes
    /\ \A p \in Processes : DictFits(alerts'[p]) /\ Keeps(alerts[p], alerts'[p])
    /\ "restarts" \in DOMAIN spent'
    /\ spent'.restarts = spent.restarts

--------------------------------------------------------------------------------

LEMMA RankFact ==
    /\ \A s \in AlertStatuses : Rank(s) \in Nat
    /\ \A s \in Active : Rank(s) < 4
    /\ Rank("RESOLVED") = 4 /\ Rank("SUPPRESSED") = 4 /\ Rank("ESCALATED") = 3
    /\ \A s \in Active \ {"ESCALATED"} : Rank(s) < 3
    /\ \A s \in AlertStatuses : \A new \in MayBecome(s) :
          new \in AlertStatuses /\ s \in Active /\ Rank(s) < Rank(new)
<1>1. /\ Rank("OPEN") = 0 /\ Rank("ACKNOWLEDGED") = 1 /\ Rank("IN_PROGRESS") = 2
      /\ Rank("ESCALATED") = 3 /\ Rank("RESOLVED") = 4 /\ Rank("SUPPRESSED") = 4
  BY DEF Rank
<1>2. /\ MayBecome("OPEN") = {"ACKNOWLEDGED", "SUPPRESSED", "RESOLVED"}
      /\ MayBecome("ACKNOWLEDGED") = {"IN_PROGRESS", "RESOLVED"}
      /\ MayBecome("IN_PROGRESS") = {"ESCALATED", "RESOLVED"}
      /\ MayBecome("ESCALATED") = {"RESOLVED"}
      /\ MayBecome("RESOLVED") = {} /\ MayBecome("SUPPRESSED") = {}
  BY DEF MayBecome
<1> HIDE DEF Rank, MayBecome
<1>3. \A s \in AlertStatuses : \A new \in MayBecome(s) :
          new \in AlertStatuses /\ s \in Active /\ Rank(s) < Rank(new)
  BY <1>1, <1>2 DEF AlertStatuses, Active, Terminal
<1>4. QED
  BY <1>1, <1>3 DEF AlertStatuses, Active, Terminal

LEMMA NewAlertFits == AlertFits(NewAlert)
  BY DEF AlertFits, Told, NewAlert, AlertStatuses, Active

\* An alert moved up keeps a history that tells its status.
LEMMA MovedUp ==
  ASSUME NEW alert, AlertFits(alert),
         NEW new \in AlertStatuses, Rank(alert.status) < Rank(new)
  PROVE  AlertFits(Moved(alert, new))
<1> DEFINE t == alert.trail
           u == Append(t, <<alert.status, new>>)
<1>1. /\ t \in Seq(AlertStatuses \X AlertStatuses) /\ alert.status \in AlertStatuses
      /\ Len(t) \in Nat /\ DOMAIN t = 1..Len(t)
  BY DEF AlertFits
<1>2. /\ u \in Seq(AlertStatuses \X AlertStatuses)
      /\ Len(u) = Len(t) + 1 /\ DOMAIN u = 1..(Len(t) + 1)
      /\ \A i \in 1..Len(t) : u[i] = t[i]
      /\ u[Len(t) + 1] = <<alert.status, new>>
  BY <1>1
<1>3. u # <<>>
  BY <1>1, <1>2
<1>4. \A i \in DOMAIN t : t[i][1] \in AlertStatuses /\ t[i][2] \in AlertStatuses
  BY <1>1
<1>5. \A i \in DOMAIN u : u[i][1] = IF i = 1 THEN "OPEN" ELSE u[i-1][2]
  <2> SUFFICES ASSUME NEW i \in DOMAIN u
               PROVE  u[i][1] = IF i = 1 THEN "OPEN" ELSE u[i-1][2]
    OBVIOUS
  <2>1. CASE i \in 1..Len(t)
    BY <2>1, <1>1, <1>2 DEF AlertFits, Told
  <2>2. CASE i = Len(t) + 1 /\ t = <<>>
    BY <2>2, <1>1, <1>2 DEF AlertFits, Told
  <2>3. CASE i = Len(t) + 1 /\ t # <<>>
    <3>1. Len(t) # 0
      BY <2>3, <1>1
    <3>2. i # 1 /\ i - 1 = Len(t) /\ Len(t) \in 1..Len(t)
      BY <2>3, <3>1, <1>1
    <3>3. alert.status = t[Len(t)][2]
      BY <2>3 DEF AlertFits, Told
    <3>4. u[i][1] = alert.status /\ u[i-1] = t[Len(t)]
      BY <2>3, <3>2, <1>2
    <3>5. QED
      BY <3>2, <3>3, <3>4
  <2>4. QED
    BY <2>1, <2>2, <2>3, <1>1, <1>2
<1>6. \A i, j \in DOMAIN u : i <= j => Rank(u[i][1]) < Rank(u[j][2])
  <2> SUFFICES ASSUME NEW i \in DOMAIN u, NEW j \in DOMAIN u, i <= j
               PROVE  Rank(u[i][1]) < Rank(u[j][2])
    OBVIOUS
  <2>1. CASE j \in 1..Len(t)
    <3>1. i \in 1..Len(t)
      BY <2>1, <1>1, <1>2
    <3>2. Rank(t[i][1]) < Rank(t[j][2])
      BY <2>1, <3>1, <1>1 DEF AlertFits, Told
    <3>3. QED
      BY <2>1, <3>1, <3>2, <1>2
  <2>2. CASE j = Len(t) + 1 /\ i = Len(t) + 1
    BY <2>2, <1>2
  <2>3. CASE j = Len(t) + 1 /\ i \in 1..Len(t)
    <3>1. Len(t) \in 1..Len(t) /\ i <= Len(t) /\ t # <<>>
      BY <2>3, <1>1
    <3>2. alert.status = t[Len(t)][2]
      BY <3>1 DEF AlertFits, Told
    <3>3. Rank(t[i][1]) < Rank(alert.status)
      BY <2>3, <3>1, <3>2, <1>1 DEF AlertFits, Told
    <3>4. /\ Rank(t[i][1]) \in Nat /\ Rank(alert.status) \in Nat /\ Rank(new) \in Nat
      BY <2>3, <1>1, <1>4, RankFact
    <3>5. Rank(t[i][1]) < Rank(new)
      BY <3>3, <3>4
    <3>6. QED
      BY <2>3, <3>5, <1>2
  <2>4. QED
    BY <2>1, <2>2, <2>3, <1>1, <1>2
<1>7. Moved(alert, new) = [status |-> new, trail |-> u]
  BY DEF Moved
<1>8. u[Len(u)][2] = new
  BY <1>1, <1>2
<1> HIDE DEF u
<1>9. QED
  BY <1>2, <1>3, <1>5, <1>6, <1>7, <1>8 DEF AlertFits, Told

\* An alert's history is as TrailTellsStatus says it is.
LEMMA ToldIsTold ==
  ASSUME NEW alert, AlertFits(alert)
  PROVE  LET t == alert.trail
         IN  /\ alert.status = IF t = <<>> THEN "OPEN" ELSE Last(t)[2]
             /\ \A i \in DOMAIN t : t[i][1] = IF i = 1 THEN "OPEN" ELSE t[i-1][2]
             /\ \A i, j \in DOMAIN t : i <= j => t[i][1] # t[j][2]
<1> DEFINE t == alert.trail
<1>1. \A i, j \in DOMAIN t : i <= j => t[i][1] # t[j][2]
  <2> SUFFICES ASSUME NEW i \in DOMAIN t, NEW j \in DOMAIN t, i <= j, t[i][1] = t[j][2]
               PROVE  FALSE
    OBVIOUS
  <2>1. Rank(t[i][1]) < Rank(t[j][2])
    BY DEF AlertFits, Told
  <2>2. t[i][1] \in AlertStatuses
    BY DEF AlertFits
  <2>3. Rank(t[i][1]) \in Nat
    BY <2>2, RankFact
  <2>4. QED
    BY <2>1, <2>3
<1>2. Last(t) = t[Len(t)]
  BY DEF Last
<1>3. QED
  BY <1>1, <1>2 DEF AlertFits, Told

\* Raising alerts keeps those there are.
LEMMA RaisedFits ==
  ASSUME NEW mine, DictFits(mine), NEW keys
  PROVE  DictFits(Raised(mine, keys)) /\ Keeps(mine, Raised(mine, keys))
  BY NewAlertFits DEF DictFits, Keeps, Raised

\* Settling or escalating active alerts moves them up and leaves the others.
LEMMA SettledFits ==
  ASSUME NEW mine, DictFits(mine), NEW new \in AlertStatuses,
         NEW keys \in SUBSET ActiveAlerts(mine),
         \A k \in keys : Rank(mine[k].status) < Rank(new)
  PROVE  DictFits(Settled(mine, keys, new)) /\ Keeps(mine, Settled(mine, keys, new))
<1>1. \A k \in keys : AlertFits(Moved(mine[k], new)) /\ mine[k].status \in Active
  BY MovedUp DEF DictFits, ActiveAlerts
<1>2. \A k \in keys : mine[k].status \notin Terminal
  BY <1>1 DEF Active, Terminal
<1>3. QED
  BY <1>1, <1>2 DEF DictFits, Keeps, Settled

LEMMA ResolvedFits ==
  ASSUME NEW mine, DictFits(mine), NEW keys \in SUBSET ActiveAlerts(mine)
  PROVE  DictFits(Resolved(mine, keys)) /\ Keeps(mine, Resolved(mine, keys))
<1>1. \A k \in keys : Rank(mine[k].status) < Rank("RESOLVED")
  BY RankFact DEF ActiveAlerts
<1>2. QED
  BY <1>1, SettledFits DEF Resolved, AlertStatuses, Terminal

--------------------------------------------------------------------------------

LEMMA SameAlerts ==
  ASSUME MonitoringInv, UNCHANGED alerts,
         "restarts" \in DOMAIN spent', spent'.restarts = spent.restarts
  PROVE  Tended
  BY DEF MonitoringInv, Tended, Keeps

LEMMA NewWorkerAlerts ==
  ASSUME MonitoringInv, NEW mine, DictFits(mine), Keeps(alerts.worker, mine),
         alerts' = [alerts EXCEPT !.worker = mine],
         "restarts" \in DOMAIN spent', spent'.restarts = spent.restarts
  PROVE  Tended
<1>1. "worker" \in Processes /\ "api" \in Processes /\ Processes = {"worker", "api"}
  BY DEF Processes
<1>2. DOMAIN alerts' = Processes /\ alerts'["worker"] = mine /\ alerts'["api"] = alerts["api"]
  BY <1>1 DEF MonitoringInv
<1>3. QED
  BY <1>1, <1>2 DEF MonitoringInv, Tended, Keeps

LEMMA FailCounts ==
  ASSUME MonitoringInv, Fail
  PROVE  "restarts" \in DOMAIN spent' /\ spent'.restarts = spent.restarts
  BY DEF MonitoringInv, Fail

LEMMA ObserveStep ==
  ASSUME MonitoringInv, NEW known, NEW es, NEW captured, NEW next,
         Captures(es, captured, next) \/ BreaksAt(known, es)
  PROVE  Tended
<1>1. CASE Captures(es, captured, next)
  BY <1>1, SameAlerts DEF Captures, MonitoringInv
<1>2. CASE BreaksAt(known, es)
  BY <1>2, SameAlerts, FailCounts DEF BreaksAt
<1>3. QED
  BY <1>1, <1>2

LEMMA OutsideCounts ==
  ASSUME MonitoringInv, Outside
  PROVE  "restarts" \in DOMAIN spent' /\ spent'.restarts = spent.restarts
  BY DEF MonitoringInv, Outside

LEMMA ChangeStep ==
  ASSUME MonitoringInv, NEW new, Change(new)
  PROVE  Tended
  BY SameAlerts, OutsideCounts DEF Change

LEMMA PassSteps ==
  ASSUME MonitoringInv,
         \/ StartPass \/ CompareAsset \/ CompareRisk \/ ComparePosture
         \/ \E f \in Findings : CompareFinding(f)
         \/ FindingsCompared
         \/ \E f \in Findings : CompareResolved(f)
         \/ AssetDone \/ QueryFails
  PROVE  Tended
<1>1. CASE StartPass \/ FindingsCompared \/ AssetDone
  BY <1>1, SameAlerts DEF StartPass, FindingsCompared, AssetDone, MonitoringInv
<1>2. CASE QueryFails
  BY <1>2, SameAlerts, FailCounts DEF QueryFails
<1>3. CASE CompareAsset
  BY <1>3, ObserveStep DEF CompareAsset, Observe
<1>4. CASE CompareRisk
  BY <1>4, ObserveStep DEF CompareRisk, Observe
<1>5. CASE ComparePosture
  BY <1>5, ObserveStep DEF ComparePosture
<1>6. CASE \E f \in Findings : CompareFinding(f)
  BY <1>6, ObserveStep DEF CompareFinding, Observe
<1>7. CASE \E f \in Findings : CompareResolved(f)
  BY <1>7, ObserveStep DEF CompareResolved, Observe
<1>8. QED
  BY <1>1, <1>2, <1>3, <1>4, <1>5, <1>6, <1>7

LEMMA WorldSteps ==
  ASSUME MonitoringInv,
         \/ ScoreChanges \/ PostureChanges \/ FindingIsReported \/ FindingIsClosed
         \/ RemediationIsOverdue \/ RemediationIsDealtWith \/ AcceptanceLapses
  PROVE  Tended
<1>1. CASE ScoreChanges
  BY <1>1, ChangeStep DEF ScoreChanges
<1>2. CASE PostureChanges
  BY <1>2, ChangeStep DEF PostureChanges
<1>3. CASE FindingIsReported
  BY <1>3, ChangeStep DEF FindingIsReported
<1>4. CASE FindingIsClosed
  BY <1>4, ChangeStep DEF FindingIsClosed
<1>5. CASE RemediationIsOverdue
  BY <1>5, ChangeStep DEF RemediationIsOverdue
<1>6. CASE RemediationIsDealtWith
  BY <1>6, ChangeStep DEF RemediationIsDealtWith
<1>7. CASE AcceptanceLapses
  BY <1>7, ChangeStep DEF AcceptanceLapses
<1>8. QED
  BY <1>1, <1>2, <1>3, <1>4, <1>5, <1>6, <1>7

--------------------------------------------------------------------------------

LEMMA RaiseSteps ==
  ASSUME MonitoringInv, RaiseAlerts \/ RaiseSlaAlerts
  PROVE  Tended
<1>1. DictFits(alerts.worker)
  BY DEF MonitoringInv, Processes
<1>2. ASSUME NEW here, NEW there, NEW todo, Section(here, there, todo, Raised)
      PROVE  Tended
  <2>1. PICK keys : alerts' = [alerts EXCEPT !.worker = Raised(@, keys)]
    BY <1>2 DEF Section
  <2>2. "restarts" \in DOMAIN spent' /\ spent'.restarts = spent.restarts
    BY <1>2, FailCounts DEF Section, MonitoringInv
  <2>3. QED
    BY <1>1, <2>1, <2>2, RaisedFits, NewWorkerAlerts
<1>3. QED
  BY <1>2 DEF RaiseAlerts, RaiseSlaAlerts

LEMMA SettleSteps ==
  ASSUME MonitoringInv, ReplayRecoveries \/ CalmSlaAlerts
  PROVE  Tended
<1>1. DictFits(alerts.worker)
  BY DEF MonitoringInv, Processes
<1>2. ASSUME NEW here, NEW there, NEW todo \in SUBSET ActiveAlerts(alerts.worker),
             Section(here, there, todo, Resolved)
      PROVE  Tended
  <2>1. PICK keys \in SUBSET todo : alerts' = [alerts EXCEPT !.worker = Resolved(@, keys)]
    BY <1>2 DEF Section
  <2>2. "restarts" \in DOMAIN spent' /\ spent'.restarts = spent.restarts
    BY <1>2, FailCounts DEF Section, MonitoringInv
  <2>3. keys \in SUBSET ActiveAlerts(alerts.worker)
    BY <2>1
  <2>4. QED
    BY <1>1, <2>1, <2>2, <2>3, ResolvedFits, NewWorkerAlerts
<1>3. CASE ReplayRecoveries
  <2>1. Recovered(alerts.worker) \in SUBSET ActiveAlerts(alerts.worker)
    BY DEF Recovered
  <2>2. QED
    BY <1>2, <1>3, <2>1 DEF ReplayRecoveries
<1>4. CASE CalmSlaAlerts
  <2> DEFINE todo == {k \in ActiveAlerts(alerts.worker) :
                         k.type = "SLA_BREACH" /\ k.remediation \notin pass.left}
  <2>1. todo \in SUBSET ActiveAlerts(alerts.worker)
    OBVIOUS
  <2>2. Section("calm", "escalate", todo, Resolved)
    BY <1>4 DEF CalmSlaAlerts
  <2> HIDE DEF todo
  <2>3. QED
    BY <1>2, <2>1, <2>2
<1>5. QED
  BY <1>3, <1>4

LEMMA EscalateStep ==
  ASSUME MonitoringInv, EscalateOldAlerts
  PROVE  Tended
<1>1. DictFits(alerts.worker)
  BY DEF MonitoringInv, Processes
<1>2. PICK old \in SUBSET {k \in ActiveAlerts(alerts.worker) :
                              alerts.worker[k].status # "ESCALATED"} :
          /\ alerts' = [alerts EXCEPT !.worker = Settled(@, old, "ESCALATED")]
          /\ \/ spent' = [spent EXCEPT !.escalations = @ + Cardinality(old)]
             \/ spent' = [spent EXCEPT !.escalations = @ + Cardinality(old),
                                       !.failures = @ + 1]
  BY DEF EscalateOldAlerts
<1>3. "restarts" \in DOMAIN spent' /\ spent'.restarts = spent.restarts
  BY <1>2 DEF MonitoringInv
<1>4. old \in SUBSET ActiveAlerts(alerts.worker)
  BY <1>2
<1>5. \A k \in old : alerts.worker[k].status \in Active \ {"ESCALATED"}
  BY <1>2 DEF ActiveAlerts
<1>6. "ESCALATED" \in AlertStatuses
  BY DEF AlertStatuses, Active
<1>7. \A k \in old : Rank(alerts.worker[k].status) < Rank("ESCALATED")
  BY <1>5, RankFact
<1>8. QED
  BY <1>1, <1>2, <1>3, <1>4, <1>6, <1>7, SettledFits, NewWorkerAlerts

LEMMA AnalystSteps ==
  ASSUME MonitoringInv,
         \/ \E m \in Manual : CreateAlert(m)
         \/ \E m \in Manual, new \in Requests : TransitionAlert(m, new)
  PROVE  Tended
<1>1. "worker" \in Processes /\ "api" \in Processes /\ Processes = {"worker", "api"}
  BY DEF Processes
<1>2. DictFits(alerts.api) /\ DictFits(alerts.worker) /\ DOMAIN alerts = Processes
  BY <1>1 DEF MonitoringInv
<1>3. ASSUME NEW mine, DictFits(mine), Keeps(alerts.api, mine), Outside,
             alerts' = [alerts EXCEPT !.api = mine]
      PROVE  Tended
  <2>1. DOMAIN alerts' = Processes /\ alerts'["api"] = mine /\ alerts'["worker"] = alerts["worker"]
    BY <1>1, <1>2, <1>3
  <2>2. "restarts" \in DOMAIN spent' /\ spent'.restarts = spent.restarts
    BY <1>3, OutsideCounts
  <2>3. QED
    BY <1>1, <1>2, <1>3, <2>1, <2>2 DEF Tended, Keeps
<1>4. ASSUME NEW m \in Manual, CreateAlert(m)
      PROVE  Tended
  <2> DEFINE mine == Put(alerts.api, m, NewAlert)
  <2>1. DictFits(mine) /\ Keeps(alerts.api, mine)
    BY <1>2, <1>4, NewAlertFits DEF CreateAlert, DictFits, Keeps, Put
  <2>2. alerts' = [alerts EXCEPT !.api = mine] /\ Outside
    BY <1>4 DEF CreateAlert
  <2> HIDE DEF mine
  <2>3. QED
    BY <1>3, <2>1, <2>2
<1>5. ASSUME NEW m \in Manual, NEW new \in Requests, TransitionAlert(m, new)
      PROVE  Tended
  <2> DEFINE mine == [alerts.api EXCEPT ![m] = Moved(@, new)]
  <2>1. m \in DOMAIN alerts.api /\ new \in MayBecome(alerts.api[m].status)
    BY <1>5 DEF TransitionAlert
  <2>2. alerts' = [alerts EXCEPT !.api = mine] /\ Outside
    BY <1>1, <1>2, <1>5 DEF TransitionAlert
  <2>3. AlertFits(alerts.api[m]) /\ alerts.api[m].status \in AlertStatuses
    BY <1>2, <2>1 DEF DictFits, AlertFits
  <2>4. /\ new \in AlertStatuses /\ alerts.api[m].status \in Active
        /\ Rank(alerts.api[m].status) < Rank(new)
    BY <2>1, <2>3, RankFact
  <2>5. AlertFits(Moved(alerts.api[m], new))
    BY <2>3, <2>4, MovedUp
  <2>6. alerts.api[m].status \notin Terminal
    BY <2>4 DEF Active, Terminal
  <2>7. DictFits(mine) /\ Keeps(alerts.api, mine)
    BY <1>2, <2>1, <2>5, <2>6 DEF DictFits, Keeps
  <2> HIDE DEF mine
  <2>8. QED
    BY <1>3, <2>2, <2>7
<1>6. QED
  BY <1>4, <1>5

\* A restart forgets the worker's alerts, and is counted.
LEMMA RestartStep ==
  ASSUME MonitoringInv, Restart
  PROVE  MonitoringInv' /\ spent'.restarts > spent.restarts
<1>1. "worker" \in Processes /\ "api" \in Processes /\ Processes = {"worker", "api"}
  BY DEF Processes
<1>2. /\ DOMAIN alerts' = Processes /\ alerts'["worker"] = Empty
      /\ alerts'["api"] = alerts["api"]
  BY <1>1 DEF MonitoringInv, Restart
<1>3. "restarts" \in DOMAIN spent' /\ spent'.restarts = spent.restarts + 1
  BY DEF MonitoringInv, Restart
<1>4. DictFits(Empty)
  BY DEF DictFits, Empty
<1>5. QED
  BY <1>1, <1>2, <1>3, <1>4 DEF MonitoringInv

--------------------------------------------------------------------------------

LEMMA StartFits == MonitoringInit => MonitoringInv
  BY DEF MonitoringInit, MonitoringInv, DictFits, Empty

LEMMA EveryStep ==
  ASSUME MonitoringInv, MonitoringNext, ~ Restart
  PROVE  Tended
<1>1. CASE \/ StartPass \/ CompareAsset \/ CompareRisk \/ ComparePosture
           \/ \E f \in Findings : CompareFinding(f)
           \/ FindingsCompared
           \/ \E f \in Findings : CompareResolved(f)
           \/ AssetDone \/ QueryFails
  BY <1>1, PassSteps
<1>2. CASE RaiseAlerts \/ RaiseSlaAlerts
  BY <1>2, RaiseSteps
<1>3. CASE ReplayRecoveries \/ CalmSlaAlerts
  BY <1>3, SettleSteps
<1>4. CASE EscalateOldAlerts
  BY <1>4, EscalateStep
<1>5. CASE \/ \E m \in Manual : CreateAlert(m)
           \/ \E m \in Manual, new \in Requests : TransitionAlert(m, new)
  BY <1>5, AnalystSteps
<1>6. CASE \/ ScoreChanges \/ PostureChanges \/ FindingIsReported \/ FindingIsClosed
           \/ RemediationIsOverdue \/ RemediationIsDealtWith \/ AcceptanceLapses
  BY <1>6, WorldSteps
<1>7. QED
  BY <1>1, <1>2, <1>3, <1>4, <1>5, <1>6 DEF MonitoringNext

LEMMA InvariantHolds ==
  ASSUME MonitoringInv, [MonitoringNext]_vars
  PROVE  MonitoringInv'
<1>1. CASE UNCHANGED vars
  BY <1>1 DEF vars, MonitoringInv
<1>2. CASE MonitoringNext /\ ~ Restart
  BY <1>2, EveryStep DEF Tended, MonitoringInv
<1>3. CASE Restart
  BY <1>3, RestartStep
<1>4. QED
  BY <1>1, <1>2, <1>3

LEMMA StepsKeepTerminal ==
  ASSUME MonitoringInv, [MonitoringNext]_vars
  PROVE  [\A p \in Processes : \A k \in DOMAIN alerts[p] :
             alerts[p][k].status \in Terminal =>
                 \/ k \in DOMAIN alerts'[p] /\ alerts'[p][k] = alerts[p][k]
                 \/ spent'.restarts > spent.restarts]_vars
<1>1. CASE UNCHANGED vars
  BY <1>1
<1>2. CASE MonitoringNext /\ ~ Restart
  BY <1>2, EveryStep DEF Tended, Keeps
<1>3. CASE Restart
  BY <1>3, RestartStep
<1>4. QED
  BY <1>1, <1>2, <1>3

LEMMA AlwaysFits == MonitoringSpec => []MonitoringInv
  BY StartFits, InvariantHolds, PTL DEF MonitoringSpec

\* In every reachable state the trail of every alert tells its status, of the
\* worker's alerts and of the analysts'.
THEOREM TrailsAlwaysTell == MonitoringSpec => []TrailTellsStatus
<1>1. MonitoringInv => TrailTellsStatus
  BY ToldIsTold DEF MonitoringInv, DictFits, TrailTellsStatus
<1>2. QED
  BY AlwaysFits, <1>1, PTL

\* No step but a restart of the worker changes or drops a settled alert.
THEOREM SettledIsForGood == MonitoringSpec => SettledAlertsStaySettled
  BY AlwaysFits, StepsKeepTerminal, PTL DEF MonitoringSpec, SettledAlertsStaySettled

-----------------------------------------------------------------------------
(***************************************************************************)
(* One good pass makes up for those that failed.  While the database holds *)
(* still, the assets the pass has left behind have their baselines right,  *)
(* and those of the asset at hand are right as far as the pass has come    *)
(* (CatchInv).  A baseline that is not open has its resolution in the log  *)
(* (ResolvedIsLogged), which is why the replay leaves no active alert      *)
(* about it (AlertInv).  The log has a last event of every kind it has     *)
(* events of and tells of findings there are (LogFits), so that a baseline *)
(* rebuilt from it fits too.                                               *)
(***************************************************************************)

Comparing == {"asset", "risk", "posture", "findings", "resolved"}
AfterRaise == {"sla", "replay", "calm", "escalate"}
EndedWell == pass.stage = "idle" /\ outcome.last = "done"

\* The shapes of the variables, as far as the pass relies on them.
FactsFit ==
    facts \in [risk: [Assets -> Scores], posture: [Assets -> Postures],
               findings: [Findings -> FindingState \cup {None}],
               overdue: SUBSET Findings, lapsed: SUBSET Assets]
\* Baselines that are there, or that the log gives back: a finding that is not
\* open in them has its resolution in the log.
KnownFits(known) ==
    /\ DOMAIN known = {"assets", "risk", "posture", "findings"}
    /\ known.findings \in [DOMAIN known.findings -> FindingState]
    /\ \A f \in DOMAIN known.findings : f \in Findings /\ facts.findings[f] # None
ClosedIsLogged(known) ==
    \A f \in DOMAIN known.findings : known.findings[f].status # "open" =>
        \E e \in Range(events) : e.type = "FINDING_RESOLVED" /\ e.finding = f
BaselinesFit == KnownFits(baseline)

\* The log tells of findings there are, and of a closed one when it resolves it.
TellsOfFinding(e) ==
    /\ e.finding \in Findings /\ facts.findings[e.finding] # None
    /\ FindingIn(e) \in FindingState
    /\ FindingIn(e).status # "open" => e.type = "FINDING_RESOLVED"
HasLast(es) ==
    \A wanted \in SUBSET Range(es) : wanted # {} =>
        \E i \in DOMAIN es : es[i] \in wanted
             /\ \A j \in DOMAIN es : es[j] \in wanted => j <= i
LogFits ==
    /\ events \in Seq(Range(events)) /\ HasLast(events)
    /\ \A e \in Range(events) : e.finding # None => TellsOfFinding(e)
PassFits ==
    /\ DOMAIN pass = {"stage", "here", "left", "batch"}
    /\ pass.stage \in Stages
    /\ pass.stage \in Comparing => pass.here \in Assets /\ pass.left \subseteq Assets
    /\ pass.stage \in {"findings", "resolved"} =>
         pass.batch \in [DOMAIN pass.batch -> FindingState]
    /\ pass.stage = "findings" =>
         \A f \in DOMAIN pass.batch :
            /\ f \in Findings /\ AssetOf[f] = pass.here
            /\ facts.findings[f] # None /\ pass.batch[f].status = "open"
    /\ pass.stage = "resolved" => DOMAIN pass.batch \subseteq DOMAIN baseline.findings
OutcomeFits == DOMAIN outcome = {"last", "still", "rebuilt"} /\ outcome.still \in BOOLEAN
Shapes == FactsFit /\ BaselinesFit /\ PassFits /\ OutcomeFits /\ LogFits

ResolvedIsLogged == ClosedIsLogged(baseline)

\* What an asset's baselines are once it has been compared.
Reverted(a) ==
    a \in outcome.rebuilt /\ \E e \in OfAsset(a, RiskDrifts) : ScoreIn(e) = baseline.risk[a]
RiskSeen(a) ==
    /\ a \in DOMAIN baseline.risk
    /\ RiskChange(baseline.risk[a], facts.risk[a]) = None \/ Reverted(a)
PostureSeen(a) == a \in DOMAIN baseline.posture /\ baseline.posture[a] = facts.posture[a]
FindingSeen(f) ==
    \/ baseline.findings[f] = facts.findings[f]
    \/ baseline.findings[f].status # "open" /\ facts.findings[f].status # "open"
CaughtUp(a) ==
    /\ a \in baseline.assets /\ RiskSeen(a) /\ PostureSeen(a)
    /\ \A f \in Findings : AssetOf[f] = a /\ f \in DOMAIN baseline.findings => FindingSeen(f)

IsOpen(f) == facts.findings[f] # None /\ facts.findings[f].status = "open"
BatchIsCurrent(f) ==
    IF f \in DOMAIN pass.batch THEN pass.batch[f] = facts.findings[f]
    ELSE f \in DOMAIN baseline.findings /\ baseline.findings[f] = facts.findings[f]
RestIsResolved(f) ==
    /\ IsOpen(f) => baseline.findings[f] = facts.findings[f]
    /\ \/ f \in DOMAIN pass.batch /\ pass.batch[f] = baseline.findings[f]
       \/ FindingSeen(f)

CatchInv ==
    outcome.still =>
      /\ pass.stage \in Comparing => \A a \in Assets \ (pass.left \cup {pass.here}) : CaughtUp(a)
      /\ pass.stage \in Comparing \ {"asset"} => pass.here \in baseline.assets
      /\ pass.stage \in {"posture", "findings", "resolved"} => RiskSeen(pass.here)
      /\ pass.stage \in {"findings", "resolved"} => PostureSeen(pass.here)
      /\ pass.stage = "findings" =>
           \A f \in Findings : AssetOf[f] = pass.here /\ IsOpen(f) => BatchIsCurrent(f)
      /\ pass.stage = "resolved" =>
           \A f \in DOMAIN baseline.findings : AssetOf[f] = pass.here => RestIsResolved(f)
      /\ pass.stage \in {"generate"} \cup AfterRaise \/ EndedWell =>
           \A a \in Assets : CaughtUp(a)

Raises(e) == AlertType(e) # None => AlertOf(e) \in DOMAIN alerts.worker
AlertInv ==
    /\ pass.stage \in AfterRaise \/ EndedWell => \A e \in Range(events) : Raises(e)
    /\ pass.stage \in {"calm", "escalate"} \/ EndedWell =>
         \A k \in ActiveAlerts(alerts.worker) : \A e \in Range(events) :
            e.type = "FINDING_RESOLVED" => k.finding # e.finding
    /\ outcome.still /\ pass.stage \in {"sla", "replay", "calm"} => pass.left = facts.overdue
    /\ outcome.still /\ (pass.stage = "escalate" \/ EndedWell) =>
         \A k \in ActiveAlerts(alerts.worker) :
            k.type = "SLA_BREACH" => k.remediation \in facts.overdue

GoodInv == Shapes /\ ResolvedIsLogged /\ CatchInv /\ AlertInv

LEMMA GoodPasses == ASSUME GoodInv PROVE GoodPassMakesUp
<1>1. pass = Idle => pass.stage = "idle"
  BY DEF Idle
<1>2. BaselinesCatchUp
  BY <1>1 DEF GoodInv, CatchInv, CaughtUp, RiskSeen, Reverted, PostureSeen, FindingSeen,
     BaselinesCatchUp, GoodPass, EndedWell
<1>3. DriftIsAlerted
  BY <1>1 DEF GoodInv, AlertInv, Raises, DriftIsAlerted, EndedWell
<1>4. SettledMattersAreQuiet
  <2> SUFFICES ASSUME GoodPass, NEW k \in ActiveAlerts(alerts.worker)
               PROVE  /\ k.finding \in DOMAIN baseline.findings =>
                            baseline.findings[k.finding].status = "open"
                      /\ k.type = "SLA_BREACH" => k.remediation \in facts.overdue
    BY DEF SettledMattersAreQuiet
  <2>1. EndedWell /\ outcome.still
    BY <1>1 DEF GoodPass, EndedWell
  <2>2. k.type = "SLA_BREACH" => k.remediation \in facts.overdue
    BY <2>1 DEF GoodInv, AlertInv
  <2>3. \A e \in Range(events) : e.type = "FINDING_RESOLVED" => k.finding # e.finding
    BY <2>1 DEF GoodInv, AlertInv
  <2> QED
    BY <2>2, <2>3 DEF GoodInv, ResolvedIsLogged, ClosedIsLogged
<1> QED
  BY <1>2, <1>3, <1>4 DEF GoodPassMakesUp

-----------------------------------------------------------------------------
(* The log.                                                                *)

LEMMA LogAdds ==
    ASSUME NEW es, es \in Seq(Range(es)), HasLast(es), NEW e
    PROVE  /\ Log(es, e) \in Seq(Range(Log(es, e)))
           /\ Range(Log(es, e)) = Range(es) \cup {e}
           /\ HasLast(Log(es, e))
<1>1. CASE e \in Range(es)
  BY <1>1 DEF Log
<1>2. CASE e \notin Range(es)
  <2> DEFINE new == Append(es, e)
  <2>1. new \in Seq(Range(es) \cup {e}) /\ Len(new) = Len(es) + 1 /\ Len(es) \in Nat
        /\ (\A i \in 1..Len(es) : new[i] = es[i]) /\ new[Len(es) + 1] = e
    OBVIOUS
  <2>2. DOMAIN new = 1..(Len(es) + 1) /\ DOMAIN es = 1..Len(es)
    BY <2>1
  <2> HIDE DEF new
  <2>3. Range(new) = Range(es) \cup {e}
    BY <2>1, <2>2 DEF Range
  <2>4. Log(es, e) = new
    BY <1>2 DEF Log, new
  <2>5. ASSUME NEW wanted \in SUBSET Range(new), wanted # {}
        PROVE  \E i \in DOMAIN new : new[i] \in wanted
                  /\ \A j \in DOMAIN new : new[j] \in wanted => j <= i
    <3>1. CASE e \in wanted
      BY <2>1, <2>2, <3>1
    <3>2. CASE e \notin wanted
      <4>1. wanted \in SUBSET Range(es)
        BY <2>3, <2>5, <3>2
      <4>2. PICK i \in DOMAIN es : es[i] \in wanted
                 /\ \A j \in DOMAIN es : es[j] \in wanted => j <= i
        BY <2>5, <4>1 DEF HasLast
      <4> QED
        BY <2>1, <2>2, <3>2, <4>2
    <3> QED
      BY <3>1, <3>2
  <2>6. HasLast(new)
    BY <2>5 DEF HasLast
  <2> QED
    BY <2>1, <2>3, <2>4, <2>6
<1> QED
  BY <1>1, <1>2

Events(es) == \/ es = <<>>
              \/ \E e : es = <<e>>
              \/ \E d, e : es = <<d, e>>

LEMMA LoggedAdds ==
    ASSUME LogFits, NEW es, Events(es), NEW n \in 0..Len(es)
    PROVE  /\ Logged(es, n) \in Seq(Range(Logged(es, n)))
           /\ HasLast(Logged(es, n))
           /\ Range(events) \subseteq Range(Logged(es, n))
           /\ \A e \in Range(Logged(es, n)) : e \in Range(events) \/ \E i \in DOMAIN es : e = es[i]
           /\ n = Len(es) => \A i \in DOMAIN es : es[i] \in Range(Logged(es, n))
<1>0. Logged(es, 0) = events /\ events \in Seq(Range(events)) /\ HasLast(events)
  BY DEF Logged, LogFits
<1>1. CASE es = <<>>
  BY <1>0, <1>1
<1>2. CASE \E e : es = <<e>>
  <2>1. PICK e : es = <<e>>
    BY <1>2
  <2>2. Len(es) = 1 /\ DOMAIN es = {1} /\ es[1] = e
    BY <2>1
  <2>3. Logged(es, 1) = Log(events, e)
    BY <2>2 DEF Logged
  <2> QED
    BY <1>0, <2>2, <2>3, LogAdds
<1>3. CASE \E d, e : es = <<d, e>>
  <2>1. PICK d, e : es = <<d, e>>
    BY <1>3
  <2>2. Len(es) = 2 /\ DOMAIN es = {1, 2} /\ es[1] = d /\ es[2] = e
    BY <2>1
  <2>3. Logged(es, 1) = Log(events, d) /\ Logged(es, 2) = Log(Log(events, d), e)
    BY <2>2 DEF Logged
  <2>4. /\ Log(events, d) \in Seq(Range(Log(events, d))) /\ HasLast(Log(events, d))
        /\ Range(Log(events, d)) = Range(events) \cup {d}
    BY <1>0, LogAdds
  <2>5. /\ Log(Log(events, d), e) \in Seq(Range(Log(Log(events, d), e)))
        /\ HasLast(Log(Log(events, d), e))
        /\ Range(Log(Log(events, d), e)) = Range(events) \cup {d, e}
    BY <2>4, LogAdds
  <2> QED
    BY <1>0, <2>2, <2>3, <2>4, <2>5
<1> QED
  BY <1>1, <1>2, <1>3 DEF Events

\* An observation logs its events and goes on, or the pass ends and what was
\* looked up stays known.
Ends(known) ==
    /\ baseline' = known /\ pass' = Idle
    /\ outcome' = [outcome EXCEPT !.last = "failed"]
Grown == LogFits' /\ Range(events) \subseteq Range(events') /\ facts' = facts
Tells(es) == \A i \in DOMAIN es : es[i].finding # None => TellsOfFinding(es[i])

LEMMA Observes ==
    ASSUME Shapes, NEW known, NEW es, Events(es), Tells(es), NEW captured, NEW next,
           Captures(es, captured, next) \/ BreaksAt(known, es)
    PROVE  /\ Grown /\ alerts' = alerts
           /\ \/ Ends(known)
              \/ /\ baseline' = captured /\ pass' = next
                 /\ \A i \in DOMAIN es : es[i] \in Range(events')
<1>1. ASSUME NEW n \in 0..Len(es), Emit(es, n), facts' = facts
      PROVE  Grown /\ (n = Len(es) => \A i \in DOMAIN es : es[i] \in Range(events'))
  <2>1. /\ events' \in Seq(Range(events')) /\ HasLast(events')
        /\ Range(events) \subseteq Range(events')
        /\ \A e \in Range(events') : e \in Range(events) \/ \E i \in DOMAIN es : e = es[i]
        /\ n = Len(es) => \A i \in DOMAIN es : es[i] \in Range(events')
    BY <1>1, LoggedAdds DEF Emit, Shapes
  <2>2. \A e \in Range(events') : e.finding # None => TellsOfFinding(e)
    BY <2>1 DEF Shapes, LogFits, Tells
  <2>3. \A e \in Range(events') : e.finding # None => TellsOfFinding(e)'
    BY <1>1, <2>2 DEF TellsOfFinding, FindingIn
  <2> QED
    BY <1>1, <2>1, <2>3 DEF Grown, LogFits
<1>2. CASE Captures(es, captured, next)
  <2>1. Len(es) \in 0..Len(es)
    BY DEF Events
  <2> QED
    BY <1>1, <1>2, <2>1 DEF Captures
<1>3. CASE BreaksAt(known, es)
  <2>1. PICK n \in DOMAIN es : Emit(es, n)
    BY <1>3 DEF BreaksAt
  <2>2. n \in 0..Len(es)
    BY <2>1 DEF Events
  <2> QED
    BY <1>1, <1>3, <2>1, <2>2 DEF BreaksAt, Fail, Ends
<1> QED
  BY <1>2, <1>3

\* Asset and score and posture events tell of no finding.
LEMMA SilentOnFindings ==
    ASSUME NEW es, Events(es), \A i \in DOMAIN es : es[i].finding = None
    PROVE  Tells(es)
BY DEF Tells

LEMMA LastOfIn ==
    ASSUME LogFits, NEW wanted \in SUBSET Range(events), wanted # {}
    PROVE  LastOf(wanted) \in wanted
<1> DEFINE IsLast(i) == events[i] \in wanted
                          /\ \A j \in DOMAIN events : events[j] \in wanted => j <= i
<1>1. \E i \in DOMAIN events : IsLast(i)
  BY DEF LogFits, HasLast
<1>2. IsLast(CHOOSE i \in DOMAIN events : IsLast(i))
  BY <1>1
<1> QED
  BY <1>2 DEF LastOf

\* What looking up a baseline of an asset may make of the baselines.
KnowsMore(known, a) ==
    /\ DOMAIN known = {"assets", "risk", "posture", "findings"}
    /\ known.findings = baseline.findings
    /\ baseline.assets \subseteq known.assets
    /\ \A b \in DOMAIN baseline.risk :
         /\ b \in DOMAIN known.risk
         /\ \/ known.risk[b] = baseline.risk[b]
            \/ b = a /\ \E e \in OfAsset(a, RiskDrifts) : ScoreIn(e) = known.risk[b]
    /\ \A b \in DOMAIN baseline.posture : b # a =>
         b \in DOMAIN known.posture /\ known.posture[b] = baseline.posture[b]

LEMMA AssetLookup ==
    ASSUME Shapes, NEW a, NEW known, known = baseline \/ known = WithAsset(a)
    PROVE  KnowsMore(known, a)
<1>1. CASE known = baseline
  BY <1>1 DEF KnowsMore, Shapes, BaselinesFit, KnownFits
<1>2. CASE known = WithAsset(a)
  <2> DEFINE risks == OfAsset(a, RiskDrifts)
             postures == OfAsset(a, PostureDrifts)
  <2>1. /\ DOMAIN known = {"assets", "risk", "posture", "findings"}
        /\ known.findings = baseline.findings /\ baseline.assets \subseteq known.assets
        /\ known.risk = Rebuilt(baseline.risk, a, risks, ScoreIn(LastOf(risks)))
        /\ known.posture = Rebuilt(baseline.posture, a, postures, PostureIn(LastOf(postures)))
    BY <1>2 DEF WithAsset, Shapes, BaselinesFit, KnownFits
  <2>2. risks # {} => LastOf(risks) \in risks
    BY LastOfIn DEF OfAsset, Shapes
  <2> HIDE DEF risks, postures
  <2>3. \A b \in DOMAIN baseline.risk :
          /\ b \in DOMAIN known.risk
          /\ \/ known.risk[b] = baseline.risk[b]
             \/ b = a /\ \E e \in risks : ScoreIn(e) = known.risk[b]
    <3>1. CASE risks = {}
      BY <2>1, <3>1 DEF Rebuilt
    <3>2. CASE risks # {}
      <4>1. known.risk = Put(baseline.risk, a, ScoreIn(LastOf(risks)))
        BY <2>1, <3>2 DEF Rebuilt
      <4> QED
        BY <2>2, <3>2, <4>1 DEF Put
    <3> QED
      BY <3>1, <3>2
  <2>4. \A b \in DOMAIN baseline.posture : b # a =>
          b \in DOMAIN known.posture /\ known.posture[b] = baseline.posture[b]
    BY <2>1 DEF Rebuilt, Put
  <2> QED
    BY <2>1, <2>3, <2>4 DEF KnowsMore, risks
<1> QED
  BY <1>1, <1>2

\* Looking up a finding's baseline changes that baseline at most.
LEMMA FindingLookup ==
    ASSUME GoodInv, NEW f \in Findings, NEW known,
           known = baseline \/ known = WithFinding(f)
    PROVE  /\ KnownFits(known) /\ ClosedIsLogged(known)
           /\ known.assets = baseline.assets /\ known.risk = baseline.risk
           /\ known.posture = baseline.posture
           /\ \A g \in DOMAIN known.findings : g = f \/ g \in DOMAIN baseline.findings
           /\ \A g \in DOMAIN baseline.findings : g # f =>
                g \in DOMAIN known.findings /\ known.findings[g] = baseline.findings[g]
           /\ f \in DOMAIN baseline.findings => f \in DOMAIN known.findings
<1>0. KnownFits(baseline) /\ ClosedIsLogged(baseline) /\ LogFits
  BY DEF GoodInv, Shapes, BaselinesFit, ResolvedIsLogged
<1>1. CASE known = baseline
  BY <1>0, <1>1
<1>2. CASE known = WithFinding(f)
  <2> DEFINE about == OfFinding(f)
             last == FindingIn(LastOf(about))
  <2>1. /\ DOMAIN known = {"assets", "risk", "posture", "findings"}
        /\ known.assets = baseline.assets /\ known.risk = baseline.risk
        /\ known.posture = baseline.posture
        /\ known.findings = Rebuilt(baseline.findings, f, about, last)
    BY <1>0, <1>2 DEF WithFinding, KnownFits
  <2>2. CASE about = {}
    <3>1. known.findings = baseline.findings
      BY <2>1, <2>2 DEF Rebuilt
    <3> QED
      BY <1>0, <2>1, <3>1 DEF KnownFits, ClosedIsLogged
  <2>3. CASE about # {}
    <3>1. LastOf(about) \in Range(events) /\ LastOf(about).finding = f
      <4>1. LastOf(about) \in about
        BY <1>0, <2>3, LastOfIn DEF OfFinding
      <4> QED
        BY <4>1 DEF OfFinding
    <3>2. /\ facts.findings[f] # None /\ last \in FindingState
          /\ last.status # "open" => LastOf(about).type = "FINDING_RESOLVED"
      BY <1>0, <3>1, MonitoringAssumption DEF LogFits, TellsOfFinding
    <3>3. known.findings = Put(baseline.findings, f, last)
      BY <2>1, <2>3 DEF Rebuilt
    <3> HIDE DEF last
    <3>4. /\ DOMAIN known.findings = DOMAIN baseline.findings \cup {f}
          /\ known.findings[f] = last
          /\ \A g \in DOMAIN baseline.findings : g # f => known.findings[g] = baseline.findings[g]
          /\ known.findings \in [DOMAIN known.findings -> FindingState]
      BY <1>0, <3>2, <3>3 DEF Put, KnownFits
    <3>5. KnownFits(known)
      BY <1>0, <2>1, <3>2, <3>4 DEF KnownFits
    <3>6. ClosedIsLogged(known)
      BY <1>0, <3>1, <3>2, <3>4 DEF ClosedIsLogged
    <3> QED
      BY <2>1, <3>4, <3>5, <3>6
  <2> QED
    BY <2>2, <2>3
<1> QED
  BY <1>1, <1>2

-----------------------------------------------------------------------------
(* The steps.                                                              *)

\* A pass that breaks off promises nothing.
LEMMA BreakingOff ==
    ASSUME GoodInv, Grown, NEW known, Ends(known), KnownFits(known), ClosedIsLogged(known)
    PROVE  GoodInv'
<1>1. /\ pass'.stage = "idle" /\ DOMAIN pass' = {"stage", "here", "left", "batch"}
      /\ outcome'.last = "failed" /\ DOMAIN outcome' = {"last", "still", "rebuilt"}
      /\ outcome'.still \in BOOLEAN
  BY DEF Ends, Idle, GoodInv, Shapes, OutcomeFits
<1>2. ~EndedWell'
  BY <1>1 DEF EndedWell
<1>3. Shapes'
  BY <1>1 DEF GoodInv, Shapes, FactsFit, BaselinesFit, KnownFits, PassFits, OutcomeFits,
     Ends, Grown, Stages, Comparing
<1>4. ResolvedIsLogged'
  BY DEF ResolvedIsLogged, ClosedIsLogged, Ends, Grown
<1> QED
  BY <1>1, <1>2, <1>3, <1>4 DEF GoodInv, CatchInv, AlertInv, Comparing, AfterRaise

LEMMA BreakingOffAsset ==
    ASSUME GoodInv, Grown, NEW known, NEW a, Ends(known), KnowsMore(known, a)
    PROVE  GoodInv'
<1>1. KnownFits(known) /\ ClosedIsLogged(known)
  BY DEF KnowsMore, GoodInv, Shapes, BaselinesFit, KnownFits, ResolvedIsLogged, ClosedIsLogged
<1> QED
  BY <1>1, BreakingOff

LEMMA BreakingOffHere ==
    ASSUME GoodInv, Grown, Ends(baseline)
    PROVE  GoodInv'
  BY BreakingOff DEF GoodInv, Shapes, BaselinesFit, ResolvedIsLogged

\* What was logged stays logged.
LEMMA RevertedStays ==
    ASSUME Grown, NEW a, baseline'.risk[a] = baseline.risk[a],
           outcome.rebuilt \subseteq outcome'.rebuilt, Reverted(a)
    PROVE  Reverted(a)'
  BY DEF Grown, Reverted, OfAsset, ScoreIn

\* Of an asset the pass is not at, nothing that was right gets wrong.
LEMMA OthersStay ==
    ASSUME Grown, outcome.rebuilt \subseteq outcome'.rebuilt, NEW b,
           b \in baseline.assets => b \in baseline'.assets,
           b \in DOMAIN baseline.risk =>
              b \in DOMAIN baseline'.risk /\ baseline'.risk[b] = baseline.risk[b],
           b \in DOMAIN baseline.posture =>
              b \in DOMAIN baseline'.posture /\ baseline'.posture[b] = baseline.posture[b]
    PROVE  /\ RiskSeen(b) => RiskSeen(b)'
           /\ PostureSeen(b) => PostureSeen(b)'
           /\ (/\ \A f \in DOMAIN baseline'.findings : AssetOf[f] = b =>
                   f \in DOMAIN baseline.findings /\ baseline'.findings[f] = baseline.findings[f]
               /\ CaughtUp(b))
              => CaughtUp(b)'
<1>1. facts' = facts
  BY DEF Grown
<1>2. RiskSeen(b) => RiskSeen(b)'
  BY <1>1, RevertedStays DEF RiskSeen
<1>3. PostureSeen(b) => PostureSeen(b)'
  BY <1>1 DEF PostureSeen
<1> QED
  BY <1>1, <1>2, <1>3 DEF CaughtUp, FindingSeen

LEMMA CompareAssetGood == ASSUME GoodInv, CompareAsset PROVE GoodInv'
<1> DEFINE a == pass.here
           known == IF a \in baseline.assets THEN baseline ELSE WithAsset(a)
           es == IF a \in known.assets THEN <<>>
                 ELSE <<Event("ASSET_ADDED", a, None, <<>>, <<"asset">>)>>
           captured == [known EXCEPT !.assets = @ \cup {a}]
           next == At("risk")
<1>0. pass.stage = "asset" /\ Shapes
  BY DEF CompareAsset, GoodInv
<1>1. \/ Captures(es, captured, next) /\ UNCHANGED outcome
      \/ BreaksAt(known, es)
  BY DEF CompareAsset, Observe
<1>k. KnowsMore(known, a)
  BY <1>0, AssetLookup
<1>e. Events(es) /\ Tells(es)
  BY DEF Events, Tells, Event
<1> HIDE DEF es, known
<1>2. Grown /\ alerts' = alerts
  BY <1>0, <1>1, <1>e, Observes
<1>3. CASE Ends(known)
  BY <1>2, <1>3, <1>k, BreakingOffAsset
<1>4. CASE baseline' = captured /\ pass' = next /\ outcome' = outcome
  <2>1. /\ DOMAIN pass' = {"stage", "here", "left", "batch"} /\ pass'.stage = "risk"
        /\ pass'.here = a /\ pass'.left = pass.left
    BY <1>0, <1>4 DEF At, Shapes, PassFits
  <2>2. /\ DOMAIN baseline' = {"assets", "risk", "posture", "findings"}
        /\ baseline'.assets = known.assets \cup {a} /\ baseline'.risk = known.risk
        /\ baseline'.posture = known.posture /\ baseline'.findings = baseline.findings
    BY <1>4, <1>k DEF KnowsMore
  <2>3. facts' = facts
    BY <1>2 DEF Grown
  <2>4. Shapes'
    BY <1>0, <1>2, <1>4, <2>1, <2>2 DEF Shapes, FactsFit, BaselinesFit, KnownFits, PassFits,
       OutcomeFits, Grown, Stages, Comparing
  <2>5. ResolvedIsLogged'
    BY <1>2, <2>2 DEF GoodInv, ResolvedIsLogged, ClosedIsLogged, Grown
  <2>6. \A b \in Assets : b # a /\ CaughtUp(b) => CaughtUp(b)'
    BY <1>2, <1>4, <1>k, <2>2, OthersStay DEF KnowsMore
  <2>7. CatchInv'
    BY <1>0, <1>4, <2>1, <2>2, <2>6 DEF GoodInv, CatchInv, EndedWell, Comparing, AfterRaise
  <2> QED
    BY <2>1, <2>4, <2>5, <2>7 DEF GoodInv, AlertInv, AfterRaise, EndedWell
<1> HIDE DEF captured, next
<1> QED
  BY <1>0, <1>1, <1>e, <1>3, <1>4, Observes DEF BreaksAt, Captures, Ends, Fail

LEMMA NoChange == ASSUME NEW s \in Scores PROVE RiskChange(s, s) = None
<1>1. s \in Nat /\ Drift \in Nat /\ Drift > 0
  BY MonitoringAssumption
<1>2. ~(s - s >= Drift) /\ ~(s - s <= -Drift) /\ ~(s > s) /\ ~(s < s)
  BY <1>1
<1> QED
  BY <1>2 DEF RiskChange

LEMMA CompareRiskGood == ASSUME GoodInv, CompareRisk PROVE GoodInv'
<1> DEFINE a == pass.here
           new == facts.risk[a]
           known == IF a \in DOMAIN baseline.risk THEN baseline ELSE WithAsset(a)
           old == IF a \in DOMAIN known.risk THEN known.risk[a] ELSE new
           change == RiskChange(old, new)
           es == IF change = None THEN <<>>
                 ELSE <<Event(change, a, None, RiskText(old), RiskText(new))>>
           captured == IF change = None /\ a \in DOMAIN known.risk THEN known
                       ELSE [known EXCEPT !.risk = Put(@, a, new)]
           next == At("posture")
<1>0. pass.stage = "risk" /\ Shapes
  BY DEF CompareRisk, GoodInv
<1>1. \/ Captures(es, captured, next) /\ UNCHANGED outcome
      \/ BreaksAt(known, es)
  BY DEF CompareRisk, Observe
<1>k. KnowsMore(known, a)
  BY <1>0, AssetLookup
<1>e. Events(es) /\ Tells(es)
  BY DEF Events, Tells, Event
<1>f. a \in DOMAIN baseline.risk => known = baseline
  OBVIOUS
<1> HIDE DEF es, known
<1>2. Grown /\ alerts' = alerts
  BY <1>0, <1>1, <1>e, Observes
<1>3. CASE Ends(known)
  BY <1>2, <1>3, <1>k, BreakingOffAsset
<1>4. CASE baseline' = captured /\ pass' = next /\ outcome' = outcome
  <2>1. /\ DOMAIN pass' = {"stage", "here", "left", "batch"} /\ pass'.stage = "posture"
        /\ pass'.here = a /\ pass'.left = pass.left
    BY <1>0, <1>4 DEF At, Shapes, PassFits
  <2>2. /\ DOMAIN baseline' = {"assets", "risk", "posture", "findings"}
        /\ baseline'.assets = known.assets
        /\ baseline'.posture = known.posture /\ baseline'.findings = baseline.findings
        /\ baseline'.risk = IF change = None /\ a \in DOMAIN known.risk THEN known.risk
                            ELSE Put(known.risk, a, new)
    BY <1>4, <1>k DEF KnowsMore
  <2>3. facts' = facts
    BY <1>2 DEF Grown
  <2>4. Shapes'
    BY <1>0, <1>2, <1>4, <2>1, <2>2 DEF Shapes, FactsFit, BaselinesFit, KnownFits, PassFits,
       OutcomeFits, Grown, Stages, Comparing
  <2>5. ResolvedIsLogged'
    BY <1>2, <2>2 DEF GoodInv, ResolvedIsLogged, ClosedIsLogged, Grown
  <2>a. a \in Assets /\ new \in Scores
    BY <1>0 DEF Shapes, PassFits, FactsFit, Comparing
  <2>b. \A b \in DOMAIN baseline.risk : b # a =>
           b \in DOMAIN baseline'.risk /\ baseline'.risk[b] = baseline.risk[b]
    BY <1>k, <2>2 DEF Put, KnowsMore
  <2>c. RiskSeen(a)'
    <3>1. CASE change = None /\ a \in DOMAIN known.risk
      BY <3>1, <2>1, <2>2, <2>3 DEF RiskSeen
    <3>2. CASE ~(change = None /\ a \in DOMAIN known.risk)
      <4>1. baseline'.risk = Put(known.risk, a, new)
        BY <3>2, <2>2
      <4>2. a \in DOMAIN baseline'.risk /\ baseline'.risk[a] = new
        BY <4>1 DEF Put
      <4> QED
        BY <4>2, <2>1, <2>3, <2>a, NoChange DEF RiskSeen
    <3> QED
      BY <3>1, <3>2
  <2>6. \A b \in Assets : b # a /\ CaughtUp(b) => CaughtUp(b)'
    BY <1>2, <1>4, <1>k, <2>2, <2>b, OthersStay DEF KnowsMore
  <2>7. CatchInv'
    <3>1. a \in baseline.assets => a \in baseline'.assets
      BY <1>k, <2>2 DEF KnowsMore
    <3> QED
      BY <1>0, <1>4, <2>1, <2>2, <2>6, <2>c, <3>1
         DEF GoodInv, CatchInv, EndedWell, Comparing, AfterRaise
  <2> QED
    BY <2>1, <2>4, <2>5, <2>7 DEF GoodInv, AlertInv, AfterRaise, EndedWell
<1> HIDE DEF captured, next
<1> QED
  BY <1>0, <1>1, <1>e, <1>3, <1>4, Observes DEF BreaksAt, Captures, Ends, Fail

LEMMA ComparePostureGood == ASSUME GoodInv, ComparePosture PROVE GoodInv'
<1> DEFINE a == pass.here
           new == facts.posture[a]
           missing == {a} \ DOMAIN baseline.posture
           known == IF missing = {} THEN baseline ELSE WithAsset(a)
           old == IF a \in DOMAIN known.posture THEN known.posture[a] ELSE new
           es == PostureEvents(a, old, new)
           captured == [known EXCEPT !.posture = Put(@, a, new)]
           next == [At("findings") EXCEPT !.batch = OpenFindings(a)]
<1>0. pass.stage = "posture" /\ Shapes
  BY DEF ComparePosture, GoodInv
<1>1. \/ /\ Captures(es, captured, next)
         /\ outcome' = [outcome EXCEPT !.rebuilt = @ \cup missing]
      \/ BreaksAt(known, es)
  BY DEF ComparePosture
<1>k. KnowsMore(known, a)
  BY <1>0, AssetLookup
<1>e. Events(es) /\ Tells(es)
  <2> DEFINE drift(type) == Event(type, a, None, <<old>>, <<new>>)
  <2>1. \/ es = <<>>
        \/ \E t : es = <<drift(t)>>
        \/ \E t, u : es = <<drift(t), drift(u)>>
    BY DEF PostureEvents
  <2>2. \A t : drift(t).finding = None
    BY DEF Event
  <2> HIDE DEF es, drift
  <2> QED
    BY <2>1, <2>2 DEF Events, Tells
<1>f. missing = {} => known = baseline
  OBVIOUS
<1>m. missing = {} \/ a \in missing
  OBVIOUS
<1> HIDE DEF es, known, missing
<1>2. Grown /\ alerts' = alerts
  BY <1>0, <1>1, <1>e, Observes
<1>3. CASE Ends(known)
  BY <1>2, <1>3, <1>k, BreakingOffAsset
<1>4. CASE /\ baseline' = captured /\ pass' = next
           /\ outcome' = [outcome EXCEPT !.rebuilt = @ \cup missing]
  <2>1. /\ DOMAIN pass' = {"stage", "here", "left", "batch"} /\ pass'.stage = "findings"
        /\ pass'.here = a /\ pass'.left = pass.left /\ pass'.batch = OpenFindings(a)
    BY <1>0, <1>4 DEF At, Shapes, PassFits
  <2>2. /\ DOMAIN baseline' = {"assets", "risk", "posture", "findings"}
        /\ baseline'.assets = known.assets /\ baseline'.risk = known.risk
        /\ baseline'.posture = Put(known.posture, a, new)
        /\ baseline'.findings = baseline.findings
    BY <1>4, <1>k DEF KnowsMore
  <2>o. /\ DOMAIN outcome' = {"last", "still", "rebuilt"} /\ outcome'.still = outcome.still
        /\ outcome'.last = outcome.last /\ outcome'.rebuilt = outcome.rebuilt \cup missing
    BY <1>0, <1>4 DEF Shapes, OutcomeFits
  <2>3. facts' = facts /\ a \in Assets
    BY <1>0, <1>2 DEF Grown, Shapes, PassFits, Comparing
  <2>a. /\ DOMAIN pass'.batch = {f \in Findings : AssetOf[f] = a /\ IsOpen(f)}
        /\ \A f \in DOMAIN pass'.batch : pass'.batch[f] = facts.findings[f]
        /\ pass'.batch = [f \in DOMAIN pass'.batch |-> facts.findings[f]]
    BY <2>1 DEF OpenFindings, IsOpen
  <2>b. \A f \in DOMAIN pass'.batch : facts.findings[f] \in FindingState
    BY <1>0, <2>a DEF Shapes, FactsFit, IsOpen
  <2>4. Shapes'
    <3>1. pass'.batch \in [DOMAIN pass'.batch -> FindingState]
      BY <2>a, <2>b
    <3>2. PassFits'
      BY <1>0, <2>1, <2>3, <2>a, <3>1 DEF Shapes, PassFits, Stages, Comparing, IsOpen
    <3> QED
      BY <1>0, <1>2, <2>2, <2>o, <3>2
         DEF Shapes, FactsFit, BaselinesFit, KnownFits, OutcomeFits, Grown
  <2>5. ResolvedIsLogged'
    BY <1>2, <2>2 DEF GoodInv, ResolvedIsLogged, ClosedIsLogged, Grown
  <2>c. PostureSeen(a)'
    BY <2>1, <2>2, <2>3 DEF PostureSeen, Put
  <2>r. RiskSeen(a) => RiskSeen(a)'
    <3> SUFFICES ASSUME RiskSeen(a)  PROVE RiskSeen(a)'
      OBVIOUS
    <3>1. a \in DOMAIN known.risk
      BY <1>k DEF RiskSeen, KnowsMore
    <3>2. CASE known.risk[a] = baseline.risk[a]
      BY <1>2, <2>1, <2>2, <2>3, <2>o, <3>1, <3>2, RevertedStays DEF RiskSeen
    <3>3. CASE known.risk[a] # baseline.risk[a]
      <4>1. a \in outcome'.rebuilt
        BY <1>f, <1>m, <2>o, <3>3
      <4>2. PICK e \in OfAsset(a, RiskDrifts) : ScoreIn(e) = known.risk[a]
        BY <1>k, <3>3 DEF KnowsMore, RiskSeen
      <4>3. e \in OfAsset(a, RiskDrifts)'
        BY <1>2, <2>1 DEF Grown, OfAsset
      <4> QED
        BY <2>1, <2>2, <3>1, <4>1, <4>2, <4>3 DEF RiskSeen, Reverted, ScoreIn
    <3> QED
      BY <3>2, <3>3
  <2>6. \A b \in Assets : b # a /\ CaughtUp(b) => CaughtUp(b)'
    BY <1>2, <1>k, <2>2, <2>o, OthersStay DEF KnowsMore, Put
  <2>d. \A f \in Findings : AssetOf[f] = a /\ IsOpen(f)' => BatchIsCurrent(f)'
    BY <2>3, <2>a DEF IsOpen, BatchIsCurrent
  <2>7. CatchInv'
    <3>1. a \in baseline.assets => a \in baseline'.assets
      BY <1>k, <2>2 DEF KnowsMore
    <3> QED
      BY <1>0, <2>1, <2>2, <2>3, <2>6, <2>c, <2>d, <2>o, <2>r, <3>1
         DEF GoodInv, CatchInv, EndedWell, Comparing, AfterRaise
  <2> QED
    BY <2>1, <2>4, <2>5, <2>7 DEF GoodInv, AlertInv, AfterRaise, EndedWell
<1> HIDE DEF captured, next
<1> QED
  BY <1>0, <1>1, <1>e, <1>3, <1>4, Observes DEF BreaksAt, Captures, Ends, Fail

LEMMA CompareFindingGood ==
    ASSUME GoodInv, NEW f \in Findings, CompareFinding(f) PROVE GoodInv'
<1> DEFINE a == pass.here
           new == pass.batch[f]
           known == IF f \in DOMAIN baseline.findings THEN baseline ELSE WithFinding(f)
           old == IF f \in DOMAIN known.findings THEN known.findings[f] ELSE None
           es == FindingEvents(f, old, new)
           captured == [known EXCEPT !.findings = Put(@, f, new)]
           next == [pass EXCEPT !.batch = Restrict(@, DOMAIN @ \ {f})]
<1>0. /\ pass.stage = "findings" /\ Shapes /\ f \in DOMAIN pass.batch
      /\ new \in FindingState /\ new.status = "open" /\ AssetOf[f] = a /\ a \in Assets
      /\ facts.findings[f] # None
  BY DEF CompareFinding, GoodInv, Shapes, PassFits, Comparing
<1>1. \/ Captures(es, captured, next) /\ UNCHANGED outcome
      \/ BreaksAt(known, es)
  BY DEF CompareFinding, Observe
<1>e. Events(es) /\ Tells(es)
  <2> DEFINE prev == IF old = None THEN <<>> ELSE FindingText(old)
             drift(type) == Event(type, AssetOf[f], f, prev, FindingText(new))
  <2>1. es = <<>> \/ \E type : es = <<drift(type)>>
    BY DEF FindingEvents
  <2>2. ASSUME NEW type  PROVE TellsOfFinding(drift(type))
    <3>1. drift(type).finding = f /\ drift(type).cur = FindingText(new)
      BY DEF Event
    <3>2. /\ FindingIn(drift(type)).severity = new.severity
          /\ FindingIn(drift(type)).status = new.status
          /\ FindingIn(drift(type)) = [severity |-> new.severity, status |-> new.status]
      BY <3>1 DEF FindingIn, FindingText
    <3>3. [severity |-> new.severity, status |-> new.status] \in FindingState
      BY <1>0 DEF FindingState
    <3> QED
      BY <1>0, <3>1, <3>2, <3>3 DEF TellsOfFinding
  <2> HIDE DEF es, drift
  <2> QED
    BY <2>1, <2>2 DEF Events, Tells
<1>k. /\ KnownFits(known) /\ ClosedIsLogged(known)
      /\ known.assets = baseline.assets /\ known.risk = baseline.risk
      /\ known.posture = baseline.posture
      /\ \A g \in DOMAIN known.findings : g = f \/ g \in DOMAIN baseline.findings
      /\ \A g \in DOMAIN baseline.findings : g # f =>
           g \in DOMAIN known.findings /\ known.findings[g] = baseline.findings[g]
      /\ f \in DOMAIN baseline.findings => f \in DOMAIN known.findings
  BY FindingLookup
<1> HIDE DEF es, known
<1>2. Grown /\ alerts' = alerts
  BY <1>0, <1>1, <1>e, Observes
<1>3. CASE Ends(known)
  BY <1>2, <1>3, <1>k, BreakingOff
<1>4. CASE baseline' = captured /\ pass' = next /\ outcome' = outcome
  <2>1. /\ DOMAIN pass' = {"stage", "here", "left", "batch"} /\ pass'.stage = "findings"
        /\ pass'.here = a /\ pass'.left = pass.left
        /\ pass'.batch = Restrict(pass.batch, DOMAIN pass.batch \ {f})
    BY <1>0, <1>4 DEF Shapes, PassFits
  <2>2. /\ DOMAIN baseline' = {"assets", "risk", "posture", "findings"}
        /\ baseline'.assets = baseline.assets /\ baseline'.risk = baseline.risk
        /\ baseline'.posture = baseline.posture
        /\ baseline'.findings = Put(known.findings, f, new)
    BY <1>4, <1>k DEF KnownFits
  <2>3. facts' = facts
    BY <1>2 DEF Grown
  <2>a. /\ DOMAIN pass'.batch = DOMAIN pass.batch \ {f}
        /\ \A g \in DOMAIN pass'.batch : pass'.batch[g] = pass.batch[g]
        /\ pass'.batch = [g \in DOMAIN pass'.batch |-> pass.batch[g]]
    BY <2>1 DEF Restrict
  <2>b. /\ DOMAIN baseline'.findings = DOMAIN baseline.findings \cup {f}
        /\ baseline'.findings[f] = new
        /\ \A g \in DOMAIN baseline.findings : g # f => baseline'.findings[g] = baseline.findings[g]
    BY <1>k, <2>2 DEF Put
  <2>4. Shapes'
    <3>a. \A g \in DOMAIN pass.batch : pass.batch[g] \in FindingState
      BY <1>0 DEF Shapes, PassFits
    <3>1. pass'.batch \in [DOMAIN pass'.batch -> FindingState]
      BY <2>a, <3>a
    <3>2. PassFits'
      BY <1>0, <2>1, <2>3, <2>a, <3>1 DEF Shapes, PassFits, Stages, Comparing
    <3>3. baseline'.findings \in [DOMAIN baseline'.findings -> FindingState]
      BY <1>0, <1>k, <2>2 DEF Put, KnownFits
    <3>4. BaselinesFit'
      BY <1>0, <2>2, <2>3, <2>b, <3>3 DEF Shapes, BaselinesFit, KnownFits
    <3> QED
      BY <1>0, <1>2, <1>4, <3>2, <3>4 DEF Shapes, FactsFit, OutcomeFits, Grown
  <2>5. ResolvedIsLogged'
    BY <1>0, <1>2, <2>b DEF GoodInv, ResolvedIsLogged, ClosedIsLogged, Grown
  <2>6. \A b \in Assets : b # a /\ CaughtUp(b) => CaughtUp(b)'
    BY <1>0, <1>2, <1>4, <2>2, <2>b, OthersStay
  <2>c. (RiskSeen(a) => RiskSeen(a)') /\ (PostureSeen(a) => PostureSeen(a)')
    BY <1>2, <1>4, <2>1, <2>2, OthersStay
  <2>d. \A g \in Findings : IsOpen(g)' /\ BatchIsCurrent(g) => BatchIsCurrent(g)'
    BY <1>0, <2>3, <2>a, <2>b DEF IsOpen, BatchIsCurrent
  <2>7. CatchInv'
    <3> SUFFICES ASSUME outcome.still  PROVE CatchInv'
      BY <1>4 DEF CatchInv
    <3>1. \A b \in Assets \ (pass.left \cup {a}) : CaughtUp(b)'
      BY <1>0, <2>6 DEF GoodInv, CatchInv, Comparing
    <3>2. a \in baseline'.assets /\ RiskSeen(a)' /\ PostureSeen(a)'
      BY <1>0, <2>2, <2>c DEF GoodInv, CatchInv, Comparing
    <3>3. \A g \in Findings : AssetOf[g] = a /\ IsOpen(g)' => BatchIsCurrent(g)'
      BY <1>0, <2>3, <2>d DEF GoodInv, CatchInv, IsOpen
    <3> QED
      BY <2>1, <3>1, <3>2, <3>3 DEF CatchInv, EndedWell, Comparing, AfterRaise
  <2> QED
    BY <2>1, <2>4, <2>5, <2>7 DEF GoodInv, AlertInv, AfterRaise, EndedWell
<1> HIDE DEF captured, next
<1> QED
  BY <1>0, <1>1, <1>e, <1>3, <1>4, Observes DEF BreaksAt, Captures, Ends, Fail

LEMMA FindingsComparedGood == ASSUME GoodInv, FindingsCompared PROVE GoodInv'
<1>0. /\ pass.stage = "findings" /\ Shapes /\ DOMAIN pass.batch = {}
      /\ UNCHANGED <<facts, events, baseline, alerts, outcome>>
  BY DEF FindingsCompared, GoodInv, Empty
<1>1. /\ DOMAIN pass' = {"stage", "here", "left", "batch"} /\ pass'.stage = "resolved"
      /\ pass'.here = pass.here /\ pass'.left = pass.left /\ pass'.batch = baseline.findings
  BY <1>0 DEF FindingsCompared, At, Shapes, PassFits
<1>2. Shapes'
  <2>1. PassFits'
    BY <1>0, <1>1 DEF Shapes, PassFits, BaselinesFit, KnownFits, Stages, Comparing
  <2> QED
    BY <1>0, <2>1 DEF Shapes, FactsFit, BaselinesFit, KnownFits, OutcomeFits, LogFits,
       TellsOfFinding
<1>3. ResolvedIsLogged'
  BY <1>0 DEF GoodInv, ResolvedIsLogged, ClosedIsLogged
<1>4. \A b \in Assets : /\ CaughtUp(b) => CaughtUp(b)'
                        /\ RiskSeen(b) => RiskSeen(b)'
                        /\ PostureSeen(b) => PostureSeen(b)'
  BY <1>0 DEF CaughtUp, RiskSeen, Reverted, OfAsset, PostureSeen, FindingSeen
<1>5. CatchInv'
  <2> SUFFICES ASSUME outcome.still  PROVE CatchInv'
    BY <1>0 DEF CatchInv
  <2>1. \A f \in Findings : AssetOf[f] = pass.here /\ IsOpen(f) =>
           f \in DOMAIN baseline.findings /\ baseline.findings[f] = facts.findings[f]
    BY <1>0 DEF GoodInv, CatchInv, BatchIsCurrent
  <2>2. \A f \in DOMAIN baseline'.findings : AssetOf[f] = pass'.here => RestIsResolved(f)'
    BY <1>0, <1>1, <2>1 DEF RestIsResolved, IsOpen, Shapes, BaselinesFit, KnownFits
  <2>3. /\ \A a \in Assets \ (pass.left \cup {pass.here}) : CaughtUp(a)
        /\ pass.here \in baseline.assets /\ RiskSeen(pass.here) /\ PostureSeen(pass.here)
        /\ pass.here \in Assets
    BY <1>0 DEF GoodInv, CatchInv, Comparing, Shapes, PassFits
  <2> QED
    BY <1>0, <1>1, <1>4, <2>2, <2>3 DEF CatchInv, EndedWell, Comparing, AfterRaise
<1> QED
  BY <1>1, <1>2, <1>3, <1>5 DEF GoodInv, AlertInv, AfterRaise, EndedWell

LEMMA CompareResolvedGood ==
    ASSUME GoodInv, NEW f \in Findings, CompareResolved(f) PROVE GoodInv'
<1> DEFINE a == pass.here
           old == pass.batch[f]
           new == facts.findings[f]
           resolved == AssetOf[f] = pass.here /\ old.status = "open" /\ new.status # "open"
           e == Event("FINDING_RESOLVED", AssetOf[f], f, FindingText(old), FindingText(new))
           es == IF resolved THEN <<e>> ELSE <<>>
           captured == IF resolved THEN [baseline EXCEPT !.findings = Put(@, f, new)]
                       ELSE baseline
           next == [pass EXCEPT !.batch = Restrict(@, DOMAIN @ \ {f})]
<1>0. /\ pass.stage = "resolved" /\ Shapes /\ f \in DOMAIN pass.batch
      /\ f \in DOMAIN baseline.findings /\ new \in FindingState /\ a \in Assets
      /\ facts.findings[f] # None
  <2>1. pass.stage = "resolved" /\ Shapes /\ f \in DOMAIN pass.batch
    BY DEF CompareResolved, GoodInv
  <2> QED
    BY <2>1 DEF Shapes, PassFits, BaselinesFit, KnownFits, FactsFit, Comparing
<1>1. \/ Captures(es, captured, next) /\ UNCHANGED outcome
      \/ BreaksAt(baseline, es)
  BY DEF CompareResolved, Observe
<1>t. Events(es) /\ Tells(es)
  <2>1. e.finding = f /\ e.type = "FINDING_RESOLVED" /\ e.cur = FindingText(new)
    BY DEF Event
  <2>2. FindingIn(e) = [severity |-> new.severity, status |-> new.status]
    BY <2>1 DEF FindingIn, FindingText
  <2>3. [severity |-> new.severity, status |-> new.status] \in FindingState
    BY <1>0 DEF FindingState
  <2>4. TellsOfFinding(e)
    BY <1>0, <2>1, <2>2, <2>3 DEF TellsOfFinding
  <2> HIDE DEF e
  <2> QED
    BY <2>4 DEF Events, Tells
<1>2. Grown /\ alerts' = alerts
  BY <1>0, <1>1, <1>t, Observes
<1>3. CASE Ends(baseline)
  BY <1>2, <1>3, BreakingOffHere
<1>4. CASE /\ baseline' = captured /\ pass' = next /\ outcome' = outcome
           /\ \A i \in DOMAIN es : es[i] \in Range(events')
  <2>1. /\ DOMAIN pass' = {"stage", "here", "left", "batch"} /\ pass'.stage = "resolved"
        /\ pass'.here = a /\ pass'.left = pass.left
        /\ pass'.batch = Restrict(pass.batch, DOMAIN pass.batch \ {f})
    BY <1>0, <1>4 DEF Shapes, PassFits
  <2>2. /\ DOMAIN baseline' = {"assets", "risk", "posture", "findings"}
        /\ baseline'.assets = baseline.assets /\ baseline'.risk = baseline.risk
        /\ baseline'.posture = baseline.posture
        /\ baseline'.findings = IF resolved THEN Put(baseline.findings, f, new)
                                ELSE baseline.findings
    BY <1>0, <1>4 DEF Shapes, BaselinesFit, KnownFits
  <2>3. facts' = facts
    BY <1>2 DEF Grown
  <2>a. /\ DOMAIN pass'.batch = DOMAIN pass.batch \ {f}
        /\ \A g \in DOMAIN pass'.batch : pass'.batch[g] = pass.batch[g]
        /\ pass'.batch = [g \in DOMAIN pass'.batch |-> pass.batch[g]]
    BY <2>1 DEF Restrict
  <2>b. /\ DOMAIN baseline'.findings = DOMAIN baseline.findings
        /\ baseline'.findings[f] = IF resolved THEN new ELSE baseline.findings[f]
        /\ \A g \in DOMAIN baseline.findings : g # f => baseline'.findings[g] = baseline.findings[g]
    BY <1>0, <2>2 DEF Put
  <2>4. Shapes'
    <3>1. pass'.batch \in [DOMAIN pass'.batch -> FindingState]
      BY <1>0, <2>a DEF Shapes, PassFits
    <3>2. PassFits'
      BY <1>0, <2>1, <2>3, <2>a, <2>b, <3>1 DEF Shapes, PassFits, Stages, Comparing
    <3>3. baseline'.findings \in [DOMAIN baseline'.findings -> FindingState]
      BY <1>0, <2>2 DEF Put, Shapes, BaselinesFit, KnownFits
    <3>4. BaselinesFit'
      BY <1>0, <2>2, <2>3, <2>b, <3>3 DEF Shapes, BaselinesFit, KnownFits
    <3> QED
      BY <1>0, <1>2, <1>4, <3>2, <3>4 DEF Shapes, FactsFit, OutcomeFits, Grown
  <2>5. ResolvedIsLogged'
    <3>1. \A g \in DOMAIN baseline.findings : g # f /\ baseline'.findings[g].status # "open" =>
             \E x \in Range(events') : x.type = "FINDING_RESOLVED" /\ x.finding = g
      BY <1>2, <2>b DEF GoodInv, ResolvedIsLogged, ClosedIsLogged, Grown
    <3>2. CASE resolved
      <4>1. e \in Range(events')
        BY <1>4, <3>2
      <4>2. e.type = "FINDING_RESOLVED" /\ e.finding = f
        BY DEF Event
      <4> QED
        BY <2>b, <3>1, <4>1, <4>2 DEF ResolvedIsLogged, ClosedIsLogged
    <3>3. CASE ~resolved
      BY <1>0, <1>2, <2>b, <3>1, <3>3 DEF GoodInv, ResolvedIsLogged, ClosedIsLogged, Grown
    <3> QED
      BY <3>2, <3>3
  <2>6. \A b \in Assets : b # a /\ CaughtUp(b) => CaughtUp(b)'
    BY <1>0, <1>2, <1>4, <2>2, <2>b, OthersStay
  <2>c. (RiskSeen(a) => RiskSeen(a)') /\ (PostureSeen(a) => PostureSeen(a)')
    BY <1>2, <1>4, <2>1, <2>2, OthersStay
  <2>d. \A g \in DOMAIN baseline.findings :
           g # f /\ RestIsResolved(g) => RestIsResolved(g)'
    BY <2>3, <2>a, <2>b DEF RestIsResolved, IsOpen, FindingSeen
  <2>e. AssetOf[f] = a /\ RestIsResolved(f) => RestIsResolved(f)'
    <3> SUFFICES ASSUME AssetOf[f] = a, RestIsResolved(f)  PROVE RestIsResolved(f)'
      OBVIOUS
    <3>1. CASE resolved
      BY <3>1, <2>3, <2>b DEF RestIsResolved, IsOpen, FindingSeen
    <3>2. CASE ~resolved
      <4>1. FindingSeen(f)
        BY <1>0, <3>2 DEF RestIsResolved, IsOpen, FindingSeen
      <4> QED
        BY <3>2, <4>1, <2>3, <2>b DEF RestIsResolved, IsOpen, FindingSeen
    <3> QED
      BY <3>1, <3>2
  <2>7. CatchInv'
    <3> SUFFICES ASSUME outcome.still  PROVE CatchInv'
      BY <1>4 DEF CatchInv
    <3>1. \A b \in Assets \ (pass.left \cup {a}) : CaughtUp(b)'
      BY <1>0, <2>6 DEF GoodInv, CatchInv, Comparing
    <3>2. a \in baseline'.assets /\ RiskSeen(a)' /\ PostureSeen(a)'
      BY <1>0, <2>2, <2>c DEF GoodInv, CatchInv, Comparing
    <3>3. \A g \in DOMAIN baseline'.findings : AssetOf[g] = a => RestIsResolved(g)'
      BY <1>0, <2>b, <2>d, <2>e DEF GoodInv, CatchInv
    <3> QED
      BY <2>1, <3>1, <3>2, <3>3 DEF CatchInv, EndedWell, Comparing, AfterRaise
  <2> QED
    BY <2>1, <2>4, <2>5, <2>7 DEF GoodInv, AlertInv, AfterRaise, EndedWell
<1> HIDE DEF es, captured, next
<1>5. CASE Captures(es, captured, next) /\ UNCHANGED outcome
  <2>1. baseline' = captured /\ pass' = next /\ outcome' = outcome /\ Emit(es, Len(es))
    BY <1>5 DEF Captures
  <2>2. \A i \in DOMAIN es : es[i] \in Range(events')
    <3>1. Len(es) \in 0..Len(es) /\ LogFits
      BY <1>0, <1>t DEF Events, Shapes
    <3> QED
      BY <1>t, <2>1, <3>1, LoggedAdds DEF Emit
  <2> QED
    BY <1>4, <2>1, <2>2
<1>6. CASE BreaksAt(baseline, es)
  BY <1>3, <1>6 DEF BreaksAt, Ends, Fail
<1> QED
  BY <1>1, <1>5, <1>6

LEMMA AssetDoneGood == ASSUME GoodInv, AssetDone PROVE GoodInv'
<1>0. /\ pass.stage = "resolved" /\ Shapes /\ DOMAIN pass.batch = {}
      /\ UNCHANGED <<facts, events, baseline, alerts, outcome>>
      /\ pass.here \in Assets /\ pass.left \subseteq Assets
  BY DEF AssetDone, GoodInv, Empty, Shapes, PassFits, Comparing
<1>1. /\ DOMAIN pass' = {"stage", "here", "left", "batch"}
      /\ \/ pass.left = {} /\ pass'.stage = "generate"
         \/ /\ pass'.stage = "asset" /\ pass'.here \in pass.left
            /\ pass'.left = pass.left \ {pass'.here}
  BY DEF AssetDone, NextAsset, Idle
<1>2. Shapes'
  <2>1. PassFits'
    BY <1>0, <1>1 DEF PassFits, Stages, Comparing
  <2> QED
    BY <1>0, <2>1 DEF Shapes, FactsFit, BaselinesFit, KnownFits, OutcomeFits, LogFits,
       TellsOfFinding
<1>3. ResolvedIsLogged'
  BY <1>0 DEF GoodInv, ResolvedIsLogged, ClosedIsLogged
<1>4. \A b \in Assets : CaughtUp(b) => CaughtUp(b)'
  BY <1>0 DEF CaughtUp, RiskSeen, Reverted, OfAsset, PostureSeen, FindingSeen
<1>5. CatchInv'
  <2> SUFFICES ASSUME outcome.still  PROVE CatchInv'
    BY <1>0 DEF CatchInv
  <2>1. CaughtUp(pass.here)
    BY <1>0 DEF GoodInv, CatchInv, Comparing, CaughtUp, RestIsResolved
  <2>2. \A b \in Assets \ pass.left : CaughtUp(b)
    BY <1>0, <2>1 DEF GoodInv, CatchInv, Comparing
  <2> QED
    BY <1>0, <1>1, <1>4, <2>2 DEF CatchInv, EndedWell, Comparing, AfterRaise
<1> QED
  BY <1>1, <1>2, <1>3, <1>5 DEF GoodInv, AlertInv, AfterRaise, EndedWell

LEMMA StartPassGood == ASSUME GoodInv, StartPass PROVE GoodInv'
<1>0. Shapes /\ UNCHANGED <<facts, events, baseline, alerts>>
      /\ outcome' = [last |-> "running", still |-> TRUE, rebuilt |-> {}]
  BY DEF StartPass, GoodInv
<1>1. /\ DOMAIN pass' = {"stage", "here", "left", "batch"} /\ pass'.stage = "asset"
      /\ pass'.here \in Assets /\ pass'.left = Assets \ {pass'.here}
  BY DEF StartPass
<1>2. Shapes'
  <2>1. PassFits'
    BY <1>1 DEF PassFits, Stages, Comparing
  <2> QED
    BY <1>0, <2>1 DEF Shapes, FactsFit, BaselinesFit, KnownFits, OutcomeFits, LogFits,
       TellsOfFinding
<1>3. ResolvedIsLogged'
  BY <1>0 DEF GoodInv, ResolvedIsLogged, ClosedIsLogged
<1>4. CatchInv'
  BY <1>1 DEF CatchInv, EndedWell, Comparing, AfterRaise
<1> QED
  BY <1>1, <1>2, <1>3, <1>4 DEF GoodInv, AlertInv, AfterRaise, EndedWell

LEMMA QueryFailsGood == ASSUME GoodInv, QueryFails PROVE GoodInv'
<1>1. Ends(baseline) /\ Grown
  BY DEF QueryFails, Fail, Ends, Grown, GoodInv, Shapes, LogFits, TellsOfFinding
<1> QED
  BY <1>1, BreakingOffHere

-----------------------------------------------------------------------------
(* The sections of the alerts.                                             *)

LEMMA SettledAlerts ==
    ASSUME NEW mine, NEW keys \in SUBSET ActiveAlerts(mine)
    PROVE  /\ DOMAIN Resolved(mine, keys) = DOMAIN mine
           /\ ActiveAlerts(Resolved(mine, keys)) = ActiveAlerts(mine) \ keys
           /\ DOMAIN Settled(mine, keys, "ESCALATED") = DOMAIN mine
           /\ ActiveAlerts(Settled(mine, keys, "ESCALATED")) \subseteq ActiveAlerts(mine)
BY DEF Resolved, Settled, ActiveAlerts, Moved, Active

\* What a section that ends well leaves as it is.
Onward(there) ==
    /\ DOMAIN pass' = {"stage", "here", "left", "batch"} /\ pass'.stage = there
    /\ DOMAIN outcome' = {"last", "still", "rebuilt"}
    /\ outcome'.still = outcome.still /\ outcome'.rebuilt = outcome.rebuilt
    /\ UNCHANGED <<facts, events, baseline>>

LEMMA OnwardGood ==
    ASSUME GoodInv, NEW there \in AfterRaise \cup {"idle"}, Onward(there),
           pass.stage \in {"generate"} \cup AfterRaise, AlertInv'
    PROVE  GoodInv'
<1>1. Shapes'
  <2>1. PassFits'
    BY DEF Onward, PassFits, Stages, Comparing, AfterRaise
  <2> QED
    BY <2>1 DEF Onward, GoodInv, Shapes, FactsFit, BaselinesFit, KnownFits, OutcomeFits,
       LogFits, TellsOfFinding
<1>2. ResolvedIsLogged'
  BY DEF Onward, GoodInv, ResolvedIsLogged, ClosedIsLogged
<1>3. \A b \in Assets : CaughtUp(b) => CaughtUp(b)'
  BY DEF Onward, CaughtUp, RiskSeen, Reverted, OfAsset, PostureSeen, FindingSeen
<1>4. CatchInv'
  BY <1>3 DEF Onward, GoodInv, CatchInv, EndedWell, Comparing, AfterRaise
<1> QED
  BY <1>1, <1>2, <1>4 DEF GoodInv

LEMMA RaiseAlertsGood == ASSUME GoodInv, MonitoringInv, RaiseAlerts PROVE GoodInv'
<1> DEFINE mine == alerts.worker
           keys == {AlertOf(e) : e \in {x \in Range(events) : AlertType(x) # None}}
           todo == keys \ DOMAIN mine
<1>0. pass.stage = "generate" /\ UNCHANGED <<facts, events, baseline>> /\ Shapes
      /\ DOMAIN alerts = Processes
  BY DEF RaiseAlerts, Section, GoodInv, MonitoringInv
<1>1. CASE Fail
  <2>1. Ends(baseline) /\ Grown
    BY <1>0, <1>1 DEF Fail, Ends, Grown, Shapes, LogFits, TellsOfFinding
  <2> QED
    BY <2>1, BreakingOffHere
<1>2. CASE alerts' = [alerts EXCEPT !.worker = Raised(@, todo)] /\ GoesOnTo("sla")
  <2>1. alerts'.worker = Raised(mine, todo)
    BY <1>0, <1>2 DEF Processes
  <2>2. Onward("sla") /\ pass'.left = facts.overdue
    BY <1>0, <1>2 DEF GoesOnTo, At, Onward, Shapes, PassFits, OutcomeFits
  <2>3. \A e \in Range(events) : Raises(e)'
    <3>1. \A e \in Range(events) : AlertType(e) # None => AlertOf(e) \in keys
      OBVIOUS
    <3>2. DOMAIN alerts'.worker = DOMAIN mine \cup todo
      BY <2>1 DEF Raised
    <3> QED
      BY <3>1, <3>2 DEF Raises
  <2>4. AlertInv'
    BY <1>0, <2>2, <2>3 DEF Onward, AlertInv, AfterRaise, EndedWell
  <2> QED
    BY <1>0, <2>2, <2>4, OnwardGood DEF AfterRaise
<1> QED
  BY <1>1, <1>2 DEF RaiseAlerts, Section

LEMMA RaiseSlaAlertsGood == ASSUME GoodInv, MonitoringInv, RaiseSlaAlerts PROVE GoodInv'
<1> DEFINE mine == alerts.worker
           todo == {SlaAlertOf(f) : f \in pass.left} \ DOMAIN mine
<1>0. pass.stage = "sla" /\ UNCHANGED <<facts, events, baseline>> /\ Shapes
      /\ DOMAIN alerts = Processes
  BY DEF RaiseSlaAlerts, Section, GoodInv, MonitoringInv
<1>1. CASE Fail
  <2>1. Ends(baseline) /\ Grown
    BY <1>0, <1>1 DEF Fail, Ends, Grown, Shapes, LogFits, TellsOfFinding
  <2> QED
    BY <2>1, BreakingOffHere
<1>2. CASE alerts' = [alerts EXCEPT !.worker = Raised(@, todo)] /\ GoesOnTo("replay")
  <2>1. alerts'.worker = Raised(mine, todo)
    BY <1>0, <1>2 DEF Processes
  <2>2. Onward("replay") /\ pass'.left = pass.left
    BY <1>0, <1>2 DEF GoesOnTo, At, Onward, Shapes, PassFits, OutcomeFits
  <2>3. \A e \in Range(events) : Raises(e)'
    BY <1>0, <2>1 DEF GoodInv, AlertInv, AfterRaise, Raises, Raised
  <2>4. AlertInv'
    BY <1>0, <2>2, <2>3 DEF Onward, GoodInv, AlertInv, AfterRaise, EndedWell
  <2> QED
    BY <1>0, <2>2, <2>4, OnwardGood DEF AfterRaise
<1> QED
  BY <1>1, <1>2 DEF RaiseSlaAlerts, Section

LEMMA ReplayRecoveriesGood == ASSUME GoodInv, MonitoringInv, ReplayRecoveries PROVE GoodInv'
<1> DEFINE mine == alerts.worker
           todo == Recovered(mine)
<1>0. pass.stage = "replay" /\ UNCHANGED <<facts, events, baseline>> /\ Shapes
      /\ DOMAIN alerts = Processes
  BY DEF ReplayRecoveries, Section, GoodInv, MonitoringInv
<1>1. CASE Fail
  <2>1. Ends(baseline) /\ Grown
    BY <1>0, <1>1 DEF Fail, Ends, Grown, Shapes, LogFits, TellsOfFinding
  <2> QED
    BY <2>1, BreakingOffHere
<1>2. CASE alerts' = [alerts EXCEPT !.worker = Resolved(@, todo)] /\ GoesOnTo("calm")
  <2>1. alerts'.worker = Resolved(mine, todo)
    BY <1>0, <1>2 DEF Processes
  <2>2. Onward("calm") /\ pass'.left = pass.left
    BY <1>0, <1>2 DEF GoesOnTo, At, Onward, Shapes, PassFits, OutcomeFits
  <2>3. todo \in SUBSET ActiveAlerts(mine)
    BY DEF Recovered
  <2>4. /\ DOMAIN alerts'.worker = DOMAIN mine
        /\ ActiveAlerts(alerts'.worker) = ActiveAlerts(mine) \ todo
    BY <2>1, <2>3, SettledAlerts
  <2>5. \A e \in Range(events) : Raises(e)'
    BY <1>0, <2>4 DEF GoodInv, AlertInv, AfterRaise, Raises
  <2>6. \A k \in ActiveAlerts(alerts'.worker) : \A e \in Range(events) :
           e.type = "FINDING_RESOLVED" => k.finding # e.finding
    BY <2>4 DEF Recovered
  <2>7. AlertInv'
    BY <1>0, <2>2, <2>5, <2>6 DEF Onward, GoodInv, AlertInv, AfterRaise, EndedWell
  <2> QED
    BY <1>0, <2>2, <2>7, OnwardGood DEF AfterRaise
<1> QED
  BY <1>1, <1>2 DEF ReplayRecoveries, Section

LEMMA CalmSlaAlertsGood == ASSUME GoodInv, MonitoringInv, CalmSlaAlerts PROVE GoodInv'
<1> DEFINE mine == alerts.worker
           todo == {k \in ActiveAlerts(mine) :
                       k.type = "SLA_BREACH" /\ k.remediation \notin pass.left}
<1>0. pass.stage = "calm" /\ UNCHANGED <<facts, events, baseline>> /\ Shapes
      /\ DOMAIN alerts = Processes
  BY DEF CalmSlaAlerts, Section, GoodInv, MonitoringInv
<1>1. CASE Fail
  <2>1. Ends(baseline) /\ Grown
    BY <1>0, <1>1 DEF Fail, Ends, Grown, Shapes, LogFits, TellsOfFinding
  <2> QED
    BY <2>1, BreakingOffHere
<1>2. CASE alerts' = [alerts EXCEPT !.worker = Resolved(@, todo)] /\ GoesOnTo("escalate")
  <2>1. alerts'.worker = Resolved(mine, todo)
    BY <1>0, <1>2 DEF Processes
  <2>2. Onward("escalate")
    BY <1>0, <1>2 DEF GoesOnTo, At, Onward, Shapes, PassFits, OutcomeFits
  <2>3. todo \in SUBSET ActiveAlerts(mine)
    OBVIOUS
  <2>4. /\ DOMAIN alerts'.worker = DOMAIN mine
        /\ ActiveAlerts(alerts'.worker) = ActiveAlerts(mine) \ todo
    BY <2>1, <2>3, SettledAlerts
  <2>5. \A e \in Range(events) : Raises(e)'
    BY <1>0, <2>4 DEF GoodInv, AlertInv, AfterRaise, Raises
  <2>6. outcome.still => \A k \in ActiveAlerts(alerts'.worker) :
           k.type = "SLA_BREACH" => k.remediation \in facts.overdue
    BY <1>0, <2>4 DEF GoodInv, AlertInv
  <2>7. AlertInv'
    BY <1>0, <2>2, <2>4, <2>5, <2>6 DEF Onward, GoodInv, AlertInv, AfterRaise, EndedWell
  <2> QED
    BY <1>0, <2>2, <2>7, OnwardGood DEF AfterRaise
<1> QED
  BY <1>1, <1>2 DEF CalmSlaAlerts, Section

LEMMA EscalateOldAlertsGood == ASSUME GoodInv, MonitoringInv, EscalateOldAlerts PROVE GoodInv'
<1> DEFINE mine == alerts.worker
<1>0. pass.stage = "escalate" /\ UNCHANGED <<facts, events, baseline>> /\ Shapes
      /\ DOMAIN alerts = Processes
  BY DEF EscalateOldAlerts, GoodInv, MonitoringInv
<1>1. PICK old \in SUBSET ActiveAlerts(mine) :
         /\ alerts' = [alerts EXCEPT !.worker = Settled(@, old, "ESCALATED")]
         /\ \/ GoesOnTo("idle")
            \/ pass' = Idle /\ outcome' = [outcome EXCEPT !.last = "failed"]
  BY DEF EscalateOldAlerts
<1>2. CASE pass' = Idle /\ outcome' = [outcome EXCEPT !.last = "failed"]
  <2>1. Ends(baseline) /\ Grown
    BY <1>0, <1>2 DEF Ends, Grown, Shapes, LogFits, TellsOfFinding
  <2> QED
    BY <2>1, BreakingOffHere
<1>3. CASE GoesOnTo("idle")
  <2>1. alerts'.worker = Settled(mine, old, "ESCALATED")
    BY <1>0, <1>1 DEF Processes
  <2>2. Onward("idle")
    BY <1>0, <1>3 DEF GoesOnTo, Idle, Onward, Shapes, OutcomeFits
  <2>3. /\ DOMAIN alerts'.worker = DOMAIN mine
        /\ ActiveAlerts(alerts'.worker) \subseteq ActiveAlerts(mine)
    BY <2>1, SettledAlerts
  <2>4. \A e \in Range(events) : Raises(e)'
    BY <1>0, <2>3 DEF GoodInv, AlertInv, AfterRaise, Raises
  <2>5. AlertInv'
    BY <1>0, <2>2, <2>3, <2>4 DEF Onward, GoodInv, AlertInv, AfterRaise, EndedWell
  <2> QED
    BY <1>0, <2>2, <2>5, OnwardGood DEF AfterRaise
<1> QED
  BY <1>1, <1>2, <1>3

-----------------------------------------------------------------------------
(* Analysts, the world, the restart.                                       *)

LEMMA ElsewhereGood ==
    ASSUME GoodInv, UNCHANGED <<facts, events, baseline, pass, outcome>>,
           alerts'.worker = alerts.worker
    PROVE  GoodInv'
<1>1. Shapes' /\ ResolvedIsLogged'
  BY DEF GoodInv, Shapes, FactsFit, BaselinesFit, KnownFits, PassFits, OutcomeFits, LogFits,
     TellsOfFinding, ResolvedIsLogged, ClosedIsLogged
<1>2. CatchInv'
  BY DEF GoodInv, CatchInv, CaughtUp, RiskSeen, Reverted, OfAsset, PostureSeen, FindingSeen,
     IsOpen,
     BatchIsCurrent, RestIsResolved, EndedWell
<1>3. AlertInv'
  BY DEF GoodInv, AlertInv, EndedWell, Raises
<1> QED
  BY <1>1, <1>2, <1>3 DEF GoodInv

LEMMA AnalystsGood ==
    ASSUME GoodInv, MonitoringInv,
           \/ \E m \in Manual : CreateAlert(m)
           \/ \E m \in Manual, new \in Requests : TransitionAlert(m, new)
    PROVE  GoodInv'
<1>1. \E mine : alerts' = [alerts EXCEPT !.api = mine]
  BY DEF CreateAlert, TransitionAlert
<1>2. alerts'.worker = alerts.worker
  BY <1>1 DEF MonitoringInv, Processes
<1>3. UNCHANGED <<facts, events, baseline, pass, outcome>>
  BY DEF CreateAlert, TransitionAlert
<1> QED
  BY <1>2, <1>3, ElsewhereGood

LEMMA ChangeGood ==
    ASSUME GoodInv, NEW new, Change(new), FactsFit',
           \A f \in Findings : facts.findings[f] # None => facts'.findings[f] # None
    PROVE  GoodInv'
<1>0. UNCHANGED <<events, baseline, alerts, pass>> /\ outcome' = [outcome EXCEPT !.still = FALSE]
  BY DEF Change
<1>1. /\ DOMAIN outcome' = {"last", "still", "rebuilt"} /\ outcome'.still = FALSE
      /\ outcome'.last = outcome.last
  BY <1>0 DEF GoodInv, Shapes, OutcomeFits
<1>2. Shapes'
  BY <1>0, <1>1 DEF GoodInv, Shapes, BaselinesFit, KnownFits, PassFits, OutcomeFits, LogFits,
     TellsOfFinding
<1>3. ResolvedIsLogged'
  BY <1>0 DEF GoodInv, ResolvedIsLogged, ClosedIsLogged
<1>4. CatchInv'
  BY <1>1 DEF CatchInv
<1>5. AlertInv'
  BY <1>0, <1>1 DEF GoodInv, AlertInv, EndedWell, Raises
<1> QED
  BY <1>2, <1>3, <1>4, <1>5 DEF GoodInv

LEMMA WorldGood ==
    ASSUME GoodInv,
           \/ ScoreChanges \/ PostureChanges \/ FindingIsReported \/ FindingIsClosed
           \/ RemediationIsOverdue \/ RemediationIsDealtWith \/ AcceptanceLapses
    PROVE  GoodInv'
<1>0. FactsFit
  BY DEF GoodInv, Shapes
<1>1. CASE ScoreChanges
  <2>1. PICK a \in Assets, s \in Scores : Change([facts EXCEPT !.risk[a] = s])
    BY <1>1 DEF ScoreChanges
  <2>2. FactsFit' /\ facts'.findings = facts.findings
    BY <1>0, <2>1 DEF Change, FactsFit
  <2> QED
    BY <2>1, <2>2, ChangeGood
<1>2. CASE PostureChanges
  <2>1. PICK a \in Assets, q \in Postures : Change([facts EXCEPT !.posture[a] = q])
    BY <1>2 DEF PostureChanges
  <2>2. FactsFit' /\ facts'.findings = facts.findings
    BY <1>0, <2>1 DEF Change, FactsFit
  <2> QED
    BY <2>1, <2>2, ChangeGood
<1>3. CASE FindingIsReported
  <2>1. PICK f \in Findings, s \in Severities :
           Change([facts EXCEPT !.findings[f] = [severity |-> s, status |-> "open"]])
    BY <1>3 DEF FindingIsReported
  <2>2. [severity |-> s, status |-> "open"] \in FindingState
    BY DEF FindingState, FindingStatuses
  <2>3. FactsFit' /\ facts'.findings = [facts.findings EXCEPT ![f] = [severity |-> s, status |-> "open"]]
    BY <1>0, <2>1, <2>2 DEF Change, FactsFit
  <2>4. \A g \in Findings : facts.findings[g] # None => facts'.findings[g] # None
    BY <1>0, <2>2, <2>3, MonitoringAssumption DEF FactsFit
  <2> QED
    BY <2>1, <2>3, <2>4, ChangeGood
<1>4. CASE FindingIsClosed
  <2>1. PICK f \in Findings : /\ facts.findings[f] # None
                             /\ Change([facts EXCEPT !.findings[f].status = "closed"])
    BY <1>4 DEF FindingIsClosed
  <2> DEFINE v == [facts.findings[f] EXCEPT !.status = "closed"]
  <2>2. v \in FindingState
    BY <1>0, <2>1 DEF FactsFit, FindingState, FindingStatuses
  <2>3. facts' = [facts EXCEPT !.findings[f] = v]
    BY <2>1 DEF Change
  <2> HIDE DEF v
  <2>4. FactsFit' /\ facts'.findings = [facts.findings EXCEPT ![f] = v]
    BY <1>0, <2>2, <2>3 DEF FactsFit
  <2>5. \A g \in Findings : facts.findings[g] # None => facts'.findings[g] # None
    BY <1>0, <2>2, <2>4, MonitoringAssumption DEF FactsFit
  <2> QED
    BY <2>1, <2>4, <2>5, ChangeGood
<1>5. CASE RemediationIsOverdue
  <2>1. PICK f \in Findings : Change([facts EXCEPT !.overdue = @ \cup {f}])
    BY <1>5 DEF RemediationIsOverdue
  <2>2. FactsFit' /\ facts'.findings = facts.findings
    BY <1>0, <2>1 DEF Change, FactsFit
  <2> QED
    BY <2>1, <2>2, ChangeGood
<1>6. CASE RemediationIsDealtWith
  <2>1. PICK f : Change([facts EXCEPT !.overdue = @ \ {f}])
    BY <1>6 DEF RemediationIsDealtWith
  <2>2. FactsFit' /\ facts'.findings = facts.findings
    BY <1>0, <2>1 DEF Change, FactsFit
  <2> QED
    BY <2>1, <2>2, ChangeGood
<1>7. CASE AcceptanceLapses
  <2>1. PICK a \in Assets : Change([facts EXCEPT !.lapsed = @ \cup {a}])
    BY <1>7 DEF AcceptanceLapses
  <2>2. FactsFit' /\ facts'.findings = facts.findings
    BY <1>0, <2>1 DEF Change, FactsFit
  <2> QED
    BY <2>1, <2>2, ChangeGood
<1> QED
  BY <1>1, <1>2, <1>3, <1>4, <1>5, <1>6, <1>7

LEMMA EmptyLog == Range(<<>>) = {} /\ <<>> \in Seq(Range(<<>>)) /\ HasLast(<<>>)
<1>1. Range(<<>>) = {}
  BY DEF Range
<1> QED
  BY <1>1 DEF HasLast

\* Nothing is compared, logged or promised.
LEMMA FromNothing ==
    ASSUME FactsFit, events = <<>>, baseline = NoBaselines, pass = Idle,
           outcome = [last |-> "none", still |-> FALSE, rebuilt |-> {}]
    PROVE  GoodInv
<1>1. LogFits
  BY EmptyLog DEF LogFits, Range
<1>2. Shapes
  BY <1>1 DEF Shapes, BaselinesFit, KnownFits, NoBaselines, Empty, PassFits, Idle,
     OutcomeFits, Stages, Comparing
<1>3. ResolvedIsLogged
  BY DEF ResolvedIsLogged, ClosedIsLogged, NoBaselines, Empty
<1> QED
  BY <1>2, <1>3 DEF GoodInv, CatchInv, AlertInv, EndedWell, AfterRaise, Idle

LEMMA StartGood == MonitoringInit => GoodInv
<1> SUFFICES ASSUME MonitoringInit  PROVE GoodInv
  OBVIOUS
<1>1. FactsFit
  BY DEF MonitoringInit, FactsFit, Postures
<1> QED
  BY <1>1, FromNothing DEF MonitoringInit

LEMMA RestartGood == ASSUME GoodInv, Restart PROVE GoodInv'
<1>1. FactsFit'
  BY DEF Restart, GoodInv, Shapes, FactsFit
<1>2. events' = <<>> /\ baseline' = NoBaselines /\ pass' = Idle
      /\ outcome' = [last |-> "none", still |-> FALSE, rebuilt |-> {}]
  BY DEF Restart
<1>3. LogFits'
  BY <1>2, EmptyLog DEF LogFits
<1>4. Shapes'
  BY <1>1, <1>2, <1>3 DEF Shapes, BaselinesFit, KnownFits, NoBaselines, Empty, PassFits, Idle,
     OutcomeFits,
     Stages, Comparing
<1>5. ResolvedIsLogged'
  BY <1>2 DEF ResolvedIsLogged, ClosedIsLogged, NoBaselines, Empty
<1> QED
  BY <1>2, <1>4, <1>5 DEF GoodInv, CatchInv, AlertInv, EndedWell, AfterRaise, Idle

LEMMA NextGood ==
    ASSUME GoodInv, MonitoringInv, [MonitoringNext]_vars
    PROVE  GoodInv'
<1>1. CASE UNCHANGED vars
  BY <1>1, ElsewhereGood DEF vars
<1>2. CASE \/ StartPass \/ CompareAsset \/ CompareRisk \/ ComparePosture
           \/ (\E f \in Findings : CompareFinding(f)) \/ FindingsCompared
           \/ (\E f \in Findings : CompareResolved(f)) \/ AssetDone \/ QueryFails
  BY <1>2, StartPassGood, CompareAssetGood, CompareRiskGood, ComparePostureGood,
     CompareFindingGood, FindingsComparedGood, CompareResolvedGood, AssetDoneGood,
     QueryFailsGood
<1>3. CASE \/ RaiseAlerts \/ RaiseSlaAlerts \/ ReplayRecoveries \/ CalmSlaAlerts
           \/ EscalateOldAlerts
  BY <1>3, RaiseAlertsGood, RaiseSlaAlertsGood, ReplayRecoveriesGood, CalmSlaAlertsGood,
     EscalateOldAlertsGood
<1>4. CASE \/ \E m \in Manual : CreateAlert(m)
           \/ \E m \in Manual, new \in Requests : TransitionAlert(m, new)
  BY <1>4, AnalystsGood
<1>5. CASE \/ ScoreChanges \/ PostureChanges \/ FindingIsReported \/ FindingIsClosed
           \/ RemediationIsOverdue \/ RemediationIsDealtWith \/ AcceptanceLapses
  BY <1>5, WorldGood
<1>6. CASE Restart
  BY <1>6, RestartGood
<1> QED
  BY <1>1, <1>2, <1>3, <1>4, <1>5, <1>6 DEF MonitoringNext

\* After a pass that ended well while the database held still, every baseline is
\* what the database says, every event that raises alerts has its alert, and
\* none is active about a finding that was seen closed or a remediation that is
\* not overdue, whatever passes broke off before (GoodPassMakesUp).  The risk
\* baseline of an asset whose posture baseline was first stored by that pass may
\* instead be a score that the log tells of.
THEOREM GoodPassesMakeUp == MonitoringSpec => []GoodPassMakesUp
<1>1. GoodInv => GoodPassMakesUp
  BY GoodPasses
<1>2. MonitoringSpec => []GoodInv
  BY AlwaysFits, StartGood, NextGood, PTL DEF MonitoringSpec
<1> QED
  BY <1>1, <1>2, PTL
================================================================================
