---------------------------- MODULE RegistersProofs ----------------------------
(***************************************************************************)
(* Theorems about Registers for every set of requests and techniques and   *)
(* every number of passes and failures: types, a control's status and      *)
(* score, the history, what is recorded for a request, and that an end is  *)
(* an end.                                                                 *)
(***************************************************************************)
EXTENDS Registers, FiniteSetTheorems, TLAPS

\* Histories are told from their last entry with a status: appending one that
\* has a status makes it the last, appending another changes nothing.
Telling(log) == {i \in DOMAIN log : log[i].to # None}
IsLastTold(log, i) == i \in Telling(log) /\ \A j \in Telling(log) : j <= i
Tells(log, st) == \E i \in DOMAIN log : IsLastTold(log, i) /\ log[i].to = st

-----------------------------------------------------------------------------
(* Arithmetic of the scores.                                                *)

LEMMA TechniquesFinite == IsFiniteSet(Techniques) /\ Cardinality(Techniques) \in Nat \ {0}
<1>1. IsFiniteSet(Techniques) /\ Techniques # {}
  BY RegistersAssumption
<1>2. Cardinality(Techniques) \in Nat /\ Cardinality(Techniques) # 0
  BY <1>1, FS_CardinalityType, FS_EmptySet
<1> QED
  BY <1>1, <1>2

LEMMA HundredthsType ==
    ASSUME NEW a \in Int, NEW b \in Nat \ {0}
    PROVE  Hundredths(a, b) \in Int
BY DEF Hundredths

LEMMA WithType ==
    ASSUME NEW vs \in Seq(Validation), NEW o
    PROVE  With(vs, o) \in Nat
<1>1. IsFiniteSet(1..Len(vs))
  BY FS_Interval
<1>2. {i \in DOMAIN vs : vs[i].outcome = o} \subseteq 1..Len(vs)
  OBVIOUS
<1> QED
  BY <1>1, <1>2, FS_Subset, FS_CardinalityType DEF With

\* The effectiveness of any validations is an integer.
LEMMA EffectivenessType ==
    ASSUME NEW vs \in Seq(Validation)
    PROVE  Effectiveness(vs) \in Int
<1>1. ValidationScore(vs) \in Int
  <2>1. CASE vs = <<>>
    BY <2>1 DEF ValidationScore
  <2>2. CASE vs # <<>>
    <3>1. Len(vs) \in Nat \ {0}
      BY <2>2
    <3>2. 100 * With(vs, "PASSED") + 50 * With(vs, "PARTIAL") \in Int
      BY WithType
    <3> QED
      BY <2>2, <3>1, <3>2, HundredthsType DEF ValidationScore
  <2> QED
    BY <2>1, <2>2
<1>2. CoverageScore(vs) \in Int
  <2> DEFINE covered == {t \in Techniques : \E i \in DOMAIN vs :
                           vs[i].outcome = "PASSED" /\ vs[i].technique = t}
  <2>1. Cardinality(covered) \in Nat
    BY TechniquesFinite, FS_Subset, FS_CardinalityType
  <2>2. 100 * Cardinality(covered) \in Int
    BY <2>1
  <2>3. Hundredths(100 * Cardinality(covered), Cardinality(Techniques)) \in Int
    BY <2>2, TechniquesFinite, HundredthsType
  <2> QED
    BY <2>3 DEF CoverageScore
<1> QED
  BY <1>1, <1>2 DEF Effectiveness

\* A control without validations is fully effective, as a new one is.
LEMMA NewControl == Effectiveness(<<>>) = 10000 /\ Band(10000) = "ACTIVE"
BY DEF Effectiveness, ValidationScore, CoverageScore, Band

-----------------------------------------------------------------------------
(* Types.                                                                   *)

LEMMA IdleType == Idle \in Session
BY RegistersAssumption DEF Idle, Session, PCs, Statuses, ControlStatuses, Outcomes

LEMMA StatusTypes == StatusesOf(kind) \subseteq Statuses \/ kind \notin Kinds
BY RegistersAssumption DEF StatusesOf, Statuses

LEMMA FirstTypes ==
    ASSUME kind \in Kinds
    PROVE  FirstStatus \in Statuses /\ FirstScore \in Int
BY RegistersAssumption DEF FirstStatus, FirstScore, Statuses, ExposureStatuses,
   ControlStatuses, DetectionStatuses, ReportStatuses, IOCStatuses, PlanStatuses

LEMMA BandType == ASSUME NEW n \in Int PROVE Band(n) \in ControlStatuses
BY DEF Band, ControlStatuses

LEMMA EventType ==
    ASSUME NEW e \in {"CREATED", "MOVED", "VALIDATED", "CHANGED", "DRIFT_DETECTED"},
           NEW st \in Statuses \cup {None}, NEW by \in Requests \cup {None}
    PROVE  Event(e, st, by) \in Entry
BY DEF Event, Entry

LEMMA InitialType == RegistersInit => RegistersTypeOK
<1> SUFFICES ASSUME RegistersInit PROVE RegistersTypeOK
  OBVIOUS
<1>1. kind \in Kinds /\ place \in {"api", "worker"} /\ around \subseteq Neighbours
      /\ links \in [Neighbours -> Nat] /\ passes \in 0..MaxPasses /\ troubles \in 0..MaxTroubles
      /\ pass \in [pc: {"idle", "sync", "link"}, facts: 0..1]
  BY RegistersAssumption DEF RegistersInit
<1>2. session \in [Requests -> Session]
  BY IdleType DEF RegistersInit
<1>3. validations \in Seq(Validation)
  <2>1. \A o \in Outcomes : <<[outcome |-> o, technique |-> Idle.technique, by |-> None]>>
                              \in Seq(Validation)
    BY RegistersAssumption DEF Validation, Idle
  <2>2. \/ validations = <<>>
        \/ \E o \in Outcomes : validations = <<[outcome |-> o, technique |-> Idle.technique,
                                                by |-> None]>>
    BY DEF RegistersInit
  <2>3. CASE validations = <<>>
    BY <2>3
  <2>4. CASE validations # <<>>
    BY <2>1, <2>2, <2>4, Zenon
  <2> QED
    BY <2>3, <2>4
<1>4. StandingScore \in Int
  BY <1>3, EffectivenessType DEF StandingScore
<1>5. Standing \subseteq Statuses
  BY <1>1, <1>3, <1>4, StatusTypes, FirstTypes, BandType DEF Standing, Statuses, ControlStatuses
<1>6. record \in Record \cup {None}
  BY <1>4, <1>5 DEF RegistersInit, Record
<1>7. trail \in Seq(Entry)
  <2>1. CASE record = None
    BY <2>1 DEF RegistersInit
  <2>2. CASE record # None
    <3>1. record.status \in Statuses
      BY <1>6, <2>2 DEF Record
    <3>2. Event("CREATED", record.status, None) \in Entry
      BY <3>1, EventType
    <3> QED
      BY <2>2, <3>2 DEF RegistersInit, Event
  <2> QED
    BY <2>1, <2>2
<1> QED
  BY <1>1, <1>2, <1>3, <1>6, <1>7 DEF RegistersTypeOK
\* The services that create, or bring up to date.
LEMMA NewType ==
    ASSUME RegistersTypeOK, NEW f \in 0..1, NEW by \in Requests \cup {None}, New(f, by)
    PROVE  record' \in Record \cup {None} /\ trail' \in Seq(Entry)
<1>1. FirstStatus \in Statuses /\ FirstScore \in Int
  BY FirstTypes DEF RegistersTypeOK
<1>2. Event("CREATED", FirstStatus, by) \in Entry
  BY <1>1, EventType
<1>3. record' \in Record
  BY <1>1 DEF New, Record
<1>4. trail' \in Seq(Entry)
  <2>1. trail \in Seq(Entry) /\ trail' = Append(trail, Event("CREATED", FirstStatus, by))
    BY DEF New, RegistersTypeOK
  <2> QED
    BY <1>2, <2>1
<1> QED
  BY <1>3, <1>4

LEMMA RenewedType ==
    ASSUME RegistersTypeOK, NEW f \in 0..1, NEW by \in Requests \cup {None},
           record # None, Renewed(f, by)
    PROVE  record' \in Record \cup {None} /\ trail' \in Seq(Entry)
<1>1. Event("CHANGED", None, by) \in Entry
  BY EventType
<1>2. record' \in Record
  BY DEF Renewed, Record, RegistersTypeOK
<1>3. trail \in Seq(Entry) /\ trail' \in {trail, Append(trail, Event("CHANGED", None, by))}
  BY DEF Renewed, RegistersTypeOK
<1>4. trail' \in Seq(Entry)
  BY <1>1, <1>3
<1> QED
  BY <1>2, <1>4

LEMMA SyncControlType ==
    ASSUME RegistersTypeOK, NEW f \in 0..1, NEW by \in Requests \cup {None},
           CreateOrSyncControl(f, by)
    PROVE  record' \in Record \cup {None} /\ trail' \in Seq(Entry)
<1>1. CASE record = None
  BY <1>1, NewType DEF CreateOrSyncControl
<1>2. CASE record # None /\ record.status = "RETIRED"
  BY <1>2 DEF CreateOrSyncControl, RegistersTypeOK
<1>3. CASE record # None /\ record.status # "RETIRED"
  <2>1. Effectiveness(validations) \in Int
    BY EffectivenessType DEF RegistersTypeOK
  <2>2. Event("DRIFT_DETECTED", None, by) \in Entry
    BY EventType
  <2>3. record' = [record EXCEPT !.facts = f, !.score = Effectiveness(validations)]
        /\ trail' \in {trail, Append(trail, Event("DRIFT_DETECTED", None, by))}
    BY <1>3 DEF CreateOrSyncControl
  <2>4. record' \in Record
    BY <1>3, <2>1, <2>3 DEF Record, RegistersTypeOK
  <2>5. trail' \in Seq(Entry)
    <3>1. trail \in Seq(Entry)
      BY DEF RegistersTypeOK
    <3>2. Append(trail, Event("DRIFT_DETECTED", None, by)) \in Seq(Entry)
      BY <2>2, <3>1
    <3> QED
      BY <2>3, <3>1, <3>2
  <2> QED
    BY <2>4, <2>5
<1> QED
  BY <1>1, <1>2, <1>3

LEMMA SyncType ==
    ASSUME RegistersTypeOK, NEW f \in 0..1, NEW by \in Requests \cup {None},
           \/ CreateOrSyncExposure(f, by)
           \/ CreateOrSyncControl(f, by)
           \/ CreateOrSyncDetection(f, by)
           \/ CreateOrSyncReport(f, by)
           \/ CreateOrSyncIOC(f, by)
           \/ CreateOrSyncPlan(f, by)
    PROVE  record' \in Record \cup {None} /\ trail' \in Seq(Entry)
<1>1. record \in Record \cup {None} /\ trail \in Seq(Entry)
  BY DEF RegistersTypeOK
<1>2. CASE New(f, by)
  BY <1>2, NewType
<1>3. CASE record # None /\ Renewed(f, by)
  BY <1>3, RenewedType
<1>4. CASE UNCHANGED <<record, trail>>
  BY <1>1, <1>4
<1>5. CASE CreateOrSyncControl(f, by)
  BY <1>5, SyncControlType
<1>6. CASE record # None /\ CreateOrSyncPlan(f, by)
  BY <1>1, <1>6 DEF CreateOrSyncPlan, Record
<1>7. CASE record # None /\ record' = [record EXCEPT !.facts = f] /\ UNCHANGED trail
  BY <1>1, <1>7 DEF Record
<1> QED
  BY <1>2, <1>3, <1>4, <1>5, <1>6, <1>7
     DEF CreateOrSyncExposure, CreateOrSyncDetection, CreateOrSyncReport, CreateOrSyncIOC,
     CreateOrSyncPlan

\* What a step of a request or a pass does with the session and the links.
LEMMA GoesType ==
    ASSUME RegistersTypeOK, NEW r \in Requests, NEW pc \in PCs, Goes(r, pc)
    PROVE  session' \in [Requests -> Session]
BY DEF RegistersTypeOK, Goes, Session

LEMMA CorrelatedType ==
    ASSUME RegistersTypeOK, Correlated
    PROVE  links' \in [Neighbours -> Nat]
BY DEF RegistersTypeOK, Correlated

LEMMA CorrelateControlType ==
    ASSUME RegistersTypeOK, NEW r \in Requests, CorrelateControl(r)
    PROVE  links' \in [Neighbours -> Nat] /\ session' \in [Requests -> Session]
<1>1. CASE Goes(r, "broken") /\ UNCHANGED links
  BY <1>1, GoesType DEF PCs, RegistersTypeOK
<1>2. CASE Goes(r, "judged") /\ Correlated
  BY <1>2, GoesType, CorrelatedType DEF PCs
<1> QED
  BY <1>1, <1>2 DEF CorrelateControl

LEMMA MovedType ==
    ASSUME RegistersTypeOK, NEW r \in Requests, NEW st \in Statuses, record # None, Moved(r, st)
    PROVE  /\ record' \in Record \cup {None} /\ trail' \in Seq(Entry)
           /\ session' \in [Requests -> Session]
<1>1. Event("MOVED", st, r) \in Entry
  BY EventType
<1>2. record' \in Record
  BY DEF Moved, RegistersTypeOK, Record
<1>4. trail' \in Seq(Entry)
  BY <1>1 DEF Moved, RegistersTypeOK
<1>3. session' \in [Requests -> Session]
  BY GoesType DEF Moved, PCs
<1> QED
  BY <1>2, <1>3, <1>4

LEMMA UnmovedType ==
    ASSUME RegistersTypeOK, NEW r \in Requests, NEW pc \in PCs, Unmoved(r, pc)
    PROVE  /\ record' \in Record \cup {None} /\ trail' \in Seq(Entry)
           /\ session' \in [Requests -> Session]
BY GoesType DEF Unmoved, RegistersTypeOK
\* A validation that is counted: what it makes of record, history and session.
LEMMA DriftType ==
    ASSUME NEW log \in Seq(Entry), NEW st \in Statuses, NEW old, NEW r \in Requests
    PROVE  Drift(old, st, log, r) \in Seq(Entry)
<1>1. Event("DRIFT_DETECTED", st, r) \in Entry
  BY EventType
<1> QED
  BY <1>1 DEF Drift

LEMMA JudgedType ==
    ASSUME RegistersTypeOK, NEW r \in Requests, ExecuteValidation(r), record # None
    PROVE  RegistersTypeOK'
<1> DEFINE s == session[r]
           vs == Append(validations, [outcome |-> s.outcome, technique |-> s.technique, by |-> r])
           score == Effectiveness(vs)
           st == Band(score)
           log == Append(trail, Event("VALIDATED", None, r))
<1>1. CASE record.status = "RETIRED"
  <2>1. session' \in [Requests -> Session]
    BY <1>1, GoesType DEF ExecuteValidation, Judged, PCs
  <2> QED
    BY <1>1, <2>1 DEF ExecuteValidation, Judged, OnlySession, RegistersTypeOK
<1>2. CASE record.status # "RETIRED"
  <2>1. validations \in Seq(Validation)
        /\ [outcome |-> s.outcome, technique |-> s.technique, by |-> r] \in Validation
    BY DEF RegistersTypeOK, Session, Validation
  <2>2. vs \in Seq(Validation)
    BY <2>1
  <2>3. score \in Int
    BY <2>2, EffectivenessType
  <2>4. st \in Statuses
    BY <2>3, BandType DEF Statuses
  <2>5. log \in Seq(Entry)
    <3>1. trail \in Seq(Entry)
      BY DEF RegistersTypeOK
    <3>2. Event("VALIDATED", None, r) \in Entry
      BY EventType
    <3> QED
      BY <3>1, <3>2
  <2> HIDE DEF vs, score, st, log
  <2>6. /\ validations' = vs
        /\ record' = [record EXCEPT !.status = st, !.score = score]
        /\ IF s.outcome = "FAILED"
           THEN /\ trail' = log
                /\ session' = [session EXCEPT ![r].pc = "emit", ![r].old = record.status]
                /\ UNCHANGED links
           ELSE trail' = Drift(record.status, st, log, r) /\ CorrelateControl(r)
        /\ UNCHANGED <<kind, place, around, pass, passes, troubles>>
    BY <1>2 DEF ExecuteValidation, Judged, vs, score, st, log
  <2>7. record' \in Record \cup {None} /\ record.status \in Statuses
    BY <2>3, <2>4, <2>6 DEF RegistersTypeOK, Record
  <2>8. CASE s.outcome = "FAILED"
    <3>1. session' \in [Requests -> Session]
      <4>1. session \in [Requests -> Session]
        BY DEF RegistersTypeOK
      <4>2. session' = [session EXCEPT ![r].pc = "emit", ![r].old = record.status]
        BY <2>6, <2>8
      <4> QED
        BY <2>7, <4>1, <4>2 DEF Session, PCs
    <3> QED
      BY <2>2, <2>5, <2>6, <2>7, <2>8, <3>1 DEF RegistersTypeOK
  <2>9. CASE s.outcome # "FAILED"
    <3>1. trail' \in Seq(Entry)
      BY <2>4, <2>5, <2>6, <2>9, DriftType
    <3>2. links' \in [Neighbours -> Nat] /\ session' \in [Requests -> Session]
      BY <2>6, <2>9, CorrelateControlType
    <3> QED
      BY <2>2, <2>6, <2>7, <3>1, <3>2 DEF RegistersTypeOK
  <2> QED
    BY <2>8, <2>9
<1> QED
  BY <1>1, <1>2
-----------------------------------------------------------------------------
(* What the other theorems rest on: nothing is known of a record that is    *)
(* not there, a request beyond its look-up has found one, a history begins  *)
(* with a status, and a control's score and status are those of its         *)
(* validations.                                                             *)

Present ==
    /\ record = None => validations = <<>> /\ trail = <<>>
    /\ \A r \in Requests : session[r].pc \in {"move", "judge", "emit"} => record # None

\* The history tells the status, or what it was before a validation that still
\* waits for its event, or for ever if that event was refused.
Behind ==
    record # None =>
        \/ Tells(trail, record.status)
        \/ \E r \in Requests : At(r, "emit") /\ Tells(trail, session[r].old)
        \/ \E r \in Requests : At(r, "refused") /\ \E st \in Statuses : Tells(trail, st)

RegistersInv == RegistersTypeOK /\ Present /\ StatusTellsValidations /\ Behind

LEMMA InitialInv == RegistersInit => RegistersInv
<1> SUFFICES ASSUME RegistersInit PROVE RegistersInv
  OBVIOUS
<1>1. RegistersTypeOK
  BY InitialType
<1>2. Present
  BY DEF RegistersInit, Present, Idle
<1>3. record # None => record.score = StandingScore /\ record.status \in Standing
  BY DEF RegistersInit
<1>4. StatusTellsValidations
  <2> SUFFICES ASSUME kind = "control", record # None, record.status # "RETIRED"
               PROVE  record.score = Effectiveness(validations) /\ record.status = Band(record.score)
    BY DEF StatusTellsValidations
  <2>1. record.score = Effectiveness(validations)
    BY <1>3 DEF StandingScore
  <2>2. CASE place = "worker"
    <3>1. record.status = "ACTIVE"
      <4>1. FirstStatus = "ACTIVE"
        BY DEF FirstStatus
      <4>2. record.status \in {FirstStatus}
        BY <1>3, <2>2 DEF Standing
      <4> QED
        BY <4>1, <4>2
    <3>2. validations = <<>>
      BY <2>2 DEF RegistersInit
    <3> QED
      BY <2>1, <3>1, <3>2, NewControl
  <2>3. CASE place # "worker"
    BY <1>3, <2>1, <2>3 DEF Standing, StandingScore
  <2> QED
    BY <2>1, <2>2, <2>3
<1>5. Behind
  <2> SUFFICES ASSUME record # None PROVE Tells(trail, record.status)
    BY DEF Behind
  <2>1. trail = <<[event |-> "CREATED", to |-> record.status, by |-> None]>>
    BY DEF RegistersInit
  <2>2. record.status # None
    BY <1>1, NoneAssumption DEF RegistersTypeOK, Record
  <2>3. Telling(trail) = {1}
    BY <2>1, <2>2 DEF Telling
  <2> QED
    BY <2>1, <2>3 DEF Tells, IsLastTold
<1> QED
  BY <1>1, <1>2, <1>4, <1>5 DEF RegistersInv

\* Appending to a history.
LEMMA TellsAppended ==
    ASSUME NEW log \in Seq(Entry), NEW e \in Entry, e.to # None
    PROVE  Tells(Append(log, e), e.to)
<1>1. Len(log) \in Nat /\ DOMAIN Append(log, e) = 1..(Len(log) + 1)
  OBVIOUS
<1>2. Append(log, e)[Len(log) + 1] = e
  OBVIOUS
<1>3. IsLastTold(Append(log, e), Len(log) + 1)
  BY <1>1, <1>2 DEF IsLastTold, Telling
<1> QED
  BY <1>1, <1>2, <1>3 DEF Tells

LEMMA TellsStill ==
    ASSUME NEW log \in Seq(Entry), NEW e \in Entry, e.to = None, NEW st, Tells(log, st)
    PROVE  Tells(Append(log, e), st)
<1>1. PICK i \in DOMAIN log : IsLastTold(log, i) /\ log[i].to = st
  BY DEF Tells
<1>2. Telling(Append(log, e)) = Telling(log)
  BY DEF Telling
<1>3. i \in DOMAIN Append(log, e) /\ Append(log, e)[i] = log[i]
  OBVIOUS
<1> QED
  BY <1>1, <1>2, <1>3 DEF Tells, IsLastTold
-----------------------------------------------------------------------------
(* Records that are created or brought up to date keep the invariant.       *)

Registered(f, by) ==
    \/ kind = "exposure" /\ CreateOrSyncExposure(f, by)
    \/ kind = "control" /\ CreateOrSyncControl(f, by)
    \/ kind = "detection" /\ CreateOrSyncDetection(f, by)
    \/ kind = "report" /\ CreateOrSyncReport(f, by)
    \/ kind = "ioc" /\ CreateOrSyncIOC(f, by)
    \/ kind = "plan" /\ CreateOrSyncPlan(f, by)

\* What they have in common: the record is new; or its status stays, and the
\* history gets at most an entry without a status.
LEMMA RegisteredCases ==
    ASSUME RegistersInv, NEW f \in 0..1, NEW by \in Requests \cup {None}, Registered(f, by)
    PROVE  \/ record = None /\ New(f, by)
           \/ /\ record # None
              /\ record' # None
              /\ record'.status = record.status
              /\ \/ trail' = trail
                 \/ \E e \in Entry : e.to = None /\ trail' = Append(trail, e)
<1>1. CASE record = None
  BY <1>1 DEF Registered, CreateOrSyncExposure, CreateOrSyncControl, CreateOrSyncDetection,
     CreateOrSyncReport, CreateOrSyncIOC, CreateOrSyncPlan
<1>2. CASE record # None
  <2>1. record \in Record
    BY <1>2 DEF RegistersInv, RegistersTypeOK
  <2>2. record' \in Record \cup {None}
    BY SyncType DEF Registered, RegistersInv
  <2>3. Event("CHANGED", None, by) \in Entry /\ Event("DRIFT_DETECTED", None, by) \in Entry
        /\ Event("CHANGED", None, by).to = None /\ Event("DRIFT_DETECTED", None, by).to = None
    BY EventType DEF Event
  <2>4. CASE UNCHANGED <<record, trail>>
    BY <1>2, <2>4
  <2>5. CASE Renewed(f, by)
    <3>1. record' = [record EXCEPT !.facts = f]
      BY <2>5 DEF Renewed
    <3>2. record' \in Record /\ record'.status = record.status
      BY <2>1, <3>1 DEF Record
    <3>3. trail' = trail \/ trail' = Append(trail, Event("CHANGED", None, by))
      BY <2>5 DEF Renewed
    <3> QED
      BY <1>2, <2>3, <3>2, <3>3, NoneAssumption
  <2>6. CASE CreateOrSyncControl(f, by) /\ record.status # "RETIRED"
    <3>1. record' = [record EXCEPT !.facts = f, !.score = Effectiveness(validations)]
      BY <1>2, <2>6 DEF CreateOrSyncControl
    <3>2. Effectiveness(validations) \in Int
      BY EffectivenessType DEF RegistersInv, RegistersTypeOK
    <3>3. record' \in Record /\ record'.status = record.status
      BY <2>1, <3>1, <3>2 DEF Record
    <3>4. trail' = trail \/ trail' = Append(trail, Event("DRIFT_DETECTED", None, by))
      BY <1>2, <2>6 DEF CreateOrSyncControl
    <3> QED
      BY <1>2, <2>3, <3>3, <3>4, NoneAssumption
  <2>7. CASE CreateOrSyncPlan(f, by)
    <3>1. record' = record \/ record' = [record EXCEPT !.facts = f]
      BY <1>2, <2>7 DEF CreateOrSyncPlan
    <3>2. record' \in Record /\ record'.status = record.status
      BY <2>1, <3>1 DEF Record
    <3> QED
      BY <1>2, <2>7, <3>2, NoneAssumption DEF CreateOrSyncPlan
  <2>8. CASE record' = [record EXCEPT !.facts = f] /\ UNCHANGED trail
    <3>1. record' \in Record /\ record'.status = record.status
      BY <2>1, <2>8 DEF Record
    <3> QED
      BY <1>2, <2>8, <3>1, NoneAssumption
  <2> QED
    BY <1>2, <2>4, <2>5, <2>6, <2>7, <2>8 DEF Registered, CreateOrSyncExposure,
       CreateOrSyncControl,
       CreateOrSyncDetection, CreateOrSyncReport, CreateOrSyncIOC, CreateOrSyncPlan
<1> QED
  BY <1>1, <1>2

\* Sessions may go on, but nobody leaves the wait for an event.
Waiting == {r \in Requests : session[r].pc \in {"emit", "refused"}}
WaitersStay ==
    \A r \in Waiting : session'[r].pc = session[r].pc /\ session'[r].old = session[r].old

LEMMA RegisteredInv ==
    ASSUME RegistersInv, NEW f \in 0..1, NEW by \in Requests \cup {None}, Registered(f, by),
           UNCHANGED <<kind, validations>>, RegistersTypeOK', WaitersStay,
           \A r \in Requests : session'[r].pc \in {"move", "judge", "emit"}
                               => session'[r].pc = session[r].pc
    PROVE  RegistersInv'
<1>1. record' # None
  <2>1. CASE record = None /\ New(f, by)
    <3>1. FirstStatus \in Statuses /\ FirstScore \in Int
      BY FirstTypes DEF RegistersInv, RegistersTypeOK
    <3>2. record' \in Record
      BY <2>1, <3>1 DEF New, Record
    <3> QED
      BY <3>2, NoneAssumption
  <2> QED
    BY <2>1, RegisteredCases
<1>2. Present'
  BY <1>1 DEF Present
<1>3. StatusTellsValidations'
  <2> SUFFICES ASSUME kind = "control", record'.status # "RETIRED"
               PROVE  record'.score = Effectiveness(validations) /\ record'.status = Band(record'.score)
    BY DEF StatusTellsValidations, Effectiveness, ValidationScore, CoverageScore
  <2>1. CreateOrSyncControl(f, by)
    BY DEF Registered
  <2>2. CASE record = None
    <3>1. validations = <<>>
      BY <2>2 DEF RegistersInv, Present
    <3>2. record' = [status |-> "ACTIVE", facts |-> f, score |-> 10000]
      BY <2>1, <2>2 DEF CreateOrSyncControl, New, FirstStatus, FirstScore
    <3> QED
      BY <3>1, <3>2, NewControl
  <2>3. CASE record # None
    <3>1. record \in Record
      BY <2>3 DEF RegistersInv, RegistersTypeOK
    <3>2. record.status # "RETIRED"
      BY <2>1, <2>3 DEF CreateOrSyncControl
    <3>3. record' = [record EXCEPT !.facts = f, !.score = Effectiveness(validations)]
      BY <2>1, <2>3, <3>2 DEF CreateOrSyncControl
    <3>4. record.score = Effectiveness(validations) /\ record.status = Band(record.score)
      BY <2>3, <3>2 DEF RegistersInv, StatusTellsValidations
    <3> QED
      BY <3>1, <3>3, <3>4 DEF Record
  <2> QED
    BY <2>2, <2>3
<1>4. Behind'
  <2>1. trail \in Seq(Entry)
    BY DEF RegistersInv, RegistersTypeOK
  <2>2. CASE record = None /\ New(f, by)
    <3>1. FirstStatus \in Statuses
      BY FirstTypes DEF RegistersInv, RegistersTypeOK
    <3>2. Event("CREATED", FirstStatus, by) \in Entry
          /\ Event("CREATED", FirstStatus, by).to = FirstStatus
      BY <3>1, EventType DEF Event
    <3>3. Tells(trail', FirstStatus)
      BY <2>1, <2>2, <3>1, <3>2, TellsAppended, NoneAssumption DEF New
    <3>4. record'.status = FirstStatus
      BY <2>2 DEF New
    <3> QED
      BY <3>3, <3>4 DEF Behind
  <2>3. CASE /\ record # None
             /\ record'.status = record.status
             /\ \/ trail' = trail
                \/ \E e \in Entry : e.to = None /\ trail' = Append(trail, e)
    <3>1. \A st : Tells(trail, st) => Tells(trail', st)
      BY <2>1, <2>3, TellsStill
    <3>2. CASE Tells(trail, record.status)
      BY <2>3, <3>1, <3>2 DEF Behind
    <3>3. CASE \E r \in Requests : At(r, "emit") /\ Tells(trail, session[r].old)
      <4>1. PICK r \in Requests : At(r, "emit") /\ Tells(trail, session[r].old)
        BY <3>3
      <4>2. At(r, "emit")' /\ session'[r].old = session[r].old
        BY <4>1 DEF WaitersStay, Waiting, At
      <4>3. Tells(trail', session'[r].old)
        BY <3>1, <4>1, <4>2
      <4> QED
        BY <4>2, <4>3 DEF Behind
    <3>4. CASE \E r \in Requests : At(r, "refused") /\ \E st \in Statuses : Tells(trail, st)
      <4>1. PICK r \in Requests : At(r, "refused") /\ \E st \in Statuses : Tells(trail, st)
        BY <3>4
      <4>2. At(r, "refused")'
        BY <4>1 DEF WaitersStay, Waiting, At
      <4> QED
        BY <3>1, <4>1, <4>2 DEF Behind
    <3> QED
      BY <2>3, <3>2, <3>3, <3>4 DEF RegistersInv, Behind
  <2> QED
    BY <2>2, <2>3, RegisteredCases
<1> QED
  BY <1>2, <1>3, <1>4 DEF RegistersInv
-----------------------------------------------------------------------------
(* Steps that leave record, history and validations alone.                  *)

LEMMA OthersInv ==
    ASSUME RegistersInv, RegistersTypeOK', UNCHANGED <<kind, record, trail, validations>>,
           WaitersStay \/ (\E r \in Requests : /\ At(r, "emit") /\ session'[r].pc = "refused"
                                              /\ \A x \in Requests \ {r} : session'[x] = session[x]),
           \A r \in Requests : session'[r].pc \in {"move", "judge", "emit"} => record # None
    PROVE  RegistersInv'
<1>1. Present'
  BY DEF Present, RegistersInv
<1>2. StatusTellsValidations'
  BY DEF StatusTellsValidations, RegistersInv, Effectiveness, ValidationScore, CoverageScore
<1>3. Behind'
  <2> SUFFICES ASSUME record # None
               PROVE  \/ Tells(trail, record.status)
                      \/ \E r \in Requests : session'[r].pc = "emit" /\ Tells(trail, session'[r].old)
                      \/ \E r \in Requests : /\ session'[r].pc = "refused"
                                           /\ \E st \in Statuses : Tells(trail, st)
    BY DEF Behind, At
  <2>1. record.status \in Statuses /\ \A r \in Requests : session[r].old \in Statuses
    BY DEF RegistersInv, RegistersTypeOK, Record, Session
  <2>2. CASE Tells(trail, record.status)
    BY <2>2
  <2>3. CASE \E r \in Requests : At(r, "emit") /\ Tells(trail, session[r].old)
    <3>1. PICK r \in Requests : At(r, "emit") /\ Tells(trail, session[r].old)
      BY <2>3
    <3>2. CASE WaitersStay
      BY <3>1, <3>2 DEF WaitersStay, Waiting, At
    <3>3. CASE \E x \in Requests : /\ At(x, "emit") /\ session'[x].pc = "refused"
                                  /\ \A y \in Requests \ {x} : session'[y] = session[y]
      BY <2>1, <3>1, <3>3 DEF At
    <3> QED
      BY <3>2, <3>3
  <2>4. CASE \E r \in Requests : At(r, "refused") /\ \E st \in Statuses : Tells(trail, st)
    BY <2>4 DEF WaitersStay, Waiting, At
  <2> QED
    BY <2>2, <2>3, <2>4 DEF RegistersInv, Behind
<1> QED
  BY <1>1, <1>2, <1>3 DEF RegistersInv

LEMMA BeginsInv ==
    ASSUME RegistersInv, NEW r \in Requests,
           BeginCreate(r) \/ BeginMove(r) \/ BeginJudge(r) \/ Refuse(r) \/ EmitFails(r)
    PROVE  RegistersInv'
<1> USE DEF RegistersInv
<1>0. session \in [Requests -> Session]
  BY DEF RegistersTypeOK
<1>1. /\ session' \in [Requests -> Session]
      /\ \A x \in Requests \ {r} : session'[x] = session[x]
      /\ session'[r].pc \in {"move", "judge", "emit"} => record # None
  <2>1. CASE BeginCreate(r)
    <3>1. PICK f \in 0..1 : session' = [session EXCEPT ![r] = [Idle EXCEPT !.pc = "create", !.facts = f]]
      BY <2>1 DEF BeginCreate
    <3>2. [Idle EXCEPT !.pc = "create", !.facts = f] \in Session
          /\ [Idle EXCEPT !.pc = "create", !.facts = f].pc = "create"
      BY IdleType DEF Session, PCs
    <3> QED
      BY <1>0, <3>1, <3>2
  <2>2. CASE BeginMove(r)
    <3>1. PICK st \in StatusesOf(kind) :
              session' = [session EXCEPT ![r] = [Idle EXCEPT !.pc = "move", !.to = st]]
      BY <2>2 DEF BeginMove
    <3>2. st \in Statuses
      BY StatusTypes DEF RegistersTypeOK
    <3>3. [Idle EXCEPT !.pc = "move", !.to = st] \in Session
      BY <3>2, IdleType DEF Session, PCs
    <3> QED
      BY <1>0, <2>2, <3>1, <3>3 DEF BeginMove
  <2>3. CASE BeginJudge(r)
    <3>1. PICK o \in Outcomes, t \in Techniques : session' =
              [session EXCEPT ![r] = [Idle EXCEPT !.pc = "judge", !.outcome = o, !.technique = t]]
      BY <2>3 DEF BeginJudge
    <3>2. [Idle EXCEPT !.pc = "judge", !.outcome = o, !.technique = t] \in Session
      BY IdleType DEF Session, PCs
    <3> QED
      BY <1>0, <2>3, <3>1, <3>2 DEF BeginJudge
  <2>4. CASE Refuse(r)
    <3>1. session' = [session EXCEPT ![r].pc = "rejected"]
      BY <2>4 DEF Refuse, Goes
    <3> QED
      BY <1>0, <3>1 DEF Session, PCs
  <2>5. CASE EmitFails(r)
    <3>1. session' = [session EXCEPT ![r].pc = "refused"]
      BY <2>5 DEF EmitFails, Goes
    <3> QED
      BY <1>0, <3>1 DEF Session, PCs
  <2> QED
    BY <2>1, <2>2, <2>3, <2>4, <2>5
<1>2. troubles' \in 0..MaxTroubles
  <2>1. troubles \in 0..MaxTroubles /\ MaxTroubles \in Nat
    BY RegistersAssumption DEF RegistersTypeOK
  <2>2. troubles' = troubles \/ (troubles < MaxTroubles /\ troubles' = troubles + 1)
    BY DEF BeginCreate, BeginMove, BeginJudge, Refuse, EmitFails, OnlySession
  <2> QED
    BY <2>1, <2>2
<1>3. UNCHANGED <<kind, place, record, trail, validations, around, links, pass, passes>>
  BY DEF BeginCreate, BeginMove, BeginJudge, Refuse, EmitFails, OnlySession
<1>4. RegistersTypeOK'
  BY <1>1, <1>2, <1>3 DEF RegistersTypeOK
<1>7. CASE EmitFails(r)
  <2>1. At(r, "emit") /\ session'[r].pc = "refused"
    BY <1>0, <1>7 DEF EmitFails, Goes, Session
  <2>2. \A x \in Requests : session'[x].pc \in {"move", "judge", "emit"} => record # None
    BY <1>1 DEF Present
  <2> QED
    BY <1>1, <1>3, <1>4, <2>1, <2>2, OthersInv
<1>8. CASE ~EmitFails(r)
  <2>1. session[r].pc \notin {"emit", "refused"}
    BY <1>8 DEF BeginCreate, BeginMove, BeginJudge, Refuse, At
  <2>2. WaitersStay
    BY <1>1, <2>1 DEF WaitersStay, Waiting
  <2>3. \A x \in Requests : session'[x].pc \in {"move", "judge", "emit"} => record # None
    BY <1>1 DEF Present
  <2> QED
    BY <1>3, <1>4, <2>2, <2>3, OthersInv
<1> QED
  BY <1>7, <1>8

LEMMA PassesInv ==
    ASSUME RegistersInv,
           \/ BeginSyncExposures \/ CorrelateExposure \/ PassFails
           \/ \E e \in Neighbours : Appears(e)
    PROVE  RegistersInv'
<1> USE DEF RegistersInv
<1>1. UNCHANGED <<kind, place, record, trail, validations, session>>
  BY DEF BeginSyncExposures, CorrelateExposure, PassFails, Appears
<1>2. pass' \in [pc: {"idle", "sync", "link"}, facts: 0..1]
  BY DEF BeginSyncExposures, CorrelateExposure, PassFails, Appears, RegistersTypeOK
<1>3. passes' \in 0..MaxPasses /\ troubles' \in 0..MaxTroubles
  BY RegistersAssumption DEF BeginSyncExposures, BeginPass, CorrelateExposure, PassFails,
     Appears,
     RegistersTypeOK
<1>4. links' \in [Neighbours -> Nat]
  BY CorrelatedType DEF BeginSyncExposures, CorrelateExposure, PassFails, Appears,
     RegistersTypeOK
<1>5. around' \subseteq Neighbours
  BY DEF BeginSyncExposures, CorrelateExposure, PassFails, Appears, RegistersTypeOK
<1>6. RegistersTypeOK'
  BY <1>1, <1>2, <1>3, <1>4, <1>5 DEF RegistersTypeOK
<1>7. WaitersStay
  BY <1>1 DEF WaitersStay
<1> QED
  BY <1>1, <1>6, <1>7, OthersInv DEF Present
-----------------------------------------------------------------------------
(* Steps that change the record.                                            *)

LEMMA CreatesInv ==
    ASSUME RegistersInv, NEW r \in Requests,
           \/ CreateExposure(r) \/ CreateControl(r) \/ CreateDetection(r)
           \/ CreateReport(r) \/ CreateIOC(r) \/ CreatePlan(r)
    PROVE  RegistersInv'
<1> USE DEF RegistersInv
<1>0. session[r].facts \in 0..1
  BY DEF RegistersTypeOK, Session
<1>a. At(r, "create") /\ Goes(r, "done") /\ OnlyRecord
  BY DEF CreateExposure, CreateControl, CreateDetection, CreateReport, CreateIOC, CreatePlan,
     Creates
<1>b. Registered(session[r].facts, r) \/ Registered(0, r)
  BY DEF CreateExposure, CreateControl, CreateDetection, CreateReport, CreateIOC, CreatePlan,
     Creates, Registered
<1>1. PICK f \in 0..1 : Registered(f, r) /\ r \in Requests \cup {None}
  BY <1>0, <1>b
<1>2. Registered(f, r) /\ At(r, "create") /\ Goes(r, "done") /\ OnlyRecord
  BY <1>1, <1>a
<1>3. record' \in Record \cup {None} /\ trail' \in Seq(Entry)
  BY <1>1, <1>2, SyncType DEF Registered
<1>4. session' \in [Requests -> Session]
  BY <1>2, GoesType DEF PCs
<1>5. RegistersTypeOK'
  BY <1>2, <1>3, <1>4 DEF OnlyRecord, RegistersTypeOK
<1>6. session' = [session EXCEPT ![r].pc = "done"] /\ session \in [Requests -> Session]
  BY <1>2 DEF Goes, RegistersTypeOK
<1>7. session'[r].pc = "done" /\ \A x \in Requests \ {r} : session'[x] = session[x]
  BY <1>6 DEF Session
<1>8. WaitersStay
  BY <1>2, <1>7 DEF WaitersStay, Waiting, At
<1>9. \A x \in Requests : session'[x].pc \in {"move", "judge", "emit"}
                           => session'[x].pc = session[x].pc
  BY <1>7
<1>10. UNCHANGED <<kind, validations>>
  BY <1>2 DEF OnlyRecord
<1> QED
  BY <1>1, <1>2, <1>5, <1>8, <1>9, <1>10, RegisteredInv

LEMMA SyncsInv ==
    ASSUME RegistersInv, SyncExposures \/ SyncControls \/ SyncReports \/ SyncPlans,
           kind = "exposure" \/ ~SyncExposures
    PROVE  RegistersInv'
<1> USE DEF RegistersInv
<1>1. PICK f \in 0..1 : Registered(f, None)
  <2>1. pass.facts \in 0..1
    BY DEF RegistersTypeOK
  <2> QED
    BY <2>1 DEF SyncExposures, SyncControls, SyncReports, SyncPlans, Registered
<1>2. record' \in Record \cup {None} /\ trail' \in Seq(Entry)
  BY <1>1, SyncType DEF Registered
<1>3. UNCHANGED <<kind, place, validations, around, session, troubles>>
  BY DEF SyncExposures, SyncControls, SyncReports, SyncPlans
<1>4. links' \in [Neighbours -> Nat]
  BY CorrelatedType DEF SyncExposures, SyncControls, SyncReports, SyncPlans, RegistersTypeOK
<1>5. pass' \in [pc: {"idle", "sync", "link"}, facts: 0..1]
  BY DEF SyncExposures, SyncControls, SyncReports, SyncPlans, RegistersTypeOK
<1>6. passes' \in 0..MaxPasses
  <2>1. passes \in 0..MaxPasses /\ MaxPasses \in Nat
    BY RegistersAssumption DEF RegistersTypeOK
  <2>2. passes' = passes \/ (passes < MaxPasses /\ passes' = passes + 1)
    BY DEF SyncExposures, SyncControls, SyncReports, SyncPlans, BeginPass
  <2> QED
    BY <2>1, <2>2
<1>7. RegistersTypeOK'
  BY <1>2, <1>3, <1>4, <1>5, <1>6 DEF RegistersTypeOK
<1>8. WaitersStay
  BY <1>3 DEF WaitersStay
<1> QED
  BY <1>1, <1>3, <1>7, <1>8, RegisteredInv

\* Every change of status tells it, and leaves the validations of a control
\* alone only if it retires it.
MovesRecord(r, st) ==
    /\ record # None
    /\ At(r, "move")
    /\ st \in Statuses
    /\ kind = "control" => st = "RETIRED"
    /\ Moved(r, st)
    /\ OnlyRecord

LEMMA MovesCases ==
    ASSUME RegistersInv, NEW r \in Requests,
           \/ ValidateExposure(r) \/ AcceptExposure(r) \/ MitigateExposure(r) \/ CloseExposure(r)
           \/ RetireControl(r) \/ DisableDetection(r) \/ DeprecateDetection(r)
           \/ ExpireIOC(r) \/ RevokeIOC(r) \/ TransitionReportStatus(r) \/ ApprovePlan(r)
           \/ ActivatePlan(r) \/ ClosePlan(r)
    PROVE  \/ MovesRecord(r, session[r].to)
           \/ /\ record # None /\ At(r, "move")
              /\ Unmoved(r, "done") \/ Unmoved(r, "rejected")
              /\ OnlyRecord
<1>1. session[r].to \in Statuses
  BY DEF RegistersInv, RegistersTypeOK, Session
<1>2. At(r, "move") => record # None
  BY DEF RegistersInv, Present, At
<1> QED
  BY <1>1, <1>2 DEF MovesRecord, ValidateExposure, AcceptExposure, MitigateExposure,
     CloseExposure,
     MoveExposure, Moves, RetireControl, DisableDetection, DeprecateDetection, ExpireIOC,
     RevokeIOC,
     MoveOnce, TransitionReportStatus, ApprovePlan, ActivatePlan, ClosePlan, MovePlan

LEMMA MovesInv ==
    ASSUME RegistersInv, NEW r \in Requests,
           \/ ValidateExposure(r) \/ AcceptExposure(r) \/ MitigateExposure(r) \/ CloseExposure(r)
           \/ RetireControl(r) \/ DisableDetection(r) \/ DeprecateDetection(r)
           \/ ExpireIOC(r) \/ RevokeIOC(r) \/ TransitionReportStatus(r) \/ ApprovePlan(r)
           \/ ActivatePlan(r) \/ ClosePlan(r)
    PROVE  RegistersInv'
<1> USE DEF RegistersInv
<1> DEFINE st == session[r].to
<1>0. session \in [Requests -> Session]
  BY DEF RegistersTypeOK
<1>1. CASE MovesRecord(r, st)
  <2>1. record' \in Record \cup {None} /\ trail' \in Seq(Entry) /\ session' \in [Requests -> Session]
    BY <1>1, MovedType DEF MovesRecord
  <2>2. RegistersTypeOK'
    BY <1>1, <2>1 DEF MovesRecord, OnlyRecord, RegistersTypeOK
  <2>3. record' # None /\ record'.status = st
    <3>1. record \in Record
      BY <1>1 DEF MovesRecord, RegistersTypeOK
    <3>2. record' = [record EXCEPT !.status = st] /\ st \in Statuses
      BY <1>1 DEF MovesRecord, Moved
    <3>3. record' \in Record /\ record'.status = st
      BY <3>1, <3>2 DEF Record
    <3> QED
      BY <3>3, NoneAssumption
  <2>4. Present'
    BY <2>3 DEF Present
  <2>5. StatusTellsValidations'
    BY <1>1, <2>3 DEF StatusTellsValidations, MovesRecord, OnlyRecord
  <2>6. Tells(trail', st)
    <3>1. Event("MOVED", st, r) \in Entry /\ Event("MOVED", st, r).to = st /\ st # None
      BY <1>1, EventType, NoneAssumption DEF Event, MovesRecord
    <3>2. trail' = Append(trail, Event("MOVED", st, r)) /\ trail \in Seq(Entry)
      BY <1>1 DEF MovesRecord, Moved, RegistersTypeOK
    <3> QED
      BY <3>1, <3>2, TellsAppended
  <2> QED
    BY <2>2, <2>3, <2>4, <2>5, <2>6 DEF Behind
<1>2. CASE /\ record # None /\ At(r, "move")
           /\ Unmoved(r, "done") \/ Unmoved(r, "rejected")
           /\ OnlyRecord
  <2>1. session' \in [Requests -> Session]
    BY <1>2, UnmovedType DEF PCs
  <2>2. RegistersTypeOK'
    BY <1>2, <2>1 DEF Unmoved, OnlyRecord, RegistersTypeOK
  <2>3. session' \in {[session EXCEPT ![r].pc = "done"], [session EXCEPT ![r].pc = "rejected"]}
    BY <1>2 DEF Unmoved, Goes
  <2>4. /\ session'[r].pc \in {"done", "rejected"}
        /\ \A x \in Requests \ {r} : session'[x] = session[x]
    BY <1>0, <2>3 DEF Session
  <2>5. WaitersStay
    BY <1>2, <2>4 DEF WaitersStay, Waiting, At
  <2> QED
    BY <1>2, <2>2, <2>4, <2>5, OthersInv DEF Unmoved, OnlyRecord
<1> QED
  BY <1>1, <1>2, MovesCases
-----------------------------------------------------------------------------
(* Validations.                                                             *)

LEMMA CorrelatedSession ==
    ASSUME RegistersTypeOK, NEW r \in Requests, CorrelateControl(r)
    PROVE  /\ session'[r].pc \in {"judged", "broken"}
           /\ \A x \in Requests \ {r} : session'[x] = session[x]
<1>1. session' \in {[session EXCEPT ![r].pc = "judged"], [session EXCEPT ![r].pc = "broken"]}
  BY DEF CorrelateControl, Goes
<1>2. session \in [Requests -> Session]
  BY DEF RegistersTypeOK
<1> QED
  BY <1>1, <1>2 DEF Session

\* What a validation leaves of the history's being behind.
LEMMA StillBehind ==
    ASSUME RegistersInv, NEW r \in Requests, session[r].pc \notin {"emit", "refused"}, record # None,
           \A x \in Requests \ {r} : session'[x] = session[x],
           \A st : Tells(trail, st) => Tells(trail', st),
           \/ record' # None /\ record'.status = record.status
           \/ session'[r].pc = "emit" /\ session'[r].old = record.status
    PROVE  Behind'
<1>1. CASE Tells(trail, record.status)
  BY <1>1 DEF Behind, At
<1>2. CASE \E x \in Requests : At(x, "emit") /\ Tells(trail, session[x].old)
  <2>1. PICK x \in Requests \ {r} : At(x, "emit") /\ Tells(trail, session[x].old)
    BY <1>2 DEF At
  <2>2. At(x, "emit")' /\ Tells(trail', session'[x].old)
    BY <2>1 DEF At
  <2> QED
    BY <2>1, <2>2 DEF Behind
<1>3. CASE \E x \in Requests : At(x, "refused") /\ \E st \in Statuses : Tells(trail, st)
  <2>1. PICK x \in Requests \ {r} : At(x, "refused") /\ \E st \in Statuses : Tells(trail, st)
    BY <1>3 DEF At
  <2>2. At(x, "refused")'
    BY <2>1 DEF At
  <2> QED
    BY <2>1, <2>2 DEF Behind
<1> QED
  BY <1>1, <1>2, <1>3 DEF RegistersInv, Behind

LEMMA JudgesInv ==
    ASSUME RegistersInv, NEW r \in Requests, ExecuteValidation(r)
    PROVE  RegistersInv'
<1> USE DEF RegistersInv
<1> DEFINE s == session[r]
           vs == Append(validations, [outcome |-> s.outcome, technique |-> s.technique, by |-> r])
           st == Band(Effectiveness(vs))
           e == Event("VALIDATED", None, r)
<1>0. record # None /\ record \in Record /\ At(r, "judge") /\ session \in [Requests -> Session]
  BY DEF ExecuteValidation, Judged, Present, At, RegistersTypeOK
<1>1. RegistersTypeOK'
  BY <1>0, JudgedType
<1>2. CASE record.status = "RETIRED"
  <2>1. session' = [session EXCEPT ![r].pc = "rejected"] /\ OnlySession
    BY <1>2 DEF ExecuteValidation, Judged, Goes
  <2>2. session'[r].pc = "rejected" /\ \A x \in Requests \ {r} : session'[x] = session[x]
    BY <1>0, <2>1 DEF Session
  <2>3. WaitersStay
    BY <1>0, <2>2 DEF WaitersStay, Waiting, At
  <2> QED
    BY <1>0, <1>1, <2>1, <2>2, <2>3, OthersInv DEF OnlySession
<1>3. CASE record.status # "RETIRED"
  <2>1. /\ validations' = vs
        /\ record' = [record EXCEPT !.status = st, !.score = Effectiveness(vs)]
        /\ UNCHANGED kind
    BY <1>3 DEF ExecuteValidation, Judged
  <2>2. /\ s.outcome = "FAILED" => /\ trail' = Append(trail, e)
                                   /\ session' = [session EXCEPT ![r].pc = "emit",
                                                                 ![r].old = record.status]
        /\ s.outcome # "FAILED" => /\ trail' = Drift(record.status, st, Append(trail, e), r)
                                   /\ CorrelateControl(r)
    BY <1>3 DEF ExecuteValidation, Judged
  <2>3. vs \in Seq(Validation) /\ trail \in Seq(Entry) /\ e \in Entry /\ e.to = None
    <3>1. validations \in Seq(Validation)
          /\ [outcome |-> s.outcome, technique |-> s.technique, by |-> r] \in Validation
      BY DEF RegistersTypeOK, Session, Validation
    <3>2. e \in Entry /\ e.to = None
      BY EventType DEF Event
    <3>3. trail \in Seq(Entry)
      BY DEF RegistersTypeOK
    <3> QED
      BY <3>1, <3>2, <3>3
  <2>4. Effectiveness(vs) \in Int /\ st \in Statuses
    BY <2>3, EffectivenessType, BandType DEF Statuses
  <2> HIDE DEF vs, st, e
  <2>5. record' \in Record /\ record'.status = st /\ record'.score = Effectiveness(vs)
    BY <1>0, <2>1, <2>4 DEF Record
  <2>6. record' # None
    BY <2>5, NoneAssumption
  <2>7. Present'
    BY <2>6 DEF Present
  <2>8. StatusTellsValidations'
    BY <2>1, <2>5 DEF StatusTellsValidations, st, Effectiveness, ValidationScore, CoverageScore
  <2>9. Behind'
    <3>1. \A x : Tells(trail, x) => Tells(Append(trail, e), x)
      BY <2>3, TellsStill
    <3>2. CASE s.outcome = "FAILED"
      <4>1. session'[r].pc = "emit" /\ session'[r].old = record.status
            /\ \A x \in Requests \ {r} : session'[x] = session[x]
        BY <1>0, <2>2, <3>2 DEF Session
      <4>2. session[r].pc \notin {"emit", "refused"}
        BY <1>0 DEF At
      <4>3. \A x : Tells(trail, x) => Tells(trail', x)
        BY <2>2, <3>1, <3>2
      <4> QED
        BY <1>0, <4>1, <4>2, <4>3, StillBehind
    <3>3. CASE s.outcome # "FAILED" /\ record.status = st
      <4>1. \A x \in Requests \ {r} : session'[x] = session[x]
        BY <2>2, <3>3, CorrelatedSession
      <4>2. session[r].pc \notin {"emit", "refused"}
        BY <1>0 DEF At
      <4>3. trail' = Append(trail, e)
        BY <2>2, <3>3 DEF Drift
      <4>4. \A x : Tells(trail, x) => Tells(trail', x)
        BY <3>1, <4>3
      <4> QED
        BY <1>0, <2>5, <2>6, <3>3, <4>1, <4>2, <4>4, StillBehind
    <3>4. CASE s.outcome # "FAILED" /\ record.status # st
      <4>1. trail' = Append(Append(trail, e), Event("DRIFT_DETECTED", st, r))
        BY <2>2, <3>4 DEF Drift
      <4>2. Append(trail, e) \in Seq(Entry)
        BY <2>3
      <4>3. Event("DRIFT_DETECTED", st, r) \in Entry /\ Event("DRIFT_DETECTED", st, r).to = st
            /\ st # None
        BY <2>4, EventType, NoneAssumption DEF Event
      <4>4. Tells(trail', st)
        BY <4>1, <4>2, <4>3, TellsAppended
      <4> QED
        BY <2>5, <4>4 DEF Behind
    <3> QED
      BY <3>2, <3>3, <3>4
  <2> QED
    BY <1>1, <2>7, <2>8, <2>9
<1> QED
  BY <1>2, <1>3

LEMMA FinishesInv ==
    ASSUME RegistersInv, NEW r \in Requests, FinishValidation(r)
    PROVE  RegistersInv'
<1> USE DEF RegistersInv
<1>1. /\ At(r, "emit") /\ CorrelateControl(r)
      /\ trail' = Drift(session[r].old, record.status, trail, r)
      /\ UNCHANGED <<kind, place, record, validations, around, pass, passes, troubles>>
  BY DEF FinishValidation
<1>2. /\ session'[r].pc \in {"judged", "broken"}
      /\ \A x \in Requests \ {r} : session'[x] = session[x]
  BY <1>1, CorrelatedSession
<1>3. record # None /\ record \in Record
  BY <1>1 DEF Present, At, RegistersTypeOK
<1>4. record.status \in Statuses /\ trail \in Seq(Entry)
  BY <1>3 DEF Record, RegistersTypeOK
<1>5. RegistersTypeOK'
  <2>1. trail' \in Seq(Entry)
    BY <1>1, <1>4, DriftType
  <2>2. links' \in [Neighbours -> Nat] /\ session' \in [Requests -> Session]
    BY <1>1, CorrelateControlType
  <2> QED
    BY <1>1, <2>1, <2>2 DEF RegistersTypeOK
<1>6. Present'
  BY <1>1, <1>3 DEF Present
<1>7. StatusTellsValidations'
  BY <1>1 DEF StatusTellsValidations, Effectiveness, ValidationScore, CoverageScore
<1>8. Behind'
  <2>1. CASE session[r].old # record.status
    <3>1. trail' = Append(trail, Event("DRIFT_DETECTED", record.status, r))
      BY <1>1, <2>1 DEF Drift
    <3>2. /\ Event("DRIFT_DETECTED", record.status, r) \in Entry
          /\ Event("DRIFT_DETECTED", record.status, r).to = record.status
          /\ record.status # None
      BY <1>4, EventType, NoneAssumption DEF Event
    <3>3. Tells(trail', record.status)
      BY <1>4, <3>1, <3>2, TellsAppended
    <3> QED
      BY <1>1, <3>3 DEF Behind
  <2>2. CASE session[r].old = record.status
    <3>1. trail' = trail
      BY <1>1, <2>2 DEF Drift
    <3>2. CASE Tells(trail, record.status)
      BY <1>1, <3>1, <3>2 DEF Behind
    <3>3. CASE ~Tells(trail, record.status)
              /\ \E x \in Requests : At(x, "emit") /\ Tells(trail, session[x].old)
      <4>1. PICK x \in Requests \ {r} : At(x, "emit") /\ Tells(trail, session[x].old)
        BY <2>2, <3>3
      <4>2. session'[x] = session[x] /\ At(x, "emit")'
        BY <1>2, <4>1 DEF At
      <4> QED
        BY <3>1, <4>1, <4>2 DEF Behind
    <3>4. CASE \E x \in Requests : At(x, "refused") /\ \E st \in Statuses : Tells(trail, st)
      <4>1. PICK x \in Requests : At(x, "refused") /\ \E st \in Statuses : Tells(trail, st)
        BY <3>4
      <4>2. x # r
        BY <1>1, <4>1 DEF At
      <4>3. At(x, "refused")'
        BY <1>2, <4>1, <4>2 DEF At
      <4> QED
        BY <3>1, <4>1, <4>3 DEF Behind
    <3> QED
      BY <1>3, <3>2, <3>3, <3>4 DEF Behind
  <2> QED
    BY <2>1, <2>2
<1> QED
  BY <1>5, <1>6, <1>7, <1>8

LEMMA RestartInv == RegistersInv /\ Restart => RegistersInv'
<1> SUFFICES ASSUME RegistersInv, Restart PROVE RegistersInv'
  OBVIOUS
<1>1. record' = None /\ trail' = <<>> /\ validations' = <<>>
  BY DEF Restart
<1>2. session \in [Requests -> Session]
  BY DEF RegistersInv, RegistersTypeOK
<1>3. [Idle EXCEPT !.pc = "killed"] \in Session /\ [Idle EXCEPT !.pc = "killed"].pc = "killed"
  BY IdleType DEF Session, PCs
<1>4. session' \in [Requests -> Session]
  BY <1>2, <1>3 DEF Restart
<1>5. \A r \in Requests : session'[r].pc \in {"idle", "killed"}
  BY <1>2, <1>3 DEF Restart, At
<1>6. troubles' \in 0..MaxTroubles
  BY RegistersAssumption DEF Restart, RegistersInv, RegistersTypeOK
<1>7. RegistersTypeOK'
  <2>1. links' \in [Neighbours -> Nat] /\ around' \subseteq Neighbours
    BY DEF Restart, RegistersInv, RegistersTypeOK
  <2>2. pass' \in [pc: {"idle", "sync", "link"}, facts: 0..1]
    <3>1. pass' = [pass EXCEPT !.pc = "idle"] /\ pass \in [pc: {"idle", "sync", "link"}, facts: 0..1]
      BY DEF Restart, RegistersInv, RegistersTypeOK
    <3> QED
      BY <3>1
  <2>3. UNCHANGED <<kind, place, passes>>
        /\ kind \in Kinds /\ place \in {"api", "worker"} /\ passes \in 0..MaxPasses
    BY DEF Restart, RegistersInv, RegistersTypeOK
  <2>4. record' \in Record \cup {None} /\ trail' \in Seq(Entry) /\ validations' \in Seq(Validation)
    BY <1>1
  <2> QED
    BY <1>4, <1>6, <2>1, <2>2, <2>3, <2>4 DEF RegistersTypeOK
<1>8. Present' /\ StatusTellsValidations' /\ Behind'
  BY <1>1, <1>5 DEF Present, StatusTellsValidations, Behind
<1> QED
  BY <1>7, <1>8 DEF RegistersInv

\* Requests are served by the API process.
NoRequests == place = "worker" => \A r \in Requests : At(r, "idle")

LEMMA BeginRunInv == RegistersInv /\ NoRequests /\ BeginRun => RegistersInv'
<1> SUFFICES ASSUME RegistersInv, NoRequests, BeginRun PROVE RegistersInv'
  OBVIOUS
<1>1. record' = None /\ trail' = <<>> /\ validations' = <<>> /\ place = "worker"
  BY DEF BeginRun
<1>2. \A r \in Requests : session'[r].pc = "idle"
  BY <1>1 DEF BeginRun, NoRequests, At
<1>3. RegistersTypeOK'
  <2>1. record' \in Record \cup {None} /\ trail' \in Seq(Entry) /\ validations' \in Seq(Validation)
    BY <1>1
  <2> QED
    BY <2>1 DEF BeginRun, RegistersInv, RegistersTypeOK
<1>4. Present' /\ StatusTellsValidations' /\ Behind'
  BY <1>1, <1>2 DEF Present, StatusTellsValidations, Behind
<1> QED
  BY <1>3, <1>4 DEF RegistersInv

LEMMA NoRequestsStep ==
    ASSUME RegistersInv, NoRequests, [RegistersNext]_registerVars
    PROVE  NoRequests'
<1> SUFFICES ASSUME place' = "worker" PROVE \A r \in Requests : At(r, "idle")'
  BY DEF NoRequests
<1>1. CASE UNCHANGED registerVars
  BY <1>1 DEF registerVars, NoRequests, At
<1>2. CASE \/ BeginSyncExposures \/ SyncExposures \/ CorrelateExposure \/ PassFails
           \/ SyncControls \/ SyncReports \/ BeginRun \/ SyncPlans
           \/ \E e \in Neighbours : Appears(e)
  BY <1>2 DEF BeginSyncExposures, SyncExposures, CorrelateExposure, PassFails, SyncControls,
     SyncReports, BeginRun, SyncPlans, Appears, NoRequests, At
<1>3. CASE Restart
  BY <1>3 DEF Restart, NoRequests, At
<1>4. ASSUME NEW r \in Requests,
             \/ BeginCreate(r) \/ Refuse(r)
             \/ CreateExposure(r) \/ CreateControl(r) \/ CreateDetection(r)
             \/ CreateReport(r) \/ CreateIOC(r) \/ CreatePlan(r)
             \/ BeginMove(r)
             \/ BeginJudge(r) \/ ExecuteValidation(r) \/ FinishValidation(r) \/ EmitFails(r)
      PROVE  FALSE
  <2>1. place = "worker"
    BY <1>4 DEF BeginCreate, Refuse, CreateExposure, CreateControl, CreateDetection,
       CreateReport,
       CreateIOC, CreatePlan, Creates, BeginMove, BeginJudge, ExecuteValidation, Judged,
       FinishValidation,
       EmitFails, OnlySession, OnlyRecord
  <2>2. At(r, "idle")
    BY <2>1 DEF NoRequests
  <2> QED
    BY <1>4, <2>1, <2>2 DEF BeginCreate, Refuse, CreateExposure, CreateControl, CreateDetection,
       CreateReport, CreateIOC, CreatePlan, Creates, BeginMove, BeginJudge, ExecuteValidation,
       Judged,
       FinishValidation, EmitFails, At
<1>5. ASSUME NEW r \in Requests,
             \/ ValidateExposure(r) \/ AcceptExposure(r) \/ MitigateExposure(r)
             \/ CloseExposure(r) \/ RetireControl(r) \/ DisableDetection(r)
             \/ DeprecateDetection(r) \/ ExpireIOC(r) \/ RevokeIOC(r)
             \/ TransitionReportStatus(r) \/ ApprovePlan(r)
             \/ ActivatePlan(r) \/ ClosePlan(r)
      PROVE  FALSE
  <2>1. At(r, "move") /\ UNCHANGED place
    BY <1>5, MovesCases DEF MovesRecord, OnlyRecord, RegistersInv, Present, At
  <2> QED
    BY <2>1 DEF NoRequests, At
<1> QED
  BY <1>1, <1>2, <1>3, <1>4, <1>5 DEF RegistersNext
-----------------------------------------------------------------------------
(* The theorems.                                                            *)

\* A pass that waits is a pass over exposures.
ExposurePass == pass.pc # "idle" => kind = "exposure"

LEMMA StepInv ==
    ASSUME RegistersInv, ExposurePass, NoRequests, [RegistersNext]_registerVars
    PROVE  RegistersInv' /\ ExposurePass'
<1>1. CASE UNCHANGED registerVars
  <2>1. RegistersTypeOK'
    BY <1>1 DEF registerVars, RegistersInv, RegistersTypeOK
  <2>2. WaitersStay
    BY <1>1 DEF registerVars, WaitersStay
  <2>3. RegistersInv'
    BY <1>1, <2>1, <2>2, OthersInv DEF registerVars, RegistersInv, Present
  <2> QED
    BY <1>1, <2>3 DEF registerVars, ExposurePass
<1>2. ASSUME NEW r \in Requests,
             \/ BeginCreate(r) \/ Refuse(r)
             \/ CreateExposure(r) \/ CreateControl(r) \/ CreateDetection(r)
             \/ CreateReport(r) \/ CreateIOC(r) \/ CreatePlan(r)
             \/ BeginMove(r)
             \/ ValidateExposure(r) \/ AcceptExposure(r) \/ MitigateExposure(r) \/ CloseExposure(r)
             \/ RetireControl(r) \/ DisableDetection(r) \/ DeprecateDetection(r)
             \/ ExpireIOC(r) \/ RevokeIOC(r) \/ TransitionReportStatus(r) \/ ApprovePlan(r)
             \/ ActivatePlan(r) \/ ClosePlan(r)
             \/ BeginJudge(r) \/ ExecuteValidation(r) \/ FinishValidation(r) \/ EmitFails(r)
      PROVE  RegistersInv' /\ ExposurePass'
  <2>1. CASE BeginCreate(r) \/ BeginMove(r) \/ BeginJudge(r) \/ Refuse(r) \/ EmitFails(r)
    <3>1. UNCHANGED <<kind, pass>>
      BY <2>1 DEF BeginCreate, BeginMove, BeginJudge, Refuse, EmitFails, OnlySession
    <3> QED
      BY <2>1, <3>1, BeginsInv DEF ExposurePass
  <2>2. CASE \/ CreateExposure(r) \/ CreateControl(r) \/ CreateDetection(r)
             \/ CreateReport(r) \/ CreateIOC(r) \/ CreatePlan(r)
    <3>1. UNCHANGED <<kind, pass>>
      BY <2>2 DEF CreateExposure, CreateControl, CreateDetection, CreateReport, CreateIOC,
         CreatePlan, Creates,
         OnlyRecord
    <3>2. RegistersInv'
      BY <2>2, CreatesInv
    <3> QED
      BY <3>1, <3>2 DEF ExposurePass
  <2>3. CASE \/ ValidateExposure(r) \/ AcceptExposure(r) \/ MitigateExposure(r) \/ CloseExposure(r)
             \/ RetireControl(r) \/ DisableDetection(r) \/ DeprecateDetection(r)
             \/ ExpireIOC(r) \/ RevokeIOC(r) \/ TransitionReportStatus(r) \/ ApprovePlan(r)
             \/ ActivatePlan(r) \/ ClosePlan(r)
    <3>1. UNCHANGED <<kind, pass>>
      BY <2>3, MovesCases DEF MovesRecord, OnlyRecord
    <3> QED
      BY <2>3, <3>1, MovesInv DEF ExposurePass
  <2>4. CASE ExecuteValidation(r)
    <3>1. UNCHANGED <<kind, pass>>
      BY <2>4 DEF ExecuteValidation, Judged, OnlySession
    <3> QED
      BY <2>4, <3>1, JudgesInv DEF ExposurePass
  <2>5. CASE FinishValidation(r)
    <3>1. UNCHANGED <<kind, pass>>
      BY <2>5 DEF FinishValidation
    <3> QED
      BY <2>5, <3>1, FinishesInv DEF ExposurePass
  <2> QED
    BY <1>2, <2>1, <2>2, <2>3, <2>4, <2>5
<1>3. CASE \/ BeginSyncExposures \/ CorrelateExposure \/ PassFails
           \/ \E e \in Neighbours : Appears(e)
  <2>1. ExposurePass'
    BY <1>3 DEF BeginSyncExposures, CorrelateExposure, PassFails, Appears, ExposurePass,
       RegistersInv, RegistersTypeOK
  <2> QED
    BY <1>3, <2>1, PassesInv
<1>4. CASE SyncExposures \/ SyncControls \/ SyncReports \/ SyncPlans
  <2>1. kind = "exposure" \/ ~SyncExposures
    BY DEF SyncExposures, ExposurePass
  <2>2. ExposurePass'
    BY <1>4, <2>1 DEF SyncExposures, SyncControls, SyncReports, SyncPlans, ExposurePass
  <2> QED
    BY <1>4, <2>1, <2>2, SyncsInv
<1>5. CASE Restart
  <2>1. pass'.pc = "idle"
    BY <1>5 DEF Restart, RegistersInv, RegistersTypeOK
  <2> QED
    BY <1>5, <2>1, RestartInv DEF ExposurePass
<1>6. CASE BeginRun
  BY <1>6, BeginRunInv DEF BeginRun, ExposurePass
<1> QED
  BY <1>1, <1>2, <1>3, <1>4, <1>5, <1>6 DEF RegistersNext

LEMMA InitialRoles == RegistersInit => ExposurePass /\ NoRequests
BY DEF RegistersInit, ExposurePass, NoRequests, Idle, At

LEMMA Invariance == RegistersSpec => [](RegistersInv /\ ExposurePass /\ NoRequests)
<1>1. RegistersInit => RegistersInv /\ ExposurePass /\ NoRequests
  BY InitialInv, InitialRoles
<1>2. RegistersInv /\ ExposurePass /\ NoRequests /\ [RegistersNext]_registerVars
        => RegistersInv' /\ ExposurePass' /\ NoRequests'
  BY StepInv, NoRequestsStep
<1> QED
  BY <1>1, <1>2, PTL DEF RegistersSpec

\* Whatever overlaps, fails or restarts, every variable keeps its type.
THEOREM TypeCorrect == RegistersSpec => []RegistersTypeOK
BY Invariance, PTL DEF RegistersInv

\* The score and status of a control in use are those of all its validations.
THEOREM StatusIsThatOfValidations == RegistersSpec => []StatusTellsValidations
BY Invariance, PTL DEF RegistersInv

LEMMA TellsLast ==
    ASSUME trail \in Seq(Entry), NEW st, Tells(trail, st)
    PROVE  Told # {} /\ LastTold = st
<1>1. PICK i \in DOMAIN trail : IsLastTold(trail, i) /\ trail[i].to = st
  BY DEF Tells
<1>2. Told = Telling(trail)
  BY DEF Told, Telling
<1>3. i \in Told /\ \A j \in Told : j <= i
  BY <1>1, <1>2 DEF IsLastTold
<1>4. \A k \in Told : (\A j \in Told : j <= k) => k = i
  BY <1>3 DEF Told
<1>5. (CHOOSE k \in Told : \A j \in Told : j <= k) = i
  BY <1>3, <1>4
<1> QED
  BY <1>1, <1>3, <1>5 DEF LastTold

\* Once no validation waits for its event or has lost it, the history tells
\* the status of the record.
THEOREM HistoryTellsStatus == RegistersSpec => []TrailTellsStatus
<1>1. ASSUME RegistersInv PROVE TrailTellsStatus
  <2> SUFFICES ASSUME record # None, \A r \in Requests : session[r].pc \notin {"emit", "refused"}
               PROVE  Told # {} /\ LastTold = record.status
    BY DEF TrailTellsStatus
  <2>1. Tells(trail, record.status)
    BY <1>1 DEF RegistersInv, Behind, At
  <2>2. trail \in Seq(Entry)
    BY <1>1 DEF RegistersInv, RegistersTypeOK
  <2> QED
    BY <2>1, <2>2, TellsLast
<1> QED
  BY <1>1, Invariance, PTL
-----------------------------------------------------------------------------
(* Ends.  A record has a status of its register, a request is on its way to *)
(* one, and only controls are validated.                                    *)

Fits ==
    /\ record # None => record.status \in StatusesOf(kind)
    /\ \A r \in Requests : At(r, "move") => session[r].to \in StatusesOf(kind)
    /\ \A r \in Requests : session[r].pc \in {"judge", "emit"} => kind = "control"

LEMMA InitialFits == RegistersInit => Fits
<1> SUFFICES ASSUME RegistersInit PROVE Fits
  OBVIOUS
<1>1. RegistersInv
  BY InitialInv
<1>2. FirstStatus \in StatusesOf(kind)
  BY RegistersAssumption DEF RegistersInit, FirstStatus, StatusesOf, ExposureStatuses,
     ControlStatuses, DetectionStatuses, ReportStatuses, IOCStatuses, PlanStatuses
<1>3. kind = "control" => {"RETIRED", Band(StandingScore)} \subseteq StatusesOf(kind)
  <2>1. validations \in Seq(Validation)
    BY <1>1 DEF RegistersInv, RegistersTypeOK
  <2>2. StandingScore \in Int
    BY <2>1, EffectivenessType DEF StandingScore
  <2> QED
    BY <2>2, BandType DEF StatusesOf, ControlStatuses
<1>4. Standing \subseteq StatusesOf(kind)
  BY <1>2, <1>3 DEF Standing
<1>5. record # None => record.status \in StatusesOf(kind)
  BY <1>4 DEF RegistersInit
<1>6. \A r \in Requests : session[r].pc = "idle"
  BY DEF RegistersInit, Idle
<1> QED
  BY <1>5, <1>6 DEF Fits, At

\* A step leaves record and validations alone, or is one of four kinds.
LEMMA StepCases ==
    ASSUME RegistersInv, ExposurePass, RegistersNext
    PROVE  \/ UNCHANGED <<kind, record, validations>>
           \/ \E f \in 0..1, by \in Requests \cup {None} :
                 Registered(f, by) /\ UNCHANGED <<kind, validations>>
           \/ \E r \in Requests :
                 \/ ValidateExposure(r) \/ AcceptExposure(r) \/ MitigateExposure(r)
                 \/ CloseExposure(r) \/ RetireControl(r) \/ DisableDetection(r)
                 \/ DeprecateDetection(r) \/ ExpireIOC(r) \/ RevokeIOC(r)
                 \/ TransitionReportStatus(r) \/ ApprovePlan(r)
                 \/ ActivatePlan(r) \/ ClosePlan(r)
           \/ \E r \in Requests : ExecuteValidation(r)
           \/ record' = None /\ UNCHANGED kind
<1>1. CASE \E r \in Requests :
             \/ BeginCreate(r) \/ Refuse(r) \/ BeginMove(r) \/ BeginJudge(r)
             \/ FinishValidation(r) \/ EmitFails(r)
  BY <1>1 DEF BeginCreate, BeginMove, BeginJudge, Refuse, EmitFails, OnlySession,
     FinishValidation
<1>2. CASE \/ BeginSyncExposures \/ CorrelateExposure \/ PassFails
           \/ \E e \in Neighbours : Appears(e)
  BY <1>2 DEF BeginSyncExposures, CorrelateExposure, PassFails, Appears
<1>3. ASSUME NEW r \in Requests,
             \/ CreateExposure(r) \/ CreateControl(r) \/ CreateDetection(r)
             \/ CreateReport(r) \/ CreateIOC(r) \/ CreatePlan(r)
      PROVE  \E f \in 0..1, by \in Requests \cup {None} :
                 Registered(f, by) /\ UNCHANGED <<kind, validations>>
  <2>1. session[r].facts \in 0..1
    BY DEF RegistersInv, RegistersTypeOK, Session
  <2>2. (Registered(session[r].facts, r) \/ Registered(0, r)) /\ OnlyRecord
    BY <1>3 DEF CreateExposure, CreateControl, CreateDetection, CreateReport, CreateIOC,
       CreatePlan, Creates,
       Registered
  <2>3. UNCHANGED <<kind, validations>>
    BY <2>2 DEF OnlyRecord
  <2> QED
    BY <2>1, <2>2, <2>3
<1>4. CASE SyncExposures \/ SyncControls \/ SyncReports \/ SyncPlans
  <2>1. pass.facts \in 0..1
    BY DEF RegistersInv, RegistersTypeOK
  <2>2. \E f \in 0..1 : Registered(f, None)
    BY <1>4, <2>1 DEF SyncExposures, SyncControls, SyncReports, SyncPlans, Registered,
       ExposurePass
  <2>3. UNCHANGED <<kind, validations>>
    BY <1>4 DEF SyncExposures, SyncControls, SyncReports, SyncPlans
  <2> QED
    BY <2>2, <2>3
<1>5. CASE Restart \/ BeginRun
  BY <1>5 DEF Restart, BeginRun
<1> QED
  BY <1>1, <1>2, <1>3, <1>4, <1>5 DEF RegistersNext

\* What an end means to each register.
LEMMA Ends ==
    ASSUME RegistersInv, Fits, record # None, Final(record.status)
    PROVE  /\ kind = "exposure" => record.status = "CLOSED"
           /\ kind = "control" => record.status = "RETIRED"
           /\ kind = "report" => record.status = "ARCHIVED"
           /\ kind \in Sealed => kind \in {"exposure", "control", "report", "plan"}
           /\ kind = "plan" => record.status = "CLOSED"
BY DEF Fits, Final, StatusesOf, ExposureStatuses, ControlStatuses, ReportStatuses, PlanStatuses,
   Sealed

LEMMA EndStep ==
    ASSUME RegistersInv, ExposurePass, Fits, RegistersNext,
           record # None, Final(record.status), record' # None
    PROVE  /\ Final(record'.status)
           /\ kind \in Sealed => record' = record /\ validations' = validations
<1>1. ASSUME NEW f \in 0..1, NEW by \in Requests \cup {None}, Registered(f, by),
             UNCHANGED validations
      PROVE  /\ Final(record'.status)
             /\ kind \in Sealed => record' = record /\ validations' = validations
  <2>1. record'.status = record.status
    BY <1>1, RegisteredCases
  <2>2. kind \in Sealed => record' = record
    BY <1>1, Ends DEF Registered, CreateOrSyncExposure, CreateOrSyncControl, CreateOrSyncReport,
       CreateOrSyncPlan
  <2> QED
    BY <1>1, <2>1, <2>2
<1>2. ASSUME NEW r \in Requests,
             \/ ValidateExposure(r) \/ AcceptExposure(r) \/ MitigateExposure(r)
             \/ CloseExposure(r) \/ RetireControl(r) \/ DisableDetection(r)
             \/ DeprecateDetection(r) \/ ExpireIOC(r) \/ RevokeIOC(r)
             \/ TransitionReportStatus(r) \/ ApprovePlan(r)
             \/ ActivatePlan(r) \/ ClosePlan(r)
      PROVE  /\ Final(record'.status)
             /\ kind \in Sealed => record' = record /\ validations' = validations
  <2>1. record \in Record /\ UNCHANGED validations
    BY <1>2, MovesCases DEF RegistersInv, RegistersTypeOK, MovesRecord, OnlyRecord
  <2>2. CASE ValidateExposure(r) \/ AcceptExposure(r) \/ MitigateExposure(r) \/ CloseExposure(r)
    <3>1. record.status = "CLOSED"
      BY <2>2, Ends DEF ValidateExposure, AcceptExposure, MitigateExposure, CloseExposure,
         MoveExposure, Moves
    <3>2. record' = record
      BY <2>2, <3>1 DEF ValidateExposure, AcceptExposure, MitigateExposure, CloseExposure,
         MoveExposure, Unmoved
    <3> QED
      BY <2>1, <3>2
  <2>3. CASE RetireControl(r)
    <3>1. record.status = "RETIRED"
      BY <2>3, Ends DEF RetireControl, MoveOnce, Moves
    <3>2. record' = record
      BY <2>3, <3>1 DEF RetireControl, MoveOnce, Unmoved
    <3> QED
      BY <2>1, <3>2
  <2>4. CASE TransitionReportStatus(r)
    <3>1. record.status = "ARCHIVED"
      BY <2>4, Ends DEF TransitionReportStatus
    <3>2. record' = record
      BY <2>4, <3>1 DEF TransitionReportStatus, Unmoved
    <3> QED
      BY <2>1, <3>2
  <2>5. CASE DisableDetection(r) \/ DeprecateDetection(r) \/ ExpireIOC(r) \/ RevokeIOC(r)
    <3>1. kind \notin Sealed
      BY <2>5 DEF DisableDetection, DeprecateDetection, ExpireIOC, RevokeIOC, MoveOnce, Moves,
         Sealed
    <3>2. PICK st \in {"DISABLED", "DEPRECATED", "EXPIRED", "REVOKED"} :
              record' = record \/ record' = [record EXCEPT !.status = st]
      BY <2>5 DEF DisableDetection, DeprecateDetection, ExpireIOC, RevokeIOC, MoveOnce,
         Unmoved, Moved
    <3>3. Final(record'.status)
      BY <2>1, <3>2 DEF Final, Record
    <3> QED
      BY <3>1, <3>3
  <2>6. CASE ApprovePlan(r) \/ ActivatePlan(r) \/ ClosePlan(r)
    <3>1. record.status = "CLOSED"
      BY <2>6, Ends DEF ApprovePlan, ActivatePlan, ClosePlan, MovePlan, Moves
    <3>2. record' = record
      BY <2>6, <3>1 DEF ApprovePlan, ActivatePlan, ClosePlan, MovePlan, Unmoved
    <3> QED
      BY <2>1, <3>2
  <2> QED
    BY <1>2, <2>2, <2>3, <2>4, <2>5, <2>6
<1>3. ASSUME NEW r \in Requests, ExecuteValidation(r)
      PROVE  /\ Final(record'.status)
             /\ kind \in Sealed => record' = record /\ validations' = validations
  <2>1. kind = "control"
    BY <1>3 DEF ExecuteValidation, Judged, At, Fits
  <2>2. record.status = "RETIRED"
    BY <2>1, Ends
  <2> QED
    BY <1>3, <2>2 DEF ExecuteValidation, Judged, OnlySession
<1> QED
  BY <1>1, <1>2, <1>3, StepCases
LEMMA FitsStep ==
    ASSUME RegistersInv, ExposurePass, Fits, [RegistersNext]_registerVars
    PROVE  Fits'
<1>0. session \in [Requests -> Session] /\ kind \in Kinds
  BY DEF RegistersInv, RegistersTypeOK
<1>1. CASE UNCHANGED registerVars
  BY <1>1 DEF registerVars, Fits, At
<1>2. CASE RegistersNext
  <2>1. record' # None => record'.status \in StatusesOf(kind)
    <3>1. ASSUME NEW f \in 0..1, NEW by \in Requests \cup {None}, Registered(f, by)
          PROVE  record'.status \in StatusesOf(kind)
      <4>1. FirstStatus \in StatusesOf(kind)
        BY <1>0, RegistersAssumption DEF FirstStatus, StatusesOf, ExposureStatuses,
           ControlStatuses, DetectionStatuses, ReportStatuses, IOCStatuses, PlanStatuses
      <4> QED
        BY <3>1, <4>1, RegisteredCases DEF Fits, New
    <3>2. ASSUME NEW r \in Requests,
                 \/ ValidateExposure(r) \/ AcceptExposure(r) \/ MitigateExposure(r)
                 \/ CloseExposure(r) \/ RetireControl(r) \/ DisableDetection(r)
                 \/ DeprecateDetection(r) \/ ExpireIOC(r) \/ RevokeIOC(r)
                 \/ TransitionReportStatus(r) \/ ApprovePlan(r)
                 \/ ActivatePlan(r) \/ ClosePlan(r)
          PROVE  record'.status \in StatusesOf(kind)
      <4>1. record \in Record
        BY <3>2, MovesCases DEF RegistersInv, RegistersTypeOK, MovesRecord
      <4>2. \/ record' = [record EXCEPT !.status = session[r].to] /\ At(r, "move")
            \/ record' = record
        BY <3>2, MovesCases DEF MovesRecord, Moved, Unmoved
      <4>3. CASE record' = [record EXCEPT !.status = session[r].to] /\ At(r, "move")
        BY <4>1, <4>3 DEF Record, Fits
      <4>4. CASE record' = record
        BY <3>2, <4>4, MovesCases DEF Fits, MovesRecord
      <4> QED
        BY <4>2, <4>3, <4>4
    <3>3. ASSUME NEW r \in Requests, ExecuteValidation(r)
          PROVE  record'.status \in StatusesOf(kind)
      <4>1. kind = "control" /\ record # None
        BY <3>3 DEF ExecuteValidation, Judged, At, Fits, RegistersInv, Present
      <4>2. record \in Record
        BY <4>1 DEF RegistersInv, RegistersTypeOK
      <4>3. CASE record.status = "RETIRED"
        BY <3>3, <4>1, <4>3 DEF ExecuteValidation, Judged, OnlySession, Fits
      <4>4. CASE record.status # "RETIRED"
        <5> DEFINE vs == Append(validations, [outcome |-> session[r].outcome,
                                              technique |-> session[r].technique, by |-> r])
        <5>1. record' = [record EXCEPT !.status = Band(Effectiveness(vs)), !.score = Effectiveness(vs)]
          BY <3>3, <4>4 DEF ExecuteValidation, Judged
        <5>2. vs \in Seq(Validation)
          <6>1. validations \in Seq(Validation)
                /\ [outcome |-> session[r].outcome, technique |-> session[r].technique, by |-> r]
                      \in Validation
            BY DEF RegistersInv, RegistersTypeOK, Session, Validation
          <6> QED
            BY <6>1
        <5>3. Band(Effectiveness(vs)) \in ControlStatuses
          BY <5>2, EffectivenessType, BandType
        <5> HIDE DEF vs
        <5>4. record'.status = Band(Effectiveness(vs))
          BY <4>2, <5>1 DEF Record
        <5> QED
          BY <4>1, <5>3, <5>4 DEF StatusesOf
      <4> QED
        BY <4>3, <4>4
    <3> QED
      BY <1>2, <3>1, <3>2, <3>3, StepCases DEF Fits
  <2>2. UNCHANGED kind
    BY <1>2, StepCases, MovesCases DEF MovesRecord, OnlyRecord, ExecuteValidation, Judged,
       OnlySession
  <2>3. \A r \in Requests :
          \/ session'[r].pc \notin {"move", "judge", "emit"}
          \/ session'[r] = session[r]
          \/ session'[r].pc = "move" /\ session'[r].to \in StatusesOf(kind)
          \/ session'[r].pc = "judge" /\ kind = "control"
          \/ session'[r].pc = "emit" /\ session[r].pc = "judge"
    <3> SUFFICES ASSUME NEW r \in Requests
                 PROVE  \/ session'[r].pc \notin {"move", "judge", "emit"}
                        \/ session'[r] = session[r]
                        \/ session'[r].pc = "move" /\ session'[r].to \in StatusesOf(kind)
                        \/ session'[r].pc = "judge" /\ kind = "control"
                        \/ session'[r].pc = "emit" /\ session[r].pc = "judge"
      OBVIOUS
    <3>0. Idle \in Session
      BY IdleType
    <3>1. ASSUME NEW q \in Requests, NEW pc \in PCs \ {"move", "judge", "emit"}, Goes(q, pc)
          PROVE  session'[r].pc \notin {"move", "judge", "emit"} \/ session'[r] = session[r]
      BY <1>0, <3>1 DEF Goes, Session
    <3>2. CASE \E q \in Requests : \/ Refuse(q) \/ EmitFails(q)
                                   \/ CreateExposure(q) \/ CreateControl(q) \/ CreateDetection(q)
                                   \/ CreateReport(q) \/ CreateIOC(q) \/ CreatePlan(q)
      BY <3>1, <3>2 DEF Refuse, EmitFails, CreateExposure, CreateControl, CreateDetection,
         CreateReport, CreateIOC, CreatePlan, Creates, PCs
    <3>3. CASE \E q \in Requests : \/ ValidateExposure(q) \/ AcceptExposure(q) \/ MitigateExposure(q)
                                   \/ CloseExposure(q) \/ RetireControl(q) \/ DisableDetection(q)
                                   \/ DeprecateDetection(q) \/ ExpireIOC(q) \/ RevokeIOC(q)
                                   \/ TransitionReportStatus(q) \/ ApprovePlan(q)
                                   \/ ActivatePlan(q) \/ ClosePlan(q)
      BY <3>1, <3>3, MovesCases DEF MovesRecord, Moved, Unmoved, PCs
    <3>4. CASE \E q \in Requests : FinishValidation(q)
      BY <3>1, <3>4 DEF FinishValidation, CorrelateControl, PCs
    <3>5. ASSUME NEW q \in Requests, ExecuteValidation(q)
          PROVE  \/ session'[r].pc \notin {"move", "judge", "emit"}
                 \/ session'[r] = session[r]
                 \/ session'[r].pc = "emit" /\ session[r].pc = "judge"
      <4>1. \/ Goes(q, "rejected") \/ CorrelateControl(q)
            \/ session' = [session EXCEPT ![q].pc = "emit", ![q].old = record.status]
        BY <3>5 DEF ExecuteValidation, Judged
      <4>2. CASE Goes(q, "rejected") \/ CorrelateControl(q)
        BY <3>1, <4>2 DEF CorrelateControl, PCs
      <4>3. CASE session' = [session EXCEPT ![q].pc = "emit", ![q].old = record.status]
        BY <1>0, <3>5, <4>3 DEF Session, ExecuteValidation, Judged, At
      <4> QED
        BY <4>1, <4>2, <4>3
    <3>6. ASSUME NEW q \in Requests, BeginCreate(q) \/ BeginMove(q) \/ BeginJudge(q)
          PROVE  \/ session'[r].pc \notin {"move", "judge", "emit"}
                 \/ session'[r] = session[r]
                 \/ session'[r].pc = "move" /\ session'[r].to \in StatusesOf(kind)
                 \/ session'[r].pc = "judge" /\ kind = "control"
      <4>1. CASE BeginCreate(q)
        BY <1>0, <3>0, <4>1 DEF BeginCreate, Session
      <4>2. CASE BeginMove(q)
        BY <1>0, <3>0, <4>2 DEF BeginMove, Session
      <4>3. CASE BeginJudge(q)
        BY <1>0, <3>0, <4>3 DEF BeginJudge, Session
      <4> QED
        BY <3>6, <4>1, <4>2, <4>3
    <3>7. CASE \/ BeginSyncExposures \/ SyncExposures \/ CorrelateExposure \/ PassFails
               \/ SyncControls \/ SyncReports \/ SyncPlans \/ BeginRun
               \/ \E e \in Neighbours : Appears(e)
      BY <3>7 DEF BeginSyncExposures, SyncExposures, CorrelateExposure, PassFails, SyncControls,
         SyncReports, SyncPlans, BeginRun, Appears
    <3>8. CASE Restart
      <4>1. session'[r] = session[r] \/ session'[r] = [Idle EXCEPT !.pc = "killed"]
        BY <3>8 DEF Restart
      <4> QED
        BY <3>0, <4>1 DEF Session
    <3> QED
      BY <1>2, <3>2, <3>3, <3>4, <3>5, <3>6, <3>7, <3>8 DEF RegistersNext
  <2> QED
    BY <2>1, <2>2, <2>3 DEF Fits, At
<1> QED
  BY <1>1, <1>2

\* A closed exposure or plan, a retired control and an archived report stay as they
\* are, whatever was under way; a detection or an IOC at its end stays there.
THEOREM EndsAreFinal == RegistersSpec => EndIsTheEnd
<1>1. RegistersInit => RegistersInv /\ ExposurePass /\ NoRequests /\ Fits
  BY InitialInv, InitialRoles, InitialFits
<1>2. RegistersInv /\ ExposurePass /\ NoRequests /\ Fits /\ [RegistersNext]_registerVars
        => RegistersInv' /\ ExposurePass' /\ NoRequests' /\ Fits'
  BY StepInv, NoRequestsStep, FitsStep
<1>3. RegistersInv /\ ExposurePass /\ Fits /\ [RegistersNext]_registerVars
        => [record # None /\ Final(record.status) /\ record' # None
              => /\ Final(record'.status)
                 /\ kind \in Sealed => record' = record /\ validations' = validations]_registerVars
  BY EndStep
<1> QED
  BY <1>1, <1>2, <1>3, PTL DEF RegistersSpec, EndIsTheEnd

-----------------------------------------------------------------------------
(* What is recorded for a request: one validation and its entry in the      *)
(* history from the moment it is counted, neither before; and one link to   *)
(* a neighbour that is there.                                               *)

By(vs, r) == {i \in DOMAIN vs : vs[i].by = r}
Written(log, r) == {i \in DOMAIN log : log[i].by = r /\ log[i].event = "VALIDATED"}

Uncounted == {"idle", "create", "move", "judge", "done", "rejected", "killed"}
Counted == {"emit", "judged", "broken", "refused"}
RequestInv(r) ==
    /\ \/ /\ By(validations, r) = {} /\ Written(trail, r) = {}
          /\ session[r].pc \in Uncounted
       \/ /\ \E i, j : By(validations, r) = {i} /\ Written(trail, r) = {j}
          /\ session[r].pc \in Counted
    /\ At(r, "broken") => "detection" \in around
LinkInv == \A e \in Neighbours : links[e] <= 1 /\ (links[e] = 1 => e \in around)
OnceInv == LinkInv /\ \A r \in Requests : RequestInv(r)

LEMMA RequestOnce ==
    ASSUME NEW r, RequestInv(r)
    PROVE  LET mine == {i \in DOMAIN validations : validations[i].by = r} IN
           /\ Cardinality(mine) = IF session[r].pc \in {"emit", "judged", "broken", "refused"}
                                  THEN 1 ELSE 0
           /\ At(r, "broken") => "detection" \in around
           /\ Cardinality(mine) = Cardinality({i \in DOMAIN trail :
                                      trail[i].by = r /\ trail[i].event = "VALIDATED"})
<1>1. Cardinality({}) = 0 /\ \A i : Cardinality({i}) = 1
  BY FS_EmptySet, FS_Singleton
<1>2. CASE /\ By(validations, r) = {} /\ Written(trail, r) = {}
           /\ session[r].pc \in Uncounted
  <2>1. /\ Cardinality(By(validations, r)) = 0 /\ Cardinality(Written(trail, r)) = 0
        /\ session[r].pc \notin {"emit", "judged", "broken", "refused"}
    BY <1>1, <1>2 DEF Uncounted
  <2> QED
    BY <1>2, <2>1 DEF By, Written, RequestInv
<1>3. CASE /\ \E i, j : By(validations, r) = {i} /\ Written(trail, r) = {j}
           /\ session[r].pc \in Counted
  <2>1. PICK i, j : By(validations, r) = {i} /\ Written(trail, r) = {j}
    BY <1>3
  <2>2. Cardinality(By(validations, r)) = 1 /\ Cardinality(Written(trail, r)) = 1
        /\ session[r].pc \in {"emit", "judged", "broken", "refused"}
    BY <1>1, <1>3, <2>1 DEF Counted
  <2> QED
    BY <1>3, <2>2 DEF By, Written, RequestInv
<1> QED
  BY <1>2, <1>3 DEF RequestInv

LEMMA RegisteredOnce == OnceInv => RecordedOnce
BY RequestOnce DEF OnceInv, LinkInv, RecordedOnce

\* Entries and validations, by whom they are.
LEMMA WrittenAppended ==
    ASSUME NEW log \in Seq(Entry), NEW e \in Entry, NEW r
    PROVE  Written(Append(log, e), r) =
             IF e.by = r /\ e.event = "VALIDATED" THEN Written(log, r) \cup {Len(log) + 1}
             ELSE Written(log, r)
<1> DEFINE l2 == Append(log, e)
<1>1. /\ Len(log) \in Nat /\ DOMAIN log = 1..Len(log)
      /\ DOMAIN l2 = 1..(Len(log) + 1)
      /\ l2[Len(log) + 1] = e
      /\ \A i \in 1..Len(log) : l2[i] = log[i]
  OBVIOUS
<1> HIDE DEF l2
<1>2. \A i : i \in 1..(Len(log) + 1) <=> i \in 1..Len(log) \/ i = Len(log) + 1
  BY <1>1
<1>3. ~(Len(log) + 1 \in 1..Len(log))
  BY <1>1
<1> QED
  BY <1>1, <1>2, <1>3 DEF Written, l2

LEMMA ByAppended ==
    ASSUME NEW vs \in Seq(Validation), NEW v \in Validation, NEW r
    PROVE  By(Append(vs, v), r) = IF v.by = r THEN By(vs, r) \cup {Len(vs) + 1} ELSE By(vs, r)
<1> DEFINE v2 == Append(vs, v)
<1>1. /\ Len(vs) \in Nat /\ DOMAIN vs = 1..Len(vs)
      /\ DOMAIN v2 = 1..(Len(vs) + 1)
      /\ v2[Len(vs) + 1] = v
      /\ \A i \in 1..Len(vs) : v2[i] = vs[i]
  OBVIOUS
<1> HIDE DEF v2
<1>2. \A i : i \in 1..(Len(vs) + 1) <=> i \in 1..Len(vs) \/ i = Len(vs) + 1
  BY <1>1
<1>3. ~(Len(vs) + 1 \in 1..Len(vs))
  BY <1>1
<1> QED
  BY <1>1, <1>2, <1>3 DEF By, v2

\* An entry of another event is nobody's validation.
SameWritten == \A r \in Requests : Written(trail', r) = Written(trail, r)

LEMMA EntryUnwritten ==
    ASSUME RegistersTypeOK, NEW e \in Entry, e.event # "VALIDATED", trail' = Append(trail, e)
    PROVE  SameWritten
BY WrittenAppended DEF SameWritten, RegistersTypeOK

LEMMA DriftUnwritten ==
    ASSUME NEW log \in Seq(Entry), NEW st \in Statuses, NEW old, NEW q \in Requests, NEW r
    PROVE  Written(Drift(old, st, log, q), r) = Written(log, r)
<1>1. Event("DRIFT_DETECTED", st, q) \in Entry
      /\ Event("DRIFT_DETECTED", st, q).event # "VALIDATED"
  BY EventType DEF Event
<1> QED
  BY <1>1, WrittenAppended DEF Drift

LEMMA RegisteredUnwritten ==
    ASSUME RegistersTypeOK, NEW f \in 0..1, NEW by \in Requests \cup {None}, Registered(f, by)
    PROVE  SameWritten
<1>1. FirstStatus \in Statuses
  BY FirstTypes DEF RegistersTypeOK
<1>2. /\ Event("CREATED", FirstStatus, by) \in Entry
      /\ Event("CREATED", FirstStatus, by).event # "VALIDATED"
      /\ Event("CHANGED", None, by) \in Entry
      /\ Event("CHANGED", None, by).event # "VALIDATED"
      /\ Event("DRIFT_DETECTED", None, by) \in Entry
      /\ Event("DRIFT_DETECTED", None, by).event # "VALIDATED"
  BY <1>1, EventType DEF Event
<1>3. \/ trail' = trail
      \/ trail' = Append(trail, Event("CREATED", FirstStatus, by))
      \/ trail' = Append(trail, Event("CHANGED", None, by))
      \/ trail' = Append(trail, Event("DRIFT_DETECTED", None, by))
  BY DEF Registered, CreateOrSyncExposure, CreateOrSyncControl, CreateOrSyncDetection,
     CreateOrSyncReport, CreateOrSyncIOC, CreateOrSyncPlan, New, Renewed
<1>4. CASE trail' = trail
  BY <1>4 DEF SameWritten
<1> QED
  BY <1>2, <1>3, <1>4, EntryUnwritten

\* The links: what is around gets one, once.
LEMMA LinkStep ==
    ASSUME RegistersTypeOK, LinkInv, around \subseteq around', UNCHANGED links \/ Correlated
    PROVE  LinkInv'
<1>1. CASE UNCHANGED links
  BY <1>1 DEF LinkInv
<1>2. CASE Correlated
  <2> SUFFICES ASSUME NEW e \in Neighbours
               PROVE  links'[e] <= 1 /\ (links'[e] = 1 => e \in around')
    BY DEF LinkInv
  <2>1. links'[e] = IF e \in around /\ links[e] = 0 THEN 1 ELSE links[e]
    BY <1>2 DEF Correlated
  <2> QED
    BY <2>1 DEF LinkInv
<1> QED
  BY <1>1, <1>2

\* A step that counts no validation.
Onward(r) ==
    /\ \/ session'[r].pc = session[r].pc
       \/ session[r].pc \in Uncounted /\ session'[r].pc \in Uncounted
       \/ session[r].pc = "emit" /\ session'[r].pc \in {"judged", "broken", "refused"}
    /\ session'[r].pc = "broken" /\ session[r].pc # "broken" => "detection" \in around'

LEMMA OnwardInv ==
    ASSUME RegistersTypeOK, OnceInv, UNCHANGED validations, SameWritten,
           around \subseteq around', UNCHANGED links \/ Correlated,
           \A r \in Requests : Onward(r)
    PROVE  OnceInv'
<1>1. LinkInv'
  BY LinkStep DEF OnceInv
<1>2. ASSUME NEW r \in Requests PROVE RequestInv(r)'
  <2>1. By(validations', r) = By(validations, r) /\ Written(trail', r) = Written(trail, r)
    BY DEF SameWritten
  <2>2. RequestInv(r) /\ Onward(r)
    BY DEF OnceInv
  <2>3. At(r, "broken")' => "detection" \in around'
    BY <2>2 DEF RequestInv, Onward, At
  <2> QED
    BY <2>1, <2>2, <2>3 DEF RequestInv, Onward, Uncounted, Counted
<1> QED
  BY <1>1, <1>2 DEF OnceInv

\* A request goes to that point; the others stay.
LEMMA GoesOnward ==
    ASSUME RegistersTypeOK, NEW q \in Requests, NEW s \in Session, session' = [session EXCEPT ![q] = s],
           \/ session[q].pc \in Uncounted /\ s.pc \in Uncounted
           \/ session[q].pc = "emit" /\ s.pc \in {"judged", "broken", "refused"},
           s.pc = "broken" => "detection" \in around'
    PROVE  \A r \in Requests : Onward(r)
<1>1. session'[q] = s /\ \A r \in Requests \ {q} : session'[r] = session[r]
  BY DEF RegistersTypeOK
<1> QED
  BY <1>1 DEF Onward

LEMMA StepsOnward ==
    ASSUME RegistersTypeOK, NEW q \in Requests, NEW pc \in PCs, Goes(q, pc),
           \/ session[q].pc \in Uncounted /\ pc \in Uncounted
           \/ session[q].pc = "emit" /\ pc \in {"judged", "broken", "refused"},
           pc = "broken" => "detection" \in around'
    PROVE  \A r \in Requests : Onward(r)
<1>1. session \in [Requests -> Session] /\ session[q] \in Session
  BY DEF RegistersTypeOK
<1>2. session' = [session EXCEPT ![q] = [session[q] EXCEPT !.pc = pc]]
  BY DEF Goes
<1>3. [session[q] EXCEPT !.pc = pc] \in Session /\ [session[q] EXCEPT !.pc = pc].pc = pc
  BY <1>1 DEF Session
<1> QED
  BY <1>2, <1>3, GoesOnward

LEMMA BeginsOnce ==
    ASSUME RegistersInv, OnceInv, NEW r \in Requests,
           BeginCreate(r) \/ BeginMove(r) \/ BeginJudge(r) \/ Refuse(r) \/ EmitFails(r)
    PROVE  OnceInv'
<1>0. RegistersTypeOK
  BY DEF RegistersInv
<1>1. /\ UNCHANGED <<validations, trail, around, links>>
  BY DEF BeginCreate, BeginMove, BeginJudge, Refuse, EmitFails, OnlySession
<1>2. \A x \in Requests : Onward(x)
  <2>1. CASE Refuse(r) \/ EmitFails(r)
    BY <1>0, <2>1, StepsOnward DEF Refuse, EmitFails, At, PCs, Uncounted
  <2>2. CASE BeginCreate(r) \/ BeginMove(r) \/ BeginJudge(r)
    <3>1. \E s \in Session : s.pc \in {"create", "move", "judge"} /\ session' = [session EXCEPT ![r] = s]
      <4>1. CASE BeginCreate(r)
        <5>1. \A f \in 0..1 : [Idle EXCEPT !.pc = "create", !.facts = f] \in Session
                              /\ [Idle EXCEPT !.pc = "create", !.facts = f].pc = "create"
          BY IdleType DEF Session, PCs
        <5> QED
          BY <4>1, <5>1 DEF BeginCreate
      <4>2. CASE BeginMove(r)
        <5>1. \A st \in Statuses : [Idle EXCEPT !.pc = "move", !.to = st] \in Session
                              /\ [Idle EXCEPT !.pc = "move", !.to = st].pc = "move"
          BY IdleType DEF Session, PCs
        <5>2. StatusesOf(kind) \subseteq Statuses
          BY <1>0, StatusTypes DEF RegistersTypeOK
        <5> QED
          BY <4>2, <5>1, <5>2 DEF BeginMove
      <4>3. CASE BeginJudge(r)
        <5>1. \A o \in Outcomes, t \in Techniques :
                 [Idle EXCEPT !.pc = "judge", !.outcome = o, !.technique = t] \in Session
                 /\ [Idle EXCEPT !.pc = "judge", !.outcome = o, !.technique = t].pc = "judge"
          BY IdleType DEF Session, PCs
        <5> QED
          BY <4>3, <5>1 DEF BeginJudge
      <4> QED
        BY <2>2, <4>1, <4>2, <4>3
    <3>2. PICK s \in Session : s.pc \in {"create", "move", "judge"} /\ session' = [session EXCEPT ![r] = s]
      BY <3>1
    <3>3. session[r].pc = "idle"
      BY <2>2 DEF BeginCreate, BeginMove, BeginJudge, At
    <3> QED
      BY <1>0, <3>2, <3>3, GoesOnward DEF Uncounted
  <2> QED
    BY <2>1, <2>2
<1> QED
  BY <1>0, <1>1, <1>2, OnwardInv DEF SameWritten

LEMMA CreatesOnce ==
    ASSUME RegistersInv, OnceInv, NEW r \in Requests,
           \/ CreateExposure(r) \/ CreateControl(r) \/ CreateDetection(r)
           \/ CreateReport(r) \/ CreateIOC(r) \/ CreatePlan(r)
    PROVE  OnceInv'
<1>0. RegistersTypeOK
  BY DEF RegistersInv
<1>1. At(r, "create") /\ Goes(r, "done") /\ OnlyRecord
  BY DEF CreateExposure, CreateControl, CreateDetection, CreateReport, CreateIOC, CreatePlan,
     Creates
<1>2. session[r].facts \in 0..1
  BY <1>0 DEF RegistersTypeOK, Session
<1>3. Registered(session[r].facts, r) \/ Registered(0, r)
  BY DEF CreateExposure, CreateControl, CreateDetection, CreateReport, CreateIOC, CreatePlan,
     Creates,
     Registered
<1>4. SameWritten
  BY <1>0, <1>2, <1>3, RegisteredUnwritten
<1>5. \A x \in Requests : Onward(x)
  BY <1>0, <1>1, StepsOnward DEF At, PCs, Uncounted
<1> QED
  BY <1>0, <1>1, <1>4, <1>5, OnwardInv DEF OnlyRecord

LEMMA MovesOnce ==
    ASSUME RegistersInv, OnceInv, NEW r \in Requests,
           \/ ValidateExposure(r) \/ AcceptExposure(r) \/ MitigateExposure(r) \/ CloseExposure(r)
           \/ RetireControl(r) \/ DisableDetection(r) \/ DeprecateDetection(r)
           \/ ExpireIOC(r) \/ RevokeIOC(r) \/ TransitionReportStatus(r) \/ ApprovePlan(r)
           \/ ActivatePlan(r) \/ ClosePlan(r)
    PROVE  OnceInv'
<1>0. RegistersTypeOK
  BY DEF RegistersInv
<1>1. CASE MovesRecord(r, session[r].to)
  <2>1. Event("MOVED", session[r].to, r) \in Entry /\ Event("MOVED", session[r].to, r).event # "VALIDATED"
    BY <1>1, EventType DEF Event, MovesRecord
  <2>2. SameWritten
    BY <1>0, <1>1, <2>1, EntryUnwritten DEF MovesRecord, Moved
  <2>3. \A x \in Requests : Onward(x)
    BY <1>0, <1>1, StepsOnward DEF MovesRecord, Moved, At, PCs, Uncounted
  <2> QED
    BY <1>0, <1>1, <2>2, <2>3, OnwardInv DEF MovesRecord, OnlyRecord
<1>2. CASE /\ record # None /\ At(r, "move")
           /\ Unmoved(r, "done") \/ Unmoved(r, "rejected")
           /\ OnlyRecord
  <2>1. \A x \in Requests : Onward(x)
    BY <1>0, <1>2, StepsOnward DEF Unmoved, At, PCs, Uncounted
  <2> QED
    BY <1>0, <1>2, <2>1, OnwardInv DEF Unmoved, OnlyRecord, SameWritten
<1> QED
  BY <1>1, <1>2, MovesCases

\* A validation is counted and written in one stretch.
LEMMA JudgesOnce ==
    ASSUME RegistersInv, OnceInv, NEW q \in Requests, ExecuteValidation(q)
    PROVE  OnceInv'
<1>0. RegistersTypeOK
  BY DEF RegistersInv
<1>1. CASE record.status = "RETIRED"
  <2>1. \A x \in Requests : Onward(x)
    BY <1>0, <1>1, StepsOnward DEF ExecuteValidation, Judged, At, PCs, Uncounted
  <2> QED
    BY <1>0, <1>1, <2>1, OnwardInv DEF ExecuteValidation, Judged, OnlySession, SameWritten
<1>2. CASE record.status # "RETIRED"
  <2> DEFINE v == [outcome |-> session[q].outcome, technique |-> session[q].technique, by |-> q]
             vs == Append(validations, v)
             e == Event("VALIDATED", None, q)
             log == Append(trail, e)
             st == Band(Effectiveness(vs))
  <2>1. v \in Validation /\ v.by = q
    BY <1>0 DEF RegistersTypeOK, Session, Validation
  <2>2. e \in Entry /\ e.by = q /\ e.event = "VALIDATED"
    BY EventType DEF Event
  <2>3. validations \in Seq(Validation) /\ trail \in Seq(Entry)
    BY <1>0 DEF RegistersTypeOK
  <2>4. vs \in Seq(Validation) /\ log \in Seq(Entry)
    BY <2>1, <2>2, <2>3
  <2>5. st \in Statuses
    BY <2>4, EffectivenessType, BandType DEF Statuses
  <2>6. At(q, "judge") /\ validations' = vs /\ UNCHANGED around
    BY <1>2 DEF ExecuteValidation, Judged
  <2>7. \/ /\ trail' = log
           /\ session' = [session EXCEPT ![q].pc = "emit", ![q].old = record.status]
           /\ UNCHANGED links
        \/ trail' = Drift(record.status, st, log, q) /\ CorrelateControl(q)
    BY <1>2 DEF ExecuteValidation, Judged
  <2> HIDE DEF v, vs, e, log, st
  <2>8. \A r : Written(trail', r) = Written(log, r)
    BY <2>4, <2>5, <2>7, DriftUnwritten
  <2>9. \A r \in Requests \ {q} : Written(trail', r) = Written(trail, r) /\ By(validations', r) = By(validations, r)
    BY <2>1, <2>2, <2>3, <2>6, <2>8, WrittenAppended, ByAppended DEF log, vs
  <2>10. \E i, j : By(validations', q) = {i} /\ Written(trail', q) = {j}
    <3>1. By(validations, q) = {} /\ Written(trail, q) = {}
      BY <2>6 DEF OnceInv, RequestInv, At, Uncounted, Counted
    <3>2. By(validations', q) = By(validations, q) \cup {Len(validations) + 1}
      BY <2>1, <2>3, <2>6, ByAppended DEF vs
    <3>3. Written(trail', q) = Written(trail, q) \cup {Len(trail) + 1}
      BY <2>2, <2>3, <2>8, WrittenAppended DEF log
    <3>4. By(validations', q) = {Len(validations) + 1} /\ Written(trail', q) = {Len(trail) + 1}
      BY <3>1, <3>2, <3>3
    <3> QED
      BY <3>4
  <2>11. /\ session'[q].pc \in {"emit", "judged", "broken"}
         /\ session'[q].pc = "broken" => "detection" \in around
         /\ \A r \in Requests \ {q} : session'[r] = session[r]
    <3>1. session \in [Requests -> Session]
      BY <1>0 DEF RegistersTypeOK
    <3>2. CASE session' = [session EXCEPT ![q].pc = "emit", ![q].old = record.status]
      BY <3>1, <3>2 DEF Session
    <3>3. CASE CorrelateControl(q)
      <4>1. CASE "detection" \in around
        BY <1>0, <3>3, <4>1, CorrelatedSession
      <4>2. CASE "detection" \notin around
        BY <3>1, <3>3, <4>2 DEF CorrelateControl, Goes, Session
      <4> QED
        BY <4>1, <4>2
    <3> QED
      BY <2>7, <3>2, <3>3
  <2>12. LinkInv'
    <3>1. UNCHANGED links \/ Correlated
      BY <2>7 DEF CorrelateControl
    <3> QED
      BY <1>0, <2>6, <3>1, LinkStep DEF OnceInv
  <2>13. RequestInv(q)'
    BY <2>6, <2>10, <2>11 DEF RequestInv, At, Counted
  <2>14. ASSUME NEW r \in Requests \ {q} PROVE RequestInv(r)'
    <3>1. RequestInv(r)
      BY DEF OnceInv
    <3>2. session'[r] = session[r] /\ UNCHANGED around
      BY <2>6, <2>11
    <3>3. Written(trail', r) = Written(trail, r) /\ By(validations', r) = By(validations, r)
      BY <2>9
    <3> QED
      BY <3>1, <3>2, <3>3 DEF RequestInv, At
  <2> QED
    BY <2>12, <2>13, <2>14 DEF OnceInv
<1> QED
  BY <1>1, <1>2

LEMMA FinishesOnce ==
    ASSUME RegistersInv, OnceInv, NEW q \in Requests, FinishValidation(q)
    PROVE  OnceInv'
<1>0. RegistersTypeOK
  BY DEF RegistersInv
<1>1. record.status \in Statuses
  BY DEF FinishValidation, At, RegistersInv, Present, RegistersTypeOK, Record
<1>2. At(q, "emit") /\ CorrelateControl(q) /\ trail' = Drift(session[q].old, record.status, trail, q)
      /\ UNCHANGED <<validations, around>>
  BY DEF FinishValidation
<1>3. SameWritten
  BY <1>0, <1>1, <1>2, DriftUnwritten DEF SameWritten, RegistersTypeOK
<1>4. \A x \in Requests : Onward(x)
  BY <1>0, <1>2, StepsOnward DEF CorrelateControl, At, PCs
<1>5. UNCHANGED links \/ Correlated
  BY <1>2 DEF CorrelateControl
<1> QED
  BY <1>0, <1>2, <1>3, <1>4, <1>5, OnwardInv

LEMMA PassesOnce ==
    ASSUME RegistersInv, ExposurePass, OnceInv,
           \/ BeginSyncExposures \/ SyncExposures \/ CorrelateExposure \/ PassFails
           \/ SyncControls \/ SyncReports \/ SyncPlans
           \/ \E e \in Neighbours : Appears(e)
    PROVE  OnceInv'
<1>0. RegistersTypeOK
  BY DEF RegistersInv
<1>1. UNCHANGED <<validations, session>> /\ around \subseteq around' /\ (UNCHANGED links \/ Correlated)
  BY DEF BeginSyncExposures, SyncExposures, CorrelateExposure, PassFails, SyncControls,
     SyncReports,
     SyncPlans, Appears
<1>2. SameWritten
  <2>1. CASE SyncExposures \/ SyncControls \/ SyncReports \/ SyncPlans
    <3>1. pass.facts \in 0..1
      BY <1>0 DEF RegistersTypeOK
    <3>2. \E f \in 0..1 : Registered(f, None)
      BY <2>1, <3>1 DEF SyncExposures, SyncControls, SyncReports, SyncPlans, Registered,
         ExposurePass
    <3> QED
      BY <1>0, <3>2, RegisteredUnwritten
  <2>2. CASE ~(SyncExposures \/ SyncControls \/ SyncReports \/ SyncPlans)
    BY <2>2 DEF BeginSyncExposures, CorrelateExposure, PassFails, Appears, SameWritten
  <2> QED
    BY <2>1, <2>2
<1>3. \A x \in Requests : Onward(x)
  BY <1>1 DEF Onward
<1> QED
  BY <1>0, <1>1, <1>2, <1>3, OnwardInv

\* A process that starts afresh knows of nothing that was recorded.
LEMMA AfreshOnce ==
    ASSUME RegistersInv, NoRequests, OnceInv, Restart \/ BeginRun
    PROVE  OnceInv'
<1>1. trail' = <<>> /\ validations' = <<>>
  BY DEF Restart, BeginRun
<1>2. session \in [Requests -> Session]
  BY DEF RegistersInv, RegistersTypeOK
<1>3. \A r \in Requests : session'[r].pc \in {"idle", "killed"}
  <2>1. CASE Restart
    <3>1. [Idle EXCEPT !.pc = "killed"].pc = "killed"
      BY IdleType DEF Session
    <3>2. \A r \in Requests : session'[r] = IF session[r].pc = "idle" THEN session[r]
                                            ELSE [Idle EXCEPT !.pc = "killed"]
      BY <2>1 DEF Restart, At
    <3> QED
      BY <3>1, <3>2
  <2>2. CASE BeginRun
    BY <2>2 DEF BeginRun, NoRequests, At
  <2> QED
    BY <2>1, <2>2
<1>4. \A r \in Requests : By(validations', r) = {} /\ Written(trail', r) = {}
  BY <1>1 DEF By, Written
<1>5. \A r \in Requests : RequestInv(r)'
  BY <1>3, <1>4 DEF RequestInv, At, Uncounted
<1>6. LinkInv'
  BY DEF OnceInv, LinkInv, Restart, BeginRun
<1> QED
  BY <1>5, <1>6 DEF OnceInv

LEMMA OnceStep ==
    ASSUME RegistersInv, ExposurePass, NoRequests, OnceInv, [RegistersNext]_registerVars
    PROVE  OnceInv'
<1>1. CASE UNCHANGED registerVars
  <2>1. SameWritten /\ \A x \in Requests : Onward(x)
    BY <1>1 DEF registerVars, SameWritten, Onward
  <2> QED
    BY <1>1, <2>1, OnwardInv DEF registerVars, RegistersInv
<1> QED
  BY <1>1, BeginsOnce, CreatesOnce, MovesOnce, JudgesOnce, FinishesOnce, PassesOnce, AfreshOnce
     DEF RegistersNext

LEMMA InitialOnce == RegistersInit => OnceInv
<1> SUFFICES ASSUME RegistersInit PROVE OnceInv
  OBVIOUS
<1>1. LinkInv
  BY DEF RegistersInit, LinkInv
<1>2. ASSUME NEW r \in Requests PROVE RequestInv(r)
  <2>1. session[r].pc = "idle"
    BY DEF RegistersInit, Idle
  <2>2. Written(trail, r) = {}
    <3>1. \A i \in DOMAIN trail : trail[i].event # "VALIDATED"
      BY DEF RegistersInit
    <3> QED
      BY <3>1 DEF Written
  <2>3. By(validations, r) = {}
    <3>1. \A i \in DOMAIN validations : validations[i].by = None
      <4>1. \/ validations = <<>>
            \/ \E o \in Outcomes : validations = <<[outcome |-> o, technique |-> Idle.technique,
                                                    by |-> None]>>
        BY DEF RegistersInit
      <4> QED
        BY <4>1
    <3> QED
      BY <3>1, RegistersAssumption DEF By
  <2> QED
    BY <2>1, <2>2, <2>3 DEF RequestInv, At, Uncounted
<1> QED
  BY <1>1, <1>2 DEF OnceInv

\* A request is counted once, when it was answered or got as far as a failure,
\* with its entry in the history; and what a record relates to is linked once
\* (execute_validation, correlate_control, correlate_exposure).
THEOREM CountedOnce == RegistersSpec => []RecordedOnce
<1>1. RegistersInit => RegistersInv /\ ExposurePass /\ NoRequests /\ OnceInv
  BY InitialInv, InitialRoles, InitialOnce
<1>2. RegistersInv /\ ExposurePass /\ NoRequests /\ OnceInv /\ [RegistersNext]_registerVars
        => RegistersInv' /\ ExposurePass' /\ NoRequests' /\ OnceInv'
  BY StepInv, NoRequestsStep, OnceStep
<1> QED
  BY <1>1, <1>2, RegisteredOnce, PTL DEF RegistersSpec
=============================================================================
