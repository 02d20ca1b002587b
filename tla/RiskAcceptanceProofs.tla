------------------------- MODULE RiskAcceptanceProofs -------------------------
(***************************************************************************)
(* Theorems about RiskAcceptance for every set of requests and processes.  *)
(*                                                                         *)
(* Under Spec: LocalInv says that a request working on the remediation     *)
(* finds it in its dict; HandInv that an acceptance in a request's hand is *)
(* REVOKED in the dict of its process and that nobody else changes its     *)
(* row; CacheInv that only the process that granted an acceptance, or one  *)
(* that reloads, knows it.  The steps that concern the remediation are     *)
(* quiet (QuietStep): they disturb none of this.                           *)
(*                                                                         *)
(* Under AdminsInTurnSpec: AgreeInv says where dict and table differ, and  *)
(* ListInv how far a request is in bringing them together again.           *)
(***************************************************************************)
EXTENDS RiskAcceptance, TLAPS

\* Where a request works on the remediation, and on acceptances.
RemPCs == {"insert", "except", "getRem", "commitRem"}
AccPCs == {"existing", "revokeOld", "getOld", "commitAcc", "getAcc", "commitRevoke"}

LocalInv(q) ==
    /\ req[q].pc \in RemPCs => Known(q)
    /\ req[q].pc \in {"getRem", "commitRem"} => req[q].rem # NoId
    /\ req[q].pc = "commitRem" => remRow.id # NoId
    /\ req[q].pc \in {"getOld", "getAcc"} => req[q].acc # NoId

BaseInv == TypeOK /\ (\A q \in Requests : LocalInv(q))

-----------------------------------------------------------------------------
(* Type correctness.                                                        *)

LEMMA AtType == \A pc \in PCs : At(pc) \in Request
BY DEF At, Request

LEMMA GoType ==
    ASSUME TypeOK, NEW q \in Requests, NEW r \in Request, Go(q, r)
    PROVE  req' \in [Requests -> Request] /\ req'[q] = r
           /\ \A x \in Requests \ {q} : req'[x] = req[x]
<1>1. req \in [Requests -> Request]
  BY DEF TypeOK
<1> QED
  BY <1>1 DEF Go

\* A commit leaves the other requests where they are.
LEMMA CommitType ==
    ASSUME TypeOK, NEW q \in Requests, NEW r \in Request, NEW written, Commit(q, written, r)
    PROVE  /\ req' \in [Requests -> Request] /\ req'[q] = r
           /\ \A x \in Requests \ {q} :
                /\ req'[x].pc = req[x].pc
                /\ req'[x].rem = req[x].rem
                /\ req'[x].acc = req[x].acc
                /\ req'[x].rows = req[x].rows
                /\ req'[x].live = req[x].live
                /\ req'[x].stale = (req[x].stale \/ req[x].rows \cap written # {})
<1>1. req \in [Requests -> Request]
  BY DEF TypeOK
<1>2. \A x \in Requests :
        [req[x] EXCEPT !.stale = @ \/ req[x].rows \cap written # {}] \in Request
  BY <1>1 DEF Request
<1> QED
  BY <1>1, <1>2 DEF Commit, Request

\* A request takes up an acceptance, or reads rows.
LEMMA RequestType ==
    ASSUME NEW r \in Request, NEW pc \in PCs, NEW a \in Requests \cup {NoId},
           NEW rows \in SUBSET (Requests \cup {Rem})
    PROVE  /\ [r EXCEPT !.pc = pc, !.acc = a] \in Request
           /\ [r EXCEPT !.pc = pc, !.rows = rows] \in Request
           /\ [r EXCEPT !.pc = pc, !.acc = a, !.rows = rows] \in Request
<1>1. [r EXCEPT !.pc = pc, !.acc = a] \in Request
  BY DEF Request
<1>2. [r EXCEPT !.pc = pc, !.rows = rows] \in Request
  BY DEF Request
<1>3. [r EXCEPT !.pc = pc, !.acc = a, !.rows = rows] \in Request
  BY DEF Request
<1> QED
  BY <1>1, <1>2, <1>3

LEMMA AfterRemType ==
    ASSUME NEW q \in Requests
    PROVE  AfterRem(q) \in PCs /\ AfterRem(q) \in {"done", "except", "existing"}
           /\ (AfterRem(q) \in {"except", "existing"} => KindOf[q] = "accept")
BY DEF AfterRem, PCs, Over

\* The status of a dict's record, or of the row, changes.
LEMMA StatusType ==
    ASSUME NEW r \in Remediation, NEW s \in Status, r.id # NoId
    PROVE  [r EXCEPT !.status = s] \in Remediation /\ [r EXCEPT !.status = s].id = r.id
BY DEF Remediation

LEMMA SetStatusType ==
    ASSUME TypeOK, NEW q \in Requests, Known(q), NEW s \in Status, SetStatus(q, s)
    PROVE  /\ remCache' \in [Procs -> Remediation]
           /\ \A p \in Procs : remCache'[p].id = remCache[p].id
           /\ \A p \in Procs : remCache'[p].id = NoId => remCache'[p] = NoRem
           /\ req' \in [Requests -> Request]
           /\ req'[q] = [At("getRem") EXCEPT !.rem = Cached(q).id, !.goal = s]
           /\ \A x \in Requests \ {q} : req'[x] = req[x]
<1>1. /\ remCache \in [Procs -> Remediation]
      /\ \A p \in Procs : remCache[p].id = NoId => remCache[p] = NoRem
  BY DEF TypeOK
<1>2. ProcOf[q] \in Procs
  BY ConstantsAssumption
<1>3. remCache[ProcOf[q]] \in Remediation /\ remCache[ProcOf[q]].id # NoId
  BY <1>1, <1>2 DEF Known, Cached
<1>4. remCache' = [remCache EXCEPT ![ProcOf[q]] = [remCache[ProcOf[q]] EXCEPT !.status = s]]
  BY DEF SetStatus
<1>5. [At("getRem") EXCEPT !.rem = Cached(q).id, !.goal = s] \in Request
  BY <1>3 DEF At, Request, Remediation, PCs, Over, Cached
<1>6. Go(q, [At("getRem") EXCEPT !.rem = Cached(q).id, !.goal = s])
  BY DEF SetStatus
<1>7. /\ req' \in [Requests -> Request]
      /\ req'[q] = [At("getRem") EXCEPT !.rem = Cached(q).id, !.goal = s]
      /\ \A x \in Requests \ {q} : req'[x] = req[x]
  BY <1>5, <1>6, GoType
<1>8. [remCache[ProcOf[q]] EXCEPT !.status = s] \in Remediation
      /\ [remCache[ProcOf[q]] EXCEPT !.status = s].id = remCache[ProcOf[q]].id
  BY <1>3, StatusType
<1> QED
  BY <1>1, <1>2, <1>3, <1>4, <1>7, <1>8

\* What validate_transition lets through, or turns down.
LEMMA ApplyStatusType ==
    ASSUME TypeOK, NEW q \in Requests, Known(q), NEW s \in Status, ApplyStatus(q, s)
    PROVE  /\ remCache' \in [Procs -> Remediation]
           /\ \A p \in Procs : remCache'[p].id = remCache[p].id
           /\ \A p \in Procs : remCache'[p].id = NoId => remCache'[p] = NoRem
           /\ req' \in [Requests -> Request]
           /\ \/ req'[q] = [At("getRem") EXCEPT !.rem = Cached(q).id, !.goal = s]
              \/ req'[q] = At("failed")
           /\ \A x \in Requests \ {q} : req'[x] = req[x]
<1>1. CASE SetStatus(q, s)
  BY <1>1, SetStatusType
<1>2. CASE Go(q, At("failed")) /\ UNCHANGED remCache
  <2>1. At("failed") \in Request
    BY AtType DEF PCs, Over
  <2>2. /\ req' \in [Requests -> Request]
        /\ req'[q] = At("failed")
        /\ \A x \in Requests \ {q} : req'[x] = req[x]
    BY <1>2, <2>1, GoType
  <2> QED
    BY <1>2, <2>2 DEF TypeOK
<1> QED
  BY <1>1, <1>2 DEF ApplyStatus

LEMMA TouchType ==
    ASSUME TypeOK, NEW q \in Requests, Known(q), Touch(q)
    PROVE  /\ req' \in [Requests -> Request]
           /\ req'[q] = [At("getRem") EXCEPT !.rem = Cached(q).id]
           /\ \A x \in Requests \ {q} : req'[x] = req[x]
<1>1. remCache \in [Procs -> Remediation] /\ ProcOf[q] \in Procs
  BY ConstantsAssumption DEF TypeOK
<1>2. [At("getRem") EXCEPT !.rem = Cached(q).id] \in Request
  BY <1>1 DEF At, Request, Remediation, PCs, Over, Cached
<1>3. Go(q, [At("getRem") EXCEPT !.rem = Cached(q).id])
  BY DEF Touch
<1> QED
  BY <1>2, <1>3, GoType

\* An acceptance's status changes in the dict of q's process.
LEMMA MarkType ==
    ASSUME TypeOK, NEW q \in Requests, NEW a \in Requests, NEW s \in AccStatus,
           accCache' = [accCache EXCEPT ![ProcOf[q]][a] = s]
    PROVE  /\ accCache' \in [Procs -> [Requests -> AccStatus]]
           /\ accCache'[ProcOf[q]][a] = s
           /\ \A p \in Procs, b \in Requests :
                p # ProcOf[q] \/ b # a => accCache'[p][b] = accCache[p][b]
<1>1. accCache \in [Procs -> [Requests -> AccStatus]] /\ ProcOf[q] \in Procs
  BY ConstantsAssumption DEF TypeOK
<1>2. [accCache[ProcOf[q]] EXCEPT ![a] = s] \in [Requests -> AccStatus]
  BY <1>1
<1> QED
  BY <1>1, <1>2

LEMMA LogType ==
    ASSUME TypeOK, NEW q \in Requests, NEW s \in Status, Log(q, s)
    PROVE  /\ history' \in Seq([by: Requests, new: Status])
           /\ history' # <<>> /\ history'[Len(history')].new = s
<1>1. history \in Seq([by: Requests, new: Status])
  BY DEF TypeOK
<1>2. [by |-> q, new |-> s] \in [by: Requests, new: Status]
  OBVIOUS
<1> QED
  BY <1>1, <1>2 DEF Log

\* Every step of a request and of a process keeps the types.
LEMMA TypeStep ==
    ASSUME BaseInv, [Next]_vars
    PROVE  TypeOK'
<1> USE DEF BaseInv
<1>t /\ remRow \in Remediation
     /\ history \in Seq([by: Requests, new: Status])
     /\ accRow \in [Requests -> AccStatus]
     /\ remCache \in [Procs -> Remediation]
     /\ accCache \in [Procs -> [Requests -> AccStatus]]
     /\ req \in [Requests -> Request]
     /\ remRow.id = NoId => remRow = NoRem
     /\ \A p \in Procs : remCache[p].id = NoId => remCache[p] = NoRem
  BY DEF TypeOK
<1>a \A pc \in PCs : At(pc) \in Request
  BY AtType
<1>1. ASSUME NEW q \in Requests, UpdateStatus(q) PROVE TypeOK'
  <2>1. KindOf[q] \in Status
    BY <1>1 DEF UpdateStatus, Targets
  <2> QED
    BY <1>1, <1>t, <2>1, ApplyStatusType DEF UpdateStatus, TypeOK, db
<1>2. ASSUME NEW q \in Requests, AssignOwner(q) PROVE TypeOK'
  BY <1>2, <1>t, TouchType DEF AssignOwner, TypeOK, db
<1>3. ASSUME NEW q \in Requests, SyncRecommendation(q) PROVE TypeOK'
  <2>1. CASE Known(q) /\ Touch(q) /\ UNCHANGED remCache
    BY <1>3, <1>t, <2>1, TouchType DEF SyncRecommendation, TypeOK, db
  <2>2. CASE /\ remCache' = [remCache EXCEPT ![ProcOf[q]] = [id |-> q, status |-> "OPEN"]]
             /\ Go(q, At("insert"))
    <3>1. [id |-> q, status |-> "OPEN"] \in Remediation /\ q # NoId
      BY ConstantsAssumption DEF Remediation, Status
    <3>2. /\ remCache' \in [Procs -> Remediation]
          /\ \A p \in Procs : remCache'[p].id = NoId => remCache'[p] = NoRem
      BY <1>t, <2>2, <3>1
    <3>3. req' \in [Requests -> Request]
      BY <1>a, <2>2, GoType DEF PCs
    <3> QED
      BY <1>3, <1>t, <3>2, <3>3 DEF SyncRecommendation, TypeOK, db
  <2> QED
    BY <1>3, <2>1, <2>2 DEF SyncRecommendation
<1>4. ASSUME NEW q \in Requests, InsertRem(q) PROVE TypeOK'
  <2>1. CASE /\ remRow' = [id |-> q, status |-> "OPEN"]
             /\ Log(q, "OPEN")
             /\ Go(q, At(IF KindOf[q] = "accept" THEN "except" ELSE "done"))
    <3>1. remRow' \in Remediation /\ remRow'.id # NoId
      BY <2>1, ConstantsAssumption DEF Remediation, Status
    <3>2. history' \in Seq([by: Requests, new: Status])
      BY <2>1, LogType DEF Status
    <3>3. At(IF KindOf[q] = "accept" THEN "except" ELSE "done") \in Request
      BY <1>a DEF PCs, Over
    <3>4. req' \in [Requests -> Request]
      BY <2>1, <3>3, GoType
    <3> QED
      BY <1>4, <1>t, <3>1, <3>2, <3>4 DEF InsertRem, TypeOK
  <2>2. CASE Go(q, At("failed")) /\ UNCHANGED <<remRow, history>>
    <3>1. req' \in [Requests -> Request]
      BY <1>a, <2>2, GoType DEF PCs, Over
    <3> QED
      BY <1>4, <1>t, <2>2, <3>1 DEF InsertRem, TypeOK
  <2> QED
    BY <1>4, <2>1, <2>2 DEF InsertRem
<1>5. ASSUME NEW q \in Requests, GetRem(q) PROVE TypeOK'
  <2>1. [req[q] EXCEPT !.pc = "commitRem", !.rows = {Rem}] \in Request
    BY <1>t DEF Request, PCs
  <2>2. At(AfterRem(q)) \in Request
    BY <1>a, AfterRemType
  <2>3. req' \in [Requests -> Request]
    BY <1>5, <2>1, <2>2, GoType DEF GetRem
  <2> QED
    BY <1>5, <1>t, <2>3 DEF GetRem, TypeOK, db
<1>6. ASSUME NEW q \in Requests, CommitRem(q) PROVE TypeOK'
  <2>1. At(AfterRem(q)) \in Request /\ At("failed") \in Request
    BY <1>a, AfterRemType DEF PCs, Over
  <2>2. req' \in [Requests -> Request]
    BY <1>6, <2>1, GoType, CommitType DEF CommitRem
  <2>3. /\ remRow' \in Remediation
        /\ remRow'.id = NoId => remRow' = NoRem
        /\ history' \in Seq([by: Requests, new: Status])
    <3>1. CASE UNCHANGED <<remRow, history>>
      BY <1>t, <3>1
    <3>2. CASE /\ req[q].goal # "none"
               /\ remRow' = [remRow EXCEPT !.status = req[q].goal]
               /\ Log(q, req[q].goal)
      <4>1. req[q].goal \in Status
        BY <1>t, <3>2 DEF Request
      <4>2. remRow.id # NoId
        BY <1>6 DEF CommitRem, LocalInv
      <4> QED
        BY <1>t, <3>2, <4>1, <4>2, StatusType, LogType
    <3> QED
      BY <1>6, <3>1, <3>2 DEF CommitRem
  <2> QED
    BY <1>6, <1>t, <2>2, <2>3 DEF CommitRem, TypeOK
<1>7. ASSUME NEW q \in Requests, AcceptRisk(q) PROVE TypeOK'
  <2>1. CASE Known(q) /\ ApplyStatus(q, "ACCEPTED_RISK")
    BY <1>7, <1>t, <2>1, ApplyStatusType DEF AcceptRisk, TypeOK, db, Status
  <2>2. CASE Go(q, At("sync")) /\ UNCHANGED remCache
    BY <1>7, <1>t, <1>a, <2>2, GoType DEF AcceptRisk, TypeOK, db, PCs
  <2> QED
    BY <1>7, <2>1, <2>2 DEF AcceptRisk
<1>8. ASSUME NEW q \in Requests, ApplyException(q) PROVE TypeOK'
  <2>1. Known(q)
    BY <1>8 DEF ApplyException, LocalInv, RemPCs
  <2> QED
    BY <1>8, <1>t, <2>1, ApplyStatusType DEF ApplyException, TypeOK, db, Status
<1>9. ASSUME NEW q \in Requests, ListExisting(q) PROVE TypeOK'
  <2>1. [At("revokeOld") EXCEPT
           !.live = \E a \in Requests : accCache[ProcOf[q]][a] # "none"] \in Request
    BY DEF At, Request, PCs
  <2> QED
    BY <1>9, <1>t, <2>1, GoType DEF ListExisting, TypeOK, db
<1>10. ASSUME NEW q \in Requests, RevokeOld(q) PROVE TypeOK'
  <2>1. PICK a \in Requests :
          /\ accCache' = [accCache EXCEPT ![ProcOf[q]][a] = "REVOKED"]
          /\ Go(q, [req[q] EXCEPT !.pc = "getOld", !.acc = a])
    BY <1>10 DEF RevokeOld, ActiveIn
  <2>2. [req[q] EXCEPT !.pc = "getOld", !.acc = a] \in Request
    <3>1. req[q] \in Request /\ "getOld" \in PCs
      BY <1>t DEF PCs
    <3> QED
      BY <3>1, RequestType
  <2> QED
    BY <1>10, <1>t, <2>1, <2>2, GoType, MarkType DEF RevokeOld, TypeOK, db, AccStatus
<1>11. ASSUME NEW q \in Requests, GetOld(q) PROVE TypeOK'
  <2>1. req[q].acc \in Requests
    BY <1>11, <1>t DEF GetOld, LocalInv, Request
  <2>2. [req[q] EXCEPT !.pc = "revokeOld", !.acc = NoId,
           !.rows = @ \cup {a \in {req[q].acc} : accRow[a] # "none"}] \in Request
    <3> DEFINE R == req[q].rows \cup {a \in {req[q].acc} : accRow[a] # "none"}
    <3>1. req[q] \in Request /\ "revokeOld" \in PCs
      BY <1>t DEF PCs
    <3>2. R \in SUBSET (Requests \cup {Rem})
      BY <2>1, <3>1 DEF Request
    <3>3. [req[q] EXCEPT !.pc = "revokeOld", !.acc = NoId, !.rows = R] \in Request
      BY <3>1, <3>2, RequestType
    <3> QED
      BY <3>3
  <2> QED
    BY <1>11, <1>t, <2>2, GoType DEF GetOld, TypeOK, db
<1>12. ASSUME NEW q \in Requests, CreateAcceptance(q) PROVE TypeOK'
  <2>1. [req[q] EXCEPT !.pc = "commitAcc"] \in Request
    BY <1>t DEF Request, PCs
  <2> QED
    BY <1>12, <1>t, <2>1, GoType, MarkType DEF CreateAcceptance, TypeOK, db, AccStatus
<1>13. ASSUME NEW q \in Requests, CommitAcceptance(q) PROVE TypeOK'
  <2>1. At("done") \in Request
    BY <1>a DEF PCs, Over
  <2>2. req' \in [Requests -> Request]
    BY <1>13, <2>1, CommitType DEF CommitAcceptance
  <2>3. accRow' \in [Requests -> AccStatus]
    BY <1>13, <1>t DEF CommitAcceptance, AccStatus
  <2> QED
    BY <1>13, <1>t, <2>2, <2>3 DEF CommitAcceptance, TypeOK
<1>14. ASSUME NEW q \in Requests, RevokeRisk(q) PROVE TypeOK'
  <2>1. PICK a \in Requests :
          /\ accCache' = [accCache EXCEPT ![ProcOf[q]][a] = "REVOKED"]
          /\ Go(q, [At("getAcc") EXCEPT !.acc = a])
    BY <1>14 DEF RevokeRisk, ActiveIn
  <2>2. [At("getAcc") EXCEPT !.acc = a] \in Request
    BY DEF At, Request, PCs
  <2> QED
    BY <1>14, <1>t, <2>1, <2>2, GoType, MarkType DEF RevokeRisk, TypeOK, db, AccStatus
<1>15. ASSUME NEW q \in Requests, GetAcceptance(q) PROVE TypeOK'
  <2>1. req[q].acc \in Requests
    BY <1>15, <1>t DEF GetAcceptance, LocalInv, Request
  <2>2. [req[q] EXCEPT !.pc = "commitRevoke",
           !.rows = {a \in {req[q].acc} : accRow[a] # "none"}] \in Request
    <3> DEFINE R == {a \in {req[q].acc} : accRow[a] # "none"}
    <3>1. req[q] \in Request /\ "commitRevoke" \in PCs
      BY <1>t DEF PCs
    <3>2. R \in SUBSET (Requests \cup {Rem})
      BY <2>1
    <3>3. [req[q] EXCEPT !.pc = "commitRevoke", !.rows = R] \in Request
      BY <3>1, <3>2, RequestType
    <3> QED
      BY <3>3
  <2> QED
    BY <1>15, <1>t, <2>2, GoType DEF GetAcceptance, TypeOK, db
<1>16. ASSUME NEW q \in Requests, CommitRevoke(q) PROVE TypeOK'
  <2>1. At("reopen") \in Request
    BY <1>a DEF PCs
  <2>2. req' \in [Requests -> Request]
    BY <1>16, <2>1, CommitType DEF CommitRevoke
  <2>3. accRow' \in [Requests -> AccStatus]
    BY <1>16, <1>t DEF CommitRevoke, AccStatus
  <2> QED
    BY <1>16, <1>t, <2>2, <2>3 DEF CommitRevoke, TypeOK
<1>17. ASSUME NEW q \in Requests, Reopen(q) PROVE TypeOK'
  BY <1>17, <1>t, SetStatusType DEF Reopen, TypeOK, db, Status
<1>18. ASSUME NEW q \in Requests, Fail(q) PROVE TypeOK'
  BY <1>18, <1>t, <1>a, GoType DEF Fail, TypeOK, db, PCs, Over
<1>19. ASSUME NEW p \in Procs, Restart(p) PROVE TypeOK'
  <2>1. At("failed") \in Request
    BY <1>a DEF PCs, Over
  <2>2. req' \in [Requests -> Request]
    BY <1>19, <1>t, <2>1 DEF Restart
  <2>3. NoRem \in Remediation
    BY DEF NoRem, Remediation, Status
  <2>4. /\ remCache' \in [Procs -> Remediation]
        /\ \A x \in Procs : remCache'[x].id = NoId => remCache'[x] = NoRem
    BY <1>19, <1>t, <2>3 DEF Restart
  <2>5. accCache' \in [Procs -> [Requests -> AccStatus]]
    <3>1. [q \in Requests |-> "none"] \in [Requests -> AccStatus]
      BY DEF AccStatus
    <3> QED
      BY <1>19, <1>t, <3>1 DEF Restart
  <2> QED
    BY <1>19, <1>t, <2>2, <2>4, <2>5 DEF Restart, TypeOK, db
<1>20. CASE UNCHANGED vars
  BY <1>20, <1>t DEF vars, TypeOK
<1> QED
  BY <1>1, <1>2, <1>3, <1>4, <1>5, <1>6, <1>7, <1>8, <1>9, <1>10, <1>11, <1>12, <1>13,
     <1>14, <1>15, <1>16, <1>17, <1>18, <1>19, <1>20 DEF Next, Calm, Step

-----------------------------------------------------------------------------
(* Requests find what they work on.                                         *)

LEMMA LocalFrame ==
    ASSUME NEW x \in Requests, LocalInv(x),
           req'[x].pc = req[x].pc, req'[x].rem = req[x].rem, req'[x].acc = req[x].acc,
           Known(x) => Known(x)', remRow.id # NoId => remRow'.id # NoId
    PROVE  LocalInv(x)'
BY DEF LocalInv

\* A request that works on nothing.
LEMMA LocalIdle ==
    ASSUME NEW x \in Requests, req'[x].pc \notin RemPCs \cup {"getOld", "getAcc"}
    PROVE  LocalInv(x)'
BY DEF LocalInv, RemPCs

\* The steps that go to the remediation's row.
LEMMA LocalToRem ==
    ASSUME TypeOK, NEW q \in Requests, Known(q), NEW s \in Status \cup {"none"},
           req'[q] = [At("getRem") EXCEPT !.rem = Cached(q).id, !.goal = s],
           \A p \in Procs : remCache'[p].id = remCache[p].id
    PROVE  LocalInv(q)'
<1>1. ProcOf[q] \in Procs
  BY ConstantsAssumption
<1>2. req'[q].pc = "getRem" /\ req'[q].rem = Cached(q).id
  BY DEF At
<1> QED
  BY <1>1, <1>2 DEF LocalInv, Known, Cached

LEMMA LocalStep ==
    ASSUME BaseInv, [Next]_vars
    PROVE  \A x \in Requests : LocalInv(x)'
<1> USE DEF BaseInv
<1>t /\ req \in [Requests -> Request] /\ ProcOf \in [Requests -> Procs]
     /\ remCache \in [Procs -> Remediation] /\ remRow \in Remediation
  BY ConstantsAssumption DEF TypeOK
<1>a \A pc \in PCs : At(pc) \in Request /\ At(pc).pc = pc
  BY AtType DEF At
<1>k ASSUME NEW q \in Requests, NEW s \in Status, Known(q), ApplyStatus(q, s),
            UNCHANGED remRow
     PROVE  \A x \in Requests : LocalInv(x)'
  <2>1. /\ \A p \in Procs : remCache'[p].id = remCache[p].id
        /\ req'[q] = [At("getRem") EXCEPT !.rem = Cached(q).id, !.goal = s]
             \/ req'[q] = At("failed")
        /\ \A x \in Requests \ {q} : req'[x] = req[x]
    BY <1>k, ApplyStatusType
  <2>2. LocalInv(q)'
    <3>1. CASE req'[q] = At("failed")
      BY <3>1, LocalIdle DEF At, RemPCs
    <3>2. CASE req'[q] = [At("getRem") EXCEPT !.rem = Cached(q).id, !.goal = s]
      BY <1>k, <2>1, <3>2, LocalToRem
    <3> QED
      BY <2>1, <3>1, <3>2
  <2>3. \A x \in Requests : Known(x) => Known(x)'
    BY <1>t, <2>1 DEF Known, Cached
  <2> QED
    BY <1>k, <2>1, <2>2, <2>3, LocalFrame
<1>m ASSUME NEW q \in Requests, Known(q), Touch(q), UNCHANGED <<remRow, remCache>>
     PROVE  \A x \in Requests : LocalInv(x)'
  <2>1. /\ req'[q] = [At("getRem") EXCEPT !.rem = Cached(q).id]
        /\ \A x \in Requests \ {q} : req'[x] = req[x]
    BY <1>m, TouchType
  <2>2. LocalInv(q)'
    <3>1. req'[q].pc = "getRem" /\ req'[q].rem = Cached(q).id
      BY <2>1 DEF At
    <3> QED
      BY <1>m, <3>1 DEF LocalInv, Known, Cached
  <2> QED
    BY <1>m, <2>1, <2>2, LocalFrame DEF Known, Cached
<1>1. ASSUME NEW q \in Requests, UpdateStatus(q) PROVE \A x \in Requests : LocalInv(x)'
  <2>1. KindOf[q] \in Status
    BY <1>1 DEF UpdateStatus, Targets
  <2> QED
    BY <1>1, <2>1, <1>k DEF UpdateStatus, db
<1>2. ASSUME NEW q \in Requests, AssignOwner(q) PROVE \A x \in Requests : LocalInv(x)'
  BY <1>2, <1>m DEF AssignOwner, db
<1>3. ASSUME NEW q \in Requests, SyncRecommendation(q)
      PROVE  \A x \in Requests : LocalInv(x)'
  <2>1. CASE Known(q) /\ Touch(q) /\ UNCHANGED remCache
    BY <1>3, <2>1, <1>m DEF SyncRecommendation, db
  <2>2. CASE /\ remCache' = [remCache EXCEPT ![ProcOf[q]] = [id |-> q, status |-> "OPEN"]]
             /\ Go(q, At("insert"))
    <3>1. req'[q] = At("insert") /\ \A x \in Requests \ {q} : req'[x] = req[x]
      BY <1>a, <2>2, GoType DEF PCs
    <3>2. \A x \in Requests : Known(x) => Known(x)'
      BY <1>t, <2>2, ConstantsAssumption DEF Known, Cached
    <3>3. Known(q)'
      BY <1>t, <2>2, ConstantsAssumption DEF Known, Cached
    <3>4. LocalInv(q)'
      BY <3>1, <3>3 DEF LocalInv, At
    <3> QED
      BY <1>3, <3>1, <3>2, <3>4, LocalFrame DEF SyncRecommendation, db
  <2> QED
    BY <1>3, <2>1, <2>2 DEF SyncRecommendation
<1>4. ASSUME NEW q \in Requests, InsertRem(q) PROVE \A x \in Requests : LocalInv(x)'
  <2>1. /\ req'[q] \in {At("except"), At("done"), At("failed")}
        /\ \A x \in Requests \ {q} : req'[x] = req[x]
    <3>1. At("except") \in Request /\ At("done") \in Request /\ At("failed") \in Request
      BY <1>a DEF PCs, Over
    <3> QED
      BY <1>4, <3>1, GoType DEF InsertRem
  <2>2. remRow.id # NoId => remRow'.id # NoId
    BY <1>4, <1>t, ConstantsAssumption DEF InsertRem
  <2>3. Known(q)
    BY <1>4 DEF InsertRem, LocalInv, RemPCs
  <2>4. \A x \in Requests : Known(x) => Known(x)'
    BY <1>4 DEF InsertRem, Known, Cached
  <2>5. LocalInv(q)'
    BY <2>1, <2>3, <2>4 DEF LocalInv, At, RemPCs
  <2> QED
    BY <2>1, <2>2, <2>4, <2>5, LocalFrame
<1>5. ASSUME NEW q \in Requests, GetRem(q) PROVE \A x \in Requests : LocalInv(x)'
  <2>1. Known(q) /\ req[q].rem # NoId
    BY <1>5 DEF GetRem, LocalInv, RemPCs
  <2>2. At(AfterRem(q)) \in Request /\ At(AfterRem(q)).pc \in {"done", "except", "existing"}
    BY <1>a, AfterRemType
  <2>3. [req[q] EXCEPT !.pc = "commitRem", !.rows = {Rem}] \in Request
    BY <1>t DEF Request, PCs
  <2>4. \A x \in Requests \ {q} : req'[x] = req[x]
    BY <1>5, <2>2, <2>3, GoType DEF GetRem
  <2>5. LocalInv(q)'
    <3>1. CASE remRow.id = req[q].rem
      <4>1. req'[q] = [req[q] EXCEPT !.pc = "commitRem", !.rows = {Rem}]
        BY <1>5, <2>3, <3>1, GoType DEF GetRem
      <4>2. req'[q].pc = "commitRem" /\ req'[q].rem = req[q].rem
        BY <1>t, <4>1 DEF Request
      <4> QED
        BY <1>5, <2>1, <3>1, <4>2 DEF GetRem, LocalInv, Known, Cached, db
    <3>2. CASE remRow.id # req[q].rem
      <4>1. req'[q] = At(AfterRem(q))
        BY <1>5, <2>2, <3>2, GoType DEF GetRem
      <4> QED
        BY <1>5, <2>1, <2>2, <4>1 DEF GetRem, LocalInv, Known, Cached
    <3> QED
      BY <3>1, <3>2
  <2> QED
    BY <1>5, <2>4, <2>5, LocalFrame DEF GetRem, Known, Cached, db
<1>6. ASSUME NEW q \in Requests, CommitRem(q) PROVE \A x \in Requests : LocalInv(x)'
  <2>1. /\ At(AfterRem(q)) \in Request /\ At("failed") \in Request
        /\ At(AfterRem(q)).pc \in {"done", "except", "existing"}
        /\ At("failed").pc = "failed"
    BY <1>a, AfterRemType DEF PCs, Over
  <2>2. /\ req'[q] \in {At(AfterRem(q)), At("failed")}
        /\ \A x \in Requests \ {q} : /\ req'[x].pc = req[x].pc
                                     /\ req'[x].rem = req[x].rem
                                     /\ req'[x].acc = req[x].acc
    <3>1. CASE Commit(q, {Rem}, At(AfterRem(q)))
      BY <2>1, <3>1, CommitType
    <3>2. CASE Go(q, At("failed"))
      BY <2>1, <3>2, GoType
    <3> QED
      BY <1>6, <3>1, <3>2 DEF CommitRem
  <2>3. remRow.id # NoId => remRow'.id # NoId
    BY <1>6, <1>t DEF CommitRem, Remediation
  <2>4. Known(q) /\ \A x \in Requests : Known(x) => Known(x)'
    BY <1>6 DEF CommitRem, LocalInv, RemPCs, Known, Cached
  <2>5. LocalInv(q)'
    BY <2>1, <2>2, <2>4 DEF LocalInv
  <2> QED
    BY <2>2, <2>3, <2>4, <2>5, LocalFrame
<1>7. ASSUME NEW q \in Requests, AcceptRisk(q) PROVE \A x \in Requests : LocalInv(x)'
  <2>1. CASE Known(q) /\ ApplyStatus(q, "ACCEPTED_RISK")
    BY <1>7, <2>1, <1>k DEF AcceptRisk, db, Status
  <2>2. CASE Go(q, At("sync")) /\ UNCHANGED remCache
    <3>1. req'[q] = At("sync") /\ \A x \in Requests \ {q} : req'[x] = req[x]
      BY <1>a, <2>2, GoType DEF PCs
    <3>2. LocalInv(q)'
      BY <3>1, LocalIdle DEF At, RemPCs
    <3> QED
      BY <1>7, <2>2, <3>1, <3>2, LocalFrame DEF AcceptRisk, Known, Cached, db
  <2> QED
    BY <1>7, <2>1, <2>2 DEF AcceptRisk
<1>8. ASSUME NEW q \in Requests, ApplyException(q) PROVE \A x \in Requests : LocalInv(x)'
  <2>1. Known(q)
    BY <1>8 DEF ApplyException, LocalInv, RemPCs
  <2> QED
    BY <1>8, <2>1, <1>k DEF ApplyException, db, Status
\* The steps that only work on acceptances.
<1>n ASSUME NEW q \in Requests, req'[q].pc \notin RemPCs,
            req'[q].pc \in {"getOld", "getAcc"} => req'[q].acc # NoId,
            \A x \in Requests \ {q} : /\ req'[x].pc = req[x].pc
                                      /\ req'[x].rem = req[x].rem
                                      /\ req'[x].acc = req[x].acc,
            UNCHANGED <<remRow, remCache>>
     PROVE  \A x \in Requests : LocalInv(x)'
  <2>1. LocalInv(q)'
    BY <1>n DEF LocalInv, RemPCs
  <2>2. \A x \in Requests : Known(x) => Known(x)'
    BY <1>n DEF Known, Cached
  <2> QED
    BY <1>n, <2>1, <2>2, LocalFrame
<1>9. ASSUME NEW q \in Requests, ListExisting(q) PROVE \A x \in Requests : LocalInv(x)'
  <2>1. [At("revokeOld") EXCEPT
           !.live = \E a \in Requests : accCache[ProcOf[q]][a] # "none"] \in Request
    BY DEF At, Request, PCs
  <2>2. req'[q].pc = "revokeOld" /\ \A x \in Requests \ {q} : req'[x] = req[x]
    BY <1>9, <2>1, GoType DEF ListExisting, At
  <2> QED
    BY <1>9, <2>2, <1>n DEF ListExisting, db, RemPCs
<1>10. ASSUME NEW q \in Requests, RevokeOld(q) PROVE \A x \in Requests : LocalInv(x)'
  <2>1. PICK a \in Requests : Go(q, [req[q] EXCEPT !.pc = "getOld", !.acc = a])
    BY <1>10 DEF RevokeOld, ActiveIn
  <2>2. req' = [req EXCEPT ![q] = [req[q] EXCEPT !.pc = "getOld", !.acc = a]]
    BY <2>1 DEF Go
  <2>3. req[q] \in Request
    BY <1>t
  <2>4. /\ req'[q].pc = "getOld" /\ req'[q].acc = a
        /\ \A x \in Requests \ {q} : req'[x] = req[x]
    BY <1>t, <2>2, <2>3 DEF Request
  <2> QED
    BY <1>10, <2>4, <1>n, ConstantsAssumption DEF RevokeOld, db, RemPCs
<1>11. ASSUME NEW q \in Requests, GetOld(q) PROVE \A x \in Requests : LocalInv(x)'
  <2>1. req[q] \in Request
    BY <1>t
  <2>2. req'[q].pc = "revokeOld" /\ \A x \in Requests \ {q} : req'[x] = req[x]
    BY <1>11, <1>t, <2>1 DEF GetOld, Go, Request
  <2> QED
    BY <1>11, <2>2, <1>n DEF GetOld, db, RemPCs
<1>12. ASSUME NEW q \in Requests, CreateAcceptance(q) PROVE \A x \in Requests : LocalInv(x)'
  <2>1. req[q] \in Request
    BY <1>t
  <2>2. req'[q].pc = "commitAcc" /\ \A x \in Requests \ {q} : req'[x] = req[x]
    BY <1>12, <1>t, <2>1 DEF CreateAcceptance, Go, Request
  <2> QED
    BY <1>12, <2>2, <1>n DEF CreateAcceptance, db, RemPCs
<1>13. ASSUME NEW q \in Requests, CommitAcceptance(q) PROVE \A x \in Requests : LocalInv(x)'
  <2>1. At("done") \in Request /\ At("done").pc = "done"
    BY <1>a DEF PCs, Over
  <2>2. req'[q].pc = "done"
        /\ \A x \in Requests \ {q} : /\ req'[x].pc = req[x].pc
                                     /\ req'[x].rem = req[x].rem
                                     /\ req'[x].acc = req[x].acc
    <3>1. Commit(q, req[q].rows, At("done"))
      BY <1>13 DEF CommitAcceptance
    <3> QED
      BY <2>1, <3>1, CommitType
  <2> QED
    BY <1>13, <2>2, <1>n DEF CommitAcceptance, RemPCs
<1>14. ASSUME NEW q \in Requests, RevokeRisk(q) PROVE \A x \in Requests : LocalInv(x)'
  <2>1. PICK a \in Requests : Go(q, [At("getAcc") EXCEPT !.acc = a])
    BY <1>14 DEF RevokeRisk, ActiveIn
  <2>2. /\ req'[q].pc = "getAcc" /\ req'[q].acc = a
        /\ \A x \in Requests \ {q} : req'[x] = req[x]
    BY <1>t, <2>1 DEF Go, At
  <2> QED
    BY <1>14, <2>2, <1>n, ConstantsAssumption DEF RevokeRisk, db, RemPCs
<1>15. ASSUME NEW q \in Requests, GetAcceptance(q) PROVE \A x \in Requests : LocalInv(x)'
  <2>1. req[q] \in Request
    BY <1>t
  <2>2. req'[q].pc = "commitRevoke" /\ \A x \in Requests \ {q} : req'[x] = req[x]
    BY <1>15, <1>t, <2>1 DEF GetAcceptance, Go, Request
  <2> QED
    BY <1>15, <2>2, <1>n DEF GetAcceptance, db, RemPCs
<1>16. ASSUME NEW q \in Requests, CommitRevoke(q) PROVE \A x \in Requests : LocalInv(x)'
  <2>1. At("reopen") \in Request /\ At("reopen").pc = "reopen"
    BY <1>a DEF PCs
  <2>2. req'[q].pc = "reopen"
        /\ \A x \in Requests \ {q} : /\ req'[x].pc = req[x].pc
                                     /\ req'[x].rem = req[x].rem
                                     /\ req'[x].acc = req[x].acc
    <3>1. Commit(q, req[q].rows, At("reopen"))
      BY <1>16 DEF CommitRevoke
    <3> QED
      BY <2>1, <3>1, CommitType
  <2> QED
    BY <1>16, <2>2, <1>n DEF CommitRevoke, RemPCs
<1>17. ASSUME NEW q \in Requests, Reopen(q) PROVE \A x \in Requests : LocalInv(x)'
  <2>1. /\ \A p \in Procs : remCache'[p].id = remCache[p].id
        /\ req'[q] = [At("getRem") EXCEPT !.rem = Cached(q).id, !.goal = "OPEN"]
        /\ \A x \in Requests \ {q} : req'[x] = req[x]
    BY <1>17, SetStatusType DEF Reopen, Status
  <2>2. LocalInv(q)'
    BY <1>17, <2>1, LocalToRem DEF Reopen, Status
  <2>3. \A x \in Requests : Known(x) => Known(x)'
    BY <1>t, <2>1 DEF Known, Cached
  <2> QED
    BY <1>17, <2>1, <2>2, <2>3, LocalFrame DEF Reopen, db
<1>18. ASSUME NEW q \in Requests, Fail(q) PROVE \A x \in Requests : LocalInv(x)'
  <2>1. req'[q].pc = "failed" /\ \A x \in Requests \ {q} : req'[x] = req[x]
    BY <1>18, <1>t DEF Fail, Go, At
  <2> QED
    BY <1>18, <2>1, <1>n DEF Fail, db, RemPCs
<1>19. ASSUME NEW p \in Procs, Restart(p) PROVE \A x \in Requests : LocalInv(x)'
  <2>1. ASSUME NEW x \in Requests, ProcOf[x] # p PROVE LocalInv(x)'
    <3>1. req'[x] = req[x] /\ remCache'[ProcOf[x]] = remCache[ProcOf[x]]
      BY <1>19, <1>t, <2>1 DEF Restart
    <3> QED
      BY <1>19, <3>1, LocalFrame DEF Restart, Known, Cached, db
  <2>2. ASSUME NEW x \in Requests, ProcOf[x] = p PROVE LocalInv(x)'
    <3>1. req'[x].pc \in {"idle"} \cup Over
      BY <1>19, <1>t, <2>2 DEF Restart, InFlight, At, Over
    <3> QED
      BY <3>1, LocalIdle DEF Over, RemPCs
  <2> QED
    BY <2>1, <2>2
<1>20. CASE UNCHANGED vars
  BY <1>20 DEF vars, LocalInv, Known, Cached
<1> QED
  BY <1>1, <1>2, <1>3, <1>4, <1>5, <1>6, <1>7, <1>8, <1>9, <1>10, <1>11, <1>12, <1>13,
     <1>14, <1>15, <1>16, <1>17, <1>18, <1>19, <1>20 DEF Next, Calm, Step

LEMMA BaseHolds == Spec => []BaseInv
<1>1. Init => BaseInv
  <2> SUFFICES ASSUME Init PROVE BaseInv
    OBVIOUS
  <2>1. At("idle") \in Request /\ At("idle").pc = "idle"
    BY AtType DEF At, PCs
  <2>2. NoRem \in Remediation
    BY DEF NoRem, Remediation, Status
  <2>3. TypeOK
    BY <2>1, <2>2 DEF Init, TypeOK, AccStatus
  <2>4. \A q \in Requests : LocalInv(q)
    BY <2>1 DEF Init, LocalInv, RemPCs
  <2> QED
    BY <2>3, <2>4 DEF BaseInv
<1>2. BaseInv /\ [Next]_vars => BaseInv'
  BY TypeStep, LocalStep DEF BaseInv
<1> QED
  BY <1>1, <1>2, PTL DEF Spec

\* Every variable keeps its type, under failures and restarts too.
THEOREM TypeCorrect == Spec => []TypeOK
<1>1. BaseInv => TypeOK
  BY DEF BaseInv
<1> QED
  BY <1>1, BaseHolds, PTL

-----------------------------------------------------------------------------
(* The audit trail.                                                         *)

LEMMA HistoryStep ==
    ASSUME BaseInv, HistoryMatchesRow, [Next]_vars
    PROVE  HistoryMatchesRow'
<1>t /\ req \in [Requests -> Request] /\ remRow \in Remediation
     /\ remRow.id = NoId => remRow = NoRem
  BY DEF BaseInv, TypeOK
<1>1. CASE UNCHANGED <<remRow, history>>
  BY <1>1 DEF HistoryMatchesRow
<1>2. ASSUME NEW q \in Requests, InsertRem(q) PROVE HistoryMatchesRow'
  <2>1. CASE remRow' = [id |-> q, status |-> "OPEN"] /\ Log(q, "OPEN")
    <3>1. history' # <<>> /\ history'[Len(history')].new = "OPEN"
      BY <2>1, LogType DEF BaseInv, Status
    <3> QED
      BY <2>1, <3>1 DEF HistoryMatchesRow
  <2> QED
    BY <1>1, <1>2, <2>1 DEF InsertRem
<1>3. ASSUME NEW q \in Requests, CommitRem(q) PROVE HistoryMatchesRow'
  <2>1. CASE /\ req[q].goal # "none"
             /\ remRow' = [remRow EXCEPT !.status = req[q].goal]
             /\ Log(q, req[q].goal)
    <3>1. req[q].goal \in Status
      BY <1>t, <2>1 DEF Request
    <3>2. history' # <<>> /\ history'[Len(history')].new = req[q].goal
      BY <2>1, <3>1, LogType DEF BaseInv
    <3>3. remRow'.status = req[q].goal
      BY <1>t, <2>1 DEF Remediation
    <3> QED
      BY <3>2, <3>3 DEF HistoryMatchesRow
  <2> QED
    BY <1>1, <1>3, <2>1 DEF CommitRem
<1>4. \/ UNCHANGED <<remRow, history>>
      \/ \E q \in Requests : InsertRem(q) \/ CommitRem(q)
  BY DEF Next, Calm, Step, vars, db, UpdateStatus, AssignOwner, SyncRecommendation, GetRem,
         AcceptRisk, ApplyException, ListExisting, RevokeOld, GetOld, CreateAcceptance,
         CommitAcceptance, RevokeRisk, GetAcceptance, CommitRevoke, Reopen, Fail, Restart
<1> QED
  BY <1>1, <1>2, <1>3, <1>4

\* The audit trail ends with the status the row has, whatever overlaps, fails
\* or is restarted: an entry and the change it records are committed together.
THEOREM AuditTrailMatchesRow == Spec => []HistoryMatchesRow
<1>1. Init => HistoryMatchesRow
  BY DEF Init, HistoryMatchesRow
<1>2. BaseInv /\ HistoryMatchesRow /\ [Next]_vars => HistoryMatchesRow'
  BY HistoryStep
<1> QED
  BY <1>1, <1>2, BaseHolds, PTL DEF Spec

-----------------------------------------------------------------------------
(* Acceptances and the requests that have them in hand.                     *)

\* What q may hold, where its dict has it, and that q's own acceptance is
\* nowhere before q has created it.
HandInv(q) ==
    /\ req[q].pc \in AccPCs => IsAdmin(q) /\ ~req[q].stale /\ Rem \notin req[q].rows
    /\ req[q].pc \notin AccPCs => req[q].rows \subseteq {Rem} /\ req[q].acc = NoId
    /\ \A a \in InHand(q) : accCache[ProcOf[q]][a] = "REVOKED"
    /\ req[q].pc \notin {"commitAcc"} \cup Over =>
         /\ accRow[q] = "none"
         /\ \A p \in Procs : accCache[p][q] = "none"

\* An acceptance is known where it was granted, and where dicts are reloaded.
CacheInv ==
    \A p \in Procs, a \in Requests :
        accCache[p][a] # "none" => p = ProcOf[a] \/ p \in Reloading

HandsApart == \A x, y \in Requests : x # y => InHand(x) \cap InHand(y) = {}

HoldInv == (\A q \in Requests : HandInv(q)) /\ CacheInv /\ HandsApart

LEMMA EmptyHand ==
    ASSUME NEW q \in Requests, req[q].pc \notin AccPCs, HandInv(q)
    PROVE  InHand(q) = {}
BY DEF HandInv, InHand

\* Steps that leave acceptances alone and take nothing up.
LEMMA HoldFrame ==
    ASSUME TypeOK, HoldInv, NEW q \in Requests, UNCHANGED <<accRow, accCache>>,
           req'[q].pc \in AccPCs =>
             IsAdmin(q) /\ ~req'[q].stale /\ Rem \notin req'[q].rows,
           req'[q].pc \notin AccPCs => req'[q].rows \subseteq {Rem} /\ req'[q].acc = NoId,
           InHand(q)' \subseteq InHand(q),
           req'[q].pc \notin {"commitAcc"} \cup Over => req[q].pc \notin {"commitAcc"} \cup Over,
           \A x \in Requests \ {q} :
             /\ req'[x].pc = req[x].pc
             /\ req'[x].acc = req[x].acc
             /\ req'[x].rows = req[x].rows
             /\ req[x].pc \in AccPCs => ~req'[x].stale
    PROVE  HoldInv'
<1>1. \A x \in Requests \ {q} : InHand(x)' = InHand(x)
  BY DEF InHand
<1>2. HandInv(q)'
  BY DEF HoldInv, HandInv, IsAdmin
<1>3. ASSUME NEW x \in Requests \ {q} PROVE HandInv(x)'
  BY <1>1, <1>3 DEF HoldInv, HandInv, IsAdmin
<1>4. CacheInv'
  BY DEF HoldInv, CacheInv
<1>5. HandsApart'
  BY <1>1 DEF HoldInv, HandsApart
<1> QED
  BY <1>2, <1>3, <1>4, <1>5 DEF HoldInv

\* q marks an acceptance REVOKED in its dict: nobody else has it in hand.
LEMMA HoldMark ==
    ASSUME TypeOK, HoldInv, NEW q \in Requests, IsAdmin(q),
           req[q].pc \notin {"commitAcc"} \cup Over,
           NEW a \in Requests, accCache[ProcOf[q]][a] = "ACTIVE",
           accCache' = [accCache EXCEPT ![ProcOf[q]][a] = "REVOKED"], UNCHANGED accRow,
           req'[q].pc \in {"getOld", "getAcc"},
           ~req'[q].stale, Rem \notin req'[q].rows, InHand(q)' \subseteq InHand(q) \cup {a},
           \A x \in Requests \ {q} : req'[x] = req[x]
    PROVE  HoldInv'
<1>t ProcOf \in [Requests -> Procs] /\ ProcOf[q] \in Procs
  BY ConstantsAssumption
<1>c /\ accCache'[ProcOf[q]][a] = "REVOKED"
     /\ \A p \in Procs, b \in Requests :
          p # ProcOf[q] \/ b # a => accCache'[p][b] = accCache[p][b]
  BY MarkType DEF AccStatus
<1>1. \A x \in Requests \ {q} : InHand(x)' = InHand(x)
  BY DEF InHand
<1>h \A x \in Requests : InHand(x) \subseteq Requests
  BY DEF InHand, TypeOK, Request
<1>2. ASSUME NEW x \in Requests \ {q} PROVE a \notin InHand(x)
  <2> SUFFICES ASSUME a \in InHand(x) PROVE FALSE
    OBVIOUS
  <2>1. IsAdmin(x)
    BY EmptyHand DEF HoldInv, HandInv
  <2>2. accCache[ProcOf[x]][a] = "REVOKED"
    BY DEF HoldInv, HandInv
  <2>3. ProcOf[x] \notin Reloading /\ ProcOf[q] \notin Reloading
    BY <2>1, AdministratorsAssumption DEF IsAdmin
  <2>4. ProcOf[x] = ProcOf[a] /\ ProcOf[q] = ProcOf[a]
    BY <1>t, <2>2, <2>3 DEF HoldInv, CacheInv
  <2> QED
    BY <2>2, <2>4
<1>3. HandsApart'
  <2>1. \A x \in Requests \ {q} : InHand(x) \cap InHand(q) = {}
    BY DEF HoldInv, HandsApart
  <2> QED
    BY <1>1, <1>2, <2>1 DEF HoldInv, HandsApart
<1>4. CacheInv'
  BY <1>c DEF HoldInv, CacheInv
<1>5. ASSUME NEW x \in Requests, req'[x].pc \notin {"commitAcc"} \cup Over
      PROVE  accRow'[x] = "none" /\ \A p \in Procs : accCache'[p][x] = "none"
  <2>1. req[x].pc \notin {"commitAcc"} \cup Over
    BY <1>5
  <2>2. accRow[x] = "none" /\ \A p \in Procs : accCache[p][x] = "none"
    BY <2>1 DEF HoldInv, HandInv
  <2>3. x # a
    BY <1>t, <2>2
  <2> QED
    BY <1>c, <2>2, <2>3
<1>6. ASSUME NEW x \in Requests, NEW b \in InHand(x)' PROVE accCache'[ProcOf[x]][b] = "REVOKED"
  <2>1. ProcOf[x] \in Procs
    BY <1>t
  <2>2. b \in InHand(x) \/ (x = q /\ b = a)
    BY <1>1
  <2>3. b \in InHand(x) => b \in Requests /\ accCache[ProcOf[x]][b] = "REVOKED"
    BY <1>h DEF HoldInv, HandInv
  <2> QED
    BY <1>c, <2>1, <2>2, <2>3
<1>7. ASSUME NEW x \in Requests PROVE HandInv(x)'
  <2>1. CASE x = q
    BY <1>5, <1>6, <2>1 DEF HandInv, IsAdmin, AccPCs
  <2>2. CASE x # q
    <3>1. /\ req'[x].pc \in AccPCs => IsAdmin(x) /\ ~req'[x].stale /\ Rem \notin req'[x].rows
          /\ req'[x].pc \notin AccPCs => req'[x].rows \subseteq {Rem} /\ req'[x].acc = NoId
      BY <2>2 DEF HoldInv, HandInv
    <3> QED
      BY <1>5, <1>6, <3>1 DEF HandInv, IsAdmin
  <2> QED
    BY <2>1, <2>2
<1> QED
  BY <1>3, <1>4, <1>7 DEF HoldInv

\* q commits the rows it has in hand: nobody else's versions become old.
LEMMA HoldCommit ==
    ASSUME TypeOK, TypeOK', HoldInv, NEW q \in Requests,
           req[q].pc \in {"commitAcc", "commitRevoke"}, NEW r \in Request,
           Commit(q, req[q].rows, r), UNCHANGED accCache,
           r.rows = {}, r.acc = NoId, r.pc \notin AccPCs,
           r.pc \in Over \/ (r.pc = "reopen" /\ req[q].pc = "commitRevoke"),
           \A a \in Requests : a \notin req[q].rows /\ (a = q => r.pc \notin Over) =>
             accRow'[a] = accRow[a]
    PROVE  HoldInv'
<1>c /\ req'[q] = r
     /\ \A x \in Requests \ {q} :
          /\ req'[x].pc = req[x].pc
          /\ req'[x].acc = req[x].acc
          /\ req'[x].rows = req[x].rows
          /\ req'[x].stale = (req[x].stale \/ req[x].rows \cap req[q].rows # {})
  BY CommitType
<1>h \A x \in Requests : req[x].rows \subseteq Requests \cup {Rem}
  BY DEF TypeOK, Request
<1>1. InHand(q)' = {} /\ \A x \in Requests \ {q} : InHand(x)' = InHand(x)
  BY <1>c DEF InHand
<1>2. ASSUME NEW x \in Requests \ {q}, req[x].pc \in AccPCs
      PROVE  ~req'[x].stale
  <2>1. InHand(x) \cap InHand(q) = {}
    BY DEF HoldInv, HandsApart
  <2>2. Rem \notin req[x].rows /\ ~req[x].stale
    BY <1>2 DEF HoldInv, HandInv
  <2>3. req[x].rows \cap req[q].rows = {}
    BY <1>h, <2>1, <2>2, ConstantsAssumption DEF InHand
  <2> QED
    BY <1>c, <2>2, <2>3
<1>3. ASSUME NEW x \in Requests, req'[x].pc \notin {"commitAcc"} \cup Over
      PROVE  accRow'[x] = "none" /\ \A p \in Procs : accCache'[p][x] = "none"
  <2>1. req[x].pc \notin {"commitAcc"} \cup Over
    BY <1>3, <1>c DEF Over
  <2>2. accRow[x] = "none" /\ \A p \in Procs : accCache[p][x] = "none"
    BY <2>1 DEF HoldInv, HandInv
  <2>3. x \notin req[q].rows
    <3> SUFFICES ASSUME x \in req[q].rows PROVE FALSE
      OBVIOUS
    <3>1. x \in InHand(q)
      BY ConstantsAssumption DEF InHand
    <3>2. accCache[ProcOf[q]][x] = "REVOKED" /\ ProcOf[q] \in Procs
      BY <3>1, ConstantsAssumption DEF HoldInv, HandInv
    <3> QED
      BY <2>2, <3>2
  <2>4. x = q => r.pc \notin Over
    BY <1>3, <1>c
  <2> QED
    BY <2>2, <2>3, <2>4
<1>4. ASSUME NEW x \in Requests PROVE HandInv(x)'
  <2>1. CASE x = q
    BY <1>1, <1>3, <1>c, <2>1 DEF HandInv
  <2>2. CASE x # q
    <3>1. /\ req'[x].pc \in AccPCs => IsAdmin(x) /\ ~req'[x].stale /\ Rem \notin req'[x].rows
          /\ req'[x].pc \notin AccPCs => req'[x].rows \subseteq {Rem} /\ req'[x].acc = NoId
          /\ \A a \in InHand(x)' : accCache'[ProcOf[x]][a] = "REVOKED"
      BY <1>1, <1>2, <1>c, <2>2 DEF HoldInv, HandInv
    <3> QED
      BY <1>3, <3>1 DEF HandInv, IsAdmin
  <2> QED
    BY <2>1, <2>2
<1>5. CacheInv'
  BY DEF HoldInv, CacheInv
<1>6. HandsApart'
  BY <1>1 DEF HoldInv, HandsApart
<1> QED
  BY <1>4, <1>5, <1>6 DEF HoldInv

\* A step of q that concerns no acceptance: q's hands are empty before and
\* after, and nobody who has one in hand is disturbed.
Quiet(q) ==
    /\ UNCHANGED <<accRow, accCache>>
    /\ req[q].pc \notin AccPCs \cup Over
    /\ \/ req'[q].pc \notin AccPCs
       \/ req'[q].pc = "existing" /\ req'[q].rows = {} /\ ~req'[q].stale /\ IsAdmin(q)
    /\ req'[q].rows \subseteq {Rem} /\ req'[q].acc = NoId
    /\ \A x \in Requests \ {q} :
         /\ req'[x].pc = req[x].pc
         /\ req'[x].acc = req[x].acc
         /\ req'[x].rows = req[x].rows
         /\ req'[x].live = req[x].live
         /\ req[x].pc \in AccPCs => ~req'[x].stale

RemStep(q) ==
    \/ UpdateStatus(q) \/ AssignOwner(q) \/ SyncRecommendation(q) \/ InsertRem(q)
    \/ GetRem(q) \/ CommitRem(q) \/ AcceptRisk(q) \/ ApplyException(q) \/ Reopen(q)

\* The steps that concern the remediation are quiet.
LEMMA QuietStep ==
    ASSUME BaseInv, HoldInv, NEW q \in Requests, RemStep(q)
    PROVE  Quiet(q)
<1>o TypeOK
  BY DEF BaseInv
<1>t req \in [Requests -> Request]
  BY <1>o DEF TypeOK
<1>a \A pc \in PCs : At(pc) \in Request
  BY AtType
<1>b \A x \in Requests : req[x].pc \in AccPCs =>
       IsAdmin(x) /\ ~req[x].stale /\ Rem \notin req[x].rows
  BY DEF HoldInv, HandInv
\* The record's status changes, or is refused.
<1>k ASSUME NEW s \in Status, Known(q), ApplyStatus(q, s),
            req[q].pc \notin AccPCs \cup Over, UNCHANGED <<accRow, accCache>>
     PROVE  Quiet(q)
  <2>1. /\ \/ req'[q] = [At("getRem") EXCEPT !.rem = Cached(q).id, !.goal = s]
           \/ req'[q] = At("failed")
        /\ \A x \in Requests \ {q} : req'[x] = req[x]
    BY <1>o, <1>k, ApplyStatusType
  <2>2. req'[q].pc \in {"getRem", "failed"} /\ req'[q].rows = {} /\ req'[q].acc = NoId
    <3>1. CASE req'[q] = [At("getRem") EXCEPT !.rem = Cached(q).id, !.goal = s]
      BY <3>1 DEF At
    <3>2. CASE req'[q] = At("failed")
      BY <3>2 DEF At
    <3> QED
      BY <2>1, <3>1, <3>2
  <2> QED
    BY <1>b, <1>k, <2>1, <2>2 DEF Quiet, AccPCs
\* q goes to a place where it has nothing in hand.
<1>m ASSUME UNCHANGED <<accRow, accCache>>, req[q].pc \notin AccPCs \cup Over,
            req'[q].pc \notin AccPCs \/ (req'[q].pc = "existing" /\ IsAdmin(q)),
            req'[q].rows = {}, req'[q].acc = NoId, ~req'[q].stale,
            \A x \in Requests \ {q} : req'[x] = req[x]
     PROVE  Quiet(q)
  BY <1>b, <1>m DEF Quiet
\* The remediation's row is to be read.
<1>g ASSUME Known(q), Touch(q), req[q].pc \in {"idle", "sync"}, UNCHANGED <<accRow, accCache>>
     PROVE  Quiet(q)
  <2>1. /\ req'[q] = [At("getRem") EXCEPT !.rem = Cached(q).id]
        /\ \A x \in Requests \ {q} : req'[x] = req[x]
    BY <1>o, <1>g, TouchType
  <2>2. /\ req'[q].pc = "getRem" /\ req'[q].rows = {}
        /\ req'[q].acc = NoId /\ ~req'[q].stale
    BY <2>1 DEF At
  <2> QED
    BY <1>m, <1>g, <2>1, <2>2 DEF Over, AccPCs
<1>1. CASE UpdateStatus(q)
  <2>1. KindOf[q] \in Status
    BY <1>1 DEF UpdateStatus, Targets
  <2> QED
    BY <1>1, <2>1, <1>k DEF UpdateStatus, db, Over, AccPCs
<1>2. CASE AssignOwner(q)
  BY <1>2, <1>g DEF AssignOwner, db
<1>3. CASE SyncRecommendation(q)
  <2>1. CASE Known(q) /\ Touch(q)
    BY <1>g, <1>3, <2>1 DEF SyncRecommendation, db
  <2>2. CASE Go(q, At("insert"))
    <3>1. req'[q] = At("insert") /\ \A x \in Requests \ {q} : req'[x] = req[x]
      BY <1>o, <1>a, <2>2, GoType DEF PCs
    <3>2. /\ req'[q].pc = "insert" /\ req'[q].rows = {}
          /\ req'[q].acc = NoId /\ ~req'[q].stale
      BY <3>1 DEF At
    <3> QED
      BY <1>3, <1>m, <3>1, <3>2 DEF SyncRecommendation, db, Over, AccPCs
  <2> QED
    BY <1>3, <2>1, <2>2 DEF SyncRecommendation
<1>4. CASE InsertRem(q)
  <2>1. At("except") \in Request /\ At("done") \in Request /\ At("failed") \in Request
    BY <1>a DEF PCs, Over
  <2>2. /\ req'[q] \in {At("except"), At("done"), At("failed")}
        /\ \A x \in Requests \ {q} : req'[x] = req[x]
    BY <1>o, <1>4, <2>1, GoType DEF InsertRem
  <2>3. /\ req'[q].pc \in {"except", "done", "failed"} /\ req'[q].rows = {}
        /\ req'[q].acc = NoId /\ ~req'[q].stale
    BY <2>2 DEF At
  <2> QED
    BY <1>4, <1>m, <2>2, <2>3 DEF InsertRem, Over, AccPCs
<1>5. CASE GetRem(q)
  <2>1. At(AfterRem(q)) \in Request /\ AfterRem(q) \in {"done", "except", "existing"}
        /\ (AfterRem(q) = "existing" => IsAdmin(q))
    BY <1>a, AfterRemType DEF IsAdmin
  <2>2. CASE Go(q, At(AfterRem(q)))
    <3>1. req'[q] = At(AfterRem(q)) /\ \A x \in Requests \ {q} : req'[x] = req[x]
      BY <1>o, <2>1, <2>2, GoType
    <3>2. /\ req'[q].pc = AfterRem(q) /\ req'[q].rows = {}
          /\ req'[q].acc = NoId /\ ~req'[q].stale
      BY <3>1 DEF At
    <3> QED
      BY <1>5, <1>m, <2>1, <3>1, <3>2 DEF GetRem, db, Over, AccPCs
  <2>3. CASE Go(q, [req[q] EXCEPT !.pc = "commitRem", !.rows = {Rem}])
    <3>1. req[q] \in Request
      BY <1>t
    <3>2. /\ req'[q].pc = "commitRem" /\ req'[q].rows = {Rem}
          /\ req'[q].acc = req[q].acc
          /\ \A x \in Requests \ {q} : req'[x] = req[x]
      BY <1>t, <2>3, <3>1 DEF Go, Request
    <3>3. req[q].acc = NoId
      BY <1>5 DEF GetRem, HoldInv, HandInv, AccPCs
    <3>4. "commitRem" \notin AccPCs /\ "getRem" \notin AccPCs \cup Over
      BY DEF AccPCs, Over
    <3> QED
      BY <1>5, <1>b, <3>2, <3>3, <3>4 DEF GetRem, db, Quiet
  <2> QED
    BY <1>5, <2>2, <2>3 DEF GetRem
<1>6. CASE CommitRem(q)
  <2>1. At(AfterRem(q)) \in Request /\ AfterRem(q) \in {"done", "except", "existing"}
        /\ (AfterRem(q) = "existing" => IsAdmin(q))
    BY <1>a, AfterRemType DEF IsAdmin
  <2>2. CASE Commit(q, {Rem}, At(AfterRem(q)))
    <3>1. /\ req'[q] = At(AfterRem(q))
          /\ \A x \in Requests \ {q} :
               /\ req'[x].pc = req[x].pc
               /\ req'[x].acc = req[x].acc
               /\ req'[x].rows = req[x].rows
               /\ req'[x].live = req[x].live
               /\ req'[x].stale = (req[x].stale \/ req[x].rows \cap {Rem} # {})
      BY <1>o, <2>1, <2>2, CommitType
    <3>2. /\ req'[q].pc = AfterRem(q) /\ req'[q].rows = {}
          /\ req'[q].acc = NoId /\ ~req'[q].stale
      BY <3>1 DEF At
    <3>3. \A x \in Requests \ {q} : req[x].pc \in AccPCs => ~req'[x].stale
      BY <1>b, <3>1
    <3>4. "done" \notin AccPCs /\ "except" \notin AccPCs /\ "commitRem" \notin AccPCs \cup Over
      BY DEF AccPCs, Over
    <3> QED
      BY <1>6, <2>1, <3>1, <3>2, <3>3, <3>4 DEF CommitRem, Quiet
  <2>3. CASE Go(q, At("failed"))
    <3>1. req'[q] = At("failed") /\ \A x \in Requests \ {q} : req'[x] = req[x]
      BY <1>o, <1>a, <2>3, GoType DEF PCs, Over
    <3>2. /\ req'[q].pc = "failed" /\ req'[q].rows = {}
          /\ req'[q].acc = NoId /\ ~req'[q].stale
      BY <3>1 DEF At
    <3> QED
      BY <1>6, <1>m, <3>1, <3>2 DEF CommitRem, Over, AccPCs
  <2> QED
    BY <1>6, <2>2, <2>3 DEF CommitRem
<1>7. CASE AcceptRisk(q)
  <2>1. CASE Known(q) /\ ApplyStatus(q, "ACCEPTED_RISK")
    BY <1>7, <2>1, <1>k DEF AcceptRisk, db, Status, Over, AccPCs
  <2>2. CASE Go(q, At("sync"))
    <3>1. req'[q] = At("sync") /\ \A x \in Requests \ {q} : req'[x] = req[x]
      BY <1>o, <1>a, <2>2, GoType DEF PCs
    <3>2. /\ req'[q].pc = "sync" /\ req'[q].rows = {}
          /\ req'[q].acc = NoId /\ ~req'[q].stale
      BY <3>1 DEF At
    <3> QED
      BY <1>7, <1>m, <3>1, <3>2 DEF AcceptRisk, db, Over, AccPCs
  <2> QED
    BY <1>7, <2>1, <2>2 DEF AcceptRisk
<1>8. CASE ApplyException(q)
  <2>1. Known(q)
    BY <1>8 DEF ApplyException, BaseInv, LocalInv, RemPCs
  <2> QED
    BY <1>8, <2>1, <1>k DEF ApplyException, db, Status, Over, AccPCs
<1>9. CASE Reopen(q)
  <2>1. /\ req'[q] = [At("getRem") EXCEPT !.rem = Cached(q).id, !.goal = "OPEN"]
        /\ \A x \in Requests \ {q} : req'[x] = req[x]
    BY <1>9, <1>o, SetStatusType DEF Reopen, Status
  <2>2. /\ req'[q].pc = "getRem" /\ req'[q].rows = {}
        /\ req'[q].acc = NoId /\ ~req'[q].stale
    BY <2>1 DEF At
  <2> QED
    BY <1>9, <1>m, <2>1, <2>2 DEF Reopen, db, Over, AccPCs
<1> QED
  BY <1>1, <1>2, <1>3, <1>4, <1>5, <1>6, <1>7, <1>8, <1>9 DEF RemStep

LEMMA HoldQuiet ==
    ASSUME TypeOK, HoldInv, NEW q \in Requests, Quiet(q)
    PROVE  HoldInv'
<1>1. InHand(q)' = {}
  BY DEF Quiet, InHand
<1>2. /\ req'[q].pc \in AccPCs => IsAdmin(q) /\ ~req'[q].stale /\ Rem \notin req'[q].rows
      /\ req'[q].pc \notin AccPCs => req'[q].rows \subseteq {Rem} /\ req'[q].acc = NoId
      /\ req'[q].pc \notin {"commitAcc"} \cup Over => req[q].pc \notin {"commitAcc"} \cup Over
      /\ \A x \in Requests \ {q} :
           /\ req'[x].pc = req[x].pc
           /\ req'[x].acc = req[x].acc
           /\ req'[x].rows = req[x].rows
           /\ req[x].pc \in AccPCs => ~req'[x].stale
      /\ UNCHANGED <<accRow, accCache>>
  BY DEF Quiet, AccPCs
<1> QED
  BY <1>1, <1>2, HoldFrame

LEMMA HoldStep ==
    ASSUME BaseInv, TypeOK', HoldInv, [Next]_vars
    PROVE  HoldInv'
<1>t /\ TypeOK /\ req \in [Requests -> Request] /\ ProcOf \in [Requests -> Procs]
     /\ accCache \in [Procs -> [Requests -> AccStatus]]
     /\ accRow \in [Requests -> AccStatus]
  BY ConstantsAssumption DEF BaseInv, TypeOK
<1>o TypeOK
  BY <1>t
<1>a \A pc \in PCs :
       /\ At(pc) \in Request
       /\ At(pc).pc = pc /\ At(pc).rows = {} /\ At(pc).acc = NoId /\ ~At(pc).stale
  BY AtType DEF At
<1>b \A x \in Requests : req[x].pc \in AccPCs =>
       IsAdmin(x) /\ ~req[x].stale /\ Rem \notin req[x].rows
  BY DEF HoldInv, HandInv
<1>1. ASSUME NEW q \in Requests, RemStep(q) PROVE HoldInv'
  <2>1. Quiet(q)
    BY <1>1, QuietStep
  <2> QED
    BY <1>o, <2>1, HoldQuiet
<1>9. ASSUME NEW q \in Requests, ListExisting(q) PROVE HoldInv'
  <2>1. /\ req'[q].pc = "revokeOld" /\ req'[q].rows = {}
        /\ req'[q].acc = NoId /\ ~req'[q].stale
        /\ \A x \in Requests \ {q} : req'[x] = req[x]
    BY <1>9, <1>t DEF ListExisting, Go, At
  <2>2. InHand(q)' \subseteq InHand(q)
    BY <2>1 DEF InHand
  <2>3. IsAdmin(q)
    BY <1>9, <1>b DEF ListExisting, AccPCs
  <2>4. \A x \in Requests \ {q} : req[x].pc \in AccPCs => ~req'[x].stale
    BY <1>b, <2>1
  <2>5. "revokeOld" \in AccPCs /\ "existing" \notin {"commitAcc"} \cup Over
    BY DEF AccPCs, Over
  <2> QED
    BY <1>9, <1>t, <2>1, <2>2, <2>3, <2>4, <2>5, HoldFrame DEF ListExisting, db
<1>10. ASSUME NEW q \in Requests, RevokeOld(q) PROVE HoldInv'
  <2>1. PICK a \in Requests :
          /\ accCache[ProcOf[q]][a] = "ACTIVE"
          /\ accCache' = [accCache EXCEPT ![ProcOf[q]][a] = "REVOKED"]
          /\ Go(q, [req[q] EXCEPT !.pc = "getOld", !.acc = a])
    BY <1>10 DEF RevokeOld, ActiveIn
  <2>2. req[q] \in Request
    BY <1>t
  <2>3. /\ req'[q].pc = "getOld" /\ req'[q].rows = req[q].rows
        /\ req'[q].acc = a /\ req'[q].stale = req[q].stale
        /\ \A x \in Requests \ {q} : req'[x] = req[x]
    BY <1>t, <2>1, <2>2 DEF Go, Request
  <2>4. InHand(q)' \subseteq InHand(q) \cup {a}
    BY <2>3 DEF InHand
  <2>5. IsAdmin(q) /\ ~req[q].stale /\ Rem \notin req[q].rows
    BY <1>10, <1>b DEF RevokeOld, AccPCs
  <2> QED
    BY <1>10, <1>t, <2>1, <2>3, <2>4, <2>5, HoldMark DEF RevokeOld, db, Over
<1>11. ASSUME NEW q \in Requests, GetOld(q) PROVE HoldInv'
  <2>1. req[q] \in Request
    BY <1>t
  <2>2. /\ req'[q].pc = "revokeOld"
        /\ req'[q].rows \subseteq req[q].rows \cup {req[q].acc}
        /\ req'[q].acc = NoId /\ req'[q].stale = req[q].stale
        /\ \A x \in Requests \ {q} : req'[x] = req[x]
    BY <1>11, <1>t, <2>1 DEF GetOld, Go, Request
  <2>3. InHand(q)' \subseteq InHand(q)
    BY <2>2 DEF InHand
  <2>4. IsAdmin(q) /\ ~req[q].stale /\ Rem \notin req[q].rows
    BY <1>11, <1>b DEF GetOld, AccPCs
  <2>5. req[q].acc # Rem
    BY <1>11, <2>1, ConstantsAssumption DEF GetOld, BaseInv, LocalInv, Request
  <2>6. \A x \in Requests \ {q} : req[x].pc \in AccPCs => ~req'[x].stale
    BY <1>b, <2>2
  <2>7. "revokeOld" \in AccPCs /\ "getOld" \notin {"commitAcc"} \cup Over
    BY DEF AccPCs, Over
  <2> QED
    BY <1>11, <1>t, <2>2, <2>3, <2>4, <2>5, <2>6, <2>7, HoldFrame DEF GetOld, db
<1>12. ASSUME NEW q \in Requests, CreateAcceptance(q) PROVE HoldInv'
  <2>1. req[q] \in Request
    BY <1>t
  <2>2. /\ req[q].pc = "revokeOld" /\ req'[q].pc = "commitAcc"
        /\ req'[q].rows = req[q].rows
        /\ req'[q].acc = req[q].acc /\ req'[q].stale = req[q].stale
        /\ \A x \in Requests \ {q} : req'[x] = req[x]
    BY <1>12, <1>t, <2>1 DEF CreateAcceptance, Go, Request
  <2>3. \A x \in Requests : InHand(x)' = InHand(x)
    BY <2>2 DEF InHand
  <2>4. /\ accCache'[ProcOf[q]][q] = "ACTIVE"
        /\ \A p \in Procs, b \in Requests :
             p # ProcOf[q] \/ b # q => accCache'[p][b] = accCache[p][b]
    BY <1>12, <1>t, MarkType DEF CreateAcceptance, AccStatus
  <2>5. accRow[q] = "none" /\ \A p \in Procs : accCache[p][q] = "none"
    BY <2>2 DEF HoldInv, HandInv, Over
  <2>6. \A x \in Requests : InHand(x) \subseteq Requests
    BY <1>t DEF InHand, Request
  <2>7. ASSUME NEW x \in Requests, NEW b \in InHand(x)'
        PROVE  accCache'[ProcOf[x]][b] = "REVOKED"
    <3>1. b \in Requests /\ accCache[ProcOf[x]][b] = "REVOKED" /\ ProcOf[x] \in Procs
      BY <1>t, <2>3, <2>6 DEF HoldInv, HandInv
    <3>2. b # q
      BY <2>5, <3>1
    <3> QED
      BY <2>4, <3>1, <3>2
  <2>8. ASSUME NEW x \in Requests PROVE HandInv(x)'
    <3>1. CASE x = q
      BY <1>b, <2>2, <2>7, <3>1 DEF HandInv, IsAdmin, AccPCs
    <3>2. CASE x # q
      BY <1>12, <2>2, <2>4, <2>7, <3>2
         DEF CreateAcceptance, db, HoldInv, HandInv, IsAdmin
    <3> QED
      BY <3>1, <3>2
  <2>9. CacheInv'
    BY <2>4 DEF HoldInv, CacheInv
  <2>10. HandsApart'
    BY <2>3 DEF HoldInv, HandsApart
  <2> QED
    BY <2>8, <2>9, <2>10 DEF HoldInv
<1>13. ASSUME NEW q \in Requests, CommitAcceptance(q) PROVE HoldInv'
  <2>1. At("done") \in Request /\ "done" \in PCs
    BY <1>a DEF PCs, Over
  <2>2. \A a \in Requests : a \notin req[q].rows /\ a # q => accRow'[a] = accRow[a]
    BY <1>13 DEF CommitAcceptance
  <2>3. "done" \notin AccPCs /\ "done" \in Over
    BY DEF AccPCs, Over
  <2> QED
    BY <1>13, <1>t, <1>a, <2>1, <2>2, <2>3, HoldCommit DEF CommitAcceptance
<1>14. ASSUME NEW q \in Requests, RevokeRisk(q) PROVE HoldInv'
  <2>1. PICK a \in Requests :
          /\ accCache[ProcOf[q]][a] = "ACTIVE"
          /\ accCache' = [accCache EXCEPT ![ProcOf[q]][a] = "REVOKED"]
          /\ Go(q, [At("getAcc") EXCEPT !.acc = a])
    BY <1>14 DEF RevokeRisk, ActiveIn
  <2>2. /\ req'[q].pc = "getAcc" /\ req'[q].rows = {}
        /\ req'[q].acc = a /\ ~req'[q].stale
        /\ \A x \in Requests \ {q} : req'[x] = req[x]
    BY <1>t, <2>1 DEF Go, At
  <2>3. InHand(q)' \subseteq InHand(q) \cup {a}
    BY <2>2 DEF InHand
  <2> QED
    BY <1>14, <1>t, <2>1, <2>2, <2>3, HoldMark DEF RevokeRisk, db, Over, IsAdmin
<1>15. ASSUME NEW q \in Requests, GetAcceptance(q) PROVE HoldInv'
  <2>1. req[q] \in Request
    BY <1>t
  <2>2. /\ req'[q].pc = "commitRevoke"
        /\ req'[q].rows \subseteq {req[q].acc}
        /\ req'[q].acc = req[q].acc /\ req'[q].stale = req[q].stale
        /\ \A x \in Requests \ {q} : req'[x] = req[x]
    BY <1>15, <1>t, <2>1 DEF GetAcceptance, Go, Request
  <2>3. InHand(q)' \subseteq InHand(q)
    BY <2>2 DEF InHand
  <2>4. IsAdmin(q) /\ ~req[q].stale
    BY <1>15, <1>b DEF GetAcceptance, AccPCs
  <2>5. req[q].acc # Rem
    BY <1>15, <2>1, ConstantsAssumption DEF GetAcceptance, BaseInv, LocalInv, Request
  <2>6. \A x \in Requests \ {q} : req[x].pc \in AccPCs => ~req'[x].stale
    BY <1>b, <2>2
  <2>7. "commitRevoke" \in AccPCs /\ "getAcc" \notin {"commitAcc"} \cup Over
    BY DEF AccPCs, Over
  <2> QED
    BY <1>15, <1>t, <2>2, <2>3, <2>4, <2>5, <2>6, <2>7, HoldFrame DEF GetAcceptance, db
<1>16. ASSUME NEW q \in Requests, CommitRevoke(q) PROVE HoldInv'
  <2>1. At("reopen") \in Request /\ "reopen" \in PCs
    BY <1>a DEF PCs
  <2>2. \A a \in Requests : a \notin req[q].rows => accRow'[a] = accRow[a]
    BY <1>16 DEF CommitRevoke
  <2>3. "reopen" \notin AccPCs
    BY DEF AccPCs
  <2> QED
    BY <1>16, <1>t, <1>a, <2>1, <2>2, <2>3, HoldCommit DEF CommitRevoke
<1>18. ASSUME NEW q \in Requests, Fail(q) PROVE HoldInv'
  <2>1. req'[q] = At("failed") /\ \A x \in Requests \ {q} : req'[x] = req[x]
    BY <1>18, <1>t DEF Fail, Go
  <2>2. req'[q].pc = "failed" /\ req'[q].rows = {} /\ req'[q].acc = NoId
    BY <2>1 DEF At
  <2>3. InHand(q)' = {} /\ "failed" \notin AccPCs /\ "failed" \in Over
    BY <2>2 DEF InHand, AccPCs, Over
  <2>4. \A x \in Requests \ {q} : req[x].pc \in AccPCs => ~req'[x].stale
    BY <1>b, <2>1
  <2> QED
    BY <1>18, <1>o, <2>1, <2>2, <2>3, <2>4, HoldFrame DEF Fail, db
<1>19. ASSUME NEW p \in Procs, Restart(p) PROVE HoldInv'
  <2>1. /\ \A x \in Requests : ProcOf[x] # p => req'[x] = req[x]
        /\ \A x \in Requests : ProcOf[x] = p => req'[x].pc \in {"idle"} \cup Over
        /\ \A x \in Requests : req'[x] = req[x] \/ req'[x] = At("failed")
    BY <1>19, <1>t DEF Restart, InFlight, At, Over
  <2>2. /\ \A x \in Procs \ {p} : accCache'[x] = accCache[x]
        /\ \A a \in Requests : accCache'[p][a] = "none"
             \/ (p \in Reloading /\ accCache'[p][a] = accRow[a])
    BY <1>19, <1>t DEF Restart
  <2>3. accRow' = accRow
    BY <1>19 DEF Restart, db
  <2>4. CacheInv'
    BY <2>2 DEF HoldInv, CacheInv
  <2>5. \A x \in Requests : InHand(x)' \subseteq InHand(x)
    BY <2>1 DEF InHand, At
  <2>6. HandsApart'
    BY <2>5 DEF HoldInv, HandsApart
  <2>7. ASSUME NEW x \in Requests, req'[x].pc \notin {"commitAcc"} \cup Over
        PROVE  accRow'[x] = "none" /\ \A y \in Procs : accCache'[y][x] = "none"
    <3>1. req[x].pc \notin {"commitAcc"} \cup Over
      BY <2>1, <2>7 DEF At, Over
    <3> QED
      BY <2>2, <2>3, <3>1 DEF HoldInv, HandInv
  <2>8. ASSUME NEW x \in Requests PROVE HandInv(x)'
    <3>1. CASE ProcOf[x] = p
      <4>1. req'[x].pc \notin AccPCs
        BY <2>1, <3>1 DEF AccPCs, Over
      <4>2. req'[x].rows \subseteq {Rem} /\ req'[x].acc = NoId
        BY <2>1, <4>1 DEF HoldInv, HandInv, At
      <4>3. InHand(x)' = {}
        BY <4>2 DEF InHand
      <4> QED
        BY <2>7, <4>1, <4>2, <4>3 DEF HandInv
    <3>2. CASE ProcOf[x] # p
      <4>1. req'[x] = req[x] /\ accCache'[ProcOf[x]] = accCache[ProcOf[x]]
        BY <1>t, <2>1, <2>2, <3>2
      <4>2. InHand(x)' = InHand(x)
        BY <4>1 DEF InHand
      <4> QED
        BY <2>7, <4>1, <4>2 DEF HoldInv, HandInv, IsAdmin
    <3> QED
      BY <3>1, <3>2
  <2> QED
    BY <2>4, <2>6, <2>8 DEF HoldInv
<1>20. CASE UNCHANGED vars
  BY <1>20 DEF vars, HoldInv, HandInv, CacheInv, HandsApart, InHand, IsAdmin
<1> QED
  BY <1>1, <1>9, <1>10, <1>11, <1>12, <1>13, <1>14, <1>15, <1>16, <1>18, <1>19, <1>20
     DEF Next, Calm, Step, RemStep

LEMMA HoldHolds == Spec => []HoldInv
<1>1. Init => HoldInv
  <2> SUFFICES ASSUME Init PROVE HoldInv
    OBVIOUS
  <2>1. \A q \in Requests : req[q] = At("idle")
    BY DEF Init
  <2>2. \A q \in Requests : InHand(q) = {}
    <3>1. At("idle").rows = {} /\ At("idle").acc = NoId
      BY DEF At
    <3>2. \A q \in Requests : req[q].rows = {} /\ req[q].acc = NoId
      BY <2>1, <3>1
    <3> QED
      BY <3>2 DEF InHand
  <2>3. \A p \in Procs, a \in Requests : accCache[p][a] = "none" /\ accRow[a] = "none"
    BY DEF Init
  <2>4. \A q \in Requests : HandInv(q)
    BY <2>1, <2>2, <2>3 DEF HandInv, At, AccPCs, Init
  <2> QED
    BY <2>2, <2>3, <2>4 DEF HoldInv, CacheInv, HandsApart
<1>2. BaseInv /\ BaseInv' /\ HoldInv /\ [Next]_vars => HoldInv'
  BY HoldStep DEF BaseInv
<1> QED
  BY <1>1, <1>2, BaseHolds, PTL DEF Spec

\* No two requests have the same acceptance in hand, and no revocation is
\* refused for a stale version: the record is marked in the dict before the
\* first await of accept_risk and revoke_risk.
THEOREM OneHolder == Spec => []OneHolderEach
<1>1. HoldInv => OneHolderEach
  BY DEF HoldInv, HandInv, HandsApart, OneHolderEach, AccPCs
<1> QED
  BY <1>1, HoldHolds, PTL

-----------------------------------------------------------------------------
(* Administrators that wait for each other.                                 *)

\* They are served by one process.
AdminsShareProcess ==
    \A x, y \in Requests : IsAdmin(x) /\ IsAdmin(y) => ProcOf[x] = ProcOf[y]

\* An acceptance whose row is about to follow the dict.
Pending(a) == \E q \in Requests : a \in InHand(q) \/ (a = q /\ req[q].pc = "commitAcc")

\* Where a request is in the list of acceptances before its own.
ListInv(q) ==
    /\ \A a \in InHand(q) : accRow[a] = "ACTIVE"
    /\ req[q].pc = "existing" => InHand(q) = {}
    /\ req[q].pc = "commitAcc" =>
         accRow[q] = "none" /\ accCache[ProcOf[q]][q] = "ACTIVE" /\ req[q].acc = NoId
    /\ req[q].pc \in {"revokeOld", "getOld"} /\ ~req[q].live =>
         \A a \in Requests : accCache[ProcOf[q]][a] = "none"
    /\ req[q].pc = "revokeOld" => req[q].acc = NoId
    /\ req[q].pc = "getAcc" => req[q].rows = {}
    /\ req[q].pc = "commitRevoke" => req[q].acc \in req[q].rows

\* Dict and table agree on what is not about to follow, and no more than one
\* acceptance is ACTIVE in either.
AgreeInv ==
    /\ \A p \in Procs, a \in Requests : accCache[p][a] # "none" => p = ProcOf[a] /\ IsAdmin(a)
    /\ \A a \in Requests : ~Pending(a) => accRow[a] = accCache[ProcOf[a]][a]
    /\ \A p \in Procs : \A a, b \in ActiveIn(p) : a = b
    /\ \A a, b \in Requests : accRow[a] = "ACTIVE" /\ accRow[b] = "ACTIVE" => a = b

TurnInv == AgreeInv /\ (\A q \in Requests : ListInv(q))

\* Nobody else has an acceptance in hand.
LEMMA Alone ==
    ASSUME TypeOK, HoldInv, AdminsTakeTurns, NEW q \in Requests, IsAdmin(q), InFlight(q)
    PROVE  \A x \in Requests \ {q} : req[x].pc \notin AccPCs /\ InHand(x) = {}
<1>1. ASSUME NEW x \in Requests \ {q}, req[x].pc \in AccPCs PROVE FALSE
  <2>1. IsAdmin(x) /\ InFlight(x)
    BY <1>1 DEF HoldInv, HandInv, InFlight, AccPCs, Over
  <2> QED
    BY <2>1 DEF AdminsTakeTurns
<1> QED
  BY <1>1, EmptyHand DEF HoldInv

LEMMA TurnQuiet ==
    ASSUME TypeOK, HoldInv, TurnInv, NEW q \in Requests, Quiet(q)
    PROVE  TurnInv'
<1>0. InHand(q) = {} /\ InHand(q)' = {}
  BY EmptyHand DEF Quiet, InHand, HoldInv
<1>1. \A x \in Requests : InHand(x)' = InHand(x)
  BY <1>0 DEF Quiet, InHand
<1>2. \A x \in Requests : req'[x].pc = "commitAcc" <=> req[x].pc = "commitAcc"
  BY DEF Quiet, AccPCs
<1>3. \A a \in Requests : Pending(a)' <=> Pending(a)
  BY <1>1, <1>2 DEF Pending
<1>4. AgreeInv'
  BY <1>3 DEF TurnInv, AgreeInv, Quiet, ActiveIn, IsAdmin
<1>5. ASSUME NEW x \in Requests PROVE ListInv(x)'
  <2>1. CASE x = q
    BY <1>0, <1>2, <2>1 DEF TurnInv, ListInv, Quiet, AccPCs
  <2>2. CASE x # q
    BY <1>1, <2>2 DEF TurnInv, ListInv, Quiet
  <2> QED
    BY <2>1, <2>2
<1> QED
  BY <1>4, <1>5 DEF TurnInv

\* q marks an acceptance REVOKED: its row will follow.
LEMMA TurnMark ==
    ASSUME TypeOK, HoldInv, HoldInv', TurnInv, NEW q \in Requests, IsAdmin(q),
           \A x \in Requests \ {q} : req'[x] = req[x] /\ req[x].pc \notin AccPCs,
           NEW a \in Requests, accCache[ProcOf[q]][a] = "ACTIVE",
           accCache' = [accCache EXCEPT ![ProcOf[q]][a] = "REVOKED"], UNCHANGED accRow,
           req[q].pc \in {"idle", "revokeOld"}, req'[q].pc \in {"getOld", "getAcc"},
           req'[q].acc = a, req'[q].rows \ {Rem} = req[q].rows \ {Rem},
           req'[q].pc = "getOld" => req'[q].live,
           req'[q].pc = "getAcc" => req'[q].rows = {}
    PROVE  TurnInv'
<1>c /\ accCache'[ProcOf[q]][a] = "REVOKED"
     /\ \A p \in Procs, b \in Requests :
          p # ProcOf[q] \/ b # a => accCache'[p][b] = accCache[p][b]
  <2>1. accCache \in [Procs -> [Requests -> AccStatus]] /\ ProcOf[q] \in Procs
    BY ConstantsAssumption DEF TypeOK
  <2> QED
    BY <2>1
<1>t ProcOf \in [Requests -> Procs] /\ ProcOf[q] \in Procs /\ NoId \notin Requests
     /\ Rem \notin Requests
  BY ConstantsAssumption
<1>1. \A x \in Requests \ {q} : InHand(x) = {} /\ InHand(x)' = {}
  <2>1. \A x \in Requests \ {q} : InHand(x) = {}
    BY EmptyHand DEF HoldInv
  <2> QED
    BY <2>1 DEF InHand
<1>2. InHand(q)' = InHand(q) \cup {a}
  <2>1. req[q].acc = NoId
    BY DEF TurnInv, ListInv, HoldInv, HandInv, AccPCs
  <2>2. a # NoId /\ a # Rem
    BY <1>t
  <2> QED
    BY <2>1, <2>2 DEF InHand
<1>3. ~Pending(a)
  <2>1. a \notin InHand(q)
    BY DEF HoldInv, HandInv
  <2> QED
    BY <1>1, <2>1 DEF Pending, AccPCs
<1>4. accRow[a] = "ACTIVE"
  BY <1>3, <1>t DEF TurnInv, AgreeInv
<1>5. ASSUME NEW b \in Requests, ~Pending(b)' PROVE accRow'[b] = accCache'[ProcOf[b]][b]
  <2>1. b # a /\ ~Pending(b)
    BY <1>1, <1>2, <1>5 DEF Pending, AccPCs
  <2> QED
    BY <1>c, <1>t, <2>1 DEF TurnInv, AgreeInv
<1>6. AgreeInv'
  <2>1. \A p \in Procs, b \in Requests :
          accCache'[p][b] # "none" => p = ProcOf[b] /\ IsAdmin(b)
    BY <1>c DEF TurnInv, AgreeInv
  <2>2. \A p \in Procs : ActiveIn(p)' \subseteq ActiveIn(p)
    BY <1>c DEF ActiveIn
  <2> QED
    BY <1>5, <2>1, <2>2 DEF TurnInv, AgreeInv, IsAdmin
<1>7. ListInv(q)'
  BY <1>2, <1>4 DEF TurnInv, ListInv
<1>8. \A x \in Requests \ {q} : ListInv(x)'
  BY <1>1 DEF ListInv, AccPCs
<1> QED
  BY <1>6, <1>7, <1>8 DEF TurnInv

\* q only reads: what it has in hand stays the same.
LEMMA TurnRead ==
    ASSUME TypeOK, HoldInv, TurnInv, NEW q \in Requests, UNCHANGED <<accRow, accCache>>,
           \A x \in Requests \ {q} : req'[x] = req[x],
           InHand(q)' = InHand(q), req[q].pc # "commitAcc",
           req'[q].pc \in {"revokeOld", "commitRevoke"},
           req'[q].pc = "revokeOld" =>
             /\ req'[q].acc = NoId
             /\ ~req'[q].live => \A a \in Requests : accCache[ProcOf[q]][a] = "none",
           req'[q].pc = "commitRevoke" => req'[q].acc \in req'[q].rows
    PROVE  TurnInv'
<1>1. \A x \in Requests : InHand(x)' = InHand(x)
  BY DEF InHand
<1>2. \A a \in Requests : Pending(a)' <=> Pending(a)
  BY <1>1 DEF Pending
<1>3. AgreeInv'
  BY <1>2 DEF TurnInv, AgreeInv, ActiveIn, IsAdmin
<1>4. ListInv(q)'
  BY DEF TurnInv, ListInv
<1>5. \A x \in Requests \ {q} : ListInv(x)'
  BY <1>1 DEF TurnInv, ListInv
<1> QED
  BY <1>3, <1>4, <1>5 DEF TurnInv

\* The rows follow: q puts down everything it had in hand.
LEMMA TurnCommit ==
    ASSUME TypeOK, HoldInv, TurnInv, NEW q \in Requests, UNCHANGED accCache,
           req[q].pc \in {"commitAcc", "commitRevoke"},
           \A x \in Requests \ {q} : /\ req'[x].pc = req[x].pc
                                     /\ req'[x].acc = req[x].acc
                                     /\ req'[x].rows = req[x].rows
                                     /\ req[x].pc \notin AccPCs,
           req'[q].pc \notin AccPCs, req'[q].rows = {}, req'[q].acc = NoId,
           \A b \in Requests :
             accRow'[b] = IF b = q /\ req[q].pc = "commitAcc" THEN "ACTIVE"
                          ELSE IF b \in req[q].rows THEN "REVOKED"
                          ELSE accRow[b],
           \A a, b \in Requests : accRow'[a] = "ACTIVE" /\ accRow'[b] = "ACTIVE" => a = b
    PROVE  TurnInv'
<1>t ProcOf \in [Requests -> Procs] /\ NoId \notin Requests /\ Rem \notin Requests
  BY ConstantsAssumption
<1>1. \A x \in Requests : x # q => InHand(x) = {}
  BY EmptyHand DEF HoldInv
<1>2. \A x \in Requests : InHand(x)' = {} /\ req'[x].pc \notin AccPCs
  <2>1. InHand(q)' = {}
    BY DEF InHand
  <2>2. \A x \in Requests : x # q => InHand(x)' = InHand(x)
    BY DEF InHand
  <2> QED
    BY <1>1, <2>1, <2>2
<1>3. \A b \in Requests : b \in InHand(q) <=> b \in req[q].rows
  BY <1>t DEF InHand, TurnInv, ListInv
<1>4. ASSUME NEW b \in Requests PROVE accRow'[b] = accCache'[ProcOf[b]][b]
  <2>1. CASE b = q /\ req[q].pc = "commitAcc"
    BY <2>1 DEF TurnInv, ListInv
  <2>2. CASE ~(b = q /\ req[q].pc = "commitAcc") /\ b \in req[q].rows
    <3>1. accCache[ProcOf[q]][b] = "REVOKED"
      BY <1>3, <2>2 DEF HoldInv, HandInv
    <3>2. ProcOf[q] = ProcOf[b]
      BY <1>t, <3>1 DEF TurnInv, AgreeInv
    <3> QED
      BY <2>2, <3>1, <3>2
  <2>3. CASE ~(b = q /\ req[q].pc = "commitAcc") /\ b \notin req[q].rows
    <3>1. ~Pending(b)
      BY <1>1, <1>3, <2>3 DEF Pending, AccPCs
    <3> QED
      BY <2>3, <3>1 DEF TurnInv, AgreeInv
  <2> QED
    BY <2>1, <2>2, <2>3
<1>5. AgreeInv'
  BY <1>4 DEF TurnInv, AgreeInv, ActiveIn, IsAdmin
<1>6. \A x \in Requests : ListInv(x)'
  BY <1>2 DEF ListInv, AccPCs
<1> QED
  BY <1>5, <1>6 DEF TurnInv

LEMMA TurnStep ==
    ASSUME AdminsShareProcess, BaseInv, HoldInv, HoldInv',
           AdminsTakeTurns, AdminsTakeTurns', TurnInv, [Calm]_vars
    PROVE  TurnInv'
<1>o TypeOK
  BY DEF BaseInv
<1>t /\ req \in [Requests -> Request] /\ ProcOf \in [Requests -> Procs]
     /\ accCache \in [Procs -> [Requests -> AccStatus]]
     /\ accRow \in [Requests -> AccStatus]
     /\ NoId \notin Requests /\ Rem \notin Requests
  BY <1>o, ConstantsAssumption DEF TypeOK
\* Whoever works on acceptances does so alone.
<1>a ASSUME NEW q \in Requests, req[q].pc \in AccPCs
     PROVE  /\ IsAdmin(q)
            /\ \A x \in Requests \ {q} : req[x].pc \notin AccPCs /\ InHand(x) = {}
  <2>1. IsAdmin(q) /\ InFlight(q)
    BY <1>a DEF HoldInv, HandInv, InFlight, AccPCs, Over
  <2> QED
    BY <1>o, <2>1, Alone
<1>1. ASSUME NEW q \in Requests, RemStep(q) PROVE TurnInv'
  <2>1. Quiet(q)
    BY <1>1, QuietStep
  <2> QED
    BY <1>o, <2>1, TurnQuiet
<1>2. ASSUME NEW q \in Requests, ListExisting(q) PROVE TurnInv'
  <2>1. req[q].pc = "existing" /\ UNCHANGED <<accRow, accCache>>
    BY <1>2 DEF ListExisting, db
  <2>2. /\ req'[q].pc = "revokeOld" /\ req'[q].rows = {} /\ req'[q].acc = NoId
        /\ req'[q].live = (\E a \in Requests : accCache[ProcOf[q]][a] # "none")
        /\ \A x \in Requests \ {q} : req'[x] = req[x]
    BY <1>2, <1>t DEF ListExisting, Go, At
  <2>3. InHand(q)' = InHand(q)
    BY <2>1, <2>2 DEF TurnInv, ListInv, InHand
  <2> QED
    BY <1>o, <2>1, <2>2, <2>3, TurnRead
<1>3. ASSUME NEW q \in Requests, RevokeOld(q) PROVE TurnInv'
  <2>1. PICK a \in Requests :
          /\ accCache[ProcOf[q]][a] = "ACTIVE"
          /\ accCache' = [accCache EXCEPT ![ProcOf[q]][a] = "REVOKED"]
          /\ Go(q, [req[q] EXCEPT !.pc = "getOld", !.acc = a])
    BY <1>3 DEF RevokeOld, ActiveIn
  <2>2. req[q] \in Request /\ req[q].pc = "revokeOld" /\ req[q].live /\ UNCHANGED accRow
    BY <1>3, <1>t DEF RevokeOld, db
  <2>3. /\ req'[q].pc = "getOld" /\ req'[q].rows = req[q].rows
        /\ req'[q].acc = a /\ req'[q].live = req[q].live
        /\ \A x \in Requests \ {q} : req'[x] = req[x]
    BY <1>t, <2>1, <2>2 DEF Go, Request
  <2>4. IsAdmin(q) /\ \A x \in Requests \ {q} : req[x].pc \notin AccPCs
    BY <1>a, <2>2 DEF AccPCs
  <2> QED
    BY <1>o, <2>1, <2>2, <2>3, <2>4, TurnMark
<1>4. ASSUME NEW q \in Requests, GetOld(q) PROVE TurnInv'
  <2>1. req[q] \in Request /\ req[q].pc = "getOld" /\ UNCHANGED <<accRow, accCache>>
    BY <1>4, <1>t DEF GetOld, db
  <2>2. req[q].acc \in Requests
    BY <2>1 DEF BaseInv, LocalInv, Request
  <2>3. accRow[req[q].acc] = "ACTIVE"
    BY <1>t, <2>2 DEF TurnInv, ListInv, InHand
  <2>4. /\ req'[q].pc = "revokeOld"
        /\ req'[q].rows = req[q].rows \cup {a \in {req[q].acc} : accRow[a] # "none"}
        /\ req'[q].acc = NoId /\ req'[q].live = req[q].live
        /\ \A x \in Requests \ {q} : req'[x] = req[x]
    BY <1>4, <1>t, <2>1 DEF GetOld, Go, Request
  <2>5. req'[q].rows = req[q].rows \cup {req[q].acc}
    BY <2>3, <2>4
  <2>6. InHand(q)' = InHand(q)
    BY <1>t, <2>2, <2>4, <2>5 DEF InHand
  <2>7. ~req'[q].live => \A a \in Requests : accCache[ProcOf[q]][a] = "none"
    BY <2>1, <2>4 DEF TurnInv, ListInv
  <2> QED
    BY <1>o, <2>1, <2>4, <2>6, <2>7, TurnRead
<1>5. ASSUME NEW q \in Requests, CreateAcceptance(q) PROVE TurnInv'
  <2>1. req[q] \in Request /\ req[q].pc = "revokeOld" /\ UNCHANGED accRow
    BY <1>5, <1>t DEF CreateAcceptance, db
  <2>2. /\ req'[q].pc = "commitAcc" /\ req'[q].rows = req[q].rows
        /\ req'[q].acc = req[q].acc
        /\ \A x \in Requests \ {q} : req'[x] = req[x]
    BY <1>5, <1>t, <2>1 DEF CreateAcceptance, Go, Request
  <2>3. IsAdmin(q) /\ \A x \in Requests \ {q} : req[x].pc \notin AccPCs /\ InHand(x) = {}
    BY <1>a, <2>1 DEF AccPCs
  <2>4. ProcOf[q] \in Procs
    BY <1>t
  <2>5. /\ accCache'[ProcOf[q]][q] = "ACTIVE"
        /\ \A p \in Procs, b \in Requests :
             p # ProcOf[q] \/ b # q => accCache'[p][b] = accCache[p][b]
    BY <1>5, <1>t, <2>4 DEF CreateAcceptance
  <2>6. \A x \in Requests : InHand(x)' = InHand(x)
    BY <2>2 DEF InHand
  <2>7. ActiveIn(ProcOf[q]) = {}
    <3>1. CASE req[q].live
      BY <1>5, <3>1 DEF CreateAcceptance
    <3>2. CASE ~req[q].live
      <4>1. \A a \in Requests : accCache[ProcOf[q]][a] = "none"
        BY <2>1, <3>2 DEF TurnInv, ListInv
      <4> QED
        BY <4>1 DEF ActiveIn
    <3> QED
      BY <3>1, <3>2
  <2>8. AgreeInv'
    <3>1. \A p \in Procs, a \in Requests :
            accCache'[p][a] # "none" => p = ProcOf[a] /\ IsAdmin(a)
      BY <2>3, <2>5 DEF TurnInv, AgreeInv
    <3>2. ASSUME NEW b \in Requests, ~Pending(b)' PROVE accRow'[b] = accCache'[ProcOf[b]][b]
      <4>1. b # q /\ ~Pending(b)
        BY <2>1, <2>2, <2>6, <3>2 DEF Pending
      <4> QED
        BY <1>t, <2>1, <2>5, <4>1 DEF TurnInv, AgreeInv
    <3>3. \A p \in Procs : \A a, b \in ActiveIn(p)' : a = b
      <4>1. \A p \in Procs : p # ProcOf[q] => ActiveIn(p)' = ActiveIn(p)
        BY <2>5 DEF ActiveIn
      <4>2. ActiveIn(ProcOf[q])' = {q}
        BY <2>4, <2>5, <2>7 DEF ActiveIn
      <4> QED
        BY <4>1, <4>2 DEF TurnInv, AgreeInv
    <3> QED
      BY <2>1, <3>1, <3>2, <3>3 DEF TurnInv, AgreeInv, IsAdmin
  <2>9. accRow[q] = "none" /\ req[q].acc = NoId
    BY <2>1 DEF HoldInv, HandInv, TurnInv, ListInv, Over
  <2>10. ListInv(q)'
    BY <2>1, <2>2, <2>5, <2>6, <2>9 DEF TurnInv, ListInv
  <2>11. \A x \in Requests \ {q} : ListInv(x)'
    BY <2>2, <2>3, <2>6 DEF ListInv, AccPCs
  <2> QED
    BY <2>8, <2>10, <2>11 DEF TurnInv
<1>6. ASSUME NEW q \in Requests, CommitAcceptance(q) PROVE TurnInv'
  <2>1. /\ req[q].pc = "commitAcc" /\ UNCHANGED accCache
        /\ Commit(q, req[q].rows, At("done"))
    BY <1>6 DEF CommitAcceptance
  <2>2. At("done") \in Request
    BY AtType DEF PCs, Over
  <2>3. /\ req'[q] = At("done")
        /\ \A x \in Requests \ {q} : /\ req'[x].pc = req[x].pc
                                     /\ req'[x].acc = req[x].acc
                                     /\ req'[x].rows = req[x].rows
    BY <1>o, <2>1, <2>2, CommitType
  <2>4. req'[q].pc \notin AccPCs /\ req'[q].rows = {} /\ req'[q].acc = NoId
    BY <2>3 DEF At, AccPCs
  <2>5. IsAdmin(q) /\ \A x \in Requests \ {q} : req[x].pc \notin AccPCs /\ InHand(x) = {}
    BY <1>a, <2>1 DEF AccPCs
  <2>6. \A b \in Requests : accRow'[b] = IF b = q THEN "ACTIVE"
                                         ELSE IF b \in req[q].rows THEN "REVOKED"
                                         ELSE accRow[b]
    BY <1>6 DEF CommitAcceptance
  \* Whatever was ACTIVE in the table is among the rows q has read.
  <2>7. ASSUME NEW b \in Requests, b # q, b \notin req[q].rows, accRow[b] = "ACTIVE"
        PROVE  FALSE
    <3>1. req[q].acc = NoId /\ accCache[ProcOf[q]][q] = "ACTIVE"
      BY <2>1 DEF TurnInv, ListInv
    <3>2. ~Pending(b)
      BY <1>t, <2>5, <2>7, <3>1 DEF Pending, InHand, AccPCs
    <3>3. accCache[ProcOf[b]][b] = "ACTIVE"
      BY <2>7, <3>2 DEF TurnInv, AgreeInv
    <3>4. ProcOf[b] = ProcOf[q]
      BY <1>t, <2>5, <3>3 DEF TurnInv, AgreeInv, AdminsShareProcess
    <3> QED
      BY <1>t, <2>7, <3>1, <3>3, <3>4 DEF TurnInv, AgreeInv, ActiveIn
  <2>8. \A a, b \in Requests : accRow'[a] = "ACTIVE" /\ accRow'[b] = "ACTIVE" => a = b
    BY <2>6, <2>7
  <2> QED
    BY <1>o, <2>1, <2>3, <2>4, <2>5, <2>6, <2>8, TurnCommit
<1>7. ASSUME NEW q \in Requests, RevokeRisk(q) PROVE TurnInv'
  <2>1. PICK a \in Requests :
          /\ accCache[ProcOf[q]][a] = "ACTIVE"
          /\ accCache' = [accCache EXCEPT ![ProcOf[q]][a] = "REVOKED"]
          /\ Go(q, [At("getAcc") EXCEPT !.acc = a])
    BY <1>7 DEF RevokeRisk, ActiveIn
  <2>2. req[q].pc = "idle" /\ IsAdmin(q) /\ UNCHANGED accRow
    BY <1>7 DEF RevokeRisk, db, IsAdmin
  <2>3. /\ req'[q].pc = "getAcc" /\ req'[q].rows = {} /\ req'[q].acc = a
        /\ \A x \in Requests \ {q} : req'[x] = req[x]
    BY <1>t, <2>1 DEF Go, At
  <2>4. ASSUME NEW x \in Requests \ {q}, req[x].pc \in AccPCs PROVE FALSE
    <3>1. IsAdmin(x) /\ InFlight(x)' /\ InFlight(q)'
      BY <2>3, <2>4, <1>a DEF InFlight, AccPCs, Over
    <3> QED
      BY <2>2, <3>1 DEF AdminsTakeTurns, IsAdmin
  <2>5. req'[q].rows \ {Rem} = req[q].rows \ {Rem}
    BY <2>2, <2>3 DEF HoldInv, HandInv, AccPCs
  <2> QED
    BY <1>o, <2>1, <2>2, <2>3, <2>4, <2>5, TurnMark
<1>8. ASSUME NEW q \in Requests, GetAcceptance(q) PROVE TurnInv'
  <2>1. req[q] \in Request /\ req[q].pc = "getAcc" /\ UNCHANGED <<accRow, accCache>>
    BY <1>8, <1>t DEF GetAcceptance, db
  <2>2. req[q].acc \in Requests
    BY <2>1 DEF BaseInv, LocalInv, Request
  <2>3. accRow[req[q].acc] = "ACTIVE"
    BY <1>t, <2>2 DEF TurnInv, ListInv, InHand
  <2>4. /\ req'[q].pc = "commitRevoke"
        /\ req'[q].rows = {a \in {req[q].acc} : accRow[a] # "none"}
        /\ req'[q].acc = req[q].acc
        /\ \A x \in Requests \ {q} : req'[x] = req[x]
    BY <1>8, <1>t, <2>1 DEF GetAcceptance, Go, Request
  <2>5. req'[q].rows = {req[q].acc}
    BY <2>3, <2>4
  <2>6. InHand(q)' = InHand(q)
    BY <1>t, <2>1, <2>2, <2>4, <2>5 DEF InHand, TurnInv, ListInv
  <2> QED
    BY <1>o, <2>1, <2>4, <2>5, <2>6, TurnRead
<1>9. ASSUME NEW q \in Requests, CommitRevoke(q) PROVE TurnInv'
  <2>1. /\ req[q].pc = "commitRevoke" /\ UNCHANGED accCache
        /\ Commit(q, req[q].rows, At("reopen"))
    BY <1>9 DEF CommitRevoke
  <2>2. At("reopen") \in Request
    BY AtType DEF PCs
  <2>3. /\ req'[q] = At("reopen")
        /\ \A x \in Requests \ {q} : /\ req'[x].pc = req[x].pc
                                     /\ req'[x].acc = req[x].acc
                                     /\ req'[x].rows = req[x].rows
    BY <1>o, <2>1, <2>2, CommitType
  <2>4. req'[q].pc \notin AccPCs /\ req'[q].rows = {} /\ req'[q].acc = NoId
    BY <2>3 DEF At, AccPCs
  <2>5. \A x \in Requests \ {q} : req[x].pc \notin AccPCs
    BY <1>a, <2>1 DEF AccPCs
  <2>6. \A b \in Requests : accRow'[b] = IF b \in req[q].rows THEN "REVOKED" ELSE accRow[b]
    BY <1>9 DEF CommitRevoke
  <2>7. \A a, b \in Requests : accRow'[a] = "ACTIVE" /\ accRow'[b] = "ACTIVE" => a = b
    BY <2>6 DEF TurnInv, AgreeInv
  <2> QED
    BY <1>o, <2>1, <2>3, <2>4, <2>5, <2>6, <2>7, TurnCommit
<1>10. CASE UNCHANGED vars
  BY <1>10 DEF vars, TurnInv, AgreeInv, ListInv, Pending, InHand, ActiveIn, IsAdmin
<1> QED
  BY <1>1, <1>2, <1>3, <1>4, <1>5, <1>6, <1>7, <1>8, <1>9, <1>10 DEF Calm, Step, RemStep

\* A step of one request leaves every other request where it is.
LEMMA OthersStay ==
    ASSUME TypeOK, NEW q \in Requests, Step(q)
    PROVE  \A x \in Requests \ {q} : req'[x].pc = req[x].pc
<1>t. req \in [Requests -> Request]
  BY DEF TypeOK
<1>g. \A r : Go(q, r) => \A x \in Requests \ {q} : req'[x].pc = req[x].pc
  BY <1>t DEF Go
<1>c. \A w, r : Commit(q, w, r) => \A x \in Requests \ {q} : req'[x].pc = req[x].pc
  BY <1>t DEF Commit, Request
<1>1. CASE UpdateStatus(q)
  BY <1>1, <1>t DEF Go, Commit, UpdateStatus, ApplyStatus, SetStatus, Touch
<1>2. CASE AssignOwner(q)
  BY <1>2, <1>t DEF Go, Commit, AssignOwner, Touch
<1>3. CASE SyncRecommendation(q)
  BY <1>3, <1>t DEF Go, Commit, SyncRecommendation, Touch
<1>4. CASE InsertRem(q)
  BY <1>4, <1>t DEF Go, Commit, InsertRem
<1>5. CASE GetRem(q)
  BY <1>5, <1>t DEF Go, Commit, GetRem
<1>6. CASE CommitRem(q)
  BY <1>6, <1>c, <1>g DEF CommitRem
<1>7. CASE AcceptRisk(q)
  BY <1>7, <1>t DEF Go, AcceptRisk, ApplyStatus, SetStatus, Touch
<1>8. CASE ApplyException(q)
  BY <1>8, <1>t DEF Go, Commit, ApplyException, ApplyStatus, SetStatus, Touch
<1>9. CASE ListExisting(q)
  BY <1>9, <1>t DEF Go, Commit, ListExisting
<1>10. CASE RevokeOld(q)
  BY <1>10, <1>t DEF Go, Commit, RevokeOld
<1>11. CASE GetOld(q)
  BY <1>11, <1>t DEF Go, Commit, GetOld
<1>12. CASE CreateAcceptance(q)
  BY <1>12, <1>t DEF Go, Commit, CreateAcceptance
<1>13. CASE CommitAcceptance(q)
  BY <1>13, <1>c DEF CommitAcceptance
<1>14. CASE RevokeRisk(q)
  BY <1>14, <1>t DEF Go, Commit, RevokeRisk
<1>15. CASE GetAcceptance(q)
  BY <1>15, <1>t DEF Go, Commit, GetAcceptance
<1>16. CASE CommitRevoke(q)
  BY <1>16, <1>c DEF CommitRevoke
<1>17. CASE Reopen(q)
  BY <1>17, <1>t DEF Go, Commit, Reopen, ApplyStatus, SetStatus, Touch
<1> QED
  BY <1>1, <1>2, <1>3, <1>4, <1>5, <1>6, <1>7, <1>8, <1>9, <1>10, <1>11, <1>12, <1>13, <1>14, <1>15, <1>16, <1>17 DEF Step

LEMMA InTurnIsSpec == AdminsInTurnSpec => Spec
<1>1. [AdminsInTurn]_vars => [Next]_vars
  BY DEF AdminsInTurn, Operators, Calm, Next
<1> QED
  BY <1>1, PTL DEF AdminsInTurnSpec, Spec

\* Operators cannot end the administrators' turns: their steps move no
\* administrator's request.
LEMMA TurnKept ==
    ASSUME TypeOK, AdminsTakeTurns, [AdminsInTurn]_vars
    PROVE  AdminsTakeTurns' /\ [Calm /\ AdminsTakeTurns']_vars
<1>1. CASE UNCHANGED vars
  BY <1>1 DEF AdminsTakeTurns, InFlight, IsAdmin, vars
<1>2. CASE Calm /\ AdminsTakeTurns'
  BY <1>2
<1>3. ASSUME NEW q \in Operators, Step(q)
      PROVE  Calm /\ AdminsTakeTurns'
  <2>1. q \in Requests /\ ~IsAdmin(q)
    BY DEF Operators
  <2>2. \A x \in Requests \ {q} : req'[x].pc = req[x].pc
    BY <1>3, <2>1, OthersStay
  <2>3. \A x \in Requests : IsAdmin(x) /\ InFlight(x)' => InFlight(x)
    BY <2>1, <2>2 DEF InFlight
  <2> QED
    BY <1>3, <2>1, <2>3 DEF Calm, AdminsTakeTurns, IsAdmin
<1> QED
  BY <1>1, <1>2, <1>3 DEF AdminsInTurn

LEMMA TurnsTaken == AdminsInTurnSpec => []AdminsTakeTurns
<1>1. Init => AdminsTakeTurns
  BY DEF Init, AdminsTakeTurns, InFlight, At
<1>2. TypeOK /\ AdminsTakeTurns /\ [AdminsInTurn]_vars => AdminsTakeTurns'
  BY TurnKept
<1> QED
  BY <1>1, <1>2, InTurnIsSpec, TypeCorrect, PTL DEF AdminsInTurnSpec

LEMMA TurnHolds ==
    ASSUME AdminsShareProcess
    PROVE  AdminsInTurnSpec => []TurnInv
<1>1. Init => TurnInv
  <2> SUFFICES ASSUME Init PROVE TurnInv
    OBVIOUS
  <2>1. At("idle").rows = {} /\ At("idle").acc = NoId /\ At("idle").pc = "idle"
    BY DEF At
  <2>2. \A q \in Requests : req[q].rows = {} /\ req[q].acc = NoId /\ req[q].pc = "idle"
    BY <2>1 DEF Init
  <2>3. \A q \in Requests : InHand(q) = {}
    BY <2>2 DEF InHand
  <2>4. /\ \A a \in Requests : accRow[a] = "none"
        /\ \A p \in Procs, a \in Requests : accCache[p][a] = "none"
    BY DEF Init
  <2>5. AgreeInv
    BY <2>4, ConstantsAssumption DEF AgreeInv, ActiveIn
  <2>6. \A q \in Requests : ListInv(q)
    BY <2>2, <2>3 DEF ListInv
  <2> QED
    BY <2>5, <2>6 DEF TurnInv
<1>2. /\ BaseInv /\ HoldInv /\ HoldInv' /\ AdminsTakeTurns /\ AdminsTakeTurns' /\ TurnInv
      /\ [Calm /\ AdminsTakeTurns']_vars
      => TurnInv'
  BY TurnStep
<1>3. TypeOK /\ AdminsTakeTurns /\ [AdminsInTurn]_vars => [Calm /\ AdminsTakeTurns']_vars
  BY TurnKept
<1> QED
  BY <1>1, <1>2, <1>3, TypeCorrect, BaseHolds, HoldHolds, TurnsTaken, InTurnIsSpec, PTL
     DEF AdminsInTurnSpec

\* At most one acceptance is in force, in the table and in every dict, while
\* the administrators, served by one process, wait for each other: accept_risk
\* revokes the ones before in both places.
THEOREM OneActive ==
    ASSUME AdminsShareProcess
    PROVE  AdminsInTurnSpec => []OneActiveAcceptance
<1>1. TurnInv => OneActiveAcceptance
  BY DEF TurnInv, AgreeInv, OneActiveAcceptance
<1> QED
  BY <1>1, TurnHolds, PTL

\* Between two requests of administrators, served by one process, dict and
\* table agree on every acceptance.
THEOREM InStep ==
    ASSUME AdminsShareProcess
    PROVE  AdminsInTurnSpec => []AcceptancesInStep
<1>1. TurnInv /\ HoldInv => AcceptancesInStep
  <2> SUFFICES ASSUME TurnInv, HoldInv, NEW a \in Requests,
                      \A q \in Requests : IsAdmin(q) => ~InFlight(q)
               PROVE  accRow[a] = accCache[ProcOf[a]][a]
    BY DEF AcceptancesInStep
  <2>1. \A q \in Requests : req[q].pc \notin AccPCs
    BY DEF HoldInv, HandInv, InFlight, AccPCs, Over
  <2>2. ~Pending(a)
    BY <2>1, EmptyHand DEF HoldInv, Pending, AccPCs
  <2> QED
    BY <2>2 DEF TurnInv, AgreeInv
<1> QED
  BY <1>1, TurnHolds, HoldHolds, InTurnIsSpec, PTL
=============================================================================
