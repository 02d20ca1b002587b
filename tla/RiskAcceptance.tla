---------------------------- MODULE RiskAcceptance ----------------------------
(***************************************************************************)
(* The remediation of one recommendation (fingerprint) and the acceptances *)
(* of its risk: two tables, and in every process two dicts that requests   *)
(* read and write beside them.                                             *)
(*                                                                         *)
(* Requests of one process run on one event loop: an action is what a      *)
(* request does from one await on the database to the next.  A dict is     *)
(* changed at once, usually before the row is read; a row is read in one   *)
(* action and committed in a later one, where its version column makes the *)
(* commit fail if anybody else changed the row in between.                 *)
(***************************************************************************)
EXTENDS Integers, Sequences

CONSTANTS
    Requests,     \* ids of requests; also of the rows they insert
    Procs,        \* API process, Celery worker
    NoId,         \* no remediation
    Rem,          \* the remediation row, where rows are listed
    KindOf,       \* KindOf[q]: what q asks for
    ProcOf,       \* ProcOf[q]: the process that serves q
    Reloading     \* processes that may load their dicts from the tables when
                  \*   they start (the worker); the others start empty

\* Remediation statuses, and what one can become through validate_transition.
Status == {"OPEN", "IN_PROGRESS", "REMEDIATED", "ACCEPTED_RISK",
           "FALSE_POSITIVE", "DEFERRED"}
NextOf == [OPEN |-> {"IN_PROGRESS", "ACCEPTED_RISK", "FALSE_POSITIVE", "DEFERRED"},
           IN_PROGRESS |-> {"REMEDIATED", "ACCEPTED_RISK", "DEFERRED"},
           DEFERRED |-> {"IN_PROGRESS", "ACCEPTED_RISK"},
           REMEDIATED |-> {}, ACCEPTED_RISK |-> {}, FALSE_POSITIVE |-> {}]

\* accept, revoke: the governance endpoints; sync: a recommendation computed
\* again; assign: a new owner; a status: the endpoint that asks for it.
Targets == Status \ {"OPEN"}
Kinds == {"accept", "revoke", "sync", "assign"} \cup Targets

ASSUME ConstantsAssumption ==
    /\ NoId \notin Requests
    /\ Rem \notin Requests
    /\ KindOf \in [Requests -> Kinds]
    /\ ProcOf \in [Requests -> Procs]
    /\ Reloading \subseteq Procs

\* The governance endpoints are the API's, which never reloads.
ASSUME AdministratorsAssumption ==
    \A q \in Requests : KindOf[q] \in {"accept", "revoke"} => ProcOf[q] \notin Reloading

VARIABLES
    remRow,    \* the row of table remediations, unique per fingerprint
    history,   \* its rows in remediation_history that carry a status, and
               \*   the request that wrote each
    accRow,    \* accRow[q]: status of the risk_acceptances row q inserts
    remCache,  \* remCache[p]: what p's _remediations holds
    accCache,  \* accCache[p][q]: status of q's record in p's _acceptances
    req        \* req[q]: where q is and its local variables

vars == <<remRow, history, accRow, remCache, accCache, req>>
db == <<remRow, history, accRow>>

NoRem == [id |-> NoId, status |-> "OPEN"]
Remediation == [id: Requests \cup {NoId}, status: Status]
AccStatus == {"none", "ACTIVE", "REVOKED"}

PCs == {"idle", "sync", "insert", "except", "getRem", "commitRem", "existing",
        "revokeOld", "getOld", "commitAcc", "getAcc", "commitRevoke", "reopen",
        "done", "failed"}
Over == {"done", "failed"}

\* rem: the remediation's id it holds; goal: the status it is writing, "none"
\* when it writes other columns; acc: the acceptance it is revoking; live:
\* whether its list of existing acceptances is the one in the dict; rows: the
\* rows its unit of work has read; stale: one of them has changed since.
Request == [pc: PCs, rem: Requests \cup {NoId}, goal: Status \cup {"none"},
            acc: Requests \cup {NoId}, live: BOOLEAN,
            rows: SUBSET (Requests \cup {Rem}), stale: BOOLEAN]

At(pc) == [pc |-> pc, rem |-> NoId, goal |-> "none", acc |-> NoId,
           live |-> FALSE, rows |-> {}, stale |-> FALSE]

Cached(q) == remCache[ProcOf[q]]
Known(q) == Cached(q).id # NoId
InFlight(q) == req[q].pc \notin {"idle"} \cup Over
IsAdmin(q) == KindOf[q] \in {"accept", "revoke"}
ActiveIn(p) == {a \in Requests : accCache[p][a] = "ACTIVE"}

TypeOK ==
    /\ remRow \in Remediation
    /\ history \in Seq([by: Requests, new: Status])
    /\ accRow \in [Requests -> AccStatus]
    /\ remCache \in [Procs -> Remediation]
    /\ accCache \in [Procs -> [Requests -> AccStatus]]
    /\ req \in [Requests -> Request]
    /\ remRow.id = NoId => remRow = NoRem
    /\ \A p \in Procs : remCache[p].id = NoId => remCache[p] = NoRem

Init ==
    /\ remRow = NoRem
    /\ history = <<>>
    /\ accRow = [q \in Requests |-> "none"]
    /\ remCache = [p \in Procs |-> NoRem]
    /\ accCache = [p \in Procs |-> [q \in Requests |-> "none"]]
    /\ req = [q \in Requests |-> At("idle")]

-----------------------------------------------------------------------------
(* What the steps are made of.                                              *)

Go(q, r) == req' = [req EXCEPT ![q] = r]

\* q commits: whoever has read one of the rows it wrote holds old versions.
Commit(q, written, r) ==
    req' = [x \in Requests |->
              IF x = q THEN r
              ELSE [req[x] EXCEPT !.stale = @ \/ req[x].rows \cap written # {}]]

Log(q, s) == history' = Append(history, [by |-> q, new |-> s])

\* validate_transition.
Validates(old, new) == old = new \/ new \in NextOf[old]

\* The record in the dict gets the status at once; the row's turn comes after
\* the awaits that open the unit of work.
SetStatus(q, s) ==
    /\ remCache' = [remCache EXCEPT ![ProcOf[q]].status = s]
    /\ Go(q, [At("getRem") EXCEPT !.rem = Cached(q).id, !.goal = s])

\* The record is changed before the transition is validated.
\* validate_transition, then the change, in one go; or ValueError.
ApplyStatus(q, s) ==
    \/ /\ Validates(Cached(q).status, s)
       /\ SetStatus(q, s)
    \/ /\ ~Validates(Cached(q).status, s)
       /\ Go(q, At("failed"))
       /\ UNCHANGED remCache

\* Only columns other than the status are to be written.
Touch(q) == Go(q, [At("getRem") EXCEPT !.rem = Cached(q).id])

\* Where q goes once the remediation's row is written, or found missing.
AfterRem(q) ==
    IF KindOf[q] # "accept" THEN "done"
    ELSE IF req[q].goal = "none" THEN "except" ELSE "existing"

-----------------------------------------------------------------------------
(* RemediationService and ExceptionService.                                 *)

\* No 404 for a remediation the dict does not hold.
UpdateStatus_Slip(q) ==
    /\ req[q].pc = "idle"
    /\ KindOf[q] \in Targets
    /\ ApplyStatus(q, KindOf[q])
    /\ UNCHANGED <<db, accCache>>

\* start, complete, accept-risk, false-positive, defer.
UpdateStatus(q) ==
    /\ req[q].pc = "idle"
    /\ KindOf[q] \in Targets
    /\ Known(q)
    /\ ApplyStatus(q, KindOf[q])
    /\ UNCHANGED <<db, accCache>>

AssignOwner(q) ==
    /\ req[q].pc = "idle"
    /\ KindOf[q] = "assign"
    /\ Known(q)
    /\ Touch(q)
    /\ UNCHANGED <<db, remCache, accCache>>

\* The fingerprint is looked up and, if new, entered in the dict before the
\* insert is attempted.
SyncRecommendation(q) ==
    /\ \/ req[q].pc = "idle" /\ KindOf[q] = "sync"
       \/ req[q].pc = "sync"
    /\ \/ /\ Known(q)
          /\ Touch(q)
          /\ UNCHANGED remCache
       \/ /\ ~Known(q)
          /\ remCache' = [remCache EXCEPT ![ProcOf[q]] = [id |-> q, status |-> "OPEN"]]
          /\ Go(q, At("insert"))
    /\ UNCHANGED <<db, accCache>>

\* recommendation_fingerprint is unique: a row somebody else inserted makes
\* this insert fail and leaves the record in the dict.
InsertRem(q) ==
    /\ req[q].pc = "insert"
    /\ \/ /\ remRow = NoRem
          /\ remRow' = [id |-> q, status |-> "OPEN"]
          /\ Log(q, "OPEN")
          /\ Go(q, At(IF KindOf[q] = "accept" THEN "except" ELSE "done"))
       \/ /\ remRow # NoRem
          /\ Go(q, At("failed"))
          /\ UNCHANGED <<remRow, history>>
    /\ UNCHANGED <<accRow, remCache, accCache>>

\* remediation_repo.get by the id held: nothing is written if it finds none.
GetRem(q) ==
    /\ req[q].pc = "getRem"
    /\ Go(q, IF remRow.id = req[q].rem
             THEN [req[q] EXCEPT !.pc = "commitRem", !.rows = {Rem}]
             ELSE At(AfterRem(q)))
    /\ UNCHANGED <<db, remCache, accCache>>

\* The history entry is committed by itself, before the row's version is
\* looked at.
CommitRem_Slip(q) ==
    /\ req[q].pc = "commitRem"
    /\ IF req[q].goal = "none" THEN UNCHANGED history ELSE Log(q, req[q].goal)
    /\ \/ /\ ~req[q].stale
          /\ remRow' = IF req[q].goal = "none" THEN remRow
                       ELSE [remRow EXCEPT !.status = req[q].goal]
          /\ Commit(q, {Rem}, At(AfterRem(q)))
       \/ /\ req[q].stale
          /\ Go(q, At("failed"))
          /\ UNCHANGED remRow
    /\ UNCHANGED <<accRow, remCache, accCache>>

CommitRem(q) ==
    /\ req[q].pc = "commitRem"
    /\ \/ /\ ~req[q].stale
          /\ IF req[q].goal = "none"
             THEN UNCHANGED <<remRow, history>>
             ELSE remRow' = [remRow EXCEPT !.status = req[q].goal] /\ Log(q, req[q].goal)
          /\ Commit(q, {Rem}, At(AfterRem(q)))
       \/ /\ req[q].stale
          /\ Go(q, At("failed"))
          /\ UNCHANGED <<remRow, history>>
    /\ UNCHANGED <<accRow, remCache, accCache>>

-----------------------------------------------------------------------------
(* RiskAcceptanceService.                                                   *)

\* With the remediation in the dict the exception is applied at once;
\* otherwise the finding is awaited and the recommendation synchronised.
AcceptRisk(q) ==
    /\ req[q].pc = "idle"
    /\ KindOf[q] = "accept"
    /\ \/ /\ Known(q)
          /\ ApplyStatus(q, "ACCEPTED_RISK")
       \/ /\ ~Known(q)
          /\ Go(q, At("sync"))
          /\ UNCHANGED remCache
    /\ UNCHANGED <<db, accCache>>

ApplyException(q) ==
    /\ req[q].pc = "except"
    /\ ApplyStatus(q, "ACCEPTED_RISK")
    /\ UNCHANGED <<db, accCache>>

\* The list the loop goes over is the dict's own, so that it sees what is
\* appended later, or a new empty one if the fingerprint has no entry yet.
ListExisting(q) ==
    /\ req[q].pc = "existing"
    /\ Go(q, [At("revokeOld") EXCEPT
                !.live = \E a \in Requests : accCache[ProcOf[q]][a] # "none"])
    /\ UNCHANGED <<db, remCache, accCache>>

\* One turn of the loop: the record is revoked in the dict, then its row read.
RevokeOld(q) ==
    /\ req[q].pc = "revokeOld"
    /\ req[q].live
    /\ \E a \in ActiveIn(ProcOf[q]) :
         /\ accCache' = [accCache EXCEPT ![ProcOf[q]][a] = "REVOKED"]
         /\ Go(q, [req[q] EXCEPT !.pc = "getOld", !.acc = a])
    /\ UNCHANGED <<db, remCache>>

\* The row is read and nothing assigned to it.
GetOld_Slip(q) ==
    /\ req[q].pc = "getOld"
    /\ Go(q, [req[q] EXCEPT !.pc = "revokeOld", !.acc = NoId])
    /\ UNCHANGED <<db, remCache, accCache>>

\* A row not committed yet is not found, and stays as it will be.
GetOld(q) ==
    /\ req[q].pc = "getOld"
    /\ Go(q, [req[q] EXCEPT !.pc = "revokeOld", !.acc = NoId,
                !.rows = @ \cup {a \in {req[q].acc} : accRow[a] # "none"}])
    /\ UNCHANGED <<db, remCache, accCache>>

CreateAcceptance(q) ==
    /\ req[q].pc = "revokeOld"
    /\ req[q].live => ActiveIn(ProcOf[q]) = {}
    /\ accCache' = [accCache EXCEPT ![ProcOf[q]][q] = "ACTIVE"]
    /\ Go(q, [req[q] EXCEPT !.pc = "commitAcc"])
    /\ UNCHANGED <<db, remCache>>

\* Should one of the rows have changed, the commit would raise like any other
\* (Fail); OneHolderEach says that this does not happen.
CommitAcceptance(q) ==
    /\ req[q].pc = "commitAcc"
    /\ ~req[q].stale
    /\ accRow' = [a \in Requests |-> IF a = q THEN "ACTIVE"
                                     ELSE IF a \in req[q].rows THEN "REVOKED"
                                     ELSE accRow[a]]
    /\ Commit(q, req[q].rows, At("done"))
    /\ UNCHANGED <<remRow, history, remCache, accCache>>

\* The record stays as it is until the row is committed.
RevokeRisk_Slip(q) ==
    /\ req[q].pc = "idle"
    /\ KindOf[q] = "revoke"
    /\ \E a \in ActiveIn(ProcOf[q]) : Go(q, [At("getAcc") EXCEPT !.acc = a])
    /\ UNCHANGED <<db, remCache, accCache>>

RevokeRisk(q) ==
    /\ req[q].pc = "idle"
    /\ KindOf[q] = "revoke"
    /\ \E a \in ActiveIn(ProcOf[q]) :
         /\ accCache' = [accCache EXCEPT ![ProcOf[q]][a] = "REVOKED"]
         /\ Go(q, [At("getAcc") EXCEPT !.acc = a])
    /\ UNCHANGED <<db, remCache>>

GetAcceptance(q) ==
    /\ req[q].pc = "getAcc"
    /\ Go(q, [req[q] EXCEPT !.pc = "commitRevoke",
                !.rows = {a \in {req[q].acc} : accRow[a] # "none"}])
    /\ UNCHANGED <<db, remCache, accCache>>

CommitRevoke(q) ==
    /\ req[q].pc = "commitRevoke"
    /\ ~req[q].stale
    /\ accRow' = [a \in Requests |-> IF a \in req[q].rows THEN "REVOKED" ELSE accRow[a]]
    /\ Commit(q, req[q].rows, At("reopen"))
    /\ UNCHANGED <<remRow, history, remCache, accCache>>

\* The remediation is left as it is.
\* update_status with bypass_terminal: no validation.  (A dict that holds the
\* acceptance holds the remediation too: both are filled and lost together.)
Reopen(q) ==
    /\ req[q].pc = "reopen"
    /\ Known(q)
    /\ SetStatus(q, "OPEN")
    /\ UNCHANGED <<db, accCache>>

-----------------------------------------------------------------------------
(* Failures.                                                                *)

\* An await of q on the database raises, or its client goes away: the unit of
\* work rolls back, the dicts keep what q put there.
Fail(q) ==
    /\ InFlight(q)
    /\ Go(q, At("failed"))
    /\ UNCHANGED <<db, remCache, accCache>>

\* Process p ends with everything it had in flight and starts again, with its
\* dicts empty or, once a first run has taken itself for a cold start, as in
\* the tables.
Restart(p) ==
    /\ \/ /\ p \in Reloading
          /\ remCache' = [remCache EXCEPT ![p] = remRow]
          /\ accCache' = [accCache EXCEPT ![p] = accRow]
       \/ /\ remCache' = [remCache EXCEPT ![p] = NoRem]
          /\ accCache' = [accCache EXCEPT ![p] = [q \in Requests |-> "none"]]
    /\ req' = [q \in Requests |->
                 IF ProcOf[q] = p /\ InFlight(q) THEN At("failed") ELSE req[q]]
    /\ UNCHANGED db

Step(q) ==
    \/ UpdateStatus(q) \/ AssignOwner(q) \/ SyncRecommendation(q) \/ InsertRem(q)
    \/ GetRem(q) \/ CommitRem(q) \/ AcceptRisk(q) \/ ApplyException(q)
    \/ ListExisting(q) \/ RevokeOld(q) \/ GetOld(q) \/ CreateAcceptance(q)
    \/ CommitAcceptance(q) \/ RevokeRisk(q) \/ GetAcceptance(q)
    \/ CommitRevoke(q) \/ Reopen(q)

Calm == \E q \in Requests : Step(q)
Next == Calm \/ (\E q \in Requests : Fail(q)) \/ (\E p \in Procs : Restart(p))

Spec == Init /\ [][Next]_vars

\* Nothing fails and no process is restarted, and administrators wait for each
\* other's requests, while operators and recommendations do as they please.
AdminsTakeTurns == \A x, y \in {q \in Requests : IsAdmin(q) /\ InFlight(q)} : x = y
Operators == {q \in Requests : ~IsAdmin(q)}
AdminsInTurn == (\E q \in Operators : Step(q)) \/ (Calm /\ AdminsTakeTurns')
AdminsInTurnSpec == Init /\ [][AdminsInTurn]_vars

-----------------------------------------------------------------------------
(* Safety.                                                                  *)

\* Under Spec.  The audit trail ends with the status the row has, whichever
\* commits failed, overlapped or lost their process: history and row are
\* written in one unit of work guarded by the row's version
\* (RemediationHistoryService.record_event is given the caller's unit of work).
HistoryMatchesRow ==
    remRow # NoRem => /\ history # <<>>
                      /\ history[Len(history)].new = remRow.status

\* Under Spec.  Two requests never have the same acceptance in hand, so that
\* no revocation is refused for a stale version: whoever finds a record in
\* force marks it REVOKED in the dict before its first await (accept_risk,
\* revoke_risk), and so keeps everybody else away from the row.
InHand(q) == (req[q].rows \cup {req[q].acc}) \ {Rem, NoId}
OneHolderEach ==
    /\ \A x, y \in Requests : x # y => InHand(x) \cap InHand(y) = {}
    /\ \A q \in Requests : req[q].pc \in {"commitAcc", "commitRevoke"} => ~req[q].stale

\* Under AdminsInTurnSpec.  At most one acceptance is in force for the
\* fingerprint, in the table and in the dict: accept_risk revokes the ones
\* before in both places.
OneActiveAcceptance ==
    /\ \A a, b \in Requests : accRow[a] = "ACTIVE" /\ accRow[b] = "ACTIVE" => a = b
    /\ \A p \in Procs : \A a, b \in ActiveIn(p) : a = b

\* Under AdminsInTurnSpec.  Between two administrators' requests the dict and
\* the table agree on every acceptance, even if operators made one of those
\* requests fail at the remediation.
AcceptancesInStep ==
    (\A q \in Requests : IsAdmin(q) => ~InFlight(q)) =>
        \A q \in Requests : accRow[q] = accCache[ProcOf[q]][q]
=============================================================================
