--------------------------- MODULE MCRiskAcceptance ---------------------------
(* Small instances of RiskAcceptance for TLC: who asks for what, where. *)
EXTENDS RiskAcceptance, TLC

CONSTANTS q1, q2, q3, q4, q5, api, worker

\* Acceptances and a revocation, with operators around them.
MCAdminKinds == q1 :> "accept" @@ q2 :> "accept" @@ q3 :> "revoke" @@
                q4 :> "IN_PROGRESS" @@ q5 :> "assign"
\* Two acceptances and a revocation, the worker's recommendation and an
\* operator.
MCFullKinds == q1 :> "accept" @@ q2 :> "accept" @@ q3 :> "revoke" @@ q4 :> "sync" @@
               q5 :> "FALSE_POSITIVE"

MCOneProc == [q \in Requests |-> api]
MCFullProcs == [q \in Requests |-> IF KindOf[q] = "sync" THEN worker ELSE api]
=============================================================================
