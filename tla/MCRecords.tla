---------------------------- MODULE MCRecords -----------------------------
(***************************************************************************)
(* Instances of Records for TLC: two overlapping requests and one worker.  *)
(***************************************************************************)
EXTENDS Records, TLC

Symmetry == Permutations(Requests)

\* What a session that is over had in hand is of no use to any action.
InHand(s) == IF Busy(s) \/ At(s, "idle") THEN session[s] ELSE [Idle EXCEPT !.pc = "done"]
View == <<kind, versions, log, evidence, gaps, cache, [s \in Sessions |-> InHand(s)],
          cold, passes, troubles, poisoned, relinked>>
=============================================================================
