---------------------------- MODULE MCLifecycles ----------------------------
(* The five kinds, two requests of the API and one worker.          *)
EXTENDS Lifecycles, TLC

CONSTANTS r1, r2, w1

MCKinds == {"hunt", "exercise", "posture", "program", "decision"}
MCRequests == {r1, r2}
MCWorkers == {w1}
MCSymmetry == Permutations(MCRequests)
=============================================================================
