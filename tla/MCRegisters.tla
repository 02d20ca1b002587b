----------------------------- MODULE MCRegisters -----------------------------
(* Every register, three requests of the API or two passes of a worker.    *)
EXTENDS Registers, TLC

CONSTANTS r1, r2, r3, t1, t2

MCKinds == {"exposure", "control", "detection", "report", "ioc", "plan"}
MCRequests == {r1, r2, r3}
MCTechniques == {t1, t2}
MCSymmetry == Permutations(MCRequests)
==============================================================================
