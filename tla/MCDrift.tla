------------------------------ MODULE MCDrift ------------------------------
(***************************************************************************)
(* Instance of Drift: one worker, two drift requests to the API.           *)
(***************************************************************************)
EXTENDS Drift, TLC

MCKinds == AllKinds
MCSymmetry == Permutations(Calls)
=============================================================================
