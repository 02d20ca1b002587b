----------------------------- MODULE MCMonitoring -----------------------------
(***************************************************************************)
(* One asset with one finding; the score crosses the critical line or      *)
(* drifts below what counts.                                               *)
(***************************************************************************)
EXTENDS Monitoring, TLC

CONSTANTS a1, f1, m1

MCAssetOf == f1 :> a1
MCScores == {60, 80}
MCSeverities == {"critical", "low"}
================================================================================
