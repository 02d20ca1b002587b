------------------------------ MODULE MCIncidents ------------------------------
(* Small instances of Incidents: one incident made by hand and one group of   *)
(* alerts, both critical, and two requests at a time.                         *)
EXTENDS Incidents, TLC

CONSTANTS hand, group, s1, s2, ann

MCManual == {hand}
MCGroups == {group}
MCCritical == {hand, group}
MCSessions == {s1, s2}
MCOwners == {ann}

Interchangeable == Permutations(MCSessions)
================================================================================
