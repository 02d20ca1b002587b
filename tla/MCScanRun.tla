------------------------------ MODULE MCScanRun ------------------------------
(* Small instances of ScanRun for TLC. *)
EXTENDS ScanRun, TLC

CONSTANTS r1, w1, s1, p1, p2

Discovery(tools) == [tools |-> tools, type |-> "discovery"]
VulnScan(tools)  == [tools |-> tools, type |-> "vulnerability-scan"]

\* A step with two different tools, then one that uses the second again.
MCTwoSteps == <<Discovery(<<p1, p2>>), VulnScan(<<p2>>)>>
\* No step at all; a step without a tool, then one whose type p1 lacks.
MCDefinitions == {MCTwoSteps, <<>>, <<Discovery(<<>>), VulnScan(<<p1>>)>>}
MCDefinitionsOne == {<<Discovery(<<p1>>)>>}

MCCapabilities == [p \in Plugins |-> IF p = p1 THEN {"discovery"} ELSE StepTypes]
MCWorkflowOf == [r \in Runs |-> w1]
MCScopeOf == [r \in Runs |-> s1]
MCOwnerOf == [x \in Workflows \cup Scopes |-> "owner"]
=============================================================================
