------------------------------ MODULE MCFindings ------------------------------
(* Small instances of Findings for TLC. *)
EXTENDS Findings, TLC

CONSTANTS f1, f2, r1, r2, q1, q2, h1, api, worker

Seen(f, h, sev) == [finding |-> f, hash |-> h, severity |-> sev]

\* One finding; one of them listed twice; both of them.
MCReports == {<<Seen(f2, h1, "critical")>>,
              <<Seen(f2, h1, "critical"), Seen(f2, h1, "critical")>>,
              <<Seen(f2, h1, "critical"), Seen(f1, h1, "low")>>}
MCTemplateSets == {{f1, f2}}
MCPassesOf == [r \in Scans |-> IF r = r1 THEN 2 ELSE 1]
MCProcessOf == [s \in Sessions |-> IF s \in Scans THEN worker ELSE api]
MCTriageOf == [q \in Analysts |-> f1]
=============================================================================
