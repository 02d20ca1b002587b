SPECIFICATION FindingsSpec
CONSTANTS
    f1 = f1
    f2 = f2
    r1 = r1
    r2 = r2
    q1 = q1
    q2 = q2
    h1 = h1
    api = api
    worker = worker
    None = None
    Fingerprints = {f1, f2}
    Scans = {r1, r2}
    Analysts = {q1}
    Hashes = {h1}
    Processes = {api, worker}
    External = FALSE
    Reports <- MCReports
    TemplateSets <- MCTemplateSets
    PassesOf <- MCPassesOf
    ProcessOf <- MCProcessOf
    TriageOf <- MCTriageOf
INVARIANTS
    HistoryExplainsRow
    AssetOutranksFindings
    PassesInTurnReconcile
PROPERTIES
    ScansRespectTriage
CHECK_DEADLOCK FALSE
