SPECIFICATION MonitoringSpec
CONSTANTS
    a1 = a1
    f1 = f1
    m1 = m1
    None = None
    Assets = {a1}
    Findings = {f1}
    Manual = {m1}
    AssetOf <- MCAssetOf
    Scores <- MCScores
    Severities <- MCSeverities
    Critical = 75
    Drift = 15
    MaxChanges = 3
    MaxFailures = 2
    MaxRestarts = 1
    MaxEscalations = 1
INVARIANTS
    GoodPassMakesUp
    TrailTellsStatus
PROPERTIES
    SettledAlertsStaySettled
CHECK_DEADLOCK FALSE
