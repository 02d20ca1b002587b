SPECIFICATION IncidentsSpec
CONSTANTS
    hand = hand
    group = group
    s1 = s1
    s2 = s2
    ann = ann
    None = None
    Manual <- MCManual
    Groups <- MCGroups
    Critical <- MCCritical
    Sessions <- MCSessions
    Owners <- MCOwners
    MaxCalls = 2
    MaxPasses = 2
    MaxTroubles = 1
SYMMETRY Interchangeable
INVARIANTS
    HistoriesExplain
    PassesKeepUp
PROPERTIES
    ClosedBeliefsAreFinal
CHECK_DEADLOCK FALSE
