SPECIFICATION LifecyclesSpec
CONSTANTS
    r1 = r1
    r2 = r2
    w1 = w1
    API = API
    None = None
    Kinds <- MCKinds
    Requests <- MCRequests
    Workers <- MCWorkers
    MaxPasses = 2
    MaxTroubles = 1
SYMMETRY MCSymmetry
INVARIANTS
    HistoryTellsTheRow
    ClosedIsTheLastDecision
    DriftHasACause
    NothingIsMadeTwice
CHECK_DEADLOCK FALSE
