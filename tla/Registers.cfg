SPECIFICATION RegistersSpec
CONSTANTS
    r1 = r1
    r2 = r2
    r3 = r3
    t1 = t1
    t2 = t2
    None = None
    Kinds <- MCKinds
    Requests <- MCRequests
    Techniques <- MCTechniques
    MaxPasses = 2
    MaxTroubles = 1
SYMMETRY MCSymmetry
INVARIANTS
    TrailTellsStatus
    StatusTellsValidations
    RecordedOnce
PROPERTIES
    EndIsTheEnd
CHECK_DEADLOCK FALSE
