SPECIFICATION DriftSpec
CONSTANTS
    c1 = c1
    c2 = c2
    Worker = w1
    Calls = {c1, c2}
    Kinds <- MCKinds
    MaxChanges = 2
    MaxPasses = 3
    MaxTroubles = 1
    NoSnapshot = NoSnapshot
SYMMETRY MCSymmetry
INVARIANT ReportsAreChanges
INVARIANT WorseningIsReported
INVARIANT ComparisonsMeet
CHECK_DEADLOCK FALSE
