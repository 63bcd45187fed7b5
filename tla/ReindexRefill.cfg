SPECIFICATION Spec
CONSTANTS
    j1 = j1
    j2 = j2
    w1 = w1
    w2 = w2
    None = None
    Real = Real
    Jobs = {j1, j2}
    Workers = {w1}
    NCollections = 2
    NRows = 1
    Stable <- Ends
    BatchSize = 1
    MaxSuffix = 2
    MaxRetries = 1
    MaxChanges = 0
CHECK_DEADLOCK FALSE
INVARIANTS
    ServedIsLoaded
