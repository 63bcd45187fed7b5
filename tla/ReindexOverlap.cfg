SPECIFICATION Spec
CONSTANTS
    j1 = j1
    j2 = j2
    w1 = w1
    w2 = w2
    None = None
    Real = Real
    Jobs = {j1, j2}
    Workers = {w1, w2}
    NCollections = 1
    NRows = 1
    Stable <- Ends
    BatchSize = 2
    MaxSuffix = 2
    MaxRetries = 0
    MaxChanges = 0
CHECK_DEADLOCK FALSE
INVARIANTS
    AliasesResolve
