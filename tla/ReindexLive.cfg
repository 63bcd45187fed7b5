SPECIFICATION Spec
CONSTANTS
    j1 = j1
    j2 = j2
    w1 = w1
    w2 = w2
    None = None
    Real = Real
    Jobs = {j1, j2}
    Workers = {w1}
    NCollections = 1
    NRows = 2
    Stable <- LastOnly
    BatchSize = 1
    MaxSuffix = 2
    MaxRetries = 0
    MaxChanges = 1
CHECK_DEADLOCK FALSE
PROPERTIES
    SwapKeepsDocuments
