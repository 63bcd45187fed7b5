SPECIFICATION MCSpec
CONSTANTS
    j1 = j1
    j2 = j2
    w1 = w1
    w2 = w2
    movies = movies
    None = None
    Jobs = {j1, j2}
    Workers = {w1, w2}
    Requests = {r1}
    KeyOf <- MovieKeys
    ChainKey = movies
    MaxAttempts = 2
    MaxBatches = 1
    MaxShutdowns = 1
SYMMETRY WorkerSymmetry
INVARIANTS
    TypeOK
    AttemptsWithinLimit
    LeaseIsFenced
    CheckpointIsHolders
    FlagsAreTrue
    OneActiveJobPerKey
PROPERTIES
    LostRunIsHarmless
    CancelledOnlyOnRequest
    CancelIsSticky
    RefundOnlyOnShutdown
    NoSuccessorAfterCancel
    ImplementsLease
