SPECIFICATION MCSpec
CONSTANTS
    j1 = j1
    w1 = w1
    w2 = w2
    movies = movies
    None = None
    Jobs = {j1}
    Workers = {w1, w2}
    Requests = {}
    KeyOf <- MovieKeys
    ChainKey = movies
    MaxAttempts = 2
    MaxBatches = 0
    MaxShutdowns = 1
    ScRows = {1, 2}
    ScKeyOf <- MCKeyOf
    ScWorkers = {w1, w2}
    ScUsers = {u1}
    ScCrons = {0, 3}
    ScLags = {0}
    ScMaxTime = 3
    ScBudgets <- MCScBudgets
CHECK_DEADLOCK FALSE
PROPERTIES
    EveryJobEnds
    ScDueIsHandled
