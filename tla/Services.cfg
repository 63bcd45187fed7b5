SPECIFICATION Spec
CONSTANTS
    HlGames = {1, 2}
    HlIds = {1, 2}
    HlTimed = {1}
    HlReqs = {r1, r2}
    HlAnswers = {{1, 2}}
    HlMatches <- MCMatches
    HlBudgets <- MCHlBudgets
    PmOwners = {o1, o2, o3}
    PmLease = 2
    PmTimeout = 1
    PmSpacing = 1
    PmWaits = 1
    PmCooldowns = {0, 2}
    PmMaxTime = 4
    ScRows = {1, 2}
    ScKeyOf <- MCKeyOf
    ScWorkers = {w1, w2}
    ScUsers = {u1, u2}
    ScCrons = {0, 2, 3}
    ScLags = {0, 1}
    ScMaxTime = 4
    ScBudgets <- MCScBudgets
    EvSubscribers = {s1, s2}
    EvMaxClients = 3
    CsGames = {1, 2}
    CsLookups = {l1}
    CsReqs = {r1, r2}
    CsBatch = 1
    CsBudgets <- MCCsBudgets
SYMMETRY RequestSymmetry
CHECK_DEADLOCK FALSE
INVARIANTS
    HlSyncedMeansIndexed
    HlNoLockCycle
    PmExclusive
    ScOncePerOccurrence
    ScNextIsOfCron
    EvNeverDeaf
    EvNothingMissed
    EvNoIdleConnection
    CsSettled
PROPERTIES
    HlAppliedIsReviewed
    HlBindingsAreSound
    PmPolite
    CsSyncFills
