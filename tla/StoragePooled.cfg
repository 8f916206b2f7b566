CONSTANTS
    c1 = c1
    c2 = c2
    c3 = c3
    j1 = j1
    j2 = j2
    j3 = j3
    Caller = {c1, c2, c3}
    Jti = {j1, j2, j3}
    Keys <- MCKeys
    Values <- MCValues
    Request <- MCRequest
    None = None
    Shared = FALSE
    PoolSize = 2
    Scenarios <- AllScenarios
SPECIFICATION FairSpec
INVARIANTS
    RaceIsNoError
    ToldIsDurable
PROPERTIES
    
    EveryCallAnswered
CHECK_DEADLOCK FALSE
