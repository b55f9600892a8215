CONSTANTS
    a1 = a1
    a2 = a2
    c1 = c1
    c2 = c2
    c3 = c3
    IDs <- OneID
    MaxConns = 3
    CacheSize = 1
    MayIdle = FALSE
    MayClose = FALSE
    Chains <- TwoChains
SPECIFICATION Spec
CHECK_DEADLOCK FALSE
INVARIANT StartNeverPanics
