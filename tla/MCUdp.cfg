SPECIFICATION SpecUdp
CONSTANTS
    a1 = a1
    c1 = c1
    c2 = c2
    c3 = c3
    d1 = d1
    d2 = d2
    IDs <- OneID
    MaxConns = 2
    CacheSize = 1
    MayIdle = TRUE
    MayClose = TRUE
    Chains <- ThreeChains
    Callers <- TwoCallers
    MaxEntries = 2
    MaxResponses = 2
INVARIANTS
    NoDeadEntry
    TerminateOnce
    NoOrphanEntry
PROPERTIES
    ShutdownIsComplete
    EntryEnds
CHECK_DEADLOCK FALSE
