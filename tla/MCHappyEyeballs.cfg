SPECIFICATION FairSpec
CONSTANTS
    MaxIPs = 6
    Interleaves = {0, 1, 2, 3}
    MaxConcurrentTry = 3
INVARIANTS SortsByTurns NeverPanics NothingLeaks FailsAfterAll
PROPERTY Returns
CHECK_DEADLOCK FALSE
