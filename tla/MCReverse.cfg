SPECIFICATION FairSpec
CONSTANTS
    Conns = {1, 2}
    DrainAfter = 1
    PerWorker = 1
    MaxTotal = 2
    CtlCap = 1
    MinConn = 3
    MaxCuts = 1
INVARIANT DroppedIsDrained
PROPERTY PortalIsServed
CHECK_DEADLOCK FALSE
