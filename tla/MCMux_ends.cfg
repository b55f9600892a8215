SPECIFICATION FairSpec
CONSTANTS
    s1 = s1
    s2 = s2
    Session <- TwoSessions
    NoSession = NoSession
    IDSpace = 3
    MaxConcurrency = 2
    MaxConnection = 2
    QueueCap = 1
    Plans <- EndPlans
INVARIANT ManagersCloseAll
PROPERTY ClosedTogether
CHECK_DEADLOCK FALSE
