SPECIFICATION SpecPath
CONSTANTS
    u1 = u1
    u2 = u2
    Users <- TwoUsers
    Timeouts = {0, 1, 2}
    MaxTimers = 4
    MaxTime = 4
    MaxChunks = 2
    Deadline = 1
INVARIANTS
    OnTimeoutOnce
    IdleIsCancelled
    StreamIntact
    RuleIsObeyed
PROPERTIES
    FiresOnlyWhenIdle
    DispatchIsDecided
CHECK_DEADLOCK FALSE
