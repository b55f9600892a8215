SPECIFICATION FairSpec
CONSTANTS
    MaxData = 1
    retryDialAttempts = 5
INVARIANTS NoConnLeak NilMeansComplete CloseIsHonest
PROPERTY EverythingEnds
CHECK_DEADLOCK FALSE
