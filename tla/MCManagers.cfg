SPECIFICATION SpecManagers
CONSTANTS
    Session = {s1, s2, s3, s4}
    NoSession = NoSession
    IDSpace = 4
    MaxConcurrency = 2
    MaxConnection = 3
    Dispatchers = {d1, d2}
    MaxWorkers = 2
    PickerConcurrency = 1
    PickerConnection = 2
    Tries = 3
    Chains = {1}
    MayClose = FALSE
SYMMETRY Symmetric
INVARIANTS
    TableAgrees
    WithinStrategy
    TwoTriesSuffice
    OpenWorkersAreListed
CHECK_DEADLOCK FALSE
