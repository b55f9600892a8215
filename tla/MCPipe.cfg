SPECIFICATION CopyLoopSpec
CONSTANTS
    Readers = {r1}
    Writers = {w1, w2}
    Limit = 0
    Discards = {TRUE, FALSE}
    MaxWrite = 1
    MaxWrites = 2
INVARIANTS
    Conservation
    Bounded
    RefusedWriteLeavesNothing
    NoLostSignal
PROPERTIES
    ImplementsChannel
    DoneWakesEveryone
    EveryWriteReturns
