SPECIFICATION Spec
CONSTANTS
    Writers = {w1}
    Readers = {r1}
    w1 = w1
    r1 = r1
    N = 3
    MaxItems = 4
    EnterCounts = {0, 1, 2}
    RemoveCounts = {1, 2}
    ReaderOps = {"remove", "read", "lookahead", "unget"}
    TermItems = {3}
    Ungot = Ungot
    Junk = Junk
    NoOne = NoOne
INVARIANTS
    TypeOK
    RingHoldsTheRest
    ReaderWakeupNotLost
    WriterWakeupNotLost
    NoLockCycle
    NeverBothAsleep
    LookaheadSeesNext
    UngotComesNext
PROPERTIES
    ImplementsFifo
    EofOnlyWhenDrained
CHECK_DEADLOCK FALSE
