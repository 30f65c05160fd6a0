SPECIFICATION FairSpec
CONSTANTS
    Writers = {w1, w2}
    Readers = {r1}
    w1 = w1
    w2 = w2
    r1 = r1
    N = 3
    MaxItems = 4
    EnterCounts = {2}
    RemoveCounts = {1, 2}
    ReaderOps = {"remove", "read"}
    TermItems = {}
    Ungot = Ungot
    Junk = Junk
    NoOne = NoOne
INVARIANTS RingHoldsTheRest ReaderWakeupNotLost
PROPERTIES
    EnterReturns
    ReaderGetsItems
CHECK_DEADLOCK FALSE
