SPECIFICATION FairSpec
CONSTANTS
    Writers = {w1}
    Readers = {r1}
    w1 = w1
    r1 = r1
    N = 3
    MaxItems = 4
    EnterCounts = {1, 3}
    RemoveCounts = {1}
    ReaderOps = {"remove"}
    TermItems = {}
    Ungot = Ungot
    Junk = Junk
    NoOne = NoOne
PROPERTIES
    EnterReturns
CHECK_DEADLOCK FALSE
