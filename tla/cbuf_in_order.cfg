SPECIFICATION Spec
CONSTANTS
    Writers = {w1}
    Readers = {r1}
    w1 = w1
    r1 = r1
    N = 3
    MaxItems = 4
    EnterCounts = {1, 2}
    RemoveCounts = {1, 2}
    ReaderOps = {"remove"}
    TermItems = {}
    Ungot = Ungot
    Junk = Junk
    NoOne = NoOne
INVARIANTS
    RemovedInOrder
CHECK_DEADLOCK FALSE
