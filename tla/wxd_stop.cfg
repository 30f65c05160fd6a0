SPECIFICATION FairSpec
CONSTANTS
    Capacity = 1
    MaxRead = 1
    BlockLen = 2
    MaxSignals = 1
    NoOne = NoOne
CHECK_DEADLOCK FALSE
PROPERTIES StopsOnTerm
