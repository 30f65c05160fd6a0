SPECIFICATION FairSpec
CONSTANTS
    Capacity = 1
    MaxRead = 2
    BlockLen = 2
    MaxSignals = 2
    NoOne = NoOne
CHECK_DEADLOCK FALSE
INVARIANTS TypeOK StopsWhenTold
PROPERTIES RestartsWhenTold EndsOrHangs
