SPECIFICATION Spec
CONSTANTS
    TypeOf <- MCTypeOf
    Default <- MCDefault
    Section = "test"
    Class = "new"
    MaxLines = 3
    Files <- MCFiles
    Edited <- MCEdited
    Missing = Missing
    CommandLines <- MCCommandLines
    MaxRounds = 2
CHECK_DEADLOCK FALSE
INVARIANTS TypeOK ReadsWhatFileSays MorePreciseWins StartsAsTold
