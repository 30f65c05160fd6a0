SPECIFICATION Spec
CONSTANTS
    Blocks = {"bbf"}
    Readings <- MCReadings
    MaxRain = 2
    Restarts = TRUE
    Faults = TRUE
    NoRow = NoRow
CHECK_DEADLOCK FALSE
INVARIANTS TypeOK NeverOverReports ChangesAreFlagged
