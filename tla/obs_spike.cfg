SPECIFICATION Spec
CONSTANTS
    Blocks = {"bbf"}
    Readings <- MCReadings
    MaxRain = 3
    Restarts = FALSE
    Faults = FALSE
    NoRow = NoRow
CHECK_DEADLOCK FALSE
PROPERTY RainNeverFalls
