SPECIFICATION FairSpec
CONSTANTS
    Blocks = {"bbf", "bcf"}
    Readings <- MCSteadyReadings
    MaxRain = 1
    Restarts = FALSE
    Faults = FALSE
    NoRow = NoRow
CHECK_DEADLOCK FALSE
PROPERTY ChangesAreSaved
