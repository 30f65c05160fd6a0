SPECIFICATION Spec
CONSTANTS
    Measured <- MCMeasured
    Noise <- MCNoise
    CalTables <- MCCalTables
    MaxFaults = 1
CHECK_DEADLOCK FALSE
INVARIANTS TypeOK LaterBlocksArrive OneChangeIsCaught StoredAsRead ReadsWithinGrain DirectionsOnCompass
PROPERTIES FlaggedIfChanged
