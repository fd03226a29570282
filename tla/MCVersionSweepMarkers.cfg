SPECIFICATION SweepSpec
CONSTANTS
    Rows = {1}
    MaxTxn = 3
    MaxVersions = 3
    MaxCrashes = 0
    ReclaimDeleteMarkers = TRUE
PROPERTIES
    SweepChangesNoRead
CHECK_DEADLOCK FALSE
