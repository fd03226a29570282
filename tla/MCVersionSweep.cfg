SPECIFICATION SweepSpec
CONSTANTS
    Rows = {1}
    MaxTxn = 3
    MaxVersions = 4
    MaxCrashes = 1
    ReclaimDeleteMarkers = FALSE
INVARIANTS
    LatestReadIsLastCommit
    LeftoversStayUnread
    PinnedReadsAreStable
    StableReadersKeepTheirView
PROPERTIES
    SweepChangesNoRead
CHECK_DEADLOCK FALSE
