CONSTANTS
    MaxLocalTransactionId = 4
    MaxCommitSequence = 3
    EvidenceBeforePrepared = TRUE
    MaxSnapshots = 1
SPECIFICATION ReadersSpec
INVARIANTS
    SnapshotIsStable
PROPERTIES
    RepeatableRead
CHECK_DEADLOCK FALSE
