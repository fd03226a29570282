CONSTANTS
    MaxLocalTransactionId = 4
    MaxCommitSequence = 3
    EvidenceBeforePrepared = TRUE
SPECIFICATION Spec
INVARIANTS
    TypeOK
    LostNeverCommits
    RollbackOnlyNeverCommits
    ReopenWaitsOnlyForPrepared
PROPERTIES
    EvolutionAdmitted
CHECK_DEADLOCK FALSE
