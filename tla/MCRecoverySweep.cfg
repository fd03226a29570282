CONSTANTS
    MaxLocalTransactionId = 4
    MaxCommitSequence = 4
    EvidenceBeforePrepared = TRUE
SPECIFICATION SweepSpec
INVARIANTS
    RecoverySettles
    OpenRefusedOnlyForDecisions
PROPERTIES
    RecoveryAdmitted
CHECK_DEADLOCK FALSE
