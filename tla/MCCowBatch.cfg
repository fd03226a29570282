CONSTANTS
    t1 = t1
    t2 = t2
    Txns <- MCTxns
    NumRowPages = 2
    MaxBatches = 2
    MaxFailures = 2
    MaxCrashes = 2
SPECIFICATION Spec
SYMMETRY TxnSymmetry
INVARIANTS
    NoCommittedPrefix
    DoneBatchesCommitted
    BrokenBatchNeverCommits
CHECK_DEADLOCK FALSE
