CONSTANTS
    c1 = c1
    c2 = c2
    Callers <- MCCallers
    SyncPolicies <- MCSyncPolicies
    NumPages = 2
    MaxTransactions = 2
    MaxGeneration = 7
    MaxFailures = 2
    MaxCrashes = 2
SPECIFICATION Spec
SYMMETRY CallerSymmetry
INVARIANTS
    PublicationTypeOK
    AlwaysLoadable
    CommittedJournalHasPages
    GenerationNamesInventory
    ReadsSurviveCrash
    AckedSurvivesCrash
PROPERTIES
    NumbersNeverReissued
CHECK_DEADLOCK FALSE
