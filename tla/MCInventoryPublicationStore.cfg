CONSTANTS
    c1 = c1
    c2 = c2
    Callers <- MCCallers
    SyncPolicies <- MCBatched
    NumPages = 2
    MaxTransactions = 2
    MaxGeneration = 12
    MaxFailures = 1
    MaxCrashes = 1
SPECIFICATION Spec
PROPERTIES
    ImplementsStore
    EventuallyOpened
CHECK_DEADLOCK FALSE
