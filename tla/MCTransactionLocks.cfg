CONSTANTS
    t1 = t1
    t2 = t2
    t3 = t3
    r1 = r1
    r2 = r2
    Txns <- MCTxns
    Resources <- MCResources
    Modes = {"shared", "exclusive"}
    Timeouts = {0, 1}
    Policies <- MCPolicies
    MaxSequence = 3
    MaxClock = 2
SPECIFICATION Spec
SYMMETRY LockSymmetry
INVARIANTS
    ExclusiveIsExclusive
    WaitersLackTheirLock
    HeadedDeadlocksAreFound
PROPERTY NoOvertaking
CHECK_DEADLOCK FALSE
