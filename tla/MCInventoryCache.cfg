SPECIFICATION Spec
CONSTANTS
    p1 = p1
    l1 = l1
    l2 = l2
    Publishers <- MCPublishers
    Loaders <- MCLoaders
    Sizes = {1}
    MaxPublications = 2
    MaxClock = 3
SYMMETRY CacheSymmetry
INVARIANTS
    StrongLoadsAreCurrent
    SnapshotMatchesSignature
    LoadsAreCurrentWithDistinctTimes
CHECK_DEADLOCK FALSE
