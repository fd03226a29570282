SPECIFICATION Spec
CONSTANTS
    SlotCount = 2
    ArenaSize = 6
    MaxInline = 1
    MaxPayload = 3
    MaxRequests = 5
INVARIANTS
    AllocationIsFirstFit
    HandlesResolveUntilReleased
PROPERTY ImplementsQueue
CHECK_DEADLOCK FALSE
