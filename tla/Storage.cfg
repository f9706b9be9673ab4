CONSTANTS
    Addr = {a1, a2, a3, a4, a5}
    NULL = NULL
    Junk = Junk
    InitialAllocated = 1
    MaxBlocks = 3
SPECIFICATION Spec
INVARIANTS
    CapacityHolds
    SlotsOwnDistinctBlocks
    ClosedLeavesNoTrace
PROPERTIES
    ImplementsArena
CHECK_DEADLOCK FALSE
