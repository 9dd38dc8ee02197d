SPECIFICATION Spec
CONSTANTS
    MaxPfn = 9
    MAX_ORDER = 3
    Boundary = 2
    BootUsed <- MCBootUsed
    MaxRef = 2
INVARIANTS
    BlocksPartitionMemory
    FreeListsExact
    AllocFindsRun
PROPERTY
    HeldBlocksStay
