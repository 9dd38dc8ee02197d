SPECIFICATION Spec
CONSTANTS
    Unit = 2
    InitUnits = 2
    Limits = {2, 3}
    Hint = 1
    Dirty = {0, 2}
    GrowBound = 8
    HolderBound = 3
INVARIANTS
    
    NoLostIds

    
