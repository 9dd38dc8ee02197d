SPECIFICATION Spec
CONSTANTS
    UserStart = 2
    StackTop = 12
    Modulus = 16
INVARIANTS
    InBounds
    Disjoint
    FindExact
