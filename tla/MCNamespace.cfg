CONSTANTS
    a = a
    b = b
    t1 = t1
    t2 = t2
    Names = {a, b}
    Tasks = {t1, t2}
    MaxIno = 4
    MaxLinks = 3
    MaxSymlinks = 8
    Paths <- MCPaths
    Modes <- MCModes

SPECIFICATION Spec
CHECK_DEADLOCK FALSE

INVARIANTS
    LinkCountCovers
    
    CacheTellsTruth
