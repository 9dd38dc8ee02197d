SPECIFICATION Spec
CONSTANTS
    t1 = t1
    t2 = t2
    f1 = f1
    f2 = f2
    f3 = f3
    o1 = o1
    o2 = o2
    a1 = a1
    a2 = a2
    None = None
    Spaces = {a1, a2}
    Threads = {t1, t2}
    Frames = {f1, f2, f3}
    Objs = {o1, o2}
    Pages = {1, 2}
    Values = {0, 1}
    Loads <- MCLoads
    Unaligned = {FALSE, TRUE}
SYMMETRY MCSym
CHECK_DEADLOCK FALSE
INVARIANTS
    
    FramesUnshared
    PagesMatchAreas
    
    
