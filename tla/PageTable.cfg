SPECIFICATION Spec
CONSTANTS
    t1 = t1
    t2 = t2
    t3 = t3
    t4 = t4
    t5 = t5
    t6 = t6
    t7 = t7
    t8 = t8
    m1 = m1
    m2 = m2
    m3 = m3
    Levels = 2
    Idx = {1, 2}
    Tables <- MCTables
    Root = Root
    None = None
    Maps <- MCMaps
    Runs <- MCRuns
    AllocFails = {TRUE, FALSE}
SYMMETRY MCSym
CHECK_DEADLOCK FALSE
INVARIANTS
    RefsExact
    EntriesLive
    NoStrayTranslation
