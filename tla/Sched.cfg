SPECIFICATION FairSpec
CONSTANTS
    t1 = t1
    t2 = t2
    t3 = t3
    t4 = t4
    Idle = Idle
    Free = Free
    CPUs <- MCCPUs
    Tasks <- MCTasks
    Loads <- MCLoads
    RacyWake = FALSE
    MigrateAbove = 1
    Word = 8
INVARIANTS
    
    
    MigListIsAwaited
    NoWaitCycle
    NrCountsQueue
PROPERTY
    RunnableRuns
CHECK_DEADLOCK FALSE
