SPECIFICATION Spec
CONSTANTS
    k = k
    a = a
    b = b
    c = c
    Tasks <- MCTasks
    InitTask = InitTask
    NoTask = NoTask
    Boot = k
    MaxPid = 3
    MaxCreate = 4
    WakeOnExit = {TRUE}
    Modes <- MCModes
CHECK_DEADLOCK FALSE
INVARIANTS
    PidsUnique
    FatherLives
    
