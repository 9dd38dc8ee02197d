SPECIFICATION Spec
CONSTANTS
    w1 = w1
    w2 = w2
    s1 = s1
    s2 = s2
    Workers <- MCWorkers
    Submitters <- MCSubmitters
    MaxSubmits = 3
    Registered = {TRUE, FALSE}
CHECK_DEADLOCK FALSE
INVARIANTS
    PendingTracksQueue
    ItemsConserved
    NoMissedWake
