SPECIFICATION FairSpec
CONSTANTS
    None = None
    t1 = t1
    t2 = t2
    d1 = d1
    Tasks <- Tasks2
    Need <- Need2
    Priority <- Priority2
    Deleters = {}
    Capacity = 1
    Keep = 1
    MaxCrashes = 1
    MaxFaults = 0
    EarlyDelete = FALSE
    DestroyMayFail = TRUE
CHECK_DEADLOCK FALSE
PROPERTY EveryTaskSettles
