SPECIFICATION EndlessSpec
CONSTANTS
    None = None
    t1 = t1
    t2 = t2
    d1 = d1
    Tasks <- Tasks2
    Need <- Need2
    Priority <- Priority2
    Deleters = {d1}
    Capacity = 1
    Keep = 1
    MaxCrashes = 0
    MaxFaults = 0
    EarlyDelete = FALSE
    DestroyMayFail = FALSE
CHECK_DEADLOCK FALSE
PROPERTY CancelEnds
PROPERTY CancelSticks
