SPECIFICATION Spec
CONSTANTS
    None = None
    t1 = t1
    t2 = t2
    d1 = d1
    Tasks <- Tasks2
    Need <- Need2
    Priority <- Priority2
    Deleters = {d1}
    Capacity = 1
    Keep = 1
    MaxCrashes = 1
    MaxFaults = 1
    EarlyDelete = FALSE
    DestroyMayFail = TRUE
INVARIANT TypeOK
CHECK_DEADLOCK FALSE
INVARIANT AtMostOnce
INVARIANT CompletedReleased
INVARIANT RunningHasOwner
INVARIANT NoLostTask
PROPERTY StartsRecorded
PROPERTY NoOvertaking
PROPERTY FifoAcrossRestart
PROPERTY RefinesLifecycle
