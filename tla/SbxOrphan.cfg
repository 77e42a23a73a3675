SPECIFICATION Spec
CONSTANTS
    n1 = n1
    n2 = n2
    d1 = d1
    d2 = d2
    c1 = c1
    c2 = c2
    i1 = i1
    i2 = i2
    Reaper = Reaper
    None = None
    Dead = Dead
    Names = {n1, n2}
    Devices = {d1}
    Clients = {c1, c2}
    Instances = {i1, i2}
    Outcomes <- OneInstance
    MaxFaults = 0
    MaxCrashes = 1
    Reuse = FALSE
CHECK_DEADLOCK FALSE
INVARIANT ExclusiveUse
