SPECIFICATION Spec
CONSTANTS
    r1 = r1
    r2 = r2
    r3 = r3
    None = None
    Releases = {r1, r2, r3}
    Schema <- MCSchema
    Bundled = {r2, r3}
    Launchers = {r2, r3}
    Installed = {r1}
    MaxCommands = 3
    MaxWrites = 1
    MaxFaults = 0
    MaxCrashes = 1
    MaxWorkerFails = 0
INVARIANT PreviousUsable
CHECK_DEADLOCK FALSE
