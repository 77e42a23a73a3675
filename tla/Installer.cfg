SPECIFICATION Spec
CONSTANTS
    r1 = r1
    r2 = r2
    r3 = r3
    None = None
    Releases = {r1, r2, r3}
    Schema <- MCSchema
    Bundled = {r2, r3}
    Launchers = {r2, r3}
    Installed = {None, r1}
    MaxCommands = 4
    MaxWrites = 2
    MaxFaults = 1
    MaxCrashes = 1
    MaxWorkerFails = 1
INVARIANTS
    TypeOK
    ServesOwnSchema
    InstallationConsistent
    EveryWriteKept
PROPERTIES
    FailedCommandServes
    RefinesDeployment
CHECK_DEADLOCK FALSE
