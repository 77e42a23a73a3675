SPECIFICATION FairSpec
CONSTANTS
    old = old
    new = new
    srv = srv
    s1 = s1
    s2 = s2
    s2b = s2b
    s3 = s3
    None = None
    Migrators = {old, new}
    Servers = {srv}
    Scripts = {s1, s2, s2b, s3}
    Release <- MCRelease
    Repeatable = {s2}
    Origins <- MCOrigins
    MaxFaults = 2
INVARIANTS
    TypeOK
    HistoryTellsSchema
    ServedSchemaComplete
PROPERTIES
    OnlyUnderstoodChanges
    SuccessMeansCurrent
    MigrationCompletes
CHECK_DEADLOCK FALSE
