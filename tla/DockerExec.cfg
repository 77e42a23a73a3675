SPECIFICATION FairSpec
CONSTANTS
    MaxRestarts = 2
    MaxFaults = 3
    Cancels = TRUE
INVARIANTS
    TypeOK
    Confined
    AlienSpared
    SeenProcessEnds
PROPERTIES
    NoStartAfterDelete
    NeverStuck
CHECK_DEADLOCK FALSE
