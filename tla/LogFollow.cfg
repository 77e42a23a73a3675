SPECIFICATION Spec
CONSTANTS
    None = None
    MaxSize = 5
    Chunk = 2
INVARIANTS
    TypeOK
    ResultMeansWholeLog
    PagesMeet
CHECK_DEADLOCK FALSE
