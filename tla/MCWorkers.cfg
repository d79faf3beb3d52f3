SPECIFICATION MCSpec
CONSTANTS
    NThreads = 2
    Threshold = 2
    One = 4
    Usages <- SomeUsages
    None = "none"
    PoolSize = 3
    Length = 4
    Nulls = {2}
    MaxBase = 15
    StartAddress = 2
    EndAddress = 9
    Alignment = 1
    MinScore = 1
    Score <- Scored
INVARIANTS
    SimilarCorrect
    IteratorSafe
    BaseFindSafe
PROPERTIES
    WorkersReturn
CHECK_DEADLOCK FALSE
