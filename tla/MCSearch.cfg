SPECIFICATION MCSpec
CONSTANTS
    PoolSize = 2
    W = 32
    Maps <- TwoMaps
    ChunkSize = 4
    ElementSize = 2
    Patterns <- TwoPatterns
    Options <- AllOrTwo
    MayFail = {"cancel", "iterate", "thread", "read", "find", "report"}
INVARIANTS
    SearchCorrect
    StringsSafe
PROPERTIES
    SearchesReturn
CHECK_DEADLOCK FALSE
