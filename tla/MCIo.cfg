SPECIFICATION MCSpec
CONSTANTS
    Fds = {3, 4}
    MaxSize = 3
    BlockSize = 2
    MaxWrites = 2
    W = 8
    None = None
    MapIntervals <- Wrapping
    Delta = 1
    MaxMaps = 3
    CacheIntervals <- Some
    Modes = {{"R", "W"}, {"W"}}
    MaxCached = 3
    Perms = {TRUE, FALSE}
INVARIANTS
    CachesFit
    MapsCorrect
    CacheReads
PROPERTIES
    CommandsKeep
CHECK_DEADLOCK FALSE
