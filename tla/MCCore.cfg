SPECIFICATION MCSpec
CONSTANTS
    None = None
    MaxAddr = 3
    Cursors = {0, 1}
    Deltas <- Steps
    Aligns = {1, 2}
    Items = {1, 2}
    IntMod = 16
    HistSize = 2
    MaxUndos = 2
    Usages <- AllUsages
INVARIANTS
    SeeksInBounds
    FilesOwned
PROPERTIES
    HistoryIsTheWay
    CloseReturns
CHECK_DEADLOCK FALSE
