SPECIFICATION MCSpec
CONSTANTS
    t1 = t1
    t2 = t2
    i1 = i1
    i2 = i2
    Threads = {t1, t2}
    Instances = {i1, i2}
    Callbacks = {f, g}
    NoCallback = NoCallback
    Usages <- AllUsages
    NThreads = 2
    Entries = {e1, e2}
    NoEntry = NoEntry
    MainChSize = 1
INVARIANTS
    SectionsAreSafe
    DriverAnswers
PROPERTIES
    DriverEnds
CHECK_DEADLOCK FALSE
