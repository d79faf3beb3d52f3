SPECIFICATION Spec
CONSTANTS
    t1 = t1
    t2 = t2
    t3 = t3
    t4 = t4
    NoThread = NoThread
    Threads = {t1, t2, t3, t4}
    Elems = {a, b}
    N = 2
    Usages <- AllUsages
    MaxDrift = 1
INVARIANTS
    NoLostWakeup
PROPERTIES
    CloseCountsEveryone
    ImplementsChannel
    CloseReturns
CHECK_DEADLOCK FALSE
