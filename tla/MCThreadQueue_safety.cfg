SPECIFICATION Spec
CONSTANTS
    Threads = {t1, t2, t3}
    NoThread = NoThread
    Items = {i1, i2, i3}
    Sizes = {0, 1, 2}
    MaxInit = 2
    MaxNulls = 1
    PopAllers = {t1, t2, t3}
SYMMETRY Symmetry
INVARIANTS
    TypeOK
    NoLostReaderWakeup
    OneOwner
PROPERTIES
    NothingLost
    ClosedIsFinal
CHECK_DEADLOCK FALSE
