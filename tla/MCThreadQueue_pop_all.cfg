SPECIFICATION Spec
CONSTANTS
    Threads = {t1, t2, t3}
    NoThread = NoThread
    Items = {i1, i2}
    Sizes = {0, 1}
    MaxInit = 1
    MaxNulls = 0
    PopAllers = {t1}
PROPERTY EmptyQueueGetsClosed
CHECK_DEADLOCK FALSE
