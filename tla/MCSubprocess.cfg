SPECIFICATION Spec
CONSTANTS
    c1 = c1
    c2 = c2
    p1 = p1
    p2 = p2
    Callers = {c1, c2}
    Reaper = Reaper
    Nobody = Nobody
    Pids = {p1, p2}
    NoPid = NoPid
    Usages <- AllUsages
    PipeSize = 1
INVARIANTS
    ExitsAreReported
PROPERTIES
    CallsReturn
CHECK_DEADLOCK FALSE
