SPECIFICATION Spec
CONSTANTS
    Nobody = Nobody
    main_task = main_task
    Outside = Outside
    Background = {a, b}
    CmdTasks = {a, b}
    Oneshots = {o1}
    Transients = {b}
    Joiners = {main_task}
    Sleepers = {main_task, a}
    Requests = {"del", "fini"}
    Spurious = TRUE
INVARIANTS
    TypeOK
    OneAtATime
    TurnIsNeverLost
    OneshotsRunAlone
    TasksAreOwned
PROPERTIES
    ImplementsRoundRobin
CHECK_DEADLOCK FALSE
