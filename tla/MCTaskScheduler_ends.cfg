SPECIFICATION FairSpec
CONSTANTS
    Nobody = Nobody
    main_task = main_task
    Outside = Outside
    Background = {a}
    CmdTasks = {a}
    Oneshots = {o1, o2}
    Transients = {}
    Joiners = {main_task, a}
    Sleepers = {main_task, a}
    Requests = {"fini", "break"}
    Spurious = TRUE
PROPERTIES
    WorkIsDone
CHECK_DEADLOCK FALSE
