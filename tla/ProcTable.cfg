\* Three processes besides idle and init, and pids that wrap around soon.
CONSTANTS
    Proc = {idle, init, p1, p2, p3}
    idleproc = idle
    initproc = init
    NULL = NULL
    MAX_PROCESS = 5
    MAX_PID = 6
SPECIFICATION FairSpec
INVARIANTS TypeOK PidsUnique ChildrenExact
PROPERTY PidFound
