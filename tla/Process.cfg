\* Two programs besides idle and init; a fair CPU and clock.
CONSTANTS
    idleproc = idle
    initproc = init
    Proc = {idle, init, u1, u2}
    Killable = {u1, u2}
    MAX_TIME_SLICE = 1
    MAX_PROCESS = 4
    STDIN_BUFSIZE = 2
    MaxSleep = 2
    MaxRead = 2
SPECIFICATION FairSpec
INVARIANTS
    TypeOK NoPanic RunQueueExact StackLinksValid SleepersHaveWakers
    ParentsAlive
PROPERTIES ZombiesReapedByParent InitReaps
