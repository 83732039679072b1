\* The instance of check_sync.c, but for a shorter sleep and two rounds less; a fair CPU
\* and clock.
CONSTANTS
    N = 5
    TIMES = 2
    SLEEP_TIME = 2
    MAX_TIME_SLICE = 1
    idleproc = idle
    initproc = init
    Proc = {idle, init, 0, 1, 2, 3, 4}
SPECIFICATION FairSpec
INVARIANTS NoPanic UnitsMatch BlockedForAReason
PROPERTIES ImplementsTable EverybodyQuits
