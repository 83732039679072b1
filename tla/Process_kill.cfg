CONSTANTS
    idleproc = idle
    initproc = init
    Proc = {idle, init, u1, u2}
    Killable = {u1, u2}
    MAX_TIME_SLICE = 1
    MAX_PROCESS = 4
    STDIN_BUFSIZE = 1
    MaxSleep = 0
    MaxRead = 1
SPECIFICATION FairSpec
PROPERTIES KilledDies
