CONSTANTS
    File = {f1, f2}
    Fd = {d1, d2}
    NULL = NULL
    BLKSIZE = 2
    NDIRECT = 1
    NENTRY = 1
    BLOCKS = 3
    MAX_SIZE = 4
    MAX_LEN = 2
    SEEKS = {1, 3}
SPECIFICATION Spec
INVARIANT NoPanic
CHECK_DEADLOCK FALSE
