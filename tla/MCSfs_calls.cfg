CONSTANTS
    File = {f1, f2}
    Fd = {d1, d2}
    NULL = NULL
    BLKSIZE = 2
    NDIRECT = 1
    NENTRY = 1
    BLOCKS = 3
    MAX_SIZE = 6
    MAX_LEN = 2
    SEEKS = {1, 3, 5}
SPECIFICATION Spec
INVARIANTS TypeOK FreemapExact DiskMountable InodesCover EvenFilesExact
PROPERTY ImplementsStore
SYMMETRY SfsSymmetry
CHECK_DEADLOCK FALSE
