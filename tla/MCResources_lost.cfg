CONSTANTS
    Proc = {p1, p2}
    NULL = NULL
    NENTRY = 3
    root = root
    stdin = stdin
    File = {f1, f2}
    MAX_LOST = 1
    FAILS = {"load_elf"}
SPECIFICATION Spec
INVARIANTS NothingLost
SYMMETRY ResourceSymmetry
CHECK_DEADLOCK FALSE
