\* Memory that fills up.
CONSTANTS
    PAGES = 4
    MAX_SIZE = 2
    MAX_HELD = 4
SPECIFICATION Spec
INVARIANT TotalIsNrFree
