\* Lists of free blocks that never run empty: three pages in use, in whatever runs, do not
\* reach the last of eight pages.  Buddies of one, two and four pages; kmalloc with three
\* pages of six units.
CONSTANTS
    PAGES = 8
    MAX_SIZE = 3
    MAX_HELD = 3
    MAX_ORDER = 3
    SLOB_PAGES = 3
    UNITS = 6
SPECIFICATION Spec
INVARIANTS RunsExact BuddiesExact BlocksExact
PROPERTY ImplementsHeap
