\* Three processes, strides of three bits, slices of one tick, bursts below, at and above
\* the default; a fair clock.
CONSTANTS
    Proc = {idle, p1, p2, p3}
    idleproc = idle
    WIDTH = 8
    MAX_TIME_SLICE = 1
    DEFAULT_BURST = 2
    PRIORITIES = {1, 2}
    BURSTS = {1, 2, 3}
    MaxTicks = 4
SPECIFICATION FairSpec
INVARIANTS QueueExact StridesComparable
PROPERTIES QueuedRuns ImplementsDeadlines TimerGoes
