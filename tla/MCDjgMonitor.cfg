\* Three threads: one to sleep and two whose broadcasts can overlap.
CONSTANTS
    NThreads = 3
    Mutexes = {m}
    Conds = {full_cv, empty_cv}
    M = m
    Full = full_cv
    Empty = empty_cv
    BcastMutex = bcast_mutex
    NoCond = null
SPECIFICATION Spec
CHECK_DEADLOCK FALSE
INVARIANTS
    TypeOK
    NoStrandedWaiter
PROPERTIES
    NoForeignWakeup
