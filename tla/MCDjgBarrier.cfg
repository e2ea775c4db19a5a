\* Three threads meet at one barrier; the int barrier->cycle wraps at once.
CONSTANTS
    NThreads = 3
    Mutexes = {m}
    Conds = {c}
    M = m
    C = c
    BcastMutex = bcast_mutex
    NoCond = null
    CycleMod = 2
SPECIFICATION FairSpec
INVARIANTS
    TypeOK
    NoLostWakeup
    CountIsArrivals
PROPERTIES
    ImplementsBarrier
    EveryCallReturns
