\* Two worker cores, two tasks that may end before main creates the other.
CONSTANTS
    NCores = 3
    MaxThreads = 5
    NTasks = 2
    Plan <- FreeRunningPlan
    ExitTasks = {}
    NKeys = 0
SPECIFICATION FairSpec
INVARIANTS
    JoinReturnsResult
