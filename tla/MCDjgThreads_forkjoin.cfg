\* Three worker cores, three tasks, one slot reused; the last task exits.
CONSTANTS
    NCores = 4
    MaxThreads = 5
    NTasks = 3
    Plan <- ForkJoinPlan
    ExitTasks = {3}
    NKeys = 3
SPECIFICATION FairSpec
INVARIANTS
    TypeOK
    JoinReturnsResult
    TasksRunOnce
    SpecificIsOwn
PROPERTIES
    ImplementsForkJoin
    MainFinishes
