\* One worker core; the first task ends with djgthread_exit.
CONSTANTS
    NCores = 2
    MaxThreads = 5
    NTasks = 2
    Plan <- OneByOnePlan
    ExitTasks = {1}
    NKeys = 0
SPECIFICATION FairSpec
PROPERTIES
    MainFinishes
