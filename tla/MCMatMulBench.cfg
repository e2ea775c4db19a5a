\* The three programs; programs end, so deadlock is not an error.
CONSTANTS
    ElemMod = 4
    Builds = {"standalone", "shim", "testbench"}
    Inputs <- SmallInputs
    MaxIters = 2
    MaxLoops = 2
SPECIFICATION FairSpec
CHECK_DEADLOCK FALSE
INVARIANTS
    TypeOK
    ResultsAreProduct
PROPERTIES
    Terminates
    UsageErrorIsHarmless
