SPECIFICATION FairSpec
CONSTANTS
    NCpus = 2
    Sgis = {1}
    Ppis = {29}
    Priority <- MCPriority
    Leftover = {}
    TimerCores = {0}
    Tick = 29
    Program <- MCProgram
INVARIANTS TypeOK EventFlagMeansLine
PROPERTIES ImplementsDoorbells RingIsAnswered TickIsServed
