\* Locks of both kinds on the DRAM wrapper.
CONSTANTS
    Cores = {c1, c2, c3}
    Locks = {"y", "z"}
    Granules = {"g1", "g2"}
    GranuleOf <- SmallGranuleOf
    PlainStoreClears = TRUE
    Routine <- SmallRoutine
    DataGranules = {"g1"}
SPECIFICATION FairSpec
INVARIANTS
    TypeOK
    MutualExclusion
    WordIsOwnership
    ReservationMeansUnchanged
PROPERTIES
    ImplementsSpinLock
    LoneCoreAcquires
