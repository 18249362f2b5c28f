\* Four tasks for two slots: safety, the abstract pool, and termination.
SPECIFICATION FairSpec
CONSTANTS
    t1 = t1
    t2 = t2
    t3 = t3
    t4 = t4
    None = None
    Tasks <- FourTasks
    N = 2
INVARIANTS
    TypeOK
    SlotsAreExclusive
    DrainIsComplete
    FlagsInv
PROPERTIES
    ImplementsPool
    PoolEnds
CHECK_DEADLOCK FALSE
