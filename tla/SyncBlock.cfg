SPECIFICATION BlockFairSpec
CONSTANTS
    Threads = {t1, t2, t3}
    Keys = {cpu0, cpu1}
    RootKey = cpu0
    CarefulClients = TRUE
INVARIANTS
    Inductive
    CopiedOnce
    LatestSeen
PROPERTIES
    IsReadWriteLock
    SomebodyEnters
