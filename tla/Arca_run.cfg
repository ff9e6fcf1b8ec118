SPECIFICATION ArcaFairSpec
CONSTANTS
    MISSING_RANGE = 4
    MaxOrders = 2
    MaxQueue = 1
    MaxFaults = 2
    RuntFaults = 2
    Hooks <- MCHooks
    Sockets <- MCSockets
    Scripts <- MCScripts
    Garbage <- MCGarbage
INVARIANTS CopiesMerged BookTold ThreadsOrdered
PROPERTY NothingStarves
CHECK_DEADLOCK FALSE
