SPECIFICATION FairSpec
CONSTANTS
    c1 = c1
    c2 = c2
    Clients = {c1, c2}
    Requests <- OnlyShutdown
    EngineCapacity = 1
    PopupCapacity = 1
    MaxSent = 2
    MaxVersion = 0
    MaxSpawned = 0
PROPERTY ShutdownHeeded
CHECK_DEADLOCK FALSE
