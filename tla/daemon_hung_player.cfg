SPECIFICATION HungPlayerSpec
CONSTANTS
    c1 = c1
    Clients = {c1}
    Requests <- OnlyPlayer
    EngineCapacity = 1
    PopupCapacity = 1
    MaxSent = 3
    MaxVersion = 0
    MaxSpawned = 0
PROPERTY EveryRequestAnswered
CHECK_DEADLOCK FALSE
