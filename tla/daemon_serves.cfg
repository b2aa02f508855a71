SPECIFICATION FairSpec
CONSTANTS
    c1 = c1
    Clients = {c1}
    Requests <- Everything
    EngineCapacity = 1
    PopupCapacity = 1
    MaxSent = 3
    MaxVersion = 1
    MaxSpawned = 1
INVARIANTS AttentionSettles NoStateSwallowed
PROPERTIES NewestStateShown EveryRequestAnswered
CHECK_DEADLOCK FALSE
