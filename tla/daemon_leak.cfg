SPECIFICATION Spec
CONSTANTS
    c1 = c1
    Clients = {c1}
    Requests <- Registrations
    EngineCapacity = 1
    PopupCapacity = 1
    MaxSent = 2
    MaxVersion = 0
    MaxSpawned = 0
INVARIANT IdleWhenNobodyIsConnected
CHECK_DEADLOCK FALSE
