SPECIFICATION Spec
CONSTANTS
    c1 = c1
    c2 = c2
    Clients = {c1, c2}
    Requests <- Registrations
    EngineCapacity = 2
    PopupCapacity = 1
    MaxSent = 3
    MaxVersion = 0
    MaxSpawned = 0
INVARIANT AttentionSettles
CHECK_DEADLOCK FALSE
