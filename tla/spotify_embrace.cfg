SPECIFICATION Spec
CONSTANTS
    None = None
    FloorAt <- Floors
    Cap = 3
    RetryAfters <- Waits
    Margin = 2
    Timeout = 1
    Exchange = 1
    Lifetime = 3
    Capacity = 2
    Slices <- SavesAndDevices
    MaxTime = 2
    MaxAsked = 3
    MaxLogins = 1
    MaxTurns = 0
    MaxFaults = 0
INVARIANT NeverEmbraced
CHECK_DEADLOCK FALSE
