SPECIFICATION Spec
CONSTANTS
    None = None
    FloorAt <- Floors
    Cap = 3
    RetryAfters <- Waits
    Margin = 2
    Timeout = 1
    Exchange = 1
    Lifetime = 5
    Capacity = 3
    Slices <- Limited
    MaxTime = 4
    MaxAsked = 2
    MaxLogins = 0
    MaxTurns = 0
    MaxFaults = 0
INVARIANT RefusalsDouble
CHECK_DEADLOCK FALSE
