SPECIFICATION Spec
CONSTANTS
    None = None
    FloorAt <- Floors
    Cap = 3
    RetryAfters <- Waits
    Margin = 2
    Timeout = 1
    Exchange = 1
    Lifetime = 3
    Capacity = 2
    Slices <- Each
    MaxTime = 3
    MaxAsked = 2
    MaxLogins = 1
    MaxTurns = 1
    MaxFaults = 1
INVARIANTS TypeOK WaitsAsTold TokensOutliveCalls RotationsAreKept LoginTakesEffect
CHECK_DEADLOCK FALSE
