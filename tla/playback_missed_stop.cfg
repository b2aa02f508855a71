SPECIFICATION Spec
CONSTANTS
    Heartbeat = 1
    PopupInterval = 2
    BarInterval = 3
    PausedInterval = 3
    Tolerance = 0
    Lengths <- Streams
    MaxLatency = 1
    MaxFaults = 1
    MaxOvertakes = 0
    MaxEvents = 2
    MaxTime = 8
INVARIANT MissedStopIsNoticed
CHECK_DEADLOCK FALSE
