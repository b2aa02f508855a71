SPECIFICATION Spec
CONSTANTS
    Heartbeat = 1
    PopupInterval = 2
    BarInterval = 2
    PausedInterval = 2
    Tolerance = 0
    Lengths <- SomeLengths
    MaxLatency = 1
    MaxFaults = 1
    MaxOvertakes = 1
    MaxEvents = 3
    MaxTime = 5
INVARIANTS StatusSettles ClockTracksPlayer NeverFrozen MissedStartIsNoticed
PROPERTY ShownIsConsistent
CHECK_DEADLOCK FALSE
