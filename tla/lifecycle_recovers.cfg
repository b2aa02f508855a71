SPECIFICATION Spec
CONSTANTS
    None = None
    d1 = d1
    d2 = d2
    d3 = d3
    Daemons = {d1, d2, d3}
    Outdated = {}
    stop = stop
    play = play
    Clients = {stop, play}
    Does <- Orders
    Tries = 1
    MaxFaults = 2
INVARIANTS OneAtATime
PROPERTIES BarRecovers
CHECK_DEADLOCK FALSE
