SPECIFICATION Spec
CONSTANTS
    None = None
    Fetches = {f1, f2, f3}
    Lookups = {t1, t2}
    MaxCrashes = 2
    MaxFailures = 1
    MissLifetime = 2
    MaxTime = 5
    MaxEnds = 2
INVARIANT InterruptedLeavesNoImage
CHECK_DEADLOCK FALSE
