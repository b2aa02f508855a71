SPECIFICATION Spec
CONSTANTS
    MaxDrops = 1
    MaxActions = 2
    MaxQueued = 2
INVARIANT HiddenIsNotWatched
CHECK_DEADLOCK FALSE
