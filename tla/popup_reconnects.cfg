SPECIFICATION FairSpec
CONSTANTS
    MaxDrops = 2
    MaxActions = 2
    MaxQueued = 2
INVARIANTS VisibleIsWatched HiddenInOneSession OfflineIsMarked
PROPERTY LeftOpenIsWatched
CHECK_DEADLOCK FALSE
