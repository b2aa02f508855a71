SPECIFICATION Spec
CONSTANTS
    None = None
    a = a
    b = b
    Songs = {a, b}
    Starts <- TheStarts
    Length <- TheLengths
    MaxAt = 5
    MaxActs = 5
    MaxFrames = 6
INVARIANT PublishedIsDrawn
CHECK_DEADLOCK FALSE
