SPECIFICATION Spec
CONSTANTS
    None = None
    a = a
    b = b
    Songs = {a, b}
    Starts <- TheStarts
    Length <- TheLengths
    MaxAt = 5
    MaxActs = 5
    MaxFrames = 6
INVARIANTS StripIsRight ThumbIsTheUsers PanelIsCurrent
CHECK_DEADLOCK FALSE
