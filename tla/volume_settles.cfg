SPECIFICATION Spec
CONSTANTS
    Nothing = Nothing
    native = native
    browser = browser
    Players = {native, browser}
    Owner <- Owners
    Streams = {1, 2}
    Says <- Labels
    Belongs <- Whose
    Lower <- Folded
    Parent <- Parents
    Full = 1
    MaxActs = 4
    MaxTimeouts = 1
INVARIANTS VolumeSettles LastDragWins
CHECK_DEADLOCK FALSE
