SPECIFICATION Spec
CONSTANTS
    None = None
    native = native
    browser = browser
    Players = {native, browser}
    Owner <- Owners
    Streams = {1, 2}
    Says <- Labels
    Belongs <- Whose
    Lower <- Folded
    Parent <- Parents
    Full = 1
    MaxActs = 4
    MaxTimeouts = 0
INVARIANT RouteSettles
CHECK_DEADLOCK FALSE
