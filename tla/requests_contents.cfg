SPECIFICATION Spec
CONSTANTS
    a = a
    b = b
    y = y
    p = p
    q = q
    None = None
    Tracks = {a, b, y}
    SpotifyTracks = {a, b}
    Song <- OneRecording
    Contexts = {p, q}
    Slices <- OnlyContents
    MaxPlayed = 3
    MaxAsked = 2
    MaxFailures = 1
SYMMETRY Playlists
INVARIANT ContentsOfTheContext
CHECK_DEADLOCK FALSE
