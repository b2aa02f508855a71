SPECIFICATION Spec
CONSTANTS
    a = a
    b = b
    y = y
    p = p
    q = q
    None = None
    Tracks = {a, b, y}
    SpotifyTracks = {a, b}
    Song <- OneRecording
    Contexts = {p, q}
    Slices <- Groups
    MaxPlayed = 3
    MaxAsked = 2
    MaxFailures = 1
SYMMETRY Playlists
INVARIANTS TypeOK QueueIsSpotifys CanLikeIsTrue AnswersSettle LikedSettles
PROPERTIES LyricsAreAnswered PictureIsAnswered
CHECK_DEADLOCK FALSE
