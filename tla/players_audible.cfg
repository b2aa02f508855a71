SPECIFICATION Spec
CONSTANTS
    NameOrder <- SomeNames
    ShortOf <- Shorts
    Ignored <- Mirrors
    Preferred <- SpotifyFirst
    Only <- NotFirefox
    MaxActs = 3

PROPERTY AudibleIsFollowed
CHECK_DEADLOCK FALSE
