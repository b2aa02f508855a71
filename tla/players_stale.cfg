SPECIFICATION Spec
CONSTANTS
    NameOrder <- SomeNames
    ShortOf <- Shorts
    Ignored <- Mirrors
    Preferred <- SpotifyFirst
    Only <- NotFirefox
    MaxActs = 4

PROPERTY TrackComesRight
CHECK_DEADLOCK FALSE
