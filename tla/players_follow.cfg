SPECIFICATION Spec
CONSTANTS
    NameOrder <- SomeNames
    ShortOf <- Shorts
    Ignored <- Mirrors
    Preferred <- SpotifyFirst
    Only <- NotFirefox
    MaxActs = 4
INVARIANT FollowsOneThatIsThere
PROPERTY StatusComesRight
CHECK_DEADLOCK FALSE
