SPECIFICATION Spec
CONSTANTS
    MaxCrypto = 2
    MaxRounds = 2
    Callable <- AllTools
CHECK_DEADLOCK TRUE
INVARIANTS
    TypeOK
    ListedWorks
    UnlistedAsksNothing
    PublicSurface
    RetryRepeatsReads
PROPERTIES
    HalfSurvives
