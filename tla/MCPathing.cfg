CONSTANTS
    PathMoves <- MCPathMoves
    LAST_MOVE = 120
    MaxMoves = 1
    SAMPLES = 3
    SLICE <- MCSlice
    OWN = 6
SPECIFICATION FairSpec
INVARIANTS
    TypeOK
    ArrivesNear
    StraysLittle
    StandsAtPhoto
PROPERTY DriveEnds
