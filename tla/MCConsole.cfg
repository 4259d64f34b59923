\* Three rows, of which the PC takes two; two bytes may be lost.
CONSTANTS
    Typed <- MCTyped
    RowBytes <- MCRowBytes
    width = 1
    ROWS = 3
    height = 2
    SERIAL_BUFFERS_SIZE = 2
    MaxAsks = 2
    MaxLost = 2
SPECIFICATION FairSpec
\* An empty line stalls both sides; after the picture the PC is gone.
CHECK_DEADLOCK FALSE
INVARIANTS
    TypeOK
    OnlyEmptyLinesStall
    SyncIsRight
    PictureIsReceived
PROPERTY PictureIsMailed
