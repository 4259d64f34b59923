\* Two photos, with frames that may end at once and a camera that may fail;
\* the second one finds the heap and the driver used.
CONSTANTS
    Game = Game
    PhotoThd = PhotoThd
    Thread = {Game, PhotoThd}
    NoThread = NoThread
    Prio <- MCPrio
    PHOTO_HEIGHT = 4
    MAX_LINES_2_SEND = 350
    CameraMayFail = TRUE
    MaxPhotos = 2
SPECIFICATION FairSpec
\* The second photo may halt the program, and a frame may never end.
CHECK_DEADLOCK FALSE
INVARIANTS
    TypeOK
    PictureInOrder
    FirstPhotoComplete
    NeverHalts
PROPERTIES
    PhotoTaken
    PhotoThreadEnds
