\* photo_stop in the middle of a capture.
CONSTANTS
    Game = Game
    PhotoThd = PhotoThd
    Thread = {Game, PhotoThd}
    NoThread = NoThread
    Prio <- MCPrio
    PHOTO_HEIGHT = 4
    MAX_LINES_2_SEND = 350
    CameraMayFail = FALSE
    MaxPhotos = 1
SPECIFICATION Spec
CHECK_DEADLOCK FALSE
INVARIANT CaptureIntoOwnBuffer
