\* Windows of three buffers and a part of one, and of two and a part.
CONSTANTS
    FFT_SIZE = 16
    BUFFER = 5
    MaxCallbacks = 13
SPECIFICATION Spec
\* The recording is cut off after MaxCallbacks.
CHECK_DEADLOCK FALSE
INVARIANTS
    TypeOK
    WindowInOrder
    OwnSoundFromThirdWindow
    NoteIsInWindow
PROPERTY OneNotePerSound
