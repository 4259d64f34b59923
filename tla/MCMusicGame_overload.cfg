\* Two games; Music may be late with a note and buffers pile up.
CONSTANTS
    Game = Game
    Music = Music
    Mic = Mic
    Light = Light
    Thread = {Game, Music, Mic, Light}
    NoThread = NoThread
    Prio <- MCPrio
    Song = {"song1", "song2"}
    NOT_CHOSEN = NOT_CHOSEN
    Melody <- MCMelody
    Heard <- MCHeard
    PlayerDelay = 3
    ScoreDelay = 2
    LoopDelay = 1
    KeepsUp = FALSE
    MaxGames = 2
    MaxDma = 2
SPECIFICATION Spec
\* A second game halts the kernel.
CHECK_DEADLOCK FALSE
INVARIANTS
    RecordingComplete
    
PROPERTIES
    ResumeNotLost
    ImplementsTurns
