\* A second game halts the kernel.
CONSTANTS
    Game = Game
    Music = Music
    Mic = Mic
    Light = Light
    Thread = {Game, Music, Mic, Light}
    NoThread = NoThread
    Prio <- MCPrio
    Song = {"song1", "song2"}
    NOT_CHOSEN = NOT_CHOSEN
    Melody <- MCMelody
    Heard <- MCHeard
    PlayerDelay = 3
    ScoreDelay = 2
    LoopDelay = 1
    KeepsUp = TRUE
    MaxGames = 2
    MaxDma = 1
SPECIFICATION Spec
INVARIANT NeverHalts
