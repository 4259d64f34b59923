\* The threads of the microphone and of the lights after music_stop.
CONSTANTS
    Game = Game
    Music = Music
    Mic = Mic
    Light = Light
    Thread = {Game, Music, Mic, Light}
    NoThread = NoThread
    Prio <- MCPrio
    Song = {"song1"}
    NOT_CHOSEN = NOT_CHOSEN
    Melody <- MCMelody
    Heard <- MCHeardOne
    PlayerDelay = 2
    ScoreDelay = 1
    LoopDelay = 1
    KeepsUp = TRUE
    MaxGames = 1
    MaxDma = 1
SPECIFICATION FairSpec
PROPERTY StopIsSeen
