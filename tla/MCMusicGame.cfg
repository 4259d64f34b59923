\* One game, with every song and frequency, a fair scheduler and players who
\* go on playing.
CONSTANTS
    Game = Game
    Music = Music
    Mic = Mic
    Light = Light
    Thread = {Game, Music, Mic, Light}
    NoThread = NoThread
    Prio <- MCPrio
    Song = {"song1", "song2"}
    NOT_CHOSEN = NOT_CHOSEN
    Melody <- MCMelody
    Heard <- MCHeard
    PlayerDelay = 3
    ScoreDelay = 2
    LoopDelay = 1
    KeepsUp = TRUE
    MaxGames = 1
    MaxDma = 1
SPECIFICATION FairSpec
INVARIANTS
    TypeOK
    SilentBetweenTurns
    WinnerIsRight
    NeverHalts
PROPERTIES
    ImplementsFairTurns
    MusicStops
