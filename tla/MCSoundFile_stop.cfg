\* stop_song in the middle of a song.
CONSTANTS
    Game = Game
    Player = Player
    Thread = {Game, Player}
    NoThread = NoThread
    Prio <- MCPrio
    BLOCK = 4
    FileLength = {14}
    KeepsUp = TRUE
    CardMayFail = FALSE
    MaxSongs = 1
SPECIFICATION FairSpec
\* After the song the program waits for another game.
CHECK_DEADLOCK FALSE
PROPERTY FileFinishes
