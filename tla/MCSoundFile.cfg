\* Songs of one to three blocks and a rest, and a card that may be taken out;
\* a second song finds what the first one left.
CONSTANTS
    Game = Game
    Player = Player
    Thread = {Game, Player}
    NoThread = NoThread
    Prio <- MCPrio
    BLOCK = 4
    FileLength = {6, 7, 11, 14}
    KeepsUp = TRUE
    CardMayFail = TRUE
    MaxSongs = 2
SPECIFICATION FairSpec
\* The second song halts the program.
CHECK_DEADLOCK FALSE
INVARIANTS
    TypeOK
    SongInOrder
    NeverFillsWhatPlays
PROPERTIES
    SongEnds
    DacFallsSilent
