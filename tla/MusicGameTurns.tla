--------------------------- MODULE MusicGameTurns ---------------------------
(***************************************************************************)
(* MusicGame implements Turns: the threads, the messages and the play lock *)
(* of the game give every player one score of the player's own turn.       *)
(***************************************************************************)
EXTENDS MusicGame

\* The turns that are over, from where gameThd is in its loop over the
\* players.
TurnsDone ==
    IF gstate # "START_GAME" THEN NumPlayers
    ELSE IF pc[Game] \in {"switch", "init"} THEN 0
    ELSE IF pc[Game] = "next" THEN player + 1
    ELSE player

T == INSTANCE Turns WITH
        phase <- gstate, turn <- TurnsDone, score <- score, target <- target

\* The game gives each player exactly one score, in order, none of them from
\* outside -100..100; it goes to the winner after the last of them and never
\* back into a turn (game.c:54-109, music.c:187-197).
ImplementsTurns == T!Spec

\* And it does go on: the game never stops before it is ready for the next
\* one, whatever the microphone's thread and the lights do.
ImplementsFairTurns == T!FairSpec

=============================================================================
