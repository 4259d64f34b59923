------------------------------- MODULE Turns -------------------------------
(***************************************************************************)
(* What a game promises its players, without threads, sound or messages:   *)
(* every player in turn gets one score, the robot goes to a player with    *)
(* the best one, takes the photo and is ready for another game.            *)
(***************************************************************************)
EXTENDS Integers

CONSTANT NumPlayers

Player == 0..(NumPlayers - 1)

\* Score percentages.
Score == -100..100

VARIABLES
    phase,      \* the part of the game, named as in game.c
    turn,       \* the turns that are over; all of them between two games
    score,      \* the score of every player
    target      \* the player the robot goes to

turnsVars == <<phase, turn, score, target>>

Init ==
    /\ phase = "IDLE"
    /\ turn = NumPlayers
    /\ score \in [Player -> Int]
    /\ target \in Int

\* The user starts a game: nobody has played.
Start ==
    /\ phase = "IDLE"
    /\ phase' = "START_GAME"
    /\ turn' = 0
    /\ UNCHANGED <<score, target>>

\* The next player's turn ends with a score.
Turn ==
    /\ phase = "START_GAME" /\ turn < NumPlayers
    /\ \E s \in Score : score' = [score EXCEPT ![turn] = s]
    /\ turn' = turn + 1
    /\ UNCHANGED <<phase, target>>

TurnsOver ==
    /\ phase = "START_GAME" /\ turn = NumPlayers
    /\ phase' = "GOTO_WINNER"
    /\ UNCHANGED <<turn, score, target>>

\* The winner: of those with the best score the first to play.
Wins(p) ==
    /\ p \in Player
    /\ \A q \in Player : \/ score[q] < score[p]
                         \/ score[q] = score[p] /\ p <= q

SetOut ==
    /\ phase = "GOTO_WINNER"
    /\ \E p \in Player : Wins(p) /\ target' = p
    /\ UNCHANGED <<phase, turn, score>>

Arrive ==
    /\ phase = "GOTO_WINNER" /\ Wins(target)
    /\ phase' = "SEND_PHOTO"
    /\ UNCHANGED <<turn, score, target>>

TakePhoto ==
    /\ phase = "SEND_PHOTO"
    /\ phase' = "FINISHED"
    /\ UNCHANGED <<turn, score, target>>

End ==
    /\ phase = "FINISHED"
    /\ phase' = "IDLE"
    /\ UNCHANGED <<turn, score, target>>

Next == Start \/ Turn \/ TurnsOver \/ SetOut \/ Arrive \/ TakePhoto \/ End

Spec == Init /\ [][Next]_turnsVars

\* A game that is started goes on: only the user may wait.
FairSpec == Spec /\ WF_turnsVars(Next /\ phase # "IDLE")

=============================================================================
