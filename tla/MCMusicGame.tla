---------------------------- MODULE MCMusicGame ----------------------------
(***************************************************************************)
(* Small instances of MusicGame for TLC.                                   *)
(***************************************************************************)
EXTENDS MusicGameTurns

MCPrio == [t \in Thread |-> IF t \in {Game, Mic} THEN 2 ELSE 1]

\* Two songs of different lengths; the notes are E1, B2 and A2.
MCMelody == [s \in Song |-> IF s = "song1" THEN <<7, 14>> ELSE <<12>>]

\* E1, B2 and no note.
MCHeard == {82, 124, 30}

\* E1 and no note, for the runs with fairness.
MCHeardOne == {82, 30}

=============================================================================
