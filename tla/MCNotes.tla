------------------------------ MODULE MCNotes ------------------------------
(***************************************************************************)
(* The arithmetic of Notes over bounded inputs: first every frequency up   *)
(* to 2 kHz and every FFT bin, one after the other, then melodies of up to *)
(* MaxSize notes, played with more and more right notes.                   *)
(***************************************************************************)
EXTENDS Notes

CONSTANT MaxSize
ASSUME MaxSizeAssumption == MaxSize \in 1..255

VARIABLES
    n,          \* a frequency in Hz, or the index of a bin
    size,       \* the length of the melody
    right       \* its first notes, which the player got right

Init == n = 0 /\ size = 1 /\ right = 0

HearNext == n + 1 \in Bin /\ n' = n + 1 /\ UNCHANGED <<size, right>>

PlayBetter ==
    n + 1 \notin Bin /\ right < size /\ right' = right + 1 /\ UNCHANGED <<n, size>>

NextMelody ==
    /\ n + 1 \notin Bin /\ right = size
    /\ size' = (size % MaxSize) + 1 /\ right' = 0
    /\ UNCHANGED n

Next == HearNext \/ PlayBetter \/ NextMelody

Spec == Init /\ [][Next]_<<n, size, right>>

melody == [k \in 1..size |-> (7 * k) % 60]

\* Right notes are played an octave higher or lower, wrong ones are a
\* semitone off, in the octave of the melody or not, or no note.
played ==
    [k \in 1..size |->
        IF k <= right THEN (melody[k] + 12 * k) % 60
        ELSE IF k % 2 = 0 /\ melody[k] % 12 # 0 THEN NONE
        ELSE (melody[k] + 1 + 12 * k) % 60]

points == calculate_score(melody, played)

\* The loop of freq_to_note finds a note with the smallest error of all, the
\* lowest of them, and none when no error is acceptable (music.c:226-241).
ClosestNoteFound == NoteLoop(n) = freq_to_note(n)

\* Every note of the table can be heard although the two lowest octaves are
\* closer together than the bins of the FFT and the cast to msg_t drops the
\* fraction; a bin below the offset is no note (audio_processing.c:58-72,
\* music.c:395).
EveryNoteHeard ==
    /\ n \in Note => \E k \in Bin : freq_to_note(BinFreq(k)) = n
    /\ n < 2 => freq_to_note(BinFreq(n)) = NONE

\* "Calculates the score percentage": 100 for the whole melody and for
\* nothing less, -25 for no right note and for nothing more, although the
\* percentage is truncated towards zero (music.c:187-197).
ScoreIsPercentage ==
    /\ points \in -25..100
    /\ points = 100 <=> right = size
    /\ points = -25 <=> right = 0

\* One more right note makes a better score: two players who differ never
\* tie because of the truncation, for melodies this long (music.c:189-190,
\* game.c:87).
BetterScores ==
    [][right' > right => points' > points]_<<n, size, right>>

=============================================================================
