------------------------------- MODULE Notes -------------------------------
(***************************************************************************)
(* The arithmetic of music.c and audio_processing.c: from the index of the *)
(* largest FFT bin to a frequency, from the frequency to a note, and from  *)
(* a recording to its score.  Notes are numbered as in note_t: 0..59 from  *)
(* A1 to GS5, and NONE.                                                    *)
(***************************************************************************)
EXTENDS Integers, Sequences, FiniteSets

Note == 0..59
NONE == 60

POSITIVE_POINTS == 4
NEGATIVE_POINTS == 1
MAX_ACCEPTABLE_FREQ_ERROR == 7

\* notes[n].freq is NoteFreq[n + 1].
NoteFreq ==
    <<  55,  58,  62,  65,  69,  73,  77,  82,   87,   92,   98,  104,
       110, 116, 124, 131, 138, 146, 155, 165,  175,  185,  196,  208,
       220, 233, 247, 262, 277, 294, 311, 330,  349,  370,  392,  415,
       440, 466, 494, 523, 554, 587, 622, 659,  698,  740,  784,  831,
       880, 932, 988, 1047, 1108, 1174, 1244, 1318, 1396, 1480, 1568, 1662 >>

\* FFT_SIZE complex points: arm_max_f32 searches the first half of the bins.
Bin == 0..2047

\* Mutant of BinFreq: the resolution of half the FFT size.
BinFreqHalf(k) == IF k < 2 THEN 2147483647 ELSE (250 * (k - 2)) \div 32

\* The frequency of a bin as the message carries it: 3.90625 Hz a bin, two
\* bins of offset, truncated to an integer by the cast to msg_t.  The offset
\* is subtracted from an unsigned index, so that the two lowest bins wrap;
\* the cast of the result, out of range, saturates on this core.
BinFreq(k) == IF k < 2 THEN 2147483647 ELSE (125 * (k - 2)) \div 32

FreqError(f, n) == IF f < NoteFreq[n + 1] THEN NoteFreq[n + 1] - f
                                          ELSE f - NoteFreq[n + 1]

\* The acceptable note with the smallest error, the first of them if there
\* are several: the note the loop of freq_to_note is left with, if any.
ClosestNote(f) ==
    {n \in Note :
        /\ FreqError(f, n) < MAX_ACCEPTABLE_FREQ_ERROR
        /\ \A m \in Note : \/ FreqError(f, n) < FreqError(f, m)
                           \/ FreqError(f, n) = FreqError(f, m) /\ n <= m}

freq_to_note(f) ==
    IF ClosestNote(f) = {} THEN NONE ELSE CHOOSE n \in ClosestNote(f) : TRUE

\* Mutant of Improve: an equal error replaces the best one.
ImproveLast(best, f, n) ==
    IF FreqError(f, n) <= best.error
    THEN [note |-> n, error |-> FreqError(f, n)]
    ELSE best

\* A pass of the loop: a strictly smaller error replaces the best one so far.
Improve(best, f, n) ==
    IF FreqError(f, n) < best.error
    THEN [note |-> n, error |-> FreqError(f, n)]
    ELSE best

\* The loop: what it has found when it comes to note i.
NoteLoop(f) ==
    LET best[i \in 0..60] ==
          IF i = 0 THEN [note |-> NONE, error |-> MAX_ACCEPTABLE_FREQ_ERROR]
                   ELSE Improve(best[i - 1], f, i - 1)
    IN  best[60].note

\* Division of C: towards zero.
Quotient(a, b) == IF a >= 0 THEN a \div b ELSE -((-a) \div b)

\* Mutant of Matches: the octave counts.
MatchesExactly(melody, played) ==
    {k \in DOMAIN melody : played[k] = melody[k]}

\* Notes match when they are the same note of any octave.
Matches(melody, played) ==
    {k \in DOMAIN melody : played[k] % 12 = melody[k] % 12}

\* Mutant of check_note_sequence: a wrong note costs nothing.
check_note_sequence_mild(melody, played) ==
    POSITIVE_POINTS * Cardinality(Matches(melody, played))

check_note_sequence(melody, played) ==
    LET right == Cardinality(Matches(melody, played))
    IN  POSITIVE_POINTS * right - NEGATIVE_POINTS * (Len(melody) - right)

\* A percentage, as an int16_t.
calculate_score(melody, played) ==
    LET percent == Quotient(100 * check_note_sequence(melody, played),
                            POSITIVE_POINTS * Len(melody))
    IN  IF percent > 100 THEN 100 ELSE IF percent < -100 THEN -100 ELSE percent

=============================================================================
