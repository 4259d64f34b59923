\* Every frequency up to 2047 Hz and every bin the FFT is searched in, then
\* melodies of up to 64 notes; the longest song has 18.
CONSTANT MaxSize = 64
SPECIFICATION Spec
INVARIANTS
    ClosestNoteFound
    EveryNoteHeard
    ScoreIsPercentage
PROPERTY BetterScores
