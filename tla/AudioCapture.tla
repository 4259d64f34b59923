---------------------------- MODULE AudioCapture ----------------------------
(***************************************************************************)
(* The sound between the microphone and musicThd: processAudioDataCmplx of *)
(* audio_processing.c with its static variables, called with every buffer  *)
(* of samples.  It fills a window for the Fourier transform, keeps its     *)
(* second half for the next one, and sends the frequency of a window if a  *)
(* Schmitt trigger saw the volume rise since the last one.                 *)
(*                                                                         *)
(* A sample is its number in the recording.  Windows are counted in        *)
(* complex samples: the code writes two floats for each, the second zero,  *)
(* and counts both.  The transform and the frequency are left out (the     *)
(* arithmetic is in Notes), and so is the thread that calls (MusicGame);   *)
(* a callback is two steps, as the play lock may change in between.        *)
(***************************************************************************)
EXTENDS Integers

CONSTANTS
    FFT_SIZE,        \* the complex samples of a window: 4096
    BUFFER,          \* the samples of one microphone in a callback: 160
    MaxCallbacks     \* bound: the callbacks

ASSUME WindowAssumption ==
    /\ BUFFER \in Nat \ {0}
    /\ FFT_SIZE \in Nat \ {0} /\ FFT_SIZE % 2 = 0
    /\ MaxCallbacks \in Nat

OVERLAP_INDEX == FFT_SIZE \div 2
OVERLAP_BUFFER_SIZE == FFT_SIZE \div 2

\* The volume of a buffer: below MIN_VOLUME, above MAX_VOLUME, or neither.
Volume == {"low", "middle", "high"}

VARIABLES
    pc,
    playing,             \* music_is_playing
    state,               \* note_volume's state
    register_note,
    nb_samples,
    nb_overlap_samples,
    input,               \* micLeft_cmplx_input
    overlapping_samples,
    clock,               \* history: the callbacks so far
    onset,               \* history: the callback register_note was set by
    turnStart,           \* history: the first callback of the turn
    windows,             \* history: the windows filled in this turn
    notes,               \* history: whether a frequency was sent in this turn
    quiet,               \* history: the last callback of low volume
    sent                 \* history: the onset of the last note sent

buffers == <<nb_samples, nb_overlap_samples, input, overlapping_samples>>
history == <<onset, turnStart, windows, notes, quiet, sent>>

vars == <<pc, playing, state, register_note, buffers, clock, history>>

Init ==
    /\ pc = "callback" /\ playing = FALSE
    /\ state = FALSE /\ register_note = FALSE
    /\ nb_samples = 0 /\ nb_overlap_samples = 0
    /\ input = [p \in 0..FFT_SIZE - 1 |-> -1]
    /\ overlapping_samples = [p \in 0..OVERLAP_BUFFER_SIZE - 1 |-> -1]
    /\ clock = 0 /\ onset = 0 /\ turnStart = 0 /\ windows = 0 /\ notes = FALSE
    /\ quiet = -1 /\ sent = -1

\* A number that is none of a sample: the callback's samples are
\* clock * BUFFER and the following.
Sample(i) == clock * BUFFER + i

Least(m, n) == IF m < n THEN m ELSE n
Most(m, n) == IF m > n THEN m ELSE n

-----------------------------------------------------------------------------
(***************************************************************************)
(* The turn, as music_is_playing tells it: musicThd ends it only after it  *)
(* has got a note.                                                         *)
(***************************************************************************)
TurnStarts ==
    /\ ~playing /\ playing' = TRUE
    /\ turnStart' = clock /\ windows' = 0 /\ notes' = FALSE
    /\ UNCHANGED <<pc, state, register_note, buffers, clock, onset, quiet, sent>>

TurnEnds ==
    /\ playing /\ notes /\ playing' = FALSE
    /\ UNCHANGED <<pc, state, register_note, buffers, clock, history>>

\* A callback while nobody plays: nothing is kept of it.
Ignore ==
    /\ pc = "callback" /\ ~playing /\ clock < MaxCallbacks
    /\ clock' = clock + 1
    /\ UNCHANGED <<pc, playing, state, register_note, buffers, history>>

-----------------------------------------------------------------------------
(***************************************************************************)
(* The loop over the samples, and note_volume.                             *)
(***************************************************************************)

\* Mutant of Taken: the loop looks for the end of the window too late.
TakenLate == Least(BUFFER, Most(1, FFT_SIZE - nb_samples + 1))

\* The passes of the loop: it ends with the buffer or when the window is
\* full, which it looks for at the end of a pass.
Taken == Least(BUFFER, Most(1, FFT_SIZE - nb_samples))

\* The first of them that is also kept for the next window.
FirstKept == Most(nb_samples, OVERLAP_INDEX)

Kept == Most(0, nb_samples + Taken - FirstKept)

Fill ==
    /\ input' = [p \in 0..FFT_SIZE - 1 |->
                   IF p \in nb_samples..nb_samples + Taken - 1
                   THEN Sample(p - nb_samples) ELSE input[p]]
    /\ overlapping_samples' = [p \in 0..OVERLAP_BUFFER_SIZE - 1 |->
          IF p \in nb_overlap_samples..nb_overlap_samples + Kept - 1
          THEN Sample(FirstKept - nb_samples + p - nb_overlap_samples)
          ELSE overlapping_samples[p]]
    /\ nb_samples' = nb_samples + Taken
    /\ nb_overlap_samples' = nb_overlap_samples + Kept

\* Mutant of Rises: without the trigger every loud buffer is an edge.
RisesAlways(v) == v = "high"

\* note_volume returns true.
Rises(v) == v = "high" /\ ~state

Trigger(v) ==
    state' = CASE v = "high" -> TRUE [] v = "low" -> FALSE [] OTHER -> state

Capture(v) ==
    /\ pc = "callback" /\ playing /\ clock < MaxCallbacks
    /\ Fill
    /\ Trigger(v)
    /\ register_note' = (register_note \/ Rises(v))
    /\ onset' = IF Rises(v) /\ ~register_note THEN clock ELSE onset
    /\ quiet' = IF v = "low" THEN clock ELSE quiet
    /\ clock' = clock + 1
    /\ pc' = "window"
    /\ UNCHANGED <<playing, turnStart, windows, notes, sent>>

-----------------------------------------------------------------------------
(***************************************************************************)
(* The window.                                                             *)
(***************************************************************************)
Full == nb_samples >= FFT_SIZE

NotFull ==
    /\ pc = "window" /\ ~Full
    /\ pc' = "callback"
    /\ UNCHANGED <<playing, state, register_note, buffers, clock, history>>

\* Mutant of StartNext: the samples kept are not copied.
StartNextEmpty ==
    /\ nb_samples' = OVERLAP_BUFFER_SIZE /\ nb_overlap_samples' = 0
    /\ UNCHANGED <<input, overlapping_samples>>

\* The next window begins with the second half of this one.
StartNext ==
    /\ nb_samples' = OVERLAP_BUFFER_SIZE /\ nb_overlap_samples' = 0
    /\ input' = [p \in 0..FFT_SIZE - 1 |->
                   IF p < OVERLAP_BUFFER_SIZE THEN overlapping_samples[p]
                   ELSE input[p]]
    /\ UNCHANGED overlapping_samples

\* Mutant of Forget: the note stays registered after it was sent.
NeverForget == register_note' = register_note

Forget == register_note' = FALSE

\* music_send_freq, if a note was registered.
Window ==
    /\ pc = "window" /\ Full
    /\ Forget
    /\ StartNext
    /\ notes' = (notes \/ register_note)
    /\ windows' = Least(windows + 1, 2)
    /\ sent' = IF register_note THEN onset ELSE sent
    /\ pc' = "callback"
    /\ UNCHANGED <<playing, state, clock, onset, turnStart, quiet>>

Next ==
    \/ TurnStarts \/ TurnEnds \/ Ignore
    \/ \E v \in Volume : Capture(v)
    \/ NotFull \/ Window

Spec == Init /\ [][Next]_vars

-----------------------------------------------------------------------------
(***************************************************************************)
(* Properties.                                                             *)
(***************************************************************************)

\* Every variable has its type; neither array is ever written beyond its end:
\* both counters stay within it, whatever part of a buffer fills the window
\* (audio_processing.c:137-156).
TypeOK ==
    /\ pc \in {"callback", "window"}
    /\ playing \in BOOLEAN /\ state \in BOOLEAN /\ register_note \in BOOLEAN
    /\ nb_samples \in 0..FFT_SIZE
    /\ nb_overlap_samples \in 0..OVERLAP_BUFFER_SIZE
    /\ input \in [0..FFT_SIZE - 1 -> Int]
    /\ overlapping_samples \in [0..OVERLAP_BUFFER_SIZE - 1 -> Int]
    /\ clock \in 0..MaxCallbacks /\ onset \in 0..MaxCallbacks
    /\ turnStart \in 0..MaxCallbacks /\ windows \in 0..2 /\ notes \in BOOLEAN
    /\ quiet \in -1..MaxCallbacks /\ sent \in -1..MaxCallbacks

FirstOfTurn == turnStart * BUFFER

\* The window is a recording: its samples are in their order, and none is
\* missing but the rest of the buffer that filled the last window, in the
\* middle of this one, and what was played before the turn
\* (audio_processing.c:137-156, 181-183).
WindowInOrder ==
    \A p \in 1..nb_samples - 1 :
        \/ input[p] = input[p - 1] + 1
        \/ /\ p = OVERLAP_INDEX
           /\ input[p] \in input[p - 1] + 1..input[p - 1] + BUFFER
        \/ input[p] > input[p - 1] /\ input[p - 1] < FirstOfTurn

\* The static buffers outlive a turn; what they still hold of the last one is
\* gone with the second window: from the third on, a frequency is one of the
\* player's own turn (audio_processing.c:127-133).
OwnSoundFromThirdWindow ==
    Full /\ windows = 2 =>
        \A p \in 0..FFT_SIZE - 1 : input[p] >= FirstOfTurn

\* A registered note is in the window: the sound whose frequency is sent for
\* it contains the buffer whose volume rose, also when the rest of that buffer
\* did not fit, when the turn ended in between and when more sounds followed
\* (audio_processing.c:163-178).
NoteIsInWindow ==
    register_note =>
        \E p \in 0..nb_samples - 1 :
            input[p] \in onset * BUFFER..onset * BUFFER + BUFFER - 1

\* A sound that never falls below MIN_VOLUME gives one frequency, over any
\* number of windows and turns: a note is registered only if some buffer was
\* quiet after the onset of the last note sent (audio_processing.c:101-111,
\* 164-166).
OneNotePerSound ==
    [][~register_note /\ register_note' => sent = -1 \/ sent < quiet]_vars

=============================================================================
