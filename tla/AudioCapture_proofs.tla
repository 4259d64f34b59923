------------------------ MODULE AudioCapture_proofs ------------------------
(***************************************************************************)
(* What is proved of the sound between the microphone and musicThd, for    *)
(* windows and buffers of every size: the arrays are never left, a         *)
(* registered note is in the window its frequency is computed from, a      *)
(* sound that goes on gives no second note, from the third window of a     *)
(* turn on everything in it is the player's own, and a window is a         *)
(* recording in its order.                                                 *)
(***************************************************************************)
EXTENDS AudioCapture, TLAPS

\* The overlap buffer holds what the window has beyond its first half, and a
\* window is complete only until its frequency was computed.
CountInv ==
    /\ nb_overlap_samples = Most(0, nb_samples - OVERLAP_INDEX)
    /\ pc = "callback" => nb_samples < FFT_SIZE

\* TypeOK in three parts.
ArraysOK ==
    /\ input \in [0..FFT_SIZE - 1 -> Int]
    /\ overlapping_samples \in [0..OVERLAP_BUFFER_SIZE - 1 -> Int]

FlagsOK ==
    /\ playing \in BOOLEAN /\ state \in BOOLEAN /\ register_note \in BOOLEAN
    /\ notes \in BOOLEAN

ScalarsOK ==
    /\ pc \in {"callback", "window"}
    /\ nb_samples \in 0..FFT_SIZE
    /\ nb_overlap_samples \in 0..OVERLAP_BUFFER_SIZE
    /\ clock \in 0..MaxCallbacks /\ onset \in 0..MaxCallbacks
    /\ turnStart \in 0..MaxCallbacks /\ windows \in 0..2
    /\ quiet \in -1..MaxCallbacks /\ sent \in -1..MaxCallbacks

TypeInv == ArraysOK /\ FlagsOK /\ ScalarsOK /\ CountInv

LEMMA Halves ==
    /\ OVERLAP_INDEX \in Nat \ {0} /\ OVERLAP_BUFFER_SIZE = OVERLAP_INDEX
    /\ FFT_SIZE = OVERLAP_INDEX + OVERLAP_INDEX
    /\ BUFFER \in Nat \ {0} /\ MaxCallbacks \in Nat
BY WindowAssumption DEF OVERLAP_INDEX, OVERLAP_BUFFER_SIZE

\* A callback takes at least one sample and never more than there is place for.
LEMMA TakenFits ==
    ASSUME ScalarsOK, CountInv, pc = "callback"
    PROVE  /\ Taken \in 1..BUFFER
           /\ nb_samples + Taken <= FFT_SIZE
           /\ FirstKept \in nb_samples..FFT_SIZE
           /\ Kept \in Nat
           /\ nb_overlap_samples + Kept
                = Most(0, nb_samples + Taken - OVERLAP_INDEX)
BY Halves DEF ScalarsOK, CountInv, Taken, FirstKept, Kept, Least, Most

LEMMA InitType == Init => TypeInv
<1> SUFFICES ASSUME Init PROVE TypeInv
  OBVIOUS
<1>1. ArraysOK
  BY DEF Init, ArraysOK
<1>2. ScalarsOK
  BY Halves DEF Init, ScalarsOK
<1>3. CountInv
  BY Halves DEF Init, CountInv, Most
<1>4. FlagsOK
  BY Zenon DEF Init, FlagsOK
<1> QED
  BY <1>1, <1>2, <1>3, <1>4 DEF TypeInv

LEMMA NextFlags == FlagsOK /\ [Next]_vars => FlagsOK'
<1> SUFFICES ASSUME FlagsOK, [Next]_vars PROVE FlagsOK'
  OBVIOUS
<1> USE DEF FlagsOK
<1>1. CASE TurnStarts
  BY <1>1, Zenon DEF TurnStarts
<1>2. CASE TurnEnds
  BY <1>2, Zenon DEF TurnEnds, history
<1>3. CASE Ignore
  BY <1>3, Zenon DEF Ignore, history
<1>4. CASE \E v \in Volume : Capture(v)
  <2>1. PICK v \in Volume : Capture(v)
    BY <1>4
  <2>2. state' \in BOOLEAN
    BY <2>1 DEF Capture, Trigger
  <2>3. register_note' \in BOOLEAN
    BY <2>1, Zenon DEF Capture
  <2> QED
    BY <2>1, <2>2, <2>3, Zenon DEF Capture
<1>5. CASE NotFull
  BY <1>5, Zenon DEF NotFull, history
<1>6. CASE Window
  BY <1>6, Zenon DEF Window, Forget
<1>7. CASE UNCHANGED vars
  BY <1>7, Zenon DEF vars, history
<1> QED
  BY <1>1, <1>2, <1>3, <1>4, <1>5, <1>6, <1>7 DEF Next

LEMMA NextType == TypeInv /\ [Next]_vars => TypeInv'
<1> SUFFICES ASSUME ArraysOK, FlagsOK, ScalarsOK, CountInv, [Next]_vars
             PROVE  ArraysOK' /\ ScalarsOK' /\ CountInv'
  BY NextFlags DEF TypeInv
<1>1. CASE TurnStarts
  <2>1. ArraysOK' /\ CountInv'
    BY <1>1, Zenon DEF TurnStarts, buffers, ArraysOK, CountInv
  <2>2. /\ turnStart' = clock /\ windows' = 0
        /\ pc' = pc /\ nb_samples' = nb_samples
        /\ nb_overlap_samples' = nb_overlap_samples
        /\ clock' = clock /\ onset' = onset /\ quiet' = quiet /\ sent' = sent
    BY <1>1, Zenon DEF TurnStarts, buffers
  <2>3. ScalarsOK'
    BY <2>2, Halves DEF ScalarsOK
  <2> QED
    BY <2>1, <2>3
<1>2. CASE TurnEnds
  BY <1>2 DEF TurnEnds, buffers, history, ArraysOK, ScalarsOK, CountInv
<1>3. CASE Ignore
  <2>1. ArraysOK' /\ CountInv'
    BY <1>3, Zenon DEF Ignore, buffers, ArraysOK, CountInv
  <2>2. ScalarsOK'
    BY <1>3, Halves DEF Ignore, buffers, history, ScalarsOK
  <2> QED
    BY <2>1, <2>2
<1>4. CASE \E v \in Volume : Capture(v)
  <2>1. PICK v \in Volume : Capture(v)
    BY <1>4
  <2>2. /\ Taken \in 1..BUFFER /\ nb_samples + Taken <= FFT_SIZE
        /\ FirstKept \in nb_samples..FFT_SIZE /\ Kept \in Nat
        /\ nb_overlap_samples + Kept = Most(0, nb_samples + Taken - OVERLAP_INDEX)
    BY <2>1, TakenFits DEF Capture
  <2>3. /\ nb_samples' \in 0..FFT_SIZE
        /\ nb_overlap_samples' = Most(0, nb_samples' - OVERLAP_INDEX)
        /\ nb_overlap_samples' \in 0..OVERLAP_BUFFER_SIZE
    BY <2>1, <2>2, Halves DEF Capture, Fill, ScalarsOK, Most
  <2>4. \A i \in Int : Sample(i) \in Int
    BY Halves DEF Sample, ScalarsOK
  <2>5. input' \in [0..FFT_SIZE - 1 -> Int]
    <3>1. \A p \in 0..FFT_SIZE - 1 : Sample(p - nb_samples) \in Int
      BY <2>4, Halves DEF ScalarsOK
    <3> QED
      BY <2>1, <3>1 DEF Capture, Fill, ArraysOK
  <2>6. overlapping_samples' \in [0..OVERLAP_BUFFER_SIZE - 1 -> Int]
    <3>1. \A p \in 0..OVERLAP_BUFFER_SIZE - 1 :
             Sample(FirstKept - nb_samples + p - nb_overlap_samples) \in Int
      BY <2>2, <2>4, Halves DEF ScalarsOK
    <3> QED
      BY <2>1, <3>1 DEF Capture, Fill, ArraysOK
  <2>7. ArraysOK'
    BY <2>5, <2>6 DEF ArraysOK
  <2>8. pc' = "window"
    BY <2>1 DEF Capture
  <2>9.  /\ clock' \in 0..MaxCallbacks /\ onset' \in 0..MaxCallbacks
        /\ turnStart' \in 0..MaxCallbacks /\ windows' \in 0..2
        /\ quiet' \in -1..MaxCallbacks /\ sent' \in -1..MaxCallbacks
    BY <2>1, Halves DEF Capture, ScalarsOK
  <2> QED
    BY <2>3, <2>7, <2>8, <2>9 DEF ScalarsOK, CountInv
<1>5. CASE NotFull
  <2>1. ArraysOK'
    BY <1>5, Zenon DEF NotFull, buffers, ArraysOK
  <2>2. /\ ~Full /\ pc' = "callback"
        /\ UNCHANGED <<nb_samples, nb_overlap_samples, clock, onset, turnStart,
                       windows, quiet, sent>>
    BY <1>5, Zenon DEF NotFull, buffers, history
  <2>3. ScalarsOK' /\ CountInv'
    BY <2>2, Halves DEF Full, ScalarsOK, CountInv, Most
  <2> QED
    BY <2>1, <2>3
<1>6. CASE Window
  <2>1. nb_samples' = OVERLAP_INDEX /\ nb_overlap_samples' = 0
    BY <1>6, Halves DEF Window, StartNext
  <2>2. ArraysOK'
    BY <1>6, Halves DEF Window, StartNext, ArraysOK
  <2>3. ScalarsOK'
    BY <1>6, <2>1, Halves DEF Window, Forget, Least, ScalarsOK
  <2>4. CountInv'
    BY <2>1, Halves DEF Most, CountInv
  <2> QED
    BY <2>2, <2>3, <2>4
<1>7. CASE UNCHANGED vars
  BY <1>7 DEF vars, buffers, history, ArraysOK, ScalarsOK, CountInv
<1> QED
  BY <1>1, <1>2, <1>3, <1>4, <1>5, <1>6, <1>7 DEF Next

LEMMA TypeInvariant == Spec => []TypeInv
BY InitType, NextType, PTL DEF Spec

\* Neither array of processAudioDataCmplx is written beyond its end, for every
\* size of the window and of the buffers (audio_processing.c:137-156).
THEOREM AudioTypeCorrect == Spec => []TypeOK
<1>1. TypeInv => TypeOK
  BY Zenon DEF TypeInv, ArraysOK, FlagsOK, ScalarsOK, TypeOK
<1> QED
  BY <1>1, TypeInvariant, PTL

-----------------------------------------------------------------------------
(***************************************************************************)
(* A registered note is in the window.                                     *)
(***************************************************************************)

\* A callback that registers a note writes a sample of its own at nb_samples;
\* one that follows writes behind it, and the window is only given up when the
\* note is forgotten.
LEMMA NextNote == TypeInv /\ NoteIsInWindow /\ [Next]_vars => NoteIsInWindow'
<1> SUFFICES ASSUME TypeInv, NoteIsInWindow, [Next]_vars, register_note'
             PROVE  \E p \in 0..nb_samples' - 1 :
                       input'[p] \in onset' * BUFFER..onset' * BUFFER + BUFFER - 1
  BY DEF NoteIsInWindow
<1>1. CASE UNCHANGED <<register_note, nb_samples, input, onset>>
  BY <1>1 DEF NoteIsInWindow
<1>2. CASE TurnStarts \/ TurnEnds \/ Ignore \/ NotFull \/ UNCHANGED vars
  BY <1>2, <1>1, Zenon
  DEF TurnStarts, TurnEnds, Ignore, NotFull, vars, buffers, history
<1>3. CASE \E v \in Volume : Capture(v)
  <2>1. PICK v \in Volume : Capture(v)
    BY <1>3
  <2>2. Taken \in 1..BUFFER /\ nb_samples + Taken <= FFT_SIZE
    BY <2>1, TakenFits DEF Capture, TypeInv
  <2>3. nb_samples \in Nat /\ onset \in Nat /\ clock \in Nat
    BY Halves DEF TypeInv, ScalarsOK
  <2>4. nb_samples' = nb_samples + Taken
    BY <2>1 DEF Capture, Fill
  <2>5. \A p \in 0..FFT_SIZE - 1 :
           input'[p] = IF p \in nb_samples..nb_samples + Taken - 1
                       THEN Sample(p - nb_samples) ELSE input[p]
    BY <2>1 DEF Capture, Fill
  <2>6. CASE register_note
    <3>1. onset' = onset
      BY <2>1, <2>6, Zenon DEF Capture
    <3>2. PICK p \in 0..nb_samples - 1 :
             input[p] \in onset * BUFFER..onset * BUFFER + BUFFER - 1
      BY <2>6 DEF NoteIsInWindow
    <3>3. p \in 0..nb_samples' - 1 /\ input'[p] = input[p]
      BY <2>2, <2>3, <2>4, <2>5, <3>2, Halves
    <3> QED
      BY <3>1, <3>2, <3>3
  <2>7. CASE ~register_note
    <3>1. onset' = clock
      <4>1. Rises(v)
        BY <2>1, <2>7, Zenon DEF Capture
      <4> QED
        BY <2>1, <2>7, <4>1, Zenon DEF Capture
    <3>2. nb_samples \in 0..nb_samples' - 1 /\ nb_samples \in 0..FFT_SIZE - 1
          /\ nb_samples \in nb_samples..nb_samples + Taken - 1
      BY <2>2, <2>3, <2>4, Halves
    <3>3. input'[nb_samples] = Sample(nb_samples - nb_samples)
      BY <2>5, <3>2
    <3>4. input'[nb_samples] = clock * BUFFER
      BY <2>3, <3>3, Halves DEF Sample
    <3>5. clock * BUFFER \in clock * BUFFER..clock * BUFFER + BUFFER - 1
      BY <2>3, Halves
    <3> QED
      BY <3>1, <3>2, <3>4, <3>5
  <2> QED
    BY <2>6, <2>7
<1>4. CASE Window
  BY <1>4 DEF Window, Forget
<1> QED
  BY <1>2, <1>3, <1>4 DEF Next

\* The sound whose frequency is sent for a note contains the buffer whose volume
\* rose, for every size of the window and of the buffers
\* (audio_processing.c:163-178).
THEOREM NoteIsHeard == Spec => []NoteIsInWindow
<1>1. Init => NoteIsInWindow
  BY Zenon DEF Init, NoteIsInWindow
<1> QED
  BY <1>1, NextNote, TypeInvariant, PTL DEF Spec

-----------------------------------------------------------------------------
(***************************************************************************)
(* A sound that goes on gives one note.                                    *)
(***************************************************************************)

\* The trigger is only open if a buffer was quiet after the onset of the last
\* note: of the one that is registered, or else of the one that was sent.
EdgeInv ==
    /\ sent < clock
    /\ register_note => onset < clock /\ (~state => onset < quiet)
    /\ ~register_note /\ ~state => sent = -1 \/ sent < quiet

LEMMA InitEdge == Init => EdgeInv
BY DEF Init, EdgeInv

LEMMA NextEdge == TypeInv /\ EdgeInv /\ [Next]_vars => EdgeInv'
<1> SUFFICES ASSUME TypeInv, EdgeInv, [Next]_vars PROVE EdgeInv'
  OBVIOUS
<1>1. CASE UNCHANGED <<register_note, state, onset, quiet, sent, clock>>
  BY <1>1, Zenon DEF EdgeInv
<1>2. CASE TurnStarts \/ TurnEnds \/ NotFull \/ UNCHANGED vars
  BY <1>2, <1>1, Zenon DEF TurnStarts, TurnEnds, NotFull, vars, history
<1>3. onset \in Nat /\ clock \in Nat /\ quiet \in Int /\ sent \in Int
  BY Halves DEF TypeInv, ScalarsOK
<1>4. CASE Ignore
  <2>1. clock' = clock + 1
    BY <1>4 DEF Ignore
  <2>2. UNCHANGED <<register_note, state, onset, quiet, sent>>
    BY <1>4, Zenon DEF Ignore, history
  <2>3. sent < clock' /\ (onset < clock => onset < clock')
    BY <1>3, <2>1 DEF EdgeInv
  <2> QED
    BY <2>2, <2>3, Zenon DEF EdgeInv
<1>5. CASE \E v \in Volume : Capture(v)
  <2>1. PICK v \in Volume : Capture(v)
    BY <1>5
  <2>2. clock' = clock + 1 /\ sent' = sent
    BY <2>1 DEF Capture
  <2>3. CASE v = "high"
    <3>1. state' = TRUE
      BY <2>1, <2>3 DEF Capture, Trigger
    <3>2. register_note' => onset' = clock \/ (register_note /\ onset' = onset)
      BY <2>1, Zenon DEF Capture
    <3>3. register_note' => onset' < clock'
      BY <1>3, <2>2, <3>2 DEF EdgeInv
    <3>4. sent' < clock'
      BY <1>3, <2>2 DEF EdgeInv
    <3> QED
      BY <3>1, <3>3, <3>4, Zenon DEF EdgeInv
  <2>4. CASE v # "high"
    <3>1. register_note' = register_note /\ onset' = onset
      <4>1. ~Rises(v)
        BY <2>4, Zenon DEF Rises
      <4>2. register_note \in BOOLEAN
        BY DEF TypeInv, FlagsOK
      <4> QED
        BY <2>1, <4>1, <4>2, Zenon DEF Capture
    <3>2. CASE v = "low"
      <4>1. quiet' = clock
        BY <2>1, <3>2 DEF Capture
      <4> QED
        BY <1>3, <2>2, <3>1, <4>1 DEF EdgeInv
    <3>3. CASE v = "middle"
      <4>1. quiet' = quiet /\ state' = state
        BY <2>1, <3>3 DEF Capture, Trigger
      <4> QED
        BY <1>3, <2>2, <3>1, <4>1 DEF EdgeInv
    <3> QED
      BY <2>4, <3>2, <3>3 DEF Volume
  <2> QED
    BY <2>3, <2>4
<1>6. CASE Window
  <2>1. register_note' = FALSE /\ state' = state /\ quiet' = quiet
        /\ clock' = clock
    BY <1>6, Zenon DEF Window, Forget
  <2>2. sent' = IF register_note THEN onset ELSE sent
    BY <1>6, Zenon DEF Window
  <2> QED
    BY <2>1, <2>2, Zenon DEF EdgeInv
<1> QED
  BY <1>2, <1>4, <1>5, <1>6 DEF Next

\* A note is registered only if some buffer was quiet after the onset of the
\* last note sent (audio_processing.c:101-111, 164-166).
THEOREM SoundIsOneNote == Spec => OneNotePerSound
<1>1. EdgeInv /\ [Next]_vars =>
         [~register_note /\ register_note' => sent = -1 \/ sent < quiet]_vars
  <2> SUFFICES ASSUME EdgeInv, Next, ~register_note, register_note'
               PROVE  sent = -1 \/ sent < quiet
    BY Zenon
  <2>1. PICK v \in Volume : Capture(v)
    BY Zenon DEF Next, TurnStarts, TurnEnds, Ignore, NotFull, Window, Forget
  <2>2. ~state
    BY <2>1, Zenon DEF Capture, Rises
  <2> QED
    BY <2>2, Zenon DEF EdgeInv
<1> QED
  BY <1>1, InitEdge, NextEdge, TypeInvariant, PTL DEF Spec, OneNotePerSound

-----------------------------------------------------------------------------
(***************************************************************************)
(* From the third window on, all sound is of the player's turn.            *)
(***************************************************************************)

\* Once a window was completed in the turn, its second half and what is kept of
\* it are of the turn; once two were, all of it is.
OwnInv ==
    /\ turnStart <= clock
    /\ windows >= 1 =>
          /\ \A p \in OVERLAP_INDEX..nb_samples - 1 : input[p] >= FirstOfTurn
          /\ \A p \in 0..nb_overlap_samples - 1 :
                overlapping_samples[p] >= FirstOfTurn
    /\ windows = 2 => \A p \in 0..nb_samples - 1 : input[p] >= FirstOfTurn

\* The samples of a callback follow those of the callbacks before it.
LEMMA NewSamples ==
    ASSUME TypeInv, OwnInv, NEW i \in Nat
    PROVE  Sample(i) >= FirstOfTurn
<1> DEFINE d == clock - turnStart
<1>1. d \in Nat /\ clock = turnStart + d /\ turnStart \in Nat
  BY Halves DEF TypeInv, ScalarsOK, OwnInv
<1>2. d * BUFFER \in Nat /\ turnStart * BUFFER \in Nat
  BY <1>1, Halves
<1>3. (turnStart + d) * BUFFER = turnStart * BUFFER + d * BUFFER
  BY <1>1, Halves
<1> QED
  BY <1>1, <1>2, <1>3 DEF Sample, FirstOfTurn

LEMMA NextOwn == TypeInv /\ OwnInv /\ [Next]_vars => OwnInv'
<1> SUFFICES ASSUME TypeInv, OwnInv, [Next]_vars PROVE OwnInv'
  OBVIOUS
<1>1. CASE UNCHANGED <<turnStart, clock, windows, nb_samples,
                       nb_overlap_samples, input, overlapping_samples>>
  BY <1>1, Zenon DEF OwnInv, FirstOfTurn
<1>2. CASE TurnEnds \/ NotFull \/ UNCHANGED vars
  BY <1>2, <1>1, Zenon DEF TurnEnds, NotFull, vars, buffers, history
<1>3. /\ clock \in Nat /\ turnStart \in Nat /\ nb_samples \in Nat
      /\ nb_overlap_samples \in Nat /\ windows \in 0..2
  BY Halves DEF TypeInv, ScalarsOK
<1>4. CASE TurnStarts
  <2>1. turnStart' = clock /\ clock' = clock /\ windows' = 0
    BY <1>4, Zenon DEF TurnStarts
  <2> QED
    BY <1>3, <2>1 DEF OwnInv
<1>5. CASE Ignore
  <2>1. clock' = clock + 1
    BY <1>5 DEF Ignore
  <2>2. turnStart <= clock'
    BY <1>3, <2>1 DEF OwnInv
  <2>3. UNCHANGED <<turnStart, windows, nb_samples, nb_overlap_samples, input,
                    overlapping_samples>>
    BY <1>5, Zenon DEF Ignore, buffers, history
  <2> QED
    BY <2>2, <2>3, Zenon DEF OwnInv, FirstOfTurn
<1>6. CASE \E v \in Volume : Capture(v)
  <2>1. PICK v \in Volume : Capture(v)
    BY <1>6
  <2>2. /\ Taken \in 1..BUFFER /\ nb_samples + Taken <= FFT_SIZE
        /\ FirstKept \in nb_samples..FFT_SIZE /\ Kept \in Nat
        /\ nb_overlap_samples + Kept = Most(0, nb_samples + Taken - OVERLAP_INDEX)
    BY <2>1, TakenFits DEF Capture, TypeInv
  <2>3. /\ turnStart' = turnStart /\ windows' = windows /\ clock' = clock + 1
        /\ nb_samples' = nb_samples + Taken
        /\ nb_overlap_samples' = nb_overlap_samples + Kept
    BY <2>1 DEF Capture, Fill
  <2>4. turnStart' <= clock'
    BY <1>3, <2>3 DEF OwnInv
  <2>5. \A p \in 0..nb_samples' - 1 :
           \/ input'[p] = input[p] /\ p < nb_samples
           \/ input'[p] >= FirstOfTurn
    <3> SUFFICES ASSUME NEW p \in 0..nb_samples' - 1, p >= nb_samples
                 PROVE  input'[p] >= FirstOfTurn
      <4>1. ASSUME NEW p \in 0..nb_samples' - 1, p < nb_samples
            PROVE  input'[p] = input[p]
        BY <1>3, <2>1, <2>2, <2>3, <4>1, Halves DEF Capture, Fill
      <4> QED
        BY <1>3, <2>2, <2>3, <4>1
    <3>1. p \in nb_samples..nb_samples + Taken - 1 /\ p \in 0..FFT_SIZE - 1
          /\ p - nb_samples \in Nat
      BY <1>3, <2>2, <2>3, Halves
    <3>2. input'[p] = Sample(p - nb_samples)
      BY <2>1, <3>1 DEF Capture, Fill
    <3> QED
      BY <3>1, <3>2, NewSamples
  <2>6. \A p \in 0..nb_overlap_samples' - 1 :
           \/ /\ overlapping_samples'[p] = overlapping_samples[p]
              /\ p < nb_overlap_samples
           \/ overlapping_samples'[p] >= FirstOfTurn
    <3>0. nb_overlap_samples' <= OVERLAP_BUFFER_SIZE
      BY <1>3, <2>2, <2>3, Halves DEF Most
    <3> SUFFICES ASSUME NEW p \in 0..nb_overlap_samples' - 1,
                        p >= nb_overlap_samples
                 PROVE  overlapping_samples'[p] >= FirstOfTurn
      <4>1. ASSUME NEW p \in 0..nb_overlap_samples' - 1, p < nb_overlap_samples
            PROVE  overlapping_samples'[p] = overlapping_samples[p]
        BY <1>3, <2>1, <2>2, <2>3, <3>0, <4>1, Halves DEF Capture, Fill
      <4> QED
        BY <1>3, <2>2, <2>3, <4>1
    <3>1. /\ p \in nb_overlap_samples..nb_overlap_samples + Kept - 1
          /\ p \in 0..OVERLAP_BUFFER_SIZE - 1
          /\ FirstKept - nb_samples + p - nb_overlap_samples \in Nat
      BY <1>3, <2>2, <2>3, <3>0, Halves
    <3>2. overlapping_samples'[p]
            = Sample(FirstKept - nb_samples + p - nb_overlap_samples)
      BY <2>1, <3>1 DEF Capture, Fill
    <3> QED
      BY <3>1, <3>2, NewSamples
  <2>7. FirstOfTurn' = FirstOfTurn
    BY <2>3 DEF FirstOfTurn
  <2>8. ASSUME windows' >= 1
        PROVE  \A p \in OVERLAP_INDEX..nb_samples' - 1 : input'[p] >= FirstOfTurn
    BY <1>3, <2>2, <2>3, <2>5, <2>8, Halves DEF OwnInv
  <2>9. ASSUME windows' >= 1
        PROVE  \A p \in 0..nb_overlap_samples' - 1 :
                  overlapping_samples'[p] >= FirstOfTurn
    BY <1>3, <2>2, <2>3, <2>6, <2>9 DEF OwnInv
  <2>10. ASSUME windows' = 2
         PROVE  \A p \in 0..nb_samples' - 1 : input'[p] >= FirstOfTurn
    BY <1>3, <2>2, <2>3, <2>5, <2>10 DEF OwnInv
  <2> QED
    BY <2>4, <2>7, <2>8, <2>9, <2>10, Zenon DEF OwnInv
<1>7. CASE Window
  <2>1. /\ turnStart' = turnStart /\ clock' = clock
        /\ windows' = Least(windows + 1, 2)
        /\ nb_samples' = OVERLAP_INDEX /\ nb_overlap_samples' = 0
    BY <1>7, Halves DEF Window, StartNext
  <2>2. nb_overlap_samples = OVERLAP_INDEX
    BY <1>7, Halves DEF Window, Full, TypeInv, CountInv, ScalarsOK, Most
  <2>3. \A p \in 0..nb_samples' - 1 : input'[p] = overlapping_samples[p]
    BY <1>7, <2>1, Halves DEF Window, StartNext
  <2>4. FirstOfTurn' = FirstOfTurn
    BY <2>1 DEF FirstOfTurn
  <2>5. ASSUME windows' = 2
        PROVE  \A p \in 0..nb_samples' - 1 : input'[p] >= FirstOfTurn
    <3>1. windows >= 1
      BY <1>3, <2>1, <2>5 DEF Least
    <3> QED
      BY <1>3, <2>1, <2>2, <2>3, <3>1 DEF OwnInv
  <2>6. /\ \A p \in OVERLAP_INDEX..nb_samples' - 1 : FALSE
        /\ \A p \in 0..nb_overlap_samples' - 1 : FALSE
    BY <2>1, Halves
  <2> QED
    BY <2>1, <2>4, <2>5, <2>6, Zenon DEF OwnInv
<1> QED
  BY <1>2, <1>4, <1>5, <1>6, <1>7 DEF Next

\* What is left of an earlier turn is gone with the second window
\* (audio_processing.c:127-133).
THEOREM SoundIsOwn == Spec => []OwnSoundFromThirdWindow
<1>1. Init => OwnInv
  BY DEF Init, OwnInv
<1>2. TypeInv /\ OwnInv => OwnSoundFromThirdWindow
  <2> SUFFICES ASSUME TypeInv, OwnInv, Full, windows = 2,
                      NEW p \in 0..FFT_SIZE - 1
               PROVE  input[p] >= FirstOfTurn
    BY DEF OwnSoundFromThirdWindow
  <2>1. p \in 0..nb_samples - 1
    BY Halves DEF Full, TypeInv, ScalarsOK
  <2> QED
    BY <2>1 DEF OwnInv
<1> QED
  BY <1>1, <1>2, NextOwn, TypeInvariant, PTL DEF Spec

-----------------------------------------------------------------------------
(***************************************************************************)
(* A window is a recording.                                                *)
(***************************************************************************)

\* The overlap buffer is a copy of the second half of the window.
CopyInv ==
    \A q \in 0..nb_overlap_samples - 1 :
        overlapping_samples[q] = input[OVERLAP_INDEX + q]

\* The first sample of the next callback.
NextSample == clock * BUFFER

\* The last sample in the window was recorded before the next callback: while
\* a turn is played it is the one just before it, or the rest of its buffer
\* was dropped with a full window, or it is of an earlier turn.
LastInv ==
    nb_samples > 0 =>
        /\ input[nb_samples - 1] < NextSample
        /\ playing =>
              \/ input[nb_samples - 1] = NextSample - 1
              \/ /\ nb_samples \in {OVERLAP_INDEX, FFT_SIZE}
                 /\ input[nb_samples - 1] >= NextSample - BUFFER
              \/ input[nb_samples - 1] < FirstOfTurn

OrderInv == CopyInv /\ LastInv /\ WindowInOrder

\* The two ways a sample may follow another within a half of the window.
Follows(a, b) == b = a + 1 \/ (b > a /\ a < FirstOfTurn)

LEMMA OrderMeans ==
    WindowInOrder <=>
        \A p \in 1..nb_samples - 1 :
            \/ Follows(input[p - 1], input[p])
            \/ /\ p = OVERLAP_INDEX
               /\ input[p] \in input[p - 1] + 1..input[p - 1] + BUFFER
BY DEF WindowInOrder, Follows

\* The samples of a turn begin after those of the turns before.
LEMMA TurnBegins ==
    ASSUME TypeInv, OwnInv
    PROVE  /\ NextSample \in Int /\ FirstOfTurn \in Int
           /\ FirstOfTurn <= NextSample
           /\ (clock + 1) * BUFFER = NextSample + BUFFER
<1>1. clock \in Nat /\ turnStart \in Nat
  BY Halves DEF TypeInv, ScalarsOK
<1>2. NextSample \in Int /\ FirstOfTurn \in Int
  BY <1>1, Halves DEF NextSample, FirstOfTurn
<1>3. FirstOfTurn <= NextSample
  <2>1. Sample(0) = NextSample
    BY <1>2 DEF Sample, NextSample
  <2>2. Sample(0) >= FirstOfTurn
    BY NewSamples
  <2> QED BY <1>2, <2>1, <2>2
<1>4. (clock + 1) * BUFFER = NextSample + BUFFER
  BY <1>1, Halves DEF NextSample
<1> QED BY <1>2, <1>3, <1>4

\* What a callback appends to the window and to the overlap buffer.
LEMMA Captured ==
    ASSUME TypeInv, NEW v \in Volume, Capture(v)
    PROVE  /\ Taken \in 1..BUFFER /\ nb_samples' = nb_samples + Taken
           /\ nb_samples \in 0..FFT_SIZE - 1 /\ nb_samples' \in 1..FFT_SIZE
           /\ Taken < BUFFER => nb_samples' = FFT_SIZE
           /\ \A p \in 0..nb_samples - 1 : input'[p] = input[p]
           /\ \A p \in nb_samples..nb_samples' - 1 :
                 input'[p] = NextSample + (p - nb_samples)
           /\ CopyInv => CopyInv'
<1> USE Halves
<1>0. pc = "callback" /\ ScalarsOK /\ CountInv /\ Fill
  BY DEF Capture, TypeInv
<1>1. nb_samples \in 0..FFT_SIZE - 1
  BY <1>0 DEF ScalarsOK, CountInv
<1>2. /\ Taken \in 1..BUFFER /\ nb_samples + Taken <= FFT_SIZE
      /\ FirstKept \in nb_samples..FFT_SIZE /\ Kept \in Nat
      /\ nb_overlap_samples + Kept = Most(0, nb_samples + Taken - OVERLAP_INDEX)
      /\ nb_samples' = nb_samples + Taken
      /\ nb_overlap_samples' = nb_overlap_samples + Kept
  BY <1>0, TakenFits DEF Fill
<1>3. Taken < BUFFER => nb_samples' = FFT_SIZE
  BY <1>1, <1>2 DEF Taken, Least, Most
<1>4. \A p \in 0..FFT_SIZE - 1 :
         input'[p] = IF p \in nb_samples..nb_samples + Taken - 1
                     THEN Sample(p - nb_samples) ELSE input[p]
  BY <1>0 DEF Fill
<1>5. \A p \in 0..nb_samples - 1 : input'[p] = input[p]
  BY <1>1, <1>4
<1>6. \A p \in nb_samples..nb_samples' - 1 :
         input'[p] = NextSample + (p - nb_samples)
  BY <1>1, <1>2, <1>4 DEF Sample, NextSample
<1>7. ASSUME CopyInv PROVE CopyInv'
  <2> SUFFICES ASSUME NEW q \in 0..nb_overlap_samples' - 1
               PROVE  overlapping_samples'[q] = input'[OVERLAP_INDEX + q]
    BY DEF CopyInv
  <2>1. /\ nb_overlap_samples = Most(0, nb_samples - OVERLAP_INDEX)
        /\ nb_overlap_samples \in Nat
        /\ FirstKept - nb_overlap_samples = OVERLAP_INDEX
    BY <1>0, <1>1 DEF CountInv, ScalarsOK, FirstKept, Most
  <2>2. /\ q \in 0..OVERLAP_BUFFER_SIZE - 1
        /\ OVERLAP_INDEX + q \in 0..nb_samples' - 1
    BY <1>1, <1>2, <2>1 DEF Most
  <2>3. overlapping_samples'[q] =
           IF q \in nb_overlap_samples..nb_overlap_samples + Kept - 1
           THEN Sample(FirstKept - nb_samples + q - nb_overlap_samples)
           ELSE overlapping_samples[q]
    BY <1>0, <2>2 DEF Fill
  <2>4. CASE q < nb_overlap_samples
    <3>1. overlapping_samples'[q] = overlapping_samples[q]
      BY <2>1, <2>3, <2>4
    <3>2. OVERLAP_INDEX + q \in 0..nb_samples - 1
      BY <1>1, <2>1, <2>2, <2>4 DEF Most
    <3> QED BY <1>5, <1>7, <2>1, <2>4, <3>1, <3>2 DEF CopyInv
  <2>5. CASE q >= nb_overlap_samples
    <3>1. q \in nb_overlap_samples..nb_overlap_samples + Kept - 1
      BY <1>2, <2>1, <2>5
    <3>2. FirstKept - nb_samples + q - nb_overlap_samples
            = OVERLAP_INDEX + q - nb_samples
      BY <1>1, <1>2, <2>1
    <3> DEFINE r == OVERLAP_INDEX + q
    <3>3. PICK k \in Int : /\ k = r - nb_samples
                           /\ k = FirstKept - nb_samples + q - nb_overlap_samples
      BY <1>1, <1>2, <2>1, <3>2
    <3>4. r \in nb_samples..nb_samples + Taken - 1 /\ r \in 0..FFT_SIZE - 1
      BY <1>1, <1>2, <2>1, <2>2, <2>5 DEF Most
    <3>5. overlapping_samples'[q] = Sample(k)
      BY <2>3, <3>1, <3>3, Zenon
    <3>6. input'[r] = Sample(k)
      BY <1>4, <3>3, <3>4, Zenon
    <3> QED BY <3>5, <3>6, Zenon
  <2> QED BY <2>1, <2>4, <2>5
<1> QED BY <1>1, <1>2, <1>3, <1>5, <1>6, <1>7

LEMMA NextOrder == TypeInv /\ OwnInv /\ OrderInv /\ [Next]_vars => OrderInv'
<1> SUFFICES ASSUME TypeInv, OwnInv, CopyInv, LastInv, WindowInOrder, [Next]_vars
             PROVE  OrderInv'
  BY DEF OrderInv
<1> USE Halves
<1>0. /\ NextSample \in Int /\ FirstOfTurn \in Int /\ FirstOfTurn <= NextSample
      /\ (clock + 1) * BUFFER = NextSample + BUFFER
      /\ nb_samples \in 0..FFT_SIZE
      /\ \A p \in 0..FFT_SIZE - 1 : input[p] \in Int
  BY TurnBegins DEF TypeInv, ScalarsOK, ArraysOK
<1>1. CASE UNCHANGED <<nb_samples, nb_overlap_samples, input,
                       overlapping_samples, clock, turnStart>>
           /\ (playing' => playing)
  BY <1>1, Zenon
  DEF OrderInv, CopyInv, LastInv, WindowInOrder, NextSample, FirstOfTurn
<1>2. CASE TurnEnds \/ NotFull \/ UNCHANGED vars
  <2>1. UNCHANGED <<nb_samples, nb_overlap_samples, input, overlapping_samples,
                    clock, turnStart>>
    BY <1>2, Zenon DEF TurnEnds, NotFull, vars, buffers, history
  <2>2. playing' => playing
    BY <1>2, Zenon DEF TurnEnds, NotFull, vars
  <2> QED BY <1>1, <2>1, <2>2
<1>3. CASE TurnStarts
  <2>1. UNCHANGED <<nb_samples, nb_overlap_samples, input, overlapping_samples, clock>>
    BY <1>3, Zenon DEF TurnStarts, buffers
  <2>2. FirstOfTurn' = NextSample /\ NextSample' = NextSample
    BY <1>3, <2>1 DEF TurnStarts, FirstOfTurn, NextSample
  <2>3. CopyInv' /\ LastInv'
    BY <2>1, <2>2 DEF CopyInv, LastInv
  <2>4. ASSUME NEW p \in 1..nb_samples' - 1
        PROVE  \/ Follows(input[p - 1], input[p])'
               \/ /\ p = OVERLAP_INDEX
                  /\ input'[p] \in input'[p - 1] + 1..input'[p - 1] + BUFFER
    <3>1. input[p - 1] \in Int /\ input[p] \in Int
      BY <1>0, <2>1
    <3>2. \/ Follows(input[p - 1], input[p])
          \/ /\ p = OVERLAP_INDEX
             /\ input[p] \in input[p - 1] + 1..input[p - 1] + BUFFER
      BY <2>1, OrderMeans
    <3> QED BY <1>0, <2>1, <2>2, <3>1, <3>2 DEF Follows
  <2>5. WindowInOrder'
    BY <2>4 DEF WindowInOrder, Follows
  <2> QED BY <2>3, <2>5 DEF OrderInv
<1>4. CASE Ignore
  <2>1. /\ UNCHANGED <<nb_samples, nb_overlap_samples, input, overlapping_samples,
                       turnStart, playing>>
        /\ ~playing /\ clock' = clock + 1
    BY <1>4, Zenon DEF Ignore, buffers, history
  <2>2. NextSample' = NextSample + BUFFER
    BY <1>0, <2>1 DEF NextSample
  <2>3. nb_samples > 0 => input[nb_samples - 1] \in Int
    BY <1>0
  <2>4. LastInv'
    BY <1>0, <2>1, <2>2, <2>3 DEF LastInv
  <2>5. CopyInv' /\ WindowInOrder'
    BY <2>1, Zenon DEF CopyInv, WindowInOrder, FirstOfTurn
  <2> QED BY <2>4, <2>5 DEF OrderInv
<1>5. CASE \E v \in Volume : Capture(v)
  <2>1. PICK v \in Volume : Capture(v)
    BY <1>5
  <2>2. /\ Taken \in 1..BUFFER /\ nb_samples' = nb_samples + Taken
        /\ nb_samples \in 0..FFT_SIZE - 1 /\ nb_samples' \in 1..FFT_SIZE
        /\ Taken < BUFFER => nb_samples' = FFT_SIZE
        /\ \A p \in 0..nb_samples - 1 : input'[p] = input[p]
        /\ \A p \in nb_samples..nb_samples' - 1 :
              input'[p] = NextSample + (p - nb_samples)
        /\ CopyInv'
    BY <2>1, Captured
  <2>3. clock' = clock + 1 /\ turnStart' = turnStart /\ playing
    BY <2>1 DEF Capture
  <2>4. NextSample' = NextSample + BUFFER /\ FirstOfTurn' = FirstOfTurn
    BY <1>0, <2>3 DEF NextSample, FirstOfTurn
  <2>5. LastInv'
    <3>1. input'[nb_samples' - 1] = NextSample + Taken - 1
      <4>1. nb_samples' - 1 \in nb_samples..nb_samples' - 1
            /\ (nb_samples' - 1) - nb_samples = Taken - 1
        BY <2>2
      <4> QED BY <1>0, <2>2, <4>1
    <3>2. Taken = BUFFER \/ nb_samples' = FFT_SIZE
      BY <2>2
    <3> QED BY <1>0, <2>2, <2>4, <3>1, <3>2 DEF LastInv
  <2>6. ASSUME NEW p \in 1..nb_samples' - 1
        PROVE  \/ Follows(input[p - 1], input[p])'
               \/ /\ p = OVERLAP_INDEX
                  /\ input'[p] \in input'[p - 1] + 1..input'[p - 1] + BUFFER
    <3>1. CASE p < nb_samples
      <4>1. p \in 1..nb_samples - 1 /\ p \in 0..nb_samples - 1 /\ p - 1 \in 0..nb_samples - 1
        BY <2>2, <3>1
      <4>2. input'[p] = input[p] /\ input'[p - 1] = input[p - 1]
        BY <2>2, <4>1
      <4>3. \/ Follows(input[p - 1], input[p])
            \/ /\ p = OVERLAP_INDEX
               /\ input[p] \in input[p - 1] + 1..input[p - 1] + BUFFER
        BY <4>1, OrderMeans
      <4> QED BY <2>4, <4>2, <4>3 DEF Follows
    <3>2. CASE p = nb_samples
      <4>1. p \in nb_samples..nb_samples' - 1 /\ p - 1 \in 0..nb_samples - 1 /\ nb_samples > 0
        BY <2>2, <3>2
      <4>2. input'[p] = NextSample /\ input'[p - 1] = input[p - 1]
            /\ input[p - 1] \in Int
        BY <1>0, <2>2, <3>2, <4>1
      <4>3. /\ input[p - 1] < NextSample
            /\ \/ input[p - 1] = NextSample - 1
               \/ /\ p \in {OVERLAP_INDEX, FFT_SIZE}
                  /\ input[p - 1] >= NextSample - BUFFER
               \/ input[p - 1] < FirstOfTurn
        BY <2>3, <3>2, <4>1 DEF LastInv
      <4>4. p # FFT_SIZE
        BY <2>2, <3>2
      <4> QED BY <1>0, <2>4, <4>2, <4>3, <4>4 DEF Follows
    <3>3. CASE p > nb_samples
      <4>1. p \in nb_samples..nb_samples' - 1 /\ p - 1 \in nb_samples..nb_samples' - 1
        BY <2>2, <3>3
      <4>2. input'[p] = NextSample + (p - nb_samples)
            /\ input'[p - 1] = NextSample + ((p - 1) - nb_samples)
        BY <2>2, <4>1
      <4>3. input'[p] = input'[p - 1] + 1
        BY <1>0, <2>2, <4>2
      <4> QED BY <4>3 DEF Follows
    <3> QED BY <2>2, <3>1, <3>2, <3>3
  <2>7. WindowInOrder'
    BY <2>6 DEF WindowInOrder, Follows
  <2> QED BY <2>2, <2>5, <2>7 DEF OrderInv
<1>6. CASE Window
  <2>1. /\ turnStart' = turnStart /\ clock' = clock /\ playing' = playing
        /\ nb_samples' = OVERLAP_INDEX /\ nb_overlap_samples' = 0
        /\ nb_samples = FFT_SIZE
    BY <1>6, <1>0 DEF Window, StartNext, Full
  <2>2. nb_overlap_samples = OVERLAP_INDEX
    BY <2>1, <1>0 DEF TypeInv, CountInv, Most
  <2>3. \A p \in 0..OVERLAP_INDEX - 1 : input'[p] = input[OVERLAP_INDEX + p]
    <3>1. \A p \in 0..OVERLAP_INDEX - 1 : input'[p] = overlapping_samples[p]
      BY <1>6 DEF Window, StartNext
    <3> QED BY <2>2, <3>1 DEF CopyInv
  <2>4. NextSample' = NextSample /\ FirstOfTurn' = FirstOfTurn
    BY <2>1 DEF NextSample, FirstOfTurn
  <2>5. CopyInv'
    BY <2>1 DEF CopyInv
  <2>6. LastInv'
    <3>1. input'[nb_samples' - 1] = input[nb_samples - 1]
      <4>1. OVERLAP_INDEX - 1 \in 0..OVERLAP_INDEX - 1
            /\ OVERLAP_INDEX + (OVERLAP_INDEX - 1) = nb_samples - 1
        BY <2>1
      <4> QED BY <2>1, <2>3, <4>1
    <3> QED BY <1>0, <2>1, <2>4, <3>1 DEF LastInv
  <2>7. ASSUME NEW p \in 1..nb_samples' - 1
        PROVE  Follows(input[p - 1], input[p])'
    <3>1. /\ p \in 0..OVERLAP_INDEX - 1 /\ p - 1 \in 0..OVERLAP_INDEX - 1
          /\ OVERLAP_INDEX + p \in 1..nb_samples - 1
          /\ OVERLAP_INDEX + p # OVERLAP_INDEX
          /\ OVERLAP_INDEX + (p - 1) = (OVERLAP_INDEX + p) - 1
      BY <2>1
    <3>2. Follows(input[(OVERLAP_INDEX + p) - 1], input[OVERLAP_INDEX + p])
      BY <3>1, OrderMeans
    <3>3. input'[p] = input[OVERLAP_INDEX + p]
          /\ input'[p - 1] = input[(OVERLAP_INDEX + p) - 1]
      BY <2>3, <3>1
    <3> QED BY <2>4, <3>2, <3>3 DEF Follows
  <2>8. WindowInOrder'
    BY <2>7 DEF WindowInOrder, Follows
  <2> QED BY <2>5, <2>6, <2>8 DEF OrderInv
<1> QED BY <1>2, <1>3, <1>4, <1>5, <1>6 DEF Next

\* The samples of a window are in the order of the recording and none is
\* missing but where the code drops them, for every size of the window and of
\* the buffers (audio_processing.c:137-156, 181-183).
THEOREM WindowIsInOrder == Spec => []WindowInOrder
<1>1. Init => OwnInv /\ OrderInv
  BY Halves DEF Init, OwnInv, OrderInv, CopyInv, LastInv, WindowInOrder
<1>2. OrderInv => WindowInOrder
  BY DEF OrderInv
<1> QED BY <1>1, <1>2, NextOwn, NextOrder, TypeInvariant, PTL DEF Spec

=============================================================================
