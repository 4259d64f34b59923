---------------------------- MODULE Photo_proofs ----------------------------
(***************************************************************************)
(* Proofs about Photo, for strips of any height, pictures of any size, any *)
(* number of photos, and whatever the camera does.                         *)
(***************************************************************************)
EXTENDS Photo, TLAPS

\* The semaphore calls return semaphores.
LEMMA SemTypes ==
    ASSUME NEW s \in Semaphore, NEW t \in Thread
    PROVE  /\ SemWait(s, t) \in Semaphore
           /\ BSemSignal(s) \in Semaphore
BY DEF Semaphore, SemWait, SemBlocks, BSemSignal, SemSignal, SemWakes

\* The two threads are different.
LEMMA Threads == Game \in Thread /\ PhotoThd \in Thread /\ Game # PhotoThd
BY PhotoThreadsAssumption

\* What a step of a thread does to the states and places of both.
LEMMA ContinueEffect ==
    ASSUME TypeOK, NEW t \in Thread, NEW s \in TState, NEW l, NEW T, Continue(t, s, l, T)
    PROVE  /\ state' \in [Thread -> TState] /\ state'[t] = s
           /\ DOMAIN pc' = Thread /\ pc'[t] = l
           /\ \A u \in Thread \ {t} :
                 /\ pc'[u] = pc[u]
                 /\ state'[u] = IF u \in T THEN "READY" ELSE state[u]
BY DEF TypeOK, Continue, Ready, TState, ThreadState

\* The thread types after a step of one of them.
LEMMA GameContinues ==
    ASSUME TypeOK, NEW s \in TState, NEW l \in GamePc, NEW T,
           Continue(Game, s, l, T)
    PROVE  /\ state' \in [Thread -> TState]
           /\ pc' \in [Thread -> GamePc \cup PhotoPc]
           /\ pc'[Game] \in GamePc /\ pc'[PhotoThd] \in PhotoPc
BY Threads DEF TypeOK, Continue, Ready, TState, ThreadState

LEMMA PhotoContinues ==
    ASSUME TypeOK, NEW s \in TState, NEW l \in PhotoPc, NEW T,
           Continue(PhotoThd, s, l, T)
    PROVE  /\ state' \in [Thread -> TState]
           /\ pc' \in [Thread -> GamePc \cup PhotoPc]
           /\ pc'[Game] \in GamePc /\ pc'[PhotoThd] \in PhotoPc
BY Threads DEF TypeOK, Continue, Ready, TState, ThreadState

\* The scheduler only adds ready threads.
LEMMA ReadyType ==
    ASSUME TypeOK, NEW T
    PROVE  Ready(state, T) \in [Thread -> TState]
BY DEF TypeOK, Ready, TState, ThreadState

-----------------------------------------------------------------------------
(***************************************************************************)
(* Type correctness.                                                       *)
(***************************************************************************)
LEMMA InitType == Init => TypeOK
<1> SUFFICES ASSUME Init PROVE TypeOK
  OBVIOUS
<1>1. state \in [Thread -> TState]
  BY DEF Init, TState, ThreadState
<1>2. /\ pc \in [Thread -> GamePc \cup PhotoPc]
      /\ pc[Game] \in GamePc /\ pc[PhotoThd] \in PhotoPc
  BY Threads DEF Init, GamePc, PhotoPc
<1>3. photo_finished_sem \in Semaphore
  BY DEF Init, SemInit, Semaphore
<1>4. line_cnt \in 0..(MAX_LINES_2_SEND + PHOTO_HEIGHT)
      /\ window \in 0..(MAX_LINES_2_SEND + PHOTO_HEIGHT)
      /\ row \in 0..PHOTO_HEIGHT /\ photos \in 0..MaxPhotos
  BY PhotoAssumption DEF Init
<1>5. /\ image_buff \in [Buffer -> Pointer] /\ image \in [Buffer -> Int]
      /\ filling \in Buffer /\ dcmi \in DcmiState
  BY DEF Init, Buffer, Pointer, NOTHING, DcmiState
<1>6. /\ terminate \in BOOLEAN /\ send \in BOOLEAN
      /\ dcmi_prepared \in BOOLEAN /\ halted \in BOOLEAN
  BY DEF Init
<1>7. sent \in Seq(Int)
  BY DEF Init
<1> QED BY <1>1, <1>2, <1>3, <1>4, <1>5, <1>6, <1>7 DEF TypeOK

\* Every step of gameThd keeps the types.
LEMMA GameType == TypeOK /\ (GameStep \/ GameComesBack) => TypeOK'
<1> SUFFICES ASSUME TypeOK, GameStep \/ GameComesBack PROVE TypeOK'
  OBVIOUS
<1> USE Threads DEF photoVars, driver, heap, history
<1>1. CASE GamePhotoInit
  <2>1. /\ state' \in [Thread -> TState]
        /\ pc' \in [Thread -> GamePc \cup PhotoPc]
        /\ pc'[Game] \in GamePc /\ pc'[PhotoThd] \in PhotoPc
    BY <1>1 DEF GamePhotoInit, TypeOK, TState, ThreadState, GamePc, PhotoPc
  <2>2. photos' \in 0..MaxPhotos
    BY <1>1, PhotoAssumption DEF GamePhotoInit, TypeOK
  <2>3. sent' \in Seq(Int)
    BY <1>1 DEF GamePhotoInit
  <2> QED BY <1>1, <2>1, <2>2, <2>3 DEF GamePhotoInit, TypeOK
<1>2. CASE GamePhotoWaitFinish
  <2>1. /\ state' \in [Thread -> TState]
        /\ pc' \in [Thread -> GamePc \cup PhotoPc]
        /\ pc'[Game] \in GamePc /\ pc'[PhotoThd] \in PhotoPc
    BY <1>2, GameContinues DEF GamePhotoWaitFinish, TState, ThreadState, GamePc
  <2>2. photo_finished_sem' \in Semaphore
    BY <1>2, SemTypes DEF GamePhotoWaitFinish, TypeOK
  <2> QED BY <1>2, <2>1, <2>2 DEF GamePhotoWaitFinish, TypeOK
<1>3. CASE GamePhotoTerminate
  <2>1. /\ state' \in [Thread -> TState]
        /\ pc' \in [Thread -> GamePc \cup PhotoPc]
        /\ pc'[Game] \in GamePc /\ pc'[PhotoThd] \in PhotoPc
    BY <1>3, GameContinues DEF GamePhotoTerminate, TState, ThreadState, GamePc
  <2> QED BY <1>3, <2>1 DEF GamePhotoTerminate, TypeOK
<1>4. CASE GamePhotoFree
  <2>1. CASE Halt
    BY <2>1 DEF Halt, TypeOK
  <2>2. CASE ~Halt
    <3>1. /\ state' \in [Thread -> TState]
          /\ pc' \in [Thread -> GamePc \cup PhotoPc]
          /\ pc'[Game] \in GamePc /\ pc'[PhotoThd] \in PhotoPc
      BY <1>4, <2>2, GameContinues DEF GamePhotoFree, TState, ThreadState, GamePc
    <3>2. image_buff' \in [Buffer -> Pointer] /\ image' \in [Buffer -> Int]
      BY <1>4, <2>2 DEF GamePhotoFree, Pointer, NOTHING
    <3> QED BY <1>4, <2>2, <3>1, <3>2 DEF GamePhotoFree, TypeOK
  <2> QED BY <2>1, <2>2
<1>5. CASE GameComesBack
  BY <1>5, ReadyType DEF GameComesBack, TypeOK
<1> QED BY <1>1, <1>2, <1>3, <1>4, <1>5 DEF GameStep

\* The counter of lines after one more strip, and the loop's rows.
LEMMA Counting ==
    ASSUME TypeOK
    PROVE  /\ line_cnt <= MAX_LINES_2_SEND =>
                 line_cnt + PHOTO_HEIGHT \in 0..(MAX_LINES_2_SEND + PHOTO_HEIGHT)
           /\ row < PHOTO_HEIGHT => row + 1 \in 0..PHOTO_HEIGHT
           /\ 0 \in 0..PHOTO_HEIGHT
BY PhotoAssumption DEF TypeOK

\* photoThd sends a row only while there is one left.
RowLeft == pc[PhotoThd] = "send" => row < PHOTO_HEIGHT

\* Every step of photoThd keeps the types.
LEMMA PhotoType == TypeOK /\ RowLeft /\ PhotoStep => TypeOK'
<1> SUFFICES ASSUME TypeOK, RowLeft, PhotoStep PROVE TypeOK'
  OBVIOUS
<1> USE Threads DEF photoVars, driver, heap, history
<1>1. CASE PhotoStart
  <2>1. CASE Halt
    BY <2>1 DEF Halt, TypeOK
  <2>2. CASE ~Halt
    <3>1. /\ state' \in [Thread -> TState]
          /\ pc' \in [Thread -> GamePc \cup PhotoPc]
          /\ pc'[Game] \in GamePc /\ pc'[PhotoThd] \in PhotoPc
      BY <1>1, <2>2, PhotoContinues DEF PhotoStart, TState, ThreadState, PhotoPc
    <3>2. image_buff' \in [Buffer -> Pointer] /\ image' \in [Buffer -> Int]
      BY <1>1, <2>2 DEF PhotoStart, Allocate, Pointer, NOTHING, TypeOK
    <3>3. dcmi' \in DcmiState
      BY <1>1, <2>2 DEF PhotoStart, DcmiState
    <3> QED BY <1>1, <2>2, <3>1, <3>2, <3>3 DEF PhotoStart, TypeOK
  <2> QED BY <2>1, <2>2
<1>2. CASE PhotoDoubleBuffer
  <2>1. CASE Halt
    BY <2>1 DEF Halt, TypeOK
  <2>2. CASE ~Halt
    <3>1. /\ state' \in [Thread -> TState]
          /\ pc' \in [Thread -> GamePc \cup PhotoPc]
          /\ pc'[Game] \in GamePc /\ pc'[PhotoThd] \in PhotoPc
      BY <1>2, <2>2, PhotoContinues DEF PhotoDoubleBuffer, TState, ThreadState, PhotoPc
    <3>2. image_buff' \in [Buffer -> Pointer] /\ image' \in [Buffer -> Int]
      BY <1>2, <2>2 DEF PhotoDoubleBuffer, Allocate, Pointer, NOTHING, TypeOK
    <3> QED BY <1>2, <2>2, <3>1, <3>2 DEF PhotoDoubleBuffer, TypeOK
  <2> QED BY <2>1, <2>2
<1>3. CASE PhotoWhile
  <2>1. /\ state' \in [Thread -> TState]
        /\ pc' \in [Thread -> GamePc \cup PhotoPc]
        /\ pc'[Game] \in GamePc /\ pc'[PhotoThd] \in PhotoPc
    BY <1>3, PhotoContinues DEF PhotoWhile, TState, ThreadState, PhotoPc
  <2>2. window' \in 0..(MAX_LINES_2_SEND + PHOTO_HEIGHT)
    BY <1>3 DEF PhotoWhile, TypeOK
  <2> QED BY <1>3, <2>1, <2>2 DEF PhotoWhile, TypeOK
<1>4. CASE PhotoCapture
  <2>1. CASE Halt
    BY <2>1 DEF Halt, TypeOK
  <2>2. CASE ~Halt
    <3>1. /\ state' \in [Thread -> TState]
          /\ pc' \in [Thread -> GamePc \cup PhotoPc]
          /\ pc'[Game] \in GamePc /\ pc'[PhotoThd] \in PhotoPc
      BY <1>4, <2>2, PhotoContinues DEF PhotoCapture, TState, ThreadState, PhotoPc
    <3>2. dcmi' \in DcmiState /\ filling' \in Buffer /\ dcmi_prepared' \in BOOLEAN
      BY <1>4, <2>2 DEF PhotoCapture, DcmiState, Buffer
    <3> QED BY <1>4, <2>2, <3>1, <3>2 DEF PhotoCapture, TypeOK
  <2> QED BY <2>1, <2>2
<1>5. CASE PhotoWaitImage
  <2>1. /\ state' \in [Thread -> TState]
        /\ pc' \in [Thread -> GamePc \cup PhotoPc]
        /\ pc'[Game] \in GamePc /\ pc'[PhotoThd] \in PhotoPc
    BY <1>5, PhotoContinues DEF PhotoWaitImage, TState, ThreadState, PhotoPc
  <2> QED BY <1>5, <2>1 DEF PhotoWaitImage, TypeOK
<1>6. CASE PhotoStrip
  <2>1. /\ state' \in [Thread -> TState]
        /\ pc' \in [Thread -> GamePc \cup PhotoPc]
        /\ pc'[Game] \in GamePc /\ pc'[PhotoThd] \in PhotoPc
    BY <1>6, PhotoContinues DEF PhotoStrip, TState, ThreadState, PhotoPc
  <2>2. photo_finished_sem' \in Semaphore
    BY <1>6, SemTypes DEF PhotoStrip, TypeOK
  <2>3. line_cnt' \in 0..(MAX_LINES_2_SEND + PHOTO_HEIGHT) /\ row' \in 0..PHOTO_HEIGHT
    BY <1>6, Counting DEF PhotoStrip
  <2> QED BY <1>6, <2>1, <2>2, <2>3 DEF PhotoStrip, TypeOK
<1>7. CASE PhotoFinished
  <2>1. /\ state' \in [Thread -> TState]
        /\ pc' \in [Thread -> GamePc \cup PhotoPc]
        /\ pc'[Game] \in GamePc /\ pc'[PhotoThd] \in PhotoPc
    BY <1>7, PhotoContinues DEF PhotoFinished, TState, ThreadState, PhotoPc
  <2>2. photo_finished_sem' \in Semaphore
    BY <1>7, SemTypes DEF PhotoFinished, TypeOK
  <2>3. send' \in BOOLEAN
    BY <1>7 DEF PhotoFinished
  <2> QED BY <1>7, <2>1, <2>2, <2>3 DEF PhotoFinished, TypeOK
<1>8. CASE PhotoSend
  <2>1. /\ state' \in [Thread -> TState]
        /\ pc' \in [Thread -> GamePc \cup PhotoPc]
        /\ pc'[Game] \in GamePc /\ pc'[PhotoThd] \in PhotoPc
    BY <1>8, PhotoContinues DEF PhotoSend, TState, ThreadState, PhotoPc
  <2>2. row' \in 0..PHOTO_HEIGHT
    BY <1>8, Counting DEF PhotoSend, At, RowLeft
  <2>3. sent' \in Seq(Int)
    <3>1. LastImage \in Buffer /\ NOTHING \in Int
      BY DEF LastImage, Buffer, NOTHING
    <3>2. \A n \in 0..PHOTO_HEIGHT, i \in Int : i + n \in Int
      BY PhotoAssumption
    <3>3. image[LastImage] + row \in Int
      BY <3>1, <3>2 DEF TypeOK
    <3> QED BY <1>8, <3>1, <3>3 DEF PhotoSend, TypeOK
  <2> QED BY <1>8, <2>1, <2>2, <2>3 DEF PhotoSend, TypeOK
<1> QED BY <1>1, <1>2, <1>3, <1>4, <1>5, <1>6, <1>7, <1>8 DEF PhotoStep

\* Every interrupt keeps the types.
LEMMA DevicesType == TypeOK /\ Devices => TypeOK'
<1> SUFFICES ASSUME TypeOK, Devices PROVE TypeOK'
  OBVIOUS
<1> USE DEF photoVars, driver, heap, history
<1>1. CASE I2cDone
  BY <1>1, ReadyType DEF I2cDone, TypeOK
<1>2. CASE SerialDone
  BY <1>2, ReadyType DEF SerialDone, TypeOK
<1>3. CASE FrameEnd
  <2>1. filling' \in Buffer /\ dcmi' \in DcmiState
    BY <1>3 DEF FrameEnd, Buffer, DcmiState, TypeOK
  <2>2. image' \in [Buffer -> Int]
    <3>1. window \in Int
      BY PhotoAssumption DEF TypeOK
    <3> QED BY <1>3, <3>1 DEF FrameEnd, TypeOK
  <2> QED BY <1>3, <2>1, <2>2, ReadyType DEF FrameEnd, TypeOK
<1>4. CASE CameraError
  BY <1>4 DEF CameraError, DcmiState, TypeOK
<1> QED BY <1>1, <1>2, <1>3, <1>4 DEF Devices

-----------------------------------------------------------------------------
(***************************************************************************)
(* Where the threads wait.                                                 *)
(***************************************************************************)

\* The queue of photo_finished_sem holds gameThd when that waits for it.
SemInv ==
    \/ /\ photo_finished_sem.queue = << >> /\ photo_finished_sem.cnt \in {0, 1}
       /\ state[Game] # "WTSEM"
    \/ /\ photo_finished_sem.queue = <<Game>> /\ photo_finished_sem.cnt = -1
       /\ state[Game] = "WTSEM" /\ pc[Game] = "terminate"

\* photoThd is woken from the wait for an image by the end of the frame only,
\* a capture is under way in two places only, and a photo begins when the
\* thread of the last one has ended.
WaitInv ==
    /\ RowLeft
    /\ pc[PhotoThd] = "image" =>
          \/ state[PhotoThd] = "WTCOND"
          \/ state[PhotoThd] = "READY" /\ dcmi = "READY"
    /\ pc[PhotoThd] = "exited" <=> state[PhotoThd] \in {"FINAL", "WTSTART"}
    /\ dcmi = "ACTIVE_ONESHOT" => pc[PhotoThd] \in {"wait_image", "image"}
    /\ pc[Game] = "photo_init" =>
          state[Game] = "SLEEPING" \/ pc[PhotoThd] = "exited"

\* What a signal does to the semaphore and to gameThd.
LEMMA Signalling ==
    ASSUME SemInv, TypeOK
    PROVE  /\ BSemSignal(photo_finished_sem).queue = << >>
           /\ BSemSignal(photo_finished_sem).cnt \in {0, 1}
           /\ BSemSignalled(photo_finished_sem) =
                 IF state[Game] = "WTSEM" THEN {Game} ELSE {}
           /\ BSemSignal(BSemSignal(photo_finished_sem)).queue = << >>
           /\ BSemSignal(BSemSignal(photo_finished_sem)).cnt \in {0, 1}
           /\ BSemSignalled(BSemSignal(photo_finished_sem)) = {}
<1>1. CASE state[Game] # "WTSEM"
  BY <1>1 DEF SemInv, TypeOK, Semaphore, BSemSignal, BSemSignalled, SemSignal,
              SemSignalled, SemWakes
<1>2. CASE state[Game] = "WTSEM"
  <2>1. photo_finished_sem.queue = <<Game>> /\ photo_finished_sem.cnt = -1
    BY <1>2 DEF SemInv
  <2> DEFINE one == [cnt |-> 0, queue |-> << >>]
  <2>2. Head(<<Game>>) = Game /\ Tail(<<Game>>) = << >> /\ <<Game>> # << >>
    OBVIOUS
  <2>3. SemWakes(photo_finished_sem)
    BY <2>1, <2>2 DEF SemWakes
  <2>4. BSemSignal(photo_finished_sem) = one
    BY <2>1, <2>2, <2>3 DEF BSemSignal, SemSignal
  <2>5. BSemSignalled(photo_finished_sem) = {Game}
    BY <2>1, <2>2, <2>3 DEF BSemSignalled, SemSignalled
  <2>6. BSemSignal(one) = [cnt |-> 1, queue |-> << >>] /\ BSemSignalled(one) = {}
    BY DEF BSemSignal, BSemSignalled, SemSignal, SemSignalled, SemWakes
  <2> QED BY <1>2, <2>4, <2>5, <2>6
<1> QED BY <1>1, <1>2

\* Every step keeps both.
LEMMA WaitStep ==
    TypeOK /\ SemInv /\ WaitInv /\ [Next]_vars => (SemInv /\ WaitInv)'
<1> SUFFICES ASSUME TypeOK, SemInv, WaitInv, [Next]_vars PROVE (SemInv /\ WaitInv)'
  OBVIOUS
<1> USE Threads DEF photoVars, driver, heap, history
<1> DEFINE P == PhotoThd
<1>0. /\ DOMAIN state = Thread /\ DOMAIN pc = Thread
      /\ pc[PhotoThd] \in PhotoPc /\ pc[Game] \in GamePc
  BY DEF TypeOK
<1>1. CASE GamePhotoInit
  <2>1. /\ state'[P] = "READY" /\ pc'[P] = "start" /\ pc'[Game] = "wait_finish"
        /\ state'[Game] = state[Game] /\ dcmi' = dcmi /\ row' = row
        /\ photo_finished_sem' = photo_finished_sem
    BY <1>0, <1>1 DEF GamePhotoInit
  <2>2. state[Game] = "READY" /\ pc[Game] = "photo_init"
    BY <1>1 DEF GamePhotoInit, At, MayRun
  <2>3. SemInv'
    BY <2>1, <2>2 DEF SemInv
  <2>4. WaitInv'
    BY <2>1, <2>2 DEF WaitInv, RowLeft
  <2> QED BY <2>3, <2>4
<1>2. CASE GamePhotoWaitFinish
  <2>1. state[Game] = "READY"
    BY <1>2 DEF GamePhotoWaitFinish, At, MayRun
  <2>2. /\ state'[P] = state[P] /\ pc'[P] = pc[P] /\ pc'[Game] = "terminate"
        /\ state'[Game] = IF SemBlocks(photo_finished_sem) THEN "WTSEM" ELSE "READY"
        /\ photo_finished_sem' = SemWait(photo_finished_sem, Game)
        /\ dcmi' = dcmi /\ row' = row
    BY <1>0, <1>2 DEF GamePhotoWaitFinish, Continue, Ready
  <2>3. photo_finished_sem.queue = << >> /\ photo_finished_sem.cnt \in {0, 1}
    BY <2>1 DEF SemInv
  <2>4. SemInv'
    <3>1. CASE photo_finished_sem.cnt = 0
      BY <2>2, <2>3, <3>1 DEF SemInv, SemWait, SemBlocks
    <3>2. CASE photo_finished_sem.cnt = 1
      BY <2>2, <2>3, <3>2 DEF SemInv, SemWait, SemBlocks
    <3> QED BY <2>3, <3>1, <3>2
  <2>5. WaitInv'
    BY <2>2 DEF WaitInv, RowLeft
  <2> QED BY <2>4, <2>5
<1>3. CASE GamePhotoTerminate
  <2>1. state[Game] = "READY"
    BY <1>3 DEF GamePhotoTerminate, At, MayRun
  <2>2. /\ state'[P] = state[P] /\ pc'[P] = pc[P] /\ pc'[Game] = "free"
        /\ state'[Game] = "READY" /\ photo_finished_sem' = photo_finished_sem
        /\ dcmi' = dcmi /\ row' = row
    BY <1>0, <1>3 DEF GamePhotoTerminate, Continue, Ready
  <2> QED BY <2>1, <2>2 DEF SemInv, WaitInv, RowLeft
<1>4. CASE GamePhotoFree
  <2>1. CASE Halt
    BY <2>1 DEF Halt, SemInv, WaitInv, RowLeft
  <2>2. CASE ~Halt
    <3>1. state[Game] = "READY"
      BY <1>4 DEF GamePhotoFree, At, MayRun
    <3>2. /\ state'[P] = state[P] /\ pc'[P] = pc[P] /\ pc'[Game] = "photo_init"
          /\ state'[Game] = "SLEEPING" /\ photo_finished_sem' = photo_finished_sem
          /\ dcmi' = dcmi /\ row' = row
      BY <1>0, <1>4, <2>2 DEF GamePhotoFree, Continue, Ready
    <3> QED BY <3>1, <3>2 DEF SemInv, WaitInv, RowLeft
  <2> QED BY <2>1, <2>2
<1>5. CASE GameComesBack
  <2>1. /\ state[Game] = "SLEEPING" /\ state[P] = "FINAL"
        /\ state'[P] = state[P] /\ pc' = pc /\ state'[Game] = "READY"
        /\ photo_finished_sem' = photo_finished_sem /\ dcmi' = dcmi /\ row' = row
    BY <1>0, <1>5 DEF GameComesBack, Ready
  <2> QED BY <2>1 DEF SemInv, WaitInv, RowLeft
<1>6. CASE PhotoStart
  <2>1. CASE Halt
    BY <2>1 DEF Halt, SemInv, WaitInv, RowLeft
  <2>2. CASE ~Halt
    <3>1. pc[P] = "start" /\ state[P] = "READY"
      BY <1>6 DEF PhotoStart, At, MayRun
    <3>2. /\ state'[P] = "SUSPENDED" /\ pc'[P] = "double_buffer"
          /\ dcmi' = "STOP" /\ row' = row
          /\ state'[Game] = state[Game] /\ pc'[Game] = pc[Game]
          /\ photo_finished_sem' = photo_finished_sem
      BY <1>0, <1>6, <2>2 DEF PhotoStart, Continue, Ready
    <3>3. SemInv'
      BY <3>2 DEF SemInv
    <3>4. WaitInv'
      BY <3>1, <3>2 DEF WaitInv, RowLeft
    <3> QED BY <3>3, <3>4
  <2> QED BY <2>1, <2>2
<1>7. CASE PhotoDoubleBuffer
  <2>1. CASE Halt
    BY <2>1 DEF Halt, SemInv, WaitInv, RowLeft
  <2>2. CASE ~Halt
    <3>1. pc[P] = "double_buffer" /\ state[P] = "READY"
      BY <1>7 DEF PhotoDoubleBuffer, At, MayRun
    <3>2. /\ state'[P] = "READY" /\ pc'[P] = "while"
          /\ dcmi' = dcmi /\ row' = row
          /\ state'[Game] = state[Game] /\ pc'[Game] = pc[Game]
          /\ photo_finished_sem' = photo_finished_sem
      BY <1>0, <1>7, <2>2 DEF PhotoDoubleBuffer, Continue, Ready
    <3>3. SemInv'
      BY <3>2 DEF SemInv
    <3>4. WaitInv'
      BY <3>1, <3>2 DEF WaitInv, RowLeft
    <3> QED BY <3>3, <3>4
  <2> QED BY <2>1, <2>2
<1>8. CASE PhotoWhile
  <2>1. pc[P] = "while" /\ state[P] = "READY"
    BY <1>8 DEF PhotoWhile, At, MayRun
  <2>2. /\ \/ state'[P] = "FINAL" /\ pc'[P] = "exited"
           \/ state'[P] = "SUSPENDED" /\ pc'[P] = "capture"
        /\ dcmi' = dcmi /\ row' = row
        /\ state'[Game] = state[Game] /\ pc'[Game] = pc[Game]
        /\ photo_finished_sem' = photo_finished_sem
    BY <1>0, <1>8 DEF PhotoWhile, Continue, Ready
  <2>3. SemInv'
    BY <2>2 DEF SemInv
  <2>4. WaitInv'
    BY <2>1, <2>2 DEF WaitInv, RowLeft
  <2> QED BY <2>3, <2>4
<1>9. CASE PhotoCapture
  <2>1. CASE Halt
    BY <2>1 DEF Halt, SemInv, WaitInv, RowLeft
  <2>2. CASE ~Halt
    <3>1. pc[P] = "capture" /\ state[P] = "READY"
      BY <1>9 DEF PhotoCapture, At, MayRun
    <3>2. /\ state'[P] = "READY" /\ pc'[P] = "wait_image"
          /\ dcmi' = "ACTIVE_ONESHOT" /\ row' = row
          /\ state'[Game] = state[Game] /\ pc'[Game] = pc[Game]
          /\ photo_finished_sem' = photo_finished_sem
      BY <1>0, <1>9, <2>2 DEF PhotoCapture, Continue, Ready
    <3>3. SemInv'
      BY <3>2 DEF SemInv
    <3>4. WaitInv'
      BY <3>1, <3>2 DEF WaitInv, RowLeft
    <3> QED BY <3>3, <3>4
  <2> QED BY <2>1, <2>2
<1>10. CASE PhotoWaitImage
  <2>1. pc[P] = "wait_image" /\ state[P] = "READY"
    BY <1>10 DEF PhotoWaitImage, At, MayRun
  <2>2. /\ state'[P] = "WTCOND" /\ pc'[P] = "image"
        /\ dcmi' = dcmi /\ row' = row
        /\ state'[Game] = state[Game] /\ pc'[Game] = pc[Game]
        /\ photo_finished_sem' = photo_finished_sem
    BY <1>0, <1>10 DEF PhotoWaitImage, Continue, Ready
  <2>3. SemInv'
    BY <2>2 DEF SemInv
  <2>4. WaitInv'
    BY <2>1, <2>2 DEF WaitInv, RowLeft
  <2> QED BY <2>3, <2>4
<1>11. CASE PhotoStrip
  <2>1. pc[P] = "image" /\ state[P] = "READY" /\ dcmi = "READY"
    BY <1>11 DEF PhotoStrip, At, MayRun, WaitInv
  <2>2. /\ state'[P] = "READY" /\ pc'[P] \in {"send", "while"} /\ pc'[Game] = pc[Game]
        /\ dcmi' = dcmi /\ row' = 0
    BY <1>0, <1>11 DEF PhotoStrip, Continue, Ready
  <2>3. CASE send
    <3>1. state'[Game] = state[Game] /\ photo_finished_sem' = photo_finished_sem
      BY <1>0, <1>11, <2>3 DEF PhotoStrip, Continue, Ready
    <3> QED BY <2>1, <2>2, <3>1, PhotoAssumption DEF SemInv, WaitInv, RowLeft
  <2>4. CASE ~send
    <3>1. /\ state'[Game] = IF state[Game] = "WTSEM" THEN "READY" ELSE state[Game]
          /\ photo_finished_sem' = BSemSignal(photo_finished_sem)
      BY <1>0, <1>11, <2>4, Signalling DEF PhotoStrip, Continue, Ready
    <3>2. SemInv'
      BY <3>1, Signalling DEF SemInv
    <3>3. WaitInv'
      BY <2>1, <2>2, <3>1, PhotoAssumption DEF WaitInv, RowLeft, SemInv
    <3> QED BY <3>2, <3>3
  <2> QED BY <2>3, <2>4
<1>12. CASE PhotoFinished
  <2>1. pc[P] = "image" /\ state[P] = "READY" /\ dcmi = "READY"
    BY <1>12 DEF PhotoFinished, At, MayRun, WaitInv
  <2>2. /\ state'[P] = "READY" /\ pc'[P] = "while" /\ pc'[Game] = pc[Game]
        /\ state'[Game] = IF state[Game] = "WTSEM" THEN "READY" ELSE state[Game]
        /\ dcmi' = dcmi /\ row' = row
        /\ photo_finished_sem' = BSemSignal(BSemSignal(photo_finished_sem))
    BY <1>0, <1>12, Signalling DEF PhotoFinished, Continue, Ready
  <2>3. SemInv'
    BY <2>2, Signalling DEF SemInv
  <2>4. WaitInv'
    BY <2>1, <2>2 DEF WaitInv, RowLeft, SemInv
  <2> QED BY <2>3, <2>4
<1>13. CASE PhotoSend
  <2>1. pc[P] = "send" /\ state[P] = "READY"
    BY <1>13 DEF PhotoSend, At, MayRun
  <2>2. /\ state'[P] = "QUEUED"
        /\ pc'[P] = IF row' < PHOTO_HEIGHT THEN "send" ELSE "while"
        /\ state'[Game] = state[Game] /\ pc'[Game] = pc[Game]
        /\ photo_finished_sem' = photo_finished_sem /\ dcmi' = dcmi
    BY <1>0, <1>13 DEF PhotoSend, Continue, Ready
  <2>3. SemInv'
    BY <2>2 DEF SemInv
  <2>4. WaitInv'
    BY <2>1, <2>2 DEF WaitInv, RowLeft
  <2> QED BY <2>3, <2>4
<1>14. CASE I2cDone \/ SerialDone
  <2>1. /\ state[P] \in {"SUSPENDED", "QUEUED"} /\ state'[P] = "READY"
        /\ state'[Game] = state[Game] /\ pc' = pc /\ dcmi' = dcmi /\ row' = row
        /\ photo_finished_sem' = photo_finished_sem
    BY <1>0, <1>14 DEF I2cDone, SerialDone, Ready
  <2> QED BY <2>1 DEF SemInv, WaitInv, RowLeft
<1>15. CASE FrameEnd
  <2>1. /\ dcmi = "ACTIVE_ONESHOT" /\ dcmi' = "READY" /\ row' = row /\ pc' = pc
        /\ state'[P] = IF state[P] = "WTCOND" THEN "READY" ELSE state[P]
        /\ state'[Game] = state[Game] /\ photo_finished_sem' = photo_finished_sem
    BY <1>0, <1>15 DEF FrameEnd, Ready
  <2> QED BY <2>1 DEF SemInv, WaitInv, RowLeft
<1>16. CASE CameraError
  <2>1. /\ dcmi = "ACTIVE_ONESHOT" /\ dcmi' = "ERROR"
        /\ UNCHANGED <<state, pc, row, photo_finished_sem>>
    BY <1>16 DEF CameraError
  <2> QED BY <2>1 DEF SemInv, WaitInv, RowLeft
<1>17. CASE UNCHANGED vars
  BY <1>17 DEF vars, SemInv, WaitInv, RowLeft
<1> QED BY <1>1, <1>2, <1>3, <1>4, <1>5, <1>6, <1>7, <1>8, <1>9, <1>10, <1>11,
           <1>12, <1>13, <1>14, <1>15, <1>16, <1>17
        DEF Next, GameStep, PhotoStep, Devices

\* No variable ever leaves its type: the counter of lines stays below the
\* picture's end plus one strip, rows and queues keep theirs (photo.c:46-79).
THEOREM PhotoTypeCorrect == Spec => []TypeOK
<1>1. Init => TypeOK /\ SemInv /\ WaitInv
  <2> SUFFICES ASSUME Init PROVE TypeOK /\ SemInv /\ WaitInv
    OBVIOUS
  <2>1. SemInv
    BY Threads DEF Init, SemInv, SemInit
  <2>2. WaitInv
    BY Threads DEF Init, WaitInv, RowLeft
  <2> QED BY <2>1, <2>2, InitType
<1>2. TypeOK /\ SemInv /\ WaitInv /\ [Next]_vars => (TypeOK /\ SemInv /\ WaitInv)'
  <2>1. TypeOK /\ UNCHANGED vars => TypeOK'
    BY DEF TypeOK, vars, photoVars, driver, heap, history
  <2> QED BY <2>1, GameType, PhotoType, DevicesType, WaitStep DEF Next, WaitInv
<1> QED BY <1>1, <1>2, PTL DEF Spec

-----------------------------------------------------------------------------
(***************************************************************************)
(* The order of the picture.                                               *)
(***************************************************************************)

\* How far a photo that is not finished is: gameThd waits for it or will, as
\* many lines are sent as counted, and the last image is the strip of the
\* window, captured into the first buffer.
Unfinished ==
    /\ pc[Game] \in {"photo_init", "wait_finish", "terminate"}
    /\ pc[Game] = "photo_init" =>
          line_cnt = 0 /\ pc[PhotoThd] = "exited" /\ state[Game] = "READY"
    /\ pc[Game] = "terminate" => state[Game] = "WTSEM"
    /\ photo_finished_sem.cnt <= 0
    /\ Len(sent) = IF pc[PhotoThd] = "send"
                   THEN line_cnt - PHOTO_HEIGHT + row ELSE line_cnt
    /\ pc[PhotoThd] \in {"capture", "wait_image", "image"} => window = line_cnt
    /\ pc[PhotoThd] \in {"wait_image", "image"} =>
          /\ dcmi = "ACTIVE_ONESHOT" => filling = 1
          /\ dcmi = "READY" => filling = 2 /\ image[1] = line_cnt
    /\ pc[PhotoThd] = "send" =>
          /\ filling = 2 /\ image[1] = line_cnt - PHOTO_HEIGHT
          /\ image[1] \in Nat

\* Nothing is sent once the photo is finished.
PictureInv ==
    /\ PictureInOrder
    /\ send => Unfinished
    /\ pc[PhotoThd] = "send" => send

\* One more line, the next one, keeps the order.
LEMMA NextLine ==
    ASSUME sent \in Seq(Int), PictureInOrder,
           NEW l \in Int, l = Len(sent), sent' = Append(sent, l)
    PROVE  PictureInOrder' /\ Len(sent') = Len(sent) + 1
BY DEF PictureInOrder

\* Every step of gameThd keeps the order.
LEMMA GameKeepsOrder ==
    TypeOK /\ SemInv /\ WaitInv /\ PictureInv /\ (GameStep \/ GameComesBack)
        => PictureInv'
<1> SUFFICES ASSUME TypeOK, SemInv, WaitInv, PictureInv, GameStep \/ GameComesBack
             PROVE  PictureInv'
  OBVIOUS
<1> USE Threads DEF photoVars, driver, heap, history
<1> DEFINE P == PhotoThd
<1>0. DOMAIN state = Thread /\ DOMAIN pc = Thread
  BY DEF TypeOK
<1>1. CASE GamePhotoInit
  <2>1. pc[Game] = "photo_init" /\ state[Game] = "READY"
    BY <1>1 DEF GamePhotoInit, At, MayRun
  <2>2. /\ pc'[P] = "start" /\ pc'[Game] = "wait_finish" /\ sent' = << >>
        /\ UNCHANGED <<send, line_cnt, photo_finished_sem>>
    BY <1>0, <1>1 DEF GamePhotoInit
  <2>3. PictureInOrder'
    BY <2>2 DEF PictureInOrder
  <2>4. ASSUME send' PROVE Unfinished'
    BY <2>1, <2>2, <2>4 DEF PictureInv, Unfinished
  <2> QED BY <2>2, <2>3, <2>4 DEF PictureInv
<1>2. CASE GamePhotoWaitFinish
  <2>1. pc[Game] = "wait_finish" /\ state[Game] = "READY"
    BY <1>2 DEF GamePhotoWaitFinish, At, MayRun
  <2>2. /\ pc'[P] = pc[P] /\ pc'[Game] = "terminate"
        /\ state'[Game] = IF SemBlocks(photo_finished_sem) THEN "WTSEM" ELSE "READY"
        /\ photo_finished_sem' = SemWait(photo_finished_sem, Game)
        /\ UNCHANGED <<photoVars, driver, heap, history>>
    BY <1>0, <1>2 DEF GamePhotoWaitFinish, Continue, Ready
  <2>3. ASSUME send' PROVE Unfinished'
    <3>1. photo_finished_sem.cnt \in {0, 1} /\ photo_finished_sem.cnt <= 0
      BY <2>1, <2>2, <2>3 DEF SemInv, PictureInv, Unfinished
    <3>2. photo_finished_sem'.cnt <= 0 /\ state'[Game] = "WTSEM"
      BY <2>2, <3>1 DEF SemWait, SemBlocks
    <3> QED BY <2>2, <2>3, <3>2 DEF PictureInv, Unfinished
  <2> QED BY <2>2, <2>3 DEF PictureInv, PictureInOrder
<1>3. CASE GamePhotoTerminate \/ GamePhotoFree
  <2>1. ~send
    BY <1>3 DEF GamePhotoTerminate, GamePhotoFree, At, MayRun, PictureInv, Unfinished
  <2>2. sent' = sent /\ send' = send /\ pc'[P] = pc[P]
    BY <1>0, <1>3 DEF GamePhotoTerminate, GamePhotoFree, Halt, Continue
  <2> QED BY <2>1, <2>2 DEF PictureInv, PictureInOrder
<1>4. CASE GameComesBack
  <2>1. state[P] = "FINAL" /\ state[Game] = "SLEEPING"
    BY <1>4 DEF GameComesBack
  <2>2. pc[P] = "exited"
    BY <2>1 DEF WaitInv
  <2>3. UNCHANGED <<pc, photoVars, driver, heap, sent, photo_finished_sem>>
    BY <1>4 DEF GameComesBack
  <2>4. state'[Game] = "READY"
    BY <1>0, <1>4 DEF GameComesBack, Ready
  <2>5. ASSUME send PROVE Unfinished'
    <3>1. pc[Game] = "wait_finish"
      BY <2>1, <2>5 DEF PictureInv, Unfinished
    <3> QED BY <2>2, <2>3, <2>5, <3>1 DEF PictureInv, Unfinished
  <2> QED BY <2>2, <2>3, <2>5 DEF PictureInv, PictureInOrder
<1> QED BY <1>1, <1>2, <1>3, <1>4 DEF GameStep

\* Every step of photoThd keeps the order.
LEMMA PhotoKeepsOrder ==
    TypeOK /\ SemInv /\ WaitInv /\ PictureInv /\ PhotoStep => PictureInv'
<1> SUFFICES ASSUME TypeOK, SemInv, WaitInv, PictureInv, PhotoStep PROVE PictureInv'
  OBVIOUS
<1> USE Threads DEF photoVars, driver, heap, history
<1> DEFINE P == PhotoThd
<1>0. DOMAIN state = Thread /\ DOMAIN pc = Thread
  BY DEF TypeOK
<1>1. CASE Halt
  BY <1>1 DEF Halt, PictureInv, PictureInOrder, Unfinished
<1>2. CASE ~Halt /\ (PhotoStart \/ PhotoDoubleBuffer \/ PhotoWhile)
  <2>1. pc[P] \in {"start", "double_buffer", "while"}
    BY <1>2 DEF PhotoStart, PhotoDoubleBuffer, PhotoWhile, At
  <2>2. /\ pc'[P] \in {"double_buffer", "while", "capture", "exited"}
        /\ pc'[P] = "capture" => window' = line_cnt
        /\ pc'[Game] = pc[Game] /\ state'[Game] = state[Game]
        /\ UNCHANGED <<send, line_cnt, sent, photo_finished_sem>>
    BY <1>0, <1>2 DEF PhotoStart, PhotoDoubleBuffer, PhotoWhile, Continue, Ready
  <2>3. ASSUME send' PROVE Unfinished'
    BY <2>1, <2>2, <2>3 DEF PictureInv, Unfinished
  <2> QED BY <2>2, <2>3 DEF PictureInv, PictureInOrder
<1>3. CASE ~Halt /\ PhotoCapture
  <2>1. pc[P] = "capture"
    BY <1>3 DEF PhotoCapture, At
  <2>2. /\ pc'[P] = "wait_image" /\ dcmi' = "ACTIVE_ONESHOT" /\ filling' = 1
        /\ pc'[Game] = pc[Game] /\ state'[Game] = state[Game]
        /\ UNCHANGED <<photoVars, sent, photo_finished_sem>>
    BY <1>0, <1>3 DEF PhotoCapture, Continue, Ready
  <2>3. ASSUME send' PROVE Unfinished'
    BY <2>1, <2>2, <2>3 DEF PictureInv, Unfinished
  <2> QED BY <2>2, <2>3 DEF PictureInv, PictureInOrder
<1>4. CASE PhotoWaitImage
  <2>1. pc[P] = "wait_image"
    BY <1>4 DEF PhotoWaitImage, At
  <2>2. /\ pc'[P] = "image" /\ pc'[Game] = pc[Game] /\ state'[Game] = state[Game]
        /\ UNCHANGED <<photoVars, driver, heap, sent, photo_finished_sem>>
    BY <1>0, <1>4 DEF PhotoWaitImage, Continue, Ready
  <2>3. ASSUME send' PROVE Unfinished'
    BY <2>1, <2>2, <2>3 DEF PictureInv, Unfinished
  <2> QED BY <2>2, <2>3 DEF PictureInv, PictureInOrder
<1>5. CASE PhotoStrip
  <2>1. pc[P] = "image" /\ dcmi = "READY"
    BY <1>5 DEF PhotoStrip, At, MayRun, WaitInv
  <2>2. UNCHANGED <<send, sent>> /\ (pc'[P] = "send" => send)
    BY <1>0, <1>5 DEF PhotoStrip, Continue
  <2>3. ASSUME send PROVE Unfinished'
    <3>1. /\ pc'[P] = "send" /\ pc'[Game] = pc[Game] /\ state'[Game] = state[Game]
          /\ line_cnt' = line_cnt + PHOTO_HEIGHT /\ row' = 0
          /\ UNCHANGED <<filling, image, photo_finished_sem>>
      BY <1>0, <1>5, <2>3 DEF PhotoStrip, Continue, Ready
    <3>2. /\ Unfinished /\ image[1] = line_cnt /\ filling = 2 /\ Len(sent) = line_cnt
      BY <2>1, <2>3 DEF PictureInv, Unfinished
    <3>3. line_cnt \in Nat /\ PHOTO_HEIGHT \in Nat
      BY PhotoAssumption DEF TypeOK
    <3>4. line_cnt' - PHOTO_HEIGHT + row' = line_cnt /\ line_cnt' - PHOTO_HEIGHT = line_cnt
      BY <3>1, <3>3
    <3>5. pc[Game] # "photo_init"
      BY <2>1, <3>2 DEF Unfinished
    <3> QED BY <2>2, <3>1, <3>2, <3>3, <3>4, <3>5 DEF Unfinished
  <2> QED BY <2>2, <2>3 DEF PictureInv, PictureInOrder
<1>6. CASE PhotoFinished
  <2>1. ~send' /\ sent' = sent /\ pc'[P] = "while"
    BY <1>0, <1>6 DEF PhotoFinished, Continue
  <2> QED BY <2>1 DEF PictureInv, PictureInOrder
<1>7. CASE PhotoSend
  <2>1. pc[P] = "send" /\ send /\ Unfinished
    BY <1>7 DEF PhotoSend, At, PictureInv
  <2>2. row \in Nat /\ row < PHOTO_HEIGHT /\ PHOTO_HEIGHT \in Nat /\ line_cnt \in Nat
    BY <2>1, PhotoAssumption DEF TypeOK, WaitInv, RowLeft
  <2>3. /\ filling = 2 /\ image[1] = line_cnt - PHOTO_HEIGHT /\ image[1] \in Nat
        /\ Len(sent) = line_cnt - PHOTO_HEIGHT + row
    BY <2>1 DEF Unfinished
  <2>4. image[LastImage] = image[1] /\ image[LastImage] # NOTHING
    BY <2>3 DEF LastImage, NOTHING
  <2>5. sent' = Append(sent, image[1] + row)
    BY <1>7, <2>4 DEF PhotoSend
  <2>6. image[1] + row \in Int /\ image[1] + row = Len(sent)
    BY <2>2, <2>3
  <2>7. PictureInOrder' /\ Len(sent') = Len(sent) + 1
    <3>1. sent \in Seq(Int) /\ PictureInOrder
      BY DEF TypeOK, PictureInv
    <3> QED BY <2>5, <2>6, <3>1, NextLine
  <2>8. /\ pc'[P] = IF row + 1 < PHOTO_HEIGHT THEN "send" ELSE "while"
        /\ row' = row + 1 /\ pc'[Game] = pc[Game] /\ state'[Game] = state[Game]
        /\ UNCHANGED <<send, line_cnt, filling, image, photo_finished_sem>>
    BY <1>0, <1>7 DEF PhotoSend, Continue, Ready
  <2>9. Len(sent') = IF pc'[P] = "send" THEN line_cnt' - PHOTO_HEIGHT + row'
                     ELSE line_cnt'
    BY <2>2, <2>3, <2>7, <2>8
  <2>10. Unfinished'
    BY <2>1, <2>3, <2>8, <2>9 DEF Unfinished
  <2> QED BY <2>1, <2>7, <2>8, <2>10 DEF PictureInv
<1> QED BY <1>1, <1>2, <1>3, <1>4, <1>5, <1>6, <1>7 DEF PhotoStep

\* Every interrupt keeps the order.
LEMMA DevicesKeepOrder ==
    TypeOK /\ SemInv /\ WaitInv /\ PictureInv /\ Devices => PictureInv'
<1> SUFFICES ASSUME TypeOK, SemInv, WaitInv, PictureInv, Devices PROVE PictureInv'
  OBVIOUS
<1> USE Threads DEF photoVars, driver, heap, history
<1>1. CASE I2cDone \/ SerialDone
  <2>1. /\ state'[Game] = state[Game]
        /\ UNCHANGED <<pc, photoVars, driver, heap, sent, photo_finished_sem>>
    BY <1>1 DEF I2cDone, SerialDone, Ready, TypeOK
  <2> QED BY <2>1 DEF PictureInv, PictureInOrder, Unfinished
<1>2. CASE FrameEnd
  <2>1. /\ dcmi = "ACTIVE_ONESHOT" /\ dcmi' = "READY" /\ filling' = 3 - filling
        /\ image' = [image EXCEPT ![filling] = window]
        /\ UNCHANGED <<pc, photoVars, sent, photo_finished_sem>>
    BY <1>2 DEF FrameEnd
  <2>2. state'[Game] = state[Game]
    BY <1>2 DEF FrameEnd, Ready, TypeOK
  <2>3. pc[PhotoThd] \in {"wait_image", "image"}
    BY <2>1 DEF WaitInv
  <2>4. ASSUME send PROVE Unfinished'
    <3>1. filling = 1 /\ window = line_cnt /\ Unfinished
      BY <2>1, <2>3, <2>4 DEF PictureInv, Unfinished
    <3>2. filling' = 2 /\ image'[1] = line_cnt
      BY <2>1, <3>1 DEF TypeOK, Buffer
    <3> QED BY <2>1, <2>2, <2>3, <3>1, <3>2 DEF Unfinished
  <2> QED BY <2>1, <2>3, <2>4 DEF PictureInv, PictureInOrder
<1>3. CASE CameraError
  <2>1. /\ dcmi = "ACTIVE_ONESHOT" /\ dcmi' = "ERROR"
        /\ UNCHANGED <<state, pc, photoVars, filling, heap, sent, photo_finished_sem>>
    BY <1>3 DEF CameraError
  <2> QED BY <2>1 DEF PictureInv, PictureInOrder, Unfinished
<1> QED BY <1>1, <1>2, <1>3 DEF Devices

\* The PC gets the lines of the picture one after the other, none of them
\* twice and none left out, for pictures and strips of any size and whatever
\* the camera, the bus and the serial line do.
THEOREM PictureIsInOrder == Spec => []PictureInOrder
<1> DEFINE Inv == TypeOK /\ SemInv /\ WaitInv /\ PictureInv
<1>1. Init => Inv
  <2> SUFFICES ASSUME Init PROVE Inv
    OBVIOUS
  <2>1. SemInv /\ WaitInv
    BY Threads DEF Init, SemInv, SemInit, WaitInv, RowLeft
  <2>2. PictureInv
    BY Threads DEF Init, PictureInv, PictureInOrder, Unfinished, SemInit
  <2> QED BY <2>1, <2>2, InitType
<1>2. Inv /\ [Next]_vars => Inv'
  <2>1. TypeOK /\ UNCHANGED vars => TypeOK'
    BY DEF TypeOK, vars, photoVars, driver, heap, history
  <2>2. PictureInv /\ UNCHANGED vars => PictureInv'
    BY DEF PictureInv, PictureInOrder, Unfinished, vars, photoVars, driver, heap,
           history
  <2> QED BY <2>1, <2>2, GameType, PhotoType, DevicesType, WaitStep, GameKeepsOrder,
             PhotoKeepsOrder, DevicesKeepOrder DEF Next, WaitInv
<1>3. Inv => PictureInOrder
  BY DEF PictureInv
<1> QED BY <1>1, <1>2, <1>3, PTL DEF Spec

-----------------------------------------------------------------------------
(***************************************************************************)
(* The first photo: it is complete, and the kernel is not halted.          *)
(***************************************************************************)

\* photoThd counts whole strips, and none that begins beyond the picture.
Strips(n) == line_cnt = n * PHOTO_HEIGHT /\ (n # 0 => (n - 1) * PHOTO_HEIGHT <= MAX_LINES_2_SEND)

StripInv == \E n \in Nat : Strips(n)

\* Where photoThd is after dcmi_enable_double_buffering.
InLoop == {"while", "capture", "wait_image", "image", "send"}

\* In the first photo the buffers are freed once, after the last row was
\* sent, and the driver is ready between two captures.
FirstInv ==
    photos <= 1 =>
       /\ ~halted
       /\ photos = 0 => send /\ pc[Game] = "photo_init" /\ pc[PhotoThd] = "exited"
                        /\ ~dcmi_prepared
       /\ ~send => /\ Len(sent) = line_cnt /\ line_cnt > MAX_LINES_2_SEND
                   /\ pc[PhotoThd] \notin {"start", "double_buffer", "send"}
       /\ (\E b \in Buffer : image_buff[b] = "freed") =>
             pc[Game] = "photo_init" /\ ~send
       /\ pc[PhotoThd] \in {"start", "double_buffer"} => ~dcmi_prepared
       /\ pc[PhotoThd] = "double_buffer" => dcmi = "STOP"
       /\ pc[PhotoThd] \in {"while", "capture", "send"} =>
             dcmi = IF dcmi_prepared THEN "READY" ELSE "STOP"
       /\ pc[PhotoThd] \in {"wait_image", "image"} => dcmi_prepared
       /\ pc[PhotoThd] \in InLoop => image_buff[1] # "NULL"

\* The quotient of a division by a strip's height.
LEMMA Quotient ==
    ASSUME NEW a \in Nat, NEW b \in Nat \ {0}, NEW q \in Nat,
           q * b <= a, a < (q + 1) * b
    PROVE  a \div b = q
<1> DEFINE d == a \div b
<1>1. d \in Int /\ d * b <= a /\ a < (d + 1) * b
  <2>1. a % b \in 0..(b - 1) /\ d \in Int /\ a = b * d + (a % b)
    OBVIOUS
  <2> DEFINE r == a % b
  <2>2. d * b = b * d /\ (d + 1) * b = b * d + b
    BY <2>1
  <2> HIDE DEF d
  <2> QED BY <2>1, <2>2
<1> HIDE DEF d
<1>2. ASSUME NEW x \in Int, NEW y \in Int, x < y PROVE (x + 1) * b <= y * b
  <2>1. x + 1 <= y
    BY <1>2
  <2> QED BY <2>1, SMTT(30)
<1>3. ~(d < q)
  <2>1. q * b \in Int /\ (d + 1) * b \in Int
    BY <1>1
  <2> QED BY <1>1, <1>2, <2>1
<1>4. ~(q < d)
  <2>1. d * b \in Int /\ (q + 1) * b \in Int
    BY <1>1
  <2> QED BY <1>1, <1>2, <2>1
<1> QED BY <1>1, <1>3, <1>4 DEF d

\* Every step keeps the strips whole.
LEMMA StripStep ==
    ASSUME TypeOK, StripInv, [Next]_vars
    PROVE  StripInv'
<1>1. CASE line_cnt' = line_cnt
  BY <1>1 DEF StripInv, Strips
<1>2. CASE PhotoStrip
  <2>1. line_cnt <= MAX_LINES_2_SEND /\ line_cnt' = line_cnt + PHOTO_HEIGHT
    BY <1>2 DEF PhotoStrip
  <2>2. PICK n \in Nat : Strips(n)
    BY DEF StripInv
  <2>3. (n + 1) * PHOTO_HEIGHT = n * PHOTO_HEIGHT + PHOTO_HEIGHT
    BY PhotoAssumption
  <2>4. n + 1 \in Nat /\ (n + 1) - 1 = n
    OBVIOUS
  <2>5. Strips(n + 1)'
    BY <2>1, <2>2, <2>3, <2>4 DEF Strips
  <2> QED BY <2>4, <2>5 DEF StripInv
<1>3. CASE ~PhotoStrip
  BY <1>1, <1>3
  DEF Next, GameStep, PhotoStep, Devices, vars, photoVars,
      GamePhotoInit, GamePhotoWaitFinish, GamePhotoTerminate, GamePhotoFree,
      PhotoStart, PhotoDoubleBuffer, PhotoWhile, PhotoCapture, PhotoWaitImage,
      PhotoFinished, PhotoSend, I2cDone, SerialDone, FrameEnd, CameraError,
      GameComesBack, Halt
<1> QED BY <1>2, <1>3

\* Every step of the first photo keeps what it needs.
LEMMA FirstStep ==
    ASSUME TypeOK, SemInv, WaitInv, PictureInv, FirstInv, [Next]_vars
    PROVE  FirstInv'
<1> USE Threads DEF photoVars, driver, heap, history
<1> DEFINE P == PhotoThd
<1> SUFFICES ASSUME photos' <= 1 PROVE FirstInv'
  BY DEF FirstInv
<1>0. /\ DOMAIN state = Thread /\ DOMAIN pc = Thread /\ photos \in Nat
      /\ pc[P] \in PhotoPc /\ pc[Game] \in GamePc /\ 1 \in Buffer
      /\ DOMAIN image_buff = Buffer /\ line_cnt \in Int
  BY PhotoAssumption DEF TypeOK, Buffer
<1>1. CASE GamePhotoInit
  <2>1. /\ photos' = photos + 1 /\ sent' = << >> /\ pc'[P] = "start"
        /\ pc'[Game] = "wait_finish"
        /\ UNCHANGED <<halted, send, line_cnt, dcmi, dcmi_prepared, image_buff>>
    BY <1>0, <1>1 DEF GamePhotoInit
  <2>2. photos = 0
    BY <1>0, <2>1
  <2> QED BY <2>1, <2>2 DEF FirstInv, InLoop
<1>2. CASE ~GamePhotoInit
  <2>1. photos' = photos
    BY <1>2
    DEF Next, GameStep, PhotoStep, Devices, vars,
        GamePhotoWaitFinish, GamePhotoTerminate, GamePhotoFree,
        PhotoStart, PhotoDoubleBuffer, PhotoWhile, PhotoCapture, PhotoWaitImage,
        PhotoStrip, PhotoFinished, PhotoSend, I2cDone, SerialDone, FrameEnd,
        CameraError, GameComesBack, Halt
  <2>2. photos <= 1
    BY <2>1
  <2>3. CASE GamePhotoWaitFinish \/ GamePhotoTerminate \/ GameComesBack
    <3>1. /\ pc'[P] = pc[P] /\ (pc'[Game] # pc[Game] => pc[Game] # "photo_init")
          /\ UNCHANGED <<halted, sent, send, line_cnt, dcmi, dcmi_prepared,
                         image_buff>>
      BY <1>0, <2>3 DEF GamePhotoWaitFinish, GamePhotoTerminate, GameComesBack,
                        Continue, At
    <3> QED BY <2>1, <2>2, <3>1 DEF FirstInv
  <2>4. CASE GamePhotoFree
    <3>1. pc[Game] = "free"
      BY <2>4 DEF GamePhotoFree, At
    <3>2. ~DoubleFree(Buffer) /\ ~send
      BY <2>2, <3>1 DEF FirstInv, DoubleFree, PictureInv, Unfinished
    <3>3. /\ pc'[Game] = "photo_init" /\ pc'[P] = pc[P]
          /\ image_buff' = [b \in Buffer |-> IF image_buff[b] = "NULL"
                                             THEN "NULL" ELSE "freed"]
          /\ UNCHANGED <<halted, sent, send, line_cnt, dcmi, dcmi_prepared>>
      BY <1>0, <2>4, <3>2 DEF GamePhotoFree, Continue
    <3>4. image_buff[1] # "NULL" => image_buff'[1] # "NULL"
      BY <1>0, <3>3
    <3> QED BY <2>1, <2>2, <3>1, <3>2, <3>3, <3>4 DEF FirstInv
  <2>5. CASE PhotoStart
    <3>1. pc[P] = "start"
      BY <2>5 DEF PhotoStart, At
    <3>2. ~DoubleFree({1}) /\ send
      BY <1>0, <2>2, <3>1 DEF FirstInv, DoubleFree
    <3>3. /\ pc'[Game] = pc[Game] /\ pc'[P] = "double_buffer" /\ dcmi' = "STOP"
          /\ Allocate({1})
          /\ UNCHANGED <<halted, sent, send, line_cnt, dcmi_prepared>>
      BY <1>0, <2>5, <3>2 DEF PhotoStart, Continue
    <3>4. \A b \in Buffer : image_buff'[b] = "freed" => image_buff[b] = "freed"
      BY <3>3 DEF Allocate
    <3> QED BY <2>1, <2>2, <3>1, <3>2, <3>3, <3>4 DEF FirstInv, InLoop
  <2>6. CASE PhotoDoubleBuffer
    <3>1. pc[P] = "double_buffer"
      BY <2>6 DEF PhotoDoubleBuffer, At
    <3>2. ~DoubleFree(Buffer) /\ send
      BY <1>0, <2>2, <3>1 DEF FirstInv, DoubleFree
    <3>3. /\ pc'[Game] = pc[Game] /\ pc'[P] = "while" /\ Allocate(Buffer)
          /\ UNCHANGED <<halted, sent, send, line_cnt, dcmi, dcmi_prepared>>
      BY <1>0, <2>6, <3>2 DEF PhotoDoubleBuffer, Continue
    <3>4. \A b \in Buffer : image_buff'[b] = "allocated"
      BY <3>3 DEF Allocate
    <3> QED BY <1>0, <2>1, <2>2, <3>1, <3>2, <3>3, <3>4 DEF FirstInv, InLoop
  <2>7. CASE PhotoWhile \/ PhotoWaitImage
    <3>1. /\ \/ pc[P] = "while" /\ pc'[P] \in {"exited", "capture"}
             \/ pc[P] = "wait_image" /\ pc'[P] = "image"
          /\ pc'[Game] = pc[Game]
          /\ UNCHANGED <<halted, sent, send, line_cnt, dcmi, dcmi_prepared, image_buff>>
      BY <1>0, <2>7 DEF PhotoWhile, PhotoWaitImage, Continue, At
    <3> QED BY <2>1, <2>2, <3>1 DEF FirstInv, InLoop
  <2>8. CASE PhotoCapture
    <3>1. pc[P] = "capture"
      BY <2>8 DEF PhotoCapture, At
    <3>2. MayPrepare
      BY <2>2, <3>1 DEF FirstInv, InLoop, MayPrepare
    <3>3. /\ pc'[P] = "wait_image" /\ pc'[Game] = pc[Game] /\ dcmi_prepared'
          /\ UNCHANGED <<halted, sent, send, line_cnt, image_buff>>
      BY <1>0, <2>8, <3>2 DEF PhotoCapture, Continue
    <3> QED BY <2>1, <2>2, <3>1, <3>3 DEF FirstInv, InLoop
  <2>9. CASE PhotoStrip
    <3>1. pc[P] = "image" /\ dcmi = "READY" /\ line_cnt <= MAX_LINES_2_SEND
      BY <2>9 DEF PhotoStrip, At, MayRun, WaitInv
    <3>2. send /\ dcmi_prepared
      BY <1>0, <2>2, <3>1, PhotoAssumption DEF FirstInv
    <3>3. /\ pc'[P] = "send" /\ pc'[Game] = pc[Game]
          /\ UNCHANGED <<halted, send, dcmi, dcmi_prepared, image_buff>>
      BY <1>0, <2>9, <3>2 DEF PhotoStrip, Continue
    <3> QED BY <2>1, <2>2, <3>1, <3>2, <3>3 DEF FirstInv, InLoop
  <2>10. CASE PhotoFinished
    <3>1. pc[P] = "image" /\ dcmi = "READY" /\ line_cnt > MAX_LINES_2_SEND
      BY <2>10 DEF PhotoFinished, At, MayRun, WaitInv
    <3>2. Len(sent) = line_cnt /\ dcmi_prepared /\ photos # 0
      BY <2>2, <3>1 DEF FirstInv, PictureInv, Unfinished
    <3>3. /\ pc'[P] = "while" /\ pc'[Game] = pc[Game] /\ ~send'
          /\ UNCHANGED <<halted, sent, line_cnt, dcmi, dcmi_prepared, image_buff>>
      BY <1>0, <2>10 DEF PhotoFinished, Continue
    <3> QED BY <2>1, <2>2, <3>1, <3>2, <3>3 DEF FirstInv, InLoop
  <2>11. CASE PhotoSend
    <3>1. pc[P] = "send" /\ send
      BY <2>11 DEF PhotoSend, At, PictureInv
    <3>2. /\ pc'[P] \in {"send", "while"} /\ pc'[Game] = pc[Game]
          /\ UNCHANGED <<halted, send, dcmi, dcmi_prepared, image_buff>>
      BY <1>0, <2>11 DEF PhotoSend, Continue
    <3> QED BY <2>1, <2>2, <3>1, <3>2 DEF FirstInv, InLoop
  <2>12. CASE I2cDone \/ SerialDone \/ UNCHANGED vars
    <3>1. UNCHANGED <<pc, halted, sent, send, line_cnt, dcmi, dcmi_prepared, image_buff>>
      BY <2>12 DEF I2cDone, SerialDone, vars
    <3> QED BY <2>1, <2>2, <3>1 DEF FirstInv
  <2>13. CASE FrameEnd \/ CameraError
    <3>1. /\ dcmi = "ACTIVE_ONESHOT"
          /\ UNCHANGED <<pc, halted, sent, send, line_cnt, dcmi_prepared, image_buff>>
      BY <2>13 DEF FrameEnd, CameraError
    <3>2. pc[P] \in {"wait_image", "image"}
      BY <3>1 DEF WaitInv
    <3> QED BY <2>1, <2>2, <3>1, <3>2 DEF FirstInv
  <2> QED BY <1>2, <2>3, <2>4, <2>5, <2>6, <2>7, <2>8, <2>9, <2>10, <2>11, <2>12,
             <2>13 DEF Next, GameStep, PhotoStep, Devices
<1> QED BY <1>1, <1>2

\* The inductive invariant of the photo: where the threads wait, how far the
\* picture is, and the first photo.
PhotoInv == TypeOK /\ SemInv /\ WaitInv /\ PictureInv /\ StripInv /\ FirstInv

LEMMA PhotoInvariant == Spec => []PhotoInv
<1>1. Init => PhotoInv
  <2> SUFFICES ASSUME Init PROVE PhotoInv
    OBVIOUS
  <2>1. SemInv /\ WaitInv
    BY Threads DEF Init, SemInv, SemInit, WaitInv, RowLeft
  <2>2. PictureInv
    BY Threads DEF Init, PictureInv, PictureInOrder, Unfinished, SemInit
  <2>3. StripInv
    <3>1. 0 \in Nat /\ 0 = 0 * PHOTO_HEIGHT
      BY PhotoAssumption
    <3> QED BY <3>1 DEF Init, StripInv, Strips
  <2>4. FirstInv
    BY Threads DEF Init, FirstInv, InLoop
  <2> QED BY <2>1, <2>2, <2>3, <2>4, InitType DEF PhotoInv
<1>2. PhotoInv /\ [Next]_vars => PhotoInv'
  <2>1. TypeOK /\ UNCHANGED vars => TypeOK'
    BY DEF TypeOK, vars, photoVars, driver, heap, history
  <2>2. PictureInv /\ UNCHANGED vars => PictureInv'
    BY DEF PictureInv, PictureInOrder, Unfinished, vars, photoVars, driver, heap,
           history
  <2> QED BY <2>1, <2>2, GameType, PhotoType, DevicesType, WaitStep, GameKeepsOrder,
             PhotoKeepsOrder, DevicesKeepOrder, StripStep, FirstStep
          DEF Next, WaitInv, PhotoInv
<1> QED BY <1>1, <1>2, PTL DEF Spec

\* gameThd goes on from photo_wait_finish only when every line of the picture
\* was sent, in the first photo and whatever the frames, the bus and the serial
\* line do: "Waits for the capture to be finished." (photo.c:49-73, 107)
THEOREM FirstPhotoIsComplete == Spec => []FirstPhotoComplete
<1>1. ASSUME PhotoInv PROVE FirstPhotoComplete
  <2> SUFFICES ASSUME photos <= 1, pc[Game] \in {"terminate", "free"},
                      state[Game] = "READY"
               PROVE  Len(sent) = PictureLines
    BY DEF FirstPhotoComplete, FinishedMeansSent
  <2>1. ~send
    BY <1>1 DEF PhotoInv, PictureInv, Unfinished
  <2>2. Len(sent) = line_cnt /\ line_cnt > MAX_LINES_2_SEND
    BY <1>1, <2>1 DEF PhotoInv, FirstInv
  <2>3. PICK n \in Nat : Strips(n)
    BY <1>1 DEF PhotoInv, StripInv
  <2>4. n # 0
    BY <2>2, <2>3, PhotoAssumption DEF Strips
  <2>5. n - 1 \in Nat /\ (n - 1) + 1 = n
    BY <2>4
  <2>6. MAX_LINES_2_SEND \div PHOTO_HEIGHT = n - 1
    <3>1. (n - 1) * PHOTO_HEIGHT <= MAX_LINES_2_SEND
      BY <2>3, <2>4 DEF Strips
    <3>2. MAX_LINES_2_SEND < ((n - 1) + 1) * PHOTO_HEIGHT
      BY <2>2, <2>3, <2>5, PhotoAssumption DEF Strips
    <3> QED BY <2>5, <3>1, <3>2, PhotoAssumption, Quotient
  <2>7. PictureLines = n * PHOTO_HEIGHT
    BY <2>5, <2>6, PhotoAssumption DEF PictureLines
  <2> QED BY <2>2, <2>3, <2>7 DEF Strips
<1> QED BY <1>1, PhotoInvariant, PTL

\* The assertions of the DCMI driver hold through the first photo and nothing
\* is freed twice; a second photo does halt the robot (dcmi.c:104, 122, 139;
\* dcmi_camera.c:208-240).
THEOREM FirstPhotoNeverHalts == Spec => []NeverHalts
<1>1. PhotoInv => NeverHalts
  BY DEF PhotoInv, FirstInv, NeverHalts
<1> QED BY <1>1, PhotoInvariant, PTL

-----------------------------------------------------------------------------
(***************************************************************************)
(* No photo has a line too many, and nobody waits for a thread that ended. *)
(***************************************************************************)

\* photoThd never counts beyond the strip that holds the picture's last line.
LEMMA StripsInPicture ==
    ASSUME StripInv
    PROVE  line_cnt <= PictureLines
<1> DEFINE d == MAX_LINES_2_SEND \div PHOTO_HEIGHT
<1>1. PICK k \in Nat : Strips(k)
  BY DEF StripInv
<1>2. d \in Int /\ d >= 0 /\ MAX_LINES_2_SEND < (d + 1) * PHOTO_HEIGHT
  <2>1. /\ MAX_LINES_2_SEND % PHOTO_HEIGHT \in 0..(PHOTO_HEIGHT - 1) /\ d \in Int
        /\ MAX_LINES_2_SEND = PHOTO_HEIGHT * d + (MAX_LINES_2_SEND % PHOTO_HEIGHT)
        /\ d >= 0
    BY PhotoAssumption
  <2> DEFINE r == MAX_LINES_2_SEND % PHOTO_HEIGHT
  <2>2. (d + 1) * PHOTO_HEIGHT = PHOTO_HEIGHT * d + PHOTO_HEIGHT
    BY <2>1, PhotoAssumption
  <2> HIDE DEF d, r
  <2> QED BY <2>1, <2>2, PhotoAssumption DEF r
<1>3. PictureLines = (d + 1) * PHOTO_HEIGHT
  BY <1>2, PhotoAssumption DEF PictureLines
<1> HIDE DEF d
<1>4. k <= d + 1
  <2> SUFFICES ASSUME ~(k <= d + 1) PROVE FALSE
    OBVIOUS
  <2>1. k - 1 >= d + 1 /\ k # 0 /\ k - 1 \in Int
    BY <1>2
  <2>2. (k - 1) * PHOTO_HEIGHT >= (d + 1) * PHOTO_HEIGHT
    BY <1>2, <2>1, PhotoAssumption, SMTT(30)
  <2>3. (k - 1) * PHOTO_HEIGHT \in Int /\ (d + 1) * PHOTO_HEIGHT \in Int
    BY <1>2, <2>1, PhotoAssumption
  <2> QED BY <1>1, <1>2, <2>1, <2>2, <2>3, PhotoAssumption DEF Strips
<1>5. k * PHOTO_HEIGHT <= (d + 1) * PHOTO_HEIGHT
  BY <1>2, <1>4, PhotoAssumption, SMTT(30)
<1> QED BY <1>1, <1>3, <1>5 DEF Strips

\* The PC never gets more lines than the picture has, in any photo
\* (photo.c:60-73).
NoLineTooMany == Len(sent) <= PictureLines

THEOREM PictureIsNotExceeded == Spec => []NoLineTooMany
<1>1. Init => NoLineTooMany
  <2>1. Init => line_cnt <= PictureLines /\ Len(sent) = line_cnt
    <3> SUFFICES ASSUME Init PROVE line_cnt <= PictureLines
      BY DEF Init
    <3>1. 0 \in Nat /\ 0 = 0 * PHOTO_HEIGHT
      BY PhotoAssumption
    <3>2. StripInv
      BY <3>1 DEF Init, StripInv, Strips
    <3> QED BY <3>2, StripsInPicture
  <2> QED BY <2>1 DEF NoLineTooMany
<1>2. ASSUME PhotoInv, PhotoInv', NoLineTooMany, [Next]_vars PROVE NoLineTooMany'
  <2>1. CASE sent' = sent
    BY <1>2, <2>1 DEF NoLineTooMany, PictureLines
  <2>2. CASE GamePhotoInit
    <3>1. Len(sent') = 0 /\ Len(sent) \in Nat
      BY <1>2, <2>2 DEF GamePhotoInit, PhotoInv, TypeOK
    <3> QED BY <1>2, <3>1, PhotoAssumption DEF NoLineTooMany, PictureLines
  <2>3. CASE PhotoSend
    <3>1. /\ pc[PhotoThd] = "send" /\ send /\ row < PHOTO_HEIGHT
          /\ Len(sent) = line_cnt - PHOTO_HEIGHT + row
      BY <1>2, <2>3 DEF PhotoSend, At, PhotoInv, PictureInv, Unfinished, WaitInv, RowLeft
    <3>2. Len(sent') = Len(sent) + 1
      BY <1>2, <2>3 DEF PhotoSend, PhotoInv, TypeOK
    <3>3. line_cnt <= PictureLines
      BY <1>2, StripsInPicture DEF PhotoInv
    <3>4. line_cnt \in Int /\ row \in Int /\ PHOTO_HEIGHT \in Int /\ PictureLines \in Int
      BY <1>2, PhotoAssumption DEF PhotoInv, TypeOK, PictureLines
    <3>5. Len(sent') <= PictureLines
      BY <3>1, <3>2, <3>3, <3>4
    <3> QED BY <3>5 DEF NoLineTooMany, PictureLines
  <2>4. sent' = sent \/ GamePhotoInit \/ PhotoSend
    BY <1>2
    DEF Next, GameStep, PhotoStep, Devices, vars, history,
        GamePhotoWaitFinish, GamePhotoTerminate, GamePhotoFree,
        PhotoStart, PhotoDoubleBuffer, PhotoWhile, PhotoCapture, PhotoWaitImage,
        PhotoStrip, PhotoFinished, I2cDone, SerialDone, FrameEnd,
        CameraError, GameComesBack, Halt
  <2> QED BY <2>1, <2>2, <2>3, <2>4
<1> QED BY <1>1, <1>2, PhotoInvariant, PTL DEF Spec

\* While gameThd waits for the photo, or is about to, photoThd was created,
\* has not been told to end, and did not.
ServedInv ==
    /\ pc[Game] = "wait_finish" \/ state[Game] = "WTSEM" =>
          ~terminate /\ pc[PhotoThd] # "exited"
    /\ state[PhotoThd] \in {"WTSTART", "READY", "SUSPENDED", "QUEUED", "WTCOND",
                            "FINAL"}

\* gameThd does not wait for its photo in vain: photoThd is at work, or waits
\* for a device that is busy on its behalf, unless it missed the frame it
\* waits for; it was not stopped (photo.c:46-80, 107-110).
GameIsServed ==
    state[Game] = "WTSEM" /\ ~FrameMissed =>
        /\ ~terminate
        /\ \/ state[PhotoThd] \in {"READY", "SUSPENDED", "QUEUED"}
           \/ state[PhotoThd] = "WTCOND" /\ dcmi = "ACTIVE_ONESHOT"

THEOREM GameWaitsForAThread == Spec => []GameIsServed
<1> USE Threads
<1> DEFINE Inv == PhotoInv /\ ServedInv
<1>1. Init => ServedInv
  BY DEF Init, ServedInv
<1>2. ASSUME PhotoInv, ServedInv, [Next]_vars PROVE ServedInv'
  <2>0. /\ DOMAIN state = Thread /\ DOMAIN pc = Thread
        /\ pc[PhotoThd] \in PhotoPc /\ pc[Game] \in GamePc
        /\ state[Game] = "WTSEM" => pc[Game] = "terminate"
    BY <1>2 DEF PhotoInv, TypeOK, SemInv
  <2>1. CASE GamePhotoInit
    <3>1. /\ state'[PhotoThd] = "READY" /\ pc'[PhotoThd] = "start" /\ ~terminate'
      BY <2>0, <2>1 DEF GamePhotoInit
    <3> QED BY <3>1 DEF ServedInv
  <2>2. CASE GamePhotoWaitFinish
    <3>1. /\ pc[Game] = "wait_finish" /\ terminate' = terminate
          /\ pc'[PhotoThd] = pc[PhotoThd] /\ state'[PhotoThd] = state[PhotoThd]
      BY <2>0, <2>2 DEF GamePhotoWaitFinish, At, Continue, Ready
    <3> QED BY <1>2, <3>1 DEF ServedInv
  <2>3. CASE GamePhotoTerminate \/ GamePhotoFree
    <3>1. CASE state' = state /\ pc' = pc /\ terminate' = terminate
      BY <1>2, <3>1 DEF ServedInv
    <3>2. CASE ~(state' = state /\ pc' = pc /\ terminate' = terminate)
      <4>1. /\ pc'[Game] \in {"free", "photo_init"} /\ state'[Game] \in {"READY", "SLEEPING"}
            /\ state'[PhotoThd] = state[PhotoThd]
        BY <2>0, <2>3, <3>2 DEF GamePhotoTerminate, GamePhotoFree, Continue, Ready, Halt
      <4> QED BY <1>2, <4>1 DEF ServedInv
    <3> QED BY <3>1, <3>2
  <2>4. CASE GameComesBack
    <3>1. /\ state[Game] = "SLEEPING" /\ state'[Game] = "READY" /\ pc' = pc
          /\ state'[PhotoThd] = state[PhotoThd] /\ terminate' = terminate
      BY <2>0, <2>4 DEF GameComesBack, Ready
    <3> QED BY <1>2, <3>1 DEF ServedInv
  <2>5. CASE PhotoStep
    <3>1. state[PhotoThd] = "READY" /\ terminate' = terminate
      BY <2>5 DEF PhotoStep, PhotoStart, PhotoDoubleBuffer, PhotoWhile, PhotoCapture,
         PhotoWaitImage, PhotoStrip, PhotoFinished, PhotoSend, At, MayRun, Halt
    <3>2. CASE state' = state /\ pc' = pc
      BY <1>2, <3>1, <3>2 DEF ServedInv
    <3>3. ASSUME NEW st \in {"READY", "SUSPENDED", "QUEUED", "WTCOND", "FINAL"},
                 NEW l, NEW B, Continue(PhotoThd, st, l, B),
                 l = "exited" => terminate
          PROVE  ServedInv'
      <4>1. /\ state'[PhotoThd] = st /\ pc'[PhotoThd] = l /\ pc'[Game] = pc[Game]
            /\ state'[Game] = "WTSEM" => state[Game] = "WTSEM"
        BY <2>0, <3>3 DEF Continue, Ready
      <4> QED BY <1>2, <3>1, <3>3, <4>1 DEF ServedInv
    <3>4. CASE PhotoStart \/ PhotoDoubleBuffer
      BY <3>2, <3>3, <3>4 DEF PhotoStart, PhotoDoubleBuffer, Halt
    <3>5. CASE PhotoWhile
      BY <3>3, <3>5 DEF PhotoWhile
    <3>6. CASE PhotoCapture \/ PhotoWaitImage
      BY <3>2, <3>3, <3>6 DEF PhotoCapture, PhotoWaitImage, Halt
    <3>7. CASE PhotoStrip
      <4>1. PICK st \in {"READY"}, l \in {"send", "while"}, B \in {{}, BSemSignalled(photo_finished_sem)} :
                Continue(PhotoThd, st, l, B)
        BY <3>7 DEF PhotoStrip
      <4> QED BY <3>3, <4>1
    <3>8. CASE PhotoFinished
      BY <3>3, <3>8 DEF PhotoFinished
    <3>9. CASE PhotoSend
      <4>1. PICK l \in {"send", "while"} : Continue(PhotoThd, "QUEUED", l, {})
        BY <3>9 DEF PhotoSend
      <4> QED BY <3>3, <4>1
    <3> QED BY <2>5, <3>4, <3>5, <3>6, <3>7, <3>8, <3>9 DEF PhotoStep
  <2>6. CASE Devices \/ UNCHANGED vars
    <3>1. /\ pc' = pc /\ terminate' = terminate /\ state'[Game] = state[Game]
          /\ state'[PhotoThd] \in {state[PhotoThd], "READY"}
      BY <2>0, <2>6 DEF Devices, I2cDone, SerialDone, FrameEnd, CameraError, Ready, vars
    <3> QED BY <1>2, <3>1 DEF ServedInv
  <2> QED BY <1>2, <2>1, <2>2, <2>3, <2>4, <2>5, <2>6 DEF Next, GameStep
<1>3. PhotoInv /\ ServedInv => GameIsServed
  BY DEF PhotoInv, WaitInv, ServedInv, GameIsServed, FrameMissed
<1> QED BY <1>1, <1>2, <1>3, PhotoInvariant, PTL DEF Spec

=============================================================================
