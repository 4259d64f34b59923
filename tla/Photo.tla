------------------------------- MODULE Photo -------------------------------
(***************************************************************************)
(* The photo at the end of a game: photo.c's photoThd, which captures the  *)
(* picture strip by strip and writes the rows of each to the serial line,  *)
(* the part of gameThd that asks for it (game.c:92-98), the camera driver  *)
(* dcmi_camera.c with its two heap buffers, and the state machine of the   *)
(* DCMI driver below it, with its interrupts.                              *)
(*                                                                         *)
(* photoThd has the higher priority: gameThd runs only while photoThd      *)
(* waits for the camera's registers (I2C), for a frame or for the serial   *)
(* line.  An action runs a thread from one such wait to the next, except   *)
(* between the start of a capture and the wait for its end, where an       *)
(* interrupt may come.                                                     *)
(*                                                                         *)
(* A strip is the number of its first line, a row its own line number.     *)
(* line_ready_sem is left out, nobody waits on it; so are the results of   *)
(* the camera's functions, which photoThd ignores.  malloc succeeds.       *)
(***************************************************************************)
EXTENDS ChibiOS

CONSTANTS
    Game, PhotoThd,
    PHOTO_HEIGHT,        \* the rows of a strip
    MAX_LINES_2_SEND,
    CameraMayFail,       \* the camera may overrun the DMA
    MaxPhotos            \* bound: the photos Game asks for

ASSUME PhotoThreadsAssumption ==
    /\ Thread = {Game, PhotoThd} /\ Game # PhotoThd
    /\ Prio[Game] < Prio[PhotoThd]

ASSUME PhotoAssumption ==
    /\ PHOTO_HEIGHT \in Nat \ {0} /\ MAX_LINES_2_SEND \in Nat
    /\ CameraMayFail \in BOOLEAN /\ MaxPhotos \in Nat

VARIABLES
    state,               \* p_state of the threads
    pc,                  \* where they are
    terminate,           \* photoThd's CH_FLAG_TERMINATE
    photo_finished_sem,
    line_cnt, send,      \* photoThd's variables, both static
    row,                 \* its loop variable
    window,              \* the first line of the window set in the camera
    dcmi,                \* DCMID.state
    dcmi_prepared,
    filling,             \* the buffer the DMA fills: bit CT of its stream
    image_buff,          \* the pointers image_buff1 and image_buff2
    image,               \* the strip in each of the buffers
    halted,              \* a kernel assertion failed, or the heap broke
    sent,                \* history: the rows of this photo sent so far
    photos               \* history: the photos asked for

heap == <<image_buff, image>>
driver == <<dcmi, dcmi_prepared, filling>>
photoVars == <<line_cnt, send, row, window>>
history == <<sent, photos>>

vars == <<state, pc, terminate, photo_finished_sem, photoVars, driver, heap,
          halted, history>>

GamePc == {"photo_init", "wait_finish", "terminate", "free"}
PhotoPc == {"start", "double_buffer", "while", "capture", "wait_image",
            "image", "send", "exited"}

\* A thread that waits on a condition variable.
TState == ThreadState \cup {"WTCOND"}

Buffer == {1, 2}
Pointer == {"NULL", "allocated", "freed"}

\* No strip was captured into the buffer.
NOTHING == -1

DcmiState == {"UNINIT", "STOP", "READY", "ACTIVE_ONESHOT", "ERROR"}

Init ==
    /\ state = [t \in Thread |-> IF t = Game THEN "READY" ELSE "WTSTART"]
    /\ pc = [t \in Thread |-> IF t = Game THEN "photo_init" ELSE "exited"]
    /\ terminate = FALSE
    /\ photo_finished_sem = SemInit(0)
    /\ line_cnt = 0 /\ send = TRUE /\ row = 0 /\ window = 0
    /\ dcmi = "UNINIT" /\ dcmi_prepared = FALSE /\ filling = 1
    /\ image_buff = [b \in Buffer |-> "NULL"]
    /\ image = [b \in Buffer |-> NOTHING]
    /\ halted = FALSE
    /\ sent = << >> /\ photos = 0

At(t, l) == ~halted /\ MayRun(state, t) /\ pc[t] = l

\* t goes on at l in state s, and the threads of T are made ready.
Continue(t, s, l, T) ==
    /\ state' = [Ready(state, T) EXCEPT ![t] = s]
    /\ pc' = [pc EXCEPT ![t] = l]

Halt ==
    /\ halted' = TRUE
    /\ UNCHANGED <<state, pc, terminate, photo_finished_sem, photoVars, driver,
                   heap, history>>

\* free on a pointer that was freed before: anything may happen from here,
\* of which the model keeps that the program stops and that it goes on.
DoubleFree(B) == \E b \in B : image_buff[b] = "freed"

-----------------------------------------------------------------------------
(***************************************************************************)
(* gameThd, in the state SEND_PHOTO.                                       *)
(***************************************************************************)

\* photo_init.
GamePhotoInit ==
    /\ At(Game, "photo_init") /\ photos < MaxPhotos
    /\ state' = [state EXCEPT ![PhotoThd] = "READY"]
    /\ pc' = [pc EXCEPT ![PhotoThd] = "start", ![Game] = "wait_finish"]
    /\ terminate' = FALSE
    /\ sent' = << >> /\ photos' = photos + 1
    /\ UNCHANGED <<photo_finished_sem, photoVars, driver, heap, halted>>

\* photo_wait_finish.
GamePhotoWaitFinish ==
    /\ At(Game, "wait_finish")
    /\ photo_finished_sem' = SemWait(photo_finished_sem, Game)
    /\ Continue(Game, IF SemBlocks(photo_finished_sem) THEN "WTSEM" ELSE "READY",
                "terminate", {})
    /\ UNCHANGED <<terminate, photoVars, driver, heap, halted, history>>

\* photo_stop: the flag, ...
GamePhotoTerminate ==
    /\ At(Game, "terminate")
    /\ terminate' = TRUE
    /\ Continue(Game, "READY", "free", {})
    /\ UNCHANGED <<photo_finished_sem, photoVars, driver, heap, halted, history>>

\* ... dcmi_capture_stop, which does nothing to a one-shot capture, and
\* dcmi_free_buffers, which leaves the pointers as they are (photoThd reads
\* neither of them between the two calls of free).  Game goes its way.
GamePhotoFree ==
    /\ At(Game, "free")
    /\ \/ DoubleFree(Buffer) /\ Halt
       \/ /\ image_buff' = [b \in Buffer |-> IF image_buff[b] = "NULL"
                                             THEN "NULL" ELSE "freed"]
          /\ image' = [b \in Buffer |-> NOTHING]
          /\ Continue(Game, "SLEEPING", "photo_init", {})
          /\ UNCHANGED <<terminate, photo_finished_sem, photoVars, driver,
                         halted, history>>

\* The next game comes to its photo.  It takes minutes: by then photoThd has
\* ended.  (If it waits for a frame that never comes, creating it anew would
\* break the queue it waits in; this is left out.)
GameComesBack ==
    /\ ~halted
    /\ state[Game] = "SLEEPING" /\ photos < MaxPhotos
    /\ state[PhotoThd] = "FINAL"
    /\ state' = Ready(state, {Game})
    /\ UNCHANGED <<pc, terminate, photo_finished_sem, photoVars, driver, heap,
                   halted, history>>

-----------------------------------------------------------------------------
(***************************************************************************)
(* photoThd.                                                               *)
(***************************************************************************)

\* malloc after a free of what the pointer had.
Allocate(B) ==
    /\ image_buff' = [b \in Buffer |-> IF b \in B THEN "allocated"
                                       ELSE image_buff[b]]
    /\ image' = [b \in Buffer |-> IF b \in B THEN NOTHING ELSE image[b]]

\* dcmi_start, and po8030_start, which waits for the I2C bus.
PhotoStart ==
    /\ At(PhotoThd, "start")
    /\ \/ DoubleFree({1}) /\ Halt
       \/ /\ dcmi' = "STOP"
          /\ Allocate({1})
          /\ Continue(PhotoThd, "SUSPENDED", "double_buffer", {})
          /\ UNCHANGED <<terminate, photo_finished_sem, photoVars,
                         dcmi_prepared, filling, halted, history>>

\* dcmi_enable_double_buffering.
PhotoDoubleBuffer ==
    /\ At(PhotoThd, "double_buffer")
    /\ \/ DoubleFree(Buffer) /\ Halt
       \/ /\ Allocate(Buffer)
          /\ Continue(PhotoThd, "READY", "while", {})
          /\ UNCHANGED <<terminate, photo_finished_sem, photoVars, driver,
                         halted, history>>

\* Mutant of PhotoWhile: the flag is not asked for.
PhotoWhileTrue ==
    /\ At(PhotoThd, "while")
    /\ Continue(PhotoThd, "SUSPENDED", "capture", {})
    /\ window' = line_cnt
    /\ UNCHANGED <<terminate, photo_finished_sem, line_cnt, send, row, driver,
                   heap, halted, history>>

\* The loop's test and the setting of the camera's window, over I2C.
PhotoWhile ==
    /\ At(PhotoThd, "while")
    /\ IF terminate
       THEN /\ Continue(PhotoThd, "FINAL", "exited", {})
            /\ window' = window
       ELSE /\ Continue(PhotoThd, "SUSPENDED", "capture", {})
            /\ window' = line_cnt
    /\ UNCHANGED <<terminate, photo_finished_sem, line_cnt, send, row, driver,
                   heap, halted, history>>

\* What dcmiUnprepare asserts of a prepared driver, and dcmiPrepare of the
\* driver and the buffer it gets.
MayPrepare ==
    /\ dcmi = IF dcmi_prepared THEN "READY" ELSE "STOP"
    /\ image_buff[1] # "NULL"

\* Mutant of PhotoCapture: the driver is always taken to be fresh.
PhotoCaptureFresh ==
    /\ At(PhotoThd, "capture")
    /\ IF dcmi # "STOP" THEN Halt ELSE
       /\ dcmi' = "ACTIVE_ONESHOT" /\ dcmi_prepared' = TRUE /\ filling' = 1
       /\ Continue(PhotoThd, "READY", "wait_image", {})
       /\ UNCHANGED <<terminate, photo_finished_sem, photoVars, heap, halted,
                      history>>

\* dcmi_prepare, which sets up the DMA from the first buffer on, and
\* dcmi_capture_start.
PhotoCapture ==
    /\ At(PhotoThd, "capture")
    /\ IF ~MayPrepare THEN Halt ELSE
       /\ dcmi' = "ACTIVE_ONESHOT" /\ dcmi_prepared' = TRUE /\ filling' = 1
       /\ Continue(PhotoThd, "READY", "wait_image", {})
       /\ UNCHANGED <<terminate, photo_finished_sem, photoVars, heap, halted,
                      history>>

\* wait_image_ready, which does not ask whether the image is ready.  spi_thread
\* has a lower priority and keeps the mutex only until it waits itself; what it
\* delays photoThd by may lose a frame, as any delay here may.
PhotoWaitImage ==
    /\ At(PhotoThd, "wait_image")
    /\ Continue(PhotoThd, "WTCOND", "image", {})
    /\ UNCHANGED <<terminate, photo_finished_sem, photoVars, driver, heap,
                   halted, history>>

\* Mutant of PhotoStrip: the semaphore is signalled for every strip.
PhotoStripSignals ==
    /\ At(PhotoThd, "image") /\ line_cnt <= MAX_LINES_2_SEND
    /\ line_cnt' = line_cnt + PHOTO_HEIGHT
    /\ row' = 0
    /\ Continue(PhotoThd, "READY", IF send THEN "send" ELSE "while",
                BSemSignalled(photo_finished_sem))
    /\ photo_finished_sem' = BSemSignal(photo_finished_sem)
    /\ UNCHANGED <<terminate, send, window, driver, heap, halted, history>>

\* Mutant of PhotoStrip: the lines are not counted.
PhotoStripOn ==
    /\ At(PhotoThd, "image")
    /\ line_cnt' = line_cnt + PHOTO_HEIGHT
    /\ row' = 0
    /\ Continue(PhotoThd, "READY", "send", {})
    /\ UNCHANGED <<terminate, photo_finished_sem, send, window, driver, heap,
                   halted, history>>

\* The strip is sent, unless the photo was finished before.
PhotoStrip ==
    /\ At(PhotoThd, "image") /\ line_cnt <= MAX_LINES_2_SEND
    /\ line_cnt' = line_cnt + PHOTO_HEIGHT
    /\ row' = 0
    /\ IF send
       THEN /\ Continue(PhotoThd, "READY", "send", {})
            /\ UNCHANGED photo_finished_sem
       ELSE /\ Continue(PhotoThd, "READY", "while",
                        BSemSignalled(photo_finished_sem))
            /\ photo_finished_sem' = BSemSignal(photo_finished_sem)
    /\ UNCHANGED <<terminate, send, window, driver, heap, halted, history>>

\* Mutant of PhotoFinished: nobody is told.
PhotoFinishedSilently ==
    /\ At(PhotoThd, "image") /\ line_cnt > MAX_LINES_2_SEND
    /\ send' = FALSE
    /\ Continue(PhotoThd, "READY", "while", {})
    /\ UNCHANGED <<terminate, photo_finished_sem, line_cnt, row, window, driver,
                   heap, halted, history>>

\* The photo is complete: photo_finished_sem is signalled here, and once more
\* because nothing is to be sent.
PhotoFinished ==
    /\ At(PhotoThd, "image") /\ line_cnt > MAX_LINES_2_SEND
    /\ send' = FALSE
    /\ LET first == BSemSignal(photo_finished_sem)
       IN /\ photo_finished_sem' = BSemSignal(first)
          /\ Continue(PhotoThd, "READY", "while",
                      BSemSignalled(photo_finished_sem) \cup BSemSignalled(first))
    /\ UNCHANGED <<terminate, line_cnt, row, window, driver, heap, halted,
                   history>>

\* Mutant of LastImage: the bit is taken the wrong way round.
LastImageFilling == filling

\* dcmi_get_last_image_ptr: not the buffer the DMA fills.
LastImage == IF filling = 2 THEN 1 ELSE 2

\* SendUint8ToComputer: a row is written to the serial line, which takes it
\* byte by byte.
PhotoSend ==
    /\ At(PhotoThd, "send")
    /\ sent' = Append(sent, IF image[LastImage] = NOTHING THEN NOTHING
                            ELSE image[LastImage] + row)
    /\ row' = row + 1
    /\ Continue(PhotoThd, "QUEUED",
                IF row' < PHOTO_HEIGHT THEN "send" ELSE "while", {})
    /\ UNCHANGED <<terminate, photo_finished_sem, line_cnt, send, window,
                   driver, heap, halted, photos>>

-----------------------------------------------------------------------------
(***************************************************************************)
(* The devices.                                                            *)
(***************************************************************************)

\* A transfer on the I2C bus ends, in time or not.
I2cDone ==
    /\ ~halted /\ state[PhotoThd] = "SUSPENDED"
    /\ state' = Ready(state, {PhotoThd})
    /\ UNCHANGED <<pc, terminate, photo_finished_sem, photoVars, driver, heap,
                   halted, history>>

SerialDone ==
    /\ ~halted /\ state[PhotoThd] = "QUEUED"
    /\ state' = Ready(state, {PhotoThd})
    /\ UNCHANGED <<pc, terminate, photo_finished_sem, photoVars, driver, heap,
                   halted, history>>

\* The frame is complete: the DMA goes on to the other buffer, the interrupt
\* makes the driver ready and wakes whoever waits, in frameEndCb.
FrameEnd ==
    /\ ~halted /\ dcmi = "ACTIVE_ONESHOT"
    /\ dcmi' = "READY"
    /\ filling' = 3 - filling
    /\ image' = [image EXCEPT ![filling] = window]
    /\ state' = Ready(state, {t \in {PhotoThd} : state[t] = "WTCOND"})
    /\ UNCHANGED <<pc, terminate, photo_finished_sem, photoVars, dcmi_prepared,
                   image_buff, halted, history>>

\* The DMA is overrun: dcmiErrorCb wakes nobody, and the end of the frame is
\* ignored from here on.
CameraError ==
    /\ ~halted /\ CameraMayFail /\ dcmi = "ACTIVE_ONESHOT"
    /\ dcmi' = "ERROR"
    /\ UNCHANGED <<state, pc, terminate, photo_finished_sem, photoVars,
                   dcmi_prepared, filling, heap, halted, history>>

-----------------------------------------------------------------------------
GameStep ==
    \/ GamePhotoInit \/ GamePhotoWaitFinish \/ GamePhotoTerminate
    \/ GamePhotoFree

PhotoStep ==
    \/ PhotoStart \/ PhotoDoubleBuffer \/ PhotoWhile \/ PhotoCapture
    \/ PhotoWaitImage \/ PhotoStrip \/ PhotoFinished \/ PhotoSend

Devices == I2cDone \/ SerialDone \/ FrameEnd \/ CameraError

Next == GameStep \/ PhotoStep \/ Devices \/ GameComesBack

Spec == Init /\ [][Next]_vars

(***************************************************************************)
(* Fairness: the scheduler runs photoThd whenever it is ready, and gameThd *)
(* in the waits of photoThd, which are long; the bus, the serial line and  *)
(* the camera finish what they do.                                         *)
(***************************************************************************)
Fairness ==
    /\ WF_vars(PhotoStep) /\ SF_vars(GameStep)
    /\ WF_vars(I2cDone) /\ WF_vars(SerialDone) /\ WF_vars(FrameEnd)

FairSpec == Spec /\ Fairness

-----------------------------------------------------------------------------
(***************************************************************************)
(* Properties.                                                             *)
(***************************************************************************)
TypeOK ==
    /\ state \in [Thread -> TState]
    /\ pc \in [Thread -> GamePc \cup PhotoPc]
    /\ pc[Game] \in GamePc /\ pc[PhotoThd] \in PhotoPc
    /\ terminate \in BOOLEAN
    /\ photo_finished_sem \in Semaphore
    /\ line_cnt \in 0..(MAX_LINES_2_SEND + PHOTO_HEIGHT)
    /\ send \in BOOLEAN
    /\ row \in 0..PHOTO_HEIGHT
    /\ window \in 0..(MAX_LINES_2_SEND + PHOTO_HEIGHT)
    /\ dcmi \in DcmiState /\ dcmi_prepared \in BOOLEAN /\ filling \in Buffer
    /\ image_buff \in [Buffer -> Pointer]
    /\ image \in [Buffer -> Int]
    /\ halted \in BOOLEAN
    /\ sent \in Seq(Int)
    /\ photos \in 0..MaxPhotos

\* The PC gets the lines of the picture from the top on, each of them once,
\* and never the buffer the DMA is filling: strip after strip the window, the
\* DMA's buffer and the counter agree (photo.c:49-73, dcmi_camera.c:208-218).
PictureInOrder == \A k \in DOMAIN sent : sent[k] = k - 1

\* The lines of a whole picture: every strip that begins in the first
\* MAX_LINES_2_SEND lines.
PictureLines == PHOTO_HEIGHT * (MAX_LINES_2_SEND \div PHOTO_HEIGHT + 1)

\* photo_wait_finish returns only when the whole picture was sent: "Waits for
\* the capture to be finished." (photo.c:107)
FinishedMeansSent ==
    pc[Game] \in {"terminate", "free"} /\ state[Game] = "READY" =>
        Len(sent) = PictureLines

\* The same of the first photo, whatever the frames do; of a second one it
\* does not hold.
FirstPhotoComplete == photos <= 1 => FinishedMeansSent

\* The assertions of the DCMI driver hold through the first photo: it is
\* stopped when it is prepared and ready when it is started (dcmi.c:104, 122,
\* 139), and no buffer is freed twice.
NeverHalts == photos <= 1 => ~halted

\* The DMA only writes to memory photoThd owns: photo_stop "Stops the photo
\* thread and frees the buffers used." (photo.c:97)
CaptureIntoOwnBuffer ==
    dcmi = "ACTIVE_ONESHOT" => \A b \in Buffer : image_buff[b] = "allocated"

\* photoThd waits for the end of a frame that is over, or that was lost in an
\* overrun: chCondWait does not ask whether the image is ready.
FrameMissed == state[PhotoThd] = "WTCOND" /\ dcmi # "ACTIVE_ONESHOT"

\* The game gets its photo, the first and the second, unless a frame is missed
\* or an assertion fails: no other wait of the two threads is left hanging
\* (photo.c:46-80, dcmi_camera.c:146-151).
PhotoTaken ==
    pc[Game] = "wait_finish" ~> pc[Game] = "free" \/ FrameMissed \/ halted

\* photoThd ends after photo_stop, although the thread is in the middle of a
\* capture then (photo.c:46, 100).
PhotoThreadEnds ==
    terminate ~> state[PhotoThd] = "FINAL" \/ FrameMissed \/ halted

=============================================================================
