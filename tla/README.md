# 2Puck in TLA+

2Puck is a game for two musicians around an e-puck2 robot. The robot picks a
song, listens to both players in turn, scores each recording, drives to the
better player and sends a photo to a PC. The program (`2Puck/*.c`) runs on
ChibiOS/RT as a dozen threads that meet in messages, a mutex, semaphores and a
thread reference. This directory models it, checks the models with TLC and
proves theorems about them with TLAPS.

## 1. The system

| Component | Source | State it keeps | Operations | Meets the others by |
|---|---|---|---|---|
| Game | `game.c` | FSM state, loop variable, scores | the five states of `gameThd`, `game_send_score` | starts and stops everything; score messages from Music |
| Music | `music.c` | chosen song, recording, play lock, thread reference | `musicThd`, `music_init/stop/listen`, `music_is_playing`, `music_send_freq`, `play_song`, `stop_song` | frequency messages from Mic, score messages to Game, `sem_new_note` to the lights |
| Audio processing | `audio_processing.c` | sample buffer, overlap, Schmitt trigger, registered edge (all static) | `processAudioDataCmplx` | runs in the driver's thread, probes the play lock, sends to Music |
| Microphone driver | `mp45dt02_processing.c`, `microphone.c` | DMA offsets, `DataProcessingSem`, tenth-buffer index | `DataProcessing`, two DMA interrupts, `mic_start`, `mp45dt02Shutdown` | semaphore from interrupts, terminate flag from Game |
| Lightshow | `lightshow.c` | colours, LED states | three threads | `sem_new_note`; terminate flags; the random number generator |
| Kernel | `os/rt/src` of ChibiOS | ready list, queues | messages, recursive mutexes, semaphores, references, create/terminate | used by all |
| Console | `console.c`, `Python/2puck.py` | serial line | server thread, synchronous prints, picture writer, host loop | messages; the line itself |
| Random numbers | `rng.c` | clock and enable bits | `rng_init/get/stop` | used by Music and Lightshow at the same priority |
| Pathing | `pathing.c` | target, position, PID state | `pathingThd`, `move` | motors, proximity, semaphore to Game |
| Photo | `photo.c`, `dcmi_camera.c`, `dcmi.c` | line counter, send flag (static), two heap buffers, state of the DCMI driver | `photoThd`, `photo_init/wait_finish/stop` | camera interrupt, serial line, semaphore to Game |
| Sound player | `play_sound_file.c`, `audio_thread.c` | play flag, thread reference, two buffers, DAC state | player thread, `playSoundFile`, `stopCurrentSoundFile`, `end_cb` | DAC interrupt, binary semaphore, condition variable, SD card |
| Motors, proximity | `motors.c`, `proximity.c` | step counters, readings | timers, ADC | read by Pathing |

What is hard here, and hard to test:

- **Interleaving at different priorities.** Game and Mic run above Music and
  the lights. Mic takes the play lock only to see whether it is free; Music
  holds it outside the turns. The frequency is sent long after the probe.
- **Wake-ups that can be lost.** `chThdResume` on an empty reference does
  nothing; a binary semaphore swallows signals; a semaphore reset releases one
  wait where the thread has two.
- **Restarts.** A second game creates the threads again in the same working
  areas while kernel objects and static variables keep what the first left.
- **Boundaries.** `i--` on a `uint8_t` at zero, an offset added to an unsigned
  bin index, a percentage truncated towards zero.
- **Stopping.** Flags are raised, nobody waits for the threads; `photo_stop`
  frees buffers and `stop_song` stops the DAC under a thread that uses them.
- **Double buffers.** The camera's DMA and the DAC's interrupt swap buffers on
  one side, a thread on the other, and each keeps its own idea of whose turn
  it is.

Correctness, component by component: each player is judged by the player's own
turn and the robot goes to the better one (Game); a recording is complete and
contains nothing from outside its turn (Music, Audio); the probe never blocks
and leaves the lock as it was (Audio); no kernel assertion fails, because a
failed one halts the robot (all); a game that starts ends (all); threads end
when told (Music, Mic, Lightshow); a tone is recognised as the closest note
and a better recording scores more (Music); the PC gets every line of
the picture once and in order, the DMA writes only to memory that is the
photo's (Photo); the listeners hear every block of the song once and in order,
the song ends and the DAC falls silent (Sound player); a frequency is that of
the player's own sound and belongs to the note that was heard (Audio); the
robot and the PC never wait for each other (Console); a drive ends, near its
goal and before the photo (Pathing).

## 2. Modules

| Module | Content |
|---|---|
| `ChibiOS` | the kernel objects as operators on their values; a call is atomic, as interrupts are locked inside it |
| `Notes` | the pure arithmetic: bin to frequency, frequency to note, recording to score |
| `MusicGame` | the four threads of the game, EXTENDS both |
| `Turns` | the abstract game: one score per player and turn, the robot to the best |
| `MusicGameTurns` | the refinement mapping, `ImplementsTurns == T!Spec` |
| `Photo` | the photo: `photoThd`, the camera driver and its interrupts, gameThd's part; EXTENDS `ChibiOS` |
| `SoundFile` | the song of the winner: the player's thread, the DAC and its interrupt, `play_song` and `stop_song`; EXTENDS `ChibiOS` |
| `AudioCapture` | the samples between the microphone and musicThd: window, overlap, Schmitt trigger, registered note |
| `Console` | the serial line: prints, prompts and picture of the robot, the PC's program and its user |
| `Pathing` | the drive: gameThd, the sensors' calibration, pathingThd, the loop of `move`, the motors' interrupts |
| `MCMusicGame`, `MCNotes`, `MCPhoto`, `MCSoundFile`, `MCAudioCapture`, `MCConsole`, `MCPathing` | instances for TLC |
| `MusicGame_proofs` | the types, the recording, the refinement of `Turns` |
| `MusicGameThreads_proofs` | how the threads keep together, what each waits for, that one game is played; EXTENDS `MusicGame_proofs` |
| `Notes_proofs`, `Photo_proofs`, `SoundFile_proofs`, `AudioCapture_proofs`, `Console_proofs`, `Pathing_proofs` | the theorems of each part |

The modules of the parts meet in gameThd, which starts the song, drives, waits
for the photo and stops the song. `MusicGame` takes this as waits that end, and
`DriveEnds`, `PhotoTaken` and `PictureIsMailed` say of the parts that they do;
each part takes the rest of the game as a step. `AudioCapture` opens what
`MicIgnore` and `MicSendFreq` of `MusicGame` choose from: an edge or not, a full
window or not. `Console` takes from the others that nobody prints while the
picture is sent: gameThd waits for it, and musicThd has ended (`MusicStops`).

Operators whose comment begins with "Mutant of" are not part of a model: each
is a definition with a plausible mistake, which a property of the project
detects when it takes the definition's place.

### MusicGame against the code

A thread is a program counter and a `p_state`; an action runs it from one place
where it may block or be preempted to the next. `Runs(t)` is the scheduler: a
ready thread runs when no ready thread has a higher priority; equals share the
core in 20 ms slices (`chconf.h:82`), so either may go on.

| Actions | Code |
|---|---|
| `GameIdle` ... `GameFinished` | `gameThd`, by FSM state; prints are a wait for the console's thread |
| `GameMusicInit` | `music_init`: creation overwrites a thread's state, flag, message queue and mutex list but not the mutex itself |
| `GameListen` | `music_listen`, lost if nobody is suspended |
| `GameMusicStop` | `music_stop`: DMA off, flags raised, `chSemReset` |
| `MusicLockStart` ... `MusicSleep` | `musicThd`, statement by statement around its waits |
| `MicWhile`, `MicWait2`, `MicTest` | `DataProcessing` |
| `MicTryLock`, `MicUnlock` | `music_is_playing` |
| `MicIgnore`, `MicSendFreq`, `MicSent` | `processAudioDataCmplx` |
| `MicDma` | either interrupt |
| `LightWhile`, `LightColour` | `lightshowThd` |
| `ConsoleRelease`, `Tick` | the console's thread; the virtual timer |

A failed `chDbgAssert` is the step `Halt` inside the action of the call
(`chThdSuspendS`, `chMtxUnlock`): it sets `halted`, after which nothing runs.

Abstractions: a buffer's samples become three choices (an edge of the volume
or not; the window full or not; the frequency of a full window, from `Heard`);
the tenth-buffer index becomes a choice; the song file, the drive and the photo
are waits of Game that end; the priority boosts of mutexes are left out because
whoever waits for the play lock never has a higher priority than its owner.

Assumptions about time, each named:

- `Tick`: the clock advances only when no thread is ready or printing. A tick
  stands for half a second, the threads' work between waits for milliseconds.
  `ScoreDelay < PlayerDelay` are the 500 ms and 4000 ms of the code.
- `KeepsUp`: a window is not complete while Music still handles the last note
  or has not run since its creation. Windows are 2048 new samples apart, 128 ms
  at 16 kHz. `main` returns into a busy loop at Music's priority, which costs
  slices of 20 ms. The run `overload` makes no such assumption;
  `SilentBetweenTurns` needs it.

Bounds: `MaxGames` games, `MaxDma` buffer signals ahead of Mic. `idx` needs
none: it wraps in eight bits, as in the code.

### Photo against the code

photoThd runs above gameThd; an action runs a thread from one wait (I2C, the
end of a frame, the serial line) to the next, except that the start of a
capture and the wait for its end are two actions, as an interrupt may come in
between.

| Actions | Code |
|---|---|
| `GamePhotoInit`, `GamePhotoWaitFinish` | `photo_init`, `photo_wait_finish` |
| `GamePhotoTerminate`, `GamePhotoFree` | `photo_stop`: flag, then `dcmi_free_buffers` |
| `PhotoStart`, `PhotoDoubleBuffer` | `dcmi_start`, `po8030_start`, `dcmi_enable_double_buffering` |
| `PhotoWhile` | the loop's test and `po8030_advanced_config` over I2C |
| `PhotoCapture`, `PhotoWaitImage` | `dcmi_prepare` and `dcmi_capture_start`, `wait_image_ready` |
| `PhotoStrip`, `PhotoSend`, `PhotoFinished` | the strip is sent row by row; the counter; the two signals |
| `FrameEnd`, `CameraError` | `frameEndCb` and the DMA's buffer flip, `dcmiErrorCb` |
| `I2cDone`, `SerialDone`, `GameComesBack` | external: bus, serial driver, the next game |

A strip is the number of its first line, a row its line number; pixels are left
out, and so is `line_ready_sem`, on which nobody waits. `halted` is a failed
assertion of the DCMI driver or a `free` of freed memory.

Assumptions: `malloc` succeeds. A frame may end before photoThd waits for it
(a frame takes tens of milliseconds, the way to the wait microseconds); its end
is then lost and the thread waits for ever, so that the liveness properties say
that the photo is taken *or* a frame was missed (`FrameMissed`), which an
overrun of the DMA (`CameraMayFail`) also counts as. The next photo begins after photoThd has
ended (games take minutes).

### SoundFile against the code

The player's thread and gameThd have the same priority. An action runs one of
them from one place where it waits, or where the interrupt may find it, to the
next: `PlayerRead`, `PlayerConvert`, `PlayerFirstBlock`/`PlayerNextBlock` and
`PlayerSwap` are the statements of one pass of `playWAVFile`'s loop, and
`EndCb` may come between any two of them.

| Actions | Code |
|---|---|
| `GameDacStart`, `GamePlayerStart`, `GameNoCard`, `GameForceChange`, `GameResume` | `play_song` between its sleeps |
| `GameStopSong`, `GameDacStop` | the two calls of `stop_song` |
| `PlayerSuspend`, `PlayerFinish`, `PlayerBroadcast` | `PlaySoundFileThd` |
| `PlayerOpen`, `PlayerTest`, `PlayerRead`, `PlayerReadFails`, `PlayerConvert`, `PlayerFirstBlock`, `PlayerNextBlock`, `PlayerSwap` | `playWAVFile` |
| `EndCb`: `EndOfBuffer`, `NextBuffer`, `NoBuffer` | `end_cb` at the end of a buffer; it does nothing in its middle |
| `CardTaken`, `PlayerWakes`, `GameWakes` | external: SD card, timers |

A block is its number in the file; samples are counted, which is what `end_cb`
decides on. `content` is what a buffer holds: the number of its block, or
`NOISE` from the moment the card begins to write to it.

Assumptions: `KeepsUp` says that the interrupt does not find the thread between
two blocks, that is, a block is read in less time than one is played (12 ms for
512 samples at 44.1 kHz). Without it `SongInOrder` fails: `end_cb` then plays
what the buffer holds. Songs are longer than a block. Game's sleeps of 50 ms
are longer than the thread's way to its next wait, and its next game begins
when the thread waits for a file. The card may be taken out in every run but
the one of the finding; what is said of the end of a song is said of a card
that stays.

### AudioCapture against the code

A callback of `processAudioDataCmplx` is two steps, as the play lock may change
while the transform is computed: `Capture` is the loop over the samples,
`note_volume` and the registration; `Window` or `NotFull` is what follows. A
sample is its number in the recording, so that `input` says what the array
really holds. Complex samples are counted, the code counts the two floats of
each. `Ignore` is a callback while nobody plays, `TurnStarts` and `TurnEnds`
are musicThd's changes of the lock, the second only after a note.

The volume of a buffer is a choice of three; the Fourier transform and the
search for its strongest bin are left out.

### Console against the code

| Actions | Code |
|---|---|
| `SayInput`, `SayPrompt`, `GetChar` | `console_get_char` in gameThd's IDLE |
| `PlayGame`, `SayPhoto`, `SendRow`, `SayTaken` | the prints of a game; `SendUint8ToComputer` for every row |
| `ReadLine`, `Ask`, `Answer` | the loop of `2puck.py`; the user |
| `Sync`, `Synchronised` | `readSyncMsg` |
| `ReadByte`, `ReadSize`, `StoreRow` | `readUint8Serial`, `rec_picture` |
| `LoseByte` | external: the line |

Lines of text arrive, bytes of the picture may be lost. The PC listens from the
start. The robot's queue drops what it does not hold.

The sizes a lost byte can feign are all taken as the code takes them: a negative
one reads nothing, none at all and an odd one make `struct.unpack_from` fail,
and any other gives a row of that length. With such rows `Image.frombuffer` has
a picture or fails for want of data, which is left open.

### Pathing against the code

Lengths are in hundredths of a millimetre: a step is 13 of them, so that the
error of the code in steps is an integer here.

| Actions | Code |
|---|---|
| `GamePathingInit`, `GameCalibrated`, `GamePathingWaitFinish` | `pathing_init` up to `calibrate_ir`, and after it; `pathing_wait_finish` |
| `ProximityCalibrate` | a pass of `proximity_thd` |
| `PathingMove`, `PathingLastMove`, `PathingFinished`, `PathingStop`, `PathingExit` | `pathingThd`, `pathing`; `MoveStart` is the beginning of `move` |
| `ReadLeft`, `ReadRight`, `SetRight`, `SetLeft` | a pass of `move`'s loop: the two readings, the two commands |
| `Microstep` | the timers' interrupts |
| `OthersSlice` | 20 ms of the busy loop `main` became, at the same priority |

The PID: with `Ki = 0` the increments of `arm_pid_f32` add up to 2.1 times the
error less 0.1 times the error of the call before, which is the other wheel's.
Of its output only the sign matters, as every speed is at least `MIN_SPEED`; the
rounding of the floats is left out.

Assumptions about time: running wheels have one speed (`MIN_SPEED`; only the
last 30 mm begin faster), a pass of the loop is shorter than a microstep
(microseconds against 1.7 ms), in its own slice the thread sees at least `OWN`
microsteps of a wheel, in another's a wheel makes one of `SLICE`: 12 or 13, or
fewer when it was just started and its timer still counts the 10 ms of its
halt. The theorems take less for granted, `MovesAssumption`: a slice of 20 ms
(`chconf.h:82`) has at most 20 microsteps, which is more than a wheel makes at
any of its speeds, and the thread's own slice at least two. Where the robot is and what the sensors see is a choice; after `MaxMoves`
moves it is near its goal, so that `DriveEnds` says that every move ends, not
that the moves lead to the player.

## 3. Runs

| Run | Question | Instance | Distinct states |
|---|---|---|---|
| `game` | Are the scores those of the turns, are turns clean, does the kernel survive, does a game always go on, does musicThd end? | one game, songs of two notes and of one, two notes and a noise, fairness | 40 207 |
| `overload` | What holds without timing assumptions, and in a second game? Do the threads implement `Turns`? | two games, `KeepsUp = FALSE`, two buffers ahead | 138 967 |
| `notes` | Is the closest note found, can every note be heard, do truncated percentages separate recordings? | all frequencies and bins to 2047, melodies to 64 notes | 4 191 |
| `photo` | Are lines sent in order, from the right buffer? Is the first photo whole, does no assertion fail in it, does the game get it, does photoThd end? | two photos of 350 lines in strips of 4, any frame times, overruns, fairness | 3 304 |
| `sound` | Do thread and interrupt exchange the buffers rightly, does a song end, does the DAC fall silent? | songs of 6, 7, 11 and 14 samples in blocks of 4, two songs, a card that may go, fairness | 2 666 |
| `audio` | Whose sound is in a window, is the registered note in it, does a long sound count once? | windows of 16 samples, buffers of 5, 13 callbacks, any volumes and turns | 103 422 |
| `console` | What stalls robot and PC, is START found, does the picture arrive? | 3 rows of which the PC takes 2, pixels that look like START, or like a size, three answers, two lost bytes, fairness | 2 139 458 |
| `pathing` | Does every move end, how near its goal, does a wheel stray, does the robot stand at the photo? | all evasions, two moves of `update_path`, one of them clipped, a short last move, any number of games, fairness | 1 645 929 |
| `again` | "Send w to start the Game" again? | two games | violated |
| `stop` | "Stops the microphone, music and lightshow threads." | one song, fairness | violated |
| `photo_stop` | "Stops the photo thread and frees the buffers used." | one photo | violated |
| `sound_stop` | "Use waitSoundFileHasFinished() to be sure the sound has stopped." | a song of 14 samples, fairness | violated |

The bounds are enough for what the properties speak of: two notes give a first
note, a last note and one in between two notes; noise before the first note
wraps the counter; two songs show that the length is the chosen one's; two
games show what is left over from the first; two buffers ahead let both waits
of Mic pass without blocking. `overload` sets `CHECK_DEADLOCK FALSE` because
the second game halts the kernel there (see `again`); `NeverHalts` is checked
for the first game only, in `game`.

`photo` has the sizes of the code. Its second photo finds the static variables,
the driver and the heap as the first left them; it may halt, hence
`CHECK_DEADLOCK FALSE`. The songs of `sound` have one, two and three whole
blocks before the last one, so that each buffer is played, waited for and
filled again; odd rests are cut by `end_cb`. Their rests are 2 and 3 of 4
samples on purpose. With a song of whole blocks (`FileLength = {8}`) the last
read returns nothing, `end_cb` stops the DAC without a signal and the thread
hangs: `SongEnds` is violated. With a rest of one sample (`{5}`) `end_cb` takes
the end of the block for its middle and the DAC repeats the sample:
`DacFallsSilent` is violated. The songs are on the SD card and not in the
repository, so that whether these lengths occur is open.

In `audio` the buffer is no divisor of the window nor of its half, as 160 is
none of 4096 and 2048; 13 callbacks fill the windows of two turns and more, the
second with what the first left. In `console` a row is shorter than START and
may contain its first letters, an answer is empty, right, or longer than one
letter, and the queue holds two; of the two contents of a row one ends in
the first letter of START and is a negative size when bytes before it are lost,
the other an odd one; `CHECK_DEADLOCK FALSE` because an empty answer
does stall both. In `pathing` the code's window of three steps, its evasions
and its clipping are unchanged; the last move and the calibration are shortened,
which repeat what shorter ones do. 860 against 40 makes one wheel run the wrong
way first, -30 is so short that its wheel never starts.

Findings (the violations):

1. **A second game halts the robot.** `musicThd` leaves its loop holding
   `music_play_lock`. In the next game the same working area locks it again:
   the recursive lock counts to two without entering the new, empty mutex list,
   and `chMtxUnlock` asserts on that list (`chmtx.c:331`).
2. **`lightshowThd` never ends.** After `music_stop` it waits for a note that
   never comes (run `stop`).
3. **The microphone's thread may never end.** A reset in its first wait sends
   it into the second, with the DMA off (the same run: its trace ends with both
   threads waiting).
4. **`photo_stop` frees buffers in use.** It raises a flag and frees at once;
   photoThd may just be setting the camera's window and then captures into
   freed memory (run `photo_stop`).
5. **`stop_song` leaves the player hanging.** It stops the DAC while the thread
   reads; the thread then waits for the DAC's interrupt for ever (run
   `sound_stop`).

Not findings, but worth knowing: the wait for a second photo returns at once,
as `photo_finished_sem` is signalled twice at the end of the first photo and
waited for once (why `FirstPhotoComplete` speaks of the first); an empty line
typed on the PC leaves both sides waiting (`OnlyEmptyLinesStall`); the first two
windows of a turn may hold sound of the turn before (`OwnSoundFromThirdWindow`).

### Fairness

`FairSpec` assumes: the ready thread of the highest priority runs (weak
fairness for Game and Mic); Mic is again and again without a buffer, so that
Music and Light run although they are preempted (strong fairness); the clock
and the DMA go on; one buffer pair in ten reaches the callback; the console
prints; the robot arrives and the photo ends. Of the players it assumes that,
on their turn, a full window with an edge and a recognisable note comes again
and again. Nothing makes the user start a game.

`FairSpec` of `Photo`: photoThd, which has the higher priority, runs when it can
(weak), gameThd when it can again and again (strong), and the bus, the serial
line and the camera answer. That of `SoundFile`: both threads run, as they share
the core in slices; the card, the DAC and the timers go on. Whether and when
the game comes to `stop_song` is left open, which is why `SongEnds` speaks of a
song that is not stopped. That of `Console`: both programs go on and the user
answers, as long as the bound on the answers lets him. That of `Pathing`: both
threads run, the ADC measures, and a wheel that was started turns; slices of the
other thread are never promised, only limited by `OWN`.

## 4. Theorems

For every set of songs (of 1 to 255 notes), every set of frequencies, all
delays the assumptions allow, and any bounds:

- `TypeCorrect`: `Spec => []TypeOK`. `TypeOK` is inductive by itself because it
  says that musicThd has a song from `choose` on. One lemma per thread, one
  step per action, one leaf per part of `TypeOK`.
- `RecordingIsComplete`: `Spec => []RecordingComplete`. The property is not
  inductive: the counter is stepped back in eight bits before it is stepped
  forward. `RecordingInv` speaks of its value after the increment,
  `(idx + 1) % 256`, and says that so many notes are written while the thread
  is inside the loop.
- `MusicGameImplementsTurns`: `Spec => ImplementsTurns`. `TurnsInv` says who
  sends to the game (only musicThd) and what (a percentage, by the clamp of
  `calculate_score`), and in which part of the game gameThd waits where.

- `PhotoTypeCorrect` and `PictureIsInOrder`: `Spec => []TypeOK` and
  `Spec => []PictureInOrder` of `Photo`, for pictures and strips of any size,
  frames that end at any time and cameras that fail. The types need to know
  where the thread is in a strip (`WaitInv`); the order needs `PictureInv`: the
  window, the buffer the DMA fills and the counter agree as long as the picture
  is unfinished, and a second photo sends nothing.
- `SoundTypeCorrect`: `Spec => []TypeOK` of `SoundFile`, inductive by itself.
- `SongIsInOrder` and `BufferIsFree`: `KeepsUp => (Spec => []SongInOrder)` and
  the same of `NeverFillsWhatPlays`, for blocks of any even size and songs of
  any length. `SemInv` ties the semaphore to the thread's state, `PlaceInv` says
  that Game prepares a song only while the thread has none. `ExchangeInv` is
  the agreement about the buffers: nothing plays before the first block
  (`FirstInv`); the thread fills the buffer that does not play until the
  interrupt has come, and nothing is left to play outside the loop, unless the
  card is gone (`BufferInv`); the semaphore is never given in advance
  (`SignalInv`); every block read was handed over, but for the last one until
  the interrupt has come (`OrderInv`).

- `AudioTypeCorrect`, `NoteIsHeard`, `SoundIsOneNote`, `SoundIsOwn`:
  `Spec => []TypeOK`, `[]NoteIsInWindow`, `OneNotePerSound` and
  `[]OwnSoundFromThirdWindow` of `AudioCapture`, for windows of any even size,
  buffers of any size and recordings of any length. `CountInv` ties the two
  counters, which the code keeps apart, and is what keeps them in the arrays.
  `EdgeInv` says when the trigger is open: only if a buffer was quiet after the
  onset of the last note. `OwnInv` follows the turn's own samples from the
  second half of its first window to the whole of its third.
- `PathingTypeCorrect` and `RobotStandsAtPhoto`: `Spec => []TypeOK` and
  `Spec => []StandsAtPhoto` of `Pathing`, for any moves, slices, speeds of the
  thread and numbers of games. `DriveInv` says that the wheels stand outside a
  move, and that once the semaphore was given the thread makes no other move.
- `MovesEndNear` and `WheelsStrayLittle`: `Spec => []ArrivesNear` and
  `Spec => []StraysLittle`. The error a pass computes is that of the counter it
  read, which the wheel has left since; `ReadInv` says by how much at most, in
  every place of the pass. Of a wheel that turns away from its goal
  `CommandInv` says that when it got the command it had room within its reach
  for all it makes before it is read again. The argument is in lemma `WrongWay`:
  the shared PID turns a wheel the wrong way only if the error of the other one
  is at least 21 times its own, by the 2.1 and the 0.1 of the increments, and
  the other's error is bounded by the same invariant.

- `ThreadsKeepTogether`: `Spec => []IInv` of `MusicGame`, for any players,
  notes, delays and number of games, and with or without `KeepsUp`. Five
  theorems follow from its parts:
  - `KernelIsConsistent` (`[]KernelConsistent`) from `SemaphoreInv` (who waits
    for which semaphore, and that a negative counter counts them) and `LockInv`
    (the owner of the play lock lists it, nobody waits for it, Music has it
    outside the turns, Mic for its probe only). That Mic holds the lock only
    while it runs is the argument of the priorities: `MicInv`.
  - `ResumeIsNotLost` (`ResumeNotLost`) from `ProtocolInv`, which says for every
    place of Game in which places Music can be, with the timers: Music's pause
    of `ScoreDelay` ends before Game's of `PlayerDelay`.
  - `TurnsStartSilent` (`KeepsUp => (Spec => []SilentBetweenTurns)`): a
    frequency on its way finds a Music that asks for one.
  - `WinnerIsAlwaysRight` (`[]WinnerIsRight`) from `ScoreInv`: so many scores
    are computed as turns are over, each with its player.
  - `FirstGameNeverHalts` (`MaxGames <= 1 => (Spec => []NeverHalts)`) from
    `FirstInv`: in the first game Music lists the lock whenever it has it. The
    hypothesis is needed: run `again`.
- `SecondGameIsNotPlayed`: `Spec => []OneGameIsPlayed` of `MusicGame`, the first
  finding for every instance: however often the user asks, the second game has
  no score and no winner, and there is no third. `OneGameInv` keeps that Music
  has the lock without listing it from the moment it is created again.
- `PicturesAreNotDisturbed`: `Spec => []PictureHasTheLine` of `MusicGame`, what
  `Console` takes for granted: while gameThd waits for the photo musicThd, the
  only other thread that prints, prints nothing. The loop over the players is
  left when Music has sent its score, and from there its ways lead to no print.
- `GameWaitsForATurn`: `Spec => []TurnGoesOn` of `MusicGame`, what liveness needs
  of every state: while gameThd waits for a score, musicThd is in the turn and
  has something to do or waits for a frequency; then the microphone is on, the
  lock does not keep the sound from it, and its thread works or waits for the
  next buffer. It rests on `RestInv` (`WhatThreadsWaitFor`): in which place each
  thread may rest, and that what it waits for there has not come already.
- `FirstPhotoIsComplete` and `FirstPhotoNeverHalts`:
  `Spec => []FirstPhotoComplete` and `Spec => []NeverHalts` of `Photo`.
  `StripInv` says that the counter stands between two strips, none of which
  begins beyond the picture; `FirstInv` that in the first photo the driver is
  ready between two captures and the buffers are freed once, after the last row.
- `WindowIsInOrder`: `Spec => []WindowInOrder` of `AudioCapture`. Whatever the
  overlap buffer holds of the window's second half is that half.
- `ConsoleTypes`, `SearchForStart`, `PromptsFindCharacters`, `PictureArrives`:
  `Spec => []TypeOK`, `[]SyncIsRight`, `[]OnlyEmptyLinesStall` and
  `[]PictureIsReceived` of `Console`, for rows of any content and of 1 to 16383
  pixels, all that a size of two bytes with a sign can say and the code's 250
  among them, pictures of any height and a robot's queue of any size. The search
  rests on a fact about the word: no beginning of START ends in a shorter one
  (`SyncInv`). The prompts are counted against the characters typed. The
  picture needs to know where it is on the line (`LineInv`: the game's lines,
  then the photo's line, then bytes, seen from where the PC is) and at which
  position of the line every row is (`RestOnLine`).
- `PictureIsNotExceeded` (`Spec => []NoLineTooMany`): no photo sends more lines
  than the picture has; and `GameWaitsForAThread` (`Spec => []GameIsServed`):
  while gameThd waits for the photo and no frame was missed, photoThd is not
  told to end and is ready or waits for a device that answers (`ServedInv`).
- `GameIsNotKept`: `Spec => []GameNeverWaits` of `SoundFile`. gameThd never waits
  on the condition variable of `waitSoundFileHasFinished`, whose broadcast could
  be lost (`RefInv`: the thread waits for a file, and its reference says so, when
  gameThd hands one over).
- `FirstSongIsSafe` (`KeepsUp => (Spec => []FirstSongPlays)`): no assertion fails
  before a second song. `PlayerWaitsForTheDac`
  (`KeepsUp /\ SongsEndInPart => (Spec => []PlayerIsWoken)`): while the thread
  waits for the DAC and no song was stopped under it, the DAC plays a buffer
  after which the thread is woken (`PartInv`, `GoesOnInv`). `SongsEndInPart`
  says that a last block has two samples at least and is not whole; the songs
  it leaves out are the ones on which the thread or the DAC does hang
  (`play_sound_file.c:62`, `:75`).
- `LoopFindsClosest`, `ClosestNoteIsFound`, `ClosestBinIsHeard`,
  `EveryNoteIsHeard` of `Notes`: for every frequency there is, without a bound,
  the loop of `freq_to_note` finds the first of the notes closest to it, and the
  bin next to each of the sixty notes is recognised as that note. The loop is a
  recursive function over the table. That it exists and what it computes are
  shown by the smallest step at which either would fail (`UpTo`), as the
  library's induction theorems cannot be used.
- `ScoresArePercentages` and `BetterPlayersScoreMore`:
  `Spec => []ScoreIsPercentage` for melodies of up to 255 notes, and
  `MaxSize <= 75 => (Spec => BetterScores)` of `MCNotes`.
  The percentages lie in -25 to 100, within the -100 to 100 of the comment
  (`music.c:179`), as a wrong note takes a quarter of what a right one gives.
  `MoreRightNotesScoreMore` says it of any two recordings of a melody. 75 is
  where the truncation begins to matter: with 77 notes two different results
  are both zero.

They rest on the named assumptions of the constants, which TLC evaluates in
every run, and, in `MusicGame`, on `freq_to_note` only through its range.

Only model-checked is liveness (`ImplementsFairTurns`, `MusicStops`,
`PhotoTaken`, `PhotoThreadEnds`, `SongEnds`, `DacFallsSilent`, `PictureIsMailed`,
`DriveEnds`), which is out of the prover's reach. The theorems that say what a
thread waits for (`GameWaitsForATurn`, `GameWaitsForAThread`,
`PlayerWaitsForTheDac`) are its part that can be proved: no state is one in
which everybody waits for what has come and gone.

## 5. Plan

Built so far: the game of turns, the photo, the song, the samples of a turn,
the serial line and the drive. All of the program's threads with a state of
their own are modelled but the LEDs' and the camera's colours.

Every invariant and action property the passing runs check is a theorem.

Not modelled and why:

- The Fourier transform, the trigonometry of the dead reckoning and the rounding
  of floats: floating point, out of TLC's reach. What follows from their results
  is modelled for all of them (any frequency, any move).
- `rng.c`: three register accesses. Its users share it at one priority, and one
  could stop the generator under the other; but each begins to draw in a fresh
  slice of 20 ms, which a draw does not fill, so that a model of it would have
  to take one of these times away to show anything.
- The two LED threads of `lightshow.c` and `spi_thread`: they write colours.
  Their creation over a thread that still lives is a hazard of the kernel's
  ready list and timers, which `ChibiOS` does not have; `MusicGame` creates
  `lightshowThd` in place.
- The pulses and the ADC of the proximity sensors, the coil patterns of the
  motors, the filters of the microphone, the mail and the image file on the PC,
  file access: they keep nothing that another part reads but what is a choice
  above.
- Hardware set-up and `main`: straight-line initialisation.
- The vendored code under `lib` (kernel, HAL, CMSIS, FatFs), which is nearly all
  of the repository's lines: modelled where the program's properties rest on it
  (`ChibiOS`, the drivers of camera, DAC, motors and sensors), and taken as
  documented elsewhere.
