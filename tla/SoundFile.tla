----------------------------- MODULE SoundFile -----------------------------
(***************************************************************************)
(* The song of the winner: play_song and stop_song of music.c as gameThd   *)
(* calls them, the thread of play_sound_file.c, which reads a wav file     *)
(* from the SD card block by block, the DAC, which plays one of its two    *)
(* buffers while the thread fills the other, and the interrupt end_cb      *)
(* between them.                                                           *)
(*                                                                         *)
(* The two threads have the same priority.  An action runs one of them     *)
(* from one place where it waits, or where the interrupt may find it, to   *)
(* the next.  A block is its number in the file; samples are counted, not  *)
(* represented.  DMA errors (chSysHalt) and the volume are left out.       *)
(***************************************************************************)
EXTENDS ChibiOS

CONSTANTS
    Game, Player,
    BLOCK,            \* SIZE_SOUND_BUFFER_16bits
    FileLength,       \* the songs, by their samples
    KeepsUp,          \* a block is read in less time than one is played
    CardMayFail,      \* the SD card may be taken out
    MaxSongs          \* bound: the songs Game plays

ASSUME PlayerThreadsAssumption ==
    /\ Thread = {Game, Player} /\ Game # Player
    /\ Prio[Game] = Prio[Player]

\* A song is longer than a block.
ASSUME SoundAssumption ==
    /\ BLOCK \in Nat /\ BLOCK >= 2 /\ BLOCK % 2 = 0
    /\ FileLength \subseteq Nat /\ \A n \in FileLength : n >= BLOCK
    /\ KeepsUp \in BOOLEAN /\ CardMayFail \in BOOLEAN /\ MaxSongs \in Nat

VARIABLES
    state, pc,
    play,
    play_sound_file_ref,
    change_buffer,              \* binary semaphore
    buffer_to_read, size_buffer_to_read,
    buffer_to_fill, first_time, \* variables of playWAVFile
    unread,                     \* the samples of the file still to read
    content,                    \* the block in each buffer
    dac,                        \* dac_state; DACD2.state goes with it
    dac_buffer, depth,          \* what the DAC plays
    cardOk,                     \* the SD card is there
    halted,                     \* a kernel assertion failed
    blocks,                     \* history: the blocks read
    played,                     \* history: the blocks played, as long as cardOk
    songs                       \* history: the songs asked for

control == <<play, play_sound_file_ref>>
exchange == <<buffer_to_read, size_buffer_to_read>>
filling == <<buffer_to_fill, first_time, unread, content, blocks>>
dacVars == <<dac, dac_buffer, depth>>
sound == <<change_buffer, exchange, filling, dacVars, played>>
rest == <<cardOk, halted, songs>>

vars == <<state, pc, control, sound, rest>>

GamePc == {"dac_start", "start", "play", "resume", "stop", "dac_stop"}
PlayerPc == {"exited", "suspend", "open", "test", "read", "convert",
             "hand_over", "swap", "finish", "broadcast"}

TState == ThreadState \cup {"WTCOND"}

Buffer == {1, 2}

\* What a buffer holds that is being filled, or was never.
NOISE == 0

Init ==
    /\ state = [t \in Thread |-> IF t = Game THEN "READY" ELSE "WTSTART"]
    /\ pc = [t \in Thread |-> IF t = Game THEN "dac_start" ELSE "exited"]
    /\ play = FALSE /\ play_sound_file_ref = NoThread
    /\ change_buffer = SemInit(0)
    /\ buffer_to_read = 1 /\ size_buffer_to_read = 0
    /\ buffer_to_fill = 1 /\ first_time = TRUE
    /\ unread = 0 /\ content = [b \in Buffer |-> NOISE]
    /\ dac = "STOPPED" /\ dac_buffer = 1 /\ depth = 0
    /\ cardOk = TRUE /\ halted = FALSE
    /\ blocks = 0 /\ played = << >> /\ songs = 0

At(t, l) == ~halted /\ MayRun(state, t) /\ pc[t] = l

\* t goes on at l in state s, and the threads of T are made ready.
Continue(t, s, l, T) ==
    /\ state' = [Ready(state, T) EXCEPT ![t] = s]
    /\ pc' = [pc EXCEPT ![t] = l]

Halt ==
    /\ halted' = TRUE
    /\ UNCHANGED <<state, pc, control, sound, cardOk, songs>>

dac_stop == dac' = "STOPPED" /\ UNCHANGED <<dac_buffer, depth>>

\* The DAC plays n samples of buffer b from now on.
DacPlays(b, n) ==
    /\ dac' = "PLAYING" /\ dac_buffer' = b /\ depth' = n
    /\ played' = IF cardOk THEN Append(played, content[b]) ELSE played

-----------------------------------------------------------------------------
(***************************************************************************)
(* gameThd: play_song in the state GOTO_WINNER, stop_song in FINISHED.     *)
(***************************************************************************)

\* dac_start stops the DAC; the SD card's driver is started likewise.
GameDacStart ==
    /\ At(Game, "dac_start") /\ songs < MaxSongs
    /\ songs' = songs + 1
    /\ dac_stop
    /\ Continue(Game, "SLEEPING", "start", {})
    /\ UNCHANGED <<control, change_buffer, exchange, filling, played, cardOk,
                   halted>>

\* playSoundFileStart creates the thread, whatever it was doing.
GamePlayerStart ==
    /\ At(Game, "start")
    /\ state' = [state EXCEPT ![Player] = "READY", ![Game] = "SLEEPING"]
    /\ pc' = [pc EXCEPT ![Player] = "suspend", ![Game] = "play"]
    /\ UNCHANGED <<control, sound, rest>>

\* mountSDCard finds no card.
GameNoCard ==
    /\ At(Game, "play") /\ ~cardOk
    /\ Continue(Game, "SLEEPING", "stop", {})
    /\ UNCHANGED <<control, sound, rest>>

\* playSoundFile with SF_FORCE_CHANGE: stopCurrentSoundFile, and
\* waitSoundFileHasFinished, which waits if the thread is busy.
GameForceChange ==
    /\ At(Game, "play") /\ cardOk
    /\ play' = FALSE
    /\ Continue(Game, IF play_sound_file_ref = NoThread THEN "WTCOND" ELSE "READY",
                "resume", {})
    /\ UNCHANGED <<play_sound_file_ref, sound, rest>>

\* The file is handed to the thread if it waits for one.  Then Game goes its
\* way, through the drive and the photo.
GameResume ==
    /\ At(Game, "resume")
    /\ play' = TRUE
    /\ play_sound_file_ref' = NoThread
    /\ Continue(Game, "SLEEPING", "stop", {play_sound_file_ref} \ {NoThread})
    /\ UNCHANGED <<sound, rest>>

\* stop_song: stopCurrentSoundFile, ...
GameStopSong ==
    /\ At(Game, "stop")
    /\ play' = FALSE
    /\ Continue(Game, "READY", "dac_stop", {})
    /\ UNCHANGED <<play_sound_file_ref, sound, rest>>

\* ... and dac_stop.
GameDacStop ==
    /\ At(Game, "dac_stop")
    /\ dac_stop
    /\ Continue(Game, "SLEEPING", "dac_start", {})
    /\ UNCHANGED <<control, change_buffer, exchange, filling, played, rest>>

-----------------------------------------------------------------------------
(***************************************************************************)
(* PlaySoundFileThd.                                                       *)
(***************************************************************************)

PlayerSuspend ==
    /\ At(Player, "suspend")
    /\ IF play_sound_file_ref # NoThread THEN Halt ELSE
       /\ play_sound_file_ref' = Player
       /\ Continue(Player, "SUSPENDED", "open", {})
       /\ UNCHANGED <<play, sound, rest>>

\* playWAVFile up to its loop: the file is opened, its header skipped.
PlayerOpen ==
    /\ At(Player, "open")
    /\ \/ /\ cardOk
          /\ buffer_to_read' = 1 /\ buffer_to_fill' = 1 /\ first_time' = TRUE
          /\ unread' \in FileLength
          /\ content' = [content EXCEPT ![1] = NOISE]
          /\ blocks' = 0 /\ played' = << >>
          /\ Continue(Player, "READY", "test", {})
       \/ /\ ~cardOk
          /\ Continue(Player, "READY", "finish", {})
          /\ UNCHANGED <<buffer_to_read, filling, played>>
    /\ UNCHANGED <<control, change_buffer, size_buffer_to_read, dacVars, rest>>

\* The song is stopped, or the next block is asked for and comes into the
\* buffer.
PlayerTest ==
    /\ At(Player, "test")
    /\ IF play
       THEN /\ content' = [content EXCEPT ![buffer_to_fill] = NOISE]
            /\ Continue(Player, "QUEUED", "read", {})
            /\ UNCHANGED dacVars
       ELSE /\ dac_stop
            /\ Continue(Player, "READY", "finish", {})
            /\ UNCHANGED content
    /\ UNCHANGED <<control, change_buffer, exchange, buffer_to_fill,
                   first_time, unread, blocks, played, rest>>

\* Mutant of Samples: the file is taken to fill every block.
WholeBlock == BLOCK

\* What f_read finds.
Samples == IF unread < BLOCK THEN unread ELSE BLOCK

\* f_read returns; the interrupt sees the size from here on.
PlayerRead ==
    /\ At(Player, "read") /\ cardOk
    /\ size_buffer_to_read' = Samples
    /\ unread' = unread - size_buffer_to_read'
    /\ Continue(Player, "READY", "convert", {})
    /\ UNCHANGED <<control, change_buffer, buffer_to_read, buffer_to_fill,
                   first_time, content, blocks, dacVars, played, rest>>

\* f_read fails: playWAVFile returns, and leaves the DAC to itself.
PlayerReadFails ==
    /\ At(Player, "read") /\ ~cardOk
    /\ Continue(Player, "READY", "finish", {})
    /\ UNCHANGED <<control, sound, rest>>

PlayerConvert ==
    /\ At(Player, "convert")
    /\ blocks' = blocks + 1
    /\ content' = [content EXCEPT ![buffer_to_fill] =
                       IF size_buffer_to_read = 0 THEN NOISE ELSE blocks']
    /\ Continue(Player, "READY", "hand_over", {})
    /\ UNCHANGED <<control, change_buffer, exchange, buffer_to_fill,
                   first_time, unread, dacVars, played, rest>>

\* The first block starts the DAC, which does not take an odd number of
\* samples, unless it plays already.
PlayerFirstBlock ==
    /\ At(Player, "hand_over") /\ first_time
    /\ IF dac = "STOPPED" /\ size_buffer_to_read > 1 /\ size_buffer_to_read % 2 = 1
       THEN Halt ELSE
       /\ IF dac = "STOPPED" THEN DacPlays(buffer_to_read, size_buffer_to_read)
          ELSE UNCHANGED <<dacVars, played>>
       /\ first_time' = FALSE
       /\ Continue(Player, "READY", "swap", {})
       /\ UNCHANGED <<control, change_buffer, exchange, buffer_to_fill, unread,
                      content, blocks, rest>>

\* Mutant of PlayerNextBlock: the thread does not wait for the buffer.
PlayerNextBlockAtOnce ==
    /\ At(Player, "hand_over") /\ ~first_time
    /\ Continue(Player, "READY", "swap", {})
    /\ UNCHANGED <<control, sound, rest>>

\* The other blocks wait until the DAC has played the buffer before.
PlayerNextBlock ==
    /\ At(Player, "hand_over") /\ ~first_time
    /\ change_buffer' = SemWait(change_buffer, Player)
    /\ Continue(Player, IF SemBlocks(change_buffer) THEN "WTSEM" ELSE "READY",
                "swap", {})
    /\ UNCHANGED <<control, exchange, filling, dacVars, played, rest>>

\* Mutant of MoreToRead: the loop's condition is forgotten.
AlwaysMore == TRUE

\* The loop ends after a block that was not full.
MoreToRead == size_buffer_to_read >= BLOCK

PlayerSwap ==
    /\ At(Player, "swap")
    /\ buffer_to_fill' = 3 - buffer_to_fill
    /\ Continue(Player, "READY", IF MoreToRead THEN "test" ELSE "finish", {})
    /\ UNCHANGED <<control, change_buffer, exchange, first_time, unread,
                   content, blocks, dacVars, played, rest>>

PlayerFinish ==
    /\ At(Player, "finish")
    /\ play' = FALSE
    /\ Continue(Player, "SLEEPING", "broadcast", {})
    /\ UNCHANGED <<play_sound_file_ref, sound, rest>>

\* chCondBroadcast: whoever waits for the end of the song goes on.
PlayerBroadcast ==
    /\ At(Player, "broadcast")
    /\ Continue(Player, "READY", "suspend", {t \in {Game} : state[t] = "WTCOND"})
    /\ UNCHANGED <<control, sound, rest>>

-----------------------------------------------------------------------------
(***************************************************************************)
(* The interrupt and the devices.                                          *)
(***************************************************************************)

\* The interrupt does not find Player between two blocks.
BlockIsRead ==
    state[Player] = "WTSEM" \/ pc[Player] \notin {"test", "read", "convert",
                                                  "hand_over", "swap"}

\* Mutant of EndOfBuffer: the buffers are not swapped.
EndOfBufferSame ==
    /\ ~halted /\ dac = "PLAYING" /\ depth > 1 /\ (KeepsUp => BlockIsRead)
    /\ UNCHANGED <<pc, control, buffer_to_read, filling, rest>>

\* In the middle of a buffer end_cb returns at once.  So it does at the end
\* of a buffer of a single sample, which looks like the middle.
EndOfBuffer ==
    /\ ~halted /\ dac = "PLAYING" /\ depth > 1 /\ (KeepsUp => BlockIsRead)
    /\ buffer_to_read' = 3 - buffer_to_read
    /\ UNCHANGED <<pc, control, filling, rest>>

\* The DAC takes one sample or an even number.
EvenSamples ==
    IF size_buffer_to_read = 1 THEN 1
    ELSE size_buffer_to_read - (size_buffer_to_read % 2)

NextBuffer ==
    /\ size_buffer_to_read # 0
    /\ DacPlays(buffer_to_read', EvenSamples)
    /\ size_buffer_to_read' = IF depth' < BLOCK THEN 0 ELSE depth'
    /\ change_buffer' = BSemSignal(change_buffer)
    /\ state' = Ready(state, BSemSignalled(change_buffer))

\* Mutant of NoBuffer: the DAC is not stopped after the last block.
NoBufferPlays ==
    /\ size_buffer_to_read = 0
    /\ UNCHANGED <<state, change_buffer, size_buffer_to_read, dacVars, played>>

NoBuffer ==
    /\ size_buffer_to_read = 0
    /\ dac_stop
    /\ UNCHANGED <<state, change_buffer, size_buffer_to_read, played>>

EndCb == EndOfBuffer /\ (NextBuffer \/ NoBuffer)

CardTaken ==
    /\ ~halted /\ CardMayFail /\ cardOk
    /\ cardOk' = FALSE
    /\ UNCHANGED <<state, pc, control, sound, halted, songs>>

\* The card has answered, or Player has slept.
PlayerWakes ==
    /\ ~halted /\ state[Player] \in {"QUEUED", "SLEEPING"}
    /\ state' = Ready(state, {Player})
    /\ UNCHANGED <<pc, control, sound, rest>>

\* Game sleeps 50 ms and more inside play_song, enough for Player to come to
\* its place; the way from play_song to stop_song takes any time; a next game
\* takes minutes, by which time Player waits for a file.  (If it waits for
\* change_buffer, creating it anew would break the semaphore's queue; this is
\* left out.)
GameWakes ==
    /\ ~halted /\ state[Game] = "SLEEPING"
    /\ pc[Game] \in {"start", "play"} => state[Player] # "READY"
    /\ pc[Game] = "dac_start" => state[Player] = "SUSPENDED" /\ songs < MaxSongs
    /\ state' = Ready(state, {Game})
    /\ UNCHANGED <<pc, control, sound, rest>>

-----------------------------------------------------------------------------
GameStep ==
    \/ GameDacStart \/ GamePlayerStart \/ GameNoCard \/ GameForceChange
    \/ GameResume \/ GameStopSong \/ GameDacStop

PlayerStep ==
    \/ PlayerSuspend \/ PlayerOpen \/ PlayerTest \/ PlayerRead \/ PlayerReadFails
    \/ PlayerConvert \/ PlayerFirstBlock \/ PlayerNextBlock \/ PlayerSwap
    \/ PlayerFinish \/ PlayerBroadcast

Devices == EndCb \/ CardTaken \/ PlayerWakes \/ GameWakes

Next == GameStep \/ PlayerStep \/ Devices

Spec == Init /\ [][Next]_vars

(***************************************************************************)
(* Fairness: time slices let both threads run; the timer, the card and the *)
(* DAC go on.  Whether and when the game comes to stop_song is left open.  *)
(***************************************************************************)
Fairness ==
    /\ WF_vars(GameStep) /\ WF_vars(PlayerStep)
    /\ WF_vars(EndCb) /\ WF_vars(PlayerWakes)
    /\ WF_vars(GameWakes /\ pc[Game] # "stop")

FairSpec == Spec /\ Fairness

-----------------------------------------------------------------------------
(***************************************************************************)
(* Properties.                                                             *)
(***************************************************************************)
TypeOK ==
    /\ state \in [Thread -> TState]
    /\ pc \in [Thread -> GamePc \cup PlayerPc]
    /\ pc[Game] \in GamePc /\ pc[Player] \in PlayerPc
    /\ play \in BOOLEAN /\ play_sound_file_ref \in {Player, NoThread}
    /\ change_buffer \in Semaphore
    /\ buffer_to_read \in Buffer /\ size_buffer_to_read \in 0..BLOCK
    /\ buffer_to_fill \in Buffer /\ first_time \in BOOLEAN
    /\ unread \in Nat /\ content \in [Buffer -> Nat]
    /\ dac \in {"STOPPED", "PLAYING"} /\ dac_buffer \in Buffer
    /\ depth \in 0..BLOCK
    /\ cardOk \in BOOLEAN /\ halted \in BOOLEAN
    /\ blocks \in Nat /\ played \in Seq(Nat) /\ songs \in 0..MaxSongs

\* The listeners hear the blocks of the song one after the other, none twice
\* and none left out, as long as the card is there: the thread and the
\* interrupt agree on the buffers although only a binary semaphore is between
\* them (play_sound_file.c:66-93, 160-175).
SongInOrder == \A k \in DOMAIN played : played[k] = k

\* "wait the reading of a buffer is complete before filling it"
\* (play_sound_file.c:160): the card does not write to the buffer the DAC plays.
NeverFillsWhatPlays ==
    dac = "PLAYING" /\ pc[Player] \in {"read", "convert"} =>
        dac_buffer # buffer_to_fill

\* A song that is not stopped plays to its end and the thread waits for the
\* next one (play_sound_file.c:135-207).
SongEnds ==
    play ~> play_sound_file_ref # NoThread \/ pc[Game] # "stop" \/ ~cardOk

\* The DAC does not go on for ever after the last block, or after the song
\* was stopped (play_sound_file.c:75-91, 137-141).
DacFallsSilent == dac = "PLAYING" ~> dac = "STOPPED" \/ ~cardOk

\* "Waits until the sound file playing has finished" (play_sound_file.h:49)
\* returns: the thread always comes to wait for the next file.
FileFinishes == play ~> play_sound_file_ref # NoThread

=============================================================================
