----------------------------- MODULE MusicGame -----------------------------
(***************************************************************************)
(* The music game of 2Puck: the four threads that play one game together.  *)
(*                                                                         *)
(*   Game    game.c's gameThd, the state machine that runs the game;       *)
(*   Music   music.c's musicThd, which records and scores a turn;          *)
(*   Mic     mp45dt02_processing.c's DataProcessing with its callback,     *)
(*           audio_processing.c's processAudioDataCmplx;                   *)
(*   Light   lightshow.c's lightshowThd, which waits for new notes.        *)
(*                                                                         *)
(* They share music_play_lock, whose state tells the microphone whether a  *)
(* turn is running, the thread reference by which the game starts a turn,  *)
(* two message channels (frequencies to Music, scores to Game) and two     *)
(* semaphores.  An action runs one thread from one point where it may be   *)
(* preempted or blocked to the next.                                       *)
(*                                                                         *)
(* Abstracted: the text of the prints (a print is a wait for the console); *)
(* the audio samples (a processed buffer has an edge of the volume or not, *)
(* fills the window or not, and a window has any frequency of Heard); the  *)
(* song, the path and the photo, which Game only waits for here; time,     *)
(* counted in ticks.                                                       *)
(***************************************************************************)
EXTENDS ChibiOS, Notes

CONSTANTS
    Game, Music, Mic, Light,
    Song,            \* the songs, and NOT_CHOSEN
    NOT_CHOSEN,
    Melody,          \* songs[s].melody_ptr, a function on Song
    Heard,           \* the frequencies a window of sound may have
    PlayerDelay,     \* the 4000 ms before a player starts, in ticks
    ScoreDelay,      \* the 500 ms Music sleeps after a score
    LoopDelay,       \* the 300 ms at the end of the game's loop
    KeepsUp,         \* Music is done with a note before the next window
    MaxGames,        \* bound: the games the user starts
    MaxDma           \* bound: the buffers signalled ahead of Mic

ASSUME ThreadsAssumption ==
    /\ Thread = {Game, Music, Mic, Light}
    /\ Game \notin {Music, Mic, Light}
    /\ Music \notin {Mic, Light} /\ Mic # Light
    /\ Prio[Music] = Prio[Light]
    /\ Prio[Game] = Prio[Mic]
    /\ Prio[Music] < Prio[Mic]

\* The loop of musicThd counts in a uint8_t.
ASSUME SongAssumption ==
    /\ NOT_CHOSEN \notin Song
    /\ DOMAIN Melody = Song
    /\ \A s \in Song : Melody[s] \in Seq(Note) /\ Len(Melody[s]) \in 1..255

ASSUME HeardAssumption == Heard \subseteq Int

ASSUME DelayAssumption ==
    /\ PlayerDelay \in Nat /\ ScoreDelay \in Nat \ {0}
    /\ LoopDelay \in Nat \ {0}
    /\ ScoreDelay < PlayerDelay

ASSUME BoundAssumption ==
    KeepsUp \in BOOLEAN /\ MaxGames \in Nat /\ MaxDma \in Nat \ {0}

NumPlayers == 2
Player == 0..(NumPlayers - 1)

\* An array element that was never written.
UNDEF == -1

VARIABLES
    state,              \* p_state of every thread
    terminate,          \* its CH_FLAG_TERMINATE
    timer,              \* the ticks a sleeping thread still sleeps
    msgqueue,           \* p_msgqueue: the threads whose message it was sent
    p_msg,              \* the message a thread sends
    mtxlist,            \* whether p_mtxlist holds music_play_lock
    music_play_lock,
    sem_new_note,
    DataProcessingSem,
    musicThdRef,
    halted,             \* a failed kernel assertion: chSysHalt
    pc,                 \* where each thread is
    gstate,             \* the game's FSM state
    player,             \* its loop variable
    score,              \* the scores it received
    target,             \* the player it goes to
    chosen_song,
    idx,                \* the loop variable of musicThd
    played_notes,
    register_note,
    micOn,              \* I2SD2.state # I2S_STOP
    games,              \* history: the games started
    computed            \* history: the scores Music computed in this game

kernel == <<state, terminate, timer, msgqueue, p_msg, mtxlist>>
gameVars == <<gstate, player, score, target, games>>
musicVars == <<chosen_song, idx, played_notes, computed>>
micVars == <<DataProcessingSem, register_note, micOn>>

vars == <<kernel, music_play_lock, sem_new_note, musicThdRef, halted, pc,
          gameVars, musicVars, micVars>>

GameState == {"IDLE", "START_GAME", "GOTO_WINNER", "SEND_PHOTO", "FINISHED"}

\* PRINTING is SNDMSGQ on the queue of the console's thread.
TState == ThreadState \cup {"PRINTING"}

MusicPc == {"start", "choose", "while", "suspend", "unlock", "get_frequency",
            "next_note", "relock", "score", "sleep", "exited"}
MicPc == {"while", "wait2", "test", "try", "unlock", "process", "sent",
          "exited"}
GamePc == {"switch", "get_char", "init", "player_start", "listen",
           "get_score", "next", "wait_path", "wait_photo"}
LightPc == {"while", "colour", "exited"}

Init ==
    /\ state = [t \in Thread |-> IF t = Game THEN "READY" ELSE "WTSTART"]
    /\ terminate = [t \in Thread |-> FALSE]
    /\ timer = [t \in Thread |-> 0]
    /\ msgqueue = [t \in Thread |-> << >>]
    /\ p_msg = [t \in Thread |-> 0]
    /\ mtxlist = [t \in Thread |-> FALSE]
    /\ music_play_lock = FreeMutex
    /\ sem_new_note = SemInit(1)
    /\ DataProcessingSem = SemInit(0)
    /\ musicThdRef = NoThread
    /\ halted = FALSE
    /\ pc = [t \in Thread |-> CASE t = Game -> "switch" [] t = Music -> "start"
                                [] OTHER -> "while"]
    /\ gstate = "IDLE"
    /\ player = 0
    /\ score = [p \in Player |-> UNDEF]
    /\ target = UNDEF
    /\ chosen_song = NOT_CHOSEN
    /\ idx = 0
    /\ played_notes = << >>
    /\ register_note = FALSE
    /\ micOn = FALSE
    /\ games = 0
    /\ computed = << >>

-----------------------------------------------------------------------------
(***************************************************************************)
(* How a thread leaves the core.                                           *)
(***************************************************************************)
Runs(t) == ~halted /\ MayRun(state, t)

At(t, l) == Runs(t) /\ pc[t] = l

\* t goes on at l in state s, and the threads of T are made ready.
Continue(t, s, l, T) ==
    /\ state' = [Ready(state, T) EXCEPT ![t] = s]
    /\ pc' = [pc EXCEPT ![t] = l]

Goto(t, l) == Continue(t, "READY", l, {})

\* console_send_string, and l once the console released the message.
Say(t, l) == Continue(t, "PRINTING", l, {})

Sleep(t, delay, l) ==
    /\ Continue(t, IF delay = 0 THEN "READY" ELSE "SLEEPING", l, {})
    /\ timer' = [timer EXCEPT ![t] = delay]

\* chMsgSend: to is made ready if it waits for a message.
Send(t, to, msg, l) ==
    /\ p_msg' = [p_msg EXCEPT ![t] = msg]
    /\ msgqueue' = [msgqueue EXCEPT ![to] = Append(@, t)]
    /\ Continue(t, "SNDMSGQ", l, IF state[to] = "WTMSG" THEN {to} ELSE {})

\* chMsgWait with nothing pending.
AwaitMessage(t, l) ==
    /\ msgqueue[t] = << >>
    /\ Continue(t, "WTMSG", l, {})

\* chMsgWait with a message pending, chMsgGet and chMsgRelease, after which
\* t is at l in state s.
Receive(t, s, l) ==
    /\ msgqueue[t] # << >>
    /\ msgqueue' = [msgqueue EXCEPT ![t] = Tail(@)]
    /\ Continue(t, s, l, {Head(msgqueue[t])})

Received(t) == p_msg[Head(msgqueue[t])]

\* A kernel assertion failed.
Halt ==
    /\ halted' = TRUE
    /\ UNCHANGED <<kernel, music_play_lock, sem_new_note, musicThdRef, pc,
                   gameVars, musicVars, micVars>>

-----------------------------------------------------------------------------
(***************************************************************************)
(* gameThd.                                                                *)
(***************************************************************************)

\* IDLE: the prompt, then the wait for a character.
GameIdle ==
    /\ At(Game, "switch") /\ gstate = "IDLE"
    /\ Continue(Game, "QUEUED", "get_char", {})
    /\ UNCHANGED <<terminate, timer, msgqueue, p_msg, mtxlist, music_play_lock,
                   sem_new_note, musicThdRef, halted, gameVars, musicVars,
                   micVars>>

\* The user's character arrives; 'w' starts a game.
GameGetChar(w) ==
    /\ ~halted /\ pc[Game] = "get_char"
    /\ w => games < MaxGames
    /\ gstate' = IF w THEN "START_GAME" ELSE "IDLE"
    /\ games' = IF w THEN games + 1 ELSE games
    /\ Sleep(Game, LoopDelay, "switch")
    /\ UNCHANGED <<terminate, msgqueue, p_msg, mtxlist, music_play_lock,
                   sem_new_note, musicThdRef, halted, player, score, target,
                   musicVars, micVars>>

GameStart ==
    /\ At(Game, "switch") /\ gstate = "START_GAME"
    /\ Say(Game, "init")
    /\ UNCHANGED <<terminate, timer, msgqueue, p_msg, mtxlist, music_play_lock,
                   sem_new_note, musicThdRef, halted, gameVars, musicVars,
                   micVars>>

\* mic_start creates Mic only when the I2S is stopped.
Created == IF micOn THEN {Music, Light} ELSE {Mic, Music, Light}

FirstPc(t) == IF t = Music THEN "start" ELSE "while"

\* music_init, and the sleep before the first player: the threads are created
\* in their static working areas, whatever these still hold.
GameMusicInit ==
    /\ At(Game, "init")
    /\ state' = [t \in Thread |-> IF t \in Created THEN "READY"
                                  ELSE IF t = Game /\ PlayerDelay # 0
                                  THEN "SLEEPING" ELSE state[t]]
    /\ pc' = [t \in Thread |-> IF t \in Created THEN FirstPc(t)
                               ELSE IF t = Game THEN "player_start" ELSE pc[t]]
    /\ timer' = [timer EXCEPT ![Game] = PlayerDelay]
    /\ terminate' = [t \in Thread |-> t \notin Created /\ terminate[t]]
    /\ msgqueue' = [t \in Thread |-> IF t \in Created THEN << >> ELSE msgqueue[t]]
    /\ mtxlist' = [t \in Thread |-> t \notin Created /\ mtxlist[t]]
    /\ micOn' = TRUE
    /\ DataProcessingSem' = IF micOn THEN DataProcessingSem ELSE SemInit(0)
    /\ player' = 0
    /\ computed' = << >>
    /\ UNCHANGED <<p_msg, music_play_lock, sem_new_note, musicThdRef, halted,
                   gstate, score, target, games, chosen_song, idx,
                   played_notes, register_note>>

GamePlayerStart ==
    /\ At(Game, "player_start")
    /\ Say(Game, "listen")
    /\ UNCHANGED <<terminate, timer, msgqueue, p_msg, mtxlist, music_play_lock,
                   sem_new_note, musicThdRef, halted, gameVars, musicVars,
                   micVars>>

\* Mutant of GameListen: the reference is cleared, nobody is woken.
GameListenSilently ==
    /\ At(Game, "listen")
    /\ Goto(Game, "get_score")
    /\ musicThdRef' = NoThread
    /\ UNCHANGED <<terminate, timer, msgqueue, p_msg, mtxlist, music_play_lock,
                   sem_new_note, halted, gameVars, musicVars, micVars>>

\* music_listen: chThdResume does nothing when no thread is suspended.
GameListen ==
    /\ At(Game, "listen")
    /\ Continue(Game, "READY", "get_score", {musicThdRef} \ {NoThread})
    /\ musicThdRef' = NoThread
    /\ UNCHANGED <<terminate, timer, msgqueue, p_msg, mtxlist, music_play_lock,
                   sem_new_note, halted, gameVars, musicVars, micVars>>

GameAwaitScore ==
    /\ At(Game, "get_score")
    /\ AwaitMessage(Game, "get_score")
    /\ UNCHANGED <<terminate, timer, msgqueue, p_msg, mtxlist, music_play_lock,
                   sem_new_note, musicThdRef, halted, gameVars, musicVars,
                   micVars>>

\* Mutant of GameGetScore: every score goes to the first player.
GameGetScoreFirst ==
    /\ At(Game, "get_score")
    /\ Receive(Game, "PRINTING", "next")
    /\ score' = [score EXCEPT ![0] = Received(Game)]
    /\ UNCHANGED <<terminate, timer, p_msg, mtxlist, music_play_lock,
                   sem_new_note, musicThdRef, halted, gstate, player, target,
                   games, musicVars, micVars>>

\* get_score, and the prints of the score.
GameGetScore ==
    /\ At(Game, "get_score")
    /\ Receive(Game, "PRINTING", "next")
    /\ score' = [score EXCEPT ![player] = Received(Game)]
    /\ UNCHANGED <<terminate, timer, p_msg, mtxlist, music_play_lock,
                   sem_new_note, musicThdRef, halted, gstate, player, target,
                   games, musicVars, micVars>>

\* Mutant of GameNextPlayer: the second player starts at once.
GameNextPlayerAtOnce ==
    /\ At(Game, "next") /\ player + 1 < NumPlayers
    /\ player' = player + 1
    /\ Goto(Game, "player_start")
    /\ UNCHANGED <<terminate, timer, msgqueue, p_msg, mtxlist, music_play_lock,
                   sem_new_note, musicThdRef, halted, gstate, score, target,
                   games, musicVars, micVars>>

GameNextPlayer ==
    /\ At(Game, "next") /\ player + 1 < NumPlayers
    /\ player' = player + 1
    /\ Sleep(Game, PlayerDelay, "player_start")
    /\ UNCHANGED <<terminate, msgqueue, p_msg, mtxlist, music_play_lock,
                   sem_new_note, musicThdRef, halted, gstate, score, target,
                   games, musicVars, micVars>>

\* music_stop: mp45dt02Shutdown stops the buffers, raises Mic's flag and wakes
\* it wherever it waits; the other threads' flags are raised.
GameMusicStop ==
    /\ At(Game, "next") /\ player + 1 = NumPlayers
    /\ micOn' = FALSE
    /\ terminate' = [t \in Thread |-> t # Game \/ terminate[t]]
    /\ DataProcessingSem' = SemReset(DataProcessingSem, 0)
    /\ gstate' = "GOTO_WINNER"
    /\ Continue(Game, "SLEEPING", "switch", SemResetWoken(DataProcessingSem))
    /\ timer' = [timer EXCEPT ![Game] = LoopDelay]
    /\ UNCHANGED <<msgqueue, p_msg, mtxlist, music_play_lock, sem_new_note,
                   musicThdRef, halted, player, score, target, games,
                   musicVars, register_note>>

\* Mutant of GameGotoWinner: the second player wins a tie.
GameGotoSecond ==
    /\ At(Game, "switch") /\ gstate = "GOTO_WINNER"
    /\ target' = IF score[0] > score[1] THEN 0 ELSE 1
    /\ Continue(Game, "WTSEM", "wait_path", {})
    /\ UNCHANGED <<terminate, timer, msgqueue, p_msg, mtxlist, music_play_lock,
                   sem_new_note, musicThdRef, halted, gstate, player, score,
                   games, musicVars, micVars>>

\* play_song, pathing_init with the winner, and the wait for the robot.
GameGotoWinner ==
    /\ At(Game, "switch") /\ gstate = "GOTO_WINNER"
    /\ target' = IF score[0] >= score[1] THEN 0 ELSE 1
    /\ Continue(Game, "WTSEM", "wait_path", {})
    /\ UNCHANGED <<terminate, timer, msgqueue, p_msg, mtxlist, music_play_lock,
                   sem_new_note, musicThdRef, halted, gstate, player, score,
                   games, musicVars, micVars>>

\* The photo is sent: photo_init, and the wait for its end.
GameSendPhoto ==
    /\ At(Game, "switch") /\ gstate = "SEND_PHOTO"
    /\ Continue(Game, "WTSEM", "wait_photo", {})
    /\ UNCHANGED <<terminate, timer, msgqueue, p_msg, mtxlist, music_play_lock,
                   sem_new_note, musicThdRef, halted, gameVars, musicVars,
                   micVars>>

\* What Game waits for happens, and Game goes on to the end of its loop.
GameAdvance(from, l, to) ==
    /\ ~halted /\ gstate = from /\ pc[Game] = l
    /\ gstate' = to
    /\ Sleep(Game, LoopDelay, "switch")
    /\ UNCHANGED <<terminate, msgqueue, p_msg, mtxlist, music_play_lock,
                   sem_new_note, musicThdRef, halted, player, score, target,
                   games, musicVars, micVars>>

GameAtWinner == GameAdvance("GOTO_WINNER", "wait_path", "SEND_PHOTO")
GamePhotoSent == GameAdvance("SEND_PHOTO", "wait_photo", "FINISHED")
GameFinished == Runs(Game) /\ GameAdvance("FINISHED", "switch", "IDLE")

-----------------------------------------------------------------------------
(***************************************************************************)
(* musicThd.                                                               *)
(***************************************************************************)

\* chMtxLock, before the song is chosen and again when a turn is recorded;
\* when the lock is taken by another thread Music waits and gets it with the
\* other's chMtxUnlock.
MusicLock(from, to) ==
    /\ At(Music, from)
    /\ music_play_lock' = MtxLock(music_play_lock, Music)
    /\ mtxlist' = [mtxlist EXCEPT ![Music] =
                     MtxListed(music_play_lock, Music, @)]
    /\ Continue(Music,
                IF MtxBlocks(music_play_lock, Music) THEN "WTMTX" ELSE "READY",
                to, {})
    /\ UNCHANGED <<terminate, timer, msgqueue, p_msg, sem_new_note,
                   musicThdRef, halted, gameVars, musicVars, micVars>>

MusicLockStart == MusicLock("start", "choose")

\* Mutant of MusicRelock: the lock is not taken back after a turn.
MusicRelockForgotten ==
    /\ At(Music, "relock")
    /\ Goto(Music, "score")
    /\ UNCHANGED <<terminate, timer, msgqueue, p_msg, mtxlist, music_play_lock,
                   sem_new_note, musicThdRef, halted, gameVars, musicVars,
                   micVars>>

MusicRelock == MusicLock("relock", "score")

\* Mutant of MusicChoose: the random number is one too large.
MusicChooseBeyond ==
    /\ At(Music, "choose")
    /\ chosen_song' \in Song \cup {NOT_CHOSEN}
    /\ Say(Music, "while")
    /\ UNCHANGED <<terminate, timer, msgqueue, p_msg, mtxlist, music_play_lock,
                   sem_new_note, musicThdRef, halted, gameVars, idx,
                   played_notes, computed, micVars>>

\* choose_random_song, and the prints of its name.
MusicChoose ==
    /\ At(Music, "choose")
    /\ chosen_song' \in Song
    /\ Say(Music, "while")
    /\ UNCHANGED <<terminate, timer, msgqueue, p_msg, mtxlist, music_play_lock,
                   sem_new_note, musicThdRef, halted, gameVars, idx,
                   played_notes, computed, micVars>>

\* Mutant of MusicWhile: chThdShouldTerminateX is not asked.
MusicWhileTrue ==
    /\ At(Music, "while")
    /\ Goto(Music, "suspend")
    /\ UNCHANGED <<terminate, timer, msgqueue, p_msg, mtxlist, music_play_lock,
                   sem_new_note, musicThdRef, halted, gameVars, musicVars,
                   micVars>>

\* The loop's condition; chThdExit leaves the mutex as it is.
MusicWhile ==
    /\ At(Music, "while")
    /\ IF terminate[Music] THEN Continue(Music, "FINAL", "exited", {})
                           ELSE Goto(Music, "suspend")
    /\ UNCHANGED <<terminate, timer, msgqueue, p_msg, mtxlist, music_play_lock,
                   sem_new_note, musicThdRef, halted, gameVars, musicVars,
                   micVars>>

\* chThdSuspendS: it asserts that no thread is suspended on the reference.
MusicSuspend ==
    /\ At(Music, "suspend")
    /\ IF musicThdRef # NoThread
       THEN Halt
       ELSE /\ musicThdRef' = Music
            /\ Continue(Music, "SUSPENDED", "unlock", {})
            /\ UNCHANGED <<terminate, timer, msgqueue, p_msg, mtxlist,
                           music_play_lock, sem_new_note, halted, gameVars,
                           musicVars, micVars>>

\* What chMtxUnlock asserts of its caller t.
MayUnlock(t) == MtxMayUnlock(music_play_lock, t, mtxlist[t])

\* chMtxUnlock, after which t goes on at l.
Unlock(t, l) ==
    \E heir \in MtxNextOwner(music_play_lock) :
        /\ music_play_lock' = MtxUnlock(music_play_lock, heir)
        /\ mtxlist' = [u \in Thread |-> IF u = t THEN music_play_lock.cnt > 1
                                        ELSE u = heir \/ mtxlist[u]]
        /\ Continue(t, "READY", l, {heir} \ {NoThread})

Size == Len(Melody[chosen_song])

\* A turn begins: the recording is a fresh array on the stack.
MusicUnlock ==
    /\ At(Music, "unlock")
    /\ IF ~MayUnlock(Music)
       THEN Halt
       ELSE /\ Unlock(Music, "get_frequency")
            /\ played_notes' = [k \in 1..Size |-> UNDEF]
            /\ idx' = 0
            /\ UNCHANGED <<terminate, timer, msgqueue, p_msg, sem_new_note,
                           musicThdRef, halted, gameVars, chosen_song,
                           computed, micVars>>

MusicAwaitFrequency ==
    /\ At(Music, "get_frequency")
    /\ AwaitMessage(Music, "get_frequency")
    /\ UNCHANGED <<terminate, timer, p_msg, msgqueue, mtxlist, music_play_lock,
                   sem_new_note, musicThdRef, halted, gameVars, musicVars,
                   micVars>>

\* Mutant of MusicGotFrequency: the counter is not stepped back.
MusicGotFrequencyOnward ==
    /\ At(Music, "get_frequency") /\ msgqueue[Music] # << >>
    /\ LET note == freq_to_note(Received(Music))
           sender == Head(msgqueue[Music])
       IN  /\ msgqueue' = [msgqueue EXCEPT ![Music] = Tail(@)]
           /\ Continue(Music, IF note # NONE THEN "PRINTING" ELSE "READY",
                       "next_note",
                       {sender} \cup BSemSignalled(sem_new_note))
           /\ played_notes' = IF note # NONE
                              THEN [played_notes EXCEPT ![idx + 1] = note]
                              ELSE played_notes
    /\ sem_new_note' = BSemSignal(sem_new_note)
    /\ UNCHANGED <<terminate, timer, p_msg, mtxlist, music_play_lock,
                   musicThdRef, halted, gameVars, chosen_song, idx, computed,
                   micVars>>

\* A note is stored and printed; anything else steps the counter back, in
\* eight bits.  Both signal sem_new_note.
MusicGotFrequency ==
    /\ At(Music, "get_frequency") /\ msgqueue[Music] # << >>
    /\ LET note == freq_to_note(Received(Music))
           sender == Head(msgqueue[Music])
       IN  /\ msgqueue' = [msgqueue EXCEPT ![Music] = Tail(@)]
           /\ Continue(Music, IF note # NONE THEN "PRINTING" ELSE "READY",
                       "next_note",
                       {sender} \cup BSemSignalled(sem_new_note))
           /\ played_notes' = IF note # NONE
                              THEN [played_notes EXCEPT ![idx + 1] = note]
                              ELSE played_notes
           /\ idx' = IF note # NONE THEN idx ELSE (idx - 1) % 256
    /\ sem_new_note' = BSemSignal(sem_new_note)
    /\ UNCHANGED <<terminate, timer, p_msg, mtxlist, music_play_lock,
                   musicThdRef, halted, gameVars, chosen_song, computed,
                   micVars>>

\* i++ and the loop's condition.
MusicNextNote ==
    /\ At(Music, "next_note")
    /\ idx' = (idx + 1) % 256
    /\ Goto(Music, IF idx' < Size THEN "get_frequency" ELSE "relock")
    /\ UNCHANGED <<terminate, timer, msgqueue, p_msg, mtxlist, music_play_lock,
                   sem_new_note, musicThdRef, halted, gameVars, chosen_song,
                   played_notes, computed, micVars>>

\* The recording as calculate_score reads it: an element that was never
\* written has whatever the stack held.
Recording(rest) == [k \in DOMAIN played_notes |->
                      IF played_notes[k] = UNDEF THEN rest ELSE played_notes[k]]

\* calculate_score and game_send_score.
MusicScore ==
    /\ At(Music, "score")
    /\ \E rest \in {0, NONE} :
         LET points == calculate_score(Melody[chosen_song], Recording(rest))
         IN  /\ Send(Music, Game, points, "sleep")
             /\ computed' = Append(computed, points)
    /\ UNCHANGED <<terminate, timer, mtxlist, music_play_lock, sem_new_note,
                   musicThdRef, halted, gameVars, chosen_song, idx,
                   played_notes, micVars>>

\* game_send_score returned.
MusicSleep ==
    /\ At(Music, "sleep")
    /\ Sleep(Music, ScoreDelay, "while")
    /\ UNCHANGED <<terminate, msgqueue, p_msg, mtxlist, music_play_lock,
                   sem_new_note, musicThdRef, halted, gameVars, musicVars,
                   micVars>>

-----------------------------------------------------------------------------
(***************************************************************************)
(* DataProcessing and processAudioDataCmplx.                               *)
(***************************************************************************)

\* chSemWait on the buffers, and l once it returns.
MicWaitBuffer(l) ==
    /\ DataProcessingSem' = SemWait(DataProcessingSem, Mic)
    /\ Continue(Mic, IF SemBlocks(DataProcessingSem) THEN "WTSEM" ELSE "READY",
                l, {})

\* The loop's condition and the first wait.
MicWhile ==
    /\ At(Mic, "while")
    /\ IF terminate[Mic]
       THEN Continue(Mic, "FINAL", "exited", {}) /\ UNCHANGED DataProcessingSem
       ELSE MicWaitBuffer("wait2")
    /\ UNCHANGED <<terminate, timer, msgqueue, p_msg, mtxlist, music_play_lock,
                   sem_new_note, musicThdRef, halted, gameVars, musicVars,
                   register_note, micOn>>

MicWait2 ==
    /\ At(Mic, "wait2")
    /\ MicWaitBuffer("test")
    /\ UNCHANGED <<terminate, timer, msgqueue, p_msg, mtxlist, music_play_lock,
                   sem_new_note, musicThdRef, halted, gameVars, musicVars,
                   register_note, micOn>>

\* Both buffers are there.  The callback runs with every tenth pair.
MicTest ==
    /\ At(Mic, "test")
    /\ IF terminate[Mic]
       THEN Continue(Mic, "FINAL", "exited", {})
       ELSE \E l \in {"while", "try"} : Goto(Mic, l)
    /\ UNCHANGED <<terminate, timer, msgqueue, p_msg, mtxlist, music_play_lock,
                   sem_new_note, musicThdRef, halted, gameVars, musicVars,
                   micVars>>

\* Mutant of MicTryLock: the buffer is processed whether a turn runs or not.
MicTryLockAnyway ==
    /\ At(Mic, "try")
    /\ Goto(Mic, "process")
    /\ UNCHANGED <<terminate, timer, msgqueue, p_msg, mtxlist, music_play_lock,
                   sem_new_note, musicThdRef, halted, gameVars, musicVars,
                   micVars>>

\* music_is_playing: chMtxTryLock ...
MicTryLock ==
    /\ At(Mic, "try")
    /\ IF MtxBlocks(music_play_lock, Mic)
       THEN /\ Goto(Mic, "while")
            /\ UNCHANGED <<music_play_lock, mtxlist>>
       ELSE /\ Goto(Mic, "unlock")
            /\ music_play_lock' = MtxLock(music_play_lock, Mic)
            /\ mtxlist' = [mtxlist EXCEPT ![Mic] =
                             MtxListed(music_play_lock, Mic, @)]
    /\ UNCHANGED <<terminate, timer, msgqueue, p_msg, sem_new_note,
                   musicThdRef, halted, gameVars, musicVars, micVars>>

\* Mutant of MicUnlock: the probe keeps the lock.
MicUnlockForgotten ==
    /\ At(Mic, "unlock")
    /\ Goto(Mic, "process")
    /\ UNCHANGED <<terminate, timer, msgqueue, p_msg, mtxlist, music_play_lock,
                   sem_new_note, musicThdRef, halted, gameVars, musicVars,
                   micVars>>

\* ... and chMtxUnlock.
MicUnlock ==
    /\ At(Mic, "unlock")
    /\ IF ~MayUnlock(Mic)
       THEN Halt
       ELSE /\ Unlock(Mic, "process")
            /\ UNCHANGED <<terminate, timer, msgqueue, p_msg, sem_new_note,
                           musicThdRef, halted, gameVars, musicVars, micVars>>

\* A window is complete.  With KeepsUp Music has run since it was created and
\* is done with the last note by then.
MayBeFull == KeepsUp => pc[Music] \notin {"start", "next_note", "relock"}

\* The volume rises over the threshold (edge) or not; the window is not full
\* yet, or it is dropped because no edge was registered.
MicIgnore(edge) ==
    /\ At(Mic, "process")
    /\ register_note' = (edge \/ register_note)
    /\ Goto(Mic, "while")
    /\ UNCHANGED <<terminate, timer, msgqueue, p_msg, mtxlist, music_play_lock,
                   sem_new_note, musicThdRef, halted, gameVars, musicVars,
                   DataProcessingSem, micOn>>

\* A full window with an edge: its frequency is sent to Music.
MicSendFreq(edge, freq) ==
    /\ At(Mic, "process") /\ MayBeFull
    /\ edge \/ register_note
    /\ register_note' = TRUE
    /\ Send(Mic, Music, freq, "sent")
    /\ UNCHANGED <<terminate, timer, mtxlist, music_play_lock, sem_new_note,
                   musicThdRef, halted, gameVars, musicVars,
                   DataProcessingSem, micOn>>

MicSent ==
    /\ At(Mic, "sent")
    /\ register_note' = FALSE
    /\ Goto(Mic, "while")
    /\ UNCHANGED <<terminate, timer, msgqueue, p_msg, mtxlist, music_play_lock,
                   sem_new_note, musicThdRef, halted, gameVars, musicVars,
                   DataProcessingSem, micOn>>

\* The I2S or the SPI interrupt: a buffer is full.
MicDma ==
    /\ ~halted /\ micOn
    /\ DataProcessingSem.cnt < MaxDma
    /\ state' = Ready(state, SemSignalled(DataProcessingSem))
    /\ DataProcessingSem' = SemSignal(DataProcessingSem)
    /\ UNCHANGED <<terminate, timer, msgqueue, p_msg, mtxlist, music_play_lock,
                   sem_new_note, musicThdRef, halted, pc, gameVars, musicVars,
                   register_note, micOn>>

-----------------------------------------------------------------------------
(***************************************************************************)
(* lightshowThd, the console and the clock.                                *)
(***************************************************************************)

\* The loop's condition and music_wait_new_note.
LightWhile ==
    /\ At(Light, "while")
    /\ IF terminate[Light]
       THEN Continue(Light, "FINAL", "exited", {}) /\ UNCHANGED sem_new_note
       ELSE /\ sem_new_note' = SemWait(sem_new_note, Light)
            /\ Continue(Light, IF SemBlocks(sem_new_note) THEN "WTSEM"
                               ELSE "READY", "colour", {})
    /\ UNCHANGED <<terminate, timer, msgqueue, p_msg, mtxlist, music_play_lock,
                   musicThdRef, halted, gameVars, musicVars, micVars>>

\* New random colours.
LightColour ==
    /\ At(Light, "colour")
    /\ Goto(Light, "while")
    /\ UNCHANGED <<terminate, timer, msgqueue, p_msg, mtxlist, music_play_lock,
                   sem_new_note, musicThdRef, halted, gameVars, musicVars,
                   micVars>>

\* The console's thread printed t's message and released it.
ConsoleRelease(t) ==
    /\ ~halted /\ state[t] = "PRINTING"
    /\ state' = Ready(state, {t})
    /\ UNCHANGED <<terminate, timer, msgqueue, p_msg, mtxlist, music_play_lock,
                   sem_new_note, musicThdRef, halted, pc, gameVars, musicVars,
                   micVars>>

\* A tick of the clock.  A tick is long against what the threads do between
\* two waits, prints included: all of it is over when the tick comes.
Tick ==
    /\ ~halted
    /\ \A t \in Thread : state[t] \notin {"READY", "PRINTING"}
    /\ \E t \in Thread : state[t] = "SLEEPING"
    /\ timer' = [t \in Thread |-> IF timer[t] > 0 THEN timer[t] - 1 ELSE 0]
    /\ state' = Ready(state,
                      {t \in Thread : state[t] = "SLEEPING" /\ timer[t] <= 1})
    /\ UNCHANGED <<terminate, msgqueue, p_msg, mtxlist, music_play_lock,
                   sem_new_note, musicThdRef, halted, pc, gameVars, musicVars,
                   micVars>>

-----------------------------------------------------------------------------
GameStep ==
    \/ GameIdle \/ GameStart \/ GameMusicInit \/ GamePlayerStart
    \/ GameListen \/ GameAwaitScore \/ GameGetScore \/ GameNextPlayer
    \/ GameMusicStop \/ GameGotoWinner \/ GameSendPhoto \/ GameFinished

MusicStep ==
    \/ MusicLockStart \/ MusicChoose \/ MusicWhile \/ MusicSuspend
    \/ MusicUnlock \/ MusicAwaitFrequency \/ MusicGotFrequency
    \/ MusicNextNote \/ MusicRelock \/ MusicScore \/ MusicSleep

MicHear == \E edge \in BOOLEAN, freq \in Heard : MicSendFreq(edge, freq)

MicStep ==
    \/ MicWhile \/ MicWait2 \/ MicTest \/ MicTryLock \/ MicUnlock
    \/ MicHear \/ MicSent
    \/ \E edge \in BOOLEAN : MicIgnore(edge)

LightStep == LightWhile \/ LightColour

Environment ==
    \/ \E w \in BOOLEAN : GameGetChar(w)
    \/ GameAtWinner \/ GamePhotoSent
    \/ \E t \in Thread : ConsoleRelease(t)
    \/ MicDma
    \/ Tick

Next ==
    \/ GameStep
    \/ MusicStep
    \/ MicStep
    \/ LightStep
    \/ Environment

Spec == Init /\ [][Next]_vars

(***************************************************************************)
(* Fairness.  A ready thread of the highest priority gets the core.  The   *)
(* audio does not use all of it: again and again Mic has no buffer to work *)
(* on, and the threads below it run (strong fairness).  The clock and the  *)
(* DMA never stop.  One buffer pair in ten reaches the callback.  A player *)
(* whose turn it is plays on: again and again a full window has an edge    *)
(* and a note in it.  The robot reaches the winner and the photo ends.     *)
(* Nothing makes the user start a game.                                    *)
(***************************************************************************)
Fairness ==
    /\ WF_vars(GameStep)
    /\ SF_vars(MusicStep)
    /\ WF_vars(MicStep) /\ []<>(state[Mic] # "READY")
    /\ SF_vars(LightStep)
    /\ \A t \in Thread : WF_vars(ConsoleRelease(t))
    /\ WF_vars(MicDma)
    /\ SF_vars(Tick)
    /\ SF_vars(MicTest /\ pc'[Mic] = "try")
    /\ SF_vars(\E edge \in BOOLEAN, freq \in Heard :
                  MicSendFreq(edge, freq) /\ freq_to_note(freq) # NONE)
    /\ WF_vars(GameAtWinner) /\ WF_vars(GamePhotoSent)

FairSpec == Spec /\ Fairness

-----------------------------------------------------------------------------
(***************************************************************************)
(* Properties.                                                             *)
(***************************************************************************)

PcOf(t) == CASE t = Game -> GamePc [] t = Music -> MusicPc
             [] t = Mic -> MicPc [] OTHER -> LightPc

ThreadType ==
    /\ state \in [Thread -> TState]
    /\ pc \in [Thread -> GamePc \cup MusicPc \cup MicPc \cup LightPc]
    /\ \A t \in Thread : pc[t] \in PcOf(t)

KernelType ==
    /\ terminate \in [Thread -> BOOLEAN]
    /\ timer \in [Thread -> Nat]
    /\ mtxlist \in [Thread -> BOOLEAN]
    /\ music_play_lock \in Mutex
    /\ sem_new_note \in Semaphore
    /\ DataProcessingSem \in Semaphore
    /\ musicThdRef \in {Music, NoThread}
    /\ halted \in BOOLEAN

MessageType ==
    /\ msgqueue \in [Thread -> Seq(Thread)]
    /\ p_msg \in [Thread -> Int]

GameType ==
    /\ gstate \in GameState
    /\ player \in Player
    /\ score \in [Player -> Int]
    /\ target \in Player \cup {UNDEF}
    /\ games \in 0..MaxGames

MusicType ==
    /\ chosen_song \in Song \cup {NOT_CHOSEN}
    /\ pc[Music] \notin {"start", "choose"} => chosen_song \in Song
    /\ idx \in 0..255
    /\ played_notes \in Seq(Note \cup {UNDEF})
    /\ computed \in Seq(Int)

MicType == register_note \in BOOLEAN /\ micOn \in BOOLEAN

\* Every variable has its type: no thread but the four and no note but the
\* sixty ever gets into a queue or a recording, and musicThd has a song from
\* the moment it chose one.
TypeOK ==
    ThreadType /\ KernelType /\ MessageType /\ GameType /\ MusicType /\ MicType

\* calculate_score reads no element of the recording that the turn did not
\* write, although an unrecognised frequency steps the loop's counter back
\* through zero in eight bits (music.c:287-299).
RecordingComplete ==
    pc[Music] \in {"relock", "score"} =>
        \A k \in 1..Size : played_notes[k] # UNDEF

\* A turn starts with an empty queue: as long as musicThd holds the play lock
\* no frequency is on its way to it, so that no sound from before a turn (or
\* from between two turns) is recorded as its first note (music.c:285, 301;
\* audio_processing.c:126, 177).
SilentBetweenTurns ==
    music_play_lock.owner = Music => msgqueue[Music] = << >>

\* music_listen never comes before musicThd is suspended: chThdResume on an
\* empty reference would be lost, and the game would wait for a score that
\* nobody computes (music.c:278, 343).
ResumeNotLost == [][GameListen => musicThdRef = Music]_vars

\* When the game goes to the winner each player has the score musicThd
\* computed for that player's turn, and the robot goes to the first player
\* unless the second has the better one (game.c:68-78, 87).
WinnerIsRight ==
    /\ gstate \in {"GOTO_WINNER", "SEND_PHOTO", "FINISHED"} =>
          Len(computed) = NumPlayers
          /\ \A p \in Player : score[p] = computed[p + 1]
    /\ gstate \in {"SEND_PHOTO", "FINISHED"} =>
          target = IF computed[1] >= computed[2] THEN 0 ELSE 1

\* A thread that owns the play lock has it on the list of its mutexes, the
\* count is that of its locks, and nobody else does: what chMtxLock and
\* chMtxUnlock assert (chmtx.c:218-221, 331-334).  The probe of
\* music_is_playing never blocks while it holds the lock, and musicThd never
\* waits for it.
LockDiscipline ==
    /\ music_play_lock.cnt = 0 <=> music_play_lock.owner = NoThread
    /\ \A t \in Thread : mtxlist[t] => music_play_lock.owner = t
    /\ music_play_lock.owner = Mic =>
          pc[Mic] = "unlock" /\ state[Mic] = "READY"
    /\ state[Music] # "WTMTX"

\* The semaphores' counts and queues agree (the assertion "inconsistent
\* semaphore", chsem.c:201-203), and a burst of notes never makes
\* sem_new_note more than available (chbsem.h:270).
SemaphoresConsistent ==
    /\ SemConsistent(sem_new_note) /\ sem_new_note.cnt <= 1
    /\ SemConsistent(DataProcessingSem)

\* The kernel objects the threads share are consistent, over restarts of the
\* threads, resets and any interleaving: lock and semaphores as above.
KernelConsistent == LockDiscipline /\ SemaphoresConsistent

\* No kernel assertion fails, so that the kernel never halts the robot
\* (chmtx.c:331, chthreads.c:514).
NeverHalts == ~halted

\* A game that is started is played to its end.
GameCompletes == gstate = "START_GAME" ~> gstate = "FINISHED"

\* musicThd ends after music_stop (music.c:329).
MusicStops == terminate[Music] ~> state[Music] = "FINAL"

\* music_stop "Stops the microphone, music and lightshow threads."
\* (music.c:329): at the very least one of DataProcessing and lightshowThd,
\* when both are told, sees its flag and ends.
StopIsSeen ==
    terminate[Mic] /\ terminate[Light] ~>
        state[Mic] = "FINAL" \/ state[Light] = "FINAL"

=============================================================================
