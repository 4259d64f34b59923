----------------------- MODULE MusicGameThreads_proofs -----------------------
(***************************************************************************)
(* How the four threads of MusicGame keep together: proofs that the kernel *)
(* objects they share stay consistent, that a turn starts in silence, that *)
(* no resume is lost, that the scores reach their players, that the turn   *)
(* goes on while the game waits for its score, that the first game never   *)
(* halts the kernel and that the second is never played; for every set of  *)
(* songs, every frequency, all delays and any number of games asked for.   *)
(*                                                                         *)
(* All of it rests on one inductive invariant, in parts: the semaphores,   *)
(* Mic between its buffers and its message, the play lock, the protocol    *)
(* between Game and Music, the scores, the silence and the first game.     *)
(* What each thread waits for, where it rests, is a second one on top.     *)
(***************************************************************************)
EXTENDS MusicGame_proofs

\* A count below zero is the number of the threads that wait.
Counted(s) == IF s.cnt < 0 THEN Len(s.queue) = -s.cnt ELSE s.queue = << >>

\* Only Light waits for a new note, perhaps twice: as the thread that was
\* created anew, and in the place of the one before.  Only Mic waits for
\* buffers, and it waits there for nothing else.
SemaphoreInv ==
    /\ Counted(sem_new_note) /\ sem_new_note.cnt <= 1
    /\ \A k \in DOMAIN sem_new_note.queue : sem_new_note.queue[k] = Light
    /\ \/ DataProcessingSem.cnt >= 0 /\ DataProcessingSem.queue = << >>
       \/ /\ DataProcessingSem.cnt = -1 /\ DataProcessingSem.queue = << Mic >>
          /\ state[Mic] = "WTSEM" /\ pc[Mic] \in {"wait2", "test"}

\* Where gameThd is in its loop over the players.
InLoop == {"player_start", "listen", "get_score", "next"}

\* Mic is never preempted for long between the probe of the lock and the end
\* of the callback, and has at most one frequency on its way.  The microphone
\* is on exactly in the loop over the players; a probe that outlives it is
\* over before Game's first sleep ends.
MicInv ==
    /\ pc[Mic] \in {"try", "unlock", "process"} => state[Mic] = "READY"
    /\ msgqueue[Music] # << >> =>
          /\ msgqueue[Music] = << Mic >>
          /\ pc[Mic] = "sent" /\ state[Mic] = "SNDMSGQ"
    /\ micOn => pc[Game] \in InLoop
    /\ ~micOn => terminate[Mic] \/ state[Mic] = "WTSTART"
    /\ ~micOn /\ pc[Mic] \in {"try", "unlock"} =>
          pc[Game] = "switch" /\ state[Game] = "SLEEPING"

\* The lock has an owner when it is counted, the owner alone lists it, and
\* nobody waits for it.  Music has it except while a turn is recorded, Mic
\* only for its probe; Mic processes a buffer only while Music does not have
\* it.  A musicThd of a later game may find it taken by the one before, and
\* then it has it without listing it.
LockInv ==
    /\ music_play_lock.waiting = {}
    /\ music_play_lock.owner \in {NoThread, Music, Mic}
    /\ music_play_lock.cnt = 0 <=> music_play_lock.owner = NoThread
    /\ \A t \in Thread : mtxlist[t] => music_play_lock.owner = t
    /\ pc[Mic] = "unlock" <=> music_play_lock.owner = Mic
    /\ music_play_lock.owner = Mic => music_play_lock.cnt = 1 /\ mtxlist[Mic]
    /\ pc[Mic] = "process" => music_play_lock.owner # Music
    /\ state[Music] # "WTMTX"
    /\ pc[Music] \in {"get_frequency", "next_note", "relock"} =>
          music_play_lock.owner # Music
    /\ pc[Music] \notin {"start", "get_frequency", "next_note", "relock"} =>
          music_play_lock.owner = Music
    /\ pc[Music] = "start" => ~mtxlist[Music]
    /\ mtxlist[Music] => music_play_lock.cnt = 1

\* As long as Game sleeps before a player's turn Music gets to its reference
\* before Game wakes: it is on its way, and the clock stands still; or it
\* sleeps too, and less.
OnItsWay ==
    \/ /\ pc[Music] \in {"start", "choose", "while", "suspend"}
       /\ state[Music] \in {"READY", "PRINTING"} /\ timer[Game] > 0
    \/ /\ pc[Music] = "sleep" /\ state[Music] = "READY"
       /\ timer[Game] = PlayerDelay
    \/ /\ pc[Music] = "while" /\ state[Music] = "SLEEPING"
       /\ 0 < timer[Music] /\ timer[Music] < timer[Game]

\* Music has just sent a score: the clock has not moved since.
JustScored ==
    \/ pc[Music] = "sleep" /\ state[Music] = "READY"
    \/ /\ pc[Music] = "while" /\ state[Music] = "SLEEPING"
       /\ timer[Music] = ScoreDelay

\* Music is in a turn.
Playing ==
    pc[Music] \in {"unlock", "get_frequency", "next_note", "relock", "score"}

\* Where Music is, for every place Game is at.
ProtocolInv ==
    /\ pc[Game] \in InLoop \cup {"init"} => gstate = "START_GAME"
    /\ pc[Game] \in InLoop => ~terminate[Music]
    /\ musicThdRef = Music =>
          /\ pc[Game] \in {"player_start", "listen"}
          /\ pc[Music] = "unlock" /\ state[Music] = "SUSPENDED"
    /\ pc[Game] = "player_start" =>
          musicThdRef = Music \/ (state[Game] = "SLEEPING" /\ OnItsWay)
    /\ pc[Game] = "listen" => musicThdRef = Music
    /\ pc[Game] = "get_score" /\ msgqueue[Game] = << >> => Playing
    /\ msgqueue[Game] # << >> =>
          /\ msgqueue[Game] = << Music >> /\ pc[Game] = "get_score"
          /\ pc[Music] = "sleep" /\ state[Music] = "SNDMSGQ"
    /\ pc[Game] = "next" => JustScored /\ state[Game] \in {"READY", "PRINTING"}
    /\ pc[Game] \notin InLoop =>
          \/ terminate[Music] /\ pc[Music] \in {"sleep", "while", "exited"}
          \/ state[Music] = "WTSTART" /\ pc[Music] = "start"

\* The first n scores of this game are computed, and with their players.
ScoresOf(n) == n <= Len(computed) /\ \A p \in Player : p < n => score[p] = computed[p + 1]

ScoreInv ==
    /\ pc[Game] \in {"player_start", "listen", "get_score"} => ScoresOf(player)
    /\ pc[Game] \in {"player_start", "listen", "get_score"} =>
          Len(computed) = IF msgqueue[Game] = << >> THEN player ELSE player + 1
    /\ msgqueue[Game] # << >> => p_msg[Music] = computed[player + 1]
    /\ pc[Game] = "next" => ScoresOf(player + 1) /\ Len(computed) = player + 1
    /\ pc[Game] = "wait_path" =>
          /\ gstate = "GOTO_WINNER"
          /\ target = IF computed[1] >= computed[2] THEN 0 ELSE 1
    /\ pc[Game] = "wait_photo" => gstate = "SEND_PHOTO"
    /\ WinnerIsRight

\* When Music is done with a note before the next window, a frequency is sent
\* only to a Music that asks for one.
SilentInv ==
    KeepsUp /\ msgqueue[Music] # << >> => pc[Music] = "get_frequency"

\* In the first game Music lists the lock whenever it has it.
FirstInv ==
    MaxGames <= 1 =>
       /\ ~halted
       /\ music_play_lock.owner = Music => mtxlist[Music]
       /\ pc[Music] = "start" => music_play_lock.owner # Music
       /\ games = 0 => gstate = "IDLE"
       /\ (games = 0 \/ (gstate = "START_GAME" /\ pc[Game] \in {"switch", "init"}))
          => pc[Music] = "start"

IInv ==
    SemaphoreInv /\ MicInv /\ LockInv /\ ProtocolInv /\ ScoreInv /\ SilentInv
    /\ FirstInv

-----------------------------------------------------------------------------
(***************************************************************************)
(* The semaphores and the lock.                                            *)
(***************************************************************************)

\* Every call keeps the count and the queue in step.
LEMMA Counting ==
    ASSUME NEW s \in Semaphore, NEW t \in Thread, Counted(s)
    PROVE  /\ Counted(SemWait(s, t)) /\ Counted(SemSignal(s))
           /\ Counted(BSemSignal(s))
<1> USE DEF Counted, Semaphore
<1>1. Counted(SemWait(s, t))
  <2>1. Len(Append(s.queue, t)) = Len(s.queue) + 1
    OBVIOUS
  <2> QED BY <2>1 DEF SemWait, SemBlocks
<1>2. Counted(SemSignal(s))
  <2>1. s.cnt \in Int /\ s.queue \in Seq(Thread)
    OBVIOUS
  <2>2. s.queue # << >> => /\ Len(Tail(s.queue)) = Len(s.queue) - 1
                           /\ Len(s.queue) = 1 => Tail(s.queue) = << >>
    <3> SUFFICES ASSUME s.queue # << >>
                 PROVE  /\ Len(Tail(s.queue)) = Len(s.queue) - 1
                        /\ Len(s.queue) = 1 => Tail(s.queue) = << >>
      OBVIOUS
    <3>1. Tail(s.queue) \in Seq(Thread) /\ Len(Tail(s.queue)) = Len(s.queue) - 1
      BY <2>1, HeadTailProperties
    <3>2. Tail(s.queue) # << >> => Len(Tail(s.queue)) # 0
      BY <3>1, EmptySeq
    <3> QED BY <3>1, <3>2
  <2>3. s.cnt < 0 => s.queue # << >>
    BY <2>1
  <2>4. CASE s.cnt < 0
    <3>1. SemWakes(s) /\ SemSignal(s).cnt = s.cnt + 1
          /\ SemSignal(s).queue = Tail(s.queue)
      BY <2>1, <2>3, <2>4 DEF SemSignal, SemWakes
    <3> QED BY <2>1, <2>2, <2>3, <2>4, <3>1
  <2>5. CASE s.cnt >= 0
    BY <2>5 DEF SemSignal, SemWakes
  <2> QED BY <2>4, <2>5
<1> QED BY <1>1, <1>2 DEF BSemSignal

\* What is consistent for the kernel is a consequence.
LEMMA CountedIsConsistent ==
    ASSUME NEW s \in Semaphore, Counted(s)
    PROVE  SemConsistent(s)
BY DEF Counted, Semaphore, SemConsistent

\* A queue of one thread stays one when it waits again and when it is woken.
LEMMA OnlyWaiter ==
    ASSUME NEW s \in Semaphore, NEW t \in Thread,
           \A k \in DOMAIN s.queue : s.queue[k] = t
    PROVE  /\ \A k \in DOMAIN SemWait(s, t).queue : SemWait(s, t).queue[k] = t
           /\ \A k \in DOMAIN BSemSignal(s).queue : BSemSignal(s).queue[k] = t
           /\ BSemSignalled(s) \subseteq {t}
<1>1. s.queue \in Seq(Thread)
  BY DEF Semaphore
<1>2. \A k \in DOMAIN Append(s.queue, t) : Append(s.queue, t)[k] = t
  BY <1>1
<1>3. s.queue # << >> =>
         Head(s.queue) = t /\ \A k \in DOMAIN Tail(s.queue) : Tail(s.queue)[k] = t
  <2> SUFFICES ASSUME s.queue # << >>
               PROVE  Head(s.queue) = t /\ \A k \in DOMAIN Tail(s.queue) : Tail(s.queue)[k] = t
    OBVIOUS
  <2>1. 1 \in DOMAIN s.queue
    BY <1>1
  <2>2. \A k \in DOMAIN Tail(s.queue) :
           Tail(s.queue)[k] = s.queue[k + 1] /\ k + 1 \in DOMAIN s.queue
    BY <1>1
  <2> QED BY <1>1, <2>1, <2>2
<1> QED BY <1>2, <1>3 DEF SemWait, SemBlocks, BSemSignal, SemSignal, SemWakes,
           BSemSignalled, SemSignalled

\* A lock for which nobody waits is free again after the last chMtxUnlock.
LEMMA LastUnlock ==
    ASSUME NEW t \in Thread, NEW l, Unlock(t, l), KernelType,
           music_play_lock.waiting = {}, music_play_lock.cnt = 1,
           \A u \in Thread : mtxlist[u] => music_play_lock.owner = u,
           music_play_lock.owner = t
    PROVE  /\ music_play_lock' = FreeMutex
           /\ \A u \in Thread : ~mtxlist'[u]
           /\ Continue(t, "READY", l, {})
<1>1. MtxNextOwner(music_play_lock) = {NoThread}
  BY DEF MtxNextOwner
<1>2. /\ music_play_lock' = MtxUnlock(music_play_lock, NoThread)
      /\ mtxlist' = [u \in Thread |-> IF u = t THEN music_play_lock.cnt > 1
                                      ELSE u = NoThread \/ mtxlist[u]]
      /\ Continue(t, "READY", l, {NoThread} \ {NoThread})
  BY <1>1 DEF Unlock
<1>3. music_play_lock' = FreeMutex
  BY <1>2 DEF MtxUnlock, FreeMutex
<1>4. ~(music_play_lock.cnt > 1)
  OBVIOUS
<1>5. ASSUME NEW u \in Thread PROVE ~mtxlist'[u]
  <2>1. u # NoThread
    BY NoThreadAssumption
  <2>2. u # t => ~mtxlist[u]
    OBVIOUS
  <2> QED BY <1>2, <1>4, <2>1, <2>2
<1>6. {NoThread} \ {NoThread} = {}
  OBVIOUS
<1> QED BY <1>2, <1>3, <1>5, <1>6

-----------------------------------------------------------------------------
(***************************************************************************)
(* What the steps do to the threads that do not take them.                 *)
(***************************************************************************)

\* The threads are four, and the kernel starts none that is none.
LEMMA FourThreads ==
    /\ Game \in Thread /\ Music \in Thread /\ Mic \in Thread /\ Light \in Thread
    /\ Game # Music /\ Game # Mic /\ Game # Light
    /\ Music # Mic /\ Music # Light /\ Mic # Light
    /\ NoThread \notin Thread
BY ThreadsAssumption, NoThreadAssumption

\* t has the core: neither Game nor Mic is ready when Music or Light has it.
LEMMA PriorityOfMic ==
    ASSUME NEW t \in {Music, Light}, MayRun(state, t)
    PROVE  state[t] = "READY" /\ state[Mic] # "READY" /\ state[Game] # "READY"
<1>1. Prio[t] < Prio[Mic] /\ Prio[t] < Prio[Game] /\ Prio[t] \in Nat
      /\ Prio[Mic] \in Nat /\ Prio[Game] \in Nat
  BY FourThreads, ThreadsAssumption, PrioAssumption
<1>2. \A u \in Thread : state[u] = "READY" => Prio[u] <= Prio[t]
  BY DEF MayRun
<1>3. ~(Prio[Mic] <= Prio[t]) /\ ~(Prio[Game] <= Prio[t])
  BY <1>1
<1> QED BY <1>2, <1>3, FourThreads DEF MayRun

\* The state and the place of thread t do not change.
Stays(t) == state'[t] = state[t] /\ pc'[t] = pc[t] /\ timer'[t] = timer[t]

\* The steps of Game that leave the other threads and the kernel alone.
GameAlone ==
    \/ GameIdle \/ GameStart \/ GamePlayerStart \/ GameAwaitScore
    \/ GameNextPlayer \/ GameGotoWinner \/ GameSendPhoto \/ GameFinished
    \/ GameAtWinner \/ GamePhotoSent \/ \E w \in BOOLEAN : GameGetChar(w)

LEMMA GameAloneEffect ==
    ASSUME TypeOK, GameAlone
    PROVE  /\ Stays(Music) /\ Stays(Mic)
           /\ UNCHANGED <<terminate, msgqueue, p_msg, mtxlist, music_play_lock,
                          sem_new_note, musicThdRef, halted, musicVars, micVars>>
<1> USE FourThreads DEF TypeOK, ThreadType, Stays
<1>1. CASE GameIdle \/ GameStart \/ GamePlayerStart \/ GameGotoWinner \/ GameSendPhoto
  BY <1>1 DEF GameIdle, GameStart, GamePlayerStart, GameGotoWinner, GameSendPhoto,
              Say, Continue, Ready
<1>2. CASE GameAwaitScore
  BY <1>2 DEF GameAwaitScore, AwaitMessage, Continue, Ready
<1>3. CASE GameNextPlayer
  BY <1>3 DEF GameNextPlayer, Sleep, Continue, Ready, KernelType
<1>4. CASE GameFinished \/ GameAtWinner \/ GamePhotoSent
  BY <1>4 DEF GameFinished, GameAtWinner, GamePhotoSent, GameAdvance, Sleep,
              Continue, Ready, KernelType
<1>5. CASE \E w \in BOOLEAN : GameGetChar(w)
  BY <1>5 DEF GameGetChar, Sleep, Continue, Ready, KernelType
<1> QED BY <1>1, <1>2, <1>3, <1>4, <1>5 DEF GameAlone

\* The steps of Music that leave the other threads and the kernel alone.
MusicAlone ==
    \/ MusicChoose \/ MusicWhile \/ MusicAwaitFrequency \/ MusicNextNote
    \/ MusicSleep

LEMMA MusicAloneEffect ==
    ASSUME TypeOK, MusicAlone
    PROVE  /\ Stays(Game) /\ Stays(Mic) /\ MayRun(state, Music)
           /\ UNCHANGED <<terminate, msgqueue, p_msg, mtxlist, music_play_lock,
                          sem_new_note, musicThdRef, halted, gameVars, computed,
                          micVars>>
<1> USE FourThreads DEF TypeOK, ThreadType, Stays, musicVars, At, Runs
<1>1. CASE MusicChoose \/ MusicWhile \/ MusicNextNote
  BY <1>1 DEF MusicChoose, MusicWhile, MusicNextNote, Say, Goto, Continue, Ready
<1>2. CASE MusicAwaitFrequency
  BY <1>2 DEF MusicAwaitFrequency, AwaitMessage, Continue, Ready
<1>3. CASE MusicSleep
  BY <1>3 DEF MusicSleep, Sleep, Continue, Ready, KernelType
<1> QED BY <1>1, <1>2, <1>3 DEF MusicAlone

\* The steps of Mic that leave the other threads and the kernel alone, but
\* for the semaphore it waits for.
MicAlone ==
    MicWhile \/ MicWait2 \/ MicTest \/ MicSent \/ \E edge \in BOOLEAN : MicIgnore(edge)

LEMMA MicAloneEffect ==
    ASSUME TypeOK, MicAlone
    PROVE  /\ Stays(Game) /\ Stays(Music) /\ state[Mic] = "READY"
           /\ UNCHANGED <<terminate, timer, msgqueue, p_msg, mtxlist,
                          music_play_lock, sem_new_note, musicThdRef, halted,
                          gameVars, musicVars, micOn>>
<1> USE FourThreads DEF TypeOK, ThreadType, Stays, micVars, At, Runs, MayRun
<1>1. CASE MicWhile \/ MicWait2
  BY <1>1 DEF MicWhile, MicWait2, MicWaitBuffer, Continue, Ready
<1>2. CASE MicTest
  BY <1>2 DEF MicTest, Goto, Continue, Ready
<1>3. CASE MicSent \/ \E edge \in BOOLEAN : MicIgnore(edge)
  BY <1>3 DEF MicSent, MicIgnore, Goto, Continue, Ready
<1> QED BY <1>1, <1>2, <1>3 DEF MicAlone

LEMMA LightEffect ==
    ASSUME TypeOK, LightStep
    PROVE  /\ Stays(Game) /\ Stays(Music) /\ Stays(Mic) /\ MayRun(state, Light)
           /\ sem_new_note' \in {sem_new_note, SemWait(sem_new_note, Light)}
           /\ UNCHANGED <<terminate, timer, msgqueue, p_msg, mtxlist,
                          music_play_lock, musicThdRef, halted, gameVars,
                          musicVars, micVars>>
<1> USE FourThreads DEF TypeOK, ThreadType, Stays, At, Runs
<1>1. CASE LightWhile
  BY <1>1 DEF LightWhile, Continue, Ready
<1>2. CASE LightColour
  BY <1>2 DEF LightColour, Goto, Continue, Ready
<1> QED BY <1>1, <1>2 DEF LightStep

\* music_init finds the microphone off, and creates all three threads.
LEMMA GameMusicInitEffect ==
    ASSUME TypeOK, MicInv, GameMusicInit
    PROVE  /\ pc[Game] = "init" /\ ~micOn /\ state[Game] = "READY"
           /\ state'[Game] = "SLEEPING" /\ pc'[Game] = "player_start"
           /\ state'[Music] = "READY" /\ pc'[Music] = "start"
           /\ state'[Mic] = "READY" /\ pc'[Mic] = "while"
           /\ timer'[Game] = PlayerDelay
           /\ ~terminate'[Music] /\ ~terminate'[Mic]
           /\ msgqueue'[Music] = << >> /\ msgqueue'[Game] = msgqueue[Game]
           /\ ~mtxlist'[Music] /\ ~mtxlist'[Mic]
           /\ mtxlist'[Game] = mtxlist[Game]
           /\ \A t \in Thread : mtxlist'[t] => t = Game
           /\ micOn' /\ DataProcessingSem' = SemInit(0)
           /\ player' = 0 /\ computed' = << >>
           /\ UNCHANGED <<p_msg, music_play_lock, sem_new_note, musicThdRef,
                          halted, gstate, score, target, games>>
<1> USE FourThreads DEF TypeOK, ThreadType
<1>1. pc[Game] = "init" /\ ~micOn /\ state[Game] = "READY"
  BY DEF GameMusicInit, At, Runs, MayRun, MicInv, InLoop
<1>2. Created = {Mic, Music, Light} /\ PlayerDelay # 0
  BY <1>1, DelayAssumption DEF Created
<1>3. /\ state'[Game] = "SLEEPING" /\ state'[Music] = "READY" /\ state'[Mic] = "READY"
      /\ pc'[Game] = "player_start" /\ pc'[Music] = "start" /\ pc'[Mic] = "while"
  BY <1>2 DEF GameMusicInit, FirstPc
<1>4. /\ timer'[Game] = PlayerDelay
      /\ msgqueue'[Music] = << >> /\ msgqueue'[Game] = msgqueue[Game]
  BY <1>2 DEF GameMusicInit, KernelType
<1>5. /\ ~terminate'[Music] /\ ~terminate'[Mic]
      /\ ~mtxlist'[Music] /\ ~mtxlist'[Mic] /\ mtxlist'[Game] = mtxlist[Game]
      /\ \A t \in Thread : mtxlist'[t] => t = Game
  <2>1. Music \in Created /\ Mic \in Created /\ Light \in Created /\ Game \notin Created
    BY <1>2
  <2>2. /\ terminate' = [t \in Thread |-> t \notin Created /\ terminate[t]]
        /\ mtxlist' = [t \in Thread |-> t \notin Created /\ mtxlist[t]]
    BY DEF GameMusicInit
  <2>3. \A t \in Thread : t \notin Created => t = Game
    BY <2>1, ThreadsAssumption
  <2>4. mtxlist \in [Thread -> BOOLEAN]
    BY DEF KernelType
  <2> HIDE DEF TypeOK, ThreadType
  <2> QED BY <2>1, <2>2, <2>3, <2>4, FourThreads, Zenon
<1>6. /\ micOn' /\ DataProcessingSem' = SemInit(0)
      /\ player' = 0 /\ computed' = << >>
      /\ UNCHANGED <<p_msg, music_play_lock, sem_new_note, musicThdRef,
                     halted, gstate, score, target, games>>
  BY <1>1 DEF GameMusicInit
<1> QED BY <1>1, <1>3, <1>4, <1>5, <1>6

\* music_listen wakes Music, or nobody.
LEMMA GameListenEffect ==
    ASSUME TypeOK, GameListen
    PROVE  /\ pc[Game] = "listen" /\ pc'[Game] = "get_score" /\ state'[Game] = "READY"
           /\ pc'[Music] = pc[Music]
           /\ state'[Music] = IF musicThdRef = Music THEN "READY" ELSE state[Music]
           /\ Stays(Mic) /\ musicThdRef' = NoThread
           /\ UNCHANGED <<terminate, timer, msgqueue, p_msg, mtxlist,
                          music_play_lock, sem_new_note, halted, gameVars,
                          musicVars, micVars>>
<1> USE FourThreads DEF TypeOK, ThreadType
<1>1. musicThdRef \in {Music, NoThread}
  BY DEF KernelType
<1> QED BY <1>1 DEF GameListen, At, Continue, Ready, Stays

\* get_score releases Music.
LEMMA GameGetScoreEffect ==
    ASSUME TypeOK, ProtocolInv, GameGetScore
    PROVE  /\ pc[Game] = "get_score" /\ msgqueue[Game] = << Music >>
           /\ pc'[Game] = "next" /\ state'[Game] = "PRINTING"
           /\ msgqueue'[Game] = << >> /\ msgqueue'[Music] = msgqueue[Music]
           /\ score' = [score EXCEPT ![player] = p_msg[Music]]
           /\ pc'[Music] = pc[Music] /\ state'[Music] = "READY" /\ Stays(Mic)
           /\ UNCHANGED <<terminate, timer, p_msg, mtxlist, music_play_lock,
                          sem_new_note, musicThdRef, halted, gstate, player,
                          target, games, musicVars, micVars>>
<1> USE FourThreads DEF TypeOK, ThreadType
<1>1. pc[Game] = "get_score" /\ msgqueue[Game] # << >>
  BY DEF GameGetScore, At, Receive
<1>2. msgqueue[Game] = << Music >>
  BY <1>1 DEF ProtocolInv
<1>3. Head(msgqueue[Game]) = Music /\ Tail(msgqueue[Game]) = << >>
  BY <1>2
<1> QED BY <1>1, <1>2, <1>3
        DEF GameGetScore, Receive, Received, Continue, Ready, Stays, MessageType

\* music_stop wakes Mic, or nobody.
LEMMA GameMusicStopEffect ==
    ASSUME TypeOK, SemaphoreInv, GameMusicStop
    PROVE  /\ pc[Game] = "next" /\ player + 1 = NumPlayers
           /\ pc'[Game] = "switch" /\ state'[Game] = "SLEEPING"
           /\ Stays(Music) /\ pc'[Mic] = pc[Mic]
           /\ state'[Mic] \in {state[Mic], "READY"}
           /\ state[Mic] # "WTSEM" => state'[Mic] = state[Mic]
           /\ ~micOn' /\ terminate'[Music] /\ terminate'[Mic]
           /\ DataProcessingSem' = SemInit(0) /\ gstate' = "GOTO_WINNER"
           /\ UNCHANGED <<msgqueue, p_msg, mtxlist, music_play_lock,
                          sem_new_note, musicThdRef, halted, player, score,
                          target, games, musicVars>>
<1> USE FourThreads DEF TypeOK, ThreadType
<1>1. SemResetWoken(DataProcessingSem) \subseteq {Mic}
      /\ (state[Mic] # "WTSEM" => SemResetWoken(DataProcessingSem) = {})
  <2>1. CASE DataProcessingSem.queue = << >>
    BY <2>1 DEF SemResetWoken
  <2>2. CASE DataProcessingSem.queue = << Mic >> /\ state[Mic] = "WTSEM"
    BY <2>2 DEF SemResetWoken
  <2> QED BY <2>1, <2>2 DEF SemaphoreInv
<1>2. terminate'[Music] /\ terminate'[Mic]
  BY DEF GameMusicStop
<1>3. Stays(Music) /\ pc'[Mic] = pc[Mic] /\ state'[Mic] \in {state[Mic], "READY"}
      /\ (state[Mic] # "WTSEM" => state'[Mic] = state[Mic])
      /\ pc'[Game] = "switch" /\ state'[Game] = "SLEEPING"
  BY <1>1 DEF GameMusicStop, Continue, Ready, Stays, KernelType
<1> QED BY <1>2, <1>3 DEF GameMusicStop, At, SemReset

\* Music finds the lock free or its own: Mic cannot be in the middle of its
\* probe when Music has the core.
LEMMA MusicLockEffect ==
    ASSUME TypeOK, MicInv, LockInv, NEW from, NEW to, MusicLock(from, to)
    PROVE  /\ MayRun(state, Music) /\ pc[Music] = from
           /\ pc[Mic] \notin {"try", "unlock", "process"}
           /\ state'[Music] = "READY" /\ pc'[Music] = to
           /\ Stays(Game) /\ Stays(Mic) /\ timer' = timer
           /\ music_play_lock.owner \in {NoThread, Music}
           /\ music_play_lock' = [owner |-> Music, cnt |-> music_play_lock.cnt + 1,
                                  waiting |-> {}]
           /\ mtxlist'[Music] = (mtxlist[Music] \/ music_play_lock.owner = NoThread)
           /\ \A t \in Thread \ {Music} : mtxlist'[t] = mtxlist[t]
           /\ UNCHANGED <<terminate, msgqueue, p_msg, sem_new_note, musicThdRef,
                          halted, gameVars, musicVars, micVars>>
<1> USE FourThreads DEF TypeOK, ThreadType
<1>1. MayRun(state, Music) /\ pc[Music] = from
  BY DEF MusicLock, At, Runs
<1>2. pc[Mic] \notin {"try", "unlock", "process"}
  BY <1>1, PriorityOfMic DEF MicInv
<1>3. music_play_lock.owner \in {NoThread, Music} /\ music_play_lock.waiting = {}
  BY <1>2 DEF LockInv
<1>4. ~MtxBlocks(music_play_lock, Music)
  BY <1>3 DEF MtxBlocks
<1>5. music_play_lock' = [owner |-> Music, cnt |-> music_play_lock.cnt + 1,
                          waiting |-> {}]
  BY <1>3, <1>4 DEF MusicLock, MtxLock
<1>6. mtxlist' = [mtxlist EXCEPT ![Music] = mtxlist[Music] \/ music_play_lock.owner = NoThread]
  BY DEF MusicLock, MtxListed
<1>7. /\ mtxlist'[Music] = (mtxlist[Music] \/ music_play_lock.owner = NoThread)
      /\ \A t \in Thread \ {Music} : mtxlist'[t] = mtxlist[t]
  BY <1>6 DEF KernelType
<1>8. /\ state'[Music] = "READY" /\ pc'[Music] = to
      /\ Stays(Game) /\ Stays(Mic) /\ timer' = timer
  BY <1>4 DEF MusicLock, Continue, Ready, Stays
<1>9. UNCHANGED <<terminate, msgqueue, p_msg, sem_new_note, musicThdRef,
                  halted, gameVars, musicVars, micVars>>
  BY DEF MusicLock
<1> QED BY <1>1, <1>2, <1>3, <1>5, <1>7, <1>8, <1>9

LEMMA MusicSuspendEffect ==
    ASSUME TypeOK, MusicSuspend
    PROVE  /\ pc[Music] = "suspend" /\ MayRun(state, Music)
           /\ \/ Halt /\ musicThdRef # NoThread
              \/ /\ musicThdRef' = Music
                 /\ state'[Music] = "SUSPENDED" /\ pc'[Music] = "unlock"
                 /\ Stays(Game) /\ Stays(Mic)
                 /\ UNCHANGED <<terminate, timer, msgqueue, p_msg, mtxlist,
                                music_play_lock, sem_new_note, halted, gameVars,
                                musicVars, micVars>>
BY FourThreads
DEF MusicSuspend, At, Runs, TypeOK, ThreadType, Continue, Ready, Stays

\* A turn begins with the lock free, or the kernel stops.
LEMMA MusicUnlockEffect ==
    ASSUME TypeOK, LockInv, MusicUnlock
    PROVE  /\ pc[Music] = "unlock" /\ MayRun(state, Music)
           /\ \/ Halt /\ ~MayUnlock(Music)
              \/ /\ music_play_lock.owner = Music /\ music_play_lock' = FreeMutex
                 /\ \A t \in Thread : ~mtxlist'[t]
                 /\ state'[Music] = "READY" /\ pc'[Music] = "get_frequency"
                 /\ Stays(Game) /\ Stays(Mic)
                 /\ UNCHANGED <<terminate, timer, msgqueue, p_msg, sem_new_note,
                                musicThdRef, halted, gameVars, computed, micVars>>
<1> USE FourThreads DEF TypeOK
<1>1. pc[Music] = "unlock" /\ MayRun(state, Music)
  BY DEF MusicUnlock, At, Runs
<1>2. CASE ~MayUnlock(Music)
  BY <1>1, <1>2 DEF MusicUnlock
<1>3. CASE MayUnlock(Music)
  <2>1. music_play_lock.owner = Music /\ music_play_lock.cnt = 1
    BY <1>3 DEF MayUnlock, MtxMayUnlock, LockInv
  <2>2. Unlock(Music, "get_frequency")
    BY <1>3 DEF MusicUnlock
  <2>3. /\ music_play_lock' = FreeMutex /\ \A t \in Thread : ~mtxlist'[t]
        /\ Continue(Music, "READY", "get_frequency", {})
    BY <2>1, <2>2, LastUnlock DEF LockInv
  <2>4. UNCHANGED <<terminate, timer, msgqueue, p_msg, sem_new_note,
                    musicThdRef, halted, gameVars, computed, micVars>>
    BY <1>3 DEF MusicUnlock
  <2> QED BY <1>1, <2>1, <2>3, <2>4 DEF Continue, Ready, Stays, ThreadType
<1> QED BY <1>2, <1>3

\* A frequency comes from Mic, which is released; Light may be woken.
LEMMA MusicGotFrequencyEffect ==
    ASSUME TypeOK, SemaphoreInv, MicInv, MusicGotFrequency
    PROVE  /\ pc[Music] = "get_frequency" /\ MayRun(state, Music)
           /\ msgqueue[Music] = << Mic >>
           /\ pc[Mic] = "sent" /\ state[Mic] = "SNDMSGQ"
           /\ msgqueue'[Music] = << >> /\ msgqueue'[Game] = msgqueue[Game]
           /\ state'[Music] \in {"READY", "PRINTING"} /\ pc'[Music] = "next_note"
           /\ state'[Mic] = "READY" /\ pc'[Mic] = "sent" /\ Stays(Game)
           /\ sem_new_note' = BSemSignal(sem_new_note)
           /\ UNCHANGED <<terminate, timer, p_msg, mtxlist, music_play_lock,
                          musicThdRef, halted, gameVars, computed, micVars>>
<1> USE FourThreads DEF TypeOK, ThreadType
<1>1. pc[Music] = "get_frequency" /\ MayRun(state, Music) /\ msgqueue[Music] # << >>
  BY DEF MusicGotFrequency, At, Runs
<1>2. msgqueue[Music] = << Mic >> /\ pc[Mic] = "sent" /\ state[Mic] = "SNDMSGQ"
  BY <1>1 DEF MicInv
<1>3. Head(msgqueue[Music]) = Mic /\ Tail(msgqueue[Music]) = << >>
  BY <1>2
<1>4. BSemSignalled(sem_new_note) \subseteq {Light}
  BY OnlyWaiter DEF SemaphoreInv, KernelType
<1>5. PICK s \in {"READY", "PRINTING"} :
        Continue(Music, s, "next_note", {Mic} \cup BSemSignalled(sem_new_note))
  BY <1>3 DEF MusicGotFrequency
<1>6. /\ state'[Music] \in {"READY", "PRINTING"} /\ pc'[Music] = "next_note"
      /\ state'[Mic] = "READY" /\ pc'[Mic] = pc[Mic]
      /\ state'[Game] = state[Game] /\ pc'[Game] = pc[Game]
  BY <1>4, <1>5 DEF Continue, Ready
<1>7. msgqueue'[Music] = << >> /\ msgqueue'[Game] = msgqueue[Game]
  BY <1>3 DEF MusicGotFrequency, MessageType
<1> QED BY <1>1, <1>2, <1>6, <1>7 DEF MusicGotFrequency, Stays

\* A score is sent to Game.
LEMMA MusicScoreEffect ==
    ASSUME TypeOK, MusicScore
    PROVE  /\ pc[Music] = "score" /\ MayRun(state, Music)
           /\ state'[Music] = "SNDMSGQ" /\ pc'[Music] = "sleep"
           /\ Stays(Mic) /\ pc'[Game] = pc[Game]
           /\ state'[Game] = IF state[Game] = "WTMSG" THEN "READY" ELSE state[Game]
           /\ msgqueue'[Game] = Append(msgqueue[Game], Music)
           /\ msgqueue'[Music] = msgqueue[Music]
           /\ computed' = Append(computed, p_msg'[Music]) /\ p_msg'[Music] \in Int
           /\ UNCHANGED <<terminate, timer, mtxlist, music_play_lock,
                          sem_new_note, musicThdRef, halted, gameVars, micVars>>
<1> USE FourThreads DEF TypeOK, ThreadType
<1>1. pc[Music] = "score" /\ MayRun(state, Music)
  BY DEF MusicScore, At, Runs
<1>2. chosen_song \in Song
  BY <1>1 DEF MusicType
<1>3. PICK points \in -100..100 :
        Send(Music, Game, points, "sleep") /\ computed' = Append(computed, points)
  BY <1>2, ScoreType, SongAssumption DEF MusicScore
<1>4. p_msg'[Music] = points /\ points \in Int
  BY <1>3 DEF Send, MessageType
<1>5. /\ state'[Music] = "SNDMSGQ" /\ pc'[Music] = "sleep"
      /\ Stays(Mic) /\ pc'[Game] = pc[Game]
      /\ state'[Game] = IF state[Game] = "WTMSG" THEN "READY" ELSE state[Game]
      /\ msgqueue'[Game] = Append(msgqueue[Game], Music)
      /\ msgqueue'[Music] = msgqueue[Music]
  <2>1. timer' = timer
    BY DEF MusicScore
  <2> QED BY <1>3, <2>1 DEF Send, Continue, Ready, Stays, MessageType
<1> QED BY <1>1, <1>3, <1>4, <1>5 DEF MusicScore

\* The probe takes the lock when it is free, and Mic goes on either way.
LEMMA MicTryLockEffect ==
    ASSUME TypeOK, LockInv, MicTryLock
    PROVE  /\ pc[Mic] = "try" /\ Stays(Game) /\ Stays(Music)
           /\ state'[Mic] = "READY"
           /\ \/ /\ pc'[Mic] = "while"
                 /\ UNCHANGED <<music_play_lock, mtxlist>>
              \/ /\ pc'[Mic] = "unlock" /\ music_play_lock.owner = NoThread
                 /\ music_play_lock' = [owner |-> Mic, cnt |-> 1, waiting |-> {}]
                 /\ mtxlist'[Mic]
                 /\ \A t \in Thread \ {Mic} : mtxlist'[t] = mtxlist[t]
           /\ UNCHANGED <<terminate, timer, msgqueue, p_msg, sem_new_note,
                          musicThdRef, halted, gameVars, musicVars, micVars>>
<1> USE FourThreads DEF TypeOK, ThreadType
<1>1. pc[Mic] = "try" /\ UNCHANGED <<terminate, timer, msgqueue, p_msg, sem_new_note,
                          musicThdRef, halted, gameVars, musicVars, micVars>>
  BY DEF MicTryLock, At
<1>2. CASE MtxBlocks(music_play_lock, Mic)
  BY <1>1, <1>2 DEF MicTryLock, Goto, Continue, Ready, Stays
<1>3. CASE ~MtxBlocks(music_play_lock, Mic)
  <2>1. music_play_lock.owner = NoThread
    BY <1>1, <1>3 DEF MtxBlocks, LockInv
  <2>2. music_play_lock.cnt = 0 /\ music_play_lock.waiting = {}
    BY <2>1 DEF LockInv
  <2>3. music_play_lock' = [owner |-> Mic, cnt |-> 1, waiting |-> {}]
    BY <1>3, <2>2 DEF MicTryLock, MtxLock
  <2>4. mtxlist' = [mtxlist EXCEPT ![Mic] = mtxlist[Mic] \/ music_play_lock.owner = NoThread]
    BY <1>3 DEF MicTryLock, MtxListed
  <2>5. mtxlist'[Mic] /\ \A t \in Thread \ {Mic} : mtxlist'[t] = mtxlist[t]
    BY <2>1, <2>4 DEF KernelType
  <2>6. Goto(Mic, "unlock")
    BY <1>3 DEF MicTryLock
  <2> QED BY <1>1, <2>1, <2>3, <2>5, <2>6 DEF Goto, Continue, Ready, Stays
<1> QED BY <1>2, <1>3

\* The probe gives the lock back, and never halts the kernel.
LEMMA MicUnlockEffect ==
    ASSUME TypeOK, LockInv, MicUnlock
    PROVE  /\ pc[Mic] = "unlock" /\ Stays(Game) /\ Stays(Music)
           /\ state'[Mic] = "READY" /\ pc'[Mic] = "process"
           /\ music_play_lock.owner = Mic /\ music_play_lock' = FreeMutex
           /\ \A t \in Thread : ~mtxlist'[t]
           /\ UNCHANGED <<terminate, timer, msgqueue, p_msg, sem_new_note,
                          musicThdRef, halted, gameVars, musicVars, micVars>>
<1> USE FourThreads DEF TypeOK
<1>1. pc[Mic] = "unlock"
  BY DEF MicUnlock, At
<1>2. music_play_lock.owner = Mic /\ music_play_lock.cnt = 1 /\ mtxlist[Mic]
  BY <1>1 DEF LockInv
<1>3. MayUnlock(Mic)
  BY <1>2 DEF MayUnlock, MtxMayUnlock
<1>4. /\ Unlock(Mic, "process")
      /\ UNCHANGED <<terminate, timer, msgqueue, p_msg, sem_new_note,
                     musicThdRef, halted, gameVars, musicVars, micVars>>
  BY <1>3 DEF MicUnlock
<1>5. /\ music_play_lock' = FreeMutex /\ \A t \in Thread : ~mtxlist'[t]
      /\ Continue(Mic, "READY", "process", {})
  BY <1>2, <1>4, LastUnlock DEF LockInv
<1> QED BY <1>1, <1>2, <1>4, <1>5 DEF Continue, Ready, Stays, ThreadType

\* A frequency is sent to Music.
LEMMA MicHearEffect ==
    ASSUME TypeOK, MicInv, MicHear
    PROVE  /\ pc[Mic] = "process" /\ MayBeFull /\ msgqueue[Music] = << >>
           /\ state'[Mic] = "SNDMSGQ" /\ pc'[Mic] = "sent"
           /\ Stays(Game) /\ pc'[Music] = pc[Music]
           /\ state'[Music] = IF state[Music] = "WTMSG" THEN "READY" ELSE state[Music]
           /\ msgqueue'[Music] = << Mic >> /\ msgqueue'[Game] = msgqueue[Game]
           /\ p_msg'[Music] = p_msg[Music]
           /\ UNCHANGED <<terminate, timer, mtxlist, music_play_lock,
                          sem_new_note, musicThdRef, halted, gameVars,
                          musicVars, DataProcessingSem, micOn>>
<1> USE FourThreads DEF TypeOK, ThreadType
<1>1. PICK edge \in BOOLEAN, freq \in Heard : MicSendFreq(edge, freq)
  BY DEF MicHear
<1>2. pc[Mic] = "process" /\ MayBeFull
  BY <1>1 DEF MicSendFreq, At
<1>3. msgqueue[Music] = << >>
  BY <1>2 DEF MicInv
<1>4. Send(Mic, Music, freq, "sent") /\ timer' = timer
  BY <1>1 DEF MicSendFreq
<1>5. msgqueue'[Music] = << Mic >> /\ msgqueue'[Game] = msgqueue[Game]
  BY <1>3, <1>4 DEF Send, MessageType
<1>6. /\ state'[Mic] = "SNDMSGQ" /\ pc'[Mic] = "sent"
      /\ Stays(Game) /\ pc'[Music] = pc[Music]
      /\ state'[Music] = IF state[Music] = "WTMSG" THEN "READY" ELSE state[Music]
      /\ p_msg'[Music] = p_msg[Music]
  BY <1>4 DEF Send, Continue, Ready, Stays, MessageType
<1> QED BY <1>1, <1>2, <1>3, <1>5, <1>6 DEF MicSendFreq

\* A buffer is full: Mic is woken if it waits for one.
LEMMA MicDmaEffect ==
    ASSUME TypeOK, SemaphoreInv, MicDma
    PROVE  /\ micOn /\ Stays(Game) /\ Stays(Music) /\ pc' = pc
           /\ DataProcessingSem' = SemSignal(DataProcessingSem)
           /\ state'[Mic] = IF DataProcessingSem.cnt < 0 THEN "READY" ELSE state[Mic]
           /\ UNCHANGED <<terminate, timer, msgqueue, p_msg, mtxlist,
                          music_play_lock, sem_new_note, musicThdRef, halted,
                          gameVars, musicVars, micOn>>
<1> USE FourThreads DEF TypeOK, ThreadType
<1>1. SemSignalled(DataProcessingSem) = IF DataProcessingSem.cnt < 0 THEN {Mic} ELSE {}
  <2>1. CASE DataProcessingSem.cnt >= 0 /\ DataProcessingSem.queue = << >>
    BY <2>1 DEF SemSignalled, SemWakes, KernelType, Semaphore
  <2>2. CASE DataProcessingSem.cnt = -1 /\ DataProcessingSem.queue = << Mic >>
    BY <2>2 DEF SemSignalled, SemWakes
  <2> QED BY <2>1, <2>2 DEF SemaphoreInv
<1> QED BY <1>1 DEF MicDma, Ready, Stays

\* The console wakes the thread whose text it printed.
LEMMA ConsoleEffect ==
    ASSUME TypeOK, NEW t \in Thread, ConsoleRelease(t)
    PROVE  /\ pc' = pc
           /\ \A u \in {Game, Music, Mic} :
                 state'[u] = IF u = t THEN "READY" ELSE state[u]
           /\ state[t] = "PRINTING"
           /\ UNCHANGED <<terminate, timer, msgqueue, p_msg, mtxlist,
                          music_play_lock, sem_new_note, musicThdRef, halted,
                          gameVars, musicVars, micVars>>
BY FourThreads DEF ConsoleRelease, Ready

\* The clock moves only while no thread has anything to do.
LEMMA TickEffect ==
    ASSUME TypeOK, Tick
    PROVE  /\ pc' = pc
           /\ \A u \in {Game, Music, Mic} :
                 /\ state[u] \notin {"READY", "PRINTING"}
                 /\ timer'[u] = IF timer[u] > 0 THEN timer[u] - 1 ELSE 0
                 /\ state'[u] = IF state[u] = "SLEEPING" /\ timer[u] <= 1
                                THEN "READY" ELSE state[u]
           /\ UNCHANGED <<terminate, msgqueue, p_msg, mtxlist,
                          music_play_lock, sem_new_note, musicThdRef, halted,
                          gameVars, musicVars, micVars>>
BY FourThreads DEF Tick, Ready, TypeOK, ThreadType

-----------------------------------------------------------------------------
(***************************************************************************)
(* Every step keeps the semaphores.                                        *)
(***************************************************************************)

\* The steps by their effects.
LEMMA Steps ==
    Next => \/ GameAlone \/ GameMusicInit \/ GameListen \/ GameGetScore
            \/ GameMusicStop \/ MusicAlone \/ MusicLockStart \/ MusicRelock
            \/ MusicSuspend \/ MusicUnlock \/ MusicGotFrequency \/ MusicScore
            \/ MicAlone \/ MicTryLock \/ MicUnlock \/ MicHear \/ LightStep
            \/ MicDma \/ Tick \/ \E t \in Thread : ConsoleRelease(t)
BY DEF Next, GameStep, MusicStep, MicStep, Environment, GameAlone, MusicAlone, MicAlone

\* Mic's own waits for buffers.
LEMMA MicWaits ==
    ASSUME TypeOK, SemaphoreInv, MicAlone
    PROVE  /\ state'[Mic] \in {"READY", "WTSEM", "FINAL"}
           /\ \/ DataProcessingSem'.cnt >= 0 /\ DataProcessingSem'.queue = << >>
              \/ /\ DataProcessingSem'.cnt = -1 /\ DataProcessingSem'.queue = << Mic >>
                 /\ state'[Mic] = "WTSEM" /\ pc'[Mic] \in {"wait2", "test"}
<1> USE FourThreads DEF TypeOK, ThreadType
<1>1. state[Mic] = "READY"
  BY MicAloneEffect
<1>2. /\ DataProcessingSem.cnt >= 0 /\ DataProcessingSem.queue = << >>
      /\ DataProcessingSem.cnt \in Int
  BY <1>1 DEF SemaphoreInv, KernelType, Semaphore
<1>3. ASSUME NEW l \in {"wait2", "test"}, MicWaitBuffer(l)
      PROVE  /\ state'[Mic] \in {"READY", "WTSEM"} /\ pc'[Mic] = l
             /\ \/ DataProcessingSem'.cnt >= 0 /\ DataProcessingSem'.queue = << >>
                \/ /\ DataProcessingSem'.cnt = -1 /\ DataProcessingSem'.queue = << Mic >>
                   /\ state'[Mic] = "WTSEM"
  <2>1. /\ DataProcessingSem' = SemWait(DataProcessingSem, Mic)
        /\ state'[Mic] = IF SemBlocks(DataProcessingSem) THEN "WTSEM" ELSE "READY"
        /\ pc'[Mic] = l
    BY <1>3 DEF MicWaitBuffer, Continue, Ready
  <2>2. Append(<< >>, Mic) = << Mic >>
    OBVIOUS
  <2>3. CASE SemBlocks(DataProcessingSem)
    BY <1>2, <2>1, <2>2, <2>3 DEF SemWait, SemBlocks
  <2>4. CASE ~SemBlocks(DataProcessingSem)
    BY <1>2, <2>1, <2>4 DEF SemWait, SemBlocks
  <2> QED BY <2>1, <2>3, <2>4
<1>4. CASE MicWhile
  <2>1. CASE terminate[Mic]
    BY <1>2, <1>4, <2>1 DEF MicWhile, Continue, Ready
  <2>2. CASE ~terminate[Mic]
    BY <1>3, <1>4, <2>2 DEF MicWhile
  <2> QED BY <2>1, <2>2
<1>5. CASE MicWait2
  BY <1>3, <1>5 DEF MicWait2
<1>6. CASE MicTest \/ MicSent \/ \E edge \in BOOLEAN : MicIgnore(edge)
  BY <1>2, <1>6 DEF MicTest, MicSent, MicIgnore, Goto, Continue, Ready, micVars
<1> QED BY <1>4, <1>5, <1>6 DEF MicAlone

LEMMA SemaphoresStep ==
    ASSUME TypeOK, SemaphoreInv, MicInv, LockInv, ProtocolInv, Next
    PROVE  SemaphoreInv'
<1> USE FourThreads
<1> DEFINE NoteSem(s) == /\ Counted(s) /\ s.cnt <= 1
                         /\ \A k \in DOMAIN s.queue : s.queue[k] = Light
           Buffers == \/ DataProcessingSem.cnt >= 0 /\ DataProcessingSem.queue = << >>
                      \/ /\ DataProcessingSem.cnt = -1 /\ DataProcessingSem.queue = << Mic >>
                         /\ state[Mic] = "WTSEM" /\ pc[Mic] \in {"wait2", "test"}
<1>1. NoteSem(sem_new_note) /\ Buffers /\ sem_new_note \in Semaphore
  BY DEF SemaphoreInv, TypeOK, KernelType
<1>2. NoteSem(BSemSignal(sem_new_note)) /\ NoteSem(SemWait(sem_new_note, Light))
  <2>1. SemWait(sem_new_note, Light).cnt <= 1 /\ BSemSignal(sem_new_note).cnt <= 1
    BY <1>1 DEF Semaphore, SemWait, BSemSignal, SemSignal
  <2> QED BY <1>1, <2>1, Counting, OnlyWaiter
<1>3. SemaphoreInv' <=> NoteSem(sem_new_note') /\ Buffers'
  BY DEF SemaphoreInv, Counted
<1> HIDE DEF NoteSem
<1>4. CASE UNCHANGED <<sem_new_note, DataProcessingSem>> /\ Stays(Mic)
  BY <1>1, <1>3, <1>4 DEF Stays
<1>5. CASE GameAlone
  BY <1>4, <1>5, GameAloneEffect DEF micVars
<1>6. CASE GameMusicInit
  <2>1. DataProcessingSem' = SemInit(0) /\ sem_new_note' = sem_new_note
    BY <1>6, GameMusicInitEffect
  <2> QED BY <1>1, <1>3, <2>1 DEF SemInit
<1>7. CASE GameListen \/ GameGetScore
  BY <1>4, <1>7, GameListenEffect, GameGetScoreEffect DEF micVars
<1>8. CASE GameMusicStop
  <2>1. DataProcessingSem' = SemInit(0) /\ sem_new_note' = sem_new_note
    BY <1>8, GameMusicStopEffect
  <2> QED BY <1>1, <1>3, <2>1 DEF SemInit
<1>9. CASE MusicAlone \/ MusicLockStart \/ MusicRelock \/ MusicScore
  BY <1>4, <1>9, MusicAloneEffect, MusicLockEffect, MusicScoreEffect
  DEF micVars, MusicLockStart, MusicRelock
<1>10. CASE MusicSuspend \/ MusicUnlock
  <2>1. CASE Halt
    BY <1>4, <2>1 DEF Halt, kernel, micVars, Stays
  <2>2. CASE ~Halt
    BY <1>4, <1>10, <2>2, MusicSuspendEffect, MusicUnlockEffect DEF micVars
  <2> QED BY <2>1, <2>2
<1>11. CASE MusicGotFrequency
  <2>1. /\ state[Mic] = "SNDMSGQ" /\ sem_new_note' = BSemSignal(sem_new_note)
        /\ DataProcessingSem' = DataProcessingSem
    BY <1>11, MusicGotFrequencyEffect DEF micVars
  <2> QED BY <1>1, <1>2, <1>3, <2>1
<1>12. CASE MicAlone
  <2>1. sem_new_note' = sem_new_note
    BY <1>12, MicAloneEffect
  <2> QED BY <1>1, <1>3, <1>12, <2>1, MicWaits
<1>13. CASE MicTryLock \/ MicUnlock \/ MicHear
  <2>1. pc[Mic] \in {"try", "unlock", "process"}
    BY <1>13 DEF MicTryLock, MicUnlock, MicHear, MicSendFreq, At
  <2>2. UNCHANGED <<sem_new_note, DataProcessingSem>>
    BY <1>13, MicTryLockEffect, MicUnlockEffect, MicHearEffect DEF micVars
  <2> QED BY <1>1, <1>3, <2>1, <2>2
<1>14. CASE LightStep
  <2>1. NoteSem(sem_new_note')
    BY <1>1, <1>2, <1>14, LightEffect
  <2> QED BY <1>1, <1>3, <1>14, <2>1, LightEffect DEF micVars, Stays
<1>15. CASE MicDma
  <2>1. /\ sem_new_note' = sem_new_note
        /\ DataProcessingSem' = SemSignal(DataProcessingSem)
    BY <1>15, MicDmaEffect
  <2>2. DataProcessingSem'.cnt >= 0 /\ DataProcessingSem'.queue = << >>
    <3>1. DataProcessingSem.cnt \in Int
      BY DEF TypeOK, KernelType, Semaphore
    <3>2. CASE DataProcessingSem.cnt >= 0 /\ DataProcessingSem.queue = << >>
      BY <2>1, <3>1, <3>2 DEF SemSignal, SemWakes
    <3>3. CASE DataProcessingSem.cnt = -1 /\ DataProcessingSem.queue = << Mic >>
      <4>1. Tail(<< Mic >>) = << >>
        OBVIOUS
      <4> QED BY <2>1, <3>3, <4>1 DEF SemSignal, SemWakes
    <3> QED BY <1>1, <3>2, <3>3
  <2> QED BY <1>1, <1>3, <2>1, <2>2
<1>16. CASE Tick
  <2>1. UNCHANGED <<sem_new_note, DataProcessingSem, pc>>
        /\ (state[Mic] = "WTSEM" => state'[Mic] = "WTSEM")
    BY <1>16, TickEffect DEF micVars
  <2> QED BY <1>1, <1>3, <2>1
<1>17. CASE \E t \in Thread : ConsoleRelease(t)
  <2>1. UNCHANGED <<sem_new_note, DataProcessingSem, pc>>
        /\ (state[Mic] = "WTSEM" => state'[Mic] = "WTSEM")
    BY <1>17, ConsoleEffect DEF micVars
  <2> QED BY <1>1, <1>3, <2>1
<1> QED BY <1>5, <1>6, <1>7, <1>8, <1>9, <1>10, <1>11, <1>12, <1>13, <1>14,
           <1>15, <1>16, <1>17, Steps

-----------------------------------------------------------------------------
(***************************************************************************)
(* Every step keeps Mic's invariant and the lock's.                        *)
(***************************************************************************)

\* Where Game goes from its loop over the players.
LEMMA GameAlonePlaces ==
    ASSUME TypeOK, GameAlone
    PROVE  /\ pc'[Game] \in InLoop <=> pc[Game] \in InLoop
           /\ pc[Game] = "switch" /\ state[Game] = "SLEEPING" =>
                 pc'[Game] = "switch" /\ state'[Game] = "SLEEPING"
<1> USE FourThreads DEF TypeOK, ThreadType, InLoop, At, Runs, MayRun
<1>1. CASE GameIdle \/ GameStart \/ GamePlayerStart \/ GameGotoWinner \/ GameSendPhoto
  BY <1>1 DEF GameIdle, GameStart, GamePlayerStart, GameGotoWinner, GameSendPhoto,
              Say, Continue
<1>2. CASE GameAwaitScore
  BY <1>2 DEF GameAwaitScore, AwaitMessage, Continue
<1>3. CASE GameNextPlayer
  BY <1>3 DEF GameNextPlayer, Sleep, Continue
<1>4. CASE GameFinished \/ GameAtWinner \/ GamePhotoSent
  BY <1>4 DEF GameFinished, GameAtWinner, GamePhotoSent, GameAdvance, Sleep, Continue
<1>5. CASE \E w \in BOOLEAN : GameGetChar(w)
  BY <1>5 DEF GameGetChar, Sleep, Continue
<1> QED BY <1>1, <1>2, <1>3, <1>4, <1>5 DEF GameAlone

\* Where Mic goes from one buffer to the next.
LEMMA MicAlonePlaces ==
    ASSUME TypeOK, MicAlone
    PROVE  /\ pc[Mic] # "unlock" /\ pc'[Mic] \notin {"unlock", "process"}
           /\ pc'[Mic] = "try" => state'[Mic] = "READY" /\ ~terminate[Mic]
<1> USE FourThreads DEF TypeOK, ThreadType, At
<1>1. CASE MicWhile \/ MicWait2
  <2>1. pc[Mic] \in {"while", "wait2"} /\ pc'[Mic] \in {"exited", "wait2", "test"}
    <3>1. CASE MicWhile
      BY <3>1 DEF MicWhile, MicWaitBuffer, Continue
    <3>2. CASE MicWait2
      BY <3>2 DEF MicWait2, MicWaitBuffer, Continue
    <3> QED BY <1>1, <3>1, <3>2
  <2> QED BY <2>1
<1>2. CASE MicTest
  <2>1. pc[Mic] = "test"
    BY <1>2 DEF MicTest
  <2>2. CASE terminate[Mic]
    <3>1. pc' = [pc EXCEPT ![Mic] = "exited"]
      BY <1>2, <2>2, Zenon DEF MicTest, Continue
    <3> QED BY <2>1, <3>1
  <2>3. CASE ~terminate[Mic]
    <3>1. PICK l \in {"while", "try"} : Goto(Mic, l)
      BY <1>2, <2>3, Zenon DEF MicTest
    <3>2. pc'[Mic] \in {"while", "try"} /\ state'[Mic] = "READY"
      BY <3>1 DEF Goto, Continue, Ready
    <3> QED BY <2>1, <2>3, <3>2
  <2> QED BY <2>2, <2>3
<1>3. CASE MicSent \/ \E edge \in BOOLEAN : MicIgnore(edge)
  BY <1>3 DEF MicSent, MicIgnore, Goto, Continue
<1> QED BY <1>1, <1>2, <1>3 DEF MicAlone

LEMMA MicStepKept ==
    ASSUME TypeOK, SemaphoreInv, MicInv, LockInv, ProtocolInv, Next
    PROVE  MicInv'
<1> USE FourThreads DEF Stays, micVars
<1>1. CASE GameAlone
  BY <1>1, GameAloneEffect, GameAlonePlaces DEF MicInv
<1>2. CASE GameMusicInit
  BY <1>2, GameMusicInitEffect DEF MicInv, InLoop
<1>3. CASE GameListen
  BY <1>3, GameListenEffect DEF MicInv, InLoop
<1>4. CASE GameGetScore
  BY <1>4, GameGetScoreEffect DEF MicInv, InLoop
<1>5. CASE GameMusicStop
  BY <1>5, GameMusicStopEffect DEF MicInv, InLoop
<1>6. CASE MusicAlone
  BY <1>6, MusicAloneEffect DEF MicInv
<1>7. CASE MusicLockStart \/ MusicRelock
  BY <1>7, MusicLockEffect DEF MicInv, MusicLockStart, MusicRelock
<1>8. CASE MusicSuspend \/ MusicUnlock
  <2>1. CASE Halt
    BY <2>1 DEF Halt, kernel, MicInv
  <2>2. CASE ~Halt
    BY <1>8, <2>2, MusicSuspendEffect, MusicUnlockEffect DEF MicInv
  <2> QED BY <2>1, <2>2
<1>9. CASE MusicGotFrequency
  BY <1>9, MusicGotFrequencyEffect DEF MicInv
<1>10. CASE MusicScore
  <2>1. state[Game] = "SLEEPING" => state'[Game] = "SLEEPING"
    BY <1>10, MusicScoreEffect
  <2> QED BY <1>10, <2>1, MusicScoreEffect DEF MicInv
<1>11. CASE MicAlone
  <2>1. msgqueue[Music] = << >>
    BY <1>11, MicAloneEffect DEF MicInv
  <2> QED BY <1>11, <2>1, MicAloneEffect, MicAlonePlaces DEF MicInv
<1>12. CASE MicTryLock
  <2>1. msgqueue[Music] = << >>
    BY <1>12, MicTryLockEffect DEF MicInv
  <2> QED BY <1>12, <2>1, MicTryLockEffect DEF MicInv
<1>13. CASE MicUnlock
  BY <1>13, MicUnlockEffect DEF MicInv
<1>14. CASE MicHear
  <2>1. state[Mic] = "READY"
    BY <1>14, MicHearEffect DEF MicInv
  <2> QED BY <1>14, <2>1, MicHearEffect DEF MicInv
<1>15. CASE LightStep
  BY <1>15, LightEffect DEF MicInv
<1>16. CASE MicDma
  <2>1. DataProcessingSem.cnt < 0 => pc[Mic] \in {"wait2", "test"}
    BY DEF SemaphoreInv, TypeOK, KernelType, Semaphore
  <2> QED BY <1>16, <2>1, MicDmaEffect DEF MicInv
<1>17. CASE Tick
  BY <1>17, TickEffect DEF MicInv
<1>18. CASE \E t \in Thread : ConsoleRelease(t)
  BY <1>18, ConsoleEffect DEF MicInv
<1> QED BY <1>1, <1>2, <1>3, <1>4, <1>5, <1>6, <1>7, <1>8, <1>9, <1>10, <1>11,
           <1>12, <1>13, <1>14, <1>15, <1>16, <1>17, <1>18, Steps

\* Where Music goes on its own: it has the lock before and after, or not.
LEMMA MusicAlonePlaces ==
    ASSUME TypeOK, MusicAlone
    PROVE  /\ pc[Music] # "start" /\ pc'[Music] # "start"
           /\ pc'[Music] \in {"get_frequency", "next_note", "relock"}
                 <=> pc[Music] \in {"get_frequency", "next_note", "relock"}
           /\ state'[Music] \in {"READY", "PRINTING", "WTMSG", "SLEEPING", "FINAL"}
<1> USE FourThreads DEF TypeOK, ThreadType
<1>1. CASE MusicChoose
  <2>1. pc[Music] = "choose" /\ pc'[Music] = "while" /\ state'[Music] = "PRINTING"
    BY <1>1 DEF MusicChoose, Say, At, Continue, Ready
  <2> QED BY <2>1
<1>2. CASE MusicWhile
  <2>1. pc[Music] = "while"
    BY <1>2 DEF MusicWhile, At
  <2>2. \/ Continue(Music, "FINAL", "exited", {})
        \/ Goto(Music, "suspend")
    BY <1>2, Zenon DEF MusicWhile
  <2>3. pc'[Music] \in {"exited", "suspend"} /\ state'[Music] \in {"FINAL", "READY"}
    BY <2>2 DEF Goto, Continue, Ready
  <2> QED BY <2>1, <2>3
<1>3. CASE MusicAwaitFrequency
  <2>1. /\ pc[Music] = "get_frequency" /\ pc'[Music] = "get_frequency"
        /\ state'[Music] = "WTMSG"
    BY <1>3 DEF MusicAwaitFrequency, AwaitMessage, At, Continue, Ready
  <2> QED BY <2>1
<1>4. CASE MusicNextNote
  <2>1. pc[Music] = "next_note"
    BY <1>4 DEF MusicNextNote, At
  <2>2. pc'[Music] \in {"get_frequency", "relock"} /\ state'[Music] = "READY"
    BY <1>4 DEF MusicNextNote, Goto, Continue, Ready
  <2> QED BY <2>1, <2>2
<1>5. CASE MusicSleep
  <2>1. /\ pc[Music] = "sleep" /\ pc'[Music] = "while"
        /\ state'[Music] \in {"READY", "SLEEPING"}
    BY <1>5 DEF MusicSleep, Sleep, At, Continue, Ready
  <2> QED BY <2>1
<1> QED BY <1>1, <1>2, <1>3, <1>4, <1>5 DEF MusicAlone

\* What LockInv is about.
LEMMA LockFrame ==
    ASSUME LockInv, UNCHANGED <<music_play_lock, mtxlist>>,
           pc'[Mic] = pc[Mic], pc'[Music] = pc[Music], state'[Music] # "WTMTX"
    PROVE  LockInv'
BY DEF LockInv

LEMMA LockStep ==
    ASSUME TypeOK, SemaphoreInv, MicInv, LockInv, ProtocolInv, Next
    PROVE  LockInv'
<1> USE FourThreads DEF Stays
<1>0. state[Music] # "WTMTX" /\ music_play_lock.cnt \in Nat
  BY DEF LockInv, TypeOK, KernelType, Mutex
<1>1. CASE GameAlone
  BY <1>0, <1>1, GameAloneEffect, LockFrame
<1>2. CASE GameMusicInit
  <2>1. pc[Game] = "init" /\ ~micOn
    BY <1>2, GameMusicInitEffect
  <2>2. music_play_lock.owner \in {NoThread, Music} /\ ~mtxlist[Game]
    BY <2>1 DEF MicInv, LockInv
  <2>3. \A t \in Thread : ~mtxlist'[t]
    BY <1>2, <2>2, GameMusicInitEffect
  <2> QED BY <1>2, <2>2, <2>3, GameMusicInitEffect DEF LockInv
<1>3. CASE GameListen \/ GameGetScore
  BY <1>0, <1>3, GameListenEffect, GameGetScoreEffect, LockFrame
<1>4. CASE GameMusicStop
  BY <1>0, <1>4, GameMusicStopEffect, LockFrame
<1>5. CASE MusicAlone
  BY <1>5, MusicAloneEffect, MusicAlonePlaces DEF LockInv
<1>6. ASSUME NEW from \in {"start", "relock"}, NEW to \in {"choose", "score"},
             MusicLock(from, to)
      PROVE  LockInv'
  <2>1. /\ pc[Music] = from /\ pc'[Music] = to /\ state'[Music] = "READY"
        /\ pc'[Mic] = pc[Mic] /\ pc[Mic] \notin {"try", "unlock", "process"}
        /\ music_play_lock.owner \in {NoThread, Music}
        /\ music_play_lock' = [owner |-> Music, cnt |-> music_play_lock.cnt + 1,
                               waiting |-> {}]
        /\ mtxlist'[Music] = (mtxlist[Music] \/ music_play_lock.owner = NoThread)
        /\ \A t \in Thread \ {Music} : mtxlist'[t] = mtxlist[t]
    BY <1>6, MusicLockEffect
  <2>2. \A t \in Thread : mtxlist'[t] => t = Music
    BY <2>1 DEF LockInv
  <2>3. mtxlist'[Music] => music_play_lock.cnt = 0
    <3>1. CASE music_play_lock.owner = NoThread
      BY <3>1 DEF LockInv
    <3>2. CASE music_play_lock.owner = Music
      <4>1. from = "start"
        BY <2>1, <3>2 DEF LockInv
      <4> QED BY <2>1, <3>2, <4>1 DEF LockInv
    <3> QED BY <2>1, <3>1, <3>2
  <2>4. music_play_lock.cnt + 1 # 0
    BY <1>0
  <2> QED BY <1>0, <2>1, <2>2, <2>3, <2>4 DEF LockInv
<1>7. CASE MusicLockStart \/ MusicRelock
  BY <1>6, <1>7 DEF MusicLockStart, MusicRelock
<1>8. CASE MusicSuspend
  <2>1. CASE Halt
    BY <2>1 DEF Halt, kernel, LockInv
  <2>2. CASE ~Halt
    BY <1>8, <2>2, MusicSuspendEffect DEF LockInv
  <2> QED BY <2>1, <2>2
<1>9. CASE MusicUnlock
  <2>1. CASE Halt
    BY <2>1 DEF Halt, kernel, LockInv
  <2>2. CASE ~Halt
    <3>1. pc[Mic] # "unlock"
      BY <1>9, <2>2, MusicUnlockEffect DEF LockInv
    <3> QED BY <1>9, <2>2, <3>1, MusicUnlockEffect DEF LockInv, FreeMutex
  <2> QED BY <2>1, <2>2
<1>10. CASE MusicGotFrequency
  <2>1. /\ pc[Music] = "get_frequency" /\ pc'[Music] = "next_note"
        /\ pc'[Mic] = pc[Mic] /\ state'[Music] # "WTMTX"
        /\ UNCHANGED <<music_play_lock, mtxlist>>
    BY <1>10, MusicGotFrequencyEffect
  <2> QED BY <2>1 DEF LockInv
<1>11. CASE MusicScore
  <2>1. /\ pc[Music] = "score" /\ pc'[Music] = "sleep"
        /\ pc'[Mic] = pc[Mic] /\ state'[Music] # "WTMTX"
        /\ UNCHANGED <<music_play_lock, mtxlist>>
    BY <1>11, MusicScoreEffect
  <2> QED BY <2>1 DEF LockInv
<1>12. CASE MicAlone
  BY <1>12, MicAloneEffect, MicAlonePlaces DEF LockInv
<1>13. CASE MicTryLock
  <2>1. \A t \in Thread : mtxlist[t] => music_play_lock.owner = t
    BY DEF LockInv
  <2>2. CASE UNCHANGED <<music_play_lock, mtxlist>> /\ pc'[Mic] = "while"
    BY <1>13, <2>2, MicTryLockEffect DEF LockInv
  <2>3. CASE /\ pc'[Mic] = "unlock" /\ music_play_lock.owner = NoThread
             /\ music_play_lock' = [owner |-> Mic, cnt |-> 1, waiting |-> {}]
             /\ mtxlist'[Mic]
             /\ \A t \in Thread \ {Mic} : mtxlist'[t] = mtxlist[t]
    <3>1. \A t \in Thread : mtxlist'[t] => t = Mic
      BY <2>1, <2>3
    <3> QED BY <1>13, <2>3, <3>1, MicTryLockEffect DEF LockInv
  <2> QED BY <1>13, <2>2, <2>3, MicTryLockEffect
<1>14. CASE MicUnlock
  BY <1>14, MicUnlockEffect DEF LockInv, FreeMutex
<1>15. CASE MicHear
  BY <1>15, MicHearEffect DEF LockInv
<1>16. CASE LightStep
  BY <1>0, <1>16, LightEffect, LockFrame
<1>17. CASE MicDma
  BY <1>0, <1>17, MicDmaEffect, LockFrame
<1>18. CASE Tick
  BY <1>0, <1>18, TickEffect, LockFrame
<1>19. CASE \E t \in Thread : ConsoleRelease(t)
  BY <1>0, <1>19, ConsoleEffect, LockFrame
<1> QED BY <1>1, <1>2, <1>3, <1>4, <1>5, <1>7, <1>8, <1>9, <1>10, <1>11,
           <1>12, <1>13, <1>14, <1>15, <1>16, <1>17, <1>18, <1>19, Steps

-----------------------------------------------------------------------------
(***************************************************************************)
(* Every step keeps the protocol between Game and Music.                   *)
(***************************************************************************)

\* Game's ways through its loop over the players, and outside of it.
LEMMA GameAloneWays ==
    ASSUME TypeOK, GameAlone
    PROVE  \/ /\ pc[Game] \notin InLoop /\ pc'[Game] \notin InLoop
              /\ pc'[Game] = "init" => gstate' = "START_GAME"
           \/ /\ pc[Game] = "player_start" /\ state[Game] = "READY"
              /\ pc'[Game] = "listen" /\ UNCHANGED gameVars
           \/ /\ pc[Game] = "get_score" /\ pc'[Game] = "get_score"
              /\ UNCHANGED gameVars
           \/ /\ pc[Game] = "next" /\ pc'[Game] = "player_start"
              /\ state'[Game] = "SLEEPING" /\ timer'[Game] = PlayerDelay
              /\ player' = player + 1
              /\ UNCHANGED <<gstate, score, target, games>>
<1> USE FourThreads DEF TypeOK, ThreadType, InLoop, At, Runs, MayRun
<1>1. CASE GamePlayerStart
  BY <1>1 DEF GamePlayerStart, Say, Continue
<1>2. CASE GameIdle \/ GameGotoWinner \/ GameSendPhoto
  BY <1>2 DEF GameIdle, GameGotoWinner, GameSendPhoto, Say, Continue
<1>3. CASE GameStart
  <2>1. /\ pc[Game] = "switch" /\ pc'[Game] = "init"
        /\ gstate = "START_GAME" /\ gstate' = gstate
    BY <1>3 DEF GameStart, Say, Continue, gameVars
  <2> QED BY <2>1
<1>4. CASE GameAwaitScore
  BY <1>4 DEF GameAwaitScore, AwaitMessage, Continue
<1>5. CASE GameNextPlayer
  <2>1. PlayerDelay # 0
    BY DelayAssumption
  <2> QED BY <1>5, <2>1 DEF GameNextPlayer, Sleep, Continue, Ready, KernelType
<1>6. CASE GameFinished \/ GameAtWinner \/ GamePhotoSent
  BY <1>6 DEF GameFinished, GameAtWinner, GamePhotoSent, GameAdvance, Sleep, Continue
<1>7. CASE \E w \in BOOLEAN : GameGetChar(w)
  BY <1>7 DEF GameGetChar, Sleep, Continue
<1> QED BY <1>1, <1>2, <1>3, <1>4, <1>5, <1>6, <1>7 DEF GameAlone

\* Music's ways.
LEMMA MusicAloneWays ==
    ASSUME TypeOK, MusicAlone
    PROVE  \/ /\ pc[Music] = "choose" /\ pc'[Music] = "while"
              /\ state'[Music] = "PRINTING" /\ timer' = timer
           \/ /\ pc[Music] = "while" /\ state[Music] = "READY" /\ timer' = timer
              /\ \/ ~terminate[Music] /\ pc'[Music] = "suspend" /\ state'[Music] = "READY"
                 \/ terminate[Music] /\ pc'[Music] = "exited"
           \/ /\ pc[Music] \in {"get_frequency", "next_note"}
              /\ pc'[Music] \in {"get_frequency", "relock"} /\ timer' = timer
           \/ /\ pc[Music] = "sleep" /\ pc'[Music] = "while"
              /\ state[Music] = "READY" /\ state'[Music] = "SLEEPING"
              /\ timer'[Music] = ScoreDelay /\ timer'[Game] = timer[Game]
<1> USE FourThreads DEF TypeOK, ThreadType
<1>0. state[Music] = "READY"
  BY MusicAloneEffect DEF MayRun
<1>1. CASE MusicChoose
  BY <1>1 DEF MusicChoose, Say, At, Continue, Ready
<1>2. CASE MusicWhile
  <2>1. pc[Music] = "while" /\ timer' = timer
    BY <1>2 DEF MusicWhile, At
  <2>2. \/ terminate[Music] /\ Continue(Music, "FINAL", "exited", {})
        \/ ~terminate[Music] /\ Goto(Music, "suspend")
    BY <1>2, Zenon DEF MusicWhile
  <2>3. CASE terminate[Music] /\ Continue(Music, "FINAL", "exited", {})
    <3>1. pc'[Music] = "exited"
      BY <2>3 DEF Continue
    <3> QED BY <1>0, <2>1, <2>3, <3>1
  <2>4. CASE ~terminate[Music] /\ Goto(Music, "suspend")
    <3>1. pc'[Music] = "suspend" /\ state'[Music] = "READY"
      BY <2>4 DEF Goto, Continue, Ready
    <3> QED BY <1>0, <2>1, <2>4, <3>1
  <2> QED BY <2>2, <2>3, <2>4
<1>3. CASE MusicAwaitFrequency
  <2>1. pc[Music] = "get_frequency" /\ pc'[Music] = "get_frequency" /\ timer' = timer
    BY <1>3 DEF MusicAwaitFrequency, AwaitMessage, At, Continue, Ready
  <2> QED BY <2>1
<1>4. CASE MusicNextNote
  <2>1. pc[Music] = "next_note" /\ timer' = timer
    BY <1>4 DEF MusicNextNote, At
  <2>2. pc'[Music] \in {"get_frequency", "relock"}
    BY <1>4 DEF MusicNextNote, Goto, Continue, Ready
  <2> QED BY <2>1, <2>2
<1>5. CASE MusicSleep
  <2>1. /\ pc[Music] = "sleep" /\ pc'[Music] = "while" /\ state'[Music] = "SLEEPING"
        /\ timer'[Music] = ScoreDelay /\ timer'[Game] = timer[Game]
    BY <1>5, DelayAssumption DEF MusicSleep, Sleep, At, Continue, Ready, KernelType
  <2> QED BY <1>0, <2>1
<1> QED BY <1>1, <1>2, <1>3, <1>4, <1>5 DEF MusicAlone

\* What ProtocolInv is about.
LEMMA ProtocolFrame ==
    ASSUME ProtocolInv, pc'[Game] = pc[Game], pc'[Music] = pc[Music],
           UNCHANGED <<gstate, musicThdRef>>, terminate'[Music] = terminate[Music],
           msgqueue'[Game] = msgqueue[Game],
           timer'[Game] = timer[Game], timer'[Music] = timer[Music],
           \/ state'[Game] = state[Game]
           \/ state[Game] = "PRINTING" /\ state'[Game] = "READY",
           \/ state'[Music] = state[Music]
           \/ state[Music] \in {"PRINTING", "WTMSG"} /\ state'[Music] = "READY"
    PROVE  ProtocolInv'
BY DEF ProtocolInv, OnItsWay, JustScored, Playing, InLoop

LEMMA ProtocolStep ==
    ASSUME TypeOK, SemaphoreInv, MicInv, LockInv, ProtocolInv, Next
    PROVE  ProtocolInv'
<1> USE FourThreads DEF Stays
<1>0. /\ PlayerDelay \in Nat /\ ScoreDelay \in Nat /\ 0 < ScoreDelay
      /\ ScoreDelay < PlayerDelay
      /\ timer[Game] \in Nat /\ timer[Music] \in Nat
  BY DelayAssumption DEF TypeOK, KernelType
<1>1. CASE GameAlone
  <2>1. /\ state'[Music] = state[Music] /\ pc'[Music] = pc[Music]
        /\ timer'[Music] = timer[Music]
        /\ UNCHANGED <<terminate, msgqueue, musicThdRef>>
    BY <1>1, GameAloneEffect
  <2>2. CASE /\ pc[Game] \notin InLoop /\ pc'[Game] \notin InLoop
             /\ pc'[Game] = "init" => gstate' = "START_GAME"
    BY <2>1, <2>2 DEF ProtocolInv, InLoop
  <2>3. CASE /\ pc[Game] = "player_start" /\ state[Game] = "READY"
             /\ pc'[Game] = "listen" /\ UNCHANGED gameVars
    BY <2>1, <2>3 DEF ProtocolInv, InLoop, gameVars
  <2>4. CASE /\ pc[Game] = "get_score" /\ pc'[Game] = "get_score"
             /\ UNCHANGED gameVars
    BY <2>1, <2>4 DEF ProtocolInv, InLoop, gameVars, Playing
  <2>5. CASE /\ pc[Game] = "next" /\ pc'[Game] = "player_start"
             /\ state'[Game] = "SLEEPING" /\ timer'[Game] = PlayerDelay
             /\ player' = player + 1
             /\ UNCHANGED <<gstate, score, target, games>>
    <3>1. OnItsWay'
      BY <1>0, <2>1, <2>5 DEF ProtocolInv, JustScored, OnItsWay
    <3> QED BY <2>1, <2>5, <3>1 DEF ProtocolInv, InLoop
  <2> QED BY <1>1, <2>2, <2>3, <2>4, <2>5, GameAloneWays
<1>2. CASE GameMusicInit
  <2>1. OnItsWay'
    BY <1>0, <1>2, GameMusicInitEffect DEF OnItsWay
  <2> QED BY <1>2, <2>1, GameMusicInitEffect DEF ProtocolInv, InLoop
<1>3. CASE GameListen
  BY <1>3, GameListenEffect DEF ProtocolInv, InLoop, gameVars, Playing
<1>4. CASE GameGetScore
  <2>1. /\ pc[Game] = "get_score" /\ msgqueue[Game] = << Music >>
        /\ pc'[Game] = "next" /\ state'[Game] = "PRINTING"
        /\ msgqueue'[Game] = << >>
        /\ pc'[Music] = pc[Music] /\ state'[Music] = "READY"
        /\ UNCHANGED <<terminate, musicThdRef, gstate>>
    BY <1>4, GameGetScoreEffect
  <2>2. pc[Music] = "sleep" /\ musicThdRef # Music
    BY <2>1 DEF ProtocolInv
  <2>3. JustScored'
    BY <2>1, <2>2 DEF JustScored
  <2> QED BY <2>1, <2>2, <2>3 DEF ProtocolInv, InLoop
<1>5. CASE GameMusicStop
  <2>1. pc[Game] = "next" /\ pc'[Game] = "switch"
    BY <1>5, GameMusicStopEffect
  <2>2. /\ msgqueue[Game] = << >> /\ musicThdRef # Music
        /\ pc[Music] \in {"sleep", "while"}
    BY <2>1 DEF ProtocolInv, JustScored
  <2> QED BY <1>5, <2>1, <2>2, GameMusicStopEffect DEF ProtocolInv, InLoop
<1>6. CASE MusicAlone
  <2>1. /\ state'[Game] = state[Game] /\ pc'[Game] = pc[Game]
        /\ state[Music] = "READY" /\ state[Game] # "READY"
        /\ UNCHANGED <<terminate, msgqueue, musicThdRef, gstate>>
    BY <1>6, MusicAloneEffect, PriorityOfMic DEF gameVars
  <2>2. msgqueue[Game] = << >> /\ musicThdRef # Music /\ state[Music] # "WTSTART"
    BY <2>1 DEF ProtocolInv
  <2>3. CASE /\ pc[Music] = "choose" /\ pc'[Music] = "while"
             /\ state'[Music] = "PRINTING" /\ timer' = timer
    BY <2>1, <2>2, <2>3 DEF ProtocolInv, OnItsWay, JustScored, Playing, InLoop
  <2>4. CASE /\ pc[Music] = "while" /\ timer' = timer
             /\ ~terminate[Music] /\ pc'[Music] = "suspend" /\ state'[Music] = "READY"
    BY <2>1, <2>2, <2>4 DEF ProtocolInv, OnItsWay, JustScored, Playing, InLoop
  <2>5. CASE /\ pc[Music] = "while" /\ timer' = timer
             /\ terminate[Music] /\ pc'[Music] = "exited"
    BY <2>1, <2>2, <2>5 DEF ProtocolInv, InLoop
  <2>6. CASE /\ pc[Music] \in {"get_frequency", "next_note"}
             /\ pc'[Music] \in {"get_frequency", "relock"} /\ timer' = timer
    BY <2>1, <2>2, <2>6 DEF ProtocolInv, OnItsWay, JustScored, Playing, InLoop
  <2>7. CASE /\ pc[Music] = "sleep" /\ pc'[Music] = "while"
             /\ state[Music] = "READY" /\ state'[Music] = "SLEEPING"
             /\ timer'[Music] = ScoreDelay /\ timer'[Game] = timer[Game]
    <3>1. pc[Game] = "player_start" => state[Game] = "SLEEPING" /\ OnItsWay'
      BY <1>0, <2>1, <2>2, <2>7 DEF ProtocolInv, OnItsWay
    <3>2. pc[Game] = "next" => JustScored'
      BY <2>7 DEF JustScored
    <3> QED BY <2>1, <2>2, <2>7, <3>1, <3>2 DEF ProtocolInv, Playing, InLoop
  <2> QED BY <1>6, <2>3, <2>4, <2>5, <2>6, <2>7, MusicAloneWays
<1>7. ASSUME NEW from \in {"start", "relock"}, NEW to, MusicLock(from, to),
             to = IF from = "start" THEN "choose" ELSE "score"
      PROVE  ProtocolInv'
  <2>1. /\ state'[Game] = state[Game] /\ pc'[Game] = pc[Game]
        /\ pc[Music] = from /\ pc'[Music] = to
        /\ state[Music] = "READY" /\ state'[Music] = "READY"
        /\ UNCHANGED <<timer, terminate, msgqueue, musicThdRef, gstate>>
    BY <1>7, MusicLockEffect DEF gameVars, MayRun
  <2>2. msgqueue[Game] = << >> /\ musicThdRef # Music
    BY <2>1 DEF ProtocolInv
  <2>3. CASE from = "start" /\ to = "choose"
    BY <2>1, <2>2, <2>3 DEF ProtocolInv, OnItsWay, JustScored, Playing, InLoop
  <2>4. CASE from = "relock" /\ to = "score"
    <3>1. pc[Game] = "get_score"
      BY <2>1, <2>2, <2>4 DEF ProtocolInv, OnItsWay, JustScored, Playing, InLoop
    <3> QED BY <2>1, <2>2, <2>4, <3>1 DEF ProtocolInv, Playing, InLoop
  <2> QED BY <1>7, <2>3, <2>4
<1>8. CASE MusicLockStart \/ MusicRelock
  <2>1. CASE MusicLock("start", "choose")
    BY <1>7, <2>1
  <2>2. CASE MusicLock("relock", "score")
    BY <1>7, <2>2
  <2> QED BY <1>8, <2>1, <2>2 DEF MusicLockStart, MusicRelock
<1>9. CASE MusicSuspend
  <2>1. CASE Halt
    BY <2>1 DEF Halt, kernel, gameVars, ProtocolInv, OnItsWay, JustScored, Playing
  <2>2. CASE ~Halt
    <3>1. /\ state'[Game] = state[Game] /\ pc'[Game] = pc[Game]
          /\ pc[Music] = "suspend" /\ pc'[Music] = "unlock"
          /\ state[Music] = "READY" /\ state'[Music] = "SUSPENDED"
          /\ musicThdRef' = Music
          /\ UNCHANGED <<timer, terminate, msgqueue, gstate>>
      BY <1>9, <2>2, MusicSuspendEffect DEF gameVars, MayRun
    <3>2. pc[Game] = "player_start" /\ msgqueue[Game] = << >>
      BY <3>1 DEF ProtocolInv, JustScored, Playing, InLoop
    <3> QED BY <3>1, <3>2 DEF ProtocolInv, InLoop
  <2> QED BY <2>1, <2>2
<1>10. CASE MusicUnlock
  <2>1. CASE Halt
    BY <2>1 DEF Halt, kernel, gameVars, ProtocolInv, OnItsWay, JustScored, Playing
  <2>2. CASE ~Halt
    <3>1. /\ state'[Game] = state[Game] /\ pc'[Game] = pc[Game]
          /\ pc[Music] = "unlock" /\ pc'[Music] = "get_frequency"
          /\ state[Music] = "READY"
          /\ UNCHANGED <<timer, terminate, msgqueue, gstate, musicThdRef>>
      BY <1>10, <2>2, MusicUnlockEffect DEF gameVars, MayRun
    <3>2. pc[Game] = "get_score" /\ msgqueue[Game] = << >> /\ musicThdRef # Music
      BY <3>1 DEF ProtocolInv, OnItsWay, JustScored, Playing, InLoop
    <3> QED BY <3>1, <3>2 DEF ProtocolInv, Playing, InLoop
  <2> QED BY <2>1, <2>2
<1>11. CASE MusicGotFrequency
  <2>1. /\ state'[Game] = state[Game] /\ pc'[Game] = pc[Game]
        /\ pc[Music] = "get_frequency" /\ pc'[Music] = "next_note"
        /\ msgqueue'[Game] = msgqueue[Game]
        /\ UNCHANGED <<timer, terminate, gstate, musicThdRef>>
    BY <1>11, MusicGotFrequencyEffect DEF gameVars
  <2>2. pc[Game] = "get_score" /\ msgqueue[Game] = << >> /\ musicThdRef # Music
    BY <2>1 DEF ProtocolInv, OnItsWay, JustScored, Playing, InLoop
  <2> QED BY <2>1, <2>2 DEF ProtocolInv, Playing, InLoop
<1>12. CASE MusicScore
  <2>1. /\ pc'[Game] = pc[Game]
        /\ pc[Music] = "score" /\ pc'[Music] = "sleep" /\ state'[Music] = "SNDMSGQ"
        /\ msgqueue'[Game] = Append(msgqueue[Game], Music)
        /\ UNCHANGED <<timer, terminate, gstate, musicThdRef>>
    BY <1>12, MusicScoreEffect DEF gameVars
  <2>2. pc[Game] = "get_score" /\ msgqueue[Game] = << >> /\ musicThdRef # Music
    BY <2>1 DEF ProtocolInv, OnItsWay, JustScored, Playing, InLoop
  <2>3. msgqueue'[Game] = << Music >> /\ msgqueue'[Game] # << >>
    BY <2>1, <2>2
  <2> QED BY <2>1, <2>2, <2>3 DEF ProtocolInv, InLoop
<1>13. CASE MicAlone \/ MicTryLock \/ MicUnlock \/ MicHear \/ MicDma \/ LightStep
  <2>1. /\ pc'[Game] = pc[Game] /\ pc'[Music] = pc[Music]
        /\ timer'[Game] = timer[Game] /\ timer'[Music] = timer[Music]
        /\ state'[Game] = state[Game]
        /\ state'[Music] = state[Music] \/ (state[Music] = "WTMSG" /\ state'[Music] = "READY")
        /\ msgqueue'[Game] = msgqueue[Game]
        /\ UNCHANGED <<gstate, musicThdRef>> /\ terminate'[Music] = terminate[Music]
    BY <1>13, MicAloneEffect, MicTryLockEffect, MicUnlockEffect, MicHearEffect,
       MicDmaEffect, LightEffect DEF gameVars
  <2> QED BY <2>1, ProtocolFrame
<1>14. CASE Tick
  <2>1. /\ pc' = pc /\ UNCHANGED <<terminate, msgqueue, gstate, musicThdRef>>
        /\ state[Game] \notin {"READY", "PRINTING"}
        /\ state[Music] \notin {"READY", "PRINTING"}
        /\ timer'[Game] = IF timer[Game] > 0 THEN timer[Game] - 1 ELSE 0
        /\ timer'[Music] = IF timer[Music] > 0 THEN timer[Music] - 1 ELSE 0
        /\ state'[Game] = IF state[Game] = "SLEEPING" /\ timer[Game] <= 1
                          THEN "READY" ELSE state[Game]
        /\ state'[Music] = IF state[Music] = "SLEEPING" /\ timer[Music] <= 1
                           THEN "READY" ELSE state[Music]
    BY <1>14, TickEffect DEF gameVars
  <2>2. pc[Game] # "next"
    BY <2>1 DEF ProtocolInv
  <2>3. CASE pc[Game] = "player_start" /\ musicThdRef # Music
    <3>1. /\ pc[Music] = "while" /\ state[Music] = "SLEEPING" /\ state[Game] = "SLEEPING"
          /\ 0 < timer[Music] /\ timer[Music] < timer[Game]
      BY <2>1, <2>3 DEF ProtocolInv, OnItsWay
    <3>2. ~(timer[Game] <= 1) /\ timer'[Game] = timer[Game] - 1
          /\ timer'[Music] = timer[Music] - 1
          /\ (timer[Music] <= 1 <=> timer[Music] = 1)
      BY <1>0, <2>1, <3>1
    <3>3. OnItsWay' /\ state'[Game] = "SLEEPING"
      <4>1. CASE timer[Music] = 1
        BY <1>0, <2>1, <3>1, <3>2, <4>1 DEF OnItsWay
      <4>2. CASE timer[Music] # 1
        BY <1>0, <2>1, <3>1, <3>2, <4>2 DEF OnItsWay
      <4> QED BY <4>1, <4>2
    <3> QED BY <2>1, <2>3, <3>1, <3>3 DEF ProtocolInv, InLoop
  <2>4. CASE pc[Game] # "player_start" \/ musicThdRef = Music
    BY <2>1, <2>2, <2>4 DEF ProtocolInv, Playing, InLoop
  <2> QED BY <2>3, <2>4
<1>15. CASE \E t \in Thread : ConsoleRelease(t)
  <2>1. /\ pc' = pc
        /\ \A u \in {Game, Music} : \/ state'[u] = state[u]
                                    \/ state[u] = "PRINTING" /\ state'[u] = "READY"
        /\ UNCHANGED <<timer, terminate, msgqueue, gstate, musicThdRef>>
    BY <1>15, ConsoleEffect DEF gameVars
  <2> QED BY <2>1, ProtocolFrame
<1> QED BY <1>1, <1>2, <1>3, <1>4, <1>5, <1>6, <1>8, <1>9, <1>10, <1>11,
           <1>12, <1>13, <1>14, <1>15, Steps

-----------------------------------------------------------------------------
(***************************************************************************)
(* Every step keeps the scores with their players.                         *)
(***************************************************************************)

\* What ScoreInv is about.
LEMMA ScoreFrame ==
    ASSUME ScoreInv, pc'[Game] = pc[Game], msgqueue'[Game] = msgqueue[Game],
           p_msg'[Music] = p_msg[Music], UNCHANGED <<gameVars, computed>>
    PROVE  ScoreInv'
BY DEF ScoreInv, ScoresOf, WinnerIsRight, gameVars

\* The players are the first and the second.
LEMMA Players == Player = {0, 1} /\ NumPlayers = 2
BY DEF Player, NumPlayers

\* The steps of Game before and after the loop over the players.
LEMMA GameOutside ==
    ASSUME TypeOK, ProtocolInv, ScoreInv, GameAlone,
           pc[Game] \notin InLoop, pc'[Game] \notin InLoop
    PROVE  ScoreInv'
<1> USE FourThreads DEF TypeOK, ThreadType
<1>1. /\ UNCHANGED <<msgqueue, p_msg, computed>>
      /\ msgqueue[Game] = << >>
  BY GameAloneEffect DEF musicVars, ProtocolInv, InLoop
<1>2. ASSUME UNCHANGED score, pc'[Game] \notin {"wait_path", "wait_photo"},
             gstate' \in {"IDLE", "START_GAME"}
      PROVE  ScoreInv'
  BY <1>1, <1>2 DEF ScoreInv, WinnerIsRight, InLoop
<1>3. CASE GameIdle
  <2>1. UNCHANGED gameVars /\ pc'[Game] = "get_char" /\ gstate = "IDLE"
    BY <1>3 DEF GameIdle, Continue
  <2> QED BY <1>2, <2>1 DEF gameVars
<1>4. CASE GameStart
  <2>1. UNCHANGED gameVars /\ pc'[Game] = "init" /\ gstate = "START_GAME"
    BY <1>4 DEF GameStart, Say, Continue
  <2> QED BY <1>2, <2>1 DEF gameVars
<1>5. CASE GameGotoWinner
  <2>1. /\ UNCHANGED <<gstate, score>> /\ gstate = "GOTO_WINNER"
        /\ pc'[Game] = "wait_path"
        /\ target' = IF score[0] >= score[1] THEN 0 ELSE 1
    BY <1>5 DEF GameGotoWinner, Continue
  <2>2. Len(computed) = NumPlayers /\ score[0] = computed[1] /\ score[1] = computed[2]
    BY <2>1, Players DEF ScoreInv, WinnerIsRight
  <2> QED BY <1>1, <2>1, <2>2 DEF ScoreInv, WinnerIsRight, InLoop
<1>6. CASE GameSendPhoto
  <2>1. UNCHANGED gameVars /\ pc'[Game] = "wait_photo" /\ gstate = "SEND_PHOTO"
    BY <1>6 DEF GameSendPhoto, Continue
  <2> QED BY <1>1, <2>1 DEF ScoreInv, WinnerIsRight, InLoop, gameVars
<1>7. CASE GameAtWinner
  <2>1. /\ pc[Game] = "wait_path" /\ gstate' = "SEND_PHOTO" /\ pc'[Game] = "switch"
        /\ UNCHANGED <<score, target>>
    BY <1>7 DEF GameAtWinner, GameAdvance, Sleep, Continue
  <2> QED BY <1>1, <2>1 DEF ScoreInv, WinnerIsRight, InLoop
<1>8. CASE GamePhotoSent
  <2>1. /\ pc[Game] = "wait_photo" /\ gstate' = "FINISHED" /\ pc'[Game] = "switch"
        /\ UNCHANGED <<score, target>>
    BY <1>8 DEF GamePhotoSent, GameAdvance, Sleep, Continue
  <2> QED BY <1>1, <2>1 DEF ScoreInv, WinnerIsRight, InLoop
<1>9. CASE GameFinished
  <2>1. pc'[Game] = "switch" /\ gstate' = "IDLE" /\ UNCHANGED score
    BY <1>9 DEF GameFinished, GameAdvance, Sleep, Continue
  <2> QED BY <1>2, <2>1
<1>10. CASE \E w \in BOOLEAN : GameGetChar(w)
  <2>1. /\ pc'[Game] = "switch" /\ gstate' \in {"IDLE", "START_GAME"}
        /\ UNCHANGED score
    BY <1>10 DEF GameGetChar, Sleep, Continue
  <2> QED BY <1>2, <2>1
<1>11. CASE GamePlayerStart \/ GameAwaitScore \/ GameNextPlayer
  BY <1>11 DEF GamePlayerStart, GameAwaitScore, GameNextPlayer, At, InLoop
<1> QED BY <1>3, <1>4, <1>5, <1>6, <1>7, <1>8, <1>9, <1>10, <1>11 DEF GameAlone

LEMMA ScoreStep ==
    ASSUME TypeOK, SemaphoreInv, MicInv, LockInv, ProtocolInv, ScoreInv, Next
    PROVE  ScoreInv'
<1> USE FourThreads DEF Stays
<1>0. /\ player \in Player /\ score \in [Player -> Int] /\ computed \in Seq(Int)
      /\ Len(computed) \in Nat
  BY LenProperties DEF TypeOK, GameType, MusicType
<1>1. CASE GameAlone
  <2>1. UNCHANGED <<msgqueue, p_msg, computed>>
    BY <1>1, GameAloneEffect DEF musicVars
  <2>2. CASE pc[Game] \notin InLoop /\ pc'[Game] \notin InLoop
    BY <1>1, <2>2, GameOutside
  <2>3. CASE pc[Game] = "player_start" /\ pc'[Game] = "listen" /\ UNCHANGED gameVars
    BY <2>1, <2>3 DEF ScoreInv, ScoresOf, WinnerIsRight, gameVars
  <2>4. CASE pc[Game] = "get_score" /\ pc'[Game] = "get_score" /\ UNCHANGED gameVars
    BY <2>1, <2>4, ScoreFrame
  <2>5. CASE /\ pc[Game] = "next" /\ pc'[Game] = "player_start"
             /\ player' = player + 1
             /\ UNCHANGED <<gstate, score, target, games>>
    <3>1. msgqueue[Game] = << >> /\ gstate = "START_GAME"
      BY <2>5 DEF ProtocolInv, InLoop
    <3>2. ScoresOf(player + 1) /\ Len(computed) = player + 1
      BY <2>5 DEF ScoreInv
    <3>3. ScoresOf(player)'
      BY <2>1, <2>5, <3>2 DEF ScoresOf
    <3> QED BY <2>1, <2>5, <3>1, <3>2, <3>3 DEF ScoreInv, WinnerIsRight
  <2> QED BY <1>1, <2>2, <2>3, <2>4, <2>5, GameAloneWays
<1>2. CASE GameMusicInit
  <2>1. /\ pc[Game] = "init" /\ pc'[Game] = "player_start" /\ player' = 0
        /\ computed' = << >> /\ msgqueue'[Game] = msgqueue[Game]
        /\ gstate' = gstate
    BY <1>2, GameMusicInitEffect
  <2>2. msgqueue'[Game] = << >> /\ gstate = "START_GAME"
    BY <2>1 DEF ProtocolInv
  <2>3. Len(computed') = 0 /\ ScoresOf(player)'
    BY <2>1, Players DEF ScoresOf
  <2> QED BY <2>1, <2>2, <2>3 DEF ScoreInv, WinnerIsRight
<1>3. CASE GameListen
  <2>1. /\ pc[Game] = "listen" /\ pc'[Game] = "get_score"
        /\ UNCHANGED <<msgqueue, p_msg, gameVars, computed>>
    BY <1>3, GameListenEffect DEF musicVars
  <2> QED BY <2>1 DEF ScoreInv, ScoresOf, WinnerIsRight, gameVars
<1>4. CASE GameGetScore
  <2>1. /\ pc[Game] = "get_score" /\ msgqueue[Game] = << Music >>
        /\ pc'[Game] = "next" /\ msgqueue'[Game] = << >>
        /\ score' = [score EXCEPT ![player] = p_msg[Music]]
        /\ UNCHANGED <<p_msg, gstate, player, computed>>
    BY <1>4, GameGetScoreEffect DEF musicVars
  <2>2. msgqueue[Game] # << >> /\ gstate = "START_GAME"
    BY <2>1 DEF ProtocolInv, InLoop
  <2>3. /\ ScoresOf(player) /\ Len(computed) = player + 1
        /\ p_msg[Music] = computed[player + 1]
    BY <2>1, <2>2 DEF ScoreInv
  <2>4. ScoresOf(player + 1)'
    <3>1. ASSUME NEW p \in Player, p < player + 1 PROVE score'[p] = computed'[p + 1]
      BY <1>0, <2>1, <2>3, <3>1, Players DEF ScoresOf
    <3> QED BY <2>1, <2>3, <3>1 DEF ScoresOf
  <2> QED BY <2>1, <2>2, <2>3, <2>4 DEF ScoreInv, WinnerIsRight
<1>5. CASE GameMusicStop
  <2>1. /\ pc[Game] = "next" /\ pc'[Game] = "switch" /\ player + 1 = NumPlayers
        /\ gstate' = "GOTO_WINNER"
        /\ UNCHANGED <<msgqueue, score, computed>>
    BY <1>5, GameMusicStopEffect DEF musicVars
  <2>2. msgqueue[Game] = << >>
    BY <2>1 DEF ProtocolInv
  <2>3. ScoresOf(NumPlayers) /\ Len(computed) = NumPlayers
    BY <2>1 DEF ScoreInv
  <2>4. \A p \in Player : score'[p] = computed'[p + 1]
    BY <2>1, <2>3, Players DEF ScoresOf
  <2> QED BY <2>1, <2>2, <2>3, <2>4 DEF ScoreInv, WinnerIsRight
<1>6. CASE MusicAlone
  BY <1>6, MusicAloneEffect, ScoreFrame
<1>7. CASE MusicLockStart \/ MusicRelock
  BY <1>7, MusicLockEffect, ScoreFrame DEF MusicLockStart, MusicRelock, musicVars
<1>8. CASE MusicSuspend \/ MusicUnlock
  <2>1. CASE Halt
    BY <2>1, ScoreFrame DEF Halt, kernel, musicVars
  <2>2. CASE ~Halt
    BY <1>8, <2>2, MusicSuspendEffect, MusicUnlockEffect, ScoreFrame DEF musicVars
  <2> QED BY <2>1, <2>2
<1>9. CASE MusicGotFrequency
  BY <1>9, MusicGotFrequencyEffect, ScoreFrame
<1>10. CASE MusicScore
  <2>1. /\ pc[Music] = "score" /\ pc'[Game] = pc[Game]
        /\ msgqueue'[Game] = Append(msgqueue[Game], Music)
        /\ computed' = Append(computed, p_msg'[Music]) /\ p_msg'[Music] \in Int
        /\ UNCHANGED gameVars
    BY <1>10, MusicScoreEffect
  <2>2. pc[Game] = "get_score" /\ msgqueue[Game] = << >> /\ gstate = "START_GAME"
    BY <2>1 DEF ProtocolInv, OnItsWay, JustScored, Playing, InLoop
  <2>3. msgqueue'[Game] # << >>
    BY <2>1, <2>2
  <2>4. Len(computed) = player /\ ScoresOf(player)
    BY <2>2 DEF ScoreInv
  <2>5. /\ Len(computed') = player + 1 /\ computed'[player + 1] = p_msg'[Music]
        /\ \A k \in 1..player : computed'[k] = computed[k]
    BY <1>0, <2>1, <2>4
  <2>6. ScoresOf(player)'
    <3>1. ASSUME NEW p \in Player, p < player PROVE score[p] = computed'[p + 1]
      <4>1. p + 1 \in 1..player
        BY <1>0, <3>1, Players
      <4> QED BY <2>4, <2>5, <3>1, <4>1 DEF ScoresOf
    <3> QED BY <1>0, <2>1, <2>5, <3>1, Players DEF ScoresOf, gameVars
  <2> QED BY <2>1, <2>2, <2>3, <2>5, <2>6 DEF ScoreInv, WinnerIsRight, gameVars
<1>11. CASE MicAlone \/ MicTryLock \/ MicUnlock \/ MicHear \/ MicDma \/ LightStep
  <2>1. /\ pc'[Game] = pc[Game] /\ msgqueue'[Game] = msgqueue[Game]
        /\ p_msg'[Music] = p_msg[Music] /\ UNCHANGED <<gameVars, computed>>
    BY <1>11, MicAloneEffect, MicTryLockEffect, MicUnlockEffect, MicHearEffect,
       MicDmaEffect, LightEffect DEF musicVars
  <2> QED BY <2>1, ScoreFrame
<1>12. CASE Tick
  BY <1>12, TickEffect, ScoreFrame DEF musicVars
<1>13. CASE \E t \in Thread : ConsoleRelease(t)
  BY <1>13, ConsoleEffect, ScoreFrame DEF musicVars
<1> QED BY <1>1, <1>2, <1>3, <1>4, <1>5, <1>6, <1>7, <1>8, <1>9, <1>10, <1>11,
           <1>12, <1>13, Steps

-----------------------------------------------------------------------------
(***************************************************************************)
(* Every step keeps the silence between the turns, and the first game.     *)
(***************************************************************************)

LEMMA SilentStep ==
    ASSUME TypeOK, SemaphoreInv, MicInv, LockInv, ProtocolInv, SilentInv, Next
    PROVE  SilentInv'
<1> USE FourThreads DEF Stays
<1>1. CASE msgqueue'[Music] = msgqueue[Music] /\ pc'[Music] = pc[Music]
  BY <1>1 DEF SilentInv
<1>2. CASE GameAlone \/ GameListen \/ GameGetScore \/ GameMusicStop
  BY <1>1, <1>2, GameAloneEffect, GameListenEffect, GameGetScoreEffect,
     GameMusicStopEffect
<1>3. CASE GameMusicInit
  BY <1>3, GameMusicInitEffect DEF SilentInv
<1>4. CASE MusicAlone
  <2>1. msgqueue' = msgqueue
    BY <1>4, MusicAloneEffect
  <2>2. CASE MusicAwaitFrequency
    BY <2>2 DEF MusicAwaitFrequency, AwaitMessage, SilentInv
  <2>3. CASE ~MusicAwaitFrequency
    <3>1. pc[Music] # "get_frequency"
      BY <1>4, <2>3 DEF MusicAlone, MusicChoose, MusicWhile, MusicNextNote,
                        MusicSleep, At
    <3> QED BY <2>1, <3>1 DEF SilentInv
  <2> QED BY <2>2, <2>3
<1>5. ASSUME NEW from \in {"start", "relock"}, NEW to, MusicLock(from, to)
      PROVE  SilentInv'
  <2>1. pc[Music] = from /\ msgqueue' = msgqueue
    BY <1>5, MusicLockEffect
  <2> QED BY <2>1 DEF SilentInv
<1>6. CASE MusicLockStart \/ MusicRelock
  <2>1. CASE MusicLock("start", "choose")
    BY <1>5, <2>1
  <2>2. CASE MusicLock("relock", "score")
    BY <1>5, <2>2
  <2> QED BY <1>6, <2>1, <2>2 DEF MusicLockStart, MusicRelock
<1>7. CASE MusicSuspend \/ MusicUnlock
  <2>1. CASE Halt
    BY <1>1, <2>1 DEF Halt, kernel
  <2>2. CASE ~Halt
    <3>1. pc[Music] # "get_frequency" /\ msgqueue' = msgqueue
      BY <1>7, <2>2, MusicSuspendEffect, MusicUnlockEffect
    <3> QED BY <3>1 DEF SilentInv
  <2> QED BY <2>1, <2>2
<1>8. CASE MusicGotFrequency
  BY <1>8, MusicGotFrequencyEffect DEF SilentInv
<1>9. CASE MusicScore
  <2>1. pc[Music] = "score" /\ msgqueue'[Music] = msgqueue[Music]
    BY <1>9, MusicScoreEffect
  <2> QED BY <2>1 DEF SilentInv
<1>10. CASE MicAlone \/ MicTryLock \/ MicUnlock \/ MicDma \/ LightStep
  BY <1>1, <1>10, MicAloneEffect, MicTryLockEffect, MicUnlockEffect, MicDmaEffect,
     LightEffect
<1>11. CASE MicHear
  <2>1. pc[Mic] = "process" /\ MayBeFull /\ pc'[Music] = pc[Music]
    BY <1>11, MicHearEffect
  <2>2. pc[Music] \in {"start", "get_frequency", "next_note", "relock"}
    BY <2>1 DEF LockInv
  <2>3. KeepsUp => pc[Music] = "get_frequency"
    BY <2>1, <2>2 DEF MayBeFull
  <2> QED BY <2>1, <2>3 DEF SilentInv
<1>12. CASE Tick
  BY <1>1, <1>12, TickEffect
<1>13. CASE \E t \in Thread : ConsoleRelease(t)
  BY <1>1, <1>13, ConsoleEffect
<1> QED BY <1>2, <1>3, <1>4, <1>6, <1>7, <1>8, <1>9, <1>10, <1>11, <1>12, <1>13,
           Steps

LEMMA FirstStep ==
    ASSUME TypeOK, SemaphoreInv, MicInv, LockInv, ProtocolInv, FirstInv, Next,
           MaxGames <= 1
    PROVE  FirstInv'
<1> USE FourThreads DEF Stays
<1> DEFINE Before == \/ games = 0
                     \/ gstate = "START_GAME" /\ pc[Game] \in {"switch", "init"}
           First == /\ ~halted
                    /\ music_play_lock.owner = Music => mtxlist[Music]
                    /\ pc[Music] = "start" => music_play_lock.owner # Music
                    /\ games = 0 => gstate = "IDLE"
                    /\ Before => pc[Music] = "start"
<1>0. First /\ (FirstInv' <=> First')
  BY DEF FirstInv
<1>1. CASE /\ pc'[Music] = pc[Music]
           /\ UNCHANGED <<halted, music_play_lock, gstate, games>>
           /\ mtxlist'[Music] = mtxlist[Music] /\ pc'[Game] = pc[Game]
  BY <1>0, <1>1
<1>2. CASE GameAlone
  <2>1. /\ pc'[Music] = pc[Music]
        /\ UNCHANGED <<halted, music_play_lock, mtxlist>>
    BY <1>2, GameAloneEffect
  <2>2. (games' = 0 => gstate' = "IDLE") /\ (Before' => Before)
    <3>1. CASE \E w \in BOOLEAN : GameGetChar(w)
      <4>1. PICK w \in BOOLEAN : GameGetChar(w)
        BY <3>1
      <4>2. games \in 0..MaxGames /\ MaxGames \in Nat
        BY BoundAssumption DEF TypeOK, GameType
      <4>3. CASE w
        <5>1. games < MaxGames /\ games' = games + 1
          BY <4>1, <4>3 DEF GameGetChar
        <5> QED BY <4>2, <5>1
      <4>4. CASE ~w
        BY <4>1, <4>4 DEF GameGetChar
      <4> QED BY <4>3, <4>4
    <3>2. CASE GameFinished \/ GameAtWinner \/ GamePhotoSent
      BY <1>0, <3>2 DEF GameFinished, GameAtWinner, GamePhotoSent, GameAdvance
    <3>3. CASE GameIdle
      BY <1>0, <3>3 DEF GameIdle, At, Continue, gameVars
    <3>4. CASE GameStart
      BY <1>0, <3>4 DEF GameStart, At, gameVars
    <3>5. CASE GameGotoWinner \/ GameSendPhoto
      BY <1>0, <3>5 DEF GameGotoWinner, GameSendPhoto, gameVars
    <3>6. CASE GamePlayerStart \/ GameAwaitScore \/ GameNextPlayer
      <4>1. UNCHANGED <<gstate, games>>
        BY <3>6 DEF GamePlayerStart, GameAwaitScore, GameNextPlayer, gameVars
      <4>2. pc'[Game] \notin {"switch", "init"}
        BY <3>6 DEF GamePlayerStart, GameAwaitScore, GameNextPlayer, AwaitMessage,
                    Say, Sleep, Continue, TypeOK, ThreadType
      <4> QED BY <1>0, <4>1, <4>2
    <3> QED BY <1>2, <3>1, <3>2, <3>3, <3>4, <3>5, <3>6 DEF GameAlone
  <2> QED BY <1>0, <2>1, <2>2
<1>3. CASE GameMusicInit
  <2>1. pc[Game] = "init" /\ gstate = "START_GAME"
    BY <1>3, GameMusicInitEffect DEF ProtocolInv
  <2>2. pc[Music] = "start" /\ music_play_lock.owner # Music
    BY <1>0, <2>1
  <2> QED BY <1>0, <1>3, <2>1, <2>2, GameMusicInitEffect
<1>4. CASE GameListen \/ GameGetScore
  <2>1. /\ pc'[Music] = pc[Music] /\ pc'[Game] \in {"get_score", "next"}
        /\ UNCHANGED <<halted, music_play_lock, mtxlist, gstate, games>>
    BY <1>4, GameListenEffect, GameGetScoreEffect DEF gameVars
  <2> QED BY <1>0, <2>1
<1>5. CASE GameMusicStop
  <2>1. /\ pc'[Music] = pc[Music] /\ gstate' = "GOTO_WINNER"
        /\ UNCHANGED <<halted, music_play_lock, mtxlist, games>>
        /\ pc[Game] = "next"
    BY <1>5, GameMusicStopEffect
  <2>2. gstate = "START_GAME"
    BY <2>1 DEF ProtocolInv, InLoop
  <2> QED BY <1>0, <2>1, <2>2
<1>6. CASE MusicAlone
  <2>1. /\ pc'[Game] = pc[Game] /\ pc[Music] # "start" /\ pc'[Music] # "start"
        /\ UNCHANGED <<halted, music_play_lock, mtxlist, gstate, games>>
    BY <1>6, MusicAloneEffect, MusicAlonePlaces DEF gameVars
  <2> QED BY <1>0, <2>1
<1>7. ASSUME NEW from, NEW to, MusicLock(from, to), to # "start" PROVE First'
  <2>1. /\ pc'[Music] = to /\ pc'[Game] = pc[Game] /\ pc[Music] = from
        /\ state[Music] = "READY"
        /\ music_play_lock.owner \in {NoThread, Music}
        /\ mtxlist'[Music] = (mtxlist[Music] \/ music_play_lock.owner = NoThread)
        /\ UNCHANGED <<halted, gstate, games>>
    BY <1>7, MusicLockEffect DEF gameVars, MayRun
  <2>2. mtxlist'[Music]
    BY <1>0, <2>1
  <2>3. ~Before
    <3>1. ASSUME Before PROVE FALSE
      <4>1. pc[Music] = "start" /\ pc[Game] \notin InLoop
        BY <1>0, <3>1 DEF ProtocolInv, InLoop
      <4> QED BY <2>1, <4>1 DEF ProtocolInv
    <3> QED BY <3>1
  <2> QED BY <1>0, <1>7, <2>1, <2>2, <2>3
<1>8. CASE MusicLockStart \/ MusicRelock
  <2>1. CASE MusicLock("start", "choose")
    BY <1>0, <1>7, <2>1
  <2>2. CASE MusicLock("relock", "score")
    BY <1>0, <1>7, <2>2
  <2> QED BY <1>8, <2>1, <2>2 DEF MusicLockStart, MusicRelock
<1>9. CASE MusicSuspend
  <2>1. pc[Music] = "suspend"
    BY <1>9, MusicSuspendEffect
  <2>2. musicThdRef = NoThread
    BY <2>1 DEF ProtocolInv, TypeOK, KernelType
  <2>3. /\ pc'[Music] = "unlock" /\ pc'[Game] = pc[Game]
        /\ UNCHANGED <<halted, music_play_lock, mtxlist, gstate, games>>
    BY <1>9, <2>2, MusicSuspendEffect DEF gameVars
  <2> QED BY <1>0, <2>1, <2>3
<1>10. CASE MusicUnlock
  <2>1. pc[Music] = "unlock"
    BY <1>10, MusicUnlockEffect
  <2>2. music_play_lock.owner = Music /\ mtxlist[Music] /\ music_play_lock.cnt = 1
    BY <1>0, <2>1 DEF LockInv
  <2>3. MayUnlock(Music)
    BY <2>2 DEF MayUnlock, MtxMayUnlock
  <2>4. /\ pc'[Music] = "get_frequency" /\ pc'[Game] = pc[Game]
        /\ music_play_lock' = FreeMutex
        /\ UNCHANGED <<halted, gstate, games>>
    BY <1>10, <2>3, MusicUnlockEffect DEF gameVars
  <2> QED BY <1>0, <2>1, <2>4 DEF FreeMutex
<1>11. CASE MusicGotFrequency \/ MusicScore
  <2>1. /\ pc[Music] # "start" /\ pc'[Music] # "start" /\ pc'[Game] = pc[Game]
        /\ UNCHANGED <<halted, music_play_lock, mtxlist, gstate, games>>
    BY <1>11, MusicGotFrequencyEffect, MusicScoreEffect DEF gameVars
  <2> QED BY <1>0, <2>1
<1>12. CASE MicAlone \/ MicHear \/ MicDma \/ LightStep
  BY <1>1, <1>12, MicAloneEffect, MicHearEffect, MicDmaEffect, LightEffect DEF gameVars
<1>13. CASE MicTryLock
  <2>1. /\ pc'[Music] = pc[Music] /\ pc'[Game] = pc[Game]
        /\ UNCHANGED <<halted, gstate, games>> /\ mtxlist'[Music] = mtxlist[Music]
        /\ music_play_lock' = music_play_lock \/ music_play_lock'.owner = Mic
    BY <1>13, MicTryLockEffect DEF gameVars
  <2> QED BY <1>0, <2>1
<1>14. CASE MicUnlock
  <2>1. /\ pc'[Music] = pc[Music] /\ pc'[Game] = pc[Game]
        /\ UNCHANGED <<halted, gstate, games>> /\ music_play_lock' = FreeMutex
    BY <1>14, MicUnlockEffect DEF gameVars
  <2> QED BY <1>0, <2>1 DEF FreeMutex
<1>15. CASE Tick
  BY <1>1, <1>15, TickEffect DEF gameVars
<1>16. CASE \E t \in Thread : ConsoleRelease(t)
  BY <1>1, <1>16, ConsoleEffect DEF gameVars
<1> HIDE DEF First
<1> QED BY <1>0, <1>2, <1>3, <1>4, <1>5, <1>6, <1>8, <1>9, <1>10, <1>11, <1>12,
           <1>13, <1>14, <1>15, <1>16, Steps

-----------------------------------------------------------------------------
(***************************************************************************)
(* The invariant, and what follows from it.                                *)
(***************************************************************************)

LEMMA InitIInv == Init => IInv
<1> SUFFICES ASSUME Init PROVE IInv
  OBVIOUS
<1> USE FourThreads DEF Init
<1>1. SemaphoreInv
  BY DEF SemaphoreInv, Counted, SemInit
<1>2. MicInv
  BY DEF MicInv
<1>3. LockInv
  BY DEF LockInv, FreeMutex
<1>4. ProtocolInv
  BY DEF ProtocolInv, InLoop
<1>5. ScoreInv
  BY DEF ScoreInv, WinnerIsRight
<1>6. SilentInv /\ FirstInv
  BY DEF SilentInv, FirstInv, FreeMutex
<1> QED BY <1>1, <1>2, <1>3, <1>4, <1>5, <1>6 DEF IInv

LEMMA StutterIInv == IInv /\ UNCHANGED vars => IInv'
<1> SUFFICES ASSUME IInv, UNCHANGED vars PROVE IInv'
  OBVIOUS
<1> USE DEF IInv, vars, kernel, gameVars, musicVars, micVars
<1>1. SemaphoreInv' /\ MicInv'
  BY DEF SemaphoreInv, MicInv
<1>2. LockInv'
  BY DEF LockInv
<1>3. ProtocolInv'
  BY DEF ProtocolInv, OnItsWay, JustScored, Playing
<1>4. ScoreInv'
  BY ScoreFrame
<1>5. SilentInv' /\ FirstInv'
  BY DEF SilentInv, FirstInv
<1> QED BY <1>1, <1>2, <1>3, <1>4, <1>5

LEMMA NextIInv == TypeOK /\ IInv /\ [Next]_vars => IInv'
<1>1. CASE Next
  <2>1. ASSUME TypeOK, IInv, Next, ~(MaxGames <= 1) PROVE FirstInv'
    BY <2>1 DEF FirstInv
  <2> QED BY <1>1, <2>1, SemaphoresStep, MicStepKept, LockStep, ProtocolStep,
             ScoreStep, SilentStep, FirstStep DEF IInv
<1>2. CASE UNCHANGED vars
  BY <1>2, StutterIInv
<1> QED BY <1>1, <1>2

\* The inductive invariant: how the threads and the kernel objects they share
\* hang together in every state of any number of games (music.c:256-352,
\* game.c:40-168, audio_processing.c:100-183, mp45dt02_processing.c:60-110).
THEOREM ThreadsKeepTogether == Spec => []IInv
<1> QED BY InitIInv, NextIInv, TypeCorrect, PTL DEF Spec

\* The kernel's assertions about the play lock and the semaphores hold of
\* their values in every interleaving, over the restarts of the threads in
\* later games too (chmtx.c:218-221, chsem.c:201-203, chbsem.h:270).
THEOREM KernelIsConsistent == Spec => []KernelConsistent
<1>1. ASSUME TypeOK, IInv PROVE KernelConsistent
  <2> USE FourThreads, <1>1 DEF IInv
  <2>1. LockDiscipline
    BY DEF LockInv, MicInv, LockDiscipline
  <2>2. SemConsistent(sem_new_note)
    BY CountedIsConsistent DEF SemaphoreInv, TypeOK, KernelType
  <2>3. SemConsistent(DataProcessingSem)
    <3>1. DataProcessingSem.cnt \in Int /\ << Mic >> # << >>
      BY DEF TypeOK, KernelType, Semaphore
    <3> QED BY <3>1 DEF SemaphoreInv, SemConsistent
  <2> QED BY <2>1, <2>2, <2>3
          DEF KernelConsistent, SemaphoresConsistent, SemaphoreInv
<1> QED BY <1>1, TypeCorrect, ThreadsKeepTogether, PTL

\* As long as Music is done with a note before the next window is full, no
\* frequency is on its way to it while it holds the play lock: a turn starts
\* with an empty queue (music.c:285, 301; audio_processing.c:126, 177).
THEOREM TurnsStartSilent == KeepsUp => (Spec => []SilentBetweenTurns)
<1> SUFFICES ASSUME KeepsUp PROVE Spec => []SilentBetweenTurns
  OBVIOUS
<1>1. ASSUME IInv PROVE SilentBetweenTurns
  <2> SUFFICES ASSUME music_play_lock.owner = Music, msgqueue[Music] # << >>
               PROVE  FALSE
    BY DEF SilentBetweenTurns
  <2>1. pc[Music] = "get_frequency"
    BY <1>1 DEF IInv, SilentInv
  <2> QED BY <1>1, <2>1 DEF IInv, LockInv
<1> QED BY <1>1, ThreadsKeepTogether, PTL

\* music_listen never comes before musicThd is suspended, whatever the delays
\* are as long as a score's is shorter than a player's (music.c:278, 343;
\* game.c:61).
THEOREM ResumeIsNotLost == Spec => ResumeNotLost
<1>1. ASSUME IInv, GameListen PROVE musicThdRef = Music
  BY <1>1 DEF IInv, ProtocolInv, GameListen, At
<1>2. IInv => [GameListen => musicThdRef = Music]_vars
  BY <1>1
<1> QED BY <1>2, ThreadsKeepTogether, PTL DEF ResumeNotLost

\* When the game goes to the winner each player has the score of that
\* player's turn, and the robot goes to the player with the better one
\* (game.c:68-78, 87), in every game.
THEOREM WinnerIsAlwaysRight == Spec => []WinnerIsRight
<1>1. IInv => WinnerIsRight
  BY DEF IInv, ScoreInv
<1> QED BY <1>1, ThreadsKeepTogether, PTL

\* A user who starts one game never sees a kernel assertion fail; the second
\* game does halt the robot (chmtx.c:331, chthreads.c:514).
THEOREM FirstGameNeverHalts == MaxGames <= 1 => (Spec => []NeverHalts)
<1> SUFFICES ASSUME MaxGames <= 1 PROVE Spec => []NeverHalts
  OBVIOUS
<1>1. IInv => NeverHalts
  BY DEF IInv, FirstInv, NeverHalts
<1> QED BY <1>1, ThreadsKeepTogether, PTL

-----------------------------------------------------------------------------
(***************************************************************************)
(* While the game waits for a score, the turn goes on.                     *)
(***************************************************************************)

\* What Game waits for when it waits for a message, and where it is while
\* the microphone must be on.
GameRests ==
    /\ state[Game] = "WTMSG" => pc[Game] = "get_score" /\ msgqueue[Game] = << >>
    /\ pc[Game] \in InLoop => micOn

\* What Music waits for, whenever it waits.
MusicRests ==
    \/ state[Music] \in {"READY", "PRINTING"}
    \/ state[Music] = "WTMSG" /\ pc[Music] = "get_frequency" /\ msgqueue[Music] = << >>
    \/ state[Music] = "WTSTART" /\ pc[Music] = "start"
    \/ state[Music] = "SUSPENDED" /\ musicThdRef = Music
    \/ state[Music] = "SNDMSGQ" /\ pc[Music] = "sleep"
    \/ state[Music] = "SLEEPING" /\ pc[Music] = "while"
    \/ state[Music] = "FINAL" /\ pc[Music] = "exited"

\* What Mic waits for, whenever it waits, and that the microphone is on only
\* with its thread alive.
MicRests ==
    /\ micOn => /\ ~terminate[Mic] /\ pc[Mic] # "exited"
                /\ state[Mic] \in {"READY", "SNDMSGQ", "WTSEM"}
    /\ state[Mic] = "SNDMSGQ" => msgqueue[Music] = << Mic >>
    /\ state[Mic] = "WTSEM" => DataProcessingSem.cnt = -1

RestInv == GameRests /\ MusicRests /\ MicRests

\* Game waits for a message only to get a score.
LEMMA GameAloneRests ==
    ASSUME TypeOK, GameAlone
    PROVE  state'[Game] = "WTMSG" =>
              /\ pc[Game] = "get_score" /\ pc'[Game] = "get_score"
              /\ msgqueue[Game] = << >>
<1> USE FourThreads DEF TypeOK, ThreadType
<1>1. CASE GameIdle \/ GameStart \/ GamePlayerStart \/ GameGotoWinner \/ GameSendPhoto
  <2>1. state'[Game] \in {"QUEUED", "PRINTING", "WTSEM"}
    BY <1>1 DEF GameIdle, GameStart, GamePlayerStart, GameGotoWinner, GameSendPhoto,
                Say, Continue, Ready
  <2> QED BY <2>1
<1>2. CASE GameAwaitScore
  BY <1>2 DEF GameAwaitScore, AwaitMessage, At, Continue
<1>3. CASE GameNextPlayer \/ GameFinished \/ GameAtWinner \/ GamePhotoSent
           \/ \E w \in BOOLEAN : GameGetChar(w)
  <2>1. state'[Game] \in {"READY", "SLEEPING"}
    BY <1>3 DEF GameNextPlayer, GameFinished, GameAtWinner, GamePhotoSent,
                GameAdvance, GameGetChar, Sleep, Continue, Ready
  <2> QED BY <2>1
<1> QED BY <1>1, <1>2, <1>3 DEF GameAlone

\* Where Music rests on its own.
LEMMA MusicAloneRests ==
    ASSUME TypeOK, MusicAlone
    PROVE  \/ state'[Music] \in {"READY", "PRINTING"}
           \/ /\ state'[Music] = "WTMSG" /\ pc'[Music] = "get_frequency"
              /\ msgqueue[Music] = << >>
           \/ state'[Music] = "SLEEPING" /\ pc'[Music] = "while"
           \/ state'[Music] = "FINAL" /\ pc'[Music] = "exited"
<1> USE FourThreads DEF TypeOK, ThreadType
<1>1. CASE MusicChoose \/ MusicNextNote
  BY <1>1 DEF MusicChoose, MusicNextNote, Say, Goto, Continue, Ready
<1>2. CASE MusicWhile
  <2>1. Continue(Music, "FINAL", "exited", {}) \/ Goto(Music, "suspend")
    BY <1>2, Zenon DEF MusicWhile
  <2> QED BY <2>1 DEF Goto, Continue, Ready
<1>3. CASE MusicAwaitFrequency
  <2>1. /\ state'[Music] = "WTMSG" /\ pc'[Music] = "get_frequency"
        /\ msgqueue[Music] = << >>
    BY <1>3 DEF MusicAwaitFrequency, AwaitMessage, Continue, Ready
  <2> QED BY <2>1
<1>4. CASE MusicSleep
  BY <1>4 DEF MusicSleep, Sleep, Continue, Ready
<1> QED BY <1>1, <1>2, <1>3, <1>4 DEF MusicAlone

\* Mic waits for buffers only, and ends only when it is told to.
LEMMA MicAloneRests ==
    ASSUME TypeOK, SemaphoreInv, MicAlone
    PROVE  /\ state'[Mic] = "WTSEM" => DataProcessingSem'.cnt = -1
           /\ ~terminate[Mic] => pc'[Mic] # "exited" /\ state'[Mic] # "FINAL"
<1> USE FourThreads DEF TypeOK, ThreadType
<1>1. state[Mic] = "READY"
  BY MicAloneEffect
<1>2. DataProcessingSem.cnt >= 0 /\ DataProcessingSem.cnt \in Int
  BY <1>1 DEF SemaphoreInv, KernelType, Semaphore
<1>3. ASSUME NEW l \in {"wait2", "test"}, MicWaitBuffer(l)
      PROVE  /\ state'[Mic] = "WTSEM" => DataProcessingSem'.cnt = -1
             /\ pc'[Mic] = l /\ state'[Mic] \in {"READY", "WTSEM"}
  <2>1. /\ DataProcessingSem'.cnt = DataProcessingSem.cnt - 1
        /\ state'[Mic] = IF SemBlocks(DataProcessingSem) THEN "WTSEM" ELSE "READY"
        /\ pc'[Mic] = l
    BY <1>3 DEF MicWaitBuffer, SemWait, Continue, Ready
  <2> QED BY <1>2, <2>1 DEF SemBlocks
<1>4. CASE MicWhile
  <2>1. \/ terminate[Mic] /\ Continue(Mic, "FINAL", "exited", {})
        \/ MicWaitBuffer("wait2")
    BY <1>4, Zenon DEF MicWhile
  <2>2. CASE terminate[Mic] /\ Continue(Mic, "FINAL", "exited", {})
    BY <2>2 DEF Continue, Ready
  <2> QED BY <1>3, <2>1, <2>2
<1>5. CASE MicWait2
  <2>1. MicWaitBuffer("test")
    BY <1>5 DEF MicWait2
  <2> QED BY <1>3, <2>1
<1>6. CASE MicTest
  <2>1. \/ terminate[Mic] /\ Continue(Mic, "FINAL", "exited", {})
        \/ \E l \in {"while", "try"} : Goto(Mic, l)
    BY <1>6, Zenon DEF MicTest
  <2>2. CASE terminate[Mic] /\ Continue(Mic, "FINAL", "exited", {})
    BY <2>2 DEF Continue, Ready
  <2>3. CASE \E l \in {"while", "try"} : Goto(Mic, l)
    BY <2>3 DEF Goto, Continue, Ready
  <2> QED BY <2>1, <2>2, <2>3
<1>7. CASE MicSent \/ \E edge \in BOOLEAN : MicIgnore(edge)
  <2>1. pc'[Mic] = "while" /\ state'[Mic] = "READY"
    BY <1>7 DEF MicSent, MicIgnore, Goto, Continue, Ready
  <2> QED BY <2>1
<1> QED BY <1>4, <1>5, <1>6, <1>7 DEF MicAlone

\* music_stop wakes a Mic that waits for buffers.
LEMMA StopWakesMic ==
    ASSUME TypeOK, SemaphoreInv, GameMusicStop, DataProcessingSem.cnt = -1
    PROVE  state'[Mic] # "WTSEM"
<1> USE FourThreads DEF TypeOK, ThreadType
<1>1. DataProcessingSem.queue = << Mic >>
  BY DEF SemaphoreInv
<1>2. Mic \in SemResetWoken(DataProcessingSem)
  BY <1>1 DEF SemResetWoken
<1> QED BY <1>2 DEF GameMusicStop, Continue, Ready

LEMMA GameRestsStep ==
    ASSUME TypeOK, SemaphoreInv, MicInv, LockInv, ProtocolInv, GameRests, Next
    PROVE  GameRests'
<1> USE FourThreads DEF Stays, micVars
<1>0. ASSUME pc'[Game] = pc[Game], micOn' = micOn,
             state'[Game] \in {state[Game], "READY"},
             msgqueue'[Game] = msgqueue[Game]
      PROVE  GameRests'
  BY <1>0 DEF GameRests
<1>1. CASE GameAlone
  <2>1. msgqueue' = msgqueue /\ micOn' = micOn
    BY <1>1, GameAloneEffect
  <2> QED BY <1>1, <2>1, GameAloneRests, GameAlonePlaces DEF GameRests
<1>2. CASE GameMusicInit
  BY <1>2, GameMusicInitEffect DEF GameRests
<1>3. CASE GameListen
  BY <1>3, GameListenEffect DEF GameRests, InLoop
<1>4. CASE GameGetScore
  BY <1>4, GameGetScoreEffect DEF GameRests, InLoop
<1>5. CASE GameMusicStop
  BY <1>5, GameMusicStopEffect DEF GameRests, InLoop
<1>6. CASE MusicAlone
  BY <1>0, <1>6, MusicAloneEffect
<1>7. CASE MusicLockStart \/ MusicRelock
  BY <1>0, <1>7, MusicLockEffect DEF MusicLockStart, MusicRelock
<1>8. CASE MusicSuspend \/ MusicUnlock
  <2>1. CASE Halt
    BY <1>0, <2>1 DEF Halt, kernel
  <2>2. CASE ~Halt
    BY <1>0, <1>8, <2>2, MusicSuspendEffect, MusicUnlockEffect
  <2> QED BY <2>1, <2>2
<1>9. CASE MusicGotFrequency
  BY <1>0, <1>9, MusicGotFrequencyEffect
<1>10. CASE MusicScore
  <2>1. pc'[Game] = pc[Game] /\ micOn' = micOn /\ state'[Game] # "WTMSG"
    BY <1>10, MusicScoreEffect
  <2> QED BY <2>1 DEF GameRests
<1>11. CASE MicAlone
  BY <1>0, <1>11, MicAloneEffect
<1>12. CASE MicTryLock \/ MicUnlock
  BY <1>0, <1>12, MicTryLockEffect, MicUnlockEffect
<1>13. CASE MicHear
  BY <1>0, <1>13, MicHearEffect
<1>14. CASE LightStep
  BY <1>0, <1>14, LightEffect
<1>15. CASE MicDma
  BY <1>0, <1>15, MicDmaEffect
<1>16. CASE Tick
  BY <1>0, <1>16, TickEffect
<1>17. CASE \E t \in Thread : ConsoleRelease(t)
  BY <1>0, <1>17, ConsoleEffect
<1> QED BY <1>1, <1>2, <1>3, <1>4, <1>5, <1>6, <1>7, <1>8, <1>9, <1>10, <1>11,
           <1>12, <1>13, <1>14, <1>15, <1>16, <1>17, Steps

LEMMA MusicRestsStep ==
    ASSUME TypeOK, SemaphoreInv, MicInv, LockInv, ProtocolInv, MusicRests, Next
    PROVE  MusicRests'
<1> USE FourThreads DEF Stays
<1>0. ASSUME pc'[Music] = pc[Music], musicThdRef' = musicThdRef,
             state'[Music] \in {state[Music], "READY"},
             msgqueue'[Music] = msgqueue[Music]
      PROVE  MusicRests'
  BY <1>0 DEF MusicRests
<1>1. CASE GameAlone
  BY <1>0, <1>1, GameAloneEffect
<1>2. CASE GameMusicInit
  BY <1>2, GameMusicInitEffect DEF MusicRests
<1>3. CASE GameListen
  <2>1. musicThdRef = Music
    BY <1>3, GameListenEffect DEF ProtocolInv
  <2> QED BY <1>3, <2>1, GameListenEffect DEF MusicRests
<1>4. CASE GameGetScore
  BY <1>4, GameGetScoreEffect DEF MusicRests
<1>5. CASE GameMusicStop
  BY <1>0, <1>5, GameMusicStopEffect
<1>6. CASE MusicAlone
  <2>1. msgqueue' = msgqueue
    BY <1>6, MusicAloneEffect
  <2> QED BY <1>6, <2>1, MusicAloneRests DEF MusicRests
<1>7. CASE MusicLockStart \/ MusicRelock
  <2>1. state'[Music] = "READY"
    BY <1>7, MusicLockEffect DEF MusicLockStart, MusicRelock
  <2> QED BY <2>1 DEF MusicRests
<1>8. CASE MusicSuspend \/ MusicUnlock
  <2>1. CASE Halt
    BY <1>0, <2>1 DEF Halt, kernel
  <2>2. CASE ~Halt
    <3>1. \/ state'[Music] = "SUSPENDED" /\ musicThdRef' = Music
          \/ state'[Music] = "READY"
      BY <1>8, <2>2, MusicSuspendEffect, MusicUnlockEffect
    <3> QED BY <3>1 DEF MusicRests
  <2> QED BY <2>1, <2>2
<1>9. CASE MusicGotFrequency
  BY <1>9, MusicGotFrequencyEffect DEF MusicRests
<1>10. CASE MusicScore
  BY <1>10, MusicScoreEffect DEF MusicRests
<1>11. CASE MicAlone
  BY <1>0, <1>11, MicAloneEffect
<1>12. CASE MicTryLock \/ MicUnlock
  BY <1>0, <1>12, MicTryLockEffect, MicUnlockEffect
<1>13. CASE MicHear
  <2>1. pc'[Music] = pc[Music] /\ musicThdRef' = musicThdRef
        /\ state'[Music] = IF state[Music] = "WTMSG" THEN "READY" ELSE state[Music]
    BY <1>13, MicHearEffect
  <2> QED BY <2>1 DEF MusicRests
<1>14. CASE LightStep
  BY <1>0, <1>14, LightEffect
<1>15. CASE MicDma
  BY <1>0, <1>15, MicDmaEffect
<1>16. CASE Tick
  BY <1>0, <1>16, TickEffect
<1>17. CASE \E t \in Thread : ConsoleRelease(t)
  BY <1>0, <1>17, ConsoleEffect
<1> QED BY <1>1, <1>2, <1>3, <1>4, <1>5, <1>6, <1>7, <1>8, <1>9, <1>10, <1>11,
           <1>12, <1>13, <1>14, <1>15, <1>16, <1>17, Steps

LEMMA MicRestsStep ==
    ASSUME TypeOK, SemaphoreInv, MicInv, LockInv, ProtocolInv, MicRests, Next
    PROVE  MicRests'
<1> USE FourThreads DEF Stays, micVars
<1>0. ASSUME pc'[Mic] = pc[Mic], terminate'[Mic] = terminate[Mic], micOn' = micOn,
             state'[Mic] \in {state[Mic], "READY"},
             msgqueue'[Music] = msgqueue[Music],
             DataProcessingSem' = DataProcessingSem
      PROVE  MicRests'
  BY <1>0 DEF MicRests
<1>1. CASE GameAlone
  BY <1>0, <1>1, GameAloneEffect
<1>2. CASE GameMusicInit
  BY <1>2, GameMusicInitEffect DEF MicRests
<1>3. CASE GameListen
  BY <1>0, <1>3, GameListenEffect
<1>4. CASE GameGetScore
  BY <1>0, <1>4, GameGetScoreEffect
<1>5. CASE GameMusicStop
  <2>1. state'[Mic] # "WTSEM"
    BY <1>5, StopWakesMic, GameMusicStopEffect DEF MicRests
  <2> QED BY <1>5, <2>1, GameMusicStopEffect DEF MicRests
<1>6. CASE MusicAlone
  BY <1>0, <1>6, MusicAloneEffect
<1>7. CASE MusicLockStart \/ MusicRelock
  BY <1>0, <1>7, MusicLockEffect DEF MusicLockStart, MusicRelock
<1>8. CASE MusicSuspend \/ MusicUnlock
  <2>1. CASE Halt
    BY <1>0, <2>1 DEF Halt, kernel
  <2>2. CASE ~Halt
    BY <1>0, <1>8, <2>2, MusicSuspendEffect, MusicUnlockEffect
  <2> QED BY <2>1, <2>2
<1>9. CASE MusicGotFrequency
  BY <1>9, MusicGotFrequencyEffect DEF MicRests
<1>10. CASE MusicScore
  BY <1>0, <1>10, MusicScoreEffect
<1>11. CASE MicAlone
  <2>1. /\ terminate' = terminate /\ micOn' = micOn
        /\ state'[Mic] \in {"READY", "WTSEM", "FINAL"}
    BY <1>11, MicAloneEffect, MicWaits
  <2> QED BY <1>11, <2>1, MicAloneRests DEF MicRests
<1>12. CASE MicTryLock \/ MicUnlock
  <2>1. /\ terminate' = terminate /\ micOn' = micOn
        /\ state'[Mic] = "READY" /\ pc'[Mic] # "exited"
    BY <1>12, MicTryLockEffect, MicUnlockEffect
  <2> QED BY <2>1 DEF MicRests
<1>13. CASE MicHear
  BY <1>13, MicHearEffect DEF MicRests
<1>14. CASE LightStep
  BY <1>0, <1>14, LightEffect
<1>15. CASE MicDma
  <2>1. /\ terminate' = terminate /\ micOn' = micOn /\ pc' = pc
        /\ msgqueue' = msgqueue
        /\ state'[Mic] = IF DataProcessingSem.cnt < 0 THEN "READY" ELSE state[Mic]
    BY <1>15, MicDmaEffect
  <2> QED BY <2>1 DEF MicRests
<1>16. CASE Tick
  BY <1>0, <1>16, TickEffect
<1>17. CASE \E t \in Thread : ConsoleRelease(t)
  BY <1>0, <1>17, ConsoleEffect
<1> QED BY <1>1, <1>2, <1>3, <1>4, <1>5, <1>6, <1>7, <1>8, <1>9, <1>10, <1>11,
           <1>12, <1>13, <1>14, <1>15, <1>16, <1>17, Steps

\* Where each of the three threads may rest, and what it waits for there, in
\* every state of any number of games (music.c:278-307; game.c:61;
\* mp45dt02_processing.c:60-110).
THEOREM WhatThreadsWaitFor == Spec => []RestInv
<1>1. Init => RestInv
  BY FourThreads DEF Init, RestInv, GameRests, MusicRests, MicRests, InLoop
<1>2. TypeOK /\ IInv /\ RestInv /\ [Next]_vars => RestInv'
  <2>1. CASE Next
    BY <2>1, GameRestsStep, MusicRestsStep, MicRestsStep DEF IInv, RestInv
  <2>2. CASE UNCHANGED vars
    BY <2>2 DEF RestInv, GameRests, MusicRests, MicRests, vars, kernel, micVars
  <2> QED BY <2>1, <2>2
<1> QED BY <1>1, <1>2, TypeCorrect, ThreadsKeepTogether, PTL DEF Spec

\* Only a player who does not play keeps gameThd waiting for a score: while
\* it waits in get_score, musicThd is in the turn, not told to end, and has
\* something to do (in a later game, perhaps to fail the assertion of
\* chMtxUnlock) or waits for a frequency; then the microphone is on, its
\* thread is not told to end, the play lock does not keep the sound from it,
\* and it works or waits for the next buffer.  No message and no resume
\* between the threads is ever lost with gameThd waiting for it, in any game
\* (game.c:61-67; music.c:285-307; audio_processing.c:104-126;
\* mp45dt02_processing.c:60-110).
TurnGoesOn ==
    state[Game] = "WTMSG" =>
        /\ Playing /\ ~terminate[Music]
        /\ \/ state[Music] \in {"READY", "PRINTING"}
           \/ /\ state[Music] = "WTMSG"
              /\ micOn /\ ~terminate[Mic] /\ music_play_lock.owner # Music
              /\ \/ state[Mic] = "READY"
                 \/ state[Mic] = "WTSEM" /\ DataProcessingSem.cnt = -1

THEOREM GameWaitsForATurn == Spec => []TurnGoesOn
<1>1. ASSUME TypeOK, IInv, RestInv PROVE TurnGoesOn
  <2> SUFFICES ASSUME state[Game] = "WTMSG" PROVE TurnGoesOn
    BY DEF TurnGoesOn
  <2>1. /\ pc[Game] = "get_score" /\ msgqueue[Game] = << >> /\ micOn
    BY <1>1 DEF RestInv, GameRests, InLoop
  <2>2. Playing /\ ~terminate[Music] /\ musicThdRef # Music
    BY <1>1, <2>1 DEF IInv, ProtocolInv, InLoop
  <2>3. \/ state[Music] \in {"READY", "PRINTING"}
        \/ /\ state[Music] = "WTMSG" /\ pc[Music] = "get_frequency"
           /\ msgqueue[Music] = << >>
    BY <1>1, <2>2 DEF RestInv, MusicRests, Playing
  <2>4. /\ ~terminate[Mic] /\ state[Mic] \in {"READY", "SNDMSGQ", "WTSEM"}
        /\ state[Mic] = "WTSEM" => DataProcessingSem.cnt = -1
        /\ msgqueue[Music] = << >> => state[Mic] # "SNDMSGQ"
    BY <1>1, <2>1 DEF RestInv, MicRests
  <2>5. pc[Music] = "get_frequency" => music_play_lock.owner # Music
    BY <1>1 DEF IInv, LockInv
  <2> QED BY <2>1, <2>2, <2>3, <2>4, <2>5 DEF TurnGoesOn
<1> QED BY <1>1, TypeCorrect, ThreadsKeepTogether, WhatThreadsWaitFor, PTL

-----------------------------------------------------------------------------
(***************************************************************************)
(* The robot plays one game.                                               *)
(***************************************************************************)

\* The first game leaves Music with the lock.  In the second Music has the
\* lock without listing it, and does not get beyond the assertion.
OneGameInv ==
    /\ games <= 2
    /\ pc[Game] = "get_char" => gstate = "IDLE"
    /\ games = 0 => gstate = "IDLE"
    /\ games = 1 /\ gstate # "START_GAME" => pc[Music] # "start"
    /\ games = 2 =>
          /\ gstate = "START_GAME"
          /\ pc[Game] \in {"switch", "init", "player_start", "listen", "get_score"}
          /\ pc[Game] \in {"switch", "init"} => pc[Music] # "start"
          /\ pc[Game] \notin {"switch", "init"} =>
                /\ music_play_lock.owner = Music /\ ~mtxlist[Music]
                /\ computed = << >>
                /\ pc[Music] \in {"start", "choose", "while", "suspend", "unlock"}

\* What Game's own steps do to the number of games and the state of the FSM.
LEMMA GameAloneGames ==
    ASSUME TypeOK, GameAlone
    PROVE  \/ /\ pc[Game] = "switch" /\ pc'[Game] = "get_char" /\ gstate = "IDLE"
              /\ UNCHANGED <<gstate, games>>
           \/ /\ pc[Game] = "get_char" /\ pc'[Game] = "switch"
              /\ \/ gstate' = "START_GAME" /\ games' = games + 1
                 \/ gstate' = "IDLE" /\ games' = games
           \/ /\ pc[Game] = "switch" /\ pc'[Game] = "init" /\ gstate = "START_GAME"
              /\ UNCHANGED <<gstate, games>>
           \/ /\ pc[Game] = "player_start" /\ pc'[Game] = "listen"
              /\ UNCHANGED <<gstate, games>>
           \/ /\ pc[Game] = "get_score" /\ pc'[Game] = "get_score"
              /\ UNCHANGED <<gstate, games>>
           \/ /\ pc[Game] = "next" /\ pc'[Game] = "player_start"
              /\ UNCHANGED <<gstate, games>>
           \/ /\ gstate \notin {"IDLE", "START_GAME"} /\ gstate' # "START_GAME"
              /\ pc'[Game] \in {"switch", "wait_path", "wait_photo"}
              /\ games' = games
<1> USE FourThreads DEF TypeOK, ThreadType, At, gameVars
<1>1. CASE GameIdle
  BY <1>1 DEF GameIdle, Continue
<1>2. CASE GameStart
  BY <1>2 DEF GameStart, Say, Continue
<1>3. CASE GamePlayerStart
  BY <1>3 DEF GamePlayerStart, Say, Continue
<1>4. CASE GameAwaitScore
  BY <1>4 DEF GameAwaitScore, AwaitMessage, Continue
<1>5. CASE GameNextPlayer
  BY <1>5 DEF GameNextPlayer, Sleep, Continue
<1>6. CASE GameGotoWinner \/ GameSendPhoto
  BY <1>6 DEF GameGotoWinner, GameSendPhoto, Continue
<1>7. CASE GameFinished \/ GameAtWinner \/ GamePhotoSent
  BY <1>7 DEF GameFinished, GameAtWinner, GamePhotoSent, GameAdvance, Sleep, Continue
<1>8. CASE \E w \in BOOLEAN : GameGetChar(w)
  BY <1>8 DEF GameGetChar, Sleep, Continue
<1> QED BY <1>1, <1>2, <1>3, <1>4, <1>5, <1>6, <1>7, <1>8 DEF GameAlone

LEMMA OneGameStep ==
    ASSUME TypeOK, SemaphoreInv, MicInv, LockInv, ProtocolInv, OneGameInv, Next
    PROVE  OneGameInv'
<1> USE FourThreads DEF Stays, gameVars, musicVars
<1>1. games \in Nat
  BY BoundAssumption DEF TypeOK, GameType
<1>2. ASSUME UNCHANGED <<gstate, games, computed>>, pc'[Game] = pc[Game],
             pc'[Music] = pc[Music], music_play_lock'.owner = music_play_lock.owner,
             mtxlist'[Music] = mtxlist[Music]
      PROVE  OneGameInv'
  BY <1>2 DEF OneGameInv
<1>3. CASE GameAlone
  <2>1. /\ pc'[Music] = pc[Music]
        /\ UNCHANGED <<music_play_lock, mtxlist, computed>>
    BY <1>3, GameAloneEffect
  <2> QED BY <1>1, <1>3, <2>1, GameAloneGames DEF OneGameInv
<1>4. CASE GameMusicInit
  <2>1. /\ pc[Game] = "init" /\ pc'[Game] = "player_start" /\ pc'[Music] = "start"
        /\ ~mtxlist'[Music] /\ computed' = << >>
        /\ UNCHANGED <<music_play_lock, gstate, games>>
    BY <1>4, GameMusicInitEffect
  <2>2. gstate = "START_GAME"
    BY <2>1 DEF ProtocolInv
  <2>3. games = 2 => music_play_lock.owner = Music
    <3>1. games = 2 => pc[Music] \in {"sleep", "while", "exited"}
      BY <2>1 DEF OneGameInv, ProtocolInv, InLoop
    <3> QED BY <3>1 DEF LockInv
  <2> QED BY <1>1, <2>1, <2>2, <2>3 DEF OneGameInv
<1>5. CASE GameListen
  <2>1. /\ pc[Game] = "listen" /\ pc'[Game] = "get_score" /\ pc'[Music] = pc[Music]
        /\ UNCHANGED <<music_play_lock, mtxlist, gstate, games, computed>>
    BY <1>5, GameListenEffect
  <2> QED BY <2>1 DEF OneGameInv
<1>6. CASE GameGetScore
  <2>0. << Music >> # << >>
    OBVIOUS
  <2>1. /\ pc[Game] = "get_score" /\ msgqueue[Game] # << >> /\ pc'[Game] = "next"
        /\ pc'[Music] = pc[Music] /\ UNCHANGED <<gstate, games, computed>>
    BY <1>6, <2>0, GameGetScoreEffect
  <2>2. pc[Music] = "sleep"
    BY <2>1 DEF ProtocolInv
  <2> QED BY <2>1, <2>2 DEF OneGameInv
<1>7. CASE GameMusicStop
  <2>1. /\ pc[Game] = "next" /\ pc'[Game] = "switch" /\ gstate' = "GOTO_WINNER"
        /\ pc'[Music] = pc[Music] /\ games' = games
    BY <1>7, GameMusicStopEffect
  <2>2. pc[Music] # "start" /\ gstate = "START_GAME"
    BY <2>1 DEF ProtocolInv, JustScored, InLoop
  <2> QED BY <2>1, <2>2 DEF OneGameInv
<1>8. CASE MusicAlone
  <2>1. /\ pc'[Game] = pc[Game] /\ pc[Music] # "start" /\ pc'[Music] # "start"
        /\ UNCHANGED <<music_play_lock, mtxlist, gstate, games, computed>>
    BY <1>8, MusicAloneEffect, MusicAlonePlaces
  <2>2. pc[Music] \in {"choose", "while", "suspend", "unlock"} =>
           \/ pc'[Music] \in {"while", "suspend"}
           \/ terminate[Music] /\ pc'[Music] = "exited"
    BY <1>8, MusicAloneWays
  <2>3. pc[Game] \in InLoop => ~terminate[Music]
    BY DEF ProtocolInv
  <2> QED BY <2>1, <2>2, <2>3 DEF OneGameInv, InLoop
<1>9. CASE MusicLockStart
  <2>1. /\ pc[Music] = "start" /\ pc'[Music] = "choose" /\ pc'[Game] = pc[Game]
        /\ music_play_lock'.owner = Music
        /\ mtxlist'[Music] = (mtxlist[Music] \/ music_play_lock.owner = NoThread)
        /\ UNCHANGED <<gstate, games, computed>>
    BY <1>9, MusicLockEffect DEF MusicLockStart
  <2> QED BY <2>1 DEF OneGameInv
<1>10. CASE MusicRelock
  <2>1. /\ pc[Music] = "relock" /\ pc'[Music] = "score" /\ pc'[Game] = pc[Game]
        /\ UNCHANGED <<gstate, games, computed>>
    BY <1>10, MusicLockEffect DEF MusicRelock
  <2> QED BY <2>1 DEF OneGameInv
<1>11. CASE MusicSuspend \/ MusicUnlock
  <2>1. CASE Halt
    BY <1>2, <2>1 DEF Halt, kernel
  <2>2. CASE MusicSuspend /\ ~Halt
    <3>1. /\ pc[Music] = "suspend" /\ pc'[Music] = "unlock" /\ pc'[Game] = pc[Game]
          /\ UNCHANGED <<music_play_lock, mtxlist, gstate, games, computed>>
      BY <2>2, MusicSuspendEffect
    <3> QED BY <3>1 DEF OneGameInv
  <2>3. CASE MusicUnlock /\ ~Halt
    <3>1. /\ pc[Music] = "unlock" /\ pc'[Music] = "get_frequency"
          /\ pc'[Game] = pc[Game] /\ UNCHANGED <<gstate, games, computed>>
      BY <2>3, MusicUnlockEffect
    <3>2. mtxlist[Music]
      BY <2>3 DEF MusicUnlock, MayUnlock, MtxMayUnlock
    <3> QED BY <3>1, <3>2 DEF OneGameInv
  <2> QED BY <1>11, <2>1, <2>2, <2>3
<1>12. CASE MusicGotFrequency \/ MusicScore
  <2>1. /\ pc[Music] \in {"get_frequency", "score"} /\ pc'[Music] # "start"
        /\ pc'[Game] = pc[Game] /\ UNCHANGED <<gstate, games>>
    BY <1>12, MusicGotFrequencyEffect, MusicScoreEffect
  <2> QED BY <2>1 DEF OneGameInv
<1>13. CASE MicAlone \/ MicHear \/ MicDma \/ LightStep
  BY <1>2, <1>13, MicAloneEffect, MicHearEffect, MicDmaEffect, LightEffect
<1>14. CASE MicTryLock
  <2>1. /\ pc'[Game] = pc[Game] /\ pc'[Music] = pc[Music] /\ UNCHANGED <<gstate, games, computed>>
        /\ mtxlist'[Music] = mtxlist[Music]
        /\ music_play_lock' = music_play_lock \/ music_play_lock.owner = NoThread
    BY <1>14, MicTryLockEffect
  <2> QED BY <2>1 DEF OneGameInv
<1>15. CASE MicUnlock
  <2>1. /\ pc'[Game] = pc[Game] /\ pc'[Music] = pc[Music] /\ UNCHANGED <<gstate, games, computed>>
        /\ music_play_lock.owner = Mic
    BY <1>15, MicUnlockEffect
  <2> QED BY <2>1 DEF OneGameInv
<1>16. CASE Tick
  BY <1>2, <1>16, TickEffect
<1>17. CASE \E t \in Thread : ConsoleRelease(t)
  BY <1>2, <1>17, ConsoleEffect
<1> QED BY <1>3, <1>4, <1>5, <1>6, <1>7, <1>8, <1>9, <1>10, <1>11, <1>12, <1>13,
           <1>14, <1>15, <1>16, <1>17, Steps

\* However often the user asks for a game, the robot plays one: the second
\* game never leaves START_GAME, no score is computed in it and nobody wins it,
\* since its musicThd does not get past the assertion of its first chMtxUnlock
\* (music.c:271, 285; chmtx.c:331), and there is no third.
OneGameIsPlayed ==
    /\ games <= 2
    /\ games = 2 => gstate = "START_GAME" /\ pc[Game] # "next"
    /\ games = 2 /\ pc[Game] \notin {"switch", "init"} => computed = << >>

THEOREM SecondGameIsNotPlayed == Spec => []OneGameIsPlayed
<1>1. Init => OneGameInv
  BY FourThreads DEF Init, OneGameInv
<1>2. TypeOK /\ IInv /\ OneGameInv /\ [Next]_vars => OneGameInv'
  <2>1. CASE Next
    BY <2>1, OneGameStep DEF IInv
  <2>2. CASE UNCHANGED vars
    BY <2>2 DEF OneGameInv, vars, kernel, gameVars, musicVars
  <2> QED BY <2>1, <2>2
<1>3. OneGameInv => OneGameIsPlayed
  BY DEF OneGameInv, OneGameIsPlayed
<1> QED BY <1>1, <1>2, <1>3, TypeCorrect, ThreadsKeepTogether, PTL DEF Spec

-----------------------------------------------------------------------------
(***************************************************************************)
(* The picture has the serial line to itself.                              *)
(***************************************************************************)

\* Outside the loop over the players musicThd prints nothing.
QuietInv == pc[Game] \notin InLoop => state[Music] # "PRINTING"

\* Of the steps of Music by itself only the choice of the song prints.
LEMMA MusicAlonePrints ==
    ASSUME TypeOK, MusicAlone, state'[Music] = "PRINTING"
    PROVE  pc[Music] = "choose"
<1> USE FourThreads DEF TypeOK, ThreadType
<1>1. CASE MusicChoose
  BY <1>1 DEF MusicChoose, At
<1>2. CASE MusicWhile
  <2>1. Continue(Music, "FINAL", "exited", {}) \/ Goto(Music, "suspend")
    BY <1>2, Zenon DEF MusicWhile
  <2> QED BY <2>1 DEF Goto, Continue, Ready
<1>3. CASE MusicAwaitFrequency
  BY <1>3 DEF MusicAwaitFrequency, AwaitMessage, Continue, Ready
<1>4. CASE MusicNextNote
  BY <1>4 DEF MusicNextNote, Goto, Continue, Ready
<1>5. CASE MusicSleep
  BY <1>5 DEF MusicSleep, Sleep, Continue, Ready
<1> QED BY <1>1, <1>2, <1>3, <1>4, <1>5 DEF MusicAlone

LEMMA QuietStep ==
    ASSUME TypeOK, SemaphoreInv, MicInv, LockInv, ProtocolInv, QuietInv, Next
    PROVE  QuietInv'
<1> USE FourThreads DEF Stays
<1>1. ASSUME pc'[Game] \notin InLoop => pc[Game] \notin InLoop,
             state'[Music] = state[Music] \/ state'[Music] # "PRINTING"
      PROVE  QuietInv'
  BY <1>1 DEF QuietInv
<1>2. CASE GameAlone
  BY <1>1, <1>2, GameAloneEffect, GameAlonePlaces
<1>3. CASE GameMusicInit \/ GameListen \/ GameGetScore
  <2>1. pc'[Game] \in {"player_start", "get_score", "next"}
    BY <1>3, GameMusicInitEffect, GameListenEffect, GameGetScoreEffect
  <2> QED BY <2>1 DEF QuietInv, InLoop
\* The loop is left when Music has sent its score and has nothing to print.
<1>4. CASE GameMusicStop
  <2>1. pc[Game] = "next" /\ state'[Music] = state[Music]
    BY <1>4, GameMusicStopEffect
  <2>2. state[Music] \in {"READY", "SLEEPING"}
    BY <2>1 DEF ProtocolInv, JustScored
  <2> QED BY <2>1, <2>2 DEF QuietInv
\* Music prints in a game only.
<1>5. CASE MusicAlone
  <2>1. pc'[Game] = pc[Game]
    BY <1>5, MusicAloneEffect
  <2>2. CASE state'[Music] = "PRINTING"
    <3>1. pc[Music] = "choose"
      BY <1>5, <2>2, MusicAlonePrints
    <3> QED BY <2>1, <3>1 DEF QuietInv, ProtocolInv
  <2>3. CASE state'[Music] # "PRINTING"
    BY <1>1, <2>1, <2>3
  <2> QED BY <2>2, <2>3
<1>6. CASE MusicGotFrequency
  <2>1. pc'[Game] = pc[Game] /\ pc[Music] = "get_frequency"
    BY <1>6, MusicGotFrequencyEffect
  <2> QED BY <2>1 DEF QuietInv, ProtocolInv
<1>7. CASE MusicLockStart \/ MusicRelock
  BY <1>1, <1>7, MusicLockEffect DEF MusicLockStart, MusicRelock
<1>8. CASE MusicSuspend \/ MusicUnlock
  <2>1. CASE Halt
    BY <1>1, <2>1 DEF Halt, kernel
  <2>2. CASE ~Halt
    BY <1>1, <1>8, <2>2, MusicSuspendEffect, MusicUnlockEffect
  <2> QED BY <2>1, <2>2
<1>9. CASE MusicScore
  BY <1>1, <1>9, MusicScoreEffect
<1>10. CASE MicAlone \/ MicTryLock \/ MicUnlock \/ LightStep \/ MicDma
  BY <1>1, <1>10, MicAloneEffect, MicTryLockEffect, MicUnlockEffect, LightEffect,
     MicDmaEffect
<1>11. CASE MicHear
  BY <1>1, <1>11, MicHearEffect
<1>12. CASE Tick
  BY <1>1, <1>12, TickEffect
<1>13. CASE \E t \in Thread : ConsoleRelease(t)
  BY <1>1, <1>13, ConsoleEffect
<1> QED BY <1>2, <1>3, <1>4, <1>5, <1>6, <1>7, <1>8, <1>9, <1>10, <1>11, <1>12,
           <1>13, Steps

\* While gameThd waits for the photo nothing is printed but the picture:
\* musicThd, the only other thread that prints, is done with its last line and
\* ends without another (game.c:94-96, music.c:270-271, 294).
PictureHasTheLine ==
    pc[Game] = "wait_photo" => state[Music] # "PRINTING"

THEOREM PicturesAreNotDisturbed == Spec => []PictureHasTheLine
<1>1. Init => QuietInv
  BY FourThreads DEF Init, QuietInv
<1>2. TypeOK /\ IInv /\ QuietInv /\ [Next]_vars => QuietInv'
  <2>1. CASE Next
    BY <2>1, QuietStep DEF IInv
  <2>2. CASE UNCHANGED vars
    BY <2>2 DEF QuietInv, vars, kernel
  <2> QED BY <2>1, <2>2
<1>3. QuietInv => PictureHasTheLine
  BY DEF QuietInv, PictureHasTheLine, InLoop
<1> QED BY <1>1, <1>2, <1>3, TypeCorrect, ThreadsKeepTogether, PTL DEF Spec

=============================================================================
