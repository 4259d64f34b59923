-------------------------- MODULE MusicGame_proofs --------------------------
(***************************************************************************)
(* Proofs about MusicGame, for every set of songs, every frequency and any *)
(* number of games: its types, that recordings are complete, and that it   *)
(* implements Turns.                                                       *)
(***************************************************************************)
EXTENDS MusicGameTurns, FiniteSetTheorems, SequenceTheorems, TLAPS

(***************************************************************************)
(* The operators the actions are built from.                               *)
(***************************************************************************)

\* Queues: what Append, Head and Tail return.
LEMMA QueueTypes ==
    ASSUME NEW S, NEW q \in Seq(S)
    PROVE  /\ \A e \in S : Append(q, e) \in Seq(S)
           /\ q # << >> => Head(q) \in S /\ Tail(q) \in Seq(S)
OBVIOUS

\* The semaphore calls return semaphores.
LEMMA SemaphoreTypes ==
    ASSUME NEW s \in Semaphore, NEW t \in Thread
    PROVE  SemWait(s, t) \in Semaphore
BY DEF Semaphore, SemWait, SemBlocks

LEMMA SignalTypes ==
    ASSUME NEW s \in Semaphore
    PROVE  SemSignal(s) \in Semaphore /\ BSemSignal(s) \in Semaphore
BY DEF Semaphore, SemSignal, BSemSignal, SemWakes

LEMMA NewSemaphore == \A n \in Int : SemInit(n) \in Semaphore
BY DEF Semaphore, SemInit

\* The mutex calls return mutexes.
LEMMA MutexTypes ==
    ASSUME NEW m \in Mutex, NEW t \in Thread
    PROVE  /\ MtxLock(m, t) \in Mutex
           /\ MtxNextOwner(m) \subseteq Thread \cup {NoThread}
           /\ \A h \in Thread \cup {NoThread} : MtxUnlock(m, h) \in Mutex
<1>1. MtxLock(m, t) \in Mutex
  BY DEF Mutex, MtxLock, MtxBlocks
<1>2. MtxNextOwner(m) \subseteq Thread \cup {NoThread}
  BY DEF Mutex, MtxNextOwner, MtxHeirs
<1>3. ASSUME NEW h \in Thread \cup {NoThread} PROVE MtxUnlock(m, h) \in Mutex
  BY DEF Mutex, MtxUnlock
<1> QED BY <1>1, <1>2, <1>3

\* A thread that leaves the core for one of its own places keeps the types of
\* the thread states.
LEMMA ContinueType ==
    ASSUME ThreadType, NEW t \in Thread, NEW s \in TState,
           NEW l \in PcOf(t), NEW W, Continue(t, s, l, W)
    PROVE  ThreadType'
<1> USE DEF ThreadType
<1>1. state' \in [Thread -> TState]
  BY DEF Continue, Ready, TState, ThreadState
<1>2. PcOf(t) \subseteq GamePc \cup MusicPc \cup MicPc \cup LightPc
  BY DEF PcOf
<1>3. pc' \in [Thread -> GamePc \cup MusicPc \cup MicPc \cup LightPc]
  BY <1>2 DEF Continue
<1>4. ASSUME NEW u \in Thread PROVE pc'[u] \in PcOf(u)
  BY DEF Continue
<1> QED BY <1>1, <1>3, <1>4

\* The threads are four.
LEMMA ThreadsDistinct ==
    /\ Game \in Thread \ {Mic} /\ Music \in Thread \ {Mic}
    /\ Light \in Thread \ {Mic}
BY ThreadsAssumption

\* A score is an integer.
LEMMA ScoreType ==
    ASSUME NEW melody \in Seq(Note), Len(melody) \in 1..255, NEW played
    PROVE  calculate_score(melody, played) \in -100..100
<1> DEFINE R == Cardinality(Matches(melody, played))
<1>1. R \in Nat
  <2>1. Matches(melody, played) \subseteq 1..Len(melody)
    BY LenProperties DEF Matches
  <2>2. IsFiniteSet(1..Len(melody))
    BY FS_Interval, LenProperties
  <2> QED BY <2>1, <2>2, FS_Subset, FS_CardinalityType
<1>2. check_note_sequence(melody, played) \in Int
  BY <1>1 DEF check_note_sequence, POSITIVE_POINTS, NEGATIVE_POINTS
<1>3. \A a \in Int, b \in Nat \ {0} : Quotient(a, b) \in Int
  BY DEF Quotient
<1>4. POSITIVE_POINTS * Len(melody) \in Nat \ {0}
  <2>1. \A n \in 1..255 : 4 * n \in Nat \ {0}
    OBVIOUS
  <2> QED BY <2>1 DEF POSITIVE_POINTS
<1>5. 100 * check_note_sequence(melody, played) \in Int
  BY <1>2
<1> DEFINE percent == Quotient(100 * check_note_sequence(melody, played),
                               POSITIVE_POINTS * Len(melody))
<1>6. percent \in Int
  BY <1>3, <1>4, <1>5
<1>7. calculate_score(melody, played) =
        IF percent > 100 THEN 100 ELSE IF percent < -100 THEN -100 ELSE percent
  BY DEF calculate_score
<1> HIDE DEF percent
<1> QED BY <1>6, <1>7

\* freq_to_note returns a note or NONE.
LEMMA NoteType ==
    ASSUME NEW f
    PROVE  freq_to_note(f) \in Note \cup {NONE}
BY DEF freq_to_note, ClosestNote

\* chMtxUnlock keeps the types of the mutex and of the lists of mutexes.
LEMMA UnlockType ==
    ASSUME KernelType, NEW t \in Thread, NEW l, Unlock(t, l)
    PROVE  music_play_lock' \in Mutex /\ mtxlist' \in [Thread -> BOOLEAN]
<1>1. PICK heir \in MtxNextOwner(music_play_lock) :
        /\ music_play_lock' = MtxUnlock(music_play_lock, heir)
        /\ mtxlist' = [u \in Thread |-> IF u = t THEN music_play_lock.cnt > 1
                                        ELSE u = heir \/ mtxlist[u]]
  BY DEF Unlock
<1>2. music_play_lock' \in Mutex
  BY <1>1, MutexTypes DEF KernelType
<1>3. mtxlist' \in [Thread -> BOOLEAN]
  <2>1. (music_play_lock.cnt > 1) \in BOOLEAN
    BY DEF KernelType, Mutex
  <2>2. \A u \in Thread : (u = heir \/ mtxlist[u]) \in BOOLEAN
    OBVIOUS
  <2> QED BY <1>1, <2>1, <2>2, Zenon
<1> QED BY <1>2, <1>3

-----------------------------------------------------------------------------
(***************************************************************************)
(* Type correctness.                                                       *)
(***************************************************************************)

\* The initial state has the types.
LEMMA InitType == Init => TypeOK
<1> SUFFICES ASSUME Init PROVE TypeOK
  OBVIOUS
<1>1. ThreadType
  BY ThreadsAssumption
  DEF Init, ThreadType, TState, ThreadState, PcOf, GamePc, MusicPc, MicPc, LightPc
<1>2. KernelType
  <2>1. FreeMutex \in Mutex
    BY DEF FreeMutex, Mutex
  <2>2. SemInit(0) \in Semaphore /\ SemInit(1) \in Semaphore
    BY NewSemaphore
  <2> QED BY <2>1, <2>2 DEF Init, KernelType
<1>3. MessageType
  BY DEF Init, MessageType
<1>4. GameType
  BY BoundAssumption DEF Init, GameType, GameState, Player, NumPlayers, UNDEF
<1>5. MusicType
  BY ThreadsAssumption DEF Init, MusicType
<1>6. MicType
  BY DEF Init, MicType
<1> QED BY <1>1, <1>2, <1>3, <1>4, <1>5, <1>6 DEF TypeOK

\* Every step of gameThd keeps the types.
LEMMA GameStepType == TypeOK /\ GameStep => TypeOK'
<1> SUFFICES ASSUME TypeOK, GameStep PROVE TypeOK'
  OBVIOUS
<1> USE ThreadsAssumption DEF TypeOK, gameVars, musicVars, micVars
<1>1. CASE GameIdle
  <2>1. ThreadType'
    BY <1>1, ContinueType
    DEF GameIdle, PcOf, GamePc, TState, ThreadState
  <2>2. KernelType' /\ MessageType' /\ GameType' /\ MusicType' /\ MicType'
    BY <1>1 DEF GameIdle, At, Continue, ThreadType, KernelType, MessageType, GameType, MusicType, MicType
  <2> QED BY <2>1, <2>2
<1>2. CASE GameStart
  <2>1. ThreadType'
    BY <1>2, ContinueType
    DEF GameStart, Say, PcOf, GamePc, TState, ThreadState
  <2>2. KernelType' /\ MessageType' /\ GameType' /\ MusicType' /\ MicType'
    BY <1>2 DEF GameStart, At, Continue, Say, ThreadType, KernelType, MessageType, GameType, MusicType, MicType
  <2> QED BY <2>1, <2>2
<1>3. CASE GameMusicInit
  <2>1. ThreadType'
    BY <1>3
    DEF GameMusicInit, Created, FirstPc, ThreadType, MusicPc, MicPc, LightPc, PcOf, GamePc, TState, ThreadState
  <2>2. KernelType'
    BY <1>3, NewSemaphore, DelayAssumption DEF GameMusicInit, Created, KernelType
  <2>3. MessageType'
    BY <1>3 DEF GameMusicInit, Created, MessageType
  <2>4. GameType'
    BY <1>3 DEF GameMusicInit, Player, NumPlayers, GameType
  <2>5. MusicType'
    BY <1>3 DEF GameMusicInit, Created, FirstPc, ThreadType, MusicType
  <2>6. MicType'
    BY <1>3 DEF GameMusicInit, At, Continue, Created, FirstPc, ThreadType, MusicPc, MicPc, LightPc, ThreadType, MicType
  <2> QED BY <2>1, <2>2, <2>3, <2>4, <2>5, <2>6
<1>4. CASE GamePlayerStart
  <2>1. ThreadType'
    BY <1>4, ContinueType
    DEF GamePlayerStart, Say, PcOf, GamePc, TState, ThreadState
  <2>2. KernelType' /\ MessageType' /\ GameType' /\ MusicType' /\ MicType'
    BY <1>4 DEF GamePlayerStart, At, Continue, Say, ThreadType, KernelType, MessageType, GameType, MusicType, MicType
  <2> QED BY <2>1, <2>2
<1>5. CASE GameListen
  <2>1. ThreadType'
    BY <1>5, ContinueType
    DEF GameListen, PcOf, GamePc, TState, ThreadState
  <2>2. KernelType' /\ MessageType' /\ GameType' /\ MusicType' /\ MicType'
    BY <1>5 DEF GameListen, At, Continue, ThreadType, KernelType, MessageType, GameType, MusicType, MicType
  <2> QED BY <2>1, <2>2
<1>6. CASE GameAwaitScore
  <2>1. ThreadType'
    BY <1>6, ContinueType
    DEF GameAwaitScore, AwaitMessage, PcOf, GamePc, TState, ThreadState
  <2>2. KernelType' /\ MessageType' /\ GameType' /\ MusicType' /\ MicType'
    BY <1>6 DEF GameAwaitScore, At, Continue, AwaitMessage, ThreadType, KernelType, MessageType, GameType, MusicType, MicType
  <2> QED BY <2>1, <2>2
<1>7. CASE GameGetScore
  <2>1. ThreadType'
    BY <1>7, ContinueType
    DEF GameGetScore, Receive, PcOf, GamePc, TState, ThreadState
  <2>2. MessageType'
    BY <1>7, QueueTypes DEF GameGetScore, Receive, MessageType
  <2>3. GameType'
    BY <1>7, QueueTypes DEF GameGetScore, Receive, Received, MessageType, GameType
  <2>4. KernelType' /\ MusicType' /\ MicType'
    BY <1>7 DEF GameGetScore, At, Continue, Receive, ThreadType, KernelType, MusicType, MicType
  <2> QED BY <2>1, <2>2, <2>3, <2>4
<1>8. CASE GameNextPlayer
  <2>1. ThreadType'
    BY <1>8, ContinueType, DelayAssumption
    DEF GameNextPlayer, Sleep, PcOf, GamePc, TState, ThreadState
  <2>2. KernelType'
    BY <1>8, DelayAssumption DEF GameNextPlayer, Sleep, KernelType
  <2>3. GameType'
    BY <1>8 DEF GameNextPlayer, Player, NumPlayers, GameType
  <2>4. MessageType' /\ MusicType' /\ MicType'
    BY <1>8 DEF GameNextPlayer, At, Continue, Sleep, ThreadType, MessageType, MusicType, MicType
  <2> QED BY <2>1, <2>2, <2>3, <2>4
<1>9. CASE GameMusicStop
  <2>1. ThreadType'
    BY <1>9, ContinueType
    DEF GameMusicStop, PcOf, GamePc, TState, ThreadState
  <2>2. KernelType'
    BY <1>9, NewSemaphore, DelayAssumption DEF GameMusicStop, SemReset, KernelType
  <2>3. GameType'
    BY <1>9 DEF GameMusicStop, GameState, GameType
  <2>4. MessageType' /\ MusicType' /\ MicType'
    BY <1>9 DEF GameMusicStop, At, Continue, ThreadType, MessageType, MusicType, MicType
  <2> QED BY <2>1, <2>2, <2>3, <2>4
<1>10. CASE GameGotoWinner
  <2>1. ThreadType'
    BY <1>10, ContinueType
    DEF GameGotoWinner, PcOf, GamePc, TState, ThreadState
  <2>2. GameType'
    BY <1>10 DEF GameGotoWinner, Player, NumPlayers, GameType
  <2>3. KernelType' /\ MessageType' /\ MusicType' /\ MicType'
    BY <1>10 DEF GameGotoWinner, At, Continue, ThreadType, KernelType, MessageType, MusicType, MicType
  <2> QED BY <2>1, <2>2, <2>3
<1>11. CASE GameSendPhoto
  <2>1. ThreadType'
    BY <1>11, ContinueType
    DEF GameSendPhoto, PcOf, GamePc, TState, ThreadState
  <2>2. KernelType' /\ MessageType' /\ GameType' /\ MusicType' /\ MicType'
    BY <1>11 DEF GameSendPhoto, At, Continue, ThreadType, KernelType, MessageType, GameType, MusicType, MicType
  <2> QED BY <2>1, <2>2
<1>12. CASE GameFinished
  <2>1. ThreadType'
    BY <1>12, ContinueType, DelayAssumption
    DEF GameFinished, GameAdvance, Sleep, PcOf, GamePc, TState, ThreadState
  <2>2. KernelType'
    BY <1>12, DelayAssumption DEF GameFinished, GameAdvance, Sleep, KernelType
  <2>3. GameType'
    BY <1>12 DEF GameFinished, GameAdvance, GameState, GameType
  <2>4. MessageType' /\ MusicType' /\ MicType'
    BY <1>12 DEF GameFinished, At, Continue, GameAdvance, Sleep, ThreadType, MessageType, MusicType, MicType
  <2> QED BY <2>1, <2>2, <2>3, <2>4
<1> QED BY <1>1, <1>2, <1>3, <1>4, <1>5, <1>6, <1>7, <1>8, <1>9, <1>10, <1>11, <1>12 DEF GameStep

\* Every step of musicThd keeps the types.
LEMMA MusicStepType == TypeOK /\ MusicStep => TypeOK'
<1> SUFFICES ASSUME TypeOK, MusicStep PROVE TypeOK'
  OBVIOUS
<1> USE ThreadsAssumption DEF TypeOK, gameVars, musicVars, micVars
<1>1. CASE MusicLockStart
  <2>1. ThreadType'
    BY <1>1, ContinueType
    DEF MusicLockStart, MusicLock, PcOf, MusicPc, TState, ThreadState
  <2>2. KernelType'
    BY <1>1, MutexTypes DEF MusicLockStart, MusicLock, MtxListed, KernelType
  <2>3. MusicType'
    BY <1>1 DEF MusicLockStart, MusicLock, ThreadType, Continue, At, MusicType
  <2>4. MessageType' /\ GameType' /\ MicType'
    BY <1>1 DEF MusicLockStart, At, Continue, MusicLock, ThreadType, MessageType, GameType, MicType
  <2> QED BY <2>1, <2>2, <2>3, <2>4
<1>2. CASE MusicChoose
  <2>1. ThreadType'
    BY <1>2, ContinueType
    DEF MusicChoose, Say, PcOf, MusicPc, TState, ThreadState
  <2>2. MusicType'
    BY <1>2 DEF MusicChoose, Say, ThreadType, Continue, At, MusicType
  <2>3. KernelType' /\ MessageType' /\ GameType' /\ MicType'
    BY <1>2 DEF MusicChoose, At, Continue, Say, ThreadType, KernelType, MessageType, GameType, MicType
  <2> QED BY <2>1, <2>2, <2>3
<1>3. CASE MusicWhile
  <2>1. ThreadType'
    BY <1>3, ContinueType
    DEF MusicWhile, Goto, PcOf, MusicPc, TState, ThreadState
  <2>2. KernelType' /\ MessageType' /\ GameType' /\ MusicType' /\ MicType'
    BY <1>3 DEF MusicWhile, At, Continue, Goto, ThreadType, KernelType, MessageType, GameType, MusicType, MicType
  <2> QED BY <2>1, <2>2
<1>4. CASE MusicSuspend
  <2>1. ThreadType'
    BY <1>4, ContinueType
    DEF MusicSuspend, Halt, kernel, At, Runs, ThreadType, PcOf, MusicPc, TState, ThreadState
  <2>2. KernelType'
    BY <1>4 DEF MusicSuspend, Halt, kernel, KernelType
  <2>3. MessageType'
    BY <1>4 DEF MusicSuspend, Halt, kernel, MessageType
  <2>4. GameType' /\ MusicType' /\ MicType'
    BY <1>4 DEF MusicSuspend, At, Continue, Halt, kernel, ThreadType, ThreadType, GameType, MusicType, MicType
  <2> QED BY <2>1, <2>2, <2>3, <2>4
<1>5. CASE MusicUnlock
  <2>1. ThreadType'
    BY <1>5, ContinueType
    DEF MusicUnlock, Unlock, Halt, kernel, At, Runs, ThreadType, PcOf, MusicPc, TState, ThreadState
  <2>2. KernelType'
    <3>1. CASE Halt
      BY <3>1 DEF Halt, kernel, KernelType
    <3>2. CASE Unlock(Music, "get_frequency")
      BY <1>5, <3>1, <3>2, UnlockType DEF MusicUnlock, KernelType
    <3> QED BY <1>5, <3>1, <3>2 DEF MusicUnlock
  <2>3. MessageType'
    BY <1>5 DEF MusicUnlock, Halt, kernel, MessageType
  <2>4. MusicType'
    BY <1>5, SongAssumption, LenProperties DEF MusicUnlock, Unlock, Halt, kernel, At, ThreadType, Size, Continue, MusicType
  <2>5. GameType' /\ MicType'
    BY <1>5 DEF MusicUnlock, At, Continue, Unlock, Halt, kernel, ThreadType, ThreadType, GameType, MicType
  <2> QED BY <2>1, <2>2, <2>3, <2>4, <2>5
<1>6. CASE MusicAwaitFrequency
  <2>1. ThreadType'
    BY <1>6, ContinueType
    DEF MusicAwaitFrequency, AwaitMessage, PcOf, MusicPc, TState, ThreadState
  <2>2. KernelType' /\ MessageType' /\ GameType' /\ MusicType' /\ MicType'
    BY <1>6 DEF MusicAwaitFrequency, At, Continue, AwaitMessage, ThreadType, KernelType, MessageType, GameType, MusicType, MicType
  <2> QED BY <2>1, <2>2
<1>7. CASE MusicGotFrequency
  <2>1. ThreadType'
    BY <1>7, ContinueType
    DEF MusicGotFrequency, PcOf, MusicPc, TState, ThreadState
  <2>2. KernelType'
    BY <1>7, SignalTypes DEF MusicGotFrequency, KernelType
  <2>3. MessageType'
    BY <1>7, QueueTypes DEF MusicGotFrequency, MessageType
  <2>4. MusicType'
    BY <1>7, NoteType DEF MusicGotFrequency, At, ThreadType, Continue, MusicType
  <2>5. GameType' /\ MicType'
    BY <1>7 DEF MusicGotFrequency, At, Continue, ThreadType, GameType, MicType
  <2> QED BY <2>1, <2>2, <2>3, <2>4, <2>5
<1>8. CASE MusicNextNote
  <2>1. ThreadType'
    BY <1>8, ContinueType
    DEF MusicNextNote, Goto, PcOf, MusicPc, TState, ThreadState
  <2>2. MusicType'
    BY <1>8 DEF MusicNextNote, Goto, At, ThreadType, Continue, MusicType
  <2>3. KernelType' /\ MessageType' /\ GameType' /\ MicType'
    BY <1>8 DEF MusicNextNote, At, Continue, Goto, ThreadType, KernelType, MessageType, GameType, MicType
  <2> QED BY <2>1, <2>2, <2>3
<1>9. CASE MusicRelock
  <2>1. ThreadType'
    BY <1>9, ContinueType
    DEF MusicRelock, MusicLock, PcOf, MusicPc, TState, ThreadState
  <2>2. KernelType'
    BY <1>9, MutexTypes DEF MusicRelock, MusicLock, MtxListed, KernelType
  <2>3. MusicType'
    BY <1>9 DEF MusicRelock, MusicLock, ThreadType, Continue, At, MusicType
  <2>4. MessageType' /\ GameType' /\ MicType'
    BY <1>9 DEF MusicRelock, At, Continue, MusicLock, ThreadType, MessageType, GameType, MicType
  <2> QED BY <2>1, <2>2, <2>3, <2>4
<1>10. CASE MusicScore
  <2>1. ThreadType'
    BY <1>10, ContinueType
    DEF MusicScore, Send, PcOf, MusicPc, TState, ThreadState
  <2>2. MessageType'
    <3>1. chosen_song \in Song
      BY <1>10 DEF MusicScore, At, MusicType
    <3>2. PICK rest \in {0, NONE} :
            Send(Music, Game, calculate_score(Melody[chosen_song], Recording(rest)),
                 "sleep")
      BY <1>10 DEF MusicScore
    <3>3. calculate_score(Melody[chosen_song], Recording(rest)) \in Int
      <4>1. -100..100 \subseteq Int
        OBVIOUS
      <4> QED BY <3>1, <4>1, ScoreType, SongAssumption
    <3>4. Append(msgqueue[Game], Music) \in Seq(Thread)
      BY QueueTypes DEF MessageType
    <3> QED BY <3>2, <3>3, <3>4 DEF Send, MessageType
  <2>3. MusicType'
    <3>1. chosen_song \in Song
      BY <1>10 DEF MusicScore, At, MusicType
    <3>2. PICK points \in -100..100 : computed' = Append(computed, points)
      BY <1>10, <3>1, ScoreType, SongAssumption DEF MusicScore
    <3>3. computed' \in Seq(Int)
      <4>1. -100..100 \subseteq Int
        OBVIOUS
      <4>2. points \in Int
        BY <4>1
      <4>3. computed \in Seq(Int)
        BY DEF MusicType
      <4> QED BY <3>2, <4>2, <4>3, QueueTypes
    <3> QED BY <1>10, <3>3 DEF MusicScore, At, ThreadType, Continue, Send, MusicType
  <2>4. KernelType' /\ GameType' /\ MicType'
    BY <1>10 DEF MusicScore, At, Continue, Send, ThreadType, KernelType, GameType, MicType
  <2> QED BY <2>1, <2>2, <2>3, <2>4
<1>11. CASE MusicSleep
  <2>1. ThreadType'
    BY <1>11, ContinueType, DelayAssumption
    DEF MusicSleep, Sleep, PcOf, MusicPc, TState, ThreadState
  <2>2. KernelType'
    BY <1>11, DelayAssumption DEF MusicSleep, Sleep, KernelType
  <2>3. MessageType' /\ GameType' /\ MusicType' /\ MicType'
    BY <1>11 DEF MusicSleep, At, Continue, Sleep, ThreadType, MessageType, GameType, MusicType, MicType
  <2> QED BY <2>1, <2>2, <2>3
<1> QED BY <1>1, <1>2, <1>3, <1>4, <1>5, <1>6, <1>7, <1>8, <1>9, <1>10, <1>11 DEF MusicStep

\* Every step of DataProcessing keeps the types.
LEMMA MicStepType == TypeOK /\ MicStep => TypeOK'
<1> SUFFICES ASSUME TypeOK, MicStep PROVE TypeOK'
  OBVIOUS
<1> USE ThreadsAssumption DEF TypeOK, gameVars, musicVars, micVars
<1>1. CASE MicWhile
  <2>1. ThreadType'
    BY <1>1, ContinueType
    DEF MicWhile, MicWaitBuffer, PcOf, MicPc, TState, ThreadState
  <2>2. KernelType'
    BY <1>1, SemaphoreTypes DEF MicWhile, MicWaitBuffer, KernelType
  <2>3. MessageType' /\ GameType' /\ MusicType' /\ MicType'
    BY <1>1 DEF MicWhile, At, Continue, MicWaitBuffer, ThreadType, MessageType, GameType, MusicType, MicType
  <2> QED BY <2>1, <2>2, <2>3
<1>2. CASE MicWait2
  <2>1. ThreadType'
    BY <1>2, ContinueType
    DEF MicWait2, MicWaitBuffer, PcOf, MicPc, TState, ThreadState
  <2>2. KernelType'
    BY <1>2, SemaphoreTypes DEF MicWait2, MicWaitBuffer, KernelType
  <2>3. MessageType' /\ GameType' /\ MusicType' /\ MicType'
    BY <1>2 DEF MicWait2, At, Continue, MicWaitBuffer, ThreadType, MessageType, GameType, MusicType, MicType
  <2> QED BY <2>1, <2>2, <2>3
<1>3. CASE MicTest
  <2>1. ThreadType'
    BY <1>3, ContinueType
    DEF MicTest, Goto, PcOf, MicPc, TState, ThreadState
  <2>2. KernelType' /\ MessageType' /\ GameType' /\ MusicType' /\ MicType'
    BY <1>3 DEF MicTest, At, Continue, Goto, ThreadType, KernelType, MessageType, GameType, MusicType, MicType
  <2> QED BY <2>1, <2>2
<1>4. CASE MicTryLock
  <2>1. ThreadType'
    BY <1>4, ContinueType
    DEF MicTryLock, Goto, PcOf, MicPc, TState, ThreadState
  <2>2. KernelType'
    BY <1>4, MutexTypes DEF MicTryLock, MtxListed, KernelType
  <2>3. MessageType' /\ GameType' /\ MusicType' /\ MicType'
    BY <1>4 DEF MicTryLock, At, Continue, Goto, ThreadType, MessageType, GameType, MusicType, MicType
  <2> QED BY <2>1, <2>2, <2>3
<1>5. CASE MicUnlock
  <2>1. ThreadType'
    <3>1. CASE Halt
      BY <3>1 DEF Halt, kernel, ThreadType
    <3>2. CASE Unlock(Mic, "process")
      BY <3>2, ContinueType DEF Unlock, PcOf, MicPc, TState, ThreadState
    <3> QED BY <1>5, <3>1, <3>2 DEF MicUnlock
  <2>2. KernelType'
    <3>1. CASE Halt
      BY <3>1 DEF Halt, kernel, KernelType
    <3>2. CASE Unlock(Mic, "process")
      BY <1>5, <3>1, <3>2, UnlockType DEF MicUnlock, KernelType
    <3> QED BY <1>5, <3>1, <3>2 DEF MicUnlock
  <2>3. MessageType'
    BY <1>5 DEF MicUnlock, Halt, kernel, MessageType
  <2>4. UNCHANGED <<gameVars, musicVars, micVars>>
    BY <1>5 DEF MicUnlock, Halt
  <2>5. \A t \in Thread \ {Mic} : pc'[t] = pc[t]
    <3>1. CASE Halt
      BY <3>1 DEF Halt, kernel
    <3>2. CASE Unlock(Mic, "process")
      BY <3>2 DEF Unlock, Continue, ThreadType
    <3> QED BY <1>5, <3>1, <3>2 DEF MicUnlock
  <2>6. GameType'
    BY <2>4, <2>5, ThreadsDistinct DEF GameType
  <2>7. MusicType'
    BY <2>4, <2>5, ThreadsDistinct DEF MusicType
  <2>8. MicType'
    BY <2>4 DEF MicType
  <2> QED BY <2>1, <2>2, <2>3, <2>6, <2>7, <2>8
<1>6. CASE MicHear
  <2>1. ThreadType'
    BY <1>6, ContinueType
    DEF MicHear, MicSendFreq, Send, PcOf, MicPc, TState, ThreadState
  <2>2. KernelType'
    BY <1>6 DEF MicHear, MicSendFreq, KernelType
  <2>3. MessageType'
    BY <1>6, QueueTypes, HeardAssumption DEF MicHear, MicSendFreq, Send, MessageType
  <2>4. GameType' /\ MusicType' /\ MicType'
    BY <1>6 DEF MicHear, At, Continue, MicSendFreq, Send, ThreadType, GameType, MusicType, MicType
  <2> QED BY <2>1, <2>2, <2>3, <2>4
<1>7. CASE MicSent
  <2>1. ThreadType'
    BY <1>7, ContinueType
    DEF MicSent, Goto, PcOf, MicPc, TState, ThreadState
  <2>2. KernelType' /\ MessageType' /\ GameType' /\ MusicType' /\ MicType'
    BY <1>7 DEF MicSent, At, Continue, Goto, ThreadType, KernelType, MessageType, GameType, MusicType, MicType
  <2> QED BY <2>1, <2>2
<1>8. CASE \E edge \in BOOLEAN : MicIgnore(edge)
  <2>1. ThreadType'
    BY <1>8, ContinueType
    DEF MicIgnore, Goto, PcOf, MicPc, TState, ThreadState
  <2>2. KernelType' /\ MessageType' /\ GameType' /\ MusicType' /\ MicType'
    BY <1>8 DEF At, Continue, MicIgnore, Goto, ThreadType, KernelType, MessageType, GameType, MusicType, MicType
  <2> QED BY <2>1, <2>2
<1> QED BY <1>1, <1>2, <1>3, <1>4, <1>5, <1>6, <1>7, <1>8 DEF MicStep

\* Every step of lightshowThd keeps the types.
LEMMA LightStepType == TypeOK /\ LightStep => TypeOK'
<1> SUFFICES ASSUME TypeOK, LightStep PROVE TypeOK'
  OBVIOUS
<1> USE ThreadsAssumption DEF TypeOK, gameVars, musicVars, micVars
<1>1. CASE LightWhile
  <2>1. ThreadType'
    BY <1>1, ContinueType
    DEF LightWhile, PcOf, LightPc, TState, ThreadState
  <2>2. KernelType'
    BY <1>1, SemaphoreTypes DEF LightWhile, KernelType
  <2>3. MessageType' /\ GameType' /\ MusicType' /\ MicType'
    BY <1>1 DEF LightWhile, At, Continue, ThreadType, MessageType, GameType, MusicType, MicType
  <2> QED BY <2>1, <2>2, <2>3
<1>2. CASE LightColour
  <2>1. ThreadType'
    BY <1>2, ContinueType
    DEF LightColour, Goto, PcOf, LightPc, TState, ThreadState
  <2>2. KernelType' /\ MessageType' /\ GameType' /\ MusicType' /\ MicType'
    BY <1>2 DEF LightColour, At, Continue, Goto, ThreadType, KernelType, MessageType, GameType, MusicType, MicType
  <2> QED BY <2>1, <2>2
<1> QED BY <1>1, <1>2 DEF LightStep

\* Every step of the environment keeps the types.
LEMMA EnvironmentType == TypeOK /\ Environment => TypeOK'
<1> SUFFICES ASSUME TypeOK, Environment PROVE TypeOK'
  OBVIOUS
<1> USE ThreadsAssumption, DelayAssumption DEF TypeOK, gameVars, musicVars, micVars
<1>1. ASSUME NEW w \in BOOLEAN, GameGetChar(w) PROVE TypeOK'
  <2>1. ThreadType'
    BY <1>1, ContinueType DEF GameGetChar, Sleep, PcOf, GamePc, TState, ThreadState
  <2>2. KernelType'
    BY <1>1 DEF GameGetChar, Sleep, KernelType
  <2>3. GameType'
    BY <1>1, BoundAssumption DEF GameGetChar, GameType, GameState
  <2>4. MessageType' /\ MusicType' /\ MicType'
    BY <1>1 DEF GameGetChar, Sleep, Continue, ThreadType, MessageType, MusicType, MicType
  <2> QED BY <2>1, <2>2, <2>3, <2>4
<1>2. ASSUME NEW from, NEW l, NEW to \in GameState, GameAdvance(from, l, to)
      PROVE  TypeOK'
  <2>1. ThreadType'
    BY <1>2, ContinueType DEF GameAdvance, Sleep, PcOf, GamePc, TState, ThreadState
  <2>2. KernelType'
    BY <1>2 DEF GameAdvance, Sleep, KernelType
  <2>3. GameType'
    BY <1>2 DEF GameAdvance, GameType
  <2>4. MessageType' /\ MusicType' /\ MicType'
    BY <1>2 DEF GameAdvance, Sleep, Continue, ThreadType, MessageType, MusicType, MicType
  <2> QED BY <2>1, <2>2, <2>3, <2>4
<1>3. CASE GameAtWinner \/ GamePhotoSent
  BY <1>2, <1>3 DEF GameAtWinner, GamePhotoSent, GameState
<1>4. ASSUME NEW t \in Thread, ConsoleRelease(t) PROVE TypeOK'
  <2>1. ThreadType'
    BY <1>4 DEF ConsoleRelease, Ready, ThreadType, TState, ThreadState
  <2> QED BY <1>4, <2>1
      DEF ConsoleRelease, KernelType, MessageType, GameType, MusicType, MicType
<1>5. CASE MicDma
  <2>1. ThreadType'
    BY <1>5 DEF MicDma, Ready, ThreadType, TState, ThreadState
  <2>2. KernelType'
    BY <1>5, SignalTypes DEF MicDma, KernelType
  <2> QED BY <1>5, <2>1, <2>2 DEF MicDma, MessageType, GameType, MusicType, MicType
<1>6. CASE Tick
  <2>1. ThreadType'
    BY <1>6 DEF Tick, Ready, ThreadType, TState, ThreadState
  <2>2. KernelType'
    BY <1>6 DEF Tick, KernelType
  <2> QED BY <1>6, <2>1, <2>2 DEF Tick, MessageType, GameType, MusicType, MicType
<1> QED BY <1>1, <1>3, <1>4, <1>5, <1>6 DEF Environment

\* Type correctness: in every reachable state of every instance each variable
\* has its type, and musicThd has a song whenever it uses one.
THEOREM TypeCorrect == Spec => []TypeOK
<1>1. TypeOK /\ UNCHANGED vars => TypeOK'
  BY DEF TypeOK, vars, kernel, gameVars, musicVars, micVars, ThreadType,
         KernelType, MessageType, GameType, MusicType, MicType
<1>2. TypeOK /\ [Next]_vars => TypeOK'
  BY <1>1, GameStepType, MusicStepType, MicStepType, LightStepType,
     EnvironmentType DEF Next
<1> QED BY InitType, <1>2, PTL DEF Spec

-----------------------------------------------------------------------------
(***************************************************************************)
(* The recording is complete when it is scored.  The loop of musicThd      *)
(* steps its counter back for a frequency that is no note, in eight bits:  *)
(* the invariant is about the counter's value after the loop's increment,  *)
(* (idx + 1) % 256, which is never more than the number of notes written.  *)
(***************************************************************************)

\* The first n notes of the recording are written.
Written(n) == n <= Size /\ \A k \in 1..n : played_notes[k] # UNDEF

RecordingInv ==
    /\ pc[Music] \in {"get_frequency", "next_note", "relock", "score"} =>
          DOMAIN played_notes = 1..Size
    /\ pc[Music] = "get_frequency" => idx < Size /\ Written(idx)
    /\ pc[Music] = "next_note" => Written((idx + 1) % 256)
    /\ pc[Music] \in {"relock", "score"} => Written(Size)

\* The length of the chosen melody fits the loop's counter.
LEMMA SizeType == ASSUME chosen_song \in Song PROVE Size \in 1..255
  BY SongAssumption DEF Size

\* The loop's counter inside the loop.
LEMMA CounterBelow ==
    ASSUME NEW i \in 0..255, NEW n \in 1..255, i < n
    PROVE  i \in 0..254 /\ i + 1 <= n
OBVIOUS

\* Stepping the counter back and then on again leaves it where it was, at 0
\* too; stepping it on does not wrap inside the loop.
LEMMA CounterBack ==
    ASSUME NEW i \in 0..254
    PROVE  (((i - 1) % 256) + 1) % 256 = i
OBVIOUS

LEMMA CounterOn ==
    ASSUME NEW i \in 0..254
    PROVE  (i + 1) % 256 = i + 1
OBVIOUS

\* The elements up to the one the counter stands at are in the recording.
LEMMA NextElement ==
    ASSUME NEW i \in 0..254, NEW n \in 1..255, i + 1 <= n
    PROVE  /\ \A k \in 1..(i + 1) : k \in 1..n /\ (k # i + 1 => k \in 1..i)
           /\ i + 1 \in 1..n
OBVIOUS

\* Only musicThd's own steps, and its creation, touch what RecordingInv is
\* about.
LEMMA OthersLeaveRecording ==
    ASSUME TypeOK, GameStep \/ MicStep \/ LightStep \/ Environment
    PROVE  /\ pc'[Music] \in {pc[Music], "start"}
           /\ UNCHANGED <<chosen_song, idx, played_notes>>
<1> USE ThreadsAssumption DEF TypeOK, ThreadType, musicVars
<1>1. CASE GameStep
  <2>1. CASE GameMusicInit
    BY <2>1 DEF GameMusicInit, Created, FirstPc
  <2>2. CASE GameFinished
    BY <2>2 DEF GameFinished, GameAdvance, Sleep, Continue
  <2>3. CASE GameMusicStop \/ GameNextPlayer \/ GameGetScore \/ GameAwaitScore
    BY <2>3 DEF GameMusicStop, GameNextPlayer, GameGetScore, GameAwaitScore,
                Receive, AwaitMessage, Sleep, Continue
  <2>4. CASE GameIdle \/ GameStart \/ GamePlayerStart \/ GameListen
             \/ GameGotoWinner \/ GameSendPhoto
    BY <2>4 DEF GameIdle, GameStart, GamePlayerStart, GameListen,
                GameGotoWinner, GameSendPhoto, gameVars, Say, Continue
  <2> QED BY <1>1, <2>1, <2>2, <2>3, <2>4 DEF GameStep
<1>2. CASE MicStep
  <2>1. CASE MicUnlock
    BY <2>1 DEF MicUnlock, Unlock, Halt, Continue
  <2>2. CASE MicHear
    BY <2>2 DEF MicHear, MicSendFreq, Send, Continue
  <2>3. CASE MicWhile \/ MicWait2 \/ MicTest \/ MicTryLock \/ MicSent
             \/ \E edge \in BOOLEAN : MicIgnore(edge)
    BY <2>3 DEF MicWhile, MicWait2, MicTest, MicTryLock, MicSent, MicIgnore,
                MicWaitBuffer, Goto, Continue
  <2> QED BY <1>2, <2>1, <2>2, <2>3 DEF MicStep
<1>3. CASE LightStep
  BY <1>3 DEF LightStep, LightWhile, LightColour, Goto, Continue
<1>4. CASE Environment
  BY <1>4 DEF Environment, GameGetChar, GameAtWinner, GamePhotoSent, GameAdvance,
              ConsoleRelease, MicDma, Tick, Sleep, Continue
<1> QED BY <1>1, <1>2, <1>3, <1>4

\* The steps of musicThd preserve the invariant.
LEMMA MusicKeepsRecording == TypeOK /\ RecordingInv /\ MusicStep => RecordingInv'
<1> SUFFICES ASSUME TypeOK, RecordingInv, MusicStep PROVE RecordingInv'
  OBVIOUS
<1> USE ThreadsAssumption DEF TypeOK, ThreadType, musicVars
<1>1. CASE MusicUnlock
  <2>1. CASE ~MayUnlock(Music)
    BY <1>1, <2>1 DEF MusicUnlock, Halt, RecordingInv, Written, Size
  <2>2. CASE MayUnlock(Music)
    <3>1. /\ Unlock(Music, "get_frequency") /\ idx' = 0
          /\ chosen_song' = chosen_song
          /\ played_notes' = [k \in 1..Size |-> UNDEF]
      BY <1>1, <2>2 DEF MusicUnlock
    <3>2. pc'[Music] = "get_frequency"
      BY <3>1 DEF Unlock, Continue
    <3>3. chosen_song \in Song
      BY <1>1 DEF MusicUnlock, At, MusicType
    <3>4. Size' = Size /\ Size \in 1..255
      BY <3>1, <3>3, SizeType DEF Size
    <3>5. DOMAIN played_notes' = 1..Size
      BY <3>1
    <3>6. idx' < Size' /\ Written(idx)'
      BY <3>1, <3>4 DEF Written
    <3> QED BY <3>2, <3>4, <3>5, <3>6 DEF RecordingInv
  <2> QED BY <2>1, <2>2
<1>2. CASE MusicGotFrequency
  <2> DEFINE note == freq_to_note(Received(Music))
  <2>1. /\ pc[Music] = "get_frequency" /\ pc'[Music] = "next_note"
        /\ chosen_song' = chosen_song
        /\ played_notes' = IF note # NONE
                           THEN [played_notes EXCEPT ![idx + 1] = note]
                           ELSE played_notes
        /\ idx' = IF note # NONE THEN idx ELSE (idx - 1) % 256
    BY <1>2 DEF MusicGotFrequency, At, Continue
  <2>2. chosen_song \in Song /\ idx \in 0..255
    BY <2>1 DEF MusicType
  <2>3. Size' = Size /\ Size \in 1..255
    BY <2>1, <2>2, SizeType DEF Size
  <2>4. idx < Size /\ Written(idx) /\ DOMAIN played_notes = 1..Size
    BY <2>1 DEF RecordingInv
  <2>5. idx \in 0..254 /\ idx + 1 <= Size
    BY <2>2, <2>3, <2>4, CounterBelow
  <2>6. note \in Note \cup {NONE}
    BY NoteType
  <2> HIDE DEF note
  <2>7. CASE note = NONE
    <3>1. idx' = (idx - 1) % 256 /\ played_notes' = played_notes
      BY <2>1, <2>7
    <3>2. (idx' + 1) % 256 = idx
      BY <2>5, <3>1, CounterBack
    <3>3. Written((idx + 1) % 256)'
      BY <2>1, <2>3, <2>4, <2>5, <2>7, <3>2 DEF Written
    <3> QED BY <2>1, <2>3, <2>4, <2>5, <2>7, <3>3 DEF RecordingInv
  <2>8. CASE note # NONE
    <3>1. idx' = idx
      BY <2>1, <2>8
    <3>2. (idx' + 1) % 256 = idx + 1
      BY <2>5, <3>1, CounterOn
    <3>3. note # UNDEF
      BY <2>6, <2>8 DEF Note, NONE, UNDEF
    <3>4. played_notes' = [played_notes EXCEPT ![idx + 1] = note]
      BY <2>1, <2>8
    <3>5. ASSUME NEW k \in 1..(idx + 1) PROVE played_notes'[k] # UNDEF
      <4>1. k \in DOMAIN played_notes
        BY <2>3, <2>4, <2>5, NextElement
      <4>2. played_notes'[k] = IF k = idx + 1 THEN note ELSE played_notes[k]
        BY <3>4, <4>1
      <4>3. k # idx + 1 => k \in 1..idx
        BY <2>3, <2>5, NextElement
      <4> QED BY <2>4, <3>3, <4>2, <4>3 DEF Written
    <3>6. Written((idx + 1) % 256)'
      BY <2>3, <2>5, <3>2, <3>5 DEF Written
    <3> QED BY <2>1, <2>3, <2>4, <2>5, <3>4, <3>6 DEF RecordingInv
  <2> QED BY <2>7, <2>8
<1>3. CASE MusicNextNote
  <2>1. /\ pc[Music] = "next_note" /\ chosen_song' = chosen_song
        /\ idx' = (idx + 1) % 256 /\ played_notes' = played_notes
        /\ pc'[Music] = IF idx' < Size THEN "get_frequency" ELSE "relock"
    BY <1>3 DEF MusicNextNote, At, Goto, Continue
  <2>2. chosen_song \in Song /\ idx \in 0..255
    BY <2>1 DEF MusicType
  <2>3. Size' = Size /\ Size \in 1..255
    BY <2>1, <2>2, SizeType DEF Size
  <2>4. idx' \in 0..255
    BY <2>1, <2>2
  <2>5. Written(idx') /\ DOMAIN played_notes = 1..Size
    BY <2>1 DEF RecordingInv
  <2>6. CASE idx' < Size
    <3>1. Written(idx)'
      BY <2>1, <2>3, <2>5 DEF Written
    <3> QED BY <2>1, <2>3, <2>5, <2>6, <3>1 DEF RecordingInv
  <2>7. CASE ~(idx' < Size)
    <3>1. idx' = Size
      BY <2>3, <2>4, <2>5, <2>7 DEF Written
    <3>2. Written(Size)'
      BY <2>1, <2>3, <2>5, <3>1 DEF Written
    <3> QED BY <2>1, <2>3, <2>5, <2>7, <3>2 DEF RecordingInv
  <2> QED BY <2>6, <2>7
<1>4. CASE MusicAwaitFrequency \/ MusicRelock \/ MusicLockStart
  BY <1>4 DEF MusicAwaitFrequency, MusicRelock, MusicLockStart, MusicLock,
              AwaitMessage, At, Continue, RecordingInv, Written, Size
<1>5. CASE MusicChoose \/ MusicWhile \/ MusicSuspend \/ MusicScore \/ MusicSleep
  <2>1. CASE Halt
    BY <2>1 DEF Halt, RecordingInv, Written, Size
  <2>2. CASE ~Halt
    BY <1>5, <2>2 DEF MusicChoose, MusicWhile, MusicSuspend, MusicScore, MusicSleep,
                Say, Goto, Send, Sleep, Continue, RecordingInv, Written, Size
  <2> QED BY <2>1, <2>2
<1> QED BY <1>1, <1>2, <1>3, <1>4, <1>5 DEF MusicStep

\* The score of a turn is computed from notes of that turn only: whatever the
\* songs, the frequencies and the interleaving, no element of the recording
\* is uninitialised when calculate_score reads it.
THEOREM RecordingIsComplete == Spec => []RecordingComplete
<1>1. Init => RecordingInv
  BY ThreadsAssumption DEF Init, RecordingInv
<1>2. TypeOK /\ RecordingInv /\ [Next]_vars => RecordingInv'
  <2> SUFFICES ASSUME TypeOK, RecordingInv, [Next]_vars PROVE RecordingInv'
    OBVIOUS
  <2>1. CASE MusicStep
    BY <2>1, MusicKeepsRecording
  <2>2. CASE GameStep \/ MicStep \/ LightStep \/ Environment
    BY <2>2, OthersLeaveRecording DEF RecordingInv, Written, Size
  <2>3. CASE UNCHANGED vars
    BY <2>3 DEF vars, musicVars, RecordingInv, Written, Size
  <2> QED BY <2>1, <2>2, <2>3 DEF Next
<1>3. RecordingInv => RecordingComplete
  BY DEF RecordingInv, RecordingComplete, Written
<1> QED BY <1>1, <1>2, <1>3, TypeCorrect, PTL DEF Spec

-----------------------------------------------------------------------------
(***************************************************************************)
(* MusicGame implements Turns.  Only gameThd's steps change what Turns     *)
(* sees, so the proof needs of the other threads no more than who sends to *)
(* the game and what.                                                      *)
(***************************************************************************)

InTurns == {"init", "player_start", "listen", "get_score", "next"}

\* Only musicThd sends to the game, and only percentages; the game waits at
\* each point in the part of the game it belongs to.
TurnsInv ==
    /\ \A k \in DOMAIN msgqueue[Game] : msgqueue[Game][k] = Music
    /\ p_msg[Music] \in -100..100
    /\ pc[Game] \in InTurns => gstate = "START_GAME"
    /\ pc[Game] = "get_char" => gstate = "IDLE"
    /\ pc[Game] = "wait_path" => gstate = "GOTO_WINNER" /\ T!Wins(target)
    /\ pc[Game] = "wait_photo" => gstate = "SEND_PHOTO"

\* What Tail leaves of a queue was in it.
LEMMA TailElements ==
    ASSUME NEW S, NEW q \in Seq(S), q # << >>, NEW e, \A k \in DOMAIN q : q[k] = e
    PROVE  Head(q) = e /\ \A k \in DOMAIN Tail(q) : Tail(q)[k] = e
<1>1. 1 \in DOMAIN q
  OBVIOUS
<1>2. \A k \in DOMAIN Tail(q) : Tail(q)[k] = q[k + 1] /\ k + 1 \in DOMAIN q
  OBVIOUS
<1> QED BY <1>1, <1>2

\* The steps of the other threads, of the console, of the DMA and of the
\* clock leave the game's loop where it is, and what they send to it is a
\* percentage from musicThd.
LEMMA OthersLeaveTurns ==
    ASSUME TypeOK, TurnsInv,
           \/ MusicStep \/ MicStep \/ LightStep \/ MicDma \/ Tick
           \/ \E t \in Thread : ConsoleRelease(t)
    PROVE  /\ TurnsInv'
           /\ UNCHANGED <<gstate, TurnsDone, score, target>>
<1> USE ThreadsAssumption DEF TypeOK, ThreadType, gameVars
<1> DEFINE Queue == \A k \in DOMAIN msgqueue[Game] : msgqueue[Game][k] = Music
<1>1. /\ pc'[Game] = pc[Game] /\ UNCHANGED gameVars
      /\ p_msg'[Music] \in -100..100 /\ Queue'
  <2> HIDE DEF Queue
  <2>1. CASE MusicScore
    <3>1. chosen_song \in Song
      BY <2>1 DEF MusicScore, At, MusicType
    <3>2. PICK points \in -100..100 : Send(Music, Game, points, "sleep")
      BY <2>1, <3>1, ScoreType, SongAssumption DEF MusicScore
    <3>3. p_msg'[Music] \in -100..100
      BY <3>2 DEF Send, MessageType
    <3>4. Queue'
      <4>1. msgqueue'[Game] = Append(msgqueue[Game], Music)
        BY <3>2 DEF Send, MessageType
      <4>2. msgqueue[Game] \in Seq(Thread)
        BY DEF MessageType
      <4> QED BY <4>1, <4>2 DEF TurnsInv, Queue
    <3> QED BY <2>1, <3>2, <3>3, <3>4 DEF MusicScore, Send, Continue
  <2>2. CASE MusicLockStart \/ MusicRelock \/ MusicChoose \/ MusicWhile \/ MusicSleep
    BY <2>2 DEF MusicLockStart, MusicRelock, MusicLock, MusicChoose, MusicWhile,
                MusicSleep, Say, Goto, Sleep, At, Continue, TurnsInv, Queue
  <2>3. CASE MusicSuspend \/ MusicUnlock \/ MicUnlock
    BY <2>3 DEF MusicSuspend, MusicUnlock, MicUnlock, Unlock, Halt, kernel,
                Continue, TurnsInv, Queue
  <2>4. CASE MusicAwaitFrequency \/ MusicNextNote
    BY <2>4 DEF MusicAwaitFrequency, MusicNextNote, AwaitMessage, Goto, Continue,
                TurnsInv, Queue
  <2>5. CASE MusicGotFrequency
    BY <2>5 DEF MusicGotFrequency, At, Continue, MessageType, TurnsInv, Queue
  <2>6. CASE MicHear
    BY <2>6 DEF MicHear, MicSendFreq, Send, Continue, MessageType, TurnsInv, Queue
  <2>7. CASE MicWhile \/ MicWait2 \/ MicTest \/ MicTryLock \/ MicSent
             \/ \E edge \in BOOLEAN : MicIgnore(edge)
    BY <2>7 DEF MicWhile, MicWait2, MicTest, MicTryLock, MicSent, MicIgnore,
                MicWaitBuffer, Goto, Continue, TurnsInv, Queue
  <2>8. CASE LightStep
    BY <2>8 DEF LightStep, LightWhile, LightColour, Goto, Continue, TurnsInv, Queue
  <2>9. CASE MicDma \/ Tick \/ \E t \in Thread : ConsoleRelease(t)
    BY <2>9 DEF MicDma, Tick, ConsoleRelease, TurnsInv, Queue
  <2> QED BY <2>1, <2>2, <2>3, <2>4, <2>5, <2>6, <2>7, <2>8, <2>9
          DEF MusicStep, MicStep
<1> QED BY <1>1 DEF TurnsInv, TurnsDone, T!Wins, T!Player

\* The steps that leave the part of the game and the scores alone.
LEMMA GameWaits ==
    ASSUME TypeOK, TurnsInv,
           GameIdle \/ GameStart \/ GameMusicInit \/ GamePlayerStart
           \/ GameListen \/ GameAwaitScore \/ GameNextPlayer \/ GameSendPhoto
    PROVE  TurnsInv' /\ UNCHANGED <<gstate, TurnsDone, score, target>>
<1> USE ThreadsAssumption DEF TypeOK, ThreadType, gameVars, TurnsInv, TurnsDone, InTurns
<1>1. CASE GameIdle \/ GameStart \/ GamePlayerStart \/ GameListen \/ GameSendPhoto
  BY <1>1 DEF GameIdle, GameStart, GamePlayerStart, GameListen, GameSendPhoto,
              At, Say, Continue
<1>2. CASE GameAwaitScore
  BY <1>2 DEF GameAwaitScore, AwaitMessage, At, Continue
<1>3. CASE GameNextPlayer
  BY <1>3 DEF GameNextPlayer, Sleep, At, Continue, GameType
<1>4. CASE GameMusicInit
  BY <1>4 DEF GameMusicInit, Created, At
<1> QED BY <1>1, <1>2, <1>3, <1>4

\* A score arrives.
LEMMA GameGetsScore ==
    TypeOK /\ TurnsInv /\ GameGetScore => TurnsInv' /\ T!Turn
<1> SUFFICES ASSUME TypeOK, TurnsInv, GameGetScore PROVE TurnsInv' /\ T!Turn
  OBVIOUS
<1> USE ThreadsAssumption DEF TypeOK, ThreadType
<1>1. /\ pc[Game] = "get_score" /\ pc'[Game] = "next"
      /\ msgqueue[Game] # << >> /\ msgqueue'[Game] = Tail(msgqueue[Game])
      /\ score' = [score EXCEPT ![player] = p_msg[Head(msgqueue[Game])]]
      /\ UNCHANGED <<gstate, player, target, p_msg>>
  BY DEF GameGetScore, At, Receive, Received, Continue, MessageType
<1>2. /\ Head(msgqueue[Game]) = Music
      /\ \A k \in DOMAIN msgqueue'[Game] : msgqueue'[Game][k] = Music
  BY <1>1, TailElements DEF MessageType, TurnsInv
<1>3. TurnsInv'
  BY <1>1, <1>2 DEF TurnsInv, InTurns
<1>4. T!Turn
  <2>1. gstate = "START_GAME" /\ gstate' = "START_GAME"
    BY <1>1 DEF TurnsInv, InTurns
  <2>2. TurnsDone = player /\ TurnsDone' = player + 1
    BY <1>1, <2>1 DEF TurnsDone
  <2>3. player < NumPlayers
    BY DEF GameType, Player, NumPlayers
  <2>4. p_msg[Music] \in T!Score
    BY DEF TurnsInv, T!Score
  <2>5. score' = [score EXCEPT ![TurnsDone] = p_msg[Music]]
    BY <1>1, <1>2, <2>2
  <2> QED BY <1>1, <2>1, <2>2, <2>3, <2>4, <2>5 DEF T!Turn
<1> QED BY <1>3, <1>4

\* The game leaves the loop over the players, sets out, arrives, sends the
\* photo and ends.
LEMMA GameGoesOn ==
    ASSUME TypeOK, TurnsInv,
           \/ GameMusicStop \/ GameGotoWinner \/ GameAtWinner \/ GamePhotoSent
           \/ GameFinished \/ \E w \in BOOLEAN : GameGetChar(w)
    PROVE  /\ TurnsInv'
           /\ T!Next \/ UNCHANGED <<gstate, TurnsDone, score, target>>
<1> USE ThreadsAssumption DEF TypeOK, ThreadType
<1>1. CASE GameMusicStop
  <2>1. TurnsInv'
    BY <1>1 DEF GameMusicStop, At, Continue, TurnsInv, InTurns
  <2>2. T!TurnsOver
    BY <1>1 DEF GameMusicStop, At, Continue, TurnsInv, InTurns, TurnsDone, T!TurnsOver
  <2> QED BY <2>1, <2>2 DEF T!Next
<1>2. CASE GameGotoWinner
  <2>1. T!Wins(target')
    BY <1>2 DEF GameGotoWinner, T!Wins, T!Player, NumPlayers, GameType, Player
  <2>2. TurnsInv'
    BY <1>2, <2>1 DEF GameGotoWinner, At, Continue, TurnsInv, InTurns, T!Wins, T!Player
  <2>3. T!SetOut
    BY <1>2, <2>1 DEF GameGotoWinner, At, Continue, TurnsDone, T!SetOut, T!Wins
  <2> QED BY <2>2, <2>3 DEF T!Next
<1>3. CASE GameAtWinner
  <2>1. TurnsInv'
    BY <1>3 DEF GameAtWinner, GameAdvance, Sleep, Continue, TurnsInv, InTurns
  <2>2. T!Arrive
    BY <1>3 DEF GameAtWinner, GameAdvance, Sleep, Continue, TurnsInv, TurnsDone, T!Arrive
  <2> QED BY <2>1, <2>2 DEF T!Next
<1>4. CASE GamePhotoSent
  <2>1. TurnsInv'
    BY <1>4 DEF GamePhotoSent, GameAdvance, Sleep, Continue, TurnsInv, InTurns
  <2>2. T!TakePhoto
    BY <1>4 DEF GamePhotoSent, GameAdvance, Sleep, Continue, TurnsDone, T!TakePhoto
  <2> QED BY <2>1, <2>2 DEF T!Next
<1>5. CASE GameFinished
  <2>1. TurnsInv'
    BY <1>5 DEF GameFinished, GameAdvance, Sleep, Continue, TurnsInv, InTurns
  <2>2. T!End
    BY <1>5 DEF GameFinished, GameAdvance, Sleep, Continue, TurnsDone, T!End
  <2> QED BY <2>1, <2>2 DEF T!Next
<1>6. ASSUME NEW w \in BOOLEAN, GameGetChar(w)
      PROVE  TurnsInv' /\ (T!Next \/ UNCHANGED <<gstate, TurnsDone, score, target>>)
  <2>1. TurnsInv'
    <3>1. pc'[Game] = "switch" /\ UNCHANGED <<msgqueue, p_msg>>
      BY <1>6 DEF GameGetChar, Sleep, Continue
    <3> QED BY <3>1 DEF TurnsInv, InTurns
  <2>2. CASE w
    BY <1>6, <2>1, <2>2 DEF GameGetChar, Sleep, Continue, TurnsInv, TurnsDone, T!Start, T!Next
  <2>3. CASE ~w
    BY <1>6, <2>1, <2>3 DEF GameGetChar, Sleep, Continue, TurnsInv, TurnsDone
  <2> QED BY <2>1, <2>2, <2>3
<1> QED BY <1>1, <1>2, <1>3, <1>4, <1>5, <1>6

\* The implementation: initial states map to initial states and every step
\* of the four threads to a step of Turns or to none.
THEOREM MusicGameImplementsTurns == Spec => ImplementsTurns
<1>1. Init => TurnsInv /\ T!Init
  BY ThreadsAssumption
  DEF Init, TurnsInv, InTurns, TurnsDone, T!Init, T!Player, Player, NumPlayers, UNDEF
<1>2. TypeOK /\ TurnsInv /\ [Next]_vars => TurnsInv' /\ [T!Next]_T!turnsVars
  <2> SUFFICES ASSUME TypeOK, TurnsInv, [Next]_vars
               PROVE  TurnsInv' /\ [T!Next]_T!turnsVars
    OBVIOUS
  <2>1. CASE \/ MusicStep \/ MicStep \/ LightStep \/ MicDma \/ Tick
             \/ \E t \in Thread : ConsoleRelease(t)
    BY <2>1, OthersLeaveTurns DEF T!turnsVars
  <2>2. CASE GameIdle \/ GameStart \/ GameMusicInit \/ GamePlayerStart
             \/ GameListen \/ GameAwaitScore \/ GameNextPlayer \/ GameSendPhoto
    BY <2>2, GameWaits DEF T!turnsVars
  <2>3. CASE GameGetScore
    BY <2>3, GameGetsScore DEF T!Next
  <2>4. CASE \/ GameMusicStop \/ GameGotoWinner \/ GameAtWinner \/ GamePhotoSent
             \/ GameFinished \/ \E w \in BOOLEAN : GameGetChar(w)
    BY <2>4, GameGoesOn DEF T!turnsVars
  <2>5. CASE UNCHANGED vars
    BY <2>5 DEF vars, kernel, gameVars, TurnsInv, TurnsDone, T!turnsVars, T!Wins, T!Player
  <2> QED BY <2>1, <2>2, <2>3, <2>4, <2>5 DEF Next, GameStep, Environment
<1> QED BY <1>1, <1>2, TypeCorrect, PTL DEF Spec, ImplementsTurns, T!Spec

=============================================================================
