-------------------------- MODULE SoundFile_proofs --------------------------
(***************************************************************************)
(* Proofs about SoundFile, for blocks of any even size, songs of any       *)
(* length, any number of songs, and a card that is taken out at any time.  *)
(***************************************************************************)
EXTENDS SoundFile, TLAPS

\* The tuples of variables that most steps leave alone.
USE DEF sound, rest

\* The semaphore calls return semaphores.
LEMMA SemTypes ==
    ASSUME NEW s \in Semaphore, NEW t \in Thread
    PROVE  /\ SemWait(s, t) \in Semaphore
           /\ BSemSignal(s) \in Semaphore
BY DEF Semaphore, SemWait, SemBlocks, BSemSignal, SemSignal, SemWakes

\* The two threads are different.
LEMMA Threads == Game \in Thread /\ Player \in Thread /\ Game # Player
BY PlayerThreadsAssumption

\* A song has some number of samples.
LEMMA Songs == FileLength \subseteq Nat
BY ONLY SoundAssumption DEF SoundAssumption

\* What a step of a thread does to the states and places of both.
LEMMA GameMoves ==
    ASSUME TypeOK, NEW s, NEW l, NEW T, Continue(Game, s, l, T)
    PROVE  /\ state'[Game] = s /\ pc'[Game] = l /\ pc'[Player] = pc[Player]
           /\ state'[Player] = IF Player \in T THEN "READY" ELSE state[Player]
BY Threads DEF TypeOK, Continue, Ready

LEMMA PlayerMoves ==
    ASSUME TypeOK, NEW s, NEW l, NEW T, Continue(Player, s, l, T)
    PROVE  /\ state'[Player] = s /\ pc'[Player] = l /\ pc'[Game] = pc[Game]
           /\ state'[Game] = IF Game \in T THEN "READY" ELSE state[Game]
BY Threads DEF TypeOK, Continue, Ready

\* The types of states and places after a step.
ThreadsOK ==
    /\ state \in [Thread -> TState]
    /\ pc \in [Thread -> GamePc \cup PlayerPc]
    /\ pc[Game] \in GamePc /\ pc[Player] \in PlayerPc

LEMMA GameContinues ==
    ASSUME TypeOK, NEW s \in TState, NEW l \in GamePc, NEW T,
           Continue(Game, s, l, T)
    PROVE  ThreadsOK'
BY Threads DEF TypeOK, ThreadsOK, Continue, Ready, TState, ThreadState

LEMMA PlayerContinues ==
    ASSUME TypeOK, NEW s \in TState, NEW l \in PlayerPc, NEW T,
           Continue(Player, s, l, T)
    PROVE  ThreadsOK'
BY Threads DEF TypeOK, ThreadsOK, Continue, Ready, TState, ThreadState

LEMMA ReadyType ==
    ASSUME TypeOK, NEW T, state' = Ready(state, T), pc' = pc
    PROVE  ThreadsOK'
BY DEF TypeOK, ThreadsOK, Ready, TState, ThreadState

-----------------------------------------------------------------------------
(***************************************************************************)
(* Type correctness.                                                       *)
(***************************************************************************)
LEMMA InitType == Init => TypeOK
<1> SUFFICES ASSUME Init PROVE TypeOK
  OBVIOUS
<1>1. /\ state \in [Thread -> TState]
      /\ pc \in [Thread -> GamePc \cup PlayerPc]
      /\ pc[Game] \in GamePc /\ pc[Player] \in PlayerPc
  BY Threads DEF Init, TState, ThreadState, GamePc, PlayerPc
<1>2. change_buffer \in Semaphore
  BY DEF Init, SemInit, Semaphore
<1>3. /\ size_buffer_to_read \in 0..BLOCK /\ depth \in 0..BLOCK
      /\ songs \in 0..MaxSongs /\ unread \in Nat /\ blocks \in Nat
  BY SoundAssumption DEF Init
<1>4. /\ buffer_to_read \in Buffer /\ buffer_to_fill \in Buffer
      /\ dac_buffer \in Buffer /\ content \in [Buffer -> Nat]
  BY DEF Init, Buffer, NOISE
<1>5. /\ play \in BOOLEAN /\ first_time \in BOOLEAN /\ cardOk \in BOOLEAN
      /\ halted \in BOOLEAN
  BY DEF Init
<1>6. played \in Seq(Nat)
  BY DEF Init
<1> QED BY <1>1, <1>2, <1>3, <1>4, <1>5, <1>6 DEF Init, TypeOK

\* What the DAC gets has its type.
LEMMA DacPlaysType ==
    ASSUME TypeOK, NEW b \in Buffer, NEW n \in 0..BLOCK, DacPlays(b, n)
    PROVE  /\ dac' \in {"STOPPED", "PLAYING"} /\ dac_buffer' \in Buffer
           /\ depth' \in 0..BLOCK /\ played' \in Seq(Nat)
<1>1. content[b] \in Nat /\ played \in Seq(Nat)
  BY DEF TypeOK
<1>2. Append(played, content[b]) \in Seq(Nat)
  BY <1>1
<1> QED BY <1>1, <1>2 DEF DacPlays

\* Every step of gameThd keeps the types.
LEMMA GameType == TypeOK /\ GameStep => TypeOK'
<1> SUFFICES ASSUME TypeOK, GameStep PROVE TypeOK'
  OBVIOUS
<1> USE DEF control, exchange, filling, dacVars
<1>1. ThreadsOK'
  <2>1. CASE GamePlayerStart
    BY <2>1, Threads DEF GamePlayerStart, TypeOK, ThreadsOK, TState, ThreadState,
                         GamePc, PlayerPc
  <2>2. CASE GameDacStart \/ GameNoCard \/ GameForceChange
    BY <2>2, GameContinues DEF GameDacStart, GameNoCard, GameForceChange, TState,
                               ThreadState, GamePc
  <2>3. CASE GameResume \/ GameStopSong \/ GameDacStop
    BY <2>3, GameContinues DEF GameResume, GameStopSong, GameDacStop, TState,
                               ThreadState, GamePc
  <2> QED BY <2>1, <2>2, <2>3 DEF GameStep
<1>2. CASE GameDacStart
  <2>1. songs' \in 0..MaxSongs
    BY <1>2, SoundAssumption DEF GameDacStart, TypeOK
  <2> QED BY <1>1, <1>2, <2>1 DEF GameDacStart, dac_stop, TypeOK, ThreadsOK
<1>3. CASE GamePlayerStart
  BY <1>1, <1>3 DEF GamePlayerStart, TypeOK, ThreadsOK
<1>4. CASE GameNoCard \/ GameForceChange
  BY <1>1, <1>4 DEF GameNoCard, GameForceChange, TypeOK, ThreadsOK
<1>5. CASE GameResume \/ GameStopSong
  BY <1>1, <1>5 DEF GameResume, GameStopSong, TypeOK, ThreadsOK
<1>6. CASE GameDacStop
  BY <1>1, <1>6 DEF GameDacStop, dac_stop, TypeOK, ThreadsOK
<1> QED BY <1>2, <1>3, <1>4, <1>5, <1>6 DEF GameStep

\* Every step of the player's thread keeps the types.
LEMMA PlayerType == TypeOK /\ PlayerStep => TypeOK'
<1> SUFFICES ASSUME TypeOK, PlayerStep PROVE TypeOK'
  OBVIOUS
<1> USE DEF control, exchange, filling, dacVars
<1>0. CASE Halt
  BY <1>0 DEF Halt, TypeOK
<1>1. ASSUME ~Halt PROVE ThreadsOK'
  <2> USE PlayerContinues, <1>1 DEF TState, ThreadState, PlayerPc
  <2>1. CASE PlayerSuspend \/ PlayerOpen
    BY <2>1 DEF PlayerSuspend, PlayerOpen
  <2>2. CASE PlayerTest
    BY <2>2 DEF PlayerTest
  <2>3. CASE PlayerRead \/ PlayerReadFails \/ PlayerConvert
    BY <2>3 DEF PlayerRead, PlayerReadFails, PlayerConvert
  <2>4. CASE PlayerFirstBlock
    BY <2>4 DEF PlayerFirstBlock
  <2>5. CASE PlayerNextBlock
    BY <2>5 DEF PlayerNextBlock
  <2>6. CASE PlayerSwap
    BY <2>6 DEF PlayerSwap, MoreToRead
  <2>7. CASE PlayerFinish \/ PlayerBroadcast
    BY <2>7 DEF PlayerFinish, PlayerBroadcast
  <2> QED BY <2>1, <2>2, <2>3, <2>4, <2>5, <2>6, <2>7 DEF PlayerStep
<1>2. CASE ~Halt /\ PlayerSuspend
  <2>1. play_sound_file_ref' = Player
    BY <1>2 DEF PlayerSuspend
  <2> QED BY <1>1, <1>2, <2>1 DEF PlayerSuspend, TypeOK, ThreadsOK
<1>3. CASE ~Halt /\ PlayerOpen
  <2>1. buffer_to_read' \in Buffer /\ buffer_to_fill' \in Buffer
    BY <1>3 DEF PlayerOpen, TypeOK, Buffer
  <2>2. unread' \in Nat /\ blocks' \in Nat /\ first_time' \in BOOLEAN
    <3>1. unread' \in FileLength \/ unread' = unread
      BY <1>3 DEF PlayerOpen
    <3>2. unread' \in Nat
      BY <3>1, Songs DEF TypeOK
    <3>3. blocks' \in Nat
      BY <1>3 DEF PlayerOpen, TypeOK
    <3>4. first_time' \in BOOLEAN
      BY <1>3 DEF PlayerOpen, TypeOK
    <3> QED BY <3>2, <3>3, <3>4
  <2>3. content' \in [Buffer -> Nat]
    BY <1>3 DEF PlayerOpen, TypeOK, NOISE
  <2>4. played' \in Seq(Nat)
    <3>1. << >> \in Seq(Nat)
      OBVIOUS
    <3> QED BY <1>3, <3>1 DEF PlayerOpen, TypeOK
  <2> QED BY <1>1, <1>3, <2>1, <2>2, <2>3, <2>4 DEF PlayerOpen, TypeOK, ThreadsOK
<1>4. CASE ~Halt /\ PlayerTest
  <2>1. content' \in [Buffer -> Nat]
    BY <1>4 DEF PlayerTest, TypeOK, NOISE
  <2>2. /\ dac' \in {"STOPPED", "PLAYING"}
        /\ UNCHANGED <<dac_buffer, depth>>
    BY <1>4 DEF PlayerTest, dac_stop, TypeOK
  <2> QED BY <1>1, <1>4, <2>1, <2>2 DEF PlayerTest, TypeOK, ThreadsOK
<1>5. CASE ~Halt /\ PlayerRead
  <2>1. size_buffer_to_read' \in 0..BLOCK /\ unread' \in Nat
    <3>1. unread \in Nat /\ BLOCK \in Nat
      BY SoundAssumption DEF TypeOK
    <3> QED BY <1>5, <3>1 DEF PlayerRead, Samples
  <2> QED BY <1>1, <1>5, <2>1 DEF PlayerRead, Samples, TypeOK, ThreadsOK
<1>6. CASE ~Halt /\ PlayerReadFails
  BY <1>1, <1>6 DEF PlayerReadFails, TypeOK, ThreadsOK
<1>7. CASE ~Halt /\ PlayerConvert
  <2>1. blocks' \in Nat
    BY <1>7 DEF PlayerConvert, TypeOK
  <2>2. content' \in [Buffer -> Nat]
    BY <1>7, <2>1 DEF PlayerConvert, TypeOK, NOISE
  <2> QED BY <1>1, <1>7, <2>1, <2>2 DEF PlayerConvert, TypeOK, ThreadsOK
<1>8. CASE ~Halt /\ PlayerFirstBlock
  <2>1. /\ dac' \in {"STOPPED", "PLAYING"} /\ dac_buffer' \in Buffer
        /\ depth' \in 0..BLOCK /\ played' \in Seq(Nat)
    BY <1>8, DacPlaysType DEF PlayerFirstBlock, TypeOK
  <2> QED BY <1>1, <1>8, <2>1 DEF PlayerFirstBlock, TypeOK, ThreadsOK
<1>9. CASE ~Halt /\ PlayerNextBlock
  <2>1. change_buffer' \in Semaphore
    BY <1>9, SemTypes, Threads DEF PlayerNextBlock, TypeOK
  <2> QED BY <1>1, <1>9, <2>1 DEF PlayerNextBlock, TypeOK, ThreadsOK
<1>10. CASE ~Halt /\ PlayerSwap
  <2>1. buffer_to_fill' \in Buffer
    BY <1>10 DEF PlayerSwap, TypeOK, Buffer
  <2> QED BY <1>1, <1>10, <2>1 DEF PlayerSwap, TypeOK, ThreadsOK
<1>11. CASE ~Halt /\ (PlayerFinish \/ PlayerBroadcast)
  BY <1>1, <1>11 DEF PlayerFinish, PlayerBroadcast, TypeOK, ThreadsOK
<1> QED BY <1>0, <1>2, <1>3, <1>4, <1>5, <1>6, <1>7, <1>8, <1>9, <1>10, <1>11
        DEF PlayerStep

\* The samples the interrupt hands to the DAC.
LEMMA EvenDepth ==
    ASSUME TypeOK
    PROVE  EvenSamples \in 0..BLOCK
<1>1. size_buffer_to_read \in 0..BLOCK /\ BLOCK \in Nat
  BY SoundAssumption DEF TypeOK
<1>2. ASSUME NEW n \in 0..BLOCK
      PROVE  /\ n - (n % 2) \in 0..BLOCK
             /\ n = 1 => 1 \in 0..BLOCK
  BY <1>1
<1> QED BY <1>1, <1>2 DEF EvenSamples

\* Every interrupt keeps the types.
LEMMA DevicesType == TypeOK /\ Devices => TypeOK'
<1> SUFFICES ASSUME TypeOK, Devices PROVE TypeOK'
  OBVIOUS
<1> USE DEF control, exchange, filling, dacVars
<1>1. CASE EndCb
  <2>1. ThreadsOK'
    BY <1>1, ReadyType DEF EndCb, EndOfBuffer, NextBuffer, NoBuffer,
         TypeOK, ThreadsOK
  <2>2. change_buffer' \in Semaphore
    BY <1>1, SemTypes, Threads DEF EndCb, EndOfBuffer, NextBuffer, NoBuffer,
         TypeOK
  <2>3. buffer_to_read' \in Buffer
    BY <1>1 DEF EndCb, EndOfBuffer, NextBuffer, NoBuffer,
         TypeOK, Buffer
  <2>4. CASE size_buffer_to_read # 0
    <3>1. EvenSamples \in 0..BLOCK
      BY EvenDepth
    <3>2. DacPlays(buffer_to_read', EvenSamples)
      BY <1>1, <2>4 DEF EndCb, EndOfBuffer, NextBuffer, NoBuffer
    <3>3. /\ dac' \in {"STOPPED", "PLAYING"} /\ dac_buffer' \in Buffer
          /\ depth' \in 0..BLOCK /\ played' \in Seq(Nat)
      BY <2>3, <3>1, <3>2, DacPlaysType
    <3>4. size_buffer_to_read' \in 0..BLOCK
      <4>1. size_buffer_to_read' = IF depth' < BLOCK THEN 0 ELSE depth'
        BY <1>1, <2>4 DEF EndCb, EndOfBuffer, NextBuffer, NoBuffer
      <4> QED BY <3>3, <4>1, SoundAssumption
    <3> QED BY <1>1, <2>1, <2>2, <2>3, <3>3, <3>4 DEF EndCb, EndOfBuffer, NextBuffer, NoBuffer,
         TypeOK, ThreadsOK
  <2>5. CASE size_buffer_to_read = 0
    BY <1>1, <2>1, <2>2, <2>3, <2>5 DEF EndCb, EndOfBuffer, NextBuffer, NoBuffer,
         dac_stop, TypeOK, ThreadsOK
  <2> QED BY <2>4, <2>5
<1>2. CASE PlayerWakes \/ GameWakes
  <2>1. ThreadsOK'
    BY <1>2, ReadyType DEF PlayerWakes, GameWakes
  <2> QED BY <1>2, <2>1 DEF PlayerWakes, GameWakes, TypeOK, ThreadsOK
<1>3. CASE CardTaken
  BY <1>3 DEF CardTaken, TypeOK
<1> QED BY <1>1, <1>2, <1>3 DEF Devices

\* No variable ever leaves its type: the file is never read beyond its end, the
\* DAC never gets more than a buffer holds, and the halves stay two
\* (play_sound_file.c:66-93, 135-177).
THEOREM SoundTypeCorrect == Spec => []TypeOK
<1>1. TypeOK /\ [Next]_vars => TypeOK'
  <2>1. TypeOK /\ UNCHANGED vars => TypeOK'
    BY DEF TypeOK, vars, control, exchange, filling, dacVars
  <2> QED BY <2>1, GameType, PlayerType, DevicesType DEF Next
<1> QED BY <1>1, InitType, PTL DEF Spec

-----------------------------------------------------------------------------
(***************************************************************************)
(* Where the threads wait.                                                 *)
(***************************************************************************)

\* The queue of change_buffer holds Player when that waits for it.
SemInv ==
    \/ /\ change_buffer.queue = << >> /\ change_buffer.cnt \in {0, 1}
       /\ state[Player] # "WTSEM"
    \/ /\ change_buffer.queue = <<Player>> /\ change_buffer.cnt = -1
       /\ state[Player] = "WTSEM"

\* The place of Player tells why it waits.
PlayerPlace ==
    \/ state[Player] = "READY" /\ pc[Player] # "exited"
    \/ state[Player] = "WTSTART" /\ pc[Player] = "exited"
    \/ state[Player] = "SUSPENDED" /\ pc[Player] = "open"
    \/ state[Player] = "QUEUED" /\ pc[Player] = "read"
    \/ state[Player] = "WTSEM" /\ pc[Player] = "swap"
    \/ state[Player] = "SLEEPING" /\ pc[Player] = "broadcast"

\* Player has no song.
Idle ==
    \/ pc[Player] = "exited" /\ state[Player] = "WTSTART"
    \/ pc[Player] = "suspend" /\ state[Player] = "READY"
    \/ pc[Player] = "open" /\ state[Player] = "SUSPENDED"

\* Game prepares a song.
Prepares ==
    \/ pc[Game] \in {"start", "play", "resume"}
    \/ pc[Game] = "dac_start" /\ state[Game] = "READY"

PlaceInv ==
    /\ PlayerPlace
    /\ Prepares => Idle
    /\ state[Game] = "WTCOND" => pc[Game] = "resume"
    /\ pc[Player] = "exited" => play_sound_file_ref = NoThread

\* What a signal of the interrupt does.
LEMMA Signalling ==
    ASSUME SemInv, TypeOK
    PROVE  IF state[Player] = "WTSEM"
           THEN /\ BSemSignal(change_buffer) = [cnt |-> 0, queue |-> << >>]
                /\ BSemSignalled(change_buffer) = {Player}
           ELSE /\ BSemSignal(change_buffer).queue = << >>
                /\ BSemSignal(change_buffer).cnt = 1
                /\ BSemSignalled(change_buffer) = {}
<1>1. CASE state[Player] # "WTSEM"
  BY <1>1 DEF SemInv, TypeOK, Semaphore, BSemSignal, BSemSignalled, SemSignal,
              SemSignalled, SemWakes
<1>2. CASE state[Player] = "WTSEM"
  <2>1. change_buffer.queue = <<Player>> /\ change_buffer.cnt = -1
    BY <1>2 DEF SemInv
  <2>2. /\ Head(<<Player>>) = Player /\ Tail(<<Player>>) = << >>
        /\ <<Player>> # << >>
    OBVIOUS
  <2>3. SemWakes(change_buffer)
    BY <2>1, <2>2 DEF SemWakes
  <2>4. BSemSignal(change_buffer) = [cnt |-> 0, queue |-> << >>]
    BY <2>1, <2>2, <2>3 DEF BSemSignal, SemSignal
  <2>5. BSemSignalled(change_buffer) = {Player}
    BY <2>1, <2>2, <2>3 DEF BSemSignalled, SemSignalled
  <2> QED BY <1>2, <2>4, <2>5
<1> QED BY <1>1, <1>2

\* What BSemWait does to Player.
LEMMA Waiting ==
    ASSUME SemInv, TypeOK, state[Player] = "READY"
    PROVE  IF SemBlocks(change_buffer)
           THEN /\ SemWait(change_buffer, Player).queue = <<Player>>
                /\ SemWait(change_buffer, Player).cnt = -1
                /\ change_buffer.cnt = 0
           ELSE /\ SemWait(change_buffer, Player).queue = << >>
                /\ SemWait(change_buffer, Player).cnt = 0
                /\ change_buffer.cnt = 1
<1>1. change_buffer.queue = << >> /\ change_buffer.cnt \in {0, 1}
  BY DEF SemInv
<1>2. Append(<< >>, Player) = <<Player>>
  OBVIOUS
<1> QED BY <1>1, <1>2 DEF SemWait, SemBlocks

\* The actions of Game keep both.
LEMMA GameWaits ==
    TypeOK /\ SemInv /\ PlaceInv /\ GameStep => (SemInv /\ PlaceInv)'
<1> SUFFICES ASSUME TypeOK, SemInv, PlaceInv, GameStep PROVE (SemInv /\ PlaceInv)'
  OBVIOUS
<1> USE Threads DEF control
<1>1. CASE GameDacStart
  <2>1. pc[Game] = "dac_start" /\ state[Game] = "READY"
    BY <1>1 DEF GameDacStart, At, MayRun
  <2>2. /\ state'[Game] = "SLEEPING" /\ pc'[Game] = "start"
        /\ pc'[Player] = pc[Player] /\ state'[Player] = state[Player]
        /\ UNCHANGED <<change_buffer, play_sound_file_ref>>
    BY <1>1, GameMoves DEF GameDacStart
  <2> QED BY <2>1, <2>2 DEF SemInv, PlaceInv, PlayerPlace, Prepares, Idle
<1>2. CASE GamePlayerStart
  <2>1. pc[Game] = "start"
    BY <1>2 DEF GamePlayerStart, At
  <2>2. /\ state'[Game] = "SLEEPING" /\ pc'[Game] = "play"
        /\ pc'[Player] = "suspend" /\ state'[Player] = "READY"
        /\ UNCHANGED <<change_buffer, play_sound_file_ref>>
    BY <1>2 DEF GamePlayerStart, TypeOK
  <2> QED BY <2>1, <2>2 DEF SemInv, PlaceInv, PlayerPlace, Prepares, Idle
<1>3. CASE GameNoCard
  <2>1. /\ state'[Game] = "SLEEPING" /\ pc'[Game] = "stop"
        /\ pc'[Player] = pc[Player] /\ state'[Player] = state[Player]
        /\ UNCHANGED <<change_buffer, play_sound_file_ref>>
    BY <1>3, GameMoves DEF GameNoCard
  <2> QED BY <2>1 DEF SemInv, PlaceInv, PlayerPlace, Prepares, Idle
<1>4. CASE GameForceChange
  <2>1. pc[Game] = "play"
    BY <1>4 DEF GameForceChange, At
  <2>2. /\ pc'[Game] = "resume"
        /\ pc'[Player] = pc[Player] /\ state'[Player] = state[Player]
        /\ UNCHANGED <<change_buffer, play_sound_file_ref>>
    BY <1>4, GameMoves DEF GameForceChange
  <2> QED BY <2>1, <2>2 DEF SemInv, PlaceInv, PlayerPlace, Prepares, Idle
<1>5. CASE GameResume
  <2>1. pc[Game] = "resume" /\ Idle
    BY <1>5 DEF GameResume, At, PlaceInv, Prepares
  <2>2. /\ state'[Game] = "SLEEPING" /\ pc'[Game] = "stop"
        /\ pc'[Player] = pc[Player]
        /\ state'[Player] = IF play_sound_file_ref = Player THEN "READY"
                            ELSE state[Player]
        /\ change_buffer' = change_buffer /\ play_sound_file_ref' = NoThread
    <3>1. Player \in {play_sound_file_ref} \ {NoThread} <=> play_sound_file_ref = Player
      BY NoThreadAssumption
    <3> QED BY <1>5, <3>1, GameMoves DEF GameResume
  <2>3. pc[Player] = "exited" => play_sound_file_ref # Player
    BY NoThreadAssumption DEF PlaceInv
  <2> QED BY <2>1, <2>2, <2>3 DEF SemInv, PlaceInv, PlayerPlace, Prepares, Idle
<1>6. CASE GameStopSong
  <2>1. pc[Game] = "stop"
    BY <1>6 DEF GameStopSong, At
  <2>2. /\ state'[Game] = "READY" /\ pc'[Game] = "dac_stop"
        /\ pc'[Player] = pc[Player] /\ state'[Player] = state[Player]
        /\ UNCHANGED <<change_buffer, play_sound_file_ref>>
    BY <1>6, GameMoves DEF GameStopSong
  <2> QED BY <2>1, <2>2 DEF SemInv, PlaceInv, PlayerPlace, Prepares, Idle
<1>7. CASE GameDacStop
  <2>1. /\ state'[Game] = "SLEEPING" /\ pc'[Game] = "dac_start"
        /\ pc'[Player] = pc[Player] /\ state'[Player] = state[Player]
        /\ UNCHANGED <<change_buffer, play_sound_file_ref>>
    BY <1>7, GameMoves DEF GameDacStop
  <2> QED BY <2>1 DEF SemInv, PlaceInv, PlayerPlace, Prepares, Idle
<1> QED BY <1>1, <1>2, <1>3, <1>4, <1>5, <1>6, <1>7 DEF GameStep

\* The actions of Player keep both.
LEMMA PlayerWaits ==
    TypeOK /\ SemInv /\ PlaceInv /\ PlayerStep => (SemInv /\ PlaceInv)'
<1> SUFFICES ASSUME TypeOK, SemInv, PlaceInv, PlayerStep
             PROVE  (SemInv /\ PlaceInv)'
  OBVIOUS
<1> USE Threads DEF control, exchange, filling, dacVars
<1>1. state[Player] = "READY"
  BY DEF PlayerStep, PlayerSuspend, PlayerOpen, PlayerTest, PlayerRead,
         PlayerReadFails, PlayerConvert, PlayerFirstBlock, PlayerNextBlock,
         PlayerSwap, PlayerFinish, PlayerBroadcast, At, MayRun
<1>2. CASE Halt
  BY <1>2 DEF Halt, SemInv, PlaceInv, PlayerPlace, Prepares, Idle
<1>3. CASE ~Halt /\ PlayerSuspend
  <2>1. /\ state'[Player] = "SUSPENDED" /\ pc'[Player] = "open"
        /\ state'[Game] = state[Game] /\ pc'[Game] = pc[Game]
        /\ change_buffer' = change_buffer
    BY <1>3, PlayerMoves DEF PlayerSuspend
  <2> QED BY <1>1, <2>1 DEF SemInv, PlaceInv, PlayerPlace, Prepares, Idle
\* In the other places Game prepares no song.
<1>4. ASSUME pc[Player] # "suspend" PROVE ~Prepares
  BY <1>1, <1>4 DEF PlaceInv, Idle
<1>5. ASSUME NEW s \in {"READY", "QUEUED", "SLEEPING"}, NEW l \in PlayerPc,
             Continue(Player, s, l, {}), pc[Player] # "suspend",
             l # "exited", s = "QUEUED" => l = "read",
             s = "SLEEPING" => l = "broadcast", change_buffer' = change_buffer
      PROVE  (SemInv /\ PlaceInv)'
  <2>1. /\ state'[Player] = s /\ pc'[Player] = l /\ pc'[Game] = pc[Game]
        /\ state'[Game] = state[Game]
    BY <1>5, PlayerMoves
  <2> QED BY <1>1, <1>4, <1>5, <2>1 DEF SemInv, PlaceInv, PlayerPlace, Prepares
<1>6. CASE PlayerOpen
  BY <1>5, <1>6 DEF PlayerOpen, At, PlayerPc
<1>7. CASE PlayerTest
  BY <1>5, <1>7 DEF PlayerTest, At, PlayerPc
<1>8. CASE PlayerRead \/ PlayerReadFails \/ PlayerConvert
  BY <1>5, <1>8 DEF PlayerRead, PlayerReadFails, PlayerConvert, At, PlayerPc
<1>9. CASE ~Halt /\ PlayerFirstBlock
  BY <1>5, <1>9 DEF PlayerFirstBlock, At, PlayerPc
<1>10. CASE PlayerNextBlock
  <2>1. /\ state'[Player] = IF SemBlocks(change_buffer) THEN "WTSEM" ELSE "READY"
        /\ pc[Player] = "hand_over" /\ pc'[Player] = "swap"
        /\ state'[Game] = state[Game] /\ pc'[Game] = pc[Game]
        /\ change_buffer' = SemWait(change_buffer, Player)
    BY <1>10, PlayerMoves DEF PlayerNextBlock, At
  <2>2. SemInv'
    BY <1>1, <2>1, Waiting DEF SemInv
  <2>3. PlaceInv'
    BY <1>4, <2>1 DEF PlaceInv, PlayerPlace, Prepares
  <2> QED BY <2>2, <2>3
<1>11. CASE PlayerSwap
  BY <1>5, <1>11 DEF PlayerSwap, At, PlayerPc
<1>12. CASE PlayerFinish
  BY <1>5, <1>12 DEF PlayerFinish, At, PlayerPc
<1>13. CASE PlayerBroadcast
  <2>1. /\ state'[Player] = "READY" /\ pc[Player] = "broadcast"
        /\ pc'[Player] = "suspend" /\ pc'[Game] = pc[Game]
        /\ state'[Game] = IF state[Game] = "WTCOND" THEN "READY" ELSE state[Game]
        /\ change_buffer' = change_buffer
    BY <1>13, PlayerMoves DEF PlayerBroadcast, At
  <2> QED BY <1>1, <1>4, <2>1 DEF SemInv, PlaceInv, PlayerPlace, Prepares
<1> QED BY <1>2, <1>3, <1>6, <1>7, <1>8, <1>9, <1>10, <1>11, <1>12, <1>13
        DEF PlayerStep

\* The devices keep both.
LEMMA DevicesWait ==
    TypeOK /\ SemInv /\ PlaceInv /\ Devices => (SemInv /\ PlaceInv)'
<1> SUFFICES ASSUME TypeOK, SemInv, PlaceInv, Devices PROVE (SemInv /\ PlaceInv)'
  OBVIOUS
<1> USE Threads DEF control, exchange, filling, dacVars
<1>1. CASE EndCb
  <2>1. pc' = pc /\ play_sound_file_ref' = play_sound_file_ref
    BY <1>1 DEF EndCb, EndOfBuffer, NextBuffer, NoBuffer
  <2>2. CASE size_buffer_to_read # 0
    <3>1. /\ change_buffer' = BSemSignal(change_buffer)
          /\ state' = Ready(state, BSemSignalled(change_buffer))
      BY <1>1, <2>2 DEF EndCb, EndOfBuffer, NextBuffer, NoBuffer
    <3>2. /\ state'[Player] = IF state[Player] = "WTSEM" THEN "READY"
                              ELSE state[Player]
          /\ state'[Game] = state[Game]
      BY <3>1, Signalling DEF Ready
    <3>3. SemInv'
      BY <3>1, <3>2, Signalling DEF SemInv
    <3>4. PlaceInv'
      BY <2>1, <3>2 DEF PlaceInv, PlayerPlace, Prepares, Idle
    <3> QED BY <3>3, <3>4
  <2>3. CASE size_buffer_to_read = 0
    BY <1>1, <2>1, <2>3 DEF EndCb, EndOfBuffer, NextBuffer, NoBuffer,
         SemInv, PlaceInv, PlayerPlace, Prepares, Idle
  <2> QED BY <2>2, <2>3
<1>2. CASE PlayerWakes
  <2>1. /\ state[Player] \in {"QUEUED", "SLEEPING"} /\ state'[Player] = "READY"
        /\ state'[Game] = state[Game]
        /\ UNCHANGED <<pc, change_buffer, play_sound_file_ref>>
    BY <1>2 DEF PlayerWakes, Ready
  <2> QED BY <2>1 DEF SemInv, PlaceInv, PlayerPlace, Prepares, Idle
<1>3. CASE CardTaken
  BY <1>3 DEF CardTaken, SemInv, PlaceInv, PlayerPlace, Prepares, Idle
<1>4. CASE GameWakes
  <2>1. /\ state'[Player] = state[Player] /\ state'[Game] = "READY"
        /\ pc[Game] = "dac_start" => state[Player] = "SUSPENDED"
        /\ UNCHANGED <<pc, change_buffer, play_sound_file_ref>>
    BY <1>4 DEF GameWakes, Ready
  <2> QED BY <2>1 DEF SemInv, PlaceInv, PlayerPlace, Prepares, Idle
<1> QED BY <1>1, <1>2, <1>3, <1>4 DEF Devices

\* Every step keeps both.
LEMMA WaitStep ==
    TypeOK /\ SemInv /\ PlaceInv /\ [Next]_vars => (SemInv /\ PlaceInv)'
<1>1. SemInv /\ PlaceInv /\ UNCHANGED vars => (SemInv /\ PlaceInv)'
  BY DEF vars, control, SemInv, PlaceInv, PlayerPlace, Prepares, Idle
<1> QED BY <1>1, GameWaits, PlayerWaits, DevicesWait DEF Next

-----------------------------------------------------------------------------
(***************************************************************************)
(* The exchange of the buffers.                                            *)
(***************************************************************************)

InLoop == pc[Player] \in {"test", "read", "convert", "hand_over", "swap"}

\* The first block: nothing plays yet, and the block is a whole one.
FirstInv ==
    /\ pc[Game] \in {"start", "play", "resume"} => dac = "STOPPED"
    /\ pc[Player] = "open" /\ state[Player] = "READY" => dac = "STOPPED"
    /\ first_time /\ InLoop =>
          /\ pc[Player] # "swap" /\ dac = "STOPPED"
          /\ buffer_to_read = buffer_to_fill
          /\ pc[Player] \in {"test", "read"} => unread >= BLOCK
          /\ pc[Player] \in {"convert", "hand_over"} => size_buffer_to_read = BLOCK

\* The DAC plays the buffer it was given last, and Player fills the other
\* one, until the interrupt has come; out of the loop there is nothing left
\* to play.
BufferInv ==
    dac = "PLAYING" =>
        /\ dac_buffer = buffer_to_read
        /\ \/ pc[Player] \in {"test", "read", "convert", "hand_over"}
           \/ pc[Player] = "swap" /\ state[Player] = "WTSEM"
           => buffer_to_read # buffer_to_fill
        /\ pc[Player] = "swap" /\ state[Player] # "WTSEM" =>
              /\ buffer_to_read = buffer_to_fill
              /\ size_buffer_to_read \in {0, BLOCK}
        /\ ~InLoop /\ cardOk => size_buffer_to_read = 0

\* The semaphore is given in advance only when the card is gone.
SignalInv == change_buffer.cnt = 1 => ~InLoop /\ ~cardOk

\* Every block that was read is playing or was played, but for the last one
\* until the interrupt has come.
OrderInv ==
    /\ SongInOrder
    /\ first_time /\ InLoop =>
          /\ played = << >>
          /\ blocks = IF pc[Player] = "hand_over" THEN 1 ELSE 0
          /\ pc[Player] = "hand_over" => content[buffer_to_fill] = 1
    /\ ~first_time /\ dac = "PLAYING" /\ cardOk =>
          /\ \/ pc[Player] \in {"test", "read", "convert"}
             \/ pc[Player] = "swap" /\ state[Player] # "WTSEM"
             => Len(played) = blocks
          /\ \/ pc[Player] = "hand_over"
             \/ pc[Player] = "swap" /\ state[Player] = "WTSEM"
             => /\ Len(played) + 1 = blocks
                /\ size_buffer_to_read # 0 => content[buffer_to_fill] = blocks

ExchangeInv == FirstInv /\ BufferInv /\ SignalInv /\ OrderInv

\* The next block leaves the song in order.
LEMMA NextBlock ==
    ASSUME SongInOrder, played \in Seq(Nat), NEW k, k = Len(played) + 1,
           played' = Append(played, k)
    PROVE  SongInOrder' /\ Len(played') = k
<1>1. /\ Len(played') = Len(played) + 1 /\ Len(played) \in Nat
      /\ \A i \in 1..Len(played) : played'[i] = played[i]
      /\ played'[Len(played) + 1] = k
  OBVIOUS
<1>2. DOMAIN played = 1..Len(played) /\ DOMAIN played' = 1..(Len(played) + 1)
  BY <1>1
<1>3. \A i \in 1..(Len(played) + 1) : i \in 1..Len(played) \/ i = Len(played) + 1
  BY <1>1
<1>4. ASSUME NEW i \in DOMAIN played' PROVE played'[i] = i
  BY <1>1, <1>2, <1>3, <1>4 DEF SongInOrder
<1> QED BY <1>1, <1>4 DEF SongInOrder

\* Game keeps the exchange.
LEMMA GameKeepsExchange ==
    TypeOK /\ SemInv /\ PlaceInv /\ ExchangeInv /\ GameStep => ExchangeInv'
<1> SUFFICES ASSUME TypeOK, SemInv, PlaceInv, ExchangeInv, GameStep
             PROVE  ExchangeInv'
  OBVIOUS
<1> USE Threads DEF control, exchange, filling
<1>0. pc[Game] \in {"start", "play", "resume"} => ~InLoop /\ dac = "STOPPED"
  BY DEF PlaceInv, Prepares, Idle, InLoop, ExchangeInv, FirstInv
\* Those that stop the DAC.
<1>1. CASE GameDacStart \/ GameDacStop
  <2>1. /\ pc'[Player] = pc[Player] /\ state'[Player] = state[Player]
        /\ pc'[Game] \in {"start", "dac_start"}
        /\ dac' = "STOPPED"
        /\ UNCHANGED <<change_buffer, exchange, filling, cardOk, played>>
    BY <1>1, GameMoves DEF GameDacStart, GameDacStop, dac_stop
  <2>2. FirstInv' /\ BufferInv'
    BY <2>1 DEF ExchangeInv, FirstInv, BufferInv, InLoop
  <2>3. SignalInv' /\ OrderInv'
    BY <2>1 DEF ExchangeInv, SignalInv, OrderInv, SongInOrder, InLoop
  <2> QED BY <2>2, <2>3 DEF ExchangeInv
\* Those in which Player is moved, before its first block.
<1>2. CASE GamePlayerStart \/ GameResume
  <2>1. /\ pc[Game] \in {"start", "resume"}
        /\ UNCHANGED <<change_buffer, exchange, filling, dacVars, cardOk, played>>
    BY <1>2 DEF GamePlayerStart, GameResume, At
  <2>2. ~InLoop'
    <3>1. CASE GamePlayerStart
      BY <3>1 DEF GamePlayerStart, InLoop, TypeOK
    <3>2. CASE GameResume
      BY <1>0, <2>1, <3>2, GameMoves DEF GameResume, InLoop
    <3> QED BY <1>2, <3>1, <3>2
  <2>3. dac' = "STOPPED"
    BY <1>0, <2>1 DEF dacVars
  <2>4. FirstInv' /\ BufferInv' /\ OrderInv'
    BY <2>1, <2>2, <2>3 DEF ExchangeInv, FirstInv, BufferInv, OrderInv, SongInOrder
  <2>5. SignalInv'
    BY <1>0, <2>1, <2>2 DEF ExchangeInv, SignalInv
  <2> QED BY <2>4, <2>5 DEF ExchangeInv
\* The others.
<1>3. CASE GameNoCard \/ GameForceChange \/ GameStopSong
  <2>1. /\ pc'[Player] = pc[Player] /\ state'[Player] = state[Player]
        /\ pc'[Game] \in {"start", "play", "resume"} =>
              pc[Game] \in {"start", "play", "resume"}
        /\ UNCHANGED <<change_buffer, exchange, filling, dacVars, cardOk, played>>
    BY <1>3, GameMoves DEF GameNoCard, GameForceChange, GameStopSong, At
  <2>2. FirstInv' /\ BufferInv'
    BY <2>1 DEF ExchangeInv, FirstInv, BufferInv, InLoop, dacVars
  <2>3. SignalInv' /\ OrderInv'
    BY <2>1 DEF ExchangeInv, SignalInv, OrderInv, SongInOrder, InLoop, dacVars
  <2> QED BY <2>2, <2>3 DEF ExchangeInv
<1> QED BY <1>1, <1>2, <1>3 DEF GameStep

\* Player keeps the exchange, before and after its loop, ...
LEMMA OutsideKeepsExchange ==
    TypeOK /\ SemInv /\ PlaceInv /\ ExchangeInv
    /\ (PlayerSuspend \/ PlayerOpen \/ PlayerFinish \/ PlayerBroadcast)
    => ExchangeInv'
<1> SUFFICES ASSUME TypeOK, SemInv, PlaceInv, ExchangeInv,
                    PlayerSuspend \/ PlayerOpen \/ PlayerFinish \/ PlayerBroadcast
             PROVE  ExchangeInv'
  OBVIOUS
<1> USE Threads
<1>1. CASE Halt
  BY <1>1 DEF Halt, control, exchange, filling, dacVars, ExchangeInv, FirstInv,
              BufferInv, SignalInv, OrderInv, SongInOrder, InLoop
<1>2. CASE ~Halt /\ (PlayerSuspend \/ PlayerFinish \/ PlayerBroadcast)
  <2>1. /\ pc[Player] \in {"suspend", "finish", "broadcast"}
        /\ UNCHANGED <<change_buffer, exchange, filling, dacVars, cardOk, played>>
    BY <1>2 DEF PlayerSuspend, PlayerFinish, PlayerBroadcast, At
  <2>2. /\ pc'[Game] = pc[Game] /\ pc'[Player] \in {"open", "broadcast", "suspend"}
        /\ pc'[Player] = "open" => state'[Player] = "SUSPENDED"
    BY <1>2, PlayerMoves DEF PlayerSuspend, PlayerFinish, PlayerBroadcast
  <2>3. FirstInv' /\ BufferInv'
    BY <2>1, <2>2 DEF ExchangeInv, FirstInv, BufferInv, InLoop, exchange, filling,
                      dacVars
  <2>4. SignalInv' /\ OrderInv'
    BY <2>1, <2>2 DEF ExchangeInv, SignalInv, OrderInv, SongInOrder, InLoop,
                      exchange, filling, dacVars
  <2> QED BY <2>3, <2>4 DEF ExchangeInv
<1>3. CASE PlayerOpen
  <2>1. /\ pc[Player] = "open" /\ state[Player] = "READY" /\ dac = "STOPPED"
        /\ UNCHANGED <<change_buffer, dacVars, cardOk>>
    BY <1>3 DEF PlayerOpen, At, MayRun, ExchangeInv, FirstInv
  <2>2. CASE cardOk
    <3>1. /\ pc'[Player] = "test" /\ pc'[Game] = pc[Game]
          /\ buffer_to_read' = 1 /\ buffer_to_fill' = 1
          /\ blocks' = 0 /\ played' = << >> /\ unread' \in FileLength
      BY <1>3, <2>2, PlayerMoves DEF PlayerOpen
    <3>2. unread' >= BLOCK
      BY ONLY <3>1, SoundAssumption DEF SoundAssumption
    <3>3. dac' = "STOPPED" /\ SongInOrder'
      BY <2>1, <3>1 DEF dacVars, SongInOrder
    <3>4. FirstInv' /\ BufferInv'
      BY <3>1, <3>2, <3>3, <2>1 DEF ExchangeInv, FirstInv, BufferInv
    <3>5. SignalInv' /\ OrderInv'
      BY <2>1, <2>2, <3>1, <3>3 DEF ExchangeInv, SignalInv, OrderInv
    <3> QED BY <3>4, <3>5 DEF ExchangeInv
  <2>3. CASE ~cardOk
    <3>1. /\ pc'[Player] = "finish" /\ pc'[Game] = pc[Game] /\ played' = played
      BY <1>3, <2>3, PlayerMoves DEF PlayerOpen
    <3>2. dac' = "STOPPED" /\ ~cardOk'
      BY <2>1, <2>3 DEF dacVars
    <3> QED BY <2>1, <2>3, <3>1, <3>2
            DEF ExchangeInv, FirstInv, BufferInv, SignalInv, OrderInv, SongInOrder,
                InLoop
  <2> QED BY <2>2, <2>3
<1> QED BY <1>1, <1>2, <1>3

\* ... at the test and at the card, ...
LEMMA CardKeepsExchange ==
    TypeOK /\ SemInv /\ PlaceInv /\ ExchangeInv
    /\ (PlayerTest \/ PlayerRead \/ PlayerReadFails \/ PlayerConvert)
    => ExchangeInv'
<1> SUFFICES ASSUME TypeOK, SemInv, PlaceInv, ExchangeInv,
                    PlayerTest \/ PlayerRead \/ PlayerReadFails \/ PlayerConvert
             PROVE  ExchangeInv'
  OBVIOUS
<1> USE Threads DEF exchange
<1>0. pc[Player] # "suspend" => pc[Game] \notin {"start", "play", "resume"}
                                \/ ~InLoop
  BY DEF PlaceInv, Prepares, Idle, InLoop
<1>1. CASE PlayerTest
  <2>1. /\ pc[Player] = "test" /\ pc'[Game] = pc[Game]
        /\ UNCHANGED <<change_buffer, exchange, buffer_to_fill, first_time, unread,
                       blocks, cardOk, played>>
    BY <1>1, PlayerMoves DEF PlayerTest, At
  <2>2. CASE play
    <3>1. /\ pc'[Player] = "read" /\ UNCHANGED dacVars
      BY <1>1, <2>2, PlayerMoves DEF PlayerTest
    <3> QED BY <2>1, <3>1
            DEF ExchangeInv, FirstInv, BufferInv, SignalInv, OrderInv, SongInOrder,
                InLoop, dacVars
  <2>3. CASE ~play
    <3>1. /\ pc'[Player] = "finish" /\ dac' = "STOPPED"
      BY <1>1, <2>3, PlayerMoves DEF PlayerTest, dac_stop
    <3> QED BY <2>1, <3>1
            DEF ExchangeInv, FirstInv, BufferInv, SignalInv, OrderInv, SongInOrder,
                InLoop
  <2> QED BY <2>2, <2>3
<1>2. CASE PlayerRead
  <2>1. /\ pc[Player] = "read" /\ pc'[Game] = pc[Game] /\ pc'[Player] = "convert"
        /\ UNCHANGED <<change_buffer, buffer_to_read, buffer_to_fill, first_time,
                       blocks, dacVars, cardOk, played>>
        /\ size_buffer_to_read' = IF unread < BLOCK THEN unread ELSE BLOCK
    BY <1>2, PlayerMoves DEF PlayerRead, Samples, At
  <2>2. unread >= BLOCK => size_buffer_to_read' = BLOCK
    BY <2>1, SoundAssumption DEF TypeOK
  <2>3. FirstInv' /\ BufferInv'
    BY <2>1, <2>2 DEF ExchangeInv, FirstInv, BufferInv, InLoop, dacVars
  <2>4. SignalInv' /\ OrderInv'
    BY <2>1 DEF ExchangeInv, SignalInv, OrderInv, SongInOrder, InLoop, dacVars
  <2> QED BY <2>3, <2>4 DEF ExchangeInv
<1>3. CASE PlayerReadFails
  <2>1. /\ pc[Player] = "read" /\ pc'[Game] = pc[Game] /\ pc'[Player] = "finish"
        /\ UNCHANGED <<change_buffer, exchange, filling, dacVars, cardOk, played>>
        /\ ~cardOk
    BY <1>3, PlayerMoves DEF PlayerReadFails, At
  <2> QED BY <2>1
          DEF ExchangeInv, FirstInv, BufferInv, SignalInv, OrderInv, SongInOrder,
              InLoop, dacVars, filling
<1>4. CASE PlayerConvert
  <2>1. /\ pc[Player] = "convert" /\ pc'[Game] = pc[Game]
        /\ pc'[Player] = "hand_over" /\ blocks' = blocks + 1
        /\ UNCHANGED <<change_buffer, exchange, buffer_to_fill, first_time, unread,
                       dacVars, cardOk, played>>
    BY <1>4, PlayerMoves DEF PlayerConvert, At
  <2>2. size_buffer_to_read # 0 => content'[buffer_to_fill] = blocks'
    BY <1>4 DEF PlayerConvert, TypeOK
  <2>3. FirstInv' /\ BufferInv' /\ SignalInv'
    BY <2>1 DEF ExchangeInv, FirstInv, BufferInv, SignalInv, InLoop, dacVars
  <2>4. first_time => blocks' = 1 /\ size_buffer_to_read # 0
    <3>1. first_time => blocks = 0 /\ size_buffer_to_read = BLOCK
      BY <2>1 DEF ExchangeInv, FirstInv, OrderInv, InLoop
    <3> QED BY <2>1, <3>1, SoundAssumption
  <2>5. OrderInv'
    BY <2>1, <2>2, <2>4 DEF ExchangeInv, OrderInv, SongInOrder, InLoop, dacVars,
                            TypeOK
  <2> QED BY <2>3, <2>5 DEF ExchangeInv
<1> QED BY <1>1, <1>2, <1>3, <1>4

\* ... and where it hands a block over.
LEMMA HandingKeepsExchange ==
    TypeOK /\ SemInv /\ PlaceInv /\ ExchangeInv
    /\ (PlayerFirstBlock \/ PlayerNextBlock \/ PlayerSwap)
    => ExchangeInv'
<1> SUFFICES ASSUME TypeOK, SemInv, PlaceInv, ExchangeInv,
                    PlayerFirstBlock \/ PlayerNextBlock \/ PlayerSwap
             PROVE  ExchangeInv'
  OBVIOUS
<1> USE Threads
<1>1. CASE Halt
  BY <1>1 DEF Halt, control, exchange, filling, dacVars, ExchangeInv, FirstInv,
              BufferInv, SignalInv, OrderInv, SongInOrder, InLoop
<1>2. CASE ~Halt /\ PlayerFirstBlock
  <2>1. /\ pc[Player] = "hand_over" /\ state[Player] = "READY" /\ first_time
        /\ dac = "STOPPED" /\ buffer_to_read = buffer_to_fill
        /\ size_buffer_to_read = BLOCK /\ played = << >> /\ blocks = 1
        /\ content[buffer_to_read] = 1
    BY <1>2 DEF PlayerFirstBlock, At, MayRun, ExchangeInv, FirstInv, OrderInv, InLoop
  <2>2. /\ pc'[Player] = "swap" /\ state'[Player] = "READY" /\ pc'[Game] = pc[Game]
        /\ first_time' = FALSE
        /\ UNCHANGED <<change_buffer, exchange, buffer_to_fill, content, blocks,
                       cardOk>>
        /\ DacPlays(buffer_to_read, size_buffer_to_read)
    BY <1>2, <2>1, PlayerMoves DEF PlayerFirstBlock
  <2>3. SongInOrder' /\ (cardOk => Len(played') = 1)
    <3>1. CASE ~cardOk
      BY <2>1, <2>2, <3>1 DEF DacPlays, SongInOrder
    <3>2. CASE cardOk
      <4>1. played' = Append(played, 1) /\ Len(played) = 0
        BY <2>1, <2>2, <3>2 DEF DacPlays
      <4> QED BY <4>1, NextBlock DEF ExchangeInv, OrderInv, TypeOK
    <3> QED BY <3>1, <3>2
  <2>4. pc[Game] \notin {"start", "play", "resume"}
    BY <2>1 DEF PlaceInv, Prepares, Idle
  <2>5. FirstInv' /\ BufferInv'
    BY <2>1, <2>2, <2>4 DEF FirstInv, BufferInv, InLoop, DacPlays, exchange
  <2>6. SignalInv' /\ OrderInv'
    BY <2>1, <2>2, <2>3 DEF ExchangeInv, SignalInv, OrderInv, InLoop
  <2> QED BY <2>5, <2>6 DEF ExchangeInv
<1>3. CASE PlayerNextBlock
  <2>1. /\ pc[Player] = "hand_over" /\ state[Player] = "READY" /\ ~first_time
    BY <1>3 DEF PlayerNextBlock, At, MayRun
  <2>2. SemBlocks(change_buffer)
    BY <2>1, Waiting DEF ExchangeInv, SignalInv, InLoop
  <2>3. /\ pc'[Player] = "swap" /\ state'[Player] = "WTSEM" /\ pc'[Game] = pc[Game]
        /\ change_buffer'.cnt = -1
        /\ UNCHANGED <<exchange, filling, dacVars, cardOk, played>>
    BY <1>3, <2>1, <2>2, PlayerMoves, Waiting DEF PlayerNextBlock
  <2>4. FirstInv' /\ BufferInv'
    BY <2>1, <2>3 DEF ExchangeInv, FirstInv, BufferInv, InLoop, exchange, filling,
                      dacVars
  <2>5. SignalInv' /\ OrderInv'
    BY <2>1, <2>3 DEF ExchangeInv, SignalInv, OrderInv, SongInOrder, InLoop,
                      exchange, filling, dacVars
  <2> QED BY <2>4, <2>5 DEF ExchangeInv
<1>4. CASE PlayerSwap
  <2>1. /\ pc[Player] = "swap" /\ state[Player] = "READY"
    BY <1>4 DEF PlayerSwap, At, MayRun
  <2>2. ~first_time
    BY <2>1 DEF ExchangeInv, FirstInv, InLoop
  <2>3. /\ pc'[Player] \in {"test", "finish"} /\ pc'[Game] = pc[Game]
        /\ pc'[Player] = "finish" => ~(size_buffer_to_read >= BLOCK)
        /\ state'[Player] = "READY"
        /\ buffer_to_fill' = 3 - buffer_to_fill
        /\ UNCHANGED <<change_buffer, exchange, first_time, unread, content, blocks,
                       dacVars, cardOk, played>>
    BY <1>4, PlayerMoves DEF PlayerSwap, MoreToRead
  <2>4. buffer_to_fill' # buffer_to_fill /\ BLOCK \in Nat
    BY <2>3, SoundAssumption DEF TypeOK, Buffer
  <2>5. FirstInv'
    BY <2>2, <2>3, <2>1 DEF ExchangeInv, FirstInv, InLoop, exchange, dacVars
  <2>6. BufferInv'
    BY <2>1, <2>3, <2>4 DEF ExchangeInv, BufferInv, InLoop, exchange, dacVars
  <2>7. SignalInv' /\ OrderInv'
    BY <2>1, <2>2, <2>3 DEF ExchangeInv, SignalInv, OrderInv, SongInOrder, InLoop,
                            exchange, dacVars
  <2> QED BY <2>5, <2>6, <2>7 DEF ExchangeInv
<1> QED BY <1>1, <1>2, <1>3, <1>4

\* If Player keeps up, the interrupt and the devices keep the exchange.
LEMMA DevicesKeepExchange ==
    KeepsUp /\ TypeOK /\ SemInv /\ PlaceInv /\ ExchangeInv /\ Devices => ExchangeInv'
<1> SUFFICES ASSUME KeepsUp, TypeOK, SemInv, PlaceInv, ExchangeInv, Devices
             PROVE  ExchangeInv'
  OBVIOUS
<1> USE Threads DEF dacVars, exchange, filling
<1>1. CASE EndCb
  <2>1. /\ dac = "PLAYING" /\ BlockIsRead /\ pc' = pc
        /\ buffer_to_read' = 3 - buffer_to_read
        /\ UNCHANGED <<filling, cardOk>>
    BY <1>1 DEF EndCb, EndOfBuffer, NextBuffer, NoBuffer
  <2>2. /\ buffer_to_read' # buffer_to_read /\ buffer_to_read' \in Buffer
        /\ buffer_to_fill \in Buffer
        /\ buffer_to_read # buffer_to_fill => buffer_to_read' = buffer_to_fill
    BY <2>1 DEF TypeOK, Buffer
  <2>3. (state[Player] = "WTSEM" /\ pc[Player] = "swap") \/ ~InLoop
    BY <2>1 DEF BlockIsRead, InLoop, PlaceInv, PlayerPlace
  <2>4. /\ pc[Game] \notin {"start", "play", "resume"}
        /\ pc[Player] = "open" => state[Player] # "READY"
        /\ InLoop => ~first_time
    BY <2>1 DEF ExchangeInv, FirstInv
  <2>5. CASE size_buffer_to_read = 0
    <3>1. /\ dac' = "STOPPED"
          /\ UNCHANGED <<state, change_buffer, size_buffer_to_read, played>>
      BY <1>1, <2>5 DEF EndCb, EndOfBuffer, NextBuffer, NoBuffer, dac_stop
    <3> QED BY <2>1, <2>4, <3>1 DEF ExchangeInv, FirstInv, BufferInv, SignalInv,
                                    OrderInv, SongInOrder, InLoop
  <2>6. CASE size_buffer_to_read # 0
    <3>1. /\ DacPlays(buffer_to_read', EvenSamples)
          /\ size_buffer_to_read' = IF depth' < BLOCK THEN 0 ELSE depth'
          /\ change_buffer' = BSemSignal(change_buffer)
          /\ state' = Ready(state, BSemSignalled(change_buffer))
      BY <1>1, <2>6 DEF EndCb, EndOfBuffer, NextBuffer, NoBuffer
    <3>2. depth' \in 0..BLOCK /\ dac' = "PLAYING" /\ dac_buffer' = buffer_to_read'
      BY <3>1, EvenDepth DEF DacPlays
    <3>3. size_buffer_to_read' \in {0, BLOCK}
      BY <3>1, <3>2, SoundAssumption
    <3>4. state'[Game] = state[Game]
      BY <3>1, Signalling DEF Ready
    <3>5. CASE ~InLoop
      <4>1. ~cardOk
        BY <2>1, <2>6, <3>5 DEF ExchangeInv, BufferInv
      <4>2. played' = played
        BY <3>1, <4>1 DEF DacPlays
      <4>3. state'[Player] = state[Player]
        BY <3>1, <3>5, Signalling DEF Ready, PlaceInv, PlayerPlace, InLoop
      <4>4. FirstInv' /\ BufferInv'
        BY <2>1, <2>4, <3>2, <3>5, <4>1, <4>3 DEF FirstInv, BufferInv, InLoop
      <4>5. SignalInv' /\ OrderInv'
        BY <2>1, <3>5, <4>1, <4>2 DEF ExchangeInv, SignalInv, OrderInv, SongInOrder,
                                      InLoop
      <4> QED BY <4>4, <4>5 DEF ExchangeInv
    <3>6. CASE state[Player] = "WTSEM" /\ pc[Player] = "swap"
      <4>1. buffer_to_read' = buffer_to_fill
        BY <2>1, <2>2, <3>6 DEF ExchangeInv, BufferInv
      <4>2. state'[Player] = "READY" /\ change_buffer'.cnt = 0
        BY <3>1, <3>6, Signalling DEF Ready
      <4>3. FirstInv' /\ BufferInv' /\ SignalInv'
        BY <2>1, <2>4, <3>2, <3>3, <3>6, <4>1, <4>2
        DEF FirstInv, BufferInv, SignalInv, InLoop
      <4>4. SongInOrder' /\ (cardOk => Len(played') = blocks)
        <5>1. CASE ~cardOk
          BY <3>1, <5>1 DEF DacPlays, ExchangeInv, OrderInv, SongInOrder
        <5>2. CASE cardOk
          <6>1. ~first_time
            BY <2>4, <3>6 DEF InLoop
          <6>2. Len(played) + 1 = blocks /\ content[buffer_to_fill] = blocks
            BY <2>1, <2>6, <3>6, <5>2, <6>1 DEF ExchangeInv, OrderInv
          <6>3. played' = Append(played, blocks)
            BY <3>1, <4>1, <5>2, <6>2 DEF DacPlays
          <6> QED BY <6>2, <6>3, NextBlock DEF ExchangeInv, OrderInv, TypeOK
        <5> QED BY <5>1, <5>2
      <4>5. OrderInv'
        BY <2>1, <2>4, <3>6, <4>2, <4>4 DEF OrderInv, InLoop
      <4> QED BY <4>3, <4>5 DEF ExchangeInv
    <3> QED BY <2>3, <3>5, <3>6
  <2> QED BY <2>5, <2>6
<1>2. CASE PlayerWakes
  <2>1. /\ pc[Player] \in {"read", "broadcast"} /\ state'[Player] = "READY"
        /\ UNCHANGED <<pc, change_buffer, exchange, filling, dacVars, cardOk, played>>
    BY <1>2 DEF PlayerWakes, Ready, PlaceInv, PlayerPlace
  <2> QED BY <2>1 DEF ExchangeInv, FirstInv, BufferInv, SignalInv, OrderInv,
                      SongInOrder, InLoop
<1>3. CASE CardTaken
  BY <1>3 DEF CardTaken, ExchangeInv, FirstInv, BufferInv, SignalInv, OrderInv,
              SongInOrder, InLoop
<1>4. CASE GameWakes
  <2>1. /\ state'[Player] = state[Player]
        /\ UNCHANGED <<pc, change_buffer, exchange, filling, dacVars, cardOk, played>>
    BY <1>4 DEF GameWakes, Ready
  <2> QED BY <2>1 DEF ExchangeInv, FirstInv, BufferInv, SignalInv, OrderInv,
                      SongInOrder, InLoop
<1> QED BY <1>1, <1>2, <1>3, <1>4 DEF Devices

\* The invariant holds at first, ...
LEMMA ExchangeInit == Init => SemInv /\ PlaceInv /\ ExchangeInv
<1> SUFFICES ASSUME Init PROVE SemInv /\ PlaceInv /\ ExchangeInv
  OBVIOUS
<1>1. /\ state[Player] = "WTSTART" /\ pc[Player] = "exited"
      /\ state[Game] = "READY" /\ pc[Game] = "dac_start"
      /\ change_buffer.queue = << >> /\ change_buffer.cnt = 0
      /\ dac = "STOPPED" /\ play_sound_file_ref = NoThread
  BY Threads DEF Init, SemInit
<1>2. SemInv /\ PlaceInv
  BY <1>1 DEF SemInv, PlaceInv, PlayerPlace, Prepares, Idle
<1>3. SongInOrder
  BY DEF Init, SongInOrder
<1>4. FirstInv /\ BufferInv /\ SignalInv /\ OrderInv
  BY <1>1, <1>3 DEF FirstInv, BufferInv, SignalInv, OrderInv, InLoop
<1> QED BY <1>2, <1>4 DEF ExchangeInv

\* ... and every step keeps it.
LEMMA ExchangeStep ==
    KeepsUp /\ TypeOK /\ SemInv /\ PlaceInv /\ ExchangeInv /\ [Next]_vars
    => (TypeOK /\ SemInv /\ PlaceInv /\ ExchangeInv)'
<1>1. TypeOK /\ UNCHANGED vars => TypeOK'
  BY DEF TypeOK, vars, control, exchange, filling, dacVars
<1>2. ExchangeInv /\ UNCHANGED vars => ExchangeInv'
  BY DEF ExchangeInv, FirstInv, BufferInv, SignalInv, OrderInv, SongInOrder, InLoop,
         vars, exchange, filling, dacVars
<1> QED BY <1>1, <1>2, GameType, PlayerType, DevicesType, WaitStep,
           GameKeepsExchange, OutsideKeepsExchange, CardKeepsExchange,
           HandingKeepsExchange, DevicesKeepExchange DEF Next, PlayerStep

\* If the card keeps up with the DAC, the listeners hear the blocks of every
\* song in order, for any size of the blocks and any length of the songs, also
\* when the song is stopped in the middle or the card is taken out
\* (play_sound_file.c:54-93, 135-177).
THEOREM SongIsInOrder == KeepsUp => (Spec => []SongInOrder)
<1> SUFFICES ASSUME KeepsUp PROVE Spec => []SongInOrder
  OBVIOUS
<1> DEFINE Inv == TypeOK /\ SemInv /\ PlaceInv /\ ExchangeInv
<1>1. Init => Inv
  BY InitType, ExchangeInit
<1>2. Inv /\ [Next]_vars => Inv'
  BY ExchangeStep
<1>3. Inv => SongInOrder
  BY DEF ExchangeInv, OrderInv
<1> QED BY <1>1, <1>2, <1>3, PTL DEF Spec

\* If the card keeps up with the DAC, it never writes to the buffer the DAC
\* plays (play_sound_file.c:160-175).
THEOREM BufferIsFree == KeepsUp => (Spec => []NeverFillsWhatPlays)
<1> SUFFICES ASSUME KeepsUp PROVE Spec => []NeverFillsWhatPlays
  OBVIOUS
<1> DEFINE Inv == TypeOK /\ SemInv /\ PlaceInv /\ ExchangeInv
<1>1. Init => Inv
  BY InitType, ExchangeInit
<1>2. Inv /\ [Next]_vars => Inv'
  BY ExchangeStep
<1>3. Inv => NeverFillsWhatPlays
  BY DEF ExchangeInv, BufferInv, NeverFillsWhatPlays
<1> QED BY <1>1, <1>2, <1>3, PTL DEF Spec

-----------------------------------------------------------------------------
(***************************************************************************)
(* Nobody waits in vain.                                                   *)
(***************************************************************************)

\* The thread that waits for a file can be found by its reference, and has
\* come there when Game hands a file over; in the first song the reference is
\* not a stale one.
RefInv ==
    /\ state[Player] = "SUSPENDED" => play_sound_file_ref = Player
    /\ pc[Game] = "resume" => state[Game] = "READY"
    /\ pc[Game] \in {"play", "resume"} =>
          /\ pc[Player] # "exited"
          /\ state[Game] = "READY" => state[Player] = "SUSPENDED"
    /\ songs = 0 => pc[Game] = "dac_start" /\ pc[Player] = "exited"
    /\ songs = 1 /\ pc[Game] = "start" => pc[Player] = "exited"
    /\ songs <= 1 /\ play_sound_file_ref = Player => state[Player] = "SUSPENDED"

\* Game keeps the reference.
LEMMA GameKeepsRef ==
    TypeOK /\ PlaceInv /\ RefInv /\ GameStep => RefInv'
<1> SUFFICES ASSUME TypeOK, PlaceInv, RefInv, GameStep PROVE RefInv'
  OBVIOUS
<1> USE Threads, NoThreadAssumption DEF control
<1>0. songs \in Nat /\ play_sound_file_ref \in {Player, NoThread}
  BY SoundAssumption DEF TypeOK
<1>1. CASE GameDacStart
  <2>1. /\ pc[Game] = "dac_start" /\ songs' = songs + 1
        /\ pc'[Game] = "start" /\ state'[Game] = "SLEEPING"
        /\ pc'[Player] = pc[Player] /\ state'[Player] = state[Player]
        /\ play_sound_file_ref' = play_sound_file_ref
    BY <1>1, GameMoves DEF GameDacStart, At
  <2>2. songs' # 0 /\ (songs' = 1 => songs = 0) /\ (songs' <= 1 => songs <= 1)
    BY <1>0, <2>1
  <2> QED BY <2>1, <2>2 DEF RefInv
<1>2. CASE GamePlayerStart
  <2>1. /\ pc[Game] = "start" /\ songs' = songs
        /\ pc'[Game] = "play" /\ state'[Game] = "SLEEPING"
        /\ pc'[Player] = "suspend" /\ state'[Player] = "READY"
        /\ play_sound_file_ref' = play_sound_file_ref
    BY <1>2 DEF GamePlayerStart, At, TypeOK
  <2>2. songs' <= 1 => play_sound_file_ref # Player
    <3>1. songs # 0
      BY <2>1 DEF RefInv
    <3>2. songs = 1 => play_sound_file_ref = NoThread
      BY <2>1 DEF RefInv, PlaceInv
    <3> QED BY <1>0, <2>1, <3>1, <3>2
  <2>3. songs' # 0
    BY <2>1 DEF RefInv
  <2> QED BY <2>1, <2>2, <2>3 DEF RefInv
<1>3. CASE GameNoCard
  <2>1. /\ pc[Game] = "play" /\ songs' = songs
        /\ pc'[Game] = "stop"
        /\ pc'[Player] = pc[Player] /\ state'[Player] = state[Player]
        /\ play_sound_file_ref' = play_sound_file_ref
    BY <1>3, GameMoves DEF GameNoCard, At
  <2> QED BY <2>1 DEF RefInv
<1>4. CASE GameForceChange
  <2>1. pc[Game] = "play" /\ state[Game] = "READY"
    BY <1>4 DEF GameForceChange, At, MayRun
  <2>2. play_sound_file_ref = Player
    BY <2>1 DEF RefInv
  <2>3. /\ songs' = songs /\ pc'[Game] = "resume" /\ state'[Game] = "READY"
        /\ pc'[Player] = pc[Player] /\ state'[Player] = state[Player]
        /\ play_sound_file_ref' = play_sound_file_ref
    BY <1>4, <2>2, GameMoves DEF GameForceChange
  <2> QED BY <2>1, <2>3 DEF RefInv
<1>5. CASE GameResume
  <2>1. pc[Game] = "resume" /\ songs' = songs /\ play_sound_file_ref' = NoThread
    BY <1>5 DEF GameResume, At
  <2>2. state[Player] = "SUSPENDED" /\ play_sound_file_ref = Player
    BY <2>1 DEF RefInv
  <2>3. Continue(Game, "SLEEPING", "stop", {Player})
    <3>1. {play_sound_file_ref} \ {NoThread} = {Player}
      BY <2>2
    <3> QED BY <1>5, <3>1 DEF GameResume
  <2>4. /\ pc'[Game] = "stop" /\ pc'[Player] = pc[Player] /\ state'[Player] = "READY"
    BY <2>3, GameMoves
  <2>5. songs' # 0
    BY <2>1 DEF RefInv
  <2> QED BY <2>1, <2>4, <2>5 DEF RefInv
<1>6. CASE GameStopSong \/ GameDacStop
  <2>1. /\ pc[Game] \in {"stop", "dac_stop"} /\ songs' = songs
        /\ pc'[Game] \in {"dac_stop", "dac_start"}
        /\ pc'[Player] = pc[Player] /\ state'[Player] = state[Player]
        /\ play_sound_file_ref' = play_sound_file_ref
    BY <1>6, GameMoves DEF GameStopSong, GameDacStop, At
  <2> QED BY <2>1 DEF RefInv
<1> QED BY <1>1, <1>2, <1>3, <1>4, <1>5, <1>6 DEF GameStep

\* Player keeps the reference.
LEMMA PlayerKeepsRef ==
    TypeOK /\ PlaceInv /\ RefInv /\ PlayerStep => RefInv'
<1> SUFFICES ASSUME TypeOK, PlaceInv, RefInv, PlayerStep PROVE RefInv'
  OBVIOUS
<1> USE Threads, NoThreadAssumption DEF control
<1>1. state[Player] = "READY" /\ songs' = songs
  BY DEF PlayerStep, PlayerSuspend, PlayerOpen, PlayerTest, PlayerRead,
         PlayerReadFails, PlayerConvert, PlayerFirstBlock, PlayerNextBlock,
         PlayerSwap, PlayerFinish, PlayerBroadcast, At, MayRun, Halt
<1>2. CASE Halt
  BY <1>2 DEF Halt, RefInv
<1>3. ASSUME NEW s, NEW l, NEW T, Continue(Player, s, l, T), l # "exited"
      PROVE  /\ state'[Player] = s /\ pc'[Player] = l /\ pc'[Game] = pc[Game]
             /\ state[Game] = "READY" => state'[Game] = "READY"
             /\ state'[Game] \in {state[Game], "READY"}
  BY <1>3, PlayerMoves
<1>4. pc[Player] # "exited"
  BY <1>1 DEF PlaceInv, PlayerPlace
\* Game, about to hand a file over, sleeps.
<1>5. pc[Game] \in {"play", "resume"} => pc[Game] = "play" /\ state[Game] # "READY"
  BY <1>1 DEF RefInv
<1>6. CASE ~Halt /\ PlayerSuspend
  <2>1. /\ play_sound_file_ref' = Player /\ state'[Player] = "SUSPENDED"
        /\ pc'[Player] = "open" /\ pc'[Game] = pc[Game]
        /\ state[Game] = "READY" => state'[Game] = "READY"
    BY <1>3, <1>6 DEF PlayerSuspend
  <2> QED BY <1>1, <1>4, <1>5, <2>1 DEF RefInv
\* The other actions leave the reference alone.
<1>7. ASSUME NEW s \in {"READY", "QUEUED", "SLEEPING", "WTSEM"}, NEW l, NEW T,
             T = {} \/ (T \subseteq {Game} /\ ~Prepares),
             Continue(Player, s, l, T), l # "exited",
             play_sound_file_ref' = play_sound_file_ref
      PROVE  RefInv'
  <2>1. /\ state'[Player] = s /\ pc'[Player] = l /\ pc'[Game] = pc[Game]
        /\ state[Game] = "READY" => state'[Game] = "READY"
        /\ T = {} => state'[Game] = state[Game]
    BY <1>3, <1>7, PlayerMoves
  <2>2. pc[Game] \in {"play", "resume"} => state'[Game] # "READY"
    BY <1>5, <1>7, <2>1 DEF Prepares
  <2> QED BY <1>1, <1>4, <1>5, <1>7, <2>1, <2>2 DEF RefInv
<1>8. CASE PlayerOpen
  BY <1>7, <1>8 DEF PlayerOpen
<1>9. CASE PlayerTest
  BY <1>7, <1>9 DEF PlayerTest
<1>10. CASE PlayerRead \/ PlayerReadFails \/ PlayerConvert
  BY <1>7, <1>10 DEF PlayerRead, PlayerReadFails, PlayerConvert
<1>11. CASE ~Halt /\ PlayerFirstBlock
  BY <1>7, <1>11 DEF PlayerFirstBlock
<1>12. CASE PlayerNextBlock
  BY <1>7, <1>12 DEF PlayerNextBlock
<1>13. CASE PlayerSwap
  BY <1>7, <1>13 DEF PlayerSwap
<1>14. CASE PlayerFinish
  BY <1>7, <1>14 DEF PlayerFinish
<1>15. CASE PlayerBroadcast
  <2>1. ~Prepares
    BY <1>1, <1>15 DEF PlayerBroadcast, At, PlaceInv, Idle
  <2> QED BY <1>7, <1>15, <2>1 DEF PlayerBroadcast
<1> QED BY <1>2, <1>6, <1>8, <1>9, <1>10, <1>11, <1>12, <1>13, <1>14, <1>15
        DEF PlayerStep

\* The devices keep the reference.
LEMMA DevicesKeepRef ==
    TypeOK /\ SemInv /\ PlaceInv /\ RefInv /\ Devices => RefInv'
<1> SUFFICES ASSUME TypeOK, SemInv, PlaceInv, RefInv, Devices PROVE RefInv'
  OBVIOUS
<1> USE Threads DEF control
<1>1. pc' = pc /\ play_sound_file_ref' = play_sound_file_ref /\ songs' = songs
  BY DEF Devices, EndCb, EndOfBuffer, NextBuffer, NoBuffer, CardTaken, PlayerWakes,
         GameWakes
<1>2. CASE EndCb \/ CardTaken
  <2>1. /\ state'[Game] = state[Game]
        /\ \/ state'[Player] = state[Player]
           \/ state[Player] = "WTSEM" /\ state'[Player] = "READY"
    BY <1>2, Signalling DEF EndCb, EndOfBuffer, NextBuffer, NoBuffer, CardTaken, Ready
  <2> QED BY <1>1, <2>1 DEF RefInv
<1>3. CASE PlayerWakes
  <2>1. /\ state[Player] \in {"QUEUED", "SLEEPING"} /\ state'[Player] = "READY"
        /\ state'[Game] = state[Game]
    BY <1>3 DEF PlayerWakes, Ready
  <2> QED BY <1>1, <2>1 DEF RefInv
<1>4. CASE GameWakes
  <2>1. /\ state[Game] = "SLEEPING" /\ state'[Game] = "READY"
        /\ state'[Player] = state[Player]
        /\ pc[Game] \in {"start", "play"} => state[Player] # "READY"
    BY <1>4 DEF GameWakes, Ready
  <2>2. pc[Game] = "play" => state[Player] = "SUSPENDED"
    BY <2>1 DEF PlaceInv, Prepares, Idle, RefInv
  <2> QED BY <1>1, <2>1, <2>2 DEF RefInv
<1> QED BY <1>2, <1>3, <1>4 DEF Devices

\* Every step keeps the reference.
LEMMA RefStep ==
    TypeOK /\ SemInv /\ PlaceInv /\ RefInv /\ [Next]_vars
    => (TypeOK /\ SemInv /\ PlaceInv /\ RefInv)'
<1>1. RefInv /\ UNCHANGED vars => RefInv'
  BY DEF RefInv, vars, control
<1>2. TypeOK /\ UNCHANGED vars => TypeOK'
  BY DEF TypeOK, vars, control, exchange, filling, dacVars
<1> QED BY <1>1, <1>2, GameKeepsRef, PlayerKeepsRef, DevicesKeepRef, WaitStep,
           GameType, PlayerType, DevicesType DEF Next

LEMMA RefInit == Init => RefInv
BY Threads, NoThreadAssumption DEF Init, RefInv

\* waitSoundFileHasFinished tests the reference before it locks and waits on
\* the condition variable, so that it could miss the broadcast
\* (play_sound_file.c:254); Game never comes that far: the thread waits for a
\* file whenever a song is asked for.
GameNeverWaits == state[Game] # "WTCOND"

THEOREM GameIsNotKept == Spec => []GameNeverWaits
<1> DEFINE Inv == TypeOK /\ SemInv /\ PlaceInv /\ RefInv
<1>1. Init => Inv
  BY InitType, ExchangeInit, RefInit
<1>2. Inv /\ [Next]_vars => Inv'
  BY RefStep
<1>3. Inv => GameNeverWaits
  BY DEF PlaceInv, RefInv, GameNeverWaits
<1> QED BY <1>1, <1>2, <1>3, PTL DEF Spec

\* The first song meets no assertion, neither that of chThdSuspendS, which the
\* second song does, nor that of dacStartConversionI, whatever its length and
\* whenever it is stopped or the card is taken out (play_sound_file.c:70, 199,
\* 217).
FirstSongPlays == songs <= 1 => ~halted

THEOREM FirstSongIsSafe == KeepsUp => (Spec => []FirstSongPlays)
<1> SUFFICES ASSUME KeepsUp PROVE Spec => []FirstSongPlays
  OBVIOUS
<1> DEFINE Inv == /\ TypeOK /\ SemInv /\ PlaceInv /\ ExchangeInv /\ RefInv
                  /\ FirstSongPlays
<1>1. Init => Inv
  BY InitType, ExchangeInit, RefInit DEF Init, FirstSongPlays
<1>2. Inv /\ [Next]_vars => FirstSongPlays'
  <2> SUFFICES ASSUME Inv, [Next]_vars PROVE FirstSongPlays'
    OBVIOUS
  <2>1. songs' = songs \/ (GameDacStart /\ songs' = songs + 1)
    BY DEF Next, GameStep, GameDacStart, GamePlayerStart, GameNoCard,
           GameForceChange, GameResume, GameStopSong, GameDacStop, PlayerStep,
           PlayerSuspend, PlayerOpen, PlayerTest, PlayerRead, PlayerReadFails,
           PlayerConvert, PlayerFirstBlock, PlayerNextBlock, PlayerSwap,
           PlayerFinish, PlayerBroadcast, Halt, Devices, EndCb, EndOfBuffer,
           NextBuffer, NoBuffer, CardTaken, PlayerWakes, GameWakes, vars
  <2>2. songs' <= 1 => songs <= 1
    <3>1. songs \in Nat
      BY SoundAssumption DEF TypeOK
    <3> QED BY <2>1, <3>1
  <2>3. CASE halted' = halted
    BY <2>2, <2>3 DEF FirstSongPlays
  <2>4. CASE PlayerSuspend /\ play_sound_file_ref # NoThread
    <3>1. state[Player] = "READY" /\ play_sound_file_ref = Player
      BY <2>4 DEF PlayerSuspend, At, MayRun, TypeOK
    <3>2. ~(songs <= 1)
      BY <3>1 DEF RefInv
    <3> QED BY <2>2, <3>2 DEF FirstSongPlays
  <2>5. ~(PlayerFirstBlock /\ halted' # halted)
    <3> SUFFICES ASSUME PlayerFirstBlock PROVE halted' = halted
      OBVIOUS
    <3>1. pc[Player] = "hand_over" /\ first_time
      BY DEF PlayerFirstBlock, At
    <3>2. size_buffer_to_read = BLOCK
      BY <3>1 DEF ExchangeInv, FirstInv, InLoop
    <3>3. size_buffer_to_read % 2 # 1
      BY <3>2, SoundAssumption
    <3> QED BY <3>3 DEF PlayerFirstBlock
  <2>6. halted' = halted \/ (PlayerSuspend /\ play_sound_file_ref # NoThread)
    BY <2>5 DEF Next, GameStep, GameDacStart, GamePlayerStart, GameNoCard,
           GameForceChange, GameResume, GameStopSong, GameDacStop, PlayerStep,
           PlayerSuspend, PlayerOpen, PlayerTest, PlayerRead, PlayerReadFails,
           PlayerConvert, PlayerNextBlock, PlayerSwap,
           PlayerFinish, PlayerBroadcast, Devices, EndCb, EndOfBuffer,
           NextBuffer, NoBuffer, CardTaken, PlayerWakes, GameWakes, vars, control
  <2> QED BY <2>3, <2>4, <2>6
<1>3. Inv /\ [Next]_vars => Inv'
  BY <1>2, ExchangeStep, RefStep
<1>4. Inv => FirstSongPlays
  OBVIOUS
<1> QED BY <1>1, <1>3, <1>4, PTL DEF Spec

-----------------------------------------------------------------------------
(***************************************************************************)
(* The thread that waits for a buffer gets it.  So it is if no song ends   *)
(* with its last whole block or with a single sample more: there the       *)
(* interrupt takes the end of the song for the end of all.                 *)
(***************************************************************************)
EndsInPart(m) == \E k \in Nat, r \in 2..(BLOCK - 1) : m = k * BLOCK + r

SongsEndInPart == \A m \in FileLength : EndsInPart(m)

\* A block less leaves the same part.
LEMMA BlockLess ==
    ASSUME NEW m \in Nat, EndsInPart(m)
    PROVE  /\ m >= BLOCK => EndsInPart(m - BLOCK)
           /\ m < BLOCK => m >= 2
<1>1. BLOCK \in Nat /\ BLOCK >= 2
  BY SoundAssumption
<1>2. PICK k \in Nat, r \in 2..(BLOCK - 1) : m = k * BLOCK + r
  BY DEF EndsInPart
<1>3. CASE k = 0
  <2>1. 0 * BLOCK = 0
    BY <1>1
  <2>2. m = r
    BY <1>1, <1>2, <1>3, <2>1
  <2> QED BY <1>1, <2>2
<1>4. CASE k # 0
  <2>1. k - 1 \in Nat
    BY <1>4
  <2>2. k * BLOCK = (k - 1) * BLOCK + BLOCK
    BY <1>1, <2>1
  <2>3. (k - 1) * BLOCK \in Nat
    BY <1>1, <2>1
  <2>4. m - BLOCK = (k - 1) * BLOCK + r /\ m >= BLOCK
    BY <1>1, <1>2, <2>2, <2>3
  <2>5. EndsInPart(m - BLOCK)
    BY <1>2, <2>1, <2>4, Zenon DEF EndsInPart
  <2>6. ~(m < BLOCK)
    BY <1>1, <2>4
  <2> QED BY <2>5, <2>6
<1> QED BY <1>3, <1>4

\* What is still to read ends in a part of a block.
PartInv ==
    /\ pc[Player] \in {"test", "read"} => EndsInPart(unread)
    /\ \/ pc[Player] \in {"convert", "hand_over"}
       \/ pc[Player] = "swap" /\ state[Player] = "WTSEM"
       => size_buffer_to_read >= 2
    /\ pc[Player] \in {"convert", "hand_over", "swap"}
       /\ size_buffer_to_read = BLOCK => EndsInPart(unread)
    /\ size_buffer_to_read # 1

\* The DAC plays a whole block while the thread gets the next one.
GoesOnInv ==
    /\ dac = "PLAYING" => depth > 1
    /\ /\ InLoop /\ ~first_time /\ pc[Game] = "stop"
       /\ pc[Player] = "swap" /\ state[Player] # "WTSEM" => size_buffer_to_read = BLOCK
       => dac = "PLAYING" /\ depth = BLOCK

\* Game keeps both.
LEMMA GameGoesOn ==
    TypeOK /\ PlaceInv /\ ExchangeInv /\ PartInv /\ GoesOnInv /\ GameStep
    => (PartInv /\ GoesOnInv)'
<1> SUFFICES ASSUME TypeOK, PlaceInv, ExchangeInv, PartInv, GoesOnInv, GameStep
             PROVE  (PartInv /\ GoesOnInv)'
  OBVIOUS
<1> USE Threads DEF control, exchange, filling, dacVars
<1>0. pc[Game] \in {"start", "play", "resume"} => ~InLoop /\ dac = "STOPPED"
  BY DEF PlaceInv, Prepares, Idle, InLoop, ExchangeInv, FirstInv
<1>1. CASE GameDacStart \/ GameDacStop
  <2>1. /\ pc'[Player] = pc[Player] /\ state'[Player] = state[Player]
        /\ pc'[Game] \in {"start", "dac_start"} /\ dac' = "STOPPED"
        /\ UNCHANGED <<exchange, filling>>
    BY <1>1, GameMoves DEF GameDacStart, GameDacStop, dac_stop
  <2> QED BY <2>1 DEF PartInv, GoesOnInv, EndsInPart
<1>2. CASE GamePlayerStart \/ GameResume
  <2>1. /\ pc[Game] \in {"start", "resume"}
        /\ UNCHANGED <<exchange, filling, dacVars>>
    BY <1>2 DEF GamePlayerStart, GameResume, At
  <2>2. ~InLoop'
    <3>1. CASE GamePlayerStart
      BY <3>1 DEF GamePlayerStart, InLoop, TypeOK
    <3>2. CASE GameResume
      BY <1>0, <2>1, <3>2, GameMoves DEF GameResume, InLoop
    <3> QED BY <1>2, <3>1, <3>2
  <2> QED BY <1>0, <2>1, <2>2 DEF PartInv, GoesOnInv, InLoop
<1>3. CASE GameNoCard
  <2>1. /\ pc[Game] = "play" /\ pc'[Player] = pc[Player]
        /\ state'[Player] = state[Player]
        /\ UNCHANGED <<exchange, filling, dacVars>>
    BY <1>3, GameMoves DEF GameNoCard, At
  <2> QED BY <1>0, <2>1 DEF PartInv, GoesOnInv, InLoop
<1>4. CASE GameForceChange \/ GameStopSong
  <2>1. /\ pc'[Player] = pc[Player] /\ state'[Player] = state[Player]
        /\ pc'[Game] \in {"resume", "dac_stop"}
        /\ UNCHANGED <<exchange, filling, dacVars>>
    BY <1>4, GameMoves DEF GameForceChange, GameStopSong
  <2> QED BY <2>1 DEF PartInv, GoesOnInv, EndsInPart
<1> QED BY <1>1, <1>2, <1>3, <1>4 DEF GameStep

\* The thread keeps both.
LEMMA PlayerGoesOn ==
    SongsEndInPart /\ TypeOK /\ SemInv /\ PlaceInv /\ ExchangeInv /\ PartInv
    /\ GoesOnInv /\ PlayerStep => (PartInv /\ GoesOnInv)'
<1> SUFFICES ASSUME SongsEndInPart, TypeOK, SemInv, PlaceInv, ExchangeInv, PartInv,
                    GoesOnInv, PlayerStep
             PROVE  (PartInv /\ GoesOnInv)'
  OBVIOUS
<1> USE Threads DEF exchange, filling, dacVars
<1>0. BLOCK \in Nat /\ BLOCK >= 2 /\ size_buffer_to_read \in 0..BLOCK /\ unread \in Nat
  BY SoundAssumption DEF TypeOK
<1>1. CASE Halt
  BY <1>1 DEF Halt, control, PartInv, GoesOnInv, InLoop, EndsInPart
<1>2. CASE ~Halt /\ (PlayerSuspend \/ PlayerReadFails \/ PlayerFinish \/ PlayerBroadcast)
  <2>1. /\ pc'[Player] \in {"open", "finish", "broadcast", "suspend"}
        /\ UNCHANGED <<exchange, dacVars>>
    BY <1>2, PlayerMoves DEF PlayerSuspend, PlayerReadFails, PlayerFinish,
                             PlayerBroadcast
  <2> QED BY <2>1 DEF PartInv, GoesOnInv, InLoop
<1>3. CASE PlayerOpen
  <2>1. /\ UNCHANGED <<size_buffer_to_read, dacVars>>
        /\ \/ /\ pc'[Player] = "test" /\ first_time' = TRUE
              /\ unread' \in FileLength
           \/ pc'[Player] = "finish"
    BY <1>3, PlayerMoves DEF PlayerOpen
  <2>2. pc'[Player] = "test" => EndsInPart(unread')
    BY <2>1 DEF SongsEndInPart
  <2> QED BY <2>1, <2>2 DEF PartInv, GoesOnInv, InLoop, EndsInPart
<1>4. CASE PlayerTest
  <2>1. /\ pc[Player] = "test" /\ pc'[Game] = pc[Game]
        /\ UNCHANGED <<exchange, first_time, unread>>
        /\ \/ pc'[Player] = "read" /\ UNCHANGED dacVars
           \/ pc'[Player] = "finish" /\ dac' = "STOPPED"
    BY <1>4, PlayerMoves DEF PlayerTest, At, dac_stop
  <2> QED BY <2>1 DEF PartInv, GoesOnInv, InLoop, EndsInPart
<1>5. CASE PlayerRead
  <2>1. /\ pc[Player] = "read" /\ pc'[Game] = pc[Game] /\ pc'[Player] = "convert"
        /\ UNCHANGED <<first_time, dacVars>>
        /\ size_buffer_to_read' = IF unread < BLOCK THEN unread ELSE BLOCK
        /\ unread' = unread - size_buffer_to_read'
    BY <1>5, PlayerMoves DEF PlayerRead, Samples, At
  <2>2. EndsInPart(unread)
    BY <2>1 DEF PartInv
  <2>3. CASE unread < BLOCK
    <3>1. size_buffer_to_read' >= 2 /\ size_buffer_to_read' # BLOCK
      BY <1>0, <2>1, <2>2, <2>3, BlockLess
    <3> QED BY <1>0, <2>1, <2>3, <3>1 DEF PartInv, GoesOnInv, InLoop
  <2>4. CASE ~(unread < BLOCK)
    <3>1. EndsInPart(unread') /\ size_buffer_to_read' = BLOCK
      BY <1>0, <2>1, <2>2, <2>4, BlockLess
    <3>2. PartInv'
      <4>1. EndsInPart(unread)'
        BY <3>1 DEF EndsInPart
      <4> QED BY <1>0, <2>1, <3>1, <4>1 DEF PartInv
    <3> QED BY <2>1, <3>2 DEF GoesOnInv, InLoop
  <2> QED BY <2>3, <2>4
<1>6. CASE PlayerConvert
  <2>1. /\ pc[Player] = "convert" /\ pc'[Game] = pc[Game] /\ pc'[Player] = "hand_over"
        /\ UNCHANGED <<exchange, first_time, unread, dacVars>>
    BY <1>6, PlayerMoves DEF PlayerConvert, At
  <2> QED BY <2>1 DEF PartInv, GoesOnInv, InLoop, EndsInPart
<1>7. CASE ~Halt /\ PlayerFirstBlock
  <2>1. /\ pc[Player] = "hand_over" /\ first_time /\ dac = "STOPPED"
        /\ size_buffer_to_read = BLOCK
    BY <1>7 DEF PlayerFirstBlock, At, ExchangeInv, FirstInv, InLoop
  <2>2. /\ pc'[Player] = "swap" /\ state'[Player] = "READY"
        /\ UNCHANGED <<exchange, unread>>
        /\ dac' = "PLAYING" /\ depth' = BLOCK
    BY <1>7, <2>1, PlayerMoves DEF PlayerFirstBlock, DacPlays
  <2>3. PartInv'
    BY <1>0, <2>1, <2>2 DEF PartInv, EndsInPart
  <2> QED BY <1>0, <2>2, <2>3 DEF GoesOnInv
<1>8. CASE PlayerNextBlock
  <2>1. /\ pc[Player] = "hand_over" /\ state[Player] = "READY" /\ ~first_time
    BY <1>8 DEF PlayerNextBlock, At, MayRun
  <2>2. SemBlocks(change_buffer)
    BY <2>1, Waiting DEF ExchangeInv, SignalInv, InLoop
  <2>3. /\ pc'[Player] = "swap" /\ state'[Player] = "WTSEM" /\ pc'[Game] = pc[Game]
        /\ UNCHANGED <<exchange, filling, dacVars>>
    BY <1>8, <2>2, PlayerMoves DEF PlayerNextBlock
  <2> QED BY <2>1, <2>3 DEF PartInv, GoesOnInv, InLoop, EndsInPart
<1>9. CASE PlayerSwap
  <2>1. /\ pc[Player] = "swap" /\ state[Player] = "READY" /\ pc'[Game] = pc[Game]
        /\ UNCHANGED <<exchange, first_time, unread, dacVars>>
        /\ \/ pc'[Player] = "test" /\ size_buffer_to_read >= BLOCK
           \/ pc'[Player] = "finish"
    BY <1>9, PlayerMoves DEF PlayerSwap, MoreToRead, At, MayRun
  <2>2. pc'[Player] = "test" => size_buffer_to_read = BLOCK
    BY <1>0, <2>1
  <2> QED BY <2>1, <2>2 DEF PartInv, GoesOnInv, InLoop, EndsInPart
<1> QED BY <1>1, <1>2, <1>3, <1>4, <1>5, <1>6, <1>7, <1>8, <1>9 DEF PlayerStep

\* What the interrupt hands to the DAC, and what it leaves.
LEMMA NextSize ==
    ASSUME TypeOK, PartInv, size_buffer_to_read # 0
    PROVE  /\ EvenSamples > 1 /\ EvenSamples <= BLOCK
           /\ EvenSamples = BLOCK <=> size_buffer_to_read = BLOCK
<1>1. /\ BLOCK \in Nat /\ size_buffer_to_read \in 0..BLOCK /\ BLOCK % 2 = 0
      /\ size_buffer_to_read # 1
  BY SoundAssumption DEF TypeOK, PartInv
<1>2. EvenSamples = size_buffer_to_read - (size_buffer_to_read % 2)
  BY <1>1 DEF EvenSamples
<1> QED BY <1>1, <1>2

\* If the thread keeps up, the interrupt and the devices keep both.
LEMMA DevicesGoOn ==
    KeepsUp /\ TypeOK /\ SemInv /\ PlaceInv /\ ExchangeInv /\ PartInv /\ GoesOnInv
    /\ Devices => (PartInv /\ GoesOnInv)'
<1> SUFFICES ASSUME KeepsUp, TypeOK, SemInv, PlaceInv, ExchangeInv, PartInv,
                    GoesOnInv, Devices
             PROVE  (PartInv /\ GoesOnInv)'
  OBVIOUS
<1> USE Threads DEF dacVars, exchange, filling
<1>1. CASE EndCb
  <2>1. dac = "PLAYING" /\ BlockIsRead /\ pc' = pc /\ UNCHANGED filling
    BY <1>1 DEF EndCb, EndOfBuffer, NextBuffer, NoBuffer
  <2>2. (state[Player] = "WTSEM" /\ pc[Player] = "swap") \/ ~InLoop
    BY <2>1 DEF BlockIsRead, InLoop, PlaceInv, PlayerPlace
  <2>3. CASE size_buffer_to_read = 0
    <3>1. dac' = "STOPPED" /\ UNCHANGED <<state, size_buffer_to_read>>
      BY <1>1, <2>3 DEF EndCb, EndOfBuffer, NextBuffer, NoBuffer, dac_stop
    <3>2. ~InLoop
      BY <2>2, <2>3 DEF PartInv
    <3> QED BY <2>1, <3>1, <3>2 DEF PartInv, GoesOnInv, InLoop
  <2>4. CASE size_buffer_to_read # 0
    <3>1. /\ dac' = "PLAYING" /\ depth' = EvenSamples
          /\ size_buffer_to_read' = IF depth' < BLOCK THEN 0 ELSE depth'
          /\ state' = Ready(state, BSemSignalled(change_buffer))
      BY <1>1, <2>4 DEF EndCb, EndOfBuffer, NextBuffer, NoBuffer, DacPlays
    <3>2. state[Player] = "WTSEM" => state'[Player] = "READY"
      BY <3>1, Signalling DEF Ready
    <3>3. /\ depth' > 1 /\ depth' <= BLOCK /\ depth' \in Int /\ BLOCK \in Nat
          /\ depth' = BLOCK <=> size_buffer_to_read = BLOCK
      BY <2>4, <3>1, NextSize, EvenDepth, SoundAssumption
    <3>4. /\ size_buffer_to_read' # 1
          /\ size_buffer_to_read' = BLOCK =>
                size_buffer_to_read = BLOCK /\ depth' = BLOCK
      BY <3>1, <3>3, SoundAssumption
    <3>5. CASE ~InLoop
      BY <2>1, <3>1, <3>3, <3>4, <3>5 DEF PartInv, GoesOnInv, InLoop
    <3>6. CASE state[Player] = "WTSEM" /\ pc[Player] = "swap"
      <4>1. PartInv'
        BY <2>1, <3>2, <3>4, <3>6 DEF PartInv, EndsInPart
      <4>2. GoesOnInv'
        BY <2>1, <3>1, <3>2, <3>3, <3>4, <3>6 DEF GoesOnInv, InLoop
      <4> QED BY <4>1, <4>2
    <3> QED BY <2>2, <3>5, <3>6
  <2> QED BY <2>3, <2>4
<1>2. CASE PlayerWakes
  <2>1. /\ pc[Player] \in {"read", "broadcast"} /\ state'[Player] = "READY"
        /\ UNCHANGED <<pc, exchange, filling, dacVars>>
    BY <1>2 DEF PlayerWakes, Ready, PlaceInv, PlayerPlace
  <2> QED BY <2>1 DEF PartInv, GoesOnInv, InLoop, EndsInPart
<1>3. CASE CardTaken
  BY <1>3 DEF CardTaken, PartInv, GoesOnInv, InLoop, EndsInPart
<1>4. CASE GameWakes
  <2>1. /\ state'[Player] = state[Player]
        /\ UNCHANGED <<pc, exchange, filling, dacVars>>
    BY <1>4 DEF GameWakes, Ready
  <2> QED BY <2>1 DEF PartInv, GoesOnInv, InLoop, EndsInPart
<1> QED BY <1>1, <1>2, <1>3, <1>4 DEF Devices

\* As long as the song is not stopped, a thread that waits for a buffer is
\* not waiting in vain: the DAC plays, so that its interrupt comes, does not
\* return at once, and finds a block to go on with, for which it signals; and
\* the DAC is never left repeating a single sample
\* (play_sound_file.c:54-93, 167).
PlayerIsWoken ==
    /\ state[Player] = "WTSEM" /\ pc[Game] = "stop" =>
          dac = "PLAYING" /\ size_buffer_to_read > 0
    /\ dac = "PLAYING" => depth > 1

THEOREM PlayerWaitsForTheDac ==
    KeepsUp /\ SongsEndInPart => (Spec => []PlayerIsWoken)
<1> SUFFICES ASSUME KeepsUp, SongsEndInPart PROVE Spec => []PlayerIsWoken
  OBVIOUS
<1> DEFINE Inv == /\ TypeOK /\ SemInv /\ PlaceInv /\ ExchangeInv /\ PartInv
                  /\ GoesOnInv
<1>1. Init => Inv
  <2> SUFFICES ASSUME Init PROVE PartInv /\ GoesOnInv
    BY InitType, ExchangeInit
  <2>1. /\ pc[Player] = "exited" /\ size_buffer_to_read = 0 /\ dac = "STOPPED"
    BY Threads DEF Init
  <2> QED BY <2>1 DEF PartInv, GoesOnInv, InLoop
<1>2. Inv /\ [Next]_vars => Inv'
  <2>1. PartInv /\ GoesOnInv /\ UNCHANGED vars => (PartInv /\ GoesOnInv)'
    BY DEF PartInv, GoesOnInv, InLoop, EndsInPart, vars, exchange, filling, dacVars
  <2> QED BY <2>1, ExchangeStep, GameGoesOn, PlayerGoesOn, DevicesGoOn DEF Next
<1>3. Inv => PlayerIsWoken
  <2> SUFFICES ASSUME Inv PROVE PlayerIsWoken
    OBVIOUS
  <2>1. CASE state[Player] = "WTSEM"
    <3>1. pc[Player] = "swap" /\ ~first_time
      BY <2>1 DEF PlaceInv, PlayerPlace, ExchangeInv, FirstInv, InLoop
    <3>2. size_buffer_to_read > 0
      BY <2>1, <3>1, SoundAssumption DEF PartInv, TypeOK
    <3> QED BY <2>1, <3>1, <3>2 DEF GoesOnInv, InLoop, PlayerIsWoken
  <2>2. CASE state[Player] # "WTSEM"
    BY <2>2 DEF GoesOnInv, PlayerIsWoken
  <2> QED BY <2>1, <2>2
<1> QED BY <1>1, <1>2, <1>3, PTL DEF Spec

=============================================================================
