---------------------------- MODULE Pathing_proofs ----------------------------
(***************************************************************************)
(* What is proved of the drive, for all moves, any number of them and of   *)
(* games, and whatever the wheels make while another thread runs: the      *)
(* types, that the robot stands when the game takes its photo, how near    *)
(* to its goal a move ends and how far a wheel may stray from it.          *)
(***************************************************************************)
EXTENDS Pathing, WellFoundedInduction, TLAPS

MovePc == {"read left", "read right", "set right", "set left"}

\* TypeOK, with the measures of the calibration: the last one ends it.
FlagsOK ==
    /\ started \in BOOLEAN /\ calibrationInProgress \in BOOLEAN
    /\ terminate \in BOOLEAN

PlacesOK ==
    /\ game \in {"drive", "calibrate", "wait", "photo"}
    /\ pc \in {"none", "loop", "stop"} \cup MovePc
    /\ option \in {"PATHING", "PATHING_FINISHED"}
    /\ sem_finished_pathing \in 0..1 /\ moves \in 0..MaxMoves

CalibrationOK ==
    /\ calibrationState \in 0..1 /\ calibrationNumSamples \in 0..SAMPLES
    /\ calibrationInProgress /\ calibrationState = 1
          => calibrationNumSamples < SAMPLES

WheelsOK ==
    /\ goal \in [Wheel -> Int] /\ count \in [Wheel -> Int]
    /\ direction \in [Wheel -> -1..1]
    /\ error \in [Wheel -> Int] /\ state \in Int
    /\ stepped \subseteq Wheel /\ own \in 0..OWN

TypeInv == FlagsOK /\ PlacesOK /\ CalibrationOK /\ WheelsOK

LEMMA Bounds ==
    /\ LAST_MOVE \in Nat /\ MaxMoves \in Nat /\ OWN \in Nat
    /\ SAMPLES \in Nat /\ SAMPLES >= 1
    /\ PathMoves \subseteq Int \X Int /\ SLICE \subseteq Nat
    /\ OWN >= 2
BY MovesAssumption

LEMMA BothType == \A l, r \in Int : Both(l, r) \in [Wheel -> Int]
BY DEF Both

LEMMA BothHalt == Both(0, 0) \in [Wheel -> Int] /\ Both(0, 0) \in [Wheel -> -1..1]
BY DEF Both

\* A move is a pair of lengths, also when it is clipped.
LEMMA MovesAreLengths ==
    \A m \in Evasions \cup ClippedMoves : m[1] \in Int /\ m[2] \in Int
<1>1. \A x \in Int : Clip(x) \in Int
  BY DEF Clip, Most, MAX_MOTOR_DISPLACEMENT
<1>2. \A m \in ClippedMoves : m[1] \in Int /\ m[2] \in Int
  <2> SUFFICES ASSUME NEW m \in ClippedMoves PROVE m[1] \in Int /\ m[2] \in Int
    OBVIOUS
  <2>1. PICK q \in PathMoves : m = <<Clip(q[1]), Clip(q[2])>>
    BY DEF ClippedMoves
  <2>2. q[1] \in Int /\ q[2] \in Int
    BY Bounds
  <2> QED
    BY <1>1, <2>1, <2>2
<1>3. \A m \in Evasions : m[1] \in Int /\ m[2] \in Int
  BY DEF Evasions
<1> QED
  BY <1>2, <1>3

LEMMA ErrorType == ASSUME WheelsOK, NEW w \in Wheel PROVE Error(w) \in Int
<1>1. count[w] \in Int /\ goal[w] \in Int
  BY DEF WheelsOK
<1>2. Pos(count[w]) \in Int
  BY <1>1 DEF Pos
<1> QED
  BY <1>1, <1>2 DEF Error, STEP

LEMMA DirectionType == \A w \in Wheel : \A last : Direction(w, last) \in -1..1
BY DEF Direction

LEMMA InitType == Init => TypeInv
<1> SUFFICES ASSUME Init PROVE TypeInv
  OBVIOUS
<1>1. FlagsOK
  BY Zenon DEF Init, FlagsOK
<1>2. PlacesOK
  BY Bounds DEF Init, PlacesOK
<1>3. CalibrationOK
  BY Bounds DEF Init, CalibrationOK
<1>4. WheelsOK
  BY Bounds DEF Init, WheelsOK
<1> QED
  BY <1>1, <1>2, <1>3, <1>4 DEF TypeInv

-----------------------------------------------------------------------------
LEMMA NextFlags == TypeInv /\ [Next]_vars => FlagsOK'
<1> SUFFICES ASSUME FlagsOK, CalibrationOK, [Next]_vars PROVE FlagsOK'
  BY DEF TypeInv
<1> USE DEF FlagsOK, proximity, thread
<1>1. CASE GameThd
  BY <1>1, Zenon DEF GameThd, GamePathingInit, GameCalibrated,
     GamePathingWaitFinish, GameComesBack
<1>2. CASE ProximityCalibrate
  BY <1>2, Zenon DEF ProximityCalibrate
<1>3. CASE PathingThd
  BY <1>3, Zenon DEF PathingThd, PathingExit, PathingFinished, PathingStop, PathingMove,
     PathingLastMove, Pass, ReadLeft, ReadRight, SetRight, SetLeft
<1>4. CASE (\E w \in Wheel : Microstep(w)) \/ OthersSlice
  BY <1>4, Zenon DEF Microstep, OthersSlice
<1>5. CASE UNCHANGED vars
  BY <1>5, Zenon DEF vars
<1> QED
  BY <1>1, <1>2, <1>3, <1>4, <1>5 DEF Next

LEMMA NextPlaces == TypeInv /\ [Next]_vars => PlacesOK'
<1> SUFFICES ASSUME PlacesOK, [Next]_vars PROVE PlacesOK'
  BY DEF TypeInv
<1> USE Bounds DEF PlacesOK, MovePc, thread
<1>1. CASE GamePathingInit
  BY <1>1 DEF GamePathingInit
<1>2. CASE GameCalibrated
  <2>1. /\ game' = "wait" /\ pc' = "loop" /\ option' = "PATHING" /\ moves' = 0
        /\ sem_finished_pathing' = sem_finished_pathing
    BY <1>2, Zenon DEF GameCalibrated
  <2>2. moves' \in 0..MaxMoves
    <3>1. moves' = 0
      BY <2>1, Zenon
    <3> QED
      BY ONLY <3>1, Bounds
  <2> QED
    BY <2>1, <2>2, Zenon
<1>3. CASE GamePathingWaitFinish
  <2>1. /\ game' = "photo" /\ sem_finished_pathing' = 0
        /\ UNCHANGED <<pc, option, moves>>
    BY <1>3, Zenon DEF GamePathingWaitFinish
  <2>2. sem_finished_pathing' \in 0..1
    <3>1. sem_finished_pathing' = 0
      BY <2>1, Zenon
    <3> QED
      BY ONLY <3>1, Bounds
  <2> QED
    BY <2>1, <2>2, Zenon
<1>4. CASE GameComesBack
  BY <1>4 DEF GameComesBack
<1>5. CASE ProximityCalibrate
  BY <1>5 DEF ProximityCalibrate
<1>6. CASE PathingExit
  BY <1>6 DEF PathingExit
<1>7. CASE PathingFinished \/ PathingStop
  <2>1. /\ pc' \in {"stop", "loop"} /\ UNCHANGED <<game, option, moves>>
        /\ sem_finished_pathing' = 1 \/ sem_finished_pathing' = sem_finished_pathing
    BY <1>7, Zenon DEF PathingFinished, PathingStop
  <2>2. sem_finished_pathing' \in 0..1
    <3>1. sem_finished_pathing \in 0..1
      OBVIOUS
    <3> QED
      BY ONLY <2>1, <3>1, Bounds
  <2> QED
    BY <2>1, <2>2, Zenon
<1>8. CASE PathingMove
  <2>1. /\ moves < MaxMoves /\ moves' = moves + 1
        /\ UNCHANGED <<game, option, sem_finished_pathing>>
    BY <1>8, Zenon DEF PathingMove
  <2>2. pc' = "read left"
    BY <1>8, Zenon DEF PathingMove, MoveStart
  <2>3. moves' \in 0..MaxMoves
    <3>1. moves < MaxMoves /\ moves' = moves + 1
      BY <2>1, Zenon
    <3> QED
      BY ONLY <3>1, Bounds, moves \in 0..MaxMoves
  <2> QED
    BY <2>1, <2>2, <2>3, Zenon
<1>9. CASE PathingLastMove
  BY <1>9 DEF PathingLastMove, MoveStart
<1>10. CASE Pass
  BY <1>10 DEF Pass, ReadLeft, ReadRight, SetRight, SetLeft
<1>11. CASE (\E w \in Wheel : Microstep(w)) \/ OthersSlice
  BY <1>11 DEF Microstep, OthersSlice
<1>12. CASE UNCHANGED vars
  BY <1>12 DEF vars
<1> QED
  BY <1>1, <1>2, <1>3, <1>4, <1>5, <1>6, <1>7, <1>8, <1>9, <1>10, <1>11, <1>12
  DEF Next, GameThd, PathingThd

\* The count ends the calibration when it reaches SAMPLES.
LEMMA NextCalibration == TypeInv /\ [Next]_vars => CalibrationOK'
<1> SUFFICES ASSUME CalibrationOK, FlagsOK, [Next]_vars PROVE CalibrationOK'
  BY DEF TypeInv
<1>1. CASE UNCHANGED proximity
  BY <1>1 DEF proximity, CalibrationOK
<1>2. CASE GamePathingInit
  BY <1>2 DEF GamePathingInit, CalibrationOK
<1>3. CASE ProximityCalibrate
  <2>1. calibrationNumSamples' \in 0..SAMPLES
    BY <1>3, Bounds DEF ProximityCalibrate, CalibrationOK
  <2>2. calibrationInProgress' => calibrationNumSamples' # SAMPLES
    BY <1>3 DEF ProximityCalibrate
  <2>3. calibrationState' = 1
    BY <1>3 DEF ProximityCalibrate
  <2> QED
    BY <2>1, <2>2, <2>3, Bounds DEF CalibrationOK
<1>4. CASE Next /\ ~GamePathingInit /\ ~ProximityCalibrate
  BY <1>1, <1>4, Zenon
  DEF Next, GameThd, PathingThd, Pass, GameCalibrated, GamePathingWaitFinish,
      GameComesBack, PathingExit, PathingFinished, PathingStop, PathingMove,
      PathingLastMove, ReadLeft, ReadRight, SetRight, SetLeft, Microstep,
      OthersSlice
<1>5. CASE UNCHANGED vars
  BY <1>1, <1>5 DEF vars
<1> QED
  BY <1>2, <1>3, <1>4, <1>5

LEMMA NextWheels == TypeInv /\ [Next]_vars => WheelsOK'
<1> SUFFICES ASSUME WheelsOK, [Next]_vars PROVE WheelsOK'
  BY DEF TypeInv
<1> USE DEF motors, pid, time, thread, proximity
<1>1. CASE UNCHANGED <<goal, motors, pid, time>>
  BY <1>1, Zenon DEF WheelsOK
<1>2. CASE GameCalibrated \/ GamePathingWaitFinish \/ GameComesBack
           \/ ProximityCalibrate \/ PathingExit \/ PathingFinished \/ PathingStop
           \/ UNCHANGED vars
  BY <1>1, <1>2, Zenon
  DEF GameCalibrated, GamePathingWaitFinish, GameComesBack,
      ProximityCalibrate, PathingExit, PathingFinished, PathingStop, vars
<1>3. CASE GamePathingInit
  <2>1. count' \in [Wheel -> Int] /\ direction' \in [Wheel -> -1..1]
    BY <1>3, BothHalt, Zenon DEF GamePathingInit
  <2> QED
    BY <1>3, <2>1 DEF GamePathingInit, WheelsOK
<1>4. ASSUME NEW l \in Int, NEW r \in Int, MoveStart(l, r)
      PROVE  WheelsOK'
  <2>1. count' \in [Wheel -> Int] /\ goal' \in [Wheel -> Int]
    BY <1>4, BothType, BothHalt, Zenon DEF MoveStart
  <2>2. state' = 0 /\ UNCHANGED <<direction, error, stepped, own>>
    BY <1>4, Zenon DEF MoveStart
  <2>3. state' \in Int
    BY <2>2
  <2> QED
    BY <2>1, <2>2, <2>3, Zenon DEF WheelsOK
<1>5. CASE PathingMove
  BY <1>4, <1>5, MovesAreLengths DEF PathingMove
<1>6. CASE PathingLastMove
  BY <1>4, <1>6, Bounds DEF PathingLastMove
<1>7. CASE ReadLeft
  <2>1. error' \in [Wheel -> Int]
    BY <1>7, ErrorType DEF ReadLeft, WheelsOK, Wheel
  <2> QED
    BY <1>7, <2>1 DEF ReadLeft, WheelsOK
<1>8. CASE ReadRight
  <2>1. error' \in [Wheel -> Int]
    BY <1>8, ErrorType DEF ReadRight, WheelsOK, Wheel
  <2> QED
    BY <1>8, <2>1 DEF ReadRight, WheelsOK
<1>9. CASE SetRight
  <2>1. direction' \in [Wheel -> -1..1]
    BY <1>9, DirectionType DEF SetRight, WheelsOK, Wheel
  <2> QED
    BY <1>9, <2>1 DEF SetRight, WheelsOK
<1>10. CASE SetLeft
  <2>1. direction' \in [Wheel -> -1..1] /\ count' \in [Wheel -> Int]
    <3>1. CASE Arrived
      BY <1>10, <3>1, BothHalt, Zenon DEF SetLeft
    <3>2. CASE ~Arrived
      <4>1. /\ count' = count
            /\ direction' = [direction EXCEPT
                               !["left"] = Direction("left", error["right"])]
        BY <1>10, <3>2, Zenon DEF SetLeft
      <4>2. Direction("left", error["right"]) \in -1..1
        BY DirectionType DEF Wheel
      <4> QED
        BY <4>1, <4>2 DEF WheelsOK
    <3> QED
      BY <3>1, <3>2
  <2>2. stepped' \subseteq Wheel /\ own' \in 0..OWN
    <3>1. \/ stepped' = {} /\ own' = IF own < OWN THEN own + 1 ELSE own
          \/ stepped' = stepped /\ own' = own
      BY <1>10, Zenon DEF SetLeft
    <3> QED
      BY <3>1, Bounds DEF WheelsOK
  <2>3. state' \in Int /\ error' = error /\ goal' = goal
    BY <1>10 DEF SetLeft, WheelsOK, Wheel
  <2> QED
    BY <2>1, <2>2, <2>3 DEF WheelsOK
<1>11. CASE \E w \in Wheel : Microstep(w)
  <2>1. PICK w \in Wheel : Microstep(w)
    BY <1>11
  <2>2. count[w] + direction[w] \in Int
    BY DEF WheelsOK
  <2>3. count' \in [Wheel -> Int] /\ stepped' \subseteq Wheel
    BY <2>1, <2>2 DEF Microstep, WheelsOK
  <2> QED
    BY <2>1, <2>3 DEF Microstep, WheelsOK
<1>12. CASE OthersSlice
  <2>1. PICK n \in [Wheel -> SLICE] :
           count' = [w \in Wheel |-> count[w] + n[w] * direction[w]]
    BY <1>12 DEF OthersSlice
  <2>2. \A w \in Wheel : count[w] + n[w] * direction[w] \in Int
    <3> SUFFICES ASSUME NEW w \in Wheel
                 PROVE  count[w] + n[w] * direction[w] \in Int
      OBVIOUS
    <3>1. n[w] \in Nat
      BY Bounds
    <3>2. count[w] \in Int /\ direction[w] \in -1..1
      BY DEF WheelsOK
    <3> QED
      BY <3>1, <3>2
  <2>3. count' \in [Wheel -> Int]
    BY <2>1, <2>2
  <2>4. own' \in 0..OWN
    BY <1>12, Bounds DEF OthersSlice
  <2> QED
    BY <1>12, <2>3, <2>4 DEF OthersSlice, WheelsOK
<1> QED
  BY <1>2, <1>3, <1>5, <1>6, <1>7, <1>8, <1>9, <1>10, <1>11, <1>12
  DEF Next, GameThd, PathingThd, Pass

LEMMA TypeInvariant == Spec => []TypeInv
<1>1. TypeInv /\ [Next]_vars => TypeInv'
  BY NextFlags, NextPlaces, NextCalibration, NextWheels DEF TypeInv
<1> QED
  BY <1>1, InitType, PTL DEF Spec

\* The calibration counts to SAMPLES and no further, pathingThd's semaphore
\* stays binary, and whatever the motors do, their counters, directions and
\* errors are those of two wheels (proximity.c:200-221, pathing.c:142-184).
THEOREM PathingTypeCorrect == Spec => []TypeOK
<1>1. TypeInv => TypeOK
  BY DEF TypeInv, FlagsOK, PlacesOK, CalibrationOK, WheelsOK, MovePc, InMove,
     TypeOK
<1> QED
  BY <1>1, TypeInvariant, PTL

-----------------------------------------------------------------------------
(***************************************************************************)
(* The robot stands when the photo is taken.                               *)
(***************************************************************************)

\* The thread has told the end of the drive.
Ending == terminate \/ pc = "stop"

\* The wheels stand outside a move; the end of the drive is told once, when
\* the last move is over, to a game that waits for it, and then the thread
\* only ends; nobody drives before the game waits.
DriveInv ==
    /\ pc \notin MovePc => \A w \in Wheel : direction[w] = 0
    /\ terminate /\ game \in {"wait", "photo"} => pc \notin MovePc
    /\ sem_finished_pathing = 1 => Ending /\ game = "wait"
    /\ game = "photo" => Ending
    /\ game \in {"drive", "calibrate"} => pc = "none"

LEMMA InitDrive == Init => DriveInv
BY DEF Init, DriveInv, Ending, MovePc

LEMMA NextDrive == TypeInv /\ DriveInv /\ [Next]_vars => DriveInv'
<1> SUFFICES ASSUME FlagsOK, PlacesOK, DriveInv, [Next]_vars PROVE DriveInv'
  BY DEF TypeInv
<1> USE DEF motors, thread, DriveInv, Ending, MovePc
<1>1. CASE GamePathingInit
  <2>1. \A w \in Wheel : direction'[w] = 0
    BY <1>1 DEF GamePathingInit, Both
  <2> QED
    BY <1>1, <2>1 DEF GamePathingInit
<1>2. CASE GameCalibrated
  BY <1>2 DEF GameCalibrated, PlacesOK
<1>3. CASE GamePathingWaitFinish
  <2>1. /\ sem_finished_pathing = 1 /\ game = "wait"
        /\ game' = "photo" /\ sem_finished_pathing' = 0
        /\ UNCHANGED <<pc, terminate, direction>>
    BY <1>3, Zenon DEF GamePathingWaitFinish
  <2>2. sem_finished_pathing' # 1
    <3>1. sem_finished_pathing' = 0
      BY <2>1, Zenon
    <3> QED
      BY ONLY <3>1, Bounds
  <2>3. terminate \/ pc = "stop"
    BY <2>1, Zenon
  <2>4. pc \notin MovePc
    BY <2>1, <2>3
  <2>5. game' \notin {"drive", "calibrate"}
    BY <2>1
  <2> QED
    BY <2>1, <2>2, <2>3, <2>4, <2>5, Zenon
<1>4. CASE GameComesBack
  BY <1>4 DEF GameComesBack
<1>5. CASE ProximityCalibrate
  BY <1>5 DEF ProximityCalibrate
<1>6. CASE PathingExit
  BY <1>6 DEF PathingExit
<1>7. CASE PathingFinished
  BY <1>7 DEF PathingFinished, PlacesOK
<1>15. CASE PathingStop
  BY <1>15 DEF PathingStop
<1>8. CASE PathingMove
  BY <1>8 DEF PathingMove, MoveStart, PlacesOK
<1>9. CASE PathingLastMove
  BY <1>9 DEF PathingLastMove, MoveStart, PlacesOK
<1>10. CASE ReadLeft \/ ReadRight
  <2>1. /\ pc \in MovePc /\ pc' \in MovePc
        /\ UNCHANGED <<game, terminate, sem_finished_pathing>>
    BY <1>10 DEF ReadLeft, ReadRight
  <2> QED
    BY <2>1
<1>11. CASE SetRight
  BY <1>11 DEF SetRight
<1>12. CASE SetLeft
  <2>1. pc' \notin MovePc => \A w \in Wheel : direction'[w] = 0
    BY <1>12 DEF SetLeft, Both
  <2> QED
    BY <1>12, <2>1 DEF SetLeft
<1>13. CASE (\E w \in Wheel : Microstep(w)) \/ OthersSlice
  <2>1. UNCHANGED <<game, pc, terminate, sem_finished_pathing, direction>>
    BY <1>13, Zenon DEF Microstep, OthersSlice
  <2> QED
    BY <2>1
<1>14. CASE UNCHANGED vars
  BY <1>14 DEF vars
<1> QED
  BY <1>1, <1>2, <1>3, <1>4, <1>5, <1>6, <1>7, <1>8, <1>9, <1>10, <1>11, <1>12,
     <1>13, <1>14, <1>15
  DEF Next, GameThd, PathingThd, Pass

\* Whatever the moves are and whoever else runs, no wheel turns when the game
\* takes the photo of the winner (pathing.c:295-297, 351-353).
THEOREM RobotStandsAtPhoto == Spec => []StandsAtPhoto
<1>1. PlacesOK /\ DriveInv => StandsAtPhoto
  BY DEF PlacesOK, DriveInv, Ending, MovePc, StandsAtPhoto
<1>2. TypeInv => PlacesOK
  BY DEF TypeInv
<1> QED
  BY <1>1, <1>2, InitDrive, NextDrive, TypeInvariant, PTL DEF Spec

-----------------------------------------------------------------------------
(***************************************************************************)
(* How near and how far.  A command rests on a counter that was read       *)
(* before; what the wheel makes from the reading to the command, and until *)
(* the next one, is at most a slice and two microsteps of its own.         *)
(***************************************************************************)

\* The error of a wheel whose goal is g and whose counter is c.
At(g, c) == g - STEP * Pos(c)

\* The most microsteps of a slice.
Longest == CHOOSE n \in SLICE : \A m \in SLICE : m <= n

Made(w) == IF w \in stepped THEN 1 ELSE 0

\* What a wheel may have made since its counter was read, in the pass that
\* reads it: a microstep, and a slice if one ended in this period.
SinceRead(w) == (IF own = 0 THEN Longest ELSE 0) + Made(w)

\* What it may have made since the reading that its command rests on.
SinceCommand(w) ==
    IF w = "right" /\ pc = "set left" THEN SinceRead(w)
    ELSE (IF own <= 1 THEN Longest ELSE 0) + 1 + Made(w)

\* A wheel is never farther than this from its goal.
Reach(w) == Most(Abs(goal[w]), Abs(goal[Other(w)]) \div 21 + STEP * Blind)

IsRead(w) ==
    pc \in {"set right", "set left"} \/ (w = "left" /\ pc = "read right")

\* The error that was read is the true one but for what was made since.
ReadOf(w) ==
    IsRead(w) =>
        /\ At(goal[w], count[w] + SinceRead(w)) <= error[w]
        /\ error[w] <= At(goal[w], count[w] - SinceRead(w))
        /\ -Reach(w) <= error[w] /\ error[w] <= Reach(w)

\* A wheel that turns backward was in reach when it was told to, with as much
\* to spare as it may make unseen; the same forward.
BackOf(w) ==
    /\ At(goal[w], count[w]) <= Reach(w)
    /\ direction[w] = -1 =>
          At(goal[w], count[w] + SinceCommand(w)) <= Reach(w) - STEP * Blind

ForthOf(w) ==
    /\ -At(goal[w], count[w]) <= Reach(w)
    /\ direction[w] = 1 =>
          -At(goal[w], count[w] - SinceCommand(w)) <= Reach(w) - STEP * Blind

ReadInv == \A w \in Wheel : ReadOf(w)

CommandInv == pc \in MovePc => \A w \in Wheel : BackOf(w) /\ ForthOf(w)

StateInv == pc \in MovePc => -Reach("left") <= state /\ state <= Reach("left")

ReachInv == ReadInv /\ CommandInv /\ StateInv

LEMMA LongestIs ==
    Longest \in SLICE /\ Longest \in 0..20 /\ \A m \in SLICE : m <= Longest
<1> DEFINE T == {20 - n : n \in SLICE}
<1>1. SLICE # {} /\ SLICE \subseteq 0..20
  BY MovesAssumption
<1>2. T \subseteq Nat
  BY <1>1
<1>3. T # {}
  BY <1>1
<1>4. PICK x \in T : \A y \in T : <<y, x>> \notin OpToRel(<, Nat)
  BY <1>2, <1>3, NatLessThanWellFounded, WFMin, Zenon
<1>5. \A y \in T : ~(y < x)
  BY <1>2, <1>4 DEF OpToRel
<1>6. PICK n \in SLICE : x = 20 - n
  BY <1>4
<1>7. \A m \in SLICE : 20 - m \in T
  OBVIOUS
<1>8. ASSUME NEW m \in SLICE PROVE m <= n
  <2>1. ~(20 - m < 20 - n)
    BY <1>5, <1>6, <1>7, Zenon
  <2>2. m \in 0..20 /\ n \in 0..20
    BY <1>1
  <2> QED
    BY ONLY <2>1, <2>2
<1>9. Longest \in SLICE /\ \A m \in SLICE : m <= Longest
  BY <1>8, Zenon DEF Longest
<1> QED
  BY <1>1, <1>9, Zenon

LEMMA LongestStays == Longest \in Int /\ Longest \in Nat /\ Longest' = Longest
<1>1. Longest \in Nat /\ Longest \in Int
  BY LongestIs
<1>2. Longest' = Longest
  BY DEF Longest
<1> QED
  BY <1>1, <1>2

\* The width of what is not seen: more than a slice and two microsteps, and
\* too little to turn the other wheel the wrong way.
LEMMA BlindIs ==
    /\ STEP * Blind \in Int /\ 0 <= STEP * Blind /\ STEP * Blind <= 143
    /\ \A k \in Int : 2 * k <= Longest + 3 => STEP * k <= STEP * Blind
<1> DEFINE m == Longest
<1>1. m \in 0..20
  BY LongestIs
<1>2. Blind = (m + 3) \div 2
  BY Zenon DEF Blind, Longest
<1> HIDE DEF m
<1>3. Blind \in 0..11 /\ \A k \in Int : 2 * k <= m + 3 => k <= Blind
  BY <1>1, <1>2
<1> QED
  BY <1>3 DEF STEP, m

LEMMA PosIs ==
    ASSUME NEW c \in Int, NEW k \in Nat
    PROVE  /\ Pos(c) \in Int
           /\ Pos(c) <= Pos(c + k) /\ 2 * (Pos(c + k) - Pos(c)) <= k + 1
BY DEF Pos

\* A wheel that turns forward comes nearer a goal in front of it, by no more
\* than it is not seen to.
LEMMA AtIs ==
    ASSUME NEW g \in Int, NEW c \in Int, NEW k \in Nat
    PROVE  /\ At(g, c) \in Int /\ At(g, c + k) \in Int
           /\ At(g, c + k) <= At(g, c)
           /\ k <= Longest + 2 => At(g, c) <= At(g, c + k) + STEP * Blind
<1>1. /\ Pos(c) \in Int /\ Pos(c) <= Pos(c + k)
      /\ 2 * (Pos(c + k) - Pos(c)) <= k + 1
  BY PosIs
<1>2. Pos(c + k) \in Int
  BY DEF Pos
<1>3. At(g, c) \in Int /\ At(g, c + k) \in Int /\ At(g, c + k) <= At(g, c)
  BY <1>1, <1>2 DEF At, STEP
<1>4. ASSUME k <= Longest + 2
      PROVE  At(g, c) <= At(g, c + k) + STEP * Blind
  <2>1. Longest \in Int
    BY LongestIs
  <2>2. 2 * (Pos(c + k) - Pos(c)) <= Longest + 3 /\ Pos(c + k) - Pos(c) \in Int
    BY <1>1, <1>2, <1>4, <2>1
  <2>3. STEP * (Pos(c + k) - Pos(c)) <= STEP * Blind
    BY <2>2, BlindIs
  <2> QED
    BY <1>1, <1>2, <2>3, BlindIs DEF At, STEP
<1> QED
  BY <1>3, <1>4

InReach ==
    \A w \in Wheel :
        /\ Reach(w) \in Int /\ Reach(w) >= STEP * Blind
        /\ goal[w] <= Reach(w) /\ -goal[w] <= Reach(w)

LEMMA ReachIs == WheelsOK => InReach
<1> SUFFICES ASSUME WheelsOK, NEW w \in Wheel
             PROVE  /\ Reach(w) \in Int /\ Reach(w) >= STEP * Blind
                    /\ goal[w] <= Reach(w) /\ -goal[w] <= Reach(w)
  BY DEF InReach
<1>1. goal[w] \in Int /\ goal[Other(w)] \in Int
  BY DEF WheelsOK, Wheel, Other
<1> DEFINE b == STEP * Blind
           g == goal[w]
           h == goal[Other(w)]
<1>2. b \in Int /\ 0 <= b
  BY BlindIs
<1>3. Reach(w) = Most(Abs(g), Abs(h) \div 21 + b)
  BY Zenon DEF Reach
<1> HIDE DEF b, g, h
<1>4. g \in Int /\ h \in Int
  BY <1>1 DEF g, h
<1>5. Abs(h) \in Nat /\ Abs(g) \in Nat /\ g <= Abs(g) /\ -g <= Abs(g)
  BY <1>4 DEF Abs
<1>6. Abs(h) \div 21 \in Nat
  BY <1>5
<1>7. /\ Reach(w) \in Int /\ Reach(w) >= b
      /\ g <= Reach(w) /\ -g <= Reach(w)
  <2>1. PICK m \in Int, n \in Int : m = Abs(g) /\ n = Abs(h) \div 21 + b
    BY <1>2, <1>5, <1>6
  <2>2. b <= n /\ g <= m /\ -g <= m
    BY <1>2, <1>5, <1>6, <2>1
  <2>3. Reach(w) = Most(m, n)
    BY <1>3, <2>1, Zenon
  <2> QED
    BY ONLY <1>2, <1>4, <2>2, <2>3, m \in Int, n \in Int DEF Most
<1> QED
  BY <1>7 DEF b, g, h

LEMMA ReachIsNext == WheelsOK' => InReach'
BY ReachIs, PTL

\* Why a wheel never strays farther: that the other's error e2 outweighs its
\* own e takes an e2 of 21 times that, which the other wheel only has in reach.
LEMMA WrongWay ==
    ASSUME WheelsOK, NEW w \in Wheel, NEW e \in Int, NEW e2 \in Int,
           39 <= e, 21 * e <= e2, e2 <= Reach(Other(w))
    PROVE  e <= Reach(w) - STEP * Blind
<1> DEFINE b == STEP * Blind
           g == Abs(goal[w])
           h == Abs(goal[Other(w)])
<1>1. b \in Int /\ 0 <= b /\ b <= 143
  BY BlindIs
<1>2. g \in Nat /\ h \in Nat
  BY DEF WheelsOK, Wheel, Other, Abs
<1>3. Reach(w) = Most(g, h \div 21 + b)
  BY Zenon DEF Reach
<1>4. Reach(Other(w)) = Most(h, g \div 21 + b)
  <2>1. Other(Other(w)) = w
    BY DEF Other, Wheel
  <2> QED
    BY <2>1, Zenon DEF Reach
<1> HIDE DEF b, g, h
<1>5. e2 <= h \/ e2 <= g \div 21 + b
  BY <1>1, <1>2, <1>4 DEF Most
<1>6. Reach(w) >= g /\ Reach(w) >= h \div 21 + b /\ Reach(w) \in Int
  BY <1>1, <1>2, <1>3 DEF Most
<1>7. CASE e2 <= h
  <2>1. e <= h \div 21
    BY <1>2, <1>7
  <2> QED
    BY <1>1, <1>2, <1>6, <2>1 DEF b
<1>8. CASE e2 <= g \div 21 + b
  <2>1. e <= g - b
    BY <1>1, <1>2, <1>8
  <2> QED
    BY <1>1, <1>2, <1>6, <2>1 DEF b
<1> QED
  BY <1>5, <1>7, <1>8

\* What a command says of the error it was given for.
LEMMA Commands ==
    ASSUME WheelsOK, NEW w \in Wheel, NEW last \in Int,
           -Reach(Other(w)) <= last, last <= Reach(Other(w))
    PROVE  /\ Direction(w, last) = -1 => error[w] <= Reach(w) - STEP * Blind
           /\ Direction(w, last) = 1 => -error[w] <= Reach(w) - STEP * Blind
<1> DEFINE e == error[w]
           room == Reach(w) - STEP * Blind
<1>1. e \in Int
  BY DEF WheelsOK
<1>2. room \in Int /\ room >= 0
  BY ReachIs, BlindIs DEF InReach
<1>3. Reach(Other(w)) \in Int
  <2>1. Other(w) \in Wheel
    BY DEF Other, Wheel
  <2> QED
    BY <2>1, ReachIs DEF InReach
<1>4. /\ Direction(w, last) = -1 => (e >= 39 \/ e <= 0) /\ 21 * e < last
      /\ Direction(w, last) = 1 => (e >= 0 \/ -e >= 39) /\ 21 * e >= last
  BY <1>1 DEF Direction, Far, MIN_STEPS, STEP, Abs, Output
<1> HIDE DEF e
<1>5. e >= 39 /\ 21 * e < last => e <= room
  <2> SUFFICES ASSUME e >= 39, 21 * e < last PROVE e <= room
    OBVIOUS
  <2> HIDE DEF room
  <2>1. 39 <= e /\ 21 * e <= last
    BY <1>1
  <2> QED
    BY <1>1, <2>1, WrongWay DEF room
<1>6. -e >= 39 /\ 21 * e >= last => -e <= room
  <2> SUFFICES ASSUME -e >= 39, 21 * e >= last PROVE -e <= room
    OBVIOUS
  <2> HIDE DEF room
  <2>1. /\ 39 <= -e /\ 21 * (-e) <= -last /\ -last <= Reach(Other(w))
        /\ -e \in Int /\ -last \in Int
    BY <1>1, <1>3
  <2> DEFINE f == -e
             l == -last
  <2>2. /\ 39 <= f /\ 21 * f <= l /\ l <= Reach(Other(w))
        /\ f \in Int /\ l \in Int
    BY <2>1
  <2> HIDE DEF f, l
  <2>3. f <= Reach(w) - STEP * Blind
    BY <2>2, WrongWay
  <2> QED
    BY <2>3 DEF room, f
<1> HIDE DEF room
<1>7. (e >= 39 \/ e <= 0) /\ 21 * e < last => e <= room
  BY <1>1, <1>2, <1>5
<1>8. (e >= 0 \/ -e >= 39) /\ 21 * e >= last => -e <= room
  BY <1>1, <1>2, <1>6
<1> QED
  BY <1>4, <1>7, <1>8 DEF e, room

\* What a wheel may have made is never more than a slice and two microsteps.
Counted ==
    \A w \in Wheel :
        /\ SinceRead(w) \in Nat /\ SinceCommand(w) \in Nat
        /\ SinceRead(w) <= SinceCommand(w) /\ SinceCommand(w) <= Longest + 2

LEMMA SinceIs == WheelsOK => Counted
<1> SUFFICES ASSUME WheelsOK, NEW w \in Wheel
             PROVE  /\ SinceRead(w) \in Nat /\ SinceCommand(w) \in Nat
                    /\ SinceRead(w) <= SinceCommand(w)
                    /\ SinceCommand(w) <= Longest + 2
  BY DEF Counted
<1>1. Longest \in Nat
  BY LongestIs
<1>2. own \in Nat
  BY Bounds DEF WheelsOK
<1>3. Made(w) = 0 \/ Made(w) = 1
  BY DEF Made
<1> DEFINE slice == IF own = 0 THEN Longest ELSE 0
           slices == IF own <= 1 THEN Longest ELSE 0
<1>4. slice \in Nat /\ slices \in Nat /\ slice <= slices /\ slices <= Longest
  BY <1>1, <1>2
<1>5. /\ SinceRead(w) = slice + Made(w)
      /\ SinceCommand(w) \in {SinceRead(w), slices + 1 + Made(w)}
  BY Zenon DEF SinceRead, SinceCommand
<1> HIDE DEF slice, slices
<1> QED
  BY <1>1, <1>3, <1>4, <1>5

LEMMA SinceIsNext == WheelsOK' => Counted'
BY SinceIs, PTL

\* The same for two counters.
LEMMA AtOrder ==
    ASSUME NEW g \in Int, NEW c \in Int, NEW d \in Int, c <= d
    PROVE  /\ At(g, c) \in Int /\ At(g, d) \in Int
           /\ At(g, d) <= At(g, c)
           /\ d - c <= Longest + 2 => At(g, c) <= At(g, d) + STEP * Blind
<1>1. PICK k \in Nat : d = c + k /\ k = d - c
  <2>1. d - c \in Nat /\ d = c + (d - c)
    OBVIOUS
  <2> QED
    BY <2>1
<1>2. /\ At(g, c) \in Int /\ At(g, c + k) \in Int
      /\ At(g, c + k) <= At(g, c)
      /\ k <= Longest + 2 => At(g, c) <= At(g, c + k) + STEP * Blind
  BY AtIs
<1> QED
  BY <1>1, <1>2, Zenon

\* A wheel goes on for k microsteps, in the direction it has.
GoesOn(w, k) ==
    count'[w] = IF direction[w] = 1 THEN count[w] + k
                ELSE IF direction[w] = -1 THEN count[w] - k ELSE count[w]

LEMMA GoOn ==
    ASSUME WheelsOK, WheelsOK', NEW w \in Wheel, NEW k \in Nat,
           UNCHANGED <<pc, goal, error, direction>>, GoesOn(w, k),
           SinceRead(w)' >= SinceRead(w) + k,
           SinceCommand(w)' >= SinceCommand(w) + k,
           ReadOf(w), BackOf(w), ForthOf(w)
    PROVE  ReadOf(w)' /\ BackOf(w)' /\ ForthOf(w)'
<1>1. PICK g \in Int, c \in Int, d \in Int, e \in Int :
         g = goal[w] /\ c = count[w] /\ d = count'[w] /\ e = error[w]
  BY DEF WheelsOK
<1>2. PICK r \in Nat, u \in Nat, s \in Nat, v \in Nat :
         /\ r = SinceRead(w) /\ u = SinceCommand(w)
         /\ s = SinceRead(w)' /\ v = SinceCommand(w)' /\ v <= Longest + 2
  <2>1. SinceRead(w) \in Nat /\ SinceCommand(w) \in Nat
    BY SinceIs DEF Counted
  <2>2. /\ SinceRead(w)' \in Nat /\ SinceCommand(w)' \in Nat
        /\ SinceCommand(w)' <= Longest + 2
    BY SinceIsNext DEF Counted, Longest
  <2> QED
    BY <2>1, <2>2
<1>3. s >= r + k /\ v >= u + k /\ v <= Longest + 2
  BY <1>2
<1>4. PICK m \in Int : m = Reach(w) /\ Reach(w)' = m
  <2>1. Reach(w)' = Reach(w)
    BY DEF Reach
  <2> QED
    BY <2>1, ReachIs DEF InReach
<1>5. PICK b \in Int : b = STEP * Blind
  BY BlindIs
<1>6. goal'[w] = g /\ error'[w] = e /\ direction'[w] = direction[w]
  BY <1>1
<1>7. direction[w] \in -1..1
  BY DEF WheelsOK
<1>8. /\ direction[w] = 1 => d = c + k
      /\ direction[w] = -1 => d = c - k
      /\ direction[w] = 0 => d = c
  BY <1>1 DEF GoesOn
<1>9. c - k <= d /\ d <= c + k
  BY <1>7, <1>8
<1>10. ReadOf(w)'
  <2> SUFFICES ASSUME IsRead(w)'
               PROVE  /\ At(g, d + s) <= e /\ e <= At(g, d - s)
                      /\ -m <= e /\ e <= m
    BY <1>1, <1>2, <1>4, <1>6, Zenon DEF ReadOf
  <2>1. IsRead(w)
    BY DEF IsRead
  <2>2. At(g, c + r) <= e /\ e <= At(g, c - r) /\ -m <= e /\ e <= m
    BY <1>1, <1>2, <1>4, <2>1, Zenon DEF ReadOf
  <2>3. At(g, c + r) \in Int /\ At(g, d + s) \in Int
        /\ At(g, d + s) <= At(g, c + r)
    <3>1. c + r \in Int /\ d + s \in Int /\ c + r <= d + s
      BY <1>3, <1>9
    <3> QED
      BY <3>1, AtOrder
  <2>4. At(g, c - r) \in Int /\ At(g, d - s) \in Int
        /\ At(g, c - r) <= At(g, d - s)
    <3>1. c - r \in Int /\ d - s \in Int /\ d - s <= c - r
      BY <1>3, <1>9
    <3> QED
      BY <3>1, AtOrder
  <2> QED
    BY <2>2, <2>3, <2>4
<1>11. BackOf(w)'
  <2> SUFFICES /\ At(g, d) <= m
               /\ direction[w] = -1 => At(g, d + v) <= m - b
    BY <1>1, <1>2, <1>4, <1>5, <1>6, Zenon DEF BackOf
  <2>1. /\ At(g, c) <= m
        /\ direction[w] = -1 => At(g, c + u) <= m - b
    BY <1>1, <1>2, <1>4, <1>5, Zenon DEF BackOf
  <2>2. CASE direction[w] = -1
    <3>1. At(g, c + u) \in Int /\ At(g, d + v) \in Int
          /\ At(g, d + v) <= At(g, c + u)
      <4>1. c + u \in Int /\ d + v \in Int /\ c + u <= d + v
        BY <1>3, <1>9
      <4> QED
        BY <4>1, AtOrder
    <3>2. At(g, d) \in Int /\ At(g, d) <= At(g, d + v) + b
      <4>1. d + v \in Int /\ d <= d + v /\ (d + v) - d <= Longest + 2
        BY <1>3
      <4> QED
        BY <1>5, <4>1, AtOrder
    <3> QED
      BY <2>1, <2>2, <3>1, <3>2
  <2>3. CASE direction[w] # -1
    <3>1. c <= d
      BY <1>7, <1>8, <2>3
    <3>2. At(g, c) \in Int /\ At(g, d) \in Int /\ At(g, d) <= At(g, c)
      BY <3>1, AtOrder
    <3> QED
      BY <2>1, <2>3, <3>2
  <2> QED
    BY <2>2, <2>3
<1>12. ForthOf(w)'
  <2> SUFFICES /\ -At(g, d) <= m
               /\ direction[w] = 1 => -At(g, d - v) <= m - b
    BY <1>1, <1>2, <1>4, <1>5, <1>6, Zenon DEF ForthOf
  <2>1. /\ -At(g, c) <= m
        /\ direction[w] = 1 => -At(g, c - u) <= m - b
    BY <1>1, <1>2, <1>4, <1>5, Zenon DEF ForthOf
  <2>2. CASE direction[w] = 1
    <3>1. At(g, c - u) \in Int /\ At(g, d - v) \in Int
          /\ At(g, c - u) <= At(g, d - v)
      <4>1. c - u \in Int /\ d - v \in Int /\ d - v <= c - u
        BY <1>3, <1>9
      <4> QED
        BY <4>1, AtOrder
    <3>2. At(g, d) \in Int /\ At(g, d - v) <= At(g, d) + b
      <4>1. d - v \in Int /\ d - v <= d /\ d - (d - v) <= Longest + 2
        BY <1>3
      <4> QED
        BY <1>5, <4>1, AtOrder
    <3> QED
      BY <2>1, <2>2, <3>1, <3>2
  <2>3. CASE direction[w] # 1
    <3>1. d <= c
      BY <1>7, <1>8, <2>3
    <3>2. At(g, c) \in Int /\ At(g, d) \in Int /\ At(g, c) <= At(g, d)
      BY <3>1, AtOrder
    <3> QED
      BY <2>1, <2>3, <3>2
  <2> QED
    BY <2>2, <2>3
<1> QED
  BY <1>10, <1>11, <1>12

LEMMA Outside ==
    ASSUME pc' \notin MovePc
    PROVE  ReachInv'
BY DEF ReachInv, ReadInv, ReadOf, CommandInv, StateInv, IsRead, MovePc

\* Nothing that the invariant speaks of changes.
LEMMA FrameReach ==
    ASSUME ReachInv,
           UNCHANGED <<pc, goal, count, direction, error, state, stepped, own>>
    PROVE  ReachInv'
<1>1. \A w : /\ SinceRead(w)' = SinceRead(w)
             /\ SinceCommand(w)' = SinceCommand(w)
             /\ Reach(w)' = Reach(w) /\ (IsRead(w)' <=> IsRead(w))
  BY DEF SinceRead, SinceCommand, Made, Reach, IsRead
<1> QED
  BY <1>1, Zenon DEF ReachInv, ReadInv, CommandInv, StateInv, ReadOf, BackOf,
     ForthOf

\* A move begins at its goal's distance, with wheels that stand.
LEMMA MoveStartReach ==
    ASSUME WheelsOK, WheelsOK', \A w \in Wheel : direction[w] = 0,
           NEW l \in Int, NEW r \in Int, MoveStart(l, r)
    PROVE  ReachInv'
<1>1. /\ goal' = Both(l, r) /\ pc' = "read left" /\ count' = Both(0, 0)
      /\ state' = 0 /\ direction' = direction
  BY Zenon DEF MoveStart
<1>2. ReadInv'
  BY <1>1 DEF ReadInv, ReadOf, IsRead
<1>3. \A w \in Wheel :
         /\ Reach(w)' \in Int /\ Reach(w)' >= 0
         /\ goal'[w] <= Reach(w)' /\ -goal'[w] <= Reach(w)'
  BY ReachIsNext, BlindIs DEF InReach
<1>4. ASSUME NEW w \in Wheel
      PROVE  At(goal[w], count[w])' = goal'[w] /\ direction'[w] = 0
  <2>1. count'[w] = 0 /\ goal'[w] \in Int
    BY <1>1 DEF Both, WheelsOK
  <2>2. goal'[w] - STEP * Pos(0) = goal'[w]
    BY <2>1 DEF Pos, STEP
  <2>3. At(goal[w], count[w])' = goal'[w] - STEP * Pos(0)
    BY <2>1, Zenon DEF At
  <2> QED
    BY <1>1, <2>2, <2>3, Zenon
<1>5. CommandInv'
  <2>1. ASSUME NEW w \in Wheel PROVE BackOf(w)' /\ ForthOf(w)'
    BY <1>3, <1>4 DEF BackOf, ForthOf
  <2> QED
    BY <2>1, Zenon DEF CommandInv
<1>6. StateInv'
  <2>1. Reach("left")' \in Int /\ Reach("left")' >= 0
    BY <1>3 DEF Wheel
  <2>2. -Reach("left")' <= 0
    BY <2>1
  <2>3. -Reach("left")' <= state' /\ state' <= Reach("left")'
    BY <1>1, <2>1, <2>2
  <2> QED
    BY <2>3, Zenon DEF StateInv
<1> QED
  BY <1>2, <1>5, <1>6, Zenon DEF ReachInv

\* In a move, the wheels go on.
LEMMA WheelsReach ==
    ASSUME TypeInv, TypeInv', ReachInv,
           (\E w \in Wheel : Microstep(w)) \/ OthersSlice
    PROVE  ReachInv'
<1> USE DEF motors, pid, time, thread, proximity
<1>1. pc \in MovePc /\ UNCHANGED <<pc, goal, error, direction, state>>
  BY Zenon DEF Microstep, OthersSlice, InMove, MovePc
<1>2. WheelsOK /\ WheelsOK' /\ ReadInv /\ CommandInv /\ StateInv
  BY Zenon DEF TypeInv, ReachInv
<1>3. \A w \in Wheel : ReadOf(w) /\ BackOf(w) /\ ForthOf(w)
  BY <1>1, <1>2, Zenon DEF ReadInv, CommandInv
<1>4. \A w \in Wheel : \E k \in Nat :
         /\ GoesOn(w, k)
         /\ SinceRead(w)' >= SinceRead(w) + k
         /\ SinceCommand(w)' >= SinceCommand(w) + k
  <2>1. ASSUME NEW v \in Wheel, Microstep(v), NEW w \in Wheel
        PROVE  \E k \in Nat :
                 /\ GoesOn(w, k)
                 /\ SinceRead(w)' >= SinceRead(w) + k
                 /\ SinceCommand(w)' >= SinceCommand(w) + k
    <3>1. /\ direction[v] # 0 /\ v \notin stepped
          /\ count' = [count EXCEPT ![v] = @ + direction[v]]
          /\ stepped' = stepped \cup {v} /\ own' = own /\ pc' = pc
      BY <2>1, Zenon DEF Microstep
    <3>2. SinceRead(w) \in Nat /\ SinceCommand(w) \in Nat
      BY <1>2, SinceIs DEF Counted
    <3>3. PICK r \in Nat, u \in Nat :
             r = SinceRead(w) - Made(w) /\ u = SinceCommand(w) - Made(w)
      <4>1. Longest \in Nat /\ own \in Nat
        BY <1>2, LongestIs, Bounds DEF WheelsOK
      <4>2. Made(w) = 0 \/ Made(w) = 1
        BY DEF Made
      <4> DEFINE slice == IF own = 0 THEN Longest ELSE 0
                 slices == IF own <= 1 THEN Longest ELSE 0
      <4>3. slice \in Nat /\ slices \in Nat
        BY <4>1
      <4>4. /\ SinceRead(w) = slice + Made(w)
            /\ SinceCommand(w) \in {SinceRead(w), slices + 1 + Made(w)}
        BY Zenon DEF SinceRead, SinceCommand
      <4> HIDE DEF slice, slices
      <4>5. SinceRead(w) - Made(w) \in Nat /\ SinceCommand(w) - Made(w) \in Nat
        BY <4>2, <4>3, <4>4
      <4> QED
        BY <4>5
    <3>4. /\ SinceRead(w)' = SinceRead(w) - Made(w) + Made(w)'
          /\ SinceCommand(w)' = SinceCommand(w) - Made(w) + Made(w)'
      <4>1. Made(w) \in Int /\ Made(w)' \in Int /\ Longest \in Int
        BY LongestIs DEF Made
      <4>2. own' = own /\ pc' = pc
        BY <3>1, Zenon
      <4> DEFINE slice == IF own = 0 THEN Longest ELSE 0
                 slices == IF own <= 1 THEN Longest ELSE 0
                 m == Made(w)
                 n == Made(w)'
      <4>3. slice \in Int /\ slices \in Int
        BY <4>1
      <4>4. SinceRead(w) = slice + m /\ SinceRead(w)' = slice + n
        BY <4>2, LongestStays, Zenon DEF SinceRead
      <4>5. \/ SinceCommand(w) = SinceRead(w) /\ SinceCommand(w)' = SinceRead(w)'
            \/ /\ SinceCommand(w) = slices + 1 + m
               /\ SinceCommand(w)' = slices + 1 + n
        BY <4>2, LongestStays, Zenon DEF SinceCommand
      <4>6. m \in Int /\ n \in Int
        BY <4>1
      <4> HIDE DEF slice, slices, m, n
      <4>7. /\ SinceRead(w)' = SinceRead(w) - m + n
            /\ SinceCommand(w)' = SinceCommand(w) - m + n
        BY <4>3, <4>4, <4>5, <4>6
      <4> QED
        BY <4>7 DEF m, n
    <3>5. CASE w = v
      <4>1. Made(w) = 0 /\ Made(w)' = 1
        BY <3>1, <3>5 DEF Made
      <4>2. GoesOn(w, 1)
        <5>1. /\ direction[w] \in -1..1 /\ direction[w] # 0
              /\ count[w] \in Int /\ count'[w] = count[w] + direction[w]
          BY <1>2, <3>1, <3>5 DEF WheelsOK
        <5> QED
          BY <5>1 DEF GoesOn
      <4> QED
        BY <3>2, <3>4, <4>1, <4>2
    <3>6. CASE w # v
      <4>1. Made(w)' = Made(w)
        BY <3>1, <3>6 DEF Made
      <4>2. GoesOn(w, 0)
        <5>1. /\ count[w] \in Int /\ count'[w] = count[w]
          BY <1>2, <3>1, <3>6 DEF WheelsOK
        <5> QED
          BY <5>1 DEF GoesOn
      <4>3. Made(w) = 0 \/ Made(w) = 1
        BY DEF Made
      <4> QED
        BY <3>2, <3>4, <4>1, <4>2, <4>3
    <3> QED
      BY <3>5, <3>6
  <2>2. ASSUME OthersSlice, NEW w \in Wheel
        PROVE  \E k \in Nat :
                 /\ GoesOn(w, k)
                 /\ SinceRead(w)' >= SinceRead(w) + k
                 /\ SinceCommand(w)' >= SinceCommand(w) + k
    <3>1. PICK n \in [Wheel -> SLICE] :
             count' = [v \in Wheel |-> count[v] + n[v] * direction[v]]
      BY <2>2 DEF OthersSlice
    <3>2. own = OWN /\ own' = 0 /\ stepped' = stepped /\ pc' = pc
      BY <2>2, Zenon DEF OthersSlice
    <3>3. PICK k \in Nat : k = n[w] /\ k <= Longest
      <4>1. n[w] \in SLICE
        OBVIOUS
      <4> QED
        BY <4>1, Bounds, LongestIs
    <3>4. GoesOn(w, k)
      <4>1. direction[w] \in -1..1 /\ count[w] \in Int
        BY <1>2 DEF WheelsOK
      <4>2. count'[w] = count[w] + k * direction[w]
        BY <3>1, <3>3
      <4> HIDE <3>1
      <4>3. CASE direction[w] = 1
        BY <4>1, <4>2, <4>3 DEF GoesOn
      <4>4. CASE direction[w] = -1
        BY <4>1, <4>2, <4>4 DEF GoesOn
      <4>5. CASE direction[w] = 0
        BY <4>1, <4>2, <4>5 DEF GoesOn
      <4> QED
        BY <4>1, <4>3, <4>4, <4>5
    <3>5. SinceRead(w) = Made(w) /\ SinceRead(w)' = Longest + Made(w)
      <4>1. own # 0 /\ own' = 0 /\ Made(w) \in Int /\ Made(w)' = Made(w)
        BY <3>2, Bounds DEF Made
      <4>2. Longest \in Int /\ Longest' = Longest
        BY LongestStays
      <4>3. SinceRead(w) = 0 + Made(w) /\ SinceRead(w)' = Longest + Made(w)
        BY <4>1, <4>2, Zenon DEF SinceRead
      <4> QED
        BY <4>1, <4>3
    <3>6. \/ SinceCommand(w) = SinceRead(w) /\ SinceCommand(w)' = SinceRead(w)'
          \/ /\ SinceCommand(w) = 1 + Made(w)
             /\ SinceCommand(w)' = Longest + 1 + Made(w)
      <4>1. ~(own <= 1) /\ own' <= 1 /\ pc' = pc
            /\ Made(w) \in Int /\ Made(w)' = Made(w)
        BY <3>2, Bounds DEF Made
      <4>2. Longest \in Int /\ Longest' = Longest
        BY LongestStays
      <4>3. \/ SinceCommand(w) = SinceRead(w) /\ SinceCommand(w)' = SinceRead(w)'
            \/ /\ SinceCommand(w) = 0 + 1 + Made(w)
               /\ SinceCommand(w)' = Longest + 1 + Made(w)
        BY <4>1, <4>2, Zenon DEF SinceCommand
      <4> QED
        BY <4>1, <4>3
    <3>7. Made(w) \in Int /\ Longest \in Int
      BY LongestIs DEF Made
    <3> QED
      BY <3>3, <3>4, <3>5, <3>6, <3>7
  <2> QED
    BY <2>1, <2>2
<1>5. ASSUME NEW w \in Wheel PROVE ReadOf(w)' /\ BackOf(w)' /\ ForthOf(w)'
  <2>1. PICK k \in Nat :
           /\ GoesOn(w, k)
           /\ SinceRead(w)' >= SinceRead(w) + k
           /\ SinceCommand(w)' >= SinceCommand(w) + k
    BY <1>4
  <2> QED
    BY <1>1, <1>2, <1>3, <2>1, GoOn
<1>6. StateInv'
  <2>1. Reach("left")' = Reach("left") /\ state' = state
    BY <1>1 DEF Reach
  <2> QED
    BY <1>1, <1>2, <2>1 DEF StateInv
<1> QED
  BY <1>5, <1>6, Zenon DEF ReachInv, ReadInv, CommandInv

\* A wheel whose command stays.
LEMMA Stays ==
    ASSUME WheelsOK, WheelsOK', NEW w \in Wheel,
           goal' = goal, count' = count, direction'[w] = direction[w],
           SinceCommand(w)' >= SinceCommand(w), BackOf(w), ForthOf(w)
    PROVE  BackOf(w)' /\ ForthOf(w)'
<1>1. PICK g \in Int, c \in Int : g = goal[w] /\ c = count[w]
  BY DEF WheelsOK
<1>2. PICK u \in Nat, v \in Nat : u = SinceCommand(w) /\ v = SinceCommand(w)'
  BY SinceIs, SinceIsNext DEF Counted
<1>3. PICK m \in Int : m = Reach(w) /\ Reach(w)' = m
  <2>1. Reach(w)' = Reach(w)
    BY DEF Reach
  <2> QED
    BY <2>1, ReachIs DEF InReach
<1>4. PICK b \in Int : b = STEP * Blind
  BY BlindIs
<1>5. /\ At(g, c) <= m /\ -At(g, c) <= m
      /\ direction[w] = -1 => At(g, c + u) <= m - b
      /\ direction[w] = 1 => -At(g, c - u) <= m - b
  BY <1>1, <1>2, <1>3, <1>4, Zenon DEF BackOf, ForthOf
<1>6. At(g, c + u) \in Int /\ At(g, c + v) \in Int
      /\ At(g, c + v) <= At(g, c + u)
  <2>1. c + u \in Int /\ c + v \in Int /\ c + u <= c + v
    BY <1>2
  <2> QED
    BY <2>1, AtOrder
<1>7. At(g, c - u) \in Int /\ At(g, c - v) \in Int
      /\ At(g, c - u) <= At(g, c - v)
  <2>1. c - u \in Int /\ c - v \in Int /\ c - v <= c - u
    BY <1>2
  <2> QED
    BY <2>1, AtOrder
<1>8. /\ direction[w] = -1 => At(g, c + v) <= m - b
      /\ direction[w] = 1 => -At(g, c - v) <= m - b
  BY <1>5, <1>6, <1>7
<1> QED
  BY <1>1, <1>2, <1>3, <1>4, <1>5, <1>8, Zenon DEF BackOf, ForthOf

\* A wheel that gets a command.
LEMMA Commanded ==
    ASSUME WheelsOK, WheelsOK', NEW w \in Wheel, NEW last \in Int,
           -Reach(Other(w)) <= last, last <= Reach(Other(w)),
           goal' = goal, count' = count, direction'[w] = Direction(w, last),
           SinceCommand(w)' >= SinceRead(w), IsRead(w),
           ReadOf(w), BackOf(w), ForthOf(w)
    PROVE  BackOf(w)' /\ ForthOf(w)'
<1>1. PICK g \in Int, c \in Int, e \in Int :
         g = goal[w] /\ c = count[w] /\ e = error[w]
  BY DEF WheelsOK
<1>2. PICK r \in Nat, v \in Nat : r = SinceRead(w) /\ v = SinceCommand(w)'
  BY SinceIs, SinceIsNext DEF Counted
<1>3. PICK m \in Int : m = Reach(w) /\ Reach(w)' = m
  <2>1. Reach(w)' = Reach(w)
    BY DEF Reach
  <2> QED
    BY <2>1, ReachIs DEF InReach
<1>4. PICK b \in Int : b = STEP * Blind
  BY BlindIs
<1>5. At(g, c) <= m /\ -At(g, c) <= m
  BY <1>1, <1>3, Zenon DEF BackOf, ForthOf
<1>6. /\ direction'[w] = -1 => e <= m - b
      /\ direction'[w] = 1 => -e <= m - b
  BY <1>1, <1>3, <1>4, Commands
<1>7. At(g, c + r) <= e /\ e <= At(g, c - r)
  BY <1>1, <1>2, Zenon DEF ReadOf
<1>8. At(g, c + r) \in Int /\ At(g, c + v) \in Int
      /\ At(g, c + v) <= At(g, c + r)
  <2>1. c + r \in Int /\ c + v \in Int /\ c + r <= c + v
    BY <1>2
  <2> QED
    BY <2>1, AtOrder
<1>9. At(g, c - r) \in Int /\ At(g, c - v) \in Int
      /\ At(g, c - r) <= At(g, c - v)
  <2>1. c - r \in Int /\ c - v \in Int /\ c - v <= c - r
    BY <1>2
  <2> QED
    BY <2>1, AtOrder
<1>10. /\ direction'[w] = -1 => At(g, c + v) <= m - b
       /\ direction'[w] = 1 => -At(g, c - v) <= m - b
  BY <1>6, <1>7, <1>8, <1>9
<1> QED
  BY <1>1, <1>2, <1>3, <1>4, <1>5, <1>10, Zenon DEF BackOf, ForthOf

\* A counter that was just read.
LEMMA FreshRead ==
    ASSUME WheelsOK, NEW w \in Wheel, BackOf(w), ForthOf(w),
           UNCHANGED <<goal, count, stepped, own>>, error'[w] = Error(w)
    PROVE  ReadOf(w)'
<1>1. PICK g \in Int, c \in Int, r \in Nat :
         g = goal[w] /\ c = count[w] /\ r = SinceRead(w)
  BY SinceIs DEF WheelsOK, Counted
<1>2. SinceRead(w)' = r /\ Reach(w)' = Reach(w)
  BY <1>1 DEF SinceRead, Made, Reach
<1>3. PICK m \in Int : m = Reach(w)
  BY ReachIs DEF InReach
<1>4. error'[w] = At(g, c)
  BY <1>1 DEF Error, At
<1>5. At(g, c) <= m /\ -At(g, c) <= m
  BY <1>1, <1>3, Zenon DEF BackOf, ForthOf
<1>6. At(g, c + r) <= At(g, c) /\ At(g, c) \in Int
  <2>1. c + r \in Int /\ c <= c + r
    OBVIOUS
  <2> QED
    BY <2>1, AtOrder
<1>7. At(g, c) <= At(g, c - r)
  <2>1. c - r \in Int /\ c - r <= c
    OBVIOUS
  <2> QED
    BY <2>1, AtOrder
<1>8. -m <= At(g, c)
  BY <1>5, <1>6
<1> QED
  BY <1>1, <1>2, <1>3, <1>4, <1>5, <1>6, <1>7, <1>8, Zenon DEF ReadOf

\* A pass of the loop: two readings, two commands.
LEMMA ReadReach ==
    ASSUME TypeInv, TypeInv', ReachInv, ReadLeft \/ ReadRight
    PROVE  ReachInv'
<1> USE DEF motors, pid, time, thread, proximity
<1>1. PICK v \in Wheel :
         /\ \/ v = "left" /\ pc = "read left" /\ pc' = "read right"
            \/ v = "right" /\ pc = "read right" /\ pc' = "set right"
         /\ error' = [error EXCEPT ![v] = Error(v)]
         /\ UNCHANGED <<goal, count, direction, state, stepped, own>>
  <2>1. "left" \in Wheel /\ "right" \in Wheel
    BY DEF Wheel
  <2>2. CASE ReadLeft
    BY <2>1, <2>2, Zenon DEF ReadLeft
  <2>3. CASE ReadRight
    BY <2>1, <2>3, Zenon DEF ReadRight
  <2> QED
    BY <2>2, <2>3
<1>2. WheelsOK /\ WheelsOK' /\ ReadInv /\ CommandInv /\ StateInv
  BY Zenon DEF TypeInv, ReachInv
<1>3. pc \in MovePc /\ pc # "set left" /\ pc' # "set left"
  BY <1>1 DEF MovePc
<1>4. \A w \in Wheel : ReadOf(w) /\ BackOf(w) /\ ForthOf(w)
  BY <1>2, <1>3, Zenon DEF ReadInv, CommandInv
<1>5. ASSUME NEW w \in Wheel
      PROVE  /\ SinceRead(w)' = SinceRead(w)
             /\ SinceCommand(w)' = SinceCommand(w) /\ Reach(w)' = Reach(w)
  BY <1>1, <1>3, LongestStays DEF SinceRead, SinceCommand, Made, Reach
<1>6. ASSUME NEW w \in Wheel PROVE BackOf(w)' /\ ForthOf(w)'
  <2>1. SinceCommand(w)' >= SinceCommand(w)
    BY <1>2, <1>5, SinceIs DEF Counted
  <2>2. direction'[w] = direction[w] /\ goal' = goal /\ count' = count
    BY <1>1
  <2> QED
    BY <1>2, <1>4, <2>1, <2>2, Stays
<1>7. ASSUME NEW w \in Wheel PROVE ReadOf(w)'
  <2>1. CASE w = v
    <3>1. error'[w] = Error(w)
      BY <1>1, <1>2, <2>1 DEF WheelsOK
    <3>2. UNCHANGED <<goal, count, stepped, own>>
      BY <1>1
    <3> QED
      BY <1>2, <1>4, <3>1, <3>2, FreshRead
  <2>2. CASE w # v
    <3>1. error'[w] = error[w]
      BY <1>1, <1>2, <2>2 DEF WheelsOK
    <3>2. IsRead(w)' => IsRead(w)
      BY <1>1, <2>2 DEF IsRead, Wheel
    <3>3. goal' = goal /\ count' = count
      BY <1>1
    <3> QED
      BY <1>4, <1>5, <3>1, <3>2, <3>3, Zenon DEF ReadOf
  <2> QED
    BY <2>1, <2>2
<1>8. StateInv'
  <2>1. Reach("left")' = Reach("left") /\ state' = state
    BY <1>1, <1>5 DEF Wheel
  <2> QED
    BY <1>2, <1>3, <2>1, Zenon DEF StateInv
<1> QED
  BY <1>6, <1>7, <1>8, Zenon DEF ReachInv, ReadInv, CommandInv

LEMMA SetRightReach ==
    ASSUME TypeInv, TypeInv', ReachInv, SetRight
    PROVE  ReachInv'
<1> USE DEF motors, pid, time, thread, proximity
<1>1. /\ pc = "set right" /\ pc' = "set left"
      /\ direction' = [direction EXCEPT !["right"] = Direction("right", state)]
      /\ UNCHANGED <<goal, count, error, state, stepped, own>>
  BY Zenon DEF SetRight
<1>2. WheelsOK /\ WheelsOK' /\ ReadInv /\ CommandInv /\ StateInv
  BY Zenon DEF TypeInv, ReachInv
<1>3. pc \in MovePc
  BY <1>1 DEF MovePc
<1>4. \A w \in Wheel : ReadOf(w) /\ BackOf(w) /\ ForthOf(w) /\ IsRead(w)
  BY <1>1, <1>2, <1>3, Zenon DEF IsRead, ReadInv, CommandInv
<1>5. ASSUME NEW w \in Wheel
      PROVE  SinceRead(w)' = SinceRead(w) /\ Reach(w)' = Reach(w)
  BY <1>1, LongestStays DEF SinceRead, Made, Reach
<1>6. "left" \in Wheel /\ "right" \in Wheel
      /\ Other("left") = "right" /\ Other("right") = "left"
  BY DEF Wheel, Other
<1>7. BackOf("left")' /\ ForthOf("left")'
  <2>1. SinceCommand("left")' = SinceCommand("left")
    BY <1>1, LongestStays DEF SinceCommand, Made
  <2>2. SinceCommand("left")' >= SinceCommand("left")
    BY <1>2, <1>6, <2>1, SinceIs DEF Counted
  <2>3. direction'["left"] = direction["left"]
    BY <1>1, <1>2, <1>6 DEF WheelsOK
  <2> QED
    BY <1>1, <1>2, <1>4, <1>6, <2>2, <2>3, Stays
<1>8. BackOf("right")' /\ ForthOf("right")'
  <2>1. SinceCommand("right")' = SinceRead("right")'
    BY <1>1, Zenon DEF SinceCommand
  <2>2. SinceCommand("right")' >= SinceRead("right")
    BY <1>2, <1>5, <1>6, <2>1, SinceIs DEF Counted
  <2>3. direction'["right"] = Direction("right", state)
    BY <1>1, <1>2, <1>6 DEF WheelsOK
  <2>4. /\ state \in Int /\ -Reach(Other("right")) <= state
        /\ state <= Reach(Other("right"))
    BY <1>2, <1>3, <1>6 DEF StateInv, WheelsOK
  <2> QED
    BY <1>1, <1>2, <1>4, <1>6, <2>2, <2>3, <2>4, Commanded
<1>9. ASSUME NEW w \in Wheel PROVE BackOf(w)' /\ ForthOf(w)'
  BY <1>7, <1>8 DEF Wheel
<1>10. ASSUME NEW w \in Wheel PROVE ReadOf(w)'
  BY <1>1, <1>4, <1>5, Zenon DEF ReadOf
<1>11. StateInv'
  <2>1. Reach("left")' = Reach("left") /\ state' = state
    BY <1>1, <1>5, <1>6
  <2> QED
    BY <1>2, <1>3, <2>1, Zenon DEF StateInv
<1> QED
  BY <1>9, <1>10, <1>11, Zenon DEF ReachInv, ReadInv, CommandInv

LEMMA SetLeftReach ==
    ASSUME TypeInv, TypeInv', ReachInv, SetLeft
    PROVE  ReachInv'
<1> USE DEF motors, pid, time, thread, proximity
<1>1. CASE Arrived
  <2>1. pc' \notin MovePc
    BY <1>1 DEF SetLeft, MovePc
  <2> QED
    BY <2>1, Outside
<1>2. CASE ~Arrived
  <2>1. /\ pc = "set left" /\ pc' = "read left" /\ state' = error["left"]
        /\ direction' = [direction EXCEPT
                           !["left"] = Direction("left", error["right"])]
        /\ UNCHANGED <<goal, count, error>>
        /\ \/ stepped' = {} /\ own' = IF own < OWN THEN own + 1 ELSE own
           \/ stepped' = stepped /\ own' = own
    BY <1>2, Zenon DEF SetLeft
  <2>2. WheelsOK /\ WheelsOK' /\ ReadInv /\ CommandInv
    BY Zenon DEF TypeInv, ReachInv
  <2>3. pc \in MovePc
    BY <2>1 DEF MovePc
  <2>4. \A w \in Wheel : ReadOf(w) /\ BackOf(w) /\ ForthOf(w) /\ IsRead(w)
    BY <2>1, <2>2, <2>3, Zenon DEF IsRead, ReadInv, CommandInv
  <2>5. "left" \in Wheel /\ "right" \in Wheel
        /\ Other("left") = "right" /\ Other("right") = "left"
    BY DEF Wheel, Other
  <2>6. ASSUME NEW w \in Wheel PROVE SinceCommand(w)' >= SinceRead(w)
    <3>1. Longest \in Nat /\ Longest' = Longest /\ own \in Nat /\ own' \in Nat
      BY <2>2, LongestStays, Bounds DEF WheelsOK
    <3>2. own = 0 => own' <= 1
      <4>1. own' = own + 1 \/ own' = own
        BY <2>1
      <4> QED
        BY ONLY <4>1
    <3>3. /\ Made(w) = 0 \/ Made(w) = 1
          /\ Made(w)' = 0 \/ Made(w)' = 1
      BY DEF Made
    <3> DEFINE slice == IF own = 0 THEN Longest ELSE 0
               slices == IF own' <= 1 THEN Longest ELSE 0
    <3>4. slice \in Nat /\ slices \in Nat /\ slice <= slices
      BY <3>1, <3>2
    <3>5. SinceRead(w) = slice + Made(w)
      BY Zenon DEF SinceRead
    <3>6. SinceCommand(w)' = slices + 1 + Made(w)'
      <4>1. pc' # "set left"
        BY <2>1
      <4> QED
        BY <3>1, <4>1, Zenon DEF SinceCommand
    <3> HIDE DEF slice, slices
    <3> QED
      BY <3>3, <3>4, <3>5, <3>6
  <2>7. BackOf("right")' /\ ForthOf("right")'
    <3>1. SinceCommand("right") = SinceRead("right")
      BY <2>1, Zenon DEF SinceCommand
    <3>2. SinceCommand("right")' >= SinceCommand("right")
      BY <2>5, <2>6, <3>1
    <3>3. direction'["right"] = direction["right"]
      BY <2>1, <2>2, <2>5 DEF WheelsOK
    <3> QED
      BY <2>1, <2>2, <2>4, <2>5, <3>2, <3>3, Stays
  <2>8. BackOf("left")' /\ ForthOf("left")'
    <3>1. direction'["left"] = Direction("left", error["right"])
      BY <2>1, <2>2, <2>5 DEF WheelsOK
    <3>2. /\ error["right"] \in Int /\ -Reach(Other("left")) <= error["right"]
          /\ error["right"] <= Reach(Other("left"))
      BY <2>2, <2>4, <2>5 DEF ReadOf, WheelsOK
    <3> QED
      BY <2>1, <2>2, <2>4, <2>5, <2>6, <3>1, <3>2, Commanded
  <2>9. ASSUME NEW w \in Wheel PROVE BackOf(w)' /\ ForthOf(w)'
    BY <2>7, <2>8 DEF Wheel
  <2>10. ReadInv'
    BY <2>1 DEF ReadInv, ReadOf, IsRead
  <2>11. StateInv'
    <3>1. Reach("left")' = Reach("left")
      BY <2>1 DEF Reach
    <3>2. -Reach("left") <= error["left"] /\ error["left"] <= Reach("left")
      BY <2>4, <2>5, Zenon DEF ReadOf
    <3> QED
      BY <2>1, <3>1, <3>2, Zenon DEF StateInv
  <2> QED
    BY <2>9, <2>10, <2>11, Zenon DEF ReachInv, ReadInv, CommandInv
<1> QED
  BY <1>1, <1>2

LEMMA InitReach == Init => ReachInv
BY DEF Init, ReachInv, ReadInv, ReadOf, CommandInv, StateInv, IsRead, MovePc

LEMMA NextReach ==
    TypeInv /\ TypeInv' /\ DriveInv /\ ReachInv /\ [Next]_vars => ReachInv'
<1> SUFFICES ASSUME TypeInv, TypeInv', DriveInv, ReachInv, [Next]_vars
             PROVE  ReachInv'
  OBVIOUS
<1> USE DEF motors, pid, time, thread, proximity
<1>1. CASE GamePathingInit
  <2>1. pc' \notin MovePc
    BY <1>1 DEF GamePathingInit, DriveInv, MovePc
  <2> QED
    BY <2>1, Outside
<1>2. CASE GameCalibrated \/ PathingExit \/ PathingFinished \/ PathingStop
  <2>1. pc' \notin MovePc
    BY <1>2 DEF GameCalibrated, PathingExit, PathingFinished, PathingStop, MovePc
  <2> QED
    BY <2>1, Outside
<1>3. CASE GamePathingWaitFinish \/ GameComesBack \/ ProximityCalibrate
           \/ UNCHANGED vars
  <2>1. UNCHANGED <<pc, goal, count, direction, error, state, stepped, own>>
    BY <1>3, Zenon DEF GamePathingWaitFinish, GameComesBack, ProximityCalibrate,
       vars
  <2> QED
    BY <2>1, FrameReach
<1>4. CASE PathingMove \/ PathingLastMove
  <2>1. \E l, r \in Int : MoveStart(l, r)
    BY <1>4, MovesAreLengths, Bounds DEF PathingMove, PathingLastMove
  <2>2. \A w \in Wheel : direction[w] = 0
    <3>1. pc = "loop"
      BY <1>4, Zenon DEF PathingMove, PathingLastMove
    <3>2. pc \notin MovePc
      BY <3>1 DEF MovePc
    <3> QED
      BY <3>2, Zenon DEF DriveInv
  <2>3. WheelsOK /\ WheelsOK'
    BY Zenon DEF TypeInv
  <2> QED
    BY <2>1, <2>2, <2>3, MoveStartReach
<1>5. CASE Pass
  BY <1>5, ReadReach, SetRightReach, SetLeftReach DEF Pass
<1>6. CASE (\E w \in Wheel : Microstep(w)) \/ OthersSlice
  BY <1>6, WheelsReach
<1> QED
  BY <1>1, <1>2, <1>3, <1>4, <1>5, <1>6, Zenon DEF Next, GameThd, PathingThd

LEMMA ReachInvariant == Spec => [](TypeInv /\ ReachInv)
<1>1. TypeInv /\ DriveInv /\ [Next]_vars => DriveInv'
  BY NextDrive
<1> QED
  BY <1>1, InitReach, InitDrive, NextReach, TypeInvariant, PTL DEF Spec

LEMMA NearEnough ==
    ASSUME WheelsOK, NEW w \in Wheel, ReadOf(w), IsRead(w), ~Far(w)
    PROVE  Abs(Error(w)) < MIN_STEPS + STEP * Blind
<1>1. PICK g \in Int, c \in Int, e \in Int :
         g = goal[w] /\ c = count[w] /\ e = error[w]
  BY DEF WheelsOK
<1>2. PICK r \in Nat : r = SinceRead(w) /\ r <= Longest + 2
  <2>1. /\ SinceRead(w) \in Nat /\ SinceCommand(w) \in Nat
        /\ SinceRead(w) <= SinceCommand(w) /\ SinceCommand(w) <= Longest + 2
    BY SinceIs DEF Counted
  <2> QED
    BY <2>1, LongestStays
<1>3. At(g, c + r) <= e /\ e <= At(g, c - r)
  BY <1>1, <1>2, Zenon DEF ReadOf
<1>4. -39 < e /\ e < 39
  BY <1>1 DEF Far, Abs, MIN_STEPS, STEP
<1>5. PICK b \in Int : b = STEP * Blind
  BY BlindIs
<1>6. At(g, c) \in Int /\ At(g, c + r) \in Int
      /\ At(g, c) <= At(g, c + r) + b
  <2>1. c + r \in Int /\ c <= c + r /\ (c + r) - c <= Longest + 2
    BY <1>2
  <2> QED
    BY <1>5, <2>1, AtOrder
<1>7. At(g, c - r) \in Int /\ At(g, c - r) <= At(g, c) + b
  <2>1. c - r \in Int /\ c - r <= c /\ c - (c - r) <= Longest + 2
    BY <1>2
  <2> QED
    BY <1>5, <2>1, AtOrder
<1>8. -(39 + b) < At(g, c) /\ At(g, c) < 39 + b
  BY <1>3, <1>4, <1>6, <1>7
<1>9. Error(w) = At(g, c)
  BY <1>1 DEF Error, At
<1>10. Abs(At(g, c)) < 39 + b
  BY <1>6, <1>8 DEF Abs
<1>11. MIN_STEPS = 39
  BY DEF MIN_STEPS, STEP
<1> QED
  BY <1>5, <1>9, <1>10, <1>11, Zenon

\* When a move is over each wheel is within three steps of its goal, or within
\* what it made after its counter was read, for every slice of 20 ms and every
\* move (pathing.c:142-184, 80-94).
THEOREM MovesEndNear == Spec => []ArrivesNear
<1>1. TypeInv /\ ReachInv => ArrivesNear
  <2> SUFFICES ASSUME WheelsOK, ReadInv, pc = "set left", Arrived,
                      NEW w \in Wheel
               PROVE  Abs(Error(w)) < MIN_STEPS + STEP * Blind
    BY Zenon DEF TypeInv, ReachInv, ArrivesNear
  <2>1. ReadOf(w) /\ IsRead(w)
    BY Zenon DEF IsRead, ReadInv
  <2>2. ~Far(w)
    BY DEF Arrived, Wheel
  <2> QED
    BY <2>1, <2>2, NearEnough
<1> QED
  BY <1>1, ReachInvariant, PTL

\* One wheel's error may turn the other the wrong way, but never farther from
\* its goal than it was at first or than a 21st of the other's way and what it
\* makes unseen, whatever the moves are (pathing.c:147-176).
THEOREM WheelsStrayLittle == Spec => []StraysLittle
<1>1. TypeInv /\ ReachInv => StraysLittle
  <2> SUFFICES ASSUME WheelsOK, CommandInv, pc \in MovePc,
                      NEW w \in Wheel
               PROVE  Abs(Error(w)) <= Reach(w)
    BY DEF TypeInv, ReachInv, StraysLittle, InMove, MovePc, Reach
  <2>1. /\ At(goal[w], count[w]) <= Reach(w)
        /\ -At(goal[w], count[w]) <= Reach(w)
    BY Zenon DEF CommandInv, BackOf, ForthOf
  <2>2. Error(w) = At(goal[w], count[w])
    BY DEF Error, At
  <2>3. Abs(Error(w)) = Error(w) \/ Abs(Error(w)) = -Error(w)
    BY DEF Abs
  <2> QED
    BY <2>1, <2>2, <2>3
<1> QED
  BY <1>1, ReachInvariant, PTL

=============================================================================
