-------------------------------- MODULE Pathing --------------------------------
(***************************************************************************)
(* The drive to the winner: pathingThd, which makes one move after the     *)
(* other until it is near its target, the loop of move() that starts and   *)
(* stops the wheels by their step counters, the interrupts of motors.c     *)
(* that count, and gameThd, which lets the proximity sensors calibrate     *)
(* themselves and waits for the end of the drive.                          *)
(*                                                                         *)
(* Lengths are in hundredths of a millimetre, of which a step is 13: the   *)
(* code's error in steps, times 13.  Where the robot is and what its       *)
(* sensors see are choices (the trigonometry is left out), and so is the   *)
(* rounding of the floats.                                                 *)
(***************************************************************************)
EXTENDS Integers

CONSTANTS
    PathMoves,       \* what update_path may compute, before it is clipped
    LAST_MOVE,       \* the move to the player: 3000, 30 mm
    MaxMoves,        \* bound: the moves before the robot is near its target
    SAMPLES,         \* the measures of a calibration: 100
    SLICE,           \* the microsteps of a wheel in another thread's slice
    OWN              \* the microsteps of a wheel in pathingThd's slice, at least

\* A slice is 20 ms (chconf.h:82): a wheel makes 12 microsteps in it at
\* MIN_SPEED and less than 20 at 485 steps per second, the fastest of a drive.
ASSUME MovesAssumption ==
    /\ PathMoves \subseteq Int \X Int
    /\ LAST_MOVE \in Nat /\ MaxMoves \in Nat
    /\ SAMPLES \in 1..255
    /\ SLICE # {} /\ SLICE \subseteq 0..20
    /\ OWN \in Nat /\ OWN >= 2

Wheel == {"left", "right"}

STEP == 13                        \* a step is WHEEL_PERIMETER / NSTEP_ONE_TURN
MIN_STEPS == 3 * STEP
MAX_MOTOR_DISPLACEMENT == 1500

VARIABLES
    game,            \* gameThd: "drive", "calibrate", "wait" or "photo"
    started,         \* whether the sensors' thread and timer were started
    calibrationInProgress, calibrationState, calibrationNumSamples,
    pc,              \* pathingThd
    option,          \* current_option
    terminate,
    sem_finished_pathing,
    moves,           \* history: the moves of this drive
    goal,            \* left_steps, right_steps
    count,           \* the motors' counters, in microsteps
    direction,       \* the motors' directions: HALT, FORWARD, BACKWARD
    error,           \* error_left, error_right, as last read
    state,           \* steps_pid.state[0]: the error of the PID's last call
    stepped,         \* the wheels that made the microstep of this period
    own              \* history: the periods since the last slice of another thread

proximity == <<started, calibrationInProgress, calibrationState,
               calibrationNumSamples>>
motors == <<count, direction>>
pid == <<error, state>>
thread == <<option, terminate, sem_finished_pathing, moves, goal>>

time == <<stepped, own>>

vars == <<game, proximity, pc, thread, motors, pid, time>>

Init ==
    /\ game = "drive"
    /\ started = FALSE /\ calibrationInProgress = FALSE
    /\ calibrationState = 0 /\ calibrationNumSamples = 0
    /\ pc = "none" /\ option = "PATHING" /\ terminate = FALSE
    /\ sem_finished_pathing = 0 /\ moves = 0
    /\ goal = [w \in Wheel |-> 0] /\ count = [w \in Wheel |-> 0]
    /\ direction = [w \in Wheel |-> 0]
    /\ error = [w \in Wheel |-> 0] /\ state = 0
    /\ stepped = {} /\ own = 0

Abs(n) == IF n < 0 THEN -n ELSE n
Most(m, n) == IF m > n THEN m ELSE n
Both(l, r) == [w \in Wheel |-> IF w = "left" THEN l ELSE r]

-----------------------------------------------------------------------------
(***************************************************************************)
(* gameThd and the proximity sensors.  pathing_init resets the motors,     *)
(* starts the sensors if they are not, waits for their calibration and     *)
(* creates the thread, whose first pass sets the target.                   *)
(***************************************************************************)
GamePathingInit ==
    /\ game = "drive"
    /\ game' = "calibrate"
    /\ count' = Both(0, 0) /\ direction' = Both(0, 0)
    /\ started' = TRUE
    /\ calibrationState' = 0 /\ calibrationInProgress' = TRUE
    /\ UNCHANGED <<calibrationNumSamples, pc, thread, pid, time>>

\* A pass of proximity_thd, after a measure.
ProximityCalibrate ==
    /\ started /\ calibrationInProgress
    /\ calibrationState' = 1
    /\ calibrationNumSamples' =
          IF calibrationState = 0 THEN 0 ELSE calibrationNumSamples + 1
    /\ calibrationInProgress' = (calibrationNumSamples' # SAMPLES)
    /\ UNCHANGED <<game, started, pc, thread, motors, pid, time>>

GameCalibrated ==
    /\ game = "calibrate" /\ ~calibrationInProgress
    /\ game' = "wait"
    /\ pc' = "loop" /\ option' = "PATHING" /\ terminate' = FALSE /\ moves' = 0
    /\ UNCHANGED <<proximity, sem_finished_pathing, goal, motors, pid, time>>

GamePathingWaitFinish ==
    /\ game = "wait" /\ sem_finished_pathing = 1
    /\ game' = "photo" /\ sem_finished_pathing' = 0
    /\ UNCHANGED <<proximity, pc, option, terminate, moves, goal, motors, pid,
                   time>>

\* The next game, once the thread is gone.
GameComesBack ==
    /\ game = "photo" /\ pc = "none"
    /\ game' = "drive"
    /\ UNCHANGED <<proximity, pc, thread, motors, pid, time>>

-----------------------------------------------------------------------------
(***************************************************************************)
(* pathingThd and pathing().                                               *)
(***************************************************************************)
PathingExit ==
    /\ pc = "loop" /\ terminate
    /\ pc' = "none"
    /\ UNCHANGED <<game, proximity, thread, motors, pid, time>>

\* Mutant of PathingFinished: the thread does not stop itself, and the
\* semaphore counts.
PathingFinishedAgain ==
    /\ pc = "loop" /\ ~terminate /\ option = "PATHING_FINISHED"
    /\ sem_finished_pathing < 2
    /\ sem_finished_pathing' = sem_finished_pathing + 1
    /\ UNCHANGED <<game, proximity, pc, option, terminate, moves, goal, motors, pid,
                   time>>

\* The semaphore is binary; its signal lets gameThd run before pathing_stop.
PathingFinished ==
    /\ pc = "loop" /\ ~terminate /\ option = "PATHING_FINISHED"
    /\ sem_finished_pathing' = 1 /\ pc' = "stop"
    /\ UNCHANGED <<game, proximity, option, terminate, moves, goal, motors, pid,
                   time>>

PathingStop ==
    /\ pc = "stop"
    /\ terminate' = TRUE /\ pc' = "loop"
    /\ UNCHANGED <<game, proximity, option, sem_finished_pathing, moves, goal,
                   motors, pid, time>>

\* The moves around an obstacle, by the sensor that is nearest to it.
Evasions == {<<500, 400>>, <<400, 500>>, <<500, 0>>, <<500, -200>>,
             <<-200, 500>>, <<0, 500>>}

Clip(x) == IF x > MAX_MOTOR_DISPLACEMENT THEN MAX_MOTOR_DISPLACEMENT
           ELSE Most(x, -MAX_MOTOR_DISPLACEMENT)

ClippedMoves == {<<Clip(m[1]), Clip(m[2])>> : m \in PathMoves}

\* The beginning of move.
MoveStart(l, r) ==
    /\ goal' = Both(l, r) /\ pc' = "read left"
    /\ count' = Both(0, 0) /\ state' = 0
    /\ UNCHANGED <<direction, error, time>>

PathingMove ==
    /\ pc = "loop" /\ ~terminate /\ option = "PATHING" /\ moves < MaxMoves
    /\ \E m \in Evasions \cup ClippedMoves : MoveStart(m[1], m[2])
    /\ moves' = moves + 1
    /\ UNCHANGED <<game, proximity, option, terminate, sem_finished_pathing>>

\* Mutant of PathingLastMove: the end is signalled when the robot is near.
PathingLastMoveSignals ==
    /\ pc = "loop" /\ ~terminate /\ option = "PATHING"
    /\ MoveStart(LAST_MOVE, LAST_MOVE)
    /\ option' = "PATHING_FINISHED" /\ sem_finished_pathing' = 1
    /\ UNCHANGED <<game, proximity, terminate, moves>>

PathingLastMove ==
    /\ pc = "loop" /\ ~terminate /\ option = "PATHING"
    /\ MoveStart(LAST_MOVE, LAST_MOVE)
    /\ option' = "PATHING_FINISHED"
    /\ UNCHANGED <<game, proximity, terminate, sem_finished_pathing, moves>>

-----------------------------------------------------------------------------
(***************************************************************************)
(* The loop of move().                                                     *)
(***************************************************************************)

\* left_motor_get_pos: the division truncates towards zero.
Pos(c) == IF c >= 0 THEN c \div 2 ELSE -((-c) \div 2)

Error(w) == goal[w] - STEP * Pos(count[w])

ReadLeft ==
    /\ pc = "read left"
    /\ error' = [error EXCEPT !["left"] = Error("left")]
    /\ pc' = "read right"
    /\ UNCHANGED <<game, proximity, thread, motors, state, time>>

ReadRight ==
    /\ pc = "read right"
    /\ error' = [error EXCEPT !["right"] = Error("right")]
    /\ pc' = "set right"
    /\ UNCHANGED <<game, proximity, thread, motors, state, time>>

\* Mutant of Output: the terms of the two errors are swapped.
OutputSwapped(e, last) == 21 * last - e

\* arm_pid_f32 with Kp = 2, Ki = 0, Kd = 0.1: the sum of its increments is
\* 2.1 times this error less 0.1 times the last one.  One PID serves both
\* wheels, so that the last one is the other wheel's.  Only the sign of the
\* output counts here: a wheel runs at MIN_SPEED or faster.
Output(e, last) == 21 * e - last

Far(w) == Abs(error[w]) >= MIN_STEPS

Direction(w, last) ==
    IF ~Far(w) THEN 0 ELSE IF Output(error[w], last) >= 0 THEN 1 ELSE -1

SetRight ==
    /\ pc = "set right"
    /\ direction' = [direction EXCEPT !["right"] = Direction("right", state)]
    /\ pc' = "set left"
    /\ UNCHANGED <<game, proximity, thread, count, pid, time>>

\* Mutant of Arrived: one wheel is enough.
ArrivedLeft == ~Far("left")

\* Mutant of Arrived: it asks for more than the wheels do.
ArrivedCloser == \A w \in Wheel : Abs(error[w]) < STEP

Arrived == ~Far("left") /\ ~Far("right")

Running == {w \in Wheel : direction[w] # 0}

SetLeft ==
    /\ pc = "set left"
    /\ state' = error["left"]
    /\ IF Arrived
       THEN /\ direction' = Both(0, 0) /\ count' = Both(0, 0)
            /\ pc' = "loop"
       ELSE /\ direction' =
                 [direction EXCEPT !["left"] = Direction("left", error["right"])]
            /\ pc' = "read left"
            /\ UNCHANGED count
    /\ IF stepped # {} /\ Running' \subseteq stepped
       THEN stepped' = {} /\ own' = IF own < OWN THEN own + 1 ELSE own
       ELSE UNCHANGED time
    /\ UNCHANGED <<game, proximity, thread, error>>

-----------------------------------------------------------------------------
(***************************************************************************)
(* The timers of the motors, and the slices of the thread main became,     *)
(* which runs for ever at pathingThd's priority.                           *)
(***************************************************************************)
InMove == pc \in {"read left", "read right", "set right", "set left"}

\* Running wheels have the same period, 1.7 ms: each makes one microstep of its
\* own in it, in either order, and there is a pass of the loop, which takes
\* microseconds, before the next.
Microstep(w) ==
    /\ InMove /\ direction[w] # 0 /\ w \notin stepped
    /\ count' = [count EXCEPT ![w] = @ + direction[w]]
    /\ stepped' = stepped \cup {w}
    /\ UNCHANGED <<game, proximity, pc, thread, direction, pid, own>>

\* The wheels go on while the thread does not.
OthersSlice ==
    /\ InMove /\ own = OWN
    /\ \E n \in [Wheel -> SLICE] :
          count' = [w \in Wheel |-> count[w] + n[w] * direction[w]]
    /\ own' = 0
    /\ UNCHANGED <<game, proximity, pc, thread, direction, pid, stepped>>

Pass == ReadLeft \/ ReadRight \/ SetRight \/ SetLeft

PathingThd == PathingExit \/ PathingFinished \/ PathingStop \/ PathingMove
              \/ PathingLastMove \/ Pass

GameThd ==
    GamePathingInit \/ GameCalibrated \/ GamePathingWaitFinish \/ GameComesBack

Next ==
    \/ GameThd \/ ProximityCalibrate \/ PathingThd
    \/ \E w \in Wheel : Microstep(w)
    \/ OthersSlice

Spec == Init /\ [][Next]_vars

\* The threads run, the sensors measure, and a wheel that was started turns.
FairSpec ==
    /\ Spec /\ WF_vars(GameThd) /\ WF_vars(ProximityCalibrate) /\ WF_vars(PathingThd)
    /\ \A w \in Wheel : WF_vars(Microstep(w))

-----------------------------------------------------------------------------
(***************************************************************************)
(* Properties.                                                             *)
(***************************************************************************)

\* Every variable has its type: the semaphore stays binary.
TypeOK ==
    /\ game \in {"drive", "calibrate", "wait", "photo"}
    /\ started \in BOOLEAN /\ calibrationInProgress \in BOOLEAN
    /\ calibrationState \in 0..1 /\ calibrationNumSamples \in 0..SAMPLES
    /\ pc \in {"none", "loop", "stop"} \/ InMove
    /\ option \in {"PATHING", "PATHING_FINISHED"} /\ terminate \in BOOLEAN
    /\ sem_finished_pathing \in 0..1 /\ moves \in 0..MaxMoves
    /\ goal \in [Wheel -> Int] /\ count \in [Wheel -> Int]
    /\ direction \in [Wheel -> -1..1]
    /\ error \in [Wheel -> Int] /\ state \in Int
    /\ stepped \subseteq Wheel /\ own \in 0..OWN

\* What a wheel may make between the reading of its counter and the next
\* command, in steps, rounded up: a slice of another thread, and a microstep of
\* its own before and after it.
Blind == ((CHOOSE n \in SLICE : \A m \in SLICE : m <= n) + 3) \div 2

\* The dead reckoning takes every move as made exactly; when a move is over
\* each wheel is within three steps of its goal, or within what it made after
\* its counter was read (pathing.c:142-184, 80-94).
ArrivesNear ==
    pc = "set left" /\ Arrived =>
        \A w \in Wheel : Abs(Error(w)) < MIN_STEPS + STEP * Blind

Other(w) == IF w = "left" THEN "right" ELSE "left"

\* The wheels share one PID, and the error of one may turn the other the wrong
\* way; it never takes it farther from its goal than it was at first, or than
\* a 21st of the other's way and what it makes unseen (pathing.c:147-176).
StraysLittle ==
    InMove =>
        \A w \in Wheel :
            Abs(Error(w)) <= Most(Abs(goal[w]),
                                  Abs(goal[Other(w)]) \div 21 + STEP * Blind)

\* The game takes its photo of the winner only when the robot stands: nobody
\* is told of the end of a drive before its last move is over
\* (pathing.c:295-297, 351-353).
StandsAtPhoto ==
    game = "photo" => \A w \in Wheel : direction[w] = 0

\* A drive ends, although both wheels must be within three steps at the same
\* time, run at a minimal speed, and overshoot whenever another thread runs
\* (pathing.c:142-184).
DriveEnds == game = "calibrate" ~> game = "photo"

=============================================================================
