------------------------------ MODULE ChibiOS ------------------------------
(***************************************************************************)
(* The ChibiOS/RT kernel objects 2Puck is built on, as operators on their  *)
(* values: thread states and the strict-priority scheduler, synchronous    *)
(* messages, recursive mutexes, counting and binary semaphores.            *)
(*                                                                         *)
(* The kernel runs on one core with interrupts locked inside every call,   *)
(* so a call is atomic; the modules that model threads apply these         *)
(* operators to their own variables.  The dynamic priorities of the mutex  *)
(* protocol are left out: in every use here the thread that blocks on a    *)
(* mutex has a priority no higher than the owner's, so that no boost ever  *)
(* happens.                                                                *)
(***************************************************************************)
EXTENDS Integers, Sequences

CONSTANTS
    Thread,      \* the threads with a static working area
    Prio,        \* their priorities, a function on Thread
    NoThread     \* the NULL thread pointer

ASSUME PrioAssumption == Prio \in [Thread -> Nat]
ASSUME NoThreadAssumption == NoThread \notin Thread

(***************************************************************************)
(* Thread states.  READY includes CURRENT: which of the ready threads of   *)
(* the highest priority has the core is left open (time slices of 20 ms).  *)
(* WTSTART is the state of a working area no thread was yet created in.    *)
(***************************************************************************)
ThreadState ==
    {"WTSTART", "READY", "SLEEPING", "SUSPENDED", "QUEUED", "WTSEM",
     "WTMTX", "SNDMSGQ", "WTMSG", "FINAL"}

\* chSchReadyI: the threads of T are made ready.
Ready(state, T) == [t \in Thread |-> IF t \in T THEN "READY" ELSE state[t]]

\* The scheduler may let t run: no ready thread has a higher priority.
MayRun(state, t) ==
    /\ state[t] = "READY"
    /\ \A u \in Thread : state[u] = "READY" => Prio[u] <= Prio[t]

(***************************************************************************)
(* Counting semaphores: a count that may go negative and a FIFO of the     *)
(* waiting threads.                                                        *)
(***************************************************************************)
Semaphore == [cnt : Int, queue : Seq(Thread)]

SemInit(n) == [cnt |-> n, queue |-> << >>]

\* chSemWait blocks its caller in state WTSEM when this holds.
SemBlocks(s) == s.cnt - 1 < 0

SemWait(s, t) ==
    [cnt |-> s.cnt - 1,
     queue |-> IF SemBlocks(s) THEN Append(s.queue, t) ELSE s.queue]

SemWakes(s) == s.cnt + 1 <= 0 /\ s.queue # << >>

SemSignal(s) ==
    [cnt |-> s.cnt + 1,
     queue |-> IF SemWakes(s) THEN Tail(s.queue) ELSE s.queue]

\* The thread chSemSignal makes ready, if any.
SemSignalled(s) == IF SemWakes(s) THEN {Head(s.queue)} ELSE {}

\* The threads chSemReset makes ready: everything that waited.
SemReset(s, n) == SemInit(n)
SemResetWoken(s) == {s.queue[k] : k \in DOMAIN s.queue}

\* Mutant of BSemSignal: signals are counted.
BSemSignalCounting(s) == SemSignal(s)

\* Binary semaphores: a signal on one that is already available is lost.
BSemSignal(s) == IF s.cnt < 1 THEN SemSignal(s) ELSE s
BSemSignalled(s) == IF s.cnt < 1 THEN SemSignalled(s) ELSE {}

\* What every semaphore call asserts ("inconsistent semaphore").
SemConsistent(s) == (s.cnt < 0) <=> (s.queue # << >>)

(***************************************************************************)
(* Mutexes, with CH_CFG_USE_MUTEXES_RECURSIVE.  listed is the thread's     *)
(* p_mtxlist, reduced to whether this mutex is on it.  waiting is the      *)
(* queue of m, as the set of its members: chMtxUnlock takes one of the     *)
(* highest priority.                                                       *)
(***************************************************************************)
Mutex == [owner : Thread \cup {NoThread}, cnt : Nat, waiting : SUBSET Thread]

FreeMutex == [owner |-> NoThread, cnt |-> 0, waiting |-> {}]

\* chMtxLock blocks its caller in state WTMTX when this holds.
MtxBlocks(m, t) == m.owner \notin {NoThread, t}

MtxLock(m, t) ==
    IF MtxBlocks(m, t)
    THEN [owner |-> m.owner, cnt |-> m.cnt, waiting |-> m.waiting \cup {t}]
    ELSE [owner |-> t, cnt |-> m.cnt + 1, waiting |-> m.waiting]

\* A mutex enters the list of its owner only when it was not owned before:
\* a recursive lock is not recorded a second time.
MtxListed(m, t, listed) == listed \/ m.owner = NoThread

\* What chMtxUnlock asserts before it does anything.
MtxMayUnlock(m, t, listed) == listed /\ m.owner = t /\ m.cnt >= 1

\* The waiting threads chMtxUnlock may choose.
MtxHeirs(m) ==
    {t \in m.waiting : \A u \in m.waiting : Prio[u] <= Prio[t]}

\* The mutex after chMtxUnlock, heir being the thread it goes to.
MtxUnlock(m, heir) ==
    IF m.cnt > 1
    THEN [owner |-> m.owner, cnt |-> m.cnt - 1, waiting |-> m.waiting]
    ELSE [owner |-> heir, cnt |-> IF heir = NoThread THEN 0 ELSE 1,
          waiting |-> m.waiting \ {heir}]

MtxNextOwner(m) ==
    IF m.cnt > 1 \/ m.waiting = {} THEN {NoThread} ELSE MtxHeirs(m)

=============================================================================
