------------------------------ MODULE Scheduler ------------------------------
(***************************************************************************)
(* The schedulers of core/worker.js: an interval timer whose callback runs *)
(* one check of a service under a lock that is only a time stamp.  The     *)
(* lock is free again when a check releases it, whichever check that is,   *)
(* and it no longer counts once it is Ttl old.                             *)
(*                                                                         *)
(* Time passes in ticks.  What a check does is a module of its own.        *)
(***************************************************************************)
EXTENDS Integers

CONSTANTS
  Interval,   \* the delay of setInterval, in ticks
  Ttl         \* SCHEDULER_LOCK_TTL_MS, in ticks

ASSUME SchedulerAssumption ==
  /\ Interval \in Nat \ {0}
  /\ Ttl \in Nat \ {0}

VARIABLES
  timer,      \* ticks until the callback is due
  lock,       \* the age of the lock, up to Ttl, or Free
  overdue     \* history: "yes" once a lock has reached its Ttl

schedVars == <<timer, lock, overdue>>

Free == -1

SchedTypeOK ==
  /\ timer \in 0 .. Interval
  /\ lock \in Free .. Ttl
  /\ overdue \in {"no", "yes"}

SchedInit == timer = Interval /\ lock = Free /\ overdue = "no"

\* Mutant: a lock never expires.
AcquirableIfFree == lock = Free

\* acquireLock's condition.
Acquirable == lock = Free \/ lock = Ttl

\* The callback takes the lock and starts a check.
Acquire ==
  /\ timer = 0 /\ Acquirable
  /\ timer' = Interval
  /\ lock' = 0
  /\ UNCHANGED overdue

\* The callback finds the lock taken: "still running, skipping this tick".
Skip ==
  /\ timer = 0 /\ ~Acquirable
  /\ timer' = Interval
  /\ UNCHANGED <<lock, overdue>>

\* releaseLock, in the finally block of a check.
ReleaseLock ==
  /\ lock' = Free
  /\ UNCHANGED <<timer, overdue>>

\* Time passes; a callback that is due may run late.
Tick ==
  /\ timer' = IF timer > 0 THEN timer - 1 ELSE 0
  /\ lock' = IF lock \in {Free, Ttl} THEN lock ELSE lock + 1
  /\ overdue' = IF lock' = Ttl THEN "yes" ELSE overdue

\* A new process: the timer and the lock are made anew.
Reset ==
  /\ timer' = Interval
  /\ lock' = Free
  /\ UNCHANGED overdue

=============================================================================
