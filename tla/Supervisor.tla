----------------------------- MODULE Supervisor -----------------------------
(***************************************************************************)
(* core/bootstrap.js: the parent process.  It forks one worker, restarts   *)
(* it with a growing delay when it exits, and stops it on SIGTERM/SIGINT.  *)
(*                                                                         *)
(* Time passes in ticks of MIN_BACKOFF_MS; timers count down to zero and   *)
(* fire at some later moment.  What the worker does is a module of its own *)
(* (Connection); Lifecycle joins the two.                                  *)
(***************************************************************************)
EXTENDS Integers

CONSTANTS
  MaxBackoff,   \* MAX_BACKOFF_MS, in ticks
  Stable,       \* the 30 s that aliveFor is compared with
  Grace         \* the 10 s a worker has before SIGKILL

ASSUME SupervisorAssumption ==
  /\ MaxBackoff \in Nat \ {0}
  /\ Stable \in Nat \ {0}
  /\ Grace \in Nat \ {0}

VARIABLES
  sup,          \* "up" or "exited"
  stopping,     \* shuttingDown
  proc,         \* the child: "up", "gone" (its exit event is due) or "reaped"
  backoff,
  respawn,      \* ticks until setTimeout(spawnWorker) fires, or Off
  kill,         \* ticks until setTimeout(SIGKILL) fires, or Off
  sinceReady,   \* Date.now() - lastReadyAt, up to Stable
  sinceSpawn    \* history: the age of the child, up to Stable

supVars == <<sup, stopping, proc, backoff, respawn, kill, sinceReady, sinceSpawn>>

Off == -1
MinBackoff == 1

SupTypeOK ==
  /\ sup \in {"up", "exited"}
  /\ stopping \in {"no", "yes"}
  /\ proc \in {"up", "gone", "reaped"}
  /\ backoff \in MinBackoff .. MaxBackoff
  /\ respawn \in Off .. MaxBackoff
  /\ kill \in Off .. Grace
  /\ sinceReady \in 0 .. Stable
  /\ sinceSpawn \in 0 .. Stable

\* The script forks the first worker; lastReadyAt is 0, long ago.
SupInit ==
  /\ sup = "up" /\ stopping = "no" /\ proc = "up"
  /\ backoff = MinBackoff
  /\ respawn = Off /\ kill = Off
  /\ sinceReady = Stable /\ sinceSpawn = 0

Doubled(b) == IF 2 * b < MaxBackoff THEN 2 * b ELSE MaxBackoff

-----------------------------------------------------------------------------
\* The respawn timer fires.
SpawnWorker ==
  /\ sup = "up" /\ respawn = 0
  /\ respawn' = Off
  /\ IF stopping = "yes"
       THEN UNCHANGED <<proc, sinceSpawn>>
       ELSE proc' = "up" /\ sinceSpawn' = 0
  /\ UNCHANGED <<sup, stopping, backoff, kill, sinceReady>>

\* The worker sends 'ready'.
HearReady ==
  /\ sinceReady' = 0
  /\ backoff' = MinBackoff
  /\ UNCHANGED <<sup, stopping, proc, respawn, kill, sinceSpawn>>

\* The process of the worker ends; its exit event follows.
WorkerEnds ==
  /\ proc = "up"
  /\ proc' = "gone"
  /\ UNCHANGED <<sup, stopping, backoff, respawn, kill, sinceReady, sinceSpawn>>

\* Mutant: the supervisor gives up once the delay is at its limit.
OnExitGivingUp ==
  /\ sup = "up" /\ proc = "gone"
  /\ proc' = "reaped"
  /\ \/ /\ stopping = "yes"
        /\ sup' = "exited" /\ kill' = Off
        /\ UNCHANGED <<backoff, respawn>>
     \/ /\ stopping = "no"
        /\ backoff' = IF sinceReady < Stable THEN Doubled(backoff) ELSE MinBackoff
        /\ respawn' = IF backoff' = MaxBackoff THEN Off ELSE backoff'
        /\ UNCHANGED <<sup, kill>>
  /\ UNCHANGED <<stopping, sinceReady, sinceSpawn>>

\* The exit listeners of the worker: the supervisor exits if it is stopping,
\* and otherwise arms the respawn timer.
OnExit ==
  /\ sup = "up" /\ proc = "gone"
  /\ proc' = "reaped"
  /\ \/ /\ stopping = "yes"
        /\ sup' = "exited" /\ kill' = Off
        /\ UNCHANGED <<backoff, respawn>>
     \/ /\ stopping = "no"
        /\ backoff' = IF sinceReady < Stable THEN Doubled(backoff) ELSE MinBackoff
        /\ respawn' = backoff'
        /\ UNCHANGED <<sup, kill>>
  /\ UNCHANGED <<stopping, sinceReady, sinceSpawn>>

\* Mutant: no SIGKILL for a worker that does not leave.
ShutdownWithoutKill ==
  /\ sup = "up" /\ stopping = "no"
  /\ stopping' = "yes"
  /\ UNCHANGED <<sup, proc, backoff, respawn, kill, sinceReady, sinceSpawn>>

\* The first SIGTERM or SIGINT.  worker.killed is false until kill() is
\* called, so the message is sent and the exit awaited whatever became of the
\* worker; sending to one that has exited raises an error that is only logged.
Shutdown ==
  /\ sup = "up" /\ stopping = "no"
  /\ stopping' = "yes"
  /\ kill' = Grace
  /\ UNCHANGED <<sup, proc, backoff, respawn, sinceReady, sinceSpawn>>

\* The SIGKILL timer fires.
Kill ==
  /\ sup = "up" /\ kill = 0
  /\ kill' = Off
  /\ proc' = IF proc = "up" THEN "gone" ELSE proc
  /\ UNCHANGED <<sup, stopping, backoff, respawn, sinceReady, sinceSpawn>>

Tick ==
  /\ sup = "up"
  /\ respawn' = IF respawn > 0 THEN respawn - 1 ELSE respawn
  /\ kill' = IF kill > 0 THEN kill - 1 ELSE kill
  /\ sinceReady' = IF sinceReady < Stable THEN sinceReady + 1 ELSE sinceReady
  /\ sinceSpawn' = IF sinceSpawn < Stable THEN sinceSpawn + 1 ELSE sinceSpawn
  /\ UNCHANGED <<sup, stopping, proc, backoff>>

=============================================================================
