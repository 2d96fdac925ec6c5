------------------------------ MODULE WorkerPool ------------------------------
(***************************************************************************)
(* lib/workerPool.js: jobs go to the worker thread with the fewest jobs in *)
(* flight, each with a timer.  A job that times out is given up and its    *)
(* worker terminated; until the exit event the slot still takes jobs.  An  *)
(* exit fails what is in flight and starts another worker, unless there    *)
(* were too many within a minute or the pool shuts down.                   *)
(***************************************************************************)
EXTENDS Naturals, FiniteSets

CONSTANTS
  Jobs, PoolSlots,
  MaxRespawns,      \* respawns of a slot within a minute
  MaxPoolTrouble    \* bound on the crashes of threads

ASSUME WorkerPoolAssumption ==
  /\ IsFiniteSet(PoolSlots) /\ MaxRespawns \in Nat /\ MaxPoolTrouble \in Nat

VARIABLES
  thread,      \* slot -> its thread: running, on its way out, or null
  inflight,    \* slot -> the jobs whose promise and timer it holds
  atWorker,    \* slot -> the jobs its thread has
  answers,     \* slot -> results on their way back
  respawns,    \* slot -> respawnHits of this minute
  shutting,
  phase,       \* job -> the promise of its caller
  poolTrouble

wires == <<atWorker, answers>>
poolVars == <<thread, inflight, wires, respawns, shutting, phase, poolTrouble>>

PoolTypeOK ==
  /\ thread \in [PoolSlots -> {"up", "leaving", "null"}]
  /\ inflight \in [PoolSlots -> SUBSET Jobs]
  /\ atWorker \in [PoolSlots -> SUBSET Jobs] /\ answers \in [PoolSlots -> SUBSET Jobs]
  /\ respawns \in [PoolSlots -> 0 .. MaxRespawns]
  /\ shutting \in BOOLEAN
  /\ phase \in [Jobs -> {"new", "waiting", "done", "failed"}]
  /\ poolTrouble \in 0 .. MaxPoolTrouble

PoolInit ==
  /\ thread = [s \in PoolSlots |-> "up"]
  /\ inflight = [s \in PoolSlots |-> {}]
  /\ atWorker = [s \in PoolSlots |-> {}] /\ answers = [s \in PoolSlots |-> {}]
  /\ respawns = [s \in PoolSlots |-> 0]
  /\ shutting = FALSE
  /\ phase = [j \in Jobs |-> "new"]
  /\ poolTrouble = 0

-----------------------------------------------------------------------------
(* run() *)

Alive == {s \in PoolSlots : thread[s] # "null"}
Depth(s) == Cardinality(inflight[s])
LeastBusy == {s \in Alive : \A t \in Alive : Depth(s) <= Depth(t)}

\* ENOWORKERS
NoWorkers(j) ==
  /\ phase[j] = "new" /\ Alive = {}
  /\ phase' = [phase EXCEPT ![j] = "failed"]
  /\ UNCHANGED <<thread, inflight, wires, respawns, shutting, poolTrouble>>

\* send(): what is posted to a thread on its way out is lost.
Run(j, s) ==
  /\ phase[j] = "new" /\ s \in LeastBusy
  /\ phase' = [phase EXCEPT ![j] = "waiting"]
  /\ inflight' = [inflight EXCEPT ![s] = @ \union {j}]
  /\ atWorker' = IF thread[s] = "up" THEN [atWorker EXCEPT ![s] = @ \union {j}] ELSE atWorker
  /\ UNCHANGED <<thread, answers, respawns, shutting, poolTrouble>>

-----------------------------------------------------------------------------
(* The thread and its events *)

\* The thread has a result or an error.
Answer(s, j) ==
  /\ thread[s] = "up" /\ j \in atWorker[s]
  /\ atWorker' = [atWorker EXCEPT ![s] = @ \ {j}]
  /\ answers' = [answers EXCEPT ![s] = @ \union {j}]
  /\ UNCHANGED <<thread, inflight, respawns, shutting, phase, poolTrouble>>

\* Mutant: the entry is not looked up.
MessageUnchecked(s, j) ==
  /\ j \in answers[s]
  /\ answers' = [answers EXCEPT ![s] = @ \ {j}]
  /\ inflight' = [inflight EXCEPT ![s] = @ \ {j}]
  /\ phase' = [phase EXCEPT ![j] = "done"]
  /\ UNCHANGED <<thread, atWorker, respawns, shutting, poolTrouble>>

\* 'message': an answer to a job that is no longer in flight is nobody's.
Message(s, j) ==
  /\ j \in answers[s]
  /\ answers' = [answers EXCEPT ![s] = @ \ {j}]
  /\ inflight' = [inflight EXCEPT ![s] = @ \ {j}]
  /\ phase' = IF j \in inflight[s] THEN [phase EXCEPT ![j] = "done"] ELSE phase
  /\ UNCHANGED <<thread, atWorker, respawns, shutting, poolTrouble>>

Leaves(s) == thread' = [thread EXCEPT ![s] = IF @ = "up" THEN "leaving" ELSE @]

TimesOut(s, j) ==
  /\ j \in inflight[s]
  /\ inflight' = [inflight EXCEPT ![s] = @ \ {j}]
  /\ phase' = [phase EXCEPT ![j] = "failed"]
  /\ Leaves(s)
  /\ UNCHANGED <<wires, respawns, shutting, poolTrouble>>

\* _failAllInflight()
FailsAll(s) ==
  /\ inflight' = [inflight EXCEPT ![s] = {}]
  /\ phase' = [j \in Jobs |-> IF j \in inflight[s] THEN "failed" ELSE phase[j]]

\* The thread dies, with or without an 'error' event before its 'exit'.
Dies(s) ==
  /\ thread[s] = "up"
  /\ poolTrouble < MaxPoolTrouble /\ poolTrouble' = poolTrouble + 1
  /\ Leaves(s)
  /\ FailsAll(s) \/ UNCHANGED <<inflight, phase>>
  /\ UNCHANGED <<wires, respawns, shutting>>

\* Mutant: jobs are failed by the 'error' event only.
ExitQuiet(s) ==
  /\ thread[s] = "leaving"
  /\ atWorker' = [atWorker EXCEPT ![s] = {}] /\ answers' = [answers EXCEPT ![s] = {}]
  /\ IF shutting \/ respawns[s] = MaxRespawns
       THEN /\ thread' = [thread EXCEPT ![s] = "null"]
            /\ inflight' = [inflight EXCEPT ![s] = {}]
            /\ UNCHANGED respawns
       ELSE /\ thread' = [thread EXCEPT ![s] = "up"]
            /\ respawns' = [respawns EXCEPT ![s] = @ + 1]
            /\ UNCHANGED inflight
  /\ UNCHANGED <<shutting, phase, poolTrouble>>

\* 'exit'
Exit(s) ==
  /\ thread[s] = "leaving"
  /\ FailsAll(s)
  /\ atWorker' = [atWorker EXCEPT ![s] = {}] /\ answers' = [answers EXCEPT ![s] = {}]
  /\ IF shutting \/ respawns[s] = MaxRespawns
       THEN thread' = [thread EXCEPT ![s] = "null"] /\ UNCHANGED respawns
       ELSE thread' = [thread EXCEPT ![s] = "up"] /\ respawns' = [respawns EXCEPT ![s] = @ + 1]
  /\ UNCHANGED <<shutting, poolTrouble>>

MinuteOver ==
  /\ respawns' = [s \in PoolSlots |-> 0]
  /\ UNCHANGED <<thread, inflight, wires, shutting, phase, poolTrouble>>

\* shutdown(): every thread is terminated, whatever it is doing.
Shutdown ==
  /\ ~shutting /\ shutting' = TRUE
  /\ thread' = [s \in PoolSlots |-> IF thread[s] = "up" THEN "leaving" ELSE thread[s]]
  /\ UNCHANGED <<inflight, wires, respawns, phase, poolTrouble>>

PoolNext ==
  \/ MinuteOver \/ Shutdown
  \/ \E s \in PoolSlots : Dies(s) \/ Exit(s)
  \/ \E j \in Jobs :
       \/ NoWorkers(j)
       \/ \E s \in PoolSlots : Run(j, s) \/ Answer(s, j) \/ Message(s, j) \/ TimesOut(s, j)

\* A timer fires, and a thread that was terminated exits.
PoolFair ==
  /\ \A s \in PoolSlots : WF_poolVars(Exit(s))
  /\ \A j \in Jobs : WF_poolVars(\E s \in PoolSlots : TimesOut(s, j))

PoolSpec == PoolInit /\ [][PoolNext]_poolVars /\ PoolFair

-----------------------------------------------------------------------------
(* Properties *)

\* A job whose caller waits is held by one slot, and by one that is alive: there is
\* a timer, or an exit to come, that ends it.
WaitingIsHeld ==
  \A j \in Jobs : LET holders == {s \in PoolSlots : j \in inflight[s]} IN
    /\ Cardinality(holders) = IF phase[j] = "waiting" THEN 1 ELSE 0
    /\ \A s \in holders : thread[s] # "null"

PoolInv == PoolTypeOK /\ WaitingIsHeld

\* Every job is settled, once: with late answers, threads that die with jobs in
\* flight, jobs sent to a thread on its way out, and a shutdown at any time.
Service == INSTANCE JobService
EveryJobSettled == Service!ServiceSpec

\* workerPool.js, "graceful drain + terminate": a shutdown waits for the jobs in
\* flight.
ShutdownDrains ==
  [][\A s \in PoolSlots : shutting /\ inflight[s] # {} => thread'[s] # "null"]_poolVars

=============================================================================
