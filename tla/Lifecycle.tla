----------------------------- MODULE Lifecycle ------------------------------
(***************************************************************************)
(* The supervisor and its worker together: core/bootstrap.js forks         *)
(* core/worker.js, hears its 'ready' and its exit, and sends it 'shutdown'.*)
(***************************************************************************)
EXTENDS Supervisor, Connection

vars == <<supVars, connVars>>

TypeOK == SupTypeOK /\ ConnTypeOK

Init == SupInit /\ ConnInit

-----------------------------------------------------------------------------
(* Steps of both *)

Spawn ==
  /\ SpawnWorker
  /\ IF stopping = "no" THEN Boot ELSE UNCHANGED connVars

OpenAndReport == Opens /\ HearReady

\* An exit timer of the worker fires.
Exit == Leaves /\ WorkerEnds /\ Gone

\* The worker dies of anything else: an error at boot, the memory guard, a signal.
Crash == WorkerEnds /\ Gone

\* SIGTERM or SIGINT: the message reaches a worker that runs.
Terminate ==
  /\ Shutdown
  /\ IF proc = "up" THEN HearShutdown ELSE UNCHANGED connVars

KillWorker ==
  /\ Kill
  /\ IF proc = "up" THEN Gone ELSE UNCHANGED connVars

\* The operator, or the machine's boot, starts EchoFox again.
Relaunch ==
  /\ sup = "exited"
  /\ sup' = "up" /\ stopping' = "no" /\ proc' = "up"
  /\ backoff' = MinBackoff /\ respawn' = Off /\ kill' = Off
  /\ sinceReady' = Stable /\ sinceSpawn' = 0
  /\ Boot

(* Steps of one *)

Supervise == (OnExit \/ Tick) /\ UNCHANGED connVars

Connect == (MakeSocket \/ StartFails \/ Pair \/ Announce \/ Closes) /\ UNCHANGED supVars

HandleClose == (Stop \/ Clear \/ Reconnect \/ Retry) /\ UNCHANGED supVars

Drain == (Logout \/ EndSocket) /\ UNCHANGED supVars

Next ==
  \/ Spawn \/ OpenAndReport \/ Exit \/ Crash \/ Terminate \/ KillWorker \/ Relaunch
  \/ Supervise \/ Connect \/ HandleClose \/ Drain

Spec == Init /\ [][Next]_vars

\* Timers fire, exit events are delivered, and promises that have settled run
\* their continuations.  Nothing says that logout() settles or that the server
\* lets anybody in.
Fairness ==
  /\ WF_vars(OnExit /\ UNCHANGED connVars)
  /\ WF_vars(Tick /\ UNCHANGED connVars)
  /\ WF_vars(Spawn) /\ WF_vars(KillWorker) /\ WF_vars(Exit)
  /\ WF_vars(HandleClose)
  /\ WF_vars(MakeSocket /\ UNCHANGED supVars)

FairSpec == Spec /\ Fairness

-----------------------------------------------------------------------------
(* Properties *)

\* Stored credentials are wiped only after the session they belong to is over
\* (disconnectReasons.js): a lock, a ban, a rejected version or a network
\* fault never costs a session, in whatever order closes, logout, exit timers,
\* restarts and pairings happen.
WipedOnlyWhenOver == creds = "none" => session = "none"

\* A close that calls for a human is final (worker.js, action 'stop'): until
\* the process ends, that account is not connected again, neither by a timer
\* nor by the shutdown handler.
StopIsFinal ==
  [][phase = "stopped" \/ (phase = "closing" /\ verdict = "stop")
       => phase' \in {phase, "stopped", "down"}]_vars

\* connectionState says 'open' exactly while the socket is open, when the store
\* does not let a close overtake the handler that reports the opening.
HealthFollowsSocket == setup = "files" => (health = "open" <=> phase = "open")

\* A supervisor that is told to stop while its worker runs does exit, even if
\* the worker dies by itself in between or its logout never settles.
ShutdownCompletes == (stopping = "yes" /\ proc = "up") ~> sup = "exited"

\* A worker that ends is replaced unless the supervisor is stopping.
WorkerIsReplaced == (proc = "gone" /\ stopping = "no") ~> (proc = "up" \/ stopping = "yes")

\* A transient close leads to a new socket or to the end of the process, when
\* selectAuth does not fail on the way.
TransientIsRetried ==
  (setup = "files" /\ phase = "closing" /\ verdict = "reconnect" /\ draining = "no")
    ~> (phase \in {"connecting", "down"} \/ draining # "no")

\* bootstrap.js: "forwards OS signals (SIGTERM, SIGINT) for graceful shutdown".
\* A supervisor that is stopping has a worker to wait for, or has exited.
StopsFromBackoff == stopping = "yes" /\ sup = "up" => proc # "reaped"

\* bootstrap.js: "If we crashed quickly, increase backoff".
QuickCrashBacksOff ==
  [][proc = "gone" /\ proc' = "reaped" /\ stopping = "no" /\ sinceSpawn < Stable
       => backoff' = Doubled(backoff)]_vars

\* docs/deploy/docker.md: "After pairing once, the bot survives restarts".
SessionSurvivesStop == endedBy # "bot"

=============================================================================
