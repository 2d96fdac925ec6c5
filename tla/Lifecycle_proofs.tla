-------------------------- MODULE Lifecycle_proofs --------------------------
(***************************************************************************)
(* Proofs about Lifecycle, for all delays, status codes and deployments,   *)
(* and about what watches over the bot while it is connected: SignalHealth *)
(* mends its sessions, Alerts tells of the commands that fail.             *)
(***************************************************************************)
EXTENDS Lifecycle, SignalHealth, Alerts, FiniteSetTheorems, FunctionTheorems, WellFoundedInduction, TLAPS

-----------------------------------------------------------------------------
(* The steps of the worker *)

\* What the worker's variables can do in a step, whoever takes it: the process
\* starts, ends or is told to stop, or one of its own handlers runs.
WorkerStep ==
  \/ Boot \/ Gone \/ HearShutdown \/ MakeSocket \/ StartFails \/ Pair \/ Opens \/ Announce
  \/ Closes \/ Stop \/ Clear \/ Reconnect \/ Retry \/ Logout \/ EndSocket
  \/ UNCHANGED connVars

LEMMA WorkerSteps == ASSUME [Next]_vars PROVE WorkerStep
<1>1. CASE UNCHANGED vars BY <1>1 DEF vars, WorkerStep
<1>2. CASE Spawn BY <1>2 DEF Spawn, WorkerStep
<1>3. CASE OpenAndReport BY <1>3 DEF OpenAndReport, WorkerStep
<1>4. CASE Exit \/ Crash BY <1>4 DEF Exit, Crash, WorkerStep
<1>5. CASE Terminate BY <1>5 DEF Terminate, WorkerStep
<1>6. CASE KillWorker BY <1>6 DEF KillWorker, WorkerStep
<1>7. CASE Relaunch BY <1>7 DEF Relaunch, WorkerStep
<1>8. CASE Supervise BY <1>8 DEF Supervise, WorkerStep
<1>9. CASE Connect \/ HandleClose \/ Drain BY <1>9 DEF Connect, HandleClose, Drain, WorkerStep
<1> QED BY <1>1, <1>2, <1>3, <1>4, <1>5, <1>6, <1>7, <1>8, <1>9 DEF Next

-----------------------------------------------------------------------------
(* Credentials are wiped only when their session is over *)

\* A close that leads to clear() carried a code with which the session is over.
WipeInv ==
  /\ WipedOnlyWhenOver
  /\ phase = "closing" /\ verdict = "re-pair" => session = "none"

LEMMA RePairMeansOver ==
  ASSUME NEW code, Classify(code) = "re-pair" PROVE code \in SessionOver
  BY DEF Classify, SessionOver

\* Only a closing socket clears, and only pairing, which needs a socket that is
\* not closing, links a session.
LEMMA WipeInvStep == ASSUME WipeInv, WorkerStep PROVE WipeInv'
<1> USE DEF WipeInv, WipedOnlyWhenOver
<1>1. CASE Boot BY <1>1 DEF Boot
<1>2. CASE Gone BY <1>2 DEF Gone
<1>3. CASE HearShutdown BY <1>3 DEF HearShutdown, ClosedWith
<1>4. CASE MakeSocket BY <1>4 DEF MakeSocket
<1>5. CASE StartFails BY <1>5 DEF StartFails
<1>6. CASE Pair BY <1>6 DEF Pair
<1>7. CASE Opens BY <1>7 DEF Opens
<1>8. CASE Announce BY <1>8 DEF Announce
<1>9. CASE Closes
  <2>1. PICK code \in Codes :
          /\ ClosedWith(code)
          /\ session' = IF code \in SessionOver THEN "none" ELSE session
    BY <1>9 DEF Closes
  <2>2. verdict' = "re-pair" => code \in SessionOver
    BY <2>1, RePairMeansOver DEF ClosedWith
  <2> QED BY <1>9, <2>1, <2>2 DEF Closes
<1>10. CASE Stop BY <1>10 DEF Stop
<1>11. CASE Clear BY <1>11 DEF Clear
<1>12. CASE Reconnect BY <1>12 DEF Reconnect
<1>13. CASE Retry BY <1>13 DEF Retry
<1>14. CASE Logout BY <1>14 DEF Logout, Unlinked, ClosedWith
<1>15. CASE EndSocket BY <1>15 DEF EndSocket, ClosedWith, Classify
<1>16. CASE UNCHANGED connVars BY <1>16 DEF connVars
<1> QED BY <1>1, <1>2, <1>3, <1>4, <1>5, <1>6, <1>7, <1>8, <1>9, <1>10, <1>11, <1>12,
           <1>13, <1>14, <1>15, <1>16 DEF WorkerStep

\* For every set of status codes and every delay, credentials are gone only if
\* the session they belong to is (connection.update, classifyDisconnect).
THEOREM WipesAreSafe == Spec => []WipedOnlyWhenOver
<1>1. Init => WipeInv
  BY DEF Init, ConnInit, WipeInv, WipedOnlyWhenOver
<1>2. WipeInv /\ [Next]_vars => WipeInv'
  BY WorkerSteps, WipeInvStep
<1>3. WipeInv => WipedOnlyWhenOver
  BY DEF WipeInv
<1> QED BY <1>1, <1>2, <1>3, PTL DEF Spec

-----------------------------------------------------------------------------
(* A close that calls for a human is final *)

Halted == phase = "stopped" \/ (phase = "closing" /\ verdict = "stop")

\* No handler moves a halted connection but the end of its process.
LEMMA HaltedStep ==
  ASSUME WorkerStep, Halted, ~Boot
  PROVE phase' \in {phase, "stopped", "down"}
<1> USE DEF Halted
<1>1. CASE Gone BY <1>1 DEF Gone
<1>2. CASE HearShutdown BY <1>2 DEF HearShutdown
<1>3. CASE MakeSocket \/ StartFails \/ Pair \/ Opens \/ Closes
  BY <1>3 DEF MakeSocket, StartFails, Pair, Opens, Closes
<1>4. CASE Announce BY <1>4 DEF Announce
<1>5. CASE Stop BY <1>5 DEF Stop
<1>6. CASE Clear \/ Reconnect \/ Retry BY <1>6 DEF Clear, Reconnect, Retry
<1>7. CASE Logout BY <1>7 DEF Logout
<1>8. CASE EndSocket BY <1>8 DEF EndSocket
<1>9. CASE UNCHANGED connVars BY <1>9 DEF connVars
<1> QED BY <1>1, <1>2, <1>3, <1>4, <1>5, <1>6, <1>7, <1>8, <1>9 DEF WorkerStep


\* The supervisor forks a worker only when none runs.
ChildInv ==
  /\ proc # "up" => phase = "down"
  /\ respawn # Off => proc = "reaped"
  /\ sup = "exited" => proc = "reaped"

\* A worker that is down stays down until it is started.
LEMMA DownStays ==
  ASSUME WorkerStep, phase = "down", ~Boot PROVE phase' = "down"
<1>1. CASE Gone BY <1>1 DEF Gone
<1>2. CASE HearShutdown \/ Announce BY <1>2 DEF HearShutdown, Announce
<1>3. CASE MakeSocket \/ StartFails \/ Pair \/ Opens \/ Closes
  BY <1>3 DEF MakeSocket, StartFails, Pair, Opens, Closes
<1>4. CASE Stop \/ Clear \/ Reconnect \/ Retry BY <1>4 DEF Stop, Clear, Reconnect, Retry
<1>5. CASE Logout \/ EndSocket BY <1>5 DEF Logout, EndSocket
<1>6. CASE UNCHANGED connVars BY <1>6 DEF connVars
<1> QED BY <1>1, <1>2, <1>3, <1>4, <1>5, <1>6 DEF WorkerStep

\* What a step of the supervisor does to its child.
LEMMA ChildInvStep == ASSUME ChildInv, [Next]_vars PROVE ChildInv'
<1> USE DEF ChildInv
<1>1. CASE Spawn
  <2>1. CASE stopping = "no"
    BY <1>1, <2>1 DEF Spawn, SpawnWorker, Boot, Off
  <2>2. CASE stopping # "no"
    BY <1>1, <2>2 DEF Spawn, SpawnWorker, connVars, Off
  <2> QED BY <2>1, <2>2
<1>2. CASE OpenAndReport
  <2>1. proc = "up" BY <1>2 DEF OpenAndReport, Opens
  <2> QED BY <1>2, <2>1 DEF OpenAndReport, HearReady
<1>3. CASE Exit \/ Crash
  BY <1>3 DEF Exit, Crash, WorkerEnds, Gone
<1>4. CASE Terminate
  BY <1>4 DEF Terminate, Shutdown, HearShutdown, connVars
<1>5. CASE KillWorker
  BY <1>5 DEF KillWorker, Kill, Gone, connVars
<1>6. CASE Relaunch
  BY <1>6 DEF Relaunch, Boot
<1>7. CASE Supervise
  BY <1>7 DEF Supervise, OnExit, Tick, connVars, Off
<1>8. CASE Connect \/ HandleClose \/ Drain
  <2>1. WorkerStep BY WorkerSteps
  <2>2. ~Boot \/ phase # "down"
    BY <1>8 DEF Connect, HandleClose, Drain, Boot, MakeSocket, StartFails, Pair, Announce, Closes,
               Stop, Clear, Reconnect, Retry, Logout, EndSocket
  <2>3. UNCHANGED supVars BY <1>8 DEF Connect, HandleClose, Drain
  <2> QED BY <2>1, <2>2, <2>3, DownStays DEF supVars
<1>9. CASE UNCHANGED vars
  BY <1>9 DEF vars, supVars, connVars
<1> QED BY <1>1, <1>2, <1>3, <1>4, <1>5, <1>6, <1>7, <1>8, <1>9 DEF Next

\* A worker is started only where none runs, so not over a halted one.
LEMMA HaltedNext ==
  ASSUME ChildInv, [Next]_vars, Halted
  PROVE phase' \in {phase, "stopped", "down"}
<1> USE DEF Halted
<1>1. CASE Spawn
  BY <1>1 DEF Spawn, SpawnWorker, ChildInv, connVars, Off
<1>2. CASE Relaunch
  BY <1>2 DEF Relaunch, ChildInv
<1>3. CASE ~Spawn /\ ~Relaunch
  <2>1. WorkerStep BY WorkerSteps
  <2>2. ~Boot
    BY <1>3 DEF Next, vars, connVars, Boot, OpenAndReport, Opens, Exit, Crash, Gone, Terminate,
       HearShutdown, KillWorker, Supervise, Connect, HandleClose, Drain, MakeSocket, StartFails,
       Pair, Announce, Closes, ClosedWith, Stop, Clear, Reconnect, Retry, Logout, EndSocket
  <2> QED BY <2>1, <2>2, HaltedStep
<1> QED BY <1>1, <1>2, <1>3

\* An account that is locked, banned or replaced is not connected again before
\* its process ends (connection.update, action 'stop').
THEOREM StopsAreFinal == Spec => StopIsFinal
<1>1. Init => ChildInv
  BY DEF Init, SupInit, ChildInv
<1>2. ChildInv /\ [Next]_vars => ChildInv'
  BY ChildInvStep
<1>3. ChildInv /\ [Next]_vars
        => [phase = "stopped" \/ (phase = "closing" /\ verdict = "stop")
              => phase' \in {phase, "stopped", "down"}]_vars
  BY HaltedNext DEF Halted
<1> QED BY <1>1, <1>2, <1>3, PTL DEF Spec, StopIsFinal


-----------------------------------------------------------------------------
(* The reported health *)

\* With a store that answers in place, no open handler is ever overtaken.
HealthInv == HealthFollowsSocket /\ (setup = "files" => announcing = "no")

LEMMA HealthInvStep == ASSUME HealthInv, WorkerStep PROVE HealthInv'
<1> USE DEF HealthInv, HealthFollowsSocket
<1>1. CASE Boot \/ Gone BY <1>1 DEF Boot, Gone
<1>2. CASE HearShutdown BY <1>2 DEF HearShutdown, ClosedWith
<1>3. CASE MakeSocket \/ StartFails \/ Pair BY <1>3 DEF MakeSocket, StartFails, Pair
<1>4. CASE Opens BY <1>4 DEF Opens
<1>5. CASE Announce BY <1>5 DEF Announce
<1>6. CASE Closes
  <2>1. phase' = "closing" /\ health' = "close" /\ UNCHANGED <<setup, announcing>>
    BY <1>6 DEF Closes, ClosedWith
  <2> QED BY <2>1
<1>7. CASE Stop \/ Clear BY <1>7 DEF Stop, Clear
<1>8. CASE Reconnect \/ Retry BY <1>8 DEF Reconnect, Retry
<1>9. CASE Logout BY <1>9 DEF Logout, ClosedWith
<1>10. CASE EndSocket BY <1>10 DEF EndSocket, ClosedWith
<1>11. CASE UNCHANGED connVars BY <1>11 DEF connVars
<1> QED BY <1>1, <1>2, <1>3, <1>4, <1>5, <1>6, <1>7, <1>8, <1>9, <1>10, <1>11 DEF WorkerStep

\* With credentials and data in files, /api/health says 'open' exactly while
\* the socket is open (connectionState.set in connection.update).
THEOREM HealthIsTrue == Spec => []HealthFollowsSocket
<1>1. Init => HealthInv
  BY DEF Init, ConnInit, HealthInv, HealthFollowsSocket
<1>2. HealthInv /\ [Next]_vars => HealthInv'
  BY WorkerSteps, HealthInvStep
<1>3. HealthInv => HealthFollowsSocket
  BY DEF HealthInv
<1> QED BY <1>1, <1>2, <1>3, PTL DEF Spec

-----------------------------------------------------------------------------
(* The recovery of Signal sessions *)

HealthTypes ==
  /\ tick \in Ticks
  /\ seen \in [Senders -> [Ticks -> Nat]]
  /\ failures \in [Senders -> [count : Nat, first : Nat, last : Nat]]
  /\ recoveries \in [Senders -> {Never} \union Ticks]
  /\ resetAt \in [Senders -> {Never} \union Ticks]

\* More failures were seen from an earlier tick on, and none that is yet to come.
SeenInOrder == \A j \in Senders : \A t, u \in Ticks : t <= u => seen[j][u] <= seen[j][t]

\* What an entry counts was seen since its first failure.
CountsAreSeen ==
  \A j \in Senders : failures[j] # None => failures[j].first <= tick /\ failures[j].count <= seen[j][failures[j].first]

\* The map remembers the last reset as long as it forbids the next one.
ResetsRemembered ==
  \A j \in Senders : \/ recoveries[j] = resetAt[j]
                     \/ recoveries[j] = Never /\ resetAt[j] # Never /\ tick - resetAt[j] > RecoveryCooldown

HealthIInv == HealthTypes /\ SeenInOrder /\ CountsAreSeen /\ ResetsRemembered

LEMMA HealthNumbers ==
  MaxTick \in Nat /\ FailureWindow \in Nat /\ RecoveryCooldown \in Nat \ {0} /\ Threshold \in Nat \ {0}
  /\ Never = -1 /\ Ticks = 0 .. MaxTick /\ 0 \in Ticks
BY SignalHealthAssumption DEF Never, Ticks

LEMMA HealthStarts == ASSUME HealthInit PROVE HealthIInv
<1>1. HealthTypes
  BY HealthNumbers DEF HealthInit, HealthTypes, None
<1> QED
  BY <1>1, HealthNumbers DEF HealthInit, HealthIInv, SeenInOrder, CountsAreSeen, ResetsRemembered

\* An entry that counts another failure is of the window.
LEMMA CountedIsSeen ==
  ASSUME HealthIInv, NEW j \in Senders
  PROVE  LET f == FailureCounted(failures[j]) IN
         /\ f \in [count : Nat, first : Ticks, last : Nat] /\ f.first <= tick
         /\ f.count <= seen[j][f.first] + 1
         /\ f.count > 1 => tick - f.first <= FailureWindow
<1>1. /\ tick \in Ticks /\ tick \in Nat /\ failures[j] \in [count : Nat, first : Nat, last : Nat]
      /\ seen[j] \in [Ticks -> Nat] /\ seen[j][tick] \in Nat
  BY HealthNumbers DEF HealthIInv, HealthTypes
<1>2. CASE failures[j] = None \/ tick - failures[j].first > FailureWindow
  <2>1. FailureCounted(failures[j]) = [count |-> 1, first |-> tick, last |-> tick]
    BY <1>2 DEF FailureCounted
  <2> QED
    BY <1>1, <2>1
<1>3. CASE ~(failures[j] = None \/ tick - failures[j].first > FailureWindow)
  <2>1. FailureCounted(failures[j]) = [failures[j] EXCEPT !.count = failures[j].count + 1, !.last = tick]
    BY <1>3 DEF FailureCounted
  <2>2. failures[j].first <= tick /\ failures[j].count <= seen[j][failures[j].first]
    BY <1>3 DEF HealthIInv, CountsAreSeen
  <2>3. failures[j].first \in Ticks /\ tick - failures[j].first <= FailureWindow
    BY <1>1, <1>3, <2>2, HealthNumbers
  <2>4. seen[j][failures[j].first] \in Nat
    BY <1>1, <2>3
  <2>5. /\ FailureCounted(failures[j]) \in [count : Nat, first : Ticks, last : Nat]
        /\ FailureCounted(failures[j]).first = failures[j].first
        /\ FailureCounted(failures[j]).count = failures[j].count + 1
    <3> DEFINE e == failures[j]
    <3>1. e \in [count : Nat, first : Nat, last : Nat] /\ e.first \in Ticks
      BY <1>1, <2>3
    <3>2. FailureCounted(e) = [e EXCEPT !.count = e.count + 1, !.last = tick]
      BY <2>1
    <3> HIDE DEF e
    <3>3. ASSUME NEW k \in Nat, NEW l \in Nat, NEW r \in [count : Nat, first : Nat, last : Nat]
          PROVE  /\ [r EXCEPT !.count = k, !.last = l] \in [count : Nat, first : Nat, last : Nat]
                 /\ [r EXCEPT !.count = k, !.last = l].first = r.first
                 /\ [r EXCEPT !.count = k, !.last = l].count = k
      OBVIOUS
    <3>4. ASSUME NEW g \in [count : Nat, first : Nat, last : Nat], g.first \in Ticks
          PROVE  g \in [count : Nat, first : Ticks, last : Nat]
      BY <3>4
    <3>5. FailureCounted(e).first \in Ticks
      BY <1>1, <3>1, <3>2, <3>3
    <3>6. e.count + 1 \in Nat
      BY <3>1
    <3> QED
      BY <1>1, <3>1, <3>2, <3>3, <3>4, <3>5, <3>6 DEF e
  <2> QED
    BY <1>1, <2>2, <2>3, <2>4, <2>5
<1> QED
  BY <1>2, <1>3

LEMMA FailsKeeps == ASSUME HealthIInv, NEW j \in Senders, Fails(j) PROVE HealthIInv'
<1> DEFINE f == FailureCounted(failures[j])
<1>1. /\ failures' = [failures EXCEPT ![j] = f]
      /\ seen' = [seen EXCEPT ![j] = [t \in Ticks |-> IF t <= tick THEN seen[j][t] + 1 ELSE seen[j][t]]]
      /\ UNCHANGED <<tick, recoveries, resetAt>>
  BY DEF Fails
<1>2. f \in [count : Nat, first : Ticks, last : Nat] /\ f.first <= tick /\ f.count <= seen[j][f.first] + 1
  BY CountedIsSeen
<1> HIDE DEF f
<1>3. /\ HealthTypes /\ Ticks \subseteq Nat /\ tick \in Ticks
      /\ seen \in [Senders -> [Ticks -> Nat]]
      /\ failures \in [Senders -> [count : Nat, first : Nat, last : Nat]]
  <2>1. Ticks \subseteq Nat
    BY HealthNumbers
  <2> QED
    BY <2>1 DEF HealthIInv, HealthTypes
<1>4. /\ seen' \in [Senders -> [Ticks -> Nat]]
      /\ \A t \in Ticks : seen'[j][t] = IF t <= tick THEN seen[j][t] + 1 ELSE seen[j][t]
      /\ \A i \in Senders : i # j => seen'[i] = seen[i]
  BY <1>1, <1>3
<1>5. /\ failures' \in [Senders -> [count : Nat, first : Nat, last : Nat]] /\ failures'[j] = f
      /\ \A i \in Senders : i # j => failures'[i] = failures[i]
  BY <1>1, <1>2, <1>3
<1>6. HealthTypes'
  BY <1>1, <1>3, <1>4, <1>5 DEF HealthTypes
<1>7. SeenInOrder'
  <2>1. ASSUME NEW t \in Ticks, NEW u \in Ticks, t <= u PROVE seen'[j][u] <= seen'[j][t]
    <3>1. seen[j][u] <= seen[j][t] /\ seen[j][u] \in Nat /\ seen[j][t] \in Nat
      BY <1>3, <2>1 DEF HealthIInv, SeenInOrder
    <3>2. t \in Nat /\ u \in Nat
      BY <1>3
    <3> QED
      BY <1>3, <1>4, <2>1, <3>1, <3>2
  <2> QED
    BY <1>4, <2>1 DEF HealthIInv, SeenInOrder
<1>8. CountsAreSeen'
  <2>1. f.first <= tick' /\ f.count <= seen'[j][f.first]
    BY <1>1, <1>2, <1>4
  <2> QED
    BY <1>1, <1>4, <1>5, <2>1 DEF HealthIInv, CountsAreSeen
<1>9. ResetsRemembered'
  BY <1>1 DEF HealthIInv, ResetsRemembered
<1> QED
  BY <1>6, <1>7, <1>8, <1>9 DEF HealthIInv

LEMMA RecoversKeeps == ASSUME HealthIInv, NEW j \in Senders, Recovers(j) PROVE HealthIInv'
<1>1. /\ recoveries' = [recoveries EXCEPT ![j] = tick]
      /\ failures' = [failures EXCEPT ![j] = None]
      /\ seen' = [seen EXCEPT ![j] = [t \in Ticks |-> 0]]
      /\ resetAt' = [resetAt EXCEPT ![j] = tick]
      /\ tick' = tick
  BY DEF Recovers
<1>2. HealthTypes /\ None \in [count : Nat, first : Nat, last : Nat]
  BY DEF HealthIInv, None
<1>3. /\ seen'[j] = [t \in Ticks |-> 0] /\ failures'[j] = None /\ recoveries'[j] = tick /\ resetAt'[j] = tick
      /\ \A i \in Senders : i # j => /\ seen'[i] = seen[i] /\ failures'[i] = failures[i]
                                     /\ recoveries'[i] = recoveries[i] /\ resetAt'[i] = resetAt[i]
  BY <1>1, <1>2 DEF HealthTypes
<1>4. HealthTypes'
  BY <1>1, <1>2 DEF HealthTypes
<1>5. SeenInOrder'
  BY <1>3 DEF HealthIInv, SeenInOrder
<1>6. CountsAreSeen' /\ ResetsRemembered'
  BY <1>1, <1>3 DEF HealthIInv, CountsAreSeen, ResetsRemembered
<1> QED
  BY <1>4, <1>5, <1>6 DEF HealthIInv

LEMMA PruneKeeps == ASSUME HealthIInv, Prune PROVE HealthIInv'
<1>1. /\ failures' = [j \in Senders |-> IF tick - failures[j].last > FailureWindow THEN None ELSE failures[j]]
      /\ recoveries' = [j \in Senders |-> IF recoveries[j] # Never /\ tick - recoveries[j] > RecoveryCooldown
                                            THEN Never ELSE recoveries[j]]
      /\ UNCHANGED <<tick, seen, resetAt>>
  BY DEF Prune
<1>2. HealthTypes /\ None \in [count : Nat, first : Nat, last : Nat]
  BY DEF HealthIInv, None
<1>3. HealthTypes'
  BY <1>1, <1>2 DEF HealthTypes
<1>4. SeenInOrder' /\ CountsAreSeen'
  BY <1>1 DEF HealthIInv, SeenInOrder, CountsAreSeen
<1>5. ResetsRemembered'
  BY <1>1 DEF HealthIInv, ResetsRemembered
<1> QED
  BY <1>3, <1>4, <1>5 DEF HealthIInv

LEMMA TickKeeps == ASSUME HealthIInv, TickPasses PROVE HealthIInv'
<1>1. tick < MaxTick /\ tick' = tick + 1 /\ UNCHANGED <<failures, recoveries, seen, resetAt>>
  BY DEF TickPasses
<1>2. HealthTypes /\ tick \in Nat /\ tick' \in Ticks /\ tick' \in Nat
  BY <1>1, HealthNumbers DEF HealthIInv, HealthTypes
<1>3. HealthTypes'
  BY <1>1, <1>2 DEF HealthTypes
<1>4. CountsAreSeen'
  <2>1. ASSUME NEW j \in Senders, failures[j] # None PROVE failures[j].first <= tick'
    <3>1. failures[j].first <= tick /\ failures[j].first \in Nat
      BY <1>2, <2>1 DEF HealthIInv, HealthTypes, CountsAreSeen
    <3> QED
      BY <1>1, <1>2, <3>1
  <2> QED
    BY <1>1, <2>1 DEF HealthIInv, CountsAreSeen
<1>5. ResetsRemembered'
  <2>1. ASSUME NEW j \in Senders, resetAt[j] # Never, tick - resetAt[j] > RecoveryCooldown
        PROVE  tick' - resetAt[j] > RecoveryCooldown
    <3>1. resetAt[j] \in Nat
      BY <1>2, <2>1, HealthNumbers DEF HealthTypes
    <3> QED
      BY <1>1, <1>2, <2>1, <3>1, HealthNumbers
  <2> QED
    BY <1>1, <2>1 DEF HealthIInv, ResetsRemembered
<1> QED
  BY <1>1, <1>3, <1>4, <1>5 DEF HealthIInv, SeenInOrder

\* Who recovers had failures enough within the window, and no reset within the cooldown.
LEMMA DueIsDue ==
  ASSUME HealthIInv, NEW j \in Senders, Due(j)
  PROVE  InWindow(j) + 1 >= Threshold /\ (resetAt[j] = Never \/ tick - resetAt[j] >= RecoveryCooldown)
<1> DEFINE f == FailureCounted(failures[j])
           from == IF tick > FailureWindow THEN tick - FailureWindow ELSE 0
<1>1. f.count > 1 /\ f.count >= Threshold /\ (recoveries[j] = Never \/ tick - recoveries[j] >= RecoveryCooldown)
  BY DEF Due
<1>2. /\ f \in [count : Nat, first : Ticks, last : Nat] /\ f.first <= tick
      /\ f.count <= seen[j][f.first] + 1 /\ tick - f.first <= FailureWindow
  BY <1>1, CountedIsSeen
<1> HIDE DEF f
<1>3. tick \in Ticks /\ tick \in Nat /\ seen[j] \in [Ticks -> Nat] /\ f.first \in Nat
  BY <1>2, HealthNumbers DEF HealthIInv, HealthTypes
<1>4. from \in Ticks /\ from <= f.first
  BY <1>2, <1>3, HealthNumbers
<1>5. InWindow(j) = seen[j][from]
  BY DEF InWindow
<1> HIDE DEF from
<1>6. seen[j][f.first] <= seen[j][from] /\ seen[j][f.first] \in Nat /\ seen[j][from] \in Nat
  BY <1>2, <1>3, <1>4 DEF HealthIInv, SeenInOrder
<1>7. InWindow(j) + 1 >= Threshold
  BY <1>1, <1>2, <1>5, <1>6, HealthNumbers
<1>8. resetAt[j] = Never \/ tick - resetAt[j] >= RecoveryCooldown
  <2>1. resetAt[j] = Never \/ resetAt[j] \in Nat
    BY HealthNumbers DEF HealthIInv, HealthTypes
  <2> QED
    BY <1>1, <1>3, <2>1, HealthNumbers DEF HealthIInv, ResetsRemembered
<1> QED
  BY <1>7, <1>8

LEMMA HealthStep == ASSUME HealthIInv, [HealthNext]_healthVars PROVE HealthIInv'
<1>1. CASE UNCHANGED healthVars
  BY <1>1 DEF healthVars, HealthIInv, HealthTypes, SeenInOrder, CountsAreSeen, ResetsRemembered
<1> QED
  BY <1>1, FailsKeeps, RecoversKeeps, PruneKeeps, TickKeeps DEF HealthNext

\* A session is reset only when there were failures enough of the sender within a
\* window, all of them since its last reset, which is a cooldown ago, however the maps
\* were pruned meanwhile (signalHealth.js, record and _triggerRecovery).
THEOREM SessionsAreSpared == HealthSpec => ResetsAreDue
<1>1. HealthInit => HealthIInv
  BY HealthStarts
<1>2. HealthIInv /\ [HealthNext]_healthVars => HealthIInv'
  BY HealthStep
<1>3. HealthIInv /\ [HealthNext]_healthVars =>
        [\A j \in Senders : resetAt'[j] # resetAt[j] =>
           /\ InWindow(j) + 1 >= Threshold
           /\ resetAt[j] = Never \/ tick - resetAt[j] >= RecoveryCooldown]_healthVars
  <2> SUFFICES ASSUME HealthIInv, HealthNext, NEW j \in Senders, resetAt'[j] # resetAt[j]
               PROVE  InWindow(j) + 1 >= Threshold /\ (resetAt[j] = Never \/ tick - resetAt[j] >= RecoveryCooldown)
    OBVIOUS
  <2>1. PICK i \in Senders : Recovers(i)
    BY DEF HealthNext, Prune, TickPasses, Fails
  <2>2. Due(i) /\ resetAt' = [resetAt EXCEPT ![i] = tick]
    BY <2>1 DEF Recovers
  <2>3. i = j
    BY <2>2 DEF HealthIInv, HealthTypes
  <2> QED
    BY <2>2, <2>3, DueIsDue
<1> QED
  BY <1>1, <1>2, <1>3, PTL DEF HealthSpec, ResetsAreDue

-----------------------------------------------------------------------------
(* The alerts of commands *)

\* The outcomes of a command of one minute and one kind.
OutcomesOf(c, m, bad) == {k \in 1 .. Len(outcomes[c]) : outcomes[c][k].minute = m /\ outcomes[c][k].bad = bad}

AlertTypes ==
  /\ minute \in Nat
  /\ buckets \in [Cmds -> Seq(Bucket)]
  /\ outcomes \in [Cmds -> Seq([minute : Nat, bad : BOOLEAN])]

\* Minutes come once each and in order, the last not after now.
InOrder(list) ==
  /\ \A i, j \in 1 .. Len(list) : i < j => list[i].minute < list[j].minute
  /\ \A i \in 1 .. Len(list) : list[i].minute <= minute

\* A bucket counts the outcomes of its minute, also when the window has left it behind.
BucketsTell ==
  \A c \in Cmds : \A i \in 1 .. Len(buckets[c]) :
    /\ buckets[c][i].ok = Cardinality(OutcomesOf(c, buckets[c][i].minute, FALSE))
    /\ buckets[c][i].bad = Cardinality(OutcomesOf(c, buckets[c][i].minute, TRUE))

\* No outcome in the window is without a bucket.
BucketsCover ==
  \A c \in Cmds : \A k \in 1 .. Len(outcomes[c]) :
    Fresh(outcomes[c][k].minute) => \E i \in 1 .. Len(buckets[c]) : buckets[c][i].minute = outcomes[c][k].minute

AlertsIInv == AlertTypes /\ (\A c \in Cmds : InOrder(buckets[c])) /\ BucketsTell /\ BucketsCover

Joined(I, G) == UNION {G[i] : i \in I}

\* Sets that are told apart, and as large as f says each, are together as large as
\* the sum of f.
LEMMA SumOfSizes ==
  ASSUME NEW I, NEW U, IsFiniteSet(U), NEW f \in [I -> Nat], NEW G \in [I -> SUBSET U],
         \A i \in I : Cardinality(G[i]) = f[i],
         \A i, j \in I : i # j => G[i] \cap G[j] = {}
  PROVE  Total(f) = Cardinality(Joined(I, G))
<1> DEFINE All == UNION {G[i] : i \in I}
           Into == [i \in I |-> CHOOSE b : b \in Bijection(1 .. f[i], G[i])]
           Part == [u \in Units(f) |-> Into[u[1]][u[2]]]
<1>1. Units(f) = UNION {{i} \X (1 .. f[i]) : i \in I}
  BY DEF Units, UnitsOf
<1>2. IsFiniteSet(All)
  <2>1. All \subseteq U
    OBVIOUS
  <2> QED
    BY <2>1, FS_Subset
<1>3. ASSUME NEW i \in I PROVE Into[i] \in Bijection(1 .. f[i], G[i])
  <2>1. IsFiniteSet(G[i]) /\ f[i] \in Nat
    BY FS_Subset
  <2>2. ExistsBijection(1 .. Cardinality(G[i]), G[i])
    BY <2>1, FS_CardinalityType
  <2>3. ExistsBijection(1 .. f[i], G[i])
    BY <2>2
  <2> QED
    BY <2>3 DEF ExistsBijection
<1> HIDE DEF Into
<1>4. ASSUME NEW i \in I
      PROVE  /\ Into[i] \in [1 .. f[i] -> G[i]]
             /\ \A a, b \in 1 .. f[i] : Into[i][a] = Into[i][b] => a = b
             /\ \A t \in G[i] : \E s \in 1 .. f[i] : Into[i][s] = t
  BY <1>3, Fun_BijectionProperties
<1>5. \A u \in Units(f) : u[1] \in I /\ u[2] \in 1 .. f[u[1]] /\ u = <<u[1], u[2]>>
  BY <1>1
<1>6. \A i \in I : \A k \in 1 .. f[i] : <<i, k>> \in Units(f)
  BY <1>1
<1>7. Part \in [Units(f) -> All]
  BY <1>4, <1>5
<1>8. ASSUME NEW u \in Units(f), NEW v \in Units(f), Part[u] = Part[v] PROVE u = v
  <2>1. Into[u[1]][u[2]] = Into[v[1]][v[2]] /\ Into[u[1]][u[2]] \in G[u[1]] /\ Into[v[1]][v[2]] \in G[v[1]]
    BY <1>4, <1>5, <1>8
  <2>2. u[1] = v[1]
    BY <1>5, <2>1
  <2>3. u[2] = v[2]
    BY <1>4, <1>5, <2>1, <2>2
  <2> QED
    BY <1>5, <2>2, <2>3
<1>9. ASSUME NEW t \in All PROVE \E u \in Units(f) : Part[u] = t
  <2>1. PICK i \in I : t \in G[i]
    OBVIOUS
  <2>2. PICK k \in 1 .. f[i] : Into[i][k] = t
    BY <1>4, <2>1
  <2>3. <<i, k>> \in Units(f) /\ Part[<<i, k>>] = t
    BY <1>6, <2>2
  <2> QED
    BY <2>3
<1> HIDE DEF Part, All
<1>10. Part \in Bijection(Units(f), All)
  BY <1>7, <1>8, <1>9, Fun_IsBij
<1>11. ExistsBijection(All, Units(f))
  <2>1. ExistsBijection(Units(f), All)
    BY <1>10 DEF ExistsBijection
  <2> QED
    BY <2>1, Fun_ExistsBijSymmetric
<1>12. Cardinality(All) = Cardinality(Units(f))
  BY <1>2, <1>11, FS_Bijection
<1>13. Total(f) = Cardinality(Units(f))
  BY DEF Total
<1> QED
  BY <1>12, <1>13 DEF All, Joined

LEMMA ElementOfSeqs == ASSUME NEW S, NEW s \in Seq(S), NEW i \in 1 .. Len(s) PROVE s[i] \in S
OBVIOUS

\* The sums are right when every bucket is.
LEMMA SumsOfLists ==
  ASSUME NEW list \in Seq(Bucket), NEW out \in Seq([minute : Nat, bad : BOOLEAN]),
         \A i, j \in 1 .. Len(list) : i < j => list[i].minute < list[j].minute,
         \A i \in 1 .. Len(list) :
           /\ list[i].ok = Cardinality({k \in 1 .. Len(out) : out[k].minute = list[i].minute /\ out[k].bad = FALSE})
           /\ list[i].bad = Cardinality({k \in 1 .. Len(out) : out[k].minute = list[i].minute /\ out[k].bad = TRUE}),
         \A k \in 1 .. Len(out) : Fresh(out[k].minute) => \E i \in 1 .. Len(list) : list[i].minute = out[k].minute
  PROVE  /\ Failed(list) = Cardinality({k \in 1 .. Len(out) : Fresh(out[k].minute) /\ out[k].bad \in {TRUE}})
         /\ Invocations(list) = Cardinality({k \in 1 .. Len(out) : Fresh(out[k].minute) /\ out[k].bad \in BOOLEAN})
<1> DEFINE I == 1 .. Len(list)
           U == 1 .. Len(out)
           Oks == [i \in I |-> {k \in U : out[k].minute = list[i].minute /\ out[k].bad = FALSE}]
           Bads == [i \in I |-> {k \in U : out[k].minute = list[i].minute /\ out[k].bad = TRUE}]
<1>1. Len(list) \in Nat /\ Len(out) \in Nat /\ DOMAIN list = I
  OBVIOUS
<1>2. IsFiniteSet(U)
  BY <1>1, FS_Interval
<1>3. /\ \A i \in I : list[i].minute \in Nat /\ list[i].ok \in Nat /\ list[i].bad \in Nat
      /\ \A k \in U : out[k].minute \in Nat /\ out[k].bad \in BOOLEAN
  <2>1. ASSUME NEW i \in I PROVE list[i] \in Bucket
    BY <1>1, ElementOfSeqs
  <2>2. ASSUME NEW k \in U PROVE out[k] \in [minute : Nat, bad : BOOLEAN]
    BY <1>1, ElementOfSeqs
  <2> QED
    BY <2>1, <2>2 DEF Bucket
<1>4. ASSUME NEW i \in I, NEW j \in I, list[i].minute = list[j].minute PROVE i = j
  <2>1. /\ i < j => list[i].minute < list[j].minute
        /\ j < i => list[j].minute < list[i].minute
    OBVIOUS
  <2>2. ~(i < j) /\ ~(j < i)
    BY <1>3, <1>4, <2>1
  <2> QED
    BY <1>1, <2>2
<1>5. /\ \A i \in I : list[i].ok = Cardinality(Oks[i]) /\ list[i].bad = Cardinality(Bads[i])
      /\ Oks \in [I -> SUBSET U] /\ Bads \in [I -> SUBSET U]
  OBVIOUS
<1>6. \A i \in I : \A k \in U : /\ k \in Oks[i] <=> out[k].minute = list[i].minute /\ out[k].bad = FALSE
                                /\ k \in Bads[i] <=> out[k].minute = list[i].minute /\ out[k].bad = TRUE
  OBVIOUS
<1>7. \A k \in U : Fresh(out[k].minute) => \E i \in I : list[i].minute = out[k].minute
  OBVIOUS
<1>8. \A i \in I, j \in I : i # j => (Oks[i] \union Bads[i]) \cap (Oks[j] \union Bads[j]) = {}
  BY <1>4, <1>5, <1>6
<1>9. Failed(list) = Total([i \in I |-> IF Fresh(list[i].minute) THEN list[i].bad ELSE 0])
  BY <1>1 DEF Failed
<1>10. Invocations(list) = Total([i \in I |-> IF Fresh(list[i].minute) THEN list[i].ok + list[i].bad ELSE 0])
  BY <1>1 DEF Invocations
<1>11. ASSUME NEW i \in I, NEW k \in U, out[k].minute = list[i].minute
       PROVE  Fresh(out[k].minute) <=> Fresh(list[i].minute)
  BY <1>11
<1> HIDE DEF I, U, Oks, Bads
<1>12. Failed(list) = Cardinality({k \in U : Fresh(out[k].minute) /\ out[k].bad \in {TRUE}})
  <2> DEFINE f == [i \in I |-> IF Fresh(list[i].minute) THEN list[i].bad ELSE 0]
             G == [i \in I |-> IF Fresh(list[i].minute) THEN Bads[i] ELSE {}]
  <2>1. f \in [I -> Nat] /\ G \in [I -> SUBSET U]
    BY <1>3, <1>5
  <2>2. \A i \in I : Cardinality(G[i]) = f[i]
    BY <1>5, FS_EmptySet
  <2>3. \A i, j \in I : i # j => G[i] \cap G[j] = {}
    BY <1>8
  <2>4. UNION {G[i] : i \in I} = {k \in U : Fresh(out[k].minute) /\ out[k].bad \in {TRUE}}
    <3>1. ASSUME NEW i \in I, NEW k \in G[i] PROVE k \in U /\ Fresh(out[k].minute) /\ out[k].bad = TRUE
      BY <1>5, <1>6, <1>11, <3>1
    <3>2. ASSUME NEW k \in U, Fresh(out[k].minute), out[k].bad = TRUE PROVE \E i \in I : k \in G[i]
      <4>1. PICK i \in I : list[i].minute = out[k].minute
        BY <1>7, <3>2
      <4> QED
        BY <1>6, <1>11, <3>2, <4>1
    <3> HIDE DEF G
    <3> QED
      BY <3>1, <3>2
  <2> HIDE DEF G
  <2>5. Total(f) = Cardinality(Joined(I, G))
    <3> HIDE DEF f
    <3> QED
      BY <1>2, <2>1, <2>2, <2>3, SumOfSizes
  <2> QED
    BY <1>9, <2>4, <2>5 DEF Joined
<1>13. Invocations(list) = Cardinality({k \in U : Fresh(out[k].minute) /\ out[k].bad \in BOOLEAN})
  <2> DEFINE f == [i \in I |-> IF Fresh(list[i].minute) THEN list[i].ok + list[i].bad ELSE 0]
             G == [i \in I |-> IF Fresh(list[i].minute) THEN Oks[i] \union Bads[i] ELSE {}]
  <2>1. f \in [I -> Nat] /\ G \in [I -> SUBSET U]
    BY <1>3, <1>5
  <2>2. ASSUME NEW i \in I PROVE Cardinality(G[i]) = f[i]
    <3>1. Oks[i] \cap Bads[i] = {}
      BY <1>5, <1>6
    <3>2. IsFiniteSet(Oks[i]) /\ IsFiniteSet(Bads[i])
      BY <1>2, <1>5, FS_Subset
    <3>3. Cardinality(Oks[i] \union Bads[i]) = Cardinality(Oks[i]) + Cardinality(Bads[i]) - Cardinality(Oks[i] \cap Bads[i])
      BY <3>2, FS_Union
    <3>4. Cardinality(Oks[i]) = list[i].ok /\ Cardinality(Bads[i]) = list[i].bad /\ Cardinality({}) = 0
      BY <1>5, FS_EmptySet
    <3>5. Cardinality(Oks[i] \union Bads[i]) = list[i].ok + list[i].bad
      <4>1. Cardinality(Oks[i] \cap Bads[i]) = 0
        BY <3>1, <3>4
      <4> QED
        BY <1>3, <3>3, <3>4, <4>1
    <3> QED
      BY <3>4, <3>5
  <2>3. \A i, j \in I : i # j => G[i] \cap G[j] = {}
    BY <1>8
  <2>4. UNION {G[i] : i \in I} = {k \in U : Fresh(out[k].minute) /\ out[k].bad \in BOOLEAN}
    <3>1. ASSUME NEW i \in I, NEW k \in G[i] PROVE k \in U /\ Fresh(out[k].minute) /\ out[k].bad \in BOOLEAN
      <4>1. Fresh(list[i].minute) /\ k \in Oks[i] \union Bads[i]
        BY <3>1
      <4>2. k \in U
        BY <1>5, <4>1
      <4>3. out[k].minute = list[i].minute
        BY <1>6, <4>1, <4>2
      <4> QED
        BY <1>3, <1>11, <4>1, <4>2, <4>3
    <3>2. ASSUME NEW k \in U, Fresh(out[k].minute) PROVE \E i \in I : k \in G[i]
      <4>1. PICK i \in I : list[i].minute = out[k].minute
        BY <1>7, <3>2
      <4>2. out[k].bad = FALSE \/ out[k].bad = TRUE
        BY <1>3
      <4>3. k \in Oks[i] \union Bads[i]
        BY <1>6, <4>1, <4>2
      <4> QED
        BY <1>11, <3>2, <4>1, <4>3
    <3> HIDE DEF G
    <3> QED
      BY <1>3, <3>1, <3>2
  <2> HIDE DEF G
  <2>5. Total(f) = Cardinality(Joined(I, G))
    <3> HIDE DEF f
    <3> QED
      BY <1>2, <2>1, <2>2, <2>3, SumOfSizes
  <2> QED
    BY <1>10, <2>4, <2>5 DEF Joined
<1> QED
  BY <1>12, <1>13 DEF U

LEMMA RatesFollow == ASSUME AlertsIInv PROVE RateIsRight
<1> SUFFICES ASSUME NEW c \in Cmds
             PROVE  /\ Invocations(buckets[c]) = Recent(c, BOOLEAN)
                    /\ Failed(buckets[c]) = Recent(c, {TRUE})
  BY DEF RateIsRight
<1>1. buckets[c] \in Seq(Bucket) /\ outcomes[c] \in Seq([minute : Nat, bad : BOOLEAN])
  BY DEF AlertsIInv, AlertTypes
<1>2. \A i, j \in 1 .. Len(buckets[c]) : i < j => buckets[c][i].minute < buckets[c][j].minute
  BY DEF AlertsIInv, InOrder
<1>3. \A i \in 1 .. Len(buckets[c]) :
        /\ buckets[c][i].ok = Cardinality({k \in 1 .. Len(outcomes[c]) : outcomes[c][k].minute = buckets[c][i].minute /\ outcomes[c][k].bad = FALSE})
        /\ buckets[c][i].bad = Cardinality({k \in 1 .. Len(outcomes[c]) : outcomes[c][k].minute = buckets[c][i].minute /\ outcomes[c][k].bad = TRUE})
  BY DEF AlertsIInv, BucketsTell, OutcomesOf
<1>4. \A k \in 1 .. Len(outcomes[c]) :
        Fresh(outcomes[c][k].minute) => \E i \in 1 .. Len(buckets[c]) : buckets[c][i].minute = outcomes[c][k].minute
  BY DEF AlertsIInv, BucketsCover
<1> QED
  BY <1>1, <1>2, <1>3, <1>4, SumsOfLists DEF Recent

\* A set of numbers has a least one.
LEMMA LeastOne == ASSUME NEW S \in SUBSET Nat, S # {} PROVE \E n \in S : \A m \in S : n <= m
<1> DEFINE Less == {p \in Nat \X Nat : p[1] < p[2]}
<1>1. IsWellFoundedOn(Less, Nat)
  BY NatLessThanWellFounded DEF OpToRel
<1>2. \A x, y \in Nat : y < x => <<y, x>> \in Less
  OBVIOUS
<1> HIDE DEF Less
<1>3. PICK x \in S : \A y \in S : ~(<<y, x>> \in Less)
  BY <1>1, WFMin
<1>4. ASSUME NEW y \in S PROVE x <= y
  <2>1. x \in Nat /\ y \in Nat
    OBVIOUS
  <2>2. ~(y < x)
    BY <1>2, <1>3, <2>1
  <2> QED
    BY <2>1, <2>2
<1> QED
  BY <1>4

\* The trim drops a first part that is stale.
LEMMA TrimmedIs ==
  ASSUME NEW list \in Seq(Bucket)
  PROVE  \E n \in 0 .. Len(list) :
           /\ Trimmed(list) \in Seq(Bucket) /\ Len(Trimmed(list)) = Len(list) - n
           /\ \A i \in 1 .. Len(list) - n : Trimmed(list)[i] = list[i + n]
           /\ \A i \in 1 .. n : ~Fresh(list[i].minute)
<1> DEFINE Ends(n) == /\ \A i \in 1 .. n : ~Fresh(list[i].minute)
                      /\ n < Len(list) => Fresh(list[n + 1].minute)
           stale == CHOOSE n \in 0 .. Len(list) : Ends(n)
<1>1. \E n \in 0 .. Len(list) : Ends(n)
  <2> DEFINE S == {i \in 1 .. Len(list) : Fresh(list[i].minute)}
  <2>1. CASE S = {}
    <3>1. Ends(Len(list)) /\ Len(list) \in 0 .. Len(list)
      BY <2>1
    <3> QED
      BY <3>1
  <2>2. CASE S # {}
    <3>1. S \in SUBSET Nat
      OBVIOUS
    <3>2. PICK k \in S : \A m \in S : k <= m
      <4> HIDE DEF S
      <4> QED
        BY <2>2, <3>1, LeastOne
    <3>3. k - 1 \in 0 .. Len(list) /\ k \in 1 .. Len(list) /\ Fresh(list[k].minute) /\ (k - 1) + 1 = k
      BY <3>2
    <3>4. ASSUME NEW i \in 1 .. k - 1 PROVE ~Fresh(list[i].minute)
      <4>1. i \in 1 .. Len(list) /\ ~(k <= i)
        BY <3>3
      <4> QED
        BY <3>2, <4>1
    <3>5. Ends(k - 1)
      BY <3>3, <3>4
    <3> QED
      BY <3>3, <3>5
  <2> QED
    BY <2>1, <2>2
<1>2. stale \in 0 .. Len(list) /\ Ends(stale)
  BY <1>1
<1>3. Trimmed(list) = SubSeq(list, stale + 1, Len(list)) /\ \A i \in 1 .. stale : ~Fresh(list[i].minute)
  BY <1>2 DEF Trimmed
<1> HIDE DEF Ends
<1> HIDE DEF stale
<1>4. stale + 1 \in 1 .. Len(list) + 1 /\ Len(list) \in Nat
  BY <1>2
<1>5. SubSeq(list, stale + 1, Len(list)) \in Seq(Bucket)
      /\ Len(SubSeq(list, stale + 1, Len(list))) = Len(list) - stale
      /\ \A i \in 1 .. Len(list) - stale : SubSeq(list, stale + 1, Len(list))[i] = list[i + stale]
  BY <1>2, <1>4
<1> QED
  BY <1>2, <1>3, <1>5

\* The buckets when an outcome was counted: those of other minutes are the same, and
\* the one of this minute has one more, or is the first.
OneMore(list, bad, n) ==
  /\ n \in Seq(Bucket) /\ InOrder(n)
  /\ \A i \in 1 .. Len(list) : i \in 1 .. Len(n) /\ n[i].minute = list[i].minute
  /\ Len(n) # 0 /\ n[Len(n)].minute = minute
  /\ \A i \in 1 .. Len(n) : n[i].minute # minute => i \in 1 .. Len(list) /\ n[i] = list[i]
  /\ \/ /\ Len(n) = Len(list)
        /\ n[Len(n)].ok = list[Len(n)].ok + One(bad).ok /\ n[Len(n)].bad = list[Len(n)].bad + One(bad).bad
     \/ n[Len(n)] = One(bad) /\ \A i \in 1 .. Len(list) : list[i].minute # minute

LEMMA CountedIs ==
  ASSUME minute \in Nat, NEW list \in Seq(Bucket), InOrder(list), NEW bad \in BOOLEAN
  PROVE  OneMore(list, bad, Counted(list, bad))
<1> DEFINE L == Len(list)
<1>1. One(bad) \in Bucket /\ One(bad).minute = minute /\ One(bad).ok \in Nat /\ One(bad).bad \in Nat /\ L \in Nat
  BY DEF One, Bucket
<1>2. ASSUME NEW i \in 1 .. L PROVE list[i] \in Bucket /\ list[i].minute \in Nat /\ list[i].minute <= minute
  <2>1. list[i] \in Bucket
    BY ElementOfSeqs
  <2> QED
    BY <2>1 DEF InOrder, Bucket
<1>3. CASE list # <<>> /\ list[L].minute = minute
  <2> DEFINE e == [minute |-> minute, ok |-> list[L].ok + One(bad).ok, bad |-> list[L].bad + One(bad).bad]
             n == [list EXCEPT ![L] = e]
  <2>1. Counted(list, bad) = n
    BY <1>3 DEF Counted
  <2>2. L \in 1 .. L /\ list[L] \in Bucket
    BY <1>2, <1>3
  <2>3. e \in Bucket /\ e.minute = minute /\ e.ok = list[L].ok + One(bad).ok /\ e.bad = list[L].bad + One(bad).bad
    <3>1. list[L].ok + One(bad).ok \in Nat /\ list[L].bad + One(bad).bad \in Nat
      BY <1>1, <2>2 DEF Bucket
    <3> QED
      BY <3>1 DEF Bucket
  <2> HIDE DEF e
  <2>4. n \in Seq(Bucket) /\ Len(n) = L /\ n[L] = e /\ \A i \in 1 .. L : i # L => n[i] = list[i]
    BY <1>1, <2>2, <2>3
  <2> HIDE DEF n
  <2>5. \A i \in 1 .. L : n[i].minute = list[i].minute
    BY <1>3, <2>3, <2>4
  <2>6. InOrder(n)
    BY <2>4, <2>5 DEF InOrder
  <2>7. \A i \in 1 .. L : n[i].minute # minute => n[i] = list[i]
    BY <2>3, <2>4
  <2>8. /\ n \in Seq(Bucket) /\ InOrder(n) /\ Len(n) = L /\ L # 0
        /\ n[L].minute = minute /\ n[L].ok = list[L].ok + One(bad).ok /\ n[L].bad = list[L].bad + One(bad).bad
    BY <1>1, <2>2, <2>3, <2>4, <2>6
  <2>9. /\ \A i \in 1 .. L : i \in 1 .. Len(n) /\ n[i].minute = list[i].minute
        /\ Len(n) # 0 /\ n[Len(n)].minute = minute
        /\ \A i \in 1 .. Len(n) : n[i].minute # minute => i \in 1 .. L /\ n[i] = list[i]
        /\ Len(n) = Len(list)
        /\ n[Len(n)].ok = list[Len(n)].ok + One(bad).ok /\ n[Len(n)].bad = list[Len(n)].bad + One(bad).bad
    BY <2>5, <2>7, <2>8
  <2>10. OneMore(list, bad, n)
    BY <2>8, <2>9 DEF OneMore
  <2> QED
    BY <2>1, <2>10
<1>4. CASE ~(list # <<>> /\ list[L].minute = minute)
  <2> DEFINE n == Append(list, One(bad))
  <2>1. Counted(list, bad) = n
    BY <1>4 DEF Counted
  <2>2. /\ n \in Seq(Bucket) /\ Len(n) = L + 1 /\ n[L + 1] = One(bad)
        /\ \A i \in 1 .. L : n[i] = list[i]
    BY <1>1
  <2> HIDE DEF n
  <2>3. ASSUME NEW i \in 1 .. L PROVE list[i].minute < minute
    <3>1. list # <<>> /\ L \in 1 .. L /\ list[L].minute # minute
      BY <1>1, <1>4
    <3>2. list[L].minute < minute
      BY <1>2, <3>1
    <3>3. i = L \/ list[i].minute < list[L].minute
      BY <3>1 DEF InOrder
    <3>4. list[i].minute \in Nat /\ list[L].minute \in Nat
      BY <1>2, <3>1
    <3> QED
      BY <3>2, <3>3, <3>4
  <2>4. InOrder(n)
    <3>1. ASSUME NEW i \in 1 .. L + 1, NEW j \in 1 .. L + 1, i < j PROVE n[i].minute < n[j].minute
      <4>1. i \in 1 .. L
        BY <1>1, <3>1
      <4>2. CASE j \in 1 .. L
        BY <2>2, <3>1, <4>1, <4>2 DEF InOrder
      <4>3. CASE j = L + 1
        BY <1>1, <2>2, <2>3, <4>1, <4>3
      <4> QED
        BY <1>1, <4>2, <4>3
    <3>2. ASSUME NEW i \in 1 .. L + 1 PROVE n[i].minute <= minute
      <4>1. CASE i \in 1 .. L
        BY <1>2, <2>2, <4>1
      <4>2. CASE i = L + 1
        BY <1>1, <2>2, <4>2
      <4> QED
        BY <1>1, <4>1, <4>2
    <3> QED
      BY <2>2, <3>1, <3>2 DEF InOrder
  <2>5. \A i \in 1 .. L + 1 : n[i].minute # minute => i \in 1 .. L /\ n[i] = list[i]
    BY <1>1, <2>2
  <2>6. \A i \in 1 .. L : i \in 1 .. L + 1
    BY <1>1
  <2>7. L + 1 # 0 /\ \A i \in 1 .. L : list[i].minute # minute
    BY <1>1, <1>2, <2>3
  <2>8. OneMore(list, bad, n)
    BY <1>1, <2>2, <2>4, <2>5, <2>6, <2>7 DEF OneMore
  <2> QED
    BY <2>1, <2>8
<1> QED
  BY <1>3, <1>4

\* What one outcome more is for the command that has it.
LEMMA RecordMoves ==
  ASSUME AlertsIInv, NEW c \in Cmds, NEW bad \in BOOLEAN, minute' = minute,
         buckets' = [buckets EXCEPT ![c] = Trimmed(Counted(buckets[c], bad))],
         outcomes' = [outcomes EXCEPT ![c] = Append(outcomes[c], [minute |-> minute, bad |-> bad])]
  PROVE  AlertsIInv'
<1> DEFINE list == buckets[c]
           new == Counted(list, bad)
           kept == Trimmed(new)
           out == outcomes[c]
           more == Append(out, [minute |-> minute, bad |-> bad])
           was(m, b) == {k \in 1 .. Len(out) : out[k].minute = m /\ out[k].bad = b}
           is(m, b) == {k \in 1 .. Len(more) : more[k].minute = m /\ more[k].bad = b}
<1>1. /\ minute \in Nat /\ buckets \in [Cmds -> Seq(Bucket)]
      /\ outcomes \in [Cmds -> Seq([minute : Nat, bad : BOOLEAN])]
      /\ list \in Seq(Bucket) /\ out \in Seq([minute : Nat, bad : BOOLEAN]) /\ InOrder(list)
      /\ Len(list) \in Nat /\ Len(out) \in Nat
  BY DEF AlertsIInv, AlertTypes
<1>2. OneMore(list, bad, new)
  BY <1>1, CountedIs
<1>3. new \in Seq(Bucket) /\ Len(new) \in Nat
  BY <1>2 DEF OneMore
<1>4. PICK n \in 0 .. Len(new) :
        /\ kept \in Seq(Bucket) /\ Len(kept) = Len(new) - n
        /\ \A i \in 1 .. Len(new) - n : kept[i] = new[i + n]
        /\ \A i \in 1 .. n : ~Fresh(new[i].minute)
  BY <1>3, TrimmedIs
<1>5. /\ more \in Seq([minute : Nat, bad : BOOLEAN]) /\ Len(more) = Len(out) + 1
      /\ \A k \in 1 .. Len(out) : more[k] = out[k]
      /\ more[Len(out) + 1] = [minute |-> minute, bad |-> bad]
  BY <1>1
<1>6. /\ \A i \in 1 .. Len(list) : list[i].ok = Cardinality(was(list[i].minute, FALSE))
                                   /\ list[i].bad = Cardinality(was(list[i].minute, TRUE))
      /\ \A k \in 1 .. Len(out) : Fresh(out[k].minute) => \E i \in 1 .. Len(list) : list[i].minute = out[k].minute
  BY DEF AlertsIInv, BucketsTell, BucketsCover, OutcomesOf
<1>7. /\ buckets'[c] = kept /\ outcomes'[c] = more
      /\ \A d \in Cmds : d # c => buckets'[d] = buckets[d] /\ outcomes'[d] = outcomes[d]
      /\ buckets' = [buckets EXCEPT ![c] = kept] /\ outcomes' = [outcomes EXCEPT ![c] = more]
  BY <1>1
<1>8. Fresh(minute)
  BY <1>1, AlertsAssumption DEF Fresh
<1>9. \A m \in Nat, b \in BOOLEAN : IsFiniteSet(was(m, b)) /\ Len(out) + 1 \notin was(m, b)
  <2>1. IsFiniteSet(1 .. Len(out))
    BY <1>1, FS_Interval
  <2>2. \A m \in Nat, b \in BOOLEAN : was(m, b) \subseteq 1 .. Len(out)
    OBVIOUS
  <2>3. Len(out) + 1 \notin 1 .. Len(out)
    BY <1>1
  <2> HIDE DEF was, out
  <2> QED
    BY <2>1, <2>2, <2>3, FS_Subset
<1>10. ASSUME NEW m \in Nat, NEW b \in BOOLEAN
       PROVE  is(m, b) = IF m = minute /\ b = bad THEN was(m, b) \union {Len(out) + 1} ELSE was(m, b)
  <2>1. \A k : k \in is(m, b) <=> k \in 1 .. Len(out) + 1 /\ more[k].minute = m /\ more[k].bad = b
    BY <1>5
  <2>2. \A k : k \in 1 .. Len(out) + 1 <=> k \in 1 .. Len(out) \/ k = Len(out) + 1
    BY <1>1
  <2>3. \A k : k \in was(m, b) <=> k \in 1 .. Len(out) /\ out[k].minute = m /\ out[k].bad = b
    OBVIOUS
  <2>4. more[Len(out) + 1].minute = minute /\ more[Len(out) + 1].bad = bad
    BY <1>5
  <2>5. Len(out) + 1 \notin 1 .. Len(out)
    BY <1>1
  <2> HIDE DEF is, was, more, out
  <2>6. ASSUME NEW k, k \in 1 .. Len(out) PROVE k \in is(m, b) <=> k \in was(m, b)
    <3>1. more[k] = out[k]
      BY <1>5, <2>6
    <3> QED
      BY <2>1, <2>2, <2>3, <2>6, <3>1
  <2>7. Len(out) + 1 \in is(m, b) <=> m = minute /\ b = bad
    BY <2>1, <2>2, <2>4
  <2>8. ASSUME NEW k, k \notin 1 .. Len(out), k # Len(out) + 1 PROVE k \notin is(m, b)
    BY <2>1, <2>2, <2>8
  <2>9. \A k : k \in was(m, b) => k \in 1 .. Len(out)
    BY <2>3
  <2>10. CASE m = minute /\ b = bad
    <3>1. ASSUME NEW k PROVE k \in is(m, b) <=> k \in was(m, b) \/ k = Len(out) + 1
      BY <2>6, <2>7, <2>8, <2>9, <2>10
    <3> QED
      BY <2>10, <3>1
  <2>11. CASE ~(m = minute /\ b = bad)
    <3>1. ASSUME NEW k PROVE k \in is(m, b) <=> k \in was(m, b)
      BY <2>5, <2>6, <2>7, <2>8, <2>9, <2>11
    <3> QED
      BY <2>11, <3>1
  <2> QED
    BY <2>10, <2>11
<1>11. ASSUME NEW m \in Nat, NEW b \in BOOLEAN
       PROVE  /\ (m = minute /\ b = bad => Cardinality(is(m, b)) = Cardinality(was(m, b)) + 1)
              /\ (~(m = minute /\ b = bad) => Cardinality(is(m, b)) = Cardinality(was(m, b)))
              /\ Cardinality(was(m, b)) \in Nat
  <2> HIDE DEF is, was
  <2>1. Cardinality(was(m, b)) \in Nat /\ Cardinality(was(m, b) \union {Len(out) + 1}) = Cardinality(was(m, b)) + 1
    BY <1>9, FS_AddElement, FS_CardinalityType
  <2>2. CASE m = minute /\ b = bad
    <3>1. is(m, b) = was(m, b) \union {Len(out) + 1}
      BY <1>10, <2>2
    <3> QED
      BY <2>1, <2>2, <3>1
  <2>3. CASE ~(m = minute /\ b = bad)
    <3>1. is(m, b) = was(m, b)
      BY <1>10, <2>3
    <3> QED
      BY <2>1, <2>3, <3>1
  <2> QED
    BY <2>2, <2>3
<1> HIDE DEF is, was, more, out, kept, new, list
<1>12. ASSUME NEW i \in 1 .. Len(new)
       PROVE  new[i].ok = Cardinality(is(new[i].minute, FALSE)) /\ new[i].bad = Cardinality(is(new[i].minute, TRUE))
  <2>1. new[i].minute \in Nat
    <3>1. new[i] \in Bucket
      BY <1>3, ElementOfSeqs
    <3> QED
      BY <3>1 DEF Bucket
  <2>2. CASE new[i].minute # minute
    <3>1. i \in 1 .. Len(list) /\ new[i] = list[i]
      BY <1>2, <2>2 DEF OneMore
    <3>2. /\ Cardinality(is(new[i].minute, FALSE)) = Cardinality(was(new[i].minute, FALSE))
          /\ Cardinality(is(new[i].minute, TRUE)) = Cardinality(was(new[i].minute, TRUE))
      BY <1>11, <2>1, <2>2
    <3>3. list[i].ok = Cardinality(was(list[i].minute, FALSE)) /\ list[i].bad = Cardinality(was(list[i].minute, TRUE))
      BY <1>6, <3>1
    <3> QED
      BY <3>1, <3>2, <3>3
  <2>3. CASE new[i].minute = minute
    <3>1. Len(new) \in 1 .. Len(new)
      BY <1>3
    <3>2. i = Len(new)
      <4>1. i < Len(new) => new[i].minute < new[Len(new)].minute
        BY <1>2, <3>1 DEF OneMore, InOrder
      <4>2. new[Len(new)].minute = minute
        BY <1>2 DEF OneMore
      <4> QED
        BY <1>1, <1>3, <2>3, <4>1, <4>2
    <3>3. One(bad).ok = (IF bad THEN 0 ELSE 1) /\ One(bad).bad = IF bad THEN 1 ELSE 0
      BY DEF One
    <3> DEFINE okNow == Cardinality(is(minute, FALSE))
    <3> DEFINE badNow == Cardinality(is(minute, TRUE))
    <3> DEFINE okThen == Cardinality(was(minute, FALSE))
    <3> DEFINE badThen == Cardinality(was(minute, TRUE))
    <3>4. ASSUME bad = TRUE
          PROVE  /\ badNow = badThen + 1
                 /\ okNow = okThen
      <4>1. minute = minute /\ TRUE = bad
        BY <3>4
      <4>2. ~(minute = minute /\ FALSE = bad)
        BY <3>4
      <4>3. TRUE \in BOOLEAN /\ FALSE \in BOOLEAN
        OBVIOUS
      <4>4. Cardinality(is(minute, TRUE)) = Cardinality(was(minute, TRUE)) + 1
        BY <1>1, <1>11, <4>1, <4>3, Zenon
      <4>5. Cardinality(is(minute, FALSE)) = Cardinality(was(minute, FALSE))
        BY <1>1, <1>11, <4>2, <4>3, Zenon
      <4> QED
        BY <4>4, <4>5
    <3>5. ASSUME bad = FALSE
          PROVE  /\ okNow = okThen + 1
                 /\ badNow = badThen
      <4>1. minute = minute /\ FALSE = bad
        BY <3>5
      <4>2. ~(minute = minute /\ TRUE = bad)
        BY <3>5
      <4>3. TRUE \in BOOLEAN /\ FALSE \in BOOLEAN
        OBVIOUS
      <4>4. Cardinality(is(minute, FALSE)) = Cardinality(was(minute, FALSE)) + 1
        BY <1>1, <1>11, <4>1, <4>3, Zenon
      <4>5. Cardinality(is(minute, TRUE)) = Cardinality(was(minute, TRUE))
        BY <1>1, <1>11, <4>2, <4>3, Zenon
      <4> QED
        BY <4>4, <4>5
    <3>6. /\ badThen \in Nat
          /\ okThen \in Nat
      BY <1>1, <1>11
    <3>7. /\ okNow = Cardinality(is(new[i].minute, FALSE))
          /\ badNow = Cardinality(is(new[i].minute, TRUE))
      BY <2>3, Zenon
    <3> HIDE DEF okNow, badNow, okThen, badThen
    <3>8. CASE /\ Len(new) = Len(list)
               /\ new[Len(new)].ok = list[Len(new)].ok + One(bad).ok
               /\ new[Len(new)].bad = list[Len(new)].bad + One(bad).bad
      <4>1. list[i].minute = minute /\ i \in 1 .. Len(list)
        BY <1>2, <2>3, <3>1, <3>2, <3>8 DEF OneMore
      <4>2. list[i].ok = okThen /\ list[i].bad = badThen
        BY <1>6, <4>1 DEF okThen, badThen
      <4>3. /\ new[i].minute = minute
            /\ new[i].ok = okThen + One(bad).ok
            /\ new[i].bad = badThen + One(bad).bad
        BY <2>3, <3>2, <3>8, <4>2
      <4>4. CASE bad = TRUE
        <5>1. One(bad).ok = 0 /\ One(bad).bad = 1
          BY <3>3, <4>4
        <5>2. badNow = badThen + 1 /\ okNow = okThen
          BY <3>4, <4>4, Zenon
        <5>3. new[i].ok = okNow /\ new[i].bad = badNow
          BY <3>6, <4>3, <5>1, <5>2
        <5> QED
          BY <3>7, <5>3, Zenon
      <4>5. CASE bad = FALSE
        <5>1. One(bad).ok = 1 /\ One(bad).bad = 0
          BY <3>3, <4>5
        <5>2. okNow = okThen + 1 /\ badNow = badThen
          BY <3>5, <4>5, Zenon
        <5>3. new[i].ok = okNow /\ new[i].bad = badNow
          BY <3>6, <4>3, <5>1, <5>2
        <5> QED
          BY <3>7, <5>3, Zenon
      <4> QED
        BY <4>4, <4>5
    <3>9. CASE new[Len(new)] = One(bad) /\ \A j \in 1 .. Len(list) : list[j].minute # minute
      <4>1. ASSUME NEW b \in BOOLEAN PROVE Cardinality(was(minute, b)) = 0
        <5>1. ASSUME NEW k \in was(minute, b) PROVE FALSE
          <6>1. k \in 1 .. Len(out) /\ out[k].minute = minute
            BY DEF was
          <6> QED
            BY <1>6, <1>8, <3>9, <6>1
        <5>2. was(minute, b) = {}
          BY <5>1
        <5> QED
          BY <5>2, FS_EmptySet
      <4>2. badThen = 0 /\ okThen = 0
        BY <4>1 DEF badThen, okThen
      <4>3. new[i] = One(bad) /\ new[i].minute = minute
        BY <2>3, <3>2, <3>9
      <4>4. CASE bad = TRUE
        <5>1. One(bad).ok = 0 /\ One(bad).bad = 1
          BY <3>3, <4>4
        <5>2. badNow = badThen + 1 /\ okNow = okThen
          BY <3>4, <4>4, Zenon
        <5>3. new[i].ok = okNow /\ new[i].bad = badNow
          BY <4>2, <4>3, <5>1, <5>2
        <5> QED
          BY <3>7, <5>3, Zenon
      <4>5. CASE bad = FALSE
        <5>1. One(bad).ok = 1 /\ One(bad).bad = 0
          BY <3>3, <4>5
        <5>2. okNow = okThen + 1 /\ badNow = badThen
          BY <3>5, <4>5, Zenon
        <5>3. new[i].ok = okNow /\ new[i].bad = badNow
          BY <4>2, <4>3, <5>1, <5>2
        <5> QED
          BY <3>7, <5>3, Zenon
      <4> QED
        BY <4>4, <4>5
    <3> QED
      BY <1>2, <3>8, <3>9 DEF OneMore
  <2> QED
    BY <2>2, <2>3
<1>13. \A i \in 1 .. Len(kept) : i + n \in 1 .. Len(new) /\ kept[i] = new[i + n]
  BY <1>3, <1>4
<1>14. InOrder(kept)
  <2>1. ASSUME NEW i \in 1 .. Len(kept), NEW j \in 1 .. Len(kept), i < j PROVE kept[i].minute < kept[j].minute
    <3>1. i + n < j + n
      BY <2>1
    <3> QED
      BY <1>2, <1>13, <3>1 DEF OneMore, InOrder
  <2>2. ASSUME NEW i \in 1 .. Len(kept) PROVE kept[i].minute <= minute
    BY <1>2, <1>13 DEF OneMore, InOrder
  <2> QED
    BY <2>1, <2>2 DEF InOrder
<1>15. \A i \in 1 .. Len(kept) : kept[i].ok = Cardinality(is(kept[i].minute, FALSE)) /\ kept[i].bad = Cardinality(is(kept[i].minute, TRUE))
  BY <1>12, <1>13
<1>16. ASSUME NEW i \in 1 .. Len(new), Fresh(new[i].minute) PROVE \E j \in 1 .. Len(kept) : kept[j].minute = new[i].minute
  <2>1. ~(i \in 1 .. n)
    BY <1>4, <1>16
  <2>2. i - n \in 1 .. Len(kept) /\ (i - n) + n = i
    BY <1>3, <1>4, <2>1
  <2> QED
    BY <1>13, <2>2
<1>17. ASSUME NEW k \in 1 .. Len(more), Fresh(more[k].minute)
       PROVE  \E j \in 1 .. Len(kept) : kept[j].minute = more[k].minute
  <2>1. CASE k \in 1 .. Len(out)
    <3>1. more[k] = out[k]
      BY <1>5, <2>1
    <3>2. PICK i \in 1 .. Len(list) : list[i].minute = out[k].minute
      BY <1>6, <1>17, <2>1, <3>1
    <3>3. i \in 1 .. Len(new) /\ new[i].minute = out[k].minute
      BY <1>2, <3>2 DEF OneMore
    <3> QED
      BY <1>16, <1>17, <3>1, <3>3
  <2>2. CASE k = Len(out) + 1
    <3>1. more[k].minute = minute
      BY <1>5, <2>2
    <3>2. Len(new) \in 1 .. Len(new) /\ new[Len(new)].minute = minute
      BY <1>2, <1>3 DEF OneMore
    <3> QED
      BY <1>8, <1>16, <3>1, <3>2
  <2> QED
    BY <1>1, <1>5, <2>1, <2>2
<1>18. AlertTypes'
  BY <1>1, <1>4, <1>5, <1>7 DEF AlertTypes
<1>19. \A d \in Cmds : InOrder(buckets[d])'
  <2>1. ASSUME NEW d \in Cmds PROVE InOrder(buckets[d])'
    <3>1. CASE d = c
      BY <1>7, <1>14, <3>1 DEF InOrder
    <3>2. CASE d # c
      BY <1>7, <3>2 DEF AlertsIInv, InOrder
    <3> QED
      BY <3>1, <3>2
  <2> QED
    BY <2>1
<1>20. ASSUME NEW d \in Cmds
       PROVE  /\ \A i \in 1 .. Len(buckets[d]) :
                    /\ buckets[d][i].ok = Cardinality(OutcomesOf(d, buckets[d][i].minute, FALSE))
                    /\ buckets[d][i].bad = Cardinality(OutcomesOf(d, buckets[d][i].minute, TRUE))
              /\ \A k \in 1 .. Len(outcomes[d]) :
                    Fresh(outcomes[d][k].minute) => \E i \in 1 .. Len(buckets[d]) : buckets[d][i].minute = outcomes[d][k].minute
  BY DEF AlertsIInv, BucketsTell, BucketsCover
<1>21. \A m : Fresh(m)' <=> Fresh(m)
  BY DEF Fresh
<1>22. ASSUME NEW d \in Cmds, NEW i \in 1 .. Len(buckets'[d]), NEW b \in BOOLEAN
       PROVE  (IF b THEN buckets'[d][i].bad ELSE buckets'[d][i].ok) =
                Cardinality({k \in 1 .. Len(outcomes'[d]) : outcomes'[d][k].minute = buckets'[d][i].minute /\ outcomes'[d][k].bad = b})
  <2>1. CASE d = c
    <3>1. buckets'[d] = kept /\ outcomes'[d] = more /\ i \in 1 .. Len(kept)
      BY <1>7, <1>22, <2>1
    <3>2. is(kept[i].minute, b) = {k \in 1 .. Len(more) : more[k].minute = kept[i].minute /\ more[k].bad = b}
      BY DEF is
    <3>3. (IF b THEN kept[i].bad ELSE kept[i].ok) = Cardinality(is(kept[i].minute, b))
      <4>1. CASE b = TRUE
        BY <1>15, <3>1, <4>1
      <4>2. CASE b = FALSE
        BY <1>15, <3>1, <4>2
      <4> QED
        BY <4>1, <4>2
    <3> QED
      BY <3>1, <3>2, <3>3
  <2>2. CASE d # c
    <3>1. buckets'[d] = buckets[d] /\ outcomes'[d] = outcomes[d] /\ i \in 1 .. Len(buckets[d])
      BY <1>7, <1>22, <2>2
    <3>2. OutcomesOf(d, buckets[d][i].minute, b) = {k \in 1 .. Len(outcomes[d]) : outcomes[d][k].minute = buckets[d][i].minute /\ outcomes[d][k].bad = b}
      BY DEF OutcomesOf
    <3>3. (IF b THEN buckets[d][i].bad ELSE buckets[d][i].ok) = Cardinality(OutcomesOf(d, buckets[d][i].minute, b))
      <4>1. CASE b = TRUE
        BY <1>20, <3>1, <4>1
      <4>2. CASE b = FALSE
        BY <1>20, <3>1, <4>2
      <4> QED
        BY <4>1, <4>2
    <3> QED
      BY <3>1, <3>2, <3>3
  <2> QED
    BY <2>1, <2>2
<1>24. BucketsTell'
  <2>1. ASSUME NEW d \in Cmds, NEW i \in 1 .. Len(buckets'[d])
        PROVE  /\ buckets'[d][i].ok =
                    Cardinality({k \in 1 .. Len(outcomes'[d]) : outcomes'[d][k].minute = buckets'[d][i].minute /\ outcomes'[d][k].bad = FALSE})
               /\ buckets'[d][i].bad =
                    Cardinality({k \in 1 .. Len(outcomes'[d]) : outcomes'[d][k].minute = buckets'[d][i].minute /\ outcomes'[d][k].bad = TRUE})
    BY <1>22
  <2> QED
    BY <2>1 DEF BucketsTell, OutcomesOf
<1>25. BucketsCover'
  <2>1. ASSUME NEW d \in Cmds, NEW k \in 1 .. Len(outcomes'[d]), Fresh(outcomes'[d][k].minute)
        PROVE  \E i \in 1 .. Len(buckets'[d]) : buckets'[d][i].minute = outcomes'[d][k].minute
    <3>1. CASE d = c
      <4>1. outcomes'[d] = more /\ buckets'[d] = kept /\ k \in 1 .. Len(more) /\ Fresh(more[k].minute)
        BY <1>7, <2>1, <3>1
      <4>2. \E j \in 1 .. Len(kept) : kept[j].minute = more[k].minute
        BY <1>17, <4>1
      <4> QED
        BY <4>1, <4>2
    <3>2. CASE d # c
      <4>1. outcomes'[d] = outcomes[d] /\ buckets'[d] = buckets[d]
        BY <1>7, <3>2
      <4>2. k \in 1 .. Len(outcomes[d]) /\ Fresh(outcomes[d][k].minute)
        BY <2>1, <4>1
      <4>3. \E i \in 1 .. Len(buckets[d]) : buckets[d][i].minute = outcomes[d][k].minute
        BY <1>20, <4>2
      <4> QED
        BY <4>1, <4>3
    <3> QED
      BY <3>1, <3>2
  <2> QED
    BY <2>1, <1>21 DEF BucketsCover
<1> QED
  BY <1>18, <1>19, <1>24, <1>25 DEF AlertsIInv

LEMMA AlertsStart == ASSUME AlertsInit PROVE AlertsIInv
<1>1. \A c \in Cmds : buckets[c] = <<>> /\ outcomes[c] = <<>>
  BY DEF AlertsInit
<1>2. AlertTypes
  BY DEF AlertsInit, AlertTypes
<1>3. \A c \in Cmds : 1 .. Len(buckets[c]) = {} /\ 1 .. Len(outcomes[c]) = {}
  BY <1>1
<1> QED
  BY <1>2, <1>3 DEF AlertsIInv, InOrder, BucketsTell, BucketsCover

LEMMA AlertsStep == ASSUME AlertsIInv, [AlertsNext]_alertVars PROVE AlertsIInv'
<1>1. CASE UNCHANGED <<minute, buckets, outcomes>>
  <2>1. AlertTypes' /\ (\A c \in Cmds : InOrder(buckets[c]))'
    BY <1>1 DEF AlertsIInv, AlertTypes, InOrder
  <2>2. \A c, m, b : OutcomesOf(c, m, b)' = OutcomesOf(c, m, b)
    BY <1>1 DEF OutcomesOf
  <2>3. BucketsTell'
    BY <1>1, <2>2 DEF AlertsIInv, BucketsTell
  <2>4. BucketsCover'
    BY <1>1 DEF AlertsIInv, BucketsCover, Fresh
  <2> QED
    BY <2>1, <2>3, <2>4 DEF AlertsIInv
<1>2. CASE MinutePasses
  <2>1. minute' = minute + 1 /\ UNCHANGED <<buckets, outcomes>> /\ minute \in Nat
    BY <1>2 DEF MinutePasses, AlertsIInv, AlertTypes
  <2>2. AlertTypes' /\ BucketsTell'
    <3>1. \A c, m, b : OutcomesOf(c, m, b)' = OutcomesOf(c, m, b)
      BY <2>1 DEF OutcomesOf
    <3>2. BucketsTell'
      BY <2>1, <3>1 DEF AlertsIInv, BucketsTell
    <3> QED
      BY <2>1, <3>2 DEF AlertsIInv, AlertTypes
  <2>3. \A c \in Cmds : InOrder(buckets[c])'
    <3>1. ASSUME NEW c \in Cmds, NEW i \in 1 .. Len(buckets[c]) PROVE buckets[c][i].minute <= minute'
      <4>1. buckets[c][i] \in Bucket
        BY ElementOfSeqs DEF AlertsIInv, AlertTypes
      <4>2. buckets[c][i].minute <= minute /\ buckets[c][i].minute \in Nat
        BY <4>1 DEF AlertsIInv, InOrder, Bucket
      <4> QED
        BY <2>1, <4>2
    <3> QED
      BY <2>1, <3>1 DEF AlertsIInv, InOrder
  <2>4. BucketsCover'
    <3>1. ASSUME NEW m \in Nat, Fresh(m)' PROVE Fresh(m)
      BY <2>1, <3>1, AlertsAssumption DEF Fresh
    <3>2. \A c \in Cmds : \A k \in 1 .. Len(outcomes[c]) : outcomes[c][k].minute \in Nat
      <4>1. ASSUME NEW c \in Cmds, NEW k \in 1 .. Len(outcomes[c]) PROVE outcomes[c][k] \in [minute : Nat, bad : BOOLEAN]
        BY ElementOfSeqs DEF AlertsIInv, AlertTypes
      <4> QED
        BY <4>1
    <3>3. ASSUME NEW c \in Cmds, NEW k \in 1 .. Len(outcomes[c]), Fresh(outcomes[c][k].minute)'
          PROVE  \E i \in 1 .. Len(buckets[c]) : buckets[c][i].minute = outcomes[c][k].minute
      <4>1. Fresh(outcomes[c][k].minute)
        BY <2>1, <3>2, <3>3, AlertsAssumption DEF Fresh
      <4> QED
        BY <4>1 DEF AlertsIInv, BucketsCover
    <3> QED
      BY <2>1, <3>3 DEF BucketsCover
  <2> QED
    BY <2>2, <2>3, <2>4 DEF AlertsIInv
<1>3. ASSUME NEW c \in Cmds, NEW bad \in BOOLEAN, Record(c, bad) PROVE AlertsIInv'
  BY <1>3, RecordMoves DEF Record
<1> QED
  BY <1>1, <1>2, <1>3 DEF AlertsNext, Sweep, alertVars

\* The rate that decides on an alert is that of the outcomes of the last minutes, each
\* counted once, however buckets were trimmed and the window moved since
\* (alertEngine.js, record and getRate).
THEOREM RatesAreRight == AlertsSpec => []RateIsRight
<1>1. AlertsInit => AlertsIInv
  BY AlertsStart
<1>2. AlertsIInv /\ [AlertsNext]_alertVars => AlertsIInv'
  BY AlertsStep
<1>3. AlertsIInv => RateIsRight
  BY RatesFollow
<1> QED
  BY <1>1, <1>2, <1>3, PTL DEF AlertsSpec

=============================================================================
