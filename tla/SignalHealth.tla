---------------------------- MODULE SignalHealth ----------------------------
(***************************************************************************)
(* services/signalHealth.js: decryption failures of a sender are counted   *)
(* in a window that begins with the first of them; the third resets the    *)
(* Signal session of the sender, at most once per cooldown, whether or not *)
(* the reset succeeds.  The count is kept during the cooldown, and nothing *)
(* is counted for prekey failures, which heal by themselves.               *)
(***************************************************************************)
EXTENDS Integers

CONSTANTS
  Senders,
  Threshold, FailureWindow, RecoveryCooldown,  \* the latter two in ticks of the clock
  MaxTick,     \* bound on the clock
  MaxDecrypt   \* bound on the failures within a tick

ASSUME SignalHealthAssumption ==
  /\ Threshold \in Nat \ {0} /\ FailureWindow \in Nat /\ RecoveryCooldown \in Nat \ {0}
  /\ MaxTick \in Nat /\ MaxDecrypt \in Nat

VARIABLES
  tick,
  failures,    \* _failures: sender -> [count, first, last]
  recoveries,  \* _recoveries: sender -> the last recovery
  seen,        \* history: sender -> tick -> failures from that tick on, since the last reset
  resetAt      \* history: sender -> the tick of the last reset

healthVars == <<tick, failures, recoveries, seen, resetAt>>

None == [count |-> 0, first |-> 0, last |-> 0]
Never == -1
Ticks == 0 .. MaxTick

HealthInit ==
  /\ tick = 0
  /\ failures = [j \in Senders |-> None]
  /\ recoveries = [j \in Senders |-> Never]
  /\ seen = [j \in Senders |-> [t \in Ticks |-> 0]]
  /\ resetAt = [j \in Senders |-> Never]

-----------------------------------------------------------------------------
\* Mutant: the window begins anew with every failure.
FailureSinceLast(f) ==
  IF f = None \/ tick - f.last > FailureWindow THEN [count |-> 1, first |-> tick, last |-> tick]
                                               ELSE [f EXCEPT !.count = @ + 1, !.last = tick]

\* The failure as record() counts it.
FailureCounted(f) ==
  IF f = None \/ tick - f.first > FailureWindow THEN [count |-> 1, first |-> tick, last |-> tick]
                                                ELSE [f EXCEPT !.count = @ + 1, !.last = tick]

Due(j) ==
  /\ FailureCounted(failures[j]).count > 1
  /\ FailureCounted(failures[j]).count >= Threshold
  /\ recoveries[j] = Never \/ tick - recoveries[j] >= RecoveryCooldown

Decryptable(j) == seen[j][tick] < MaxDecrypt

\* record(), a failure of the known kind that is only counted
Fails(j) ==
  /\ Decryptable(j) /\ ~Due(j)
  /\ failures' = [failures EXCEPT ![j] = FailureCounted(@)]
  /\ seen' = [seen EXCEPT ![j] = [t \in Ticks |-> IF t <= tick THEN @[t] + 1 ELSE @[t]]]
  /\ UNCHANGED <<tick, recoveries, resetAt>>

\* _triggerRecovery(): the maps change before deleteSession is awaited, and stay so
\* if it fails.
Recovers(j) ==
  /\ Decryptable(j) /\ Due(j)
  /\ recoveries' = [recoveries EXCEPT ![j] = tick]
  /\ failures' = [failures EXCEPT ![j] = None]
  /\ seen' = [seen EXCEPT ![j] = [t \in Ticks |-> 0]]
  /\ resetAt' = [resetAt EXCEPT ![j] = tick]
  /\ UNCHANGED tick

\* The interval that bounds the maps.
Prune ==
  /\ failures' = [j \in Senders |-> IF tick - failures[j].last > FailureWindow THEN None ELSE failures[j]]
  /\ recoveries' = [j \in Senders |-> IF recoveries[j] # Never /\ tick - recoveries[j] > RecoveryCooldown
                                        THEN Never ELSE recoveries[j]]
  /\ UNCHANGED <<tick, seen, resetAt>>

TickPasses ==
  /\ tick < MaxTick /\ tick' = tick + 1
  /\ UNCHANGED <<failures, recoveries, seen, resetAt>>

HealthNext == Prune \/ TickPasses \/ \E j \in Senders : Fails(j) \/ Recovers(j)

HealthSpec == HealthInit /\ [][HealthNext]_healthVars

-----------------------------------------------------------------------------
(* Properties *)

\* The failures of a sender in the window that ends now, since its last reset.
InWindow(j) == seen[j][IF tick > FailureWindow THEN tick - FailureWindow ELSE 0]

\* A healthy session is not reset: there were failures enough within a window, all
\* of them since the last reset, and the resets are a cooldown apart, however the
\* maps were pruned meanwhile.
ResetsAreDue ==
  [][\A j \in Senders : resetAt'[j] # resetAt[j] =>
       /\ InWindow(j) + 1 >= Threshold
       /\ resetAt[j] = Never \/ tick - resetAt[j] >= RecoveryCooldown]_healthVars

\* signalHealth.js, "When a JID hits FAILURE_THRESHOLD within FAILURE_WINDOW_MS,
\* invoking sock.signalRepository.deleteSession(jid)", but for the cooldown.
ThresholdResets ==
  \A j \in Senders : InWindow(j) >= Threshold =>
    /\ resetAt[j] # Never
    /\ resetAt[j] + RecoveryCooldown <= tick => seen[j][0] > seen[j][resetAt[j] + RecoveryCooldown]

=============================================================================
