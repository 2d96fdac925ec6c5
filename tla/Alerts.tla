-------------------------------- MODULE Alerts --------------------------------
(***************************************************************************)
(* services/alertEngine.js, the alerts of commands: the outcomes of a      *)
(* command in buckets of one minute, and the set of active alerts, which   *)
(* is evaluated at every outcome and, for what is active, by a sweep.  The *)
(* rules of the sweep share the set but no key of it: they have a module   *)
(* of their own, AlertRules.  Time is the minute of the clock.             *)
(***************************************************************************)
EXTENDS Sequences, FiniteSums

CONSTANTS
  Cmds,              \* commands
  WindowMinutes, MinInvocations,
  RateNum, RateDen,  \* failureRateThreshold, as a fraction
  MaxMinute,         \* bound on the clock
  MaxRuns            \* bound on the outcomes of a command

ASSUME AlertsAssumption ==
  /\ WindowMinutes \in Nat \ {0} /\ MinInvocations \in Nat \ {0}
  /\ RateNum \in Nat /\ RateDen \in Nat \ {0}
  /\ MaxMinute \in Nat /\ MaxRuns \in Nat

VARIABLES
  minute,
  buckets,   \* command -> its buckets, the oldest first
  active,    \* the commands with an active alert
  outcomes,  \* history: every outcome with its minute
  told       \* history: command -> the kind of its last notice

alertVars == <<minute, buckets, active, outcomes, told>>

Bucket == [minute : Nat, ok : Nat, bad : Nat]
Outcomes == [minute : 0 .. MaxMinute, bad : BOOLEAN]

AlertsInit ==
  /\ minute = 0
  /\ buckets = [c \in Cmds |-> <<>>]
  /\ active = {}
  /\ outcomes = [c \in Cmds |-> <<>>]
  /\ told = [c \in Cmds |-> "none"]

-----------------------------------------------------------------------------
(* The window *)

Fresh(m) == m + WindowMinutes > minute

\* getRate(): the buckets of the window, added up.
Invocations(list) ==
  Total([i \in DOMAIN list |-> IF Fresh(list[i].minute) THEN list[i].ok + list[i].bad ELSE 0])
Failed(list) == Total([i \in DOMAIN list |-> IF Fresh(list[i].minute) THEN list[i].bad ELSE 0])

\* meetsMin and exceedsRt
Exceeds(list) ==
  /\ Invocations(list) >= MinInvocations
  /\ Failed(list) * RateDen >= RateNum * Invocations(list)

One(bad) == [minute |-> minute, ok |-> IF bad THEN 0 ELSE 1, bad |-> IF bad THEN 1 ELSE 0]

\* The outcome counts in the bucket of this minute, which is the last if there is one.
Counted(list, bad) ==
  LET b == list[Len(list)] IN
  IF list # <<>> /\ b.minute = minute
    THEN [list EXCEPT ![Len(list)] = [minute |-> minute, ok |-> b.ok + One(bad).ok, bad |-> b.bad + One(bad).bad]]
    ELSE Append(list, One(bad))

\* Mutant: the trim takes one minute too many.
TrimmedEarly(list) == SelectSeq(list, LAMBDA b : b.minute + WindowMinutes > minute + 1)

\* While the first bucket is outside of the window, it is dropped.
Trimmed(list) ==
  LET stale == CHOOSE n \in 0 .. Len(list) : /\ \A i \in 1 .. n : ~Fresh(list[i].minute)
                                             /\ n < Len(list) => Fresh(list[n + 1].minute)
  IN  SubSeq(list, stale + 1, Len(list))

-----------------------------------------------------------------------------
(* Evaluation and notices *)

\* _evaluate() of these commands, given all buckets, and _notify() of those that
\* come and go.
Evaluated(cs, bs) ==
  LET now == {c \in active : c \notin cs} \union {c \in cs : Exceeds(bs[c])} IN
  /\ active' = now
  /\ told' = [c \in Cmds |-> IF c \in now \ active THEN "triggered"
                             ELSE IF c \in active \ now THEN "cleared" ELSE told[c]]

Record(c, bad) ==
  /\ Len(outcomes[c]) < MaxRuns
  /\ buckets' = [buckets EXCEPT ![c] = Trimmed(Counted(@, bad))]
  /\ Evaluated({c}, buckets')
  /\ outcomes' = [outcomes EXCEPT ![c] = Append(@, [minute |-> minute, bad |-> bad])]
  /\ UNCHANGED minute

\* _sweep(), its first loop.
Sweep ==
  /\ Evaluated(active, buckets)
  /\ UNCHANGED <<minute, buckets, outcomes>>

MinutePasses ==
  /\ minute < MaxMinute /\ minute' = minute + 1
  /\ UNCHANGED <<buckets, active, outcomes, told>>

AlertsNext == Sweep \/ MinutePasses \/ \E c \in Cmds, bad \in BOOLEAN : Record(c, bad)

\* The interval of the sweep.
AlertsFair == WF_alertVars(Sweep)

AlertsSpec == AlertsInit /\ [][AlertsNext]_alertVars /\ AlertsFair

-----------------------------------------------------------------------------
(* Properties *)

Recent(c, bad) ==
  Cardinality({i \in 1 .. Len(outcomes[c]) : Fresh(outcomes[c][i].minute) /\ outcomes[c][i].bad \in bad})

\* The sums over the buckets are those of the outcomes of the last minutes, each
\* counted once, however buckets were trimmed and the window moved since.
RateIsRight ==
  \A c \in Cmds :
    /\ Invocations(buckets[c]) = Recent(c, BOOLEAN)
    /\ Failed(buckets[c]) = Recent(c, {TRUE})

\* alertEngine.js, "periodic sweep evicts expired buckets + recomputes active set":
\* a command that exceeds the rate becomes active at the latest with a sweep.
SweepRecomputes == \A c \in Cmds : []<>(Exceeds(buckets[c]) => c \in active)

=============================================================================
