-------------------------------- MODULE Watch --------------------------------
(***************************************************************************)
(* The VirusTotal watch list: the row of a subscriber in the store, which  *)
(* commands/general/vtwatch.js and services/vtWatchService.js both read    *)
(* as a whole and write back as a whole.  The command runs in the private  *)
(* chat of its user, one at a time, but the check of the scheduler reads   *)
(* all rows, then asks VirusTotal about one target after the other, with   *)
(* every user free to add and remove meanwhile, and writes back what it    *)
(* read with the verdicts filled in.                                       *)
(*                                                                         *)
(* Store calls swallow their errors: a read that fails looks like a user   *)
(* without targets, and a write that fails is reported as done.            *)
(***************************************************************************)
EXTENDS Naturals

CONSTANTS
  Watchers,        \* users
  Targets,         \* hashes, addresses, domains, URLs
  Verdicts,        \* the numbers of engines that call one malicious
  NoVerdict,       \* lastMalCount of a target that was not checked yet
  Absent,          \* not among the targets of a row
  WatchStores,     \* a subset of {"rows", "hash"}: UPDATE on a row, or a Redis hash
  MaxWatchTrouble  \* bound on failures, crashes and changes of a verdict

ASSUME WatchAssumption ==
  /\ NoVerdict \notin Verdicts /\ Absent \notin Verdicts /\ NoVerdict # Absent
  /\ WatchStores \subseteq {"rows", "hash"}
  /\ MaxWatchTrouble \in Nat

VARIABLES
  watchStore,
  subscribed, row,      \* the table: who has a row, and its targets
  verdict,              \* what VirusTotal would answer
  cmd,                  \* the command of a user that has read and not yet written
  step, left, who,      \* the check: where it is, whom it has to visit, whom it visits
  snap, todo, mutated,  \* what it read, the targets to ask about, whether to write
  asked, gone,          \* history: what the replies said is watched, who was told to be out
  behind, spoiled,      \* history: whose row is newer than the check's, whose was overwritten
  watchTrouble

checkVars == <<step, left, who, snap, todo, mutated>>
tableVars == <<watchStore, subscribed, row>>
watchVars == <<tableVars, verdict, cmd, checkVars, asked, gone, behind, spoiled, watchTrouble>>

Rows == [Targets -> Verdicts \union {NoVerdict, Absent}]
Nothing == [t \in Targets |-> Absent]
In(r) == {t \in Targets : r[t] # Absent}

Idle == [op |-> "none"]
Commands == {Idle} \union [op : {"add", "remove"}, target : Targets, read : Rows, late : BOOLEAN]

WatchTypeOK ==
  /\ watchStore \in WatchStores
  /\ subscribed \subseteq Watchers
  /\ row \in [Watchers -> Rows]
  /\ \A u \in Watchers \ subscribed : row[u] = Nothing
  /\ verdict \in [Targets -> Verdicts]
  /\ cmd \in [Watchers -> Commands]
  /\ step \in {"idle", "visiting", "asking", "setting"}
  /\ left \subseteq Watchers /\ who \in Watchers
  /\ snap \in [Watchers -> Rows]
  /\ todo \subseteq Targets /\ mutated \in BOOLEAN
  /\ asked \in [Watchers -> SUBSET Targets]
  /\ gone \subseteq Watchers /\ behind \subseteq Watchers /\ spoiled \subseteq Watchers
  /\ watchTrouble \in Nat

WatchInit ==
  /\ watchStore \in WatchStores
  /\ subscribed = {} /\ row = [u \in Watchers |-> Nothing]
  /\ verdict \in [Targets -> Verdicts]
  /\ cmd = [u \in Watchers |-> Idle]
  /\ step = "idle" /\ left = {} /\ who \in Watchers
  /\ snap = [u \in Watchers |-> Nothing]
  /\ todo = {} /\ mutated = FALSE
  /\ asked = [u \in Watchers |-> {}]
  /\ gone = {} /\ behind = {} /\ spoiled = {}
  /\ watchTrouble = 0

WatchTrouble == watchTrouble < MaxWatchTrouble /\ watchTrouble' = watchTrouble + 1

-----------------------------------------------------------------------------
(* The command *)

\* getSubscriberMeta: the row, or nothing when the store fails.
Reads(u, op, t) ==
  /\ cmd[u] = Idle
  /\ \/ /\ cmd' = [cmd EXCEPT ![u] = [op |-> op, target |-> t, read |-> row[u], late |-> FALSE]]
        /\ UNCHANGED <<spoiled, watchTrouble>>
     \/ /\ WatchTrouble
        /\ cmd' = [cmd EXCEPT ![u] = [op |-> op, target |-> t, read |-> Nothing, late |-> FALSE]]
        /\ spoiled' = spoiled \union {u}
  /\ UNCHANGED <<tableVars, verdict, checkVars, asked, gone, behind>>

\* Nothing to add: "Already watching".
AlreadyWatching(u) ==
  /\ cmd[u].op = "add" /\ cmd[u].read[cmd[u].target] # Absent
  /\ cmd' = [cmd EXCEPT ![u] = Idle]
  /\ UNCHANGED <<tableVars, verdict, checkVars, asked, gone, behind, spoiled, watchTrouble>>

\* The write of a command, or its failure; the user is told the same.
Replies(u, targets) ==
  /\ cmd' = [cmd EXCEPT ![u] = Idle]
  /\ asked' = [asked EXCEPT ![u] = targets]
  /\ behind' = behind \union {u}
  /\ UNCHANGED <<watchStore, verdict, checkVars>>

WritesOver(u) == IF cmd[u].late THEN spoiled \union {u} ELSE spoiled

\* isSubscriber, then updateSubscriberMeta or addSubscriber
AddWrites(u) ==
  /\ cmd[u].op = "add" /\ cmd[u].read[cmd[u].target] = Absent
  /\ row' = [row EXCEPT ![u] = [cmd[u].read EXCEPT ![cmd[u].target] = NoVerdict]]
  /\ subscribed' = subscribed \union {u}
  /\ gone' = gone \ {u}
  /\ spoiled' = WritesOver(u)
  /\ Replies(u, asked[u] \union {cmd[u].target})
  /\ UNCHANGED watchTrouble

\* The last target takes the row along.
RemoveWrites(u) ==
  /\ cmd[u].op = "remove"
  /\ LET kept == [cmd[u].read EXCEPT ![cmd[u].target] = Absent] IN
       IF kept = Nothing
         THEN /\ subscribed' = subscribed \ {u}
              /\ row' = [row EXCEPT ![u] = Nothing]
              /\ gone' = gone \union {u}
         ELSE /\ row' = [row EXCEPT ![u] = kept]
              /\ UNCHANGED <<subscribed, gone>>
  /\ spoiled' = WritesOver(u)
  /\ Replies(u, asked[u] \ {cmd[u].target})
  /\ UNCHANGED watchTrouble

CommandWriteFails(u) ==
  /\ cmd[u] # Idle
  /\ WatchTrouble
  /\ Replies(u, IF cmd[u].op = "add" THEN asked[u] \union {cmd[u].target}
                                     ELSE asked[u] \ {cmd[u].target})
  /\ gone' = gone \ {u}
  /\ spoiled' = spoiled \union {u}
  /\ UNCHANGED <<subscribed, row>>

-----------------------------------------------------------------------------
(* The check *)

repliesVars == <<asked, gone>>

\* getSubscribers: all rows as they are now.
CheckStarts ==
  /\ step = "idle" /\ subscribed # {}
  /\ step' = "visiting" /\ left' = subscribed /\ snap' = row
  /\ behind' = {}
  /\ UNCHANGED <<tableVars, verdict, cmd, who, todo, mutated, repliesVars, spoiled, watchTrouble>>

Visit(u) ==
  /\ step = "visiting" /\ u \in left
  /\ step' = "asking" /\ who' = u /\ left' = left \ {u}
  /\ todo' = In(snap[u]) /\ mutated' = FALSE
  /\ UNCHANGED <<tableVars, verdict, cmd, snap, repliesVars, behind, spoiled, watchTrouble>>

\* Mutant: only a first verdict is kept.
AskOnce(t) ==
  /\ step = "asking" /\ t \in todo
  /\ todo' = todo \ {t}
  /\ snap' = [snap EXCEPT ![who][t] = IF @ = NoVerdict THEN verdict[t] ELSE @]
  /\ mutated' = (mutated \/ snap[who][t] # verdict[t])
  /\ UNCHANGED <<tableVars, verdict, cmd, step, left, who, repliesVars, behind, spoiled, watchTrouble>>

\* fetchStats, and an alert if the verdict is not the one of the snapshot.  Only
\* what is kept of it is modelled: a first verdict is kept without an alert, and
\* a changed one is kept whether or not the alert was sent.
Ask(t) ==
  /\ step = "asking" /\ t \in todo
  /\ todo' = todo \ {t}
  /\ snap' = [snap EXCEPT ![who][t] = verdict[t]]
  /\ mutated' = (mutated \/ snap[who][t] # verdict[t])
  /\ UNCHANGED <<tableVars, verdict, cmd, step, left, who, repliesVars, behind, spoiled, watchTrouble>>

AskFails(t) ==
  /\ step = "asking" /\ t \in todo
  /\ WatchTrouble
  /\ todo' = todo \ {t}
  /\ UNCHANGED <<tableVars, verdict, cmd, step, left, who, snap, mutated, repliesVars, behind, spoiled>>

NothingNew ==
  /\ step = "asking" /\ todo = {} /\ ~mutated
  /\ step' = "visiting"
  /\ UNCHANGED <<tableVars, verdict, cmd, left, who, snap, todo, mutated, repliesVars, behind,
                 spoiled, watchTrouble>>

\* A row was written by the check: a command that has read it is late, and what
\* was written since the snapshot is overwritten.
CheckWrites ==
  /\ row' = [row EXCEPT ![who] = snap[who]]
  /\ subscribed' = subscribed \union {who}
  /\ cmd' = [u \in Watchers |-> IF u = who /\ cmd[u] # Idle THEN [cmd[u] EXCEPT !.late = TRUE]
                                                           ELSE cmd[u]]
  /\ spoiled' = IF who \in behind THEN spoiled \union {who} ELSE spoiled
  /\ step' = "visiting"
  /\ UNCHANGED <<watchStore, verdict, left, who, snap, todo, mutated, repliesVars, behind, watchTrouble>>

\* Mutant: INSERT OR REPLACE.
SaveAlways ==
  /\ step = "asking" /\ todo = {} /\ mutated
  /\ watchStore = "rows"
  /\ CheckWrites

\* updateSubscriberMeta: UPDATE ... WHERE, or HGET and then HSET.
Save ==
  /\ step = "asking" /\ todo = {} /\ mutated
  /\ watchStore = "rows" /\ who \in subscribed
  /\ CheckWrites

SaveNothing ==
  /\ step = "asking" /\ todo = {} /\ mutated
  /\ who \notin subscribed
  /\ step' = "visiting"
  /\ UNCHANGED <<tableVars, verdict, cmd, left, who, snap, todo, mutated, repliesVars, behind,
                 spoiled, watchTrouble>>

SaveReads ==
  /\ step = "asking" /\ todo = {} /\ mutated
  /\ watchStore = "hash" /\ who \in subscribed
  /\ step' = "setting"
  /\ UNCHANGED <<tableVars, verdict, cmd, left, who, snap, todo, mutated, repliesVars, behind,
                 spoiled, watchTrouble>>

SaveSets == step = "setting" /\ CheckWrites

SaveFails ==
  /\ \/ step = "asking" /\ todo = {} /\ mutated
     \/ step = "setting"
  /\ WatchTrouble
  /\ step' = "visiting"
  /\ UNCHANGED <<tableVars, verdict, cmd, left, who, snap, todo, mutated, repliesVars, behind, spoiled>>

CheckGone ==
  /\ step' = "idle" /\ left' = {} /\ todo' = {} /\ mutated' = FALSE
  /\ snap' = [u \in Watchers |-> Nothing]

CheckEnds ==
  /\ step = "visiting" /\ left = {}
  /\ CheckGone
  /\ UNCHANGED <<tableVars, verdict, cmd, who, repliesVars, behind, spoiled, watchTrouble>>

-----------------------------------------------------------------------------
(* The world *)

VerdictChanges(t) ==
  /\ WatchTrouble
  /\ \E v \in Verdicts \ {verdict[t]} : verdict' = [verdict EXCEPT ![t] = v]
  /\ UNCHANGED <<tableVars, cmd, checkVars, repliesVars, behind, spoiled>>

\* A restart of the worker: the check and the commands under way are gone.
WatchCrash ==
  /\ WatchTrouble
  /\ CheckGone
  /\ cmd' = [u \in Watchers |-> Idle]
  /\ UNCHANGED <<tableVars, verdict, who, repliesVars, behind, spoiled>>

CheckStep ==
  \/ CheckStarts \/ NothingNew \/ Save \/ SaveNothing \/ SaveReads \/ SaveSets \/ CheckEnds
  \/ \E u \in Watchers : Visit(u)
  \/ \E t \in Targets : Ask(t)

CommandStep(u) == AlreadyWatching(u) \/ AddWrites(u) \/ RemoveWrites(u)

WatchNext ==
  \/ CheckStep \/ SaveFails \/ WatchCrash
  \/ \E u \in Watchers :
       \/ CommandStep(u) \/ CommandWriteFails(u)
       \/ \E t \in Targets : Reads(u, "add", t) \/ Reads(u, "remove", t)
  \/ \E t \in Targets : AskFails(t) \/ VerdictChanges(t)

\* The scheduler starts a check at every interval, and every await of one ends.
WatchFair == WF_watchVars(CheckStep)

WatchSpec == WatchInit /\ [][WatchNext]_watchVars /\ WatchFair

-----------------------------------------------------------------------------
(* Properties *)

\* What the replies of .vtwatch said is watched is what the row holds, unless a
\* read or a write of it failed or one of the two wrote over the other.
WatchedAsAsked == \A u \in Watchers \ spoiled : In(row[u]) = asked[u]

\* A user who was told to be no longer subscribed has no row, whatever check was
\* under way: an UPDATE finds none.  (With a Redis hash it may come back.)
UnsubscribedStaysOut == watchStore = "rows" => gone \intersect subscribed = {}

\* Both, on every store and through all failures and restarts.
WatchInv == WatchTypeOK /\ WatchedAsAsked /\ UnsubscribedStaysOut

\* A target that stays in a row is compared with what VirusTotal says now, again
\* and again, however the user changes the row.
VerdictsAreSeen ==
  \A u \in Watchers, t \in Targets : []<>(row[u][t] \in {Absent, verdict[t]})

\* commands/general/vtwatch.js: "Removed", "you are no longer subscribed"; on
\* every store.
RemovedStaysRemoved == \A u \in Watchers : cmd[u] = Idle => In(row[u]) \subseteq asked[u]

=============================================================================
