-------------------------------- MODULE Mutes --------------------------------
(***************************************************************************)
(* services/muteService.js on the default SQLITE store: a list in memory,  *)
(* mirrored by the rows of the table mutes, from which it is filled at     *)
(* boot and again on every reconnect (core/worker.js, start()).            *)
(*                                                                         *)
(* The statements of the SQLITE store run in place, so that a command and  *)
(* its row, and a read of all rows and the entries made of them, are one   *)
(* step.  A tick stands for a second or more.  The LRU's limit of 50,000   *)
(* entries is left out; its ttl is that of the longest mute.               *)
(***************************************************************************)
EXTENDS Naturals

CONSTANTS
  Keys,          \* "chat|user"
  Requests,      \* the durations that .mute can ask for
  MinDuration, MaxDuration,
  Horizon        \* bound: the clock stops here

ASSUME MutesAssumption ==
  /\ Requests \subseteq Nat
  /\ MinDuration \in Nat \ {0}
  /\ MaxDuration \in Nat /\ MinDuration <= MaxDuration
  /\ Horizon \in Nat

VARIABLES
  now,
  worker,        \* "up" or "down"
  mem,           \* _store: until when, or 0
  rows,          \* the expires_at of the rows of a key that have no unmuted_at
  told,          \* history: what the last command said, 0 for "unmuted"
  failed         \* history: the keys whose last command could not write its row

vars == <<now, worker, mem, rows, told, failed>>

TypeOK ==
  /\ now \in Nat
  /\ worker \in {"up", "down"}
  /\ mem \in [Keys -> Nat] /\ \A k \in Keys : mem[k] <= now + MaxDuration
  /\ rows \in [Keys -> SUBSET Nat]
  /\ \A k \in Keys : \A r \in rows[k] : r <= now + MaxDuration
  /\ told \in [Keys -> Nat]
  /\ failed \subseteq Keys

Init ==
  /\ now = 0
  /\ worker = "up"
  /\ mem = [k \in Keys |-> 0]
  /\ rows = [k \in Keys |-> {}]
  /\ told = [k \in Keys |-> 0]
  /\ failed = {}

-----------------------------------------------------------------------------
(* The table *)

\* getActiveMutes
Active(k) == {r \in rows[k] : r > now}

\* Mutant: ORDER BY expires_at DESC.
FirstRead(R) == CHOOSE r \in R : \A s \in R : r <= s

\* The rows come in the order of the partial index on expires_at, so that the
\* entry made of the last one stays.
LastRead(R) == CHOOSE r \in R : \A s \in R : s <= r

\* Mutant: only one row is marked.
MarkOne(R) == {r \in R : r <= now \/ \E s \in R : s > r}

\* markMuteUnmuted: all rows that have not expired.
MarkUnmuted(R) == {r \in R : r <= now}

-----------------------------------------------------------------------------
(* muteService *)

Clamp(d) == IF d < MinDuration THEN MinDuration ELSE IF d > MaxDuration THEN MaxDuration ELSE d

Remember(k, ok) == failed' = IF ok THEN failed \ {k} ELSE failed \union {k}

\* .mute @user: a failure of the store is ignored.
Mute(k, d, ok) ==
  LET until == now + Clamp(d) IN
  /\ worker = "up"
  /\ mem' = [mem EXCEPT ![k] = until]
  /\ rows' = IF ok THEN [rows EXCEPT ![k] = @ \union {until}] ELSE rows
  /\ told' = [told EXCEPT ![k] = until]
  /\ Remember(k, ok)
  /\ UNCHANGED <<now, worker>>

\* .mute clear @user
Unmute(k, ok) ==
  /\ worker = "up"
  /\ mem' = [mem EXCEPT ![k] = 0]
  /\ rows' = IF ok THEN [rows EXCEPT ![k] = MarkUnmuted(@)] ELSE rows
  /\ told' = [told EXCEPT ![k] = 0]
  /\ Remember(k, ok)
  /\ UNCHANGED <<now, worker>>

\* get(): an entry that is over is deleted when somebody looks.
Forget(k) ==
  /\ worker = "up"
  /\ mem[k] # 0 /\ mem[k] <= now
  /\ mem' = [mem EXCEPT ![k] = 0]
  /\ UNCHANGED <<now, worker, rows, told, failed>>

\* hydrateFromStore() adds to m what the table has.
Hydrated(m) == [k \in Keys |-> IF Active(k) = {} THEN m[k] ELSE LastRead(Active(k))]

\* start() after a close: the entries in memory are still there.
Reconnect ==
  /\ worker = "up"
  /\ mem' = Hydrated(mem)
  /\ UNCHANGED <<now, worker, rows, told, failed>>

\* The process ends, however it does.
Down ==
  /\ worker = "up"
  /\ worker' = "down"
  /\ mem' = [k \in Keys |-> 0]
  /\ UNCHANGED <<now, rows, told, failed>>

\* A new process: start() hydrates before any message is handled.
Boot ==
  /\ worker = "down"
  /\ worker' = "up"
  /\ mem' = Hydrated(mem)
  /\ UNCHANGED <<now, rows, told, failed>>

Tick ==
  /\ now < Horizon
  /\ now' = now + 1
  /\ UNCHANGED <<worker, mem, rows, told, failed>>

-----------------------------------------------------------------------------
Next ==
  \/ \E k \in Keys, ok \in BOOLEAN : Unmute(k, ok) \/ \E d \in Requests : Mute(k, d, ok)
  \/ \E k \in Keys : Forget(k)
  \/ Reconnect \/ Down \/ Boot \/ Tick

Spec == Init /\ [][Next]_vars

-----------------------------------------------------------------------------
(* Properties *)

Muted(k) == worker = "up" /\ mem[k] > now

\* Whatever was muted and re-muted before, a user is muted for all the time the
\* last .mute told, through reconnects and restarts, if its row was written
\* (muteService.js: "survives restarts").
MutedAsLongAsTold ==
  \A k \in Keys \ failed : worker = "up" /\ told[k] > now => mem[k] >= told[k]

\* A .mute clear undoes every earlier .mute of the user, those that a later one
\* replaced too: no reconnect and no restart mutes the user again.
UnmutedWhenTold == \A k \in Keys \ failed : told[k] = 0 => ~Muted(k)

\* Of users whose last command reached the table, the mute list does at every moment
\* what that command told, whatever mutes, reconnects and restarts came before.
MutesKept == MutedAsLongAsTold /\ UnmutedWhenTold

\* muteService.js: the bot ignores commands "until the mute expires", and
\* hydrateFromStore "just rewrites the same entries".
MuteEndsWhenTold == \A k \in Keys \ failed : Muted(k) => told[k] > now

=============================================================================
