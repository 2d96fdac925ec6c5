--------------------------- MODULE Records_proofs ---------------------------
(***************************************************************************)
(* Proofs about what is told of the rows of four tables, which share no    *)
(* state: the mutes, the watch lists, the messages and the XP.             *)
(***************************************************************************)
EXTENDS Mutes, Watch, MessageRows, Leveling, WellFoundedInduction, SequenceTheorems,
        FiniteSetTheorems, TLAPS

-----------------------------------------------------------------------------
(* The mute list: both of its promises rest on what the table remembers of the *)
(* last command (Recorded): the row of a .mute that still holds is active, and *)
(* after a .mute clear no row of the user is.                                  *)

Recorded ==
  \A k \in Keys \ failed :
    /\ told[k] > now => told[k] \in rows[k]
    /\ told[k] = 0 => \A r \in rows[k] : r <= now

Unmuted == \A k \in Keys \ failed : told[k] = 0 => mem[k] <= now

MuteInv == TypeOK /\ Recorded /\ Unmuted /\ MutedAsLongAsTold

\* A non-empty bounded set of times has a last one.
LEMMA LastReadIsLast ==
  ASSUME NEW R \in SUBSET Nat, R # {}, NEW b \in Nat, \A r \in R : r <= b
  PROVE  LastRead(R) \in R /\ \A s \in R : s <= LastRead(R)
<1> DEFINE T == {b - r : r \in R}
<1>1. T \in SUBSET Nat OBVIOUS
<1>2. T # {} OBVIOUS
<1> DEFINE Less == {ss \in Nat \X Nat : ss[1] < ss[2]}
<1>3. PICK x \in T : \A y \in T : x <= y
  <2>1. IsWellFoundedOn(Less, Nat) BY NatLessThanWellFounded DEF OpToRel
  <2>2. \A x, y \in Nat : y < x => <<y, x>> \in Less OBVIOUS
  <2> HIDE DEF T, Less
  <2>3. PICK x \in T : \A y \in T : ~ (<<y, x>> \in Less) BY <1>1, <1>2, <2>1, WFMin
  <2>4. ASSUME NEW y \in T PROVE x <= y
    <3>1. x \in Nat /\ y \in Nat BY <1>1
    <3>2. ~ (y < x) BY <2>2, <2>3, <3>1
    <3> QED BY <3>1, <3>2
  <2> QED BY <2>4
<1>4. PICK r \in R : x = b - r OBVIOUS
<1>5. \A s \in R : b - r <= b - s BY <1>3, <1>4
<1>6. \A s \in R : s <= r BY <1>5
<1> QED BY <1>6 DEF LastRead

\* Hydration gives every user with an active row the expiry of the last one.
LEMMA HydratedType ==
  ASSUME TypeOK
  PROVE  /\ \A k \in Keys : Active(k) # {} => 
              LastRead(Active(k)) \in Active(k) /\ \A r \in Active(k) : r <= LastRead(Active(k))
         /\ Hydrated(mem) \in [Keys -> Nat]
         /\ \A k \in Keys : Hydrated(mem)[k] <= now + MaxDuration
<1>1. \A k \in Keys : Active(k) # {} =>
        LastRead(Active(k)) \in Active(k) /\ \A r \in Active(k) : r <= LastRead(Active(k))
  <2> SUFFICES ASSUME NEW k \in Keys, Active(k) # {}
               PROVE LastRead(Active(k)) \in Active(k) /\ \A r \in Active(k) : r <= LastRead(Active(k))
    OBVIOUS
  <2>1. Active(k) \in SUBSET Nat /\ now + MaxDuration \in Nat
        /\ \A r \in Active(k) : r <= now + MaxDuration
    BY MutesAssumption DEF Active, TypeOK
  <2> QED BY <2>1, LastReadIsLast
<1>2. \A k \in Keys : Active(k) \subseteq Nat /\ \A r \in Active(k) : r <= now + MaxDuration
  BY DEF Active, TypeOK
<1> QED BY <1>1, <1>2 DEF Hydrated, TypeOK

LEMMA ClampType ==
  ASSUME NEW d \in Requests
  PROVE  Clamp(d) \in Nat /\ 0 < Clamp(d) /\ Clamp(d) <= MaxDuration
BY MutesAssumption DEF Clamp

-----------------------------------------------------------------------------
LEMMA MuteInit == Init => MuteInv
BY MutesAssumption DEF Init, MuteInv, TypeOK, Recorded, Unmuted, MutedAsLongAsTold

LEMMA MuteStep ==
  ASSUME MuteInv, NEW k \in Keys, NEW d \in Requests, NEW ok \in BOOLEAN, Mute(k, d, ok)
  PROVE  MuteInv'
<1> DEFINE until == now + Clamp(d)
<1>1. now \in Nat /\ Clamp(d) \in Nat /\ MaxDuration \in Nat
  BY MutesAssumption, ClampType DEF MuteInv, TypeOK
<1>2. until \in Nat /\ now < until /\ until <= now + MaxDuration
  BY <1>1, ClampType
<1>3. /\ mem' = [mem EXCEPT ![k] = until] /\ told' = [told EXCEPT ![k] = until]
      /\ now' = now /\ worker' = worker
      /\ failed' = IF ok THEN failed \ {k} ELSE failed \union {k}
      /\ rows' = IF ok THEN [rows EXCEPT ![k] = @ \union {until}] ELSE rows
  BY DEF Mute, Remember
<1> HIDE DEF until
<1>4. TypeOK' BY <1>1, <1>2, <1>3 DEF MuteInv, TypeOK
<1>5. \A j \in Keys : j # k => mem'[j] = mem[j] /\ told'[j] = told[j] /\ rows'[j] = rows[j]
  BY <1>3 DEF MuteInv, TypeOK
<1>6. \A j \in Keys \ failed' : j # k => j \in Keys \ failed BY <1>3
<1>7. mem'[k] = until /\ told'[k] = until /\ (k \notin failed' => until \in rows'[k])
  BY <1>3 DEF MuteInv, TypeOK
<1>8. Recorded' BY <1>1, <1>2, <1>3, <1>5, <1>6, <1>7 DEF MuteInv, Recorded
<1>9. Unmuted' BY <1>1, <1>2, <1>3, <1>5, <1>6, <1>7 DEF MuteInv, Unmuted
<1>10. MutedAsLongAsTold' BY <1>2, <1>3, <1>5, <1>6, <1>7 DEF MuteInv, MutedAsLongAsTold
<1> QED BY <1>4, <1>8, <1>9, <1>10 DEF MuteInv

LEMMA UnmuteStep ==
  ASSUME MuteInv, NEW k \in Keys, NEW ok \in BOOLEAN, Unmute(k, ok)
  PROVE  MuteInv'
<1>1. now \in Nat /\ MaxDuration \in Nat
  BY MutesAssumption DEF MuteInv, TypeOK
<1>3. /\ mem' = [mem EXCEPT ![k] = 0] /\ told' = [told EXCEPT ![k] = 0]
      /\ now' = now /\ worker' = worker
      /\ failed' = IF ok THEN failed \ {k} ELSE failed \union {k}
      /\ rows' = IF ok THEN [rows EXCEPT ![k] = MarkUnmuted(@)] ELSE rows
  BY DEF Unmute, Remember
<1>4. TypeOK' BY <1>1, <1>3 DEF MuteInv, TypeOK, MarkUnmuted
<1>5. \A j \in Keys : j # k => mem'[j] = mem[j] /\ told'[j] = told[j] /\ rows'[j] = rows[j]
  BY <1>3 DEF MuteInv, TypeOK
<1>6. \A j \in Keys \ failed' : j # k => j \in Keys \ failed BY <1>3
<1>7. mem'[k] = 0 /\ told'[k] = 0 /\ (k \notin failed' => \A r \in rows'[k] : r <= now)
  BY <1>3 DEF MuteInv, TypeOK, MarkUnmuted
<1>8. Recorded' BY <1>1, <1>3, <1>5, <1>6, <1>7 DEF MuteInv, Recorded
<1>9. Unmuted' BY <1>1, <1>3, <1>5, <1>6, <1>7 DEF MuteInv, Unmuted
<1>10. MutedAsLongAsTold' BY <1>1, <1>3, <1>5, <1>6, <1>7 DEF MuteInv, MutedAsLongAsTold
<1> QED BY <1>4, <1>8, <1>9, <1>10 DEF MuteInv

\* A reconnect, or the start of a process, whose memory is mem.
LEMMA HydrateStep ==
  ASSUME TypeOK, Recorded, Unmuted, mem' = Hydrated(mem), worker' = "up",
         UNCHANGED <<now, rows, told, failed>>,
         worker = "up" => MutedAsLongAsTold
  PROVE  MuteInv'
<1>1. TypeOK' BY HydratedType DEF TypeOK
<1>2. Recorded' BY DEF Recorded
<1>3. Unmuted'
  <2> SUFFICES ASSUME NEW k \in Keys \ failed, told[k] = 0 PROVE mem'[k] <= now
    BY DEF Unmuted
  <2>1. Active(k) = {} BY DEF Recorded, Active, TypeOK
  <2> QED BY <2>1 DEF Unmuted, Hydrated
<1>4. MutedAsLongAsTold'
  <2> SUFFICES ASSUME NEW k \in Keys \ failed, told[k] > now PROVE mem'[k] >= told[k]
    BY DEF MutedAsLongAsTold
  <2>1. told[k] \in Active(k) BY DEF Recorded, Active
  <2>2. LastRead(Active(k)) \in Nat /\ told[k] \in Nat /\ told[k] <= LastRead(Active(k))
    BY <2>1, HydratedType DEF Active, TypeOK
  <2>3. mem'[k] = LastRead(Active(k)) BY <2>1 DEF Hydrated
  <2> QED BY <2>2, <2>3
<1> QED BY <1>1, <1>2, <1>3, <1>4 DEF MuteInv

LEMMA MutesStep == MuteInv /\ [Next]_vars => MuteInv'
<1> SUFFICES ASSUME MuteInv, [Next]_vars PROVE MuteInv' OBVIOUS
<1> USE MutesAssumption
<1>1. ASSUME NEW k \in Keys, NEW ok \in BOOLEAN, Unmute(k, ok) PROVE MuteInv'
  BY <1>1, UnmuteStep
<1>2. ASSUME NEW k \in Keys, NEW d \in Requests, NEW ok \in BOOLEAN, Mute(k, d, ok) PROVE MuteInv'
  BY <1>2, MuteStep
<1>3. ASSUME NEW k \in Keys, Forget(k) PROVE MuteInv'
  BY <1>3 DEF Forget, MuteInv, TypeOK, Recorded, Unmuted, MutedAsLongAsTold
<1>4. ASSUME Reconnect \/ Boot PROVE MuteInv'
  BY <1>4, HydrateStep DEF Reconnect, Boot, MuteInv
<1>5. CASE Down
  BY <1>5 DEF Down, MuteInv, TypeOK, Recorded, Unmuted, MutedAsLongAsTold
<1>6. CASE Tick
  BY <1>6 DEF Tick, MuteInv, TypeOK, Recorded, Unmuted, MutedAsLongAsTold
<1>7. CASE UNCHANGED vars
  BY <1>7 DEF vars, MuteInv, TypeOK, Recorded, Unmuted, MutedAsLongAsTold
<1> QED BY <1>1, <1>2, <1>3, <1>4, <1>5, <1>6, <1>7 DEF Next

\* Nobody who was muted gets a command through before the time told, and after
\* .mute clear nothing brings a mute back, whatever earlier mutes, reconnects and
\* restarts there were (muteService.js, SQLITE).
THEOREM MutesLast == Spec => []MutesKept
<1>1. MuteInv => MutesKept
  <2>1. MuteInv => MutedAsLongAsTold BY DEF MuteInv
  <2>2. MuteInv => UnmutedWhenTold BY DEF MuteInv, TypeOK, Unmuted, UnmutedWhenTold, Muted
  <2> QED BY <2>1, <2>2 DEF MutesKept
<1> QED BY <1>1, MuteInit, MutesStep, PTL DEF Spec

-----------------------------------------------------------------------------
(* The watch list *)

\* A command under way knows what its user is told is watched, until the check
\* writes the row; and what it read of a row, it read of a subscriber.
CommandsKnow ==
  \A u \in Watchers : cmd[u] # Idle =>
    /\ cmd[u].read # Nothing => u \in subscribed
    /\ u \notin spoiled /\ ~cmd[u].late => In(cmd[u].read) = asked[u]

\* So does the check, of every row that no command has written since.
CheckKnows ==
  /\ step # "idle" => \A u \in Watchers \ (spoiled \union behind) : In(snap[u]) = asked[u]
  /\ step = "asking" => todo \subseteq In(snap[who])
  /\ step = "setting" => watchStore = "hash"

WatchIInv == WatchInv /\ CommandsKnow /\ CheckKnows

\* A target put into a row, or taken out of it.
LEMMA RowUpdates ==
  ASSUME NEW r \in Rows, NEW t \in Targets
  PROVE  /\ \A v \in Verdicts \union {NoVerdict} :
              [r EXCEPT ![t] = v] \in Rows /\ In([r EXCEPT ![t] = v]) = In(r) \union {t}
         /\ [r EXCEPT ![t] = Absent] \in Rows /\ In([r EXCEPT ![t] = Absent]) = In(r) \ {t}
         /\ Nothing \in Rows /\ In(Nothing) = {}
         /\ r = Nothing => [r EXCEPT ![t] = Absent] = Nothing
<1>1. ASSUME NEW v \in Verdicts \union {NoVerdict}
      PROVE  [r EXCEPT ![t] = v] \in Rows /\ In([r EXCEPT ![t] = v]) = In(r) \union {t}
  BY <1>1, WatchAssumption DEF Rows, In
<1>2. [r EXCEPT ![t] = Absent] \in Rows /\ In([r EXCEPT ![t] = Absent]) = In(r) \ {t}
  BY DEF Rows, In
<1>3. Nothing \in Rows /\ In(Nothing) = {} BY DEF Rows, In, Nothing
<1>4. r = Nothing => [r EXCEPT ![t] = Absent] = Nothing BY DEF Nothing
<1> QED BY <1>1, <1>2, <1>3, <1>4

LEMMA NothingIsARow == Nothing \in Rows /\ In(Nothing) = {}
BY DEF Rows, In, Nothing

LEMMA WatchStart == ASSUME WatchInit PROVE WatchIInv
<1>1. WatchTypeOK BY NothingIsARow DEF WatchInit, WatchTypeOK, Commands
<1>2. WatchedAsAsked /\ UnsubscribedStaysOut
  BY NothingIsARow DEF WatchInit, WatchedAsAsked, UnsubscribedStaysOut
<1>3. CommandsKnow /\ CheckKnows BY DEF WatchInit, CommandsKnow, CheckKnows
<1> QED BY <1>1, <1>2, <1>3 DEF WatchIInv, WatchInv

\* What a command knows of its user's row.
LEMMA UnderWay ==
  ASSUME WatchTypeOK, NEW u \in Watchers, cmd[u].op \in {"add", "remove"}
  PROVE  /\ cmd[u] # Idle /\ cmd[u] \in [op : {"add", "remove"}, target : Targets, read : Rows, late : BOOLEAN]
         /\ cmd[u].target \in Targets /\ cmd[u].read \in Rows
BY DEF WatchTypeOK, Commands, Idle

\* A command reads, or has nothing to add.
LEMMA ReadsKeep ==
  ASSUME WatchIInv, NEW u \in Watchers, NEW op \in {"add", "remove"}, NEW t \in Targets, Reads(u, op, t)
  PROVE  WatchIInv'
<1> USE DEF WatchIInv, WatchInv, tableVars, checkVars
<1>1. PICK r \in Rows :
        /\ cmd' = [cmd EXCEPT ![u] = [op |-> op, target |-> t, read |-> r, late |-> FALSE]]
        /\ \/ r = row[u] /\ UNCHANGED <<spoiled, watchTrouble>>
           \/ r = Nothing /\ spoiled' = spoiled \union {u} /\ watchTrouble' = watchTrouble + 1
  BY NothingIsARow DEF Reads, WatchTrouble, WatchTypeOK
<1>2. UNCHANGED <<tableVars, verdict, checkVars, asked, gone, behind>> BY DEF Reads
<1>3. [op |-> op, target |-> t, read |-> r, late |-> FALSE] \in Commands BY DEF Commands
<1>4. cmd' \in [Watchers -> Commands] BY <1>1, <1>3 DEF WatchTypeOK
<1>5. spoiled' \subseteq Watchers /\ watchTrouble' \in Nat BY <1>1 DEF WatchTypeOK
<1>6. WatchTypeOK' BY <1>2, <1>4, <1>5 DEF WatchTypeOK
<1>7. WatchedAsAsked' /\ UnsubscribedStaysOut' BY <1>1, <1>2 DEF WatchedAsAsked, UnsubscribedStaysOut
<1>8. CommandsKnow'
  <2> SUFFICES ASSUME NEW w \in Watchers, cmd'[w] # Idle
               PROVE  /\ cmd'[w].read # Nothing => w \in subscribed
                      /\ w \notin spoiled' /\ ~cmd'[w].late => In(cmd'[w].read) = asked[w]
    BY <1>2 DEF CommandsKnow
  <2>1. CASE w = u
    <3>1. cmd'[w].read = r BY <1>1, <2>1 DEF WatchTypeOK
    <3>2. row[u] # Nothing => u \in subscribed BY DEF WatchTypeOK
    <3>3. u \notin spoiled' => r = row[u] /\ u \notin spoiled BY <1>1
    <3> QED BY <1>1, <2>1, <3>1, <3>2, <3>3 DEF WatchedAsAsked
  <2>2. CASE w # u
    <3>1. cmd'[w] = cmd[w] /\ (w \notin spoiled' => w \notin spoiled) BY <1>1, <2>2 DEF WatchTypeOK
    <3> QED BY <3>1 DEF CommandsKnow
  <2> QED BY <2>1, <2>2
<1>9. CheckKnows' BY <1>1, <1>2 DEF CheckKnows
<1> QED BY <1>6, <1>7, <1>8, <1>9

\* A command replies: its user is told what is watched, whatever became of the row.
LEMMA RepliesKeep ==
  ASSUME WatchIInv, NEW u \in Watchers, cmd[u] # Idle, NEW targets \in SUBSET Targets, Replies(u, targets),
         row' \in [Watchers -> Rows], subscribed' \subseteq Watchers,
         \A w \in Watchers \ {u} : row'[w] = row[w] /\ (w \in subscribed' <=> w \in subscribed),
         u \notin subscribed' => row'[u] = Nothing,
         gone' \subseteq gone \union {u}, watchStore = "rows" /\ u \in gone' => u \notin subscribed',
         spoiled \subseteq spoiled', spoiled' \subseteq spoiled \union {u},
         u \notin spoiled' => In(row'[u]) = targets,
         watchTrouble' \in Nat
  PROVE  WatchIInv'
<1> USE DEF WatchIInv, WatchInv
<1>1. /\ cmd' = [cmd EXCEPT ![u] = Idle] /\ asked' = [asked EXCEPT ![u] = targets]
      /\ behind' = behind \union {u}
      /\ UNCHANGED <<watchStore, verdict, step, left, who, snap, todo, mutated>>
  BY DEF Replies, checkVars
<1>2. WatchTypeOK'
  <2>1. \A w \in Watchers \ subscribed' : row'[w] = Nothing BY DEF WatchTypeOK
  <2>2. cmd' \in [Watchers -> Commands] BY <1>1 DEF WatchTypeOK, Commands
  <2>3. asked' \in [Watchers -> SUBSET Targets] BY <1>1 DEF WatchTypeOK
  <2>4. gone' \subseteq Watchers /\ behind' \subseteq Watchers /\ spoiled' \subseteq Watchers
    BY <1>1 DEF WatchTypeOK
  <2> QED BY <1>1, <2>1, <2>2, <2>3, <2>4 DEF WatchTypeOK
<1>3. WatchedAsAsked' BY <1>1 DEF WatchedAsAsked, WatchTypeOK
<1>4. UnsubscribedStaysOut' BY <1>1 DEF UnsubscribedStaysOut, WatchTypeOK
<1>5. CommandsKnow'
  <2> SUFFICES ASSUME NEW w \in Watchers, cmd'[w] # Idle
               PROVE  /\ cmd'[w].read # Nothing => w \in subscribed'
                      /\ w \notin spoiled' /\ ~cmd'[w].late => In(cmd'[w].read) = asked'[w]
    BY DEF CommandsKnow
  <2>1. w # u BY <1>1 DEF WatchTypeOK
  <2>2. cmd'[w] = cmd[w] /\ asked'[w] = asked[w] /\ (w \notin spoiled' => w \notin spoiled)
    BY <1>1, <2>1 DEF WatchTypeOK
  <2> QED BY <2>1, <2>2 DEF CommandsKnow
<1>6. CheckKnows' BY <1>1 DEF CheckKnows, WatchTypeOK
<1> QED BY <1>2, <1>3, <1>4, <1>5, <1>6

LEMMA AddKeeps == ASSUME WatchIInv, NEW u \in Watchers, AddWrites(u) PROVE WatchIInv'
<1> DEFINE r == cmd[u].read
           t == cmd[u].target
           new == [r EXCEPT ![t] = NoVerdict]
<1> USE DEF WatchIInv, WatchInv
<1>1. cmd[u] # Idle /\ t \in Targets /\ r \in Rows BY UnderWay DEF AddWrites
<1>2. new \in Rows /\ In(new) = In(r) \union {t} BY <1>1, RowUpdates
<1>3. /\ row' = [row EXCEPT ![u] = new] /\ subscribed' = subscribed \union {u} /\ gone' = gone \ {u}
      /\ spoiled' = WritesOver(u) /\ Replies(u, asked[u] \union {t}) /\ watchTrouble' = watchTrouble
  BY DEF AddWrites
<1>4. u \notin spoiled' => In(row'[u]) = asked[u] \union {t}
  BY <1>1, <1>2, <1>3 DEF CommandsKnow, WritesOver, WatchTypeOK
<1>5. row' \in [Watchers -> Rows] /\ subscribed' \subseteq Watchers BY <1>2, <1>3 DEF WatchTypeOK
<1>6. \A w \in Watchers \ {u} : row'[w] = row[w] /\ (w \in subscribed' <=> w \in subscribed)
  BY <1>3 DEF WatchTypeOK
<1>7. asked[u] \union {t} \in SUBSET Targets /\ watchTrouble' \in Nat BY <1>1, <1>3 DEF WatchTypeOK
<1>8. spoiled \subseteq spoiled' /\ spoiled' \subseteq spoiled \union {u} BY <1>3 DEF WritesOver
<1>9. gone' \subseteq gone \union {u} /\ u \notin gone' /\ u \in subscribed' BY <1>3
<1> HIDE DEF WatchIInv, WatchInv, r, t, new
<1> QED BY <1>1, <1>3, <1>4, <1>5, <1>6, <1>7, <1>8, <1>9, RepliesKeep

LEMMA RemoveKeeps == ASSUME WatchIInv, NEW u \in Watchers, RemoveWrites(u) PROVE WatchIInv'
<1> DEFINE r == cmd[u].read
           t == cmd[u].target
           kept == [r EXCEPT ![t] = Absent]
<1> USE DEF WatchIInv, WatchInv
<1>1. cmd[u] # Idle /\ t \in Targets /\ r \in Rows BY UnderWay DEF RemoveWrites
<1>2. kept \in Rows /\ In(kept) = In(r) \ {t} /\ (r = Nothing => kept = Nothing) BY <1>1, RowUpdates
<1>3. /\ spoiled' = WritesOver(u) /\ Replies(u, asked[u] \ {t}) /\ watchTrouble' = watchTrouble
      /\ row' = [row EXCEPT ![u] = kept]
      /\ IF kept = Nothing THEN subscribed' = subscribed \ {u} /\ gone' = gone \union {u}
                           ELSE subscribed' = subscribed /\ gone' = gone
  BY DEF RemoveWrites
<1>4. u \notin spoiled' => In(row'[u]) = asked[u] \ {t}
  BY <1>1, <1>2, <1>3 DEF CommandsKnow, WritesOver, WatchTypeOK
<1>5. row' \in [Watchers -> Rows] /\ subscribed' \subseteq Watchers BY <1>2, <1>3 DEF WatchTypeOK
<1>6. \A w \in Watchers \ {u} : row'[w] = row[w] /\ (w \in subscribed' <=> w \in subscribed)
  BY <1>3 DEF WatchTypeOK
<1>7. asked[u] \ {t} \in SUBSET Targets /\ watchTrouble' \in Nat BY <1>1, <1>3 DEF WatchTypeOK
<1>8. spoiled \subseteq spoiled' /\ spoiled' \subseteq spoiled \union {u} BY <1>3 DEF WritesOver
<1>9. u \notin subscribed' => row'[u] = Nothing
  <2>1. kept # Nothing => u \in subscribed BY <1>1, <1>2 DEF CommandsKnow
  <2> QED BY <1>3, <2>1 DEF WatchTypeOK
<1>10. gone' \subseteq gone \union {u} /\ (watchStore = "rows" /\ u \in gone' => u \notin subscribed')
  BY <1>3 DEF UnsubscribedStaysOut
<1> HIDE DEF WatchIInv, WatchInv, r, t, kept
<1> QED BY <1>1, <1>3, <1>4, <1>5, <1>6, <1>7, <1>8, <1>9, <1>10, RepliesKeep

LEMMA FailedWriteKeeps == ASSUME WatchIInv, NEW u \in Watchers, CommandWriteFails(u) PROVE WatchIInv'
<1> DEFINE targets == IF cmd[u].op = "add" THEN asked[u] \union {cmd[u].target}
                                           ELSE asked[u] \ {cmd[u].target}
<1> USE DEF WatchIInv, WatchInv
<1>1. /\ cmd[u] # Idle /\ Replies(u, targets) /\ watchTrouble' = watchTrouble + 1
      /\ gone' = gone \ {u} /\ spoiled' = spoiled \union {u} /\ UNCHANGED <<subscribed, row>>
  BY DEF CommandWriteFails, WatchTrouble
<1>2. targets \in SUBSET Targets BY <1>1 DEF WatchTypeOK, Commands
<1>3. /\ row \in [Watchers -> Rows] /\ subscribed \subseteq Watchers /\ watchTrouble + 1 \in Nat
      /\ u \notin subscribed => row[u] = Nothing
  BY DEF WatchTypeOK
<1>4. gone' \subseteq gone \union {u} /\ u \notin gone' BY <1>1
<1> HIDE DEF WatchIInv, WatchInv, targets
<1> QED BY <1>1, <1>2, <1>3, <1>4, RepliesKeep

\* The check reads all rows.
LEMMA StartKeeps == ASSUME WatchIInv, CheckStarts PROVE WatchIInv'
<1> USE DEF WatchIInv, WatchInv
<1>1. /\ step' = "visiting" /\ left' = subscribed /\ snap' = row /\ behind' = {}
      /\ UNCHANGED <<tableVars, verdict, cmd, who, todo, mutated, repliesVars, spoiled, watchTrouble>>
  BY DEF CheckStarts
<1>2. WatchTypeOK' BY <1>1 DEF WatchTypeOK, tableVars, repliesVars
<1>3. WatchedAsAsked' /\ UnsubscribedStaysOut'
  BY <1>1 DEF WatchedAsAsked, UnsubscribedStaysOut, tableVars, repliesVars
<1>4. CommandsKnow' BY <1>1 DEF CommandsKnow, tableVars, repliesVars
<1>5. CheckKnows' BY <1>1 DEF CheckKnows, WatchedAsAsked, tableVars, repliesVars
<1> QED BY <1>2, <1>3, <1>4, <1>5

\* The verdict of a target that is watched keeps it watched.
LEMMA AskKeeps == ASSUME WatchIInv, NEW t \in Targets, Ask(t) PROVE WatchIInv'
<1> DEFINE new == [snap[who] EXCEPT ![t] = verdict[t]]
<1> USE DEF WatchIInv, WatchInv, tableVars, repliesVars
<1>1. /\ step = "asking" /\ t \in todo /\ todo' = todo \ {t} /\ mutated' \in BOOLEAN
      /\ snap' = [snap EXCEPT ![who] = new]
      /\ UNCHANGED <<watchStore, subscribed, row, verdict, cmd, step, left, who, asked, gone,
                     behind, spoiled, watchTrouble>>
  BY DEF Ask
<1>2. new \in Rows /\ In(new) = In(snap[who])
  <2>1. snap[who] \in Rows /\ verdict[t] \in Verdicts /\ t \in In(snap[who])
    BY <1>1 DEF WatchTypeOK, CheckKnows
  <2>2. new \in Rows /\ In(new) = In(snap[who]) \union {t} BY <2>1, RowUpdates
  <2> QED BY <2>1, <2>2
<1> HIDE DEF new
<1>3. snap' \in [Watchers -> Rows] /\ \A w \in Watchers : In(snap'[w]) = In(snap[w])
  BY <1>1, <1>2 DEF WatchTypeOK
<1>4. WatchTypeOK' BY <1>1, <1>3 DEF WatchTypeOK
<1>5. WatchedAsAsked' /\ UnsubscribedStaysOut' BY <1>1 DEF WatchedAsAsked, UnsubscribedStaysOut
<1>6. CommandsKnow' BY <1>1 DEF CommandsKnow
<1>7. CheckKnows' BY <1>1, <1>3 DEF CheckKnows, WatchTypeOK
<1> QED BY <1>4, <1>5, <1>6, <1>7

\* The check writes a row, which an UPDATE does only where there is one.
LEMMA CheckWritesKeep ==
  ASSUME WatchIInv, step # "idle", CheckWrites, watchStore = "rows" => who \in subscribed
  PROVE  WatchIInv'
<1> USE DEF WatchIInv, WatchInv
<1>1. /\ row' = [row EXCEPT ![who] = snap[who]] /\ subscribed' = subscribed \union {who}
      /\ cmd' = [u \in Watchers |-> IF u = who /\ cmd[u] # Idle THEN [cmd[u] EXCEPT !.late = TRUE]
                                                               ELSE cmd[u]]
      /\ spoiled' = IF who \in behind THEN spoiled \union {who} ELSE spoiled
      /\ step' = "visiting"
      /\ UNCHANGED <<watchStore, verdict, left, who, snap, todo, mutated, asked, gone, behind, watchTrouble>>
  BY DEF CheckWrites, repliesVars
<1>2. who \in Watchers BY DEF WatchTypeOK
<1>3. ASSUME NEW u \in Watchers, cmd[u] # Idle
      PROVE  /\ [cmd[u] EXCEPT !.late = TRUE] \in Commands /\ [cmd[u] EXCEPT !.late = TRUE].late
             /\ [cmd[u] EXCEPT !.late = TRUE].read = cmd[u].read
  <2>1. cmd[u] \in [op : {"add", "remove"}, target : Targets, read : Rows, late : BOOLEAN]
    BY <1>3 DEF WatchTypeOK, Commands
  <2> QED BY <2>1 DEF Commands
<1>4. WatchTypeOK'
  <2>1. cmd' \in [Watchers -> Commands] BY <1>1, <1>3 DEF WatchTypeOK
  <2>2. row' \in [Watchers -> Rows] /\ \A u \in Watchers \ subscribed' : row'[u] = Nothing
    BY <1>1, <1>2 DEF WatchTypeOK
  <2>3. subscribed' \subseteq Watchers /\ spoiled' \subseteq Watchers BY <1>1, <1>2 DEF WatchTypeOK
  <2> QED BY <1>1, <2>1, <2>2, <2>3 DEF WatchTypeOK
<1>5. WatchedAsAsked' BY <1>1, <1>2 DEF WatchedAsAsked, CheckKnows, WatchTypeOK
<1>6. UnsubscribedStaysOut' BY <1>1 DEF UnsubscribedStaysOut
<1>7. CommandsKnow'
  <2> SUFFICES ASSUME NEW u \in Watchers, cmd'[u] # Idle
               PROVE  /\ cmd'[u].read # Nothing => u \in subscribed'
                      /\ u \notin spoiled' /\ ~cmd'[u].late => In(cmd'[u].read) = asked[u]
    BY <1>1 DEF CommandsKnow
  <2>1. CASE u = who /\ cmd[u] # Idle
    <3>1. cmd'[u].late BY <1>1, <1>3, <2>1
    <3> QED BY <1>1, <2>1, <3>1
  <2>2. CASE ~(u = who /\ cmd[u] # Idle)
    <3>1. cmd'[u] = cmd[u] BY <1>1, <2>2
    <3> QED BY <1>1, <3>1 DEF CommandsKnow
  <2> QED BY <2>1, <2>2
<1>8. CheckKnows' BY <1>1 DEF CheckKnows
<1> QED BY <1>4, <1>5, <1>6, <1>7, <1>8

\* The check goes on, or is gone, and no row changes.
LEMMA CheckMovesKeep ==
  ASSUME WatchIInv, UNCHANGED <<tableVars, repliesVars, behind, spoiled>>,
         verdict' \in [Targets -> Verdicts], watchTrouble' \in Nat,
         \A u \in Watchers : cmd'[u] \in {cmd[u], Idle}, cmd' \in [Watchers -> Commands],
         left' \subseteq Watchers, who' \in Watchers, todo' \subseteq Targets, mutated' \in BOOLEAN,
         \/ step' \in {"visiting", "asking", "setting"} /\ step # "idle" /\ snap' = snap
         \/ step' = "idle" /\ snap' \in [Watchers -> Rows],
         step' = "asking" => todo' \subseteq In(snap'[who']),
         step' = "setting" => watchStore = "hash"
  PROVE  WatchIInv'
<1> USE DEF WatchIInv, WatchInv, tableVars, repliesVars
<1>1. WatchTypeOK' BY DEF WatchTypeOK
<1>2. WatchedAsAsked' /\ UnsubscribedStaysOut' BY DEF WatchedAsAsked, UnsubscribedStaysOut
<1>3. CommandsKnow' BY DEF CommandsKnow
<1>4. CheckKnows' BY DEF CheckKnows
<1> QED BY <1>1, <1>2, <1>3, <1>4

LEMMA WatchStep == ASSUME WatchIInv, [WatchNext]_watchVars PROVE WatchIInv'
<1> DEFINE Frame == UNCHANGED <<tableVars, repliesVars, behind, spoiled>>
<1>t. WatchTypeOK /\ CheckKnows BY DEF WatchIInv, WatchInv
<1>n. watchTrouble \in Nat /\ watchTrouble + 1 \in Nat BY <1>t DEF WatchTypeOK
<1>f. [u \in Watchers |-> Nothing] \in [Watchers -> Rows] BY NothingIsARow
<1>1. CASE CheckStarts BY <1>1, StartKeeps
<1>2. ASSUME NEW u \in Watchers, Visit(u) PROVE WatchIInv'
  <2>1. todo' = In(snap[u]) /\ who' = u /\ snap' = snap /\ In(snap[u]) \subseteq Targets
    BY <1>2 DEF Visit, In
  <2>2. Frame /\ verdict' \in [Targets -> Verdicts] /\ watchTrouble' \in Nat /\ cmd' = cmd
        /\ left' \subseteq Watchers /\ mutated' \in BOOLEAN /\ step = "visiting" /\ step' = "asking"
    BY <1>t, <1>2 DEF Visit, WatchTypeOK
  <2> QED BY <1>t, <1>2, <2>1, <2>2, CheckMovesKeep DEF WatchTypeOK
<1>3. ASSUME NEW t \in Targets, Ask(t) PROVE WatchIInv' BY <1>3, AskKeeps
<1>4. ASSUME NEW t \in Targets, AskFails(t) PROVE WatchIInv'
  <2>1. Frame /\ verdict' = verdict /\ watchTrouble' \in Nat /\ cmd' = cmd /\ left' = left /\ who' = who
        /\ mutated' = mutated /\ snap' = snap /\ step = "asking" /\ step' = "asking"
        /\ todo' = todo \ {t} /\ todo' \subseteq In(snap'[who'])
    BY <1>t, <1>n, <1>4 DEF AskFails, WatchTrouble, CheckKnows
  <2> QED BY <1>t, <2>1, CheckMovesKeep DEF WatchTypeOK
<1>5. CASE NothingNew \/ SaveNothing \/ SaveReads \/ SaveFails
  <2>1. Frame /\ verdict' = verdict /\ watchTrouble' \in Nat /\ cmd' = cmd /\ left' = left /\ who' = who
        /\ mutated' = mutated /\ snap' = snap /\ todo' = todo /\ step # "idle"
        /\ (step' = "visiting" \/ (step' = "setting" /\ watchStore = "hash"))
    BY <1>n, <1>5 DEF NothingNew, SaveNothing, SaveReads, SaveFails, WatchTrouble
  <2> QED BY <1>t, <2>1, CheckMovesKeep DEF WatchTypeOK
<1>6. CASE Save \/ SaveSets
  <2>1. CheckWrites /\ step # "idle" /\ (watchStore = "rows" => who \in subscribed)
    BY <1>t, <1>6 DEF Save, SaveSets, CheckKnows
  <2> QED BY <2>1, CheckWritesKeep
<1>7. CASE CheckEnds \/ WatchCrash
  <2>1. Frame /\ verdict' = verdict /\ watchTrouble' \in Nat /\ who' = who /\ left' = {} /\ todo' = {}
        /\ mutated' = FALSE /\ step' = "idle" /\ snap' = [u \in Watchers |-> Nothing]
    BY <1>n, <1>7 DEF CheckEnds, WatchCrash, CheckGone, WatchTrouble
  <2>2. cmd' \in [Watchers -> Commands] /\ \A u \in Watchers : cmd'[u] \in {cmd[u], Idle}
    BY <1>t, <1>7 DEF CheckEnds, WatchCrash, WatchTypeOK, Commands
  <2> QED BY <1>t, <1>f, <2>1, <2>2, CheckMovesKeep DEF WatchTypeOK
<1>8. ASSUME NEW u \in Watchers, AlreadyWatching(u) PROVE WatchIInv'
  <2>1. Frame /\ verdict' = verdict /\ watchTrouble' = watchTrouble /\ UNCHANGED checkVars
        /\ cmd' = [cmd EXCEPT ![u] = Idle]
    BY <1>8 DEF AlreadyWatching, repliesVars
  <2>2. cmd' \in [Watchers -> Commands] /\ \A w \in Watchers : cmd'[w] \in {cmd[w], Idle}
    BY <1>t, <2>1 DEF WatchTypeOK, Commands
  <2>3. CASE step = "idle" BY <1>t, <2>1, <2>2, <2>3, CheckMovesKeep DEF WatchTypeOK, checkVars
  <2>4. CASE step # "idle" BY <1>t, <2>1, <2>2, <2>4, CheckMovesKeep DEF WatchTypeOK, checkVars, CheckKnows
  <2> QED BY <2>3, <2>4
<1>9. ASSUME NEW t \in Targets, VerdictChanges(t) PROVE WatchIInv'
  <2>1. Frame /\ verdict' \in [Targets -> Verdicts] /\ watchTrouble' \in Nat /\ UNCHANGED checkVars
        /\ cmd' = cmd
    BY <1>t, <1>n, <1>9 DEF VerdictChanges, WatchTrouble, WatchTypeOK
  <2>2. CASE step = "idle" BY <1>t, <2>1, <2>2, CheckMovesKeep DEF WatchTypeOK, checkVars
  <2>3. CASE step # "idle" BY <1>t, <2>1, <2>3, CheckMovesKeep DEF WatchTypeOK, checkVars, CheckKnows
  <2> QED BY <2>2, <2>3
<1>10. ASSUME NEW u \in Watchers, NEW t \in Targets, Reads(u, "add", t) \/ Reads(u, "remove", t)
       PROVE  WatchIInv'
  BY <1>10, ReadsKeep
<1>11. ASSUME NEW u \in Watchers, AddWrites(u) \/ RemoveWrites(u) \/ CommandWriteFails(u) PROVE WatchIInv'
  BY <1>11, AddKeeps, RemoveKeeps, FailedWriteKeeps
<1>12. CASE UNCHANGED watchVars
  <2>1. Frame /\ UNCHANGED <<verdict, watchTrouble, cmd, checkVars>> BY <1>12 DEF watchVars, repliesVars
  <2>2. CASE step = "idle" BY <1>t, <1>n, <2>1, <2>2, CheckMovesKeep DEF WatchTypeOK, checkVars
  <2>3. CASE step # "idle" BY <1>t, <1>n, <2>1, <2>3, CheckMovesKeep DEF WatchTypeOK, checkVars, CheckKnows
  <2> QED BY <2>2, <2>3
<1> QED BY <1>1, <1>2, <1>3, <1>4, <1>5, <1>6, <1>7, <1>8, <1>9, <1>10, <1>11, <1>12
        DEF WatchNext, CheckStep, CommandStep

\* What the replies of .vtwatch said is watched is what the row holds, unless a call
\* of it failed or it and the check wrote over one another; and whoever was told to be
\* out has no row (commands/general/vtwatch.js and services/vtWatchService.js).
THEOREM WatchListsKept == WatchSpec => []WatchInv
<1>1. WatchInit => WatchIInv BY WatchStart
<1>2. WatchIInv /\ [WatchNext]_watchVars => WatchIInv' BY WatchStep
<1>3. WatchIInv => WatchInv BY DEF WatchIInv
<1> QED BY <1>1, <1>2, <1>3, PTL DEF WatchSpec

-----------------------------------------------------------------------------
(* The messages *)

\* The rows of a sequence, and those of the batcher.
Held(rows_) == {rows_[i] : i \in 1 .. Len(rows_)}
Waiting == Held(buffer) \union Held(batch)
Awaits(m) == \E r \in Waiting : r.id = m

\* What is on its way to a row, and what is in it, make up what WhatsApp told.
BodyKnown(m) ==
  /\ \A c \in calls : c.id = m /\ c.op = "edit" => c.value = truth[m].body
  /\ table[m].body = truth[m].body \/ \E c \in calls : c.id = m /\ c.op = "edit"

StatusKnown(m) ==
  /\ \A c \in calls : c.id = m /\ c.op = "status" => c.value <= truth[m].status
  /\ table[m].status <= truth[m].status
  /\ \/ table[m].status = truth[m].status
     \/ \E c \in calls : c.id = m /\ c.op = "status" /\ c.value = truth[m].status

RevokeKnown(m) ==
  truth[m].deleted <=> table[m].deleted \/ \E c \in calls : c.id = m /\ c.op = "delete"

\* A row is in the table or in the batcher, there as it was sent.
OnePlace(m) ==
  /\ truth[m].there <=> table[m].there \/ Awaits(m)
  /\ ~(table[m].there /\ Awaits(m))
  /\ ~table[m].there => table[m] = NoRow
  /\ ~truth[m].there => truth[m] = NoRow /\ \A c \in calls : c.id # m
  /\ \A r \in Waiting : r.id = m => r.body = 0
  /\ \A r \in Held(buffer), q \in Held(batch) : ~(r.id = m /\ q.id = m)

CallTypes ==
  \A c \in calls : /\ c.op = "edit" => c.value \in 0 .. MaxEdits
                   /\ c.op = "status" => c.value \in 0 .. ReadStatus

InPlace == rowStore = "sqlite" => buffer = <<>> /\ batch = <<>> /\ calls = {}

Known(m) == OnePlace(m) /\ BodyKnown(m) /\ StatusKnown(m) /\ RevokeKnown(m)

MsgIInv == MsgTypeOK /\ CallTypes /\ InPlace /\ \A m \in Msgs \ excused : Known(m)

LEMMA IdsAreHeld ==
  ASSUME NEW q \in Seq(Saves)
  PROVE  /\ Held(q) \subseteq Saves /\ IdsOf(q) \subseteq Msgs
         /\ \A m : m \in IdsOf(q) <=> \E r \in Held(q) : r.id = m
<1>1. Held(q) \subseteq Saves BY ElementOfSeq DEF Held
<1>2. \A m : m \in IdsOf(q) <=> \E r \in Held(q) : r.id = m BY DEF Held, IdsOf
<1>3. \A r \in Saves : r.id \in Msgs BY DEF Saves
<1>4. IdsOf(q) \subseteq Msgs BY <1>1, <1>2, <1>3
<1> QED BY <1>1, <1>2, <1>4

LEMMA HeldEmpty == Held(<<>>) = {} /\ IdsOf(<<>>) = {} /\ <<>> \in Seq(Saves) /\ Len(<<>>) = 0
BY DEF Held, IdsOf

LEMMA MsgStart == ASSUME MsgInit PROVE MsgIInv
<1> USE MessageRowsAssumption
<1>1. NoRow \in RowType BY DEF NoRow, RowType
<1>2. MsgTypeOK
  <2>1. buffer \in Seq(Saves) /\ batch \in Seq(Saves) BY HeldEmpty DEF MsgInit
  <2>2. Len(buffer) <= MaxBuffer BY HeldEmpty DEF MsgInit
  <2>3. truth \in [Msgs -> RowType] /\ table \in [Msgs -> RowType] BY <1>1 DEF MsgInit
  <2> QED BY <2>1, <2>2, <2>3 DEF MsgInit, MsgTypeOK
<1>3. CallTypes /\ InPlace BY DEF MsgInit, CallTypes, InPlace
<1>4. ASSUME NEW m \in Msgs PROVE Known(m)
  <2>1. Waiting = {} BY HeldEmpty DEF MsgInit, Waiting
  <2>2. table[m] = NoRow /\ truth[m] = NoRow /\ calls = {} BY DEF MsgInit
  <2> QED BY <2>1, <2>2 DEF Known, OnePlace, BodyKnown, StatusKnown, RevokeKnown, NoRow, Awaits, Waiting
<1> QED BY <1>2, <1>3, <1>4 DEF MsgIInv

\* The invariant is what the comment of RowsAreRight says of a message that is settled.
LEMMA KnownIsRight == ASSUME MsgIInv PROVE RowsInv
<1> SUFFICES ASSUME NEW m \in Msgs, truth[m].there, m \notin excused, Settled(m)
             PROVE  table[m].there /\ table[m] = truth[m]
  BY DEF RowsInv, RowsAreRight, MsgIInv
<1>1. ~Awaits(m) /\ \A c \in calls : c.id # m
  BY IdsAreHeld DEF Settled, Awaits, Waiting, MsgIInv, MsgTypeOK
<1>2. Known(m) BY DEF MsgIInv
<1>3. /\ table[m].there /\ table[m].body = truth[m].body
      /\ table[m].status = truth[m].status /\ (table[m].deleted <=> truth[m].deleted)
  BY <1>1, <1>2 DEF Known, OnePlace, BodyKnown, StatusKnown, RevokeKnown
<1>4. table[m] \in RowType /\ truth[m] \in RowType BY DEF MsgIInv, MsgTypeOK
<1> QED BY <1>3, <1>4 DEF RowType

\* A row is pushed: it waits, and so does what waited, but for what was dropped.
LEMMA PushMoves ==
  ASSUME buffer \in Seq(Saves), Len(buffer) <= MaxBuffer, batch \in Seq(Saves),
         NEW r \in Saves, Push(r)
  PROVE  /\ buffer' \in Seq(Saves) /\ Len(buffer') <= MaxBuffer /\ batch' \in Seq(Saves)
         /\ timer' \in BOOLEAN
         /\ Waiting' \subseteq Waiting \union {r} /\ r \in Waiting'
         /\ \A q \in Waiting : q.id \in Dropped \/ q \in Waiting'
         /\ \/ batch' = batch /\ Held(buffer') \subseteq Held(buffer) \union {r}
            \/ Held(buffer') = {}
<1> USE MessageRowsAssumption
<1> DEFINE kept == IF Len(buffer) >= MaxBuffer THEN Tail(buffer) ELSE buffer
           all == Append(kept, r)
<1>1. Len(buffer) >= MaxBuffer => buffer # <<>> /\ Len(buffer) = MaxBuffer BY EmptySeq, LenProperties
<1>2. kept \in Seq(Saves) /\ Len(kept) < MaxBuffer
  <2>1. CASE Len(buffer) >= MaxBuffer BY <1>1, <2>1, HeadTailProperties
  <2>2. CASE ~(Len(buffer) >= MaxBuffer) BY <2>2, LenProperties
  <2> QED BY <2>1, <2>2
<1>3. Held(kept) \subseteq Held(buffer) /\ \A q \in Held(buffer) : q.id \in Dropped \/ q \in Held(kept)
  <2>1. CASE Len(buffer) >= MaxBuffer
    <3>1. /\ kept = Tail(buffer) /\ Len(kept) = Len(buffer) - 1 /\ Len(buffer) \in Nat
          /\ \A i \in 1 .. Len(kept) : kept[i] = buffer[i + 1]
      BY <1>1, <2>1, HeadTailProperties, LenProperties
    <3>2. Dropped = {buffer[1].id} BY <2>1 DEF Dropped
    <3>3. Held(kept) \subseteq Held(buffer)
      <4>1. ASSUME NEW i \in 1 .. Len(kept) PROVE kept[i] \in Held(buffer)
        <5>1. i + 1 \in 1 .. Len(buffer) BY <3>1
        <5> QED BY <3>1, <5>1 DEF Held
      <4> QED BY <4>1 DEF Held
    <3>4. ASSUME NEW i \in 1 .. Len(buffer) PROVE buffer[i].id \in Dropped \/ buffer[i] \in Held(kept)
      <4>1. CASE i = 1 BY <3>2, <4>1
      <4>2. CASE i # 1
        <5>1. i - 1 \in 1 .. Len(kept) /\ (i - 1) + 1 = i BY <3>1, <4>2
        <5>2. kept[i - 1] = buffer[i] BY <3>1, <5>1
        <5> QED BY <5>1, <5>2 DEF Held
      <4> QED BY <4>1, <4>2
    <3> QED BY <3>3, <3>4 DEF Held
  <2>2. CASE ~(Len(buffer) >= MaxBuffer) BY <2>2
  <2> QED BY <2>1, <2>2
<1> HIDE DEF kept
<1>4. /\ all \in Seq(Saves) /\ Len(all) = Len(kept) + 1 /\ Len(kept) \in Nat
      /\ all[Len(kept) + 1] = r /\ \A i \in 1 .. Len(kept) : all[i] = kept[i]
  BY <1>2, AppendProperties, LenProperties
<1> HIDE DEF all
<1>5. Held(all) = Held(kept) \union {r}
  <2>1. ASSUME NEW i \in 1 .. Len(all) PROVE all[i] \in Held(kept) \union {r}
    <3>1. i \in 1 .. Len(kept) \/ i = Len(kept) + 1 BY <1>4
    <3> QED BY <1>4, <3>1 DEF Held
  <2>2. ASSUME NEW i \in 1 .. Len(kept) PROVE kept[i] \in Held(all)
    <3>1. i \in 1 .. Len(all) BY <1>4
    <3> QED BY <1>4, <3>1 DEF Held
  <2>3. r \in Held(all)
    <3>1. Len(kept) + 1 \in 1 .. Len(all) BY <1>4
    <3> QED BY <1>4, <3>1 DEF Held
  <2>4. Held(all) \subseteq Held(kept) \union {r} BY <2>1 DEF Held
  <2>5. Held(kept) \subseteq Held(all) BY <2>2 DEF Held
  <2> QED BY <2>3, <2>4, <2>5
<1>6. IF Len(all) >= MaxBatch /\ batch = <<>>
        THEN buffer' = <<>> /\ batch' = all /\ timer' = FALSE
        ELSE buffer' = all /\ batch' = batch /\ timer' = TRUE
  BY DEF Push, all, kept
<1>7. CASE Len(all) >= MaxBatch /\ batch = <<>>
  <2>1. buffer' = <<>> /\ batch' = all /\ timer' = FALSE BY <1>6, <1>7
  <2>2. Waiting = Held(buffer) /\ Waiting' = Held(all) /\ Held(buffer') = {}
    BY <1>7, <2>1, HeldEmpty DEF Waiting, Held
  <2>3. Len(buffer') <= MaxBuffer BY <2>1, HeldEmpty
  <2>4. buffer' \in Seq(Saves) /\ batch' \in Seq(Saves) /\ timer' \in BOOLEAN BY <1>4, <2>1, HeldEmpty
  <2>5. Waiting' \subseteq Waiting \union {r} /\ r \in Waiting' BY <1>3, <1>5, <2>2
  <2>6. \A q \in Waiting : q.id \in Dropped \/ q \in Waiting' BY <1>3, <1>5, <2>2
  <2> QED BY <2>2, <2>3, <2>4, <2>5, <2>6
<1>8. CASE ~(Len(all) >= MaxBatch /\ batch = <<>>)
  <2>1. buffer' = all /\ batch' = batch /\ timer' = TRUE BY <1>6, <1>8
  <2>2. Waiting' = Held(all) \union Held(batch) /\ Held(buffer') = Held(all) BY <2>1 DEF Waiting, Held
  <2>3. Len(all) <= MaxBuffer BY <1>2, <1>4
  <2> QED BY <1>3, <1>4, <1>5, <2>1, <2>2, <2>3 DEF Waiting
<1> QED BY <1>7, <1>8

\* A step that is not about a message leaves what is known of it.
LEMMA KnownStays ==
  ASSUME NEW m \in Msgs, Known(m), table'[m] = table[m], truth'[m] = truth[m],
         \A c : c.id = m => (c \in calls' <=> c \in calls),
         \A r : r.id = m => (r \in Waiting' <=> r \in Waiting),
         \A r \in Held(buffer'), q \in Held(batch') : ~(r.id = m /\ q.id = m)
  PROVE  Known(m)'
<1>1. Awaits(m)' <=> Awaits(m) BY DEF Awaits
<1>2. \A c \in calls' : c.id = m => c \in calls OBVIOUS
<1>3. \A c \in calls : c.id = m => c \in calls' OBVIOUS
<1>4. OnePlace(m)'
  <2>1. Held(buffer)' = Held(buffer') /\ Held(batch)' = Held(batch') BY DEF Held
  <2>2. \A r \in Waiting' : r.id = m => r.body = 0 BY DEF Known, OnePlace
  <2> QED BY <1>1, <1>2, <2>1, <2>2 DEF Known, OnePlace
<1>5. BodyKnown(m)' BY <1>2, <1>3 DEF Known, BodyKnown
<1>6. StatusKnown(m)' BY <1>2, <1>3 DEF Known, StatusKnown
<1>7. RevokeKnown(m)' BY <1>2, <1>3 DEF Known, RevokeKnown
<1> QED BY <1>4, <1>5, <1>6, <1>7 DEF Known

\* The timer takes the buffer, or comes again.
LEMMA TimerKeeps == ASSUME MsgIInv, TimerFires PROVE MsgIInv'
<1> USE DEF MsgIInv
<1>1. UNCHANGED <<rowStore, truth, table, calls, excused, msgTrouble>> BY DEF TimerFires
<1>2. CASE batch = <<>>
  <2>1. batch' = buffer /\ buffer' = <<>> /\ timer' = FALSE BY <1>2 DEF TimerFires
  <2>2. Len(buffer') <= MaxBuffer BY <2>1, HeldEmpty, MessageRowsAssumption
  <2>3. MsgTypeOK' BY <1>1, <2>1, <2>2, HeldEmpty DEF MsgTypeOK
  <2>4. CallTypes' /\ InPlace' BY <1>1, <1>2, <2>1 DEF CallTypes, InPlace
  <2>5. Held(buffer') = {} /\ Waiting' = Waiting BY <1>2, <2>1, HeldEmpty DEF Waiting, Held
  <2>6. ASSUME NEW m \in Msgs \ excused PROVE Known(m)'
    BY <1>1, <2>5, KnownStays DEF MsgIInv
  <2> QED BY <1>1, <2>3, <2>4, <2>6
<1>3. CASE batch # <<>>
  <2>1. UNCHANGED <<buffer, batch, timer>> BY <1>3 DEF TimerFires, batcherVars
  <2>2. MsgTypeOK' BY <1>1, <2>1 DEF MsgTypeOK
  <2>3. CallTypes' /\ InPlace' BY <1>1, <2>1 DEF CallTypes, InPlace
  <2>4. Waiting' = Waiting /\ Held(buffer') = Held(buffer) /\ Held(batch') = Held(batch)
    BY <2>1 DEF Waiting, Held
  <2>5. ASSUME NEW m \in Msgs \ excused PROVE Known(m)'
    <3>1. Known(m) OBVIOUS
    <3>2. \A r \in Held(buffer'), q \in Held(batch') : ~(r.id = m /\ q.id = m)
      BY <2>4, <3>1 DEF Known, OnePlace
    <3> QED BY <1>1, <2>4, <3>1, <3>2, KnownStays
  <2> QED BY <1>1, <2>2, <2>3, <2>5
<1> QED BY <1>2, <1>3

\* The end of a flush, as far as the batcher goes.
LEMMA FlushMoves ==
  ASSUME MsgTypeOK, FlushEnds
  PROVE  /\ buffer' = buffer /\ batch' = <<>> /\ timer' \in BOOLEAN
         /\ Waiting' = Held(buffer) /\ Held(batch') = {} /\ batch' \in Seq(Saves)
<1>1. buffer' = buffer /\ batch' = <<>> /\ timer' \in BOOLEAN BY DEF FlushEnds, MsgTypeOK
<1> QED BY <1>1, HeldEmpty DEF Waiting, Held

LEMMA FlushFailsKeeps == ASSUME MsgIInv, FlushFails PROVE MsgIInv'
<1> USE DEF MsgIInv
<1>1. /\ UNCHANGED <<rowStore, truth, table, calls>> /\ FlushEnds
      /\ excused' = excused \union IdsOf(batch) /\ msgTrouble' \in Nat
  BY DEF FlushFails, MsgTrouble, MsgTypeOK
<1>2. IdsOf(batch) \subseteq Msgs BY IdsAreHeld DEF MsgTypeOK
<1>3. MsgTypeOK' BY <1>1, <1>2, FlushMoves DEF MsgTypeOK
<1>4. CallTypes' /\ InPlace' BY <1>1, FlushMoves DEF CallTypes, InPlace
<1>5. ASSUME NEW m \in Msgs \ excused' PROVE Known(m)'
  <2>1. m \in Msgs \ excused /\ \A r \in Held(batch) : r.id # m
    BY <1>1, IdsAreHeld DEF MsgTypeOK
  <2>2. \A r : r.id = m => (r \in Waiting' <=> r \in Waiting) BY <1>1, <2>1, FlushMoves DEF Waiting
  <2> QED BY <1>1, <2>1, <2>2, FlushMoves, KnownStays
<1> QED BY <1>3, <1>4, <1>5

LEMMA FlushKeeps == ASSUME MsgIInv, Flush PROVE MsgIInv'
<1> USE DEF MsgIInv
<1>1. PICK pick \in [Msgs -> 1 .. Len(batch)] :
        (\A m \in IdsOf(batch) : batch[pick[m]].id = m) /\ table' = Flushed(pick)
  BY DEF Flush
<1>2. /\ UNCHANGED <<rowStore, truth, calls, msgTrouble>> /\ FlushEnds /\ batch # <<>>
      /\ excused' = excused \union Twice(batch)
  BY DEF Flush
<1>3. \A m \in Msgs : batch[pick[m]] \in Held(batch) /\ batch[pick[m]] \in Saves
  BY ElementOfSeq DEF MsgTypeOK, Held
<1>4. \A m \in Msgs : table'[m] = IF m \notin IdsOf(batch) THEN table[m]
                                  ELSE [table[m] EXCEPT !.body = batch[pick[m]].body, !.there = TRUE]
  BY <1>1 DEF Flushed
<1>5. MsgTypeOK'
  <2>1. table' \in [Msgs -> RowType] BY <1>1, <1>3 DEF MsgTypeOK, Flushed, RowType, Saves
  <2>2. excused' \subseteq Msgs BY <1>2 DEF Twice, MsgTypeOK
  <2> QED BY <1>2, <2>1, <2>2, FlushMoves DEF MsgTypeOK
<1>6. CallTypes' BY <1>2 DEF CallTypes
<1>7. InPlace' BY <1>2 DEF InPlace
<1>8. ASSUME NEW m \in Msgs \ excused' PROVE Known(m)'
  <2>1. m \in Msgs \ excused /\ Known(m) BY <1>2
  <2>2. CASE m \notin IdsOf(batch)
    <3>1. \A r \in Held(batch) : r.id # m BY <2>2, IdsAreHeld DEF MsgTypeOK
    <3>2. \A r : r.id = m => (r \in Waiting' <=> r \in Waiting) BY <1>2, <3>1, FlushMoves DEF Waiting
    <3> QED BY <1>2, <1>4, <2>1, <2>2, <3>2, FlushMoves, KnownStays
  <2>3. CASE m \in IdsOf(batch)
    <3> DEFINE r == batch[pick[m]]
    <3>1. r \in Held(batch) /\ r.id = m BY <1>1, <1>3, <2>3
    <3>2. r \in Waiting /\ r.body = 0 /\ Awaits(m) BY <2>1, <3>1 DEF Waiting, Awaits, Known, OnePlace
    <3>3. table[m] = NoRow /\ truth[m].there BY <2>1, <3>2 DEF Known, OnePlace
    <3>4. table'[m] = [NoRow EXCEPT !.body = 0, !.there = TRUE] BY <1>4, <2>3, <3>2, <3>3
    <3>5. /\ table'[m].there /\ table'[m].body = table[m].body
          /\ table'[m].status = table[m].status /\ table'[m].deleted = table[m].deleted
      BY <3>3, <3>4 DEF NoRow
    <3>6. ~Awaits(m)' /\ \A q \in Waiting' : q.id # m
      BY <1>2, <2>1, <3>1, FlushMoves DEF Awaits, Known, OnePlace
    <3>7. OnePlace(m)'
      <4>1. Held(batch)' = {} BY <1>2, FlushMoves, HeldEmpty DEF Held
      <4> QED BY <1>2, <2>1, <3>3, <3>5, <3>6, <4>1 DEF Known, OnePlace
    <3>8. BodyKnown(m)' /\ StatusKnown(m)' /\ RevokeKnown(m)'
      BY <1>2, <2>1, <3>5 DEF Known, BodyKnown, StatusKnown, RevokeKnown
    <3> QED BY <3>7, <3>8 DEF Known
  <2> QED BY <2>2, <2>3
<1> QED BY <1>5, <1>6, <1>7, <1>8

LEMMA MsgCrashKeeps == ASSUME MsgIInv, MsgCrash PROVE MsgIInv'
<1> USE DEF MsgIInv
<1>1. /\ buffer' = <<>> /\ batch' = <<>> /\ timer' = FALSE /\ calls' = {}
      /\ excused' = excused \union IdsOf(buffer) \union IdsOf(batch) \union {c.id : c \in calls}
      /\ UNCHANGED <<rowStore, truth, table>> /\ msgTrouble' \in Nat
  BY DEF MsgCrash, MsgTrouble, MsgTypeOK
<1>2. excused' \subseteq Msgs
  <2>1. IdsOf(buffer) \subseteq Msgs /\ IdsOf(batch) \subseteq Msgs
    BY IdsAreHeld DEF MsgTypeOK
  <2>2. {c.id : c \in calls} \subseteq Msgs BY DEF MsgTypeOK, Calls
  <2> QED BY <1>1, <2>1, <2>2 DEF MsgTypeOK
<1>3. Len(buffer') <= MaxBuffer BY <1>1, HeldEmpty, MessageRowsAssumption
<1>4. MsgTypeOK' BY <1>1, <1>2, <1>3, HeldEmpty DEF MsgTypeOK
<1>5. CallTypes' /\ InPlace' BY <1>1 DEF CallTypes, InPlace
<1>6. Held(buffer') = {} /\ Held(batch') = {} /\ Waiting' = {} BY <1>1, HeldEmpty DEF Waiting, Held
<1>7. ASSUME NEW m \in Msgs \ excused' PROVE Known(m)'
  <2>1. m \in Msgs \ excused /\ \A c \in calls : c.id # m BY <1>1
  <2>2. \A r \in Waiting : r.id # m BY <1>1, IdsAreHeld DEF MsgTypeOK, Waiting
  <2> QED BY <1>1, <1>6, <2>1, <2>2, KnownStays
<1> QED BY <1>4, <1>5, <1>7

\* A message is saved that is new, or that is excused from now on.
LEMMA PushKeeps ==
  ASSUME MsgIInv, NEW m \in Msgs, Push([id |-> m, body |-> 0]), rowStore # "sqlite",
         UNCHANGED <<rowStore, table, calls>>, msgTrouble' \in Nat,
         excused \union Dropped \subseteq excused', excused' \subseteq Msgs,
         m \notin excused' => ~truth[m].there,
         truth' \in [Msgs -> RowType], \A w \in Msgs \ {m} : truth'[w] = truth[w],
         m \notin excused' => truth'[m] = NewRow(0)
  PROVE  MsgIInv'
<1> DEFINE r == [id |-> m, body |-> 0]
<1> USE DEF MsgIInv
<1>1. r \in Saves BY MessageRowsAssumption DEF Saves
<1>2. r.id = m /\ r.body = 0 OBVIOUS
<1> HIDE DEF r
<1>3. /\ buffer' \in Seq(Saves) /\ Len(buffer') <= MaxBuffer /\ batch' \in Seq(Saves) /\ timer' \in BOOLEAN
      /\ Waiting' \subseteq Waiting \union {r} /\ r \in Waiting'
      /\ \A q \in Waiting : q.id \in Dropped \/ q \in Waiting'
      /\ \/ batch' = batch /\ Held(buffer') \subseteq Held(buffer) \union {r}
         \/ Held(buffer') = {}
  <2>1. buffer \in Seq(Saves) /\ Len(buffer) <= MaxBuffer /\ batch \in Seq(Saves) /\ Push(r)
    BY DEF MsgTypeOK, r
  <2> QED BY <1>1, <2>1, PushMoves
<1>4. MsgTypeOK' BY <1>3 DEF MsgTypeOK
<1>5. CallTypes' /\ InPlace' BY DEF CallTypes, InPlace
<1>6. ASSUME NEW w \in Msgs \ excused', w # m PROVE Known(w)'
  <2>1. Known(w) /\ w \notin Dropped OBVIOUS
  <2>2. \A q : q.id = w => (q \in Waiting' <=> q \in Waiting) BY <1>2, <1>3, <1>6, <2>1
  <2>3. \A p \in Held(buffer'), q \in Held(batch') : ~(p.id = w /\ q.id = w)
    <3>1. CASE Held(buffer') = {} BY <3>1
    <3>2. CASE batch' = batch /\ Held(buffer') \subseteq Held(buffer) \union {r}
      <4>1. Held(batch') = Held(batch) BY <3>2
      <4> QED BY <1>2, <1>6, <2>1, <3>2, <4>1 DEF Known, OnePlace
    <3> QED BY <1>3, <3>1, <3>2
  <2> QED BY <1>6, <2>1, <2>2, <2>3, KnownStays
<1>7. ASSUME m \notin excused' PROVE Known(m)'
  <2>1. /\ ~truth[m].there /\ table[m] = NoRow /\ (\A c \in calls : c.id # m)
        /\ \A q \in Waiting : q.id # m
    BY <1>7 DEF Known, OnePlace, Awaits, NoRow
  <2>2. truth'[m].there /\ truth'[m].body = 0 /\ truth'[m].status = 0 /\ ~truth'[m].deleted
    BY <1>7 DEF NewRow
  <2>3. table'[m] = NoRow /\ table'[m].body = 0 /\ table'[m].status = 0 /\ ~table'[m].deleted /\ ~table'[m].there
    BY <2>1 DEF NoRow
  <2>4. Awaits(m)' /\ \A q \in Waiting' : q.id = m => q.body = 0 BY <1>2, <1>3, <2>1 DEF Awaits
  <2>5. \A p \in Held(buffer)', q \in Held(batch)' : ~(p.id = m /\ q.id = m)
    <3>1. Held(buffer)' = Held(buffer') /\ Held(batch)' = Held(batch') BY DEF Held
    <3>2. CASE Held(buffer') = {} BY <3>1, <3>2
    <3>3. CASE batch' = batch
      <4>1. Held(batch') = Held(batch) /\ Held(batch) \subseteq Waiting BY <3>3 DEF Waiting
      <4> QED BY <2>1, <3>1, <4>1
    <3> QED BY <1>3, <3>2, <3>3
  <2>6. OnePlace(m)' BY <2>2, <2>3, <2>4, <2>5 DEF OnePlace
  <2>7. BodyKnown(m)' /\ StatusKnown(m)' /\ RevokeKnown(m)'
    BY <2>1, <2>2, <2>3 DEF BodyKnown, StatusKnown, RevokeKnown
  <2> QED BY <2>6, <2>7 DEF Known
<1> QED BY <1>4, <1>5, <1>6, <1>7

\* On SQLITE a row is what was told of it, unless the message came again.
LEMMA InPlaceKeeps ==
  ASSUME MsgIInv, rowStore = "sqlite", NEW m \in Msgs, NEW r \in RowType,
         UNCHANGED <<rowStore, batcherVars, calls>>, msgTrouble' \in Nat,
         excused \subseteq excused', excused' \subseteq Msgs,
         truth' \in [Msgs -> RowType], \A w \in Msgs \ {m} : truth'[w] = truth[w],
         table' = [table EXCEPT ![m] = r],
         m \notin excused' => truth'[m] = r /\ r.there
  PROVE  MsgIInv'
<1> USE DEF MsgIInv, batcherVars
<1>1. buffer = <<>> /\ batch = <<>> /\ calls = {} BY DEF InPlace
<1>2. Held(buffer') = {} /\ Held(batch') = {} /\ Waiting' = {} /\ Waiting = {}
  BY <1>1, HeldEmpty DEF Waiting, Held
<1>3. MsgTypeOK' BY DEF MsgTypeOK
<1>4. CallTypes' /\ InPlace' BY DEF CallTypes, InPlace
<1>5. ASSUME NEW w \in Msgs \ excused', w # m PROVE Known(w)'
  <2>1. table'[w] = table[w] BY <1>5 DEF MsgTypeOK
  <2> QED BY <1>2, <1>5, <2>1, KnownStays
<1>6. ASSUME m \notin excused' PROVE Known(m)'
  <2>1. table'[m] = r /\ truth'[m] = r /\ r.there BY <1>6 DEF MsgTypeOK
  <2>2. calls' = {} /\ ~Awaits(m)' BY <1>1, <1>2 DEF Awaits
  <2>3. Held(buffer)' = {} BY <1>2 DEF Held
  <2>4. OnePlace(m)' BY <1>2, <2>1, <2>2, <2>3 DEF OnePlace
  <2>5. r.status \in Nat BY DEF RowType
  <2>6. BodyKnown(m)' /\ StatusKnown(m)' /\ RevokeKnown(m)'
    BY <2>1, <2>2, <2>5 DEF BodyKnown, StatusKnown, RevokeKnown
  <2> QED BY <2>4, <2>6 DEF Known
<1> QED BY <1>3, <1>4, <1>5, <1>6

LEMMA NewRowType == NewRow(0) \in RowType /\ NewRow(0).there
BY MessageRowsAssumption DEF NewRow, RowType

LEMMA DroppedType == ASSUME MsgTypeOK PROVE Dropped \subseteq Msgs
<1>1. Len(buffer) >= MaxBuffer => buffer # <<>> BY EmptySeq, MessageRowsAssumption DEF MsgTypeOK
<1>2. Len(buffer) >= MaxBuffer => Head(buffer) \in Saves BY <1>1, HeadTailProperties DEF MsgTypeOK
<1> QED BY <1>2 DEF Dropped, Saves

LEMMA DeliverKeeps == ASSUME MsgIInv, NEW m \in Msgs, Deliver(m) PROVE MsgIInv'
<1>1. /\ ~truth[m].there /\ truth' = [truth EXCEPT ![m] = NewRow(0)] /\ SaveRow(m, 0)
      /\ excused' = IF rowStore = "sqlite" THEN excused ELSE excused \union Dropped
      /\ UNCHANGED <<rowStore, calls, msgTrouble>>
  BY DEF Deliver
<1>2. /\ truth' \in [Msgs -> RowType] /\ truth'[m] = NewRow(0) /\ msgTrouble' \in Nat
      /\ \A w \in Msgs \ {m} : truth'[w] = truth[w]
  BY <1>1, NewRowType DEF MsgIInv, MsgTypeOK
<1>3. excused \subseteq Msgs /\ Dropped \subseteq Msgs BY DroppedType DEF MsgIInv, MsgTypeOK
<1>4. CASE rowStore = "sqlite"
  <2>1. table' = [table EXCEPT ![m] = NewRow(0)] /\ UNCHANGED batcherVars /\ excused' = excused
    BY <1>1, <1>4 DEF SaveRow
  <2> QED BY <1>1, <1>2, <1>3, <1>4, <2>1, NewRowType, InPlaceKeeps
<1>5. CASE rowStore # "sqlite"
  <2>1. Push([id |-> m, body |-> 0]) /\ UNCHANGED table /\ excused' = excused \union Dropped
    BY <1>1, <1>5 DEF SaveRow
  <2> QED BY <1>1, <1>2, <1>3, <1>5, <2>1, PushKeeps
<1> QED BY <1>4, <1>5

LEMMA RedeliverKeeps == ASSUME MsgIInv, NEW m \in Msgs, Redeliver(m) PROVE MsgIInv'
<1>1. /\ SaveRow(m, 0) /\ msgTrouble' \in Nat /\ UNCHANGED <<rowStore, truth, calls>>
      /\ excused' = excused \union {m} \union (IF rowStore = "sqlite" THEN {} ELSE Dropped)
  BY DEF Redeliver, MsgTrouble, MsgIInv, MsgTypeOK
<1>2. /\ truth' \in [Msgs -> RowType] /\ (\A w \in Msgs \ {m} : truth'[w] = truth[w])
      /\ excused \subseteq Msgs /\ Dropped \subseteq Msgs
  BY <1>1, DroppedType DEF MsgIInv, MsgTypeOK
<1>3. CASE rowStore = "sqlite"
  <2>1. table' = [table EXCEPT ![m] = NewRow(0)] /\ UNCHANGED batcherVars BY <1>1, <1>3 DEF SaveRow
  <2>2. excused \subseteq excused' /\ excused' \subseteq Msgs /\ m \in excused' BY <1>1, <1>2, <1>3
  <2> QED BY <1>1, <1>2, <1>3, <2>1, <2>2, NewRowType, InPlaceKeeps
<1>4. CASE rowStore # "sqlite"
  <2>1. Push([id |-> m, body |-> 0]) /\ UNCHANGED table BY <1>1, <1>4 DEF SaveRow
  <2>2. excused \union Dropped \subseteq excused' /\ excused' \subseteq Msgs /\ m \in excused'
    BY <1>1, <1>2, <1>4
  <2> QED BY <1>1, <1>2, <1>4, <2>1, <2>2, PushKeeps
<1> QED BY <1>3, <1>4

LEMMA SameRow ==
  ASSUME NEW p \in RowType, NEW q \in RowType, p.body = q.body, p.status = q.status,
         p.deleted <=> q.deleted, p.there <=> q.there
  PROVE  p = q
BY DEF RowType

\* What is told of a message, and what the server makes of it.
LEMMA UpdateTypes ==
  ASSUME MessageRowsAssumption, NEW r \in RowType, NEW c \in Calls,
         c.op = "edit" => c.value \in 0 .. MaxEdits, c.op = "status" => c.value \in 0 .. ReadStatus
  PROVE  /\ Applied(r, c) \in RowType /\ Learnt(r, c) \in RowType
         /\ Learnt(r, c).there = r.there /\ Applied(r, c).there = r.there
         /\ Learnt(r, c).body = (IF c.op = "edit" THEN c.value ELSE r.body)
         /\ Learnt(r, c).status = (IF c.op = "status" /\ ~(r.status > c.value) THEN c.value ELSE r.status)
         /\ Learnt(r, c).deleted = (r.deleted \/ c.op = "delete")
         /\ r.there => Applied(r, c) = Learnt(r, c)
<1> DEFINE b == IF c.op = "edit" THEN c.value ELSE r.body
           s == IF c.op = "status" THEN Greater(r.status, c.value) ELSE r.status
           d == r.deleted \/ c.op = "delete"
<1>1. c.op \in {"edit", "status", "delete"} BY DEF Calls
<1>2. /\ b \in 0 .. MaxEdits /\ s \in 0 .. ReadStatus /\ d \in BOOLEAN
      /\ s = IF c.op = "status" /\ ~(r.status > c.value) THEN c.value ELSE r.status
  <2>1. b \in 0 .. MaxEdits BY DEF RowType
  <2>2. s \in 0 .. ReadStatus BY DEF RowType, Greater
  <2>3. d \in BOOLEAN OBVIOUS
  <2>4. s = IF c.op = "status" /\ ~(r.status > c.value) THEN c.value ELSE r.status BY DEF Greater
  <2> QED BY <2>1, <2>2, <2>3, <2>4
<1>3. Learnt(r, c) = [r EXCEPT !.body = b, !.status = s, !.deleted = d] BY DEF Learnt
<1> HIDE DEF b, s, d
<1>4. Learnt(r, c) \in RowType /\ Learnt(r, c).there = r.there BY <1>2, <1>3 DEF RowType
<1>5. Learnt(r, c).body = b /\ Learnt(r, c).status = s /\ Learnt(r, c).deleted = d
  BY <1>3 DEF RowType
<1>6. r.there => Applied(r, c) = Learnt(r, c)
  <2> SUFFICES ASSUME r.there PROVE Applied(r, c) = Learnt(r, c) OBVIOUS
  <2>1. /\ Applied(r, c) \in RowType /\ Applied(r, c).there = r.there /\ Applied(r, c).body = b
        /\ Applied(r, c).status = s /\ (Applied(r, c).deleted <=> d)
    <3>1. CASE c.op = "edit"
      <4>1. Applied(r, c) = [r EXCEPT !.body = c.value] BY <3>1 DEF Applied
      <4>2. b = c.value /\ s = r.status /\ d = r.deleted BY <3>1 DEF b, s, d, RowType
      <4> QED BY <1>2, <4>1, <4>2 DEF RowType
    <3>2. CASE c.op = "status"
      <4>1. Applied(r, c) = [r EXCEPT !.status = Greater(r.status, c.value)] BY <3>2 DEF Applied
      <4>2. b = r.body /\ s = Greater(r.status, c.value) /\ d = r.deleted BY <3>2 DEF b, s, d, RowType
      <4> QED BY <1>2, <4>1, <4>2 DEF RowType
    <3>3. CASE c.op = "delete"
      <4>1. Applied(r, c) = [r EXCEPT !.deleted = TRUE] BY <3>3 DEF Applied
      <4>2. b = r.body /\ s = r.status /\ d BY <3>3 DEF b, s, d
      <4> QED BY <1>2, <4>1, <4>2 DEF RowType
    <3> QED BY <1>1, <3>1, <3>2, <3>3
  <2> QED BY <1>4, <1>5, <2>1, SameRow
<1>7. ~r.there => Applied(r, c) = r BY DEF Applied
<1>8. Applied(r, c) \in RowType /\ Applied(r, c).there = r.there BY <1>4, <1>6, <1>7
<1> QED BY <1>2, <1>4, <1>5, <1>6, <1>8 DEF b, d

\* An update is told, and is applied on the spot or is on its way.
LEMMA ToldKeeps ==
  ASSUME MsgIInv, NEW m \in Msgs, NEW op \in {"edit", "status", "delete"}, NEW v \in Nat, Told(m, op, v),
         op = "edit" => v \in 0 .. MaxEdits, op = "status" => v \in 0 .. ReadStatus
  PROVE  MsgIInv'
<1> DEFINE c == [id |-> m, op |-> op, value |-> v]
<1> USE DEF MsgIInv
<1>1. c \in Calls /\ c.id = m /\ c.op = op /\ c.value = v BY DEF Calls
<1>2. /\ truth[m].there /\ truth' = [truth EXCEPT ![m] = Learnt(truth[m], c)]
      /\ IF rowStore = "sqlite"
           THEN table' = [table EXCEPT ![m] = Applied(table[m], c)] /\ UNCHANGED <<calls, excused>>
           ELSE /\ calls' = calls \union {c} /\ UNCHANGED table
                /\ excused' = IF op = "edit" /\ \E d \in calls : d.id = m /\ d.op = "edit"
                                THEN excused \union {m} ELSE excused
      /\ UNCHANGED <<rowStore, batcherVars, msgTrouble>>
  BY DEF Told
<1> HIDE DEF c
<1>3. truth[m] \in RowType /\ table[m] \in RowType BY DEF MsgTypeOK
<1>4. /\ Learnt(truth[m], c) \in RowType /\ Learnt(truth[m], c).there
      /\ Learnt(truth[m], c).body = (IF op = "edit" THEN v ELSE truth[m].body)
      /\ Learnt(truth[m], c).status = (IF op = "status" /\ ~(truth[m].status > v) THEN v ELSE truth[m].status)
      /\ Learnt(truth[m], c).deleted = (truth[m].deleted \/ op = "delete")
  <2>1. c.op = "edit" => c.value \in 0 .. MaxEdits BY <1>1
  <2>2. c.op = "status" => c.value \in 0 .. ReadStatus BY <1>1
  <2>3. /\ Learnt(truth[m], c) \in RowType /\ Learnt(truth[m], c).there = truth[m].there
        /\ Learnt(truth[m], c).body = (IF c.op = "edit" THEN c.value ELSE truth[m].body)
        /\ Learnt(truth[m], c).status =
             (IF c.op = "status" /\ ~(truth[m].status > c.value) THEN c.value ELSE truth[m].status)
        /\ Learnt(truth[m], c).deleted = (truth[m].deleted \/ c.op = "delete")
    BY <1>1, <1>3, <2>1, <2>2, UpdateTypes, MessageRowsAssumption, ZenonT(30)
  <2> QED BY <1>1, <1>2, <2>3
<1>5. /\ truth' \in [Msgs -> RowType] /\ truth'[m] = Learnt(truth[m], c)
      /\ \A w \in Msgs \ {m} : truth'[w] = truth[w]
  BY <1>2, <1>4 DEF MsgTypeOK
<1>6. CASE rowStore = "sqlite"
  <2>1. Applied(table[m], c) \in RowType BY <1>1, <1>3, UpdateTypes, MessageRowsAssumption
  <2>2. m \notin excused => Applied(table[m], c) = Learnt(truth[m], c)
    <3> SUFFICES ASSUME m \notin excused PROVE Applied(table[m], c) = Learnt(truth[m], c) OBVIOUS
    <3>1. buffer = <<>> /\ batch = <<>> /\ calls = {} BY <1>6 DEF InPlace
    <3>2. ~Awaits(m) BY <3>1, HeldEmpty DEF Awaits, Waiting
    <3>3. table[m] = truth[m] /\ table[m].there
      BY <1>2, <1>3, <3>1, <3>2 DEF Known, OnePlace, BodyKnown, StatusKnown, RevokeKnown, RowType
    <3> QED BY <1>1, <1>3, <3>3, UpdateTypes, MessageRowsAssumption
  <2>3. m \notin excused' => Applied(table[m], c) = Learnt(truth[m], c) BY <1>2, <1>6, <2>2
  <2>4. excused' = excused /\ excused \subseteq Msgs /\ msgTrouble' \in Nat
    BY <1>2, <1>6 DEF MsgTypeOK
  <2> QED BY <1>2, <1>4, <1>5, <1>6, <2>1, <2>3, <2>4, InPlaceKeeps
<1>7. CASE rowStore # "sqlite"
  <2>1. /\ calls' = calls \union {c} /\ UNCHANGED <<table, rowStore, buffer, batch, timer, msgTrouble>>
        /\ excused' = IF op = "edit" /\ \E d \in calls : d.id = m /\ d.op = "edit"
                        THEN excused \union {m} ELSE excused
    BY <1>2, <1>7 DEF batcherVars
  <2>2. calls' \subseteq Calls /\ excused' \subseteq Msgs BY <1>1, <2>1 DEF MsgTypeOK
  <2>3. MsgTypeOK' BY <1>5, <2>1, <2>2 DEF MsgTypeOK
  <2>4. CallTypes' BY <1>1, <2>1 DEF CallTypes
  <2>5. InPlace' BY <1>7, <2>1 DEF InPlace
  <2>6. Held(buffer') = Held(buffer) /\ Held(batch') = Held(batch) /\ Waiting' = Waiting
    BY <2>1 DEF Held, Waiting
  <2>7. ASSUME NEW w \in Msgs \ excused', w # m PROVE Known(w)'
    <3>1. Known(w) BY <2>1
    <3>2. \A d : d.id = w => (d \in calls' <=> d \in calls) BY <1>1, <2>1, <2>7
    <3>3. \A p \in Held(buffer'), q \in Held(batch') : ~(p.id = w /\ q.id = w)
      BY <2>6, <3>1 DEF Known, OnePlace
    <3> QED BY <1>5, <2>1, <2>6, <2>7, <3>1, <3>2, <3>3, KnownStays
  <2>8. ASSUME m \notin excused' PROVE Known(m)'
    <3>1. Known(m) BY <2>1, <2>8
    <3>2. op = "edit" => \A d \in calls : ~(d.id = m /\ d.op = "edit") BY <2>1, <2>8
    <3>3. truth[m].status \in Nat /\ table[m].status \in Nat BY <1>3 DEF RowType
    <3>4. OnePlace(m)'
      <4>1. Awaits(m)' <=> Awaits(m) BY <2>6 DEF Awaits
      <4>2. Held(buffer)' = Held(buffer) /\ Held(batch)' = Held(batch) BY <2>6 DEF Held
      <4> QED BY <1>2, <1>4, <1>5, <2>1, <2>6, <3>1, <4>1, <4>2 DEF Known, OnePlace
    <3>5. BodyKnown(m)'
      BY <1>1, <1>4, <1>5, <2>1, <3>1, <3>2 DEF Known, BodyKnown
    <3>6. StatusKnown(m)'
      <4>1. \A d \in calls : d.id = m /\ d.op = "status" => d.value \in Nat BY DEF MsgTypeOK, Calls
      <4>2. CASE op = "status" /\ ~(truth[m].status > v)
        <5>1. truth'[m].status = v BY <1>4, <1>5, <4>2
        <5> QED BY <1>1, <2>1, <3>1, <3>3, <4>1, <4>2, <5>1 DEF Known, StatusKnown
      <4>3. CASE ~(op = "status" /\ ~(truth[m].status > v))
        <5>1. truth'[m].status = truth[m].status BY <1>4, <1>5, <4>3
        <5> QED BY <1>1, <2>1, <3>1, <3>3, <4>1, <4>3, <5>1 DEF Known, StatusKnown
      <4> QED BY <4>2, <4>3
    <3>7. RevokeKnown(m)' BY <1>1, <1>4, <1>5, <2>1, <3>1 DEF Known, RevokeKnown
    <3> QED BY <3>4, <3>5, <3>6, <3>7 DEF Known
  <2> QED BY <2>3, <2>4, <2>5, <2>7, <2>8
<1> QED BY <1>6, <1>7

\* An update has failed: nothing more is said of its message.
LEMMA CallFailsKeeps == ASSUME MsgIInv, NEW c \in calls, CallFails(c) PROVE MsgIInv'
<1> USE DEF MsgIInv
<1>1. /\ calls' = calls \ {c} /\ excused' = excused \union {c.id} /\ msgTrouble' \in Nat
      /\ UNCHANGED <<rowStore, truth, table, buffer, batch, timer>>
  BY DEF CallFails, MsgTrouble, MsgTypeOK, batcherVars
<1>2. c.id \in Msgs BY DEF MsgTypeOK, Calls
<1>3. MsgTypeOK' BY <1>1, <1>2 DEF MsgTypeOK
<1>4. CallTypes' /\ InPlace' BY <1>1 DEF CallTypes, InPlace
<1>5. Held(buffer') = Held(buffer) /\ Held(batch') = Held(batch) /\ Waiting' = Waiting
  BY <1>1 DEF Held, Waiting
<1>6. ASSUME NEW w \in Msgs \ excused' PROVE Known(w)'
  <2>1. Known(w) /\ w # c.id BY <1>1
  <2>2. \A d : d.id = w => (d \in calls' <=> d \in calls) BY <1>1, <2>1
  <2>3. \A p \in Held(buffer'), q \in Held(batch') : ~(p.id = w /\ q.id = w)
    BY <1>5, <2>1 DEF Known, OnePlace
  <2> QED BY <1>1, <1>5, <2>1, <2>2, <2>3, KnownStays
<1> QED BY <1>3, <1>4, <1>6

\* The server applies an update, which finds its row unless nothing more is said of it.
LEMMA ApplyKeeps == ASSUME MsgIInv, NEW c \in calls, Apply(c) PROVE MsgIInv'
<1> USE DEF MsgIInv
<1> DEFINE m == c.id
<1>1. /\ calls' = calls \ {c} /\ table' = [table EXCEPT ![m] = Applied(table[m], c)]
      /\ excused' = IF table[m].there /\ m \notin IdsOf(batch) \union IdsOf(buffer)
                      THEN excused ELSE excused \union {m}
      /\ UNCHANGED <<rowStore, truth, buffer, batch, timer, msgTrouble>>
  BY DEF Apply, batcherVars
<1>2. m \in Msgs /\ c \in Calls BY DEF MsgTypeOK, Calls
<1> HIDE DEF m
<1>3. table[m] \in RowType /\ truth[m] \in RowType BY <1>2 DEF MsgTypeOK
<1>4. /\ Applied(table[m], c) \in RowType
      /\ table[m].there =>
           /\ Applied(table[m], c).there
           /\ Applied(table[m], c).body = (IF c.op = "edit" THEN c.value ELSE table[m].body)
           /\ Applied(table[m], c).status =
                (IF c.op = "status" /\ ~(table[m].status > c.value) THEN c.value ELSE table[m].status)
           /\ Applied(table[m], c).deleted = (table[m].deleted \/ c.op = "delete")
  <2>1. c.op = "edit" => c.value \in 0 .. MaxEdits BY DEF CallTypes
  <2>2. c.op = "status" => c.value \in 0 .. ReadStatus BY DEF CallTypes
  <2> QED BY <1>2, <1>3, <2>1, <2>2, UpdateTypes, MessageRowsAssumption
<1>5. MsgTypeOK' BY <1>1, <1>2, <1>4 DEF MsgTypeOK
<1>6. CallTypes' /\ InPlace' BY <1>1 DEF CallTypes, InPlace
<1>7. Held(buffer') = Held(buffer) /\ Held(batch') = Held(batch) /\ Waiting' = Waiting
  BY <1>1 DEF Held, Waiting
<1>8. ASSUME NEW w \in Msgs \ excused', w # m PROVE Known(w)'
  <2>1. Known(w) BY <1>1
  <2>2. \A d : d.id = w => (d \in calls' <=> d \in calls) BY <1>1, <1>8 DEF m
  <2>3. \A p \in Held(buffer'), q \in Held(batch') : ~(p.id = w /\ q.id = w)
    BY <1>7, <2>1 DEF Known, OnePlace
  <2>4. table'[w] = table[w] BY <1>1, <1>8 DEF MsgTypeOK
  <2> QED BY <1>1, <1>7, <2>1, <2>2, <2>3, <2>4, KnownStays
<1>9. ASSUME m \notin excused' PROVE Known(m)'
  <2>1. Known(m) /\ table[m].there /\ m \notin IdsOf(batch) \union IdsOf(buffer) BY <1>1, <1>2, <1>9
  <2>2. table'[m] = Applied(table[m], c) BY <1>1, <1>2 DEF MsgTypeOK
  <2>3. ~Awaits(m)' /\ ~Awaits(m)
    BY <1>7, <2>1, IdsAreHeld DEF MsgTypeOK, Awaits, Waiting
  <2>4. OnePlace(m)'
    <3>1. Held(buffer)' = Held(buffer) /\ Held(batch)' = Held(batch) BY <1>7 DEF Held
    <3> QED BY <1>1, <1>4, <1>7, <2>1, <2>2, <2>3, <3>1 DEF Known, OnePlace
  <2>5. c.id = m /\ \A d \in calls : d = c \/ d \in calls' BY <1>1 DEF m
  <2>6. BodyKnown(m)'
    BY <1>1, <1>4, <2>1, <2>2, <2>5 DEF Known, BodyKnown
  <2>7. StatusKnown(m)'
    <3>1. truth[m].status \in Nat /\ table[m].status \in Nat /\ c.value \in Nat
      BY <1>2, <1>3 DEF RowType, Calls
    <3>2. CASE c.op = "status" /\ ~(table[m].status > c.value)
      <4>1. table'[m].status = c.value BY <1>4, <2>1, <2>2, <3>2
      <4> QED BY <1>1, <2>1, <2>5, <3>1, <3>2, <4>1 DEF Known, StatusKnown
    <3>3. CASE ~(c.op = "status" /\ ~(table[m].status > c.value))
      <4>1. table'[m].status = table[m].status BY <1>4, <2>1, <2>2, <3>3
      <4> QED BY <1>1, <2>1, <2>5, <3>1, <3>3, <4>1 DEF Known, StatusKnown
    <3> QED BY <3>2, <3>3
  <2>8. RevokeKnown(m)'
    BY <1>1, <1>4, <2>1, <2>2, <2>5 DEF Known, RevokeKnown
  <2> QED BY <2>4, <2>6, <2>7, <2>8 DEF Known
<1> QED BY <1>5, <1>6, <1>8, <1>9

LEMMA MsgStep == ASSUME MsgIInv, [MsgNext]_msgVars PROVE MsgIInv'
<1>1. ASSUME NEW m \in Msgs, Edit(m) PROVE MsgIInv'
  <2>1. truth[m].body \in 0 .. MaxEdits BY DEF MsgIInv, MsgTypeOK, RowType
  <2>2. Told(m, "edit", truth[m].body + 1) /\ truth[m].body + 1 \in 0 .. MaxEdits /\ truth[m].body + 1 \in Nat
    BY <1>1, <2>1, MessageRowsAssumption DEF Edit
  <2> QED BY <2>2, ToldKeeps
<1>2. ASSUME NEW m \in Msgs, NEW s \in 1 .. ReadStatus, Receipt(m, s) PROVE MsgIInv'
  <2>1. Told(m, "status", s) /\ s \in 0 .. ReadStatus /\ s \in Nat BY <1>2, MessageRowsAssumption DEF Receipt
  <2> QED BY <2>1, ToldKeeps
<1>3. ASSUME NEW m \in Msgs, Revoke(m) PROVE MsgIInv' BY <1>3, ToldKeeps DEF Revoke
<1>4. CASE UNCHANGED msgVars
  <2>1. UNCHANGED <<rowStore, truth, table, buffer, batch, timer, calls, excused, msgTrouble>>
    BY <1>4 DEF msgVars, batcherVars
  <2>2. MsgTypeOK' /\ CallTypes' /\ InPlace' BY <2>1 DEF MsgIInv, MsgTypeOK, CallTypes, InPlace
  <2>3. Waiting' = Waiting /\ Held(buffer') = Held(buffer) /\ Held(batch') = Held(batch)
    BY <2>1 DEF Waiting, Held
  <2>4. ASSUME NEW m \in Msgs \ excused' PROVE Known(m)'
    <3>1. Known(m) BY <2>1 DEF MsgIInv
    <3>2. \A p \in Held(buffer'), q \in Held(batch') : ~(p.id = m /\ q.id = m)
      BY <2>3, <3>1 DEF Known, OnePlace
    <3> QED BY <2>1, <2>3, <3>1, <3>2, KnownStays
  <2> QED BY <2>2, <2>4 DEF MsgIInv
<1> QED BY <1>1, <1>2, <1>3, <1>4, TimerKeeps, FlushKeeps, FlushFailsKeeps, MsgCrashKeeps,
           DeliverKeeps, RedeliverKeeps, ApplyKeeps, CallFailsKeeps
        DEF MsgNext

\* Once nothing of a message is under way, its row says what WhatsApp said, unless it
\* was lost, overtaken or delivered again (events/messages.*.js, lib/backpressure.js
\* and the message tables of the stores).
THEOREM RowsTellTheTruth == MsgSpec => []RowsInv
<1>1. MsgInit => MsgIInv BY MsgStart
<1>2. MsgIInv /\ [MsgNext]_msgVars => MsgIInv' BY MsgStep
<1>3. MsgIInv => RowsInv BY KnownIsRight
<1> QED BY <1>1, <1>2, <1>3, PTL DEF MsgSpec

-----------------------------------------------------------------------------
(* The levels: induction and recursion over numbers, and the tables of the model *)

\* Induction, over a set of numbers instead of a formula.
LEMMA Induct ==
  ASSUME NEW from \in Nat, NEW N \in Int, NEW P,
         \A n \in from .. N : (n = from \/ n - 1 \in P) => n \in P
  PROVE  from .. N \subseteq P
<1> DEFINE Off == {n \in from .. N : n \notin P}
<1>1. ASSUME NEW m \in Off PROVE FALSE
  <2>1. Off \in SUBSET Nat
    OBVIOUS
  <2>2. \E k \in Off : \A n \in Off : ~(<<n, k>> \in OpToRel(<, Nat))
    BY <1>1, <2>1, NatLessThanWellFounded, WFMin
  <2>3. PICK k \in Off : \A n \in Off : ~(<<n, k>> \in OpToRel(<, Nat))
    BY <2>2
  <2>4. \A n \in Off : ~(n < k)
    BY <2>1, <2>3 DEF OpToRel
  <2>5. k # from /\ k - 1 \notin P
    OBVIOUS
  <2>6. k - 1 \in Off
    BY <2>5
  <2> QED
    BY <2>4, <2>6
<1> QED
  BY <1>1

\* There is a function on a segment of the numbers with this recursion.
Recurs(from, N, V, first, next) ==
  \E f \in [from .. N -> V] : \A n \in from .. N : f[n] = IF n = from THEN first ELSE next[<<n, f[n - 1]>>]

LEMMA Recursion ==
  ASSUME NEW from \in Nat, NEW N \in Int, NEW V, NEW first \in V, NEW next \in [Int \X V -> V]
  PROVE  Recurs(from, N, V, first, next)
<1> USE DEF Recurs
<1> DEFINE Fits(f, k) == /\ f \in [from .. k -> V]
                         /\ \A n \in from .. k : f[n] = IF n = from THEN first ELSE next[<<n, f[n - 1]>>]
           Good == {k \in Int : \E f : Fits(f, k)}
<1>1. ASSUME NEW k \in from .. N, k = from \/ k - 1 \in Good PROVE k \in Good
  <2>1. CASE k = from
    <3> DEFINE g == [n \in from .. k |-> first]
    <3>1. Fits(g, k)
      BY <2>1
    <3> HIDE DEF Fits, g
    <3> QED
      BY <3>1
  <2>2. CASE k # from
    <3>1. PICK f : Fits(f, k - 1)
      BY <1>1, <2>2
    <3> DEFINE last == next[<<k, f[k - 1]>>]
               g == [n \in from .. k |-> IF n = k THEN last ELSE f[n]]
    <3>2. last \in V
      <4>1. k - 1 \in from .. k - 1
        BY <2>2
      <4> QED
        BY <3>1, <4>1
    <3>3. g \in [from .. k -> V]
      BY <3>1, <3>2
    <3>4. ASSUME NEW n \in from .. k PROVE g[n] = IF n = from THEN first ELSE next[<<n, g[n - 1]>>]
      <4>1. n # from => n - 1 \in from .. k /\ n - 1 # k
        OBVIOUS
      <4>2. n # from => g[n - 1] = f[n - 1]
        BY <4>1
      <4>3. CASE n = k
        BY <2>2, <4>2, <4>3
      <4>4. CASE n # k
        <5>1. n \in from .. k - 1
          BY <4>4
        <5> QED
          BY <3>1, <4>2, <4>4, <5>1
      <4> QED
        BY <4>3, <4>4
    <3> HIDE DEF g
    <3> QED
      BY <3>3, <3>4
  <2> QED
    BY <2>1, <2>2
<1>2. CASE N < from
  <2> DEFINE g == [n \in from .. N |-> first]
  <2>1. g \in [from .. N -> V] /\ \A n \in from .. N : g[n] = IF n = from THEN first ELSE next[<<n, g[n - 1]>>]
    BY <1>2
  <2> QED
    BY <2>1
<1>3. CASE N >= from
  <2>1. N \in from .. N
    BY <1>3
  <2> HIDE DEF Fits
  <2>2. N \in Good
    <3> HIDE DEF Good
    <3> QED
      BY <1>1, <2>1, Induct
  <2>3. PICK f : Fits(f, N)
    BY <2>2
  <2> USE DEF Fits
  <2> QED
    BY <2>3
<1> QED
  BY <1>2, <1>3

-----------------------------------------------------------------------------
(* Levels *)

\* describe(): the steps from level to level.
LEMMA StepsAre ==
  /\ MaxXp \in Nat /\ Steps \in [1 .. MaxXp + 1 -> Nat \ {0}]
<1> DEFINE V == Nat \ {0}
           next == [p \in Int \X V |-> (3 * p[2] + 1) \div 2]
<1>1. MaxXp \in Nat
  BY LevelingAssumption, FS_CardinalityType DEF MaxXp
<1>2. \A v \in V : (3 * v + 1) \div 2 \in V
  OBVIOUS
<1>3. \E f \in [1 .. MaxXp + 1 -> V] :
        \A n \in 1 .. MaxXp + 1 : f[n] = IF n = 1 THEN BaseThreshold ELSE next[<<n, f[n - 1]>>]
  <2>1. MaxXp + 1 \in Int /\ BaseThreshold \in V /\ 1 \in Nat
    BY <1>1, LevelingAssumption
  <2>2. next \in [Int \X V -> V]
    BY <1>2
  <2>3. Recurs(1, MaxXp + 1, V, BaseThreshold, next)
    <3> HIDE DEF next, V
    <3> QED
      BY <2>1, <2>2, Recursion
  <2> QED
    BY <2>3 DEF Recurs
<1>4. PICK f \in [1 .. MaxXp + 1 -> V] :
        \A n \in 1 .. MaxXp + 1 : f[n] = IF n = 1 THEN BaseThreshold ELSE next[<<n, f[n - 1]>>]
  BY <1>3
<1>5. ASSUME NEW n \in 1 .. MaxXp + 1, n # 1
      PROVE  next[<<n, f[n - 1]>>] = (3 * f[n - 1] + 1) \div 2
  <2>1. n - 1 \in 1 .. MaxXp + 1 /\ f[n - 1] \in V /\ n \in Int
    BY <1>1, <1>5
  <2> QED
    BY <2>1
<1>6. Steps = [n \in 1 .. MaxXp + 1 |-> IF n = 1 THEN BaseThreshold ELSE (3 * Steps[n - 1] + 1) \div 2]
  <2>1. f = [n \in 1 .. MaxXp + 1 |-> IF n = 1 THEN BaseThreshold ELSE (3 * f[n - 1] + 1) \div 2]
    <3> HIDE DEF next
    <3> QED
      BY <1>4, <1>5
  <2> QED
    BY <2>1 DEF Steps
<1>7. 1 .. MaxXp + 1 \subseteq {n \in Int : Steps[n] \in V}
  <2>1. ASSUME NEW n \in 1 .. MaxXp + 1, n = 1 \/ n - 1 \in {k \in Int : Steps[k] \in V}
        PROVE  n \in {k \in Int : Steps[k] \in V}
    <3>1. Steps[n] = IF n = 1 THEN BaseThreshold ELSE (3 * Steps[n - 1] + 1) \div 2
      BY <1>6
    <3> QED
      BY <1>2, <2>1, <3>1, LevelingAssumption
  <2>2. MaxXp + 1 \in Int
    BY <1>1
  <2> HIDE DEF V
  <2> QED
    BY <2>1, <2>2, Induct
<1> QED
  BY <1>1, <1>6, <1>7

\* Where each level begins.
LEMMA FloorsAre ==
  /\ Floors \in [1 .. MaxXp + 1 -> Nat]
  /\ Floors[1] = 0
  /\ \A n \in 1 .. MaxXp + 1 : n # 1 => Floors[n] = Floors[n - 1] + Steps[n - 1]
<1> DEFINE thick(n) == IF n - 1 \in 1 .. MaxXp + 1 THEN Steps[n - 1] ELSE 0
           next == [p \in Int \X Nat |-> p[2] + thick(p[1])]
<1>1. MaxXp \in Nat /\ \A n \in Int : thick(n) \in Nat
  BY StepsAre
<1>2. \E f \in [1 .. MaxXp + 1 -> Nat] :
        \A n \in 1 .. MaxXp + 1 : f[n] = IF n = 1 THEN 0 ELSE next[<<n, f[n - 1]>>]
  <2>1. next \in [Int \X Nat -> Nat]
    BY <1>1
  <2>2. MaxXp + 1 \in Int /\ 0 \in Nat /\ 1 \in Nat
    BY <1>1
  <2>3. Recurs(1, MaxXp + 1, Nat, 0, next)
    <3> HIDE DEF next
    <3> QED
      BY <2>1, <2>2, Recursion
  <2> QED
    BY <2>3 DEF Recurs
<1>3. PICK f \in [1 .. MaxXp + 1 -> Nat] :
        \A n \in 1 .. MaxXp + 1 : f[n] = IF n = 1 THEN 0 ELSE next[<<n, f[n - 1]>>]
  BY <1>2
<1>4. ASSUME NEW n \in 1 .. MaxXp + 1, n # 1
      PROVE  n - 1 \in 1 .. MaxXp + 1 /\ next[<<n, f[n - 1]>>] = f[n - 1] + Steps[n - 1]
  <2>1. n - 1 \in 1 .. MaxXp + 1 /\ f[n - 1] \in Nat /\ n \in Int
    BY <1>1, <1>4
  <2> QED
    BY <2>1
<1>5. Floors = [n \in 1 .. MaxXp + 1 |-> IF n = 1 THEN 0 ELSE Floors[n - 1] + Steps[n - 1]]
  <2>1. f = [n \in 1 .. MaxXp + 1 |-> IF n = 1 THEN 0 ELSE f[n - 1] + Steps[n - 1]]
    <3>1. \A n \in 1 .. MaxXp + 1 : f[n] = IF n = 1 THEN 0 ELSE f[n - 1] + Steps[n - 1]
      <4> HIDE DEF next
      <4> QED
        BY <1>3, <1>4
    <3> QED
      BY <3>1
  <2> QED
    BY <2>1 DEF Floors
<1>6. 1 .. MaxXp + 1 \subseteq {n \in Int : Floors[n] \in Nat}
  <2>1. ASSUME NEW n \in 1 .. MaxXp + 1, n = 1 \/ n - 1 \in {k \in Int : Floors[k] \in Nat}
        PROVE  n \in {k \in Int : Floors[k] \in Nat}
    <3>1. Floors[n] = IF n = 1 THEN 0 ELSE Floors[n - 1] + Steps[n - 1]
      BY <1>5
    <3>2. n # 1 => Steps[n - 1] \in Nat
      BY <1>1, <1>4, StepsAre
    <3> QED
      BY <2>1, <3>1, <3>2
  <2>2. MaxXp + 1 \in Int
    BY <1>1
  <2> QED
    BY <2>1, <2>2, Induct
<1> QED
  BY <1>1, <1>5, <1>6

LEMMA FloorsGrow ==
  ASSUME NEW n \in 1 .. MaxXp + 1, NEW m \in 1 .. MaxXp + 1, n < m
  PROVE  Floors[n] + Steps[n] <= Floors[m]
<1> DEFINE P == {k \in Int : Floors[n] + Steps[n] <= Floors[k]}
<1>1. MaxXp \in Nat /\ n \in Nat /\ n + 1 \in Nat /\ MaxXp + 1 \in Int
  BY StepsAre
<1>2. ASSUME NEW k \in n + 1 .. MaxXp + 1, k = n + 1 \/ k - 1 \in P PROVE k \in P
  <2>1. k \in 1 .. MaxXp + 1 /\ k # 1 /\ k - 1 \in 1 .. MaxXp + 1
    BY <1>1
  <2>2. Floors[k] = Floors[k - 1] + Steps[k - 1] /\ Floors[k - 1] \in Nat /\ Steps[k - 1] \in Nat
        /\ Floors[n] \in Nat /\ Steps[n] \in Nat
    BY <2>1, FloorsAre, StepsAre
  <2>3. CASE k = n + 1
    <3>1. k - 1 = n
      BY <1>1, <2>3
    <3> QED
      BY <2>2, <3>1
  <2>4. CASE k - 1 \in P
    BY <2>2, <2>4
  <2> QED
    BY <1>2, <2>3, <2>4
<1>3. n + 1 .. MaxXp + 1 \subseteq P
  <2> HIDE DEF P
  <2> QED
    BY <1>1, <1>2, Induct
<1>4. m \in n + 1 .. MaxXp + 1
  BY <1>1
<1> QED
  BY <1>3, <1>4

LEMMA FloorsHigh == \A n \in 1 .. MaxXp + 1 : Floors[n] >= n - 1
<1> DEFINE P == {k \in Int : Floors[k] >= k - 1}
<1>1. MaxXp \in Nat /\ MaxXp + 1 \in Int
  BY StepsAre
<1>2. ASSUME NEW k \in 1 .. MaxXp + 1, k = 1 \/ k - 1 \in P PROVE k \in P
  <2>1. CASE k = 1
    BY <2>1, FloorsAre
  <2>2. CASE k # 1
    <3>1. k - 1 \in 1 .. MaxXp + 1
      BY <1>1, <2>2
    <3>2. Floors[k] = Floors[k - 1] + Steps[k - 1] /\ Floors[k - 1] \in Nat /\ Steps[k - 1] \in Nat \ {0}
      BY <2>2, <3>1, FloorsAre, StepsAre
    <3> QED
      BY <1>2, <2>2, <3>2
  <2> QED
    BY <2>1, <2>2
<1>3. 1 .. MaxXp + 1 \subseteq P
  <2> HIDE DEF P
  <2> QED
    BY <1>1, <1>2, Induct
<1> QED
  BY <1>3

\* Every amount of XP has a level, whose range it is in.
LEMMA LevelIs ==
  ASSUME NEW x \in 0 .. MaxXp
  PROVE  /\ Level(x) \in 1 .. MaxXp + 1
         /\ Floors[Level(x)] <= x /\ x < Floors[Level(x)] + Steps[Level(x)]
<1>1. MaxXp \in Nat /\ MaxXp + 1 \in 1 .. MaxXp + 1 /\ MaxXp + 1 \in Int
  BY StepsAre
<1>2. \E n \in 1 .. MaxXp + 1 : Floors[n] <= x /\ x < Floors[n] + Steps[n]
  <2>1. SUFFICES ASSUME \A n \in 1 .. MaxXp + 1 : ~(Floors[n] <= x /\ x < Floors[n] + Steps[n])
                 PROVE  FALSE
    OBVIOUS
  <2> DEFINE P == {k \in Int : Floors[k] <= x}
  <2>2. ASSUME NEW k \in 1 .. MaxXp + 1, k = 1 \/ k - 1 \in P PROVE k \in P
    <3>1. CASE k = 1
      BY <1>1, <3>1, FloorsAre
    <3>2. CASE k # 1
      <4>1. k - 1 \in 1 .. MaxXp + 1
        BY <1>1, <3>2
      <4>2. Floors[k] = Floors[k - 1] + Steps[k - 1] /\ Floors[k - 1] \in Nat /\ Steps[k - 1] \in Nat
        BY <3>2, <4>1, FloorsAre, StepsAre
      <4>3. ~(Floors[k - 1] <= x /\ x < Floors[k - 1] + Steps[k - 1])
        BY <2>1, <4>1
      <4> QED
        BY <1>1, <2>2, <3>2, <4>2, <4>3
    <3> QED
      BY <3>1, <3>2
  <2>3. 1 .. MaxXp + 1 \subseteq P
    <3> HIDE DEF P
    <3> QED
      BY <1>1, <2>2, Induct
  <2>4. Floors[MaxXp + 1] <= x
    BY <1>1, <2>3
  <2>5. Floors[MaxXp + 1] >= MaxXp /\ Floors[MaxXp + 1] \in Nat /\ Steps[MaxXp + 1] \in Nat \ {0}
    BY <1>1, FloorsHigh, FloorsAre, StepsAre
  <2>6. ~(Floors[MaxXp + 1] <= x /\ x < Floors[MaxXp + 1] + Steps[MaxXp + 1])
    BY <1>1, <2>1
  <2> QED
    BY <1>1, <2>4, <2>5, <2>6
<1> QED
  BY <1>2 DEF Level

LEMMA LevelGrows ==
  ASSUME NEW x \in 0 .. MaxXp, NEW y \in 0 .. MaxXp, x <= y
  PROVE  Level(x) <= Level(y)
<1>1. /\ Level(x) \in 1 .. MaxXp + 1 /\ Floors[Level(x)] <= x
      /\ Level(y) \in 1 .. MaxXp + 1 /\ y < Floors[Level(y)] + Steps[Level(y)]
      /\ MaxXp \in Nat
  BY LevelIs, StepsAre
<1>2. Floors[Level(x)] \in Nat /\ Floors[Level(y)] \in Nat /\ Steps[Level(y)] \in Nat
  BY <1>1, FloorsAre, StepsAre
<1>3. Level(y) < Level(x) => Floors[Level(y)] + Steps[Level(y)] <= Floors[Level(x)]
  BY <1>1, FloorsGrow
<1> QED
  BY <1>1, <1>2, <1>3

LEMMA LevelsAre ==
  /\ 0 \in 0 .. MaxXp /\ Level(0) = 1 /\ 1 \in Levels /\ Levels \subseteq Nat
  /\ \A x \in 0 .. MaxXp : Level(x) \in Levels
<1>1. MaxXp \in Nat /\ 0 \in 0 .. MaxXp /\ MaxXp \in 0 .. MaxXp /\ 1 \in 1 .. MaxXp + 1
  BY StepsAre
<1>2. ASSUME NEW x \in 0 .. MaxXp PROVE Level(x) \in Levels
  <2>1. Level(x) \in 1 .. MaxXp + 1 /\ Level(MaxXp) \in 1 .. MaxXp + 1 /\ x <= MaxXp
    BY <1>1, LevelIs
  <2>2. Level(x) <= Level(MaxXp)
    BY <1>1, <2>1, LevelGrows
  <2> QED
    BY <1>1, <2>1, <2>2 DEF Levels
<1>3. Level(0) = 1
  <2>1. Level(0) \in 1 .. MaxXp + 1 /\ Floors[Level(0)] <= 0 /\ Floors[Level(0)] \in Nat
    BY <1>1, LevelIs, FloorsAre
  <2>2. 1 < Level(0) => Floors[1] + Steps[1] <= Floors[Level(0)]
    BY <1>1, <2>1, FloorsGrow
  <2>3. Floors[1] = 0 /\ Steps[1] \in Nat \ {0}
    BY <1>1, FloorsAre, StepsAre
  <2> QED
    BY <1>1, <2>1, <2>2, <2>3
<1>4. Levels \subseteq Nat
  BY <1>1 DEF Levels
<1> QED
  BY <1>1, <1>2, <1>3, <1>4

-----------------------------------------------------------------------------
(* Decay *)

LEMMA PartsAre == Parts \in [Weeks -> Nat \ {0}] /\ (0 \in Weeks => Parts[0] = 1)
<1> DEFINE V == Nat \ {0}
           next == [p \in Int \X V |-> 2 * p[2]]
<1>1. MaxWeek \in Nat /\ Weeks = 0 .. MaxWeek
  BY LevelingAssumption DEF Weeks
<1>2. \E f \in [0 .. MaxWeek -> V] : \A n \in 0 .. MaxWeek : f[n] = IF n = 0 THEN 1 ELSE next[<<n, f[n - 1]>>]
  <2>1. next \in [Int \X V -> V] /\ MaxWeek \in Int /\ 1 \in V /\ 0 \in Nat
    BY <1>1
  <2>2. Recurs(0, MaxWeek, V, 1, next)
    <3> HIDE DEF next, V
    <3> QED
      BY <2>1, Recursion
  <2> QED
    BY <2>2 DEF Recurs
<1>3. PICK f \in [0 .. MaxWeek -> V] : \A n \in 0 .. MaxWeek : f[n] = IF n = 0 THEN 1 ELSE next[<<n, f[n - 1]>>]
  BY <1>2
<1>4. f = [n \in Weeks |-> IF n = 0 THEN 1 ELSE 2 * f[n - 1]]
  <2>1. ASSUME NEW n \in 0 .. MaxWeek, n # 0 PROVE next[<<n, f[n - 1]>>] = 2 * f[n - 1]
    <3>1. n - 1 \in 0 .. MaxWeek /\ f[n - 1] \in V /\ n \in Int
      BY <1>1, <2>1
    <3> QED
      BY <3>1
  <2>2. \A n \in 0 .. MaxWeek : f[n] = IF n = 0 THEN 1 ELSE 2 * f[n - 1]
    <3> HIDE DEF next
    <3> QED
      BY <1>3, <2>1
  <2> QED
    BY <1>1, <2>2
<1>5. Parts = [n \in Weeks |-> IF n = 0 THEN 1 ELSE 2 * Parts[n - 1]]
  BY <1>4 DEF Parts
<1>6. 0 .. MaxWeek \subseteq {n \in Int : Parts[n] \in V}
  <2>1. ASSUME NEW n \in 0 .. MaxWeek, n = 0 \/ n - 1 \in {k \in Int : Parts[k] \in V}
        PROVE  n \in {k \in Int : Parts[k] \in V}
    <3>1. Parts[n] = IF n = 0 THEN 1 ELSE 2 * Parts[n - 1]
      BY <1>1, <1>5
    <3> QED
      BY <2>1, <3>1
  <2>2. MaxWeek \in Int
    BY <1>1
  <2> HIDE DEF V
  <2> QED
    BY <2>1, <2>2, Induct
<1> QED
  BY <1>1, <1>5, <1>6

LEMMA DecayedIs ==
  ASSUME NEW x \in Nat, NEW at \in {NotSeen} \union Weeks, NEW seenBy \in Weeks
  PROVE  /\ Decayed(x, at, seenBy) \in 0 .. x
         /\ at = NotSeen \/ seenBy - at <= Grace => Decayed(x, at, seenBy) = x
<1>1. MaxWeek \in Nat /\ Grace \in Nat
  BY LevelingAssumption
<1>2. WeeksOver(at, seenBy) \in Weeks /\ 0 \in Weeks
  <2>1. CASE at = NotSeen
    BY <1>1, <2>1 DEF WeeksOver, Weeks
  <2>2. CASE at # NotSeen
    BY <1>1, <2>2 DEF WeeksOver, Weeks
  <2> QED
    BY <2>1, <2>2
<1>3. Parts[WeeksOver(at, seenBy)] \in Nat \ {0} /\ Parts[0] = 1
  BY <1>2, PartsAre
<1>4. \A y \in Nat \ {0} : x \div y \in 0 .. x
  OBVIOUS
<1>5. x \div 1 = x
  OBVIOUS
<1>6. at = NotSeen \/ seenBy - at <= Grace => WeeksOver(at, seenBy) = 0
  BY DEF WeeksOver
<1> QED
  BY <1>3, <1>4, <1>5, <1>6 DEF Decayed, Halved

-----------------------------------------------------------------------------
(* The XP of a user *)

Done == {a \in Awards : award[a].at \in {"added", "done"}}

\* The user was congratulated on this level or on a higher one, or will be when an
\* award that was added concludes.
Promised(l) ==
  \/ l <= announced
  \/ \E a \in Awards : /\ award[a].at = "added" /\ Level(award[a].total) > award[a].level
                       /\ l <= Level(award[a].total)

\* Not the level of now alone, but every level that an award or the sweep has read, and
\* may compare with or write back.
LevelsPromised ==
  unheard \/ /\ Promised(Level(xp)) /\ Promised(Level(sweep.xp))
             /\ \A a \in Awards : award[a].at = "read" => Promised(award[a].level)

\* Unless an award and a sweep have crossed, the row was seen when the XP was last
\* awarded, or on REDIS is about to be; and a sweep is under way for a row that nobody
\* has seen within the grace.
SeenWhenAwarded ==
  ~crossed =>
    /\ lastAt = NotSeen \/ lastAt >= fair.at \/ (levelStore = "redis" /\ \E a \in Awards : award[a].at = "added")
    /\ sweep # NoSweepUnderWay => sweep.now <= week /\ sweep.now - fair.at > Grace

Earned == xp <= Award * Cardinality(Done) /\ sweep.xp <= Award * Cardinality(Done)

FairIsPast == fair.at <= week

LevelIInv == LevelingTypeOK /\ FairIsPast /\ Earned /\ LevelsPromised /\ SeenWhenAwarded /\ ActiveKeepXp

LEMMA LevelTypes ==
  ASSUME LevelingTypeOK
  PROVE  /\ MaxXp \in Nat /\ week \in Nat /\ xp \in Nat /\ xp <= MaxXp /\ sweep.xp \in Nat /\ sweep.xp <= MaxXp
         /\ xp \in 0 .. MaxXp /\ sweep.xp \in 0 .. MaxXp /\ sweep.lastAt \in {NotSeen} \union Weeks /\ sweep.now \in Weeks
         /\ sweep.now \in Nat /\ (lastAt = NotSeen \/ lastAt \in Nat) /\ NotSeen = -1 /\ Grace \in Nat \ {0}
         /\ fair.at \in Nat /\ fair.xp \in Nat /\ announced \in Nat /\ week \in Weeks /\ Weeks \subseteq Nat
         /\ \A a \in Awards : /\ award[a].level \in Levels /\ award[a].level \in Nat
                              /\ award[a].total \in 0 .. MaxXp /\ Level(award[a].total) \in Nat
         /\ Level(xp) \in Nat /\ Level(sweep.xp) \in Nat
<1>1. /\ MaxXp \in Nat /\ Grace \in Nat \ {0} /\ NotSeen = -1 /\ MaxWeek \in Nat /\ Weeks \subseteq Nat
      /\ Levels \subseteq Nat
  BY StepsAre, LevelsAre, LevelingAssumption DEF NotSeen, Weeks
<1>2. /\ xp \in 0 .. MaxXp /\ sweep.xp \in 0 .. MaxXp /\ week \in Weeks /\ sweep.now \in Weeks
      /\ lastAt \in {NotSeen} \union Weeks /\ sweep.lastAt \in {NotSeen} \union Weeks
      /\ fair.xp \in 0 .. MaxXp /\ fair.at \in Weeks /\ announced \in Levels
  BY DEF LevelingTypeOK
<1>3. \A a \in Awards : award[a].level \in Levels /\ award[a].total \in 0 .. MaxXp
  BY DEF LevelingTypeOK
<1>4. \A x \in 0 .. MaxXp : Level(x) \in Nat
  BY <1>1, LevelsAre
<1>5. /\ \A a \in Awards : award[a].level \in Nat /\ Level(award[a].total) \in Nat
      /\ Level(xp) \in Nat /\ Level(sweep.xp) \in Nat
  BY <1>1, <1>2, <1>3, <1>4
<1>6. /\ week \in Nat /\ xp \in Nat /\ xp <= MaxXp /\ sweep.xp \in Nat /\ sweep.xp <= MaxXp
      /\ sweep.now \in Nat /\ (lastAt = NotSeen \/ lastAt \in Nat)
      /\ fair.at \in Nat /\ fair.xp \in Nat /\ announced \in Nat
  <2>1. \A x \in 0 .. MaxXp : x \in Nat /\ x <= MaxXp
    BY <1>1
  <2>2. xp \in Nat /\ xp <= MaxXp /\ sweep.xp \in Nat /\ sweep.xp <= MaxXp /\ fair.xp \in Nat
    BY <1>2, <2>1
  <2>3. week \in Nat /\ sweep.now \in Nat /\ (lastAt = NotSeen \/ lastAt \in Nat) /\ fair.at \in Nat /\ announced \in Nat
    BY <1>1, <1>2
  <2> QED
    BY <2>2, <2>3
<1> QED
  BY <1>1, <1>2, <1>3, <1>5, <1>6

\* One more award is added, and no more than there are.
LEMMA EarnedMore ==
  ASSUME LevelingTypeOK, NEW D, D \subseteq Awards, Done \subseteq D
  PROVE  /\ Cardinality(Done) \in Nat /\ Cardinality(D) \in Nat
         /\ Award * Cardinality(Done) <= Award * Cardinality(D) /\ Award * Cardinality(D) <= MaxXp
         /\ \A a \in D \ Done : Award * Cardinality(Done) + Award <= Award * Cardinality(D)
<1>1. IsFiniteSet(Awards) /\ Award \in Nat \ {0}
  BY LevelingAssumption
<1>2. /\ Cardinality(D) <= Cardinality(Awards) /\ Cardinality(Awards) \in Nat /\ Cardinality(D) \in Nat /\ IsFiniteSet(D)
  BY <1>1, FS_Subset, FS_CardinalityType
<1>3. Cardinality(Done) <= Cardinality(D) /\ Cardinality(Done) \in Nat /\ IsFiniteSet(Done)
  BY <1>2, FS_Subset, FS_CardinalityType
<1>4. ASSUME NEW a \in D \ Done PROVE Cardinality(Done) + 1 <= Cardinality(D)
  <2>1. Cardinality(Done \union {a}) = Cardinality(Done) + 1
    BY <1>3, FS_AddElement
  <2>2. Cardinality(Done \union {a}) <= Cardinality(D)
    BY <1>2, FS_Subset
  <2> QED
    BY <2>1, <2>2
<1>5. \A i, j \in Nat : /\ i <= j => Award * i <= Award * j
                        /\ i + 1 <= j => Award * i + Award <= Award * j
  <2>1. ASSUME NEW i \in Nat, NEW j \in Nat, i <= j PROVE Award * i <= Award * j
    BY <1>1, <2>1
  <2>2. ASSUME NEW i \in Nat, NEW j \in Nat, i + 1 <= j PROVE Award * i + Award <= Award * j
    <3>1. Award * (i + 1) <= Award * j /\ Award * (i + 1) = Award * i + Award
      BY <1>1, <2>2
    <3> QED
      BY <3>1
  <2> QED
    BY <2>1, <2>2
<1>6. MaxXp = Award * Cardinality(Awards)
  BY <1>1, <1>2 DEF MaxXp
<1> QED
  BY <1>2, <1>3, <1>4, <1>5, <1>6

LEMMA LevelStarts == ASSUME LevelingInit PROVE LevelIInv
<1>1. /\ MaxXp \in Nat /\ 0 \in 0 .. MaxXp /\ Level(0) = 1 /\ 1 \in Levels /\ 0 \in Weeks
      /\ Award \in Nat
  BY StepsAre, LevelsAre, LevelingAssumption DEF Weeks
<1>2. LevelingTypeOK
  BY <1>1 DEF LevelingInit, LevelingTypeOK, NoSweepUnderWay
<1>3. Done = {}
  BY DEF LevelingInit, Done
<1>4. Earned
  BY <1>1, <1>3, FS_EmptySet DEF LevelingInit, Earned, NoSweepUnderWay
<1>5. LevelsPromised
  BY <1>1 DEF LevelingInit, LevelsPromised, Promised, NoSweepUnderWay
<1>6. SeenWhenAwarded /\ ActiveKeepXp
  BY DEF LevelingInit, SeenWhenAwarded, ActiveKeepXp
<1>7. FairIsPast
  BY DEF LevelingInit, FairIsPast
<1> QED
  BY <1>2, <1>4, <1>5, <1>6, <1>7 DEF LevelIInv

\* Steps that leave the awards alone.
LEMMA DoneStays ==
  ASSUME LevelIInv, award' = award, xp' <= xp \/ xp' <= sweep.xp, xp' \in Nat, sweep'.xp \in {xp, sweep.xp, 0}
  PROVE  Earned'
<1>1. Done' = Done /\ LevelingTypeOK
  BY DEF Done, LevelIInv
<1>2. Award * Cardinality(Done) \in Nat
  BY <1>1, EarnedMore, LevelingAssumption DEF Done
<1> QED
  BY <1>1, <1>2, LevelTypes DEF LevelIInv, Earned

\* Levels that were promised stay so, and lower ones are.
LEMMA PromisesStay ==
  ASSUME LevelIInv, award' = award, announced' = announced, unheard' = unheard,
         NEW x \in {xp, sweep.xp}, NEW y \in {xp, sweep.xp},
         xp' \in 0 .. x, sweep'.xp \in 0 .. y
  PROVE  LevelsPromised'
<1>1. /\ x \in 0 .. MaxXp /\ y \in 0 .. MaxXp /\ xp' \in 0 .. MaxXp /\ sweep'.xp \in 0 .. MaxXp
      /\ announced \in Nat /\ \A a \in Awards : Level(award[a].total) \in Nat
  BY LevelTypes DEF LevelIInv
<1>2. Level(xp') <= Level(x) /\ Level(sweep'.xp) <= Level(y)
  BY <1>1, LevelGrows
<1>3. Level(xp') \in Nat /\ Level(x) \in Nat /\ Level(sweep'.xp) \in Nat /\ Level(y) \in Nat
  BY <1>1, LevelsAre
<1>4. CASE ~unheard
  <2>1. Promised(Level(x)) /\ Promised(Level(y)) /\ \A a \in Awards : award[a].at = "read" => Promised(award[a].level)
    BY <1>4 DEF LevelIInv, LevelsPromised
  <2>2. ASSUME NEW l \in Nat, NEW m \in Nat, l <= m, Promised(m) PROVE Promised(l)
    BY <1>1, <2>2 DEF Promised
  <2>3. Promised(Level(xp')) /\ Promised(Level(sweep'.xp))
    BY <1>2, <1>3, <2>1, <2>2
  <2> QED
    BY <2>1, <2>3 DEF LevelsPromised, Promised
<1>5. CASE unheard
  BY <1>5 DEF LevelsPromised
<1> QED
  BY <1>4, <1>5

LEMMA SweepKeeps ==
  ASSUME LevelIInv, DecaysAtOnce \/ DecayReads \/ DecayWrites \/ DecayFails \/ WeekPasses
  PROVE  LevelIInv'
<1>1. /\ MaxXp \in Nat /\ week \in Nat /\ xp \in Nat /\ xp <= MaxXp /\ sweep.xp \in Nat /\ sweep.xp <= MaxXp
      /\ xp \in 0 .. MaxXp /\ sweep.xp \in 0 .. MaxXp /\ sweep.lastAt \in {NotSeen} \union Weeks /\ sweep.now \in Weeks
      /\ sweep.now \in Nat /\ (lastAt = NotSeen \/ lastAt \in Nat) /\ NotSeen = -1 /\ Grace \in Nat \ {0}
      /\ fair.at \in Nat /\ fair.xp \in Nat /\ week \in Weeks /\ LevelingTypeOK
      /\ lastAt \in {NotSeen} \union Weeks
  BY LevelTypes DEF LevelIInv, LevelingTypeOK
<1>2. NoSweepUnderWay \in [xp : 0 .. MaxXp, lastAt : {NotSeen} \union Weeks, now : Weeks] /\ NoSweepUnderWay.xp = 0
  BY <1>1, LevelingAssumption DEF NoSweepUnderWay, Weeks
<1>3. CASE DecaysAtOnce
  <2>1. /\ levelStore = "sqlite" /\ xp' = Decayed(xp, lastAt, week) /\ crossed' = crossed
        /\ UNCHANGED <<levelStore, lastAt, award, sweep, week, announced, fair, unheard, xpTrouble>>
    BY <1>3 DEF DecaysAtOnce, sweepVars
  <2>2. xp' \in 0 .. xp /\ (lastAt = NotSeen \/ week - lastAt <= Grace => xp' = xp)
    BY <1>1, <2>1, DecayedIs
  <2>3. xp' \in 0 .. MaxXp /\ xp' <= xp /\ xp' \in Nat
    BY <1>1, <2>2
  <2>4. LevelingTypeOK'
    BY <1>1, <2>1, <2>3 DEF LevelingTypeOK
  <2>5. Earned'
    BY <2>1, <2>3, DoneStays
  <2>6. LevelsPromised'
    <3>1. sweep'.xp \in 0 .. sweep.xp
      BY <1>1, <2>1
    <3> QED
      BY <2>1, <2>2, <3>1, PromisesStay
  <2>7. SeenWhenAwarded'
    BY <2>1 DEF LevelIInv, SeenWhenAwarded
  <2>8. ActiveKeepXp'
    <3>1. ~crossed /\ week - fair.at <= Grace => lastAt = NotSeen \/ week - lastAt <= Grace
      <4>1. ~crossed => lastAt = NotSeen \/ lastAt >= fair.at
        BY <2>1 DEF LevelIInv, SeenWhenAwarded
      <4> QED
        BY <1>1, <4>1
    <3> QED
      BY <2>1, <2>2, <3>1 DEF LevelIInv, ActiveKeepXp
  <2>9. FairIsPast'
    BY <2>1 DEF LevelIInv, FairIsPast
  <2> QED
    BY <2>4, <2>5, <2>6, <2>7, <2>8, <2>9 DEF LevelIInv
<1>4. CASE DecayReads
  <2>1. /\ sweep' = [xp |-> xp, lastAt |-> lastAt, now |-> week] /\ Decayed(xp, lastAt, week) < xp
        /\ crossed' = (crossed \/ \E a \in Awards : award[a].at = "added" /\ levelStore = "redis")
        /\ UNCHANGED <<levelStore, week, xp, lastAt, award, announced, fair, unheard, xpTrouble>>
    BY <1>4 DEF DecayReads, rowVars
  <2>2. lastAt # NotSeen /\ week - lastAt > Grace
    <3>1. lastAt = NotSeen \/ week - lastAt <= Grace => Decayed(xp, lastAt, week) = xp
      BY <1>1, DecayedIs
    <3> QED
      BY <1>1, <2>1, <3>1
  <2>3. sweep'.xp = xp /\ sweep'.now = week
    BY <2>1
  <2>4. LevelingTypeOK'
    <3>1. sweep' \in [xp : 0 .. MaxXp, lastAt : {NotSeen} \union Weeks, now : Weeks] /\ crossed' \in BOOLEAN
      BY <1>1, <2>1 DEF LevelingTypeOK
    <3> QED
      BY <1>1, <2>1, <3>1 DEF LevelingTypeOK
  <2>5. Earned'
    BY <1>1, <2>1, <2>3, DoneStays
  <2>6. LevelsPromised'
    <3>1. xp' \in 0 .. xp /\ sweep'.xp \in 0 .. xp
      BY <1>1, <2>1, <2>3
    <3> QED
      BY <2>1, <3>1, PromisesStay
  <2>7. SeenWhenAwarded'
    <3>1. ~crossed' => ~crossed /\ lastAt >= fair.at
      BY <2>1, <2>2 DEF LevelIInv, SeenWhenAwarded
    <3>2. ~crossed' => sweep'.now <= week' /\ sweep'.now - fair'.at > Grace
      BY <1>1, <2>1, <2>2, <2>3, <3>1
    <3> QED
      BY <2>1, <3>1, <3>2 DEF SeenWhenAwarded
  <2>8. ActiveKeepXp'
    BY <2>1 DEF LevelIInv, ActiveKeepXp
  <2>9. FairIsPast'
    BY <2>1 DEF LevelIInv, FairIsPast
  <2> QED
    BY <2>4, <2>5, <2>6, <2>7, <2>8, <2>9 DEF LevelIInv
<1>5. CASE DecayWrites
  <2>1. /\ sweep # NoSweepUnderWay /\ xp' = Decayed(sweep.xp, sweep.lastAt, sweep.now) /\ sweep' = NoSweepUnderWay
        /\ UNCHANGED <<levelStore, week, lastAt, award, announced, fair, crossed, unheard, xpTrouble>>
    BY <1>5 DEF DecayWrites
  <2>2. xp' \in 0 .. sweep.xp
    BY <1>1, <2>1, DecayedIs
  <2>3. xp' \in 0 .. MaxXp /\ xp' <= sweep.xp /\ xp' \in Nat /\ sweep'.xp = 0
    BY <1>1, <1>2, <2>1, <2>2
  <2>4. LevelingTypeOK'
    BY <1>1, <1>2, <2>1, <2>3 DEF LevelingTypeOK
  <2>5. Earned'
    BY <2>1, <2>3, DoneStays
  <2>6. LevelsPromised'
    <3>1. sweep'.xp \in 0 .. xp
      BY <1>1, <2>3
    <3> QED
      BY <2>1, <2>2, <3>1, PromisesStay
  <2>7. SeenWhenAwarded'
    BY <2>1 DEF LevelIInv, SeenWhenAwarded
  <2>8. ActiveKeepXp'
    <3>1. ~crossed => week - fair.at > Grace
      <4>1. ~crossed => sweep.now <= week /\ sweep.now - fair.at > Grace
        BY <2>1 DEF LevelIInv, SeenWhenAwarded
      <4> QED
        BY <1>1, <4>1
    <3>2. ~(week - fair.at > Grace /\ week - fair.at <= Grace)
      BY <1>1
    <3> QED
      BY <2>1, <3>1, <3>2 DEF ActiveKeepXp
  <2>9. FairIsPast'
    BY <2>1 DEF LevelIInv, FairIsPast
  <2> QED
    BY <2>4, <2>5, <2>6, <2>7, <2>8, <2>9 DEF LevelIInv
<1>6. CASE DecayFails
  <2>1. /\ sweep' = NoSweepUnderWay /\ xpTrouble < MaxXpTrouble /\ xpTrouble' = xpTrouble + 1
        /\ UNCHANGED <<levelStore, week, xp, lastAt, award, announced, fair, crossed, unheard>>
    BY <1>6 DEF DecayFails, rowVars, XpTrouble
  <2>2. sweep'.xp = 0
    BY <1>2, <2>1
  <2>3. LevelingTypeOK'
    BY <1>1, <1>2, <2>1 DEF LevelingTypeOK
  <2>4. Earned'
    BY <1>1, <2>1, <2>2, DoneStays
  <2>5. LevelsPromised'
    <3>1. xp' \in 0 .. xp /\ sweep'.xp \in 0 .. xp
      BY <1>1, <2>1, <2>2
    <3> QED
      BY <2>1, <3>1, PromisesStay
  <2> QED
    BY <2>1, <2>3, <2>4, <2>5 DEF LevelIInv, SeenWhenAwarded, ActiveKeepXp, FairIsPast
<1>7. CASE WeekPasses
  <2>1. /\ week < MaxWeek /\ week' = week + 1
        /\ UNCHANGED <<levelStore, xp, lastAt, award, sweep, announced, fair, crossed, unheard, xpTrouble>>
    BY <1>7 DEF WeekPasses, rowVars
  <2>2. week' \in Weeks
    BY <1>1, <2>1, LevelingAssumption DEF Weeks
  <2>3. LevelingTypeOK'
    BY <1>1, <2>1, <2>2 DEF LevelingTypeOK
  <2>4. Earned'
    BY <1>1, <2>1, DoneStays
  <2>5. LevelsPromised'
    <3>1. xp' \in 0 .. xp /\ sweep'.xp \in 0 .. sweep.xp
      BY <1>1, <2>1
    <3> QED
      BY <2>1, <3>1, PromisesStay
  <2>6. SeenWhenAwarded'
    <3>1. sweep.now <= week => sweep.now <= week'
      BY <1>1, <2>1
    <3> QED
      BY <2>1, <3>1 DEF LevelIInv, SeenWhenAwarded
  <2>7. ActiveKeepXp'
    <3>1. week' - fair.at <= Grace => week - fair.at <= Grace
      BY <1>1, <2>1
    <3> QED
      BY <2>1, <3>1 DEF LevelIInv, ActiveKeepXp
  <2>8. FairIsPast'
    BY <1>1, <2>1 DEF LevelIInv, FairIsPast
  <2> QED
    BY <2>3, <2>4, <2>5, <2>6, <2>7, <2>8 DEF LevelIInv
<1> QED
  BY <1>3, <1>4, <1>5, <1>6, <1>7

LEMMA ReadKeeps == ASSUME LevelIInv, NEW a \in Awards, ReadsLevel(a) PROVE LevelIInv'
<1>1. /\ LevelingTypeOK /\ xp \in 0 .. MaxXp /\ announced \in Nat /\ award[a].at = "new"
      /\ 1 \in Levels /\ Level(xp) \in Levels
  BY LevelTypes, LevelsAre DEF LevelIInv, LevelingTypeOK, ReadsLevel
<1>2. PICK l \in {Level(xp), 1} : award' = [award EXCEPT ![a] = [@ EXCEPT !.at = "read", !.level = l]]
  BY DEF ReadsLevel
<1>3. UNCHANGED <<levelStore, week, xp, lastAt, sweep, announced, fair, crossed, unheard>>
      /\ (xpTrouble' = xpTrouble \/ xpTrouble' = xpTrouble + 1)
  BY DEF ReadsLevel, rowVars, sweepVars, XpTrouble
<1>4. /\ award \in [Awards -> [at : {"new", "read", "added", "done"}, level : Levels, total : 0 .. MaxXp]]
      /\ l \in Levels
  BY <1>1 DEF LevelingTypeOK
<1>5. /\ award' \in [Awards -> [at : {"new", "read", "added", "done"}, level : Levels, total : 0 .. MaxXp]]
      /\ award'[a].at = "read" /\ award'[a].level = l
      /\ \A b \in Awards : b # a => award'[b] = award[b]
  BY <1>2, <1>4
<1>6. LevelingTypeOK'
  <2>1. xpTrouble' \in Nat
    BY <1>1, <1>3 DEF LevelingTypeOK
  <2> QED
    BY <1>1, <1>3, <1>5, <2>1 DEF LevelingTypeOK
<1>7. Done' = Done
  BY <1>1, <1>5 DEF Done
<1>8. Earned'
  BY <1>3, <1>7 DEF LevelIInv, Earned
<1>9. \A b \in Awards : award[b].at = "added" => award'[b] = award[b]
  BY <1>1, <1>5
<1>10. LevelsPromised'
  <2>1. ASSUME NEW k, Promised(k) PROVE Promised(k)'
    BY <1>3, <1>9, <2>1 DEF Promised
  <2>2. CASE ~unheard
    <3>1. Promised(Level(xp))' /\ Promised(Level(sweep.xp))'
      BY <1>3, <2>1, <2>2 DEF LevelIInv, LevelsPromised
    <3>2. Promised(1)'
      <4>1. 1 <= announced
        BY <1>1 DEF LevelingTypeOK, Levels
      <4> QED
        BY <1>3, <4>1 DEF Promised
    <3>3. ASSUME NEW b \in Awards, award'[b].at = "read" PROVE Promised(award[b].level)'
      <4>1. CASE b = a
        BY <1>3, <1>5, <3>1, <3>2, <4>1
      <4>2. CASE b # a
        <5>1. Promised(award[b].level)
          BY <1>5, <2>2, <3>3, <4>2 DEF LevelIInv, LevelsPromised
        <5> QED
          BY <1>3, <1>5, <1>9, <4>2, <5>1 DEF Promised
      <4> QED
        BY <4>1, <4>2
    <3> QED
      BY <3>1, <3>3 DEF LevelsPromised
  <2>3. CASE unheard
    BY <1>3, <2>3 DEF LevelsPromised
  <2> QED
    BY <2>2, <2>3
<1>11. SeenWhenAwarded'
  BY <1>3, <1>9 DEF LevelIInv, SeenWhenAwarded
<1> QED
  BY <1>3, <1>6, <1>8, <1>10, <1>11 DEF LevelIInv, ActiveKeepXp, FairIsPast

\* An addition, told or not.
LEMMA AdditionKeeps ==
  ASSUME LevelIInv, NEW a \in Awards, award[a].at = "read", NEW to \in {"added", "done"}, NEW t \in Nat,
         award' = [award EXCEPT ![a] = [@ EXCEPT !.at = to, !.total = t]],
         xp' \in {xp, xp + Award}, t = xp' \/ t = award[a].total,
         levelStore' = levelStore, week' = week, sweep' = sweep, announced' = announced
  PROVE  /\ award' \in [Awards -> [at : {"new", "read", "added", "done"}, level : Levels, total : 0 .. MaxXp]]
         /\ award'[a].at = to /\ award'[a].total = t /\ award'[a].level = award[a].level
         /\ \A b \in Awards : b # a => award'[b] = award[b]
         /\ \A b \in Awards : award[b].at = "added" => award'[b] = award[b]
         /\ xp' \in 0 .. MaxXp /\ Earned'
<1>1. /\ LevelingTypeOK /\ xp \in Nat /\ MaxXp \in Nat /\ sweep.xp \in Nat /\ Award \in Nat
      /\ award[a].total \in 0 .. MaxXp
      /\ award \in [Awards -> [at : {"new", "read", "added", "done"}, level : Levels, total : 0 .. MaxXp]]
  BY LevelTypes, LevelingAssumption DEF LevelIInv, LevelingTypeOK
<1>2. award'[a].at = to /\ award'[a].total = t /\ award'[a].level = award[a].level
      /\ \A b \in Awards : b # a => award'[b] = award[b]
  BY <1>1
<1>3. Done' = Done \union {a} /\ a \notin Done /\ Done \subseteq Awards
  BY <1>2 DEF Done
<1>4. /\ Cardinality(Done) \in Nat /\ Cardinality(Done') \in Nat
      /\ Award * Cardinality(Done) <= Award * Cardinality(Done') /\ Award * Cardinality(Done') <= MaxXp
      /\ Award * Cardinality(Done) + Award <= Award * Cardinality(Done')
  <2> DEFINE D == Done \union {a}
  <2>1. D \subseteq Awards /\ Done \subseteq D /\ a \in D \ Done
    BY <1>3
  <2> HIDE DEF D
  <2>2. /\ Cardinality(Done) \in Nat /\ Cardinality(D) \in Nat
        /\ Award * Cardinality(Done) <= Award * Cardinality(D) /\ Award * Cardinality(D) <= MaxXp
        /\ Award * Cardinality(Done) + Award <= Award * Cardinality(D)
    BY <1>1, <2>1, EarnedMore
  <2>3. Done' = D
    BY <1>3 DEF D
  <2> QED
    BY <2>2, <2>3
<1>5. xp <= Award * Cardinality(Done) /\ sweep.xp <= Award * Cardinality(Done)
  BY DEF LevelIInv, Earned
<1>6. Award * Cardinality(Done) \in Nat /\ Award * Cardinality(Done') \in Nat
  BY <1>1, <1>4
<1>7. xp' <= Award * Cardinality(Done') /\ sweep'.xp <= Award * Cardinality(Done') /\ xp' \in 0 .. MaxXp
  BY <1>1, <1>4, <1>5, <1>6
<1>8. t \in 0 .. MaxXp
  BY <1>1, <1>7
<1>9. award' \in [Awards -> [at : {"new", "read", "added", "done"}, level : Levels, total : 0 .. MaxXp]]
  BY <1>1, <1>8
<1>10. \A b \in Awards : award[b].at = "added" => award'[b] = award[b]
  BY <1>2
<1> QED
  BY <1>2, <1>7, <1>9, <1>10 DEF Earned

LEMMA AwardKeeps == ASSUME LevelIInv, NEW a \in Awards, AddsXp(a) PROVE LevelIInv'
<1>1. /\ award[a].at = "read" /\ xp' = xp + Award /\ lastAt' = IF levelStore = "redis" THEN lastAt ELSE week
      /\ award' = [award EXCEPT ![a] = [@ EXCEPT !.at = "added", !.total = xp + Award]]
      /\ fair' = [xp |-> xp + Award, at |-> week] /\ crossed' = (crossed \/ sweep # NoSweepUnderWay)
      /\ UNCHANGED <<levelStore, week, sweep, announced, unheard, xpTrouble>>
  BY DEF AddsXp, sweepVars
<1>2. LevelingTypeOK /\ xp + Award \in Nat /\ week \in Weeks /\ week \in Nat /\ announced \in Nat
  BY LevelTypes, LevelingAssumption DEF LevelIInv
<1>3. /\ award' \in [Awards -> [at : {"new", "read", "added", "done"}, level : Levels, total : 0 .. MaxXp]]
      /\ award'[a].at = "added" /\ award'[a].total = xp' /\ award'[a].level = award[a].level
      /\ \A b \in Awards : b # a => award'[b] = award[b]
      /\ \A b \in Awards : award[b].at = "added" => award'[b] = award[b]
      /\ xp' \in 0 .. MaxXp /\ Earned'
  BY <1>1, <1>2, AdditionKeeps
<1>4. LevelingTypeOK'
  <2>1. fair' \in [xp : 0 .. MaxXp, at : Weeks] /\ crossed' \in BOOLEAN /\ lastAt' \in {NotSeen} \union Weeks
    BY <1>1, <1>2, <1>3 DEF LevelingTypeOK
  <2> QED
    BY <1>1, <1>2, <1>3, <2>1 DEF LevelingTypeOK
<1>5. LevelsPromised'
  <2>1. ASSUME NEW k, Promised(k) PROVE Promised(k)'
    BY <1>1, <1>3, <2>1 DEF Promised
  <2>2. CASE ~unheard
    <3>1. Promised(Level(sweep.xp)) /\ Promised(award[a].level)
      BY <1>1, <2>2 DEF LevelIInv, LevelsPromised
    <3>2. Promised(Level(sweep.xp))' /\ Promised(award[a].level)'
      <4>1. ASSUME NEW k, Promised(k) PROVE \/ k <= announced'
                                            \/ \E b \in Awards : /\ award'[b].at = "added" /\ Level(award'[b].total) > award'[b].level
                                                                 /\ k <= Level(award'[b].total)
        BY <2>1, <4>1 DEF Promised
      <4> QED
        BY <1>1, <1>3, <3>1, <4>1 DEF Promised
    <3>3. Level(xp') \in Nat /\ award[a].level \in Nat
      BY <1>2, <1>3, LevelsAre, LevelTypes
    <3>4. Promised(Level(xp))'
      <4>1. CASE Level(xp') > award[a].level
        BY <1>3, <3>3, <4>1 DEF Promised
      <4>2. CASE Level(xp') <= award[a].level
        <5>1. \A b \in Awards : Level(award'[b].total) \in Nat /\ award'[b].level \in Nat
          BY <1>3, LevelsAre
        <5>2. announced' \in Nat
          BY <1>1, <1>2
        <5>3. award'[a].level = award[a].level
          BY <1>3
        <5> QED
          BY <3>2, <3>3, <4>2, <5>1, <5>2, <5>3 DEF Promised
      <4> QED
        BY <3>3, <4>1, <4>2
    <3>5. ASSUME NEW b \in Awards, award'[b].at = "read" PROVE Promised(award[b].level)'
      <4>1. b # a /\ award'[b] = award[b] /\ award[b].at = "read"
        BY <1>3, <3>5
      <4>2. Promised(award[b].level)
        BY <2>2, <4>1 DEF LevelIInv, LevelsPromised
      <4> QED
        BY <1>1, <1>3, <4>1, <4>2 DEF Promised
    <3> QED
      BY <3>2, <3>4, <3>5 DEF LevelsPromised
  <2>3. CASE unheard
    BY <1>1, <2>3 DEF LevelsPromised
  <2> QED
    BY <2>2, <2>3
<1>6. SeenWhenAwarded' /\ ActiveKeepXp'
  <2>1. fair'.at = week /\ fair'.xp = xp'
    BY <1>1
  <2>2. levelStore # "redis" => lastAt' >= fair'.at
    BY <1>1, <1>2, <2>1
  <2>3. levelStore' = "redis" => \E b \in Awards : award'[b].at = "added"
    BY <1>3
  <2>4. ~crossed' => sweep' = NoSweepUnderWay
    BY <1>1
  <2> QED
    BY <1>1, <2>1, <2>2, <2>3, <2>4 DEF SeenWhenAwarded, ActiveKeepXp
<1>7. FairIsPast'
  BY <1>1, <1>2 DEF FairIsPast
<1> QED
  BY <1>3, <1>4, <1>5, <1>6, <1>7 DEF LevelIInv

LEMMA AddFailsKeeps == ASSUME LevelIInv, NEW a \in Awards, AddFails(a) PROVE LevelIInv'
<1>1. /\ award[a].at = "read" /\ award' = [award EXCEPT ![a].at = "done"]
      /\ xpTrouble' = xpTrouble + 1 /\ UNCHANGED <<levelStore, week, sweep, announced>>
      /\ \/ UNCHANGED <<xp, lastAt, fair, crossed, unheard>>
         \/ /\ xp' = xp + Award /\ lastAt' = IF levelStore = "redis" THEN lastAt ELSE week
            /\ fair' = [xp |-> xp + Award, at |-> week]
            /\ crossed' = TRUE /\ unheard' = TRUE
  BY DEF AddFails, sweepVars, rowVars, XpTrouble
<1>2. /\ LevelingTypeOK /\ xp + Award \in Nat /\ week \in Weeks /\ announced \in Nat
      /\ award[a].total \in Nat
      /\ award \in [Awards -> [at : {"new", "read", "added", "done"}, level : Levels, total : 0 .. MaxXp]]
  BY LevelTypes, LevelingAssumption, StepsAre DEF LevelIInv, LevelingTypeOK
<1>3. award' = [award EXCEPT ![a] = [@ EXCEPT !.at = "done", !.total = award[a].total]]
  BY <1>1, <1>2
<1>4. /\ award' \in [Awards -> [at : {"new", "read", "added", "done"}, level : Levels, total : 0 .. MaxXp]]
      /\ award'[a].at = "done"
      /\ \A b \in Awards : b # a => award'[b] = award[b]
      /\ \A b \in Awards : award[b].at = "added" => award'[b] = award[b]
      /\ xp' \in 0 .. MaxXp /\ Earned'
  <2>1. xp' \in {xp, xp + Award}
    BY <1>1
  <2> QED
    BY <1>1, <1>2, <1>3, <2>1, AdditionKeeps
<1>5. LevelingTypeOK'
  <2>1. fair' \in [xp : 0 .. MaxXp, at : Weeks] /\ crossed' \in BOOLEAN /\ unheard' \in BOOLEAN
        /\ lastAt' \in {NotSeen} \union Weeks /\ xpTrouble' \in Nat
    <3>1. xpTrouble' \in Nat
      BY <1>1, <1>2 DEF LevelingTypeOK
    <3>2. CASE UNCHANGED <<xp, lastAt, fair, crossed, unheard>>
      BY <1>2, <3>1, <3>2 DEF LevelingTypeOK
    <3>3. CASE /\ xp' = xp + Award /\ lastAt' = IF levelStore = "redis" THEN lastAt ELSE week
               /\ fair' = [xp |-> xp + Award, at |-> week]
               /\ crossed' = TRUE /\ unheard' = TRUE
      <4>1. fair' \in [xp : 0 .. MaxXp, at : Weeks]
        BY <1>2, <1>4, <3>3
      <4>2. lastAt' \in {NotSeen} \union Weeks
        BY <1>2, <3>3 DEF LevelingTypeOK
      <4> QED
        BY <3>1, <3>3, <4>1, <4>2
    <3> QED
      BY <1>1, <3>2, <3>3
  <2> QED
    BY <1>1, <1>2, <1>4, <2>1 DEF LevelingTypeOK
<1>6. CASE UNCHANGED <<xp, lastAt, fair, crossed, unheard>>
  <2>1. LevelsPromised'
    <3>1. \A b \in Awards : award'[b].at = "read" => b # a
      BY <1>4
    <3> QED
      BY <1>1, <1>4, <1>6, <3>1 DEF LevelIInv, LevelsPromised, Promised
  <2>2. SeenWhenAwarded'
    BY <1>1, <1>4, <1>6 DEF LevelIInv, SeenWhenAwarded
  <2> QED
    BY <1>1, <1>4, <1>5, <1>6, <2>1, <2>2 DEF LevelIInv, ActiveKeepXp, FairIsPast
<1>7. CASE crossed' = TRUE /\ unheard' = TRUE
  <2>1. FairIsPast'
    BY <1>1, <1>2, LevelTypes DEF LevelIInv, FairIsPast
  <2> QED
    BY <1>4, <1>5, <1>7, <2>1 DEF LevelIInv, LevelsPromised, SeenWhenAwarded, ActiveKeepXp
<1> QED
  BY <1>1, <1>6, <1>7

LEMMA ConcludeKeeps == ASSUME LevelIInv, NEW a \in Awards, Concludes(a) PROVE LevelIInv'
<1>1. /\ award[a].at = "added" /\ award' = [award EXCEPT ![a].at = "done"]
      /\ lastAt' = (IF levelStore = "redis" THEN week ELSE lastAt)
      /\ announced' = IF Level(award[a].total) > award[a].level /\ Level(award[a].total) > announced
                        THEN Level(award[a].total) ELSE announced
      /\ UNCHANGED <<levelStore, xp, sweep, week, fair, crossed, unheard, xpTrouble>>
  BY DEF Concludes, sweepVars
<1>2. /\ LevelingTypeOK /\ week \in Weeks /\ announced \in Nat /\ week \in Nat /\ fair.at \in Nat
      /\ award[a].total \in 0 .. MaxXp /\ Level(award[a].total) \in Levels /\ Level(award[a].total) \in Nat
      /\ award \in [Awards -> [at : {"new", "read", "added", "done"}, level : Levels, total : 0 .. MaxXp]]
  BY LevelTypes, LevelsAre DEF LevelIInv, LevelingTypeOK
<1>3. /\ award' \in [Awards -> [at : {"new", "read", "added", "done"}, level : Levels, total : 0 .. MaxXp]]
      /\ award'[a].at = "done" /\ \A b \in Awards : b # a => award'[b] = award[b]
  BY <1>1, <1>2
<1>4. announced' \in Levels /\ announced' >= announced
      /\ (Level(award[a].total) > award[a].level => announced' >= Level(award[a].total)) /\ announced' \in Nat
  BY <1>1, <1>2, LevelsAre DEF LevelingTypeOK
<1>5. LevelingTypeOK'
  <2>1. lastAt' \in {NotSeen} \union Weeks
    BY <1>1, <1>2 DEF LevelingTypeOK
  <2> QED
    BY <1>1, <1>2, <1>3, <1>4, <2>1 DEF LevelingTypeOK
<1>6. Done' = Done
  BY <1>1, <1>3 DEF Done
<1>7. Earned'
  BY <1>1, <1>6 DEF LevelIInv, Earned
<1>8. LevelsPromised'
  <2>1. ASSUME NEW l \in Nat, Promised(l) PROVE Promised(l)'
    <3>1. CASE l <= announced
      <4>1. l <= announced'
        BY <1>2, <1>4, <3>1
      <4> QED
        BY <4>1 DEF Promised
    <3>2. CASE \E b \in Awards : /\ award[b].at = "added" /\ Level(award[b].total) > award[b].level
                                 /\ l <= Level(award[b].total)
      <4>1. PICK b \in Awards : /\ award[b].at = "added" /\ Level(award[b].total) > award[b].level
                                /\ l <= Level(award[b].total)
        BY <3>2
      <4>2. CASE b = a
        <5>1. l <= announced'
          BY <1>2, <1>4, <4>1, <4>2
        <5> QED
          BY <5>1 DEF Promised
      <4>3. CASE b # a
        BY <1>3, <4>1, <4>3 DEF Promised
      <4> QED
        BY <4>2, <4>3
    <3> QED
      BY <2>1, <3>1, <3>2 DEF Promised
  <2>2. CASE ~unheard
    <3>1. /\ Promised(Level(xp)) /\ Promised(Level(sweep.xp))
          /\ \A b \in Awards : award[b].at = "read" => Promised(award[b].level)
      BY <2>2 DEF LevelIInv, LevelsPromised
    <3>2. Level(xp) \in Nat /\ Level(sweep.xp) \in Nat /\ \A b \in Awards : award[b].level \in Nat
      BY <1>2, LevelTypes
    <3>3. Promised(Level(xp))' /\ Promised(Level(sweep.xp))'
      <4>1. \A l \in Nat : Promised(l) => \/ l <= announced'
                                          \/ \E b \in Awards : /\ award'[b].at = "added" /\ Level(award'[b].total) > award'[b].level
                                                               /\ l <= Level(award'[b].total)
        BY <2>1 DEF Promised
      <4> QED
        BY <1>1, <3>1, <3>2, <4>1 DEF Promised
    <3>4. ASSUME NEW b \in Awards, award'[b].at = "read" PROVE Promised(award[b].level)'
      <4>1. award'[b] = award[b]
        BY <1>3, <3>4
      <4>2. Promised(award[b].level) /\ award[b].level \in Nat
        BY <3>1, <3>2, <3>4, <4>1
      <4>3. \/ award[b].level <= announced'
            \/ \E d \in Awards : /\ award'[d].at = "added" /\ Level(award'[d].total) > award'[d].level
                                 /\ award[b].level <= Level(award'[d].total)
        BY <2>1, <4>2 DEF Promised
      <4> QED
        BY <4>1, <4>3 DEF Promised
    <3> QED
      BY <3>3, <3>4 DEF LevelsPromised
  <2>3. CASE unheard
    BY <1>1, <2>3 DEF LevelsPromised
  <2> QED
    BY <2>2, <2>3
<1>9. SeenWhenAwarded'
  <2>1. ASSUME ~crossed PROVE lastAt' = NotSeen \/ lastAt' >= fair.at
    <3>1. lastAt = NotSeen \/ lastAt >= fair.at \/ levelStore = "redis"
      BY <2>1 DEF LevelIInv, SeenWhenAwarded
    <3>2. levelStore = "redis" => lastAt' = week /\ fair.at <= week
      <4>1. fair.at <= week
        BY DEF LevelIInv, FairIsPast
      <4> QED
        BY <1>1, <4>1
    <3> QED
      BY <1>1, <1>2, <3>1, <3>2
  <2> QED
    BY <1>1, <2>1 DEF LevelIInv, SeenWhenAwarded
<1>10. ActiveKeepXp'
  BY <1>1 DEF LevelIInv, ActiveKeepXp
<1> QED
  BY <1>1, <1>2, <1>5, <1>7, <1>8, <1>9, <1>10 DEF LevelIInv, FairIsPast

LEMMA LevelCrashKeeps == ASSUME LevelIInv, LevelingCrash PROVE LevelIInv'
<1>1. /\ sweep' = NoSweepUnderWay
      /\ award' = [a \in Awards |-> IF award[a].at = "new" THEN award[a] ELSE [award[a] EXCEPT !.at = "done"]]
      /\ unheard' = (unheard \/ \E a \in Awards : award[a].at = "added")
      /\ crossed' = (crossed \/ \E a \in Awards : award[a].at = "added" /\ levelStore = "redis")
      /\ xpTrouble' = xpTrouble + 1
      /\ UNCHANGED <<levelStore, week, xp, lastAt, announced, fair>>
  BY DEF LevelingCrash, rowVars, XpTrouble
<1>2. /\ LevelingTypeOK /\ MaxXp \in Nat /\ xp \in 0 .. MaxXp /\ xp \in Nat /\ announced \in Nat
      /\ award \in [Awards -> [at : {"new", "read", "added", "done"}, level : Levels, total : 0 .. MaxXp]]
      /\ MaxWeek \in Nat /\ Award \in Nat
  BY LevelTypes, LevelingAssumption DEF LevelIInv, LevelingTypeOK
<1>3. /\ award' \in [Awards -> [at : {"new", "read", "added", "done"}, level : Levels, total : 0 .. MaxXp]]
      /\ \A a \in Awards : award'[a].at \in {"new", "done"} /\ (award[a].at # "new" => award'[a].at = "done")
  BY <1>1, <1>2
<1>4. LevelingTypeOK'
  <2>1. sweep' \in [xp : 0 .. MaxXp, lastAt : {NotSeen} \union Weeks, now : Weeks]
    BY <1>1, <1>2 DEF NoSweepUnderWay, Weeks
  <2>2. xpTrouble' \in Nat
    BY <1>1, <1>2 DEF LevelingTypeOK
  <2>3. crossed' \in BOOLEAN /\ unheard' \in BOOLEAN
    BY <1>1
  <2> QED
    BY <1>1, <1>2, <1>3, <2>1, <2>2, <2>3 DEF LevelingTypeOK
<1>5. Earned'
  <2>1. Done \subseteq Done' /\ Done' \subseteq Awards
    BY <1>3 DEF Done
  <2>2. Award * Cardinality(Done) <= Award * Cardinality(Done') /\ Cardinality(Done) \in Nat /\ Cardinality(Done') \in Nat
    <3> DEFINE D == Done'
    <3>1. Done \subseteq D /\ D \subseteq Awards
      BY <2>1
    <3> HIDE DEF D
    <3>2. Award * Cardinality(Done) <= Award * Cardinality(D) /\ Cardinality(Done) \in Nat /\ Cardinality(D) \in Nat
      BY <1>2, <3>1, EarnedMore
    <3> QED
      BY <3>2 DEF D
  <2>3. xp <= Award * Cardinality(Done) /\ sweep'.xp = 0
    BY <1>1 DEF LevelIInv, Earned, NoSweepUnderWay
  <2>4. Award * Cardinality(Done) \in Nat /\ Award * Cardinality(Done') \in Nat
    BY <1>2, <2>2
  <2>5. xp' <= Award * Cardinality(Done') /\ sweep'.xp <= Award * Cardinality(Done')
    BY <1>1, <1>2, <2>2, <2>3, <2>4
  <2> QED
    BY <2>5 DEF Earned
<1>6. LevelsPromised'
  <2>1. CASE unheard \/ \E a \in Awards : award[a].at = "added"
    BY <1>1, <2>1 DEF LevelsPromised
  <2>2. CASE ~unheard /\ ~\E a \in Awards : award[a].at = "added"
    <3>1. Level(xp) <= announced
      BY <2>2 DEF LevelIInv, LevelsPromised, Promised
    <3>2. Level(0) = 1 /\ 1 <= announced /\ sweep'.xp = 0
      BY <1>1, <1>2, LevelsAre DEF LevelingTypeOK, Levels, NoSweepUnderWay
    <3> QED
      BY <1>1, <1>3, <3>1, <3>2 DEF LevelsPromised, Promised
  <2> QED
    BY <2>1, <2>2
<1>7. SeenWhenAwarded'
  BY <1>1 DEF LevelIInv, SeenWhenAwarded
<1>8. ActiveKeepXp'
  BY <1>1 DEF LevelIInv, ActiveKeepXp
<1> QED
  BY <1>1, <1>4, <1>5, <1>6, <1>7, <1>8 DEF LevelIInv, FairIsPast

LEMMA LevelStep == ASSUME LevelIInv, [LevelingNext]_levelingVars PROVE LevelIInv'
<1>1. CASE UNCHANGED levelingVars
  <2>1. UNCHANGED <<levelStore, week, xp, lastAt, award, sweep, announced, fair, crossed, unheard, xpTrouble>>
    BY <1>1 DEF levelingVars, rowVars
  <2> QED
    BY <2>1 DEF LevelIInv, LevelingTypeOK, Earned, Done, LevelsPromised, Promised, SeenWhenAwarded, ActiveKeepXp,
                FairIsPast
<1> QED
  BY <1>1, SweepKeeps, LevelCrashKeeps, ReadKeeps, AwardKeeps, AddFailsKeeps, ConcludeKeeps DEF LevelingNext

\* However the awards of two chats, the sweep, failures and crashes cross: nobody reaches
\* a level without being congratulated on it or on a higher one, unless an award was not
\* told, and who was seen within the grace keeps the XP, unless an award and a sweep
\* crossed (levelingService.js, awardForCommand; levelingDecayService.js).
THEOREM LevelsAreTold == LevelingSpec => []LevelingInv
<1>1. LevelingInit => LevelIInv
  BY LevelStarts
<1>2. LevelIInv /\ [LevelingNext]_levelingVars => LevelIInv'
  BY LevelStep
<1>3. LevelIInv => LevelingInv
  <2>1. ASSUME LevelIInv PROVE LevelsAnnounced
    <3>1. CASE ~unheard
      BY <2>1, <3>1 DEF LevelIInv, LevelsPromised, Promised, LevelsAnnounced
    <3> QED
      BY <3>1 DEF LevelsAnnounced
  <2> QED
    BY <2>1 DEF LevelIInv, LevelingInv
<1> QED
  BY <1>1, <1>2, <1>3, PTL DEF LevelingSpec

=============================================================================
