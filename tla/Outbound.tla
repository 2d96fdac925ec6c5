------------------------------- MODULE Outbound -------------------------------
(***************************************************************************)
(* What the bot sends to one chat.  When a socket has opened,              *)
(* core/worker.js wraps its sendMessage: a queue that runs a few sends at  *)
(* a time (middleware/sendQueue.js), inside a list of what was sent lately *)
(* (services/sentMessageTracker.js), inside a wait during which the chat   *)
(* shows "typing" (middleware/presence.js).  `.purge` deletes the latest   *)
(* entries of the list for everyone.  A handler keeps the socket it began  *)
(* with, so that sends on a socket that is closed are called, and fail.    *)
(*                                                                         *)
(* Sends are numbered in the order of their calls.  The reaction and the   *)
(* reply of a purge are sends like any other handler's.                    *)
(***************************************************************************)
EXTENDS Naturals, Sequences, FiniteSets, SequencesExt

CONSTANTS
  SendConcurrency,  \* processing.sendConcurrency
  MaxPerChat,       \* MAX_PER_CHAT, 100
  Purgers,          \* the runs of .purge
  MaxSends,         \* bound on the sends
  MaxSockets,       \* bound on the sockets
  MaxSendTrouble    \* bound on the sends that fail on an open socket

ASSUME OutboundAssumption ==
  /\ SendConcurrency \in Nat \ {0} /\ MaxPerChat \in Nat \ {0}
  /\ MaxSends \in Nat /\ MaxSockets \in Nat /\ MaxSendTrouble \in Nat

Sends == 1 .. MaxSends
Sockets == 1 .. MaxSockets

VARIABLES
  sock,          \* the latest socket
  up,            \* whether it is open
  wrapped,       \* the sockets whose sendMessage is wrapped
  made,          \* how many sends were called
  call,          \* send -> its socket, whether it went through the wrappers, whether it shows typing, what it deletes
  stage,         \* send -> how far it is
  backlog,       \* socket -> what waits in its queue
  ring,          \* _byChat: the latest sends of the chat
  purge,         \* run of .purge -> its socket, what it still has to delete, the send it awaits
  thinking,      \* the socket on which an AI answer is being made, 0 for none
  shown,         \* whether the chat shows that the bot types
  delivered,       \* history: the sends that succeeded, in order
  deleted,       \* history: what was deleted for everyone
  unsure,        \* history: what a failed send may have deleted
  scope,         \* history: run of .purge -> what it set out to delete
  pauseLost,     \* history: the latest "paused" did not get through
  sendTrouble

purgeVars == <<purge, scope>>
typingVars == <<shown, pauseLost>>
trackVars == <<ring, delivered, deleted, unsure>>
outVars == <<sock, up, wrapped, made, call, stage, backlog, thinking, sendTrouble, purgeVars, typingVars, trackVars>>

NotCalled == [on |-> 0, tracked |-> FALSE, long |-> FALSE, deletes |-> 0]
NoPurge == [on |-> 0, todo |-> <<>>, awaits |-> 0]
Stages == {"none", "typing", "queued", "flying", "sunk", "sent", "failed"}

OutboundTypeOK ==
  /\ sock \in 0 .. MaxSockets /\ up \in BOOLEAN /\ wrapped \subseteq 1 .. sock
  /\ made \in 0 .. MaxSends
  /\ call \in [Sends -> [on : 0 .. MaxSockets, tracked : BOOLEAN, long : BOOLEAN, deletes : 0 .. MaxSends]]
  /\ stage \in [Sends -> Stages]
  /\ backlog \in [Sockets -> Seq(Sends)]
  /\ ring \in Seq(Sends) /\ Len(ring) <= MaxPerChat
  /\ purge \in [Purgers -> [on : 0 .. MaxSockets, todo : Seq(Sends), awaits : 0 .. MaxSends]]
  /\ thinking \in 0 .. MaxSockets /\ shown \in BOOLEAN /\ pauseLost \in BOOLEAN
  /\ delivered \in Seq(Sends) /\ deleted \subseteq Sends /\ unsure \subseteq Sends
  /\ scope \in [Purgers -> SUBSET Sends]
  /\ sendTrouble \in 0 .. MaxSendTrouble

OutboundInit ==
  /\ sock = 0 /\ up = FALSE /\ wrapped = {} /\ made = 0
  /\ call = [n \in Sends |-> NotCalled] /\ stage = [n \in Sends |-> "none"]
  /\ backlog = [g \in Sockets |-> <<>>] /\ ring = <<>>
  /\ purge = [p \in Purgers |-> NoPurge]
  /\ thinking = 0 /\ shown = FALSE
  /\ delivered = <<>> /\ deleted = {} /\ unsure = {} /\ scope = [p \in Purgers |-> {}]
  /\ pauseLost = FALSE /\ sendTrouble = 0

Open(g) == up /\ g = sock

-----------------------------------------------------------------------------
(* The socket *)

\* WhatsApp forgets what a device that is gone was typing.
Quiet == shown' = FALSE /\ pauseLost' = FALSE

SocketOpens ==
  /\ ~up /\ sock < MaxSockets
  /\ sock' = sock + 1 /\ up' = TRUE /\ Quiet
  /\ UNCHANGED <<wrapped, made, call, stage, backlog, thinking, sendTrouble, purgeVars, trackVars>>

\* The open handler goes on, after the await of recordTimeline.
Wraps(g) ==
  /\ g \in 1 .. sock \ wrapped
  /\ wrapped' = wrapped \union {g}
  /\ UNCHANGED <<sock, up, made, call, stage, backlog, thinking, sendTrouble, purgeVars, typingVars, trackVars>>

SocketCloses ==
  /\ up /\ up' = FALSE /\ Quiet
  /\ UNCHANGED <<sock, wrapped, made, call, stage, backlog, thinking, sendTrouble, purgeVars, trackVars>>

-----------------------------------------------------------------------------
(* sock.sendMessage *)

\* A "composing" or a "paused" of a socket; a "paused" may be lost.
Composing(g) == shown' = (shown \/ Open(g)) /\ UNCHANGED pauseLost

Paused(g) ==
  IF Open(g) THEN \/ Quiet
                  \/ shown' = shown /\ pauseLost' = TRUE
             ELSE UNCHANGED typingVars

\* The underlying sendMessage; that of a closed socket throws.
Reaches(g) == IF Open(g) THEN "flying" ELSE "sunk"

Pending(g) == {n \in Sends : call[n].tracked /\ call[n].on = g /\ stage[n] \in {"flying", "sunk"}}

\* PQueue: what is added starts at once when there is room.
Enqueue(n, g) ==
  IF Cardinality(Pending(g)) < SendConcurrency
    THEN stage' = [stage EXCEPT ![n] = Reaches(g)] /\ UNCHANGED backlog
    ELSE stage' = [stage EXCEPT ![n] = "queued"] /\ backlog' = [backlog EXCEPT ![g] = Append(@, n)]

\* ... and what has waited longest when n is over.
EndsAs(n, end) ==
  LET g == call[n].on IN
  IF call[n].tracked /\ backlog[g] # <<>>
    THEN /\ stage' = [stage EXCEPT ![n] = end, ![Head(backlog[g])] = Reaches(g)]
         /\ backlog' = [backlog EXCEPT ![g] = Tail(@)]
    ELSE stage' = [stage EXCEPT ![n] = end] /\ UNCHANGED backlog

\* A send is called: without the wrappers it is off at once, a long one shows typing
\* first, any other goes to the queue.
Called(g, long, target) ==
  LET n == made + 1 IN
  /\ n \in Sends
  /\ made' = n
  /\ call' = [call EXCEPT ![n] = [on |-> g, tracked |-> g \in wrapped, long |-> long, deletes |-> target]]
  /\ \/ g \notin wrapped /\ ~long /\ stage' = [stage EXCEPT ![n] = Reaches(g)] /\ UNCHANGED <<backlog, typingVars>>
     \/ g \in wrapped /\ long /\ stage' = [stage EXCEPT ![n] = "typing"] /\ Composing(g) /\ UNCHANGED backlog
     \/ g \in wrapped /\ ~long /\ Enqueue(n, g) /\ UNCHANGED typingVars
  /\ UNCHANGED <<sock, up, wrapped, thinking, sendTrouble, trackVars>>

\* A handler, which may have begun under an earlier socket, says something.
Says == \E g \in 1 .. sock, long \in BOOLEAN : Called(g, long, 0) /\ UNCHANGED purgeVars

\* sleep(wait) is over.
TypingOver(n) ==
  /\ stage[n] = "typing"
  /\ Enqueue(n, call[n].on)
  /\ UNCHANGED <<sock, up, wrapped, made, call, thinking, sendTrouble, purgeVars, typingVars, trackVars>>

\* presence.js, finally
Stops(n) == IF call[n].long THEN Paused(call[n].on) ELSE UNCHANGED typingVars

\* _push and forget
Pushed(n) ==
  LET all == Append(ring, n) IN
  IF Len(all) > MaxPerChat THEN Tail(all) ELSE all
Forgotten(entries, n) ==
  IF n \in ToSet(entries) THEN RemoveAt(entries, CHOOSE i \in DOMAIN entries : entries[i] = n) ELSE entries

Target(n) == {call[n].deletes} \ {0}

\* Mutant: what was deleted stays in the list.
AnsweredKept(n) ==
  /\ stage[n] = "flying" /\ Open(call[n].on)
  /\ EndsAs(n, "sent")
  /\ ring' = (IF call[n].tracked THEN Pushed(n) ELSE ring)
  /\ delivered' = Append(delivered, n) /\ deleted' = deleted \union Target(n)
  /\ Stops(n)
  /\ UNCHANGED <<sock, up, wrapped, made, call, thinking, sendTrouble, purgeVars, unsure>>

\* The answer: the list has the send, and loses what it deleted.
Answered(n) ==
  /\ stage[n] = "flying" /\ Open(call[n].on)
  /\ EndsAs(n, "sent")
  /\ ring' = Forgotten(IF call[n].tracked THEN Pushed(n) ELSE ring, call[n].deletes)
  /\ delivered' = Append(delivered, n) /\ deleted' = deleted \union Target(n)
  /\ Stops(n)
  /\ UNCHANGED <<sock, up, wrapped, made, call, thinking, sendTrouble, purgeVars, unsure>>

\* An error: of a closed socket, or another one; what was on its way may have arrived.
Rejected(n) ==
  /\ stage[n] \in {"flying", "sunk"}
  /\ IF stage[n] = "flying" /\ Open(call[n].on)
       THEN sendTrouble < MaxSendTrouble /\ sendTrouble' = sendTrouble + 1
       ELSE UNCHANGED sendTrouble
  /\ EndsAs(n, "failed")
  /\ unsure' = unsure \union Target(n)
  /\ deleted' \in {deleted} \union (IF stage[n] = "flying" THEN {deleted \union Target(n)} ELSE {})
  /\ Stops(n)
  /\ UNCHANGED <<sock, up, wrapped, made, call, thinking, purgeVars, ring, delivered>>

-----------------------------------------------------------------------------
(* An AI answer, events/messages.upsert.js: "composing" again and again, then "paused" *)

ThinkingVars == UNCHANGED <<sock, up, wrapped, made, call, stage, backlog, sendTrouble, purgeVars, trackVars>>

Thinks == thinking = 0 /\ sock > 0 /\ thinking' = sock /\ Composing(sock) /\ ThinkingVars
StillThinks == thinking # 0 /\ ~shown /\ Composing(thinking) /\ UNCHANGED thinking /\ ThinkingVars
ThoughtOver == thinking # 0 /\ thinking' = 0 /\ Paused(thinking) /\ ThinkingVars

-----------------------------------------------------------------------------
(* commands/admin/purge.js *)

\* recent(chat, count), the newest first.  A count or a duration is a suffix.
PurgeBegins(p) ==
  /\ purge[p] = NoPurge /\ sock > 0
  /\ \E count \in 1 .. Len(ring) :
       LET entries == SubSeq(ring, Len(ring) - count + 1, Len(ring)) IN
       /\ purge' = [purge EXCEPT ![p] = [on |-> sock, todo |-> Reverse(entries), awaits |-> 0]]
       /\ scope' = [scope EXCEPT ![p] = ToSet(entries)]
  /\ UNCHANGED <<sock, up, wrapped, made, call, stage, backlog, thinking, sendTrouble, typingVars, trackVars>>

PurgeDeletes(p) ==
  /\ purge[p].todo # <<>> /\ purge[p].awaits = 0
  /\ Called(purge[p].on, FALSE, Head(purge[p].todo))
  /\ purge' = [purge EXCEPT ![p].awaits = made + 1]
  /\ UNCHANGED scope

\* The next entry, whether that one was deleted or not.
PurgeGoesOn(p) ==
  /\ purge[p].awaits # 0 /\ stage[purge[p].awaits] \in {"sent", "failed"}
  /\ purge' = [purge EXCEPT ![p].todo = Tail(@), ![p].awaits = 0]
  /\ UNCHANGED <<sock, up, wrapped, made, call, stage, backlog, thinking, sendTrouble, scope, typingVars, trackVars>>

-----------------------------------------------------------------------------
Settles(n) == Answered(n) \/ Rejected(n)

OutboundNext ==
  \/ SocketOpens \/ SocketCloses \/ Says \/ Thinks \/ StillThinks \/ ThoughtOver
  \/ \E g \in Sockets : Wraps(g)
  \/ \E n \in Sends : TypingOver(n) \/ Settles(n)
  \/ \E p \in Purgers : PurgeBegins(p) \/ PurgeDeletes(p) \/ PurgeGoesOn(p)

OutboundSpec == OutboundInit /\ [][OutboundNext]_outVars

-----------------------------------------------------------------------------
(* Properties *)

\* The list has nothing that was deleted, unless the answer of the deletion was lost,
\* nothing that was not sent, and nothing twice.
RingIsHonest ==
  /\ \A k \in ToSet(ring) : stage[k] = "sent" /\ (k \in deleted => k \in unsure)
  /\ IsInjective(ring)

\* What was sent through the wrappers and was not deleted leaves the list only when
\* MaxPerChat others have been sent after it.
RingIsComplete ==
  \A i \in DOMAIN delivered :
    LET k == delivered[i] IN
    call[k].tracked /\ k \notin ToSet(ring) /\ k \notin deleted =>
      Cardinality({j \in i + 1 .. Len(delivered) : call[delivered[j]].tracked}) >= MaxPerChat

\* A purge has tried to delete all that it set out to delete and is past, though
\* others send, and other purges delete, while it goes from one to the next.
PurgeCovers ==
  \A p \in Purgers : scope[p] \ ToSet(purge[p].todo) \subseteq deleted \union unsure

\* The chat does not show that the bot types when it does not, whatever sends and
\* answers overlap and fail, unless a "paused" was lost.
TypingEnds ==
  shown => \/ pauseLost \/ thinking # 0
           \/ \E n \in Sends : call[n].long /\ stage[n] \in {"typing", "queued", "flying", "sunk"}

\* No send waits while there is room, not even on a socket that is closed, where those
\* before it fail: a handler that awaits its reply would hold up its chat.
QueueMoves == \A g \in Sockets : backlog[g] # <<>> => Cardinality(Pending(g)) = SendConcurrency

OutboundInv == OutboundTypeOK /\ RingIsHonest /\ RingIsComplete /\ PurgeCovers /\ TypingEnds /\ QueueMoves

-----------------------------------------------------------------------------
(* What the documents say *)

\* sendQueue.js:6: "never ... more than N concurrent sendMessage calls"; those that are
\* made before the open handler wraps the socket are not counted.
NeverMoreThanN ==
  \A g \in Sockets : Cardinality({n \in Sends : call[n].on = g /\ stage[n] = "flying"}) <= SendConcurrency

\* purge.js:9: "revoke the bot's last 10 messages here"; the list has the deletions too.
PurgeDeletesMessages == \A n \in Sends : call[n].deletes # 0 => call[call[n].deletes].deletes = 0

=============================================================================
