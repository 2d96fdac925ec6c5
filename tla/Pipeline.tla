------------------------------ MODULE Pipeline ------------------------------
(***************************************************************************)
(* From an incoming message to the end of its command: core/worker.js puts *)
(* every message into a queue of its chat, events/messages.upsert.js       *)
(* decides what it is, core/commandRunner.js runs its command with a       *)
(* timeout, and services/muteService.js keeps muted users from it.         *)
(*                                                                         *)
(* A queue is an object that chatQueues holds while it has work.  Objects  *)
(* of a chat are numbered; each counts the tasks it has running.  The code *)
(* between two awaits is one step.  The store, the AI providers and the    *)
(* socket are external: an await settles at some time, or never.  A mute    *)
(* lasts until it is cleared (its expiry is the subject of Mutes).         *)
(***************************************************************************)
EXTENDS Sequences, FiniteSets, Naturals

CONSTANTS
  Messages,
  Chats,
  ChatOf,        \* Messages -> Chats: key.remoteJid
  Users,
  SenderOf,      \* Messages -> Users
  KindOf,        \* Messages -> Kinds
  Victim,        \* the user that a "mute" or "unmute" command names
  Concurrency,   \* config.processing.concurrencyPerChat
  Wedged         \* the chats whose awaits outside of a command may never settle

Kinds == {"talk", "command", "mute", "unmute"}

ASSUME PipelineAssumption ==
  /\ ChatOf \in [Messages -> Chats]
  /\ SenderOf \in [Messages -> Users]
  /\ KindOf \in [Messages -> Kinds]
  /\ Victim \in Users
  /\ Concurrency \in Nat \ {0}
  /\ Wedged \subseteq Chats
  /\ IsFiniteSet(Messages)

VARIABLES
  pc,        \* where each message is
  holds,     \* number of the queue that chatQueues holds for a chat, or 0
  made,      \* queues made for each chat so far
  waiting,   \* messages that wait in the queues of a chat, in order
  home,      \* the queue each message was put in
  muted,     \* chats in which Victim is muted (the LRU of muteService)
  arrived,   \* history: the messages of each chat in the order of their arrival
  ran        \* history: the messages whose command was started

vars == <<pc, holds, made, waiting, home, muted, arrived, ran>>

Places == {"away", "queued", "checking", "running", "replying", "done"}
Busy == {"checking", "running", "replying"}

\* The running tasks of queue g of chat c (PQueue's pending).
Pending(c, g) == {m \in Messages : ChatOf[m] = c /\ home[m] = g /\ pc[m] \in Busy}

\* The tasks that run for chat c, whatever their queue.
Handling(c) == {m \in Messages : ChatOf[m] = c /\ pc[m] \in Busy}

TypeOK ==
  /\ pc \in [Messages -> Places]
  /\ made \in [Chats -> Nat]
  /\ holds \in [Chats -> Nat] /\ \A c \in Chats : holds[c] <= made[c]
  /\ waiting \in [Chats -> Seq(Messages)]
  /\ \A c \in Chats : \A i \in DOMAIN waiting[c] : ChatOf[waiting[c][i]] = c
  /\ home \in [Messages -> Nat]
  /\ muted \subseteq Chats
  /\ arrived \in [Chats -> Seq(Messages)]
  /\ ran \subseteq Messages

Init ==
  /\ pc = [m \in Messages |-> "away"]
  /\ holds = [c \in Chats |-> 0]
  /\ made = [c \in Chats |-> 0]
  /\ waiting = [c \in Chats |-> <<>>]
  /\ home = [m \in Messages |-> 0]
  /\ muted = {}
  /\ arrived = [c \in Chats |-> <<>>]
  /\ ran = {}

-----------------------------------------------------------------------------
(* core/worker.js: the queues *)

\* queueFor(remoteJid)
QueueOf(m) == ChatOf[m]

\* messages.upsert: the message is put into the queue of its chat, which is
\* made if chatQueues holds none.
Arrive(m) ==
  LET c == QueueOf(m) IN
  /\ pc[m] = "away"
  /\ pc' = [pc EXCEPT ![m] = "queued"]
  /\ IF holds[c] = 0
       THEN /\ made' = [made EXCEPT ![c] = @ + 1]
            /\ holds' = [holds EXCEPT ![c] = made'[c]]
       ELSE UNCHANGED <<made, holds>>
  /\ home' = [home EXCEPT ![m] = holds'[c]]
  /\ waiting' = [waiting EXCEPT ![c] = Append(@, m)]
  /\ arrived' = [arrived EXCEPT ![ChatOf[m]] = Append(@, m)]
  /\ UNCHANGED <<muted, ran>>

\* Mutant: one queue's concurrency for all chats.
TakeOneOfAll(c) ==
  /\ waiting[c] # <<>>
  /\ LET m == Head(waiting[c]) IN
       /\ Cardinality(UNION {Handling(d) : d \in Chats}) < Concurrency
       /\ pc' = [pc EXCEPT ![m] = "checking"]
  /\ waiting' = [waiting EXCEPT ![c] = Tail(@)]
  /\ UNCHANGED <<holds, made, home, muted, arrived, ran>>

\* Mutant: a queue is dropped when nothing waits in it, though a task runs.
TakeAndDrop(c) ==
  /\ waiting[c] # <<>>
  /\ LET m == Head(waiting[c]) IN
       /\ Cardinality(Pending(c, home[m])) < Concurrency
       /\ pc' = [pc EXCEPT ![m] = "checking"]
  /\ waiting' = [waiting EXCEPT ![c] = Tail(@)]
  /\ holds' = [holds EXCEPT ![c] = IF Len(waiting[c]) = 1 THEN 0 ELSE @]
  /\ UNCHANGED <<made, home, muted, arrived, ran>>

\* Mutant: the message that came last is taken first.
TakeLast(c) ==
  /\ waiting[c] # <<>>
  /\ LET m == waiting[c][Len(waiting[c])] IN
       /\ Cardinality(Pending(c, home[m])) < Concurrency
       /\ pc' = [pc EXCEPT ![m] = "checking"]
  /\ waiting' = [waiting EXCEPT ![c] = SubSeq(@, 1, Len(@) - 1)]
  /\ UNCHANGED <<holds, made, home, muted, arrived, ran>>

\* PQueue starts the next task; handleMessage runs up to its first await.
Take(c) ==
  /\ waiting[c] # <<>>
  /\ LET m == Head(waiting[c]) IN
       /\ Cardinality(Pending(c, home[m])) < Concurrency
       /\ pc' = [pc EXCEPT ![m] = "checking"]
  /\ waiting' = [waiting EXCEPT ![c] = Tail(@)]
  /\ UNCHANGED <<holds, made, home, muted, arrived, ran>>

\* A task ends; a queue with no task left emits 'idle', and its listener drops
\* it.  (An object that is no longer held has no work.)
Finish(m) ==
  LET c == ChatOf[m] IN
  /\ pc' = [pc EXCEPT ![m] = "done"]
  /\ holds' = IF Pending(c, home[m]) = {m} /\ waiting[c] = <<>>
                THEN [holds EXCEPT ![c] = 0] ELSE holds

-----------------------------------------------------------------------------
(* events/messages.upsert.js and core/commandRunner.js *)

\* Admin lookup, antilink, metadata and the gates are done: there is nothing
\* to run (chatter for the AI, an unknown or a refused command), and a reply,
\* if any, is awaited.
Refuse(m) ==
  /\ pc[m] = "checking"
  /\ pc' = [pc EXCEPT ![m] = "replying"]
  /\ UNCHANGED <<holds, made, waiting, home, muted, arrived, ran>>

IsMuted(m) == SenderOf[m] = Victim /\ ChatOf[m] \in muted

\* Mutant: the check of the mute list is missing.
RunUnchecked(m) ==
  LET c == ChatOf[m] IN
  /\ pc[m] = "checking" /\ KindOf[m] # "talk"
  /\ pc' = [pc EXCEPT ![m] = "running"]
  /\ ran' = ran \union {m}
  /\ muted' = CASE KindOf[m] = "mute" -> muted \union {c}
                [] KindOf[m] = "unmute" -> muted \ {c}
                [] OTHER -> muted
  /\ UNCHANGED <<holds, made, waiting, home, arrived>>

\* The gates are passed and the sender is not muted: cmd.start() runs up to
\* its first await, which for .mute includes the change of the mute list.
Run(m) ==
  LET c == ChatOf[m] IN
  /\ pc[m] = "checking" /\ KindOf[m] # "talk" /\ ~IsMuted(m)
  /\ pc' = [pc EXCEPT ![m] = "running"]
  /\ ran' = ran \union {m}
  /\ muted' = CASE KindOf[m] = "mute" -> muted \union {c}
                [] KindOf[m] = "unmute" -> muted \ {c}
                [] OTHER -> muted
  /\ UNCHANGED <<holds, made, waiting, home, arrived>>

\* cmd.start() settles, or withTimeout gives up on it while it goes on.
Returns(m) ==
  /\ pc[m] = "running"
  /\ pc' = [pc EXCEPT ![m] = "replying"]
  /\ UNCHANGED <<holds, made, waiting, home, muted, arrived, ran>>

\* The last await settles, or an await of handleMessage rejects, which is
\* logged: the task is over.
End(m) ==
  /\ pc[m] \in {"checking", "replying"}
  /\ Finish(m)
  /\ UNCHANGED <<made, waiting, home, muted, arrived, ran>>

-----------------------------------------------------------------------------
AllDone == \A m \in Messages : pc[m] = "done"

Handle(m) == Refuse(m) \/ Run(m) \/ Returns(m) \/ End(m)

Next ==
  \/ \E m \in Messages : Arrive(m) \/ Handle(m)
  \/ \E c \in Chats : Take(c)
  \/ AllDone /\ UNCHANGED vars

Spec == Init /\ [][Next]_vars

\* A queue starts what it can start, and the timer of withTimeout fires.
\* Other awaits settle, except in the wedged chats.
Fairness ==
  /\ \A c \in Chats : WF_vars(Take(c))
  /\ \A m \in Messages : WF_vars(Returns(m))
  /\ \A m \in Messages : ChatOf[m] \notin Wedged => WF_vars(Handle(m))

FairSpec == Spec /\ Fairness


-----------------------------------------------------------------------------
(* Properties *)

\* Queues are dropped and made anew, yet a chat never has more handlers at
\* work than its concurrency, whichever queue object they came from.
OneAtATime == \A c \in Chats : Cardinality(Handling(c)) <= Concurrency

\* chatQueues holds no queue for a chat without work: chats that come and go
\* do not pile up (worker.js, 'idle').
QueuesAreFreed ==
  \A c \in Chats : holds[c] # 0 => waiting[c] # <<>> \/ Handling(c) # {}

\* .mute binds everything that arrives after it, even what was already queued
\* when it ran: a command of the muted user that arrived after a .mute that ran
\* runs only if an unmute arrived between the two.
MuteBindsLaterMessages ==
  Concurrency = 1 =>
    \A c \in Chats : \A i, j \in DOMAIN arrived[c] :
      /\ i < j
      /\ KindOf[arrived[c][i]] = "mute" /\ SenderOf[arrived[c][j]] = Victim
      /\ {arrived[c][i], arrived[c][j]} \subseteq ran
      => \E k \in i .. j : KindOf[arrived[c][k]] = "unmute" /\ arrived[c][k] \in ran

\* A chat whose awaits never settle, or a command that hangs, holds up no other
\* chat, and a command that hangs not even its own.
ChatsProceed ==
  \A m \in Messages : ChatOf[m] \notin Wedged => (pc[m] = "queued" ~> pc[m] = "done")

\* The queues of worker.js serve every chat in order of arrival.
Fifo == INSTANCE ChatFifo
  WITH Slots <- Concurrency,
       come <- {m \in Messages : pc[m] # "away"},
       line <- waiting,
       serving <- [c \in Chats |-> Handling(c)]

ServesInOrder == Fifo!Spec

=============================================================================
