------------------------------ MODULE EventRows ------------------------------
(***************************************************************************)
(* The handlers under events/ that mirror lists of the account into the    *)
(* store: blocklist.set, blocklist.update, labels.edit,                    *)
(* labels.association, lid-mapping.update, presence.update, chats.upsert,  *)
(* chats.update, chats.delete, newsletter.view and newsletter.reaction,    *)
(* with the timeline rows they add, and the listener of the store itself   *)
(* for chats.upsert.  The bus starts a handler at each event and waits for *)
(* none.  A handler is the sequence of the calls it still makes.           *)
(*                                                                         *)
(* SQLITE executes a statement where it is called and redis has one        *)
(* connection, so that their calls take effect in the order in which they  *)
(* are made, and handlers go on in that order; postgres and mongo have a   *)
(* pool of connections, where calls of different handlers take effect in   *)
(* any order.                                                              *)
(***************************************************************************)
EXTENDS Integers, Sequences, FiniteSets, SequencesExt

CONSTANTS
  EventStores,       \* a subset of InOrder \union Pools
  Contacts, LabelIds, Lids, Chats,
  None,              \* no value
  MaxViews,          \* bound on the views of a newsletter's message
  Presences,         \* the meaningful states of presence.update
  MaxEvents, MaxEventTrouble   \* bounds on events, and on failures and crashes

InOrder == {"sqlite", "redis"}
Pools == {"postgres", "mongo"}
Tags == LabelIds \X Contacts

\* The kinds of names differ from each other where they meet.
ASSUME EventRowsAssumption ==
  /\ EventStores \subseteq InOrder \union Pools
  /\ IsFiniteSet(Contacts)
  /\ None \notin Contacts \union Lids \union Presences
  /\ LabelIds \intersect Tags = {}
  /\ MaxViews \in Nat /\ MaxEvents \in Nat /\ MaxEventTrouble \in Nat

VARIABLES
  eventStore,
  mirror,       \* the list that changes: "blocked", "labels", "lids", "presence", "chats" or "channel"
  told,         \* history: what the events said of it
  rows,         \* what the store holds of it
  timeline,     \* the rows of the timeline, <<of what, new value>>, while sure
  lastLogged,   \* lastTimelineState of presence.update
  handlers,     \* the running handlers, in the order in which they go on
  sure,         \* history: what nothing was lost of, or overtaken by
  eventsLeft, eventTrouble

eventVars == <<eventStore, mirror, told, rows, timeline, lastLogged, handlers, sure, eventsLeft, eventTrouble>>

\* Of a chat, pinned stands for archived too; a mute that is lifted is FALSE.
NoChat == [there |-> FALSE, pinned |-> None, mute |-> None, deleted |-> FALSE]

\* A message of a newsletter.  sum is what the rows of its reactions add up to;
\* guesses are the notices whose count could not be parsed.
NoViews == [views |-> 0, guesses |-> 0, sum |-> 0]

\* In rows, tags counts the rows of an association, index is redis' set of the
\* labels of a target and reverse its lid_rev.
EventsInit ==
  /\ eventStore \in EventStores
  /\ mirror \in {"blocked", "labels", "lids", "presence", "chats", "channel"}
  /\ told = [blocked |-> {}, labels |-> {}, tags |-> {}, pn |-> [l \in Lids |-> None],
             state |-> [c \in Contacts |-> None],
             chat |-> [k \in Chats |-> NoChat], channel |-> NoViews]
  /\ rows = [blocked |-> {}, labels |-> {}, tags |-> [t \in Tags |-> 0], index |-> {}, listed |-> {},
             pn |-> [l \in Lids |-> None], reverse |-> [c \in Contacts |-> None],
             state |-> [c \in Contacts |-> None],
             chat |-> [k \in Chats |-> NoChat], channel |-> NoViews]
  /\ timeline = <<>>
  /\ lastLogged = [c \in Contacts |-> None]
  /\ handlers = <<>>
  /\ sure = [rows |-> TRUE, timeline |-> TRUE, steady |-> TRUE]
  /\ eventsLeft = MaxEvents
  /\ eventTrouble = MaxEventTrouble

Call(op, id, to) == [op |-> op, id |-> id, to |-> to]

\* recordTimeline() for each of ids.
Logs(ids, value) == [i \in 1 .. Cardinality(ids) |-> Call("log", SetToSeq(ids)[i], value)]

-----------------------------------------------------------------------------
(* The calls of the store *)

\* setBlocklist: one transaction, or one pipeline; mongo deletes, then inserts.
AtOnce(list) == <<Call("replace", None, list)>>
PostgresReplace(list) == AtOnce(list)
RedisReplace(list) == AtOnce(list)
MongoReplace(list) == <<Call("wipe", None, None), Call("fill", None, list)>>

Replacement(list) ==
  CASE eventStore = "sqlite" -> AtOnce(list)
    [] eventStore = "postgres" -> PostgresReplace(list)
    [] eventStore = "mongo" -> MongoReplace(list)
    [] eventStore = "redis" -> RedisReplace(list)

\* redis has further sets to write after the row, each with a call of its own.
UpsertLabel(l) == <<Call("upsertLabel", l, None)>>
RedisUpsertLabel(l) == <<Call("upsertLabel", l, None), Call("list", l, None)>>
Associate(t) == <<Call("associate", t, None)>>
RedisAssociate(t) == <<Call("associate", t, None), Call("index", t, None)>>

\* In SQLITE's table the key of a chat's association holds a NULL, and is
\* therefore not unique.
SqliteTagged(t) == [rows EXCEPT !.tags[t] = @ + 1]
Tagged(t) == [rows EXCEPT !.tags[t] = 1]

\* Mutant: one of the rows.
UntaggedOnce(t) == [rows EXCEPT !.tags[t] = IF @ = 0 THEN 0 ELSE @ - 1]

\* disassociateLabel: every such row; redis leaves its set of labels by target.
Untagged(t) == [rows EXCEPT !.tags[t] = 0]

AddToBlocklist(c) == [rows EXCEPT !.blocked = @ \union {c}]
RemoveFromBlocklist(c) == [rows EXCEPT !.blocked = @ \ {c}]
DeleteLabel(l) == [rows EXCEPT !.labels = @ \ {l}]

SetLid(l, pn) == [rows EXCEPT !.pn[l] = pn]
RedisSetLid(l, pn) == [rows EXCEPT !.pn[l] = pn, !.reverse[pn] = l]

RecordPresence(c, state) == [rows EXCEPT !.state[c] = state]

\* The field of a chat that an event carries, if any.
Fields == {<<"pinned", TRUE>>, <<"pinned", FALSE>>, <<"mute", TRUE>>, <<"mute", FALSE>>}
SetField(chat, f) ==
  IF f = None THEN chat
  ELSE IF f[1] = "pinned" THEN [chat EXCEPT !.pinned = f[2]] ELSE [chat EXCEPT !.mute = f[2]]

\* updateChat: null, the mute of a chat that is not muted, is no value.
Merged(chat, f) == IF f = <<"mute", FALSE>> THEN chat ELSE SetField(chat, f)

\* An UPDATE of a row, if it is there.  Mongo and redis insert it, if there is a value.
UpdateChat(k, f) == IF rows.chat[k].there THEN [rows EXCEPT !.chat[k] = Merged(@, f)] ELSE rows
MongoUpdateChat(k, f) ==
  IF f \in {None, <<"mute", FALSE>>} THEN rows ELSE [rows EXCEPT !.chat[k] = SetField([@ EXCEPT !.there = TRUE], f)]
RedisUpdateChat(k, f) == MongoUpdateChat(k, f)

\* chats.upsert in bind(): the row without those fields.
InsertChat(k) == [rows EXCEPT !.chat[k].there = TRUE]
SqliteUpsertChat(k, f) == [rows EXCEPT !.chat[k] = Merged([@ EXCEPT !.there = TRUE], f)]

MarkChatDeleted(k) == [rows EXCEPT !.chat[k].deleted = TRUE]

\* The highest count so far; redis reads it, and writes what is higher.
SetViewCount(n) == [rows EXCEPT !.channel.views = IF n > @ THEN n ELSE @]
RedisSetViewCount(n) == IF n > rows.channel.views THEN <<Call("putViews", None, n)>> ELSE <<>>
IncrementView == [rows EXCEPT !.channel.views = @ + 1]
RecordReaction(n) == [rows EXCEPT !.channel.sum = @ + n]

RecordTimelineEvent(of, value) == Append(timeline, <<of, value>>)

\* The rows after a call.
Written(c) ==
  CASE c.op = "replace" -> [rows EXCEPT !.blocked = c.to]
    [] c.op = "wipe" -> [rows EXCEPT !.blocked = {}]
    [] c.op = "fill" -> [rows EXCEPT !.blocked = @ \union c.to]
    [] c.op = "block" -> AddToBlocklist(c.id)
    [] c.op = "unblock" -> RemoveFromBlocklist(c.id)
    [] c.op = "upsertLabel" -> [rows EXCEPT !.labels = @ \union {c.id}]
    [] c.op = "list" -> [rows EXCEPT !.listed = @ \union {c.id}]
    [] c.op = "deleteLabel" -> DeleteLabel(c.id)
    [] c.op = "associate" -> IF eventStore = "sqlite" THEN SqliteTagged(c.id) ELSE Tagged(c.id)
    [] c.op = "index" -> [rows EXCEPT !.index = @ \union {c.id}]
    [] c.op = "disassociate" -> Untagged(c.id)
    [] c.op = "setLid" -> IF eventStore = "redis" THEN RedisSetLid(c.id, c.to) ELSE SetLid(c.id, c.to)
    [] c.op = "presence" -> RecordPresence(c.id, c.to)
    [] c.op = "insertChat" -> InsertChat(c.id)
    [] c.op = "updateChat" -> CASE eventStore = "mongo" -> MongoUpdateChat(c.id, c.to)
                                [] eventStore = "redis" -> RedisUpdateChat(c.id, c.to)
                                [] OTHER -> UpdateChat(c.id, c.to)
    [] c.op = "upsertChat" -> SqliteUpsertChat(c.id, c.to)
    [] c.op = "markDeleted" -> MarkChatDeleted(c.id)
    [] c.op = "setViews" -> SetViewCount(c.to)
    [] c.op = "putViews" -> [rows EXCEPT !.channel.views = c.to]
    [] c.op = "addView" -> IncrementView
    [] c.op = "react" -> RecordReaction(c.to)
    [] OTHER -> rows

-----------------------------------------------------------------------------
(* Handlers *)

\* blocklist.set after the list before it was read.
Diff(list, prev) == Replacement(list) \o Logs(list \ prev, TRUE) \o Logs(prev \ list, FALSE)

\* What a handler still does after its first call.  The store catches what fails,
\* gives up the calls of the same method, and the handler goes on.
Remaining(h, ok) ==
  LET c == Head(h)
      next == Tail(h) IN
  CASE c.op = "read" -> Diff(c.to, IF ok THEN rows.blocked ELSE {})
    [] c.op = "readViews" -> IF ok THEN RedisSetViewCount(c.to) ELSE <<>>
    [] ~ok /\ next # <<>> /\ Head(next).op \in {"fill", "list", "index"} -> Tail(next)
    [] OTHER -> next

\* presence.update logs a state that is not the last one it logged, whether or not
\* the row arrives.
Transition(c) == c.op = "transition" /\ lastLogged[c.id] # c.to

\* Rows of the timeline that nothing is said of any more are left out.
Logged(log, s) == IF s.timeline \/ (mirror = "presence" /\ s.steady) THEN log ELSE <<>>

\* An UPDATE finds no row: on postgres it may overtake the INSERT of bind().
Misses(c) == c.op = "updateChat" /\ eventStore \in {"sqlite", "postgres"} /\ ~rows.chat[c.id].there

\* The first call of h; s is what is sure before it.
Perform(h, ok, s) ==
  LET c == Head(h) IN
  /\ rows' = IF ok THEN Written(c) ELSE rows
  /\ lastLogged' = IF Transition(c) THEN [lastLogged EXCEPT ![c.id] = c.to] ELSE lastLogged
  /\ sure' = IF ok THEN [s EXCEPT !.rows = @ /\ ~Misses(c)]
             ELSE [s EXCEPT !.rows = @ /\ c.op \in {"read", "log", "transition"}, !.timeline = FALSE,
                              !.steady = @ /\ c.op # "transition"]
  /\ timeline' = Logged(IF ok /\ (c.op = "log" \/ Transition(c)) THEN RecordTimelineEvent(c.id, c.to) ELSE timeline,
                      sure')
  /\ IF ok THEN UNCHANGED eventTrouble ELSE eventTrouble > 0 /\ eventTrouble' = eventTrouble - 1

Left(h, ok) == LET r == Remaining(h, ok) IN IF r = <<>> THEN <<>> ELSE <<r>>

\* A running handler makes its next call.
Continue ==
  /\ \E i \in 1 .. Len(handlers), ok \in BOOLEAN :
       /\ eventStore \in InOrder => i = 1
       /\ Perform(handlers[i], ok, sure)
       /\ handlers' = IF eventStore \in InOrder THEN Tail(handlers) \o Left(handlers[i], ok)
                      ELSE SubSeq(handlers, 1, i - 1) \o Left(handlers[i], ok)
                           \o SubSeq(handlers, i + 1, Len(handlers))
  /\ UNCHANGED <<eventStore, mirror, told, eventsLeft>>

\* Whether what runs may overtake a handler that starts now: its rows, its logs.
RowsOvertaken ==
  IF eventStore \in InOrder THEN \E i \in 1 .. Len(handlers) : Head(handlers[i]).op \in {"replace", "putViews"}
                            ELSE handlers # <<>> /\ mirror # "channel"
LogsOvertaken ==
  IF eventStore \in InOrder THEN \E i \in 1 .. Len(handlers) : Len(handlers[i]) > 1 \/ Head(handlers[i]).op = "replace"
                            ELSE handlers # <<>>

\* An event of the mirror m that makes told be now, a handler that makes calls, and
\* listeners of the store before it.
EventOf(m, now, listeners, calls) ==
  /\ mirror = m /\ eventsLeft > 0
  /\ eventsLeft' = eventsLeft - 1
  /\ told' = now
  /\ LET s == [sure EXCEPT !.rows = (@ /\ ~RowsOvertaken) \/ (Head(calls).op = "read" /\ handlers = <<>>),
                           !.timeline = @ /\ ~LogsOvertaken] IN
     IF eventStore \in InOrder
       THEN \E ok \in BOOLEAN : Perform(calls, ok, s) /\ handlers' = handlers \o Left(calls, ok)
       ELSE /\ handlers' = handlers \o listeners \o <<calls>> /\ sure' = s /\ timeline' = Logged(timeline, s)
            /\ UNCHANGED <<rows, lastLogged, eventTrouble>>
  /\ UNCHANGED <<eventStore, mirror>>

Event(m, now, calls) == EventOf(m, now, <<>>, calls)

BlocklistSet(list) ==
  Event("blocked", [told EXCEPT !.blocked = list], <<Call("read", None, list)>>)

BlocklistUpdate(c, add) ==
  Event("blocked", [told EXCEPT !.blocked = IF add THEN @ \union {c} ELSE @ \ {c}],
        <<Call(IF add THEN "block" ELSE "unblock", c, None), Call("log", c, add)>>)

LabelEdit(l, deleted) ==
  Event("labels", [told EXCEPT !.labels = IF deleted THEN @ \ {l} ELSE @ \union {l}],
        (IF deleted THEN <<Call("deleteLabel", l, None)>>
         ELSE IF eventStore = "redis" THEN RedisUpsertLabel(l) ELSE UpsertLabel(l))
        \o <<Call("log", l, ~deleted)>>)

LabelAssociation(t, add) ==
  Event("labels", [told EXCEPT !.tags = IF add THEN @ \union {t} ELSE @ \ {t}],
        (IF ~add THEN <<Call("disassociate", t, None)>>
         ELSE IF eventStore = "redis" THEN RedisAssociate(t) ELSE Associate(t))
        \o <<Call("log", t, add)>>)

LidMapping(l, pn) ==
  Event("lids", [told EXCEPT !.pn[l] = pn], <<Call("setLid", l, pn)>>)

PresenceUpdate(c, state) ==
  Event("presence", [told EXCEPT !.state[c] = state],
        <<Call("presence", c, state), Call("transition", c, state)>>)

LogField(k, f) == IF f = None THEN <<>> ELSE <<Call("log", <<k, f[1]>>, f[2])>>

\* SQLITE executes both statements before anything else, and redis does not listen.
ChatsUpsert(k, f) ==
  EventOf("chats", [told EXCEPT !.chat[k] = SetField([@ EXCEPT !.there = TRUE], f)],
          IF eventStore \in Pools THEN <<<<Call("insertChat", k, None)>>>> ELSE <<>>,
          <<Call(IF eventStore = "sqlite" THEN "upsertChat" ELSE "updateChat", k, f)>> \o LogField(k, f))

\* WhatsApp has told of the chat before.
ChatsUpdate(k, f) ==
  /\ told.chat[k].there
  /\ Event("chats", [told EXCEPT !.chat[k] = SetField(@, f)], <<Call("updateChat", k, f)>> \o LogField(k, f))

ChatsDelete(k) ==
  /\ told.chat[k].there
  /\ Event("chats", [told EXCEPT !.chat[k].deleted = TRUE],
           <<Call("markDeleted", k, None), Call("log", <<k, "deleted">>, TRUE)>>)

\* newsletter.view with the server's count, which may be late or a repetition.
NewsletterView(n) ==
  Event("channel", [told EXCEPT !.channel.views = IF n > @ THEN n ELSE @],
        <<Call(IF eventStore = "redis" THEN "readViews" ELSE "setViews", None, n)>>)

NewsletterViewUnparsed == Event("channel", [told EXCEPT !.channel.guesses = @ + 1], <<Call("addView", None, None)>>)

\* A removed reaction counts negatively.
NewsletterReaction(n) == Event("channel", [told EXCEPT !.channel.sum = @ + n], <<Call("react", None, n)>>)

\* The six hours of an entry of lastTimelineState are over.
Forget(c) ==
  /\ lastLogged[c] # None
  /\ eventTrouble > 0 /\ eventTrouble' = eventTrouble - 1
  /\ lastLogged' = [lastLogged EXCEPT ![c] = None]
  /\ sure' = [sure EXCEPT !.steady = FALSE]
  /\ timeline' = Logged(timeline, sure')
  /\ UNCHANGED <<eventStore, mirror, told, rows, handlers, eventsLeft>>

EventsCrash ==
  /\ eventTrouble > 0 /\ eventTrouble' = eventTrouble - 1
  /\ handlers' = <<>>
  /\ lastLogged' = [c \in Contacts |-> None]
  /\ sure' = [rows |-> sure.rows /\ \A i \in 1 .. Len(handlers) : Head(handlers[i]).op \in {"log", "transition"},
              timeline |-> sure.timeline /\ handlers = <<>>,
              steady |-> sure.steady /\ \A c \in Contacts : lastLogged[c] = None]
  /\ timeline' = Logged(timeline, sure')
  /\ UNCHANGED <<eventStore, mirror, told, rows, eventsLeft>>

EventsNext ==
  \/ Continue \/ EventsCrash
  \/ \E list \in SUBSET Contacts : BlocklistSet(list)
  \/ \E c \in Contacts :
       \/ \E add \in BOOLEAN : BlocklistUpdate(c, add)
       \/ \E state \in Presences : PresenceUpdate(c, state)
       \/ \E l \in Lids : LidMapping(l, c)
       \/ Forget(c)
  \/ \E l \in LabelIds, deleted \in BOOLEAN : LabelEdit(l, deleted)
  \/ \E t \in Tags, add \in BOOLEAN : LabelAssociation(t, add)
  \/ \E k \in Chats :
       \/ \E f \in Fields \union {None} : ChatsUpsert(k, f) \/ ChatsUpdate(k, f)
       \/ ChatsDelete(k)
  \/ \E n \in 1 .. MaxViews : NewsletterView(n)
  \/ NewsletterViewUnparsed
  \/ \E n \in {1, -1} : NewsletterReaction(n)

EventsSpec == EventsInit /\ [][EventsNext]_eventVars

-----------------------------------------------------------------------------
(* Properties *)

\* getLabelsForTarget and listLabels.
LabelsOf(c) ==
  {l \in rows.labels : IF eventStore = "redis" THEN <<l, c>> \in rows.index ELSE rows.tags[<<l, c>>] > 0}
ListLabels == IF eventStore = "redis" THEN rows.labels \intersect rows.listed ELSE rows.labels

\* getReverseLidMapping: some row of the table, or redis' own map.
ReverseLids(c) ==
  IF eventStore = "redis" THEN {rows.reverse[c]} \ {None} ELSE {l \in Lids : rows.pn[l] = c}

TellsAll ==
  /\ rows.blocked = told.blocked
  /\ ListLabels = told.labels
  /\ {t \in Tags : rows.tags[t] > 0} = told.tags
  /\ \A c \in Contacts :
       LET labels == {l \in told.labels : <<l, c>> \in told.tags} IN
       labels \subseteq LabelsOf(c) /\ (eventStore # "redis" => LabelsOf(c) = labels)
  /\ rows.pn = told.pn
  /\ \A c \in Contacts :
       LET lids == {l \in Lids : told.pn[l] = c} IN
       IF eventStore = "redis" THEN lids # {} => ReverseLids(c) # {} ELSE ReverseLids(c) = lids
  /\ rows.state = told.state
  /\ \A k \in Chats :
       /\ rows.chat[k].pinned = told.chat[k].pinned /\ rows.chat[k].deleted = told.chat[k].deleted
       /\ told.chat[k].mute # FALSE => rows.chat[k].mute = told.chat[k].mute
  /\ rows.channel.views \in told.channel.views .. told.channel.views + told.channel.guesses
  /\ rows.channel.sum = told.channel.sum

\* What the timeline has rows of, and what it should say of it now.
Mirrored ==
  [blocked |-> Contacts, labels |-> LabelIds \union Tags, lids |-> {}, presence |-> Contacts,
   chats |-> Chats \X {"pinned", "mute", "deleted"}, channel |-> {}][mirror]
Now(x) ==
  CASE mirror = "blocked" -> x \in told.blocked
    [] mirror = "labels" -> x \in told.labels \union told.tags
    [] mirror = "presence" -> told.state[x]
    [] mirror = "chats" -> told.chat[x[1]][x[2]]

\* No row before the j-th says anything of what the i-th is about.
NoneBetween(i, j) == \A k \in i + 1 .. j - 1 : timeline[k][1] # timeline[i][1]
IsLast(i) == NoneBetween(i, Len(timeline) + 1)

LogTells ==
  \A i \in 1 .. Len(timeline) : timeline[i][1] \in Mirrored /\ IsLast(i) => timeline[i][2] = Now(timeline[i][1])

LogSteady ==
  mirror = "presence" =>
    \A i, j \in 1 .. Len(timeline) :
      i < j /\ timeline[i][1] = timeline[j][1] /\ NoneBetween(i, j) => timeline[i][2] # timeline[j][2]

\* Between two events the store says of the blocklist, the labels, their
\* associations, the LIDs, the presence, the chats and the newsletters what WhatsApp
\* said, and the last row of the timeline says it too, unless a call failed, a crash
\* came in between, a handler was overtaken in a pool, redis lost a count of views,
\* or the replacement of the blocklist took an update with it; a full list makes up
\* for that.  A pool may take notices of a newsletter in any order.  Presence is
\* logged once for each transition until the handler forgets the last one.
EventRowsInv ==
  handlers = <<>> =>
    /\ sure.rows => TellsAll
    /\ sure.timeline => LogTells
    /\ sure.steady => LogSteady

\* chats.update.js: 'This handler propagates extended-field mutations (pin/mute/
\* archive)'.  A mute that is lifted is null, which updateChat() takes for no value.
UnmutesLand == handlers = <<>> /\ sure.rows => \A k \in Chats : told.chat[k].mute = FALSE => rows.chat[k].mute # TRUE

\* chats.upsert.js: 'This handler ADDS the v1.1.0 extended fields (pinned,
\* muted_until, archived) on top'.
FieldsLand ==
  handlers = <<>> /\ eventTrouble = MaxEventTrouble =>
    \A k \in Chats : told.chat[k].pinned # None => rows.chat[k].pinned # None

\* The same file: 'The store's existing bind(sock.ev) already inserts the basic chat
\* row'.
ChatsAreThere ==
  handlers = <<>> /\ eventTrouble = MaxEventTrouble => \A k \in Chats : told.chat[k].there => rows.chat[k].there

=============================================================================
