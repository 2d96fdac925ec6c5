----------------------------- MODULE MessageRows -----------------------------
(***************************************************************************)
(* The messages table and the events that write it: messages.upsert and    *)
(* the history sync save rows (saveMessages), edits, receipts and revokes  *)
(* UPDATE a row that has to be there.  SQLITE does all of it in place; for *)
(* POSTGRES and MONGODB rows wait in a batcher (lib/backpressure.js) of    *)
(* one flush at a time, while the updates go to the server by themselves   *)
(* and are applied in any order.  The handlers are started by              *)
(* events/router.js and not awaited.                                       *)
(*                                                                         *)
(* The bodies of a message are numbered: 0 as sent, one more by every      *)
(* edit.  MONGODB's schema has neither status nor deleted_at: mongoose     *)
(* drops both from an update, so there only the body is compared.          *)
(***************************************************************************)
EXTENDS Naturals, Sequences, FiniteSets

CONSTANTS
  Msgs,           \* messages of one chat
  RowStores,      \* a subset of {"sqlite", "postgres", "mongo"}
  MaxEdits,       \* bound on the edits of a message
  ReadStatus,     \* the highest receipt
  MaxCalls,       \* bound on the updates under way at once
  MaxBatch,       \* rows at which a batch is flushed without waiting
  MaxBuffer,      \* rows the batcher holds (maxBufferSize)
  MaxMsgTrouble   \* bound on redeliveries, failures and crashes

ASSUME MessageRowsAssumption ==
  /\ RowStores \subseteq {"sqlite", "postgres", "mongo"}
  /\ MaxEdits \in Nat /\ ReadStatus \in Nat /\ MaxMsgTrouble \in Nat /\ MaxCalls \in Nat
  /\ MaxBatch \in Nat \ {0} /\ MaxBuffer \in Nat \ {0}

VARIABLES
  rowStore,
  truth,          \* history: what WhatsApp has told of each message
  table,          \* the rows
  buffer, batch,  \* the batcher: rows that wait, rows being flushed
  timer,          \* whether its timer is armed
  calls,          \* the updates on their way to the server
  excused,        \* history: rows that something known to go wrong has hit
  msgTrouble

batcherVars == <<buffer, batch, timer>>
msgVars == <<rowStore, truth, table, batcherVars, calls, excused, msgTrouble>>

NoRow == [body |-> 0, status |-> 0, deleted |-> FALSE, there |-> FALSE]
NewRow(b) == [body |-> b, status |-> 0, deleted |-> FALSE, there |-> TRUE]
RowType == [body : 0 .. MaxEdits, status : 0 .. ReadStatus, deleted : BOOLEAN, there : BOOLEAN]
Saves == [id : Msgs, body : 0 .. MaxEdits]
Calls == [id : Msgs, op : {"edit", "status", "delete"}, value : Nat]

MsgTypeOK ==
  /\ rowStore \in RowStores
  /\ truth \in [Msgs -> RowType] /\ table \in [Msgs -> RowType]
  /\ buffer \in Seq(Saves) /\ Len(buffer) <= MaxBuffer
  /\ batch \in Seq(Saves)
  /\ timer \in BOOLEAN
  /\ calls \subseteq Calls
  /\ excused \subseteq Msgs
  /\ msgTrouble \in Nat

MsgInit ==
  /\ rowStore \in RowStores
  /\ truth = [m \in Msgs |-> NoRow] /\ table = [m \in Msgs |-> NoRow]
  /\ buffer = <<>> /\ batch = <<>> /\ timer = FALSE
  /\ calls = {} /\ excused = {}
  /\ msgTrouble = 0

MsgTrouble == msgTrouble < MaxMsgTrouble /\ msgTrouble' = msgTrouble + 1

IdsOf(rows) == {rows[i].id : i \in 1 .. Len(rows)}
Greater(a, b) == IF a > b THEN a ELSE b

-----------------------------------------------------------------------------
(* The batcher *)

\* Mutant: the oldest row goes although the buffer has room for the new one.
PushDrops(row) ==
  LET rows == Append(IF Len(buffer) + 1 >= MaxBuffer THEN Tail(buffer) ELSE buffer, row) IN
  /\ IF Len(rows) >= MaxBatch /\ batch = <<>>
       THEN buffer' = <<>> /\ batch' = rows /\ timer' = FALSE
       ELSE buffer' = rows /\ batch' = batch /\ timer' = TRUE

\* push(): the oldest rows go when the buffer is full, a tenth of it, which is
\* one row here.  A full batch is flushed at once, if no flush is under way.
Push(row) ==
  LET kept == IF Len(buffer) >= MaxBuffer THEN Tail(buffer) ELSE buffer
      rows == Append(kept, row) IN
  /\ IF Len(rows) >= MaxBatch /\ batch = <<>>
       THEN buffer' = <<>> /\ batch' = rows /\ timer' = FALSE
       ELSE buffer' = rows /\ batch' = batch /\ timer' = TRUE

Dropped == IF Len(buffer) >= MaxBuffer THEN {Head(buffer).id} ELSE {}

\* _doFlush() by the timer: during a flush it is armed again, at the latest by the
\* finally block.
TimerFires ==
  /\ timer
  /\ IF batch = <<>> THEN batch' = buffer /\ buffer' = <<>> /\ timer' = FALSE
                     ELSE UNCHANGED batcherVars
  /\ UNCHANGED <<rowStore, truth, table, calls, excused, msgTrouble>>

\* The finally block.
FlushEnds ==
  /\ batch' = <<>>
  /\ timer' = (timer \/ buffer # <<>>)
  /\ UNCHANGED buffer

Twice(rows) == {m \in Msgs : Cardinality({i \in 1 .. Len(rows) : rows[i].id = m}) > 1}

\* One INSERT ... ON CONFLICT DO UPDATE SET msg, which fails as a whole when it
\* holds a row twice; or a bulkWrite whose upserts may run in any order.
Flushed(pick) ==
  [m \in Msgs |-> IF m \notin IdsOf(batch) THEN table[m]
                  ELSE [table[m] EXCEPT !.body = batch[pick[m]].body, !.there = TRUE]]

Flush ==
  /\ batch # <<>>
  /\ rowStore = "postgres" => Twice(batch) = {}
  /\ \E pick \in [Msgs -> 1 .. Len(batch)] :
       /\ \A m \in IdsOf(batch) : batch[pick[m]].id = m
       /\ \A m \in Msgs \ IdsOf(batch) : pick[m] = 1
       /\ table' = Flushed(pick)
  /\ excused' = excused \union Twice(batch)
  /\ FlushEnds
  /\ UNCHANGED <<rowStore, truth, calls, msgTrouble>>

\* Mutant: the batch is kept for another try.
FlushRetries ==
  /\ batch # <<>>
  /\ \/ MsgTrouble
     \/ rowStore = "postgres" /\ Twice(batch) # {} /\ UNCHANGED msgTrouble
  /\ UNCHANGED <<rowStore, truth, table, calls, excused, batcherVars>>

\* The server fails, or refuses a batch: its rows are lost.
FlushFails ==
  /\ batch # <<>>
  /\ \/ MsgTrouble
     \/ rowStore = "postgres" /\ Twice(batch) # {} /\ UNCHANGED msgTrouble
  /\ excused' = excused \union IdsOf(batch)
  /\ FlushEnds
  /\ UNCHANGED <<rowStore, truth, table, calls>>

-----------------------------------------------------------------------------
(* Messages arrive *)

\* saveMessages(): INSERT OR REPLACE, or a row for the batcher.
SaveRow(m, b) ==
  IF rowStore = "sqlite"
    THEN table' = [table EXCEPT ![m] = NewRow(b)] /\ UNCHANGED batcherVars
    ELSE Push([id |-> m, body |-> b]) /\ UNCHANGED table

Deliver(m) ==
  /\ ~truth[m].there
  /\ truth' = [truth EXCEPT ![m] = NewRow(0)]
  /\ SaveRow(m, 0)
  /\ excused' = IF rowStore = "sqlite" THEN excused ELSE excused \union Dropped
  /\ UNCHANGED <<rowStore, calls, msgTrouble>>

\* WhatsApp delivers a message again, by history sync or after a reconnect: the
\* row is saved again as it was first sent, without what was learnt since.
Redeliver(m) ==
  /\ truth[m].there
  /\ MsgTrouble
  /\ SaveRow(m, 0)
  /\ excused' = excused \union {m} \union (IF rowStore = "sqlite" THEN {} ELSE Dropped)
  /\ UNCHANGED <<rowStore, truth, calls>>

-----------------------------------------------------------------------------
(* Edits, receipts, revokes *)

\* updateMessageBody, updateMessageStatus, markMessageDeleted: an UPDATE of a
\* row, which does nothing when there is none.
Applied(r, c) ==
  IF ~r.there THEN r
  ELSE CASE c.op = "edit" -> [r EXCEPT !.body = c.value]
         [] c.op = "status" -> [r EXCEPT !.status = Greater(@, c.value)]
         [] c.op = "delete" -> [r EXCEPT !.deleted = TRUE]

Learnt(r, c) ==
  [r EXCEPT !.body = IF c.op = "edit" THEN c.value ELSE @,
            !.status = IF c.op = "status" THEN Greater(@, c.value) ELSE @,
            !.deleted = @ \/ c.op = "delete"]

\* A handler is started with an update that WhatsApp has for a message.
Told(m, op, value) ==
  LET c == [id |-> m, op |-> op, value |-> value] IN
  /\ truth[m].there /\ c \notin calls /\ Cardinality(calls) < MaxCalls
  /\ truth' = [truth EXCEPT ![m] = Learnt(@, c)]
  /\ IF rowStore = "sqlite"
       THEN table' = [table EXCEPT ![m] = Applied(@, c)] /\ UNCHANGED <<calls, excused>>
       ELSE /\ calls' = calls \union {c}
            /\ excused' = IF op = "edit" /\ \E d \in calls : d.id = m /\ d.op = "edit"
                            THEN excused \union {m} ELSE excused
            /\ UNCHANGED table
  /\ UNCHANGED <<rowStore, batcherVars, msgTrouble>>

Edit(m) == truth[m].body < MaxEdits /\ Told(m, "edit", truth[m].body + 1)

Receipt(m, s) == s \in 1 .. ReadStatus /\ Told(m, "status", s)

Revoke(m) == ~truth[m].deleted /\ Told(m, "delete", 0)

\* The server applies one; a row that is still in the batcher is not there yet.
Apply(c) ==
  /\ c \in calls
  /\ calls' = calls \ {c}
  /\ table' = [table EXCEPT ![c.id] = Applied(@, c)]
  /\ excused' = IF table[c.id].there /\ c.id \notin IdsOf(batch) \union IdsOf(buffer)
                  THEN excused ELSE excused \union {c.id}
  /\ UNCHANGED <<rowStore, truth, batcherVars, msgTrouble>>

CallFails(c) ==
  /\ c \in calls
  /\ MsgTrouble
  /\ calls' = calls \ {c}
  /\ excused' = excused \union {c.id}
  /\ UNCHANGED <<rowStore, truth, table, batcherVars>>

\* What the process held in memory or in flight is gone.
MsgCrash ==
  /\ MsgTrouble
  /\ buffer' = <<>> /\ batch' = <<>> /\ timer' = FALSE /\ calls' = {}
  /\ excused' = excused \union IdsOf(buffer) \union IdsOf(batch) \union {c.id : c \in calls}
  /\ UNCHANGED <<rowStore, truth, table>>

-----------------------------------------------------------------------------
MsgNext ==
  \/ TimerFires \/ Flush \/ FlushFails \/ MsgCrash
  \/ \E m \in Msgs :
       \/ Deliver(m) \/ Redeliver(m) \/ Edit(m) \/ Revoke(m)
       \/ \E s \in 1 .. ReadStatus : Receipt(m, s)
  \/ \E c \in calls : Apply(c) \/ CallFails(c)

\* The timer fires and every flush ends, in time or by its timeout.
MsgFair == WF_msgVars(TimerFires) /\ WF_msgVars(Flush \/ FlushFails)

MsgSpec == MsgInit /\ [][MsgNext]_msgVars /\ MsgFair

-----------------------------------------------------------------------------
(* Properties *)

Settled(m) ==
  /\ \A c \in calls : c.id # m
  /\ m \notin IdsOf(buffer) \union IdsOf(batch)

\* When nothing of a message is under way its row says what WhatsApp said, unless
\* it is excused: its batch failed or was dropped by a full buffer, an update
\* overtook the row or another edit, or the message was delivered again.  On
\* SQLITE only the last can happen.
RowsAreRight ==
  \A m \in Msgs : truth[m].there /\ m \notin excused /\ Settled(m) =>
    IF rowStore = "mongo" THEN table[m].there /\ table[m].body = truth[m].body
                          ELSE table[m] = truth[m]

RowsInv == MsgTypeOK /\ RowsAreRight

\* No row stays in the batcher: a timer that fires during a flush, a batch that
\* fills up during one, and rows that come meanwhile are all flushed in the end.
RowsLand == []<>(buffer = <<>>)

=============================================================================
