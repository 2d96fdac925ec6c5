---------------------------- MODULE Feeds_proofs ----------------------------
(***************************************************************************)
(* Proofs about two things that share no state: the feeds of articles, and *)
(* the lists of the account that events feed into the store (EventRows).   *)
(*                                                                         *)
(* An article is sent once because, while no lock has expired, the one     *)
(* check that runs finds a record of everything that was sent, but for the *)
(* article it has in hand (Kept).                                          *)
(*                                                                         *)
(* The lists are true between two events because what was told is, at any  *)
(* time, what the rows will be after the one handler that still has to     *)
(* write (RowsKnown), and because the last row of the timeline, or the     *)
(* last log that a handler still has to make, is of what was told          *)
(* (TimelineKnown).                                                        *)
(***************************************************************************)
EXTENDS Feeds, EventRows, FiniteSetTheorems, SequenceTheorems, TLAPS

-----------------------------------------------------------------------------
(* Types *)

LEMMA InitType == Init => TypeOK
BY SchedulerAssumption DEF Init, TypeOK, SchedInit, SchedTypeOK, Free, Pairs

LEMMA CountType ==
  ASSUME sent \in [Pairs -> 0 .. 2], NEW p \in Pairs, Count(p)
  PROVE  /\ sent' \in [Pairs -> 0 .. 2]
         /\ sent'[p] > 0
         /\ sent[p] = 0 => sent'[p] = 1
         /\ \A q \in Pairs : q # p => sent'[q] = sent[q]
         /\ \A q \in Pairs : sent[q] > 0 => sent'[q] > 0
BY DEF Count

\* The timer and the lock keep their types, whatever a step does to them.
LEMMA SchedType ==
  ASSUME SchedTypeOK, Acquire \/ Skip \/ ReleaseLock \/ Tick \/ Reset \/ UNCHANGED schedVars
  PROVE  SchedTypeOK' /\ (overdue' = "no" => overdue = "no")
<1> USE SchedulerAssumption DEF SchedTypeOK, Free
<1>1. CASE Acquire BY <1>1 DEF Acquire
<1>2. CASE Skip BY <1>2 DEF Skip
<1>3. CASE ReleaseLock BY <1>3 DEF ReleaseLock
<1>4. CASE Tick BY <1>4 DEF Tick
<1>5. CASE Reset BY <1>5 DEF Reset
<1>6. CASE UNCHANGED schedVars BY <1>6 DEF schedVars
<1> QED BY <1>1, <1>2, <1>3, <1>4, <1>5, <1>6

\* Every step does one of these to the scheduler.
LEMMA SchedSteps ==
  ASSUME [Next]_vars
  PROVE  Acquire \/ Skip \/ ReleaseLock \/ Tick \/ Reset \/ UNCHANGED schedVars
<1>1. CASE UNCHANGED vars BY <1>1 DEF vars
<1>2. CASE Crash \/ Pass BY <1>2 DEF Crash, Pass
<1>3. CASE \E s \in Subscribers : Subscribe(s) BY <1>3 DEF Subscribe
<1>4. CASE \E i \in Items : Publish(i) BY <1>4 DEF Publish
<1>5. ASSUME NEW k \in Runs, Start(k) PROVE Acquire BY <1>5 DEF Start
<1>6. ASSUME NEW k \in Runs, Step(k) PROVE ReleaseLock \/ UNCHANGED schedVars
  BY <1>6 DEF Step, List, ListFails, Listed, Fetch, FetchFails, Fetched, PassOver, Send,
    SendUnseen, Sending, Deliver, SendFails, AnswerLost, Record, RecordFails, NextVisit, Finish
<1> QED BY <1>1, <1>2, <1>3, <1>4, <1>5, <1>6 DEF Next

LEMMA StepType ==
  ASSUME TypeOK, [Next]_vars PROVE TypeOK'
<1>0. SchedTypeOK' BY SchedSteps, SchedType DEF TypeOK
<1> USE <1>0 DEF TypeOK
<1>1. CASE UNCHANGED vars BY <1>1 DEF vars, runVars
<1>2. CASE Crash BY <1>2 DEF Crash
<1>3. CASE Pass BY <1>3 DEF Pass, runVars
<1>4. CASE \E s \in Subscribers : Subscribe(s) BY <1>4 DEF Subscribe, runVars
<1>5. CASE \E i \in Items : Publish(i) BY <1>5 DEF Publish, runVars
<1>6. ASSUME NEW k \in Runs, Start(k) PROVE TypeOK' BY <1>6 DEF Start, Goto
<1>7. ASSUME NEW k \in Runs, Step(k) PROVE TypeOK'
  <2>1. CASE List(k) \/ ListFails(k) BY <2>1 DEF List, ListFails, Listed, Goto
  <2>2. ASSUME NEW s \in Subscribers, Fetch(k, s) \/ FetchFails(k, s) PROVE TypeOK'
    <3>1. {s} \X shown \in SUBSET Pairs /\ {s} \X {} \in SUBSET Pairs BY DEF Pairs
    <3> QED BY <2>2, <3>1 DEF Fetch, FetchFails, Fetched, Goto
  <2>3. CASE PassOver(k) BY <2>3 DEF PassOver
  <2>4. CASE Send(k) BY <2>4 DEF Send, Sending, Goto
  <2>5. CASE SendUnseen(k) BY <2>5 DEF SendUnseen, Sending, Goto
  <2>6. ASSUME NEW p \in Pairs, Deliver(k, p) PROVE TypeOK'
    <3>1. sent' \in [Pairs -> 0 .. 2] BY <2>6, CountType DEF Deliver
    <3> QED BY <2>6, <3>1 DEF Deliver, Goto
  <2>7. CASE SendFails(k) BY <2>7 DEF SendFails, Goto
  <2>8. CASE AnswerLost(k)
    <3>1. item[k] \in Pairs BY <2>8 DEF AnswerLost
    <3>2. sent' \in [Pairs -> 0 .. 2] BY <2>8, <3>1, CountType DEF AnswerLost
    <3> QED BY <2>8, <3>1, <3>2 DEF AnswerLost, Goto
  <2>9. CASE Record(k) BY <2>9 DEF Record, Goto
  <2>10. CASE RecordFails(k) BY <2>10 DEF RecordFails, Goto
  <2>11. CASE NextVisit(k) BY <2>11 DEF NextVisit, Goto
  <2>12. CASE Finish(k)
    <3>1. batch[k] = {} BY <2>12 DEF Finish
    <3> QED BY <2>12, <3>1 DEF Finish, Goto
  <2> QED BY <1>7, <2>1, <2>2, <2>3, <2>4, <2>5, <2>6, <2>7, <2>8, <2>9, <2>10, <2>11, <2>12 DEF Step
<1> QED BY <1>1, <1>2, <1>3, <1>4, <1>5, <1>6, <1>7 DEF Next

\* Type correctness: whatever the sets of subscribers, articles and runs and
\* the delays, every variable keeps its type, and a check that is over has
\* nothing left to visit or to look at (checkAndDeliver visits everyone).
THEOREM TypeCorrect == Spec => []TypeOK
BY InitType, StepType, PTL DEF Spec

-----------------------------------------------------------------------------
(* One check at a time *)

\* While no lock has expired, the lock is taken whenever a check runs.
Alone ==
  overdue = "no" =>
    /\ lock # Ttl
    /\ Running # {} => lock # Free
    /\ \A j, k \in Running : j = k

\* A step of a check that runs starts no other.
LEMMA RunningSteps ==
  ASSUME TypeOK, NEW k \in Runs, Step(k)
  PROVE  /\ Running' \subseteq Running /\ k \in Running
         /\ \/ UNCHANGED schedVars
            \/ ReleaseLock /\ Running' = Running \ {k}
<1> USE DEF TypeOK, Running, Goto
<1>1. CASE List(k) \/ ListFails(k) BY <1>1 DEF List, ListFails, Listed
<1>2. CASE \E s \in Subscribers : Fetch(k, s) \/ FetchFails(k, s)
  BY <1>2 DEF Fetch, FetchFails, Fetched
<1>3. CASE PassOver(k) BY <1>3 DEF PassOver
<1>4. CASE Send(k) \/ SendUnseen(k) BY <1>4 DEF Send, SendUnseen, Sending
<1>5. CASE \E p \in Pairs : Deliver(k, p) BY <1>5 DEF Deliver
<1>6. CASE SendFails(k) \/ AnswerLost(k) BY <1>6 DEF SendFails, AnswerLost
<1>7. CASE Record(k) \/ RecordFails(k) BY <1>7 DEF Record, RecordFails
<1>8. CASE NextVisit(k) BY <1>8 DEF NextVisit
<1>9. CASE Finish(k) BY <1>9 DEF Finish
<1> QED BY <1>1, <1>2, <1>3, <1>4, <1>5, <1>6, <1>7, <1>8, <1>9 DEF Step

LEMMA AloneStep ==
  ASSUME TypeOK, Alone, [Next]_vars PROVE Alone'
<1> USE SchedulerAssumption DEF Alone, TypeOK, SchedTypeOK, Free
<1>0. Running' = {x \in Runs : pc'[x] # "idle"} BY DEF Running
<1>1. CASE UNCHANGED vars BY <1>1 DEF vars, schedVars, runVars, Running
<1>2. CASE Crash BY <1>0, <1>2 DEF Crash, Reset
<1>3. CASE Pass
  <2>1. Running' = Running BY <1>3 DEF Pass, runVars, Running
  <2>2. CASE Skip BY <2>1, <2>2 DEF Skip
  <2>3. CASE Tick BY <2>1, <2>3 DEF Tick
  <2> QED BY <1>3, <2>2, <2>3 DEF Pass
<1>4. CASE \E s \in Subscribers : Subscribe(s)
  BY <1>4 DEF Subscribe, schedVars, runVars, Running
<1>5. CASE \E i \in Items : Publish(i)
  BY <1>5 DEF Publish, schedVars, runVars, Running
<1>6. ASSUME NEW k \in Runs, Start(k) PROVE Alone'
  <2>1. overdue = "no" => Running = {} BY <1>6 DEF Start, Acquire, Acquirable
  <2>2. Running' = Running \union {k} BY <1>6 DEF Start, Goto, Running
  <2> QED BY <1>6, <2>1, <2>2 DEF Start, Acquire
<1>7. ASSUME NEW k \in Runs, Step(k) PROVE Alone'
  <2>1. CASE UNCHANGED schedVars BY <1>7, <2>1, RunningSteps DEF schedVars
  <2>2. CASE ReleaseLock /\ Running' = Running \ {k}
    BY <1>7, <2>2, RunningSteps DEF ReleaseLock
  <2> QED BY <1>7, <2>1, <2>2, RunningSteps
<1> QED BY <1>1, <1>2, <1>3, <1>4, <1>5, <1>6, <1>7 DEF Next

LEMMA AloneInit == Init => Alone
BY SchedulerAssumption DEF Init, SchedInit, Alone, Running, Free

\* acquireLock and releaseLock of worker.js keep checks apart for any interval
\* and any Ttl, as long as no check outlives its lock.
THEOREM ChecksAreAlone == Spec => []OneCheckAtATime
<1>1. Alone => OneCheckAtATime BY DEF Alone, OneCheckAtATime
<1> QED BY <1>1, TypeCorrect, AloneInit, AloneStep, PTL DEF Spec

-----------------------------------------------------------------------------
(* Steps by what they do to the articles in hand *)

Recording(p) == \E k \in Runs : pc[k] = "recording" /\ item[k] = p
InFlight(p) == \E k \in Runs : pc[k] = "sending" /\ item[k] = p

\* Nothing is sent or recorded, and no run takes or leaves an article.
Quiet ==
  /\ UNCHANGED <<recorded, sent, excused>>
  /\ \A k \in Runs, step \in {"sending", "recording"} :
       pc'[k] = step <=> pc[k] = step
  /\ \A k \in Runs : pc[k] \in {"sending", "recording"} => item'[k] = item[k]

\* Run k takes article p, which the store does not know or could not look up.
Takes(k, p) ==
  /\ pc[k] = "looking" /\ UNCHANGED <<recorded, sent>>
  /\ pc' = [pc EXCEPT ![k] = "sending"] /\ item' = [item EXCEPT ![k] = p]
  /\ \/ p \notin recorded /\ UNCHANGED excused
     \/ excused' = excused \union {p}

\* Run k gives back its article, which was not sent, or is recorded or excused.
GivesBack(k) ==
  /\ pc' = [pc EXCEPT ![k] = "looking"] /\ item' = [item EXCEPT ![k] = NoPair]
  /\ \/ pc[k] = "sending" /\ UNCHANGED <<recorded, sent, excused>>
     \/ /\ pc[k] = "sending" /\ Count(item[k]) /\ UNCHANGED recorded
        /\ excused' = excused \union {item[k]}
     \/ /\ pc[k] = "recording" /\ UNCHANGED <<sent, excused>>
        /\ recorded' = recorded \union {item[k]}
     \/ /\ pc[k] = "recording" /\ UNCHANGED <<recorded, sent>>
        /\ excused' = excused \union {item[k]}

LEMMA StepsOfArticles ==
  ASSUME TypeOK, [Next]_vars
  PROVE  \/ Quiet
         \/ \E k \in Runs, p \in Pairs : Takes(k, p) \/ Deliver(k, p)
         \/ \E k \in Runs : GivesBack(k)
         \/ Crash
<1> USE DEF TypeOK, Goto
<1>1. CASE UNCHANGED vars BY <1>1 DEF vars, runVars, Quiet
<1>2. CASE Pass BY <1>2 DEF Pass, runVars, Quiet
<1>3. CASE \E s \in Subscribers : Subscribe(s) BY <1>3 DEF Subscribe, runVars, Quiet
<1>4. CASE \E i \in Items : Publish(i) BY <1>4 DEF Publish, runVars, Quiet
<1>5. ASSUME NEW k \in Runs, Start(k) PROVE Quiet BY <1>5 DEF Start, Quiet
<1>6. ASSUME NEW k \in Runs, Step(k)
      PROVE  Quiet \/ (\E p \in Pairs : Takes(k, p) \/ Deliver(k, p)) \/ GivesBack(k)
  <2>1. CASE List(k) \/ ListFails(k) BY <2>1 DEF List, ListFails, Listed, Quiet
  <2>2. CASE \E s \in Subscribers : Fetch(k, s) \/ FetchFails(k, s)
    BY <2>2 DEF Fetch, FetchFails, Fetched, Quiet
  <2>3. CASE PassOver(k) BY <2>3 DEF PassOver, Quiet
  <2>4. CASE Send(k) BY <2>4 DEF Send, Sending, Takes
  <2>5. CASE SendUnseen(k) BY <2>5 DEF SendUnseen, Sending, Takes
  <2>6. CASE SendFails(k) BY <2>6 DEF SendFails, GivesBack
  <2>7. CASE AnswerLost(k) BY <2>7 DEF AnswerLost, GivesBack
  <2>8. CASE Record(k) BY <2>8 DEF Record, GivesBack
  <2>9. CASE RecordFails(k) BY <2>9 DEF RecordFails, GivesBack
  <2>10. CASE NextVisit(k) BY <2>10 DEF NextVisit, Quiet
  <2>11. CASE Finish(k) BY <2>11 DEF Finish, Quiet
  <2> QED
    BY <1>6, <2>1, <2>2, <2>3, <2>4, <2>5, <2>6, <2>7, <2>8, <2>9, <2>10, <2>11 DEF Step
<1> QED BY <1>1, <1>2, <1>3, <1>4, <1>5, <1>6 DEF Next

-----------------------------------------------------------------------------
(* What is recorded was sent *)

SentBefore == RecordedWasSent /\ \A k \in Runs : pc[k] = "recording" => sent[item[k]] > 0

LEMMA SentBeforeStep ==
  ASSUME TypeOK, SentBefore, [Next]_vars PROVE SentBefore'
<1> USE DEF SentBefore, RecordedWasSent, TypeOK
<1>1. CASE Quiet BY <1>1 DEF Quiet
<1>2. ASSUME NEW k \in Runs, NEW p \in Pairs, Takes(k, p) PROVE SentBefore'
  BY <1>2 DEF Takes
<1>3. ASSUME NEW k \in Runs, NEW p \in Pairs, Deliver(k, p) PROVE SentBefore'
  <2>1. sent'[p] > 0 /\ \A q \in Pairs : sent[q] > 0 => sent'[q] > 0
    BY <1>3, CountType DEF Deliver
  <2> QED BY <1>3, <2>1 DEF Deliver, Goto
<1>4. ASSUME NEW k \in Runs, GivesBack(k) PROVE SentBefore'
  <2>1. CASE UNCHANGED sent BY <1>4, <2>1 DEF GivesBack
  <2>2. CASE Count(item[k]) /\ pc[k] = "sending"
    <3>1. \A q \in Pairs : sent[q] > 0 => sent'[q] > 0 BY <2>2, CountType
    <3> QED BY <1>4, <2>2, <3>1 DEF GivesBack
  <2> QED BY <1>4, <2>1, <2>2 DEF GivesBack
<1>5. CASE Crash BY <1>5 DEF Crash
<1> QED BY <1>1, <1>2, <1>3, <1>4, <1>5, StepsOfArticles

\* Whatever fails, crashes or overlaps, no article is given up unsent: only what
\* was delivered is recorded (checkAndDeliver records after a send that resolved).
THEOREM NothingIsSkipped == Spec => []RecordedWasSent
<1>1. Init => SentBefore BY DEF Init, SentBefore, RecordedWasSent
<1>2. SentBefore => RecordedWasSent BY DEF SentBefore
<1> QED BY <1>1, <1>2, TypeCorrect, SentBeforeStep, PTL DEF Spec

-----------------------------------------------------------------------------
(* Nothing is sent twice *)

\* An article without an excuse is sent at most once; once it is sent it is
\* recorded or about to be, and while it is being sent it was not sent before.
KeptFor(p) ==
  /\ sent[p] <= 1
  /\ sent[p] > 0 => p \in recorded \/ Recording(p)
  /\ InFlight(p) => sent[p] = 0

Kept == overdue = "no" => \A p \in Pairs \ excused : KeptFor(p)

LEMMA KeptStep ==
  ASSUME TypeOK, Alone, Kept, [Next]_vars PROVE Kept'
<1> SUFFICES ASSUME overdue' = "no", NEW q \in Pairs, q \notin excused' PROVE KeptFor(q)'
  BY DEF Kept
<1>0. overdue = "no" BY SchedSteps, SchedType DEF TypeOK
<1>a. excused \subseteq excused' \/ Quiet
  <2>1. CASE Crash BY <2>1 DEF Crash
  <2>2. CASE \E k \in Runs, p \in Pairs : Takes(k, p) \/ Deliver(k, p)
    BY <2>2 DEF Takes, Deliver
  <2>3. CASE \E k \in Runs : GivesBack(k) BY <2>3 DEF GivesBack
  <2> QED BY <2>1, <2>2, <2>3, StepsOfArticles
<1>b. KeptFor(q)
  <2>1. q \notin excused BY <1>a DEF Quiet
  <2> QED BY <1>0, <2>1 DEF Kept
<1>c. \A j, k \in Runs : pc[j] # "idle" /\ pc[k] # "idle" => j = k
  BY <1>0 DEF Alone, Running
<1>d. sent[q] \in Nat BY DEF TypeOK
<1> USE DEF KeptFor, Recording, InFlight
<1>1. CASE Quiet BY <1>1, <1>b DEF Quiet
<1>2. ASSUME NEW k \in Runs, NEW p \in Pairs, Takes(k, p) PROVE KeptFor(q)'
  <2>1. sent[q] > 0 => q \in recorded BY <1>2, <1>b, <1>c DEF Takes
  <2>2. ~InFlight(q) BY <1>2, <1>c DEF Takes
  <2>3. CASE q = p
    <3>1. sent[q] = 0 BY <1>2, <2>1, <2>3, <1>d DEF Takes
    <3> QED BY <1>2, <3>1 DEF Takes, TypeOK
  <2>4. CASE q # p
    <3>1. ~InFlight(q)' BY <1>2, <2>2, <2>4 DEF Takes, TypeOK
    <3> QED BY <1>2, <1>b, <2>1, <3>1 DEF Takes
  <2> QED BY <2>3, <2>4
<1>3. ASSUME NEW k \in Runs, NEW p \in Pairs, Deliver(k, p) PROVE KeptFor(q)'
  <2>1. /\ pc[k] = "sending" /\ item[k] = p /\ UNCHANGED <<item, recorded>>
        /\ pc' = [pc EXCEPT ![k] = "recording"] /\ Count(p)
    BY <1>3 DEF Deliver, Goto
  <2>2. ~InFlight(q)' BY <2>1, <1>c DEF TypeOK
  <2>3. CASE q = p
    <3>1. sent[q] = 0 BY <2>1, <2>3, <1>b
    <3>2. sent'[q] = 1 BY <2>1, <2>3, <3>1, CountType DEF TypeOK
    <3>3. Recording(q)' BY <2>1, <2>3 DEF TypeOK
    <3> QED BY <2>2, <3>2, <3>3
  <2>4. CASE q # p
    <3>1. sent'[q] = sent[q] BY <2>1, <2>4, CountType DEF TypeOK
    <3>2. ~Recording(q) BY <2>1, <1>c
    <3> QED BY <2>1, <2>2, <3>1, <3>2, <1>b
  <2> QED BY <2>3, <2>4
<1>4. ASSUME NEW k \in Runs, GivesBack(k) PROVE KeptFor(q)'
  <2>1. /\ pc' = [pc EXCEPT ![k] = "looking"] /\ item' = [item EXCEPT ![k] = NoPair]
        /\ pc[k] \in {"sending", "recording"} /\ item[k] \in Pairs
    BY <1>4 DEF GivesBack, TypeOK
  <2>2. ~InFlight(q)' BY <2>1, <1>c DEF TypeOK
  <2>3. sent'[q] = sent[q]
    <3>1. CASE UNCHANGED sent BY <3>1
    <3>2. CASE Count(item[k]) /\ excused' = excused \union {item[k]}
      BY <3>2, <2>1, CountType DEF TypeOK
    <3> QED BY <1>4, <3>1, <3>2 DEF GivesBack
  <2>4. Recording(q) => q \in recorded'
    BY <1>4, <1>c DEF GivesBack
  <2>5. recorded \subseteq recorded' BY <1>4 DEF GivesBack
  <2> QED BY <1>b, <2>2, <2>3, <2>4, <2>5
<1>5. CASE Crash
  <2>1. ~Recording(q) BY <1>5 DEF Crash
  <2>2. ~InFlight(q)' BY <1>5 DEF Crash
  <2> QED BY <1>5, <1>b, <2>1, <2>2 DEF Crash
<1> QED BY <1>1, <1>2, <1>3, <1>4, <1>5, StepsOfArticles

\* An article is sent twice to a subscriber only after a crash, a failure of the
\* store or a lost answer, or when a check outlived its lock: the look-up, the
\* send and the record of checkAndDeliver need no transaction between them.
THEOREM ArticlesSentOnce == Spec => []SentOnce
<1>1. Init => Kept BY DEF Init, Kept, KeptFor, Recording, InFlight
<1>2. TypeOK /\ Kept => SentOnce BY DEF TypeOK, Kept, KeptFor, SentOnce
<1> QED BY <1>1, <1>2, TypeCorrect, AloneInit, AloneStep, KeptStep, PTL DEF Spec

\* The three together are what the run of the small instance checks: delivery by
\* checkAndDeliver under the lock of worker.js.
THEOREM DeliveryIsSafe == Spec => []DeliveryInv
<1>1. OneCheckAtATime /\ SentOnce /\ RecordedWasSent => DeliveryInv BY DEF DeliveryInv
<1> QED BY <1>1, ChecksAreAlone, ArticlesSentOnce, NothingIsSkipped, PTL


-----------------------------------------------------------------------------
(* Event rows: what is told of the rows while handlers are under way. *)

RowOps ==
  {"read", "replace", "wipe", "fill", "block", "unblock", "upsertLabel", "deleteLabel", "associate",
   "disassociate", "setLid", "presence", "updateChat", "upsertChat", "markDeleted"}
LogOps == {"log", "transition"}
SideOps == {"list", "index", "insertChat"}
ChannelOps == {"readViews", "setViews", "putViews", "addView", "react"}

Nothing == [op : {"wipe", "addView"}, id : {None}, to : {None}]
CallsOfLists ==
  [op : {"read", "replace", "fill"}, id : {None}, to : SUBSET Contacts] \union
  [op : {"block", "unblock"}, id : Contacts, to : {None}]
CallsOfLabels ==
  [op : {"upsertLabel", "deleteLabel", "list"}, id : LabelIds, to : {None}] \union
  [op : {"associate", "disassociate", "index"}, id : Tags, to : {None}]
CallsOfChats ==
  [op : {"insertChat", "markDeleted"}, id : Chats, to : {None}] \union
  [op : {"updateChat", "upsertChat"}, id : Chats, to : Fields \union {None}]
CallsOfNumbers ==
  [op : {"readViews", "setViews", "putViews"}, id : {None}, to : Nat] \union
  [op : {"react"}, id : {None}, to : {1, -1}]
LoggedIds == Contacts \union LabelIds \union Tags \union (Chats \X {"pinned", "mute", "deleted"})
OtherCalls ==
  [op : {"setLid"}, id : Lids, to : Contacts] \union
  [op : {"presence", "transition"}, id : Contacts, to : Presences] \union
  [op : {"log"}, id : LoggedIds, to : BOOLEAN]
Calls == Nothing \union CallsOfLists \union CallsOfLabels \union CallsOfChats \union CallsOfNumbers \union OtherCalls

ChatRows == [there : BOOLEAN, pinned : BOOLEAN \union {None}, mute : BOOLEAN \union {None}, deleted : BOOLEAN]
ChannelRows == [views : Nat, guesses : Nat, sum : Int]

OpsOf(m) ==
  CASE m = "blocked" -> {"read", "replace", "wipe", "fill", "block", "unblock", "log"}
    [] m = "labels" -> {"upsertLabel", "deleteLabel", "associate", "disassociate", "list", "index", "log"}
    [] m = "lids" -> {"setLid"}
    [] m = "presence" -> {"presence", "transition"}
    [] m = "chats" -> {"insertChat", "updateChat", "upsertChat", "markDeleted", "log"}
    [] OTHER -> ChannelOps

\* A handler: a call of the store, at most one more that belongs to it, and what is
\* to be logged of different things; a handler that starts on SQLITE or redis has
\* made its first call.
Proper(h) ==
  /\ h # <<>>
  /\ \A j \in 2 .. Len(h) : h[j].op \in LogOps \/ (j = 2 /\ h[j].op \in {"fill", "list", "index"})
  /\ \A j, k \in 1 .. Len(h) : j # k /\ h[j].op \in LogOps /\ h[k].op \in LogOps => h[j].id # h[k].id
  /\ \A j \in 1 .. Len(h) : h[j].op \in OpsOf(mirror)
  /\ h[1].op \in {"read", "insertChat", "setLid"} \union ChannelOps => Len(h) = 1
  /\ h[1].op = "wipe" => Len(h) > 1 /\ h[2].op = "fill"
  /\ h[1].op \in {"list", "index"} => Len(h) > 1
  /\ eventStore \in InOrder => h[1].op # "wipe"
  /\ Len(h) > 1 /\ h[2].op = "fill" => h[1].op = "wipe"
  /\ Len(h) > 1 /\ h[2].op = "list" => h[1].op = "upsertLabel" /\ Len(h) > 2
  /\ Len(h) > 1 /\ h[2].op = "index" => h[1].op = "associate" /\ Len(h) > 2
  /\ eventStore \in Pools => \A j \in 1 .. Len(h) : h[j].op \notin {"list", "index", "putViews", "readViews"}
Begun(h) == eventStore \in InOrder => h[1].op \in LogOps \union {"replace", "list", "index", "putViews"}

RowsType ==
  [blocked : SUBSET Contacts, labels : SUBSET LabelIds, tags : [Tags -> Nat], index : SUBSET Tags,
   listed : SUBSET LabelIds, pn : [Lids -> Contacts \union {None}],
   reverse : [Contacts -> Lids \union {None}], state : [Contacts -> Presences \union {None}],
   chat : [Chats -> ChatRows], channel : ChannelRows]
ToldType ==
  [blocked : SUBSET Contacts, labels : SUBSET LabelIds, tags : SUBSET Tags,
   pn : [Lids -> Contacts \union {None}], state : [Contacts -> Presences \union {None}],
   chat : [Chats -> ChatRows], channel : ChannelRows]
EventsShape ==
  /\ eventStore \in EventStores /\ mirror \in {"blocked", "labels", "lids", "presence", "chats", "channel"}
  /\ rows \in RowsType /\ told \in ToldType
  /\ timeline \in Seq(LoggedIds \X (BOOLEAN \union Presences))
  /\ lastLogged \in [Contacts -> Presences \union {None}]
  /\ handlers \in Seq(Seq(Calls)) /\ \A i \in 1 .. Len(handlers) : Proper(handlers[i]) /\ Begun(handlers[i])
  /\ sure \in [rows : BOOLEAN, timeline : BOOLEAN, steady : BOOLEAN]

-----------------------------------------------------------------------------
(* The rows *)

\* r says what WhatsApp told; of a mute that was lifted it says nothing.
SameChat(r, t) == r.pinned = t.pinned /\ r.deleted = t.deleted /\ (t.mute # FALSE => r.mute = t.mute)
Agrees(r, now) ==
  /\ r.blocked = now.blocked /\ r.labels = now.labels
  /\ {t \in Tags : r.tags[t] > 0} = now.tags
  /\ r.pn = now.pn /\ r.state = now.state
  /\ \A k \in Chats : SameChat(r.chat[k], now.chat[k])

\* The rows that the handler h will leave.
Outcome(h) ==
  CASE h[1].op = "read" -> [rows EXCEPT !.blocked = h[1].to]
    [] h[1].op = "wipe" -> [rows EXCEPT !.blocked = h[2].to]
    [] h[1].op = "updateChat" -> SqliteUpsertChat(h[1].id, h[1].to)
    [] OTHER -> Written(h[1])

Writing(i) == handlers[i][1].op \in RowOps
RowsKnown ==
  sure.rows =>
    /\ \A i, j \in 1 .. Len(handlers) : Writing(i) /\ Writing(j) => i = j
    /\ \A i \in 1 .. Len(handlers) : Writing(i) => Agrees(Outcome(handlers[i]), told)
    /\ (\A i \in 1 .. Len(handlers) : ~Writing(i)) => Agrees(rows, told)
    /\ \A i \in 1 .. Len(handlers) : handlers[i][1].op = "fill" => rows.blocked = {}
    /\ eventStore = "redis" =>
         /\ \A l \in told.labels : l \in rows.listed \/ \E i \in 1 .. Len(handlers) : handlers[i][1] = Call("list", l, None)
         /\ \A t \in told.tags : t \in rows.index \/ \E i \in 1 .. Len(handlers) : handlers[i][1] = Call("index", t, None)

Reversed == eventStore = "redis" => \A l \in Lids : rows.pn[l] # None => rows.reverse[rows.pn[l]] # None

Untouched ==
  /\ mirror = "blocked" => Agrees([rows EXCEPT !.blocked = told.blocked], told) /\ told.labels = {} /\ told.tags = {}
  /\ mirror # "channel" => rows.channel = NoViews /\ told.channel = NoViews

\* The views and reactions of a newsletter, whose calls may come in any order: what
\* the rows ch and the running handlers hs make of what was told, t.
Waits(hs, op, to) == {i \in 1 .. Len(hs) : hs[i][1] = Call(op, None, to)}
Counted(ch, t, hs) ==
  /\ Cardinality(Waits(hs, "addView", None)) <= t.guesses
  /\ ch.views + Cardinality(Waits(hs, "addView", None)) <= t.views + t.guesses
  /\ \A i \in 1 .. Len(hs) : hs[i][1].op \in {"setViews", "putViews"} => hs[i][1].to <= t.views
  /\ \/ ch.views >= t.views
     \/ \E i \in 1 .. Len(hs) : hs[i][1].op \in {"setViews", "putViews"} /\ hs[i][1].to = t.views
  /\ ch.sum + Cardinality(Waits(hs, "react", 1)) = t.sum + Cardinality(Waits(hs, "react", -1))
  /\ \A i, j \in 1 .. Len(hs) : hs[i][1].op = "putViews" => i = j
  /\ \A i \in 1 .. Len(hs) : hs[i][1].op = "putViews" => ch.views <= hs[i][1].to
ChannelKnown == mirror = "channel" /\ sure.rows => Counted(rows.channel, told.channel, handlers)

-----------------------------------------------------------------------------
(* The timeline *)

\* In a pool the handlers of one event only.
OneEvent ==
  eventStore \in Pools /\ mirror # "channel" /\ (sure.rows \/ sure.timeline) =>
    /\ Len(handlers) <= 2
    /\ Len(handlers) = 2 => handlers[1][1].op = "insertChat" /\ handlers[2][1].op # "insertChat"

\* On SQLITE and redis handlers that have one row left, and then any.
LogsInOrder ==
  eventStore \in InOrder /\ mirror # "channel" /\ sure.timeline =>
    \A i, j \in 1 .. Len(handlers) : i < j => Len(handlers[i]) = 1 /\ handlers[i][1].op \in LogOps

\* What the timeline says last of x, with what is still to be logged, is v.
LogsOf(h, x) == {j \in 1 .. Len(h) : h[j].op \in LogOps /\ h[j].id = x}
EndsWith(x, v) ==
  /\ \A i \in 1 .. Len(handlers) :
       (\A k \in i + 1 .. Len(handlers) : LogsOf(handlers[k], x) = {}) =>
         \A j \in LogsOf(handlers[i], x) : handlers[i][j].to = v
  /\ (\A i \in 1 .. Len(handlers) : LogsOf(handlers[i], x) = {}) =>
       \A i \in 1 .. Len(timeline) : timeline[i][1] = x /\ IsLast(i) => timeline[i][2] = v

Reading == \E i \in 1 .. Len(handlers) : handlers[i][1].op = "read"
TimelineKnown ==
  sure.timeline =>
    /\ mirror = "blocked" => sure.rows
    /\ Reading => \A x \in Mirrored : EndsWith(x, x \in rows.blocked)
    /\ ~Reading => \A x \in Mirrored : EndsWith(x, Now(x))

LastKnown ==
  mirror = "presence" =>
    /\ sure.timeline \/ sure.steady =>
         \A c \in Contacts : lastLogged[c] # None =>
           \E i \in 1 .. Len(timeline) : timeline[i] = <<c, lastLogged[c]>> /\ IsLast(i)
    /\ sure.steady => \A c \in Contacts : lastLogged[c] = None => \A i \in 1 .. Len(timeline) : timeline[i][1] # c
    /\ sure.steady => LogSteady

EventRowsIInv ==
  /\ RowsKnown /\ Reversed /\ Untouched /\ ChannelKnown
  /\ OneEvent /\ LogsInOrder /\ TimelineKnown /\ LastKnown

-----------------------------------------------------------------------------
(* Calls and what they leave *)

LEMMA CallTypes ==
  ASSUME NEW c \in Calls
  PROVE  /\ c.op \in {"read", "replace", "fill"} => c.to \in SUBSET Contacts
         /\ c.op \in {"block", "unblock"} => c.id \in Contacts
         /\ c.op \in {"upsertLabel", "deleteLabel", "list"} => c.id \in LabelIds
         /\ c.op \in {"associate", "disassociate", "index"} => c.id \in Tags
         /\ c.op = "setLid" => c.id \in Lids /\ c.to \in Contacts
         /\ c.op \in {"presence", "transition"} => c.id \in Contacts /\ c.to \in Presences
         /\ c.op \in {"updateChat", "upsertChat"} => c.id \in Chats /\ c.to \in Fields \union {None}
         /\ c.op \in {"insertChat", "markDeleted"} => c.id \in Chats
         /\ c.op \in {"readViews", "setViews", "putViews"} => c.to \in Nat
         /\ c.op = "react" => c.to \in {1, -1}
         /\ c.op = "log" => c.id \in LoggedIds /\ c.to \in BOOLEAN
         /\ c.op \in RowOps \union LogOps \union SideOps \union ChannelOps
         /\ c.op \in LogOps => c.id \in LoggedIds /\ c.to \in BOOLEAN \union Presences
<1>1. CASE c \in Nothing
  BY <1>1 DEF Nothing, RowOps, LogOps, SideOps, ChannelOps
<1>2. CASE c \in CallsOfLists
  BY <1>2 DEF CallsOfLists, RowOps, LogOps, SideOps, ChannelOps
<1>3. CASE c \in CallsOfLabels
  BY <1>3 DEF CallsOfLabels, RowOps, LogOps, SideOps, ChannelOps
<1>4. CASE c \in CallsOfChats
  BY <1>4 DEF CallsOfChats, RowOps, LogOps, SideOps, ChannelOps
<1>5. CASE c \in CallsOfNumbers
  BY <1>5 DEF CallsOfNumbers, RowOps, LogOps, SideOps, ChannelOps
<1>6. CASE c \in OtherCalls
  BY <1>6 DEF OtherCalls, LoggedIds, RowOps, LogOps, SideOps, ChannelOps
<1> QED
  BY <1>1, <1>2, <1>3, <1>4, <1>5, <1>6 DEF Calls

LEMMA FieldSet ==
  ASSUME NEW chat \in ChatRows, NEW f \in Fields \union {None}
  PROVE  SetField(chat, f) \in ChatRows /\ Merged(chat, f) \in ChatRows
<1>1. CASE f = None
  BY <1>1 DEF SetField, Merged
<1>2. CASE f # None
  <2>1. f[1] \in {"pinned", "mute"} /\ f[2] \in BOOLEAN
    <3>1. f = <<"pinned", TRUE>> \/ f = <<"pinned", FALSE>> \/ f = <<"mute", TRUE>> \/ f = <<"mute", FALSE>>
      BY <1>2 DEF Fields
    <3>2. f = <<"pinned", TRUE>> => f[1] = "pinned" /\ f[2] = TRUE
      OBVIOUS
    <3>3. f = <<"pinned", FALSE>> => f[1] = "pinned" /\ f[2] = FALSE
      OBVIOUS
    <3>4. f = <<"mute", TRUE>> => f[1] = "mute" /\ f[2] = TRUE
      OBVIOUS
    <3>5. f = <<"mute", FALSE>> => f[1] = "mute" /\ f[2] = FALSE
      OBVIOUS
    <3> QED
      BY <3>1, <3>2, <3>3, <3>4, <3>5
  <2>2. [chat EXCEPT !.pinned = f[2]] \in ChatRows /\ [chat EXCEPT !.mute = f[2]] \in ChatRows
    BY <2>1 DEF ChatRows
  <2> QED
    BY <1>2, <2>1, <2>2 DEF SetField, Merged
<1> QED
  BY <1>1, <1>2

\* The rows after a call are rows again.
LEMMA WrittenType ==
  ASSUME EventsShape, NEW c \in Calls
  PROVE  Written(c) \in RowsType
<1>1. rows \in RowsType
  BY DEF EventsShape
<1> USE DEF Written
<1>2. CASE c.op \in {"replace", "wipe", "fill", "block", "unblock"}
  <2>1. \A b \in SUBSET Contacts : [rows EXCEPT !.blocked = b] \in RowsType
    BY <1>1 DEF RowsType
  <2>2. rows.blocked \in SUBSET Contacts
    BY <1>1 DEF RowsType
  <2>3. CASE c.op \in {"replace", "wipe", "fill"}
    <3>1. c.to \in SUBSET Contacts \/ c.op = "wipe"
      BY <2>3, CallTypes
    <3> QED
      BY <2>1, <2>2, <2>3, <3>1
  <2>4. CASE c.op \in {"block", "unblock"}
    <3>1. c.id \in Contacts
      BY <2>4, CallTypes
    <3> QED
      BY <2>1, <2>2, <2>4, <3>1 DEF AddToBlocklist, RemoveFromBlocklist
  <2> QED
    BY <1>2, <2>3, <2>4
<1>3. CASE c.op \in {"upsertLabel", "list", "deleteLabel"}
  <2>1. c.id \in LabelIds
    BY <1>3, CallTypes
  <2> QED
    BY <1>1, <1>3, <2>1 DEF RowsType, DeleteLabel
<1>4. CASE c.op \in {"associate", "index", "disassociate"}
  <2>1. c.id \in Tags
    BY <1>4, CallTypes
  <2>2. \A tags \in [Tags -> Nat] : [rows EXCEPT !.tags = tags] \in RowsType
    BY <1>1 DEF RowsType
  <2>3. rows.tags \in [Tags -> Nat] /\ rows.index \in SUBSET Tags
    BY <1>1 DEF RowsType
  <2>4. /\ [rows.tags EXCEPT ![c.id] = @ + 1] \in [Tags -> Nat] /\ [rows.tags EXCEPT ![c.id] = 1] \in [Tags -> Nat]
        /\ [rows.tags EXCEPT ![c.id] = 0] \in [Tags -> Nat]
    BY <2>1, <2>3
  <2>5. [rows EXCEPT !.index = @ \union {c.id}] \in RowsType
    BY <1>1, <2>1, <2>3 DEF RowsType
  <2>6. SqliteTagged(c.id) \in RowsType /\ Tagged(c.id) \in RowsType /\ Untagged(c.id) \in RowsType
    BY <2>2, <2>4 DEF SqliteTagged, Tagged, Untagged
  <2> QED
    BY <1>4, <2>5, <2>6
<1>5. CASE c.op = "setLid"
  <2>1. c.id \in Lids /\ c.to \in Contacts
    BY <1>5, CallTypes
  <2> QED
    BY <1>1, <1>5, <2>1 DEF RowsType, SetLid, RedisSetLid
<1>6. CASE c.op = "presence"
  <2>1. c.id \in Contacts /\ c.to \in Presences
    BY <1>6, CallTypes
  <2> QED
    BY <1>1, <1>6, <2>1 DEF RowsType, RecordPresence
<1>7. CASE c.op \in {"insertChat", "updateChat", "upsertChat", "markDeleted"}
  <2>1. c.id \in Chats /\ (c.op \in {"updateChat", "upsertChat"} => c.to \in Fields \union {None})
    BY <1>7, CallTypes
  <2>2. \A r \in ChatRows : [rows EXCEPT !.chat[c.id] = r] \in RowsType
    BY <1>1, <2>1 DEF RowsType
  <2> DEFINE chat == rows.chat[c.id]
  <2>3. chat \in ChatRows
    BY <1>1, <2>1 DEF RowsType
  <2>4. [chat EXCEPT !.there = TRUE] \in ChatRows /\ [chat EXCEPT !.deleted = TRUE] \in ChatRows
    BY <2>3 DEF ChatRows
  <2>5. CASE c.op = "insertChat"
    BY <2>2, <2>4, <2>5 DEF InsertChat
  <2>6. CASE c.op = "markDeleted"
    BY <2>2, <2>4, <2>6 DEF MarkChatDeleted
  <2>7. CASE c.op \in {"updateChat", "upsertChat"}
    <3>1. Merged(chat, c.to) \in ChatRows /\ Merged([chat EXCEPT !.there = TRUE], c.to) \in ChatRows
          /\ SetField([chat EXCEPT !.there = TRUE], c.to) \in ChatRows
      BY <2>1, <2>3, <2>4, <2>7, FieldSet
    <3> QED
      BY <1>1, <2>2, <2>7, <3>1 DEF UpdateChat, MongoUpdateChat, RedisUpdateChat, SqliteUpsertChat
  <2> QED
    BY <1>7, <2>5, <2>6, <2>7
<1>8. CASE c.op \in {"setViews", "putViews", "addView", "react"}
  <2>1. (c.op \in {"setViews", "putViews"} => c.to \in Nat) /\ (c.op = "react" => c.to \in Int)
    BY <1>8, CallTypes
  <2>2. \A h \in ChannelRows : [rows EXCEPT !.channel = h] \in RowsType
    BY <1>1 DEF RowsType
  <2>3. rows.channel \in ChannelRows
    BY <1>1 DEF RowsType
  <2>4. /\ \A n \in Nat : [rows.channel EXCEPT !.views = n] \in ChannelRows
        /\ \A n \in Int : [rows.channel EXCEPT !.sum = n] \in ChannelRows
        /\ rows.channel.views \in Nat /\ rows.channel.sum \in Int
    BY <2>3 DEF ChannelRows
  <2>5. CASE c.op \in {"setViews", "putViews"}
    <3>1. c.to \in Nat /\ (IF c.to > rows.channel.views THEN c.to ELSE rows.channel.views) \in Nat
      BY <2>1, <2>4, <2>5
    <3> QED
      BY <2>2, <2>4, <2>5, <3>1 DEF SetViewCount
  <2>6. CASE c.op \in {"addView", "react"}
    <3>1. rows.channel.views + 1 \in Nat /\ (c.op = "react" => rows.channel.sum + c.to \in Int)
      BY <2>1, <2>4
    <3> QED
      BY <2>2, <2>4, <2>6, <3>1 DEF IncrementView, RecordReaction
  <2> QED
    BY <1>8, <2>5, <2>6
<1> QED
  BY <1>1, <1>2, <1>3, <1>4, <1>5, <1>6, <1>7, <1>8

-----------------------------------------------------------------------------
(* What a handler still does *)

LEMMA SetSequence ==
  ASSUME NEW S, IsFiniteSet(S)
  PROVE  /\ SetToSeq(S) \in [1 .. Cardinality(S) -> S] /\ Cardinality(S) \in Nat
         /\ \A i, j \in 1 .. Cardinality(S) : SetToSeq(S)[i] = SetToSeq(S)[j] => i = j
         /\ \A x \in S : \E i \in 1 .. Cardinality(S) : SetToSeq(S)[i] = x
<1> DEFINE n == Cardinality(S)
           f == SetToSeq(S)
<1>1. n \in Nat /\ ExistsBijection(1 .. n, S)
  BY FS_CardinalityType
<1>2. \E g \in [1 .. n -> S] : IsInjective(g)
  BY <1>1 DEF ExistsBijection, Bijection, Injection
<1>3. f \in [1 .. n -> S] /\ IsInjective(f)
  BY <1>2 DEF SetToSeq
<1>4. f \in Injection(1 .. n, S)
  BY <1>3 DEF Injection
<1>5. IsFiniteSet(1 .. n) /\ Cardinality(1 .. n) = n
  <2>1. Cardinality(1 .. n) = IF 1 > n THEN 0 ELSE n - 1 + 1
    BY <1>1, FS_Interval
  <2> QED
    BY <1>1, <2>1, FS_Interval
<1>6. f \in Surjection(1 .. n, S)
  BY <1>4, <1>5, FS_Injection
<1> QED
  BY <1>1, <1>3, <1>6 DEF IsInjective, Surjection

LEMMA LogsAre ==
  ASSUME NEW ids \in SUBSET Contacts, IsFiniteSet(ids), NEW v \in BOOLEAN
  PROVE  /\ Logs(ids, v) \in Seq(Calls)
         /\ \A j \in 1 .. Len(Logs(ids, v)) :
              Logs(ids, v)[j].op = "log" /\ Logs(ids, v)[j].id \in ids /\ Logs(ids, v)[j].to = v
         /\ \A x \in ids : \E j \in 1 .. Len(Logs(ids, v)) : Logs(ids, v)[j].id = x
         /\ \A j, k \in 1 .. Len(Logs(ids, v)) : Logs(ids, v)[j].id = Logs(ids, v)[k].id => j = k
<1> DEFINE n == Cardinality(ids)
           f == SetToSeq(ids)
           s == [j \in 1 .. n |-> Call("log", f[j], v)]
<1>1. /\ f \in [1 .. n -> ids] /\ n \in Nat /\ \A i, j \in 1 .. n : f[i] = f[j] => i = j
      /\ \A x \in ids : \E i \in 1 .. n : f[i] = x
  BY SetSequence
<1>2. Logs(ids, v) = s
  BY DEF Logs
<1> HIDE DEF f, n
<1>3. \A x \in ids : Call("log", x, v) \in Calls /\ Call("log", x, v).id = x
                   /\ Call("log", x, v).op = "log" /\ Call("log", x, v).to = v
  BY DEF Calls, OtherCalls, Call, LoggedIds
<1>4. s \in [1 .. n -> Calls] /\ n \in Nat
  BY <1>1, <1>3
<1>5. s \in Seq(Calls) /\ Len(s) = n
  BY <1>4
<1>6. \A j \in 1 .. n : s[j] = Call("log", f[j], v) /\ f[j] \in ids
  BY <1>1
<1> HIDE DEF s
<1> QED
  BY <1>1, <1>2, <1>3, <1>5, <1>6

\* The replacement of the blocklist and its logs.
DiffFrom(d, list, prev) ==
  /\ d \in Seq(Calls) /\ Proper(d) /\ Begun(d)
  /\ d[1].op \in {"replace", "wipe"}
  /\ d[1].op = "replace" => d[1].to = list
  /\ d[1].op = "wipe" => d[2].to = list
  /\ \A j \in 1 .. Len(d) : d[j].op \in LogOps => d[j].id \in Contacts /\ d[j].to = (d[j].id \in list)
  /\ \A x \in Contacts : (x \in list <=> x \in prev) \/ \E j \in 1 .. Len(d) : d[j].op \in LogOps /\ d[j].id = x

LEMMA DiffIs ==
  ASSUME EventsShape, mirror = "blocked", NEW list \in SUBSET Contacts, NEW prev \in SUBSET Contacts
  PROVE  DiffFrom(Diff(list, prev), list, prev)
<1> DEFINE a == Replacement(list)
           b == Logs(list \ prev, TRUE)
           c == Logs(prev \ list, FALSE)
           d == a \o b \o c
<1>1. d = Diff(list, prev)
  BY DEF Diff
<1>2. IsFiniteSet(list \ prev) /\ IsFiniteSet(prev \ list)
  BY EventRowsAssumption, FS_Subset
<1>3. /\ eventStore \in {"sqlite", "redis", "postgres", "mongo"}
      /\ eventStore = "mongo" => a = <<Call("wipe", None, None), Call("fill", None, list)>>
      /\ eventStore # "mongo" => a = <<Call("replace", None, list)>>
  BY EventRowsAssumption DEF EventsShape, InOrder, Pools, Replacement, AtOnce, MongoReplace, PostgresReplace, RedisReplace
<1>4. Call("wipe", None, None) \in Calls /\ Call("fill", None, list) \in Calls /\ Call("replace", None, list) \in Calls
  BY DEF Calls, Nothing, CallsOfLists, Call
<1>5. a \in Seq(Calls) /\ Len(a) \in {1, 2} /\ (Len(a) = 2 <=> eventStore = "mongo")
      /\ (Len(a) = 1 => a[1] = Call("replace", None, list))
      /\ (Len(a) = 2 => a[1] = Call("wipe", None, None) /\ a[2] = Call("fill", None, list))
  <2>1. \A x \in Calls : <<x>> \in Seq(Calls) /\ Len(<<x>>) = 1 /\ <<x>>[1] = x
    OBVIOUS
  <2>2. \A x, y \in Calls : <<x, y>> \in Seq(Calls) /\ Len(<<x, y>>) = 2 /\ <<x, y>>[1] = x /\ <<x, y>>[2] = y
    OBVIOUS
  <2>3. CASE eventStore = "mongo"
    <3>1. a = <<Call("wipe", None, None), Call("fill", None, list)>>
      BY <1>3, <2>3
    <3>2. /\ a \in Seq(Calls) /\ Len(a) = 2
          /\ a[1] = Call("wipe", None, None) /\ a[2] = Call("fill", None, list)
      BY <1>4, <2>2, <3>1
    <3> QED
      BY <2>3, <3>2
  <2>4. CASE eventStore # "mongo"
    <3>1. a = <<Call("replace", None, list)>>
      BY <1>3, <2>4
    <3>2. /\ a \in Seq(Calls) /\ Len(a) = 1 /\ a[1] = Call("replace", None, list)
      BY <1>4, <2>1, <3>1
    <3> QED
      BY <2>4, <3>2
  <2> QED
    BY <2>3, <2>4
<1>6. /\ b \in Seq(Calls)
      /\ \A j \in 1 .. Len(b) : b[j].op = "log" /\ b[j].id \in list \ prev /\ b[j].to = TRUE
      /\ \A x \in list \ prev : \E j \in 1 .. Len(b) : b[j].id = x
      /\ \A j, k \in 1 .. Len(b) : b[j].id = b[k].id => j = k
  BY <1>2, LogsAre
<1>7. /\ c \in Seq(Calls)
      /\ \A j \in 1 .. Len(c) : c[j].op = "log" /\ c[j].id \in prev \ list /\ c[j].to = FALSE
      /\ \A x \in prev \ list : \E j \in 1 .. Len(c) : c[j].id = x
      /\ \A j, k \in 1 .. Len(c) : c[j].id = c[k].id => j = k
  BY <1>2, LogsAre
<1> HIDE DEF a, b, c
<1>8. /\ a \o b \in Seq(Calls) /\ Len(a \o b) = Len(a) + Len(b)
      /\ \A i \in 1 .. Len(a) + Len(b) : (a \o b)[i] = IF i <= Len(a) THEN a[i] ELSE b[i - Len(a)]
  BY <1>5, <1>6, ConcatProperties
<1>9. /\ d \in Seq(Calls) /\ Len(d) = Len(a \o b) + Len(c)
      /\ \A i \in 1 .. Len(a \o b) + Len(c) : d[i] = IF i <= Len(a \o b) THEN (a \o b)[i] ELSE c[i - Len(a \o b)]
  BY <1>7, <1>8, ConcatProperties
<1>10. Len(a) \in Nat /\ Len(b) \in Nat /\ Len(c) \in Nat
  BY <1>5, <1>6, <1>7, LenProperties
<1> HIDE DEF d
<1>11. /\ Len(d) = Len(a) + Len(b) + Len(c)
       /\ \A i \in 1 .. Len(a) : d[i] = a[i]
       /\ \A i \in 1 .. Len(b) : d[Len(a) + i] = b[i]
       /\ \A i \in 1 .. Len(c) : d[Len(a) + Len(b) + i] = c[i]
  <2> DEFINE ab == a \o b
  <2>1. Len(ab) = Len(a) + Len(b)
    BY <1>8
  <2>2. \A i \in 1 .. Len(a) + Len(b) : ab[i] = IF i <= Len(a) THEN a[i] ELSE b[i - Len(a)]
    BY <1>8
  <2>3. \A i \in 1 .. Len(ab) + Len(c) : d[i] = IF i <= Len(ab) THEN ab[i] ELSE c[i - Len(ab)]
    BY <1>9
  <2>4. Len(d) = Len(ab) + Len(c)
    BY <1>9
  <2> HIDE DEF ab
  <2>5. \A i \in 1 .. Len(a) : d[i] = a[i]
    BY <1>10, <2>1, <2>2, <2>3
  <2>6. ASSUME NEW i \in 1 .. Len(b) PROVE d[Len(a) + i] = b[i]
    <3>1. Len(a) + i \in 1 .. Len(ab) /\ Len(a) + i > Len(a) /\ Len(a) + i - Len(a) = i
      BY <1>10, <2>1
    <3> QED
      BY <1>10, <2>1, <2>2, <2>3, <3>1
  <2>7. ASSUME NEW i \in 1 .. Len(c) PROVE d[Len(a) + Len(b) + i] = c[i]
    <3>1. Len(ab) + i \in 1 .. Len(ab) + Len(c) /\ Len(ab) + i > Len(ab) /\ Len(ab) + i - Len(ab) = i
      BY <1>10, <2>1
    <3>2. d[Len(ab) + i] = c[i]
      BY <1>10, <2>1, <2>3, <3>1
    <3> QED
      BY <2>1, <3>2
  <2> QED
    BY <2>1, <2>4, <2>5, <2>6, <2>7
<1>12. \A i \in 1 .. Len(d) : i > Len(a) /\ i <= Len(a) + Len(b) => i - Len(a) \in 1 .. Len(b) /\ d[i] = b[i - Len(a)]
  <2> SUFFICES ASSUME NEW i \in 1 .. Len(d), i > Len(a), i <= Len(a) + Len(b)
               PROVE  i - Len(a) \in 1 .. Len(b) /\ d[i] = b[i - Len(a)]
    OBVIOUS
  <2>1. i - Len(a) \in 1 .. Len(b) /\ Len(a) + (i - Len(a)) = i
    BY <1>10
  <2> QED
    BY <1>11, <2>1
<1>23. \A i \in 1 .. Len(d) : i > Len(a) + Len(b) =>
         i - (Len(a) + Len(b)) \in 1 .. Len(c) /\ d[i] = c[i - (Len(a) + Len(b))]
  <2> SUFFICES ASSUME NEW i \in 1 .. Len(d), i > Len(a) + Len(b)
               PROVE  i - (Len(a) + Len(b)) \in 1 .. Len(c) /\ d[i] = c[i - (Len(a) + Len(b))]
    OBVIOUS
  <2>1. i - (Len(a) + Len(b)) \in 1 .. Len(c) /\ Len(a) + Len(b) + (i - (Len(a) + Len(b))) = i
    BY <1>10, <1>11
  <2> QED
    BY <1>11, <2>1
<1>13. \A op, id, to : Call(op, id, to).op = op /\ Call(op, id, to).id = id /\ Call(op, id, to).to = to
  BY DEF Call
\* Beyond the replacement there are logs.
<1>14. \A i \in 1 .. Len(d) : i > Len(a) =>
         /\ d[i].op = "log" /\ d[i].id \in Contacts
         /\ (d[i].to = TRUE /\ d[i].id \in list) \/ (d[i].to = FALSE /\ d[i].id \notin list)
  <2> SUFFICES ASSUME NEW i \in 1 .. Len(d), i > Len(a)
               PROVE  /\ d[i].op = "log" /\ d[i].id \in Contacts
                      /\ (d[i].to = TRUE /\ d[i].id \in list) \/ (d[i].to = FALSE /\ d[i].id \notin list)
    OBVIOUS
  <2>1. CASE i <= Len(a) + Len(b)
    BY <1>6, <1>12, <2>1
  <2>2. CASE i > Len(a) + Len(b)
    BY <1>7, <1>23, <2>2
  <2>3. i <= Len(a) + Len(b) \/ i > Len(a) + Len(b)
    BY <1>10
  <2> QED
    BY <2>1, <2>2, <2>3, Zenon
<1>15. \A i, j \in 1 .. Len(d) : i > Len(a) /\ j > Len(a) /\ d[i].id = d[j].id => i = j
  <2> SUFFICES ASSUME NEW i \in 1 .. Len(d), NEW j \in 1 .. Len(d), i > Len(a), j > Len(a), d[i].id = d[j].id
               PROVE  i = j
    OBVIOUS
  <2>1. CASE i <= Len(a) + Len(b) /\ j <= Len(a) + Len(b)
    <3>1. /\ i - Len(a) \in 1 .. Len(b) /\ d[i] = b[i - Len(a)]
          /\ j - Len(a) \in 1 .. Len(b) /\ d[j] = b[j - Len(a)]
      BY <1>12, <2>1
    <3>2. i - Len(a) = j - Len(a)
      BY <1>6, <3>1
    <3> QED
      BY <1>10, <3>2
  <2>2. CASE i > Len(a) + Len(b) /\ j > Len(a) + Len(b)
    <3>1. /\ i - (Len(a) + Len(b)) \in 1 .. Len(c) /\ d[i] = c[i - (Len(a) + Len(b))]
          /\ j - (Len(a) + Len(b)) \in 1 .. Len(c) /\ d[j] = c[j - (Len(a) + Len(b))]
      BY <1>23, <2>2
    <3>2. i - (Len(a) + Len(b)) = j - (Len(a) + Len(b))
      BY <1>7, <3>1
    <3> QED
      BY <1>10, <3>2
  <2>3. CASE i <= Len(a) + Len(b) /\ j > Len(a) + Len(b)
    <3>1. d[i].id \in list \ prev /\ d[j].id \in prev \ list
      <4>1. d[i] = b[i - Len(a)] /\ i - Len(a) \in 1 .. Len(b)
        BY <1>12, <2>3
      <4>2. d[j] = c[j - (Len(a) + Len(b))] /\ j - (Len(a) + Len(b)) \in 1 .. Len(c)
        BY <1>23, <2>3
      <4> QED
        BY <1>6, <1>7, <4>1, <4>2
    <3> QED
      BY <3>1
  <2>4. CASE j <= Len(a) + Len(b) /\ i > Len(a) + Len(b)
    <3>1. d[j].id \in list \ prev /\ d[i].id \in prev \ list
      <4>1. d[j] = b[j - Len(a)] /\ j - Len(a) \in 1 .. Len(b)
        BY <1>12, <2>4
      <4>2. d[i] = c[i - (Len(a) + Len(b))] /\ i - (Len(a) + Len(b)) \in 1 .. Len(c)
        BY <1>23, <2>4
      <4> QED
        BY <1>6, <1>7, <4>1, <4>2
    <3> QED
      BY <3>1
  <2> QED
    BY <1>10, <2>1, <2>2, <2>3, <2>4
<1>16. \A i \in 1 .. Len(a) : d[i].op \notin LogOps
  BY <1>5, <1>11, <1>13 DEF LogOps
<1>17. Len(d) \in Nat /\ Len(d) >= 1 /\ d # <<>>
  BY <1>5, <1>9, <1>10, <1>11
<1>18. Proper(d)
  <2>1. \A j \in 2 .. Len(d) : d[j].op \in LogOps \/ (j = 2 /\ d[j].op \in {"fill", "list", "index"})
    BY <1>5, <1>10, <1>11, <1>13, <1>14, <1>17 DEF LogOps
  <2>2. \A j, k \in 1 .. Len(d) : j # k /\ d[j].op \in LogOps /\ d[k].op \in LogOps => d[j].id # d[k].id
    BY <1>10, <1>15, <1>16, <1>17
  <2>3. \A j \in 1 .. Len(d) : d[j].op \in {"replace", "wipe", "fill", "log"}
    BY <1>5, <1>10, <1>11, <1>13, <1>14, <1>17
  <2>4. (Len(a) = 1 => d[1].op = "replace") /\ (Len(a) = 2 => d[1].op = "wipe" /\ d[2].op = "fill" /\ Len(d) > 1)
    BY <1>5, <1>10, <1>11, <1>13, <1>17
  <2>5. Len(a) = 1 /\ Len(d) > 1 => d[2].op = "log"
    BY <1>14, <1>17
  <2>6. OpsOf("blocked") = {"read", "replace", "wipe", "fill", "block", "unblock", "log"}
    BY DEF OpsOf
  <2>7. eventStore = "mongo" => eventStore \notin InOrder
    BY DEF InOrder
  <2>8. Len(d) > 1 => d[2].op \in {"fill", "log"}
    BY <1>5, <2>4, <2>5
  <2> QED
    BY <1>5, <1>17, <2>1, <2>2, <2>3, <2>4, <2>5, <2>6, <2>7, <2>8 DEF Proper, ChannelOps
<1>19. Begun(d) /\ d[1].op \in {"replace", "wipe"} /\ (d[1].op = "replace" => d[1].to = list) /\ (d[1].op = "wipe" => d[2].to = list)
  <2>1. eventStore = "mongo" => eventStore \notin InOrder
    BY DEF InOrder
  <2> QED
    BY <1>5, <1>10, <1>11, <1>13, <1>17, <2>1 DEF Begun
<1>20. \A j \in 1 .. Len(d) : d[j].op \in LogOps => d[j].id \in Contacts /\ d[j].to = (d[j].id \in list)
  <2> SUFFICES ASSUME NEW j \in 1 .. Len(d), d[j].op \in LogOps
               PROVE  d[j].id \in Contacts /\ d[j].to = (d[j].id \in list)
    OBVIOUS
  <2>1. j > Len(a)
    BY <1>10, <1>16
  <2>2. /\ d[j].id \in Contacts
        /\ (d[j].to = TRUE /\ d[j].id \in list) \/ (d[j].to = FALSE /\ d[j].id \notin list)
    BY <1>14, <2>1
  <2>3. d[j].to \in BOOLEAN
    <3>1. d[j] \in Calls /\ d[j].op = "log"
      BY <1>9, <1>14, <2>1, ElementOfSeq
    <3> QED
      BY <3>1, CallTypes
  <2>4. d[j].to <=> d[j].id \in list
    BY <2>2, Zenon
  <2> QED
    BY <2>2, <2>3, <2>4
<1>21. ASSUME NEW x \in Contacts, ~(x \in list <=> x \in prev)
       PROVE  \E j \in 1 .. Len(d) : d[j].op \in LogOps /\ d[j].id = x
  <2>1. CASE x \in list \ prev
    <3>1. PICK j \in 1 .. Len(b) : b[j].id = x
      BY <1>6, <2>1
    <3>2. Len(a) + j \in 1 .. Len(d)
      BY <1>10, <1>11
    <3> QED
      BY <1>6, <1>11, <3>1, <3>2 DEF LogOps
  <2>2. CASE x \in prev \ list
    <3>1. PICK j \in 1 .. Len(c) : c[j].id = x
      BY <1>7, <2>2
    <3>2. Len(a) + Len(b) + j \in 1 .. Len(d)
      BY <1>10, <1>11
    <3> QED
      <4>1. d[Len(a) + Len(b) + j] = c[j]
        BY <1>11
      <4> QED
        BY <1>7, <3>1, <3>2, <4>1 DEF LogOps
  <2> QED
    BY <1>21, <2>1, <2>2
<1> QED
  BY <1>1, <1>9, <1>18, <1>19, <1>20, <1>21 DEF DiffFrom

LEMMA TailIs ==
  ASSUME NEW h \in Seq(Calls), h # <<>>
  PROVE  /\ Head(h) = h[1] /\ h[1] \in Calls /\ Len(h) \in Nat /\ Len(h) >= 1
         /\ Tail(h) \in Seq(Calls) /\ Len(Tail(h)) = Len(h) - 1
         /\ \A j \in 1 .. Len(h) - 1 : Tail(h)[j] = h[j + 1]
         /\ Tail(h) = <<>> <=> Len(h) = 1
<1>1. Len(h) \in Nat /\ Len(h) >= 1
  BY EmptySeq
<1>2. Tail(h) \in Seq(Calls) /\ Len(Tail(h)) = Len(h) - 1 /\ \A j \in 1 .. Len(Tail(h)) : Tail(h)[j] = h[j + 1]
  BY HeadTailProperties
<1>3. Head(h) = h[1] /\ h[1] \in Calls
  BY <1>1, ElementOfSeq
<1>4. Tail(h) = <<>> <=> Len(Tail(h)) = 0
  BY <1>2, EmptySeq
<1> QED
  BY <1>1, <1>2, <1>3, <1>4

\* A handler without its first call, or its first two, is one again.
LEMMA ProperRest ==
  ASSUME EventsShape, NEW h \in Seq(Calls), Proper(h), NEW d \in {1, 2}, NEW r \in Seq(Calls),
         Len(r) = Len(h) - d, r # <<>>, \A j \in 1 .. Len(r) : r[j] = h[j + d],
         d = 2 => h[2].op \in {"fill", "list", "index"}
  PROVE  Proper(r) /\ Begun(r)
<1>1. Len(h) \in Nat /\ Len(r) \in Nat /\ Len(r) >= 1
  BY EmptySeq
<1>2. /\ \A j \in 2 .. Len(h) : h[j].op \in LogOps \/ (j = 2 /\ h[j].op \in {"fill", "list", "index"})
      /\ \A j, k \in 1 .. Len(h) : j # k /\ h[j].op \in LogOps /\ h[k].op \in LogOps => h[j].id # h[k].id
      /\ \A j \in 1 .. Len(h) : h[j].op \in OpsOf(mirror)
      /\ eventStore \in InOrder => h[1].op # "wipe"
      /\ Len(h) > 1 /\ h[2].op = "fill" => h[1].op = "wipe"
      /\ Len(h) > 1 /\ h[2].op = "list" => h[1].op = "upsertLabel" /\ Len(h) > 2
      /\ Len(h) > 1 /\ h[2].op = "index" => h[1].op = "associate" /\ Len(h) > 2
      /\ eventStore \in Pools => \A j \in 1 .. Len(h) : h[j].op \notin {"list", "index", "putViews", "readViews"}
  BY DEF Proper
<1>3. \A j \in 1 .. Len(r) : j + d \in 1 .. Len(h) /\ j + d \in 2 .. Len(h) /\ r[j] = h[j + d]
  BY <1>1
<1>4. \A j \in 2 .. Len(r) : r[j].op \in LogOps
  <2> TAKE j \in 2 .. Len(r)
  <2>1. j \in 1 .. Len(r) /\ j + d # 2
    BY <1>1
  <2> QED
    BY <1>2, <1>3, <2>1
<1>5. r[1].op \in LogOps \/ (d = 1 /\ r[1].op \in {"fill", "list", "index"} /\ r[1] = h[2])
  <2>1. 1 \in 1 .. Len(r) /\ r[1] = h[1 + d] /\ 1 + d \in 2 .. Len(h)
    BY <1>1, <1>3
  <2>2. r[1].op \in LogOps \/ (1 + d = 2 /\ r[1].op \in {"fill", "list", "index"})
    BY <1>2, <2>1
  <2> QED
    BY <2>1, <2>2
<1>6. \A j, k \in 1 .. Len(r) : j # k /\ r[j].op \in LogOps /\ r[k].op \in LogOps => r[j].id # r[k].id
  <2> TAKE j, k \in 1 .. Len(r)
  <2> HAVE j # k /\ r[j].op \in LogOps /\ r[k].op \in LogOps
  <2>1. j + d # k + d
    BY <1>1
  <2> QED
    BY <1>2, <1>3, <2>1
<1>7. \A j \in 1 .. Len(r) : r[j].op \in OpsOf(mirror)
  BY <1>2, <1>3
<1>8. r[1].op \notin {"read", "insertChat", "setLid", "wipe"} \union ChannelOps
  BY <1>5 DEF LogOps, ChannelOps
<1>9. r[1].op \in {"list", "index"} => Len(r) > 1
  BY <1>1, <1>2, <1>5 DEF LogOps
<1>10. Len(r) > 1 => r[2].op \notin {"fill", "list", "index"}
  BY <1>1, <1>4 DEF LogOps
<1>11. eventStore \in Pools => \A j \in 1 .. Len(r) : r[j].op \notin {"list", "index", "putViews", "readViews"}
  BY <1>2, <1>3
<1>12. Proper(r)
  BY <1>4, <1>6, <1>7, <1>8, <1>9, <1>10, <1>11 DEF Proper
<1>13. Begun(r)
  <2>1. r[1].op = "fill" => eventStore \notin InOrder
    <3>1. r[1].op = "fill" => Len(h) > 1 /\ h[2].op = "fill"
      BY <1>1, <1>5 DEF LogOps
    <3> QED
      BY <1>2, <3>1
  <2> QED
    BY <1>5, <2>1 DEF Begun
<1> QED
  BY <1>12, <1>13

\* What is left of h after its first call.
Same(r, h) ==
  /\ \A j \in 1 .. Len(r) : r[j].op \in LogOps => \E k \in 2 .. Len(h) : h[k] = r[j]
  /\ \A k \in 2 .. Len(h) : h[k].op \in LogOps => \E j \in 1 .. Len(r) : r[j] = h[k]
Rests(r, h, ok) ==
  /\ r \in Seq(Calls)
  /\ r # <<>> => Proper(r) /\ Begun(r)
  /\ Len(h) = 1 /\ h[1].op \notin {"read", "readViews"} => r = <<>>
  /\ h[1].op \notin {"read", "readViews"} =>
       /\ Same(r, h)
       /\ ok /\ Len(h) > 1 => Len(r) = Len(h) - 1 /\ r[1] = h[2]
       /\ r # <<>> => r[1].op \in LogOps \/ (ok /\ Len(h) > 1 /\ r[1] = h[2])
  /\ h[1].op = "read" =>
       (ok => DiffFrom(r, h[1].to, rows.blocked)) /\ (~ok => DiffFrom(r, h[1].to, {}))
  /\ h[1].op = "readViews" =>
       \/ r = <<>> /\ (~ok \/ h[1].to <= rows.channel.views)
       \/ r = <<Call("putViews", None, h[1].to)>> /\ ok /\ h[1].to > rows.channel.views

LEMMA RemainingIs ==
  ASSUME EventsShape, NEW h \in Seq(Calls), Proper(h), NEW ok \in BOOLEAN
  PROVE  Rests(Remaining(h, ok), h, ok)
<1> SUFFICES ASSUME NEW r, r = Remaining(h, ok), NEW next, next = Tail(h)
             PROVE  Rests(r, h, ok)
  OBVIOUS
<1>1. h # <<>>
  BY DEF Proper
<1>2. /\ Head(h) = h[1] /\ h[1] \in Calls /\ Len(h) \in Nat /\ Len(h) >= 1
      /\ next \in Seq(Calls) /\ Len(next) = Len(h) - 1
      /\ \A j \in 1 .. Len(h) - 1 : next[j] = h[j + 1]
      /\ next = <<>> <=> Len(h) = 1
  BY <1>1, TailIs
<1>3. h[1].op \in OpsOf(mirror)
  BY <1>2 DEF Proper
<1>7. h[1].op \in {"read", "readViews"} => next = <<>>
  BY <1>2 DEF Proper, ChannelOps
<1>4. CASE h[1].op = "read"
  <2>1. mirror = "blocked"
    BY <1>3, <1>4 DEF OpsOf, ChannelOps
  <2>2. (ok => r = Diff(h[1].to, rows.blocked)) /\ (~ok => r = Diff(h[1].to, {}))
    <3>1. r = Diff(Head(h).to, IF ok THEN rows.blocked ELSE {})
      BY <1>2, <1>4, <1>7 DEF Remaining
    <3>2. CASE ok
      BY <1>2, <3>1, <3>2
    <3>3. CASE ~ok
      BY <1>2, <3>1, <3>3
    <3> QED
      BY <3>2, <3>3
  <2>3. h[1].to \in SUBSET Contacts
    BY <1>2, <1>4, CallTypes
  <2>4. rows.blocked \in SUBSET Contacts
    BY DEF EventsShape, RowsType
  <2>5. (ok => DiffFrom(r, h[1].to, rows.blocked)) /\ (~ok => DiffFrom(r, h[1].to, {}))
    BY <2>1, <2>2, <2>3, <2>4, DiffIs
  <2>6. r \in Seq(Calls) /\ Proper(r) /\ Begun(r)
    BY <2>5 DEF DiffFrom
  <2> QED
    BY <1>4, <2>5, <2>6 DEF Rests
<1>5. CASE h[1].op = "readViews"
  <2>9. h[1].to \in Nat /\ rows.channel.views \in Nat
    BY <1>2, <1>5, CallTypes DEF EventsShape, RowsType, ChannelRows
  <2>1. \/ r = <<>> /\ (~ok \/ h[1].to <= rows.channel.views)
        \/ r = <<Call("putViews", None, h[1].to)>> /\ ok /\ h[1].to > rows.channel.views
    <3>1. r = IF ok THEN RedisSetViewCount(h[1].to) ELSE <<>>
      BY <1>2, <1>5, <1>7 DEF Remaining
    <3>2. CASE ok
      BY <2>9, <3>1, <3>2 DEF RedisSetViewCount
    <3>3. CASE ~ok
      BY <3>1, <3>3
    <3> QED
      BY <3>2, <3>3
  <2>2. mirror \notin {"blocked", "labels", "lids", "presence", "chats"}
    BY <1>3, <1>5 DEF OpsOf
  <2>3. eventStore \notin Pools
    BY <1>2, <1>5 DEF Proper
  <2>4. Call("putViews", None, h[1].to) \in Calls
    <3>1. h[1].to \in Nat
      BY <1>2, <1>5, CallTypes
    <3> QED
      BY <3>1 DEF Calls, CallsOfNumbers, Call
  <2>5. r \in Seq(Calls)
    <3>1. \A x \in Calls : <<x>> \in Seq(Calls)
      OBVIOUS
    <3> QED
      BY <2>1, <2>4, <3>1, EmptySeq
  <2>6. ASSUME r # <<>> PROVE Proper(r) /\ Begun(r)
    <3>1. Len(r) = 1 /\ r[1] = Call("putViews", None, h[1].to)
      BY <2>1, <2>6
    <3>2. r[1].op = "putViews"
      BY <3>1 DEF Call
    <3>3. \A j \in 1 .. Len(r) : j = 1
      BY <3>1
    <3>4. r[1].op \in OpsOf(mirror)
      BY <2>2, <3>2 DEF OpsOf, ChannelOps
    <3> QED
      BY <2>3, <2>6, <3>1, <3>2, <3>3, <3>4 DEF Proper, Begun, LogOps, ChannelOps
  <2> QED
    BY <1>5, <2>1, <2>5, <2>6 DEF Rests
<1>6. CASE h[1].op \notin {"read", "readViews"}
  <2> DEFINE second == ~ok /\ next # <<>> /\ Head(next).op \in {"fill", "list", "index"}
  <2>1. r = IF second THEN Tail(next) ELSE next
    BY <1>2, <1>6 DEF Remaining
  <2>2. next # <<>> => Head(next) = h[2] /\ Len(h) > 1
    BY <1>2
  <2>3. CASE second
    <3>1. next # <<>> /\ h[2].op \in {"fill", "list", "index"} /\ r = Tail(next) /\ ok = FALSE
      BY <2>1, <2>2, <2>3
    <3>2. /\ r \in Seq(Calls) /\ Len(r) = Len(next) - 1
          /\ \A j \in 1 .. Len(next) - 1 : r[j] = next[j + 1]
          /\ Len(next) >= 1
      BY <1>2, <3>1, TailIs
    <3> HIDE DEF second
    <3>11. Len(r) = Len(h) - 2
      BY <1>2, <3>2
    <3>12. \A j \in 1 .. Len(r) : r[j] = h[j + 2]
      <4>1. Len(r) = Len(h) - 2 /\ Len(h) \in Nat
        BY <1>2, <3>2
      <4> TAKE j \in 1 .. Len(r)
      <4>2. j \in 1 .. Len(next) - 1 /\ j + 1 \in 1 .. Len(h) - 1 /\ (j + 1) + 1 = j + 2
        BY <1>2, <4>1
      <4> QED
        BY <1>2, <3>2, <4>2
    <3>3. Len(r) = Len(h) - 2 /\ \A j \in 1 .. Len(r) : r[j] = h[j + 2]
      BY <3>11, <3>12
    <3>4. r # <<>> => Proper(r) /\ Begun(r)
      BY <3>1, <3>2, <3>3, ProperRest
    <3>5. Len(h) > 1 /\ Len(r) \in Nat
      BY <1>2, <3>2
    <3>6. h[2].op \notin LogOps
      BY <3>1 DEF LogOps
    <3>7. \A j \in 1 .. Len(r) : j + 2 \in 2 .. Len(h)
      BY <1>2, <3>3
    <3>8. \A k \in 2 .. Len(h) : k # 2 => k - 2 \in 1 .. Len(r) /\ r[k - 2] = h[k]
      <4> TAKE k \in 2 .. Len(h)
      <4> HAVE k # 2
      <4>1. k - 2 \in 1 .. Len(r) /\ (k - 2) + 2 = k
        BY <1>2, <3>3
      <4> QED
        BY <3>3, <4>1
    <3>9. Same(r, h)
      BY <3>3, <3>6, <3>7, <3>8 DEF Same
    <3>10. r # <<>> => r[1].op \in LogOps
      <4>1. ASSUME r # <<>> PROVE r[1].op \in LogOps
        <5>1. 1 \in 1 .. Len(r) /\ r[1] = h[3] /\ 3 \in 2 .. Len(h)
          BY <1>2, <3>2, <3>3, <4>1, EmptySeq
        <5> QED
          BY <5>1 DEF Proper
      <4> QED
        BY <4>1
    <3> QED
      BY <1>6, <3>1, <3>2, <3>4, <3>5, <3>9, <3>10 DEF Rests
  <2>4. CASE ~second
    <3>1. r = next
      BY <2>1, <2>4
    <3>2. r \in Seq(Calls) /\ Len(r) = Len(h) - 1 /\ \A j \in 1 .. Len(r) : r[j] = h[j + 1]
      BY <1>2, <3>1
    <3>3. (r = <<>> <=> Len(h) = 1) /\ (ok \/ Len(h) = 1 \/ h[2].op \notin {"fill", "list", "index"})
      BY <1>2, <2>2, <2>4, <3>1
    <3> HIDE DEF second
    <3>4. r # <<>> => Proper(r) /\ Begun(r)
      BY <3>2, ProperRest
    <3>5. \A k \in 2 .. Len(h) : k - 1 \in 1 .. Len(r) /\ r[k - 1] = h[k]
      <4> TAKE k \in 2 .. Len(h)
      <4>1. k - 1 \in 1 .. Len(r) /\ (k - 1) + 1 = k
        BY <1>2, <3>2
      <4> QED
        BY <3>2, <4>1
    <3>6. \A j \in 1 .. Len(r) : j + 1 \in 2 .. Len(h)
      BY <1>2, <3>2
    <3>7. Same(r, h)
      BY <3>2, <3>5, <3>6 DEF Same
    <3>8. Len(h) > 1 => r[1] = h[2] /\ 2 \in 2 .. Len(h)
      BY <1>2, <3>2
    <3>9. Len(h) > 1 => h[2].op \in LogOps \/ h[2].op \in {"fill", "list", "index"}
      BY <3>8 DEF Proper
    <3>10. r # <<>> => r[1].op \in LogOps \/ (ok /\ Len(h) > 1 /\ r[1] = h[2])
      BY <1>2, <3>3, <3>8, <3>9
    <3> QED
      BY <1>2, <1>6, <3>2, <3>3, <3>4, <3>7, <3>8, <3>10 DEF Rests
  <2> QED
    BY <2>3, <2>4
<1> QED
  BY <1>4, <1>5, <1>6

-----------------------------------------------------------------------------
(* What a call does to the rows *)

\* Agreement looks at some fields only.
LEMMA AgreesBy ==
  ASSUME NEW r, NEW s, NEW now, Agrees(r, now), s.blocked = r.blocked, s.labels = r.labels, s.tags = r.tags,
         s.pn = r.pn, s.state = r.state,
         \A k \in Chats : /\ s.chat[k].pinned = r.chat[k].pinned /\ s.chat[k].deleted = r.chat[k].deleted
                          /\ s.chat[k].mute = r.chat[k].mute
  PROVE  Agrees(s, now)
BY DEF Agrees, SameChat

LEMMA FieldsOfRows ==
  ASSUME EventsShape
  PROVE  /\ rows \in RowsType
         /\ rows.blocked \in SUBSET Contacts /\ rows.chat \in [Chats -> ChatRows]
         /\ \A k \in Chats : rows.chat[k] \in ChatRows
         /\ \A chat \in ChatRows : [chat EXCEPT !.there = TRUE] \in ChatRows
BY DEF EventsShape, RowsType, ChatRows

\* A call that does not miss its row leaves what was expected of it.
LEMMA OutcomeWritten ==
  ASSUME EventsShape, NEW h \in Seq(Calls), Proper(h), h[1].op \in RowOps \ {"read", "wipe"}, ~Misses(h[1]),
         NEW now, Agrees(Outcome(h), now)
  PROVE  Agrees(Written(h[1]), now)
<1> DEFINE c == h[1]
<1>1. CASE c.op # "updateChat"
  BY <1>1 DEF Outcome
<1>2. CASE c.op = "updateChat"
  <2>1. c \in Calls
    <3>1. h # <<>>
      BY DEF Proper
    <3> QED
      BY <3>1, TailIs
  <2> DEFINE k == c.id
             f == c.to
             chat == rows.chat[k]
             there == [chat EXCEPT !.there = TRUE]
  <2>2. k \in Chats /\ f \in Fields \union {None}
    BY <1>2, <2>1, CallTypes
  <2>3. chat \in ChatRows /\ there \in ChatRows
    BY <2>2, FieldsOfRows
  <2>4. Outcome(h) = [rows EXCEPT !.chat[k] = Merged(there, f)]
    BY <1>2 DEF Outcome, SqliteUpsertChat
  <2>5. eventStore \in {"sqlite", "redis", "postgres", "mongo"}
    BY EventRowsAssumption DEF EventsShape, InOrder, Pools
  <2>6. rows \in RowsType /\ rows.chat \in [Chats -> ChatRows]
    BY FieldsOfRows
  <2>7. Merged(there, f) \in ChatRows /\ Merged(chat, f) \in ChatRows
    BY <2>2, <2>3, FieldSet
  <2>8. there.pinned = chat.pinned /\ there.mute = chat.mute /\ there.deleted = chat.deleted
    BY <2>3 DEF ChatRows
  <2>9. CASE eventStore \in {"mongo", "redis"}
    <3>1. Written(c) = IF f \in {None, <<"mute", FALSE>>} THEN rows ELSE [rows EXCEPT !.chat[k] = SetField(there, f)]
      BY <1>2, <2>9 DEF Written, MongoUpdateChat, RedisUpdateChat
    <3>2. CASE f \in {None, <<"mute", FALSE>>}
      <4>1. Merged(there, f) = there
        BY <3>2 DEF Merged, SetField
      <4> HIDE DEF c, f, chat, there
      <4>2. Written(c) = rows
        BY <3>1, <3>2
      <4>3. Outcome(h).chat[k] = there /\ \A q \in Chats : q # k => Outcome(h).chat[q] = rows.chat[q]
        BY <2>2, <2>4, <2>6, <4>1 DEF RowsType
      <4>4. /\ Outcome(h).blocked = rows.blocked /\ Outcome(h).labels = rows.labels /\ Outcome(h).tags = rows.tags
            /\ Outcome(h).pn = rows.pn /\ Outcome(h).state = rows.state
        BY <2>4, <2>6 DEF RowsType
      <4>5. \A q \in Chats : /\ rows.chat[q].pinned = Outcome(h).chat[q].pinned
                             /\ rows.chat[q].deleted = Outcome(h).chat[q].deleted
                             /\ rows.chat[q].mute = Outcome(h).chat[q].mute
        BY <2>8, <4>3 DEF chat
      <4>6. Agrees(rows, now)
        BY <4>4, <4>5, AgreesBy
      <4> QED
        BY <4>2, <4>6 DEF c
    <3>3. CASE f \notin {None, <<"mute", FALSE>>}
      <4>1. Merged(there, f) = SetField(there, f)
        BY <3>3 DEF Merged
      <4> QED
        BY <2>4, <3>1, <3>3, <4>1
    <3> QED
      BY <3>2, <3>3
  <2>10. CASE eventStore \in {"sqlite", "postgres"}
    <3>1. chat.there = TRUE
      BY <1>2, <2>3, <2>10 DEF Misses, ChatRows
    <3>2. there = chat
      BY <2>3, <3>1 DEF ChatRows
    <3>3. Written(c) = [rows EXCEPT !.chat[k] = Merged(chat, f)]
      BY <1>2, <2>10, <3>1 DEF Written, UpdateChat
    <3> QED
      BY <2>4, <3>2, <3>3
  <2> QED
    BY <2>5, <2>9, <2>10
<1> QED
  BY <1>1, <1>2

\* What becomes of s in a call.
Done(h, ok, s) ==
  /\ h[1] \in Calls
  /\ rows' \in RowsType /\ (ok => rows' = Written(h[1])) /\ (~ok => rows' = rows)
  /\ sure' \in [rows : BOOLEAN, timeline : BOOLEAN, steady : BOOLEAN]
  /\ sure'.rows => s.rows /\ (h[1].op \in {"read", "log", "transition"} \/ (ok /\ ~Misses(h[1])))
  /\ sure'.timeline => s.timeline /\ ok
  /\ s.timeline /\ ok => sure'.timeline
  /\ ok /\ h[1].op # "updateChat" => sure'.rows = s.rows
  /\ sure'.steady => s.steady /\ (ok \/ h[1].op # "transition")
  /\ lastLogged' = IF Transition(h[1]) THEN [lastLogged EXCEPT ![h[1].id] = h[1].to] ELSE lastLogged
  /\ timeline' = Logged(IF ok /\ (h[1].op = "log" \/ Transition(h[1]))
                          THEN Append(timeline, <<h[1].id, h[1].to>>) ELSE timeline, sure')

LEMMA Performs ==
  ASSUME EventsShape, NEW h \in Seq(Calls), Proper(h), NEW ok \in BOOLEAN,
         NEW s \in [rows : BOOLEAN, timeline : BOOLEAN, steady : BOOLEAN], Perform(h, ok, s)
  PROVE  Done(h, ok, s)
<1>1. Head(h) = h[1] /\ h[1] \in Calls
  BY TailIs DEF Proper
<1>2. /\ rows' = IF ok THEN Written(h[1]) ELSE rows
      /\ lastLogged' = IF Transition(h[1]) THEN [lastLogged EXCEPT ![h[1].id] = h[1].to] ELSE lastLogged
      /\ sure' = IF ok THEN [s EXCEPT !.rows = @ /\ ~Misses(h[1])]
                 ELSE [s EXCEPT !.rows = @ /\ h[1].op \in {"read", "log", "transition"}, !.timeline = FALSE,
                                !.steady = @ /\ h[1].op # "transition"]
      /\ timeline' = Logged(IF ok /\ (h[1].op = "log" \/ Transition(h[1]))
                              THEN RecordTimelineEvent(h[1].id, h[1].to) ELSE timeline, sure')
  BY <1>1 DEF Perform
<1>3. rows' \in RowsType
  BY <1>1, <1>2, WrittenType, FieldsOfRows
<1>4. Misses(h[1]) => h[1].op = "updateChat"
  BY DEF Misses
<1>5. CASE ok
  <2>1. sure' = [s EXCEPT !.rows = @ /\ ~Misses(h[1])]
    BY <1>2, <1>5
  <2>2. s.rows \in BOOLEAN /\ s.timeline \in BOOLEAN /\ s.steady \in BOOLEAN
    OBVIOUS
  <2>3. /\ sure' \in [rows : BOOLEAN, timeline : BOOLEAN, steady : BOOLEAN]
        /\ sure'.rows <=> s.rows /\ ~Misses(h[1])
        /\ sure'.timeline = s.timeline /\ sure'.steady = s.steady
    BY <2>1, <2>2
  <2>4. sure'.rows \in BOOLEAN
    BY <2>3
  <2> QED
    BY <1>1, <1>2, <1>3, <1>4, <1>5, <2>2, <2>3, <2>4 DEF Done, RecordTimelineEvent
<1>6. CASE ~ok
  <2>1. sure' = [s EXCEPT !.rows = @ /\ h[1].op \in {"read", "log", "transition"}, !.timeline = FALSE,
                          !.steady = @ /\ h[1].op # "transition"]
    BY <1>2, <1>6
  <2>2. /\ sure' \in [rows : BOOLEAN, timeline : BOOLEAN, steady : BOOLEAN]
        /\ sure'.rows <=> s.rows /\ h[1].op \in {"read", "log", "transition"}
        /\ ~sure'.timeline /\ (sure'.steady <=> s.steady /\ h[1].op # "transition")
    BY <2>1
  <2> QED
    BY <1>1, <1>2, <1>3, <1>6, <2>2 DEF Done, RecordTimelineEvent
<1> QED
  BY <1>5, <1>6

LEMMA WritesOut ==
  ASSUME EventsShape, NEW h \in Seq(Calls), Proper(h), h[1].op \in RowOps, NEW ok \in BOOLEAN,
         NEW r, Rests(r, h, ok), UNCHANGED eventStore,
         h[1].op = "read" \/ (ok /\ ~Misses(h[1])),
         (ok => rows' = Written(h[1])) /\ (~ok => rows' = rows),
         NEW now, Agrees(Outcome(h), now)
  PROVE  \/ (r = <<>> \/ r[1].op \notin RowOps) /\ Agrees(rows', now)
         \/ /\ r # <<>> /\ r[1].op \in RowOps /\ Agrees(Outcome(r)', now)
            /\ r[1].op = "fill" => rows'.blocked = {}
<1>1. rows \in RowsType /\ rows.blocked \in SUBSET Contacts
  BY FieldsOfRows
<1>2. \A b : [rows EXCEPT !.blocked = b].blocked = b
             /\ \A c : [[rows EXCEPT !.blocked = b] EXCEPT !.blocked = c] = [rows EXCEPT !.blocked = c]
  BY <1>1 DEF RowsType
<1>3. CASE h[1].op = "read"
  <2>1. rows' = rows
    BY <1>3 DEF Written
  <2>2. \E prev \in SUBSET Contacts : DiffFrom(r, h[1].to, prev)
    <3>1. CASE ok
      BY <1>1, <1>3, <3>1 DEF Rests
    <3>2. CASE ~ok
      BY <1>3, <3>2 DEF Rests
    <3> QED
      BY <3>1, <3>2
  <2>3. /\ Proper(r) /\ r[1].op \in {"replace", "wipe"}
        /\ (r[1].op = "replace" => r[1].to = h[1].to) /\ (r[1].op = "wipe" => r[2].to = h[1].to)
    BY <2>2 DEF DiffFrom
  <2>4. Outcome(r)' = [rows' EXCEPT !.blocked = h[1].to]
    BY <2>3 DEF Outcome, Written
  <2>5. Outcome(h) = [rows EXCEPT !.blocked = h[1].to]
    BY <1>3 DEF Outcome
  <2>6. Agrees(Outcome(r)', now)
    BY <2>1, <2>4, <2>5
  <2> QED
    BY <2>3, <2>6 DEF Proper, RowOps
<1>4. CASE h[1].op = "wipe"
  <2>1. ok /\ rows' = [rows EXCEPT !.blocked = {}]
    BY <1>4 DEF Written
  <2>2. Len(h) > 1 /\ h[2].op = "fill"
    BY <1>4 DEF Proper
  <2>3. r[1] = h[2] /\ Len(r) = Len(h) - 1 /\ Len(h) \in Nat
    BY <1>4, <2>1, <2>2, LenProperties DEF Rests
  <2>4. r # <<>> /\ r[1].op = "fill"
    BY <2>2, <2>3
  <2>5. rows'.blocked = {}
    BY <1>2, <2>1
  <2>6. Outcome(r)' = [rows' EXCEPT !.blocked = rows'.blocked \union h[2].to]
    <3>1. rows' \in RowsType
      BY <1>1, <2>1 DEF RowsType
    <3> QED
      BY <2>3, <2>4, <3>1 DEF Outcome, Written, RowsType
  <2>7. Outcome(r)' = [rows EXCEPT !.blocked = h[2].to]
    <3>1. rows'.blocked \union h[2].to = h[2].to
      BY <2>5
    <3> QED
      BY <1>2, <2>1, <2>6, <3>1
  <2>8. Outcome(h) = [rows EXCEPT !.blocked = h[2].to]
    BY <1>4 DEF Outcome
  <2>9. Agrees(Outcome(r)', now)
    BY <2>7, <2>8
  <2> QED
    BY <2>4, <2>5, <2>9 DEF RowOps
<1>5. CASE h[1].op \notin {"read", "wipe"}
  <2>1. Agrees(rows', now)
    BY <1>5, OutcomeWritten
  <2>2. r # <<>> => r[1].op \in LogOps \/ (Len(h) > 1 /\ r[1] = h[2])
    BY <1>5 DEF Rests, RowOps
  <2>3. Len(h) > 1 => h[2].op \in LogOps \union {"list", "index"}
    <3>1. ASSUME Len(h) > 1 PROVE h[2].op \in LogOps \union {"list", "index"}
      <4>1. 2 \in 2 .. Len(h)
        BY <3>1, LenProperties
      <4>2. h[2].op \in LogOps \/ h[2].op \in {"fill", "list", "index"}
        BY <4>1 DEF Proper
      <4>3. h[2].op # "fill"
        BY <1>5, <3>1 DEF Proper
      <4> QED
        BY <4>2, <4>3
    <3> QED
      BY <3>1
  <2>4. r # <<>> => r[1].op \notin RowOps
    BY <2>2, <2>3 DEF LogOps, RowOps
  <2> QED
    BY <2>1, <2>4
<1> QED
  BY <1>3, <1>4, <1>5

\* A call that does not write leaves what another handler is about to.
LEMMA OutcomeStays ==
  ASSUME EventsShape, NEW c \in Calls, c.op \in OpsOf(mirror), c.op \notin RowOps, UNCHANGED eventStore,
         rows' = rows \/ rows' = Written(c), eventStore \in Pools => c.op \notin {"list", "index"},
         NEW g \in Seq(Calls), Proper(g), Begun(g), g[1].op \in RowOps, NEW now, Agrees(Outcome(g), now)
  PROVE  Agrees(Outcome(g)', now)
<1>1. g[1] \in Calls /\ g[1].op \in OpsOf(mirror) /\ mirror \in {"blocked", "labels", "lids", "presence", "chats", "channel"}
  <2>1. g # <<>>
    BY DEF Proper
  <2>2. 1 \in 1 .. Len(g)
    BY <2>1, TailIs
  <2> QED
    BY <2>1, <2>2, TailIs DEF Proper, EventsShape
<1>2. CASE rows' = rows
  BY <1>2 DEF Outcome, SqliteUpsertChat, Written, AddToBlocklist, RemoveFromBlocklist, DeleteLabel, SqliteTagged,
     Tagged, Untagged, RedisSetLid, SetLid, RecordPresence, InsertChat, MongoUpdateChat, RedisUpdateChat, UpdateChat,
     MarkChatDeleted, SetViewCount, IncrementView, RecordReaction
<1>3. CASE rows' = Written(c) /\ c.op \in LogOps
  <2>1. rows' = rows
    BY <1>3 DEF Written, LogOps
  <2> QED
    BY <1>2, <2>1
<1>4. CASE c.op \in {"list", "index"}
  <2>1. mirror = "labels"
    BY <1>1, <1>4 DEF OpsOf, ChannelOps
  <2>2. eventStore \in {"sqlite", "redis", "postgres", "mongo"}
    BY EventRowsAssumption DEF EventsShape, InOrder, Pools
  <2>3. g[1].op \in {"upsertLabel", "deleteLabel", "associate", "disassociate"}
    BY <1>1, <2>1 DEF OpsOf, RowOps
  <2> QED
    BY <1>4, <2>2, <2>3 DEF Begun, InOrder, Pools, LogOps
<1>5. CASE c.op \in ChannelOps
  BY <1>1, <1>5 DEF OpsOf, ChannelOps, RowOps
<1>6. CASE rows' = Written(c) /\ c.op = "insertChat"
  <2>1. mirror = "chats"
    BY <1>1, <1>6 DEF OpsOf, ChannelOps
  <2>2. g[1].op \in {"updateChat", "upsertChat", "markDeleted"}
    BY <1>1, <2>1 DEF OpsOf, RowOps
  <2> DEFINE k == c.id
             q == g[1].id
             f == g[1].to
             old == rows.chat[q]
             new == rows'.chat[q]
  <2>3. k \in Chats /\ q \in Chats /\ (g[1].op # "markDeleted" => f \in Fields \union {None})
    BY <1>1, <1>6, <2>2, CallTypes
  <2>4. rows \in RowsType /\ rows.chat \in [Chats -> ChatRows] /\ rows' = [rows EXCEPT !.chat[k].there = TRUE]
    BY <1>6, FieldsOfRows DEF Written, InsertChat
  <2>5. /\ rows' \in RowsType /\ rows'.chat \in [Chats -> ChatRows]
        /\ rows'.blocked = rows.blocked /\ rows'.labels = rows.labels /\ rows'.tags = rows.tags
        /\ rows'.pn = rows.pn /\ rows'.state = rows.state
        /\ \A p \in Chats : rows'.chat[p] = IF p = k THEN [rows.chat[p] EXCEPT !.there = TRUE] ELSE rows.chat[p]
    <3>1. [rows.chat EXCEPT ![k].there = TRUE] \in [Chats -> ChatRows]
      BY <2>3, <2>4 DEF ChatRows
    <3>2. rows' = [rows EXCEPT !.chat = [rows.chat EXCEPT ![k].there = TRUE]]
      BY <2>4
    <3> HIDE DEF k
    <3>3. rows'.chat = [rows.chat EXCEPT ![k].there = TRUE]
      BY <2>4, <3>2 DEF RowsType
    <3>4. rows' \in RowsType
      BY <2>4, <3>1, <3>2 DEF RowsType
    <3> QED
      BY <2>3, <2>4, <3>1, <3>2, <3>3, <3>4 DEF RowsType
  <2> HIDE DEF k, q, f
  <2>6. \A p \in Chats : /\ rows'.chat[p].pinned = rows.chat[p].pinned /\ rows'.chat[p].deleted = rows.chat[p].deleted
                         /\ rows'.chat[p].mute = rows.chat[p].mute
    BY <2>4, <2>5 DEF ChatRows
  <2>7. [new EXCEPT !.there = TRUE] = [old EXCEPT !.there = TRUE] /\ old \in ChatRows /\ new \in ChatRows
    BY <2>3, <2>4, <2>5, <2>6 DEF ChatRows
  <2>8. CASE g[1].op # "markDeleted"
    <3> DEFINE x == Merged([old EXCEPT !.there = TRUE], f)
    <3>1. Outcome(g) = [rows EXCEPT !.chat[q] = x]
      BY <2>2, <2>8 DEF Outcome, Written, SqliteUpsertChat, q, f
    <3>2. Outcome(g)' = [rows' EXCEPT !.chat[q] = x]
      BY <2>2, <2>7, <2>8 DEF Outcome, Written, SqliteUpsertChat, q, f
    <3> HIDE DEF x, new, old
    <3>3. /\ Outcome(g).chat[q] = x /\ Outcome(g)'.chat[q] = x
          /\ \A p \in Chats : p # q => Outcome(g).chat[p] = rows.chat[p] /\ Outcome(g)'.chat[p] = rows'.chat[p]
      BY <2>3, <2>4, <2>5, <3>1, <3>2 DEF RowsType
    <3>4. /\ Outcome(g)'.blocked = Outcome(g).blocked /\ Outcome(g)'.labels = Outcome(g).labels
          /\ Outcome(g)'.tags = Outcome(g).tags /\ Outcome(g)'.pn = Outcome(g).pn /\ Outcome(g)'.state = Outcome(g).state
      BY <2>4, <2>5, <3>1, <3>2 DEF RowsType
    <3>5. \A p \in Chats : /\ Outcome(g)'.chat[p].pinned = Outcome(g).chat[p].pinned
                           /\ Outcome(g)'.chat[p].deleted = Outcome(g).chat[p].deleted
                           /\ Outcome(g)'.chat[p].mute = Outcome(g).chat[p].mute
      BY <2>6, <3>3
    <3> QED
      BY <3>4, <3>5, AgreesBy
  <2>9. CASE g[1].op = "markDeleted"
    <3> DEFINE cs == [rows.chat EXCEPT ![q].deleted = TRUE]
               ds == [rows'.chat EXCEPT ![q].deleted = TRUE]
    <3>1. Outcome(g) = [rows EXCEPT !.chat = cs] /\ Outcome(g)' = [rows' EXCEPT !.chat = ds]
      BY <2>9 DEF Outcome, Written, MarkChatDeleted, q
    <3> HIDE DEF new, old
    <3>6. /\ cs[q] = [old EXCEPT !.deleted = TRUE] /\ ds[q] = [new EXCEPT !.deleted = TRUE]
          /\ \A p \in Chats : p # q => cs[p] = rows.chat[p] /\ ds[p] = rows'.chat[p]
      BY <2>3, <2>4, <2>5 DEF old, new
    <3> HIDE DEF cs, ds
    <3>7. Outcome(g).chat = cs /\ Outcome(g)'.chat = ds
      BY <2>4, <2>5, <3>1 DEF RowsType
    <3>2. /\ Outcome(g).chat[q] = [old EXCEPT !.deleted = TRUE] /\ Outcome(g)'.chat[q] = [new EXCEPT !.deleted = TRUE]
          /\ \A p \in Chats : p # q => Outcome(g).chat[p] = rows.chat[p] /\ Outcome(g)'.chat[p] = rows'.chat[p]
      BY <3>6, <3>7
    <3>3. /\ Outcome(g)'.blocked = Outcome(g).blocked /\ Outcome(g)'.labels = Outcome(g).labels
          /\ Outcome(g)'.tags = Outcome(g).tags /\ Outcome(g)'.pn = Outcome(g).pn /\ Outcome(g)'.state = Outcome(g).state
      BY <2>4, <2>5, <3>1 DEF RowsType
    <3>4. old.pinned = new.pinned /\ old.mute = new.mute
      BY <2>3, <2>6 DEF old, new
    <3>5. \A p \in Chats : /\ Outcome(g)'.chat[p].pinned = Outcome(g).chat[p].pinned
                           /\ Outcome(g)'.chat[p].deleted = Outcome(g).chat[p].deleted
                           /\ Outcome(g)'.chat[p].mute = Outcome(g).chat[p].mute
      <4>1. \A o \in ChatRows : /\ [o EXCEPT !.deleted = TRUE].pinned = o.pinned
                               /\ [o EXCEPT !.deleted = TRUE].mute = o.mute
                               /\ [o EXCEPT !.deleted = TRUE].deleted = TRUE
        BY DEF ChatRows
      <4>2. old \in ChatRows /\ new \in ChatRows
        BY <2>7
      <4>3. /\ Outcome(g)'.chat[q].pinned = Outcome(g).chat[q].pinned
            /\ Outcome(g)'.chat[q].deleted = Outcome(g).chat[q].deleted
            /\ Outcome(g)'.chat[q].mute = Outcome(g).chat[q].mute
        BY <3>2, <3>4, <4>1, <4>2
      <4> QED
        BY <2>6, <3>2, <4>3
    <3> QED
      BY <3>3, <3>5, AgreesBy
  <2> QED
    BY <2>8, <2>9
<1> QED
  BY <1>2, <1>3, <1>4, <1>5, <1>6, CallTypes DEF SideOps

-----------------------------------------------------------------------------
(* The handlers after a call *)

\* o says where the sequences of new were in hs: in the place of hs[i] there is r,
\* or nothing if r is empty.
Carried(o, hs, new, i, r) ==
  /\ o \in [1 .. Len(new) -> 1 .. Len(hs)]
  /\ \A j \in 1 .. Len(new) : new[j] = IF o[j] = i THEN r ELSE hs[o[j]]
  /\ \A j, k \in 1 .. Len(new) : o[j] = o[k] => j = k
  /\ \A k \in 1 .. Len(hs) : k # i \/ r # <<>> => \E j \in 1 .. Len(new) : o[j] = k
  /\ r = <<>> => \A j \in 1 .. Len(new) : o[j] # i
InTurn(o, n) == \A j, k \in 1 .. n : j < k => o[j] < o[k]

LEMMA Joined ==
  ASSUME NEW S, NEW a \in Seq(S), NEW b \in Seq(S), NEW c, c = a \o b
  PROVE  /\ c \in Seq(S) /\ Len(c) = Len(a) + Len(b) /\ Len(a) \in Nat /\ Len(b) \in Nat
         /\ \A j \in 1 .. Len(a) : c[j] = a[j]
         /\ \A j \in 1 .. Len(b) : c[Len(a) + j] = b[j]
<1>1. /\ c \in Seq(S) /\ Len(c) = Len(a) + Len(b)
      /\ \A i \in 1 .. Len(a) + Len(b) : c[i] = IF i <= Len(a) THEN a[i] ELSE b[i - Len(a)]
  BY ConcatProperties
<1>2. Len(a) \in Nat /\ Len(b) \in Nat
  OBVIOUS
<1>3. \A j \in 1 .. Len(b) : c[Len(a) + j] = b[j]
  <2> TAKE j \in 1 .. Len(b)
  <2>1. Len(a) + j \in 1 .. Len(a) + Len(b) /\ ~(Len(a) + j <= Len(a)) /\ (Len(a) + j) - Len(a) = j
    BY <1>2
  <2> QED
    BY <1>1, <2>1
<1> QED
  BY <1>1, <1>2, <1>3

\* The n sequences of new are those of hs but the i-th.
LEMMA Dropped ==
  ASSUME NEW hs, NEW new, NEW i, NEW n, n \in Nat, i \in 1 .. n, Len(hs) = n, Len(new) = n - 1,
         \A j \in 1 .. n - 1 : new[j] = IF j < i THEN hs[j] ELSE hs[j + 1]
  PROVE  \E o : Carried(o, hs, new, i, <<>>) /\ InTurn(o, Len(new))
<1> DEFINE o == [j \in 1 .. n - 1 |-> IF j < i THEN j ELSE j + 1]
<1>1. \A j \in 1 .. n - 1 : (IF j < i THEN j ELSE j + 1) \in 1 .. n
  OBVIOUS
<1>2. o \in [1 .. n - 1 -> 1 .. n]
  BY <1>1
<1>3. \A j \in 1 .. n - 1 : /\ j < i => o[j] = j
                            /\ ~(j < i) => o[j] = j + 1
  OBVIOUS
<1> HIDE DEF o
<1>4. \A j \in 1 .. n - 1 : o[j] # i /\ new[j] = hs[o[j]]
  <2> TAKE j \in 1 .. n - 1
  <2>1. CASE j < i
    BY <1>3, <2>1
  <2>2. CASE ~(j < i)
    BY <1>3, <2>2
  <2> QED
    BY <2>1, <2>2
<1>5. \A j, k \in 1 .. n - 1 : j < k => o[j] < o[k]
  <2> TAKE j, k \in 1 .. n - 1
  <2> HAVE j < k
  <2>1. CASE k < i
    BY <1>3, <2>1
  <2>2. CASE ~(k < i) /\ j < i
    BY <1>3, <2>2
  <2>3. CASE ~(j < i)
    BY <1>3, <2>3
  <2> QED
    BY <2>1, <2>2, <2>3
<1>6. \A j, k \in 1 .. n - 1 : o[j] = o[k] => j = k
  <2> TAKE j, k \in 1 .. n - 1
  <2>1. o[j] \in Int /\ o[k] \in Int
    BY <1>2
  <2>2. j < k \/ k < j \/ j = k
    OBVIOUS
  <2> QED
    BY <1>5, <2>1, <2>2
<1>7. \A k \in 1 .. n : k # i => \E j \in 1 .. n - 1 : o[j] = k
  <2> TAKE k \in 1 .. n
  <2> HAVE k # i
  <2>1. CASE k < i
    <3>1. k \in 1 .. n - 1 /\ o[k] = k
      BY <1>3, <2>1
    <3> QED
      BY <3>1
  <2>2. CASE k > i
    <3>1. k - 1 \in 1 .. n - 1 /\ ~(k - 1 < i) /\ (k - 1) + 1 = k
      BY <2>2
    <3>2. o[k - 1] = k
      BY <1>3, <3>1
    <3> QED
      BY <3>1, <3>2
  <2> QED
    BY <2>1, <2>2
<1>8. Carried(o, hs, new, i, <<>>)
  BY <1>2, <1>4, <1>6, <1>7 DEF Carried
<1>9. InTurn(o, Len(new))
  BY <1>5 DEF InTurn
<1> QED
  BY <1>8, <1>9

Rotation(hs, r) == Tail(hs) \o (IF r = <<>> THEN <<>> ELSE <<r>>)

LEMMA Rotated ==
  ASSUME NEW S, NEW hs \in Seq(Seq(S)), hs # <<>>, NEW r \in Seq(S), NEW new, new = Rotation(hs, r)
  PROVE  /\ new \in Seq(Seq(S)) /\ Len(new) = IF r = <<>> THEN Len(hs) - 1 ELSE Len(hs)
         /\ \E o : Carried(o, hs, new, 1, r) /\ (r = <<>> => InTurn(o, Len(new)))
<1> SUFFICES ASSUME NEW n, n = Len(hs), NEW t, t = Tail(hs), NEW m, m = IF r = <<>> THEN <<>> ELSE <<r>>
             PROVE  /\ new \in Seq(Seq(S)) /\ Len(new) = IF r = <<>> THEN n - 1 ELSE n
                    /\ \E o : Carried(o, hs, new, 1, r) /\ (r = <<>> => InTurn(o, Len(new)))
  OBVIOUS
<1>1. n \in Nat /\ n >= 1 /\ t \in Seq(Seq(S)) /\ Len(t) = n - 1 /\ \A j \in 1 .. n - 1 : t[j] = hs[j + 1]
  <2>1. n \in Nat /\ n >= 1
    BY EmptySeq
  <2>2. t \in Seq(Seq(S)) /\ Len(t) = Len(hs) - 1 /\ \A j \in 1 .. Len(t) : t[j] = hs[j + 1]
    BY HeadTailProperties
  <2> QED
    BY <2>1, <2>2
<1>9. m \in Seq(Seq(S)) /\ (r = <<>> => Len(m) = 0) /\ (r # <<>> => Len(m) = 1 /\ m[1] = r)
  OBVIOUS
<1>10. /\ new \in Seq(Seq(S)) /\ Len(new) = Len(t) + Len(m)
       /\ \A j \in 1 .. Len(t) : new[j] = t[j]
       /\ \A j \in 1 .. Len(m) : new[Len(t) + j] = m[j]
  <2>1. new = t \o m
    BY DEF Rotation
  <2> QED
    BY <1>1, <1>9, <2>1, Joined
<1>2. CASE r = <<>>
  <2>1. Len(new) = n - 1 /\ \A j \in 1 .. n - 1 : ~(j < 1) /\ new[j] = hs[j + 1]
    <3>1. PICK k : k = Len(t)
      OBVIOUS
    <3>2. k = n - 1 /\ Len(m) = 0 /\ Len(new) = k + 0 /\ \A j \in 1 .. k : new[j] = t[j]
      BY <1>1, <1>2, <1>9, <1>10, <3>1
    <3>3. \A j \in 1 .. n - 1 : t[j] = hs[j + 1]
      BY <1>1
    <3> QED
      BY <1>1, <3>2, <3>3
  <2>2. \A j \in 1 .. n - 1 : new[j] = IF j < 1 THEN hs[j] ELSE hs[j + 1]
    BY <2>1
  <2>3. 1 \in 1 .. n
    BY <1>1
  <2>4. \E o : Carried(o, hs, new, 1, <<>>) /\ InTurn(o, Len(new))
    BY <1>1, <2>1, <2>2, <2>3, Dropped
  <2> QED
    BY <1>2, <1>10, <2>1, <2>4
<1>3. CASE r # <<>>
  <2>2. Len(new) = n /\ (\A j \in 1 .. n - 1 : new[j] = hs[j + 1]) /\ new[n] = r
    <3>1. Len(t) + 1 = n /\ 1 \in 1 .. Len(m)
      BY <1>1, <1>3, <1>9
    <3>2. new[n] = m[1]
      BY <1>10, <3>1
    <3> QED
      BY <1>1, <1>3, <1>9, <1>10, <3>2
  <2> DEFINE o == [j \in 1 .. n |-> IF j = n THEN 1 ELSE j + 1]
  <2>10. \A j \in 1 .. n : (IF j = n THEN 1 ELSE j + 1) \in 1 .. n
    BY <1>1
  <2>3. o \in [1 .. n -> 1 .. n]
    BY <2>10
  <2>11. \A j \in 1 .. n : (j = n => o[j] = 1) /\ (j # n => o[j] = j + 1)
    OBVIOUS
  <2> HIDE DEF o
  <2>4. \A k \in 1 .. n : \E j \in 1 .. n : o[j] = k
    <3> TAKE k \in 1 .. n
    <3>1. CASE k = 1
      <4>1. n \in 1 .. n
        BY <1>1
      <4> QED
        BY <2>11, <3>1, <4>1
    <3>2. CASE k # 1
      <4>1. k - 1 \in 1 .. n /\ k - 1 # n /\ (k - 1) + 1 = k
        BY <1>1, <3>2
      <4> QED
        BY <2>11, <4>1
    <3> QED
      BY <3>1, <3>2
  <2>6. \A j \in 1 .. n : new[j] = IF o[j] = 1 THEN r ELSE hs[o[j]]
    <3> TAKE j \in 1 .. n
    <3>1. CASE j = n
      BY <2>2, <2>11, <3>1
    <3>2. CASE j # n
      <4>1. j \in 1 .. n - 1 /\ j + 1 # 1
        BY <1>1, <3>2
      <4>2. o[j] = j + 1 /\ new[j] = hs[j + 1]
        BY <2>2, <2>11, <3>2, <4>1
      <4> QED
        BY <4>1, <4>2
    <3> QED
      BY <3>1, <3>2
  <2>7. \A j, k \in 1 .. n : o[j] = o[k] => j = k
    <3> TAKE j, k \in 1 .. n
    <3>1. j + 1 # 1 /\ k + 1 # 1 /\ (j + 1 = k + 1 => j = k)
      BY <1>1
    <3> QED
      BY <2>11, <3>1
  <2>8. Carried(o, hs, new, 1, r)
    BY <1>3, <2>2, <2>3, <2>4, <2>6, <2>7 DEF Carried
  <2> QED
    BY <1>3, <1>10, <2>2, <2>8
<1> QED
  BY <1>2, <1>3

LEMMA Pieces ==
  ASSUME NEW S, NEW hs \in Seq(Seq(S)), NEW n, n = Len(hs), NEW i \in 1 .. n, NEW a, a = SubSeq(hs, 1, i - 1),
         NEW b, b = SubSeq(hs, i + 1, n)
  PROVE  /\ a \in Seq(Seq(S)) /\ Len(a) = i - 1 /\ \A j \in 1 .. i - 1 : a[j] = hs[j]
         /\ b \in Seq(Seq(S)) /\ Len(b) = n - i /\ \A j \in 1 .. n - i : b[j] = hs[i + j]
<1>10. n \in Nat /\ i \in 1 .. n
  OBVIOUS
<1>6. i - 1 \in Int /\ i + 1 \in Int /\ n \in Int /\ 1 \in Int
  BY <1>10
<1>7. \A j \in 1 .. n : hs[j] \in Seq(S)
  BY <1>10, ElementOfSeq
<1>8. \A j \in 1 .. i - 1 : hs[j] \in Seq(S)
  BY <1>10, <1>7
<1>9. /\ a \in Seq(Seq(S)) /\ Len(a) = (IF 1 <= i - 1 THEN i - 1 - 1 + 1 ELSE 0)
      /\ \A j \in 1 .. i - 1 - 1 + 1 : a[j] = hs[1 + j - 1]
  BY <1>6, <1>8, SubSeqProperties
<1>1. a \in Seq(Seq(S)) /\ Len(a) = i - 1 /\ \A j \in 1 .. i - 1 : a[j] = hs[j]
  <2>1. \A j \in 1 .. i - 1 : j \in 1 .. i - 1 - 1 + 1 /\ 1 + j - 1 = j
    BY <1>10
  <2>2. (IF 1 <= i - 1 THEN i - 1 - 1 + 1 ELSE 0) = i - 1
    BY <1>10
  <2> QED
    BY <1>9, <2>1, <2>2
<1>2. \A j \in i + 1 .. n : hs[j] \in Seq(S)
  BY <1>10, <1>7
<1>5. /\ b \in Seq(Seq(S)) /\ Len(b) = (IF i + 1 <= n THEN n - (i + 1) + 1 ELSE 0)
      /\ \A j \in 1 .. n - (i + 1) + 1 : b[j] = hs[i + 1 + j - 1]
  BY <1>2, <1>6, SubSeqProperties
<1>3. b \in Seq(Seq(S)) /\ Len(b) = n - i
  BY <1>10, <1>5
<1>4. \A j \in 1 .. n - i : b[j] = hs[i + j]
  <2> TAKE j \in 1 .. n - i
  <2>1. j \in 1 .. n - (i + 1) + 1 /\ i + 1 + j - 1 = i + j
    BY <1>10
  <2> QED
    BY <1>5, <2>1
<1> QED
  BY <1>1, <1>3, <1>4

\* c is a and then b.
Joins(a, b, c, S) ==
  /\ c \in Seq(S) /\ Len(c) = Len(a) + Len(b) /\ Len(a) \in Nat /\ Len(b) \in Nat
  /\ \A j \in 1 .. Len(a) : c[j] = a[j]
  /\ \A j \in 1 .. Len(b) : c[Len(a) + j] = b[j]

LEMMA JoinedTwice ==
  ASSUME NEW S, NEW a \in Seq(S), NEW m \in Seq(S), NEW b \in Seq(S)
  PROVE  Joins(a, m, a \o m, S) /\ Joins(a \o m, b, (a \o m) \o b, S)
<1>1. Joins(a, m, a \o m, S)
  <2>1. \A c : c = a \o m => Joins(a, m, c, S)
    BY Joined DEF Joins
  <2> QED
    BY <2>1
<1>2. a \o m \in Seq(S)
  BY <1>1 DEF Joins
<1>3. \A p \in Seq(S) : \A c : c = p \o b => Joins(p, b, c, S)
  BY Joined DEF Joins
<1> QED
  BY <1>1, <1>2, <1>3

\* Of n sequences the i-th is replaced by r, or left out.
Replaces(n, i, hs, r, a, b, m) ==
  /\ Len(a) = i - 1 /\ \A j \in 1 .. i - 1 : a[j] = hs[j]
  /\ Len(b) = n - i /\ \A j \in 1 .. n - i : b[j] = hs[i + j]
  /\ r = <<>> => Len(m) = 0
  /\ r # <<>> => Len(m) = 1 /\ m[1] = r

LEMMA Composed ==
  ASSUME NEW S, NEW hs, NEW n \in Nat, n = Len(hs), NEW i \in 1 .. n, NEW r,
         NEW a, NEW b, NEW m, NEW am, NEW new, Joins(a, m, am, S), Joins(am, b, new, S), Replaces(n, i, hs, r, a, b, m)
  PROVE  /\ new \in Seq(S) /\ Len(new) = IF r = <<>> THEN n - 1 ELSE n
         /\ \A j \in 1 .. i - 1 : new[j] = hs[j]
         /\ r # <<>> => new[i] = r
         /\ \A j \in i + 1 .. n : hs[j] = IF r = <<>> THEN new[j - 1] ELSE new[j]
<1>1. /\ Len(a) = i - 1 /\ Len(b) = n - i /\ Len(am) = Len(a) + Len(m) /\ Len(new) = Len(am) + Len(b)
      /\ (r = <<>> => Len(m) = 0) /\ (r # <<>> => Len(m) = 1 /\ m[1] = r) /\ new \in Seq(S)
  BY DEF Joins, Replaces
<1>7. i \in Int /\ n \in Int /\ 1 <= i /\ i <= n
  OBVIOUS
<1>2. r = <<>> => Len(am) = i - 1 /\ Len(new) = n - 1
  <2>1. ASSUME r = <<>> PROVE Len(am) = i - 1 /\ Len(new) = n - 1
    <3>1. Len(m) = 0
      BY <1>1, <2>1
    <3>2. Len(am) = i - 1 + 0
      BY <1>1, <3>1
    <3>3. Len(am) = i - 1
      BY <1>7, <3>2
    <3>4. Len(new) = i - 1 + (n - i)
      BY <1>1, <3>3
    <3> QED
      BY <1>7, <3>3, <3>4
  <2> QED
    BY <2>1
<1>3. r # <<>> => Len(am) = i /\ Len(new) = n
  <2>1. ASSUME r # <<>> PROVE Len(am) = i /\ Len(new) = n
    <3>1. Len(m) = 1
      BY <1>1, <2>1
    <3>2. Len(am) = i - 1 + 1
      BY <1>1, <3>1
    <3>3. Len(am) = i
      BY <1>7, <3>2
    <3>4. Len(new) = i + (n - i)
      BY <1>1, <3>3
    <3> QED
      BY <1>7, <3>3, <3>4
  <2> QED
    BY <2>1
<1>4. \A j \in 1 .. i - 1 : new[j] = hs[j]
  <2> TAKE j \in 1 .. i - 1
  <2>1. j \in 1 .. Len(a) /\ j \in 1 .. Len(am)
    BY <1>1, <1>2, <1>3
  <2>2. new[j] = am[j] /\ am[j] = a[j]
    BY <2>1 DEF Joins
  <2> QED
    BY <2>2 DEF Replaces
<1>5. r # <<>> => new[i] = r
  <2>1. ASSUME r # <<>> PROVE new[i] = r
    <3>1. i \in 1 .. Len(am) /\ 1 \in 1 .. Len(m) /\ Len(a) + 1 = i
      <4>1. Len(m) = 1 /\ Len(am) = i /\ Len(a) = i - 1
        BY <1>1, <1>3, <2>1
      <4> QED
        BY <1>7, <4>1
    <3>2. new[i] = am[i]
      BY <3>1 DEF Joins
    <3>3. am[Len(a) + 1] = m[1]
      BY <3>1 DEF Joins
    <3> QED
      BY <1>1, <2>1, <3>1, <3>2, <3>3
  <2> QED
    BY <2>1
<1>6. \A j \in i + 1 .. n : hs[j] = IF r = <<>> THEN new[j - 1] ELSE new[j]
  <2> TAKE j \in i + 1 .. n
  <2>1. j - i \in 1 .. Len(b) /\ i + (j - i) = j /\ (i - 1) + (j - i) = j - 1
    <3>1. Len(b) = n - i
      BY <1>1
    <3> QED
      BY <1>7, <3>1
  <2>2. b[j - i] = hs[j]
    <3>1. j - i \in 1 .. n - i
      BY <1>1, <2>1
    <3>2. b[j - i] = hs[i + (j - i)]
      BY <3>1 DEF Replaces
    <3> QED
      BY <2>1, <3>2
  <2>3. new[Len(am) + (j - i)] = b[j - i]
    BY <2>1 DEF Joins
  <2> QED
    BY <1>2, <1>3, <2>1, <2>2, <2>3
<1> QED
  BY <1>1, <1>2, <1>3, <1>4, <1>5, <1>6

LEMMA Replaced ==
  ASSUME NEW hs, NEW n \in Nat, n = Len(hs), NEW i \in 1 .. n, NEW r, NEW new,
         Len(new) = IF r = <<>> THEN n - 1 ELSE n, \A j \in 1 .. i - 1 : new[j] = hs[j], r # <<>> => new[i] = r,
         \A j \in i + 1 .. n : hs[j] = IF r = <<>> THEN new[j - 1] ELSE new[j]
  PROVE  \E o : Carried(o, hs, new, i, r) /\ InTurn(o, Len(new))
<1>1. CASE r = <<>>
  <2>1. \A j \in 1 .. n - 1 : new[j] = IF j < i THEN hs[j] ELSE hs[j + 1]
    <3> TAKE j \in 1 .. n - 1
    <3>1. CASE j < i
      <4>1. j \in 1 .. i - 1
        BY <3>1
      <4> QED
        BY <3>1, <4>1
    <3>2. CASE ~(j < i)
      <4>1. j + 1 \in i + 1 .. n /\ (j + 1) - 1 = j
        BY <3>2
      <4> QED
        BY <1>1, <3>2, <4>1
    <3> QED
      BY <3>1, <3>2
  <2>2. Len(new) = n - 1 /\ Len(hs) = n /\ i \in 1 .. n /\ n \in Nat
    BY <1>1
  <2>3. \E o : Carried(o, hs, new, i, <<>>) /\ InTurn(o, Len(new))
    BY <2>1, <2>2, Dropped
  <2> QED
    BY <1>1, <2>3
<1>2. CASE r # <<>>
  <2> DEFINE o == [j \in 1 .. n |-> j]
  <2>1. o \in [1 .. n -> 1 .. n] /\ \A j \in 1 .. n : o[j] = j
    OBVIOUS
  <2> HIDE DEF o
  <2>2. \A j \in 1 .. n : new[j] = IF o[j] = i THEN r ELSE hs[o[j]]
    <3> TAKE j \in 1 .. n
    <3>1. j = i \/ j \in 1 .. i - 1 \/ j \in i + 1 .. n
      OBVIOUS
    <3>2. j \in 1 .. i - 1 => j # i
      OBVIOUS
    <3>3. j \in i + 1 .. n => j # i
      OBVIOUS
    <3> QED
      BY <1>2, <2>1, <3>1, <3>2, <3>3
  <2>3. Len(new) = n
    BY <1>2
  <2>4. Carried(o, hs, new, i, r)
    BY <1>2, <2>1, <2>2, <2>3 DEF Carried
  <2>5. InTurn(o, Len(new))
    BY <2>1, <2>3 DEF InTurn
  <2> QED
    BY <2>4, <2>5
<1> QED
  BY <1>1, <1>2

Splice(hs, i, r) == SubSeq(hs, 1, i - 1) \o (IF r = <<>> THEN <<>> ELSE <<r>>) \o SubSeq(hs, i + 1, Len(hs))

LEMMA Spliced ==
  ASSUME NEW S, NEW hs \in Seq(Seq(S)), NEW i \in 1 .. Len(hs), NEW r \in Seq(S)
  PROVE  /\ Splice(hs, i, r) \in Seq(Seq(S)) /\ Len(Splice(hs, i, r)) = IF r = <<>> THEN Len(hs) - 1 ELSE Len(hs)
         /\ \E o : Carried(o, hs, Splice(hs, i, r), i, r) /\ InTurn(o, Len(Splice(hs, i, r)))
<1> DEFINE a == SubSeq(hs, 1, i - 1)
           b == SubSeq(hs, i + 1, Len(hs))
           m == IF r = <<>> THEN <<>> ELSE <<r>>
           new == Splice(hs, i, r)
<1>1. Len(hs) \in Nat
  OBVIOUS
<1>2. /\ a \in Seq(Seq(S)) /\ Len(a) = i - 1 /\ \A j \in 1 .. i - 1 : a[j] = hs[j]
      /\ b \in Seq(Seq(S)) /\ Len(b) = Len(hs) - i /\ \A j \in 1 .. Len(hs) - i : b[j] = hs[i + j]
  <2>1. \A p, q : p = SubSeq(hs, 1, i - 1) /\ q = SubSeq(hs, i + 1, Len(hs)) =>
          /\ p \in Seq(Seq(S)) /\ Len(p) = i - 1 /\ \A j \in 1 .. i - 1 : p[j] = hs[j]
          /\ q \in Seq(Seq(S)) /\ Len(q) = Len(hs) - i /\ \A j \in 1 .. Len(hs) - i : q[j] = hs[i + j]
    BY Pieces
  <2> QED
    BY <2>1, Zenon
<1>3. m \in Seq(Seq(S)) /\ (r = <<>> => Len(m) = 0) /\ (r # <<>> => Len(m) = 1 /\ m[1] = r)
  OBVIOUS
<1>4. new = (a \o m) \o b
  BY DEF Splice
<1> HIDE DEF a, b, m, new
<1>5. Joins(a, m, a \o m, Seq(S)) /\ Joins(a \o m, b, new, Seq(S))
  BY <1>2, <1>3, <1>4, JoinedTwice
<1>6. Replaces(Len(hs), i, hs, r, a, b, m)
  BY <1>2, <1>3 DEF Replaces
<1>7. /\ new \in Seq(Seq(S)) /\ Len(new) = IF r = <<>> THEN Len(hs) - 1 ELSE Len(hs)
      /\ \A j \in 1 .. i - 1 : new[j] = hs[j]
      /\ r # <<>> => new[i] = r
      /\ \A j \in i + 1 .. Len(hs) : hs[j] = IF r = <<>> THEN new[j - 1] ELSE new[j]
  BY <1>1, <1>5, <1>6, Composed
<1>8. \E o : Carried(o, hs, new, i, r) /\ InTurn(o, Len(new))
  BY <1>1, <1>7, Replaced
<1> QED
  BY <1>7, <1>8 DEF new

-----------------------------------------------------------------------------
(* A running handler goes on *)

\* The i-th handler makes a call, r is left of it, and o says where the handlers were.
Goes(i, ok, r, o) ==
  /\ i \in 1 .. Len(handlers) /\ ok \in BOOLEAN /\ (eventStore \in InOrder => i = 1)
  /\ handlers[i] \in Seq(Calls) /\ Proper(handlers[i]) /\ Begun(handlers[i])
  /\ Done(handlers[i], ok, sure)
  /\ Rests(r, handlers[i], ok)
  /\ handlers' \in Seq(Seq(Calls)) /\ Len(handlers') = IF r = <<>> THEN Len(handlers) - 1 ELSE Len(handlers)
  /\ Carried(o, handlers, handlers', i, r)
  /\ r = <<>> \/ eventStore \in Pools => InTurn(o, Len(handlers'))
  /\ UNCHANGED <<eventStore, mirror, told>>

LEMMA ContinueIs ==
  ASSUME EventsShape, Continue
  PROVE  \E i, ok, r, o : Goes(i, ok, r, o)
<1>1. PICK i \in 1 .. Len(handlers), ok \in BOOLEAN :
        /\ eventStore \in InOrder => i = 1
        /\ Perform(handlers[i], ok, sure)
        /\ handlers' = IF eventStore \in InOrder THEN Tail(handlers) \o Left(handlers[i], ok)
                       ELSE SubSeq(handlers, 1, i - 1) \o Left(handlers[i], ok)
                            \o SubSeq(handlers, i + 1, Len(handlers))
  BY DEF Continue
<1>2. UNCHANGED <<eventStore, mirror, told>>
  BY DEF Continue
<1>3. /\ handlers \in Seq(Seq(Calls)) /\ handlers[i] \in Seq(Calls) /\ Proper(handlers[i]) /\ Begun(handlers[i])
      /\ sure \in [rows : BOOLEAN, timeline : BOOLEAN, steady : BOOLEAN] /\ handlers # <<>>
  BY EmptySeq DEF EventsShape
<1>4. Done(handlers[i], ok, sure)
  BY <1>1, <1>3, Performs
<1>5. PICK r : r = Remaining(handlers[i], ok)
  OBVIOUS
<1>6. Rests(r, handlers[i], ok)
  BY <1>3, <1>5, RemainingIs
<1>7. r \in Seq(Calls)
  BY <1>6 DEF Rests
<1>8. Left(handlers[i], ok) = IF r = <<>> THEN <<>> ELSE <<r>>
  BY <1>5 DEF Left
<1>9. /\ handlers' \in Seq(Seq(Calls)) /\ Len(handlers') = IF r = <<>> THEN Len(handlers) - 1 ELSE Len(handlers)
      /\ \E o : Carried(o, handlers, handlers', i, r) /\ (r = <<>> \/ eventStore \in Pools => InTurn(o, Len(handlers')))
  <2>1. CASE eventStore \in InOrder
    <3>1. handlers' = Rotation(handlers, r) /\ i = 1 /\ eventStore \notin Pools
      BY <1>1, <1>8, <2>1 DEF InOrder, Pools, Rotation
    <3>2. /\ handlers' \in Seq(Seq(Calls)) /\ Len(handlers') = IF r = <<>> THEN Len(handlers) - 1 ELSE Len(handlers)
          /\ \E o : Carried(o, handlers, handlers', 1, r) /\ (r = <<>> => InTurn(o, Len(handlers')))
      BY <1>3, <1>7, <3>1, Rotated
    <3> QED
      BY <3>1, <3>2
  <2>2. CASE eventStore \notin InOrder
    <3>1. handlers' = Splice(handlers, i, r)
      BY <1>1, <1>8, <2>2 DEF Splice
    <3>2. /\ handlers' \in Seq(Seq(Calls)) /\ Len(handlers') = IF r = <<>> THEN Len(handlers) - 1 ELSE Len(handlers)
          /\ \E o : Carried(o, handlers, handlers', i, r) /\ InTurn(o, Len(handlers'))
      BY <1>3, <1>7, <3>1, Spliced
    <3> QED
      BY <3>2
  <2> QED
    BY <2>1, <2>2
<1> QED
  BY <1>1, <1>2, <1>3, <1>4, <1>6, <1>9 DEF Goes

LEMMA LoggedType ==
  ASSUME NEW tl \in Seq(LoggedIds \X (BOOLEAN \union Presences)), NEW s
  PROVE  Logged(tl, s) \in Seq(LoggedIds \X (BOOLEAN \union Presences))
BY DEF Logged

\* What a call leaves is well formed.
LEMMA DoneShape ==
  ASSUME EventsShape, NEW h \in Seq(Calls), Proper(h), NEW ok \in BOOLEAN, NEW s, Done(h, ok, s)
  PROVE  /\ timeline' \in Seq(LoggedIds \X (BOOLEAN \union Presences))
         /\ lastLogged' \in [Contacts -> Presences \union {None}]
         /\ rows' \in RowsType /\ sure' \in [rows : BOOLEAN, timeline : BOOLEAN, steady : BOOLEAN]
<1>1. h[1] \in Calls /\ rows' \in RowsType /\ sure' \in [rows : BOOLEAN, timeline : BOOLEAN, steady : BOOLEAN]
  BY DEF Done
<1>2. /\ timeline \in Seq(LoggedIds \X (BOOLEAN \union Presences))
      /\ lastLogged \in [Contacts -> Presences \union {None}]
  BY DEF EventsShape
<1>3. lastLogged' \in [Contacts -> Presences \union {None}]
  <2>1. lastLogged' = IF Transition(h[1]) THEN [lastLogged EXCEPT ![h[1].id] = h[1].to] ELSE lastLogged
    BY DEF Done
  <2>2. CASE Transition(h[1])
    <3>1. h[1].to \in Presences
      BY <1>1, <2>2, CallTypes DEF Transition
    <3> QED
      BY <1>2, <2>1, <2>2, <3>1
  <2> QED
    BY <1>2, <2>1, <2>2
<1>4. timeline' \in Seq(LoggedIds \X (BOOLEAN \union Presences))
  <2>1. PICK tl : tl = IF ok /\ (h[1].op = "log" \/ Transition(h[1]))
                         THEN Append(timeline, <<h[1].id, h[1].to>>) ELSE timeline
    OBVIOUS
  <2>2. timeline' = Logged(tl, sure')
    BY <2>1 DEF Done
  <2>3. tl \in Seq(LoggedIds \X (BOOLEAN \union Presences))
    <3>1. CASE ok /\ (h[1].op = "log" \/ Transition(h[1]))
      <4>1. h[1].op \in LogOps
        BY <3>1 DEF LogOps, Transition
      <4>2. h[1].id \in LoggedIds /\ h[1].to \in BOOLEAN \union Presences
        BY <1>1, <4>1, CallTypes
      <4>3. <<h[1].id, h[1].to>> \in LoggedIds \X (BOOLEAN \union Presences)
        BY <4>2
      <4>4. tl = Append(timeline, <<h[1].id, h[1].to>>)
        BY <2>1, <3>1
      <4> QED
        BY <1>2, <4>3, <4>4, AppendProperties
    <3>2. CASE ~(ok /\ (h[1].op = "log" \/ Transition(h[1])))
      BY <1>2, <2>1, <3>2
    <3> QED
      BY <3>1, <3>2
  <2> QED
    BY <2>2, <2>3, LoggedType
<1> QED
  BY <1>1, <1>3, <1>4

LEMMA GoesShape ==
  ASSUME EventsShape, NEW i, NEW ok, NEW r, NEW o, Goes(i, ok, r, o)
  PROVE  EventsShape'
<1>1. /\ i \in 1 .. Len(handlers) /\ ok \in BOOLEAN /\ handlers[i] \in Seq(Calls) /\ Proper(handlers[i])
      /\ Done(handlers[i], ok, sure) /\ Rests(r, handlers[i], ok) /\ handlers' \in Seq(Seq(Calls))
      /\ Carried(o, handlers, handlers', i, r) /\ eventStore' = eventStore /\ mirror' = mirror /\ told' = told
  BY DEF Goes
<1>2. \A j \in 1 .. Len(handlers') : Proper(handlers'[j]) /\ Begun(handlers'[j])
  <2> TAKE j \in 1 .. Len(handlers')
  <2>1. handlers'[j] = (IF o[j] = i THEN r ELSE handlers[o[j]]) /\ o[j] \in 1 .. Len(handlers) /\ (r = <<>> => o[j] # i)
    BY <1>1 DEF Carried
  <2>2. r # <<>> => Proper(r) /\ Begun(r)
    BY <1>1 DEF Rests
  <2>3. \A k \in 1 .. Len(handlers) : Proper(handlers[k]) /\ Begun(handlers[k])
    BY DEF EventsShape
  <2> QED
    BY <2>1, <2>2, <2>3
<1>3. \A j \in 1 .. Len(handlers') : Proper(handlers[j])' /\ Begun(handlers[j])'
  BY <1>1, <1>2 DEF Proper, Begun
<1>4. /\ timeline' \in Seq(LoggedIds \X (BOOLEAN \union Presences))
      /\ lastLogged' \in [Contacts -> Presences \union {None}]
      /\ rows' \in RowsType /\ sure' \in [rows : BOOLEAN, timeline : BOOLEAN, steady : BOOLEAN]
  BY <1>1, DoneShape
<1> QED
  BY <1>1, <1>3, <1>4 DEF EventsShape

-----------------------------------------------------------------------------
(* The rows after a call *)

\* Calls that do not write leave the rows that are compared.
LEMMA QuietAgrees ==
  ASSUME EventsShape, NEW c \in Calls, c.op \notin RowOps, rows' = rows \/ rows' = Written(c), NEW now, Agrees(rows, now)
  PROVE  Agrees(rows', now)
<1>1. rows \in RowsType /\ rows.chat \in [Chats -> ChatRows]
  BY FieldsOfRows
<1>2. CASE rows' = rows
  BY <1>2
<1>3. CASE rows' = Written(c) /\ c.op \in LogOps \union {"readViews"}
  <2>1. rows' = rows
    BY <1>3 DEF Written, LogOps
  <2> QED
    BY <2>1
<1>4. CASE rows' = Written(c) /\ c.op \in ChannelOps \union {"list", "index"} /\ c.op # "readViews"
  <2>1. /\ rows'.blocked = rows.blocked /\ rows'.labels = rows.labels /\ rows'.tags = rows.tags
        /\ rows'.pn = rows.pn /\ rows'.state = rows.state /\ rows'.chat = rows.chat
    <3>1. CASE c.op \in {"list", "index"}
      <4>1. rows' = [rows EXCEPT !.listed = @ \union {c.id}] \/ rows' = [rows EXCEPT !.index = @ \union {c.id}]
        BY <1>4, <3>1 DEF Written
      <4> QED
        BY <1>1, <4>1 DEF RowsType
    <3>2. CASE c.op \in ChannelOps
      <4>1. \E ch : rows' = [rows EXCEPT !.channel = ch]
        BY <1>4, <3>2 DEF Written, ChannelOps, SetViewCount, IncrementView, RecordReaction
      <4> QED
        BY <1>1, <4>1 DEF RowsType
    <3> QED
      BY <1>4, <3>1, <3>2
  <2> QED
    BY <2>1, AgreesBy
<1>5. CASE rows' = Written(c) /\ c.op = "insertChat"
  <2>1. PICK k, cs : k = c.id /\ cs = [rows.chat EXCEPT ![k].there = TRUE]
    OBVIOUS
  <2>2. k \in Chats
    BY <1>5, <2>1, CallTypes
  <2>3. rows' = [rows EXCEPT !.chat = cs]
    BY <1>5, <2>1 DEF Written, InsertChat
  <2>4. /\ rows'.blocked = rows.blocked /\ rows'.labels = rows.labels /\ rows'.tags = rows.tags
        /\ rows'.pn = rows.pn /\ rows'.state = rows.state /\ rows'.chat = cs
    BY <1>1, <2>3 DEF RowsType
  <2>5. \A q \in Chats : /\ cs[q].pinned = rows.chat[q].pinned /\ cs[q].deleted = rows.chat[q].deleted
                         /\ cs[q].mute = rows.chat[q].mute
    BY <1>1, <2>1, <2>2 DEF ChatRows
  <2> QED
    BY <2>4, <2>5, AgreesBy
<1> QED
  BY <1>2, <1>3, <1>4, <1>5, CallTypes DEF SideOps, ChannelOps

LEMMA BlockedStays ==
  ASSUME EventsShape, NEW c \in Calls, c.op \notin RowOps, rows' = rows \/ rows' = Written(c)
  PROVE  rows'.blocked = rows.blocked
<1>1. rows \in RowsType
  BY FieldsOfRows
<1>2. c.op \in LogOps \union SideOps \union ChannelOps
  BY CallTypes
<1>3. \/ rows' = rows \/ (\E b : rows' = [rows EXCEPT !.listed = b]) \/ (\E b : rows' = [rows EXCEPT !.index = b])
      \/ (\E b : rows' = [rows EXCEPT !.chat = b]) \/ (\E b : rows' = [rows EXCEPT !.channel = b])
  BY <1>2 DEF LogOps, SideOps, ChannelOps, Written, InsertChat, SetViewCount, IncrementView, RecordReaction
<1> QED
  BY <1>1, <1>3 DEF RowsType

\* The sets of redis only grow.
LEMMA Grows ==
  ASSUME EventsShape, NEW c \in Calls, rows' = rows \/ rows' = Written(c)
  PROVE  /\ rows.listed \subseteq rows'.listed /\ rows.index \subseteq rows'.index
         /\ rows' = Written(c) /\ c.op = "list" => c.id \in rows'.listed
         /\ rows' = Written(c) /\ c.op = "index" => c.id \in rows'.index
<1>1. rows \in RowsType
  BY FieldsOfRows
<1>2. CASE c.op = "list"
  BY <1>1, <1>2 DEF Written, RowsType
<1>3. CASE c.op = "index"
  BY <1>1, <1>3 DEF Written, RowsType
<1>4. CASE c.op \notin {"list", "index"}
  <2>1. rows'.listed = rows.listed /\ rows'.index = rows.index
    <3>1. CASE c.op \in {"replace", "wipe", "fill", "block", "unblock", "upsertLabel", "deleteLabel"}
      <4>1. rows' = rows \/ (\E b : rows' = [rows EXCEPT !.blocked = b]) \/ (\E b : rows' = [rows EXCEPT !.labels = b])
        BY <3>1 DEF Written, AddToBlocklist, RemoveFromBlocklist, DeleteLabel
      <4> QED
        BY <1>1, <4>1 DEF RowsType
    <3>2. CASE c.op \in {"associate", "disassociate"}
      <4>1. rows' = rows \/ (\E b : rows' = [rows EXCEPT !.tags = b])
        BY <3>2 DEF Written, SqliteTagged, Tagged, Untagged
      <4> QED
        BY <1>1, <4>1 DEF RowsType
    <3>3. CASE c.op \in {"setLid", "presence"}
      <4>1. \/ rows' = rows \/ (\E b : rows' = [rows EXCEPT !.pn = b]) \/ (\E b : rows' = [rows EXCEPT !.state = b])
            \/ \E b, d : rows' = [rows EXCEPT !.pn = b, !.reverse = d]
        BY <3>3 DEF Written, SetLid, RedisSetLid, RecordPresence
      <4> QED
        BY <1>1, <4>1 DEF RowsType
    <3>4. CASE c.op \in {"insertChat", "updateChat", "upsertChat", "markDeleted"}
      <4>1. rows' = rows \/ (\E b : rows' = [rows EXCEPT !.chat = b])
        BY <3>4 DEF Written, InsertChat, UpdateChat, MongoUpdateChat, RedisUpdateChat, SqliteUpsertChat, MarkChatDeleted
      <4> QED
        BY <1>1, <4>1 DEF RowsType
    <3>5. CASE c.op \in ChannelOps
      <4>1. rows' = rows \/ (\E b : rows' = [rows EXCEPT !.channel = b])
        BY <3>5 DEF Written, ChannelOps, SetViewCount, IncrementView, RecordReaction
      <4> QED
        BY <1>1, <4>1 DEF RowsType
    <3>6. CASE c.op \in LogOps \union {"read"}
      <4>1. rows' = rows
        BY <3>6 DEF Written, LogOps
      <4> QED
        BY <4>1
    <3> QED
      BY <1>4, <3>1, <3>2, <3>3, <3>4, <3>5, <3>6, CallTypes DEF RowOps, SideOps
  <2> QED
    BY <1>4, <2>1
<1> QED
  BY <1>2, <1>3, <1>4

LEMMA GoesRows ==
  ASSUME EventsShape, RowsKnown, NEW i, NEW ok, NEW r, NEW o, Goes(i, ok, r, o)
  PROVE  RowsKnown'
<1> SUFFICES ASSUME sure'.rows
             PROVE  /\ \A j, k \in 1 .. Len(handlers') : Writing(j)' /\ Writing(k)' => j = k
                    /\ \A j \in 1 .. Len(handlers') : Writing(j)' => Agrees(Outcome(handlers[j])', told')
                    /\ (\A j \in 1 .. Len(handlers') : ~Writing(j)') => Agrees(rows', told')
                    /\ \A j \in 1 .. Len(handlers') : handlers'[j][1].op = "fill" => rows'.blocked = {}
                    /\ eventStore' = "redis" =>
                         /\ \A l \in told'.labels : l \in rows'.listed
                              \/ \E j \in 1 .. Len(handlers') : handlers'[j][1] = Call("list", l, None)
                         /\ \A t \in told'.tags : t \in rows'.index
                              \/ \E j \in 1 .. Len(handlers') : handlers'[j][1] = Call("index", t, None)
  BY DEF RowsKnown, Writing
<1> DEFINE h == handlers[i]
           c == h[1]
<1>1. /\ i \in 1 .. Len(handlers) /\ ok \in BOOLEAN /\ h \in Seq(Calls) /\ Proper(h) /\ Begun(h)
      /\ Done(h, ok, sure) /\ Rests(r, h, ok)
      /\ Carried(o, handlers, handlers', i, r) /\ eventStore' = eventStore /\ mirror' = mirror /\ told' = told
  BY DEF Goes
<1>2. /\ c \in Calls /\ (ok => rows' = Written(c)) /\ (~ok => rows' = rows)
      /\ c.op \in {"read", "log", "transition"} \/ (ok /\ ~Misses(c))
      /\ sure.rows
  BY <1>1 DEF Done
<1>3. /\ \A j, k \in 1 .. Len(handlers) : Writing(j) /\ Writing(k) => j = k
      /\ \A j \in 1 .. Len(handlers) : Writing(j) => Agrees(Outcome(handlers[j]), told)
      /\ (\A j \in 1 .. Len(handlers) : ~Writing(j)) => Agrees(rows, told)
      /\ \A j \in 1 .. Len(handlers) : handlers[j][1].op = "fill" => rows.blocked = {}
      /\ eventStore = "redis" =>
           /\ \A l \in told.labels : l \in rows.listed \/ \E j \in 1 .. Len(handlers) : handlers[j][1] = Call("list", l, None)
           /\ \A t \in told.tags : t \in rows.index \/ \E j \in 1 .. Len(handlers) : handlers[j][1] = Call("index", t, None)
  BY <1>1 DEF RowsKnown, Done
<1>4. /\ \A j \in 1 .. Len(handlers') : /\ o[j] \in 1 .. Len(handlers) /\ (o[j] = i => handlers'[j] = r /\ r # <<>>)
                                        /\ o[j] # i => handlers'[j] = handlers[o[j]]
      /\ \A j, k \in 1 .. Len(handlers') : o[j] = o[k] => j = k
      /\ \A k \in 1 .. Len(handlers) : k # i \/ r # <<>> => \E j \in 1 .. Len(handlers') : o[j] = k
  BY <1>1 DEF Carried
<1>5. \A j \in 1 .. Len(handlers) : handlers[j] \in Seq(Calls) /\ Proper(handlers[j]) /\ Begun(handlers[j])
  BY DEF EventsShape
<1>6. c.op \in OpsOf(mirror) /\ (eventStore \in Pools => c.op \notin {"list", "index"})
  <2>1. 1 \in 1 .. Len(h)
    BY <1>1, TailIs DEF Proper
  <2> QED
    BY <1>1, <2>1 DEF Proper
<1>7. \A op, id, to : Call(op, id, to).op = op /\ Call(op, id, to).id = id
  BY DEF Call
<1> HIDE DEF h, c
<1>8. eventStore = "redis" =>
        /\ \A l \in told.labels : l \in rows'.listed \/ \E j \in 1 .. Len(handlers') : handlers'[j][1] = Call("list", l, None)
        /\ \A t \in told.tags : t \in rows'.index \/ \E j \in 1 .. Len(handlers') : handlers'[j][1] = Call("index", t, None)
  <2>1. rows.listed \subseteq rows'.listed /\ rows.index \subseteq rows'.index
        /\ (rows' = Written(c) /\ c.op = "list" => c.id \in rows'.listed)
        /\ (rows' = Written(c) /\ c.op = "index" => c.id \in rows'.index)
    BY <1>2, Grows
  <2>2. c.op \in {"list", "index"} => rows' = Written(c)
    BY <1>2
  <2>3. \A k \in 1 .. Len(handlers) : k # i => \E j \in 1 .. Len(handlers') : handlers'[j][1] = handlers[k][1]
    BY <1>4
  <2>4. handlers[i][1] = c
    BY DEF h, c
  <2>5. ASSUME eventStore = "redis", NEW l \in told.labels, l \notin rows'.listed
        PROVE  \E j \in 1 .. Len(handlers') : handlers'[j][1] = Call("list", l, None)
    <3>1. PICK k \in 1 .. Len(handlers) : handlers[k][1] = Call("list", l, None)
      BY <1>3, <2>1, <2>5
    <3>2. k # i
      BY <1>7, <2>1, <2>2, <2>4, <2>5, <3>1
    <3> QED
      BY <2>3, <3>1, <3>2
  <2>6. ASSUME eventStore = "redis", NEW t \in told.tags, t \notin rows'.index
        PROVE  \E j \in 1 .. Len(handlers') : handlers'[j][1] = Call("index", t, None)
    <3>1. PICK k \in 1 .. Len(handlers) : handlers[k][1] = Call("index", t, None)
      BY <1>3, <2>1, <2>6
    <3>2. k # i
      BY <1>7, <2>1, <2>2, <2>4, <2>6, <3>1
    <3> QED
      BY <2>3, <3>1, <3>2
  <2> QED
    BY <2>5, <2>6
<1>9. CASE c.op \in RowOps
  <2>1. Agrees(Outcome(h), told) /\ \A k \in 1 .. Len(handlers) : k # i => ~Writing(k)
    BY <1>1, <1>3, <1>9 DEF Writing, h, c
  <2>2. c.op = "read" \/ (ok /\ ~Misses(c))
    BY <1>2, <1>9 DEF RowOps
  <2>3. \/ (r = <<>> \/ r[1].op \notin RowOps) /\ Agrees(rows', told)
        \/ /\ r # <<>> /\ r[1].op \in RowOps /\ Agrees(Outcome(r)', told)
           /\ r[1].op = "fill" => rows'.blocked = {}
    BY <1>1, <1>2, <1>9, <2>1, <2>2, WritesOut DEF c
  <2>4. \A j \in 1 .. Len(handlers') : handlers'[j][1].op \in RowOps => o[j] = i /\ handlers'[j] = r /\ r # <<>>
    BY <1>4, <2>1 DEF Writing
  <2>5. \A j, k \in 1 .. Len(handlers') : Writing(j)' /\ Writing(k)' => j = k
    BY <1>4, <2>4 DEF Writing
  <2>6. \A j \in 1 .. Len(handlers') : Writing(j)' => Agrees(Outcome(handlers[j])', told')
    <3> SUFFICES ASSUME NEW j \in 1 .. Len(handlers'), Writing(j)' PROVE Agrees(Outcome(handlers[j])', told')
      OBVIOUS
    <3>1. handlers'[j] = r /\ r # <<>> /\ r[1].op \in RowOps
      BY <2>4 DEF Writing
    <3>2. Outcome(handlers[j])' = Outcome(r)'
      BY <3>1 DEF Outcome
    <3>3. Agrees(Outcome(r)', told)
      BY <2>3, <3>1
    <3> QED
      BY <1>1, <3>2, <3>3
  <2>7. (\A j \in 1 .. Len(handlers') : ~Writing(j)') => Agrees(rows', told')
    <3>1. ASSUME r # <<>>, r[1].op \in RowOps PROVE \E j \in 1 .. Len(handlers') : Writing(j)'
      <4>1. PICK j \in 1 .. Len(handlers') : o[j] = i
        BY <1>1, <1>4, <3>1
      <4> QED
        BY <1>4, <3>1, <4>1 DEF Writing
    <3> QED
      BY <1>1, <2>3, <3>1
  <2>8. \A j \in 1 .. Len(handlers') : handlers'[j][1].op = "fill" => rows'.blocked = {}
    BY <2>3, <2>4 DEF RowOps
  <2> QED
    BY <1>1, <1>8, <2>5, <2>6, <2>7, <2>8
<1>10. CASE c.op \notin RowOps
  <2>1. rows' = rows \/ rows' = Written(c)
    BY <1>2
  <2>2. r # <<>> => r[1].op \notin RowOps
    <3>1. CASE c.op = "readViews"
      BY <1>1, <1>7, <3>1 DEF Rests, RowOps, c
    <3>2. CASE c.op # "readViews"
      <4>1. r # <<>> => r[1].op \in LogOps \/ (Len(h) > 1 /\ r[1] = h[2])
        BY <1>1, <1>10, <3>2 DEF Rests, RowOps, c
      <4>2. Len(h) > 1 => h[2].op \in LogOps \union {"list", "index"}
        <5>1. ASSUME Len(h) > 1 PROVE h[2].op \in LogOps \union {"list", "index"}
          <6>1. 2 \in 2 .. Len(h)
            BY <1>1, <5>1, LenProperties
          <6>2. h[2].op \in LogOps \/ h[2].op \in {"fill", "list", "index"}
            BY <1>1, <6>1 DEF Proper
          <6>3. h[2].op # "fill"
            BY <1>1, <1>10, <5>1 DEF Proper, RowOps, c
          <6> QED
            BY <6>2, <6>3
        <5> QED
          BY <5>1
      <4> QED
        BY <4>1, <4>2 DEF LogOps, RowOps
    <3> QED
      BY <3>1, <3>2
  <2>3. \A j \in 1 .. Len(handlers') : handlers'[j][1].op \in RowOps =>
          handlers'[j] = handlers[o[j]] /\ Writing(o[j]) /\ o[j] \in 1 .. Len(handlers)
    BY <1>4, <2>2 DEF Writing
  <2>4. \A k \in 1 .. Len(handlers) : Writing(k) => k # i
    BY <1>10 DEF Writing, h, c
  <2>5. \A j, k \in 1 .. Len(handlers') : Writing(j)' /\ Writing(k)' => j = k
    BY <1>3, <1>4, <2>3 DEF Writing
  <2>6. \A j \in 1 .. Len(handlers') : Writing(j)' => Agrees(Outcome(handlers[j])', told')
    <3> SUFFICES ASSUME NEW j \in 1 .. Len(handlers'), Writing(j)' PROVE Agrees(Outcome(handlers[j])', told')
      OBVIOUS
    <3>1. PICK g : g = handlers[o[j]]
      OBVIOUS
    <3>2. handlers'[j] = g /\ g[1].op \in RowOps /\ o[j] \in 1 .. Len(handlers)
      BY <2>3, <3>1 DEF Writing
    <3>3. g \in Seq(Calls) /\ Proper(g) /\ Begun(g) /\ Agrees(Outcome(g), told)
      BY <1>3, <1>5, <2>3, <3>1, <3>2 DEF Writing
    <3>4. Agrees(Outcome(g)', told)
      BY <1>1, <1>2, <1>6, <1>10, <2>1, <3>2, <3>3, OutcomeStays
    <3>5. Outcome(handlers[j])' = Outcome(g)'
      BY <3>2 DEF Outcome
    <3> QED
      BY <1>1, <3>4, <3>5
  <2>7. (\A j \in 1 .. Len(handlers') : ~Writing(j)') => Agrees(rows', told')
    <3>1. ASSUME NEW k \in 1 .. Len(handlers), Writing(k) PROVE \E j \in 1 .. Len(handlers') : Writing(j)'
      <4>1. PICK j \in 1 .. Len(handlers') : o[j] = k
        BY <1>4, <2>4, <3>1
      <4> QED
        BY <1>4, <2>4, <3>1, <4>1 DEF Writing
    <3>2. (\A k \in 1 .. Len(handlers) : ~Writing(k)) => Agrees(rows', told)
      BY <1>2, <1>3, <1>10, <2>1, QuietAgrees
    <3> QED
      BY <1>1, <3>1, <3>2
  <2>8. \A j \in 1 .. Len(handlers') : handlers'[j][1].op = "fill" => rows'.blocked = {}
    <3> SUFFICES ASSUME NEW j \in 1 .. Len(handlers'), handlers'[j][1].op = "fill" PROVE rows'.blocked = {}
      OBVIOUS
    <3>1. handlers'[j] = handlers[o[j]] /\ o[j] \in 1 .. Len(handlers)
      BY <2>3 DEF RowOps
    <3>2. rows.blocked = {}
      BY <1>3, <3>1
    <3> QED
      BY <1>2, <1>10, <2>1, <3>2, BlockedStays
  <2> QED
    BY <1>1, <1>8, <2>5, <2>6, <2>7, <2>8
<1> QED
  BY <1>9, <1>10

-----------------------------------------------------------------------------
(* What a call keeps *)

LEMMA RestOps ==
  ASSUME NEW h \in Seq(Calls), Proper(h), NEW ok, NEW r, Rests(r, h, ok), r # <<>>
  PROVE  /\ r[1].op \in LogOps \union {"fill", "list", "index", "replace", "wipe", "putViews"}
         /\ r[1].op \in {"replace", "wipe"} <=> h[1].op = "read"
         /\ r[1].op = "putViews" <=> h[1].op = "readViews"
         /\ r[1].op = "fill" => h[1].op = "wipe"
         /\ r[1].op = "list" => h[1].op = "upsertLabel"
         /\ r[1].op = "index" => h[1].op = "associate"
<1>1. CASE h[1].op = "read"
  <2>1. r[1].op \in {"replace", "wipe"}
    <3>1. CASE ok
      BY <1>1, <3>1 DEF Rests, DiffFrom
    <3>2. CASE ~ok
      BY <1>1, <3>2 DEF Rests, DiffFrom
    <3> QED
      BY <3>1, <3>2
  <2> QED
    BY <1>1, <2>1
<1>2. CASE h[1].op = "readViews"
  <2>1. r[1].op = "putViews"
    <3>1. r = <<Call("putViews", None, h[1].to)>>
      BY <1>2 DEF Rests
    <3>2. r[1] = Call("putViews", None, h[1].to)
      BY <3>1
    <3> QED
      BY <3>2 DEF Call
  <2> QED
    BY <1>2, <2>1
<1>3. CASE h[1].op \notin {"read", "readViews"}
  <2>1. r[1].op \in LogOps \/ (Len(h) > 1 /\ r[1] = h[2])
    BY <1>3 DEF Rests
  <2>2. CASE r[1].op \in LogOps
    BY <1>3, <2>2 DEF LogOps
  <2>3. CASE Len(h) > 1 /\ r[1] = h[2] /\ r[1].op \notin LogOps
    <3>1. 2 \in 2 .. Len(h)
      BY <2>3, LenProperties
    <3>2. h[2].op \in {"fill", "list", "index"}
      BY <2>3, <3>1 DEF Proper
    <3> QED
      BY <1>3, <2>3, <3>2 DEF Proper
  <2> QED
    BY <2>1, <2>2, <2>3
<1> QED
  BY <1>1, <1>2, <1>3

LEMMA GoesInTurn ==
  ASSUME EventsShape, OneEvent, LogsInOrder, NEW i, NEW ok, NEW r, NEW o, Goes(i, ok, r, o)
  PROVE  OneEvent' /\ LogsInOrder'
<1>1. /\ i \in 1 .. Len(handlers) /\ handlers[i] \in Seq(Calls) /\ Proper(handlers[i]) /\ (eventStore \in InOrder => i = 1)
      /\ Done(handlers[i], ok, sure) /\ Rests(r, handlers[i], ok)
      /\ Len(handlers') = IF r = <<>> THEN Len(handlers) - 1 ELSE Len(handlers)
      /\ Carried(o, handlers, handlers', i, r) /\ eventStore' = eventStore /\ mirror' = mirror
      /\ (r = <<>> \/ eventStore \in Pools => InTurn(o, Len(handlers')))
  BY DEF Goes
<1>2. (sure'.rows => sure.rows) /\ (sure'.timeline => sure.timeline) /\ handlers[i][1] \in Calls
  BY <1>1 DEF Done
<1>3. /\ \A j \in 1 .. Len(handlers') : /\ o[j] \in 1 .. Len(handlers) /\ (o[j] = i => handlers'[j] = r /\ r # <<>>)
                                        /\ o[j] # i => handlers'[j] = handlers[o[j]]
      /\ \A j, k \in 1 .. Len(handlers') : o[j] = o[k] => j = k
  BY <1>1 DEF Carried
<1>4. Len(handlers) \in Nat /\ Len(handlers') \in Nat /\ Len(handlers') <= Len(handlers)
      /\ (r # <<>> => Len(handlers') = Len(handlers))
      /\ (r = <<>> => Len(handlers') = Len(handlers) - 1)
  <2>1. Len(handlers) \in Nat /\ Len(handlers) >= 1
    BY <1>1 DEF EventsShape
  <2> QED
    BY <1>1, <2>1
<1>5. OneEvent'
  <2> SUFFICES ASSUME eventStore \in Pools, mirror # "channel", sure.rows \/ sure.timeline
               PROVE  /\ Len(handlers') <= 2
                      /\ Len(handlers') = 2 => handlers'[1][1].op = "insertChat" /\ handlers'[2][1].op # "insertChat"
    BY <1>1, <1>2 DEF OneEvent
  <2>1. /\ Len(handlers) <= 2
        /\ Len(handlers) = 2 => handlers[1][1].op = "insertChat" /\ handlers[2][1].op # "insertChat"
    BY DEF OneEvent
  <2>2. ASSUME Len(handlers') = 2
        PROVE  handlers'[1][1].op = "insertChat" /\ handlers'[2][1].op # "insertChat"
    <3>1. Len(handlers) = 2 /\ r # <<>> /\ 1 \in 1 .. Len(handlers') /\ 2 \in 1 .. Len(handlers')
      <4>1. Len(handlers) = 2
        BY <1>4, <2>1, <2>2
      <4>2. r # <<>>
        BY <1>4, <2>2, <4>1
      <4> QED
        BY <2>2, <4>1, <4>2
    <3>2. o[1] < o[2] /\ o[1] \in 1 .. 2 /\ o[2] \in 1 .. 2
      BY <1>1, <1>3, <3>1 DEF InTurn
    <3>3. o[1] = 1 /\ o[2] = 2
      BY <3>2
    <3>4. i # 1
      <4>1. handlers[1][1].op = "insertChat"
        BY <2>1, <3>1
      <4> QED
        BY <1>1, <3>1, <4>1 DEF Proper, Rests
    <3>5. i = 2 /\ handlers'[1] = handlers[1] /\ handlers'[2] = r
      BY <1>1, <1>3, <3>1, <3>3, <3>4
    <3>6. r[1].op # "insertChat"
      BY <1>1, <3>1, RestOps DEF LogOps
    <3> QED
      BY <2>1, <3>1, <3>5, <3>6
  <2> QED
    BY <1>4, <2>1, <2>2
<1>6. LogsInOrder'
  <2> SUFFICES ASSUME eventStore \in InOrder, mirror # "channel", sure.timeline,
                      NEW j \in 1 .. Len(handlers'), NEW k \in 1 .. Len(handlers'), j < k
               PROVE  Len(handlers'[j]) = 1 /\ handlers'[j][1].op \in LogOps
    BY <1>1, <1>2 DEF LogsInOrder
  <2>1. \A p, q \in 1 .. Len(handlers) : p < q => Len(handlers[p]) = 1 /\ handlers[p][1].op \in LogOps
    BY DEF LogsInOrder
  <2>2. i = 1 /\ Len(handlers) >= 2 /\ 1 \in 1 .. Len(handlers) /\ 2 \in 1 .. Len(handlers)
    BY <1>1, <1>4
  <2>3. Len(handlers[1]) = 1 /\ handlers[1][1].op \in LogOps
    BY <2>1, <2>2
  <2>4. r = <<>>
    BY <1>1, <2>2, <2>3 DEF Rests, LogOps
  <2>5. o[j] < o[k] /\ o[j] \in 1 .. Len(handlers) /\ o[k] \in 1 .. Len(handlers) /\ handlers'[j] = handlers[o[j]]
    BY <1>1, <1>3, <2>4 DEF InTurn
  <2> QED
    BY <2>1, <2>5
<1> QED
  BY <1>5, <1>6

\* A call changes one field of the rows, or redis' two maps of LIDs.
Changed(c, w) ==
  \/ w = rows
  \/ c.op \in {"replace", "wipe", "fill", "block", "unblock"} /\ \E b : w = [rows EXCEPT !.blocked = b]
  \/ c.op \in {"upsertLabel", "deleteLabel"} /\ \E b : w = [rows EXCEPT !.labels = b]
  \/ c.op = "list" /\ \E b : w = [rows EXCEPT !.listed = b]
  \/ c.op \in {"associate", "disassociate"} /\ \E b : w = [rows EXCEPT !.tags = b]
  \/ c.op = "index" /\ \E b : w = [rows EXCEPT !.index = b]
  \/ c.op = "setLid" /\ ((\E b : w = [rows EXCEPT !.pn = b]) \/ \E b, d : w = [rows EXCEPT !.pn = b, !.reverse = d])
  \/ c.op = "presence" /\ \E b : w = [rows EXCEPT !.state = b]
  \/ c.op \in {"insertChat", "updateChat", "upsertChat", "markDeleted"} /\ \E b : w = [rows EXCEPT !.chat = b]
  \/ c.op \in ChannelOps /\ \E b : w = [rows EXCEPT !.channel = b]

LEMMA WrittenChanges ==
  ASSUME NEW c \in Calls
  PROVE  Changed(c, Written(c))
<1>1. CASE c.op \in {"replace", "wipe", "fill", "block", "unblock"}
  BY <1>1 DEF Changed, Written, AddToBlocklist, RemoveFromBlocklist
<1>2. CASE c.op \in {"upsertLabel", "deleteLabel"}
  BY <1>2 DEF Changed, Written, DeleteLabel
<1>3. CASE c.op \in {"list", "index", "presence"}
  BY <1>3 DEF Changed, Written, RecordPresence
<1>4. CASE c.op \in {"associate", "disassociate"}
  BY <1>4 DEF Changed, Written, SqliteTagged, Tagged, Untagged
<1>5. CASE c.op = "setLid"
  BY <1>5 DEF Changed, Written, SetLid, RedisSetLid
<1>6. CASE c.op \in {"insertChat", "upsertChat", "markDeleted"}
  BY <1>6 DEF Changed, Written, InsertChat, SqliteUpsertChat, MarkChatDeleted
<1>7. CASE c.op = "updateChat"
  <2>1. Written(c) = rows \/ \E b : Written(c) = [rows EXCEPT !.chat = b]
    BY <1>7 DEF Written, UpdateChat, MongoUpdateChat, RedisUpdateChat
  <2> QED
    BY <1>7, <2>1 DEF Changed
<1>8. CASE c.op \in ChannelOps
  BY <1>8 DEF Changed, ChannelOps, Written, SetViewCount, IncrementView, RecordReaction
<1>9. CASE c.op \in LogOps \union {"read"}
  <2>1. Written(c) = rows
    BY <1>9 DEF Written, LogOps
  <2> QED
    BY <2>1 DEF Changed
<1> QED
  BY <1>1, <1>2, <1>3, <1>4, <1>5, <1>6, <1>7, <1>8, <1>9, CallTypes DEF RowOps, SideOps

\* Redis' own map of LIDs has an entry for each contact with one.
LEMMA ReversedStays ==
  ASSUME EventsShape, Reversed, NEW c \in Calls, rows' = rows \/ rows' = Written(c), UNCHANGED eventStore
  PROVE  Reversed'
<1>1. rows \in RowsType
  BY FieldsOfRows
<1>2. CASE rows'.pn = rows.pn /\ rows'.reverse = rows.reverse
  BY <1>2 DEF Reversed
<1>3. CASE rows' = Written(c) /\ c.op = "setLid" /\ eventStore = "redis"
  <2>1. c.id \in Lids /\ c.to \in Contacts
    BY <1>3, CallTypes
  <2>2. rows' = [rows EXCEPT !.pn[c.id] = c.to, !.reverse[c.to] = c.id]
    BY <1>3 DEF Written, RedisSetLid
  <2>3. rows'.pn = [rows.pn EXCEPT ![c.id] = c.to] /\ rows'.reverse = [rows.reverse EXCEPT ![c.to] = c.id]
    BY <1>1, <2>2 DEF RowsType
  <2>4. rows.pn \in [Lids -> Contacts \union {None}] /\ rows.reverse \in [Contacts -> Lids \union {None}]
    BY <1>1 DEF RowsType
  <2>5. None \notin Contacts /\ None \notin Lids
    BY EventRowsAssumption
  <2>6. \A l \in Lids : rows.pn[l] # None => rows.reverse[rows.pn[l]] # None
    BY <1>3 DEF Reversed
  <2>7. \A l \in Lids : rows'.pn[l] # None => rows'.reverse[rows'.pn[l]] # None
    <3> TAKE l \in Lids
    <3> HAVE rows'.pn[l] # None
    <3>1. CASE l = c.id
      <4>1. rows'.pn[l] = c.to /\ rows'.reverse[c.to] = c.id
        BY <2>1, <2>3, <2>4, <3>1
      <4> QED
        BY <2>1, <2>5, <4>1
    <3>2. CASE l # c.id
      <4>1. rows'.pn[l] = rows.pn[l] /\ rows.pn[l] \in Contacts
        BY <2>3, <2>4, <3>2
      <4>2. rows'.reverse[rows.pn[l]] = IF rows.pn[l] = c.to THEN c.id ELSE rows.reverse[rows.pn[l]]
        BY <2>3, <2>4, <4>1
      <4> QED
        BY <2>1, <2>5, <2>6, <4>1, <4>2
    <3> QED
      BY <3>1, <3>2
  <2> QED
    BY <2>7 DEF Reversed
<1>4. CASE eventStore # "redis"
  BY <1>4 DEF Reversed
<1>5. CASE rows' = Written(c) /\ c.op # "setLid"
  <2>1. Changed(c, rows')
    BY <1>5, WrittenChanges
  <2>2. rows'.pn = rows.pn /\ rows'.reverse = rows.reverse
    BY <1>1, <1>5, <2>1 DEF RowsType, Changed
  <2> QED
    BY <1>2, <2>2
<1>6. CASE rows' = rows
  BY <1>2, <1>6
<1> QED
  BY <1>3, <1>4, <1>5, <1>6

\* The calls of one mirror do not touch the others.
LEMMA UntouchedStays ==
  ASSUME EventsShape, Untouched, NEW c \in Calls, c.op \in OpsOf(mirror), rows' = rows \/ rows' = Written(c),
         UNCHANGED mirror, told' \in ToldType,
         mirror = "blocked" => \E b : told' = [told EXCEPT !.blocked = b],
         mirror # "channel" => told'.channel = told.channel
  PROVE  Untouched'
<1>1. rows \in RowsType /\ told \in ToldType
  BY FieldsOfRows DEF EventsShape
<1>2. mirror \in {"blocked", "labels", "lids", "presence", "chats", "channel"}
  BY DEF EventsShape
<1>3. ASSUME mirror = "blocked"
      PROVE  Agrees([rows' EXCEPT !.blocked = told'.blocked], told') /\ told'.labels = {} /\ told'.tags = {}
  <2>1. PICK b : told' = [told EXCEPT !.blocked = b]
    BY <1>3
  <2>2. \E a : rows' = [rows EXCEPT !.blocked = a]
    <3>1. c.op \in {"read", "replace", "wipe", "fill", "block", "unblock", "log"}
      BY <1>3 DEF OpsOf
    <3>2. rows = [rows EXCEPT !.blocked = rows.blocked]
      BY <1>1 DEF RowsType
    <3> QED
      BY <3>1, <3>2 DEF Written, AddToBlocklist, RemoveFromBlocklist
  <2>3. PICK a : rows' = [rows EXCEPT !.blocked = a]
    BY <2>2
  <2>4. [rows' EXCEPT !.blocked = b] = [rows EXCEPT !.blocked = b]
    BY <1>1, <2>3 DEF RowsType
  <2>5. /\ told'.blocked = b /\ told'.labels = told.labels /\ told'.tags = told.tags /\ told'.pn = told.pn
        /\ told'.state = told.state /\ told'.chat = told.chat
    BY <1>1, <2>1 DEF ToldType
  <2>6. Agrees([rows EXCEPT !.blocked = told.blocked], told) /\ told.labels = {} /\ told.tags = {}
    BY <1>3 DEF Untouched
  <2>7. Agrees([rows EXCEPT !.blocked = b], told')
    <3>1. PICK p, q : p = [rows EXCEPT !.blocked = told.blocked] /\ q = [rows EXCEPT !.blocked = b]
      OBVIOUS
    <3>2. /\ q.blocked = b /\ q.labels = p.labels /\ q.tags = p.tags /\ q.pn = p.pn /\ q.state = p.state /\ q.chat = p.chat
      BY <1>1, <3>1 DEF RowsType
    <3>3. Agrees(p, told)
      BY <2>6, <3>1
    <3>4. Agrees(q, told')
      BY <2>5, <3>2, <3>3 DEF Agrees
    <3> QED
      BY <3>1, <3>4
  <2> QED
    BY <2>4, <2>5, <2>6, <2>7
<1>4. ASSUME mirror # "channel" PROVE rows'.channel = NoViews /\ told'.channel = NoViews
  <2>1. rows.channel = NoViews /\ told.channel = NoViews
    BY <1>4 DEF Untouched
  <2>2. c.op \notin ChannelOps
    BY <1>2, <1>4 DEF OpsOf, ChannelOps
  <2>3. Changed(c, rows')
    <3>1. CASE rows' = rows
      BY <3>1 DEF Changed
    <3>2. CASE rows' = Written(c)
      BY <3>2, WrittenChanges
    <3> QED
      BY <3>1, <3>2
  <2>4. rows'.channel = rows.channel
    BY <1>1, <2>2, <2>3 DEF RowsType, Changed
  <2> QED
    BY <1>4, <2>1, <2>4
<1> QED
  BY <1>3, <1>4 DEF Untouched

LEMMA GoesAside ==
  ASSUME EventsShape, Reversed, Untouched, NEW i, NEW ok, NEW r, NEW o, Goes(i, ok, r, o)
  PROVE  Reversed' /\ Untouched'
<1>1. /\ handlers[i] \in Seq(Calls) /\ Proper(handlers[i]) /\ ok \in BOOLEAN /\ Done(handlers[i], ok, sure)
      /\ eventStore' = eventStore /\ mirror' = mirror /\ told' = told
  BY DEF Goes
<1>2. handlers[i][1] \in Calls /\ (rows' = rows \/ rows' = Written(handlers[i][1]))
  BY <1>1 DEF Done
<1>3. handlers[i][1].op \in OpsOf(mirror)
  <2>1. 1 \in 1 .. Len(handlers[i])
    BY <1>1, TailIs DEF Proper
  <2> QED
    BY <1>1, <2>1 DEF Proper
<1>4. told' \in ToldType /\ told' = [told EXCEPT !.blocked = told.blocked]
  BY <1>1 DEF EventsShape, ToldType
<1> QED
  BY <1>1, <1>2, <1>3, <1>4, ReversedStays, UntouchedStays

-----------------------------------------------------------------------------
(* The timeline after a call *)

\* The i-th row of tl is the last one of what it is about.
LastIn(tl, i) == \A k \in i + 1 .. Len(tl) : tl[k][1] # tl[i][1]

LEMMA LastIs ==
  ASSUME EventsShape
  PROVE  \A i : IsLast(i) <=> LastIn(timeline, i)
<1>1. Len(timeline) \in Nat
  BY DEF EventsShape
<1>2. Len(timeline) + 1 - 1 = Len(timeline)
  BY <1>1
<1> QED
  BY <1>2 DEF IsLast, NoneBetween, LastIn

\* new is tl and then one row, of y.
Grown(tl, new, y, w) ==
  /\ Len(tl) \in Nat /\ Len(new) = Len(tl) + 1 /\ new[Len(tl) + 1] = <<y, w>>
  /\ \A i \in 1 .. Len(tl) : new[i] = tl[i]
  /\ LastIn(new, Len(tl) + 1)
  /\ \A i \in 1 .. Len(tl) : LastIn(new, i) <=> LastIn(tl, i) /\ tl[i][1] # y

LEMMA LastAppended ==
  ASSUME NEW tl, NEW y, NEW w, NEW n \in Nat, n = Len(tl), NEW new,
         Len(new) = n + 1, new[n + 1] = <<y, w>>, \A i \in 1 .. n : new[i] = tl[i]
  PROVE  Grown(tl, new, y, w)
<1>2. LastIn(new, n + 1)
  BY DEF LastIn
<1>3. ASSUME NEW i \in 1 .. n, LastIn(new, i) PROVE LastIn(tl, i) /\ tl[i][1] # y
  <2>1. \A k \in i + 1 .. n : k \in i + 1 .. n + 1 /\ k \in 1 .. n
    OBVIOUS
  <2>2. n + 1 \in i + 1 .. n + 1
    OBVIOUS
  <2>3. \A k \in i + 1 .. n + 1 : new[k][1] # new[i][1]
    BY <1>3 DEF LastIn
  <2>4. LastIn(tl, i)
    BY <2>1, <2>3 DEF LastIn
  <2>5. new[n + 1][1] # new[i][1] /\ new[n + 1][1] = y
    BY <2>2, <2>3
  <2> QED
    BY <2>4, <2>5
<1>4. ASSUME NEW i \in 1 .. n, LastIn(tl, i), tl[i][1] # y PROVE LastIn(new, i)
  <2>1. \A k \in i + 1 .. n + 1 : k = n + 1 \/ (k \in i + 1 .. n /\ k \in 1 .. n)
    OBVIOUS
  <2> QED
    BY <1>4, <2>1 DEF LastIn
<1> QED
  BY <1>2, <1>3, <1>4 DEF Grown

LEMMA RowOfLog ==
  ASSUME NEW c \in Calls, c.op \in LogOps
  PROVE  <<c.id, c.to>> \in LoggedIds \X (BOOLEAN \union Presences)
<1>1. c.id \in LoggedIds /\ c.to \in BOOLEAN \union Presences
  BY CallTypes
<1> QED
  BY <1>1

LEMMA LogAppended ==
  ASSUME EventsShape, NEW c \in Calls, c.op \in LogOps, timeline' = Append(timeline, <<c.id, c.to>>)
  PROVE  Grown(timeline, timeline', c.id, c.to)
<1>1. PICK y, w : y = c.id /\ w = c.to
  OBVIOUS
<1>2. PICK S, n : S = LoggedIds \X (BOOLEAN \union Presences) /\ n = Len(timeline)
  OBVIOUS
<1>3. timeline \in Seq(S) /\ <<y, w>> \in S /\ n \in Nat
  BY <1>1, <1>2, RowOfLog DEF EventsShape
<1>4. timeline' = Append(timeline, <<y, w>>)
  BY <1>1
<1>5. Len(timeline') = n + 1 /\ timeline'[n + 1] = <<y, w>> /\ \A i \in 1 .. n : timeline'[i] = timeline[i]
  BY <1>2, <1>3, <1>4, AppendProperties
<1>6. Grown(timeline, timeline', y, w)
  BY <1>2, <1>3, <1>5, LastAppended
<1> QED
  BY <1>1, <1>6

LEMMA LastUnique ==
  ASSUME NEW tl, Len(tl) \in Nat, NEW i \in 1 .. Len(tl), NEW j \in 1 .. Len(tl), tl[i][1] = tl[j][1],
         LastIn(tl, i), LastIn(tl, j)
  PROVE  i = j
<1>1. i < j => j \in i + 1 .. Len(tl)
  OBVIOUS
<1>2. j < i => i \in j + 1 .. Len(tl)
  OBVIOUS
<1>3. i < j \/ j < i \/ i = j
  OBVIOUS
<1> QED
  BY <1>1, <1>2, <1>3 DEF LastIn

\* What a call adds to the timeline.
LEMMA Adds ==
  ASSUME EventsShape, NEW h \in Seq(Calls), Proper(h), NEW ok \in BOOLEAN, NEW s, Done(h, ok, s), UNCHANGED mirror,
         sure'.timeline \/ (mirror = "presence" /\ sure'.steady)
  PROVE  /\ ok /\ (h[1].op = "log" \/ Transition(h[1])) => timeline' = Append(timeline, <<h[1].id, h[1].to>>)
         /\ ~(ok /\ (h[1].op = "log" \/ Transition(h[1]))) => timeline' = timeline
<1>1. timeline' = Logged(IF ok /\ (h[1].op = "log" \/ Transition(h[1]))
                           THEN Append(timeline, <<h[1].id, h[1].to>>) ELSE timeline, sure')
  BY DEF Done
<1>2. \A tl : tl = Logged(tl, sure') \/ ~(sure'.timeline \/ (mirror = "presence" /\ sure'.steady))
  BY DEF Logged
<1>3. timeline' = IF ok /\ (h[1].op = "log" \/ Transition(h[1]))
                    THEN Append(timeline, <<h[1].id, h[1].to>>) ELSE timeline
  <2>1. PICK tl : tl = IF ok /\ (h[1].op = "log" \/ Transition(h[1]))
                         THEN Append(timeline, <<h[1].id, h[1].to>>) ELSE timeline
    OBVIOUS
  <2>2. timeline' = Logged(tl, sure')
    BY <1>1, <2>1
  <2>3. Logged(tl, sure') = tl
    BY <1>2
  <2> QED
    BY <2>1, <2>2, <2>3
<1> QED
  BY <1>3

\* LastKnown, with the rows of the timeline that are the last of something.
KnownIn(tl, ll, su) ==
  /\ su.timeline \/ su.steady =>
       \A c \in Contacts : ll[c] # None => \E i \in 1 .. Len(tl) : tl[i] = <<c, ll[c]>> /\ LastIn(tl, i)
  /\ su.steady => \A c \in Contacts : ll[c] = None => \A i \in 1 .. Len(tl) : tl[i][1] # c
  /\ su.steady => \A i, j \in 1 .. Len(tl) :
       i < j /\ tl[i][1] = tl[j][1] /\ (\A k \in i + 1 .. j - 1 : tl[k][1] # tl[i][1]) => tl[i][2] # tl[j][2]

LEMMA KnownIs ==
  ASSUME EventsShape
  PROVE  LastKnown <=> (mirror = "presence" => KnownIn(timeline, lastLogged, sure))
<1>1. \A i : IsLast(i) <=> LastIn(timeline, i)
  BY LastIs
<1> QED
  BY <1>1 DEF LastKnown, KnownIn, LogSteady, NoneBetween

LEMMA KnownNext ==
  ASSUME Len(timeline') \in Nat
  PROVE  LastKnown' <=> (mirror' = "presence" => KnownIn(timeline', lastLogged', sure'))
<1>1. Len(timeline') + 1 - 1 = Len(timeline')
  OBVIOUS
<1>2. \A i : IsLast(i)' <=> LastIn(timeline', i)
  BY <1>1 DEF IsLast, NoneBetween, LastIn
<1> QED
  BY <1>2 DEF LastKnown, KnownIn, LogSteady, NoneBetween

\* presence.update knows the last row of a contact that it has logged.
LEMMA DoneKnown ==
  ASSUME EventsShape, LastKnown, NEW h \in Seq(Calls), Proper(h), NEW ok \in BOOLEAN, NEW s, Done(h, ok, s),
         (s.timeline => sure.timeline) /\ (s.steady => sure.steady), UNCHANGED mirror
  PROVE  LastKnown'
<1>1. /\ timeline' \in Seq(LoggedIds \X (BOOLEAN \union Presences))
      /\ lastLogged' \in [Contacts -> Presences \union {None}]
  BY DoneShape
<1> SUFFICES ASSUME mirror = "presence" PROVE KnownIn(timeline', lastLogged', sure')
  BY <1>1, KnownNext
<1> DEFINE c == h[1]
           n == Len(timeline)
<1>2. KnownIn(timeline, lastLogged, sure)
  BY KnownIs
<1>3. c \in Calls /\ (sure'.timeline => sure.timeline /\ ok) /\ (sure'.steady => sure.steady /\ (ok \/ c.op # "transition"))
      /\ lastLogged' = IF Transition(c) THEN [lastLogged EXCEPT ![c.id] = c.to] ELSE lastLogged
  BY DEF Done
<1>4. c.op \in {"presence", "transition"}
  <2>1. 1 \in 1 .. Len(h)
    BY TailIs DEF Proper
  <2> QED
    BY <2>1 DEF Proper, OpsOf
<1> SUFFICES ASSUME sure'.timeline \/ sure'.steady PROVE KnownIn(timeline', lastLogged', sure')
  BY DEF KnownIn
<1>5. /\ ok /\ (c.op = "log" \/ Transition(c)) => timeline' = Append(timeline, <<c.id, c.to>>)
      /\ ~(ok /\ (c.op = "log" \/ Transition(c))) => timeline' = timeline
  BY Adds
<1>6. Transition(c) => c.op = "transition" /\ lastLogged[c.id] # c.to
  BY DEF Transition
<1>7. CASE Transition(c)
  <2>1. ok /\ timeline' = Append(timeline, <<c.id, c.to>>) /\ lastLogged' = [lastLogged EXCEPT ![c.id] = c.to]
    BY <1>3, <1>5, <1>6, <1>7
  <2>2. c.id \in Contacts /\ c.to \in Presences /\ <<c.id, c.to>> \in LoggedIds \X (BOOLEAN \union Presences)
    BY <1>3, <1>6, <1>7, CallTypes, RowOfLog DEF LogOps
  <2>3. /\ n \in Nat /\ Len(timeline') = n + 1 /\ timeline'[n + 1] = <<c.id, c.to>>
        /\ \A i \in 1 .. n : timeline'[i] = timeline[i]
        /\ LastIn(timeline', n + 1)
        /\ \A i \in 1 .. n : LastIn(timeline', i) <=> LastIn(timeline, i) /\ timeline[i][1] # c.id
    <3>1. c.op \in LogOps /\ c \in Calls
      BY <1>3, <1>6, <1>7 DEF LogOps
    <3>2. Grown(timeline, timeline', c.id, c.to)
      BY <2>1, <3>1, LogAppended
    <3> QED
      BY <3>2 DEF Grown
  <2>4. lastLogged \in [Contacts -> Presences \union {None}]
    BY DEF EventsShape
  <2> HIDE DEF n, c
  <2>5. \A d \in Contacts : lastLogged'[d] # None => \E i \in 1 .. Len(timeline') : timeline'[i] = <<d, lastLogged'[d]>> /\ LastIn(timeline', i)
    <3> TAKE d \in Contacts
    <3> HAVE lastLogged'[d] # None
    <3>1. CASE d = c.id
      <4>1. timeline'[n + 1] = <<d, lastLogged'[d]>> /\ n + 1 \in 1 .. Len(timeline')
        BY <2>1, <2>2, <2>3, <2>4, <3>1
      <4> QED
        BY <2>3, <4>1
    <3>2. CASE d # c.id
      <4>1. lastLogged'[d] = lastLogged[d]
        BY <2>1, <2>2, <2>4, <3>2
      <4>2. PICK i \in 1 .. n : timeline[i] = <<d, lastLogged[d]>> /\ LastIn(timeline, i)
        BY <1>2, <1>3, <4>1 DEF KnownIn, n
      <4>3. timeline[i][1] = d
        BY <4>2
      <4>4. LastIn(timeline', i) /\ timeline'[i] = timeline[i] /\ i \in 1 .. Len(timeline')
        BY <2>3, <3>2, <4>2, <4>3
      <4> QED
        BY <4>1, <4>2, <4>4
    <3> QED
      BY <3>1, <3>2
  <2>6. ASSUME sure'.steady
        PROVE  \A d \in Contacts : lastLogged'[d] = None => \A i \in 1 .. Len(timeline') : timeline'[i][1] # d
    <3> TAKE d \in Contacts
    <3> HAVE lastLogged'[d] = None
    <3>1. c.to # None
      BY <2>2, EventRowsAssumption
    <3>2. d # c.id /\ lastLogged[d] = None
      BY <2>1, <2>2, <2>4, <3>1
    <3>3. \A i \in 1 .. n : timeline[i][1] # d
      BY <1>2, <1>3, <2>6, <3>2 DEF KnownIn, n
    <3>4. timeline'[n + 1][1] = c.id
      BY <2>3
    <3> TAKE i \in 1 .. Len(timeline')
    <3>5. i = n + 1 \/ i \in 1 .. n
      BY <2>3
    <3> QED
      BY <2>3, <3>2, <3>3, <3>4, <3>5
  <2>7. ASSUME sure'.steady, NEW i \in 1 .. Len(timeline'), NEW j \in 1 .. Len(timeline'), i < j,
               timeline'[i][1] = timeline'[j][1], \A k \in i + 1 .. j - 1 : timeline'[k][1] # timeline'[i][1]
        PROVE  timeline'[i][2] # timeline'[j][2]
    <3>1. i \in 1 .. n /\ (j = n + 1 \/ j \in 1 .. n)
      BY <2>3, <2>7
    <3>2. CASE j \in 1 .. n
      <4>1. \A k \in i + 1 .. j - 1 : k \in 1 .. n /\ timeline[k][1] # timeline[i][1]
        BY <2>3, <2>7, <3>1, <3>2
      <4>2. timeline[i][1] = timeline[j][1] /\ timeline'[i] = timeline[i] /\ timeline'[j] = timeline[j]
        BY <2>3, <2>7, <3>1, <3>2
      <4>3. \A p, q \in 1 .. n :
              p < q /\ timeline[p][1] = timeline[q][1] /\ (\A k \in p + 1 .. q - 1 : timeline[k][1] # timeline[p][1])
                => timeline[p][2] # timeline[q][2]
        BY <1>2, <1>3, <2>7 DEF KnownIn, n
      <4> QED
        BY <2>7, <3>1, <3>2, <4>1, <4>2, <4>3
    <3>3. CASE j = n + 1
      <4>1. timeline'[j] = <<c.id, c.to>> /\ timeline'[i] = timeline[i]
        BY <2>3, <3>1, <3>3
      <4>2. timeline[i][1] = c.id
        BY <2>7, <4>1
      <4>3. LastIn(timeline, i)
        <5>1. \A k \in i + 1 .. n : k \in i + 1 .. j - 1 /\ k \in 1 .. n
          BY <2>3, <3>1, <3>3
        <5>2. \A k \in i + 1 .. n : timeline[k][1] # timeline[i][1]
          BY <2>3, <2>7, <4>1, <5>1
        <5> QED
          BY <5>2 DEF LastIn, n
      <4>4. lastLogged[c.id] # None
        BY <1>2, <1>3, <2>2, <2>7, <3>1, <4>2 DEF KnownIn, n
      <4>5. PICK p \in 1 .. n : timeline[p] = <<c.id, lastLogged[c.id]>> /\ LastIn(timeline, p)
        BY <1>2, <1>3, <2>2, <2>7, <4>4 DEF KnownIn, n
      <4>6. timeline[p][1] = c.id /\ timeline[p][2] = lastLogged[c.id]
        BY <4>5
      <4>7. p = i
        <5>1. Len(timeline) \in Nat /\ p \in 1 .. Len(timeline) /\ i \in 1 .. Len(timeline)
          BY <2>3, <3>1 DEF n
        <5> QED
          BY <4>2, <4>3, <4>5, <4>6, <5>1, LastUnique
      <4>8. timeline'[j][2] = c.to
        BY <4>1
      <4> QED
        BY <1>6, <1>7, <4>1, <4>6, <4>7, <4>8
    <3> QED
      BY <3>1, <3>2, <3>3
  <2> QED
    BY <2>5, <2>6, <2>7 DEF KnownIn
<1>8. CASE ~Transition(c)
  <2>1. timeline' = timeline /\ lastLogged' = lastLogged
    BY <1>3, <1>4, <1>5, <1>8
  <2> QED
    BY <1>2, <1>3, <2>1 DEF KnownIn
<1> QED
  BY <1>7, <1>8

-----------------------------------------------------------------------------
(* The last rows of the timeline, while a handler goes on *)

\* EndsWith, with LastIn.
Ends(hs, tl, x, v) ==
  /\ \A i \in 1 .. Len(hs) :
       (\A k \in i + 1 .. Len(hs) : LogsOf(hs[k], x) = {}) => \A j \in LogsOf(hs[i], x) : hs[i][j].to = v
  /\ (\A i \in 1 .. Len(hs) : LogsOf(hs[i], x) = {}) =>
       \A i \in 1 .. Len(tl) : tl[i][1] = x /\ LastIn(tl, i) => tl[i][2] = v

LEMMA EndsIs ==
  ASSUME EventsShape
  PROVE  \A x, v : EndsWith(x, v) <=> Ends(handlers, timeline, x, v)
BY LastIs DEF EndsWith, Ends

LEMMA EndsNext ==
  ASSUME Len(timeline') \in Nat
  PROVE  \A x, v : EndsWith(x, v)' <=> Ends(handlers', timeline', x, v)
<1>1. Len(timeline') + 1 - 1 = Len(timeline')
  OBVIOUS
<1>2. \A i : IsLast(i)' <=> LastIn(timeline', i)
  BY <1>1 DEF IsLast, NoneBetween, LastIn
<1> QED
  BY <1>2 DEF EndsWith, Ends, LogsOf

\* Before the last handler with something to log the others have nothing to log.
LEMMA OthersSilent ==
  ASSUME EventsShape, OneEvent, LogsInOrder, sure.timeline, mirror # "channel",
         NEW i, NEW ok, NEW r, NEW o, Goes(i, ok, r, o)
  PROVE  /\ r # <<>> => \A k \in 1 .. Len(handlers) : k # i => \A x : LogsOf(handlers[k], x) = {}
         /\ \A k \in 1 .. Len(handlers) : k < i => \A x : LogsOf(handlers[k], x) = {}
<1>1. /\ i \in 1 .. Len(handlers) /\ handlers[i] \in Seq(Calls) /\ Proper(handlers[i]) /\ (eventStore \in InOrder => i = 1)
      /\ Rests(r, handlers[i], ok)
  BY DEF Goes
<1>2. Len(handlers) \in Nat
  BY DEF EventsShape
<1>3. eventStore \in InOrder \/ eventStore \in Pools
  BY EventRowsAssumption DEF EventsShape
<1>4. CASE eventStore \in InOrder
  <2>1. i = 1
    BY <1>1, <1>4
  <2>2. Len(handlers) > 1 => Len(handlers[1]) = 1 /\ handlers[1][1].op \in LogOps
    <3>1. Len(handlers) > 1 => 1 \in 1 .. Len(handlers) /\ 2 \in 1 .. Len(handlers) /\ 1 < 2
      BY <1>2
    <3> QED
      BY <1>4, <3>1 DEF LogsInOrder
  <2>3. r # <<>> => Len(handlers) = 1
    <3>1. Len(handlers) > 1 => r = <<>>
      BY <1>1, <2>1, <2>2 DEF Rests, LogOps
    <3> SUFFICES ASSUME r # <<>> PROVE Len(handlers) = 1
      OBVIOUS
    <3>2. ~(Len(handlers) > 1)
      BY <3>1
    <3>3. PICK n : n = Len(handlers)
      OBVIOUS
    <3>4. n \in Nat /\ 1 \in 1 .. n /\ ~(n > 1)
      BY <1>1, <1>2, <2>1, <3>2, <3>3
    <3>5. n = 1
      BY <3>4
    <3> QED
      BY <3>3, <3>5
  <2> QED
    BY <1>2, <2>1, <2>3
<1>5. CASE eventStore \in Pools
  <2>1. Len(handlers) <= 2 /\ (Len(handlers) = 2 => handlers[1][1].op = "insertChat")
    BY <1>5 DEF OneEvent
  <2>2. ASSUME Len(handlers) = 2
        PROVE  handlers[1][1].op = "insertChat" /\ Len(handlers[1]) = 1 /\ \A x : LogsOf(handlers[1], x) = {}
    <3>1. handlers[1][1].op = "insertChat" /\ Proper(handlers[1])
      BY <2>1, <2>2 DEF EventsShape
    <3>2. Len(handlers[1]) = 1
      BY <3>1 DEF Proper
    <3> QED
      BY <3>1, <3>2 DEF LogsOf, LogOps
  <2>3. i = 1 /\ Len(handlers) = 2 => r = <<>>
    BY <1>1, <2>2 DEF Rests
  <2>6. PICK n : n = Len(handlers)
    OBVIOUS
  <2>7. n \in Nat /\ n <= 2 /\ i \in 1 .. n
    BY <1>1, <1>2, <2>1, <2>6
  <2>4. \A k \in 1 .. n : k # i => n = 2 /\ (k = 1 \/ i = 1)
    BY <2>7
  <2>5. \A k \in 1 .. n : k < i => k = 1 /\ n = 2
    BY <2>7
  <2> QED
    BY <2>2, <2>3, <2>4, <2>5, <2>6
<1> QED
  BY <1>3, <1>4, <1>5

\* A call moves what it logs from the handler to the timeline.
LEMMA EndsStay ==
  ASSUME EventsShape, OneEvent, LogsInOrder, LastKnown, sure.timeline, sure'.timeline, mirror # "channel",
         NEW i, NEW ok, NEW r, NEW o, Goes(i, ok, r, o), Same(r, handlers[i]), NEW x, NEW v,
         Ends(handlers, timeline, x, v)
  PROVE  Ends(handlers', timeline', x, v)
<1> DEFINE hs == handlers
           new == handlers'
           h == handlers[i]
           c == h[1]
           n == Len(timeline)
<1>1. /\ i \in 1 .. Len(hs) /\ ok \in BOOLEAN /\ h \in Seq(Calls) /\ Proper(h) /\ Done(h, ok, sure)
      /\ Rests(r, h, ok) /\ Carried(o, hs, new, i, r) /\ mirror' = mirror
      /\ (r = <<>> \/ eventStore \in Pools => InTurn(o, Len(new))) /\ Len(hs) \in Nat /\ Len(new) \in Nat
  BY DEF Goes, EventsShape
<1>2. /\ \A j \in 1 .. Len(new) : /\ o[j] \in 1 .. Len(hs) /\ (o[j] = i => new[j] = r /\ r # <<>>)
                                  /\ o[j] # i => new[j] = hs[o[j]]
      /\ \A j, k \in 1 .. Len(new) : o[j] = o[k] => j = k
      /\ \A k \in 1 .. Len(hs) : k # i \/ r # <<>> => \E j \in 1 .. Len(new) : o[j] = k
  BY <1>1 DEF Carried
<1>3. /\ r # <<>> => \A k \in 1 .. Len(hs) : k # i => LogsOf(hs[k], x) = {}
      /\ \A k \in 1 .. Len(hs) : k < i => LogsOf(hs[k], x) = {}
  <2>1. /\ r # <<>> => \A k \in 1 .. Len(handlers) : k # i => \A y : LogsOf(handlers[k], y) = {}
        /\ \A k \in 1 .. Len(handlers) : k < i => \A y : LogsOf(handlers[k], y) = {}
    BY OthersSilent, Zenon
  <2> QED
    BY <2>1
<1>4. /\ \A p \in 1 .. Len(hs) :
           (\A k \in p + 1 .. Len(hs) : LogsOf(hs[k], x) = {}) => \A j \in LogsOf(hs[p], x) : hs[p][j].to = v
      /\ (\A p \in 1 .. Len(hs) : LogsOf(hs[p], x) = {}) =>
           \A p \in 1 .. n : timeline[p][1] = x /\ LastIn(timeline, p) => timeline[p][2] = v
  BY DEF Ends
<1>5. ok /\ h[1] \in Calls /\ Len(h) \in Nat /\ Len(h) >= 1
  BY <1>1, TailIs DEF Done, Proper
<1>6. Same(r, h)
  OBVIOUS
<1> HIDE DEF hs, new, h, c, n
<1>7. ASSUME NEW j \in 1 .. Len(new), \A k \in j + 1 .. Len(new) : LogsOf(new[k], x) = {}, NEW q \in LogsOf(new[j], x)
      PROVE  new[j][q].to = v
  <2>1. CASE r = <<>>
    <3>1. o[j] # i /\ new[j] = hs[o[j]] /\ o[j] \in 1 .. Len(hs)
      BY <1>2, <2>1
    <3>2. ~(o[j] < i)
      BY <1>3, <1>7, <3>1
    <3>3. \A k \in o[j] + 1 .. Len(hs) : LogsOf(hs[k], x) = {}
      <4> TAKE k \in o[j] + 1 .. Len(hs)
      <4>1. k \in 1 .. Len(hs) /\ k # i /\ k > o[j]
        BY <1>1, <3>1, <3>2
      <4>2. PICK m \in 1 .. Len(new) : o[m] = k
        BY <1>2, <4>1
      <4>3. \A a, b \in 1 .. Len(new) : a < b => o[a] < o[b]
        BY <1>1, <2>1 DEF InTurn
      <4>4. m > j
        <5>1. m = j => o[m] = o[j]
          OBVIOUS
        <5>2. m < j => o[m] < o[j]
          BY <4>3
        <5> QED
          BY <3>1, <4>1, <4>2, <5>1, <5>2
      <4>5. m \in j + 1 .. Len(new)
        BY <1>1, <4>4
      <4> QED
        BY <1>2, <1>7, <4>1, <4>2, <4>5
    <3> QED
      BY <1>4, <1>7, <3>1, <3>3
  <2>2. CASE r # <<>>
    <3>1. o[j] = i /\ new[j] = r
      BY <1>2, <1>3, <1>7, <2>2
    <3>2. q \in 1 .. Len(r) /\ r[q].op \in LogOps /\ r[q].id = x
      BY <1>7, <3>1 DEF LogsOf
    <3>3. PICK k \in 2 .. Len(h) : h[k] = r[q]
      BY <1>6, <3>2 DEF Same
    <3>4. k \in LogsOf(h, x)
      BY <1>5, <3>2, <3>3 DEF LogsOf
    <3>5. \A m \in i + 1 .. Len(hs) : LogsOf(hs[m], x) = {}
      <4>1. \A m \in i + 1 .. Len(hs) : m \in 1 .. Len(hs) /\ m # i
        BY <1>1
      <4> QED
        BY <1>3, <2>2, <4>1
    <3>6. h = hs[i]
      BY DEF h, hs
    <3> QED
      BY <1>1, <1>4, <3>1, <3>3, <3>4, <3>5, <3>6
  <2> QED
    BY <2>1, <2>2
<1>8. ASSUME \A j \in 1 .. Len(new) : LogsOf(new[j], x) = {}
      PROVE  \A p \in 1 .. Len(timeline') : timeline'[p][1] = x /\ LastIn(timeline', p) => timeline'[p][2] = v
  <2>1. \A k \in 1 .. Len(hs) : k # i => LogsOf(hs[k], x) = {}
    <3> TAKE k \in 1 .. Len(hs)
    <3> HAVE k # i
    <3>1. PICK j \in 1 .. Len(new) : o[j] = k
      BY <1>2
    <3>2. new[j] = hs[k]
      BY <1>2, <3>1
    <3> QED
      BY <1>8, <3>2
  <2>2. /\ (c.op = "log" \/ Transition(c)) => timeline' = Append(timeline, <<c.id, c.to>>)
        /\ ~(c.op = "log" \/ Transition(c)) => timeline' = timeline
    BY <1>1, <1>5, Adds DEF c
  <2>3. c.op = "log" \/ Transition(c) => c.op \in LogOps
    BY DEF Transition, LogOps
  <2>5. ASSUME timeline' = Append(timeline, <<c.id, c.to>>), c.op \in LogOps
        PROVE  /\ n \in Nat /\ Len(timeline') = n + 1 /\ timeline'[n + 1] = <<c.id, c.to>>
               /\ \A p \in 1 .. n : timeline'[p] = timeline[p]
               /\ LastIn(timeline', n + 1)
               /\ \A p \in 1 .. n : LastIn(timeline', p) <=> LastIn(timeline, p) /\ timeline[p][1] # c.id
    <3>1. c \in Calls
      BY <1>5 DEF c
    <3>2. Grown(timeline, timeline', c.id, c.to)
      BY <2>5, <3>1, LogAppended
    <3> QED
      BY <3>2 DEF Grown, n
  <2>6. CASE c.op \in LogOps /\ c.id = x
    <3>1. \A k \in i + 1 .. Len(hs) : LogsOf(hs[k], x) = {}
      <4>1. \A m \in i + 1 .. Len(hs) : m \in 1 .. Len(hs) /\ m # i
        BY <1>1
      <4> QED
        BY <2>1, <4>1
    <3>2. 1 \in LogsOf(hs[i], x) /\ hs[i][1] = c
      BY <1>5, <2>6 DEF LogsOf, c, h, hs
    <3>3. c.to = v
      BY <1>1, <1>4, <3>1, <3>2
    <3>4. CASE c.op = "log" \/ Transition(c)
      <4>1. timeline' = Append(timeline, <<c.id, c.to>>)
        BY <2>2, <3>4
      <4>2. /\ n \in Nat /\ Len(timeline') = n + 1 /\ timeline'[n + 1] = <<c.id, c.to>>
            /\ \A p \in 1 .. n : timeline'[p] = timeline[p]
            /\ \A p \in 1 .. n : LastIn(timeline', p) <=> LastIn(timeline, p) /\ timeline[p][1] # c.id
        BY <2>5, <2>6, <4>1
      <4> TAKE p \in 1 .. Len(timeline')
      <4> HAVE timeline'[p][1] = x /\ LastIn(timeline', p)
      <4>3. p = n + 1 \/ p \in 1 .. n
        BY <4>2
      <4>4. p \notin 1 .. n
        BY <2>6, <4>2
      <4>5. timeline'[p] = <<c.id, c.to>>
        BY <4>2, <4>3, <4>4
      <4>6. timeline'[p][2] = c.to
        BY <4>5
      <4> QED
        BY <3>3, <4>6
    <3>5. CASE c.op = "transition" /\ lastLogged[c.id] = c.to
      <4>1. timeline' = timeline
        BY <2>2, <3>5 DEF Transition
      <4>2. mirror = "presence"
        <5>1. 1 \in 1 .. Len(h)
          BY <1>5
        <5>2. c.op \in OpsOf(mirror)
          BY <1>1, <5>1 DEF Proper, c
        <5> QED
          BY <3>5, <5>2 DEF OpsOf, ChannelOps, EventsShape
      <4>3. KnownIn(timeline, lastLogged, sure)
        BY <4>2, KnownIs
      <4>4. c.id \in Contacts /\ c.to \in Presences /\ c.to # None
        <5>1. c.id \in Contacts /\ c.to \in Presences
          BY <1>5, <3>5, CallTypes DEF c
        <5> QED
          BY <5>1, EventRowsAssumption
      <4>5. PICK p \in 1 .. n : timeline[p] = <<c.id, c.to>> /\ LastIn(timeline, p)
        BY <3>5, <4>3, <4>4 DEF KnownIn, n
      <4>6. timeline[p][1] = x /\ timeline[p][2] = v
        BY <2>6, <3>3, <4>5
      <4> TAKE q \in 1 .. Len(timeline')
      <4> HAVE timeline'[q][1] = x /\ LastIn(timeline', q)
      <4>7. q = p
        <5>1. Len(timeline) \in Nat
          BY DEF EventsShape
        <5> QED
          BY <4>1, <4>5, <4>6, <5>1, LastUnique DEF n
      <4> QED
        BY <4>1, <4>6, <4>7
    <3> QED
      BY <2>6, <3>4, <3>5 DEF LogOps, Transition
  <2>7. CASE ~(c.op \in LogOps /\ c.id = x)
    <3>1. LogsOf(h, x) = {}
      <4>1. ASSUME NEW k \in LogsOf(h, x) PROVE FALSE
        <5>1. k \in 1 .. Len(h) /\ h[k].op \in LogOps /\ h[k].id = x
          BY DEF LogsOf
        <5>2. k # 1
          BY <2>7, <5>1 DEF c
        <5>3. k \in 2 .. Len(h)
          BY <1>5, <5>1, <5>2
        <5>4. PICK q \in 1 .. Len(r) : r[q] = h[k]
          BY <1>6, <5>1, <5>3 DEF Same
        <5>5. q \in LogsOf(r, x) /\ r # <<>>
          BY <5>1, <5>4 DEF LogsOf
        <5>6. PICK m \in 1 .. Len(new) : o[m] = i
          BY <1>1, <1>2, <5>5
        <5> QED
          BY <1>2, <1>8, <5>5, <5>6
      <4> QED
        BY <4>1
    <3>2. \A k \in 1 .. Len(hs) : LogsOf(hs[k], x) = {}
      BY <2>1, <3>1 DEF h, hs
    <3>3. \A p \in 1 .. n : timeline[p][1] = x /\ LastIn(timeline, p) => timeline[p][2] = v
      BY <1>4, <3>2
    <3>4. CASE c.op = "log" \/ Transition(c)
      <4>1. timeline' = Append(timeline, <<c.id, c.to>>) /\ c.op \in LogOps
        BY <2>2, <2>3, <3>4
      <4>2. /\ n \in Nat /\ Len(timeline') = n + 1 /\ timeline'[n + 1] = <<c.id, c.to>>
            /\ \A p \in 1 .. n : timeline'[p] = timeline[p]
            /\ \A p \in 1 .. n : LastIn(timeline', p) <=> LastIn(timeline, p) /\ timeline[p][1] # c.id
        BY <2>5, <4>1
      <4> TAKE p \in 1 .. Len(timeline')
      <4> HAVE timeline'[p][1] = x /\ LastIn(timeline', p)
      <4>3. p = n + 1 \/ p \in 1 .. n
        BY <4>2
      <4>4. timeline'[n + 1][1] = c.id
        BY <4>2
      <4>5. p \in 1 .. n
        BY <2>7, <4>1, <4>3, <4>4
      <4> QED
        BY <3>3, <4>2, <4>5
    <3>5. CASE ~(c.op = "log" \/ Transition(c))
      <4>1. timeline' = timeline
        BY <2>2, <3>5
      <4> QED
        BY <3>3, <4>1 DEF n
    <3> QED
      BY <3>4, <3>5
  <2> QED
    BY <2>6, <2>7
<1> QED
  BY <1>7, <1>8 DEF Ends, new

-----------------------------------------------------------------------------
(* The timeline, while a handler goes on *)

\* TimelineKnown, with the rows of the timeline that are the last of something.
LEMMA TimelineIs ==
  ASSUME EventsShape, TimelineKnown, sure.timeline
  PROVE  /\ mirror = "blocked" => sure.rows
         /\ Reading => \A x \in Mirrored : \A v : v = (x \in rows.blocked) => Ends(handlers, timeline, x, v)
         /\ ~Reading => \A x \in Mirrored : \A v : v = Now(x) => Ends(handlers, timeline, x, v)
<1>1. \A x, v : EndsWith(x, v) <=> Ends(handlers, timeline, x, v)
  BY EndsIs
<1>2. /\ mirror = "blocked" => sure.rows
      /\ Reading => \A x \in Mirrored : EndsWith(x, x \in rows.blocked)
      /\ ~Reading => \A x \in Mirrored : EndsWith(x, Now(x))
  BY DEF TimelineKnown
<1>3. ASSUME Reading, NEW x \in Mirrored, NEW v, v = (x \in rows.blocked) PROVE Ends(handlers, timeline, x, v)
  <2>1. EndsWith(x, x \in rows.blocked)
    BY <1>2, <1>3
  <2>2. EndsWith(x, v)
    BY <1>3, <2>1 DEF EndsWith
  <2> QED
    BY <1>1, <2>2
<1>4. ASSUME ~Reading, NEW x \in Mirrored, NEW v, v = Now(x) PROVE Ends(handlers, timeline, x, v)
  <2>1. EndsWith(x, v)
    BY <1>2, <1>4
  <2> QED
    BY <1>1, <2>1
<1> QED
  BY <1>2, <1>3, <1>4

LEMMA TimelineNext ==
  ASSUME Len(timeline') \in Nat,
         sure'.timeline =>
           /\ mirror' = "blocked" => sure'.rows
           /\ Reading' => \A x \in Mirrored' : \A v : v = (x \in rows'.blocked) => Ends(handlers', timeline', x, v)
           /\ ~Reading' => \A x \in Mirrored' : \A v : v = Now(x)' => Ends(handlers', timeline', x, v)
  PROVE  TimelineKnown'
<1>1. \A x, v : EndsWith(x, v)' <=> Ends(handlers', timeline', x, v)
  BY EndsNext
<1>2. ASSUME sure'.timeline, Reading', NEW x \in Mirrored' PROVE EndsWith(x, x \in rows.blocked)'
  <2>1. PICK v : v = (x \in rows'.blocked)
    OBVIOUS
  <2>2. EndsWith(x, v)'
    BY <1>1, <1>2, <2>1
  <2> QED
    BY <2>1, <2>2 DEF EndsWith, IsLast, NoneBetween, LogsOf
<1>3. ASSUME sure'.timeline, ~Reading', NEW x \in Mirrored' PROVE EndsWith(x, Now(x))'
  <2>1. PICK v : v = Now(x)'
    OBVIOUS
  <2>2. EndsWith(x, v)'
    BY <1>1, <1>3, <2>1
  <2> QED
    BY <2>1, <2>2 DEF EndsWith, IsLast, NoneBetween, LogsOf
<1> QED
  BY <1>2, <1>3 DEF TimelineKnown

\* A list that was read leaves to the logs what makes the difference.
LEMMA EndsDiff ==
  ASSUME EventsShape, OneEvent, LogsInOrder, sure.timeline, sure'.timeline, mirror # "channel",
         NEW i, NEW ok, NEW r, NEW o, Goes(i, ok, r, o), handlers[i][1].op = "read",
         NEW list, NEW prev, DiffFrom(r, list, prev), NEW x \in Contacts, NEW u, NEW v,
         u = (x \in prev), v = (x \in list), Ends(handlers, timeline, x, u)
  PROVE  Ends(handlers', timeline', x, v)
<1>1. /\ i \in 1 .. Len(handlers) /\ ok \in BOOLEAN /\ handlers[i] \in Seq(Calls) /\ Proper(handlers[i])
      /\ Done(handlers[i], ok, sure) /\ Carried(o, handlers, handlers', i, r) /\ mirror' = mirror
  BY DEF Goes
<1>2. r # <<>>
  BY DEF DiffFrom, Proper
<1>3. \A j \in 1 .. Len(handlers') : /\ o[j] \in 1 .. Len(handlers) /\ (o[j] = i => handlers'[j] = r)
                                     /\ o[j] # i => handlers'[j] = handlers[o[j]]
  BY <1>1 DEF Carried
<1>4. \E m \in 1 .. Len(handlers') : handlers'[m] = r
  <2>1. PICK m \in 1 .. Len(handlers') : o[m] = i
    BY <1>1, <1>2 DEF Carried
  <2> QED
    BY <1>3, <2>1
<1>5. \A k \in 1 .. Len(handlers) : k # i => LogsOf(handlers[k], x) = {}
  <2>1. /\ r # <<>> => \A k \in 1 .. Len(handlers) : k # i => \A y : LogsOf(handlers[k], y) = {}
        /\ \A k \in 1 .. Len(handlers) : k < i => \A y : LogsOf(handlers[k], y) = {}
    BY OthersSilent, Zenon
  <2> QED
    BY <1>2, <2>1
<1>6. timeline' = timeline
  <2>1. ~(ok /\ (handlers[i][1].op = "log" \/ Transition(handlers[i][1])))
    BY DEF Transition
  <2> QED
    BY <1>1, <2>1, Adds
<1>7. \A k \in 1 .. Len(handlers) : LogsOf(handlers[k], x) = {}
  <2>1. Len(handlers[i]) = 1
    BY <1>1 DEF Proper
  <2>2. LogsOf(handlers[i], x) = {}
    BY <2>1 DEF LogsOf, LogOps
  <2> QED
    BY <1>5, <2>2
<1>8. \A p \in 1 .. Len(timeline) : timeline[p][1] = x /\ LastIn(timeline, p) => timeline[p][2] = u
  BY <1>7 DEF Ends
<1>9. ASSUME NEW j \in 1 .. Len(handlers'), NEW q \in LogsOf(handlers'[j], x) PROVE handlers'[j][q].to = v
  <2>1. handlers'[j] = r
    BY <1>3, <1>5
  <2>2. q \in 1 .. Len(r) /\ r[q].op \in LogOps /\ r[q].id = x
    BY <2>1 DEF LogsOf
  <2>3. r[q].to = (r[q].id \in list)
    BY <2>2 DEF DiffFrom
  <2> QED
    BY <2>1, <2>2, <2>3
<1>10. ASSUME \A j \in 1 .. Len(handlers') : LogsOf(handlers'[j], x) = {} PROVE u = v
  <2>1. LogsOf(r, x) = {}
    BY <1>4, <1>10
  <2>2. x \in list <=> x \in prev
    BY <2>1 DEF DiffFrom, LogsOf
  <2> QED
    BY <2>2
<1>11. \A j \in 1 .. Len(handlers') : \A q \in LogsOf(handlers'[j], x) : handlers'[j][q].to = v
  BY <1>9
<1> QED
  BY <1>6, <1>8, <1>10, <1>11 DEF Ends

LEMMA GoesTimeline ==
  ASSUME EventsShape, RowsKnown, OneEvent, LogsInOrder, TimelineKnown, LastKnown,
         NEW i, NEW ok, NEW r, NEW o, Goes(i, ok, r, o)
  PROVE  TimelineKnown'
<1>1. /\ i \in 1 .. Len(handlers) /\ ok \in BOOLEAN /\ handlers[i] \in Seq(Calls) /\ Proper(handlers[i])
      /\ Done(handlers[i], ok, sure) /\ Rests(r, handlers[i], ok) /\ Carried(o, handlers, handlers', i, r)
      /\ mirror' = mirror /\ told' = told
  BY DEF Goes
<1>2. Len(timeline') \in Nat
  BY <1>1, DoneShape, LenProperties
<1> SUFFICES ASSUME sure'.timeline
             PROVE  /\ mirror = "blocked" => sure'.rows
                    /\ Reading' => \A x \in Mirrored : \A v : v = (x \in rows'.blocked) => Ends(handlers', timeline', x, v)
                    /\ ~Reading' => \A x \in Mirrored : \A v : v = Now(x) => Ends(handlers', timeline', x, v)
  <2>1. Mirrored' = Mirrored
    BY <1>1 DEF Mirrored
  <2>2. \A x : Now(x)' = Now(x)
    BY <1>1 DEF Now
  <2>3. ASSUME sure'.timeline
        PROVE  /\ mirror' = "blocked" => sure'.rows
               /\ Reading' => \A x \in Mirrored' : \A v : v = (x \in rows'.blocked) => Ends(handlers', timeline', x, v)
               /\ ~Reading' => \A x \in Mirrored' : \A v : v = Now(x)' => Ends(handlers', timeline', x, v)
    BY <1>1, <2>1, <2>2, <2>3
  <2> QED
    BY <1>2, <2>3, TimelineNext
<1> DEFINE c == handlers[i][1]
<1>3. c \in Calls /\ sure.timeline /\ ok /\ (c.op # "updateChat" => sure'.rows = sure.rows) /\ rows' = Written(c)
  BY <1>1 DEF Done
<1>4. c.op \in OpsOf(mirror)
  <2>1. 1 \in 1 .. Len(handlers[i])
    BY <1>1, TailIs DEF Proper
  <2> QED
    BY <1>1, <2>1 DEF Proper
<1>5. /\ mirror = "blocked" => sure.rows
      /\ Reading => \A x \in Mirrored : \A v : v = (x \in rows.blocked) => Ends(handlers, timeline, x, v)
      /\ ~Reading => \A x \in Mirrored : \A v : v = Now(x) => Ends(handlers, timeline, x, v)
  BY <1>3, TimelineIs
<1>6. \A j \in 1 .. Len(handlers') : /\ o[j] \in 1 .. Len(handlers) /\ (o[j] = i => handlers'[j] = r /\ r # <<>>)
                                     /\ o[j] # i => handlers'[j] = handlers[o[j]]
  BY <1>1 DEF Carried
<1>7. \A k \in 1 .. Len(handlers) : k # i => \E j \in 1 .. Len(handlers') : handlers'[j] = handlers[k]
  <2>1. \A k \in 1 .. Len(handlers) : k # i => \E j \in 1 .. Len(handlers') : o[j] = k
    BY <1>1 DEF Carried
  <2> QED
    BY <1>6, <2>1
<1>8. mirror = "blocked" => sure'.rows
  BY <1>3, <1>4, <1>5 DEF OpsOf
<1>9. r # <<>> => r[1].op # "read"
  BY <1>1, RestOps DEF LogOps
<1>10. Reading => mirror = "blocked"
  <2>1. ASSUME NEW k \in 1 .. Len(handlers), handlers[k][1].op = "read" PROVE mirror = "blocked"
    <3>1. handlers[k] \in Seq(Calls) /\ Proper(handlers[k])
      BY DEF EventsShape
    <3>2. 1 \in 1 .. Len(handlers[k])
      BY <3>1, TailIs DEF Proper
    <3>3. "read" \in OpsOf(mirror)
      BY <2>1, <3>1, <3>2 DEF Proper
    <3> QED
      BY <3>3 DEF OpsOf, ChannelOps, EventsShape
  <2> QED
    BY <2>1 DEF Reading
<1>11. \A k, m \in 1 .. Len(handlers) : mirror = "blocked" /\ handlers[k][1].op \in RowOps /\ handlers[m][1].op \in RowOps => k = m
  BY <1>5 DEF RowsKnown, Writing
<1>12. "read" \in RowOps
  BY DEF RowOps
<1>13. CASE mirror \in {"channel", "lids"}
  BY <1>8, <1>13 DEF Mirrored
<1>14. CASE mirror \notin {"channel", "lids"} /\ c.op = "read"
  <2>1. mirror = "blocked" /\ Reading
    BY <1>1, <1>10, <1>14 DEF Reading
  <2>2. ~Reading'
    <3>1. ASSUME NEW j \in 1 .. Len(handlers'), handlers'[j][1].op = "read" PROVE FALSE
      <4>1. o[j] # i /\ handlers'[j] = handlers[o[j]] /\ o[j] \in 1 .. Len(handlers)
        BY <1>6, <1>9, <3>1
      <4> QED
        BY <1>1, <1>11, <1>12, <1>14, <2>1, <3>1, <4>1
    <3> QED
      BY <3>1 DEF Reading
  <2>3. c.to = told.blocked
    <3>1. Agrees(Outcome(handlers[i]), told)
      BY <1>1, <1>5, <1>12, <1>14, <2>1 DEF RowsKnown, Writing
    <3>2. Outcome(handlers[i]) = [rows EXCEPT !.blocked = c.to]
      BY <1>14 DEF Outcome
    <3>3. Outcome(handlers[i]).blocked = c.to
      BY <3>2, FieldsOfRows DEF RowsType
    <3> QED
      BY <3>1, <3>3 DEF Agrees
  <2>4. DiffFrom(r, told.blocked, rows.blocked)
    BY <1>1, <1>3, <1>14, <2>3 DEF Rests
  <2>5. Mirrored = Contacts
    BY <2>1 DEF Mirrored
  <2>6. ASSUME NEW x \in Contacts, NEW v, v = Now(x) PROVE Ends(handlers', timeline', x, v)
    <3>1. v = (x \in told.blocked)
      BY <2>1, <2>6 DEF Now
    <3>2. PICK u : u = (x \in rows.blocked)
      OBVIOUS
    <3>3. Ends(handlers, timeline, x, u)
      BY <1>5, <2>1, <2>5, <3>2
    <3>4. mirror # "channel" /\ handlers[i][1].op = "read"
      BY <1>14
    <3> QED
      BY <1>3, <2>4, <3>1, <3>2, <3>3, <3>4, EndsDiff
  <2> QED
    BY <1>8, <2>2, <2>5, <2>6
<1>15. CASE mirror \notin {"channel", "lids"} /\ c.op # "read"
  <2>1. c.op # "readViews" /\ mirror # "channel"
    BY <1>4, <1>15 DEF OpsOf, EventsShape
  <2>2. Same(r, handlers[i])
    BY <1>1, <1>15, <2>1 DEF Rests
  <2>3. ASSUME NEW x, NEW v, Ends(handlers, timeline, x, v) PROVE Ends(handlers', timeline', x, v)
    BY <1>3, <2>1, <2>2, <2>3, EndsStay
  <2>4. Reading' <=> Reading
    <3>1. ASSUME NEW j \in 1 .. Len(handlers'), handlers'[j][1].op = "read" PROVE Reading
      BY <1>6, <1>9, <3>1 DEF Reading
    <3>2. ASSUME NEW k \in 1 .. Len(handlers), handlers[k][1].op = "read" PROVE Reading'
      <4>1. k # i
        BY <1>15, <3>2
      <4>2. PICK j \in 1 .. Len(handlers') : handlers'[j] = handlers[k]
        BY <1>7, <4>1
      <4> QED
        BY <3>2, <4>2 DEF Reading
    <3> QED
      BY <3>1, <3>2 DEF Reading
  <2>5. Reading => rows'.blocked = rows.blocked
    <3> SUFFICES ASSUME Reading PROVE rows'.blocked = rows.blocked
      OBVIOUS
    <3>1. PICK k \in 1 .. Len(handlers) : handlers[k][1].op = "read"
      BY DEF Reading
    <3>2. k # i /\ mirror = "blocked"
      BY <1>10, <1>15, <3>1
    <3>3. c.op \notin RowOps
      BY <1>1, <1>11, <1>12, <3>1, <3>2
    <3> QED
      BY <1>3, <3>3, BlockedStays
  <2> QED
    BY <1>5, <1>8, <2>3, <2>4, <2>5
<1> QED
  BY <1>13, <1>14, <1>15

-----------------------------------------------------------------------------
(* The counts of a newsletter, while a handler goes on *)

LEMMA WaitsFinite ==
  ASSUME NEW hs, Len(hs) \in Nat
  PROVE  \A op, to : IsFiniteSet(Waits(hs, op, to)) /\ Cardinality(Waits(hs, op, to)) \in Nat
<1> TAKE op, to
<1>1. IsFiniteSet(1 .. Len(hs))
  BY FS_Interval
<1>2. Waits(hs, op, to) \in SUBSET (1 .. Len(hs))
  BY DEF Waits
<1>3. IsFiniteSet(Waits(hs, op, to))
  BY <1>1, <1>2, FS_Subset
<1> QED
  BY <1>3, FS_CardinalityType

\* A handler that ends.
LEMMA WaitsLess ==
  ASSUME NEW hs, Len(hs) \in Nat, NEW new, Len(new) \in Nat, NEW i \in 1 .. Len(hs), NEW o,
         Carried(o, hs, new, i, <<>>), NEW op, NEW to
  PROVE  /\ hs[i][1] = Call(op, None, to) => Cardinality(Waits(new, op, to)) = Cardinality(Waits(hs, op, to)) - 1
         /\ hs[i][1] # Call(op, None, to) => Cardinality(Waits(new, op, to)) = Cardinality(Waits(hs, op, to))
<1> DEFINE A == Waits(new, op, to)
           H == Waits(hs, op, to)
           B == H \ {i}
           f == [j \in A |-> o[j]]
<1>1. \A j \in 1 .. Len(new) : o[j] \in 1 .. Len(hs) /\ o[j] # i /\ new[j] = hs[o[j]]
  BY DEF Carried
<1>2. /\ \A j, k \in 1 .. Len(new) : o[j] = o[k] => j = k
      /\ \A k \in 1 .. Len(hs) : k # i => \E j \in 1 .. Len(new) : o[j] = k
  BY DEF Carried
<1>3. f \in [A -> B] /\ \A j, k \in A : f[j] = f[k] => j = k
  BY <1>1, <1>2 DEF Waits
<1>4. \A k \in B : \E j \in A : f[j] = k
  BY <1>1, <1>2 DEF Waits
<1>5. f \in Bijection(A, B)
  BY <1>3, <1>4, Zenon DEF Bijection, Injection, Surjection, IsInjective
<1>6. IsFiniteSet(A) /\ IsFiniteSet(H)
  BY WaitsFinite
<1>7. Cardinality(B) = Cardinality(A)
  BY <1>5, <1>6, FS_Bijection DEF ExistsBijection
<1>8. Cardinality(B) = IF i \in H THEN Cardinality(H) - 1 ELSE Cardinality(H)
  BY <1>6, FS_RemoveElement
<1>9. i \in H <=> hs[i][1] = Call(op, None, to)
  BY DEF Waits
<1> QED
  BY <1>7, <1>8, <1>9

LEMMA CallIs == \A op, id, to : Call(op, id, to) = [op |-> op, id |-> id, to |-> to]
BY DEF Call

\* What a call of a newsletter's message does to its row.
LEMMA ChannelWritten ==
  ASSUME EventsShape, NEW c \in Calls, c.op \in ChannelOps, NEW w, w = Written(c)
  PROVE  /\ c.op = "setViews" => w.channel = [rows.channel EXCEPT !.views = IF c.to > @ THEN c.to ELSE @]
         /\ c.op = "putViews" => w.channel = [rows.channel EXCEPT !.views = c.to]
         /\ c.op = "addView" => w.channel = [rows.channel EXCEPT !.views = @ + 1]
         /\ c.op = "react" => w.channel = [rows.channel EXCEPT !.sum = @ + c.to]
         /\ c.op = "readViews" => w = rows
         /\ c.op \in {"setViews", "putViews"} => c = Call(c.op, None, c.to)
         /\ c.op = "addView" => c = Call("addView", None, None)
         /\ c.op = "react" => c.to \in {1, -1} /\ c = Call("react", None, c.to)
<1>1. rows \in RowsType /\ rows.channel \in ChannelRows
  BY FieldsOfRows DEF RowsType
<1>2. c.op = "setViews" => w.channel = [rows.channel EXCEPT !.views = IF c.to > @ THEN c.to ELSE @]
  <2> SUFFICES ASSUME c.op = "setViews" PROVE w.channel = [rows.channel EXCEPT !.views = IF c.to > @ THEN c.to ELSE @]
    OBVIOUS
  <2>1. w = [rows EXCEPT !.channel.views = IF c.to > @ THEN c.to ELSE @]
    BY DEF Written, SetViewCount
  <2> QED
    BY <1>1, <2>1 DEF RowsType
<1>3. c.op = "putViews" => w.channel = [rows.channel EXCEPT !.views = c.to]
  BY <1>1 DEF Written, RowsType
<1>4. c.op = "addView" => w.channel = [rows.channel EXCEPT !.views = @ + 1]
  BY <1>1 DEF Written, RowsType, IncrementView
<1>5. c.op = "react" => w.channel = [rows.channel EXCEPT !.sum = @ + c.to]
  BY <1>1 DEF Written, RowsType, RecordReaction
<1>6. c.op = "readViews" => w = rows
  BY DEF Written
<1>7. /\ c.op \in {"setViews", "putViews"} => c = Call(c.op, None, c.to)
      /\ c.op = "addView" => c = Call("addView", None, None)
      /\ c.op = "react" => c.to \in {1, -1} /\ c = Call("react", None, c.to)
  BY CallIs DEF Calls, Nothing, CallsOfLists, CallsOfLabels, CallsOfChats, CallsOfNumbers, OtherCalls
<1> QED
  BY <1>2, <1>3, <1>4, <1>5, <1>6, <1>7

LEMMA GoesChannel ==
  ASSUME EventsShape, ChannelKnown, NEW i, NEW ok, NEW r, NEW o, Goes(i, ok, r, o)
  PROVE  ChannelKnown'
<1>1. /\ i \in 1 .. Len(handlers) /\ ok \in BOOLEAN /\ handlers[i] \in Seq(Calls) /\ Proper(handlers[i]) /\ Begun(handlers[i])
      /\ Done(handlers[i], ok, sure) /\ Rests(r, handlers[i], ok) /\ Carried(o, handlers, handlers', i, r)
      /\ handlers' \in Seq(Seq(Calls)) /\ Len(handlers') = IF r = <<>> THEN Len(handlers) - 1 ELSE Len(handlers)
      /\ mirror' = mirror /\ told' = told
  BY DEF Goes
<1> SUFFICES ASSUME mirror = "channel", sure'.rows PROVE Counted(rows'.channel, told.channel, handlers')
  BY <1>1 DEF ChannelKnown
<1>2. PICK c, hs, new : c = handlers[i][1] /\ hs = handlers /\ new = handlers'
  OBVIOUS
<1>3. c \in Calls /\ c.op \in ChannelOps /\ Len(handlers[i]) = 1
  <2>1. 1 \in 1 .. Len(handlers[i])
    BY <1>1, TailIs DEF Proper
  <2>2. c.op \in OpsOf("channel")
    BY <1>1, <1>2, <2>1 DEF Proper
  <2>3. c.op \in ChannelOps
    BY <2>2 DEF OpsOf
  <2> QED
    BY <1>1, <1>2, <2>3 DEF Proper, Done
<1>4. sure.rows /\ ok /\ rows' = Written(c)
  BY <1>1, <1>2, <1>3 DEF Done, ChannelOps
<1>5. eventStore \in InOrder \/ eventStore \in Pools
  BY EventRowsAssumption DEF EventsShape
<1>6. c.op # "readViews" /\ (c.op = "putViews" \/ eventStore \in Pools)
  <2>1. CASE eventStore \in InOrder
    BY <1>1, <1>2, <1>3, <2>1 DEF Begun, LogOps, ChannelOps
  <2>2. CASE eventStore \in Pools
    <3>1. 1 \in 1 .. Len(handlers[i])
      BY <1>3
    <3> QED
      BY <1>1, <1>2, <2>2, <3>1 DEF Proper
  <2> QED
    BY <1>5, <2>1, <2>2
<1>7. r = <<>>
  BY <1>1, <1>2, <1>3, <1>6 DEF Rests, ChannelOps
<1>8. Counted(rows.channel, told.channel, hs)
  BY <1>2, <1>4 DEF ChannelKnown
<1>9. rows.channel \in ChannelRows /\ told.channel \in ChannelRows
  BY FieldsOfRows DEF EventsShape, RowsType, ToldType
<1>10. Len(hs) \in Nat /\ Len(new) \in Nat /\ Len(new) = Len(hs) - 1 /\ i \in 1 .. Len(hs) /\ hs[i][1] = c
  BY <1>1, <1>2, <1>7 DEF EventsShape
<1>11. Carried(o, hs, new, i, <<>>)
  BY <1>1, <1>2, <1>7
<1>12. \A op, to : /\ c = Call(op, None, to) => Cardinality(Waits(new, op, to)) = Cardinality(Waits(hs, op, to)) - 1
                   /\ c # Call(op, None, to) => Cardinality(Waits(new, op, to)) = Cardinality(Waits(hs, op, to))
  BY <1>10, <1>11, WaitsLess
<1>13. \A op, to : Cardinality(Waits(hs, op, to)) \in Nat /\ Cardinality(Waits(new, op, to)) \in Nat
  BY <1>10, WaitsFinite
<1>14. \A j \in 1 .. Len(new) : o[j] \in 1 .. Len(hs) /\ o[j] # i /\ new[j] = hs[o[j]]
  BY <1>11 DEF Carried
<1>15. \A k \in 1 .. Len(hs) : k # i => \E j \in 1 .. Len(new) : new[j] = hs[k]
  <2>1. \A k \in 1 .. Len(hs) : k # i => \E j \in 1 .. Len(new) : o[j] = k
    BY <1>11 DEF Carried
  <2> QED
    BY <1>14, <2>1
<1>16. PICK ch, t, was : ch = rows'.channel /\ t = told.channel /\ was = rows.channel
  OBVIOUS
<1>17. /\ was.views \in Nat /\ was.guesses \in Nat /\ was.sum \in Int /\ t.views \in Nat /\ t.guesses \in Nat /\ t.sum \in Int
       /\ was \in ChannelRows
  BY <1>9, <1>16 DEF ChannelRows
<1>18. /\ c.op = "setViews" => ch = [was EXCEPT !.views = IF c.to > @ THEN c.to ELSE @]
       /\ c.op = "putViews" => ch = [was EXCEPT !.views = c.to]
       /\ c.op = "addView" => ch = [was EXCEPT !.views = @ + 1]
       /\ c.op = "react" => ch = [was EXCEPT !.sum = @ + c.to]
  BY <1>3, <1>4, <1>16, ChannelWritten
<1>19. /\ c.op \in {"setViews", "putViews"} => c.to \in Nat
       /\ c.op = "addView" => c = Call("addView", None, None)
       /\ c.op = "react" => c.to \in {1, -1} /\ c = Call("react", None, c.to)
  BY <1>3, CallTypes, ChannelWritten
<1>20. \A op, to : Call(op, None, to).op = op /\ Call(op, None, to).to = to
  BY DEF Call
<1>21. /\ Cardinality(Waits(hs, "addView", None)) <= t.guesses
       /\ was.views + Cardinality(Waits(hs, "addView", None)) <= t.views + t.guesses
       /\ \A k \in 1 .. Len(hs) : hs[k][1].op \in {"setViews", "putViews"} => hs[k][1].to <= t.views
       /\ \/ was.views >= t.views
          \/ \E k \in 1 .. Len(hs) : hs[k][1].op \in {"setViews", "putViews"} /\ hs[k][1].to = t.views
       /\ was.sum + Cardinality(Waits(hs, "react", 1)) = t.sum + Cardinality(Waits(hs, "react", -1))
       /\ \A k, j \in 1 .. Len(hs) : hs[k][1].op = "putViews" => k = j
       /\ \A k \in 1 .. Len(hs) : hs[k][1].op = "putViews" => was.views <= hs[k][1].to
  BY <1>8, <1>16 DEF Counted
<1>22. c.op \in {"setViews", "putViews", "addView", "react"}
  BY <1>3, <1>6 DEF ChannelOps
<1>23. /\ ch.views = IF c.op \in {"setViews", "putViews"} THEN (IF c.to > was.views THEN c.to ELSE was.views)
                     ELSE IF c.op = "addView" THEN was.views + 1 ELSE was.views
       /\ ch.sum = IF c.op = "react" THEN was.sum + c.to ELSE was.sum
  <2>1. CASE c.op = "setViews"
    BY <1>17, <1>18, <2>1 DEF ChannelRows
  <2>2. CASE c.op = "putViews"
    <3>1. was.views <= c.to
      BY <1>10, <1>21, <2>2
    <3>2. ch.views = c.to /\ ch.sum = was.sum
      BY <1>17, <1>18, <2>2 DEF ChannelRows
    <3> QED
      BY <1>17, <1>19, <2>2, <3>1, <3>2
  <2>3. CASE c.op = "addView"
    BY <1>17, <1>18, <2>3 DEF ChannelRows
  <2>4. CASE c.op = "react"
    BY <1>17, <1>18, <2>4 DEF ChannelRows
  <2> QED
    BY <1>22, <2>1, <2>2, <2>3, <2>4
<1>24. /\ Cardinality(Waits(new, "addView", None)) =
            IF c.op = "addView" THEN Cardinality(Waits(hs, "addView", None)) - 1 ELSE Cardinality(Waits(hs, "addView", None))
       /\ Cardinality(Waits(new, "react", 1)) =
            IF c.op = "react" /\ c.to = 1 THEN Cardinality(Waits(hs, "react", 1)) - 1 ELSE Cardinality(Waits(hs, "react", 1))
       /\ Cardinality(Waits(new, "react", -1)) =
            IF c.op = "react" /\ c.to = -1 THEN Cardinality(Waits(hs, "react", -1)) - 1 ELSE Cardinality(Waits(hs, "react", -1))
  BY <1>12, <1>19, <1>20
<1>25. PICK a, b, p, q, m, n :
         /\ a = Cardinality(Waits(hs, "addView", None)) /\ b = Cardinality(Waits(new, "addView", None))
         /\ p = Cardinality(Waits(hs, "react", 1)) /\ q = Cardinality(Waits(new, "react", 1))
         /\ m = Cardinality(Waits(hs, "react", -1)) /\ n = Cardinality(Waits(new, "react", -1))
  OBVIOUS
<1>26. a \in Nat /\ b \in Nat /\ p \in Nat /\ q \in Nat /\ m \in Nat /\ n \in Nat
  BY <1>13, <1>25
<1>27. /\ b = IF c.op = "addView" THEN a - 1 ELSE a
       /\ q = IF c.op = "react" /\ c.to = 1 THEN p - 1 ELSE p
       /\ n = IF c.op = "react" /\ c.to = -1 THEN m - 1 ELSE m
  BY <1>24, <1>25
<1>28. a <= t.guesses /\ was.views + a <= t.views + t.guesses /\ was.sum + p = t.sum + m
  BY <1>21, <1>25
<1>29. c.op \in {"setViews", "putViews"} => c.to <= t.views
  BY <1>10, <1>21
<1>30. b <= t.guesses /\ ch.views + b <= t.views + t.guesses
  BY <1>17, <1>19, <1>22, <1>23, <1>26, <1>27, <1>28, <1>29
<1>31. ch.sum + q = t.sum + n
  <2>1. CASE c.op = "react"
    <3>1. c.to = 1 \/ c.to = -1
      BY <1>19, <2>1
    <3>2. CASE c.to = 1
      BY <1>17, <1>23, <1>26, <1>27, <1>28, <2>1, <3>2
    <3>3. CASE c.to = -1
      BY <1>17, <1>23, <1>26, <1>27, <1>28, <2>1, <3>3
    <3> QED
      BY <3>1, <3>2, <3>3
  <2>2. CASE c.op # "react"
    BY <1>23, <1>27, <1>28, <2>2
  <2> QED
    BY <2>1, <2>2
<1>32. \A k \in 1 .. Len(new) : new[k][1].op \in {"setViews", "putViews"} => new[k][1].to <= t.views
  BY <1>14, <1>21
<1>33. \/ ch.views >= t.views
       \/ \E k \in 1 .. Len(new) : new[k][1].op \in {"setViews", "putViews"} /\ new[k][1].to = t.views
  <2>1. CASE was.views >= t.views
    BY <1>17, <1>19, <1>22, <1>23, <2>1
  <2>2. ASSUME NEW k \in 1 .. Len(hs), hs[k][1].op \in {"setViews", "putViews"}, hs[k][1].to = t.views
        PROVE  \/ ch.views >= t.views
               \/ \E j \in 1 .. Len(new) : new[j][1].op \in {"setViews", "putViews"} /\ new[j][1].to = t.views
    <3>1. CASE k = i
      BY <1>10, <1>17, <1>19, <1>23, <2>2, <3>1
    <3>2. CASE k # i
      BY <1>15, <2>2, <3>2
    <3> QED
      BY <3>1, <3>2
  <2> QED
    BY <1>21, <2>1, <2>2
<1>34. \A k \in 1 .. Len(new) : new[k][1].op # "putViews"
  BY <1>10, <1>14, <1>21
<1> QED
  BY <1>2, <1>16, <1>25, <1>30, <1>31, <1>32, <1>33, <1>34 DEF Counted

LEMMA GoesKeeps ==
  ASSUME EventsShape, EventRowsIInv, NEW i, NEW ok, NEW r, NEW o, Goes(i, ok, r, o)
  PROVE  EventsShape' /\ EventRowsIInv'
<1>1. /\ RowsKnown /\ Reversed /\ Untouched /\ ChannelKnown
      /\ OneEvent /\ LogsInOrder /\ TimelineKnown /\ LastKnown
  BY DEF EventRowsIInv
<1>2. EventsShape'
  BY GoesShape
<1>3. RowsKnown'
  BY <1>1, GoesRows
<1>4. Reversed' /\ Untouched'
  BY <1>1, GoesAside
<1>5. ChannelKnown'
  BY <1>1, GoesChannel
<1>6. OneEvent' /\ LogsInOrder'
  BY <1>1, GoesInTurn
<1>7. TimelineKnown'
  BY <1>1, GoesTimeline
<1>8. LastKnown'
  <2>1. /\ handlers[i] \in Seq(Calls) /\ Proper(handlers[i]) /\ ok \in BOOLEAN /\ Done(handlers[i], ok, sure)
        /\ UNCHANGED mirror
    BY DEF Goes
  <2>2. (sure.timeline => sure.timeline) /\ (sure.steady => sure.steady)
    OBVIOUS
  <2> QED
    BY <1>1, <2>1, <2>2, DoneKnown
<1> QED
  BY <1>2, <1>3, <1>4, <1>5, <1>6, <1>7, <1>8 DEF EventRowsIInv

-----------------------------------------------------------------------------
(* An event, and the handlers it starts *)

\* new is hs and then r, if there is anything in r.
Longer(hs, new, r) ==
  /\ Len(hs) \in Nat /\ Len(new) \in Nat
  /\ r = <<>> => new = hs
  /\ r # <<>> => Len(new) = Len(hs) + 1 /\ new[Len(hs) + 1] = r /\ \A j \in 1 .. Len(hs) : new[j] = hs[j]

LEMMA LongerIs ==
  ASSUME NEW hs \in Seq(Seq(Calls)), NEW r \in Seq(Calls), NEW new, new = hs \o (IF r = <<>> THEN <<>> ELSE <<r>>)
  PROVE  new \in Seq(Seq(Calls)) /\ Longer(hs, new, r)
<1>1. CASE r = <<>>
  <2>1. new = hs \o <<>>
    BY <1>1
  <2>2. new = hs
    BY <2>1, ConcatEmptySeq
  <2> QED
    BY <1>1, <2>2, LenProperties DEF Longer
<1>2. CASE r # <<>>
  <2>1. PICK b : b = <<r>>
    OBVIOUS
  <2>2. b \in Seq(Seq(Calls)) /\ Len(b) = 1 /\ b[1] = r
    BY <2>1
  <2>3. new = hs \o b
    BY <1>2, <2>1
  <2>4. /\ new \in Seq(Seq(Calls)) /\ Len(new) = Len(hs) + Len(b) /\ Len(hs) \in Nat /\ Len(b) \in Nat
        /\ \A j \in 1 .. Len(hs) : new[j] = hs[j]
        /\ \A j \in 1 .. Len(b) : new[Len(hs) + j] = b[j]
    <3>1. PICK S : S = Seq(Calls)
      OBVIOUS
    <3>2. hs \in Seq(S) /\ b \in Seq(S)
      BY <2>2, <3>1
    <3>3. /\ new \in Seq(S) /\ Len(new) = Len(hs) + Len(b) /\ Len(hs) \in Nat /\ Len(b) \in Nat
          /\ \A j \in 1 .. Len(hs) : new[j] = hs[j]
          /\ \A j \in 1 .. Len(b) : new[Len(hs) + j] = b[j]
      BY <2>3, <3>2, Joined
    <3> QED
      BY <3>1, <3>3
  <2>5. new[Len(hs) + 1] = r
    <3>1. 1 \in 1 .. Len(b)
      BY <2>2
    <3> QED
      BY <2>2, <2>4, <3>1
  <2> QED
    BY <1>2, <2>2, <2>4, <2>5 DEF Longer
<1> QED
  BY <1>1, <1>2

\* What holds of every handler holds of the longer sequence.
LEMMA LongerAll ==
  ASSUME NEW hs, NEW new, NEW r, Longer(hs, new, r)
  PROVE  /\ \A j \in 1 .. Len(new) : (j \in 1 .. Len(hs) /\ new[j] = hs[j]) \/ (r # <<>> /\ new[j] = r /\ j = Len(hs) + 1)
         /\ \A j \in 1 .. Len(hs) : j \in 1 .. Len(new) /\ new[j] = hs[j]
         /\ r # <<>> => Len(hs) + 1 \in 1 .. Len(new) /\ new[Len(hs) + 1] = r
<1>1. PICK n, m : n = Len(hs) /\ m = Len(new)
  OBVIOUS
<1>2. /\ n \in Nat /\ m \in Nat /\ (r = <<>> => new = hs)
      /\ r # <<>> => m = n + 1 /\ new[n + 1] = r /\ \A j \in 1 .. n : new[j] = hs[j]
  BY <1>1 DEF Longer
<1>3. CASE r = <<>>
  BY <1>1, <1>2, <1>3
<1>4. CASE r # <<>>
  <2>1. \A j \in 1 .. m : j \in 1 .. n \/ j = n + 1
    BY <1>2, <1>4
  <2>2. \A j \in 1 .. n : j \in 1 .. m
    BY <1>2, <1>4
  <2>3. n + 1 \in 1 .. m
    BY <1>2, <1>4
  <2> QED
    BY <1>1, <1>2, <1>4, <2>1, <2>2, <2>3
<1> QED
  BY <1>3, <1>4

\* What a handler that starts has to log becomes the end of the timeline.
LEMMA EndsLonger ==
  ASSUME NEW hs, NEW new, NEW r, Longer(hs, new, r), NEW tl, NEW x, NEW u, NEW v, Ends(hs, tl, x, u),
         \A q \in LogsOf(r, x) : r[q].to = v, LogsOf(r, x) = {} => v = u
  PROVE  Ends(new, tl, x, v)
<1>1. CASE r = <<>>
  <2>1. LogsOf(r, x) = {}
    BY <1>1 DEF LogsOf
  <2>2. new = hs /\ v = u
    BY <1>1, <2>1 DEF Longer
  <2> QED
    BY <2>2
<1>2. CASE r # <<>>
  <2>1. PICK n : n = Len(hs)
    OBVIOUS
  <2>2. /\ n \in Nat /\ Len(new) = n + 1 /\ new[n + 1] = r
        /\ \A j \in 1 .. n : new[j] = hs[j]
    BY <1>2, <2>1 DEF Longer
  <2>3. ASSUME NEW j \in 1 .. n + 1, \A k \in j + 1 .. n + 1 : LogsOf(new[k], x) = {}, NEW q \in LogsOf(new[j], x)
        PROVE  new[j][q].to = v
    <3>1. CASE j = n + 1
      BY <2>2, <2>3, <3>1
    <3>2. CASE j # n + 1
      <4>1. j \in 1 .. n /\ n + 1 \in j + 1 .. n + 1 /\ \A k \in j + 1 .. n : k \in j + 1 .. n + 1 /\ k \in 1 .. n
        BY <2>2, <3>2
      <4>2. LogsOf(r, x) = {}
        BY <2>2, <2>3, <4>1
      <4>3. v = u
        BY <4>2
      <4>4. \A k \in j + 1 .. n : LogsOf(hs[k], x) = {}
        BY <2>2, <2>3, <4>1
      <4>5. \A m \in LogsOf(hs[j], x) : hs[j][m].to = u
        BY <2>1, <4>1, <4>4 DEF Ends
      <4> QED
        BY <2>2, <2>3, <4>1, <4>3, <4>5
    <3> QED
      BY <3>1, <3>2
  <2>4. ASSUME \A j \in 1 .. n + 1 : LogsOf(new[j], x) = {}
        PROVE  \A p \in 1 .. Len(tl) : tl[p][1] = x /\ LastIn(tl, p) => tl[p][2] = v
    <3>1. n + 1 \in 1 .. n + 1 /\ \A j \in 1 .. n : j \in 1 .. n + 1
      BY <2>2
    <3>2. LogsOf(r, x) = {} /\ \A j \in 1 .. n : LogsOf(hs[j], x) = {}
      BY <2>2, <2>4, <3>1
    <3> QED
      BY <2>1, <3>2 DEF Ends
  <2> QED
    BY <2>2, <2>3, <2>4 DEF Ends
<1> QED
  BY <1>1, <1>2

LEMMA WaitsMore ==
  ASSUME NEW hs, NEW new, NEW r, r # <<>>, Longer(hs, new, r), NEW op, NEW to
  PROVE  /\ r[1] = Call(op, None, to) => Cardinality(Waits(new, op, to)) = Cardinality(Waits(hs, op, to)) + 1
         /\ r[1] # Call(op, None, to) => Cardinality(Waits(new, op, to)) = Cardinality(Waits(hs, op, to))
<1>1. PICK n : n = Len(hs)
  OBVIOUS
<1>2. n \in Nat /\ Len(new) = n + 1 /\ new[n + 1] = r /\ \A j \in 1 .. n : new[j] = hs[j]
  BY <1>1 DEF Longer
<1>3. 1 .. n + 1 = (1 .. n) \union {n + 1} /\ n + 1 \notin 1 .. n
  BY <1>2
<1>4. Waits(new, op, to) = {j \in (1 .. n) \union {n + 1} : new[j][1] = Call(op, None, to)}
  BY <1>2, <1>3 DEF Waits
<1>5. Waits(hs, op, to) = {j \in 1 .. n : hs[j][1] = Call(op, None, to)}
  BY <1>1 DEF Waits
<1>6. n + 1 \notin Waits(hs, op, to)
  BY <1>3, <1>5
<1>7. IsFiniteSet(Waits(hs, op, to))
  BY <1>1, <1>2, WaitsFinite
<1>8. CASE r[1] = Call(op, None, to)
  <2>1. Waits(new, op, to) = Waits(hs, op, to) \union {n + 1}
    BY <1>2, <1>4, <1>5, <1>8
  <2> QED
    BY <1>6, <1>7, <1>8, <2>1, FS_AddElement
<1>9. CASE r[1] # Call(op, None, to)
  <2>1. Waits(new, op, to) = Waits(hs, op, to)
    BY <1>2, <1>3, <1>4, <1>5, <1>9
  <2> QED
    BY <1>9, <2>1
<1> QED
  BY <1>8, <1>9

\* Now, when the event has told.
Will(now, x) ==
  CASE mirror = "blocked" -> x \in now.blocked
    [] mirror = "labels" -> x \in now.labels \union now.tags
    [] mirror = "presence" -> now.state[x]
    [] mirror = "chats" -> now.chat[x[1]][x[2]]

\* What a newsletter's event tells, and the call c it leads to.
Counting(now, c) ==
  /\ \E ch : now = [told EXCEPT !.channel = ch]
  /\ \/ /\ c.op = IF eventStore = "redis" THEN "readViews" ELSE "setViews"
        /\ now.channel = [told.channel EXCEPT !.views = IF c.to > @ THEN c.to ELSE @]
     \/ c.op = "addView" /\ now.channel = [told.channel EXCEPT !.guesses = @ + 1]
     \/ c.op = "react" /\ now.channel = [told.channel EXCEPT !.sum = @ + c.to]

\* What holds of each event: it tells now, and its handler makes calls that bring
\* the rows and the timeline up to it.
Announced(now, calls) ==
  /\ now \in ToldType /\ calls \in Seq(Calls) /\ Proper(calls)
  /\ calls[1].op \notin LogOps \union {"replace", "wipe", "fill", "list", "index", "insertChat", "putViews"}
  /\ mirror = "blocked" => \E b : now = [told EXCEPT !.blocked = b]
  /\ mirror # "channel" => calls[1].op \in RowOps /\ now.channel = told.channel
  /\ mirror = "channel" => Counting(now, calls[1])
  /\ mirror # "channel" /\ calls[1].op # "read" => (Agrees(rows, told) => Agrees(Outcome(calls), now))
  /\ calls[1].op = "read" => mirror = "blocked" /\ now.blocked = calls[1].to
  /\ calls[1].op # "read" =>
       \A x \in Mirrored : /\ \A q \in LogsOf(calls, x) : calls[q].to = Will(now, x)
                           /\ LogsOf(calls, x) = {} => Will(now, x) = Now(x)
  /\ eventStore = "redis" =>
       /\ \A l \in now.labels \ told.labels : Len(calls) > 1 /\ calls[2] = Call("list", l, None)
       /\ \A t \in now.tags \ told.tags : Len(calls) > 1 /\ calls[2] = Call("index", t, None)

\* A list of the blocklist makes up for what was lost before.
LEMMA ListAgrees ==
  ASSUME EventsShape, Untouched, NEW now, NEW calls, Announced(now, calls), mirror # "channel",
         Agrees(rows, told) \/ calls[1].op = "read"
  PROVE  Agrees(Outcome(calls), now)
<1>1. CASE calls[1].op # "read"
  BY <1>1 DEF Announced
<1>2. CASE calls[1].op = "read"
  <2>1. mirror = "blocked" /\ now.blocked = calls[1].to
    BY <1>2 DEF Announced
  <2>2. PICK b : now = [told EXCEPT !.blocked = b]
    BY <2>1 DEF Announced
  <2>3. told \in ToldType /\ rows \in RowsType
    BY FieldsOfRows DEF EventsShape
  <2>4. /\ now.labels = told.labels /\ now.tags = told.tags /\ now.pn = told.pn
        /\ now.state = told.state /\ now.chat = told.chat
    BY <2>2, <2>3 DEF ToldType
  <2>5. PICK p, q : p = [rows EXCEPT !.blocked = told.blocked] /\ q = [rows EXCEPT !.blocked = now.blocked]
    OBVIOUS
  <2>6. /\ q.blocked = now.blocked /\ q.labels = p.labels /\ q.tags = p.tags /\ q.pn = p.pn /\ q.state = p.state /\ q.chat = p.chat
    BY <2>3, <2>5 DEF RowsType
  <2>7. Agrees(p, told)
    BY <2>1, <2>5 DEF Untouched
  <2>8. Agrees(q, now)
    BY <2>4, <2>6, <2>7 DEF Agrees
  <2>9. Outcome(calls) = q
    BY <1>2, <2>1, <2>5 DEF Outcome
  <2> QED
    BY <2>8, <2>9
<1> QED
  BY <1>1, <1>2

\* An event that a handler answers on SQLITE or redis: its first call is made.
Starts(now, calls, ok, r, s) ==
  /\ eventStore \in InOrder /\ Announced(now, calls) /\ ok \in BOOLEAN
  /\ s \in [rows : BOOLEAN, timeline : BOOLEAN, steady : BOOLEAN]
  /\ s.rows <=> (sure.rows /\ ~RowsOvertaken) \/ (calls[1].op = "read" /\ handlers = <<>>)
  /\ s.timeline <=> sure.timeline /\ ~LogsOvertaken
  /\ s.steady <=> sure.steady
  /\ Done(calls, ok, s) /\ Rests(r, calls, ok)
  /\ handlers' \in Seq(Seq(Calls)) /\ Longer(handlers, handlers', r)
  /\ told' = now /\ UNCHANGED <<eventStore, mirror>>

\* What runs when an event comes on SQLITE or redis.
LEMMA OldHandlers ==
  ASSUME EventsShape, eventStore \in InOrder
  PROVE  /\ \A i \in 1 .. Len(handlers) : /\ handlers[i][1].op \in LogOps \union {"replace", "list", "index", "putViews"}
                                          /\ handlers[i][1].op = "putViews" <=> mirror = "channel"
         /\ ~RowsOvertaken => \A i \in 1 .. Len(handlers) : handlers[i][1].op \notin RowOps \union {"putViews"}
         /\ ~LogsOvertaken => \A i \in 1 .. Len(handlers) : Len(handlers[i]) = 1 /\ handlers[i][1].op \in LogOps \union {"putViews"}
<1>1. ASSUME NEW i \in 1 .. Len(handlers)
      PROVE  /\ Head(handlers[i]) = handlers[i][1] /\ Len(handlers[i]) \in Nat /\ Len(handlers[i]) >= 1
             /\ handlers[i][1].op \in LogOps \union {"replace", "list", "index", "putViews"}
             /\ handlers[i][1].op = "putViews" <=> mirror = "channel"
             /\ handlers[i][1].op \in {"list", "index"} => Len(handlers[i]) > 1
  <2>1. handlers[i] \in Seq(Calls) /\ Proper(handlers[i]) /\ Begun(handlers[i])
    BY DEF EventsShape
  <2>2. Head(handlers[i]) = handlers[i][1] /\ Len(handlers[i]) \in Nat /\ Len(handlers[i]) >= 1
    BY <2>1, TailIs DEF Proper
  <2>3. handlers[i][1].op \in LogOps \union {"replace", "list", "index", "putViews"}
    BY <2>1 DEF Begun
  <2>4. 1 \in 1 .. Len(handlers[i])
    BY <2>2
  <2>5. handlers[i][1].op \in OpsOf(mirror) /\ (handlers[i][1].op \in {"list", "index"} => Len(handlers[i]) > 1)
    BY <2>1, <2>4 DEF Proper
  <2>6. handlers[i][1].op = "putViews" <=> mirror = "channel"
    BY <2>3, <2>5 DEF OpsOf, ChannelOps, LogOps, EventsShape
  <2> QED
    BY <2>2, <2>3, <2>5, <2>6
<1>2. ASSUME ~RowsOvertaken, NEW i \in 1 .. Len(handlers) PROVE handlers[i][1].op \notin RowOps \union {"putViews"}
  <2>1. handlers[i][1].op \notin {"replace", "putViews"}
    BY <1>1, <1>2 DEF RowsOvertaken
  <2> QED
    BY <1>1, <2>1 DEF RowOps, LogOps
<1>3. ASSUME ~LogsOvertaken, NEW i \in 1 .. Len(handlers)
      PROVE  Len(handlers[i]) = 1 /\ handlers[i][1].op \in LogOps \union {"putViews"}
  <2>1. ~(Len(handlers[i]) > 1) /\ Head(handlers[i]).op # "replace"
    BY <1>3 DEF LogsOvertaken
  <2>2. Len(handlers[i]) = 1
    <3>1. PICK n : n = Len(handlers[i])
      OBVIOUS
    <3>2. n \in Nat /\ n >= 1 /\ ~(n > 1)
      BY <1>1, <2>1, <3>1
    <3>3. n = 1
      BY <3>2
    <3> QED
      BY <3>1, <3>3
  <2> QED
    BY <1>1, <2>1, <2>2
<1> QED
  BY <1>1, <1>2, <1>3

LEMMA StartsShape ==
  ASSUME EventsShape, NEW now, NEW calls, NEW ok, NEW r, NEW s, Starts(now, calls, ok, r, s)
  PROVE  EventsShape'
<1>1. /\ now \in ToldType /\ calls \in Seq(Calls) /\ Proper(calls) /\ ok \in BOOLEAN
      /\ Done(calls, ok, s) /\ Rests(r, calls, ok) /\ handlers' \in Seq(Seq(Calls)) /\ Longer(handlers, handlers', r)
      /\ told' = now /\ eventStore' = eventStore /\ mirror' = mirror
  BY DEF Starts, Announced
<1>2. \A j \in 1 .. Len(handlers') : Proper(handlers'[j]) /\ Begun(handlers'[j])
  <2>1. r # <<>> => Proper(r) /\ Begun(r)
    BY <1>1 DEF Rests
  <2>2. \A k \in 1 .. Len(handlers) : Proper(handlers[k]) /\ Begun(handlers[k])
    BY DEF EventsShape
  <2>3. \A j \in 1 .. Len(handlers') :
          (j \in 1 .. Len(handlers) /\ handlers'[j] = handlers[j]) \/ (r # <<>> /\ handlers'[j] = r /\ j = Len(handlers) + 1)
    BY <1>1, LongerAll
  <2> QED
    BY <2>1, <2>2, <2>3
<1>3. \A j \in 1 .. Len(handlers') : Proper(handlers[j])' /\ Begun(handlers[j])'
  BY <1>1, <1>2 DEF Proper, Begun
<1>4. /\ timeline' \in Seq(LoggedIds \X (BOOLEAN \union Presences))
      /\ lastLogged' \in [Contacts -> Presences \union {None}]
      /\ rows' \in RowsType /\ sure' \in [rows : BOOLEAN, timeline : BOOLEAN, steady : BOOLEAN]
  BY <1>1, DoneShape
<1> QED
  BY <1>1, <1>3, <1>4 DEF EventsShape

\* The calls of a newsletter's event are not about the rows that are compared.
LEMMA ChannelAgrees ==
  ASSUME EventsShape, mirror = "channel", NEW now, NEW c, Counting(now, c), NEW r, Agrees(r, told)
  PROVE  Agrees(r, now)
<1>1. PICK ch : now = [told EXCEPT !.channel = ch]
  BY DEF Counting
<1>2. told \in ToldType
  BY DEF EventsShape
<1>3. /\ now.blocked = told.blocked /\ now.labels = told.labels /\ now.tags = told.tags /\ now.pn = told.pn
      /\ now.state = told.state /\ now.chat = told.chat
  BY <1>1, <1>2 DEF ToldType
<1> QED
  BY <1>3 DEF Agrees

LEMMA StartsRows ==
  ASSUME EventsShape, RowsKnown, Untouched, NEW now, NEW calls, NEW ok, NEW r, NEW s, Starts(now, calls, ok, r, s)
  PROVE  RowsKnown'
<1>1. /\ now \in ToldType /\ calls \in Seq(Calls) /\ Proper(calls) /\ ok \in BOOLEAN /\ eventStore \in InOrder
      /\ s.rows <=> (sure.rows /\ ~RowsOvertaken) \/ (calls[1].op = "read" /\ handlers = <<>>)
      /\ Done(calls, ok, s) /\ Rests(r, calls, ok) /\ handlers' \in Seq(Seq(Calls)) /\ Longer(handlers, handlers', r)
      /\ told' = now /\ eventStore' = eventStore /\ mirror' = mirror /\ Announced(now, calls)
  BY DEF Starts, Announced
<1> SUFFICES ASSUME sure'.rows
             PROVE  /\ \A j, k \in 1 .. Len(handlers') : Writing(j)' /\ Writing(k)' => j = k
                    /\ \A j \in 1 .. Len(handlers') : Writing(j)' => Agrees(Outcome(handlers[j])', told')
                    /\ (\A j \in 1 .. Len(handlers') : ~Writing(j)') => Agrees(rows', told')
                    /\ \A j \in 1 .. Len(handlers') : handlers'[j][1].op = "fill" => rows'.blocked = {}
                    /\ eventStore' = "redis" =>
                         /\ \A l \in told'.labels : l \in rows'.listed
                              \/ \E j \in 1 .. Len(handlers') : handlers'[j][1] = Call("list", l, None)
                         /\ \A t \in told'.tags : t \in rows'.index
                              \/ \E j \in 1 .. Len(handlers') : handlers'[j][1] = Call("index", t, None)
  BY DEF RowsKnown, Writing
<1> DEFINE c == calls[1]
<1>2. /\ c \in Calls /\ (ok => rows' = Written(c)) /\ (~ok => rows' = rows) /\ s.rows
      /\ c.op \in {"read", "log", "transition"} \/ (ok /\ ~Misses(c))
  BY <1>1 DEF Done
<1>3. (sure.rows /\ ~RowsOvertaken) \/ (c.op = "read" /\ handlers = <<>>)
  BY <1>1, <1>2
<1>4. \A i \in 1 .. Len(handlers) : handlers[i][1].op \notin RowOps
  BY <1>1, <1>3, OldHandlers
<1>5. sure.rows => Agrees(rows, told)
  BY <1>4 DEF RowsKnown, Writing
<1>6. c.op \notin LogOps
  BY <1>1 DEF Announced
<1>7. c.op = "read" \/ (ok /\ ~Misses(c))
  BY <1>2, <1>6 DEF LogOps
<1>8. /\ \A j \in 1 .. Len(handlers') : (j \in 1 .. Len(handlers) /\ handlers'[j] = handlers[j]) \/ (r # <<>> /\ handlers'[j] = r /\ j = Len(handlers) + 1)
      /\ \A j \in 1 .. Len(handlers) : j \in 1 .. Len(handlers') /\ handlers'[j] = handlers[j]
      /\ r # <<>> => Len(handlers) + 1 \in 1 .. Len(handlers') /\ handlers'[Len(handlers) + 1] = r
  BY <1>1, LongerAll
<1>9. \/ (r = <<>> \/ r[1].op \notin RowOps) /\ Agrees(rows', now)
      \/ /\ r # <<>> /\ r[1].op \in RowOps /\ Agrees(Outcome(r)', now)
         /\ r[1].op = "fill" => rows'.blocked = {}
  <2>1. CASE mirror # "channel"
    <3>1. Agrees(Outcome(calls), now) /\ c.op \in RowOps
      <4>1. Agrees(rows, told) \/ c.op = "read"
        BY <1>3, <1>5
      <4> QED
        BY <1>1, <2>1, <4>1, ListAgrees DEF Announced
    <3> QED
      BY <1>1, <1>2, <1>7, <3>1, WritesOut
  <2>2. CASE mirror = "channel"
    <3>1. Counting(now, c) /\ c.op # "read"
      BY <1>1, <2>2 DEF Announced
    <3>2. c.op \in {"readViews", "setViews", "addView", "react"}
      BY <3>1 DEF Counting
    <3>3. Agrees(rows', told)
      BY <1>2, <1>3, <1>5, <3>1, <3>2, QuietAgrees DEF RowOps
    <3>4. Agrees(rows', now)
      BY <2>2, <3>1, <3>3, ChannelAgrees
    <3>5. r # <<>> => r[1].op \notin RowOps
      <4>1. r # <<>> => r[1].op \in LogOps \union {"fill", "list", "index", "replace", "wipe", "putViews"}
                        /\ (r[1].op \in {"replace", "wipe"} <=> c.op = "read") /\ (r[1].op = "fill" => c.op = "wipe")
        BY <1>1, RestOps
      <4> QED
        BY <3>2, <4>1 DEF RowOps, LogOps
    <3> QED
      BY <3>4, <3>5
  <2> QED
    BY <2>1, <2>2
<1>10. /\ \A j, k \in 1 .. Len(handlers') : Writing(j)' /\ Writing(k)' => j = k
       /\ \A j \in 1 .. Len(handlers') : Writing(j)' => handlers'[j] = r /\ r # <<>> /\ r[1].op \in RowOps
  BY <1>4, <1>8 DEF Writing
<1>11. \A j \in 1 .. Len(handlers') : Writing(j)' => Agrees(Outcome(handlers[j])', told')
  <2> SUFFICES ASSUME NEW j \in 1 .. Len(handlers'), Writing(j)' PROVE Agrees(Outcome(handlers[j])', told')
    OBVIOUS
  <2>1. handlers'[j] = r /\ r # <<>> /\ r[1].op \in RowOps
    BY <1>10
  <2>2. Outcome(handlers[j])' = Outcome(r)'
    BY <2>1 DEF Outcome
  <2>3. Agrees(Outcome(r)', now)
    BY <1>9, <2>1
  <2> QED
    BY <1>1, <2>2, <2>3
<1>12. (\A j \in 1 .. Len(handlers') : ~Writing(j)') => Agrees(rows', told')
  BY <1>1, <1>8, <1>9 DEF Writing
<1>13. \A j \in 1 .. Len(handlers') : handlers'[j][1].op = "fill" => rows'.blocked = {}
  BY <1>9, <1>10 DEF Writing, RowOps
<1>14. ASSUME eventStore = "redis"
       PROVE  /\ \A l \in now.labels : l \in rows'.listed
                   \/ \E j \in 1 .. Len(handlers') : handlers'[j][1] = Call("list", l, None)
              /\ \A t \in now.tags : t \in rows'.index
                   \/ \E j \in 1 .. Len(handlers') : handlers'[j][1] = Call("index", t, None)
  <2>1. CASE c.op = "read"
    <3>1. mirror = "blocked"
      BY <1>1, <2>1 DEF Announced
    <3>2. PICK b : now = [told EXCEPT !.blocked = b]
      BY <1>1, <3>1 DEF Announced
    <3>3. told.labels = {} /\ told.tags = {}
      BY <3>1 DEF Untouched
    <3>4. told \in ToldType
      BY DEF EventsShape
    <3>5. now.labels = {} /\ now.tags = {}
      BY <3>2, <3>3, <3>4 DEF ToldType
    <3> QED
      BY <3>5
  <2>2. CASE c.op # "read"
    <3>1. sure.rows /\ ok
      BY <1>3, <1>7, <2>2
    <3>2. /\ \A l \in told.labels : l \in rows.listed \/ \E j \in 1 .. Len(handlers) : handlers[j][1] = Call("list", l, None)
          /\ \A t \in told.tags : t \in rows.index \/ \E j \in 1 .. Len(handlers) : handlers[j][1] = Call("index", t, None)
      BY <1>14, <3>1 DEF RowsKnown
    <3>3. rows.listed \subseteq rows'.listed /\ rows.index \subseteq rows'.index
      BY <1>2, Grows
    <3>4. /\ \A l \in now.labels \ told.labels : Len(calls) > 1 /\ calls[2] = Call("list", l, None)
          /\ \A t \in now.tags \ told.tags : Len(calls) > 1 /\ calls[2] = Call("index", t, None)
      BY <1>1, <1>14 DEF Announced
    <3>5. Len(calls) > 1 => r # <<>> /\ r[1] = calls[2]
      <4>1. ASSUME Len(calls) > 1 PROVE r # <<>> /\ r[1] = calls[2]
        <5>1. c.op # "readViews"
          BY <1>1, <4>1 DEF Proper, ChannelOps
        <5>2. Len(r) = Len(calls) - 1 /\ r[1] = calls[2]
          BY <1>1, <2>2, <3>1, <4>1, <5>1 DEF Rests
        <5>3. Len(calls) \in Nat
          BY <1>1, LenProperties
        <5>4. Len(r) # 0
          BY <4>1, <5>2, <5>3
        <5>5. r # <<>>
          BY <5>4
        <5> QED
          BY <5>2, <5>5
      <4> QED
        BY <4>1
    <3> QED
      BY <1>8, <3>2, <3>3, <3>4, <3>5
  <2> QED
    BY <2>1, <2>2
<1> QED
  BY <1>1, <1>10, <1>11, <1>12, <1>13, <1>14

LEMMA StartsInTurn ==
  ASSUME EventsShape, NEW now, NEW calls, NEW ok, NEW r, NEW s, Starts(now, calls, ok, r, s)
  PROVE  OneEvent' /\ LogsInOrder'
<1>1. /\ eventStore \in InOrder /\ eventStore' = eventStore /\ mirror' = mirror
      /\ s.timeline <=> sure.timeline /\ ~LogsOvertaken
      /\ Done(calls, ok, s) /\ Longer(handlers, handlers', r)
  BY DEF Starts
<1>2. sure'.timeline => s.timeline
  BY <1>1 DEF Done
<1>3. OneEvent'
  BY <1>1 DEF OneEvent, InOrder, Pools
<1>4. ASSUME mirror # "channel", sure'.timeline, NEW j \in 1 .. Len(handlers'), NEW k \in 1 .. Len(handlers'), j < k
      PROVE  Len(handlers'[j]) = 1 /\ handlers'[j][1].op \in LogOps
  <2>1. \A i \in 1 .. Len(handlers) : Len(handlers[i]) = 1 /\ handlers[i][1].op \in LogOps
    <3>1. \A i \in 1 .. Len(handlers) : /\ Len(handlers[i]) = 1 /\ handlers[i][1].op \in LogOps \union {"putViews"}
                                        /\ handlers[i][1].op = "putViews" <=> mirror = "channel"
      BY <1>1, <1>2, <1>4, OldHandlers
    <3> QED
      BY <1>4, <3>1
  <2>2. j \in 1 .. Len(handlers) /\ handlers'[j] = handlers[j]
    <3>1. PICK n, m : n = Len(handlers) /\ m = Len(handlers')
      OBVIOUS
    <3>2. n \in Nat /\ m \in Nat /\ (m = n \/ m = n + 1)
      BY <1>1, <3>1 DEF Longer
    <3>3. j # n + 1
      BY <1>4, <3>1, <3>2
    <3>4. (j \in 1 .. Len(handlers) /\ handlers'[j] = handlers[j]) \/ j = Len(handlers) + 1
      BY <1>1, LongerAll
    <3> QED
      BY <3>1, <3>3, <3>4
  <2> QED
    BY <2>1, <2>2
<1>5. LogsInOrder'
  BY <1>1, <1>4 DEF LogsInOrder
<1> QED
  BY <1>3, <1>5

LEMMA StartsAside ==
  ASSUME EventsShape, Reversed, Untouched, LastKnown, NEW now, NEW calls, NEW ok, NEW r, NEW s,
         Starts(now, calls, ok, r, s)
  PROVE  Reversed' /\ Untouched' /\ LastKnown'
<1>1. /\ now \in ToldType /\ calls \in Seq(Calls) /\ Proper(calls) /\ ok \in BOOLEAN
      /\ s.timeline <=> sure.timeline /\ ~LogsOvertaken
      /\ s.steady <=> sure.steady
      /\ Done(calls, ok, s) /\ told' = now /\ eventStore' = eventStore /\ mirror' = mirror /\ Announced(now, calls)
  BY DEF Starts, Announced
<1>2. calls[1] \in Calls /\ (rows' = rows \/ rows' = Written(calls[1]))
  BY <1>1 DEF Done
<1>3. calls[1].op \in OpsOf(mirror)
  <2>1. 1 \in 1 .. Len(calls)
    BY <1>1, TailIs DEF Proper
  <2> QED
    BY <1>1, <2>1 DEF Proper
<1>4. (mirror = "blocked" => \E b : told' = [told EXCEPT !.blocked = b]) /\ (mirror # "channel" => told'.channel = told.channel)
  BY <1>1 DEF Announced
<1>5. Reversed'
  BY <1>1, <1>2, ReversedStays
<1>6. Untouched'
  BY <1>1, <1>2, <1>3, <1>4, UntouchedStays
<1>7. LastKnown'
  BY <1>1, DoneKnown
<1> QED
  BY <1>5, <1>6, <1>7

LEMMA StartsTimeline ==
  ASSUME EventsShape, RowsKnown, TimelineKnown, NEW now, NEW calls, NEW ok, NEW r, NEW s,
         Starts(now, calls, ok, r, s)
  PROVE  TimelineKnown'
<1>1. /\ now \in ToldType /\ calls \in Seq(Calls) /\ Proper(calls) /\ ok \in BOOLEAN /\ eventStore \in InOrder
      /\ s.rows <=> (sure.rows /\ ~RowsOvertaken) \/ (calls[1].op = "read" /\ handlers = <<>>)
      /\ s.timeline <=> sure.timeline /\ ~LogsOvertaken
      /\ Done(calls, ok, s) /\ Rests(r, calls, ok) /\ handlers' \in Seq(Seq(Calls)) /\ Longer(handlers, handlers', r)
      /\ told' = now /\ eventStore' = eventStore /\ mirror' = mirror /\ Announced(now, calls)
  BY DEF Starts, Announced
<1>2. Len(timeline') \in Nat
  BY <1>1, DoneShape, LenProperties
<1> SUFFICES ASSUME sure'.timeline
             PROVE  /\ mirror = "blocked" => sure'.rows
                    /\ Reading' => \A x \in Mirrored : \A v : v = (x \in rows'.blocked) => Ends(handlers', timeline', x, v)
                    /\ ~Reading' => \A x \in Mirrored : \A v : v = Will(now, x) => Ends(handlers', timeline', x, v)
  <2>1. Mirrored' = Mirrored
    BY <1>1 DEF Mirrored
  <2>2. \A x : Now(x)' = Will(now, x)
    BY <1>1 DEF Now, Will
  <2>3. ASSUME sure'.timeline
        PROVE  /\ mirror' = "blocked" => sure'.rows
               /\ Reading' => \A x \in Mirrored' : \A v : v = (x \in rows'.blocked) => Ends(handlers', timeline', x, v)
               /\ ~Reading' => \A x \in Mirrored' : \A v : v = Now(x)' => Ends(handlers', timeline', x, v)
    BY <1>1, <2>1, <2>2, <2>3
  <2> QED
    BY <1>2, <2>3, TimelineNext
<1> DEFINE c == calls[1]
<1>3. /\ c \in Calls /\ sure.timeline /\ ~LogsOvertaken /\ ok /\ (c.op # "updateChat" => sure'.rows = s.rows)
      /\ rows' = Written(c)
  BY <1>1 DEF Done
<1>4. c.op \in OpsOf(mirror) /\ c.op \notin LogOps
  <2>1. 1 \in 1 .. Len(calls)
    BY <1>1, TailIs DEF Proper
  <2> QED
    BY <1>1, <2>1 DEF Proper, Announced
<1>5. timeline' = timeline
  <2>1. ~(ok /\ (calls[1].op = "log" \/ Transition(calls[1])))
    BY <1>4 DEF Transition, LogOps
  <2> QED
    BY <1>1, <2>1, Adds
<1>6. \A i \in 1 .. Len(handlers) : Len(handlers[i]) = 1 /\ handlers[i][1].op \in LogOps \union {"putViews"}
                                   /\ (handlers[i][1].op = "putViews" <=> mirror = "channel")
  BY <1>1, <1>3, OldHandlers
<1>7. ~Reading
  BY <1>6 DEF Reading, LogOps
<1>8. /\ mirror = "blocked" => sure.rows
      /\ \A x \in Mirrored : \A v : v = Now(x) => Ends(handlers, timeline, x, v)
  BY <1>3, <1>7, TimelineIs
<1>9. ~Reading'
  <2>1. \A j \in 1 .. Len(handlers') :
          (j \in 1 .. Len(handlers) /\ handlers'[j] = handlers[j]) \/ (r # <<>> /\ handlers'[j] = r /\ j = Len(handlers) + 1)
    BY <1>1, LongerAll
  <2>2. r # <<>> => r[1].op # "read"
    BY <1>1, RestOps DEF LogOps
  <2> QED
    BY <1>6, <2>1, <2>2 DEF Reading, LogOps
<1>10. mirror = "blocked" => sure'.rows
  <2> SUFFICES ASSUME mirror = "blocked" PROVE sure'.rows
    OBVIOUS
  <2>1. ~RowsOvertaken
    <3>1. \A i \in 1 .. Len(handlers) : handlers[i][1].op \in LogOps
      BY <1>6
    <3>2. \A i \in 1 .. Len(handlers) : Head(handlers[i]) = handlers[i][1]
      BY TailIs DEF EventsShape, Proper
    <3> QED
      BY <1>1, <3>1, <3>2 DEF RowsOvertaken, LogOps
  <2>2. s.rows
    BY <1>1, <1>8, <2>1
  <2>3. c.op # "updateChat"
    BY <1>4 DEF OpsOf
  <2> QED
    BY <1>3, <2>2, <2>3
<1>11. CASE mirror \in {"channel", "lids"}
  BY <1>10, <1>11 DEF Mirrored
<1>12. CASE mirror \notin {"channel", "lids"} /\ c.op = "read"
  <2>1. mirror = "blocked" /\ now.blocked = c.to
    BY <1>1, <1>12 DEF Announced
  <2>2. Mirrored = Contacts
    BY <2>1 DEF Mirrored
  <2>3. rows.blocked = told.blocked
    <3>1. \A i \in 1 .. Len(handlers) : ~Writing(i)
      BY <1>6 DEF Writing, LogOps, RowOps
    <3>2. Agrees(rows, told)
      BY <1>8, <2>1, <3>1 DEF RowsKnown
    <3> QED
      BY <3>2 DEF Agrees
  <2>4. DiffFrom(r, now.blocked, told.blocked)
    BY <1>1, <1>3, <1>12, <2>1, <2>3 DEF Rests
  <2>5. ASSUME NEW x \in Contacts, NEW v, v = Will(now, x) PROVE Ends(handlers', timeline', x, v)
    <3>1. PICK u : u = Now(x)
      OBVIOUS
    <3>2. Ends(handlers, timeline, x, u)
      BY <1>8, <2>2, <3>1
    <3>3. v = (x \in now.blocked) /\ u = (x \in told.blocked)
      BY <2>1, <2>5, <3>1 DEF Now, Will
    <3>4. \A q \in LogsOf(r, x) : r[q].to = v
      BY <2>4, <3>3 DEF DiffFrom, LogsOf
    <3>5. LogsOf(r, x) = {} => v = u
      <4>1. ASSUME LogsOf(r, x) = {} PROVE v = u
        <5>1. x \in now.blocked <=> x \in told.blocked
          BY <2>4, <4>1 DEF DiffFrom, LogsOf
        <5> QED
          BY <3>3, <5>1
      <4> QED
        BY <4>1
    <3>6. Ends(handlers', timeline, x, v)
      BY <1>1, <3>2, <3>4, <3>5, EndsLonger
    <3> QED
      BY <1>5, <3>6
  <2> QED
    BY <1>9, <1>10, <2>2, <2>5
<1>13. CASE mirror \notin {"channel", "lids"} /\ c.op # "read"
  <2>1. c.op # "readViews"
    BY <1>4, <1>13 DEF OpsOf, EventsShape
  <2>2. Same(r, calls)
    BY <1>1, <1>13, <2>1 DEF Rests
  <2>3. ASSUME NEW x \in Mirrored, NEW v, v = Will(now, x) PROVE Ends(handlers', timeline', x, v)
    <3>1. PICK u : u = Now(x)
      OBVIOUS
    <3>2. Ends(handlers, timeline, x, u)
      BY <1>8, <3>1
    <3>3. (\A q \in LogsOf(calls, x) : calls[q].to = v) /\ (LogsOf(calls, x) = {} => v = u)
      BY <1>1, <1>13, <2>3, <3>1 DEF Announced
    <3>4. Len(calls) \in Nat
      BY <1>1, LenProperties
    <3>5. \A q \in LogsOf(r, x) : r[q].to = v
      <4> TAKE q \in LogsOf(r, x)
      <4>1. q \in 1 .. Len(r) /\ r[q].op \in LogOps /\ r[q].id = x
        BY DEF LogsOf
      <4>2. PICK k \in 2 .. Len(calls) : calls[k] = r[q]
        BY <2>2, <4>1 DEF Same
      <4>3. k \in 1 .. Len(calls)
        BY <3>4
      <4>4. k \in LogsOf(calls, x)
        BY <4>1, <4>2, <4>3 DEF LogsOf
      <4> QED
        BY <3>3, <4>2, <4>4
    <3>6. LogsOf(r, x) = {} => LogsOf(calls, x) = {}
      <4>1. ASSUME NEW k \in LogsOf(calls, x) PROVE LogsOf(r, x) # {}
        <5>1. k \in 1 .. Len(calls) /\ calls[k].op \in LogOps /\ calls[k].id = x
          BY DEF LogsOf
        <5>2. k # 1
          BY <1>4, <5>1
        <5>3. k \in 2 .. Len(calls)
          BY <3>4, <5>1, <5>2
        <5>4. PICK q \in 1 .. Len(r) : r[q] = calls[k]
          BY <2>2, <5>1, <5>3 DEF Same
        <5>5. q \in LogsOf(r, x)
          BY <5>1, <5>4 DEF LogsOf
        <5> QED
          BY <5>5
      <4> QED
        BY <4>1
    <3>7. LogsOf(r, x) = {} => v = u
      BY <3>3, <3>6
    <3>8. Ends(handlers', timeline, x, v)
      BY <1>1, <3>2, <3>5, <3>7, EndsLonger
    <3> QED
      BY <1>5, <3>8
  <2> QED
    BY <1>9, <1>10, <2>3
<1> QED
  BY <1>11, <1>12, <1>13

LEMMA NoneWaits == \A op, to : Cardinality(Waits(<<>>, op, to)) = 0
<1>1. \A op, to : Waits(<<>>, op, to) = {}
  BY DEF Waits
<1> QED
  BY <1>1, FS_EmptySet

\* What an event counts.
LEMMA CountingIs ==
  ASSUME EventsShape, NEW now \in ToldType, NEW c, Counting(now, c), NEW t, NEW was, t = now.channel, was = told.channel
  PROVE  /\ was.views \in Nat /\ was.guesses \in Nat /\ was.sum \in Int
         /\ t.views \in Nat /\ t.guesses \in Nat /\ t.sum \in Int
         /\ c.op \in {"readViews", "setViews", "addView", "react"}
         /\ c.op \in {"readViews", "setViews"} =>
              t.views = (IF c.to > was.views THEN c.to ELSE was.views) /\ t.guesses = was.guesses /\ t.sum = was.sum
         /\ c.op = "addView" => t.views = was.views /\ t.guesses = was.guesses + 1 /\ t.sum = was.sum
         /\ c.op = "react" => t.views = was.views /\ t.guesses = was.guesses /\ t.sum = was.sum + c.to
<1>1. was \in ChannelRows /\ t \in ChannelRows
  BY DEF EventsShape, ToldType
<1>2. \/ c.op \in {"readViews", "setViews"} /\ t = [was EXCEPT !.views = IF c.to > @ THEN c.to ELSE @]
      \/ c.op = "addView" /\ t = [was EXCEPT !.guesses = @ + 1]
      \/ c.op = "react" /\ t = [was EXCEPT !.sum = @ + c.to]
  BY DEF Counting
<1> QED
  BY <1>1, <1>2 DEF ChannelRows

LEMMA StartsChannel ==
  ASSUME EventsShape, ChannelKnown, NEW now, NEW calls, NEW ok, NEW r, NEW s, Starts(now, calls, ok, r, s)
  PROVE  ChannelKnown'
<1>1. /\ now \in ToldType /\ calls \in Seq(Calls) /\ Proper(calls) /\ ok \in BOOLEAN /\ eventStore \in InOrder
      /\ s.rows <=> (sure.rows /\ ~RowsOvertaken) \/ (calls[1].op = "read" /\ handlers = <<>>)
      /\ Done(calls, ok, s) /\ Rests(r, calls, ok) /\ Longer(handlers, handlers', r)
      /\ told' = now /\ eventStore' = eventStore /\ mirror' = mirror /\ Announced(now, calls)
  BY DEF Starts, Announced
<1> SUFFICES ASSUME mirror = "channel", sure'.rows PROVE Counted(rows'.channel, now.channel, handlers')
  BY <1>1 DEF ChannelKnown
<1>2. PICK c, new, ch, t, was, had : c = calls[1] /\ new = handlers' /\ ch = rows'.channel /\ t = now.channel
                                      /\ was = rows.channel /\ had = told.channel
  OBVIOUS
<1>3. Counting(now, c)
  BY <1>1, <1>2 DEF Announced
<1>4. /\ had.views \in Nat /\ had.guesses \in Nat /\ had.sum \in Int
      /\ t.views \in Nat /\ t.guesses \in Nat /\ t.sum \in Int
      /\ c.op \in {"readViews", "setViews", "addView", "react"}
      /\ c.op \in {"readViews", "setViews"} =>
           t.views = (IF c.to > had.views THEN c.to ELSE had.views) /\ t.guesses = had.guesses /\ t.sum = had.sum
      /\ c.op = "addView" => t.views = had.views /\ t.guesses = had.guesses + 1 /\ t.sum = had.sum
      /\ c.op = "react" => t.views = had.views /\ t.guesses = had.guesses /\ t.sum = had.sum + c.to
  BY <1>1, <1>2, <1>3, CountingIs
<1>5. c \in Calls /\ s.rows /\ ok /\ rows' = Written(c)
  BY <1>1, <1>2, <1>4 DEF Done
<1>6. sure.rows /\ ~RowsOvertaken
  BY <1>1, <1>2, <1>4, <1>5
<1>7. handlers = <<>>
  <2>1. \A i \in 1 .. Len(handlers) : FALSE
    BY <1>1, <1>6, OldHandlers DEF RowOps
  <2>2. Len(handlers) \in Nat /\ handlers \in Seq(Seq(Calls))
    BY DEF EventsShape
  <2>3. PICK n : n = Len(handlers)
    OBVIOUS
  <2>4. n \in Nat /\ 1 \notin 1 .. n
    BY <2>1, <2>2, <2>3
  <2>5. n = 0
    BY <2>4
  <2> QED
    BY <2>2, <2>3, <2>5, EmptySeq
<1>8. Counted(was, had, <<>>)
  BY <1>2, <1>6, <1>7 DEF ChannelKnown
<1>9. was \in ChannelRows /\ was.views \in Nat /\ was.guesses \in Nat /\ was.sum \in Int
  BY <1>2, FieldsOfRows DEF RowsType, ChannelRows
<1>10. was.views <= had.views + had.guesses /\ was.views >= had.views /\ was.sum = had.sum
  <2>1. /\ was.views + 0 <= had.views + had.guesses
        /\ was.sum + 0 = had.sum + 0
        /\ \/ was.views >= had.views
           \/ \E i \in 1 .. Len(<<>>) : <<>>[i][1].op \in {"setViews", "putViews"} /\ <<>>[i][1].to = had.views
    BY <1>8, NoneWaits DEF Counted
  <2> QED
    BY <1>4, <1>9, <2>1
<1>11. /\ c.op = "setViews" => ch = [was EXCEPT !.views = IF c.to > @ THEN c.to ELSE @]
       /\ c.op = "addView" => ch = [was EXCEPT !.views = @ + 1]
       /\ c.op = "react" => ch = [was EXCEPT !.sum = @ + c.to]
       /\ c.op = "readViews" => ch = was
  BY <1>2, <1>4, <1>5, ChannelWritten DEF ChannelOps
<1>12. (c.op \in {"readViews", "setViews"} => c.to \in Nat) /\ (c.op = "react" => c.to \in {1, -1})
  BY <1>5, CallTypes
<1>13. CASE r = <<>>
  <2>1. new = <<>>
    BY <1>1, <1>2, <1>7, <1>13 DEF Longer
  <2>2. c.op = "readViews" => c.to <= was.views
    BY <1>1, <1>2, <1>5, <1>13, <1>12 DEF Rests
  <2>3. ch.views <= t.views + t.guesses /\ ch.views >= t.views /\ ch.sum = t.sum
    <3>1. CASE c.op \in {"readViews", "setViews"}
      <4>1. ch.sum = was.sum /\ ch.views = IF c.to > was.views THEN c.to ELSE was.views
        BY <1>9, <1>11, <1>12, <2>2, <3>1 DEF ChannelRows
      <4> QED
        BY <1>4, <1>9, <1>10, <1>12, <3>1, <4>1
    <3>2. CASE c.op = "addView"
      BY <1>4, <1>9, <1>10, <1>11, <3>2 DEF ChannelRows
    <3>3. CASE c.op = "react"
      BY <1>4, <1>9, <1>10, <1>11, <1>12, <3>3 DEF ChannelRows
    <3> QED
      BY <1>4, <3>1, <3>2, <3>3
  <2>4. ch.views \in Int /\ ch.sum \in Int
    <3>1. CASE c.op \in {"readViews", "setViews"}
      BY <1>9, <1>11, <1>12, <3>1 DEF ChannelRows
    <3>2. CASE c.op \in {"addView", "react"}
      BY <1>9, <1>11, <1>12, <3>2 DEF ChannelRows
    <3> QED
      BY <1>4, <3>1, <3>2
  <2>5. PICK z : z = 0
    OBVIOUS
  <2>6. \A op, to : Cardinality(Waits(new, op, to)) = z
    BY <2>1, <2>5, NoneWaits
  <2>7. z <= t.guesses /\ ch.views + z <= t.views + t.guesses /\ ch.sum + z = t.sum + z
    BY <1>4, <2>3, <2>4, <2>5
  <2>8. Counted(ch, t, new)
    BY <2>1, <2>3, <2>6, <2>7 DEF Counted
  <2> QED
    BY <1>2, <2>8
<1>14. CASE r # <<>>
  <2>1. c.op = "readViews"
    BY <1>1, <1>2, <1>3, <1>4, <1>14 DEF Rests, Announced, Proper, ChannelOps
  <2>2. r = <<Call("putViews", None, c.to)>> /\ c.to > was.views
    BY <1>1, <1>2, <1>14, <2>1 DEF Rests
  <2>3. Len(<<>>) = 0
    OBVIOUS
  <2>4. Longer(<<>>, new, r)
    BY <1>1, <1>2, <1>7
  <2>5. Len(new) = 1 /\ new[1] = r
    BY <1>14, <2>3, <2>4 DEF Longer
  <2>6. r[1] = Call("putViews", None, c.to)
    BY <2>2
  <2>7. r[1].op = "putViews" /\ r[1].to = c.to
    BY <2>6, CallIs
  <2>8. \A to : r[1] # Call("addView", None, to) /\ r[1] # Call("react", None, to)
    BY <2>7, CallIs
  <2>9. PICK z : z = 0
    OBVIOUS
  <2>10. /\ Cardinality(Waits(new, "addView", None)) = z
         /\ Cardinality(Waits(new, "react", 1)) = z /\ Cardinality(Waits(new, "react", -1)) = z
    BY <1>14, <2>4, <2>8, <2>9, NoneWaits, WaitsMore
  <2>11. t.views = c.to /\ ch = was /\ t.guesses = had.guesses /\ t.sum = had.sum
    BY <1>4, <1>9, <1>10, <1>11, <1>12, <2>1, <2>2
  <2>12. z <= t.guesses /\ ch.views + z <= t.views + t.guesses /\ ch.sum + z = t.sum + z /\ ch.views <= c.to
    BY <1>4, <1>9, <1>10, <1>12, <2>1, <2>2, <2>9, <2>11
  <2>13. \A j \in 1 .. Len(new) : j = 1 /\ new[j][1].op = "putViews" /\ new[j][1].to = c.to
    BY <2>5, <2>7
  <2>14. 1 \in 1 .. Len(new)
    BY <2>5
  <2>15. c.to <= t.views
    BY <1>4, <2>11
  <2>16. Counted(ch, t, new)
    BY <2>10, <2>11, <2>12, <2>13, <2>14, <2>15 DEF Counted
  <2> QED
    BY <1>2, <2>16
<1> QED
  BY <1>13, <1>14

LEMMA StartsKeeps ==
  ASSUME EventsShape, EventRowsIInv, NEW now, NEW calls, NEW ok, NEW r, NEW s, Starts(now, calls, ok, r, s)
  PROVE  EventsShape' /\ EventRowsIInv'
<1>1. /\ RowsKnown /\ Reversed /\ Untouched /\ ChannelKnown
      /\ OneEvent /\ LogsInOrder /\ TimelineKnown /\ LastKnown
  BY DEF EventRowsIInv
<1>2. EventsShape'
  BY StartsShape
<1>3. RowsKnown'
  BY <1>1, StartsRows
<1>4. Reversed' /\ Untouched' /\ LastKnown'
  BY <1>1, StartsAside
<1>5. ChannelKnown'
  BY <1>1, StartsChannel
<1>6. OneEvent' /\ LogsInOrder'
  BY StartsInTurn
<1>7. TimelineKnown'
  BY <1>1, StartsTimeline
<1> QED
  BY <1>2, <1>3, <1>4, <1>5, <1>6, <1>7 DEF EventRowsIInv

\* An event in a pool: the listener l of the store and a handler get under way.
Enters(now, calls, l, mid, s) ==
  /\ eventStore \in Pools /\ Announced(now, calls)
  /\ l = <<>> \/ (mirror = "chats" /\ \E k \in Chats : l = <<Call("insertChat", k, None)>>)
  /\ s \in [rows : BOOLEAN, timeline : BOOLEAN, steady : BOOLEAN]
  /\ s.rows <=> (sure.rows /\ ~RowsOvertaken) \/ (calls[1].op = "read" /\ handlers = <<>>)
  /\ s.timeline <=> sure.timeline /\ ~LogsOvertaken
  /\ s.steady <=> sure.steady
  /\ handlers' \in Seq(Seq(Calls)) /\ Longer(handlers, mid, l) /\ Longer(mid, handlers', calls)
  /\ sure' = s /\ timeline' = Logged(timeline, s)
  /\ told' = now /\ UNCHANGED <<eventStore, mirror, rows, lastLogged>>

LEMMA ListenerIs ==
  ASSUME EventsShape, NEW k \in Chats, mirror = "chats", NEW l, l = <<Call("insertChat", k, None)>>
  PROVE  l \in Seq(Calls) /\ l # <<>> /\ Proper(l) /\ Len(l) = 1 /\ l[1].op = "insertChat" /\ \A x : LogsOf(l, x) = {}
<1>1. PICK a : a = Call("insertChat", k, None)
  OBVIOUS
<1>2. a.op = "insertChat" /\ a \in Calls
  <2>1. a = [op |-> "insertChat", id |-> k, to |-> None]
    BY <1>1, CallIs
  <2>2. a \in [op : {"insertChat", "markDeleted"}, id : Chats, to : {None}]
    BY <2>1
  <2> QED
    BY <2>1, <2>2 DEF Calls, CallsOfChats
<1>3. l = <<a>> /\ Len(l) = 1 /\ l[1] = a /\ l \in Seq(Calls)
  BY <1>1, <1>2
<1>4. "insertChat" \in OpsOf(mirror)
  BY DEF OpsOf
<1> QED
  BY <1>2, <1>3, <1>4 DEF Proper, LogsOf, LogOps

\* What runs after an event in a pool.
LEMMA NewHandlers ==
  ASSUME EventsShape, NEW now, NEW calls, NEW l, NEW mid, NEW s, Enters(now, calls, l, mid, s)
  PROVE  /\ \A j \in 1 .. Len(handlers') :
              \/ j \in 1 .. Len(handlers) /\ handlers'[j] = handlers[j]
              \/ l # <<>> /\ j = Len(handlers) + 1 /\ handlers'[j] = l
              \/ j = Len(mid) + 1 /\ handlers'[j] = calls
         /\ Len(mid) + 1 \in 1 .. Len(handlers') /\ handlers'[Len(mid) + 1] = calls
         /\ l # <<>> => mirror = "chats" /\ l \in Seq(Calls) /\ Proper(l) /\ l[1].op = "insertChat"
         /\ \A x : LogsOf(l, x) = {}
<1>1. /\ Longer(handlers, mid, l) /\ Longer(mid, handlers', calls)
      /\ l = <<>> \/ (mirror = "chats" /\ \E k \in Chats : l = <<Call("insertChat", k, None)>>)
      /\ calls # <<>>
  BY DEF Enters, Announced, Proper
<1>2. \A j \in 1 .. Len(handlers') : (j \in 1 .. Len(mid) /\ handlers'[j] = mid[j]) \/ (handlers'[j] = calls /\ j = Len(mid) + 1)
  BY <1>1, LongerAll
<1>3. \A j \in 1 .. Len(mid) : (j \in 1 .. Len(handlers) /\ mid[j] = handlers[j]) \/ (l # <<>> /\ mid[j] = l /\ j = Len(handlers) + 1)
  BY <1>1, LongerAll
<1>4. Len(mid) + 1 \in 1 .. Len(handlers') /\ handlers'[Len(mid) + 1] = calls
  BY <1>1, LongerAll
<1>5. l # <<>> => mirror = "chats" /\ l \in Seq(Calls) /\ Proper(l) /\ l[1].op = "insertChat"
  BY <1>1, ListenerIs
<1>6. \A x : LogsOf(l, x) = {}
  <2>1. CASE l = <<>>
    BY <2>1 DEF LogsOf
  <2>2. CASE l # <<>>
    BY <1>1, <2>2, ListenerIs
  <2> QED
    BY <2>1, <2>2
<1> QED
  BY <1>2, <1>3, <1>4, <1>5, <1>6

LEMMA EntersShape ==
  ASSUME EventsShape, NEW now, NEW calls, NEW l, NEW mid, NEW s, Enters(now, calls, l, mid, s)
  PROVE  EventsShape'
<1>1. /\ now \in ToldType /\ calls \in Seq(Calls) /\ Proper(calls) /\ eventStore \in Pools
      /\ s \in [rows : BOOLEAN, timeline : BOOLEAN, steady : BOOLEAN]
      /\ handlers' \in Seq(Seq(Calls)) /\ sure' = s /\ timeline' = Logged(timeline, s)
      /\ told' = now /\ eventStore' = eventStore /\ mirror' = mirror /\ rows' = rows /\ lastLogged' = lastLogged
  BY DEF Enters, Announced
<1>2. \A j \in 1 .. Len(handlers') : Proper(handlers'[j])
  <2>1. \A k \in 1 .. Len(handlers) : Proper(handlers[k])
    BY DEF EventsShape
  <2> QED
    BY <1>1, <2>1, NewHandlers
<1>3. \A j \in 1 .. Len(handlers') : Proper(handlers[j])' /\ Begun(handlers[j])'
  BY <1>1, <1>2 DEF Proper, Begun, InOrder, Pools
<1>4. timeline' \in Seq(LoggedIds \X (BOOLEAN \union Presences))
  <2>1. timeline \in Seq(LoggedIds \X (BOOLEAN \union Presences))
    BY DEF EventsShape
  <2> QED
    BY <1>1, <2>1, LoggedType
<1> QED
  BY <1>1, <1>3, <1>4 DEF EventsShape

\* In a pool nothing is sure of the rows or the timeline when an event comes
\* before the handlers of the last one have ended.
LEMMA PoolOvertakes ==
  ASSUME eventStore \in Pools
  PROVE  /\ ~RowsOvertaken => handlers = <<>> \/ mirror = "channel"
         /\ mirror = "channel" => ~RowsOvertaken
         /\ ~LogsOvertaken <=> handlers = <<>>
         /\ handlers = <<>> => ~RowsOvertaken
BY DEF RowsOvertaken, LogsOvertaken, InOrder, Pools

LEMMA EntersRows ==
  ASSUME EventsShape, RowsKnown, Untouched, NEW now, NEW calls, NEW l, NEW mid, NEW s, Enters(now, calls, l, mid, s)
  PROVE  RowsKnown'
<1>1. /\ now \in ToldType /\ calls \in Seq(Calls) /\ Proper(calls) /\ eventStore \in Pools
      /\ s.rows <=> (sure.rows /\ ~RowsOvertaken) \/ (calls[1].op = "read" /\ handlers = <<>>)
      /\ sure' = s /\ told' = now /\ eventStore' = eventStore /\ mirror' = mirror /\ rows' = rows /\ Announced(now, calls)
  BY DEF Enters, Announced
<1> SUFFICES ASSUME sure'.rows
             PROVE  /\ \A j, k \in 1 .. Len(handlers') : Writing(j)' /\ Writing(k)' => j = k
                    /\ \A j \in 1 .. Len(handlers') : Writing(j)' => Agrees(Outcome(handlers[j])', told')
                    /\ (\A j \in 1 .. Len(handlers') : ~Writing(j)') => Agrees(rows', told')
                    /\ \A j \in 1 .. Len(handlers') : handlers'[j][1].op = "fill" => rows'.blocked = {}
                    /\ eventStore' = "redis" =>
                         /\ \A lb \in told'.labels : lb \in rows'.listed
                              \/ \E j \in 1 .. Len(handlers') : handlers'[j][1] = Call("list", lb, None)
                         /\ \A t \in told'.tags : t \in rows'.index
                              \/ \E j \in 1 .. Len(handlers') : handlers'[j][1] = Call("index", t, None)
  BY DEF RowsKnown, Writing
<1>2. (sure.rows /\ ~RowsOvertaken) \/ (calls[1].op = "read" /\ handlers = <<>>)
  BY <1>1
<1>3. eventStore' # "redis"
  BY <1>1 DEF Pools
<1>4. /\ \A j \in 1 .. Len(handlers') :
           \/ j \in 1 .. Len(handlers) /\ handlers'[j] = handlers[j]
           \/ l # <<>> /\ j = Len(handlers) + 1 /\ handlers'[j] = l
           \/ j = Len(mid) + 1 /\ handlers'[j] = calls
      /\ Len(mid) + 1 \in 1 .. Len(handlers') /\ handlers'[Len(mid) + 1] = calls
      /\ l # <<>> => mirror = "chats" /\ l \in Seq(Calls) /\ Proper(l) /\ l[1].op = "insertChat"
  BY NewHandlers
<1>5. \A i \in 1 .. Len(handlers) : handlers[i][1].op \notin RowOps \union {"fill"}
  <2>1. CASE mirror # "channel"
    <3>1. handlers = <<>>
      BY <1>1, <1>2, <2>1, PoolOvertakes
    <3> QED
      BY <3>1
  <2>2. CASE mirror = "channel"
    <3> TAKE i \in 1 .. Len(handlers)
    <3>1. handlers[i] \in Seq(Calls) /\ Proper(handlers[i])
      BY DEF EventsShape
    <3>2. 1 \in 1 .. Len(handlers[i])
      BY <3>1, TailIs DEF Proper
    <3>3. handlers[i][1].op \in OpsOf(mirror)
      BY <3>1, <3>2 DEF Proper
    <3> QED
      BY <2>2, <3>3 DEF OpsOf, ChannelOps, RowOps
  <2> QED
    BY <2>1, <2>2
<1>6. sure.rows => Agrees(rows, told)
  BY <1>5 DEF RowsKnown, Writing
<1>7. \A j \in 1 .. Len(handlers') : handlers'[j][1].op \in RowOps \union {"fill"} => j = Len(mid) + 1 /\ handlers'[j] = calls
  BY <1>4, <1>5 DEF RowOps
<1>8. calls[1].op # "fill"
  BY <1>1 DEF Announced
<1>9. CASE mirror # "channel"
  <2>1. Agrees(Outcome(calls), now) /\ calls[1].op \in RowOps
    <3>1. Agrees(rows, told) \/ calls[1].op = "read"
      BY <1>2, <1>6
    <3> QED
      BY <1>1, <1>9, <3>1, ListAgrees DEF Announced
  <2>2. Outcome(calls)' = Outcome(calls)
    BY <1>1 DEF Outcome, SqliteUpsertChat, Written, AddToBlocklist, RemoveFromBlocklist, DeleteLabel, SqliteTagged,
       Tagged, Untagged, RedisSetLid, SetLid, RecordPresence, InsertChat, MongoUpdateChat, RedisUpdateChat, UpdateChat,
       MarkChatDeleted, SetViewCount, IncrementView, RecordReaction
  <2>3. \A j \in 1 .. Len(handlers') : Writing(j)' => Agrees(Outcome(handlers[j])', told')
    <3> SUFFICES ASSUME NEW j \in 1 .. Len(handlers'), Writing(j)' PROVE Agrees(Outcome(handlers[j])', told')
      OBVIOUS
    <3>1. handlers'[j] = calls
      BY <1>7 DEF Writing
    <3>2. Outcome(handlers[j])' = Outcome(calls)'
      BY <3>1 DEF Outcome
    <3> QED
      BY <1>1, <2>1, <2>2, <3>2
  <2>4. ~(\A j \in 1 .. Len(handlers') : ~Writing(j)')
    BY <1>4, <2>1 DEF Writing
  <2>5. \A j, k \in 1 .. Len(handlers') : Writing(j)' /\ Writing(k)' => j = k
    BY <1>7 DEF Writing
  <2>6. \A j \in 1 .. Len(handlers') : handlers'[j][1].op # "fill"
    BY <1>7, <1>8
  <2> QED
    BY <1>3, <2>3, <2>4, <2>5, <2>6
<1>10. CASE mirror = "channel"
  <2>1. Counting(now, calls[1]) /\ calls[1].op # "read"
    BY <1>1, <1>10 DEF Announced
  <2>2. calls[1].op \notin RowOps \union {"fill"}
    BY <2>1 DEF Counting, RowOps
  <2>3. \A j \in 1 .. Len(handlers') : handlers'[j][1].op \notin RowOps \union {"fill"}
    BY <1>7, <2>2
  <2>4. Agrees(rows, now)
    BY <1>2, <1>6, <1>10, <2>1, ChannelAgrees
  <2> QED
    BY <1>1, <1>3, <2>3, <2>4 DEF Writing
<1> QED
  BY <1>9, <1>10

LEMMA EntersAside ==
  ASSUME EventsShape, Reversed, Untouched, LastKnown, NEW now, NEW calls, NEW l, NEW mid, NEW s,
         Enters(now, calls, l, mid, s)
  PROVE  Reversed' /\ Untouched' /\ LastKnown'
<1>1. /\ now \in ToldType /\ calls \in Seq(Calls) /\ Proper(calls)
      /\ s.timeline <=> sure.timeline /\ ~LogsOvertaken
      /\ s.steady <=> sure.steady
      /\ sure' = s /\ timeline' = Logged(timeline, s) /\ lastLogged' = lastLogged /\ rows' = rows
      /\ told' = now /\ eventStore' = eventStore /\ mirror' = mirror /\ Announced(now, calls)
  BY DEF Enters, Announced
<1>2. calls[1] \in Calls /\ calls[1].op \in OpsOf(mirror)
  <2>1. 1 \in 1 .. Len(calls) /\ calls[1] \in Calls
    BY <1>1, TailIs DEF Proper
  <2> QED
    BY <1>1, <2>1 DEF Proper
<1>3. (mirror = "blocked" => \E b : told' = [told EXCEPT !.blocked = b]) /\ (mirror # "channel" => told'.channel = told.channel)
  BY <1>1 DEF Announced
<1>4. Reversed'
  BY <1>1, <1>2, ReversedStays
<1>5. Untouched'
  BY <1>1, <1>2, <1>3, UntouchedStays
<1>6. LastKnown'
  <2>1. timeline' \in Seq(LoggedIds \X (BOOLEAN \union Presences))
    <3>1. timeline \in Seq(LoggedIds \X (BOOLEAN \union Presences))
      BY DEF EventsShape
    <3> QED
      BY <1>1, <3>1, LoggedType
  <2> SUFFICES ASSUME mirror = "presence" PROVE KnownIn(timeline', lastLogged', sure')
    BY <1>1, <2>1, KnownNext
  <2>2. KnownIn(timeline, lastLogged, sure)
    BY KnownIs
  <2>3. CASE s.timeline \/ s.steady
    <3>1. timeline' = timeline
      BY <1>1, <2>3 DEF Logged
    <3> QED
      BY <1>1, <2>2, <3>1 DEF KnownIn
  <2>4. CASE ~(s.timeline \/ s.steady)
    BY <1>1, <2>4 DEF KnownIn
  <2> QED
    BY <2>3, <2>4
<1> QED
  BY <1>4, <1>5, <1>6

LEMMA EntersInTurn ==
  ASSUME EventsShape, NEW now, NEW calls, NEW l, NEW mid, NEW s, Enters(now, calls, l, mid, s)
  PROVE  OneEvent' /\ LogsInOrder'
<1>1. /\ eventStore \in Pools /\ eventStore' = eventStore /\ mirror' = mirror /\ sure' = s
      /\ s.rows <=> (sure.rows /\ ~RowsOvertaken) \/ (calls[1].op = "read" /\ handlers = <<>>)
      /\ s.timeline <=> sure.timeline /\ ~LogsOvertaken
      /\ Longer(handlers, mid, l) /\ Longer(mid, handlers', calls) /\ calls # <<>> /\ calls[1].op # "insertChat"
  BY DEF Enters, Announced, Proper
<1>2. LogsInOrder'
  BY <1>1 DEF LogsInOrder, InOrder, Pools
<1>3. ASSUME mirror # "channel", sure'.rows \/ sure'.timeline
      PROVE  /\ Len(handlers') <= 2
             /\ Len(handlers') = 2 => handlers'[1][1].op = "insertChat" /\ handlers'[2][1].op # "insertChat"
  <2>1. handlers = <<>>
    BY <1>1, <1>3, PoolOvertakes
  <2>2. Len(handlers) = 0
    BY <2>1
  <2>3. CASE l = <<>>
    <3>1. Len(mid) = 0
      BY <1>1, <2>2, <2>3 DEF Longer
    <3>2. Len(handlers') = 1
      BY <1>1, <3>1 DEF Longer
    <3> QED
      BY <3>2
  <2>4. CASE l # <<>>
    <3>1. Len(mid) = 1 /\ mid[1] = l
      BY <1>1, <2>2, <2>4 DEF Longer
    <3>2. Len(handlers') = 2 /\ handlers'[2] = calls /\ handlers'[1] = l
      BY <1>1, <3>1 DEF Longer
    <3>3. l[1].op = "insertChat"
      BY <2>4, NewHandlers
    <3> QED
      BY <1>1, <3>2, <3>3
  <2> QED
    BY <2>3, <2>4
<1>4. OneEvent'
  BY <1>1, <1>3 DEF OneEvent
<1> QED
  BY <1>2, <1>4

LEMMA EntersTimeline ==
  ASSUME EventsShape, RowsKnown, TimelineKnown, NEW now, NEW calls, NEW l, NEW mid, NEW s,
         Enters(now, calls, l, mid, s)
  PROVE  TimelineKnown'
<1>1. /\ now \in ToldType /\ calls \in Seq(Calls) /\ Proper(calls) /\ eventStore \in Pools
      /\ s.rows <=> (sure.rows /\ ~RowsOvertaken) \/ (calls[1].op = "read" /\ handlers = <<>>)
      /\ s.timeline <=> sure.timeline /\ ~LogsOvertaken
      /\ Longer(handlers, mid, l) /\ Longer(mid, handlers', calls) /\ Announced(now, calls)
      /\ sure' = s /\ timeline' = Logged(timeline, s) /\ rows' = rows
      /\ told' = now /\ eventStore' = eventStore /\ mirror' = mirror
  BY DEF Enters, Announced
<1>2. timeline \in Seq(LoggedIds \X (BOOLEAN \union Presences)) /\ Len(timeline') \in Nat
  <2>1. timeline \in Seq(LoggedIds \X (BOOLEAN \union Presences))
    BY DEF EventsShape
  <2>2. timeline' \in Seq(LoggedIds \X (BOOLEAN \union Presences))
    BY <1>1, <2>1, LoggedType
  <2> QED
    BY <2>1, <2>2, LenProperties
<1> SUFFICES ASSUME sure'.timeline
             PROVE  /\ mirror = "blocked" => sure'.rows
                    /\ Reading' => \A x \in Mirrored : \A v : v = (x \in rows'.blocked) => Ends(handlers', timeline', x, v)
                    /\ ~Reading' => \A x \in Mirrored : \A v : v = Will(now, x) => Ends(handlers', timeline', x, v)
  <2>1. Mirrored' = Mirrored
    BY <1>1 DEF Mirrored
  <2>2. \A x : Now(x)' = Will(now, x)
    BY <1>1 DEF Now, Will
  <2>3. ASSUME sure'.timeline
        PROVE  /\ mirror' = "blocked" => sure'.rows
               /\ Reading' => \A x \in Mirrored' : \A v : v = (x \in rows'.blocked) => Ends(handlers', timeline', x, v)
               /\ ~Reading' => \A x \in Mirrored' : \A v : v = Now(x)' => Ends(handlers', timeline', x, v)
    BY <1>1, <2>1, <2>2, <2>3
  <2> QED
    BY <1>2, <2>3, TimelineNext
<1> DEFINE c == calls[1]
<1>3. sure.timeline /\ handlers = <<>>
  BY <1>1, PoolOvertakes
<1>4. timeline' = timeline
  BY <1>1 DEF Logged
<1>5. ~Reading
  BY <1>3 DEF Reading
<1>6. /\ mirror = "blocked" => sure.rows
      /\ \A x \in Mirrored : \A v : v = Now(x) => Ends(handlers, timeline, x, v)
  BY <1>3, <1>5, TimelineIs
<1>7. mirror = "blocked" => sure'.rows
  BY <1>1, <1>3, <1>6, PoolOvertakes
<1>8. /\ \A j \in 1 .. Len(handlers') :
           \/ j \in 1 .. Len(handlers) /\ handlers'[j] = handlers[j]
           \/ l # <<>> /\ j = Len(handlers) + 1 /\ handlers'[j] = l
           \/ j = Len(mid) + 1 /\ handlers'[j] = calls
      /\ Len(mid) + 1 \in 1 .. Len(handlers') /\ handlers'[Len(mid) + 1] = calls
      /\ l # <<>> => mirror = "chats" /\ l \in Seq(Calls) /\ Proper(l) /\ l[1].op = "insertChat"
      /\ \A x : LogsOf(l, x) = {}
  BY NewHandlers
<1>9. Reading' <=> c.op = "read"
  <2>1. \A j \in 1 .. Len(handlers') : handlers'[j][1].op = "read" => handlers'[j] = calls
    BY <1>3, <1>8
  <2> QED
    BY <1>8, <2>1 DEF Reading
<1>10. ASSUME NEW x, NEW u, NEW v, Ends(handlers, timeline, x, u), \A q \in LogsOf(calls, x) : calls[q].to = v,
              LogsOf(calls, x) = {} => v = u
       PROVE  Ends(handlers', timeline', x, v)
  <2>1. LogsOf(l, x) = {} /\ Longer(handlers, mid, l) /\ Longer(mid, handlers', calls)
    BY <1>1, <1>8
  <2>2. Ends(mid, timeline, x, u)
    <3>1. (\A q \in LogsOf(l, x) : l[q].to = u) /\ (LogsOf(l, x) = {} => u = u)
      BY <2>1
    <3> QED
      BY <1>10, <2>1, <3>1, EndsLonger
  <2>3. Ends(handlers', timeline, x, v)
    BY <1>10, <2>1, <2>2, EndsLonger
  <2> QED
    BY <1>4, <2>3
<1>11. CASE c.op = "read"
  <2>1. mirror = "blocked"
    BY <1>1, <1>11 DEF Announced
  <2>2. rows.blocked = told.blocked
    <3>1. \A i \in 1 .. Len(handlers) : ~Writing(i)
      BY <1>3
    <3>2. Agrees(rows, told)
      BY <1>6, <2>1, <3>1 DEF RowsKnown
    <3> QED
      BY <3>2 DEF Agrees
  <2>3. \A x : LogsOf(calls, x) = {}
    <3>1. Len(calls) = 1
      BY <1>1, <1>11 DEF Proper
    <3> QED
      BY <1>11, <3>1 DEF LogsOf, LogOps
  <2>4. ASSUME NEW x \in Mirrored, NEW v, v = (x \in rows'.blocked) PROVE Ends(handlers', timeline', x, v)
    <3>1. v = Now(x)
      BY <1>1, <2>1, <2>2, <2>4 DEF Now
    <3>2. Ends(handlers, timeline, x, v)
      BY <1>6, <3>1
    <3> QED
      BY <1>10, <2>3, <3>2
  <2> QED
    BY <1>7, <1>9, <1>11, <2>4
<1>12. CASE c.op # "read"
  <2>1. ASSUME NEW x \in Mirrored, NEW v, v = Will(now, x) PROVE Ends(handlers', timeline', x, v)
    <3>1. PICK u : u = Now(x)
      OBVIOUS
    <3>2. Ends(handlers, timeline, x, u)
      BY <1>6, <3>1
    <3>3. (\A q \in LogsOf(calls, x) : calls[q].to = v) /\ (LogsOf(calls, x) = {} => v = u)
      BY <1>1, <1>12, <2>1, <3>1 DEF Announced
    <3> QED
      BY <1>10, <3>2, <3>3
  <2> QED
    BY <1>7, <1>9, <1>12, <2>1
<1> QED
  BY <1>11, <1>12

LEMMA EntersChannel ==
  ASSUME EventsShape, ChannelKnown, NEW now, NEW calls, NEW l, NEW mid, NEW s, Enters(now, calls, l, mid, s)
  PROVE  ChannelKnown'
<1>1. /\ now \in ToldType /\ calls \in Seq(Calls) /\ Proper(calls) /\ eventStore \in Pools
      /\ s.rows <=> (sure.rows /\ ~RowsOvertaken) \/ (calls[1].op = "read" /\ handlers = <<>>)
      /\ Longer(handlers, mid, l) /\ Longer(mid, handlers', calls) /\ Announced(now, calls)
      /\ sure' = s /\ rows' = rows
      /\ told' = now /\ eventStore' = eventStore /\ mirror' = mirror /\ calls # <<>>
  BY DEF Enters, Announced, Proper
<1> SUFFICES ASSUME mirror = "channel", sure'.rows PROVE Counted(rows.channel, now.channel, handlers')
  BY <1>1 DEF ChannelKnown
<1>2. PICK c, hs, new, t, was, had : c = calls[1] /\ hs = handlers /\ new = handlers' /\ t = now.channel
                                      /\ was = rows.channel /\ had = told.channel
  OBVIOUS
<1>3. Counting(now, c) /\ c \in Calls
  BY <1>1, <1>2, TailIs DEF Announced
<1>4. /\ had.views \in Nat /\ had.guesses \in Nat /\ had.sum \in Int
      /\ t.views \in Nat /\ t.guesses \in Nat /\ t.sum \in Int
      /\ c.op \in {"readViews", "setViews", "addView", "react"}
      /\ c.op \in {"readViews", "setViews"} =>
           t.views = (IF c.to > had.views THEN c.to ELSE had.views) /\ t.guesses = had.guesses /\ t.sum = had.sum
      /\ c.op = "addView" => t.views = had.views /\ t.guesses = had.guesses + 1 /\ t.sum = had.sum
      /\ c.op = "react" => t.views = had.views /\ t.guesses = had.guesses /\ t.sum = had.sum + c.to
  BY <1>1, <1>2, <1>3, CountingIs
<1>5. c.op # "readViews"
  BY <1>1, <1>3 DEF Counting, Pools
<1>6. Longer(hs, new, calls)
  <2>1. l = <<>>
    BY NewHandlers
  <2>2. mid = handlers
    BY <1>1, <2>1 DEF Longer
  <2> QED
    BY <1>1, <1>2, <2>2
<1>7. sure.rows
  BY <1>1, <1>2, <1>4
<1>8. Counted(was, had, hs)
  BY <1>2, <1>7 DEF ChannelKnown
<1>9. was.views \in Nat /\ was.guesses \in Nat /\ was.sum \in Int
  BY <1>2, FieldsOfRows DEF RowsType, ChannelRows
<1>10. (c.op = "setViews" => c.to \in Nat) /\ (c.op = "react" => c.to \in {1, -1} /\ c = Call("react", None, c.to))
       /\ (c.op = "addView" => c = Call("addView", None, None))
  BY <1>3, CallTypes, ChannelWritten DEF ChannelOps
<1>11. \A op, to : Call(op, None, to).op = op /\ Call(op, None, to).to = to
  BY DEF Call
<1>12. \A op, to : /\ c = Call(op, None, to) => Cardinality(Waits(new, op, to)) = Cardinality(Waits(hs, op, to)) + 1
                   /\ c # Call(op, None, to) => Cardinality(Waits(new, op, to)) = Cardinality(Waits(hs, op, to))
  BY <1>1, <1>2, <1>6, WaitsMore
<1>13. /\ Cardinality(Waits(new, "addView", None)) =
            IF c.op = "addView" THEN Cardinality(Waits(hs, "addView", None)) + 1 ELSE Cardinality(Waits(hs, "addView", None))
       /\ Cardinality(Waits(new, "react", 1)) =
            IF c.op = "react" /\ c.to = 1 THEN Cardinality(Waits(hs, "react", 1)) + 1 ELSE Cardinality(Waits(hs, "react", 1))
       /\ Cardinality(Waits(new, "react", -1)) =
            IF c.op = "react" /\ c.to = -1 THEN Cardinality(Waits(hs, "react", -1)) + 1 ELSE Cardinality(Waits(hs, "react", -1))
  BY <1>10, <1>11, <1>12
<1>14. Len(hs) \in Nat /\ Len(new) \in Nat
  BY <1>6 DEF Longer
<1>15. PICK a, b, p, q, m, n :
         /\ a = Cardinality(Waits(hs, "addView", None)) /\ b = Cardinality(Waits(new, "addView", None))
         /\ p = Cardinality(Waits(hs, "react", 1)) /\ q = Cardinality(Waits(new, "react", 1))
         /\ m = Cardinality(Waits(hs, "react", -1)) /\ n = Cardinality(Waits(new, "react", -1))
  OBVIOUS
<1>16. a \in Nat /\ b \in Nat /\ p \in Nat /\ q \in Nat /\ m \in Nat /\ n \in Nat
  BY <1>14, <1>15, WaitsFinite
<1>17. /\ b = IF c.op = "addView" THEN a + 1 ELSE a
       /\ q = IF c.op = "react" /\ c.to = 1 THEN p + 1 ELSE p
       /\ n = IF c.op = "react" /\ c.to = -1 THEN m + 1 ELSE m
  BY <1>13, <1>15
<1>18. a <= had.guesses /\ was.views + a <= had.views + had.guesses /\ was.sum + p = had.sum + m
  BY <1>8, <1>15 DEF Counted
<1>19. b <= t.guesses /\ was.views + b <= t.views + t.guesses
  BY <1>4, <1>5, <1>9, <1>10, <1>16, <1>17, <1>18
<1>20. was.sum + q = t.sum + n
  <2>1. PICK w, g, d : w = was.sum /\ g = t.sum /\ d = had.sum
    OBVIOUS
  <2>2. w \in Int /\ g \in Int /\ d \in Int /\ w + p = d + m
    BY <1>4, <1>9, <1>18, <2>1
  <2>3. CASE c.op = "react"
    <3>1. c.to = 1 \/ c.to = -1
      BY <1>10, <2>3
    <3>2. CASE c.to = 1
      <4>1. q = p + 1 /\ n = m /\ g = d + 1
        BY <1>4, <1>17, <2>1, <2>3, <3>2
      <4>2. w + q = g + n
        BY <1>16, <2>2, <4>1
      <4> QED
        BY <2>1, <4>2
    <3>3. CASE c.to = -1
      <4>1. q = p /\ n = m + 1 /\ g = d - 1
        BY <1>4, <1>17, <2>1, <2>2, <2>3, <3>3
      <4>2. w + q = g + n
        BY <1>16, <2>2, <4>1
      <4> QED
        BY <2>1, <4>2
    <3> QED
      BY <3>1, <3>2, <3>3
  <2>4. CASE c.op # "react"
    BY <1>4, <1>17, <1>18, <2>4
  <2> QED
    BY <2>3, <2>4
<1>21. /\ \A j \in 1 .. Len(new) : (j \in 1 .. Len(hs) /\ new[j] = hs[j]) \/ (new[j] = calls /\ j = Len(hs) + 1)
       /\ \A j \in 1 .. Len(hs) : j \in 1 .. Len(new) /\ new[j] = hs[j]
       /\ Len(hs) + 1 \in 1 .. Len(new) /\ new[Len(hs) + 1] = calls
  BY <1>1, <1>6, LongerAll
<1>22. \A j \in 1 .. Len(new) : new[j][1].op # "putViews"
  <2>1. \A j \in 1 .. Len(hs) : hs[j][1].op # "putViews"
    <3> TAKE j \in 1 .. Len(hs)
    <3>1. handlers[j] \in Seq(Calls) /\ Proper(handlers[j]) /\ hs[j] = handlers[j]
      BY <1>2 DEF EventsShape
    <3>2. 1 \in 1 .. Len(handlers[j])
      BY <3>1, TailIs DEF Proper
    <3> QED
      BY <1>1, <3>1, <3>2 DEF Proper
  <2> QED
    BY <1>2, <1>4, <1>21, <2>1
<1>23. had.views <= t.views /\ (c.op = "setViews" => c.to <= t.views) /\ (t.views = had.views \/ (c.op = "setViews" /\ c.to = t.views))
  BY <1>4, <1>5, <1>10
<1>24. \A j \in 1 .. Len(new) : new[j][1].op \in {"setViews", "putViews"} => new[j][1].to <= t.views
  <2> TAKE j \in 1 .. Len(new)
  <2> HAVE new[j][1].op \in {"setViews", "putViews"}
  <2>1. CASE new[j] = calls
    BY <1>2, <1>22, <1>23, <2>1
  <2>2. CASE j \in 1 .. Len(hs) /\ new[j] = hs[j]
    <3>1. handlers[j] \in Seq(Calls) /\ Proper(handlers[j]) /\ hs[j] = handlers[j]
      BY <1>2, <2>2 DEF EventsShape
    <3>2. handlers[j][1] \in Calls
      BY <3>1, TailIs DEF Proper
    <3>3. new[j][1].to \in Nat
      BY <2>2, <3>1, <3>2, CallTypes
    <3>4. new[j][1].to <= had.views
      BY <1>8, <2>2 DEF Counted
    <3> QED
      BY <1>4, <1>23, <3>3, <3>4
  <2> QED
    BY <1>21, <2>1, <2>2
<1>25. \/ was.views >= t.views
       \/ \E j \in 1 .. Len(new) : new[j][1].op \in {"setViews", "putViews"} /\ new[j][1].to = t.views
  <2>1. CASE c.op = "setViews" /\ c.to = t.views
    BY <1>2, <1>21, <2>1
  <2>2. CASE t.views = had.views
    <3>1. \/ was.views >= had.views
          \/ \E k \in 1 .. Len(hs) : hs[k][1].op \in {"setViews", "putViews"} /\ hs[k][1].to = had.views
      BY <1>8 DEF Counted
    <3> QED
      BY <1>21, <2>2, <3>1
  <2> QED
    BY <1>23, <2>1, <2>2
<1>26. Counted(was, t, new)
  BY <1>15, <1>19, <1>20, <1>22, <1>24, <1>25 DEF Counted
<1> QED
  BY <1>2, <1>26

LEMMA EntersKeeps ==
  ASSUME EventsShape, EventRowsIInv, NEW now, NEW calls, NEW l, NEW mid, NEW s, Enters(now, calls, l, mid, s)
  PROVE  EventsShape' /\ EventRowsIInv'
<1>1. /\ RowsKnown /\ Reversed /\ Untouched /\ ChannelKnown
      /\ OneEvent /\ LogsInOrder /\ TimelineKnown /\ LastKnown
  BY DEF EventRowsIInv
<1>2. EventsShape'
  BY EntersShape
<1>3. RowsKnown'
  BY <1>1, EntersRows
<1>4. Reversed' /\ Untouched' /\ LastKnown'
  BY <1>1, EntersAside
<1>5. ChannelKnown'
  BY <1>1, EntersChannel
<1>6. OneEvent' /\ LogsInOrder'
  BY EntersInTurn
<1>7. TimelineKnown'
  BY <1>1, EntersTimeline
<1> QED
  BY <1>2, <1>3, <1>4, <1>5, <1>6, <1>7 DEF EventRowsIInv

-----------------------------------------------------------------------------
(* Crashes, and what presence.update forgets *)

LEMMA CrashKeeps ==
  ASSUME EventsShape, EventRowsIInv, EventsCrash
  PROVE  EventsShape' /\ EventRowsIInv'
<1>1. /\ handlers' = <<>> /\ lastLogged' = [c \in Contacts |-> None] /\ timeline' = Logged(timeline, sure')
      /\ eventStore' = eventStore /\ mirror' = mirror /\ told' = told /\ rows' = rows
      /\ sure' = [rows |-> sure.rows /\ \A i \in 1 .. Len(handlers) : Head(handlers[i]).op \in {"log", "transition"},
                  timeline |-> sure.timeline /\ handlers = <<>>,
                  steady |-> sure.steady /\ \A c \in Contacts : lastLogged[c] = None]
  BY DEF EventsCrash
<1>2. /\ sure' \in [rows : BOOLEAN, timeline : BOOLEAN, steady : BOOLEAN]
      /\ sure'.rows <=> sure.rows /\ \A i \in 1 .. Len(handlers) : Head(handlers[i]).op \in {"log", "transition"}
      /\ sure'.timeline <=> sure.timeline /\ handlers = <<>>
      /\ sure'.steady <=> sure.steady /\ \A c \in Contacts : lastLogged[c] = None
  <2>1. sure \in [rows : BOOLEAN, timeline : BOOLEAN, steady : BOOLEAN]
    BY DEF EventsShape
  <2> QED
    BY <1>1, <2>1
<1>3. timeline' \in Seq(LoggedIds \X (BOOLEAN \union Presences)) /\ Len(timeline') \in Nat
  <2>1. timeline \in Seq(LoggedIds \X (BOOLEAN \union Presences))
    BY DEF EventsShape
  <2>2. timeline' \in Seq(LoggedIds \X (BOOLEAN \union Presences))
    BY <1>1, <2>1, LoggedType
  <2> QED
    BY <2>2, LenProperties
<1>4. EventsShape'
  <2>1. lastLogged' \in [Contacts -> Presences \union {None}]
    BY <1>1
  <2>2. handlers' \in Seq(Seq(Calls)) /\ \A i \in 1 .. Len(handlers') : Proper(handlers[i])' /\ Begun(handlers[i])'
    <3>1. 1 .. Len(handlers') = {} /\ handlers' \in Seq(Seq(Calls))
      BY <1>1
    <3> QED
      BY <3>1
  <2> QED
    BY <1>1, <1>2, <1>3, <2>1, <2>2 DEF EventsShape
<1>5. /\ RowsKnown /\ Reversed /\ Untouched /\ ChannelKnown
      /\ OneEvent /\ LogsInOrder /\ TimelineKnown /\ LastKnown
  BY DEF EventRowsIInv
<1>6. \A i \in 1 .. Len(handlers) : /\ handlers[i] \in Seq(Calls) /\ Proper(handlers[i])
                                    /\ Head(handlers[i]) = handlers[i][1] /\ handlers[i][1].op \in OpsOf(mirror)
  <2> TAKE i \in 1 .. Len(handlers)
  <2>1. handlers[i] \in Seq(Calls) /\ Proper(handlers[i])
    BY DEF EventsShape
  <2>2. Head(handlers[i]) = handlers[i][1] /\ 1 \in 1 .. Len(handlers[i])
    BY <2>1, TailIs DEF Proper
  <2> QED
    BY <2>1, <2>2 DEF Proper
<1>7. sure'.rows => sure.rows /\ \A i \in 1 .. Len(handlers) : handlers[i][1].op \in {"log", "transition"}
  BY <1>2, <1>6
<1>8. RowsKnown'
  <2> SUFFICES ASSUME sure'.rows
               PROVE  /\ Agrees(rows', told')
                      /\ eventStore = "redis" =>
                           /\ \A l \in told.labels : l \in rows.listed
                           /\ \A t \in told.tags : t \in rows.index
    BY <1>1 DEF RowsKnown
  <2>1. Agrees(rows, told)
    <3>1. \A i \in 1 .. Len(handlers) : ~Writing(i)
      BY <1>7 DEF Writing, RowOps
    <3> QED
      BY <1>5, <1>7, <3>1 DEF RowsKnown
  <2>2. \A i \in 1 .. Len(handlers) : \A id : handlers[i][1] # Call("list", id, None) /\ handlers[i][1] # Call("index", id, None)
    BY <1>7, CallIs
  <2>3. ASSUME eventStore = "redis"
        PROVE  (\A l \in told.labels : l \in rows.listed) /\ (\A t \in told.tags : t \in rows.index)
    BY <1>5, <1>7, <2>2, <2>3 DEF RowsKnown
  <2> QED
    BY <1>1, <2>1, <2>3
<1>9. Reversed' /\ Untouched'
  BY <1>1, <1>5 DEF Reversed, Untouched
<1>10. ChannelKnown'
  <2> SUFFICES ASSUME mirror = "channel", sure'.rows PROVE Counted(rows.channel, told.channel, <<>>)
    BY <1>1 DEF ChannelKnown
  <2>1. \A i \in 1 .. Len(handlers) : FALSE
    BY <1>6, <1>7 DEF OpsOf, ChannelOps
  <2>2. handlers = <<>>
    <3>1. PICK n : n = Len(handlers)
      OBVIOUS
    <3>2. n \in Nat /\ 1 \notin 1 .. n /\ handlers \in Seq(Seq(Calls))
      BY <2>1, <3>1 DEF EventsShape
    <3>3. n = 0
      BY <3>2
    <3> QED
      BY <3>1, <3>2, <3>3, EmptySeq
  <2> QED
    BY <1>5, <1>7, <2>2 DEF ChannelKnown
<1>11. OneEvent' /\ LogsInOrder'
  <2>1. Len(handlers') = 0
    BY <1>1
  <2> QED
    BY <2>1 DEF OneEvent, LogsInOrder
<1>12. TimelineKnown'
  <2>1. ASSUME sure'.timeline
        PROVE  /\ mirror' = "blocked" => sure'.rows
               /\ Reading' => \A x \in Mirrored' : \A v : v = (x \in rows'.blocked) => Ends(handlers', timeline', x, v)
               /\ ~Reading' => \A x \in Mirrored' : \A v : v = Now(x)' => Ends(handlers', timeline', x, v)
    <3>1. sure.timeline /\ handlers' = handlers /\ timeline' = timeline /\ Len(handlers) = 0
      BY <1>1, <1>2, <2>1 DEF Logged
    <3>2. /\ mirror = "blocked" => sure.rows
          /\ ~Reading => \A x \in Mirrored : \A v : v = Now(x) => Ends(handlers, timeline, x, v)
      BY <1>5, <3>1, TimelineIs
    <3>3. ~Reading /\ ~Reading'
      BY <3>1 DEF Reading
    <3>4. Mirrored' = Mirrored /\ \A x : Now(x)' = Now(x)
      BY <1>1 DEF Mirrored, Now
    <3>5. mirror' = "blocked" => sure'.rows
      BY <1>1, <1>2, <3>1, <3>2
    <3> QED
      BY <3>1, <3>2, <3>3, <3>4, <3>5
  <2> QED
    BY <1>3, <2>1, TimelineNext
<1>13. LastKnown'
  <2> SUFFICES ASSUME mirror = "presence" PROVE KnownIn(timeline', lastLogged', sure')
    BY <1>1, <1>3, KnownNext
  <2>1. KnownIn(timeline, lastLogged, sure)
    BY <1>5, KnownIs
  <2>2. \A c \in Contacts : lastLogged'[c] = None
    BY <1>1
  <2>3. sure'.steady => timeline' = timeline
    BY <1>1 DEF Logged
  <2> QED
    BY <1>2, <2>1, <2>2, <2>3 DEF KnownIn
<1> QED
  BY <1>4, <1>8, <1>9, <1>10, <1>11, <1>12, <1>13 DEF EventRowsIInv

LEMMA ForgetKeeps ==
  ASSUME EventsShape, EventRowsIInv, NEW d \in Contacts, Forget(d)
  PROVE  EventsShape' /\ EventRowsIInv'
<1>1. /\ lastLogged' = [lastLogged EXCEPT ![d] = None] /\ timeline' = Logged(timeline, sure')
      /\ eventStore' = eventStore /\ mirror' = mirror /\ told' = told /\ rows' = rows /\ handlers' = handlers
      /\ sure' = [sure EXCEPT !.steady = FALSE]
  BY DEF Forget
<1>2. /\ sure' \in [rows : BOOLEAN, timeline : BOOLEAN, steady : BOOLEAN]
      /\ sure'.rows = sure.rows /\ sure'.timeline = sure.timeline /\ ~sure'.steady
  <2>1. sure \in [rows : BOOLEAN, timeline : BOOLEAN, steady : BOOLEAN]
    BY DEF EventsShape
  <2> QED
    BY <1>1, <2>1
<1>3. timeline' \in Seq(LoggedIds \X (BOOLEAN \union Presences)) /\ Len(timeline') \in Nat
  <2>1. timeline \in Seq(LoggedIds \X (BOOLEAN \union Presences))
    BY DEF EventsShape
  <2>2. timeline' \in Seq(LoggedIds \X (BOOLEAN \union Presences))
    BY <1>1, <2>1, LoggedType
  <2> QED
    BY <2>2, LenProperties
<1>4. lastLogged \in [Contacts -> Presences \union {None}]
  BY DEF EventsShape
<1>5. EventsShape'
  <2>1. lastLogged' \in [Contacts -> Presences \union {None}]
    BY <1>1, <1>4
  <2>2. \A i \in 1 .. Len(handlers') : Proper(handlers[i])' /\ Begun(handlers[i])'
    <3> SUFFICES ASSUME NEW i \in 1 .. Len(handlers) PROVE Proper(handlers[i])' /\ Begun(handlers[i])'
      BY <1>1
    <3>1. handlers'[i] = handlers[i] /\ Proper(handlers[i]) /\ Begun(handlers[i])
      BY <1>1 DEF EventsShape
    <3>2. Begun(handlers[i])'
      BY <1>1, <3>1 DEF Begun
    <3>3. Proper(handlers[i])'
      BY <1>1, <3>1, Zenon DEF Proper
    <3> QED
      BY <3>2, <3>3
  <2> QED
    BY <1>1, <1>2, <1>3, <2>1, <2>2 DEF EventsShape
<1>6. /\ RowsKnown /\ Reversed /\ Untouched /\ ChannelKnown
      /\ OneEvent /\ LogsInOrder /\ TimelineKnown /\ LastKnown
  BY DEF EventRowsIInv
<1>7. RowsKnown'
  <2>1. \A h : Outcome(h)' = Outcome(h)
    BY <1>1 DEF Outcome, SqliteUpsertChat, Written, AddToBlocklist, RemoveFromBlocklist, DeleteLabel, SqliteTagged,
       Tagged, Untagged, RedisSetLid, SetLid, RecordPresence, InsertChat, MongoUpdateChat, RedisUpdateChat, UpdateChat,
       MarkChatDeleted, SetViewCount, IncrementView, RecordReaction
  <2>2. \A i : Outcome(handlers[i])' = Outcome(handlers[i])
    BY <1>1, <2>1 DEF Outcome
  <2> QED
    BY <1>1, <1>2, <1>6, <2>2 DEF RowsKnown, Writing
<1>8. Reversed' /\ Untouched' /\ ChannelKnown' /\ OneEvent' /\ LogsInOrder'
  BY <1>1, <1>2, <1>6 DEF Reversed, Untouched, ChannelKnown, OneEvent, LogsInOrder
<1>9. TimelineKnown'
  <2>1. ASSUME sure'.timeline
        PROVE  /\ mirror' = "blocked" => sure'.rows
               /\ Reading' => \A x \in Mirrored' : \A v : v = (x \in rows'.blocked) => Ends(handlers', timeline', x, v)
               /\ ~Reading' => \A x \in Mirrored' : \A v : v = Now(x)' => Ends(handlers', timeline', x, v)
    <3>1. sure.timeline /\ timeline' = timeline
      BY <1>1, <1>2, <2>1 DEF Logged
    <3>2. /\ mirror = "blocked" => sure.rows
          /\ Reading => \A x \in Mirrored : \A v : v = (x \in rows.blocked) => Ends(handlers, timeline, x, v)
          /\ ~Reading => \A x \in Mirrored : \A v : v = Now(x) => Ends(handlers, timeline, x, v)
      BY <1>6, <3>1, TimelineIs
    <3>3. Reading' <=> Reading
      BY <1>1 DEF Reading
    <3>4. Mirrored' = Mirrored /\ \A x : Now(x)' = Now(x)
      BY <1>1 DEF Mirrored, Now
    <3> QED
      BY <1>1, <1>2, <3>1, <3>2, <3>3, <3>4
  <2> QED
    BY <1>3, <2>1, TimelineNext
<1>10. LastKnown'
  <2> SUFFICES ASSUME mirror = "presence" PROVE KnownIn(timeline', lastLogged', sure')
    BY <1>1, <1>3, KnownNext
  <2>1. KnownIn(timeline, lastLogged, sure)
    BY <1>6, KnownIs
  <2>2. \A c \in Contacts : lastLogged'[c] # None => lastLogged'[c] = lastLogged[c] /\ lastLogged[c] # None
    BY <1>1, <1>4
  <2>3. CASE sure'.timeline
    <3>1. sure.timeline /\ timeline' = timeline
      BY <1>1, <1>2, <2>3 DEF Logged
    <3>2. ASSUME NEW c \in Contacts, lastLogged'[c] # None
          PROVE  \E i \in 1 .. Len(timeline') : timeline'[i] = <<c, lastLogged'[c]>> /\ LastIn(timeline', i)
      <4>1. PICK i \in 1 .. Len(timeline) : timeline[i] = <<c, lastLogged[c]>> /\ LastIn(timeline, i)
        BY <2>1, <2>2, <3>1, <3>2 DEF KnownIn
      <4>2. lastLogged'[c] = lastLogged[c]
        BY <2>2, <3>2
      <4> QED
        BY <3>1, <4>1, <4>2
    <3> QED
      BY <1>2, <3>2 DEF KnownIn
  <2>4. CASE ~sure'.timeline
    BY <1>2, <2>4 DEF KnownIn
  <2> QED
    BY <2>3, <2>4
<1> QED
  BY <1>5, <1>7, <1>8, <1>9, <1>10 DEF EventRowsIInv

-----------------------------------------------------------------------------
(* Events *)

\* Whatever an event tells, when its handler brings the rows up to it.
LEMMA EventKeeps ==
  ASSUME EventsShape, EventRowsIInv, NEW m, NEW now, NEW ls, NEW calls, EventOf(m, now, ls, calls), Announced(now, calls),
         NEW l, ls = (IF l = <<>> THEN <<>> ELSE <<l>>),
         l = <<>> \/ (mirror = "chats" /\ \E k \in Chats : l = <<Call("insertChat", k, None)>>)
  PROVE  EventsShape' /\ EventRowsIInv'
<1>1. PICK s : s = [sure EXCEPT !.rows = (@ /\ ~RowsOvertaken) \/ (Head(calls).op = "read" /\ handlers = <<>>),
                                !.timeline = @ /\ ~LogsOvertaken]
  OBVIOUS
<1>2. calls \in Seq(Calls) /\ Proper(calls) /\ calls # <<>> /\ Head(calls) = calls[1]
  BY TailIs DEF Announced, Proper
<1>3. /\ s \in [rows : BOOLEAN, timeline : BOOLEAN, steady : BOOLEAN]
      /\ s.rows <=> (sure.rows /\ ~RowsOvertaken) \/ (calls[1].op = "read" /\ handlers = <<>>)
      /\ s.timeline <=> sure.timeline /\ ~LogsOvertaken
      /\ s.steady <=> sure.steady
  <2>1. sure \in [rows : BOOLEAN, timeline : BOOLEAN, steady : BOOLEAN]
    BY DEF EventsShape
  <2> QED
    BY <1>1, <1>2, <2>1
<1>4. handlers \in Seq(Seq(Calls)) /\ eventStore \in InOrder \union Pools /\ (eventStore \in InOrder => eventStore \notin Pools)
  BY EventRowsAssumption DEF EventsShape, InOrder, Pools
<1>5. told' = now /\ UNCHANGED <<eventStore, mirror>>
  BY DEF EventOf
<1>6. CASE eventStore \in InOrder
  <2>1. PICK ok \in BOOLEAN : Perform(calls, ok, s) /\ handlers' = handlers \o Left(calls, ok)
    BY <1>1, <1>6 DEF EventOf
  <2>2. Done(calls, ok, s)
    BY <1>2, <1>3, <2>1, Performs
  <2>3. PICK r : r = Remaining(calls, ok)
    OBVIOUS
  <2>4. Rests(r, calls, ok)
    BY <1>2, <2>3, RemainingIs
  <2>5. r \in Seq(Calls)
    BY <2>4 DEF Rests
  <2>6. handlers' = handlers \o (IF r = <<>> THEN <<>> ELSE <<r>>)
    BY <2>1, <2>3 DEF Left
  <2>7. handlers' \in Seq(Seq(Calls)) /\ Longer(handlers, handlers', r)
    BY <1>4, <2>5, <2>6, LongerIs
  <2>8. Starts(now, calls, ok, r, s)
    BY <1>3, <1>5, <1>6, <2>2, <2>4, <2>7 DEF Starts
  <2> QED
    BY <2>8, StartsKeeps
<1>7. CASE eventStore \in Pools
  <2>1. /\ handlers' = handlers \o ls \o <<calls>> /\ sure' = s /\ timeline' = Logged(timeline, s)
        /\ UNCHANGED <<rows, lastLogged>>
    BY <1>1, <1>4, <1>7 DEF EventOf
  <2>2. l \in Seq(Calls)
    <3>1. CASE l = <<>>
      BY <3>1
    <3>2. CASE l # <<>>
      <4>1. PICK k \in Chats : mirror = "chats" /\ l = <<Call("insertChat", k, None)>>
        BY <3>2
      <4> QED
        BY <4>1, ListenerIs
    <3> QED
      BY <3>1, <3>2
  <2>3. PICK mid : mid = handlers \o (IF l = <<>> THEN <<>> ELSE <<l>>)
    OBVIOUS
  <2>4. mid \in Seq(Seq(Calls)) /\ Longer(handlers, mid, l)
    BY <1>4, <2>2, <2>3, LongerIs
  <2>5. handlers' = mid \o (IF calls = <<>> THEN <<>> ELSE <<calls>>)
    BY <1>2, <2>1, <2>3
  <2>6. handlers' \in Seq(Seq(Calls)) /\ Longer(mid, handlers', calls)
    BY <1>2, <2>4, <2>5, LongerIs
  <2>7. Enters(now, calls, l, mid, s)
    BY <1>3, <1>5, <1>7, <2>1, <2>4, <2>6 DEF Enters
  <2> QED
    BY <2>7, EntersKeeps
<1> QED
  BY <1>4, <1>6, <1>7

\* The events that no listener of the store hears.
LEMMA PlainKeeps ==
  ASSUME EventsShape, EventRowsIInv, NEW m, NEW now, NEW calls, Event(m, now, calls), Announced(now, calls)
  PROVE  EventsShape' /\ EventRowsIInv'
<1>1. EventOf(m, now, <<>>, calls)
  BY DEF Event
<1>2. PICK l : l = <<>>
  OBVIOUS
<1>3. <<>> = (IF l = <<>> THEN <<>> ELSE <<l>>)
  BY <1>2
<1> QED
  BY <1>1, <1>2, <1>3, EventKeeps

\* Handlers of one call, of two and of three.
LEMMA ProperOne ==
  ASSUME NEW a \in Calls, a.op \in OpsOf(mirror), a.op \notin {"wipe", "list", "index"},
         eventStore \in Pools => a.op \notin {"putViews", "readViews"}, NEW h, h = <<a>>
  PROVE  h \in Seq(Calls) /\ Proper(h) /\ Len(h) = 1 /\ h[1] = a
<1>1. h \in Seq(Calls) /\ h # <<>> /\ Len(h) = 1 /\ h[1] = a
  OBVIOUS
<1>2. \A j \in 1 .. Len(h) : j = 1
  BY <1>1
<1>3. 2 .. Len(h) = {}
  BY <1>1
<1> QED
  BY <1>1, <1>2, <1>3 DEF Proper

LEMMA ProperTwo ==
  ASSUME NEW a \in Calls, NEW b \in Calls, a.op \in OpsOf(mirror), b.op \in OpsOf(mirror),
         a.op \in RowOps \ {"read", "wipe", "setLid"}, b.op \in LogOps, NEW h, h = <<a, b>>
  PROVE  h \in Seq(Calls) /\ Proper(h) /\ Len(h) = 2 /\ h[1] = a /\ h[2] = b
<1>1. h \in Seq(Calls) /\ h # <<>> /\ Len(h) = 2 /\ h[1] = a /\ h[2] = b
  OBVIOUS
<1>2. \A j \in 1 .. Len(h) : j = 1 \/ j = 2
  BY <1>1
<1>3. \A j \in 2 .. Len(h) : j = 2
  BY <1>1
<1>4. a.op \notin LogOps \union SideOps \union ChannelOps
  BY DEF RowOps, LogOps, SideOps, ChannelOps
<1>5. b.op \notin {"fill", "list", "index", "putViews", "readViews"}
  BY DEF LogOps
<1> QED
  BY <1>1, <1>2, <1>3, <1>4, <1>5 DEF Proper, SideOps, ChannelOps

LEMMA ProperThree ==
  ASSUME eventStore = "redis", NEW a \in Calls, NEW b \in Calls, NEW c \in Calls,
         a.op \in OpsOf(mirror), b.op \in OpsOf(mirror), c.op \in OpsOf(mirror),
         (a.op = "upsertLabel" /\ b.op = "list") \/ (a.op = "associate" /\ b.op = "index"),
         c.op \in LogOps, NEW h, h = <<a, b, c>>
  PROVE  h \in Seq(Calls) /\ Proper(h) /\ Len(h) = 3 /\ h[1] = a /\ h[2] = b /\ h[3] = c
<1>1. h \in Seq(Calls) /\ h # <<>> /\ Len(h) = 3 /\ h[1] = a /\ h[2] = b /\ h[3] = c
  OBVIOUS
<1>2. \A j \in 1 .. Len(h) : j = 1 \/ j = 2 \/ j = 3
  BY <1>1
<1>3. \A j \in 2 .. Len(h) : j = 2 \/ j = 3
  BY <1>1
<1>4. a.op \notin LogOps /\ b.op \notin LogOps /\ b.op # "fill"
  BY DEF LogOps
<1>5. eventStore \notin Pools
  BY DEF Pools
<1> QED
  BY <1>1, <1>2, <1>3, <1>4, <1>5 DEF Proper, ChannelOps

\* What the handler h logs is what now tells.
Tells(h, now) ==
  \A x \in Mirrored : /\ \A q \in LogsOf(h, x) : h[q].to = Will(now, x)
                      /\ LogsOf(h, x) = {} => Will(now, x) = Now(x)

\* A handler that logs one thing, at its end.
LogsLast(h, n, b) ==
  /\ n \in Nat /\ n = Len(h) /\ n > 0
  /\ b = h[n] /\ b.op \in LogOps /\ \A j \in 1 .. n - 1 : h[j].op \notin LogOps

LEMMA LogsTold ==
  ASSUME NEW h, NEW n, NEW b, LogsLast(h, n, b), NEW now,
         b.to = Will(now, b.id), \A x \in Mirrored : x # b.id => Will(now, x) = Now(x)
  PROVE  Tells(h, now)
<1> SUFFICES ASSUME NEW x \in Mirrored
             PROVE  /\ \A q \in LogsOf(h, x) : h[q].to = Will(now, x)
                    /\ LogsOf(h, x) = {} => Will(now, x) = Now(x)
  BY DEF Tells
<1>1. ASSUME NEW q \in LogsOf(h, x) PROVE h[q].to = Will(now, x)
  <2>1. q \in 1 .. n /\ h[q].op \in LogOps /\ h[q].id = x
    BY <1>1 DEF LogsOf, LogsLast
  <2>2. q = n
    BY <2>1 DEF LogsLast
  <2> QED
    BY <2>1, <2>2 DEF LogsLast
<1>2. ASSUME LogsOf(h, x) = {} PROVE Will(now, x) = Now(x)
  <2>1. n \in 1 .. Len(h) /\ h[n] = b /\ b.op \in LogOps
    BY DEF LogsLast
  <2>2. n \notin LogsOf(h, x)
    BY <1>2
  <2>3. x # b.id
    BY <2>1, <2>2 DEF LogsOf
  <2> QED
    BY <2>3
<1> QED
  BY <1>1, <1>2

LEMMA WillIs ==
  /\ mirror = "blocked" => Mirrored = Contacts /\ \A now, x : Will(now, x) <=> x \in now.blocked
  /\ mirror = "labels" => Mirrored = LabelIds \union Tags /\ \A now, x : Will(now, x) <=> x \in now.labels \union now.tags
  /\ mirror \in {"lids", "channel"} => Mirrored = {}
  /\ mirror = "presence" => Mirrored = Contacts /\ \A now, x : Will(now, x) = now.state[x]
  /\ mirror = "chats" => /\ Mirrored = Chats \X {"pinned", "mute", "deleted"}
                         /\ \A now, x : Will(now, x) = now.chat[x[1]][x[2]]
<1>1. ASSUME mirror = "blocked"
      PROVE  Mirrored = Contacts /\ \A now, x : Will(now, x) <=> x \in now.blocked
  BY <1>1, Zenon DEF Mirrored, Will
<1>2. ASSUME mirror = "labels"
      PROVE  Mirrored = LabelIds \union Tags /\ \A now, x : Will(now, x) <=> x \in now.labels \union now.tags
  <2>1. Mirrored = LabelIds \union Tags
    BY <1>2 DEF Mirrored
  <2>2. \A now, x : Will(now, x) <=> x \in now.labels \union now.tags
    <3> TAKE now, x
    <3>1. mirror # "blocked"
      BY <1>2
    <3>2. Will(now, x) = (x \in now.labels \union now.tags)
      BY <1>2, <3>1 DEF Will
    <3> QED
      BY <3>2
  <2> QED
    BY <2>1, <2>2
<1>3. ASSUME mirror = "presence"
      PROVE  Mirrored = Contacts /\ \A now, x : Will(now, x) = now.state[x]
  BY <1>3 DEF Mirrored, Will
<1>4. ASSUME mirror = "chats"
      PROVE  Mirrored = Chats \X {"pinned", "mute", "deleted"} /\ \A now, x : Will(now, x) = now.chat[x[1]][x[2]]
  BY <1>4 DEF Mirrored, Will
<1>5. ASSUME mirror \in {"lids", "channel"} PROVE Mirrored = {}
  BY <1>5 DEF Mirrored
<1> QED
  BY <1>1, <1>2, <1>3, <1>4, <1>5

\* Whether Will() of told is what is told now.
LEMMA NowIs == \A x : Now(x) = Will(told, x)
  BY DEF Now, Will

LEMMA ToldFields ==
  ASSUME EventsShape
  PROVE  /\ told \in ToldType /\ told.blocked \in SUBSET Contacts /\ told.labels \in SUBSET LabelIds
         /\ told.tags \in SUBSET Tags /\ told.pn \in [Lids -> Contacts \union {None}]
         /\ told.state \in [Contacts -> Presences \union {None}] /\ told.chat \in [Chats -> ChatRows]
         /\ told.channel \in ChannelRows
  BY DEF EventsShape, ToldType

\* What a handler tells of the labels and their associations is for redis to index.
LEMMA PlainAnnounced ==
  ASSUME NEW now \in ToldType, NEW calls \in Seq(Calls), Proper(calls), mirror \notin {"channel", "labels"},
         calls[1].op \in RowOps \ {"replace", "wipe", "fill", "read"},
         mirror = "blocked" => \E b : now = [told EXCEPT !.blocked = b],
         now.channel = told.channel, now.labels = told.labels, now.tags = told.tags,
         Agrees(rows, told) => Agrees(Outcome(calls), now),
         Tells(calls, now)
  PROVE  Announced(now, calls)
<1>1. calls[1].op \notin LogOps \union {"replace", "wipe", "fill", "list", "index", "insertChat", "putViews"}
  BY DEF RowOps, LogOps
<1>2. now.labels \ told.labels = {} /\ now.tags \ told.tags = {}
  OBVIOUS
<1> QED
  BY <1>1, <1>2 DEF Announced, Tells

LEMMA SetAnnounced ==
  ASSUME EventsShape, mirror = "blocked", NEW list \in SUBSET Contacts, NEW now, now = [told EXCEPT !.blocked = list],
         NEW calls, calls = <<Call("read", None, list)>>
  PROVE  Announced(now, calls)
<1>1. PICK a : a = Call("read", None, list)
  OBVIOUS
<1>2. a \in Calls /\ a.op = "read" /\ a.to = list
  BY <1>1 DEF Calls, CallsOfLists, Call
<1>3. a.op \in OpsOf(mirror)
  BY <1>2 DEF OpsOf
<1>4. calls \in Seq(Calls) /\ Proper(calls) /\ calls[1] = a
  BY <1>1, <1>2, <1>3, ProperOne DEF Pools
<1>5. now \in ToldType /\ now.blocked = list /\ now.labels = told.labels /\ now.tags = told.tags /\ now.channel = told.channel
  BY DEF EventsShape, ToldType
<1>6. calls[1].op = "read" /\ calls[1].to = list
  BY <1>2, <1>4
<1>7. now.labels \ told.labels = {} /\ now.tags \ told.tags = {}
  BY <1>5
<1>8. calls[1].op \in RowOps /\ calls[1].op \notin LogOps \union {"replace", "wipe", "fill", "list", "index", "insertChat", "putViews"}
  BY <1>6 DEF RowOps, LogOps
<1> QED
  BY <1>4, <1>5, <1>6, <1>7, <1>8 DEF Announced

LEMMA UpdateAnnounced ==
  ASSUME EventsShape, mirror = "blocked", NEW c \in Contacts, NEW add \in BOOLEAN,
         NEW now, now = [told EXCEPT !.blocked = IF add THEN @ \union {c} ELSE @ \ {c}],
         NEW calls, calls = <<Call(IF add THEN "block" ELSE "unblock", c, None), Call("log", c, add)>>
  PROVE  Announced(now, calls)
<1>1. PICK o : o = IF add THEN "block" ELSE "unblock"
  OBVIOUS
<1>2. PICK a, b : a = Call(o, c, None) /\ b = Call("log", c, add)
  OBVIOUS
<1>3. o \in {"block", "unblock"}
  BY <1>1
<1>4. a \in Calls /\ a.op = o /\ a.id = c /\ b \in Calls /\ b.op = "log" /\ b.id = c /\ b.to = add
  BY <1>2, <1>3 DEF Calls, CallsOfLists, OtherCalls, LoggedIds, Call
<1>5. a.op \in OpsOf(mirror) /\ b.op \in OpsOf(mirror) /\ a.op \in RowOps \ {"read", "wipe", "setLid"} /\ b.op \in LogOps
  BY <1>3, <1>4 DEF OpsOf, RowOps, LogOps
<1>6. calls = <<a, b>>
  BY <1>1, <1>2
<1>7. calls \in Seq(Calls) /\ Proper(calls) /\ Len(calls) = 2 /\ calls[1] = a /\ calls[2] = b
  BY <1>4, <1>5, <1>6, ProperTwo
<1>8. PICK bl : bl = IF add THEN told.blocked \union {c} ELSE told.blocked \ {c}
  OBVIOUS
<1>9. bl \in SUBSET Contacts /\ now = [told EXCEPT !.blocked = bl]
  BY <1>8, ToldFields
<1>10. /\ now \in ToldType /\ now.blocked = bl /\ now.labels = told.labels /\ now.tags = told.tags
       /\ now.channel = told.channel /\ now.pn = told.pn /\ now.state = told.state /\ now.chat = told.chat
  BY <1>9, ToldFields DEF ToldType
<1>11. Agrees(rows, told) => Agrees(Outcome(calls), now)
  <2>1. Outcome(calls) = Written(a)
    BY <1>3, <1>4, <1>7 DEF Outcome
  <2>2. Written(a) = IF add THEN AddToBlocklist(c) ELSE RemoveFromBlocklist(c)
    BY <1>1, <1>4 DEF Written
  <2>3. ASSUME Agrees(rows, told)
        PROVE  Agrees(IF add THEN AddToBlocklist(c) ELSE RemoveFromBlocklist(c), now)
    <3>1. PICK w : w = IF add THEN AddToBlocklist(c) ELSE RemoveFromBlocklist(c)
      OBVIOUS
    <3>2. rows \in RowsType
      BY DEF EventsShape
    <3>3. /\ w.blocked = (IF add THEN rows.blocked \union {c} ELSE rows.blocked \ {c})
          /\ w.labels = rows.labels /\ w.tags = rows.tags /\ w.pn = rows.pn /\ w.state = rows.state /\ w.chat = rows.chat
      BY <3>1, <3>2 DEF AddToBlocklist, RemoveFromBlocklist, RowsType
    <3>4. Agrees(w, now)
      BY <1>8, <1>10, <2>3, <3>3 DEF Agrees
    <3> QED
      BY <3>1, <3>4
  <2> QED
    BY <2>1, <2>2, <2>3
<1>12. Tells(calls, now)
  <2>1. b.to = Will(now, b.id)
    <3>1. Will(now, c) <=> c \in bl
      BY <1>10, WillIs
    <3>2. Will(now, c) \in BOOLEAN
      BY DEF Will
    <3>3. add <=> c \in bl
      BY <1>8
    <3> QED
      BY <1>4, <3>1, <3>2, <3>3
  <2>2. \A x \in Mirrored : x # b.id => Will(now, x) = Now(x)
    <3> SUFFICES ASSUME NEW x, x # c PROVE Will(now, x) = Will(told, x)
      BY <1>4, NowIs
    <3>1. x \in now.blocked <=> x \in told.blocked
      BY <1>8, <1>10
    <3> QED
      BY <3>1 DEF Will
  <2>3. PICK n : n = 2
    OBVIOUS
  <2>4. LogsLast(calls, n, b)
    BY <1>5, <1>7, <2>3 DEF LogOps, RowOps, LogsLast
  <2> QED
    BY <2>1, <2>2, <2>4, LogsTold
<1>13. calls[1].op \in RowOps \ {"replace", "wipe", "fill", "read"}
  BY <1>3, <1>4, <1>7 DEF RowOps
<1> QED
  BY <1>7, <1>9, <1>10, <1>11, <1>12, <1>13, PlainAnnounced

LEMMA LidAnnounced ==
  ASSUME EventsShape, mirror = "lids", NEW l \in Lids, NEW pn \in Contacts, NEW now, now = [told EXCEPT !.pn[l] = pn],
         NEW calls, calls = <<Call("setLid", l, pn)>>
  PROVE  Announced(now, calls)
<1>1. PICK a : a = Call("setLid", l, pn)
  OBVIOUS
<1>2. a \in Calls /\ a.op = "setLid" /\ a.id = l /\ a.to = pn
  BY <1>1 DEF Calls, OtherCalls, Call
<1>3. a.op \in OpsOf(mirror)
  BY <1>2 DEF OpsOf
<1>4. calls \in Seq(Calls) /\ Proper(calls) /\ Len(calls) = 1 /\ calls[1] = a
  BY <1>1, <1>2, <1>3, ProperOne DEF Pools
<1>5. /\ now \in ToldType /\ now.blocked = told.blocked /\ now.labels = told.labels /\ now.tags = told.tags
      /\ now.channel = told.channel /\ now.pn = [told.pn EXCEPT ![l] = pn] /\ now.state = told.state
      /\ now.chat = told.chat
  BY ToldFields DEF ToldType
<1>6. Agrees(rows, told) => Agrees(Outcome(calls), now)
  <2>1. Outcome(calls) = Written(a)
    BY <1>2, <1>4 DEF Outcome
  <2>2. Written(a) = IF eventStore = "redis" THEN RedisSetLid(l, pn) ELSE SetLid(l, pn)
    BY <1>2 DEF Written
  <2>3. PICK w : w = Written(a)
    OBVIOUS
  <2>4. rows \in RowsType
    BY DEF EventsShape
  <2>5. /\ w.blocked = rows.blocked /\ w.labels = rows.labels /\ w.tags = rows.tags
        /\ w.pn = [rows.pn EXCEPT ![l] = pn] /\ w.state = rows.state /\ w.chat = rows.chat
    BY <2>2, <2>3, <2>4 DEF SetLid, RedisSetLid, RowsType
  <2>6. ASSUME Agrees(rows, told) PROVE Agrees(w, now)
    BY <1>5, <2>5, <2>6 DEF Agrees
  <2> QED
    BY <2>1, <2>3, <2>6
<1>7. Tells(calls, now)
  BY WillIs DEF Tells
<1>8. calls[1].op \in RowOps \ {"replace", "wipe", "fill", "read"}
  BY <1>2, <1>4 DEF RowOps
<1> QED
  BY <1>4, <1>5, <1>6, <1>7, <1>8, PlainAnnounced

LEMMA PresenceAnnounced ==
  ASSUME EventsShape, mirror = "presence", NEW c \in Contacts, NEW state \in Presences,
         NEW now, now = [told EXCEPT !.state[c] = state],
         NEW calls, calls = <<Call("presence", c, state), Call("transition", c, state)>>
  PROVE  Announced(now, calls)
<1>1. PICK a, b : a = Call("presence", c, state) /\ b = Call("transition", c, state)
  OBVIOUS
<1>2. /\ a \in Calls /\ a.op = "presence" /\ a.id = c /\ a.to = state
      /\ b \in Calls /\ b.op = "transition" /\ b.id = c /\ b.to = state
  BY <1>1 DEF Calls, OtherCalls, Call
<1>3. a.op \in OpsOf(mirror) /\ b.op \in OpsOf(mirror) /\ a.op \in RowOps \ {"read", "wipe", "setLid"} /\ b.op \in LogOps
  BY <1>2 DEF OpsOf, RowOps, LogOps
<1>4. calls \in Seq(Calls) /\ Proper(calls) /\ Len(calls) = 2 /\ calls[1] = a /\ calls[2] = b
  BY <1>1, <1>2, <1>3, ProperTwo
<1>5. /\ now \in ToldType /\ now.blocked = told.blocked /\ now.labels = told.labels /\ now.tags = told.tags
      /\ now.channel = told.channel /\ now.pn = told.pn /\ now.state = [told.state EXCEPT ![c] = state]
      /\ now.chat = told.chat
  BY ToldFields DEF ToldType
<1>6. Agrees(rows, told) => Agrees(Outcome(calls), now)
  <2>1. Outcome(calls) = RecordPresence(c, state)
    BY <1>2, <1>4 DEF Outcome, Written
  <2>2. PICK w : w = RecordPresence(c, state)
    OBVIOUS
  <2>3. rows \in RowsType
    BY DEF EventsShape
  <2>4. /\ w.blocked = rows.blocked /\ w.labels = rows.labels /\ w.tags = rows.tags
        /\ w.state = [rows.state EXCEPT ![c] = state] /\ w.pn = rows.pn /\ w.chat = rows.chat
    BY <2>2, <2>3 DEF RecordPresence, RowsType
  <2>5. ASSUME Agrees(rows, told) PROVE Agrees(w, now)
    BY <1>5, <2>4, <2>5 DEF Agrees
  <2> QED
    BY <2>1, <2>2, <2>5
<1>7. Tells(calls, now)
  <2>1. b.to = Will(now, b.id)
    <3>1. Will(now, c) = now.state[c]
      BY DEF Will
    <3>2. now.state[c] = state
      BY <1>5, ToldFields
    <3> QED
      BY <1>2, <3>1, <3>2
  <2>2. \A x \in Mirrored : x # b.id => Will(now, x) = Now(x)
    <3> SUFFICES ASSUME NEW x \in Contacts, x # c PROVE Will(now, x) = Now(x)
      BY <1>2, WillIs
    <3>1. Will(now, x) = now.state[x] /\ Now(x) = told.state[x]
      BY DEF Will, Now
    <3>2. now.state[x] = told.state[x]
      BY <1>5, ToldFields
    <3> QED
      BY <3>1, <3>2
  <2>3. PICK n : n = 2
    OBVIOUS
  <2>4. LogsLast(calls, n, b)
    BY <1>3, <1>4, <2>3 DEF LogOps, RowOps, LogsLast
  <2> QED
    BY <2>1, <2>2, <2>4, LogsTold
<1>8. calls[1].op \in RowOps \ {"replace", "wipe", "fill", "read"}
  BY <1>2, <1>4 DEF RowOps
<1> QED
  BY <1>4, <1>5, <1>6, <1>7, <1>8, PlainAnnounced

\* The events of a newsletter's message.
LEMMA ChannelAnnounced ==
  ASSUME EventsShape, mirror = "channel", NEW ch \in ChannelRows, NEW now, now = [told EXCEPT !.channel = ch],
         NEW a \in Calls, a.op \in {"readViews", "setViews", "addView", "react"}, Counting(now, a),
         eventStore \in Pools => a.op # "readViews", NEW calls, calls = <<a>>
  PROVE  Announced(now, calls)
<1>1. a.op \in OpsOf(mirror)
  BY DEF OpsOf, ChannelOps
<1>2. calls \in Seq(Calls) /\ Proper(calls) /\ Len(calls) = 1 /\ calls[1] = a
  BY <1>1, ProperOne
<1>3. now \in ToldType /\ now.labels \ told.labels = {} /\ now.tags \ told.tags = {}
  BY ToldFields DEF ToldType
<1>4. \A x \in Mirrored : FALSE
  BY WillIs
<1>5. calls[1].op \notin LogOps \union {"replace", "wipe", "fill", "list", "index", "insertChat", "putViews", "read"}
  BY <1>2 DEF LogOps
<1> QED
  BY <1>2, <1>3, <1>4, <1>5 DEF Announced

LEMMA ViewKeeps ==
  ASSUME EventsShape, EventRowsIInv, NEW n \in Nat, NewsletterView(n)
  PROVE  EventsShape' /\ EventRowsIInv'
<1>1. PICK ch : ch = [told.channel EXCEPT !.views = IF n > @ THEN n ELSE @]
  OBVIOUS
<1>2. PICK o : o = IF eventStore = "redis" THEN "readViews" ELSE "setViews"
  OBVIOUS
<1>3. PICK a : a = Call(o, None, n)
  OBVIOUS
<1>4. PICK now : now = [told EXCEPT !.channel = ch]
  OBVIOUS
<1>5. Event("channel", now, <<a>>)
  <2>1. [told EXCEPT !.channel.views = IF n > @ THEN n ELSE @] = now
    BY <1>1, <1>4
  <2> QED
    BY <1>2, <1>3, <2>1 DEF NewsletterView
<1>6. mirror = "channel"
  BY <1>5 DEF Event, EventOf
<1>7. ch \in ChannelRows /\ now.channel = ch
  BY <1>1, <1>4, ToldFields DEF ToldType, ChannelRows
<1>8. a \in Calls /\ a.op = o /\ a.to = n /\ o \in {"readViews", "setViews"}
  BY <1>2, <1>3 DEF Calls, CallsOfNumbers, Call
<1>9. Counting(now, a)
  BY <1>1, <1>2, <1>4, <1>7, <1>8 DEF Counting
<1>10. eventStore \in Pools => a.op # "readViews"
  BY <1>2, <1>8 DEF Pools
<1>11. Announced(now, <<a>>)
  BY <1>4, <1>6, <1>7, <1>8, <1>9, <1>10, ChannelAnnounced
<1> QED
  BY <1>5, <1>11, PlainKeeps

LEMMA UnparsedKeeps ==
  ASSUME EventsShape, EventRowsIInv, NewsletterViewUnparsed
  PROVE  EventsShape' /\ EventRowsIInv'
<1>1. PICK ch : ch = [told.channel EXCEPT !.guesses = @ + 1]
  OBVIOUS
<1>2. PICK a : a = Call("addView", None, None)
  OBVIOUS
<1>3. PICK now : now = [told EXCEPT !.channel = ch]
  OBVIOUS
<1>4. Event("channel", now, <<a>>)
  BY <1>1, <1>2, <1>3 DEF NewsletterViewUnparsed
<1>5. mirror = "channel"
  BY <1>4 DEF Event, EventOf
<1>6. ch \in ChannelRows /\ now.channel = ch
  BY <1>1, <1>3, ToldFields DEF ToldType, ChannelRows
<1>7. a \in Calls /\ a.op = "addView"
  BY <1>2 DEF Calls, Nothing, Call
<1>8. Counting(now, a)
  BY <1>1, <1>3, <1>6, <1>7 DEF Counting
<1>9. Announced(now, <<a>>)
  BY <1>3, <1>5, <1>6, <1>7, <1>8, ChannelAnnounced
<1> QED
  BY <1>4, <1>9, PlainKeeps

LEMMA ReactionKeeps ==
  ASSUME EventsShape, EventRowsIInv, NEW n \in {1, -1}, NewsletterReaction(n)
  PROVE  EventsShape' /\ EventRowsIInv'
<1>1. PICK ch : ch = [told.channel EXCEPT !.sum = @ + n]
  OBVIOUS
<1>2. PICK a : a = Call("react", None, n)
  OBVIOUS
<1>3. PICK now : now = [told EXCEPT !.channel = ch]
  OBVIOUS
<1>4. Event("channel", now, <<a>>)
  BY <1>1, <1>2, <1>3 DEF NewsletterReaction
<1>5. mirror = "channel"
  BY <1>4 DEF Event, EventOf
<1>6. ch \in ChannelRows /\ now.channel = ch
  BY <1>1, <1>3, ToldFields DEF ToldType, ChannelRows
<1>7. a \in Calls /\ a.op = "react" /\ a.to = n
  BY <1>2 DEF Calls, CallsOfNumbers, Call
<1>8. Counting(now, a)
  BY <1>1, <1>3, <1>6, <1>7 DEF Counting
<1>9. Announced(now, <<a>>)
  BY <1>3, <1>5, <1>6, <1>7, <1>8, ChannelAnnounced
<1> QED
  BY <1>4, <1>9, PlainKeeps

\* The event of a chat k that makes it be d, with the call a and at most one log b.
\* A chat in d is what it was but for the field that is logged.
LEMMA ChatAnnounced ==
  ASSUME EventsShape, mirror = "chats", NEW k \in Chats, NEW d \in ChatRows, NEW now, now = [told EXCEPT !.chat[k] = d],
         NEW a \in Calls, a.op \in {"updateChat", "upsertChat", "markDeleted"},
         NEW calls \in Seq(Calls), Proper(calls), calls[1] = a,
         NEW w, w = Outcome(calls), NEW r \in ChatRows, w = [rows EXCEPT !.chat[k] = r],
         SameChat(rows.chat[k], told.chat[k]) => SameChat(r, d), Tells(calls, now)
  PROVE  Announced(now, calls)
<1>1. /\ now \in ToldType /\ now.blocked = told.blocked /\ now.labels = told.labels /\ now.tags = told.tags
      /\ now.channel = told.channel /\ now.pn = told.pn /\ now.state = told.state
      /\ now.chat = [told.chat EXCEPT ![k] = d]
  BY ToldFields DEF ToldType
<1>2. Agrees(rows, told) => Agrees(w, now)
  <2>1. rows \in RowsType
    BY DEF EventsShape
  <2>2. /\ w.blocked = rows.blocked /\ w.labels = rows.labels /\ w.tags = rows.tags
        /\ w.pn = rows.pn /\ w.state = rows.state /\ w.chat = [rows.chat EXCEPT ![k] = r]
    BY <2>1 DEF RowsType
  <2>3. rows.chat \in [Chats -> ChatRows]
    BY <2>1 DEF RowsType
  <2>4. ASSUME Agrees(rows, told), NEW q \in Chats PROVE SameChat(w.chat[q], now.chat[q])
    <3>1. SameChat(rows.chat[q], told.chat[q])
      BY <2>4 DEF Agrees
    <3>2. CASE q = k
      <4>1. w.chat[k] = r /\ now.chat[k] = d
        BY <1>1, <2>2, <2>3, ToldFields
      <4> QED
        BY <3>1, <3>2, <4>1
    <3>3. CASE q # k
      <4>1. w.chat[q] = rows.chat[q] /\ now.chat[q] = told.chat[q]
        BY <1>1, <2>2, <2>3, <3>3, ToldFields
      <4> QED
        BY <3>1, <4>1
    <3> QED
      BY <3>2, <3>3
  <2> QED
    BY <1>1, <2>2, <2>4 DEF Agrees
<1>3. calls[1].op \in RowOps \ {"replace", "wipe", "fill", "read"}
  BY DEF RowOps
<1> QED
  BY <1>1, <1>2, <1>3, PlainAnnounced

LEMMA TwoCalls == \A a, b : <<a>> \o <<b>> = <<a, b>>
<1> TAKE a, b
<1>1. PICK s, t, u : s = <<a>> /\ t = <<b>> /\ u = <<a, b>>
  OBVIOUS
<1>2. PICK S : S = {a, b}
  OBVIOUS
<1>3. s \in Seq(S) /\ t \in Seq(S) /\ Len(s) = 1 /\ Len(t) = 1 /\ s[1] = a /\ t[1] = b
  BY <1>1, <1>2
<1>4. u \in Seq(S) /\ Len(u) = 2 /\ u[1] = a /\ u[2] = b
  BY <1>1, <1>2
<1>5. PICK c : c = s \o t
  OBVIOUS
<1>6. c \in Seq(S) /\ Len(c) = 2 /\ c[1] = a /\ c[1 + 1] = b
  <2>1. s \in Seq(S) /\ t \in Seq(S)
    BY <1>3
  <2>2. \A q : q = s \o t => Joins(s, t, q, S)
    BY <2>1, Joined DEF Joins
  <2>3. Joins(s, t, c, S)
    BY <1>5, <2>2
  <2> QED
    BY <1>3, <2>3 DEF Joins
<1>7. c = u
  BY <1>4, <1>6, SeqEqual
<1> QED
  BY <1>1, <1>5, <1>7

LEMMA ThreeCalls == \A a, b, c : <<a, b>> \o <<c>> = <<a, b, c>>
<1> TAKE a, b, c
<1>1. PICK s, t, u : s = <<a, b>> /\ t = <<c>> /\ u = <<a, b, c>>
  OBVIOUS
<1>2. PICK S : S = {a, b, c}
  OBVIOUS
<1>3. s \in Seq(S) /\ t \in Seq(S) /\ Len(s) = 2 /\ Len(t) = 1 /\ s[1] = a /\ s[2] = b /\ t[1] = c
  BY <1>1, <1>2
<1>4. u \in Seq(S) /\ Len(u) = 3 /\ u[1] = a /\ u[2] = b /\ u[3] = c
  BY <1>1, <1>2
<1>5. PICK d : d = s \o t
  OBVIOUS
<1>6. d \in Seq(S) /\ Len(d) = 3 /\ d[1] = a /\ d[2] = b /\ d[2 + 1] = c
  <2>1. s \in Seq(S) /\ t \in Seq(S)
    BY <1>3
  <2>2. \A q : q = s \o t => Joins(s, t, q, S)
    BY <2>1, Joined DEF Joins
  <2>3. Joins(s, t, d, S)
    BY <1>5, <2>2
  <2> QED
    BY <1>3, <2>3 DEF Joins
<1>7. d = u
  BY <1>4, <1>6, SeqEqual
<1> QED
  BY <1>1, <1>5, <1>7

FieldCalls(o, k, f) == <<Call(o, k, f)>> \o LogField(k, f)

\* A chat that is there, with the field of an event.
LEMMA FieldAnnounced ==
  ASSUME EventsShape, mirror = "chats", NEW k \in Chats, NEW f \in Fields \union {None}, NEW was \in ChatRows,
         was.pinned = told.chat[k].pinned, was.mute = told.chat[k].mute, was.deleted = told.chat[k].deleted,
         NEW now, now = [told EXCEPT !.chat[k] = SetField(was, f)],
         NEW o \in {"updateChat", "upsertChat"}, NEW calls, calls = FieldCalls(o, k, f)
  PROVE  Announced(now, calls)
<1>1. PICK a : a = Call(o, k, f)
  OBVIOUS
<1>2. a \in Calls /\ a.op = o /\ a.id = k /\ a.to = f
  BY <1>1 DEF Calls, CallsOfChats, Call
<1>3. a.op \in OpsOf(mirror) /\ a.op \in RowOps \ {"read", "wipe", "setLid"} /\ a.op \notin LogOps \union ChannelOps \union SideOps
  BY <1>2 DEF OpsOf, RowOps, LogOps, ChannelOps, SideOps
<1>4. PICK d : d = SetField(was, f)
  OBVIOUS
<1>5. d \in ChatRows /\ now = [told EXCEPT !.chat[k] = d]
  BY <1>4, FieldSet
<1>6. PICK old : old = [rows.chat[k] EXCEPT !.there = TRUE]
  OBVIOUS
<1>7. old \in ChatRows /\ old.pinned = rows.chat[k].pinned /\ old.mute = rows.chat[k].mute /\ old.deleted = rows.chat[k].deleted
  <2>1. rows.chat[k] \in ChatRows
    BY FieldsOfRows
  <2> QED
    BY <1>6, <2>1 DEF ChatRows
<1>8. PICK r : r = Merged(old, f)
  OBVIOUS
<1>9. r \in ChatRows
  BY <1>7, <1>8, FieldSet
<1>10. SqliteUpsertChat(k, f) = [rows EXCEPT !.chat[k] = r]
  BY <1>6, <1>8 DEF SqliteUpsertChat
<1>11. now.chat[k] = d /\ \A x \in Chats : x # k => now.chat[x] = told.chat[x]
  BY <1>5, ToldFields DEF ToldType
<1>12. CASE f = None
  <2>1. calls = <<a>>
    BY <1>1, <1>12 DEF LogField, FieldCalls
  <2>2. calls \in Seq(Calls) /\ Proper(calls) /\ Len(calls) = 1 /\ calls[1] = a
    BY <1>2, <1>3, <2>1, ProperOne DEF SideOps, ChannelOps, RowOps
  <2>3. Outcome(calls) = [rows EXCEPT !.chat[k] = r]
    BY <1>2, <1>10, <2>2 DEF Outcome, Written
  <2>4. d = was /\ r = old
    BY <1>4, <1>8, <1>12 DEF SetField, Merged, Fields
  <2>5. SameChat(rows.chat[k], told.chat[k]) => SameChat(r, d)
    BY <1>7, <2>4 DEF SameChat
  <2>6. Tells(calls, now)
    <3>1. ASSUME NEW x \in Mirrored PROVE LogsOf(calls, x) = {} /\ Will(now, x) = Now(x)
      <4>1. LogsOf(calls, x) = {}
        BY <1>3, <2>2 DEF LogsOf
      <4>2. x[1] \in Chats /\ x[2] \in {"pinned", "mute", "deleted"}
        BY <3>1, WillIs
      <4>3. now.chat[x[1]][x[2]] = told.chat[x[1]][x[2]]
        <5>1. was.pinned = was["pinned"] /\ was.mute = was["mute"] /\ was.deleted = was["deleted"]
          OBVIOUS
        <5> QED
          BY <1>11, <2>4, <4>2
      <4> QED
        BY <4>1, <4>3 DEF Will, Now
    <3> QED
      BY <3>1 DEF Tells
  <2>7. a.op \in {"updateChat", "upsertChat", "markDeleted"}
    BY <1>2
  <2>8. PICK w : w = Outcome(calls)
    OBVIOUS
  <2>9. w = [rows EXCEPT !.chat[k] = r]
    BY <2>3, <2>8
  <2> QED
    BY <1>2, <1>5, <1>9, <2>2, <2>5, <2>6, <2>7, <2>8, <2>9, ChatAnnounced
<1>13. CASE f # None
  <2>1. PICK n \in {"pinned", "mute"}, v \in BOOLEAN : f = <<n, v>>
    BY <1>13 DEF Fields
  <2>2. PICK b : b = Call("log", <<k, n>>, v)
    OBVIOUS
  <2>3. b \in Calls /\ b.op = "log" /\ b.id = <<k, n>> /\ b.to = v
    BY <2>2 DEF Calls, OtherCalls, LoggedIds, Call
  <2>4. calls = <<a, b>>
    <3>1. LogField(k, f) = <<b>>
      BY <1>13, <2>1, <2>2 DEF LogField
    <3> QED
      BY <1>1, <3>1, TwoCalls DEF FieldCalls
  <2>5. b.op \in OpsOf(mirror) /\ b.op \in LogOps
    BY <2>3 DEF OpsOf, LogOps
  <2>6. calls \in Seq(Calls) /\ Proper(calls) /\ Len(calls) = 2 /\ calls[1] = a /\ calls[2] = b
    BY <1>2, <1>3, <2>3, <2>4, <2>5, ProperTwo
  <2>7. Outcome(calls) = [rows EXCEPT !.chat[k] = r]
    BY <1>2, <1>10, <2>6 DEF Outcome, Written
  <2>8. /\ n = "pinned" => d = [was EXCEPT !.pinned = v] /\ r = [old EXCEPT !.pinned = v]
        /\ n = "mute" => /\ d = [was EXCEPT !.mute = v]
                         /\ v => r = [old EXCEPT !.mute = v]
                         /\ ~v => r = old
    BY <1>4, <1>8, <1>13, <2>1 DEF SetField, Merged
  <2>9. /\ n = "pinned" => d.pinned = v /\ d.mute = was.mute /\ d.deleted = was.deleted
        /\ n = "mute" => d.pinned = was.pinned /\ d.mute = v /\ d.deleted = was.deleted
    BY <2>8 DEF ChatRows
  <2>10. SameChat(rows.chat[k], told.chat[k]) => SameChat(r, d)
    BY <1>7, <2>1, <2>8, <2>9 DEF SameChat, ChatRows
  <2>11. Tells(calls, now)
    <3>1. b.to = Will(now, b.id)
      <4>1. Will(now, b.id) = now.chat[k][n]
        BY <2>3 DEF Will
      <4>2. d[n] = v
        BY <2>1, <2>9
      <4> QED
        BY <1>11, <2>3, <4>1, <4>2
    <3>2. \A x \in Mirrored : x # b.id => Will(now, x) = Now(x)
      <4> SUFFICES ASSUME NEW x \in Mirrored, x # <<k, n>> PROVE Will(now, x) = Now(x)
        BY <2>3
      <4>1. PICK y \in Chats, z \in {"pinned", "mute", "deleted"} : x = <<y, z>>
        BY WillIs
      <4>2. now.chat[y][z] = told.chat[y][z]
        <5>1. CASE y # k
          BY <1>11, <5>1
        <5>2. CASE y = k
          <6>1. z # n
            BY <4>1, <5>2
          <6>2. d[z] = told.chat[k][z]
            BY <2>1, <2>9, <6>1
          <6> QED
            BY <1>11, <5>2, <6>2
        <5> QED
          BY <5>1, <5>2
      <4> QED
        BY <4>1, <4>2 DEF Will, Now
    <3>3. PICK m : m = 2
      OBVIOUS
    <3>4. LogsLast(calls, m, b)
      BY <1>3, <2>5, <2>6, <3>3 DEF LogsLast
    <3> QED
      BY <3>1, <3>2, <3>4, LogsTold
  <2>12. a.op \in {"updateChat", "upsertChat", "markDeleted"}
    BY <1>2
  <2>13. PICK w : w = Outcome(calls)
    OBVIOUS
  <2>14. w = [rows EXCEPT !.chat[k] = r]
    BY <2>7, <2>13
  <2> QED
    BY <1>2, <1>5, <1>9, <2>6, <2>10, <2>11, <2>12, <2>13, <2>14, ChatAnnounced
<1> QED
  BY <1>12, <1>13

LEMMA ChatsUpsertKeeps ==
  ASSUME EventsShape, EventRowsIInv, NEW k \in Chats, NEW f \in Fields \union {None}, ChatsUpsert(k, f)
  PROVE  EventsShape' /\ EventRowsIInv'
<1>1. PICK was : was = [told.chat[k] EXCEPT !.there = TRUE]
  OBVIOUS
<1>2. PICK o : o = IF eventStore = "sqlite" THEN "upsertChat" ELSE "updateChat"
  OBVIOUS
<1>3. PICK calls : calls = FieldCalls(o, k, f)
  OBVIOUS
<1>4. PICK now : now = [told EXCEPT !.chat[k] = SetField(was, f)]
  OBVIOUS
<1>5. PICK l : l = IF eventStore \in Pools THEN <<Call("insertChat", k, None)>> ELSE <<>>
  OBVIOUS
<1>6. PICK ls : ls = IF eventStore \in Pools THEN <<<<Call("insertChat", k, None)>>>> ELSE <<>>
  OBVIOUS
<1>7. EventOf("chats", now, ls, calls)
  <2>1. EventOf("chats", [told EXCEPT !.chat[k] = SetField([@ EXCEPT !.there = TRUE], f)], ls, calls)
    BY <1>2, <1>3, <1>6 DEF ChatsUpsert, FieldCalls
  <2>2. [told EXCEPT !.chat[k] = SetField([@ EXCEPT !.there = TRUE], f)] = now
    BY <1>1, <1>4
  <2> QED
    BY <2>1, <2>2
<1>8. mirror = "chats"
  BY <1>7 DEF EventOf
<1>9. was \in ChatRows /\ was.pinned = told.chat[k].pinned /\ was.mute = told.chat[k].mute /\ was.deleted = told.chat[k].deleted
  BY <1>1, ToldFields DEF ChatRows
<1>10. o \in {"updateChat", "upsertChat"}
  BY <1>2
<1>11. Announced(now, calls)
  BY <1>3, <1>4, <1>8, <1>9, <1>10, FieldAnnounced
<1>12. ls = (IF l = <<>> THEN <<>> ELSE <<l>>) /\ (l = <<>> \/ l = <<Call("insertChat", k, None)>>)
  BY <1>5, <1>6
<1> QED
  BY <1>7, <1>8, <1>11, <1>12, EventKeeps

LEMMA ChatsUpdateKeeps ==
  ASSUME EventsShape, EventRowsIInv, NEW k \in Chats, NEW f \in Fields \union {None}, ChatsUpdate(k, f)
  PROVE  EventsShape' /\ EventRowsIInv'
<1>1. PICK was : was = told.chat[k]
  OBVIOUS
<1>2. PICK calls : calls = FieldCalls("updateChat", k, f)
  OBVIOUS
<1>3. PICK now : now = [told EXCEPT !.chat[k] = SetField(was, f)]
  OBVIOUS
<1>4. Event("chats", now, calls)
  BY <1>1, <1>2, <1>3 DEF ChatsUpdate, FieldCalls
<1>5. mirror = "chats"
  BY <1>4 DEF Event, EventOf
<1>6. was \in ChatRows /\ was.pinned = told.chat[k].pinned /\ was.mute = told.chat[k].mute /\ was.deleted = told.chat[k].deleted
  BY <1>1, ToldFields
<1>7. PICK o : o = "updateChat"
  OBVIOUS
<1>8. o \in {"updateChat", "upsertChat"} /\ calls = FieldCalls(o, k, f)
  BY <1>2, <1>7
<1>9. Announced(now, calls)
  BY <1>3, <1>5, <1>6, <1>8, FieldAnnounced
<1> QED
  BY <1>4, <1>9, PlainKeeps

LEMMA ChatsDeleteKeeps ==
  ASSUME EventsShape, EventRowsIInv, NEW k \in Chats, ChatsDelete(k)
  PROVE  EventsShape' /\ EventRowsIInv'
<1>1. PICK d : d = [told.chat[k] EXCEPT !.deleted = TRUE]
  OBVIOUS
<1>2. PICK a, b : a = Call("markDeleted", k, None) /\ b = Call("log", <<k, "deleted">>, TRUE)
  OBVIOUS
<1>3. PICK calls : calls = <<a, b>>
  OBVIOUS
<1>4. PICK now : now = [told EXCEPT !.chat[k] = d]
  OBVIOUS
<1>5. Event("chats", now, calls)
  BY <1>1, <1>2, <1>3, <1>4 DEF ChatsDelete
<1>6. mirror = "chats"
  BY <1>5 DEF Event, EventOf
<1>7. /\ d \in ChatRows /\ d.deleted = TRUE /\ d.pinned = told.chat[k].pinned /\ d.mute = told.chat[k].mute
  BY <1>1, ToldFields DEF ChatRows
<1>8. a \in Calls /\ a.op = "markDeleted" /\ a.id = k /\ b \in Calls /\ b.op = "log" /\ b.id = <<k, "deleted">> /\ b.to = TRUE
  BY <1>2 DEF Calls, CallsOfChats, OtherCalls, LoggedIds, Call
<1>9. /\ a.op \in OpsOf(mirror) /\ a.op \in RowOps \ {"read", "wipe", "setLid"} /\ a.op \notin LogOps
      /\ b.op \in OpsOf(mirror) /\ b.op \in LogOps
  BY <1>6, <1>8 DEF OpsOf, RowOps, LogOps
<1>10. calls \in Seq(Calls) /\ Proper(calls) /\ Len(calls) = 2 /\ calls[1] = a /\ calls[2] = b
  BY <1>3, <1>8, <1>9, ProperTwo
<1>11. PICK r : r = [rows.chat[k] EXCEPT !.deleted = TRUE]
  OBVIOUS
<1>12. rows.chat[k] \in ChatRows
  BY FieldsOfRows
<1>13. r \in ChatRows /\ r.deleted = TRUE /\ r.pinned = rows.chat[k].pinned /\ r.mute = rows.chat[k].mute
  BY <1>11, <1>12 DEF ChatRows
<1>14. PICK w : w = Outcome(calls)
  OBVIOUS
<1>15. w = [rows EXCEPT !.chat[k] = r]
  BY <1>8, <1>10, <1>11, <1>14 DEF Outcome, Written, MarkChatDeleted
<1>16. SameChat(rows.chat[k], told.chat[k]) => SameChat(r, d)
  BY <1>7, <1>13 DEF SameChat
<1>17. now.chat[k] = d /\ \A x \in Chats : x # k => now.chat[x] = told.chat[x]
  BY <1>4, ToldFields DEF ToldType
<1>18. Tells(calls, now)
  <2>1. b.to = Will(now, b.id)
    <3>1. Will(now, b.id) = now.chat[k]["deleted"]
      BY <1>6, <1>8 DEF Will
    <3> QED
      BY <1>7, <1>8, <1>17, <3>1
  <2>2. \A x \in Mirrored : x # b.id => Will(now, x) = Now(x)
    <3> SUFFICES ASSUME NEW x \in Mirrored, x # <<k, "deleted">> PROVE Will(now, x) = Now(x)
      BY <1>8
    <3>1. PICK y \in Chats, z \in {"pinned", "mute", "deleted"} : x = <<y, z>>
      BY <1>6, WillIs
    <3>2. now.chat[y][z] = told.chat[y][z]
      <4>1. CASE y # k
        BY <1>17, <4>1
      <4>2. CASE y = k
        <5>1. z # "deleted"
          BY <3>1, <4>2
        <5>2. d[z] = told.chat[k][z]
          BY <1>7, <5>1
        <5> QED
          BY <1>17, <4>2, <5>2
      <4> QED
        BY <4>1, <4>2
    <3> QED
      BY <1>6, <3>1, <3>2 DEF Will, Now
  <2>3. PICK m : m = 2
    OBVIOUS
  <2>4. LogsLast(calls, m, b)
    BY <1>9, <1>10, <2>3 DEF LogsLast
  <2> QED
    BY <2>1, <2>2, <2>4, LogsTold
<1>19. a.op \in {"updateChat", "upsertChat", "markDeleted"}
  BY <1>8
<1>20. Announced(now, calls)
  BY <1>4, <1>6, <1>7, <1>8, <1>10, <1>13, <1>14, <1>15, <1>16, <1>18, <1>19, ChatAnnounced
<1> QED
  BY <1>5, <1>20, PlainKeeps

\* The other events that no list of labels is about.
LEMMA ListsKeep ==
  ASSUME EventsShape, EventRowsIInv
  PROVE  /\ \A list \in SUBSET Contacts : BlocklistSet(list) => EventsShape' /\ EventRowsIInv'
         /\ \A c \in Contacts, add \in BOOLEAN : BlocklistUpdate(c, add) => EventsShape' /\ EventRowsIInv'
         /\ \A c \in Contacts, state \in Presences : PresenceUpdate(c, state) => EventsShape' /\ EventRowsIInv'
         /\ \A l \in Lids, c \in Contacts : LidMapping(l, c) => EventsShape' /\ EventRowsIInv'
<1>1. ASSUME NEW list \in SUBSET Contacts, BlocklistSet(list) PROVE EventsShape' /\ EventRowsIInv'
  <2>1. PICK now, calls : now = [told EXCEPT !.blocked = list] /\ calls = <<Call("read", None, list)>>
    OBVIOUS
  <2>2. Event("blocked", now, calls)
    BY <1>1, <2>1 DEF BlocklistSet
  <2>3. mirror = "blocked"
    BY <2>2 DEF Event, EventOf
  <2>4. Announced(now, calls)
    BY <2>1, <2>3, SetAnnounced
  <2> QED
    BY <2>2, <2>4, PlainKeeps
<1>2. ASSUME NEW c \in Contacts, NEW add \in BOOLEAN, BlocklistUpdate(c, add) PROVE EventsShape' /\ EventRowsIInv'
  <2>1. PICK now, calls : /\ now = [told EXCEPT !.blocked = IF add THEN @ \union {c} ELSE @ \ {c}]
                          /\ calls = <<Call(IF add THEN "block" ELSE "unblock", c, None), Call("log", c, add)>>
    OBVIOUS
  <2>2. Event("blocked", now, calls)
    BY <1>2, <2>1 DEF BlocklistUpdate
  <2>3. mirror = "blocked"
    BY <2>2 DEF Event, EventOf
  <2>4. Announced(now, calls)
    BY <2>1, <2>3, UpdateAnnounced
  <2> QED
    BY <2>2, <2>4, PlainKeeps
<1>3. ASSUME NEW c \in Contacts, NEW state \in Presences, PresenceUpdate(c, state) PROVE EventsShape' /\ EventRowsIInv'
  <2>1. PICK now, calls : /\ now = [told EXCEPT !.state[c] = state]
                          /\ calls = <<Call("presence", c, state), Call("transition", c, state)>>
    OBVIOUS
  <2>2. Event("presence", now, calls)
    BY <1>3, <2>1 DEF PresenceUpdate
  <2>3. mirror = "presence"
    BY <2>2 DEF Event, EventOf
  <2>4. Announced(now, calls)
    BY <2>1, <2>3, PresenceAnnounced
  <2> QED
    BY <2>2, <2>4, PlainKeeps
<1>4. ASSUME NEW l \in Lids, NEW c \in Contacts, LidMapping(l, c) PROVE EventsShape' /\ EventRowsIInv'
  <2>1. PICK now, calls : now = [told EXCEPT !.pn[l] = c] /\ calls = <<Call("setLid", l, c)>>
    OBVIOUS
  <2>2. Event("lids", now, calls)
    BY <1>4, <2>1 DEF LidMapping
  <2>3. mirror = "lids"
    BY <2>2 DEF Event, EventOf
  <2>4. Announced(now, calls)
    BY <2>1, <2>3, LidAnnounced
  <2> QED
    BY <2>2, <2>4, PlainKeeps
<1> QED
  BY <1>1, <1>2, <1>3, <1>4

\* The event of a label or an association x that is there from now on, or not: y.
\* The handler makes the call a, one more of redis, and logs b.
LEMMA LabelsAnnounced ==
  ASSUME EventsShape, mirror = "labels", NEW x, NEW y \in BOOLEAN, NEW now, NEW ls \in SUBSET LabelIds, NEW ts \in SUBSET Tags,
         now = [told EXCEPT !.labels = ls, !.tags = ts],
         x \in ls \union ts <=> y,
         \A z : z # x => (z \in ls <=> z \in told.labels) /\ (z \in ts <=> z \in told.tags),
         NEW calls \in Seq(Calls), Proper(calls), NEW n, NEW b, LogsLast(calls, n, b), b.id = x, b.to = y,
         calls[1].op \in {"upsertLabel", "deleteLabel", "associate", "disassociate"},
         Agrees(rows, told) => Agrees(Outcome(calls), now),
         eventStore = "redis" => /\ \A l \in ls \ told.labels : Len(calls) > 1 /\ calls[2] = Call("list", l, None)
                                 /\ \A t \in ts \ told.tags : Len(calls) > 1 /\ calls[2] = Call("index", t, None)
  PROVE  Announced(now, calls)
<1>1. now \in ToldType /\ now.labels = ls /\ now.tags = ts /\ now.channel = told.channel
  BY ToldFields DEF ToldType
<1>2. Tells(calls, now)
  <2>1. \A z : z # x => (z \in ls \union ts <=> z \in told.labels \union told.tags)
    OBVIOUS
  <2>2. \A q, z : Will(q, z) = (z \in q.labels \union q.tags)
    BY DEF Will
  <2>3. b.to = Will(now, b.id)
    <3>1. Will(now, x) = (x \in ls \union ts)
      BY <1>1, <2>2, Zenon
    <3>2. y = (x \in ls \union ts)
      OBVIOUS
    <3> QED
      BY <3>1, <3>2
  <2>4. \A z \in Mirrored : z # b.id => Will(now, z) = Now(z)
    <3> SUFFICES ASSUME NEW z, z # x PROVE Will(now, z) = Will(told, z)
      BY NowIs
    <3>1. Will(now, z) = (z \in ls \union ts)
      BY <1>1, <2>2, Zenon
    <3>2. Will(told, z) = (z \in told.labels \union told.tags)
      BY <2>2, Zenon
    <3>3. (z \in ls \union ts) = (z \in told.labels \union told.tags)
      BY <2>1
    <3> QED
      BY <3>1, <3>2, <3>3, Zenon
  <2> QED
    BY <2>3, <2>4, LogsTold
<1>3. /\ calls[1].op \in RowOps
      /\ calls[1].op \notin LogOps \union {"read", "replace", "wipe", "fill", "list", "index", "insertChat", "putViews"}
  BY DEF RowOps, LogOps
<1> QED
  BY <1>1, <1>2, <1>3 DEF Announced, Tells

\* The handlers of labels.edit and labels.association: the calls a and b, and on
\* redis c.
LabelCalls(o, x, v, a, b) ==
  /\ o \in {"upsertLabel", "deleteLabel", "associate", "disassociate"} /\ v \in BOOLEAN
  /\ x \in LabelIds \union Tags
  /\ o \in {"upsertLabel", "deleteLabel"} => x \in LabelIds
  /\ o \in {"associate", "disassociate"} => x \in Tags
  /\ a = Call(o, x, None) /\ b = Call("log", x, v)
RedisCall(o, x, p, c) ==
  c = Call(p, x, None) /\ ((o = "upsertLabel" /\ p = "list") \/ (o = "associate" /\ p = "index"))
ThreeOf(calls, n, a, c, b) == calls = <<a, c, b>> /\ n = 3

LEMMA LabelPlain ==
  ASSUME mirror = "labels", NEW o, NEW x, NEW v, NEW a, NEW b, LabelCalls(o, x, v, a, b),
         NEW calls, calls = <<a, b>>, NEW n, n = 2
  PROVE  calls \in Seq(Calls) /\ Proper(calls) /\ LogsLast(calls, n, b) /\ calls[1] = a
<1>1. a \in Calls /\ a.op = o
  BY DEF Calls, CallsOfLabels, Call, LabelCalls
<1>2. b \in Calls /\ b.op = "log"
  BY DEF Calls, OtherCalls, LoggedIds, Call, LabelCalls
<1>3. /\ a.op \in OpsOf(mirror) /\ a.op \in RowOps \ {"read", "wipe", "setLid"} /\ a.op \notin LogOps
      /\ b.op \in OpsOf(mirror) /\ b.op \in LogOps
  BY <1>1, <1>2 DEF OpsOf, RowOps, LogOps, LabelCalls
<1>4. calls \in Seq(Calls) /\ Proper(calls) /\ Len(calls) = 2 /\ calls[1] = a /\ calls[2] = b
  BY <1>1, <1>2, <1>3, ProperTwo
<1>5. LogsLast(calls, n, b)
  BY <1>3, <1>4 DEF LogsLast
<1> QED
  BY <1>4, <1>5

LEMMA LabelRedis ==
  ASSUME mirror = "labels", eventStore = "redis", NEW o, NEW x, NEW v, NEW a, NEW b, LabelCalls(o, x, v, a, b),
         NEW p, NEW c, RedisCall(o, x, p, c),
         NEW calls, NEW n, ThreeOf(calls, n, a, c, b)
  PROVE  calls \in Seq(Calls) /\ Proper(calls) /\ LogsLast(calls, n, b) /\ calls[1] = a
<1>1. a \in Calls /\ a.op = o /\ c \in Calls /\ c.op = p
  BY DEF Calls, CallsOfLabels, Call, LabelCalls, RedisCall
<1>2. b \in Calls /\ b.op = "log"
  BY DEF Calls, OtherCalls, LoggedIds, Call, LabelCalls
<1>3. /\ a.op \in OpsOf(mirror) /\ a.op \notin LogOps /\ c.op \in OpsOf(mirror) /\ c.op \notin LogOps
      /\ b.op \in OpsOf(mirror) /\ b.op \in LogOps
      /\ (a.op = "upsertLabel" /\ c.op = "list") \/ (a.op = "associate" /\ c.op = "index")
  BY <1>1, <1>2 DEF OpsOf, LogOps, RedisCall, LabelCalls, Call
<1>4. calls \in Seq(Calls) /\ Proper(calls) /\ Len(calls) = 3 /\ calls[1] = a /\ calls[2] = c /\ calls[3] = b
  BY <1>1, <1>2, <1>3, ProperThree DEF ThreeOf
<1>5. LogsLast(calls, n, b)
  <2>1. \A j \in 1 .. n - 1 : j = 1 \/ j = 2
    BY DEF ThreeOf
  <2> QED
    BY <1>3, <1>4, <2>1 DEF LogsLast, ThreeOf
<1> QED
  BY <1>4, <1>5

\* What the four calls make of the rows.
LEMMA LabelOutcome ==
  ASSUME EventsShape, NEW calls, NEW o \in {"upsertLabel", "deleteLabel", "associate", "disassociate"}, NEW x,
         calls[1] = Call(o, x, None), NEW now, now \in ToldType,
         now.blocked = told.blocked, now.pn = told.pn, now.state = told.state, now.chat = told.chat,
         o = "upsertLabel" => now.labels = told.labels \union {x} /\ now.tags = told.tags,
         o = "deleteLabel" => now.labels = told.labels \ {x} /\ now.tags = told.tags,
         o = "associate" => now.labels = told.labels /\ now.tags = told.tags \union {x} /\ x \in Tags,
         o = "disassociate" => now.labels = told.labels /\ now.tags = told.tags \ {x} /\ x \in Tags,
         Agrees(rows, told)
  PROVE  Agrees(Outcome(calls), now)
<1>1. calls[1].op = o /\ calls[1].id = x
  BY DEF Call
<1>2. PICK w : w = Outcome(calls)
  OBVIOUS
<1>3. w = Written(calls[1])
  BY <1>1, <1>2 DEF Outcome
<1>4. rows \in RowsType
  BY DEF EventsShape
<1>5. /\ w.blocked = rows.blocked /\ w.pn = rows.pn /\ w.state = rows.state /\ w.chat = rows.chat
      /\ o = "upsertLabel" => w.labels = rows.labels \union {x} /\ w.tags = rows.tags
      /\ o = "deleteLabel" => w.labels = rows.labels \ {x} /\ w.tags = rows.tags
      /\ o = "associate" => /\ w.labels = rows.labels
                            /\ w.tags = [rows.tags EXCEPT ![x] = IF eventStore = "sqlite" THEN @ + 1 ELSE 1]
      /\ o = "disassociate" => w.labels = rows.labels /\ w.tags = [rows.tags EXCEPT ![x] = 0]
  BY <1>1, <1>3, <1>4 DEF Written, DeleteLabel, SqliteTagged, Tagged, Untagged, RowsType
<1>6. rows.tags \in [Tags -> Nat] /\ {t \in Tags : rows.tags[t] > 0} = told.tags
  BY <1>4 DEF RowsType, Agrees
<1>7. {t \in Tags : w.tags[t] > 0} = now.tags
  <2>1. CASE o \in {"upsertLabel", "deleteLabel"}
    BY <1>5, <1>6, <2>1
  <2>2. CASE o = "associate"
    <3>1. w.tags[x] > 0 /\ \A t \in Tags : t # x => w.tags[t] = rows.tags[t]
      BY <1>5, <1>6, <2>2
    <3> QED
      BY <1>6, <2>2, <3>1
  <2>3. CASE o = "disassociate"
    <3>1. ~(w.tags[x] > 0) /\ \A t \in Tags : t # x => w.tags[t] = rows.tags[t]
      BY <1>5, <1>6, <2>3
    <3> QED
      BY <1>6, <2>3, <3>1
  <2> QED
    BY <2>1, <2>2, <2>3
<1>8. Agrees(w, now)
  BY <1>5, <1>7 DEF Agrees
<1> QED
  BY <1>2, <1>8

LEMMA EditKeeps ==
  ASSUME EventsShape, EventRowsIInv, NEW l \in LabelIds, NEW deleted \in BOOLEAN, LabelEdit(l, deleted)
  PROVE  EventsShape' /\ EventRowsIInv'
<1>1. PICK ls : ls = IF deleted THEN told.labels \ {l} ELSE told.labels \union {l}
  OBVIOUS
<1>2. PICK ts : ts = told.tags
  OBVIOUS
<1>3. PICK o : o = IF deleted THEN "deleteLabel" ELSE "upsertLabel"
  OBVIOUS
<1>4. PICK y \in BOOLEAN : y = ~deleted
  OBVIOUS
<1>5. PICK b : b = Call("log", l, y)
  OBVIOUS
<1>6. PICK now : now = [told EXCEPT !.labels = ls, !.tags = ts]
  OBVIOUS
<1>7. PICK calls : calls = IF eventStore = "redis" /\ ~deleted THEN <<Call(o, l, None), Call("list", l, None), b>>
                           ELSE <<Call(o, l, None), b>>
  OBVIOUS
<1>8. told \in ToldType /\ ls \in SUBSET LabelIds /\ ts \in SUBSET Tags
  BY <1>1, <1>2, ToldFields
<1>9. Event("labels", now, calls)
  <2>1. [told EXCEPT !.labels = IF deleted THEN @ \ {l} ELSE @ \union {l}] = now
    BY <1>1, <1>2, <1>6, <1>8 DEF ToldType
  <2>2. calls = (IF deleted THEN <<Call("deleteLabel", l, None)>>
                 ELSE IF eventStore = "redis" THEN RedisUpsertLabel(l) ELSE UpsertLabel(l)) \o <<b>>
    BY <1>3, <1>7, TwoCalls, ThreeCalls DEF RedisUpsertLabel, UpsertLabel
  <2> QED
    BY <1>4, <1>5, <2>1, <2>2 DEF LabelEdit
<1>10. mirror = "labels"
  BY <1>9 DEF Event, EventOf
<1>11. /\ now \in ToldType /\ now.labels = ls /\ now.tags = ts /\ now.blocked = told.blocked /\ now.pn = told.pn
       /\ now.state = told.state /\ now.chat = told.chat
  BY <1>6, <1>8 DEF ToldType
<1>12. /\ l \in ls \union ts <=> y
       /\ \A z : z # l => (z \in ls <=> z \in told.labels) /\ (z \in ts <=> z \in told.tags)
  <2>1. l \notin Tags
    BY EventRowsAssumption
  <2> QED
    BY <1>1, <1>2, <1>4, <1>8, <2>1
<1>13. PICK n :
         /\ calls \in Seq(Calls) /\ Proper(calls) /\ LogsLast(calls, n, b) /\ calls[1] = Call(o, l, None)
         /\ eventStore = "redis" /\ ~deleted => Len(calls) > 1 /\ calls[2] = Call("list", l, None)
  <2>1. l \in LabelIds \union Tags /\ o \in {"upsertLabel", "deleteLabel", "associate", "disassociate"}
    BY <1>3
  <2>2. PICK a, c, p : a = Call(o, l, None) /\ c = Call(p, l, None) /\ p = "list"
    OBVIOUS
  <2>3. LabelCalls(o, l, y, a, b)
    BY <1>3, <1>4, <1>5, <2>1, <2>2 DEF LabelCalls
  <2>4. CASE eventStore = "redis" /\ ~deleted
    <3>1. calls = <<a, c, b>> /\ o = "upsertLabel"
      BY <1>3, <1>7, <2>2, <2>4
    <3>2. PICK n : n = 3
      OBVIOUS
    <3>3. RedisCall(o, l, p, c)
      BY <2>2, <3>1 DEF RedisCall
    <3>4. eventStore = "redis" /\ ThreeOf(calls, n, a, c, b)
      BY <2>4, <3>1, <3>2 DEF ThreeOf
    <3>5. calls \in Seq(Calls) /\ Proper(calls) /\ LogsLast(calls, n, b) /\ calls[1] = a
      BY <1>10, <2>3, <3>3, <3>4, LabelRedis
    <3>6. Len(calls) > 1 /\ calls[2] = c
      BY <3>1
    <3> QED
      BY <2>2, <3>5, <3>6
  <2>5. CASE ~(eventStore = "redis" /\ ~deleted)
    <3>1. calls = <<a, b>> /\ o \in {"upsertLabel", "deleteLabel"}
      BY <1>3, <1>7, <2>2, <2>5
    <3>2. PICK n : n = 2
      OBVIOUS
    <3>3. calls \in Seq(Calls) /\ Proper(calls) /\ LogsLast(calls, n, b) /\ calls[1] = a
      BY <1>10, <2>3, <3>1, <3>2, LabelPlain
    <3> QED
      BY <2>2, <2>5, <3>3
  <2> QED
    BY <2>4, <2>5
<1>14. Agrees(rows, told) => Agrees(Outcome(calls), now)
  BY <1>1, <1>2, <1>3, <1>11, <1>13, LabelOutcome
<1>15. calls[1].op \in {"upsertLabel", "deleteLabel", "associate", "disassociate"}
  BY <1>3, <1>13 DEF Call
<1>16. eventStore = "redis" => /\ \A x \in ls \ told.labels : Len(calls) > 1 /\ calls[2] = Call("list", x, None)
                               /\ \A t \in ts \ told.tags : Len(calls) > 1 /\ calls[2] = Call("index", t, None)
  BY <1>1, <1>2, <1>13
<1>17. b.id = l /\ b.to = y
  BY <1>5 DEF Call
<1>18. Announced(now, calls)
  BY <1>6, <1>8, <1>10, <1>12, <1>13, <1>14, <1>15, <1>16, <1>17, LabelsAnnounced
<1> QED
  BY <1>9, <1>18, PlainKeeps

LEMMA AssociationKeeps ==
  ASSUME EventsShape, EventRowsIInv, NEW g \in Tags, NEW add \in BOOLEAN, LabelAssociation(g, add)
  PROVE  EventsShape' /\ EventRowsIInv'
<1>1. PICK ts : ts = IF add THEN told.tags \union {g} ELSE told.tags \ {g}
  OBVIOUS
<1>2. PICK ls : ls = told.labels
  OBVIOUS
<1>3. PICK o : o = IF add THEN "associate" ELSE "disassociate"
  OBVIOUS
<1>4. PICK y \in BOOLEAN : y = add
  OBVIOUS
<1>5. PICK b : b = Call("log", g, y)
  OBVIOUS
<1>6. PICK now : now = [told EXCEPT !.labels = ls, !.tags = ts]
  OBVIOUS
<1>7. PICK calls : calls = IF eventStore = "redis" /\ add THEN <<Call(o, g, None), Call("index", g, None), b>>
                           ELSE <<Call(o, g, None), b>>
  OBVIOUS
<1>8. told \in ToldType /\ ls \in SUBSET LabelIds /\ ts \in SUBSET Tags
  BY <1>1, <1>2, ToldFields
<1>9. Event("labels", now, calls)
  <2>1. [told EXCEPT !.tags = IF add THEN @ \union {g} ELSE @ \ {g}] = now
    BY <1>1, <1>2, <1>6, <1>8 DEF ToldType
  <2>2. calls = (IF ~add THEN <<Call("disassociate", g, None)>>
                 ELSE IF eventStore = "redis" THEN RedisAssociate(g) ELSE Associate(g)) \o <<b>>
    BY <1>3, <1>7, TwoCalls, ThreeCalls DEF RedisAssociate, Associate
  <2> QED
    BY <1>4, <1>5, <2>1, <2>2 DEF LabelAssociation
<1>10. mirror = "labels"
  BY <1>9 DEF Event, EventOf
<1>11. /\ now \in ToldType /\ now.labels = ls /\ now.tags = ts /\ now.blocked = told.blocked /\ now.pn = told.pn
       /\ now.state = told.state /\ now.chat = told.chat
  BY <1>6, <1>8 DEF ToldType
<1>12. /\ g \in ls \union ts <=> y
       /\ \A z : z # g => (z \in ls <=> z \in told.labels) /\ (z \in ts <=> z \in told.tags)
  <2>1. g \notin LabelIds
    BY EventRowsAssumption
  <2> QED
    BY <1>1, <1>2, <1>4, <1>8, <2>1
<1>13. PICK n :
         /\ calls \in Seq(Calls) /\ Proper(calls) /\ LogsLast(calls, n, b) /\ calls[1] = Call(o, g, None)
         /\ eventStore = "redis" /\ add => Len(calls) > 1 /\ calls[2] = Call("index", g, None)
  <2>1. g \in LabelIds \union Tags /\ o \in {"upsertLabel", "deleteLabel", "associate", "disassociate"}
    BY <1>3
  <2>2. PICK a, c, p : a = Call(o, g, None) /\ c = Call(p, g, None) /\ p = "index"
    OBVIOUS
  <2>3. LabelCalls(o, g, y, a, b)
    BY <1>3, <1>4, <1>5, <2>1, <2>2 DEF LabelCalls
  <2>4. CASE eventStore = "redis" /\ add
    <3>1. calls = <<a, c, b>> /\ o = "associate"
      BY <1>3, <1>7, <2>2, <2>4
    <3>2. PICK n : n = 3
      OBVIOUS
    <3>3. RedisCall(o, g, p, c)
      BY <2>2, <3>1 DEF RedisCall
    <3>4. eventStore = "redis" /\ ThreeOf(calls, n, a, c, b)
      BY <2>4, <3>1, <3>2 DEF ThreeOf
    <3>5. calls \in Seq(Calls) /\ Proper(calls) /\ LogsLast(calls, n, b) /\ calls[1] = a
      BY <1>10, <2>3, <3>3, <3>4, LabelRedis
    <3>6. Len(calls) > 1 /\ calls[2] = c
      BY <3>1
    <3> QED
      BY <2>2, <3>5, <3>6
  <2>5. CASE ~(eventStore = "redis" /\ add)
    <3>1. calls = <<a, b>> /\ o \in {"associate", "disassociate"}
      BY <1>3, <1>7, <2>2, <2>5
    <3>2. PICK n : n = 2
      OBVIOUS
    <3>3. calls \in Seq(Calls) /\ Proper(calls) /\ LogsLast(calls, n, b) /\ calls[1] = a
      BY <1>10, <2>3, <3>1, <3>2, LabelPlain
    <3> QED
      BY <2>2, <2>5, <3>3
  <2> QED
    BY <2>4, <2>5
<1>14. Agrees(rows, told) => Agrees(Outcome(calls), now)
  BY <1>1, <1>2, <1>3, <1>11, <1>13, LabelOutcome
<1>15. calls[1].op \in {"upsertLabel", "deleteLabel", "associate", "disassociate"}
  BY <1>3, <1>13 DEF Call
<1>16. eventStore = "redis" => /\ \A x \in ls \ told.labels : Len(calls) > 1 /\ calls[2] = Call("list", x, None)
                               /\ \A t \in ts \ told.tags : Len(calls) > 1 /\ calls[2] = Call("index", t, None)
  BY <1>1, <1>2, <1>13
<1>17. b.id = g /\ b.to = y
  BY <1>5 DEF Call
<1>18. Announced(now, calls)
  BY <1>6, <1>8, <1>10, <1>12, <1>13, <1>14, <1>15, <1>16, <1>17, LabelsAnnounced
<1> QED
  BY <1>9, <1>18, PlainKeeps

-----------------------------------------------------------------------------
(* The invariant *)

LEMMA EventsBegin ==
  ASSUME EventsInit
  PROVE  EventsShape /\ EventRowsIInv
<1>1. /\ told.blocked = {} /\ told.labels = {} /\ told.tags = {} /\ told.pn = [l \in Lids |-> None]
      /\ told.state = [c \in Contacts |-> None] /\ told.chat = [k \in Chats |-> NoChat] /\ told.channel = NoViews
      /\ rows.blocked = {} /\ rows.labels = {} /\ rows.tags = [t \in Tags |-> 0] /\ rows.pn = [l \in Lids |-> None]
      /\ rows.state = [c \in Contacts |-> None] /\ rows.chat = [k \in Chats |-> NoChat] /\ rows.channel = NoViews
      /\ handlers = <<>> /\ Len(handlers) = 0 /\ timeline = <<>> /\ Len(timeline) = 0
      /\ lastLogged = [c \in Contacts |-> None] /\ sure = [rows |-> TRUE, timeline |-> TRUE, steady |-> TRUE]
  BY DEF EventsInit
<1>2. NoChat \in ChatRows /\ NoViews \in ChannelRows
  BY DEF NoChat, NoViews, ChatRows, ChannelRows
<1>3. EventsShape
  <2>1. rows \in RowsType
    BY <1>2 DEF EventsInit, RowsType
  <2>2. told \in ToldType
    BY <1>2 DEF EventsInit, ToldType
  <2>3. handlers \in Seq(Seq(Calls)) /\ timeline \in Seq(LoggedIds \X (BOOLEAN \union Presences))
    BY <1>1
  <2>4. eventStore \in EventStores /\ mirror \in {"blocked", "labels", "lids", "presence", "chats", "channel"}
    BY DEF EventsInit
  <2>5. \A i \in 1 .. Len(handlers) : Proper(handlers[i]) /\ Begun(handlers[i])
    BY <1>1
  <2>6. lastLogged \in [Contacts -> Presences \union {None}]
    BY <1>1
  <2>7. sure \in [rows : BOOLEAN, timeline : BOOLEAN, steady : BOOLEAN]
    BY <1>1
  <2> QED
    BY <2>1, <2>2, <2>3, <2>4, <2>5, <2>6, <2>7 DEF EventsShape
<1>4. Agrees(rows, told)
  <2>1. \A k \in Chats : SameChat(rows.chat[k], told.chat[k])
    BY <1>1 DEF SameChat
  <2>2. {t \in Tags : rows.tags[t] > 0} = {}
    BY <1>1
  <2> QED
    BY <1>1, <2>1, <2>2 DEF Agrees
<1>5. RowsKnown
  BY <1>1, <1>4 DEF RowsKnown
<1>6. Reversed /\ Untouched
  <2>1. [rows EXCEPT !.blocked = told.blocked] = rows
    <3>1. rows \in RowsType
      BY <1>3 DEF EventsShape
    <3> QED
      BY <1>1, <3>1 DEF RowsType
  <2>2. Untouched
    BY <1>1, <1>4, <2>1 DEF Untouched
  <2> QED
    BY <1>1, <2>2 DEF Reversed
<1>7. ChannelKnown
  <2>1. Counted(rows.channel, told.channel, <<>>)
    <3>1. \A op, to : Cardinality(Waits(<<>>, op, to)) = 0
      BY NoneWaits
    <3>2. Len(<<>>) = 0
      OBVIOUS
    <3>3. NoViews.views = 0 /\ NoViews.guesses = 0 /\ NoViews.sum = 0
      BY DEF NoViews
    <3> QED
      BY <1>1, <3>1, <3>2, <3>3 DEF Counted
  <2> QED
    BY <1>1, <2>1 DEF ChannelKnown
<1>8. OneEvent /\ LogsInOrder
  BY <1>1 DEF OneEvent, LogsInOrder
<1>9. TimelineKnown
  <2>1. \A x, v : EndsWith(x, v)
    BY <1>1 DEF EndsWith
  <2>2. sure.rows
    BY <1>1
  <2> QED
    BY <2>1, <2>2 DEF TimelineKnown
<1>10. LastKnown
  BY <1>1 DEF LastKnown, LogSteady
<1> QED
  BY <1>3, <1>5, <1>6, <1>7, <1>8, <1>9, <1>10 DEF EventRowsIInv

LEMMA EventsStay ==
  ASSUME EventsShape, EventRowsIInv, UNCHANGED eventVars
  PROVE  EventsShape' /\ EventRowsIInv'
<1>1. /\ eventStore' = eventStore /\ mirror' = mirror /\ told' = told /\ rows' = rows /\ timeline' = timeline
      /\ lastLogged' = lastLogged /\ handlers' = handlers /\ sure' = sure
  BY DEF eventVars
<1>2. EventsShape'
  <2>1. \A i \in 1 .. Len(handlers) : Proper(handlers[i]) /\ Begun(handlers[i])
    BY DEF EventsShape
  <2>2. \A i \in 1 .. Len(handlers') : Proper(handlers[i])' /\ Begun(handlers[i])'
    <3> SUFFICES ASSUME NEW i \in 1 .. Len(handlers) PROVE Proper(handlers[i])' /\ Begun(handlers[i])'
      BY <1>1
    <3>1. handlers'[i] = handlers[i]
      BY <1>1
    <3>2. Begun(handlers[i])'
      BY <1>1, <2>1, <3>1 DEF Begun
    <3>3. Proper(handlers[i])'
      <4>1. Proper(handlers[i])
        BY <2>1
      <4> QED
        BY <1>1, <3>1, <4>1, Zenon DEF Proper
    <3> QED
      BY <3>2, <3>3
  <2> QED
    BY <1>1, <2>2 DEF EventsShape
<1>3. RowsKnown'
  <2>1. \A h : Outcome(h)' = Outcome(h)
    BY <1>1 DEF Outcome, SqliteUpsertChat, Written, AddToBlocklist, RemoveFromBlocklist, DeleteLabel, SqliteTagged,
       Tagged, Untagged, RedisSetLid, SetLid, RecordPresence, InsertChat, MongoUpdateChat, RedisUpdateChat, UpdateChat,
       MarkChatDeleted, SetViewCount, IncrementView, RecordReaction
  <2>2. \A i : Outcome(handlers[i])' = Outcome(handlers[i])
    BY <1>1, <2>1 DEF Outcome
  <2> QED
    BY <1>1, <2>2 DEF EventRowsIInv, RowsKnown, Writing
<1>4. Reversed' /\ Untouched' /\ ChannelKnown' /\ OneEvent' /\ LogsInOrder'
  BY <1>1 DEF EventRowsIInv, Reversed, Untouched, ChannelKnown, OneEvent, LogsInOrder
<1>5. TimelineKnown'
  <2>1. TimelineKnown /\ Len(timeline') \in Nat
    BY <1>1, LenProperties DEF EventsShape, EventRowsIInv
  <2>2. ASSUME sure'.timeline
        PROVE  /\ mirror' = "blocked" => sure'.rows
               /\ Reading' => \A x \in Mirrored' : \A v : v = (x \in rows'.blocked) => Ends(handlers', timeline', x, v)
               /\ ~Reading' => \A x \in Mirrored' : \A v : v = Now(x)' => Ends(handlers', timeline', x, v)
    <3>1. /\ mirror = "blocked" => sure.rows
          /\ Reading => \A x \in Mirrored : \A v : v = (x \in rows.blocked) => Ends(handlers, timeline, x, v)
          /\ ~Reading => \A x \in Mirrored : \A v : v = Now(x) => Ends(handlers, timeline, x, v)
      BY <1>1, <2>1, <2>2, TimelineIs
    <3>2. Reading' <=> Reading
      BY <1>1 DEF Reading
    <3>3. Mirrored' = Mirrored /\ \A x : Now(x)' = Now(x)
      BY <1>1 DEF Mirrored, Now
    <3> QED
      BY <1>1, <3>1, <3>2, <3>3
  <2> QED
    BY <2>1, <2>2, TimelineNext
<1>6. LastKnown'
  <2>1. LastKnown /\ Len(timeline') \in Nat
    BY <1>1, LenProperties DEF EventsShape, EventRowsIInv
  <2> QED
    BY <1>1, <2>1, KnownIs, KnownNext
<1> QED
  BY <1>2, <1>3, <1>4, <1>5, <1>6 DEF EventRowsIInv

LEMMA EventsKeep ==
  ASSUME EventsShape, EventRowsIInv, [EventsNext]_eventVars
  PROVE  EventsShape' /\ EventRowsIInv'
<1>1. CASE UNCHANGED eventVars
  BY <1>1, EventsStay
<1>2. CASE Continue
  BY <1>2, ContinueIs, GoesKeeps
<1>3. CASE EventsCrash
  BY <1>3, CrashKeeps
<1>4. CASE \E list \in SUBSET Contacts : BlocklistSet(list)
  BY <1>4, ListsKeep
<1>5. CASE \E c \in Contacts : \/ \E add \in BOOLEAN : BlocklistUpdate(c, add)
                               \/ \E state \in Presences : PresenceUpdate(c, state)
                               \/ \E l \in Lids : LidMapping(l, c)
                               \/ Forget(c)
  BY <1>5, ListsKeep, ForgetKeeps
<1>6. CASE \E l \in LabelIds, deleted \in BOOLEAN : LabelEdit(l, deleted)
  BY <1>6, EditKeeps
<1>7. CASE \E t \in Tags, add \in BOOLEAN : LabelAssociation(t, add)
  BY <1>7, AssociationKeeps
<1>8. CASE \E k \in Chats : \/ \E f \in Fields \union {None} : ChatsUpsert(k, f) \/ ChatsUpdate(k, f)
                            \/ ChatsDelete(k)
  BY <1>8, ChatsUpsertKeeps, ChatsUpdateKeeps, ChatsDeleteKeeps
<1>9. CASE \E n \in 1 .. MaxViews : NewsletterView(n)
  <2>1. PICK n \in 1 .. MaxViews : NewsletterView(n)
    BY <1>9
  <2>2. n \in Nat
    BY EventRowsAssumption
  <2> QED
    BY <2>1, <2>2, ViewKeeps
<1>10. CASE NewsletterViewUnparsed
  BY <1>10, UnparsedKeeps
<1>11. CASE \E n \in {1, -1} : NewsletterReaction(n)
  BY <1>11, ReactionKeeps
<1> QED
  BY <1>1, <1>2, <1>3, <1>4, <1>5, <1>6, <1>7, <1>8, <1>9, <1>10, <1>11 DEF EventsNext

\* When no handler runs, what is known of the rows is all that was told.
LEMMA QuietTells ==
  ASSUME EventsShape, EventRowsIInv, handlers = <<>>, sure.rows
  PROVE  TellsAll
<1>1. Agrees(rows, told) /\ (eventStore = "redis" => /\ \A l \in told.labels : l \in rows.listed
                                                     /\ \A t \in told.tags : t \in rows.index)
  <2>1. 1 .. Len(handlers) = {}
    OBVIOUS
  <2> QED
    BY <2>1 DEF EventRowsIInv, RowsKnown
<1>2. /\ rows.blocked = told.blocked /\ rows.labels = told.labels /\ {t \in Tags : rows.tags[t] > 0} = told.tags
      /\ rows.pn = told.pn /\ rows.state = told.state /\ \A k \in Chats : SameChat(rows.chat[k], told.chat[k])
  BY <1>1 DEF Agrees
<1>3. ListLabels = told.labels
  BY <1>1, <1>2 DEF ListLabels
<1>4. ASSUME NEW c \in Contacts, NEW labels, labels = {l \in told.labels : <<l, c>> \in told.tags}
      PROVE  labels \subseteq LabelsOf(c) /\ (eventStore # "redis" => LabelsOf(c) = labels)
  <2>1. \A l \in told.labels : <<l, c>> \in Tags
    BY ToldFields DEF Tags
  <2>2. \A l \in told.labels : <<l, c>> \in told.tags <=> rows.tags[<<l, c>>] > 0
    BY <1>2, <2>1
  <2>3. \A l : l \in LabelsOf(c) <=>
                 l \in rows.labels /\ IF eventStore = "redis" THEN <<l, c>> \in rows.index ELSE rows.tags[<<l, c>>] > 0
    BY DEF LabelsOf
  <2> QED
    BY <1>1, <1>2, <1>4, <2>2, <2>3
<1>5. ASSUME NEW c \in Contacts, NEW lids, lids = {l \in Lids : told.pn[l] = c}
      PROVE  IF eventStore = "redis" THEN lids # {} => ReverseLids(c) # {} ELSE ReverseLids(c) = lids
  <2>1. CASE eventStore = "redis"
    <3>1. ASSUME NEW l \in lids PROVE ReverseLids(c) # {}
      <4>1. l \in Lids /\ rows.pn[l] = c /\ c # None
        BY <1>2, <1>5, <3>1, EventRowsAssumption
      <4>2. rows.reverse[c] # None
        BY <2>1, <4>1 DEF EventRowsIInv, Reversed
      <4> QED
        BY <2>1, <4>2 DEF ReverseLids
    <3> QED
      BY <2>1, <3>1
  <2>2. CASE eventStore # "redis"
    BY <1>2, <1>5, <2>2 DEF ReverseLids
  <2> QED
    BY <2>1, <2>2
<1>6. /\ rows.channel.views \in told.channel.views .. told.channel.views + told.channel.guesses
      /\ rows.channel.sum = told.channel.sum
  <2>1. rows.channel \in ChannelRows /\ told.channel \in ChannelRows
    BY ToldFields DEF EventsShape, RowsType
  <2>2. CASE mirror = "channel"
    <3>1. Counted(rows.channel, told.channel, <<>>)
      BY <2>2 DEF EventRowsIInv, ChannelKnown
    <3>2. \A op, to : Cardinality(Waits(<<>>, op, to)) = 0
      BY NoneWaits
    <3>3. 1 .. Len(<<>>) = {}
      OBVIOUS
    <3>4. PICK ch, t : ch = rows.channel /\ t = told.channel
      OBVIOUS
    <3>5. ch.views + 0 <= t.views + t.guesses /\ ch.views >= t.views /\ ch.sum + 0 = t.sum + 0
      BY <3>1, <3>2, <3>3, <3>4 DEF Counted
    <3>6. ch.views \in Nat /\ ch.sum \in Int /\ t.views \in Nat /\ t.guesses \in Nat /\ t.sum \in Int
      BY <2>1, <3>4 DEF ChannelRows
    <3> QED
      BY <3>4, <3>5, <3>6
  <2>3. CASE mirror # "channel"
    <3>1. rows.channel = NoViews /\ told.channel = NoViews
      BY <2>3 DEF EventRowsIInv, Untouched
    <3> QED
      BY <3>1 DEF NoViews
  <2> QED
    BY <2>2, <2>3
<1> QED
  BY <1>2, <1>3, <1>4, <1>5, <1>6 DEF TellsAll, SameChat

LEMMA QuietLogs ==
  ASSUME EventsShape, EventRowsIInv, handlers = <<>>
  PROVE  (sure.timeline => LogTells) /\ (sure.steady => LogSteady)
<1>1. Len(handlers) = 0 /\ ~Reading
  BY DEF Reading
<1>2. ASSUME sure.timeline PROVE LogTells
  <2>1. \A x \in Mirrored : EndsWith(x, Now(x))
    BY <1>1, <1>2 DEF EventRowsIInv, TimelineKnown
  <2> QED
    BY <1>1, <2>1 DEF LogTells, EndsWith
<1>3. ASSUME sure.steady PROVE LogSteady
  BY <1>3 DEF EventRowsIInv, LastKnown, LogSteady
<1> QED
  BY <1>2, <1>3

\* What holds of the rows, the timeline and the handlers that run, in every state.
THEOREM EventRowsKnown == EventsSpec => [](EventsShape /\ EventRowsIInv)
<1>1. EventsInit => EventsShape /\ EventRowsIInv
  BY EventsBegin
<1>2. EventsShape /\ EventRowsIInv /\ [EventsNext]_eventVars => (EventsShape /\ EventRowsIInv)'
  BY EventsKeep
<1> QED
  BY <1>1, <1>2, PTL DEF EventsSpec

\* Between two events the store and the timeline say what WhatsApp said, as
\* EventRowsInv has it, whatever the store and the order in which handlers go on.
THEOREM EventRowsAreTrue == EventsSpec => []EventRowsInv
<1>1. EventsShape /\ EventRowsIInv => EventRowsInv
  <2> SUFFICES ASSUME EventsShape, EventRowsIInv, handlers = <<>>
               PROVE  (sure.rows => TellsAll) /\ (sure.timeline => LogTells) /\ (sure.steady => LogSteady)
    BY DEF EventRowsInv
  <2>1. (sure.timeline => LogTells) /\ (sure.steady => LogSteady)
    BY QuietLogs
  <2>2. ASSUME sure.rows PROVE TellsAll
    BY <2>2, QuietTells
  <2> QED
    BY <2>1, <2>2
<1> QED
  BY <1>1, EventRowsKnown, PTL

=============================================================================
