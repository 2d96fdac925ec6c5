-------------------------------- MODULE Feeds --------------------------------
(***************************************************************************)
(* The delivery of articles to subscribers, services/genericRssService.js  *)
(* (checkAndDeliver); githubService.js has the same protocol for releases  *)
(* and advisories.  A check reads the subscribers, fetches the feed of     *)
(* each, and for every article asks the store whether it was sent, sends   *)
(* it, and records it.  Every await is a step, so that the process may die *)
(* between sending and recording, and a second check may run beside a      *)
(* first one that takes longer than its lock (Scheduler).                  *)
(*                                                                         *)
(* Every store swallows the errors of these methods: a list that cannot be *)
(* read is empty, an article that cannot be looked up was not sent, and an *)
(* article that cannot be recorded is not recorded.                        *)
(***************************************************************************)
EXTENDS Scheduler

CONSTANTS
  Subscribers,   \* each with one feed
  Items,         \* the articles that match its topics
  Runs,          \* bound: checks that run at the same time
  Hung,          \* the runs whose awaits may never settle
  MaxCrashes     \* bound on the number of crashes explored

ASSUME FeedsAssumption == Hung \subseteq Runs /\ MaxCrashes \in Nat

Pairs == Subscribers \X Items
NoPair == <<>>

VARIABLES
  pc,         \* where each run is
  left,       \* the subscribers it has still to visit
  batch,      \* the articles of the current one that it has still to look at
  item,       \* the one it is sending or recording
  subs,       \* table service_subscribers
  shown,      \* the articles that the feed shows now
  recorded,   \* table service_sent_items
  sent,       \* history: deliveries of each article, counted up to 2
  excused,    \* history: articles of which a failure kept the record
  crashes

runVars == <<pc, left, batch, item>>
vars == <<schedVars, runVars, subs, shown, recorded, sent, excused, crashes>>

TypeOK ==
  /\ SchedTypeOK
  /\ pc \in [Runs -> {"idle", "listing", "visiting", "looking", "sending", "recording"}]
  /\ left \in [Runs -> SUBSET Subscribers]
  /\ batch \in [Runs -> SUBSET Pairs]
  /\ item \in [Runs -> Pairs \union {NoPair}]
  /\ subs \subseteq Subscribers /\ shown \subseteq Items
  /\ recorded \subseteq Pairs
  /\ sent \in [Pairs -> 0 .. 2]
  /\ excused \subseteq Pairs
  /\ crashes \in Nat
  /\ \A k \in Runs : pc[k] = "idle" => left[k] = {}
  /\ \A k \in Runs : pc[k] \in {"idle", "listing", "visiting"} => batch[k] = {}
  /\ \A k \in Runs : pc[k] \in {"sending", "recording"} => item[k] \in Pairs

Init ==
  /\ SchedInit
  /\ pc = [k \in Runs |-> "idle"]
  /\ left = [k \in Runs |-> {}]
  /\ batch = [k \in Runs |-> {}]
  /\ item = [k \in Runs |-> NoPair]
  /\ subs = {} /\ shown = {} /\ recorded = {}
  /\ sent = [p \in Pairs |-> 0]
  /\ excused = {}
  /\ crashes = 0

-----------------------------------------------------------------------------
(* A check *)

Goto(k, step) == pc' = [pc EXCEPT ![k] = step]

\* The callback of the timer starts a check.
Start(k) ==
  /\ pc[k] = "idle"
  /\ Acquire
  /\ Goto(k, "listing")
  /\ UNCHANGED <<left, batch, item, subs, shown, recorded, sent, excused, crashes>>

\* getSubscribers
Listed(k, found) ==
  /\ pc[k] = "listing"
  /\ Goto(k, "visiting")
  /\ left' = [left EXCEPT ![k] = found]
  /\ UNCHANGED <<schedVars, batch, item, subs, shown, recorded, sent, excused, crashes>>

List(k) == Listed(k, subs)

\* There is no socket yet, or the list cannot be read.
ListFails(k) == Listed(k, {})

\* fetchFeed for the next subscriber.
Fetched(k, s, found) ==
  /\ pc[k] = "visiting" /\ s \in left[k]
  /\ Goto(k, "looking")
  /\ left' = [left EXCEPT ![k] = @ \ {s}]
  /\ batch' = [batch EXCEPT ![k] = {s} \X found]
  /\ UNCHANGED <<schedVars, item, subs, shown, recorded, sent, excused, crashes>>

Fetch(k, s) == Fetched(k, s, shown)

\* The feed cannot be read: this cycle has no articles for s.
FetchFails(k, s) == Fetched(k, s, {})

\* The article was sent before: hasSentItem says so.
PassOver(k) ==
  /\ pc[k] = "looking"
  /\ \E p \in batch[k] \intersect recorded : batch' = [batch EXCEPT ![k] = @ \ {p}]
  /\ UNCHANGED <<schedVars, pc, left, item, subs, shown, recorded, sent, excused, crashes>>

Sending(k, p) ==
  /\ Goto(k, "sending")
  /\ batch' = [batch EXCEPT ![k] = @ \ {p}]
  /\ item' = [item EXCEPT ![k] = p]
  /\ UNCHANGED <<schedVars, left, subs, shown, recorded, sent, crashes>>

\* It was not: sendMessage is called.
Send(k) ==
  /\ pc[k] = "looking"
  /\ \E p \in batch[k] \ recorded : Sending(k, p)
  /\ UNCHANGED excused

\* The store fails, and the article counts as not sent.
SendUnseen(k) ==
  /\ pc[k] = "looking"
  /\ \E p \in batch[k] \intersect recorded : Sending(k, p) /\ excused' = excused \union {p}

Count(p) == sent' = [sent EXCEPT ![p] = IF @ < 2 THEN @ + 1 ELSE 2]

\* sendMessage resolves: the server has the message.
Deliver(k, p) ==
  /\ pc[k] = "sending" /\ item[k] = p
  /\ Goto(k, "recording")
  /\ Count(p)
  /\ UNCHANGED <<schedVars, left, batch, item, subs, shown, recorded, excused, crashes>>

\* Mutant: the article is recorded whatever became of it.
SendFailsRecorded(k) ==
  /\ pc[k] = "sending"
  /\ Goto(k, "looking")
  /\ recorded' = recorded \union {item[k]}
  /\ item' = [item EXCEPT ![k] = NoPair]
  /\ UNCHANGED <<schedVars, left, batch, subs, shown, sent, excused, crashes>>

\* sendMessage rejects, and nothing was sent.
SendFails(k) ==
  /\ pc[k] = "sending"
  /\ Goto(k, "looking")
  /\ item' = [item EXCEPT ![k] = NoPair]
  /\ UNCHANGED <<schedVars, left, batch, subs, shown, recorded, sent, excused, crashes>>

\* sendMessage rejects although the server has the message.
AnswerLost(k) ==
  /\ pc[k] = "sending"
  /\ Goto(k, "looking")
  /\ item' = [item EXCEPT ![k] = NoPair]
  /\ Count(item[k])
  /\ excused' = excused \union {item[k]}
  /\ UNCHANGED <<schedVars, left, batch, subs, shown, recorded, crashes>>

\* recordSentItem
Record(k) ==
  /\ pc[k] = "recording"
  /\ Goto(k, "looking")
  /\ recorded' = recorded \union {item[k]}
  /\ item' = [item EXCEPT ![k] = NoPair]
  /\ UNCHANGED <<schedVars, left, batch, subs, shown, sent, excused, crashes>>

RecordFails(k) ==
  /\ pc[k] = "recording"
  /\ Goto(k, "looking")
  /\ excused' = excused \union {item[k]}
  /\ item' = [item EXCEPT ![k] = NoPair]
  /\ UNCHANGED <<schedVars, left, batch, subs, shown, recorded, sent, crashes>>

\* The articles of this subscriber are done.
NextVisit(k) ==
  /\ pc[k] = "looking" /\ batch[k] = {}
  /\ Goto(k, "visiting")
  /\ UNCHANGED <<schedVars, left, batch, item, subs, shown, recorded, sent, excused, crashes>>

\* The check is over, and its finally block releases the lock.
Finish(k) ==
  /\ pc[k] = "visiting" /\ left[k] = {}
  /\ Goto(k, "idle")
  /\ ReleaseLock
  /\ UNCHANGED <<left, batch, item, subs, shown, recorded, sent, excused, crashes>>

-----------------------------------------------------------------------------
(* What goes on beside the checks *)

\* .rss add and .rss remove
Subscribe(s) ==
  /\ subs' = IF s \in subs THEN subs \ {s} ELSE subs \union {s}
  /\ UNCHANGED <<schedVars, runVars, shown, recorded, sent, excused, crashes>>

\* The feed shows its latest articles.
Publish(i) ==
  /\ shown' = IF i \in shown THEN shown \ {i} ELSE shown \union {i}
  /\ UNCHANGED <<schedVars, runVars, subs, recorded, sent, excused, crashes>>

\* The process dies and starts again; an article that was sent and not yet
\* recorded is forgotten.
Crash ==
  /\ crashes < MaxCrashes
  /\ crashes' = crashes + 1
  /\ Reset
  /\ pc' = [k \in Runs |-> "idle"]
  /\ left' = [k \in Runs |-> {}]
  /\ batch' = [k \in Runs |-> {}]
  /\ item' = [k \in Runs |-> NoPair]
  /\ excused' = excused \union {item[k] : k \in {j \in Runs : pc[j] = "recording"}}
  /\ UNCHANGED <<subs, shown, recorded, sent>>

Pass == (Skip \/ Tick) /\ UNCHANGED <<runVars, subs, shown, recorded, sent, excused, crashes>>

Step(k) ==
  \/ List(k) \/ ListFails(k)
  \/ \E s \in Subscribers : Fetch(k, s) \/ FetchFails(k, s)
  \/ PassOver(k) \/ Send(k) \/ SendUnseen(k)
  \/ \E p \in Pairs : Deliver(k, p)
  \/ SendFails(k) \/ AnswerLost(k)
  \/ Record(k) \/ RecordFails(k) \/ NextVisit(k) \/ Finish(k)

Next ==
  \/ \E k \in Runs : Start(k) \/ Step(k)
  \/ \E s \in Subscribers : Subscribe(s)
  \/ \E i \in Items : Publish(i)
  \/ Crash \/ Pass

Spec == Init /\ [][Next]_vars

\* Time passes, callbacks run, and awaits settle except in the hung runs.  A
\* list, a feed or a send that is tried again and again succeeds some time.
Fairness ==
  /\ WF_vars(Tick /\ UNCHANGED <<runVars, subs, shown, recorded, sent, excused, crashes>>)
  /\ WF_vars(Skip /\ UNCHANGED <<runVars, subs, shown, recorded, sent, excused, crashes>>)
  /\ WF_vars(\E k \in Runs : Start(k))
  /\ \A k \in Runs \ Hung : WF_vars(Step(k))
  /\ SF_vars(\E k \in Runs : List(k))
  /\ \A s \in Subscribers : SF_vars(\E k \in Runs : Fetch(k, s))
  /\ \A p \in Pairs : SF_vars(\E k \in Runs : Deliver(k, p))

FairSpec == Spec /\ Fairness

-----------------------------------------------------------------------------
(* Properties *)

Running == {k \in Runs : pc[k] # "idle"}

\* As long as every check ends within the Ttl of its lock, no two checks run at
\* the same time (worker.js, acquireLock), through crashes and late callbacks.
OneCheckAtATime == overdue = "no" => \A j, k \in Running : j = k

\* An article is sent twice to a subscriber only if a crash, a store or a lost
\* answer kept it from being recorded, or checks ran beside each other.
SentOnce == overdue = "no" => \A p \in Pairs : sent[p] > 1 => p \in excused

\* What is recorded, and so will never be sent again, has been sent
\* (genericRssService.js: a failure leaves an "article eligible for retry").
RecordedWasSent == \A p \in recorded : sent[p] > 0

\* What a feed promises: no two checks at a time, no article twice and none skipped
\* (worker.js with its lock, genericRssService.js), as the three parts above say it.
DeliveryInv == OneCheckAtATime /\ SentOnce /\ RecordedWasSent

\* An article that the feed goes on showing reaches everyone who stays
\* subscribed, whatever fails on the way, though a check hangs for ever.
EveryArticleArrives ==
  \A s \in Subscribers, i \in Items :
    (s \in subs /\ i \in shown) ~> (sent[<<s, i>>] > 0 \/ s \notin subs \/ i \notin shown)

=============================================================================
