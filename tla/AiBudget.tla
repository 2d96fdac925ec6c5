------------------------------ MODULE AiBudget ------------------------------
(***************************************************************************)
(* Admission and accounting of paid AI requests in one bot process:        *)
(* services/ai/router.js (admitRequest), services/ai/costTracker.js        *)
(* (admit, reserve, release, recordRaw, recordResponse) and the paid entry *)
(* points that use them, services/ai/index.js (chat), oneShot.js (run) and *)
(* commands/general/imagine.js.                                            *)
(*                                                                         *)
(* A request is a slot: it is submitted, waits in the promise chain        *)
(* `admission` of the router, is admitted against the chat's policy, the   *)
(* quotas and the daily cap, holds a reservation while it calls the        *)
(* provider for up to Rounds[r] rounds, and releases it.  Every await is a *)
(* separate step, so all the other requests run between them.  Money is in *)
(* small units; Estimate[r] is estimateMaxCostUsd for one round.           *)
(***************************************************************************)
EXTENDS FiniteSums, Sequences

CONSTANTS
  Requests,      \* concurrent paid requests (slots, reused)
  Users, Chats,  \* who asks, and where
  UserOf, ChatOf,
  Rounds,        \* MAX_TOOL_ROUNDS for a chat, 1 for a one-shot or an image
  Estimate,      \* upper bound of the cost of one round
  Cap,           \* config.ai.costCapPerDayUsd; 0 means no cap
  UserLimit,     \* config.ai.rateLimitPerUserPerHour; 0 means no limit
  ChatLimit,     \* config.ai.rateLimitPerChatPerDay; 0 means no limit
  Store,         \* "network": a reply can be overtaken by another's (connection
                 \* pool); "local": the store answers in place (SQLite)
  MaxCrashes     \* bound on the number of crashes explored

ASSUME BudgetAssumption ==
  /\ IsFiniteSet(Requests)
  /\ UserOf \in [Requests -> Users]
  /\ ChatOf \in [Requests -> Chats]
  /\ Rounds \in [Requests -> Nat]
  /\ Estimate \in [Requests -> Nat]
  /\ Cap \in Nat /\ UserLimit \in Nat /\ ChatLimit \in Nat
  /\ Store \in {"local", "network"}
  /\ MaxCrashes \in Nat

VARIABLES
  pc,            \* where each request is
  gate,          \* the router's `admission` chain; its head is the running link
  bucket,        \* which of the hour and the day the running link captured are current
  seen,          \* the running link's reply of getAiUsageDayTotal
  hold,          \* _reservations: what each request has reserved
  left,          \* rounds a request may still start
  owed,          \* charged by the provider for the round in progress, not yet booked
  late,          \* requests whose recordRaw captured a day that has ended
  books,         \* "faulted" is the latch ledgerFault that denies further paid requests
  ledger,        \* today's total in ai_usage_daily
  userUsed,      \* the quota counters of the current hour and day
  chatUsed,
  charged,       \* history: charged by providers today, booked or given up
  lost,          \* history: the part of charged that never reached the ledger
  orphaned,      \* history: the part of lost that the last restart forgot
  userAdmitted,  \* history: admissions counted in the current hour and day
  chatAdmitted,
  crashes

accounting == <<hold, left, owed, late, books, ledger, charged, lost, orphaned>>
quota == <<bucket, userUsed, chatUsed, userAdmitted, chatAdmitted>>
vars == <<pc, gate, seen, accounting, quota, crashes>>

\* The steps of the link that runs in the gate, and of an admitted request.
Link == {"authorized", "costing", "reading", "countUser", "countChat"}
Recording == {"metering", "estimating", "settling"}
Reserved == {"countUser", "countChat", "held", "calling", "releasing"} \cup Recording
PC == {"idle", "queued"} \cup Link \cup Reserved

\* _activeReservationsUsd
activeReservations == Total(hold)

\* What a request has spent or may still spend beyond what is booked.
exposure == [r \in Requests |-> owed[r] + Estimate[r] * left[r]]

-----------------------------------------------------------------------------
TypeOK ==
  /\ pc \in [Requests -> PC]
  /\ gate \in Seq(Requests)
  /\ bucket \in SUBSET {"hour", "day"}
  /\ seen \in Nat
  /\ hold \in [Requests -> Nat]
  /\ left \in [Requests -> Nat]
  /\ owed \in [Requests -> Nat]
  /\ late \in SUBSET Requests
  /\ books \in {"open", "faulted"}
  /\ ledger \in Nat
  /\ userUsed \in [Users -> Nat] /\ userAdmitted \in [Users -> Nat]
  /\ chatUsed \in [Chats -> Nat] /\ chatAdmitted \in [Chats -> Nat]
  /\ charged \in Nat /\ lost \in Nat /\ orphaned \in Nat
  /\ crashes \in Nat

Init ==
  /\ pc = [r \in Requests |-> "idle"]
  /\ gate = <<>>
  /\ bucket = {}
  /\ seen = 0
  /\ hold = [r \in Requests |-> 0]
  /\ left = [r \in Requests |-> 0]
  /\ owed = [r \in Requests |-> 0]
  /\ late = {}
  /\ books = "open"
  /\ ledger = 0
  /\ userUsed = [u \in Users |-> 0] /\ userAdmitted = [u \in Users |-> 0]
  /\ chatUsed = [c \in Chats |-> 0] /\ chatAdmitted = [c \in Chats |-> 0]
  /\ charged = 0 /\ lost = 0 /\ orphaned = 0
  /\ crashes = 0

-----------------------------------------------------------------------------
(* Admission *)

Goto(r, step) == pc' = [pc EXCEPT ![r] = step]

\* The request takes its place in the promise chain.
Submit(r) ==
  /\ pc[r] = "idle"
  /\ Goto(r, "queued")
  /\ gate' = Append(gate, r)
  /\ UNCHANGED <<seen, accounting, quota, crashes>>

\* r is the link of the chain that runs, and it is at step.
Running(r, step) == gate # <<>> /\ r = Head(gate) /\ pc[r] = step

\* Mutant: a link that throws leaves the chain rejected.
DenyAndStall(r) ==
  /\ Goto(r, "idle")
  /\ gate' = gate

\* The link throws: the caller gets the denial and the next link runs.
Deny(r) ==
  /\ Goto(r, "idle")
  /\ gate' = Tail(gate)

\* authorizeRequest lets the request pass; the link computes its buckets.
Authorize(r) ==
  /\ Running(r, "queued")
  /\ Goto(r, "authorized")
  /\ bucket' = {"hour", "day"}
  /\ UNCHANGED <<gate, seen, accounting, userUsed, chatUsed, userAdmitted, chatAdmitted, crashes>>

\* Disabled, private, excluded, opted out, or the policy is unavailable.
Refuse(r) ==
  /\ Running(r, "queued")
  /\ Deny(r)
  /\ UNCHANGED <<seen, accounting, quota, crashes>>

\* Mutant: the limit itself is let through.
UserRoomOffByOne(r) ==
  UserLimit = 0 \/ "hour" \notin bucket \/ userUsed[UserOf[r]] <= UserLimit

\* The counter of the bucket the link captured: a bucket that has ended keeps
\* its own row, which no later link reads.
UserRoom(r) == UserLimit = 0 \/ "hour" \notin bucket \/ userUsed[UserOf[r]] < UserLimit
ChatRoom(r) == ChatLimit = 0 \/ "day" \notin bucket \/ chatUsed[ChatOf[r]] < ChatLimit

CheckQuota(r) ==
  /\ Running(r, "authorized")
  /\ UserRoom(r) /\ ChatRoom(r)
  /\ Goto(r, "costing")
  /\ UNCHANGED <<gate, seen, accounting, quota, crashes>>

\* A limit is reached, a counter cannot be read, or its bucket ended and was
\* full: no reading of the counters lets the request through.
DenyQuota(r) ==
  /\ Running(r, "authorized")
  /\ Deny(r)
  /\ UNCHANGED <<seen, accounting, quota, crashes>>

\* Mutant: the cap is compared with the ledger alone.
WithinCapUnreserved(r, used) == Cap = 0 \/ used + Estimate[r] * Rounds[r] <= Cap

\* The cap comparison of costTracker.admit, and reserve().
WithinCap(r, used) ==
  Cap = 0 \/ used + activeReservations + Estimate[r] * Rounds[r] <= Cap

\* Mutant: one round is reserved for a request of several.
ReserveOneRound(r) ==
  /\ Goto(r, "countUser")
  /\ hold' = [hold EXCEPT ![r] = Estimate[r]]
  /\ left' = [left EXCEPT ![r] = Rounds[r]]
  /\ UNCHANGED <<gate, owed, late, books, ledger, charged, lost, orphaned>>

Reserve(r) ==
  /\ Goto(r, "countUser")
  /\ hold' = [hold EXCEPT ![r] = Estimate[r] * Rounds[r]]
  /\ left' = [left EXCEPT ![r] = Rounds[r]]
  /\ UNCHANGED <<gate, owed, late, books, ledger, charged, lost, orphaned>>

\* costTracker.admit with a store that answers before anything else runs.
AdmitLocal(r) ==
  /\ Store = "local"
  /\ Running(r, "costing")
  /\ books = "open"
  /\ WithinCap(r, ledger)
  /\ Reserve(r)
  /\ UNCHANGED <<seen, quota, crashes>>

\* costTracker.admit with a store across the network: the balance is computed
\* there, and the reply arrives in a later step.
ReadBalance(r) ==
  /\ Store = "network"
  /\ Running(r, "costing")
  /\ books = "open"
  /\ Goto(r, "reading")
  /\ seen' = ledger
  /\ UNCHANGED <<gate, accounting, quota, crashes>>

AdmitRemote(r) ==
  /\ Running(r, "reading")
  /\ WithinCap(r, seen)
  /\ Reserve(r)
  /\ UNCHANGED <<seen, quota, crashes>>

\* EACCOUNTING (the latch, or the balance cannot be read) or ECOSTCAP.
DenyCost(r) ==
  /\ Running(r, "costing") \/ Running(r, "reading")
  /\ Deny(r)
  /\ UNCHANGED <<seen, accounting, quota, crashes>>

\* cost.release: the reservation, and with it what the request may spend.
Release(r) ==
  /\ hold' = [hold EXCEPT ![r] = 0]
  /\ left' = [left EXCEPT ![r] = 0]
  /\ owed' = [owed EXCEPT ![r] = 0]
  /\ UNCHANGED <<late, books, ledger, charged, lost, orphaned>>

\* The store adds one to the counter of the captured bucket.
BumpUser(r) ==
  userUsed' = IF UserLimit > 0 /\ "hour" \in bucket
                THEN [userUsed EXCEPT ![UserOf[r]] = @ + 1] ELSE userUsed
BumpChat(r) ==
  chatUsed' = IF ChatLimit > 0 /\ "day" \in bucket
                THEN [chatUsed EXCEPT ![ChatOf[r]] = @ + 1] ELSE chatUsed

CountUser(r) ==
  /\ Running(r, "countUser")
  /\ BumpUser(r)
  /\ Goto(r, "countChat")
  /\ UNCHANGED <<gate, seen, accounting, bucket, chatUsed, userAdmitted, chatAdmitted, crashes>>

\* The last await of the link: the request is admitted, the next link runs.
CountChat(r) ==
  /\ Running(r, "countChat")
  /\ BumpChat(r)
  /\ Goto(r, "held")
  /\ gate' = Tail(gate)
  /\ userAdmitted' = IF "hour" \in bucket THEN [userAdmitted EXCEPT ![UserOf[r]] = @ + 1]
                                    ELSE userAdmitted
  /\ chatAdmitted' = IF "day" \in bucket THEN [chatAdmitted EXCEPT ![ChatOf[r]] = @ + 1]
                                    ELSE chatAdmitted
  /\ UNCHANGED <<seen, accounting, bucket, userUsed, crashes>>

\* An increment throws, after or before the store applied it: the link
\* releases the reservation and denies the request.
CountFails(r) ==
  /\ \/ /\ Running(r, "countUser") /\ UserLimit > 0
        /\ (BumpUser(r) \/ UNCHANGED userUsed) /\ UNCHANGED chatUsed
     \/ /\ Running(r, "countChat") /\ ChatLimit > 0
        /\ (BumpChat(r) \/ UNCHANGED chatUsed) /\ UNCHANGED userUsed
  /\ Deny(r)
  /\ Release(r)
  /\ UNCHANGED <<seen, bucket, userAdmitted, chatAdmitted, crashes>>

-----------------------------------------------------------------------------
(* The provider's rounds and their accounting *)

\* pendingRound / attempted := true, and the request leaves for the provider,
\* which charges at most the estimate of a round.
BeginCall(r) ==
  /\ pc[r] = "held"
  /\ left[r] > 0
  /\ \E cost \in 0 .. Estimate[r] : owed' = [owed EXCEPT ![r] = cost]
  /\ left' = [left EXCEPT ![r] = @ - 1]
  /\ Goto(r, "calling")
  /\ UNCHANGED <<gate, seen, hold, late, books, ledger, charged, lost, orphaned, quota, crashes>>

\* recordResponse writes what the response was metered at, or an estimate when
\* the usage is missing; a call that throws is left to the finally block.
CallReturns(r) ==
  /\ pc[r] = "calling"
  /\ \E step \in Recording : Goto(r, step)
  /\ UNCHANGED <<gate, seen, accounting, quota, crashes>>

\* The response names a model without a price: recordResponse sets the latch.
UnknownPrice(r) ==
  /\ pc[r] = "calling"
  /\ Goto(r, "settling")
  /\ books' = "faulted"
  /\ UNCHANGED <<gate, seen, hold, left, owed, late, ledger, charged, lost, orphaned, quota, crashes>>

\* The row recordRaw adds to the ledger.
Amount(r) == IF pc[r] = "metering" THEN owed[r] ELSE Estimate[r]

\* The charge of the round is attributed to the day of its row.
Attribute(r, amount) ==
  /\ ledger' = IF r \in late THEN ledger ELSE ledger + amount
  /\ charged' = IF r \in late THEN charged ELSE charged + owed[r]
  /\ owed' = [owed EXCEPT ![r] = 0]
  /\ late' = late \ {r}

\* recordRaw resolves: the round is accounted for.  After recordResponse the
\* request goes on; after the finally block it releases.
Recorded(r) ==
  /\ pc[r] \in Recording
  /\ Attribute(r, Amount(r))
  /\ Goto(r, IF pc[r] = "settling" THEN "releasing" ELSE "held")
  /\ UNCHANGED <<gate, seen, hold, left, books, lost, orphaned, quota, crashes>>

\* recordRaw rejects although the row was added.
RecordedWithError(r) ==
  /\ pc[r] \in Recording
  /\ Attribute(r, Amount(r))
  /\ books' = "faulted"
  /\ Goto(r, IF pc[r] = "settling" THEN "releasing" ELSE "settling")
  /\ UNCHANGED <<gate, seen, hold, left, lost, orphaned, quota, crashes>>

\* Mutant: the finally block logs a write that fails and does not set the latch.
RecordFailsUnlatched(r) ==
  /\ pc[r] \in Recording
  /\ Goto(r, IF pc[r] = "settling" THEN "releasing" ELSE "settling")
  /\ charged' = IF pc[r] = "settling" /\ r \notin late THEN charged + owed[r] ELSE charged
  /\ lost' = IF pc[r] = "settling" /\ r \notin late THEN lost + owed[r] ELSE lost
  /\ owed' = IF pc[r] = "settling" THEN [owed EXCEPT ![r] = 0] ELSE owed
  /\ late' = late \ {r}
  /\ UNCHANGED <<gate, seen, hold, left, books, ledger, orphaned, quota, crashes>>

\* recordRaw rejects and nothing was added: the finally block tries once more
\* with the estimate, and after its own failure the charge is lost.
RecordFails(r) ==
  /\ books' = "faulted"
  /\ \/ /\ pc[r] \in {"metering", "estimating"}
        /\ Goto(r, "settling")
        /\ late' = late \ {r}
        /\ UNCHANGED <<owed, charged, lost>>
     \/ /\ pc[r] = "settling"
        /\ Goto(r, "releasing")
        /\ charged' = IF r \in late THEN charged ELSE charged + owed[r]
        /\ lost' = IF r \in late THEN lost ELSE lost + owed[r]
        /\ owed' = [owed EXCEPT ![r] = 0]
        /\ late' = late \ {r}
  /\ UNCHANGED <<gate, seen, hold, left, ledger, orphaned, quota, crashes>>

\* The request is over: answered, out of rounds, or failed outside a round.
Finish(r) ==
  /\ pc[r] \in {"held", "releasing"}
  /\ Goto(r, "idle")
  /\ Release(r)
  /\ UNCHANGED <<gate, seen, quota, crashes>>

-----------------------------------------------------------------------------
(* The clock and the process *)

\* A new hour: links and rows of the old one keep its key.
NextHour ==
  /\ bucket' = bucket \ {"hour"}
  /\ userUsed' = [u \in Users |-> 0]
  /\ userAdmitted' = [u \in Users |-> 0]
  /\ UNCHANGED <<pc, gate, seen, accounting, chatUsed, chatAdmitted, crashes>>

\* A new UTC day: it begins with an hour, an empty ledger and fresh counters.
Midnight ==
  /\ bucket' = {}
  /\ userUsed' = [u \in Users |-> 0] /\ userAdmitted' = [u \in Users |-> 0]
  /\ chatUsed' = [c \in Chats |-> 0] /\ chatAdmitted' = [c \in Chats |-> 0]
  /\ late' = {r \in Requests : pc[r] \in Recording}
  /\ ledger' = 0 /\ charged' = 0 /\ lost' = 0 /\ orphaned' = 0
  /\ UNCHANGED <<pc, gate, seen, hold, left, owed, books, crashes>>

\* The process dies and starts again: the chain, the reservations and the
\* latch are gone; the ledger and the counters are in the store.
Crash ==
  /\ crashes < MaxCrashes
  /\ crashes' = crashes + 1
  /\ pc' = [r \in Requests |-> "idle"]
  /\ gate' = <<>>
  /\ hold' = [r \in Requests |-> 0]
  /\ left' = [r \in Requests |-> 0]
  /\ owed' = [r \in Requests |-> 0]
  /\ late' = {}
  /\ books' = "open"
  /\ charged' = charged + Total(owed)
  /\ lost' = lost + Total(owed)
  /\ orphaned' = lost + Total(owed)
  /\ UNCHANGED <<seen, ledger, quota>>

Admission(r) ==
  \/ Authorize(r) \/ Refuse(r) \/ CheckQuota(r) \/ DenyQuota(r)
  \/ AdmitLocal(r) \/ ReadBalance(r) \/ AdmitRemote(r) \/ DenyCost(r)
  \/ CountUser(r) \/ CountChat(r) \/ CountFails(r)

Accounting(r) ==
  \/ CallReturns(r) \/ UnknownPrice(r) \/ Recorded(r) \/ RecordedWithError(r)
  \/ RecordFails(r) \/ Finish(r)

Next ==
  \/ \E r \in Requests : Submit(r) \/ Admission(r) \/ BeginCall(r) \/ Accounting(r)
  \/ NextHour \/ Midnight \/ Crash

Spec == Init /\ [][Next]_vars

\* The store and the provider answer or fail, and promises that have settled
\* run their continuations; nobody has to ask, and no call has to be made.
Fairness ==
  \A r \in Requests : WF_vars(Admission(r)) /\ WF_vars(Accounting(r))

FairSpec == Spec /\ Fairness

-----------------------------------------------------------------------------
(* Properties *)

\* The daily cap (costTracker.admit): what the providers have charged today
\* and what admitted requests may still spend stay under the cap, but for
\* money a crash made the process forget.
CapHeld == Cap > 0 => charged + Total(exposure) <= Cap + orphaned

\* The cap with a store whose replies can be overtaken: admit compares a
\* balance that may be older than the reservations it adds to it, so the day
\* may overshoot, but never by more than the cap again.
OvershootBounded == Cap > 0 => charged + Total(exposure) <= 2 * Cap + orphaned

\* A failed ledger write must not turn spent money into free capacity
\* (recordRaw): as long as paid requests are admitted, whatever was charged
\* and is no longer in flight is on the ledger.
SpentIsOnLedger == books = "open" => charged <= ledger + orphaned

\* What a request spent in its round and may still spend is reserved, through
\* every retry of the accounting; a request that is over holds nothing.
ExposureReserved ==
  \A r \in Requests :
    /\ exposure[r] <= hold[r]
    /\ pc[r] \notin Reserved => hold[r] = 0

\* Both: what was charged is on the ledger, and what may still be is reserved.
SpendingInv == SpentIsOnLedger /\ ExposureReserved

\* Quotas count admitted attempts (admitRequest): within an hour and a day
\* nobody is admitted more often than the limit, whatever increments fail.
QuotaHeld ==
  /\ UserLimit > 0 => \A u \in Users : userAdmitted[u] <= userUsed[u] /\ userUsed[u] <= UserLimit
  /\ ChatLimit > 0 => \A c \in Chats : chatAdmitted[c] <= chatUsed[c] /\ chatUsed[c] <= ChatLimit

\* Every paid request is decided, and every reservation is released: no error
\* path of a link stalls the chain, and no error path of a round keeps its hold.
EveryRequestEnds == \A r \in Requests : pc[r] # "idle" ~> pc[r] = "idle"

-----------------------------------------------------------------------------
(* The inductive invariant behind CapHeld, OvershootBounded and SpendingInv *)

\* One link runs at a time, and only a network store lets it wait for a balance.
OneLinkRuns ==
  \A r \in Requests :
    /\ pc[r] \in Link => gate # <<>> /\ r = Head(gate)
    /\ pc[r] = "reading" => Store = "network"

\* Whatever the last write of a round books covers what the round cost.
OwedIsEstimated == \A r \in Requests : owed[r] <= Estimate[r]

\* What the ledger misses is known to be lost, and losing it sets the latch.
LossIsLatched ==
  /\ charged <= ledger + lost
  /\ orphaned <= lost
  /\ books = "open" => lost = orphaned

\* A balance being read covers, up to the reservations of that time, all the
\* money spent and reserved until the reply is used.
CapInv ==
  Cap > 0 =>
    /\ activeReservations <= Cap
    /\ Store = "local" => charged + Total(exposure) <= Cap + orphaned
    /\ charged + Total(exposure) <= 2 * Cap + orphaned
    /\ \A r \in Requests :
         pc[r] = "reading" => charged + Total(exposure) <= seen + Cap + orphaned

MoneyInv ==
  /\ TypeOK
  /\ OneLinkRuns
  /\ ExposureReserved
  /\ OwedIsEstimated
  /\ LossIsLatched
  /\ CapInv

(* The inductive invariant behind QuotaHeld                                    *)

\* The room that CheckQuota found with a user is still there when the running
\* link counts, unless the hour it captured has ended.
UserInv ==
  UserLimit > 0 =>
    /\ \A u \in Users : userAdmitted[u] <= userUsed[u] /\ userUsed[u] <= UserLimit
    /\ \A r \in Requests :
         /\ pc[r] \in {"costing", "reading", "countUser"} /\ "hour" \in bucket
              => userUsed[UserOf[r]] < UserLimit
         /\ pc[r] = "countChat" /\ "hour" \in bucket
              => userAdmitted[UserOf[r]] < userUsed[UserOf[r]]

\* The same of a chat and its day, with one await more between check and count.
ChatInv ==
  ChatLimit > 0 =>
    /\ \A c \in Chats : chatAdmitted[c] <= chatUsed[c] /\ chatUsed[c] <= ChatLimit
    /\ \A r \in Requests :
         pc[r] \in {"costing", "reading", "countUser", "countChat"} /\ "day" \in bucket
           => chatUsed[ChatOf[r]] < ChatLimit

\* Nothing but the running link of admitRequest moves the counters it checked.
QuotaInv == TypeOK /\ OneLinkRuns /\ UserInv /\ ChatInv

=============================================================================
