----------------------------- MODULE CommandGate -----------------------------
(***************************************************************************)
(* What a command has to pass before its handler runs, and what is said of *)
(* it after: the token buckets of its sender and of the bot                *)
(* (middleware/rateLimit.js), the cooldown of its sender, the deadline of  *)
(* core/commandRunner.js, and the limit on crash notices.  All of it is    *)
(* kept in LRU caches, whose entries expire: the cooldown's and a crash    *)
(* count's some time after they were last set, a bucket's some time after  *)
(* it was made, because a bucket is changed in place.                      *)
(*                                                                         *)
(* One command, which every sender calls; ticks of a clock, whole tokens.  *)
(* A chat has one request at a time, but a sender has several chats, and   *)
(* the way from the sender's bucket to the bot's has awaits on it.         *)
(***************************************************************************)
EXTENDS Integers

CONSTANTS
  Callers,                     \* senders
  Dialogs, CallerOf,           \* a sender in a chat, who handles one request at a time
  SenderCapacity, SenderRefill,
  BotCapacity, BotRefill,      \* tokens, tokens per tick
  BucketTtl,
  Cooldown, CooldownTtl,       \* ticks
  Warmup, WarmupTicks,         \* warmupMultiplier, warmupDays
  MaxPosts, PostTtl,           \* crash notices
  Deadline,                    \* ticks until a command counts as timed out
  MaxClock, MaxAsked           \* bounds on the clock and on the requests within a tick

ASSUME CommandGateAssumption ==
  /\ SenderCapacity \in Nat /\ SenderRefill \in Nat /\ BotCapacity \in Nat /\ BotRefill \in Nat
  /\ BucketTtl \in Nat /\ CooldownTtl \in Nat /\ PostTtl \in Nat /\ MaxPosts \in Nat
  /\ Cooldown \in Nat /\ Warmup \in Nat \ {0} /\ WarmupTicks \in Nat
  /\ Cooldown * Warmup <= CooldownTtl
  /\ Deadline \in Nat \ {0} /\ MaxClock \in Nat /\ MaxAsked \in Nat

ASSUME DialogsAssumption == CallerOf \in [Dialogs -> Callers]

Bot == "bot"
ASSUME BotAssumption == Bot \notin Callers

VARIABLES
  admins,      \* the senders without a bucket of their own
  clock, askedNow,
  bucket,      \* key -> a token bucket, or none
  lastRun,     \* cooldowns: when a sender's command was let through
  posts,       \* notificationRateLimit
  passed,      \* the dialogs with a request between the two buckets
  running,     \* dialog -> when its command began, while somebody waits for it
  late,        \* dialogs with a command that goes on past its deadline
  spent,       \* history: key -> tick -> tokens that were spent before it
  begun, recorded,  \* history: dialog -> commands begun, and outcomes
  beganAt,     \* history: sender -> the tick of the last command
  posted       \* history: tick -> crash notices before it

gateVars == <<admins, clock, askedNow, bucket, lastRun, posts, passed, running, late, spent, begun, beganAt, recorded, posted>>

Clock == 0 .. MaxClock
Ticks == 0 .. MaxClock + 1
Unset == -1
BucketKeys == Callers \union {Bot}
NoBucket == [tokens |-> 0, ts |-> 0, born |-> Unset]
NoPosts == [count |-> 0, at |-> 0]
CapacityOf(k) == IF k = Bot THEN BotCapacity ELSE SenderCapacity
RefillOf(k) == IF k = Bot THEN BotRefill ELSE SenderRefill

GateTypeOK ==
  /\ admins \subseteq Callers
  /\ clock \in Clock /\ askedNow \in 0 .. MaxAsked
  /\ bucket \in [BucketKeys -> [tokens : Nat, ts : Clock, born : {Unset} \union Clock]]
  /\ \A k \in BucketKeys : bucket[k].tokens <= CapacityOf(k)
  /\ lastRun \in [Callers -> {Unset} \union Clock]
  /\ posts \in [count : 0 .. MaxPosts, at : Clock]
  /\ passed \subseteq Dialogs /\ late \subseteq Dialogs
  /\ running \in [Dialogs -> {Unset} \union Clock]
  /\ spent \in [BucketKeys -> [Ticks -> Nat]]
  /\ begun \in [Dialogs -> Nat] /\ recorded \in [Dialogs -> Nat]
  /\ beganAt \in [Callers -> {Unset} \union Clock]
  /\ posted \in [Ticks -> Nat]

GateInit ==
  /\ admins \in SUBSET Callers
  /\ clock = 0 /\ askedNow = 0
  /\ bucket = [k \in BucketKeys |-> NoBucket]
  /\ lastRun = [c \in Callers |-> Unset]
  /\ posts = NoPosts
  /\ passed = {} /\ running = [d \in Dialogs |-> Unset] /\ late = {}
  /\ spent = [k \in BucketKeys |-> [t \in Ticks |-> 0]]
  /\ begun = [d \in Dialogs |-> 0] /\ recorded = [d \in Dialogs |-> 0]
  /\ beganAt = [c \in Callers |-> Unset]
  /\ posted = [t \in Ticks |-> 0]

-----------------------------------------------------------------------------
(* The buckets *)

Least(a, b) == IF a < b THEN a ELSE b

\* Mutant: a refusal leaves the time of the last refill as it was.
SpentIfServed(k, cost) ==
  LET b == IF bucket[k].born = Unset \/ clock - bucket[k].born > BucketTtl
             THEN [tokens |-> CapacityOf(k), ts |-> clock, born |-> clock]
             ELSE [bucket[k] EXCEPT !.tokens = Least(CapacityOf(k), @ + RefillOf(k) * (clock - bucket[k].ts))]
  IN IF b.tokens < cost THEN b ELSE [b EXCEPT !.tokens = @ - cost]

\* A bucket that is not there, or has expired, is made anew and full.
Refilled(k) ==
  IF bucket[k].born = Unset \/ clock - bucket[k].born > BucketTtl
    THEN [tokens |-> CapacityOf(k), ts |-> clock, born |-> clock]
    ELSE [bucket[k] EXCEPT !.tokens = Least(CapacityOf(k), @ + RefillOf(k) * (clock - bucket[k].ts)),
                           !.ts = clock]

\* tryConsume()
Consumed(k, cost) ==
  IF Refilled(k).tokens < cost THEN Refilled(k) ELSE [Refilled(k) EXCEPT !.tokens = @ - cost]

Consumes(k, cost) == Refilled(k).tokens >= cost

\* A history that has n more, now.
More(history, n) == [t \in Ticks |-> IF t > clock THEN history[t] + n ELSE history[t]]

Mult == IF clock < WarmupTicks THEN Warmup ELSE 1

-----------------------------------------------------------------------------
(* A request *)

historyVars == <<begun, beganAt, recorded, posted>>
runVars == <<lastRun, posts, running, late, historyVars>>

Asks(d) ==
  /\ d \notin passed /\ running[d] = Unset
  /\ askedNow < MaxAsked /\ askedNow' = askedNow + 1
  /\ UNCHANGED <<admins, clock>>

Limited(c) == c \notin admins

SlowDown(d) ==
  LET c == CallerOf[d] IN
  /\ Asks(d)
  /\ Limited(c) /\ ~Consumes(c, 1)
  /\ bucket' = [bucket EXCEPT ![c] = Consumed(c, 1)]
  /\ UNCHANGED <<passed, spent, runVars>>

\* The sender's token is spent, whatever comes of the request.
Passes(d) ==
  LET c == CallerOf[d] IN
  /\ Asks(d)
  /\ passed' = passed \union {d}
  /\ \/ ~Limited(c) /\ UNCHANGED <<bucket, spent>>
     \/ /\ Limited(c) /\ Consumes(c, 1)
        /\ bucket' = [bucket EXCEPT ![c] = Consumed(c, 1)]
        /\ spent' = [spent EXCEPT ![c] = More(@, 1)]
  /\ UNCHANGED runVars

GoesOn(d) ==
  /\ d \in passed /\ passed' = passed \ {d}
  /\ UNCHANGED <<admins, clock, askedNow>>

\* No command, not for this sender or this chat, or muted.
Dropped(d) == GoesOn(d) /\ UNCHANGED <<bucket, spent, runVars>>

\* The bot's bucket has not as many tokens.
Busy(d) ==
  /\ GoesOn(d)
  /\ ~Consumes(Bot, Mult)
  /\ bucket' = [bucket EXCEPT ![Bot] = Consumed(Bot, Mult)]
  /\ UNCHANGED <<spent, runVars>>

\* It has, and they are spent, whatever the cooldown says.
SpendsBot(d) ==
  /\ GoesOn(d)
  /\ Consumes(Bot, Mult)
  /\ bucket' = [bucket EXCEPT ![Bot] = Consumed(Bot, Mult)]
  /\ spent' = [spent EXCEPT ![Bot] = More(@, Mult)]

\* Mutant: the cooldown does not know of the warm-up.
CoolingPlain(c) ==
  lastRun[c] # Unset /\ clock - lastRun[c] <= CooldownTtl /\ clock - lastRun[c] < Cooldown

\* checkCooldown(): an entry that has not expired and is not old enough
Cooling(c) ==
  lastRun[c] # Unset /\ clock - lastRun[c] <= CooldownTtl /\ clock - lastRun[c] < Cooldown * Mult

CoolsDown(d) ==
  /\ SpendsBot(d) /\ Cooling(CallerOf[d])
  /\ UNCHANGED runVars

Begins(d) ==
  LET c == CallerOf[d] IN
  /\ SpendsBot(d) /\ ~Cooling(c)
  /\ lastRun' = [lastRun EXCEPT ![c] = clock]
  /\ running' = [running EXCEPT ![d] = clock]
  /\ begun' = [begun EXCEPT ![d] = @ + 1]
  /\ beganAt' = [beganAt EXCEPT ![c] = clock]
  /\ UNCHANGED <<posts, late, recorded, posted>>

-----------------------------------------------------------------------------
(* Its outcome *)

Posts == IF posts.count = 0 \/ clock - posts.at > PostTtl THEN 0 ELSE posts.count

\* postCrashToChannel(): the entry's time starts anew with every notice.
PostsCrash ==
  IF Posts < MaxPosts
    THEN /\ posts' = [count |-> Posts + 1, at |-> clock]
         /\ posted' = More(posted, 1)
    ELSE UNCHANGED <<posts, posted>>

Records(d) ==
  /\ running[d] # Unset
  /\ running' = [running EXCEPT ![d] = Unset]
  /\ recorded' = [recorded EXCEPT ![d] = @ + 1]
  /\ UNCHANGED <<admins, clock, askedNow, bucket, spent, passed, lastRun, begun, beganAt>>

\* Success, or an error that is the user's
Succeeds(d) == Records(d) /\ UNCHANGED <<posts, posted, late>>

Crashes(d) == Records(d) /\ PostsCrash /\ UNCHANGED late

DeadlinePasses(d) ==
  /\ running[d] # Unset /\ clock - running[d] >= Deadline
  /\ Records(d) /\ PostsCrash
  /\ late' = late \union {d}

\* The race is over: nobody hears of it.
LateEnds(d) ==
  /\ d \in late
  /\ late' = late \ {d}
  /\ UNCHANGED <<admins, clock, askedNow, bucket, lastRun, posts, passed, running, spent, historyVars>>

ClockTicks ==
  /\ clock < MaxClock /\ clock' = clock + 1 /\ askedNow' = 0
  /\ UNCHANGED <<admins, bucket, spent, passed, runVars>>

GateNext ==
  \/ ClockTicks
  \/ \E d \in Dialogs : \/ SlowDown(d) \/ Passes(d) \/ Dropped(d) \/ Busy(d) \/ CoolsDown(d) \/ Begins(d)
                       \/ Succeeds(d) \/ Crashes(d) \/ DeadlinePasses(d) \/ LateEnds(d)

GateSpec == GateInit /\ [][GateNext]_gateVars

-----------------------------------------------------------------------------
(* Properties *)

\* What a history has from the beginning of a to the end of b.
Within(history, a, b) == history[b + 1] - history[a]

\* In a time no longer than a bucket lives, a sender, and all senders together,
\* spend at most a full bucket and what was refilled, and a second full bucket only
\* if one expired meanwhile; refused requests gain nothing.
BurstBounded ==
  \A k \in BucketKeys : \A a \in 0 .. clock :
    clock - a <= BucketTtl =>
      Within(spent[k], a, clock)
        <= CapacityOf(k) * (IF bucket[k].born >= a THEN 2 ELSE 1) + RefillOf(k) * (clock - a)

\* middleware/rateLimit.js, "Per-sender token-bucket rate limiter": a full bucket and
\* what was refilled.
TokenBucket ==
  \A k \in BucketKeys : \A a \in 0 .. clock : \A b \in a .. clock :
    Within(spent[k], a, b) <= CapacityOf(k) + RefillOf(k) * (b - a)

\* Two runs of a command by one sender are a cooldown apart, as long as it is now,
\* whatever the chats.
RunsApart ==
  [][\A d \in Dialogs : begun'[d] # begun[d] /\ beganAt[CallerOf[d]] # Unset =>
       clock - beganAt[CallerOf[d]] >= Cooldown * Mult]_gateVars

\* In any time as long as the count of notices is kept there are at most MaxPosts,
\* though the count expires and is renewed.
PostsBounded == \A a \in 0 .. clock : Within(posted, a, Least(a + PostTtl, clock)) <= MaxPosts

\* A command has one outcome, by its end or by its deadline, whichever was first.
RecordedOnce == \A d \in Dialogs : recorded[d] + (IF running[d] = Unset THEN 0 ELSE 1) = begun[d]

\* What the gates let through, and what is recorded of it.
GateInv == GateTypeOK /\ BurstBounded /\ PostsBounded /\ RecordedOnce

=============================================================================
