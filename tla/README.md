# A verification project for EchoFox

EchoFox is a WhatsApp bot: a supervisor process that forks a worker, which holds
one WhatsApp socket (Baileys), handles the messages it delivers, answers commands
and AI requests, and runs schedulers that forward feeds to subscribers. This
directory holds TLA+ models of the parts of it whose correctness depends on the
order of events, TLC configurations that check them on small instances, and
TLAPS proofs for every value of their constants. Paths below are relative to the
repository's `src/` unless they start with `docs/` or name a file of the root.

## 1. The system

### Components and their state

| Component | Code | State | Operations | What makes it hard |
|---|---|---|---|---|
| Supervisor | `core/bootstrap.js` | the child, `backoff`, `lastReadyAt`, `shuttingDown`, two timers | fork, hear `ready`, handle an exit, stop on a signal, SIGKILL | exit, respawn timer, signal and kill timer come in any order |
| Connection | `core/worker.js` (start, connection.update, shutdown), `core/disconnectReasons.js`, `core/lifecycle.js`, `core/auth.js`, `services/connectionState.js` | the socket, `reconnectAttempts`, stored credentials, the reported state | build a socket, open, close with a code, reconnect, wipe and re-pair, stop, shut down | closes during an await; timers that outlive their reason; credentials that cannot be got back |
| Message pipeline | `core/worker.js` (chatQueues), `events/messages.upsert.js`, `core/commandRunner.js`, `events/router.js` | a PQueue per chat, held while it has work | enqueue, dispatch, gates, run a command with a timeout | queues are dropped and made anew; awaits that never settle |
| Mute list | `services/muteService.js`, `commands/group/mute.js`, table `mutes` | an LRU in memory, rows in the store | mute, unmute, look up, hydrate | two copies of one list; hydration on every reconnect |
| AI budget | `services/ai/router.js`, `costTracker.js`, `index.js`, `oneShot.js`, `commands/general/imagine.js` | the promise chain `admission`, `_reservations`, the latch `ledgerFault`, ledger and quota rows | admit, reserve, call the provider, account, release | check-then-act over awaits; money spent whose record fails; midnight; crashes |
| AI conversation | `services/ai/index.js`, `commands/general/ai.js`, table `ai_conversations` | the turns of a chat in the store | recall, keep a turn, call tools, clear | requests of one chat side by side; a turn that every provider refuses |
| Rate limits, cooldowns | `middleware/rateLimit.js`, `core/commandRunner.js` | token buckets, timestamps and counts in LRU caches with a ttl | consume, check, run with a deadline, report a crash | expiry of the cache against the length of the limit; commands that outlive their deadline |
| Feeds | `core/worker.js` (schedulers), `services/genericRssService.js`, `githubService.js`, `thehackersnewsService.js`, `alienvaultService.js` | scheduler locks, records of what was delivered | take the lock, fetch, deliver, record | crash between delivery and record; checks longer than their lock |
| Watch lists | `services/vtWatchService.js`, `commands/general/vtwatch.js` | a row per subscriber that holds all targets | add, remove, check, alert | the check writes back what it read minutes ago |
| Message rows | `events/messages.*.js`, `message-receipt.update.js`, `lib/backpressure.js`, the stores | rows, and batches of rows not yet written | save, edit, mark as read, revoke, flush | updates that overtake the row; one failing batch; a full buffer |
| Mirrored lists | `events/` (blocklist, labels, LIDs, presence, chats, newsletters), the stores | rows that repeat what WhatsApp says, and a timeline of changes | one handler per event | handlers that nobody awaits; pools of connections |
| Group metadata | `events/groups.update.js`, `group-participants.update.js`, `group.join-request.js`, the warm-up of `core/worker.js` | a cache, a row, the settings log, the participants log | refresh, compare, log, warm up | three handlers and the warm-up read, wait for WhatsApp, and write |
| Leveling | `services/levelingService.js`, `levelingDecayService.js` | XP rows | award, congratulate, decay | read, add, compare over awaits |
| Telegram bridge | `services/telegram/` | a buffer and a timer per channel | forward, flush, send, wait, give up | flushes that overlap |
| Signal health | `services/signalHealth.js` | failures per sender, cooldowns | count, reset, prune | failures counted while a reset runs |
| Alert engine | `services/alertEngine.js` | buckets of minutes, active alerts, cooldowns | record, sweep, ask the rules | window edges; sweeps that overlap |
| Migrations | `lib/migrationsRunner.js`, `store/migrations/` | tracker rows, tables | list, apply in order, record | two processes; crash between `up()` and its row |
| Worker pool | `lib/workerPool.js` | slots, jobs in flight, respawns | run, answer, time out, die, shut down | late answers; threads that die with jobs |
| Outbound messages | `middleware/sendQueue.js`, `presence.js`, `services/sentMessageTracker.js`, `commands/admin/purge.js` | a queue per socket, a list of what was sent per chat, what the chat shows | send, show typing, list, purge | sends of a socket that is gone; a list that changes while it is walked |
| Journals | `services/adminAuditService.js`, `dashboard/server.js`, the stores | the audit of privileged commands, the timeline, the settings of groups | record, prune, list, count | writers that nobody awaits; on redis bounded lists, cut while they grow |
| Group services | `services/warnService.js`, `reminderService.js`, `antilinkService.js`, `greetingService.js` | metadata of a group in the store | read, change, write | nothing works: the methods are missing (section 6) |
| Stores | `store/` | four backends | some 120 methods each | SQLITE answers in place; the others at some later time, in any order |
| Circuit breaker, retries; configuration; other pages of the dashboard; backup; log rotation; other commands | `lib/`, `dashboard/`, `commands/` | | | see section 5 |

How they interact: the supervisor and the worker exchange messages (`ready`,
`shutdown`) and the exit event. Inside the worker everything shares one event
loop: code between two awaits runs alone, and at every await the handlers of all
the other chats, timers and socket events may run. `messages.upsert` puts each
message in the queue of its chat; `handleMessage` consults antilink, AFK, gates,
limits and the mute list, then calls `commandRunner.run`, or hands chatter to
the AI, which goes through the gate of the AI budget. The other events go to
their handlers through `events/router.js`, which awaits none of them. Services
keep state in memory and rows in the store; a restart keeps only the rows.

### What would make each component correct

* Supervisor and connection: a good session is never wiped; an account that is
  locked is never connected again by itself; a transient close is retried; a
  worker that dies is replaced; a stop completes; health tells the truth.
* Pipeline: at most `concurrencyPerChat` handlers per chat, in order of arrival,
  and no chat waits for another; queues do not pile up; a mute binds. Limits bound
  what a sender gets through in any window, and a command has one outcome.
* Mute list: a mute lasts as long as told and an unmute lasts.
* AI: the daily cap and the quotas hold; money that is spent is never taken for
  free capacity; every request ends and returns its reservation; a memory that
  ruins requests heals.
* Feeds and watch lists: no article is lost or sent twice without a failure to
  blame; no change of a user's targets is undone; every verdict is seen.
* Rows: what the store says is what WhatsApp said, and where it is not, there is a
  failure, a crash or a named race to blame.
* Leveling: nobody reaches a level unheard; who is active keeps the XP.
* Monitoring: lines arrive once; rates count each outcome once; alerts keep their
  cooldown; a healthy session is not reset.
* Outbound: what is listed was sent and still stands, a purge skips nothing, a chat does
  not show typing for ever, and no send waits behind a closed socket.
* Journals: no entry is lost, repeated or out of order, and the pages and totals of the
  dashboard fit each other.
* Migrations take effect in order, none is skipped, and whoever is ready has all.

PROJECT.json lists the hazards behind these, each at its line of code.

## 2. What is modelled

Some modules describe parts that share no state. Their product would only multiply
states, so that an MC module composes them by a choice: a variable set in the initial
state says which part moves in a behaviour, and the others stay as they are. `MCKeeps`
(mutes, groups, conversations), `MCRecords`, `MCMonitoring` and `MCGates` are of this
form. Variables such as `excused`, `spoiled`, `sure`, `certain`, `unheard` and `crossed`
are history: they say which failure or race took away what could be promised, and no
step that the code takes depends on them. What a store or an update is told is wrong
only where one of them says so, so that a property of the form "right, or excused" names
every way in which the code goes wrong.

### AI budget: `AiBudget` (with `FiniteSums`)

A request is a slot that goes through `pc`. `Submit` enters the promise chain
`admission` (`gate`; only its head runs). The link authorises, captures its hour
and day (`bucket` says which of them are still current), reads the quota
counters, asks `costTracker.admit`, reserves `Rounds * Estimate`, counts, and
leaves the chain. An admitted request calls the provider for up to `Rounds`
rounds; each is metered, estimated, or settled by the `finally` block, and every
write of a row may fail before or after the store applied it (`RecordFails`,
`RecordedWithError`). `Midnight`, `NextHour` and `Crash` may come between any two
awaits. `Store = "local"` is SQLITE, whose balance is read in the step that uses
it; `Store = "network"` lets the balance be computed and used in different steps.
`charged`, `lost`, `orphaned`, `userAdmitted` and `chatAdmitted` are history.

Two choices err on the side of more behaviour: `DenyQuota`, `DenyCost` and
`Refuse` may deny at any time, since reads may fail; and `CheckQuota` reads the
two counters in one step, which inside one link nobody else changes.
A sum over the map of reservations is `Total` of `FiniteSums`, stated through
cardinality, so that it can be reasoned about without induction.

Left out: `shouldRespond` and `noteSent` (whether the AI answers chatter), and
prices of models (an estimate bounds what a round costs; `UnknownPrice` is the
model that has no price).

### AI conversation: `Conversation`

What a chat remembers. `Recall` reads the latest turns (one less than `memoryTurns`),
`Prompt` makes the turn of the user, `Send` is one round, and every turn, of the user,
of the assistant, of a tool, is made in one step and kept in the next (`KeepLast`, which
may fail): between them other requests of the chat and `.ai clear` do their own. A
provider refuses a payload that has a tool's result without its call, and
`maxInputBytes` refuses one that is too heavy; the prompt stays behind in both cases.
`abreast` is `concurrencyPerChat`. `made` is the time of a turn, by which mongo reads;
turns of one millisecond, which only requests abreast can make, come in the order of
their insertion, as its index `{chat_jid, ts}` has them. `vain` counts, for requests one
at a time, how many in a row a bad memory has ruined.

### Supervisor and connection: `Supervisor`, `Connection`, composed by `Lifecycle`

`Supervisor` is `bootstrap.js` with its timers as counters of ticks of `MIN_BACKOFF_MS`
(2 s): the real values are `MaxBackoff` = 30, `Stable` = 15, `Grace` = 5. `OnExit` is
both exit listeners, in their order. `Connection` is one worker: `phase` is where
`start()` and its socket are, `ClosedWith` the part of a close that runs before the
await of `recordTimeline`, and `Stop`, `Clear` and `Reconnect` the three ways on. The
shutdown handler (`draining`) runs beside it: what its `logout()` will do is settled at
the call, by the socket of that moment (`HearShutdown`). An open socket is asked to
unlink the device (`"unlinking"`): when that settles (`Logout`), the session is gone and
a socket that is still open closes with 401, which the close handler then treats like
any other. Without a socket there is nothing to wait for, a socket that was never paired
closes at once, and in no case is a socket that `start()` makes later logged out. `setup
= "files"` is a deployment whose store and credentials answer in place (SQLITE,
MULTIFILE); with `"servers"` an open handler waits before it reports, and `start()` may
reject. `Lifecycle` joins the steps that both take part in: fork and boot, `ready` and
open, exit, signal and shutdown, SIGKILL. `endedBy` and `sinceSpawn` are history.

Left out: version negotiation, pairing codes, health and metrics endpoints (they
only read), and the order of `creds.update` writes. One open handler waits at a
time, a bound that the guard of `Opens` names.

### Message pipeline: `Pipeline`, which implements `ChatFifo`

A queue object of a chat is a number; `holds[c]` is the one in `chatQueues`,
`home[m]` the one a message was put in, and `Pending` its running tasks, so that
two objects of one chat side by side are behaviours the model could have. `Take`
is PQueue starting a task, `Finish` the end of a task with the `idle` listener
that drops the queue. Between them `handleMessage` is: `checking` (everything
awaited before the mute check), `Run` (mute check and the command up to its first
await), `running`, `Returns` (the command settles, or `withTimeout` gives up),
`replying`. `ChatFifo` is what `UPGRADE.md` promises: each chat a server of its
own that takes messages in order of arrival.

Left out: AFK and antilink, the limits and what a command that timed out does
afterwards (`CommandGate`), and the expiry of a mute (`Mutes`).

### Limits, cooldowns and deadlines: `CommandGate`

What a command passes between its arrival and its outcome. A request comes in a
*dialog*, a sender in a chat (`Dialogs`, `CallerOf`): one at a time in each, but a
sender writes in several. At the bucket of the sender it is told to slow down or goes
on (`SlowDown`, `Passes`); then come awaits and gates that may drop it (`passed`,
`Dropped`), and other requests of the same sender between; then the bot's bucket and
the cooldown, in one step (`Busy`, `CoolsDown`, `Begins`). `Succeeds`, `Crashes` or
`DeadlinePasses` is the outcome; after the last the handler still runs (`late`) and ends
unheard. Buckets keep `born`, since their cache entry lives from its creation; the
entry of a cooldown and the count of crash notices from when they were last set.
`Mult` is the warm-up after a pairing, which raises what a command costs the bot's
bucket and stretches cooldowns, and ends while they are counted; `admins` have no
bucket of their own. `spent` and `posted`, which say how much there was before each
tick, `beganAt`, `begun` and `recorded` are history. One command, whole tokens and whole
multipliers, a clock of `MaxClock` ticks.

### Worker pool: `WorkerPool`, which implements `JobService`

Slots with a thread, the jobs each slot has in flight (`inflight`), what its thread
still works on (`atWorker`) and has answered without being heard (`answers`).
`TimesOut` gives the job up and terminates the thread; until `Exit` the slot takes
new jobs, which the exit then fails. `JobService` says a job is settled once, and
in the end. No code of the repository calls the pool yet.

### Outbound messages: `Outbound`

The sends to one chat, numbered by their calls. A socket is wrapped a step after it
opens (`Wraps`); until then a send goes around the queue and the list. `Called` shows
typing and waits, or puts the send into the queue, which starts it when there is room
(`Enqueue`); its end starts the next (`EndsAs`), adds it to the list, takes what it
deleted out of it, and says "paused". What is on a closed socket fails. An AI answer
shows typing by itself (`Thinks`). A purge deletes the entries it copied one by one,
by sends like any other. `delivered`, `deleted`, `unsure`, `scope` and `pauseLost` are
history.

Left out: the list's limits on chats and on age, and sends that return no key.

### Mute list: `Mutes`, `MuteRows`

`mem` is the LRU, `rows` the rows without `unmuted_at`, `told` what the last
command said (history). `Mute` and `Unmute` change the memory and, unless the
store fails, the rows; `Reconnect` and `Boot` are `hydrateFromStore`, with and
without entries in memory. Rows come in ascending order of `expires_at` (SQLite
answers `muteActiveAll` from the partial index on it), so the entry of the last
one stays: `LastRead`. A row keeps whole seconds, so a mute that was read back may
end up to a second early; ticks do not tell that.

`MuteRows` has the same service on postgres, mongo and redis, where a command changes
the list and does not wait for its row. `pending` are the methods under way, each the
calls it still makes; `StoreTakes` executes one call, of redis the oldest, of a pool
any. A read of postgres or mongo finds rows (`Found`) and its answer arrives later
(`Hydrate`). The rows of a user come in no order, so that the entry of any stays.
`said`, `unsure`, `unheard`, `recorded` and `clobbered` are history: whose last command
failed or may have been overtaken, whose entry a hydration set beside a command, which
mutes were logged, and how many entries of redis' log were written over by another's
mark. `TableTold`, `ListTold` and `LogTold` say what the store, the list and the
history of the chat are but for those. Left out: the limit of 50,000 entries and the
history of a user.

### Subscription feeds: `Scheduler` and `Feeds`

`Scheduler` is the interval timer of a service and its lock, a time stamp that
counts until it is 30 minutes old (`Ttl`) and that `releaseLock` clears whoever
took it. `Feeds` is `checkAndDeliver` of `genericRssService.js` on top of it, with
several checks side by side (`Runs`): list the subscribers, fetch the feed of
each, look every article up, send it, record it. `githubService.js` has the same
protocol. The stores swallow the errors of these methods, so that a failed list is
empty (`ListFails`), a failed look-up sends again (`SendUnseen`) and a failed
record is nothing (`RecordFails`); a send may also reject after the server had it
(`AnswerLost`). `sent`, `excused` and `overdue` are history. Items are the
articles that match a subscriber's topics; `Publish` moves them into and out of
what the feed shows (its latest five).

Left out: several feeds of one subscriber, which are visited one after the other
like subscribers; `thehackersnews`, which records an article whatever became of its
send, and `alienvault`, which keeps a watermark.

### Watch lists: `Watch`

The row of a subscriber holds all targets with the last verdict of each. A command
`Reads` the row and then writes what it made of it (`AddWrites`, `RemoveWrites`);
the check lists all rows (`CheckStarts`), visits them, asks about one target after
the other (`Ask`) and writes the row it had read with the verdicts filled in
(`Save`, or on redis `SaveReads` and `SaveSets`, an HGET and an HSET). `asked` is
what the replies of the commands said, `behind` and `spoiled` say whose write was
made of a row that has changed since. `"rows"` are the stores with an UPDATE, which
cannot bring back a row that was deleted; `"hash"` is redis, which can.

### Message rows: `MessageRows`

`truth` is what WhatsApp has of a message, `table` its row. On SQLITE every call is
in place. On postgres and mongo `saveMessages` adds to `buffer`; `Flush` takes up to
`MaxBatch` rows as `batch`, one batch at a time, and the timer, a full batch and the
end of a flush that left something start the next one; a buffer of `MaxBuffer` rows
drops the oldest. `Edit`, `Receipt` and `Revoke` are UPDATEs that travel by
themselves (`calls`) and are applied in any order. `Redeliver` is a message that
comes again; twice in one batch it fails the postgres INSERT. `FlushFails` and
`CallFails` lose what they carried.

### Lists that events mirror: `EventRows`

A handler is the sequence of the calls it still makes to the store; `Continue` lets
the first call of one handler take effect, or fail. On SQLITE and redis, whose calls
take effect in the order in which they are made, handlers go on in order of their
start; on postgres and mongo any handler may be next. `mirror` picks the list of a
behaviour: blocklist, labels and their associations, LIDs, presence, chats (with the
store's own `bind` listener, a handler beside the others), a newsletter's counts.
`told` is what WhatsApp said. On redis a count of views is read and written back
(`sqliteStore.js` and the others add in the statement), so that two views at once may
count as one; `guesses` bounds what unparsed views add.

### Group metadata: `Groups`

A handler is a task that stops wherever the code awaits: at the read of the row, at the
answer of WhatsApp, at the save, at the logs. WhatsApp changes a group (`group`) and
sends a notice of it (`notes`), which is heard later; its answer to a query is what the
group is at that moment. `WarmUp` is the loop of `core/worker.js` after the connection
has opened; every reconnect warms up again (`WarmAgain`), whatever the loop of the
connection before has still to do. `AtOnce` are the awaits of a store that answers in
place: such a task goes on before anything else happens. `certain` says what neither a
failure nor a lost notice nor a write of older data has touched; of the settings log
nothing is certain either once a handler that met another one has read a row to compare
with.

### Leveling: `Leveling`

An award reads the level, adds, and concludes (`ReadsLevel`, `AddsXp`,
`Concludes`), three awaits apart; the sweep is one transaction on SQLITE and a read
and a write elsewhere. `fair` is the XP of a user for whom no sweep was due,
`crossed` says an award and a sweep met. Decay halves per week past the grace, the
highest rate the schema allows (`Parts` is the power of two).

### Monitoring: `Alerts` (with `FiniteSums`), `AlertRules`, `TelegramBridge`, `SignalHealth`

`Alerts` keeps the outcomes of commands in buckets of a minute beside the outcomes
themselves (history). `AlertRules` has the sweeps that wait for the store, several
at once, and the notices of a rule on a gauge and of one on a counter.
`TelegramBridge` is one channel: lines, the timer, immediates of errors, flushes
under way (`flights`), the one wait for Telegram's back-off, failures. `SignalHealth`
counts failures per sender in ticks, with the pruning interval.

### Journals: `Journals`

Three journals on four stores, one of which runs in a behaviour. `entries` are the
entries as they were told, in order (history); `table` is what SQLITE, postgres and
mongo hold of them, `lists` what redis' lists hold: one of all, and one per author and
per command or field, as the store has them. `Enter` and `PruneOnce` make the calls of
their method (`Writes`, `Prunes`), in place on SQLITE; elsewhere the calls wait in
`underway` and `Executed` takes one. Redis has one connection, so that its calls go in
turn and a method of several calls is overtaken between them; a pool takes them in any
order. A call that fails ends its method. The queries are operators on the state, one
per method and store, and the `Api` operators are what the dashboard makes of them. Limits
(`LogCap`, `SideCap`, the slack of a page) are constants; days stand for seconds, and
no call takes one.

### Migrations: `Migrations`, which implements `MigrationLedger`

Two processes, the bot and the script `npm run migrate`, boot on one store: `Build` runs
the DDL of the constructor, `List` reads the tracker, then each migration is one
transaction with its row (`Apply`, `Conflict` on the primary key) on SQLITE and
postgres, or an `Up` and a `Record` on mongo and redis. `Abort` and `AnswerLost` may
come at any step. The supervisor starts the bot again (`Supervised`); of the script
nobody does, so that it may run again or stay down. A behaviour begins with any tracker,
also with one that stops before the rename. `history` has every `up()` that took effect,
in order; the ledger says which histories are allowed.

## 3. What is checked

| Run | Instance | Distinct states | What it shows |
|---|---|---|---|
| `ai_local` | 2 requests (2 rounds at 1, 1 round at 2) of one user in one chat, cap 3, limits 2 and 3, one crash, store in place | 150 k | cap, quotas, ledger, reservations; every request ends |
| `ai_network` | the same over the network | 1.09 M | the overshoot is at most the cap |
| `lifecycle` | 15 status codes (all that are classified, one unknown, none), both setups, `MaxBackoff` 3, `Stable` 3, `Grace` 2, `MaxReconnect` 2 | 20 k | wipes, finality of stops, health, and four liveness and step properties |
| `pipeline` | 4 messages of an admin and a member in one chat, one in another whose awaits may never settle | 118 k | order and concurrency (the refinement of `ChatFifo`), mutes bind, chats proceed |
| `feeds` | 2 subscribers, 1 article, 2 checks side by side, interval 1, Ttl 2, one crash | 1.2 M | checks overlap only past the Ttl; articles are sent once unless a failure is to blame; nothing unsent is recorded |
| `feeds_live` | 1 subscriber, 1 article, 2 checks of which one may hang | 15 k | articles arrive |
| `mutes` | 2 users, durations below, within and above the limits, clock to 3; or on 3 network stores 3 commands, reconnects, failures and crashes together; or one group and one member, 2 settings, 2 notices, two seconds, one failure or reconnect, on SQLITE and on a pool; or 4 requests of a chat one at a time, 2 abreast, a window of 2 turns, 2 rounds, one `.ai clear`, one failure, three milliseconds | 3.10 M | mutes and unmutes last, on a network too or a race is named; the metadata of a group and its logs are right, or a race is named; memory keeps its order and heals |
| `migrations` | 2 processes, 4 stores, 3 migrations of which any number is tracked at the start, 2 failures | 53 k | the ledger is kept, the bot's boot completes |
| `records` | a watch list (1 user, 2 targets, 2 verdicts, 1 failure); 2 messages, an edit, a receipt and a revoke each, batches and a buffer of 2, 2 failures; 2 awards, 5 weeks, 1 failure; 3 events of each list, 1 failure; every store | 951 k | rows are right, or a race is named; verdicts are seen, rows land |
| `monitoring` | 5 runs of a command in 4 minutes; 2 overlapping sweeps; 4 lines, 2 failures; a sender over 8 ticks; 3 entries of a journal over 3 days, one pruning, one failure or crash, on each store | 592 k | rates, cooldowns, lines, resets; journals tell what they were told |
| `gates` | a sender in one chat over 6 ticks of a clock, or in two over 3, buckets that live 2; 3 jobs on 2 slots, one respawn, one death; 4 sends on one socket or 3 on two, one at a time, a list of 2, one purge | 904 k | bursts, cooldowns, one outcome each; every job is settled once; the list is honest, purges skip nothing, typing ends |

One run, `session_survives`, checks what a document says and the code violates; see
section 6.

Why the bounds are enough for what they show. *AI budget*: the two requests
together exceed the cap (2 + 2 > 3), either alone does not; the user's limit 2 is
reached by alternation of the slots, which are reused without bound, the chat's
limit 3 needs an hour to pass; one crash is enough to orphan the money of both, and
the proofs cover any number. *Conversation*: four requests, one at a time, fill a
window of two turns, ruin it with a heavy turn or a tool's result whose calls have
left it, and push that out again; two abreast interleave their turns, of which some are
of one millisecond and some are not. *Lifecycle*:
`MaxBackoff` 3 makes the delay double and saturate (1, 2, 3); a delay both below and
at `Stable`, and a grace that ends before and after an exit, occur. The state space
is finite without a bound on steps: crashes, closes and relaunches repeat for ever.
*Pipeline*: mute, unmute and two commands of the muted member in every order of
arrival, with the queue dropped and made anew up to four times; nothing in the code
relates three chats. *Mutes*: of three durations clamped to 1, 2 and 3, a mute can
be replaced by a shorter and by a longer one and either can outlive the other before
the clock stops; a second key shows that keys do not interact (symmetry over them is
sound: the run checks invariants only). Three events of `MuteRows` are a mute, an unmute and whatever
crosses them: another mute, a hydration, a failure or a crash; its redis log keeps two
entries, and a third goes. *Groups*: two notices are enough for a
handler that was overtaken to write what it read before, and for a join and a leave
within one second; the warm-up runs beside them. The socket closes again (`LateReconnect`)
when both notices are heard and at most one task is left, so that a second warm-up meets
what the first one or the last handler still writes, or comes after a crash as before. The run has SQLITE and a pool: on redis
the same steps are possible as on the pool, in fewer orders; and time begins to pass
with the first row, as only rows are dated.

*Feeds*: with the interval below the Ttl (the schema allows 5 minutes) a callback
finds the lock taken, expired, and dropped by another check's end; two articles of
different subscribers are in every mix of sent, recorded and excused. The article
of one subscriber cannot affect another's but through the loop, which two show; a
third check would need two that outlive their locks, past which only
`RecordedWasSent` promises anything, and that is proved for any number. Liveness
is checked for one subscriber, where the graph stays small.

*Records*: one check of a row races any number of commands on it, as the commands
repeat; in the batcher one row is in flight while the others wait, and two failures
are needed to overfill it (two messages that come again while a flush is under way);
two awards cross a level together and either alone; weeks before, within and past
the grace. Three events are enough for two handlers of one list to overtake each
other with a third to make up for it. *Monitoring*: the window of two minutes moves
twice; a rule fires, is cleared by a sweep and fires again after its cooldown; a
flush that waits is overtaken by two others; a cooldown of 4 ticks sees two failure
windows; three entries fill redis' list of two, beside a pruning whose two calls let them
in, and the list per author, of one, loses an entry for lack of its LTRIM. *Gates*: a bucket is emptied, expires and is emptied again, the warm-up ends
in mid-cooldown; in one chat over 6 ticks a request goes from the sender's bucket to the
bot's within the tick, and in two, over 3, both requests may wait between them while
the clock goes on, and are dropped there; with three jobs two share a slot that dies; two sends are listed and
purged while the list overflows, and a handler of the first socket goes on under the
second. *Migrations*: the
migration before the rename, the rename, and one after it, of which the installation may
have any number; two failures let both
processes be aborted at different steps.

Cases the properties were made for, and that a mutant of each confirms: an off-by-one at
the limit, a reservation of one round for two, a latch that is not set when the second
write fails, a link that leaves the chain rejected, a stop that lacks its `return`, a
supervisor that stops restarting at the longest delay, a queue dropped while a task
runs, a mute check left out, rows read in descending order, rows read that were marked,
a failed send that is recorded, a save that brings a removed row back, a level compared
too late, a cooldown that forgets the warm-up, a comparison of the settings after the
await instead of before. PROJECT.json lists a mutant for every property of every passing
run.

### Fairness

* `AiBudget`: a link that runs and a round that is in progress go on (weak
  fairness of `Admission(r)` and `Accounting(r)`): the store and the provider
  answer or fail, as their clients have timeouts, and the event loop runs what
  has settled. Nobody has to submit, and `BeginCall` needs no fairness, because a
  request may stop at any round. The gate itself has no timeout: with a store
  that never answers, `EveryRequestEnds` fails, and this assumption is why.
* `Lifecycle`: timers fire, exit events are delivered, handlers of a close go on,
  and `start()` goes on. Nothing is assumed of `logout()` (`ShutdownCompletes`
  holds by the SIGKILL timer), of the server or of the worker's own end.
* `Pipeline`: PQueue starts what it can start and the timer of `withTimeout`
  fires in every chat; other awaits settle only outside the wedged chats, so
  `ChatsProceed` says what a hanging chat cannot do to the others.
* `Feeds`: time passes, callbacks run late but run, awaits settle except in the
  hung runs, and (strong fairness) a list, a fetch or a send that is tried again
  and again succeeds some time; without that no retry could promise delivery.
* `Watch`: the scheduler starts checks again and again, and each goes on
  (`WatchFair`); nothing is assumed of the commands.
* `MessageRows`: the timer of the batcher fires and a flush ends, if only by
  failing. `TelegramBridge`: timers and immediates run and a send ends by its timeout
  of 10 s. `WorkerPool`: the timer of a job fires and a terminated thread exits.
* `Migrations`: the bot's boot goes on as long as its process runs, and the supervisor
  starts another one after every abort. Nothing is assumed of the script, which nobody
  starts again (`scripts/migrate.js:76-78` sets an exit code and ends): it may stop for
  ever at any step, and `BootCompletes` promises the bot that this does not hold it up.

## 4. What is proved

All proofs are for any values of the constants under the named assumptions
(`BudgetAssumption`, `SupervisorAssumption`, `ConnectionAssumption`,
`PipelineAssumption`, `MutesAssumption`, `MuteRowsAssumption`, `SchedulerAssumption`,
`FeedsAssumption`, `MigrationsAssumption`, `WatchAssumption`, `MessageRowsAssumption`,
`WorkerPoolAssumption`, `CommandGateAssumption`, `DialogsAssumption`, `BotAssumption`,
`AlertRulesAssumption`, `TelegramAssumption`, `OutboundAssumption`, `MemoryAssumption`,
`LevelingAssumption`, `SignalHealthAssumption`, `AlertsAssumption`, `GroupsAssumption`,
`EventRowsAssumption`, `JournalAssumption`), which only give types, finiteness where
something is counted, that a limit is positive and that names differ; and two facts
about numbers: redis' list of all entries is at least as long as those per author and
per command, as the code has them; and `Cooldown * Warmup <= CooldownTtl` of
`CommandGateAssumption`, which the longest cooldown of a command (60 s), the schema's
highest warm-up (10) and the cache's ttl (10 minutes) satisfy, with nothing to spare.

**AI budget** (`AiBudget_proofs`): `TypeCorrect`, `CapIsHeld`,
`OvershootIsBounded`, `SpendingIsTrue`, all from
`MoneyInvariant`, and `QuotaIsHeld`. The cap alone is not inductive. `MoneyInv` adds that one link
runs at a time; that each request's *exposure* (spent in its round plus what it
may still spend) is within its reservation; that a round costs at most its
estimate; that what the ledger misses is counted as lost, and that losing sets the
latch; and that while a balance is being read, all the money spent and exposed is
at most that balance plus one cap. The last is the heart of
`OvershootIsBounded`: from the moment of the reading only reservations that were
already there can turn into ledger, and they were at most one cap. The lemmas
`ReserveMoves`, `CallMoves`, `BookMoves`, `ReleaseMoves`, `CrashMoves` say how a
step moves the sums, and rest on the lemmas about sums at the head of the module
(`TotalExcept`, `TotalMonotone`). `QuotaIsHeld` rests on `QuotaInv`: what `CheckQuota` found
free stays free until the same link counts it, although three awaits lie between,
because no other request moves the counters while a link runs; a bucket that ends
in between only makes room. An increment that was applied and then reported as
failed leaves the counter above the admissions, never below.

**Lifecycle** (`Lifecycle_proofs`): `WipesAreSafe` (with the invariant that a
close which will wipe has ended the session; the code enters through
`RePairMeansOver`, which compares the classification with the codes that say a
session is over), `StopsAreFinal` (a step property; it needs that the child is
down while the supervisor waits to respawn, `ChildInv`), and `HealthIsTrue`. *Signal
sessions*: `SessionsAreSpared`, a step property, from `HealthIInv`: an entry counts no more
than was seen from its first failure on (`CountsAreSeen`), and the map remembers the last
reset as long as it forbids the next (`ResetsRemembered`), so that pruning forgets nothing
that matters.
*Alerts*: `RatesAreRight`, for any window, rate and history. `BucketsTell` says that a
bucket counts all outcomes of its minute, `BucketsCover` that no outcome of the window
is without one; `SumsOfLists` turns the sums over the buckets into the size of the set
of outcomes, since buckets of different minutes share none (`SumOfSizes`).

**Pipeline** (`Pipeline_proofs`): `TypeCorrect`, `ConcurrencyHeld`,
`SilentChatsAreFreed`, `MutesBind`, and
`QueuesAreFifo`, the refinement of `ChatFifo` for any concurrency. `QueueInv`
says that every message at work or waiting belongs to the queue object that is
held (`Linked`) and that what waits in a chat is its queued messages, each once
(`Lined`); without the first, two objects of one chat could each use
their concurrency.
`MutesBind` needs the order of arrival: `InOrder` says that messages wait in it,
`Ended` that with one handler at a time a message is started when all before it are
done, and `Remembered` that a mute that ran is in force unless a later unmute ran.
*Group metadata*: `GroupsAreKept`, all of `GroupsInv`, for any members, any number of
settings, notices and troubles, on each store. `GroupsInv` speaks only of moments when
nothing is under way, so that `GroupsIInv` has to say what is still to come.
`TasksAlone` says that a handler marked alone meets no other, now or later (`Unmet`).
`NotesTell`, `RecordsTell`, `WarmTells` and `UpdateTells` say of what is on its way (a
notice, a row about to be written, metadata of the warm-up or of a refresh) that it
tells the truth or that a later notice does. `MetaKnown`, `RowKnown`, `LogKnown` and
`PeopleKnown` say that the cache, the row, the settings log and the participants are
right, or that what will correct them is on its way; for the log this may be a
handler that makes it uncertain instead (`Breaker`). The proof found a mistake of the
model that its bounds hid: a row that a handler read before the warm-up wrote its own
left the log marked as certain when it was not, with three notices and two failures.

**Records** (`Records_proofs`). *Mute list*: `MutesLast`. `MuteInv`
adds that the row of the last mute is in the table and that an unmuted user has no row
that has not expired, for every user whose last command was written. *Watch lists*:
`WatchListsKept`. What a command or the check is about to write is as old as its read,
so that `WatchIInv` has to say what each of them knows: `CommandsKnow`, that a command
that no other has overtaken read what its user was told, and `CheckKnows`, that the
check read that of every user whose row no command has written since. *Message rows*:
`RowsTellTheTruth`, on all stores. `MsgIInv` says of every message that is not excused
that it is in one place, the table or the batcher (`OnePlace`), and that what its row
says, together with the updates that are on their way, makes up what WhatsApp said
(`BodyKnown`, `StatusKnown`, `RevokeKnown`); when nothing is on its way, the row says
it all. *Leveling*: `LevelsAreTold`, both halves of `LevelingInv`, for any awards,
thresholds and grace. That the level of now was told is not inductive: a sweep may
write back what it read, and an award compares with the level that it read.
`LevelsPromised` says of each level that somebody holds, not of the row's alone, that
it was told or will be when an award concludes; `SeenWhenAwarded`, that a sweep is under
way for a row only that nobody has seen within the grace; and `Earned` bounds the XP by
the awards, which a fixed `MaxXp` needs. The tables `Steps`, `Floors` and `Parts` are
recursive functions: that they exist follows from the well-founded order of the numbers
(`Recursion`), and what holds of all their values from `Induct`, which is induction
over a set instead of a formula.

**What is kept of a chat** (`Keeps_proofs`). *AI conversation*: `MemoryHeals`, for any
number of handlers, any window and any loss. That a memory heals by itself is far from
inductive. `Trail` says where the prompts of the requests that it ruined are: at its
end, without a tool's result and with a heavy turn at most as the first of them; so
that once they are as many as the window has room for, the window that is read is
`Mild`, and cannot ruin the next one (`Healing` carries this through the read, the
append and the send, between which `.ai clear` may come). The order of a request's
turns on mongo, which reads by time, rests on `Remembered`: what a handler is about to
append was made after all that it has in the store. *Mute rows*: `MuteRowsKept`, for
any number of users, commands and reconnects, on all three stores. None of the three
parts of `MuteRowsInv` is inductive. `TableTold` speaks of users without a command under
way; `Decided` says of every other that what the last command said is in the store or
that this very command is still to come, and, where calls are taken in any order, that
no command of the other kind is. `AnswerTells` says what a read found that is not yet
in the list, of whom no command crossed. The log of redis needs the most: each method
makes two or three calls, between which others come. `InTurn` says that redis takes the
calls of methods in the order of the methods, so that an entry is pushed above all older
ones; `LogRanks`, that an entry has as many newer ones as are before it, wherefore the
trim drops only what is too old; `Marks`, that the unmute which is about to write the
head holds a copy of an entry that was pushed before; and `LooksToCome` and `HeadTold`,
that the head of the log is open or closed as its user was told, or has an unmute
on the way to it.

**Services** (`Services_proofs`). *Worker pool*: `JobsAreHeld` and `PoolServesJobs`,
the safety half of the refinement of `JobService`; `HeldOnce` says without counting
that a job under way is in one slot. *Limits*: `OneOutcomeEach` and `RunsAreApart`, a
step property that rests on `RunIInv` (while the cooldown's entry is kept it is the
tick of the last run, and outcomes trail the runs by the one that is awaited); that an
entry outlives every cooldown it may have to enforce is the assumption above; and
`GatesAreKept`, all of `GateInv`, for any senders, any chats of theirs, any capacities, refills
and lives of the entries.
`BucketCounts` says of every tick in a bucket's life that what was spent since and what
the bucket still holds are a full bucket and the refills at most, and the same of a
bucket's life before it was made, which is where an expired bucket covers what the new
one forgets; `NoticesCounted` says that the entry has counted every notice that its
time may hold. *Alert rules*: `RulesRespectCooldown`, for any number of sweeps that wait side by side, since
`triggeredAt` is `firedAt` in every state. *Telegram bridge*: `LinesAreKept`.
`PlacedOnce` says where a line can be without counting (`PlacedOnceCounts` counts), and
`InFlushOrder` that the mark of a flush, which is its last line, belongs to one flight
only and that what has arrived of it comes before what is left; without `OneFlight`
two flights with the same lines would be one. *Outbound messages*: `SendsAreKept`, for
any number of sends, sockets and purges, any concurrency and any length of the list.
`WentOut` says that the list is in line with what went out, which makes what follows
its oldest entry count when that is dropped (`EvictedCounts`); `QueuesHold` that what
waits is in one queue and that this queue has no room, `PurgeKnows` that what a purge
awaits deletes the first of what it has left, and `TypingHasEnd` is `TypingEnds` for
the socket that is open, since what a chat was shown by an earlier one is forgotten.

**Feeds** (`Feeds_proofs`): `TypeCorrect`, `ChecksAreAlone`, `NothingIsSkipped`,
`ArticlesSentOnce` and, of the last three, `DeliveryIsSafe`. `Alone` says that while
no lock has expired the lock is taken whenever a check runs, so that a callback that
gets it finds no other. `Kept` says that every unexcused article is sent at most
once, is recorded or about to be once it is sent, and was not sent before while it is
being sent; it needs `Alone`, because the look-up and the send are two steps.
`StepsOfArticles` sorts the twenty steps of the model into four kinds, for which the
invariants are proved.
*Lists that events mirror*: `EventRowsAreTrue`, all of `EventRowsInv`, for any contacts,
labels, LIDs, chats and counts, on all four stores. `EventRowsInv` speaks only of moments
when no handler runs; `EventRowsIInv` says of every other what the handlers will make of
it. `RowsKnown` says that what was told is what the rows will be after the one handler
that still has to write (`Outcome`), which rests on `OneEvent`: in a pool
the handlers of one event run alone as long as anything is sure. `Reversed` and `Untouched` relate the further sets and maps of a store to
its rows. `ChannelKnown` counts: the views and the sum of the reactions are those of the
row and of the calls that wait, and on redis nobody writes back a count that another has
passed. `TimelineKnown` says of every entry that its last row, or the last log that a
handler has still to make of it, is of what was told (`EndsWith`); while a handler has
still to read the blocklist, it is of the list in the store instead, since the logs of
that handler are the difference to it. `LastKnown` ties `lastTimelineState` to the last
row. `EventKeeps` proves this of all events alike, from what the handlers do (`Starts`,
`Goes`); that a sequence with the elements of a set exists comes from the library.

**Journals** (`Journals_proofs`): `JournalsTellAll`, all of `JournalInv`, for any
entries, authors and commands, lengths of lists, retention, prunes and failures, on all
four stores. `JournalInv` compares what the dashboard shows with what was entered, and
speaks of moments when no call is under way; `JournalIInv` (`JournalsAreKnown`) says of
every state what the store holds. Of the lists of redis: `Pushed` are the entries whose
push was made and not lost, and the list has the newest of these, newest first, down
to its length or to the last prune (`KeyKnown`); one entry more only while its trim is to come or
lost. This rests on `InTurn`: methods make one call per turn, so that no entry is pushed before
an older one, and a trim cuts the oldest. A prune reads the list and cuts
it later; `CutKnown` says of the number that it holds that those many are young, and that
the list misses at most one entry per push in between (`raced`) when it will have been
cut. Of a table: it has each entry that is not under way, lost or pruned, once
(`TableKnown`), in whatever order the calls came. The pages follow from the shape of the
rows alone (`PagesDoFit`): the rows of a filter are its entries in one order
(`SortedIs`), entries of the last days are the first
of them (`Heads`), and so a page of them is a page of the list.

**Migrations** (in `Services_proofs`): `MigrationsInvariant`, `ReadyInvariant` and
`LedgerRefined`, the refinement of `MigrationLedger`, for any number of processes,
migrations and failures, from any start of the tracker. That nothing is skipped is not inductive by itself: a runner
applies from a list that it read before another one recorded. `NothingMissed` says
that what is not recorded is still in every runner's hand, and `Gapless` that the
tracker is an initial segment, so that the first migration in hand is at most the
next of the tracker.

Model-checked only: every liveness property (`EveryRequestEnds`,
`ShutdownCompletes`, `WorkerIsReplaced`, `TransientIsRetried`, `ChatsProceed`,
`EveryArticleArrives`, `BootCompletes`, `VerdictsAreSeen`, `RowsLand`, `LinesEnd`,
and the half of `EveryJobSettled` that says in the end), since liveness under
fairness and `ENABLED` are out of the prover's reach; every safety invariant that a run
checks is stated by a theorem. `RECURSIVE` operators and the library's induction, which
takes an operator, are out of reach too: no module here uses a `RECURSIVE` operator, sums
are stated through cardinality where something is proved of them and through the folds of
the community modules elsewhere, and the recursion of `Leveling` is over numbers.

## 5. What is not modelled

Each component that is not, or only partly, in section 2 has its reason in
PROJECT.json. In short:

* Configuration is parsed once at the start. The dashboard, but for what `Journals`
  has of it, reads rows of the store and sends a message by hand; backup and log rotation are file input and output. Most
  of the 63 command files are one request and one reply; those that change shared
  state are modelled with their service.
* The circuit breaker and the retries wrap two libraries, which hold the state.
* Group services (warnings, reminders, antilink, greetings) call store methods that
  no store has (section 6): their first write throws and nothing changes state.
* Contacts, calls and events that only append a row; `messaging-history.set`, whose
  rows go the way of `messages.upsert`; the store's own AI opt-ins, whose two
  mistakes are in section 6.
* `thehackersnews` and `alienvault`.
* Crashes of the machine (a store that forgets what it acknowledged) and several
  bots on one store are outside of every model, but for `Migrations`, where two
  processes share one.

### Plan

What is left, in order of what would hurt most:

1. `alienvault`: its watermark against a check that fails midway.
2. A composition of `Pipeline` and `CommandGate` (what is counted for messages that
   are refused), and of `Pipeline` and `AiBudget` (a request inside a handler that
   times out).
3. Contacts, which two stores build from five events.

## 6. Where the code and its documents disagree

One run, `session_survives`, exhibits a disagreement by itself: a graceful stop while
the socket is open calls its `logout()`, so that the next start needs a new pairing.

Others are formulas beside the properties of their module, each with the line of the
repository that it states. Put into the `cfg` of the run of its module, in place of
the properties that are there, TLC finds it violated:

| Formula | Module, run | What the code does |
|---|---|---|
| `StopsFromBackoff` | `Lifecycle`, `lifecycle` | a signal between two workers leaves the supervisor waiting for an exit event that was delivered before |
| `QuickCrashBacksOff` | `Lifecycle`, `lifecycle` | the age of a crashed worker is taken from the last `ready` of any worker, so that a worker that crashes at boot may be restarted with the shortest delay again and again |
| `CapHeld` | `AiBudget`, `ai_network` | `admit` compares a balance read before an await with reservations of after it, and the daily cap is passed |
| `ResultsHaveCalls` | `Conversation`, `mutes` | the tool calls of a turn have no column; later requests send results without their calls |
| `MuteEndsWhenTold` | `Mutes`, `mutes` | a mute replaced by a shorter one comes back with the longer time at the next reconnect |
| `RewritesTheSame` | `MuteRows`, `mutes` | a hydration that crosses an unmute brings the mute back into the list |
| `RestartsSurvived` | `MuteRows`, `mutes` | of a user's two rows postgres and mongo may tell the older one last |
| `HeadIsMarked` | `MuteRows`, `mutes` | an unmute on redis replaces the newest entry of the log by the one it read before |
| `OnlyMembersAreCurrent` | `Groups`, `mutes` | who only asked to join is listed as a participant |
| `SnapshotIsEnsured` | `Groups`, `mutes` with two members | a group with any row gets no snapshot, though a notice may come before it |
| `SentRowsKept` | `Migrations`, `migrations` | the DDL creates the new table before the rename can move the old rows |
| `RemovedStaysRemoved` | `Watch`, `records` | a running check writes back a target that was removed meanwhile |
| `DecaysPerWeek` | `Leveling`, `records` | every daily sweep applies the decay of all weeks again |
| `UnmutesLand`, `FieldsLand`, `ChatsAreThere` | `EventRows`, `records` | a lifted mute is taken for no value; the UPDATE of a new chat may find no row; redis makes no row for a new chat |
| `SweepRecomputes` | `Alerts`, `monitoring` | the sweep looks at active alerts only |
| `CostClearedWhenUnder` | `AlertRules`, `monitoring` | every sweep clears the alerts of the rules |
| `ThresholdResets` | `SignalHealth`, `monitoring` | three failures across the end of a window reset nothing |
| `OnlyTheOldGo` | `Journals`, `monitoring` | redis counts what is young and then cuts the list to that number; what was pushed in between drops as many young entries |
| `RetentionBindsAll` | `Journals`, `monitoring` | redis' lists per author and per command are bounded in length only, and keep what is older than the retention |
| `ChangesAreCounted` | `Journals`, `monitoring` | redis reads the most changed groups, and the settings by field, from keys that nothing writes |
| `FiltersPage` | `Journals`, `monitoring` | a filtered list of the audit ignores the offset |
| `TokenBucket` | `CommandGate`, `gates` | a bucket that expires is made anew and full |
| `ShutdownDrains` | `WorkerPool`, `gates` | a shutdown terminates threads with jobs in flight |
| `NeverMoreThanN` | `Outbound`, `gates` | what is sent before the open handler has wrapped the socket is not queued |
| `PurgeDeletesMessages` | `Outbound`, `gates` with two runs of `.purge` | the deletions of a purge are listed as messages, and deleted by the next |

The rest were met in reading and need no formula: a comment that mutes are kept in
memory only; calls of store methods that no store defines; the limit of reconnection
attempts, which is counted anew by every `start()` and never reached; locks of the
schedulers that expire before the next tick comes, with the default delays; receipts and
revokes that mongoose drops; a failed decay that no store reports; a buffer of Telegram
lines that nothing flushes at a stop; metadata of newsletters passed under the wrong
name; the size of the send queue, which its wrappers hide from the diagnostics; two
answers of `.ai` that do not say what was written; and handlers of chats and groups that
rely on what the other side does not do. PROJECT.json quotes both sides of each.
