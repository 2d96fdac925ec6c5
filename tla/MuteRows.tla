------------------------------- MODULE MuteRows -------------------------------
(***************************************************************************)
(* services/muteService.js on postgres, mongo and redis, for one chat: the *)
(* list in memory is ahead of the store.  A command changes the list and   *)
(* does not wait for the calls that write it, and hydrateFromStore(), made *)
(* at boot and on every reconnect, reads rows while commands go on.        *)
(*                                                                         *)
(* Postgres and mongo take the calls in any order, and answer a read some  *)
(* time after they made it.  Redis has one connection: calls are executed  *)
(* and answered in turn, and a method of several calls makes its next one  *)
(* when the last is answered.  No call takes a tick.                       *)
(***************************************************************************)
EXTENDS Integers, Sequences, FiniteSets, SequencesExt

CONSTANTS
  MuteStores,   \* a subset of {"postgres", "mongo", "redis"}
  Mutees,       \* users of the chat
  Terms,        \* how long .mute can be asked for, within the limits
  LogLength,    \* of redis' log of the chat
  MaxEvents, MaxClock   \* bounds; of commands, reconnects, failures and crashes together

ASSUME MuteRowsAssumption ==
  /\ MuteStores \subseteq {"postgres", "mongo", "redis"} /\ "all" \notin Mutees
  /\ Terms \subseteq Nat \ {0} /\ LogLength \in Nat \ {0}
  /\ MaxEvents \in Nat /\ MaxClock \in Nat

VARIABLES
  muteStore,
  clock,
  running,      \* whether there is a process
  list,         \* _store: until when, or 0
  muteTable,    \* the rows, in the order of arrival: [n, user, until, open]
  expiries,     \* redis' hash mutes:<chat>: expires_at, or 0
  muteLog,      \* redis' list mutes:log:<chat>, newest first
  pending,      \* the methods under way
  answers,      \* what reads of postgres and mongo found, on its way
  commands,     \* history: how many commands there were
  said,         \* history: what the last command on a user said: [n, until]
  unsure,       \* history: users whose last command failed, or may have been overtaken
  unheard,      \* history: users whose entry in the list need not be the last command's
  recorded,     \* history: the mutes whose entry was written
  clobbered,    \* history: how many entries of the log were overwritten by others
  hydrations, muteTrouble

muteRowVars == <<muteStore, clock, running, list, muteTable, expiries, muteLog, pending, answers, commands,
                 said, unsure, unheard, recorded, clobbered, hydrations, muteTrouble>>

MuteRowsInit ==
  /\ muteStore \in MuteStores
  /\ clock = 0
  /\ running = TRUE
  /\ list = [u \in Mutees |-> 0]
  /\ muteTable = <<>>
  /\ expiries = [u \in Mutees |-> 0]
  /\ muteLog = <<>>
  /\ pending = <<>>
  /\ answers = {}
  /\ commands = 0
  /\ said = [u \in Mutees |-> [n |-> 0, until |-> 0]]
  /\ unsure = {}
  /\ unheard = {}
  /\ recorded = {}
  /\ clobbered = 0
  /\ hydrations = 0
  /\ muteTrouble = 0

\* The bound is not reached.
Eventful == commands + hydrations + muteTrouble < MaxEvents

-----------------------------------------------------------------------------
(* The methods of the stores, as the calls they make *)

PostgresRecordMute == <<"insert">>
MongoRecordMute == <<"insert">>
RedisRecordMute == <<"hset", "lpush", "ltrim">>

PostgresMarkMuteUnmuted == <<"update">>
MongoMarkMuteUnmuted == <<"update">>
RedisMarkMuteUnmuted == <<"hdel", "lindex">>

RecordMute ==
  CASE muteStore = "postgres" -> PostgresRecordMute
    [] muteStore = "mongo" -> MongoRecordMute
    [] OTHER -> RedisRecordMute
MarkMuteUnmuted ==
  CASE muteStore = "postgres" -> PostgresMarkMuteUnmuted
    [] muteStore = "mongo" -> MongoMarkMuteUnmuted
    [] OTHER -> RedisMarkMuteUnmuted

\* The first ones of a list: a range of redis, and a LIMIT.
FirstOf(s, limit) == SubSeq(s, 1, IF limit < Len(s) THEN limit ELSE Len(s))

\* The calls that decide who is muted.
Deciding == {"insert", "update", "hset", "hdel"}

Entry(m) == [n |-> m.n, user |-> m.user, until |-> m.until, open |-> TRUE]

\* UPDATE, or updateMany.
Closed(row, m) == IF row.user = m.user /\ row.until > clock THEN [row EXCEPT !.open = FALSE] ELSE row

\* Redis' log has one entry to mark, the newest, if it is of the user.
MarksHead(m) == muteLog # <<>> /\ muteLog[1].user = m.user /\ muteLog[1].open

\* Mutant: the rows that were marked too.
RowsOfAll(u) == {row \in ToSet(muteTable) : row.user = u /\ row.until > clock}

\* getActiveMutes, of u.
ActiveRows(u) == {row \in ToSet(muteTable) : row.user = u /\ row.open /\ row.until > clock}
PostgresActive(u) == {row.until : row \in ActiveRows(u)}
MongoActive(u) == {row.until : row \in ActiveRows(u)}
RedisActive(u) == {expiries[u]} \ (0 .. clock)
ActiveMutes ==
  [u \in Mutees |-> CASE muteStore = "postgres" -> PostgresActive(u)
                      [] muteStore = "mongo" -> MongoActive(u)
                      [] OTHER -> RedisActive(u)]

-----------------------------------------------------------------------------
(* The mute service *)

PendingOf(u) == {i \in DOMAIN pending : pending[i].user = u}
Commands(u) == {i \in PendingOf(u) : Head(pending[i].calls) \in Deciding}

\* A command of the other kind is still to be executed, and need not be the first.
Overtaken(u, until) ==
  muteStore # "redis" /\ \E i \in Commands(u) : (pending[i].until = 0) # (until = 0)

\* mute(), or unmute() where until is 0.
Command(u, until, calls) ==
  /\ running /\ Eventful
  /\ commands' = commands + 1
  /\ list' = [list EXCEPT ![u] = until]
  /\ pending' = Append(pending, [n |-> commands + 1, user |-> u, until |-> until, calls |-> calls, head |-> {}])
  /\ said' = [said EXCEPT ![u] = [n |-> commands + 1, until |-> until]]
  /\ unsure' = IF Overtaken(u, until) THEN unsure \union {u} ELSE unsure \ {u}
  /\ unheard' = unheard \ {u}
  /\ UNCHANGED <<muteStore, clock, running, muteTable, expiries, muteLog, answers, recorded, clobbered,
                 hydrations, muteTrouble>>

MuteUser(u, term) == Command(u, clock + term, RecordMute)
UnmuteUser(u) == Command(u, 0, MarkMuteUnmuted)

\* hydrateFromStore() asks; n tells which commands came before.
PostgresGetActiveMutes == <<"select">>
MongoGetActiveMutes == <<"select">>
RedisGetActiveMutes == <<"scan", "select">>
GetActiveMutes ==
  CASE muteStore = "postgres" -> PostgresGetActiveMutes
    [] muteStore = "mongo" -> MongoGetActiveMutes
    [] OTHER -> RedisGetActiveMutes
Reading == [n |-> commands, user |-> "all", until |-> 0, calls |-> GetActiveMutes, head |-> {}]

\* start() on a reconnect, whose hydration nobody awaits.
HydrateAgain ==
  /\ running /\ Eventful
  /\ hydrations' = hydrations + 1
  /\ pending' = Append(pending, Reading)
  /\ UNCHANGED <<muteStore, clock, running, list, muteTable, expiries, muteLog, answers, commands, said, unsure,
                 unheard, recorded, clobbered, muteTrouble>>

\* A read that found of each user the expiries in found, when the commands on the
\* users in late were still under way.
Found(m) == [n |-> m.n, found |-> ActiveMutes, late |-> {u \in Mutees : Commands(u) # {}}]

\* The entries are set in the order of the rows, which is any, so that of each user
\* one stays.
Refilled(a, v) == [u \in Mutees |-> IF v[u] = 0 THEN list[u] ELSE v[u]]

\* Those whose last command the read cannot have seen or need not tell, and who get
\* another's entry.
Misheard(a, v) ==
  {u \in Mutees : \/ v[u] # 0 /\ (said[u].n > a.n \/ u \in a.late \/ u \in unsure \/ Cardinality(a.found[u]) > 1)
                  \/ v[u] = 0 /\ u \in unheard /\ (list[u] > clock \/ u \in unsure \/ u \in a.late)}

Hydrates(a) ==
  \E v \in [Mutees -> {0} \union UNION {a.found[u] : u \in Mutees}] :
    /\ \A u \in Mutees : v[u] \in IF a.found[u] = {} THEN {0} ELSE a.found[u]
    /\ list' = Refilled(a, v)
    /\ unheard' = Misheard(a, v)

-----------------------------------------------------------------------------
(* The store *)

Blamed(m) == IF m.user \in Mutees /\ Head(m.calls) \in Deciding /\ said[m.user].n = m.n THEN {m.user} ELSE {}

Fail(m) ==
  /\ Eventful /\ muteTrouble' = muteTrouble + 1
  /\ unsure' = unsure \union Blamed(m)
  /\ UNCHANGED <<list, muteTable, expiries, muteLog, answers, unheard, recorded, clobbered>>

\* The first call of m.
Succeed(m) ==
  LET c == Head(m.calls) IN
  /\ muteTable' = CASE c = "insert" -> Append(muteTable, Entry(m))
                    [] c = "update" -> [i \in DOMAIN muteTable |-> Closed(muteTable[i], m)]
                    [] OTHER -> muteTable
  /\ expiries' = IF c \in {"hset", "hdel"} THEN [expiries EXCEPT ![m.user] = m.until] ELSE expiries
  /\ muteLog' = CASE c = "lpush" -> <<Entry(m)>> \o muteLog
                  [] c = "ltrim" -> FirstOf(muteLog, LogLength)
                  [] c = "lset" -> [muteLog EXCEPT ![1] = CHOOSE e \in m.head : TRUE]
                  [] OTHER -> muteLog
  /\ recorded' = IF c \in {"insert", "lpush"} THEN recorded \union {m.n} ELSE recorded
  /\ clobbered' = IF c = "lset" /\ \A e \in m.head : e.n # muteLog[1].n THEN clobbered + 1 ELSE clobbered
  /\ IF c = "select" /\ muteStore = "redis" THEN Hydrates(Found(m)) ELSE UNCHANGED <<list, unheard>>
  /\ answers' = IF c = "select" /\ muteStore # "redis" THEN answers \union {Found(m)} ELSE answers
  /\ UNCHANGED <<unsure, muteTrouble>>

\* What m does next; there is no hash to read where scan finds no key.
Rest(m) ==
  CASE Head(m.calls) = "lindex" ->
         IF MarksHead(m) THEN <<[m EXCEPT !.calls = <<"lset">>, !.head = {[muteLog[1] EXCEPT !.open = FALSE]}]>>
                         ELSE <<>>
    [] Head(m.calls) = "scan" /\ \A u \in Mutees : expiries[u] = 0 -> <<>>
    [] OTHER -> IF Len(m.calls) > 1 THEN <<[m EXCEPT !.calls = Tail(@)]>> ELSE <<>>

\* A call is executed, and answered, or fails, and its method gives up.
StoreTakes ==
  /\ running
  /\ \E i \in DOMAIN pending :
       /\ muteStore = "redis" => i = 1
       /\ \/ Succeed(pending[i]) /\ pending' = RemoveAt(pending, i) \o Rest(pending[i])
          \/ Fail(pending[i]) /\ pending' = RemoveAt(pending, i)
  /\ UNCHANGED <<muteStore, clock, running, commands, said, hydrations>>

\* The answer to a read arrives, and hydrateFromStore() goes on.
Hydrate ==
  /\ \E a \in answers : Hydrates(a) /\ answers' = answers \ {a}
  /\ UNCHANGED <<muteStore, clock, running, muteTable, expiries, muteLog, pending, commands, said, unsure,
                 recorded, clobbered, hydrations, muteTrouble>>

ClockTicks ==
  /\ clock < MaxClock /\ pending = <<>> /\ answers = {}
  /\ clock' = clock + 1
  /\ UNCHANGED <<muteStore, running, list, muteTable, expiries, muteLog, pending, answers, commands, said, unsure,
                 unheard, recorded, clobbered, hydrations, muteTrouble>>

ProcessEnds ==
  /\ running
  /\ Eventful /\ muteTrouble' = muteTrouble + 1
  /\ running' = FALSE
  /\ list' = [u \in Mutees |-> 0]
  /\ pending' = <<>>
  /\ answers' = {}
  /\ unsure' = unsure \union UNION {Blamed(pending[i]) : i \in DOMAIN pending}
  /\ unheard' = Mutees
  /\ UNCHANGED <<muteStore, clock, muteTable, expiries, muteLog, commands, said, recorded, clobbered, hydrations>>

\* start() of a new process, which handles messages before the answer.
Starts ==
  /\ ~running
  /\ running' = TRUE
  /\ pending' = <<Reading>>
  /\ UNCHANGED <<muteStore, clock, list, muteTable, expiries, muteLog, answers, commands, said, unsure, unheard,
                 recorded, clobbered, hydrations, muteTrouble>>

MuteRowsNext ==
  \/ \E u \in Mutees : UnmuteUser(u) \/ \E term \in Terms : MuteUser(u, term)
  \/ HydrateAgain \/ StoreTakes \/ Hydrate \/ ClockTicks \/ ProcessEnds \/ Starts

MuteRowsSpec == MuteRowsInit /\ [][MuteRowsNext]_muteRowVars

-----------------------------------------------------------------------------
(* The history of the chat *)

\* getMuteHistoryByChat, the first ones of the newest first; created_at is the time
\* of the call, and mongo's driver makes the id where it is called.
Later(a, b) ==
  LET at(row) == IF muteStore = "mongo" THEN row.n ELSE CHOOSE i \in DOMAIN muteTable : muteTable[i] = row IN
  at(a) > at(b)
RowsBefore(limit) ==
  {row \in ToSet(muteTable) : Cardinality({other \in ToSet(muteTable) : Later(other, row)}) < limit}
PostgresMuteHistory(limit) == RowsBefore(limit)
MongoMuteHistory(limit) == RowsBefore(limit)
RedisMuteHistory(limit) == ToSet(FirstOf(muteLog, limit))
MuteHistory(limit) ==
  CASE muteStore = "postgres" -> PostgresMuteHistory(limit)
    [] muteStore = "mongo" -> MongoMuteHistory(limit)
    [] OTHER -> RedisMuteHistory(limit)

-----------------------------------------------------------------------------
(* Properties *)

MuteRowsTypeOK ==
  /\ list \in [Mutees -> Nat] /\ expiries \in [Mutees -> Nat]
  /\ \A row \in ToSet(muteTable) \union ToSet(muteLog) : row.user \in Mutees /\ row.n \in 1 .. commands
  /\ muteStore = "redis" => muteTable = <<>> /\ answers = {}
  /\ muteStore # "redis" => muteLog = <<>> /\ \A u \in Mutees : expiries[u] = 0

\* A boot finds in the store what the last command on a user said, once it is written.
TableTold ==
  \A u \in Mutees \ unsure : Commands(u) = {} =>
    /\ said[u].until = 0 => ActiveMutes[u] = {}
    /\ said[u].until > clock => said[u].until \in ActiveMutes[u]
    /\ muteStore = "redis" => ActiveMutes[u] = {said[u].until} \ (0 .. clock)

\* The list tells it too, unless a hydration misheard it or has yet to hear of it.
ListTold ==
  running =>
    \A u \in Mutees \ unheard :
      /\ said[u].until = 0 => list[u] <= clock
      /\ said[u].until > clock => list[u] = said[u].until
      /\ muteStore = "redis" => list[u] <= IF said[u].until > clock THEN said[u].until ELSE clock

\* The newest of the recorded mutes, as many as redis keeps.
NewestRecorded ==
  {n \in recorded : muteStore = "redis" => Cardinality({k \in recorded : k > n}) < LogLength}

\* The history lists every mute, but for those that marks wrote over, and says of
\* the newest whether it was lifted.
LogTold ==
  /\ Cardinality(NewestRecorded \ {row.n : row \in MuteHistory(MaxEvents)}) <= clobbered
  /\ clobbered = 0 => \A i, j \in DOMAIN muteLog : i < j => muteLog[i].n # muteLog[j].n
  /\ muteStore = "redis" /\ pending = <<>> /\ muteTrouble = 0 /\ clobbered = 0 /\ muteLog # <<>> =>
       muteLog[1].open = (said[muteLog[1].user].until # 0)

\* Whatever order commands, hydrations and the calls of both take effect in, and
\* whatever fails: the store and then the list say what the last command on a user
\* said, except of users whom a failure, an overtaken call or a hydration that ran
\* beside the command names; and the history of the chat holds every mute that was
\* recorded, except as many as were written over.
MuteRowsInv == MuteRowsTypeOK /\ TableTold /\ ListTold /\ LogTold

\* muteService.js:185: 'Safe to call multiple times; just rewrites the same entries'.
RewritesTheSame ==
  running /\ muteTrouble = 0 => \A u \in Mutees : said[u].until = 0 => list[u] <= clock

\* muteService.js:22: hydration 'survives restarts'.
RestartsSurvived ==
  running /\ pending = <<>> /\ answers = {} =>
    \A u \in Mutees \ unsure : said[u].until > clock => list[u] >= said[u].until

\* redisStore.js:1956: the entry that was read is the one that is replaced.
HeadIsMarked == clobbered = 0

=============================================================================
