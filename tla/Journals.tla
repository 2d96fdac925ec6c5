------------------------------ MODULE Journals ------------------------------
(***************************************************************************)
(* The three journals of the store and what the dashboard reads of them:   *)
(* the audit of privileged commands with its retention                     *)
(* (adminAuditService.js), one domain of the timeline, and the settings of *)
(* groups.  Every entry is written by a call nobody waits for.             *)
(*                                                                         *)
(* SQLITE, postgres and mongo hold one table for each journal.  Redis      *)
(* holds lists, newest first and of bounded length: of all entries, and of *)
(* those of one author and of one kind; it has one connection, so that     *)
(* calls take effect in the order in which they are made, and a method     *)
(* makes its next call when the last one is answered.  SQLITE executes a   *)
(* statement where it is called; postgres and mongo have a pool of         *)
(* connections.                                                            *)
(***************************************************************************)
EXTENDS Integers, Sequences, FiniteSets, SequencesExt

CONSTANTS
  JournalStores,     \* a subset of {"sqlite", "postgres", "mongo", "redis"}
  Whos,              \* actors, entities or groups
  Whats,             \* commands or fields
  NoEntity,            \* an entry of the timeline without an entity
  LogCap, SideCap,   \* the lengths of redis' lists
  Slack,             \* what getTimelineEvents reads beyond a page
  Retention,         \* audit.retentionDays
  MaxEntries, MaxDay, MaxPrunes, MaxJournalTrouble   \* bounds; the last one: failures and crashes

\* The list of all entries is the longer one.
ASSUME JournalAssumption ==
  /\ JournalStores \subseteq {"sqlite", "postgres", "mongo", "redis"}
  /\ NoEntity \notin Whos
  /\ LogCap \in Nat /\ SideCap \in Nat /\ 0 < SideCap /\ SideCap <= LogCap
  /\ Slack \in Nat /\ Retention \in Nat \ {0}
  /\ MaxEntries \in Nat /\ MaxDay \in Nat /\ MaxPrunes \in Nat /\ MaxJournalTrouble \in Nat

VARIABLES
  journal,      \* "audit", "timeline" or "settings"
  journalStore,
  day,          \* the clock
  entries,      \* history: the entries in the order of their calls, [ts, who, what]
  table,        \* what the table holds of them, in the order of arrival
  lists,        \* what redis' lists hold
  underway,     \* the methods that run: what they write, and their calls to come
  lost,         \* history: the calls that failed, or that a failure or a crash prevented
  raced,        \* history: how many entries came between the calls of a prune
  cutoff,       \* history: the latest that a prune completed
  prunes, journalTrouble

journalVars == <<journal, journalStore, day, entries, table, lists, underway, lost, raced, cutoff, prunes,
                 journalTrouble>>

\* A filter of the entries, which is the key of redis' list of them as well.  Only
\* redis' settings by field are under a key of their own.
All == <<"log">>
Filters == {All} \union ({"who"} \X Whos) \union ({"what"} \X Whats)
Lists == Filters \union ({"gse"} \X Whos)

JournalsInit ==
  /\ journal \in {"audit", "timeline", "settings"}
  /\ journalStore \in JournalStores
  /\ day = 0
  /\ entries = <<>>
  /\ table = <<>>
  /\ lists = [key \in Lists |-> <<>>]
  /\ underway = <<>>
  /\ lost = {}
  /\ raced = 0
  /\ cutoff = -Retention
  /\ prunes = 0
  /\ journalTrouble = 0

Matches(n, filter) ==
  \/ filter = All
  \/ filter = <<"who", entries[n].who>>
  \/ filter = <<"what", entries[n].what>>

\* The finite set S in the order of the relation R: as many come before an element as
\* are before it in R.
Sorted(S, R) ==
  [i \in 1 .. Cardinality(S) |-> CHOOSE x \in S : Cardinality({y \in S : <<y, x>> \in R}) = i - 1]

\* What s has of the set kept.
Only(s, kept) ==
  LET places == {i \in DOMAIN s : s[i] \in kept} IN
  [k \in 1 .. Cardinality(places) |-> s[CHOOSE p \in places : Cardinality({q \in places : q < p}) = k - 1]]

Since(s, from) == Only(s, {n \in DOMAIN entries : entries[n].ts >= from})

-----------------------------------------------------------------------------
(* The calls of a method that writes the entry n *)

Call(op, key, arg) == [op |-> op, key |-> key, arg |-> arg]

\* INSERT, or insertOne.
OneRow == <<Call("insert", All, 0)>>

\* LPUSH, LTRIM.
Put(key, cap) == <<Call("push", key, 0), Call("trim", key, cap)>>

SqliteRecordAdminAudit(e) == OneRow
SqliteRecordTimelineEvent(e) == OneRow
SqliteRecordGroupSettingsChange(e) == OneRow
PostgresRecordAdminAudit(e) == OneRow
PostgresRecordTimelineEvent(e) == OneRow
PostgresRecordGroupSettingsChange(e) == OneRow
MongoRecordAdminAudit(e) == OneRow
MongoRecordTimelineEvent(e) == OneRow
MongoRecordGroupSettingsChange(e) == OneRow
RedisRecordAdminAudit(e) == Put(All, LogCap) \o Put(<<"who", e.who>>, SideCap) \o Put(<<"what", e.what>>, SideCap)
RedisRecordTimelineEvent(e) ==
  Put(All, LogCap) \o IF e.who = NoEntity THEN <<>> ELSE Put(<<"who", e.who>>, SideCap)
RedisRecordGroupSettingsChange(e) == Put(<<"who", e.who>>, LogCap)

Writes(e) ==
  CASE journalStore = "sqlite" -> CASE journal = "audit" -> SqliteRecordAdminAudit(e)
                                    [] journal = "timeline" -> SqliteRecordTimelineEvent(e)
                                    [] OTHER -> SqliteRecordGroupSettingsChange(e)
    [] journalStore = "postgres" -> CASE journal = "audit" -> PostgresRecordAdminAudit(e)
                                      [] journal = "timeline" -> PostgresRecordTimelineEvent(e)
                                      [] OTHER -> PostgresRecordGroupSettingsChange(e)
    [] journalStore = "mongo" -> CASE journal = "audit" -> MongoRecordAdminAudit(e)
                                   [] journal = "timeline" -> MongoRecordTimelineEvent(e)
                                   [] OTHER -> MongoRecordGroupSettingsChange(e)
    [] OTHER -> CASE journal = "audit" -> RedisRecordAdminAudit(e)
                  [] journal = "timeline" -> RedisRecordTimelineEvent(e)
                  [] OTHER -> RedisRecordGroupSettingsChange(e)

\* pruneAdminAuditOlderThan: a DELETE; redis reads the list, and cuts it to the
\* number of entries that it counted, unless it counted all.
SqlitePrune(from) == <<Call("delete", All, from)>>
PostgresPrune(from) == <<Call("delete", All, from)>>
MongoPrune(from) == <<Call("delete", All, from)>>
RedisPrune(from) == <<Call("scan", All, from)>>

\* How many entries at the head of the list are not older; from there on it is cut.
Young(from) == Cardinality({i \in DOMAIN lists[All] : \A j \in 1 .. i : entries[lists[All][j]].ts >= from})
RedisCut(from) == IF Young(from) = Len(lists[All]) THEN <<>> ELSE <<Call("cut", All, Young(from))>>

Prunes(from) ==
  CASE journalStore = "sqlite" -> SqlitePrune(from)
    [] journalStore = "postgres" -> PostgresPrune(from)
    [] journalStore = "mongo" -> MongoPrune(from)
    [] OTHER -> RedisPrune(from)

\* Mutant: one entry too many.
CutLonger(list, keep) == SubSeq(list, 1, IF keep < Len(list) THEN keep + 1 ELSE Len(list))

\* LTRIM 0 keep-1, or DEL.
Cut(list, keep) == SubSeq(list, 1, IF keep < Len(list) THEN keep ELSE Len(list))

Tabled(c, n) ==
  CASE c.op = "insert" -> Append(table, n)
    [] c.op = "delete" -> Since(table, c.arg)
    [] OTHER -> table

Listed(c, n) ==
  CASE c.op = "push" -> [lists EXCEPT ![c.key] = <<n>> \o @]
    [] c.op \in {"trim", "cut"} -> [lists EXCEPT ![c.key] = Cut(@, c.arg)]
    [] OTHER -> lists

\* The calls of m that are not made any more.
Unmade(m) == {<<m.n, m.calls[i].op, m.calls[i].key>> : i \in DOMAIN m.calls}

-----------------------------------------------------------------------------
(* Actions *)

\* The first call of the method m, where others are under way besides.  The store
\* catches what fails, and gives up the rest.
Perform(m, others, ok) ==
  LET c == Head(m.calls) IN
  /\ IF ok THEN /\ table' = Tabled(c, m.n) /\ lists' = Listed(c, m.n)
                /\ UNCHANGED <<lost, journalTrouble>>
           ELSE /\ journalTrouble < MaxJournalTrouble /\ journalTrouble' = journalTrouble + 1
                /\ lost' = lost \union Unmade(m)
                /\ UNCHANGED <<table, lists>>
  /\ raced' = IF ok /\ c.op = "push" /\ c.key = All /\ \E i \in DOMAIN others : Head(others[i].calls).op = "cut"
                THEN raced + 1 ELSE raced
  /\ cutoff' = IF ok /\ (c.op \in {"delete", "cut"} \/ (c.op = "scan" /\ RedisCut(c.arg) = <<>>))
                 THEN m.from ELSE cutoff

\* What is left of m.
Left(m, ok) ==
  LET calls == IF ~ok THEN <<>>
               ELSE IF Head(m.calls).op = "scan" THEN RedisCut(Head(m.calls).arg) ELSE Tail(m.calls) IN
  IF calls = <<>> THEN <<>> ELSE <<[m EXCEPT !.calls = calls]>>

Begin(m) ==
  IF journalStore = "sqlite"
    THEN \E ok \in BOOLEAN : Perform(m, underway, ok) /\ UNCHANGED underway
    ELSE underway' = Append(underway, m) /\ UNCHANGED <<table, lists, lost, raced, cutoff, journalTrouble>>

\* recordAdminAudit, recordTimelineEvent or recordGroupSettingsChange.
Enter(who, what) ==
  /\ Len(entries) < MaxEntries
  /\ who = NoEntity => journal = "timeline"
  /\ LET e == [ts |-> day, who |-> who, what |-> what] IN
       /\ entries' = Append(entries, e)
       /\ Begin([n |-> Len(entries) + 1, from |-> 0, calls |-> Writes(e)])
  /\ UNCHANGED <<journal, journalStore, day, prunes>>

\* pruneOnce().
PruneOnce ==
  /\ journal = "audit" /\ prunes < MaxPrunes
  /\ prunes' = prunes + 1
  /\ Begin([n |-> 0, from |-> day - Retention, calls |-> Prunes(day - Retention)])
  /\ UNCHANGED <<journal, journalStore, day, entries>>

\* A call is executed and answered.
Executed ==
  /\ \E i \in DOMAIN underway, ok \in BOOLEAN :
       LET m == underway[i]
           others == RemoveAt(underway, i) IN
       /\ journalStore = "redis" => i = 1
       /\ Perform(m, others, ok)
       /\ underway' = others \o Left(m, ok)
  /\ UNCHANGED <<journal, journalStore, day, entries, prunes>>

\* No call takes a day.
NextDay ==
  /\ day < MaxDay /\ underway = <<>>
  /\ day' = day + 1
  /\ UNCHANGED <<journal, journalStore, entries, table, lists, underway, lost, raced, cutoff, prunes, journalTrouble>>

JournalCrash ==
  /\ underway # <<>>
  /\ journalTrouble < MaxJournalTrouble /\ journalTrouble' = journalTrouble + 1
  /\ underway' = <<>>
  /\ lost' = lost \union UNION {Unmade(underway[i]) : i \in DOMAIN underway}
  /\ UNCHANGED <<journal, journalStore, day, entries, table, lists, raced, cutoff, prunes>>

JournalsNext ==
  \/ \E who \in Whos \union {NoEntity}, what \in Whats : Enter(who, what)
  \/ PruneOnce \/ Executed \/ NextDay \/ JournalCrash

JournalsSpec == JournalsInit /\ [][JournalsNext]_journalVars

-----------------------------------------------------------------------------
(* Queries *)

\* LIMIT limit OFFSET offset.
Page(s, limit, offset) == SubSeq(s, offset + 1, IF offset + limit < Len(s) THEN offset + limit ELSE Len(s))

\* ORDER BY ts DESC, id DESC.  The driver of mongo makes the id where it is called.
Id(n) == IF journalStore = "mongo" THEN n ELSE CHOOSE i \in DOMAIN table : table[i] = n
Newer(a, b) == entries[a].ts > entries[b].ts \/ (entries[a].ts = entries[b].ts /\ Id(a) > Id(b))
Rows(filter, from) ==
  LET found == {n \in ToSet(table) : Matches(n, filter) /\ entries[n].ts >= from} IN
  Sorted(found, {p \in found \X found : Newer(p[1], p[2])})

\* listAdminAudit, listAdminAuditByActor and listAdminAuditByCmd: only the first has
\* an offset.
Offset(filter, offset) == IF filter = All THEN offset ELSE 0
SqliteAudit(filter, from, limit, offset) == Page(Rows(filter, from), limit, Offset(filter, offset))
PostgresAudit(filter, from, limit, offset) == Page(Rows(filter, from), limit, Offset(filter, offset))
MongoAudit(filter, from, limit, offset) == Page(Rows(filter, from), limit, Offset(filter, offset))
RedisAudit(filter, from, limit, offset) == Since(Page(lists[filter], limit, Offset(filter, offset)), from)

\* countAdminAudit.
SqliteAuditCount(filter, from) == Len(Rows(filter, from))
PostgresAuditCount(filter, from) == Len(Rows(filter, from))
MongoAuditCount(filter, from) == Len(Rows(filter, from))
RedisAuditCount(filter, from) == Len(Since(lists[filter], from))

\* getTimelineEvents.
SqliteTimeline(filter, from, limit, offset) == Page(Rows(filter, from), limit, offset)
PostgresTimeline(filter, from, limit, offset) == Page(Rows(filter, from), limit, offset)
MongoTimeline(filter, from, limit, offset) == Page(Rows(filter, from), limit, offset)
RedisTimeline(filter, from, limit, offset) ==
  Page(Since(Page(lists[filter], offset + limit + Slack, 0), from), limit, offset)

\* countTimelineEvents.
SqliteTimelineCount(filter, from) == Len(Rows(filter, from))
PostgresTimelineCount(filter, from) == Len(Rows(filter, from))
MongoTimelineCount(filter, from) == Len(Rows(filter, from))
RedisTimelineCount(filter, from) == Len(Since(Page(lists[filter], LogCap, 0), from))

\* getGroupSettingsHistory.
SqliteSettings(g, limit) == Page(Rows(<<"who", g>>, 0), limit, 0)
PostgresSettings(g, limit) == Page(Rows(<<"who", g>>, 0), limit, 0)
MongoSettings(g, limit) == Page(Rows(<<"who", g>>, 0), limit, 0)
RedisSettings(g, limit) == Page(lists[<<"who", g>>], limit, 0)

\* getGroupSettingsHistoryByField.
OfField(s, f) == Only(s, {n \in DOMAIN entries : entries[n].what = f})
SqliteSettingsByField(g, f, limit) == Page(OfField(Rows(<<"who", g>>, 0), f), limit, 0)
PostgresSettingsByField(g, f, limit) == Page(OfField(Rows(<<"who", g>>, 0), f), limit, 0)
MongoSettingsByField(g, f, limit) == Page(OfField(Rows(<<"who", g>>, 0), f), limit, 0)
RedisSettingsByField(g, f, limit) == Page(OfField(lists[<<"gse", g>>], f), limit, 0)

\* getMostChangedGroupsSince: how often g is counted.
SqliteChanges(g, from) == Len(Rows(<<"who", g>>, from))
PostgresChanges(g, from) == Len(Rows(<<"who", g>>, from))
MongoChanges(g, from) == Len(Rows(<<"who", g>>, from))
RedisChanges(g, from) == Len(Since(lists[<<"gse", g>>], from))

\* The query of journalStore among one of each store.
Of(sqlite, postgres, mongo, redis) ==
  CASE journalStore = "sqlite" -> sqlite
    [] journalStore = "postgres" -> postgres
    [] journalStore = "mongo" -> mongo
    [] OTHER -> redis

\* /api/audit: the list and the total.
ApiAudit(filter, from, limit, offset) ==
  Of(SqliteAudit(filter, from, limit, offset), PostgresAudit(filter, from, limit, offset),
     MongoAudit(filter, from, limit, offset), RedisAudit(filter, from, limit, offset))
ApiAuditTotal(filter, from) ==
  Of(SqliteAuditCount(filter, from), PostgresAuditCount(filter, from),
     MongoAuditCount(filter, from), RedisAuditCount(filter, from))

\* /api/history/:domain.
ApiHistory(filter, from, limit, offset) ==
  Of(SqliteTimeline(filter, from, limit, offset), PostgresTimeline(filter, from, limit, offset),
     MongoTimeline(filter, from, limit, offset), RedisTimeline(filter, from, limit, offset))
ApiHistoryTotal(filter, from) ==
  Of(SqliteTimelineCount(filter, from), PostgresTimelineCount(filter, from),
     MongoTimelineCount(filter, from), RedisTimelineCount(filter, from))

\* /api/groups/:jid/settings/history without and with a field.
ApiSettings(g, limit) ==
  Of(SqliteSettings(g, limit), PostgresSettings(g, limit), MongoSettings(g, limit), RedisSettings(g, limit))
ApiSettingsByField(g, f, limit) ==
  Of(SqliteSettingsByField(g, f, limit), PostgresSettingsByField(g, f, limit),
     MongoSettingsByField(g, f, limit), RedisSettingsByField(g, f, limit))

\* /api/stats/most-changed-groups, without the limit.
ApiChanges(g, from) ==
  Of(SqliteChanges(g, from), PostgresChanges(g, from), MongoChanges(g, from), RedisChanges(g, from))

-----------------------------------------------------------------------------
(* Properties *)

JournalTypeOK ==
  /\ entries \in Seq([ts : 0 .. MaxDay, who : Whos \union {NoEntity}, what : Whats])
  /\ table \in Seq(DOMAIN entries)
  /\ lists \in [Lists -> Seq(DOMAIN entries)]
  /\ cutoff \in -Retention .. MaxDay

\* The filters that the dashboard has for the journal.
Filtered ==
  CASE journal = "audit" -> Filters
    [] journal = "timeline" -> {All} \union ({"who"} \X Whos)
    [] OTHER -> {"who"} \X Whos

\* All that is listed under a filter.
Whole(filter) ==
  CASE journal = "audit" -> ApiAudit(filter, 0, MaxEntries, 0)
    [] journal = "timeline" -> ApiHistory(filter, 0, MaxEntries, 0)
    [] OTHER -> ApiSettings(filter[2], MaxEntries)

Cap(filter) == IF filter = All \/ journal = "settings" THEN LogCap ELSE SideCap

\* Of a list that is not too long, at any time, the pages make up the whole, without
\* repetition and newest first, and the totals count it.
PagesFit ==
  \A filter \in Filtered :
    LET whole == Whole(filter)
        exact == journalStore = "redis" => Len(whole) <= Cap(filter) IN
    /\ IsInjective(whole)
    /\ \A i \in DOMAIN whole : Matches(whole[i], filter)
    /\ \A i, j \in DOMAIN whole : i < j => entries[whole[i]].ts >= entries[whole[j]].ts
    /\ journal = "audit" =>
         \A from \in {0, day} :
           LET young == Since(whole, from) IN
           /\ exact => ApiAuditTotal(filter, from) = Len(young)
           /\ \A limit \in 1 .. 2 : \A offset \in {0, limit} :
                filter = All \/ offset = 0 => ApiAudit(filter, from, limit, offset) = Page(young, limit, offset)
    /\ journal = "timeline" =>
         \A from \in {0, day} :
           LET young == Since(whole, from) IN
           /\ exact => ApiHistoryTotal(filter, from) = Len(young)
           /\ \A limit \in 1 .. 2 : \A offset \in {0, limit} :
                ApiHistory(filter, from, limit, offset) = Page(young, limit, offset)
    /\ journal = "settings" =>
         /\ \A limit \in 1 .. 2 : ApiSettings(filter[2], limit) = Page(whole, limit, 0)
         /\ journalStore # "redis" =>
              /\ \A from \in {0, day} : ApiChanges(filter[2], from) = Len(Since(whole, from))
              /\ \A f \in Whats, limit \in 1 .. 2 :
                   ApiSettingsByField(filter[2], f, limit) = Page(OfField(whole, f), limit, 0)

\* The entries that belong under a filter, and the newest of them that redis keeps.
Owed(filter) ==
  {n \in DOMAIN entries : /\ Matches(n, filter)
                          /\ <<n, "insert", All>> \notin lost /\ <<n, "push", filter>> \notin lost
                          /\ filter = All \/ journalStore # "redis" => entries[n].ts >= cutoff}
NewestOwed(filter) ==
  {n \in Owed(filter) : journalStore = "redis" => Cardinality({k \in Owed(filter) : k > n}) < Cap(filter)}

\* When nothing is under way, what is owed is listed, but for as many entries as redis
\* took in while it pruned; a list is too long only while its last LTRIM is missing.
NothingMissing ==
  underway = <<>> =>
    \A filter \in Filtered :
      LET whole == Whole(filter)
          listed == ToSet(whole) IN
      /\ Cardinality(NewestOwed(filter) \ listed) <= IF filter = All THEN raced ELSE 0
      /\ listed \subseteq Owed(filter)
      /\ journalStore = "redis" /\ Len(whole) > Cap(filter) => <<whole[1], "trim", filter>> \in lost

\* Each journal tells every entry it was given, newest first, page by page and with
\* its total, on every store: entries are lost only to failures, crashes, redis'
\* limits and the entries that redis takes in while it prunes, one for one; and the
\* log of all commands holds nothing older than the last pruning allowed.
JournalInv == JournalTypeOK /\ PagesFit /\ NothingMissing

\* redisStore.js:1732: 'Per-actor / per-cmd lists self-prune via the LTRIM cap on
\* each write'.
RetentionBindsAll ==
  journal = "audit" /\ underway = <<>> =>
    \A filter \in Filtered : \A n \in ToSet(Whole(filter)) : entries[n].ts >= cutoff

\* dashboard/server.js:984: 'total must honour the active filters (actor/cmd/window),
\* otherwise AuditLog's pagination math breaks the moment a filter is set'.
FiltersPage ==
  journal = "audit" =>
    \A filter \in Filtered, limit, offset \in 1 .. MaxEntries :
      ApiAudit(filter, 0, limit, offset) = Page(Whole(filter), limit, offset)

\* redisStore.js:1533: 'Redis layout: group_settings_events stored as LIST per jid.
\* Walk all gse:* keys and count entries with ts >= since'.
ChangesAreCounted ==
  journal = "settings" => \A g \in Whos : Whole(<<"who", g>>) # <<>> => ApiChanges(g, 0) > 0

\* The same pruning, without another write: 'keep only the newer ones'.
OnlyTheOldGo == journal = "audit" /\ underway = <<>> => Cardinality(NewestOwed(All) \ ToSet(Whole(All))) = 0

=============================================================================
