------------------------------- MODULE Groups -------------------------------
(***************************************************************************)
(* What the store says of a group: its metadata, behind a cache, the log   *)
(* of its settings and the log of its participants, which the handlers of  *)
(* groups.update, group-participants.update and group.join-request and the *)
(* warm-up of a new connection write past each other.  A handler is a task *)
(* that stops wherever the code awaits.  The metadata are one setting and  *)
(* the members.                                                            *)
(***************************************************************************)
EXTENDS Integers, Sequences, FiniteSets, SequencesExt

CONSTANTS
  GroupStores,      \* a subset of {"sqlite", "redis", "postgres", "mongo"}
  Members,
  MaxSetting,       \* the settings are 0 .. MaxSetting
  MaxNotes, MaxSecond, MaxGroupTrouble   \* bounds on changes, time, and failures and crashes

ASSUME GroupsAssumption == MaxSetting \in Nat

\* Calls take effect where they are made; the others have a pool of connections.
Serial == {"sqlite", "redis"}

VARIABLES
  groupStore,
  group,        \* what WhatsApp holds
  notes,        \* its notices that the worker has not heard yet
  cached,       \* groupCache
  metaRow,      \* the row of the group
  settings,     \* its settings log, pairs of an old and a new value
  people,       \* its participants log, rows [who, action, ts]
  second,       \* the clock
  tasks,        \* the running handlers
  certain,      \* history: what nothing was lost of, or overtaken by
  warm,         \* "due" until the metadata of a new connection arrive
  notesLeft, groupTrouble

groupVars == <<groupStore, group, notes, cached, metaRow, settings, people, second, tasks, certain, warm,
               notesLeft, groupTrouble>>

NoMeta == [setting |-> -1, members |-> {}]

GroupsInit ==
  /\ groupStore \in GroupStores
  /\ \E here \in SUBSET Members : group = [setting |-> 0, members |-> here]
  /\ notes = <<>> /\ tasks = <<>>
  /\ cached = NoMeta /\ metaRow = NoMeta
  /\ settings = <<>> /\ people = {}
  /\ second = 0
  /\ certain = [meta |-> FALSE, row |-> FALSE, log |-> FALSE, people |-> {}]
  /\ warm = "due"
  /\ notesLeft = MaxNotes /\ groupTrouble = MaxGroupTrouble

\* alone: nothing ran beside it that could get in its way.  A row of the
\* participants log meets the rows of the same person, and those of the warm-up.
Task(job, at, note) ==
  [job |-> job, at |-> at, note |-> note, old |-> NoMeta, meta |-> NoMeta, alone |-> TRUE]

Meets(t, u) ==
  \/ t.job # "request" /\ u.job # "request" /\ ~(t.job = "members" /\ u.job = "members")
  \/ "warm" \in {t.job, u.job}
  \/ t.at = "record" /\ u.at = "record" /\ t.note.who = u.note.who

Become(i, t) == tasks' = [tasks EXCEPT ![i] = t]
Ends(i) == tasks' = RemoveAt(tasks, i)
Goes(i, at) == Become(i, [tasks[i] EXCEPT !.at = at])

Start(t) ==
  tasks' = Append([j \in 1 .. Len(tasks) |-> [tasks[j] EXCEPT !.alone = @ /\ ~Meets(tasks[j], t)]],
                  [t EXCEPT !.alone = \A j \in 1 .. Len(tasks) : ~Meets(tasks[j], t)])

Fails == groupTrouble > 0 /\ groupTrouble' = groupTrouble - 1
Works == UNCHANGED groupTrouble

\* What happens in the turn that calls for it goes before anything else: with SQLITE
\* all but what setImmediate() delays, with redis what a call does, not its reply.
AtOnce(t) ==
  \/ groupStore \in Serial /\ t.at \in {"read", "record", "save", "merged"}
  \/ groupStore = "sqlite" /\ t.at \in {"answer", "failed", "log", "adopt", "settings", "baseline"}
  \/ groupStore = "redis" /\ t.at = "history"
Idle == \A i \in 1 .. Len(tasks) : ~AtOnce(tasks[i])
May(i, at) == tasks[i].at = at /\ (Idle \/ AtOnce(tasks[i]))

-----------------------------------------------------------------------------
(* WhatsApp changes the group, and tells it in this order *)

Note(kind, what) == notes' = Append(notes, [kind |-> kind, what |-> what])

Change(now, kind, what) ==
  /\ Idle /\ notesLeft > 0 /\ notesLeft' = notesLeft - 1
  /\ group' = now
  /\ Note(kind, what)
  /\ UNCHANGED <<groupStore, cached, metaRow, settings, people, second, tasks, certain, warm, groupTrouble>>

SettingChanges(v) == v # group.setting /\ Change([group EXCEPT !.setting = v], "setting", v)
Joins(p) == p \notin group.members /\ Change([group EXCEPT !.members = @ \union {p}], "add", p)
Leaves(p) == p \in group.members /\ Change([group EXCEPT !.members = @ \ {p}], "remove", p)
AsksToJoin(p) == p \notin group.members /\ Change(group, "created", p)
Upserted == Change(group, "upsert", group)

-----------------------------------------------------------------------------
(* The store *)

\* What is certain once metadata are cached, by task i or, if it is 0, by no task:
\* no other one holds older ones that it will cache, and no other row is on its way.
Certain(i, meta, fresh, logs) ==
  LET others == {tasks[j].at : j \in (1 .. Len(tasks)) \ {i}}
      sure == fresh /\ others \intersect {"read", "answer", "loop"} = {} IN
  [certain EXCEPT !.meta = sure,
                  !.row = sure /\ others \intersect {"save", "merged"} = {},
                  !.log = @ /\ (logs \/ meta.setting = cached.setting)]

\* saveGroupMetadata: the cache, then the row.
SaveGroupMetadata(i, meta, at, fresh) ==
  /\ cached' = meta
  /\ Become(i, [tasks[i] EXCEPT !.meta = meta, !.at = at])
  /\ certain' = Certain(i, meta, fresh, tasks[i].old # NoMeta)

\* A row of the participants log.
Row(p, action, ts) == [who |-> p, action |-> action, ts |-> ts]
RecordParticipantEvent(p, action, ts) == people \union {Row(p, action, ts)}

\* The last rows of p, one unless its changes are of the same second.
Latest(p) == {r \in people : r.who = p /\ \A q \in people : q.who = p => q.ts <= r.ts}

\* getCurrentParticipants, of one whose last row is r.
Stays(r) == r.action \notin {"leave", "kick", "reject"}

RecordGroupSettingsChange(old, new) == Append(settings, <<old, new>>)

-----------------------------------------------------------------------------
(* groups.update *)

\* getGroupMetadata before the refresh.
GroupsUpdate(v) ==
  Start(IF cached # NoMeta THEN [Task("update", "fetch", v) EXCEPT !.old = cached] ELSE Task("update", "read", v))

Read(i) ==
  /\ May(i, "read")
  /\ \/ Works /\ Become(i, [tasks[i] EXCEPT !.old = metaRow, !.at = "answer"])
     \/ Fails /\ Goes(i, "fetch")
  /\ UNCHANGED <<groupStore, group, notes, cached, metaRow, settings, people, second, certain, warm, notesLeft>>

\* The answer of the store fills the cache.
Answer(i) ==
  /\ May(i, "answer")
  /\ IF tasks[i].old = NoMeta THEN UNCHANGED <<cached, certain>>
     ELSE /\ cached' = tasks[i].old
          /\ certain' = [certain EXCEPT !.meta = @ /\ certain.row, !.log = @ /\ certain.row /\ tasks[i].alone]
  /\ Goes(i, "fetch")
  /\ UNCHANGED <<groupStore, group, notes, metaRow, settings, people, second, warm, notesLeft, groupTrouble>>

\* {...oldMeta, ...update}
Merge(t) == [t.old EXCEPT !.setting = t.note]

\* sock.groupMetadata(), by the handler of the participants too, which gives up
\* where groups.update falls back on what it has.
Refresh(i) ==
  /\ May(i, "fetch")
  /\ \/ Works /\ SaveGroupMetadata(i, group, "save", TRUE)
     \/ /\ Fails
        /\ IF tasks[i].job = "update" /\ tasks[i].old # NoMeta
             THEN SaveGroupMetadata(i, Merge(tasks[i]), "merged", FALSE)
             ELSE Ends(i) /\ certain' = [certain EXCEPT !.meta = FALSE, !.row = FALSE, !.log = @ /\ tasks[i].job # "update"]
                  /\ UNCHANGED cached
  /\ UNCHANGED <<groupStore, group, notes, metaRow, settings, people, second, warm, notesLeft>>

\* Mutant: what was is looked up after the refresh.
CompareLate(i) ==
  IF tasks[i].job = "update" /\ cached \notin {NoMeta, [cached EXCEPT !.setting = tasks[i].meta.setting]}
  THEN Goes(i, "log") ELSE Ends(i)

\* diff() of what was and what is saved, if there was something.
Compare(i) ==
  IF tasks[i].job = "update" /\ tasks[i].old \notin {NoMeta, [tasks[i].old EXCEPT !.setting = tasks[i].meta.setting]}
  THEN Goes(i, "log") ELSE Ends(i)

\* The row of a refresh is written.  The warm-up writes its own, and waits for none;
\* what SQLITE throws ends it (of two warm-ups, either).
Save(i) ==
  /\ May(i, "save")
  /\ \/ Works /\ metaRow' = tasks[i].meta /\ Compare(i)
        /\ UNCHANGED certain
     \/ /\ Fails
        /\ CASE tasks[i].job = "update" /\ tasks[i].old # NoMeta -> Goes(i, "failed")
             [] tasks[i].job = "warmed" /\ groupStore = "sqlite" ->
                  \E j \in 1 .. i - 1 : tasks[j].job = "warm" /\ tasks' = RemoveAt(RemoveAt(tasks, i), j)
             [] OTHER -> Ends(i)
        /\ certain' = [certain EXCEPT !.row = FALSE, !.log = @ /\ tasks[i].job # "update"]
        /\ UNCHANGED metaRow
  /\ UNCHANGED <<groupStore, group, notes, cached, settings, people, second, warm, notesLeft>>

FallBack(i) ==
  /\ May(i, "failed")
  /\ SaveGroupMetadata(i, Merge(tasks[i]), "merged", FALSE)
  /\ UNCHANGED <<groupStore, group, notes, metaRow, settings, people, second, warm, notesLeft, groupTrouble>>

\* The row of the fallback, which a store may fail to write that failed before.  That
\* of SQLITE is no promise: .catch() throws.
SaveMerged(i) ==
  /\ May(i, "merged")
  /\ metaRow' = tasks[i].meta \/ UNCHANGED metaRow
  /\ IF groupStore = "sqlite" THEN Ends(i) ELSE Compare(i)
  /\ certain' = [certain EXCEPT !.log = FALSE]
  /\ UNCHANGED <<groupStore, group, notes, cached, settings, people, second, warm, notesLeft, groupTrouble>>

LogSetting(i) ==
  /\ May(i, "log")
  /\ \/ Works /\ settings' = RecordGroupSettingsChange(tasks[i].old.setting, tasks[i].meta.setting)
     \/ Fails /\ UNCHANGED settings
  /\ certain' = [certain EXCEPT !.log = tasks[i].alone /\ certain.meta /\ settings' # settings]
  /\ Ends(i)
  /\ UNCHANGED <<groupStore, group, notes, cached, metaRow, people, second, warm, notesLeft>>

-----------------------------------------------------------------------------
(* group-participants.update and group.join-request *)

\* classifyAction, of a change by an admin, and the words for a request to join.
Classified == [add |-> "add", remove |-> "kick", created |-> "request"]

ParticipantsUpdate(p, action) == Start(Task("members", "record", Row(p, Classified[action], second)))
JoinRequest(p, action) == Start(Task("request", "record", Row(p, Classified[action], second)))

\* The row, whose loss is only logged; the handler of the participants goes on to
\* the refresh.
Record(i) ==
  LET row == tasks[i].note IN
  /\ May(i, "record")
  /\ \/ Works /\ people' = RecordParticipantEvent(row.who, row.action, row.ts)
        /\ certain' = [certain EXCEPT !.people =
             IF tasks[i].alone /\ \A q \in people : q.who = row.who => q.ts < row.ts THEN @ \union {row.who} ELSE @ \ {row.who}]
     \/ Fails /\ certain' = [certain EXCEPT !.people = @ \ {row.who}] /\ UNCHANGED people
  /\ IF tasks[i].job = "members" THEN Goes(i, "fetch") ELSE Ends(i)
  /\ UNCHANGED <<groupStore, group, notes, cached, metaRow, settings, second, warm, notesLeft>>

\* bind() of the store: the metadata of the notice, as old as the notice is.
GroupsUpsert(meta) ==
  /\ cached' = meta
  /\ Start([Task("row", "save", "") EXCEPT !.meta = meta])
  /\ certain' = Certain(0, meta, Len(notes) = 1, FALSE)

\* The worker hears the next notice, and starts its handler.
Hear ==
  /\ Idle /\ notes # <<>>
  /\ notes' = Tail(notes)
  /\ LET n == Head(notes) IN
     \/ n.kind = "upsert" /\ GroupsUpsert(n.what)
     \/ /\ \/ n.kind = "setting" /\ GroupsUpdate(n.what)
           \/ n.kind \in {"add", "remove"} /\ ParticipantsUpdate(n.what, n.kind)
           \/ n.kind = "created" /\ JoinRequest(n.what, n.kind)
        /\ UNCHANGED <<cached, certain>>
  /\ UNCHANGED <<groupStore, group, metaRow, settings, people, second, warm, notesLeft, groupTrouble>>

-----------------------------------------------------------------------------
(* The warm-up of a connection *)

\* groupFetchAllParticipating() answers; other groups may come before this one.
WarmUp ==
  /\ Idle /\ warm = "due" /\ warm' = "done"
  /\ Start([Task("warm", "loop", "") EXCEPT !.meta = group])
  /\ UNCHANGED <<groupStore, group, notes, cached, metaRow, settings, people, second, certain, notesLeft, groupTrouble>>

\* The socket closes, and the next one that opens warms up again, whatever of the
\* warm-up before is still running.
WarmAgain ==
  /\ Idle /\ Fails /\ warm = "done" /\ warm' = "due"
  /\ UNCHANGED <<groupStore, group, notes, cached, metaRow, settings, people, second, tasks, certain, notesLeft>>

\* It saves the metadata and asks for the history without waiting for the row.
WarmGroup(i) ==
  LET t == tasks[i] IN
  /\ May(i, "loop")
  /\ cached' = t.meta
  /\ tasks' = Append([tasks EXCEPT ![i].at = "history"], [Task("warmed", "save", "") EXCEPT !.meta = t.meta])
  /\ certain' = [certain EXCEPT !.meta = t.alone, !.row = t.alone, !.log = FALSE]
  /\ UNCHANGED <<groupStore, group, notes, metaRow, settings, people, second, warm, notesLeft, groupTrouble>>

\* The rows that Adopt makes are told apart by their time, whenever they are written.
\* A history that cannot be read counts as none.
History(i) ==
  /\ May(i, "history")
  /\ \/ Works /\ Goes(i, IF people = {} THEN "adopt" ELSE "settings")
     \/ Fails /\ Goes(i, "adopt")
  /\ UNCHANGED <<groupStore, group, notes, cached, metaRow, settings, people, second, certain, warm, notesLeft>>

Adopt(i) ==
  /\ May(i, "adopt")
  /\ people' = people \union {Row(p, "add", second) : p \in tasks[i].meta.members}
  /\ certain' = [certain EXCEPT !.people =
       IF tasks[i].alone /\ people = {} THEN Members ELSE @ \ tasks[i].meta.members]
  /\ Goes(i, "settings")
  /\ UNCHANGED <<groupStore, group, notes, cached, metaRow, settings, second, warm, notesLeft, groupTrouble>>

SettingsHistory(i) ==
  /\ May(i, "settings")
  /\ \/ Works /\ IF settings = <<>> THEN Goes(i, "baseline") ELSE Ends(i)
     \/ Fails /\ Goes(i, "baseline")
  /\ UNCHANGED <<groupStore, group, notes, cached, metaRow, settings, people, second, certain, warm, notesLeft>>

Baseline(i) ==
  /\ May(i, "baseline")
  /\ settings' = RecordGroupSettingsChange(-1, tasks[i].meta.setting)
  /\ certain' = [certain EXCEPT !.log = tasks[i].alone]
  /\ Ends(i)
  /\ UNCHANGED <<groupStore, group, notes, cached, metaRow, people, second, warm, notesLeft, groupTrouble>>

-----------------------------------------------------------------------------

\* Time tells rows apart, so that it waits for the first of them.
Stamped == people # {} \/ \E i \in 1 .. Len(tasks) : tasks[i].at = "record"

Second ==
  /\ Idle /\ Stamped
  /\ second < MaxSecond /\ second' = second + 1
  /\ UNCHANGED <<groupStore, group, notes, cached, metaRow, settings, people, tasks, certain, warm, notesLeft, groupTrouble>>

\* An hour without a look at the cache.
Expire ==
  /\ Idle /\ Fails /\ cached # NoMeta /\ cached' = NoMeta
  /\ UNCHANGED <<groupStore, group, notes, metaRow, settings, people, second, tasks, certain, warm, notesLeft>>

\* Notices that were heard, or sent, are lost with the worker.
GroupCrash ==
  /\ Idle /\ Fails
  /\ tasks' = <<>> /\ notes' = <<>> /\ cached' = NoMeta /\ warm' = "due"
  /\ certain' = [meta |-> FALSE, row |-> FALSE, log |-> FALSE,
                 people |-> IF notes = <<>> /\ \A i \in 1 .. Len(tasks) : tasks[i].at \notin {"record", "adopt"}
                            THEN certain.people ELSE {}]
  /\ UNCHANGED <<groupStore, group, metaRow, settings, people, second, notesLeft>>

TaskStep(i) ==
  \/ Read(i) \/ Answer(i) \/ Refresh(i) \/ Save(i) \/ FallBack(i) \/ SaveMerged(i) \/ LogSetting(i) \/ Record(i)
  \/ WarmGroup(i) \/ History(i) \/ Adopt(i) \/ SettingsHistory(i) \/ Baseline(i)

GroupsNext ==
  \/ \E v \in 0 .. MaxSetting : SettingChanges(v)
  \/ \E p \in Members : Joins(p) \/ Leaves(p) \/ AsksToJoin(p)
  \/ Upserted \/ Hear \/ WarmUp \/ WarmAgain \/ Second \/ Expire \/ GroupCrash
  \/ \E i \in 1 .. Len(tasks) : TaskStep(i)

GroupsSpec == GroupsInit /\ [][GroupsNext]_groupVars

-----------------------------------------------------------------------------
(* Properties *)

Quiet == tasks = <<>> /\ notes = <<>>

\* Once every notice was handled, the cache and the row hold the metadata that
\* WhatsApp has, the settings log ends with its setting, and the participants log
\* tells who is a member; the settings log only holds changes.  Each is said unless
\* a call about it failed, a notice was lost, or what was read before another
\* handler's write was written after it; the next refresh that runs alone makes up
\* for the metadata and the settings.
GroupsInv ==
  /\ Quiet =>
       /\ certain.meta => cached \in {NoMeta, group}
       /\ certain.row => metaRow = group
       /\ certain.log => Last(settings)[2] = group.setting
       /\ \A p \in certain.people :
            (\E r \in Latest(p) : Stays(r)) = (p \in group.members \/ \E r \in Latest(p) : r.action = "request")
  /\ \A i \in 1 .. Len(settings) : settings[i][1] # settings[i][2]

\* db.js: getCurrentParticipants(group).  Who only asked to join is listed, too.
OnlyMembersAreCurrent ==
  Quiet => \A p \in certain.people : (\E r \in Latest(p) : Stays(r)) => p \in group.members

\* worker.js: 'group cache warmed + participant snapshot ensured'.  Only a group
\* without any row gets one, and a notice may come before it.
SnapshotIsEnsured ==
  Quiet /\ warm = "done" /\ groupTrouble = MaxGroupTrouble /\ second = MaxSecond =>
    \A p \in group.members : \E r \in Latest(p) : Stays(r)

=============================================================================
