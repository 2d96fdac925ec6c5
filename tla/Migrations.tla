------------------------------ MODULE Migrations ------------------------------
(***************************************************************************)
(* The boot of a store: its constructor creates the tables it needs, then  *)
(* lib/migrationsRunner.js reads the tracker and applies in order what it  *)
(* did not find there.  The bot does so on every start, and so does the    *)
(* script `npm run migrate` when somebody calls it, perhaps at the same    *)
(* time. On SQLITE and POSTGRES a migration and its row are one            *)
(* transaction, and the row's primary key lets only one of two processes   *)
(* commit; MONGODB and REDIS have a row written after the migration took   *)
(* effect, and only MONGODB's has a unique index. Any step may fail, which *)
(* aborts the boot; the supervisor starts the bot again, and nobody the    *)
(* script.                                                                 *)
(*                                                                         *)
(* Of the tables themselves the one that migration 002 renames is          *)
(* modelled, with the rows of an installation of before its new name.      *)
(***************************************************************************)
EXTENDS Naturals, Sequences, FiniteSets

CONSTANTS
  Backends,    \* the stores, a subset of SqlStores \union OtherStores
  Procs,       \* the processes that boot
  Supervised,  \* those of them that core/bootstrap.js starts again
  Latest,        \* the number of migrations
  Rename,      \* the one that renames thehackersnews_sent_articles
  MaxTrouble   \* bound on failures and crashes

SqlStores == {"sqlite", "postgres"}
OtherStores == {"mongo", "redis"}
Versions == 1 .. Latest

ASSUME MigrationsAssumption ==
  /\ Backends \subseteq SqlStores \union OtherStores
  /\ Supervised \subseteq Procs
  /\ Latest \in Nat /\ Rename \in Versions
  /\ MaxTrouble \in Nat

VARIABLES
  backend,     \* storeDB.type
  pc,          \* "down", "built", "applying", "recording" or "ready"
  pending,     \* the versions that a process did not find in the tracker
  tracked,     \* the rows of _migrations
  history,     \* history: the migrations that took effect, in order
  ddl,         \* the processes whose inline DDL is still on its way (postgres)
  tables,      \* the table with the old and the one with the new name
  trouble

vars == <<backend, pc, pending, tracked, history, ddl, tables, trouble>>

Tables == [old : {"absent", "rows"}, new : {"absent", "empty", "rows"}]

TypeOK ==
  /\ backend \in Backends
  /\ pc \in [Procs -> {"down", "built", "applying", "recording", "ready"}]
  /\ pending \in [Procs -> SUBSET Versions]
  /\ tracked \subseteq Versions
  /\ history \in Seq(Versions)
  /\ ddl \subseteq Procs
  /\ tables \in Tables
  /\ trouble \in Nat

\* A new installation, one of before the rename, perhaps stopped on the way to it,
\* or one that was booted by an earlier release with fewer migrations.
Init ==
  /\ backend \in Backends
  /\ pc = [p \in Procs |-> "down"]
  /\ pending = [p \in Procs |-> {}]
  /\ \E n \in 0 .. Latest :
       /\ tracked = 1 .. n
       /\ history = [i \in 1 .. n |-> i]
       /\ tables \in {t \in Tables : IF n < Rename THEN t.new = "absent" \/ (n > 0 /\ t.new = "empty")
                                                   ELSE t.old = "absent" /\ t.new = "rows"}
  /\ backend \in OtherStores => tables.old = "absent"
  /\ ddl = {}
  /\ trouble = 0

-----------------------------------------------------------------------------
(* The tables *)

\* CREATE TABLE IF NOT EXISTS service_sent_items
Created(t) == [t EXCEPT !.new = IF @ = "absent" THEN "empty" ELSE @]

\* ALTER TABLE thehackersnews_sent_articles RENAME TO service_sent_items, when
\* there is the one and not yet the other.
Renamed(t) == IF t.old = "rows" /\ t.new = "absent" THEN [old |-> "absent", new |-> "rows"] ELSE t

\* What a migration does to the two tables.
Migrated(v, t) == IF v = Rename /\ backend \in SqlStores THEN Created(Renamed(t)) ELSE t

-----------------------------------------------------------------------------
(* A boot *)

Goto(p, step) == pc' = [pc EXCEPT ![p] = step]

\* makeSQLiteStore creates the tables and then looks for one to rename;
\* makePostgresStore sends its DDL and does not wait for it.
Build(p) ==
  /\ pc[p] = "down"
  /\ Goto(p, "built")
  /\ tables' = IF backend = "sqlite" THEN Renamed(Created(tables)) ELSE tables
  /\ ddl' = IF backend = "postgres" THEN ddl \union {p} ELSE ddl
  /\ UNCHANGED <<backend, pending, tracked, history, trouble>>

RunDdl(p) ==
  /\ p \in ddl
  /\ ddl' = ddl \ {p}
  /\ tables' = Created(tables)
  /\ UNCHANGED <<backend, pc, pending, tracked, history, trouble>>

\* Mutant: only versions above the highest of the tracker are looked for, and
\* the tracker is believed to hold the latest.
ListLatest(p) ==
  /\ pc[p] = "built"
  /\ Goto(p, "applying")
  /\ pending' = [pending EXCEPT ![p] = IF Latest \in tracked THEN {} ELSE {Latest}]
  /\ UNCHANGED <<backend, tracked, history, ddl, tables, trouble>>

\* adapter.applied(), and the versions that are not in it.
List(p) ==
  /\ pc[p] = "built"
  /\ Goto(p, "applying")
  /\ pending' = [pending EXCEPT ![p] = Versions \ tracked]
  /\ UNCHANGED <<backend, tracked, history, ddl, tables, trouble>>

IsNext(v, p) == v \in pending[p] /\ \A u \in pending[p] : v <= u

Commit(v) ==
  /\ tracked' = tracked \union {v}
  /\ history' = Append(history, v)
  /\ tables' = Migrated(v, tables)

\* Mutant: INSERT OR REPLACE, so that the row of another process is no conflict.
ApplyAlways(p, v) ==
  /\ backend \in SqlStores
  /\ pc[p] = "applying" /\ IsNext(v, p)
  /\ Commit(v)
  /\ pending' = [pending EXCEPT ![p] = @ \ {v}]
  /\ UNCHANGED <<backend, pc, ddl, trouble>>

\* The transaction of the migration and its row.
Apply(p, v) ==
  /\ backend \in SqlStores
  /\ pc[p] = "applying" /\ IsNext(v, p) /\ v \notin tracked
  /\ Commit(v)
  /\ pending' = [pending EXCEPT ![p] = @ \ {v}]
  /\ UNCHANGED <<backend, pc, ddl, trouble>>

\* Mutant: the runner tries the same transaction again.
ConflictRetried(p, v) ==
  /\ pc[p] = IF backend \in SqlStores THEN "applying" ELSE "recording"
  /\ IsNext(v, p) /\ v \in tracked
  /\ backend # "redis"
  /\ UNCHANGED vars

\* The row is there: the transaction is rolled back and the boot aborted.
Conflict(p, v) ==
  /\ pc[p] = IF backend \in SqlStores THEN "applying" ELSE "recording"
  /\ IsNext(v, p) /\ v \in tracked
  /\ backend # "redis"
  /\ Goto(p, "down")
  /\ UNCHANGED <<backend, pending, tracked, history, ddl, tables, trouble>>

\* mig.up() without a transaction
Up(p, v) ==
  /\ backend \in OtherStores
  /\ pc[p] = "applying" /\ IsNext(v, p)
  /\ history' = Append(history, v)
  /\ Goto(p, "recording")
  /\ UNCHANGED <<backend, pending, tracked, ddl, tables, trouble>>

\* insertOne with a unique index, or zadd
Record(p, v) ==
  /\ backend \in OtherStores
  /\ pc[p] = "recording" /\ IsNext(v, p)
  /\ backend = "mongo" => v \notin tracked
  /\ tracked' = tracked \union {v}
  /\ pending' = [pending EXCEPT ![p] = @ \ {v}]
  /\ Goto(p, "applying")
  /\ UNCHANGED <<backend, history, ddl, tables, trouble>>

\* All are applied: setStore(), or the end of the script.
Finish(p) ==
  /\ pc[p] = "applying" /\ pending[p] = {}
  /\ Goto(p, "ready")
  /\ UNCHANGED <<backend, pending, tracked, history, ddl, tables, trouble>>

-----------------------------------------------------------------------------
(* What goes wrong *)

Trouble == trouble < MaxTrouble /\ trouble' = trouble + 1

\* A step fails and the boot is aborted, or the process dies.  Nothing is left
\* of a transaction.
Abort(p) ==
  /\ Trouble
  /\ pc[p] \notin {"down", "ready"}
  /\ Goto(p, "down")
  /\ UNCHANGED <<backend, pending, tracked, history, ddl, tables>>

\* The answer to the COMMIT is lost: ROLLBACK and an aborted boot, of a
\* transaction that the server has committed.
AnswerLost(p, v) ==
  /\ Trouble
  /\ backend = "postgres"
  /\ pc[p] = "applying" /\ IsNext(v, p) /\ v \notin tracked
  /\ Commit(v)
  /\ Goto(p, "down")
  /\ UNCHANGED <<backend, pending, ddl>>

\* The bot is restarted, or the script is run again, as it may be after an abort.
Restart(p) ==
  /\ pc[p] = "ready"
  /\ Goto(p, "down")
  /\ UNCHANGED <<backend, pending, tracked, history, ddl, tables, trouble>>

-----------------------------------------------------------------------------
BootStep(p) ==
  \/ Build(p) \/ List(p) \/ Finish(p)
  \/ \E v \in Versions : Apply(p, v) \/ Conflict(p, v) \/ Up(p, v) \/ Record(p, v)

Step(p) ==
  \/ BootStep(p) \/ RunDdl(p) \/ Abort(p) \/ Restart(p)
  \/ \E v \in Versions : AnswerLost(p, v)

Next == \E p \in Procs : Step(p)

Spec == Init /\ [][Next]_vars

\* The runner of the bot goes on as long as its process runs, and the supervisor
\* starts a new one after every abort.  The script may be stopped at any point, and
\* ends with its first failure.
FairSpec == Spec /\ \A p \in Supervised : WF_vars(BootStep(p))

-----------------------------------------------------------------------------
(* Properties *)

\* The tracker has no gap, a runner still has in hand what is not in it, and
\* what a runner is about to record took effect.
Gapless == \E n \in 0 .. Latest : tracked = 1 .. n

NothingMissed ==
  \A p \in Procs : pc[p] \in {"applying", "recording"} => Versions \ tracked \subseteq pending[p]

RecordedTookEffect ==
  \A p \in Procs : pc[p] = "recording" =>
    /\ backend \in OtherStores
    /\ \E i \in 1 .. Len(history) : IsNext(history[i], p)

Ledger == INSTANCE MigrationLedger
            WITH atomic <- backend \in SqlStores, level <- Cardinality(tracked)

\* Two processes that boot side by side, failures and lost answers do what the
\* ledger promises: on SQLITE and POSTGRES every migration takes effect once and
\* in order ("applied twice will throw; tracker prevents this"); on MONGODB and
\* REDIS one may take effect again, but none takes effect before the one it
\* builds on is recorded, and none is recorded that did not.
LedgerKept == Ledger!LedgerSpec

\* A process that boots past its migrations has all of them, those too that
\* another process was applying when it read the tracker.
ReadyIsMigrated == \A p \in Procs : pc[p] = "ready" => tracked = Versions

\* A boot of the bot is aborted by every failure, and by every conflict with a
\* script, wherever that stops; it is not aborted for ever.
BootCompletes == \A p \in Supervised : pc[p] = "down" ~> pc[p] = "ready"

MigrationsInv ==
  TypeOK /\ Gapless /\ NothingMissed /\ RecordedTookEffect /\ ReadyIsMigrated

\* store/migrations/sqlite/002_rename_sent_articles.js: "Rename in place -
\* preserves all rows".
SentRowsKept == (\E p \in Procs : pc[p] = "ready") => tables.old = "absent"

=============================================================================
