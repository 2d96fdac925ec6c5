--------------------------- MODULE MigrationLedger ---------------------------
(***************************************************************************)
(* What lib/migrationsRunner.js promises of the schema of a store: its     *)
(* migrations take effect one after the other, none is skipped, and the    *)
(* tracker says only of those that took effect that they did.  A store     *)
(* with transactions applies and records a migration in one step, once;    *)
(* the others may apply again what was recorded, or is about to be.        *)
(***************************************************************************)
EXTENDS Naturals, Sequences

CONSTANT Latest   \* the number of migrations

VARIABLES
  atomic,     \* whether the store has transactions
  level,      \* the migrations 1 .. level are in the tracker
  history     \* the migrations that took effect, in order

ledgerVars == <<atomic, level, history>>

LedgerInit ==
  /\ atomic \in BOOLEAN
  /\ level \in 0 .. Latest
  /\ history = [i \in 1 .. level |-> i]

TakesEffect(v) == history' = Append(history, v)

\* The next migration and its row.
ApplyAndRecord ==
  /\ atomic /\ level < Latest
  /\ TakesEffect(level + 1)
  /\ level' = level + 1
  /\ UNCHANGED atomic

\* The next migration, or once more an earlier one.
ApplyOnly ==
  /\ ~atomic
  /\ \E v \in 1 .. Latest : v <= level + 1 /\ TakesEffect(v)
  /\ UNCHANGED <<atomic, level>>

RecordOnly ==
  /\ ~atomic /\ level < Latest
  /\ \E i \in 1 .. Len(history) : history[i] = level + 1
  /\ level' = level + 1
  /\ UNCHANGED <<atomic, history>>

LedgerNext == ApplyAndRecord \/ ApplyOnly \/ RecordOnly

LedgerSpec == LedgerInit /\ [][LedgerNext]_ledgerVars

=============================================================================
