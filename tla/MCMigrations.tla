---------------------------- MODULE MCMigrations ----------------------------
(***************************************************************************)
(* A small instance of Migrations: the bot and the script on each of the   *)
(* four stores, three migrations of which the second renames the table.    *)
(***************************************************************************)
EXTENDS Migrations

CONSTANTS bot, script

MCProcs == {bot, script}
MCSupervised == {bot}

=============================================================================
