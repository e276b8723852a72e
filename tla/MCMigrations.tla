---------------------------- MODULE MCMigrations ----------------------------
(***************************************************************************)
(* Small instances of Migrations for TLC: which revisions a command is     *)
(* called with.                                                            *)
(***************************************************************************)
EXTENDS Migrations

AnyRevision == 0..Head
BaseAndHead == {0, Head}

\* One status that every type has, and one that each enum migration adds.
OneOfEach == {"UP", "UPGRADE_REQUIRED", "SERVER_ERROR"}
=============================================================================
