---------------------------- MODULE MCMigrations ----------------------------
(***************************************************************************)
(* Instances of Migrations for TLC: an old binary that knows all but the   *)
(* last migration, and new ones, among them the operator console, which    *)
(* opens the file with the same sqlite.Open as the agents do.              *)
(***************************************************************************)
EXTENDS Migrations

CONSTANTS wintermute, neuromancer, console

MCThree == {wintermute, neuromancer, console}
MCEmbedded == [a \in Agents |-> IF a = wintermute THEN Versions - 1 ELSE Versions]
=============================================================================
