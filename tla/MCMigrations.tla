---------------------------- MODULE MCMigrations ----------------------------
(* Two callers, or two managers, of one or two database objects.           *)
EXTENDS Migrations

MCDirectory == <<2, 1>>
=============================================================================
