---------------------------- MODULE MCMigrations ----------------------------
(* The migrations for TLC.                                                 *)
EXTENDS Migrations
=============================================================================
