---------------------------- MODULE MCAccounts -----------------------------
(* The accounts for TLC.                                                   *)
EXTENDS Accounts
=============================================================================
