---------------------------- MODULE MCDocuments -----------------------------
(* Documents for TLC.                                                      *)
EXTENDS Documents

CONSTANTS d1, d2

Docs == {d1, d2}
=============================================================================
