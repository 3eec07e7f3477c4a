--------------------------- MODULE SchemaHistory ----------------------------
(***************************************************************************)
(* What the migrations promise: the schema grows by one migration at a     *)
(* time, in the order of their names, never shrinks, and a server serves   *)
(* only when every migration of its binary is in the schema.               *)
(***************************************************************************)
EXTENDS Naturals

CONSTANTS Replicas, Files

VARIABLES schema,   \* the migrations that are in the schema
          serving   \* the migrations of the binary a server serves with, or 0

HistoryInit == schema = {} /\ serving = [r \in Replicas |-> 0]

Grow ==
    /\ \E i \in 1..Files : schema = 1..(i - 1) /\ schema' = 1..i
    /\ UNCHANGED serving

Serve(r) ==
    /\ serving[r] = 0
    /\ \E n \in 1..Files : 1..n \subseteq schema /\ serving' = [serving EXCEPT ![r] = n]
    /\ UNCHANGED schema

Stop(r) == serving' = [serving EXCEPT ![r] = 0] /\ UNCHANGED schema

HistoryNext == Grow \/ \E r \in Replicas : Serve(r) \/ Stop(r)
HistorySpec == HistoryInit /\ [][HistoryNext]_<<schema, serving>>
=============================================================================
