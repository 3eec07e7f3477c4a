--------------------------- MODULE RouteRegistry ---------------------------
(***************************************************************************)
(* What the operator promises to the gateway that reads its routes: one    *)
(* route is added or taken away at a time, whatever else is reconciled; it *)
(* is added only while the operator answers for its ModelDeployment; and   *)
(* the operator lets go of a ModelDeployment only when its route is gone.  *)
(* ModelDeployment implements this.                                        *)
(***************************************************************************)
CONSTANT Name   \* of ModelDeployments

VARIABLES
    held,       \* the ModelDeployments that have the operator's finalizer
    table       \* the names that have a route

registryVars == <<held, table>>

RegistryInit == held = {} /\ table = {}

Hold(m) ==
    /\ held' = held \cup {m}
    /\ UNCHANGED table

Register(m) ==
    /\ m \in held
    /\ table' = table \cup {m}
    /\ UNCHANGED held

Unregister(m) ==
    /\ table' = table \ {m}
    /\ UNCHANGED held

Release(m) ==
    /\ m \notin table
    /\ held' = held \ {m}
    /\ UNCHANGED table

RegistryNext ==
    \E m \in Name : Hold(m) \/ Register(m) \/ Unregister(m) \/ Release(m)

RegistrySpec == RegistryInit /\ [][RegistryNext]_registryVars
=============================================================================
