----------------------------- MODULE MCGateway ------------------------------
(* The gateway for TLC: one deployment with pods or without, one that is   *)
(* no longer allowed, and a peer.  The answers have their usage in the     *)
(* last data line, twice, behind other text, and without an end of line.   *)
EXTENDS Gateway

CONSTANTS llama, other, peer, svc, pod1

MCDeployments == {llama, other, peer}
MCAllowed     == {llama, peer}
MCUpstreams   == {svc, pod1}
Route(pods) ==
    [routes |-> [d \in MCDeployments |-> IF d = llama THEN svc ELSE NoUpstream],
     pods   |-> [d \in MCDeployments |-> IF d = llama THEN pods ELSE <<>>]]
MCVersions == {Route(<<pod1>>), Route(<<>>)}
MCBodies == {<<Data, 3, NL, Data, 5, NL, Text>>, <<Text, 3, NL, Data, 3>>}
=============================================================================
