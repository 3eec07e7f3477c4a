---------------------------- MODULE MCPeerRelay ----------------------------
(* The relay for TLC.                                                      *)
EXTENDS PeerRelay, TLC

(* Connections and requests are interchangeable (no liveness under it).    *)
Symmetry == Permutations(Conn) \cup Permutations(Req)
=============================================================================
