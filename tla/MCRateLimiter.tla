--------------------------- MODULE MCRateLimiter ---------------------------
(* Instances of RateLimiter for TLC.                                        *)
EXTENDS RateLimiter, TLC

CONSTANTS RpmLimit, TpmLimit

MCRpm == [k \in Key |-> RpmLimit]
MCTpm == [k \in Key |-> TpmLimit]

HandlerSymmetry == Permutations(Req)
=============================================================================
