--------------------------- MODULE RelayedAnswer ---------------------------
(***************************************************************************)
(* What the relay promises to whoever has a request forwarded to a         *)
(* member's laptop: chunks of the answer to this request, each at most     *)
(* once and in the order in which they were produced, and one end of the   *)
(* response, after which nothing comes.  Chunks may be missing.  The       *)
(* response ends with [DONE] (ok) only when the agent has ended the        *)
(* answer, is 503 (unavailable) only when the agent never got the request, *)
(* and ends without [DONE] (cut) only when the agent refused it: the       *)
(* caller gets an empty 200 then and is not told why.  The connection      *)
(* breaks when the caller has gone or the relay stops.  PeerRelay          *)
(* implements this.                                                        *)
(***************************************************************************)
EXTENDS Naturals, Sequences

CONSTANT Req    \* requests

VARIABLES
    state,      \* of the answer: "none", "open", "done" or "refused"
    produced,   \* how many chunks of it there are
    got,        \* the numbers of the chunks the caller was sent
    ending      \* how the response ended

answerVars == <<state, produced, got, ending>>

AnswerInit ==
    /\ state = [q \in Req |-> "none"]
    /\ produced = [q \in Req |-> 0]
    /\ got = [q \in Req |-> <<>>]
    /\ ending = [q \in Req |-> "none"]

Ask(q) ==
    /\ state[q] = "none" /\ ending[q] = "none"
    /\ state' = [state EXCEPT ![q] = "open"]
    /\ UNCHANGED <<produced, got, ending>>

Produce(q) ==
    /\ state[q] = "open"
    /\ produced' = [produced EXCEPT ![q] = @ + 1]
    /\ UNCHANGED <<state, got, ending>>

Close(q) ==
    /\ state[q] = "open"
    /\ \/ state' = [state EXCEPT ![q] = "done"]
       \/ /\ produced[q] = 0
          /\ state' = [state EXCEPT ![q] = "refused"]
    /\ UNCHANGED <<produced, got, ending>>

Deliver(q) ==
    /\ ending[q] = "none"
    /\ \E n \in 1..produced[q] :
          /\ \A i \in DOMAIN got[q] : got[q][i] < n
          /\ got' = [got EXCEPT ![q] = Append(@, n)]
    /\ UNCHANGED <<state, produced, ending>>

MayEnd(q, how) ==
    \/ how = "ok" /\ state[q] = "done"
    \/ how = "unavailable" /\ state[q] = "none"
    \/ how = "cut" /\ state[q] = "refused" /\ got[q] = <<>>
    \/ how = "clientGone"

Finish(q) ==
    /\ ending[q] = "none"
    /\ \E how \in {"ok", "unavailable", "cut", "clientGone"} :
          MayEnd(q, how) /\ ending' = [ending EXCEPT ![q] = how]
    /\ UNCHANGED <<state, produced, got>>

(* The relay ends with the requests it was forwarding.                     *)
Stop(Q) ==
    /\ \A q \in Q : ending[q] = "none"
    /\ ending' = [q \in Req |-> IF q \in Q THEN "restarted" ELSE ending[q]]
    /\ UNCHANGED <<state, produced, got>>

AnswerNext ==
    \/ \E q \in Req : Ask(q) \/ Produce(q) \/ Close(q) \/ Deliver(q) \/ Finish(q)
    \/ \E Q \in SUBSET Req : Stop(Q)

AnswerSpec == AnswerInit /\ [][AnswerNext]_answerVars
=============================================================================
