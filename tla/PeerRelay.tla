----------------------------- MODULE PeerRelay -----------------------------
(***************************************************************************)
(* The relay that serves a model from a member's laptop: the hub and the   *)
(* handlers of apps/peer-relay/internal/relay and, at the other end of the *)
(* WebSocket, the agent of apps/peer-agent/cmd/main.go.                    *)
(*                                                                         *)
(* One peer: the hub keeps one connection per peer, and peers share only   *)
(* its mutex.  Every WebSocket has a goroutine in ConnectPeer and every    *)
(* forwarded request one in Forward; the agent has one per request.  What  *)
(* a goroutine does under the hub's or a connection's mutex is one step,   *)
(* and so is each statement it sends to Postgres.                          *)
(*                                                                         *)
(* The module starts where ConnectPeer has accepted the token.             *)
(***************************************************************************)
EXTENDS Naturals, Sequences

CONSTANTS
    Conn,       \* WebSocket connections, each opened at most once
    Req,        \* forwarded requests, each made at most once
    NoConn,     \* no connection
    Capacity,   \* the buffer of a request's chunks channel (256)
    Chunks,     \* how many chunks an answer has at most
    Restarts,   \* bound on the restarts of the relay
    DBFailures  \* bound on the failed statements

ASSUME RelayAssumption ==
    /\ NoConn \notin Conn
    /\ Capacity \in Nat /\ Chunks \in Nat /\ Restarts \in Nat
    /\ DBFailures \in Nat

HandlerPC == {"none", "register", "online", "reading", "unregister",
              "offline", "done"}
ForwardPC == {"new", "insert", "send", "streaming", "remove", "failed", "cut",
              "returned"}
Result    == {"none", "unavailable", "ok", "cut", "clientGone", "restarted"}

(* While the deferred function of Forward has yet to run.                  *)
Deferring == {"remove", "failed", "cut"}
Frame     == [req : Req, type : {"chunk", "done", "error"}, n : 0..Chunks]

VARIABLES
    peers,       \* the hub's entry of the peer
    online,      \* the peer's online column in Postgres
    hpc,         \* ConnectPeer, per connection
    open,        \* the connections the relay has not closed
    agentUp,     \* the connections whose agent's end is alive
    inbox,       \* the frames an agent has sent and the relay has not read
    pending,     \* the requests in a connection's pending map
    rpc, via,    \* Forward, per request, and the connection it uses
    chunks, done, errCh,  \* the three channels of a request
    out,         \* what the caller has been sent
    result,      \* how the response ended: 503 (unavailable), with [DONE]
                 \* (ok), without it (cut), or with its connection
    asked,       \* the requests that have reached the agent
    answer,      \* how many chunks its goroutine has sent, per request
    answered,    \* the requests whose answer ended with done
    refused,     \* the requests whose answer was an error
    restarts, dbFailures

hubVars     == <<peers, online>>
connVars    == <<hpc, open, agentUp, inbox>>
channelVars == <<chunks, done, errCh>>
forwardVars == <<rpc, via, out, result>>
agentVars   == <<asked, answer, answered, refused>>
boundVars   == <<restarts, dbFailures>>
vars == <<hubVars, connVars, pending, channelVars, forwardVars, agentVars,
          boundVars>>

Init ==
    /\ peers = NoConn /\ online = FALSE
    /\ hpc = [c \in Conn |-> "none"] /\ open = {} /\ agentUp = {}
    /\ inbox = [c \in Conn |-> <<>>]
    /\ pending = [c \in Conn |-> {}]
    /\ rpc = [q \in Req |-> "new"] /\ via = [q \in Req |-> NoConn]
    /\ chunks = [q \in Req |-> <<>>]
    /\ done = {} /\ errCh = {}
    /\ out = [q \in Req |-> <<>>] /\ result = [q \in Req |-> "none"]
    /\ asked = {} /\ answer = [q \in Req |-> 0]
    /\ answered = {} /\ refused = {}
    /\ restarts = 0 /\ dbFailures = 0

-----------------------------------------------------------------------------
(* ConnectPeer: one goroutine per connection.                              *)
HandlerAt(c, from, to) == hpc[c] = from /\ hpc' = [hpc EXCEPT ![c] = to]

Connect(c) ==
    /\ HandlerAt(c, "none", "register")
    /\ open' = open \cup {c} /\ agentUp' = agentUp \cup {c}
    /\ UNCHANGED <<hubVars, inbox, pending, channelVars, forwardVars,
                   agentVars, boundVars>>

(* Hub.Register: an older connection of the peer is closed.                *)
Register(c) ==
    /\ HandlerAt(c, "register", "online")
    /\ open' = open \ {peers}
    /\ peers' = c
    /\ UNCHANGED <<online, agentUp, inbox, pending, channelVars, forwardVars,
                   agentVars, boundVars>>

(* An UPDATE of the column; its error is ignored.                          *)
WriteOnline(b) ==
    /\ \/ online' = b /\ UNCHANGED dbFailures
       \/ /\ dbFailures < DBFailures /\ dbFailures' = dbFailures + 1
          /\ UNCHANGED online
    /\ UNCHANGED restarts

SetOnline(c) ==
    /\ HandlerAt(c, "online", "reading")
    /\ WriteOnline(TRUE)
    /\ UNCHANGED <<peers, open, agentUp, inbox, pending, channelVars,
                   forwardVars, agentVars>>

(* Hub.Dispatch, to the request of the frame if it is still pending.  No   *)
(* send on a channel waits: a chunk that finds the buffer full is dropped. *)
DispatchToAny(c, f) ==         \* mutant: the frame's id is not looked up
    IF pending[c] = {} THEN UNCHANGED channelVars
    ELSE LET q == CHOOSE q \in pending[c] : TRUE IN
         /\ chunks' = IF f.type = "chunk" /\ Len(chunks[q]) < Capacity
                      THEN [chunks EXCEPT ![q] = Append(@, f)] ELSE chunks
         /\ done'  = IF f.type = "done" THEN done \cup {q} ELSE done
         /\ errCh' = IF f.type = "error" THEN errCh \cup {q} ELSE errCh
DispatchUnbounded(c, f) ==     \* mutant: the buffer takes any number of chunks
    LET q == f.req IN
    IF q \notin pending[c] THEN UNCHANGED channelVars
    ELSE /\ chunks' = IF f.type = "chunk"
                      THEN [chunks EXCEPT ![q] = Append(@, f)] ELSE chunks
         /\ done'  = IF f.type = "done" THEN done \cup {q} ELSE done
         /\ errCh' = IF f.type = "error" THEN errCh \cup {q} ELSE errCh
DispatchDoneInBuffer(c, f) ==  \* mutant: the end needs a place in the buffer
    LET q == f.req
        room == Len(chunks[q]) < Capacity IN
    IF q \notin pending[c] THEN UNCHANGED channelVars
    ELSE /\ chunks' = IF f.type = "chunk" /\ room
                      THEN [chunks EXCEPT ![q] = Append(@, f)] ELSE chunks
         /\ done'  = IF f.type = "done" /\ room THEN done \cup {q} ELSE done
         /\ errCh' = IF f.type = "error" THEN errCh \cup {q} ELSE errCh
Dispatch(c, f) ==
    LET q == f.req IN
    IF q \notin pending[c] THEN UNCHANGED channelVars
    ELSE /\ chunks' = IF f.type = "chunk" /\ Len(chunks[q]) < Capacity
                      THEN [chunks EXCEPT ![q] = Append(@, f)] ELSE chunks
         /\ done'  = IF f.type = "done" THEN done \cup {q} ELSE done
         /\ errCh' = IF f.type = "error" THEN errCh \cup {q} ELSE errCh

Read(c) ==
    /\ hpc[c] = "reading" /\ c \in open /\ inbox[c] # <<>>
    /\ Dispatch(c, Head(inbox[c]))
    /\ inbox' = [inbox EXCEPT ![c] = Tail(@)]
    /\ UNCHANGED <<hubVars, hpc, open, agentUp, pending, forwardVars,
                   agentVars, boundVars>>

(* Either end has gone; what the agent sent last may be lost.              *)
ReadFails(c) ==
    /\ c \notin open \/ c \notin agentUp
    /\ HandlerAt(c, "reading", "unregister")
    /\ inbox' = [inbox EXCEPT ![c] = <<>>]
    /\ UNCHANGED <<hubVars, open, agentUp, pending, channelVars, forwardVars,
                   agentVars, boundVars>>

(* The deferred function.  Hub.Unregister removes the peer's entry.        *)
Unregister(c) ==
    /\ HandlerAt(c, "unregister", "offline")
    /\ peers' = NoConn
    /\ UNCHANGED <<online, open, agentUp, inbox, pending, channelVars,
                   forwardVars, agentVars, boundVars>>

SetOfflineUnlessEvicted(c) ==  \* mutant: an evicted connection writes nothing
    /\ HandlerAt(c, "offline", "done")
    /\ WriteOnline(online /\ c \notin open)
    /\ UNCHANGED <<peers, open, agentUp, inbox, pending, channelVars,
                   forwardVars, agentVars>>
SetOffline(c) ==
    /\ HandlerAt(c, "offline", "done")
    /\ WriteOnline(FALSE)
    /\ UNCHANGED <<peers, open, agentUp, inbox, pending, channelVars,
                   forwardVars, agentVars>>

-----------------------------------------------------------------------------
(* Hub.Forward: one goroutine per request.                                 *)
ForwardAt(q, from, to) == rpc[q] = from /\ rpc' = [rpc EXCEPT ![q] = to]
End(q, how) == result' = [result EXCEPT ![q] = how]

Forward(q) ==
    /\ \/ /\ peers = NoConn
          /\ ForwardAt(q, "new", "returned")
          /\ End(q, "unavailable") /\ UNCHANGED via
       \/ /\ peers # NoConn
          /\ ForwardAt(q, "new", "insert")
          /\ via' = [via EXCEPT ![q] = peers] /\ UNCHANGED result
    /\ UNCHANGED <<hubVars, connVars, pending, channelVars, out, agentVars,
                   boundVars>>

Insert(q) ==
    /\ ForwardAt(q, "insert", "send")
    /\ pending' = [pending EXCEPT ![via[q]] = @ \cup {q}]
    /\ UNCHANGED <<hubVars, connVars, channelVars, via, out, result,
                   agentVars, boundVars>>

(* The write succeeds if the relay has not closed the connection, also     *)
(* when the agent's end is gone and nobody will read it; then it may fail. *)
Send(q) ==
    /\ \/ /\ via[q] \in open
          /\ ForwardAt(q, "send", "streaming")
          /\ asked' = IF via[q] \in agentUp THEN asked \cup {q} ELSE asked
       \/ /\ via[q] \notin open \/ via[q] \notin agentUp
          /\ ForwardAt(q, "send", "failed") /\ UNCHANGED asked
    /\ UNCHANGED <<hubVars, connVars, pending, channelVars, via, out, result,
                   answer, answered, refused, boundVars>>

(* select: any channel that is ready.                                      *)
StreamChunk(q) ==
    /\ chunks[q] # <<>>
    /\ chunks' = [chunks EXCEPT ![q] = Tail(@)]
    /\ \/ /\ out' = [out EXCEPT ![q] = Append(@, Head(chunks[q]))]
          /\ rpc[q] = "streaming" /\ UNCHANGED <<rpc, result>>
       \/ /\ ForwardAt(q, "streaming", "remove") /\ End(q, "clientGone")
          /\ UNCHANGED out
    /\ UNCHANGED <<hubVars, connVars, pending, done, errCh, via, agentVars,
                   boundVars>>

StreamDoneBreaks(q) ==         \* mutant: a break, which leaves only the select
    /\ q \in done
    /\ rpc[q] = "streaming" /\ result[q] = "none" /\ End(q, "ok")
    /\ UNCHANGED <<hubVars, connVars, pending, channelVars, rpc, via, out,
                   agentVars, boundVars>>
StreamDone(q) ==
    /\ q \in done
    /\ ForwardAt(q, "streaming", "remove") /\ End(q, "ok")
    /\ UNCHANGED <<hubVars, connVars, pending, channelVars, via, out,
                   agentVars, boundVars>>

StreamError(q) ==
    /\ q \in errCh
    /\ ForwardAt(q, "streaming", "cut")
    /\ UNCHANGED <<hubVars, connVars, pending, channelVars, via, out, result,
                   agentVars, boundVars>>

(* The deferred function; then ForwardToPeer looks at the error.  The      *)
(* response of a request whose frame could not be sent is 503.  After that *)
(* the Content-Type is set and the status is out, and the agent's error is *)
(* told to nobody: the response ends as it is, without [DONE].             *)
ToldAfter(q) == CASE rpc[q] = "failed" -> "unavailable"
                  [] rpc[q] = "cut" -> "cut"
                  [] OTHER -> result[q]

ForgetNever(q) ==              \* mutant: the request stays in the map
    /\ rpc[q] \in Deferring
    /\ rpc' = [rpc EXCEPT ![q] = "returned"] /\ End(q, ToldAfter(q))
    /\ UNCHANGED <<hubVars, connVars, pending, channelVars, via, out,
                   agentVars, boundVars>>
Forget(q) ==
    /\ rpc[q] \in Deferring
    /\ rpc' = [rpc EXCEPT ![q] = "returned"] /\ End(q, ToldAfter(q))
    /\ pending' = [pending EXCEPT ![via[q]] = @ \ {q}]
    /\ UNCHANGED <<hubVars, connVars, channelVars, via, out, agentVars,
                   boundVars>>

-----------------------------------------------------------------------------
(* The agent: one goroutine per request, which Ollama's answer drives.  A  *)
(* frame arrives if the connection is alive at both ends.                  *)
AgentSends(q, type, n) ==
    LET c == via[q] IN
    inbox' = IF c \in agentUp \cap open
             THEN [inbox EXCEPT ![c] = Append(@, [req |-> q, type |-> type,
                                                  n |-> n])]
             ELSE inbox

Answering(q) == q \in asked \ (answered \cup refused)

AgentError(q) ==
    /\ Answering(q) /\ answer[q] = 0
    /\ refused' = refused \cup {q}
    /\ AgentSends(q, "error", 0)
    /\ UNCHANGED <<hubVars, hpc, open, agentUp, pending, channelVars,
                   forwardVars, asked, answer, answered, boundVars>>

AgentChunk(q) ==
    /\ Answering(q) /\ answer[q] < Chunks
    /\ answer' = [answer EXCEPT ![q] = @ + 1]
    /\ AgentSends(q, "chunk", answer[q] + 1)
    /\ UNCHANGED <<hubVars, hpc, open, agentUp, pending, channelVars,
                   forwardVars, asked, answered, refused, boundVars>>

AgentDone(q) ==
    /\ Answering(q)
    /\ answered' = answered \cup {q}
    /\ AgentSends(q, "done", 0)
    /\ UNCHANGED <<hubVars, hpc, open, agentUp, pending, channelVars,
                   forwardVars, asked, answer, refused, boundVars>>

(* The agent's end goes: the process stops or panics (its goroutines write *)
(* to the connection without a mutex), it has read that the relay closed   *)
(* the connection, or the network is cut.  Frames under way may be lost.   *)
Drop(c) ==
    /\ c \in agentUp
    /\ agentUp' = agentUp \ {c}
    /\ UNCHANGED <<hubVars, hpc, open, inbox, pending, channelVars,
                   forwardVars, agentVars, boundVars>>

(* The control API's RotatePeerToken clears the column, too, and leaves    *)
(* the connection as it is.                                                *)
RotatePeerToken ==
    /\ online /\ online' = FALSE
    /\ UNCHANGED <<peers, connVars, pending, channelVars, forwardVars,
                   agentVars, boundVars>>

(* The relay's process: only the column survives.                          *)
Restart ==
    /\ restarts < Restarts /\ restarts' = restarts + 1
    /\ peers' = NoConn
    /\ hpc' = [c \in Conn |-> IF hpc[c] = "none" THEN "none" ELSE "done"]
    /\ open' = {} /\ agentUp' = {}
    /\ inbox' = [c \in Conn |-> <<>>]
    /\ pending' = [c \in Conn |-> {}]
    /\ rpc' = [q \in Req |-> IF rpc[q] = "new" THEN "new" ELSE "returned"]
    /\ result' = [q \in Req |-> IF rpc[q] # "new" /\ result[q] = "none"
                                THEN "restarted" ELSE result[q]]
    /\ UNCHANGED <<online, channelVars, via, out, agentVars, dbFailures>>

-----------------------------------------------------------------------------
HandlerStep(c) ==
    \/ Register(c) \/ SetOnline(c) \/ Read(c) \/ ReadFails(c)
    \/ Unregister(c) \/ SetOffline(c)
ForwardStep(q) ==
    \/ Insert(q) \/ Send(q) \/ Forget(q)
    \/ StreamChunk(q) \/ StreamDone(q) \/ StreamError(q)
AgentStep(q) == AgentError(q) \/ AgentChunk(q) \/ AgentDone(q)

Next ==
    \/ \E c \in Conn : Connect(c) \/ HandlerStep(c) \/ Drop(c)
    \/ \E q \in Req : Forward(q) \/ ForwardStep(q) \/ AgentStep(q)
    \/ RotatePeerToken \/ Restart

Spec == Init /\ [][Next]_vars

(* A goroutine that can take a step takes one in the end, and Ollama ends  *)
(* its answers.  Nobody has to connect, to ask, or to go away.             *)
Fairness ==
    /\ \A c \in Conn : WF_vars(HandlerStep(c))
    /\ \A q \in Req : WF_vars(ForwardStep(q)) /\ WF_vars(AgentStep(q))

FairSpec == Spec /\ Fairness

-----------------------------------------------------------------------------
(* The types; a request's buffer never holds more chunks than it may.      *)
HubTypeOK ==
    /\ peers \in Conn \cup {NoConn} /\ online \in BOOLEAN
    /\ hpc \in [Conn -> HandlerPC]
    /\ open \subseteq Conn /\ agentUp \subseteq Conn
    /\ pending \in [Conn -> SUBSET Req]
    /\ restarts \in 0..Restarts /\ dbFailures \in 0..DBFailures
ChannelTypeOK ==
    /\ inbox \in [Conn -> Seq(Frame)]
    /\ chunks \in [Req -> Seq(Frame)]
    /\ \A q \in Req : Len(chunks[q]) <= Capacity
    /\ done \subseteq Req /\ errCh \subseteq Req
    /\ out \in [Req -> Seq(Frame)]
ForwardTypeOK ==
    /\ rpc \in [Req -> ForwardPC] /\ via \in [Req -> Conn \cup {NoConn}]
    /\ \A q \in Req : rpc[q] \in {"insert", "send", "streaming"} \cup Deferring
                         => via[q] \in Conn
    /\ result \in [Req -> Result]
AgentTypeOK ==
    /\ asked \subseteq Req /\ answered \subseteq Req /\ refused \subseteq Req
    /\ answer \in [Req -> 0..Chunks]
TypeOK == HubTypeOK /\ ChannelTypeOK /\ ForwardTypeOK /\ AgentTypeOK

(* What a caller is sent are chunks of the answer to its own request, in   *)
(* the order the agent sent them, though a connection mixes the answers of *)
(* all its requests and chunks may be dropped on the way.                  *)
OwnFramesInOrder ==
    \A q \in Req : \A i \in DOMAIN out[q] :
        /\ out[q][i].req = q /\ out[q][i].n \in 1..answer[q]
        /\ \A j \in 1..(i-1) : out[q][j].n < out[q][i].n

(* A response ends with [DONE] only when the agent has ended that answer;  *)
(* it is 503 only when the agent never got the request; and it is complete *)
(* as HTTP, but without [DONE], only when the agent refused the request.   *)
(* No run checks this apart: it follows from ImplementsAnswers.            *)
HonestResult ==
    \A q \in Req :
        /\ result[q] = "ok" => q \in answered
        /\ result[q] = "unavailable" => q \notin asked
        /\ result[q] = "cut" => q \in refused

(* A caller sees of its answer what RelayedAnswer allows, whatever becomes  *)
(* of connections, buffers and the other answers: its response ends once,  *)
(* in a way that is true of the answer, and no chunk comes twice, late, or *)
(* from a connection's leftovers.                                          *)
Answers == INSTANCE RelayedAnswer
    WITH state <- [q \in Req |-> IF q \in answered THEN "done"
                                 ELSE IF q \in refused THEN "refused"
                                 ELSE IF q \in asked THEN "open" ELSE "none"],
         produced <- answer,
         got <- [q \in Req |-> [i \in DOMAIN out[q] |-> out[q][i].n]],
         ending <- result
ImplementsAnswers == Answers!AnswerSpec

(* A request is in the pending map of the connection it uses, and only     *)
(* while Forward runs: the map does not grow with the requests served.     *)
NoLeakedRequest ==
    \A c \in Conn : \A q \in pending[c] :
        via[q] = c /\ rpc[q] \in {"send", "streaming"} \cup Deferring

(* However the handlers of replaced connections interleave, neither the    *)
(* hub's entry nor the column outlives them: an entry is of a connection   *)
(* that has not unregistered, and a peer that reads online has a handler   *)
(* that has yet to clear the column.  (A restart of the relay and a lost   *)
(* UPDATE do leave the column behind.)                                     *)
NothingLeftBehind ==
    /\ peers # NoConn => hpc[peers] \in {"online", "reading", "unregister"}
    /\ online /\ restarts = 0 /\ dbFailures = 0 =>
          \E c \in Conn : hpc[c] \in {"reading", "unregister", "offline"}

(* A request whose connection stays up comes to an end, however full its   *)
(* buffer of chunks has been.                                              *)
StreamsEnd ==
    \A q \in Req :
        rpc[q] = "streaming" ~>
            rpc[q] = "returned" \/ via[q] \notin open \cap agentUp

-----------------------------------------------------------------------------
(* What the design says and the code does not do.                          *)

(* "Mid-stream peer disconnect: Relay sends SSE [...] and closes response  *)
(* cleanly; no hung connections", of a request the agent has received.     *)
NoHungRequests ==
    \A q \in Req :
        rpc[q] = "streaming" /\ q \in asked ~> rpc[q] = "returned"
=============================================================================
