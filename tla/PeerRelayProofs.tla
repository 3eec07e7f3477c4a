-------------------------- MODULE PeerRelayProofs ---------------------------
(***************************************************************************)
(* PeerRelay: the types, and its safety invariants, for any connections,   *)
(* requests, buffers and numbers of restarts and failures.                 *)
(***************************************************************************)
EXTENDS PeerRelay, SequenceTheorems, TLAPS

-----------------------------------------------------------------------------
(* The types.                                                              *)
LEMMA RelayInit == Init => TypeOK
<1> SUFFICES ASSUME Init PROVE TypeOK
    OBVIOUS
<1> USE RelayAssumption DEF Init
<1>1. HubTypeOK
      <2>1. online \in BOOLEAN
            BY ZenonT(10)
      <2>2. restarts \in 0..Restarts /\ dbFailures \in 0..DBFailures
            OBVIOUS
      <2> QED BY <2>1, <2>2 DEF HubTypeOK, HandlerPC
<1>2. ChannelTypeOK
      <2>1. << >> \in Seq(Frame) /\ Len(<< >>) = 0
            BY EmptySeq
      <2> QED BY <2>1 DEF ChannelTypeOK
<1>3. ForwardTypeOK
      BY DEF ForwardTypeOK, Deferring, ForwardPC, Result
<1>4. AgentTypeOK
      BY DEF AgentTypeOK
<1> QED BY <1>1, <1>2, <1>3, <1>4 DEF TypeOK

(* Dispatch changes the three channels only, and keeps their types.        *)
LEMMA DispatchTypes ==
    ASSUME TypeOK, NEW c \in Conn, NEW f \in Frame, Dispatch(c, f)
    PROVE  /\ chunks' \in [Req -> Seq(Frame)]
           /\ \A q \in Req : Len(chunks'[q]) <= Capacity
           /\ done' \subseteq Req /\ errCh' \subseteq Req
<1> DEFINE q == f.req
<1>0. /\ q \in Req /\ chunks[q] \in Seq(Frame) /\ chunks \in [Req -> Seq(Frame)]
      /\ \A r \in Req : Len(chunks[r]) <= Capacity
      /\ done \subseteq Req /\ errCh \subseteq Req /\ Capacity \in Nat
      BY RelayAssumption DEF TypeOK, ChannelTypeOK, Frame
<1>1. CASE q \notin pending[c]
      BY <1>0, <1>1 DEF Dispatch, channelVars
<1>2. CASE q \in pending[c]
      <2>1. done' \subseteq Req /\ errCh' \subseteq Req
            BY <1>0, <1>2 DEF Dispatch
      <2>2. CASE f.type = "chunk" /\ Len(chunks[q]) < Capacity
            <3>1. chunks' = [chunks EXCEPT ![q] = Append(chunks[q], f)]
                  BY <1>2, <2>2 DEF Dispatch
            <3>2. /\ Append(chunks[q], f) \in Seq(Frame)
                  /\ Len(Append(chunks[q], f)) = Len(chunks[q]) + 1
                  /\ Len(chunks[q]) \in Nat
                  BY <1>0, AppendProperties, LenProperties
            <3> HIDE DEF q
            <3>3. chunks' \in [Req -> Seq(Frame)]
                  BY <1>0, <3>1, <3>2
            <3>4. Len(Append(chunks[q], f)) <= Capacity
                  BY <1>0, <2>2, <3>2 DEF q
            <3>5. \A r \in Req : Len(chunks'[r]) <= Capacity
                  BY <1>0, <3>1, <3>4
            <3> QED BY <2>1, <3>3, <3>5
      <2>3. CASE ~(f.type = "chunk" /\ Len(chunks[q]) < Capacity)
            <3>1. chunks' = chunks
                  BY <1>2, <2>3 DEF Dispatch
            <3> QED BY <1>0, <2>1, <3>1
      <2> QED BY <2>2, <2>3
<1> QED BY <1>1, <1>2

LEMMA RelayTypesStep == TypeOK /\ [Next]_vars => TypeOK'
<1> SUFFICES ASSUME TypeOK, [Next]_vars PROVE TypeOK'
    OBVIOUS
<1> USE DEF TypeOK, HubTypeOK, ChannelTypeOK, ForwardTypeOK, AgentTypeOK, Deferring, hubVars, connVars, channelVars, forwardVars, agentVars,
            boundVars, HandlerAt, ForwardAt, End
<1>1. ASSUME NEW c \in Conn, Connect(c) PROVE TypeOK'
      BY <1>1 DEF Connect, HandlerPC
<1>2. ASSUME NEW c \in Conn, Register(c) PROVE TypeOK'
      BY <1>2 DEF Register, HandlerPC
<1>3. ASSUME NEW c \in Conn, SetOnline(c) PROVE TypeOK'
      <2> USE <1>3, RelayAssumption DEF SetOnline, WriteOnline, HandlerPC
      <2>1. HubTypeOK'
            <3>1. online' \in BOOLEAN
                  OBVIOUS
            <3>2. dbFailures' \in 0..DBFailures /\ restarts' = restarts
                  OBVIOUS
            <3>3. hpc' \in [Conn -> HandlerPC]
                  OBVIOUS
            <3> QED BY <3>1, <3>2, <3>3
      <2>2. ChannelTypeOK'
            OBVIOUS
      <2>3. ForwardTypeOK'
            OBVIOUS
      <2>4. AgentTypeOK'
            OBVIOUS
      <2> QED BY <2>1, <2>2, <2>3, <2>4
<1>4. ASSUME NEW c \in Conn, Read(c) PROVE TypeOK'
      <2>1. Head(inbox[c]) \in Frame /\ Tail(inbox[c]) \in Seq(Frame)
            BY <1>4, HeadTailProperties DEF Read
      <2>2. /\ chunks' \in [Req -> Seq(Frame)]
            /\ \A q \in Req : Len(chunks'[q]) <= Capacity
            /\ done' \subseteq Req /\ errCh' \subseteq Req
            BY <1>4, <2>1, DispatchTypes DEF Read
      <2>3. inbox' \in [Conn -> Seq(Frame)]
            BY <1>4, <2>1 DEF Read
      <2> QED BY <1>4, <2>2, <2>3 DEF Read
<1>5. ASSUME NEW c \in Conn, ReadFails(c) PROVE TypeOK'
      BY <1>5 DEF ReadFails, HandlerPC
<1>6. ASSUME NEW c \in Conn, Unregister(c) PROVE TypeOK'
      BY <1>6 DEF Unregister, HandlerPC
<1>7. ASSUME NEW c \in Conn, SetOffline(c) PROVE TypeOK'
      <2> USE <1>7, RelayAssumption DEF SetOffline, WriteOnline, HandlerPC
      <2>1. HubTypeOK'
            <3>1. online' \in BOOLEAN
                  OBVIOUS
            <3>2. dbFailures' \in 0..DBFailures /\ restarts' = restarts
                  OBVIOUS
            <3>3. hpc' \in [Conn -> HandlerPC]
                  OBVIOUS
            <3> QED BY <3>1, <3>2, <3>3
      <2>2. ChannelTypeOK'
            OBVIOUS
      <2>3. ForwardTypeOK'
            OBVIOUS
      <2>4. AgentTypeOK'
            OBVIOUS
      <2> QED BY <2>1, <2>2, <2>3, <2>4
<1>8. ASSUME NEW c \in Conn, Drop(c) PROVE TypeOK'
      BY <1>8 DEF Drop
<1>9. ASSUME NEW q \in Req, Forward(q) PROVE TypeOK'
      <2> USE <1>9 DEF Forward, ForwardPC, Result
      <2>1. HubTypeOK'
            OBVIOUS
      <2>2. ChannelTypeOK'
            OBVIOUS
      <2>3. ForwardTypeOK'
            <3>0. via' \in [Req -> Conn \cup {NoConn}]
                  OBVIOUS
            <3>1. rpc' \in [Req -> ForwardPC]
                  OBVIOUS
            <3>2. result' \in [Req -> Result]
                  OBVIOUS
            <3>3. \A r \in Req : rpc'[r] \in {"insert", "send", "streaming"} \cup Deferring
                                 => via'[r] \in Conn
                  OBVIOUS
            <3> QED BY <3>0, <3>1, <3>2, <3>3
      <2>4. AgentTypeOK'
            OBVIOUS
      <2> QED BY <2>1, <2>2, <2>3, <2>4
<1>10. ASSUME NEW q \in Req, Insert(q) PROVE TypeOK'
      BY <1>10 DEF Insert, ForwardPC
<1>11. ASSUME NEW q \in Req, Send(q) PROVE TypeOK'
      <2> USE <1>11 DEF Send, ForwardPC, Result
      <2>1. HubTypeOK'
            OBVIOUS
      <2>2. ChannelTypeOK'
            OBVIOUS
      <2>3. ForwardTypeOK'
            <3>0. via' \in [Req -> Conn \cup {NoConn}]
                  OBVIOUS
            <3>1. rpc' \in [Req -> ForwardPC]
                  OBVIOUS
            <3>2. result' \in [Req -> Result]
                  OBVIOUS
            <3>3. \A r \in Req : rpc'[r] \in {"insert", "send", "streaming"} \cup Deferring
                                 => via'[r] \in Conn
                  OBVIOUS
            <3> QED BY <3>0, <3>1, <3>2, <3>3
      <2>4. AgentTypeOK'
            OBVIOUS
      <2> QED BY <2>1, <2>2, <2>3, <2>4
<1>12. ASSUME NEW q \in Req, StreamChunk(q) PROVE TypeOK'
      <2>1. /\ Head(chunks[q]) \in Frame /\ Tail(chunks[q]) \in Seq(Frame)
            /\ Len(Tail(chunks[q])) <= Capacity
            BY <1>12, HeadTailProperties, LenProperties, RelayAssumption
            DEF StreamChunk
      <2>2. chunks' \in [Req -> Seq(Frame)]
            BY <1>12, <2>1 DEF StreamChunk
      <2>3. \A r \in Req : Len(chunks'[r]) <= Capacity
            BY <1>12, <2>1 DEF StreamChunk
      <2>4. out' \in [Req -> Seq(Frame)]
            <3>1. Append(out[q], Head(chunks[q])) \in Seq(Frame)
                  BY <2>1, AppendProperties
            <3> QED BY <1>12, <3>1 DEF StreamChunk
      <2>5. /\ rpc' \in [Req -> ForwardPC] /\ result' \in [Req -> Result]
            /\ \A r \in Req : rpc'[r] \in {"insert", "send", "streaming"} \cup Deferring
                                 => via[r] \in Conn
            BY <1>12 DEF StreamChunk, ForwardPC, Result
      <2> QED BY <1>12, <2>2, <2>3, <2>4, <2>5 DEF StreamChunk
<1>13. ASSUME NEW q \in Req, StreamDone(q) \/ StreamError(q) PROVE TypeOK'
      <2> USE <1>13 DEF StreamDone, StreamError, ForwardPC, Result
      <2>1. HubTypeOK'
            OBVIOUS
      <2>2. ChannelTypeOK'
            OBVIOUS
      <2>3. ForwardTypeOK'
            <3>0. via' \in [Req -> Conn \cup {NoConn}]
                  OBVIOUS
            <3>1. rpc' \in [Req -> ForwardPC]
                  OBVIOUS
            <3>2. result' \in [Req -> Result]
                  OBVIOUS
            <3>3. \A r \in Req : rpc'[r] \in {"insert", "send", "streaming"} \cup Deferring
                                 => via'[r] \in Conn
                  OBVIOUS
            <3> QED BY <3>0, <3>1, <3>2, <3>3
      <2>4. AgentTypeOK'
            OBVIOUS
      <2> QED BY <2>1, <2>2, <2>3, <2>4
<1>14. ASSUME NEW q \in Req, Forget(q) PROVE TypeOK'
      <2>1. ToldAfter(q) \in Result
            BY DEF ToldAfter, Result
      <2> HIDE DEF ToldAfter, Result
      <2>2. result' \in [Req -> Result] /\ rpc' \in [Req -> ForwardPC]
            BY <1>14, <2>1 DEF Forget, ForwardPC
      <2> QED BY <1>14, <2>2 DEF Forget
<1>15. ASSUME NEW q \in Req, NEW type \in {"chunk", "done", "error"},
              NEW n \in 0..Chunks, AgentSends(q, type, n)
       PROVE  inbox' \in [Conn -> Seq(Frame)]
      <2> DEFINE f == [req |-> q, type |-> type, n |-> n]
      <2>1. f \in Frame
            BY DEF Frame
      <2>2. \A d \in Conn : Append(inbox[d], f) \in Seq(Frame)
            BY <2>1, AppendProperties
      <2> HIDE DEF f
      <2> QED BY <1>15, <2>2 DEF AgentSends, f
<1>16. ASSUME NEW q \in Req, AgentError(q) PROVE TypeOK'
      <2>1. inbox' \in [Conn -> Seq(Frame)]
            BY <1>15, <1>16, RelayAssumption DEF AgentError
      <2> QED BY <1>16, <2>1 DEF AgentError
<1>17. ASSUME NEW q \in Req, AgentChunk(q) PROVE TypeOK'
      <2>1. answer[q] + 1 \in 0..Chunks
            BY <1>17, RelayAssumption DEF AgentChunk
      <2>2. inbox' \in [Conn -> Seq(Frame)]
            BY <1>15, <1>17, <2>1 DEF AgentChunk
      <2> QED BY <1>17, <2>1, <2>2 DEF AgentChunk
<1>18. ASSUME NEW q \in Req, AgentDone(q) PROVE TypeOK'
      <2>1. inbox' \in [Conn -> Seq(Frame)]
            BY <1>15, <1>18, RelayAssumption DEF AgentDone
      <2> QED BY <1>18, <2>1 DEF AgentDone
<1>19. ASSUME Restart PROVE TypeOK'
      BY <1>19, RelayAssumption DEF Restart, HandlerPC, ForwardPC, Result
<1>21. ASSUME RotatePeerToken PROVE TypeOK'
      BY <1>21 DEF RotatePeerToken
<1>20. CASE UNCHANGED vars
      BY <1>20 DEF vars
<1> QED BY <1>1, <1>2, <1>3, <1>4, <1>5, <1>6, <1>7, <1>8, <1>9, <1>10, <1>11,
           <1>12, <1>13, <1>14, <1>16, <1>17, <1>18, <1>19, <1>20, <1>21
        DEF Next, HandlerStep, ForwardStep, AgentStep

(* The types, and a buffer that holds no more chunks than it may, are      *)
(* invariant (hub.go:156).                                                 *)
THEOREM RelayTypeCorrect == Spec => []TypeOK
BY RelayInit, RelayTypesStep, PTL DEF Spec

-----------------------------------------------------------------------------
(* Nothing leaks.                                                          *)
LeakTypes == HubTypeOK /\ ForwardTypeOK
NothingLeaks == NoLeakedRequest /\ NothingLeftBehind

LEMMA NothingLeaksInit == Init => NothingLeaks
BY DEF Init, NothingLeaks, NoLeakedRequest, NothingLeftBehind

(* NoLeakedRequest: a request is in the map from Insert to Forget only.    *)
LEMMA NoLeakStep == LeakTypes /\ NoLeakedRequest /\ [Next]_vars => NoLeakedRequest'
<1> SUFFICES ASSUME LeakTypes, NoLeakedRequest, [Next]_vars
             PROVE  NoLeakedRequest'
    OBVIOUS
<1> USE DEF NoLeakedRequest, Deferring, LeakTypes, HubTypeOK, ForwardTypeOK, hubVars, connVars,
            forwardVars, ForwardAt
<1>1. ASSUME UNCHANGED <<pending, via, rpc>> PROVE NoLeakedRequest'
      BY <1>1
<1>2. ASSUME NEW c \in Conn, Connect(c) \/ HandlerStep(c) \/ Drop(c)
      PROVE  NoLeakedRequest'
      BY <1>1, <1>2 DEF Connect, HandlerStep, Register, SetOnline, Read, ReadFails,
                        Unregister, SetOffline, Drop
<1>3. ASSUME NEW q \in Req, AgentStep(q) PROVE NoLeakedRequest'
      BY <1>1, <1>3 DEF AgentStep, AgentError, AgentChunk, AgentDone
<1>4. ASSUME NEW q \in Req, Forward(q) PROVE NoLeakedRequest'
      BY <1>4 DEF Forward
<1>5. ASSUME NEW q \in Req, Insert(q) PROVE NoLeakedRequest'
      BY <1>5 DEF Insert
<1>6. ASSUME NEW q \in Req, Send(q) PROVE NoLeakedRequest'
      BY <1>6 DEF Send
<1>7. ASSUME NEW q \in Req, StreamChunk(q) \/ StreamDone(q) \/ StreamError(q)
      PROVE  NoLeakedRequest'
      BY <1>7 DEF StreamChunk, StreamDone, StreamError
<1>8. ASSUME NEW q \in Req, Forget(q) PROVE NoLeakedRequest'
      BY <1>8 DEF Forget
<1>9. ASSUME Restart \/ RotatePeerToken PROVE NoLeakedRequest'
      BY <1>9 DEF Restart, RotatePeerToken
<1>10. CASE UNCHANGED vars
      BY <1>1, <1>10 DEF vars
<1> QED BY <1>2, <1>3, <1>4, <1>5, <1>6, <1>7, <1>8, <1>9, <1>10
        DEF Next, ForwardStep

(* NothingLeftBehind: who registers unregisters before it ends, and who    *)
(* sets the column has yet to clear it.                                    *)
LEMMA LeftBehindStep ==
    HubTypeOK /\ NothingLeftBehind /\ [Next]_vars => NothingLeftBehind'
<1> SUFFICES ASSUME HubTypeOK, NothingLeftBehind, [Next]_vars
             PROVE  NothingLeftBehind'
    OBVIOUS
<1> USE RelayAssumption DEF NothingLeftBehind, HubTypeOK, hubVars, connVars,
            boundVars, HandlerAt
<1>1. ASSUME UNCHANGED <<hubVars, hpc, boundVars>> PROVE NothingLeftBehind'
      BY <1>1
<1>2. ASSUME NEW c \in Conn, Connect(c) PROVE NothingLeftBehind'
      BY <1>2 DEF Connect
<1>3. ASSUME NEW c \in Conn, Register(c) PROVE NothingLeftBehind'
      BY <1>3 DEF Register
<1>4. ASSUME NEW c \in Conn, SetOnline(c) PROVE NothingLeftBehind'
      BY <1>4 DEF SetOnline, WriteOnline
<1>5. ASSUME NEW c \in Conn, ReadFails(c) PROVE NothingLeftBehind'
      BY <1>5 DEF ReadFails
<1>6. ASSUME NEW c \in Conn, Unregister(c) PROVE NothingLeftBehind'
      BY <1>6 DEF Unregister
<1>7. ASSUME NEW c \in Conn, SetOffline(c) PROVE NothingLeftBehind'
      BY <1>7 DEF SetOffline, WriteOnline
<1>8. ASSUME Restart \/ RotatePeerToken PROVE NothingLeftBehind'
      BY <1>8 DEF Restart, RotatePeerToken
<1>9. ASSUME NEW c \in Conn, Read(c) \/ Drop(c) PROVE NothingLeftBehind'
      BY <1>1, <1>9 DEF Read, Drop
<1>10. ASSUME NEW q \in Req, Forward(q) \/ ForwardStep(q) \/ AgentStep(q)
       PROVE  NothingLeftBehind'
      BY <1>1, <1>10 DEF Forward, ForwardStep, Insert, Send, StreamChunk, StreamDone,
          StreamError, Forget, AgentStep, AgentError, AgentChunk, AgentDone
<1>11. CASE UNCHANGED vars
      BY <1>1, <1>11 DEF vars
<1> QED BY <1>2, <1>3, <1>4, <1>5, <1>6, <1>7, <1>8, <1>9, <1>10, <1>11
        DEF Next, HandlerStep

(* The pending map does not grow with the requests served, and neither the *)
(* hub's entry nor the column outlives the handlers (hub.go:82,            *)
(* handler.go:107), in whatever order the handlers of replaced connections *)
(* run.                                                                    *)
THEOREM RelayNoLeak == Spec => []NoLeakedRequest
<1>1. TypeOK /\ NoLeakedRequest /\ [Next]_vars => NoLeakedRequest'
      BY NoLeakStep DEF TypeOK, LeakTypes
<1> QED BY <1>1, RelayInit, RelayTypesStep, NothingLeaksInit, PTL
        DEF Spec, NothingLeaks

THEOREM RelayCleansUp == Spec => []NothingLeftBehind
<1>1. TypeOK /\ NothingLeftBehind /\ [Next]_vars => NothingLeftBehind'
      BY LeftBehindStep DEF TypeOK
<1> QED BY <1>1, RelayInit, RelayTypesStep, NothingLeaksInit, PTL
        DEF Spec, NothingLeaks

-----------------------------------------------------------------------------
(* The order of frames: chunks of one answer are never swapped.            *)
Precedes(f, g) ==
    f.type = "chunk" /\ g.type = "chunk" /\ f.req = g.req => f.n < g.n
AllBefore(s, g) == \A i \in 1..Len(s) : Precedes(s[i], g)
BeforeAll(f, s) == \A i \in 1..Len(s) : Precedes(f, s[i])
InOrder(s) == \A i, j \in 1..Len(s) : i < j => Precedes(s[i], s[j])
Before(s, t) == \A i \in 1..Len(s), j \in 1..Len(t) : Precedes(s[i], t[j])

LEMMA AppendOrder ==
    ASSUME NEW s \in Seq(Frame), NEW f \in Frame
    PROVE  /\ InOrder(s) /\ AllBefore(s, f) => InOrder(Append(s, f))
           /\ \A t \in Seq(Frame) :
                /\ Before(s, t) /\ BeforeAll(f, t) => Before(Append(s, f), t)
                /\ Before(t, s) /\ AllBefore(t, f) => Before(t, Append(s, f))
           /\ \A g \in Frame : AllBefore(s, g) /\ Precedes(f, g)
                                 => AllBefore(Append(s, f), g)
<1>1. /\ Len(Append(s, f)) = Len(s) + 1 /\ Len(s) \in Nat
      /\ \A i \in 1..Len(s) : Append(s, f)[i] = s[i]
      /\ Append(s, f)[Len(s) + 1] = f
      BY AppendProperties, LenProperties
<1>2. \A i \in 1..Len(Append(s, f)) :
        \/ i \in 1..Len(s) /\ Append(s, f)[i] = s[i]
        \/ i = Len(s) + 1 /\ Append(s, f)[i] = f
      BY <1>1
<1>3. InOrder(s) /\ AllBefore(s, f) => InOrder(Append(s, f))
      <2> SUFFICES ASSUME InOrder(s), AllBefore(s, f),
                          NEW i \in 1..Len(Append(s, f)),
                          NEW j \in 1..Len(Append(s, f)), i < j
                   PROVE  Precedes(Append(s, f)[i], Append(s, f)[j])
          BY DEF InOrder
      <2>1. i \in 1..Len(s) /\ Append(s, f)[i] = s[i]
            BY <1>1, <1>2
      <2> QED BY <1>2, <2>1 DEF InOrder, AllBefore
<1>4. ASSUME NEW t \in Seq(Frame)
      PROVE  /\ Before(s, t) /\ BeforeAll(f, t) => Before(Append(s, f), t)
             /\ Before(t, s) /\ AllBefore(t, f) => Before(t, Append(s, f))
      BY <1>2 DEF Before, BeforeAll, AllBefore
<1>5. ASSUME NEW g \in Frame
      PROVE  AllBefore(s, g) /\ Precedes(f, g) => AllBefore(Append(s, f), g)
      BY <1>2 DEF AllBefore
<1> QED BY <1>3, <1>4, <1>5

LEMMA TailOrder ==
    ASSUME NEW s \in Seq(Frame), s # << >>
    PROVE  /\ InOrder(s) => InOrder(Tail(s)) /\ BeforeAll(Head(s), Tail(s))
           /\ \A t \in Seq(Frame) :
                /\ Before(s, t) => Before(Tail(s), t) /\ BeforeAll(Head(s), t)
                /\ Before(t, s) => Before(t, Tail(s)) /\ AllBefore(t, Head(s))
<1>1. /\ Len(Tail(s)) = Len(s) - 1 /\ Len(s) \in Nat /\ Len(Tail(s)) \in Nat
      /\ \A i \in 1..Len(Tail(s)) : Tail(s)[i] = s[i + 1]
      BY HeadTailProperties, LenProperties
<1>2. Head(s) = s[1] /\ 1 \in 1..Len(s)
      BY <1>1
<1>3. \A i \in 1..Len(Tail(s)) :
        i + 1 \in 1..Len(s) /\ 1 < i + 1 /\ Tail(s)[i] = s[i + 1]
      BY <1>1
<1>4. InOrder(s) => InOrder(Tail(s))
      <2> SUFFICES ASSUME InOrder(s), NEW i \in 1..Len(Tail(s)),
                          NEW j \in 1..Len(Tail(s)), i < j
                   PROVE  Precedes(Tail(s)[i], Tail(s)[j])
          BY DEF InOrder
      <2>1. i + 1 < j + 1
            OBVIOUS
      <2> QED BY <1>3, <2>1 DEF InOrder
<1>5. InOrder(s) => BeforeAll(Head(s), Tail(s))
      BY <1>2, <1>3 DEF InOrder, BeforeAll
<1>6. ASSUME NEW t \in Seq(Frame)
      PROVE  /\ Before(s, t) => Before(Tail(s), t) /\ BeforeAll(Head(s), t)
             /\ Before(t, s) => Before(t, Tail(s)) /\ AllBefore(t, Head(s))
      BY <1>2, <1>3 DEF Before, BeforeAll, AllBefore
<1> QED BY <1>4, <1>5, <1>6

-----------------------------------------------------------------------------
(* Whose frames they are: a frame is of the answer to a request that uses  *)
(* the connection it is on, and an end in it is an end of that answer.     *)
Sound ==
    {f \in Frame : /\ f.req \in asked
                   /\ f.type = "chunk" => f.n \in 1..answer[f.req]
                   /\ f.type = "done" => f.req \in answered
                   /\ f.type = "error" => f.req \in refused}
SoundFrom(c) == {f \in Sound : via[f.req] = c}
SoundChunks(q) == {f \in Sound : f.type = "chunk" /\ f.req = q}

Owned ==
    /\ \A c \in Conn : inbox[c] \in Seq(SoundFrom(c))
    /\ \A q \in Req : /\ chunks[q] \in Seq(SoundChunks(q))
                      /\ out[q] \in Seq(SoundChunks(q))
    /\ done \subseteq answered /\ errCh \subseteq refused

(* What the caller has been sent comes before what is in the buffer, and   *)
(* that before what is still on a connection.                              *)
Ordered ==
    /\ \A c \in Conn : InOrder(inbox[c])
    /\ \A q \in Req :
        /\ InOrder(chunks[q]) /\ InOrder(out[q]) /\ Before(out[q], chunks[q])
        /\ \A c \in Conn : Before(chunks[q], inbox[c]) /\ Before(out[q], inbox[c])

(* A request is asked once it has been sent, and its response ends later;  *)
(* where the deferred function has yet to run, how it will end is known.   *)
Fates ==
    \A q \in Req :
        /\ q \in asked => rpc[q] \notin {"new", "insert", "send"}
        /\ rpc[q] \notin {"remove", "returned"} => result[q] = "none"
        /\ rpc[q] = "failed" => q \notin asked
        /\ rpc[q] = "cut" => q \in refused
        /\ result[q] = "ok" => q \in answered
        /\ result[q] = "unavailable" => q \notin asked /\ rpc[q] = "returned"
        /\ result[q] = "cut" => q \in refused

Streams == Owned /\ Ordered /\ Fates

LEMMA StreamsInit == Init => Streams
<1> SUFFICES ASSUME Init PROVE Streams
    OBVIOUS
<1>1. Len(<< >>) = 0 /\ \A S : << >> \in Seq(S)
      BY EmptySeq
<1>2. Owned
      BY <1>1 DEF Init, Owned
<1>3. Ordered
      BY <1>1 DEF Init, Ordered, InOrder, Before
<1>4. Fates
      BY DEF Init, Fates
<1> QED BY <1>2, <1>3, <1>4 DEF Streams

(* Answers and asked requests only grow, and a request that has been asked *)
(* keeps its connection; so a frame that was sound stays so.               *)
Grows ==
    /\ asked \subseteq asked' /\ answered \subseteq answered'
    /\ refused \subseteq refused'
    /\ \A q \in Req : answer'[q] \in 0..Chunks /\ answer[q] <= answer'[q]
    /\ \A q \in asked : via'[q] = via[q]

LEMMA SoundGrows ==
    ASSUME TypeOK, Grows
    PROVE  /\ \A c \in Conn : SoundFrom(c) \subseteq SoundFrom(c)'
           /\ \A q \in Req : SoundChunks(q) \subseteq SoundChunks(q)'
<1>1. ASSUME NEW f \in Sound PROVE f \in Sound' /\ via'[f.req] = via[f.req]
      <2>1. /\ f.req \in Req /\ answer[f.req] \in Nat
            /\ answer'[f.req] \in Nat /\ f.n \in Nat
            BY RelayAssumption DEF TypeOK, AgentTypeOK, Frame, Grows, Sound
      <2> QED BY <2>1 DEF Sound, Grows
<1> QED BY <1>1 DEF SoundFrom, SoundChunks

LEMMA OwnedGrows ==
    ASSUME TypeOK, Owned, Grows
    PROVE  /\ \A c \in Conn : inbox[c] \in Seq(SoundFrom(c)')
           /\ \A q \in Req : /\ chunks[q] \in Seq(SoundChunks(q)')
                             /\ out[q] \in Seq(SoundChunks(q)')
           /\ done \subseteq answered' /\ errCh \subseteq refused'
<1>1. ASSUME NEW c \in Conn PROVE inbox[c] \in Seq(SoundFrom(c)')
      BY SoundGrows, SeqMonotonic DEF Owned
<1>2. ASSUME NEW q \in Req
      PROVE  /\ chunks[q] \in Seq(SoundChunks(q)')
             /\ out[q] \in Seq(SoundChunks(q)')
      BY SoundGrows, SeqMonotonic DEF Owned
<1> QED BY <1>1, <1>2 DEF Owned, Grows

LEMMA FramesUnchanged ==
    ASSUME TypeOK, Owned, Ordered, Grows,
           UNCHANGED <<inbox, chunks, done, errCh, out>>
    PROVE  Owned' /\ Ordered'
BY OwnedGrows DEF Owned, Ordered

-----------------------------------------------------------------------------
(* The agent sends a frame: it comes after all others of its answer.       *)
LEMMA SendOrdered ==
    ASSUME TypeOK, Owned, Ordered, NEW q \in Req,
           NEW type \in {"chunk", "done", "error"}, NEW n \in 0..Chunks,
           type = "chunk" => n = answer[q] + 1,
           AgentSends(q, type, n), UNCHANGED <<chunks, out>>
    PROVE  Ordered'
<1> DEFINE f == [req |-> q, type |-> type, n |-> n]
           c == via[q]
<1>1. /\ f \in Frame /\ f.req = q /\ f.type = type /\ f.n = n
      /\ answer[q] \in Nat
      BY RelayAssumption DEF Frame, TypeOK, AgentTypeOK
<1>2. CASE ~(c \in agentUp \cap open)
      BY <1>2 DEF AgentSends, Ordered
<1>3. CASE c \in agentUp \cap open
      <2>1. /\ c \in Conn /\ inbox \in [Conn -> Seq(Frame)]
            /\ chunks \in [Req -> Seq(Frame)] /\ out \in [Req -> Seq(Frame)]
            BY <1>3 DEF TypeOK, HubTypeOK, ChannelTypeOK
      <2>2. inbox' = [inbox EXCEPT ![c] = Append(inbox[c], f)]
            BY <1>3 DEF AgentSends
      <2>3. \A g \in Sound : Precedes(g, f)
            BY <1>1 DEF Sound, Precedes
      <2> HIDE DEF f, c
      <2>4. ASSUME NEW S, S \subseteq Sound, NEW s \in Seq(S) PROVE AllBefore(s, f)
            BY <2>3, <2>4, ElementOfSeq DEF AllBefore
      <2>5. AllBefore(inbox[c], f)
            BY <2>1, <2>4 DEF Owned, SoundFrom
      <2>6. \A r \in Req : AllBefore(chunks[r], f) /\ AllBefore(out[r], f)
            BY <2>4 DEF Owned, SoundChunks
      <2>7. InOrder(Append(inbox[c], f))
            BY <1>1, <2>1, <2>5, AppendOrder DEF Ordered
      <2>8. \A r \in Req : /\ Before(chunks[r], Append(inbox[c], f))
                           /\ Before(out[r], Append(inbox[c], f))
            BY <1>1, <2>1, <2>6, AppendOrder DEF Ordered
      <2>9. \A d \in Conn : inbox'[d] = IF d = c THEN Append(inbox[c], f) ELSE inbox[d]
            BY <2>1, <2>2
      <2> QED BY <2>7, <2>8, <2>9 DEF Ordered
<1> QED BY <1>2, <1>3

LEMMA SendOwned ==
    ASSUME TypeOK, Owned, Grows, NEW q \in asked,
           NEW type \in {"chunk", "done", "error"}, NEW n \in 0..Chunks,
           type = "chunk" => n \in 1..answer'[q],
           type = "done" => q \in answered', type = "error" => q \in refused',
           AgentSends(q, type, n), UNCHANGED <<chunks, done, errCh, out, via>>
    PROVE  Owned'
<1> DEFINE f == [req |-> q, type |-> type, n |-> n]
<1>0. PICK c : c = via[q] /\ c = via'[q]
      OBVIOUS
<1>1. f \in SoundFrom(c)'
      <2>1. f \in Frame /\ f.req = q /\ f.type = type /\ f.n = n /\ q \in asked'
            BY DEF Frame, TypeOK, AgentTypeOK, Grows
      <2> HIDE DEF f
      <2> QED BY <1>0, <2>1 DEF SoundFrom, Sound
<1>2. \A d \in Conn : inbox'[d] \in Seq(SoundFrom(d)')
      <2>1. CASE ~(c \in agentUp \cap open)
            BY <1>0, <2>1, OwnedGrows DEF AgentSends
      <2>2. CASE c \in agentUp \cap open
            <3>1. inbox \in [Conn -> Seq(Frame)] /\ c \in Conn
                  BY <2>2 DEF TypeOK, HubTypeOK, ChannelTypeOK
            <3>2. inbox' = [inbox EXCEPT ![c] = Append(inbox[c], f)]
                  BY <1>0, <2>2 DEF AgentSends
            <3> HIDE DEF f
            <3>3. inbox[c] \in Seq(SoundFrom(c)')
                  BY <3>1, OwnedGrows
            <3>4. Append(inbox[c], f) \in Seq(SoundFrom(c)')
                  BY <1>1, <3>3, AppendProperties
            <3> QED BY <3>1, <3>2, <3>4, OwnedGrows
      <2> QED BY <2>1, <2>2
<1> QED BY <1>2, OwnedGrows DEF Owned

-----------------------------------------------------------------------------
(* The relay reads a frame: what remains on the connection comes after it. *)
LEMMA ReadFrame ==
    ASSUME TypeOK, Owned, Ordered, NEW c \in Conn, inbox[c] # << >>,
           inbox' = [inbox EXCEPT ![c] = Tail(inbox[c])]
    PROVE  LET f == Head(inbox[c]) IN
           /\ f \in SoundFrom(c)
           /\ \A d \in Conn : /\ inbox'[d] \in Seq(SoundFrom(d)) /\ InOrder(inbox'[d])
                              /\ inbox'[d] \in Seq(Frame) /\ BeforeAll(f, inbox'[d])
           /\ \A r \in Req :
                /\ AllBefore(chunks[r], f) /\ AllBefore(out[r], f)
                /\ \A d \in Conn : /\ Before(chunks[r], inbox'[d])
                                   /\ Before(out[r], inbox'[d])
<1> DEFINE f == Head(inbox[c])
<1>1. /\ inbox \in [Conn -> Seq(Frame)]
      /\ chunks \in [Req -> Seq(Frame)] /\ out \in [Req -> Seq(Frame)]
      BY DEF TypeOK, ChannelTypeOK
<1>2. /\ f \in SoundFrom(c) /\ Tail(inbox[c]) \in Seq(SoundFrom(c))
      /\ f \in Frame /\ Tail(inbox[c]) \in Seq(Frame)
      <2>1. inbox[c] \in Seq(SoundFrom(c)) /\ inbox[c] \in Seq(Frame)
            BY <1>1 DEF Owned
      <2> QED BY <2>1, HeadTailProperties
<1>3. \A d \in Conn : inbox'[d] = IF d = c THEN Tail(inbox[c]) ELSE inbox[d]
      BY <1>1
<1>4. InOrder(Tail(inbox[c])) /\ BeforeAll(f, Tail(inbox[c]))
      BY <1>1, TailOrder DEF Ordered
<1>5. \A r \in Req : /\ AllBefore(chunks[r], f) /\ AllBefore(out[r], f)
                     /\ Before(chunks[r], Tail(inbox[c]))
                     /\ Before(out[r], Tail(inbox[c]))
      BY <1>1, TailOrder DEF Ordered
<1> HIDE DEF f
<1>6. ASSUME NEW d \in Conn, d # c PROVE BeforeAll(f, inbox[d])
      <2>1. inbox[d] \in Seq(SoundFrom(d))
            BY DEF Owned
      <2>2. \A i \in 1..Len(inbox[d]) : inbox[d][i] \in SoundFrom(d)
            BY <2>1, ElementOfSeq
      <2> QED BY <1>2, <1>6, <2>2 DEF SoundFrom, BeforeAll, Precedes
<1>7. ASSUME NEW d \in Conn
      PROVE  /\ inbox'[d] \in Seq(SoundFrom(d)) /\ InOrder(inbox'[d])
             /\ inbox'[d] \in Seq(Frame) /\ BeforeAll(f, inbox'[d])
      BY <1>1, <1>2, <1>3, <1>4, <1>6 DEF Owned, Ordered
<1>8. ASSUME NEW r \in Req, NEW d \in Conn
      PROVE  Before(chunks[r], inbox'[d]) /\ Before(out[r], inbox'[d])
      BY <1>3, <1>5 DEF Ordered
<1> QED BY <1>2, <1>5, <1>7, <1>8 DEF f

LEMMA ReadStreams ==
    ASSUME TypeOK, Owned, Ordered, NEW c \in Conn, Read(c)
    PROVE  Owned' /\ Ordered'
<1> DEFINE f == Head(inbox[c])
           q == f.req
<1>1. /\ f \in SoundFrom(c) /\ f \in Frame /\ f \in Sound /\ q \in Req
      /\ \A d \in Conn : /\ inbox'[d] \in Seq(SoundFrom(d)) /\ InOrder(inbox'[d])
                         /\ inbox'[d] \in Seq(Frame) /\ BeforeAll(f, inbox'[d])
      /\ \A r \in Req :
           /\ AllBefore(chunks[r], f) /\ AllBefore(out[r], f)
           /\ \A d \in Conn : Before(chunks[r], inbox'[d]) /\ Before(out[r], inbox'[d])
      BY ReadFrame DEF Read, SoundFrom, Sound, Frame
<1>2. /\ chunks \in [Req -> Seq(Frame)] /\ out \in [Req -> Seq(Frame)]
      /\ UNCHANGED <<out, via, asked, answer, answered, refused>>
      BY DEF TypeOK, ChannelTypeOK, Read, forwardVars, agentVars
<1>3. /\ \A d \in Conn : SoundFrom(d)' = SoundFrom(d)
      /\ \A r \in Req : SoundChunks(r)' = SoundChunks(r)
      BY <1>2 DEF SoundFrom, SoundChunks, Sound
<1>4. Dispatch(c, f)
      BY DEF Read
<1> HIDE DEF f
<1>5. done' \subseteq answered' /\ errCh' \subseteq refused'
      BY <1>1, <1>2, <1>4 DEF Dispatch, Owned, Sound, channelVars
<1>6. CASE chunks' = chunks
      BY <1>1, <1>2, <1>3, <1>5, <1>6 DEF Owned, Ordered
<1>7. CASE f.type = "chunk" /\ chunks' = [chunks EXCEPT ![q] = Append(chunks[q], f)]
      <2>1. \A r \in Req : chunks'[r] = IF r = q THEN Append(chunks[q], f) ELSE chunks[r]
            BY <1>1, <1>2, <1>7
      <2>2. Append(chunks[q], f) \in Seq(SoundChunks(q))
            <3>1. f \in SoundChunks(q) /\ chunks[q] \in Seq(SoundChunks(q))
                  BY <1>1, <1>7 DEF SoundChunks, Owned
            <3> QED BY <3>1, AppendProperties
      <2>3. InOrder(Append(chunks[q], f)) /\ Before(out[q], Append(chunks[q], f))
            BY <1>1, <1>2, AppendOrder DEF Ordered
      <2>4. \A d \in Conn : Before(Append(chunks[q], f), inbox'[d])
            BY <1>1, <1>2, AppendOrder
      <2>5. Owned'
            BY <1>1, <1>2, <1>3, <1>5, <2>1, <2>2 DEF Owned
      <2>6. Ordered'
            BY <1>1, <1>2, <2>1, <2>3, <2>4 DEF Ordered
      <2> QED BY <2>5, <2>6
<1> QED BY <1>4, <1>6, <1>7 DEF Dispatch, channelVars

(* The caller is sent the chunk that has waited longest, or has gone.      *)
LEMMA StreamStreams ==
    ASSUME TypeOK, Owned, Ordered, NEW q \in Req, StreamChunk(q)
    PROVE  Owned' /\ Ordered'
<1> DEFINE h == Head(chunks[q])
           t == Tail(chunks[q])
<1>1. /\ inbox \in [Conn -> Seq(Frame)]
      /\ chunks \in [Req -> Seq(Frame)] /\ out \in [Req -> Seq(Frame)]
      /\ chunks[q] # << >>
      /\ UNCHANGED <<inbox, done, errCh, via, asked, answer, answered, refused>>
      BY DEF TypeOK, ChannelTypeOK, StreamChunk, connVars, agentVars
<1>2. /\ \A d \in Conn : SoundFrom(d)' = SoundFrom(d)
      /\ \A r \in Req : SoundChunks(r)' = SoundChunks(r)
      BY <1>1 DEF SoundFrom, SoundChunks, Sound
<1>3. h \in SoundChunks(q) /\ t \in Seq(SoundChunks(q)) /\ h \in Frame /\ t \in Seq(Frame)
      <2>1. chunks[q] \in Seq(SoundChunks(q)) /\ chunks[q] \in Seq(Frame)
            BY <1>1 DEF Owned
      <2> QED BY <1>1, <2>1, HeadTailProperties
<1>4. /\ InOrder(t) /\ BeforeAll(h, t)
      /\ Before(out[q], t) /\ AllBefore(out[q], h)
      /\ \A d \in Conn : Before(t, inbox[d]) /\ BeforeAll(h, inbox[d])
      BY <1>1, TailOrder DEF Ordered
<1>5. /\ Append(out[q], h) \in Seq(SoundChunks(q)) /\ InOrder(Append(out[q], h))
      /\ Before(Append(out[q], h), t)
      /\ \A d \in Conn : Before(Append(out[q], h), inbox[d])
      <2>1. out[q] \in Seq(SoundChunks(q)) /\ out[q] \in Seq(Frame)
            BY <1>1 DEF Owned
      <2>2. Append(out[q], h) \in Seq(SoundChunks(q))
            BY <1>3, <2>1, AppendProperties
      <2>3. InOrder(Append(out[q], h))
            BY <1>3, <1>4, <2>1, AppendOrder DEF Ordered
      <2>4. Before(Append(out[q], h), t)
            BY <1>3, <1>4, <2>1, AppendOrder
      <2>5. \A d \in Conn : Before(Append(out[q], h), inbox[d])
            BY <1>1, <1>3, <1>4, <2>1, AppendOrder DEF Ordered
      <2> QED BY <2>2, <2>3, <2>4, <2>5
<1>6. chunks' = [chunks EXCEPT ![q] = t]
      BY DEF StreamChunk
<1>7. out' = out \/ out' = [out EXCEPT ![q] = Append(out[q], h)]
      BY DEF StreamChunk
<1> HIDE DEF h, t
<1>8. \A r \in Req : /\ chunks'[r] = IF r = q THEN t ELSE chunks[r]
                     /\ \/ out'[r] = out[r]
                        \/ r = q /\ out'[r] = Append(out[q], h)
      BY <1>1, <1>6, <1>7
<1>9. Owned'
      BY <1>1, <1>2, <1>3, <1>5, <1>8 DEF Owned
<1>10. Ordered'
      <2>1. ASSUME NEW r \in Req
            PROVE  /\ InOrder(chunks'[r]) /\ InOrder(out'[r])
                   /\ Before(out'[r], chunks'[r])
                   /\ \A d \in Conn : /\ Before(chunks'[r], inbox[d])
                                      /\ Before(out'[r], inbox[d])
            BY <1>4, <1>5, <1>8 DEF Ordered
      <2> QED BY <1>1, <2>1 DEF Ordered
<1> QED BY <1>9, <1>10

-----------------------------------------------------------------------------
(* What the other steps do to the frames, and every step to the fates.     *)
LEMMA OwnedOrderedStep ==
    ASSUME TypeOK, TypeOK', Streams, [Next]_vars
    PROVE  Owned' /\ Ordered'
<1> USE DEF hubVars, connVars, channelVars, forwardVars, agentVars, boundVars
<1>0. Owned /\ Ordered /\ \A q \in asked : rpc[q] # "new"
      BY DEF Streams, Fates, TypeOK, AgentTypeOK
<1>1. \A q \in Req : answer[q] \in 0..Chunks /\ answer'[q] \in 0..Chunks
      BY DEF TypeOK, AgentTypeOK
<1>2. ASSUME UNCHANGED <<via, asked, answer, answered, refused>> PROVE Grows
      BY <1>1, <1>2, RelayAssumption DEF Grows, TypeOK, AgentTypeOK
<1>3. ASSUME UNCHANGED <<inbox, chunks, done, errCh, out, via, asked, answer,
                         answered, refused>>
      PROVE  Owned' /\ Ordered'
      BY <1>0, <1>2, <1>3, FramesUnchanged
<1>4. ASSUME NEW c \in Conn,
             Connect(c) \/ Register(c) \/ SetOnline(c) \/ Unregister(c)
             \/ SetOffline(c) \/ Drop(c)
      PROVE  Owned' /\ Ordered'
      BY <1>3, <1>4 DEF Connect, Register, SetOnline, Unregister, SetOffline, Drop
<1>5. ASSUME NEW c \in Conn, Read(c) PROVE Owned' /\ Ordered'
      BY <1>0, <1>5, ReadStreams
<1>6. ASSUME UNCHANGED <<chunks, done, errCh, out, via, asked, answer, answered, refused>>,
             \A d \in Conn : inbox'[d] = << >> \/ inbox'[d] = inbox[d]
      PROVE  Owned' /\ Ordered'
      <2>1. Len(<< >>) = 0 /\ \A S : << >> \in Seq(S)
            BY EmptySeq
      <2>2. /\ \A d \in Conn : inbox[d] \in Seq(SoundFrom(d)')
            /\ \A q \in Req : /\ chunks[q] \in Seq(SoundChunks(q)')
                              /\ out[q] \in Seq(SoundChunks(q)')
            /\ done \subseteq answered' /\ errCh \subseteq refused'
            BY <1>0, <1>2, <1>6, OwnedGrows
      <2>3. \A d \in Conn : inbox'[d] \in Seq(SoundFrom(d)')
            BY <1>6, <2>1, <2>2
      <2>4. Owned'
            BY <1>6, <2>2, <2>3 DEF Owned
      <2>5. \A d \in Conn :
              /\ InOrder(inbox'[d])
              /\ \A q \in Req : Before(chunks[q], inbox'[d]) /\ Before(out[q], inbox'[d])
            BY <1>0, <1>6, <2>1 DEF Ordered, InOrder, Before
      <2>6. Ordered'
            BY <1>0, <1>6, <2>5 DEF Ordered
      <2> QED BY <2>4, <2>6
<1>7. ASSUME NEW c \in Conn, ReadFails(c) PROVE Owned' /\ Ordered'
      BY <1>6, <1>7 DEF ReadFails, TypeOK, ChannelTypeOK
<1>8. ASSUME NEW q \in Req, Forward(q) PROVE Owned' /\ Ordered'
      <2>1. \A r \in asked : via'[r] = via[r]
            BY <1>0, <1>8 DEF Forward, ForwardAt, TypeOK, ForwardTypeOK, AgentTypeOK
      <2>2. Grows
            BY <1>1, <1>8, <2>1, RelayAssumption DEF Forward, Grows
      <2> QED BY <1>0, <1>8, <2>2, FramesUnchanged DEF Forward
<1>9. ASSUME NEW q \in Req, Insert(q) \/ Forget(q) \/ StreamDone(q) \/ StreamError(q)
      PROVE  Owned' /\ Ordered'
      BY <1>3, <1>9 DEF Insert, Forget, StreamDone, StreamError
<1>10. ASSUME NEW q \in Req, Send(q) PROVE Owned' /\ Ordered'
      <2>1. Grows
            BY <1>1, <1>10, RelayAssumption DEF Send, Grows
      <2> QED BY <1>0, <1>10, <2>1, FramesUnchanged DEF Send
<1>11. ASSUME NEW q \in Req, StreamChunk(q) PROVE Owned' /\ Ordered'
      BY <1>0, <1>11, StreamStreams
<1>12. ASSUME NEW q \in Req, AgentError(q) PROVE Owned' /\ Ordered'
      <2>1. Grows
            BY <1>1, <1>12, RelayAssumption DEF AgentError, Grows
      <2> QED BY <1>0, <1>12, <2>1, SendOrdered, SendOwned, RelayAssumption
              DEF AgentError, Answering
<1>13. ASSUME NEW q \in Req, AgentChunk(q) PROVE Owned' /\ Ordered'
      <2>1. answer' = [answer EXCEPT ![q] = answer[q] + 1]
            BY <1>13 DEF AgentChunk
      <2>2. /\ answer[q] + 1 \in 0..Chunks /\ answer[q] + 1 \in 1..answer'[q]
            /\ \A r \in Req : answer[r] <= answer'[r]
            BY <1>1, <1>13, <2>1, RelayAssumption DEF AgentChunk, TypeOK, AgentTypeOK
      <2>3. Grows
            BY <1>1, <1>13, <2>2 DEF AgentChunk, Grows
      <2> QED BY <1>0, <1>13, <2>2, <2>3, SendOrdered, SendOwned
              DEF AgentChunk, Answering
<1>14. ASSUME NEW q \in Req, AgentDone(q) PROVE Owned' /\ Ordered'
      <2>1. Grows
            BY <1>1, <1>14, RelayAssumption DEF AgentDone, Grows
      <2> QED BY <1>0, <1>14, <2>1, SendOrdered, SendOwned, RelayAssumption
              DEF AgentDone, Answering
<1>15. ASSUME Restart \/ RotatePeerToken PROVE Owned' /\ Ordered'
      BY <1>3, <1>6, <1>15 DEF Restart, RotatePeerToken
<1>16. CASE UNCHANGED vars
      BY <1>3, <1>16 DEF vars
<1> QED BY <1>4, <1>5, <1>7, <1>8, <1>9, <1>10, <1>11, <1>12, <1>13, <1>14, <1>15,
           <1>16
        DEF Next, HandlerStep, ForwardStep, AgentStep

LEMMA FatesStep ==
    ASSUME TypeOK, Streams, [Next]_vars
    PROVE  Fates'
<1> USE DEF hubVars, connVars, channelVars, forwardVars, agentVars, boundVars,
            ForwardAt, End, Fates
<1>0. /\ Fates /\ done \subseteq answered /\ errCh \subseteq refused
      /\ rpc \in [Req -> ForwardPC] /\ result \in [Req -> Result]
      BY DEF Streams, Owned, TypeOK, ForwardTypeOK
<1>1. ASSUME UNCHANGED <<rpc, result, asked>>,
             answered \subseteq answered', refused \subseteq refused'
      PROVE  Fates'
      BY <1>0, <1>1
<1>2. ASSUME NEW c \in Conn, Connect(c) \/ HandlerStep(c) \/ Drop(c)
      PROVE  Fates'
      BY <1>1, <1>2 DEF Connect, HandlerStep, Register, SetOnline, Read, ReadFails,
                        Unregister, SetOffline, Drop
<1>3. ASSUME NEW q \in Req, AgentStep(q) PROVE Fates'
      BY <1>1, <1>3 DEF AgentStep, AgentError, AgentChunk, AgentDone
<1>4. ASSUME NEW q \in Req, Forward(q) \/ Insert(q) \/ Forget(q) PROVE Fates'
      BY <1>0, <1>4 DEF Forward, Insert, Forget, ToldAfter, Deferring, ForwardPC
<1>5. ASSUME NEW q \in Req, Send(q) PROVE Fates'
      BY <1>0, <1>5 DEF Send
<1>6. ASSUME NEW q \in Req, StreamChunk(q) \/ StreamDone(q) \/ StreamError(q)
      PROVE  Fates'
      BY <1>0, <1>6 DEF StreamChunk, StreamDone, StreamError
<1>7. ASSUME Restart \/ RotatePeerToken PROVE Fates'
      BY <1>0, <1>7 DEF Restart, RotatePeerToken
<1>8. CASE UNCHANGED vars
      BY <1>1, <1>8 DEF vars
<1> QED BY <1>2, <1>3, <1>4, <1>5, <1>6, <1>7, <1>8 DEF Next, ForwardStep

LEMMA StreamsInvariant == Spec => [](TypeOK /\ Streams)
<1>1. TypeOK /\ Streams /\ [Next]_vars => TypeOK' /\ Streams'
      BY RelayTypesStep, OwnedOrderedStep, FatesStep DEF Streams
<1> QED BY <1>1, RelayInit, StreamsInit, PTL DEF Spec

(* What a caller is sent are chunks of its own request's answer, in the    *)
(* order the agent sent them (hub.go:146-171, 119-141).                    *)
THEOREM RelayInOrder == Spec => []OwnFramesInOrder
<1>1. TypeOK /\ Streams => OwnFramesInOrder
      <2> SUFFICES ASSUME TypeOK, Streams, NEW q \in Req, NEW i \in DOMAIN out[q]
                   PROVE  /\ out[q][i].req = q /\ out[q][i].n \in 1..answer[q]
                          /\ \A j \in 1..(i-1) : out[q][j].n < out[q][i].n
          BY DEF OwnFramesInOrder
      <2>1. /\ out[q] \in Seq(SoundChunks(q)) /\ InOrder(out[q])
            BY DEF Streams, Owned, Ordered
      <2>2. i \in 1..Len(out[q]) /\ Len(out[q]) \in Nat
            BY <2>1, LenProperties
      <2>3. \A j \in 1..Len(out[q]) : out[q][j] \in SoundChunks(q)
            BY <2>1, ElementOfSeq
      <2>4. out[q][i].req = q /\ out[q][i].n \in 1..answer[q]
            BY <2>2, <2>3 DEF SoundChunks, Sound
      <2>5. ASSUME NEW j \in 1..(i-1) PROVE out[q][j].n < out[q][i].n
            <3>1. j \in 1..Len(out[q]) /\ j < i
                  BY <2>2
            <3> QED BY <2>1, <2>2, <2>3, <3>1 DEF InOrder, Precedes, SoundChunks
      <2> QED BY <2>4, <2>5
<1> QED BY <1>1, StreamsInvariant, PTL

(* [DONE] ends only an answer that the agent has ended, 503 is only of a   *)
(* request the agent never got, and a response complete without [DONE]     *)
(* only of one the agent refused (hub.go:92-141, handler.go:167-175).      *)
THEOREM RelayHonest == Spec => []HonestResult
<1>1. Streams => HonestResult
      BY DEF Streams, Fates, HonestResult
<1> QED BY <1>1, StreamsInvariant, PTL

-----------------------------------------------------------------------------
(* The refinement: an answer that has ended was asked for and has one end, *)
(* and one that was refused has no chunks.                                 *)
Ends == /\ answered \cap refused = {} /\ answered \cup refused \subseteq asked
        /\ \A q \in Req : q \in refused => answer[q] = 0

LEMMA EndsInit == Init => Ends
BY DEF Init, Ends

LEMMA EndsStep == TypeOK /\ Ends /\ [Next]_vars => Ends'
<1> SUFFICES ASSUME TypeOK, Ends, [Next]_vars PROVE Ends'
    OBVIOUS
<1>0. answer \in [Req -> 0..Chunks]
      BY DEF TypeOK, AgentTypeOK
<1> USE DEF Ends, agentVars
<1>1. ASSUME NEW c \in Conn, Connect(c) \/ HandlerStep(c) \/ Drop(c) PROVE Ends'
      BY <1>1 DEF Connect, HandlerStep, Register, SetOnline, Read, ReadFails,
                  Unregister, SetOffline, Drop
<1>2. ASSUME NEW q \in Req, Forward(q) \/ ForwardStep(q) PROVE Ends'
      BY <1>2 DEF Forward, ForwardStep, Insert, Send, Forget, StreamChunk,
                  StreamDone, StreamError
<1>3. ASSUME NEW q \in Req, AgentStep(q) PROVE Ends'
      <2>1. q \notin refused
            BY <1>3 DEF AgentStep, AgentError, AgentChunk, AgentDone, Answering
      <2>2. \A r \in Req : r # q /\ r \in refused' => r \in refused /\ answer'[r] = answer[r]
            BY <1>0, <1>3 DEF AgentStep, AgentError, AgentChunk, AgentDone
      <2>3. q \in refused' => answer'[q] = 0
            BY <1>3, <2>1 DEF AgentStep, AgentError, AgentChunk, AgentDone
      <2>4. answered' \cap refused' = {} /\ answered' \cup refused' \subseteq asked'
            BY <1>3 DEF AgentStep, AgentError, AgentChunk, AgentDone, Answering
      <2> QED BY <2>2, <2>3, <2>4
<1>4. ASSUME Restart \/ RotatePeerToken PROVE Ends'
      BY <1>4 DEF Restart, RotatePeerToken
<1>5. CASE UNCHANGED vars
      BY <1>5 DEF vars
<1> QED BY <1>1, <1>2, <1>3, <1>4, <1>5 DEF Next

State == [q \in Req |-> IF q \in answered THEN "done"
                        ELSE IF q \in refused THEN "refused"
                        ELSE IF q \in asked THEN "open" ELSE "none"]
Numbers(s) == [i \in DOMAIN s |-> s[i].n]
Got == [q \in Req |-> Numbers(out[q])]
Chunk(q) == {n \in 1..answer[q] : \A i \in DOMAIN Got[q] : Got[q][i] < n}

LEMMA NumbersAppend ==
    ASSUME NEW s \in Seq(Frame), NEW f \in Frame
    PROVE  Numbers(Append(s, f)) = Append(Numbers(s), f.n)
<1>1. DOMAIN s = 1..Len(s) /\ Len(s) \in Nat
      BY LenProperties
<1>2. /\ Numbers(s) \in Seq(Nat) /\ Len(Numbers(s)) = Len(s)
      <2>1. ASSUME NEW i \in 1..Len(s) PROVE s[i].n \in Nat
            <3>1. s[i] \in Frame
                  BY ElementOfSeq
            <3> QED BY <3>1, RelayAssumption DEF Frame
      <2>2. Numbers(s) \in [1..Len(s) -> Nat]
            BY <1>1, <2>1 DEF Numbers
      <2> HIDE DEF Numbers
      <2> QED BY <1>1, <2>2, LenProperties
<1>3. f.n \in Nat
      BY RelayAssumption DEF Frame
<1>4. /\ DOMAIN Append(s, f) = 1..(Len(s) + 1)
      /\ \A i \in 1..Len(s) : Append(s, f)[i] = s[i]
      /\ Append(s, f)[Len(s) + 1] = f
      BY AppendProperties
<1>5. /\ DOMAIN Append(Numbers(s), f.n) = 1..(Len(s) + 1)
      /\ \A i \in 1..Len(s) : Append(Numbers(s), f.n)[i] = Numbers(s)[i]
      /\ Append(Numbers(s), f.n)[Len(s) + 1] = f.n
      BY <1>2, <1>3, AppendProperties
<1>6. ASSUME NEW i \in 1..(Len(s) + 1)
      PROVE  Numbers(Append(s, f))[i] = Append(Numbers(s), f.n)[i]
      <2>1. CASE i \in 1..Len(s)
            BY <1>1, <1>4, <1>5, <2>1 DEF Numbers
      <2>2. CASE i = Len(s) + 1
            <3>1. Numbers(Append(s, f))[i] = Append(s, f)[i].n
                  BY <1>4 DEF Numbers
            <3> QED BY <1>4, <1>5, <2>2, <3>1
      <2>3. i \in 1..Len(s) \/ i = Len(s) + 1
            BY <1>1
      <2> QED BY <2>1, <2>2, <2>3
<1>7. /\ Append(Numbers(s), f.n) \in Seq(Nat)
      /\ DOMAIN Numbers(Append(s, f)) = 1..(Len(s) + 1)
      BY <1>2, <1>3, <1>4, AppendProperties DEF Numbers
<1> QED BY <1>4, <1>5, <1>6, <1>7, LenProperties DEF Numbers

(* The chunk that is next is of this answer and after all the caller has.  *)
LEMMA DeliverStep ==
    ASSUME TypeOK, Streams, NEW q \in Req, StreamChunk(q),
           out' = [out EXCEPT ![q] = Append(@, Head(chunks[q]))]
    PROVE  \E n \in Chunk(q) : Got' = [Got EXCEPT ![q] = Append(@, n)]
<1> DEFINE h == Head(chunks[q])
<1>1. /\ chunks[q] \in Seq(Frame) /\ chunks[q] # << >> /\ out \in [Req -> Seq(Frame)]
      /\ chunks[q] \in Seq(SoundChunks(q)) /\ out[q] \in Seq(SoundChunks(q))
      BY DEF StreamChunk, TypeOK, ChannelTypeOK, Streams, Owned
<1>2. h \in SoundChunks(q) /\ h \in Frame
      BY <1>1, HeadTailProperties
<1>3. AllBefore(out[q], h)
      BY <1>1, TailOrder DEF Streams, Ordered
<1>4. h.n \in Chunk(q)
      <2>1. DOMAIN out[q] = 1..Len(out[q]) /\ \A i \in 1..Len(out[q]) : out[q][i] \in SoundChunks(q)
            BY <1>1, LenProperties, ElementOfSeq
      <2>2. \A i \in 1..Len(out[q]) : out[q][i].n < h.n
            BY <1>2, <1>3, <2>1 DEF AllBefore, Precedes, SoundChunks
      <2> QED BY <1>2, <2>1, <2>2 DEF Chunk, Got, Numbers, SoundChunks, Sound
<1> HIDE DEF h
<1>5. Got' = [Got EXCEPT ![q] = Append(@, h.n)]
      <2>1. Numbers(Append(out[q], h)) = Append(Numbers(out[q]), h.n)
            BY <1>1, <1>2, NumbersAppend
      <2>2. out' = [out EXCEPT ![q] = Append(out[q], h)]
            BY DEF h
      <2>3. \A r \in Req : Numbers(out'[r]) = IF r = q THEN Append(Numbers(out[q]), h.n)
                                                      ELSE Numbers(out[r])
            BY <1>1, <2>1, <2>2
      <2> QED BY <2>3 DEF Got
<1> QED BY <1>4, <1>5

LEMMA AnswersStep ==
    ASSUME TypeOK, Streams, Ends, [Next]_vars
    PROVE  [Answers!AnswerNext]_(Answers!answerVars)
<1> USE DEF hubVars, connVars, channelVars, forwardVars, agentVars, ForwardAt, End
<1>0. /\ Fates /\ done \subseteq answered /\ errCh \subseteq refused
      /\ rpc \in [Req -> ForwardPC] /\ result \in [Req -> Result]
      /\ answer \in [Req -> 0..Chunks]
      BY DEF Streams, Owned, TypeOK, ForwardTypeOK, AgentTypeOK
<1>1. ASSUME State' = State, UNCHANGED <<answer, out, result>>
      PROVE  UNCHANGED Answers!answerVars
      BY <1>1 DEF Answers!answerVars, State
<1>2. ASSUME UNCHANGED <<asked, answered, refused>> PROVE State' = State
      BY <1>2 DEF State
<1>3. ASSUME NEW q \in Req, result[q] = "none", NEW how, result' = [result EXCEPT ![q] = how],
             how \in {"ok", "unavailable", "cut", "clientGone"},
             how = "ok" => q \in answered, how = "cut" => q \in refused,
             how = "unavailable" => q \notin asked,
             UNCHANGED <<asked, answered, refused, answer, out>>
      PROVE  Answers!Finish(q)
      <2>1. how = "cut" => Got[q] = << >>
            <3> SUFFICES ASSUME how = "cut" PROVE Got[q] = << >>
                OBVIOUS
            <3>1. answer[q] = 0
                  BY <1>3 DEF Ends
            <3>2. out[q] \in Seq(SoundChunks(q)) /\ SoundChunks(q) = {}
                  BY <3>1 DEF Streams, Owned, SoundChunks, Sound
            <3>3. out[q] = << >>
                  <4>1. Len(out[q]) \in Nat /\ \A i \in 1..Len(out[q]) : out[q][i] \in {}
                        BY <3>2, LenProperties, ElementOfSeq
                  <4>2. Len(out[q]) = 0
                        BY <4>1
                  <4> QED BY <3>2, <4>2, EmptySeq
            <3> QED BY <3>3 DEF Got, Numbers
      <2>2. \/ how = "ok" /\ State[q] = "done"
            \/ how = "unavailable" /\ State[q] = "none"
            \/ how = "cut" /\ State[q] = "refused" /\ Got[q] = << >>
            \/ how = "clientGone"
            BY <1>3, <2>1 DEF Ends, State
      <2>3. Answers!MayEnd(q, how)
            BY <2>2 DEF Answers!MayEnd, State, Got, Numbers
      <2>4. State' = State /\ Got' = Got
            BY <1>3 DEF State, Got
      <2> QED BY <1>3, <2>3, <2>4 DEF Answers!Finish, State, Got, Numbers
<1>4. ASSUME NEW c \in Conn, Connect(c) \/ HandlerStep(c) \/ Drop(c)
      PROVE  UNCHANGED Answers!answerVars
      BY <1>1, <1>2, <1>4
      DEF Connect, HandlerStep, Register, SetOnline, Read, ReadFails, Unregister,
          SetOffline, Drop
<1>5. ASSUME NEW q \in Req, Forward(q)
      PROVE  Answers!Finish(q) \/ UNCHANGED Answers!answerVars
      BY <1>0, <1>1, <1>2, <1>3, <1>5 DEF Forward, Fates
<1>6. ASSUME NEW q \in Req, Insert(q) \/ StreamError(q)
      PROVE  UNCHANGED Answers!answerVars
      BY <1>1, <1>2, <1>6 DEF Insert, StreamError
<1>7. ASSUME NEW q \in Req, Send(q)
      PROVE  Answers!Ask(q) \/ UNCHANGED Answers!answerVars
      <2>1. q \notin asked /\ result[q] = "none"
            BY <1>0, <1>7 DEF Send, Fates
      <2>3. CASE UNCHANGED <<result, asked>>
            BY <1>1, <1>2, <1>7, <2>3 DEF Send
      <2>4. CASE asked' = asked \cup {q} /\ UNCHANGED result
            BY <1>7, <2>1, <2>4 DEF Send, Ends, Answers!Ask
      <2> QED BY <1>7, <2>3, <2>4 DEF Send
<1>8. ASSUME NEW q \in Req, StreamChunk(q)
      PROVE  Answers!Deliver(q) \/ Answers!Finish(q)
      <2>1. result[q] = "none"
            BY <1>0, <1>8 DEF StreamChunk, Fates
      <2>2. CASE out' = [out EXCEPT ![q] = Append(@, Head(chunks[q]))] /\ UNCHANGED result
            <3>1. PICK n \in Chunk(q) : Got' = [Got EXCEPT ![q] = Append(@, n)]
                  BY <1>8, <2>2, DeliverStep
            <3>2. UNCHANGED <<asked, answered, refused, answer, result>>
                  BY <1>8, <2>2 DEF StreamChunk
            <3> QED BY <2>1, <3>1, <3>2 DEF Answers!Deliver, Got, Numbers, Chunk
      <2>3. CASE result' = [result EXCEPT ![q] = "clientGone"] /\ UNCHANGED out
            BY <1>3, <1>8, <2>1, <2>3 DEF StreamChunk
      <2> QED BY <1>8, <2>2, <2>3 DEF StreamChunk
<1>9. ASSUME NEW q \in Req, StreamDone(q) PROVE Answers!Finish(q)
      BY <1>0, <1>3, <1>9 DEF StreamDone, Fates
<1>14. ASSUME NEW q \in Req, Forget(q)
       PROVE  Answers!Finish(q) \/ UNCHANGED Answers!answerVars
      <2>1. CASE rpc[q] = "failed"
            BY <1>0, <1>3, <1>14, <2>1 DEF Forget, ToldAfter, Fates
      <2>2. CASE rpc[q] = "cut"
            BY <1>0, <1>3, <1>14, <2>2 DEF Forget, ToldAfter, Fates
      <2>3. CASE rpc[q] = "remove"
            <3>1. result' = result
                  BY <1>0, <1>14, <2>3 DEF Forget, ToldAfter
            <3> QED BY <1>1, <1>2, <1>14, <3>1 DEF Forget
      <2> QED BY <1>14, <2>1, <2>2, <2>3 DEF Forget, Deferring
<1>10. ASSUME NEW q \in Req, AgentStep(q)
       PROVE  Answers!Produce(q) \/ Answers!Close(q)
      <2>1. q \in asked /\ q \notin answered /\ q \notin refused
            BY <1>10 DEF AgentStep, AgentError, AgentChunk, AgentDone, Answering
      <2>2. CASE AgentError(q)
            BY <2>1, <2>2 DEF AgentError, Answers!Close
      <2>3. CASE AgentChunk(q)
            BY <2>1, <2>3 DEF AgentChunk, Answers!Produce
      <2>4. CASE AgentDone(q)
            BY <2>1, <2>4 DEF AgentDone, Answers!Close
      <2> QED BY <1>10, <2>2, <2>3, <2>4 DEF AgentStep
<1>11. CASE Restart
      <2> DEFINE Q == {q \in Req : rpc[q] # "new" /\ result[q] = "none"}
      <2>1. result' = [q \in Req |-> IF q \in Q THEN "restarted" ELSE result[q]]
            BY <1>11 DEF Restart
      <2>2. UNCHANGED <<asked, answered, refused, answer, out>>
            BY <1>11 DEF Restart
      <2>3. Q \in SUBSET Req /\ \A q \in Q : result[q] = "none"
            OBVIOUS
      <2> HIDE DEF Q
      <2>4. Answers!Stop(Q)
            BY <2>1, <2>2, <2>3 DEF Answers!Stop
      <2> QED BY <2>3, <2>4 DEF Answers!AnswerNext
<1>12. CASE RotatePeerToken
      BY <1>1, <1>2, <1>12 DEF RotatePeerToken
<1>13. CASE UNCHANGED vars
      BY <1>1, <1>2, <1>13 DEF vars
<1> QED BY <1>4, <1>5, <1>6, <1>7, <1>8, <1>9, <1>10, <1>11, <1>12, <1>13, <1>14
        DEF Next, ForwardStep, Answers!AnswerNext

(* The relay keeps the promise of RelayedAnswer to every caller: however   *)
(* connections are replaced, buffers fill up and answers mix on a          *)
(* connection, a caller gets chunks of its own answer, in order and none   *)
(* twice, and its response ends once, with [DONE], with 503 or without     *)
(* either, as is true of the answer (hub.go:92-141, handler.go:167-175).   *)
THEOREM RelayImplements == Spec => ImplementsAnswers
<1>1. Init => Answers!AnswerInit
      BY DEF Init, Answers!AnswerInit
<1>2. TypeOK /\ Streams /\ Ends /\ [Next]_vars
      => [Answers!AnswerNext]_(Answers!answerVars)
      BY AnswersStep
<1> QED BY <1>1, <1>2, StreamsInvariant, EndsInit, EndsStep, PTL
        DEF Spec, ImplementsAnswers, Answers!AnswerSpec
=============================================================================
