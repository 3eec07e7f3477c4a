------------------------------ MODULE Gateway -------------------------------
(***************************************************************************)
(* The gateway's proxy, with the keys that the control API keeps and the   *)
(* routes that are read from a file.  A request is validated, limited,     *)
(* resolved, sent upstream, and its answer streamed back while the usage   *)
(* is looked for in it; then the tokens are recorded by a goroutine.       *)
(***************************************************************************)
EXTENDS Integers, Sequences, FiniteSets, FiniteSetsExt

CONSTANTS
    Keys, Peers, Clerks, NoCred, MaxSecrets, MaxRequests,
    Deployments, Upstreams, Garbled, NoUpstream, Versions, NoVersion, MaxPods,
    MaxEdits,
    PeerDeployments,     \* the deployments that are peers
    AllowedDeployments,  \* those the keys are for; all of them if empty
    Hashes,              \* the cache keys of requests, as hashed
    Bodies,              \* the answers of the upstreams
    Callers,             \* the requests that are served at a time
    MaxCalls,            \* bound on the requests
    MaxInputs            \* bound on what is asked, edited and requested

(* An answer is a sequence of the prefix of a data line, a usage object    *)
(* (its total of tokens), the end of a line, or any other text.            *)
Text == 0
Data == -1
NL == -2
ASSUME GatewayAssumption ==
    /\ Bodies \subseteq Seq(Nat \cup {Data, NL})
    /\ Hashes \subseteq Nat /\ MaxCalls \in Nat /\ MaxInputs \in Nat

VARIABLES
    cred, invites, task, lastSecret, asked, used,                \* Credentials
    file, writing, watch, events, reading, same, table, edits, told, \* FileRouter
    call,      \* the requests that are served
    charging,  \* the goroutines that record tokens
    charged,   \* the tokens that have been recorded, by key id and request
    calls,
    served,    \* history: what the answers sent so far should be charged
    lost       \* history: what was not recorded because of a failure

credVars   == <<cred, invites, task, lastSecret, asked, used>>
routerVars == <<file, writing, watch, events, reading, same, table, edits, told>>
proxyVars  == <<call, charging, charged, calls, served, lost>>
vars == <<credVars, routerVars, proxyVars>>

Control == INSTANCE Credentials
    WITH cred <- cred, invites <- invites, task <- task, used <- used
Router  == INSTANCE FileRouter
    WITH file <- file, watch <- watch, events <- events, table <- table

ASSUME PartsAssumption == Control!CredentialsConstants /\ Router!RouterConstants

-----------------------------------------------------------------------------
Stages == {"idle", "validate", "peer", "limit", "resolve", "send", "stream"}
Call == [pc : Stages, no : Nat, secret : Nat, dep : Deployments \cup {NoCred},
         hash : Hashes \cup {0}, upstream : Router!Address \cup {NoUpstream},
         body : Bodies \cup {<<>>}, read : Nat, leftover : Seq(Int),
         usage : Nat,
         dead : BOOLEAN]       \* the secret had been replaced or deleted
NoCall == [pc |-> "idle", no |-> 0, secret |-> 0, dep |-> NoCred, hash |-> 0,
           upstream |-> NoUpstream, body |-> <<>>, read |-> 0,
           leftover |-> <<>>, usage |-> 0, dead |-> FALSE]

Init ==
    /\ Control!Init /\ Router!Init
    /\ call = [r \in Callers |-> NoCall] /\ calls = 0
    /\ charging = {} /\ charged = {} /\ served = {} /\ lost = {}

At(r, at) == call[r].pc = at
Go(r, to) == call' = [call EXCEPT ![r].pc = to]
Finish(r) == call' = [call EXCEPT ![r] = NoCall]
ProxyOnly == UNCHANGED <<credVars, routerVars>>

(* ServeHTTP, with a secret that some credential has or had, as the key.   *)
(* main serves once NewFileRouter has returned.                            *)
Dead(s) == \E k \in Keys : s \in used[k] /\ ~Control!Works(k, s)
Arrive(r, s, d, h) ==
    /\ At(r, "idle") /\ watch # "load"
    /\ calls < MaxCalls /\ calls' = calls + 1
    /\ call' = [call EXCEPT ![r] = [NoCall EXCEPT
                  !.pc = "validate", !.no = calls', !.secret = s, !.dep = d,
                  !.hash = h, !.dead = Dead(s)]]
    /\ ProxyOnly /\ UNCHANGED <<charging, charged, served, lost>>

(* Validate: the active row with the key's prefix, its hash, and the       *)
(* deployments it is for.  The prefix is the id of the key from now on.    *)
ValidInactiveToo(r) ==       \* mutant: without AND active = true
    \E k \in Keys : Control!HasRow(k) /\ cred[k].secret = call[r].secret
Valid(r) ==
    /\ \E k \in Keys : Control!Works(k, call[r].secret)
    /\ AllowedDeployments = {} \/ call[r].dep \in AllowedDeployments

Validate(r) ==
    /\ At(r, "validate")
    /\ IF ~Valid(r) THEN Finish(r)
       ELSE IF call[r].dep \in PeerDeployments THEN Go(r, "peer")
       ELSE Go(r, "limit")
    /\ ProxyOnly /\ UNCHANGED <<charging, charged, calls, served, lost>>

(* servePeer asks for an invitation of the key by its UUID, and what it    *)
(* has is the prefix: the query fails and the request is forbidden.        *)
ServePeer(r) ==
    /\ At(r, "peer") /\ Finish(r)
    /\ ProxyOnly /\ UNCHANGED <<charging, charged, calls, served, lost>>

(* Allow, of which only the outcome matters here; an error lets pass.      *)
Limit(r) ==
    /\ At(r, "limit") /\ (Go(r, "resolve") \/ Finish(r))
    /\ ProxyOnly /\ UNCHANGED <<charging, charged, calls, served, lost>>

(* extractCacheKey looks for a prompt in what a single Read of the body    *)
(* returns: a part of the body is no JSON, and the key is empty then.      *)
NoHash == 0
CacheKey(r) == {call[r].hash, NoHash}

ResolveAnyway(r) ==          \* mutant: ErrDeploymentNotFound is not looked at
    /\ At(r, "resolve")
    /\ \E h \in CacheKey(r) :
         call' = [call EXCEPT ![r].pc = "send",
                    ![r].upstream = Router!PrefixResolve(call[r].dep, h)]
    /\ ProxyOnly /\ UNCHANGED <<charging, charged, calls, served, lost>>
Resolve(r) ==
    /\ At(r, "resolve")
    /\ \E h \in CacheKey(r) :
         LET u == Router!PrefixResolve(call[r].dep, h) IN
         IF u = NoUpstream THEN Finish(r)
         ELSE call' = [call EXCEPT ![r].pc = "send", ![r].upstream = u]
    /\ ProxyOnly /\ UNCHANGED <<charging, charged, calls, served, lost>>

(* The upstream answers, or cannot be reached.                             *)
Send(r) ==
    /\ At(r, "send")
    /\ \/ \E b \in Bodies :
            call' = [call EXCEPT ![r].pc = "stream", ![r].body = b]
       \/ Finish(r)
    /\ ProxyOnly /\ UNCHANGED <<charging, charged, calls, served, lost>>

-----------------------------------------------------------------------------
(* The lines of a chunk: where they end, which of them hold a usage, and   *)
(* what is left over after the last one.                                   *)
Ends(c) == {i \in DOMAIN c : c[i] = NL}
UsageLines(c) ==
    {i \in Ends(c) : /\ i > 2 /\ c[i - 1] > 0 /\ c[i - 2] = Data
                     /\ i > 3 => c[i - 3] = NL}
UsageIn(c, old) ==
    IF UsageLines(c) = {} THEN old ELSE c[Max(UsageLines(c)) - 1]
Rest(c) == SubSeq(c, (IF Ends(c) = {} THEN 0 ELSE Max(Ends(c))) + 1, Len(c))

Sent(r) == SubSeq(call[r].body, 1, call[r].read)
Chunk(r, n) == SubSeq(call[r].body, call[r].read + 1, call[r].read + n)

(* One Read of the body, of any number of bytes.                           *)
ReadForgets(r) ==            \* mutant: chunk := buf[:n], without leftover
    /\ At(r, "stream")
    /\ \E n \in 1..(Len(call[r].body) - call[r].read) :
         LET chunk == Chunk(r, n) IN
         call' = [call EXCEPT ![r].read = @ + n,
                              ![r].usage = UsageIn(chunk, @),
                              ![r].leftover = Rest(chunk)]
    /\ ProxyOnly /\ UNCHANGED <<charging, charged, calls, served, lost>>
Read(r) ==
    /\ At(r, "stream")
    /\ \E n \in 1..(Len(call[r].body) - call[r].read) :
         LET chunk == call[r].leftover \o Chunk(r, n) IN
         call' = [call EXCEPT ![r].read = @ + n,
                              ![r].usage = UsageIn(chunk, @),
                              ![r].leftover = Rest(chunk)]
    /\ ProxyOnly /\ UNCHANGED <<charging, charged, calls, served, lost>>

(* The end of the answer, or an error in the middle of it.                 *)
Charge(r, tokens) ==
    IF tokens > 0 THEN {<<call[r].secret, call[r].no, tokens>>} ELSE {}
End(r) ==
    /\ At(r, "stream") /\ Finish(r)
    /\ charging' = charging \cup Charge(r, call[r].usage)
    /\ served' = served \cup Charge(r, UsageIn(Sent(r), 0))
    /\ ProxyOnly /\ UNCHANGED <<charged, calls, lost>>

(* RecordTokens, which may fail.  The inference event is never written:    *)
(* writeInferenceEvent looks the prefix up as an id, too.                  *)
RecordTokens(c) ==
    /\ c \in charging /\ charging' = charging \ {c}
    /\ \/ charged' = charged \cup {c} /\ UNCHANGED lost
       \/ lost' = lost \cup {c} /\ UNCHANGED charged
    /\ ProxyOnly /\ UNCHANGED <<call, calls, served>>

(* The gateway's process ends and another one is started.                  *)
Restart ==
    /\ Router!Reopen
    /\ call' = [r \in Callers |-> NoCall]
    /\ charging' = {} /\ lost' = lost \cup charging
    /\ UNCHANGED <<credVars, charged, calls, served>>

-----------------------------------------------------------------------------
Serve(r) ==
    \/ Validate(r) \/ ServePeer(r) \/ Limit(r) \/ Resolve(r) \/ Send(r)
    \/ Read(r) \/ End(r)

Proxy ==
    \/ \E r \in Callers :
         \/ \E s \in 1..lastSecret, d \in Deployments, h \in Hashes :
              Arrive(r, s, d, h)
         \/ Serve(r)
    \/ \E c \in charging : RecordTokens(c)
    \/ Restart

Next ==
    /\ \/ Proxy
       \/ Control!CredNext /\ UNCHANGED <<routerVars, proxyVars>>
       \/ Router!RouterNext /\ UNCHANGED <<credVars, proxyVars>>
    /\ asked' + edits' + calls' <= MaxInputs

Spec == Init /\ [][Next]_vars

(* The router's goroutine is scheduled; nobody has to edit or to ask.      *)
FairSpec == Spec /\ WF_vars(UNCHANGED <<credVars, proxyVars>> /\ Router!Follow)

-----------------------------------------------------------------------------
(* The types; a request is at an address, if any, only when the table had  *)
(* one for its deployment.                                                 *)
TypeOK ==
    /\ Control!CredTypeOK /\ Router!RouterTypeOK
    /\ call \in [Callers -> Call] /\ calls \in 0..MaxCalls
    /\ \A r \in Callers :
          call[r].pc \in {"send", "stream"} <=> call[r].upstream # NoUpstream
    /\ \A c \in charging \cup charged \cup served \cup lost :
          c \in Nat \X Nat \X Nat

(* A request that arrives with a secret whose key has been deleted or      *)
(* rotated gets no further than the validator: the gateway remembers       *)
(* nothing of what it once validated.                                      *)
RevokedNotServed ==
    \A r \in Callers : call[r].dead => call[r].pc \in {"idle", "validate"}

(* The properties of the parts, here while the others are at work.         *)
RevokedForGood    == Control!RevokedForGood
InvitesHaveRows   == Control!InvitesHaveRows
StaleIsAnnounced  == Router!StaleIsAnnounced
RoutesFollowFile  == Router!RoutesFollowFile

(* What is recorded for an answer is the last usage it had sent, wherever  *)
(* the reads have cut it, exactly once, under the key it came with; only a *)
(* restart or a failure of Redis loses a record.                           *)
ChargedAsServed ==
    /\ served = charging \cup charged \cup lost
    /\ charging \cap charged = {}
=============================================================================
