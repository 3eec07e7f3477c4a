---------------------------- MODULE RateLimiter ----------------------------
(***************************************************************************)
(* The gateway's sliding-window rate limiter                               *)
(* (apps/gateway/internal/ratelimit/redis.go) as ServeHTTP uses it         *)
(* (apps/gateway/internal/proxy/proxy.go).                                 *)
(*                                                                         *)
(* A handler reads its gateway's clock, and only later does Redis run the  *)
(* Lua script, in one step; when the response has been streamed, a         *)
(* goroutine records its tokens in a pipeline of two commands.  Redis      *)
(* keeps, per API key, a sorted set of the milliseconds at which requests  *)
(* were let in and a sorted set of token entries; each expires as a whole. *)
(***************************************************************************)
EXTENDS Integers, FiniteSets, FiniteSetsExt

CONSTANTS
    Key,            \* API keys
    Req,            \* handler goroutines
    Rpm, Tpm,       \* the limits of each key
    Tokens,         \* the token counts a response may have: an engine's
                    \* context is bounded, so one of them is the largest
    Window,         \* 60 000 ms
    TTL,            \* 65 s
    Skew,           \* how far a gateway's clock may be from Redis's
    Delay,          \* how long a command may take to reach Redis
    MaxClock,       \* bound on the time
    MaxFailures,    \* bound on how often a key's requests fail open
    NoTTL           \* a Redis key without an expiry

ASSUME LimiterAssumption ==
    /\ IsFiniteSet(Req)
    /\ Rpm \in [Key -> Nat] /\ Tpm \in [Key -> Nat]
    /\ Tokens \subseteq Nat /\ \E n \in Tokens : \A m \in Tokens : m <= n
    /\ Window \in Nat /\ TTL \in Nat /\ Window <= TTL
    /\ Skew \in Nat /\ Delay \in Nat /\ MaxClock \in Nat /\ MaxFailures \in Nat
    /\ NoTTL \notin Int

Entry == [ts : Int, tokens : Nat, nonce : Nat]
PC    == {"idle", "allow", "retry", "serving", "zadd", "expire"}

VARIABLES
    clock,                   \* Redis's time
    rpm, rpmTTL, tpm, tpmTTL,\* Redis: the two sets and their expiries, per key
    pc, key, now, readAt,    \* the handlers: where each is, its API key, the
                             \* time it read and when it read it
    entry,                   \* the token entry its pipeline adds
    admitted,                \* history: the milliseconds at which requests
                             \* were let in
    failedOpen,              \* history: requests let in without a decision
    recorded                 \* history: the entries whose pipeline has
                             \* completed, in Redis or lost, until their
                             \* window is over

redisVars   == <<rpm, rpmTTL, tpm, tpmTTL>>
handlerVars == <<pc, key, now, readAt, entry>>
historyVars == <<admitted, failedOpen, recorded>>
vars == <<clock, redisVars, handlerVars, historyVars>>

NoEntry == [ts |-> 0, tokens |-> 0, nonce |-> 0]

Init ==
    /\ clock = 0
    /\ rpm = [k \in Key |-> {}] /\ rpmTTL = [k \in Key |-> NoTTL]
    /\ tpm = [k \in Key |-> {}] /\ tpmTTL = [k \in Key |-> NoTTL]
    /\ pc = [r \in Req |-> "idle"]
    /\ key \in [Req -> Key]
    /\ now = [r \in Req |-> 0] /\ readAt = [r \in Req |-> 0]
    /\ entry = [r \in Req |-> NoEntry]
    /\ admitted = [k \in Key |-> {}]
    /\ failedOpen = [k \in Key |-> 0]
    /\ recorded = [k \in Key |-> {}]

-----------------------------------------------------------------------------
(* A command reaches Redis at most Delay after its time was read.          *)
Urgent(r) == pc[r] \in {"allow", "retry", "zadd", "expire"} /\ readAt[r] + Delay = clock

(* The entries that no gateway's clock sees out of the window at time t.    *)
Counting(E, t) == {e \in E : e.ts + Window > t + Skew}

(* Redis drops a key when its time to live is over, and forgets the expiry *)
(* of a sorted set that has become empty.                                  *)
Expired(ttl, k) == ttl[k] # NoTTL /\ ttl[k] <= clock + 1
Tick ==
    /\ clock < MaxClock
    /\ \A r \in Req : ~Urgent(r)
    /\ clock' = clock + 1
    /\ rpm' = [k \in Key |-> IF Expired(rpmTTL, k) THEN {} ELSE rpm[k]]
    /\ tpm' = [k \in Key |-> IF Expired(tpmTTL, k) THEN {} ELSE tpm[k]]
    /\ rpmTTL' = [k \in Key |-> IF Expired(rpmTTL, k) THEN NoTTL ELSE rpmTTL[k]]
    /\ tpmTTL' = [k \in Key |-> IF Expired(tpmTTL, k) THEN NoTTL ELSE tpmTTL[k]]
    /\ recorded' = [k \in Key |-> Counting(recorded[k], clock')]
    /\ UNCHANGED <<handlerVars, admitted, failedOpen>>

-----------------------------------------------------------------------------
(* The Lua script, at the time the handler read.                           *)
CurrentRpm(k, n) == {s \in rpm[k] : s > n - Window}
CurrentTpm(k, n) == {e \in tpm[k] : e.ts > n - Window}
TokensIn(T) == MapThenSumSet(LAMBDA e : e.tokens, T)

LetInTwice(k, n) ==            \* mutant: the set may hold one request too many
    /\ Cardinality(CurrentRpm(k, n)) <= Rpm[k]
    /\ TokensIn(CurrentTpm(k, n)) < Tpm[k]
LetInAtTpm(k, n) ==            \* mutant: the limit itself is not over the limit
    /\ Cardinality(CurrentRpm(k, n)) < Rpm[k]
    /\ TokensIn(CurrentTpm(k, n)) <= Tpm[k]
LetIn(k, n) ==
    /\ Cardinality(CurrentRpm(k, n)) < Rpm[k]
    /\ TokensIn(CurrentTpm(k, n)) < Tpm[k]

NewTTLNever == NoTTL           \* mutant: the script sets no expiry
NewTTL == clock + TTL

(* ZREMRANGEBYSCORE on both sets; and, only when the request is let in,    *)
(* ZADD of the time, which adds nothing when that millisecond is there     *)
(* already, and EXPIRE of both.                                            *)
Script(r) ==
    LET k == key[r]
        n == now[r]
        Kept(S, ttl) == IF S = {} THEN NoTTL ELSE ttl
    IN
    /\ tpm' = [tpm EXCEPT ![k] = CurrentTpm(k, n)]
    /\ IF LetIn(k, n)
       THEN /\ rpm' = [rpm EXCEPT ![k] = CurrentRpm(k, n) \cup {n}]
            /\ rpmTTL' = [rpmTTL EXCEPT ![k] = NewTTL]
            /\ tpmTTL' = [tpmTTL EXCEPT ![k] = Kept(CurrentTpm(k, n), NewTTL)]
            /\ admitted' = [admitted EXCEPT ![k] = @ \cup {n}]
       ELSE /\ rpm' = [rpm EXCEPT ![k] = CurrentRpm(k, n)]
            /\ rpmTTL' = [rpmTTL EXCEPT ![k] = Kept(CurrentRpm(k, n), @)]
            /\ tpmTTL' = [tpmTTL EXCEPT ![k] = Kept(CurrentTpm(k, n), @)]
            /\ UNCHANGED admitted
    /\ UNCHANGED <<clock, key, entry, failedOpen, recorded>>

Goto(r, p) == pc' = [pc EXCEPT ![r] = p]

(* A handler forgets the times it has used.                                *)
Forget(r) == /\ now' = [now EXCEPT ![r] = 0]
             /\ readAt' = [readAt EXCEPT ![r] = 0]
Return(r) == Goto(r, "idle") /\ Forget(r) /\ entry' = [entry EXCEPT ![r] = NoEntry]

-----------------------------------------------------------------------------
(* ServeHTTP, up to the time.Now() of Allow.                               *)
Arrive(r) ==
    /\ pc[r] = "idle"
    /\ \E k \in Key : key' = [key EXCEPT ![r] = k]
    /\ \E t \in clock - Skew..clock + Skew : now' = [now EXCEPT ![r] = t]
    /\ readAt' = [readAt EXCEPT ![r] = clock]
    /\ Goto(r, "allow")
    /\ UNCHANGED <<clock, redisVars, entry, historyVars>>

Allow(r) ==
    /\ pc[r] \in {"allow", "retry"}
    /\ Script(r)
    /\ Goto(r, IF LetIn(key[r], now[r]) THEN "serving" ELSE "idle")
    /\ Forget(r)

(* The reply is lost, and the client library sends the script again, with  *)
(* the same arguments.                                                     *)
ReplyLost(r) ==
    /\ pc[r] = "allow"
    /\ Script(r)
    /\ Goto(r, "retry") /\ UNCHANGED <<now, readAt>>

(* An error of the limiter lets the request in.                            *)
FailOpen(r) ==
    /\ pc[r] \in {"allow", "retry"}
    /\ failedOpen[key[r]] < MaxFailures
    /\ failedOpen' = [failedOpen EXCEPT ![key[r]] = @ + 1]
    /\ Goto(r, "serving") /\ Forget(r)
    /\ UNCHANGED <<clock, redisVars, key, entry, admitted, recorded>>

(* The response ends, and its goroutine reads the time.                    *)
Respond(r) ==
    /\ pc[r] = "serving"
    /\ \E n \in Tokens, t \in clock - Skew..clock + Skew :
          IF n = 0
          THEN Goto(r, "idle") /\ UNCHANGED <<readAt, entry>>
          ELSE /\ Goto(r, "zadd")
               /\ readAt' = [readAt EXCEPT ![r] = clock]
               /\ entry' = [entry EXCEPT ![r] = [ts |-> t, tokens |-> n, nonce |-> 0]]
    /\ UNCHANGED <<clock, redisVars, key, now, historyVars>>

(* RecordTokens' pipeline, of two commands that are no transaction: a set  *)
(* whose time to live is over goes between them, with the new entry.  The  *)
(* nonce makes the entry a new member, also if the one it is like is lost. *)
Alike(r) ==
    {x \in tpm[key[r]] \cup recorded[key[r]] \cup {entry[q] : q \in {q \in Req : pc[q] = "expire"}} :
        x.ts = entry[r].ts /\ x.tokens = entry[r].tokens}
Nonce(r) == CHOOSE n \in 0..Cardinality(Alike(r)) : \A x \in Alike(r) : x.nonce # n

RecordAdd(r) ==
    LET k == key[r]
        e == [entry[r] EXCEPT !.nonce = Nonce(r)]
    IN
    /\ pc[r] = "zadd"
    /\ tpm' = [tpm EXCEPT ![k] = @ \cup {e}]
    /\ entry' = [entry EXCEPT ![r] = e]
    /\ Goto(r, "expire")
    /\ UNCHANGED <<clock, rpm, rpmTTL, tpmTTL, key, now, readAt, historyVars>>

RecordExpireNever(r) ==        \* mutant: the entry lives as long as the others
    /\ pc[r] = "expire"
    /\ recorded' = [recorded EXCEPT ![key[r]] = @ \cup Counting({entry[r]}, clock)]
    /\ Return(r)
    /\ UNCHANGED <<clock, redisVars, key, admitted, failedOpen>>
RecordExpire(r) ==
    LET k == key[r] IN
    /\ pc[r] = "expire"
    /\ tpmTTL' = IF tpm[k] = {} THEN tpmTTL ELSE [tpmTTL EXCEPT ![k] = NewTTL]
    /\ recorded' = [recorded EXCEPT ![k] = @ \cup Counting({entry[r]}, clock)]
    /\ Return(r)
    /\ UNCHANGED <<clock, rpm, rpmTTL, tpm, key, admitted, failedOpen>>

(* The gateway stops, or the request or its recording fails.               *)
Abandon(r) ==
    /\ pc[r] # "idle"
    /\ Return(r)
    /\ UNCHANGED <<clock, redisVars, key, historyVars>>

-----------------------------------------------------------------------------
Next == \/ Tick
        \/ \E r \in Req : \/ Arrive(r) \/ Allow(r) \/ Respond(r)
                          \/ RecordAdd(r) \/ RecordExpire(r)
                          \/ ReplyLost(r) \/ FailOpen(r) \/ Abandon(r)

Spec == Init /\ [][Next]_vars

-----------------------------------------------------------------------------
(* Every variable has its type, handlers forget what they have used, and   *)
(* the requests of a key that sends no more do not stay in Redis forever.  *)
TypeOK ==
    /\ clock \in 0..MaxClock
    /\ rpm \in [Key -> SUBSET Int] /\ tpm \in [Key -> SUBSET Entry]
    /\ rpmTTL \in [Key -> Int \cup {NoTTL}]
    /\ tpmTTL \in [Key -> Int \cup {NoTTL}]
    /\ pc \in [Req -> PC] /\ key \in [Req -> Key]
    /\ now \in [Req -> Int] /\ readAt \in [Req -> Int]
    /\ entry \in [Req -> Entry]
    /\ admitted \in [Key -> SUBSET Int]
    /\ \A k \in Key : rpmTTL[k] = NoTTL <=> rpm[k] = {}
    /\ \A r \in Req : /\ pc[r] \in {"idle", "serving"} => now[r] = 0 /\ readAt[r] = 0
                      /\ pc[r] \notin {"zadd", "expire"} => entry[r] = NoEntry
    /\ failedOpen \in [Key -> Nat] /\ recorded \in [Key -> SUBSET Entry]

(* Any interval of the window's length, less what clocks and commands may  *)
(* be late by, has at most the key's limit of milliseconds at which its    *)
(* requests were let in, whatever gateways, retries and expiries do.       *)
(* Requests of one millisecond are one member of the set and count once.   *)
Between(S, from, length) == {s \in S : from < s /\ s <= from + length}
WindowLimit ==
    \A k \in Key : \A s \in admitted[k] :
        Cardinality(Between(admitted[k], s - 1, Window - Delay - 2 * Skew)) <= Rpm[k]

(* A token entry whose pipeline completed counts until its window is over, *)
(* with one exception, of which RecordTokens sees no error: the set's time *)
(* to live ran out between the entry's ZADD and its EXPIRE.  One expiry    *)
(* takes at most the entry each handler has under way, and whatever else   *)
(* was recorded before it is out of its window: within a window, no more   *)
(* entries are missing than there are handlers.                            *)
TokensCounted ==
    \A k \in Key : Cardinality(recorded[k] \ tpm[k]) <= Cardinality(Req)

(* "TPM is checked against actual token totals recorded": the total passes *)
(* the limit by at most what the requests in flight, and those that failed *)
(* open, may use.                                                          *)
MostTokens == CHOOSE n \in Tokens : \A m \in Tokens : m <= n
TokenOvershoot ==
    \A k \in Key : Tpm[k] > 0 =>
        TokensIn(tpm[k]) <=
            Tpm[k] - 1 + (Cardinality(Req) + failedOpen[k]) * MostTokens
=============================================================================
