------------------------- MODULE RateLimiterProofs -------------------------
(* Theorems about RateLimiter, for any limits, window, time to live, clock  *)
(* skew and delay, and any number of keys, gateways and requests.           *)
EXTENDS TokenSums

(* What the proofs need of the constants.                                   *)
LEMMA Constants ==
    /\ IsFiniteSet(Req)
    /\ Rpm \in [Key -> Nat] /\ Tpm \in [Key -> Nat] /\ Tokens \subseteq Nat
    /\ Window \in Nat /\ TTL \in Nat /\ Window <= TTL
    /\ Skew \in Nat /\ Delay \in Nat /\ MaxClock \in Nat
    /\ NoTTL \notin Int
  BY LimiterAssumption

Sizes == \A k \in Key : /\ IsFiniteSet(rpm[k]) /\ IsFiniteSet(tpm[k])
                        /\ IsFiniteSet(admitted[k]) /\ IsFiniteSet(recorded[k])
Typed == TypeOK /\ Sizes

(* There is a nonce that no member like the new one has.                    *)
LEMMA NonceType ==
    ASSUME Typed, NEW r \in Req
    PROVE  Nonce(r) \in Nat
<1> DEFINE E == {entry[q] : q \in {q \in Req : pc[q] = "expire"}}
           A == Alike(r)
           N == {x.nonce : x \in A}
           c == Cardinality(A)
<1>1. /\ key[r] \in Key /\ tpm[key[r]] \subseteq Entry /\ recorded[key[r]] \subseteq Entry
      /\ entry \in [Req -> Entry]
  BY DEF Typed, TypeOK
<1>2. IsFiniteSet(E)
  <2>1. IsFiniteSet({q \in Req : pc[q] = "expire"})
    BY Constants, FS_Subset
  <2> DEFINE Q == {q \in Req : pc[q] = "expire"}
             f == [q \in Q |-> entry[q]]
  <2>2. f \in Surjection(Q, E)
    BY DEF Surjection
  <2> QED
    BY <2>1, <2>2, FS_Surjection
<1>3. IsFiniteSet(tpm[key[r]] \cup recorded[key[r]] \cup E)
  BY <1>1, <1>2, FS_Union DEF Typed, Sizes
<1>4. IsFiniteSet(A) /\ c \in Nat
  <2>1. A \in SUBSET (tpm[key[r]] \cup recorded[key[r]] \cup E)
    BY DEF Alike
  <2> QED
    BY <1>3, <2>1, FS_Subset, FS_CardinalityType
<1>5. IsFiniteSet(N) /\ Cardinality(N) <= c /\ Cardinality(N) \in Nat
  <2> DEFINE f == [x \in A |-> x.nonce]
  <2>1. f \in Surjection(A, N)
    BY DEF Surjection
  <2> HIDE DEF N, A
  <2> QED
    BY <1>4, <2>1, FS_Surjection, FS_CardinalityType
<1>6. \E n \in 0..c : n \notin N
  <2> SUFFICES ASSUME 0..c \subseteq N PROVE FALSE
    OBVIOUS
  <2>1. Cardinality(0..c) <= Cardinality(N)
    BY <1>5, FS_Subset
  <2>2. Cardinality(0..c) = c - 0 + 1
    BY <1>4, FS_Interval
  <2> HIDE DEF c, N
  <2> QED
    BY <1>4, <1>5, <2>1, <2>2
<1>7. \E n \in 0..c : \A x \in A : x.nonce # n
  BY <1>6
<1> QED
  BY <1>4, <1>7 DEF Nonce

LEMMA CurrentFinite ==
    ASSUME Sizes, NEW k \in Key, NEW n
    PROVE  IsFiniteSet(CurrentRpm(k, n)) /\ IsFiniteSet(CurrentTpm(k, n))
<1>1. CurrentRpm(k, n) \in SUBSET rpm[k] /\ CurrentTpm(k, n) \in SUBSET tpm[k]
  BY DEF CurrentRpm, CurrentTpm
<1> QED
  BY <1>1, FS_Subset DEF Sizes

LEMMA ScriptType ==
    ASSUME Typed, NEW r \in Req, Script(r)
    PROVE  /\ rpm' \in [Key -> SUBSET Int] /\ tpm' \in [Key -> SUBSET Entry]
           /\ rpmTTL' \in [Key -> Int \cup {NoTTL}]
           /\ tpmTTL' \in [Key -> Int \cup {NoTTL}]
           /\ \A k \in Key : rpmTTL'[k] = NoTTL <=> rpm'[k] = {}
           /\ admitted' \in [Key -> SUBSET Int]
           /\ Sizes'
           /\ UNCHANGED <<clock, key, entry, failedOpen, recorded>>
<1> DEFINE k == key[r]
           n == now[r]
<1>1. k \in Key /\ n \in Int /\ clock + TTL \in Int /\ clock + TTL # NoTTL
  BY Constants DEF Typed, TypeOK
<1>2. CurrentRpm(k, n) \subseteq rpm[k] /\ CurrentTpm(k, n) \subseteq tpm[k]
  BY DEF CurrentRpm, CurrentTpm
<1>3. IsFiniteSet(CurrentRpm(k, n)) /\ IsFiniteSet(CurrentTpm(k, n))
  BY <1>1, CurrentFinite DEF Typed
<1>4. /\ IsFiniteSet(CurrentRpm(k, n) \cup {n})
      /\ IsFiniteSet(admitted[k] \cup {n})
  BY <1>1, <1>3, FS_AddElement DEF Typed, Sizes
<1>5. CASE LetIn(k, n)
  <2>1. /\ tpm' = [tpm EXCEPT ![k] = CurrentTpm(k, n)]
        /\ rpm' = [rpm EXCEPT ![k] = CurrentRpm(k, n) \cup {n}]
        /\ rpmTTL' = [rpmTTL EXCEPT ![k] = clock + TTL]
        /\ tpmTTL' = [tpmTTL EXCEPT ![k] =
                        IF CurrentTpm(k, n) = {} THEN NoTTL ELSE clock + TTL]
        /\ admitted' = [admitted EXCEPT ![k] = @ \cup {n}]
        /\ UNCHANGED <<clock, key, entry, failedOpen, recorded>>
    BY <1>5 DEF Script, NewTTL
  <2>2. Sizes'
    BY <1>1, <1>3, <1>4, <2>1 DEF Typed, TypeOK, Sizes
  <2>3. /\ rpm' \in [Key -> SUBSET Int] /\ tpm' \in [Key -> SUBSET Entry]
        /\ rpmTTL' \in [Key -> Int \cup {NoTTL}]
        /\ tpmTTL' \in [Key -> Int \cup {NoTTL}]
    BY <1>1, <1>2, <2>1 DEF Typed, TypeOK
  <2>4. admitted' \in [Key -> SUBSET Int]
    BY <1>1, <2>1 DEF Typed, TypeOK
  <2>5. \A j \in Key : rpmTTL'[j] = NoTTL <=> rpm'[j] = {}
    BY <1>1, <2>1 DEF Typed, TypeOK
  <2> QED
    BY <2>1, <2>2, <2>3, <2>4, <2>5
<1>6. CASE ~LetIn(k, n)
  <2>1. /\ tpm' = [tpm EXCEPT ![k] = CurrentTpm(k, n)]
        /\ rpm' = [rpm EXCEPT ![k] = CurrentRpm(k, n)]
        /\ rpmTTL' = [rpmTTL EXCEPT ![k] =
                        IF CurrentRpm(k, n) = {} THEN NoTTL ELSE rpmTTL[k]]
        /\ tpmTTL' = [tpmTTL EXCEPT ![k] =
                        IF CurrentTpm(k, n) = {} THEN NoTTL ELSE tpmTTL[k]]
        /\ UNCHANGED <<clock, key, entry, admitted, failedOpen, recorded>>
    BY <1>6 DEF Script
  <2>2. Sizes'
    BY <1>1, <1>3, <2>1 DEF Typed, TypeOK, Sizes
  <2> QED
    BY <1>1, <1>2, <2>1, <2>2 DEF Typed, TypeOK
<1> QED
  BY <1>5, <1>6

LEMMA TypeInit == Init => Typed
  BY Constants, FS_EmptySet
  DEF Init, Typed, TypeOK, Sizes, PC, Entry, NoEntry

LEMMA TypeNext == Typed /\ [Next]_vars => Typed'
<1> SUFFICES ASSUME Typed, [Next]_vars PROVE Typed'
  OBVIOUS
<1> USE Constants DEF redisVars, handlerVars, historyVars
<1>0. NoEntry \in Entry
  BY DEF NoEntry, Entry
<1>1. CASE Tick
  <2>1. /\ clock' \in 0..MaxClock /\ clock' = clock + 1
        /\ \A k \in Key : rpmTTL'[k] = NoTTL <=> rpm'[k] = {}
        /\ rpm' \in [Key -> SUBSET Int] /\ tpm' \in [Key -> SUBSET Entry]
        /\ rpmTTL' \in [Key -> Int \cup {NoTTL}]
        /\ tpmTTL' \in [Key -> Int \cup {NoTTL}]
        /\ recorded' \in [Key -> SUBSET Entry]
    BY <1>1 DEF Tick, Typed, TypeOK, Expired, Counting
  <2>2. Sizes'
    <3> SUFFICES ASSUME NEW k \in Key
                 PROVE  /\ IsFiniteSet(rpm'[k]) /\ IsFiniteSet(tpm'[k])
                        /\ IsFiniteSet(admitted'[k]) /\ IsFiniteSet(recorded'[k])
      BY DEF Sizes
    <3>1. recorded'[k] \in SUBSET recorded[k]
      BY <1>1 DEF Tick, Counting
    <3>2. IsFiniteSet(recorded'[k])
      BY <3>1, FS_Subset DEF Typed, Sizes
    <3> QED
      BY <1>1, <3>2, FS_EmptySet DEF Tick, Typed, TypeOK, Sizes
  <2> QED
    BY <1>1, <2>1, <2>2 DEF Tick, Typed, TypeOK
<1>2. ASSUME NEW r \in Req, Arrive(r) PROVE Typed'
  BY <1>2 DEF Arrive, Goto, Typed, TypeOK, Sizes, PC
<1>3. ASSUME NEW r \in Req, Allow(r) PROVE Typed'
  <2>1. Script(r) /\ Forget(r) /\ (Goto(r, "serving") \/ Goto(r, "idle"))
        /\ pc[r] # "idle" /\ pc[r] # "expire"
    BY <1>3 DEF Allow
  <2>2. /\ pc' \in [Req -> PC] /\ now' \in [Req -> Int] /\ readAt' \in [Req -> Int]
        /\ \A q \in Req : q # r => pc'[q] = pc[q] /\ now'[q] = now[q] /\ readAt'[q] = readAt[q]
        /\ now'[r] = 0 /\ readAt'[r] = 0
    BY <2>1 DEF Forget, Goto, Typed, TypeOK, PC
  <2>3. entry' = entry /\ entry[r] = NoEntry
    BY <1>3, <2>1 DEF Script, Allow, Typed, TypeOK
  <2>4. \A q \in Req : /\ pc'[q] \in {"idle", "serving"} => now'[q] = 0 /\ readAt'[q] = 0
                      /\ pc'[q] \notin {"zadd", "expire"} => entry'[q] = NoEntry
    BY <2>2, <2>3 DEF Typed, TypeOK
  <2> QED
    BY <2>1, <2>2, <2>4, ScriptType DEF Typed, TypeOK
<1>4. ASSUME NEW r \in Req, ReplyLost(r) PROVE Typed'
  <2>1. Script(r) /\ Goto(r, "retry") /\ UNCHANGED <<now, readAt>>
    BY <1>4 DEF ReplyLost
  <2>2. /\ pc' \in [Req -> PC]
        /\ pc[r] = "allow" /\ pc'[r] = "retry"
        /\ \A q \in Req : q # r => pc'[q] = pc[q]
    BY <1>4, <2>1 DEF ReplyLost, Goto, Typed, TypeOK, PC
  <2>3. entry' = entry
    BY <2>1 DEF Script
  <2>4. \A q \in Req : /\ pc'[q] \in {"idle", "serving"} => now'[q] = 0 /\ readAt'[q] = 0
                      /\ pc'[q] \notin {"zadd", "expire"} => entry'[q] = NoEntry
    BY <2>1, <2>2, <2>3 DEF Typed, TypeOK
  <2> QED
    BY <2>1, <2>2, <2>4, ScriptType DEF Typed, TypeOK
<1>5. ASSUME NEW r \in Req, FailOpen(r) PROVE Typed'
  BY <1>5 DEF FailOpen, Goto, Forget, Typed, TypeOK, Sizes, PC
<1>6. ASSUME NEW r \in Req, Respond(r) PROVE Typed'
  <2>1. PICK n \in Tokens, t \in clock - Skew..clock + Skew :
          IF n = 0
          THEN Goto(r, "idle") /\ UNCHANGED <<readAt, entry>>
          ELSE /\ Goto(r, "zadd")
               /\ readAt' = [readAt EXCEPT ![r] = clock]
               /\ entry' = [entry EXCEPT ![r] = [ts |-> t, tokens |-> n, nonce |-> 0]]
    BY <1>6 DEF Respond
  <2>2. [ts |-> t, tokens |-> n, nonce |-> 0] \in Entry
    BY DEF Entry, Typed, TypeOK
  <2>3. /\ entry' \in [Req -> Entry]
        /\ readAt' \in [Req -> Int] /\ pc' \in [Req -> PC]
        /\ \A q \in Req \ {r} : /\ entry'[q] = entry[q]
                                /\ readAt'[q] = readAt[q] /\ pc'[q] = pc[q]
    BY <1>6, <2>1, <2>2 DEF Respond, Goto, Typed, TypeOK, PC
  <2> QED
    BY <1>6, <2>1, <2>2, <2>3 DEF Respond, Goto, Typed, TypeOK, Sizes, PC
<1>7. ASSUME NEW r \in Req, RecordAdd(r) PROVE Typed'
  <2> DEFINE k == key[r]
             e == [entry[r] EXCEPT !.nonce = Nonce(r)]
  <2>1. k \in Key /\ entry[r] \in Entry /\ IsFiniteSet(tpm[k])
    BY DEF Typed, TypeOK, Sizes
  <2>2. Nonce(r) \in Nat
    BY NonceType
  <2>3. e \in Entry
    BY <2>1, <2>2 DEF Entry
  <2>4. IsFiniteSet(tpm[k] \cup {e})
    BY <2>1, FS_AddElement
  <2> HIDE DEF e
  <2>5. /\ tpm' = [tpm EXCEPT ![k] = @ \cup {e}]
        /\ entry' = [entry EXCEPT ![r] = e]
        /\ Goto(r, "expire") /\ pc[r] = "zadd"
        /\ UNCHANGED <<clock, rpm, rpmTTL, tpmTTL, key, now, readAt, historyVars>>
    BY <1>7 DEF RecordAdd, e
  <2>6. Sizes'
    BY <2>1, <2>4, <2>5 DEF Typed, TypeOK, Sizes
  <2> QED
    BY <2>1, <2>3, <2>5, <2>6 DEF Goto, Typed, TypeOK, PC
<1>8. ASSUME NEW r \in Req, RecordExpire(r) PROVE Typed'
  <2>1. tpmTTL' \in [Key -> Int \cup {NoTTL}] /\ recorded' \in [Key -> SUBSET Entry]
    BY <1>8 DEF RecordExpire, NewTTL, Counting, Typed, TypeOK
  <2>2. /\ pc' = [pc EXCEPT ![r] = "idle"] /\ entry' = [entry EXCEPT ![r] = NoEntry]
        /\ now' = [now EXCEPT ![r] = 0] /\ readAt' = [readAt EXCEPT ![r] = 0]
        /\ UNCHANGED <<clock, rpm, rpmTTL, tpm, key, admitted, failedOpen>>
    BY <1>8 DEF RecordExpire, Return, Goto, Forget
  <2>3. Sizes'
    <3> SUFFICES ASSUME NEW k \in Key PROVE IsFiniteSet(recorded'[k])
      BY <2>2 DEF Typed, Sizes
    <3>1. recorded'[k] \in SUBSET (recorded[k] \cup {entry[r]})
      BY <1>8 DEF RecordExpire, Counting, Typed, TypeOK
    <3>2. IsFiniteSet(recorded[k] \cup {entry[r]})
      BY FS_AddElement DEF Typed, Sizes
    <3> QED
      BY <3>1, <3>2, FS_Subset
  <2> QED
    BY <1>0, <2>1, <2>2, <2>3 DEF Typed, TypeOK, PC
<1>9. ASSUME NEW r \in Req, Abandon(r) PROVE Typed'
  BY <1>0, <1>9 DEF Abandon, Return, Goto, Forget, Typed, TypeOK, Sizes, PC
<1>10. CASE UNCHANGED vars
  BY <1>10 DEF vars, Typed, TypeOK, Sizes
<1> QED
  BY <1>1, <1>2, <1>3, <1>4, <1>5, <1>6, <1>7, <1>8, <1>9, <1>10 DEF Next

(* The types, and that a key's set of requests, if it is not empty, has an   *)
(* expiry.  Its set of tokens may have none: an entry whose EXPIRE never     *)
(* came is the first of a new set.                                          *)
THEOREM LimiterTypeCorrect == Spec => []TypeOK
<1>1. Typed => TypeOK
  BY DEF Typed
<1> QED
  BY <1>1, TypeInit, TypeNext, PTL DEF Spec

-----------------------------------------------------------------------------
(* WindowLimit is not inductive: what makes the count of the set the count  *)
(* of the window is that no stamp leaves the set before its window is over, *)
(* neither through a script with a late or a fast clock nor by expiry.      *)
StampsKept ==
    \A k \in Key : \A s \in admitted[k] : s + Window > clock + Skew => s \in rpm[k]
ExpiryIsLate ==
    \A k \in Key : \A s \in rpm[k] :
        s + TTL <= rpmTTL[k] + Skew /\ s <= clock + Skew
StampsInTime ==
    \A r \in Req : pc[r] \in {"allow", "retry"} =>
        /\ now[r] >= readAt[r] - Skew /\ now[r] <= readAt[r] + Skew
        /\ readAt[r] <= clock /\ clock <= readAt[r] + Delay

LimitInv == StampsKept /\ ExpiryIsLate /\ StampsInTime /\ WindowLimit

LEMMA LimitInit == Init => LimitInv
  BY Constants
  DEF Init, LimitInv, StampsKept, ExpiryIsLate, StampsInTime, WindowLimit

(* The invariant speaks of these variables only.                            *)
LEMMA LimitUnchanged ==
    ASSUME LimitInv, UNCHANGED <<clock, rpm, rpmTTL, admitted>>, StampsInTime'
    PROVE  LimitInv'
  BY DEF LimitInv, StampsKept, ExpiryIsLate, WindowLimit, Between

(* A handler that leaves the limiter, or never entered it.                  *)
LEMMA StampsLeave ==
    ASSUME Typed, StampsInTime, NEW r \in Req, clock' = clock,
           pc'[r] \notin {"allow", "retry"},
           \A q \in Req : q # r => pc'[q] = pc[q] /\ now'[q] = now[q] /\ readAt'[q] = readAt[q]
    PROVE  StampsInTime'
  BY DEF StampsInTime

(* No tick lets a command be later than its delay.                          *)
LEMMA StampsTick ==
    ASSUME Typed, StampsInTime, Tick
    PROVE  StampsInTime'
<1> SUFFICES ASSUME NEW r \in Req, pc[r] \in {"allow", "retry"}
             PROVE  /\ now[r] >= readAt[r] - Skew /\ now[r] <= readAt[r] + Skew
                    /\ readAt[r] <= clock + 1 /\ clock + 1 <= readAt[r] + Delay
  BY DEF StampsInTime, Tick, handlerVars
<1>1. /\ now[r] >= readAt[r] - Skew /\ now[r] <= readAt[r] + Skew
      /\ readAt[r] <= clock /\ clock <= readAt[r] + Delay
  BY DEF StampsInTime
<1>2. readAt[r] + Delay # clock
  BY DEF Tick, Urgent
<1>3. readAt[r] \in Int /\ clock \in Int
  BY Constants DEF Typed, TypeOK
<1> QED
  BY <1>1, <1>2, <1>3, Constants

LEMMA LimitTick ==
    ASSUME Typed, LimitInv, Tick
    PROVE  LimitInv'
<1> USE Constants DEF Typed, TypeOK, LimitInv, Tick, handlerVars
<1>1. StampsKept'
  <2> SUFFICES ASSUME NEW k \in Key, NEW s \in admitted[k],
                      s + Window > clock + 1 + Skew
               PROVE  s \in rpm'[k]
    BY DEF StampsKept
  <2>1. s \in Int /\ clock \in Int /\ s \in rpm[k]
    BY DEF StampsKept
  <2>2. ~Expired(rpmTTL, k)
    <3>1. s + TTL <= rpmTTL[k] + Skew /\ rpmTTL[k] \in Int
      BY <2>1 DEF ExpiryIsLate
    <3> QED
      BY <2>1, <3>1 DEF Expired
  <2> QED
    BY <2>1, <2>2
<1>2. ExpiryIsLate'
  <2> SUFFICES ASSUME NEW k \in Key, NEW s \in rpm'[k]
               PROVE  s + TTL <= rpmTTL'[k] + Skew /\ s <= clock' + Skew
    BY DEF ExpiryIsLate
  <2>1. s \in rpm[k] /\ s \in Int /\ rpmTTL'[k] = rpmTTL[k] /\ clock \in Int
    BY DEF Expired
  <2>2. s + TTL <= rpmTTL[k] + Skew /\ s <= clock + Skew
    BY <2>1 DEF ExpiryIsLate
  <2> QED
    BY <2>1, <2>2
<1>3. StampsInTime'
  BY StampsTick
<1>4. WindowLimit'
  BY DEF WindowLimit, Between
<1> QED
  BY <1>1, <1>2, <1>3, <1>4

(* The script, whatever becomes of its reply.                               *)
LEMMA LimitScript ==
    ASSUME Typed, LimitInv, NEW r \in Req, pc[r] \in {"allow", "retry"}, Script(r),
           StampsInTime'
    PROVE  LimitInv'
<1> DEFINE k == key[r]
           n == now[r]
           L == Window - Delay - 2 * Skew
           R == CurrentRpm(k, n)
<1> USE Constants
<1>1. /\ k \in Key /\ n \in Int /\ clock \in Int /\ L \in Int
      /\ n <= clock + Skew /\ clock <= n + Skew + Delay
      /\ clock' = clock /\ readAt[r] \in Int
  BY DEF Typed, TypeOK, LimitInv, StampsInTime, Script
<1>2. R \subseteq rpm[k] /\ IsFiniteSet(R) /\ \A s \in rpm[k] : s > n - Window => s \in R
  BY <1>1, CurrentFinite DEF Typed, CurrentRpm
<1>3. /\ \A j \in Key : rpm[j] \subseteq Int /\ admitted[j] \subseteq Int
      /\ \A s \in R : s \in Int /\ rpmTTL[k] # NoTTL /\ rpmTTL[k] \in Int
  BY <1>1, <1>2 DEF Typed, TypeOK
<1>4. \A s \in admitted[k] : s + Window > clock + Skew => s \in R
  BY <1>1, <1>2, <1>3 DEF LimitInv, StampsKept
<1>5. CASE LetIn(k, n)
  <2>1. /\ rpm' = [rpm EXCEPT ![k] = R \cup {n}]
        /\ rpmTTL' = [rpmTTL EXCEPT ![k] = clock + TTL]
        /\ admitted' = [admitted EXCEPT ![k] = @ \cup {n}]
    BY <1>5 DEF Script, NewTTL
  <2>2. /\ rpm'[k] = R \cup {n} /\ admitted'[k] = admitted[k] \cup {n}
        /\ rpmTTL'[k] = clock + TTL
        /\ \A j \in Key : j # k => /\ rpm'[j] = rpm[j] /\ admitted'[j] = admitted[j]
                                   /\ rpmTTL'[j] = rpmTTL[j]
    BY <1>1, <2>1 DEF Typed, TypeOK
  <2>3. StampsKept'
    BY <1>1, <1>4, <2>2 DEF LimitInv, StampsKept
  <2>4. ExpiryIsLate'
    <3>1. \A s \in R \cup {n} : s \in Int /\ s <= clock + Skew
      BY <1>1, <1>2, <1>3 DEF LimitInv, ExpiryIsLate
    <3>2. \A s \in rpm'[k] : s + TTL <= rpmTTL'[k] + Skew /\ s <= clock + Skew
      BY <1>1, <2>2, <3>1
    <3> QED
      BY <1>1, <2>2, <3>2 DEF LimitInv, ExpiryIsLate
  <2>5. WindowLimit'
    <3> SUFFICES ASSUME NEW s \in admitted'[k]
                 PROVE  Cardinality(Between(admitted'[k], s - 1, L)) <= Rpm[k]
      BY <1>1, <2>2 DEF LimitInv, WindowLimit, Between
    <3> DEFINE B == Between(admitted'[k], s - 1, L)
    <3>1. s \in Int /\ B \subseteq admitted[k] \cup {n}
      BY <1>1, <1>3, <2>2 DEF Between
    <3>2. CASE n \in B
      <4>1. B \subseteq R \cup {n}
        <5> SUFFICES ASSUME NEW a \in B, a # n PROVE a \in R
          OBVIOUS
        <5>1. a \in admitted[k] /\ a \in Int /\ a > s - 1 /\ n <= s - 1 + L
          BY <1>1, <1>3, <3>1, <3>2 DEF Between
        <5>2. a + Window > clock + Skew
          BY <1>1, <3>1, <5>1
        <5> QED
          BY <1>4, <5>1, <5>2
      <4>2. Cardinality(R) < Rpm[k] /\ Cardinality(R) \in Nat /\ Rpm[k] \in Nat
        BY <1>1, <1>2, <1>5, FS_CardinalityType DEF LetIn
      <4>3. /\ IsFiniteSet(R \cup {n})
            /\ Cardinality(R \cup {n}) = IF n \in R THEN Cardinality(R) ELSE Cardinality(R) + 1
        BY <1>2, FS_AddElement
      <4>4. IsFiniteSet(B) /\ Cardinality(B) <= Cardinality(R \cup {n})
        BY <4>1, <4>3, FS_Subset
      <4>5. Cardinality(B) \in Nat
        BY <4>4, FS_CardinalityType
      <4>6. Cardinality(B) <= Rpm[k]
        <5> HIDE DEF B, R
        <5> QED
          BY <4>2, <4>3, <4>4, <4>5
      <4> QED
        BY <4>6
    <3>3. CASE n \notin B
      <4>1. B = Between(admitted[k], s - 1, L)
        BY <2>2, <3>3 DEF Between
      <4>2. CASE s \in admitted[k]
        BY <1>1, <4>1, <4>2 DEF LimitInv, WindowLimit
      <4>3. CASE s = n /\ L <= 0
        <5>1. B = {}
          BY <1>1, <1>3, <3>1, <4>1, <4>3 DEF Between
        <5>2. Cardinality(B) = 0
          BY <5>1, FS_EmptySet
        <5>3. Cardinality(B) <= Rpm[k]
          <6> HIDE DEF B
          <6> QED
            BY <1>1, <5>2
        <5> QED
          BY <5>3
      <4>4. s = n /\ L > 0 => n \in B
        BY <1>1, <2>2 DEF Between
      <4> QED
        BY <1>1, <2>2, <3>3, <4>2, <4>3, <4>4
    <3> QED
      BY <3>2, <3>3
  <2> QED
    BY <2>3, <2>4, <2>5 DEF LimitInv
<1>6. CASE ~LetIn(k, n)
  <2>1. /\ rpm' = [rpm EXCEPT ![k] = R] /\ admitted' = admitted
        /\ rpmTTL' = [rpmTTL EXCEPT ![k] = IF R = {} THEN NoTTL ELSE rpmTTL[k]]
    BY <1>6 DEF Script
  <2>2. /\ rpm'[k] = R /\ (R # {} => rpmTTL'[k] = rpmTTL[k])
        /\ \A j \in Key : j # k => rpm'[j] = rpm[j] /\ rpmTTL'[j] = rpmTTL[j]
    BY <1>1, <2>1 DEF Typed, TypeOK
  <2>3. StampsKept'
    BY <1>1, <1>4, <2>1, <2>2 DEF LimitInv, StampsKept
  <2>4. ExpiryIsLate'
    BY <1>1, <1>2, <2>2 DEF LimitInv, ExpiryIsLate
  <2>5. WindowLimit'
    BY <2>1 DEF LimitInv, WindowLimit, Between
  <2> QED
    BY <2>3, <2>4, <2>5 DEF LimitInv
<1> QED
  BY <1>5, <1>6

LEMMA LimitNext == Typed /\ LimitInv /\ [Next]_vars => LimitInv'
<1> SUFFICES ASSUME Typed, LimitInv, [Next]_vars PROVE LimitInv'
  OBVIOUS
<1> USE Constants DEF redisVars, handlerVars, historyVars
<1>0. /\ pc \in [Req -> PC] /\ now \in [Req -> Int] /\ readAt \in [Req -> Int]
      /\ clock \in Int /\ StampsInTime
  BY DEF Typed, TypeOK, LimitInv
<1>1. CASE Tick
  BY <1>1, LimitTick
<1>2. ASSUME NEW r \in Req, Arrive(r) PROVE LimitInv'
  <2>1. PICK t \in clock - Skew..clock + Skew : now' = [now EXCEPT ![r] = t]
    BY <1>2 DEF Arrive
  <2>2. StampsInTime'
    BY <1>0, <1>2, <2>1 DEF Arrive, Goto, StampsInTime
  <2> QED
    BY <1>2, <2>2, LimitUnchanged DEF Arrive
<1>3. ASSUME NEW r \in Req, Allow(r) PROVE LimitInv'
  <2>1. StampsInTime'
    <3>1. /\ clock' = clock /\ pc'[r] \notin {"allow", "retry"}
          /\ \A q \in Req : q # r => pc'[q] = pc[q] /\ now'[q] = now[q] /\ readAt'[q] = readAt[q]
      BY <1>0, <1>3 DEF Allow, Script, Goto, Forget
    <3> QED
      BY <1>0, <3>1, StampsLeave
  <2> QED
    BY <1>3, <2>1, LimitScript DEF Allow
<1>4. ASSUME NEW r \in Req, ReplyLost(r) PROVE LimitInv'
  <2>1. StampsInTime'
    BY <1>0, <1>4 DEF ReplyLost, Script, Goto, StampsInTime
  <2> QED
    BY <1>4, <2>1, LimitScript DEF ReplyLost
<1>5. ASSUME NEW r \in Req,
             FailOpen(r) \/ Respond(r) \/ RecordAdd(r) \/ RecordExpire(r) \/ Abandon(r)
      PROVE  LimitInv'
  <2>1. UNCHANGED <<clock, rpm, rpmTTL, admitted>>
    BY <1>5 DEF FailOpen, Respond, RecordAdd, RecordExpire, Abandon
  <2>2. /\ pc'[r] \notin {"allow", "retry"}
        /\ \A q \in Req : q # r => pc'[q] = pc[q] /\ now'[q] = now[q] /\ readAt'[q] = readAt[q]
    BY <1>0, <1>5
    DEF FailOpen, Respond, RecordAdd, RecordExpire, Abandon, Return, Goto, Forget
  <2> QED
    BY <1>0, <2>1, <2>2, StampsLeave, LimitUnchanged
<1>6. CASE UNCHANGED vars
  BY <1>0, <1>6, LimitUnchanged DEF vars, StampsInTime
<1> QED
  BY <1>1, <1>2, <1>3, <1>4, <1>5, <1>6 DEF Next

(* In any interval of the window's length, less the delay of a command and  *)
(* the skew of two clocks, a key's requests were let in at no more          *)
(* milliseconds than its limit: for any limit, window, time to live no      *)
(* shorter than the window, and any number of gateways that share Redis.    *)
THEOREM WindowSafe == Spec => []WindowLimit
<1>1. LimitInv => WindowLimit
  BY DEF LimitInv
<1> QED
  BY <1>1, TypeInit, TypeNext, LimitInit, LimitNext, PTL DEF Spec

-----------------------------------------------------------------------------
(* An entry counts until its window is over: the script keeps what any      *)
(* clock still sees in the window, the set does not expire before, and no   *)
(* entry is from a time that is still to come.  The set may expire while a  *)
(* handler is between ZADD and EXPIRE: Overtaken(k) are the handlers whose  *)
(* entry is lost so and that do not know it.                                *)
EntriesInTime ==
    /\ \A k \in Key : \A e \in tpm[k] \cup recorded[k] : e.ts <= clock + Skew
    /\ \A r \in Req : pc[r] \in {"zadd", "expire"} => entry[r].ts <= clock + Skew
RecordedKept ==
    \A k \in Key :
        /\ tpm[k] = {} => tpmTTL[k] = NoTTL
        /\ \A e \in recorded[k] :
              /\ e.ts + Window > clock + Skew
              /\ tpmTTL[k] # NoTTL => e.ts + TTL <= tpmTTL[k] + Skew

Missing(k) == recorded[k] \ tpm[k]
Overtaken(k) ==
    {r \in Req : /\ pc[r] = "expire" /\ key[r] = k
                 /\ Counting({entry[r]}, clock) \ tpm[k] # {}}
MissingFits(k) ==
    Cardinality(Missing(k)) + Cardinality(Overtaken(k)) <= Cardinality(Req)

CountInv == EntriesInTime /\ RecordedKept /\ StampsInTime
            /\ \A k \in Key : MissingFits(k)

LEMMA MissingSizes ==
    ASSUME Typed, NEW k \in Key
    PROVE  /\ IsFiniteSet(Missing(k)) /\ Cardinality(Missing(k)) \in Nat
           /\ IsFiniteSet(Overtaken(k)) /\ Cardinality(Overtaken(k)) \in Nat
           /\ Cardinality(Req) \in Nat
<1>1. Missing(k) \in SUBSET recorded[k] /\ Overtaken(k) \in SUBSET Req
  BY DEF Missing, Overtaken
<1> QED
  BY <1>1, Constants, FS_Subset, FS_CardinalityType DEF Typed, Sizes

(* A step after which no more is missing and no more pipelines are overtaken *)
(* keeps the bound.                                                         *)
LEMMA MissingFewer ==
    ASSUME Typed, CountInv, NEW k \in Key,
           Missing(k)' \subseteq Missing(k), Overtaken(k)' \subseteq Overtaken(k)
    PROVE  MissingFits(k)'
<1> DEFINE m == Cardinality(Missing(k))
           o == Cardinality(Overtaken(k))
           n == Cardinality(Missing(k)')
           p == Cardinality(Overtaken(k)')
<1>1. m \in Nat /\ o \in Nat /\ n \in Nat /\ p \in Nat /\ n <= m /\ p <= o
  BY MissingSizes, FS_Subset, FS_CardinalityType
<1>2. m + o <= Cardinality(Req) /\ Cardinality(Req) \in Nat
  BY MissingSizes DEF CountInv, MissingFits
<1>3. n + p <= Cardinality(Req)
  <2> HIDE DEF m, n, o, p
  <2> QED
    BY <1>1, <1>2
<1> QED
  BY <1>3 DEF MissingFits

LEMMA CountInit == Init => CountInv
<1> SUFFICES ASSUME Init PROVE CountInv
  OBVIOUS
<1>1. EntriesInTime /\ RecordedKept /\ StampsInTime
  BY DEF Init, EntriesInTime, RecordedKept, StampsInTime
<1>2. ASSUME NEW k \in Key PROVE MissingFits(k)
  <2>1. Missing(k) = {} /\ Overtaken(k) = {}
    BY DEF Init, Missing, Overtaken
  <2>2. Cardinality({}) = 0 /\ Cardinality(Req) \in Nat
    BY Constants, FS_EmptySet, FS_CardinalityType
  <2> QED
    BY <2>1, <2>2 DEF MissingFits
<1> QED
  BY <1>1, <1>2 DEF CountInv

(* A step that leaves the sets and the time alone, and starts no handler's  *)
(* EXPIRE, disturbs nothing here.                                           *)
LEMMA MissingSame ==
    ASSUME Typed, CountInv, NEW r \in Req, UNCHANGED <<clock, tpm, recorded>>,
           pc'[r] # "expire",
           \A q \in Req : q # r => pc'[q] = pc[q] /\ entry'[q] = entry[q] /\ key'[q] = key[q]
    PROVE  \A k \in Key : MissingFits(k)'
<1> SUFFICES ASSUME NEW k \in Key PROVE MissingFits(k)'
  OBVIOUS
<1>1. Missing(k)' \subseteq Missing(k) /\ Overtaken(k)' \subseteq Overtaken(k)
  BY DEF Missing, Overtaken, Counting
<1> QED
  BY <1>1, MissingFewer

(* The script drops only what is out of its own window, so nothing that is  *)
(* recorded, and where it sets an expiry, sets a later one.                 *)
LEMMA CountScript ==
    ASSUME Typed, CountInv, NEW r \in Req, pc[r] \in {"allow", "retry"}, Script(r),
           \A q \in Req : pc'[q] \in {"zadd", "expire"} => pc[q] = pc'[q]
    PROVE  EntriesInTime' /\ RecordedKept' /\ \A k \in Key : MissingFits(k)'
<1> DEFINE k == key[r]
           n == now[r]
           T == CurrentTpm(k, n)
<1> USE Constants
<1>1. /\ k \in Key /\ n \in Int /\ clock \in Int /\ n <= clock + Skew
      /\ UNCHANGED <<clock, entry, recorded, key>>
      /\ tpm \in [Key -> SUBSET Entry] /\ tpmTTL \in [Key -> Int \cup {NoTTL}]
      /\ recorded \in [Key -> SUBSET Entry] /\ entry \in [Req -> Entry]
  BY DEF Typed, TypeOK, CountInv, StampsInTime, Script
<1>2. T \subseteq tpm[k] /\ \A e \in tpm[k] : e.ts > n - Window => e \in T
  BY DEF CurrentTpm
<1>3. /\ tpm' = [tpm EXCEPT ![k] = T]
      /\ \/ tpmTTL' = [tpmTTL EXCEPT ![k] = IF T = {} THEN NoTTL ELSE clock + TTL]
         \/ tpmTTL' = [tpmTTL EXCEPT ![k] = IF T = {} THEN NoTTL ELSE tpmTTL[k]]
  BY DEF Script, NewTTL
<1>4. \A j \in Key : tpm'[j] \subseteq tpm[j]
  BY <1>1, <1>2, <1>3
<1>5. EntriesInTime'
  BY <1>1, <1>4 DEF CountInv, EntriesInTime
<1>6. RecordedKept'
  <2> SUFFICES ASSUME NEW j \in Key
               PROVE  /\ tpm'[j] = {} => tpmTTL'[j] = NoTTL
                      /\ \A e \in recorded[j] :
                            /\ e.ts + Window > clock + Skew
                            /\ tpmTTL'[j] # NoTTL => e.ts + TTL <= tpmTTL'[j] + Skew
    BY <1>1 DEF RecordedKept
  <2>1. tpm[j] = {} => tpmTTL[j] = NoTTL
    BY DEF CountInv, RecordedKept
  <2>2. tpm'[j] = {} => tpmTTL'[j] = NoTTL
    BY <1>1, <1>3, <2>1
  <2>3. ASSUME NEW e \in recorded[j]
        PROVE  /\ e.ts + Window > clock + Skew
               /\ tpmTTL'[j] # NoTTL => e.ts + TTL <= tpmTTL'[j] + Skew
    <3>1. /\ e.ts \in Int /\ e.ts <= clock + Skew
          /\ e.ts + Window > clock + Skew
          /\ tpmTTL[j] # NoTTL => e.ts + TTL <= tpmTTL[j] + Skew
      BY <1>1 DEF CountInv, RecordedKept, EntriesInTime, Entry
    <3>2. tpmTTL'[j] = clock + TTL \/ tpmTTL'[j] = tpmTTL[j] \/ tpmTTL'[j] = NoTTL
      BY <1>1, <1>3
    <3> QED
      BY <1>1, <3>1, <3>2
  <2> QED
    BY <2>2, <2>3
<1>7. ASSUME NEW j \in Key PROVE MissingFits(j)'
  <2>1. ASSUME NEW e \in tpm[j], e.ts + Window > clock + Skew PROVE e \in tpm'[j]
    <3>1. e.ts \in Int
      BY <1>1 DEF Entry
    <3>2. e.ts > n - Window
      BY <1>1, <2>1, <3>1
    <3> QED
      BY <1>1, <1>2, <1>3, <3>2
  <2>2. Missing(j)' \subseteq Missing(j)
    BY <1>1, <2>1 DEF Missing, CountInv, RecordedKept
  <2>3. Overtaken(j)' \subseteq Overtaken(j)
    BY <1>1, <2>1 DEF Overtaken, Counting
  <2> QED
    BY <2>2, <2>3, MissingFewer
<1> QED
  BY <1>5, <1>6, <1>7

(* An expiry of the set takes what is out of its window, and the entries of *)
(* handlers that have not set theirs: nothing that is recorded.             *)
LEMMA CountTick ==
    ASSUME Typed, CountInv, Tick
    PROVE  CountInv'
<1> USE Constants DEF Typed, TypeOK, handlerVars
<1>1. clock \in Int /\ clock' = clock + 1
  BY DEF Tick
<1>2. EntriesInTime'
  <2>1. \A k \in Key : \A e \in tpm'[k] \cup recorded'[k] :
            e \in tpm[k] \cup recorded[k] /\ e.ts \in Int
    BY DEF Tick, Entry, Counting
  <2>2. \A r \in Req : pc'[r] = pc[r] /\ entry'[r] = entry[r] /\ entry[r].ts \in Int
    BY DEF Tick, Entry
  <2> QED
    BY <1>1, <2>1, <2>2 DEF CountInv, EntriesInTime
<1>3. ASSUME NEW k \in Key, NEW e \in recorded'[k]
      PROVE  /\ e \in recorded[k] /\ e.ts + Window > clock' + Skew
             /\ ~Expired(tpmTTL, k)
             /\ tpmTTL'[k] # NoTTL => e.ts + TTL <= tpmTTL'[k] + Skew
  <2>1. /\ e \in recorded[k] /\ e.ts \in Int /\ e.ts + Window > clock + 1 + Skew
    BY <1>1, <1>3 DEF Tick, Counting, Entry
  <2>2. tpmTTL[k] # NoTTL => e.ts + TTL <= tpmTTL[k] + Skew
    BY <2>1 DEF CountInv, RecordedKept
  <2>3. ~Expired(tpmTTL, k)
    BY <1>1, <2>1, <2>2 DEF Expired
  <2> QED
    BY <1>1, <2>1, <2>2, <2>3 DEF Tick
<1>4. RecordedKept'
  <2>1. ASSUME NEW k \in Key PROVE tpm'[k] = {} => tpmTTL'[k] = NoTTL
    BY DEF Tick, CountInv, RecordedKept
  <2> QED
    BY <1>3, <2>1 DEF RecordedKept
<1>5. StampsInTime'
  BY StampsTick DEF CountInv
<1>6. ASSUME NEW k \in Key PROVE MissingFits(k)'
  <2>1. CASE Expired(tpmTTL, k)
    <3>1. Missing(k)' = {}
      BY <1>3, <2>1 DEF Missing
    <3>2. Overtaken(k)' \in SUBSET Req
      BY DEF Overtaken
    <3>3. /\ Cardinality(Overtaken(k)') \in Nat /\ Cardinality(Req) \in Nat
          /\ Cardinality(Overtaken(k)') <= Cardinality(Req) /\ Cardinality({}) = 0
      BY <3>2, FS_Subset, FS_CardinalityType, FS_EmptySet
    <3> QED
      BY <3>1, <3>3 DEF MissingFits
  <2>2. CASE ~Expired(tpmTTL, k)
    <3>1. tpm'[k] = tpm[k] /\ recorded'[k] \subseteq recorded[k] /\ UNCHANGED <<pc, key, entry>>
      BY <2>2 DEF Tick, Counting
    <3>2. \A r \in Req : Counting({entry[r]}, clock + 1) \subseteq Counting({entry[r]}, clock)
      BY <1>1 DEF Counting, Entry
    <3>3. Missing(k)' \subseteq Missing(k) /\ Overtaken(k)' \subseteq Overtaken(k)
      BY <1>1, <3>1, <3>2 DEF Missing, Overtaken
    <3> QED
      BY <3>3, MissingFewer
  <2> QED
    BY <2>1, <2>2
<1> QED
  BY <1>2, <1>4, <1>5, <1>6 DEF CountInv

(* The pipeline: the entry is added and, by a second command, its expiry.   *)
(* An entry lost between the two moves from the overtaken to the missing.   *)
LEMMA CountAdd ==
    ASSUME Typed, CountInv, NEW r \in Req, RecordAdd(r)
    PROVE  EntriesInTime' /\ RecordedKept' /\ \A k \in Key : MissingFits(k)'
<1> DEFINE k == key[r]
           e == [entry[r] EXCEPT !.nonce = Nonce(r)]
<1> USE Constants
<1>1. /\ k \in Key /\ clock \in Int /\ clock' = clock
      /\ tpm \in [Key -> SUBSET Entry] /\ tpmTTL \in [Key -> Int \cup {NoTTL}]
      /\ recorded \in [Key -> SUBSET Entry] /\ entry \in [Req -> Entry]
      /\ pc \in [Req -> PC]
  BY DEF Typed, TypeOK, RecordAdd
<1>2. e.ts = entry[r].ts /\ e.ts <= clock + Skew
  BY <1>1 DEF RecordAdd, Entry, CountInv, EntriesInTime
<1>3. /\ tpm' = [tpm EXCEPT ![k] = @ \cup {e}]
      /\ entry' = [entry EXCEPT ![r] = e]
      /\ pc' = [pc EXCEPT ![r] = "expire"]
      /\ UNCHANGED <<tpmTTL, recorded, key>>
  BY DEF RecordAdd, Goto, historyVars
<1> HIDE DEF e
<1>4. EntriesInTime' /\ RecordedKept'
  BY <1>1, <1>2, <1>3 DEF CountInv, EntriesInTime, RecordedKept
<1>5. ASSUME NEW j \in Key PROVE MissingFits(j)'
  <2>1. tpm[j] \subseteq tpm'[j] /\ Missing(j)' \subseteq Missing(j)
    BY <1>1, <1>3 DEF Missing
  <2>2. ASSUME NEW q \in Overtaken(j)' PROVE q \in Overtaken(j)
    <3>1. /\ q \in Req /\ pc'[q] = "expire" /\ key[q] = j
          /\ Counting({entry'[q]}, clock) \ tpm'[j] # {}
      BY <1>1, <1>3, <2>2 DEF Overtaken
    <3>2. q # r
      <4> SUFFICES ASSUME q = r PROVE FALSE
        OBVIOUS
      <4>1. entry'[q] = e /\ e \in tpm'[j]
        BY <1>1, <1>3, <3>1
      <4> QED
        BY <3>1, <4>1 DEF Counting
    <3>3. pc[q] = "expire" /\ entry'[q] = entry[q]
      BY <1>1, <1>3, <3>1, <3>2
    <3> QED
      BY <2>1, <3>1, <3>3 DEF Overtaken
  <2> QED
    BY <2>1, <2>2, MissingFewer
<1> QED
  BY <1>4, <1>5

LEMMA CountExpire ==
    ASSUME Typed, CountInv, NEW r \in Req, RecordExpire(r)
    PROVE  EntriesInTime' /\ RecordedKept' /\ \A k \in Key : MissingFits(k)'
<1> DEFINE k == key[r]
           New == Counting({entry[r]}, clock)
<1> USE Constants
<1>1. /\ k \in Key /\ clock \in Int /\ clock' = clock
      /\ tpm \in [Key -> SUBSET Entry] /\ tpmTTL \in [Key -> Int \cup {NoTTL}]
      /\ recorded \in [Key -> SUBSET Entry] /\ entry \in [Req -> Entry]
      /\ pc \in [Req -> PC]
  BY DEF Typed, TypeOK, RecordExpire
<1>2. /\ tpmTTL' = IF tpm[k] = {} THEN tpmTTL ELSE [tpmTTL EXCEPT ![k] = clock + TTL]
      /\ recorded' = [recorded EXCEPT ![k] = @ \cup New]
      /\ tpm' = tpm /\ key' = key
      /\ pc[r] = "expire"
      /\ pc' = [pc EXCEPT ![r] = "idle"] /\ entry' = [entry EXCEPT ![r] = NoEntry]
  BY DEF RecordExpire, Return, Goto, NewTTL
<1>3. \A e \in New : e = entry[r] /\ e.ts \in Int /\ e.ts <= clock + Skew /\ e.ts + Window > clock + Skew
  BY <1>1, <1>2 DEF Counting, CountInv, EntriesInTime, Entry
<1> HIDE DEF New
<1>4. EntriesInTime'
  BY <1>1, <1>2, <1>3 DEF CountInv, EntriesInTime
<1>5. RecordedKept'
  <2> SUFFICES ASSUME NEW j \in Key
               PROVE  /\ tpm[j] = {} => tpmTTL'[j] = NoTTL
                      /\ \A e \in recorded'[j] :
                            /\ e.ts + Window > clock + Skew
                            /\ tpmTTL'[j] # NoTTL => e.ts + TTL <= tpmTTL'[j] + Skew
    BY <1>1, <1>2 DEF RecordedKept
  <2>1. tpm[j] = {} => tpmTTL[j] = NoTTL
    BY DEF CountInv, RecordedKept
  <2>2. tpm[j] = {} => tpmTTL'[j] = NoTTL
    BY <1>1, <1>2, <2>1
  <2>3. ASSUME NEW e \in recorded'[j]
        PROVE  /\ e.ts + Window > clock + Skew
               /\ tpmTTL'[j] # NoTTL => e.ts + TTL <= tpmTTL'[j] + Skew
    <3>1. e \in recorded[j] \/ (j = k /\ e \in New)
      BY <1>1, <1>2, <2>3
    <3>2. e.ts \in Int /\ e.ts <= clock + Skew /\ e.ts + Window > clock + Skew
      BY <1>1, <1>3, <3>1 DEF CountInv, EntriesInTime, RecordedKept, Entry
    <3>3. CASE j = k /\ tpm[k] # {}
      BY <1>1, <1>2, <3>2, <3>3
    <3>4. CASE j = k /\ tpm[k] = {}
      BY <2>2, <3>2, <3>4
    <3>5. CASE j # k
      BY <1>1, <1>2, <3>1, <3>2, <3>5 DEF CountInv, RecordedKept
    <3> QED
      BY <3>3, <3>4, <3>5
  <2> QED
    BY <2>2, <2>3
<1>6. ASSUME NEW j \in Key PROVE MissingFits(j)'
  <2>1. Overtaken(j)' \subseteq Overtaken(j) \ {r}
    BY <1>1, <1>2 DEF Overtaken
  <2>2. CASE j # k \/ New \subseteq tpm[k]
    <3>1. Missing(j)' \subseteq Missing(j)
      BY <1>1, <1>2, <2>2 DEF Missing
    <3> QED
      BY <2>1, <3>1, MissingFewer
  <2>3. CASE j = k /\ ~(New \subseteq tpm[k])
    <3> DEFINE m == Cardinality(Missing(j))
               o == Cardinality(Overtaken(j))
               n == Cardinality(Missing(j)')
               p == Cardinality(Overtaken(j)')
    <3>1. r \in Overtaken(j)
      BY <1>2, <2>3 DEF Overtaken, New
    <3>2. Missing(j)' \subseteq Missing(j) \cup {entry[r]}
      BY <1>1, <1>2, <1>3, <2>3 DEF Missing
    <3>3. m \in Nat /\ o \in Nat /\ Cardinality(Req) \in Nat /\ m + o <= Cardinality(Req)
      BY <1>1, MissingSizes DEF CountInv, MissingFits
    <3>4. n \in Nat /\ n <= m + 1
      <4>1. /\ IsFiniteSet(Missing(j) \cup {entry[r]})
            /\ Cardinality(Missing(j) \cup {entry[r]}) \in Nat
            /\ Cardinality(Missing(j) \cup {entry[r]}) <= m + 1
        <5>1. IsFiniteSet(Missing(j))
          BY <1>1, MissingSizes
        <5>2. /\ IsFiniteSet(Missing(j) \cup {entry[r]})
              /\ \/ Cardinality(Missing(j) \cup {entry[r]}) = m
                 \/ Cardinality(Missing(j) \cup {entry[r]}) = m + 1
          BY <5>1, FS_AddElement
        <5> HIDE DEF m
        <5> QED
          BY <3>3, <5>2
      <4>2. /\ Cardinality(Missing(j)') \in Nat
            /\ Cardinality(Missing(j)') <= Cardinality(Missing(j) \cup {entry[r]})
        BY <3>2, <4>1, FS_Subset, FS_CardinalityType
      <4> HIDE DEF m
      <4> QED
        BY <3>3, <4>1, <4>2
    <3>5. p \in Nat /\ p <= o - 1
      <4>0. Overtaken(j)' \subseteq Overtaken(j) \ {r}
        BY <2>1
      <4>1. /\ IsFiniteSet(Overtaken(j) \ {r})
            /\ Cardinality(Overtaken(j) \ {r}) = o - 1
        BY <1>1, <3>1, MissingSizes, FS_RemoveElement
      <4>2. p \in Nat /\ p <= Cardinality(Overtaken(j) \ {r})
        BY <4>0, <4>1, FS_Subset, FS_CardinalityType
      <4> HIDE DEF p, o
      <4> QED
        BY <4>1, <4>2
    <3>6. n + p <= Cardinality(Req)
      <4> HIDE DEF m, n, o, p
      <4> QED
        BY <3>3, <3>4, <3>5
    <3>7. MissingFits(j)'
      BY <3>6 DEF MissingFits
    <3> QED
      BY <2>3, <3>7 DEF MissingFits
  <2> QED
    BY <2>2, <2>3
<1> QED
  BY <1>4, <1>5, <1>6

LEMMA CountNext == Typed /\ CountInv /\ [Next]_vars => CountInv'
<1> SUFFICES ASSUME Typed, CountInv, [Next]_vars PROVE CountInv'
  OBVIOUS
<1> USE Constants DEF redisVars, handlerVars, historyVars
<1>0. /\ pc \in [Req -> PC] /\ now \in [Req -> Int] /\ readAt \in [Req -> Int]
      /\ clock \in Int /\ StampsInTime /\ entry \in [Req -> Entry]
  BY DEF Typed, TypeOK, CountInv
<1>1. CASE Tick
  BY <1>1, CountTick
<1>2. ASSUME NEW r \in Req, Arrive(r) PROVE CountInv'
  <2>1. PICK t \in clock - Skew..clock + Skew : now' = [now EXCEPT ![r] = t]
    BY <1>2 DEF Arrive
  <2>2. StampsInTime'
    BY <1>0, <1>2, <2>1 DEF Arrive, Goto, StampsInTime
  <2>3. EntriesInTime' /\ RecordedKept'
    BY <1>0, <1>2 DEF Arrive, Goto, CountInv, EntriesInTime, RecordedKept
  <2>4. \A k \in Key : MissingFits(k)'
    BY <1>0, <1>2, MissingSame DEF Arrive, Goto
  <2> QED
    BY <2>2, <2>3, <2>4 DEF CountInv
<1>3. ASSUME NEW r \in Req, Allow(r) PROVE CountInv'
  <2>1. /\ clock' = clock /\ pc'[r] \notin {"allow", "retry", "zadd", "expire"}
        /\ \A q \in Req : q # r => pc'[q] = pc[q] /\ now'[q] = now[q] /\ readAt'[q] = readAt[q]
    BY <1>0, <1>3 DEF Allow, Script, Goto, Forget
  <2>2. StampsInTime'
    BY <1>0, <2>1, StampsLeave
  <2>3. EntriesInTime' /\ RecordedKept' /\ \A k \in Key : MissingFits(k)'
    BY <1>3, <2>1, CountScript DEF Allow
  <2> QED
    BY <2>2, <2>3 DEF CountInv
<1>4. ASSUME NEW r \in Req, ReplyLost(r) PROVE CountInv'
  <2>1. StampsInTime'
    BY <1>0, <1>4 DEF ReplyLost, Script, Goto, StampsInTime
  <2>2. \A q \in Req : pc'[q] \in {"zadd", "expire"} => pc[q] = pc'[q]
    BY <1>0, <1>4 DEF ReplyLost, Goto
  <2>3. EntriesInTime' /\ RecordedKept' /\ \A k \in Key : MissingFits(k)'
    BY <1>4, <2>2, CountScript DEF ReplyLost
  <2> QED
    BY <2>1, <2>3 DEF CountInv
<1>5. ASSUME NEW r \in Req,
             FailOpen(r) \/ Respond(r) \/ RecordAdd(r) \/ RecordExpire(r) \/ Abandon(r)
      PROVE  CountInv'
  <2>1. /\ clock' = clock /\ pc'[r] \notin {"allow", "retry"}
        /\ \A q \in Req : q # r => pc'[q] = pc[q] /\ now'[q] = now[q] /\ readAt'[q] = readAt[q]
    BY <1>0, <1>5
    DEF FailOpen, Respond, RecordAdd, RecordExpire, Abandon, Return, Goto, Forget
  <2>2. StampsInTime'
    BY <1>0, <2>1, StampsLeave
  <2>3. CASE FailOpen(r) \/ Abandon(r)
    <3>1. \A k \in Key : MissingFits(k)'
      BY <1>0, <2>3, MissingSame DEF FailOpen, Abandon, Return, Goto
    <3>2. EntriesInTime' /\ RecordedKept'
      BY <1>0, <2>3
      DEF FailOpen, Abandon, Return, Goto, CountInv, EntriesInTime, RecordedKept
    <3> QED
      BY <2>2, <3>1, <3>2 DEF CountInv
  <2>4. CASE Respond(r)
    <3>1. /\ UNCHANGED <<clock, tpm, tpmTTL, recorded>>
          /\ \A q \in Req : q # r => pc'[q] = pc[q] /\ entry'[q] = entry[q]
          /\ pc'[r] \in {"zadd", "expire"} => entry'[r].ts <= clock + Skew
      <4>1. PICK n \in Tokens, t \in clock - Skew..clock + Skew :
              IF n = 0
              THEN Goto(r, "idle") /\ UNCHANGED <<readAt, entry>>
              ELSE /\ Goto(r, "zadd")
                   /\ readAt' = [readAt EXCEPT ![r] = clock]
                   /\ entry' = [entry EXCEPT ![r] = [ts |-> t, tokens |-> n, nonce |-> 0]]
        BY <2>4 DEF Respond
      <4> QED
        BY <1>0, <2>4, <4>1 DEF Respond, Goto
    <3>2. pc'[r] # "expire" /\ UNCHANGED key
      BY <1>0, <2>4 DEF Respond, Goto
    <3>3. \A k \in Key : MissingFits(k)'
      BY <3>1, <3>2, MissingSame
    <3>4. EntriesInTime' /\ RecordedKept'
      BY <3>1 DEF CountInv, EntriesInTime, RecordedKept
    <3> QED
      BY <2>2, <3>3, <3>4 DEF CountInv
  <2>5. CASE RecordAdd(r) \/ RecordExpire(r)
    BY <2>2, <2>5, CountAdd, CountExpire DEF CountInv
  <2> QED
    BY <1>5, <2>3, <2>4, <2>5
<1>6. CASE UNCHANGED vars
  <2>1. EntriesInTime' /\ RecordedKept' /\ StampsInTime'
    BY <1>6 DEF vars, CountInv, EntriesInTime, RecordedKept, StampsInTime
  <2>2. \A k \in Key : MissingFits(k)'
    BY <1>6 DEF vars, CountInv, MissingFits, Missing, Overtaken, Counting
  <2> QED
    BY <2>1, <2>2 DEF CountInv
<1> QED
  BY <1>1, <1>2, <1>3, <1>4, <1>5, <1>6 DEF Next

(* Tokens whose recording succeeded are counted against the limit until     *)
(* their window is over, but for at most one entry for each handler: no     *)
(* script with a late or fast clock removes them, neither command of the    *)
(* pipeline nor a request leaves them an expiry that is too early, and an   *)
(* expiry of the whole set costs no more than the pipelines under way.      *)
THEOREM TokensSafe == Spec => []TokensCounted
<1>1. Typed /\ CountInv => TokensCounted
  <2> SUFFICES ASSUME Typed, CountInv, NEW k \in Key
               PROVE  Cardinality(recorded[k] \ tpm[k]) <= Cardinality(Req)
    BY DEF TokensCounted
  <2>1. /\ Cardinality(Missing(k)) \in Nat /\ Cardinality(Overtaken(k)) \in Nat
        /\ Cardinality(Req) \in Nat
    BY MissingSizes
  <2>2. Cardinality(Missing(k)) + Cardinality(Overtaken(k)) <= Cardinality(Req)
    BY DEF CountInv, MissingFits
  <2> QED
    BY <2>1, <2>2 DEF Missing
<1> QED
  BY <1>1, TypeInit, TypeNext, CountInit, CountNext, PTL DEF Spec

-----------------------------------------------------------------------------
(* TokenOvershoot is not inductive: what bounds the total is that every     *)
(* request let in leaves room for what each may still record.  The ones     *)
(* that can still add to the total of k are in Inflight(k).                 *)
Inflight(k) == {r \in Req : key[r] = k /\ pc[r] \in {"serving", "zadd"}}
Room(k) == Tpm[k] - 1 + (Cardinality(Req) + failedOpen[k]) * MostTokens
Fits(k) ==
    Tpm[k] > 0 =>
        TokensIn(tpm[k]) + Cardinality(Inflight(k)) * MostTokens <= Room(k)
EntriesFit ==
    \A r \in Req : pc[r] = "zadd" => entry[r].tokens <= MostTokens

OvershootInv == EntriesFit /\ \A k \in Key : Fits(k)

(* The CHOOSE of MostTokens has a value.                                    *)
LEMMA MostTokensType == MostTokens \in Nat /\ \A n \in Tokens : n <= MostTokens
  BY LimiterAssumption DEF MostTokens

LEMMA Product ==
    ASSUME NEW a \in Nat, NEW b \in Nat, NEW m \in Nat
    PROVE  /\ a * m \in Nat
           /\ (a + 1) * m = a * m + m
           /\ a <= b => a * m <= b * m
<1>1. a * m \in Nat /\ (a + 1) * m = a * m + m
  OBVIOUS
<1>2. ASSUME a <= b PROVE a * m <= b * m
  <2>1. b - a \in Nat
    BY <1>2
  <2>2. (b - a) * m \in Nat
    BY <2>1
  <2>3. b * m = a * m + (b - a) * m /\ b * m \in Nat
    OBVIOUS
  <2> QED
    BY <1>1, <2>2, <2>3
<1> QED
  BY <1>1, <1>2

LEMMA InflightSize ==
    ASSUME NEW k
    PROVE  /\ IsFiniteSet(Inflight(k)) /\ Cardinality(Inflight(k)) \in Nat
           /\ Cardinality(Req) \in Nat
           /\ Cardinality(Inflight(k)) <= Cardinality(Req)
<1>1. Inflight(k) \subseteq Req
  BY DEF Inflight
<1> QED
  BY <1>1, Constants, FS_Subset, FS_CardinalityType

LEMMA OvershootInit == Init => OvershootInv
<1>1. Init => EntriesFit
  BY DEF Init, EntriesFit
<1> SUFFICES ASSUME Init, NEW k \in Key PROVE Fits(k)
  BY <1>1 DEF OvershootInv
<1>2. TokensIn(tpm[k]) = 0
  BY TokensInRec, FS_EmptySet DEF Init
<1>3. Inflight(k) = {} /\ Cardinality(Inflight(k)) = 0
  BY FS_EmptySet DEF Init, Inflight
<1>4. failedOpen[k] = 0 /\ Cardinality(Req) \in Nat /\ Tpm[k] \in Nat
  BY Constants, FS_CardinalityType DEF Init
<1>5. Cardinality(Req) * MostTokens \in Nat /\ 0 * MostTokens = 0
  BY <1>4, MostTokensType
<1> QED
  BY <1>2, <1>3, <1>4, <1>5 DEF Fits, Room

(* A step that lets no request in, adds no entry and fails no request open  *)
(* leaves at least as much room as before.                                  *)
LEMMA FitsKept ==
    ASSUME Typed, NEW k \in Key, Fits(k),
           tpm'[k] \subseteq tpm[k], Inflight(k)' \subseteq Inflight(k),
           failedOpen'[k] = failedOpen[k]
    PROVE  Fits(k)'
<1>1. IsFiniteSet(tpm[k]) /\ tpm[k] \subseteq Entry
  BY DEF Typed, TypeOK, Sizes
<1>2. TokensIn(tpm'[k]) <= TokensIn(tpm[k])
  BY <1>1, TokensInSubset
<1>3. TokensIn(tpm[k]) \in Nat /\ TokensIn(tpm'[k]) \in Nat
  BY <1>1, FS_Subset, TokensInType
<1>4. /\ IsFiniteSet(Inflight(k)) /\ Cardinality(Inflight(k)) \in Nat
      /\ Cardinality(Inflight(k)') \in Nat
      /\ Cardinality(Inflight(k)') <= Cardinality(Inflight(k))
  BY InflightSize, FS_Subset, FS_CardinalityType
<1> DEFINE c == Cardinality(Inflight(k)) * MostTokens
           d == Cardinality(Inflight(k)') * MostTokens
<1>5. c \in Nat /\ d \in Nat /\ d <= c
  BY <1>4, MostTokensType, Product
<1>6. Room(k) \in Int /\ Room(k)' = Room(k)
  <2>1. /\ Cardinality(Req) + failedOpen[k] \in Nat /\ Tpm[k] \in Nat
    BY Constants, FS_CardinalityType DEF Typed, TypeOK
  <2>2. (Cardinality(Req) + failedOpen[k]) * MostTokens \in Nat
    BY <2>1, MostTokensType, Product
  <2> QED
    BY <2>1, <2>2 DEF Room
<1>7. Tpm[k] > 0 => TokensIn(tpm[k]) + c <= Room(k)
  BY DEF Fits
<1>8. Tpm[k] > 0 => TokensIn(tpm'[k]) + d <= Room(k)'
  <2> HIDE DEF c, d
  <2> QED
    BY <1>2, <1>3, <1>5, <1>6, <1>7
<1> QED
  BY <1>8 DEF Fits

(* What the requests in flight may add always has room beside a total that  *)
(* is under the limit, which is what the script found.                      *)
LEMMA FitsLetIn ==
    ASSUME Typed, NEW k \in Key, TokensIn(tpm'[k]) \in Nat,
           TokensIn(tpm'[k]) < Tpm[k], failedOpen'[k] \in Nat
    PROVE  Fits(k)'
<1> DEFINE c == Cardinality(Inflight(k)') * MostTokens
           m == (Cardinality(Req) + failedOpen'[k]) * MostTokens
<1>1. Inflight(k)' \subseteq Req
  BY DEF Inflight
<1>2. /\ Cardinality(Inflight(k)') \in Nat /\ Cardinality(Req) \in Nat
      /\ Cardinality(Inflight(k)') <= Cardinality(Req)
  BY <1>1, Constants, FS_Subset, FS_CardinalityType
<1>3. c \in Nat /\ m \in Nat /\ c <= m
  BY <1>2, MostTokensType, Product
<1>4. Tpm[k] \in Nat
  BY Constants
<1>5. TokensIn(tpm'[k]) + c <= Tpm[k] - 1 + m
  <2> HIDE DEF c, m
  <2> QED
    BY <1>3, <1>4
<1> QED
  BY <1>5 DEF Fits, Room

LEMMA OvershootScript ==
    ASSUME Typed, OvershootInv, NEW r \in Req, pc[r] \in {"allow", "retry"}, Script(r),
           \A q \in Req : q # r => pc'[q] = pc[q],
           pc'[r] \in {"serving", "zadd"} => LetIn(key[r], now[r]),
           pc'[r] # "zadd"
    PROVE  OvershootInv'
<1> DEFINE k == key[r]
           n == now[r]
           T == CurrentTpm(k, n)
<1>1. /\ k \in Key /\ tpm \in [Key -> SUBSET Entry]
      /\ T \subseteq tpm[k] /\ tpm[k] \subseteq Entry /\ IsFiniteSet(T)
      /\ UNCHANGED <<key, entry, failedOpen>> /\ failedOpen \in [Key -> Nat]
  BY CurrentFinite DEF Typed, TypeOK, Script, CurrentTpm
<1>2. tpm' = [tpm EXCEPT ![k] = T]
  BY DEF Script
<1>3. EntriesFit'
  BY <1>1 DEF OvershootInv, EntriesFit
<1>4. ASSUME NEW j \in Key PROVE Fits(j)'
  <2>1. CASE j = k /\ LetIn(k, n)
    <3>1. TokensIn(T) < Tpm[k] /\ TokensIn(T) \in Nat
      BY <1>1, <2>1, TokensInType DEF LetIn
    <3> QED
      BY <1>1, <1>2, <2>1, <3>1, FitsLetIn
  <2>2. CASE ~(j = k /\ LetIn(k, n))
    <3>1. tpm'[j] \subseteq tpm[j] /\ failedOpen'[j] = failedOpen[j]
      BY <1>1, <1>2
    <3>2. Inflight(j)' \subseteq Inflight(j)
      BY <1>1, <2>2 DEF Inflight
    <3> QED
      BY <3>1, <3>2, FitsKept DEF OvershootInv
  <2> QED
    BY <2>1, <2>2
<1> QED
  BY <1>3, <1>4 DEF OvershootInv

(* A request that fails open is one more in flight, and is counted as such. *)
LEMMA OvershootFailOpen ==
    ASSUME Typed, OvershootInv, NEW r \in Req, FailOpen(r)
    PROVE  OvershootInv'
<1> DEFINE k == key[r]
<1>1. /\ k \in Key /\ failedOpen \in [Key -> Nat] /\ pc \in [Req -> PC]
      /\ UNCHANGED <<tpm, key, entry>>
      /\ failedOpen' = [failedOpen EXCEPT ![k] = @ + 1]
      /\ pc' = [pc EXCEPT ![r] = "serving"]
  BY DEF Typed, TypeOK, FailOpen, Goto, redisVars
<1>2. EntriesFit'
  BY <1>1 DEF OvershootInv, EntriesFit
<1>3. ASSUME NEW j \in Key PROVE Fits(j)'
  <2>1. CASE j # k
    <3>1. Inflight(j)' \subseteq Inflight(j)
      BY <1>1, <2>1 DEF Inflight
    <3> QED
      BY <1>1, <2>1, <3>1, FitsKept DEF OvershootInv
  <2>2. CASE j = k
    <3> DEFINE c == Cardinality(Inflight(k))
               d == Cardinality(Inflight(k)')
               f == Cardinality(Req) + failedOpen[k]
    <3>1. Inflight(k)' \subseteq Inflight(k) \cup {r}
      BY <1>1 DEF Inflight
    <3>2. c \in Nat /\ d \in Nat /\ f \in Nat /\ d <= c + 1
      <4>1. /\ IsFiniteSet(Inflight(k)) /\ c \in Nat /\ Cardinality(Req) \in Nat
        BY InflightSize
      <4>2. /\ IsFiniteSet(Inflight(k) \cup {r})
            /\ Cardinality(Inflight(k) \cup {r}) \in Nat
            /\ Cardinality(Inflight(k) \cup {r}) <= c + 1
        BY <4>1, FS_AddElement
      <4>3. d \in Nat /\ d <= Cardinality(Inflight(k) \cup {r})
        BY <3>1, <4>2, FS_Subset, FS_CardinalityType
      <4>4. f \in Nat
        BY <1>1, <4>1
      <4> HIDE DEF c, d, f
      <4> QED
        BY <4>1, <4>2, <4>3, <4>4
    <3>3. /\ Tpm[k] \in Nat /\ TokensIn(tpm[k]) \in Nat
          /\ Cardinality(Req) + failedOpen'[k] = f + 1
      <4>1. Tpm[k] \in Nat /\ TokensIn(tpm[k]) \in Nat
        BY <1>1, Constants, TokensInType DEF Typed, TypeOK, Sizes
      <4>2. Cardinality(Req) \in Nat /\ failedOpen[k] \in Nat
        BY <1>1, InflightSize
      <4>3. failedOpen'[k] = failedOpen[k] + 1
        BY <1>1
      <4> QED
        BY <4>1, <4>2, <4>3
    <3>4. Tpm[k] > 0 => TokensIn(tpm[k]) + c * MostTokens <= Tpm[k] - 1 + f * MostTokens
      BY <1>1 DEF OvershootInv, Fits, Room
    <3>5. Tpm[k] > 0 => TokensIn(tpm[k]) + d * MostTokens <= Tpm[k] - 1 + (f + 1) * MostTokens
      <4> HIDE DEF c, d, f
      <4>1. /\ c * MostTokens \in Nat /\ d * MostTokens \in Nat /\ f * MostTokens \in Nat
            /\ (c + 1) * MostTokens = c * MostTokens + MostTokens
            /\ (f + 1) * MostTokens = f * MostTokens + MostTokens
            /\ d * MostTokens <= (c + 1) * MostTokens
        BY <3>2, MostTokensType, Product
      <4> QED
        BY <3>3, <3>4, <4>1, MostTokensType
    <3> QED
      BY <1>1, <2>2, <3>3, <3>5 DEF Fits, Room
  <2> QED
    BY <2>1, <2>2
<1> QED
  BY <1>2, <1>3 DEF OvershootInv

(* What is recorded is the request's own share, and it is in flight no more. *)
LEMMA OvershootAdd ==
    ASSUME Typed, OvershootInv, NEW r \in Req, RecordAdd(r)
    PROVE  OvershootInv'
<1> DEFINE k == key[r]
           e == [entry[r] EXCEPT !.nonce = Nonce(r)]
<1>1. /\ k \in Key /\ entry[r] \in Entry
      /\ IsFiniteSet(tpm[k]) /\ tpm[k] \subseteq Entry
  BY DEF Typed, TypeOK, Sizes
<1>2. e \in Entry /\ e.tokens = entry[r].tokens
  <2>1. Nonce(r) \in Nat
    BY NonceType
  <2> QED
    BY <1>1, <2>1 DEF Entry
<1>3. entry[r].tokens <= MostTokens /\ entry[r].tokens \in Nat
  BY <1>1 DEF RecordAdd, OvershootInv, EntriesFit, Entry
<1> HIDE DEF e
<1>4. /\ pc[r] = "zadd" /\ pc' = [pc EXCEPT ![r] = "expire"]
      /\ tpm' = [tpm EXCEPT ![k] = @ \cup {e}]
      /\ entry' = [entry EXCEPT ![r] = e]
      /\ UNCHANGED <<key, failedOpen>>
      /\ pc \in [Req -> PC] /\ tpm \in [Key -> SUBSET Entry] /\ entry \in [Req -> Entry]
      /\ failedOpen \in [Key -> Nat]
  BY DEF RecordAdd, Goto, historyVars, e, Typed, TypeOK
<1>5. EntriesFit'
  BY <1>4 DEF OvershootInv, EntriesFit
<1>6. ASSUME NEW j \in Key PROVE Fits(j)'
  <2>1. CASE j # k
    <3>1. Inflight(j)' \subseteq Inflight(j)
      BY <1>4 DEF Inflight
    <3> QED
      BY <1>4, <2>1, <3>1, FitsKept DEF OvershootInv
  <2>2. CASE j = k
    <3> DEFINE c == Cardinality(Inflight(k))
               d == Cardinality(Inflight(k)')
               f == Cardinality(Req) + failedOpen[k]
               t == TokensIn(tpm[k])
               u == TokensIn(tpm[k] \cup {e})
    <3>1. r \in Inflight(k) /\ Inflight(k)' = Inflight(k) \ {r}
      BY <1>4 DEF Inflight
    <3>2. c \in Nat /\ d \in Nat /\ c = d + 1
      <4>1. IsFiniteSet(Inflight(k)) /\ c \in Nat
        BY InflightSize
      <4>2. /\ IsFiniteSet(Inflight(k) \ {r})
            /\ Cardinality(Inflight(k) \ {r}) = c - 1
        BY <3>1, <4>1, FS_RemoveElement
      <4>3. d \in Nat /\ d = c - 1
        BY <3>1, <4>2, FS_CardinalityType
      <4> HIDE DEF c, d
      <4> QED
        BY <4>1, <4>3
    <3>3. t \in Nat /\ u \in Nat /\ u <= t + entry[r].tokens
      <4>1. IsFiniteSet(tpm[k] \cup {e}) /\ tpm[k] \cup {e} \subseteq Entry
        BY <1>1, <1>2, FS_AddElement
      <4> QED
        BY <1>1, <1>2, <4>1, TokensInType, TokensInAdd
    <3>4. f \in Nat /\ Tpm[k] \in Nat
      <4>1. Cardinality(Req) \in Nat /\ failedOpen[k] \in Nat
        BY <1>1, <1>4, InflightSize
      <4> QED
        BY <1>1, <4>1, Constants
    <3>5. Tpm[k] > 0 => t + c * MostTokens <= Tpm[k] - 1 + f * MostTokens
      BY <1>1 DEF OvershootInv, Fits, Room
    <3>6. Tpm[k] > 0 => u + d * MostTokens <= Tpm[k] - 1 + f * MostTokens
      <4> HIDE DEF c, d, f, t, u
      <4>1. /\ d * MostTokens \in Nat /\ f * MostTokens \in Nat
            /\ c * MostTokens = d * MostTokens + MostTokens
        BY <3>2, <3>4, MostTokensType, Product
      <4> QED
        BY <1>3, <3>3, <3>4, <3>5, <4>1, MostTokensType
    <3>7. tpm'[k] = tpm[k] \cup {e} /\ failedOpen'[k] = failedOpen[k]
      BY <1>1, <1>4
    <3>8. Tpm[k] > 0 =>
            TokensIn(tpm'[k]) + Cardinality(Inflight(k)') * MostTokens
               <= Tpm[k] - 1 + (Cardinality(Req) + failedOpen'[k]) * MostTokens
      BY <3>6, <3>7
    <3> QED
      BY <1>4, <2>2, <3>8 DEF Fits, Room
  <2> QED
    BY <2>1, <2>2
<1> QED
  BY <1>5, <1>6 DEF OvershootInv

LEMMA OvershootNext == Typed /\ OvershootInv /\ [Next]_vars => OvershootInv'
<1> SUFFICES ASSUME Typed, OvershootInv, [Next]_vars PROVE OvershootInv'
  OBVIOUS
<1> USE DEF redisVars, handlerVars, historyVars
<1>0. /\ pc \in [Req -> PC] /\ key \in [Req -> Key] /\ entry \in [Req -> Entry]
      /\ failedOpen \in [Key -> Nat] /\ EntriesFit
  BY DEF Typed, TypeOK, OvershootInv
<1>1. ASSUME EntriesFit', \A k \in Key : tpm'[k] \subseteq tpm[k],
             \A k \in Key : Inflight(k)' \subseteq Inflight(k), failedOpen' = failedOpen
      PROVE  OvershootInv'
  BY <1>1, FitsKept DEF OvershootInv
<1>2. CASE Tick
  <2>1. \A k \in Key : tpm'[k] \subseteq tpm[k]
    BY <1>2 DEF Tick
  <2>2. EntriesFit' /\ \A k \in Key : Inflight(k)' \subseteq Inflight(k)
    BY <1>0, <1>2 DEF Tick, EntriesFit, Inflight
  <2> QED
    BY <1>1, <1>2, <2>1, <2>2 DEF Tick
<1>3. ASSUME NEW r \in Req, Arrive(r) PROVE OvershootInv'
  <2>1. EntriesFit' /\ \A k \in Key : Inflight(k)' \subseteq Inflight(k)
    BY <1>0, <1>3 DEF Arrive, Goto, EntriesFit, Inflight
  <2> QED
    BY <1>1, <1>3, <2>1 DEF Arrive
<1>4. ASSUME NEW r \in Req, Allow(r) PROVE OvershootInv'
  BY <1>0, <1>4, OvershootScript DEF Allow, Goto
<1>5. ASSUME NEW r \in Req, ReplyLost(r) PROVE OvershootInv'
  BY <1>0, <1>5, OvershootScript DEF ReplyLost, Goto
<1>6. ASSUME NEW r \in Req, Respond(r) PROVE OvershootInv'
  <2>1. PICK n \in Tokens, t \in clock - Skew..clock + Skew :
          IF n = 0
          THEN Goto(r, "idle") /\ UNCHANGED <<readAt, entry>>
          ELSE /\ Goto(r, "zadd")
               /\ readAt' = [readAt EXCEPT ![r] = clock]
               /\ entry' = [entry EXCEPT ![r] = [ts |-> t, tokens |-> n, nonce |-> 0]]
    BY <1>6 DEF Respond
  <2>2. EntriesFit' /\ \A k \in Key : Inflight(k)' \subseteq Inflight(k)
    BY <1>0, <1>6, <2>1, MostTokensType DEF Respond, Goto, EntriesFit, Inflight
  <2> QED
    BY <1>1, <1>6, <2>2 DEF Respond
<1>7. ASSUME NEW r \in Req, RecordExpire(r) \/ Abandon(r) PROVE OvershootInv'
  <2>1. EntriesFit' /\ \A k \in Key : Inflight(k)' \subseteq Inflight(k)
    BY <1>0, <1>7 DEF RecordExpire, Abandon, Return, Goto, EntriesFit, Inflight
  <2> QED
    BY <1>1, <1>7, <2>1 DEF RecordExpire, Abandon
<1>8. CASE UNCHANGED vars
  BY <1>0, <1>1, <1>8 DEF vars, EntriesFit, Inflight
<1> QED
  BY <1>2, <1>3, <1>4, <1>5, <1>6, <1>7, <1>8, OvershootFailOpen, OvershootAdd DEF Next

(* A key's recorded tokens pass its limit by no more than what the requests *)
(* in flight and the ones that failed open may use, whatever the delays,    *)
(* retries and expiries, and however many requests and gateways there are.  *)
THEOREM OvershootSafe == Spec => []TokenOvershoot
<1>1. Typed /\ OvershootInv => TokenOvershoot
  <2> SUFFICES ASSUME Typed, OvershootInv, NEW k \in Key, Tpm[k] > 0
               PROVE  TokensIn(tpm[k]) <= Room(k)
    BY DEF TokenOvershoot, Room
  <2> DEFINE c == Cardinality(Inflight(k)) * MostTokens
  <2>1. TokensIn(tpm[k]) \in Nat /\ Tpm[k] \in Nat /\ failedOpen[k] \in Nat
    BY TokensInType, Constants DEF Typed, TypeOK, Sizes
  <2>2. c \in Nat /\ Room(k) \in Int
    <3>1. Cardinality(Inflight(k)) \in Nat /\ Cardinality(Req) + failedOpen[k] \in Nat
      BY <2>1, InflightSize
    <3>2. (Cardinality(Req) + failedOpen[k]) * MostTokens \in Nat
      BY <3>1, MostTokensType, Product
    <3> QED
      BY <2>1, <3>1, <3>2, MostTokensType, Product DEF Room
  <2>3. TokensIn(tpm[k]) + c <= Room(k)
    BY DEF OvershootInv, Fits
  <2> HIDE DEF c
  <2> QED
    BY <2>1, <2>2, <2>3
<1> QED
  BY <1>1, TypeInit, TypeNext, OvershootInit, OvershootNext, PTL DEF Spec
=============================================================================
