----------------------------- MODULE TokenSums -----------------------------
(* What the script's sum over the token set computes, for any finite set.   *)
(* The library's induction principles take operators, so the recursion is   *)
(* justified here from minimal elements: of the subsets of a finite set     *)
(* that lack a property, one has only subsets that have it.                 *)
EXTENDS RateLimiter, FiniteSetTheorems, TLAPS

(* The element the fold takes first, and the function it defines.           *)
Some(s) == CHOOSE x \in s : TRUE
Sums(g, T) ==
    g = [s \in SUBSET T |->
            IF s = {} THEN 0 ELSE Some(s).tokens + g[s \ {Some(s)}]]

LEMMA TokensInDef ==
    ASSUME NEW T
    PROVE  TokensIn(T) = (CHOOSE g : Sums(g, T))[T]
  BY DEF TokensIn, MapThenSumSet, MapThenFoldSet, Sums, Some

(* Induction over the subsets of a finite set.                              *)
LEMMA SubsetInduction ==
    ASSUME NEW T, IsFiniteSet(T), NEW Good,
           \A U \in SUBSET T :
              (\A V \in SUBSET U : V # U => V \in Good) => U \in Good
    PROVE  \A U \in SUBSET T : U \in Good
<1> DEFINE Bad == {U \in SUBSET T : U \notin Good}
           R   == StrictSubsetOrdering(T)
<1> SUFFICES ASSUME Bad # {} PROVE FALSE
  OBVIOUS
<1>1. IsWellFoundedOn(R, FiniteSubsetsOf(T)) /\ FiniteSubsetsOf(T) = SUBSET T
  BY FS_StrictSubsetOrderingWellFounded, FS_FiniteSubsetsOfFinite
<1>2. PICK U \in Bad : \A V \in Bad : <<V, U>> \notin R
  <2>1. Bad \subseteq SUBSET T
    OBVIOUS
  <2> HIDE DEF Bad, R
  <2> QED
    BY <1>1, <2>1, WFMin
<1>3. \A V \in SUBSET U : V # U => V \in Good
  BY <1>2 DEF StrictSubsetOrdering
<1> QED
  BY <1>2, <1>3

LEMMA SomeElement ==
    ASSUME NEW s, s # {}
    PROVE  Some(s) \in s
  BY DEF Some

LEMMA SumsAt ==
    ASSUME NEW T, NEW g, Sums(g, T), NEW s \in SUBSET T
    PROVE  g[s] = IF s = {} THEN 0 ELSE Some(s).tokens + g[s \ {Some(s)}]
<1>1. g = [u \in SUBSET T |->
              IF u = {} THEN 0 ELSE Some(u).tokens + g[u \ {Some(u)}]]
  BY DEF Sums
<1> QED
  BY <1>1

(* The folds over two sets agree on what they have in common.               *)
LEMMA SumsAgree ==
    ASSUME NEW T, IsFiniteSet(T), NEW V, T \subseteq V, NEW W, T \subseteq W,
           NEW g, Sums(g, V), NEW h, Sums(h, W)
    PROVE  g[T] = h[T]
<1> DEFINE Good == {U \in SUBSET T : g[U] = h[U]}
<1>1. ASSUME NEW U \in SUBSET T, \A X \in SUBSET U : X # U => X \in Good
      PROVE  U \in Good
  <2>1. U \in SUBSET V /\ U \in SUBSET W
    OBVIOUS
  <2>2. /\ g[U] = IF U = {} THEN 0 ELSE Some(U).tokens + g[U \ {Some(U)}]
        /\ h[U] = IF U = {} THEN 0 ELSE Some(U).tokens + h[U \ {Some(U)}]
    BY <2>1, SumsAt
  <2>3. U # {} => U \ {Some(U)} \in Good
    BY <1>1, SomeElement
  <2> QED
    BY <2>2, <2>3
<1>2. T \in Good
  <2> HIDE DEF Good
  <2> QED
    BY <1>1, SubsetInduction
<1> QED
  BY <1>2

(* The recursion defines a function.                                        *)
LEMMA SumsExist ==
    ASSUME NEW T, IsFiniteSet(T)
    PROVE  \E g : Sums(g, T)
<1> DEFINE Good == {U \in SUBSET T : \E g : Sums(g, U)}
<1>1. ASSUME NEW U \in SUBSET T, \A V \in SUBSET U : V # U => V \in Good
      PROVE  U \in Good
  <2> DEFINE sum(s) == (CHOOSE g : Sums(g, s))[s]
             f == [s \in SUBSET U |->
                     IF s = {} THEN 0
                     ELSE Some(s).tokens + sum(s \ {Some(s)})]
  <2>1. \A s \in SUBSET U : s # U => Sums(CHOOSE g : Sums(g, s), s)
    BY <1>1
  <2>2. ASSUME NEW s \in SUBSET U, s # U PROVE f[s] = sum(s)
    <3> DEFINE g == CHOOSE h : Sums(h, s)
    <3>1. Sums(g, s)
      BY <2>1, <2>2
    <3>2. g[s] = IF s = {} THEN 0 ELSE Some(s).tokens + g[s \ {Some(s)}]
      <4> HIDE DEF g
      <4> QED
        BY <3>1, SumsAt
    <3>3. ASSUME s # {} PROVE g[s \ {Some(s)}] = sum(s \ {Some(s)})
      <4> DEFINE t == s \ {Some(s)}
                 h == CHOOSE k : Sums(k, t)
      <4>1. t \subseteq s /\ t \in SUBSET U /\ t # U /\ IsFiniteSet(t)
        BY <2>2, <3>3, SomeElement, FS_Subset
      <4>2. Sums(h, t)
        BY <2>1, <4>1
      <4>3. g[t] = h[t]
        <5> HIDE DEF g, h, t
        <5> QED
          BY <3>1, <4>1, <4>2, SumsAgree
      <4> QED
        BY <4>3
    <3> QED
      BY <2>2, <3>2, <3>3
  <2>3. ASSUME NEW s \in SUBSET U, s # {} PROVE f[s \ {Some(s)}] = sum(s \ {Some(s)})
    <3>1. s \ {Some(s)} \in SUBSET U /\ s \ {Some(s)} # U
      BY <2>3, SomeElement
    <3> HIDE DEF f, sum
    <3> QED
      BY <2>2, <3>1
  <2>4. Sums(f, U)
    <3>1. f = [s \in SUBSET U |-> IF s = {} THEN 0 ELSE Some(s).tokens + f[s \ {Some(s)}]]
      <4>1. \A s \in SUBSET U :
               (IF s = {} THEN 0 ELSE Some(s).tokens + sum(s \ {Some(s)}))
               = (IF s = {} THEN 0 ELSE Some(s).tokens + f[s \ {Some(s)}])
        <5> HIDE DEF f, sum
        <5> QED
          BY <2>3
      <4>2. f = [s \in SUBSET U |->
                   IF s = {} THEN 0 ELSE Some(s).tokens + sum(s \ {Some(s)})]
        OBVIOUS
      <4> HIDE DEF f, sum
      <4> QED
        BY <4>1, <4>2
    <3> QED
      BY <3>1 DEF Sums
  <2> QED
    BY <2>4
<1>2. T \in Good
  <2> HIDE DEF Good
  <2> QED
    BY <1>1, SubsetInduction
<1> QED
  BY <1>2

(* The recursion, for every finite set of entries.                          *)
LEMMA TokensInRec ==
    ASSUME NEW T, IsFiniteSet(T)
    PROVE  TokensIn(T) = IF T = {} THEN 0
                         ELSE Some(T).tokens + TokensIn(T \ {Some(T)})
<1> DEFINE g == CHOOSE f : Sums(f, T)
           t == T \ {Some(T)}
           h == CHOOSE f : Sums(f, t)
<1>1. IsFiniteSet(t) /\ t \subseteq T
  BY FS_Subset
<1>2. Sums(g, T) /\ Sums(h, t)
  BY <1>1, SumsExist
<1>3. g[t] = h[t] /\ g[T] = IF T = {} THEN 0 ELSE Some(T).tokens + g[t]
  <2> HIDE DEF g, h
  <2>1. g[t] = h[t]
    <3> HIDE DEF t
    <3> QED
      BY <1>1, <1>2, SumsAgree
  <2> QED
    BY <1>2, <2>1, SumsAt
<1>4. TokensIn(T) = g[T] /\ TokensIn(t) = h[t]
  BY TokensInDef
<1> QED
  BY <1>3, <1>4

(* Weights add up in any order.                                             *)
LEMMA TokensInType ==
    ASSUME NEW T, IsFiniteSet(T), T \subseteq Entry
    PROVE  TokensIn(T) \in Nat
<1> DEFINE Good == {U \in SUBSET T : TokensIn(U) \in Nat}
<1>1. ASSUME NEW U \in SUBSET T, \A V \in SUBSET U : V # U => V \in Good
      PROVE  U \in Good
  <2>1. IsFiniteSet(U)
    BY FS_Subset
  <2>2. CASE U = {}
    <3>1. TokensIn(U) = 0
      BY <2>1, <2>2, TokensInRec
    <3> QED
      BY <3>1
  <2>3. CASE U # {}
    <3>1. Some(U) \in Entry /\ U \ {Some(U)} \in Good
      BY <1>1, <2>3, SomeElement
    <3>2. TokensIn(U) = Some(U).tokens + TokensIn(U \ {Some(U)})
      BY <2>1, <2>3, TokensInRec
    <3> QED
      BY <3>1, <3>2 DEF Entry
  <2> QED
    BY <2>2, <2>3
<1>2. T \in Good
  <2> HIDE DEF Good
  <2> QED
    BY <1>1, SubsetInduction
<1> QED
  BY <1>2

LEMMA TokensInRemove ==
    ASSUME NEW T, IsFiniteSet(T), T \subseteq Entry, NEW x \in T
    PROVE  TokensIn(T) = x.tokens + TokensIn(T \ {x})
<1> DEFINE Adds(U) == \A y \in U : TokensIn(U) = y.tokens + TokensIn(U \ {y})
           Good == {U \in SUBSET T : Adds(U)}
<1>1. ASSUME NEW U \in SUBSET T, \A V \in SUBSET U : V # U => V \in Good
      PROVE  U \in Good
  <2> SUFFICES ASSUME NEW y \in U
               PROVE  TokensIn(U) = y.tokens + TokensIn(U \ {y})
    OBVIOUS
  <2> DEFINE p == Some(U)
             rest == (U \ {p}) \ {y}
  <2>1. p \in U /\ p \in Entry /\ y \in Entry
    BY SomeElement
  <2>2. IsFiniteSet(U) /\ TokensIn(U) = p.tokens + TokensIn(U \ {p})
    BY FS_Subset, TokensInRec
  <2>3. CASE y = p
    BY <2>2, <2>3
  <2>4. CASE y # p
    <3>1. Adds(U \ {p}) /\ Adds(U \ {y})
      BY <1>1, <2>1
    <3>2. /\ TokensIn(U \ {p}) = y.tokens + TokensIn(rest)
          /\ TokensIn(U \ {y}) = p.tokens + TokensIn((U \ {y}) \ {p})
      BY <2>1, <2>4, <3>1
    <3>3. (U \ {y}) \ {p} = rest /\ IsFiniteSet(rest) /\ rest \subseteq Entry
      BY <2>2, FS_Subset
    <3>4. TokensIn(rest) \in Nat
      BY <3>3, TokensInType
    <3>5. p.tokens \in Nat /\ y.tokens \in Nat
      BY <2>1 DEF Entry
    <3>6. TokensIn(U \ {y}) = p.tokens + TokensIn(rest)
      <4> HIDE DEF p, rest
      <4> QED
        BY <3>2, <3>3
    <3> HIDE DEF p, rest
    <3> QED
      BY <2>2, <3>2, <3>4, <3>5, <3>6
  <2> QED
    BY <2>3, <2>4
<1>2. T \in Good
  <2> HIDE DEF Good
  <2> QED
    BY <1>1, SubsetInduction
<1> QED
  BY <1>2

LEMMA TokensInAdd ==
    ASSUME NEW T, IsFiniteSet(T), T \subseteq Entry, NEW e \in Entry
    PROVE  TokensIn(T \cup {e}) <= TokensIn(T) + e.tokens
<1>1. TokensIn(T) \in Nat /\ e.tokens \in Nat
  BY TokensInType DEF Entry
<1>2. CASE e \in T
  <2>1. T \cup {e} = T
    BY <1>2
  <2>2. TokensIn(T \cup {e}) = TokensIn(T)
    BY <2>1, Zenon
  <2> QED
    BY <1>1, <2>2
<1>3. CASE e \notin T
  <2>1. IsFiniteSet(T \cup {e}) /\ (T \cup {e}) \ {e} = T /\ T \cup {e} \subseteq Entry
    BY <1>3, FS_AddElement
  <2>2. TokensIn(T \cup {e}) = e.tokens + TokensIn((T \cup {e}) \ {e})
    BY <2>1, TokensInRemove
  <2>3. TokensIn((T \cup {e}) \ {e}) = TokensIn(T)
    BY <2>1, Zenon
  <2> QED
    BY <1>1, <2>2, <2>3
<1> QED
  BY <1>2, <1>3

LEMMA TokensInSubset ==
    ASSUME NEW T, IsFiniteSet(T), T \subseteq Entry, NEW S \in SUBSET T
    PROVE  TokensIn(S) <= TokensIn(T)
<1> DEFINE Good == {U \in SUBSET T : S \subseteq U => TokensIn(S) <= TokensIn(U)}
<1>1. ASSUME NEW U \in SUBSET T, \A V \in SUBSET U : V # U => V \in Good
      PROVE  U \in Good
  <2> SUFFICES ASSUME S \subseteq U PROVE TokensIn(S) <= TokensIn(U)
    OBVIOUS
  <2>1. /\ IsFiniteSet(U) /\ U \subseteq Entry
        /\ TokensIn(S) \in Nat /\ TokensIn(U) \in Nat
    BY FS_Subset, TokensInType
  <2>2. CASE S = U
    BY <2>1, <2>2
  <2>3. ASSUME NEW x \in U \ S PROVE TokensIn(S) <= TokensIn(U)
    <3>1. U \ {x} \in Good /\ S \subseteq U \ {x}
      BY <1>1, <2>3
    <3>2. TokensIn(U) = x.tokens + TokensIn(U \ {x})
      BY <2>1, TokensInRemove
    <3>3. x.tokens \in Nat /\ TokensIn(U \ {x}) \in Nat
      BY <2>1, FS_Subset, TokensInType DEF Entry
    <3> QED
      BY <2>1, <3>1, <3>2, <3>3
  <2> QED
    BY <2>2, <2>3
<1>2. T \in Good
  <2> HIDE DEF Good
  <2> QED
    BY <1>1, SubsetInduction
<1> QED
  BY <1>2
=============================================================================
