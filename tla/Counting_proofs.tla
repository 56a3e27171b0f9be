---------------------------- MODULE Counting_proofs ----------------------------
(***************************************************************************)
(* Counting, for the proofs about several components.                      *)
(*   Induction up to a number.                                             *)
(*   Counters of requests: what is added to a number and taken from it, as *)
(*   a set with one element for each request.  request_stack_size of both  *)
(*   RDMA layers is such a counter.                                        *)
(***************************************************************************)
EXTENDS Integers, FiniteSets, FiniteSetTheorems, WellFoundedInduction, TLAPS

(* What holds of 0, and of each next number if of the one before, holds of   *)
(* all the numbers up to N.                                                *)
LEMMA UpTo ==
  ASSUME NEW N \in Nat, NEW T, 0 \in T, \A n \in 0..(N - 1) : n \in T => n + 1 \in T
  PROVE  \A n \in 0..N : n \in T
<1>1. PICK R : R = {ss \in Nat \X Nat : ss[1] < ss[2]}
  OBVIOUS
<1>2. IsWellFoundedOn(R, Nat)
  BY <1>1, NatLessThanWellFounded DEF OpToRel
<1>3. SUFFICES ASSUME NEW D, D = {m \in 0..N : m \notin T}, D # {} PROVE FALSE
  OBVIOUS
<1>4. PICK n \in D : \A m \in D : ~(<<m, n>> \in R)
  <2>1. D \subseteq Nat
    BY <1>3
  <2>2. QED
    BY <1>2, <1>3, <2>1, WFMin
<1>5. n \in 0..N /\ n \notin T /\ n # 0
  BY <1>3
<1>6. n - 1 \in 0..(N - 1) /\ n - 1 \in 0..N /\ n - 1 < n
  BY <1>5
<1>7. n - 1 \notin D
  <2>1. n - 1 \in Nat /\ n \in Nat
    BY <1>5, <1>6
  <2>2. <<n - 1, n>> \in R
    BY <1>1, <1>6, <2>1
  <2>3. QED
    BY <1>4, <2>2
<1>8. n - 1 \in T
  BY <1>3, <1>6, <1>7
<1>9. QED
  BY <1>5, <1>6, <1>8

\* One pair for each of the f[d] requests of every d in S.
Slots(S, f) == {t \in S \X Nat : t[2] \in 1..f[t[1]]}

\* k more requests of one client are k more pairs.
LEMMA SlotsAdd ==
  ASSUME NEW S, NEW f \in [S -> Nat], NEW g \in [S -> Nat], NEW c \in S, NEW k \in Nat,
         g[c] = f[c] + k, \A d \in S \ {c} : g[d] = f[d], IsFiniteSet(Slots(S, f))
  PROVE  /\ IsFiniteSet(Slots(S, g))
         /\ Cardinality(Slots(S, g)) = Cardinality(Slots(S, f)) + k
<1> DEFINE more == (f[c] + 1)..g[c]
           New  == {c} \X more
<1>1. Slots(S, g) = Slots(S, f) \cup New
  <2>1. ASSUME NEW d \in S, NEW n \in Nat
        PROVE  n \in 1..g[d] <=> n \in 1..f[d] \/ (d = c /\ n \in more)
    <3>1. CASE d = c
      <4>1. f[c] \in Nat /\ g[c] \in Nat
        OBVIOUS
      <4>2. QED
        BY <3>1, <4>1
    <3>2. CASE d # c
      BY <3>2
    <3>3. QED
      BY <3>1, <3>2
  <2>2. New \subseteq S \X Nat
    OBVIOUS
  <2>3. ASSUME NEW t \in S \X Nat PROVE t \in Slots(S, g) <=> t \in Slots(S, f) \cup New
    <3>1. t[1] \in S /\ t[2] \in Nat /\ (t \in New <=> t[1] = c /\ t[2] \in more)
      OBVIOUS
    <3> HIDE DEF New, more
    <3>2. QED
      BY <2>1, <3>1 DEF Slots
  <2>4. Slots(S, g) \subseteq S \X Nat /\ Slots(S, f) \subseteq S \X Nat
    BY DEF Slots
  <2> HIDE DEF New
  <2>5. QED
    BY <2>2, <2>3, <2>4
<1>2. Slots(S, f) \cap New = {}
  <2>1. f[c] \in Nat
    OBVIOUS
  <2>2. ASSUME NEW t \in Slots(S, f), t \in New PROVE FALSE
    <3>1. t[2] \in 1..f[t[1]]
      BY DEF Slots
    <3>2. t[1] = c /\ t[2] \in more
      BY <2>2
    <3>3. QED
      BY <2>1, <3>1, <3>2
  <2>3. QED
    BY <2>2
<1>3. IsFiniteSet(New) /\ Cardinality(New) = k
  <2>1. PICK a \in Nat, b \in Nat : a = f[c] /\ b = g[c] /\ b = a + k
    OBVIOUS
  <2>2. IsFiniteSet(more) /\ Cardinality(more) = k
    <3>1. IsFiniteSet((a + 1)..b) /\ Cardinality((a + 1)..b) =
            IF a + 1 > b THEN 0 ELSE b - (a + 1) + 1
      <4>1. a + 1 \in Int /\ b \in Int
        OBVIOUS
      <4>2. QED
        BY <4>1, FS_Interval
    <3>2. (IF a + 1 > b THEN 0 ELSE b - (a + 1) + 1) = k
      BY <2>1
    <3>3. QED
      BY <2>1, <3>1, <3>2
  <2>3. IsFiniteSet({c}) /\ Cardinality({c}) = 1
    BY FS_Singleton
  <2> HIDE DEF more
  <2>4. IsFiniteSet(New) /\ Cardinality(New) = 1 * k
    BY <2>2, <2>3, FS_Product
  <2>5. 1 * k = k
    OBVIOUS
  <2>6. QED
    BY <2>4, <2>5
<1> HIDE DEF New
<1>4. /\ IsFiniteSet(Slots(S, f) \cup New)
      /\ Cardinality(Slots(S, f) \cup New) =
           Cardinality(Slots(S, f)) + Cardinality(New) - Cardinality(Slots(S, f) \cap New)
  BY <1>3, FS_Union
<1>5. Cardinality(Slots(S, f)) \in Nat /\ Cardinality(Slots(S, f) \cap New) = 0
  BY <1>2, FS_CardinalityType, FS_EmptySet
<1>6. QED
  BY <1>1, <1>3, <1>4, <1>5

\* One request less is one pair less.
LEMMA SlotsRemove ==
  ASSUME NEW S, NEW f \in [S -> Nat], NEW g \in [S -> Nat], NEW c \in S,
         f[c] = g[c] + 1, \A d \in S \ {c} : g[d] = f[d], IsFiniteSet(Slots(S, f))
  PROVE  /\ IsFiniteSet(Slots(S, g))
         /\ Cardinality(Slots(S, g)) = Cardinality(Slots(S, f)) - 1
<1>1. Slots(S, g) \subseteq Slots(S, f)
  <2>1. ASSUME NEW t \in Slots(S, g) PROVE t \in Slots(S, f)
    <3>1. t \in S \X Nat /\ t[1] \in S /\ t[2] \in 1..g[t[1]]
      BY DEF Slots
    <3>2. f[t[1]] \in Nat /\ g[t[1]] \in Nat
      BY <3>1
    <3>3. f[t[1]] = g[t[1]] \/ f[t[1]] = g[t[1]] + 1
      BY <3>1
    <3>4. t[2] \in 1..f[t[1]]
      BY <3>1, <3>2, <3>3
    <3>5. QED
      BY <3>1, <3>4 DEF Slots
  <2>2. QED
    BY <2>1
<1>2. IsFiniteSet(Slots(S, g))
  BY <1>1, FS_Subset
<1>3. Cardinality(Slots(S, f)) = Cardinality(Slots(S, g)) + 1
  <2>1. 1 \in Nat /\ \A d \in S \ {c} : f[d] = g[d]
    OBVIOUS
  <2>2. QED
    BY <1>2, <2>1, SlotsAdd
<1>4. Cardinality(Slots(S, g)) \in Nat
  BY <1>2, FS_CardinalityType
<1>5. QED
  BY <1>2, <1>3, <1>4

\* Without a pair there is no request.
LEMMA SlotsNone ==
  ASSUME NEW S, NEW f \in [S -> Nat], IsFiniteSet(Slots(S, f)),
         Cardinality(Slots(S, f)) = 0
  PROVE  \A c \in S : f[c] = 0
<1>1. Slots(S, f) = {}
  BY FS_EmptySet
<1>2. ASSUME NEW c \in S, f[c] # 0 PROVE FALSE
  <2>1. f[c] \in Nat
    OBVIOUS
  <2>2. 1 \in 1..f[c]
    BY <1>2, <2>1
  <2>3. <<c, 1>> \in Slots(S, f)
    BY <2>2 DEF Slots
  <2>4. QED
    BY <1>1, <2>3
<1>3. QED
  BY <1>2
================================================================================
