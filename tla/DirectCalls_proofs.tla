-------------------------- MODULE DirectCalls_proofs --------------------------
(***************************************************************************)
(* The servers make the netCDF calls that the clients' program would make  *)
(* itself, for any number of clients, servers and calls, when the program  *)
(* keeps to the modes of its files, puts no text and no creation fails.    *)
(*   Owed: the calls promised for the first k calls of a program.  Each    *)
(*   call adds what it Does: the one that ends the definitions the header  *)
(*   of its file (Block, Blocks), which cannot change later.               *)
(*   Holds: the definitions that a server keeps of a file are those of the *)
(*   first k calls, each the first of its name, with the attributes of     *)
(*   these calls (FirstBy, AttsBy) and, once numbered, the numbers of the  *)
(*   dimensions and variables in their order (InOrder).                    *)
(*   Holding: besides, what the library knows of the files, the parts that *)
(*   recv_data has, and the log, which is what is owed, or what is owed    *)
(*   but for the library call that the server waits in.                    *)
(*   Writes: that, for the server's own k, of the calls made so far.  It   *)
(*   is inductive together with AllOpen of IoRequests_proofs (IInvWrites): *)
(*   Wrote is the step of a handler, Writing what it finds before it.      *)
(*   From that, AsProgrammed and the refinement of DirectCalls.            *)
(***************************************************************************)
EXTENDS IoRequests_proofs

(***************************************************************************)
(* Numbers in their order, and sequences made of sequences.                 *)
(***************************************************************************)

(* The place of i among the numbers of S. *)
Rank(S, i) == Cardinality({j \in S : j <= i})

\* No two numbers have the same place.
LEMMA RankUnique ==
  ASSUME NEW S, IsFiniteSet(S), S \subseteq Int, NEW i \in S, NEW j \in S
  PROVE  /\ Rank(S, i) \in 1..Cardinality(S) /\ Cardinality(S) \in Nat
         /\ i < j => Rank(S, i) < Rank(S, j)
<1>1. PICK A, B : A = {x \in S : x <= i} /\ B = {x \in S : x <= j}
  OBVIOUS
<1>2. IsFiniteSet(A) /\ IsFiniteSet(B) /\ Cardinality(A) <= Cardinality(S)
  BY <1>1, FS_Subset
<1>3. Cardinality(A) \in Nat /\ Cardinality(B) \in Nat /\ Cardinality(S) \in Nat
  BY <1>2, FS_CardinalityType
<1>4. i \in A
  BY <1>1
<1>5. Cardinality(A) # 0
  BY <1>2, <1>4, FS_EmptySet
<1>6. ASSUME i < j PROVE Cardinality(A) < Cardinality(B)
  <2>1. A \subseteq B /\ j \in B /\ j \notin A
    <3>1. i \in Int /\ j \in Int /\ \A x \in S : x \in Int
      OBVIOUS
    <3>2. ~(j <= i) /\ j <= j /\ \A x \in S : x <= i => x <= j
      BY <1>6, <3>1
    <3>3. QED
      BY <1>1, <3>2
  <2>2. Cardinality(A) <= Cardinality(B) /\ Cardinality(A) # Cardinality(B)
    BY <1>2, <2>1, FS_Subset
  <2>3. QED
    BY <1>3, <2>2
<1>7. Rank(S, i) = Cardinality(A) /\ Rank(S, j) = Cardinality(B)
  BY <1>1 DEF Rank
<1>8. QED
  BY <1>2, <1>3, <1>5, <1>6, <1>7

\* The number at a place.
LEMMA InOrderAt ==
  ASSUME NEW S, IsFiniteSet(S), S \subseteq Int, NEW i \in S
  PROVE  InOrder(S)[Rank(S, i)] = i
<1>1. PICK n : n = Rank(S, i) /\ n \in 1..Cardinality(S)
  BY RankUnique
<1>2. InOrder(S)[n] = CHOOSE x \in S : Rank(S, x) = n
  BY <1>1 DEF InOrder, Rank
<1>3. PICK x : x = CHOOSE y \in S : Rank(S, y) = n
  OBVIOUS
<1>4. x \in S /\ Rank(S, x) = n
  BY <1>1, <1>3
<1>5. x = i
  <2>1. x \in Int /\ i \in Int /\ Rank(S, x) = Rank(S, i) /\ Rank(S, i) \in Int
    BY <1>1, <1>4
  <2>2. ~(x < i) /\ ~(i < x)
    <3>1. x < i => Rank(S, x) < Rank(S, i)
      BY <1>4, RankUnique
    <3>2. i < x => Rank(S, i) < Rank(S, x)
      BY <1>4, RankUnique
    <3>3. PICK r : r = Rank(S, i)
      OBVIOUS
    <3>4. ~(r < r) /\ Rank(S, x) = r
      BY <2>1, <3>3
    <3>5. QED
      BY <3>1, <3>2, <3>3, <3>4
  <2>3. QED
    BY <2>1, <2>2
<1>6. QED
  BY <1>1, <1>2, <1>3, <1>5

(* Every place is that of a number. *)
Ranked(S) == IsFiniteSet(S) /\ \A n \in 1..Cardinality(S) : \E i \in S : Rank(S, i) = n

Above(S, x) == S \subseteq Int /\ x \in Int /\ \A i \in S : i < x

(* With x as the greatest, the places of the others stay. *)
RanksNext(S, x, T) ==
  /\ Cardinality(S) \in Nat /\ Cardinality(T) = Cardinality(S) + 1 /\ Rank(T, x) = Cardinality(T)
  /\ \A i \in S : Rank(T, i) = Rank(S, i)

\* One more number, greater than all.
LEMMA RankedNext ==
  ASSUME NEW S, NEW x, Ranked(S), Above(S, x), NEW T, T = S \cup {x}
  PROVE  Ranked(T) /\ RanksNext(S, x, T)
<1>0. S \subseteq Int /\ x \in Int /\ \A i \in S : i < x
  BY DEF Above
<1>1. x \notin S /\ IsFiniteSet(S)
  BY <1>0 DEF Ranked
<1>2. IsFiniteSet(T) /\ Cardinality(T) = Cardinality(S) + 1 /\ Cardinality(S) \in Nat
  BY <1>1, FS_AddElement, FS_CardinalityType
<1>3. Rank(T, x) = Cardinality(T)
  <2>1. \A j \in T : j <= x
    <3>1. \A j \in S : j \in Int /\ j < x
      BY <1>0
    <3>2. QED
      BY <1>0, <3>1
  <2>2. {j \in T : j <= x} = T
    BY <2>1
  <2>3. QED
    BY <2>2 DEF Rank
<1>4. ASSUME NEW i \in S PROVE Rank(T, i) = Rank(S, i)
  <2>1. i \in Int /\ x \in Int /\ i < x
    BY <1>0
  <2>2. {j \in T : j <= i} = {j \in S : j <= i}
    BY <2>1
  <2>3. QED
    BY <2>2 DEF Rank
<1>5. ASSUME NEW n \in 1..Cardinality(T) PROVE \E i \in T : Rank(T, i) = n
  <2>1. CASE n = Cardinality(T)
    BY <1>3, <2>1
  <2>2. CASE n # Cardinality(T)
    <3>1. n \in 1..Cardinality(S)
      BY <1>2, <2>2
    <3>2. PICK i \in S : Rank(S, i) = n
      BY <3>1 DEF Ranked
    <3>3. QED
      BY <1>4, <3>2
  <2>3. QED
    BY <2>1, <2>2
<1>6. QED
  BY <1>2, <1>3, <1>4, <1>5 DEF Ranked, RanksNext

\* Sets of the first numbers are finite, and have every place.
LEMMA AllRanked ==
  ASSUME NEW N \in Nat, NEW S \in SUBSET (1..N)
  PROVE  Ranked(S)
<1>1. PICK T : T = {n \in 0..N : \A r \in SUBSET (1..n) : Ranked(r)}
  OBVIOUS
<1>2. 0 \in T
  <2>1. Ranked({})
    <3>1. IsFiniteSet({}) /\ Cardinality({}) = 0 /\ 1..0 = {}
      BY FS_EmptySet
    <3>2. QED
      BY <3>1 DEF Ranked
  <2>2. ASSUME NEW r \in SUBSET (1..0) PROVE Ranked(r)
    <3>1. r = {}
      OBVIOUS
    <3>2. QED
      BY <2>1, <3>1
  <2>3. 0 \in 0..N
    OBVIOUS
  <2>4. QED
    BY <1>1, <2>2, <2>3
<1>3. ASSUME NEW n \in 0..(N - 1), n \in T PROVE n + 1 \in T
  <2>1. ASSUME NEW r \in SUBSET (1..(n + 1)) PROVE Ranked(r)
    <3>1. PICK q : q = r \ {n + 1}
      OBVIOUS
    <3>2. q \in SUBSET (1..n) /\ Above(q, n + 1)
      BY <3>1 DEF Above
    <3>3. Ranked(q)
      BY <1>1, <1>3, <3>2
    <3>4. CASE n + 1 \in r
      <4>1. r = q \cup {n + 1} /\ n + 1 \in Int
        BY <3>1, <3>4
      <4>2. QED
        BY <3>2, <3>3, <4>1, RankedNext
    <3>5. CASE n + 1 \notin r
      <4>1. r = q
        BY <3>1, <3>5
      <4>2. QED
        BY <3>3, <4>1
    <3>6. QED
      BY <3>4, <3>5
  <2>2. n + 1 \in 0..N
    OBVIOUS
  <2>3. QED
    BY <1>1, <2>1, <2>2
<1>4. \A n \in 0..N : n \in T
  BY <1>2, <1>3, UpTo
<1>5. QED
  BY <1>1, <1>4

\* The numbers of a set in their order.
LEMMA InOrderIs ==
  ASSUME NEW N \in Nat, NEW S \in SUBSET (1..N), NEW q, q = InOrder(S)
  PROVE  /\ q \in Seq(S) /\ Len(q) = Cardinality(S) /\ Len(q) \in Nat /\ DOMAIN q = 1..Len(q)
         /\ \A n \in 1..Len(q) : q[n] \in S
         /\ \A i \in S : \E n \in 1..Len(q) : q[n] = i
         /\ \A m, n \in 1..Len(q) : m < n => q[m] < q[n]
<1>0. Ranked(S)
  BY AllRanked
<1>1. Ranked(S) /\ S \subseteq Int /\ IsFiniteSet(S)
  BY <1>0 DEF Ranked
<1>2. PICK k : k = Cardinality(S) /\ k \in Nat
  BY <1>1, FS_CardinalityType
<1>3. ASSUME NEW n \in 1..k PROVE q[n] \in S /\ Rank(S, q[n]) = n
  <2>1. PICK i \in S : Rank(S, i) = n
    BY <1>1, <1>2, <1>3 DEF Ranked
  <2>2. q[n] = i
    BY <1>1, <2>1, InOrderAt
  <2>3. QED
    BY <2>1, <2>2
<1>4. q = [n \in 1..k |-> q[n]] /\ DOMAIN q = 1..k
  <2>1. q = [n \in 1..k |-> CHOOSE i \in S : Cardinality({j \in S : j <= i}) = n]
    BY <1>2 DEF InOrder
  <2>2. QED
    BY <2>1
<1>5. q \in [1..k -> S]
  BY <1>3, <1>4
<1>6. q \in Seq(S) /\ Len(q) = k
  BY <1>2, <1>5
<1>7. ASSUME NEW i \in S PROVE \E n \in 1..k : q[n] = i
  BY <1>1, <1>2, RankUnique, InOrderAt
<1>8. ASSUME NEW m \in 1..k, NEW n \in 1..k, m < n PROVE q[m] < q[n]
  <2>1. PICK a, b : a = q[m] /\ b = q[n]
    OBVIOUS
  <2>2. a \in S /\ b \in S /\ Rank(S, a) = m /\ Rank(S, b) = n
    BY <1>3, <2>1
  <2>3. a \in Int /\ b \in Int /\ m \in Int /\ n \in Int /\ a # b
    BY <1>1, <1>8, <2>2
  <2>4. ~(b < a)
    <3>1. b < a => Rank(S, b) < Rank(S, a)
      BY <1>1, <2>2, RankUnique
    <3>2. QED
      BY <1>8, <2>2, <2>3, <3>1
  <2>5. QED
    BY <2>1, <2>3, <2>4
<1>9. QED
  BY <1>2, <1>3, <1>4, <1>6, <1>7, <1>8

\* A greater number comes last.
LEMMA InOrderNext ==
  ASSUME NEW N \in Nat, NEW S \in SUBSET (1..N)
  PROVE  InOrder(S \cup {N + 1}) = Append(InOrder(S), N + 1)
<1>1. PICK T, p, q : T = S \cup {N + 1} /\ p = InOrder(S) /\ q = InOrder(T)
  OBVIOUS
<1>2. S \subseteq Int /\ T \subseteq Int /\ T \in SUBSET (1..(N + 1)) /\ N + 1 \in Int /\ \A i \in S : i < N + 1
  BY <1>1
<1>3. Ranked(S) /\ Ranked(T) /\ IsFiniteSet(S) /\ IsFiniteSet(T)
  <2>1. Ranked(S)
    BY AllRanked
  <2>2. Ranked(T)
    <3>1. N + 1 \in Nat
      OBVIOUS
    <3>2. QED
      BY <1>2, <3>1, AllRanked
  <2>3. QED
    BY <2>1, <2>2 DEF Ranked
<1>3a. PICK x : x = N + 1
  OBVIOUS
<1>3b. /\ Cardinality(T) = Cardinality(S) + 1 /\ Rank(T, x) = Cardinality(T)
       /\ \A i \in S : Rank(T, i) = Rank(S, i)
       /\ Cardinality(S) \in Nat
  <2>1. Above(S, x) /\ T = S \cup {x} /\ Ranked(S)
    BY <1>1, <1>2, <1>3, <1>3a DEF Above
  <2>2. RanksNext(S, x, T)
    BY <2>1, RankedNext
  <2>3. QED
    BY <2>2 DEF RanksNext
<1>4. PICK k : k = Cardinality(S) /\ k \in Nat /\ Cardinality(T) = k + 1
  BY <1>3b
<1>5. p \in Seq(S) /\ Len(p) = k /\ Len(q) = k + 1 /\ q \in Seq(T)
  <2>1. p \in Seq(S) /\ Len(p) = Cardinality(S)
    BY <1>1, InOrderIs
  <2>2. N + 1 \in Nat
    OBVIOUS
  <2>3. q \in Seq(T) /\ Len(q) = Cardinality(T)
    <3>1. PICK M : M = N + 1 /\ M \in Nat
      BY <2>2
    <3>2. T \in SUBSET (1..M) /\ q = InOrder(T)
      BY <1>1, <1>2, <3>1
    <3>3. QED
      BY <3>1, <3>2, InOrderIs
  <2>4. QED
    BY <1>4, <2>1, <2>3
<1>6. ASSUME NEW n \in 1..k PROVE q[n] = p[n]
  <2>0. \A y \in 1..k : \E i \in S : Rank(S, i) = y
    BY <1>3, <1>4 DEF Ranked
  <2>1. PICK i \in S : Rank(S, i) = n
    BY <2>0
  <2>2. Rank(T, i) = n /\ i \in T
    BY <1>1, <2>1, <1>3b
  <2>3. p[n] = i
    <3>1. InOrder(S)[Rank(S, i)] = i
      BY <1>2, <1>3, InOrderAt
    <3>2. QED
      BY <1>1, <2>1, <3>1
  <2>4. q[n] = i
    <3>1. InOrder(T)[Rank(T, i)] = i
      BY <1>2, <1>3, <2>2, InOrderAt
    <3>2. QED
      BY <1>1, <2>2, <3>1
  <2>5. QED
    BY <2>3, <2>4
<1>7. q[k + 1] = N + 1
  <2>1. Rank(T, N + 1) = k + 1 /\ N + 1 \in T
    BY <1>1, <1>3a, <1>3b, <1>4
  <2>2. QED
    <3>1. InOrder(T)[Rank(T, N + 1)] = N + 1
      BY <1>2, <1>3, <2>1, InOrderAt
    <3>2. QED
      BY <1>1, <2>1, <3>1
<1>8. Append(p, N + 1) \in Seq(T) /\ Len(Append(p, N + 1)) = k + 1
  <2>1. p \in Seq(T)
    <3>1. p \in [1..k -> S]
      BY <1>4, <1>5
    <3>2. p \in [1..k -> T]
      BY <1>1, <3>1
    <3>3. QED
      BY <1>4, <3>2
  <2>2. N + 1 \in T
    BY <1>1
  <2>3. QED
    BY <1>4, <1>5, <2>1, <2>2
<1>9. PICK r : r = Append(p, N + 1) /\ r \in Seq(T) /\ Len(r) = k + 1
  BY <1>8
<1>10. \A n \in 1..(k + 1) : r[n] = q[n]
  BY <1>4, <1>5, <1>6, <1>7, <1>9
<1>11. r = q
  BY <1>4, <1>5, <1>9, <1>10
<1>12. QED
  BY <1>1, <1>9, <1>11

\* Nothing in order.
LEMMA InOrderNone == InOrder({}) = << >>
<1>1. Cardinality({}) = 0 /\ 1..0 = {}
  BY FS_EmptySet
<1>2. QED
  BY <1>1 DEF InOrder

(* f[i] is what the first i sequences of ss make. *)
Joins(ss, n, f) ==
  /\ f = [i \in 1..n |-> f[i]]
  /\ \A i \in 1..n : f[i] = IF i = 1 THEN ss[i] ELSE f[i - 1] \o ss[i]

\* FlattenSeq takes such a function.
LEMMA FlattenIs ==
  ASSUME NEW V, NEW ss \in Seq(V), ss # << >>, NEW f, Joins(ss, Len(ss), f)
  PROVE  \E g : Joins(ss, Len(ss), g) /\ FlattenSeq(ss) = g[Len(ss)]
<1>1. PICK n : n = Len(ss) /\ n \in Nat \ {0}
  OBVIOUS
<1>2. f = [i \in 1..n |-> IF i = 1 THEN ss[i] ELSE f[i - 1] \o ss[i]]
  BY <1>1 DEF Joins
<1>3. PICK g : g = CHOOSE e : e = [i \in 1..n |-> IF i = 1 THEN ss[i] ELSE e[i - 1] \o ss[i]]
  OBVIOUS
<1>4. g = [i \in 1..n |-> IF i = 1 THEN ss[i] ELSE g[i - 1] \o ss[i]]
  BY <1>2, <1>3, Zenon
<1>5. Joins(ss, n, g)
  BY <1>4 DEF Joins
<1>6. FlattenSeq(ss) = g[n]
  BY <1>1, <1>3 DEF FlattenSeq
<1>7. QED
  BY <1>1, <1>5, <1>6

\* It exists for sequences of sequences.
LEMMA JoinThere ==
  ASSUME NEW V, NEW ss \in Seq(Seq(V)), NEW n \in 0..Len(ss)
  PROVE  \E f : Joins(ss, n, f) /\ f \in [1..n -> Seq(V)]
<1>1. PICK N : N = Len(ss) /\ N \in Nat /\ \A i \in 1..N : ss[i] \in Seq(V)
  OBVIOUS
<1>2. PICK T : T = {i \in 0..N : \E f : Joins(ss, i, f) /\ f \in [1..i -> Seq(V)]}
  OBVIOUS
<1>3. 0 \in T
  <2>1. PICK f : f = [i \in 1..0 |-> << >>]
    OBVIOUS
  <2>2. 1..0 = {} /\ 0 \in 0..N
    BY <1>1
  <2>3. Joins(ss, 0, f) /\ f \in [1..0 -> Seq(V)]
    BY <2>1, <2>2 DEF Joins
  <2>4. QED
    BY <1>2, <2>2, <2>3
<1>4. ASSUME NEW k \in 0..(N - 1), k \in T PROVE k + 1 \in T
  <2>1. PICK f : Joins(ss, k, f) /\ f \in [1..k -> Seq(V)]
    BY <1>2, <1>4
  <2>2. PICK x : x = IF k = 0 THEN ss[k + 1] ELSE f[k] \o ss[k + 1]
    OBVIOUS
  <2>3. k + 1 \in 1..N /\ k + 1 \in 0..N /\ (k # 0 => k \in 1..k) /\ k \in Nat
    BY <1>1
  <2>4. x \in Seq(V)
    <3>1. ss[k + 1] \in Seq(V)
      BY <1>1, <2>3
    <3>2. CASE k = 0
      BY <2>2, <3>1, <3>2
    <3>3. CASE k # 0
      <4>1. f[k] \in Seq(V)
        BY <2>1, <2>3, <3>3
      <4>2. QED
        BY <2>2, <3>1, <3>3, <4>1
    <3>4. QED
      BY <3>2, <3>3
  <2>5. PICK g : g = [i \in 1..(k + 1) |-> IF i = k + 1 THEN x ELSE f[i]]
    OBVIOUS
  <2>6. /\ DOMAIN g = 1..(k + 1) /\ g[k + 1] = x /\ \A i \in 1..k : g[i] = f[i]
        /\ g \in [1..(k + 1) -> Seq(V)]
    BY <2>1, <2>3, <2>4, <2>5
  <2>7. ASSUME NEW i \in 1..(k + 1)
        PROVE  g[i] = IF i = 1 THEN ss[i] ELSE g[i - 1] \o ss[i]
    <3>1. CASE i = k + 1
      <4>1. CASE k = 0
        BY <2>2, <2>6, <3>1, <4>1
      <4>2. CASE k # 0
        <5>1. i # 1 /\ i - 1 = k /\ k \in 1..k
          BY <2>3, <3>1, <4>2
        <5>2. g[k] = f[k] /\ g[i] = f[k] \o ss[i]
          BY <2>2, <2>6, <3>1, <4>2, <5>1
        <5>3. QED
          BY <5>1, <5>2
      <4>3. QED
        BY <4>1, <4>2
    <3>2. CASE i # k + 1
      <4>1. i \in 1..k /\ (i # 1 => i - 1 \in 1..k)
        BY <2>3, <3>2
      <4>2. f[i] = IF i = 1 THEN ss[i] ELSE f[i - 1] \o ss[i]
        BY <2>1, <4>1 DEF Joins
      <4>3. g[i] = f[i] /\ (i # 1 => g[i - 1] = f[i - 1])
        BY <2>6, <4>1
      <4>4. QED
        BY <4>2, <4>3
    <3>3. QED
      BY <3>1, <3>2
  <2>8. Joins(ss, k + 1, g)
    BY <2>6, <2>7 DEF Joins
  <2>9. QED
    BY <1>2, <2>3, <2>6, <2>8
<1>5. \A i \in 0..N : i \in T
  BY <1>1, <1>3, <1>4, UpTo
<1>6. QED
  BY <1>1, <1>2, <1>5

(* s and t have their first m elements in common. *)
Begins(s, t, m) == \A i \in 1..m : t[i] = s[i]

\* It is the same for sequences that begin alike.
LEMMA JoinSame ==
  ASSUME NEW m \in Nat, NEW n \in Nat, m <= n, NEW ss, NEW tt, Begins(ss, tt, m),
         NEW f, Joins(ss, m, f), NEW g, Joins(tt, n, g)
  PROVE  Begins(f, g, m)
<1>1. PICK T : T = {i \in 0..m : i # 0 => g[i] = f[i]}
  OBVIOUS
<1>2. 0 \in T
  BY <1>1
<1>3. ASSUME NEW k \in 0..(m - 1), k \in T PROVE k + 1 \in T
  <2>1. k + 1 \in 1..m /\ k + 1 \in 1..n /\ k + 1 \in 0..m /\ (k = 0 <=> k + 1 = 1) /\ (k + 1) - 1 = k
    OBVIOUS
  <2>2. /\ g[k + 1] = IF k = 0 THEN tt[k + 1] ELSE g[k] \o tt[k + 1]
        /\ f[k + 1] = IF k = 0 THEN ss[k + 1] ELSE f[k] \o ss[k + 1]
    BY <2>1 DEF Joins
  <2>3. tt[k + 1] = ss[k + 1] /\ (k # 0 => g[k] = f[k])
    BY <1>1, <1>3, <2>1 DEF Begins
  <2>4. g[k + 1] = f[k + 1]
    BY <2>2, <2>3, Zenon
  <2>5. QED
    BY <1>1, <2>1, <2>4
<1>4. \A i \in 0..m : i \in T
  BY <1>2, <1>3, UpTo
<1>5. ASSUME NEW i \in 1..m PROVE g[i] = f[i]
  <2>1. i \in 0..m /\ i # 0
    OBVIOUS
  <2>2. QED
    BY <1>1, <1>4, <2>1
<1>6. QED
  BY <1>5 DEF Begins

\* A sequence more is added at the end.
LEMMA FlattenNext ==
  ASSUME NEW V, NEW ss \in Seq(Seq(V)), NEW x \in Seq(V)
  PROVE  /\ FlattenSeq(ss) \in Seq(V)
         /\ FlattenSeq(Append(ss, x)) = FlattenSeq(ss) \o x
         /\ FlattenSeq(<< >>) = << >>
<1>0. FlattenSeq(<< >>) = << >>
  BY DEF FlattenSeq
<1>a. PICK W : W = Seq(V)
  OBVIOUS
<1>b. ss \in Seq(W) /\ x \in W
  BY <1>a
<1>d. PICK tt : tt = Append(ss, x)
  OBVIOUS
<1>1. PICK n : n = Len(ss) /\ n \in Nat /\ tt = Append(ss, x)
  BY <1>b, <1>d
<1>c. /\ tt \in Seq(W) /\ Len(tt) = n + 1 /\ tt[n + 1] = x /\ \A i \in 1..n : tt[i] = ss[i]
  BY <1>1, <1>b
<1>2. /\ tt \in Seq(Seq(V)) /\ Len(tt) = n + 1 /\ tt[n + 1] = x /\ tt # << >>
      /\ \A i \in 1..n : tt[i] = ss[i]
  <2>1. tt # << >>
    <3>1. Len(<< >>) = 0
      OBVIOUS
    <3>2. Len(tt) = n + 1 /\ n \in Nat
      BY <1>1, <1>c
    <3>3. QED
      BY <3>1, <3>2
  <2>2. QED
    BY <1>a, <1>c, <2>1
<1>3. PICK e : Joins(tt, n + 1, e)
  <2>1. n + 1 \in 0..Len(tt)
    BY <1>1, <1>2
  <2>2. QED
    BY <1>2, <2>1, JoinThere
<1>4. PICK g : Joins(tt, n + 1, g) /\ FlattenSeq(tt) = g[n + 1]
  BY <1>2, <1>3, FlattenIs
<1>5. CASE n = 0
  <2>1. ss = << >>
    <3>1. ss \in Seq(W) /\ Len(ss) = 0
      BY <1>1, <1>5, <1>b
    <3>2. QED
      BY <3>1, EmptySeq, Zenon
  <2>2. g[n + 1] = x
    <3>1. n + 1 = 1 /\ 1 \in 1..(n + 1)
      BY <1>5
    <3>2. g[1] = tt[1]
      BY <1>4, <3>1 DEF Joins
    <3>3. QED
      BY <1>2, <3>1, <3>2
  <2>3. << >> \o x = x /\ << >> \in Seq(V)
    OBVIOUS
  <2>4. QED
    BY <1>0, <1>1, <1>4, <2>1, <2>2, <2>3
<1>6. CASE n # 0
  <2>1. ss # << >> /\ n \in 0..Len(ss) /\ n \in 1..n /\ n + 1 \in 1..(n + 1) /\ n + 1 # 1 /\ (n + 1) - 1 = n
    BY <1>1, <1>6
  <2>2. PICK d : Joins(ss, n, d) /\ d \in [1..n -> Seq(V)]
    BY <2>1, JoinThere
  <2>3. PICK f : Joins(ss, n, f) /\ FlattenSeq(ss) = f[n]
    BY <1>1, <2>1, <2>2, FlattenIs
  <2>4. f[n] = d[n]
    <3>1. n \in Nat /\ n <= n /\ Begins(ss, ss, n)
      BY <1>1 DEF Begins
    <3>2. Begins(d, f, n)
      BY <2>2, <2>3, <3>1, JoinSame
    <3>3. QED
      BY <2>1, <3>2 DEF Begins
  <2>5. g[n] = f[n]
    <3>1. n \in Nat /\ n + 1 \in Nat /\ n <= n + 1
      BY <1>1
    <3>2. QED
      <4>1. Joins(tt, n + 1, g) /\ Joins(ss, n, f) /\ Begins(ss, tt, n)
        BY <1>2, <1>4, <2>3 DEF Begins
      <4>2. Begins(f, g, n)
        BY <3>1, <4>1, JoinSame
      <4>3. QED
        BY <2>1, <4>2 DEF Begins
  <2>6. g[n + 1] = g[n] \o tt[n + 1]
    BY <1>4, <2>1 DEF Joins
  <2>7. FlattenSeq(ss) \in Seq(V)
    BY <2>1, <2>2, <2>3, <2>4
  <2>8. FlattenSeq(tt) = FlattenSeq(ss) \o x
    BY <1>2, <1>4, <2>3, <2>5, <2>6
  <2>9. QED
    BY <1>0, <1>1, <2>7, <2>8
<1>7. QED
  BY <1>5, <1>6

(***************************************************************************)
(* Headers.  The header of a file is made of the entries that its definitions*)
(* put there, each with its attributes behind it.                           *)
(***************************************************************************)

(* Positions of definitions of the file p among the first k calls, each the  *)
(* first of its name, and those of attributes.                              *)
FirstBy(prog, k, p) ==
  {i \in 1..k : /\ prog[i].op \in {"def_dim", "def_var"} /\ prog[i].path = p
                /\ \A j \in 1..(i - 1) : ~(prog[j].op = prog[i].op /\ prog[j].path = p
                                           /\ prog[j].name = prog[i].name)}

AttsBy(prog, k, p, name) ==
  {i \in 1..k : prog[i].op = "put_att" /\ prog[i].path = p /\ prog[i].name = name}

AttsOf(prog, k, i) ==
  InOrder(IF prog[i].op = "def_var" THEN AttsBy(prog, k, prog[i].path, prog[i].name) ELSE {})

(* What the i-th call puts into the header of its file. *)
AttEntries(prog, k, i) ==
  [x \in DOMAIN AttsOf(prog, k, i) |->
    Entry("put_att", prog[i].path, prog[i].name, << >>, {AttsOf(prog, k, i)[x]})]

Block(prog, k, i) ==
  <<Entry(prog[i].op, prog[i].path, prog[i].name, prog[i].dims, {})>> \o AttEntries(prog, k, i)

Blocks(prog, k, p) ==
  LET fd == InOrder(FirstBy(prog, k, p)) IN [x \in DOMAIN fd |-> Block(prog, k, fd[x])]

(* The entries that calls of a program can make. *)
Entries(prog) ==
  [op : {prog[i].op : i \in DOMAIN prog}, path : {prog[i].path : i \in DOMAIN prog},
   name : {prog[i].name : i \in DOMAIN prog}, dims : {<< >>} \cup {prog[i].dims : i \in DOMAIN prog},
   from : SUBSET (DOMAIN prog)]

\* The first calls of a program.
LEMMA PrefixIs ==
  ASSUME NEW S, NEW prog \in Seq(S), NEW k \in 0..Len(prog), NEW q, q = SubSeq(prog, 1, k)
  PROVE  /\ Len(q) = k /\ DOMAIN q = 1..k /\ k \in Nat /\ Len(prog) \in Nat /\ DOMAIN prog = 1..Len(prog)
         /\ \A i \in 1..k : q[i] = prog[i] /\ i \in DOMAIN prog
         /\ \A j \in 0..k : SubSeq(q, 1, j) = SubSeq(prog, 1, j)
<1>1. k \in Nat /\ Len(prog) \in Nat /\ DOMAIN prog = 1..Len(prog) /\ k <= Len(prog)
  OBVIOUS
<1>2. q \in Seq(S) /\ Len(q) = k /\ \A i \in 1..k : q[i] = prog[i]
  BY <1>1
<1>3. ASSUME NEW j \in 0..k PROVE SubSeq(q, 1, j) = SubSeq(prog, 1, j)
  <2>1. SubSeq(q, 1, j) = [i \in 1..j |-> q[i]] /\ SubSeq(prog, 1, j) = [i \in 1..j |-> prog[i]]
    BY <1>1, <1>2
  <2>2. \A i \in 1..j : q[i] = prog[i]
    BY <1>2
  <2>3. QED
    BY <2>1, <2>2
<1>4. QED
  BY <1>1, <1>2, <1>3

(* What Netcdf looks for among the first k calls q. *)
FirstIs(prog, k, q, p) ==
  /\ FirstDefs(q, p) = FirstBy(prog, k, p)
  /\ \A name : Positions(q, "put_att", p, name) = AttsBy(prog, k, p, name)
  /\ FirstBy(prog, k, p) \in SUBSET (1..k) /\ \A name : AttsBy(prog, k, p, name) \in SUBSET (1..k)

\* Definitions and attributes among the first calls.
LEMMA FirstDefsIs ==
  ASSUME NEW S, NEW prog \in Seq(S), NEW k \in 0..Len(prog), NEW q, q = SubSeq(prog, 1, k), NEW p
  PROVE  FirstIs(prog, k, q, p)
<1>1. DOMAIN q = 1..k /\ k \in Nat /\ \A i \in 1..k : q[i] = prog[i]
  BY PrefixIs
<1>2. ASSUME NEW i \in 1..k
      PROVE  i \in FirstDefs(q, p) <=> i \in FirstBy(prog, k, p)
  <2>1. PICK op, name : op = prog[i].op /\ name = prog[i].name
    OBVIOUS
  <2>2. i \in FirstDefs(q, p) <=>
          /\ op \in {"def_dim", "def_var"} /\ prog[i].path = p
          /\ \A j \in Positions(q, op, p, name) : i <= j
    BY <1>1, <2>1 DEF FirstDefs
  <2>3. i \in FirstBy(prog, k, p) <=>
          /\ op \in {"def_dim", "def_var"} /\ prog[i].path = p
          /\ \A j \in 1..(i - 1) : ~(prog[j].op = op /\ prog[j].path = p /\ prog[j].name = name)
    BY <2>1 DEF FirstBy
  <2>4. Positions(q, op, p, name) = {j \in 1..k : prog[j].op = op /\ prog[j].path = p /\ prog[j].name = name}
    BY <1>1 DEF Positions
  <2>5. (\A j \in Positions(q, op, p, name) : i <= j) <=>
          \A j \in 1..(i - 1) : ~(prog[j].op = op /\ prog[j].path = p /\ prog[j].name = name)
    <3>1. \A j \in 1..k : j \in 1..(i - 1) <=> ~(i <= j)
      OBVIOUS
    <3>2. \A j \in 1..(i - 1) : j \in 1..k
      OBVIOUS
    <3>3. QED
      BY <2>4, <3>1, <3>2
  <2>6. QED
    BY <2>2, <2>3, <2>5
<1>3. FirstDefs(q, p) \subseteq 1..k /\ FirstBy(prog, k, p) \subseteq 1..k
  BY <1>1 DEF FirstDefs, FirstBy
<1>4. ASSUME NEW name PROVE /\ Positions(q, "put_att", p, name) = AttsBy(prog, k, p, name)
                            /\ AttsBy(prog, k, p, name) \in SUBSET (1..k)
  BY <1>1 DEF Positions, AttsBy
<1>5. QED
  BY <1>2, <1>3, <1>4 DEF FirstIs

\* The header that the first calls give a file.
LEMMA HeaderIs ==
  ASSUME NEW S, NEW prog \in Seq(S), NEW k \in 0..Len(prog), NEW q, q = SubSeq(prog, 1, k), NEW p
  PROVE  Header(q, p) = FlattenSeq(Blocks(prog, k, p))
<1>1. PICK F, fd : F = FirstBy(prog, k, p) /\ fd = InOrder(F)
  OBVIOUS
<1>2. F = FirstDefs(q, p) /\ F \in SUBSET (1..k) /\ k \in Nat
  <2>1. FirstIs(prog, k, q, p)
    BY FirstDefsIs
  <2>2. QED
    BY <1>1, <2>1 DEF FirstIs
<1>3. DOMAIN q = 1..k /\ \A i \in 1..k : q[i] = prog[i]
  BY PrefixIs
<1>4. \A x \in DOMAIN fd : fd[x] \in F
  <2>1. DOMAIN fd = 1..Len(fd) /\ \A n \in 1..Len(fd) : fd[n] \in F
    BY <1>1, <1>2, InOrderIs
  <2>2. QED
    BY <2>1
<1>5. ASSUME NEW i \in F
      PROVE  <<Entry(q[i].op, p, q[i].name, q[i].dims, {})>> \o Attributes(q, q[i]) = Block(prog, k, i)
  <2>1. PICK c : c = prog[i]
    OBVIOUS
  <2>2. q[i] = c /\ c.path = p
    BY <1>1, <1>2, <1>3, <2>1 DEF FirstBy
  <2>3. Positions(q, "put_att", c.path, c.name) = AttsBy(prog, k, c.path, c.name)
    <3>1. FirstIs(prog, k, q, c.path)
      BY FirstDefsIs
    <3>2. QED
      BY <3>1 DEF FirstIs
  <2>4. PICK at : at = AttsOf(prog, k, i)
    OBVIOUS
  <2>5. at = InOrder(IF c.op = "def_var" THEN Positions(q, "put_att", c.path, c.name) ELSE {})
    BY <2>1, <2>3, <2>4 DEF AttsOf
  <2>6. Attributes(q, c) = [x \in DOMAIN at |-> Entry("put_att", c.path, c.name, << >>, {at[x]})]
    BY <2>5 DEF Attributes
  <2>7. Attributes(q, c) = AttEntries(prog, k, i)
    BY <2>1, <2>4, <2>6 DEF AttEntries
  <2>8. QED
    BY <2>1, <2>2, <2>7 DEF Block
<1>6. Header(q, p) = FlattenSeq([x \in DOMAIN fd |->
          <<Entry(q[fd[x]].op, p, q[fd[x]].name, q[fd[x]].dims, {})>> \o Attributes(q, q[fd[x]])])
  BY <1>1, <1>2 DEF Header
<1>7. [x \in DOMAIN fd |->
          <<Entry(q[fd[x]].op, p, q[fd[x]].name, q[fd[x]].dims, {})>> \o Attributes(q, q[fd[x]])]
        = Blocks(prog, k, p)
  <2>1. Blocks(prog, k, p) = [x \in DOMAIN fd |-> Block(prog, k, fd[x])]
    BY <1>1 DEF Blocks
  <2>2. QED
    BY <1>4, <1>5, <2>1
<1>8. QED
  BY <1>6, <1>7

\* A header is made of entries of the program.
LEMMA BlocksTyped ==
  ASSUME NEW S, NEW prog \in Seq(S), NEW k \in 0..Len(prog), NEW p
  PROVE  /\ Blocks(prog, k, p) \in Seq(Seq(Entries(prog)))
         /\ FlattenSeq(Blocks(prog, k, p)) \in Seq(Entries(prog))
<1>1. PICK F, fd, V : F = FirstBy(prog, k, p) /\ fd = InOrder(F) /\ V = Entries(prog)
  OBVIOUS
<1>2. k \in Nat /\ DOMAIN prog = 1..Len(prog) /\ Len(prog) \in Nat /\ \A i \in 1..k : i \in DOMAIN prog
  BY PrefixIs
<1>3. FirstIs(prog, k, SubSeq(prog, 1, k), p)
  BY FirstDefsIs
<1>4. F \in SUBSET (1..k)
  BY <1>1, <1>3 DEF FirstIs
<1>5. DOMAIN fd = 1..Len(fd) /\ Len(fd) \in Nat /\ \A x \in 1..Len(fd) : fd[x] \in F
  BY <1>1, <1>2, <1>4, InOrderIs
<1>6. ASSUME NEW i \in F PROVE Block(prog, k, i) \in Seq(V)
  <2>1. i \in 1..k /\ i \in DOMAIN prog
    BY <1>2, <1>4
  <2>2. PICK A : A = IF prog[i].op = "def_var" THEN AttsBy(prog, k, prog[i].path, prog[i].name) ELSE {}
    OBVIOUS
  <2>3. A \in SUBSET (1..k) /\ \A a \in A : a \in DOMAIN prog /\ prog[a].op = "put_att"
    BY <1>2, <2>2 DEF AttsBy
  <2>4. PICK q : q = InOrder(A) /\ AttsOf(prog, k, i) = q
    BY <2>2 DEF AttsOf
  <2>5. DOMAIN q = 1..Len(q) /\ Len(q) \in Nat /\ \A x \in 1..Len(q) : q[x] \in A
    BY <1>2, <2>3, <2>4, InOrderIs
  <2>6. PICK E : E = AttEntries(prog, k, i)
    OBVIOUS
  <2>7. E = [x \in 1..Len(q) |-> Entry("put_att", prog[i].path, prog[i].name, << >>, {q[x]})]
    BY <2>4, <2>5, <2>6 DEF AttEntries
  <2>8. ASSUME NEW a \in A PROVE Entry("put_att", prog[i].path, prog[i].name, << >>, {a}) \in V
    <3>1. a \in DOMAIN prog /\ prog[a].op = "put_att"
      BY <2>3
    <3>2. PICK O, P, N, D, F1 :
            /\ O = {prog[j].op : j \in DOMAIN prog} /\ P = {prog[j].path : j \in DOMAIN prog}
            /\ N = {prog[j].name : j \in DOMAIN prog}
            /\ D = {<< >>} \cup {prog[j].dims : j \in DOMAIN prog} /\ F1 = SUBSET (DOMAIN prog)
      OBVIOUS
    <3>3. prog[a].op \in O /\ prog[i].path \in P /\ prog[i].name \in N
      BY <2>1, <3>1, <3>2
    <3>4. "put_att" \in O /\ << >> \in D /\ {a} \in F1
      BY <3>1, <3>2, <3>3
    <3>5. V = [op : O, path : P, name : N, dims : D, from : F1]
      BY <1>1, <3>2 DEF Entries
    <3>6. QED
      BY <3>3, <3>4, <3>5 DEF Entry
  <2>9. E \in Seq(V)
    BY <2>5, <2>7, <2>8
  <2>10. PICK e : e = Entry(prog[i].op, prog[i].path, prog[i].name, prog[i].dims, {}) /\ e \in V
    <3>2. PICK O, P, N, D, F1 :
            /\ O = {prog[j].op : j \in DOMAIN prog} /\ P = {prog[j].path : j \in DOMAIN prog}
            /\ N = {prog[j].name : j \in DOMAIN prog}
            /\ D = {<< >>} \cup {prog[j].dims : j \in DOMAIN prog} /\ F1 = SUBSET (DOMAIN prog)
      OBVIOUS
    <3>3. prog[i].op \in O /\ prog[i].path \in P /\ prog[i].name \in N /\ prog[i].dims \in D
          /\ {} \in F1
      BY <2>1, <3>2
    <3>4. PICK e : e = Entry(prog[i].op, prog[i].path, prog[i].name, prog[i].dims, {})
      OBVIOUS
    <3>5. V = [op : O, path : P, name : N, dims : D, from : F1]
      BY <1>1, <3>2 DEF Entries
    <3>6. e \in V
      BY <3>3, <3>4, <3>5 DEF Entry
    <3>7. QED
      BY <3>4, <3>6
  <2>11. <<e>> \in Seq(V) /\ <<e>> \o E \in Seq(V)
    BY <2>9, <2>10
  <2>12. QED
    BY <2>6, <2>10, <2>11 DEF Block
<1>7. PICK W : W = Seq(V)
  OBVIOUS
<1>8. Blocks(prog, k, p) \in Seq(W)
  <2>1. Blocks(prog, k, p) = [x \in 1..Len(fd) |-> Block(prog, k, fd[x])]
    BY <1>1, <1>5 DEF Blocks
  <2>2. \A x \in 1..Len(fd) : Block(prog, k, fd[x]) \in W
    BY <1>5, <1>6, <1>7
  <2>3. QED
    BY <1>5, <2>1, <2>2
<1>9. << >> \in Seq(V)
  OBVIOUS
<1>10. FlattenSeq(Blocks(prog, k, p)) \in Seq(V)
  BY <1>7, <1>8, <1>9, FlattenNext
<1>11. QED
  BY <1>1, <1>7, <1>8, <1>10

\* Whether definitions are ended.
LEMMA DefiningIs ==
  ASSUME NEW S, NEW prog \in Seq(S), NEW k \in 0..Len(prog), NEW p
  PROVE  Defining(SubSeq(prog, 1, k), p) <=> ~EndedBy(prog, k, p)
<1>1. PICK q : q = SubSeq(prog, 1, k)
  OBVIOUS
<1>2. DOMAIN q = 1..k /\ \A i \in 1..k : q[i] = prog[i]
  BY <1>1, PrefixIs
<1>3. Did(q, "enddef", p) <=> EndedBy(prog, k, p)
  BY <1>2 DEF Did, EndedBy
<1>4. QED
  BY <1>1, <1>3 DEF Defining

(* The variable of the k-th call was defined before. *)
DefinedBefore(prog, k) ==
  \E i \in 1..(k - 1) : /\ prog[i].op = "def_var" /\ prog[i].path = prog[k].path
                        /\ prog[i].name = prog[k].name

(* What an orderly call does to its file. *)
Done1(prog, k, from) == <<Entry(prog[k].op, prog[k].path, prog[k].name, << >>, from)>>

Does(prog, k) ==
  LET call == prog[k]
      ended == EndedBy(prog, k - 1, call.path)
  IN  CASE call.op \in {"create", "close"} -> Done1(prog, k, {})
        [] call.op = "put_att" -> IF call.name = Global THEN Done1(prog, k, {k}) ELSE << >>
        [] call.op = "enddef" -> IF ended THEN << >>
             ELSE FlattenSeq(Blocks(prog, k - 1, call.path)) \o Done1(prog, k, {})
        [] call.op = "put_vara" -> Done1(prog, k, {k})
        [] OTHER -> << >>

\* That is its effect.
LEMMA EffectIs ==
  ASSUME NEW S, NEW prog \in Seq(S), Orderly(prog), NEW k \in 1..Len(prog), prog[k].op \in Ops,
         prog[k].op = "put_vara" => DefinedBefore(prog, k)
  PROVE  Effect(prog, k) = Does(prog, k)
<1>1. PICK call, before, p : call = prog[k] /\ before = SubSeq(prog, 1, k - 1) /\ p = call.path
  OBVIOUS
<1>2. k \in DOMAIN prog /\ k - 1 \in 0..Len(prog) /\ k - 1 \in Nat
  OBVIOUS
<1>3. Defining(before, p) <=> ~EndedBy(prog, k - 1, p)
  BY <1>1, <1>2, DefiningIs
<1>4. /\ call.op \in {"create", "def_dim", "def_var", "put_att"} => ~EndedBy(prog, k - 1, p)
      /\ call.op = "put_vara" => EndedBy(prog, k - 1, p)
  BY <1>1, <1>2 DEF Orderly
<1>5. PICK inHeader : inHeader = \E i \in Positions(before, "def_var", p, call.name) :
                                   Defining(SubSeq(before, 1, i), p)
  OBVIOUS
<1>6. ASSUME call.op = "put_vara" PROVE inHeader
  <2>1. PICK i \in 1..(k - 1) : prog[i].op = "def_var" /\ prog[i].path = p /\ prog[i].name = call.name
    BY <1>1, <1>6 DEF DefinedBefore
  <2>2. DOMAIN before = 1..(k - 1) /\ before[i] = prog[i] /\ SubSeq(before, 1, i) = SubSeq(prog, 1, i)
    <3>1. i \in 0..(k - 1)
      BY <1>2, <2>1
    <3>2. QED
      BY <1>1, <1>2, <2>1, <3>1, PrefixIs
  <2>3. i \in Positions(before, "def_var", p, call.name)
    BY <2>1, <2>2 DEF Positions
  <2>4. i \in DOMAIN prog /\ i \in 0..Len(prog) /\ i \in Nat \ {0}
    BY <1>2, <2>1
  <2>5. ~EndedBy(prog, i - 1, p)
    BY <2>1, <2>4 DEF Orderly
  <2>6. ~EndedBy(prog, i, p)
    BY <2>1, <2>4, <2>5, EndedNext
  <2>7. Defining(SubSeq(prog, 1, i), p)
    BY <2>4, <2>6, DefiningIs
  <2>8. QED
    BY <1>5, <2>2, <2>3, <2>7
<1>7. Header(before, p) = FlattenSeq(Blocks(prog, k - 1, p))
  BY <1>1, <1>2, HeaderIs
<1>8. Effect(prog, k) =
        CASE call.op \in {"create", "close"} -> Done1(prog, k, {})
          [] call.op = "put_att" /\ call.name = Global /\ Defining(before, p) -> Done1(prog, k, {k})
          [] call.op = "enddef" /\ Defining(before, p) -> Header(before, p) \o Done1(prog, k, {})
          [] call.op = "put_vara" /\ ~Defining(before, p) /\ inHeader -> Done1(prog, k, {k})
          [] OTHER -> << >>
  BY <1>1, <1>5 DEF Effect, Done1
<1>9. CASE call.op \in {"create", "close"}
  BY <1>1, <1>8, <1>9 DEF Does
<1>10. CASE call.op = "put_att"
  BY <1>1, <1>3, <1>4, <1>8, <1>10 DEF Does
<1>11. CASE call.op = "enddef"
  <2>1. CASE EndedBy(prog, k - 1, p)
    BY <1>1, <1>3, <1>8, <1>11, <2>1 DEF Does
  <2>2. CASE ~EndedBy(prog, k - 1, p)
    BY <1>1, <1>3, <1>7, <1>8, <1>11, <2>2 DEF Does
  <2>3. QED
    BY <2>1, <2>2
<1>12. CASE call.op = "put_vara"
  BY <1>1, <1>3, <1>4, <1>6, <1>8, <1>12 DEF Does
<1>13. CASE call.op \in {"def_dim", "def_var"}
  BY <1>1, <1>8, <1>13 DEF Does
<1>14. QED
  BY <1>1, <1>9, <1>10, <1>11, <1>12, <1>13 DEF Ops

(***************************************************************************)
(* Beginnings.  What is promised for more calls begins with what is promised*)
(* for fewer.                                                               *)
(***************************************************************************)

(* The sequence b begins with a. *)
Starts(V, a, b) == a \in Seq(V) /\ \E c \in Seq(V) : b = a \o c

\* Beginnings.
LEMMA StartsIs ==
  ASSUME NEW V, NEW a, NEW b, Starts(V, a, b)
  PROVE  /\ a \in Seq(V) /\ b \in Seq(V) /\ Len(a) \in Nat /\ Len(b) \in Nat /\ Len(a) <= Len(b)
         /\ a = SubSeq(b, 1, Len(a)) /\ IsPrefix(a, b)
         /\ \A d \in Seq(V) : Starts(V, a, b \o d)
<1>1. PICK c \in Seq(V) : b = a \o c
  BY DEF Starts
<1>2. a \in Seq(V)
  BY DEF Starts
<1>3. Len(a) \in Nat /\ Len(c) \in Nat /\ b \in Seq(V) /\ Len(b) = Len(a) + Len(c)
  BY <1>1, <1>2
<1>4. a = SubSeq(b, 1, Len(a))
  <2>1. SubSeq(b, 1, Len(a)) = [i \in 1..Len(a) |-> b[i]]
    BY <1>3
  <2>2. \A i \in 1..Len(a) : b[i] = a[i]
    BY <1>1, <1>2, <1>3
  <2>3. a = [i \in 1..Len(a) |-> a[i]]
    BY <1>2
  <2>4. QED
    BY <2>1, <2>2, <2>3
<1>5. a = SubSeq(a, 1, Len(a))
  BY <1>2
<1>6. IsPrefix(a, b)
  BY <1>3, <1>4, <1>5 DEF IsPrefix
<1>7. ASSUME NEW d \in Seq(V) PROVE Starts(V, a, b \o d)
  <2>1. PICK e : e = c \o d /\ e \in Seq(V)
    <3>1. c \o d \in Seq(V)
      OBVIOUS
    <3>2. QED
      BY <3>1
  <2>2. b \o d = a \o e
    BY <1>1, <1>2, <2>1
  <2>3. QED
    BY <1>2, <2>1, <2>2 DEF Starts
<1>8. QED
  BY <1>2, <1>3, <1>4, <1>6, <1>7

(* A program that keeps to the modes of its files; what its calls carry.     *)
Proper(prog) ==
  /\ \E S : prog \in Seq(S)
  /\ Orderly(prog)
  /\ \A k \in DOMAIN prog :
       /\ prog[k].op \in Ops
       /\ prog[k].op = "put_vara" => DefinedBefore(prog, k)
       /\ prog[k].op = "put_att" => prog[k].name = Global \/ DefinedBefore(prog, k)
       /\ prog[k].op \in {"create", "enddef", "close"} => prog[k].name = ""
       /\ prog[k].op = "def_dim" => prog[k].dims = << >>
       /\ prog[k].op = "def_var" => prog[k].name # Global /\ \E D : prog[k].dims \in Seq(D)
       /\ prog[k].op = "create" => \A j \in 1..(k - 1) : prog[j].path # prog[k].path

(* What the first k calls do. *)
Owed(prog, k) == Promised(SubSeq(prog, 1, k))

\* What a call does is made of entries.
LEMMA DoesTyped ==
  ASSUME NEW prog, Proper(prog), NEW k \in 1..Len(prog)
  PROVE  /\ Does(prog, k) \in Seq(Entries(prog)) /\ Effect(prog, k) = Does(prog, k)
         /\ \A from \in SUBSET (DOMAIN prog) : Done1(prog, k, from) \in Seq(Entries(prog))
         /\ \A p : FlattenSeq(Blocks(prog, k - 1, p)) \in Seq(Entries(prog))
<1>1. PICK S : prog \in Seq(S)
  BY DEF Proper
<1>2. k \in DOMAIN prog /\ k - 1 \in 0..Len(prog)
  BY <1>1
<1>3. Effect(prog, k) = Does(prog, k)
  BY <1>1, <1>2, EffectIs DEF Proper
<1>4. PICK V : V = Entries(prog)
  OBVIOUS
<1>5. ASSUME NEW from \in SUBSET (DOMAIN prog) PROVE Done1(prog, k, from) \in Seq(V)
  <2>1. PICK O, P, N, D, F1 :
            /\ O = {prog[j].op : j \in DOMAIN prog} /\ P = {prog[j].path : j \in DOMAIN prog}
            /\ N = {prog[j].name : j \in DOMAIN prog}
            /\ D = {<< >>} \cup {prog[j].dims : j \in DOMAIN prog} /\ F1 = SUBSET (DOMAIN prog)
    OBVIOUS
  <2>2. prog[k].op \in O /\ prog[k].path \in P /\ prog[k].name \in N /\ << >> \in D /\ from \in F1
    BY <1>2, <2>1
  <2>3. PICK e : e = Entry(prog[k].op, prog[k].path, prog[k].name, << >>, from)
    OBVIOUS
  <2>4. V = [op : O, path : P, name : N, dims : D, from : F1]
    BY <1>4, <2>1 DEF Entries
  <2>5. e \in V
    BY <2>2, <2>3, <2>4 DEF Entry
  <2>6. <<e>> \in Seq(V)
    BY <2>5
  <2>7. QED
    BY <2>3, <2>6 DEF Done1
<1>6. ASSUME NEW p PROVE FlattenSeq(Blocks(prog, k - 1, p)) \in Seq(V)
  BY <1>1, <1>2, <1>4, BlocksTyped
<1>7. Does(prog, k) \in Seq(V)
  <2>1. PICK call, a, b, H : /\ call = prog[k] /\ a = Done1(prog, k, {}) /\ b = Done1(prog, k, {k})
                             /\ H = FlattenSeq(Blocks(prog, k - 1, call.path))
    OBVIOUS
  <2>2. a \in Seq(V) /\ b \in Seq(V) /\ H \in Seq(V) /\ H \o a \in Seq(V) /\ << >> \in Seq(V)
    <3>1. a \in Seq(V) /\ b \in Seq(V)
      <4>1. {} \in SUBSET (DOMAIN prog) /\ {k} \in SUBSET (DOMAIN prog)
        BY <1>2
      <4>2. QED
        BY <1>5, <2>1, <4>1
    <3>2. H \in Seq(V)
      BY <1>6, <2>1
    <3>3. QED
      BY <3>1, <3>2
  <2>3. Does(prog, k) \in {a, b, << >>, H \o a}
    BY <2>1 DEF Does
  <2>4. QED
    BY <2>2, <2>3
<1>8. QED
  BY <1>3, <1>4, <1>5, <1>6, <1>7

\* Call by call.
LEMMA OwedNext ==
  ASSUME NEW prog, Proper(prog), NEW k \in 1..Len(prog)
  PROVE  /\ Owed(prog, k - 1) \in Seq(Entries(prog)) /\ Owed(prog, k) \in Seq(Entries(prog))
         /\ Owed(prog, k) = Owed(prog, k - 1) \o Does(prog, k)
<1>1. PICK S : prog \in Seq(S)
  BY DEF Proper
<1>2. PICK V : V = Entries(prog)
  OBVIOUS
<1>3. PICK E : E = [i \in 1..Len(prog) |-> Does(prog, i)]
  OBVIOUS
<1>4. PICK W : W = Seq(V)
  OBVIOUS
<1>5. \A i \in 1..Len(prog) : E[i] \in W
  BY <1>2, <1>3, <1>4, DoesTyped
<1>6. ASSUME NEW j \in 0..Len(prog)
      PROVE  \E e \in Seq(Seq(V)) : /\ e = [i \in 1..j |-> E[i]] /\ Owed(prog, j) = FlattenSeq(e)
  <2>1. PICK q : q = SubSeq(prog, 1, j)
    OBVIOUS
  <2>2. DOMAIN q = 1..j /\ j \in Nat /\ \A i \in 1..j : q[i] = prog[i] /\ i \in DOMAIN prog
    BY <1>1, <2>1, PrefixIs
  <2>3. ASSUME NEW i \in 1..j PROVE Effect(q, i) = E[i]
    <3>1. i - 1 \in 0..j /\ i \in 1..Len(prog)
      BY <1>1
    <3>2. SubSeq(q, 1, i - 1) = SubSeq(prog, 1, i - 1) /\ q[i] = prog[i]
      BY <1>1, <2>1, <3>1, PrefixIs
    <3>3. Effect(q, i) = Effect(prog, i)
      BY <3>2 DEF Effect
    <3>4. QED
      BY <1>3, <3>1, <3>3, DoesTyped
  <2>4. PICK e : e = [i \in 1..j |-> E[i]]
    OBVIOUS
  <2>5. [i \in DOMAIN q |-> Effect(q, i)] = e
    BY <2>2, <2>3, <2>4
  <2>6. e \in Seq(W)
    <3>1. \A i \in 1..j : E[i] \in W
      BY <1>5
    <3>2. QED
      BY <2>2, <2>4, <3>1
  <2>7. Owed(prog, j) = FlattenSeq(e)
    BY <2>1, <2>5 DEF Owed, Promised
  <2>8. QED
    BY <1>4, <2>4, <2>6, <2>7
<1>7. k - 1 \in 0..Len(prog) /\ k \in 0..Len(prog) /\ k \in Nat /\ Len(prog) \in Nat
  BY <1>1
<1>8. PICK e \in Seq(Seq(V)) : e = [i \in 1..(k - 1) |-> E[i]] /\ Owed(prog, k - 1) = FlattenSeq(e)
  BY <1>6, <1>7
<1>9. PICK f \in Seq(Seq(V)) : f = [i \in 1..k |-> E[i]] /\ Owed(prog, k) = FlattenSeq(f)
  BY <1>6, <1>7
<1>10. f = Append(e, E[k])
  <2>1. e \in Seq(W) /\ E[k] \in W /\ Len(e) = k - 1
    BY <1>4, <1>5, <1>7, <1>8
  <2>2. Append(e, E[k]) = [i \in 1..k |-> IF i = k THEN E[k] ELSE e[i]]
    <3>1. Append(e, E[k]) = [i \in 1..(Len(e) + 1) |-> IF i <= Len(e) THEN e[i] ELSE E[k]]
      BY <2>1
    <3>2. \A i \in 1..k : i <= k - 1 <=> i # k
      BY <1>7
    <3>3. Len(e) + 1 = k
      BY <1>7, <2>1
    <3>4. QED
      BY <2>1, <3>1, <3>2, <3>3
  <2>3. \A i \in 1..k : i # k => e[i] = E[i]
    BY <1>7, <1>8
  <2>4. QED
    BY <1>9, <2>2, <2>3
<1>11. E[k] \in Seq(V) /\ E[k] = Does(prog, k)
  BY <1>3, <1>4, <1>5
<1>12. PICK r : r = E[k]
  OBVIOUS
<1>13. /\ FlattenSeq(e) \in Seq(V) /\ FlattenSeq(Append(e, r)) = FlattenSeq(e) \o r
  BY <1>8, <1>11, <1>12, FlattenNext
<1>14. FlattenSeq(e) \o r \in Seq(V)
  BY <1>11, <1>12, <1>13
<1>15. QED
  BY <1>2, <1>8, <1>9, <1>10, <1>11, <1>12, <1>13, <1>14

\* At the start nothing is owed, and all that is owed is promised.
LEMMA OwedEnds ==
  ASSUME NEW S, NEW prog \in Seq(S)
  PROVE  Owed(prog, 0) = << >> /\ Owed(prog, Len(prog)) = Promised(prog)
<1>1. SubSeq(prog, 1, Len(prog)) = prog /\ SubSeq(prog, 1, 0) = << >>
  OBVIOUS
<1>2. Promised(<< >>) = << >>
  <2>1. DOMAIN << >> = {} /\ [k \in {} |-> Effect(<< >>, k)] = << >>
    OBVIOUS
  <2>2. PICK e : e = [k \in DOMAIN << >> |-> Effect(<< >>, k)]
    OBVIOUS
  <2>3. e = << >>
    BY <2>1, <2>2
  <2>4. Promised(<< >>) = FlattenSeq(e)
    BY <2>2 DEF Promised
  <2>5. QED
    BY <2>3, <2>4 DEF FlattenSeq
<1>3. QED
  BY <1>1, <1>2 DEF Owed

\* What the first calls do comes first.
LEMMA OwedGrows ==
  ASSUME NEW prog, Proper(prog), NEW j \in 0..Len(prog), NEW k \in j..Len(prog)
  PROVE  Starts(Entries(prog), Owed(prog, j), Owed(prog, k))
<1>1. PICK V, N : V = Entries(prog) /\ N = Len(prog)
  OBVIOUS
<1>2. N \in Nat /\ j \in Nat /\ j <= N /\ k \in Nat
  <2>1. PICK S : prog \in Seq(S)
    BY DEF Proper
  <2>2. QED
    BY <1>1, <2>1
<1>3. Owed(prog, j) \in Seq(V)
  <2>1. CASE j = 0
    <3>1. Owed(prog, 0) = << >>
      BY OwedEnds DEF Proper
    <3>2. << >> \in Seq(V)
      OBVIOUS
    <3>3. QED
      BY <2>1, <3>1, <3>2
  <2>2. CASE j # 0
    <3>1. j \in 1..Len(prog)
      BY <1>1, <1>2, <2>2
    <3>2. QED
      BY <1>1, <3>1, OwedNext
  <2>3. QED
    BY <2>1, <2>2
<1>4. PICK T : T = {n \in 0..(N - j) : Starts(V, Owed(prog, j), Owed(prog, j + n))}
  OBVIOUS
<1>5. 0 \in T
  <2>1. << >> \in Seq(V) /\ Owed(prog, j) = Owed(prog, j) \o << >> /\ j + 0 = j /\ 0 \in 0..(N - j)
    BY <1>2, <1>3
  <2>2. Starts(V, Owed(prog, j), Owed(prog, j))
    BY <1>3, <2>1 DEF Starts
  <2>3. QED
    BY <1>4, <2>1, <2>2
<1>6. ASSUME NEW n \in 0..(N - j - 1), n \in T PROVE n + 1 \in T
  <2>1. PICK i : i = j + n + 1 /\ i \in 1..Len(prog) /\ i - 1 = j + n /\ i = j + (n + 1)
    BY <1>1, <1>2
  <2>2. Starts(V, Owed(prog, j), Owed(prog, i - 1))
    BY <1>4, <1>6, <2>1
  <2>3. Does(prog, i) \in Seq(V) /\ Owed(prog, i) = Owed(prog, i - 1) \o Does(prog, i)
    BY <1>1, <2>1, OwedNext, DoesTyped
  <2>4. Starts(V, Owed(prog, j), Owed(prog, i))
    BY <2>2, <2>3, StartsIs
  <2>5. n + 1 \in 0..(N - j)
    BY <1>2
  <2>6. QED
    BY <1>4, <2>1, <2>4, <2>5
<1>7. \A n \in 0..(N - j) : n \in T
  <2>1. N - j \in Nat
    BY <1>2
  <2>2. QED
    BY <1>5, <1>6, <2>1, UpTo
<1>8. k - j \in 0..(N - j) /\ j + (k - j) = k
  BY <1>1, <1>2
<1>9. QED
  BY <1>1, <1>4, <1>7, <1>8

\* The first calls of a longer program do what they did.
LEMMA OwedSame ==
  ASSUME NEW h, NEW prog, NEW g, NEW more, Longer(h, prog, g, more), NEW S, prog \in Seq(S), more \in Seq(S),
         NEW k \in 0..Len(prog)
  PROVE  /\ SubSeq(more, 1, k) = SubSeq(prog, 1, k) /\ Owed(more, k) = Owed(prog, k)
         /\ \A j \in 1..(k + 1) : j <= Len(prog) /\ Proper(prog) /\ Proper(more) => Does(more, j) = Does(prog, j)
<1>1. Len(prog) \in Nat /\ Len(more) \in Nat /\ Len(prog) <= Len(more) /\ k \in Nat /\ k <= Len(prog)
      /\ \A i \in 1..Len(prog) : more[i] = prog[i]
  BY DEF Longer
<1>2. ASSUME NEW j \in 0..Len(prog) PROVE SubSeq(more, 1, j) = SubSeq(prog, 1, j)
  <2>1. SubSeq(more, 1, j) = [i \in 1..j |-> more[i]] /\ SubSeq(prog, 1, j) = [i \in 1..j |-> prog[i]]
    BY <1>1
  <2>2. \A i \in 1..j : more[i] = prog[i]
    BY <1>1
  <2>3. QED
    BY <2>1, <2>2
<1>3. ASSUME NEW j \in 1..(k + 1), j <= Len(prog), Proper(prog), Proper(more)
      PROVE  Does(more, j) = Does(prog, j)
  <2>1. j \in 1..Len(prog) /\ j \in 1..Len(more) /\ j - 1 \in 0..Len(prog)
    BY <1>1, <1>3
  <2>2. Effect(more, j) = Effect(prog, j)
    <3>1. SubSeq(more, 1, j - 1) = SubSeq(prog, 1, j - 1) /\ more[j] = prog[j]
      BY <1>1, <1>2, <2>1
    <3>2. QED
      BY <3>1 DEF Effect
  <2>3. QED
    BY <1>3, <2>1, <2>2, DoesTyped
<1>4. QED
  BY <1>2, <1>3 DEF Owed

\* The least of some positions.
LEMMA FirstThere ==
  ASSUME NEW prog, NEW k \in Nat, NEW i \in 1..k, prog[i].op \in {"def_dim", "def_var"}
  PROVE  \E j \in FirstBy(prog, k, prog[i].path) : prog[j].op = prog[i].op /\ prog[j].name = prog[i].name
<1>1. PICK op, p, name : op = prog[i].op /\ p = prog[i].path /\ name = prog[i].name
  OBVIOUS
<1>2. PICK T : T = {j \in 1..k : prog[j].op = op /\ prog[j].path = p /\ prog[j].name = name}
  OBVIOUS
<1>3. T \subseteq Nat /\ T # {}
  BY <1>1, <1>2
<1>4. PICK j \in T : \A m \in T : ~(m < j)
  BY <1>3, LeastOf
<1>5. j \in 1..k /\ prog[j].op = op /\ prog[j].path = p /\ prog[j].name = name
  BY <1>2
<1>6. \A x \in 1..(j - 1) : ~(prog[x].op = op /\ prog[x].path = p /\ prog[x].name = name)
  <2>1. \A x \in 1..(j - 1) : x \in 1..k /\ x < j
    BY <1>5
  <2>2. QED
    BY <1>2, <1>4, <2>1
<1>7. j \in FirstBy(prog, k, p)
  BY <1>1, <1>5, <1>6 DEF FirstBy
<1>8. QED
  BY <1>1, <1>5, <1>7

(* What the k-th call adds to the definitions of p: it is the first of its    *)
(* name, or nothing.                                                       *)
FirstGrows(prog, k, p) ==
  /\ FirstBy(prog, k, p) \in SUBSET (1..k) /\ FirstBy(prog, k - 1, p) \in SUBSET (1..(k - 1))
  /\ k \in FirstBy(prog, k, p) =>
       InOrder(FirstBy(prog, k, p)) = Append(InOrder(FirstBy(prog, k - 1, p)), k)
  /\ k \notin FirstBy(prog, k, p) => FirstBy(prog, k, p) = FirstBy(prog, k - 1, p)
  /\ k \in FirstBy(prog, k, p) <=>
       /\ prog[k].op \in {"def_dim", "def_var"} /\ prog[k].path = p
       /\ \A j \in FirstBy(prog, k - 1, p) : ~(prog[j].op = prog[k].op /\ prog[j].name = prog[k].name)

\* Definitions, call by call.
LEMMA FirstNext ==
  ASSUME NEW prog, NEW k \in Nat \ {0}, NEW p
  PROVE  FirstGrows(prog, k, p)
<1>1. PICK F, G : F = FirstBy(prog, k - 1, p) /\ G = FirstBy(prog, k, p)
  OBVIOUS
<1>2. F \in SUBSET (1..(k - 1)) /\ G \in SUBSET (1..k) /\ k - 1 \in Nat /\ (k - 1) + 1 = k /\ k \in 1..k
  BY <1>1 DEF FirstBy
<1>3. \A i \in 1..(k - 1) : i \in 1..k /\ (i \in F <=> i \in G)
  BY <1>1 DEF FirstBy
<1>4. \A i \in 1..k : i # k => i \in 1..(k - 1)
  OBVIOUS
<1>5. k \notin G => G = F
  BY <1>2, <1>3, <1>4
<1>6. k \in G => G = F \cup {k}
  BY <1>2, <1>3, <1>4
<1>7. ASSUME k \in G PROVE InOrder(G) = Append(InOrder(F), k)
  <2>1. PICK N : N = k - 1 /\ N \in Nat /\ N + 1 = k
    BY <1>2
  <2>2. InOrder(F \cup {N + 1}) = Append(InOrder(F), N + 1)
    BY <1>2, <2>1, InOrderNext
  <2>3. QED
    BY <1>6, <1>7, <2>1, <2>2
<1>8. k \in G <=> /\ prog[k].op \in {"def_dim", "def_var"} /\ prog[k].path = p
                  /\ \A j \in F : ~(prog[j].op = prog[k].op /\ prog[j].name = prog[k].name)
  <2>1. k \in G <=> /\ prog[k].op \in {"def_dim", "def_var"} /\ prog[k].path = p
                    /\ \A j \in 1..(k - 1) : ~(prog[j].op = prog[k].op /\ prog[j].path = p
                                               /\ prog[j].name = prog[k].name)
    BY <1>1, <1>2 DEF FirstBy
  <2>2. ASSUME k \in G, NEW j \in F
        PROVE ~(prog[j].op = prog[k].op /\ prog[j].name = prog[k].name)
    <3>1. j \in 1..(k - 1) /\ prog[j].path = p
      BY <1>1, <1>2 DEF FirstBy
    <3>2. QED
      BY <2>1, <2>2, <3>1
  <2>3. ASSUME prog[k].op \in {"def_dim", "def_var"}, NEW j \in 1..(k - 1), prog[j].op = prog[k].op,
               prog[j].path = p, prog[j].name = prog[k].name
        PROVE  \E i \in F : prog[i].op = prog[k].op /\ prog[i].name = prog[k].name
    BY <1>1, <1>2, <2>3, FirstThere
  <2>4. QED
    BY <2>1, <2>2, <2>3
<1>9. QED
  BY <1>1, <1>2, <1>5, <1>7, <1>8 DEF FirstGrows

(* What the k-th call adds to the attributes of the definition i.            *)
AttsGrow(prog, k, i) ==
  IF prog[i].op = "def_var" /\ prog[k].op = "put_att" /\ prog[k].path = prog[i].path
       /\ prog[k].name = prog[i].name
    THEN AttsOf(prog, k, i) = Append(AttsOf(prog, k - 1, i), k)
    ELSE AttsOf(prog, k, i) = AttsOf(prog, k - 1, i)

\* Attributes, call by call.
LEMMA AttsNext ==
  ASSUME NEW prog, NEW k \in Nat \ {0}, NEW i
  PROVE  AttsGrow(prog, k, i)
<1>1. CASE prog[i].op # "def_var"
  BY <1>1 DEF AttsGrow, AttsOf
<1>2. CASE prog[i].op = "def_var"
  <2>1. PICK p, name : p = prog[i].path /\ name = prog[i].name
    OBVIOUS
  <2>2. PICK A, B : A = AttsBy(prog, k - 1, p, name) /\ B = AttsBy(prog, k, p, name)
    OBVIOUS
  <2>3. AttsOf(prog, k - 1, i) = InOrder(A) /\ AttsOf(prog, k, i) = InOrder(B)
    BY <1>2, <2>1, <2>2 DEF AttsOf
  <2>4. PICK N : N = k - 1 /\ N \in Nat /\ N + 1 = k
    OBVIOUS
  <2>5. A \in SUBSET (1..N)
    BY <2>2, <2>4 DEF AttsBy
  <2>6. \A j \in 1..k : j \in 1..(k - 1) \/ j = k
    OBVIOUS
  <2>7. k \in 1..k /\ \A j \in 1..(k - 1) : j \in 1..k
    OBVIOUS
  <2>8. CASE prog[k].op = "put_att" /\ prog[k].path = p /\ prog[k].name = name
    <3>1. B = A \cup {k}
      BY <2>2, <2>6, <2>7, <2>8 DEF AttsBy
    <3>2. InOrder(A \cup {N + 1}) = Append(InOrder(A), N + 1)
      BY <2>4, <2>5, InOrderNext
    <3>3. InOrder(B) = Append(InOrder(A), k)
      BY <2>4, <3>1, <3>2
    <3>4. QED
      BY <1>2, <2>1, <2>3, <2>8, <3>3 DEF AttsGrow
  <2>9. CASE ~(prog[k].op = "put_att" /\ prog[k].path = p /\ prog[k].name = name)
    <3>1. B = A
      BY <2>2, <2>6, <2>7, <2>9 DEF AttsBy
    <3>2. QED
      BY <1>2, <2>1, <2>3, <2>9, <3>1 DEF AttsGrow
  <2>10. QED
    BY <2>8, <2>9
<1>3. QED
  BY <1>1, <1>2

\* A variable has no attributes when it is defined for the first time.
LEMMA NoAtts ==
  ASSUME NEW prog, Proper(prog), NEW k \in 1..Len(prog), NEW p, k \in FirstBy(prog, k, p)
  PROVE  AttsOf(prog, k - 1, k) = << >>
<1>1. PICK S : prog \in Seq(S)
  BY DEF Proper
<1>2. k \in Nat \ {0} /\ DOMAIN prog = 1..Len(prog) /\ Len(prog) \in Nat
  BY <1>1
<1>3. CASE prog[k].op # "def_var"
  BY <1>3, InOrderNone DEF AttsOf
<1>4. CASE prog[k].op = "def_var"
  <2>1. PICK name : name = prog[k].name
    OBVIOUS
  <2>2. prog[k].path = p /\ name # Global
    <3>1. prog[k].path = p
      BY DEF FirstBy
    <3>2. QED
      BY <1>2, <1>4, <2>1, <3>1 DEF Proper
  <2>3. ASSUME NEW j \in AttsBy(prog, k - 1, p, name) PROVE FALSE
    <3>1. j \in 1..(k - 1) /\ prog[j].op = "put_att" /\ prog[j].path = p /\ prog[j].name = name
      BY DEF AttsBy
    <3>2. j \in DOMAIN prog
      BY <1>2, <3>1
    <3>3. DefinedBefore(prog, j)
      BY <2>2, <3>1, <3>2 DEF Proper
    <3>4. PICK i \in 1..(j - 1) : prog[i].op = "def_var" /\ prog[i].path = p /\ prog[i].name = name
      BY <3>1, <3>3 DEF DefinedBefore
    <3>5. i \in 1..(k - 1)
      BY <3>1
    <3>6. QED
      BY <1>4, <2>1, <3>4, <3>5 DEF FirstBy
  <2>4. AttsBy(prog, k - 1, p, name) = {}
    BY <2>3
  <2>5. AttsOf(prog, k - 1, k) = InOrder({})
    BY <1>4, <2>1, <2>2, <2>4 DEF AttsOf
  <2>6. QED
    BY <2>5, InOrderNone
<1>5. QED
  BY <1>3, <1>4

\* No name is defined twice.
LEMMA FirstOnly ==
  ASSUME NEW prog, NEW k \in Nat, NEW p, NEW fd, fd = InOrder(FirstBy(prog, k, p)),
         NEW x \in DOMAIN fd, NEW y \in DOMAIN fd, prog[fd[x]].op = prog[fd[y]].op,
         prog[fd[x]].name = prog[fd[y]].name
  PROVE  x = y
<1>1. PICK F : F = FirstBy(prog, k, p)
  OBVIOUS
<1>2. F \in SUBSET (1..k)
  BY <1>1 DEF FirstBy
<1>3. /\ DOMAIN fd = 1..Len(fd) /\ Len(fd) \in Nat /\ \A n \in 1..Len(fd) : fd[n] \in F
      /\ \A m, n \in 1..Len(fd) : m < n => fd[m] < fd[n]
  BY <1>1, <1>2, InOrderIs
<1>4. PICK i, j : i = fd[x] /\ j = fd[y]
  OBVIOUS
<1>5. i \in 1..k /\ j \in 1..k /\ i \in F /\ j \in F
  BY <1>2, <1>3, <1>4
<1>6. prog[i].path = p /\ prog[j].path = p /\ prog[i].op = prog[j].op /\ prog[i].name = prog[j].name
  BY <1>1, <1>4, <1>5 DEF FirstBy
<1>7. ~(i < j)
  <2>1. SUFFICES ASSUME i < j PROVE FALSE
    OBVIOUS
  <2>2. i \in 1..(j - 1)
    BY <1>5, <2>1
  <2>3. QED
    BY <1>1, <1>5, <1>6, <2>2 DEF FirstBy
<1>8. ~(j < i)
  <2>1. SUFFICES ASSUME j < i PROVE FALSE
    OBVIOUS
  <2>2. j \in 1..(i - 1)
    BY <1>5, <2>1
  <2>3. QED
    BY <1>1, <1>5, <1>6, <2>2 DEF FirstBy
<1>9. i = j
  BY <1>5, <1>7, <1>8
<1>10. x \in Int /\ y \in Int /\ ~(x < y) /\ ~(y < x)
  <2>1. x \in 1..Len(fd) /\ y \in 1..Len(fd) /\ x \in Int /\ y \in Int
    BY <1>3
  <2>2. i \in Int /\ j \in Int /\ ~(fd[x] < fd[y]) /\ ~(fd[y] < fd[x])
    BY <1>4, <1>5, <1>9
  <2>3. QED
    BY <1>3, <2>1, <2>2
<1>11. QED
  BY <1>10

(* Programs with the same first k calls have the same definitions among them. *)
SameFirst(prog, more, k) == \A i \in 1..k : more[i] = prog[i]

\* Among the first calls.
LEMMA FirstSame ==
  ASSUME NEW prog, NEW more, NEW k \in Nat, SameFirst(prog, more, k), NEW p
  PROVE  /\ FirstBy(more, k, p) = FirstBy(prog, k, p)
         /\ EndedBy(more, k, p) <=> EndedBy(prog, k, p)
         /\ \A i \in 1..k : \A j \in 0..k : AttsOf(more, j, i) = AttsOf(prog, j, i)
<1>1. \A i \in 1..k : more[i] = prog[i] /\ \A j \in 1..(i - 1) : j \in 1..k
  BY DEF SameFirst
<1>2. FirstBy(more, k, p) = FirstBy(prog, k, p)
  <2>1. \A i \in 1..k : i \in FirstBy(more, k, p) <=> i \in FirstBy(prog, k, p)
    BY <1>1 DEF FirstBy
  <2>2. FirstBy(more, k, p) \subseteq 1..k /\ FirstBy(prog, k, p) \subseteq 1..k
    BY DEF FirstBy
  <2>3. QED
    BY <2>1, <2>2
<1>3. EndedBy(more, k, p) <=> EndedBy(prog, k, p)
  BY <1>1 DEF EndedBy
<1>4. ASSUME NEW i \in 1..k, NEW j \in 0..k PROVE AttsOf(more, j, i) = AttsOf(prog, j, i)
  <2>1. more[i] = prog[i] /\ \A a \in 1..j : more[a] = prog[a]
    BY <1>1
  <2>2. AttsBy(more, j, prog[i].path, prog[i].name) = AttsBy(prog, j, prog[i].path, prog[i].name)
    BY <2>1 DEF AttsBy
  <2>3. QED
    BY <2>1, <2>2 DEF AttsOf
<1>5. QED
  BY <1>2, <1>3, <1>4

(***************************************************************************)
(* Definitions.  What a server keeps of the definitions of a file is what the*)
(* calls give, until the last of the definitions get their numbers.         *)
(***************************************************************************)

KindOf(op) == IF op = "def_dim" THEN "dim" ELSE "var"

(* The definitions of a file, in their order, are those of the calls fd.      *)
NamedBy(prog, fd, defs) ==
  /\ DOMAIN defs = DOMAIN fd
  /\ \A x \in DOMAIN fd : defs[x].kind = KindOf(prog[fd[x]].op) /\ defs[x].name = prog[fd[x]].name

(* Before they get their numbers, they have the ids of dimensions that were   *)
(* defined before, and the attributes that the first j calls give them.     *)
DimsBy(prog, fd, defs, x) ==
  /\ DOMAIN defs[x].dims = DOMAIN prog[fd[x]].dims
  /\ \A i \in DOMAIN defs[x].dims :
       \E y \in 1..(x - 1) : /\ Positioned(defs, "dim", defs[x].dims[i]) = {y}
                             /\ defs[y].name = prog[fd[x]].dims[i]

RawBy(prog, j, fd, defs) ==
  \A x \in DOMAIN fd : /\ defs[x].atts = AttsOf(prog, j, fd[x])
                       /\ defs[x].kind = "var" => DimsBy(prog, fd, defs, x)

(* The definitions of file p after k calls, when j are done with.            *)
Holds(prog, k, j, p, defs, raw) ==
  /\ NamedBy(prog, InOrder(FirstBy(prog, k, p)), defs)
  /\ raw => RawBy(prog, j, InOrder(FirstBy(prog, k, p)), defs)

\* The calls that define.
LEMMA Firsts ==
  ASSUME NEW prog, NEW k \in Nat, NEW p, NEW fd, fd = InOrder(FirstBy(prog, k, p))
  PROVE  /\ DOMAIN fd = 1..Len(fd) /\ Len(fd) \in Nat /\ \E S : fd \in Seq(S)
         /\ \A x \in DOMAIN fd : /\ fd[x] \in 1..k /\ prog[fd[x]].op \in {"def_dim", "def_var"}
                                 /\ prog[fd[x]].path = p /\ fd[x] \in FirstBy(prog, k, p)
         /\ \A i \in FirstBy(prog, k, p) : \E x \in DOMAIN fd : fd[x] = i
<1>1. PICK F : F = FirstBy(prog, k, p)
  OBVIOUS
<1>2. F \in SUBSET (1..k)
  BY <1>1 DEF FirstBy
<1>3. /\ DOMAIN fd = 1..Len(fd) /\ Len(fd) \in Nat /\ \A n \in 1..Len(fd) : fd[n] \in F
      /\ fd \in Seq(F) /\ \A i \in F : \E n \in 1..Len(fd) : fd[n] = i
  <2>1. fd = InOrder(F)
    BY <1>1
  <2>2. fd \in Seq(F) /\ Len(fd) \in Nat /\ DOMAIN fd = 1..Len(fd)
    BY <1>2, <2>1, InOrderIs
  <2>3. \A n \in 1..Len(fd) : fd[n] \in F
    BY <1>2, <2>1, InOrderIs
  <2>4. \A i \in F : \E n \in 1..Len(fd) : fd[n] = i
    BY <1>2, <2>1, InOrderIs
  <2>5. QED
    BY <2>2, <2>3, <2>4
<1>4. \A i \in F : i \in 1..k /\ prog[i].op \in {"def_dim", "def_var"} /\ prog[i].path = p
  BY <1>1 DEF FirstBy
<1>5. QED
  BY <1>1, <1>3, <1>4

\* A call that defines nothing new.
LEMMA HoldsStill ==
  ASSUME NEW prog, NEW k \in Nat \ {0}, NEW j, NEW p, NEW defs, NEW raw, k \notin FirstBy(prog, k, p)
  PROVE  Holds(prog, k, j, p, defs, raw) <=> Holds(prog, k - 1, j, p, defs, raw)
<1>1. FirstBy(prog, k, p) = FirstBy(prog, k - 1, p)
  <2>1. FirstGrows(prog, k, p)
    BY FirstNext
  <2>2. QED
    BY <2>1 DEF FirstGrows
<1>2. QED
  BY <1>1 DEF Holds

\* A call that puts no attribute to a variable of the file.
LEMMA HoldsDone ==
  ASSUME NEW prog, Proper(prog), NEW k \in 1..Len(prog), NEW p, NEW defs, NEW raw,
         Holds(prog, k, k - 1, p, defs, raw),
         prog[k].op # "put_att" \/ prog[k].path # p \/ prog[k].name = Global
  PROVE  Holds(prog, k, k, p, defs, raw)
<1>1. PICK fd : fd = InOrder(FirstBy(prog, k, p))
  OBVIOUS
<1>2. PICK S : prog \in Seq(S)
  BY DEF Proper
<1>3. k \in Nat \ {0} /\ DOMAIN prog = 1..Len(prog) /\ Len(prog) \in Nat
  BY <1>2
<1>4. ASSUME NEW x \in DOMAIN fd PROVE AttsOf(prog, k, fd[x]) = AttsOf(prog, k - 1, fd[x])
  <2>1. PICK i : i = fd[x] /\ i \in 1..k /\ prog[i].path = p
    <3>1. k \in Nat
      BY <1>3
    <3>2. fd[x] \in 1..k /\ prog[fd[x]].path = p
      BY <1>1, <1>4, <3>1, Firsts
    <3>3. QED
      BY <3>2
  <2>2. prog[i].op = "def_var" => prog[i].name # Global
    <3>1. i \in DOMAIN prog
      BY <1>3, <2>1
    <3>2. QED
      BY <3>1 DEF Proper
  <2>3. AttsGrow(prog, k, i)
    BY <1>3, AttsNext
  <2>4. QED
    BY <2>1, <2>2, <2>3 DEF AttsGrow
<1>5. NamedBy(prog, fd, defs) /\ (raw => RawBy(prog, k - 1, fd, defs))
  BY <1>1 DEF Holds
<1>6. raw => RawBy(prog, k, fd, defs)
  BY <1>4, <1>5 DEF RawBy
<1>7. QED
  BY <1>1, <1>5, <1>6 DEF Holds

(* The definition that the k-th call makes of a name that is new. *)
MadeBy(prog, k, defs, d) ==
  /\ d.kind = KindOf(prog[k].op) /\ d.name = prog[k].name /\ d.atts = << >>
  /\ Positioned(defs, d.kind, d.id) = {}
  /\ d.kind = "var" => /\ DOMAIN d.dims = DOMAIN prog[k].dims
                       /\ \A i \in DOMAIN d.dims :
                            \E y \in DOMAIN defs : /\ Positioned(defs, "dim", d.dims[i]) = {y}
                                                   /\ defs[y].name = prog[k].dims[i]

\* A call that defines something.
LEMMA HoldsDef ==
  ASSUME NEW prog, Proper(prog), NEW k \in 1..Len(prog), NEW p, NEW T, NEW defs \in Seq(T),
         Holds(prog, k - 1, k - 1, p, defs, TRUE), k \in FirstBy(prog, k, p),
         NEW d, MadeBy(prog, k, defs, d)
  PROVE  Holds(prog, k, k - 1, p, Append(defs, d), TRUE)
<1>1. PICK S : prog \in Seq(S)
  BY DEF Proper
<1>2. k \in Nat \ {0} /\ DOMAIN prog = 1..Len(prog) /\ Len(prog) \in Nat
  BY <1>1
<1>3. PICK f, g, more : /\ f = InOrder(FirstBy(prog, k - 1, p)) /\ g = InOrder(FirstBy(prog, k, p))
                        /\ more = Append(defs, d)
  OBVIOUS
<1>4. g = Append(f, k)
  BY <1>2, <1>3, FirstNext DEF FirstGrows
<1>5. NamedBy(prog, f, defs) /\ RawBy(prog, k - 1, f, defs)
  BY <1>3 DEF Holds
<1>6. DOMAIN f = 1..Len(f) /\ Len(f) \in Nat
  <2>1. k - 1 \in Nat
    BY <1>2
  <2>2. QED
    BY <1>3, <2>1, Firsts
<1>7. PICK n : n = Len(defs) /\ n \in Nat /\ DOMAIN defs = 1..n
  OBVIOUS
<1>8. Len(f) = n
  <2>1. 1..Len(f) = 1..n
    BY <1>5, <1>6, <1>7 DEF NamedBy
  <2>2. PICK l : l = Len(f) /\ l \in Nat /\ 1..l = 1..n
    BY <1>6, <2>1
  <2>3. l # 0 => l \in 1..l
    BY <2>2
  <2>4. n # 0 => n \in 1..n
    BY <1>7
  <2>5. l <= n
    BY <1>7, <2>2, <2>3
  <2>6. n <= l
    BY <1>7, <2>2, <2>4
  <2>7. QED
    BY <1>7, <2>2, <2>5, <2>6
<1>9. OneMore(defs, d, more)
  BY <1>3, Appended
<1>10. /\ DOMAIN more = 1..(n + 1) /\ more[n + 1] = d /\ \A x \in 1..n : more[x] = defs[x]
  <2>1. /\ Len(more) = Len(defs) + 1 /\ DOMAIN more = DOMAIN defs \cup {Len(defs) + 1}
        /\ more[Len(defs) + 1] = d /\ \A i \in DOMAIN defs : more[i] = defs[i]
    BY <1>9 DEF OneMore
  <2>2. (1..n) \cup {n + 1} = 1..(n + 1)
    BY <1>7
  <2>3. QED
    BY <1>7, <2>1, <2>2
<1>11. /\ DOMAIN g = 1..(n + 1) /\ g[n + 1] = k /\ \A x \in 1..n : g[x] = f[x]
  <2>1. PICK F : f \in Seq(F)
    <3>1. k - 1 \in Nat
      BY <1>2
    <3>2. QED
      BY <1>3, <3>1, Firsts
  <2>2. OneMore(f, k, g)
    BY <1>4, <2>1, Appended
  <2>3. /\ DOMAIN g = DOMAIN f \cup {Len(f) + 1} /\ DOMAIN f = 1..Len(f)
        /\ g[Len(f) + 1] = k /\ \A x \in DOMAIN f : g[x] = f[x]
    BY <2>2 DEF OneMore
  <2>4. (1..n) \cup {n + 1} = 1..(n + 1)
    BY <1>7
  <2>5. QED
    BY <1>8, <2>3, <2>4
<1>12. \A x \in 1..(n + 1) : x \in 1..n \/ x = n + 1
  BY <1>7
<1>13. NamedBy(prog, g, more)
  <2>1. ASSUME NEW x \in 1..n PROVE more[x].kind = KindOf(prog[g[x]].op) /\ more[x].name = prog[g[x]].name
    <3>1. more[x] = defs[x] /\ g[x] = f[x] /\ x \in DOMAIN f
      BY <1>6, <1>8, <1>10, <1>11
    <3>2. QED
      BY <1>5, <3>1 DEF NamedBy
  <2>2. more[n + 1].kind = KindOf(prog[g[n + 1]].op) /\ more[n + 1].name = prog[g[n + 1]].name
    BY <1>10, <1>11 DEF MadeBy
  <2>3. QED
    BY <1>10, <1>11, <1>12, <2>1, <2>2 DEF NamedBy
<1>14. Positioned(defs, d.kind, d.id) = {} /\ d.atts = << >>
  BY DEF MadeBy
<1>15. ASSUME NEW id, NEW y, Positioned(defs, "dim", id) = {y} PROVE Positioned(more, "dim", id) = {y}
  <2>1. ~(d.kind = "dim" /\ d.id = id)
    BY <1>14, <1>15
  <2>2. QED
    BY <1>9, <1>15, <2>1 DEF OneMore
<1>16. ASSUME NEW x \in 1..n
       PROVE  /\ more[x].atts = AttsOf(prog, k - 1, g[x])
              /\ more[x].kind = "var" => DimsBy(prog, g, more, x)
  <2>1. more[x] = defs[x] /\ g[x] = f[x] /\ x \in DOMAIN f
    BY <1>6, <1>8, <1>10, <1>11
  <2>2. defs[x].atts = AttsOf(prog, k - 1, f[x]) /\ (defs[x].kind = "var" => DimsBy(prog, f, defs, x))
    BY <1>5, <2>1 DEF RawBy
  <2>3. ASSUME DimsBy(prog, f, defs, x) PROVE DimsBy(prog, g, more, x)
    <3>1. PICK e, c : e = defs[x] /\ c = prog[f[x]] /\ e = more[x] /\ c = prog[g[x]]
      BY <2>1
    <3>2. /\ DOMAIN e.dims = DOMAIN c.dims
          /\ \A i \in DOMAIN e.dims : \E y \in 1..(x - 1) :
               Positioned(defs, "dim", e.dims[i]) = {y} /\ defs[y].name = c.dims[i]
      BY <2>3, <3>1 DEF DimsBy
    <3>3. ASSUME NEW i \in DOMAIN e.dims
          PROVE  \E y \in 1..(x - 1) : Positioned(more, "dim", e.dims[i]) = {y} /\ more[y].name = c.dims[i]
      <4>1. PICK y \in 1..(x - 1) : Positioned(defs, "dim", e.dims[i]) = {y} /\ defs[y].name = c.dims[i]
        BY <3>2, <3>3
      <4>2. y \in 1..n
        BY <1>7
      <4>3. QED
        BY <1>10, <1>15, <4>1, <4>2
    <3>4. QED
      BY <3>1, <3>2, <3>3 DEF DimsBy
  <2>4. QED
    BY <2>1, <2>2, <2>3
<1>17. more[n + 1].atts = AttsOf(prog, k - 1, g[n + 1])
  <2>1. AttsOf(prog, k - 1, k) = << >>
    BY NoAtts
  <2>2. QED
    BY <1>10, <1>11, <1>14, <2>1
<1>18. ASSUME d.kind = "var" PROVE DimsBy(prog, g, more, n + 1)
  <2>1. PICK c : c = prog[k] /\ c = prog[g[n + 1]]
    BY <1>11
  <2>2. /\ DOMAIN d.dims = DOMAIN c.dims
        /\ \A i \in DOMAIN d.dims : \E y \in DOMAIN defs :
             Positioned(defs, "dim", d.dims[i]) = {y} /\ defs[y].name = c.dims[i]
    BY <1>18, <2>1 DEF MadeBy
  <2>3. ASSUME NEW i \in DOMAIN d.dims
        PROVE  \E y \in 1..((n + 1) - 1) : Positioned(more, "dim", d.dims[i]) = {y} /\ more[y].name = c.dims[i]
    <3>1. PICK y \in DOMAIN defs : Positioned(defs, "dim", d.dims[i]) = {y} /\ defs[y].name = c.dims[i]
      BY <2>2, <2>3
    <3>2. y \in 1..n /\ (n + 1) - 1 = n
      BY <1>7
    <3>3. QED
      BY <1>10, <1>15, <3>1, <3>2
  <2>4. QED
    BY <1>10, <2>1, <2>2, <2>3 DEF DimsBy
<1>19. RawBy(prog, k - 1, g, more)
  BY <1>10, <1>11, <1>12, <1>16, <1>17, <1>18 DEF RawBy
<1>20. QED
  BY <1>3, <1>13, <1>19 DEF Holds

(* Definitions that differ in their parts only. *)
SameDefs(ds, es) ==
  /\ DOMAIN es = DOMAIN ds
  /\ \A i \in DOMAIN ds : /\ es[i].kind = ds[i].kind /\ es[i].id = ds[i].id /\ es[i].name = ds[i].name
                          /\ es[i].dims = ds[i].dims /\ es[i].atts = ds[i].atts

\* Parts are stored.
LEMMA HoldsParts ==
  ASSUME NEW prog, NEW k \in Nat, NEW j, NEW p, NEW defs, NEW raw, Holds(prog, k, j, p, defs, raw),
         NEW es, SameDefs(defs, es)
  PROVE  Holds(prog, k, j, p, es, raw)
<1>1. PICK fd : fd = InOrder(FirstBy(prog, k, p))
  OBVIOUS
<1>2. NamedBy(prog, fd, defs) /\ (raw => RawBy(prog, j, fd, defs))
  BY <1>1 DEF Holds
<1>3. /\ DOMAIN es = DOMAIN defs /\ DOMAIN defs = DOMAIN fd /\ DOMAIN fd = 1..Len(fd) /\ Len(fd) \in Nat
      /\ \A i \in DOMAIN defs : /\ es[i].kind = defs[i].kind /\ es[i].id = defs[i].id /\ es[i].name = defs[i].name
                                /\ es[i].dims = defs[i].dims /\ es[i].atts = defs[i].atts
  BY <1>1, <1>2, Firsts DEF NamedBy, SameDefs
<1>4. NamedBy(prog, fd, es)
  BY <1>2, <1>3 DEF NamedBy
<1>5. \A kind, id : Positioned(es, kind, id) = Positioned(defs, kind, id)
  BY <1>3 DEF Positioned
<1>6. ASSUME NEW x \in DOMAIN fd, DimsBy(prog, fd, defs, x) PROVE DimsBy(prog, fd, es, x)
  <2>1. PICK c, ds : c = prog[fd[x]] /\ ds = defs[x].dims /\ es[x].dims = ds
    BY <1>3
  <2>2. /\ DOMAIN ds = DOMAIN c.dims
        /\ \A i \in DOMAIN ds : \E y \in 1..(x - 1) :
             Positioned(defs, "dim", ds[i]) = {y} /\ defs[y].name = c.dims[i]
    BY <1>6, <2>1 DEF DimsBy
  <2>3. \A y \in 1..(x - 1) : y \in DOMAIN defs
    BY <1>3
  <2>4. ASSUME NEW i \in DOMAIN ds
        PROVE  \E y \in 1..(x - 1) : Positioned(es, "dim", ds[i]) = {y} /\ es[y].name = c.dims[i]
    <3>1. PICK y \in 1..(x - 1) : Positioned(defs, "dim", ds[i]) = {y} /\ defs[y].name = c.dims[i]
      BY <2>2, <2>4
    <3>2. QED
      BY <1>3, <1>5, <2>3, <3>1
  <2>5. QED
    BY <2>1, <2>2, <2>4 DEF DimsBy
<1>7. raw => RawBy(prog, j, fd, es)
  BY <1>2, <1>3, <1>6 DEF RawBy
<1>8. QED
  BY <1>1, <1>4, <1>7 DEF Holds

\* Definitions get their numbers.
LEMMA HoldsNames ==
  ASSUME NEW prog, NEW k, NEW j, NEW i, NEW p, NEW defs, NEW raw, Holds(prog, k, j, p, defs, raw),
         NEW es, SameNames(defs, es)
  PROVE  Holds(prog, k, i, p, es, FALSE)
<1>1. PICK fd : fd = InOrder(FirstBy(prog, k, p))
  OBVIOUS
<1>2. NamedBy(prog, fd, defs)
  BY <1>1 DEF Holds
<1>3. NamedBy(prog, fd, es)
  BY <1>2 DEF NamedBy, SameNames
<1>4. QED
  BY <1>1, <1>3 DEF Holds

\* Definitions that have their numbers do not depend on what is done with.
LEMMA HoldsAnyhow ==
  ASSUME NEW prog, NEW k, NEW j, NEW i, NEW p, NEW defs, NEW raw, Holds(prog, k, j, p, defs, raw)
  PROVE  Holds(prog, k, i, p, defs, FALSE)
BY DEF Holds

\* An attribute is put to a variable.
LEMMA HoldsAtt ==
  ASSUME NEW prog, Proper(prog), NEW k \in 1..Len(prog), NEW p, NEW defs,
         Holds(prog, k, k - 1, p, defs, TRUE), prog[k].op = "put_att", prog[k].path = p,
         NEW a \in DOMAIN defs, defs[a].kind = "var", defs[a].name = prog[k].name,
         NEW es, DOMAIN es = DOMAIN defs, \A i \in DOMAIN defs : i # a => es[i] = defs[i],
         NEW e, e = es[a], e.kind = defs[a].kind, e.id = defs[a].id, e.name = defs[a].name,
         e.dims = defs[a].dims, e.atts = Append(defs[a].atts, k)
  PROVE  Holds(prog, k, k, p, es, TRUE)
<1>1. PICK fd : fd = InOrder(FirstBy(prog, k, p))
  OBVIOUS
<1>2. PICK S : prog \in Seq(S)
  BY DEF Proper
<1>3. k \in Nat \ {0} /\ k \in Nat /\ DOMAIN prog = 1..Len(prog) /\ Len(prog) \in Nat
  BY <1>2
<1>4. NamedBy(prog, fd, defs) /\ RawBy(prog, k - 1, fd, defs)
  BY <1>1 DEF Holds
<1>5. DOMAIN defs = DOMAIN fd /\ DOMAIN fd = 1..Len(fd) /\ Len(fd) \in Nat
  BY <1>1, <1>3, <1>4, Firsts DEF NamedBy
<1>6. \A i \in DOMAIN defs : /\ es[i].kind = defs[i].kind /\ es[i].id = defs[i].id /\ es[i].name = defs[i].name
                             /\ es[i].dims = defs[i].dims
  OBVIOUS
<1>7. NamedBy(prog, fd, es)
  BY <1>4, <1>5, <1>6 DEF NamedBy
<1>8. \A kind, id : Positioned(es, kind, id) = Positioned(defs, kind, id)
  BY <1>6 DEF Positioned
<1>9. ASSUME NEW x \in DOMAIN fd, DimsBy(prog, fd, defs, x) PROVE DimsBy(prog, fd, es, x)
  <2>1. PICK c, ds : c = prog[fd[x]] /\ ds = defs[x].dims /\ es[x].dims = ds
    BY <1>5, <1>6
  <2>2. /\ DOMAIN ds = DOMAIN c.dims
        /\ \A i \in DOMAIN ds : \E y \in 1..(x - 1) :
             Positioned(defs, "dim", ds[i]) = {y} /\ defs[y].name = c.dims[i]
    BY <1>9, <2>1 DEF DimsBy
  <2>3. \A y \in 1..(x - 1) : y \in DOMAIN defs
    BY <1>5
  <2>4. ASSUME NEW i \in DOMAIN ds
        PROVE  \E y \in 1..(x - 1) : Positioned(es, "dim", ds[i]) = {y} /\ es[y].name = c.dims[i]
    <3>1. PICK y \in 1..(x - 1) : Positioned(defs, "dim", ds[i]) = {y} /\ defs[y].name = c.dims[i]
      BY <2>2, <2>4
    <3>2. QED
      BY <1>6, <1>8, <2>3, <3>1
  <2>5. QED
    BY <2>1, <2>2, <2>4 DEF DimsBy
<1>10. ASSUME NEW x \in DOMAIN fd PROVE es[x].atts = AttsOf(prog, k, fd[x])
  <2>1. PICK i : i = fd[x] /\ prog[i].op \in {"def_dim", "def_var"} /\ prog[i].path = p
    BY <1>1, <1>3, <1>10, Firsts
  <2>2. AttsGrow(prog, k, i)
    BY <1>3, AttsNext
  <2>3. defs[x].atts = AttsOf(prog, k - 1, i) /\ defs[x].kind = KindOf(prog[i].op) /\ defs[x].name = prog[i].name
    BY <1>4, <1>10, <2>1 DEF RawBy, NamedBy
  <2>4. CASE x = a
    <3>1. prog[i].op = "def_var" /\ prog[i].name = prog[k].name
      BY <2>1, <2>3, <2>4 DEF KindOf
    <3>2. AttsOf(prog, k, i) = Append(AttsOf(prog, k - 1, i), k)
      BY <2>1, <2>2, <3>1 DEF AttsGrow
    <3>3. QED
      BY <2>1, <2>3, <2>4, <3>2
  <2>5. CASE x # a
    <3>1. ~(prog[i].op = "def_var" /\ prog[k].name = prog[i].name)
      <4>1. SUFFICES ASSUME prog[i].op = "def_var", prog[k].name = prog[i].name PROVE x = a
        BY <2>5
      <4>2. a \in DOMAIN fd /\ defs[a].kind = KindOf(prog[fd[a]].op) /\ defs[a].name = prog[fd[a]].name
        BY <1>4, <1>5 DEF NamedBy
      <4>3. prog[fd[a]].op \in {"def_dim", "def_var"}
        BY <1>1, <1>3, <4>2, Firsts
      <4>4. prog[fd[a]].op = "def_var"
        BY <4>2, <4>3 DEF KindOf
      <4>5. prog[fd[a]].op = prog[fd[x]].op /\ prog[fd[a]].name = prog[fd[x]].name
        BY <2>1, <4>1, <4>2, <4>4
      <4>6. QED
        BY <1>1, <1>3, <1>10, <4>2, <4>5, FirstOnly
    <3>2. AttsOf(prog, k, i) = AttsOf(prog, k - 1, i)
      BY <2>2, <3>1 DEF AttsGrow
    <3>3. es[x] = defs[x]
      BY <1>5, <2>5
    <3>4. QED
      BY <2>1, <2>3, <3>2, <3>3
  <2>6. QED
    BY <2>4, <2>5
<1>11. \A x \in DOMAIN fd : es[x].kind = "var" => DimsBy(prog, fd, es, x)
  <2>1. \A x \in DOMAIN fd : es[x].kind = defs[x].kind /\ (defs[x].kind = "var" => DimsBy(prog, fd, defs, x))
    BY <1>4, <1>5, <1>6 DEF RawBy
  <2>2. QED
    BY <1>9, <2>1
<1>12. RawBy(prog, k, fd, es)
  BY <1>10, <1>11 DEF RawBy
<1>13. QED
  BY <1>1, <1>7, <1>12 DEF Holds

\* A program that goes on with other calls.
LEMMA HoldsLonger ==
  ASSUME NEW prog, NEW more, NEW k \in Nat, SameFirst(prog, more, k), NEW j \in 0..k, NEW p, NEW defs,
         NEW raw, Holds(prog, k, j, p, defs, raw)
  PROVE  Holds(more, k, j, p, defs, raw)
<1>1. PICK fd : fd = InOrder(FirstBy(prog, k, p)) /\ fd = InOrder(FirstBy(more, k, p))
  <2>1. FirstBy(more, k, p) = FirstBy(prog, k, p)
    BY FirstSame
  <2>2. QED
    BY <2>1
<1>2. \A x \in DOMAIN fd : fd[x] \in 1..k
  <2>1. fd = InOrder(FirstBy(prog, k, p))
    BY <1>1
  <2>2. QED
    BY <2>1, Firsts
<1>3. \A x \in DOMAIN fd : more[fd[x]] = prog[fd[x]] /\ AttsOf(more, j, fd[x]) = AttsOf(prog, j, fd[x])
  BY <1>2, FirstSame DEF SameFirst
<1>4. NamedBy(prog, fd, defs) /\ (raw => RawBy(prog, j, fd, defs))
  BY <1>1 DEF Holds
<1>5. NamedBy(more, fd, defs)
  BY <1>3, <1>4 DEF NamedBy
<1>6. ASSUME raw PROVE RawBy(more, j, fd, defs)
  <2>1. ASSUME NEW x \in DOMAIN fd PROVE DimsBy(more, fd, defs, x) <=> DimsBy(prog, fd, defs, x)
    <3>1. PICK c : c = prog[fd[x]] /\ c = more[fd[x]]
      BY <1>3
    <3>2. QED
      BY <3>1 DEF DimsBy
  <2>2. \A x \in DOMAIN fd : /\ defs[x].atts = AttsOf(prog, j, fd[x])
                             /\ defs[x].kind = "var" => DimsBy(prog, fd, defs, x)
    BY <1>4, <1>6 DEF RawBy
  <2>3. QED
    BY <1>3, <2>1, <2>2 DEF RawBy
<1>7. QED
  BY <1>1, <1>5, <1>6 DEF Holds

\* A file that was just created.
LEMMA HoldsNone ==
  ASSUME NEW prog, NEW k \in Nat, NEW j, NEW p, \A i \in 1..k : prog[i].op = "create" \/ prog[i].path # p, NEW raw
  PROVE  Holds(prog, k, j, p, << >>, raw)
<1>1. FirstBy(prog, k, p) = {}
  BY DEF FirstBy
<1>2. InOrder(FirstBy(prog, k, p)) = << >>
  BY <1>1, InOrderNone
<1>3. DOMAIN << >> = {}
  OBVIOUS
<1>4. QED
  BY <1>2, <1>3 DEF Holds, NamedBy, RawBy

OfKind(defs, kind) == {i \in DOMAIN defs : defs[i].kind = kind}

\* The i-th definition is found by its rank among those of its kind.
LEMMA NamesAt ==
  ASSUME NEW T, NEW defs \in Seq(T), NEW i \in DOMAIN defs, NEW kind, kind = defs[i].kind
  PROVE  NamesOf(defs, kind)[Rank(OfKind(defs, kind), i)] = defs[i].name
<1>1. PICK S : S = OfKind(defs, kind)
  OBVIOUS
<1>2. PICK n : n = Len(defs) /\ n \in Nat /\ DOMAIN defs = 1..n
  OBVIOUS
<1>3. S \in SUBSET (1..n) /\ i \in S /\ S \subseteq Int
  BY <1>1, <1>2 DEF OfKind
<1>4. IsFiniteSet(S)
  <2>1. IsFiniteSet(1..n)
    BY <1>2, FS_Interval
  <2>2. S \subseteq 1..n
    BY <1>3
  <2>3. QED
    BY <2>1, <2>2, FS_Subset
<1>5. Rank(S, i) \in 1..Cardinality(S) /\ InOrder(S)[Rank(S, i)] = i
  BY <1>3, <1>4, RankUnique, InOrderAt
<1>6. PICK its, r : its = InOrder(S) /\ r = Rank(S, i)
  OBVIOUS
<1>7. Len(its) = Cardinality(S) /\ DOMAIN its = 1..Len(its)
  BY <1>2, <1>3, <1>6, InOrderIs
<1>8. r \in DOMAIN its /\ its[r] = i
  BY <1>5, <1>6, <1>7
<1>9. NamesOf(defs, kind) = [x \in DOMAIN its |-> defs[its[x]].name]
  BY <1>1, <1>6 DEF NamesOf, OfKind
<1>10. QED
  BY <1>1, <1>6, <1>8, <1>9

(* What numbering makes of the definitions of a file. *)
NumbersGiven(defs, es) ==
  /\ DOMAIN es = DOMAIN defs
  /\ \A i \in DOMAIN defs :
       /\ es[i].kind = defs[i].kind /\ es[i].id = defs[i].id /\ es[i].name = defs[i].name
       /\ es[i].atts = defs[i].atts /\ es[i].nc = Rank(OfKind(defs, defs[i].kind), i)
       /\ DOMAIN es[i].dims = DOMAIN defs[i].dims
       /\ \A x \in DOMAIN defs[i].dims : \A y \in 1..(i - 1) :
            Positioned(defs, "dim", defs[i].dims[x]) = {y} =>
              es[i].dims[x] = Rank(OfKind(defs, "dim"), y)

\* Definitions are numbered by their rank.
LEMMA NumberedIs ==
  ASSUME NEW s, NEW f, IsFile(s, f), NEW es, es = Numbered(f.defs)
  PROVE  NumbersGiven(f.defs, es)
<1>1. PICK defs : defs = f.defs /\ es = Numbered(defs)
  OBVIOUS
<1>2. PICK T : defs \in Seq(T)
  BY <1>1 DEF IsFile
<1>3. PICK n : n = Len(defs) /\ n \in Nat /\ DOMAIN defs = 1..n
  BY <1>2
<1>4. ASSUME NEW i \in 1..n
      PROVE  Cardinality({j \in 1..i : defs[j].kind = defs[i].kind}) = Rank(OfKind(defs, defs[i].kind), i)
  <2>1. {j \in 1..i : defs[j].kind = defs[i].kind} = {j \in OfKind(defs, defs[i].kind) : j <= i}
    <3>1. \A j \in 1..i : j \in 1..n /\ j <= i
      BY <1>3
    <3>2. \A j \in 1..n : j <= i => j \in 1..i
      BY <1>3
    <3>3. QED
      BY <1>3, <3>1, <3>2 DEF OfKind
  <2>2. QED
    BY <2>1 DEF Rank
<1>5. DOMAIN es = 1..n
  BY <1>1, <1>3 DEF Numbered
<1>6. ASSUME NEW i \in 1..n
      PROVE  /\ es[i].kind = defs[i].kind /\ es[i].id = defs[i].id /\ es[i].name = defs[i].name
             /\ es[i].atts = defs[i].atts /\ es[i].nc = Rank(OfKind(defs, defs[i].kind), i)
             /\ DOMAIN es[i].dims = DOMAIN defs[i].dims
             /\ \A x \in DOMAIN defs[i].dims : \A y \in 1..(i - 1) :
                  Positioned(defs, "dim", defs[i].dims[x]) = {y} =>
                    es[i].dims[x] = Rank(OfKind(defs, "dim"), y)
  <2> DEFINE number(l) == Cardinality({j \in 1..l : defs[j].kind = defs[l].kind})
             dimId(l, v) == LET at == {j \in Positioned(defs, "dim", v) : j < l}
                            IN  IF at = {} THEN Invalid ELSE number(CHOOSE j \in at : TRUE)
             x0 == number(i)
             y0 == [l \in DOMAIN defs[i].dims |-> dimId(i, defs[i].dims[l])]
  <2>1. es[i] = [defs[i] EXCEPT !.nc = x0, !.dims = y0]
    <3>1. i \in DOMAIN defs
      BY <1>3
    <3>2. QED
      BY <1>1, <3>1 DEF Numbered
  <2>2. x0 = Rank(OfKind(defs, defs[i].kind), i)
    BY <1>4
  <2>3. DOMAIN y0 = DOMAIN defs[i].dims
    OBVIOUS
  <2>4. ASSUME NEW x \in DOMAIN defs[i].dims, NEW y \in 1..(i - 1),
               Positioned(defs, "dim", defs[i].dims[x]) = {y}
        PROVE  y0[x] = Rank(OfKind(defs, "dim"), y)
    <3>1. y < i /\ y \in 1..n
      BY <1>3
    <3>2. PICK A : A = {j \in Positioned(defs, "dim", defs[i].dims[x]) : j < i}
      OBVIOUS
    <3>3. A = {y}
      BY <2>4, <3>1, <3>2
    <3>4. PICK b : b = (CHOOSE j \in A : TRUE) /\ b = y
      BY <3>3
    <3>5. y0[x] = dimId(i, defs[i].dims[x])
      BY <2>4
    <3>6. dimId(i, defs[i].dims[x]) = IF A = {} THEN Invalid ELSE number(CHOOSE j \in A : TRUE)
      BY <3>2
    <3>7. dimId(i, defs[i].dims[x]) = number(b)
      <4> HIDE DEF number, dimId
      <4>1. A # {}
        BY <3>3
      <4>2. QED
        BY <3>4, <3>6, <4>1
    <3>8. number(y) = Rank(OfKind(defs, defs[y].kind), y)
      BY <1>4, <3>1
    <3>9. defs[y].kind = "dim"
      BY <2>4 DEF Positioned
    <3> HIDE DEF number, dimId, y0
    <3>10. QED
      BY <3>4, <3>5, <3>7, <3>8, <3>9
  <2> HIDE DEF x0, y0
  <2>5. PICK d, e, x1, y1 : d = defs[i] /\ e = es[i] /\ x1 = x0 /\ y1 = y0
    OBVIOUS
  <2>6. e = [d EXCEPT !.nc = x1, !.dims = y1] /\ DOMAIN d = DefFields
    BY <1>1, <1>3, <2>1, <2>5 DEF IsFile, IsDef
  <2>7. e.kind = d.kind /\ e.id = d.id /\ e.name = d.name /\ e.atts = d.atts /\ e.nc = x1 /\ e.dims = y1
    BY <2>6 DEF DefFields
  <2>8. es[i].dims = y0 /\ es[i].nc = x0
    BY <2>5, <2>7
  <2>9. /\ es[i].kind = defs[i].kind /\ es[i].id = defs[i].id /\ es[i].name = defs[i].name
        /\ es[i].atts = defs[i].atts
    BY <2>5, <2>7
  <2>10. QED
    BY <2>2, <2>3, <2>4, <2>8, <2>9
<1>7. QED
  BY <1>1, <1>3, <1>5, <1>6 DEF NumbersGiven

(* The library finds the variables of a file under their numbers. *)
VarsNamed(defs, vs) == \A x \in DOMAIN defs : defs[x].kind = "var" => vs[defs[x].nc] = defs[x].name

\* Names by number.
LEMMA NumberedNames ==
  ASSUME NEW s, NEW f, IsFile(s, f), NEW es, es = Numbered(f.defs), NEW i \in DOMAIN f.defs,
         NEW kind, kind = f.defs[i].kind
  PROVE  NamesOf(es, kind)[Rank(OfKind(f.defs, kind), i)] = f.defs[i].name
<1>1. PICK defs : defs = f.defs
  OBVIOUS
<1>2. NumbersGiven(defs, es)
  BY <1>1, NumberedIs
<1>3. PICK T : defs \in Seq(T)
  BY <1>1 DEF IsFile
<1>4. es \in Seq(Range(es))
  <2>1. PICK n : n = Len(defs) /\ n \in Nat /\ DOMAIN defs = 1..n
    BY <1>3
  <2>2. DOMAIN es = 1..n
    BY <1>2, <2>1 DEF NumbersGiven
  <2>3. es = [i1 \in DOMAIN es |-> es[i1]]
    <3>1. PICK v : v = [i1 \in DOMAIN defs |-> es[i1]]
      OBVIOUS
    <3>2. QED
      BY DEF Numbered
  <2>4. \A i1 \in 1..n : es[i1] \in Range(es)
    BY <2>2 DEF Range
  <2>5. QED
    BY <2>1, <2>2, <2>3, <2>4
<1>5. i \in DOMAIN es /\ kind = es[i].kind /\ es[i].name = defs[i].name
  BY <1>1, <1>2 DEF NumbersGiven
<1>6. OfKind(es, kind) = OfKind(defs, kind)
  BY <1>2 DEF NumbersGiven, OfKind
<1>7. NamesOf(es, kind)[Rank(OfKind(es, kind), i)] = es[i].name
  BY <1>4, <1>5, NamesAt
<1>8. QED
  BY <1>1, <1>5, <1>6, <1>7

\* The variables get the numbers that the library has for them.
LEMMA NumberedVars ==
  ASSUME NEW s, NEW f, IsFile(s, f), NEW es, es = Numbered(f.defs)
  PROVE  VarsNamed(es, NamesOf(es, "var"))
<1>1. NumbersGiven(f.defs, es)
  BY NumberedIs
<1>2. ASSUME NEW x \in DOMAIN es, es[x].kind = "var" PROVE NamesOf(es, "var")[es[x].nc] = es[x].name
  <2>1. /\ x \in DOMAIN f.defs /\ f.defs[x].kind = "var" /\ es[x].name = f.defs[x].name
        /\ es[x].nc = Rank(OfKind(f.defs, "var"), x)
    BY <1>1, <1>2 DEF NumbersGiven
  <2>2. NamesOf(es, "var")[Rank(OfKind(f.defs, "var"), x)] = f.defs[x].name
    BY <2>1, NumberedNames
  <2>3. QED
    BY <2>1, <2>2
<1>3. QED
  BY <1>2 DEF VarsNamed

(* The definitions of f, that of the k-th call of prog being ended, get their *)
(* numbers.                                                                *)
Numbering(s, f, prog, k, p, id, es) ==
  /\ IsFile(s, f) /\ Proper(prog) /\ k \in 0..Len(prog) /\ Holds(prog, k, k, p, f.defs, TRUE)
  /\ netcdf[s][id].path = p /\ es = Numbered(f.defs)

\* The library calls for the definitions of a file are those of its header.
LEMMA DefCallsAre ==
  ASSUME NEW s, NEW f, NEW prog, NEW k, NEW p, NEW id, NEW es, Numbering(s, f, prog, k, p, id, es)
  PROVE  DefCalls(s, id, es) = FlattenSeq(Blocks(prog, k, p))
<1>0. /\ IsFile(s, f) /\ Proper(prog) /\ k \in 0..Len(prog) /\ Holds(prog, k, k, p, f.defs, TRUE)
      /\ netcdf[s][id].path = p /\ es = Numbered(f.defs)
  BY DEF Numbering
<1>1. PICK defs, fd, names0 : defs = f.defs /\ fd = InOrder(FirstBy(prog, k, p)) /\ names0 = NamesOf(es, "dim")
  OBVIOUS
<1>2. PICK S : prog \in Seq(S)
  BY <1>0 DEF Proper
<1>3. k \in Nat /\ DOMAIN prog = 1..Len(prog) /\ Len(prog) \in Nat /\ \A i \in 1..k : i \in DOMAIN prog
  BY <1>0, <1>2
<1>4. NumbersGiven(defs, es)
  BY <1>0, <1>1, NumberedIs
<1>5. NamedBy(prog, fd, defs) /\ RawBy(prog, k, fd, defs)
  BY <1>0, <1>1 DEF Holds
<1>6. DOMAIN es = DOMAIN fd /\ DOMAIN defs = DOMAIN fd
  BY <1>4, <1>5 DEF NumbersGiven, NamedBy
<1>7. PICK C : C = [i \in DOMAIN es |->
           IF es[i].kind = "dim" THEN <<Entry("def_dim", p, es[i].name, << >>, {})>>
           ELSE <<Entry("def_var", p, es[i].name, [x \in DOMAIN es[i].dims |-> names0[es[i].dims[x]]], {})>>
                \o [x \in DOMAIN es[i].atts |-> Entry("put_att", p, es[i].name, << >>, {es[i].atts[x]})]]
  OBVIOUS
<1>8. DefCalls(s, id, es) = FlattenSeq(C)
  BY <1>0, <1>1, <1>7 DEF DefCalls, Logged
<1>9. ASSUME NEW x \in DOMAIN fd PROVE C[x] = Block(prog, k, fd[x])
  <2>1. PICK i : i = fd[x]
    OBVIOUS
  <2>2. i \in 1..k /\ prog[i].op \in {"def_dim", "def_var"} /\ prog[i].path = p
    <3>1. k \in Nat
      BY <1>3
    <3>2. \A z \in DOMAIN fd : /\ fd[z] \in 1..k /\ prog[fd[z]].op \in {"def_dim", "def_var"}
                               /\ prog[fd[z]].path = p
      BY <1>1, <3>1, Firsts
    <3>3. QED
      BY <1>9, <2>1, <3>2
  <2>3. i \in DOMAIN prog
    BY <1>3, <2>2
  <2>4. defs[x].kind = KindOf(prog[i].op) /\ defs[x].name = prog[i].name /\ defs[x].atts = AttsOf(prog, k, i)
        /\ (defs[x].kind = "var" => DimsBy(prog, fd, defs, x))
    BY <1>5, <1>9, <2>1 DEF NamedBy, RawBy
  <2>5. /\ es[x].kind = defs[x].kind /\ es[x].name = defs[x].name /\ es[x].atts = defs[x].atts
        /\ DOMAIN es[x].dims = DOMAIN defs[x].dims
        /\ \A z \in DOMAIN defs[x].dims : \A y \in 1..(x - 1) :
            Positioned(defs, "dim", defs[x].dims[z]) = {y} => es[x].dims[z] = Rank(OfKind(defs, "dim"), y)
    BY <1>4, <1>6, <1>9 DEF NumbersGiven
  <2>6. CASE prog[i].op = "def_dim"
    <3>1. C[x] = <<Entry("def_dim", p, prog[i].name, << >>, {})>>
      BY <1>6, <1>7, <2>4, <2>5, <2>6 DEF KindOf
    <3>2. AttsOf(prog, k, i) = << >>
      BY <2>6, InOrderNone DEF AttsOf
    <3>3. AttEntries(prog, k, i) = << >>
      <4>1. PICK q : q = AttsOf(prog, k, i) /\ q = << >>
        BY <3>2
      <4>2. AttEntries(prog, k, i) = [z \in DOMAIN q |-> Entry("put_att", prog[i].path, prog[i].name, << >>, {q[z]})]
        BY <4>1 DEF AttEntries
      <4>3. DOMAIN q = {}
        BY <4>1
      <4>4. QED
        BY <4>2, <4>3
    <3>4. prog[i].dims = << >>
      BY <1>0, <2>3, <2>6 DEF Proper
    <3>5. PICK e : e = Entry("def_dim", p, prog[i].name, << >>, {})
      OBVIOUS
    <3>6. Block(prog, k, i) = <<e>> \o << >>
      BY <2>2, <2>6, <3>3, <3>4, <3>5 DEF Block
    <3>7. <<e>> \o << >> = <<e>>
      OBVIOUS
    <3>8. QED
      BY <2>1, <3>1, <3>5, <3>6, <3>7
  <2>7. CASE prog[i].op = "def_var"
    <3>1. defs[x].kind = "var"
      BY <2>4, <2>7 DEF KindOf
    <3>2. PICK ds : ds = [z \in DOMAIN es[x].dims |-> names0[es[x].dims[z]]]
      OBVIOUS
    <3>3. PICK cd, D : cd = prog[i].dims /\ cd \in Seq(D)
      BY <1>0, <2>3, <2>7 DEF Proper
    <3>4. /\ DOMAIN defs[x].dims = DOMAIN cd
          /\ \A z \in DOMAIN defs[x].dims : \E y \in 1..(x - 1) :
               Positioned(defs, "dim", defs[x].dims[z]) = {y} /\ defs[y].name = cd[z]
      BY <2>1, <2>4, <3>1, <3>3 DEF DimsBy
    <3>5. ASSUME NEW z \in DOMAIN cd PROVE names0[es[x].dims[z]] = cd[z]
      <4>1. PICK y \in 1..(x - 1) : Positioned(defs, "dim", defs[x].dims[z]) = {y} /\ defs[y].name = cd[z]
        BY <3>4, <3>5
      <4>2. es[x].dims[z] = Rank(OfKind(defs, "dim"), y)
        BY <2>5, <3>4, <3>5, <4>1
      <4>3. y \in DOMAIN defs /\ defs[y].kind = "dim"
        BY <4>1 DEF Positioned
      <4>4. names0[Rank(OfKind(defs, "dim"), y)] = defs[y].name
        BY <1>0, <1>1, <4>3, NumberedNames
      <4>5. QED
        BY <4>1, <4>2, <4>4
    <3>6. ds = cd
      <4>1. cd = [z \in DOMAIN cd |-> cd[z]]
        BY <3>3
      <4>2. DOMAIN es[x].dims = DOMAIN cd
        BY <2>5, <3>4
      <4>3. QED
        BY <3>2, <3>5, <4>1, <4>2
    <3>7. PICK q : q = AttsOf(prog, k, i) /\ es[x].atts = q
      BY <2>4, <2>5
    <3>8. AttEntries(prog, k, i) = [z \in DOMAIN q |-> Entry("put_att", p, prog[i].name, << >>, {q[z]})]
      BY <2>2, <3>7 DEF AttEntries
    <3>9. C[x] = <<Entry("def_var", p, prog[i].name, ds, {})>>
                 \o [z \in DOMAIN q |-> Entry("put_att", p, prog[i].name, << >>, {q[z]})]
      BY <1>6, <1>7, <2>4, <2>5, <3>1, <3>2, <3>7
    <3>10. Block(prog, k, i) = <<Entry("def_var", p, prog[i].name, cd, {})>> \o AttEntries(prog, k, i)
      BY <2>2, <2>7, <3>3 DEF Block
    <3>11. QED
      BY <2>1, <3>6, <3>8, <3>9, <3>10
  <2>8. QED
    BY <2>2, <2>6, <2>7
<1>10. Blocks(prog, k, p) = [x \in DOMAIN fd |-> Block(prog, k, fd[x])]
  BY <1>1 DEF Blocks
<1>11. C = Blocks(prog, k, p)
  <2>1. C = [x \in DOMAIN fd |-> C[x]]
    BY <1>6, <1>7
  <2>2. QED
    BY <1>9, <1>10, <2>1
<1>12. QED
  BY <1>8, <1>11

(***************************************************************************)
(* What a server holds between two messages, and the effect of a handler.   *)
(***************************************************************************)

(* The definitions of a file are not numbered yet. *)
Unnumbered(fs, w, nc) == fs[nc].status = "define" /\ ~(w.op = "enddef" /\ w.nc = nc)

(* The files of a server are as k calls make them, when j are done with.     *)
FilesHold(prog, k, j, tab, fs, w) ==
  \A nc \in DOMAIN tab.nc :
    Holds(prog, k, j, tab.nc[nc].path, fs[nc].defs, Unnumbered(fs, w, nc))

(* The library finds the variables under their numbers. *)
VarsHold(tab, fs, nd, w) ==
  \A nc \in DOMAIN tab.nc :
    ~Unnumbered(fs, w, nc) => VarsNamed(fs[nc].defs, nd[fs[nc].nc_id].vars)

(* The clients before turn i have passed the data of the k-th call. *)
PartsHold(s, call, key, k, fs, i) ==
  i # 1 /\ call.op = "put_vara" =>
    \A e \in 1..(i - 1) : DefOf(fs[key[2]].defs, "var", key[3]).parts[Group[s][e]] = k

(* The library has the file that is to be closed under its name. *)
CloseHolds(call, key, fs, nd, i) ==
  i # 1 /\ call.op = "close" => nd[fs[key[2]].nc_id].path = call.path

(* A library call is on the file and the variable of the k-th call. *)
CallHolds(prog, k, w) ==
  w.op # "none" => /\ w.path = prog[k].path
                   /\ w.op = "put_vara" => w.name = prog[k].name /\ w.from = {k}

(* The calls made: those of the k-th call are made when it is done with, but *)
(* create before, and the definitions with the first enddef.               *)
LogHolds(prog, k, i, w, lg) ==
  IF w.op = "enddef"
    THEN /\ lg = Owed(prog, k - 1) \o FlattenSeq(Blocks(prog, k - 1, prog[k].path))
         /\ ~EndedBy(prog, k - 1, prog[k].path)
    ELSE lg = Owed(prog, IF w.op = "none" /\ (i = 1 \/ prog[k].op = "create") THEN k ELSE k - 1)

(* All that for a server with the last call k, of which j are done with. *)
Holding(prog, k, j, call, key, s, tab, fs, nd, w, i, lg) ==
  /\ FilesHold(prog, k, j, tab, fs, w) /\ VarsHold(tab, fs, nd, w)
  /\ PartsHold(s, call, key, k, fs, i) /\ CloseHolds(call, key, fs, nd, i)
  /\ CallHolds(prog, k, w) /\ LogHolds(prog, k, i, w, lg)

Writes(h, s) ==
  LET k == Taken(s)
  IN  Holding(calls, k, Done(s), calls[k], KeyOf(h[k - 1], calls[k]), s, h[k],
              files[s], netcdf[s], waiting[s], turn[s], log[s])

(* Before server s handles the message m of client c, of the k-th call ... *)
Writing(prog, s, c, m, t, u, call, k, key) ==
  /\ Turn(s, c, m, t, u, call, k, key) /\ TableOk(t) /\ TableOk(u) /\ Fits(t, call)
  /\ Meant(t, call, k, m) /\ u = After(t, call, k)
  /\ Proper(prog) /\ k \in 1..Len(prog) /\ k \in Nat \ {0} /\ call = prog[k]
  /\ IF turn[s] = 1
       THEN FilesHold(prog, k - 1, k - 1, t, files[s], waiting[s])
            /\ VarsHold(t, files[s], netcdf[s], waiting[s])
       ELSE FilesHold(prog, k, k - 1, u, files[s], waiting[s])
            /\ VarsHold(u, files[s], netcdf[s], waiting[s])
  /\ PartsHold(s, call, key, k, files[s], turn[s])
  /\ CloseHolds(call, key, files[s], netcdf[s], turn[s])
  /\ DOMAIN log = Servers
  /\ log[s] = Owed(prog, IF turn[s] # 1 /\ call.op = "create" THEN k ELSE k - 1)
  /\ call.op = "enddef" => (files[s][m.nc].status = "data" <=> EndedBy(prog, k - 1, call.path))

(* ... and after that. *)
Wrote(prog, s, u, call, k, key) ==
  /\ DOMAIN log' = Servers /\ \A o \in Servers \ {s} : log'[o] = log[o]
  /\ Holding(prog, k, IF turn'[s] = 1 /\ waiting'[s].op = "none" THEN k ELSE k - 1, call, key, s, u,
             files'[s], netcdf'[s], waiting'[s], turn'[s], log'[s])

\* The file a call is on.
LEMMA FileOn ==
  ASSUME NEW prog, NEW s, NEW c, NEW m, NEW t, NEW u, NEW call, NEW k, NEW key,
         Writing(prog, s, c, m, t, u, call, k, key)
  PROVE  /\ call.op # "create" => m.nc \in DOMAIN t.nc /\ t.nc[m.nc].path = call.path
         /\ \A n \in DOMAIN t.nc : t.nc[n].path = call.path => call.op # "create" /\ n = m.nc
         /\ \A n \in DOMAIN t.nc : n \in DOMAIN u.nc => u.nc[n].path = t.nc[n].path
         /\ \A n \in DOMAIN u.nc : n \notin DOMAIN t.nc =>
              call.op = "create" /\ n = m.nc /\ u.nc[n].path = call.path
         /\ call.op \notin {"create", "close"} => DOMAIN u.nc = DOMAIN t.nc
         /\ call.op = "close" => m.nc \notin DOMAIN u.nc
         /\ m.op = call.op /\ call.op \in Ops /\ k \in Nat
<1>1. TableOk(t) /\ Fits(t, call) /\ Meant(t, call, k, m) /\ u = After(t, call, k) /\ k \in Nat
  BY DEF Writing
<1>2. ASSUME call.op # "create"
      PROVE  m.nc \in DOMAIN t.nc /\ t.nc[m.nc].path = call.path
  <2>1. m.nc = NcOf(t, call.path)
    BY <1>1, <1>2 DEF Meant
  <2>2. \E n \in DOMAIN t.nc : t.nc[n].path = call.path
    BY <1>1, <1>2 DEF Fits
  <2>3. QED
    BY <2>1, <2>2 DEF NcOf
<1>3. ASSUME NEW n \in DOMAIN t.nc, t.nc[n].path = call.path
      PROVE  call.op # "create" /\ n = m.nc
  <2>1. call.op # "create"
    BY <1>1, <1>3 DEF Fits
  <2>2. QED
    BY <1>1, <1>2, <1>3, <2>1 DEF TableOk
<1>4. /\ \A n \in DOMAIN t.nc : n \in DOMAIN u.nc => u.nc[n].path = t.nc[n].path
      /\ \A n \in DOMAIN u.nc : n \notin DOMAIN t.nc =>
           call.op = "create" /\ n = t.open + 1 /\ u.nc[n].path = call.path
      /\ call.op \notin {"create", "close"} => DOMAIN u.nc = DOMAIN t.nc
  BY <1>1, SamePath
<1>5. call.op = "create" => m.nc = t.open + 1
  BY <1>1 DEF Meant
<1>6. call.op = "close" => m.nc \notin DOMAIN u.nc
  <2>1. ASSUME call.op = "close" PROVE u.nc = Without(t.nc, NcOf(t, call.path)) /\ m.nc = NcOf(t, call.path)
    <3>1. u = FileClosed(t, call)
      BY <1>1, <2>1 DEF After
    <3>2. t \in [open : Nat, nc : Partial(Nat, OpenFile)]
      BY <1>1 DEF TableOk, Tables
    <3>3. QED
      BY <1>1, <2>1, <3>1, <3>2 DEF FileClosed, Meant
  <2>2. QED
    BY <2>1 DEF Without
<1>7. m.op = call.op /\ call.op \in Ops
  BY <1>1 DEF Meant, Fits
<1>8. QED
  BY <1>1, <1>2, <1>3, <1>4, <1>5, <1>6, <1>7

\* What is known of the files that the k-th call does not define anything in.
LEMMA HoldsNow ==
  ASSUME NEW prog, NEW s, NEW c, NEW m, NEW t, NEW u, NEW call, NEW k, NEW key,
         Writing(prog, s, c, m, t, u, call, k, key),
         NEW nc \in DOMAIN t.nc, nc \in DOMAIN u.nc,
         call.op \in {"def_dim", "def_var"} => nc # m.nc \/ turn[s] # 1
  PROVE  /\ Holds(prog, k, k - 1, u.nc[nc].path, files[s][nc].defs, Unnumbered(files[s], waiting[s], nc))
         /\ ~Unnumbered(files[s], waiting[s], nc) =>
              VarsNamed(files[s][nc].defs, netcdf[s][files[s][nc].nc_id].vars)
<1>1. CASE turn[s] # 1
  BY <1>1 DEF Writing, FilesHold, VarsHold
<1>2. CASE turn[s] = 1
  <2>1. /\ Holds(prog, k - 1, k - 1, t.nc[nc].path, files[s][nc].defs, Unnumbered(files[s], waiting[s], nc))
        /\ ~Unnumbered(files[s], waiting[s], nc) =>
             VarsNamed(files[s][nc].defs, netcdf[s][files[s][nc].nc_id].vars)
    BY <1>2 DEF Writing, FilesHold, VarsHold
  <2>2. u.nc[nc].path = t.nc[nc].path
    BY FileOn
  <2>3. PICK p : p = u.nc[nc].path
    OBVIOUS
  <2>4. k \in Nat \ {0} /\ call = prog[k]
    BY DEF Writing
  <2>5. k \notin FirstBy(prog, k, p)
    <3>1. FirstGrows(prog, k, p)
      BY <2>4, FirstNext
    <3>2. k \in FirstBy(prog, k, p) => call.op \in {"def_dim", "def_var"} /\ call.path = p
      BY <2>4, <3>1 DEF FirstGrows
    <3>3. call.path = p => nc = m.nc
      BY <2>2, <2>3, FileOn
    <3>4. QED
      BY <1>2, <3>2, <3>3
  <2>6. QED
    BY <2>1, <2>2, <2>3, <2>4, <2>5, HoldsStill
<1>3. QED
  BY <1>1, <1>2

\* A call that gives no variable an attribute may be done with.
LEMMA FilesAfter ==
  ASSUME NEW prog, Proper(prog), NEW k \in 1..Len(prog), NEW tab, NEW fs, NEW w,
         prog[k].op # "put_att" \/ prog[k].name = Global,
         FilesHold(prog, k, k - 1, tab, fs, w), NEW j \in {k - 1, k}
  PROVE  FilesHold(prog, k, j, tab, fs, w)
<1>1. CASE j = k - 1
  BY <1>1
<1>2. CASE j = k
  <2>1. ASSUME NEW nc \in DOMAIN tab.nc
        PROVE  Holds(prog, k, k, tab.nc[nc].path, fs[nc].defs, Unnumbered(fs, w, nc))
    <3>1. Holds(prog, k, k - 1, tab.nc[nc].path, fs[nc].defs, Unnumbered(fs, w, nc))
      BY <2>1 DEF FilesHold
    <3>2. QED
      BY <3>1, HoldsDone
  <2>2. QED
    BY <1>2, <2>1 DEF FilesHold
<1>3. QED
  BY <1>1, <1>2

\* A call that does nothing to a file.
LEMMA OwedStill ==
  ASSUME NEW prog, Proper(prog), NEW k \in 1..Len(prog),
         \/ prog[k].op \in {"def_dim", "def_var"}
         \/ prog[k].op = "put_att" /\ prog[k].name # Global
         \/ prog[k].op = "enddef" /\ EndedBy(prog, k - 1, prog[k].path)
  PROVE  Owed(prog, k) = Owed(prog, k - 1)
<1>1. Does(prog, k) = << >>
  BY DEF Does
<1>2. Owed(prog, k) = Owed(prog, k - 1) \o Does(prog, k) /\ Owed(prog, k - 1) \in Seq(Entries(prog))
  BY OwedNext
<1>3. PICK q, V : q = Owed(prog, k - 1) /\ q \in Seq(V)
  BY <1>2
<1>4. q \o << >> = q
  BY <1>3
<1>5. QED
  BY <1>1, <1>2, <1>3, <1>4

(***************************************************************************)
(* The handlers, one by one.                                                *)
(***************************************************************************)

\* What is the same for every call.
LEMMA WritingIs ==
  ASSUME NEW prog, NEW s, NEW c, NEW m, NEW t, NEW u, NEW call, NEW k, NEW key,
         Writing(prog, s, c, m, t, u, call, k, key)
  PROVE  /\ Turn(s, c, m, t, u, call, k, key) /\ Proper(prog) /\ k \in 1..Len(prog) /\ k \in Nat \ {0}
         /\ call = prog[k] /\ DOMAIN log = Servers /\ s \in Servers /\ waiting[s].op = "none"
         /\ DOMAIN files = Servers /\ DOMAIN waiting = Servers /\ DOMAIN netcdf = Servers
         /\ DOMAIN t.nc \subseteq DOMAIN files[s] \/ turn[s] # 1
         /\ DOMAIN u.nc \subseteq DOMAIN files[s] \/ turn[s] = 1
         /\ \A n \in DOMAIN files[s] : IsFile(s, files[s][n])
         /\ turn[s] = 1 => log[s] = Owed(prog, k - 1)
         /\ call.op # "create" => log[s] = Owed(prog, k - 1)
<1>1. Turn(s, c, m, t, u, call, k, key)
  BY DEF Writing
<1>2. /\ DOMAIN files = Servers /\ DOMAIN waiting = Servers /\ DOMAIN netcdf = Servers
      /\ s \in Servers /\ waiting[s].op = "none"
      /\ \A n \in DOMAIN files[s] : IsFile(s, files[s][n])
  BY <1>1, TurnIs
<1>3. ServerOk(s, IF turn[s] = 1 THEN t ELSE u, files[s], requests[s], waiting[s])
  BY <1>1 DEF Turn, Handles
<1>4. turn[s] = 1 => DOMAIN t.nc \subseteq DOMAIN files[s]
  BY <1>3 DEF ServerOk, FilesOk
<1>5. turn[s] # 1 => DOMAIN u.nc \subseteq DOMAIN files[s]
  BY <1>3 DEF ServerOk, FilesOk
<1>6. QED
  BY <1>1, <1>2, <1>4, <1>5 DEF Writing

\* From the parts to the whole, when no call of the library is made at once.
LEMMA WroteIs ==
  ASSUME NEW prog, NEW s, NEW c, NEW m, NEW t, NEW u, NEW call, NEW k, NEW key,
         Writing(prog, s, c, m, t, u, call, k, key), UNCHANGED log,
         call.op # "put_att" \/ call.name = Global \/ turn'[s] # 1,
         FilesHold(prog, k, k - 1, u, files'[s], waiting'[s]),
         VarsHold(u, files'[s], netcdf'[s], waiting'[s]),
         PartsHold(s, call, key, k, files'[s], turn'[s]),
         CloseHolds(call, key, files'[s], netcdf'[s], turn'[s]),
         CallHolds(prog, k, waiting'[s]), waiting'[s].op # "enddef",
         waiting'[s].op # "none" => log[s] = Owed(prog, k - 1),
         waiting'[s].op = "none" => log[s] = Owed(prog, IF turn'[s] = 1 \/ call.op = "create" THEN k ELSE k - 1)
  PROVE  Wrote(prog, s, u, call, k, key)
<1>1. Proper(prog) /\ k \in 1..Len(prog) /\ k \in Nat \ {0} /\ call = prog[k] /\ DOMAIN log = Servers
  BY WritingIs
<1>2. PICK j : j = (IF turn'[s] = 1 /\ waiting'[s].op = "none" THEN k ELSE k - 1) /\ j \in {k - 1, k}
  OBVIOUS
<1>3. FilesHold(prog, k, j, u, files'[s], waiting'[s])
  <2>1. CASE prog[k].op # "put_att" \/ prog[k].name = Global
    BY <1>1, <1>2, <2>1, FilesAfter
  <2>2. CASE turn'[s] # 1
    BY <1>2, <2>2
  <2>3. QED
    BY <1>1, <2>1, <2>2
<1>4. LogHolds(prog, k, turn'[s], waiting'[s], log'[s])
  BY <1>1 DEF LogHolds
<1>5. Holding(prog, k, j, call, key, s, u, files'[s], netcdf'[s], waiting'[s], turn'[s], log'[s])
  BY <1>3, <1>4 DEF Holding
<1>6. QED
  BY <1>1, <1>2, <1>5 DEF Wrote

\* A file is created.
LEMMA CreateWritten ==
  ASSUME NEW prog, NEW s, NEW c, NEW m, NEW t, NEW u, NEW call, NEW k, NEW key,
         Writing(prog, s, c, m, t, u, call, k, key), IoCreate(s, c, m)
  PROVE  Wrote(prog, s, u, call, k, key)
<1>1. call.op = "create" /\ UNCHANGED <<netcdf, log>>
  BY FileOn DEF IoCreate
<1>2. /\ Turn(s, c, m, t, u, call, k, key) /\ Proper(prog) /\ k \in 1..Len(prog) /\ k \in Nat \ {0}
      /\ call = prog[k] /\ s \in Servers /\ waiting[s].op = "none"
      /\ DOMAIN files = Servers /\ DOMAIN waiting = Servers
      /\ turn[s] = 1 => log[s] = Owed(prog, k - 1)
  BY WritingIs
<1>3. TableOk(t) /\ TableOk(u) /\ Meant(t, call, k, m) /\ u = After(t, call, k)
  BY DEF Writing
<1>4. m.nc = t.open + 1 /\ m.name = call.path
  BY <1>1, <1>3 DEF Meant
<1>5. u.nc = With(t.nc, t.open + 1, [path |-> call.path, dims |-> << >>, vars |-> << >>,
                                     entries |-> With(EmptyFcn, GlobalId, NewEntry(<< >>))])
  BY <1>1, <1>3 DEF After, Created
<1>6. FilesOk(s, IF turn[s] = 1 THEN t ELSE u, files[s])
  BY <1>2 DEF Turn, Handles, ServerOk
<1>7. HasNc(s, m.nc) <=> turn[s] # 1
  <2>1. CASE turn[s] = 1
    <3>1. DOMAIN files[s] \subseteq 1..t.open
      BY <1>6, <2>1 DEF FilesOk
    <3>2. t.open \in Nat
      BY <1>3 DEF TableOk, Tables
    <3>3. QED
      BY <1>4, <2>1, <3>1, <3>2 DEF HasNc
  <2>2. CASE turn[s] # 1
    <3>1. t.open + 1 \in DOMAIN u.nc
      BY <1>5 DEF With
    <3>2. QED
      BY <1>4, <1>6, <2>2, <3>1 DEF FilesOk, HasNc
  <2>3. QED
    BY <2>1, <2>2
<1>8. CASE turn[s] # 1
  <2>1. UNCHANGED <<files, waiting>>
    BY <1>7, <1>8 DEF IoCreate
  <2>2. FilesHold(prog, k, k - 1, u, files[s], waiting[s]) /\ VarsHold(u, files[s], netcdf[s], waiting[s])
        /\ log[s] = Owed(prog, k)
    BY <1>1, <1>8 DEF Writing
  <2>3. CallHolds(prog, k, waiting'[s]) /\ PartsHold(s, call, key, k, files'[s], turn'[s])
        /\ CloseHolds(call, key, files'[s], netcdf'[s], turn'[s])
    BY <1>1, <1>2, <2>1 DEF CallHolds, PartsHold, CloseHolds
  <2>4. QED
    BY <1>1, <1>2, <2>1, <2>2, <2>3, WroteIs
<1>9. CASE turn[s] = 1
  <2>1. /\ files' = [files EXCEPT ![s] =
              With(@, m.nc, [nc_id |-> Invalid, status |-> "define", defs |-> << >>])]
        /\ waiting' = [waiting EXCEPT ![s] = [op |-> "create", path |-> m.name, nc |-> m.nc]]
    BY <1>7, <1>9 DEF IoCreate
  <2>2. /\ files'[s] = With(files[s], m.nc, [nc_id |-> Invalid, status |-> "define", defs |-> << >>])
        /\ waiting'[s] = [op |-> "create", path |-> m.name, nc |-> m.nc]
    BY <1>2, <2>1
  <2>3. PICK fs, gs, v : fs = files[s] /\ gs = files'[s] /\ v = waiting'[s]
    OBVIOUS
  <2>4. v.op = "create" /\ v.path = call.path
    BY <1>4, <2>2, <2>3
  <2>5. gs[m.nc].defs = << >> /\ gs[m.nc].status = "define"
    BY <2>2, <2>3 DEF With
  <2>6. ASSUME NEW n \in DOMAIN t.nc
        PROVE  n # m.nc /\ gs[n] = fs[n] /\ n \in DOMAIN u.nc /\ u.nc[n].path = t.nc[n].path
    <3>1. n \in DOMAIN fs
      BY <1>9, <2>3, WritingIs
    <3>2. n # m.nc
      BY <1>7, <1>9, <2>3, <3>1 DEF HasNc
    <3>3. gs[n] = fs[n]
      BY <2>2, <2>3, <3>1, <3>2 DEF With
    <3>4. n \in DOMAIN u.nc
      BY <1>5 DEF With
    <3>5. QED
      BY <3>2, <3>3, <3>4, FileOn
  <2>7. ASSUME NEW n \in DOMAIN u.nc
        PROVE  /\ Holds(prog, k, k - 1, u.nc[n].path, gs[n].defs, Unnumbered(gs, v, n))
               /\ ~Unnumbered(gs, v, n) => VarsNamed(gs[n].defs, netcdf'[s][gs[n].nc_id].vars)
    <3>1. CASE n \in DOMAIN t.nc
      <4>1. gs[n] = fs[n]
        BY <2>6, <3>1
      <4>2. Unnumbered(gs, v, n) = Unnumbered(fs, waiting[s], n)
        BY <1>2, <2>4, <4>1 DEF Unnumbered
      <4>3. /\ Holds(prog, k, k - 1, u.nc[n].path, fs[n].defs, Unnumbered(fs, waiting[s], n))
            /\ ~Unnumbered(fs, waiting[s], n) => VarsNamed(fs[n].defs, netcdf[s][fs[n].nc_id].vars)
        BY <1>1, <2>3, <2>7, <3>1, HoldsNow
      <4>4. QED
        BY <1>1, <4>1, <4>2, <4>3
    <3>2. CASE n \notin DOMAIN t.nc
      <4>1. n = m.nc /\ u.nc[n].path = call.path
        BY <2>7, <3>2, FileOn
      <4>2. Unnumbered(gs, v, n)
        BY <2>4, <2>5, <4>1 DEF Unnumbered
      <4>3. \A i \in 1..k : prog[i].op = "create" \/ prog[i].path # call.path
        <5>1. k \in DOMAIN prog
          <6>1. PICK S : prog \in Seq(S)
            BY <1>2 DEF Proper
          <6>2. QED
            BY <1>2, <6>1
        <5>2. \A j \in 1..(k - 1) : prog[j].path # prog[k].path
          BY <1>1, <1>2, <5>1 DEF Proper
        <5>3. QED
          BY <1>1, <1>2, <5>2
      <4>4. k \in Nat
        BY <1>2
      <4>5. Holds(prog, k, k - 1, call.path, << >>, TRUE)
        BY <4>3, <4>4, HoldsNone
      <4>6. QED
        BY <2>5, <4>1, <4>2, <4>5
    <3>3. QED
      BY <3>1, <3>2
  <2>8. FilesHold(prog, k, k - 1, u, files'[s], waiting'[s]) /\ VarsHold(u, files'[s], netcdf'[s], waiting'[s])
    BY <2>3, <2>7 DEF FilesHold, VarsHold
  <2>9. CallHolds(prog, k, waiting'[s]) /\ PartsHold(s, call, key, k, files'[s], turn'[s])
        /\ CloseHolds(call, key, files'[s], netcdf'[s], turn'[s])
    BY <1>1, <1>2, <2>3, <2>4 DEF CallHolds, PartsHold, CloseHolds
  <2>10. log[s] = Owed(prog, k - 1) /\ waiting'[s].op = "create"
    BY <1>2, <1>9, <2>3, <2>4
  <2>11. QED
    BY <1>1, <2>8, <2>9, <2>10, WroteIs
<1>10. QED
  BY <1>8, <1>9

\* A name that is known to the clients is known to the server, when it knows
\* what they know.
LEMMA KnownName ==
  ASSUME NEW defs, NEW D, NEW V, Matches(defs, D, V), NEW kind \in {"dim", "var"},
         NEW list, list = IF kind = "dim" THEN D ELSE V, NEW name, Has(list, name)
  PROVE  Positioned(defs, kind, Id(list, name)) # {}
<1>1. Id(list, name) \in DOMAIN list
  BY NameId
<1>2. QED
  BY <1>1 DEF Matches

\* Whether a name that is given an id is new to the server.
LEMMA NewName ==
  ASSUME NEW defs, NEW D, NEW V, Matches(defs, D, V), NEW kind \in {"dim", "var"},
         NEW list, list = (IF kind = "dim" THEN D ELSE V), NEW T, list \in Seq(T), NEW name \in T,
         NEW L2, L2 = Assign(list, name), NEW id, id = Id(L2, name)
  PROVE  Positioned(defs, kind, id) = {}
           <=> \A i \in DOMAIN defs : ~(defs[i].kind = kind /\ defs[i].name = name)
<1>1. ASSUME NEW i \in DOMAIN defs, defs[i].kind = kind
      PROVE  defs[i].id \in DOMAIN list /\ defs[i].name = list[defs[i].id]
  BY <1>1 DEF Matches
<1>2. ASSUME NEW i \in DOMAIN defs, defs[i].kind = kind, defs[i].name = name
      PROVE  Positioned(defs, kind, id) # {}
  <2>1. Has(list, name)
    BY <1>1, <1>2 DEF Has
  <2>2. L2 = list
    BY <2>1, Assigned
  <2>3. QED
    BY <2>1, <2>2, KnownName
<1>3. ASSUME NEW i \in Positioned(defs, kind, id)
      PROVE  i \in DOMAIN defs /\ defs[i].kind = kind /\ defs[i].name = name
  <2>1. i \in DOMAIN defs /\ defs[i].kind = kind /\ defs[i].id = id
    BY DEF Positioned
  <2>2. id \in DOMAIN list /\ defs[i].name = list[id]
    BY <1>1, <2>1
  <2>3. Has(list, name)
    <3>1. ASSUME ~Has(list, name) PROVE FALSE
      <4>1. id = Len(list) + 1
        BY <3>1, Assigned
      <4>2. DOMAIN list = 1..Len(list) /\ Len(list) \in Nat
        OBVIOUS
      <4>3. QED
        BY <2>2, <4>1, <4>2
    <3>2. QED
      BY <3>1
  <2>4. L2 = list
    BY <2>3, Assigned
  <2>5. list[id] = name
    BY <2>3, <2>4, NameId
  <2>6. QED
    BY <2>1, <2>2, <2>5
<1>4. QED
  BY <1>2, <1>3

(* None of the definitions has the name of the k-th call. *)
Unnamed(prog, k, defs) == \A i \in DOMAIN defs : ~(defs[i].kind = KindOf(prog[k].op) /\ defs[i].name = prog[k].name)

\* The first definition of a name of the program is the first on the server.
LEMMA FirstOfName ==
  ASSUME NEW prog, NEW k \in Nat \ {0}, NEW p, NEW j, NEW defs, NEW raw, Holds(prog, k - 1, j, p, defs, raw),
         prog[k].op \in {"def_dim", "def_var"}, prog[k].path = p
  PROVE  k \in FirstBy(prog, k, p) <=> Unnamed(prog, k, defs)
<1>1. FirstGrows(prog, k, p)
  BY FirstNext
<1>2. PICK F : F = FirstBy(prog, k - 1, p)
  OBVIOUS
<1>3. PICK fd : fd = InOrder(F)
  OBVIOUS
<1>4. k - 1 \in Nat
  OBVIOUS
<1>5. /\ \A x \in DOMAIN fd : fd[x] \in F /\ prog[fd[x]].op \in {"def_dim", "def_var"}
      /\ \A i \in F : \E x \in DOMAIN fd : fd[x] = i
  BY <1>2, <1>3, <1>4, Firsts
<1>6. DOMAIN defs = DOMAIN fd
      /\ \A x \in DOMAIN fd : defs[x].kind = KindOf(prog[fd[x]].op) /\ defs[x].name = prog[fd[x]].name
  BY <1>2, <1>3 DEF Holds, NamedBy
<1>7. k \in FirstBy(prog, k, p) <=> \A i \in F : ~(prog[i].op = prog[k].op /\ prog[i].name = prog[k].name)
  BY <1>1, <1>2 DEF FirstGrows
<1>8. \A x \in DOMAIN fd : KindOf(prog[fd[x]].op) = KindOf(prog[k].op) <=> prog[fd[x]].op = prog[k].op
  BY <1>5 DEF KindOf
<1>9. (\A i \in F : ~(prog[i].op = prog[k].op /\ prog[i].name = prog[k].name))
        <=> \A x \in DOMAIN fd : ~(prog[fd[x]].op = prog[k].op /\ prog[fd[x]].name = prog[k].name)
  BY <1>5
<1>10. QED
  BY <1>6, <1>7, <1>8, <1>9 DEF Unnamed

\* A definition is made with the first message of the first call for a name.
LEMMA DefWritten ==
  ASSUME NEW prog, NEW s, NEW c, NEW m, NEW t, NEW u, NEW call, NEW k, NEW key,
         Writing(prog, s, c, m, t, u, call, k, key), call.op \in {"def_dim", "def_var"},
         UNCHANGED <<waiting, netcdf, log>>,
         IF turn[s] = 1 /\ k \in FirstBy(prog, k, call.path)
           THEN \E d : /\ MadeBy(prog, k, files[s][m.nc].defs, d)
                       /\ files' = [files EXCEPT ![s][m.nc].defs = Append(@, d)]
           ELSE UNCHANGED files
  PROVE  Wrote(prog, s, u, call, k, key)
<1>1. /\ Turn(s, c, m, t, u, call, k, key) /\ Proper(prog) /\ k \in 1..Len(prog) /\ k \in Nat \ {0}
      /\ call = prog[k] /\ s \in Servers /\ waiting[s].op = "none"
      /\ DOMAIN files = Servers /\ log[s] = Owed(prog, k - 1)
      /\ \A n \in DOMAIN files[s] : IsFile(s, files[s][n])
  BY WritingIs
<1>2. DOMAIN u.nc = DOMAIN t.nc /\ m.nc \in DOMAIN t.nc /\ t.nc[m.nc].path = call.path
      /\ u.nc[m.nc].path = call.path
  BY FileOn
<1>3. m.nc \in DOMAIN files[s] /\ files[s][m.nc].status = "define"
  BY <1>1 DEF Turn
<1>4. PICK fs, gs, w, p : fs = files[s] /\ gs = files'[s] /\ w = waiting[s] /\ p = call.path
  OBVIOUS
<1>5. \A n \in DOMAIN fs : n # m.nc \/ turn[s] # 1 => gs[n] = fs[n]
  <2>1. CASE UNCHANGED files
    BY <1>4, <2>1
  <2>2. CASE turn[s] = 1 /\ k \in FirstBy(prog, k, call.path)
    <3>1. PICK d : files' = [files EXCEPT ![s][m.nc].defs = Append(@, d)]
      BY <2>2
    <3>2. QED
      BY <1>1, <1>4, <2>2, <3>1
  <2>3. QED
    BY <2>1, <2>2
<1>6. ASSUME NEW n \in DOMAIN u.nc, n # m.nc \/ turn[s] # 1
      PROVE  /\ Holds(prog, k, k - 1, u.nc[n].path, gs[n].defs, Unnumbered(gs, w, n))
             /\ ~Unnumbered(gs, w, n) => VarsNamed(gs[n].defs, netcdf[s][gs[n].nc_id].vars)
  <2>1. n \in DOMAIN fs
    BY <1>2, <1>4, <1>6, WritingIs
  <2>2. gs[n] = fs[n]
    BY <1>5, <1>6, <2>1
  <2>3. Unnumbered(gs, w, n) = Unnumbered(fs, w, n)
    BY <2>2 DEF Unnumbered
  <2>4. /\ Holds(prog, k, k - 1, u.nc[n].path, fs[n].defs, Unnumbered(fs, w, n))
        /\ ~Unnumbered(fs, w, n) => VarsNamed(fs[n].defs, netcdf[s][fs[n].nc_id].vars)
    BY <1>2, <1>4, <1>6, HoldsNow
  <2>5. QED
    BY <2>2, <2>3, <2>4
<1>7. ASSUME turn[s] = 1
      PROVE  Holds(prog, k, k - 1, p, gs[m.nc].defs, TRUE) /\ Unnumbered(gs, w, m.nc)
  <2>1. Unnumbered(fs, w, m.nc)
    BY <1>1, <1>3, <1>4 DEF Unnumbered
  <2>2. Holds(prog, k - 1, k - 1, p, fs[m.nc].defs, TRUE)
    <3>1. FilesHold(prog, k - 1, k - 1, t, fs, w)
      BY <1>4, <1>7 DEF Writing
    <3>2. Holds(prog, k - 1, k - 1, t.nc[m.nc].path, fs[m.nc].defs, Unnumbered(fs, w, m.nc))
      BY <1>2, <3>1 DEF FilesHold
    <3>3. Unnumbered(fs, w, m.nc) = TRUE
      BY <2>1 DEF Unnumbered
    <3>4. QED
      BY <1>2, <1>4, <3>2, <3>3
  <2>3. CASE k \in FirstBy(prog, k, call.path)
    <3>1. PICK d : /\ MadeBy(prog, k, fs[m.nc].defs, d)
                   /\ files' = [files EXCEPT ![s][m.nc].defs = Append(@, d)]
      BY <1>4, <1>7, <2>3
    <3>2. IsFile(s, fs[m.nc])
      BY <1>1, <1>3, <1>4
    <3>3. PICK T : fs[m.nc].defs \in Seq(T)
      BY <3>2 DEF IsFile
    <3>4. DOMAIN fs[m.nc] = {"nc_id", "status", "defs"}
      BY <3>2 DEF IsFile, FileFields
    <3>5. gs[m.nc].defs = Append(fs[m.nc].defs, d) /\ gs[m.nc].status = fs[m.nc].status
      BY <1>1, <1>3, <1>4, <3>1, <3>4
    <3>6. PICK defs : defs = fs[m.nc].defs
      OBVIOUS
    <3>7. Holds(prog, k, k - 1, p, Append(defs, d), TRUE)
      BY <1>1, <1>4, <2>2, <2>3, <3>1, <3>3, <3>6, HoldsDef
    <3>8. QED
      BY <2>1, <3>5, <3>6, <3>7 DEF Unnumbered
  <2>4. CASE k \notin FirstBy(prog, k, call.path)
    <3>1. gs = fs
      BY <1>4, <2>4
    <3>2. QED
      BY <1>1, <1>4, <2>1, <2>2, <2>4, <3>1, HoldsStill
  <2>5. QED
    BY <2>3, <2>4
<1>8. ASSUME NEW n \in DOMAIN u.nc
      PROVE  /\ Holds(prog, k, k - 1, u.nc[n].path, gs[n].defs, Unnumbered(gs, w, n))
             /\ ~Unnumbered(gs, w, n) => VarsNamed(gs[n].defs, netcdf[s][gs[n].nc_id].vars)
  <2>1. CASE n # m.nc \/ turn[s] # 1
    BY <1>6, <2>1
  <2>2. CASE n = m.nc /\ turn[s] = 1
    <3>1. Unnumbered(gs, w, n) = TRUE
      BY <1>7, <2>2 DEF Unnumbered
    <3>2. u.nc[n].path = p
      BY <1>2, <1>4, <2>2
    <3>3. QED
      BY <1>7, <2>2, <3>1, <3>2
  <2>3. QED
    BY <2>1, <2>2
<1>9. FilesHold(prog, k, k - 1, u, files'[s], waiting'[s]) /\ VarsHold(u, files'[s], netcdf'[s], waiting'[s])
  BY <1>4, <1>8 DEF FilesHold, VarsHold
<1>10. CallHolds(prog, k, waiting'[s]) /\ PartsHold(s, call, key, k, files'[s], turn'[s])
       /\ CloseHolds(call, key, files'[s], netcdf'[s], turn'[s])
  BY <1>1 DEF CallHolds, PartsHold, CloseHolds
<1>11. Owed(prog, k) = Owed(prog, k - 1)
  BY <1>1, OwedStill
<1>12. /\ log[s] = Owed(prog, IF turn'[s] = 1 \/ call.op = "create" THEN k ELSE k - 1)
       /\ call.op # "put_att" /\ waiting'[s].op = "none"
  BY <1>1, <1>11
<1>13. QED
  BY <1>9, <1>10, <1>12, WroteIs

(* The names of one kind that a client knows of a file. *)
NamesIn(tab, n, kind) == IF kind = "dim" THEN tab.nc[n].dims ELSE tab.nc[n].vars

\* A server defines the name of a call with its first message, if it is new.
LEMMA NewOnServer ==
  ASSUME NEW prog, NEW s, NEW c, NEW m, NEW t, NEW u, NEW call, NEW k, NEW key,
         Writing(prog, s, c, m, t, u, call, k, key), call.op \in {"def_dim", "def_var"},
         NEW kind, kind = KindOf(call.op), NEW T, NamesIn(t, m.nc, kind) \in Seq(T), call.name \in T,
         NamesIn(u, m.nc, kind) = Assign(NamesIn(t, m.nc, kind), call.name),
         m.id = Id(NamesIn(u, m.nc, kind), call.name)
  PROVE  /\ HasNc(s, m.nc) /\ IsFile(s, files[s][m.nc])
         /\ HasDef(s, m.nc, kind, m.id) <=> Positioned(files[s][m.nc].defs, kind, m.id) # {}
         /\ HasDef(s, m.nc, kind, m.id) <=> ~(turn[s] = 1 /\ k \in FirstBy(prog, k, call.path))
         /\ turn[s] = 1 => /\ Matches(files[s][m.nc].defs, t.nc[m.nc].dims, t.nc[m.nc].vars)
                           /\ Holds(prog, k - 1, k - 1, call.path, files[s][m.nc].defs,
                                    Unnumbered(files[s], waiting[s], m.nc))
<1>1. /\ Turn(s, c, m, t, u, call, k, key) /\ k \in Nat \ {0} /\ call = prog[k]
      /\ \A n \in DOMAIN files[s] : IsFile(s, files[s][n])
  BY WritingIs
<1>2. m.nc \in DOMAIN t.nc /\ m.nc \in DOMAIN u.nc /\ t.nc[m.nc].path = call.path
  BY FileOn
<1>3. m.nc \in DOMAIN files[s]
  BY <1>1 DEF Turn
<1>4. FilesOk(s, IF turn[s] = 1 THEN t ELSE u, files[s])
  BY <1>1 DEF Turn, Handles, ServerOk
<1>5. PICK defs, L, L2, D, V, D2, V2, name, id :
        /\ defs = files[s][m.nc].defs /\ L = NamesIn(t, m.nc, kind) /\ L2 = NamesIn(u, m.nc, kind)
        /\ D = t.nc[m.nc].dims /\ V = t.nc[m.nc].vars /\ D2 = u.nc[m.nc].dims /\ V2 = u.nc[m.nc].vars
        /\ name = call.name /\ id = m.id
  OBVIOUS
<1>6. /\ L = (IF kind = "dim" THEN D ELSE V) /\ L2 = (IF kind = "dim" THEN D2 ELSE V2)
      /\ L \in Seq(T) /\ name \in T /\ L2 = Assign(L, name) /\ id = Id(L2, name)
  BY <1>5 DEF NamesIn
<1>7. kind \in {"dim", "var"}
  BY DEF KindOf
<1>8. HasDef(s, m.nc, kind, m.id) <=> Positioned(defs, kind, id) # {}
  BY <1>3, <1>5 DEF HasDef, HasNc
<1>9. turn[s] = 1 =>
         /\ Matches(defs, D, V)
         /\ Holds(prog, k - 1, k - 1, call.path, defs, Unnumbered(files[s], waiting[s], m.nc))
  <2>1. ASSUME turn[s] = 1
        PROVE  FilesHold(prog, k - 1, k - 1, t, files[s], waiting[s]) /\ FilesOk(s, t, files[s])
    BY <1>4, <2>1 DEF Writing
  <2>2. QED
    BY <1>2, <1>5, <2>1 DEF FilesHold, FilesOk
<1>10. CASE turn[s] = 1
  <2>1. PICK raw : raw = Unnumbered(files[s], waiting[s], m.nc)
    OBVIOUS
  <2>2. Matches(defs, D, V) /\ Holds(prog, k - 1, k - 1, call.path, defs, raw)
    BY <1>9, <1>10, <2>1
  <2>3. Positioned(defs, kind, id) = {} <=> \A i \in DOMAIN defs : ~(defs[i].kind = kind /\ defs[i].name = name)
    BY <1>6, <1>7, <2>2, NewName
  <2>4. k \in FirstBy(prog, k, call.path)
          <=> \A i \in DOMAIN defs : ~(defs[i].kind = kind /\ defs[i].name = name)
    <3>1. prog[k].op \in {"def_dim", "def_var"} /\ prog[k].path = call.path
      BY <1>1
    <3>2. k \in FirstBy(prog, k, call.path)
            <=> \A i \in DOMAIN defs : ~(defs[i].kind = KindOf(prog[k].op) /\ defs[i].name = prog[k].name)
      <4>1. PICK p, j : p = call.path /\ j = k - 1
        OBVIOUS
      <4>2. Holds(prog, k - 1, j, p, defs, raw)
        BY <2>2, <4>1
      <4>3. k \in Nat \ {0} /\ prog[k].op \in {"def_dim", "def_var"} /\ prog[k].path = p
        BY <1>1, <3>1, <4>1
      <4>4. k \in FirstBy(prog, k, p) <=> Unnamed(prog, k, defs)
        BY <4>2, <4>3, FirstOfName
      <4>5. QED
        BY <4>1, <4>4 DEF Unnamed
    <3>3. KindOf(prog[k].op) = kind /\ prog[k].name = name
      BY <1>1, <1>5
    <3>4. QED
      BY <3>2, <3>3
  <2>5. QED
    BY <1>1, <1>3, <1>5, <1>8, <1>9, <1>10, <2>3, <2>4 DEF HasNc
<1>11. CASE turn[s] # 1
  <2>1. Matches(defs, D2, V2)
    BY <1>2, <1>4, <1>5, <1>11 DEF FilesOk
  <2>2. Has(L2, name)
    <3>1. L \in Seq(T) /\ name \in T
      BY <1>6
    <3>2. Has(Assign(L, name), name)
      BY <3>1, Assigned
    <3>3. QED
      BY <1>6, <3>2
  <2>3. Positioned(defs, kind, id) # {}
    BY <1>6, <1>7, <2>1, <2>2, KnownName
  <2>4. QED
    BY <1>1, <1>3, <1>5, <1>8, <1>11, <2>3 DEF HasNc
<1>12. QED
  BY <1>10, <1>11

\* A dimension is defined.
LEMMA DimWritten ==
  ASSUME NEW prog, NEW s, NEW c, NEW m, NEW t, NEW u, NEW call, NEW k, NEW key,
         Writing(prog, s, c, m, t, u, call, k, key), IoDefDim(s, c, m)
  PROVE  Wrote(prog, s, u, call, k, key)
<1>1. /\ call.op = "def_dim" /\ TableOk(t) /\ Fits(t, call) /\ u = After(t, call, k)
      /\ Meant(t, call, k, m) /\ k \in Nat
  <2>1. m.op = call.op /\ k \in Nat
    BY FileOn
  <2>2. m.op = "def_dim"
    BY DEF IoDefDim
  <2>3. QED
    BY <2>1, <2>2 DEF Writing
<1>2. m.nc = NcOf(t, call.path) /\ m.nc \in DOMAIN t.nc
  BY <1>1, FileOn DEF Meant
<1>3. u.nc[m.nc].dims = Assign(t.nc[m.nc].dims, call.name)
  BY <1>1, <1>2, DimAfter
<1>4. m.name = call.name /\ m.id = Id(u.nc[m.nc].dims, call.name) /\ call.name \in DimNames
  BY <1>1, <1>2, <1>3 DEF Meant, Fits
<1>5. t.nc[m.nc].dims \in Seq(DimNames)
  BY <1>1, <1>2, OpenTyped DEF TableOk
<1>6. PICK kind : kind = "dim" /\ kind = KindOf(call.op)
  BY <1>1 DEF KindOf
<1>7. /\ NamesIn(t, m.nc, kind) \in Seq(DimNames)
      /\ NamesIn(u, m.nc, kind) = Assign(NamesIn(t, m.nc, kind), call.name)
      /\ m.id = Id(NamesIn(u, m.nc, kind), call.name)
  BY <1>3, <1>4, <1>5, <1>6 DEF NamesIn
<1>8. /\ HasNc(s, m.nc)
      /\ HasDef(s, m.nc, kind, m.id) <=> Positioned(files[s][m.nc].defs, kind, m.id) # {}
      /\ HasDef(s, m.nc, kind, m.id) <=> ~(turn[s] = 1 /\ k \in FirstBy(prog, k, call.path))
  BY <1>1, <1>4, <1>6, <1>7, NewOnServer
<1>9. PICK d : d = [kind |-> "dim", id |-> m.id, name |-> m.name, dims |-> << >>,
                    nc |-> Invalid, atts |-> << >>, parts |-> EmptyFcn]
  OBVIOUS
<1>10. d.kind = kind /\ d.id = m.id /\ d.name = call.name /\ d.atts = << >>
  BY <1>4, <1>6, <1>9
<1>11. CASE turn[s] = 1 /\ k \in FirstBy(prog, k, call.path)
  <2>1. files' = [files EXCEPT ![s][m.nc].defs = Append(@, d)]
    BY <1>6, <1>8, <1>9, <1>11 DEF IoDefDim, MapDef
  <2>2. Positioned(files[s][m.nc].defs, d.kind, d.id) = {}
    BY <1>8, <1>10, <1>11
  <2>3. call = prog[k]
    BY WritingIs
  <2>4. MadeBy(prog, k, files[s][m.nc].defs, d)
    BY <1>6, <1>10, <2>2, <2>3 DEF MadeBy
  <2>5. QED
    BY <1>1, <1>11, <2>1, <2>4, DefWritten DEF IoDefDim
<1>12. CASE ~(turn[s] = 1 /\ k \in FirstBy(prog, k, call.path))
  <2>1. UNCHANGED files
    BY <1>6, <1>8, <1>12 DEF IoDefDim
  <2>2. QED
    BY <1>1, <1>12, <2>1, DefWritten DEF IoDefDim
<1>13. QED
  BY <1>11, <1>12

\* A dimension of the clients is found on the server, at one place.
LEMMA DimFound ==
  ASSUME NEW prog, NEW k \in Nat, NEW j, NEW p, NEW defs, NEW raw, Holds(prog, k, j, p, defs, raw),
         NEW D, NEW V, Matches(defs, D, V), NEW name, Has(D, name), NEW id, id = Id(D, name)
  PROVE  \E y \in DOMAIN defs : Positioned(defs, "dim", id) = {y} /\ defs[y].name = name
<1>1. id \in DOMAIN D /\ D[id] = name
  BY NameId
<1>2. Positioned(defs, "dim", id) # {}
  BY <1>1 DEF Matches
<1>3. ASSUME NEW y \in Positioned(defs, "dim", id)
      PROVE  y \in DOMAIN defs /\ defs[y].kind = "dim" /\ defs[y].name = name
  <2>1. y \in DOMAIN defs /\ defs[y].kind = "dim" /\ defs[y].id = id
    BY DEF Positioned
  <2>2. defs[y].name = D[id]
    BY <2>1 DEF Matches
  <2>3. QED
    BY <1>1, <2>1, <2>2
<1>4. PICK fd : fd = InOrder(FirstBy(prog, k, p))
  OBVIOUS
<1>5. NamedBy(prog, fd, defs)
  BY <1>4 DEF Holds
<1>6. \A x \in DOMAIN fd : prog[fd[x]].op \in {"def_dim", "def_var"}
  BY <1>4, Firsts
<1>7. ASSUME NEW x \in Positioned(defs, "dim", id), NEW y \in Positioned(defs, "dim", id)
      PROVE  x = y
  <2>1. x \in DOMAIN fd /\ y \in DOMAIN fd
    BY <1>3, <1>5 DEF NamedBy
  <2>2. /\ KindOf(prog[fd[x]].op) = "dim" /\ KindOf(prog[fd[y]].op) = "dim"
        /\ prog[fd[x]].name = name /\ prog[fd[y]].name = name
    BY <1>3, <1>5, <2>1 DEF NamedBy
  <2>3. prog[fd[x]].op = prog[fd[y]].op
    BY <1>6, <2>1, <2>2 DEF KindOf
  <2>4. QED
    BY <1>4, <2>1, <2>2, <2>3, FirstOnly
<1>8. QED
  BY <1>2, <1>3, <1>7

\* A variable is defined.
LEMMA VarWritten ==
  ASSUME NEW prog, NEW s, NEW c, NEW m, NEW t, NEW u, NEW call, NEW k, NEW key,
         Writing(prog, s, c, m, t, u, call, k, key), IoDefVar(s, c, m)
  PROVE  Wrote(prog, s, u, call, k, key)
<1>1. /\ call.op = "def_var" /\ TableOk(t) /\ Fits(t, call) /\ u = After(t, call, k)
      /\ Meant(t, call, k, m) /\ k \in Nat
  <2>1. m.op = call.op /\ k \in Nat
    BY FileOn
  <2>2. m.op = "def_var"
    BY DEF IoDefVar
  <2>3. QED
    BY <2>1, <2>2 DEF Writing
<1>2. m.nc = NcOf(t, call.path) /\ m.nc \in DOMAIN t.nc
  BY <1>1, FileOn DEF Meant
<1>3. u.nc[m.nc].vars = Assign(t.nc[m.nc].vars, call.name)
  BY <1>1, <1>2, VarAfter
<1>4. m.name = call.name /\ m.id = Id(u.nc[m.nc].vars, call.name) /\ m.dims = DimIds(t, call)
  BY <1>1, <1>2, <1>3 DEF Meant
<1>5. t.nc[m.nc].vars \in Seq(VarNames) /\ call.name \in VarNames
  BY <1>1, <1>2, OpenTyped DEF TableOk, Fits
<1>6. PICK kind : kind = "var" /\ kind = KindOf(call.op)
  BY <1>1 DEF KindOf
<1>7. /\ NamesIn(t, m.nc, kind) \in Seq(VarNames)
      /\ NamesIn(u, m.nc, kind) = Assign(NamesIn(t, m.nc, kind), call.name)
      /\ m.id = Id(NamesIn(u, m.nc, kind), call.name)
  BY <1>3, <1>4, <1>5, <1>6 DEF NamesIn
<1>8. /\ HasNc(s, m.nc)
      /\ HasDef(s, m.nc, kind, m.id) <=> Positioned(files[s][m.nc].defs, kind, m.id) # {}
      /\ HasDef(s, m.nc, kind, m.id) <=> ~(turn[s] = 1 /\ k \in FirstBy(prog, k, call.path))
      /\ turn[s] = 1 => /\ Matches(files[s][m.nc].defs, t.nc[m.nc].dims, t.nc[m.nc].vars)
                        /\ Holds(prog, k - 1, k - 1, call.path, files[s][m.nc].defs,
                                 Unnumbered(files[s], waiting[s], m.nc))
  BY <1>1, <1>5, <1>6, <1>7, NewOnServer
<1>9. PICK d : d = [kind |-> "var", id |-> m.id, name |-> m.name, dims |-> m.dims,
                    nc |-> Invalid, atts |-> << >>, parts |-> [e \in Members(s) |-> 0]]
  OBVIOUS
<1>10. d.kind = kind /\ d.id = m.id /\ d.name = call.name /\ d.atts = << >> /\ d.dims = DimIds(t, call)
  BY <1>4, <1>6, <1>9
<1>11. CASE turn[s] = 1 /\ k \in FirstBy(prog, k, call.path)
  <2>1. PICK defs, raw, D, V :
          /\ defs = files[s][m.nc].defs /\ raw = Unnumbered(files[s], waiting[s], m.nc)
          /\ D = t.nc[m.nc].dims /\ V = t.nc[m.nc].vars
    OBVIOUS
  <2>2. Matches(defs, D, V) /\ Holds(prog, k - 1, k - 1, call.path, defs, raw)
    BY <1>8, <1>11, <2>1
  <2>3. DimIds(t, call) = [i \in DOMAIN call.dims |-> Id(D, call.dims[i])]
    BY <1>2, <2>1 DEF DimIds
  <2>4. call = prog[k] /\ k - 1 \in Nat
    BY WritingIs
  <2>5. ASSUME NEW i \in DOMAIN call.dims
        PROVE  /\ d.dims[i] = Id(D, call.dims[i])
               /\ \E y \in DOMAIN defs : Positioned(defs, "dim", d.dims[i]) = {y} /\ defs[y].name = call.dims[i]
    <3>1. Has(D, call.dims[i])
      BY <1>1, <1>2, <2>1 DEF Fits
    <3>2. d.dims[i] = Id(D, call.dims[i])
      BY <1>10, <2>3
    <3>3. PICK id, name, j : id = d.dims[i] /\ name = call.dims[i] /\ j = k - 1
      OBVIOUS
    <3>4. \E y \in DOMAIN defs : Positioned(defs, "dim", id) = {y} /\ defs[y].name = name
      BY <2>2, <2>4, <3>1, <3>2, <3>3, DimFound
    <3>5. QED
      BY <3>2, <3>3, <3>4
  <2>6. DOMAIN d.dims = DOMAIN call.dims
    BY <1>10, <2>3
  <2>7. \A i \in DOMAIN m.dims : HasDef(s, m.nc, "dim", m.dims[i])
    <3>1. m.dims = d.dims
      BY <1>9
    <3>2. QED
      BY <1>8, <2>1, <2>5, <2>6, <3>1 DEF HasDef
  <2>8. files' = [files EXCEPT ![s][m.nc].defs = Append(@, d)]
    BY <1>6, <1>8, <1>9, <1>11, <2>7 DEF IoDefVar, MapDef
  <2>9. Positioned(defs, d.kind, d.id) = {}
    BY <1>8, <1>10, <1>11, <2>1
  <2>10. MadeBy(prog, k, defs, d)
    BY <1>6, <1>10, <2>4, <2>5, <2>6, <2>9 DEF MadeBy
  <2>11. QED
    BY <1>1, <1>11, <2>1, <2>8, <2>10, DefWritten DEF IoDefVar
<1>12. CASE ~(turn[s] = 1 /\ k \in FirstBy(prog, k, call.path))
  <2>1. UNCHANGED files
    BY <1>6, <1>8, <1>12 DEF IoDefVar
  <2>2. QED
    BY <1>1, <1>12, <2>1, DefWritten DEF IoDefVar
<1>13. QED
  BY <1>11, <1>12

\* The calls that do not define find the files as the first k - 1 left them.
LEMMA HoldsAll ==
  ASSUME NEW prog, NEW s, NEW c, NEW m, NEW t, NEW u, NEW call, NEW k, NEW key,
         Writing(prog, s, c, m, t, u, call, k, key), call.op \in {"put_att", "put_vara", "enddef", "close"}
  PROVE  /\ DOMAIN u.nc \subseteq DOMAIN t.nc /\ DOMAIN u.nc \subseteq DOMAIN files[s]
         /\ FilesHold(prog, k, k - 1, u, files[s], waiting[s])
         /\ VarsHold(u, files[s], netcdf[s], waiting[s])
<1>1. DOMAIN u.nc \subseteq DOMAIN t.nc
  BY FileOn
<1>2. DOMAIN u.nc \subseteq DOMAIN files[s]
  BY <1>1, WritingIs
<1>3. ASSUME NEW n \in DOMAIN u.nc
      PROVE  /\ Holds(prog, k, k - 1, u.nc[n].path, files[s][n].defs, Unnumbered(files[s], waiting[s], n))
             /\ ~Unnumbered(files[s], waiting[s], n) =>
                  VarsNamed(files[s][n].defs, netcdf[s][files[s][n].nc_id].vars)
  BY <1>1, HoldsNow
<1>4. QED
  BY <1>1, <1>2, <1>3 DEF FilesHold, VarsHold

\* A file is to be closed.
LEMMA CloseWritten ==
  ASSUME NEW prog, NEW s, NEW c, NEW m, NEW t, NEW u, NEW call, NEW k, NEW key,
         Writing(prog, s, c, m, t, u, call, k, key), IoClose(s, c, m)
  PROVE  Wrote(prog, s, u, call, k, key)
<1>1. call.op = "close" /\ UNCHANGED <<files, netcdf, log>>
  BY FileOn DEF IoClose
<1>2. /\ Turn(s, c, m, t, u, call, k, key) /\ Proper(prog) /\ k \in 1..Len(prog) /\ k \in Nat \ {0}
      /\ call = prog[k] /\ s \in Servers /\ waiting[s].op = "none" /\ DOMAIN waiting = Servers
      /\ log[s] = Owed(prog, k - 1)
  BY <1>1, WritingIs
<1>3. FilesHold(prog, k, k - 1, u, files[s], waiting[s]) /\ VarsHold(u, files[s], netcdf[s], waiting[s])
  BY <1>1, HoldsAll
<1>4. m.nc \in DOMAIN files[s] /\ key = Key(m) /\ key[2] = m.nc
  BY <1>1, <1>2 DEF Turn, Noting, Key
<1>5. Full(s, Received(s, c, m)) <=> turn[s] = Len(Group[s])
  BY <1>1, <1>2, FullAtLast DEF Noting
<1>6. PICK nd, id : nd = netcdf[s] /\ id = files[s][m.nc].nc_id
  OBVIOUS
<1>7. id # Invalid
  BY <1>2, <1>4, <1>6, TurnIs
<1>8. nd[id].path = call.path
  <2>1. CASE turn[s] = 1
    <3>1. LibraryOk(t, files[s], netcdf[s], waiting[s])
      BY <1>2, <2>1 DEF Turn
    <3>2. m.nc \in DOMAIN t.nc /\ t.nc[m.nc].path = call.path
      BY <1>1, FileOn
    <3>3. ~Creating(waiting[s], m.nc)
      BY <1>2 DEF Creating
    <3>4. QED
      BY <1>6, <3>1, <3>2, <3>3 DEF LibraryOk
  <2>2. CASE turn[s] # 1
    <3>1. CloseHolds(call, key, files[s], netcdf[s], turn[s])
      BY DEF Writing
    <3>2. QED
      BY <1>1, <1>4, <1>6, <2>2, <3>1 DEF CloseHolds
  <2>3. QED
    BY <2>1, <2>2
<1>9. PICK v : v = waiting'[s]
  OBVIOUS
<1>10. /\ v.op \in {"none", "close"}
       /\ v.op # "none" => v.path = call.path
       /\ turn[s] = Len(Group[s]) => v.op = "close"
  <2>1. CASE turn[s] = Len(Group[s])
    <3>1. v = [op |-> "close", path |-> netcdf[s][id].path, nc |-> m.nc, key |-> Key(m), id |-> id]
      BY <1>2, <1>4, <1>5, <1>6, <1>7, <1>9, <2>1 DEF IoClose, HasNc
    <3>2. QED
      BY <1>6, <1>8, <3>1
  <2>2. CASE turn[s] # Len(Group[s])
    <3>1. v = waiting[s]
      BY <1>2, <1>5, <1>9, <2>2 DEF IoClose
    <3>2. QED
      BY <1>2, <2>2, <3>1
  <2>3. QED
    BY <2>1, <2>2
<1>11. CallHolds(prog, k, v) /\ PartsHold(s, call, key, k, files'[s], turn'[s])
       /\ CloseHolds(call, key, files'[s], netcdf'[s], turn'[s])
  BY <1>1, <1>2, <1>4, <1>6, <1>8, <1>10 DEF CallHolds, PartsHold, CloseHolds
<1>12. \A n : Unnumbered(files'[s], v, n) = Unnumbered(files[s], waiting[s], n)
  BY <1>1, <1>2, <1>10 DEF Unnumbered
<1>13. FilesHold(prog, k, k - 1, u, files'[s], v) /\ VarsHold(u, files'[s], netcdf'[s], v)
  BY <1>1, <1>3, <1>12 DEF FilesHold, VarsHold
<1>14. turn'[s] = 1 => v.op # "none"
  BY <1>2, <1>10, TurnIs
<1>15. QED
  BY <1>1, <1>2, <1>9, <1>10, <1>11, <1>13, <1>14, WroteIs

\* What an attribute is put to, at the server.
LEMMA AttIs ==
  ASSUME NEW prog, NEW s, NEW c, NEW m, NEW t, NEW u, NEW call, NEW k, NEW key,
         Writing(prog, s, c, m, t, u, call, k, key), call.op = "put_att"
  PROVE  /\ m.id = GlobalId <=> call.name = Global
         /\ m.data[1] = k /\ m.nc \in DOMAIN u.nc /\ u.nc[m.nc].path = call.path
         /\ m.nc \in DOMAIN files[s] /\ files[s][m.nc].status = "define"
         /\ netcdf[s][files[s][m.nc].nc_id].path = call.path
         /\ InDefineMode(s, files[s][m.nc].nc_id)
         /\ m.id # GlobalId =>
              /\ HasDef(s, m.nc, "var", m.id)
              /\ DefAt(s, m.nc, "var", m.id) \in DOMAIN files[s][m.nc].defs
              /\ files[s][m.nc].defs[DefAt(s, m.nc, "var", m.id)].kind = "var"
              /\ files[s][m.nc].defs[DefAt(s, m.nc, "var", m.id)].name = call.name
<1>1. /\ Turn(s, c, m, t, u, call, k, key) /\ s \in Servers /\ waiting[s].op = "none" /\ k \in Nat
  BY WritingIs
<1>2. /\ TableOk(t) /\ Fits(t, call) /\ u = After(t, call, k) /\ Meant(t, call, k, m)
  BY DEF Writing
<1>3. /\ DOMAIN u.nc = DOMAIN t.nc /\ m.nc \in DOMAIN t.nc /\ t.nc[m.nc].path = call.path
      /\ u.nc[m.nc].path = call.path
  BY FileOn
<1>4. \A n \in DOMAIN t.nc : u.nc[n].dims = t.nc[n].dims /\ u.nc[n].vars = t.nc[n].vars
  BY <1>1, <1>2, AttAfter
<1>5. m.nc = NcOf(t, call.path) /\ m.id = VarOf(t, m.nc, call.name) /\ m.data = <<k>>
  BY <1>2 DEF Meant
<1>6. PICK D, V : D = t.nc[m.nc].dims /\ V = t.nc[m.nc].vars /\ V \in Seq(VarNames)
  BY <1>2, <1>3, OpenTyped DEF TableOk
<1>7. call.name # Global => m.id \in DOMAIN V /\ V[m.id] = call.name
  <2>1. ASSUME call.name # Global PROVE Has(V, call.name) /\ m.id = Id(V, call.name)
    BY <1>2, <1>5, <1>6, <2>1 DEF Fits, VarOf
  <2>2. QED
    BY <2>1, NameId
<1>8. m.id = GlobalId <=> call.name = Global
  <2>1. call.name = Global => m.id = GlobalId
    BY <1>5 DEF VarOf
  <2>2. DOMAIN V = 1..Len(V) /\ Len(V) \in Nat
    BY <1>6
  <2>3. call.name # Global => m.id # GlobalId
    BY <1>7, <2>2 DEF GlobalId
  <2>4. QED
    BY <2>1, <2>3
<1>9. m.nc \in DOMAIN files[s] /\ files[s][m.nc].status = "define"
  BY <1>1 DEF Turn
<1>10. PICK tab : tab = (IF turn[s] = 1 THEN t ELSE u)
  OBVIOUS
<1>11. LibraryOk(tab, files[s], netcdf[s], waiting[s]) /\ FilesOk(s, tab, files[s])
  BY <1>1, <1>10 DEF Turn, Handles, ServerOk
<1>12. /\ m.nc \in DOMAIN tab.nc /\ tab.nc[m.nc].path = call.path /\ tab.nc[m.nc].dims = D
       /\ tab.nc[m.nc].vars = V
  BY <1>3, <1>4, <1>6, <1>10
<1>13. netcdf[s][files[s][m.nc].nc_id].path = call.path
  BY <1>1, <1>11, <1>12 DEF LibraryOk, Creating
<1>14. InDefineMode(s, files[s][m.nc].nc_id)
  <2>1. files[s][m.nc].nc_id \in DOMAIN netcdf[s]
    BY <1>1, <1>9, TurnIs
  <2>2. Flags(files[s], netcdf[s], waiting[s])
    BY <1>1 DEF Turn
  <2>3. netcdf[s][files[s][m.nc].nc_id].define
    BY <1>1, <1>9, <2>2 DEF Flags, Creating
  <2>4. QED
    BY <2>1, <2>3 DEF InDefineMode
<1>15. ASSUME m.id # GlobalId
       PROVE  /\ HasDef(s, m.nc, "var", m.id)
              /\ DefAt(s, m.nc, "var", m.id) \in DOMAIN files[s][m.nc].defs
              /\ files[s][m.nc].defs[DefAt(s, m.nc, "var", m.id)].kind = "var"
              /\ files[s][m.nc].defs[DefAt(s, m.nc, "var", m.id)].name = call.name
  <2>1. PICK defs, id : defs = files[s][m.nc].defs /\ id = m.id
    OBVIOUS
  <2>2. Matches(defs, D, V)
    BY <1>11, <1>12, <2>1 DEF FilesOk
  <2>3. id \in DOMAIN V /\ V[id] = call.name
    BY <1>7, <1>8, <1>15, <2>1
  <2>4. PICK kind, list : kind = "var" /\ list = V /\ list = IF kind = "dim" THEN D ELSE V
    OBVIOUS
  <2>5. Positioned(defs, kind, id) # {} /\ DefOf(defs, kind, id).name = list[id]
    BY <2>2, <2>3, <2>4, DefsMatch
  <2>6. PICK a \in DOMAIN defs : /\ a = CHOOSE j \in Positioned(defs, kind, id) : TRUE
                                 /\ DefOf(defs, kind, id) = defs[a] /\ defs[a].kind = kind
    BY <2>5, DefFound
  <2>7. DefAt(s, m.nc, "var", m.id) = a
    BY <2>1, <2>4, <2>6 DEF DefAt
  <2>8. HasDef(s, m.nc, "var", m.id)
    BY <1>9, <2>1, <2>4, <2>5 DEF HasDef, HasNc
  <2>9. QED
    BY <2>1, <2>3, <2>4, <2>5, <2>6, <2>7, <2>8
<1>16. QED
  BY <1>3, <1>5, <1>8, <1>9, <1>13, <1>14, <1>15

(* The attribute k is added to definition a of file n. *)
AttAdded(s, n, a, k) == files' = [files EXCEPT ![s][n].defs[a].atts = Append(@, k)]

\* An attribute of a variable is kept with its definition.
LEMMA AttKept ==
  ASSUME NEW prog, NEW s, NEW c, NEW m, NEW t, NEW u, NEW call, NEW k, NEW key,
         Writing(prog, s, c, m, t, u, call, k, key), call.op = "put_att", m.id # GlobalId,
         NEW a, a = DefAt(s, m.nc, "var", m.id),
         AttAdded(s, m.nc, a, k), UNCHANGED <<waiting, netcdf>>
  PROVE  FilesHold(prog, k, k, u, files'[s], waiting'[s]) /\ VarsHold(u, files'[s], netcdf'[s], waiting'[s])
<1>1. /\ DOMAIN files = Servers /\ s \in Servers /\ waiting[s].op = "none" /\ call = prog[k]
      /\ \A n \in DOMAIN files[s] : IsFile(s, files[s][n])
      /\ Proper(prog) /\ k \in 1..Len(prog)
  BY WritingIs
<1>2. /\ m.nc \in DOMAIN u.nc /\ u.nc[m.nc].path = call.path
      /\ m.nc \in DOMAIN files[s] /\ files[s][m.nc].status = "define"
      /\ a \in DOMAIN files[s][m.nc].defs
      /\ files[s][m.nc].defs[a].kind = "var" /\ files[s][m.nc].defs[a].name = call.name
  BY AttIs
<1>3. /\ DOMAIN u.nc \subseteq DOMAIN files[s] /\ FilesHold(prog, k, k - 1, u, files[s], waiting[s])
      /\ VarsHold(u, files[s], netcdf[s], waiting[s])
  BY HoldsAll
<1>4. PICK fs, gs, w, defs, es : fs = files[s] /\ gs = files'[s] /\ w = waiting[s] /\ defs = fs[m.nc].defs
                                 /\ es = gs[m.nc].defs
  OBVIOUS
<1>5. DOMAIN fs[m.nc] = FileFields /\ DOMAIN defs[a] = DefFields
  BY <1>1, <1>2, <1>4 DEF IsFile, IsDef
<1>6. /\ \A n \in DOMAIN fs : n # m.nc => gs[n] = fs[n]
      /\ gs[m.nc].status = "define" /\ DOMAIN es = DOMAIN defs
      /\ \A i \in DOMAIN defs : i # a => es[i] = defs[i]
      /\ es[a] = [defs[a] EXCEPT !.atts = Append(@, k)]
  BY <1>1, <1>2, <1>4, <1>5 DEF FileFields, AttAdded
<1>7. PICK d, e : d = defs[a] /\ e = es[a] /\ e = [d EXCEPT !.atts = Append(@, k)]
  BY <1>6
<1>8. e.kind = d.kind /\ e.id = d.id /\ e.name = d.name /\ e.dims = d.dims /\ e.atts = Append(d.atts, k)
  BY <1>4, <1>5, <1>7 DEF DefFields
<1>9. Unnumbered(fs, w, m.nc) /\ Unnumbered(gs, w, m.nc)
  BY <1>1, <1>2, <1>4, <1>6 DEF Unnumbered
<1>10. Holds(prog, k, k, call.path, es, TRUE)
  <2>1. Holds(prog, k, k - 1, u.nc[m.nc].path, fs[m.nc].defs, Unnumbered(fs, w, m.nc))
    BY <1>2, <1>3, <1>4 DEF FilesHold
  <2>2. Unnumbered(fs, w, m.nc) = TRUE
    BY <1>9 DEF Unnumbered
  <2>3. PICK p : p = call.path
    OBVIOUS
  <2>4. Holds(prog, k, k - 1, p, defs, TRUE)
    BY <1>2, <1>4, <2>1, <2>2, <2>3
  <2>5. prog[k].op = "put_att" /\ prog[k].path = p /\ a \in DOMAIN defs /\ defs[a].kind = "var"
        /\ defs[a].name = prog[k].name
    BY <1>1, <1>2, <1>4, <2>3
  <2>6. Holds(prog, k, k, p, es, TRUE)
    <3>1. /\ DOMAIN es = DOMAIN defs /\ \A i \in DOMAIN defs : i # a => es[i] = defs[i]
          /\ e = es[a] /\ e.kind = defs[a].kind /\ e.id = defs[a].id /\ e.name = defs[a].name
          /\ e.dims = defs[a].dims /\ e.atts = Append(defs[a].atts, k)
      BY <1>6, <1>7, <1>8
    <3>2. Proper(prog) /\ k \in 1..Len(prog)
      BY <1>1
    <3>3. QED
      BY <2>4, <2>5, <3>1, <3>2, HoldsAtt
  <2>7. QED
    BY <2>3, <2>6
<1>11. ASSUME NEW n \in DOMAIN u.nc
       PROVE  /\ Holds(prog, k, k, u.nc[n].path, gs[n].defs, Unnumbered(gs, w, n))
              /\ ~Unnumbered(gs, w, n) => VarsNamed(gs[n].defs, netcdf[s][gs[n].nc_id].vars)
  <2>1. CASE n = m.nc
    <3>1. Unnumbered(gs, w, m.nc) = TRUE
      BY <1>9 DEF Unnumbered
    <3>2. QED
      BY <1>2, <1>4, <1>10, <2>1, <3>1
  <2>2. CASE n # m.nc
    <3>1. gs[n] = fs[n]
      BY <1>3, <1>4, <1>6, <2>2
    <3>2. Unnumbered(gs, w, n) = Unnumbered(fs, w, n)
      BY <3>1 DEF Unnumbered
    <3>3. /\ Holds(prog, k, k - 1, u.nc[n].path, fs[n].defs, Unnumbered(fs, w, n))
          /\ ~Unnumbered(fs, w, n) => VarsNamed(fs[n].defs, netcdf[s][fs[n].nc_id].vars)
      BY <1>3, <1>4 DEF FilesHold, VarsHold
    <3>4. prog[k].path # u.nc[n].path
      BY <1>1, <2>2, FileOn
    <3>5. Holds(prog, k, k, u.nc[n].path, fs[n].defs, Unnumbered(fs, w, n))
      BY <1>1, <3>3, <3>4, HoldsDone
    <3>6. QED
      BY <3>1, <3>2, <3>3, <3>5
  <2>3. QED
    BY <2>1, <2>2
<1>12. QED
  BY <1>4, <1>11 DEF FilesHold, VarsHold

\* An attribute is put.
LEMMA AttWritten ==
  ASSUME NEW prog, NEW s, NEW c, NEW m, NEW t, NEW u, NEW call, NEW k, NEW key,
         Writing(prog, s, c, m, t, u, call, k, key), IoPutAtt(s, c, m)
  PROVE  Wrote(prog, s, u, call, k, key)
<1>1. call.op = "put_att" /\ UNCHANGED <<waiting, netcdf>>
  <2>1. m.op = call.op
    BY FileOn
  <2>2. m.op = "put_att" /\ UNCHANGED <<waiting, netcdf>>
    BY DEF IoPutAtt
  <2>3. QED
    BY <2>1, <2>2
<1>2. /\ Turn(s, c, m, t, u, call, k, key) /\ Proper(prog) /\ k \in 1..Len(prog) /\ k \in Nat \ {0}
      /\ call = prog[k] /\ s \in Servers /\ waiting[s].op = "none" /\ DOMAIN log = Servers
      /\ log[s] = Owed(prog, k - 1)
  BY <1>1, WritingIs
<1>3. FilesHold(prog, k, k - 1, u, files[s], waiting[s]) /\ VarsHold(u, files[s], netcdf[s], waiting[s])
  BY <1>1, HoldsAll
<1>4. Full(s, Received(s, c, m)) <=> turn[s] = Len(Group[s])
  BY <1>1, <1>2, FullAtLast DEF Noting
<1>5. turn'[s] = 1 <=> turn[s] = Len(Group[s])
  BY <1>2, TurnIs
<1>6. /\ m.id = GlobalId <=> call.name = Global
      /\ m.data[1] = k /\ m.nc \in DOMAIN files[s]
      /\ netcdf[s][files[s][m.nc].nc_id].path = call.path
      /\ InDefineMode(s, files[s][m.nc].nc_id)
      /\ m.id # GlobalId => HasDef(s, m.nc, "var", m.id)
  BY <1>1, AttIs
<1>7. \A gs, i : CallHolds(prog, k, waiting'[s]) /\ PartsHold(s, call, key, k, gs, i)
                 /\ CloseHolds(call, key, gs, netcdf'[s], i)
  BY <1>1, <1>2 DEF CallHolds, PartsHold, CloseHolds
<1>8. CASE turn[s] # Len(Group[s])
  <2>1. UNCHANGED <<files, log>>
    BY <1>4, <1>8 DEF IoPutAtt
  <2>2. QED
    BY <1>1, <1>2, <1>3, <1>5, <1>7, <1>8, <2>1, WroteIs
<1>9. CASE turn[s] = Len(Group[s]) /\ m.id # GlobalId
  <2>1. /\ UNCHANGED log
        /\ AttAdded(s, m.nc, DefAt(s, m.nc, "var", m.id), k)
    BY <1>4, <1>6, <1>9 DEF IoPutAtt, HasNc, AttAdded
  <2>2. FilesHold(prog, k, k, u, files'[s], waiting'[s]) /\ VarsHold(u, files'[s], netcdf'[s], waiting'[s])
    BY <1>1, <1>6, <1>9, <2>1, AttKept
  <2>3. Owed(prog, k) = Owed(prog, k - 1)
    BY <1>1, <1>2, <1>6, <1>9, OwedStill
  <2>4. LogHolds(prog, k, turn'[s], waiting'[s], log'[s])
    BY <1>1, <1>2, <1>5, <1>9, <2>1, <2>3 DEF LogHolds
  <2>5. QED
    BY <1>1, <1>2, <1>5, <1>7, <1>9, <2>1, <2>2, <2>4 DEF Wrote, Holding
<1>10. CASE turn[s] = Len(Group[s]) /\ m.id = GlobalId
  <2>1. PICK e : e = Entry("put_att", call.path, Global, << >>, {k})
    OBVIOUS
  <2>2. UNCHANGED files /\ log' = [log EXCEPT ![s] = Append(@, e)]
    BY <1>4, <1>6, <1>10, <2>1 DEF IoPutAtt, HasNc, Logged
  <2>3. FilesHold(prog, k, k, u, files'[s], waiting'[s]) /\ VarsHold(u, files'[s], netcdf'[s], waiting'[s])
    BY <1>1, <1>2, <1>3, <1>6, <1>10, <2>2, FilesAfter
  <2>4. Does(prog, k) = <<e>>
    BY <1>1, <1>2, <1>6, <1>10, <2>1 DEF Does, Done1
  <2>5. Owed(prog, k) = Owed(prog, k - 1) \o Does(prog, k) /\ Owed(prog, k - 1) \in Seq(Entries(prog))
    BY <1>2, OwedNext
  <2>6. PICK q, V : q = Owed(prog, k - 1) /\ q \in Seq(V)
    BY <2>5
  <2>7. q \o <<e>> = Append(q, e)
    BY <2>6
  <2>8. log'[s] = Owed(prog, k)
    BY <1>2, <2>2, <2>4, <2>5, <2>6, <2>7
  <2>9. LogHolds(prog, k, turn'[s], waiting'[s], log'[s])
    BY <1>1, <1>2, <1>5, <1>10, <2>8 DEF LogHolds
  <2>10. DOMAIN log' = Servers /\ \A o \in Servers \ {s} : log'[o] = log[o]
    BY <1>2, <2>2
  <2>11. QED
    BY <1>1, <1>2, <1>5, <1>7, <1>10, <2>3, <2>9, <2>10 DEF Wrote, Holding
<1>11. QED
  BY <1>8, <1>9, <1>10

(* The parts of definition i of file n become p. *)
PartsSet(s, n, i, p) == files' = [files EXCEPT ![s][n].defs[i].parts = p]

(* The file g is f with the parts p for definition i. *)
OtherParts(f, g, i, p) ==
  /\ g.status = f.status /\ g.nc_id = f.nc_id /\ SameDefs(f.defs, g.defs)
  /\ \A x \in DOMAIN f.defs : g.defs[x].nc = f.defs[x].nc
  /\ g.defs[i].parts = p

\* Nothing else changes then.
LEMMA PartsAre ==
  ASSUME NEW s \in Servers, NEW n \in DOMAIN files[s], DOMAIN files = Servers, IsFile(s, files[s][n]),
         NEW i \in DOMAIN files[s][n].defs, NEW p, PartsSet(s, n, i, p)
  PROVE  /\ \A x \in DOMAIN files[s] : x # n => files'[s][x] = files[s][x]
         /\ OtherParts(files[s][n], files'[s][n], i, p)
<1>1. PICK f, g, defs, es : f = files[s][n] /\ g = files'[s][n] /\ defs = f.defs /\ es = g.defs
  OBVIOUS
<1>2. DOMAIN f = FileFields /\ \A x \in DOMAIN defs : DOMAIN defs[x] = DefFields
  BY <1>1 DEF IsFile, IsDef
<1>3. /\ \A x \in DOMAIN files[s] : x # n => files'[s][x] = files[s][x]
      /\ g = [f EXCEPT !.defs[i].parts = p]
  BY <1>1 DEF PartsSet
<1>4. /\ g.status = f.status /\ g.nc_id = f.nc_id
      /\ es = [defs EXCEPT ![i].parts = p]
  BY <1>1, <1>2, <1>3 DEF FileFields
<1>5. /\ DOMAIN es = DOMAIN defs /\ \A x \in DOMAIN defs : x # i => es[x] = defs[x]
      /\ es[i] = [defs[i] EXCEPT !.parts = p]
  BY <1>1, <1>4
<1>6. PICK d, e : d = defs[i] /\ e = es[i] /\ e = [d EXCEPT !.parts = p] /\ DOMAIN d = DefFields
  BY <1>1, <1>2, <1>5
<1>7. /\ e.kind = d.kind /\ e.id = d.id /\ e.name = d.name /\ e.dims = d.dims /\ e.atts = d.atts
      /\ e.nc = d.nc /\ e.parts = p
  BY <1>6 DEF DefFields
<1>8. ASSUME NEW x \in DOMAIN defs
      PROVE  /\ es[x].kind = defs[x].kind /\ es[x].id = defs[x].id /\ es[x].name = defs[x].name
             /\ es[x].dims = defs[x].dims /\ es[x].atts = defs[x].atts /\ es[x].nc = defs[x].nc
  BY <1>5, <1>6, <1>7
<1>9. SameDefs(defs, es)
  BY <1>5, <1>8 DEF SameDefs
<1>10. OtherParts(f, g, i, p)
  <2>1. es[i].parts = p
    BY <1>6, <1>7
  <2>2. QED
    BY <1>1, <1>4, <1>8, <1>9, <2>1 DEF OtherParts
<1>11. QED
  BY <1>1, <1>3, <1>10

\* Parts do not matter to what a file holds.
LEMMA PartsMatterNot ==
  ASSUME NEW prog, NEW k \in Nat, NEW j, NEW tab, NEW fs, NEW nd, NEW w, w.op = "none",
         DOMAIN tab.nc \subseteq DOMAIN fs, FilesHold(prog, k, j, tab, fs, w), VarsHold(tab, fs, nd, w),
         NEW gs, NEW n \in DOMAIN fs, \A x \in DOMAIN fs : x # n => gs[x] = fs[x],
         NEW i, NEW p, OtherParts(fs[n], gs[n], i, p), NEW v, v.op # "enddef"
  PROVE  FilesHold(prog, k, j, tab, gs, v) /\ VarsHold(tab, gs, nd, v)
<1>1. ASSUME NEW x \in DOMAIN tab.nc
      PROVE  /\ Holds(prog, k, j, tab.nc[x].path, gs[x].defs, Unnumbered(gs, v, x))
             /\ ~Unnumbered(gs, v, x) => VarsNamed(gs[x].defs, nd[gs[x].nc_id].vars)
  <2>1. gs[x].status = fs[x].status /\ gs[x].nc_id = fs[x].nc_id
    BY <1>1 DEF OtherParts
  <2>2. Unnumbered(gs, v, x) = Unnumbered(fs, w, x)
    BY <2>1 DEF Unnumbered
  <2>3. /\ Holds(prog, k, j, tab.nc[x].path, fs[x].defs, Unnumbered(fs, w, x))
        /\ ~Unnumbered(fs, w, x) => VarsNamed(fs[x].defs, nd[fs[x].nc_id].vars)
    BY <1>1 DEF FilesHold, VarsHold
  <2>4. CASE x # n
    <3>1. gs[x] = fs[x]
      BY <1>1, <2>4
    <3>2. QED
      BY <2>2, <2>3, <3>1
  <2>5. CASE x = n
    <3>1. PICK ds, es, raw, q, vs : /\ ds = fs[n].defs /\ es = gs[n].defs /\ raw = Unnumbered(fs, w, x)
                                    /\ q = tab.nc[x].path /\ vs = nd[fs[x].nc_id].vars
      OBVIOUS
    <3>2. SameDefs(ds, es) /\ \A y \in DOMAIN ds : es[y].nc = ds[y].nc
      BY <3>1 DEF OtherParts
    <3>3. Holds(prog, k, j, q, ds, raw) /\ (~raw => VarsNamed(ds, vs))
      BY <2>3, <2>5, <3>1
    <3>4. Holds(prog, k, j, q, es, raw)
      BY <3>2, <3>3, HoldsParts
    <3>5. ~raw => VarsNamed(es, vs)
      BY <3>2, <3>3 DEF SameDefs, VarsNamed
    <3>6. QED
      BY <2>1, <2>2, <2>5, <3>1, <3>4, <3>5
  <2>6. QED
    BY <2>4, <2>5
<1>2. QED
  BY <1>1 DEF FilesHold, VarsHold

(* The variable of a put_vara at its server: definition i, with the parts the *)
(* clients before have sent.                                               *)
VarAt(s, c, m, call, k, i) ==
  /\ m.nc \in DOMAIN files[s] /\ i \in DOMAIN files[s][m.nc].defs
  /\ HasDef(s, m.nc, "var", m.id) /\ i = DefAt(s, m.nc, "var", m.id)
  /\ \A gs, p : OtherParts(files[s][m.nc], gs[m.nc], i, p) =>
       DefOf(gs[m.nc].defs, "var", m.id).parts = p
  /\ files[s][m.nc].defs[i].name = call.name /\ files[s][m.nc].defs[i].nc # Invalid
  /\ netcdf[s][files[s][m.nc].nc_id].path = call.path
  /\ netcdf[s][files[s][m.nc].nc_id].vars[files[s][m.nc].defs[i].nc] = call.name
  /\ m.data[1] = k /\ c \in Members(s)
  /\ DOMAIN files[s][m.nc].defs[i].parts = Members(s)
  /\ \A e \in 1..(turn[s] - 1) : files[s][m.nc].defs[i].parts[Group[s][e]] = k

\* It is there, numbered, and known to the library.
LEMMA VarIs ==
  ASSUME NEW prog, NEW s, NEW c, NEW m, NEW t, NEW u, NEW call, NEW k, NEW key,
         Writing(prog, s, c, m, t, u, call, k, key), call.op = "put_vara"
  PROVE  \E i : VarAt(s, c, m, call, k, i)
<1>1. /\ Turn(s, c, m, t, u, call, k, key) /\ s \in Servers /\ waiting[s].op = "none" /\ k \in Nat
      /\ \A n \in DOMAIN files[s] : IsFile(s, files[s][n])
  BY WritingIs
<1>2. /\ TableOk(t) /\ Fits(t, call) /\ u = After(t, call, k) /\ Meant(t, call, k, m)
      /\ PartsHold(s, call, key, k, files[s], turn[s])
  BY DEF Writing
<1>3. /\ DOMAIN u.nc = DOMAIN t.nc /\ m.nc \in DOMAIN t.nc /\ t.nc[m.nc].path = call.path
      /\ u.nc[m.nc].path = call.path
  BY FileOn
<1>4. u = t
  BY <1>2 DEF After
<1>5. m.nc = NcOf(t, call.path) /\ m.id = VarOf(t, m.nc, call.name) /\ m.data = <<k>>
  BY <1>2 DEF Meant
<1>6. PICK D, V, id : D = t.nc[m.nc].dims /\ V = t.nc[m.nc].vars /\ id = m.id
  OBVIOUS
<1>7. id \in DOMAIN V /\ V[id] = call.name
  <2>1. Has(V, call.name) /\ m.id = Id(V, call.name)
    BY <1>2, <1>5, <1>6 DEF Fits, VarOf
  <2>2. QED
    BY <1>6, <2>1, NameId
<1>8. m.nc \in DOMAIN files[s] /\ files[s][m.nc].status = "data"
  BY <1>1 DEF Turn
<1>9. LibraryOk(t, files[s], netcdf[s], waiting[s]) /\ FilesOk(s, t, files[s])
  BY <1>1, <1>4 DEF Turn, Handles, ServerOk
<1>10. netcdf[s][files[s][m.nc].nc_id].path = call.path
  BY <1>1, <1>3, <1>9 DEF LibraryOk, Creating
<1>11. PICK f, defs : f = files[s][m.nc] /\ defs = f.defs
  OBVIOUS
<1>12. Matches(defs, D, V)
  BY <1>3, <1>6, <1>9, <1>11 DEF FilesOk
<1>13. PICK kind, list : kind = "var" /\ list = V /\ list = IF kind = "dim" THEN D ELSE V
  OBVIOUS
<1>14. Positioned(defs, kind, id) # {} /\ DefOf(defs, kind, id).name = list[id]
  BY <1>7, <1>12, <1>13, DefsMatch
<1>15. PICK i \in DOMAIN defs : /\ i = CHOOSE j \in Positioned(defs, kind, id) : TRUE
                                /\ DefOf(defs, kind, id) = defs[i] /\ defs[i].kind = kind
  BY <1>14, DefFound
<1>16. i = DefAt(s, m.nc, "var", m.id) /\ HasDef(s, m.nc, "var", m.id)
  BY <1>6, <1>8, <1>11, <1>13, <1>14, <1>15 DEF DefAt, HasDef, HasNc
<1>17. ASSUME NEW gs, NEW p, OtherParts(f, gs[m.nc], i, p)
       PROVE  DefOf(gs[m.nc].defs, "var", m.id).parts = p
  <2>1. PICK es : es = gs[m.nc].defs
    OBVIOUS
  <2>2. SameDefs(defs, es) /\ es[i].parts = p
    BY <1>11, <1>17, <2>1 DEF OtherParts
  <2>3. Positioned(es, kind, id) = Positioned(defs, kind, id)
    BY <2>2 DEF SameDefs, Positioned
  <2>4. DefOf(es, kind, id) = es[i]
    BY <1>15, <2>3 DEF DefOf
  <2>5. QED
    BY <1>6, <1>13, <2>1, <2>2, <2>4
<1>18. defs[i].name = call.name
  BY <1>7, <1>13, <1>14, <1>15
<1>19. defs[i].nc # Invalid
  <2>1. Numbers(files[s], waiting[s])
    BY <1>1 DEF Turn
  <2>2. QED
    BY <1>8, <1>11, <2>1 DEF Numbers
<1>20. netcdf[s][f.nc_id].vars[defs[i].nc] = call.name
  <2>1. VarsHold(u, files[s], netcdf[s], waiting[s])
    BY HoldsAll
  <2>2. ~Unnumbered(files[s], waiting[s], m.nc)
    BY <1>8 DEF Unnumbered
  <2>3. VarsNamed(defs, netcdf[s][f.nc_id].vars)
    BY <1>3, <1>11, <2>1, <2>2 DEF VarsHold
  <2>4. QED
    BY <1>13, <1>15, <1>18, <2>3 DEF VarsNamed
<1>21. c \in Members(s)
  <2>1. turn[s] \in 1..Len(Group[s]) /\ c = Group[s][turn[s]]
    BY <1>1, TurnIs
  <2>2. DOMAIN Group[s] = 1..Len(Group[s])
    BY <1>1, ClientsOf
  <2>3. QED
    BY <2>1, <2>2 DEF Members
<1>22. DOMAIN defs[i].parts = Members(s)
  <2>1. IsDef(s, defs[i])
    BY <1>1, <1>8, <1>11, <1>15 DEF IsFile
  <2>2. QED
    BY <1>13, <1>15, <2>1 DEF IsDef
<1>23. ASSUME NEW e \in 1..(turn[s] - 1)
       PROVE  defs[i].parts[Group[s][e]] = k
  <2>1. key = Key(m)
    BY <1>1 DEF Turn, Noting
  <2>2. key[2] = m.nc /\ key[3] = m.id
    BY <2>1 DEF Key
  <2>3. turn[s] # 1
    OBVIOUS
  <2>4. DefOf(files[s][m.nc].defs, "var", m.id).parts[Group[s][e]] = k
    BY <1>2, <2>2, <2>3 DEF PartsHold
  <2>5. QED
    BY <1>6, <1>11, <1>13, <1>15, <2>4
<1>24. QED
  <2>1. m.data[1] = k
    BY <1>5
  <2>2. VarAt(s, c, m, call, k, i)
    BY <1>8, <1>10, <1>11, <1>15, <1>16, <1>17, <1>18, <1>19, <1>20, <1>21, <1>22, <1>23, <2>1
      DEF VarAt
  <2>3. QED
    BY <2>2

\* Data of a variable is put.
LEMMA PutVaraWritten ==
  ASSUME TextVars = {}, NEW prog, NEW s, NEW c, NEW m, NEW t, NEW u, NEW call, NEW k, NEW key,
         Writing(prog, s, c, m, t, u, call, k, key), IoPutVara(s, c, m)
  PROVE  Wrote(prog, s, u, call, k, key)
<1>1. call.op = "put_vara" /\ UNCHANGED <<netcdf, log>>
  <2>1. m.op = call.op
    BY FileOn
  <2>2. m.op = "put_vara" /\ UNCHANGED <<netcdf, log>>
    BY DEF IoPutVara
  <2>3. QED
    BY <2>1, <2>2
<1>2. /\ Turn(s, c, m, t, u, call, k, key) /\ Proper(prog) /\ k \in 1..Len(prog) /\ k \in Nat \ {0}
      /\ call = prog[k] /\ s \in Servers /\ waiting[s].op = "none" /\ DOMAIN log = Servers
      /\ DOMAIN files = Servers /\ DOMAIN waiting = Servers /\ log[s] = Owed(prog, k - 1)
      /\ \A n \in DOMAIN files[s] : IsFile(s, files[s][n])
  BY <1>1, WritingIs
<1>3. /\ DOMAIN u.nc \subseteq DOMAIN files[s]
      /\ FilesHold(prog, k, k - 1, u, files[s], waiting[s]) /\ VarsHold(u, files[s], netcdf[s], waiting[s])
  BY <1>1, HoldsAll
<1>4. PICK i : VarAt(s, c, m, call, k, i)
  BY <1>1, VarIs
<1>5. PICK n, f, d : n = m.nc /\ f = files[s][n] /\ d = f.defs[i]
  OBVIOUS
<1>6. /\ n \in DOMAIN files[s] /\ i \in DOMAIN f.defs /\ HasDef(s, m.nc, "var", m.id)
      /\ i = DefAt(s, m.nc, "var", m.id) /\ d.name = call.name /\ d.nc # Invalid
      /\ netcdf[s][f.nc_id].path = call.path /\ netcdf[s][f.nc_id].vars[d.nc] = call.name
      /\ m.data[1] = k /\ c \in Members(s) /\ DOMAIN d.parts = Members(s)
      /\ \A e \in 1..(turn[s] - 1) : d.parts[Group[s][e]] = k
  BY <1>4, <1>5 DEF VarAt
<1>7. Full(s, Received(s, c, m)) <=> turn[s] = Len(Group[s])
  BY <1>1, <1>2, FullAtLast DEF Noting
<1>8. f.nc_id # Invalid
  <2>1. \A x \in DOMAIN files[s] : files[s][x].nc_id # Invalid
    BY <1>2, TurnIs
  <2>2. QED
    BY <1>5, <1>6, <2>1
<1>9. PICK parts : parts = [d.parts EXCEPT ![c] = k]
  OBVIOUS
<1>10. Def(s, m.nc, "var", m.id) = d /\ Stored(d, c, m.data[1]) = parts
  BY <1>5, <1>6, <1>9 DEF Def, Stored
<1>11. /\ Len(Group[s]) \in Nat \ {0} /\ DOMAIN Group[s] = 1..Len(Group[s])
       /\ \A x, y \in DOMAIN Group[s] : Group[s][x] = Group[s][y] => x = y
       /\ turn[s] \in 1..Len(Group[s]) /\ c = Group[s][turn[s]]
       /\ turn'[s] = 1 <=> turn[s] = Len(Group[s])
       /\ turn[s] # Len(Group[s]) => turn'[s] = turn[s] + 1
  BY <1>2, ClientsOf, TurnIs
<1>12. ASSUME NEW e \in 1..turn[s] PROVE parts[Group[s][e]] = k
  <2>1. CASE e = turn[s]
    BY <1>6, <1>9, <1>11, <2>1
  <2>2. CASE e # turn[s]
    <3>1. e \in 1..(turn[s] - 1) /\ e \in DOMAIN Group[s] /\ turn[s] \in DOMAIN Group[s]
      BY <1>11, <1>12, <2>2
    <3>2. Group[s][e] # c
      BY <1>11, <2>2, <3>1
    <3>3. Group[s][e] \in Members(s)
      BY <3>1 DEF Members
    <3>4. QED
      BY <1>6, <1>9, <3>1, <3>2, <3>3
  <2>3. QED
    BY <2>1, <2>2
<1>13. CASE turn[s] # Len(Group[s])
  <2>1. PartsSet(s, n, i, parts) /\ UNCHANGED waiting
    BY <1>5, <1>6, <1>7, <1>10, <1>13 DEF IoPutVara, PartsSet
  <2>2. /\ \A x \in DOMAIN files[s] : x # n => files'[s][x] = files[s][x]
        /\ OtherParts(f, files'[s][n], i, parts)
    BY <1>2, <1>5, <1>6, <2>1, PartsAre
  <2>3. PICK fs, gs, w, v, nd : fs = files[s] /\ gs = files'[s] /\ w = waiting[s] /\ v = waiting'[s]
                                /\ nd = netcdf[s]
    OBVIOUS
  <2>4. w.op = "none" /\ v.op = "none"
    BY <1>2, <2>1, <2>3
  <2>5. FilesHold(prog, k, k - 1, u, gs, v) /\ VarsHold(u, gs, nd, v)
    <3>1. PICK j : j = k - 1
      OBVIOUS
    <3>2. FilesHold(prog, k, j, u, fs, w) /\ VarsHold(u, fs, nd, w) /\ DOMAIN u.nc \subseteq DOMAIN fs
      BY <1>3, <2>3, <3>1
    <3>3. n \in DOMAIN fs /\ (\A x \in DOMAIN fs : x # n => gs[x] = fs[x]) /\ OtherParts(fs[n], gs[n], i, parts)
      BY <1>5, <1>6, <2>2, <2>3
    <3>4. k \in Nat /\ v.op # "enddef"
      BY <1>2, <2>4
    <3>5. FilesHold(prog, k, j, u, gs, v) /\ VarsHold(u, gs, nd, v)
      BY <2>4, <3>2, <3>3, <3>4, PartsMatterNot
    <3>6. QED
      BY <3>1, <3>5
  <2>6. PartsHold(s, call, key, k, gs, turn'[s])
    <3>1. key = Key(m)
      BY <1>1, <1>2 DEF Turn, Noting
    <3>2. key[2] = n /\ key[3] = m.id
      BY <1>5, <3>1 DEF Key
    <3>3. DefOf(gs[n].defs, "var", m.id).parts = parts
      BY <1>4, <1>5, <2>2, <2>3 DEF VarAt
    <3>4. turn'[s] - 1 = turn[s]
      BY <1>11, <1>13
    <3>5. \A e \in 1..(turn'[s] - 1) : parts[Group[s][e]] = k
      BY <1>12, <3>4
    <3>6. QED
      BY <3>2, <3>3, <3>5 DEF PartsHold
  <2>7. CallHolds(prog, k, v) /\ CloseHolds(call, key, gs, netcdf'[s], turn'[s])
    BY <1>1, <2>4 DEF CallHolds, CloseHolds
  <2>8. turn'[s] # 1
    BY <1>11, <1>13
  <2>9. QED
    BY <1>1, <1>2, <2>3, <2>4, <2>5, <2>6, <2>7, <2>8, WroteIs
<1>14. CASE turn[s] = Len(Group[s])
  <2>1. PICK p : p = [e \in Members(s) |-> 0]
    OBVIOUS
  <2>2. PICK from : from = {parts[e] : e \in Members(s)}
    OBVIOUS
  <2>3. from = {k}
    <3>1. ASSUME NEW e \in Members(s) PROVE parts[e] = k
      <4>1. PICK x \in DOMAIN Group[s] : e = Group[s][x]
        BY DEF Members
      <4>2. x \in 1..turn[s]
        BY <1>11, <1>14
      <4>3. QED
        BY <1>12, <4>1, <4>2
    <3>2. QED
      BY <1>6, <2>2, <3>1
  <2>4. /\ PartsSet(s, n, i, p)
        /\ waiting' = [waiting EXCEPT ![s] =
             [op |-> "put_vara", path |-> netcdf[s][f.nc_id].path, nc |-> m.nc,
              key |-> Key(m), id |-> f.nc_id, name |-> netcdf[s][f.nc_id].vars[d.nc],
              from |-> from]]
    <3> DEFINE known == HasDef(s, m.nc, "var", m.id)
               var   == Def(s, m.nc, "var", m.id)
               nc_id == files[s][m.nc].nc_id
               stored == Stored(var, c, m.data[1])
               merge == known /\ Full(s, Received(s, c, m)) /\ nc_id # Invalid /\ var.nc # Invalid
               write == merge /\ var.name \notin TextVars
               new   == [op |-> "put_vara", path |-> netcdf[s][nc_id].path, nc |-> m.nc,
                         key |-> Key(m), id |-> nc_id, name |-> netcdf[s][nc_id].vars[var.nc],
                         from |-> {stored[e] : e \in Members(s)}]
               q     == IF merge THEN [e \in Members(s) |-> 0] ELSE stored
    <3>1. /\ files' = IF known
                       THEN [files EXCEPT ![s][m.nc].defs[DefAt(s, m.nc, "var", m.id)].parts = q]
                       ELSE files
          /\ waiting' = IF write THEN [waiting EXCEPT ![s] = new] ELSE waiting
      BY Zenon DEF IoPutVara
    <3>2. var = d /\ nc_id = f.nc_id /\ stored = parts
      BY <1>5, <1>10
    <3>3. known /\ merge
      BY <1>6, <1>7, <1>8, <1>14, <3>2
    <3>4. write
      BY <3>3
    <3>5. q = p
      BY <2>1, <3>3
    <3>6. new = [op |-> "put_vara", path |-> netcdf[s][f.nc_id].path, nc |-> m.nc,
                 key |-> Key(m), id |-> f.nc_id, name |-> netcdf[s][f.nc_id].vars[d.nc],
                 from |-> from]
      BY <2>2, <3>2
    <3> HIDE DEF known, var, nc_id, stored, merge, write, new, q
    <3>7. waiting' = [waiting EXCEPT ![s] = new] /\ known
      BY <3>1, <3>3, <3>4
    <3>8. files' = [files EXCEPT ![s][m.nc].defs[DefAt(s, m.nc, "var", m.id)].parts = q]
      BY <3>1, <3>7
    <3>9. PartsSet(s, n, i, p)
      BY <1>5, <1>6, <3>5, <3>8 DEF PartsSet
    <3>10. QED
      BY <3>6, <3>7, <3>9
  <2>5. /\ \A x \in DOMAIN files[s] : x # n => files'[s][x] = files[s][x]
        /\ OtherParts(f, files'[s][n], i, p)
    BY <1>2, <1>5, <1>6, <2>4, PartsAre
  <2>6. PICK fs, gs, w, v, nd : fs = files[s] /\ gs = files'[s] /\ w = waiting[s] /\ v = waiting'[s]
                                /\ nd = netcdf[s]
    OBVIOUS
  <2>7. v = [op |-> "put_vara", path |-> netcdf[s][f.nc_id].path, nc |-> m.nc,
              key |-> Key(m), id |-> f.nc_id, name |-> netcdf[s][f.nc_id].vars[d.nc],
              from |-> from]
    BY <1>2, <2>4, <2>6
  <2>8. w.op = "none" /\ v.op = "put_vara" /\ v.path = call.path /\ v.name = call.name /\ v.from = {k}
    BY <1>2, <1>6, <2>3, <2>6, <2>7
  <2>9. FilesHold(prog, k, k - 1, u, gs, v) /\ VarsHold(u, gs, nd, v)
    <3>1. PICK j : j = k - 1
      OBVIOUS
    <3>2. FilesHold(prog, k, j, u, fs, w) /\ VarsHold(u, fs, nd, w) /\ DOMAIN u.nc \subseteq DOMAIN fs
      BY <1>3, <2>6, <3>1
    <3>3. n \in DOMAIN fs /\ (\A x \in DOMAIN fs : x # n => gs[x] = fs[x]) /\ OtherParts(fs[n], gs[n], i, p)
      BY <1>5, <1>6, <2>5, <2>6
    <3>4. k \in Nat /\ v.op # "enddef"
      BY <1>2, <2>8
    <3>5. FilesHold(prog, k, j, u, gs, v) /\ VarsHold(u, gs, nd, v)
      BY <2>8, <3>2, <3>3, <3>4, PartsMatterNot
    <3>6. QED
      BY <3>1, <3>5
  <2>10. turn'[s] = 1
    BY <1>11, <1>14
  <2>11. PartsHold(s, call, key, k, gs, turn'[s]) /\ CloseHolds(call, key, gs, netcdf'[s], turn'[s])
    BY <1>1, <2>10 DEF PartsHold, CloseHolds
  <2>12. CallHolds(prog, k, v)
    BY <1>2, <2>8 DEF CallHolds
  <2>13. QED
    BY <1>1, <1>2, <2>6, <2>8, <2>9, <2>11, <2>12, WroteIs
<1>15. QED
  BY <1>13, <1>14

(* The definitions of file nc, id for the library, get their numbers.        *)
Defines(s, m, nc, id, es) ==
  /\ files' = [files EXCEPT ![s][nc].defs = es]
  /\ netcdf' = [netcdf EXCEPT ![s][id].vars = NamesOf(es, "var")]
  /\ log' = [log EXCEPT ![s] = @ \o DefCalls(s, id, es)]
  /\ waiting' = [waiting EXCEPT ![s] =
       [op |-> "enddef", path |-> netcdf[s][id].path, nc |-> nc, key |-> Key(m), id |-> id]]

\* They do with the last message of the first enddef.
LEMMA EnddefDefines ==
  ASSUME NEW s, NEW c, NEW m, NEW t, NEW u, NEW call, NEW k, NEW key, Turn(s, c, m, t, u, call, k, key),
         IoEnddef(s, c, m), call.op = "enddef"
  PROVE  IF turn[s] = Len(Group[s]) /\ files[s][m.nc].status = "define"
           THEN Defines(s, m, m.nc, files[s][m.nc].nc_id, Numbered(files[s][m.nc].defs))
           ELSE UNCHANGED <<files, netcdf, log, waiting>>
<1>1. m.nc \in DOMAIN files[s]
  BY DEF Turn
<1>2. files[s][m.nc].nc_id # Invalid
  BY <1>1, TurnIs
<1>3. Full(s, Received(s, c, m)) <=> turn[s] = Len(Group[s])
  BY FullAtLast DEF Noting
<1> DEFINE full == HasNc(s, m.nc) /\ Full(s, Received(s, c, m))
           file == files[s][m.nc]
           first == full /\ file.status = "define"
           define == first /\ file.nc_id # Invalid
           defs == Numbered(file.defs)
           w == [op |-> "enddef", path |-> netcdf[s][file.nc_id].path, nc |-> m.nc,
                 key |-> Key(m), id |-> file.nc_id]
<1>4. IF define
        THEN /\ files' = [files EXCEPT ![s][m.nc].defs = defs]
             /\ netcdf' = [netcdf EXCEPT ![s][file.nc_id].vars = NamesOf(defs, "var")]
             /\ log' = [log EXCEPT ![s] = @ \o DefCalls(s, file.nc_id, defs)]
             /\ waiting' = [waiting EXCEPT ![s] = w]
        ELSE UNCHANGED <<files, netcdf, log, waiting>>
  BY DEF IoEnddef
<1>5. define <=> turn[s] = Len(Group[s]) /\ files[s][m.nc].status = "define"
  BY <1>1, <1>2, <1>3 DEF HasNc
<1> HIDE DEF full, first, define
<1>6. QED
  BY <1>4, <1>5 DEF Defines

\* What that makes of the file, the library and the log.
LEMMA DefinesIs ==
  ASSUME NEW s \in Servers, DOMAIN files = Servers, DOMAIN netcdf = Servers, DOMAIN log = Servers,
         DOMAIN waiting = Servers, NEW nc \in DOMAIN files[s], IsFile(s, files[s][nc]),
         NEW id \in DOMAIN netcdf[s], DOMAIN netcdf[s][id] = NcFields, NEW m, NEW es, Defines(s, m, nc, id, es)
  PROVE  /\ \A n \in DOMAIN files[s] : n # nc => files'[s][n] = files[s][n]
         /\ files'[s][nc].defs = es /\ files'[s][nc].nc_id = files[s][nc].nc_id
         /\ \A n \in DOMAIN files[s] : files'[s][n].status = files[s][n].status
         /\ \A x \in DOMAIN netcdf[s] : x # id => netcdf'[s][x] = netcdf[s][x]
         /\ netcdf'[s][id].vars = NamesOf(es, "var")
         /\ log'[s] = log[s] \o DefCalls(s, id, es)
         /\ DOMAIN log' = Servers /\ \A o \in Servers \ {s} : log'[o] = log[o]
         /\ waiting'[s].op = "enddef" /\ waiting'[s].path = netcdf[s][id].path /\ waiting'[s].nc = nc
<1>1. /\ DOMAIN files[s][nc] = FileFields
      /\ files' = [files EXCEPT ![s][nc].defs = es]
  BY DEF IsFile, Defines
<1>2. /\ \A n \in DOMAIN files[s] : n # nc => files'[s][n] = files[s][n]
      /\ files'[s][nc] = [files[s][nc] EXCEPT !.defs = es]
  BY <1>1
<1>3. /\ files'[s][nc].defs = es /\ files'[s][nc].nc_id = files[s][nc].nc_id
      /\ files'[s][nc].status = files[s][nc].status
  BY <1>1, <1>2 DEF FileFields
<1>4. PICK vs : vs = NamesOf(es, "var")
  OBVIOUS
<1>5. netcdf' = [netcdf EXCEPT ![s][id].vars = vs]
  BY <1>4 DEF Defines
<1>6. /\ \A x \in DOMAIN netcdf[s] : x # id => netcdf'[s][x] = netcdf[s][x]
      /\ netcdf'[s][id].vars = vs
  BY <1>5 DEF NcFields
<1>7. PICK q : q = DefCalls(s, id, es)
  OBVIOUS
<1>8. log' = [log EXCEPT ![s] = @ \o q]
  BY <1>7 DEF Defines
<1>9. log'[s] = log[s] \o q /\ DOMAIN log' = Servers /\ \A o \in Servers \ {s} : log'[o] = log[o]
  BY <1>8
<1>10. waiting'[s].op = "enddef" /\ waiting'[s].path = netcdf[s][id].path /\ waiting'[s].nc = nc
  <2>1. PICK p, y : p = netcdf[s][id].path /\ y = Key(m)
    OBVIOUS
  <2>2. waiting' = [waiting EXCEPT ![s] = [op |-> "enddef", path |-> p, nc |-> nc, key |-> y, id |-> id]]
    BY <2>1 DEF Defines
  <2>3. waiting'[s] = [op |-> "enddef", path |-> p, nc |-> nc, key |-> y, id |-> id]
    BY <2>2
  <2>4. QED
    BY <2>1, <2>3
<1>11. \A n \in DOMAIN files[s] : files'[s][n].status = files[s][n].status
  BY <1>2, <1>3
<1>12. netcdf'[s][id].vars = NamesOf(es, "var") /\ log'[s] = log[s] \o DefCalls(s, id, es)
  BY <1>4, <1>6, <1>7, <1>9
<1>13. QED
  BY <1>2, <1>3, <1>6, <1>9, <1>10, <1>11, <1>12

\* Definitions end.
LEMMA EnddefWritten ==
  ASSUME NEW prog, NEW s, NEW c, NEW m, NEW t, NEW u, NEW call, NEW k, NEW key,
         Writing(prog, s, c, m, t, u, call, k, key), IoEnddef(s, c, m)
  PROVE  Wrote(prog, s, u, call, k, key)
<1>1. call.op = "enddef"
  <2>1. m.op = call.op
    BY FileOn
  <2>2. QED
    BY <2>1 DEF IoEnddef
<1>2. /\ Turn(s, c, m, t, u, call, k, key) /\ Proper(prog) /\ k \in 1..Len(prog) /\ k \in Nat \ {0}
      /\ call = prog[k] /\ s \in Servers /\ waiting[s].op = "none" /\ DOMAIN log = Servers
      /\ DOMAIN files = Servers /\ DOMAIN waiting = Servers /\ DOMAIN netcdf = Servers
      /\ log[s] = Owed(prog, k - 1)
  BY <1>1, WritingIs
<1>3. /\ FilesHold(prog, k, k - 1, u, files[s], waiting[s]) /\ VarsHold(u, files[s], netcdf[s], waiting[s])
      /\ DOMAIN u.nc \subseteq DOMAIN t.nc /\ DOMAIN u.nc \subseteq DOMAIN files[s]
  BY <1>1, HoldsAll
<1>4. /\ turn'[s] = 1 <=> turn[s] = Len(Group[s])
      /\ \A n \in DOMAIN files[s] : IsFile(s, files[s][n])
      /\ \A n \in DOMAIN files[s] : files[s][n].nc_id \in DOMAIN netcdf[s] /\ files[s][n].nc_id # Invalid
      /\ \A x \in DOMAIN netcdf[s] : DOMAIN netcdf[s][x] = NcFields
  BY <1>2, TurnIs
<1>5. PICK n, id, es, ds : n = m.nc /\ id = files[s][n].nc_id /\ ds = files[s][n].defs /\ es = Numbered(ds)
  OBVIOUS
<1>6. n \in DOMAIN files[s] /\ n \in DOMAIN u.nc /\ u.nc[n].path = call.path
  <2>1. m.nc \in DOMAIN t.nc /\ t.nc[m.nc].path = call.path /\ DOMAIN u.nc = DOMAIN t.nc
    BY <1>1, FileOn
  <2>2. u.nc[m.nc].path = t.nc[m.nc].path
    BY <2>1, FileOn
  <2>3. QED
    BY <1>3, <1>5, <2>1, <2>2
<1>7. files[s][n].status = "data" <=> EndedBy(prog, k - 1, call.path)
  BY <1>1, <1>5 DEF Writing
<1>8. files[s][n].status \in {"define", "data"}
  BY <1>4, <1>6 DEF IsFile
<1>9. \A gs, i : PartsHold(s, call, key, k, gs, i) /\ CloseHolds(call, key, gs, netcdf'[s], i)
  BY <1>1 DEF PartsHold, CloseHolds
<1>10. CASE ~(turn[s] = Len(Group[s]) /\ files[s][n].status = "define")
  <2>1. UNCHANGED <<files, netcdf, log, waiting>>
    BY <1>1, <1>2, <1>5, <1>10, EnddefDefines
  <2>2. CallHolds(prog, k, waiting'[s])
    BY <1>2, <2>1 DEF CallHolds
  <2>3. CASE turn[s] # Len(Group[s])
    BY <1>1, <1>2, <1>3, <1>4, <1>9, <2>1, <2>2, <2>3, WroteIs
  <2>4. CASE turn[s] = Len(Group[s])
    <3>1. EndedBy(prog, k - 1, prog[k].path)
      BY <1>2, <1>7, <1>8, <1>10, <2>4
    <3>2. Owed(prog, k) = Owed(prog, k - 1)
      BY <1>1, <1>2, <3>1, OwedStill
    <3>3. QED
      BY <1>1, <1>2, <1>3, <1>4, <1>9, <2>1, <2>2, <2>4, <3>2, WroteIs
  <2>5. QED
    BY <2>3, <2>4
<1>11. CASE turn[s] = Len(Group[s]) /\ files[s][n].status = "define"
  <2>1. Defines(s, m, n, id, es)
    BY <1>1, <1>2, <1>5, <1>11, EnddefDefines
  <2>2. PICK fs, gs, nd, ne, w, v : fs = files[s] /\ gs = files'[s] /\ nd = netcdf[s] /\ ne = netcdf'[s]
                                    /\ w = waiting[s] /\ v = waiting'[s]
    OBVIOUS
  <2>3. /\ \A x \in DOMAIN fs : x # n => gs[x] = fs[x]
        /\ gs[n].defs = es /\ gs[n].nc_id = fs[n].nc_id
        /\ \A x \in DOMAIN fs : gs[x].status = fs[x].status
        /\ \A x \in DOMAIN nd : x # id => ne[x] = nd[x]
        /\ ne[id].vars = NamesOf(es, "var")
        /\ log'[s] = log[s] \o DefCalls(s, id, es)
        /\ DOMAIN log' = Servers /\ \A o \in Servers \ {s} : log'[o] = log[o]
        /\ v.op = "enddef" /\ v.path = nd[id].path /\ v.nc = n
    <3>1. IsFile(s, files[s][n]) /\ id \in DOMAIN netcdf[s] /\ DOMAIN netcdf[s][id] = NcFields
      BY <1>4, <1>5, <1>6
    <3>2. QED
      BY <1>2, <1>6, <2>1, <2>2, <3>1, DefinesIs
  <2>4. LibraryOk(IF turn[s] = 1 THEN t ELSE u, fs, nd, w) /\ DOMAIN u.nc = DOMAIN t.nc
        /\ \A x : ~Creating(w, x)
    BY <1>1, <1>2, <2>2, FileOn DEF Turn, Creating
  <2>5. /\ \A x, y \in DOMAIN fs : fs[x].nc_id = fs[y].nc_id => x = y
        /\ nd[id].path = call.path
    <3>1. /\ \A x, y \in DOMAIN fs : fs[x].nc_id = fs[y].nc_id => x = y
          /\ \A x \in DOMAIN u.nc : (IF turn[s] = 1 THEN t ELSE u).nc[x].path = nd[fs[x].nc_id].path
      <4>1. DOMAIN (IF turn[s] = 1 THEN t ELSE u).nc = DOMAIN u.nc
        BY <2>4
      <4>2. QED
        BY <2>4, <4>1 DEF LibraryOk
    <3>2. (IF turn[s] = 1 THEN t ELSE u).nc[n].path = call.path
      <4>1. m.nc \in DOMAIN t.nc /\ t.nc[m.nc].path = call.path
        BY <1>1, FileOn
      <4>2. QED
        BY <1>5, <1>6, <4>1
    <3>3. QED
      BY <1>5, <1>6, <2>2, <3>1, <3>2
  <2>6. /\ Unnumbered(fs, w, n) = TRUE /\ Unnumbered(gs, v, n) = FALSE
        /\ \A x \in DOMAIN fs : x # n => Unnumbered(gs, v, x) = Unnumbered(fs, w, x)
    BY <1>2, <1>6, <1>11, <2>2, <2>3 DEF Unnumbered
  <2>7. Holds(prog, k, k - 1, call.path, ds, TRUE)
    <3>1. Holds(prog, k, k - 1, u.nc[n].path, fs[n].defs, Unnumbered(fs, w, n))
      BY <1>3, <1>6, <2>2 DEF FilesHold
    <3>2. QED
      BY <1>5, <1>6, <2>2, <2>6, <3>1
  <2>8. SameNames(ds, es)
    <3>1. PICK f, g : f = files[s][n] /\ g = [f EXCEPT !.defs = es]
      OBVIOUS
    <3>2. IsFile(s, f) /\ f.defs = ds /\ es = Numbered(f.defs)
      BY <1>4, <1>5, <1>6, <3>1
    <3>3. DOMAIN g = FileFields /\ g.status = f.status /\ g.defs = es
      BY <3>1, <3>2 DEF IsFile, FileFields
    <3>4. SameNames(f.defs, g.defs)
      BY <3>2, <3>3, NumberedSame
    <3>5. QED
      BY <3>2, <3>3, <3>4
  <2>9. Holds(prog, k, k - 1, call.path, es, FALSE)
    BY <2>7, <2>8, HoldsNames
  <2>10. VarsNamed(es, NamesOf(es, "var"))
    <3>1. PICK f : f = files[s][n]
      OBVIOUS
    <3>2. IsFile(s, f) /\ es = Numbered(f.defs)
      BY <1>4, <1>5, <1>6, <3>1
    <3>3. QED
      BY <3>2, NumberedVars
  <2>11. FilesHold(prog, k, k - 1, u, gs, v)
    <3>1. ASSUME NEW x \in DOMAIN u.nc
          PROVE  Holds(prog, k, k - 1, u.nc[x].path, gs[x].defs, Unnumbered(gs, v, x))
      <4>1. CASE x = n
        BY <1>6, <2>3, <2>6, <2>9, <4>1
      <4>2. CASE x # n
        <5>1. x \in DOMAIN fs
          BY <1>3, <2>2, <3>1
        <5>2. gs[x] = fs[x] /\ Unnumbered(gs, v, x) = Unnumbered(fs, w, x)
          BY <2>3, <2>6, <4>2, <5>1
        <5>3. Holds(prog, k, k - 1, u.nc[x].path, fs[x].defs, Unnumbered(fs, w, x))
          BY <1>3, <2>2, <3>1 DEF FilesHold
        <5>4. QED
          BY <5>2, <5>3
      <4>3. QED
        BY <4>1, <4>2
    <3>2. QED
      BY <3>1 DEF FilesHold
  <2>12. VarsHold(u, gs, ne, v)
    <3>1. ASSUME NEW x \in DOMAIN u.nc, ~Unnumbered(gs, v, x)
          PROVE  VarsNamed(gs[x].defs, ne[gs[x].nc_id].vars)
      <4>1. CASE x = n
        BY <1>5, <2>2, <2>3, <2>10, <4>1
      <4>2. CASE x # n
        <5>1. x \in DOMAIN fs /\ n \in DOMAIN fs
          BY <1>3, <1>6, <2>2, <3>1
        <5>2. gs[x] = fs[x] /\ Unnumbered(gs, v, x) = Unnumbered(fs, w, x)
          BY <2>3, <2>6, <4>2, <5>1
        <5>3. VarsNamed(fs[x].defs, nd[fs[x].nc_id].vars)
          BY <1>3, <2>2, <3>1, <5>2 DEF VarsHold
        <5>4. fs[x].nc_id # id
          BY <1>5, <2>2, <2>5, <4>2, <5>1
        <5>5. fs[x].nc_id \in DOMAIN nd
          BY <1>4, <2>2, <5>1
        <5>6. ne[fs[x].nc_id] = nd[fs[x].nc_id]
          BY <2>3, <5>4, <5>5
        <5>7. QED
          BY <5>2, <5>3, <5>6
      <4>3. QED
        BY <4>1, <4>2
    <3>2. QED
      BY <3>1 DEF VarsHold
  <2>13. ~EndedBy(prog, k - 1, call.path)
    BY <1>7, <1>11
  <2>14. DefCalls(s, id, es) = FlattenSeq(Blocks(prog, k - 1, call.path))
    <3>1. PICK j : j = k - 1
      OBVIOUS
    <3>2. PICK f : f = files[s][n]
      OBVIOUS
    <3>3. IsFile(s, f) /\ es = Numbered(f.defs) /\ ds = f.defs /\ netcdf[s][id].path = call.path
      BY <1>4, <1>5, <1>6, <2>2, <2>5, <3>2
    <3>4. Len(prog) \in Nat
      <4>1. PICK S : prog \in Seq(S)
        BY <1>2 DEF Proper
      <4>2. QED
        BY <4>1
    <3>5. j \in 0..Len(prog)
      BY <1>2, <3>1, <3>4
    <3>6. k \notin FirstBy(prog, k, call.path)
      <4>1. FirstGrows(prog, k, call.path)
        BY <1>2, FirstNext
      <4>2. QED
        BY <1>1, <1>2, <4>1 DEF FirstGrows
    <3>7. Holds(prog, j, j, call.path, ds, TRUE)
      BY <1>2, <2>7, <3>1, <3>6, HoldsStill
    <3>8. Numbering(s, f, prog, j, call.path, id, es)
      BY <1>2, <3>3, <3>5, <3>7 DEF Numbering
    <3>9. DefCalls(s, id, es) = FlattenSeq(Blocks(prog, j, call.path))
      BY <3>8, DefCallsAre
    <3>10. QED
      BY <3>1, <3>9
  <2>15. CallHolds(prog, k, v)
    BY <1>2, <2>3, <2>5 DEF CallHolds
  <2>16. LogHolds(prog, k, turn'[s], v, log'[s])
    BY <1>2, <2>3, <2>13, <2>14 DEF LogHolds
  <2>17. Holding(prog, k, k - 1, call, key, s, u, gs, ne, v, turn'[s], log'[s])
    BY <1>9, <2>2, <2>11, <2>12, <2>15, <2>16 DEF Holding
  <2>18. QED
    BY <2>2, <2>3, <2>17 DEF Wrote
<1>12. QED
  BY <1>10, <1>11

\* Every handler does what its call owes.
LEMMA HandlerWritten ==
  ASSUME TextVars = {}, NEW prog, NEW s, NEW c, NEW m, NEW t, NEW u, NEW call, NEW k, NEW key,
         Writing(prog, s, c, m, t, u, call, k, key),
         \/ IoCreate(s, c, m) \/ IoDefDim(s, c, m) \/ IoDefVar(s, c, m)
         \/ IoPutAtt(s, c, m) \/ IoEnddef(s, c, m) \/ IoPutVara(s, c, m)
         \/ IoClose(s, c, m)
  PROVE  Wrote(prog, s, u, call, k, key)
<1>1. CASE IoCreate(s, c, m)
  BY <1>1, CreateWritten
<1>2. CASE IoDefDim(s, c, m)
  BY <1>2, DimWritten
<1>3. CASE IoDefVar(s, c, m)
  BY <1>3, VarWritten
<1>4. CASE IoPutAtt(s, c, m)
  BY <1>4, AttWritten
<1>5. CASE IoEnddef(s, c, m)
  BY <1>5, EnddefWritten
<1>6. CASE IoPutVara(s, c, m)
  BY <1>6, PutVaraWritten
<1>7. CASE IoClose(s, c, m)
  BY <1>7, CloseWritten
<1>8. QED
  BY <1>1, <1>2, <1>3, <1>4, <1>5, <1>6, <1>7

(* What a server keeps, and what it has done.                               *)
Works(h) == AllOpen(h) /\ Proper(calls) /\ DOMAIN log = Servers
            /\ \A s \in Servers : Clean(h, s) /\ Writes(h, s)

\* A server that decodes a message has done what the calls before owe.
LEMMA DecodeWriting ==
  ASSUME NEW h, Works(h), NEW s \in Servers, Decode(s),
         NEW c, c = Group[s][turn[s]], NEW m, m = Unpacked(Head(inbox[c])), NEW k, k = Taken(s)',
         NEW t, t = h[k - 1], NEW u, u = h[k], NEW call, call = calls[k], NEW key, key = KeyOf(t, call)
  PROVE  Writing(calls, s, c, m, t, u, call, k, key)
<1>1. /\ Serves(h) /\ Opens(h, s) /\ Clean(h, s) /\ Writes(h, s) /\ Proper(calls) /\ Orderly(calls)
      /\ DOMAIN log = Servers
  BY DEF Works, AllOpen, Proper
<1>2. Handles(s, c, m, t, u, call, k) /\ Takes(h, s, c, k, m)
  BY <1>1, DecodeHandles
<1>3. Turn(s, c, m, t, u, call, k, key) /\ (turn[s] = 1 \/ Taken(s) = k) /\ Done(s) = k - 1
  BY <1>1, DecodeTurn
<1>4. /\ TableOk(t) /\ TableOk(u) /\ Fits(t, call) /\ Meant(t, call, k, m) /\ u = After(t, call, k)
      /\ k \in 1..Len(calls) /\ k \in Nat \ {0} /\ waiting[s].op = "none"
  BY <1>2 DEF Handles, Takes
<1>5. Taken(s) = IF turn[s] = 1 THEN k - 1 ELSE k
  BY <1>2 DEF Takes
<1>6. Holding(calls, Taken(s), k - 1, calls[Taken(s)], KeyOf(h[Taken(s) - 1], calls[Taken(s)]), s, h[Taken(s)],
              files[s], netcdf[s], waiting[s], turn[s], log[s])
  BY <1>1, <1>3 DEF Writes
<1>7. IF turn[s] = 1
       THEN FilesHold(calls, k - 1, k - 1, t, files[s], waiting[s])
            /\ VarsHold(t, files[s], netcdf[s], waiting[s])
       ELSE FilesHold(calls, k, k - 1, u, files[s], waiting[s])
            /\ VarsHold(u, files[s], netcdf[s], waiting[s])
  BY <1>5, <1>6 DEF Holding
<1>8. /\ PartsHold(s, call, key, k, files[s], turn[s])
      /\ CloseHolds(call, key, files[s], netcdf[s], turn[s])
  <2>1. CASE turn[s] = 1
    BY <2>1 DEF PartsHold, CloseHolds
  <2>2. CASE turn[s] # 1
    <3>1. Taken(s) = k
      BY <1>5, <2>2
    <3>2. QED
      BY <1>6, <3>1 DEF Holding
  <2>3. QED
    BY <2>1, <2>2
<1>9. log[s] = Owed(calls, IF turn[s] # 1 /\ call.op = "create" THEN k ELSE k - 1)
  <2>1. LogHolds(calls, Taken(s), turn[s], waiting[s], log[s])
    BY <1>6 DEF Holding
  <2>2. CASE turn[s] = 1
    <3>1. log[s] = Owed(calls, Taken(s))
      BY <1>4, <2>1, <2>2 DEF LogHolds
    <3>2. QED
      BY <1>5, <2>2, <3>1
  <2>3. CASE turn[s] # 1
    <3>1. Taken(s) = k
      BY <1>5, <2>3
    <3>2. log[s] = Owed(calls, IF call.op = "create" THEN k ELSE k - 1)
      BY <1>4, <2>1, <2>3, <3>1 DEF LogHolds
    <3>3. QED
      BY <2>3, <3>2
  <2>4. QED
    BY <2>2, <2>3
<1>10. ASSUME call.op = "enddef"
       PROVE  files[s][m.nc].status = "data" <=> EndedBy(calls, k - 1, call.path)
  <2>1. Modes(calls, k - 1, h[Taken(s)], files[s])
    BY <1>1, <1>3 DEF Clean
  <2>2. NcOf(t, call.path) \in DOMAIN t.nc /\ t.nc[NcOf(t, call.path)].path = call.path
    BY <1>4, <1>10, CallFile
  <2>3. m.nc = NcOf(t, call.path)
    BY <1>4, <1>10, KeyIs
  <2>4. \A n \in DOMAIN t.nc : n \in DOMAIN u.nc /\ u.nc[n].path = t.nc[n].path
    BY <1>4, <1>10, SamePath
  <2>5. h[Taken(s)] \in {t, u}
    BY <1>5
  <2>6. m.nc \in DOMAIN h[Taken(s)].nc /\ h[Taken(s)].nc[m.nc].path = call.path
    BY <2>2, <2>3, <2>4, <2>5
  <2>7. QED
    BY <2>1, <2>6 DEF Modes
<1>11. QED
  BY <1>1, <1>3, <1>4, <1>7, <1>8, <1>9, <1>10 DEF Writing

\* It goes on like that.
LEMMA DecodeWrites ==
  ASSUME TextVars = {}, NEW h, Works(h), NEW s \in Servers, Decode(s)
  PROVE  Writes(h, s)' /\ DOMAIN log' = Servers /\ \A o \in Servers \ {s} : log'[o] = log[o]
<1>1. PICK c, m, k : /\ c = Group[s][turn[s]] /\ m = Unpacked(Head(inbox[c])) /\ k = Taken(s)'
  OBVIOUS
<1>2. PICK t, u, call : t = h[k - 1] /\ u = h[k] /\ call = calls[k]
  OBVIOUS
<1>3. PICK key : key = KeyOf(t, call)
  OBVIOUS
<1>4. Serves(h)
  BY DEF Works, AllOpen
<1>5. \/ IoCreate(s, c, m) \/ IoDefDim(s, c, m) \/ IoDefVar(s, c, m)
      \/ IoPutAtt(s, c, m) \/ IoEnddef(s, c, m) \/ IoPutVara(s, c, m)
      \/ IoClose(s, c, m)
  BY <1>1, <1>2, <1>4, DecodeHandles
<1>6. Writing(calls, s, c, m, t, u, call, k, key)
  BY <1>1, <1>2, <1>3, DecodeWriting
<1>7. PICK prog : prog = calls
  OBVIOUS
<1>8. Writing(prog, s, c, m, t, u, call, k, key)
  BY <1>6, <1>7
<1>9. Wrote(prog, s, u, call, k, key)
  BY <1>5, <1>8, HandlerWritten
<1>10. calls' = calls
  BY DEF Decode, clientVars
<1>11. Done(s)' = IF turn'[s] = 1 /\ waiting'[s].op = "none" THEN k ELSE k - 1
  BY <1>1 DEF Done
<1>12. Holding(prog, k, Done(s)', call, key, s, u, files'[s], netcdf'[s], waiting'[s], turn'[s], log'[s])
  BY <1>9, <1>11 DEF Wrote
<1>13. /\ Taken(s)' = k /\ h[Taken(s)'] = u /\ calls'[Taken(s)'] = call /\ calls' = prog
       /\ KeyOf(h[Taken(s)' - 1], calls'[Taken(s)']) = key
  BY <1>1, <1>2, <1>3, <1>7, <1>10
<1>14. Writes(h, s)'
  BY <1>12, <1>13 DEF Writes
<1>15. QED
  BY <1>9, <1>14 DEF Wrote

\* The others notice nothing.
LEMMA DecodeWritesOthers ==
  ASSUME TextVars = {}, NEW h, Works(h), NEW s \in Servers, Decode(s), NEW o \in Servers, o # s
  PROVE  Writes(h, o)'
<1>1. PICK c, m, k : /\ c = Group[s][turn[s]] /\ m = Unpacked(Head(inbox[c])) /\ k = Taken(s)'
  OBVIOUS
<1>2. PICK t, u, call : t = h[k - 1] /\ u = h[k] /\ call = calls[k]
  OBVIOUS
<1>3. Serves(h) /\ Writes(h, o)
  BY DEF Works, AllOpen
<1>4. /\ Handles(s, c, m, t, u, call, k) /\ Taken(o)' = Taken(o)
      /\ \/ IoCreate(s, c, m) \/ IoDefDim(s, c, m) \/ IoDefVar(s, c, m)
         \/ IoPutAtt(s, c, m) \/ IoEnddef(s, c, m) \/ IoPutVara(s, c, m)
         \/ IoClose(s, c, m)
  BY <1>1, <1>2, <1>3, DecodeHandles
<1>5. Served(s, u)
  BY <1>4, HandlerServed
<1>6. files'[o] = files[o] /\ requests'[o] = requests[o] /\ waiting'[o] = waiting[o]
  BY <1>5 DEF Served, OthersStay
<1>7. calls' = calls /\ turn'[o] = turn[o]
  BY <1>3 DEF Decode, clientVars, Serves, Tabled
<1>8. netcdf'[o] = netcdf[o]
  <2>1. netcdf' = netcdf \/ \E id, v : netcdf' = [netcdf EXCEPT ![s][id].vars = v]
    BY <1>4 DEF IoCreate, IoDefDim, IoDefVar, IoPutAtt, IoEnddef, IoPutVara, IoClose
  <2>2. DOMAIN netcdf = Servers
    BY <1>3 DEF Serves, Tabled
  <2>3. QED
    BY <2>1, <2>2
<1>9. Done(o)' = Done(o)
  BY <1>4, <1>6, <1>7 DEF Done
<1>10. log'[o] = log[o]
  BY DecodeWrites
<1>11. PICK i : i = Taken(o) /\ i = Taken(o)'
  BY <1>4
<1>12. Holding(calls, i, Done(o), calls[i], KeyOf(h[i - 1], calls[i]), o, h[i],
              files[o], netcdf[o], waiting[o], turn[o], log[o])
  BY <1>3, <1>11 DEF Writes
<1>13. Holding(calls', i, Done(o)', calls'[i], KeyOf(h[i - 1], calls'[i]), o, h[i],
              files'[o], netcdf'[o], waiting'[o], turn'[o], log'[o])
  BY <1>6, <1>7, <1>8, <1>9, <1>10, <1>12
<1>14. QED
  BY <1>11, <1>13 DEF Writes

(***************************************************************************)
(* The library calls that all servers make together.                        *)
(***************************************************************************)

(* What a library call leaves of the files, and of their definitions in the  *)
(* library.                                                                *)
Leaves(tab, fs, nd, w, gs, ne) ==
  \A n \in DOMAIN tab.nc :
    /\ gs[n].defs = fs[n].defs /\ Unnumbered(gs, Idle, n) = Unnumbered(fs, w, n)
    /\ ~Unnumbered(gs, Idle, n) => ne[gs[n].nc_id].vars = nd[fs[n].nc_id].vars

\* The files hold what they did.
LEMMA FilesLeft ==
  ASSUME NEW prog, NEW k, NEW j, NEW tab, NEW fs, NEW nd, NEW w, FilesHold(prog, k, j, tab, fs, w),
         VarsHold(tab, fs, nd, w), NEW gs, NEW ne, Leaves(tab, fs, nd, w, gs, ne)
  PROVE  FilesHold(prog, k, j, tab, gs, Idle) /\ VarsHold(tab, gs, ne, Idle)
<1>1. ASSUME NEW n \in DOMAIN tab.nc
      PROVE  /\ Holds(prog, k, j, tab.nc[n].path, gs[n].defs, Unnumbered(gs, Idle, n))
             /\ ~Unnumbered(gs, Idle, n) => VarsNamed(gs[n].defs, ne[gs[n].nc_id].vars)
  <2>1. /\ gs[n].defs = fs[n].defs /\ Unnumbered(gs, Idle, n) = Unnumbered(fs, w, n)
        /\ ~Unnumbered(gs, Idle, n) => ne[gs[n].nc_id].vars = nd[fs[n].nc_id].vars
    BY <1>1 DEF Leaves
  <2>2. /\ Holds(prog, k, j, tab.nc[n].path, fs[n].defs, Unnumbered(fs, w, n))
        /\ ~Unnumbered(fs, w, n) => VarsNamed(fs[n].defs, nd[fs[n].nc_id].vars)
    BY <1>1 DEF FilesHold, VarsHold
  <2>3. QED
    BY <2>1, <2>2
<1>2. QED
  BY <1>1 DEF FilesHold, VarsHold

\* The library has created a file.
LEMMA CreateLeaves ==
  ASSUME NEW tab, NEW fs, NEW nd, NEW w, LibraryOk(tab, fs, nd, w), Flags(fs, nd, w), w.op = "create",
         w.nc \in DOMAIN fs, DOMAIN fs[w.nc] = FileFields, DOMAIN tab.nc \subseteq DOMAIN fs,
         NEW id, id \notin DOMAIN nd, NEW gs, NEW ne, FileCreated(fs, nd, w, id, gs, ne)
  PROVE  Leaves(tab, fs, nd, w, gs, ne)
<1>1. PICK new : new = [path |-> w.path, define |-> TRUE, vars |-> << >>]
  OBVIOUS
<1>2. gs = [fs EXCEPT ![w.nc].nc_id = id] /\ ne = With(nd, id, new)
  BY <1>1 DEF FileCreated
<1>3. ASSUME NEW n \in DOMAIN fs
      PROVE  gs[n].defs = fs[n].defs /\ gs[n].status = fs[n].status /\ (n # w.nc => gs[n] = fs[n])
  <2>1. CASE n = w.nc
    <3>1. gs[n] = [fs[n] EXCEPT !.nc_id = id]
      BY <1>2, <1>3, <2>1
    <3>2. DOMAIN fs[n] = FileFields
      BY <2>1
    <3>3. QED
      BY <2>1, <3>1, <3>2 DEF FileFields
  <2>2. CASE n # w.nc
    BY <1>2, <1>3, <2>2
  <2>3. QED
    BY <2>1, <2>2
<1>4. Idle.op = "none"
  BY DEF Idle
<1>5. \A n \in DOMAIN fs : Unnumbered(gs, Idle, n) = Unnumbered(fs, w, n)
  BY <1>3, <1>4 DEF Unnumbered
<1>6. ASSUME NEW n \in DOMAIN tab.nc, ~Unnumbered(gs, Idle, n)
      PROVE  ne[gs[n].nc_id].vars = nd[fs[n].nc_id].vars
  <2>1. n \in DOMAIN fs
    BY <1>6
  <2>2. fs[n].status # "define"
    BY <1>3, <1>4, <1>6, <2>1 DEF Unnumbered
  <2>3. ~Creating(w, n)
    BY <2>1, <2>2 DEF Flags
  <2>4. n # w.nc /\ fs[n].nc_id \in DOMAIN nd
    BY <2>1, <2>3 DEF Creating, LibraryOk
  <2>5. gs[n] = fs[n]
    BY <1>3, <2>1, <2>4
  <2>6. ne[fs[n].nc_id] = nd[fs[n].nc_id]
    BY <1>2, <2>4 DEF With
  <2>7. QED
    BY <2>5, <2>6
<1>7. QED
  BY <1>3, <1>5, <1>6 DEF Leaves

\* The library has ended the definitions of a file.
LEMMA EnddefLeaves ==
  ASSUME NEW tab, NEW fs, NEW nd, NEW w, LibraryOk(tab, fs, nd, w), w.op = "enddef",
         w.nc \in DOMAIN fs, \A n \in DOMAIN fs : DOMAIN fs[n] = FileFields, DOMAIN tab.nc \subseteq DOMAIN fs,
         NEW gs, NEW ne, FileEnded(fs, nd, w, gs, ne)
  PROVE  Leaves(tab, fs, nd, w, gs, ne)
<1>1. gs = [fs EXCEPT ![w.nc].status = "data"] /\ ne = [nd EXCEPT ![w.id].define = FALSE]
  BY DEF FileEnded
<1>2. ASSUME NEW n \in DOMAIN fs
      PROVE  gs[n].defs = fs[n].defs /\ gs[n].nc_id = fs[n].nc_id
             /\ IF n = w.nc THEN gs[n].status = "data" ELSE gs[n].status = fs[n].status
  <2>1. CASE n = w.nc
    <3>1. gs[n] = [fs[n] EXCEPT !.status = "data"]
      BY <1>1, <1>2, <2>1
    <3>2. DOMAIN fs[n] = FileFields
      BY <1>2
    <3>3. QED
      BY <2>1, <3>1, <3>2 DEF FileFields
  <2>2. CASE n # w.nc
    BY <1>1, <1>2, <2>2
  <2>3. QED
    BY <2>1, <2>2
<1>3. Idle.op = "none"
  BY DEF Idle
<1>4. \A n \in DOMAIN fs : Unnumbered(gs, Idle, n) = Unnumbered(fs, w, n)
  BY <1>2, <1>3 DEF Unnumbered
<1>5. ASSUME NEW n \in DOMAIN tab.nc
      PROVE  ne[gs[n].nc_id].vars = nd[fs[n].nc_id].vars
  <2>1. n \in DOMAIN fs /\ gs[n].nc_id = fs[n].nc_id
    BY <1>2, <1>5
  <2>2. fs[n].nc_id \in DOMAIN nd /\ DOMAIN nd[fs[n].nc_id] = NcFields
    BY <2>1 DEF LibraryOk, Creating
  <2>3. PICK x : x = fs[n].nc_id
    OBVIOUS
  <2>4. ne[x].vars = nd[x].vars
    <3>1. CASE x = w.id
      <4>1. ne[x] = [nd[x] EXCEPT !.define = FALSE]
        BY <1>1, <2>2, <2>3, <3>1
      <4>2. QED
        BY <2>2, <2>3, <4>1 DEF NcFields
    <3>2. CASE x # w.id
      BY <1>1, <2>2, <2>3, <3>2
    <3>3. QED
      BY <3>1, <3>2
  <2>5. QED
    BY <2>1, <2>3, <2>4
<1>6. QED
  BY <1>2, <1>4, <1>5 DEF Leaves

\* The library has written data.
LEMMA PutVaraLeaves ==
  ASSUME NEW tab, NEW fs, NEW nd, NEW w, w.op = "put_vara"
  PROVE  Leaves(tab, fs, nd, w, fs, nd)
<1>1. Idle.op = "none"
  BY DEF Idle
<1>2. \A n : Unnumbered(fs, Idle, n) = Unnumbered(fs, w, n)
  BY <1>1 DEF Unnumbered
<1>3. QED
  BY <1>2 DEF Leaves

\* The library has closed a file.
LEMMA CloseLeaves ==
  ASSUME NEW tab, NEW fs, NEW nd, NEW w, LibraryOk(tab, fs, nd, w), w.op = "close",
         w.nc \in DOMAIN fs, w.nc \notin DOMAIN tab.nc, DOMAIN tab.nc \subseteq DOMAIN fs,
         NEW gs, gs = Without(fs, w.nc), NEW ne, ne = Without(nd, w.id)
  PROVE  Leaves(tab, fs, nd, w, gs, ne)
<1>1. Idle.op = "none"
  BY DEF Idle
<1>2. ASSUME NEW n \in DOMAIN tab.nc
      PROVE  /\ gs[n] = fs[n] /\ Unnumbered(gs, Idle, n) = Unnumbered(fs, w, n)
             /\ ne[gs[n].nc_id].vars = nd[fs[n].nc_id].vars
  <2>1. n \in DOMAIN fs /\ n # w.nc
    BY <1>2
  <2>2. gs[n] = fs[n]
    BY <2>1 DEF Without
  <2>3. Unnumbered(gs, Idle, n) = Unnumbered(fs, w, n)
    BY <1>1, <2>2 DEF Unnumbered
  <2>4. fs[n].nc_id \in DOMAIN nd /\ fs[n].nc_id # w.id
    BY <2>1 DEF LibraryOk, Creating, WaitsFor
  <2>5. ne[fs[n].nc_id] = nd[fs[n].nc_id]
    BY <2>4 DEF Without
  <2>6. QED
    BY <2>2, <2>3, <2>5
<1>3. QED
  BY <1>2 DEF Leaves

(* What is written when a library call returns. *)
ReturnEntry(w) ==
  IF w.op = "put_vara" THEN Entry(w.op, w.path, w.name, << >>, w.from)
                       ELSE Entry(w.op, w.path, "", << >>, {})

\* With that, the k-th call is made.
LEMMA LogLeft ==
  ASSUME NEW prog, Proper(prog), NEW k \in 1..Len(prog), NEW w, w.op = prog[k].op,
         w.op \in {"create", "enddef", "put_vara", "close"}, CallHolds(prog, k, w),
         NEW i, NEW lg, LogHolds(prog, k, i, w, lg)
  PROVE  Owed(prog, k) = Append(lg, ReturnEntry(w))
<1>1. k \in DOMAIN prog
  <2>1. PICK S : prog \in Seq(S)
    BY DEF Proper
  <2>2. QED
    BY <2>1
<1>2. w.path = prog[k].path /\ (w.op = "put_vara" => w.name = prog[k].name /\ w.from = {k})
  BY DEF CallHolds
<1>3. prog[k].op \in {"create", "enddef", "close"} => prog[k].name = ""
  BY <1>1 DEF Proper
<1>4. PICK e : e = ReturnEntry(w)
  OBVIOUS
<1>5. Done1(prog, k, IF w.op = "put_vara" THEN {k} ELSE {}) = <<e>>
  BY <1>2, <1>3, <1>4 DEF Done1, ReturnEntry
<1>6. /\ Owed(prog, k - 1) \in Seq(Entries(prog)) /\ Owed(prog, k) = Owed(prog, k - 1) \o Does(prog, k)
  BY OwedNext
<1>7. FlattenSeq(Blocks(prog, k - 1, prog[k].path)) \in Seq(Entries(prog))
  BY DoesTyped
<1>8. <<e>> \in Seq(Entries(prog))
  <2>1. \A from \in SUBSET (DOMAIN prog) : Done1(prog, k, from) \in Seq(Entries(prog))
    BY DoesTyped
  <2>2. QED
    BY <1>1, <1>5, <2>1
<1>9. PICK V, a, b : V = Entries(prog) /\ a = Owed(prog, k - 1) /\ b = FlattenSeq(Blocks(prog, k - 1, prog[k].path))
  OBVIOUS
<1>10. a \in Seq(V) /\ b \in Seq(V) /\ e \in V
  BY <1>6, <1>7, <1>8, <1>9
<1>11. CASE w.op = "enddef"
  <2>1. lg = a \o b /\ ~EndedBy(prog, k - 1, prog[k].path)
    BY <1>9, <1>11 DEF LogHolds
  <2>2. Done1(prog, k, {}) = <<e>>
    BY <1>5, <1>11
  <2>3. Does(prog, k) = b \o <<e>>
    BY <1>9, <1>11, <2>1, <2>2 DEF Does
  <2>4. Owed(prog, k) = a \o (b \o <<e>>)
    BY <1>6, <1>9, <2>3
  <2>5. a \o (b \o <<e>>) = Append(a \o b, e)
    BY <1>10
  <2>6. QED
    BY <1>4, <2>1, <2>4, <2>5
<1>12. CASE w.op # "enddef"
  <2>1. lg = a
    BY <1>9, <1>12 DEF LogHolds
  <2>2. Does(prog, k) = <<e>>
    <3>1. CASE w.op = "put_vara"
      BY <1>5, <3>1 DEF Does
    <3>2. CASE w.op \in {"create", "close"}
      BY <1>5, <3>2 DEF Does
    <3>3. QED
      BY <1>12, <3>1, <3>2
  <2>3. Owed(prog, k) = a \o <<e>>
    BY <1>6, <1>9, <2>2
  <2>4. a \o <<e>> = Append(a, e)
    BY <1>10
  <2>5. QED
    BY <1>4, <2>1, <2>3, <2>4
<1>13. QED
  BY <1>11, <1>12

\* The k-th call is done with, or the server waits for the other messages.
LEMMA WritesReturned ==
  ASSUME NEW h, Works(h), NEW s \in Servers, UNCHANGED <<calls, turn>>, Taken(s)' = Taken(s),
         waiting'[s] = Idle, waiting[s].op \in {"create", "enddef", "put_vara", "close"},
         Leaves(h[Taken(s)], files[s], netcdf[s], waiting[s], files'[s], netcdf'[s]),
         log'[s] = Append(log[s], ReturnEntry(waiting[s]))
  PROVE  Writes(h, s)'
<1>1. AllOpen(h) /\ Proper(calls) /\ Clean(h, s) /\ Writes(h, s)
  BY DEF Works
<1>2. PICK k, prog, call, key, tab, fs, gs, nd, ne, w, i, lg, new :
        /\ k = Taken(s) /\ prog = calls /\ call = calls[k] /\ key = KeyOf(h[k - 1], calls[k])
        /\ tab = h[k] /\ fs = files[s] /\ gs = files'[s] /\ nd = netcdf[s] /\ ne = netcdf'[s]
        /\ w = waiting[s] /\ i = turn[s] /\ lg = log[s] /\ new = log'[s]
  OBVIOUS
<1>3. w.op \in {"create", "enddef", "put_vara", "close"} /\ Idle.op = "none"
  BY <1>2 DEF Idle
<1>4. /\ k \in 1..Len(prog) /\ k \in Nat \ {0} /\ Done(s) = k - 1 /\ w.op = call.op /\ call = prog[k]
      /\ w.op = "create" \/ i = 1
  <2>1. waiting[s].op # "none"
    BY <1>2, <1>3
  <2>2. /\ k \in 1..Len(calls) /\ k \in Nat \ {0} /\ Done(s) = k - 1 /\ w.op = calls[k].op
        /\ w.op = "create" \/ turn[s] = 1
    BY <1>1, <1>2, <2>1, CallOver
  <2>3. QED
    BY <1>2, <2>2
<1>5. Holding(prog, k, k - 1, call, key, s, tab, fs, nd, w, i, lg)
  BY <1>1, <1>2, <1>4 DEF Writes
<1>6. /\ FilesHold(prog, k, k - 1, tab, fs, w) /\ VarsHold(tab, fs, nd, w)
      /\ CallHolds(prog, k, w) /\ LogHolds(prog, k, i, w, lg)
  BY <1>5 DEF Holding
<1>7. Leaves(tab, fs, nd, w, gs, ne) /\ new = Append(lg, ReturnEntry(w))
  BY <1>2
<1>8. FilesHold(prog, k, k - 1, tab, gs, Idle) /\ VarsHold(tab, gs, ne, Idle)
  <2>1. PICK j : j = k - 1
    OBVIOUS
  <2>2. FilesHold(prog, k, j, tab, fs, w)
    BY <1>6, <2>1
  <2>3. FilesHold(prog, k, j, tab, gs, Idle) /\ VarsHold(tab, gs, ne, Idle)
    BY <1>6, <1>7, <2>2, FilesLeft
  <2>4. QED
    BY <2>1, <2>3
<1>9. Proper(prog)
  BY <1>1, <1>2
<1>10. PICK j : j = (IF i = 1 THEN k ELSE k - 1)
  OBVIOUS
<1>11. FilesHold(prog, k, j, tab, gs, Idle)
  <2>1. j \in {k - 1, k} /\ prog[k].op # "put_att"
    BY <1>3, <1>4, <1>10
  <2>2. PICK idle : idle = Idle
    OBVIOUS
  <2>3. FilesHold(prog, k, k - 1, tab, gs, idle)
    BY <1>8, <2>2
  <2>4. FilesHold(prog, k, j, tab, gs, idle)
    BY <1>4, <1>9, <2>1, <2>3, FilesAfter
  <2>5. QED
    BY <2>2, <2>4
<1>12. /\ PartsHold(s, call, key, k, gs, i) /\ CloseHolds(call, key, gs, ne, i) /\ CallHolds(prog, k, Idle)
  BY <1>3, <1>4 DEF PartsHold, CloseHolds, CallHolds
<1>13. Owed(prog, k) = new
  BY <1>3, <1>4, <1>6, <1>7, <1>9, LogLeft
<1>14. LogHolds(prog, k, i, Idle, new)
  BY <1>3, <1>4, <1>13 DEF LogHolds
<1>15. Holding(prog, k, j, call, key, s, tab, gs, ne, Idle, i, new)
  BY <1>8, <1>11, <1>12, <1>14 DEF Holding
<1>16. Done(s)' = j
  BY <1>2, <1>3, <1>10 DEF Done
<1>17. /\ Taken(s)' = k /\ h[Taken(s)'] = tab /\ calls'[Taken(s)'] = call /\ calls' = prog
       /\ KeyOf(h[Taken(s)' - 1], calls'[Taken(s)']) = key /\ turn'[s] = i
       /\ files'[s] = gs /\ netcdf'[s] = ne /\ waiting'[s] = Idle /\ log'[s] = new
  BY <1>2
<1>18. QED
  BY <1>15, <1>16, <1>17 DEF Writes

\* The library call returns to every server, which has made it then.
LEMMA ReturnWrites ==
  ASSUME NEW h, Works(h), CollectiveReturns, CreateFails = FALSE
  PROVE  DOMAIN log' = Servers
         /\ \A s \in Servers : Writes(h, s)' /\ log'[s] = Append(log[s], ReturnEntry(waiting[s]))
<1>1. /\ UNCHANGED <<calls, made, inbox, turn>>
      /\ waiting' = [o \in Servers |-> Idle]
  BY DEF CollectiveReturns, CreateReturns, EnddefReturns, PutVaraReturns, CloseReturns, Return,
      clientVars
<1>2. DOMAIN log' = Servers
  BY DEF CollectiveReturns, CreateReturns, EnddefReturns, PutVaraReturns, CloseReturns, LogCall
<1>3. ASSUME NEW s \in Servers
      PROVE  Writes(h, s)' /\ log'[s] = Append(log[s], ReturnEntry(waiting[s]))
  <2>1. AllOpen(h) /\ Clean(h, s)
    BY DEF Works
  <2>2. Taken(s)' = Taken(s) /\ waiting'[s] = Idle
    BY <1>1 DEF Taken, Decoded
  <2>3. PICK fs, nd, w, tab : fs = files[s] /\ nd = netcdf[s] /\ w = waiting[s] /\ tab = h[Taken(s)]
    OBVIOUS
  <2>4. /\ LibraryOk(tab, fs, nd, w) /\ DOMAIN tab.nc \subseteq DOMAIN fs
        /\ \A n \in DOMAIN fs : DOMAIN fs[n] = FileFields
        /\ w.op \in {"create", "enddef", "close"} => w.nc \in DOMAIN fs
        /\ w.op = "close" => w.nc \notin DOMAIN tab.nc
    BY <2>1, <2>3, InCall
  <2>5. w.op \in {"create", "enddef", "put_vara", "close"}
    BY <2>3 DEF CollectiveReturns, CreateReturns, EnddefReturns, PutVaraReturns, CloseReturns,
        Together
  <2>6. Flags(fs, nd, w)
    BY <2>1, <2>3 DEF Clean
  <2>7. ASSUME NEW gs, NEW ne, files'[s] = gs, netcdf'[s] = ne, Leaves(tab, fs, nd, w, gs, ne),
               log'[s] = Append(log[s], ReturnEntry(w))
        PROVE  Writes(h, s)' /\ log'[s] = Append(log[s], ReturnEntry(waiting[s]))
    BY <1>1, <2>2, <2>3, <2>5, <2>7, WritesReturned
  <2>8. CASE CreateReturns
    <3>1. /\ w.op = "create"
          /\ files' = [o \in Servers |-> [files[o] EXCEPT ![waiting[o].nc].nc_id = NewNcId(o)]]
          /\ netcdf' = [o \in Servers |->
               With(netcdf[o], NewNcId(o), [path |-> waiting[o].path, define |-> TRUE, vars |-> << >>])]
          /\ LogCall("", NoData)
      BY <2>3, <2>8 DEF CreateReturns, Together
    <3>2. PICK id : id = NewNcId(s)
      OBVIOUS
    <3>3. id \notin DOMAIN nd
      BY <2>3, <2>4, <3>2, NewNcIdFree DEF LibraryOk
    <3>4. PICK gs, ne : /\ gs = [fs EXCEPT ![w.nc].nc_id = id]
                        /\ ne = With(nd, id, [path |-> w.path, define |-> TRUE, vars |-> << >>])
      OBVIOUS
    <3>5. files'[s] = gs /\ netcdf'[s] = ne
      BY <2>3, <3>1, <3>2, <3>4
    <3>6. w.nc \in DOMAIN fs /\ DOMAIN fs[w.nc] = FileFields
      BY <2>4, <3>1
    <3>7. FileCreated(fs, nd, w, id, gs, ne)
      BY <3>4 DEF FileCreated
    <3>8. Leaves(tab, fs, nd, w, gs, ne)
      BY <2>4, <2>6, <3>1, <3>3, <3>6, <3>7, CreateLeaves
    <3>9. log'[s] = Append(log[s], Entry(w.op, w.path, "", << >>, {}))
      BY <2>3, <3>1 DEF LogCall, NoData
    <3>10. log'[s] = Append(log[s], ReturnEntry(w))
      BY <3>1, <3>9 DEF ReturnEntry
    <3>11. QED
      BY <2>7, <3>5, <3>8, <3>10
  <2>9. CASE EnddefReturns
    <3>1. /\ w.op = "enddef"
          /\ files' = [o \in Servers |-> [files[o] EXCEPT ![waiting[o].nc].status = "data"]]
          /\ netcdf' = [o \in Servers |-> [netcdf[o] EXCEPT ![waiting[o].id].define = FALSE]]
          /\ LogCall("", NoData)
      BY <2>3, <2>9 DEF EnddefReturns, Together
    <3>2. PICK gs, ne : /\ gs = [fs EXCEPT ![w.nc].status = "data"]
                        /\ ne = [nd EXCEPT ![w.id].define = FALSE]
      OBVIOUS
    <3>3. files'[s] = gs /\ netcdf'[s] = ne
      BY <2>3, <3>1, <3>2
    <3>4. FileEnded(fs, nd, w, gs, ne)
      BY <3>2 DEF FileEnded
    <3>5. w.nc \in DOMAIN fs
      BY <2>4, <3>1
    <3>6. Leaves(tab, fs, nd, w, gs, ne)
      BY <2>4, <3>1, <3>4, <3>5, EnddefLeaves
    <3>7. log'[s] = Append(log[s], Entry(w.op, w.path, "", << >>, {}))
      BY <2>3, <3>1 DEF LogCall, NoData
    <3>8. log'[s] = Append(log[s], ReturnEntry(w))
      BY <3>1, <3>7 DEF ReturnEntry
    <3>9. QED
      BY <2>7, <3>3, <3>6, <3>8
  <2>10. CASE PutVaraReturns
    <3>1. /\ w.op = "put_vara" /\ UNCHANGED <<files, netcdf>>
          /\ \A o, t \in Servers : waiting[o].name = waiting[t].name
          /\ LogCall((CHOOSE v \in {waiting[o] : o \in Servers} : TRUE).name, [o \in Servers |-> waiting[o].from])
      BY <2>3, <2>10 DEF PutVaraReturns, Together
    <3>2. PICK v : v = CHOOSE x \in {waiting[o] : o \in Servers} : TRUE
      OBVIOUS
    <3>3. v.name = w.name
      <4>1. v \in {waiting[o] : o \in Servers}
        BY <3>2
      <4>2. PICK o \in Servers : v = waiting[o]
        BY <4>1
      <4>3. QED
        BY <2>3, <3>1, <4>2
    <3>4. log'[s] = Append(log[s], Entry(w.op, w.path, w.name, << >>, w.from))
      BY <2>3, <3>1, <3>2, <3>3 DEF LogCall
    <3>5. log'[s] = Append(log[s], ReturnEntry(w))
      BY <3>1, <3>4 DEF ReturnEntry
    <3>6. Leaves(tab, fs, nd, w, fs, nd)
      BY <3>1, PutVaraLeaves
    <3>7. files'[s] = fs /\ netcdf'[s] = nd
      BY <2>3, <3>1
    <3>8. QED
      BY <2>7, <3>5, <3>6, <3>7
  <2>11. CASE CloseReturns
    <3>1. /\ w.op = "close"
          /\ files' = [o \in Servers |-> Without(files[o], waiting[o].nc)]
          /\ netcdf' = [o \in Servers |-> Without(netcdf[o], waiting[o].id)]
          /\ LogCall("", NoData)
      BY <2>3, <2>11 DEF CloseReturns, Together, Closed
    <3>2. PICK gs, ne : gs = Without(fs, w.nc) /\ ne = Without(nd, w.id)
      OBVIOUS
    <3>3. files'[s] = gs /\ netcdf'[s] = ne
      BY <2>3, <3>1, <3>2
    <3>4. w.nc \in DOMAIN fs /\ w.nc \notin DOMAIN tab.nc
      BY <2>4, <3>1
    <3>5. Leaves(tab, fs, nd, w, gs, ne)
      BY <2>4, <3>1, <3>2, <3>4, CloseLeaves
    <3>6. log'[s] = Append(log[s], Entry(w.op, w.path, "", << >>, {}))
      BY <2>3, <3>1 DEF LogCall, NoData
    <3>7. log'[s] = Append(log[s], ReturnEntry(w))
      BY <3>1, <3>6 DEF ReturnEntry
    <3>8. QED
      BY <2>7, <3>3, <3>5, <3>7
  <2>12. QED
    BY <2>8, <2>9, <2>10, <2>11 DEF CollectiveReturns
<1>4. QED
  BY <1>2, <1>3

(***************************************************************************)
(* Programs.  More calls are added to them while the first are taken.       *)
(***************************************************************************)

(* What a call carries. *)
Carries(prog, call) ==
  /\ call.op \in {"create", "enddef", "close"} => call.name = ""
  /\ call.op = "def_dim" => call.dims = << >>
  /\ call.op \in {"put_att", "put_vara"} =>
       call.name \in Named(prog, "def_var", call.path) \cup IF call.op = "put_att" THEN {Global} ELSE {}

\* What is in a call.
LEMMA CallIs ==
  ASSUME NEW op, NEW p, NEW name, NEW dims, NEW call, call = CallOf(op, p, name, dims)
  PROVE  call.op = op /\ call.path = p /\ call.name = name /\ call.dims = dims
BY DEF CallOf

\* The calls of a program.
LEMMA ProgramCarries ==
  ASSUME NEW prog, NEW call \in ProgramCalls(prog)
  PROVE  Carries(prog, call)
<1>1. CASE call \in {CallOf("create", p, "", << >>) : p \in {q \in Paths : ~Did(prog, "create", q)}}
  <2>1. PICK p, dims : call = CallOf("create", p, "", dims)
    BY <1>1, Zenon
  <2>2. call.op = "create" /\ call.name = ""
    BY <2>1 DEF CallOf
  <2>3. QED
    BY <2>2 DEF Carries
<1>2. CASE \E p \in Paths : call \in CallsOn(prog, p)
  <2>1. PICK p \in Paths : call \in CallsOn(prog, p)
    BY <1>2
  <2> DEFINE define == Defining(prog, p) \/ "late" \in Misuse
             data == ~Defining(prog, p) \/ "early" \in Misuse
             vs == Named(prog, "def_var", p)
             D1 == {CallOf("def_dim", p, d, << >>) : d \in IF define THEN DimNames ELSE {}}
             D2 == {CallOf("def_var", p, v, ds) : v \in IF define THEN VarNames ELSE {},
                        ds \in {<< >>} \cup {<<d>> : d \in Named(prog, "def_dim", p)}}
             D3 == {CallOf("put_att", p, v, << >>) : v \in IF define THEN vs \cup {Global} ELSE {}}
             D4 == {CallOf("put_vara", p, v, << >>) : v \in IF data THEN vs ELSE {}}
             D5 == {CallOf("enddef", p, "", << >>)}
             D6 == {CallOf("close", p, "", << >>) : r \in {q \in {p} : ~Defining(prog, q)}}
  <2>2. CallsOn(prog, p) = D1 \cup D2 \cup D3 \cup D4 \cup D5 \cup D6
    BY DEF CallsOn
  <2>3. ASSUME call \in D1 PROVE Carries(prog, call)
    <3> HIDE DEF define
    <3>1. PICK d : call = CallOf("def_dim", p, d, << >>)
      BY <2>3
    <3>2. call.op = "def_dim" /\ call.dims = << >>
      BY <3>1, CallIs
    <3>3. QED
      BY <3>2 DEF Carries
  <2>4. ASSUME call \in D2 PROVE Carries(prog, call)
    <3> HIDE DEF define
    <3>1. PICK v, ds : call = CallOf("def_var", p, v, ds)
      BY <2>4
    <3>2. call.op = "def_var"
      BY <3>1, CallIs
    <3>3. QED
      BY <3>2 DEF Carries
  <2>5. ASSUME call \in D3 PROVE Carries(prog, call)
    <3> HIDE DEF define, vs
    <3>1. PICK v : v \in vs \cup {Global} /\ call = CallOf("put_att", p, v, << >>)
      BY <2>5
    <3>2. call.op = "put_att" /\ call.name = v /\ call.path = p
      BY <3>1, CallIs
    <3>3. call.name \in Named(prog, "def_var", call.path) \cup {Global}
      BY <3>1, <3>2 DEF vs
    <3>4. QED
      BY <3>2, <3>3 DEF Carries
  <2>6. ASSUME call \in D4 PROVE Carries(prog, call)
    <3> HIDE DEF data, vs
    <3>1. PICK v : v \in vs /\ call = CallOf("put_vara", p, v, << >>)
      BY <2>6
    <3>2. call.op = "put_vara" /\ call.name = v /\ call.path = p
      BY <3>1, CallIs
    <3>3. call.name \in Named(prog, "def_var", call.path)
      BY <3>1, <3>2 DEF vs
    <3>4. QED
      BY <3>2, <3>3 DEF Carries
  <2>7. ASSUME call \in D5 \cup D6 PROVE Carries(prog, call)
    <3>1. PICK op \in {"enddef", "close"} : call = CallOf(op, p, "", << >>)
      BY <2>7
    <3>2. call.op = op /\ call.path = p /\ call.name = "" /\ call.dims = << >>
      BY <3>1 DEF CallOf
    <3>3. QED
      BY <3>2 DEF Carries
  <2> HIDE DEF define, data, D1, D2, D3, D4, D5, D6
  <2>8. QED
    BY <2>1, <2>2, <2>3, <2>4, <2>5, <2>6, <2>7
<1>3. QED
  BY <1>1, <1>2 DEF ProgramCalls

(* What Proper says of the k-th call. *)
ProperAt(prog, k) ==
  /\ prog[k].op \in Ops
  /\ prog[k].op = "put_vara" => DefinedBefore(prog, k)
  /\ prog[k].op = "put_att" => prog[k].name = Global \/ DefinedBefore(prog, k)
  /\ prog[k].op \in {"create", "enddef", "close"} => prog[k].name = ""
  /\ prog[k].op = "def_dim" => prog[k].dims = << >>
  /\ prog[k].op = "def_var" => prog[k].name # Global /\ \E D : prog[k].dims \in Seq(D)
  /\ prog[k].op = "create" => \A j \in 1..(k - 1) : prog[j].path # prog[k].path

\* A proper program goes on properly.
LEMMA ProperMore ==
  ASSUME Misuse = {}, NEW h, NEW prog, Hist(h, prog), Proper(prog), NEW call \in ProgramCalls(prog),
         NEW more, more = Append(prog, call)
  PROVE  Proper(more)
<1>0. Orderly(prog) /\ Orderly(more)
  BY OrderlyMore DEF Proper
<1>1. PICK S : prog \in Seq(S)
  BY DEF Hist
<1>2. PICK n : n = Len(prog) /\ n \in Nat /\ DOMAIN prog = 1..n
  BY <1>1
<1>3. /\ DOMAIN more = 1..(n + 1) /\ more \in Seq(S \cup {call})
      /\ more[n + 1] = call /\ \A i \in 1..n : more[i] = prog[i]
  <2>1. prog \in Seq(S \cup {call})
    BY <1>1, SeqMore
  <2>2. QED
    BY <1>2, <2>1
<1>4. PICK t : TableOk(t) /\ Sound(t, prog)
  <2>1. n \in 0..n
    BY <1>2
  <2>2. QED
    BY <1>2, <2>1 DEF Hist
<1>5. Fits(t, call) /\ (call.op = "create" => ~Did(prog, "create", call.path))
  BY <1>4, ProgramFits
<1>6. Carries(prog, call)
  BY ProgramCarries
<1>7. PICK k : /\ k = n + 1 /\ more[k] = call
               /\ \A j \in 1..(k - 1) : j \in DOMAIN prog /\ more[j] = prog[j]
               /\ \A j \in DOMAIN prog : j \in 1..(k - 1)
  BY <1>2, <1>3
<1>8. ProperAt(more, k)
  <2>1. call.op \in Ops
    BY <1>5 DEF Fits
  <2>2. ASSUME call.name \in Named(prog, "def_var", call.path) PROVE DefinedBefore(more, k)
    <3>1. PICK j \in DOMAIN prog : prog[j].op = "def_var" /\ prog[j].path = call.path /\ prog[j].name = call.name
      BY <2>2 DEF Named
    <3>2. j \in 1..(k - 1) /\ more[j] = prog[j]
      BY <1>7, <3>1
    <3>3. more[j].op = "def_var" /\ more[j].path = more[k].path /\ more[j].name = more[k].name
      BY <1>7, <3>1, <3>2
    <3>4. QED
      BY <3>2, <3>3 DEF DefinedBefore
  <2>3. /\ call.op = "put_vara" => DefinedBefore(more, k)
        /\ call.op = "put_att" => call.name = Global \/ DefinedBefore(more, k)
    BY <1>6, <2>2 DEF Carries
  <2>4. /\ call.op \in {"create", "enddef", "close"} => call.name = ""
        /\ call.op = "def_dim" => call.dims = << >>
    BY <1>6 DEF Carries
  <2>5. call.op = "def_var" => call.name # Global /\ \E D : call.dims \in Seq(D)
    BY <1>5, ProgramAssumption DEF Fits
  <2>6. ASSUME call.op = "create", NEW j \in 1..(k - 1) PROVE more[j].path # call.path
    <3>1. j \in DOMAIN prog /\ more[j] = prog[j]
      BY <1>7
    <3>2. Did(prog, "create", prog[j].path)
      BY <1>4, <3>1 DEF Sound
    <3>3. QED
      BY <1>5, <2>6, <3>1, <3>2
  <2>7. QED
    BY <1>7, <2>1, <2>3, <2>4, <2>5, <2>6 DEF ProperAt
<1>9. ASSUME NEW i \in 1..n PROVE ProperAt(more, i)
  <2>1. ProperAt(prog, i)
    BY <1>2 DEF Proper, ProperAt
  <2>2. more[i] = prog[i] /\ \A j \in 1..(i - 1) : more[j] = prog[j]
    BY <1>2, <1>3
  <2>3. DefinedBefore(prog, i) => DefinedBefore(more, i)
    BY <2>2 DEF DefinedBefore
  <2>4. PICK x : x = prog[i] /\ x = more[i]
    BY <2>2
  <2>5. QED
    BY <2>1, <2>2, <2>3, <2>4 DEF ProperAt
<1>10. \A i \in DOMAIN more : ProperAt(more, i)
  <2>1. ASSUME NEW i \in 1..(n + 1) PROVE i = k \/ i \in 1..n
    BY <1>2, <1>7
  <2>2. QED
    BY <1>3, <1>8, <1>9, <2>1
<1>11. QED
  BY <1>0, <1>3, <1>10 DEF Proper, ProperAt

\* Clients make proper calls.
LEMMA ClientProper ==
  ASSUME Misuse = {}, NEW h, Serves(h), Proper(calls), NEW c \in Clients, Client(c)
  PROVE  Proper(calls')
<1>1. Hist(h, calls) /\ made[c] \in 0..Len(calls) /\ Len(calls) \in Nat
  BY ProgramAssumption DEF Serves, Followed
<1>2. PICK call \in NextCalls(c) : calls' = IF made[c] < Len(calls) THEN calls ELSE Append(calls, call)
  BY DEF Client
<1>3. CASE made[c] < Len(calls)
  BY <1>2, <1>3
<1>4. CASE ~(made[c] < Len(calls))
  <2>1. call \in ProgramCalls(calls)
    BY <1>1, <1>2, <1>4 DEF NextCalls
  <2>2. QED
    BY <1>1, <1>2, <1>4, <2>1, ProperMore
<1>5. QED
  BY <1>3, <1>4

\* The header of a file, in a longer program.
LEMMA BlocksSame ==
  ASSUME NEW prog, NEW more, NEW k \in Nat, SameFirst(prog, more, k), NEW p
  PROVE  Blocks(more, k, p) = Blocks(prog, k, p)
<1>1. PICK fd : fd = InOrder(FirstBy(prog, k, p)) /\ fd = InOrder(FirstBy(more, k, p))
  <2>1. FirstBy(more, k, p) = FirstBy(prog, k, p)
    BY FirstSame
  <2>2. QED
    BY <2>1
<1>2. ASSUME NEW x \in DOMAIN fd PROVE Block(more, k, fd[x]) = Block(prog, k, fd[x])
  <2>1. PICK i : i = fd[x]
    OBVIOUS
  <2>2. i \in 1..k
    <3>1. fd = InOrder(FirstBy(prog, k, p))
      BY <1>1
    <3>2. QED
      BY <2>1, <3>1, Firsts
  <2>3. more[i] = prog[i] /\ AttsOf(more, k, i) = AttsOf(prog, k, i)
    <3>1. k \in 0..k
      OBVIOUS
    <3>2. QED
      BY <2>2, <3>1, FirstSame DEF SameFirst
  <2>4. AttEntries(more, k, i) = AttEntries(prog, k, i)
    BY <2>3 DEF AttEntries
  <2>5. Block(more, k, i) = Block(prog, k, i)
    BY <2>3, <2>4 DEF Block
  <2>6. QED
    BY <2>1, <2>5
<1>3. PICK b : b = [x \in DOMAIN fd |-> Block(prog, k, fd[x])]
  OBVIOUS
<1>4. Blocks(prog, k, p) = b
  BY <1>1, <1>3 DEF Blocks
<1>5. Blocks(more, k, p) = [x \in DOMAIN fd |-> Block(more, k, fd[x])]
  BY <1>1 DEF Blocks
<1>6. QED
  BY <1>2, <1>3, <1>4, <1>5

\* The calls made are those of the longer program.
LEMMA LogLonger ==
  ASSUME NEW h, NEW prog, NEW g, NEW more, Longer(h, prog, g, more), Proper(prog), Proper(more),
         NEW S, prog \in Seq(S), more \in Seq(S),
         NEW k \in 1..Len(prog), NEW i, NEW w, NEW lg, LogHolds(prog, k, i, w, lg)
  PROVE  LogHolds(more, k, i, w, lg)
<1>1. k \in 0..Len(prog) /\ k - 1 \in 0..Len(prog) /\ k - 1 \in Nat
  OBVIOUS
<1>2. more[k] = prog[k] /\ SameFirst(prog, more, k - 1)
  <2>1. \A x \in 1..Len(prog) : more[x] = prog[x]
    BY DEF Longer
  <2>2. \A x \in 1..(k - 1) : x \in 1..Len(prog)
    OBVIOUS
  <2>3. QED
    BY <2>1, <2>2 DEF SameFirst
<1>3. PICK p, j : p = prog[k].path /\ j = k - 1
  OBVIOUS
<1>4. Owed(more, k) = Owed(prog, k) /\ Owed(more, j) = Owed(prog, j)
  BY <1>1, <1>3, OwedSame
<1>5. Blocks(more, j, p) = Blocks(prog, j, p) /\ (EndedBy(more, j, p) <=> EndedBy(prog, j, p))
  BY <1>1, <1>2, <1>3, BlocksSame, FirstSame
<1>6. /\ Owed(more, k - 1) = Owed(prog, k - 1) /\ Blocks(more, k - 1, p) = Blocks(prog, k - 1, p)
      /\ EndedBy(more, k - 1, p) <=> EndedBy(prog, k - 1, p)
  BY <1>3, <1>4, <1>5
<1>7. CASE w.op = "enddef"
  BY <1>2, <1>3, <1>6, <1>7 DEF LogHolds
<1>8. CASE w.op # "enddef"
  BY <1>2, <1>4, <1>6, <1>8 DEF LogHolds
<1>9. QED
  BY <1>7, <1>8

\* Nothing is taken and done yet.
LEMMA NothingTaken ==
  ASSUME NEW h, NEW s, Clean(h, s), Taken(s) = 0
  PROVE  turn[s] = 1 /\ waiting[s].op = "none" /\ Done(s) = 0
<1>1. turn[s] = 1 /\ waiting[s].op = "none"
  BY DEF Clean, CallWaits
<1>2. QED
  BY <1>1 DEF Done

\* A server has done what it had when the program gets longer.
LEMMA ClientWrites ==
  ASSUME NEW h, Works(h), NEW s \in Servers, NEW g, Longer(h, calls, g, calls'), Proper(calls'),
         Taken(s)' = Taken(s), UNCHANGED <<turn, files, requests, waiting, netcdf, log>>
  PROVE  Writes(g, s)'
<1>1. Serves(h) /\ Proper(calls) /\ Clean(h, s) /\ Writes(h, s)
  BY DEF Works, AllOpen
<1>2. PICK prog, more, k, n : prog = calls /\ more = calls' /\ k = Taken(s) /\ n = Len(calls)
  OBVIOUS
<1>3. k \in 0..n /\ n \in Nat /\ k \in Nat
  BY <1>1, <1>2, TakenType
<1>4. /\ \A x \in 1..n : more[x] = prog[x]
      /\ \A x \in 0..n : g[x] = h[x]
  BY <1>2 DEF Longer
<1>5. PICK fs, w, i, nd, lg, j : /\ fs = files[s] /\ w = waiting[s] /\ i = turn[s] /\ nd = netcdf[s]
                                 /\ lg = log[s] /\ j = Done(s)
  OBVIOUS
<1>6. /\ files'[s] = fs /\ waiting'[s] = w /\ turn'[s] = i /\ netcdf'[s] = nd /\ log'[s] = lg
      /\ Taken(s)' = k
  BY <1>2, <1>5
<1>7. Done(s)' = j
  BY <1>2, <1>5, <1>6 DEF Done
<1>8. Holding(prog, k, j, prog[k], KeyOf(h[k - 1], prog[k]), s, h[k], fs, nd, w, i, lg)
  BY <1>1, <1>2, <1>5 DEF Writes
<1>9. /\ FilesHold(prog, k, j, h[k], fs, w) /\ VarsHold(h[k], fs, nd, w)
      /\ PartsHold(s, prog[k], KeyOf(h[k - 1], prog[k]), k, fs, i)
      /\ CloseHolds(prog[k], KeyOf(h[k - 1], prog[k]), fs, nd, i)
      /\ CallHolds(prog, k, w) /\ LogHolds(prog, k, i, w, lg)
  BY <1>8 DEF Holding
<1>10. g[k] = h[k]
  BY <1>3, <1>4
<1>11. SameFirst(prog, more, k)
  <2>1. \A x \in 1..k : x \in 1..n
    BY <1>3
  <2>2. QED
    BY <1>4, <2>1 DEF SameFirst
<1>12. j \in 0..k
  <2>1. CASE k = 0
    <3>1. j = 0
      BY <1>1, <1>2, <1>5, <2>1, NothingTaken
    <3>2. QED
      BY <2>1, <3>1
  <2>2. CASE k # 0
    <3>1. j \in {k, k - 1}
      BY <1>2, <1>5 DEF Done
    <3>2. QED
      BY <1>3, <2>2, <3>1
  <2>3. QED
    BY <2>1, <2>2
<1>13. FilesHold(more, k, j, g[k], fs, w) /\ VarsHold(g[k], fs, nd, w)
  <2>1. ASSUME NEW nc \in DOMAIN h[k].nc
        PROVE  Holds(more, k, j, h[k].nc[nc].path, fs[nc].defs, Unnumbered(fs, w, nc))
    <3>1. PICK p, defs, raw : p = h[k].nc[nc].path /\ defs = fs[nc].defs /\ raw = Unnumbered(fs, w, nc)
      OBVIOUS
    <3>2. Holds(prog, k, j, p, defs, raw)
      BY <1>9, <2>1, <3>1 DEF FilesHold
    <3>3. Holds(more, k, j, p, defs, raw)
      BY <1>3, <1>11, <1>12, <3>2, HoldsLonger
    <3>4. QED
      BY <3>1, <3>3
  <2>2. FilesHold(more, k, j, h[k], fs, w)
    BY <2>1 DEF FilesHold
  <2>3. QED
    BY <1>9, <1>10, <2>2
<1>14. PICK S : prog \in Seq(S) /\ more \in Seq(S)
  <2>1. PICK A : prog \in Seq(A)
    BY <1>1, <1>2 DEF Proper
  <2>2. PICK B : more \in Seq(B)
    BY <1>2 DEF Proper
  <2>3. prog \in Seq(A \cup B)
    BY <2>1, SeqMore
  <2>4. more \in Seq(A \cup B)
    BY <2>2, SeqMore
  <2>5. QED
    BY <2>3, <2>4
<1>15. PICK key : key = KeyOf(g[k - 1], more[k])
  OBVIOUS
<1>16. /\ PartsHold(s, more[k], key, k, fs, i) /\ CloseHolds(more[k], key, fs, nd, i)
       /\ CallHolds(more, k, w) /\ LogHolds(more, k, i, w, lg)
  <2>1. CASE k = 0
    <3>1. i = 1 /\ w.op = "none"
      BY <1>1, <1>2, <1>5, <2>1, NothingTaken
    <3>2. PartsHold(s, more[k], key, k, fs, i) /\ CloseHolds(more[k], key, fs, nd, i) /\ CallHolds(more, k, w)
      BY <3>1 DEF PartsHold, CloseHolds, CallHolds
    <3>3. lg = Owed(prog, k)
      BY <1>9, <3>1 DEF LogHolds
    <3>4. Owed(more, k) = Owed(prog, k)
      BY <1>2, <1>3, <1>14, OwedSame
    <3>5. LogHolds(more, k, i, w, lg)
      BY <3>1, <3>3, <3>4 DEF LogHolds
    <3>6. QED
      BY <3>2, <3>5
  <2>2. CASE k # 0
    <3>1. k \in 1..n /\ k - 1 \in 0..n
      BY <1>3, <2>2
    <3>2. more[k] = prog[k] /\ g[k - 1] = h[k - 1]
      BY <1>4, <3>1
    <3>3. LogHolds(more, k, i, w, lg)
      <4>1. Longer(h, prog, g, more) /\ Proper(prog) /\ Proper(more) /\ k \in 1..Len(prog)
        BY <1>1, <1>2, <3>1
      <4>2. QED
        BY <1>9, <1>14, <4>1, LogLonger
    <3>4. CallHolds(more, k, w)
      BY <1>9, <3>2 DEF CallHolds
    <3>5. QED
      BY <1>9, <1>15, <3>2, <3>3, <3>4
  <2>3. QED
    BY <2>1, <2>2
<1>17. Holding(more, k, j, more[k], key, s, g[k], fs, nd, w, i, lg)
  BY <1>13, <1>16 DEF Holding
<1>18. KeyOf(g[Taken(s)' - 1], calls'[Taken(s)']) = key /\ calls'[Taken(s)'] = more[k] /\ g[Taken(s)'] = g[k]
  BY <1>2, <1>6, <1>15
<1>19. QED
  BY <1>2, <1>6, <1>7, <1>17, <1>18 DEF Writes

(***************************************************************************)
(* The inductive invariant.                                                 *)
(***************************************************************************)

\* Nothing is owed for the start.
LEMMA InitWrites ==
  ASSUME Init
  PROVE  \E h : Works(h)
<1>1. PICK h : AllOpen(h) /\ Orderly(calls) /\ \A s \in Servers : Clean(h, s)
  BY InitClean
<1>2. calls = << >> /\ DOMAIN log = Servers
  BY DEF Init
<1>3. Proper(calls)
  <2>1. << >> \in Seq({}) /\ DOMAIN << >> = {}
    OBVIOUS
  <2>2. QED
    BY <1>1, <1>2, <2>1 DEF Proper
<1>4. ASSUME NEW s \in Servers PROVE Writes(h, s)
  <2>1. Serves(h) /\ Clean(h, s)
    BY <1>1 DEF AllOpen
  <2>2. Taken(s) = 0
    <3>1. Taken(s) \in 0..Len(calls) /\ Len(<< >>) = 0
      BY <2>1, TakenType
    <3>2. QED
      BY <1>2, <3>1
  <2>3. turn[s] = 1 /\ waiting[s].op = "none" /\ Done(s) = 0
    BY <2>1, <2>2, NothingTaken
  <2>4. PICK k, tab, fs, w, nd, lg, call, key :
          /\ k = Taken(s) /\ tab = h[k] /\ fs = files[s] /\ w = waiting[s] /\ nd = netcdf[s]
          /\ lg = log[s] /\ call = calls[k] /\ key = KeyOf(h[k - 1], calls[k])
    OBVIOUS
  <2>5. DOMAIN fs = {}
    BY <2>4 DEF Init, EmptyFcn
  <2>6. DOMAIN tab.nc \subseteq DOMAIN fs
    BY <1>1, <2>4, InCall
  <2>7. FilesHold(calls, k, 0, tab, fs, w) /\ VarsHold(tab, fs, nd, w)
    BY <2>5, <2>6 DEF FilesHold, VarsHold
  <2>8. PartsHold(s, call, key, k, fs, 1) /\ CloseHolds(call, key, fs, nd, 1) /\ CallHolds(calls, k, w)
    BY <2>3, <2>4 DEF PartsHold, CloseHolds, CallHolds
  <2>9. LogHolds(calls, k, 1, w, lg)
    <3>1. lg = << >>
      BY <2>4 DEF Init
    <3>2. Owed(calls, 0) = << >>
      BY <1>3, OwedEnds DEF Proper
    <3>3. QED
      BY <2>2, <2>3, <2>4, <3>1, <3>2 DEF LogHolds
  <2>10. Holding(calls, k, 0, call, key, s, tab, fs, nd, w, 1, lg)
    BY <2>7, <2>8, <2>9 DEF Holding
  <2>11. QED
    BY <2>3, <2>4, <2>10 DEF Writes
<1>5. QED
  BY <1>1, <1>2, <1>3, <1>4 DEF Works

(* Inductive for programs without misuse and text, when no creation fails.    *)
IInvWrites == \E h : Works(h)

\* The servers go on as owed, whatever is done next.
LEMMA WorksNext ==
  ASSUME Misuse = {}, TextVars = {}, CreateFails = FALSE, IInvWrites, [Next]_vars
  PROVE  IInvWrites'
<1>1. PICK h : Works(h)
  BY DEF IInvWrites
<1>2. /\ AllOpen(h) /\ Proper(calls) /\ Orderly(calls) /\ DOMAIN log = Servers
      /\ \A s \in Servers : Clean(h, s) /\ Writes(h, s)
  BY <1>1 DEF Works, Proper
<1>3. CASE UNCHANGED vars
  <2>1. AllOpen(h)'
    <3>1. Serves(h)'
      BY <1>2, <1>3, Zenon DEF vars, AllOpen, Serves, Tabled, Round, Taken, Decoded
    <3>2. ASSUME NEW s \in Servers PROVE Opens(h, s)'
      BY <1>2, <1>3, Zenon DEF vars, AllOpen, Opens, Closing, Taken, Decoded
    <3>3. QED
      BY <3>1, <3>2 DEF AllOpen
  <2>2. ASSUME NEW s \in Servers PROVE Clean(h, s)' /\ Writes(h, s)'
    <3>1. Clean(h, s)'
      BY <1>2, <1>3, Zenon DEF vars, Clean, Done, Taken, Decoded
    <3>2. Writes(h, s)'
      BY <1>2, <1>3, Zenon DEF vars, Writes, Done, Taken, Decoded
    <3>3. QED
      BY <3>1, <3>2
  <2>3. Proper(calls)' /\ (DOMAIN log = Servers)'
    BY <1>2, <1>3 DEF vars
  <2>4. Works(h)'
    BY <2>1, <2>2, <2>3 DEF Works
  <2>5. QED
    BY <2>4 DEF IInvWrites
<1>4. ASSUME NEW c \in Clients, Client(c) PROVE IInvWrites'
  <2>1. PICK g : /\ AllOpen(g)' /\ Longer(h, calls, g, calls')
                 /\ \A s \in Servers : Taken(s)' = Taken(s)
    BY <1>2, <1>4, ClientOpens
  <2>2. UNCHANGED <<turn, files, requests, waiting, netcdf, log>>
    BY <1>4 DEF Client
  <2>3. Serves(h)
    BY <1>2 DEF AllOpen
  <2>4. Proper(calls')
    BY <1>2, <1>4, <2>3, ClientProper
  <2>5. ASSUME NEW s \in Servers PROVE Clean(g, s)' /\ Writes(g, s)'
    <3>1. Clean(g, s)'
      BY <1>2, <2>1, <2>2, <2>3, ClientClean
    <3>2. Writes(g, s)'
      BY <1>1, <2>1, <2>2, <2>4, ClientWrites
    <3>3. QED
      BY <3>1, <3>2
  <2>6. Proper(calls)' /\ (DOMAIN log = Servers)'
    BY <1>2, <2>2, <2>4
  <2>7. Works(g)'
    BY <2>1, <2>5, <2>6 DEF Works
  <2>8. QED
    BY <2>7 DEF IInvWrites
<1>5. ASSUME NEW s \in Servers, Decode(s) PROVE IInvWrites'
  <2>1. Serves(h) /\ \A o \in Servers : Opens(h, o)
    BY <1>2 DEF AllOpen
  <2>2. AllOpen(h)'
    <3>1. Serves(h)'
      BY <1>5, <2>1, DecodeServes
    <3>2. \A o \in Servers : Opens(h, o)'
      BY <1>5, <2>1, DecodeOpens, DecodeOthers
    <3>3. QED
      BY <3>1, <3>2 DEF AllOpen
  <2>3. calls' = calls
    BY <1>5 DEF Decode, clientVars
  <2>4. Writes(h, s)' /\ DOMAIN log' = Servers
    BY <1>1, <1>5, DecodeWrites
  <2>5. ASSUME NEW o \in Servers PROVE Clean(h, o)' /\ Writes(h, o)'
    <3>1. CASE o = s
      BY <1>2, <1>5, <2>1, <2>4, <3>1, DecodeClean
    <3>2. CASE o # s
      <4>1. Clean(h, o)'
        BY <1>2, <1>5, <2>1, <3>2, DecodeCleanOthers
      <4>2. Writes(h, o)'
        BY <1>1, <1>5, <3>2, DecodeWritesOthers
      <4>3. QED
        BY <4>1, <4>2
    <3>3. QED
      BY <3>1, <3>2
  <2>6. Proper(calls)' /\ (DOMAIN log = Servers)'
    BY <1>2, <2>3, <2>4
  <2>7. Works(h)'
    BY <2>2, <2>5, <2>6 DEF Works
  <2>8. QED
    BY <2>7 DEF IInvWrites
<1>6. CASE CollectiveReturns
  <2>1. AllOpen(h)'
    BY <1>2, <1>6, ReturnOpens
  <2>2. calls' = calls
    BY <1>6 DEF CollectiveReturns, CreateReturns, EnddefReturns, PutVaraReturns, CloseReturns,
        clientVars
  <2>3. /\ DOMAIN log' = Servers
        /\ \A s \in Servers : Writes(h, s)'
    BY <1>1, <1>6, ReturnWrites
  <2>4. ASSUME NEW s \in Servers PROVE Clean(h, s)'
    BY <1>2, <1>6, ReturnClean
  <2>5. Proper(calls)' /\ (DOMAIN log = Servers)'
    BY <1>2, <2>2, <2>3
  <2>6. Works(h)'
    BY <2>1, <2>3, <2>4, <2>5 DEF Works
  <2>7. QED
    BY <2>6 DEF IInvWrites
<1>7. CASE Terminating
  BY <1>3, <1>7 DEF Terminating
<1>8. QED
  BY <1>3, <1>4, <1>5, <1>6, <1>7 DEF Next

\* They always do.
LEMMA WritesInvariant ==
  ASSUME Misuse = {}, TextVars = {}, CreateFails = FALSE
  PROVE  Spec => []IInvWrites
<1>1. Init => IInvWrites
  BY InitWrites DEF IInvWrites
<1>2. IInvWrites /\ [Next]_vars => IInvWrites'
  BY WorksNext
<1>3. QED
  BY <1>1, <1>2, PTL DEF Spec

(***************************************************************************)
(* AsProgrammed: what the logs are in the end.                              *)
(***************************************************************************)

\* The calls made are the first of those promised, all before the last among them.
LEMMA LogStarts ==
  ASSUME NEW prog, Proper(prog), NEW k \in 0..Len(prog), NEW i, NEW w,
         (w.op = "none" /\ i = 1) \/ (k # 0 /\ w.op \in {"none", prog[k].op}),
         NEW lg, LogHolds(prog, k, i, w, lg)
  PROVE  /\ Starts(Entries(prog), lg, Promised(prog))
         /\ k # 0 => Starts(Entries(prog), Owed(prog, k - 1), lg)
<1>1. PICK V, n : V = Entries(prog) /\ n = Len(prog)
  OBVIOUS
<1>2. n \in Nat /\ k \in 0..n /\ Promised(prog) = Owed(prog, n)
  <2>1. PICK S : prog \in Seq(S)
    BY DEF Proper
  <2>2. QED
    BY <1>1, <2>1, OwedEnds
<1>3. ASSUME NEW j \in 0..n, NEW x \in j..n PROVE Starts(V, Owed(prog, j), Owed(prog, x))
  BY <1>1, <1>3, OwedGrows
<1>4. CASE w.op = "enddef"
  <2>1. PICK j, p : j = k - 1 /\ p = prog[k].path
    OBVIOUS
  <2>2. k \in 1..n /\ j \in 0..n /\ prog[k].op = "enddef"
    BY <1>2, <1>4, <2>1
  <2>3. PICK a, b, e : a = Owed(prog, j) /\ b = FlattenSeq(Blocks(prog, j, p)) /\ e = Done1(prog, k, {})
    OBVIOUS
  <2>4. lg = a \o b /\ ~EndedBy(prog, j, p)
    BY <1>4, <2>1, <2>3 DEF LogHolds
  <2>5. Does(prog, k) = b \o e
    BY <2>1, <2>2, <2>3, <2>4 DEF Does
  <2>6. /\ a \in Seq(V) /\ Owed(prog, k) = a \o (b \o e)
    BY <1>1, <2>1, <2>2, <2>3, <2>5, OwedNext
  <2>7. b \in Seq(V)
    BY <1>1, <2>1, <2>2, <2>3, DoesTyped
  <2>8. e \in Seq(V)
    <3>1. {} \in SUBSET (DOMAIN prog)
      OBVIOUS
    <3>2. QED
      BY <1>1, <2>2, <2>3, <3>1, DoesTyped
  <2>9. a \o b \in Seq(V) /\ a \o (b \o e) = (a \o b) \o e
    BY <2>6, <2>7, <2>8
  <2>10. Starts(V, a, lg) /\ Starts(V, lg, Owed(prog, k))
    BY <2>4, <2>6, <2>7, <2>8, <2>9 DEF Starts
  <2>11. PICK d \in Seq(V) : Owed(prog, n) = Owed(prog, k) \o d
    <3>1. k \in 0..n /\ n \in k..n
      BY <1>2, <2>2
    <3>2. QED
      BY <1>3, <3>1 DEF Starts
  <2>12. Starts(V, lg, Owed(prog, n))
    BY <2>10, <2>11, StartsIs
  <2>13. QED
    BY <1>1, <1>2, <1>4, <2>1, <2>3, <2>10, <2>12
<1>5. CASE w.op # "enddef"
  <2>1. PICK j : j = (IF w.op = "none" /\ (i = 1 \/ prog[k].op = "create") THEN k ELSE k - 1)
    OBVIOUS
  <2>2. lg = Owed(prog, j)
    BY <1>5, <2>1 DEF LogHolds
  <2>3. j \in 0..n /\ n \in j..n /\ (k # 0 => k - 1 \in 0..n /\ j \in (k - 1)..n)
    BY <1>2, <2>1
  <2>4. Starts(V, lg, Owed(prog, n))
    BY <1>3, <2>2, <2>3
  <2>5. k # 0 => Starts(V, Owed(prog, k - 1), lg)
    BY <1>3, <2>2, <2>3
  <2>6. QED
    BY <1>1, <1>2, <2>4, <2>5
<1>6. QED
  BY <1>4, <1>5

\* A server has made the first of the promised calls.
LEMMA WrittenStarts ==
  ASSUME NEW h, Works(h), NEW s \in Servers
  PROVE  Starts(Entries(calls), log[s], Promised(calls))
<1>1. Serves(h) /\ Proper(calls) /\ Clean(h, s) /\ Writes(h, s)
  BY DEF Works, AllOpen
<1>2. PICK k, w, i, lg : k = Taken(s) /\ w = waiting[s] /\ i = turn[s] /\ lg = log[s]
  OBVIOUS
<1>3. k \in 0..Len(calls)
  BY <1>1, <1>2, TakenType
<1>4. LogHolds(calls, k, i, w, lg)
  BY <1>1, <1>2 DEF Writes, Holding
<1>5. (w.op = "none" /\ i = 1) \/ (k # 0 /\ w.op \in {"none", calls[k].op})
  BY <1>1, <1>2 DEF Clean, CallWaits
<1>6. QED
  BY <1>1, <1>2, <1>3, <1>4, <1>5, LogStarts

\* The servers make the netCDF calls of the program, each of them once and in
\* the order of the program, if programs define in define mode and write in
\* data mode and no text, and every file can be created.
THEOREM AsProgrammedCorrect ==
  Misuse = {} /\ TextVars = {} /\ CreateFails = FALSE => (Spec => []AsProgrammed)
<1>1. IInvWrites => AsProgrammed
  <2>1. SUFFICES ASSUME IInvWrites, NEW s \in Servers
                 PROVE  IsPrefix(log[s], Promised(calls))
    BY DEF AsProgrammed
  <2>2. PICK h : Works(h)
    BY <2>1 DEF IInvWrites
  <2>3. QED
    BY <2>2, WrittenStarts, StartsIs
<1>2. Misuse = {} /\ TextVars = {} /\ CreateFails = FALSE => (Spec => []IInvWrites)
  BY WritesInvariant
<1>3. QED
  BY <1>1, <1>2, PTL

(***************************************************************************)
(* DirectSpec: the servers implement the calls of the program.              *)
(***************************************************************************)

\* The abstract specification speaks of the same programs ...
LEMMA SameCalls ==
  ASSUME NEW prog
  PROVE  Direct!ProgramCalls(prog) = ProgramCalls(prog)
BY DEF Direct!ProgramCalls, ProgramCalls, Direct!CallsOn, CallsOn, Direct!CallOf, CallOf,
    Direct!Did, Did,
   Direct!Named, Named, Direct!Defining, Defining, Direct!Global, Global

\* ... and promises the same of them.
LEMMA SameHeader ==
  ASSUME NEW prog, NEW p
  PROVE  Direct!Header(prog, p) = Header(prog, p)
BY DEF Direct!Header, Header, Direct!Attributes, Attributes,
   Direct!FirstDefs, FirstDefs, Direct!InOrder, InOrder, Direct!Positions, Positions,
    Direct!Entry, Entry,
   Direct!Cardinality, Cardinality, Direct!FlattenSeq, FlattenSeq

\* A call has the same effect there ...
LEMMA SameEffect ==
  ASSUME NEW prog, NEW k
  PROVE  Direct!Effect(prog, k) = Effect(prog, k)
<1>1. PICK before, call, header : /\ before = SubSeq(prog, 1, k - 1) /\ call = prog[k]
                                  /\ header = Header(before, call.path)
  OBVIOUS
<1>2. Direct!Header(before, call.path) = header
  BY <1>1, SameHeader
<1>3. /\ \A op, path, name, dims, from : Direct!Entry(op, path, name, dims, from) = Entry(op, path, name, dims, from)
      /\ Direct!Global = Global
  BY DEF Direct!Entry, Entry, Direct!Global, Global
<1>4. \A q, p : Direct!Defining(q, p) <=> Defining(q, p)
  BY DEF Direct!Defining, Defining, Direct!Did, Did
<1>5. \A q, op, p, name : Direct!Positions(q, op, p, name) = Positions(q, op, p, name)
  BY DEF Direct!Positions, Positions
<1>6. QED
  BY <1>1, <1>2, <1>3, <1>4, <1>5 DEF Direct!Effect, Effect

\* ... and a program the same promise.
LEMMA SamePromise ==
  ASSUME NEW prog
  PROVE  Direct!Promised(prog) = Promised(prog)
<1>1. \A k : Direct!Effect(prog, k) = Effect(prog, k)
  BY SameEffect
<1>2. [k \in DOMAIN prog |-> Direct!Effect(prog, k)] = [k \in DOMAIN prog |-> Effect(prog, k)]
  BY <1>1
<1>3. PICK e : e = [k \in DOMAIN prog |-> Effect(prog, k)]
  OBVIOUS
<1>4. Direct!FlattenSeq(e) = FlattenSeq(e)
  BY DEF Direct!FlattenSeq, FlattenSeq
<1>5. QED
  BY <1>2, <1>3, <1>4 DEF Direct!Promised, Promised

\* A server that decodes a message makes the calls it owes, if any.
LEMMA DecodeGrows ==
  ASSUME TextVars = {}, NEW h, Works(h), NEW s \in Servers, Decode(s)
  PROVE  Len(log[s]) <= Len(log'[s])
<1>1. PICK c, m, k : /\ c = Group[s][turn[s]] /\ m = Unpacked(Head(inbox[c])) /\ k = Taken(s)'
  OBVIOUS
<1>2. PICK t, u, call : t = h[k - 1] /\ u = h[k] /\ call = calls[k]
  OBVIOUS
<1>3. PICK key : key = KeyOf(t, call)
  OBVIOUS
<1>4. Serves(h)
  BY DEF Works, AllOpen
<1>5. \/ IoCreate(s, c, m) \/ IoDefDim(s, c, m) \/ IoDefVar(s, c, m)
      \/ IoPutAtt(s, c, m) \/ IoEnddef(s, c, m) \/ IoPutVara(s, c, m)
      \/ IoClose(s, c, m)
  BY <1>1, <1>2, <1>4, DecodeHandles
<1>6. PICK prog : prog = calls
  OBVIOUS
<1>7. Writing(prog, s, c, m, t, u, call, k, key)
  BY <1>1, <1>2, <1>3, <1>6, DecodeWriting
<1>8. Proper(prog) /\ k \in 1..Len(prog) /\ k \in Nat \ {0} /\ call = prog[k]
      /\ Turn(s, c, m, t, u, call, k, key)
      /\ log[s] = Owed(prog, IF turn[s] # 1 /\ call.op = "create" THEN k ELSE k - 1)
  BY <1>7 DEF Writing
<1>9. CASE call.op = "create"
  <2>1. m.op = "create"
    BY <1>7, <1>9, FileOn
  <2>2. log' = log
    BY <1>5, <2>1 DEF IoCreate, IoDefDim, IoDefVar, IoPutAtt, IoEnddef, IoPutVara, IoClose
  <2>3. Len(log[s]) \in Nat
    BY WrittenStarts, StartsIs
  <2>4. QED
    BY <2>2, <2>3
<1>10. CASE call.op # "create"
  <2>1. log[s] = Owed(prog, k - 1)
    BY <1>8, <1>10
  <2>2. Wrote(prog, s, u, call, k, key)
    BY <1>5, <1>7, HandlerWritten
  <2>3. PICK w, i, new : w = waiting'[s] /\ i = turn'[s] /\ new = log'[s]
    OBVIOUS
  <2>4. LogHolds(prog, k, i, w, new)
    BY <2>2, <2>3 DEF Wrote, Holding
  <2>5. w.op \in {"none", call.op}
    BY <1>5, <1>8, <2>3, HandlerTurned DEF Turned
  <2>6. Starts(Entries(prog), Owed(prog, k - 1), new)
    <3>1. k \in 0..Len(prog) /\ k # 0
      BY <1>8
    <3>2. QED
      BY <1>8, <2>4, <2>5, <3>1, LogStarts
  <2>7. QED
    BY <2>1, <2>3, <2>6, StartsIs
<1>11. QED
  BY <1>9, <1>10

(* One log for every server ... *)
LogKept == log = [s \in Servers |-> log[s]]

(* ... of the first of the promised calls. *)
LogsStart == \A s \in Servers : Starts(Entries(calls), log[s], Promised(calls))

\* There is no other.
LEMMA LogChanged ==
  ASSUME LogKept, NEW s \in Servers, NEW v, log' = [log EXCEPT ![s] = v]
  PROVE  LogKept'
<1>1. PICK f : f = [x \in Servers |-> IF x = s THEN v ELSE log[x]]
  OBVIOUS
<1>2. log' = f
  BY <1>1 DEF LogKept
<1>3. f = [x \in Servers |-> f[x]]
  BY <1>1
<1>4. QED
  BY <1>2, <1>3 DEF LogKept

\* A library call of all servers adds to the log of each.
LEMMA LogCalled ==
  ASSUME NEW name, NEW from, LogCall(name, from)
  PROVE  LogKept'
<1>1. PICK f : f = [s \in Servers |-> Append(log[s], Entry(waiting[s].op, waiting[s].path, name, << >>, from[s]))]
  OBVIOUS
<1>2. log' = f
  BY <1>1 DEF LogCall
<1>3. f = [x \in Servers |-> f[x]]
  BY <1>1
<1>4. QED
  BY <1>2, <1>3 DEF LogKept

\* It stays like that.
LEMMA LogKeptNext ==
  ASSUME LogKept, [Next]_vars
  PROVE  LogKept'
<1>1. CASE log' = log
  BY <1>1 DEF LogKept
<1>2. ASSUME NEW s \in Servers, Decode(s) PROVE LogKept'
  <2>1. PICK c, m : \/ IoCreate(s, c, m) \/ IoDefDim(s, c, m) \/ IoDefVar(s, c, m)
                    \/ IoPutAtt(s, c, m) \/ IoEnddef(s, c, m) \/ IoPutVara(s, c, m)
                    \/ IoClose(s, c, m)
    BY <1>2 DEF Decode
  <2>2. CASE IoPutAtt(s, c, m)
    <3>1. PICK e : e = Logged(s, files[s][m.nc].nc_id, "put_att", Global, << >>, {m.data[1]})
      OBVIOUS
    <3>2. log' = [log EXCEPT ![s] = Append(@, e)] \/ log' = log
      BY <2>2, <3>1, Zenon DEF IoPutAtt
    <3>3. PICK v : v = Append(log[s], e)
      OBVIOUS
    <3>4. log' = [log EXCEPT ![s] = v] \/ log' = log
      BY <3>2, <3>3
    <3>5. QED
      BY <1>1, <3>4, LogChanged
  <2>3. CASE IoEnddef(s, c, m)
    <3>1. PICK q : q = DefCalls(s, files[s][m.nc].nc_id, Numbered(files[s][m.nc].defs))
      OBVIOUS
    <3>2. log' = [log EXCEPT ![s] = @ \o q] \/ log' = log
      BY <2>3, <3>1, Zenon DEF IoEnddef
    <3>3. PICK v : v = log[s] \o q
      OBVIOUS
    <3>4. log' = [log EXCEPT ![s] = v] \/ log' = log
      BY <3>2, <3>3
    <3>5. QED
      BY <1>1, <3>4, LogChanged
  <2>4. CASE ~IoPutAtt(s, c, m) /\ ~IoEnddef(s, c, m)
    <3>1. log' = log
      BY <2>1, <2>4 DEF IoCreate, IoDefDim, IoDefVar, IoPutVara, IoClose
    <3>2. QED
      BY <1>1, <3>1
  <2>5. QED
    BY <2>2, <2>3, <2>4
<1>3. CASE CollectiveReturns
  <2>1. log' = log \/ \E name, from : LogCall(name, from)
    BY <1>3, Zenon DEF CollectiveReturns, CreateReturns, EnddefReturns, PutVaraReturns, CloseReturns
  <2>2. QED
    BY <1>1, <2>1, LogCalled
<1>4. ASSUME NEW c \in Clients, Client(c) PROVE log' = log
  BY <1>4 DEF Client
<1>5. QED
  BY <1>1, <1>2, <1>3, <1>4 DEF Next, vars, Terminating

\* A step that leaves the program alone serves it.
LEMMA DirectServes ==
  ASSUME LogsStart', LogKept', calls' = calls, \A s \in Servers : Len(log[s]) <= Len(log'[s])
  PROVE  Direct!Serve
<1>1. PICK P, L : P = Promised(calls) /\ L = Len(P)
  OBVIOUS
<1>2. ASSUME NEW s \in Servers
      PROVE  log'[s] \in {SubSeq(P, 1, n) : n \in 0..L}
  <2>1. Starts(Entries(calls'), log'[s], Promised(calls'))
    BY DEF LogsStart
  <2>2. Starts(Entries(calls), log'[s], P)
    BY <1>1, <2>1
  <2>3. /\ Len(log'[s]) \in Nat /\ L \in Nat /\ Len(log'[s]) <= L
        /\ log'[s] = SubSeq(P, 1, Len(log'[s]))
    BY <1>1, <2>2, StartsIs
  <2>4. Len(log'[s]) \in 0..L
    BY <2>3
  <2>5. QED
    BY <2>3, <2>4
<1>3. log' \in [Servers -> {SubSeq(P, 1, n) : n \in 0..L}]
  <2>1. PICK T : T = {SubSeq(P, 1, n) : n \in 0..L}
    OBVIOUS
  <2>2. log' = [s \in Servers |-> log'[s]] /\ \A s \in Servers : log'[s] \in T
    BY <1>2, <2>1 DEF LogKept
  <2>3. log' \in [Servers -> T]
    BY <2>2
  <2>4. QED
    BY <2>1, <2>3
<1>4. Direct!Promised(calls) = P
  BY <1>1, SamePromise
<1>5. QED
  BY <1>1, <1>3, <1>4 DEF Direct!Serve

\* A client that makes a new call makes it directly.
LEMMA DirectCall ==
  ASSUME IInvWrites, NEW c \in Clients, Client(c), calls' # calls
  PROVE  Direct!Call
<1>1. PICK h : Works(h)
  BY DEF IInvWrites
<1>2. Hist(h, calls) /\ made[c] \in 0..Len(calls) /\ Len(calls) \in Nat
  BY <1>1, ProgramAssumption DEF Works, AllOpen, Serves, Followed
<1>3. PICK call \in NextCalls(c) : calls' = IF made[c] < Len(calls) THEN calls ELSE Append(calls, call)
  BY DEF Client
<1>4. ~(made[c] < Len(calls)) /\ calls' = Append(calls, call)
  BY <1>3
<1>5. call \in ProgramCalls(calls)
  BY <1>2, <1>3, <1>4 DEF NextCalls
<1>6. call \in Direct!ProgramCalls(calls)
  BY <1>5, SameCalls
<1>7. log' = log
  BY DEF Client
<1>8. QED
  BY <1>4, <1>6, <1>7 DEF Direct!Call

\* Every step is a direct call, serves some, or does nothing to them.
LEMMA DirectNext ==
  ASSUME Misuse = {}, TextVars = {}, CreateFails = FALSE, IInvWrites, LogsStart', LogKept', [Next]_vars
  PROVE  [Direct!Next]_(Direct!vars)
<1>1. CASE UNCHANGED <<calls, log>>
  BY <1>1 DEF Direct!vars
<1>2. ASSUME NEW c \in Clients, Client(c) PROVE Direct!Call \/ UNCHANGED <<calls, log>>
  <2>1. log' = log
    BY <1>2 DEF Client
  <2>2. QED
    BY <1>2, <2>1, DirectCall
<1>3. PICK h : Works(h)
  BY DEF IInvWrites
<1>4. ASSUME NEW s \in Servers, Decode(s) PROVE Direct!Serve
  <2>1. calls' = calls
    BY <1>4 DEF Decode, clientVars
  <2>2. Len(log[s]) <= Len(log'[s])
    BY <1>3, <1>4, DecodeGrows
  <2>3. \A o \in Servers \ {s} : log'[o] = log[o]
    BY <1>3, <1>4, DecodeWrites
  <2>4. ASSUME NEW o \in Servers PROVE Len(log[o]) <= Len(log'[o])
    <3>1. Len(log[o]) \in Nat
      BY <1>3, WrittenStarts, StartsIs
    <3>2. QED
      BY <2>2, <2>3, <3>1
  <2>5. QED
    BY <2>1, <2>4, DirectServes
<1>5. CASE CollectiveReturns
  <2>1. calls' = calls
    BY <1>5 DEF CollectiveReturns, CreateReturns, EnddefReturns, PutVaraReturns, CloseReturns,
        clientVars
  <2>2. ASSUME NEW o \in Servers PROVE Len(log[o]) <= Len(log'[o])
    <3>1. log'[o] = Append(log[o], ReturnEntry(waiting[o]))
      BY <1>3, <1>5, ReturnWrites
    <3>2. PICK V : log[o] \in Seq(V)
      BY <1>3, WrittenStarts, StartsIs
    <3>3. PICK e, W : e = ReturnEntry(waiting[o]) /\ W = V \cup {e}
      OBVIOUS
    <3>4. log[o] \in Seq(W) /\ e \in W
      BY <3>2, <3>3, SeqMore
    <3>5. Len(Append(log[o], e)) = Len(log[o]) + 1 /\ Len(log[o]) \in Nat
      BY <3>4
    <3>6. QED
      BY <3>1, <3>3, <3>5
  <2>3. Direct!Serve
    BY <2>1, <2>2, DirectServes
  <2>4. QED
    BY <2>3 DEF Direct!Next
<1>6. CASE Terminating
  BY <1>1, <1>6 DEF Terminating, vars
<1>7. CASE UNCHANGED vars
  BY <1>1, <1>7 DEF vars
<1>8. QED
  BY <1>1, <1>2, <1>4, <1>5, <1>6, <1>7 DEF Next, Direct!Next

\* Clients and servers implement direct calls: whatever order the messages are
\* decoded in, every server makes the calls that the program would have made
\* by itself.
THEOREM DirectImplemented ==
  Misuse = {} /\ TextVars = {} /\ CreateFails = FALSE => (Spec => DirectSpec)
<1>1. SUFFICES ASSUME Misuse = {}, TextVars = {}, CreateFails = FALSE
               PROVE  Spec => DirectSpec
  OBVIOUS
<1>2. Init => Direct!Init /\ LogKept
  BY DEF Init, Direct!Init, LogKept
<1>3. IInvWrites => LogsStart
  BY WrittenStarts DEF IInvWrites, LogsStart
<1>4. LogKept /\ [Next]_vars => LogKept'
  BY LogKeptNext
<1>5. IInvWrites /\ LogsStart' /\ LogKept' /\ [Next]_vars => [Direct!Next]_(Direct!vars)
  BY <1>1, DirectNext
<1>6. Spec => []IInvWrites
  BY <1>1, WritesInvariant
<1>7. QED
  BY <1>2, <1>3, <1>4, <1>5, <1>6, PTL DEF Spec, DirectSpec, Direct!Spec

================================================================================
