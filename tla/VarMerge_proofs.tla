------------------------------ MODULE VarMerge_proofs ------------------------------
(***************************************************************************)
(* The box that a server allocates for a variable, and the copying of the   *)
(* parts into it, for any number of dimensions and parts and any starts and *)
(* counts.                                                                 *)
(*   The box holds the parts and is the smallest that does (BoxCorrect).     *)
(*   Offsets: the product over the dimensions and the offset of a place as  *)
(*   the source computes them are the last of the products and of the sums  *)
(*   over the first dimensions (ProductPrefix, SpreadPrefix), which is what  *)
(*   induction over the dimensions speaks of.                              *)
(*   Copying: src and dst are the offsets of src_index in the part and in   *)
(*   the box, while an index is carried too (CopyInv, InBoundsCorrect).      *)
(*   Data: two places in an array have two offsets (SpreadInjective), so an *)
(*   element is overwritten by that of a later part at its place only       *)
(*   (DataInv); Fortran's offsets are those of the arrays that are turned   *)
(*   around (OffsetTurned).  From that, MergedRight.                        *)
(***************************************************************************)
EXTENDS VarMerge, Counting_proofs, FiniteSetTheorems, TLAPS

Part == [start : [Dims -> Nat], count : [Dims -> Nat]]

BoxType ==
  /\ parts \in [1..NumParts -> Part]
  /\ box \in Part
  /\ k \in Nat \ {0}
  /\ pc = "box" => k <= NumParts

(* The parts that were looked at so far, and their box. *)
BoxSoFar == pc = "box" => (\A p \in 1..k : Inside(parts[p])) /\ Touched(k)

BoxInv == BoxType /\ BoxSoFar /\ BoxTight

(* What cfio_put_vara_*_c_ makes of a Fortran program's start and count is a  *)
(* part: Fortran counts from 1, so nothing falls below 0.                   *)
LEMMA AskedIsPart ==
  ASSUME NEW a \in [start : [Dims -> {s + 1 : s \in Starts}], count : [Dims -> Counts]]
  PROVE  Converted(a) \in Part
<1>1. ASSUME NEW d \in Dims
      PROVE  a.start[NDims + 1 - d] - 1 \in Nat /\ a.count[NDims + 1 - d] \in Nat
  <2>1. NDims + 1 - d \in Dims
    BY <1>1, MergeAssumption DEF Dims
  <2>2. a.start[NDims + 1 - d] \in {s + 1 : s \in Starts} /\ a.count[NDims + 1 - d] \in Counts
    BY <2>1
  <2>3. PICK s \in Starts : a.start[NDims + 1 - d] = s + 1
    BY <2>2
  <2>4. s \in Nat /\ a.count[NDims + 1 - d] \in Nat
    BY <2>2, MergeAssumption
  <2> QED
    BY <2>3, <2>4
<1> QED
  BY <1>1 DEF Converted, Part

(* _update_start_and_count yields a box again: its end is not before its     *)
(* start, though it is computed by subtraction of unsigned numbers.        *)
LEMMA ExtendedIsPart ==
  ASSUME NEW old \in Part, NEW new \in Part
  PROVE  Extended(old, new) \in Part
<1> DEFINE ext == Extended(old, new)
<1>1. ASSUME NEW d \in Dims
      PROVE  ext.start[d] \in Nat /\ ext.count[d] \in Nat
  <2>1. /\ old.start[d] \in Nat /\ old.count[d] \in Nat
        /\ new.start[d] \in Nat /\ new.count[d] \in Nat
    BY <1>1 DEF Part
  <2> QED
    BY <1>1, <2>1 DEF Extended
<1>2. /\ ext = [start |-> ext.start, count |-> ext.count]
      /\ ext.start = [d \in Dims |-> ext.start[d]]
      /\ ext.count = [d \in Dims |-> ext.count[d]]
  BY DEF Extended
<1> QED
  BY <1>1, <1>2 DEF Part

(* In each dimension the extended box reaches from the lesser start to the   *)
(* greater end.                                                            *)
LEMMA ExtendedSpan ==
  ASSUME NEW old \in Part, NEW new \in Part, NEW d \in Dims
  PROVE  LET ext == Extended(old, new)
             end(r) == r.start[d] + r.count[d]
         IN  /\ ext.start[d] <= old.start[d] /\ ext.start[d] <= new.start[d]
             /\ end(old) <= end(ext) /\ end(new) <= end(ext)
             /\ ext.start[d] = old.start[d] \/ ext.start[d] = new.start[d]
             /\ end(ext) = end(old) \/ end(ext) = end(new)
<1>1. /\ old.start[d] \in Nat /\ old.count[d] \in Nat
      /\ new.start[d] \in Nat /\ new.count[d] \in Nat
  BY DEF Part
<1> QED
  BY <1>1 DEF Extended

(* One more part: the box that held the first k parts tightly is extended to *)
(* hold the first k + 1 tightly.                                           *)
LEMMA ExtendKeepsTight ==
  ASSUME BoxInv, Extend
  PROVE  BoxInv'
<1> DEFINE new == parts[k + 1]
<1>1. /\ k + 1 \in 1..NumParts /\ k \in Nat \ {0} /\ pc = "box" /\ pc' = pc
      /\ parts' = parts /\ k' = k + 1 /\ box' = Extended(box, new)
      /\ new \in Part /\ box \in Part
  BY MergeAssumption DEF BoxInv, BoxType, Extend
<1>2. BoxType'
  <2>1. box' \in Part
    BY <1>1, ExtendedIsPart
  <2> QED
    BY <1>1, <2>1, MergeAssumption DEF BoxInv, BoxType
<1>3. ASSUME NEW p \in 1..(k + 1) PROVE Inside(parts[p])'
  <2> SUFFICES ASSUME NEW d \in Dims
               PROVE  /\ box'.start[d] <= parts[p].start[d]
                      /\ parts[p].start[d] + parts[p].count[d] <= box'.start[d] + box'.count[d]
    BY <1>1 DEF Inside
  <2>1. /\ box'.start[d] <= box.start[d] /\ box'.start[d] <= new.start[d]
        /\ box.start[d] + box.count[d] <= box'.start[d] + box'.count[d]
        /\ new.start[d] + new.count[d] <= box'.start[d] + box'.count[d]
    BY <1>1, ExtendedSpan
  <2>2. CASE p = k + 1
    BY <2>1, <2>2
  <2>3. CASE p \in 1..k
    <3>1. /\ box.start[d] <= parts[p].start[d]
          /\ parts[p].start[d] + parts[p].count[d] <= box.start[d] + box.count[d]
      BY <1>1, <2>3 DEF BoxInv, BoxSoFar, Inside
    <3>2. p \in 1..NumParts
      BY <1>1, <2>3, MergeAssumption
    <3>3. parts[p] \in Part /\ box' \in Part
      BY <1>2, <3>2 DEF BoxInv, BoxType
    <3>4. /\ parts[p].start[d] \in Nat /\ parts[p].count[d] \in Nat
          /\ box.start[d] \in Nat /\ box.count[d] \in Nat
          /\ box'.start[d] \in Nat /\ box'.count[d] \in Nat
      BY <1>1, <3>3 DEF Part
    <3> QED
      BY <2>1, <3>1, <3>4
  <2> QED
    BY <1>1, <2>2, <2>3
<1>4. Touched(k)'
  <2> SUFFICES ASSUME NEW d \in Dims
               PROVE  /\ \E p \in 1..(k + 1) : parts[p].start[d] = box'.start[d]
                      /\ \E p \in 1..(k + 1) :
                           parts[p].start[d] + parts[p].count[d] = box'.start[d] + box'.count[d]
    BY <1>1 DEF Touched
  <2>1. /\ box'.start[d] = box.start[d] \/ box'.start[d] = new.start[d]
        /\ \/ box'.start[d] + box'.count[d] = box.start[d] + box.count[d]
           \/ box'.start[d] + box'.count[d] = new.start[d] + new.count[d]
    BY <1>1, ExtendedSpan
  <2>2. PICK q \in 1..k : parts[q].start[d] = box.start[d]
    BY <1>1 DEF BoxInv, BoxSoFar, Touched
  <2>3. PICK r \in 1..k : parts[r].start[d] + parts[r].count[d] = box.start[d] + box.count[d]
    BY <1>1 DEF BoxInv, BoxSoFar, Touched
  <2>4. q \in 1..(k + 1) /\ r \in 1..(k + 1) /\ k + 1 \in 1..(k + 1)
    BY <1>1
  <2>5. \E p \in 1..(k + 1) : parts[p].start[d] = box'.start[d]
    BY <2>1, <2>2, <2>4
  <2>6. \E p \in 1..(k + 1) :
          parts[p].start[d] + parts[p].count[d] = box'.start[d] + box'.count[d]
    BY <2>1, <2>3, <2>4
  <2> QED
    BY <2>5, <2>6
<1>5. BoxSoFar' /\ BoxTight'
  <2>1. pc' = "box"
    BY <1>1
  <2>2. \A p \in 1..k' : Inside(parts[p])'
    BY <1>1, <1>3
  <2> QED
    BY <2>1, <2>2, <1>4 DEF BoxSoFar, BoxTight
<1> QED
  BY <1>2, <1>5 DEF BoxInv

(* When the parts are all in, the box is allocated as it is. *)
LEMMA AllocateKeepsTight ==
  ASSUME BoxInv, Allocate
  PROVE  BoxInv'
<1>1. /\ pc = "box" /\ pc' = "part" /\ k = NumParts /\ k' = 1
      /\ parts' = parts /\ box' = box
  BY DEF Allocate
<1>2. BoxType'
  BY <1>1 DEF BoxInv, BoxType
<1>3. (\A p \in 1..NumParts : Inside(parts[p])) /\ Touched(NumParts)
  BY <1>1 DEF BoxInv, BoxSoFar
<1>4. (\A p \in 1..NumParts : Inside(parts[p]))' /\ Touched(NumParts)'
  BY <1>1, <1>3 DEF Inside, Touched
<1> QED
  BY <1>1, <1>2, <1>4 DEF BoxInv, BoxSoFar, BoxTight

(* Copying changes neither the box nor the parts. *)
LEMMA CopyingKeepsTight ==
  ASSUME BoxInv, pc # "box", pc' # "box",
         parts' = parts, box' = box, k' \in Nat \ {0}
  PROVE  BoxInv'
<1>1. (\A p \in 1..NumParts : Inside(parts[p]))' /\ Touched(NumParts)'
  BY DEF BoxInv, BoxTight, Inside, Touched
<1>2. BoxType' /\ BoxSoFar'
  BY DEF BoxInv, BoxType, BoxSoFar
<1> QED
  BY <1>1, <1>2 DEF BoxInv, BoxTight

\* The inductive invariant of the box.
LEMMA BoxAlways == Spec => []BoxInv
<1>1. Init => BoxInv
  <2> SUFFICES ASSUME Init PROVE BoxInv
    OBVIOUS
  <2>1. BoxType
    <3>1. ASSUME NEW p \in 1..NumParts
          PROVE  Converted(asked[p]) \in Part
      BY AskedIsPart DEF Init
    <3>2. parts \in [1..NumParts -> Part]
      BY <3>1 DEF Init
    <3>3. 1 \in 1..NumParts /\ k = 1 /\ box = parts[1]
      BY MergeAssumption DEF Init
    <3> QED
      BY <3>2, <3>3, MergeAssumption DEF BoxType
  <2>2. BoxSoFar
    <3>1. k = 1 /\ box = parts[1] /\ 1 \in 1..NumParts /\ box \in Part
      BY <2>1, MergeAssumption DEF Init, BoxType
    <3>2. \A d \in Dims : box.start[d] \in Nat /\ box.count[d] \in Nat
      BY <3>1 DEF Part
    <3> QED
      BY <3>1, <3>2 DEF BoxSoFar, Inside, Touched
  <2> QED
    BY <2>1, <2>2 DEF BoxInv, BoxTight, Init
<1>2. BoxInv /\ [Next]_vars => BoxInv'
  <2> SUFFICES ASSUME BoxInv, [Next]_vars PROVE BoxInv'
    OBVIOUS
  <2>1. k \in Nat \ {0}
    BY DEF BoxInv, BoxType
  <2>2. CASE Extend
    BY <2>2, ExtendKeepsTight
  <2>3. CASE Allocate
    BY <2>3, AllocateKeepsTight
  <2>4. CASE StartPart
    BY <2>1, <2>4, CopyingKeepsTight DEF StartPart
  <2>5. CASE CopyElement
    BY <2>1, <2>5, CopyingKeepsTight DEF CopyElement
  <2>6. CASE Carry
    BY <2>1, <2>6, CopyingKeepsTight DEF Carry
  <2>7. CASE Advance
    BY <2>1, <2>7, CopyingKeepsTight DEF Advance
  <2>8. CASE EndPart
    BY <2>1, <2>8, CopyingKeepsTight DEF EndPart
  <2>9. CASE Written
    BY <2>1, <2>9, CopyingKeepsTight DEF Written
  <2>10. CASE UNCHANGED vars
    BY <2>10 DEF vars, BoxInv, BoxType, BoxSoFar, BoxTight, Inside, Touched
  <2> QED
    BY <2>2, <2>3, <2>4, <2>5, <2>6, <2>7, <2>8, <2>9, <2>10 DEF Next, Terminating
<1> QED
  BY <1>1, <1>2, PTL DEF Spec

(* The merged data of a put_vara spans the parts of all clients of the       *)
(* server and no more than their smallest box (_merge_var_data).           *)
THEOREM BoxCorrect == Spec => []BoxTight
<1>1. BoxInv => BoxTight
  BY DEF BoxInv
<1> QED
  BY <1>1, BoxAlways, PTL

-------------------------------------------------------------------------------
(* it folds g over the subsets of S, which give their elements as ch says.   *)
Folds(S, base, g, ch, it) ==
  \A s \in SUBSET S : it[s] = IF s = {} THEN base ELSE g[<<ch[s], it[s \ {ch[s]}]>>]

(* Folds exist: for the subsets of at most n elements, by induction over n. *)
LEMMA FoldThere ==
  ASSUME NEW S, IsFiniteSet(S), NEW V, NEW base \in V, NEW g \in [S \X V -> V],
         NEW ch, \A s \in SUBSET S : s # {} => ch[s] \in s
  PROVE  \E it \in [SUBSET S -> V] : Folds(S, base, g, ch, it)
<1> DEFINE Small(n) == {s \in SUBSET S : Cardinality(s) <= n}
           Good(n, it) == \A s \in Small(n) : it[s] = IF s = {} THEN base ELSE g[<<ch[s], it[s \ {ch[s]}]>>]
<1>1. PICK N : N = Cardinality(S) /\ N \in Nat
  BY FS_CardinalityType
<1>2. PICK T : T = {n \in 0..N : \E it \in [Small(n) -> V] : Good(n, it)}
  OBVIOUS
<1>3. \A s \in SUBSET S : IsFiniteSet(s) /\ Cardinality(s) \in Nat /\ Cardinality(s) <= N
  BY <1>1, FS_Subset, FS_CardinalityType
<1>4. \A s \in SUBSET S : s # {} => Cardinality(s \ {ch[s]}) = Cardinality(s) - 1 /\ Cardinality(s) # 0
  BY <1>3, FS_RemoveElement, FS_EmptySet
<1>5. 0 \in T
  <2>1. \A s \in Small(0) : s = {}
    <3>1. SUFFICES ASSUME NEW s \in Small(0), s # {} PROVE FALSE
      OBVIOUS
    <3>2. s \in SUBSET S /\ Cardinality(s) <= 0
      OBVIOUS
    <3>3. Cardinality(s) \in Nat /\ Cardinality(s) # 0
      BY <1>3, <1>4, <3>1, <3>2
    <3>4. QED
      BY <3>2, <3>3
  <2>2. [s \in Small(0) |-> base] \in [Small(0) -> V]
    OBVIOUS
  <2>3. Good(0, [s \in Small(0) |-> base])
    BY <2>1
  <2> HIDE DEF Small, Good
  <2>4. QED
    BY <1>1, <1>2, <2>2, <2>3
<1>6. ASSUME NEW n \in 0..(N - 1), n \in T PROVE n + 1 \in T
  <2>1. PICK it \in [Small(n) -> V] : Good(n, it)
    BY <1>2, <1>6
  <2>2. PICK jt : jt = [s \in Small(n + 1) |-> IF s = {} THEN base ELSE g[<<ch[s], it[s \ {ch[s]}]>>]]
    OBVIOUS
  <2>3. ASSUME NEW s \in Small(n + 1), s # {} PROVE s \ {ch[s]} \in Small(n) /\ ch[s] \in S
    <3>1. Cardinality(s) \in Nat /\ Cardinality(s \ {ch[s]}) = Cardinality(s) - 1 /\ Cardinality(s) <= n + 1
      BY <1>3, <1>4, <2>3
    <3>2. QED
      BY <2>3, <3>1
  <2>4. jt \in [Small(n + 1) -> V]
    BY <2>1, <2>2, <2>3
  <2>5. ASSUME NEW s \in Small(n) PROVE s \in Small(n + 1) /\ jt[s] = it[s]
    <3>1. Cardinality(s) \in Nat /\ Cardinality(s) <= n + 1
      BY <1>3
    <3>2. s \in Small(n + 1)
      BY <3>1
    <3>3. QED
      BY <2>1, <2>2, <3>2
  <2>6. Good(n + 1, jt)
    BY <2>2, <2>3, <2>5
  <2>7. n + 1 \in 0..N
    BY <1>1
  <2>8. QED
    BY <1>2, <2>4, <2>6, <2>7
<1>7. N \in T
  <2>1. \A n \in 0..N : n \in T
    BY <1>1, <1>5, <1>6, UpTo
  <2>2. QED
    BY <1>1, <2>1
<1>8. Small(N) = SUBSET S
  BY <1>3
<1>9. PICK it \in [Small(N) -> V] : Good(N, it)
  BY <1>2, <1>7
<1>10. QED
  BY <1>8, <1>9 DEF Folds

\* Of some of the first numbers one is the greatest, and one the least.
LEMMA Greatest ==
  ASSUME NEW N \in Nat, NEW s \in SUBSET (1..N), s # {}
  PROVE  /\ \E x \in s : \A y \in s : x >= y
         /\ \E x \in s : \A y \in s : x <= y
<1>1. PICK T : T = {n \in 0..N : \A r \in SUBSET (1..n) : r # {} =>
                      /\ \E x \in r : \A y \in r : x >= y
                      /\ \E x \in r : \A y \in r : x <= y}
  OBVIOUS
<1>2. 0 \in T
  <2>1. 1..0 = {} /\ 0 \in 0..N
    OBVIOUS
  <2>2. \A r \in SUBSET (1..0) : r = {}
    BY <2>1
  <2>3. QED
    BY <1>1, <2>1, <2>2
<1>3. ASSUME NEW n \in 0..(N - 1), n \in T PROVE n + 1 \in T
  <2>1. ASSUME NEW r \in SUBSET (1..(n + 1)), r # {}
        PROVE  /\ \E x \in r : \A y \in r : x >= y
               /\ \E x \in r : \A y \in r : x <= y
    <3>1. r \ {n + 1} \in SUBSET (1..n) /\ \A y \in r : y \in Int /\ y <= n + 1 /\ n + 1 \in Int
      OBVIOUS
    <3>2. CASE r \ {n + 1} = {}
      <4>1. \A y \in r : y = n + 1
        BY <3>2
      <4>2. n + 1 \in r
        BY <2>1, <4>1
      <4>3. QED
        BY <3>1, <4>1, <4>2
    <3>3. CASE r \ {n + 1} # {}
      <4>1. PICK x \in r \ {n + 1} : \A y \in r \ {n + 1} : x >= y
        BY <1>1, <1>3, <3>1, <3>3
      <4>2. PICK z \in r \ {n + 1} : \A y \in r \ {n + 1} : z <= y
        BY <1>1, <1>3, <3>1, <3>3
      <4>3. \A y \in r : z <= y
        BY <3>1, <4>2
      <4>4. \E w \in r : \A y \in r : w >= y
        <5>1. CASE n + 1 \in r
          BY <3>1, <5>1
        <5>2. CASE n + 1 \notin r
          BY <4>1, <5>2
        <5>3. QED
          BY <5>1, <5>2
      <4>5. QED
        BY <4>2, <4>3, <4>4
    <3>4. QED
      BY <3>2, <3>3
  <2>2. n + 1 \in 0..N
    OBVIOUS
  <2>3. QED
    BY <1>1, <2>1, <2>2
<1>4. N \in T
  <2>1. \A n \in 0..N : n \in T
    BY <1>2, <1>3, UpTo
  <2>2. QED
    BY <2>1
<1>5. QED
  BY <1>1, <1>4

\* The greatest and the least of some dimensions.
LEMMA MaxIs ==
  ASSUME NEW s \in SUBSET Dims, s # {}
  PROVE  /\ Max(s) \in s /\ \A y \in s : Max(s) >= y
         /\ Min(s) \in s /\ \A y \in s : Min(s) <= y
<1>1. /\ \E x \in s : \A y \in s : x >= y
      /\ \E x \in s : \A y \in s : x <= y
  BY MergeAssumption, Greatest DEF Dims
<1>2. QED
  BY <1>1 DEF Max, Min

\* The first dimensions, and the last of them.
LEMMA UpperDims ==
  ASSUME NEW d \in Dims
  PROVE  /\ Max(1..d) = d /\ (1..d) \ {d} = 1..(d - 1) /\ 1..d \in SUBSET Dims /\ 1..d # {}
         /\ d - 1 \in 0..NDims /\ 1..NDims = Dims /\ 1..0 = {} /\ {} \in SUBSET Dims
<1>1. NDims \in Nat /\ d \in 1..NDims
  BY MergeAssumption DEF Dims
<1>2. 1..d \in SUBSET Dims /\ 1..d # {}
  BY <1>1 DEF Dims
<1>3. Max(1..d) \in 1..d /\ Max(1..d) >= d
  BY <1>1, <1>2, MaxIs
<1>4. Max(1..d) = d
  BY <1>1, <1>3
<1>5. QED
  BY <1>1, <1>2, <1>4 DEF Dims

\* FoldLeft takes the function that is chosen here to all numbers: their product.
MultipliedUp(seq) ==
  (CHOOSE iter : iter = [s \in SUBSET DOMAIN seq |->
     IF s = {} THEN 1 ELSE iter[s \ {Max(s)}] * seq[Max(s)]])[DOMAIN seq]

\* Product is one.
LEMMA ProductIs ==
  ASSUME NEW f
  PROVE  Product(f) = MultipliedUp([d \in Dims |-> f[d]])
BY Zenon DEF Product, MultipliedUp, FoldLeft, MapThenFoldSet

(* A product over some dimensions is that over those before the last of them,  *)
(* times the last: there is a function of this kind, so the chosen one is.   *)
LEMMA ProductFolds ==
  ASSUME NEW f \in [Dims -> Nat]
  PROVE  \E it : /\ Product(f) = it[Dims]
                 /\ \A s \in SUBSET Dims :
                      it[s] = IF s = {} THEN 1 ELSE it[s \ {Max(s)}] * f[Max(s)]
<1>1. PICK ch, g : /\ ch = [s \in SUBSET Dims |-> Max(s)]
                   /\ g = [p \in Dims \X Nat |-> p[2] * f[p[1]]]
  OBVIOUS
<1>2. IsFiniteSet(Dims)
  BY MergeAssumption, FS_Interval DEF Dims
<1>3. \A s \in SUBSET Dims : s # {} => ch[s] \in s
  BY <1>1, MaxIs
<1>4. g \in [Dims \X Nat -> Nat] /\ \A x \in Dims, a \in Nat : g[<<x, a>>] = a * f[x]
  BY <1>1
<1>5. PICK it \in [SUBSET Dims -> Nat] : Folds(Dims, 1, g, ch, it)
  BY <1>2, <1>3, <1>4, FoldThere
<1>6. ASSUME NEW s \in SUBSET Dims PROVE it[s] = IF s = {} THEN 1 ELSE it[s \ {Max(s)}] * f[Max(s)]
  BY <1>1, <1>3, <1>4, <1>5 DEF Folds
<1>7. PICK seq : seq = [d \in Dims |-> f[d]] /\ Product(f) = MultipliedUp(seq)
  BY ProductIs
<1>8. seq = f /\ DOMAIN seq = Dims
  BY <1>7
<1>9. it = [s \in SUBSET DOMAIN seq |-> IF s = {} THEN 1 ELSE it[s \ {Max(s)}] * seq[Max(s)]]
  BY <1>6, <1>8
<1>10. PICK jt : /\ jt = CHOOSE iter : iter = [s \in SUBSET DOMAIN seq |->
                       IF s = {} THEN 1 ELSE iter[s \ {Max(s)}] * seq[Max(s)]]
                /\ Product(f) = jt[DOMAIN seq]
  BY <1>7, Zenon DEF MultipliedUp
<1>11. jt = [s \in SUBSET DOMAIN seq |-> IF s = {} THEN 1 ELSE jt[s \ {Max(s)}] * seq[Max(s)]]
  BY <1>9, <1>10, Zenon
<1>12. jt = [s \in SUBSET Dims |-> IF s = {} THEN 1 ELSE jt[s \ {Max(s)}] * f[Max(s)]]
  BY <1>8, <1>11, Zenon
<1>13. \A s \in SUBSET Dims : jt[s] = IF s = {} THEN 1 ELSE jt[s \ {Max(s)}] * f[Max(s)]
  BY <1>12, Zenon
<1>14. Product(f) = jt[Dims]
  BY <1>8, <1>10, Zenon
<1>15. QED
  BY <1>13, <1>14, Zenon

\* pr[d] is the product, su[d] the sum of the first d values.
Multiplies(pr, f) == pr[0] = 1 /\ \A d \in Dims : pr[d] = pr[d - 1] * f[d]

AddsUp(su, f) == su[0] = 0 /\ \A d \in Dims : su[d] = su[d - 1] + f[d]

\* A product is the last of the products of the first dimensions.
LEMMA ProductPrefix ==
  ASSUME NEW f \in [Dims -> Nat]
  PROVE  \E pr \in [0..NDims -> Nat] : Multiplies(pr, f) /\ Product(f) = pr[NDims]
<1>1. NDims \in Nat
  BY MergeAssumption
<1>2. PICK it : /\ Product(f) = it[Dims]
                /\ \A s \in SUBSET Dims : it[s] = IF s = {} THEN 1 ELSE it[s \ {Max(s)}] * f[Max(s)]
  BY ProductFolds
<1>3. 1..0 = {} /\ {} \in SUBSET Dims /\ 1..NDims = Dims
  BY <1>1 DEF Dims
<1>4. it[1..0] = 1
  BY <1>2, <1>3
<1>5. ASSUME NEW d \in Dims PROVE it[1..d] = it[1..(d - 1)] * f[d]
  BY <1>2, UpperDims, Zenon
<1>6. PICK T : T = {n \in 0..NDims : it[1..n] \in Nat}
  OBVIOUS
<1>7. 0 \in T
  BY <1>1, <1>4, <1>6
<1>8. ASSUME NEW n \in 0..(NDims - 1), n \in T PROVE n + 1 \in T
  <2>1. n + 1 \in Dims /\ n + 1 \in 0..NDims /\ (n + 1) - 1 = n
    BY <1>1 DEF Dims
  <2>2. it[1..(n + 1)] = it[1..n] * f[n + 1]
    BY <1>5, <2>1
  <2>3. it[1..n] \in Nat /\ f[n + 1] \in Nat
    BY <1>6, <1>8, <2>1
  <2>4. QED
    BY <1>6, <2>1, <2>2, <2>3
<1>9. \A n \in 0..NDims : it[1..n] \in Nat
  <2>1. \A n \in 0..NDims : n \in T
    BY <1>1, <1>7, <1>8, UpTo
  <2>2. QED
    BY <1>6, <2>1
<1>10. PICK pr : pr = [n \in 0..NDims |-> it[1..n]]
  OBVIOUS
<1>11. pr \in [0..NDims -> Nat]
  BY <1>9, <1>10
<1>12. 0 \in 0..NDims /\ NDims \in 0..NDims /\ \A d \in Dims : d \in 0..NDims /\ d - 1 \in 0..NDims
  BY <1>1 DEF Dims
<1>13. Multiplies(pr, f)
  BY <1>4, <1>5, <1>10, <1>12 DEF Multiplies
<1>14. Product(f) = pr[NDims]
  BY <1>2, <1>3, <1>10, <1>12
<1>15. QED
  BY <1>11, <1>13, <1>14

\* Products of the first dimensions are what they are.
LEMMA PrefixUnique ==
  ASSUME NEW f \in [Dims -> Nat], NEW pr, NEW qr, Multiplies(pr, f), Multiplies(qr, f)
  PROVE  \A n \in 0..NDims : pr[n] = qr[n]
<1>1. NDims \in Nat
  BY MergeAssumption
<1>2. PICK T : T = {n \in 0..NDims : pr[n] = qr[n]}
  OBVIOUS
<1>3. 0 \in T
  BY <1>1, <1>2 DEF Multiplies
<1>4. ASSUME NEW n \in 0..(NDims - 1), n \in T PROVE n + 1 \in T
  <2>1. n + 1 \in Dims /\ n + 1 \in 0..NDims /\ (n + 1) - 1 = n
    BY <1>1 DEF Dims
  <2>2. pr[n + 1] = pr[n] * f[n + 1] /\ qr[n + 1] = qr[n] * f[n + 1]
    BY <2>1 DEF Multiplies
  <2>3. QED
    BY <1>2, <1>4, <2>1, <2>2
<1>5. \A n \in 0..NDims : n \in T
  BY <1>1, <1>3, <1>4, UpTo
<1>6. QED
  BY <1>2, <1>5

\* Laws of numbers, by name.
LEMMA Laws ==
  ASSUME NEW a \in Int, NEW b \in Int, NEW c \in Int
  PROVE  (a * b) * c = a * (b * c) /\ a * b = b * a /\ (a + b) * c = a * c + b * c /\ a * b \in Int
OBVIOUS

\* One factor is multiplied: so is the product.
LEMMA ProductScaled ==
  ASSUME NEW f \in [Dims -> Nat], NEW g \in [Dims -> Nat], NEW d \in Dims, NEW a \in Nat,
         g[d] = a * f[d], \A e \in Dims : e # d => g[e] = f[e]
  PROVE  Product(g) = a * Product(f)
<1>1. NDims \in Nat /\ d \in 1..NDims
  BY MergeAssumption DEF Dims
<1>2. PICK pf \in [0..NDims -> Nat] : Multiplies(pf, f) /\ Product(f) = pf[NDims]
  BY ProductPrefix
<1>3. PICK pg \in [0..NDims -> Nat] : Multiplies(pg, g) /\ Product(g) = pg[NDims]
  BY ProductPrefix
<1>4. PICK T : T = {n \in 0..NDims : pg[n] = IF n < d THEN pf[n] ELSE a * pf[n]}
  OBVIOUS
<1>5. 0 \in T
  BY <1>1, <1>2, <1>3, <1>4 DEF Multiplies
<1>6. ASSUME NEW n \in 0..(NDims - 1), n \in T PROVE n + 1 \in T
  <2>1. n + 1 \in Dims /\ n + 1 \in 0..NDims /\ (n + 1) - 1 = n /\ n \in 0..NDims
    BY <1>1 DEF Dims
  <2>2. pf[n + 1] = pf[n] * f[n + 1] /\ pg[n + 1] = pg[n] * g[n + 1]
    BY <1>2, <1>3, <2>1 DEF Multiplies
  <2>3. pf[n] \in Int /\ f[n + 1] \in Int /\ a \in Int
    <3>1. pf[n] \in Nat
      BY <2>1
    <3>2. f[n + 1] \in Nat
      BY <2>1
    <3>3. QED
      BY <3>1, <3>2
  <2>4. CASE n + 1 < d
    <3>1. g[n + 1] = f[n + 1] /\ pg[n] = pf[n]
      BY <1>1, <1>4, <1>6, <2>1, <2>4
    <3>2. QED
      BY <1>4, <2>1, <2>2, <2>4, <3>1
  <2>5. CASE n + 1 = d
    <3>1. g[n + 1] = a * f[n + 1] /\ pg[n] = pf[n]
      BY <1>1, <1>4, <1>6, <2>1, <2>5
    <3>2. pf[n] * (a * f[n + 1]) = a * (pf[n] * f[n + 1])
      BY <2>3, Laws
    <3>3. pg[n + 1] = a * pf[n + 1] /\ ~(n + 1 < d)
      BY <1>1, <2>2, <2>5, <3>1, <3>2
    <3>4. QED
      BY <1>4, <2>1, <3>3
  <2>6. CASE n + 1 > d
    <3>1. g[n + 1] = f[n + 1] /\ pg[n] = a * pf[n]
      BY <1>1, <1>4, <1>6, <2>1, <2>6
    <3>2. (a * pf[n]) * f[n + 1] = a * (pf[n] * f[n + 1])
      BY <2>3, Laws
    <3>3. pg[n + 1] = a * pf[n + 1] /\ ~(n + 1 < d)
      BY <1>1, <2>1, <2>2, <2>6, <3>1, <3>2
    <3>4. QED
      BY <1>4, <2>1, <3>3
  <2>7. QED
    BY <1>1, <2>4, <2>5, <2>6
<1>7. NDims \in T
  <2>1. \A n \in 0..NDims : n \in T
    BY <1>1, <1>5, <1>6, UpTo
  <2>2. QED
    BY <1>1, <2>1
<1>8. QED
  BY <1>1, <1>2, <1>3, <1>4, <1>7

\* A product of ones is one.
LEMMA ProductOfOnes ==
  ASSUME NEW f \in [Dims -> Nat], \A d \in Dims : f[d] = 1
  PROVE  Product(f) = 1
<1>1. NDims \in Nat
  BY MergeAssumption
<1>2. PICK pf \in [0..NDims -> Nat] : Multiplies(pf, f) /\ Product(f) = pf[NDims]
  BY ProductPrefix
<1>3. PICK T : T = {n \in 0..NDims : pf[n] = 1}
  OBVIOUS
<1>4. 0 \in T
  BY <1>1, <1>2, <1>3 DEF Multiplies
<1>5. ASSUME NEW n \in 0..(NDims - 1), n \in T PROVE n + 1 \in T
  <2>1. n + 1 \in Dims /\ n + 1 \in 0..NDims /\ (n + 1) - 1 = n
    BY <1>1 DEF Dims
  <2>2. pf[n + 1] = pf[n] * f[n + 1] /\ f[n + 1] = 1 /\ pf[n] = 1
    BY <1>2, <1>3, <1>5, <2>1 DEF Multiplies
  <2>3. QED
    BY <1>3, <2>1, <2>2
<1>6. NDims \in T
  <2>1. \A n \in 0..NDims : n \in T
    BY <1>1, <1>4, <1>5, UpTo
  <2>2. QED
    BY <1>1, <2>1
<1>7. QED
  BY <1>2, <1>3, <1>6

\* A product that is not 0 has no factor 0.
LEMMA ProductPositive ==
  ASSUME NEW f \in [Dims -> Nat]
  PROVE  Product(f) \in Nat /\ (Product(f) > 0 => \A d \in Dims : f[d] > 0)
<1>1. NDims \in Nat
  BY MergeAssumption
<1>2. PICK pf \in [0..NDims -> Nat] : Multiplies(pf, f) /\ Product(f) = pf[NDims]
  BY ProductPrefix
<1>3. Product(f) \in Nat
  BY <1>1, <1>2
<1>4. ASSUME NEW d \in Dims, f[d] = 0 PROVE Product(f) = 0
  <2>1. [f EXCEPT ![d] = 0] = f
    BY <1>4
  <2>2. f[d] = 0 * f[d]
    BY <1>4
  <2>3. Product(f) = 0 * Product(f)
    BY <2>2, ProductScaled
  <2>4. QED
    BY <1>3, <2>3
<1>5. QED
  BY <1>3, <1>4

(* The elements from one place of a dimension to the next, in an array of   *)
(* count c; and the offset of a place in it.                               *)
Weight(c, d) == Product([e \in Dims |-> IF e > d THEN c[e] ELSE 1])

Spread(c, z) == FoldLeft(+, 0, [d \in Dims |-> z[d] * Weight(c, d)])

Counted == [Dims -> Nat]
Places == [Dims -> Int]

\* The same for sums.
AddedUp(seq) ==
  (CHOOSE iter : iter = [s \in SUBSET DOMAIN seq |->
     IF s = {} THEN 0 ELSE iter[s \ {Max(s)}] + seq[Max(s)]])[DOMAIN seq]

\* An offset is one.
LEMMA SpreadIs ==
  ASSUME NEW c, NEW z
  PROVE  Spread(c, z) = AddedUp([d \in Dims |-> z[d] * Weight(c, d)])
BY Zenon DEF Spread, AddedUp, FoldLeft, MapThenFoldSet

\* What the weights are.
LEMMA Weights ==
  ASSUME NEW c \in Counted
  PROVE  /\ \A d \in 0..NDims : Weight(c, d) \in Nat
         /\ Weight(c, NDims) = 1
         /\ \A d \in Dims : Weight(c, d - 1) = c[d] * Weight(c, d)
         /\ Weight(c, 0) = Product(c)
<1>1. NDims \in Nat
  BY MergeAssumption
<1>2. ASSUME NEW d \in 0..NDims PROVE [e \in Dims |-> IF e > d THEN c[e] ELSE 1] \in [Dims -> Nat]
  BY DEF Counted
<1>3. ASSUME NEW d \in 0..NDims PROVE Weight(c, d) \in Nat
  BY <1>2, ProductPositive DEF Weight
<1>4. Weight(c, NDims) = 1
  <2>1. NDims \in 0..NDims /\ \A e \in Dims : ~(e > NDims)
    BY <1>1 DEF Dims
  <2>2. PICK f : f = [e \in Dims |-> IF e > NDims THEN c[e] ELSE 1]
    OBVIOUS
  <2>3. f \in [Dims -> Nat] /\ \A e \in Dims : f[e] = 1
    BY <1>2, <2>1, <2>2
  <2>4. Product(f) = 1
    BY <2>3, ProductOfOnes
  <2>5. QED
    BY <2>2, <2>4 DEF Weight
<1>5. ASSUME NEW d \in Dims PROVE Weight(c, d - 1) = c[d] * Weight(c, d)
  <2>1. d \in 0..NDims /\ d - 1 \in 0..NDims
    BY <1>1 DEF Dims
  <2>2. PICK f, g : /\ f = [e \in Dims |-> IF e > d THEN c[e] ELSE 1]
                    /\ g = [e \in Dims |-> IF e > d - 1 THEN c[e] ELSE 1]
    OBVIOUS
  <2>3. f \in [Dims -> Nat] /\ g \in [Dims -> Nat] /\ c[d] \in Nat
    BY <1>2, <2>1, <2>2 DEF Counted
  <2>4. f[d] = 1 /\ g[d] = c[d]
    BY <2>1, <2>2
  <2>5. \A e \in Dims : e # d => g[e] = f[e]
    BY <1>1, <2>1, <2>2 DEF Dims
  <2>6. g[d] = c[d] * f[d]
    BY <2>3, <2>4
  <2>7. Product(g) = c[d] * Product(f)
    BY <2>3, <2>5, <2>6, ProductScaled
  <2>8. QED
    BY <2>2, <2>7 DEF Weight
<1>6. Weight(c, 0) = Product(c)
  <2>1. [e \in Dims |-> IF e > 0 THEN c[e] ELSE 1] = c
    BY DEF Counted, Dims
  <2>2. QED
    BY <2>1, Zenon DEF Weight
<1>7. QED
  BY <1>3, <1>4, <1>5, <1>6

\* An offset is the last of the sums over the first dimensions.
LEMMA SpreadPrefix ==
  ASSUME NEW c \in Counted, NEW z \in Places
  PROVE  \E su \in [0..NDims -> Int] :
           /\ su[0] = 0 /\ \A d \in Dims : su[d] = su[d - 1] + z[d] * Weight(c, d)
           /\ Spread(c, z) = su[NDims]
<1>1. NDims \in Nat
  BY MergeAssumption
<1>2. PICK seq : /\ seq = [d \in Dims |-> z[d] * Weight(c, d)]
                 /\ Spread(c, z) = AddedUp(seq)
  BY SpreadIs
<1>3. \A d \in Dims : d \in 0..NDims /\ d - 1 \in 0..NDims
  BY <1>1 DEF Dims
<1>4. ASSUME NEW d \in Dims PROVE z[d] * Weight(c, d) \in Int
  <2>1. Weight(c, d) \in Nat /\ z[d] \in Int
    BY <1>3, Weights DEF Places
  <2>2. QED
    BY <2>1
<1>5. seq \in [Dims -> Int] /\ DOMAIN seq = Dims /\ \A d \in Dims : seq[d] = z[d] * Weight(c, d)
  BY <1>2, <1>4
<1>6. PICK ch, g : /\ ch = [s \in SUBSET Dims |-> Max(s)]
                   /\ g = [p \in Dims \X Int |-> p[2] + seq[p[1]]]
  OBVIOUS
<1>7. IsFiniteSet(Dims)
  BY <1>1, FS_Interval DEF Dims
<1>8. \A s \in SUBSET Dims : s # {} => ch[s] \in s
  BY <1>6, MaxIs
<1>9. g \in [Dims \X Int -> Int] /\ \A x \in Dims, a \in Int : g[<<x, a>>] = a + seq[x]
  BY <1>5, <1>6
<1>10. PICK it \in [SUBSET Dims -> Int] : Folds(Dims, 0, g, ch, it)
  <2>1. PICK V, base : V = Int /\ base = 0 /\ base \in V
    OBVIOUS
  <2>2. g \in [Dims \X V -> V]
    BY <1>9, <2>1
  <2>3. \E it \in [SUBSET Dims -> V] : Folds(Dims, base, g, ch, it)
    BY <1>7, <1>8, <2>1, <2>2, FoldThere
  <2>4. QED
    BY <2>1, <2>3
<1>11. ASSUME NEW s \in SUBSET Dims
       PROVE  it[s] = IF s = {} THEN 0 ELSE it[s \ {Max(s)}] + seq[Max(s)]
  BY <1>6, <1>8, <1>9, <1>10 DEF Folds
<1>12. it = [s \in SUBSET DOMAIN seq |-> IF s = {} THEN 0 ELSE it[s \ {Max(s)}] + seq[Max(s)]]
  BY <1>5, <1>11
<1>13. PICK jt : /\ jt = CHOOSE iter : iter = [s \in SUBSET DOMAIN seq |->
                       IF s = {} THEN 0 ELSE iter[s \ {Max(s)}] + seq[Max(s)]]
                 /\ Spread(c, z) = jt[DOMAIN seq]
  BY <1>2, Zenon DEF AddedUp
<1>14. jt = [s \in SUBSET DOMAIN seq |-> IF s = {} THEN 0 ELSE jt[s \ {Max(s)}] + seq[Max(s)]]
  BY <1>12, <1>13, Zenon
<1>15. \A s \in SUBSET Dims : jt[s] = IF s = {} THEN 0 ELSE jt[s \ {Max(s)}] + seq[Max(s)]
  BY <1>5, <1>14, Zenon
<1>16. 1..0 = {} /\ {} \in SUBSET Dims /\ 1..NDims = Dims
  BY <1>1 DEF Dims
<1>17. jt[1..0] = 0
  BY <1>15, <1>16
<1>18. ASSUME NEW d \in Dims PROVE jt[1..d] = jt[1..(d - 1)] + seq[d]
  BY <1>15, UpperDims, Zenon
<1>19. PICK T : T = {n \in 0..NDims : jt[1..n] \in Int}
  OBVIOUS
<1>20. 0 \in T
  BY <1>1, <1>17, <1>19
<1>21. ASSUME NEW n \in 0..(NDims - 1), n \in T PROVE n + 1 \in T
  <2>1. n + 1 \in Dims /\ n + 1 \in 0..NDims /\ (n + 1) - 1 = n
    BY <1>1 DEF Dims
  <2>2. jt[1..(n + 1)] = jt[1..n] + seq[n + 1]
    BY <1>18, <2>1
  <2>3. jt[1..n] \in Int /\ seq[n + 1] \in Int
    BY <1>5, <1>19, <1>21, <2>1
  <2>4. QED
    BY <1>19, <2>1, <2>2, <2>3
<1>22. \A n \in 0..NDims : jt[1..n] \in Int
  <2>1. \A n \in 0..NDims : n \in T
    BY <1>1, <1>20, <1>21, UpTo
  <2>2. QED
    BY <1>19, <2>1
<1>23. PICK su : su = [n \in 0..NDims |-> jt[1..n]]
  OBVIOUS
<1>24. su \in [0..NDims -> Int]
  BY <1>22, <1>23
<1>25. 0 \in 0..NDims /\ NDims \in 0..NDims
  BY <1>1
<1>26. su[0] = 0 /\ \A d \in Dims : su[d] = su[d - 1] + z[d] * Weight(c, d)
  BY <1>3, <1>5, <1>17, <1>18, <1>23, <1>25
<1>27. Spread(c, z) = su[NDims]
  BY <1>5, <1>13, <1>16, <1>23, <1>25
<1>28. QED
  BY <1>24, <1>26, <1>27

\* A step in one dimension.
LEMMA SpreadMoved ==
  ASSUME NEW c \in Counted, NEW z \in Places, NEW y \in Places, NEW d \in Dims, NEW a \in Int,
         y[d] = z[d] + a, \A e \in Dims : e # d => y[e] = z[e]
  PROVE  Spread(c, y) = Spread(c, z) + a * Weight(c, d)
<1>1. NDims \in Nat /\ d \in 1..NDims
  BY MergeAssumption DEF Dims
<1>2. PICK su \in [0..NDims -> Int] :
           /\ su[0] = 0 /\ \A e \in Dims : su[e] = su[e - 1] + z[e] * Weight(c, e)
           /\ Spread(c, z) = su[NDims]
  BY SpreadPrefix
<1>3. PICK tu \in [0..NDims -> Int] :
           /\ tu[0] = 0 /\ \A e \in Dims : tu[e] = tu[e - 1] + y[e] * Weight(c, e)
           /\ Spread(c, y) = tu[NDims]
  BY SpreadPrefix
<1>4. PICK w : w = a * Weight(c, d)
  OBVIOUS
<1>5. \A e \in Dims : Weight(c, e) \in Int /\ y[e] \in Int /\ z[e] \in Int
  <2>1. \A e \in Dims : y[e] \in Int /\ z[e] \in Int
    BY DEF Places
  <2>2. \A e \in Dims : e \in 0..NDims
    BY <1>1 DEF Dims
  <2>3. \A e \in Dims : Weight(c, e) \in Nat
    BY <2>2, Weights
  <2>4. QED
    BY <2>1, <2>3
<1>6. w \in Int
  BY <1>4, <1>5
<1>7. PICK T : T = {n \in 0..NDims : tu[n] = IF n < d THEN su[n] ELSE su[n] + w}
  OBVIOUS
<1>8. 0 \in T
  BY <1>1, <1>2, <1>3, <1>7
<1>9. ASSUME NEW n \in 0..(NDims - 1), n \in T PROVE n + 1 \in T
  <2>1. n + 1 \in Dims /\ n + 1 \in 0..NDims /\ (n + 1) - 1 = n /\ n \in 0..NDims
    BY <1>1 DEF Dims
  <2>2. PICK p, q : p = z[n + 1] * Weight(c, n + 1) /\ q = y[n + 1] * Weight(c, n + 1)
    OBVIOUS
  <2>3. su[n + 1] = su[n] + p /\ tu[n + 1] = tu[n] + q
    BY <1>2, <1>3, <2>1, <2>2
  <2>4. p \in Int /\ q \in Int
    BY <1>5, <2>1, <2>2
  <2>5. su[n] \in Int /\ tu[n] \in Int
    BY <2>1
  <2>6. tu[n] = IF n < d THEN su[n] ELSE su[n] + w
    BY <1>7, <1>9
  <2>7. q = IF n + 1 = d THEN p + w ELSE p
    <3>1. CASE n + 1 = d
      <4>1. y[n + 1] = z[n + 1] + a
        BY <3>1
      <4>2. PICK v \in Int, u \in Int : v = Weight(c, n + 1) /\ u = z[n + 1]
        BY <1>5, <2>1
      <4>3. (u + a) * v = u * v + a * v
        BY <4>2, Laws
      <4>4. QED
        BY <1>4, <2>2, <3>1, <4>1, <4>2, <4>3
    <3>2. CASE n + 1 # d
      BY <2>1, <2>2, <3>2
    <3>3. QED
      BY <3>1, <3>2
  <2>8. tu[n + 1] = IF n + 1 < d THEN su[n + 1] ELSE su[n + 1] + w
    BY <1>1, <1>6, <2>1, <2>3, <2>4, <2>5, <2>6, <2>7
  <2>9. QED
    BY <1>7, <2>1, <2>8
<1>10. NDims \in T
  <2>1. \A n \in 0..NDims : n \in T
    BY <1>1, <1>8, <1>9, UpTo
  <2>2. QED
    BY <1>1, <2>1
<1>11. tu[NDims] = su[NDims] + w
  BY <1>1, <1>7, <1>10
<1>12. QED
  BY <1>2, <1>3, <1>4, <1>11

\* The first place.
LEMMA SpreadZero ==
  ASSUME NEW c \in Counted, NEW z \in Places, \A d \in Dims : z[d] = 0
  PROVE  Spread(c, z) = 0
<1>1. NDims \in Nat
  BY MergeAssumption
<1>2. PICK su \in [0..NDims -> Int] :
           /\ su[0] = 0 /\ \A e \in Dims : su[e] = su[e - 1] + z[e] * Weight(c, e)
           /\ Spread(c, z) = su[NDims]
  BY SpreadPrefix
<1>3. PICK T : T = {n \in 0..NDims : su[n] = 0}
  OBVIOUS
<1>4. 0 \in T
  BY <1>1, <1>2, <1>3
<1>5. ASSUME NEW n \in 0..(NDims - 1), n \in T PROVE n + 1 \in T
  <2>1. n + 1 \in Dims /\ n + 1 \in 0..NDims /\ (n + 1) - 1 = n
    BY <1>1 DEF Dims
  <2>2. PICK v \in Nat : v = Weight(c, n + 1)
    BY <2>1, Weights
  <2>3. su[n + 1] = su[n] + z[n + 1] * v /\ su[n] = 0 /\ z[n + 1] = 0
    BY <1>2, <1>3, <1>5, <2>1, <2>2
  <2>4. QED
    BY <1>3, <2>1, <2>3
<1>6. NDims \in T
  <2>1. \A n \in 0..NDims : n \in T
    BY <1>1, <1>4, <1>5, UpTo
  <2>2. QED
    BY <1>1, <2>1
<1>7. QED
  BY <1>2, <1>3, <1>6

\* A place in the array has an offset in it.
LEMMA SpreadBounded ==
  ASSUME NEW c \in Counted, NEW z \in Places, \A d \in Dims : 0 <= z[d] /\ z[d] < c[d]
  PROVE  Spread(c, z) \in 0..(Product(c) - 1)
<1>1. NDims \in Nat
  BY MergeAssumption
<1>2. PICK su \in [0..NDims -> Int] :
           /\ su[0] = 0 /\ \A e \in Dims : su[e] = su[e - 1] + z[e] * Weight(c, e)
           /\ Spread(c, z) = su[NDims]
  BY SpreadPrefix
<1>3. PICK T : T = {n \in 0..NDims : 0 <= su[n] /\ su[n] + Weight(c, n) <= Weight(c, 0)}
  OBVIOUS
<1>4. 0 \in T
  BY <1>1, <1>2, <1>3, Weights
<1>5. ASSUME NEW n \in 0..(NDims - 1), n \in T PROVE n + 1 \in T
  <2>1. n + 1 \in Dims /\ n + 1 \in 0..NDims /\ (n + 1) - 1 = n /\ n \in 0..NDims /\ 0 \in 0..NDims
    BY <1>1 DEF Dims
  <2>2. PICK v \in Nat, w \in Nat, all \in Nat : v = Weight(c, n + 1) /\ w = Weight(c, n) /\ all = Weight(c, 0)
    BY <2>1, Weights
  <2>3. PICK m \in Nat, p \in Int : m = c[n + 1] /\ p = z[n + 1]
    BY <2>1 DEF Counted, Places
  <2>4. w = m * v
    <3>1. Weight(c, (n + 1) - 1) = c[n + 1] * Weight(c, n + 1)
      BY <2>1, Weights
    <3>2. QED
      BY <2>1, <2>2, <2>3, <3>1
  <2>5. su[n + 1] = su[n] + p * v /\ su[n] \in Int
    <3>1. su[n + 1] = su[n] + p * v
      BY <1>2, <2>1, <2>2, <2>3
    <3>2. su[n] \in Int
      BY <2>1
    <3>3. QED
      BY <3>1, <3>2
  <2>6. 0 <= su[n] /\ su[n] + w <= all
    BY <1>3, <1>5, <2>2
  <2>7. 0 <= p /\ p + 1 <= m
    BY <2>1, <2>3
  <2>8. 0 <= p * v /\ p * v + v <= m * v
    <3>1. PICK r \in Nat : m = p + 1 + r
      <4>1. m - (p + 1) \in Nat
        BY <2>7
      <4>2. m = p + 1 + (m - (p + 1))
        BY <2>7
      <4>3. QED
        BY <4>1, <4>2
    <3>2. p \in Nat
      BY <2>7
    <3>3. p * v \in Nat /\ r * v \in Nat
      BY <3>2
    <3>4. m * v = p * v + v + r * v
      BY <3>1, <3>2
    <3>5. QED
      BY <3>3, <3>4
  <2>9. 0 <= su[n + 1] /\ su[n + 1] + v <= all
    <3>1. PICK x \in Int, pv \in Int, mv \in Int : x = su[n] /\ pv = p * v /\ mv = m * v
      BY <2>5
    <3>2. 0 <= x + pv /\ (x + pv) + v <= all
      BY <2>4, <2>6, <2>8, <3>1
    <3>3. QED
      BY <2>5, <3>1, <3>2
  <2>10. QED
    BY <1>3, <2>1, <2>2, <2>9
<1>6. NDims \in T
  <2>1. \A n \in 0..NDims : n \in T
    BY <1>1, <1>4, <1>5, UpTo
  <2>2. QED
    BY <1>1, <2>1
<1>7. Weight(c, NDims) = 1 /\ Weight(c, 0) = Product(c) /\ Weight(c, 0) \in Nat /\ su[NDims] \in Int
  <2>1. NDims \in 0..NDims /\ 0 \in 0..NDims
    BY <1>1
  <2>2. QED
    BY <2>1, Weights
<1>8. QED
  BY <1>2, <1>3, <1>6, <1>7

\* One dimension runs over into the next.
LEMMA SpreadCarried ==
  ASSUME NEW c \in Counted, NEW z \in Places, NEW y \in Places, NEW d \in Dims, d - 1 \in Dims,
         NEW n \in Int,
         y[d] = z[d] - n, y[d - 1] = z[d - 1] + 1, \A e \in Dims : e # d /\ e # d - 1 => y[e] = z[e]
  PROVE  Spread(c, y) = Spread(c, z) - n * Weight(c, d) + c[d] * Weight(c, d)
<1>1. d \in Int /\ z[d] \in Int /\ z[d - 1] \in Int
  BY MergeAssumption DEF Dims, Places
<1>2. PICK x : x = [z EXCEPT ![d] = z[d] - n]
  OBVIOUS
<1>3. x \in Places /\ x[d] = z[d] - n /\ \A e \in Dims : e # d => x[e] = z[e]
  BY <1>1, <1>2 DEF Places
<1>4. PICK a \in Int : a = 0 - n
  OBVIOUS
<1>5. Spread(c, x) = Spread(c, z) + a * Weight(c, d)
  <2>1. x[d] = z[d] + a
    BY <1>1, <1>3, <1>4
  <2>2. QED
    BY <1>3, <2>1, SpreadMoved
<1>6. Spread(c, y) = Spread(c, x) + 1 * Weight(c, d - 1)
  <2>1. d - 1 # d
    BY <1>1
  <2>2. y[d - 1] = x[d - 1] + 1
    BY <1>3, <2>1
  <2>3. \A e \in Dims : e # d - 1 => y[e] = x[e]
    BY <1>3
  <2>4. QED
    BY <1>3, <2>2, <2>3, SpreadMoved
<1>7. PICK v \in Nat, w \in Nat, m \in Nat, s \in Int :
        v = Weight(c, d) /\ w = Weight(c, d - 1) /\ w = m * v /\ m = c[d] /\ s = Spread(c, z)
  <2>1. d \in 0..NDims /\ d - 1 \in 0..NDims /\ c[d] \in Nat
    BY MergeAssumption DEF Dims, Counted
  <2>2. Weight(c, d) \in Nat /\ Weight(c, d - 1) \in Nat /\ Weight(c, d - 1) = c[d] * Weight(c, d)
    BY <2>1, Weights
  <2>3. Spread(c, z) \in Int
    BY SpreadPrefix, MergeAssumption
  <2>4. QED
    BY <2>1, <2>2, <2>3
<1>8. Spread(c, y) = (s + a * v) + 1 * w
  BY <1>5, <1>6, <1>7
<1>9. a * v = 0 - n * v /\ n * v \in Int /\ m * v \in Int
  BY <1>4, <1>7
<1>10. Spread(c, y) = s - n * v + m * v
  BY <1>7, <1>8, <1>9
<1>11. QED
  BY <1>7, <1>10

\* Only the whole array is as far as one row in the first dimension more.
LEMMA SpreadFull ==
  ASSUME NEW c \in Counted, NEW z \in Places, 1 \in Dims, z[1] = c[1],
         \A e \in Dims : e # 1 => z[e] = 0
  PROVE  Spread(c, z) = Product(c)
<1>1. PICK x : x = [e \in Dims |-> 0]
  OBVIOUS
<1>2. x \in Places /\ \A e \in Dims : x[e] = 0
  BY <1>1 DEF Places
<1>3. c[1] \in Nat
  BY DEF Counted
<1>4. Spread(c, z) = Spread(c, x) + c[1] * Weight(c, 1)
  <2>1. z[1] = x[1] + c[1]
    BY <1>2, <1>3
  <2>2. QED
    BY <1>2, <1>3, <2>1, SpreadMoved
<1>5. Spread(c, x) = 0
  BY <1>2, SpreadZero
<1>6. Weight(c, 1 - 1) = c[1] * Weight(c, 1) /\ Weight(c, 0) = Product(c)
  BY Weights
<1>7. Product(c) \in Nat
  BY ProductPositive DEF Counted
<1>8. QED
  BY <1>4, <1>5, <1>6, <1>7

-------------------------------------------------------------------------------
(* Where a place of the part is in the box. *)
Shifted(x) == [d \in Dims |-> (parts[k].start[d] - box.start[d]) + x[d]]

\* The offset of a part is a sum, too.
LEMMA OffsetIs ==
  DstOffset = AddedUp([d \in Dims |-> (parts[k].start[d] - box.start[d]) * Stride(d)])
BY Zenon DEF DstOffset, AddedUp, FoldLeft, MapThenFoldSet

\* The offset that _put_var starts with is that of the part's first element.
LEMMA DstOffsetIs ==
  ASSUME BoxInv, k \in 1..NumParts, NEW x, x = [d \in Dims |-> 0]
  PROVE  DstOffset = Spread(box.count, Shifted(x))
<1>1. PICK seq : /\ seq = [d \in Dims |-> (parts[k].start[d] - box.start[d]) * Stride(d)]
                 /\ DstOffset = AddedUp(seq)
  BY OffsetIs
<1>2. PICK z : z = Shifted(x)
  OBVIOUS
<1>3. PICK seq2 : /\ seq2 = [d \in Dims |-> z[d] * Weight(box.count, d)]
                  /\ Spread(box.count, z) = AddedUp(seq2)
  BY SpreadIs
<1>4. ASSUME NEW d \in Dims PROVE z[d] = parts[k].start[d] - box.start[d]
  <2>1. parts[k] \in Part /\ box \in Part
    BY DEF BoxInv, BoxType
  <2>2. PICK a \in Nat, b \in Nat : a = parts[k].start[d] /\ b = box.start[d]
    BY <2>1 DEF Part
  <2>3. z[d] = (a - b) + 0
    BY <1>2, <2>2 DEF Shifted
  <2>4. QED
    BY <2>2, <2>3
<1>5. ASSUME NEW d \in Dims PROVE Stride(d) = Weight(box.count, d)
  BY Zenon DEF Stride, Weight
<1>6. seq = seq2
  BY <1>1, <1>3, <1>4, <1>5
<1>7. QED
  BY <1>1, <1>2, <1>3, <1>6

(* At an element of the part: the index is in it, and both pointers are where *)
(* the index says.                                                           *)
AtElement ==
  /\ src_index \in [Dims -> Nat] /\ \A d \in Dims : src_index[d] < parts[k].count[d]
  /\ src = i /\ i = Spread(parts[k].count, src_index)
  /\ dst = Spread(box.count, Shifted(src_index))

(* While the index is carried: it counts one element more than the pointers;  *)
(* it may be over in dimension dim only, and is 0 in those behind.            *)
BetweenElements ==
  /\ src_index \in [Dims -> Nat] /\ dim \in Dims
  /\ src = i /\ i \in Nat /\ i + 1 < SrcLen
  /\ i + 1 = Spread(parts[k].count, src_index)
  /\ sub = Weight(box.count, dim)
  /\ dst \in Int /\ dst + sub = Spread(box.count, Shifted(src_index))
  /\ \A d \in Dims : /\ d < dim => src_index[d] < parts[k].count[d]
                     /\ d = dim => src_index[d] <= parts[k].count[d]
                     /\ d > dim => src_index[d] = 0

CopyInv ==
  /\ pc \in {"box", "part", "copy", "carry", "written"} /\ i \in Nat
  /\ pc \in {"copy", "carry"} => k <= NumParts
  /\ pc # "box" => DOMAIN data = 0..(Product(box.count) - 1)
  /\ pc = "copy" /\ SrcLen > 0 => AtElement
  /\ pc = "carry" => BetweenElements

\* The part at hand and the box it is in.
LEMMA PartAtHand ==
  ASSUME BoxInv, pc # "box", k \in 1..NumParts
  PROVE  /\ parts[k].count \in Counted /\ box.count \in Counted /\ SrcLen \in Nat
         /\ \A d \in Dims : /\ parts[k].start[d] \in Nat /\ parts[k].count[d] \in Nat
                            /\ box.start[d] \in Nat /\ box.count[d] \in Nat
                            /\ box.start[d] <= parts[k].start[d]
                            /\ parts[k].start[d] + parts[k].count[d] <= box.start[d] + box.count[d]
         /\ SrcLen > 0 => \A d \in Dims : parts[k].count[d] > 0
<1>1. parts[k] \in Part /\ box \in Part /\ Inside(parts[k])
  BY DEF BoxInv, BoxType, BoxTight
<1>2. parts[k].count \in Counted /\ box.count \in Counted
  BY <1>1 DEF Part, Counted
<1>3. SrcLen \in Nat /\ (SrcLen > 0 => \A d \in Dims : parts[k].count[d] > 0)
  BY <1>2, ProductPositive DEF SrcLen, Counted
<1>4. QED
  BY <1>1, <1>2, <1>3 DEF Part, Inside

\* Places in the part are places in the box.
LEMMA ShiftedInBox ==
  ASSUME BoxInv, pc # "box", k \in 1..NumParts, NEW x \in [Dims -> Nat]
  PROVE  /\ Shifted(x) \in Places
         /\ (\A d \in Dims : x[d] < parts[k].count[d]) =>
              \A d \in Dims : 0 <= Shifted(x)[d] /\ Shifted(x)[d] < box.count[d]
<1>1. ASSUME NEW d \in Dims
      PROVE  /\ Shifted(x)[d] \in Int
             /\ x[d] < parts[k].count[d] => 0 <= Shifted(x)[d] /\ Shifted(x)[d] < box.count[d]
  <2>1. PICK a \in Nat, b \in Nat, m \in Nat, n \in Nat, y \in Nat :
          /\ a = parts[k].start[d] /\ b = box.start[d] /\ m = parts[k].count[d] /\ n = box.count[d]
          /\ b <= a /\ a + m <= b + n /\ y = x[d]
    BY PartAtHand
  <2>2. Shifted(x)[d] = (a - b) + y
    BY <2>1 DEF Shifted
  <2>3. QED
    BY <2>1, <2>2
<1>2. Shifted(x) \in Places
  BY <1>1 DEF Shifted, Places
<1>3. QED
  BY <1>1, <1>2

\* Pointers that are where the index says are in the buffers.
LEMMA CopyInvInBounds ==
  ASSUME BoxInv, CopyInv
  PROVE  InBounds
<1>1. SUFFICES ASSUME pc = "copy", SrcLen > 0
               PROVE  dst \in DOMAIN data /\ src \in 0..(SrcLen - 1)
  BY DEF InBounds
<1>2. k \in 1..NumParts /\ pc # "box" /\ AtElement /\ DOMAIN data = 0..(Product(box.count) - 1)
  BY <1>1, MergeAssumption DEF BoxInv, BoxType, CopyInv
<1>3. src_index \in [Dims -> Nat] /\ src_index \in Places
      /\ \A d \in Dims : src_index[d] < parts[k].count[d] /\ 0 <= src_index[d]
  BY <1>2 DEF AtElement, Places
<1>4. Spread(parts[k].count, src_index) \in 0..(Product(parts[k].count) - 1)
  BY <1>2, <1>3, PartAtHand, SpreadBounded
<1>5. Spread(box.count, Shifted(src_index)) \in 0..(Product(box.count) - 1)
  BY <1>2, <1>3, PartAtHand, ShiftedInBox, SpreadBounded
<1>6. QED
  BY <1>2, <1>4, <1>5 DEF AtElement, SrcLen

\* The first element of a part.
LEMMA StartPartKeeps ==
  ASSUME BoxInv, CopyInv, StartPart
  PROVE  CopyInv'
<1>1. /\ pc = "part" /\ k \in 1..NumParts /\ pc' = "copy" /\ k' = k /\ parts' = parts /\ box' = box
      /\ data' = data /\ dst' = DstOffset /\ src' = 0 /\ i' = 0 /\ src_index' = [d \in Dims |-> 0]
  BY MergeAssumption DEF StartPart, BoxInv, BoxType
<1>2. SrcLen' = SrcLen
  BY <1>1 DEF SrcLen
<1>3. ASSUME SrcLen > 0 PROVE AtElement'
  <2>1. PICK x : x = [d \in Dims |-> 0]
    OBVIOUS
  <2>2. x \in [Dims -> Nat] /\ x \in Places /\ \A d \in Dims : x[d] = 0
    BY <2>1 DEF Places
  <2>3. \A d \in Dims : x[d] < parts[k].count[d]
    BY <1>1, <1>3, <2>2, PartAtHand
  <2>4. Spread(parts[k].count, x) = 0
    BY <1>1, <2>2, PartAtHand, SpreadZero
  <2>5. DstOffset = Spread(box.count, Shifted(x))
    BY <1>1, <2>1, DstOffsetIs
  <2>6. src_index' = x
    BY <1>1, <2>1
  <2>7. Shifted(src_index)' = Shifted(x)
    BY <1>1, <2>6 DEF Shifted
  <2>8. QED
    BY <1>1, <2>2, <2>3, <2>4, <2>5, <2>6, <2>7 DEF AtElement
<1>4. DOMAIN data = 0..(Product(box.count) - 1)
  BY <1>1 DEF CopyInv
<1>5. QED
  BY <1>1, <1>2, <1>3, <1>4 DEF CopyInv

(* The first step from one element to the next: the index is one on in the  *)
(* last dimension, the pointers are still where they were.                 *)
LEMMA CopyElementKeeps ==
  ASSUME BoxInv, CopyInv, CopyElement
  PROVE  CopyInv'
<1>1. /\ pc = "copy" /\ i < SrcLen - 1 /\ pc' = "carry" /\ k' = k /\ parts' = parts /\ box' = box
      /\ dst' = dst /\ src' = src /\ i' = i /\ dim' = NDims /\ sub' = 1
      /\ src_index' = [src_index EXCEPT ![NDims] = @ + 1]
      /\ data' = [data EXCEPT ![dst] = <<k, src>>]
  BY DEF CopyElement, Copy
<1>2. k \in 1..NumParts /\ pc # "box"
  BY <1>1, MergeAssumption DEF BoxInv, BoxType, CopyInv
<1>3. SrcLen' = SrcLen /\ SrcLen \in Nat
  BY <1>1, <1>2, PartAtHand DEF SrcLen
<1>4. SrcLen > 0 => AtElement
  BY <1>1 DEF CopyInv
<1>5. CASE SrcLen > 0
  <2>1. /\ src_index \in [Dims -> Nat] /\ \A d \in Dims : src_index[d] < parts[k].count[d]
        /\ src = i /\ i = Spread(parts[k].count, src_index)
        /\ dst = Spread(box.count, Shifted(src_index))
    BY <1>4, <1>5 DEF AtElement
  <2>2. i \in 0..(SrcLen - 1) /\ dst \in Int
    <3>1. src_index \in Places /\ \A d \in Dims : 0 <= src_index[d]
      BY <2>1 DEF Places
    <3>2. Spread(parts[k].count, src_index) \in 0..(Product(parts[k].count) - 1)
      BY <1>2, <2>1, <3>1, PartAtHand, SpreadBounded
    <3>3. Spread(box.count, Shifted(src_index)) \in 0..(Product(box.count) - 1)
      BY <1>2, <2>1, PartAtHand, ShiftedInBox, SpreadBounded
    <3>4. QED
      BY <2>1, <3>2, <3>3 DEF SrcLen
  <2>3. NDims \in Dims
    <3>1. CASE NDims = 0
      <4>1. \A d \in Dims : parts[k].count[d] = 1
        BY <3>1 DEF Dims
      <4>2. SrcLen = 1
        BY <1>2, <4>1, PartAtHand, ProductOfOnes DEF SrcLen, Counted
      <4>3. QED
        BY <1>1, <2>2, <4>2
    <3>2. QED
      BY <3>1, MergeAssumption DEF Dims
  <2>4. PICK y : y = [src_index EXCEPT ![NDims] = src_index[NDims] + 1]
    OBVIOUS
  <2>5. y \in [Dims -> Nat] /\ y \in Places /\ src_index \in Places
    BY <2>1, <2>3, <2>4 DEF Places
  <2>6. y[NDims] = src_index[NDims] + 1 /\ \A d \in Dims : d # NDims => y[d] = src_index[d]
    BY <2>1, <2>3, <2>4
  <2>7. Spread(parts[k].count, y) = i + 1
    <3>1. Spread(parts[k].count, y) = Spread(parts[k].count, src_index) + 1 * Weight(parts[k].count, NDims)
      BY <1>2, <2>3, <2>5, <2>6, PartAtHand, SpreadMoved
    <3>2. Weight(parts[k].count, NDims) = 1
      BY <1>2, PartAtHand, Weights
    <3>3. QED
      BY <2>1, <2>2, <3>1, <3>2
  <2>8. Spread(box.count, Shifted(y)) = dst + 1
    <3>1. Shifted(src_index) \in Places /\ Shifted(y) \in Places
      BY <1>2, <2>1, <2>5, ShiftedInBox
    <3>2. Shifted(y)[NDims] = Shifted(src_index)[NDims] + 1
      <4>1. PICK a \in Nat, b \in Nat, x \in Nat :
              a = parts[k].start[NDims] /\ b = box.start[NDims] /\ x = src_index[NDims]
        BY <1>2, <2>1, <2>3, PartAtHand
      <4>2. Shifted(y)[NDims] = (a - b) + (x + 1) /\ Shifted(src_index)[NDims] = (a - b) + x
        BY <2>3, <2>6, <4>1 DEF Shifted
      <4>3. QED
        BY <4>1, <4>2
    <3>3. \A d \in Dims : d # NDims => Shifted(y)[d] = Shifted(src_index)[d]
      BY <2>6 DEF Shifted
    <3>4. Spread(box.count, Shifted(y)) = Spread(box.count, Shifted(src_index)) + 1 * Weight(box.count, NDims)
      BY <1>2, <2>3, <3>1, <3>2, <3>3, PartAtHand, SpreadMoved
    <3>5. Weight(box.count, NDims) = 1
      BY <1>2, PartAtHand, Weights
    <3>6. QED
      BY <2>1, <2>2, <3>4, <3>5
  <2>9. src_index' = y
    BY <1>1, <2>4
  <2>10. Shifted(src_index)' = Shifted(y)
    BY <1>1, <2>9 DEF Shifted
  <2>11. \A d \in Dims : /\ d < NDims => y[d] < parts[k].count[d]
                         /\ d = NDims => y[d] <= parts[k].count[d]
                         /\ ~(d > NDims)
    <3>1. SUFFICES ASSUME NEW d \in Dims
                   PROVE  /\ d < NDims => y[d] < parts[k].count[d]
                          /\ d = NDims => y[d] <= parts[k].count[d]
                          /\ ~(d > NDims)
      OBVIOUS
    <3>2. d \in Int /\ NDims \in Int /\ d <= NDims
      BY MergeAssumption DEF Dims
    <3>3. src_index[d] \in Nat /\ parts[k].count[d] \in Nat /\ src_index[d] < parts[k].count[d]
      BY <1>2, <2>1, PartAtHand
    <3>4. QED
      BY <2>6, <3>2, <3>3
  <2>12. i + 1 < SrcLen /\ i \in Nat
    BY <1>1, <1>3, <2>2
  <2>13. Weight(box.count, NDims) = 1
    BY <1>2, PartAtHand, Weights
  <2>14. BetweenElements'
    BY <1>1, <1>3, <2>1, <2>2, <2>3, <2>5, <2>7, <2>8, <2>9, <2>10, <2>11, <2>12, <2>13
      DEF BetweenElements
  <2>15. DOMAIN data' = DOMAIN data
    BY <1>1
  <2>16. DOMAIN data = 0..(Product(box.count) - 1) /\ k <= NumParts
    BY <1>1 DEF CopyInv
  <2>17. QED
    BY <1>1, <2>14, <2>15, <2>16 DEF CopyInv
<1>6. CASE ~(SrcLen > 0)
  <2>1. SrcLen = 0
    BY <1>3, <1>6
  <2>2. i \in Nat
    BY DEF CopyInv
  <2>3. QED
    BY <1>1, <2>1, <2>2
<1>7. QED
  BY <1>5, <1>6

(* A dimension that is over counts one in the dimension before: it is the same *)
(* offset in the part, and dst is set back by the row that sub is multiplied   *)
(* for. There is a dimension before, because the part has one more element.  *)
LEMMA CarryKeeps ==
  ASSUME BoxInv, CopyInv, Carry
  PROVE  CopyInv'
<1>1. /\ pc = "carry" /\ src_index[dim] >= parts[k].count[dim]
      /\ dst' = dst - (parts[k].count[dim] - 1) * sub
      /\ sub' = sub * box.count[dim]
      /\ dim' = dim - 1
      /\ src_index' = [src_index EXCEPT ![dim] = 0, ![dim - 1] = @ + 1]
      /\ pc' = pc /\ parts' = parts /\ k' = k /\ box' = box /\ data' = data /\ src' = src /\ i' = i
  BY DEF Carry, CarriedSub
<1>2. k \in 1..NumParts /\ pc # "box"
  BY <1>1, MergeAssumption DEF BoxInv, BoxType, CopyInv
<1>3. SrcLen' = SrcLen /\ SrcLen \in Nat
  BY <1>1, <1>2, PartAtHand DEF SrcLen
<1>4. /\ src_index \in [Dims -> Nat] /\ dim \in Dims
      /\ src = i /\ i \in Nat /\ i + 1 < SrcLen
      /\ i + 1 = Spread(parts[k].count, src_index)
      /\ sub = Weight(box.count, dim)
      /\ dst \in Int /\ dst + sub = Spread(box.count, Shifted(src_index))
  BY <1>1 DEF CopyInv, BetweenElements
<1>5. \A d \in Dims : /\ d < dim => src_index[d] < parts[k].count[d]
                      /\ d = dim => src_index[d] <= parts[k].count[d]
                      /\ d > dim => src_index[d] = 0
  BY <1>1 DEF CopyInv, BetweenElements
<1>6. PICK m \in Nat, n \in Nat : m = parts[k].count[dim] /\ n = box.count[dim]
  BY <1>2, <1>4, PartAtHand
<1>7. src_index[dim] = m /\ m > 0
  <2>1. src_index[dim] \in Nat /\ src_index[dim] <= m
    BY <1>4, <1>5, <1>6
  <2>2. m > 0
    BY <1>2, <1>3, <1>4, <1>6, PartAtHand
  <2>3. QED
    BY <1>1, <1>6, <2>1, <2>2
<1>8. dim \in Int /\ dim >= 1 /\ dim <= NDims /\ \A d \in Dims : d \in Int /\ d >= 1 /\ d <= NDims
  BY <1>4, MergeAssumption DEF Dims
<1>9. src_index \in Places
  BY <1>4 DEF Places
<1>10. dim - 1 \in Dims
  <2>1. CASE dim = 1
    <3>1. \A e \in Dims : e # 1 => src_index[e] = 0
      BY <1>5, <1>8, <2>1
    <3>2. 1 \in Dims /\ src_index[1] = parts[k].count[1]
      BY <1>4, <1>6, <1>7, <2>1
    <3>3. Spread(parts[k].count, src_index) = Product(parts[k].count)
      BY <1>2, <1>9, <3>1, <3>2, PartAtHand, SpreadFull
    <3>4. QED
      BY <1>3, <1>4, <3>3 DEF SrcLen
  <2>2. QED
    BY <1>8, <2>1, MergeAssumption DEF Dims
<1>11. PICK z : z = [src_index EXCEPT ![dim] = 0, ![dim - 1] = src_index[dim - 1] + 1]
  OBVIOUS
<1>12. src_index' = z
  BY <1>1, <1>4, <1>8, <1>10, <1>11
<1>13. z \in [Dims -> Nat] /\ z \in Places
  BY <1>4, <1>10, <1>11 DEF Places
<1>14. /\ z[dim] = 0 /\ z[dim - 1] = src_index[dim - 1] + 1
       /\ \A d \in Dims : d # dim /\ d # dim - 1 => z[d] = src_index[d]
  BY <1>4, <1>8, <1>10, <1>11
<1>15. Spread(parts[k].count, z) = i + 1
  <2>1. z[dim] = src_index[dim] - m
    BY <1>6, <1>7, <1>14
  <2>2. Spread(parts[k].count, z)
          = Spread(parts[k].count, src_index) - m * Weight(parts[k].count, dim)
              + parts[k].count[dim] * Weight(parts[k].count, dim)
    <3>1. m \in Int /\ parts[k].count \in Counted
      BY <1>2, PartAtHand
    <3>2. QED
      BY <1>4, <1>9, <1>10, <1>13, <1>14, <2>1, <3>1, SpreadCarried
  <2>3. PICK v \in Nat : v = Weight(parts[k].count, dim)
    <3>1. dim \in 0..NDims
      BY <1>8, MergeAssumption
    <3>2. QED
      BY <1>2, <3>1, PartAtHand, Weights
  <2>4. m * v \in Int
    OBVIOUS
  <2>5. QED
    BY <1>4, <1>6, <2>2, <2>3, <2>4
<1>16. PICK v \in Nat : v = sub /\ v = Weight(box.count, dim) /\ Weight(box.count, dim - 1) = n * v
  <2>1. dim \in 0..NDims
    BY <1>8, MergeAssumption
  <2>2. QED
    BY <1>2, <1>4, <1>6, <2>1, PartAtHand, Weights
<1>17. Spread(box.count, Shifted(z)) = (dst + v) - m * v + n * v
  <2>1. Shifted(src_index) \in Places /\ Shifted(z) \in Places
    BY <1>2, <1>4, <1>13, ShiftedInBox
  <2>2. PICK a \in Nat, b \in Nat, x \in Nat :
          /\ a = parts[k].start[dim] /\ b = box.start[dim]
          /\ x = src_index[dim]
    BY <1>2, <1>4, PartAtHand
  <2>3. Shifted(z)[dim] = Shifted(src_index)[dim] - m
    <3>1. Shifted(z)[dim] = (a - b) + 0 /\ Shifted(src_index)[dim] = (a - b) + x /\ x = m
      BY <1>4, <1>7, <1>14, <2>2 DEF Shifted
    <3>2. QED
      BY <2>2, <3>1
  <2>4. Shifted(z)[dim - 1] = Shifted(src_index)[dim - 1] + 1
    <3>1. PICK e : e = dim - 1
      OBVIOUS
    <3>2. PICK p \in Nat, q \in Nat, y \in Nat :
            p = parts[k].start[e] /\ q = box.start[e] /\ y = src_index[e]
      BY <1>2, <1>4, <1>10, <3>1, PartAtHand
    <3>3. Shifted(z)[e] = (p - q) + (y + 1) /\ Shifted(src_index)[e] = (p - q) + y
      BY <1>10, <1>14, <3>1, <3>2 DEF Shifted
    <3>4. QED
      BY <3>1, <3>2, <3>3
  <2>5. \A d \in Dims : d # dim /\ d # dim - 1 => Shifted(z)[d] = Shifted(src_index)[d]
    BY <1>14 DEF Shifted
  <2>6. Spread(box.count, Shifted(z))
          = Spread(box.count, Shifted(src_index)) - m * Weight(box.count, dim)
              + box.count[dim] * Weight(box.count, dim)
    <3>1. m \in Int /\ box.count \in Counted
      BY <1>2, PartAtHand
    <3>2. QED
      BY <1>4, <1>10, <2>1, <2>3, <2>4, <2>5, <3>1, SpreadCarried
  <2>7. QED
    BY <1>4, <1>6, <1>16, <2>6
<1>18. sub' = Weight(box.count, dim - 1) /\ dst' \in Int /\ dst' + sub' = Spread(box.count, Shifted(z))
  <2>1. dst' = dst - (m - 1) * v /\ sub' = v * n
    BY <1>1, <1>6, <1>16
  <2>2. v * n = n * v /\ (m - 1) * v = m * v - v /\ m * v \in Int /\ n * v \in Int
    OBVIOUS
  <2>3. QED
    BY <1>4, <1>16, <1>17, <2>1, <2>2
<1>19. Shifted(src_index)' = Shifted(z)
  BY <1>1, <1>12 DEF Shifted
<1>20. \A d \in Dims : /\ d < dim - 1 => z[d] < parts[k].count[d]
                       /\ d = dim - 1 => z[d] <= parts[k].count[d]
                       /\ d > dim - 1 => z[d] = 0
  <2>1. SUFFICES ASSUME NEW d \in Dims
                 PROVE  /\ d < dim - 1 => z[d] < parts[k].count[d]
                        /\ d = dim - 1 => z[d] <= parts[k].count[d]
                        /\ d > dim - 1 => z[d] = 0
    OBVIOUS
  <2>2. d \in Int /\ src_index[d] \in Nat /\ parts[k].count[d] \in Nat
    BY <1>2, <1>4, <1>8, PartAtHand
  <2>3. CASE d < dim - 1
    BY <1>5, <1>8, <1>14, <2>2, <2>3
  <2>4. CASE d = dim - 1
    BY <1>5, <1>8, <1>14, <2>2, <2>4
  <2>5. CASE d = dim
    BY <1>8, <1>14, <2>5
  <2>6. CASE d > dim
    BY <1>5, <1>8, <1>14, <2>2, <2>6
  <2>7. QED
    BY <1>8, <2>2, <2>3, <2>4, <2>5, <2>6
<1>21. BetweenElements'
  BY <1>1, <1>3, <1>4, <1>10, <1>12, <1>13, <1>15, <1>18, <1>19, <1>20 DEF BetweenElements
<1>22. CopyInv'
  BY <1>1, <1>21 DEF CopyInv
<1>23. QED
  BY <1>22

\* The next element.
LEMMA AdvanceKeeps ==
  ASSUME BoxInv, CopyInv, Advance
  PROVE  CopyInv'
<1>1. /\ pc = "carry" /\ src_index[dim] < parts[k].count[dim]
      /\ dst' = dst + sub /\ src' = src + 1 /\ i' = i + 1 /\ pc' = "copy"
      /\ parts' = parts /\ k' = k /\ box' = box /\ data' = data /\ src_index' = src_index
  BY DEF Advance
<1>2. k \in 1..NumParts /\ pc # "box"
  BY <1>1, MergeAssumption DEF BoxInv, BoxType, CopyInv
<1>3. SrcLen' = SrcLen /\ SrcLen \in Nat
  BY <1>1, <1>2, PartAtHand DEF SrcLen
<1>4. BetweenElements
  BY <1>1 DEF CopyInv
<1>5. \A d \in Dims : src_index[d] < parts[k].count[d]
  <2>1. SUFFICES ASSUME NEW d \in Dims PROVE src_index[d] < parts[k].count[d]
    OBVIOUS
  <2>2. d \in Int /\ dim \in Int
    BY <1>4, MergeAssumption DEF Dims, BetweenElements
  <2>3. parts[k].count[d] > 0
    <3>1. SrcLen > 0
      BY <1>3, <1>4 DEF BetweenElements
    <3>2. QED
      BY <1>2, <3>1, PartAtHand
  <2>4. d > dim => src_index[d] = 0
    BY <1>4 DEF BetweenElements
  <2>5. d < dim => src_index[d] < parts[k].count[d]
    BY <1>4 DEF BetweenElements
  <2>6. QED
    BY <1>1, <2>2, <2>3, <2>4, <2>5
<1>6. Shifted(src_index)' = Shifted(src_index)
  BY <1>1 DEF Shifted
<1>7. AtElement' /\ (i \in Nat)'
  BY <1>1, <1>4, <1>5, <1>6 DEF AtElement, BetweenElements
<1>8. QED
  BY <1>1, <1>7 DEF CopyInv

\* The last element.
LEMMA EndPartKeeps ==
  ASSUME BoxInv, CopyInv, EndPart
  PROVE  CopyInv'
<1>1. /\ pc = "copy" /\ pc' = "part" /\ box' = box /\ i' = i
      /\ data' = data \/ data' = [data EXCEPT ![dst] = <<k, src>>]
  BY DEF EndPart, Copy
<1>2. DOMAIN data' = DOMAIN data
  BY <1>1
<1>3. QED
  BY <1>1, <1>2 DEF CopyInv

\* The inductive invariant of the copying.
LEMMA CopyAlways == Spec => []CopyInv
<1>1. Init => CopyInv
  BY DEF Init, CopyInv
<1>2. BoxInv /\ CopyInv /\ [Next]_vars => CopyInv'
  <2> SUFFICES ASSUME BoxInv, CopyInv, [Next]_vars PROVE CopyInv'
    OBVIOUS
  <2>1. CASE Extend
    BY <2>1 DEF Extend, CopyInv
  <2>2. CASE Allocate
    <3>1. /\ pc' = "part" /\ box' = box /\ i' = i
          /\ data' = [o \in 0..(Product(box.count) - 1) |-> Junk]
      BY <2>2 DEF Allocate
    <3>2. DOMAIN data' = 0..(Product(box.count) - 1)
      BY <3>1
    <3>3. QED
      BY <3>1, <3>2 DEF CopyInv
  <2>3. CASE StartPart
    BY <2>3, StartPartKeeps
  <2>4. CASE CopyElement
    BY <2>4, CopyElementKeeps
  <2>5. CASE Carry
    BY <2>5, CarryKeeps
  <2>6. CASE Advance
    BY <2>6, AdvanceKeeps
  <2>7. CASE EndPart
    BY <2>7, EndPartKeeps
  <2>8. CASE Written
    BY <2>8 DEF Written, CopyInv
  <2>9. CASE UNCHANGED vars
    BY <2>9 DEF vars, CopyInv, AtElement, BetweenElements, Shifted, SrcLen
  <2> QED
    BY <2>1, <2>2, <2>3, <2>4, <2>5, <2>6, <2>7, <2>8, <2>9 DEF Next, Terminating
<1>3. Spec => []BoxInv
  BY BoxAlways, PTL
<1> QED
  BY <1>1, <1>2, <1>3, PTL DEF Spec

(* The copies of _put_var stay in the buffers, for any parts: the pointer    *)
(* that _inc_src_index moves back by rows and on by strides of the box never *)
(* leaves the merged data, and the one into the part never passes its end.    *)
THEOREM InBoundsCorrect == Spec => []InBounds
<1>1. BoxInv /\ CopyInv => InBounds
  BY CopyInvInBounds
<1> QED
  BY <1>1, BoxAlways, CopyAlways, PTL

(* The offset of a place, one dimension after the other. *)
Horner(g, c, z) == g[0] = 0 /\ \A d \in Dims : g[d] = g[d - 1] * c[d] + z[d]

\* It can be computed like this.
LEMMA HornerThere ==
  ASSUME NEW c \in Counted, NEW z \in Places
  PROVE  \E g \in [0..NDims -> Int] : Horner(g, c, z)
<1>1. NDims \in Nat
  BY MergeAssumption
<1> DEFINE Good(n, g) == g[0] = 0 /\ \A d \in 1..n : g[d] = g[d - 1] * c[d] + z[d]
<1>2. PICK T : T = {n \in 0..NDims : \E g \in [0..n -> Int] : Good(n, g)}
  OBVIOUS
<1>3. 0 \in T
  <2>1. [n \in 0..0 |-> 0] \in [0..0 -> Int] /\ Good(0, [n \in 0..0 |-> 0])
    OBVIOUS
  <2> HIDE DEF Good
  <2>2. QED
    BY <1>1, <1>2, <2>1
<1>4. ASSUME NEW n \in 0..(NDims - 1), n \in T PROVE n + 1 \in T
  <2>1. PICK g \in [0..n -> Int] : Good(n, g)
    BY <1>2, <1>4
  <2>2. n + 1 \in Dims /\ n + 1 \in 0..NDims /\ n \in Nat
    BY <1>1 DEF Dims
  <2>3. PICK v \in Int : v = g[n] * c[n + 1] + z[n + 1]
    <3>1. PICK a \in Int, b \in Int, e \in Int : a = g[n] /\ b = c[n + 1] /\ e = z[n + 1]
      <4>1. g[n] \in Int
        BY <2>2
      <4>2. c[n + 1] \in Nat
        BY <2>2 DEF Counted
      <4>3. z[n + 1] \in Int
        BY <2>2 DEF Places
      <4>4. QED
        BY <4>1, <4>2, <4>3
    <3>2. a * b + e \in Int
      OBVIOUS
    <3>3. QED
      BY <3>1, <3>2
  <2>4. PICK h : h = [j \in 0..(n + 1) |-> IF j = n + 1 THEN v ELSE g[j]]
    OBVIOUS
  <2>5. h \in [0..(n + 1) -> Int]
    BY <2>2, <2>4
  <2>6. h[0] = 0
    BY <2>1, <2>2, <2>4
  <2>7. ASSUME NEW d \in 1..(n + 1) PROVE h[d] = h[d - 1] * c[d] + z[d]
    <3>1. CASE d = n + 1
      <4>1. h[d] = v /\ h[d - 1] = g[n]
        BY <2>2, <2>4, <3>1
      <4>2. QED
        BY <2>3, <3>1, <4>1
    <3>2. CASE d # n + 1
      <4>1. d \in 1..n /\ h[d] = g[d] /\ h[d - 1] = g[d - 1]
        BY <2>2, <2>4, <3>2
      <4>2. QED
        BY <2>1, <4>1
    <3>3. QED
      BY <3>1, <3>2
  <2>8. Good(n + 1, h)
    BY <2>6, <2>7
  <2> HIDE DEF Good
  <2>9. QED
    BY <1>2, <2>2, <2>5, <2>8
<1>5. NDims \in T
  <2>1. \A n \in 0..NDims : n \in T
    BY <1>1, <1>3, <1>4, UpTo
  <2>2. QED
    BY <1>1, <2>1
<1>6. QED
  BY <1>2, <1>5 DEF Horner, Dims

\* It is the same offset.
LEMMA HornerSpread ==
  ASSUME NEW c \in Counted, NEW z \in Places, NEW g \in [0..NDims -> Int], Horner(g, c, z)
  PROVE  Spread(c, z) = g[NDims]
<1>1. NDims \in Nat
  BY MergeAssumption
<1>2. PICK su \in [0..NDims -> Int] :
           /\ su[0] = 0 /\ \A e \in Dims : su[e] = su[e - 1] + z[e] * Weight(c, e)
           /\ Spread(c, z) = su[NDims]
  BY SpreadPrefix
<1>3. PICK T : T = {n \in 0..NDims : su[n] = g[n] * Weight(c, n)}
  OBVIOUS
<1>4. 0 \in T
  <2>1. PICK w \in Nat : w = Weight(c, 0)
    <3>1. 0 \in 0..NDims
      BY <1>1
    <3>2. QED
      BY <3>1, Weights
  <2>2. su[0] = 0 /\ g[0] = 0 /\ 0 * w = 0
    BY <1>2 DEF Horner
  <2>3. QED
    BY <1>1, <1>3, <2>1, <2>2
<1>5. ASSUME NEW n \in 0..(NDims - 1), n \in T PROVE n + 1 \in T
  <2>1. n + 1 \in Dims /\ n + 1 \in 0..NDims /\ (n + 1) - 1 = n /\ n \in 0..NDims
    BY <1>1 DEF Dims
  <2>2. PICK v \in Nat, m \in Nat, p \in Int, a \in Int :
          v = Weight(c, n + 1) /\ m = c[n + 1] /\ p = z[n + 1] /\ a = g[n]
    <3>1. Weight(c, n + 1) \in Nat
      BY <2>1, Weights
    <3>2. c[n + 1] \in Nat
      BY <2>1 DEF Counted
    <3>3. z[n + 1] \in Int
      BY <2>1 DEF Places
    <3>4. g[n] \in Int
      BY <2>1
    <3>5. QED
      BY <3>1, <3>2, <3>3, <3>4
  <2>3. Weight(c, n) = m * v
    BY <2>1, <2>2, Weights
  <2>4. su[n] = a * (m * v)
    BY <1>3, <1>5, <2>2, <2>3
  <2>5. su[n + 1] = su[n] + p * v
    BY <1>2, <2>1, <2>2
  <2>6. g[n + 1] = a * m + p
    BY <2>1, <2>2 DEF Horner
  <2>7. a * (m * v) + p * v = (a * m + p) * v
    <3>1. (a * m) * v = a * (m * v) /\ a * m \in Int
      BY Laws
    <3>2. (a * m + p) * v = (a * m) * v + p * v
      BY <3>1, Laws
    <3>3. QED
      BY <3>1, <3>2
  <2>8. su[n + 1] = g[n + 1] * Weight(c, n + 1)
    BY <2>2, <2>4, <2>5, <2>6, <2>7
  <2>9. QED
    BY <1>3, <2>1, <2>8
<1>6. NDims \in T
  <2>1. \A n \in 0..NDims : n \in T
    BY <1>1, <1>4, <1>5, UpTo
  <2>2. QED
    BY <1>1, <2>1
<1>7. PICK a \in Int : a = g[NDims]
  BY <1>1
<1>8. su[NDims] = a * 1
  BY <1>3, <1>6, <1>7, Weights
<1>9. QED
  BY <1>2, <1>7, <1>8

\* x is q times m, and a rest.
Divided(x, m, q, r) == q \in Int /\ m \in Nat /\ r \in Nat /\ r < m /\ x = q * m + r

\* Quotient and remainder are unique.
LEMMA RestUnique ==
  ASSUME NEW x, NEW m, NEW q, NEW p, NEW r, NEW s, Divided(x, m, q, r), Divided(x, m, p, s)
  PROVE  q = p /\ r = s
<1>0. q \in Int /\ p \in Int /\ m \in Nat /\ r \in Nat /\ s \in Nat /\ r < m /\ s < m /\ q * m + r = p * m + s
  BY DEF Divided
<1>1. (q - p) * m = s - r
  BY <1>0
<1>2. CASE q - p >= 1
  <2>1. PICK e \in Nat : q - p = 1 + e
    <3>1. (q - p) - 1 \in Nat /\ q - p = 1 + ((q - p) - 1)
      BY <1>0, <1>2
    <3>2. QED
      BY <3>1
  <2>2. (1 + e) * m = m + e * m /\ e * m \in Nat
    BY <1>0
  <2>3. QED
    BY <1>0, <1>1, <2>1, <2>2
<1>3. CASE p - q >= 1
  <2>1. PICK e \in Nat : p - q = 1 + e
    <3>1. (p - q) - 1 \in Nat /\ p - q = 1 + ((p - q) - 1)
      BY <1>0, <1>3
    <3>2. QED
      BY <3>1
  <2>2. (1 + e) * m = m + e * m /\ e * m \in Nat
    BY <1>0
  <2>3. (p - q) * m = r - s
    BY <1>0
  <2>4. QED
    BY <1>0, <2>1, <2>2, <2>3
<1>4. CASE q = p
  BY <1>0, <1>4
<1>5. QED
  BY <1>0, <1>2, <1>3, <1>4

\* Two places of an array have two offsets.
LEMMA SpreadInjective ==
  ASSUME NEW c \in Counted, NEW z \in Places, NEW y \in Places,
         \A d \in Dims : 0 <= z[d] /\ z[d] < c[d], \A d \in Dims : 0 <= y[d] /\ y[d] < c[d],
         Spread(c, z) = Spread(c, y)
  PROVE  z = y
<1>1. NDims \in Nat
  BY MergeAssumption
<1>2. PICK g \in [0..NDims -> Int] : Horner(g, c, z)
  BY HornerThere
<1>3. PICK h \in [0..NDims -> Int] : Horner(h, c, y)
  BY HornerThere
<1>4. g[NDims] = h[NDims]
  BY <1>2, <1>3, HornerSpread
<1>5. PICK T : T = {n \in 0..NDims : g[n] = h[n] => \A d \in 1..n : z[d] = y[d]}
  OBVIOUS
<1>6. 0 \in T
  BY <1>1, <1>5
<1>7. ASSUME NEW n \in 0..(NDims - 1), n \in T PROVE n + 1 \in T
  <2>1. n + 1 \in Dims /\ n + 1 \in 0..NDims /\ (n + 1) - 1 = n /\ n \in 0..NDims /\ n \in Nat
    BY <1>1 DEF Dims
  <2>2. SUFFICES ASSUME g[n + 1] = h[n + 1] PROVE \A d \in 1..(n + 1) : z[d] = y[d]
    BY <1>5, <2>1
  <2>3. PICK q \in Int, p \in Int : q = g[n] /\ p = h[n]
    BY <2>1
  <2>4. PICK m \in Nat, r \in Nat, s \in Nat : m = c[n + 1] /\ r = z[n + 1] /\ s = y[n + 1] /\ r < m /\ s < m
    <3>1. c[n + 1] \in Nat
      BY <2>1 DEF Counted
    <3>2. z[n + 1] \in Nat /\ y[n + 1] \in Nat
      BY <2>1 DEF Places
    <3>3. QED
      BY <2>1, <3>1, <3>2
  <2>5. g[n + 1] = q * m + r /\ g[n + 1] = p * m + s
    BY <1>2, <1>3, <2>1, <2>2, <2>3, <2>4 DEF Horner
  <2>6. q = p /\ r = s
    <3>1. Divided(g[n + 1], m, q, r) /\ Divided(g[n + 1], m, p, s)
      BY <2>4, <2>5 DEF Divided
    <3>2. QED
      BY <3>1, RestUnique
  <2>7. \A d \in 1..n : z[d] = y[d]
    BY <1>5, <1>7, <2>3, <2>6
  <2>8. z[n + 1] = y[n + 1]
    BY <2>4, <2>6
  <2>9. \A d \in 1..(n + 1) : d \in 1..n \/ d = n + 1
    BY <2>1
  <2>10. QED
    BY <2>7, <2>8, <2>9
<1>8. \A d \in Dims : z[d] = y[d]
  <2>1. \A n \in 0..NDims : n \in T
    BY <1>1, <1>6, <1>7, UpTo
  <2>2. QED
    BY <1>1, <1>4, <1>5, <2>1 DEF Dims
<1>9. QED
  BY <1>8 DEF Places

\* Offset adds the dimensions from the last to the first.
LEMMA OffsetFolds ==
  ASSUME NEW a, a.count \in Counted, a.start \in Places, NEW x \in Places
  PROVE  \E it : /\ Offset(a, x) = it[Dims]
                 /\ \A s \in SUBSET Dims :
                      it[s] = IF s = {} THEN 0
                              ELSE it[s \ {Min(s)}] * a.count[Min(s)] + (x[Min(s)] - a.start[Min(s)])
<1>1. PICK seq : /\ seq = [d \in Dims |-> d]
                 /\ Offset(a, x) = (CHOOSE iter : iter = [s \in SUBSET DOMAIN seq |->
                       IF s = {} THEN 0
                       ELSE iter[s \ {Min(s)}] * a.count[seq[Min(s)]]
                              + (x[seq[Min(s)]] - a.start[seq[Min(s)]])])[DOMAIN seq]
  <2>1. Offset(a, x) = (CHOOSE iter : iter = [s \in SUBSET DOMAIN [d \in Dims |-> d] |->
                       IF s = {} THEN 0
                       ELSE iter[s \ {Min(s)}] * a.count[[d \in Dims |-> d][Min(s)]]
                              + (x[[d \in Dims |-> d][Min(s)]] - a.start[[d \in Dims |-> d][Min(s)]])])
                         [DOMAIN [d \in Dims |-> d]]
    BY Zenon DEF Offset, FoldRight, MapThenFoldSet
  <2> WITNESS [d \in Dims |-> d]
  <2>2. QED
    BY <2>1, Zenon
<1>2. DOMAIN seq = Dims /\ \A d \in Dims : seq[d] = d
  BY <1>1
<1>3. PICK ch, g : /\ ch = [s \in SUBSET Dims |-> Min(s)]
                   /\ g = [p \in Dims \X Int |-> p[2] * a.count[p[1]] + (x[p[1]] - a.start[p[1]])]
  OBVIOUS
<1>4. IsFiniteSet(Dims)
  BY MergeAssumption, FS_Interval DEF Dims
<1>5. \A s \in SUBSET Dims : s # {} => ch[s] \in s /\ ch[s] = Min(s)
                                   /\ Min(s) \in Dims /\ s \ {Min(s)} \in SUBSET Dims
  BY <1>3, MaxIs
<1>6. ASSUME NEW d \in Dims, NEW v \in Int
      PROVE  v * a.count[d] + (x[d] - a.start[d]) \in Int
  <2>1. PICK m \in Nat, y \in Int, b \in Int : m = a.count[d] /\ y = x[d] /\ b = a.start[d]
    BY DEF Counted, Places
  <2>2. v * m + (y - b) \in Int
    OBVIOUS
  <2>3. QED
    BY <2>1, <2>2
<1>7. g \in [Dims \X Int -> Int]
  BY <1>3, <1>6
<1>8. \A d \in Dims, v \in Int : g[<<d, v>>] = v * a.count[d] + (x[d] - a.start[d])
  BY <1>3
<1>9. PICK it \in [SUBSET Dims -> Int] : Folds(Dims, 0, g, ch, it)
  <2>1. PICK V, base : V = Int /\ base = 0 /\ base \in V
    OBVIOUS
  <2>2. g \in [Dims \X V -> V]
    BY <1>7, <2>1
  <2>3. \E it \in [SUBSET Dims -> V] : Folds(Dims, base, g, ch, it)
    BY <1>4, <1>5, <2>1, <2>2, FoldThere
  <2>4. QED
    BY <2>1, <2>3
<1>10. ASSUME NEW s \in SUBSET Dims, s # {}
       PROVE  it[s] = it[s \ {Min(s)}] * a.count[seq[Min(s)]] + (x[seq[Min(s)]] - a.start[seq[Min(s)]])
  <2>1. PICK e \in Dims : e = Min(s) /\ e = ch[s]
    BY <1>5, <1>10
  <2>2. it[s] = g[<<e, it[s \ {e}]>>] /\ it[s \ {e}] \in Int
    BY <1>9, <1>10, <2>1 DEF Folds
  <2>3. it[s] = it[s \ {e}] * a.count[e] + (x[e] - a.start[e])
    BY <1>8, <2>2
  <2>4. seq[e] = e
    BY <1>2
  <2>5. QED
    BY <2>1, <2>3, <2>4, Zenon
<1>11. it[{}] = 0
  BY <1>9 DEF Folds
<1>12. it = [s \in SUBSET DOMAIN seq |->
              IF s = {} THEN 0
              ELSE it[s \ {Min(s)}] * a.count[seq[Min(s)]] + (x[seq[Min(s)]] - a.start[seq[Min(s)]])]
  <2>1. it = [s \in SUBSET Dims |-> it[s]]
    OBVIOUS
  <2>2. ASSUME NEW s \in SUBSET Dims
        PROVE  it[s] = IF s = {} THEN 0
                       ELSE it[s \ {Min(s)}] * a.count[seq[Min(s)]] + (x[seq[Min(s)]] - a.start[seq[Min(s)]])
    BY <1>10, <1>11, Zenon
  <2>3. QED
    BY <1>2, <2>1, <2>2, Zenon
<1>13. PICK jt : /\ jt = CHOOSE iter : iter = [s \in SUBSET DOMAIN seq |->
                       IF s = {} THEN 0
                       ELSE iter[s \ {Min(s)}] * a.count[seq[Min(s)]] + (x[seq[Min(s)]] - a.start[seq[Min(s)]])]
                 /\ Offset(a, x) = jt[DOMAIN seq]
  BY <1>1, Zenon
<1>14. jt = [s \in SUBSET DOMAIN seq |->
              IF s = {} THEN 0
              ELSE jt[s \ {Min(s)}] * a.count[seq[Min(s)]] + (x[seq[Min(s)]] - a.start[seq[Min(s)]])]
  BY <1>12, <1>13, Zenon
<1>15. ASSUME NEW s \in SUBSET Dims
       PROVE  jt[s] = IF s = {} THEN 0
                      ELSE jt[s \ {Min(s)}] * a.count[Min(s)] + (x[Min(s)] - a.start[Min(s)])
  <2>1. jt[s] = IF s = {} THEN 0
                ELSE jt[s \ {Min(s)}] * a.count[seq[Min(s)]] + (x[seq[Min(s)]] - a.start[seq[Min(s)]])
    BY <1>2, <1>14, Zenon
  <2>2. s # {} => seq[Min(s)] = Min(s)
    BY <1>2, <1>5
  <2>3. CASE s = {}
    BY <2>1, <2>3, Zenon
  <2>4. CASE s # {}
    <3>1. jt[s] = jt[s \ {Min(s)}] * a.count[seq[Min(s)]] + (x[seq[Min(s)]] - a.start[seq[Min(s)]])
      BY <2>1, <2>4, Zenon
    <3>2. PICK e : e = Min(s) /\ seq[e] = e
      BY <2>2, <2>4
    <3>3. QED
      BY <2>4, <3>1, <3>2, Zenon
  <2>5. QED
    BY <2>3, <2>4
<1>16. Offset(a, x) = jt[Dims]
  BY <1>2, <1>13, Zenon
<1>17. QED
  BY <1>15, <1>16, Zenon

\* The last dimensions, and the first of them.
LEMMA LowerDims ==
  ASSUME NEW d \in Dims
  PROVE  Min(d..NDims) = d /\ (d..NDims) \ {d} = (d + 1)..NDims /\ d..NDims \in SUBSET Dims /\ d..NDims # {}
<1>1. NDims \in Nat /\ d \in 1..NDims
  BY MergeAssumption DEF Dims
<1>2. d..NDims \in SUBSET Dims /\ d..NDims # {} /\ d \in d..NDims
  BY <1>1 DEF Dims
<1>3. Min(d..NDims) \in d..NDims /\ Min(d..NDims) <= d
  BY <1>2, MaxIs
<1>4. Min(d..NDims) = d
  BY <1>1, <1>3
<1>5. QED
  BY <1>1, <1>2, <1>4

(* An array of Fortran and one of the server that is turned around: the same *)
(* elements have the same offsets.                                         *)
LEMMA OffsetTurned ==
  ASSUME NEW a, a.count \in Counted, a.start \in Places, NEW x \in Places,
         NEW c \in Counted, NEW z \in Places,
         \A d \in Dims : c[d] = a.count[NDims + 1 - d] /\ z[d] = x[NDims + 1 - d] - a.start[NDims + 1 - d]
  PROVE  Offset(a, x) = Spread(c, z)
<1>1. NDims \in Nat
  BY MergeAssumption
<1>2. PICK it : /\ Offset(a, x) = it[Dims]
                /\ \A s \in SUBSET Dims :
                     it[s] = IF s = {} THEN 0
                             ELSE it[s \ {Min(s)}] * a.count[Min(s)] + (x[Min(s)] - a.start[Min(s)])
  BY OffsetFolds
<1>3. PICK g \in [0..NDims -> Int] : Horner(g, c, z)
  BY HornerThere
<1>4. PICK T : T = {n \in 0..NDims : it[(NDims + 1 - n)..NDims] = g[n]}
  OBVIOUS
<1>5. 0 \in T
  <2>1. (NDims + 1 - 0)..NDims = {} /\ {} \in SUBSET Dims
    BY <1>1
  <2>2. it[{}] = 0 /\ g[0] = 0
    BY <1>2, <1>3 DEF Horner
  <2>3. QED
    BY <1>1, <1>4, <2>1, <2>2
<1>6. ASSUME NEW n \in 0..(NDims - 1), n \in T PROVE n + 1 \in T
  <2>1. PICK e : e = NDims - n /\ e \in Dims
    BY <1>1 DEF Dims
  <2>2. n + 1 \in Dims /\ n + 1 \in 0..NDims /\ (n + 1) - 1 = n /\ NDims + 1 - (n + 1) = e
        /\ NDims + 1 - n = e + 1
    BY <1>1, <2>1 DEF Dims
  <2>3. it[e..NDims] = it[(e + 1)..NDims] * a.count[e] + (x[e] - a.start[e])
    <3>1. PICK s : s = e..NDims
      OBVIOUS
    <3>2. s \in SUBSET Dims /\ s # {} /\ Min(s) = e /\ s \ {e} = (e + 1)..NDims
      BY <2>1, <3>1, LowerDims
    <3>3. it[s] = it[s \ {Min(s)}] * a.count[Min(s)] + (x[Min(s)] - a.start[Min(s)])
      BY <1>2, <3>2
    <3>4. QED
      BY <3>1, <3>2, <3>3, Zenon
  <2>4. g[n + 1] = g[n] * c[n + 1] + z[n + 1]
    BY <1>3, <2>2 DEF Horner
  <2>5. c[n + 1] = a.count[e] /\ z[n + 1] = x[e] - a.start[e]
    BY <2>2
  <2>6. it[(e + 1)..NDims] = g[n]
    BY <1>4, <1>6, <2>2
  <2>7. it[e..NDims] = g[n + 1]
    BY <2>3, <2>4, <2>5, <2>6, Zenon
  <2>8. QED
    BY <1>4, <2>2, <2>7
<1>7. NDims \in T
  <2>1. \A n \in 0..NDims : n \in T
    BY <1>1, <1>5, <1>6, UpTo
  <2>2. QED
    BY <1>1, <2>1
<1>8. it[Dims] = g[NDims]
  <2>1. NDims + 1 - NDims = 1
    BY <1>1
  <2>2. QED
    BY <1>4, <1>7, <2>1 DEF Dims
<1>9. QED
  BY <1>2, <1>3, <1>8, HornerSpread

(* Places in the file, and where they are in an array that starts at s; a     *)
(* part p has the place x, at an offset of its own.                         *)
FilePlaces == [Dims -> Nat]

From(s, x) == [d \in Dims |-> x[d] - s[d]]

Has(p, x) == \A d \in Dims : /\ parts[p].start[d] <= x[d]
                             /\ x[d] < parts[p].start[d] + parts[p].count[d]

PlaceIn(p, x) == Spread(parts[p].count, From(parts[p].start, x))

PlaceInBox(x) == Spread(box.count, From(box.start, x))

(* The element of part p at x was copied. *)
Copied(p, x) ==
  /\ Has(p, x)
  /\ \/ p < k
     \/ p = k /\ pc = "copy" /\ PlaceIn(p, x) < i
     \/ p = k /\ pc = "carry" /\ PlaceIn(p, x) < i + 1

(* The merged data has the elements of the last part that was copied. *)
LastCopied(p, x) == Copied(p, x) /\ \A q \in 1..NumParts : Copied(q, x) => q <= p

DataInv ==
  pc # "box" => \A x \in FilePlaces, p \in 1..NumParts :
    LastCopied(p, x) => data[PlaceInBox(x)] = <<p, PlaceIn(p, x)>>

\* A place of a part has an offset in it, and one in the box.
LEMMA PlaceThere ==
  ASSUME BoxInv, pc # "box", NEW p \in 1..NumParts, NEW x \in FilePlaces, Has(p, x)
  PROVE  /\ PlaceIn(p, x) \in 0..(Product(parts[p].count) - 1)
         /\ PlaceInBox(x) \in 0..(Product(box.count) - 1)
         /\ From(parts[p].start, x) \in Places /\ From(box.start, x) \in Places
         /\ \A d \in Dims : /\ 0 <= From(parts[p].start, x)[d] /\ From(parts[p].start, x)[d] < parts[p].count[d]
                            /\ 0 <= From(box.start, x)[d] /\ From(box.start, x)[d] < box.count[d]
<1>1. parts[p] \in Part /\ box \in Part /\ Inside(parts[p])
  BY DEF BoxInv, BoxType, BoxTight
<1>2. parts[p].count \in Counted /\ box.count \in Counted
  BY <1>1 DEF Part, Counted
<1>3. ASSUME NEW d \in Dims
      PROVE  /\ From(parts[p].start, x)[d] \in Int /\ From(box.start, x)[d] \in Int
             /\ 0 <= From(parts[p].start, x)[d] /\ From(parts[p].start, x)[d] < parts[p].count[d]
             /\ 0 <= From(box.start, x)[d] /\ From(box.start, x)[d] < box.count[d]
  <2>1. PICK a \in Nat, m \in Nat, b \in Nat, n \in Nat, y \in Nat :
          /\ a = parts[p].start[d] /\ m = parts[p].count[d] /\ b = box.start[d] /\ n = box.count[d]
          /\ y = x[d]
    BY <1>1 DEF Part, FilePlaces
  <2>2. b <= a /\ a + m <= b + n /\ a <= y /\ y < a + m
    BY <1>1, <2>1 DEF Inside, Has
  <2>3. From(parts[p].start, x)[d] = y - a /\ From(box.start, x)[d] = y - b
    BY <2>1 DEF From
  <2>4. QED
    BY <2>1, <2>2, <2>3
<1>4. From(parts[p].start, x) \in Places /\ From(box.start, x) \in Places
  BY <1>3 DEF From, Places
<1>5. PlaceIn(p, x) \in 0..(Product(parts[p].count) - 1)
  BY <1>2, <1>3, <1>4, SpreadBounded DEF PlaceIn
<1>6. PlaceInBox(x) \in 0..(Product(box.count) - 1)
  BY <1>2, <1>3, <1>4, SpreadBounded DEF PlaceInBox
<1>7. QED
  BY <1>3, <1>4, <1>5, <1>6

\* Two places that parts have are at two offsets of the box, and of a part.
LEMMA PlacesApart ==
  ASSUME BoxInv, pc # "box", NEW p \in 1..NumParts, NEW q \in 1..NumParts,
         NEW x \in FilePlaces, NEW y \in FilePlaces, Has(p, x), Has(q, y)
  PROVE  /\ PlaceInBox(x) = PlaceInBox(y) => x = y
         /\ p = q /\ PlaceIn(p, x) = PlaceIn(p, y) => x = y
<1>1. ASSUME NEW s \in FilePlaces, From(s, x) = From(s, y) PROVE x = y
  <2>1. ASSUME NEW d \in Dims PROVE x[d] = y[d]
    <3>1. x[d] \in Nat /\ y[d] \in Nat /\ s[d] \in Nat
      BY DEF FilePlaces
    <3>2. x[d] - s[d] = y[d] - s[d]
      BY <1>1 DEF From
    <3>3. QED
      BY <3>1, <3>2
  <2>2. QED
    BY <2>1 DEF FilePlaces
<1>2. parts[p] \in Part /\ box \in Part
  BY DEF BoxInv, BoxType
<1>3. /\ parts[p].start \in FilePlaces /\ box.start \in FilePlaces
      /\ parts[p].count \in Counted /\ box.count \in Counted
  BY <1>2 DEF Part, FilePlaces, Counted
<1>4. ASSUME PlaceInBox(x) = PlaceInBox(y) PROVE x = y
  <2>1. From(box.start, x) = From(box.start, y)
    <3>1. PICK z, w : z = From(box.start, x) /\ w = From(box.start, y)
      OBVIOUS
    <3>2. z \in Places /\ w \in Places /\ Spread(box.count, z) = Spread(box.count, w)
      BY <1>4, <3>1, PlaceThere DEF PlaceInBox
    <3>3. /\ \A d \in Dims : 0 <= z[d] /\ z[d] < box.count[d]
          /\ \A d \in Dims : 0 <= w[d] /\ w[d] < box.count[d]
      BY <3>1, PlaceThere
    <3>4. z = w
      BY <1>3, <3>2, <3>3, SpreadInjective
    <3>5. QED
      BY <3>1, <3>4
  <2>2. QED
    BY <1>1, <1>3, <2>1
<1>5. ASSUME p = q, PlaceIn(p, x) = PlaceIn(p, y) PROVE x = y
  <2>1. From(parts[p].start, x) = From(parts[p].start, y)
    <3>1. PICK z, w : z = From(parts[p].start, x) /\ w = From(parts[p].start, y)
      OBVIOUS
    <3>2. z \in Places /\ w \in Places /\ Spread(parts[p].count, z) = Spread(parts[p].count, w)
      BY <1>5, <3>1, PlaceThere DEF PlaceIn
    <3>3. /\ \A d \in Dims : 0 <= z[d] /\ z[d] < parts[p].count[d]
          /\ \A d \in Dims : 0 <= w[d] /\ w[d] < parts[p].count[d]
      BY <1>5, <3>1, PlaceThere
    <3>4. z = w
      BY <1>3, <3>2, <3>3, SpreadInjective
    <3>5. QED
      BY <3>1, <3>4
  <2>2. QED
    BY <1>1, <1>3, <2>1
<1>6. QED
  BY <1>4, <1>5

\* The element at hand has a place in the file, from which both pointers follow.
LEMMA ElementAtHand ==
  ASSUME BoxInv, CopyInv, pc = "copy", SrcLen > 0
  PROVE  \E x \in FilePlaces : /\ Has(k, x) /\ PlaceIn(k, x) = i /\ src = i /\ PlaceInBox(x) = dst
                               /\ k \in 1..NumParts /\ dst \in DOMAIN data
                               /\ i \in 0..(SrcLen - 1)
<1>1. k \in 1..NumParts /\ AtElement
  BY MergeAssumption DEF BoxInv, BoxType, CopyInv
<1>2. /\ src_index \in [Dims -> Nat] /\ \A d \in Dims : src_index[d] < parts[k].count[d]
      /\ src = i /\ i = Spread(parts[k].count, src_index)
      /\ dst = Spread(box.count, Shifted(src_index))
  BY <1>1 DEF AtElement
<1>3. PICK x : x = [d \in Dims |-> parts[k].start[d] + src_index[d]]
  OBVIOUS
<1>4. ASSUME NEW d \in Dims
      PROVE  /\ x[d] \in Nat
             /\ parts[k].start[d] <= x[d] /\ x[d] < parts[k].start[d] + parts[k].count[d]
             /\ x[d] - parts[k].start[d] = src_index[d]
             /\ x[d] - box.start[d] = (parts[k].start[d] - box.start[d]) + src_index[d]
  <2>1. PICK a \in Nat, m \in Nat, b \in Nat, y \in Nat :
          /\ a = parts[k].start[d] /\ m = parts[k].count[d] /\ b = box.start[d] /\ y = src_index[d]
          /\ y < m
    BY <1>1, <1>2, PartAtHand
  <2>2. x[d] = a + y
    BY <1>3, <2>1
  <2>3. QED
    BY <2>1, <2>2
<1>5. x \in FilePlaces /\ Has(k, x)
  BY <1>3, <1>4 DEF FilePlaces, Has
<1>6. From(parts[k].start, x) = src_index
  BY <1>2, <1>4 DEF From
<1>7. From(box.start, x) = Shifted(src_index)
  BY <1>4 DEF From, Shifted
<1>8. PlaceIn(k, x) = i /\ PlaceInBox(x) = dst
  BY <1>2, <1>6, <1>7 DEF PlaceIn, PlaceInBox
<1>9. PlaceIn(k, x) \in 0..(SrcLen - 1) /\ PlaceInBox(x) \in 0..(Product(box.count) - 1)
  BY <1>1, <1>5, PlaceThere DEF SrcLen
<1>10. DOMAIN data = 0..(Product(box.count) - 1)
  BY DEF CopyInv
<1>11. QED
  BY <1>1, <1>2, <1>5, <1>8, <1>9, <1>10

\* Parts and box stay: so do the places.
LEMMA PlacesStay ==
  ASSUME parts' = parts, box' = box, NEW p, NEW x
  PROVE  Has(p, x)' = Has(p, x) /\ PlaceIn(p, x)' = PlaceIn(p, x) /\ PlaceInBox(x)' = PlaceInBox(x)
BY DEF Has, PlaceIn, PlaceInBox, From

\* Nothing is copied.
LEMMA MergedStays ==
  ASSUME BoxInv, DataInv, pc # "box", parts' = parts, box' = box, data' = data,
         \A p \in 1..NumParts, x \in FilePlaces : Copied(p, x)' <=> Copied(p, x)
  PROVE  DataInv'
<1>1. SUFFICES ASSUME NEW x \in FilePlaces, NEW p \in 1..NumParts, LastCopied(p, x)'
               PROVE  (data[PlaceInBox(x)])' = <<p, PlaceIn(p, x)>>'
  BY DEF DataInv
<1>2. LastCopied(p, x)
  BY <1>1 DEF LastCopied
<1>3. data[PlaceInBox(x)] = <<p, PlaceIn(p, x)>>
  BY <1>2 DEF DataInv
<1>4. QED
  BY <1>3, PlacesStay

\* One element is copied, and nothing else.
LEMMA MergedMore ==
  ASSUME BoxInv, CopyInv, DataInv, pc = "copy", SrcLen > 0, parts' = parts, box' = box, Copy,
         \A p \in 1..NumParts, x \in FilePlaces :
           Copied(p, x)' <=> Copied(p, x) \/ (p = k /\ Has(k, x) /\ PlaceIn(k, x) = i)
  PROVE  DataInv'
<1>1. SUFFICES ASSUME NEW x \in FilePlaces, NEW p \in 1..NumParts, LastCopied(p, x)'
               PROVE  (data[PlaceInBox(x)])' = <<p, PlaceIn(p, x)>>'
  BY DEF DataInv
<1>2. PICK y \in FilePlaces : /\ Has(k, y) /\ PlaceIn(k, y) = i /\ src = i /\ PlaceInBox(y) = dst
                              /\ k \in 1..NumParts /\ dst \in DOMAIN data
  BY ElementAtHand
<1>3. /\ Copied(p, x)' /\ \A q \in 1..NumParts : Copied(q, x)' => q <= p
  BY <1>1 DEF LastCopied
<1>4. PlaceInBox(x)' = PlaceInBox(x) /\ PlaceIn(p, x)' = PlaceIn(p, x)
  BY PlacesStay
<1>5. data' = [data EXCEPT ![dst] = <<k, src>>]
  BY DEF Copy
<1>6. CASE x = y
  <2>1. k <= p
    BY <1>2, <1>3, <1>6
  <2>2. p <= k
    BY <1>2, <1>3 DEF Copied
  <2>3. p = k
    BY <1>2, <2>1, <2>2
  <2>4. data'[dst] = <<k, src>>
    BY <1>2, <1>5
  <2>5. QED
    BY <1>2, <1>4, <1>6, <2>3, <2>4
<1>7. CASE x # y
  <2>1. \A q \in 1..NumParts : Copied(q, x)' <=> Copied(q, x)
    <3>1. ~(Has(k, x) /\ PlaceIn(k, x) = i)
      BY <1>2, <1>7, PlacesApart
    <3>2. QED
      BY <3>1
  <2>2. LastCopied(p, x)
    BY <1>3, <2>1 DEF LastCopied
  <2>3. data[PlaceInBox(x)] = <<p, PlaceIn(p, x)>> /\ Has(p, x)
    BY <2>2 DEF DataInv, LastCopied, Copied
  <2>4. PlaceInBox(x) # dst
    BY <1>2, <1>7, <2>3, PlacesApart
  <2>5. PlaceInBox(x) \in DOMAIN data
    BY <2>3, PlaceThere DEF CopyInv
  <2>6. data'[PlaceInBox(x)] = data[PlaceInBox(x)]
    BY <1>5, <2>4, <2>5
  <2>7. QED
    BY <1>4, <2>3, <2>6
<1>8. QED
  BY <1>6, <1>7

\* At the start of a part nothing of it is copied.
LEMMA StartPartMerges ==
  ASSUME BoxInv, CopyInv, DataInv, StartPart
  PROVE  DataInv'
<1>1. /\ pc = "part" /\ pc' = "copy" /\ i' = 0 /\ k' = k /\ parts' = parts /\ box' = box /\ data' = data
  BY DEF StartPart
<1>2. ASSUME NEW p \in 1..NumParts, NEW x \in FilePlaces PROVE Copied(p, x)' <=> Copied(p, x)
  <2>1. Has(p, x)' = Has(p, x) /\ PlaceIn(p, x)' = PlaceIn(p, x)
    BY <1>1, PlacesStay
  <2>2. Has(p, x) => ~(PlaceIn(p, x) < 0)
    <3>1. parts[p].count \in Counted
      BY DEF BoxInv, BoxType, Part, Counted
    <3>2. Product(parts[p].count) \in Nat
      BY <3>1, ProductPositive DEF Counted
    <3>3. Has(p, x) => PlaceIn(p, x) \in 0..(Product(parts[p].count) - 1)
      BY <1>1, PlaceThere
    <3>4. QED
      BY <3>2, <3>3
  <2>3. QED
    BY <1>1, <2>1, <2>2 DEF Copied
<1>3. QED
  BY <1>1, <1>2, MergedStays

\* One element is copied, and the index is carried after it.
LEMMA CopyElementMerges ==
  ASSUME BoxInv, CopyInv, DataInv, CopyElement
  PROVE  DataInv'
<1>1. /\ pc = "copy" /\ i < SrcLen - 1 /\ pc' = "carry" /\ i' = i /\ k' = k /\ parts' = parts
      /\ box' = box /\ Copy
  BY DEF CopyElement
<1>2. k \in 1..NumParts /\ i \in Nat
  BY <1>1, MergeAssumption DEF BoxInv, BoxType, CopyInv
<1>3. SrcLen \in Nat /\ SrcLen > 0
  BY <1>1, <1>2, PartAtHand
<1>4. ASSUME NEW p \in 1..NumParts, NEW x \in FilePlaces
      PROVE  Copied(p, x)' <=> Copied(p, x) \/ (p = k /\ Has(k, x) /\ PlaceIn(k, x) = i)
  <2>1. Has(p, x)' = Has(p, x) /\ PlaceIn(p, x)' = PlaceIn(p, x)
    BY <1>1, PlacesStay
  <2>2. Has(p, x) => (PlaceIn(p, x) < i + 1 <=> PlaceIn(p, x) < i \/ PlaceIn(p, x) = i)
    <3>1. Has(p, x) => PlaceIn(p, x) \in Int
      BY <1>1, PlaceThere
    <3>2. QED
      BY <1>2, <3>1
  <2>3. QED
    BY <1>1, <2>1, <2>2 DEF Copied
<1>5. QED
  BY <1>1, <1>3, <1>4, MergedMore

\* The last element is copied; a part without elements has no place.
LEMMA EndPartMerges ==
  ASSUME BoxInv, CopyInv, DataInv, EndPart
  PROVE  DataInv'
<1>1. /\ pc = "copy" /\ i >= SrcLen - 1 /\ pc' = "part" /\ k' = k + 1 /\ parts' = parts /\ box' = box
      /\ IF SrcLen > 0 THEN Copy ELSE data' = data
  BY DEF EndPart
<1>2. k \in 1..NumParts /\ i \in Nat /\ pc # "box"
  BY <1>1, MergeAssumption DEF BoxInv, BoxType, CopyInv
<1>3. SrcLen \in Nat
  BY <1>2, PartAtHand
<1>4. ASSUME NEW p \in 1..NumParts, NEW x \in FilePlaces
      PROVE  /\ Has(p, x)' = Has(p, x) /\ PlaceIn(p, x)' = PlaceIn(p, x)
             /\ p < k + 1 <=> p < k \/ p = k
             /\ p = k /\ Has(p, x) => PlaceIn(p, x) \in 0..(SrcLen - 1)
  BY <1>1, <1>2, PlacesStay, PlaceThere DEF SrcLen
<1>5. CASE SrcLen > 0
  <2>1. i \in 0..(SrcLen - 1)
    BY <1>1, <1>5, ElementAtHand
  <2>2. ASSUME NEW p \in 1..NumParts, NEW x \in FilePlaces
        PROVE  Copied(p, x)' <=> Copied(p, x) \/ (p = k /\ Has(k, x) /\ PlaceIn(k, x) = i)
    <3>1. p = k /\ Has(p, x) => PlaceIn(p, x) < i \/ PlaceIn(p, x) = i
      BY <1>1, <1>3, <1>4, <2>1
    <3>2. QED
      BY <1>1, <1>4, <3>1 DEF Copied
  <2>3. QED
    BY <1>1, <1>5, <2>2, MergedMore
<1>6. CASE ~(SrcLen > 0)
  <2>1. ASSUME NEW p \in 1..NumParts, NEW x \in FilePlaces PROVE Copied(p, x)' <=> Copied(p, x)
    <3>1. ~(p = k /\ Has(p, x))
      BY <1>3, <1>4, <1>6
    <3>2. QED
      BY <1>1, <1>4, <3>1 DEF Copied
  <2>2. QED
    BY <1>1, <1>2, <1>6, <2>1, MergedStays
<1>7. QED
  BY <1>5, <1>6

(* Programs count from 1, and the parts are what is made of what they ask for. *)
AskedInv ==
  /\ asked \in [1..NumParts -> [start : [Dims -> Nat \ {0}], count : [Dims -> Nat]]]
  /\ parts = [p \in 1..NumParts |-> Converted(asked[p])]

MergeInv == DataInv /\ AskedInv /\ (pc = "written" => k > NumParts)

\* Every step keeps this.
LEMMA MergeInvKept ==
  ASSUME BoxInv, CopyInv, MergeInv, [Next]_vars
  PROVE  MergeInv'
<1>1. AskedInv'
  <2>1. parts' = parts /\ asked' = asked
    BY DEF Next, Extend, Allocate, StartPart, CopyElement, Carry, Advance, EndPart, Written,
        Terminating, vars
  <2>2. QED
    BY <2>1 DEF MergeInv, AskedInv, Converted
<1>2. CASE Extend
  BY <1>1, <1>2 DEF Extend, MergeInv, DataInv
<1>3. CASE Allocate
  <2>1. pc' = "part" /\ k' = 1
    BY <1>3 DEF Allocate
  <2>2. \A p \in 1..NumParts, x \in FilePlaces : ~Copied(p, x)'
    BY <2>1, MergeAssumption DEF Copied
  <2>3. DataInv'
    BY <2>2 DEF DataInv, LastCopied
  <2>4. QED
    BY <1>1, <2>1, <2>3 DEF MergeInv
<1>4. CASE StartPart
  <2>1. DataInv' /\ pc' = "copy"
    BY <1>4, StartPartMerges DEF MergeInv, StartPart
  <2>2. QED
    BY <1>1, <2>1 DEF MergeInv
<1>5. CASE CopyElement
  <2>1. DataInv' /\ pc' = "carry"
    BY <1>5, CopyElementMerges DEF MergeInv, CopyElement
  <2>2. QED
    BY <1>1, <2>1 DEF MergeInv
<1>6. CASE Carry
  <2>1. pc = "carry" /\ pc' = "carry" /\ i' = i /\ k' = k /\ parts' = parts /\ box' = box /\ data' = data
    BY <1>6 DEF Carry
  <2>2. ASSUME NEW p \in 1..NumParts, NEW x \in FilePlaces PROVE Copied(p, x)' <=> Copied(p, x)
    BY <2>1, PlacesStay DEF Copied
  <2>3. DataInv'
    BY <2>1, <2>2, MergedStays DEF MergeInv
  <2>4. QED
    BY <1>1, <2>1, <2>3 DEF MergeInv
<1>7. CASE Advance
  <2>1. /\ pc = "carry" /\ pc' = "copy" /\ i' = i + 1 /\ k' = k /\ parts' = parts /\ box' = box
        /\ data' = data
    BY <1>7 DEF Advance
  <2>2. ASSUME NEW p \in 1..NumParts, NEW x \in FilePlaces PROVE Copied(p, x)' <=> Copied(p, x)
    BY <2>1, PlacesStay DEF Copied
  <2>3. DataInv'
    BY <2>1, <2>2, MergedStays DEF MergeInv
  <2>4. QED
    BY <1>1, <2>1, <2>3 DEF MergeInv
<1>8. CASE EndPart
  <2>1. DataInv' /\ pc' = "part"
    BY <1>8, EndPartMerges DEF MergeInv, EndPart
  <2>2. QED
    BY <1>1, <2>1 DEF MergeInv
<1>9. CASE Written
  <2>1. /\ pc = "part" /\ pc' = "written" /\ k > NumParts /\ k' = k /\ parts' = parts /\ box' = box
        /\ data' = data
    BY <1>9 DEF Written
  <2>2. ASSUME NEW p \in 1..NumParts, NEW x \in FilePlaces PROVE Copied(p, x)' <=> Copied(p, x)
    BY <2>1, PlacesStay DEF Copied
  <2>3. DataInv'
    BY <2>1, <2>2, MergedStays DEF MergeInv
  <2>4. QED
    BY <1>1, <2>1, <2>3 DEF MergeInv
<1>10. CASE UNCHANGED vars
  <2>1. /\ pc' = pc /\ i' = i /\ k' = k /\ parts' = parts /\ box' = box
        /\ data' = data
    BY <1>10 DEF vars
  <2>2. ASSUME NEW p \in 1..NumParts, NEW x \in FilePlaces PROVE Copied(p, x)' <=> Copied(p, x)
    BY <2>1, PlacesStay DEF Copied
  <2>3. DataInv'
    <3>1. CASE pc = "box"
      BY <2>1, <3>1 DEF DataInv
    <3>2. CASE pc # "box"
      BY <2>1, <2>2, <3>2, MergedStays DEF MergeInv
    <3>3. QED
      BY <3>1, <3>2
  <2>4. QED
    BY <1>1, <2>1, <2>3 DEF MergeInv
<1>11. QED
  BY <1>2, <1>3, <1>4, <1>5, <1>6, <1>7, <1>8, <1>9, <1>10 DEF Next, Terminating

\* The dimensions from the other end.
LEMMA Turned ==
  ASSUME NEW d \in Dims
  PROVE  NDims + 1 - d \in Dims /\ NDims + 1 - (NDims + 1 - d) = d
BY MergeAssumption DEF Dims

\* A point of the program is a place in the file.
Turn(x) == [d \in Dims |-> x[NDims + 1 - d] - 1]

\* Points count from 1.
LEMMA TurnedPoint ==
  ASSUME NEW x \in [Dims -> Nat \ {0}]
  PROVE  /\ x \in Places /\ Turn(x) \in FilePlaces
         /\ \A d \in Dims : Turn(x)[d] = x[NDims + 1 - d] - 1 /\ x[NDims + 1 - d] \in Nat \ {0}
<1>1. \A d \in Dims : x[d] \in Nat \ {0}
  OBVIOUS
<1>2. \A d \in Dims : x[NDims + 1 - d] \in Nat \ {0}
  BY <1>1, Turned
<1>3. Turn(x) \in FilePlaces
  BY <1>2 DEF Turn, FilePlaces
<1>4. QED
  BY <1>1, <1>2, <1>3 DEF Turn, Places

\* The points of an array are the places from its start on, as many as it counts
\* in every dimension.
LEMMA PointsOf ==
  ASSUME NEW a, a.start \in [Dims -> Nat \ {0}], a.count \in [Dims -> Nat]
  PROVE  /\ Points(a) \subseteq [Dims -> Nat \ {0}]
         /\ \A x \in [Dims -> Nat \ {0}] :
              x \in Points(a) <=> \A d \in Dims : a.start[d] <= x[d] /\ x[d] < a.start[d] + a.count[d]
<1>1. ASSUME NEW d \in Dims, NEW n
      PROVE  n \in Along(a, d) <=> n \in Nat \ {0} /\ a.start[d] <= n /\ n < a.start[d] + a.count[d]
  <2>1. a.start[d] \in Nat \ {0} /\ a.count[d] \in Nat
    OBVIOUS
  <2>2. QED
    BY <2>1 DEF Along
<1>2. ASSUME NEW x \in Points(a) PROVE x \in [Dims -> Nat \ {0}]
  BY <1>1 DEF Points
<1>3. ASSUME NEW x \in [Dims -> Nat \ {0}],
             \A d \in Dims : a.start[d] <= x[d] /\ x[d] < a.start[d] + a.count[d]
      PROVE  x \in Points(a)
  <2>1. \A d \in Dims : x[d] \in Along(a, d)
    BY <1>1, <1>3
  <2>2. QED
    BY <2>1 DEF Points
<1>4. ASSUME NEW x \in Points(a), NEW d \in Dims
      PROVE  a.start[d] <= x[d] /\ x[d] < a.start[d] + a.count[d]
  <2>1. x[d] \in Along(a, d)
    BY DEF Points
  <2>2. QED
    BY <1>1, <2>1
<1>5. QED
  BY <1>2, <1>3, <1>4

\* A part has the places that the points of its client turn into, at their offsets.
LEMMA AskedHas ==
  ASSUME AskedInv, NEW p \in 1..NumParts, NEW x \in [Dims -> Nat \ {0}]
  PROVE  /\ x \in Points(asked[p]) <=> Has(p, Turn(x))
         /\ Offset(asked[p], x) = PlaceIn(p, Turn(x))
<1>1. PICK a : a = asked[p] /\ a.start \in [Dims -> Nat \ {0}] /\ a.count \in [Dims -> Nat]
  BY DEF AskedInv
<1>2. parts[p] = Converted(a)
  BY <1>1 DEF AskedInv
<1>3. ASSUME NEW d \in Dims
      PROVE  /\ parts[p].start[d] = a.start[NDims + 1 - d] - 1 /\ parts[p].count[d] = a.count[NDims + 1 - d]
             /\ a.start[NDims + 1 - d] \in Nat \ {0} /\ a.count[NDims + 1 - d] \in Nat
  BY <1>1, <1>2, Turned DEF Converted
<1>4. PICK u \in FilePlaces : u = Turn(x)
  BY TurnedPoint
<1>5. ASSUME NEW d \in Dims
      PROVE  /\ parts[p].start[d] <= u[d] <=> a.start[NDims + 1 - d] <= x[NDims + 1 - d]
             /\ u[d] < parts[p].start[d] + parts[p].count[d]
                  <=> x[NDims + 1 - d] < a.start[NDims + 1 - d] + a.count[NDims + 1 - d]
             /\ u[d] - parts[p].start[d] = x[NDims + 1 - d] - a.start[NDims + 1 - d]
             /\ u[d] - parts[p].start[d] \in Int
  <2>1. PICK y \in Nat \ {0}, b \in Nat \ {0}, m \in Nat :
          y = x[NDims + 1 - d] /\ b = a.start[NDims + 1 - d] /\ m = a.count[NDims + 1 - d]
    BY <1>3, TurnedPoint
  <2>2. u[d] = y - 1 /\ parts[p].start[d] = b - 1 /\ parts[p].count[d] = m
    BY <1>3, <1>4, <2>1, TurnedPoint
  <2>3. QED
    BY <2>1, <2>2
<1>6. x \in Points(a) <=> Has(p, u)
  <2>1. ASSUME x \in Points(a) PROVE Has(p, u)
    <3>1. SUFFICES ASSUME NEW d \in Dims
                   PROVE  parts[p].start[d] <= u[d] /\ u[d] < parts[p].start[d] + parts[p].count[d]
      BY DEF Has
    <3>2. \A e \in Dims : a.start[e] <= x[e] /\ x[e] < a.start[e] + a.count[e]
      BY <1>1, <2>1, PointsOf
    <3>3. QED
      BY <1>5, <3>2, Turned
  <2>2. ASSUME Has(p, u) PROVE x \in Points(a)
    <3>1. ASSUME NEW e \in Dims PROVE a.start[e] <= x[e] /\ x[e] < a.start[e] + a.count[e]
      <4>1. PICK d \in Dims : d = NDims + 1 - e /\ NDims + 1 - d = e
        BY Turned
      <4>2. parts[p].start[d] <= u[d] /\ u[d] < parts[p].start[d] + parts[p].count[d]
        BY <2>2 DEF Has
      <4>3. QED
        BY <1>5, <4>1, <4>2
    <3>2. QED
      BY <1>1, <3>1, PointsOf
  <2>3. QED
    BY <2>1, <2>2
<1>7. Offset(a, x) = Spread(parts[p].count, From(parts[p].start, u))
  <2>1. a.count \in Counted /\ a.start \in Places /\ x \in Places
    BY <1>1, TurnedPoint DEF Counted, Places
  <2>2. parts[p].count \in Counted
    BY <1>2, <1>3 DEF Converted, Counted
  <2>3. PICK z : z = From(parts[p].start, u)
    OBVIOUS
  <2>4. z \in Places
    BY <1>5, <2>3 DEF From, Places
  <2>5. \A d \in Dims : /\ parts[p].count[d] = a.count[NDims + 1 - d]
                        /\ z[d] = x[NDims + 1 - d] - a.start[NDims + 1 - d]
    BY <1>3, <1>5, <2>3 DEF From
  <2>6. PICK c \in Counted : c = parts[p].count
    BY <2>2
  <2>7. Offset(a, x) = Spread(c, z)
    BY <2>1, <2>4, <2>5, <2>6, OffsetTurned
  <2>8. QED
    BY <2>3, <2>6, <2>7
<1>8. QED
  BY <1>1, <1>4, <1>6, <1>7 DEF PlaceIn

\* So has the box, of which the program sees the other side.
LEMMA SeenHas ==
  ASSUME BoxInv, NEW x \in [Dims -> Nat \ {0}]
  PROVE  Offset(Seen, x) = PlaceInBox(Turn(x))
<1>1. PICK b : b = box /\ b.start \in [Dims -> Nat] /\ b.count \in [Dims -> Nat]
  BY DEF BoxInv, BoxType, Part
<1>2. PICK a : a = Seen
  OBVIOUS
<1>3. /\ a.start = [d \in Dims |-> b.start[NDims + 1 - d] + 1]
      /\ a.count = [d \in Dims |-> b.count[NDims + 1 - d]]
  BY <1>1, <1>2 DEF Seen
<1>4. ASSUME NEW d \in Dims
      PROVE  /\ a.start[d] \in Nat /\ a.count[d] \in Nat
             /\ a.start[NDims + 1 - d] = b.start[d] + 1 /\ a.count[NDims + 1 - d] = b.count[d]
             /\ b.start[d] \in Nat
  <2>1. PICK e \in Dims : e = NDims + 1 - d /\ NDims + 1 - e = d
    BY Turned
  <2>2. b.start[e] \in Nat /\ b.count[e] \in Nat /\ b.start[d] \in Nat
    BY <1>1
  <2>3. a.start[d] = b.start[e] + 1 /\ a.count[d] = b.count[e]
    BY <1>3, <2>1
  <2>4. a.start[e] = b.start[d] + 1 /\ a.count[e] = b.count[d]
    BY <1>3, <2>1
  <2>5. QED
    BY <2>1, <2>2, <2>3, <2>4
<1>5. a.count \in Counted /\ a.start \in Places /\ b.count \in Counted /\ x \in Places
  <2>1. a.count \in [Dims -> Nat]
    BY <1>3, <1>4
  <2>2. a.start \in [Dims -> Int]
    <3>1. \A d \in Dims : a.start[d] \in Int
      BY <1>4
    <3>2. PICK f : f = a.start
      OBVIOUS
    <3>3. f = [d \in Dims |-> f[d]]
      BY <1>3, <3>2
    <3>4. QED
      BY <3>1, <3>2, <3>3
  <2>3. b.count \in [Dims -> Nat]
    BY <1>1
  <2>4. x \in Places
    BY TurnedPoint
  <2>5. QED
    BY <2>1, <2>2, <2>3, <2>4 DEF Counted, Places
<1>6. PICK u \in FilePlaces : u = Turn(x)
  BY TurnedPoint
<1>7. PICK z : z = From(b.start, u)
  OBVIOUS
<1>8. ASSUME NEW d \in Dims
      PROVE  z[d] \in Int /\ z[d] = x[NDims + 1 - d] - a.start[NDims + 1 - d]
  <2>1. PICK y \in Nat \ {0}, s \in Nat : y = x[NDims + 1 - d] /\ s = b.start[d]
    BY <1>4, TurnedPoint
  <2>2. u[d] = y - 1 /\ a.start[NDims + 1 - d] = s + 1 /\ z[d] = u[d] - s
    BY <1>4, <1>6, <1>7, <2>1, TurnedPoint DEF From
  <2>3. QED
    BY <2>1, <2>2
<1>9. z \in Places
  BY <1>7, <1>8 DEF From, Places
<1>10. PICK c \in Counted : c = b.count
  BY <1>5
<1>11. Offset(a, x) = Spread(c, z)
  BY <1>4, <1>5, <1>8, <1>9, <1>10, OffsetTurned
<1>12. QED
  BY <1>1, <1>2, <1>6, <1>7, <1>10, <1>11 DEF PlaceInBox

\* When all is copied, the last part that has a point was the last copied there.
LEMMA MergeInvRight ==
  ASSUME BoxInv, MergeInv
  PROVE  MergedRight
<1>1. SUFFICES ASSUME pc = "written", NEW x \in Points(Seen), Holders(x) # {},
                      NEW p, p = CHOOSE r \in Holders(x) : \A q \in Holders(x) : q <= r
               PROVE  data[Offset(Seen, x)] = <<p, Offset(asked[p], x)>>
  BY Zenon DEF MergedRight
<1>2. x \in [Dims -> Nat \ {0}]
  <2>1. PICK b : b = box /\ b.start \in [Dims -> Nat] /\ b.count \in [Dims -> Nat]
    BY DEF BoxInv, BoxType, Part
  <2>2. PICK a : a = Seen
    OBVIOUS
  <2>3. /\ a.start = [d \in Dims |-> b.start[NDims + 1 - d] + 1]
        /\ a.count = [d \in Dims |-> b.count[NDims + 1 - d]]
    BY <2>1, <2>2 DEF Seen
  <2>4. a.start \in [Dims -> Nat \ {0}] /\ a.count \in [Dims -> Nat]
    BY <2>1, <2>3, Turned
  <2>5. QED
    BY <2>2, <2>4, PointsOf
<1>3. \A q \in 1..NumParts : q \in Holders(x) <=> Has(q, Turn(x))
  BY <1>2, AskedHas DEF MergeInv, Holders
<1>4. Holders(x) \in SUBSET (1..NumParts) /\ NumParts \in Nat
  BY MergeAssumption DEF Holders
<1>5. p \in Holders(x) /\ \A q \in Holders(x) : q <= p
  <2>1. \E r \in Holders(x) : \A q \in Holders(x) : r >= q
    BY <1>1, <1>4, Greatest
  <2>2. \E r \in Holders(x) : \A q \in Holders(x) : q <= r
    BY <1>4, <2>1
  <2>3. QED
    BY <1>1, <2>2, Zenon
<1>6. p \in 1..NumParts
  BY <1>4, <1>5
<1>7. k \in Nat /\ k > NumParts
  BY <1>1 DEF MergeInv, BoxInv, BoxType
<1>8. \A q \in 1..NumParts : Copied(q, Turn(x)) <=> Has(q, Turn(x))
  BY <1>4, <1>7 DEF Copied
<1>9. LastCopied(p, Turn(x)) /\ Turn(x) \in FilePlaces
  BY <1>2, <1>3, <1>5, <1>6, <1>8, TurnedPoint DEF LastCopied
<1>10. data[PlaceInBox(Turn(x))] = <<p, PlaceIn(p, Turn(x))>>
  BY <1>1, <1>6, <1>9 DEF MergeInv, DataInv
<1>11. Offset(Seen, x) = PlaceInBox(Turn(x)) /\ Offset(asked[p], x) = PlaceIn(p, Turn(x))
  BY <1>2, <1>6, AskedHas, SeenHas DEF MergeInv
<1>12. QED
  BY <1>10, <1>11

(* What is written at a point is the element that the program has there, of  *)
(* the last client that passed one: for all parts, however they overlap, of  *)
(* any number of dimensions, though Fortran counts from 1 and goes through     *)
(* its arrays the other way.                                               *)
THEOREM MergedRightCorrect == Spec => []MergedRight
<1>1. Init => MergeInv
  <2>1. SUFFICES ASSUME Init PROVE MergeInv
    OBVIOUS
  <2>2. AskedInv
    <3>1. ASSUME NEW p \in 1..NumParts
          PROVE  asked[p] \in [start : [Dims -> Nat \ {0}], count : [Dims -> Nat]]
      <4>1. asked[p] \in [start : [Dims -> {s + 1 : s \in Starts}], count : [Dims -> Counts]]
        BY <2>1 DEF Init
      <4>2. {s + 1 : s \in Starts} \subseteq Nat \ {0} /\ Counts \subseteq Nat
        BY MergeAssumption
      <4>3. QED
        BY <4>1, <4>2
    <3>2. asked \in [1..NumParts -> [start : [Dims -> Nat \ {0}], count : [Dims -> Nat]]]
      BY <2>1, <3>1 DEF Init
    <3>3. QED
      BY <2>1, <3>2 DEF Init, AskedInv
  <2>3. pc = "box"
    BY <2>1 DEF Init
  <2>4. QED
    BY <2>2, <2>3 DEF MergeInv, DataInv
<1>2. BoxInv /\ CopyInv /\ MergeInv /\ [Next]_vars => MergeInv'
  BY MergeInvKept
<1>3. BoxInv /\ MergeInv => MergedRight
  BY MergeInvRight
<1>4. Spec => []BoxInv
  BY BoxAlways, PTL
<1>5. Spec => []CopyInv
  BY CopyAlways, PTL
<1> QED
  BY <1>1, <1>2, <1>3, <1>4, <1>5, PTL DEF Spec
================================================================================
