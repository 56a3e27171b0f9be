---------------------------- MODULE IoRequests_proofs ----------------------------
(***************************************************************************)
(* The calls of a program on their way into a file.                        *)
(*   Bitmaps: the bitmap of a server is full when, and only when, all its  *)
(*   clients were added, in whatever order and however often, for any      *)
(*   number of clients: also when they fill their bytes exactly.           *)
(*   Messages: every message is as long as it announces, is read to its    *)
(*   end, and what the handler gets is what the client packed, for all     *)
(*   ids, dimensions, places and data, and names of NameSize bytes.        *)
(*   Clients: after the same calls all have the same table, whenever they  *)
(*   make the calls; h[k] is the table after k calls (Hist, Followed).     *)
(*   Servers: one that takes the k-th message of each of its clients has   *)
(*   the tables that belong to h[k - 1] before and to h[k] after the first  *)
(*   of them (Round, ServerOk), so every later message of the round finds   *)
(*   what the first has made.  From that, the types, SizesAgree and        *)
(*   BitsHaveParts.                                                        *)
(*   Files: when no creation fails, the files of a server are open in the  *)
(*   library under ids of their own, but for one that is being created     *)
(*   or closed (Opens). From that, SameIds and NoAbort.                    *)
(*   Rounds: without misuse, what io_table and recv_data hold between the   *)
(*   messages of a round is for the call that is being taken (Clean), and   *)
(*   files are in the modes that the calls give them.  From that,           *)
(*   RoundsClean, when no creation fails.                                  *)
(***************************************************************************)
EXTENDS IoRequests, Counting_proofs, FiniteSetTheorems, SequenceTheorems, WellFoundedInduction,
        TLAPS

(* Bitmaps of n clients: every bit that is set is that of a client. *)
Bytes(n) == 0..(n \div ByteBits)

Bitmaps(n) ==
  {b \in [Bytes(n) -> SUBSET AllBits] :
     \A i \in Bytes(n), j \in AllBits : j \in b[i] => i * ByteBits + j < n}

(* Quotient and remainder, of the bits of a byte in particular. *)
LEMMA DivMod ==
  ASSUME NEW x \in Nat, NEW d \in Nat \ {0}
  PROVE  \E q \in Nat, r \in 0..(d - 1) : x \div d = q /\ x % d = r /\ x = q * d + r
<1>1. /\ x \div d \in Nat /\ x % d \in 0..(d - 1)
      /\ x = (x \div d) * d + (x % d)
  OBVIOUS
<1> QED
  BY <1>1

\* Quotient and remainder are unique.
LEMMA DivModUnique ==
  ASSUME NEW q \in Int, NEW d \in Nat \ {0}, NEW r \in 0..(d - 1)
  PROVE  (q * d + r) \div d = q /\ (q * d + r) % d = r
OBVIOUS

\* A number is the sum of its quotient, times the divisor, and its remainder.
LEMMA Division ==
  ASSUME NEW x \in Nat
  PROVE  \E q \in Nat, r \in AllBits :
           x \div ByteBits = q /\ x % ByteBits = r /\ x = q * ByteBits + r
<1>1. ByteBits \in Nat \ {0}
  BY BitmapAssumption
<1>2. PICK q \in Nat, r \in 0..(ByteBits - 1) :
        x \div ByteBits = q /\ x % ByteBits = r /\ x = q * ByteBits + r
  BY <1>1, DivMod, Zenon
<1>3. r \in AllBits
  BY Zenon DEF AllBits
<1> QED
  BY <1>2, <1>3, Zenon

\* The quotient of a number that is given by quotient and remainder.
LEMMA Quotient ==
  ASSUME NEW i \in Nat, NEW j \in AllBits
  PROVE  (i * ByteBits + j) \div ByteBits = i /\ (i * ByteBits + j) % ByteBits = j
  BY DivModUnique, BitmapAssumption DEF AllBits

(* The byte and the bit of a client. *)
LEMMA Place ==
  ASSUME NEW n \in Nat, NEW x \in 0..(n - 1)
  PROVE  \E q \in Bytes(n), r \in AllBits :
           /\ x \div ByteBits = q /\ x % ByteBits = r
           /\ x = q * ByteBits + r /\ x - q * ByteBits = r
<1>1. x \in Nat /\ ByteBits \in Nat \ {0}
  BY BitmapAssumption
<1>2. PICK q \in Nat, r \in AllBits :
        x \div ByteBits = q /\ x % ByteBits = r /\ x = q * ByteBits + r
  BY <1>1, Division, Zenon
<1>3. PICK h \in Nat, t \in AllBits :
        n \div ByteBits = h /\ n % ByteBits = t /\ n = h * ByteBits + t
  BY Division, Zenon
<1>4. x = q * ByteBits + r /\ n = h * ByteBits + t
  BY <1>2, <1>3, Zenon
<1>5. r \in 0..(ByteBits - 1) /\ t \in 0..(ByteBits - 1)
  BY Zenon DEF AllBits
<1>6. q <= h
  <2> SUFFICES ASSUME q >= h + 1
               PROVE  FALSE
    OBVIOUS
  <2>1. q * ByteBits >= (h + 1) * ByteBits
    BY <1>1
  <2>2. (h + 1) * ByteBits = h * ByteBits + ByteBits
    BY <1>1
  <2>3. x >= h * ByteBits + ByteBits
    BY <1>1, <1>4, <1>5, <2>1, <2>2
  <2> QED
    BY <1>1, <1>4, <1>5, <2>3
<1>7. q \in 0..h /\ x - q * ByteBits = r
  BY <1>1, <1>4, <1>5, <1>6
<1>8. q \in Bytes(n)
  BY <1>3, <1>7, Zenon DEF Bytes
<1> QED
  BY <1>2, <1>7, <1>8, Zenon

(* A new bitmap notes nobody. *)
LEMMA NewNotesNobody ==
  ASSUME NEW n \in Nat
  PROVE  NewBitmap(n) \in Bitmaps(n) /\ Noted(NewBitmap(n), n) = {}
<1>1. NewBitmap(n) = [i \in Bytes(n) |-> {}]
  BY DEF NewBitmap, Bytes
<1>2. NewBitmap(n) \in Bitmaps(n)
  BY <1>1 DEF Bitmaps
<1>3. ASSUME NEW x \in 0..(n - 1), x % ByteBits \in NewBitmap(n)[x \div ByteBits]
      PROVE  FALSE
  <2>1. PICK q \in Bytes(n) : x \div ByteBits = q
    BY Place, Zenon
  <2>2. NewBitmap(n)[q] = {}
    BY <1>1, Zenon
  <2> QED
    BY <1>3, <2>1, <2>2, Zenon
<1> QED
  BY <1>2, <1>3, Zenon DEF Noted

(* Adding a client notes it, and leaves the others as they were. *)
LEMMA AddNotes ==
  ASSUME NEW n \in Nat, NEW b \in Bitmaps(n), NEW x \in 0..(n - 1)
  PROVE  AddBitmap(b, x) \in Bitmaps(n) /\ Noted(AddBitmap(b, x), n) = Noted(b, n) \cup {x}
<1> DEFINE a == AddBitmap(b, x)
<1>1. PICK q \in Bytes(n), r \in AllBits :
        /\ x \div ByteBits = q /\ x % ByteBits = r
        /\ x = q * ByteBits + r /\ x - q * ByteBits = r
  BY Place, Zenon
<1>2. b \in [Bytes(n) -> SUBSET AllBits]
  BY DEF Bitmaps
<1>3. a = [b EXCEPT ![q] = @ \cup {r}]
  <2>1. x \div ByteBits = q /\ x - q * ByteBits = r
    BY <1>1, Zenon
  <2> QED
    BY <2>1, Zenon DEF AddBitmap
<1>4. /\ a \in [Bytes(n) -> SUBSET AllBits] /\ a[q] = b[q] \cup {r}
      /\ \A i \in Bytes(n) : i # q => a[i] = b[i]
  <2> HIDE DEF a
  <2> QED
    BY <1>2, <1>3
<1>5. a \in Bitmaps(n)
  <2>1. ASSUME NEW i \in Bytes(n), NEW j \in AllBits, j \in a[i]
        PROVE  i * ByteBits + j < n
    <3>1. CASE j \in b[i]
      BY <3>1 DEF Bitmaps
    <3>2. CASE j \notin b[i]
      <4>1. i = q /\ j = r
        BY <1>4, <2>1, <3>2
      <4>2. q * ByteBits + r < n
        BY <1>1
      <4> QED
        BY <4>1, <4>2
    <3> QED
      BY <3>1, <3>2
  <2> QED
    BY <1>4, <2>1 DEF Bitmaps
<1>6. ASSUME NEW y \in 0..(n - 1)
      PROVE  y % ByteBits \in a[y \div ByteBits]
               <=> (y % ByteBits \in b[y \div ByteBits] \/ y = x)
  <2>1. PICK p \in Bytes(n), t \in AllBits :
          y \div ByteBits = p /\ y % ByteBits = t /\ y = p * ByteBits + t
    BY Place, Zenon
  <2>2. p = q /\ t = r => y = x
    BY <1>1, <2>1, Zenon
  <2>3. y = x => p = q /\ t = r
    BY <1>1, <2>1, Zenon
  <2>4. t \in a[p] <=> (t \in b[p] \/ (p = q /\ t = r))
    <3> HIDE DEF a
    <3> QED
      BY <1>4
  <2>5. t \in a[p] <=> (t \in b[p] \/ y = x)
    <3> HIDE DEF a
    <3> QED
      BY <2>2, <2>3, <2>4, Zenon
  <2> QED
    BY <2>1, <2>5, Zenon
<1> QED
  BY <1>5, <1>6 DEF Noted

(* _bitmap_full (io.c:110-135) of a bitmap made by _recv_client_io and        *)
(* _add_bitmap answers yes exactly when every client was added, for every    *)
(* number of clients: when they do not fill the last byte the other bits in  *)
(* it are never set, and when they fill their bytes exactly the byte after   *)
(* them, which is looked at all the same, was allocated and stays 0.         *)
THEOREM FullWhenAllNoted ==
  ASSUME NEW n \in Nat, NEW b \in Bitmaps(n)
  PROVE  BitmapFull(b, n) <=> Noted(b, n) = 0..(n - 1)
<1>0. PICK head \in Nat, tail \in AllBits :
        n \div ByteBits = head /\ n % ByteBits = tail /\ n = head * ByteBits + tail
  BY Division, Zenon
<1>1. /\ head \in Nat /\ tail \in AllBits /\ n = head * ByteBits + tail
      /\ ByteBits \in Nat \ {0}
  BY <1>0, BitmapAssumption
<1>2. BitmapFull(b, n) <=> (\A i \in 0..(head - 1) : b[i] = AllBits) /\ b[head] = 0..(tail - 1)
  <2>1. n - head * ByteBits = tail
    BY <1>1 DEF AllBits
  <2> QED
    BY <1>0, <2>1, Zenon DEF BitmapFull
<1>3. Bytes(n) = 0..head
  BY <1>0, Zenon DEF Bytes
<1>4. b \in [0..head -> SUBSET AllBits]
  BY <1>3 DEF Bitmaps
<1>5. ASSUME BitmapFull(b, n), NEW x \in 0..(n - 1)
      PROVE  x % ByteBits \in b[x \div ByteBits]
  <2>1. PICK q \in Bytes(n), r \in AllBits :
          x \div ByteBits = q /\ x % ByteBits = r /\ x = q * ByteBits + r
    BY Place, Zenon
  <2>2. CASE q = head
    <3>1. x = head * ByteBits + r
      BY <2>1, <2>2, Zenon
    <3>2. r \in 0..(tail - 1)
      BY <1>1, <3>1 DEF AllBits
    <3> QED
      BY <1>2, <1>5, <2>1, <2>2, <3>2, Zenon
  <2>3. CASE q # head
    <3>1. q \in 0..(head - 1)
      BY <1>1, <1>3, <2>3
    <3> QED
      BY <1>2, <1>5, <2>1, <3>1, Zenon
  <2> QED
    BY <2>2, <2>3
<1>6. ASSUME \A x \in 0..(n - 1) : x % ByteBits \in b[x \div ByteBits]
      PROVE  BitmapFull(b, n)
  <2>1. ASSUME NEW i \in 0..head, NEW j \in AllBits, i * ByteBits + j < n
        PROVE  j \in b[i]
    <3>1. i * ByteBits + j \in 0..(n - 1)
      BY <1>1, <2>1 DEF AllBits
    <3>2. (i * ByteBits + j) \div ByteBits = i /\ (i * ByteBits + j) % ByteBits = j
      BY Quotient
    <3> QED
      BY <1>6, <3>1, <3>2
  <2>2. ASSUME NEW i \in 0..(head - 1)
        PROVE  b[i] = AllBits
    <3>1. ASSUME NEW j \in AllBits
          PROVE  i * ByteBits + j < n
      <4>1. i + 1 <= head /\ j < ByteBits
        BY <1>1 DEF AllBits
      <4>2. (i + 1) * ByteBits <= head * ByteBits
        BY <1>1, <4>1
      <4>3. (i + 1) * ByteBits = i * ByteBits + ByteBits
        BY <1>1
      <4> QED
        BY <1>1, <4>1, <4>2, <4>3 DEF AllBits
    <3>2. i \in 0..head /\ b[i] \subseteq AllBits
      BY <1>1, <1>4
    <3> QED
      BY <2>1, <3>1, <3>2
  <2>3. b[head] = 0..(tail - 1)
    <3>1. head \in 0..head /\ b[head] \subseteq AllBits
      BY <1>1, <1>4
    <3>2. ASSUME NEW j \in AllBits
          PROVE  j \in b[head] <=> j \in 0..(tail - 1)
      <4>1. j \in b[head] => head * ByteBits + j < n
        BY <1>3, <3>1 DEF Bitmaps
      <4>2. head * ByteBits + j < n => j \in b[head]
        BY <2>1, <3>1
      <4>3. head * ByteBits + j < n <=> j \in 0..(tail - 1)
        BY <1>1 DEF AllBits
      <4> QED
        BY <4>1, <4>2, <4>3
    <3>3. 0..(tail - 1) \subseteq AllBits
      BY <1>1 DEF AllBits
    <3> QED
      BY <3>1, <3>2, <3>3
  <2> QED
    BY <1>2, <2>2, <2>3
<1> QED
  BY <1>5, <1>6 DEF Noted

-------------------------------------------------------------------------------
USE DEF SizeofInt, SizeofSizeT, SizeofFloat, NameSize

(* The size in the first field. *)
Announced(msg) == msg[1][2]

(* How many bytes the fields of a message take. *)
Packed(msg) == Cardinality(UNION {{k} \X (1..msg[k][1]) : k \in DOMAIN msg})

(* The widths of the first j fields. *)
Widths(f, j) == [k \in DOMAIN f |-> IF k <= j THEN f[k][1] ELSE 0]

SizeTo(f, j) == Cardinality(Slots(DOMAIN f, Widths(f, j)))

\* Field by field.
LEMMA SizeStep ==
  ASSUME NEW f, NEW n \in Nat, DOMAIN f = 1..n, \A k \in DOMAIN f : f[k][1] \in Nat,
         NEW j \in 1..n, IsFiniteSet(Slots(DOMAIN f, Widths(f, j - 1)))
  PROVE  IsFiniteSet(Slots(DOMAIN f, Widths(f, j))) /\ SizeTo(f, j) = SizeTo(f, j - 1) + f[j][1]
<1>1. PICK S : S = DOMAIN f /\ j \in S /\ S \subseteq Nat
  OBVIOUS
<1>2. PICK v : v = Widths(f, j - 1)
  OBVIOUS
<1>3. PICK w : w = Widths(f, j)
  OBVIOUS
<1>4. PICK x \in Nat : x = f[j][1]
  BY <1>1
<1>5. v \in [S -> Nat] /\ w \in [S -> Nat]
  BY <1>1, <1>2, <1>3 DEF Widths
<1>6. v[j] = 0 /\ w[j] = x
  BY <1>1, <1>2, <1>3, <1>4 DEF Widths
<1>7. \A d \in S \ {j} : w[d] = v[d]
  BY <1>1, <1>2, <1>3 DEF Widths
<1>8. w[j] = v[j] + x /\ IsFiniteSet(Slots(S, v))
  BY <1>1, <1>2, <1>6
<1>9. IsFiniteSet(Slots(S, w)) /\ Cardinality(Slots(S, w)) = Cardinality(Slots(S, v)) + x
    <2>1. j \in S /\ x \in Nat /\ v \in [S -> Nat] /\ w \in [S -> Nat] /\ w[j] = v[j] + x
    BY <1>1, <1>5, <1>8
  <2>2. \A d \in S \ {j} : w[d] = v[d]
    BY <1>7
  <2>3. IsFiniteSet(Slots(S, v))
    BY <1>8
  <2>4. QED
    BY <2>1, <2>2, <2>3, SlotsAdd, ZenonT(60)
<1>10. QED
  BY <1>1, <1>2, <1>3, <1>4, <1>9 DEF SizeTo

\* The size of a message is the sum of the widths of its fields.
LEMMA SizeSum ==
  ASSUME NEW f, NEW n \in Nat, DOMAIN f = 1..n, \A k \in DOMAIN f : f[k][1] \in Nat
  PROVE  /\ n = 3 => Packed(f) = f[1][1] + f[2][1] + f[3][1]
         /\ n = 6 => Packed(f) = f[1][1] + f[2][1] + f[3][1] + f[4][1] + f[5][1] + f[6][1]
         /\ n = 7 => Packed(f) = f[1][1] + f[2][1] + f[3][1] + f[4][1] + f[5][1] + f[6][1] + f[7][1]
         /\ n = 8 => Packed(f) = f[1][1] + f[2][1] + f[3][1] + f[4][1] + f[5][1] + f[6][1] + f[7][1]
                                   + f[8][1]
         /\ n = 9 => Packed(f) = f[1][1] + f[2][1] + f[3][1] + f[4][1] + f[5][1] + f[6][1] + f[7][1]
                                   + f[8][1] + f[9][1]
         /\ n = 10 => Packed(f) = f[1][1] + f[2][1] + f[3][1] + f[4][1] + f[5][1] + f[6][1] + f[7][1]
                                   + f[8][1] + f[9][1] + f[10][1]
         /\ n = 11 => Packed(f) = f[1][1] + f[2][1] + f[3][1] + f[4][1] + f[5][1] + f[6][1] + f[7][1]
                                   + f[8][1] + f[9][1] + f[10][1] + f[11][1]
<1> DEFINE P(j) == /\ IsFiniteSet(Slots(DOMAIN f, Widths(f, j)))
                   /\ SizeTo(f, j) \in Nat
<1>0. P(0) /\ SizeTo(f, 0) = 0
  <2>1. Slots(DOMAIN f, Widths(f, 0)) = {}
    BY DEF Slots, Widths
  <2>2. QED
    BY <2>1, FS_EmptySet DEF SizeTo
<1>1. ASSUME NEW j \in 1..n, P(j - 1)
      PROVE  P(j) /\ SizeTo(f, j) = SizeTo(f, j - 1) + f[j][1]
  <2>1. IsFiniteSet(Slots(DOMAIN f, Widths(f, j))) /\ SizeTo(f, j) = SizeTo(f, j - 1) + f[j][1]
    BY <1>1, SizeStep
  <2>2. f[j][1] \in Nat /\ SizeTo(f, j - 1) \in Nat
    BY <1>1
  <2>3. SizeTo(f, j) \in Nat
    BY <2>1, <2>2
  <2>4. QED
    BY <2>1, <2>3
<1>2. Packed(f) = SizeTo(f, n)
  <2>1. UNION {{k} \X (1..f[k][1]) : k \in DOMAIN f} = Slots(DOMAIN f, Widths(f, n))
    <3>1. \A k \in DOMAIN f : Widths(f, n)[k] = f[k][1]
      BY DEF Widths
    <3>2. ASSUME NEW k \in DOMAIN f, NEW x \in 1..f[k][1] PROVE x \in Nat
      <4>1. PICK w \in Nat : w = f[k][1]
        OBVIOUS
      <4>2. QED
        BY <4>1
    <3>3. QED
      BY <3>1, <3>2 DEF Slots
  <2>2. QED
    BY <2>1 DEF Packed, SizeTo
<1> HIDE DEF P
<1>3. /\ 1 <= n => P(1) /\ SizeTo(f, 1) = 0 + f[1][1]
      /\ \A j \in 1..n : P(j - 1) => P(j) /\ SizeTo(f, j) = SizeTo(f, j - 1) + f[j][1]
  BY <1>0, <1>1
<1>4. /\ 2 <= n => (P(1) => P(2) /\ SizeTo(f, 2) = SizeTo(f, 1) + f[2][1])
      /\ 3 <= n => (P(2) => P(3) /\ SizeTo(f, 3) = SizeTo(f, 2) + f[3][1])
      /\ 4 <= n => (P(3) => P(4) /\ SizeTo(f, 4) = SizeTo(f, 3) + f[4][1])
      /\ 5 <= n => (P(4) => P(5) /\ SizeTo(f, 5) = SizeTo(f, 4) + f[5][1])
      /\ 6 <= n => (P(5) => P(6) /\ SizeTo(f, 6) = SizeTo(f, 5) + f[6][1])
      /\ 7 <= n => (P(6) => P(7) /\ SizeTo(f, 7) = SizeTo(f, 6) + f[7][1])
      /\ 8 <= n => (P(7) => P(8) /\ SizeTo(f, 8) = SizeTo(f, 7) + f[8][1])
      /\ 9 <= n => (P(8) => P(9) /\ SizeTo(f, 9) = SizeTo(f, 8) + f[9][1])
      /\ 10 <= n => (P(9) => P(10) /\ SizeTo(f, 10) = SizeTo(f, 9) + f[10][1])
      /\ 11 <= n => (P(10) => P(11) /\ SizeTo(f, 11) = SizeTo(f, 10) + f[11][1])
  BY <1>3
<1>5. \A k \in 1..n : f[k][1] \in Nat
  OBVIOUS
<1>6. QED
  BY <1>2, <1>3, <1>4, <1>5

(* A message is read as the fields that were packed, and is as long as it     *)
(* announces: every byte of it is read, and no more.                       *)
ReadAs(f, op, nc, id, name, dims, data) ==
  /\ Announced(f) = Packed(f)
  /\ Unpacked(f) = [op |-> op, nc |-> nc, id |-> id, name |-> name, dims |-> dims, data |-> data,
                    read |-> Announced(f)]

(* No two functions have the same code, so decode finds the right handler.  *)
LEMMA CodesDiffer ==
  ASSUME NEW op \in DOMAIN FuncCode
  PROVE  (CHOOSE o \in DOMAIN FuncCode : FuncCode[o] = FuncCode[op]) = op
BY DEF FuncCode

(* A field is read as it was packed if it has the width asked for. *)
LEMMA DataOf ==
  ASSUME NEW f, NEW k \in DOMAIN f, NEW size, f[k][1] = size
  PROVE  Data(f, k, size) = f[k][2]
BY DEF Data

(* The same for a string. *)
LEMMA StrOf ==
  ASSUME NEW f, NEW k \in Nat, k \in DOMAIN f, k + 1 \in DOMAIN f, NEW str,
         f[k] = <<4, 2>>, f[k + 1] = <<2, str>>
  PROVE  Str(f, k) = str /\ StrRead(f, k) = 6
<1>1. Data(f, k, SizeofInt) = 2
  BY DataOf
<1>2. f[k + 1][1] = 2 /\ f[k + 1][2] = str
  OBVIOUS
<1>3. Str(f, k) = str
  BY <1>1, <1>2, Zenon DEF Str
<1>4. StrRead(f, k) = 6
  BY <1>1, SMT DEF StrRead, ArrayRead
<1> QED BY <1>3, <1>4

(* The handler of op unpacks what has the code of op. *)
LEMMA Handled ==
  ASSUME NEW f, NEW op \in DOMAIN FuncCode, 2 \in DOMAIN f, f[2] = <<4, FuncCode[op]>>
  PROVE  /\ op = "create" => Unpacked(f) = UnpackCreate(f)
         /\ op = "def_dim" => Unpacked(f) = UnpackDefDim(f)
         /\ op = "def_var" => Unpacked(f) = UnpackDefVar(f)
         /\ op = "put_att" => Unpacked(f) = UnpackPutAtt(f)
         /\ op = "put_vara" => Unpacked(f) = UnpackPutVara(f)
         /\ op \in {"enddef", "close"} => Unpacked(f) = UnpackNcid(f, op)
<1>1. Data(f, 2, SizeofInt) = FuncCode[op]
  BY DataOf
<1>2. (CHOOSE o \in DOMAIN FuncCode : FuncCode[o] = Data(f, 2, SizeofInt)) = op
  BY <1>1, CodesDiffer
<1> QED BY <1>2, Zenon DEF Unpacked

(* cfio_send_create and cfio_recv_unpack_create. *)
THEOREM CreateReadBack ==
  ASSUME NEW path, NEW ncid
  PROVE  ReadAs(SendCreate(path, ncid), "create", ncid, 0, path, << >>, << >>)
<1>0. SUFFICES ASSUME NEW f, f = SendCreate(path, ncid)
               PROVE  ReadAs(f, "create", ncid, 0, path, << >>, << >>)
  OBVIOUS
<1>1. /\ DOMAIN f = 1 .. 6 /\ Len(f) = 6
      /\ f[1] = <<8, 26>> /\ f[2] = <<4, FuncCode["create"]>>
      /\ f[3] = <<4, 2>> /\ f[4] = <<2, path>> /\ f[5] = <<4, 0>> /\ f[6] = <<4, ncid>>
  BY <1>0, SMT DEF SendCreate, Msg, PackData, PackStr, StrSize, ArraySize
<1>2. Unpacked(f) = UnpackCreate(f)
  BY <1>1, Handled DEF FuncCode
<1>3. Data(f, 6, SizeofInt) = ncid
  BY <1>1, DataOf
<1>4. Str(f, 3) = path /\ StrRead(f, 3) = 6
  <2>1. /\ 3 \in Nat /\ 3 \in DOMAIN f /\ 3 + 1 \in DOMAIN f
        /\ f[3] = <<4, 2>> /\ f[3 + 1] = <<2, path>>
    BY <1>1
  <2> QED BY <2>1, StrOf, Zenon
<1>5. \A k \in DOMAIN f : f[k][1] \in Nat
  BY <1>1
<1>6. /\ Announced(f) = f[1][1] + f[2][1] + f[3][1] + f[4][1] + f[5][1] + f[6][1]
      /\ DOMAIN f = 1 .. 6 /\ \A k \in DOMAIN f : f[k][1] \in Nat
      /\ Unpacked(f) = [op |-> "create", nc |-> ncid, id |-> 0, name |-> path,
                        dims |-> << >>, data |-> << >>, read |-> Announced(f)]
  BY <1>1, <1>2, <1>3, <1>4, <1>5 DEF UnpackCreate, Call, Announced
<1>7. Announced(f) = Packed(f)
  BY <1>6, SizeSum
<1> QED BY <1>6, <1>7 DEF ReadAs

(* cfio_send_def_dim and cfio_recv_unpack_def_dim. *)
THEOREM DefDimReadBack ==
  ASSUME NEW ncid, NEW name, NEW dimid
  PROVE  ReadAs(SendDefDim(ncid, name, dimid), "def_dim", ncid, dimid, name, << >>, << >>)
<1>0. SUFFICES ASSUME NEW f, f = SendDefDim(ncid, name, dimid)
               PROVE  ReadAs(f, "def_dim", ncid, dimid, name, << >>, << >>)
  OBVIOUS
<1>1. /\ DOMAIN f = 1 .. 7 /\ Len(f) = 7
      /\ f[1] = <<8, 34>> /\ f[2] = <<4, FuncCode["def_dim"]>> /\ f[3] = <<4, ncid>>
      /\ f[4] = <<4, 2>> /\ f[5] = <<2, name>> /\ f[6] = <<8, 1>> /\ f[7] = <<4, dimid>>
  BY <1>0, SMT DEF SendDefDim, Msg, PackData, PackStr, StrSize, ArraySize
<1>2. Unpacked(f) = UnpackDefDim(f)
  BY <1>1, Handled DEF FuncCode
<1>3. Data(f, 3, SizeofInt) = ncid /\ Data(f, 7, SizeofInt) = dimid
  BY <1>1, DataOf
<1>4. Str(f, 4) = name /\ StrRead(f, 4) = 6
  <2>1. /\ 4 \in Nat /\ 4 \in DOMAIN f /\ 4 + 1 \in DOMAIN f
        /\ f[4] = <<4, 2>> /\ f[4 + 1] = <<2, name>>
    BY <1>1
  <2> QED BY <2>1, StrOf, Zenon
<1>5. \A k \in DOMAIN f : f[k][1] \in Nat
  BY <1>1
<1>6. /\ Announced(f) = f[1][1] + f[2][1] + f[3][1] + f[4][1] + f[5][1] + f[6][1] + f[7][1]
      /\ DOMAIN f = 1 .. 7 /\ \A k \in DOMAIN f : f[k][1] \in Nat
      /\ Unpacked(f) = [op |-> "def_dim", nc |-> ncid, id |-> dimid, name |-> name,
                        dims |-> << >>, data |-> << >>, read |-> Announced(f)]
  BY <1>1, <1>2, <1>3, <1>4, <1>5 DEF UnpackDefDim, Call, Announced
<1>7. Announced(f) = Packed(f)
  BY <1>6, SizeSum
<1> QED BY <1>6, <1>7 DEF ReadAs

(* cfio_send_enddef and cfio_send_close, and what unpacks them. *)
THEOREM NcidReadBack ==
  ASSUME NEW op \in {"enddef", "close"}, NEW ncid
  PROVE  ReadAs(SendNcid(op, ncid), op, ncid, 0, "", << >>, << >>)
<1>0. SUFFICES ASSUME NEW f, f = SendNcid(op, ncid)
               PROVE  ReadAs(f, op, ncid, 0, "", << >>, << >>)
  OBVIOUS
<1>1. /\ DOMAIN f = 1 .. 3 /\ Len(f) = 3
      /\ f[1] = <<8, 16>> /\ f[2] = <<4, FuncCode[op]>> /\ f[3] = <<4, ncid>>
  BY <1>0, SMT DEF SendNcid, Msg, PackData
<1>2. Unpacked(f) = UnpackNcid(f, op)
  BY <1>1, Handled DEF FuncCode
<1>3. Data(f, 3, SizeofInt) = ncid
  BY <1>1, DataOf
<1>4. Announced(f) = 16 /\ f[1][1] + f[2][1] + f[3][1] = 16
  BY <1>1 DEF Announced
<1>5. SizeofSizeT + SizeofInt + SizeofInt = 16
  OBVIOUS
<1>6. Unpacked(f) = [op |-> op, nc |-> ncid, id |-> 0, name |-> "",
                     dims |-> << >>, data |-> << >>, read |-> SizeofSizeT + SizeofInt + SizeofInt]
  BY <1>2, <1>3, Zenon DEF UnpackNcid, Call
<1>7. \A k \in DOMAIN f : f[k][1] \in Nat
  BY <1>1
<1>8. /\ Announced(f) = f[1][1] + f[2][1] + f[3][1]
      /\ DOMAIN f = 1 .. 3 /\ \A k \in DOMAIN f : f[k][1] \in Nat
      /\ Unpacked(f) = [op |-> op, nc |-> ncid, id |-> 0, name |-> "",
                        dims |-> << >>, data |-> << >>, read |-> Announced(f)]
  BY <1>1, <1>4, <1>5, <1>6, <1>7
<1>9. Announced(f) = Packed(f)
  BY <1>8, SizeSum
<1> QED BY <1>8, <1>9, Zenon DEF ReadAs

(* cfio_send_put_att and cfio_recv_unpack_put_att, for data of any length.  *)
THEOREM PutAttReadBack ==
  ASSUME NEW ncid, NEW varid, NEW name, NEW op \in Seq(Int)
  PROVE  ReadAs(SendPutAtt(ncid, varid, name, op), "put_att", ncid, varid, name, << >>, op)
<1>0. SUFFICES ASSUME NEW f, f = SendPutAtt(ncid, varid, name, op)
               PROVE  ReadAs(f, "put_att", ncid, varid, name, << >>, op)
  OBVIOUS
<1>1. Len(op) \in Nat
  OBVIOUS
<1>2. /\ DOMAIN f = 1 .. 9 /\ Len(f) = 9
      /\ f[1] = <<8, 34 + Len(op) * 4>> /\ f[2] = <<4, FuncCode["put_att"]>>
      /\ f[3] = <<4, ncid>> /\ f[4] = <<4, varid>> /\ f[5] = <<4, 2>> /\ f[6] = <<2, name>>
      /\ f[7] = <<4, 5>> /\ f[8] = <<4, Len(op)>> /\ f[9] = <<Len(op) * 4, op>>
  BY <1>1, <1>0, SMT DEF SendPutAtt, Msg, PackData, PackStr, PackArray, StrSize, ArraySize
<1>3. Unpacked(f) = UnpackPutAtt(f)
  <2>1. /\ "put_att" \in DOMAIN FuncCode /\ 2 \in DOMAIN f
        /\ f[2] = <<4, FuncCode["put_att"]>>
    BY <1>2 DEF FuncCode
  <2> QED BY <2>1, Handled, Zenon
<1>4. Data(f, 3, SizeofInt) = ncid /\ Data(f, 4, SizeofInt) = varid
  BY <1>2, DataOf
<1>5. Str(f, 5) = name /\ StrRead(f, 5) = 6
  <2>1. /\ 5 \in Nat /\ 5 \in DOMAIN f /\ 5 + 1 \in DOMAIN f
        /\ f[5] = <<4, 2>> /\ f[5 + 1] = <<2, name>>
    BY <1>2
  <2> QED BY <2>1, StrOf, Zenon
<1>6. Array(f, 8, 4) = op /\ ArrayRead(f, 8, 4) = 4 + Len(op) * 4
  <2>1. /\ 8 \in DOMAIN f /\ 8 + 1 \in DOMAIN f
        /\ f[8][1] = 4 /\ f[8][2] = Len(op) /\ f[8 + 1][1] = f[8][2] * 4 /\ f[8 + 1][2] = op
    BY <1>2
  <2>2. Data(f, 8, SizeofInt) = f[8][2]
    BY <2>1, DataOf, Zenon
  <2> QED BY <2>1, <2>2, Zenon DEF Array, ArrayRead
<1>7. \A k \in DOMAIN f : f[k][1] \in Nat
  BY <1>1, <1>2
<1>8. /\ Announced(f) = f[1][1] + f[2][1] + f[3][1] + f[4][1] + f[5][1] + f[6][1] + f[7][1]
                          + f[8][1] + f[9][1]
      /\ DOMAIN f = 1 .. 9 /\ \A k \in DOMAIN f : f[k][1] \in Nat
      /\ Unpacked(f) = [op |-> "put_att", nc |-> ncid, id |-> varid, name |-> name,
                        dims |-> << >>, data |-> op, read |-> Announced(f)]
  BY <1>7, <1>1, <1>2, <1>3, <1>4, <1>5, <1>6, SMT DEF UnpackPutAtt, Call, Announced
<1>9. Announced(f) = Packed(f)
  BY <1>8, SizeSum
<1> QED BY <1>8, <1>9 DEF ReadAs

(* cfio_send_def_var and cfio_recv_unpack_def_var, with an array of ids or    *)
(* without one.                                                            *)
THEOREM DefVarReadBack ==
  ASSUME NEW ncid, NEW name, NEW dimids \in Seq(Int), NEW varid
  PROVE  ReadAs(SendDefVar(ncid, name, dimids, varid), "def_var", ncid, varid, name, dimids, << >>)
<1>0. SUFFICES ASSUME NEW f, f = SendDefVar(ncid, name, dimids, varid)
               PROVE  ReadAs(f, "def_var", ncid, varid, name, dimids, << >>)
  OBVIOUS
<1>1. /\ Len(dimids) \in Nat
      /\ dimids = << >> <=> Len(dimids) = 0
  OBVIOUS
<1>2. CASE dimids = << >>
  <2>1. /\ DOMAIN f = 1 .. 8 /\ Len(f) = 8
        /\ f[1] = <<8, 34>> /\ f[2] = <<4, FuncCode["def_var"]>>
        /\ f[3] = <<4, ncid>> /\ f[4] = <<4, 2>> /\ f[5] = <<2, name>> /\ f[6] = <<4, 5>>
        /\ f[7] = <<4, 0>> /\ f[8] = <<4, varid>>
    BY <1>0, <1>1, <1>2, SMT DEF SendDefVar, Msg, PackData, PackStr, StrSize, ArraySize
  <2>2. Unpacked(f) = UnpackDefVar(f)
    <3>1. /\ "def_var" \in DOMAIN FuncCode /\ 2 \in DOMAIN f
          /\ f[2] = <<4, FuncCode["def_var"]>>
      BY <2>1 DEF FuncCode
    <3> QED BY <3>1, Handled, Zenon
  <2>3. /\ Data(f, 3, SizeofInt) = ncid /\ Data(f, 7, SizeofInt) = 0
        /\ Data(f, 8, SizeofInt) = varid
    <3>1. /\ 3 \in DOMAIN f /\ f[3][1] = SizeofInt /\ f[3][2] = ncid
          /\ 7 \in DOMAIN f /\ f[7][1] = SizeofInt /\ f[7][2] = 0
          /\ 8 \in DOMAIN f /\ f[8][1] = SizeofInt /\ f[8][2] = varid
      BY <2>1
    <3> QED BY <3>1, DataOf, Zenon
  <2>4. Str(f, 4) = name /\ StrRead(f, 4) = 6
    <3>1. /\ 4 \in Nat /\ 4 \in DOMAIN f /\ 4 + 1 \in DOMAIN f
          /\ f[4] = <<4, 2>> /\ f[4 + 1] = <<2, name>>
      BY <2>1
    <3> QED BY <3>1, StrOf, Zenon
  <2>5. \A k \in DOMAIN f : f[k][1] \in Nat
    BY <2>1
  <2>6. Unpacked(f) = [op |-> "def_var", nc |-> ncid, id |-> varid, name |-> name,
                       dims |-> dimids, data |-> << >>, read |-> Announced(f)]
    BY <1>2, <2>1, <2>2, <2>3, <2>4, SMT DEF UnpackDefVar, Call, Announced
  <2>7. Announced(f) = f[1][1] + f[2][1] + f[3][1] + f[4][1] + f[5][1] + f[6][1] + f[7][1] + f[8][1]
    BY <2>1, SMT DEF Announced
  <2>8. Announced(f) = Packed(f)
    BY <2>1, <2>5, <2>7, SizeSum
  <2> QED BY <2>6, <2>8 DEF ReadAs
<1>3. CASE dimids # << >>
  <2>1. /\ DOMAIN f = 1 .. 10 /\ Len(f) = 10
        /\ f[1] = <<8, 38 + Len(dimids) * 4>> /\ f[2] = <<4, FuncCode["def_var"]>>
        /\ f[3] = <<4, ncid>> /\ f[4] = <<4, 2>> /\ f[5] = <<2, name>> /\ f[6] = <<4, 5>>
        /\ f[7] = <<4, Len(dimids)>> /\ f[8] = <<4, Len(dimids)>>
        /\ f[9] = <<Len(dimids) * 4, dimids>> /\ f[10] = <<4, varid>>
    BY <1>0, <1>1, <1>3, SMT DEF SendDefVar, Msg, PackData, PackStr, PackArray, StrSize, ArraySize
  <2>2. Unpacked(f) = UnpackDefVar(f)
    <3>1. /\ "def_var" \in DOMAIN FuncCode /\ 2 \in DOMAIN f
          /\ f[2] = <<4, FuncCode["def_var"]>>
      BY <2>1 DEF FuncCode
    <3> QED BY <3>1, Handled, Zenon
  <2>3. /\ Data(f, 3, SizeofInt) = ncid /\ Data(f, 7, SizeofInt) = Len(dimids)
        /\ Data(f, 10, SizeofInt) = varid
    <3>1. /\ 3 \in DOMAIN f /\ f[3][1] = SizeofInt /\ f[3][2] = ncid
          /\ 7 \in DOMAIN f /\ f[7][1] = SizeofInt /\ f[7][2] = Len(dimids)
          /\ 10 \in DOMAIN f /\ f[10][1] = SizeofInt /\ f[10][2] = varid
      BY <2>1
    <3> QED BY <3>1, DataOf, Zenon
  <2>4. Str(f, 4) = name /\ StrRead(f, 4) = 6
    <3>1. /\ 4 \in Nat /\ 4 \in DOMAIN f /\ 4 + 1 \in DOMAIN f
          /\ f[4] = <<4, 2>> /\ f[4 + 1] = <<2, name>>
      BY <2>1
    <3> QED BY <3>1, StrOf, Zenon
  <2>5. Array(f, 8, 4) = dimids /\ ArrayRead(f, 8, 4) = 4 + Len(dimids) * 4
    <3>1. /\ 8 \in DOMAIN f /\ 8 + 1 \in DOMAIN f /\ f[8][1] = 4 /\ f[8][2] = Len(dimids)
          /\ f[8 + 1][1] = f[8][2] * 4 /\ f[8 + 1][2] = dimids
      BY <2>1
    <3>2. Data(f, 8, SizeofInt) = f[8][2]
      BY <3>1, DataOf, Zenon
    <3> QED BY <3>1, <3>2, Zenon DEF Array, ArrayRead
  <2>6. \A k \in DOMAIN f : f[k][1] \in Nat
    BY <1>1, <2>1
  <2>7. Unpacked(f) = [op |-> "def_var", nc |-> ncid, id |-> varid, name |-> name,
                       dims |-> dimids, data |-> << >>, read |-> Announced(f)]
    BY <1>1, <1>3, <2>1, <2>2, <2>3, <2>4, <2>5, SMTT(30) DEF UnpackDefVar, Call, Announced
  <2>8. Announced(f) = f[1][1] + f[2][1] + f[3][1] + f[4][1] + f[5][1] + f[6][1] + f[7][1] + f[8][1]
                         + f[9][1] + f[10][1]
    BY <1>1, <2>1, SMT DEF Announced
  <2>9. Announced(f) = Packed(f)
    BY <2>1, <2>6, <2>8, SizeSum
  <2> QED BY <2>7, <2>9 DEF ReadAs
<1> QED BY <1>2, <1>3

(* cfio_send_put_vara and cfio_recv_unpack_put_vara, for a place with any     *)
(* number of dimensions and data of any length.                            *)
THEOREM PutVaraReadBack ==
  ASSUME NEW ncid, NEW varid, NEW start \in Seq(Int), NEW count \in Seq(Int),
         NEW fp \in Seq(Int)
  PROVE  ReadAs(SendPutVara(ncid, varid, start, count, fp), "put_vara", ncid, varid, "", << >>, fp)
<1>0. SUFFICES ASSUME NEW f, f = SendPutVara(ncid, varid, start, count, fp)
               PROVE  ReadAs(f, "put_vara", ncid, varid, "", << >>, fp)
  OBVIOUS
<1>1. Len(start) \in Nat /\ Len(count) \in Nat /\ Len(fp) \in Nat
  OBVIOUS
<1>2. /\ DOMAIN f = 1 .. 11 /\ Len(f) = 11
      /\ f[1] = <<8, 36 + Len(start) * 8 + Len(count) * 8 + Len(fp) * 4>>
      /\ f[2] = <<4, FuncCode["put_vara"]>> /\ f[3] = <<4, ncid>> /\ f[4] = <<4, varid>>
      /\ f[5] = <<4, Len(start)>> /\ f[6] = <<Len(start) * 8, start>>
      /\ f[7] = <<4, Len(count)>> /\ f[8] = <<Len(count) * 8, count>>
      /\ f[9] = <<4, 5>> /\ f[10] = <<4, Len(fp)>> /\ f[11] = <<Len(fp) * 4, fp>>
  BY <1>1, <1>0, SMTT(30) DEF SendPutVara, Msg, PackData, PackArray, ArraySize
<1>3. Unpacked(f) = UnpackPutVara(f)
  <2>1. /\ "put_vara" \in DOMAIN FuncCode /\ 2 \in DOMAIN f
        /\ f[2] = <<4, FuncCode["put_vara"]>>
    BY <1>2 DEF FuncCode
  <2> QED BY <2>1, Handled, Zenon
<1>4. Data(f, 3, SizeofInt) = ncid /\ Data(f, 4, SizeofInt) = varid
  <2>1. /\ 3 \in DOMAIN f /\ f[3][1] = SizeofInt /\ f[3][2] = ncid
        /\ 4 \in DOMAIN f /\ f[4][1] = SizeofInt /\ f[4][2] = varid
    BY <1>2
  <2> QED BY <2>1, DataOf, Zenon
<1>5. ArrayRead(f, 5, 8) = 4 + Len(start) * 8
  <2>1. /\ 5 \in DOMAIN f /\ 5 + 1 \in DOMAIN f /\ f[5][1] = 4 /\ f[5][2] = Len(start)
        /\ f[5 + 1][1] = f[5][2] * 8
    BY <1>2, SMTT(30)
  <2>2. Data(f, 5, SizeofInt) = f[5][2]
    BY <2>1, DataOf, Zenon
  <2> QED BY <2>1, <2>2, Zenon DEF Array, ArrayRead
<1>6. ArrayRead(f, 7, 8) = 4 + Len(count) * 8
  <2>1. /\ 7 \in DOMAIN f /\ 7 + 1 \in DOMAIN f /\ f[7][1] = 4 /\ f[7][2] = Len(count)
        /\ f[7 + 1][1] = f[7][2] * 8
    BY <1>2, SMTT(30)
  <2>2. Data(f, 7, SizeofInt) = f[7][2]
    BY <2>1, DataOf, Zenon
  <2> QED BY <2>1, <2>2, Zenon DEF Array, ArrayRead
<1>7. Array(f, 10, 4) = fp /\ ArrayRead(f, 10, 4) = 4 + Len(fp) * 4
  <2>1. /\ 10 \in DOMAIN f /\ 10 + 1 \in DOMAIN f /\ f[10][1] = 4 /\ f[10][2] = Len(fp)
        /\ f[10 + 1][1] = f[10][2] * 4 /\ f[10 + 1][2] = fp
    BY <1>2, SMTT(30)
  <2>2. Data(f, 10, SizeofInt) = f[10][2]
    BY <2>1, DataOf, Zenon
  <2> QED BY <2>1, <2>2, Zenon DEF Array, ArrayRead
<1>8. Announced(f) = f[1][1] + f[2][1] + f[3][1] + f[4][1] + f[5][1] + f[6][1] + f[7][1]
                       + f[8][1] + f[9][1] + f[10][1] + f[11][1]
  BY <1>1, <1>2, SMTT(30) DEF Announced
<1>9. SizeofSizeT + SizeofInt + (SizeofInt + SizeofInt + ArrayRead(f, 5, 8)
        + ArrayRead(f, 7, 8) + SizeofInt + ArrayRead(f, 10, 4)) = Announced(f)
  <2>1. Announced(f) = 36 + Len(start) * 8 + Len(count) * 8 + Len(fp) * 4
    BY <1>2 DEF Announced
  <2> QED BY <1>1, <1>5, <1>6, <1>7, <2>1, SMT
<1>10. \A k \in DOMAIN f : f[k][1] \in Nat
  BY <1>1, <1>2, SMTT(30)
<1>11. /\ Announced(f) = f[1][1] + f[2][1] + f[3][1] + f[4][1] + f[5][1] + f[6][1] + f[7][1]
                           + f[8][1] + f[9][1] + f[10][1] + f[11][1]
       /\ DOMAIN f = 1 .. 11 /\ \A k \in DOMAIN f : f[k][1] \in Nat
       /\ Unpacked(f) = [op |-> "put_vara", nc |-> ncid, id |-> varid, name |-> "",
                         dims |-> << >>, data |-> fp, read |-> Announced(f)]
  BY <1>2, <1>3, <1>4, <1>7, <1>8, <1>9, <1>10, Zenon DEF UnpackPutVara, Call
<1>12. Announced(f) = Packed(f)
  BY <1>11, SizeSum
<1> QED BY <1>11, <1>12 DEF ReadAs

HIDE DEF SizeofInt, SizeofSizeT, SizeofFloat, NameSize

-------------------------------------------------------------------------------
(***************************************************************************)
(* The tables of ids of a client are a matter of the calls it has made.     *)
(***************************************************************************)

(* Functions on a part of D. *)
Partial(D, R) == UNION {[d -> R] : d \in SUBSET D}

EntryType == [dims : Seq(Nat), atts : Seq(Nat)]
OpenFile  == [path : Paths, dims : Seq(DimNames), vars : Seq(VarNames),
              entries : Partial(Int, EntryType)]
Tables    == [open : Nat, nc : Partial(Nat, OpenFile)]
Empty     == [open |-> 0, nc |-> EmptyFcn]

(* Names are never given to two files, and variables have entries. *)
TableOk(t) ==
  /\ t \in Tables /\ DOMAIN t.nc \subseteq 1..t.open
  /\ \A m, n \in DOMAIN t.nc : t.nc[m].path = t.nc[n].path => m = n
  /\ \A n \in DOMAIN t.nc : DOMAIN t.nc[n].entries = {GlobalId} \cup DOMAIN t.nc[n].vars

NcOf(t, path) == CHOOSE n \in DOMAIN t.nc : t.nc[n].path = path

VarOf(t, nc, name) == IF name = Global THEN GlobalId ELSE Id(t.nc[nc].vars, name)

(* What a call, the k-th of the program, makes of the table ... *)
Created(t, call) ==
  [open |-> t.open + 1,
   nc |-> With(t.nc, t.open + 1, [path |-> call.path, dims |-> << >>, vars |-> << >>,
                                  entries |-> With(EmptyFcn, GlobalId, NewEntry(<< >>))])]

DimDefined(t, call) ==
  LET nc == NcOf(t, call.path)
  IN  [t EXCEPT !.nc[nc].dims = Assign(@, call.name)]

DimIds(t, call) ==
  LET nc == NcOf(t, call.path)
  IN  [i \in DOMAIN call.dims |-> Id(t.nc[nc].dims, call.dims[i])]

VarDefined(t, call) ==
  LET nc == NcOf(t, call.path)
      vs == Assign(t.nc[nc].vars, call.name)
      changed == [t.nc[nc] EXCEPT !.vars = vs,
                                  !.entries = Entered(@, Id(vs, call.name), DimIds(t, call))]
  IN  [t EXCEPT !.nc[nc] = changed]

AttPut(t, call, k) ==
  LET nc == NcOf(t, call.path)
  IN  [t EXCEPT !.nc[nc].entries[VarOf(t, nc, call.name)].atts = Append(@, k)]

FileClosed(t, call) == [t EXCEPT !.nc = Without(@, NcOf(t, call.path))]

After(t, call, k) ==
  CASE call.op = "create"  -> Created(t, call)
    [] call.op = "def_dim" -> DimDefined(t, call)
    [] call.op = "def_var" -> VarDefined(t, call)
    [] call.op = "put_att" -> AttPut(t, call, k)
    [] call.op = "close"   -> FileClosed(t, call)
    [] OTHER               -> t

(* ... and the message it sends. *)
Sent(t, call, k) ==
  LET nc == NcOf(t, call.path)
      id == VarOf(t, nc, call.name)
      dims == t.nc[nc].entries[id].dims
      list == Assign(t.nc[nc].dims, call.name)
      vs == Assign(t.nc[nc].vars, call.name)
  IN  CASE call.op = "create"   -> SendCreate(call.path, t.open + 1)
        [] call.op = "def_dim"  -> SendDefDim(nc, call.name, Id(list, call.name))
        [] call.op = "def_var"  -> SendDefVar(nc, call.name, DimIds(t, call), Id(vs, call.name))
        [] call.op = "put_att"  -> SendPutAtt(nc, id, "a", <<k>>)
        [] call.op = "put_vara" -> SendPutVara(nc, id, [d \in DOMAIN dims |-> 0],
                                               [d \in DOMAIN dims |-> 1], <<k>>)
        [] OTHER                -> SendNcid(call.op, nc)

Ops == {"create", "def_dim", "def_var", "put_att", "put_vara", "enddef", "close"}

\* A client makes a call: its table and its message are those above.
LEMMA CallMade ==
  ASSUME NEW c \in Clients, NEW call, names \in [Clients -> Tables],
         \/ Create(c, call) \/ DefDim(c, call) \/ DefVar(c, call)
         \/ PutAtt(c, call) \/ Enddef(c, call) \/ PutVara(c, call) \/ Close(c, call)
  PROVE  /\ call.op \in Ops
         /\ names' = [names EXCEPT ![c] = After(names[c], call, made[c] + 1)]
         /\ inbox' = [inbox EXCEPT ![c] = Append(@, Sent(names[c], call, made[c] + 1))]
<1> DEFINE t == names[c]
           nc == NcOf(t, call.path)
<1>0. Nc(c, call.path) = nc
  BY DEF Nc, NcOf
<1>1. CASE Create(c, call)
  <2>1. After(t, call, made[c] + 1) = Created(t, call)
    BY <1>1 DEF Create, After
  <2>2. Sent(t, call, made[c] + 1) = SendCreate(call.path, t.open + 1)
    BY <1>1 DEF Create, Sent
  <2>3. QED
    BY <1>1, <2>1, <2>2 DEF Create, Created, Send, Ops
<1>2. CASE DefDim(c, call)
  <2>1. After(t, call, made[c] + 1) = DimDefined(t, call)
    BY <1>2 DEF DefDim, After
  <2>2. Sent(t, call, made[c] + 1)
          = SendDefDim(nc, call.name, Id(Assign(t.nc[nc].dims, call.name), call.name))
    BY <1>2 DEF DefDim, Sent
  <2>3. names' = [names EXCEPT ![c] = DimDefined(t, call)]
    BY <1>0, <1>2 DEF DefDim, DimDefined
  <2>4. QED
    BY <1>0, <1>2, <2>1, <2>2, <2>3 DEF DefDim, Send, Ops
<1>3. CASE DefVar(c, call)
  <2>1. After(t, call, made[c] + 1) = VarDefined(t, call)
    BY <1>3 DEF DefVar, After
  <2>2. Sent(t, call, made[c] + 1)
          = SendDefVar(nc, call.name, DimIds(t, call), Id(Assign(t.nc[nc].vars, call.name), call.name))
    BY <1>3 DEF DefVar, Sent
  <2>3. names' = [names EXCEPT ![c] = VarDefined(t, call)]
    <3>1. PICK g : g = [t.nc[nc] EXCEPT
                          !.vars = Assign(t.nc[nc].vars, call.name),
                          !.entries = Entered(@, Id(Assign(t.nc[nc].vars, call.name), call.name),
                                              DimIds(t, call))]
      OBVIOUS
    <3>2. names' = [names EXCEPT ![c].nc[nc] = g]
      BY <1>0, <1>3, <3>1, Zenon DEF DefVar, DimIds
    <3>3. VarDefined(t, call) = [t EXCEPT !.nc[nc] = g]
      BY <3>1, Zenon DEF VarDefined
    <3>4. QED
      BY <3>2, <3>3
  <2>4. QED
    BY <1>0, <1>3, <2>1, <2>2, <2>3 DEF DefVar, Send, Ops, DimIds
<1>4. CASE PutAtt(c, call)
  <2>0. VarId(c, nc, call.name) = VarOf(t, nc, call.name)
    BY DEF VarId, VarOf
  <2>1. After(t, call, made[c] + 1) = AttPut(t, call, made[c] + 1)
    BY <1>4 DEF PutAtt, After
  <2>2. Sent(t, call, made[c] + 1) = SendPutAtt(nc, VarOf(t, nc, call.name), "a", <<made[c] + 1>>)
    BY <1>4 DEF PutAtt, Sent
  <2>3. names' = [names EXCEPT ![c] = AttPut(t, call, made[c] + 1)]
    BY <1>0, <1>4, <2>0 DEF PutAtt, AttPut
  <2>4. QED
    BY <1>0, <1>4, <2>0, <2>1, <2>2, <2>3 DEF PutAtt, Send, Ops, CallData
<1>5. CASE Enddef(c, call)
  <2>1. After(t, call, made[c] + 1) = t /\ Sent(t, call, made[c] + 1) = SendNcid("enddef", nc)
    BY <1>5 DEF Enddef, After, Sent
  <2>2. QED
    BY <1>0, <1>5, <2>1 DEF Enddef, Send, Ops
<1>6. CASE PutVara(c, call)
  <2>0. VarId(c, nc, call.name) = VarOf(t, nc, call.name)
    BY DEF VarId, VarOf
  <2> DEFINE dims == t.nc[nc].entries[VarOf(t, nc, call.name)].dims
  <2>1. /\ After(t, call, made[c] + 1) = t
        /\ Sent(t, call, made[c] + 1)
             = SendPutVara(nc, VarOf(t, nc, call.name), [d \in DOMAIN dims |-> 0],
                           [d \in DOMAIN dims |-> 1], <<made[c] + 1>>)
    BY <1>6 DEF PutVara, After, Sent
  <2>2. QED
    BY <1>0, <1>6, <2>0, <2>1 DEF PutVara, Send, Ops, CallData
<1>7. CASE Close(c, call)
  <2>1. /\ After(t, call, made[c] + 1) = FileClosed(t, call)
        /\ Sent(t, call, made[c] + 1) = SendNcid("close", nc)
    BY <1>7 DEF Close, After, Sent
  <2>2. names' = [names EXCEPT ![c] = FileClosed(t, call)]
    BY <1>0, <1>7 DEF Close, FileClosed
  <2>3. QED
    BY <1>0, <1>7, <2>1, <2>2 DEF Close, Send, Ops
<1>8. QED
  BY <1>1, <1>2, <1>3, <1>4, <1>5, <1>6, <1>7

(* A call that fits a table: it is on an open file, and what it names is     *)
(* defined there.                                                          *)
Has(list, name) == \E i \in DOMAIN list : list[i] = name

Fits(t, call) ==
  /\ call.op \in Ops /\ call.path \in Paths
  /\ IF call.op = "create" THEN \A n \in DOMAIN t.nc : t.nc[n].path # call.path
                           ELSE \E n \in DOMAIN t.nc : t.nc[n].path = call.path
  /\ call.op = "def_dim" => call.name \in DimNames
  /\ call.op = "def_var" => /\ call.name \in VarNames /\ call.dims \in Seq(DimNames)
                            /\ \A i \in DOMAIN call.dims :
                                 Has(t.nc[NcOf(t, call.path)].dims, call.dims[i])
  /\ call.op = "put_att" =>
       call.name = Global \/ Has(t.nc[NcOf(t, call.path)].vars, call.name)
  /\ call.op = "put_vara" =>
       call.name # Global /\ Has(t.nc[NcOf(t, call.path)].vars, call.name)

(* A table that agrees with the calls so far.                               *)
Sound(t, prog) ==
  /\ \A p \in Paths : (\E n \in DOMAIN t.nc : t.nc[n].path = p)
                        <=> Did(prog, "create", p) /\ ~Did(prog, "close", p)
  /\ \A n \in DOMAIN t.nc :
       /\ \A d \in Named(prog, "def_dim", t.nc[n].path) : Has(t.nc[n].dims, d)
       /\ \A v \in Named(prog, "def_var", t.nc[n].path) : Has(t.nc[n].vars, v) /\ v \in VarNames
  /\ \A i \in DOMAIN prog : Did(prog, "create", prog[i].path)

\* The id of an open file, and that of a name in a list.
LEMMA OpenId ==
  ASSUME NEW t, NEW path, \E n \in DOMAIN t.nc : t.nc[n].path = path
  PROVE  NcOf(t, path) \in DOMAIN t.nc /\ t.nc[NcOf(t, path)].path = path
BY DEF NcOf

\* The parts of an open file.
LEMMA OpenTyped ==
  ASSUME NEW t \in Tables, NEW n \in DOMAIN t.nc
  PROVE  /\ n \in Nat /\ t.nc[n] \in OpenFile /\ t.open \in Nat
         /\ t.nc[n].path \in Paths /\ t.nc[n].dims \in Seq(DimNames) /\ t.nc[n].vars \in Seq(VarNames)
         /\ t.nc[n].entries \in Partial(Int, EntryType)
<1>1. t.open \in Nat /\ t.nc \in Partial(Nat, OpenFile)
  BY DEF Tables
<1>2. PICK D \in SUBSET Nat : t.nc \in [D -> OpenFile]
  BY <1>1 DEF Partial
<1>3. n \in Nat /\ t.nc[n] \in OpenFile
  BY <1>2
<1>4. QED
  BY <1>1, <1>3 DEF OpenFile

\* The id of a name in a list.
LEMMA NameId ==
  ASSUME NEW list, NEW name, Has(list, name)
  PROVE  Id(list, name) \in DOMAIN list /\ list[Id(list, name)] = name
BY DEF Id, Has

\* A name that is assigned an id has one, and others keep theirs.
LEMMA Assigned ==
  ASSUME NEW S, NEW list \in Seq(S), NEW name \in S
  PROVE  /\ Assign(list, name) \in Seq(S) /\ Has(Assign(list, name), name)
         /\ \A i \in DOMAIN list : i \in DOMAIN Assign(list, name) /\ Assign(list, name)[i] = list[i]
         /\ Has(list, name) => Assign(list, name) = list
         /\ ~Has(list, name) => /\ Assign(list, name) = Append(list, name)
                                /\ Id(Assign(list, name), name) = Len(list) + 1
         /\ DOMAIN Assign(list, name)
              = DOMAIN list \cup {Id(Assign(list, name), name)}
<1>1. Contains(list, name) <=> Has(list, name)
  BY DEF Contains, Has
<1>2. CASE Has(list, name)
  <2>1. Assign(list, name) = list
    BY <1>1, <1>2 DEF Assign
  <2>2. QED
    BY <1>2, <2>1, NameId
<1>3. CASE ~Has(list, name)
  <2> DEFINE more == Append(list, name)
  <2>1. Assign(list, name) = more
    BY <1>1, <1>3 DEF Assign
  <2>2. /\ more \in Seq(S) /\ DOMAIN more = DOMAIN list \cup {Len(list) + 1} /\ Len(list) + 1 \notin DOMAIN list
        /\ more[Len(list) + 1] = name /\ \A i \in DOMAIN list : more[i] = list[i]
    OBVIOUS
  <2> HIDE DEF more
  <2>3. Has(more, name)
    BY <2>2 DEF Has
  <2>4. Id(more, name) = Len(list) + 1
    <3>1. Id(more, name) \in DOMAIN more /\ more[Id(more, name)] = name
      BY <2>3, NameId, Zenon
    <3>2. Id(more, name) \notin DOMAIN list
      BY <1>3, <2>2, <3>1, Zenon DEF Has
    <3>3. QED
      BY <2>2, <3>1, <3>2, Zenon
  <2>5. QED
    BY <1>3, <2>1, <2>2, <2>3, <2>4 DEF more
<1>4. QED
  BY <1>2, <1>3

\* The calls of a longer program.
LEMMA MoreCalls ==
  ASSUME NEW S, NEW prog \in Seq(S), NEW call \in S
  PROVE  /\ \A op, p : Did(Append(prog, call), op, p)
                         <=> Did(prog, op, p) \/ (call.op = op /\ call.path = p)
         /\ \A op, p : \A x \in Named(Append(prog, call), op, p) :
              x \in Named(prog, op, p) \/ (call.op = op /\ call.path = p /\ x = call.name)
<1> DEFINE more == Append(prog, call)
<1>1. /\ DOMAIN more = DOMAIN prog \cup {Len(prog) + 1}
      /\ more[Len(prog) + 1] = call /\ \A i \in DOMAIN prog : more[i] = prog[i]
  OBVIOUS
<1> HIDE DEF more
<1>2. \A op, p : Did(more, op, p) <=> Did(prog, op, p) \/ (call.op = op /\ call.path = p)
  BY <1>1 DEF Did
<1>3. \A op, p : \A x \in Named(more, op, p) :
        x \in Named(prog, op, p) \/ (call.op = op /\ call.path = p /\ x = call.name)
  BY <1>1 DEF Named
<1>4. QED
  BY <1>2, <1>3 DEF more

\* The calls a program may make fit its tables.
LEMMA ProgramFits ==
  ASSUME NEW t, NEW prog, TableOk(t), Sound(t, prog), NEW call \in ProgramCalls(prog)
  PROVE  /\ Fits(t, call) /\ call = CallOf(call.op, call.path, call.name, call.dims)
         /\ call.op = "create" => ~Did(prog, "create", call.path)
         /\ call.op # "create" => Did(prog, "create", call.path)
<1>1. CASE call \in {CallOf("create", p, "", << >>) : p \in {q \in Paths : ~Did(prog, "create", q)}}
  <2>1. PICK p \in Paths : ~Did(prog, "create", p) /\ call = CallOf("create", p, "", << >>)
    BY <1>1
  <2>2. call.op = "create" /\ call.path = p /\ call = CallOf(call.op, call.path, call.name, call.dims)
    BY <2>1 DEF CallOf
  <2>3. QED
    BY <2>1, <2>2 DEF Fits, Sound, Ops
<1>2. CASE \E p \in Paths : Did(prog, "create", p) /\ ~Did(prog, "close", p) /\ call \in CallsOn(prog, p)
  <2>1. PICK p \in Paths : Did(prog, "create", p) /\ ~Did(prog, "close", p) /\ call \in CallsOn(prog, p)
    BY <1>2
  <2> DEFINE n == NcOf(t, p)
  <2>2. n \in DOMAIN t.nc /\ t.nc[n].path = p /\ \E m \in DOMAIN t.nc : t.nc[m].path = p
    BY <2>1, OpenId DEF Sound
  <2> HIDE DEF n
  <2>3. /\ \A d \in Named(prog, "def_dim", p) : Has(t.nc[n].dims, d)
        /\ \A v \in Named(prog, "def_var", p) : Has(t.nc[n].vars, v) /\ v \in VarNames
    BY <2>2 DEF Sound
  <2>4. t.nc[n].dims \in Seq(DimNames)
    BY <2>2, OpenTyped DEF TableOk
  <2> DEFINE Calls1 == {CallOf("def_dim", p, d, << >>) : d \in DimNames}
             Calls2 == {CallOf("def_var", p, v, ds) : v \in VarNames,
                          ds \in {<< >>} \cup {<<d>> : d \in Named(prog, "def_dim", p)}}
             Calls3 == {CallOf("put_att", p, v, << >>) : v \in Named(prog, "def_var", p) \cup {Global}}
             Calls4 == {CallOf("put_vara", p, v, << >>) : v \in Named(prog, "def_var", p)}
             Good == /\ call.path = p /\ call.op \in Ops /\ call.op # "create"
                     /\ call = CallOf(call.op, call.path, call.name, call.dims)
                     /\ call.op = "def_dim" => call.name \in DimNames
                     /\ call.op = "def_var" => /\ call.name \in VarNames /\ call.dims \in Seq(DimNames)
                                               /\ \A i \in DOMAIN call.dims : Has(t.nc[n].dims, call.dims[i])
                     /\ call.op = "put_att" => call.name = Global \/ Has(t.nc[n].vars, call.name)
                     /\ call.op = "put_vara" => call.name # Global /\ Has(t.nc[n].vars, call.name)
  <2>5. \/ call \in Calls1 \/ call \in Calls2 \/ call \in Calls3 \/ call \in Calls4
        \/ call = CallOf("enddef", p, "", << >>) \/ call = CallOf("close", p, "", << >>)
    <3> DEFINE define == Defining(prog, p) \/ "late" \in Misuse
               data == ~Defining(prog, p) \/ "early" \in Misuse
               vars0 == Named(prog, "def_var", p)
               D1 == {CallOf("def_dim", p, d, << >>) : d \in IF define THEN DimNames ELSE {}}
               D2 == {CallOf("def_var", p, v, ds) : v \in IF define THEN VarNames ELSE {},
                          ds \in {<< >>} \cup {<<d>> : d \in Named(prog, "def_dim", p)}}
               D3 == {CallOf("put_att", p, v, << >>) : v \in IF define THEN vars0 \cup {Global} ELSE {}}
               D4 == {CallOf("put_vara", p, v, << >>) : v \in IF data THEN vars0 ELSE {}}
               D5 == {CallOf("enddef", p, "", << >>)}
               D6 == {CallOf("close", p, "", << >>) : r \in {q \in {p} : ~Defining(prog, q)}}
    <3>1. CallsOn(prog, p) = D1 \cup D2 \cup D3 \cup D4 \cup D5 \cup D6
      BY DEF CallsOn
    <3>2. D1 \subseteq Calls1 /\ D2 \subseteq Calls2 /\ D3 \subseteq Calls3 /\ D4 \subseteq Calls4
      <4> HIDE DEF define, data
      <4>1. D1 \subseteq Calls1
        BY Zenon
      <4>2. D2 \subseteq Calls2
        OBVIOUS
      <4>3. D3 \subseteq Calls3
        OBVIOUS
      <4>4. D4 \subseteq Calls4
        OBVIOUS
      <4>5. QED
        BY <4>1, <4>2, <4>3, <4>4
    <3>3. D5 \subseteq {CallOf("enddef", p, "", << >>)} /\ D6 \subseteq {CallOf("close", p, "", << >>)}
      OBVIOUS
    <3> HIDE DEF D1, D2, D3, D4, D5, D6, Calls1, Calls2, Calls3, Calls4
    <3>4. QED
      BY <2>1, <3>1, <3>2, <3>3
  <2>6. ASSUME call \in Calls1 PROVE Good
    <3>1. PICK d \in DimNames : call = CallOf("def_dim", p, d, << >>)
      BY <2>6
    <3>2. call.op = "def_dim" /\ call.path = p /\ call.name = d /\ call.dims = << >>
      BY <3>1 DEF CallOf
    <3>5. call = CallOf(call.op, call.path, call.name, call.dims)
      BY <3>1, <3>2, Zenon
    <3>3. QED
      BY <3>2, <3>5 DEF Ops
  <2>7. ASSUME call \in Calls2 PROVE Good
    <3>1. PICK v \in VarNames, ds \in {<< >>} \cup {<<d>> : d \in Named(prog, "def_dim", p)} :
            call = CallOf("def_var", p, v, ds)
      BY <2>7
    <3>2. call.op = "def_var" /\ call.path = p /\ call.name = v /\ call.dims = ds
      BY <3>1 DEF CallOf
    <3>3. ds \in Seq(DimNames) /\ \A i \in DOMAIN ds : Has(t.nc[n].dims, ds[i])
      <4>1. CASE ds = << >>
        BY <4>1
      <4>2. ASSUME NEW d \in Named(prog, "def_dim", p), ds = <<d>>
            PROVE  ds \in Seq(DimNames) /\ \A i \in DOMAIN ds : Has(t.nc[n].dims, ds[i])
        <5>1. Has(t.nc[n].dims, d)
          BY <2>3
        <5>2. d \in DimNames
          BY <2>4, <5>1 DEF Has
        <5>3. QED
          BY <4>2, <5>1, <5>2
      <4>3. QED
        BY <3>1, <4>1, <4>2
    <3>5. call = CallOf(call.op, call.path, call.name, call.dims)
      BY <3>1, <3>2, Zenon
    <3>4. QED
      BY <3>1, <3>2, <3>3, <3>5 DEF Ops
  <2>8. ASSUME call \in Calls3 PROVE Good
    <3>1. PICK v \in Named(prog, "def_var", p) \cup {Global} : call = CallOf("put_att", p, v, << >>)
      BY <2>8
    <3>2. call.op = "put_att" /\ call.path = p /\ call.name = v /\ call.dims = << >>
      BY <3>1 DEF CallOf
    <3>3. v = Global \/ Has(t.nc[n].vars, v)
      BY <2>3
    <3>5. call = CallOf(call.op, call.path, call.name, call.dims)
      BY <3>1, <3>2, Zenon
    <3>4. QED
      BY <3>1, <3>2, <3>3, <3>5 DEF Ops
  <2>9. ASSUME call \in Calls4 PROVE Good
    <3>1. PICK v \in Named(prog, "def_var", p) : call = CallOf("put_vara", p, v, << >>)
      BY <2>9
    <3>2. call.op = "put_vara" /\ call.path = p /\ call.name = v /\ call.dims = << >>
      BY <3>1 DEF CallOf
    <3>3. v # Global /\ Has(t.nc[n].vars, v)
      BY <2>3, ProgramAssumption
    <3>5. call = CallOf(call.op, call.path, call.name, call.dims)
      BY <3>1, <3>2, Zenon
    <3>4. QED
      BY <3>1, <3>2, <3>3, <3>5 DEF Ops
  <2>10. ASSUME call = CallOf("enddef", p, "", << >>) \/ call = CallOf("close", p, "", << >>)
         PROVE  Good
    <3>1. PICK op \in {"enddef", "close"} : call = CallOf(op, p, "", << >>)
      BY <2>10
    <3>2. call.op = op /\ call.path = p /\ call.name = "" /\ call.dims = << >>
      BY <3>1 DEF CallOf
    <3>3. call = CallOf(call.op, call.path, call.name, call.dims)
      BY <3>1, <3>2, Zenon
    <3>4. QED
      BY <3>2, <3>3 DEF Ops
  <2> HIDE DEF Good, Calls1, Calls2, Calls3, Calls4
  <2>11. Good
    BY <2>5, <2>6, <2>7, <2>8, <2>9, <2>10
  <2>12. Fits(t, call)
    BY <2>1, <2>2, <2>11 DEF Fits, n, Good
  <2>13. QED
    BY <2>1, <2>11, <2>12 DEF Good
<1>3. QED
  BY <1>1, <1>2 DEF ProgramCalls

\* Entering into and removing from a table.
LEMMA WithIs ==
  ASSUME NEW f, NEW x, NEW v
  PROVE  /\ DOMAIN With(f, x, v) = DOMAIN f \cup {x} /\ With(f, x, v)[x] = v
         /\ \A y \in DOMAIN f : y # x => With(f, x, v)[y] = f[y]
BY DEF With

\* The same for partial functions.
LEMMA WithTyped ==
  ASSUME NEW D, NEW R, NEW f \in Partial(D, R), NEW x \in D, NEW v \in R
  PROVE  With(f, x, v) \in Partial(D, R)
<1>1. PICK E \in SUBSET D : f \in [E -> R]
  BY DEF Partial
<1>2. With(f, x, v) \in [E \cup {x} -> R]
  BY <1>1 DEF With
<1>3. E \cup {x} \in SUBSET D
  OBVIOUS
<1>4. QED
  BY <1>2, <1>3 DEF Partial

\* A function without one of its arguments.
LEMMA WithoutIs ==
  ASSUME NEW f, NEW x
  PROVE  /\ DOMAIN Without(f, x) = DOMAIN f \ {x}
         /\ \A y \in DOMAIN f : y # x => Without(f, x)[y] = f[y]
BY DEF Without

\* The same for partial functions.
LEMMA WithoutTyped ==
  ASSUME NEW D, NEW R, NEW f \in Partial(D, R), NEW x
  PROVE  Without(f, x) \in Partial(D, R)
<1>1. PICK E \in SUBSET D : f \in [E -> R]
  BY DEF Partial
<1>2. Without(f, x) \in [E \ {x} -> R]
  BY <1>1 DEF Without
<1>3. E \ {x} \in SUBSET D
  OBVIOUS
<1>4. QED
  BY <1>2, <1>3 DEF Partial

\* A partial function with one value changed.
LEMMA ExceptTyped ==
  ASSUME NEW D, NEW R, NEW f \in Partial(D, R), NEW x \in DOMAIN f, NEW v \in R
  PROVE  /\ [f EXCEPT ![x] = v] \in Partial(D, R) /\ DOMAIN [f EXCEPT ![x] = v] = DOMAIN f
         /\ [f EXCEPT ![x] = v][x] = v /\ \A y \in DOMAIN f : y # x => [f EXCEPT ![x] = v][y] = f[y]
<1>1. PICK E \in SUBSET D : f \in [E -> R]
  BY DEF Partial
<1>2. [f EXCEPT ![x] = v] \in [E -> R]
  BY <1>1
<1>3. [f EXCEPT ![x] = v] \in Partial(D, R)
  BY <1>2 DEF Partial
<1>4. QED
  BY <1>1, <1>3

\* The values of a partial function.
LEMMA PartialValue ==
  ASSUME NEW D, NEW R, NEW f \in Partial(D, R)
  PROVE  DOMAIN f \subseteq D /\ \A x \in DOMAIN f : f[x] \in R
<1>1. PICK E \in SUBSET D : f \in [E -> R]
  BY DEF Partial
<1>2. QED
  BY <1>1

\* The empty function.
LEMMA EmptyTyped ==
  ASSUME NEW D, NEW R
  PROVE  EmptyFcn \in Partial(D, R) /\ DOMAIN EmptyFcn = {}
<1>1. EmptyFcn \in [{} -> R] /\ DOMAIN EmptyFcn = {}
  BY DEF EmptyFcn
<1>2. QED
  BY <1>1 DEF Partial

\* A table with one file changed.
LEMMA FileChanged ==
  ASSUME NEW t, TableOk(t), NEW n \in DOMAIN t.nc, NEW g \in OpenFile, g.path = t.nc[n].path,
         DOMAIN g.entries = {GlobalId} \cup DOMAIN g.vars,
         NEW u, u = [t EXCEPT !.nc[n] = g]
  PROVE  /\ TableOk(u) /\ u.open = t.open /\ DOMAIN u.nc = DOMAIN t.nc /\ u.nc[n] = g
         /\ \A m \in DOMAIN t.nc : m # n => u.nc[m] = t.nc[m]
<1>1. t \in Tables /\ t.open \in Nat /\ t.nc \in Partial(Nat, OpenFile)
  BY DEF TableOk, Tables
<1>2. PICK nc : nc = [t.nc EXCEPT ![n] = g]
  OBVIOUS
<1>3. u = [t EXCEPT !.nc = nc] /\ u.nc = nc /\ u.open = t.open
  BY <1>1, <1>2 DEF Tables
<1>4. /\ nc \in Partial(Nat, OpenFile) /\ DOMAIN nc = DOMAIN t.nc /\ nc[n] = g
      /\ \A m \in DOMAIN t.nc : m # n => nc[m] = t.nc[m]
  BY <1>1, <1>2, ExceptTyped
<1>5. u \in Tables
  BY <1>1, <1>3, <1>4 DEF Tables
<1>6. QED
  BY <1>3, <1>4, <1>5 DEF TableOk

\* The file a call is on.
LEMMA CallFile ==
  ASSUME NEW t, TableOk(t), NEW call, Fits(t, call), call.op # "create"
  PROVE  /\ NcOf(t, call.path) \in DOMAIN t.nc /\ t.nc[NcOf(t, call.path)].path = call.path
         /\ \A n \in DOMAIN t.nc : t.nc[n].path = call.path => n = NcOf(t, call.path)
BY OpenId DEF Fits, TableOk

\* A file is created under the next id.
LEMMA CreateAfter ==
  ASSUME NEW t, TableOk(t), NEW call, Fits(t, call), call.op = "create", NEW k \in Nat,
         NEW u, u = After(t, call, k)
  PROVE  /\ TableOk(u) /\ u.open = t.open + 1 /\ DOMAIN u.nc = DOMAIN t.nc \cup {t.open + 1}
         /\ t.open + 1 \notin DOMAIN t.nc
         /\ u.nc[t.open + 1].path = call.path
         /\ u.nc[t.open + 1].dims = << >> /\ u.nc[t.open + 1].vars = << >>
         /\ \A m \in DOMAIN t.nc : u.nc[m] = t.nc[m]
<1>a. PICK e : e = With(EmptyFcn, GlobalId, NewEntry(<< >>))
  OBVIOUS
<1>b. PICK g : g = [path |-> call.path, dims |-> << >>, vars |-> << >>, entries |-> e]
  OBVIOUS
<1>c. PICK nc : nc = With(t.nc, t.open + 1, g)
  OBVIOUS
<1>1. t \in Tables /\ t.open \in Nat /\ t.nc \in Partial(Nat, OpenFile) /\ DOMAIN t.nc \subseteq 1..t.open
  BY DEF TableOk, Tables
<1>2. u = [open |-> t.open + 1, nc |-> nc]
  BY <1>a, <1>b, <1>c DEF After, Created
<1>3. e \in Partial(Int, EntryType) /\ DOMAIN e = {GlobalId}
  <2>1. NewEntry(<< >>) \in EntryType
    BY DEF NewEntry, EntryType
  <2>2. GlobalId \in Int
    BY DEF GlobalId
  <2>3. EmptyFcn \in Partial(Int, EntryType) /\ DOMAIN EmptyFcn = {}
    BY EmptyTyped, Zenon
  <2>4. With(EmptyFcn, GlobalId, NewEntry(<< >>)) \in Partial(Int, EntryType)
    BY <2>1, <2>2, <2>3, WithTyped, Zenon
  <2>5. DOMAIN With(EmptyFcn, GlobalId, NewEntry(<< >>)) = {} \cup {GlobalId}
    BY <2>3, WithIs, Zenon
  <2>6. QED
    BY <1>a, <2>4, <2>5
<1>4. call.path \in Paths
  BY DEF Fits
<1>5. g \in OpenFile
  BY <1>3, <1>4, <1>b DEF OpenFile
<1>6. nc \in Partial(Nat, OpenFile)
  <2>1. t.open + 1 \in Nat
    BY <1>1
  <2>2. QED
    BY <1>1, <1>5, <1>c, <2>1, WithTyped, Zenon
<1>7. /\ DOMAIN nc = DOMAIN t.nc \cup {t.open + 1} /\ nc[t.open + 1] = g
      /\ \A m \in DOMAIN t.nc : m # t.open + 1 => nc[m] = t.nc[m]
  BY <1>c DEF With
<1>8. g.path = call.path /\ g.dims = << >> /\ g.vars = << >> /\ g.entries = e
  BY <1>b
<1>9. t.open + 1 \notin DOMAIN t.nc /\ u.open = t.open + 1 /\ u.nc = nc /\ t.open + 1 \in Nat
  BY <1>1, <1>2
<1>10. u \in Tables
  BY <1>2, <1>6, <1>9 DEF Tables
<1>11. \A n \in DOMAIN t.nc : t.nc[n].path # call.path
  BY DEF Fits
<1>12. \A m, n \in DOMAIN u.nc : u.nc[m].path = u.nc[n].path => m = n
  BY <1>7, <1>8, <1>9, <1>11 DEF TableOk
<1>13. \A n \in DOMAIN u.nc : DOMAIN u.nc[n].entries = {GlobalId} \cup DOMAIN u.nc[n].vars
  <2>1. DOMAIN << >> = {}
    OBVIOUS
  <2>2. QED
    BY <1>3, <1>7, <1>8, <1>9, <2>1 DEF TableOk
<1>14. DOMAIN u.nc \subseteq 1..u.open
  BY <1>1, <1>7, <1>9
<1>15. TableOk(u)
  BY <1>10, <1>12, <1>13, <1>14 DEF TableOk
<1>16. QED
  BY <1>7, <1>8, <1>9, <1>15

\* A dimension is defined.
LEMMA DimAfter ==
  ASSUME NEW t, TableOk(t), NEW call, Fits(t, call), call.op = "def_dim", NEW k \in Nat,
         NEW u, u = After(t, call, k), NEW n, n = NcOf(t, call.path)
  PROVE  /\ TableOk(u) /\ u.open = t.open /\ DOMAIN u.nc = DOMAIN t.nc
         /\ u.nc[n].path = t.nc[n].path
         /\ u.nc[n].dims = Assign(t.nc[n].dims, call.name) /\ u.nc[n].vars = t.nc[n].vars
         /\ \A m \in DOMAIN t.nc : m # n => u.nc[m] = t.nc[m]
<1>1. n \in DOMAIN t.nc /\ t \in Tables
  BY CallFile DEF TableOk
<1>2. /\ t.nc[n] \in OpenFile /\ t.nc[n].dims \in Seq(DimNames)
  BY <1>1, OpenTyped
<1>3. PICK list \in Seq(DimNames) : list = Assign(t.nc[n].dims, call.name)
  <2>1. call.name \in DimNames
    BY DEF Fits
  <2>2. PICK known \in Seq(DimNames) : known = t.nc[n].dims
    BY <1>2
  <2>3. Assign(known, call.name) \in Seq(DimNames)
    BY <2>1, Assigned
  <2>4. QED
    BY <2>2, <2>3
<1>4. PICK f \in OpenFile : f = t.nc[n]
  BY <1>2
<1>5. PICK g : g = [f EXCEPT !.dims = list]
  OBVIOUS
<1>6. /\ g \in OpenFile /\ g.path = f.path /\ g.dims = list /\ g.vars = f.vars
      /\ g.entries = f.entries
  BY <1>5 DEF OpenFile
<1>7. u = [t EXCEPT !.nc[n] = g]
  <2>1. u = [t EXCEPT !.nc[n].dims = list]
    BY <1>3 DEF After, DimDefined
  <2>2. QED
    BY <1>4, <1>5, <2>1
<1>8. DOMAIN g.entries = {GlobalId} \cup DOMAIN g.vars
  BY <1>1, <1>4, <1>6 DEF TableOk
<1>9. QED
  BY <1>1, <1>3, <1>4, <1>6, <1>7, <1>8, FileChanged

\* The ids of the dimensions of a variable.
LEMMA DimIdsTyped ==
  ASSUME NEW t, TableOk(t), NEW call, Fits(t, call), call.op = "def_var"
  PROVE  /\ DimIds(t, call) \in Seq(Nat) /\ DOMAIN DimIds(t, call) = DOMAIN call.dims
         /\ \A i \in DOMAIN call.dims :
              DimIds(t, call)[i] \in DOMAIN t.nc[NcOf(t, call.path)].dims
<1> DEFINE n == NcOf(t, call.path)
<1>1. n \in DOMAIN t.nc /\ t \in Tables
  BY CallFile DEF TableOk
<1> HIDE DEF n
<1>2. t.nc[n].dims \in Seq(DimNames)
  BY <1>1, OpenTyped
<1>3. call.dims \in Seq(DimNames) /\ \A i \in DOMAIN call.dims : Has(t.nc[n].dims, call.dims[i])
  BY DEF Fits, n
<1>4. DimIds(t, call) = [i \in DOMAIN call.dims |-> Id(t.nc[n].dims, call.dims[i])]
  BY DEF DimIds, n
<1>5. \A i \in DOMAIN call.dims : Id(t.nc[n].dims, call.dims[i]) \in DOMAIN t.nc[n].dims
  BY <1>3, NameId
<1>6. DOMAIN t.nc[n].dims \subseteq Nat
  <2>1. PICK list \in Seq(DimNames) : list = t.nc[n].dims
    BY <1>2
  <2>2. DOMAIN list \subseteq Nat
    OBVIOUS
  <2>3. QED
    BY <2>1, <2>2
<1>7. DimIds(t, call) \in Seq(Nat)
  <2>1. PICK len \in Nat : DOMAIN call.dims = 1..len
    BY <1>3
  <2>2. DimIds(t, call) \in [1..len -> Nat]
    BY <1>4, <1>5, <1>6, <2>1
  <2>3. QED
    BY <2>2, SeqDef
<1>8. QED
  BY <1>4, <1>5, <1>7 DEF n

\* A variable is defined.
LEMMA VarAfter ==
  ASSUME NEW t, TableOk(t), NEW call, Fits(t, call), call.op = "def_var", NEW k \in Nat,
         NEW u, u = After(t, call, k), NEW n, n = NcOf(t, call.path)
  PROVE  /\ TableOk(u) /\ u.open = t.open /\ DOMAIN u.nc = DOMAIN t.nc
         /\ u.nc[n].path = t.nc[n].path
         /\ u.nc[n].vars = Assign(t.nc[n].vars, call.name) /\ u.nc[n].dims = t.nc[n].dims
         /\ \A m \in DOMAIN t.nc : m # n => u.nc[m] = t.nc[m]
<1>1. n \in DOMAIN t.nc /\ t \in Tables
  BY CallFile DEF TableOk
<1>2. PICK f \in OpenFile : /\ f = t.nc[n] /\ f.vars \in Seq(VarNames)
                            /\ f.entries \in Partial(Int, EntryType)
  BY <1>1, OpenTyped
<1>3. PICK list \in Seq(VarNames) : list = Assign(f.vars, call.name)
  <2>1. call.name \in VarNames
    BY DEF Fits
  <2>2. Assign(f.vars, call.name) \in Seq(VarNames)
    BY <1>2, <2>1, Assigned
  <2>3. QED
    BY <2>2
<1>4. PICK id : id = Id(list, call.name)
  OBVIOUS
<1>5. id \in Nat /\ DOMAIN list = DOMAIN f.vars \cup {id}
  <2>1. call.name \in VarNames
    BY DEF Fits
  <2>2. Has(list, call.name) /\ DOMAIN list = DOMAIN f.vars \cup {Id(list, call.name)}
    <3>1. /\ Has(Assign(f.vars, call.name), call.name)
          /\ DOMAIN Assign(f.vars, call.name)
               = DOMAIN f.vars \cup {Id(Assign(f.vars, call.name), call.name)}
      <4>1. PICK x, y : x = f.vars /\ y = call.name
        OBVIOUS
      <4>2. x \in Seq(VarNames) /\ y \in VarNames
        BY <1>2, <2>1, <4>1
      <4>3. Has(Assign(x, y), y) /\ DOMAIN Assign(x, y) = DOMAIN x \cup {Id(Assign(x, y), y)}
        BY <4>2, Assigned
      <4>4. QED
        BY <4>1, <4>3, Zenon
    <3>2. QED
      BY <1>3, <3>1, Zenon
  <2>3. id \in DOMAIN list
    BY <1>4, <2>2, NameId
  <2>4. DOMAIN list \subseteq Nat
    OBVIOUS
  <2>5. QED
    BY <1>4, <2>2, <2>3, <2>4
<1>6. PICK e : e = Entered(f.entries, id, DimIds(t, call))
  OBVIOUS
<1>7. e \in Partial(Int, EntryType) /\ DOMAIN e = DOMAIN f.entries \cup {id}
  <2>1. CASE id \in DOMAIN f.entries
    BY <1>2, <1>6, <2>1 DEF Entered
  <2>2. CASE id \notin DOMAIN f.entries
    <3>1. e = With(f.entries, id, NewEntry(DimIds(t, call)))
      BY <1>6, <2>2 DEF Entered
    <3>2. NewEntry(DimIds(t, call)) \in EntryType
      BY DimIdsTyped DEF NewEntry, EntryType
    <3>3. id \in Int
      BY <1>5
    <3>4. e \in Partial(Int, EntryType)
      BY <1>2, <3>1, <3>2, <3>3, WithTyped
    <3>5. DOMAIN e = DOMAIN f.entries \cup {id}
      BY <3>1 DEF With
    <3>6. QED
      BY <3>4, <3>5
  <2>3. QED
    BY <2>1, <2>2
<1>8. PICK g : g = [f EXCEPT !.vars = list, !.entries = e]
  OBVIOUS
<1>9. /\ g \in OpenFile /\ g.path = f.path /\ g.dims = f.dims /\ g.vars = list
      /\ g.entries = e
  BY <1>7, <1>8 DEF OpenFile
<1>10. u = [t EXCEPT !.nc[n] = g]
  <2>1. u = VarDefined(t, call)
    BY DEF After
  <2>2. list = Assign(f.vars, call.name) /\ e = Entered(f.entries, Id(list, call.name), DimIds(t, call))
    BY <1>3, <1>4, <1>6, Zenon
  <2>3. PICK x : x = [f EXCEPT !.vars = list,
                               !.entries = Entered(@, Id(list, call.name), DimIds(t, call))]
    OBVIOUS
  <2>4. x = g
    BY <1>8, <2>2, <2>3
  <2>5. VarDefined(t, call) = [t EXCEPT !.nc[n] = x]
    BY <1>2, <2>2, <2>3, Zenon DEF VarDefined
  <2>6. QED
    BY <2>1, <2>4, <2>5, Zenon
<1>11. DOMAIN g.entries = {GlobalId} \cup DOMAIN g.vars
  <2>1. DOMAIN f.entries = {GlobalId} \cup DOMAIN f.vars
    BY <1>1, <1>2 DEF TableOk
  <2>2. QED
    BY <1>5, <1>7, <1>9, <2>1
<1>12. QED
  <2>1. /\ TableOk(u) /\ u.open = t.open /\ DOMAIN u.nc = DOMAIN t.nc /\ u.nc[n] = g
        /\ \A m \in DOMAIN t.nc : m # n => u.nc[m] = t.nc[m]
    <3>1. g.path = t.nc[n].path
      BY <1>2, <1>9
    <3>2. QED
      BY <1>1, <1>9, <1>10, <1>11, <3>1, FileChanged, SMTT(20)
  <2>2. QED
    BY <1>2, <1>3, <1>9, <2>1

\* An attribute is noted.
LEMMA AttAfter ==
  ASSUME NEW t, TableOk(t), NEW call, Fits(t, call), call.op = "put_att", NEW k \in Nat,
         NEW u, u = After(t, call, k)
  PROVE  /\ TableOk(u) /\ u.open = t.open /\ DOMAIN u.nc = DOMAIN t.nc
         /\ \A m \in DOMAIN t.nc : /\ u.nc[m].path = t.nc[m].path /\ u.nc[m].dims = t.nc[m].dims
                                   /\ u.nc[m].vars = t.nc[m].vars
<1>0. PICK n : n = NcOf(t, call.path)
  OBVIOUS
<1>1. n \in DOMAIN t.nc /\ t \in Tables
  BY <1>0, CallFile DEF TableOk
<1>2. PICK f \in OpenFile : /\ f = t.nc[n] /\ f.vars \in Seq(VarNames)
                            /\ f.entries \in Partial(Int, EntryType)
                            /\ DOMAIN f.entries = {GlobalId} \cup DOMAIN f.vars
  BY <1>1, OpenTyped DEF TableOk
<1>3. PICK id : id = VarOf(t, n, call.name)
  OBVIOUS
<1>4. id \in DOMAIN f.entries
  <2>1. call.name = Global \/ Has(f.vars, call.name)
    BY <1>0, <1>2 DEF Fits
  <2>2. CASE call.name = Global
    BY <1>2, <1>3, <2>2 DEF VarOf
  <2>3. CASE call.name # Global /\ Has(f.vars, call.name)
    <3>1. id = Id(f.vars, call.name)
      BY <1>2, <1>3, <2>3 DEF VarOf
    <3>2. QED
      BY <1>2, <2>3, <3>1, NameId
  <2>4. QED
    BY <2>1, <2>2, <2>3
<1>5. PICK e \in EntryType : e = f.entries[id]
  BY <1>2, <1>4, PartialValue
<1>6. PICK a : a = [e EXCEPT !.atts = Append(@, k)]
  OBVIOUS
<1>7. a \in EntryType
  <2>1. e.dims \in Seq(Nat) /\ e.atts \in Seq(Nat)
    BY DEF EntryType
  <2>2. Append(e.atts, k) \in Seq(Nat)
    BY <2>1
  <2>3. a = [dims |-> e.dims, atts |-> Append(e.atts, k)]
    BY <1>6 DEF EntryType
  <2>4. QED
    BY <2>1, <2>2, <2>3 DEF EntryType
<1>8. PICK es : es = [f.entries EXCEPT ![id] = a]
  OBVIOUS
<1>9. es \in Partial(Int, EntryType) /\ DOMAIN es = DOMAIN f.entries
  BY <1>2, <1>4, <1>7, <1>8, ExceptTyped
<1>10. PICK g : g = [f EXCEPT !.entries = es]
  OBVIOUS
<1>11. /\ g \in OpenFile /\ g.path = f.path /\ g.dims = f.dims /\ g.vars = f.vars
       /\ g.entries = es
  BY <1>9, <1>10 DEF OpenFile
<1>12. u = [t EXCEPT !.nc[n] = g]
  <2>1. u = [t EXCEPT !.nc[n].entries[id].atts = Append(@, k)]
    BY <1>0, <1>3 DEF After, AttPut
  <2>2. u = [t EXCEPT !.nc[n].entries[id] = a]
    BY <1>2, <1>5, <1>6, <2>1
  <2>3. u = [t EXCEPT !.nc[n].entries = es]
    BY <1>2, <1>8, <2>2
  <2>4. QED
    BY <1>2, <1>10, <2>3
<1>13. DOMAIN g.entries = {GlobalId} \cup DOMAIN g.vars /\ g.path = t.nc[n].path
  BY <1>2, <1>9, <1>11
<1>14. /\ TableOk(u) /\ u.open = t.open /\ DOMAIN u.nc = DOMAIN t.nc /\ u.nc[n] = g
       /\ \A m \in DOMAIN t.nc : m # n => u.nc[m] = t.nc[m]
  BY <1>1, <1>11, <1>12, <1>13, FileChanged
<1>15. QED
  BY <1>2, <1>11, <1>14

\* A file is closed.
LEMMA CloseAfter ==
  ASSUME NEW t, TableOk(t), NEW call, Fits(t, call), call.op = "close", NEW k \in Nat,
         NEW u, u = After(t, call, k), NEW n, n = NcOf(t, call.path)
  PROVE  /\ TableOk(u) /\ u.open = t.open /\ DOMAIN u.nc = DOMAIN t.nc \ {n}
         /\ \A m \in DOMAIN u.nc : u.nc[m] = t.nc[m]
<1>1. t \in Tables /\ t.open \in Nat /\ t.nc \in Partial(Nat, OpenFile)
  BY DEF TableOk, Tables
<1>2. PICK nc : nc = Without(t.nc, n)
  OBVIOUS
<1>3. u = [t EXCEPT !.nc = nc] /\ u.nc = nc /\ u.open = t.open
  BY <1>1, <1>2 DEF After, FileClosed, Tables
<1>4. nc \in Partial(Nat, OpenFile)
  BY <1>1, <1>2, WithoutTyped
<1>5. DOMAIN nc = DOMAIN t.nc \ {n} /\ \A m \in DOMAIN nc : nc[m] = t.nc[m]
  BY <1>2 DEF Without
<1>6. u \in Tables
  BY <1>1, <1>3, <1>4 DEF Tables
<1>7. QED
  BY <1>3, <1>5, <1>6 DEF TableOk

\* A table stays one whatever call is made.
LEMMA AfterOk ==
  ASSUME NEW t, TableOk(t), NEW call, Fits(t, call), NEW k \in Nat, NEW u, u = After(t, call, k)
  PROVE  TableOk(u) /\ t.open \in Nat /\ u.open \in Nat /\ t.open <= u.open
<1>1. PICK n : n = NcOf(t, call.path)
  OBVIOUS
<1>2. t.open \in Nat
  BY DEF TableOk, Tables
<1>3. CASE call.op = "create"
  BY <1>2, <1>3, CreateAfter
<1>4. CASE call.op = "def_dim"
  BY <1>1, <1>2, <1>4, DimAfter
<1>5. CASE call.op = "def_var"
  BY <1>1, <1>2, <1>5, VarAfter
<1>6. CASE call.op = "put_att"
  BY <1>2, <1>6, AttAfter
<1>7. CASE call.op = "close"
  BY <1>1, <1>2, <1>7, CloseAfter
<1>8. CASE call.op \in {"enddef", "put_vara"}
  <2>1. u = t
    BY <1>8 DEF After
  <2>2. QED
    BY <1>2, <2>1
<1>9. QED
  BY <1>3, <1>4, <1>5, <1>6, <1>7, <1>8 DEF Fits, Ops

\* A table agrees with the calls made, also after one more call.
LEMMA AfterSound ==
  ASSUME NEW t, NEW S, NEW prog \in Seq(S), TableOk(t), Sound(t, prog),
         NEW call \in S, call \in ProgramCalls(prog), NEW k \in Nat, NEW u, u = After(t, call, k),
         NEW more, more = Append(prog, call)
  PROVE  Sound(u, more)
<1>1. /\ Fits(t, call)
      /\ call.op = "create" => ~Did(prog, "create", call.path)
      /\ call.op # "create" => Did(prog, "create", call.path)
  BY ProgramFits
<1>2. /\ \A op, p : Did(more, op, p) <=> Did(prog, op, p) \/ (call.op = op /\ call.path = p)
      /\ \A op, p : \A x \in Named(more, op, p) :
              x \in Named(prog, op, p) \/ (call.op = op /\ call.path = p /\ x = call.name)
  BY MoreCalls
<1>3. \A i \in DOMAIN more : Did(more, "create", more[i].path)
  <2>1. /\ DOMAIN more = DOMAIN prog \cup {Len(prog) + 1}
        /\ more[Len(prog) + 1] = call /\ \A i \in DOMAIN prog : more[i] = prog[i]
    OBVIOUS
  <2>2. QED
    BY <1>1, <1>2, <2>1 DEF Sound
<1>4. /\ call.path \in Paths
      /\ \A p \in Paths : (\E m \in DOMAIN t.nc : t.nc[m].path = p)
                            <=> Did(prog, "create", p) /\ ~Did(prog, "close", p)
      /\ \A m \in DOMAIN t.nc :
           /\ \A d \in Named(prog, "def_dim", t.nc[m].path) : Has(t.nc[m].dims, d)
           /\ \A v \in Named(prog, "def_var", t.nc[m].path) : Has(t.nc[m].vars, v) /\ v \in VarNames
      /\ \A op, p : Did(prog, op, p) \/ Named(prog, op, p) # {} => Did(prog, "create", p)
  <2>1. ASSUME NEW op, NEW p, Did(prog, op, p) \/ Named(prog, op, p) # {}
        PROVE  Did(prog, "create", p)
    <3>1. \E i \in DOMAIN prog : prog[i].path = p
      BY <2>1 DEF Did, Named
    <3>2. QED
      BY <3>1 DEF Sound
  <2>2. QED
    BY <1>1, <2>1 DEF Fits, Sound
<1> DEFINE Opened == \A p \in Paths : (\E m \in DOMAIN u.nc : u.nc[m].path = p)
                            <=> Did(more, "create", p) /\ ~Did(more, "close", p)
           NamesIn == \A m \in DOMAIN u.nc :
             /\ \A d \in Named(more, "def_dim", u.nc[m].path) : Has(u.nc[m].dims, d)
             /\ \A v \in Named(more, "def_var", u.nc[m].path) : Has(u.nc[m].vars, v) /\ v \in VarNames
<1>5. ASSUME call.op = "create" PROVE Opened /\ NamesIn
  <2>1. PICK n : n = t.open + 1
    OBVIOUS
  <2>2. /\ DOMAIN u.nc = DOMAIN t.nc \cup {n} /\ n \notin DOMAIN t.nc
        /\ u.nc[n].path = call.path /\ u.nc[n].dims = << >> /\ u.nc[n].vars = << >>
        /\ \A m \in DOMAIN t.nc : u.nc[m] = t.nc[m]
    BY <1>1, <1>5, <2>1, CreateAfter
  <2>3. \A op : ~Did(prog, op, call.path) /\ Named(prog, op, call.path) = {}
    BY <1>1, <1>4, <1>5
  <2>4. /\ \A p : Did(more, "create", p) <=> Did(prog, "create", p) \/ call.path = p
        /\ \A p : Did(more, "close", p) <=> Did(prog, "close", p)
        /\ \A p : \A op \in {"def_dim", "def_var"} : \A x \in Named(more, op, p) : x \in Named(prog, op, p)
    BY <1>2, <1>5
  <2>5. Opened
    BY <1>4, <2>2, <2>3, <2>4
  <2>6. NamesIn
    BY <1>4, <2>2, <2>3, <2>4
  <2>7. QED
    BY <2>5, <2>6
<1>6. ASSUME call.op # "create"
      PROVE  \E n \in DOMAIN t.nc : /\ n = NcOf(t, call.path) /\ t.nc[n].path = call.path
                                    /\ \A m \in DOMAIN t.nc : t.nc[m].path = call.path => m = n
  BY <1>1, <1>6, CallFile
<1>7. ASSUME call.op = "close" PROVE Opened /\ NamesIn
  <2>1. PICK n \in DOMAIN t.nc : /\ n = NcOf(t, call.path) /\ t.nc[n].path = call.path
                                 /\ \A m \in DOMAIN t.nc : t.nc[m].path = call.path => m = n
    BY <1>6, <1>7
  <2>2. DOMAIN u.nc = DOMAIN t.nc \ {n} /\ \A m \in DOMAIN u.nc : u.nc[m] = t.nc[m]
    BY <1>1, <1>7, <2>1, CloseAfter
  <2>3. /\ \A p : Did(more, "create", p) <=> Did(prog, "create", p)
        /\ \A p : Did(more, "close", p) <=> Did(prog, "close", p) \/ call.path = p
        /\ \A p : \A op \in {"def_dim", "def_var"} : \A x \in Named(more, op, p) : x \in Named(prog, op, p)
    BY <1>2, <1>7
  <2>4. ASSUME NEW p \in Paths
        PROVE  (\E m \in DOMAIN u.nc : u.nc[m].path = p)
                 <=> Did(more, "create", p) /\ ~Did(more, "close", p)
    <3>1. (\E m \in DOMAIN u.nc : u.nc[m].path = p)
            <=> (\E m \in DOMAIN t.nc : t.nc[m].path = p) /\ p # call.path
      BY <2>1, <2>2
    <3>2. QED
      BY <1>4, <2>3, <3>1
  <2>5. NamesIn
    BY <1>4, <2>2, <2>3
  <2>6. QED
    BY <2>4, <2>5
<1>8. ASSUME call.op \in {"def_dim", "def_var", "put_att", "enddef", "put_vara"},
             DOMAIN u.nc = DOMAIN t.nc, \A m \in DOMAIN t.nc : u.nc[m].path = t.nc[m].path,
             \A m \in DOMAIN t.nc : \A d : Has(t.nc[m].dims, d) => Has(u.nc[m].dims, d),
             \A m \in DOMAIN t.nc : \A d : Has(t.nc[m].vars, d) => Has(u.nc[m].vars, d),
             call.op = "def_dim" => \A m \in DOMAIN t.nc : t.nc[m].path = call.path => Has(u.nc[m].dims, call.name),
             call.op = "def_var" => \A m \in DOMAIN t.nc : t.nc[m].path = call.path => Has(u.nc[m].vars, call.name),
             call.op = "def_var" => call.name \in VarNames
      PROVE  Opened /\ NamesIn
  <2>1. /\ \A p : Did(more, "create", p) <=> Did(prog, "create", p)
        /\ \A p : Did(more, "close", p) <=> Did(prog, "close", p)
    BY <1>2, <1>8
  <2>2. Opened
    BY <1>4, <1>8, <2>1
  <2>3. ASSUME NEW m \in DOMAIN u.nc, NEW d \in Named(more, "def_dim", u.nc[m].path)
        PROVE  Has(u.nc[m].dims, d)
    <3>1. PICK p : p = t.nc[m].path /\ p = u.nc[m].path /\ m \in DOMAIN t.nc
      BY <1>8
    <3>2. d \in Named(prog, "def_dim", p) \/ (call.op = "def_dim" /\ call.path = p /\ d = call.name)
      BY <1>2, <2>3, <3>1
    <3>3. CASE d \in Named(prog, "def_dim", p)
      BY <1>4, <1>8, <3>1, <3>3
    <3>4. CASE call.op = "def_dim" /\ call.path = p /\ d = call.name
      BY <1>8, <3>1, <3>4
    <3>5. QED
      BY <3>2, <3>3, <3>4
  <2>4. ASSUME NEW m \in DOMAIN u.nc, NEW v \in Named(more, "def_var", u.nc[m].path)
        PROVE  Has(u.nc[m].vars, v) /\ v \in VarNames
    <3>1. PICK p : p = t.nc[m].path /\ p = u.nc[m].path /\ m \in DOMAIN t.nc
      BY <1>8
    <3>2. v \in Named(prog, "def_var", p) \/ (call.op = "def_var" /\ call.path = p /\ v = call.name)
      BY <1>2, <2>4, <3>1
    <3>3. CASE v \in Named(prog, "def_var", p)
      BY <1>4, <1>8, <3>1, <3>3
    <3>4. CASE call.op = "def_var" /\ call.path = p /\ v = call.name
      BY <1>8, <3>1, <3>4
    <3>5. QED
      BY <3>2, <3>3, <3>4
  <2>5. QED
    BY <2>2, <2>3, <2>4
<1> HIDE DEF Opened, NamesIn
<1>9. ASSUME call.op = "def_dim" PROVE Opened /\ NamesIn
  <2>1. PICK n \in DOMAIN t.nc : /\ n = NcOf(t, call.path) /\ t.nc[n].path = call.path
                                 /\ \A m \in DOMAIN t.nc : t.nc[m].path = call.path => m = n
    BY <1>6, <1>9
  <2>2. /\ DOMAIN u.nc = DOMAIN t.nc /\ u.nc[n].path = t.nc[n].path
        /\ u.nc[n].dims = Assign(t.nc[n].dims, call.name) /\ u.nc[n].vars = t.nc[n].vars
        /\ \A m \in DOMAIN t.nc : m # n => u.nc[m] = t.nc[m]
    BY <1>1, <1>9, <2>1, DimAfter
  <2>3. call.name \in DimNames /\ t.nc[n].dims \in Seq(DimNames)
    BY <1>1, <1>9, <2>1, OpenTyped DEF Fits, TableOk
  <2>4. /\ Has(u.nc[n].dims, call.name)
        /\ \A i \in DOMAIN t.nc[n].dims : i \in DOMAIN u.nc[n].dims /\ u.nc[n].dims[i] = t.nc[n].dims[i]
    <3>1. PICK list \in Seq(DimNames) : list = t.nc[n].dims
      BY <2>3
    <3>2. PICK name \in DimNames : name = call.name
      BY <2>3
    <3>3. /\ Has(Assign(list, name), name)
          /\ \A i \in DOMAIN list : i \in DOMAIN Assign(list, name) /\ Assign(list, name)[i] = list[i]
      BY Assigned, Zenon
    <3>4. QED
      BY <2>2, <3>1, <3>2, <3>3, Zenon
  <2>5. \A d : Has(t.nc[n].dims, d) => Has(u.nc[n].dims, d)
    BY <2>4 DEF Has
  <2>6. QED
    BY <1>8, <1>9, <2>1, <2>2, <2>4, <2>5
<1>10. ASSUME call.op = "def_var" PROVE Opened /\ NamesIn
  <2>1. PICK n \in DOMAIN t.nc : /\ n = NcOf(t, call.path) /\ t.nc[n].path = call.path
                                 /\ \A m \in DOMAIN t.nc : t.nc[m].path = call.path => m = n
    BY <1>6, <1>10
  <2>2. /\ DOMAIN u.nc = DOMAIN t.nc /\ u.nc[n].path = t.nc[n].path
        /\ u.nc[n].vars = Assign(t.nc[n].vars, call.name) /\ u.nc[n].dims = t.nc[n].dims
        /\ \A m \in DOMAIN t.nc : m # n => u.nc[m] = t.nc[m]
    BY <1>1, <1>10, <2>1, VarAfter
  <2>3. call.name \in VarNames /\ t.nc[n].vars \in Seq(VarNames)
    BY <1>1, <1>10, <2>1, OpenTyped DEF Fits, TableOk
  <2>4. /\ Has(u.nc[n].vars, call.name)
        /\ \A i \in DOMAIN t.nc[n].vars : i \in DOMAIN u.nc[n].vars /\ u.nc[n].vars[i] = t.nc[n].vars[i]
    <3>1. PICK list \in Seq(VarNames) : list = t.nc[n].vars
      BY <2>3
    <3>2. PICK name \in VarNames : name = call.name
      BY <2>3
    <3>3. /\ Has(Assign(list, name), name)
          /\ \A i \in DOMAIN list : i \in DOMAIN Assign(list, name) /\ Assign(list, name)[i] = list[i]
      BY Assigned, Zenon
    <3>4. QED
      BY <2>2, <3>1, <3>2, <3>3, Zenon
  <2>5. \A d : Has(t.nc[n].vars, d) => Has(u.nc[n].vars, d)
    BY <2>4 DEF Has
  <2>6. QED
    BY <1>8, <1>10, <2>1, <2>2, <2>3, <2>4, <2>5
<1>11. ASSUME call.op = "put_att" PROVE Opened /\ NamesIn
  <2>1. /\ DOMAIN u.nc = DOMAIN t.nc
        /\ \A m \in DOMAIN t.nc : /\ u.nc[m].path = t.nc[m].path /\ u.nc[m].dims = t.nc[m].dims
                                  /\ u.nc[m].vars = t.nc[m].vars
    BY <1>1, <1>11, AttAfter
  <2>2. QED
    BY <1>8, <1>11, <2>1
<1>12. ASSUME call.op \in {"enddef", "put_vara"} PROVE Opened /\ NamesIn
  <2>1. u = t
    BY <1>12 DEF After
  <2>2. QED
    BY <1>8, <1>12, <2>1
<1>13. Opened /\ NamesIn
  BY <1>1, <1>5, <1>7, <1>9, <1>10, <1>11, <1>12 DEF Fits, Ops
<1>14. QED
  BY <1>3, <1>13 DEF Sound, Opened, NamesIn

(* What a handler is to get of the k-th call. *)
Meant(t, call, k, m) ==
  LET nc == NcOf(t, call.path)
      id == VarOf(t, nc, call.name)
      list == Assign(t.nc[nc].dims, call.name)
      vs == Assign(t.nc[nc].vars, call.name)
  IN  /\ m.op = call.op
      /\ m.nc = IF call.op = "create" THEN t.open + 1 ELSE nc
      /\ call.op \in {"create", "def_dim", "def_var"} =>
           m.name = IF call.op = "create" THEN call.path ELSE call.name
      /\ call.op = "def_dim" => m.id = Id(list, call.name)
      /\ call.op = "def_var" => m.id = Id(vs, call.name) /\ m.dims = DimIds(t, call)
      /\ call.op \in {"put_att", "put_vara"} => m.id = id /\ m.data = <<k>>
      /\ call.op \in {"create", "enddef", "close"} => m.id = 0

\* The messages that clients send are read back, and are as long as they say.
LEMMA SentRead ==
  ASSUME NEW t, TableOk(t), NEW call, Fits(t, call), NEW k \in Nat, NEW f, f = Sent(t, call, k)
  PROVE  /\ Meant(t, call, k, Unpacked(f))
         /\ f[1][2] = Packed(f) /\ f[1][2] = Unpacked(f).read
<1>1. PICK nc : nc = NcOf(t, call.path)
  OBVIOUS
<1>2. PICK id : id = VarOf(t, nc, call.name)
  OBVIOUS
<1>3. ASSUME NEW op, NEW n, NEW i, NEW name, NEW dims, NEW data, ReadAs(f, op, n, i, name, dims, data)
      PROVE  /\ Unpacked(f).op = op /\ Unpacked(f).nc = n /\ Unpacked(f).id = i
             /\ Unpacked(f).name = name /\ Unpacked(f).dims = dims /\ Unpacked(f).data = data
             /\ f[1][2] = Packed(f) /\ f[1][2] = Unpacked(f).read
  BY <1>3 DEF ReadAs, Announced
<1>4. CASE call.op = "create"
  <2>1. f = SendCreate(call.path, t.open + 1)
    BY <1>1, <1>2, <1>4 DEF Sent
  <2>2. ReadAs(f, "create", t.open + 1, 0, call.path, << >>, << >>)
    BY <2>1, CreateReadBack
  <2>3. PICK m : m = Unpacked(f)
    OBVIOUS
  <2>4. /\ m.op = "create" /\ m.nc = t.open + 1 /\ m.id = 0 /\ m.name = call.path /\ m.dims = << >> /\ m.data = << >>
        /\ f[1][2] = Packed(f) /\ f[1][2] = m.read
    BY <1>3, <2>2, <2>3
  <2>5. Meant(t, call, k, m)
    BY <1>1, <1>2, <1>4, <2>4 DEF Meant
  <2>6. QED
    BY <2>3, <2>4, <2>5
<1>5. CASE call.op = "def_dim"
  <2>0. PICK i : i = Id(Assign(t.nc[nc].dims, call.name), call.name)
    OBVIOUS
  <2>1. f = SendDefDim(nc, call.name, i)
    BY <1>1, <1>2, <1>5, <2>0 DEF Sent
  <2>2. ReadAs(f, "def_dim", nc, i, call.name, << >>, << >>)
    BY <2>1, DefDimReadBack
  <2>3. PICK m : m = Unpacked(f)
    OBVIOUS
  <2>4. /\ m.op = "def_dim" /\ m.nc = nc /\ m.id = i /\ m.name = call.name /\ m.dims = << >> /\ m.data = << >>
        /\ f[1][2] = Packed(f) /\ f[1][2] = m.read
    BY <1>3, <2>2, <2>3
  <2>5. Meant(t, call, k, m)
    BY <1>1, <1>2, <1>5, <2>4, <2>0 DEF Meant
  <2>6. QED
    BY <2>3, <2>4, <2>5
<1>6. CASE call.op = "def_var"
  <2>0. PICK i : i = Id(Assign(t.nc[nc].vars, call.name), call.name)
    OBVIOUS
  <2>a. PICK dims : dims \in Seq(Int) /\ dims = DimIds(t, call)
    <3>1. DimIds(t, call) \in Seq(Nat)
      BY <1>6, DimIdsTyped
    <3>2. QED
      BY <3>1
  <2>1. f = SendDefVar(nc, call.name, dims, i)
    BY <1>1, <1>2, <1>6, <2>0, <2>a DEF Sent
  <2>2. ReadAs(f, "def_var", nc, i, call.name, dims, << >>)
    BY <2>1, DefVarReadBack, <2>a
  <2>3. PICK m : m = Unpacked(f)
    OBVIOUS
  <2>4. /\ m.op = "def_var" /\ m.nc = nc /\ m.id = i /\ m.name = call.name /\ m.dims = dims /\ m.data = << >>
        /\ f[1][2] = Packed(f) /\ f[1][2] = m.read
    BY <1>3, <2>2, <2>3
  <2>5. Meant(t, call, k, m)
    BY <1>1, <1>2, <1>6, <2>4, <2>0, <2>a DEF Meant
  <2>6. QED
    BY <2>3, <2>4, <2>5
<1>7. CASE call.op = "put_att"
  <2>a. PICK data : data \in Seq(Int) /\ data = <<k>>
    <3>1. <<k>> \in Seq(Int)
      OBVIOUS
    <3>2. QED
      BY <3>1
  <2>1. f = SendPutAtt(nc, id, "a", data)
    BY <1>1, <1>2, <1>7, <2>a DEF Sent
  <2>2. ReadAs(f, "put_att", nc, id, "a", << >>, data)
    BY <2>1, PutAttReadBack, <2>a
  <2>3. PICK m : m = Unpacked(f)
    OBVIOUS
  <2>4. /\ m.op = "put_att" /\ m.nc = nc /\ m.id = id /\ m.name = "a" /\ m.dims = << >> /\ m.data = data
        /\ f[1][2] = Packed(f) /\ f[1][2] = m.read
    BY <1>3, <2>2, <2>3
  <2>5. Meant(t, call, k, m)
    BY <1>1, <1>2, <1>7, <2>4, <2>a DEF Meant
  <2>6. QED
    BY <2>3, <2>4, <2>5
<1>8. CASE call.op = "put_vara"
  <2>a. PICK data : data \in Seq(Int) /\ data = <<k>>
    <3>1. <<k>> \in Seq(Int)
      OBVIOUS
    <3>2. QED
      BY <3>1
  <2>0. PICK dims : dims = t.nc[nc].entries[id].dims
    OBVIOUS
  <2>d. \E len \in Nat : DOMAIN dims = 1..len
    <3>1. nc \in DOMAIN t.nc /\ t \in Tables
      BY <1>1, <1>8, CallFile DEF TableOk
    <3>2. PICK g : g = t.nc[nc] /\ g.entries \in Partial(Int, EntryType)
                   /\ DOMAIN g.entries = {GlobalId} \cup DOMAIN g.vars
      BY <3>1, OpenTyped DEF TableOk
    <3>3. call.name # Global /\ Has(g.vars, call.name)
      BY <1>1, <1>8, <3>2 DEF Fits
    <3>4. id \in DOMAIN g.entries
      <4>1. id = Id(g.vars, call.name)
        BY <1>2, <3>2, <3>3 DEF VarOf
      <4>2. QED
        BY <3>2, <3>3, <4>1, NameId
    <3>5. g.entries[id] \in EntryType
      BY <3>2, <3>4, PartialValue
    <3>6. dims \in Seq(Nat)
      BY <2>0, <3>2, <3>5 DEF EntryType
    <3>7. QED
      BY <3>6
  <2>b. PICK start : start \in Seq(Int) /\ start = [d \in DOMAIN dims |-> 0]
    <3>1. PICK len \in Nat : DOMAIN dims = 1..len
      BY <2>d
    <3>2. [d \in DOMAIN dims |-> 0] \in [1..len -> Int]
      BY <3>1
    <3>3. [d \in DOMAIN dims |-> 0] \in Seq(Int)
      BY <3>2, SeqDef
    <3>4. QED
      BY <3>3
  <2>c. PICK count : count \in Seq(Int) /\ count = [d \in DOMAIN dims |-> 1]
    <3>1. PICK len \in Nat : DOMAIN dims = 1..len
      BY <2>d
    <3>2. [d \in DOMAIN dims |-> 1] \in [1..len -> Int]
      BY <3>1
    <3>3. [d \in DOMAIN dims |-> 1] \in Seq(Int)
      BY <3>2, SeqDef
    <3>4. QED
      BY <3>3
  <2>1. f = SendPutVara(nc, id, start, count, data)
    BY <1>1, <1>2, <1>8, <2>0, <2>b, <2>c, <2>a DEF Sent
  <2>2. ReadAs(f, "put_vara", nc, id, "", << >>, data)
    BY <2>1, PutVaraReadBack, <2>a, <2>b, <2>c
  <2>3. PICK m : m = Unpacked(f)
    OBVIOUS
  <2>4. /\ m.op = "put_vara" /\ m.nc = nc /\ m.id = id /\ m.name = "" /\ m.dims = << >> /\ m.data = data
        /\ f[1][2] = Packed(f) /\ f[1][2] = m.read
    BY <1>3, <2>2, <2>3
  <2>5. Meant(t, call, k, m)
    BY <1>1, <1>2, <1>8, <2>4, <2>0, <2>a DEF Meant
  <2>6. QED
    BY <2>3, <2>4, <2>5
<1>9. ASSUME NEW op \in {"enddef", "close"}, call.op = op
      PROVE  Meant(t, call, k, Unpacked(f)) /\ f[1][2] = Packed(f) /\ f[1][2] = Unpacked(f).read
  <2>1. f = SendNcid(op, nc)
    BY <1>1, <1>9 DEF Sent
  <2>2. ReadAs(f, op, nc, 0, "", << >>, << >>)
    BY <2>1, NcidReadBack
  <2>3. PICK m : m = Unpacked(f)
    OBVIOUS
  <2>4. /\ m.op = op /\ m.nc = nc /\ m.id = 0 /\ f[1][2] = Packed(f) /\ f[1][2] = m.read
    BY <1>3, <2>2, <2>3
  <2>5. Meant(t, call, k, m)
    BY <1>1, <1>9, <2>4 DEF Meant
  <2>6. QED
    BY <2>3, <2>4, <2>5
<1>10. QED
  BY <1>4, <1>5, <1>6, <1>7, <1>8, <1>9 DEF Fits, Ops

(* The tables h[k] of a client after each number of calls of a program: the  *)
(* same for all clients, whenever they make the calls.                     *)
Hist(h, prog) ==
  /\ \E S : prog \in Seq(S)
  /\ h[0] = Empty
  /\ \A k \in 0..Len(prog) : TableOk(h[k])
  /\ \A k \in 1..Len(prog) : Fits(h[k - 1], prog[k]) /\ h[k] = After(h[k - 1], prog[k], k)
  /\ Sound(h[Len(prog)], prog)

(* The message of the k-th call. *)
SentAt(h, prog, k) == Sent(h[k - 1], prog[k], k)

Msgs(h, prog) == {SentAt(h, prog, k) : k \in 1..Len(prog)}

(* The messages of the last of n calls wait in box.                         *)
Queued(h, prog, n, box) ==
  /\ box \in Seq(Msgs(h, prog)) /\ n \in 0..Len(prog) /\ Len(box) <= n
  /\ \A i \in 1..Len(box) : box[i] = SentAt(h, prog, n - Len(box) + i)

(* A program with more calls, and the tables for it. *)
Longer(h, prog, g, more) ==
  /\ Len(prog) \in Nat /\ Len(more) \in Nat /\ Len(prog) <= Len(more)
  /\ \A k \in 1..Len(prog) : more[k] = prog[k]
  /\ \A k \in 0..Len(prog) : g[k] = h[k]

\* Sequences over a larger set.
LEMMA SeqMore ==
  ASSUME NEW S, NEW T, S \subseteq T, NEW s \in Seq(S)
  PROVE  s \in Seq(T)
<1>1. PICK n \in Nat : s \in [1..n -> S]
  BY SeqDef
<1>2. s \in [1..n -> T]
  BY <1>1
<1>3. QED
  BY <1>2, SeqDef

\* At the start.
LEMMA HistInit ==
  \E h : Hist(h, << >>) /\ h[0] = Empty
<1>1. PICK h : h = [k \in {0} |-> Empty]
  OBVIOUS
<1>2. h[0] = Empty
  BY <1>1
<1>3. TableOk(Empty)
  <2>1. Empty.nc = EmptyFcn /\ Empty.open = 0 /\ DOMAIN EmptyFcn = {}
    BY DEF Empty, EmptyFcn
  <2>2. EmptyFcn \in Partial(Nat, OpenFile)
    BY EmptyTyped, Zenon
  <2>3. Empty \in Tables
    BY <2>1, <2>2 DEF Empty, Tables
  <2>4. QED
    BY <2>1, <2>3 DEF TableOk
<1>4. Sound(Empty, << >>)
  <2>1. DOMAIN Empty.nc = {} /\ DOMAIN << >> = {}
    BY DEF Empty, EmptyFcn
  <2>2. \A op, p : ~Did(<< >>, op, p)
    BY <2>1 DEF Did
  <2>3. QED
    BY <2>1, <2>2 DEF Sound
<1>5. << >> \in Seq({}) /\ Len(<< >>) = 0
  OBVIOUS
<1>6. \A k \in 0..Len(<< >>) : k = 0
  BY <1>5
<1>7. \A k \in 1..Len(<< >>) : FALSE
  BY <1>5
<1>8. QED
  BY <1>2, <1>3, <1>4, <1>5, <1>6, <1>7 DEF Hist

\* The fastest client makes one more call.
LEMMA HistMore ==
  ASSUME NEW h, NEW prog, Hist(h, prog), NEW call \in ProgramCalls(prog),
         NEW more, more = Append(prog, call)
  PROVE  /\ Len(more) = Len(prog) + 1 /\ more[Len(prog) + 1] = call
         /\ \E g : Hist(g, more) /\ Longer(h, prog, g, more)
<1>1. PICK S : prog \in Seq(S)
  BY DEF Hist
<1>2. PICK T : T = S \cup {call}
  OBVIOUS
<1>3. prog \in Seq(T) /\ call \in T
  BY <1>1, <1>2, SeqMore
<1>4. PICK n : n \in Nat /\ n = Len(prog)
  BY <1>3
<1>5. /\ more \in Seq(T) /\ Len(more) = n + 1 /\ more[n + 1] = call
      /\ \A k \in 1..n : more[k] = prog[k]
  BY <1>3, <1>4
<1>6. PICK g : g = [k \in 0..(n + 1) |-> IF k <= n THEN h[k] ELSE After(h[n], call, n + 1)]
  OBVIOUS
<1>7. /\ \A k \in 0..n : g[k] = h[k] /\ k \in 0..(n + 1)
      /\ g[n + 1] = After(h[n], call, n + 1)
  BY <1>4, <1>6
<1>8. n \in 0..n /\ 0 \in 0..n /\ n + 1 \in Nat
  BY <1>4
<1>9. TableOk(h[n]) /\ Sound(h[n], prog)
  BY <1>4, <1>8 DEF Hist
<1>10. Fits(h[n], call)
  BY <1>9, ProgramFits
<1>11. TableOk(g[n + 1])
  BY <1>7, <1>8, <1>9, <1>10, AfterOk
<1>12. Sound(g[n + 1], more)
  BY <1>3, <1>7, <1>8, <1>9, AfterSound
<1>13. \A k \in 0..(n + 1) : TableOk(g[k])
  <2>1. \A k \in 0..(n + 1) : k \in 0..n \/ k = n + 1
    BY <1>4
  <2>2. QED
    BY <1>4, <1>7, <1>11, <2>1 DEF Hist
<1>14. \A k \in 1..(n + 1) : Fits(g[k - 1], more[k]) /\ g[k] = After(g[k - 1], more[k], k)
  <2>1. ASSUME NEW k \in 1..n
        PROVE  Fits(g[k - 1], more[k]) /\ g[k] = After(g[k - 1], more[k], k)
    <3>1. k - 1 \in 0..n /\ k \in 0..n
      BY <1>4
    <3>2. g[k - 1] = h[k - 1] /\ g[k] = h[k] /\ more[k] = prog[k]
      BY <1>5, <1>7, <3>1
    <3>3. QED
      BY <1>4, <3>2 DEF Hist
  <2>2. ASSUME NEW k, k = n + 1
        PROVE  Fits(g[k - 1], more[k]) /\ g[k] = After(g[k - 1], more[k], k)
    <3>1. k - 1 = n
      BY <1>4, <2>2
    <3>2. g[k - 1] = h[n] /\ more[k] = call
      BY <1>5, <1>7, <1>8, <2>2, <3>1
    <3>3. QED
      BY <1>7, <1>10, <2>2, <3>2
  <2>3. \A k \in 1..(n + 1) : k \in 1..n \/ k = n + 1
    BY <1>4
  <2>4. QED
    BY <2>1, <2>2, <2>3
<1>15. Hist(g, more)
  BY <1>5, <1>7, <1>8, <1>12, <1>13, <1>14 DEF Hist
<1>16. Longer(h, prog, g, more)
  BY <1>4, <1>5, <1>7 DEF Longer
<1>17. QED
  BY <1>4, <1>5, <1>15, <1>16

\* What waits is the same in a longer program.
LEMMA SameQueue ==
  ASSUME NEW h, NEW prog, NEW g, NEW more, NEW n, NEW box, Queued(h, prog, n, box),
         Longer(h, prog, g, more)
  PROVE  Queued(g, more, n, box)
<1>1. ASSUME NEW k \in 1..Len(prog) PROVE SentAt(g, more, k) = SentAt(h, prog, k)
  <2>1. k - 1 \in 0..Len(prog)
    BY DEF Longer
  <2>2. QED
    BY <2>1 DEF SentAt, Longer
<1>2. Msgs(h, prog) \subseteq Msgs(g, more)
  BY <1>1 DEF Msgs, Longer
<1>3. box \in Seq(Msgs(g, more))
  BY <1>2, SeqMore DEF Queued
<1>4. Len(box) \in Nat /\ n \in 0..Len(prog) /\ Len(box) <= n
  BY DEF Queued
<1>5. ASSUME NEW i \in 1..Len(box) PROVE box[i] = SentAt(g, more, n - Len(box) + i)
  <2>1. n - Len(box) + i \in 1..Len(prog)
    BY <1>4 DEF Longer
  <2>2. QED
    BY <1>1, <2>1 DEF Queued
<1>6. n \in 0..Len(more)
  BY <1>4 DEF Longer
<1>7. QED
  BY <1>3, <1>4, <1>5, <1>6 DEF Queued

\* A message is sent.
LEMMA QueueMore ==
  ASSUME NEW h, NEW prog, NEW n, NEW box, Queued(h, prog, n, box), Len(prog) \in Nat, n < Len(prog)
  PROVE  Queued(h, prog, n + 1, Append(box, SentAt(h, prog, n + 1)))
<1>1. PICK m : m = SentAt(h, prog, n + 1)
  OBVIOUS
<1>2. n \in Nat /\ n + 1 \in 0..Len(prog) /\ n + 1 \in 1..Len(prog)
  BY DEF Queued
<1>3. m \in Msgs(h, prog)
  BY <1>1, <1>2 DEF Msgs
<1>4. PICK more : more = Append(box, m)
  OBVIOUS
<1>5. PICK b : b \in Nat /\ b = Len(box) /\ b <= n
  BY DEF Queued
<1>6. /\ more \in Seq(Msgs(h, prog)) /\ Len(more) = b + 1 /\ more[b + 1] = m
      /\ \A i \in 1..b : more[i] = box[i]
  <2>1. box \in Seq(Msgs(h, prog))
    BY DEF Queued
  <2>2. QED
    BY <1>3, <1>4, <1>5, <2>1
<1>7. ASSUME NEW i \in 1..(b + 1) PROVE more[i] = SentAt(h, prog, n + 1 - (b + 1) + i)
  <2>1. CASE i = b + 1
    <3>1. n + 1 - (b + 1) + i = n + 1
      BY <1>2, <1>5, <2>1
    <3>2. QED
      BY <1>1, <1>6, <2>1, <3>1
  <2>2. CASE i \in 1..b
    <3>1. n + 1 - (b + 1) + i = n - b + i
      BY <1>2, <1>5, <2>2
    <3>2. QED
      BY <1>5, <1>6, <2>2, <3>1 DEF Queued
  <2>3. QED
    BY <1>5, <2>1, <2>2
<1>8. Len(more) <= n + 1
  BY <1>2, <1>5, <1>6
<1>9. Queued(h, prog, n + 1, more)
  BY <1>2, <1>6, <1>7, <1>8 DEF Queued
<1>10. QED
  BY <1>1, <1>4, <1>9

\* The first message is taken.
LEMMA QueueTail ==
  ASSUME NEW h, NEW prog, NEW n, NEW box, Queued(h, prog, n, box), Len(prog) \in Nat, box # << >>
  PROVE  /\ Queued(h, prog, n, Tail(box)) /\ Len(Tail(box)) = Len(box) - 1
         /\ n - Len(box) + 1 \in 1..Len(prog)
         /\ Head(box) = SentAt(h, prog, n - Len(box) + 1)
<1>1. box \in Seq(Msgs(h, prog)) /\ n \in 0..Len(prog) /\ Len(box) <= n
  BY DEF Queued
<1>2. PICK b : b \in Nat \ {0} /\ b = Len(box)
  BY <1>1
<1>3. PICK rest : rest = Tail(box)
  OBVIOUS
<1>4. /\ rest \in Seq(Msgs(h, prog)) /\ Len(rest) = b - 1 /\ Head(box) = box[1]
      /\ \A i \in 1..(b - 1) : rest[i] = box[i + 1]
  BY <1>1, <1>2, <1>3
<1>5. ASSUME NEW i \in 1..(b - 1) PROVE rest[i] = SentAt(h, prog, n - (b - 1) + i)
  <2>1. n - (b - 1) + i = n - b + (i + 1) /\ i + 1 \in 1..b
    BY <1>1, <1>2
  <2>2. box[i + 1] = SentAt(h, prog, n - b + (i + 1))
    BY <1>2, <2>1 DEF Queued
  <2>3. QED
    BY <1>4, <2>1, <2>2
<1>6. Queued(h, prog, n, rest)
  <2>1. Len(rest) <= n
    BY <1>1, <1>2, <1>4
  <2>2. QED
    BY <1>1, <1>4, <1>5, <2>1 DEF Queued
<1>7. box[1] = SentAt(h, prog, n - b + 1)
  BY <1>2 DEF Queued
<1>8. n - b + 1 \in 1..Len(prog)
  BY <1>1, <1>2
<1>9. QED
  BY <1>2, <1>3, <1>4, <1>6, <1>7, <1>8

(* The clients follow one program: each has the table and has sent the       *)
(* messages that belong to the calls it has made.                          *)
Followed(h, prog, mk, nm, ib) ==
  /\ Len(prog) \in 0..MaxCalls
  /\ mk \in [Clients -> 0..Len(prog)]
  /\ nm = [c \in Clients |-> h[mk[c]]]
  /\ DOMAIN ib = Clients /\ ib = [c \in Clients |-> ib[c]]
  /\ \A c \in Clients : Queued(h, prog, mk[c], ib[c]) /\ Len(ib[c]) <= MaxAhead

(* How many messages of a client its server has taken. *)
Decoded(c) == made[c] - Len(inbox[c])

\* A client makes its next call.
LEMMA ClientFollows ==
  ASSUME NEW h, Hist(h, calls), Followed(h, calls, made, names, inbox), NEW c \in Clients, Client(c)
  PROVE  \E g : /\ Hist(g, calls') /\ Followed(g, calls', made', names', inbox')
                /\ Longer(h, calls, g, calls')
                /\ \A d \in Clients : Decoded(d)' = Decoded(d) /\ (inbox[d] # << >> => inbox'[d] # << >>)
<1>1. PICK call \in NextCalls(c) :
        /\ calls' = IF made[c] < Len(calls) THEN calls ELSE Append(calls, call)
        /\ made' = [made EXCEPT ![c] = @ + 1]
        /\ \/ Create(c, call) \/ DefDim(c, call) \/ DefVar(c, call)
           \/ PutAtt(c, call) \/ Enddef(c, call) \/ PutVara(c, call) \/ Close(c, call)
  BY DEF Client
<1>2. PICK n : n = made[c] /\ n \in 0..Len(calls)
  BY DEF Followed
<1>3. Len(calls) \in Nat /\ Len(calls) <= MaxCalls /\ MaxCalls \in Nat
  BY ProgramAssumption DEF Followed
<1>4. \E g : /\ Hist(g, calls') /\ Len(calls') \in 0..MaxCalls /\ Longer(h, calls, g, calls')
             /\ n < Len(calls') /\ calls'[n + 1] = call
  <2>1. CASE n < Len(calls)
    <3>1. calls' = calls /\ call = calls[n + 1]
      BY <1>1, <1>2, <2>1 DEF NextCalls
    <3>2. QED
      BY <1>3, <2>1, <3>1 DEF Longer
  <2>2. CASE n = Len(calls)
    <3>1. Len(calls) < MaxCalls /\ call \in ProgramCalls(calls)
      BY <1>1, <1>2, <1>3, <2>2 DEF NextCalls
    <3>2. calls' = Append(calls, call)
      BY <1>1, <1>2, <1>3, <2>2
    <3>3. /\ Len(calls') = Len(calls) + 1 /\ calls'[Len(calls) + 1] = call
          /\ \E g : Hist(g, calls') /\ Longer(h, calls, g, calls')
      BY <3>1, <3>2, HistMore
    <3>4. QED
      BY <1>3, <2>2, <3>1, <3>3
  <2>3. QED
    BY <1>2, <1>3, <2>1, <2>2
<1>5. PICK g : /\ Hist(g, calls') /\ Len(calls') \in 0..MaxCalls /\ Longer(h, calls, g, calls')
               /\ n < Len(calls') /\ calls'[n + 1] = call
  BY <1>4
<1>6. names \in [Clients -> Tables]
  <2>1. \A d \in Clients : TableOk(h[made[d]])
    BY DEF Followed, Hist
  <2>2. QED
    BY <2>1 DEF Followed, TableOk
<1>7. /\ names' = [names EXCEPT ![c] = After(names[c], call, n + 1)]
      /\ inbox' = [inbox EXCEPT ![c] = Append(@, Sent(names[c], call, n + 1))]
  BY <1>1, <1>2, <1>6, CallMade
<1>8. names[c] = h[n] /\ g[n] = h[n] /\ n + 1 \in 1..Len(calls') /\ n + 1 - 1 = n /\ n \in Nat
  BY <1>2, <1>3, <1>5 DEF Followed, Longer
<1>9. Sent(names[c], call, n + 1) = SentAt(g, calls', n + 1)
  BY <1>5, <1>8 DEF SentAt
<1>10. After(names[c], call, n + 1) = g[n + 1]
  <2>1. g[n + 1] = After(g[n + 1 - 1], calls'[n + 1], n + 1)
    BY <1>5, <1>8 DEF Hist
  <2>2. QED
    BY <1>5, <1>8, <2>1
<1>11. made' \in [Clients -> 0..Len(calls')] /\ made'[c] = n + 1 /\ \A d \in Clients : d # c => made'[d] = made[d]
  <2>1. made \in [Clients -> 0..Len(calls)] /\ made' = [made EXCEPT ![c] = n + 1]
    BY <1>1, <1>2 DEF Followed
  <2>2. 0..Len(calls) \subseteq 0..Len(calls') /\ n + 1 \in 0..Len(calls')
    BY <1>3, <1>5, <1>8 DEF Longer
  <2>3. made \in [Clients -> 0..Len(calls')]
    BY <2>1, <2>2
  <2>4. QED
    BY <2>1, <2>2, <2>3
<1>12. names' = [d \in Clients |-> g[made'[d]]]
  <2>1. names' = [names EXCEPT ![c] = g[n + 1]]
    BY <1>7, <1>10
  <2>2. \A d \in Clients : d # c => names[d] = g[made'[d]]
    BY <1>5, <1>11 DEF Followed, Longer
  <2>3. QED
    BY <1>6, <1>11, <2>1, <2>2
<1>13. ASSUME NEW d \in Clients PROVE Queued(g, calls', made[d], inbox[d])
  <2>1. Queued(h, calls, made[d], inbox[d])
    BY DEF Followed
  <2>2. QED
    BY <1>3, <1>5, <2>1, SameQueue
<1>14. /\ DOMAIN inbox' = Clients /\ inbox' = [d \in Clients |-> inbox'[d]]
       /\ inbox'[c] = Append(inbox[c], SentAt(g, calls', n + 1))
       /\ \A d \in Clients : d # c => inbox'[d] = inbox[d]
  BY <1>7, <1>9 DEF Followed
<1>15. ASSUME NEW d \in Clients
       PROVE  Queued(g, calls', made'[d], inbox'[d]) /\ Len(inbox'[d]) <= MaxAhead
  <2>1. CASE d = c
    <3>1. Queued(g, calls', n + 1, Append(inbox[c], SentAt(g, calls', n + 1)))
      BY <1>2, <1>5, <1>13, QueueMore DEF Longer
    <3>2. inbox[c] \in Seq(Msgs(g, calls')) /\ Len(inbox[c]) < MaxAhead
      BY <1>13 DEF Queued, Client
    <3>3. Len(Append(inbox[c], SentAt(g, calls', n + 1))) <= MaxAhead
      <4>1. Len(Append(inbox[c], SentAt(g, calls', n + 1))) = Len(inbox[c]) + 1
        BY <3>1, <3>2 DEF Queued
      <4>2. QED
        BY <3>2, <4>1, GroupsAssumption
    <3>4. QED
      BY <1>11, <1>14, <2>1, <3>1, <3>3
  <2>2. CASE d # c
    BY <1>11, <1>13, <1>14, <2>2 DEF Followed
  <2>3. QED
    BY <2>1, <2>2
<1>16. Followed(g, calls', made', names', inbox')
  BY <1>5, <1>11, <1>12, <1>14, <1>15 DEF Followed
<1>17. ASSUME NEW d \in Clients
       PROVE  Decoded(d)' = Decoded(d) /\ (inbox[d] # << >> => inbox'[d] # << >>)
  <2>1. PICK box : box = inbox[d] /\ box \in Seq(Msgs(g, calls'))
    BY <1>13 DEF Queued
  <2>2. PICK m : m = SentAt(g, calls', n + 1) /\ m \in Msgs(g, calls')
    BY <1>8 DEF Msgs
  <2>3. CASE d = c
    <3>1. inbox'[d] = Append(box, m) /\ made'[d] = n + 1 /\ made[d] = n
      BY <1>2, <1>11, <1>14, <2>1, <2>2, <2>3
    <3>2. Append(box, m) # << >> /\ Len(Append(box, m)) = Len(box) + 1 /\ Len(box) \in Nat
      BY <2>1, <2>2
    <3>3. QED
      BY <1>8, <2>1, <3>1, <3>2 DEF Decoded
  <2>4. CASE d # c
    BY <1>11, <1>14, <2>4 DEF Decoded
  <2>5. QED
    BY <2>3, <2>4
<1>18. QED
  BY <1>5, <1>16, <1>17

(* Rounds: a server takes one message of each of its clients, in their order. *)
Taken(s) == Decoded(Group[s][1])

Round(s) ==
  /\ turn[s] \in 1..Len(Group[s])
  /\ \A i \in DOMAIN Group[s] :
       Decoded(Group[s][i]) = Taken(s) - (IF turn[s] = 1 \/ i < turn[s] THEN 0 ELSE 1)
  /\ turn[s] # 1 => \A i \in DOMAIN Group[s] : i >= turn[s] => inbox[Group[s][i]] # << >>

\* The clients of a server.
LEMMA ClientsOf ==
  ASSUME NEW s \in Servers
  PROVE  /\ Len(Group[s]) \in Nat \ {0} /\ DOMAIN Group[s] = 1..Len(Group[s])
         /\ 1 \in DOMAIN Group[s] /\ Len(Group[s]) \in DOMAIN Group[s]
         /\ \A i \in DOMAIN Group[s] : Group[s][i] \in Clients
         /\ \A i, j \in DOMAIN Group[s] : Group[s][i] = Group[s][j] => i = j
<1>1. Group[s] \in Seq(Clients) /\ Group[s] # << >>
  BY GroupsAssumption
<1>2. PICK g : g = Group[s] /\ g \in Seq(Clients) /\ g # << >>
  BY <1>1
<1>3. Len(g) \in Nat \ {0} /\ DOMAIN g = 1..Len(g) /\ \A i \in DOMAIN g : g[i] \in Clients
  BY <1>2
<1>4. 1 \in DOMAIN g /\ Len(g) \in DOMAIN g
  BY <1>3
<1>5. \A i, j \in DOMAIN Group[s] : Group[s][i] = Group[s][j] => i = j
  BY GroupsAssumption
<1>6. QED
  BY <1>2, <1>3, <1>4, <1>5

\* How far a server has come.
LEMMA DecodedType ==
  ASSUME NEW h, Hist(h, calls), Followed(h, calls, made, names, inbox), NEW c \in Clients
  PROVE  /\ Decoded(c) \in 0..Len(calls) /\ Len(calls) \in Nat /\ made[c] \in 0..Len(calls)
         /\ Len(inbox[c]) \in Nat /\ Decoded(c) <= made[c]
<1>1. Queued(h, calls, made[c], inbox[c]) /\ Len(calls) \in Nat
  BY ProgramAssumption DEF Followed
<1>2. Len(inbox[c]) \in Nat /\ made[c] \in 0..Len(calls) /\ Len(inbox[c]) <= made[c]
  BY <1>1 DEF Queued
<1>3. QED
  BY <1>1, <1>2 DEF Decoded

\* A client makes a call, and the rounds go on as they were.
LEMMA ClientRound ==
  ASSUME NEW s \in Servers, Round(s), UNCHANGED turn,
         \A d \in Clients : Decoded(d)' = Decoded(d) /\ (inbox[d] # << >> => inbox'[d] # << >>)
  PROVE  Round(s)' /\ Taken(s)' = Taken(s)
<1>1. \A i \in DOMAIN Group[s] : Decoded(Group[s][i])' = Decoded(Group[s][i])
  BY ClientsOf
<1>2. Taken(s)' = Taken(s)
  BY <1>1, ClientsOf DEF Taken
<1>3. \A i \in DOMAIN Group[s] : inbox[Group[s][i]] # << >> => inbox'[Group[s][i]] # << >>
  BY ClientsOf
<1>4. QED
  BY <1>1, <1>2, <1>3 DEF Round

(* The k-th message of client c of server s is taken, and is m.               *)
Takes(h, s, c, k, m) ==
  /\ k \in 1..Len(calls) /\ Meant(h[k - 1], calls[k], k, m)
  /\ TableOk(h[k - 1]) /\ TableOk(h[k]) /\ Fits(h[k - 1], calls[k]) /\ h[k] = After(h[k - 1], calls[k], k)
  /\ k = Taken(s)'
  /\ Taken(s) = IF turn[s] = 1 THEN k - 1 ELSE k
  /\ c = Group[s][turn[s]] /\ c \in Clients

\* A server decodes the next message.
LEMMA DecodeTakes ==
  ASSUME NEW h, Hist(h, calls), Followed(h, calls, made, names, inbox), NEW s \in Servers,
         \A t \in Servers : Round(t), DOMAIN turn = Servers, Decode(s)
  PROVE  /\ Followed(h, calls, made, names, inbox)'
         /\ \A t \in Servers : Round(t)' /\ (t # s => Taken(t)' = Taken(t))
         /\ \A k : k = Taken(s)' =>
              Takes(h, s, Group[s][turn[s]], k, Unpacked(Head(inbox[Group[s][turn[s]]])))
<1>1. PICK c : /\ c = Group[s][turn[s]] /\ inbox' = [inbox EXCEPT ![c] = Tail(@)]
               /\ turn' = [turn EXCEPT ![s] = IF @ = Len(Group[s]) THEN 1 ELSE @ + 1]
               /\ RoundReady(s) /\ UNCHANGED <<calls, made, names>>
  BY DEF Decode, clientVars
<1>2. PICK n : n = Len(Group[s]) /\ n \in Nat \ {0} /\ DOMAIN Group[s] = 1..n
  BY ClientsOf
<1>3. PICK i : i = turn[s] /\ i \in 1..n
  BY <1>2 DEF Round
<1>4. c \in Clients /\ c = Group[s][i]
  BY <1>1, <1>2, <1>3, ClientsOf
<1>5. inbox[c] # << >>
  <2>1. CASE i = 1
    <3>1. c \in Members(s)
      BY <1>2, <1>3, <1>4 DEF Members
    <3>2. QED
      BY <1>1, <1>3, <2>1, <3>1 DEF RoundReady
  <2>2. CASE i # 1
    BY <1>2, <1>3, <1>4, <2>2 DEF Round
  <2>3. QED
    BY <2>1, <2>2
<1>6. PICK box : box = inbox[c] /\ box # << >> /\ Queued(h, calls, made[c], box) /\ Len(calls) \in Nat
  BY <1>4, <1>5, ProgramAssumption DEF Followed
<1>7. PICK k : k = made[c] - Len(box) + 1
  OBVIOUS
<1>8. /\ Queued(h, calls, made[c], Tail(box)) /\ Len(Tail(box)) = Len(box) - 1
      /\ k \in 1..Len(calls) /\ Head(box) = SentAt(h, calls, k)
  BY <1>6, <1>7, QueueTail
<1>9. made[c] \in Nat /\ Len(box) \in Nat
  BY <1>6 DEF Queued
<1>10. /\ DOMAIN inbox' = Clients /\ inbox' = [d \in Clients |-> inbox'[d]]
       /\ inbox'[c] = Tail(box) /\ \A d \in Clients : d # c => inbox'[d] = inbox[d]
  BY <1>1, <1>4, <1>6 DEF Followed
<1>11. Followed(h, calls, made, names, inbox)'
  <2>1. ASSUME NEW d \in Clients
        PROVE  Queued(h, calls, made[d], inbox'[d]) /\ Len(inbox'[d]) <= MaxAhead
    <3>1. CASE d = c
      <4>1. Len(box) <= MaxAhead
        BY <1>4, <1>6 DEF Followed
      <4>2. MaxAhead \in Nat
        BY GroupsAssumption
      <4>3. Len(Tail(box)) <= MaxAhead
        BY <1>8, <1>9, <4>1, <4>2
      <4>4. QED
        BY <1>8, <1>10, <3>1, <4>3
    <3>2. CASE d # c
      BY <1>10, <3>2 DEF Followed
    <3>3. QED
      BY <3>1, <3>2
  <2>2. Followed(h, calls, made, names, inbox')
    BY <1>10, <2>1 DEF Followed
  <2>3. QED
    BY <1>1, <2>2
<1>12. Decoded(c) = k - 1 /\ Decoded(c)' = k /\ \A d \in Clients : d # c => Decoded(d)' = Decoded(d)
  <2>1. made' = made
    BY <1>1
  <2>2. Decoded(c) = k - 1 /\ Decoded(c)' = k
    BY <1>6, <1>7, <1>8, <1>9, <1>10, <2>1 DEF Decoded
  <2>3. QED
    BY <1>10, <2>1, <2>2 DEF Decoded
<1>13. \A j \in 1..n : j # i => Group[s][j] # c /\ Group[s][j] \in Clients
  BY <1>2, <1>3, <1>4, ClientsOf
<1>14. Taken(s)' = k /\ Taken(s) = IF i = 1 THEN k - 1 ELSE k
  <2>1. Decoded(c) = Taken(s) - (IF i = 1 \/ i < i THEN 0 ELSE 1)
    BY <1>2, <1>3, <1>4 DEF Round
  <2>2. Taken(s) \in Int
    <3>1. Group[s][1] \in Clients
      BY ClientsOf
    <3>2. QED
      BY <3>1, DecodedType DEF Taken
  <2>3. CASE i = 1
    BY <1>4, <1>8, <1>12, <2>3 DEF Taken
  <2>4. CASE i # 1
    <3>1. Group[s][1] # c /\ Group[s][1] \in Clients
      BY <1>2, <1>13, <2>4
    <3>2. Taken(s)' = Taken(s)
      BY <1>12, <3>1 DEF Taken
    <3>3. Taken(s) = k
      BY <1>3, <1>8, <1>12, <2>1, <2>2, <2>4
    <3>4. QED
      BY <2>4, <3>2, <3>3
  <2>5. QED
    BY <2>3, <2>4
<1>15. Round(s)'
  <2>1. PICK next : next = turn'[s] /\ next = IF i = n THEN 1 ELSE i + 1
    BY <1>1, <1>2, <1>3
  <2>2. next \in 1..n
    BY <1>2, <1>3, <2>1
  <2>3. ASSUME NEW j \in 1..n
        PROVE  Decoded(Group[s][j])' = k - (IF next = 1 \/ j < next THEN 0 ELSE 1)
    <3>1. CASE j = i
      BY <1>2, <1>3, <1>4, <1>8, <1>12, <2>1, <3>1
    <3>2. CASE j # i
      <4>1. Decoded(Group[s][j])' = Decoded(Group[s][j])
        BY <1>12, <1>13, <3>2
      <4>2. Decoded(Group[s][j]) = Taken(s) - (IF i = 1 \/ j < i THEN 0 ELSE 1)
        BY <1>2, <1>3 DEF Round
      <4>3. Decoded(Group[s][j]) = IF i = 1 THEN k - 1 ELSE k - (IF j < i THEN 0 ELSE 1)
        BY <1>8, <1>14, <4>2
      <4>4. QED
        BY <1>2, <1>3, <1>8, <2>1, <3>2, <4>1, <4>3
    <3>3. QED
      BY <3>1, <3>2
  <2>4. ASSUME NEW j \in 1..n, next # 1, j >= next
        PROVE  inbox'[Group[s][j]] # << >>
    <3>1. j # i /\ j >= i
      BY <1>2, <1>3, <2>1, <2>4
    <3>2. inbox'[Group[s][j]] = inbox[Group[s][j]]
      BY <1>10, <1>13, <3>1
    <3>3. CASE i = 1
      <4>1. Group[s][j] \in Members(s)
        BY <1>2 DEF Members
      <4>2. QED
        BY <1>1, <1>3, <3>2, <3>3, <4>1 DEF RoundReady
    <3>4. CASE i # 1
      BY <1>2, <1>3, <3>1, <3>2, <3>4 DEF Round
    <3>5. QED
      BY <3>3, <3>4
  <2>5. QED
    BY <1>2, <1>14, <2>1, <2>2, <2>3, <2>4 DEF Round
<1>16. ASSUME NEW t \in Servers, t # s PROVE Round(t)' /\ Taken(t)' = Taken(t)
  <2>1. \A j \in DOMAIN Group[t] : Group[t][j] # c /\ Group[t][j] \in Clients
    <3>1. \A j \in DOMAIN Group[t], l \in DOMAIN Group[s] : Group[t][j] = Group[s][l] => t = s
      BY GroupsAssumption
    <3>2. i \in DOMAIN Group[s]
      BY <1>2, <1>3
    <3>3. QED
      BY <1>4, <1>16, <3>1, <3>2, ClientsOf
  <2>2. \A j \in DOMAIN Group[t] : /\ Decoded(Group[t][j])' = Decoded(Group[t][j])
                                   /\ inbox'[Group[t][j]] = inbox[Group[t][j]]
    BY <1>10, <1>12, <2>1
  <2>3. Taken(t)' = Taken(t)
    BY <2>2, ClientsOf DEF Taken
  <2>4. turn'[t] = turn[t]
    BY <1>1, <1>16
  <2>5. QED
    BY <2>2, <2>3, <2>4 DEF Round
<1>17. Takes(h, s, c, k, Unpacked(Head(box)))
  <2>1. k - 1 \in 0..Len(calls) /\ k \in 0..Len(calls) /\ k \in Nat
    BY <1>6, <1>8
  <2>2. /\ TableOk(h[k - 1]) /\ TableOk(h[k]) /\ Fits(h[k - 1], calls[k])
        /\ h[k] = After(h[k - 1], calls[k], k)
    BY <1>8, <2>1 DEF Hist
  <2>3. Meant(h[k - 1], calls[k], k, Unpacked(Head(box)))
    BY <1>8, <2>1, <2>2, SentRead DEF SentAt
  <2>4. QED
    BY <1>3, <1>4, <1>8, <1>14, <2>2, <2>3 DEF Takes
<1>18. QED
  BY <1>1, <1>3, <1>4, <1>6, <1>11, <1>14, <1>15, <1>16, <1>17

-------------------------------------------------------------------------------
(***************************************************************************)
(* The tables of a server are those of its clients, as of the calls it has  *)
(* begun to take: tab is the table of a client after them.                 *)
(***************************************************************************)
FileFields == {"nc_id", "status", "defs"}
DefFields  == {"kind", "id", "name", "dims", "nc", "atts", "parts"}

(* A part of no client is 0, as RoundsClean and BitsHaveParts have it. *)
IsDef(s, d) ==
  /\ DOMAIN d = DefFields /\ d.kind \in {"dim", "var"}
  /\ d.kind = "var" => d.parts \in [Members(s) -> 0..MaxCalls]

IsFile(s, f) ==
  /\ DOMAIN f = FileFields /\ f.status \in {"define", "data"}
  /\ \E S : f.defs \in Seq(S)
  /\ \A i \in DOMAIN f.defs : IsDef(s, f.defs[i])

(* The definitions of a file are those its clients know.                   *)
Matches(defs, dims, vs) ==
  /\ \A i \in DOMAIN dims : Positioned(defs, "dim", i) # {}
  /\ \A i \in DOMAIN vs : Positioned(defs, "var", i) # {}
  /\ \A i \in DOMAIN defs :
       LET list == IF defs[i].kind = "dim" THEN dims ELSE vs
       IN  defs[i].id \in DOMAIN list /\ defs[i].name = list[defs[i].id]
  /\ Len(defs) = Len(dims) + Len(vs)

FilesOk(s, tab, fs) ==
  /\ DOMAIN fs \subseteq 1..tab.open
  /\ \A nc \in DOMAIN fs : IsFile(s, fs[nc])
  /\ \A nc \in DOMAIN tab.nc : /\ nc \in DOMAIN fs
                               /\ Matches(fs[nc].defs, tab.nc[nc].dims, tab.nc[nc].vars)

RequestsOk(s, tab, rq) ==
  \A key \in DOMAIN rq : /\ rq[key] \in Bitmaps(Len(Group[s]))
                         /\ Noted(rq[key], Len(Group[s])) # {}
                         /\ key[2] \in 1..tab.open /\ key = <<key[1], key[2], key[3]>>

DefOf(defs, kind, id) == defs[CHOOSE i \in Positioned(defs, kind, id) : TRUE]

(* A client that is noted for a put_vara has a part, until all have and they *)
(* are written.                                                            *)
PartsThere(s, fs, rq, w) ==
  \A key \in DOMAIN rq :
    key[1] = "put_vara" /\ key[2] \in DOMAIN fs /\ ~(w.op = "put_vara" /\ w.key = key) =>
      /\ Positioned(fs[key[2]].defs, "var", key[3]) # {}
      /\ \A i \in Noted(rq[key], Len(Group[s])) :
           DefOf(fs[key[2]].defs, "var", key[3]).parts[Group[s][i + 1]] # 0

WaitingOk(tab, fs, w) ==
  /\ w.op \in {"none", "create", "enddef", "put_vara", "close"}
  /\ w.op \in {"create", "enddef", "close"} => w.nc \in DOMAIN fs
  /\ w.op = "close" => w.nc \notin DOMAIN tab.nc
  /\ w.op = "put_vara" => w.from \subseteq 1..MaxCalls

ServerOk(s, tab, fs, rq, w) ==
  /\ FilesOk(s, tab, fs) /\ RequestsOk(s, tab, rq)
  /\ PartsThere(s, fs, rq, w) /\ WaitingOk(tab, fs, w)

Tabled ==
  /\ DOMAIN turn = Servers /\ DOMAIN files = Servers /\ DOMAIN requests = Servers
  /\ DOMAIN waiting = Servers /\ DOMAIN netcdf = Servers /\ aborted \subseteq Servers

(* The inductive invariant.                                                *)
Serves(h) ==
  /\ Hist(h, calls) /\ Followed(h, calls, made, names, inbox)
  /\ Tabled /\ \A s \in Servers : Round(s)
  /\ \A s \in Servers : ServerOk(s, h[Taken(s)], files[s], requests[s], waiting[s])

IInv == \E h : Serves(h)

(***************************************************************************)
(* When every file can be created, a server has the files that are open and *)
(* the one that is being closed.                                           *)
(***************************************************************************)
NcFields == {"path", "define", "vars"}

Creating(w, nc) == w.op = "create" /\ w.nc = nc

(* A file closed by the call that is being taken. *)
Closing(h, s, nc) ==
  \/ waiting[s].op = "close" /\ waiting[s].nc = nc
  \/ /\ turn[s] # 1 /\ Taken(s) \in 1..Len(calls) /\ calls[Taken(s)].op = "close"
     /\ nc = NcOf(h[Taken(s) - 1], calls[Taken(s)].path)
     /\ <<"close", nc, 0>> \in DOMAIN requests[s]
     /\ 0..(turn[s] - 2) \subseteq Noted(requests[s][<<"close", nc, 0>>], Len(Group[s]))

(* What a server relies on when its library call returns.                  *)
WaitsFor(fs, w) ==
  /\ w.op \in {"enddef", "close"} => w.id = fs[w.nc].nc_id
  /\ w.op \in {"enddef", "put_vara", "close"} => w.key[1] = w.op
  /\ w.op = "close" => w.key = <<"close", w.nc, 0>>

LibraryOk(tab, fs, nd, w) ==
  /\ IsFiniteSet(DOMAIN nd) /\ Invalid \notin DOMAIN nd
  /\ \A id \in DOMAIN nd : DOMAIN nd[id] = NcFields
  /\ \A nc \in DOMAIN fs : ~Creating(w, nc) => fs[nc].nc_id \in DOMAIN nd
  /\ \A m, n \in DOMAIN fs :
       ~Creating(w, m) /\ ~Creating(w, n) /\ fs[m].nc_id = fs[n].nc_id => m = n
  /\ \A nc \in DOMAIN tab.nc :
       tab.nc[nc].path = IF Creating(w, nc) THEN w.path ELSE nd[fs[nc].nc_id].path
  /\ WaitsFor(fs, w)

Opens(h, s) ==
  /\ LibraryOk(h[Taken(s)], files[s], netcdf[s], waiting[s])
  /\ \A nc \in DOMAIN files[s] \ DOMAIN h[Taken(s)].nc : Closing(h, s, nc)

(* The bits after the bit of the client whose turn it is was set. *)
Bits(s, rq, key, i) == (IF key \in DOMAIN rq THEN Noted(rq[key], Len(Group[s])) ELSE {}) \cup {i - 1}

(* The table old with the call m of the i-th client noted, or removed.        *)
NotedIn(s, old, m, i, handled, new) ==
  /\ \A key \in DOMAIN old : key # Key(m) => key \in DOMAIN new /\ new[key] = old[key]
  /\ \A key \in DOMAIN new : key # Key(m) => key \in DOMAIN old
  /\ handled => Key(m) \notin DOMAIN new
  /\ ~handled => /\ Key(m) \in DOMAIN new
                 /\ Noted(new[Key(m)], Len(Group[s])) = Bits(s, old, Key(m), i)

\* The bitmap of a call with the next client added.
LEMMA ReceivedIs ==
  ASSUME NEW s \in Servers, NEW tab, RequestsOk(s, tab, requests[s]), turn[s] \in 1..Len(Group[s]),
         NEW c, c = Group[s][turn[s]], NEW m, NEW b, b = Received(s, c, m)
  PROVE  /\ b \in Bitmaps(Len(Group[s])) /\ Noted(b, Len(Group[s])) = Bits(s, requests[s], Key(m), turn[s])
         /\ Full(s, b) <=> Noted(b, Len(Group[s])) = 0..(Len(Group[s]) - 1)
<1>1. PICK n \in Nat \ {0} : n = Len(Group[s]) /\ DOMAIN Group[s] = 1..n
  BY ClientsOf
<1>2. PICK i \in 1..n : i = turn[s]
  BY <1>1
<1>3. IndexOf(s, c) = i - 1
  <2>1. \A j \in DOMAIN Group[s] : Group[s][j] = c <=> j = i
    BY <1>1, <1>2, ClientsOf
  <2>2. (CHOOSE j \in DOMAIN Group[s] : Group[s][j] = c) = i
    BY <1>1, <2>1
  <2>3. QED
    BY <2>2 DEF IndexOf
<1>4. PICK a : a = IF Key(m) \in DOMAIN requests[s] THEN requests[s][Key(m)] ELSE NewBitmap(n)
  OBVIOUS
<1>5. /\ a \in Bitmaps(n)
      /\ Noted(a, n) = IF Key(m) \in DOMAIN requests[s] THEN Noted(requests[s][Key(m)], n) ELSE {}
  BY <1>1, <1>4, NewNotesNobody DEF RequestsOk
<1>6. b = AddBitmap(a, i - 1) /\ i - 1 \in 0..(n - 1)
  BY <1>1, <1>2, <1>3, <1>4 DEF Received
<1>7. b \in Bitmaps(n) /\ Noted(b, n) = Noted(a, n) \cup {i - 1}
  <2>1. PICK x \in 0..(n - 1) : x = i - 1
    BY <1>6
  <2>2. n \in Nat
    OBVIOUS
  <2>3. QED
    <3>1. AddBitmap(a, x) \in Bitmaps(n) /\ Noted(AddBitmap(a, x), n) = Noted(a, n) \cup {x}
      BY <1>5, <2>2, AddNotes, Zenon
    <3>2. QED
      BY <1>6, <2>1, <3>1, Zenon
<1>8. Full(s, b) <=> Noted(b, n) = 0..(n - 1)
  <2>1. BitmapFull(b, n) <=> Noted(b, n) = 0..(n - 1)
    BY <1>7, FullWhenAllNoted
  <2>2. QED
    BY <1>1, <2>1 DEF Full
<1>9. QED
  BY <1>1, <1>2, <1>5, <1>7, <1>8 DEF Bits

\* io_table after a call was noted.
LEMMA Recorded ==
  ASSUME NEW s \in Servers, NEW tab, RequestsOk(s, tab, requests[s]), turn[s] \in 1..Len(Group[s]),
         NEW c, c = Group[s][turn[s]], NEW m, m.nc \in 1..tab.open,
         DOMAIN requests = Servers, NEW handled, Record(s, c, m, handled)
  PROVE  /\ DOMAIN requests' = Servers /\ \A t \in Servers \ {s} : requests'[t] = requests[t]
         /\ RequestsOk(s, tab, requests'[s])
         /\ NotedIn(s, requests[s], m, turn[s], handled, requests'[s])
<1>1. PICK b : b = Received(s, c, m)
  OBVIOUS
<1>2. /\ b \in Bitmaps(Len(Group[s]))
      /\ Noted(b, Len(Group[s])) = Bits(s, requests[s], Key(m), turn[s])
  BY <1>1, ReceivedIs
<1>3. PICK key : key = Key(m)
  OBVIOUS
<1>4. PICK noted : noted = With(requests[s], key, b)
  OBVIOUS
<1>5. PICK rq : rq = IF handled THEN Removed(noted, key) ELSE noted
  OBVIOUS
<1>6. requests' = [requests EXCEPT ![s] = rq]
  BY <1>1, <1>3, <1>4, <1>5 DEF Record
<1>7. /\ DOMAIN requests' = Servers /\ \A t \in Servers \ {s} : requests'[t] = requests[t]
      /\ requests'[s] = rq
  BY <1>6
<1>8. /\ DOMAIN noted = DOMAIN requests[s] \cup {key} /\ noted[key] = b
      /\ \A k \in DOMAIN requests[s] : k # key => noted[k] = requests[s][k]
  <2>1. noted = [y \in DOMAIN requests[s] \cup {key} |-> IF y = key THEN b ELSE requests[s][y]]
    BY <1>4 DEF With
  <2>2. QED
    BY <2>1
<1>9. CASE handled
  <2>1. rq = Without(noted, key)
    BY <1>5, <1>9 DEF Removed
  <2>2. DOMAIN rq = DOMAIN noted \ {key} /\ \A k \in DOMAIN noted : k # key => rq[k] = noted[k]
    BY <2>1, WithoutIs
  <2>3. RequestsOk(s, tab, rq)
    BY <1>8, <2>2 DEF RequestsOk
  <2>4. QED
    BY <1>3, <1>7, <1>8, <1>9, <2>2, <2>3 DEF NotedIn
<1>10. CASE ~handled
  <2>1. rq = noted
    BY <1>5, <1>10
  <2>2. key[2] = m.nc /\ key = <<key[1], key[2], key[3]>> /\ Bits(s, requests[s], key, turn[s]) # {}
    BY <1>3 DEF Key, Bits
  <2>3. RequestsOk(s, tab, rq)
    <3>1. ASSUME NEW k \in DOMAIN rq
          PROVE  /\ rq[k] \in Bitmaps(Len(Group[s])) /\ Noted(rq[k], Len(Group[s])) # {}
                 /\ k[2] \in 1..tab.open /\ k = <<k[1], k[2], k[3]>>
      <4>1. CASE k = key
        BY <1>2, <1>3, <1>8, <2>1, <2>2, <4>1
      <4>2. CASE k # key
        BY <1>8, <2>1, <4>2 DEF RequestsOk
      <4>3. QED
        BY <4>1, <4>2
    <3>2. QED
      BY <3>1 DEF RequestsOk
  <2>4. QED
    BY <1>2, <1>3, <1>7, <1>8, <1>10, <2>1, <2>3 DEF NotedIn
<1>11. QED
  BY <1>9, <1>10

\* Only calls of put_vara matter for the parts.
LEMMA RecordedOther ==
  ASSUME NEW s \in Servers, NEW tab, RequestsOk(s, tab, requests[s]), turn[s] \in 1..Len(Group[s]),
         NEW c, c = Group[s][turn[s]], NEW m, m.nc \in 1..tab.open, m.op # "put_vara",
         DOMAIN requests = Servers, NEW handled, Record(s, c, m, handled),
         NEW fs, NEW w, PartsThere(s, fs, requests[s], w)
  PROVE  /\ DOMAIN requests' = Servers /\ \A t \in Servers \ {s} : requests'[t] = requests[t]
         /\ RequestsOk(s, tab, requests'[s]) /\ PartsThere(s, fs, requests'[s], w)
<1>1. /\ DOMAIN requests' = Servers /\ \A t \in Servers \ {s} : requests'[t] = requests[t]
      /\ RequestsOk(s, tab, requests'[s])
      /\ NotedIn(s, requests[s], m, turn[s], handled, requests'[s])
  BY Recorded
<1>2. Key(m)[1] # "put_vara"
  BY DEF Key
<1>3. \A key \in DOMAIN requests'[s] : key[1] = "put_vara" =>
        key \in DOMAIN requests[s] /\ requests'[s][key] = requests[s][key]
  BY <1>1, <1>2 DEF NotedIn
<1>4. PartsThere(s, fs, requests'[s], w)
  BY <1>3 DEF PartsThere
<1>5. QED
  BY <1>1, <1>4

(* Definitions with the same names, and with the same parts.                *)
SameNames(ds, es) ==
  /\ DOMAIN es = DOMAIN ds /\ Len(es) = Len(ds)
  /\ \A i \in DOMAIN ds : es[i].kind = ds[i].kind /\ es[i].id = ds[i].id /\ es[i].name = ds[i].name

SameParts(ds, es) == \A i \in DOMAIN ds : es[i].parts = ds[i].parts

\* The same names are found, and match, alike.
LEMMA SameNamesMatch ==
  ASSUME NEW ds, NEW es, SameNames(ds, es)
  PROVE  /\ \A kind, id : Positioned(es, kind, id) = Positioned(ds, kind, id)
         /\ \A dims, vs : Matches(ds, dims, vs) => Matches(es, dims, vs)
<1>1. \A kind, id : Positioned(es, kind, id) = Positioned(ds, kind, id)
  BY DEF SameNames, Positioned
<1>2. ASSUME NEW dims, NEW vs, Matches(ds, dims, vs) PROVE Matches(es, dims, vs)
  <2>1. \A i \in DOMAIN dims : Positioned(es, "dim", i) # {}
    BY <1>1, <1>2 DEF Matches
  <2>2. \A i \in DOMAIN vs : Positioned(es, "var", i) # {}
    BY <1>1, <1>2 DEF Matches
  <2>3. Len(es) = Len(dims) + Len(vs)
    BY <1>2 DEF Matches, SameNames
  <2>4. ASSUME NEW i \in DOMAIN es, NEW list, list = IF es[i].kind = "dim" THEN dims ELSE vs
        PROVE  es[i].id \in DOMAIN list /\ es[i].name = list[es[i].id]
    <3>1. i \in DOMAIN ds /\ es[i].kind = ds[i].kind /\ es[i].id = ds[i].id /\ es[i].name = ds[i].name
      BY DEF SameNames
    <3>2. list = IF ds[i].kind = "dim" THEN dims ELSE vs
      BY <2>4, <3>1
    <3>3. ds[i].id \in DOMAIN list /\ ds[i].name = list[ds[i].id]
      BY <1>2, <3>1, <3>2 DEF Matches
    <3>4. QED
      BY <3>1, <3>3
  <2>5. QED
    BY <2>1, <2>2, <2>3, <2>4 DEF Matches
<1>3. QED
  BY <1>1, <1>2

\* A definition that is there is found.
LEMMA DefFound ==
  ASSUME NEW defs, NEW kind, NEW id, Positioned(defs, kind, id) # {}
  PROVE  \E i \in DOMAIN defs : /\ i = CHOOSE j \in Positioned(defs, kind, id) : TRUE
                                /\ DefOf(defs, kind, id) = defs[i] /\ defs[i].kind = kind /\ defs[i].id = id
<1>1. PICK i : i = CHOOSE j \in Positioned(defs, kind, id) : TRUE
  OBVIOUS
<1>2. i \in Positioned(defs, kind, id)
  BY <1>1
<1>3. QED
  BY <1>1, <1>2 DEF Positioned, DefOf

\* A file is changed in what its clients do not know.
LEMMA Changed ==
  ASSUME NEW s, NEW tab, NEW fs, FilesOk(s, tab, fs), NEW nc \in DOMAIN fs,
         NEW g, IsFile(s, g), SameNames(fs[nc].defs, g.defs), NEW gs, gs = [fs EXCEPT ![nc] = g]
  PROVE  /\ FilesOk(s, tab, gs) /\ DOMAIN gs = DOMAIN fs /\ gs[nc] = g
         /\ \A n \in DOMAIN fs : n # nc => gs[n] = fs[n]
<1>1. DOMAIN gs = DOMAIN fs /\ gs[nc] = g /\ \A n \in DOMAIN fs : n # nc => gs[n] = fs[n]
  OBVIOUS
<1>2. \A n \in DOMAIN gs : IsFile(s, gs[n])
  BY <1>1 DEF FilesOk
<1>3. ASSUME NEW n \in DOMAIN tab.nc
      PROVE  n \in DOMAIN gs /\ Matches(gs[n].defs, tab.nc[n].dims, tab.nc[n].vars)
  <2>1. n \in DOMAIN fs /\ Matches(fs[n].defs, tab.nc[n].dims, tab.nc[n].vars)
    BY DEF FilesOk
  <2>2. QED
    BY <1>1, <2>1, SameNamesMatch
<1>4. QED
  BY <1>1, <1>2, <1>3 DEF FilesOk

\* A file is changed, but not its parts.
LEMMA PartsKept ==
  ASSUME NEW s, NEW fs, NEW rq, NEW w, PartsThere(s, fs, rq, w), NEW nc \in DOMAIN fs,
         NEW g, SameNames(fs[nc].defs, g.defs), SameParts(fs[nc].defs, g.defs),
         NEW gs, gs = [fs EXCEPT ![nc] = g]
  PROVE  PartsThere(s, gs, rq, w)
<1>1. DOMAIN gs = DOMAIN fs /\ gs[nc] = g /\ \A n \in DOMAIN fs : n # nc => gs[n] = fs[n]
  OBVIOUS
<1>2. \A kind, id : Positioned(g.defs, kind, id) = Positioned(fs[nc].defs, kind, id)
  BY SameNamesMatch
<1>3. ASSUME NEW id, Positioned(fs[nc].defs, "var", id) # {}
      PROVE  DefOf(g.defs, "var", id).parts = DefOf(fs[nc].defs, "var", id).parts
  <2>1. PICK i \in DOMAIN fs[nc].defs : /\ i = CHOOSE j \in Positioned(fs[nc].defs, "var", id) : TRUE
                                        /\ DefOf(fs[nc].defs, "var", id) = fs[nc].defs[i]
    BY <1>3, DefFound
  <2>2. DefOf(g.defs, "var", id) = g.defs[i]
    BY <1>2, <2>1 DEF DefOf
  <2>3. QED
    BY <2>1, <2>2 DEF SameParts
<1>4. ASSUME NEW key \in DOMAIN rq, key[1] = "put_vara", key[2] \in DOMAIN gs,
             ~(w.op = "put_vara" /\ w.key = key)
      PROVE  /\ Positioned(gs[key[2]].defs, "var", key[3]) # {}
             /\ \A i \in Noted(rq[key], Len(Group[s])) :
                  DefOf(gs[key[2]].defs, "var", key[3]).parts[Group[s][i + 1]] # 0
  <2>1. /\ Positioned(fs[key[2]].defs, "var", key[3]) # {}
        /\ \A i \in Noted(rq[key], Len(Group[s])) :
             DefOf(fs[key[2]].defs, "var", key[3]).parts[Group[s][i + 1]] # 0
    BY <1>1, <1>4 DEF PartsThere
  <2>2. CASE key[2] = nc
    BY <1>1, <1>2, <1>3, <2>1, <2>2
  <2>3. CASE key[2] # nc
    BY <1>1, <1>4, <2>1, <2>3
  <2>4. QED
    BY <2>2, <2>3
<1>5. QED
  BY <1>4 DEF PartsThere

\* The table of the clients changes, but not the definitions in it.
LEMMA TableKept ==
  ASSUME NEW s, NEW t, NEW u, NEW fs, FilesOk(s, t, fs), t.open \in Nat, u.open \in Nat, t.open <= u.open,
         DOMAIN u.nc \subseteq DOMAIN t.nc,
         \A n \in DOMAIN u.nc : u.nc[n].dims = t.nc[n].dims /\ u.nc[n].vars = t.nc[n].vars
  PROVE  FilesOk(s, u, fs)
<1>1. 1..t.open \subseteq 1..u.open
  OBVIOUS
<1>2. DOMAIN fs \subseteq 1..u.open
  BY <1>1 DEF FilesOk
<1>3. QED
  BY <1>2 DEF FilesOk

\* The requests stay as they were when more files are opened.
LEMMA RequestsKept ==
  ASSUME NEW s, NEW t, NEW u, NEW rq, RequestsOk(s, t, rq), t.open \in Nat, u.open \in Nat, t.open <= u.open
  PROVE  RequestsOk(s, u, rq)
<1>1. 1..t.open \subseteq 1..u.open
  OBVIOUS
<1>2. QED
  BY <1>1 DEF RequestsOk

(* One definition more.                                                    *)
OneMore(defs, d, more) ==
  /\ \E T : more \in Seq(T)
  /\ Len(more) = Len(defs) + 1 /\ DOMAIN more = DOMAIN defs \cup {Len(defs) + 1}
  /\ Len(defs) \in Nat /\ DOMAIN defs = 1..Len(defs)
  /\ more[Len(defs) + 1] = d /\ \A i \in DOMAIN defs : more[i] = defs[i]
  /\ \A kind, id : ~(d.kind = kind /\ d.id = id) =>
       Positioned(more, kind, id) = Positioned(defs, kind, id)
  /\ \A kind, id : Positioned(defs, kind, id) \subseteq Positioned(more, kind, id)
  /\ Positioned(more, d.kind, d.id) # {}

\* A file gets one more definition.
LEMMA Appended ==
  ASSUME NEW S, NEW defs \in Seq(S), NEW d, NEW more, more = Append(defs, d)
  PROVE  OneMore(defs, d, more)
<1>1. PICK T : T = S \cup {d}
  OBVIOUS
<1>2. defs \in Seq(T) /\ d \in T
  BY <1>1, SeqMore
<1>3. PICK n : n \in Nat /\ n = Len(defs) /\ DOMAIN defs = 1..n
  BY <1>2
<1>4. /\ more \in Seq(T) /\ Len(more) = n + 1 /\ DOMAIN more = DOMAIN defs \cup {n + 1}
      /\ more[n + 1] = d /\ \A i \in DOMAIN defs : more[i] = defs[i] /\ i # n + 1
  BY <1>2, <1>3
<1>5. ASSUME NEW kind, NEW id, ~(d.kind = kind /\ d.id = id)
      PROVE  Positioned(more, kind, id) = Positioned(defs, kind, id)
  BY <1>4, <1>5 DEF Positioned
<1>6. ASSUME NEW kind, NEW id PROVE Positioned(defs, kind, id) \subseteq Positioned(more, kind, id)
  BY <1>4 DEF Positioned
<1>7. n + 1 \in Positioned(more, d.kind, d.id)
  BY <1>4 DEF Positioned
<1>8. QED
  BY <1>3, <1>4, <1>5, <1>6, <1>7 DEF OneMore

(* Server s handles the message m of client c, of the k-th call: the table of *)
(* a client is t before the call and u after it.                           *)
Handles(s, c, m, t, u, call, k) ==
  /\ Tabled /\ s \in Servers /\ waiting[s].op = "none"
  /\ turn[s] \in 1..Len(Group[s]) /\ c = Group[s][turn[s]]
  /\ ServerOk(s, IF turn[s] = 1 THEN t ELSE u, files[s], requests[s], waiting[s])
  /\ TableOk(t) /\ TableOk(u) /\ Fits(t, call) /\ u = After(t, call, k)
  /\ k \in 1..MaxCalls /\ Meant(t, call, k, m)

(* Its tables are then as after the call, and those of others as before.    *)
TablesStay ==
  /\ DOMAIN files' = Servers /\ DOMAIN requests' = Servers /\ DOMAIN waiting' = Servers
  /\ DOMAIN netcdf' = Servers /\ aborted' \subseteq Servers

OthersStay(s) ==
  \A o \in Servers \ {s} : files'[o] = files[o] /\ requests'[o] = requests[o] /\ waiting'[o] = waiting[o]

Served(s, u) ==
  /\ TablesStay /\ OthersStay(s)
  /\ ServerOk(s, u, files'[s], requests'[s], waiting'[s])

\* How many files there are before and after a call.
LEMMA OpenGrows ==
  ASSUME NEW s, NEW c, NEW m, NEW t, NEW u, NEW call, NEW k, Handles(s, c, m, t, u, call, k)
  PROVE  t.open \in Nat /\ u.open \in Nat /\ t.open <= u.open /\ call.op \in Ops /\ m.op = call.op
<1>1. k \in Nat
  BY ProgramAssumption DEF Handles
<1>2. TableOk(t) /\ Fits(t, call) /\ u = After(t, call, k)
  BY DEF Handles
<1>3. TableOk(u) /\ t.open \in Nat /\ u.open \in Nat /\ t.open <= u.open
  BY <1>1, <1>2, AfterOk
<1>4. QED
  BY <1>3 DEF Handles, Fits, Meant

\* Before calls that define nothing, the tables of the server are in order.
LEMMA KnownBefore ==
  ASSUME NEW s, NEW c, NEW m, NEW t, NEW u, NEW call, NEW k, Handles(s, c, m, t, u, call, k),
         call.op \in {"put_att", "put_vara", "enddef", "close"}
  PROVE  /\ FilesOk(s, u, files[s]) /\ RequestsOk(s, u, requests[s])
         /\ PartsThere(s, files[s], requests[s], waiting[s]) /\ WaitingOk(u, files[s], waiting[s])
         /\ m.nc \in DOMAIN t.nc /\ m.nc \in 1..u.open
         /\ call.op # "close" => m.nc \in DOMAIN u.nc /\ m.nc \in DOMAIN files[s]
         /\ call.op = "close" => m.nc \notin DOMAIN u.nc
         /\ call.op = "put_vara" => Positioned(files[s][m.nc].defs, "var", m.id) # {}
<1>1. k \in Nat
  BY ProgramAssumption DEF Handles
<1>2. TableOk(t) /\ TableOk(u) /\ Fits(t, call) /\ u = After(t, call, k) /\ Meant(t, call, k, m)
  BY DEF Handles
<1>3. t.open \in Nat /\ u.open \in Nat /\ t.open <= u.open
  BY OpenGrows
<1>4. PICK n : n = NcOf(t, call.path)
  OBVIOUS
<1>5. n \in DOMAIN t.nc /\ m.nc = n
  BY <1>2, <1>4, CallFile DEF Meant
<1>6. /\ DOMAIN u.nc = DOMAIN t.nc \ (IF call.op = "close" THEN {n} ELSE {})
      /\ \A i \in DOMAIN u.nc : u.nc[i].dims = t.nc[i].dims /\ u.nc[i].vars = t.nc[i].vars
  <2>1. CASE call.op = "put_att"
    BY <1>1, <1>2, <2>1, AttAfter
  <2>2. CASE call.op = "close"
    <3>1. DOMAIN u.nc = DOMAIN t.nc \ {n} /\ \A i \in DOMAIN u.nc : u.nc[i] = t.nc[i]
      BY <1>1, <1>2, <1>4, <2>2, CloseAfter
    <3>2. QED
      BY <2>2, <3>1
  <2>3. CASE call.op \in {"put_vara", "enddef"}
    <3>1. u = t
      BY <1>2, <2>3 DEF After
    <3>2. QED
      BY <2>3, <3>1
  <2>4. QED
    BY <2>1, <2>2, <2>3
<1>7. PICK tab : /\ tab = t \/ tab = u
                 /\ ServerOk(s, tab, files[s], requests[s], waiting[s]) /\ waiting[s].op = "none"
  BY DEF Handles
<1>8. FilesOk(s, u, files[s])
  <2>1. CASE tab = t
    BY <1>3, <1>6, <1>7, <2>1, TableKept DEF ServerOk
  <2>2. CASE tab = u
    BY <1>7, <2>2 DEF ServerOk
  <2>3. QED
    BY <1>7, <2>1, <2>2
<1>9. RequestsOk(s, u, requests[s])
  <2>1. CASE tab = t
    BY <1>3, <1>7, <2>1, RequestsKept DEF ServerOk
  <2>2. CASE tab = u
    BY <1>7, <2>2 DEF ServerOk
  <2>3. QED
    BY <1>7, <2>1, <2>2
<1>10. PartsThere(s, files[s], requests[s], waiting[s]) /\ WaitingOk(u, files[s], waiting[s])
  BY <1>7 DEF ServerOk, WaitingOk
<1>11. n \in 1..u.open
  BY <1>2, <1>3, <1>5 DEF TableOk
<1>12. ASSUME call.op # "close" PROVE n \in DOMAIN u.nc /\ n \in DOMAIN files[s]
  BY <1>5, <1>6, <1>8, <1>12 DEF FilesOk
<1>13. ASSUME call.op = "put_vara" PROVE Positioned(files[s][n].defs, "var", m.id) # {}
  <2>1. n \in DOMAIN u.nc /\ u.nc[n].vars = t.nc[n].vars
    BY <1>6, <1>12, <1>13
  <2>2. m.id = Id(t.nc[n].vars, call.name) /\ Has(t.nc[n].vars, call.name)
    <3>1. call.name # Global /\ Has(t.nc[n].vars, call.name)
      BY <1>2, <1>4, <1>13 DEF Fits
    <3>2. m.id = VarOf(t, n, call.name)
      BY <1>2, <1>4, <1>13 DEF Meant
    <3>3. QED
      BY <3>1, <3>2 DEF VarOf
  <2>3. m.id \in DOMAIN u.nc[n].vars
    BY <2>1, <2>2, NameId
  <2>4. QED
    BY <1>8, <2>1, <2>3 DEF FilesOk, Matches
<1>14. QED
  BY <1>5, <1>6, <1>8, <1>9, <1>10, <1>11, <1>12, <1>13

\* The first create of a round makes the file.
LEMMA CreateServed ==
  ASSUME NEW s, NEW c, NEW m, NEW t, NEW u, NEW call, NEW k, Handles(s, c, m, t, u, call, k),
         IoCreate(s, c, m)
  PROVE  Served(s, u)
<1>1. call.op = "create" /\ m.nc = t.open + 1 /\ k \in Nat
  BY ProgramAssumption DEF Handles, IoCreate, Meant
<1>2. /\ TableOk(u) /\ u.open = t.open + 1 /\ DOMAIN u.nc = DOMAIN t.nc \cup {t.open + 1}
      /\ t.open + 1 \notin DOMAIN t.nc
      /\ u.nc[t.open + 1].dims = << >> /\ u.nc[t.open + 1].vars = << >>
      /\ \A i \in DOMAIN t.nc : u.nc[i] = t.nc[i]
  BY <1>1, CreateAfter DEF Handles
<1>3. t.open \in Nat /\ t.open <= u.open /\ u.open \in Nat
  BY OpenGrows
<1>4. PICK n : n = t.open + 1 /\ n \in 1..u.open /\ n \notin 1..t.open
  BY <1>2, <1>3
<1>5. PICK fs, rq, w : fs = files[s] /\ rq = requests[s] /\ w = waiting[s] /\ w.op = "none"
  BY DEF Handles
<1>6. TablesStay /\ OthersStay(s) /\ requests'[s] = rq
  BY <1>5 DEF Handles, Tabled, IoCreate, TablesStay, OthersStay
<1>7. CASE n \in DOMAIN fs
  <2>1. ServerOk(s, u, fs, rq, w)
    <3>1. turn[s] # 1
      <4>1. ASSUME turn[s] = 1 PROVE DOMAIN fs \subseteq 1..t.open
        BY <1>5, <4>1 DEF Handles, ServerOk, FilesOk
      <4>2. QED
        BY <1>4, <1>7, <4>1
    <3>2. QED
      BY <1>5, <3>1 DEF Handles
  <2>2. files'[s] = fs /\ waiting'[s] = w
    BY <1>1, <1>4, <1>5, <1>7 DEF IoCreate, HasNc
  <2>3. QED
    BY <1>6, <2>1, <2>2 DEF Served
<1>8. CASE n \notin DOMAIN fs
  <2>1. ServerOk(s, t, fs, rq, w)
    <3>1. turn[s] = 1
      <4>1. ASSUME turn[s] # 1 PROVE n \in DOMAIN fs
        BY <1>2, <1>4, <1>5, <4>1 DEF Handles, ServerOk, FilesOk
      <4>2. QED
        BY <1>8, <4>1
    <3>2. QED
      BY <1>5, <3>1 DEF Handles
  <2>2. PICK f : f = [nc_id |-> Invalid, status |-> "define", defs |-> << >>]
    OBVIOUS
  <2>3. PICK gs : gs = With(fs, n, f)
    OBVIOUS
  <2>4. files'[s] = gs /\ waiting'[s] = [op |-> "create", path |-> m.name, nc |-> n]
    BY <1>1, <1>4, <1>5, <1>8, <2>2, <2>3 DEF IoCreate, HasNc, Handles, Tabled
  <2>5. DOMAIN gs = DOMAIN fs \cup {n} /\ gs[n] = f /\ \A i \in DOMAIN fs : i # n => gs[i] = fs[i]
    BY <2>3 DEF With
  <2>6. IsFile(s, f)
    <3>1. f.defs \in Seq({}) /\ DOMAIN f.defs = {}
      BY <2>2
    <3>2. DOMAIN f = FileFields /\ f.status = "define"
      BY <2>2 DEF FileFields
    <3>3. QED
      BY <3>1, <3>2 DEF IsFile
  <2>7. FilesOk(s, u, gs)
    <3>1. DOMAIN gs \subseteq 1..u.open
      <4>1. DOMAIN fs \subseteq 1..t.open
        BY <2>1 DEF ServerOk, FilesOk
      <4>2. 1..t.open \subseteq 1..u.open
        BY <1>3
      <4>3. QED
        BY <1>4, <2>5, <4>1, <4>2
    <3>2. \A i \in DOMAIN gs : IsFile(s, gs[i])
      BY <2>1, <2>5, <2>6 DEF ServerOk, FilesOk
    <3>3. Matches(f.defs, << >>, << >>)
      <4>1. f.defs = << >> /\ DOMAIN << >> = {} /\ Len(<< >>) = 0 + 0
        BY <2>2
      <4>2. Len(<< >>) = Len(<< >>) + Len(<< >>)
        BY <4>1
      <4>3. QED
        BY <4>1, <4>2 DEF Matches
    <3>4. ASSUME NEW i \in DOMAIN u.nc
          PROVE  i \in DOMAIN gs /\ Matches(gs[i].defs, u.nc[i].dims, u.nc[i].vars)
      <4>1. CASE i = n
        BY <1>2, <1>4, <2>5, <3>3, <4>1
      <4>2. CASE i # n
        BY <1>2, <1>4, <2>1, <2>5, <4>2 DEF ServerOk, FilesOk
      <4>3. QED
        BY <4>1, <4>2
    <3>5. QED
      BY <3>1, <3>2, <3>4 DEF FilesOk
  <2>8. RequestsOk(s, u, rq)
    BY <1>3, <2>1, RequestsKept DEF ServerOk
  <2>9. PartsThere(s, gs, rq, waiting'[s])
    <3>1. \A key \in DOMAIN rq : key[2] # n
      BY <1>4, <2>1 DEF ServerOk, RequestsOk
    <3>2. \A key \in DOMAIN rq : key[2] \in DOMAIN gs => key[2] \in DOMAIN fs /\ gs[key[2]] = fs[key[2]]
      BY <2>5, <3>1
    <3>3. PartsThere(s, fs, rq, w)
      BY <2>1 DEF ServerOk
    <3>4. QED
      BY <1>5, <3>2, <3>3 DEF PartsThere
  <2>10. WaitingOk(u, gs, waiting'[s])
    BY <2>4, <2>5 DEF WaitingOk
  <2>11. QED
    BY <1>6, <2>4, <2>7, <2>8, <2>9, <2>10 DEF Served, ServerOk
<1>9. QED
  BY <1>7, <1>8

\* A name is defined on the server when, and only when, it is new to a client.
LEMMA DefinedOnce ==
  ASSUME NEW S, NEW defs \in Seq(S), NEW kind \in {"dim", "var"},
         NEW T, NEW L \in Seq(T), NEW name \in T, NEW L2, L2 = Assign(L, name), NEW id, id = Id(L2, name),
         NEW D, NEW V, Len(D) \in Nat, Len(V) \in Nat, NEW D2, NEW V2, Matches(defs, D, V),
         \/ kind = "dim" /\ L = D /\ L2 = D2 /\ V2 = V
         \/ kind = "var" /\ L = V /\ L2 = V2 /\ D2 = D
  PROVE  /\ Positioned(defs, kind, id) # {} => D2 = D /\ V2 = V
         /\ Positioned(defs, kind, id) = {} =>
              \A d : d.kind = kind /\ d.id = id /\ d.name = name => Matches(Append(defs, d), D2, V2)
<1>1. /\ L2 \in Seq(T) /\ Has(L2, name)
      /\ Has(L, name) => L2 = L
      /\ ~Has(L, name) => L2 = Append(L, name) /\ id = Len(L) + 1
  <2>1. /\ Assign(L, name) \in Seq(T) /\ Has(Assign(L, name), name)
        /\ \A i \in DOMAIN L : i \in DOMAIN Assign(L, name) /\ Assign(L, name)[i] = L[i]
        /\ Has(L, name) => Assign(L, name) = L
        /\ ~Has(L, name) => /\ Assign(L, name) = Append(L, name)
                            /\ Id(Assign(L, name), name) = Len(L) + 1
        /\ DOMAIN Assign(L, name) = DOMAIN L \cup {Id(Assign(L, name), name)}
    BY Assigned, Zenon
  <2>2. QED
    BY <2>1, Zenon
<1>2. \A i \in DOMAIN L : Positioned(defs, kind, i) # {}
  BY DEF Matches
<1>3. ASSUME NEW i \in DOMAIN defs, defs[i].kind = kind PROVE defs[i].id \in DOMAIN L
  BY <1>3 DEF Matches
<1>4. ASSUME Positioned(defs, kind, id) # {} PROVE D2 = D /\ V2 = V
  <2>1. id \in DOMAIN L
    BY <1>3, <1>4 DEF Positioned
  <2>2. Has(L, name)
    <3>1. ASSUME ~Has(L, name) PROVE FALSE
      <4>1. id = Len(L) + 1
        BY <1>1, <3>1
      <4>2. Len(L) + 1 \notin DOMAIN L
        OBVIOUS
      <4>3. QED
        BY <2>1, <4>1, <4>2
    <3>2. QED
      BY <3>1
  <2>3. QED
    BY <1>1, <2>2
<1>5. ASSUME Positioned(defs, kind, id) = {}, NEW d, d.kind = kind, d.id = id, d.name = name
      PROVE  Matches(Append(defs, d), D2, V2)
  <2>1. ~Has(L, name)
    <3>1. ASSUME Has(L, name) PROVE id \in DOMAIN L
      BY <1>1, <3>1, NameId
    <3>2. QED
      BY <1>2, <1>5, <3>1
  <2>2. /\ L2 = Append(L, name) /\ id = Len(L) + 1 /\ Len(L2) = Len(L) + 1 /\ Len(L) \in Nat
        /\ DOMAIN L2 = DOMAIN L \cup {id} /\ L2[id] = name /\ \A i \in DOMAIN L : L2[i] = L[i]
    BY <1>1, <2>1, SMTT(20)
  <2>3. PICK more : more = Append(defs, d)
    OBVIOUS
  <2>4. PICK n : n = Len(defs)
    OBVIOUS
  <2>5. /\ Len(more) = n + 1 /\ DOMAIN more = DOMAIN defs \cup {n + 1} /\ n \in Nat
        /\ more[n + 1] = d /\ \A i \in DOMAIN defs : more[i] = defs[i]
        /\ \A ki, i : Positioned(defs, ki, i) \subseteq Positioned(more, ki, i)
        /\ Positioned(more, kind, id) # {}
    <3>1. /\ Len(more) = Len(defs) + 1 /\ DOMAIN more = DOMAIN defs \cup {Len(defs) + 1}
          /\ Len(defs) \in Nat
          /\ more[Len(defs) + 1] = d /\ \A i \in DOMAIN defs : more[i] = defs[i]
          /\ \A ki, i : Positioned(defs, ki, i) \subseteq Positioned(more, ki, i)
          /\ Positioned(more, d.kind, d.id) # {}
      <4>1. OneMore(defs, d, more)
        BY <2>3, Appended
      <4>2. QED
        BY <4>1, Zenon DEF OneMore
    <3>2. QED
      BY <1>5, <2>4, <3>1
  <2>6. \A i \in DOMAIN L2 : Positioned(more, kind, i) # {}
    <3>1. \A i \in DOMAIN L : Positioned(more, kind, i) # {}
      BY <1>2, <2>5
    <3>2. QED
      BY <2>2, <2>5, <3>1
  <2>7. ASSUME NEW i \in DOMAIN more, more[i].kind = kind
        PROVE  more[i].id \in DOMAIN L2 /\ more[i].name = L2[more[i].id]
    <3>1. CASE i = n + 1
      BY <1>5, <2>2, <2>5, <3>1
    <3>2. CASE i \in DOMAIN defs
      <4>1. more[i] = defs[i]
        BY <2>5, <3>2
      <4>2. defs[i].id \in DOMAIN L /\ defs[i].name = L[defs[i].id]
        BY <2>7, <3>2, <4>1 DEF Matches
      <4>3. QED
        BY <2>2, <4>1, <4>2
    <3>3. QED
      BY <2>5, <3>1, <3>2
  <2>8. CASE kind = "dim"
    <3>1. D = L /\ D2 = L2 /\ V2 = V
      BY <2>8
    <3>2. Len(more) = Len(D2) + Len(V2)
      BY <2>2, <2>4, <2>5, <3>1 DEF Matches
    <3>3. \A i \in DOMAIN V2 : Positioned(more, "var", i) # {}
      BY <2>5, <3>1 DEF Matches
    <3>4. ASSUME NEW i \in DOMAIN more
          PROVE  LET list == IF more[i].kind = "dim" THEN D2 ELSE V2
                 IN  more[i].id \in DOMAIN list /\ more[i].name = list[more[i].id]
      <4>1. CASE more[i].kind = "dim"
        BY <2>7, <2>8, <3>1, <4>1
      <4>2. CASE more[i].kind # "dim"
        <5>1. i \in DOMAIN defs /\ more[i] = defs[i]
          BY <1>5, <2>5, <2>8, <4>2
        <5>2. QED
          BY <3>1, <4>2, <5>1 DEF Matches
      <4>3. QED
        BY <4>1, <4>2
    <3>5. Matches(more, D2, V2)
      BY <2>6, <2>8, <3>1, <3>2, <3>3, <3>4 DEF Matches
    <3>6. QED
      BY <2>3, <3>5
  <2>9. CASE kind = "var"
    <3>1. V = L /\ V2 = L2 /\ D2 = D
      BY <2>9
    <3>2. Len(more) = Len(D2) + Len(V2)
      BY <2>2, <2>4, <2>5, <3>1 DEF Matches
    <3>3. \A i \in DOMAIN D2 : Positioned(more, "dim", i) # {}
      BY <2>5, <3>1 DEF Matches
    <3>4. ASSUME NEW i \in DOMAIN more
          PROVE  LET list == IF more[i].kind = "dim" THEN D2 ELSE V2
                 IN  more[i].id \in DOMAIN list /\ more[i].name = list[more[i].id]
      <4>1. CASE i = n + 1
        <5>1. more[i].kind = "var"
          BY <1>5, <2>5, <2>9, <4>1
        <5>2. QED
          BY <2>7, <2>9, <3>1, <5>1
      <4>2. CASE i \in DOMAIN defs /\ defs[i].kind = "dim"
        BY <2>5, <3>1, <4>2 DEF Matches
      <4>3. CASE i \in DOMAIN defs /\ defs[i].kind # "dim"
        <5>1. more[i] = defs[i] /\ defs[i].id \in DOMAIN V /\ defs[i].name = V[defs[i].id]
          BY <2>5, <4>3 DEF Matches
        <5>2. QED
          BY <2>2, <3>1, <4>3, <5>1
      <4>4. QED
        BY <2>5, <4>1, <4>2, <4>3
    <3>5. Matches(more, D2, V2)
      BY <2>6, <2>9, <3>1, <3>2, <3>3, <3>4 DEF Matches
    <3>6. QED
      BY <2>3, <3>5
  <2>10. QED
    BY <2>8, <2>9
<1>6. QED
  BY <1>4, <1>5

(* Definition d is mapped in file n: the tables of the server were fs and are *)
(* gs, those of the client were t and are u.                               *)
Mapped(s, t, u, fs, n, d, gs) ==
  /\ FilesOk(s, t, fs) /\ u.open = t.open /\ DOMAIN u.nc = DOMAIN t.nc
  /\ n \in DOMAIN t.nc /\ \A i \in DOMAIN t.nc : i # n => u.nc[i] = t.nc[i]
  /\ IsDef(s, d) /\ Positioned(fs[n].defs, d.kind, d.id) = {}
  /\ Matches(Append(fs[n].defs, d), u.nc[n].dims, u.nc[n].vars)
  /\ \E g : /\ DOMAIN g = FileFields /\ g.status = fs[n].status /\ g.defs = Append(fs[n].defs, d)
            /\ gs = [fs EXCEPT ![n] = g]

\* A new definition is mapped.
LEMMA DefMapped ==
  ASSUME NEW s, NEW t, NEW u, NEW fs, NEW n, NEW d, NEW gs, Mapped(s, t, u, fs, n, d, gs),
         NEW rq, NEW w, PartsThere(s, fs, rq, w)
  PROVE  FilesOk(s, u, gs) /\ PartsThere(s, gs, rq, w) /\ DOMAIN gs = DOMAIN fs
<1>0. /\ FilesOk(s, t, fs) /\ u.open = t.open /\ DOMAIN u.nc = DOMAIN t.nc
      /\ n \in DOMAIN t.nc /\ \A i \in DOMAIN t.nc : i # n => u.nc[i] = t.nc[i]
      /\ IsDef(s, d) /\ Positioned(fs[n].defs, d.kind, d.id) = {}
      /\ Matches(Append(fs[n].defs, d), u.nc[n].dims, u.nc[n].vars)
  BY DEF Mapped
<1>a. PICK g : /\ DOMAIN g = FileFields /\ g.status = fs[n].status /\ g.defs = Append(fs[n].defs, d)
               /\ gs = [fs EXCEPT ![n] = g]
  BY DEF Mapped
<1>1. n \in DOMAIN fs /\ IsFile(s, fs[n]) /\ DOMAIN fs \subseteq 1..u.open
  BY <1>0 DEF FilesOk
<1>2. PICK f : f = fs[n]
  OBVIOUS
<1>3. PICK defs : defs = f.defs
  OBVIOUS
<1>4. PICK S : defs \in Seq(S)
  BY <1>1, <1>2, <1>3 DEF IsFile
<1>5. PICK more : more = Append(defs, d)
  OBVIOUS
<1>6. OneMore(defs, d, more)
  BY <1>4, <1>5, Appended
<1>7. DOMAIN f = FileFields /\ f.status \in {"define", "data"}
  BY <1>1, <1>2 DEF IsFile
<1>9. DOMAIN g = FileFields /\ g.status = f.status /\ g.defs = more
  BY <1>2, <1>3, <1>5, <1>a
<1>10. IsFile(s, g)
  <2>1. \E T : more \in Seq(T)
    BY <1>6 DEF OneMore
  <2>2. \A i \in DOMAIN more : IsDef(s, more[i])
    <3>1. \A i \in DOMAIN defs : IsDef(s, defs[i])
      BY <1>1, <1>2, <1>3 DEF IsFile
    <3>2. QED
      BY <1>0, <1>6, <3>1 DEF OneMore
  <2>3. QED
    BY <1>7, <1>9, <2>1, <2>2 DEF IsFile
<1>11. DOMAIN gs = DOMAIN fs /\ gs[n] = g /\ \A i \in DOMAIN fs : i # n => gs[i] = fs[i]
  BY <1>1, <1>a
<1>12. \A i \in DOMAIN gs : IsFile(s, gs[i])
  BY <1>0, <1>10, <1>11 DEF FilesOk
<1>13. ASSUME NEW i \in DOMAIN u.nc
       PROVE  i \in DOMAIN gs /\ Matches(gs[i].defs, u.nc[i].dims, u.nc[i].vars)
  <2>1. CASE i = n
    BY <1>0, <1>1, <1>2, <1>3, <1>5, <1>9, <1>11, <2>1
  <2>2. CASE i # n
    <3>1. i \in DOMAIN fs /\ Matches(fs[i].defs, t.nc[i].dims, t.nc[i].vars)
      BY <1>0 DEF FilesOk
    <3>2. QED
      BY <1>0, <1>11, <2>2, <3>1
  <2>3. QED
    BY <2>1, <2>2
<1>14. FilesOk(s, u, gs)
  BY <1>1, <1>11, <1>12, <1>13 DEF FilesOk
<1>15. ASSUME NEW key \in DOMAIN rq, key[1] = "put_vara", key[2] \in DOMAIN gs,
              ~(w.op = "put_vara" /\ w.key = key)
       PROVE  /\ Positioned(gs[key[2]].defs, "var", key[3]) # {}
              /\ \A i \in Noted(rq[key], Len(Group[s])) :
                   DefOf(gs[key[2]].defs, "var", key[3]).parts[Group[s][i + 1]] # 0
  <2>1. /\ Positioned(fs[key[2]].defs, "var", key[3]) # {}
        /\ \A i \in Noted(rq[key], Len(Group[s])) :
             DefOf(fs[key[2]].defs, "var", key[3]).parts[Group[s][i + 1]] # 0
    BY <1>11, <1>15 DEF PartsThere
  <2>2. CASE key[2] = n
    <3>1. Positioned(defs, "var", key[3]) # {}
      BY <1>2, <1>3, <2>1, <2>2
    <3>2. ~(d.kind = "var" /\ d.id = key[3])
      BY <1>0, <1>2, <1>3, <3>1
    <3>3. Positioned(more, "var", key[3]) = Positioned(defs, "var", key[3])
      BY <1>6, <3>2 DEF OneMore
    <3>4. PICK i \in DOMAIN defs : /\ i = CHOOSE j \in Positioned(defs, "var", key[3]) : TRUE
                                   /\ DefOf(defs, "var", key[3]) = defs[i]
      BY <3>1, DefFound
    <3>5. DefOf(more, "var", key[3]) = more[i]
      BY <3>3, <3>4 DEF DefOf
    <3>6. more[i] = defs[i]
      BY <1>6 DEF OneMore
    <3>7. QED
      <4>1. gs[key[2]].defs = more /\ fs[key[2]].defs = defs
        BY <1>2, <1>3, <1>9, <1>11, <2>2
      <4>2. DefOf(more, "var", key[3]) = DefOf(defs, "var", key[3])
        BY <3>4, <3>5, <3>6
      <4>3. QED
        BY <2>1, <3>3, <4>1, <4>2
  <2>3. CASE key[2] # n
    BY <1>11, <1>15, <2>1, <2>3
  <2>4. QED
    BY <2>2, <2>3
<1>16. PartsThere(s, gs, rq, w)
  BY <1>15 DEF PartsThere
<1>17. QED
  BY <1>11, <1>14, <1>16

(* A definition of n is made by a message, if it is new.                     *)
Defined(s, n, d) ==
  IF Positioned(files[s][n].defs, d.kind, d.id) = {} THEN MapDef(s, n, d) ELSE UNCHANGED files

\* The first def_dim or def_var with a name makes its definition.
LEMMA DefServed ==
  ASSUME NEW s, NEW c, NEW m, NEW t, NEW u, NEW call, NEW k, Handles(s, c, m, t, u, call, k),
         UNCHANGED <<requests, waiting, aborted, netcdf>>,
         NEW n, n \in DOMAIN t.nc, u.open = t.open, DOMAIN u.nc = DOMAIN t.nc,
         \A i \in DOMAIN t.nc : i # n => u.nc[i] = t.nc[i],
         NEW d, IsDef(s, d), Defined(s, n, d),
         NEW T, NEW L \in Seq(T), d.name \in T, NEW L2, L2 = Assign(L, d.name), d.id = Id(L2, d.name),
         \/ d.kind = "dim" /\ L = t.nc[n].dims /\ L2 = u.nc[n].dims /\ u.nc[n].vars = t.nc[n].vars
         \/ d.kind = "var" /\ L = t.nc[n].vars /\ L2 = u.nc[n].vars /\ u.nc[n].dims = t.nc[n].dims
  PROVE  Served(s, u)
<1>1. TablesStay /\ OthersStay(s) /\ requests'[s] = requests[s] /\ waiting'[s] = waiting[s]
  <2>1. DOMAIN files' = Servers /\ \A o \in Servers \ {s} : files'[o] = files[o]
    BY DEF Handles, Tabled, Defined, MapDef
  <2>2. QED
    BY <2>1 DEF Handles, Tabled, TablesStay, OthersStay
<1>2. PICK tab : /\ tab = t \/ (tab = u /\ turn[s] # 1)
                 /\ ServerOk(s, tab, files[s], requests[s], waiting[s]) /\ waiting[s].op = "none"
  <2>1. CASE turn[s] = 1
    <3>1. ServerOk(s, t, files[s], requests[s], waiting[s]) /\ waiting[s].op = "none"
      BY <2>1 DEF Handles
    <3>2. \E tab : tab = t /\ ServerOk(s, tab, files[s], requests[s], waiting[s]) /\ waiting[s].op = "none"
      BY <3>1, Zenon
    <3>3. QED
      BY <3>2
  <2>2. CASE turn[s] # 1
    <3>1. ServerOk(s, u, files[s], requests[s], waiting[s]) /\ waiting[s].op = "none"
      BY <2>2 DEF Handles
    <3>2. QED
      BY <2>2, <3>1
  <2>3. QED
    BY <2>1, <2>2
<1>3. PICK fs, rq, w : fs = files[s] /\ rq = requests[s] /\ w = waiting[s]
  OBVIOUS
<1>4. /\ FilesOk(s, tab, fs) /\ RequestsOk(s, tab, rq) /\ PartsThere(s, fs, rq, w)
      /\ WaitingOk(tab, fs, w) /\ w.op = "none"
  BY <1>2, <1>3 DEF ServerOk
<1>5. n \in DOMAIN fs /\ IsFile(s, fs[n]) /\ Matches(fs[n].defs, tab.nc[n].dims, tab.nc[n].vars)
  BY <1>2, <1>4 DEF FilesOk
<1>6. RequestsOk(s, u, rq)
  BY <1>2, <1>4 DEF RequestsOk
<1>7. d.kind \in {"dim", "var"}
  OBVIOUS
<1>8. /\ t.nc[n].dims \in Seq(DimNames) /\ t.nc[n].vars \in Seq(VarNames)
  BY OpenTyped DEF Handles, TableOk
<1>9. Len(t.nc[n].dims) \in Nat /\ Len(t.nc[n].vars) \in Nat
  BY <1>8
<1>10. PICK S : fs[n].defs \in Seq(S)
  BY <1>5 DEF IsFile
<1>11. CASE Positioned(fs[n].defs, d.kind, d.id) # {}
  <2>1. files'[s] = fs
    BY <1>3, <1>11 DEF Defined
  <2>2. FilesOk(s, u, fs)
    <3>1. CASE tab = u
      BY <1>4, <3>1
    <3>2. CASE tab = t
      <4>1. u.nc[n].dims = t.nc[n].dims /\ u.nc[n].vars = t.nc[n].vars
        <5>1. Matches(fs[n].defs, t.nc[n].dims, t.nc[n].vars)
          BY <1>5, <3>2
        <5>2. PICK kind \in {"dim", "var"}, name \in T, id \in {d.id} :
                kind = d.kind /\ name = d.name /\ id = d.id
          BY <1>7
        <5>3. L2 = Assign(L, name) /\ id = Id(L2, name) /\ Positioned(fs[n].defs, kind, id) # {}
          BY <1>11, <5>2
        <5>4. \/ kind = "dim" /\ L = t.nc[n].dims /\ L2 = u.nc[n].dims /\ u.nc[n].vars = t.nc[n].vars
              \/ kind = "var" /\ L = t.nc[n].vars /\ L2 = u.nc[n].vars /\ u.nc[n].dims = t.nc[n].dims
          BY <5>2
        <5>5. QED
          BY <1>9, <1>10, <5>1, <5>3, <5>4, DefinedOnce
      <4>2. \A i \in DOMAIN u.nc : u.nc[i].dims = t.nc[i].dims /\ u.nc[i].vars = t.nc[i].vars
        BY <4>1
      <4>3. QED
        BY <1>4, <3>2, <4>2 DEF FilesOk
    <3>3. QED
      BY <1>2, <3>1, <3>2
  <2>3. WaitingOk(u, fs, w)
    BY <1>4 DEF WaitingOk
  <2>4. QED
    BY <1>1, <1>3, <1>4, <1>6, <2>1, <2>2, <2>3 DEF Served, ServerOk
<1>12. CASE Positioned(fs[n].defs, d.kind, d.id) = {}
  <2>1. tab = t
    <3>1. ASSUME tab = u PROVE FALSE
      <4>1. L2 \in Seq(T) /\ Has(L2, d.name)
        BY Assigned
      <4>2. d.id \in DOMAIN L2
        BY <4>1, NameId
      <4>3. Matches(fs[n].defs, u.nc[n].dims, u.nc[n].vars)
        BY <1>5, <3>1
      <4>4. QED
        BY <1>12, <4>2, <4>3 DEF Matches
    <3>2. QED
      BY <1>2, <3>1
  <2>2. Matches(Append(fs[n].defs, d), u.nc[n].dims, u.nc[n].vars)
    <3>1. Matches(fs[n].defs, t.nc[n].dims, t.nc[n].vars)
      BY <1>5, <2>1
    <3>2. PICK kind \in {"dim", "var"}, name \in T, id \in {d.id} :
            kind = d.kind /\ name = d.name /\ id = d.id
      BY <1>7
    <3>3. L2 = Assign(L, name) /\ id = Id(L2, name) /\ Positioned(fs[n].defs, kind, id) = {}
      BY <1>12, <3>2
    <3>4. \/ kind = "dim" /\ L = t.nc[n].dims /\ L2 = u.nc[n].dims /\ u.nc[n].vars = t.nc[n].vars
          \/ kind = "var" /\ L = t.nc[n].vars /\ L2 = u.nc[n].vars /\ u.nc[n].dims = t.nc[n].dims
      BY <3>2
    <3>5. \A e : e.kind = kind /\ e.id = id /\ e.name = name =>
             Matches(Append(fs[n].defs, e), u.nc[n].dims, u.nc[n].vars)
      BY <1>9, <1>10, <3>1, <3>3, <3>4, DefinedOnce
    <3>6. QED
      BY <3>2, <3>5
  <2>3. PICK g : g = [fs[n] EXCEPT !.defs = Append(@, d)]
    OBVIOUS
  <2>4. PICK gs : gs = [fs EXCEPT ![n] = g]
    OBVIOUS
  <2>5. files'[s] = gs
    <3>1. files' = [files EXCEPT ![s][n].defs = Append(@, d)]
      BY <1>3, <1>12 DEF Defined, MapDef
    <3>2. QED
      BY <1>3, <1>5, <2>3, <2>4, <3>1 DEF Handles, Tabled
  <2>6. FilesOk(s, u, gs) /\ PartsThere(s, gs, rq, w) /\ DOMAIN gs = DOMAIN fs
    <3>1. FilesOk(s, t, fs) /\ PartsThere(s, fs, rq, w)
      BY <1>4, <2>1
    <3>2. /\ u.open = t.open /\ DOMAIN u.nc = DOMAIN t.nc /\ n \in DOMAIN t.nc
          /\ \A i \in DOMAIN t.nc : i # n => u.nc[i] = t.nc[i]
      OBVIOUS
    <3>3. IsDef(s, d) /\ Positioned(fs[n].defs, d.kind, d.id) = {}
      BY <1>12
    <3>4. DOMAIN g = FileFields /\ g.status = fs[n].status /\ g.defs = Append(fs[n].defs, d)
      <4>1. PICK f, more : f = fs[n] /\ more = Append(f.defs, d) /\ g = [f EXCEPT !.defs = more]
        BY <2>3
      <4>2. DOMAIN f = FileFields
        BY <1>5, <4>1 DEF IsFile
      <4>3. QED
        BY <4>1, <4>2 DEF FileFields
    <3>5. Mapped(s, t, u, fs, n, d, gs)
      BY <2>2, <2>4, <3>1, <3>2, <3>3, <3>4 DEF Mapped
    <3>6. QED
      BY <3>1, <3>5, DefMapped
  <2>7. WaitingOk(u, gs, w)
    BY <1>4 DEF WaitingOk
  <2>8. QED
    BY <1>1, <1>3, <1>6, <2>5, <2>6, <2>7 DEF Served, ServerOk
<1>13. QED
  BY <1>11, <1>12

\* The file of a call that does not create it, at the server.
LEMMA FileThere ==
  ASSUME NEW s, NEW c, NEW m, NEW t, NEW u, NEW call, NEW k, Handles(s, c, m, t, u, call, k),
         NEW n \in DOMAIN t.nc, n \in DOMAIN u.nc,
         u.nc[n].dims = t.nc[n].dims \/ u.nc[n].vars = t.nc[n].vars
  PROVE  /\ n \in DOMAIN files[s]
         /\ u.nc[n].dims = t.nc[n].dims =>
              \A i \in DOMAIN t.nc[n].dims : Positioned(files[s][n].defs, "dim", i) # {}
<1>1. CASE turn[s] = 1
  <2>1. FilesOk(s, t, files[s])
    BY <1>1 DEF Handles, ServerOk
  <2>2. QED
    BY <2>1 DEF FilesOk, Matches
<1>2. CASE turn[s] # 1
  <2>1. FilesOk(s, u, files[s])
    BY <1>2 DEF Handles, ServerOk
  <2>2. QED
    BY <2>1 DEF FilesOk, Matches
<1>3. QED
  BY <1>1, <1>2

\* A dimension is defined.
LEMMA DimServed ==
  ASSUME NEW s, NEW c, NEW m, NEW t, NEW u, NEW call, NEW k, Handles(s, c, m, t, u, call, k),
         IoDefDim(s, c, m)
  PROVE  Served(s, u)
<1>1. /\ call.op = "def_dim" /\ k \in Nat /\ TableOk(t) /\ Fits(t, call) /\ u = After(t, call, k)
      /\ Meant(t, call, k, m) /\ call.name \in DimNames
  BY ProgramAssumption DEF Handles, IoDefDim, Meant, Fits
<1>2. PICK n : n = NcOf(t, call.path)
  OBVIOUS
<1>3. n \in DOMAIN t.nc
  BY <1>1, <1>2, CallFile
<1>4. /\ u.open = t.open /\ DOMAIN u.nc = DOMAIN t.nc
      /\ u.nc[n].dims = Assign(t.nc[n].dims, call.name) /\ u.nc[n].vars = t.nc[n].vars
      /\ \A i \in DOMAIN t.nc : i # n => u.nc[i] = t.nc[i]
  BY <1>1, <1>2, DimAfter
<1>5. m.nc = n /\ m.name = call.name /\ m.id = Id(u.nc[n].dims, call.name)
  BY <1>1, <1>2, <1>4 DEF Meant
<1>6. n \in DOMAIN files[s]
  BY <1>3, <1>4, FileThere
<1>7. PICK d : d = [kind |-> "dim", id |-> m.id, name |-> m.name, dims |-> << >>,
                    nc |-> Invalid, atts |-> << >>, parts |-> EmptyFcn]
  OBVIOUS
<1>8. IsDef(s, d) /\ d.kind = "dim" /\ d.id = m.id /\ d.name = m.name
  <2>1. DOMAIN d = DefFields /\ d.kind = "dim" /\ d.id = m.id /\ d.name = m.name
    BY <1>7 DEF DefFields
  <2>2. QED
    BY <2>1 DEF IsDef
<1>9. Defined(s, n, d)
  <2>1. HasNc(s, m.nc)
    BY <1>5, <1>6 DEF HasNc
  <2>2. HasDef(s, m.nc, "dim", m.id) <=> Positioned(files[s][n].defs, d.kind, d.id) # {}
    BY <1>5, <1>8, <2>1 DEF HasDef
  <2>3. QED
    BY <1>5, <1>7, <2>1, <2>2 DEF IoDefDim, Defined
<1>10. UNCHANGED <<requests, waiting, aborted, netcdf>>
  BY DEF IoDefDim
<1>11. t.nc[n].dims \in Seq(DimNames)
  BY <1>1, <1>3, OpenTyped DEF TableOk
<1>12. PICK T, L, L2 : /\ T = DimNames /\ L = t.nc[n].dims /\ L2 = u.nc[n].dims
  OBVIOUS
<1>13. /\ L \in Seq(T) /\ d.name \in T /\ L2 = Assign(L, d.name) /\ d.id = Id(L2, d.name)
  BY <1>1, <1>4, <1>5, <1>8, <1>11, <1>12
<1>14. d.kind = "dim" /\ L = t.nc[n].dims /\ L2 = u.nc[n].dims /\ u.nc[n].vars = t.nc[n].vars
  BY <1>4, <1>8, <1>12
<1>15. QED
  BY <1>3, <1>4, <1>8, <1>9, <1>10, <1>13, <1>14, DefServed

\* A variable is defined.
LEMMA VarServed ==
  ASSUME NEW s, NEW c, NEW m, NEW t, NEW u, NEW call, NEW k, Handles(s, c, m, t, u, call, k),
         IoDefVar(s, c, m)
  PROVE  Served(s, u)
<1>1. /\ call.op = "def_var" /\ k \in Nat /\ TableOk(t) /\ Fits(t, call) /\ u = After(t, call, k)
      /\ Meant(t, call, k, m) /\ call.name \in VarNames
  BY ProgramAssumption DEF Handles, IoDefVar, Meant, Fits
<1>2. PICK n : n = NcOf(t, call.path)
  OBVIOUS
<1>3. n \in DOMAIN t.nc
  BY <1>1, <1>2, CallFile
<1>4. /\ u.open = t.open /\ DOMAIN u.nc = DOMAIN t.nc
      /\ u.nc[n].vars = Assign(t.nc[n].vars, call.name) /\ u.nc[n].dims = t.nc[n].dims
      /\ \A i \in DOMAIN t.nc : i # n => u.nc[i] = t.nc[i]
  BY <1>1, <1>2, VarAfter
<1>5. /\ m.nc = n /\ m.name = call.name /\ m.id = Id(u.nc[n].vars, call.name)
      /\ m.dims = DimIds(t, call)
  BY <1>1, <1>2, <1>4 DEF Meant
<1>6. n \in DOMAIN files[s] /\ \A i \in DOMAIN t.nc[n].dims : Positioned(files[s][n].defs, "dim", i) # {}
  BY <1>3, <1>4, FileThere
<1>7. PICK d : d = [kind |-> "var", id |-> m.id, name |-> m.name, dims |-> m.dims,
                    nc |-> Invalid, atts |-> << >>, parts |-> [e \in Members(s) |-> 0]]
  OBVIOUS
<1>8. IsDef(s, d) /\ d.kind = "var" /\ d.id = m.id /\ d.name = m.name
  <2>1. /\ DOMAIN d = DefFields /\ d.kind = "var" /\ d.id = m.id /\ d.name = m.name
        /\ d.parts = [e \in Members(s) |-> 0]
    BY <1>7 DEF DefFields
  <2>2. [e \in Members(s) |-> 0] \in [Members(s) -> 0..MaxCalls]
    BY ProgramAssumption
  <2>3. QED
    BY <2>1, <2>2 DEF IsDef
<1>9. Defined(s, n, d)
  <2>1. HasNc(s, m.nc)
    BY <1>5, <1>6 DEF HasNc
  <2>2. HasDef(s, m.nc, "var", m.id) <=> Positioned(files[s][n].defs, d.kind, d.id) # {}
    BY <1>5, <1>8, <2>1 DEF HasDef
  <2>3. \A i \in DOMAIN m.dims : HasDef(s, m.nc, "dim", m.dims[i])
    <3>1. \A i \in DOMAIN m.dims : m.dims[i] \in DOMAIN t.nc[n].dims
      BY <1>1, <1>2, <1>5, DimIdsTyped
    <3>2. QED
      BY <1>5, <1>6, <2>1, <3>1 DEF HasDef
  <2>4. QED
    BY <1>5, <1>7, <2>1, <2>2, <2>3 DEF IoDefVar, Defined
<1>10. UNCHANGED <<requests, waiting, aborted, netcdf>>
  BY DEF IoDefVar
<1>11. t.nc[n].vars \in Seq(VarNames)
  BY <1>1, <1>3, OpenTyped DEF TableOk
<1>12. PICK T, L, L2 : /\ T = VarNames /\ L = t.nc[n].vars /\ L2 = u.nc[n].vars
  OBVIOUS
<1>13. /\ L \in Seq(T) /\ d.name \in T /\ L2 = Assign(L, d.name) /\ d.id = Id(L2, d.name)
  BY <1>1, <1>4, <1>5, <1>8, <1>11, <1>12
<1>14. d.kind = "var" /\ L = t.nc[n].vars /\ L2 = u.nc[n].vars /\ u.nc[n].dims = t.nc[n].dims
  BY <1>4, <1>8, <1>12
<1>15. QED
  BY <1>3, <1>4, <1>8, <1>9, <1>10, <1>13, <1>14, DefServed

\* One definition of a file is changed, under its name.
LEMMA OneChanged ==
  ASSUME NEW s, NEW f, IsFile(s, f), NEW i \in DOMAIN f.defs, NEW e, IsDef(s, e),
         e.kind = f.defs[i].kind, e.id = f.defs[i].id, e.name = f.defs[i].name,
         NEW g, DOMAIN g = FileFields, g.status = f.status, g.defs = [f.defs EXCEPT ![i] = e]
  PROVE  /\ IsFile(s, g) /\ SameNames(f.defs, g.defs)
         /\ e.parts = f.defs[i].parts => SameParts(f.defs, g.defs)
<1>1. PICK S : f.defs \in Seq(S)
  BY DEF IsFile
<1>2. PICK ds, es : ds = f.defs /\ es = g.defs
  OBVIOUS
<1>3. PICK T : T = S \cup {e}
  OBVIOUS
<1>4. ds \in Seq(T) /\ e \in T
  BY <1>1, <1>2, <1>3, SeqMore
<1>5. /\ es \in Seq(T) /\ DOMAIN es = DOMAIN ds /\ Len(es) = Len(ds) /\ es[i] = e
      /\ \A j \in DOMAIN ds : j # i => es[j] = ds[j]
  BY <1>2, <1>4
<1>6. \A j \in DOMAIN es : IsDef(s, es[j])
  BY <1>2, <1>5 DEF IsFile
<1>7. IsFile(s, g)
  BY <1>2, <1>5, <1>6 DEF IsFile
<1>8. SameNames(ds, es)
  BY <1>2, <1>5 DEF SameNames
<1>9. e.parts = ds[i].parts => SameParts(ds, es)
  BY <1>5 DEF SameParts
<1>10. QED
  BY <1>2, <1>7, <1>8, <1>9

\* An attribute is put.
LEMMA AttServed ==
  ASSUME NEW s, NEW c, NEW m, NEW t, NEW u, NEW call, NEW k, Handles(s, c, m, t, u, call, k),
         IoPutAtt(s, c, m)
  PROVE  Served(s, u)
<1>1. call.op = "put_att" /\ m.op = "put_att"
  BY DEF Handles, IoPutAtt, Meant
<1>2. /\ FilesOk(s, u, files[s]) /\ RequestsOk(s, u, requests[s])
      /\ PartsThere(s, files[s], requests[s], waiting[s]) /\ WaitingOk(u, files[s], waiting[s])
      /\ m.nc \in 1..u.open /\ m.nc \in DOMAIN files[s]
  BY <1>1, KnownBefore
<1>3. PICK ok \in BOOLEAN :
        /\ Record(s, c, m, ok)
        /\ \/ files' = files
           \/ /\ HasDef(s, m.nc, "var", m.id)
              /\ files' = [files EXCEPT ![s][m.nc].defs[DefAt(s, m.nc, "var", m.id)].atts =
                             Append(@, m.data[1])]
  <2> DEFINE full   == HasNc(s, m.nc) /\ Full(s, Received(s, c, m))
             nc_id  == files[s][m.nc].nc_id
             global == m.id = GlobalId
             ok     == full /\ IF global THEN InDefineMode(s, nc_id) ELSE HasDef(s, m.nc, "var", m.id)
  <2>1. /\ Record(s, c, m, ok)
        /\ files' = IF ok /\ ~global
                      THEN [files EXCEPT ![s][m.nc].defs[DefAt(s, m.nc, "var", m.id)].atts =
                              Append(@, m.data[1])]
                      ELSE files
    BY DEF IoPutAtt
  <2>2. ok /\ ~global => HasDef(s, m.nc, "var", m.id)
    OBVIOUS
  <2>3. ok \in BOOLEAN
    OBVIOUS
  <2> HIDE DEF ok, global
  <2>4. QED
    BY <2>1, <2>2, <2>3
<1>4. UNCHANGED <<waiting, aborted, netcdf>>
  BY DEF IoPutAtt
<1>5. /\ DOMAIN requests' = Servers /\ \A o \in Servers \ {s} : requests'[o] = requests[o]
      /\ RequestsOk(s, u, requests'[s]) /\ PartsThere(s, files[s], requests'[s], waiting[s])
  BY <1>1, <1>2, <1>3, RecordedOther DEF Handles, Tabled
<1>6. CASE files' = files
  BY <1>2, <1>4, <1>5, <1>6 DEF Served, TablesStay, OthersStay, ServerOk, Handles, Tabled
<1>7. CASE /\ HasDef(s, m.nc, "var", m.id)
           /\ files' = [files EXCEPT ![s][m.nc].defs[DefAt(s, m.nc, "var", m.id)].atts =
                          Append(@, m.data[1])]
  <2>1. PICK fs, f, ds : fs = files[s] /\ f = fs[m.nc] /\ ds = f.defs
    OBVIOUS
  <2>2. PICK i \in DOMAIN ds : i = DefAt(s, m.nc, "var", m.id)
    BY <1>7, <2>1 DEF HasDef, DefAt, Positioned
  <2>3. IsFile(s, f) /\ m.nc \in DOMAIN fs
    BY <1>2, <2>1 DEF FilesOk
  <2>4. PICK atts : atts = Append(ds[i].atts, m.data[1])
    OBVIOUS
  <2>5. PICK e : e = [ds[i] EXCEPT !.atts = atts]
    OBVIOUS
  <2>6. /\ IsDef(s, e) /\ e.kind = ds[i].kind /\ e.id = ds[i].id /\ e.name = ds[i].name
        /\ e.parts = ds[i].parts
    <3>1. IsDef(s, ds[i])
      BY <2>1, <2>3 DEF IsFile
    <3>2. PICK d : d = ds[i] /\ DOMAIN d = DefFields
      BY <3>1 DEF IsDef
    <3>3. e = [d EXCEPT !.atts = atts]
      BY <2>5, <3>2
    <3>4. /\ DOMAIN e = DefFields /\ e.kind = d.kind /\ e.id = d.id /\ e.name = d.name
          /\ e.parts = d.parts
      BY <3>2, <3>3 DEF DefFields
    <3>5. QED
      BY <3>1, <3>2, <3>4 DEF IsDef
  <2>7. PICK es : es = [ds EXCEPT ![i] = e]
    OBVIOUS
  <2>8. PICK g : g = [f EXCEPT !.defs = es]
    OBVIOUS
  <2>9. DOMAIN g = FileFields /\ g.status = f.status /\ g.defs = es
    <3>1. DOMAIN f = FileFields
      BY <2>3 DEF IsFile
    <3>2. QED
      BY <2>8, <3>1 DEF FileFields
  <2>10. PICK gs : gs = [fs EXCEPT ![m.nc] = g]
    OBVIOUS
  <2>11. files' = [files EXCEPT ![s] = gs]
    <3>1. files' = [files EXCEPT ![s][m.nc].defs[i].atts = atts]
      BY <1>7, <2>1, <2>2, <2>4
    <3>2. QED
      BY <2>1, <2>5, <2>7, <2>8, <2>10, <3>1
  <2>12. IsFile(s, g) /\ SameNames(f.defs, g.defs) /\ SameParts(f.defs, g.defs)
    BY <2>1, <2>3, <2>6, <2>7, <2>9, OneChanged
  <2>13. FilesOk(s, u, gs) /\ DOMAIN gs = DOMAIN fs
    BY <1>2, <2>1, <2>3, <2>10, <2>12, Changed
  <2>14. PartsThere(s, gs, requests'[s], waiting[s])
    BY <1>5, <2>1, <2>3, <2>10, <2>12, PartsKept
  <2>15. WaitingOk(u, gs, waiting[s])
    BY <1>2, <2>1, <2>13 DEF WaitingOk
  <2>16. /\ DOMAIN files' = Servers /\ \A o \in Servers \ {s} : files'[o] = files[o]
         /\ files'[s] = gs
    BY <2>11 DEF Handles, Tabled
  <2>17. QED
    BY <1>4, <1>5, <2>13, <2>14, <2>15, <2>16
       DEF Served, TablesStay, OthersStay, ServerOk, Handles, Tabled
<1>8. QED
  BY <1>3, <1>6, <1>7

\* A file is closed: the tables stay until all servers are there.
LEMMA CloseServed ==
  ASSUME NEW s, NEW c, NEW m, NEW t, NEW u, NEW call, NEW k, Handles(s, c, m, t, u, call, k),
         IoClose(s, c, m)
  PROVE  Served(s, u)
<1>1. call.op = "close" /\ m.op = "close"
  BY DEF Handles, IoClose, Meant
<1>2. /\ FilesOk(s, u, files[s]) /\ RequestsOk(s, u, requests[s])
      /\ PartsThere(s, files[s], requests[s], waiting[s]) /\ WaitingOk(u, files[s], waiting[s])
      /\ m.nc \in 1..u.open /\ m.nc \notin DOMAIN u.nc
  BY <1>1, KnownBefore
<1>3. Record(s, c, m, FALSE) /\ UNCHANGED <<files, aborted, netcdf>>
  BY DEF IoClose
<1>4. \/ waiting' = waiting
      \/ /\ m.nc \in DOMAIN files[s]
         /\ \E w : w.op = "close" /\ w.nc = m.nc /\ waiting' = [waiting EXCEPT ![s] = w]
  <2> DEFINE nc_id == files[s][m.nc].nc_id
             close == HasNc(s, m.nc) /\ Full(s, Received(s, c, m)) /\ nc_id # Invalid
  <2>1. waiting' = IF close
                      THEN [waiting EXCEPT ![s] =
                        [op |-> "close", path |-> netcdf[s][nc_id].path, nc |-> m.nc,
                         key |-> Key(m), id |-> nc_id]]
                      ELSE waiting
    BY DEF IoClose
  <2>2. PICK w : w = [op |-> "close", path |-> netcdf[s][nc_id].path, nc |-> m.nc,
                         key |-> Key(m), id |-> nc_id]
    OBVIOUS
  <2>3. w.op = "close" /\ w.nc = m.nc
    BY <2>2
  <2>4. close => m.nc \in DOMAIN files[s]
    BY DEF HasNc
  <2> HIDE DEF close, nc_id
  <2>5. QED
    BY <2>1, <2>2, <2>3, <2>4
<1>5. /\ DOMAIN requests' = Servers /\ \A o \in Servers \ {s} : requests'[o] = requests[o]
      /\ RequestsOk(s, u, requests'[s]) /\ PartsThere(s, files[s], requests'[s], waiting[s])
  BY <1>1, <1>2, <1>3, RecordedOther DEF Handles, Tabled
<1>6. /\ DOMAIN waiting' = Servers /\ \A o \in Servers \ {s} : waiting'[o] = waiting[o]
      /\ PartsThere(s, files[s], requests'[s], waiting'[s]) /\ WaitingOk(u, files[s], waiting'[s])
  <2>1. CASE waiting' = waiting
    BY <1>2, <1>5, <2>1 DEF Handles, Tabled
  <2>2. ASSUME m.nc \in DOMAIN files[s],
               NEW w, w.op = "close", w.nc = m.nc, waiting' = [waiting EXCEPT ![s] = w]
        PROVE  /\ DOMAIN waiting' = Servers /\ \A o \in Servers \ {s} : waiting'[o] = waiting[o]
               /\ PartsThere(s, files[s], requests'[s], waiting'[s])
               /\ WaitingOk(u, files[s], waiting'[s])
    <3>1. /\ DOMAIN waiting' = Servers /\ \A o \in Servers \ {s} : waiting'[o] = waiting[o]
          /\ waiting'[s] = w
      BY <2>2 DEF Handles, Tabled
    <3>2. WaitingOk(u, files[s], w)
      BY <1>2, <2>2 DEF WaitingOk
    <3>3. waiting[s].op = "none"
      BY DEF Handles
    <3>4. PartsThere(s, files[s], requests'[s], w)
      BY <1>5, <2>2, <3>3 DEF PartsThere
    <3>5. QED
      BY <3>1, <3>2, <3>4
  <2>3. QED
    BY <1>4, <2>1, <2>2
<1>7. QED
  BY <1>2, <1>3, <1>5, <1>6 DEF Served, TablesStay, OthersStay, ServerOk, Handles, Tabled

\* Numbering leaves definitions what they are.
LEMMA NumberedSame ==
  ASSUME NEW s, NEW f, IsFile(s, f), NEW g, DOMAIN g = FileFields, g.status = f.status,
         g.defs = Numbered(f.defs)
  PROVE  IsFile(s, g) /\ SameNames(f.defs, g.defs) /\ SameParts(f.defs, g.defs)
<1>1. PICK ds, es : ds = f.defs /\ es = g.defs /\ es = Numbered(ds)
  OBVIOUS
<1>2. PICK n \in Nat : DOMAIN ds = 1..n /\ Len(ds) = n
  <2>1. PICK S : ds \in Seq(S)
    BY <1>1 DEF IsFile
  <2>2. QED
    BY <2>1
<1>3. DOMAIN es = DOMAIN ds /\ es = [i \in DOMAIN ds |-> es[i]]
  BY <1>1 DEF Numbered
<1>4. ASSUME NEW i \in DOMAIN ds
      PROVE  /\ IsDef(s, es[i]) /\ es[i].kind = ds[i].kind /\ es[i].id = ds[i].id
             /\ es[i].name = ds[i].name /\ es[i].parts = ds[i].parts
  <2> DEFINE number(l) == Cardinality({j \in 1..l : ds[j].kind = ds[l].kind})
             dimId(l, v) == LET at == {j \in Positioned(ds, "dim", v) : j < l}
                            IN  IF at = {} THEN Invalid ELSE number(CHOOSE j \in at : TRUE)
             x0 == number(i)
             y0 == [l \in DOMAIN ds[i].dims |-> dimId(i, ds[i].dims[l])]
  <2>0. es[i] = [ds[i] EXCEPT !.nc = x0, !.dims = y0]
    BY <1>1 DEF Numbered
  <2> HIDE DEF x0, y0
  <2>1. \E x, y : es[i] = [ds[i] EXCEPT !.nc = x, !.dims = y]
    BY <2>0
  <2>2. PICK x, y : es[i] = [ds[i] EXCEPT !.nc = x, !.dims = y]
    BY <2>1
  <2>3. PICK d, e : d = ds[i] /\ e = es[i] /\ e = [d EXCEPT !.nc = x, !.dims = y]
    BY <2>2
  <2>4. IsDef(s, d)
    BY <1>1, <2>3 DEF IsFile
  <2>5. DOMAIN d = DefFields
    BY <2>4 DEF IsDef
  <2>6. DOMAIN e = DefFields /\ e.kind = d.kind /\ e.id = d.id /\ e.name = d.name /\ e.parts = d.parts
    BY <2>3, <2>5 DEF DefFields
  <2>7. QED
    BY <2>3, <2>4, <2>6 DEF IsDef
<1>5. PICK T : T = {es[i] : i \in DOMAIN ds}
  OBVIOUS
<1>6. es \in Seq(T)
  <2>1. es \in [1..n -> T]
    BY <1>2, <1>3, <1>5
  <2>2. QED
    BY <2>1, SeqDef
<1>7. Len(es) = Len(ds)
  BY <1>2, <1>3, <1>6
<1>8. QED
  BY <1>1, <1>3, <1>4, <1>6, <1>7 DEF IsFile, SameNames, SameParts

\* The definitions end: the calls for them are made when all clients are there.
LEMMA EnddefServed ==
  ASSUME NEW s, NEW c, NEW m, NEW t, NEW u, NEW call, NEW k, Handles(s, c, m, t, u, call, k),
         IoEnddef(s, c, m)
  PROVE  Served(s, u)
<1>1. call.op = "enddef" /\ m.op = "enddef"
  BY DEF Handles, IoEnddef, Meant
<1>2. /\ FilesOk(s, u, files[s]) /\ RequestsOk(s, u, requests[s])
      /\ PartsThere(s, files[s], requests[s], waiting[s]) /\ WaitingOk(u, files[s], waiting[s])
      /\ m.nc \in 1..u.open /\ m.nc \in DOMAIN files[s]
  BY <1>1, KnownBefore
<1>3. PICK handled \in BOOLEAN :
        /\ Record(s, c, m, handled) /\ DOMAIN netcdf' = Servers /\ aborted' \subseteq Servers
        /\ \/ UNCHANGED <<files, waiting>>
           \/ /\ files' = [files EXCEPT ![s][m.nc].defs = Numbered(files[s][m.nc].defs)]
              /\ \E w : w.op = "enddef" /\ w.nc = m.nc /\ waiting' = [waiting EXCEPT ![s] = w]
  <2> DEFINE full == HasNc(s, m.nc) /\ Full(s, Received(s, c, m))
             file == files[s][m.nc]
             first == full /\ file.status = "define"
             define == first /\ file.nc_id # Invalid
             defs == Numbered(file.defs)
             w == [op |-> "enddef", path |-> netcdf[s][file.nc_id].path, nc |-> m.nc,
                   key |-> Key(m), id |-> file.nc_id]
  <2>1. /\ Record(s, c, m, full /\ ~first)
        /\ aborted' = IF first /\ file.nc_id = Invalid /\ file.defs # << >>
                      THEN aborted \cup {s} ELSE aborted
        /\ IF define
             THEN /\ files' = [files EXCEPT ![s][m.nc].defs = defs]
                  /\ netcdf' = [netcdf EXCEPT ![s][file.nc_id].vars = NamesOf(defs, "var")]
                  /\ waiting' = [waiting EXCEPT ![s] = w]
             ELSE UNCHANGED <<files, netcdf, log, waiting>>
    BY DEF IoEnddef
  <2>2. aborted' \subseteq Servers
    BY <2>1 DEF Handles, Tabled
  <2>3. w.op = "enddef" /\ w.nc = m.nc
    OBVIOUS
  <2>4. (full /\ ~first) \in BOOLEAN
    OBVIOUS
  <2>5. DOMAIN netcdf' = Servers
    BY <2>1 DEF Handles, Tabled
  <2> HIDE DEF full, first, define, w
  <2>6. CASE define
    BY <2>1, <2>2, <2>3, <2>4, <2>5, <2>6
  <2>7. CASE ~define
    BY <2>1, <2>2, <2>4, <2>5, <2>7
  <2>8. QED
    BY <2>6, <2>7
<1>4. /\ DOMAIN requests' = Servers /\ \A o \in Servers \ {s} : requests'[o] = requests[o]
      /\ RequestsOk(s, u, requests'[s]) /\ PartsThere(s, files[s], requests'[s], waiting[s])
  BY <1>1, <1>2, <1>3, RecordedOther DEF Handles, Tabled
<1>5. CASE UNCHANGED <<files, waiting>>
  BY <1>2, <1>3, <1>4, <1>5 DEF Served, TablesStay, OthersStay, ServerOk, Handles, Tabled
<1>6. ASSUME files' = [files EXCEPT ![s][m.nc].defs = Numbered(files[s][m.nc].defs)],
             NEW w, w.op = "enddef", w.nc = m.nc, waiting' = [waiting EXCEPT ![s] = w]
      PROVE  Served(s, u)
  <2>1. PICK fs, f, es : fs = files[s] /\ f = fs[m.nc] /\ es = Numbered(f.defs)
    OBVIOUS
  <2>2. IsFile(s, f) /\ m.nc \in DOMAIN fs
    BY <1>2, <2>1 DEF FilesOk
  <2>3. PICK g : g = [f EXCEPT !.defs = es]
    OBVIOUS
  <2>4. DOMAIN g = FileFields /\ g.status = f.status /\ g.defs = es
    <3>1. DOMAIN f = FileFields
      BY <2>2 DEF IsFile
    <3>2. QED
      BY <2>3, <3>1 DEF FileFields
  <2>5. PICK gs : gs = [fs EXCEPT ![m.nc] = g]
    OBVIOUS
  <2>6. files' = [files EXCEPT ![s] = gs]
    BY <1>6, <2>1, <2>3, <2>5
  <2>7. IsFile(s, g) /\ SameNames(f.defs, g.defs) /\ SameParts(f.defs, g.defs)
    BY <2>1, <2>2, <2>4, NumberedSame
  <2>8. FilesOk(s, u, gs) /\ DOMAIN gs = DOMAIN fs
    BY <1>2, <2>1, <2>2, <2>5, <2>7, Changed
  <2>9. PartsThere(s, gs, requests'[s], waiting[s])
    BY <1>4, <2>1, <2>2, <2>5, <2>7, PartsKept
  <2>10. PartsThere(s, gs, requests'[s], w)
    <3>1. waiting[s].op = "none"
      BY DEF Handles
    <3>2. QED
      BY <1>6, <2>9, <3>1 DEF PartsThere
  <2>11. WaitingOk(u, gs, w)
    BY <1>2, <1>6, <2>1, <2>8 DEF WaitingOk
  <2>12. /\ DOMAIN files' = Servers /\ \A o \in Servers \ {s} : files'[o] = files[o]
         /\ files'[s] = gs
         /\ DOMAIN waiting' = Servers /\ \A o \in Servers \ {s} : waiting'[o] = waiting[o]
         /\ waiting'[s] = w
    BY <1>6, <2>6 DEF Handles, Tabled
  <2>13. QED
    BY <1>3, <1>4, <2>8, <2>10, <2>11, <2>12 DEF Served, TablesStay, OthersStay, ServerOk
<1>7. QED
  BY <1>3, <1>5, <1>6

\* Data of a variable is put.
LEMMA PutVaraServed ==
  ASSUME NEW s, NEW c, NEW m, NEW t, NEW u, NEW call, NEW k, Handles(s, c, m, t, u, call, k),
         IoPutVara(s, c, m)
  PROVE  Served(s, u)
<1>1. call.op = "put_vara" /\ m.op = "put_vara" /\ m.data = <<k>> /\ k \in 1..MaxCalls
  BY DEF Handles, IoPutVara, Meant
<1>2. /\ FilesOk(s, u, files[s]) /\ RequestsOk(s, u, requests[s])
      /\ PartsThere(s, files[s], requests[s], waiting[s]) /\ WaitingOk(u, files[s], waiting[s])
      /\ m.nc \in 1..u.open /\ m.nc \in DOMAIN files[s]
      /\ Positioned(files[s][m.nc].defs, "var", m.id) # {}
  BY <1>1, KnownBefore
<1>3. /\ s \in Servers /\ waiting[s].op = "none" /\ DOMAIN requests = Servers
      /\ turn[s] \in 1..Len(Group[s]) /\ c = Group[s][turn[s]]
  BY DEF Handles, Tabled
<1>4. PICK fs, f, ds : fs = files[s] /\ f = fs[m.nc] /\ ds = f.defs
  OBVIOUS
<1>5. PICK i \in DOMAIN ds : /\ i = DefAt(s, m.nc, "var", m.id) /\ DefOf(ds, "var", m.id) = ds[i]
                             /\ ds[i].kind = "var" /\ ds[i].id = m.id
                             /\ i = CHOOSE j \in Positioned(ds, "var", m.id) : TRUE
  <2>1. PICK i \in DOMAIN ds : /\ i = CHOOSE j \in Positioned(ds, "var", m.id) : TRUE
                               /\ DefOf(ds, "var", m.id) = ds[i]
                               /\ ds[i].kind = "var" /\ ds[i].id = m.id
    BY <1>2, <1>4, DefFound
  <2>2. i = DefAt(s, m.nc, "var", m.id)
    BY <1>4, <2>1 DEF DefAt
  <2>3. QED
    BY <2>1, <2>2
<1>6. HasDef(s, m.nc, "var", m.id) /\ Def(s, m.nc, "var", m.id) = ds[i]
  BY <1>2, <1>4, <1>5 DEF HasDef, HasNc, Def
<1>7. IsFile(s, f) /\ m.nc \in DOMAIN fs /\ IsDef(s, ds[i])
  <2>1. IsFile(s, f) /\ m.nc \in DOMAIN fs
    BY <1>2, <1>4 DEF FilesOk
  <2>2. QED
    BY <1>4, <2>1 DEF IsFile
<1>8. PICK old : old = ds[i].parts /\ old \in [Members(s) -> 0..MaxCalls]
  BY <1>5, <1>7 DEF IsDef
<1>9. PICK parts : parts = [old EXCEPT ![c] = k]
  OBVIOUS
<1>10. c \in Members(s) /\ MaxCalls \in Nat
  BY <1>3, ClientsOf, ProgramAssumption DEF Members
<1>11. /\ parts \in [Members(s) -> 0..MaxCalls] /\ parts[c] = k
       /\ \A d \in Members(s) : d # c => parts[d] = old[d]
  BY <1>1, <1>8, <1>9, <1>10
<1>12. ASSUME NEW j \in Bits(s, requests[s], Key(m), turn[s]) PROVE parts[Group[s][j + 1]] \in 1..MaxCalls
  <2>1. PICK n \in Nat \ {0} : n = Len(Group[s]) /\ DOMAIN Group[s] = 1..n
    BY <1>3, ClientsOf
  <2>2. j \in 0..(n - 1)
    <3>1. CASE j = turn[s] - 1
      BY <1>3, <2>1, <3>1
    <3>2. CASE Key(m) \in DOMAIN requests[s] /\ j \in Noted(requests[s][Key(m)], n)
      BY <3>2 DEF Noted
    <3>3. QED
      BY <1>12, <2>1, <3>1, <3>2 DEF Bits
  <2>3. PICK d : d = Group[s][j + 1] /\ d \in Members(s)
    BY <2>1, <2>2 DEF Members
  <2>4. CASE d = c
    BY <1>1, <1>11, <2>3, <2>4
  <2>5. CASE d # c
    <3>1. j # turn[s] - 1
      <4>1. ASSUME j = turn[s] - 1 PROVE FALSE
        <5>1. j + 1 = turn[s]
          BY <1>3, <2>1, <4>1
        <5>2. QED
          BY <1>3, <2>3, <2>5, <5>1
      <4>2. QED
        BY <4>1
    <3>2. Key(m) \in DOMAIN requests[s] /\ j \in Noted(requests[s][Key(m)], Len(Group[s]))
      BY <1>12, <3>1 DEF Bits
    <3>3. Key(m)[1] = "put_vara" /\ Key(m)[2] = m.nc /\ Key(m)[3] = m.id
      BY <1>1 DEF Key
    <3>4. DefOf(fs[m.nc].defs, "var", m.id).parts[Group[s][j + 1]] # 0
      BY <1>2, <1>3, <1>4, <3>2, <3>3 DEF PartsThere
    <3>5. old[d] # 0
      BY <1>4, <1>5, <1>8, <2>3, <3>4
    <3>6. old[d] \in 0..MaxCalls
      BY <1>8, <2>3
    <3>7. QED
      BY <1>10, <1>11, <2>3, <2>5, <3>5, <3>6
  <2>6. QED
    BY <2>4, <2>5
<1>13. PICK merge \in BOOLEAN, write \in BOOLEAN, p \in {parts, [d \in Members(s) |-> 0]} :
         /\ write => merge /\ Full(s, Received(s, c, m))
         /\ Record(s, c, m, merge /\ ~write)
         /\ p = IF merge THEN [d \in Members(s) |-> 0] ELSE parts
         /\ files' = [files EXCEPT ![s][m.nc].defs[i].parts = p]
         /\ IF write THEN \E w : /\ w.op = "put_vara" /\ w.key = Key(m)
                                 /\ w.from = {parts[d] : d \in Members(s)}
                                 /\ waiting' = [waiting EXCEPT ![s] = w]
                     ELSE waiting' = waiting
  <2> DEFINE known == HasDef(s, m.nc, "var", m.id)
             var   == Def(s, m.nc, "var", m.id)
             nc_id == files[s][m.nc].nc_id
             stored == Stored(var, c, m.data[1])
             merge == known /\ Full(s, Received(s, c, m)) /\ nc_id # Invalid /\ var.nc # Invalid
             write == merge /\ var.name \notin TextVars
             w == [op |-> "put_vara", path |-> netcdf[s][nc_id].path, nc |-> m.nc,
                   key |-> Key(m), id |-> nc_id, name |-> netcdf[s][nc_id].vars[var.nc],
                   from |-> {stored[d] : d \in Members(s)}]
             p == IF merge THEN [d \in Members(s) |-> 0] ELSE parts
  <2>1. stored = parts
    BY <1>1, <1>6, <1>8, <1>9 DEF Stored
  <2>2. /\ Record(s, c, m, merge /\ ~write)
        /\ files' = IF known
                    THEN [files EXCEPT ![s][m.nc].defs[DefAt(s, m.nc, "var", m.id)].parts =
                            IF merge THEN [d \in Members(s) |-> 0] ELSE stored]
                    ELSE files
        /\ waiting' = IF write THEN [waiting EXCEPT ![s] = w] ELSE waiting
    BY DEF IoPutVara
  <2>3. w.op = "put_vara" /\ w.key = Key(m) /\ w.from = {stored[d] : d \in Members(s)}
    OBVIOUS
  <2>4. merge \in BOOLEAN /\ write \in BOOLEAN /\ (write => merge /\ Full(s, Received(s, c, m)))
    OBVIOUS
  <2> HIDE DEF merge, write, w, stored, var
  <2>5. files' = [files EXCEPT ![s][m.nc].defs[i].parts = p]
    BY <1>5, <1>6, <2>1, <2>2
  <2>6. w.from = {parts[d] : d \in Members(s)}
    BY <2>1, <2>3
  <2>7. QED
    <3>1. p = IF merge THEN [d \in Members(s) |-> 0] ELSE parts
      OBVIOUS
    <3>2. p \in {parts, [d \in Members(s) |-> 0]}
      OBVIOUS
    <3> HIDE DEF p
    <3>3. CASE write
      BY <2>2, <2>3, <2>4, <2>5, <2>6, <3>1, <3>2, <3>3
    <3>4. CASE ~write
      BY <2>2, <2>4, <2>5, <3>1, <3>2, <3>4
    <3>5. QED
      BY <3>3, <3>4
<1>14. p \in [Members(s) -> 0..MaxCalls]
  <2>1. [d \in Members(s) |-> 0] \in [Members(s) -> 0..MaxCalls]
    BY <1>10
  <2>2. QED
    BY <1>11, <1>13, <2>1
<1>15. PICK e : e = [ds[i] EXCEPT !.parts = p]
  OBVIOUS
<1>16. IsDef(s, e) /\ e.kind = ds[i].kind /\ e.id = ds[i].id /\ e.name = ds[i].name /\ e.parts = p
  <2>1. PICK d : d = ds[i] /\ DOMAIN d = DefFields /\ d.kind = "var"
    BY <1>5, <1>7 DEF IsDef
  <2>2. e = [d EXCEPT !.parts = p]
    BY <1>15, <2>1
  <2>3. DOMAIN e = DefFields /\ e.kind = d.kind /\ e.id = d.id /\ e.name = d.name /\ e.parts = p
    BY <2>1, <2>2 DEF DefFields
  <2>4. QED
    BY <1>14, <2>1, <2>3 DEF IsDef
<1>17. PICK es : es = [ds EXCEPT ![i] = e]
  OBVIOUS
<1>18. PICK g : g = [f EXCEPT !.defs = es]
  OBVIOUS
<1>19. DOMAIN g = FileFields /\ g.status = f.status /\ g.defs = es
  <2>1. DOMAIN f = FileFields
    BY <1>7 DEF IsFile
  <2>2. QED
    BY <1>18, <2>1 DEF FileFields
<1>20. PICK gs : gs = [fs EXCEPT ![m.nc] = g]
  OBVIOUS
<1>21. files' = [files EXCEPT ![s] = gs]
  BY <1>4, <1>13, <1>15, <1>17, <1>18, <1>20
<1>22. IsFile(s, g) /\ SameNames(f.defs, g.defs)
  BY <1>4, <1>7, <1>16, <1>17, <1>19, OneChanged
<1>23. /\ FilesOk(s, u, gs) /\ DOMAIN gs = DOMAIN fs /\ gs[m.nc] = g
       /\ \A n \in DOMAIN fs : n # m.nc => gs[n] = fs[n]
  BY <1>2, <1>4, <1>7, <1>20, <1>22, Changed
<1>24. PICK handled \in BOOLEAN : handled = (merge /\ ~write)
  OBVIOUS
<1>25. /\ DOMAIN requests' = Servers /\ \A o \in Servers \ {s} : requests'[o] = requests[o]
       /\ RequestsOk(s, u, requests'[s])
       /\ NotedIn(s, requests[s], m, turn[s], handled, requests'[s])
  BY <1>2, <1>3, <1>13, <1>24, Recorded
<1>26. /\ DOMAIN waiting' = Servers /\ \A o \in Servers \ {s} : waiting'[o] = waiting[o]
       /\ write => /\ waiting'[s].op = "put_vara" /\ waiting'[s].key = Key(m)
                   /\ waiting'[s].from = {parts[d] : d \in Members(s)}
       /\ ~write => waiting'[s] = waiting[s]
  <2>1. CASE write
    BY <1>13, <2>1 DEF Handles, Tabled
  <2>2. CASE ~write
    BY <1>13, <2>2 DEF Handles, Tabled
  <2>3. QED
    BY <2>1, <2>2
<1>27. WaitingOk(u, gs, waiting'[s])
  <2>1. CASE write
    <3>1. PICK n \in Nat \ {0} : n = Len(Group[s]) /\ DOMAIN Group[s] = 1..n
      BY <1>3, ClientsOf
    <3>2. Bits(s, requests[s], Key(m), turn[s]) = 0..(n - 1)
      <4>1. PICK b : b = Received(s, c, m)
        OBVIOUS
      <4>2. /\ Noted(b, Len(Group[s])) = Bits(s, requests[s], Key(m), turn[s])
            /\ Full(s, b) <=> Noted(b, Len(Group[s])) = 0..(Len(Group[s]) - 1)
        BY <1>2, <1>3, <4>1, ReceivedIs
      <4>3. QED
        BY <1>13, <2>1, <3>1, <4>1, <4>2
    <3>3. ASSUME NEW d \in Members(s) PROVE parts[d] \in 1..MaxCalls
      <4>1. PICK j \in 1..n : d = Group[s][j]
        BY <3>1 DEF Members
      <4>2. j - 1 \in 0..(n - 1) /\ (j - 1) + 1 = j
        OBVIOUS
      <4>3. QED
        BY <1>12, <3>2, <4>1, <4>2
    <3>4. QED
      BY <1>26, <2>1, <3>3 DEF WaitingOk
  <2>2. CASE ~write
    BY <1>2, <1>3, <1>26, <2>2 DEF WaitingOk
  <2>3. QED
    BY <2>1, <2>2
<1>28. ASSUME NEW key \in DOMAIN requests'[s], key[1] = "put_vara", key[2] \in DOMAIN gs,
              ~(waiting'[s].op = "put_vara" /\ waiting'[s].key = key)
       PROVE  /\ Positioned(gs[key[2]].defs, "var", key[3]) # {}
              /\ \A j \in Noted(requests'[s][key], Len(Group[s])) :
                   DefOf(gs[key[2]].defs, "var", key[3]).parts[Group[s][j + 1]] # 0
  <2>1. \A kind, id : Positioned(es, kind, id) = Positioned(ds, kind, id)
    BY <1>4, <1>19, <1>22, SameNamesMatch
  <2>2. es[i] = e /\ \A j \in DOMAIN ds : j # i => es[j] = ds[j]
    BY <1>17
  <2>3. CASE key = Key(m)
    <3>1. ~write /\ ~handled
      BY <1>24, <1>25, <1>26, <1>28, <2>3 DEF NotedIn
    <3>2. p = parts
      BY <1>13, <1>24, <3>1
    <3>3. Noted(requests'[s][key], Len(Group[s])) = Bits(s, requests[s], Key(m), turn[s])
      BY <1>25, <2>3, <3>1 DEF NotedIn
    <3>4. key[2] = m.nc /\ key[3] = m.id
      BY <2>3 DEF Key
    <3>5. DefOf(es, "var", m.id) = e
      BY <1>5, <2>1, <2>2 DEF DefOf
    <3>6. Positioned(es, "var", m.id) # {}
      BY <1>2, <1>4, <2>1
    <3>7. \A j \in Bits(s, requests[s], Key(m), turn[s]) : parts[Group[s][j + 1]] # 0
      BY <1>10, <1>12
    <3>8. QED
      BY <1>16, <1>19, <1>23, <3>2, <3>3, <3>4, <3>5, <3>6, <3>7
  <2>4. CASE key # Key(m)
    <3>1. key \in DOMAIN requests[s] /\ requests'[s][key] = requests[s][key]
      BY <1>25, <2>4 DEF NotedIn
    <3>2. /\ Positioned(fs[key[2]].defs, "var", key[3]) # {}
          /\ \A j \in Noted(requests[s][key], Len(Group[s])) :
               DefOf(fs[key[2]].defs, "var", key[3]).parts[Group[s][j + 1]] # 0
      BY <1>2, <1>3, <1>4, <1>23, <1>28, <3>1 DEF PartsThere
    <3>3. CASE key[2] = m.nc
      <4>1. key[3] # m.id
        <5>1. key = <<key[1], key[2], key[3]>>
          BY <1>2, <3>1 DEF RequestsOk
        <5>2. QED
          BY <1>1, <1>28, <2>4, <3>3, <5>1 DEF Key
      <4>2. PICK j \in DOMAIN ds : /\ j = CHOOSE l \in Positioned(ds, "var", key[3]) : TRUE
                                   /\ DefOf(ds, "var", key[3]) = ds[j] /\ ds[j].id = key[3]
        BY <1>4, <3>2, <3>3, DefFound
      <4>3. j # i
        BY <1>5, <4>1, <4>2
      <4>4. DefOf(es, "var", key[3]) = ds[j]
        BY <2>1, <2>2, <4>2, <4>3 DEF DefOf
      <4>5. gs[key[2]].defs = es /\ fs[key[2]].defs = ds
        BY <1>4, <1>19, <1>23, <3>3
      <4>6. QED
        BY <2>1, <3>1, <3>2, <4>2, <4>4, <4>5
    <3>4. CASE key[2] # m.nc
      BY <1>23, <1>28, <3>1, <3>2, <3>4
    <3>5. QED
      BY <3>3, <3>4
  <2>5. QED
    BY <2>3, <2>4
<1>29. PartsThere(s, gs, requests'[s], waiting'[s])
  BY <1>28 DEF PartsThere
<1>30. /\ DOMAIN files' = Servers /\ \A o \in Servers \ {s} : files'[o] = files[o] /\ files'[s] = gs
  BY <1>21 DEF Handles, Tabled
<1>31. UNCHANGED <<aborted, netcdf>>
  BY DEF IoPutVara
<1>32. files'[s] = gs
  BY <1>3, <1>21 DEF Handles, Tabled
<1>33. QED
  BY <1>23, <1>25, <1>26, <1>27, <1>29, <1>30, <1>31, <1>32
     DEF Served, TablesStay, OthersStay, ServerOk, Handles, Tabled

\* Every handler leaves the tables of its server as its clients mean them.
LEMMA HandlerServed ==
  ASSUME NEW s, NEW c, NEW m, NEW t, NEW u, NEW call, NEW k, Handles(s, c, m, t, u, call, k),
         \/ IoCreate(s, c, m) \/ IoDefDim(s, c, m) \/ IoDefVar(s, c, m)
         \/ IoPutAtt(s, c, m) \/ IoEnddef(s, c, m) \/ IoPutVara(s, c, m)
         \/ IoClose(s, c, m)
  PROVE  Served(s, u)
<1>1. CASE IoCreate(s, c, m)
  BY <1>1, CreateServed
<1>2. CASE IoDefDim(s, c, m)
  BY <1>2, DimServed
<1>3. CASE IoDefVar(s, c, m)
  BY <1>3, VarServed
<1>4. CASE IoPutAtt(s, c, m)
  BY <1>4, AttServed
<1>5. CASE IoEnddef(s, c, m)
  BY <1>5, EnddefServed
<1>6. CASE IoPutVara(s, c, m)
  BY <1>6, PutVaraServed
<1>7. CASE IoClose(s, c, m)
  BY <1>7, CloseServed
<1>8. QED
  BY <1>1, <1>2, <1>3, <1>4, <1>5, <1>6, <1>7

\* A message that a server decodes is handled, with the tables it needs.
LEMMA DecodeHandles ==
  ASSUME NEW h, Serves(h), NEW s \in Servers, Decode(s), NEW c, c = Group[s][turn[s]],
         NEW m, m = Unpacked(Head(inbox[c])), NEW k, k = Taken(s)'
  PROVE  /\ Handles(s, c, m, h[k - 1], h[k], calls[k], k) /\ Takes(h, s, c, k, m)
         /\ \/ IoCreate(s, c, m) \/ IoDefDim(s, c, m) \/ IoDefVar(s, c, m)
            \/ IoPutAtt(s, c, m) \/ IoEnddef(s, c, m) \/ IoPutVara(s, c, m)
            \/ IoClose(s, c, m)
         /\ Followed(h, calls, made, names, inbox)'
         /\ \A o \in Servers : Round(o)' /\ (o # s => Taken(o)' = Taken(o))
<1>1. /\ Hist(h, calls) /\ Followed(h, calls, made, names, inbox)
      /\ Tabled /\ (\A o \in Servers : Round(o)) /\ DOMAIN turn = Servers
      /\ \A o \in Servers : ServerOk(o, h[Taken(o)], files[o], requests[o], waiting[o])
  BY DEF Serves, Tabled
<1>2. /\ Followed(h, calls, made, names, inbox)'
      /\ \A o \in Servers : Round(o)' /\ (o # s => Taken(o)' = Taken(o))
      /\ Takes(h, s, c, k, m)
  BY <1>1, DecodeTakes
<1>3. /\ waiting[s].op = "none"
      /\ \/ IoCreate(s, c, m) \/ IoDefDim(s, c, m) \/ IoDefVar(s, c, m)
         \/ IoPutAtt(s, c, m) \/ IoEnddef(s, c, m) \/ IoPutVara(s, c, m)
         \/ IoClose(s, c, m)
  BY DEF Decode
<1>4. PICK t, u, call : t = h[k - 1] /\ u = h[k] /\ call = calls[k]
  OBVIOUS
<1>5. Handles(s, c, m, t, u, call, k)
  <2>1. turn[s] \in 1..Len(Group[s])
    BY <1>1 DEF Round
  <2>2. ServerOk(s, IF turn[s] = 1 THEN t ELSE u, files[s], requests[s], waiting[s])
    <3>1. h[Taken(s)] = IF turn[s] = 1 THEN t ELSE u
      BY <1>2, <1>4 DEF Takes
    <3>2. QED
      BY <1>1, <3>1
  <2>3. k \in 1..MaxCalls
    <3>1. Len(calls) \in 0..MaxCalls /\ k \in 1..Len(calls)
      BY <1>1, <1>2 DEF Followed, Takes
    <3>2. QED
      BY <3>1, ProgramAssumption
  <2>4. QED
    BY <1>1, <1>2, <1>3, <1>4, <2>1, <2>2, <2>3 DEF Handles, Takes
<1>6. QED
  BY <1>2, <1>3, <1>4, <1>5

\* A server decodes a message.
LEMMA DecodeServes ==
  ASSUME NEW h, Serves(h), NEW s \in Servers, Decode(s)
  PROVE  Serves(h)'
<1>1. /\ Hist(h, calls) /\ DOMAIN turn = Servers
      /\ \A o \in Servers : ServerOk(o, h[Taken(o)], files[o], requests[o], waiting[o])
  BY DEF Serves, Tabled
<1>2. PICK c, m, k : /\ c = Group[s][turn[s]] /\ m = Unpacked(Head(inbox[c])) /\ k = Taken(s)'
  OBVIOUS
<1>3. PICK t, u, call : t = h[k - 1] /\ u = h[k] /\ call = calls[k]
  OBVIOUS
<1>4. /\ Handles(s, c, m, t, u, call, k)
      /\ \/ IoCreate(s, c, m) \/ IoDefDim(s, c, m) \/ IoDefVar(s, c, m)
         \/ IoPutAtt(s, c, m) \/ IoEnddef(s, c, m) \/ IoPutVara(s, c, m)
         \/ IoClose(s, c, m)
      /\ Followed(h, calls, made, names, inbox)'
      /\ \A o \in Servers : Round(o)' /\ (o # s => Taken(o)' = Taken(o))
  BY <1>2, <1>3, DecodeHandles
<1>5. /\ UNCHANGED calls
      /\ turn' = [turn EXCEPT ![s] = IF @ = Len(Group[s]) THEN 1 ELSE @ + 1]
  BY DEF Decode, clientVars
<1>6. Served(s, u)
  BY <1>4, HandlerServed
<1>7. Tabled'
  <2>1. DOMAIN turn' = Servers
    BY <1>1, <1>5
  <2>2. TablesStay
    BY <1>6 DEF Served
  <2>3. QED
    BY <2>1, <2>2 DEF Tabled, TablesStay
<1>8. ASSUME NEW o \in Servers
      PROVE  ServerOk(o, h[Taken(o)'], files'[o], requests'[o], waiting'[o])
  <2>1. CASE o = s
    BY <1>2, <1>3, <1>6, <2>1 DEF Served
  <2>2. CASE o # s
    BY <1>1, <1>4, <1>6, <2>2 DEF Served, OthersStay
  <2>3. QED
    BY <2>1, <2>2
<1>9. Hist(h, calls)'
  BY <1>1, <1>5
<1>10. QED
  BY <1>4, <1>7, <1>8, <1>9 DEF Serves

\* A client makes its next call.
LEMMA ClientServes ==
  ASSUME NEW h, Serves(h), NEW c \in Clients, Client(c)
  PROVE  \E g : /\ Serves(g)' /\ Longer(h, calls, g, calls')
                /\ \A s \in Servers : Taken(s)' = Taken(s)
<1>1. /\ Hist(h, calls) /\ Followed(h, calls, made, names, inbox)
      /\ Tabled /\ (\A o \in Servers : Round(o))
      /\ \A o \in Servers : ServerOk(o, h[Taken(o)], files[o], requests[o], waiting[o])
  BY DEF Serves
<1>2. PICK g : /\ Hist(g, calls') /\ Followed(g, calls', made', names', inbox')
               /\ Longer(h, calls, g, calls')
               /\ \A d \in Clients : Decoded(d)' = Decoded(d) /\ (inbox[d] # << >> => inbox'[d] # << >>)
  BY <1>1, ClientFollows
<1>3. UNCHANGED <<turn, files, requests, waiting, aborted, netcdf>>
  BY DEF Client
<1>4. Tabled'
  BY <1>1, <1>3 DEF Tabled
<1>5. ASSUME NEW s \in Servers
      PROVE  /\ Round(s)' /\ Taken(s)' = Taken(s)
             /\ ServerOk(s, g[Taken(s)'], files'[s], requests'[s], waiting'[s])
  <2>1. Round(s)' /\ Taken(s)' = Taken(s)
    BY <1>1, <1>2, <1>3, ClientRound
  <2>2. Taken(s) \in 0..Len(calls)
    <3>1. Group[s][1] \in Clients
      BY ClientsOf
    <3>2. QED
      BY <1>1, <3>1, DecodedType DEF Taken
  <2>3. g[Taken(s)] = h[Taken(s)]
    BY <1>2, <2>2 DEF Longer
  <2>4. QED
    BY <1>1, <1>3, <2>1, <2>3
<1>6. Serves(g)'
  BY <1>2, <1>4, <1>5 DEF Serves
<1>7. QED
  BY <1>2, <1>5, <1>6

\* At the start there is nothing.
LEMMA InitServes ==
  ASSUME Init
  PROVE  \E h : Serves(h)
<1>2. PICK h : Hist(h, << >>) /\ h[0] = Empty
  BY HistInit
<1>3. MaxCalls \in Nat /\ MaxAhead \in Nat
  BY ProgramAssumption, GroupsAssumption
<1>4. Len(<< >>) = 0 /\ << >> \in Seq(Msgs(h, << >>)) /\ 0 \in 0..0 /\ \A i \in 1..0 : FALSE
  OBVIOUS
<1>5. Queued(h, << >>, 0, << >>)
  BY <1>4 DEF Queued
<1>6. Followed(h, calls, made, names, inbox)
  <2>1. Len(<< >>) \in 0..MaxCalls /\ Len(<< >>) <= MaxAhead
    BY <1>3
  <2>2. made \in [Clients -> 0..Len(<< >>)]
    BY <1>4 DEF Init
  <2>3. names = [d \in Clients |-> h[made[d]]]
    BY <1>2 DEF Init, Empty
  <2>4. DOMAIN inbox = Clients /\ inbox = [d \in Clients |-> inbox[d]] /\ \A d \in Clients : inbox[d] = << >>
    BY DEF Init
  <2>5. calls = << >> /\ \A d \in Clients : made[d] = 0
    BY DEF Init
  <2>6. QED
    BY <1>5, <2>1, <2>2, <2>3, <2>4, <2>5 DEF Followed
<1>7. ASSUME NEW s \in Servers PROVE Round(s) /\ Taken(s) = 0
  <2>1. \A i \in DOMAIN Group[s] : Decoded(Group[s][i]) = 0
    <3>1. \A i \in DOMAIN Group[s] : Group[s][i] \in Clients
      BY ClientsOf
    <3>2. \A d \in Clients : made[d] = 0 /\ inbox[d] = << >>
      BY DEF Init
    <3>3. QED
      BY <1>4, <3>1, <3>2 DEF Decoded
  <2>2. Taken(s) = 0
    BY <2>1, ClientsOf DEF Taken
  <2>3. turn[s] = 1 /\ 1 \in 1..Len(Group[s])
    BY ClientsOf DEF Init
  <2>4. QED
    BY <2>1, <2>2, <2>3 DEF Round
<1>8. DOMAIN EmptyFcn = {}
  BY DEF EmptyFcn
<1>9. ASSUME NEW s \in Servers PROVE ServerOk(s, Empty, EmptyFcn, EmptyFcn, Idle)
  <2>1. DOMAIN Empty.nc = {}
    BY <1>8 DEF Empty
  <2>2. FilesOk(s, Empty, EmptyFcn)
    BY <1>8, <2>1 DEF FilesOk
  <2>3. RequestsOk(s, Empty, EmptyFcn) /\ PartsThere(s, EmptyFcn, EmptyFcn, Idle)
    BY <1>8 DEF RequestsOk, PartsThere
  <2>4. Idle.op = "none"
    BY DEF Idle
  <2>5. WaitingOk(Empty, EmptyFcn, Idle)
    BY <2>4 DEF WaitingOk
  <2>6. QED
    BY <2>2, <2>3, <2>5 DEF ServerOk
<1>10. \A s \in Servers : files[s] = EmptyFcn /\ requests[s] = EmptyFcn /\ waiting[s] = Idle
  BY DEF Init
<1>11. Tabled
  BY DEF Init, Tabled
<1>12. Hist(h, calls)
  BY <1>2 DEF Init
<1>13. QED
  BY <1>2, <1>6, <1>7, <1>9, <1>10, <1>11, <1>12 DEF Serves

\* A file gets another netCDF id or status.
LEMMA FileAltered ==
  ASSUME NEW s, NEW tab, NEW fs, NEW rq, NEW w, FilesOk(s, tab, fs), PartsThere(s, fs, rq, w),
         NEW nc \in DOMAIN fs, NEW g, DOMAIN g = FileFields, g.status \in {"define", "data"},
         g.defs = fs[nc].defs, NEW gs, gs = [fs EXCEPT ![nc] = g]
  PROVE  FilesOk(s, tab, gs) /\ PartsThere(s, gs, rq, w)
<1>1. IsFile(s, fs[nc])
  BY DEF FilesOk
<1>2. IsFile(s, g)
  BY <1>1 DEF IsFile
<1>3. SameNames(fs[nc].defs, g.defs) /\ SameParts(fs[nc].defs, g.defs)
  BY DEF SameNames, SameParts
<1>4. FilesOk(s, tab, gs)
  BY <1>2, <1>3, Changed
<1>5. PartsThere(s, gs, rq, w)
  BY <1>3, PartsKept
<1>6. QED
  BY <1>4, <1>5

\* When a library call returns, its request is removed.
LEMMA RequestRemoved ==
  ASSUME NEW s, NEW tab, NEW fs, NEW rq, NEW w, RequestsOk(s, tab, rq), PartsThere(s, fs, rq, w),
         NEW rs, rs = Removed(rq, w.key)
  PROVE  RequestsOk(s, tab, rs) /\ PartsThere(s, fs, rs, Idle)
<1>1. /\ \A key \in DOMAIN rs : key \in DOMAIN rq /\ key # w.key /\ rs[key] = rq[key]
  BY DEF Removed, Without
<1>2. RequestsOk(s, tab, rs)
  BY <1>1 DEF RequestsOk
<1>3. PartsThere(s, fs, rs, Idle)
  BY <1>1 DEF PartsThere
<1>4. QED
  BY <1>2, <1>3

\* A server that waits for nothing.
LEMMA IdleOk ==
  ASSUME NEW tab, NEW fs
  PROVE  WaitingOk(tab, fs, Idle)
<1>1. Idle.op = "none"
  BY DEF Idle
<1>2. QED
  BY <1>1 DEF WaitingOk

\* The library calls return to every server.
LEMMA ReturnServes ==
  ASSUME NEW h, Serves(h), CollectiveReturns
  PROVE  Serves(h)'
<1>1. /\ Hist(h, calls) /\ Followed(h, calls, made, names, inbox)
      /\ Tabled /\ (\A o \in Servers : Round(o))
      /\ \A o \in Servers : ServerOk(o, h[Taken(o)], files[o], requests[o], waiting[o])
  BY DEF Serves
<1>2. /\ UNCHANGED <<calls, made, names, inbox, turn, aborted>>
      /\ waiting' = [s \in Servers |-> Idle]
  BY DEF CollectiveReturns, CreateReturns, EnddefReturns, PutVaraReturns, CloseReturns, Return,
      clientVars
<1>3. /\ DOMAIN files' = Servers /\ DOMAIN requests' = Servers /\ DOMAIN netcdf' = Servers
      /\ \A s \in Servers : ServerOk(s, h[Taken(s)], files'[s], requests'[s], Idle)
  <2>1. CASE CreateReturns
    <3>1. ASSUME NEW s \in Servers, NEW fs, NEW w, fs = files[s], w = waiting[s]
          PROVE  /\ w.nc \in DOMAIN fs /\ FilesOk(s, h[Taken(s)], fs)
                 /\ RequestsOk(s, h[Taken(s)], requests[s]) /\ PartsThere(s, fs, requests[s], Idle)
      <4>1. ServerOk(s, h[Taken(s)], fs, requests[s], w)
        BY <1>1, <3>1
      <4>2. w.op = "create"
        BY <2>1, <3>1 DEF CreateReturns, Together
      <4>3. Idle.op = "none"
        BY DEF Idle
      <4>4. QED
        BY <4>1, <4>2, <4>3 DEF ServerOk, WaitingOk, PartsThere
    <3>2. CASE /\ files' = [s \in Servers |-> [files[s] EXCEPT ![waiting[s].nc].nc_id = NewNcId(s)]]
               /\ netcdf' = [s \in Servers |->
                    With(netcdf[s], NewNcId(s), [path |-> waiting[s].path, define |-> TRUE, vars |-> << >>])]
      <4>1. requests' = requests
        BY <2>1 DEF CreateReturns
      <4>2. ASSUME NEW s \in Servers PROVE ServerOk(s, h[Taken(s)], files'[s], requests[s], Idle)
        <5>1. PICK fs, w, id, rq : fs = files[s] /\ w = waiting[s] /\ id = NewNcId(s) /\ rq = requests[s]
          OBVIOUS
        <5>2. /\ w.nc \in DOMAIN fs /\ FilesOk(s, h[Taken(s)], fs)
              /\ RequestsOk(s, h[Taken(s)], rq) /\ PartsThere(s, fs, rq, Idle)
          BY <3>1, <5>1
        <5>3. PICK g : g = [fs[w.nc] EXCEPT !.nc_id = id]
          OBVIOUS
        <5>4. PICK gs : gs = [fs EXCEPT ![w.nc] = g]
          OBVIOUS
        <5>5. files'[s] = gs
          BY <3>2, <5>1, <5>2, <5>3, <5>4
        <5>6. DOMAIN g = FileFields /\ g.status \in {"define", "data"} /\ g.defs = fs[w.nc].defs
          <6>1. DOMAIN fs[w.nc] = FileFields /\ fs[w.nc].status \in {"define", "data"}
            BY <5>2 DEF FilesOk, IsFile
          <6>2. QED
            BY <5>3, <6>1 DEF FileFields
        <5>7. FilesOk(s, h[Taken(s)], gs) /\ PartsThere(s, gs, rq, Idle)
          BY <5>2, <5>4, <5>6, FileAltered, Zenon
        <5>8. QED
          BY <5>1, <5>2, <5>5, <5>7, IdleOk DEF ServerOk
      <4>3. QED
        BY <1>1, <3>2, <4>1, <4>2 DEF Tabled
    <3>3. CASE UNCHANGED <<files, netcdf, log>>
      <4>1. requests' = requests
        BY <2>1 DEF CreateReturns
      <4>2. QED
        BY <1>1, <3>1, <3>3, <4>1, IdleOk DEF ServerOk, Tabled
    <3>4. QED
      BY <2>1, <3>2, <3>3 DEF CreateReturns
  <2>2. CASE EnddefReturns
    <3>1. /\ \A s \in Servers : waiting[s].op = "enddef"
          /\ requests' = [s \in Servers |-> Removed(requests[s], waiting[s].key)]
          /\ files' = [s \in Servers |-> [files[s] EXCEPT ![waiting[s].nc].status = "data"]]
          /\ DOMAIN netcdf' = Servers
      BY <2>2 DEF EnddefReturns, Together, RemoveAll
    <3>2. ASSUME NEW s \in Servers PROVE ServerOk(s, h[Taken(s)], files'[s], requests'[s], Idle)
      <4>1. PICK fs, w, rq : fs = files[s] /\ w = waiting[s] /\ rq = requests[s]
        OBVIOUS
      <4>2. ServerOk(s, h[Taken(s)], fs, rq, w) /\ w.op = "enddef"
        BY <1>1, <3>1, <4>1
      <4>3. /\ w.nc \in DOMAIN fs /\ FilesOk(s, h[Taken(s)], fs)
            /\ RequestsOk(s, h[Taken(s)], rq) /\ PartsThere(s, fs, rq, w)
        BY <4>2 DEF ServerOk, WaitingOk
      <4>4. PICK rs : rs = Removed(rq, w.key)
        OBVIOUS
      <4>5. RequestsOk(s, h[Taken(s)], rs) /\ PartsThere(s, fs, rs, Idle) /\ requests'[s] = rs
        <5>1. requests'[s] = rs
          BY <3>1, <4>1, <4>4
        <5>2. QED
          BY <4>3, <4>4, <5>1, RequestRemoved
      <4>6. PICK g : g = [fs[w.nc] EXCEPT !.status = "data"]
        OBVIOUS
      <4>7. PICK gs : gs = [fs EXCEPT ![w.nc] = g]
        OBVIOUS
      <4>8. files'[s] = gs
        BY <3>1, <4>1, <4>3, <4>6, <4>7
      <4>9. DOMAIN g = FileFields /\ g.status \in {"define", "data"} /\ g.defs = fs[w.nc].defs
        <5>1. DOMAIN fs[w.nc] = FileFields
          BY <4>3 DEF FilesOk, IsFile
        <5>2. QED
          BY <4>6, <5>1 DEF FileFields
      <4>10. FilesOk(s, h[Taken(s)], gs) /\ PartsThere(s, gs, rs, Idle)
        BY <4>3, <4>5, <4>7, <4>9, FileAltered
      <4>11. QED
        BY <4>5, <4>8, <4>10, IdleOk DEF ServerOk
    <3>3. QED
      BY <3>1, <3>2
  <2>3. CASE PutVaraReturns
    <3>1. /\ requests' = [s \in Servers |-> Removed(requests[s], waiting[s].key)]
          /\ files' = files /\ netcdf' = netcdf
      BY <2>3 DEF PutVaraReturns, RemoveAll
    <3>2. ASSUME NEW s \in Servers PROVE ServerOk(s, h[Taken(s)], files'[s], requests'[s], Idle)
      <4>1. PICK rs : rs = Removed(requests[s], waiting[s].key)
        OBVIOUS
      <4>2. /\ FilesOk(s, h[Taken(s)], files[s])
            /\ RequestsOk(s, h[Taken(s)], requests[s]) /\ PartsThere(s, files[s], requests[s], waiting[s])
        BY <1>1 DEF ServerOk
      <4>3. RequestsOk(s, h[Taken(s)], rs) /\ PartsThere(s, files[s], rs, Idle)
        BY <4>1, <4>2, RequestRemoved
      <4>4. QED
        BY <3>1, <4>1, <4>2, <4>3, IdleOk DEF ServerOk
    <3>3. QED
      BY <1>1, <3>1, <3>2 DEF Tabled
  <2>4. CASE CloseReturns
    <3>1. /\ \A s \in Servers : waiting[s].op = "close"
          /\ requests' = [s \in Servers |-> Removed(requests[s], waiting[s].key)]
          /\ files' = [s \in Servers |-> Without(files[s], waiting[s].nc)]
          /\ DOMAIN netcdf' = Servers
      BY <2>4 DEF CloseReturns, Together, RemoveAll, Closed
    <3>2. ASSUME NEW s \in Servers PROVE ServerOk(s, h[Taken(s)], files'[s], requests'[s], Idle)
      <4>1. PICK fs, w, rq : fs = files[s] /\ w = waiting[s] /\ rq = requests[s]
        OBVIOUS
      <4>2. ServerOk(s, h[Taken(s)], fs, rq, w) /\ w.op = "close"
        BY <1>1, <3>1, <4>1
      <4>3. /\ w.nc \notin DOMAIN h[Taken(s)].nc /\ FilesOk(s, h[Taken(s)], fs)
            /\ RequestsOk(s, h[Taken(s)], rq) /\ PartsThere(s, fs, rq, w)
        BY <4>2 DEF ServerOk, WaitingOk
      <4>4. PICK rs : rs = Removed(rq, w.key)
        OBVIOUS
      <4>5. RequestsOk(s, h[Taken(s)], rs) /\ PartsThere(s, fs, rs, Idle)
        BY <4>3, <4>4, RequestRemoved
      <4>6. requests'[s] = rs
        BY <3>1, <4>1, <4>4
      <4>7. PICK gs : gs = Without(fs, w.nc)
        OBVIOUS
      <4>8. DOMAIN gs = DOMAIN fs \ {w.nc} /\ \A n \in DOMAIN gs : gs[n] = fs[n]
        BY <4>7 DEF Without
      <4>9. FilesOk(s, h[Taken(s)], gs)
        BY <4>3, <4>8 DEF FilesOk
      <4>10. PartsThere(s, gs, rs, Idle)
        BY <4>5, <4>8 DEF PartsThere
      <4>11. files'[s] = gs
        BY <3>1, <4>1, <4>7
      <4>12. QED
        BY <4>5, <4>6, <4>9, <4>10, <4>11, IdleOk DEF ServerOk
    <3>3. QED
      BY <3>1, <3>2
  <2>5. QED
    BY <2>1, <2>2, <2>3, <2>4 DEF CollectiveReturns
<1>4. \A c \in Clients : Decoded(c)' = Decoded(c)
  BY <1>2 DEF Decoded
<1>5. ASSUME NEW s \in Servers PROVE Round(s)' /\ Taken(s)' = Taken(s)
  BY <1>1, <1>2, <1>4, ClientRound
<1>6. Tabled'
  BY <1>1, <1>2, <1>3 DEF Tabled
<1>7. Hist(h, calls)' /\ Followed(h, calls, made, names, inbox)'
  BY <1>1, <1>2
<1>8. \A s \in Servers : ServerOk(s, h[Taken(s)'], files'[s], requests'[s], waiting'[s])
  BY <1>2, <1>3, <1>5
<1>9. QED
  BY <1>5, <1>6, <1>7, <1>8 DEF Serves

\* The invariant is inductive.
THEOREM Invariant == Spec => []IInv
<1>1. Init => IInv
  BY InitServes DEF IInv
<1>2. IInv /\ [Next]_vars => IInv'
  <2>1. SUFFICES ASSUME IInv, [Next]_vars PROVE IInv'
    OBVIOUS
  <2>2. PICK h : Serves(h)
    BY <2>1 DEF IInv
  <2>3. CASE UNCHANGED vars
    <3>1. Serves(h)'
      BY <2>2, <2>3 DEF vars, Serves, Tabled, Round, Taken, Decoded
    <3>2. QED
      BY <3>1 DEF IInv
  <2>4. ASSUME NEW c \in Clients, Client(c) PROVE IInv'
    BY <2>2, <2>4, ClientServes DEF IInv
  <2>5. ASSUME NEW s \in Servers, Decode(s) PROVE IInv'
    BY <2>2, <2>5, DecodeServes DEF IInv
  <2>6. CASE CollectiveReturns
    BY <2>2, <2>6, ReturnServes DEF IInv
  <2>7. CASE Terminating
    BY <2>3, <2>7 DEF Terminating
  <2>8. QED
    BY <2>1, <2>3, <2>4, <2>5, <2>6, <2>7 DEF Next
<1>3. QED
  BY <1>1, <1>2, PTL DEF Spec

\* A message is as long as it says and as long as it is read to be: so the
\* server cuts the messages of a client at the places where they were joined.
THEOREM SizesCorrect == Spec => []SizesAgree
<1>1. IInv => SizesAgree
  <2>1. SUFFICES ASSUME IInv, NEW c \in Clients, NEW i \in DOMAIN inbox[c],
                        NEW msg, msg = inbox[c][i]
                 PROVE  msg[1][2] = Packed(msg) /\ msg[1][2] = Unpacked(msg).read
    BY DEF SizesAgree, Packed
  <2>2. PICK h : Hist(h, calls) /\ Followed(h, calls, made, names, inbox)
    BY <2>1 DEF IInv, Serves
  <2>3. Queued(h, calls, made[c], inbox[c]) /\ Len(calls) \in Nat
    BY <2>2, ProgramAssumption DEF Followed
  <2>4. inbox[c] \in Seq(Msgs(h, calls))
    BY <2>3 DEF Queued
  <2>5. msg \in Msgs(h, calls)
    BY <2>1, <2>4
  <2>6. PICK k \in 1..Len(calls) : msg = Sent(h[k - 1], calls[k], k)
    BY <2>5 DEF Msgs, SentAt
  <2>7. k - 1 \in 0..Len(calls) /\ k \in Nat
    BY <2>3
  <2>8. PICK t, call : t = h[k - 1] /\ call = calls[k]
    OBVIOUS
  <2>9. TableOk(t) /\ Fits(t, call) /\ msg = Sent(t, call, k)
    BY <2>2, <2>6, <2>7, <2>8 DEF Hist
  <2>10. QED
    BY <2>7, <2>9, SentRead
<1>2. QED
  BY <1>1, Invariant, PTL

\* What IInv says of one server.
LEMMA ServerIs ==
  ASSUME IInv, NEW s \in Servers
  PROVE  \E tab : ServerOk(s, tab, files[s], requests[s], waiting[s])
<1>1. QED
  BY DEF IInv, Serves

\* The variables stay in their types.
THEOREM TypeCorrect == Spec => []TypeOK
<1>1. IInv => TypeOK
  <2>1. SUFFICES ASSUME IInv PROVE TypeOK
    OBVIOUS
  <2>2. PICK h : /\ Hist(h, calls) /\ Followed(h, calls, made, names, inbox)
                 /\ Tabled /\ \A s \in Servers : Round(s)
    BY <2>1 DEF IInv, Serves
  <2>3. Len(calls) \in 0..MaxCalls /\ MaxCalls \in Nat /\ made \in [Clients -> 0..Len(calls)]
    BY <2>2, ProgramAssumption DEF Followed
  <2>4. 0..Len(calls) \subseteq 0..MaxCalls
    BY <2>3
  <2>5. made \in [Clients -> 0..MaxCalls] /\ Len(calls) <= MaxCalls
    BY <2>3, <2>4
  <2>6. \A c \in Clients : Len(inbox[c]) <= MaxAhead /\ made[c] <= Len(calls)
    BY <2>2, <2>3 DEF Followed
  <2>7. ASSUME NEW s \in Servers
        PROVE  /\ turn[s] \in 1..Len(Group[s])
               /\ \A nc \in DOMAIN files[s] : files[s][nc].status \in {"define", "data"}
               /\ \A key \in DOMAIN requests[s] : Callers(s, key) # {}
               /\ waiting[s].op \in {"none", "create", "enddef", "put_vara", "close"}
               /\ waiting[s].op = "put_vara" => waiting[s].from \subseteq 1..MaxCalls
    <3>1. PICK tab : ServerOk(s, tab, files[s], requests[s], waiting[s])
      BY <2>1, ServerIs
    <3>2. turn[s] \in 1..Len(Group[s])
      BY <2>2 DEF Round
    <3>3. \A nc \in DOMAIN files[s] : files[s][nc].status \in {"define", "data"}
      BY <3>1 DEF ServerOk, FilesOk, IsFile
    <3>4. \A key \in DOMAIN requests[s] : Callers(s, key) # {}
      BY <3>1 DEF ServerOk, RequestsOk, Callers
    <3>5. QED
      BY <3>1, <3>2, <3>3, <3>4 DEF ServerOk, WaitingOk
  <2>8. aborted \subseteq Servers
    BY <2>2 DEF Tabled
  <2>9. QED
    BY <2>5, <2>6, <2>7, <2>8 DEF TypeOK
<1>2. QED
  BY <1>1, Invariant, PTL

\* Every client that is noted for a put_vara has left a part: the merge finds
\* one of each, whatever calls went before.
THEOREM PartsCorrect == Spec => []BitsHaveParts
<1>1. IInv => BitsHaveParts
  <2>1. SUFFICES ASSUME IInv, NEW s \in Servers, NEW key \in DOMAIN requests[s],
                        key[1] = "put_vara", HasDef(s, key[2], "var", key[3]), waiting[s].op # "put_vara",
                        NEW c \in Callers(s, key)
                 PROVE  Def(s, key[2], "var", key[3]).parts[c] # 0
    BY DEF BitsHaveParts
  <2>2. PICK tab : ServerOk(s, tab, files[s], requests[s], waiting[s])
    BY <2>1, ServerIs
  <2>3. key[2] \in DOMAIN files[s]
    BY <2>1 DEF HasDef, HasNc
  <2>4. \A i \in Noted(requests[s][key], Len(Group[s])) :
          DefOf(files[s][key[2]].defs, "var", key[3]).parts[Group[s][i + 1]] # 0
    BY <2>1, <2>2, <2>3 DEF ServerOk, PartsThere
  <2>5. Def(s, key[2], "var", key[3]) = DefOf(files[s][key[2]].defs, "var", key[3])
    BY DEF Def, DefAt, DefOf
  <2>6. QED
    BY <2>1, <2>4, <2>5 DEF Callers
<1>2. QED
  BY <1>1, Invariant, PTL

(* The files keep their ids in the netCDF library, and those their paths.    *)
Alike(fs, gs) ==
  DOMAIN gs = DOMAIN fs /\ \A n \in DOMAIN fs : gs[n].nc_id = fs[n].nc_id

NetTyped(nd) == \A id \in DOMAIN nd : DOMAIN nd[id] = NcFields

SamePaths(nd, ne) ==
  /\ DOMAIN ne = DOMAIN nd /\ NetTyped(ne)
  /\ \A id \in DOMAIN nd : ne[id].path = nd[id].path

Keeps(s) ==
  /\ Alike(files[s], files'[s]) /\ SamePaths(netcdf[s], netcdf'[s])
  /\ waiting'[s].op # "create" /\ WaitsFor(files'[s], waiting'[s])
  /\ \A o \in Servers \ {s} : netcdf'[o] = netcdf[o]

\* The files of a server, while it handles a message.
LEMMA FilesTyped ==
  ASSUME NEW s, NEW c, NEW m, NEW t, NEW u, NEW call, NEW k, Handles(s, c, m, t, u, call, k)
  PROVE  /\ DOMAIN files = Servers /\ DOMAIN waiting = Servers /\ DOMAIN netcdf = Servers
         /\ s \in Servers /\ waiting[s].op = "none"
         /\ \A n \in DOMAIN files[s] : DOMAIN files[s][n] = FileFields
<1>1. PICK tab : ServerOk(s, tab, files[s], requests[s], waiting[s])
  BY DEF Handles
<1>2. \A n \in DOMAIN files[s] : DOMAIN files[s][n] = FileFields
  BY <1>1 DEF ServerOk, FilesOk, IsFile
<1>3. QED
  BY <1>2 DEF Handles, Tabled

\* Other definitions leave the ids of the files alone.
LEMMA DefsAlike ==
  ASSUME DOMAIN files = Servers, NEW s \in Servers, NEW n \in DOMAIN files[s],
         DOMAIN files[s][n] = FileFields, NEW x, files' = [files EXCEPT ![s][n].defs = x]
  PROVE  Alike(files[s], files'[s])
<1>1. PICK fs, f : fs = files[s] /\ f = fs[n]
  OBVIOUS
<1>2. PICK g : g = [f EXCEPT !.defs = x]
  OBVIOUS
<1>3. PICK gs : gs = [fs EXCEPT ![n] = g]
  OBVIOUS
<1>4. files' = [files EXCEPT ![s] = gs]
  BY <1>1, <1>2, <1>3
<1>5. files'[s] = gs
  BY <1>4
<1>6. g.nc_id = f.nc_id
  BY <1>1, <1>2 DEF FileFields
<1>7. Alike(fs, gs)
  BY <1>1, <1>3, <1>6 DEF Alike
<1>8. QED
  BY <1>1, <1>5, <1>7

\* Nothing happens in the library.
LEMMA LibraryKeeps ==
  ASSUME NEW s, NEW c, NEW m, NEW t, NEW u, NEW call, NEW k, Handles(s, c, m, t, u, call, k),
         NetTyped(netcdf[s]), netcdf' = netcdf, Alike(files[s], files'[s]),
         waiting'[s].op # "create" /\ WaitsFor(files'[s], waiting'[s])
  PROVE  Keeps(s)
<1>1. SamePaths(netcdf[s], netcdf'[s])
  BY DEF SamePaths
<1>2. QED
  BY <1>1 DEF Keeps

\* A server that waits for nothing relies on nothing.
LEMMA IdleWaits ==
  ASSUME NEW fs, NEW w, w.op = "none"
  PROVE  w.op # "create" /\ WaitsFor(fs, w)
BY DEF WaitsFor

\* Dimensions and variables are mapped.
LEMMA DefsKeep ==
  ASSUME NEW s, NEW c, NEW m, NEW t, NEW u, NEW call, NEW k, Handles(s, c, m, t, u, call, k),
         NetTyped(netcdf[s]), IoDefDim(s, c, m) \/ IoDefVar(s, c, m)
  PROVE  Keeps(s)
<1>1. /\ DOMAIN files = Servers /\ s \in Servers /\ waiting[s].op = "none"
      /\ \A n \in DOMAIN files[s] : DOMAIN files[s][n] = FileFields
  BY FilesTyped
<1>2. UNCHANGED <<waiting, netcdf>>
  BY DEF IoDefDim, IoDefVar
<1>3. files' = files \/ (m.nc \in DOMAIN files[s] /\ \E d : MapDef(s, m.nc, d))
  BY DEF IoDefDim, IoDefVar, HasNc
<1>4. Alike(files[s], files'[s])
  <2>1. CASE files' = files
    BY <2>1 DEF Alike
  <2>2. ASSUME m.nc \in DOMAIN files[s], NEW d, MapDef(s, m.nc, d) PROVE Alike(files[s], files'[s])
    <3>1. PICK x : x = Append(files[s][m.nc].defs, d)
      OBVIOUS
    <3>2. files' = [files EXCEPT ![s][m.nc].defs = x]
      BY <2>2, <3>1 DEF MapDef
    <3>3. QED
      BY <1>1, <2>2, <3>2, DefsAlike
  <2>3. QED
    BY <1>3, <2>1, <2>2
<1>5. waiting'[s].op # "create" /\ WaitsFor(files'[s], waiting'[s])
  BY <1>1, <1>2, IdleWaits
<1>6. QED
  BY <1>2, <1>4, <1>5, LibraryKeeps

\* An attribute is put.
LEMMA AttKeeps ==
  ASSUME NEW s, NEW c, NEW m, NEW t, NEW u, NEW call, NEW k, Handles(s, c, m, t, u, call, k),
         NetTyped(netcdf[s]), IoPutAtt(s, c, m)
  PROVE  Keeps(s)
<1>1. /\ DOMAIN files = Servers /\ s \in Servers /\ waiting[s].op = "none"
      /\ \A n \in DOMAIN files[s] : DOMAIN files[s][n] = FileFields
  BY FilesTyped
<1>2. UNCHANGED <<waiting, netcdf>>
  BY DEF IoPutAtt
<1>3. m.nc \in DOMAIN files[s]
  <2>1. call.op = "put_att"
    BY DEF Handles, IoPutAtt, Meant
  <2>2. QED
    BY <2>1, KnownBefore
<1>4. files' = files \/ \E x : files' = [files EXCEPT ![s][m.nc].defs = x]
  <2>1. PICK i : i = DefAt(s, m.nc, "var", m.id)
    OBVIOUS
  <2>2. PICK x : x = [files[s][m.nc].defs EXCEPT ![i].atts = Append(@, m.data[1])]
    OBVIOUS
  <2>3. files' = files \/ files' = [files EXCEPT ![s][m.nc].defs[i].atts = Append(@, m.data[1])]
    BY <2>1 DEF IoPutAtt
  <2>4. [files EXCEPT ![s][m.nc].defs[i].atts = Append(@, m.data[1])] = [files EXCEPT ![s][m.nc].defs = x]
    BY <2>2
  <2>5. QED
    BY <2>3, <2>4
<1>5. Alike(files[s], files'[s])
  <2>1. CASE files' = files
    BY <2>1 DEF Alike
  <2>2. ASSUME NEW x, files' = [files EXCEPT ![s][m.nc].defs = x] PROVE Alike(files[s], files'[s])
    BY <1>1, <1>3, <2>2, DefsAlike
  <2>3. QED
    BY <1>4, <2>1, <2>2
<1>6. waiting'[s].op # "create" /\ WaitsFor(files'[s], waiting'[s])
  BY <1>1, <1>2, IdleWaits
<1>7. QED
  BY <1>2, <1>5, <1>6, LibraryKeeps

\* A file is closed.
LEMMA CloseKeeps ==
  ASSUME NEW s, NEW c, NEW m, NEW t, NEW u, NEW call, NEW k, Handles(s, c, m, t, u, call, k),
         NetTyped(netcdf[s]), IoClose(s, c, m)
  PROVE  Keeps(s)
<1>1. DOMAIN waiting = Servers /\ s \in Servers /\ waiting[s].op = "none"
  BY FilesTyped
<1>2. m.op = "close" /\ m.id = 0 /\ UNCHANGED <<files, netcdf>>
  BY DEF Handles, IoClose, Meant
<1>3. Alike(files[s], files'[s])
  BY <1>2 DEF Alike
<1>4. PICK id : id = files[s][m.nc].nc_id
  OBVIOUS
<1>5. \/ waiting' = waiting
      \/ \E path : waiting' = [waiting EXCEPT ![s] = [op |-> "close", path |-> path, nc |-> m.nc,
                                                      key |-> Key(m), id |-> id]]
  BY <1>4 DEF IoClose
<1>6. waiting'[s].op # "create" /\ WaitsFor(files'[s], waiting'[s])
  <2>1. CASE waiting' = waiting
    BY <1>1, <2>1, IdleWaits
  <2>2. ASSUME NEW path, waiting' = [waiting EXCEPT ![s] = [op |-> "close", path |-> path, nc |-> m.nc,
                                                            key |-> Key(m), id |-> id]]
        PROVE  waiting'[s].op # "create" /\ WaitsFor(files'[s], waiting'[s])
    <3>1. PICK w : w = [op |-> "close", path |-> path, nc |-> m.nc, key |-> Key(m), id |-> id]
      OBVIOUS
    <3>2. waiting'[s] = w /\ w.op = "close" /\ w.nc = m.nc /\ w.id = id /\ w.key = Key(m)
      BY <1>1, <2>2, <3>1
    <3>3. Key(m) = <<"close", m.nc, 0>>
      BY <1>2 DEF Key
    <3>4. files'[s][m.nc].nc_id = id
      BY <1>2, <1>4
    <3>5. w.key[1] = w.op
      BY <3>2, <3>3
    <3>6. QED
      BY <3>2, <3>3, <3>4, <3>5 DEF WaitsFor
  <2>3. QED
    BY <1>5, <2>1, <2>2
<1>7. QED
  BY <1>2, <1>3, <1>6, LibraryKeeps

\* The definitions of a file get their netCDF numbers.
LEMMA EnddefKeeps ==
  ASSUME NEW s, NEW c, NEW m, NEW t, NEW u, NEW call, NEW k, Handles(s, c, m, t, u, call, k),
         NetTyped(netcdf[s]), IoEnddef(s, c, m)
  PROVE  Keeps(s)
<1>1. /\ DOMAIN files = Servers /\ DOMAIN waiting = Servers /\ DOMAIN netcdf = Servers
      /\ s \in Servers /\ waiting[s].op = "none"
      /\ \A n \in DOMAIN files[s] : DOMAIN files[s][n] = FileFields
  BY FilesTyped
<1>2. m.op = "enddef" /\ m.nc \in DOMAIN files[s]
  <2>1. m.op = "enddef" /\ call.op = "enddef"
    BY DEF Handles, IoEnddef, Meant
  <2>2. QED
    BY <2>1, KnownBefore
<1>3. PICK id, x, y, p : /\ id = files[s][m.nc].nc_id /\ x = Numbered(files[s][m.nc].defs)
                         /\ y = NamesOf(x, "var") /\ p = netcdf[s][id].path
  OBVIOUS
<1>4. PICK w : w = [op |-> "enddef", path |-> p, nc |-> m.nc, key |-> Key(m), id |-> id]
  OBVIOUS
<1>5. \/ UNCHANGED <<files, netcdf, waiting>>
      \/ /\ files' = [files EXCEPT ![s][m.nc].defs = x]
         /\ netcdf' = [netcdf EXCEPT ![s][id].vars = y]
         /\ waiting' = [waiting EXCEPT ![s] = w]
  BY <1>3, <1>4 DEF IoEnddef
<1>6. CASE UNCHANGED <<files, netcdf, waiting>>
  <2>1. Alike(files[s], files'[s])
    BY <1>6 DEF Alike
  <2>2. waiting'[s].op # "create" /\ WaitsFor(files'[s], waiting'[s])
    BY <1>1, <1>6, IdleWaits
  <2>3. QED
    BY <1>6, <2>1, <2>2, LibraryKeeps
<1>7. CASE /\ files' = [files EXCEPT ![s][m.nc].defs = x]
           /\ netcdf' = [netcdf EXCEPT ![s][id].vars = y]
           /\ waiting' = [waiting EXCEPT ![s] = w]
  <2>1. Alike(files[s], files'[s])
    BY <1>1, <1>2, <1>7, DefsAlike
  <2>2. files'[s][m.nc].nc_id = id
    BY <1>2, <1>3, <2>1 DEF Alike
  <2>3. waiting'[s] = w /\ w.op = "enddef" /\ w.nc = m.nc /\ w.id = id /\ w.key = Key(m)
    BY <1>1, <1>4, <1>7
  <2>4. w.key[1] = "enddef"
    BY <1>2, <2>3 DEF Key
  <2>5. waiting'[s].op # "create" /\ WaitsFor(files'[s], waiting'[s])
    BY <2>2, <2>3, <2>4 DEF WaitsFor
  <2>6. PICK nd, e : nd = netcdf[s] /\ e = [nd[id] EXCEPT !.vars = y]
    OBVIOUS
  <2>7. PICK ne : ne = [nd EXCEPT ![id] = e]
    OBVIOUS
  <2>8. netcdf' = [netcdf EXCEPT ![s] = ne]
    BY <1>7, <2>6, <2>7
  <2>9. netcdf'[s] = ne /\ \A o \in Servers \ {s} : netcdf'[o] = netcdf[o]
    BY <1>1, <2>8
  <2>10. SamePaths(nd, ne)
    BY <2>6, <2>7 DEF SamePaths, NetTyped, NcFields
  <2>11. QED
    BY <2>1, <2>5, <2>6, <2>9, <2>10 DEF Keeps
<1>8. QED
  BY <1>5, <1>6, <1>7

\* A part is stored, or all are taken for the library.
LEMMA PutVaraKeeps ==
  ASSUME NEW s, NEW c, NEW m, NEW t, NEW u, NEW call, NEW k, Handles(s, c, m, t, u, call, k),
         NetTyped(netcdf[s]), IoPutVara(s, c, m)
  PROVE  Keeps(s)
<1>1. /\ DOMAIN files = Servers /\ DOMAIN waiting = Servers /\ s \in Servers /\ waiting[s].op = "none"
      /\ \A n \in DOMAIN files[s] : DOMAIN files[s][n] = FileFields
  BY FilesTyped
<1>2. m.op = "put_vara" /\ m.nc \in DOMAIN files[s] /\ netcdf' = netcdf
  <2>1. m.op = "put_vara" /\ call.op = "put_vara" /\ netcdf' = netcdf
    BY DEF Handles, IoPutVara, Meant
  <2>2. QED
    BY <2>1, KnownBefore
<1>3. files' = files \/ \E x : files' = [files EXCEPT ![s][m.nc].defs = x]
  <2>1. PICK i : i = DefAt(s, m.nc, "var", m.id)
    OBVIOUS
  <2>2. files' = files \/ \E y : files' = [files EXCEPT ![s][m.nc].defs[i].parts = y]
    BY <2>1 DEF IoPutVara
  <2>3. ASSUME NEW y, files' = [files EXCEPT ![s][m.nc].defs[i].parts = y]
        PROVE  \E x : files' = [files EXCEPT ![s][m.nc].defs = x]
    <3>1. PICK x : x = [files[s][m.nc].defs EXCEPT ![i].parts = y]
      OBVIOUS
    <3>2. files' = [files EXCEPT ![s][m.nc].defs = x]
      BY <2>3, <3>1
    <3>3. QED
      BY <3>2
  <2>4. QED
    BY <2>2, <2>3
<1>4. Alike(files[s], files'[s])
  <2>1. CASE files' = files
    BY <2>1 DEF Alike
  <2>2. ASSUME NEW x, files' = [files EXCEPT ![s][m.nc].defs = x] PROVE Alike(files[s], files'[s])
    BY <1>1, <1>2, <2>2, DefsAlike
  <2>3. QED
    BY <1>3, <2>1, <2>2
<1>5. waiting' = waiting \/ \E w : waiting' = [waiting EXCEPT ![s] = w] /\ w.op = "put_vara" /\ w.key = Key(m)
  <2>1. waiting' = waiting
          \/ \E p, id, name, from : waiting' = [waiting EXCEPT ![s] =
               [op |-> "put_vara", path |-> p, nc |-> m.nc, key |-> Key(m), id |-> id, name |-> name,
                from |-> from]]
    BY DEF IoPutVara
  <2>2. ASSUME NEW p, NEW id, NEW name, NEW from,
               waiting' = [waiting EXCEPT ![s] =
                 [op |-> "put_vara", path |-> p, nc |-> m.nc, key |-> Key(m), id |-> id, name |-> name,
                  from |-> from]]
        PROVE  \E w : waiting' = [waiting EXCEPT ![s] = w] /\ w.op = "put_vara" /\ w.key = Key(m)
    <3>1. PICK w : w = [op |-> "put_vara", path |-> p, nc |-> m.nc, key |-> Key(m), id |-> id,
                        name |-> name, from |-> from]
      OBVIOUS
    <3>2. waiting' = [waiting EXCEPT ![s] = w] /\ w.op = "put_vara" /\ w.key = Key(m)
      BY <2>2, <3>1
    <3>3. QED
      BY <3>2
  <2>3. QED
    BY <2>1, <2>2
<1>6. waiting'[s].op # "create" /\ WaitsFor(files'[s], waiting'[s])
  <2>1. CASE waiting' = waiting
    BY <1>1, <2>1, IdleWaits
  <2>2. ASSUME NEW w, waiting' = [waiting EXCEPT ![s] = w], w.op = "put_vara", w.key = Key(m)
        PROVE  waiting'[s].op # "create" /\ WaitsFor(files'[s], waiting'[s])
    <3>1. waiting'[s] = w
      BY <1>1, <2>2
    <3>2. w.key[1] = "put_vara"
      BY <1>2, <2>2 DEF Key
    <3>3. QED
      BY <2>2, <3>1, <3>2 DEF WaitsFor
  <2>3. QED
    BY <1>5, <2>1, <2>2
<1>7. QED
  BY <1>2, <1>4, <1>6, LibraryKeeps

\* Files open and close by create and close only.
LEMMA SameOpen ==
  ASSUME NEW t, TableOk(t), NEW call, Fits(t, call), NEW k \in Nat, NEW u, u = After(t, call, k),
         call.op \notin {"create", "close"}
  PROVE  DOMAIN u.nc = DOMAIN t.nc /\ \A n \in DOMAIN t.nc : u.nc[n].path = t.nc[n].path
<1>1. CASE call.op = "def_dim"
  <2>1. PICK n : n = NcOf(t, call.path)
    OBVIOUS
  <2>2. /\ DOMAIN u.nc = DOMAIN t.nc /\ u.nc[n].path = t.nc[n].path
        /\ \A i \in DOMAIN t.nc : i # n => u.nc[i] = t.nc[i]
    BY <1>1, <2>1, DimAfter
  <2>3. QED
    BY <2>2
<1>2. CASE call.op = "def_var"
  <2>1. PICK n : n = NcOf(t, call.path)
    OBVIOUS
  <2>2. /\ DOMAIN u.nc = DOMAIN t.nc /\ u.nc[n].path = t.nc[n].path
        /\ \A i \in DOMAIN t.nc : i # n => u.nc[i] = t.nc[i]
    BY <1>2, <2>1, VarAfter
  <2>3. QED
    BY <2>2
<1>3. CASE call.op = "put_att"
  BY <1>3, AttAfter
<1>4. CASE call.op \in {"enddef", "put_vara"}
  BY <1>4 DEF After
<1>5. QED
  BY <1>1, <1>2, <1>3, <1>4 DEF Fits, Ops

\* A message is handled that opens no file in the library and closes none.
LEMMA LibraryAfter ==
  ASSUME NEW s, NEW tab, NEW u, LibraryOk(tab, files[s], netcdf[s], waiting[s]),
         waiting[s].op = "none", Keeps(s),
         DOMAIN u.nc \subseteq DOMAIN tab.nc, DOMAIN u.nc \subseteq DOMAIN files[s],
         \A n \in DOMAIN u.nc : u.nc[n].path = tab.nc[n].path
  PROVE  LibraryOk(u, files'[s], netcdf'[s], waiting'[s])
<1>1. PICK fs, gs, nd, ne, w : /\ fs = files[s] /\ gs = files'[s] /\ nd = netcdf[s] /\ ne = netcdf'[s]
                               /\ w = waiting'[s]
  OBVIOUS
<1>2. Alike(fs, gs) /\ SamePaths(nd, ne) /\ WaitsFor(gs, w) /\ \A n : ~Creating(w, n)
  BY <1>1 DEF Keeps, Creating
<1>3. /\ IsFiniteSet(DOMAIN nd) /\ Invalid \notin DOMAIN nd
      /\ \A nc \in DOMAIN fs : fs[nc].nc_id \in DOMAIN nd
      /\ \A m, n \in DOMAIN fs : fs[m].nc_id = fs[n].nc_id => m = n
      /\ \A nc \in DOMAIN tab.nc : tab.nc[nc].path = nd[fs[nc].nc_id].path
  BY <1>1 DEF LibraryOk, Creating
<1>4. \A nc \in DOMAIN u.nc : u.nc[nc].path = ne[gs[nc].nc_id].path
  BY <1>1, <1>2, <1>3 DEF Alike, SamePaths
<1>5. LibraryOk(u, gs, ne, w)
  BY <1>2, <1>3, <1>4 DEF LibraryOk, Alike, SamePaths, NetTyped
<1>6. QED
  BY <1>1, <1>5

\* A file is created: the server enters it with the first message.
LEMMA CreateOpens ==
  ASSUME NEW s, NEW c, NEW m, NEW t, NEW u, NEW call, NEW k, Handles(s, c, m, t, u, call, k),
         IoCreate(s, c, m), NEW tab, tab = IF turn[s] = 1 THEN t ELSE u,
         LibraryOk(tab, files[s], netcdf[s], waiting[s]), DOMAIN files[s] \subseteq DOMAIN tab.nc
  PROVE  /\ LibraryOk(u, files'[s], netcdf'[s], waiting'[s]) /\ DOMAIN files'[s] \subseteq DOMAIN u.nc
         /\ netcdf' = netcdf
<1>1. call.op = "create" /\ m.nc = t.open + 1 /\ m.name = call.path /\ k \in Nat
  BY ProgramAssumption DEF Handles, IoCreate, Meant
<1>2. /\ DOMAIN u.nc = DOMAIN t.nc \cup {t.open + 1} /\ t.open + 1 \notin DOMAIN t.nc
      /\ u.nc[t.open + 1].path = call.path
      /\ \A i \in DOMAIN t.nc : u.nc[i] = t.nc[i]
  BY <1>1, CreateAfter DEF Handles
<1>3. PICK n : n = t.open + 1
  OBVIOUS
<1>4. PICK fs, nd, w : fs = files[s] /\ nd = netcdf[s] /\ w = waiting[s] /\ w.op = "none"
  BY DEF Handles
<1>5. netcdf' = netcdf
  BY DEF IoCreate
<1>6. DOMAIN t.nc \subseteq DOMAIN u.nc /\ FilesOk(s, tab, fs)
  BY <1>2, <1>4 DEF Handles, ServerOk
<1>7. CASE n \in DOMAIN fs
  <2>1. files'[s] = fs /\ waiting'[s] = w
    BY <1>1, <1>3, <1>4, <1>7 DEF IoCreate, HasNc
  <2>2. tab = u
    BY <1>2, <1>3, <1>4, <1>7
  <2>3. QED
    BY <1>4, <1>5, <2>1, <2>2
<1>8. CASE n \notin DOMAIN fs
  <2>1. tab = t
    BY <1>2, <1>3, <1>6, <1>8 DEF FilesOk
  <2>2. PICK f : f = [nc_id |-> Invalid, status |-> "define", defs |-> << >>]
    OBVIOUS
  <2>3. PICK gs, v : gs = With(fs, n, f) /\ v = [op |-> "create", path |-> m.name, nc |-> n]
    OBVIOUS
  <2>4. files'[s] = gs /\ waiting'[s] = v
    BY <1>1, <1>3, <1>4, <1>8, <2>2, <2>3 DEF IoCreate, HasNc, Handles, Tabled
  <2>5. DOMAIN gs = DOMAIN fs \cup {n} /\ \A i \in DOMAIN fs : i # n => gs[i] = fs[i]
    BY <2>3 DEF With
  <2>6. v.op = "create" /\ v.nc = n /\ v.path = call.path
    BY <1>1, <2>3
  <2>7. /\ IsFiniteSet(DOMAIN nd) /\ Invalid \notin DOMAIN nd
        /\ \A id \in DOMAIN nd : DOMAIN nd[id] = NcFields
        /\ \A nc \in DOMAIN fs : fs[nc].nc_id \in DOMAIN nd
        /\ \A i, j \in DOMAIN fs : fs[i].nc_id = fs[j].nc_id => i = j
        /\ \A nc \in DOMAIN t.nc : t.nc[nc].path = nd[fs[nc].nc_id].path
    BY <1>4, <2>1 DEF LibraryOk, Creating
  <2>8. \A i : Creating(v, i) <=> i = n
    BY <2>6 DEF Creating
  <2>9. \A nc \in DOMAIN gs : nc # n => nc \in DOMAIN fs /\ gs[nc] = fs[nc]
    BY <2>5
  <2>10. ASSUME NEW nc \in DOMAIN u.nc
         PROVE  u.nc[nc].path = IF Creating(v, nc) THEN v.path ELSE nd[gs[nc].nc_id].path
    <3>1. CASE nc = n
      BY <1>2, <1>3, <2>6, <2>8, <3>1
    <3>2. CASE nc # n
      <4>1. nc \in DOMAIN t.nc /\ u.nc[nc] = t.nc[nc]
        BY <1>2, <1>3, <3>2
      <4>2. nc \in DOMAIN fs
        BY <1>6, <2>1, <4>1 DEF FilesOk
      <4>3. gs[nc] = fs[nc]
        BY <2>5, <3>2, <4>2
      <4>4. QED
        BY <2>7, <2>8, <3>2, <4>1, <4>3
    <3>3. QED
      BY <3>1, <3>2
  <2>11. WaitsFor(gs, v)
    BY <2>6 DEF WaitsFor
  <2>12. LibraryOk(u, gs, nd, v)
    BY <2>7, <2>8, <2>9, <2>10, <2>11 DEF LibraryOk
  <2>13. DOMAIN gs \subseteq DOMAIN u.nc
    BY <1>2, <1>3, <1>4, <2>1, <2>5
  <2>14. QED
    BY <1>4, <1>5, <2>4, <2>12, <2>13
<1>9. QED
  BY <1>7, <1>8

\* Every message of a call closes the file a little more.
LEMMA CloseCloses ==
  ASSUME NEW s, NEW c, NEW m, NEW t, NEW u, NEW call, NEW k, Handles(s, c, m, t, u, call, k),
         IoClose(s, c, m), NEW id, id = files[s][m.nc].nc_id, id # Invalid, m.nc \in DOMAIN files[s],
         turn[s] # 1 => /\ Key(m) \in DOMAIN requests[s]
                        /\ 0..(turn[s] - 2) \subseteq Noted(requests[s][Key(m)], Len(Group[s])),
         turn' = [turn EXCEPT ![s] = IF @ = Len(Group[s]) THEN 1 ELSE @ + 1], DOMAIN turn = Servers
  PROVE  \/ waiting'[s].op = "close" /\ waiting'[s].nc = m.nc
         \/ /\ turn'[s] # 1 /\ Key(m) \in DOMAIN requests'[s]
            /\ 0..(turn'[s] - 2) \subseteq Noted(requests'[s][Key(m)], Len(Group[s]))
<1>1. call.op = "close" /\ m.op = "close"
  BY DEF Handles, IoClose, Meant
<1>2. /\ RequestsOk(s, u, requests[s]) /\ m.nc \in 1..u.open
  BY <1>1, KnownBefore
<1>3. /\ s \in Servers /\ DOMAIN requests = Servers /\ DOMAIN waiting = Servers
      /\ turn[s] \in 1..Len(Group[s]) /\ c = Group[s][turn[s]]
  BY DEF Handles, Tabled
<1>4. PICK n, i : n = Len(Group[s]) /\ i = turn[s] /\ n \in Nat \ {0} /\ i \in 1..n
  BY <1>3, ClientsOf
<1>5. Record(s, c, m, FALSE)
  BY DEF IoClose
<1>6. NotedIn(s, requests[s], m, turn[s], FALSE, requests'[s])
  BY <1>2, <1>3, <1>5, Recorded
<1>7. Key(m) \in DOMAIN requests'[s] /\ Noted(requests'[s][Key(m)], n) = Bits(s, requests[s], Key(m), i)
  BY <1>4, <1>6 DEF NotedIn
<1>8. 0..(i - 1) \subseteq Bits(s, requests[s], Key(m), i)
  <2>1. CASE i = 1
    <3>1. 0..(i - 1) = {i - 1}
      BY <2>1
    <3>2. QED
      BY <3>1 DEF Bits
  <2>2. CASE i # 1
    <3>1. 0..(i - 2) \subseteq Noted(requests[s][Key(m)], n) /\ Key(m) \in DOMAIN requests[s]
      BY <1>4, <2>2
    <3>2. 0..(i - 1) = 0..(i - 2) \cup {i - 1}
      BY <1>4, <2>2
    <3>3. QED
      BY <1>4, <3>1, <3>2 DEF Bits
  <2>3. QED
    BY <2>1, <2>2
<1>9. CASE i = n
  <2>1. PICK b : b = Received(s, c, m)
    OBVIOUS
  <2>2. /\ Noted(b, n) = Bits(s, requests[s], Key(m), i)
        /\ Full(s, b) <=> Noted(b, n) = 0..(n - 1)
    BY <1>2, <1>3, <1>4, <2>1, ReceivedIs
  <2>3. Noted(b, n) \subseteq 0..(n - 1)
    BY DEF Noted
  <2>4. Full(s, Received(s, c, m))
    BY <1>8, <1>9, <2>1, <2>2, <2>3
  <2>5. PICK w : w = [op |-> "close", path |-> netcdf[s][id].path, nc |-> m.nc, key |-> Key(m), id |-> id]
    OBVIOUS
  <2>6. waiting' = [waiting EXCEPT ![s] = w]
    BY <2>4, <2>5 DEF IoClose, HasNc
  <2>7. w.op = "close" /\ w.nc = m.nc
    BY <2>5
  <2>8. QED
    BY <1>3, <2>6, <2>7
<1>10. CASE i # n
  <2>1. turn'[s] = i + 1
    BY <1>3, <1>4, <1>10
  <2>2. i + 1 # 1 /\ (i + 1) - 2 = i - 1
    BY <1>4
  <2>3. QED
    BY <1>4, <1>7, <1>8, <2>1, <2>2
<1>11. QED
  BY <1>9, <1>10

\* Every handler but that of create leaves the files of the library.
LEMMA HandlerKeeps ==
  ASSUME NEW s, NEW c, NEW m, NEW t, NEW u, NEW call, NEW k, Handles(s, c, m, t, u, call, k),
         NetTyped(netcdf[s]), ~IoCreate(s, c, m),
         \/ IoCreate(s, c, m) \/ IoDefDim(s, c, m) \/ IoDefVar(s, c, m)
         \/ IoPutAtt(s, c, m) \/ IoEnddef(s, c, m) \/ IoPutVara(s, c, m)
         \/ IoClose(s, c, m)
  PROVE  Keeps(s) /\ call.op # "create" /\ (call.op = "close" => IoClose(s, c, m))
<1>1. m.op = call.op
  BY OpenGrows
<1>2. CASE IoDefDim(s, c, m) \/ IoDefVar(s, c, m)
  <2>1. m.op \in {"def_dim", "def_var"}
    BY <1>2 DEF IoDefDim, IoDefVar
  <2>2. QED
    BY <1>1, <1>2, <2>1, DefsKeep
<1>3. CASE IoPutAtt(s, c, m)
  <2>1. m.op = "put_att"
    BY <1>3 DEF IoPutAtt
  <2>2. QED
    BY <1>1, <1>3, <2>1, AttKeeps
<1>4. CASE IoEnddef(s, c, m)
  <2>1. m.op = "enddef"
    BY <1>4 DEF IoEnddef
  <2>2. QED
    BY <1>1, <1>4, <2>1, EnddefKeeps
<1>5. CASE IoPutVara(s, c, m)
  <2>1. m.op = "put_vara"
    BY <1>5 DEF IoPutVara
  <2>2. QED
    BY <1>1, <1>5, <2>1, PutVaraKeeps
<1>6. CASE IoClose(s, c, m)
  <2>1. m.op = "close"
    BY <1>6 DEF IoClose
  <2>2. QED
    BY <1>1, <1>6, <2>1, CloseKeeps
<1>7. QED
  BY <1>2, <1>3, <1>4, <1>5, <1>6

\* A server that decodes has its files open before and after.
LEMMA DecodeOpens ==
  ASSUME NEW h, Serves(h), NEW s \in Servers, Decode(s), Opens(h, s)
  PROVE  Opens(h, s)'
<1>1. PICK c, m, k : /\ c = Group[s][turn[s]] /\ m = Unpacked(Head(inbox[c])) /\ k = Taken(s)'
  OBVIOUS
<1>2. PICK t, u, call : t = h[k - 1] /\ u = h[k] /\ call = calls[k]
  OBVIOUS
<1>3. /\ Handles(s, c, m, t, u, call, k) /\ Takes(h, s, c, k, m)
      /\ \/ IoCreate(s, c, m) \/ IoDefDim(s, c, m) \/ IoDefVar(s, c, m)
         \/ IoPutAtt(s, c, m) \/ IoEnddef(s, c, m) \/ IoPutVara(s, c, m)
         \/ IoClose(s, c, m)
  BY <1>1, <1>2, DecodeHandles
<1>4. /\ waiting[s].op = "none" /\ calls' = calls
      /\ turn' = [turn EXCEPT ![s] = IF @ = Len(Group[s]) THEN 1 ELSE @ + 1]
  BY DEF Decode, clientVars
<1>5. PICK tab : /\ tab = h[Taken(s)] /\ tab = IF turn[s] = 1 THEN t ELSE u
                 /\ Taken(s) = IF turn[s] = 1 THEN k - 1 ELSE k
  BY <1>2, <1>3 DEF Takes
<1>6. TableOk(t) /\ Fits(t, call) /\ k \in Nat /\ u = After(t, call, k) /\ k \in 1..Len(calls)
  BY <1>2, <1>3 DEF Takes, Handles
<1>7. /\ LibraryOk(tab, files[s], netcdf[s], waiting[s])
      /\ \A nc \in DOMAIN files[s] \ DOMAIN tab.nc :
           /\ call.op = "close" /\ nc = NcOf(t, call.path)
           /\ turn[s] # 1 => /\ <<"close", nc, 0>> \in DOMAIN requests[s]
                             /\ 0..(turn[s] - 2) \subseteq
                                  Noted(requests[s][<<"close", nc, 0>>], Len(Group[s]))
  <2>1. ASSUME NEW nc \in DOMAIN files[s] \ DOMAIN tab.nc
        PROVE  /\ turn[s] # 1 /\ call.op = "close" /\ nc = NcOf(t, call.path)
               /\ <<"close", nc, 0>> \in DOMAIN requests[s]
               /\ 0..(turn[s] - 2) \subseteq Noted(requests[s][<<"close", nc, 0>>], Len(Group[s]))
    <3>1. Closing(h, s, nc)
      BY <1>5, <2>1 DEF Opens
    <3>2. /\ turn[s] # 1 /\ calls[Taken(s)].op = "close"
          /\ nc = NcOf(h[Taken(s) - 1], calls[Taken(s)].path)
          /\ <<"close", nc, 0>> \in DOMAIN requests[s]
          /\ 0..(turn[s] - 2) \subseteq Noted(requests[s][<<"close", nc, 0>>], Len(Group[s]))
      BY <1>4, <3>1 DEF Closing
    <3>3. Taken(s) = k
      BY <1>5, <3>2
    <3>4. QED
      BY <1>2, <3>2, <3>3
  <2>2. LibraryOk(tab, files[s], netcdf[s], waiting[s])
    BY <1>5 DEF Opens
  <2>3. QED
    BY <2>1, <2>2
<1>8. /\ Meant(t, call, k, m) /\ m.op = call.op
      /\ FilesOk(s, tab, files[s]) /\ DOMAIN turn = Servers
  <2>1. m.op = call.op
    BY <1>3, OpenGrows
  <2>2. Meant(t, call, k, m) /\ FilesOk(s, tab, files[s]) /\ DOMAIN turn = Servers
    BY <1>3, <1>5 DEF Handles, ServerOk, Tabled
  <2>3. QED
    BY <2>1, <2>2
<1>9. h[Taken(s)'] = u /\ Taken(s)' = k
  BY <1>1, <1>2
<1>10. CASE IoCreate(s, c, m)
  <2>1. call.op = "create"
    BY <1>8, <1>10 DEF IoCreate
  <2>2. DOMAIN files[s] \subseteq DOMAIN tab.nc
    BY <1>7, <2>1
  <2>3. LibraryOk(u, files'[s], netcdf'[s], waiting'[s]) /\ DOMAIN files'[s] \subseteq DOMAIN u.nc
    BY <1>3, <1>5, <1>7, <1>10, <2>2, CreateOpens
  <2>4. QED
    BY <1>9, <2>3 DEF Opens
<1>11. ASSUME ~IoCreate(s, c, m) PROVE Opens(h, s)'
  <2>1. NetTyped(netcdf[s])
    BY <1>7 DEF LibraryOk, NetTyped
  <2>2. Keeps(s) /\ call.op # "create" /\ (call.op = "close" => IoClose(s, c, m))
    BY <1>3, <1>11, <2>1, HandlerKeeps
  <2>3. /\ DOMAIN u.nc \subseteq DOMAIN t.nc /\ \A n \in DOMAIN u.nc : u.nc[n].path = t.nc[n].path
        /\ call.op # "close" => DOMAIN u.nc = DOMAIN t.nc
        /\ call.op = "close" => DOMAIN u.nc = DOMAIN t.nc \ {NcOf(t, call.path)}
    <3>1. CASE call.op = "close"
      <4>1. PICK n : n = NcOf(t, call.path)
        OBVIOUS
      <4>2. DOMAIN u.nc = DOMAIN t.nc \ {n} /\ \A i \in DOMAIN u.nc : u.nc[i] = t.nc[i]
        BY <1>6, <1>8, <3>1, <4>1, CloseAfter
      <4>3. QED
        BY <3>1, <4>1, <4>2
    <3>2. CASE call.op # "close"
      BY <1>6, <1>8, <2>2, <3>2, SameOpen
    <3>3. QED
      BY <3>1, <3>2
  <2>4. /\ DOMAIN u.nc \subseteq DOMAIN tab.nc /\ \A n \in DOMAIN u.nc : u.nc[n].path = tab.nc[n].path
    BY <1>5, <2>3
  <2>5. DOMAIN u.nc \subseteq DOMAIN files[s]
    BY <1>8, <2>4 DEF FilesOk
  <2>6. LibraryOk(u, files'[s], netcdf'[s], waiting'[s])
    BY <1>4, <1>7, <2>2, <2>4, <2>5, LibraryAfter
  <2>7. DOMAIN files'[s] = DOMAIN files[s]
    BY <2>2 DEF Keeps, Alike
  <2>8. ASSUME NEW nc \in DOMAIN files[s] \ DOMAIN u.nc PROVE Closing(h, s, nc)'
    <3>1. call.op = "close" /\ nc = NcOf(t, call.path)
      <4>1. CASE nc \in DOMAIN tab.nc
        BY <1>5, <2>3, <2>8, <4>1
      <4>2. CASE nc \notin DOMAIN tab.nc
        BY <1>7, <2>8, <4>2
      <4>3. QED
        BY <4>1, <4>2
    <3>2. IoClose(s, c, m) /\ m.nc = nc /\ Key(m) = <<"close", nc, 0>>
      <4>1. m.op = "close" /\ m.nc = nc /\ m.id = 0
        BY <1>8, <3>1 DEF Meant
      <4>2. QED
        BY <2>2, <3>1, <4>1 DEF Key
    <3>3. turn[s] # 1 => /\ Key(m) \in DOMAIN requests[s]
                         /\ 0..(turn[s] - 2) \subseteq Noted(requests[s][Key(m)], Len(Group[s]))
      <4>1. turn[s] # 1 => nc \notin DOMAIN tab.nc
        BY <1>5, <2>8
      <4>2. QED
        BY <1>7, <2>8, <3>2, <4>1
    <3>4. PICK id : id = files[s][m.nc].nc_id /\ id # Invalid /\ m.nc \in DOMAIN files[s]
      <4>1. ~Creating(waiting[s], nc)
        BY <1>4 DEF Creating
      <4>2. nc \in DOMAIN files[s] /\ m.nc = nc
        BY <2>8, <3>2
      <4>3. files[s][nc].nc_id \in DOMAIN netcdf[s] /\ Invalid \notin DOMAIN netcdf[s]
        BY <1>7, <4>1, <4>2 DEF LibraryOk
      <4>4. QED
        BY <4>2, <4>3
    <3>5. \/ waiting'[s].op = "close" /\ waiting'[s].nc = m.nc
          \/ /\ turn'[s] # 1 /\ Key(m) \in DOMAIN requests'[s]
             /\ 0..(turn'[s] - 2) \subseteq Noted(requests'[s][Key(m)], Len(Group[s]))
      BY <1>3, <1>4, <1>8, <3>2, <3>3, <3>4, CloseCloses
    <3>6. calls'[k].op = "close" /\ nc = NcOf(h[k - 1], calls'[k].path) /\ k \in 1..Len(calls')
      BY <1>2, <1>4, <1>6, <3>1
    <3>7. QED
      BY <1>9, <3>2, <3>5, <3>6 DEF Closing
  <2>9. QED
    BY <1>9, <2>6, <2>7, <2>8 DEF Opens
<1>12. QED
  BY <1>10, <1>11

\* The others notice nothing.
LEMMA DecodeOthers ==
  ASSUME NEW h, Serves(h), NEW s \in Servers, Decode(s), NEW o \in Servers, o # s, Opens(h, o)
  PROVE  Opens(h, o)'
<1>1. PICK c, m, k : /\ c = Group[s][turn[s]] /\ m = Unpacked(Head(inbox[c])) /\ k = Taken(s)'
  OBVIOUS
<1>2. PICK t, u, call : t = h[k - 1] /\ u = h[k] /\ call = calls[k]
  OBVIOUS
<1>3. /\ Handles(s, c, m, t, u, call, k) /\ Taken(o)' = Taken(o)
      /\ \/ IoCreate(s, c, m) \/ IoDefDim(s, c, m) \/ IoDefVar(s, c, m)
         \/ IoPutAtt(s, c, m) \/ IoEnddef(s, c, m) \/ IoPutVara(s, c, m)
         \/ IoClose(s, c, m)
  BY <1>1, <1>2, DecodeHandles
<1>4. Served(s, u)
  BY <1>3, HandlerServed
<1>5. files'[o] = files[o] /\ requests'[o] = requests[o] /\ waiting'[o] = waiting[o]
  BY <1>4 DEF Served, OthersStay
<1>6. calls' = calls /\ turn'[o] = turn[o]
  BY DEF Decode, clientVars, Serves, Tabled
<1>7. netcdf'[o] = netcdf[o]
  <2>1. netcdf' = netcdf \/ \E id, v : netcdf' = [netcdf EXCEPT ![s][id].vars = v]
    BY <1>3 DEF IoCreate, IoDefDim, IoDefVar, IoPutAtt, IoEnddef, IoPutVara, IoClose
  <2>2. DOMAIN netcdf = Servers
    BY DEF Serves, Tabled
  <2>3. QED
    BY <2>1, <2>2
<1>8. QED
  BY <1>3, <1>5, <1>6, <1>7 DEF Opens, Closing

(* A server has the files of its clients open in the library.                *)
AllOpen(h) == Serves(h) /\ \A s \in Servers : Opens(h, s)

\* A server has taken as many calls as there are, at most.
LEMMA TakenType ==
  ASSUME NEW h, Serves(h), NEW s \in Servers
  PROVE  Taken(s) \in 0..Len(calls) /\ Len(calls) \in Nat
<1>1. Hist(h, calls) /\ Followed(h, calls, made, names, inbox) /\ Group[s][1] \in Clients
  BY ClientsOf DEF Serves
<1>2. Len(calls) \in Nat
  BY <1>1, ProgramAssumption DEF Followed
<1>3. QED
  BY <1>1, <1>2, DecodedType DEF Taken

\* A client makes its next call: its server notices nothing.
LEMMA ClientOpens ==
  ASSUME NEW h, AllOpen(h), NEW c \in Clients, Client(c)
  PROVE  \E g : /\ AllOpen(g)' /\ Longer(h, calls, g, calls')
                /\ \A s \in Servers : Taken(s)' = Taken(s)
<1>1. /\ Serves(h) /\ \A s \in Servers : Opens(h, s)
  BY DEF AllOpen
<1>2. PICK g : /\ Serves(g)' /\ Longer(h, calls, g, calls')
               /\ \A s \in Servers : Taken(s)' = Taken(s)
  BY <1>1, ClientServes
<1>3. UNCHANGED <<turn, files, requests, waiting, netcdf>>
  BY DEF Client
<1>4. ASSUME NEW s \in Servers PROVE Opens(g, s)'
  <2>1. PICK k : k = Taken(s)
    OBVIOUS
  <2>2. k \in 0..Len(calls) /\ Len(calls) \in Nat /\ Taken(s)' = k
    BY <1>1, <1>2, <2>1, TakenType
  <2>3. g[k] = h[k]
    BY <1>2, <2>2 DEF Longer
  <2>4. LibraryOk(g[k], files'[s], netcdf'[s], waiting'[s])
    BY <1>1, <1>3, <2>1, <2>3 DEF Opens
  <2>5. ASSUME NEW nc \in DOMAIN files[s] \ DOMAIN h[k].nc PROVE Closing(g, s, nc)'
    <3>1. Closing(h, s, nc)
      BY <1>1, <2>1, <2>5 DEF Opens
    <3>2. CASE waiting[s].op = "close" /\ waiting[s].nc = nc
      BY <1>3, <3>2 DEF Closing
    <3>3. CASE ~(waiting[s].op = "close" /\ waiting[s].nc = nc)
      <4>1. /\ turn[s] # 1 /\ k \in 1..Len(calls) /\ calls[k].op = "close"
            /\ nc = NcOf(h[k - 1], calls[k].path)
            /\ <<"close", nc, 0>> \in DOMAIN requests[s]
            /\ 0..(turn[s] - 2) \subseteq Noted(requests[s][<<"close", nc, 0>>], Len(Group[s]))
        BY <2>1, <3>1, <3>3 DEF Closing
      <4>2. k - 1 \in 0..Len(calls) /\ k \in 1..Len(calls')
        BY <1>2, <2>2, <4>1 DEF Longer
      <4>3. calls'[k] = calls[k] /\ g[k - 1] = h[k - 1]
        BY <1>2, <4>1, <4>2 DEF Longer
      <4>4. QED
        BY <1>3, <2>2, <4>1, <4>2, <4>3 DEF Closing
    <3>4. QED
      BY <3>2, <3>3
  <2>6. QED
    BY <1>3, <2>2, <2>3, <2>4, <2>5 DEF Opens
<1>5. QED
  BY <1>2, <1>4 DEF AllOpen

\* A set of naturals that is not empty has a least element.
LEMMA LeastOf ==
  ASSUME NEW T, T \subseteq Nat, T # {}
  PROVE  \E n \in T : \A m \in T : ~(m < n)
<1>1. PICK R : R = {ss \in Nat \X Nat : ss[1] < ss[2]}
  OBVIOUS
<1>2. IsWellFoundedOn(R, Nat)
  BY <1>1, NatLessThanWellFounded DEF OpToRel
<1>3. PICK n \in T : \A m \in T : ~(<<m, n>> \in R)
  BY <1>2, WFMin
<1>4. QED
  BY <1>1, <1>3

\* The library gives a new file the least id that is free.
LEMMA NewIdFree ==
  ASSUME NEW D, IsFiniteSet(D)
  PROVE  \E n \in 1..(Cardinality(D) + 1) : n \notin D /\ \A m \in 1..(n - 1) : m \in D
<1>1. PICK k : k = Cardinality(D) /\ k \in Nat
  BY FS_CardinalityType
<1>2. PICK T : T = {n \in 1..(k + 1) : n \notin D}
  OBVIOUS
<1>3. T # {}
  <2>1. SUFFICES ASSUME T = {} PROVE FALSE
    OBVIOUS
  <2>2. 1..(k + 1) \in SUBSET D
    BY <1>2, <2>1
  <2>3. Cardinality(1..(k + 1)) <= k
    BY <1>1, <2>2, FS_Subset
  <2>4. Cardinality(1..(k + 1)) = k + 1
    BY <1>1, FS_Interval
  <2>5. QED
    BY <1>1, <2>3, <2>4
<1>4. PICK n \in T : \A m \in T : ~(m < n)
  <2>1. T \subseteq Nat
    BY <1>1, <1>2
  <2>2. QED
    BY <1>3, <2>1, LeastOf
<1>5. n \in 1..(k + 1) /\ n \notin D
  BY <1>2, <1>4
<1>6. \A m \in 1..(n - 1) : m \in D
  BY <1>1, <1>2, <1>4, <1>5
<1>7. QED
  BY <1>1, <1>5, <1>6

\* The id of a new file is valid, and that of no other file.
LEMMA NewNcIdFree ==
  ASSUME NEW s, IsFiniteSet(DOMAIN netcdf[s])
  PROVE  NewNcId(s) \notin DOMAIN netcdf[s] /\ NewNcId(s) # Invalid
<1>1. PICK D, k : D = DOMAIN netcdf[s] /\ k = Cardinality(D) /\ k \in Nat
  BY FS_CardinalityType
<1>2. \E n \in 1..(k + 1) : n \notin D /\ \A m \in 1..(n - 1) : m \in D
  BY <1>1, NewIdFree
<1>3. NewNcId(s) = CHOOSE n \in 1..(k + 1) : n \notin D /\ \A m \in 1..(n - 1) : m \in D
  BY <1>1 DEF NewNcId
<1>4. NewNcId(s) \in 1..(k + 1) /\ NewNcId(s) \notin D
  BY <1>2, <1>3
<1>5. QED
  BY <1>1, <1>4 DEF Invalid

\* The library has created a file.
LEMMA CreateReturned ==
  ASSUME NEW tab, NEW fs, NEW nd, NEW w, LibraryOk(tab, fs, nd, w), w.op = "create", w.nc \in DOMAIN fs,
         DOMAIN tab.nc \subseteq DOMAIN fs, DOMAIN fs[w.nc] = FileFields,
         NEW id, id \notin DOMAIN nd, id # Invalid,
         NEW gs, gs = [fs EXCEPT ![w.nc].nc_id = id],
         NEW ne, ne = With(nd, id, [path |-> w.path, define |-> TRUE, vars |-> << >>])
  PROVE  LibraryOk(tab, gs, ne, Idle)
<1>1. /\ IsFiniteSet(DOMAIN nd) /\ Invalid \notin DOMAIN nd
      /\ \A i \in DOMAIN nd : DOMAIN nd[i] = NcFields
      /\ \A nc \in DOMAIN fs : nc # w.nc => fs[nc].nc_id \in DOMAIN nd
      /\ \A m, n \in DOMAIN fs : m # w.nc /\ n # w.nc /\ fs[m].nc_id = fs[n].nc_id => m = n
      /\ \A nc \in DOMAIN tab.nc :
           tab.nc[nc].path = IF nc = w.nc THEN w.path ELSE nd[fs[nc].nc_id].path
  BY DEF LibraryOk, Creating
<1>2. PICK v : v = [path |-> w.path, define |-> TRUE, vars |-> << >>]
  OBVIOUS
<1>3. DOMAIN v = NcFields /\ v.path = w.path
  BY <1>2 DEF NcFields
<1>4. DOMAIN ne = DOMAIN nd \cup {id} /\ ne[id] = v /\ \A i \in DOMAIN nd : ne[i] = nd[i]
  BY <1>2 DEF With
<1>5. IsFiniteSet(DOMAIN ne) /\ Invalid \notin DOMAIN ne /\ \A i \in DOMAIN ne : DOMAIN ne[i] = NcFields
  BY <1>1, <1>3, <1>4, FS_AddElement
<1>6. DOMAIN gs = DOMAIN fs /\ gs[w.nc].nc_id = id /\ \A n \in DOMAIN fs : n # w.nc => gs[n] = fs[n]
  BY DEF FileFields
<1>7. \A i : ~Creating(Idle, i)
  BY DEF Creating, Idle
<1>8. \A nc \in DOMAIN gs : gs[nc].nc_id \in DOMAIN ne
  BY <1>1, <1>4, <1>6
<1>9. \A m, n \in DOMAIN gs : gs[m].nc_id = gs[n].nc_id => m = n
  BY <1>1, <1>6
<1>10. ASSUME NEW nc \in DOMAIN tab.nc PROVE tab.nc[nc].path = ne[gs[nc].nc_id].path
  <2>1. CASE nc = w.nc
    BY <1>1, <1>3, <1>4, <1>6, <2>1
  <2>2. CASE nc # w.nc
    <3>1. nc \in DOMAIN fs /\ tab.nc[nc].path = nd[fs[nc].nc_id].path
      BY <1>1, <2>2
    <3>2. gs[nc].nc_id = fs[nc].nc_id /\ fs[nc].nc_id \in DOMAIN nd
      BY <1>1, <1>6, <2>2, <3>1
    <3>3. QED
      BY <1>4, <3>1, <3>2
  <2>3. QED
    BY <2>1, <2>2
<1>11. WaitsFor(gs, Idle)
  BY DEF WaitsFor, Idle
<1>12. QED
  BY <1>5, <1>7, <1>8, <1>9, <1>10, <1>11 DEF LibraryOk

\* The library has ended the definitions of a file.
LEMMA EnddefReturned ==
  ASSUME NEW tab, NEW fs, NEW nd, NEW w, LibraryOk(tab, fs, nd, w), w.op = "enddef", w.nc \in DOMAIN fs,
         DOMAIN tab.nc \subseteq DOMAIN fs, DOMAIN fs[w.nc] = FileFields,
         NEW gs, gs = [fs EXCEPT ![w.nc].status = "data"],
         NEW ne, ne = [nd EXCEPT ![w.id].define = FALSE]
  PROVE  LibraryOk(tab, gs, ne, Idle)
<1>1. \A i : ~Creating(w, i)
  BY DEF Creating
<1>2. /\ IsFiniteSet(DOMAIN nd) /\ Invalid \notin DOMAIN nd
      /\ \A i \in DOMAIN nd : DOMAIN nd[i] = NcFields
      /\ \A nc \in DOMAIN fs : fs[nc].nc_id \in DOMAIN nd
      /\ \A m, n \in DOMAIN fs : fs[m].nc_id = fs[n].nc_id => m = n
      /\ \A nc \in DOMAIN tab.nc : tab.nc[nc].path = nd[fs[nc].nc_id].path
  BY <1>1 DEF LibraryOk
<1>3. w.id \in DOMAIN nd
  BY <1>2 DEF LibraryOk, WaitsFor
<1>4. DOMAIN gs = DOMAIN fs /\ \A n \in DOMAIN fs : gs[n].nc_id = fs[n].nc_id
  BY DEF FileFields
<1>5. /\ DOMAIN ne = DOMAIN nd
      /\ \A i \in DOMAIN nd : DOMAIN ne[i] = NcFields /\ ne[i].path = nd[i].path
  BY <1>2, <1>3 DEF NcFields
<1>6. \A i : ~Creating(Idle, i)
  BY DEF Creating, Idle
<1>7. WaitsFor(gs, Idle)
  BY DEF WaitsFor, Idle
<1>8. QED
  BY <1>2, <1>4, <1>5, <1>6, <1>7 DEF LibraryOk

\* The library has written data.
LEMMA PutVaraReturned ==
  ASSUME NEW tab, NEW fs, NEW nd, NEW w, LibraryOk(tab, fs, nd, w), w.op = "put_vara"
  PROVE  LibraryOk(tab, fs, nd, Idle)
<1>1. \A i : ~Creating(w, i) /\ ~Creating(Idle, i)
  BY DEF Creating, Idle
<1>2. WaitsFor(fs, Idle)
  BY DEF WaitsFor, Idle
<1>3. QED
  BY <1>1, <1>2 DEF LibraryOk

\* The library has closed a file.
LEMMA CloseReturned ==
  ASSUME NEW tab, NEW fs, NEW nd, NEW w, LibraryOk(tab, fs, nd, w), w.op = "close", w.nc \in DOMAIN fs,
         DOMAIN tab.nc \subseteq DOMAIN fs, w.nc \notin DOMAIN tab.nc,
         NEW gs, gs = Without(fs, w.nc), NEW ne, ne = Without(nd, w.id)
  PROVE  LibraryOk(tab, gs, ne, Idle)
<1>1. \A i : ~Creating(w, i)
  BY DEF Creating
<1>2. /\ IsFiniteSet(DOMAIN nd) /\ Invalid \notin DOMAIN nd
      /\ \A i \in DOMAIN nd : DOMAIN nd[i] = NcFields
      /\ \A nc \in DOMAIN fs : fs[nc].nc_id \in DOMAIN nd
      /\ \A m, n \in DOMAIN fs : fs[m].nc_id = fs[n].nc_id => m = n
      /\ \A nc \in DOMAIN tab.nc : tab.nc[nc].path = nd[fs[nc].nc_id].path
  BY <1>1 DEF LibraryOk
<1>3. w.id = fs[w.nc].nc_id
  BY DEF LibraryOk, WaitsFor
<1>4. DOMAIN gs = DOMAIN fs \ {w.nc} /\ \A n \in DOMAIN gs : gs[n] = fs[n]
  BY DEF Without
<1>5. DOMAIN ne = DOMAIN nd \ {w.id} /\ \A i \in DOMAIN ne : ne[i] = nd[i]
  BY DEF Without
<1>6. \A n \in DOMAIN gs : gs[n].nc_id \in DOMAIN ne
  BY <1>2, <1>3, <1>4, <1>5
<1>7. IsFiniteSet(DOMAIN ne)
  BY <1>2, <1>5, FS_RemoveElement
<1>8. \A n \in DOMAIN tab.nc : n \in DOMAIN gs
  BY <1>4
<1>9. \A i : ~Creating(Idle, i)
  BY DEF Creating, Idle
<1>10. WaitsFor(gs, Idle)
  BY DEF WaitsFor, Idle
<1>11. QED
  BY <1>2, <1>4, <1>5, <1>6, <1>7, <1>8, <1>9, <1>10 DEF LibraryOk

\* A file that is being closed still is when another library call returns.
LEMMA StillClosing ==
  ASSUME NEW h, NEW s \in Servers, NEW nc, Closing(h, s, nc), ~(waiting[s].op = "close" /\ waiting[s].nc = nc),
         Taken(s)' = Taken(s), UNCHANGED <<calls, turn>>,
         \/ requests'[s] = requests[s]
         \/ requests'[s] = Removed(requests[s], waiting[s].key) /\ waiting[s].key # <<"close", nc, 0>>
  PROVE  Closing(h, s, nc)'
<1>1. PICK key : key = <<"close", nc, 0>>
  OBVIOUS
<1>2. key \in DOMAIN requests[s]
  BY <1>1 DEF Closing
<1>3. key \in DOMAIN requests'[s] /\ requests'[s][key] = requests[s][key]
  BY <1>1, <1>2 DEF Removed, Without
<1>4. QED
  BY <1>1, <1>3 DEF Closing

\* What is known of a server that is in a library call.
LEMMA InCall ==
  ASSUME NEW h, AllOpen(h), NEW s \in Servers, NEW fs, fs = files[s], NEW w, w = waiting[s],
         NEW tab, tab = h[Taken(s)]
  PROVE  /\ LibraryOk(tab, fs, netcdf[s], w) /\ DOMAIN tab.nc \subseteq DOMAIN fs
         /\ \A n \in DOMAIN fs : DOMAIN fs[n] = FileFields
         /\ w.op \in {"create", "enddef", "close"} => w.nc \in DOMAIN fs
         /\ w.op = "close" => w.nc \notin DOMAIN tab.nc
         /\ \A n \in DOMAIN fs \ DOMAIN tab.nc : Closing(h, s, n)
<1>1. ServerOk(s, tab, fs, requests[s], w) /\ Opens(h, s)
  BY DEF AllOpen, Serves
<1>2. FilesOk(s, tab, fs) /\ WaitingOk(tab, fs, w)
  BY <1>1 DEF ServerOk
<1>3. \A n \in DOMAIN fs : DOMAIN fs[n] = FileFields
  BY <1>2 DEF FilesOk, IsFile
<1>4. DOMAIN tab.nc \subseteq DOMAIN fs
  BY <1>2 DEF FilesOk
<1>5. QED
  BY <1>1, <1>2, <1>3, <1>4 DEF Opens, WaitingOk

\* The library calls return to every server, and no creation has failed.
LEMMA ReturnOpens ==
  ASSUME NEW h, AllOpen(h), CollectiveReturns, CreateFails = FALSE
  PROVE  AllOpen(h)'
<1>1. Serves(h)'
  BY ReturnServes DEF AllOpen
<1>2. /\ UNCHANGED <<calls, made, inbox, turn>>
      /\ waiting' = [s \in Servers |-> Idle]
  BY DEF CollectiveReturns, CreateReturns, EnddefReturns, PutVaraReturns, CloseReturns, Return,
      clientVars
<1>3. ASSUME NEW s \in Servers PROVE Opens(h, s)'
  <2>1. Taken(s)' = Taken(s)
    BY <1>2 DEF Taken, Decoded
  <2>2. PICK fs, nd, w, tab, rq : /\ fs = files[s] /\ nd = netcdf[s] /\ w = waiting[s] /\ tab = h[Taken(s)]
                                  /\ rq = requests[s]
    OBVIOUS
  <2>3. /\ LibraryOk(tab, fs, nd, w) /\ DOMAIN tab.nc \subseteq DOMAIN fs
        /\ \A n \in DOMAIN fs : DOMAIN fs[n] = FileFields
        /\ w.op \in {"create", "enddef", "close"} => w.nc \in DOMAIN fs
        /\ w.op = "close" => w.nc \notin DOMAIN tab.nc
        /\ \A n \in DOMAIN fs \ DOMAIN tab.nc : Closing(h, s, n)
    BY <2>2, InCall
  <2>4. waiting'[s] = Idle
    BY <1>2
  <2>5. ASSUME LibraryOk(tab, files'[s], netcdf'[s], Idle), DOMAIN files'[s] \subseteq DOMAIN fs,
               \A n \in DOMAIN files'[s] : ~(w.op = "close" /\ w.nc = n),
               \/ requests'[s] = rq
               \/ requests'[s] = Removed(rq, w.key) /\ \A n \in DOMAIN files'[s] : w.key # <<"close", n, 0>>
        PROVE  Opens(h, s)'
    <3>1. ASSUME NEW n \in DOMAIN files'[s] \ DOMAIN tab.nc PROVE Closing(h, s, n)'
      <4>1. Closing(h, s, n) /\ ~(waiting[s].op = "close" /\ waiting[s].nc = n)
        BY <2>2, <2>3, <2>5, <3>1
      <4>2. \/ requests'[s] = requests[s]
            \/ requests'[s] = Removed(requests[s], waiting[s].key) /\ waiting[s].key # <<"close", n, 0>>
        BY <2>2, <2>5, <3>1
      <4>3. QED
        BY <1>2, <2>1, <4>1, <4>2, StillClosing
    <3>2. QED
      BY <2>1, <2>2, <2>4, <2>5, <3>1 DEF Opens
  <2>6. CASE CreateReturns
    <3>1. /\ w.op = "create" /\ requests' = requests
          /\ files' = [o \in Servers |-> [files[o] EXCEPT ![waiting[o].nc].nc_id = NewNcId(o)]]
          /\ netcdf' = [o \in Servers |->
               With(netcdf[o], NewNcId(o), [path |-> waiting[o].path, define |-> TRUE, vars |-> << >>])]
      BY <2>2, <2>6 DEF CreateReturns, Together
    <3>2. PICK id : id = NewNcId(s)
      OBVIOUS
    <3>3. id \notin DOMAIN nd /\ id # Invalid
      BY <2>2, <2>3, <3>2, NewNcIdFree DEF LibraryOk
    <3>4. PICK gs, ne : /\ gs = [fs EXCEPT ![w.nc].nc_id = id]
                        /\ ne = With(nd, id, [path |-> w.path, define |-> TRUE, vars |-> << >>])
      OBVIOUS
    <3>5. files'[s] = gs /\ netcdf'[s] = ne /\ requests'[s] = rq
      BY <2>2, <3>1, <3>2, <3>4
    <3>6. w.nc \in DOMAIN fs
      BY <2>3, <3>1
    <3>7. DOMAIN fs[w.nc] = FileFields
      BY <2>3, <3>6
    <3>8. LibraryOk(tab, gs, ne, Idle)
      BY <2>3, <3>1, <3>3, <3>4, <3>6, <3>7, CreateReturned
    <3>9. DOMAIN gs = DOMAIN fs
      BY <3>4
    <3>10. w.op # "close"
      BY <3>1
    <3>11. QED
      BY <2>5, <3>5, <3>8, <3>9, <3>10
  <2>7. CASE EnddefReturns
    <3>1. /\ w.op = "enddef" /\ requests' = [o \in Servers |-> Removed(requests[o], waiting[o].key)]
          /\ files' = [o \in Servers |-> [files[o] EXCEPT ![waiting[o].nc].status = "data"]]
          /\ netcdf' = [o \in Servers |-> [netcdf[o] EXCEPT ![waiting[o].id].define = FALSE]]
      BY <2>2, <2>7 DEF EnddefReturns, Together, RemoveAll
    <3>2. PICK gs, ne : /\ gs = [fs EXCEPT ![w.nc].status = "data"]
                        /\ ne = [nd EXCEPT ![w.id].define = FALSE]
      OBVIOUS
    <3>3. files'[s] = gs /\ netcdf'[s] = ne /\ requests'[s] = Removed(rq, w.key)
      BY <2>2, <3>1, <3>2
    <3>4. w.nc \in DOMAIN fs
      BY <2>3, <3>1
    <3>5. DOMAIN fs[w.nc] = FileFields
      BY <2>3, <3>4
    <3>6. LibraryOk(tab, gs, ne, Idle)
      BY <2>3, <3>1, <3>2, <3>4, <3>5, EnddefReturned
    <3>7. DOMAIN gs = DOMAIN fs
      BY <3>2
    <3>8. w.op # "close" /\ w.key[1] = "enddef"
      BY <2>3, <3>1 DEF LibraryOk, WaitsFor
    <3>9. \A n \in DOMAIN gs : w.key # <<"close", n, 0>>
      BY <3>8
    <3>10. QED
      BY <2>5, <3>3, <3>6, <3>7, <3>8, <3>9
  <2>8. CASE PutVaraReturns
    <3>1. /\ w.op = "put_vara" /\ requests' = [o \in Servers |-> Removed(requests[o], waiting[o].key)]
          /\ UNCHANGED <<files, netcdf>>
      BY <2>2, <2>8 DEF PutVaraReturns, Together, RemoveAll
    <3>2. files'[s] = fs /\ netcdf'[s] = nd /\ requests'[s] = Removed(rq, w.key)
      BY <2>2, <3>1
    <3>3. LibraryOk(tab, fs, nd, Idle)
      BY <2>3, <3>1, PutVaraReturned
    <3>4. w.op # "close" /\ w.key[1] = "put_vara"
      BY <2>3, <3>1 DEF LibraryOk, WaitsFor
    <3>5. \A n \in DOMAIN fs : w.key # <<"close", n, 0>>
      BY <3>4
    <3>6. QED
      BY <2>5, <3>2, <3>3, <3>4, <3>5
  <2>9. CASE CloseReturns
    <3>1. /\ w.op = "close" /\ requests' = [o \in Servers |-> Removed(requests[o], waiting[o].key)]
          /\ files' = [o \in Servers |-> Without(files[o], waiting[o].nc)]
          /\ netcdf' = [o \in Servers |-> Without(netcdf[o], waiting[o].id)]
      BY <2>2, <2>9 DEF CloseReturns, Together, RemoveAll, Closed
    <3>2. PICK gs, ne : gs = Without(fs, w.nc) /\ ne = Without(nd, w.id)
      OBVIOUS
    <3>3. files'[s] = gs /\ netcdf'[s] = ne /\ requests'[s] = Removed(rq, w.key)
      BY <2>2, <3>1, <3>2
    <3>4. w.nc \in DOMAIN fs /\ w.nc \notin DOMAIN tab.nc
      BY <2>3, <3>1
    <3>5. LibraryOk(tab, gs, ne, Idle)
      BY <2>3, <3>1, <3>2, <3>4, CloseReturned
    <3>6. DOMAIN gs = DOMAIN fs \ {w.nc}
      BY <3>2 DEF Without
    <3>7. w.key = <<"close", w.nc, 0>>
      BY <2>3, <3>1 DEF LibraryOk, WaitsFor
    <3>8. \A n \in DOMAIN gs : n # w.nc /\ w.key # <<"close", n, 0>>
      BY <3>6, <3>7
    <3>9. QED
      BY <2>5, <3>3, <3>5, <3>6, <3>8
  <2>10. QED
    BY <2>6, <2>7, <2>8, <2>9 DEF CollectiveReturns
<1>4. QED
  BY <1>1, <1>3 DEF AllOpen

\* At the start nothing is open.
LEMMA InitOpens ==
  ASSUME Init
  PROVE  \E h : AllOpen(h)
<1>1. PICK h : Serves(h)
  BY InitServes
<1>2. ASSUME NEW s \in Servers PROVE Opens(h, s)
  <2>1. PICK tab : tab = h[Taken(s)]
    OBVIOUS
  <2>2. files[s] = EmptyFcn /\ netcdf[s] = EmptyFcn /\ waiting[s] = Idle
    BY DEF Init
  <2>3. DOMAIN EmptyFcn = {}
    BY DEF EmptyFcn
  <2>4. FilesOk(s, tab, EmptyFcn)
    BY <1>1, <2>1, <2>2 DEF Serves, ServerOk
  <2>5. DOMAIN tab.nc = {}
    BY <2>3, <2>4 DEF FilesOk
  <2>6. WaitsFor(EmptyFcn, Idle)
    BY DEF WaitsFor, Idle
  <2>7. LibraryOk(tab, EmptyFcn, EmptyFcn, Idle)
    BY <2>3, <2>5, <2>6, FS_EmptySet DEF LibraryOk
  <2>8. QED
    BY <2>1, <2>2, <2>3, <2>7 DEF Opens
<1>3. QED
  BY <1>1, <1>2 DEF AllOpen

(* Inductive when no creation fails. *)
IInvOpen == \E h : AllOpen(h)

\* A server has the files of its clients open, when no creation fails.
LEMMA OpenInvariant ==
  ASSUME CreateFails = FALSE
  PROVE  Spec => []IInvOpen
<1>1. Init => IInvOpen
  BY InitOpens DEF IInvOpen
<1>2. IInvOpen /\ [Next]_vars => IInvOpen'
  <2>1. SUFFICES ASSUME IInvOpen, [Next]_vars PROVE IInvOpen'
    OBVIOUS
  <2>2. PICK h : AllOpen(h)
    BY <2>1 DEF IInvOpen
  <2>3. CASE UNCHANGED vars
    <3>1. AllOpen(h)'
      <4>1. Serves(h)'
        BY <2>2, <2>3, Zenon DEF vars, AllOpen, Serves, Tabled, Round, Taken, Decoded
      <4>2. ASSUME NEW s \in Servers PROVE Opens(h, s)'
        BY <2>2, <2>3, Zenon DEF vars, AllOpen, Opens, Closing, Taken, Decoded
      <4>3. QED
        BY <4>1, <4>2 DEF AllOpen
    <3>2. QED
      BY <3>1 DEF IInvOpen
  <2>4. ASSUME NEW c \in Clients, Client(c) PROVE IInvOpen'
    BY <2>2, <2>4, ClientOpens DEF IInvOpen
  <2>5. ASSUME NEW s \in Servers, Decode(s) PROVE IInvOpen'
    <3>1. Serves(h) /\ \A o \in Servers : Opens(h, o)
      BY <2>2 DEF AllOpen
    <3>2. Serves(h)'
      BY <2>5, <3>1, DecodeServes
    <3>3. \A o \in Servers : Opens(h, o)'
      BY <2>5, <3>1, DecodeOpens, DecodeOthers
    <3>4. AllOpen(h)'
      BY <3>2, <3>3 DEF AllOpen
    <3>5. QED
      BY <3>4 DEF IInvOpen
  <2>6. CASE CollectiveReturns
    BY <2>2, <2>6, ReturnOpens DEF IInvOpen
  <2>7. CASE Terminating
    BY <2>3, <2>7 DEF Terminating
  <2>8. QED
    BY <2>1, <2>3, <2>4, <2>5, <2>6, <2>7 DEF Next
<1>3. QED
  BY <1>1, <1>2, PTL DEF Spec

\* The server of a client has all it knows of a file.
LEMMA DefsMatch ==
  ASSUME NEW defs, NEW dims, NEW vs, Matches(defs, dims, vs), NEW kind \in {"dim", "var"},
         NEW list, list = IF kind = "dim" THEN dims ELSE vs, NEW i \in DOMAIN list
  PROVE  Positioned(defs, kind, i) # {} /\ DefOf(defs, kind, i).name = list[i]
<1>1. Positioned(defs, kind, i) # {}
  BY DEF Matches
<1>2. PICK j : j = CHOOSE n \in Positioned(defs, kind, i) : TRUE
  OBVIOUS
<1>3. j \in DOMAIN defs /\ defs[j].kind = kind /\ defs[j].id = i
  BY <1>1, <1>2 DEF Positioned
<1>4. defs[j].name = list[i]
  BY <1>3 DEF Matches
<1>5. QED
  BY <1>1, <1>2, <1>4 DEF DefOf

(* A server has a file as its client describes it. *)
Describes(s, nc, mine) ==
  /\ netcdf[s][files[s][nc].nc_id].path = mine.path
  /\ Len(files[s][nc].defs) = Len(mine.dims) + Len(mine.vars)
  /\ \A i \in DOMAIN mine.dims :
       HasDef(s, nc, "dim", i) /\ Def(s, nc, "dim", i).name = mine.dims[i]
  /\ \A i \in DOMAIN mine.vars :
       HasDef(s, nc, "var", i) /\ Def(s, nc, "var", i).name = mine.vars[i]

\* The ids that clients give without asking anyone mean the same on their
\* server, and the files are open there, whatever calls a program makes and
\* however far the clients are apart.
THEOREM SameIdsCorrect == CreateFails = FALSE => (Spec => []SameIds)
<1>1. IInvOpen => SameIds
  <2>1. SUFFICES ASSUME IInvOpen, NEW s \in Servers, BetweenRounds(s), NEW c \in Members(s), inbox[c] = << >>
                 PROVE  /\ DOMAIN files[s] = DOMAIN names[c].nc
                        /\ \A nc \in DOMAIN files[s] : Describes(s, nc, names[c].nc[nc])
    BY DEF SameIds, Describes
  <2>2. PICK h : AllOpen(h)
    BY <2>1 DEF IInvOpen
  <2>3. PICK tab, fs : tab = h[Taken(s)] /\ fs = files[s]
    OBVIOUS
  <2>4. /\ Hist(h, calls) /\ Followed(h, calls, made, names, inbox) /\ Round(s)
        /\ ServerOk(s, tab, fs, requests[s], waiting[s]) /\ Opens(h, s)
    BY <2>2, <2>3 DEF AllOpen, Serves
  <2>5. turn[s] = 1 /\ waiting[s].op = "none"
    BY <2>1 DEF BetweenRounds
  <2>6. PICK i \in DOMAIN Group[s] : c = Group[s][i]
    BY <2>1 DEF Members
  <2>7. c \in Clients
    BY <2>6, ClientsOf
  <2>8. made[c] = Taken(s)
    <3>1. Decoded(c) = Taken(s) - 0
      BY <2>4, <2>5, <2>6 DEF Round
    <3>2. Len(inbox[c]) = 0
      BY <2>1
    <3>3. made[c] \in Nat /\ Taken(s) \in Nat
      <4>1. Group[s][1] \in Clients
        BY ClientsOf
      <4>2. QED
        BY <2>4, <2>7, <4>1, DecodedType DEF Taken
    <3>4. QED
      BY <3>1, <3>2, <3>3 DEF Decoded
  <2>9. names[c] = tab
    BY <2>3, <2>4, <2>7, <2>8 DEF Followed
  <2>10. \A n : ~Closing(h, s, n) /\ ~Creating(waiting[s], n)
    BY <2>5 DEF Closing, Creating
  <2>11. \A n \in DOMAIN tab.nc : n \in DOMAIN fs /\ Matches(fs[n].defs, tab.nc[n].dims, tab.nc[n].vars)
    BY <2>4 DEF ServerOk, FilesOk
  <2>12. DOMAIN fs = DOMAIN tab.nc
    BY <2>3, <2>4, <2>10, <2>11 DEF Opens
  <2>13. ASSUME NEW nc \in DOMAIN fs, NEW mine, mine = tab.nc[nc]
         PROVE  Describes(s, nc, mine)
    <3>1. PICK defs : defs = fs[nc].defs
      OBVIOUS
    <3>2. Matches(defs, mine.dims, mine.vars)
      BY <2>11, <2>12, <2>13, <3>1
    <3>3. netcdf[s][fs[nc].nc_id].path = mine.path
      BY <2>3, <2>4, <2>10, <2>12, <2>13 DEF Opens, LibraryOk
    <3>4. Len(defs) = Len(mine.dims) + Len(mine.vars)
      BY <3>2 DEF Matches
    <3>5. \A kind, j : /\ HasDef(s, nc, kind, j) <=> Positioned(defs, kind, j) # {}
                       /\ Def(s, nc, kind, j) = DefOf(defs, kind, j)
      BY <2>3, <2>13, <3>1 DEF HasDef, HasNc, Def, DefAt, DefOf
    <3>6. \A j \in DOMAIN mine.dims : Positioned(defs, "dim", j) # {} /\ DefOf(defs, "dim", j).name = mine.dims[j]
      BY <3>2, DefsMatch
    <3>7. \A j \in DOMAIN mine.vars : Positioned(defs, "var", j) # {} /\ DefOf(defs, "var", j).name = mine.vars[j]
      BY <3>2, DefsMatch
    <3>8. QED
      BY <2>3, <3>1, <3>3, <3>4, <3>5, <3>6, <3>7 DEF Describes
  <2>14. QED
    BY <2>3, <2>9, <2>12, <2>13
<1>2. CreateFails = FALSE => (Spec => []IInvOpen)
  BY OpenInvariant
<1>3. QED
  BY <1>1, <1>2, PTL

\* No assertion fails while the files of the server are open.
LEMMA DecodeAborts ==
  ASSUME NEW h, AllOpen(h), NEW s \in Servers, Decode(s)
  PROVE  aborted' = aborted
<1>1. PICK c, m : /\ c = Group[s][turn[s]] /\ m = Unpacked(Head(inbox[c]))
  OBVIOUS
<1>2. /\ waiting[s].op = "none"
      /\ \/ IoCreate(s, c, m) \/ IoDefDim(s, c, m) \/ IoDefVar(s, c, m)
         \/ IoPutAtt(s, c, m) \/ IoEnddef(s, c, m) \/ IoPutVara(s, c, m)
         \/ IoClose(s, c, m)
  BY <1>1 DEF Decode
<1>3. CASE ~IoEnddef(s, c, m)
  BY <1>2, <1>3 DEF IoCreate, IoDefDim, IoDefVar, IoPutAtt, IoPutVara, IoClose
<1>4. CASE IoEnddef(s, c, m)
  <2>1. PICK id : id = files[s][m.nc].nc_id
    OBVIOUS
  <2>2. CASE m.nc \in DOMAIN files[s]
    <3>1. ~Creating(waiting[s], m.nc) /\ Opens(h, s)
      BY <1>2 DEF AllOpen, Creating
    <3>2. id # Invalid
      BY <2>1, <2>2, <3>1 DEF Opens, LibraryOk
    <3>3. QED
      BY <1>4, <2>1, <3>2 DEF IoEnddef
  <2>3. CASE m.nc \notin DOMAIN files[s]
    BY <1>4, <2>3 DEF IoEnddef, HasNc
  <2>4. QED
    BY <2>2, <2>3
<1>5. QED
  BY <1>3, <1>4

\* The assertions on the netCDF id of a file fail only after a creation has:
\* also when a program defines or writes out of turn.
THEOREM AbortsAfterFailure == CreateFails = FALSE => (Spec => []NoAbort)
<1>1. Init => NoAbort
  BY DEF Init, NoAbort
<1>2. IInvOpen /\ NoAbort /\ [Next]_vars => NoAbort'
  <2>1. SUFFICES ASSUME IInvOpen, NoAbort, [Next]_vars PROVE aborted' = aborted
    BY DEF NoAbort
  <2>2. PICK h : AllOpen(h)
    BY <2>1 DEF IInvOpen
  <2>3. ASSUME NEW s \in Servers, Decode(s) PROVE aborted' = aborted
    BY <2>2, <2>3, DecodeAborts
  <2>4. QED
    BY <2>1, <2>3 DEF Next, vars, Client, CollectiveReturns, CreateReturns, EnddefReturns,
                      PutVaraReturns, CloseReturns, Terminating
<1>3. CreateFails = FALSE => (Spec => []IInvOpen)
  BY OpenInvariant
<1>4. QED
  BY <1>1, <1>2, <1>3, PTL DEF Spec

(***************************************************************************)
(* Between rounds nothing is left of a call, when programs keep to the modes *)
(* of a file and no creation fails.                                        *)
(***************************************************************************)
Noting == {"put_att", "put_vara", "enddef", "close"}

(* One of the first k calls ends the definitions of the file p.             *)
EndedBy(prog, k, p) == \E i \in 1..k : prog[i].op = "enddef" /\ prog[i].path = p

(* A program without misuse. *)
Orderly(prog) ==
  \A k \in DOMAIN prog :
    /\ prog[k].op \in {"create", "def_dim", "def_var", "put_att"} => ~EndedBy(prog, k - 1, prog[k].path)
    /\ prog[k].op = "put_vara" => EndedBy(prog, k - 1, prog[k].path)

(* The key of a call in io_table, made by clients with table t. *)
KeyOf(t, call) ==
  LET nc == NcOf(t, call.path)
  IN  <<call.op, nc, IF call.op \in {"put_att", "put_vara"} THEN VarOf(t, nc, call.name) ELSE 0>>

(* How many calls a server has done with. *)
Done(s) == IF turn[s] = 1 /\ waiting[s].op = "none" THEN Taken(s) ELSE Taken(s) - 1

(* Only the call that is being taken is noted, of the clients before turn i.  *)
Pending(s, call, key, rq, w, i) ==
  IF i = 1
    THEN IF w.op \in {"none", "create"} THEN rq = EmptyFcn ELSE DOMAIN rq = {w.key}
    ELSE /\ w.op \in {"none", "create"}
         /\ IF call.op \in Noting
              THEN DOMAIN rq = {key} /\ Noted(rq[key], Len(Group[s])) = 0..(i - 2)
              ELSE rq = EmptyFcn

NoPart(s) == [c \in Members(s) |-> 0]

(* Parts are kept for that call only. *)
PartsOf(s, call, key, fs, i) ==
  \A nc \in DOMAIN fs : \A d \in DOMAIN fs[nc].defs :
    \/ fs[nc].defs[d].parts \in {EmptyFcn, NoPart(s)}
    \/ /\ i # 1 /\ call.op = "put_vara" /\ nc = key[2]
       /\ d = CHOOSE e \in Positioned(fs[nc].defs, "var", key[3]) : TRUE

(* A file is in data mode when the program has ended its definitions, k calls *)
(* being done with.                                                        *)
Modes(prog, k, tab, fs) ==
  \A nc \in DOMAIN tab.nc : fs[nc].status = "data" <=> EndedBy(prog, k, tab.nc[nc].path)

(* The library is in the same mode. *)
Flags(fs, nd, w) ==
  \A nc \in DOMAIN fs : IF Creating(w, nc) THEN fs[nc].status = "define"
                        ELSE nd[fs[nc].nc_id].define <=> fs[nc].status = "define"

(* In data mode all definitions have their numbers. *)
Numbers(fs, w) ==
  \A nc \in DOMAIN fs :
    fs[nc].status = "data" \/ (w.op = "enddef" /\ w.nc = nc) =>
      \A d \in DOMAIN fs[nc].defs : fs[nc].defs[d].nc # Invalid

(* A library call is for the call that was taken last. *)
CallWaits(k, call, tab, w) ==
  /\ w.op # "none" => k # 0 /\ w.op = call.op
  /\ w.op = "enddef" => w.nc \in DOMAIN tab.nc /\ tab.nc[w.nc].path = call.path

Clean(h, s) ==
  LET k == Taken(s)
      key == KeyOf(h[k - 1], calls[k])
  IN  /\ turn[s] # 1 => k # 0 /\ (calls[k].op = "close" => key[2] \in DOMAIN files[s])
      /\ Pending(s, calls[k], key, requests[s], waiting[s], turn[s])
      /\ PartsOf(s, calls[k], key, files[s], turn[s])
      /\ Modes(calls, Done(s), h[k], files[s])
      /\ Flags(files[s], netcdf[s], waiting[s])
      /\ Numbers(files[s], waiting[s])
      /\ CallWaits(k, calls[k], h[k], waiting[s])

(* Before server s handles the message m of client c ... *)
Turn(s, c, m, t, u, call, k, key) ==
  /\ Handles(s, c, m, t, u, call, k)
  /\ LibraryOk(IF turn[s] = 1 THEN t ELSE u, files[s], netcdf[s], waiting[s])
  /\ call.op # "create" => m.nc \in DOMAIN files[s]
  /\ call.op \in Noting => key = Key(m)
  /\ IF turn[s] = 1 \/ call.op \notin Noting THEN requests[s] = EmptyFcn
     ELSE DOMAIN requests[s] = {key} /\ Noted(requests[s][key], Len(Group[s])) = 0..(turn[s] - 2)
  /\ PartsOf(s, call, key, files[s], turn[s])
  /\ Flags(files[s], netcdf[s], waiting[s]) /\ Numbers(files[s], waiting[s])
  /\ call.op \in {"def_dim", "def_var", "put_att"} => files[s][m.nc].status = "define"
  /\ call.op = "put_vara" => files[s][m.nc].status = "data"
  /\ turn'[s] = IF turn[s] = Len(Group[s]) THEN 1 ELSE turn[s] + 1

(* ... and after that. *)
Turned(s, m, call, key) ==
  /\ Pending(s, call, key, requests'[s], waiting'[s], turn'[s])
  /\ PartsOf(s, call, key, files'[s], turn'[s])
  /\ Flags(files'[s], netcdf'[s], waiting'[s]) /\ Numbers(files'[s], waiting'[s])
  /\ \A nc \in DOMAIN files[s] :
       nc \in DOMAIN files'[s] /\ files'[s][nc].status = files[s][nc].status
  /\ \A nc \in DOMAIN files'[s] \ DOMAIN files[s] : files'[s][nc].status = "define"
  /\ waiting'[s].op \in {"none", call.op}
  /\ waiting'[s].op = "enddef" => waiting'[s].nc = m.nc
  /\ call.op = "enddef" /\ turn'[s] = 1 /\ waiting'[s].op = "none" => files[s][m.nc].status = "data"

(* A handler changes the definitions of file n at most. *)
SameFiles(fs, gs, n) ==
  /\ DOMAIN gs = DOMAIN fs
  /\ \A x \in DOMAIN fs : /\ gs[x].nc_id = fs[x].nc_id /\ gs[x].status = fs[x].status
                          /\ x # n => gs[x].defs = fs[x].defs

SameModes(nd, ne) == DOMAIN ne = DOMAIN nd /\ \A id \in DOMAIN nd : ne[id].define = nd[id].define

\* What is known before.
LEMMA TurnIs ==
  ASSUME NEW s, NEW c, NEW m, NEW t, NEW u, NEW call, NEW k, NEW key, Turn(s, c, m, t, u, call, k, key)
  PROVE  /\ DOMAIN files = Servers /\ DOMAIN waiting = Servers /\ DOMAIN netcdf = Servers
         /\ DOMAIN requests = Servers /\ s \in Servers /\ waiting[s].op = "none"
         /\ turn[s] \in 1..Len(Group[s]) /\ c = Group[s][turn[s]] /\ m.op = call.op
         /\ turn'[s] = 1 <=> turn[s] = Len(Group[s])
         /\ turn[s] # Len(Group[s]) => turn'[s] = turn[s] + 1
         /\ Len(Group[s]) \in Nat \ {0}
         /\ \A n \in DOMAIN files[s] : IsFile(s, files[s][n]) /\ DOMAIN files[s][n] = FileFields
         /\ \A n \in DOMAIN files[s] : files[s][n].nc_id \in DOMAIN netcdf[s] /\ files[s][n].nc_id # Invalid
         /\ \A id \in DOMAIN netcdf[s] : DOMAIN netcdf[s][id] = NcFields
<1>1. Handles(s, c, m, t, u, call, k) /\ LibraryOk(IF turn[s] = 1 THEN t ELSE u, files[s], netcdf[s], waiting[s])
  BY DEF Turn
<1>2. /\ DOMAIN files = Servers /\ DOMAIN waiting = Servers /\ DOMAIN netcdf = Servers
      /\ DOMAIN requests = Servers /\ s \in Servers /\ waiting[s].op = "none"
      /\ turn[s] \in 1..Len(Group[s]) /\ c = Group[s][turn[s]]
  BY <1>1 DEF Handles, Tabled
<1>3. m.op = call.op
  BY <1>1, OpenGrows
<1>4. PICK tab : tab = IF turn[s] = 1 THEN t ELSE u
  OBVIOUS
<1>5. FilesOk(s, tab, files[s]) /\ LibraryOk(tab, files[s], netcdf[s], waiting[s])
  BY <1>1, <1>4 DEF Handles, ServerOk
<1>6. Len(Group[s]) \in Nat \ {0}
  BY <1>2, ClientsOf
<1>7. turn'[s] = IF turn[s] = Len(Group[s]) THEN 1 ELSE turn[s] + 1
  BY DEF Turn
<1>8. (turn'[s] = 1 <=> turn[s] = Len(Group[s])) /\ (turn[s] # Len(Group[s]) => turn'[s] = turn[s] + 1)
  BY <1>2, <1>6, <1>7
<1>9. \A n \in DOMAIN files[s] : IsFile(s, files[s][n]) /\ DOMAIN files[s][n] = FileFields
  BY <1>5 DEF FilesOk, IsFile
<1>10. \A n \in DOMAIN files[s] : ~Creating(waiting[s], n)
  BY <1>2 DEF Creating
<1>11. /\ \A n \in DOMAIN files[s] : files[s][n].nc_id \in DOMAIN netcdf[s] /\ files[s][n].nc_id # Invalid
       /\ \A id \in DOMAIN netcdf[s] : DOMAIN netcdf[s][id] = NcFields
  BY <1>5, <1>10 DEF LibraryOk
<1>12. QED
  BY <1>2, <1>3, <1>6, <1>8, <1>9, <1>11

\* The bitmap is full when it is the turn of the last client.
LEMMA FullAtLast ==
  ASSUME NEW s, NEW c, NEW m, NEW t, NEW u, NEW call, NEW k, NEW key, Turn(s, c, m, t, u, call, k, key),
         call.op \in Noting
  PROVE  /\ Full(s, Received(s, c, m)) <=> turn[s] = Len(Group[s])
         /\ Noted(Received(s, c, m), Len(Group[s])) = 0..(turn[s] - 1)
<1>1. /\ s \in Servers /\ turn[s] \in 1..Len(Group[s]) /\ c = Group[s][turn[s]] /\ Len(Group[s]) \in Nat \ {0}
  BY TurnIs
<1>2. PICK tab : RequestsOk(s, tab, requests[s])
  <2>1. Handles(s, c, m, t, u, call, k)
    BY DEF Turn
  <2>2. QED
    BY <2>1 DEF Handles, ServerOk
<1>3. PICK b : b = Received(s, c, m)
  OBVIOUS
<1>4. /\ Noted(b, Len(Group[s])) = Bits(s, requests[s], Key(m), turn[s])
      /\ Full(s, b) <=> Noted(b, Len(Group[s])) = 0..(Len(Group[s]) - 1)
  BY <1>1, <1>2, <1>3, ReceivedIs
<1>5. Bits(s, requests[s], Key(m), turn[s]) = 0..(turn[s] - 1)
  <2>1. CASE turn[s] = 1
    <3>1. requests[s] = EmptyFcn
      BY <2>1 DEF Turn
    <3>2. DOMAIN requests[s] = {}
      BY <3>1 DEF EmptyFcn
    <3>3. Bits(s, requests[s], Key(m), turn[s]) = {turn[s] - 1}
      BY <3>2 DEF Bits
    <3>4. QED
      BY <2>1, <3>3
  <2>2. CASE turn[s] # 1
    <3>1. DOMAIN requests[s] = {Key(m)} /\ Noted(requests[s][Key(m)], Len(Group[s])) = 0..(turn[s] - 2)
      BY <2>2 DEF Turn
    <3>2. Bits(s, requests[s], Key(m), turn[s]) = (0..(turn[s] - 2)) \cup {turn[s] - 1}
      BY <3>1 DEF Bits
    <3>3. QED
      BY <1>1, <2>2, <3>2
  <2>3. QED
    BY <2>1, <2>2
<1>6. 0..(turn[s] - 1) = 0..(Len(Group[s]) - 1) <=> turn[s] = Len(Group[s])
  <2>1. PICK i, n : i = turn[s] /\ n = Len(Group[s]) /\ n \in Nat \ {0} /\ i \in 1..n
    BY <1>1
  <2>2. n - 1 \in 0..(i - 1) => i = n
    BY <2>1
  <2>3. n - 1 \in 0..(n - 1)
    BY <2>1
  <2>4. QED
    BY <2>1, <2>2, <2>3
<1>7. QED
  BY <1>3, <1>4, <1>5, <1>6

\* What is in io_table after a message.
LEMMA RequestTurned ==
  ASSUME NEW s, NEW c, NEW m, NEW t, NEW u, NEW call, NEW k, NEW key, Turn(s, c, m, t, u, call, k, key),
         call.op \in Noting, NEW handled \in BOOLEAN, Record(s, c, m, handled),
         handled => turn[s] = Len(Group[s])
  PROVE  /\ turn[s] # Len(Group[s]) =>
              DOMAIN requests'[s] = {key} /\ Noted(requests'[s][key], Len(Group[s])) = 0..(turn'[s] - 2)
         /\ handled => requests'[s] = EmptyFcn
         /\ ~handled => DOMAIN requests'[s] = {key}
<1>1. /\ DOMAIN requests = Servers /\ s \in Servers /\ key = Key(m) /\ turn[s] \in 1..Len(Group[s])
      /\ turn[s] # Len(Group[s]) => turn'[s] = turn[s] + 1
  BY TurnIs DEF Turn
<1>2. DOMAIN requests[s] \subseteq {key}
  BY <1>1 DEF Turn, EmptyFcn
<1>3. PICK b : b = Received(s, c, m)
  OBVIOUS
<1>4. PICK rq : rq = With(requests[s], key, b)
  OBVIOUS
<1>5. DOMAIN rq = {key} /\ rq[key] = b
  <2>1. DOMAIN rq = DOMAIN requests[s] \cup {key} /\ rq[key] = b
    BY <1>4 DEF With
  <2>2. QED
    BY <1>2, <2>1
<1>6. requests'[s] = IF handled THEN Removed(rq, key) ELSE rq
  BY <1>1, <1>3, <1>4 DEF Record
<1>7. Removed(rq, key) = EmptyFcn
  <2>1. DOMAIN rq \ {key} = {}
    BY <1>5
  <2>2. QED
    BY <2>1 DEF Removed, Without, EmptyFcn
<1>8. Noted(b, Len(Group[s])) = 0..(turn[s] - 1)
  BY <1>3, FullAtLast
<1>9. turn[s] # Len(Group[s]) => turn'[s] - 2 = turn[s] - 1
  BY <1>1
<1>10. QED
  BY <1>5, <1>6, <1>7, <1>8, <1>9

\* Files and library stay in the same mode.
LEMMA FlagsStay ==
  ASSUME NEW fs, NEW nd, NEW w, Flags(fs, nd, w), w.op = "none",
         \A x \in DOMAIN fs : fs[x].nc_id \in DOMAIN nd,
         NEW gs, NEW n, SameFiles(fs, gs, n), NEW ne, SameModes(nd, ne), NEW v, v.op # "create"
  PROVE  Flags(gs, ne, v)
<1>1. SUFFICES ASSUME NEW x \in DOMAIN gs
               PROVE  ~Creating(v, x) /\ (ne[gs[x].nc_id].define <=> gs[x].status = "define")
  BY DEF Flags
<1>2. x \in DOMAIN fs /\ gs[x].nc_id = fs[x].nc_id /\ gs[x].status = fs[x].status
  BY DEF SameFiles
<1>3. ~Creating(w, x) /\ ~Creating(v, x)
  BY DEF Creating
<1>4. nd[fs[x].nc_id].define <=> fs[x].status = "define"
  BY <1>2, <1>3 DEF Flags
<1>5. ne[fs[x].nc_id].define = nd[fs[x].nc_id].define
  BY <1>2 DEF SameModes
<1>6. QED
  BY <1>2, <1>3, <1>4, <1>5

\* Numbers are given at enddef.
LEMMA NumbersStay ==
  ASSUME NEW fs, NEW w, Numbers(fs, w), w.op = "none", NEW gs, NEW n, SameFiles(fs, gs, n),
         NEW v, v.op = "enddef" => v.nc = n,
         n \in DOMAIN fs /\ (gs[n].status = "data" \/ v.op = "enddef") =>
           \A d \in DOMAIN gs[n].defs : gs[n].defs[d].nc # Invalid
  PROVE  Numbers(gs, v)
<1>1. SUFFICES ASSUME NEW x \in DOMAIN gs, gs[x].status = "data" \/ (v.op = "enddef" /\ v.nc = x)
               PROVE  \A d \in DOMAIN gs[x].defs : gs[x].defs[d].nc # Invalid
  BY DEF Numbers
<1>2. x \in DOMAIN fs /\ gs[x].status = fs[x].status /\ (x # n => gs[x].defs = fs[x].defs)
  BY DEF SameFiles
<1>3. CASE x = n
  BY <1>1, <1>2, <1>3
<1>4. CASE x # n
  <2>1. fs[x].status = "data"
    BY <1>1, <1>2, <1>4
  <2>2. \A d \in DOMAIN fs[x].defs : fs[x].defs[d].nc # Invalid
    BY <1>2, <2>1 DEF Numbers
  <2>3. QED
    BY <1>2, <1>4, <2>2
<1>5. QED
  BY <1>3, <1>4

\* Calls without data leave the parts alone.
LEMMA PartsStay ==
  ASSUME NEW s, NEW call, NEW key, NEW fs, NEW i, PartsOf(s, call, key, fs, i), call.op # "put_vara",
         NEW gs, NEW n, SameFiles(fs, gs, n), NEW j,
         n \in DOMAIN fs => \A d \in DOMAIN gs[n].defs :
           \/ gs[n].defs[d].parts \in {EmptyFcn, NoPart(s)}
           \/ d \in DOMAIN fs[n].defs /\ gs[n].defs[d].parts = fs[n].defs[d].parts
  PROVE  PartsOf(s, call, key, gs, j)
<1>1. \A x \in DOMAIN fs : \A d \in DOMAIN fs[x].defs : fs[x].defs[d].parts \in {EmptyFcn, NoPart(s)}
  BY DEF PartsOf
<1>2. SUFFICES ASSUME NEW x \in DOMAIN gs, NEW d \in DOMAIN gs[x].defs
               PROVE  gs[x].defs[d].parts \in {EmptyFcn, NoPart(s)}
  BY DEF PartsOf
<1>3. x \in DOMAIN fs /\ (x # n => gs[x].defs = fs[x].defs)
  BY DEF SameFiles
<1>4. CASE x = n
  BY <1>1, <1>3, <1>4
<1>5. CASE x # n
  BY <1>1, <1>3, <1>5
<1>6. QED
  BY <1>4, <1>5

\* A file with other definitions.
LEMMA DefsChanged ==
  ASSUME DOMAIN files = Servers, NEW s \in Servers, NEW n \in DOMAIN files[s],
         \A x \in DOMAIN files[s] : DOMAIN files[s][x] = FileFields,
         NEW es, files' = [files EXCEPT ![s][n].defs = es]
  PROVE  SameFiles(files[s], files'[s], n) /\ files'[s][n].defs = es
<1>1. PICK fs, f : fs = files[s] /\ f = fs[n]
  OBVIOUS
<1>2. PICK g : g = [f EXCEPT !.defs = es]
  OBVIOUS
<1>3. g.nc_id = f.nc_id /\ g.status = f.status /\ g.defs = es
  BY <1>1, <1>2 DEF FileFields
<1>4. PICK gs : gs = [fs EXCEPT ![n] = g]
  OBVIOUS
<1>5. files' = [files EXCEPT ![s] = gs]
  BY <1>1, <1>2, <1>4
<1>6. files'[s] = gs
  BY <1>5
<1>7. DOMAIN gs = DOMAIN fs /\ gs[n] = g /\ \A x \in DOMAIN fs : x # n => gs[x] = fs[x]
  BY <1>1, <1>4
<1>8. QED
  BY <1>1, <1>3, <1>6, <1>7 DEF SameFiles

\* Nothing changes.
LEMMA NothingChanged ==
  ASSUME NEW fs, NEW nd, NEW n
  PROVE  SameFiles(fs, fs, n) /\ SameModes(nd, nd)
BY DEF SameFiles, SameModes

\* From the parts to the whole.
LEMMA TurnedIs ==
  ASSUME NEW s, NEW c, NEW m, NEW t, NEW u, NEW call, NEW k, NEW key, Turn(s, c, m, t, u, call, k, key),
         NEW n, SameFiles(files[s], files'[s], n), SameModes(netcdf[s], netcdf'[s]),
         Pending(s, call, key, requests'[s], waiting'[s], turn'[s]),
         PartsOf(s, call, key, files'[s], turn'[s]),
         waiting'[s].op \in {"none", call.op} \ {"create"},
         waiting'[s].op = "enddef" => waiting'[s].nc = m.nc /\ m.nc = n,
         n \in DOMAIN files[s] /\ (files'[s][n].status = "data" \/ waiting'[s].op = "enddef") =>
           \A d \in DOMAIN files'[s][n].defs : files'[s][n].defs[d].nc # Invalid,
         call.op = "enddef" /\ turn'[s] = 1 /\ waiting'[s].op = "none" =>
           files[s][m.nc].status = "data"
  PROVE  Turned(s, m, call, key)
<1>1. /\ waiting[s].op = "none" /\ \A x \in DOMAIN files[s] : files[s][x].nc_id \in DOMAIN netcdf[s]
      /\ Flags(files[s], netcdf[s], waiting[s]) /\ Numbers(files[s], waiting[s])
  BY TurnIs DEF Turn
<1>2. PICK fs, gs, nd, ne, w, v : /\ fs = files[s] /\ gs = files'[s] /\ nd = netcdf[s] /\ ne = netcdf'[s]
                                  /\ w = waiting[s] /\ v = waiting'[s]
  OBVIOUS
<1>3. Flags(gs, ne, v)
  BY <1>1, <1>2, FlagsStay
<1>4. Numbers(gs, v)
  BY <1>1, <1>2, NumbersStay
<1>5. /\ \A nc \in DOMAIN fs : nc \in DOMAIN gs /\ gs[nc].status = fs[nc].status
      /\ DOMAIN gs \ DOMAIN fs = {}
  BY <1>2 DEF SameFiles
<1>6. QED
  BY <1>2, <1>3, <1>4, <1>5 DEF Turned

\* A call that is not noted leaves io_table empty.
LEMMA NotNoted ==
  ASSUME NEW s, NEW c, NEW m, NEW t, NEW u, NEW call, NEW k, NEW key, Turn(s, c, m, t, u, call, k, key),
         call.op \notin Noting, UNCHANGED requests, waiting'[s].op \in {"none", "create"}
  PROVE  Pending(s, call, key, requests'[s], waiting'[s], turn'[s])
BY DEF Turn, Pending

\* The file is created with the first message.
LEMMA CreateTurned ==
  ASSUME NEW s, NEW c, NEW m, NEW t, NEW u, NEW call, NEW k, NEW key, Turn(s, c, m, t, u, call, k, key),
         IoCreate(s, c, m)
  PROVE  Turned(s, m, call, key)
<1>1. /\ DOMAIN files = Servers /\ DOMAIN waiting = Servers /\ s \in Servers /\ waiting[s].op = "none"
      /\ m.op = call.op /\ m.op = "create"
  BY TurnIs DEF IoCreate
<1>2. UNCHANGED <<requests, netcdf>>
  BY DEF IoCreate
<1>3. CASE UNCHANGED <<files, waiting>>
  <2>1. Pending(s, call, key, requests'[s], waiting'[s], turn'[s])
    BY <1>1, <1>2, <1>3, NotNoted DEF Noting
  <2>2. PartsOf(s, call, key, files'[s], turn'[s])
    BY <1>1, <1>3 DEF Turn, PartsOf
  <2>3. Flags(files'[s], netcdf'[s], waiting'[s]) /\ Numbers(files'[s], waiting'[s])
    BY <1>2, <1>3 DEF Turn
  <2>4. QED
    BY <1>1, <1>3, <2>1, <2>2, <2>3 DEF Turned
<1>4. CASE /\ m.nc \notin DOMAIN files[s]
           /\ files' = [files EXCEPT ![s] =
                With(@, m.nc, [nc_id |-> Invalid, status |-> "define", defs |-> << >>])]
           /\ waiting' = [waiting EXCEPT ![s] = [op |-> "create", path |-> m.name, nc |-> m.nc]]
  <2>1. PICK f : f = [nc_id |-> Invalid, status |-> "define", defs |-> << >>]
    OBVIOUS
  <2>2. PICK fs, w, v : /\ fs = files[s] /\ w = waiting[s]
                        /\ v = [op |-> "create", path |-> m.name, nc |-> m.nc]
    OBVIOUS
  <2>3. PICK gs : gs = With(fs, m.nc, f)
    OBVIOUS
  <2>4. files'[s] = gs /\ waiting'[s] = v
    BY <1>1, <1>4, <2>1, <2>2, <2>3
  <2>5. /\ DOMAIN gs = DOMAIN fs \cup {m.nc} /\ gs[m.nc] = f
        /\ \A n \in DOMAIN fs : n # m.nc /\ gs[n] = fs[n]
    BY <1>4, <2>2, <2>3 DEF With
  <2>6. f.status = "define" /\ f.defs = << >> /\ v.op = "create" /\ v.nc = m.nc
    BY <2>1, <2>2
  <2>7. Flags(fs, netcdf[s], w) /\ Numbers(fs, w) /\ PartsOf(s, call, key, fs, turn[s])
    BY <2>2 DEF Turn
  <2>8. Pending(s, call, key, requests'[s], waiting'[s], turn'[s])
    BY <1>1, <1>2, <2>4, <2>6, NotNoted DEF Noting
  <2>9. PartsOf(s, call, key, gs, turn'[s])
    BY <1>1, <2>5, <2>6, <2>7 DEF PartsOf
  <2>10. Flags(gs, netcdf[s], v)
    BY <1>1, <2>2, <2>5, <2>6, <2>7 DEF Flags, Creating
  <2>11. Numbers(gs, v)
    <3>1. ASSUME NEW x \in DOMAIN gs, gs[x].status = "data" PROVE x \in DOMAIN fs /\ gs[x] = fs[x]
      BY <2>5, <2>6, <3>1
    <3>2. QED
      BY <2>6, <2>7, <3>1 DEF Numbers
  <2>12. /\ \A nc \in DOMAIN fs : nc \in DOMAIN gs /\ gs[nc].status = fs[nc].status
         /\ \A nc \in DOMAIN gs \ DOMAIN fs : gs[nc].status = "define"
    BY <2>5, <2>6
  <2>13. QED
    BY <1>1, <1>2, <2>2, <2>4, <2>6, <2>8, <2>9, <2>10, <2>11, <2>12 DEF Turned
<1>5. QED
  BY <1>3, <1>4 DEF IoCreate, HasNc

\* A definition is noted, in a file in define mode.
LEMMA DefTurned ==
  ASSUME NEW s, NEW c, NEW m, NEW t, NEW u, NEW call, NEW k, NEW key, Turn(s, c, m, t, u, call, k, key),
         call.op \in {"def_dim", "def_var"}, UNCHANGED <<requests, waiting, netcdf>>,
         NEW d, d.parts \in {EmptyFcn, NoPart(s)},
         files' = files \/ files' = [files EXCEPT ![s][m.nc].defs = Append(@, d)]
  PROVE  Turned(s, m, call, key)
<1>1. /\ DOMAIN files = Servers /\ s \in Servers /\ waiting[s].op = "none"
      /\ \A n \in DOMAIN files[s] : IsFile(s, files[s][n]) /\ DOMAIN files[s][n] = FileFields
  BY TurnIs
<1>2. m.nc \in DOMAIN files[s] /\ files[s][m.nc].status = "define"
  BY DEF Turn
<1>3. PICK ds : ds = files[s][m.nc].defs
  OBVIOUS
<1>4. PICK es : files'[s][m.nc].defs = es /\ SameFiles(files[s], files'[s], m.nc) /\ (es = ds \/ es = Append(ds, d))
  <2>1. CASE files' = files
    BY <1>3, <2>1, NothingChanged
  <2>2. CASE files' = [files EXCEPT ![s][m.nc].defs = Append(@, d)]
    <3>1. PICK es : es = Append(ds, d)
      OBVIOUS
    <3>2. files' = [files EXCEPT ![s][m.nc].defs = es]
      BY <1>3, <2>2, <3>1
    <3>3. SameFiles(files[s], files'[s], m.nc) /\ files'[s][m.nc].defs = es
      BY <1>1, <1>2, <3>2, DefsChanged
    <3>4. QED
      BY <3>1, <3>3
  <2>3. QED
    BY <2>1, <2>2
<1>5. \A x \in DOMAIN es : es[x].parts \in {EmptyFcn, NoPart(s)} \/ (x \in DOMAIN ds /\ es[x].parts = ds[x].parts)
  <2>1. CASE es = ds
    BY <2>1
  <2>2. CASE es = Append(ds, d)
    <3>1. PICK S : ds \in Seq(S)
      BY <1>1, <1>2, <1>3 DEF IsFile
    <3>2. OneMore(ds, d, es)
      BY <2>2, <3>1, Appended
    <3>3. QED
      BY <3>2 DEF OneMore
  <2>3. QED
    BY <1>4, <2>1, <2>2
<1>6. PartsOf(s, call, key, files'[s], turn'[s])
  <2>1. PartsOf(s, call, key, files[s], turn[s]) /\ call.op # "put_vara"
    BY DEF Turn
  <2>2. QED
    BY <1>3, <1>4, <1>5, <2>1, PartsStay
<1>7. Pending(s, call, key, requests'[s], waiting'[s], turn'[s])
  BY <1>1, NotNoted DEF Noting
<1>8. files'[s][m.nc].status = "define" /\ SameModes(netcdf[s], netcdf'[s])
  BY <1>2, <1>4, NothingChanged DEF SameFiles
<1>9. QED
  BY <1>1, <1>4, <1>6, <1>7, <1>8, TurnedIs

\* A dimension is defined.
LEMMA DimTurned ==
  ASSUME NEW s, NEW c, NEW m, NEW t, NEW u, NEW call, NEW k, NEW key, Turn(s, c, m, t, u, call, k, key),
         IoDefDim(s, c, m)
  PROVE  Turned(s, m, call, key)
<1>1. call.op = "def_dim"
  BY TurnIs DEF IoDefDim
<1>2. PICK d : d = [kind |-> "dim", id |-> m.id, name |-> m.name, dims |-> << >>,
                    nc |-> Invalid, atts |-> << >>, parts |-> EmptyFcn]
  OBVIOUS
<1>3. d.parts = EmptyFcn
  BY <1>2
<1>4. UNCHANGED <<requests, waiting, netcdf>>
  BY DEF IoDefDim
<1>5. files' = files \/ files' = [files EXCEPT ![s][m.nc].defs = Append(@, d)]
  BY <1>2 DEF IoDefDim, MapDef
<1>6. QED
  BY <1>1, <1>3, <1>4, <1>5, DefTurned

\* A variable is defined.
LEMMA VarTurned ==
  ASSUME NEW s, NEW c, NEW m, NEW t, NEW u, NEW call, NEW k, NEW key, Turn(s, c, m, t, u, call, k, key),
         IoDefVar(s, c, m)
  PROVE  Turned(s, m, call, key)
<1>1. call.op = "def_var"
  BY TurnIs DEF IoDefVar
<1>2. PICK d : d = [kind |-> "var", id |-> m.id, name |-> m.name, dims |-> m.dims,
                    nc |-> Invalid, atts |-> << >>, parts |-> [e \in Members(s) |-> 0]]
  OBVIOUS
<1>3. d.parts = NoPart(s)
  BY <1>2 DEF NoPart
<1>4. UNCHANGED <<requests, waiting, netcdf>>
  BY DEF IoDefVar
<1>5. files' = files \/ files' = [files EXCEPT ![s][m.nc].defs = Append(@, d)]
  BY <1>2 DEF IoDefVar, MapDef
<1>6. QED
  BY <1>1, <1>3, <1>4, <1>5, DefTurned

\* The call that is noted, on the side of the server that is in no library call.
LEMMA NotedTurned ==
  ASSUME NEW s, NEW c, NEW m, NEW t, NEW u, NEW call, NEW k, NEW key, Turn(s, c, m, t, u, call, k, key),
         call.op \in Noting, NEW handled \in BOOLEAN, Record(s, c, m, handled),
         handled => turn[s] = Len(Group[s]),
         ~handled /\ turn[s] = Len(Group[s]) => waiting'[s].op \in Noting /\ waiting'[s].key = key,
         handled \/ turn[s] # Len(Group[s]) => waiting'[s].op = "none"
  PROVE  Pending(s, call, key, requests'[s], waiting'[s], turn'[s])
<1>1. /\ turn[s] # Len(Group[s]) =>
              DOMAIN requests'[s] = {key} /\ Noted(requests'[s][key], Len(Group[s])) = 0..(turn'[s] - 2)
      /\ handled => requests'[s] = EmptyFcn
      /\ ~handled => DOMAIN requests'[s] = {key}
  BY RequestTurned
<1>2. turn'[s] = 1 <=> turn[s] = Len(Group[s])
  BY TurnIs
<1>3. CASE turn[s] # Len(Group[s])
  BY <1>1, <1>2, <1>3 DEF Pending
<1>4. CASE turn[s] = Len(Group[s]) /\ handled
  BY <1>1, <1>2, <1>4 DEF Pending
<1>5. CASE turn[s] = Len(Group[s]) /\ ~handled
  BY <1>1, <1>2, <1>5 DEF Pending, Noting
<1>6. QED
  BY <1>3, <1>4, <1>5

\* The definition a call is about, at its server.
LEMMA NamedThere ==
  ASSUME NEW s, NEW c, NEW m, NEW t, NEW u, NEW call, NEW k, Handles(s, c, m, t, u, call, k),
         call.op = "put_att", m.id # GlobalId
  PROVE  HasDef(s, m.nc, "var", m.id)
<1>1. TableOk(t) /\ Fits(t, call) /\ u = After(t, call, k) /\ Meant(t, call, k, m) /\ k \in Nat
  BY DEF Handles
<1>2. FilesOk(s, u, files[s]) /\ m.nc \in DOMAIN t.nc /\ m.nc \in DOMAIN u.nc /\ m.nc \in DOMAIN files[s]
  BY KnownBefore
<1>3. PICK n : n = NcOf(t, call.path)
  OBVIOUS
<1>4. m.nc = n /\ m.id = VarOf(t, n, call.name)
  BY <1>1, <1>3 DEF Meant
<1>5. u.nc[n].vars = t.nc[n].vars
  BY <1>1, <1>2, <1>4, AttAfter
<1>6. call.name # Global
  BY <1>4 DEF VarOf
<1>7. Has(t.nc[n].vars, call.name)
  BY <1>1, <1>3, <1>6 DEF Fits
<1>8. m.id \in DOMAIN t.nc[n].vars
  BY <1>4, <1>6, <1>7, NameId DEF VarOf
<1>9. Positioned(files[s][n].defs, "var", m.id) # {}
  BY <1>2, <1>4, <1>5, <1>8 DEF FilesOk, Matches
<1>10. QED
  BY <1>2, <1>4, <1>9 DEF HasDef, HasNc

\* An attribute is put.
LEMMA AttTurned ==
  ASSUME NEW s, NEW c, NEW m, NEW t, NEW u, NEW call, NEW k, NEW key, Turn(s, c, m, t, u, call, k, key),
         IoPutAtt(s, c, m)
  PROVE  Turned(s, m, call, key)
<1>1. /\ DOMAIN files = Servers /\ s \in Servers /\ waiting[s].op = "none" /\ m.op = call.op
      /\ call.op = "put_att"
      /\ \A n \in DOMAIN files[s] : IsFile(s, files[s][n]) /\ DOMAIN files[s][n] = FileFields
      /\ \A n \in DOMAIN files[s] : files[s][n].nc_id \in DOMAIN netcdf[s]
  <2>1. m.op = "put_att"
    BY DEF IoPutAtt
  <2>2. QED
    BY <2>1, TurnIs
<1>2. m.nc \in DOMAIN files[s] /\ files[s][m.nc].status = "define" /\ Flags(files[s], netcdf[s], waiting[s])
  BY <1>1 DEF Turn
<1>3. Full(s, Received(s, c, m)) <=> turn[s] = Len(Group[s])
  BY <1>1, FullAtLast DEF Noting
<1>4. UNCHANGED <<waiting, netcdf>>
  BY DEF IoPutAtt
<1>5. InDefineMode(s, files[s][m.nc].nc_id)
  BY <1>1, <1>2 DEF Flags, Creating, InDefineMode
<1>6. Handles(s, c, m, t, u, call, k)
  BY DEF Turn
<1>7. m.id # GlobalId => HasDef(s, m.nc, "var", m.id)
  BY <1>1, <1>6, NamedThere
<1>8. PICK ok \in BOOLEAN :
        /\ ok <=> turn[s] = Len(Group[s])
        /\ Record(s, c, m, ok)
        /\ \/ files' = files
           \/ /\ HasDef(s, m.nc, "var", m.id)
              /\ files' = [files EXCEPT ![s][m.nc].defs[DefAt(s, m.nc, "var", m.id)].atts =
                             Append(@, m.data[1])]
  <2> DEFINE full   == HasNc(s, m.nc) /\ Full(s, Received(s, c, m))
             nc_id  == files[s][m.nc].nc_id
             global == m.id = GlobalId
             ok     == full /\ IF global THEN InDefineMode(s, nc_id) ELSE HasDef(s, m.nc, "var", m.id)
  <2>1. /\ Record(s, c, m, ok)
        /\ files' = IF ok /\ ~global
                      THEN [files EXCEPT ![s][m.nc].defs[DefAt(s, m.nc, "var", m.id)].atts =
                              Append(@, m.data[1])]
                      ELSE files
    BY DEF IoPutAtt
  <2>2. ok /\ ~global => HasDef(s, m.nc, "var", m.id)
    OBVIOUS
  <2>3. full <=> turn[s] = Len(Group[s])
    BY <1>2, <1>3 DEF HasNc
  <2>4. ok \in BOOLEAN /\ (ok <=> turn[s] = Len(Group[s]))
    BY <1>5, <1>7, <2>3
  <2> HIDE DEF ok, global
  <2>5. QED
    BY <2>1, <2>2, <2>4
<1>9. Pending(s, call, key, requests'[s], waiting'[s], turn'[s])
  <2>1. waiting'[s].op = "none"
    BY <1>1, <1>4
  <2>2. QED
    BY <1>1, <1>8, <2>1, NotedTurned DEF Noting
<1>10. PICK ds : ds = files[s][m.nc].defs
  OBVIOUS
<1>11. PICK es : /\ files'[s][m.nc].defs = es /\ SameFiles(files[s], files'[s], m.nc)
                 /\ DOMAIN es = DOMAIN ds /\ \A x \in DOMAIN ds : es[x].parts = ds[x].parts
  <2>1. CASE files' = files
    BY <1>10, <2>1, NothingChanged
  <2>2. CASE /\ HasDef(s, m.nc, "var", m.id)
             /\ files' = [files EXCEPT ![s][m.nc].defs[DefAt(s, m.nc, "var", m.id)].atts =
                             Append(@, m.data[1])]
    <3>1. PICK i \in DOMAIN ds : i = DefAt(s, m.nc, "var", m.id)
      BY <1>10, <2>2 DEF HasDef, DefAt, Positioned
    <3>2. PICK d : d = ds[i] /\ DOMAIN d = DefFields
      <4>1. IsDef(s, ds[i])
        BY <1>1, <1>2, <1>10 DEF IsFile
      <4>2. QED
        BY <4>1 DEF IsDef
    <3>3. PICK atts : atts = Append(d.atts, m.data[1])
      OBVIOUS
    <3>4. PICK e : e = [d EXCEPT !.atts = atts]
      OBVIOUS
    <3>5. e.parts = d.parts
      BY <3>2, <3>4 DEF DefFields
    <3>6. PICK es : es = [ds EXCEPT ![i] = e]
      OBVIOUS
    <3>7. DOMAIN es = DOMAIN ds /\ \A x \in DOMAIN ds : es[x].parts = ds[x].parts
      BY <3>2, <3>5, <3>6
    <3>8. files' = [files EXCEPT ![s][m.nc].defs = es]
      <4>1. files' = [files EXCEPT ![s][m.nc].defs[i].atts = atts]
        BY <1>10, <2>2, <3>1, <3>2, <3>3
      <4>2. QED
        BY <1>10, <3>2, <3>4, <3>6, <4>1
    <3>9. SameFiles(files[s], files'[s], m.nc) /\ files'[s][m.nc].defs = es
      BY <1>1, <1>2, <3>8, DefsChanged
    <3>10. QED
      BY <3>7, <3>9
  <2>3. QED
    BY <1>8, <2>1, <2>2
<1>12. PartsOf(s, call, key, files'[s], turn'[s])
  <2>1. PartsOf(s, call, key, files[s], turn[s]) /\ call.op # "put_vara"
    BY <1>1 DEF Turn
  <2>2. QED
    BY <1>10, <1>11, <2>1, PartsStay
<1>13. files'[s][m.nc].status = "define" /\ SameModes(netcdf[s], netcdf'[s])
  BY <1>2, <1>4, <1>11, NothingChanged DEF SameFiles
<1>14. waiting'[s].op = "none"
  BY <1>1, <1>4
<1>15. QED
  BY <1>1, <1>9, <1>11, <1>12, <1>13, <1>14, TurnedIs

\* Every definition gets a number.
LEMMA NumberedValid ==
  ASSUME NEW s, NEW f, IsFile(s, f), NEW es, es = Numbered(f.defs), NEW i \in DOMAIN es
  PROVE  es[i].nc # Invalid
<1>1. PICK ds : ds = f.defs /\ es = Numbered(ds)
  OBVIOUS
<1>2. PICK n \in Nat : DOMAIN ds = 1..n
  <2>1. PICK S : ds \in Seq(S)
    BY <1>1 DEF IsFile
  <2>2. QED
    BY <2>1
<1>3. i \in DOMAIN ds
  BY <1>1 DEF Numbered
<1>4. DOMAIN ds[i] = DefFields
  BY <1>1, <1>3 DEF IsFile, IsDef
<1>5. PICK J : J = {j \in 1..i : ds[j].kind = ds[i].kind}
  OBVIOUS
<1>6. \E y : es[i] = [ds[i] EXCEPT !.nc = Cardinality(J), !.dims = y]
  <2> DEFINE number(l) == Cardinality({j \in 1..l : ds[j].kind = ds[l].kind})
             dimId(l, v) == LET at == {j \in Positioned(ds, "dim", v) : j < l}
                            IN  IF at = {} THEN Invalid ELSE number(CHOOSE j \in at : TRUE)
             y0 == [l \in DOMAIN ds[i].dims |-> dimId(i, ds[i].dims[l])]
  <2>0. es[i] = [ds[i] EXCEPT !.nc = number(i), !.dims = y0]
    BY <1>1, <1>3 DEF Numbered
  <2>1. number(i) = Cardinality(J)
    BY <1>5
  <2> HIDE DEF y0, number
  <2>2. QED
    BY <2>0, <2>1
<1>7. PICK y : es[i] = [ds[i] EXCEPT !.nc = Cardinality(J), !.dims = y]
  BY <1>6
<1>8. es[i].nc = Cardinality(J)
  <2>1. PICK d, x : d = ds[i] /\ x = Cardinality(J)
    OBVIOUS
  <2>2. es[i] = [d EXCEPT !.nc = x, !.dims = y] /\ DOMAIN d = DefFields
    BY <1>4, <1>7, <2>1
  <2>3. QED
    BY <2>1, <2>2 DEF DefFields
<1>9. i \in J /\ i \in Nat
  BY <1>2, <1>3, <1>5
<1>10. IsFiniteSet(J)
  <2>1. IsFiniteSet(1..i)
    BY <1>9, FS_Interval
  <2>2. J \subseteq 1..i
    BY <1>5
  <2>3. QED
    BY <2>1, <2>2, FS_Subset
<1>11. Cardinality(J) # 0
  BY <1>9, <1>10, FS_EmptySet
<1>12. QED
  BY <1>8, <1>11 DEF Invalid

\* The library gets the variables of a file.
LEMMA VarsChanged ==
  ASSUME DOMAIN netcdf = Servers, NEW s \in Servers, NEW id \in DOMAIN netcdf[s],
         \A x \in DOMAIN netcdf[s] : DOMAIN netcdf[s][x] = NcFields,
         NEW vs, netcdf' = [netcdf EXCEPT ![s][id].vars = vs]
  PROVE  SameModes(netcdf[s], netcdf'[s])
<1>1. PICK nd, f : nd = netcdf[s] /\ f = nd[id]
  OBVIOUS
<1>2. PICK g : g = [f EXCEPT !.vars = vs]
  OBVIOUS
<1>3. g.define = f.define
  BY <1>1, <1>2 DEF NcFields
<1>4. PICK ne : ne = [nd EXCEPT ![id] = g]
  OBVIOUS
<1>5. netcdf' = [netcdf EXCEPT ![s] = ne]
  BY <1>1, <1>2, <1>4
<1>6. netcdf'[s] = ne
  BY <1>5
<1>7. DOMAIN ne = DOMAIN nd /\ ne[id] = g /\ \A x \in DOMAIN nd : x # id => ne[x] = nd[x]
  BY <1>1, <1>4
<1>8. QED
  BY <1>1, <1>3, <1>6, <1>7 DEF SameModes

(* What enddef does, when the message is not the last of its round or not the *)
(* first enddef of the file; and what it does when it is.                  *)
EnddefDone(s, c, m, key) ==
  \/ /\ UNCHANGED <<files, netcdf, waiting>>
     /\ \/ turn[s] # Len(Group[s]) /\ Record(s, c, m, FALSE)
        \/ /\ turn[s] = Len(Group[s]) /\ Record(s, c, m, TRUE)
           /\ files[s][m.nc].status = "data"
  \/ /\ turn[s] = Len(Group[s]) /\ Record(s, c, m, FALSE)
     /\ files' = [files EXCEPT ![s][m.nc].defs = Numbered(files[s][m.nc].defs)]
     /\ \E vs : netcdf' = [netcdf EXCEPT ![s][files[s][m.nc].nc_id].vars = vs]
     /\ \E w : /\ w.op = "enddef" /\ w.nc = m.nc /\ w.key = key
               /\ waiting' = [waiting EXCEPT ![s] = w]

\* The last message of the first enddef makes the definitions.
LEMMA EnddefIs ==
  ASSUME NEW s, NEW c, NEW m, NEW t, NEW u, NEW call, NEW k, NEW key, Turn(s, c, m, t, u, call, k, key),
         IoEnddef(s, c, m)
  PROVE  /\ call.op = "enddef"
         /\ EnddefDone(s, c, m, key)
<1>1. call.op = "enddef"
  <2>1. m.op = "enddef"
    BY DEF IoEnddef
  <2>2. QED
    BY <2>1, TurnIs
<1>2. m.nc \in DOMAIN files[s] /\ key = Key(m)
  BY <1>1 DEF Turn, Noting
<1>3. files[s][m.nc].status \in {"define", "data"} /\ files[s][m.nc].nc_id # Invalid
  BY <1>2, TurnIs DEF IsFile
<1>4. Full(s, Received(s, c, m)) <=> turn[s] = Len(Group[s])
  BY <1>1, FullAtLast DEF Noting
<1> DEFINE full == HasNc(s, m.nc) /\ Full(s, Received(s, c, m))
           file == files[s][m.nc]
           first == full /\ file.status = "define"
           define == first /\ file.nc_id # Invalid
           defs == Numbered(file.defs)
           w == [op |-> "enddef", path |-> netcdf[s][file.nc_id].path, nc |-> m.nc,
                 key |-> Key(m), id |-> file.nc_id]
<1>5. /\ Record(s, c, m, full /\ ~first)
      /\ IF define
           THEN /\ files' = [files EXCEPT ![s][m.nc].defs = defs]
                /\ netcdf' = [netcdf EXCEPT ![s][file.nc_id].vars = NamesOf(defs, "var")]
                /\ waiting' = [waiting EXCEPT ![s] = w]
           ELSE UNCHANGED <<files, netcdf, log, waiting>>
  BY DEF IoEnddef
<1>6. /\ full <=> turn[s] = Len(Group[s])
      /\ first <=> full /\ files[s][m.nc].status = "define"
      /\ define <=> first
  BY <1>2, <1>3, <1>4 DEF HasNc
<1>7. w.op = "enddef" /\ w.nc = m.nc /\ w.key = key
  BY <1>2
<1>8. full \in BOOLEAN /\ first \in BOOLEAN
  OBVIOUS
<1> HIDE DEF full, first, define, w
<1>9. ASSUME define PROVE EnddefDone(s, c, m, key)
  <2>1. (full /\ ~first) = FALSE /\ turn[s] = Len(Group[s])
    BY <1>6, <1>9
  <2>2. Record(s, c, m, FALSE)
    BY <1>5, <2>1
  <2>3. QED
    BY <1>5, <1>7, <1>9, <2>1, <2>2 DEF EnddefDone
<1>10. ASSUME ~full PROVE EnddefDone(s, c, m, key)
  <2>1. (full /\ ~first) = FALSE /\ turn[s] # Len(Group[s]) /\ ~define
    BY <1>6, <1>10
  <2>2. Record(s, c, m, FALSE)
    BY <1>5, <2>1
  <2>3. QED
    BY <1>5, <2>1, <2>2 DEF EnddefDone
<1>11. ASSUME full, ~define PROVE EnddefDone(s, c, m, key)
  <2>1. /\ (full /\ ~first) = TRUE /\ turn[s] = Len(Group[s]) /\ ~define
        /\ files[s][m.nc].status = "data"
    BY <1>3, <1>6, <1>11
  <2>2. Record(s, c, m, TRUE)
    BY <1>5, <2>1
  <2>3. QED
    BY <1>5, <2>1, <2>2 DEF EnddefDone
<1>12. EnddefDone(s, c, m, key)
  <2>1. define \/ ~full \/ (full /\ ~define)
    OBVIOUS
  <2>2. QED
    BY <1>9, <1>10, <1>11, <2>1
<1>13. QED
  BY <1>1, <1>12

\* The definitions of a file end.
LEMMA EnddefTurned ==
  ASSUME NEW s, NEW c, NEW m, NEW t, NEW u, NEW call, NEW k, NEW key, Turn(s, c, m, t, u, call, k, key),
         IoEnddef(s, c, m)
  PROVE  Turned(s, m, call, key)
<1>1. /\ DOMAIN files = Servers /\ s \in Servers /\ waiting[s].op = "none"
      /\ DOMAIN waiting = Servers /\ DOMAIN netcdf = Servers
      /\ turn'[s] = 1 <=> turn[s] = Len(Group[s])
      /\ \A n \in DOMAIN files[s] : IsFile(s, files[s][n]) /\ DOMAIN files[s][n] = FileFields
      /\ \A n \in DOMAIN files[s] : files[s][n].nc_id \in DOMAIN netcdf[s]
      /\ \A id \in DOMAIN netcdf[s] : DOMAIN netcdf[s][id] = NcFields
  BY TurnIs
<1>2. call.op = "enddef" /\ EnddefDone(s, c, m, key)
  BY EnddefIs
<1>3. /\ m.nc \in DOMAIN files[s] /\ Numbers(files[s], waiting[s])
      /\ PartsOf(s, call, key, files[s], turn[s])
  BY <1>2 DEF Turn
<1>4. CASE /\ UNCHANGED <<files, netcdf, waiting>>
           /\ \/ turn[s] # Len(Group[s]) /\ Record(s, c, m, FALSE)
              \/ /\ turn[s] = Len(Group[s]) /\ Record(s, c, m, TRUE)
                 /\ files[s][m.nc].status = "data"
  <2>1. SameFiles(files[s], files'[s], m.nc) /\ SameModes(netcdf[s], netcdf'[s])
    BY <1>4, NothingChanged
  <2>2. waiting'[s].op = "none"
    BY <1>1, <1>4
  <2>3. Pending(s, call, key, requests'[s], waiting'[s], turn'[s])
    <3>1. CASE turn[s] # Len(Group[s]) /\ Record(s, c, m, FALSE)
      BY <1>2, <2>2, <3>1, NotedTurned DEF Noting
    <3>2. CASE turn[s] = Len(Group[s]) /\ Record(s, c, m, TRUE)
      BY <1>2, <2>2, <3>2, NotedTurned DEF Noting
    <3>3. QED
      BY <1>4, <3>1, <3>2
  <2>4. PartsOf(s, call, key, files'[s], turn'[s])
    BY <1>2, <1>3, <1>4 DEF PartsOf
  <2>5. files'[s][m.nc].status = "data" \/ waiting'[s].op = "enddef" =>
          \A d \in DOMAIN files'[s][m.nc].defs : files'[s][m.nc].defs[d].nc # Invalid
    BY <1>3, <1>4, <2>2 DEF Numbers
  <2>6. turn'[s] = 1 => files[s][m.nc].status = "data"
    BY <1>1, <1>4
  <2>7. QED
    BY <2>1, <2>2, <2>3, <2>4, <2>5, <2>6, TurnedIs
<1>5. CASE /\ turn[s] = Len(Group[s]) /\ Record(s, c, m, FALSE)
           /\ files' = [files EXCEPT ![s][m.nc].defs = Numbered(files[s][m.nc].defs)]
           /\ \E vs : netcdf' = [netcdf EXCEPT ![s][files[s][m.nc].nc_id].vars = vs]
           /\ \E w : /\ w.op = "enddef" /\ w.nc = m.nc /\ w.key = key
                     /\ waiting' = [waiting EXCEPT ![s] = w]
  <2>1. PICK f, es : f = files[s][m.nc] /\ es = Numbered(f.defs)
    OBVIOUS
  <2>2. SameFiles(files[s], files'[s], m.nc) /\ files'[s][m.nc].defs = es
    BY <1>1, <1>3, <1>5, <2>1, DefsChanged
  <2>3. SameModes(netcdf[s], netcdf'[s])
    BY <1>1, <1>3, <1>5, VarsChanged
  <2>4. waiting'[s].op = "enddef" /\ waiting'[s].nc = m.nc /\ waiting'[s].key = key
    BY <1>1, <1>5
  <2>5. Pending(s, call, key, requests'[s], waiting'[s], turn'[s])
    BY <1>2, <1>5, <2>4, NotedTurned DEF Noting
  <2>6. \A d \in DOMAIN es : es[d].nc # Invalid
    BY <1>1, <1>3, <2>1, NumberedValid
  <2>7. PartsOf(s, call, key, files'[s], turn'[s])
    <3>1. PICK g : g = [f EXCEPT !.defs = es]
      OBVIOUS
    <3>2. DOMAIN g = FileFields /\ g.status = f.status /\ g.defs = es
      BY <1>1, <1>3, <2>1, <3>1 DEF FileFields
    <3>3. SameNames(f.defs, es) /\ SameParts(f.defs, es)
      BY <1>1, <1>3, <2>1, <3>2, NumberedSame
    <3>4. DOMAIN es = DOMAIN f.defs /\ \A d \in DOMAIN f.defs : es[d].parts = f.defs[d].parts
      BY <3>3 DEF SameNames, SameParts
    <3>5. QED
      BY <1>2, <1>3, <2>1, <2>2, <3>4, PartsStay
  <2>8. QED
    BY <1>2, <2>2, <2>3, <2>4, <2>5, <2>6, <2>7, TurnedIs
<1>6. QED
  BY <1>2, <1>4, <1>5 DEF EnddefDone

\* A file is to be closed.
LEMMA CloseTurned ==
  ASSUME NEW s, NEW c, NEW m, NEW t, NEW u, NEW call, NEW k, NEW key, Turn(s, c, m, t, u, call, k, key),
         IoClose(s, c, m)
  PROVE  Turned(s, m, call, key)
<1>1. /\ DOMAIN files = Servers /\ s \in Servers /\ waiting[s].op = "none" /\ DOMAIN waiting = Servers
      /\ \A n \in DOMAIN files[s] : files[s][n].nc_id # Invalid
  BY TurnIs
<1>2. call.op = "close"
  <2>1. m.op = "close"
    BY DEF IoClose
  <2>2. QED
    BY <2>1, TurnIs
<1>3. /\ m.nc \in DOMAIN files[s] /\ Numbers(files[s], waiting[s])
      /\ PartsOf(s, call, key, files[s], turn[s]) /\ key = Key(m)
  BY <1>2 DEF Turn, Noting
<1>4. Full(s, Received(s, c, m)) <=> turn[s] = Len(Group[s])
  BY <1>2, FullAtLast DEF Noting
<1>5. UNCHANGED <<files, netcdf>> /\ Record(s, c, m, FALSE)
  BY DEF IoClose
<1>6. IF turn[s] = Len(Group[s])
        THEN \E w : w.op = "close" /\ w.key = key /\ waiting' = [waiting EXCEPT ![s] = w]
        ELSE waiting' = waiting
  <2> DEFINE nc_id == files[s][m.nc].nc_id
             close == HasNc(s, m.nc) /\ Full(s, Received(s, c, m)) /\ nc_id # Invalid
             w == [op |-> "close", path |-> netcdf[s][nc_id].path, nc |-> m.nc,
                   key |-> Key(m), id |-> nc_id]
  <2>1. waiting' = IF close THEN [waiting EXCEPT ![s] = w] ELSE waiting
    BY DEF IoClose
  <2>2. w.op = "close" /\ w.key = key
    BY <1>3
  <2>3. close <=> turn[s] = Len(Group[s])
    BY <1>1, <1>3, <1>4 DEF HasNc
  <2> HIDE DEF close, w
  <2>4. QED
    BY <2>1, <2>2, <2>3
<1>7. IF turn[s] = Len(Group[s]) THEN waiting'[s].op = "close" /\ waiting'[s].key = key
                                  ELSE waiting'[s].op = "none"
  BY <1>1, <1>6
<1>8. SameFiles(files[s], files'[s], m.nc) /\ SameModes(netcdf[s], netcdf'[s])
  BY <1>5, NothingChanged
<1>9. Pending(s, call, key, requests'[s], waiting'[s], turn'[s])
  BY <1>2, <1>5, <1>7, NotedTurned DEF Noting
<1>10. PartsOf(s, call, key, files'[s], turn'[s])
  BY <1>2, <1>3, <1>5 DEF PartsOf
<1>11. waiting'[s].op \in {"none", "close"}
  BY <1>7
<1>12. files'[s][m.nc].status = "data" => \A d \in DOMAIN files'[s][m.nc].defs : files'[s][m.nc].defs[d].nc # Invalid
  BY <1>3, <1>5 DEF Numbers
<1>13. QED
  BY <1>2, <1>8, <1>9, <1>10, <1>11, <1>12, TurnedIs

(* What put_vara does with definition i: a part is kept until all are there. *)
PartPut(s, c, m, key, i, p, handled) ==
  /\ Record(s, c, m, handled)
  /\ handled => turn[s] = Len(Group[s])
  /\ turn[s] = Len(Group[s]) => p = NoPart(s)
  /\ files' = [files EXCEPT ![s][m.nc].defs[i].parts = p]
  /\ IF handled \/ turn[s] # Len(Group[s])
       THEN waiting' = waiting
       ELSE \E w : w.op = "put_vara" /\ w.key = key /\ waiting' = [waiting EXCEPT ![s] = w]

\* The last message of a round takes the parts.
LEMMA PutVaraIs ==
  ASSUME NEW s, NEW c, NEW m, NEW t, NEW u, NEW call, NEW k, NEW key, Turn(s, c, m, t, u, call, k, key),
         IoPutVara(s, c, m),
         NEW i \in DOMAIN files[s][m.nc].defs, i = CHOOSE j \in Positioned(files[s][m.nc].defs, "var", m.id) : TRUE,
         Positioned(files[s][m.nc].defs, "var", m.id) # {}
  PROVE  \E p : \E handled \in BOOLEAN : PartPut(s, c, m, key, i, p, handled)
<1>1. call.op = "put_vara"
  <2>1. m.op = "put_vara"
    BY DEF IoPutVara
  <2>2. QED
    BY <2>1, TurnIs
<1>2. m.nc \in DOMAIN files[s] /\ key = Key(m) /\ files[s][m.nc].status = "data" /\ Numbers(files[s], waiting[s])
  BY <1>1 DEF Turn, Noting
<1>3. files[s][m.nc].nc_id # Invalid /\ files[s][m.nc].defs[i].nc # Invalid
  BY <1>2, TurnIs DEF Numbers
<1>4. Full(s, Received(s, c, m)) <=> turn[s] = Len(Group[s])
  BY <1>1, FullAtLast DEF Noting
<1>5. /\ HasDef(s, m.nc, "var", m.id) /\ DefAt(s, m.nc, "var", m.id) = i
      /\ Def(s, m.nc, "var", m.id) = files[s][m.nc].defs[i]
  BY <1>2 DEF HasDef, HasNc, DefAt, Def
<1> DEFINE known == HasDef(s, m.nc, "var", m.id)
           var   == Def(s, m.nc, "var", m.id)
           nc_id == files[s][m.nc].nc_id
           stored == Stored(var, c, m.data[1])
           merge == known /\ Full(s, Received(s, c, m)) /\ nc_id # Invalid /\ var.nc # Invalid
           write == merge /\ var.name \notin TextVars
           w == [op |-> "put_vara", path |-> netcdf[s][nc_id].path, nc |-> m.nc,
                 key |-> Key(m), id |-> nc_id, name |-> netcdf[s][nc_id].vars[var.nc],
                 from |-> {stored[d] : d \in Members(s)}]
           p == IF merge THEN NoPart(s) ELSE stored
<1>6. /\ Record(s, c, m, merge /\ ~write)
      /\ files' = IF known
                    THEN [files EXCEPT ![s][m.nc].defs[DefAt(s, m.nc, "var", m.id)].parts = p]
                    ELSE files
      /\ waiting' = IF write THEN [waiting EXCEPT ![s] = w] ELSE waiting
  BY DEF IoPutVara, NoPart
<1>7. w.op = "put_vara" /\ w.key = key
  BY <1>2
<1>8. merge <=> turn[s] = Len(Group[s])
  BY <1>3, <1>4, <1>5
<1>9. write => merge
  OBVIOUS
<1>10. turn[s] = Len(Group[s]) => p = NoPart(s)
  BY <1>8
<1>11. files' = [files EXCEPT ![s][m.nc].defs[i].parts = p]
  BY <1>5, <1>6
<1>12. merge \in BOOLEAN /\ write \in BOOLEAN
  OBVIOUS
<1> HIDE DEF merge, write, w, p, known, var, nc_id, stored
<1>13. PICK handled \in BOOLEAN : handled = (merge /\ ~write)
  OBVIOUS
<1>14. Record(s, c, m, handled)
  BY <1>6, <1>13
<1>15. (handled => turn[s] = Len(Group[s])) /\ (write <=> ~(handled \/ turn[s] # Len(Group[s])))
  BY <1>8, <1>9, <1>12, <1>13
<1>16. IF handled \/ turn[s] # Len(Group[s])
         THEN waiting' = waiting
         ELSE \E v : v.op = "put_vara" /\ v.key = key /\ waiting' = [waiting EXCEPT ![s] = v]
  <2>1. CASE write
    BY <1>6, <1>7, <1>15, <2>1
  <2>2. CASE ~write
    BY <1>6, <1>15, <2>2
  <2>3. QED
    BY <2>1, <2>2
<1>17. PartPut(s, c, m, key, i, p, handled)
  BY <1>10, <1>11, <1>14, <1>15, <1>16 DEF PartPut
<1>18. QED
  BY <1>17

\* Data of a variable is put.
LEMMA PutVaraTurned ==
  ASSUME NEW s, NEW c, NEW m, NEW t, NEW u, NEW call, NEW k, NEW key, Turn(s, c, m, t, u, call, k, key),
         IoPutVara(s, c, m)
  PROVE  Turned(s, m, call, key)
<1>1. /\ DOMAIN files = Servers /\ s \in Servers /\ waiting[s].op = "none" /\ DOMAIN waiting = Servers
      /\ turn'[s] = 1 <=> turn[s] = Len(Group[s])
      /\ \A n \in DOMAIN files[s] : IsFile(s, files[s][n]) /\ DOMAIN files[s][n] = FileFields
  BY TurnIs
<1>2. call.op = "put_vara"
  <2>1. m.op = "put_vara"
    BY DEF IoPutVara
  <2>2. QED
    BY <2>1, TurnIs
<1>3. /\ m.nc \in DOMAIN files[s] /\ Numbers(files[s], waiting[s])
      /\ PartsOf(s, call, key, files[s], turn[s]) /\ key = Key(m)
  BY <1>2 DEF Turn, Noting
<1>4. key[2] = m.nc /\ key[3] = m.id
  BY <1>3 DEF Key
<1>5. Positioned(files[s][m.nc].defs, "var", m.id) # {}
  <2>1. Handles(s, c, m, t, u, call, k)
    BY DEF Turn
  <2>2. QED
    BY <1>2, <2>1, KnownBefore
<1>6. PICK ds : ds = files[s][m.nc].defs
  OBVIOUS
<1>7. PICK i \in DOMAIN ds : i = CHOOSE j \in Positioned(ds, "var", m.id) : TRUE
  BY <1>5, <1>6, DefFound
<1>8. PICK p : \E handled \in BOOLEAN : PartPut(s, c, m, key, i, p, handled)
  BY <1>5, <1>6, <1>7, PutVaraIs
<1>9. PICK handled \in BOOLEAN : PartPut(s, c, m, key, i, p, handled)
  BY <1>8
<1>10. IF handled \/ turn[s] # Len(Group[s]) THEN waiting'[s].op = "none"
       ELSE waiting'[s].op = "put_vara" /\ waiting'[s].key = key
  BY <1>1, <1>9 DEF PartPut
<1>11. Pending(s, call, key, requests'[s], waiting'[s], turn'[s])
  BY <1>2, <1>9, <1>10, NotedTurned DEF Noting, PartPut
<1>12. PICK d : d = ds[i] /\ DOMAIN d = DefFields
  <2>1. IsDef(s, ds[i])
    BY <1>1, <1>3, <1>6 DEF IsFile
  <2>2. QED
    BY <2>1 DEF IsDef
<1>13. PICK e : e = [d EXCEPT !.parts = p]
  OBVIOUS
<1>14. e.parts = p /\ e.kind = d.kind /\ e.id = d.id /\ e.nc = d.nc
  BY <1>12, <1>13 DEF DefFields
<1>15. PICK es : es = [ds EXCEPT ![i] = e]
  OBVIOUS
<1>16. /\ DOMAIN es = DOMAIN ds /\ es[i].parts = p /\ \A x \in DOMAIN ds : x # i => es[x] = ds[x]
       /\ \A x \in DOMAIN ds : es[x].kind = ds[x].kind /\ es[x].id = ds[x].id /\ es[x].nc = ds[x].nc
  BY <1>12, <1>14, <1>15
<1>17. SameFiles(files[s], files'[s], m.nc) /\ files'[s][m.nc].defs = es
  <2>1. files' = [files EXCEPT ![s][m.nc].defs = es]
    BY <1>6, <1>9, <1>12, <1>13, <1>15 DEF PartPut
  <2>2. QED
    BY <1>1, <1>3, <2>1, DefsChanged
<1>18. Positioned(es, "var", m.id) = Positioned(ds, "var", m.id)
  BY <1>16 DEF Positioned
<1>19. PartsOf(s, call, key, files'[s], turn'[s])
  <2>1. SUFFICES ASSUME NEW n \in DOMAIN files'[s], NEW x \in DOMAIN files'[s][n].defs
                 PROVE  \/ files'[s][n].defs[x].parts \in {EmptyFcn, NoPart(s)}
                        \/ /\ turn'[s] # 1 /\ call.op = "put_vara" /\ n = key[2]
                           /\ x = CHOOSE j \in Positioned(files'[s][n].defs, "var", key[3]) : TRUE
    BY DEF PartsOf
  <2>2. n \in DOMAIN files[s] /\ (n # m.nc => files'[s][n].defs = files[s][n].defs)
    BY <1>17 DEF SameFiles
  <2>3. CASE n # m.nc
    BY <1>3, <1>4, <2>2, <2>3 DEF PartsOf
  <2>4. CASE n = m.nc /\ x # i
    <3>1. x \in DOMAIN ds /\ files'[s][n].defs[x] = ds[x]
      BY <1>16, <1>17, <2>4
    <3>2. PICK old : old = files[s][m.nc].defs /\ old = ds
      BY <1>6
    <3>3. \/ old[x].parts \in {EmptyFcn, NoPart(s)}
          \/ x = CHOOSE j \in Positioned(old, "var", key[3]) : TRUE
      <4>1. \A y \in DOMAIN files[s][m.nc].defs :
              \/ files[s][m.nc].defs[y].parts \in {EmptyFcn, NoPart(s)}
              \/ y = CHOOSE j \in Positioned(files[s][m.nc].defs, "var", key[3]) : TRUE
        BY <1>3, Zenon DEF PartsOf
      <4>2. QED
        BY <3>1, <3>2, <4>1, Zenon
    <3>4. ds[x].parts \in {EmptyFcn, NoPart(s)}
      BY <1>4, <1>7, <2>4, <3>2, <3>3
    <3>5. QED
      BY <3>1, <3>4
  <2>5. CASE n = m.nc /\ x = i /\ turn[s] = Len(Group[s])
    BY <1>9, <1>16, <1>17, <2>5 DEF PartPut
  <2>6. CASE n = m.nc /\ x = i /\ turn[s] # Len(Group[s])
    BY <1>1, <1>2, <1>4, <1>7, <1>17, <1>18, <2>6
  <2>7. QED
    BY <2>3, <2>4, <2>5, <2>6
<1>20. SameModes(netcdf[s], netcdf'[s])
  <2>1. netcdf' = netcdf
    BY DEF IoPutVara
  <2>2. QED
    BY <2>1, NothingChanged
<1>21. files'[s][m.nc].status = "data" => \A x \in DOMAIN files'[s][m.nc].defs : files'[s][m.nc].defs[x].nc # Invalid
  <2>1. ASSUME files'[s][m.nc].status = "data" PROVE \A x \in DOMAIN ds : ds[x].nc # Invalid
    BY <1>3, <1>6, <1>17, <2>1 DEF SameFiles, Numbers
  <2>2. QED
    BY <1>16, <1>17, <2>1
<1>22. waiting'[s].op \in {"none", "put_vara"}
  BY <1>10
<1>23. QED
  BY <1>2, <1>11, <1>17, <1>19, <1>20, <1>21, <1>22, TurnedIs

\* Every handler keeps the rounds clean.
LEMMA HandlerTurned ==
  ASSUME NEW s, NEW c, NEW m, NEW t, NEW u, NEW call, NEW k, NEW key, Turn(s, c, m, t, u, call, k, key),
         \/ IoCreate(s, c, m) \/ IoDefDim(s, c, m) \/ IoDefVar(s, c, m)
         \/ IoPutAtt(s, c, m) \/ IoEnddef(s, c, m) \/ IoPutVara(s, c, m)
         \/ IoClose(s, c, m)
  PROVE  Turned(s, m, call, key)
BY CreateTurned, DimTurned, VarTurned, AttTurned, EnddefTurned, PutVaraTurned, CloseTurned

\* One call more.
LEMMA EndedNext ==
  ASSUME NEW prog, NEW k \in Nat \ {0}, NEW p
  PROVE  /\ EndedBy(prog, k, p) <=> EndedBy(prog, k - 1, p) \/ (prog[k].op = "enddef" /\ prog[k].path = p)
         /\ ~EndedBy(prog, 0, p)
<1>1. 1..k = 1..(k - 1) \cup {k} /\ 1..0 = {}
  OBVIOUS
<1>2. QED
  BY <1>1 DEF EndedBy

\* The message of a call that is noted has the key of the call.
LEMMA KeyIs ==
  ASSUME NEW t, NEW call, NEW k, NEW m, Meant(t, call, k, m), call.op # "create"
  PROVE  /\ m.nc = NcOf(t, call.path) /\ KeyOf(t, call)[2] = m.nc
         /\ call.op \in Noting => KeyOf(t, call) = Key(m)
<1>1. PICK n, x : n = NcOf(t, call.path) /\ x = VarOf(t, n, call.name)
  OBVIOUS
<1>2. /\ m.op = call.op /\ m.nc = n
      /\ call.op \in {"put_att", "put_vara"} => m.id = x
      /\ call.op \in {"enddef", "close"} => m.id = 0
  BY <1>1 DEF Meant
<1>3. KeyOf(t, call) = <<call.op, n, IF call.op \in {"put_att", "put_vara"} THEN x ELSE 0>>
  BY <1>1 DEF KeyOf
<1>4. ASSUME call.op \in Noting PROVE KeyOf(t, call) = Key(m)
  <2>1. Key(m) = <<call.op, n, m.id>>
    BY <1>2 DEF Key
  <2>2. m.id = IF call.op \in {"put_att", "put_vara"} THEN x ELSE 0
    BY <1>2, <1>4 DEF Noting
  <2>3. QED
    BY <1>3, <2>1, <2>2
<1>5. QED
  BY <1>1, <1>2, <1>3, <1>4

\* Paths stay with their files.
LEMMA SamePath ==
  ASSUME NEW t, TableOk(t), NEW call, Fits(t, call), NEW k \in Nat, NEW u, u = After(t, call, k)
  PROVE  /\ \A n \in DOMAIN t.nc : n \in DOMAIN u.nc => u.nc[n].path = t.nc[n].path
         /\ \A n \in DOMAIN u.nc : n \notin DOMAIN t.nc =>
              call.op = "create" /\ n = t.open + 1 /\ u.nc[n].path = call.path
         /\ call.op \notin {"create", "close"} => DOMAIN u.nc = DOMAIN t.nc
<1>1. CASE call.op = "create"
  <2>1. /\ DOMAIN u.nc = DOMAIN t.nc \cup {t.open + 1} /\ u.nc[t.open + 1].path = call.path
        /\ \A m \in DOMAIN t.nc : u.nc[m] = t.nc[m]
    BY <1>1, CreateAfter
  <2>2. QED
    BY <1>1, <2>1
<1>2. CASE call.op = "close"
  <2>1. PICK n : n = NcOf(t, call.path)
    OBVIOUS
  <2>2. DOMAIN u.nc = DOMAIN t.nc \ {n} /\ \A m \in DOMAIN u.nc : u.nc[m] = t.nc[m]
    BY <1>2, <2>1, CloseAfter
  <2>3. QED
    BY <1>2, <2>2
<1>3. CASE call.op \notin {"create", "close"}
  BY <1>3, SameOpen
<1>4. QED
  BY <1>1, <1>2, <1>3

\* A server that decodes a message is ready for it.
LEMMA DecodeTurn ==
  ASSUME NEW h, Serves(h), NEW s \in Servers, Decode(s), Opens(h, s), Clean(h, s), Orderly(calls),
         NEW c, c = Group[s][turn[s]], NEW m, m = Unpacked(Head(inbox[c])), NEW k, k = Taken(s)',
         NEW t, t = h[k - 1], NEW u, u = h[k], NEW call, call = calls[k], NEW key, key = KeyOf(t, call)
  PROVE  Turn(s, c, m, t, u, call, k, key) /\ (turn[s] = 1 \/ Taken(s) = k) /\ Done(s) = k - 1
<1>1. Handles(s, c, m, t, u, call, k) /\ Takes(h, s, c, k, m)
  BY DecodeHandles
<1>2. /\ waiting[s].op = "none" /\ DOMAIN turn = Servers
      /\ turn' = [turn EXCEPT ![s] = IF @ = Len(Group[s]) THEN 1 ELSE @ + 1]
  BY DEF Decode, Serves, Tabled
<1>3. PICK tab : /\ tab = h[Taken(s)] /\ tab = IF turn[s] = 1 THEN t ELSE u
                 /\ Taken(s) = IF turn[s] = 1 THEN k - 1 ELSE k
  BY <1>1 DEF Takes
<1>4. TableOk(t) /\ Fits(t, call) /\ k \in Nat \ {0} /\ u = After(t, call, k) /\ k \in 1..Len(calls)
  BY <1>1 DEF Takes, Handles
<1>5. Meant(t, call, k, m) /\ FilesOk(s, tab, files[s])
  BY <1>1, <1>3 DEF Handles, ServerOk
<1>6. LibraryOk(tab, files[s], netcdf[s], waiting[s])
  BY <1>3 DEF Opens
<1>7. Done(s) = k - 1
  BY <1>2, <1>3, <1>4 DEF Done
<1>8. /\ Flags(files[s], netcdf[s], waiting[s]) /\ Numbers(files[s], waiting[s])
      /\ Modes(calls, k - 1, tab, files[s])
      /\ turn[s] = 1 => requests[s] = EmptyFcn
      /\ turn[s] # 1 => /\ Pending(s, call, key, requests[s], waiting[s], turn[s])
                        /\ call.op = "close" => key[2] \in DOMAIN files[s]
      /\ PartsOf(s, call, key, files[s], turn[s])
  <2>1. Flags(files[s], netcdf[s], waiting[s]) /\ Numbers(files[s], waiting[s])
    BY DEF Clean
  <2>2. Modes(calls, k - 1, tab, files[s])
    BY <1>3, <1>7 DEF Clean
  <2>3. ASSUME turn[s] = 1
        PROVE  requests[s] = EmptyFcn /\ PartsOf(s, call, key, files[s], turn[s])
    BY <1>2, <2>3 DEF Clean, Pending, PartsOf
  <2>4. ASSUME turn[s] # 1
        PROVE  /\ Pending(s, call, key, requests[s], waiting[s], turn[s])
               /\ call.op = "close" => key[2] \in DOMAIN files[s]
               /\ PartsOf(s, call, key, files[s], turn[s])
    <3>1. Taken(s) = k
      BY <1>3, <2>4
    <3>2. QED
      BY <2>4, <3>1 DEF Clean
  <2>5. QED
    BY <2>1, <2>2, <2>3, <2>4
<1>9. call.op # "create" => /\ m.nc = NcOf(t, call.path) /\ key[2] = m.nc /\ m.nc \in DOMAIN t.nc
                            /\ t.nc[m.nc].path = call.path
  <2>1. ASSUME call.op # "create"
        PROVE  m.nc = NcOf(t, call.path) /\ key[2] = m.nc
    BY <1>5, <2>1, KeyIs
  <2>2. ASSUME call.op # "create"
        PROVE  NcOf(t, call.path) \in DOMAIN t.nc /\ t.nc[NcOf(t, call.path)].path = call.path
    BY <1>4, <2>2, CallFile
  <2>3. QED
    BY <2>1, <2>2
<1>10. call.op \in Noting => key = Key(m)
  BY <1>5, KeyIs DEF Noting
<1>11. call.op \notin {"create", "close"} =>
         /\ m.nc \in DOMAIN tab.nc /\ tab.nc[m.nc].path = call.path
         /\ m.nc \in DOMAIN files[s]
  <2>1. ASSUME call.op \notin {"create", "close"}
        PROVE  m.nc \in DOMAIN u.nc /\ u.nc[m.nc].path = call.path
    <3>1. \A n \in DOMAIN t.nc : n \in DOMAIN u.nc /\ u.nc[n].path = t.nc[n].path
      BY <1>4, <2>1, SamePath
    <3>2. QED
      BY <1>9, <2>1, <3>1
  <2>2. QED
    BY <1>3, <1>5, <1>9, <2>1 DEF FilesOk
<1>12. call.op # "create" => m.nc \in DOMAIN files[s]
  <2>1. CASE call.op = "close" /\ turn[s] = 1
    BY <1>3, <1>5, <1>9, <2>1 DEF FilesOk
  <2>2. CASE call.op = "close" /\ turn[s] # 1
    BY <1>8, <1>9, <2>2
  <2>3. QED
    BY <1>11, <2>1, <2>2
<1>13. call.op \in {"def_dim", "def_var", "put_att", "put_vara"} =>
         /\ files[s][m.nc].status = "data" <=> EndedBy(calls, k - 1, call.path)
         /\ files[s][m.nc].status \in {"define", "data"}
  BY <1>5, <1>8, <1>11 DEF Modes, FilesOk, IsFile
<1>14. /\ call.op \in {"def_dim", "def_var", "put_att"} => ~EndedBy(calls, k - 1, call.path)
       /\ call.op = "put_vara" => EndedBy(calls, k - 1, call.path)
  <2>1. k \in DOMAIN calls
    <3>1. PICK S : calls \in Seq(S)
      BY DEF Serves, Hist
    <3>2. QED
      BY <1>4, <3>1
  <2>2. QED
    BY <2>1 DEF Orderly
<1>15. IF turn[s] = 1 \/ call.op \notin Noting THEN requests[s] = EmptyFcn
       ELSE DOMAIN requests[s] = {key} /\ Noted(requests[s][key], Len(Group[s])) = 0..(turn[s] - 2)
  BY <1>8 DEF Pending
<1>16. turn'[s] = IF turn[s] = Len(Group[s]) THEN 1 ELSE turn[s] + 1
  BY <1>2
<1>17. LibraryOk(IF turn[s] = 1 THEN t ELSE u, files[s], netcdf[s], waiting[s])
  BY <1>3, <1>6
<1>18. /\ call.op \in {"def_dim", "def_var", "put_att"} => files[s][m.nc].status = "define"
       /\ call.op = "put_vara" => files[s][m.nc].status = "data"
  BY <1>13, <1>14
<1>19. Turn(s, c, m, t, u, call, k, key)
  BY <1>1, <1>8, <1>10, <1>12, <1>15, <1>16, <1>17, <1>18 DEF Turn
<1>20. QED
  BY <1>3, <1>7, <1>19

(* Files that are there keep their modes, and new ones are in define mode; tab *)
(* is the table of the clients before, and u after.                        *)
FilesStay(tab, u, fs, gs) ==
  /\ DOMAIN tab.nc \subseteq DOMAIN fs /\ DOMAIN fs \subseteq 1..tab.open /\ DOMAIN u.nc \subseteq DOMAIN gs
  /\ \A n \in DOMAIN fs : gs[n].status = fs[n].status
  /\ \A n \in DOMAIN gs \ DOMAIN fs : gs[n].status = "define"

(* The k-th call of prog is taken, j calls being done with. *)
OneTaken(prog, k, j, t, u, tab, fs, gs) ==
  /\ k \in Nat \ {0} /\ TableOk(t) /\ Fits(t, prog[k]) /\ u = After(t, prog[k], k)
  /\ tab \in {t, u} /\ Modes(prog, k - 1, tab, fs) /\ FilesStay(tab, u, fs, gs) /\ j \in {k - 1, k}
  /\ prog[k].op = "create" => ~EndedBy(prog, k - 1, prog[k].path)
  /\ prog[k].op = "enddef" /\ j = k => fs[NcOf(t, prog[k].path)].status = "data"

\* The modes are right after that.
LEMMA ModesAfter ==
  ASSUME NEW prog, NEW k, NEW j, NEW t, NEW u, NEW tab, NEW fs, NEW gs,
         OneTaken(prog, k, j, t, u, tab, fs, gs)
  PROVE  Modes(prog, j, u, gs)
<1> SUFFICES ASSUME NEW call, call = prog[k] PROVE Modes(prog, j, u, gs)
  OBVIOUS
<1>a. /\ k \in Nat \ {0} /\ TableOk(t) /\ Fits(t, call) /\ u = After(t, call, k)
      /\ tab \in {t, u} /\ Modes(prog, k - 1, tab, fs) /\ FilesStay(tab, u, fs, gs) /\ j \in {k - 1, k}
      /\ call.op = "create" => ~EndedBy(prog, k - 1, call.path)
      /\ call.op = "enddef" /\ j = k => fs[NcOf(t, call.path)].status = "data"
  BY DEF OneTaken
<1>1. SUFFICES ASSUME NEW n \in DOMAIN u.nc
               PROVE  gs[n].status = "data" <=> EndedBy(prog, j, u.nc[n].path)
  BY DEF Modes
<1>0. /\ DOMAIN tab.nc \subseteq DOMAIN fs /\ DOMAIN fs \subseteq 1..tab.open /\ DOMAIN u.nc \subseteq DOMAIN gs
      /\ \A x \in DOMAIN fs : gs[x].status = fs[x].status
      /\ \A x \in DOMAIN gs \ DOMAIN fs : gs[x].status = "define"
  BY <1>a DEF FilesStay
<1>2. PICK p : p = u.nc[n].path
  OBVIOUS
<1>3. /\ n \in DOMAIN t.nc => t.nc[n].path = p
      /\ n \notin DOMAIN t.nc => call.op = "create" /\ n = t.open + 1 /\ p = call.path
  BY <1>a, <1>2, SamePath
<1>4. t.open \in Nat
  BY <1>a, AfterOk
<1>5. EndedBy(prog, k, p) <=> EndedBy(prog, k - 1, p) \/ (call.op = "enddef" /\ call.path = p)
  BY <1>a, EndedNext
<1>6. CASE n \in DOMAIN fs
  <2>1. n \in DOMAIN tab.nc
    <3>1. CASE tab = u
      BY <3>1
    <3>2. CASE tab = t
      BY <1>0, <1>3, <1>4, <1>6, <3>2
    <3>3. QED
      BY <1>a, <3>1, <3>2
  <2>2. tab.nc[n].path = p
    BY <1>a, <1>2, <1>3, <2>1
  <2>3. fs[n].status = "data" <=> EndedBy(prog, k - 1, p)
    BY <1>a, <2>1, <2>2 DEF Modes
  <2>4. gs[n].status = fs[n].status
    BY <1>0, <1>6
  <2>5. CASE j = k - 1
    BY <1>2, <2>3, <2>4, <2>5
  <2>6. CASE j = k /\ ~(call.op = "enddef" /\ call.path = p)
    BY <1>2, <1>5, <2>3, <2>4, <2>6
  <2>7. CASE j = k /\ call.op = "enddef" /\ call.path = p
    <3>1. n \in DOMAIN t.nc /\ t.nc[n].path = call.path
      BY <1>3, <2>7
    <3>2. n = NcOf(t, call.path)
      BY <1>a, <2>7, <3>1, CallFile
    <3>3. QED
      BY <1>a, <1>2, <1>5, <2>4, <2>7, <3>2
  <2>8. QED
    BY <1>a, <2>5, <2>6, <2>7
<1>7. CASE n \notin DOMAIN fs
  <2>1. gs[n].status = "define"
    BY <1>0, <1>7
  <2>2. call.op = "create" /\ p = call.path
    <3>1. n \notin DOMAIN tab.nc
      BY <1>0, <1>7
    <3>2. QED
      BY <1>a, <1>3, <3>1
  <2>3. ~EndedBy(prog, k - 1, p) /\ ~EndedBy(prog, k, p)
    BY <1>a, <1>5, <2>2
  <2>4. QED
    BY <1>a, <1>2, <2>1, <2>3
<1>8. QED
  BY <1>6, <1>7

\* A server decodes a message: what it keeps is for the call that is being taken.
LEMMA DecodeClean ==
  ASSUME NEW h, Serves(h), NEW s \in Servers, Decode(s), Opens(h, s), Clean(h, s), Orderly(calls)
  PROVE  Clean(h, s)'
<1>1. PICK c, m, k : /\ c = Group[s][turn[s]] /\ m = Unpacked(Head(inbox[c])) /\ k = Taken(s)'
  OBVIOUS
<1>2. PICK t, u, call : t = h[k - 1] /\ u = h[k] /\ call = calls[k]
  OBVIOUS
<1>3. PICK key : key = KeyOf(t, call)
  OBVIOUS
<1>4. /\ Handles(s, c, m, t, u, call, k) /\ Takes(h, s, c, k, m)
      /\ \/ IoCreate(s, c, m) \/ IoDefDim(s, c, m) \/ IoDefVar(s, c, m)
         \/ IoPutAtt(s, c, m) \/ IoEnddef(s, c, m) \/ IoPutVara(s, c, m)
         \/ IoClose(s, c, m)
  BY <1>1, <1>2, DecodeHandles
<1>5. Turn(s, c, m, t, u, call, k, key) /\ Done(s) = k - 1
  BY <1>1, <1>2, <1>3, DecodeTurn
<1>6. Turned(s, m, call, key)
  BY <1>4, <1>5, HandlerTurned
<1>7. Served(s, u)
  BY <1>4, HandlerServed
<1>8. calls' = calls
  BY DEF Decode, clientVars
<1>9. PICK fs, gs, w, v : fs = files[s] /\ gs = files'[s] /\ w = waiting[s] /\ v = waiting'[s]
  OBVIOUS
<1>10. PICK tab : tab = h[Taken(s)] /\ tab \in {t, u} /\ FilesOk(s, tab, fs)
  <2>1. Taken(s) \in {k - 1, k}
    BY <1>4 DEF Takes
  <2>2. FilesOk(s, h[Taken(s)], files[s])
    BY DEF Serves, ServerOk
  <2>3. QED
    BY <1>2, <1>9, <2>1, <2>2
<1>11. /\ TableOk(t) /\ Fits(t, call) /\ k \in Nat \ {0} /\ u = After(t, call, k)
       /\ k \in 1..Len(calls) /\ Meant(t, call, k, m)
  BY <1>2, <1>4 DEF Takes, Handles
<1>12. /\ call.op # "create" => m.nc = NcOf(t, call.path) /\ key[2] = m.nc /\ m.nc \in DOMAIN fs
  BY <1>3, <1>5, <1>9, <1>11, KeyIs DEF Turn
<1>13. Modes(calls, Done(s)', u, gs)
  <2>1. Done(s)' = IF turn'[s] = 1 /\ v.op = "none" THEN k ELSE k - 1
    BY <1>1, <1>9 DEF Done
  <2>2. Modes(calls, k - 1, tab, fs)
    BY <1>5, <1>9, <1>10 DEF Clean
  <2>3. DOMAIN tab.nc \subseteq DOMAIN fs /\ DOMAIN fs \subseteq 1..tab.open
    BY <1>10 DEF FilesOk
  <2>4. DOMAIN u.nc \subseteq DOMAIN gs
    BY <1>7, <1>9 DEF Served, ServerOk, FilesOk
  <2>5. /\ \A n \in DOMAIN fs : gs[n].status = fs[n].status
        /\ \A n \in DOMAIN gs \ DOMAIN fs : gs[n].status = "define"
    BY <1>6, <1>9 DEF Turned
  <2>6. call.op = "create" => ~EndedBy(calls, k - 1, call.path)
    <3>1. k \in DOMAIN calls
      <4>1. PICK S : calls \in Seq(S)
        BY DEF Serves, Hist
      <4>2. QED
        BY <1>11, <4>1
    <3>2. QED
      BY <1>2, <3>1 DEF Orderly
  <2>7. PICK j : j = Done(s)' /\ j \in {k - 1, k}
    BY <2>1
  <2>8. call.op = "enddef" /\ j = k => fs[NcOf(t, call.path)].status = "data"
    <3>1. ASSUME call.op = "enddef", j = k PROVE turn'[s] = 1 /\ v.op = "none"
      BY <1>11, <2>1, <2>7, <3>1
    <3>2. QED
      BY <1>6, <1>9, <1>12, <3>1 DEF Turned
  <2>9. FilesStay(tab, u, fs, gs)
    BY <2>3, <2>4, <2>5 DEF FilesStay
  <2>10. PICK prog : prog = calls
    OBVIOUS
  <2>11. /\ call = prog[k] /\ tab \in {t, u} /\ Modes(prog, k - 1, tab, fs)
         /\ call.op = "create" => ~EndedBy(prog, k - 1, call.path)
    BY <1>2, <1>10, <2>2, <2>6, <2>10
  <2>12. OneTaken(prog, k, j, t, u, tab, fs, gs)
    BY <1>11, <2>7, <2>8, <2>9, <2>11 DEF OneTaken
  <2>13. Modes(prog, j, u, gs)
    BY <2>12, ModesAfter
  <2>14. QED
    BY <2>7, <2>10, <2>13
<1>14. CallWaits(k, call, u, v)
  <2>1. v.op \in {"none", call.op} /\ (v.op = "enddef" => v.nc = m.nc)
    BY <1>6, <1>9 DEF Turned
  <2>2. ASSUME v.op = "enddef" PROVE v.nc \in DOMAIN u.nc /\ u.nc[v.nc].path = call.path
    <3>1. call.op = "enddef"
      BY <2>1, <2>2
    <3>2. NcOf(t, call.path) \in DOMAIN t.nc /\ t.nc[NcOf(t, call.path)].path = call.path
      BY <1>11, <3>1, CallFile
    <3>3. \A n \in DOMAIN t.nc : n \in DOMAIN u.nc /\ u.nc[n].path = t.nc[n].path
      BY <1>11, <3>1, SamePath
    <3>4. v.nc = NcOf(t, call.path)
      BY <1>12, <2>1, <2>2, <3>1
    <3>5. QED
      BY <3>2, <3>3, <3>4
  <2>3. QED
    BY <1>11, <2>1, <2>2 DEF CallWaits
<1>15. turn'[s] # 1 => k # 0 /\ (call.op = "close" => key[2] \in DOMAIN gs)
  BY <1>6, <1>9, <1>11, <1>12 DEF Turned
<1>16. /\ Pending(s, call, key, requests'[s], v, turn'[s]) /\ PartsOf(s, call, key, gs, turn'[s])
       /\ Flags(gs, netcdf'[s], v) /\ Numbers(gs, v)
  BY <1>6, <1>9 DEF Turned
<1>17. /\ Taken(s)' = k /\ h[Taken(s)'] = u /\ calls'[Taken(s)'] = call
       /\ KeyOf(h[Taken(s)' - 1], calls'[Taken(s)']) = key
  BY <1>1, <1>2, <1>3, <1>8
<1>18. QED
  BY <1>8, <1>9, <1>13, <1>14, <1>15, <1>16, <1>17 DEF Clean

\* The others notice nothing.
LEMMA DecodeCleanOthers ==
  ASSUME NEW h, Serves(h), NEW s \in Servers, Decode(s), NEW o \in Servers, o # s, Clean(h, o)
  PROVE  Clean(h, o)'
<1>1. PICK c, m, k : /\ c = Group[s][turn[s]] /\ m = Unpacked(Head(inbox[c])) /\ k = Taken(s)'
  OBVIOUS
<1>2. PICK t, u, call : t = h[k - 1] /\ u = h[k] /\ call = calls[k]
  OBVIOUS
<1>3. /\ Handles(s, c, m, t, u, call, k) /\ Taken(o)' = Taken(o)
      /\ \/ IoCreate(s, c, m) \/ IoDefDim(s, c, m) \/ IoDefVar(s, c, m)
         \/ IoPutAtt(s, c, m) \/ IoEnddef(s, c, m) \/ IoPutVara(s, c, m)
         \/ IoClose(s, c, m)
  BY <1>1, <1>2, DecodeHandles
<1>4. Served(s, u)
  BY <1>3, HandlerServed
<1>5. files'[o] = files[o] /\ requests'[o] = requests[o] /\ waiting'[o] = waiting[o]
  BY <1>4 DEF Served, OthersStay
<1>6. calls' = calls /\ turn'[o] = turn[o]
  BY DEF Decode, clientVars, Serves, Tabled
<1>7. netcdf'[o] = netcdf[o]
  <2>1. netcdf' = netcdf \/ \E id, v : netcdf' = [netcdf EXCEPT ![s][id].vars = v]
    BY <1>3 DEF IoCreate, IoDefDim, IoDefVar, IoPutAtt, IoEnddef, IoPutVara, IoClose
  <2>2. DOMAIN netcdf = Servers
    BY DEF Serves, Tabled
  <2>3. QED
    BY <2>1, <2>2
<1>8. Done(o)' = Done(o)
  BY <1>3, <1>5, <1>6 DEF Done
<1>9. QED
  BY <1>3, <1>5, <1>6, <1>7, <1>8 DEF Clean

\* What is in a call.
LEMMA CallFields ==
  ASSUME NEW op, NEW p, NEW name, NEW dims
  PROVE  CallOf(op, p, name, dims).op = op /\ CallOf(op, p, name, dims).path = p
BY DEF CallOf

\* Without misuse, calls keep to the mode of their file.
LEMMA CallsInMode ==
  ASSUME Misuse = {}, NEW prog, NEW call \in ProgramCalls(prog)
  PROVE  /\ call.op \in {"def_dim", "def_var", "put_att"} => Defining(prog, call.path)
         /\ call.op = "put_vara" => ~Defining(prog, call.path)
<1>1. CASE call \in {CallOf("create", p, "", << >>) : p \in {q \in Paths : ~Did(prog, "create", q)}}
  <2>1. PICK p, name, dims : call = CallOf("create", p, name, dims)
    BY <1>1, Zenon
  <2>2. call.op = "create"
    BY <2>1, CallFields
  <2>3. QED
    BY <2>2
<1>2. CASE \E p \in Paths : call \in CallsOn(prog, p)
  <2>1. PICK p \in Paths : call \in CallsOn(prog, p)
    BY <1>2
  <2> DEFINE define == Defining(prog, p) \/ "late" \in Misuse
             data == ~Defining(prog, p) \/ "early" \in Misuse
             vs == Named(prog, "def_var", p)
             D1 == {CallOf("def_dim", p, d, << >>) : d \in IF define THEN DimNames ELSE {}}
             D2 == {CallOf("def_var", p, v, ds) : v \in IF define THEN VarNames ELSE {},
                        ds \in {<< >>} \cup {<<d>> : d \in Named(prog, "def_dim", p)}}
             D3 == {CallOf("put_att", p, v, << >>) : v \in IF define THEN vs \cup {Global} ELSE {}}
             D4 == {CallOf("put_vara", p, v, << >>) : v \in IF data THEN vs ELSE {}}
             D5 == {CallOf("enddef", p, "", << >>)}
             D6 == {CallOf("close", p, "", << >>) : r \in {q \in {p} : ~Defining(prog, q)}}
  <2>2. CallsOn(prog, p) = D1 \cup D2 \cup D3 \cup D4 \cup D5 \cup D6
    BY DEF CallsOn
  <2>3. ASSUME call \in D1 PROVE define /\ call.op = "def_dim" /\ call.path = p
    <3> HIDE DEF define
    <3>1. PICK d : define /\ call = CallOf("def_dim", p, d, << >>)
      BY <2>3
    <3>2. QED
      BY <3>1, CallFields
  <2>4. ASSUME call \in D2 PROVE define /\ call.op = "def_var" /\ call.path = p
    <3> HIDE DEF define
    <3>1. PICK v, ds : define /\ call = CallOf("def_var", p, v, ds)
      BY <2>4
    <3>2. QED
      BY <3>1, CallFields
  <2>5. ASSUME call \in D3 PROVE define /\ call.op = "put_att" /\ call.path = p
    <3> HIDE DEF define
    <3>1. PICK v : define /\ call = CallOf("put_att", p, v, << >>)
      BY <2>5
    <3>2. QED
      BY <3>1, CallFields
  <2>6. ASSUME call \in D4 PROVE data /\ call.op = "put_vara" /\ call.path = p
    <3> HIDE DEF data
    <3>1. PICK v : data /\ call = CallOf("put_vara", p, v, << >>)
      BY <2>6
    <3>2. QED
      BY <3>1, CallFields
  <2>7. ASSUME call \in D5 \cup D6 PROVE call.op \in {"enddef", "close"}
    <3>1. PICK op \in {"enddef", "close"} : \E name, dims : call = CallOf(op, p, name, dims)
      BY <2>7, Zenon
    <3>2. QED
      BY <3>1, CallFields
  <2>8. define = Defining(prog, p) /\ data = ~Defining(prog, p)
    BY DEF Defining
  <2> HIDE DEF define, data, D1, D2, D3, D4, D5, D6
  <2>9. QED
    BY <2>1, <2>2, <2>3, <2>4, <2>5, <2>6, <2>7, <2>8
<1>3. QED
  BY <1>1, <1>2 DEF ProgramCalls

\* A program without misuse goes on without it.
LEMMA OrderlyMore ==
  ASSUME Misuse = {}, NEW h, NEW prog, Hist(h, prog), Orderly(prog), NEW call \in ProgramCalls(prog),
         NEW more, more = Append(prog, call)
  PROVE  Orderly(more)
<1>1. PICK n : /\ n = Len(prog) /\ n \in Nat /\ DOMAIN prog = 1..n /\ DOMAIN more = 1..(n + 1)
               /\ more[n + 1] = call /\ \A i \in 1..n : more[i] = prog[i]
  <2>1. PICK S : prog \in Seq(S)
    BY DEF Hist
  <2>2. PICK n : n = Len(prog) /\ n \in Nat /\ DOMAIN prog = 1..n
    BY <2>1
  <2>3. /\ Len(more) = n + 1 /\ DOMAIN more = 1..(n + 1)
        /\ more[n + 1] = call /\ \A i \in 1..n : more[i] = prog[i]
    <3>1. prog \in Seq(S \cup {call})
      BY <2>1, SeqMore
    <3>2. QED
      BY <2>2, <3>1
  <2>4. QED
    BY <2>2, <2>3
<1>2. ASSUME NEW k \in 0..n, NEW p PROVE EndedBy(more, k, p) <=> EndedBy(prog, k, p)
  <2>1. 1..k \subseteq 1..n
    BY <1>1
  <2>2. QED
    BY <1>1, <2>1 DEF EndedBy
<1>3. ASSUME NEW p PROVE EndedBy(prog, n, p) <=> ~Defining(prog, p)
  BY <1>1 DEF EndedBy, Defining, Did
<1>4. call.op = "create" => ~Did(prog, "create", call.path)
  <2>1. PICK t : TableOk(t) /\ Sound(t, prog)
    <3>1. n \in 0..n
      BY <1>1
    <3>2. QED
      BY <1>1, <3>1 DEF Hist
  <2>2. QED
    BY <2>1, ProgramFits
<1>5. /\ call.op \in {"def_dim", "def_var", "put_att"} => Defining(prog, call.path)
      /\ call.op = "put_vara" => ~Defining(prog, call.path)
  BY CallsInMode
<1>6. call.op = "create" => Defining(prog, call.path)
  <2>1. \A i \in DOMAIN prog : Did(prog, "create", prog[i].path)
    BY DEF Hist, Sound
  <2>2. QED
    BY <1>4, <2>1 DEF Defining, Did
<1>7. ASSUME NEW k \in 1..(n + 1)
      PROVE  /\ more[k].op \in {"create", "def_dim", "def_var", "put_att"} =>
                  ~EndedBy(more, k - 1, more[k].path)
             /\ more[k].op = "put_vara" => EndedBy(more, k - 1, more[k].path)
  <2>1. CASE k = n + 1
    <3>1. k - 1 = n /\ n \in 0..n
      BY <1>1, <2>1
    <3>2. QED
      BY <1>1, <1>2, <1>3, <1>5, <1>6, <2>1, <3>1
  <2>2. CASE k \in 1..n
    <3>1. k - 1 \in 0..n
      BY <1>1, <2>2
    <3>2. QED
      BY <1>1, <1>2, <2>2, <3>1 DEF Orderly
  <2>3. QED
    BY <1>1, <1>7, <2>1, <2>2
<1>8. QED
  BY <1>1, <1>7 DEF Orderly

\* Clients make calls without misuse.
LEMMA ClientOrderly ==
  ASSUME Misuse = {}, NEW h, Serves(h), Orderly(calls), NEW c \in Clients, Client(c)
  PROVE  Orderly(calls')
<1>1. Hist(h, calls) /\ made[c] \in 0..Len(calls) /\ Len(calls) \in Nat
  BY ProgramAssumption DEF Serves, Followed
<1>2. PICK call \in NextCalls(c) : calls' = IF made[c] < Len(calls) THEN calls ELSE Append(calls, call)
  BY DEF Client
<1>3. CASE made[c] < Len(calls)
  BY <1>2, <1>3
<1>4. CASE ~(made[c] < Len(calls))
  <2>1. call \in ProgramCalls(calls)
    BY <1>1, <1>2, <1>4 DEF NextCalls
  <2>2. QED
    BY <1>1, <1>2, <1>4, <2>1, OrderlyMore
<1>5. QED
  BY <1>3, <1>4

\* A server notices nothing when the program gets longer.
LEMMA ClientClean ==
  ASSUME NEW h, Serves(h), NEW s \in Servers, Clean(h, s), NEW g, Longer(h, calls, g, calls'),
         Taken(s)' = Taken(s), UNCHANGED <<turn, files, requests, waiting, netcdf>>
  PROVE  Clean(g, s)'
<1>1. PICK prog, more, k, n : prog = calls /\ more = calls' /\ k = Taken(s) /\ n = Len(calls)
  OBVIOUS
<1>2. k \in 0..n /\ n \in Nat
  BY <1>1, TakenType
<1>3. /\ \A i \in 1..n : more[i] = prog[i]
      /\ \A i \in 0..n : g[i] = h[i]
  BY <1>1 DEF Longer
<1>4. PICK fs, rq, w, i, nd : /\ fs = files[s] /\ rq = requests[s] /\ w = waiting[s] /\ i = turn[s]
                              /\ nd = netcdf[s]
  OBVIOUS
<1>5. files'[s] = fs /\ requests'[s] = rq /\ waiting'[s] = w /\ turn'[s] = i /\ netcdf'[s] = nd
  BY <1>4
<1>6. PICK j : j = Done(s)
  OBVIOUS
<1>7. Done(s)' = j
  BY <1>5, <1>6, <1>4 DEF Done
<1>8. /\ i # 1 => k # 0 /\ (prog[k].op = "close" => KeyOf(h[k - 1], prog[k])[2] \in DOMAIN fs)
      /\ Pending(s, prog[k], KeyOf(h[k - 1], prog[k]), rq, w, i)
      /\ PartsOf(s, prog[k], KeyOf(h[k - 1], prog[k]), fs, i)
      /\ Modes(prog, j, h[k], fs) /\ Flags(fs, nd, w) /\ Numbers(fs, w)
      /\ CallWaits(k, prog[k], h[k], w)
  BY <1>1, <1>4, <1>6 DEF Clean
<1>9. g[k] = h[k]
  BY <1>2, <1>3
<1>10. Modes(more, j, g[k], fs)
  <2>1. j \in {k, k - 1}
    BY <1>1, <1>6 DEF Done
  <2>2. 1..j \subseteq 1..n
    BY <1>2, <2>1
  <2>3. \A p : EndedBy(more, j, p) <=> EndedBy(prog, j, p)
    BY <1>3, <2>2 DEF EndedBy
  <2>4. QED
    BY <1>8, <1>9, <2>3 DEF Modes
<1>11. /\ i # 1 => k # 0 /\ (more[k].op = "close" => KeyOf(g[k - 1], more[k])[2] \in DOMAIN fs)
       /\ Pending(s, more[k], KeyOf(g[k - 1], more[k]), rq, w, i)
       /\ PartsOf(s, more[k], KeyOf(g[k - 1], more[k]), fs, i)
       /\ CallWaits(k, more[k], g[k], w)
  <2>1. CASE k = 0
    <3>1. i = 1 /\ w.op = "none"
      BY <1>8, <2>1 DEF CallWaits
    <3>2. Pending(s, more[k], KeyOf(g[k - 1], more[k]), rq, w, i)
      BY <1>8, <3>1 DEF Pending
    <3>3. PartsOf(s, more[k], KeyOf(g[k - 1], more[k]), fs, i)
      BY <1>8, <3>1 DEF PartsOf
    <3>4. QED
      BY <3>1, <3>2, <3>3 DEF CallWaits
  <2>2. CASE k # 0
    <3>1. k \in 1..n /\ k - 1 \in 0..n
      BY <1>2, <2>2
    <3>2. more[k] = prog[k] /\ g[k - 1] = h[k - 1]
      BY <1>3, <3>1
    <3>3. QED
      BY <1>8, <1>9, <3>2
  <2>3. QED
    BY <2>1, <2>2
<1>12. Taken(s)' = k
  BY <1>1
<1>13. QED
  BY <1>1, <1>5, <1>7, <1>8, <1>10, <1>11, <1>12 DEF Clean

(* What the library changes when it creates a file ... *)
FileCreated(fs, nd, w, id, gs, ne) ==
  /\ gs = [fs EXCEPT ![w.nc].nc_id = id]
  /\ ne = With(nd, id, [path |-> w.path, define |-> TRUE, vars |-> << >>])

(* ... and when it ends the definitions of a file. *)
FileEnded(fs, nd, w, gs, ne) ==
  /\ gs = [fs EXCEPT ![w.nc].status = "data"]
  /\ ne = [nd EXCEPT ![w.id].define = FALSE]

\* The library has created a file: it is in define mode.
LEMMA CreateFlags ==
  ASSUME NEW tab, NEW fs, NEW nd, NEW w, LibraryOk(tab, fs, nd, w), Flags(fs, nd, w), Numbers(fs, w),
         w.op = "create", w.nc \in DOMAIN fs, DOMAIN fs[w.nc] = FileFields,
         NEW id, id \notin DOMAIN nd, NEW gs, NEW ne, FileCreated(fs, nd, w, id, gs, ne)
  PROVE  /\ Flags(gs, ne, Idle) /\ Numbers(gs, Idle)
         /\ \A n \in DOMAIN gs : n \in DOMAIN fs /\ gs[n].defs = fs[n].defs
         /\ \A n \in DOMAIN fs : gs[n].status = fs[n].status
<1>1. \A nc \in DOMAIN fs : nc # w.nc => fs[nc].nc_id \in DOMAIN nd
  BY DEF LibraryOk, Creating
<1>2. \A nc \in DOMAIN fs :
        IF nc = w.nc THEN fs[nc].status = "define" ELSE nd[fs[nc].nc_id].define <=> fs[nc].status = "define"
  BY DEF Flags, Creating
<1>3. PICK v : v = [path |-> w.path, define |-> TRUE, vars |-> << >>]
  OBVIOUS
<1>4. v.define
  BY <1>3
<1>5. ne[id] = v /\ \A i \in DOMAIN nd : ne[i] = nd[i]
  BY <1>3 DEF With, FileCreated
<1>6. /\ DOMAIN gs = DOMAIN fs /\ gs[w.nc].nc_id = id
      /\ gs[w.nc].status = fs[w.nc].status /\ gs[w.nc].defs = fs[w.nc].defs
      /\ \A n \in DOMAIN fs : n # w.nc => gs[n] = fs[n]
  BY DEF FileFields, FileCreated
<1>7. \A i : ~Creating(Idle, i)
  BY DEF Creating, Idle
<1>8. Idle.op = "none"
  BY DEF Idle
<1>9. ASSUME NEW nc \in DOMAIN gs PROVE ne[gs[nc].nc_id].define <=> gs[nc].status = "define"
  <2>1. CASE nc = w.nc
    BY <1>2, <1>4, <1>5, <1>6, <2>1
  <2>2. CASE nc # w.nc
    <3>1. gs[nc] = fs[nc] /\ ne[fs[nc].nc_id] = nd[fs[nc].nc_id]
      BY <1>1, <1>5, <1>6, <2>2
    <3>2. nd[fs[nc].nc_id].define <=> fs[nc].status = "define"
      BY <1>2, <1>6, <2>2
    <3>3. QED
      BY <3>1, <3>2, Zenon
  <2>3. QED
    BY <2>1, <2>2
<1>10. Flags(gs, ne, Idle)
  BY <1>7, <1>9 DEF Flags
<1>11. \A n \in DOMAIN gs : n \in DOMAIN fs /\ gs[n].defs = fs[n].defs /\ gs[n].status = fs[n].status
  BY <1>6
<1>12. Numbers(gs, Idle)
  BY <1>8, <1>11 DEF Numbers
<1>13. QED
  BY <1>6, <1>10, <1>11, <1>12

\* The library has ended the definitions of a file: all have their numbers.
LEMMA EnddefFlags ==
  ASSUME NEW tab, NEW fs, NEW nd, NEW w, LibraryOk(tab, fs, nd, w), Flags(fs, nd, w), Numbers(fs, w),
         w.op = "enddef", w.nc \in DOMAIN fs, DOMAIN fs[w.nc] = FileFields,
         NEW gs, NEW ne, FileEnded(fs, nd, w, gs, ne)
  PROVE  /\ Flags(gs, ne, Idle) /\ Numbers(gs, Idle)
         /\ \A n \in DOMAIN gs : n \in DOMAIN fs /\ gs[n].defs = fs[n].defs
         /\ DOMAIN gs = DOMAIN fs /\ gs[w.nc].status = "data"
         /\ \A n \in DOMAIN fs : n # w.nc => gs[n].status = fs[n].status
<1>1. \A i : ~Creating(w, i) /\ ~Creating(Idle, i)
  BY DEF Creating, Idle
<1>2. /\ \A nc \in DOMAIN fs : fs[nc].nc_id \in DOMAIN nd
      /\ \A m, n \in DOMAIN fs : fs[m].nc_id = fs[n].nc_id => m = n
      /\ \A i \in DOMAIN nd : DOMAIN nd[i] = NcFields
      /\ w.id = fs[w.nc].nc_id
  BY <1>1 DEF LibraryOk, WaitsFor
<1>3. \A nc \in DOMAIN fs : nd[fs[nc].nc_id].define <=> fs[nc].status = "define"
  BY <1>1 DEF Flags
<1>4. /\ DOMAIN gs = DOMAIN fs /\ gs[w.nc].status = "data"
      /\ gs[w.nc].nc_id = fs[w.nc].nc_id /\ gs[w.nc].defs = fs[w.nc].defs
      /\ \A n \in DOMAIN fs : n # w.nc => gs[n] = fs[n]
  BY DEF FileFields, FileEnded
<1>5. ne[w.id].define = FALSE /\ \A i \in DOMAIN nd : i # w.id => ne[i] = nd[i]
  BY <1>2 DEF NcFields, FileEnded
<1>6. ASSUME NEW nc \in DOMAIN gs PROVE ne[gs[nc].nc_id].define <=> gs[nc].status = "define"
  <2>1. CASE nc = w.nc
    <3>1. gs[nc].status # "define" /\ gs[nc].nc_id = w.id
      BY <1>2, <1>4, <2>1
    <3>2. ~ne[w.id].define
      BY <1>5, Zenon
    <3>3. QED
      BY <3>1, <3>2, Zenon
  <2>2. CASE nc # w.nc
    <3>1. gs[nc] = fs[nc] /\ ne[fs[nc].nc_id] = nd[fs[nc].nc_id]
      BY <1>2, <1>4, <1>5, <2>2
    <3>2. nd[fs[nc].nc_id].define <=> fs[nc].status = "define"
      BY <1>3, <1>4, <2>2
    <3>3. QED
      BY <3>1, <3>2, Zenon
  <2>3. QED
    BY <2>1, <2>2
<1>7. Flags(gs, ne, Idle)
  BY <1>1, <1>6 DEF Flags
<1>8. \A n \in DOMAIN gs : n \in DOMAIN fs /\ gs[n].defs = fs[n].defs
  BY <1>4
<1>9. Numbers(gs, Idle)
  <2>1. Idle.op = "none"
    BY DEF Idle
  <2>2. \A n \in DOMAIN gs : gs[n].status = "data" => fs[n].status = "data" \/ (w.op = "enddef" /\ w.nc = n)
    BY <1>4
  <2>3. QED
    BY <1>8, <2>1, <2>2 DEF Numbers
<1>10. QED
  BY <1>4, <1>7, <1>8, <1>9

\* The library has written data: everything stays.
LEMMA PutVaraFlags ==
  ASSUME NEW fs, NEW nd, NEW w, Flags(fs, nd, w), Numbers(fs, w), w.op = "put_vara"
  PROVE  Flags(fs, nd, Idle) /\ Numbers(fs, Idle)
<1>1. (\A i : ~Creating(w, i) /\ ~Creating(Idle, i)) /\ Idle.op = "none"
  BY DEF Creating, Idle
<1>2. QED
  BY <1>1 DEF Flags, Numbers

\* The library has closed a file: the others stay.
LEMMA CloseFlags ==
  ASSUME NEW tab, NEW fs, NEW nd, NEW w, LibraryOk(tab, fs, nd, w), Flags(fs, nd, w), Numbers(fs, w),
         w.op = "close", w.nc \in DOMAIN fs,
         NEW gs, gs = Without(fs, w.nc), NEW ne, ne = Without(nd, w.id)
  PROVE  /\ Flags(gs, ne, Idle) /\ Numbers(gs, Idle)
         /\ DOMAIN gs = DOMAIN fs \ {w.nc} /\ \A n \in DOMAIN gs : gs[n] = fs[n]
<1>1. (\A i : ~Creating(w, i) /\ ~Creating(Idle, i)) /\ Idle.op = "none"
  BY DEF Creating, Idle
<1>2. /\ \A nc \in DOMAIN fs : fs[nc].nc_id \in DOMAIN nd
      /\ \A m, n \in DOMAIN fs : fs[m].nc_id = fs[n].nc_id => m = n
      /\ w.id = fs[w.nc].nc_id
  BY <1>1 DEF LibraryOk, WaitsFor
<1>3. \A nc \in DOMAIN fs : nd[fs[nc].nc_id].define <=> fs[nc].status = "define"
  BY <1>1 DEF Flags
<1>4. DOMAIN gs = DOMAIN fs \ {w.nc} /\ \A n \in DOMAIN gs : gs[n] = fs[n]
  BY DEF Without
<1>5. \A i \in DOMAIN nd : i # w.id => ne[i] = nd[i]
  BY DEF Without
<1>6. ASSUME NEW nc \in DOMAIN gs PROVE ne[gs[nc].nc_id].define <=> gs[nc].status = "define"
  <2>1. gs[nc] = fs[nc] /\ ne[fs[nc].nc_id] = nd[fs[nc].nc_id]
    BY <1>2, <1>4, <1>5
  <2>2. nd[fs[nc].nc_id].define <=> fs[nc].status = "define"
    BY <1>3, <1>4
  <2>3. QED
    BY <2>1, <2>2, Zenon
<1>7. Flags(gs, ne, Idle)
  BY <1>1, <1>6 DEF Flags
<1>8. Numbers(gs, Idle)
  BY <1>1, <1>4 DEF Numbers
<1>9. QED
  BY <1>4, <1>7, <1>8

(* The library call that s is in returns, and leaves the files gs to it.     *)
Left(prog, j, u, fs, gs, ne) ==
  /\ \A n \in DOMAIN gs : n \in DOMAIN fs /\ gs[n].defs = fs[n].defs
  /\ Modes(prog, j, u, gs) /\ Flags(gs, ne, Idle) /\ Numbers(gs, Idle)

\* What is known of a call that is in the library.
LEMMA CallOver ==
  ASSUME NEW h, AllOpen(h), NEW s \in Servers, Clean(h, s), waiting[s].op # "none",
         NEW k, k = Taken(s), NEW w, w = waiting[s]
  PROVE  /\ k \in 1..Len(calls) /\ k \in Nat \ {0} /\ Done(s) = k - 1 /\ w.op = calls[k].op
         /\ w.op = "create" \/ turn[s] = 1
         /\ w.op \notin {"none", "create"} => DOMAIN requests[s] = {w.key}
         /\ turn[s] = 1 /\ w.op = "create" => requests[s] = EmptyFcn
         /\ TableOk(h[k]) /\ Modes(calls, k - 1, h[k], files[s])
         /\ Flags(files[s], netcdf[s], w) /\ Numbers(files[s], w)
         /\ w.op = "enddef" => w.nc \in DOMAIN h[k].nc /\ h[k].nc[w.nc].path = calls[k].path
<1>1. Serves(h)
  BY DEF AllOpen
<1>2. k \in 0..Len(calls) /\ Len(calls) \in Nat
  BY <1>1, TakenType
<1>3. CallWaits(k, calls[k], h[k], w) /\ Pending(s, calls[k], KeyOf(h[k - 1], calls[k]), requests[s], w, turn[s])
  BY DEF Clean
<1>4. k # 0 /\ w.op = calls[k].op
  BY <1>3 DEF CallWaits
<1>5. Done(s) = k - 1
  BY DEF Done
<1>6. TableOk(h[k])
  BY <1>1, <1>2 DEF Serves, Hist
<1>7. Modes(calls, k - 1, h[k], files[s]) /\ Flags(files[s], netcdf[s], w) /\ Numbers(files[s], w)
  BY <1>5 DEF Clean
<1>8. /\ w.op = "create" \/ turn[s] = 1
      /\ w.op \notin {"none", "create"} => DOMAIN requests[s] = {w.key}
      /\ turn[s] = 1 /\ w.op = "create" => requests[s] = EmptyFcn
  BY <1>3 DEF Pending
<1>9. w.op = "enddef" => w.nc \in DOMAIN h[k].nc /\ h[k].nc[w.nc].path = calls[k].path
  BY <1>3 DEF CallWaits
<1>10. QED
  BY <1>2, <1>4, <1>5, <1>6, <1>7, <1>8, <1>9

\* The call is over for the server then, or the server waits for the others.
LEMMA CleanReturned ==
  ASSUME NEW h, AllOpen(h), NEW s \in Servers, Clean(h, s), waiting[s].op # "none",
         UNCHANGED <<calls, turn>>, Taken(s)' = Taken(s), waiting'[s] = Idle,
         NEW k, k = Taken(s),
         IF waiting[s].op = "create" THEN requests'[s] = requests[s]
                                     ELSE requests'[s] = Removed(requests[s], waiting[s].key),
         \A j \in {k - 1, k} : (waiting[s].op = "create" \/ j = k) =>
             Left(calls, j, h[k], files[s], files'[s], netcdf'[s])
  PROVE  Clean(h, s)'
<1>1. PICK w, prog, i, rq, fs, gs, ne, call, key :
        /\ w = waiting[s] /\ prog = calls /\ i = turn[s] /\ rq = requests'[s] /\ fs = files[s]
        /\ gs = files'[s] /\ ne = netcdf'[s] /\ call = calls[k] /\ key = KeyOf(h[k - 1], calls[k])
  OBVIOUS
<1>2. /\ k \in Nat \ {0} /\ w.op = call.op
      /\ w.op = "create" \/ i = 1
      /\ w.op \notin {"none", "create"} => DOMAIN requests[s] = {w.key}
      /\ i = 1 /\ w.op = "create" => requests[s] = EmptyFcn
  BY <1>1, CallOver
<1>3. PICK j : j = IF i = 1 THEN k ELSE k - 1
  OBVIOUS
<1>4. Idle.op = "none"
  BY DEF Idle
<1>5. Done(s)' = j
  BY <1>1, <1>3, <1>4 DEF Done
<1>6. Left(prog, j, h[k], fs, gs, ne)
  BY <1>1, <1>2, <1>3
<1>7. Modes(prog, j, h[k], gs) /\ Flags(gs, ne, Idle) /\ Numbers(gs, Idle)
  BY <1>6 DEF Left
<1>8. PartsOf(s, call, key, gs, i)
  <2>1. PartsOf(s, call, key, fs, i)
    BY <1>1 DEF Clean
  <2>2. \A n \in DOMAIN gs : n \in DOMAIN fs /\ gs[n].defs = fs[n].defs
    BY <1>6 DEF Left
  <2>3. SUFFICES ASSUME NEW nc \in DOMAIN gs, NEW d \in DOMAIN gs[nc].defs
                 PROVE  \/ gs[nc].defs[d].parts \in {EmptyFcn, NoPart(s)}
                        \/ /\ i # 1 /\ call.op = "put_vara" /\ nc = key[2]
                           /\ d = CHOOSE e \in Positioned(gs[nc].defs, "var", key[3]) : TRUE
    BY Zenon DEF PartsOf
  <2>4. gs[nc].defs = fs[nc].defs /\ nc \in DOMAIN fs
    BY <2>2
  <2>5. d \in DOMAIN fs[nc].defs
    BY <2>4, Zenon
  <2>6. \/ fs[nc].defs[d].parts \in {EmptyFcn, NoPart(s)}
        \/ /\ i # 1 /\ call.op = "put_vara" /\ nc = key[2]
           /\ d = CHOOSE e \in Positioned(fs[nc].defs, "var", key[3]) : TRUE
    BY <2>1, <2>4, <2>5, Zenon DEF PartsOf
  <2>7. QED
    BY <2>3, <2>4, <2>6, Zenon
<1>9. Pending(s, call, key, rq, Idle, i)
  <2>1. CASE i = 1
    <3>1. CASE w.op = "create"
      BY <1>1, <1>2, <1>4, <2>1, <3>1 DEF Pending
    <3>2. CASE w.op # "create"
      <4>1. DOMAIN requests[s] \ {w.key} = {}
        BY <1>1, <1>2, <3>2
      <4>2. rq = EmptyFcn
        BY <1>1, <3>2, <4>1 DEF Removed, Without, EmptyFcn
      <4>3. QED
        BY <1>4, <2>1, <4>2 DEF Pending
    <3>3. QED
      BY <3>1, <3>2
  <2>2. CASE i # 1
    <3>1. w.op = "create" /\ rq = requests[s]
      BY <1>1, <1>2, <2>2
    <3>2. Pending(s, call, key, rq, w, i)
      BY <1>1, <3>1 DEF Clean
    <3>3. QED
      BY <1>4, <2>2, <3>2 DEF Pending
  <2>3. QED
    BY <2>1, <2>2
<1>10. CallWaits(k, call, h[k], Idle)
  BY <1>4 DEF CallWaits
<1>11. i # 1 => k # 0 /\ (call.op = "close" => key[2] \in DOMAIN gs)
  BY <1>2
<1>12. QED
  BY <1>1, <1>5, <1>7, <1>8, <1>9, <1>10, <1>11 DEF Clean

\* The modes are right then: those of a call that does not end definitions ...
LEMMA ModesLeft ==
  ASSUME NEW prog, NEW k \in Nat \ {0}, NEW u, NEW fs, NEW gs, Modes(prog, k - 1, u, fs),
         prog[k].op # "enddef", \A n \in DOMAIN u.nc : gs[n].status = fs[n].status
  PROVE  Modes(prog, k, u, gs) /\ Modes(prog, k - 1, u, gs)
<1>1. \A p : EndedBy(prog, k, p) <=> EndedBy(prog, k - 1, p)
  BY EndedNext
<1>2. QED
  BY <1>1 DEF Modes

\* ... and those of one that does.
LEMMA ModesEnded ==
  ASSUME NEW prog, NEW k \in Nat \ {0}, NEW u, TableOk(u), NEW fs, NEW gs, Modes(prog, k - 1, u, fs),
         prog[k].op = "enddef", NEW nc \in DOMAIN u.nc, u.nc[nc].path = prog[k].path,
         gs[nc].status = "data", \A n \in DOMAIN u.nc : n # nc => gs[n].status = fs[n].status
  PROVE  Modes(prog, k, u, gs)
<1>1. SUFFICES ASSUME NEW n \in DOMAIN u.nc
               PROVE  gs[n].status = "data" <=> EndedBy(prog, k, u.nc[n].path)
  BY DEF Modes
<1>2. PICK p : p = u.nc[n].path
  OBVIOUS
<1>3. EndedBy(prog, k, p) <=> EndedBy(prog, k - 1, p) \/ prog[k].path = p
  BY EndedNext
<1>4. CASE n = nc
  BY <1>2, <1>3, <1>4
<1>5. CASE n # nc
  <2>1. p # prog[k].path
    BY <1>2, <1>5 DEF TableOk
  <2>2. fs[n].status = "data" <=> EndedBy(prog, k - 1, p)
    BY <1>2 DEF Modes
  <2>3. QED
    BY <1>2, <1>3, <1>5, <2>1, <2>2
<1>6. QED
  BY <1>4, <1>5

\* The library call returns to every server: the next call finds nothing left.
LEMMA ReturnClean ==
  ASSUME NEW h, AllOpen(h), CollectiveReturns, CreateFails = FALSE, NEW s \in Servers, Clean(h, s)
  PROVE  Clean(h, s)'
<1>1. /\ UNCHANGED <<calls, made, inbox, turn>>
      /\ waiting' = [o \in Servers |-> Idle]
  BY DEF CollectiveReturns, CreateReturns, EnddefReturns, PutVaraReturns, CloseReturns, Return,
      clientVars
<1>2. Taken(s)' = Taken(s) /\ waiting'[s] = Idle
  BY <1>1 DEF Taken, Decoded
<1>3. PICK fs, nd, w, rq, k, tab, prog :
        /\ fs = files[s] /\ nd = netcdf[s] /\ w = waiting[s] /\ rq = requests[s] /\ k = Taken(s)
        /\ tab = h[Taken(s)] /\ tab = h[k] /\ prog = calls
  OBVIOUS
<1>4. /\ LibraryOk(tab, fs, nd, w) /\ DOMAIN tab.nc \subseteq DOMAIN fs
      /\ \A n \in DOMAIN fs : DOMAIN fs[n] = FileFields
      /\ w.op \in {"create", "enddef", "close"} => w.nc \in DOMAIN fs
      /\ w.op = "close" => w.nc \notin DOMAIN tab.nc
  <2>1. fs = files[s] /\ w = waiting[s] /\ tab = h[Taken(s)]
    BY <1>3
  <2>2. /\ LibraryOk(tab, fs, netcdf[s], w) /\ DOMAIN tab.nc \subseteq DOMAIN fs
        /\ \A n \in DOMAIN fs : DOMAIN fs[n] = FileFields
        /\ w.op \in {"create", "enddef", "close"} => w.nc \in DOMAIN fs
        /\ w.op = "close" => w.nc \notin DOMAIN tab.nc
    BY <2>1, InCall
  <2>3. QED
    BY <1>3, <2>2
<1>5. w.op \in {"create", "enddef", "put_vara", "close"}
  BY <1>3 DEF CollectiveReturns, CreateReturns, EnddefReturns, PutVaraReturns, CloseReturns,
      Together
<1>6. waiting[s].op # "none"
  BY <1>3, <1>5
<1>7. /\ k \in Nat \ {0} /\ w.op = prog[k].op /\ TableOk(tab) /\ Modes(prog, k - 1, tab, fs)
      /\ Flags(fs, nd, w) /\ Numbers(fs, w)
      /\ w.op = "enddef" => w.nc \in DOMAIN tab.nc /\ tab.nc[w.nc].path = prog[k].path
  BY <1>3, <1>6, CallOver
<1>8. ASSUME NEW gs, NEW ne, files'[s] = gs, netcdf'[s] = ne,
             IF w.op = "create" THEN requests'[s] = rq ELSE requests'[s] = Removed(rq, w.key),
             \A j \in {k - 1, k} : (w.op = "create" \/ j = k) => Left(prog, j, tab, fs, gs, ne)
      PROVE  Clean(h, s)'
  BY <1>1, <1>2, <1>3, <1>6, <1>8, CleanReturned
<1>9. CASE CreateReturns
  <2>1. /\ w.op = "create" /\ requests' = requests
        /\ files' = [o \in Servers |-> [files[o] EXCEPT ![waiting[o].nc].nc_id = NewNcId(o)]]
        /\ netcdf' = [o \in Servers |->
             With(netcdf[o], NewNcId(o), [path |-> waiting[o].path, define |-> TRUE, vars |-> << >>])]
    BY <1>3, <1>9 DEF CreateReturns, Together
  <2>2. PICK id : id = NewNcId(s)
    OBVIOUS
  <2>3. id \notin DOMAIN nd
    BY <1>3, <1>4, <2>2, NewNcIdFree DEF LibraryOk
  <2>4. PICK gs, ne : /\ gs = [fs EXCEPT ![w.nc].nc_id = id]
                      /\ ne = With(nd, id, [path |-> w.path, define |-> TRUE, vars |-> << >>])
    OBVIOUS
  <2>5. files'[s] = gs /\ netcdf'[s] = ne /\ requests'[s] = rq
    BY <1>3, <2>1, <2>2, <2>4
  <2>6. w.nc \in DOMAIN fs /\ DOMAIN fs[w.nc] = FileFields
    BY <1>4, <2>1
  <2>7. /\ Flags(gs, ne, Idle) /\ Numbers(gs, Idle)
        /\ \A n \in DOMAIN gs : n \in DOMAIN fs /\ gs[n].defs = fs[n].defs
        /\ \A n \in DOMAIN fs : gs[n].status = fs[n].status
    <3>1. /\ LibraryOk(tab, fs, nd, w) /\ Flags(fs, nd, w) /\ Numbers(fs, w) /\ w.op = "create"
          /\ w.nc \in DOMAIN fs /\ DOMAIN fs[w.nc] = FileFields /\ id \notin DOMAIN nd
      BY <1>4, <1>7, <2>1, <2>3, <2>6
    <3>2. FileCreated(fs, nd, w, id, gs, ne)
      BY <2>4 DEF FileCreated
    <3>3. QED
      BY <3>1, <3>2, CreateFlags
  <2>8. Modes(prog, k, tab, gs) /\ Modes(prog, k - 1, tab, gs)
    BY <1>4, <1>7, <2>1, <2>7, ModesLeft
  <2>9. Left(prog, k, tab, fs, gs, ne) /\ Left(prog, k - 1, tab, fs, gs, ne)
    BY <2>7, <2>8 DEF Left
  <2>10. QED
    BY <1>8, <2>1, <2>5, <2>9
<1>10. CASE EnddefReturns
  <2>1. /\ w.op = "enddef" /\ requests' = [o \in Servers |-> Removed(requests[o], waiting[o].key)]
        /\ files' = [o \in Servers |-> [files[o] EXCEPT ![waiting[o].nc].status = "data"]]
        /\ netcdf' = [o \in Servers |-> [netcdf[o] EXCEPT ![waiting[o].id].define = FALSE]]
    BY <1>3, <1>10 DEF EnddefReturns, Together, RemoveAll
  <2>2. PICK gs, ne : /\ gs = [fs EXCEPT ![w.nc].status = "data"]
                      /\ ne = [nd EXCEPT ![w.id].define = FALSE]
    OBVIOUS
  <2>3. files'[s] = gs /\ netcdf'[s] = ne /\ requests'[s] = Removed(rq, w.key)
    BY <1>3, <2>1, <2>2
  <2>4. w.nc \in DOMAIN fs /\ DOMAIN fs[w.nc] = FileFields
    BY <1>4, <2>1
  <2>5. /\ Flags(gs, ne, Idle) /\ Numbers(gs, Idle)
        /\ \A n \in DOMAIN gs : n \in DOMAIN fs /\ gs[n].defs = fs[n].defs
        /\ DOMAIN gs = DOMAIN fs /\ gs[w.nc].status = "data"
        /\ \A n \in DOMAIN fs : n # w.nc => gs[n].status = fs[n].status
    <3>1. /\ LibraryOk(tab, fs, nd, w) /\ Flags(fs, nd, w) /\ Numbers(fs, w) /\ w.op = "enddef"
          /\ w.nc \in DOMAIN fs /\ DOMAIN fs[w.nc] = FileFields
      BY <1>4, <1>7, <2>1, <2>4
    <3>2. FileEnded(fs, nd, w, gs, ne)
      BY <2>2 DEF FileEnded
    <3>3. QED
      BY <3>1, <3>2, EnddefFlags
  <2>6. Modes(prog, k, tab, gs)
    <3>1. prog[k].op = "enddef" /\ w.nc \in DOMAIN tab.nc /\ tab.nc[w.nc].path = prog[k].path
      BY <1>7, <2>1
    <3>2. \A n \in DOMAIN tab.nc : n # w.nc => gs[n].status = fs[n].status
      BY <1>4, <2>5
    <3>3. QED
      BY <1>7, <2>5, <3>1, <3>2, ModesEnded
  <2>7. Left(prog, k, tab, fs, gs, ne)
    BY <2>5, <2>6 DEF Left
  <2>8. w.op # "create"
    BY <2>1
  <2>9. QED
    BY <1>8, <2>3, <2>7, <2>8
<1>11. CASE PutVaraReturns
  <2>1. /\ w.op = "put_vara" /\ requests' = [o \in Servers |-> Removed(requests[o], waiting[o].key)]
        /\ UNCHANGED <<files, netcdf>>
    BY <1>3, <1>11 DEF PutVaraReturns, Together, RemoveAll
  <2>2. files'[s] = fs /\ netcdf'[s] = nd /\ requests'[s] = Removed(rq, w.key)
    BY <1>3, <2>1
  <2>3. Flags(fs, nd, Idle) /\ Numbers(fs, Idle)
    BY <1>7, <2>1, PutVaraFlags
  <2>4. Modes(prog, k, tab, fs)
    BY <1>7, <2>1, ModesLeft
  <2>5. Left(prog, k, tab, fs, fs, nd)
    BY <2>3, <2>4 DEF Left
  <2>6. w.op # "create"
    BY <2>1
  <2>7. QED
    BY <1>8, <2>2, <2>5, <2>6
<1>12. CASE CloseReturns
  <2>1. /\ w.op = "close" /\ requests' = [o \in Servers |-> Removed(requests[o], waiting[o].key)]
        /\ files' = [o \in Servers |-> Without(files[o], waiting[o].nc)]
        /\ netcdf' = [o \in Servers |-> Without(netcdf[o], waiting[o].id)]
    BY <1>3, <1>12 DEF CloseReturns, Together, RemoveAll, Closed
  <2>2. PICK gs, ne : gs = Without(fs, w.nc) /\ ne = Without(nd, w.id)
    OBVIOUS
  <2>3. files'[s] = gs /\ netcdf'[s] = ne /\ requests'[s] = Removed(rq, w.key)
    BY <1>3, <2>1, <2>2
  <2>4. w.nc \in DOMAIN fs /\ w.nc \notin DOMAIN tab.nc
    BY <1>4, <2>1
  <2>5. /\ Flags(gs, ne, Idle) /\ Numbers(gs, Idle)
        /\ DOMAIN gs = DOMAIN fs \ {w.nc} /\ \A n \in DOMAIN gs : gs[n] = fs[n]
    <3>1. /\ LibraryOk(tab, fs, nd, w) /\ Flags(fs, nd, w) /\ Numbers(fs, w) /\ w.op = "close"
          /\ w.nc \in DOMAIN fs
      BY <1>4, <1>7, <2>1, <2>4
    <3>2. QED
      BY <2>2, <3>1, CloseFlags
  <2>6. \A n \in DOMAIN tab.nc : gs[n].status = fs[n].status
    BY <1>4, <2>4, <2>5
  <2>7. Modes(prog, k, tab, gs)
    BY <1>7, <2>1, <2>6, ModesLeft
  <2>8. Left(prog, k, tab, fs, gs, ne)
    BY <2>5, <2>7 DEF Left
  <2>9. w.op # "create"
    BY <2>1
  <2>10. QED
    BY <1>8, <2>3, <2>8, <2>9
<1>13. QED
  BY <1>9, <1>10, <1>11, <1>12 DEF CollectiveReturns

\* At the start nothing is there.
LEMMA InitClean ==
  ASSUME Init
  PROVE  \E h : AllOpen(h) /\ Orderly(calls) /\ \A s \in Servers : Clean(h, s)
<1>1. PICK h : AllOpen(h)
  BY InitOpens
<1>2. Orderly(calls)
  <2>1. DOMAIN calls = {}
    BY DEF Init
  <2>2. QED
    BY <2>1 DEF Orderly
<1>3. ASSUME NEW s \in Servers PROVE Clean(h, s)
  <2>1. PICK k, tab, fs : k = Taken(s) /\ tab = h[k] /\ fs = files[s]
    OBVIOUS
  <2>2. /\ fs = EmptyFcn /\ waiting[s] = Idle /\ requests[s] = EmptyFcn /\ turn[s] = 1
        /\ Idle.op = "none" /\ DOMAIN EmptyFcn = {}
    BY <2>1 DEF Init, Idle, EmptyFcn
  <2>3. DOMAIN tab.nc \subseteq DOMAIN fs
    BY <1>1, <2>1, InCall
  <2>4. Modes(calls, Done(s), tab, fs)
    BY <2>2, <2>3 DEF Modes
  <2>5. Flags(fs, netcdf[s], Idle) /\ Numbers(fs, Idle)
    BY <2>2 DEF Flags, Numbers
  <2>6. \A call, key : /\ Pending(s, call, key, EmptyFcn, Idle, 1) /\ PartsOf(s, call, key, fs, 1)
                       /\ CallWaits(k, call, tab, Idle)
    BY <2>2 DEF Pending, PartsOf, CallWaits
  <2>7. QED
    BY <2>1, <2>2, <2>4, <2>5, <2>6 DEF Clean
<1>4. QED
  BY <1>1, <1>2, <1>3

(* Inductive for programs without misuse, when no creation fails.            *)
IInvClean == \E h : AllOpen(h) /\ Orderly(calls) /\ \A s \in Servers : Clean(h, s)

\* Nothing is left of a call, whatever is done next.
LEMMA CleanInvariant ==
  ASSUME Misuse = {}, CreateFails = FALSE
  PROVE  Spec => []IInvClean
<1>1. Init => IInvClean
  BY InitClean DEF IInvClean
<1>2. IInvClean /\ [Next]_vars => IInvClean'
  <2>1. SUFFICES ASSUME IInvClean, [Next]_vars
                 PROVE  IInvClean'
    OBVIOUS
  <2>2. PICK h : AllOpen(h) /\ Orderly(calls) /\ \A s \in Servers : Clean(h, s)
    BY <2>1 DEF IInvClean
  <2>3. CASE UNCHANGED vars
    <3>1. AllOpen(h)'
      <4>1. Serves(h)'
        BY <2>2, <2>3, Zenon DEF vars, AllOpen, Serves, Tabled, Round, Taken, Decoded
      <4>2. ASSUME NEW s \in Servers PROVE Opens(h, s)'
        BY <2>2, <2>3, Zenon DEF vars, AllOpen, Opens, Closing, Taken, Decoded
      <4>3. QED
        BY <4>1, <4>2 DEF AllOpen
    <3>2. ASSUME NEW s \in Servers PROVE Clean(h, s)'
      BY <2>2, <2>3, Zenon DEF vars, Clean, Done, Taken, Decoded
    <3>3. Orderly(calls)'
      BY <2>2, <2>3 DEF vars
    <3>4. QED
      BY <3>1, <3>2, <3>3 DEF IInvClean
  <2>4. ASSUME NEW c \in Clients, Client(c) PROVE IInvClean'
    <3>1. PICK g : /\ AllOpen(g)' /\ Longer(h, calls, g, calls')
                   /\ \A s \in Servers : Taken(s)' = Taken(s)
      BY <2>2, <2>4, ClientOpens
    <3>2. UNCHANGED <<turn, files, requests, waiting, netcdf>>
      BY <2>4 DEF Client
    <3>3. Serves(h)
      BY <2>2 DEF AllOpen
    <3>4. Orderly(calls)'
      <4>1. Orderly(calls')
        BY <2>1, <2>2, <2>4, <3>3, ClientOrderly
      <4>2. QED
        BY <4>1 DEF Orderly
    <3>5. ASSUME NEW s \in Servers PROVE Clean(g, s)'
      BY <2>2, <3>1, <3>2, <3>3, ClientClean
    <3>6. QED
      BY <3>1, <3>4, <3>5 DEF IInvClean
  <2>5. ASSUME NEW s \in Servers, Decode(s) PROVE IInvClean'
    <3>1. Serves(h) /\ \A o \in Servers : Opens(h, o)
      BY <2>2 DEF AllOpen
    <3>2. AllOpen(h)'
      <4>1. Serves(h)'
        BY <2>5, <3>1, DecodeServes
      <4>2. \A o \in Servers : Opens(h, o)'
        BY <2>5, <3>1, DecodeOpens, DecodeOthers
      <4>3. QED
        BY <4>1, <4>2 DEF AllOpen
    <3>3. Orderly(calls)'
      <4>1. calls' = calls
        BY <2>5 DEF Decode, clientVars
      <4>2. QED
        BY <2>2, <4>1
    <3>4. ASSUME NEW o \in Servers PROVE Clean(h, o)'
      <4>1. CASE o = s
        BY <2>2, <2>5, <3>1, <4>1, DecodeClean
      <4>2. CASE o # s
        BY <2>2, <2>5, <3>1, <4>2, DecodeCleanOthers
      <4>3. QED
        BY <4>1, <4>2
    <3>5. QED
      BY <3>2, <3>3, <3>4 DEF IInvClean
  <2>6. CASE CollectiveReturns
    <3>1. AllOpen(h)'
      BY <2>1, <2>2, <2>6, ReturnOpens
    <3>2. ASSUME NEW s \in Servers PROVE Clean(h, s)'
      BY <2>1, <2>2, <2>6, ReturnClean
    <3>3. Orderly(calls)'
      <4>1. calls' = calls
        BY <2>6 DEF CollectiveReturns, CreateReturns, EnddefReturns, PutVaraReturns, CloseReturns,
            clientVars
      <4>2. QED
        BY <2>2, <4>1
    <3>4. QED
      BY <3>1, <3>2, <3>3 DEF IInvClean
  <2>7. CASE Terminating
    BY <2>3, <2>7 DEF Terminating
  <2>8. QED
    BY <2>1, <2>3, <2>4, <2>5, <2>6, <2>7 DEF Next
<1>3. QED
  BY <1>1, <1>2, PTL DEF Spec

\* A call all clients have made leaves nothing behind for the next, neither a
\* request in io_table nor a part in recv_data, if programs define in define
\* mode and write in data mode, and every file can be created.
THEOREM RoundsCleanCorrect ==
  Misuse = {} /\ CreateFails = FALSE => (Spec => []RoundsClean)
<1>1. IInvClean => RoundsClean
  <2>1. SUFFICES ASSUME IInvClean, NEW s \in Servers, BetweenRounds(s)
                 PROVE  /\ requests[s] = EmptyFcn
                        /\ \A nc \in DOMAIN files[s] : \A i \in DOMAIN files[s][nc].defs :
                             files[s][nc].defs[i].parts \in {EmptyFcn, NoPart(s)}
    BY DEF RoundsClean, NoPart
  <2>2. PICK h : Clean(h, s)
    BY <2>1 DEF IInvClean
  <2>3. turn[s] = 1 /\ waiting[s].op = "none"
    BY <2>1 DEF BetweenRounds
  <2>4. PICK call, key : /\ Pending(s, call, key, requests[s], waiting[s], turn[s])
                         /\ PartsOf(s, call, key, files[s], turn[s])
    BY <2>2 DEF Clean
  <2>5. QED
    BY <2>3, <2>4 DEF Pending, PartsOf
<1>2. Misuse = {} /\ CreateFails = FALSE => (Spec => []IInvClean)
  BY CleanInvariant
<1>3. QED
  BY <1>1, <1>2, PTL
===============================================================================
