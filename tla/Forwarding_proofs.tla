-------------------------- MODULE Forwarding_proofs --------------------------
(***************************************************************************)
(* Proofs about Forwarding, for every number of clients, all buffer sizes  *)
(* and every set of messages that the assumptions allow.                   *)
(*   First the ring buffer and the types; then the stream: what the server *)
(*   takes from a client is what the client packed, in order, whole and    *)
(*   once.                                                                 *)
(***************************************************************************)
EXTENDS Forwarding, Counting_proofs, FiniteSetTheorems, SequenceTheorems, TLAPS

(* The ring buffer of CfioBuf, of any size. *)

\* free_buf_size answers less than the size of the buffer.
LEMMA FreeBufSizeBound ==
  ASSUME NEW N \in Nat \ {0}, NEW b \in Buffers(N)
  PROVE  FreeBufSize(N, b) \in 0..(N - 1)
BY DEF FreeBufSize, Buffers

\* What use_buf does to the three pointers.
LEMMA UseBufValue ==
  ASSUME NEW N \in Nat \ {0}, NEW b \in Buffers(N), NEW size \in 0..N
  PROVE  UseBuf(N, b, size) =
           IF b.free + size >= N
           THEN [used |-> b.used, free |-> b.free + size - N, end |-> b.free]
           ELSE [used |-> b.used, free |-> b.free + size, end |-> b.end]
<1>1. /\ b.free \in 0..(N - 1) /\ b.used \in 0..(N - 1) /\ b.end \in 0..(N - 1)
      /\ b = [used |-> b.used, free |-> b.free, end |-> b.end]
  BY DEF Buffers
<1>2. CASE b.free + size >= N
  BY <1>2 DEF UseBuf
<1>3. CASE ~(b.free + size >= N)
  <2>1. [b EXCEPT !.free = b.free + size] =
          [used |-> b.used, free |-> b.free + size, end |-> b.end]
    BY <1>1
  <2>2. QED
    BY <1>3, <2>1 DEF UseBuf
<1>4. QED
  BY <1>2, <1>3

\* use_buf keeps the pointers in the buffer.
LEMMA UseBufType ==
  ASSUME NEW N \in Nat \ {0}, NEW b \in Buffers(N), NEW size \in 0..N
  PROVE  UseBuf(N, b, size) \in Buffers(N)
<1>1. b.free \in 0..(N - 1) /\ b.used \in 0..(N - 1) /\ b.end \in 0..(N - 1)
  BY DEF Buffers
<1>2. b.free + size >= N => b.free + size - N \in 0..(N - 1)
  BY <1>1
<1>3. ~(b.free + size >= N) => b.free + size \in 0..(N - 1)
  BY <1>1
<1>4. QED
  BY <1>1, <1>2, <1>3, UseBufValue DEF Buffers

\* cfio_buf_clear keeps the pointers in the buffer.
LEMMA BufClearType ==
  ASSUME NEW N \in Nat \ {0}, NEW b \in Buffers(N)
  PROVE  BufClear(b) \in Buffers(N)
BY DEF BufClear, Buffers

\* free_buf keeps the pointers in the buffer.
LEMMA FreeBufType ==
  ASSUME NEW N \in Nat \ {0}, NEW b \in Buffers(N), NEW size \in 0..N
  PROVE  FreeBuf(N, b, size) \in Buffers(N)
BY DEF FreeBuf, Buffers

\* Giving up the tail keeps the pointers in the buffer.
LEMMA SkipTailType ==
  ASSUME NEW N \in Nat \ {0}, NEW b \in Buffers(N), NEW size \in Nat
  PROVE  SkipTail(N, b, size) \in Buffers(N)
<1>1. LeftSpace(N, b) \in 0..N
  BY DEF LeftSpace, Buffers
<1>2. QED
  BY <1>1, UseBufType DEF SkipTail

\* is_free_space_enough leaves the pointers in the buffer, and says yes only
\* to sizes below the buffer's.
LEMMA SpaceType ==
  ASSUME NEW N \in Nat \ {0}, NEW b \in Buffers(N), NEW size \in Nat
  PROVE  /\ IsFreeSpaceEnough(N, b, size).buf \in Buffers(N)
         /\ IsFreeSpaceEnough(N, b, size).enough \in BOOLEAN
         /\ IsFreeSpaceEnough(N, b, size).enough => size < N
<1>1. SkipTail(N, b, size) \in Buffers(N)
  BY SkipTailType
<1>2. FreeBufSize(N, SkipTail(N, b, size)) \in 0..(N - 1)
  BY <1>1, FreeBufSizeBound
<1> DEFINE s == SkipTail(N, b, size)
           space == IsFreeSpaceEnough(N, b, size)
<1>3. CASE FreeBufSize(N, b) < size
  <2>1. space = [buf |-> b, enough |-> FALSE]
    BY <1>3 DEF IsFreeSpaceEnough
  <2>2. QED
    BY <2>1
<1>4. CASE ~(FreeBufSize(N, b) < size)
  <2>1. space = [buf |-> s, enough |-> FreeBufSize(N, s) >= size]
    BY <1>4 DEF IsFreeSpaceEnough
  <2>2. space.enough = (FreeBufSize(N, s) >= size)
    BY <2>1
  <2>3. space.buf \in Buffers(N)
    BY <1>1, <2>1
  <2>4. space.enough \in BOOLEAN
    BY <2>2
  <2>5. ASSUME space.enough PROVE size < N
    <3>1. FreeBufSize(N, s) >= size
      BY <2>2, <2>5, Zenon
    <3>2. QED
      BY <1>2, <3>1, SMT
  <2>6. QED
    BY <2>3, <2>4, <2>5
<1>5. QED
  BY <1>3, <1>4

\* The free space is what lies between the pointers, less the byte that is
\* always kept unused.
LEMMA FreeBufSizeValue ==
  ASSUME NEW N \in Nat \ {0}, NEW b \in Buffers(N)
  PROVE  FreeBufSize(N, b) = IF b.used > b.free THEN b.used - b.free - 1
                                                ELSE N - 1 - (b.free - b.used)
<1>1. /\ b.free \in 0..(N - 1) /\ b.used \in 0..(N - 1)
  BY DEF Buffers
<1>2. CASE b.used > b.free
  <2>1. /\ N + b.used - b.free - 1 = N * 1 + (b.used - b.free - 1)
        /\ b.used - b.free - 1 \in 0..(N - 1)
    BY <1>1, <1>2
  <2>2. QED
    BY <1>2, <2>1 DEF FreeBufSize
<1>3. CASE ~(b.used > b.free)
  <2>1. N + b.used - b.free - 1 \in 0..(N - 1)
    BY <1>1, <1>3
  <2>2. (N + b.used - b.free - 1) % N = N + b.used - b.free - 1
    BY <2>1
  <2>3. QED
    BY <1>1, <1>3, <2>2 DEF FreeBufSize
<1>4. QED
  BY <1>2, <1>3

\* Giving up the tail of a buffer with enough free space never makes the
\* pointers meet: a buffer that holds something does not turn empty by it, and
\* what is used then runs from used to end and goes on at 0.
THEOREM SkipTailKeepsUsed ==
  ASSUME NEW N \in Nat \ {0}, NEW b \in Buffers(N), NEW size \in Nat,
         FreeBufSize(N, b) >= size, size > LeftSpace(N, b)
  PROVE  /\ b.used <= b.free
         /\ SkipTail(N, b, size) = [used |-> b.used, free |-> 0, end |-> b.free]
         /\ b.used > 1
<1>1. /\ b.free \in 0..(N - 1) /\ b.used \in 0..(N - 1) /\ b.end \in 0..(N - 1)
      /\ b = [used |-> b.used, free |-> b.free, end |-> b.end]
  BY DEF Buffers
<1>2. LeftSpace(N, b) = N - b.free
  BY DEF LeftSpace
<1>3. FreeBufSize(N, b) = IF b.used > b.free THEN b.used - b.free - 1
                                             ELSE N - 1 - (b.free - b.used)
  BY FreeBufSizeValue
<1>4. b.used <= b.free /\ b.used > 1
  BY <1>1, <1>2, <1>3
<1>5. SkipTail(N, b, size) = [used |-> b.used, free |-> 0, end |-> b.free]
  <2>1. /\ LeftSpace(N, b) \in 0..N
        /\ b.free + LeftSpace(N, b) >= N /\ b.free + LeftSpace(N, b) - N = 0
    BY <1>1, <1>2
  <2>2. SkipTail(N, b, size) = UseBuf(N, b, LeftSpace(N, b))
    BY DEF SkipTail
  <2>3. QED
    BY <2>1, <2>2, UseBufValue
<1>6. QED
  BY <1>4, <1>5

\* A buffer all of whose messages are freed takes any message of at most half
\* its size, wherever its pointers stopped: the bound of cfio_msg_get_max_size
\* (msg.c:60-61), which the code computes and never applies.
THEOREM EmptyTakesHalf ==
  ASSUME NEW N \in Nat \ {0}, NEW b \in Buffers(N), NEW size \in Nat,
         BufIsEmpty(b), 2 * size <= N
  PROVE  IsFreeSpaceEnough(N, b, size).enough
<1>1. /\ b.free \in 0..(N - 1) /\ b.used = b.free
  BY DEF Buffers, BufIsEmpty
<1>2. FreeBufSize(N, b) = N - 1 /\ ~(FreeBufSize(N, b) < size)
  BY <1>1, FreeBufSizeValue
<1> DEFINE s == SkipTail(N, b, size)
<1>3. IsFreeSpaceEnough(N, b, size) = [buf |-> s, enough |-> FreeBufSize(N, s) >= size]
  BY <1>2 DEF IsFreeSpaceEnough
<1>4. FreeBufSize(N, s) >= size
  <2>1. CASE size > LeftSpace(N, b)
    <3>1. s = [used |-> b.used, free |-> 0, end |-> b.free]
      BY <1>2, <2>1, SkipTailKeepsUsed
    <3>2. s \in Buffers(N)
      BY SkipTailType
    <3>3. s.used = b.used /\ s.free = 0
      BY <3>1
    <3>4. FreeBufSize(N, s) = IF s.used > s.free THEN s.used - s.free - 1
                                                 ELSE N - 1 - (s.free - s.used)
      BY <3>2, FreeBufSizeValue
    <3>5. b.used > N - size
      BY <1>1, <2>1 DEF LeftSpace
    <3>6. QED
      BY <1>1, <3>3, <3>4, <3>5
  <2>2. CASE ~(size > LeftSpace(N, b))
    BY <1>1, <1>2, <2>2 DEF SkipTail
  <2>3. QED
    BY <2>1, <2>2
<1>5. IsFreeSpaceEnough(N, b, size).enough = (FreeBufSize(N, s) >= size)
  BY <1>3
<1>6. QED
  BY <1>4, <1>5, Zenon

(***************************************************************************)
(* What is used of a buffer as a stream.  The used part is the piece from  *)
(* used to its limit, free or, when it wraps, end, and then the piece from *)
(* 0 to free.  RingOff counts the units of it before an address, so that   *)
(* the tail that was given up does not count.                              *)
(***************************************************************************)
RingWraps(b) == b.free < b.used
RingLim(b) == IF RingWraps(b) THEN b.end ELSE b.free
RingOK(b) == RingWraps(b) => b.used <= b.end

\* The len units from address a on lie in one piece.
RingPiece(b, a, len) ==
  \/ a >= b.used /\ a + len <= RingLim(b)
  \/ 0 <= a /\ a < b.used /\ RingWraps(b) /\ a + len <= b.free

RingOff(b, a) == IF a >= b.used THEN a - b.used ELSE a + b.end - b.used

\* A pointer at the start or the end of a piece, or inside it.
RingPointer(b, a) == \/ a >= b.used /\ a <= RingLim(b)
                     \/ RingWraps(b) /\ 0 <= a /\ a <= b.free

\* An address in the used part is known by its offset.
LEMMA RingOffOne ==
  ASSUME NEW N \in Nat \ {0}, NEW b \in Buffers(N), NEW a \in Int, NEW d \in Int,
         RingPiece(b, a, 1), RingPiece(b, d, 1), RingOff(b, a) = RingOff(b, d)
  PROVE  a = d
BY DEF Buffers, RingPiece, RingOff, RingLim, RingWraps

\* The offset grows with the address inside a piece.
LEMMA RingOffInPiece ==
  ASSUME NEW N \in Nat \ {0}, NEW b \in Buffers(N), NEW a \in Int, NEW len \in Nat,
         RingPiece(b, a, len), NEW k \in 0..(len - 1)
  PROVE  /\ RingPiece(b, a + k, 1) /\ a + k \in 0..(N - 1)
         /\ RingOff(b, a + k) = RingOff(b, a) + k
BY DEF Buffers, RingPiece, RingOff, RingLim, RingWraps

\* What is used ends before free.
LEMMA RingOffBelow ==
  ASSUME NEW N \in Nat \ {0}, NEW b \in Buffers(N), RingOK(b),
         NEW a \in Int, NEW len \in Nat \ {0}, RingPiece(b, a, len)
  PROVE  /\ RingOff(b, a) \in Nat /\ RingOff(b, a) + len <= RingOff(b, b.free)
         /\ a \in 0..(N - 1) /\ a + len <= N
BY DEF Buffers, RingPiece, RingOff, RingLim, RingWraps, RingOK

\* The buffer p is b with more in use: all that was in use keeps its offset,
\* and what is new comes behind it.
RingGrows(b, p) ==
  /\ p.used = b.used
  /\ RingWraps(b) => RingWraps(p) /\ p.end = b.end
  /\ \A a \in Int : \A len \in Nat \ {0} :
       RingPiece(b, a, len) => RingPiece(p, a, len) /\ RingOff(p, a) = RingOff(b, a)
  /\ \A a \in Int :
       RingPointer(b, a) => RingPointer(p, a) /\ RingOff(p, a) = RingOff(b, a)
  /\ \A a \in Int :
       RingPiece(p, a, 1) => RingPiece(b, a, 1) \/ RingOff(p, a) >= RingOff(b, b.free)

\* Packing size more units, with space for them and without reaching the end
\* of the buffer.
LEMMA RingPack ==
  ASSUME NEW N \in Nat \ {0}, NEW b \in Buffers(N), RingOK(b),
         NEW size \in Nat \ {0}, FreeBufSize(N, b) >= size, b.free + size < N,
         NEW p, p = [used |-> b.used, free |-> b.free + size, end |-> b.end]
  PROVE  /\ p \in Buffers(N) /\ RingOK(p) /\ RingGrows(b, p)
         /\ RingPiece(p, b.free, size)
         /\ RingOff(p, b.free) = RingOff(b, b.free)
         /\ RingOff(p, p.free) = RingOff(b, b.free) + size
<1>1. FreeBufSize(N, b) = IF b.used > b.free THEN b.used - b.free - 1
                                             ELSE N - 1 - (b.free - b.used)
  BY FreeBufSizeValue
<1>2. /\ b.used \in 0..(N - 1) /\ b.free \in 0..(N - 1) /\ b.end \in 0..(N - 1)
      /\ p.used = b.used /\ p.free = b.free + size /\ p.end = b.end
  BY DEF Buffers
<1>3. p \in Buffers(N)
  BY <1>2 DEF Buffers
<1>4. RingGrows(b, p)
  BY <1>1, <1>2 DEF RingGrows, RingPiece, RingOff, RingLim, RingWraps, RingOK, RingPointer
<1>5. QED
  BY <1>1, <1>2, <1>3, <1>4 DEF RingPiece, RingOff, RingLim, RingWraps, RingOK

\* ... does not write over what was in use.
LEMMA RingPackApart ==
  ASSUME NEW N \in Nat \ {0}, NEW b \in Buffers(N), RingOK(b),
         NEW size \in Nat \ {0}, FreeBufSize(N, b) >= size, b.free + size < N,
         NEW a \in Int, NEW len \in Nat, RingPiece(b, a, len)
  PROVE  a + len <= b.free \/ a >= b.free + size
<1>1. FreeBufSize(N, b) = IF b.used > b.free THEN b.used - b.free - 1
                                             ELSE N - 1 - (b.free - b.used)
  BY FreeBufSizeValue
<1>2. b.used \in 0..(N - 1) /\ b.free \in 0..(N - 1) /\ b.end \in 0..(N - 1)
  BY DEF Buffers
<1>3. QED
  BY <1>1, <1>2 DEF RingPiece, RingLim, RingWraps, RingOK

\* Giving up the tail: what is used keeps its offsets.
LEMMA RingSkip ==
  ASSUME NEW N \in Nat \ {0}, NEW b \in Buffers(N), b.used <= b.free, b.used > 0,
         NEW p, p = [used |-> b.used, free |-> 0, end |-> b.free]
  PROVE  /\ RingOK(p) /\ RingGrows(b, p)
         /\ RingOff(p, p.free) = RingOff(b, b.free)
<1>1. /\ b.used \in 0..(N - 1) /\ b.free \in 0..(N - 1) /\ b.end \in 0..(N - 1)
      /\ p.used = b.used /\ p.free = 0 /\ p.end = b.free
  BY DEF Buffers
<1>2. QED
  BY <1>1 DEF RingGrows, RingPiece, RingOff, RingLim, RingWraps, RingOK, RingPointer

\* Reclaiming the space up to f: every offset behind f drops by the same amount.
LEMMA RingReclaim ==
  ASSUME NEW N \in Nat \ {0}, NEW b \in Buffers(N), RingOK(b),
         NEW f \in 0..(N - 1), RingPointer(b, f),
         NEW p, p = [used |-> f, free |-> b.free, end |-> b.end]
  PROVE  /\ RingOK(p) /\ RingPointer(p, f) /\ RingOff(p, f) = 0
         /\ RingOff(p, p.free) = RingOff(b, b.free) - RingOff(b, f)
<1>1. /\ b.used \in 0..(N - 1) /\ b.free \in 0..(N - 1) /\ b.end \in 0..(N - 1)
      /\ p.used = f /\ p.free = b.free /\ p.end = b.end
  BY DEF Buffers
<1>2. QED
  BY <1>1 DEF RingOff, RingLim, RingWraps, RingOK, RingPointer

\* Reclaiming keeps what lies between the new used and free where it is.
LEMMA RingReclaimKeeps ==
  ASSUME NEW N \in Nat \ {0}, NEW b \in Buffers(N), RingOK(b),
         NEW f \in 0..(N - 1), RingPointer(b, f),
         NEW p, p = [used |-> f, free |-> b.free, end |-> b.end],
         NEW a \in Int, NEW len \in Nat \ {0},
         RingPiece(b, a, len), RingOff(b, f) <= RingOff(b, a)
  PROVE  /\ RingPiece(p, a, len)
         /\ RingOff(p, a) = RingOff(b, a) - RingOff(b, f)
<1>1. /\ b.used \in 0..(N - 1) /\ b.free \in 0..(N - 1) /\ b.end \in 0..(N - 1)
      /\ p.used = f /\ p.free = b.free /\ p.end = b.end
  BY DEF Buffers
<1>2. QED
  BY <1>1 DEF RingPiece, RingOff, RingLim, RingWraps, RingOK, RingPointer

\* A part of a piece.
LEMMA RingPart ==
  ASSUME NEW N \in Nat \ {0}, NEW b \in Buffers(N), NEW a \in Int, NEW len \in Nat,
         RingPiece(b, a, len), NEW k \in Nat, NEW n \in Nat \ {0}, k + n <= len
  PROVE  RingPiece(b, a + k, n) /\ RingOff(b, a + k) = RingOff(b, a) + k
BY DEF Buffers, RingPiece, RingOff, RingLim, RingWraps

(***************************************************************************)
(* Space that is_free_space_enough grants, and using it.                   *)
(***************************************************************************)
\* Granted space lies behind free, or the tail was given up and it lies at the
\* start, before used.
LEMMA SpaceGranted ==
  ASSUME NEW N \in Nat \ {0}, NEW b \in Buffers(N), NEW size \in Nat \ {0},
         NEW s, s = IsFreeSpaceEnough(N, b, size).buf,
         IsFreeSpaceEnough(N, b, size).enough
  PROVE  /\ s \in Buffers(N) /\ s.used = b.used
         /\ size <= FreeBufSize(N, s) /\ FreeBufSize(N, s) <= FreeBufSize(N, b)
         /\ \/ s.free = b.free /\ b.free + size <= N
            \/ s.free = 0 /\ b.used <= b.free /\ b.used > size
<1>1. /\ b.free \in 0..(N - 1) /\ b.used \in 0..(N - 1) /\ b.end \in 0..(N - 1)
  BY DEF Buffers
<1>2. FreeBufSize(N, b) \in 0..(N - 1)
  BY FreeBufSizeBound
<1>3. CASE FreeBufSize(N, b) < size
  <2>1. IsFreeSpaceEnough(N, b, size) = [buf |-> b, enough |-> FALSE]
    BY <1>3 DEF IsFreeSpaceEnough
  <2>2. IsFreeSpaceEnough(N, b, size).enough = FALSE
    BY <2>1
  <2>3. QED
    BY <2>2
<1>4. CASE ~(FreeBufSize(N, b) < size)
  <2>1. IsFreeSpaceEnough(N, b, size) =
          [buf |-> SkipTail(N, b, size),
           enough |-> FreeBufSize(N, SkipTail(N, b, size)) >= size]
    BY <1>4 DEF IsFreeSpaceEnough
  <2>2. s = SkipTail(N, b, size) /\ FreeBufSize(N, s) >= size
    <3> DEFINE k == SkipTail(N, b, size)
    <3>1. [buf |-> k, enough |-> FreeBufSize(N, k) >= size].buf = k
      OBVIOUS
    <3>2. [buf |-> k, enough |-> FreeBufSize(N, k) >= size].enough
            = (FreeBufSize(N, k) >= size)
      OBVIOUS
    <3> HIDE DEF k
    <3>3. QED
      BY <2>1, <3>1, <3>2, Zenon DEF k
  <2>3. CASE size > LeftSpace(N, b)
    <3>1. s = [used |-> b.used, free |-> 0, end |-> b.free] /\ b.used <= b.free
          /\ b.used > 1
      BY <1>2, <1>4, <2>2, <2>3, SkipTailKeepsUsed
    <3>2. s \in Buffers(N) /\ s.used = b.used /\ s.free = 0
      BY <1>1, <3>1 DEF Buffers
    <3>3. FreeBufSize(N, s) = b.used - 1
      <4>1. FreeBufSize(N, s) = IF s.used > s.free THEN s.used - s.free - 1
                                                   ELSE N - 1 - (s.free - s.used)
        BY <3>2, FreeBufSizeValue
      <4>2. QED
        BY <1>1, <3>1, <3>2, <4>1
    <3>4. FreeBufSize(N, b) = N - 1 - (b.free - b.used)
      BY <1>1, <3>1, FreeBufSizeValue
    <3>5. QED
      BY <1>1, <2>2, <3>1, <3>2, <3>3, <3>4
  <2>4. CASE ~(size > LeftSpace(N, b))
    <3>1. s = b
      BY <2>2, <2>4 DEF SkipTail
    <3>2. b.free + size <= N
      BY <1>1, <2>4 DEF LeftSpace
    <3>3. QED
      BY <1>2, <2>2, <3>1, <3>2
  <2>5. QED
    BY <2>3, <2>4
<1>5. QED
  BY <1>3, <1>4

\* Using it: the free space shrinks by as much, and free stops at the end of
\* what was used, which is the start of the buffer when its end was reached.
LEMMA SpaceUsed ==
  ASSUME NEW N \in Nat \ {0}, NEW s \in Buffers(N), NEW size \in Nat \ {0},
         size <= FreeBufSize(N, s), s.free + size <= N,
         NEW u, u = UseBuf(N, s, size)
  PROVE  /\ u \in Buffers(N) /\ u.used = s.used
         /\ u.free = IF s.free + size = N THEN 0 ELSE s.free + size
         /\ u.used # u.free
         /\ FreeBufSize(N, u) = FreeBufSize(N, s) - size
<1>1. /\ s.free \in 0..(N - 1) /\ s.used \in 0..(N - 1) /\ s.end \in 0..(N - 1)
      /\ size \in 0..N
  BY DEF Buffers
<1>2. u \in Buffers(N)
  BY <1>1, UseBufType
<1>3. u.used = s.used /\ u.free = IF s.free + size = N THEN 0 ELSE s.free + size
  <2>1. u = IF s.free + size >= N
            THEN [used |-> s.used, free |-> s.free + size - N, end |-> s.free]
            ELSE [used |-> s.used, free |-> s.free + size, end |-> s.end]
    BY <1>1, UseBufValue
  <2>2. QED
    BY <1>1, <2>1
<1>4. /\ FreeBufSize(N, u) = IF u.used > u.free THEN u.used - u.free - 1
                                                ELSE N - 1 - (u.free - u.used)
      /\ FreeBufSize(N, s) = IF s.used > s.free THEN s.used - s.free - 1
                                                ELSE N - 1 - (s.free - s.used)
  BY <1>2, FreeBufSizeValue
<1>5. u.used # u.free /\ FreeBufSize(N, u) = FreeBufSize(N, s) - size
  BY <1>1, <1>3, <1>4
<1>6. QED
  BY <1>2, <1>3, <1>5

\* How far an address lies behind used, around the buffer.
RingPos(N, b, a) == IF a >= b.used THEN a - b.used ELSE a - b.used + N

\* Space that is granted and used lies behind what was in use, and ends where
\* free is then.
LEMMA SpaceBehind ==
  ASSUME NEW N \in Nat \ {0}, NEW b \in Buffers(N), NEW size \in Nat \ {0},
         NEW s, s = IsFreeSpaceEnough(N, b, size).buf,
         IsFreeSpaceEnough(N, b, size).enough,
         NEW u, u = UseBuf(N, s, size)
  PROVE  /\ s \in Buffers(N) /\ u \in Buffers(N) /\ u.used = b.used
         /\ u.used # u.free /\ s.free + size <= N
         /\ RingPos(N, b, b.free) <= RingPos(N, b, s.free)
         /\ RingPos(N, b, s.free) + size = RingPos(N, b, u.free)
<1>1. /\ s \in Buffers(N) /\ s.used = b.used
      /\ size <= FreeBufSize(N, s)
      /\ \/ s.free = b.free /\ b.free + size <= N
         \/ s.free = 0 /\ b.used <= b.free /\ b.used > size
  BY SpaceGranted
<1>2. /\ b.used \in 0..(N - 1) /\ b.free \in 0..(N - 1)
      /\ s.used \in 0..(N - 1) /\ s.free \in 0..(N - 1)
  BY <1>1 DEF Buffers
<1>3. s.free + size <= N
  BY <1>1, <1>2
<1>4. /\ u \in Buffers(N) /\ u.used = s.used
      /\ u.free = IF s.free + size = N THEN 0 ELSE s.free + size
      /\ u.used # u.free
  BY <1>1, <1>3, SpaceUsed
<1>5. FreeBufSize(N, s) = IF s.used > s.free THEN s.used - s.free - 1
                                             ELSE N - 1 - (s.free - s.used)
  BY <1>1, FreeBufSizeValue
<1>6. RingPos(N, b, b.free) <= RingPos(N, b, s.free)
  BY <1>1, <1>2 DEF RingPos
<1>7. RingPos(N, b, s.free) + size = RingPos(N, b, u.free)
  BY <1>1, <1>2, <1>3, <1>4, <1>5 DEF RingPos
<1>8. QED
  BY <1>1, <1>3, <1>4, <1>6, <1>7

\* When space is refused the buffer is as it was, or its tail is given up and
\* what was in use stays before free.
LEMMA SpaceRefused ==
  ASSUME NEW N \in Nat \ {0}, NEW b \in Buffers(N), NEW size \in Nat \ {0},
         NEW s, s = IsFreeSpaceEnough(N, b, size).buf
  PROVE  /\ s \in Buffers(N) /\ s.used = b.used
         /\ RingPos(N, b, b.free) <= RingPos(N, b, s.free)
         /\ b.used # b.free => s.used # s.free
<1>1. /\ b.used \in 0..(N - 1) /\ b.free \in 0..(N - 1) /\ b.end \in 0..(N - 1)
  BY DEF Buffers
<1>2. CASE s = b
  BY <1>1, <1>2 DEF RingPos
<1>3. CASE s # b
  <2>1. /\ ~(FreeBufSize(N, b) < size) /\ size > LeftSpace(N, b)
        /\ s = UseBuf(N, b, LeftSpace(N, b))
    BY <1>3 DEF IsFreeSpaceEnough, SkipTail
  <2>2. FreeBufSize(N, b) = IF b.used > b.free THEN b.used - b.free - 1
                                               ELSE N - 1 - (b.free - b.used)
    BY FreeBufSizeValue
  <2>3. LeftSpace(N, b) = N - b.free
    BY DEF LeftSpace
  <2>4. b.used > 0 /\ b.used <= b.free
    BY <1>1, <2>1, <2>2, <2>3
  <2>5. /\ s = [used |-> b.used, free |-> 0, end |-> b.free]
    <3>1. b.free + (N - b.free) >= N /\ b.free + (N - b.free) - N = 0
      BY <1>1
    <3>2. QED
      BY <2>1, <2>3, <3>1 DEF UseBuf
  <2>6. s.used = b.used /\ s.free = 0
    BY <2>5
  <2>7. s \in Buffers(N)
    BY <1>1, <2>5 DEF Buffers
  <2>8. QED
    BY <1>1, <2>4, <2>6, <2>7 DEF RingPos
<1>4. QED
  BY <1>2, <1>3

\* Freeing from the start of a part of the used space to its end.
LEMMA SpaceFreed ==
  ASSUME NEW N \in Nat \ {0}, NEW b \in Buffers(N),
         NEW addr \in 0..(N - 1), NEW size \in Nat \ {0}, addr + size <= N,
         NEW f, f = FreeBuf(N, [b EXCEPT !.used = addr], size)
  PROVE  /\ f \in Buffers(N) /\ f.free = b.free
         /\ \A a \in 0..(N - 1) :
              /\ RingPos(N, b, addr) + size <= RingPos(N, b, a)
                   => RingPos(N, f, a) = RingPos(N, b, a) - RingPos(N, b, addr) - size
              /\ a = f.used /\ RingPos(N, b, addr) + size <= RingPos(N, b, a)
                   => RingPos(N, b, a) = RingPos(N, b, addr) + size
<1>1. /\ b.used \in 0..(N - 1) /\ b.free \in 0..(N - 1) /\ b.end \in 0..(N - 1)
      /\ b = [used |-> b.used, free |-> b.free, end |-> b.end]
  BY DEF Buffers
<1>2. f = [used |-> IF addr + size = N THEN 0 ELSE addr + size,
           free |-> b.free, end |-> b.end]
  <2>1. [b EXCEPT !.used = addr] = [used |-> addr, free |-> b.free, end |-> b.end]
    BY <1>1
  <2>2. CASE addr + size = N
    <3>1. addr + size >= N /\ addr + size - N = 0
      BY <2>2
    <3>2. QED
      BY <2>1, <2>2, <3>1 DEF FreeBuf
  <2>3. CASE addr + size # N
    <3>1. ~(addr + size >= N)
      BY <2>3
    <3>2. QED
      BY <2>1, <2>3, <3>1 DEF FreeBuf
  <2>4. QED
    BY <2>2, <2>3
<1>3. PICK v \in 0..(N - 1) : v = IF addr + size = N THEN 0 ELSE addr + size
  OBVIOUS
<1>4. f.used = v /\ f.free = b.free /\ f \in Buffers(N)
  BY <1>1, <1>2, <1>3 DEF Buffers
<1>5. ASSUME NEW a \in 0..(N - 1), RingPos(N, b, addr) + size <= RingPos(N, b, a)
      PROVE  /\ RingPos(N, f, a) = RingPos(N, b, a) - RingPos(N, b, addr) - size
             /\ a = v => RingPos(N, b, a) = RingPos(N, b, addr) + size
  BY <1>1, <1>3, <1>4, <1>5 DEF RingPos
<1>6. QED
  BY <1>4, <1>5

\* What lies between used and free is in the used part.
LEMMA RingPosInside ==
  ASSUME NEW N \in Nat \ {0}, NEW b \in Buffers(N), b.used # b.free,
         NEW a \in 0..(N - 1), NEW z \in Nat \ {0},
         RingPos(N, b, a) + z <= RingPos(N, b, b.free)
  PROVE  CheckUsedAddr(b, a)
<1>1. b.used \in 0..(N - 1) /\ b.free \in 0..(N - 1)
  BY DEF Buffers
<1>2. QED
  BY <1>1 DEF RingPos, CheckUsedAddr

\* Two parts of it, one behind the other, are apart.
LEMMA RingPosApart ==
  ASSUME NEW N \in Nat \ {0}, NEW b \in Buffers(N),
         NEW a \in 0..(N - 1), NEW z \in Nat \ {0},
         NEW d \in 0..(N - 1), NEW w \in Nat \ {0}, d + w <= N,
         RingPos(N, b, a) + z <= RingPos(N, b, d),
         RingPos(N, b, d) + w <= RingPos(N, b, b.free)
  PROVE  a + z <= d \/ d + w <= a
<1>1. b.used \in 0..(N - 1) /\ b.free \in 0..(N - 1)
  BY DEF Buffers
<1>2. QED
  BY <1>1 DEF RingPos

-------------------------------------------------------------------------------
(* Sequences *)

\* A function on 1..n is a sequence, the empty one when n < 1.
LEMMA IntervalIsSeq ==
  ASSUME NEW S, NEW n \in Int, NEW f \in [1..n -> S]
  PROVE  f \in Seq(S) /\ Len(f) \in Nat
<1>1. CASE n \in Nat
  BY <1>1, SeqDef, LenProperties
<1>2. CASE n \notin Nat
  <2>1. 1..n = 1..0
    BY <1>2
  <2>2. f \in [1..0 -> S]
    BY <2>1
  <2>3. QED
    BY <2>2, SeqDef, LenProperties
<1>3. QED
  BY <1>1, <1>2

(* Types *)

\* The pointers a client publishes are those of its buffer.
LEMMA AddrInitType ==
  ASSUME NEW b \in Buffers(SendBufSize), NEW signal \in {0, 1, 11}
  PROVE  AddrInit(b, signal) \in Addrs
BY DEF AddrInit, Addrs, Buffers

\* An address whose signal is set is an address.
LEMMA SignalType ==
  ASSUME NEW T, NEW a \in [T -> Addrs], NEW t \in T, NEW signal \in {0, 1, 11}
  PROVE  [a EXCEPT ![t].signal = signal] \in [T -> Addrs]
<1>1. [a[t] EXCEPT !.signal = signal] \in Addrs
  <2>1. a[t] \in Addrs
    OBVIOUS
  <2>2. QED
    BY <2>1 DEF Addrs
<1>2. [a EXCEPT ![t].signal = signal] = [a EXCEPT ![t] = [a[t] EXCEPT !.signal = signal]]
  OBVIOUS
<1>3. QED
  BY <1>1, <1>2

\* Reclaiming space keeps the pointers in the buffer.
LEMMA ReclaimedType ==
  ASSUME TypeOK, NEW c \in Clients
  PROVE  Reclaimed(c) \in Buffers(SendBufSize)
<1>1. cbuf[c] \in Buffers(SendBufSize) /\ caddr[c].free \in 0..(SendBufSize - 1)
  BY DEF TypeOK, Addrs
<1>2. QED
  BY <1>1 DEF Reclaimed, Buffers

\* The calls the application makes keep the types.
LEMMA ApplicationType ==
  ASSUME TypeOK, NEW c \in Clients, Application(c)
  PROVE  TypeOK'
<1>1. ASSUME NEW m \in Msgs, Call(c, m) PROVE TypeOK'
  BY <1>1 DEF TypeOK, Call, Application, readVars, listVars, waitVars, reqVars
<1>2. Reclaimed(c) \in Buffers(SendBufSize) /\ AddrInit(Reclaimed(c), 1) \in Addrs
  BY AddrInitType, ReclaimedType
<1>3. CASE IoEnd(c)
  BY <1>2, <1>3
  DEF TypeOK, IoEnd, Publish, Application, readVars, listVars, waitVars, reqVars
<1>4. CASE Finalize(c)
  BY <1>2, <1>4
  DEF TypeOK, Finalize, Publish, Application, readVars, listVars, waitVars, reqVars
<1>5. QED
  BY <1>1, <1>3, <1>4 DEF Application

\* The steps of a call keep the types.
LEMMA InCallType ==
  ASSUME TypeOK, NEW c \in Clients, InCall(c)
  PROVE  TypeOK'
<1>0. /\ cbuf[c] \in Buffers(SendBufSize) /\ want[c] \in Msgs
      /\ want[c].size \in Nat /\ want[c].last \in Nat
      /\ want[c].last <= want[c].size
      /\ SendBufSize \in Nat \ {0}
  <2>1. cbuf[c] \in Buffers(SendBufSize) /\ want[c] \in Msgs
    BY DEF TypeOK
  <2>2. HdrSize \in Nat /\ SendBufSize \in Nat \ {0}
    BY SizesAssumption
  <2>3. /\ want[c].size \in Nat /\ want[c].last \in Nat
        /\ HdrSize + want[c].last <= want[c].size
    BY <2>1, MsgsAssumption
  <2>4. QED
    BY <2>1, <2>2, <2>3
<1>1. Reclaimed(c) \in Buffers(SendBufSize) /\ AddrInit(Reclaimed(c), 0) \in Addrs
  BY AddrInitType, ReclaimedType
<1>2. CASE EnsureSkip(c)
  <2>1. SkipTail(SendBufSize, cbuf[c], want[c].size) \in Buffers(SendBufSize)
    BY <1>0, SkipTailType
  <2>2. QED
    BY <1>2, <2>1
    DEF TypeOK, EnsureSkip, InCall, readVars, listVars, waitVars, reqVars
<1>3. CASE Pack(c)
  <2> DEFINE n == Len(sent[c]) + 1
             b == cbuf[c]
             mem == [i \in 0..(SendBufSize - 1) |->
                       IF i >= b.free /\ i < b.free + want[c].size
                       THEN <<n, i - b.free + 1>> ELSE cmem[c][i]]
             packed == UseBuf(SendBufSize, b, want[c].size - want[c].last)
  <2>1. b.free \in 0..(SendBufSize - 1) /\ want[c].size <= SendBufSize
    BY <1>0, <1>3 DEF Pack, LeftSpace, Buffers
  <2>2. UseBuf(SendBufSize, packed, want[c].last) \in Buffers(SendBufSize)
    <3>1. packed \in Buffers(SendBufSize)
      BY <1>0, <2>1, UseBufType
    <3>2. QED
      BY <1>0, <2>1, <3>1, UseBufType
  <2>3. mem \in [0..(SendBufSize - 1) -> Unit]
    <3>1. n \in Nat
      BY DEF TypeOK
    <3>2. ASSUME NEW i \in 0..(SendBufSize - 1), i >= b.free
          PROVE  <<n, i - b.free + 1>> \in Unit
      BY <2>1, <3>1, <3>2 DEF Unit
    <3>3. cmem[c] \in [0..(SendBufSize - 1) -> Unit]
      BY DEF TypeOK
    <3>4. QED
      BY <3>2, <3>3
  <2>4. Append(sent[c], [size |-> want[c].size, at |-> b.free])
          \in Seq([size : Nat, at : 0..(SendBufSize - 1)])
    <3>1. sent[c] \in Seq([size : Nat, at : 0..(SendBufSize - 1)])
      BY DEF TypeOK
    <3>2. [size |-> want[c].size, at |-> b.free] \in [size : Nat, at : 0..(SendBufSize - 1)]
      BY <1>0, <2>1
    <3>3. QED
      BY <3>1, <3>2, AppendProperties
  <2>5. QED
    BY <1>3, <2>2, <2>3, <2>4
    DEF TypeOK, Pack, InCall, readVars, listVars, waitVars, reqVars
<1>4. CASE BufFreeReclaim(c)
  BY <1>1, <1>4
  DEF TypeOK, BufFreeReclaim, InCall, readVars, listVars, waitVars, reqVars
<1>5. CASE BufFreePublish(c)
  <2>1. AddrInit(cbuf[c], 1) \in Addrs
    BY <1>0, AddrInitType
  <2>2. QED
    BY <1>5, <2>1
    DEF TypeOK, BufFreePublish, Publish, InCall, readVars, listVars, waitVars, reqVars
<1>6. CASE BufFreeReturn(c)
  BY <1>1, <1>6
  DEF TypeOK, BufFreeReturn, InCall, readVars, listVars, waitVars, reqVars
<1>7. CASE IoEndReturn(c)
  BY <1>7 DEF TypeOK, IoEndReturn, InCall, readVars, listVars, waitVars, reqVars
<1>8. CASE IoDone(c)
  <2>1. caddr' \in [Clients -> Addrs]
    <3>1. caddr \in [Clients -> Addrs]
      BY DEF TypeOK
    <3>2. caddr' = [caddr EXCEPT ![c].signal = 11]
      BY <1>8 DEF IoDone
    <3>3. QED
      BY <3>1, <3>2, SignalType
  <2>2. QED
    BY <1>8, <2>1 DEF TypeOK, IoDone, InCall, readVars, listVars, waitVars, reqVars
<1>9. CASE SendFinal(c)
  BY <1>9 DEF TypeOK, SendFinal, InCall, readVars, listVars, waitVars, reqVars
<1>10. QED
  BY <1>2, <1>3, <1>4, <1>5, <1>6, <1>7, <1>8, <1>9 DEF InCall

\* The requests the NIC carries out keep the types.
LEMMA NicType ==
  ASSUME TypeOK, NEW c \in Clients, AddrLands(c) \/ ReadLands(c) \/ AckLands(c)
  PROVE  TypeOK'
<1>1. CASE AddrLands(c)
  BY <1>1 DEF TypeOK, AddrLands, listVars, waitVars, reqVars
<1>2. CASE ReadLands(c)
  <2> DEFINE r == Head(reads[c])
             From(i) == r.from + i - 1 - r.to
             new == [i \in 1..Len(region[c]) |->
                       IF i - r.to \in 1..r.len /\ From(i) \in 0..(SendBufSize - 1)
                       THEN cmem[c][From(i)] ELSE region[c][i]]
  <2>1. new \in Seq(Unit)
    <3>1. region[c] \in Seq(Unit) /\ cmem[c] \in [0..(SendBufSize - 1) -> Unit]
      BY DEF TypeOK
    <3>2. Len(region[c]) \in Int /\ \A i \in 1..Len(region[c]) : region[c][i] \in Unit
      BY <3>1, LenProperties, ElementOfSeq
    <3>3. new \in [1..Len(region[c]) -> Unit]
      BY <3>1, <3>2
    <3>4. QED
      BY <3>2, <3>3, IntervalIsSeq
  <2>2. Tail(reads[c]) \in Seq(ReadOps)
    BY <1>2 DEF TypeOK, ReadLands
  <2>3. region' = [region EXCEPT ![c] = new] /\ reads' = [reads EXCEPT ![c] = Tail(@)]
    BY <1>2 DEF ReadLands
  <2>4. region' \in [Clients -> Seq(Unit)] /\ reads' \in [Clients -> Seq(ReadOps)]
    BY <2>1, <2>2, <2>3 DEF TypeOK
  <2>5. cq' \in [Clients -> Nat]
    BY SMTT(30), <1>2 DEF TypeOK, ReadLands
  <2>6. UNCHANGED <<clientVars, saddr, readAddr, readDone, listVars, waitVars,
                    ackPosted, rest, rss, spc, clt, commDone>>
    BY <1>2 DEF ReadLands
  <2>7. QED
    BY <2>4, <2>5, <2>6 DEF TypeOK, clientVars, listVars, waitVars
<1>3. CASE AckLands(c)
  <2>1. cq' \in [Clients -> Nat] /\ caddr' \in [Clients -> Addrs]
        /\ ackPosted' \in [Clients -> BOOLEAN]
    BY SMTT(30), <1>3 DEF TypeOK, AckLands
  <2>2. UNCHANGED <<cpc, want, cbuf, cmem, cposted, sent, readVars, listVars,
                    waitVars, reads, rest, rss, spc, clt, commDone>>
    BY <1>3 DEF AckLands
  <2>3. QED
    BY <2>1, <2>2 DEF TypeOK, readVars, listVars, waitVars
<1>4. QED
  BY <1>1, <1>2, <1>3

\* Which client is next and which requests are done: the steps that only move
\* the server on keep the types.
LEMMA ServerMoveType ==
  ASSUME TypeOK,
         \/ WaitSome \/ Drained \/ SkipRead \/ TestRead \/ Decoded \/ ServerExit
         \/ \E c \in Clients : PickClient(c)
  PROVE  TypeOK'
<1>1. CASE WaitSome
  BY <1>1 DEF TypeOK, WaitSome, clientVars, readVars, listVars, waitVars, reqVars
<1>2. CASE Drained
  <2>1. prevRss' \in Int /\ prevChanged' \in BOOLEAN /\ spc' = "pick"
    BY <1>2 DEF TypeOK, Drained
  <2>2. QED
    BY <1>2, <2>1 DEF TypeOK, Drained, clientVars, readVars, listVars, reqVars
<1>3. CASE SkipRead
  BY <1>3 DEF TypeOK, SkipRead, clientVars, readVars, listVars, waitVars, reqVars
<1>4. CASE TestRead
  BY <1>4 DEF TypeOK, TestRead, clientVars, readVars, listVars, waitVars, reqVars
<1>5. CASE Decoded
  BY <1>5 DEF TypeOK, Decoded, clientVars, readVars, listVars, waitVars, reqVars
<1>6. CASE ServerExit
  BY <1>6 DEF TypeOK, ServerExit, clientVars, readVars, listVars, waitVars, reqVars
<1>7. ASSUME NEW c \in Clients, PickClient(c) PROVE TypeOK'
  <2>1. saddr[c].used \in Int
    BY DEF TypeOK, Addrs
  <2>2. /\ readAddr' \in [Clients -> Int] /\ readDone' \in [Clients -> BOOLEAN]
        /\ commDone' \in [Clients -> BOOLEAN]
    BY <1>7, <2>1 DEF TypeOK, PickClient
  <2>3. /\ clt' \in Clients /\ spc' \in {"read", "loop"}
        /\ UNCHANGED <<clientVars, saddr, region, listVars, waitVars, reqVars>>
    BY <1>7 DEF PickClient
  <2>4. QED
    BY <2>2, <2>3 DEF TypeOK, clientVars, listVars, waitVars, reqVars
<1>8. QED
  BY <1>1, <1>2, <1>3, <1>4, <1>5, <1>6, <1>7

\* Polling a completion keeps the types.
LEMMA PollType ==
  ASSUME TypeOK, NEW c \in Clients, Poll(c)
  PROVE  TypeOK'
<1>0. /\ cq \in [Clients -> Nat] /\ rest \in [Clients -> Nat]
      /\ rss \in Int /\ cq[c] > 0
      /\ cq' = [cq EXCEPT ![c] = cq[c] - 1]
      /\ rest' = [rest EXCEPT ![c] = IF rest[c] > 0 THEN rest[c] - 1 ELSE rest[c]]
      /\ rss' = rss - 1
  BY Zenon DEF TypeOK, Poll
<1>1. cq' \in [Clients -> Nat]
  BY <1>0
<1>2. rest' \in [Clients -> Nat] /\ rss' \in Int
  BY <1>0
<1>3. UNCHANGED <<clientVars, readVars, listVars, waitVars, reads, ackPosted,
                  spc, clt, commDone>>
  BY DEF Poll
<1>4. QED
  BY <1>1, <1>2, <1>3 DEF TypeOK, clientVars, readVars, listVars, waitVars

\* The requests of one _read_data are a sequence.
LEMMA ChunksType ==
  ASSUME NEW from \in Int, NEW len \in Int, NEW to \in Int
  PROVE  Chunks(from, len, to) \in Seq(ReadOps) /\ Len(Chunks(from, len, to)) \in Nat
<1>1. ChunkSize \in Nat \ {0}
  BY SizesAssumption
<1>2. (len + ChunkSize - 1) \div ChunkSize \in Int
  BY <1>1
<1>3. ASSUME NEW i \in Int
      PROVE  [from |-> from + (i - 1) * ChunkSize,
              to   |-> to + (i - 1) * ChunkSize,
              len  |-> Least(ChunkSize, len - (i - 1) * ChunkSize)] \in ReadOps
  <2>1. (i - 1) * ChunkSize \in Int
    BY <1>1
  <2>2. QED
    BY <1>1, <2>1 DEF ReadOps, Least
<1>4. Chunks(from, len, to)
        \in [1..((len + ChunkSize - 1) \div ChunkSize) -> ReadOps]
  BY <1>2, <1>3 DEF Chunks
<1>5. QED
  BY <1>2, <1>4, IntervalIsSeq

\* _read_data keeps the types.
LEMMA ReadDataType ==
  ASSUME TypeOK, ReadData
  PROVE  TypeOK'
<1> DEFINE c     == clt
           a     == saddr[c]
           last  == a.used <= a.free \/ readAddr[c] <= a.free
           limit == IF last THEN a.free ELSE a.end
           len   == Least(limit - readAddr[c], RegionSize - Len(region[c]))
           next  == readAddr[c] + len
           ops   == Chunks(readAddr[c], len, Len(region[c]))
<1>1. /\ c \in Clients /\ a \in Addrs /\ readAddr[c] \in Int
      /\ region[c] \in Seq(Unit) /\ RegionSize \in Nat
  BY SizesAssumption DEF TypeOK
<1>2. Len(region[c]) \in Nat /\ limit \in Int
  BY <1>1, LenProperties DEF Addrs
<1>3. len \in Int /\ next \in Int
  <2>1. len \in Int
    BY <1>1, <1>2 DEF Least
  <2>2. QED
    BY <1>1, <2>1
<1>4. ops \in Seq(ReadOps) /\ Len(ops) \in Nat
  <2> HIDE DEF len
  <2>1. len \in Int /\ readAddr[c] \in Int /\ Len(region[c]) \in Int
    BY <1>1, <1>2, <1>3
  <2>2. QED
    BY <2>1, ChunksType
<1>5. region[c] \o [i \in 1..len |-> Stale] \in Seq(Unit)
  <2>1. [i \in 1..len |-> Stale] \in [1..len -> Unit]
    BY DEF Stale, Unit
  <2>2. [i \in 1..len |-> Stale] \in Seq(Unit)
    BY <1>3, <2>1, IntervalIsSeq
  <2>3. QED
    BY <1>1, <2>2, ConcatProperties
<1>6. reads[c] \o ops \in Seq(ReadOps)
  <2>1. reads[c] \in Seq(ReadOps)
    BY <1>1 DEF TypeOK
  <2>2. QED
    BY <1>4, <2>1, ConcatProperties
<1>7. /\ readDone' = [readDone EXCEPT ![c] = last /\ next >= limit]
      /\ readAddr' = [readAddr EXCEPT ![c] =
                        IF ~last /\ next >= limit THEN 0 ELSE next]
      /\ region' = [region EXCEPT ![c] = region[c] \o [i \in 1..len |-> Stale]]
      /\ reads' = [reads EXCEPT ![c] = reads[c] \o ops]
      /\ rest' = [rest EXCEPT ![c] = rest[c] + Len(ops)]
      /\ rss' = rss + Len(ops)
      /\ spc' = "test"
  BY Zenon DEF ReadData
<1>8. UNCHANGED <<clientVars, saddr, listVars, waitVars, ackPosted, cq, clt, commDone>>
  BY DEF ReadData
<1> HIDE DEF len, next, limit, last, ops, a, c
<1>9. readAddr' \in [Clients -> Int]
  BY <1>1, <1>3, <1>7 DEF TypeOK
<1>10. readDone' \in [Clients -> BOOLEAN]
  <2>1. (last /\ next >= limit) \in BOOLEAN
    BY Zenon
  <2>2. QED
    BY <1>7, <2>1, Zenon DEF TypeOK
<1>11. region' \in [Clients -> Seq(Unit)] /\ reads' \in [Clients -> Seq(ReadOps)]
  BY <1>5, <1>6, <1>7 DEF TypeOK
<1>12. rest' \in [Clients -> Nat] /\ rss' \in Int
  <2>1. rest \in [Clients -> Nat] /\ rss \in Int
    BY DEF TypeOK
  <2>2. rest[c] + Len(ops) \in Nat
    BY <1>1, <1>4, <2>1
  <2>3. /\ rest' = [rest EXCEPT ![c] = rest[c] + Len(ops)]
        /\ rss' = rss + Len(ops)
    BY <1>7
  <2>4. rss' \in Int
    BY <1>4, <2>1, <2>3
  <2>5. rest' \in [Clients -> Nat]
    BY <2>1, <2>2, <2>3, Zenon
  <2>6. QED
    BY <2>4, <2>5
<1>13. QED
  BY <1>7, <1>8, <1>9, <1>10, <1>11, <1>12 DEF TypeOK, clientVars, listVars, waitVars

\* A message read from the head of a region has one of the sizes sent.
LEMMA MsgSizeType ==
  ASSUME TypeOK, NEW c \in Clients, AtHeader(c)
  PROVE  MsgSize(c) \in Nat
<1>1. PICK n \in 1..Len(sent[c]) : region[c][1] = <<n, 1>>
  BY DEF AtHeader
<1>2. MsgSize(c) = sent[c][n].size
  BY <1>1 DEF MsgSize
<1>3. sent[c] \in Seq([size : Nat, at : 0..(SendBufSize - 1)])
  BY DEF TypeOK
<1>4. sent[c][n] \in [size : Nat, at : 0..(SendBufSize - 1)]
  BY <1>1, <1>3, ElementOfSeq
<1>5. QED
  BY <1>2, <1>4

\* Asking for space leaves the receive buffer's pointers inside it, and it is
\* granted only for less than the whole buffer.
LEMMA SpaceForType ==
  ASSUME TypeOK, NEW c \in Clients, NEW size \in Nat
  PROVE  /\ SpaceFor(c, size).buf \in Buffers(RegionSize)
         /\ SpaceFor(c, size).enough => size \in 0..RegionSize
<1>1. RegionSize \in Nat \ {0} /\ rbuf[c] \in Buffers(RegionSize)
  BY SizesAssumption DEF TypeOK
<1>2. BufClear(rbuf[c]) \in Buffers(RegionSize)
  BY <1>1, BufClearType
<1> DEFINE b == IF BufIsEmpty(rbuf[c]) THEN BufClear(rbuf[c]) ELSE rbuf[c]
<1>3. b \in Buffers(RegionSize)
  BY <1>1, <1>2
<1>4. SpaceFor(c, size) = IsFreeSpaceEnough(RegionSize, b, size)
  BY DEF SpaceFor
<1> HIDE DEF b
<1>5. /\ IsFreeSpaceEnough(RegionSize, b, size).buf \in Buffers(RegionSize)
      /\ IsFreeSpaceEnough(RegionSize, b, size).enough => size < RegionSize
  BY <1>1, <1>3, SpaceType
<1>6. size < RegionSize => size \in 0..RegionSize
  BY <1>1
<1>7. QED
  BY <1>4, <1>5, <1>6, Zenon

\* What CopyMsg writes to the list and takes from the region.
LEMMA CopyMsgType ==
  ASSUME TypeOK, CopyMsg
  PROVE  TypeOK'
<1> DEFINE c     == clt
           size  == MsgSize(c)
           space == SpaceFor(c, size)
           entry == [addr |-> space.buf.free, size |-> size,
                     data |-> SubSeq(region[c], 1, size)]
<1>1. /\ c \in Clients /\ AtHeader(c) /\ size <= Len(region[c])
      /\ space.enough /\ region[c] \in Seq(Unit) /\ Len(region[c]) \in Nat
  BY LenProperties DEF TypeOK, CopyMsg
<1>2. /\ list' = [list EXCEPT ![c] = Append(list[c], entry)]
      /\ rbuf' = [rbuf EXCEPT ![c] = UseBuf(RegionSize, space.buf, size)]
      /\ msgCnts' = [msgCnts EXCEPT ![c] = msgCnts[c] + 1]
      /\ msgCltCnt' = CountMsg(c)
      /\ region' = [region EXCEPT ![c] = SubSeq(region[c], size + 1, Len(region[c]))]
      /\ UNCHANGED <<clientVars, saddr, readAddr, readDone, delivered, waitVars,
                     reqVars, spc, clt, commDone>>
  BY Zenon DEF CopyMsg
<1> HIDE DEF c
<1>3. size \in Nat
  BY <1>1, MsgSizeType
<1> HIDE DEF size
<1>4. space.buf \in Buffers(RegionSize) /\ size \in 0..RegionSize
  BY <1>1, <1>3, SpaceForType
<1> HIDE DEF space
<1>5. RegionSize \in Nat \ {0}
  BY SizesAssumption
<1>6. UseBuf(RegionSize, space.buf, size) \in Buffers(RegionSize)
  BY <1>4, <1>5, UseBufType
<1>7. entry \in Listed
  <2>1. space.buf.free \in 0..(RegionSize - 1)
    BY <1>4 DEF Buffers
  <2>2. SubSeq(region[c], 1, size) \in Seq(Unit)
    <3>1. \A i \in 1..size : i \in 1..Len(region[c])
      BY <1>1, <1>3
    <3>2. \A i \in 1..size : region[c][i] \in Unit
      BY <1>1, <3>1, ElementOfSeq
    <3>3. QED
      BY <1>3, <3>2, SubSeqProperties
  <2>3. QED
    BY <1>4, <2>1, <2>2 DEF Listed
<1>8. SubSeq(region[c], size + 1, Len(region[c])) \in Seq(Unit)
  <2>1. \A i \in (size + 1)..Len(region[c]) : i \in 1..Len(region[c])
    BY <1>1, <1>3
  <2>2. \A i \in (size + 1)..Len(region[c]) : region[c][i] \in Unit
    BY <1>1, <2>1, ElementOfSeq
  <2>3. size + 1 \in Int /\ Len(region[c]) \in Int
    BY <1>1, <1>3
  <2>4. QED
    BY <2>2, <2>3, SubSeqProperties
<1> HIDE DEF entry
<1>9. Append(list[c], entry) \in Seq(Listed)
  BY <1>1, <1>7, AppendProperties DEF TypeOK
<1>10. list' \in [Clients -> Seq(Listed)]
  BY <1>2, <1>9 DEF TypeOK
<1>11. rbuf' \in [Clients -> Buffers(RegionSize)]
  BY <1>2, <1>6 DEF TypeOK
<1>12. region' \in [Clients -> Seq(Unit)]
  BY <1>2, <1>8 DEF TypeOK
<1>13. msgCnts' \in [Clients -> Int] /\ msgCltCnt' \in Int
  <2>1. msgCnts \in [Clients -> Int] /\ msgCltCnt \in Int
    BY DEF TypeOK
  <2>2. CountMsg(c) \in Int
    BY <2>1 DEF CountMsg
  <2>3. msgCnts[c] + 1 \in Int
    BY <1>1, <2>1
  <2>4. QED
    BY <1>2, <2>1, <2>2, <2>3, Zenon
<1>14. QED
  BY <1>2, <1>10, <1>11, <1>12, <1>13 DEF TypeOK, clientVars, waitVars, reqVars

\* The end of the copying keeps the types.
LEMMA CopiedType ==
  ASSUME TypeOK, Copied
  PROVE  TypeOK'
<1>1. clt \in Clients
  BY DEF TypeOK
<1>2. rbuf' \in [Clients -> Buffers(RegionSize)]
  <2>1. CASE UNCHANGED rbuf
    BY <2>1 DEF TypeOK
  <2>2. CASE /\ AtHeader(clt)
             /\ rbuf' = [rbuf EXCEPT ![clt] = SpaceFor(clt, MsgSize(clt)).buf]
    <3>1. SpaceFor(clt, MsgSize(clt)).buf \in Buffers(RegionSize)
      BY <1>1, <2>2, MsgSizeType, SpaceForType
    <3>2. QED
      BY <2>2, <3>1 DEF TypeOK
  <2>3. QED
    BY <2>1, <2>2 DEF Copied, CopyEnds
<1>3. /\ saddr' \in [Clients -> Addrs] /\ ackPosted' \in [Clients -> BOOLEAN]
      /\ rss' \in Int
  <2>1. CASE /\ saddr' = [saddr EXCEPT ![clt].signal = 0]
             /\ ackPosted' = [ackPosted EXCEPT ![clt] = TRUE]
             /\ rss' = rss + 1
    <3>1. saddr' \in [Clients -> Addrs]
      <4>1. saddr \in [Clients -> Addrs]
        BY DEF TypeOK
      <4>2. QED
        BY <1>1, <2>1, <4>1, SignalType
    <3>2. ackPosted' \in [Clients -> BOOLEAN] /\ rss' \in Int
      BY <2>1 DEF TypeOK
    <3>3. QED
      BY <3>1, <3>2
  <2>2. CASE UNCHANGED <<saddr, ackPosted, rss>>
    BY <2>2 DEF TypeOK
  <2>3. QED
    BY <2>1, <2>2 DEF Copied
<1>4. /\ spc' = "decode"
      /\ UNCHANGED <<clientVars, readAddr, readDone, region, msgCnts, msgCltCnt, list,
                     delivered, waitVars, reads, cq, rest, clt, commDone>>
  BY DEF Copied
<1>5. QED
  BY <1>2, <1>3, <1>4 DEF TypeOK, clientVars, waitVars

(* The counts of listed messages *)

HasMsg == {c \in Clients : list[c] # <<>>}

\* There are ClientNum clients.
LEMMA ClientsFinite == IsFiniteSet(Clients) /\ Cardinality(Clients) = ClientNum
<1>1. ClientNum \in Nat \ {0} /\ 0 \in Int /\ ClientNum - 1 \in Int
  BY SizesAssumption
<1>2. IsFiniteSet(0..(ClientNum - 1))
  BY <1>1, FS_Interval
<1>3. Cardinality(0..(ClientNum - 1)) = IF 0 > ClientNum - 1 THEN 0
                                        ELSE (ClientNum - 1) - 0 + 1
  BY <1>1, FS_Interval
<1>4. QED
  BY <1>1, <1>2, <1>3 DEF Clients

\* A set of clients is finite.
LEMMA ClientSubsetFinite ==
  ASSUME NEW T \in SUBSET Clients
  PROVE  IsFiniteSet(T) /\ Cardinality(T) \in Nat
<1>1. IsFiniteSet(T)
  BY ClientsFinite, FS_Subset
<1>2. QED
  BY <1>1, FS_CardinalityType

\* When the count says that every client has a message, every list has one.
LEMMA RoundHasAll ==
  ASSUME CountsAgree, msgCltCnt = ClientNum
  PROVE  \A c \in Clients : list[c] # <<>>
<1>1. HasMsg \in SUBSET Clients /\ Cardinality(HasMsg) = Cardinality(Clients)
  BY ClientsFinite DEF CountsAgree, HasMsg
<1>2. HasMsg = Clients
  BY <1>1, ClientsFinite, FS_Subset
<1>3. QED
  BY <1>2 DEF HasMsg

\* A round of decoding keeps the types: no list is empty then.
LEMMA DecodeRoundType ==
  ASSUME TypeOK, CountsAgree, DecodeRound
  PROVE  TypeOK'
<1>1. RegionSize \in Nat \ {0}
  BY SizesAssumption
<1>2. ASSUME NEW c \in Clients
      PROVE  /\ Head(list[c]) \in Listed /\ Tail(list[c]) \in Seq(Listed)
             /\ Append(delivered[c], Head(list[c]).data) \in Seq(Seq(Unit))
             /\ FreeBuf(RegionSize, [rbuf[c] EXCEPT !.used = Head(list[c]).addr],
                        Head(list[c]).size) \in Buffers(RegionSize)
  <2>1. list[c] # <<>>
    BY RoundHasAll DEF DecodeRound
  <2>2. list[c] \in Seq(Listed) /\ rbuf[c] \in Buffers(RegionSize)
        /\ delivered[c] \in Seq(Seq(Unit))
    BY DEF TypeOK
  <2>3. Head(list[c]) \in Listed /\ Tail(list[c]) \in Seq(Listed)
    BY <2>1, <2>2, HeadTailProperties
  <2>4. /\ Head(list[c]).addr \in 0..(RegionSize - 1)
        /\ Head(list[c]).size \in 0..RegionSize
        /\ Head(list[c]).data \in Seq(Unit)
    BY <2>3 DEF Listed
  <2>5. Append(delivered[c], Head(list[c]).data) \in Seq(Seq(Unit))
    BY <2>2, <2>4, AppendProperties
  <2>6. [rbuf[c] EXCEPT !.used = Head(list[c]).addr] \in Buffers(RegionSize)
    BY <2>2, <2>4 DEF Buffers
  <2>7. QED
    BY <1>1, <2>3, <2>4, <2>5, <2>6, FreeBufType
<1>3. delivered' \in [Clients -> Seq(Seq(Unit))]
  BY <1>2 DEF DecodeRound
<1>4. list' \in [Clients -> Seq(Listed)]
  BY <1>2 DEF DecodeRound
<1>5. rbuf' \in [Clients -> Buffers(RegionSize)]
  BY <1>2 DEF DecodeRound
<1>6. msgCnts' \in [Clients -> Int]
  BY DEF TypeOK, DecodeRound
<1>7. msgCltCnt' \in Int
  <2>1. {c \in Clients : msgCnts[c] = 1} \in SUBSET Clients
    OBVIOUS
  <2>2. Cardinality({c \in Clients : msgCnts[c] = 1}) \in Nat
    BY <2>1, ClientSubsetFinite
  <2>3. QED
    BY <2>2 DEF TypeOK, DecodeRound
<1>8. UNCHANGED <<clientVars, readVars, waitVars, reqVars, spc, clt, commDone>>
  BY DEF DecodeRound
<1>9. QED
  BY <1>3, <1>4, <1>5, <1>6, <1>7, <1>8 DEF TypeOK, clientVars, readVars, waitVars, reqVars

\* A message that is listed is counted.
LEMMA CopyMsgCounts ==
  ASSUME TypeOK, CountsAgree, CopyMsg
  PROVE  CountsAgree'
<1> DEFINE entry == [addr |-> SpaceFor(clt, MsgSize(clt)).buf.free,
                     size |-> MsgSize(clt),
                     data |-> SubSeq(region[clt], 1, MsgSize(clt))]
<1>1. /\ clt \in Clients /\ list \in [Clients -> Seq(Listed)]
      /\ msgCnts \in [Clients -> Int] /\ TypeOK'
  BY CopyMsgType DEF TypeOK
<1>2. /\ list' = [list EXCEPT ![clt] = Append(list[clt], entry)]
      /\ msgCnts' = [msgCnts EXCEPT ![clt] = msgCnts[clt] + 1]
      /\ msgCltCnt' = CountMsg(clt)
  BY Zenon DEF CopyMsg
<1> HIDE DEF entry
<1>3. /\ Append(list[clt], entry) # <<>>
      /\ Len(Append(list[clt], entry)) = Len(list[clt]) + 1
  <2>1. Append(list[clt], entry) \in Seq(Listed \cup {entry})
    BY <1>1
  <2>2. list[clt] \in Seq(Listed \cup {entry}) /\ entry \in Listed \cup {entry}
    BY <1>1
  <2>3. QED
    BY <2>2, AppendProperties
<1>4. \A c \in Clients : msgCnts'[c] = Len(list'[c])
  BY <1>1, <1>2, <1>3 DEF CountsAgree
<1>5. HasMsg' = HasMsg \cup {clt}
  BY <1>1, <1>2, <1>3 DEF HasMsg
<1>6. IsFiniteSet(HasMsg) /\ Cardinality(HasMsg) \in Nat
  <2>1. HasMsg \in SUBSET Clients
    BY DEF HasMsg
  <2>2. QED
    BY <2>1, ClientSubsetFinite
<1>7. Cardinality(HasMsg \cup {clt}) =
        IF clt \in HasMsg THEN Cardinality(HasMsg) ELSE Cardinality(HasMsg) + 1
  BY <1>6, FS_AddElement
<1>8. msgCnts[clt] = 0 <=> clt \notin HasMsg
  <2>1. msgCnts[clt] = Len(list[clt]) /\ list[clt] \in Seq(Listed)
    BY <1>1 DEF CountsAgree
  <2>2. Len(list[clt]) = 0 <=> list[clt] = <<>>
    BY <2>1, EmptySeq
  <2>3. QED
    BY <1>1, <2>1, <2>2 DEF HasMsg
<1>9. msgCltCnt = Cardinality(HasMsg)
  BY DEF CountsAgree, HasMsg
<1>10. msgCltCnt' = Cardinality(HasMsg')
  BY <1>2, <1>5, <1>6, <1>7, <1>8, <1>9 DEF CountMsg
<1>11. QED
  BY <1>4, <1>10 DEF CountsAgree, HasMsg

\* A round of decoding takes one message from every list, and counts off the
\* clients whose last one that was.
LEMMA DecodeRoundCounts ==
  ASSUME TypeOK, CountsAgree, DecodeRound
  PROVE  CountsAgree'
<1> DEFINE last == {c \in Clients : msgCnts[c] = 1}
<1>1. /\ list' = [c \in Clients |-> Tail(list[c])]
      /\ msgCnts' = [c \in Clients |-> msgCnts[c] - 1]
      /\ msgCltCnt' = msgCltCnt - Cardinality(last)
      /\ msgCltCnt = ClientNum
  BY DEF DecodeRound
<1>2. ASSUME NEW c \in Clients
      PROVE  /\ list[c] \in Seq(Listed) /\ Len(list[c]) \in Nat
             /\ msgCnts[c] = Len(list[c])
             /\ Tail(list[c]) \in Seq(Listed) /\ Len(Tail(list[c])) = Len(list[c]) - 1
  <2>1. list[c] # <<>> /\ list[c] \in Seq(Listed) /\ msgCnts[c] = Len(list[c])
    BY <1>1, RoundHasAll DEF CountsAgree, TypeOK
  <2>2. QED
    BY <2>1, HeadTailProperties, LenProperties
<1>3. \A c \in Clients : msgCnts'[c] = Len(list'[c])
  BY <1>1, <1>2
<1>4. HasMsg' = Clients \ last
  <2>1. ASSUME NEW c \in Clients PROVE Tail(list[c]) # <<>> <=> c \notin last
    <3>1. Tail(list[c]) = <<>> <=> Len(Tail(list[c])) = 0
      BY <1>2, EmptySeq
    <3>2. Len(Tail(list[c])) = 0 <=> msgCnts[c] = 1
      <4> DEFINE n == Len(list[c])
                 k == Len(Tail(list[c]))
      <4>1. n \in Nat /\ k = n - 1 /\ msgCnts[c] = n
        BY <1>2
      <4> HIDE DEF n, k
      <4>2. k = 0 <=> msgCnts[c] = 1
        BY <4>1
      <4>3. QED
        BY <4>2 DEF k
    <3>3. QED
      BY <3>1, <3>2
  <2>2. HasMsg' = {c \in Clients : Tail(list[c]) # <<>>}
    BY <1>1 DEF HasMsg
  <2>3. QED
    BY <2>1, <2>2
<1>5. Cardinality(Clients \ last) = ClientNum - Cardinality(last)
  <2>1. Clients \cap last = last
    OBVIOUS
  <2>2. Cardinality(Clients \ last) = Cardinality(Clients) - Cardinality(Clients \cap last)
    BY ClientsFinite, FS_Difference
  <2>3. QED
    BY <2>1, <2>2, ClientsFinite
<1>6. msgCltCnt' = Cardinality(HasMsg')
  BY <1>1, <1>4, <1>5
<1>7. QED
  BY <1>3, <1>6 DEF CountsAgree, HasMsg

\* The initial state.
LEMMA InitCorrect ==
  ASSUME Init
  PROVE  TypeOK /\ CountsAgree
<1>1. BufOpen \in Buffers(SendBufSize) /\ BufOpen \in Buffers(RegionSize)
  BY SizesAssumption DEF BufOpen, Buffers
<1>2. AddrInit(BufOpen, 0) \in Addrs
  BY <1>1, AddrInitType
<1>3. (CHOOSE m \in Msgs : TRUE) \in Msgs
  BY MsgsAssumption
<1>4. 0 \in Clients
  BY SizesAssumption DEF Clients
<1>5. want \in [Clients -> Msgs]
  BY <1>3 DEF Init
<1>6. cmem \in [Clients -> [0..(SendBufSize - 1) -> Unit]]
  BY DEF Init, Stale, Unit
<1>7. TypeOK
  BY <1>1, <1>2, <1>4, <1>5, <1>6 DEF Init, TypeOK
<1>8. {c \in Clients : list[c] # <<>>} = {}
  BY DEF Init
<1>9. \A c \in Clients : msgCnts[c] = Len(list[c])
  BY DEF Init
<1>10. msgCltCnt = Cardinality({c \in Clients : list[c] # <<>>})
  BY <1>8, FS_EmptySet DEF Init
<1>11. QED
  BY <1>7, <1>9, <1>10 DEF CountsAgree

\* Every step keeps the types and the counts.
LEMMA NextCorrect ==
  ASSUME TypeOK, CountsAgree, [Next]_vars
  PROVE  TypeOK' /\ CountsAgree'
<1>1. ASSUME UNCHANGED listVars PROVE CountsAgree'
  BY <1>1 DEF CountsAgree, listVars
<1>2. ASSUME NEW c \in Clients,
             \/ Application(c) \/ InCall(c)
             \/ AddrLands(c) \/ ReadLands(c) \/ AckLands(c)
      PROVE  TypeOK' /\ CountsAgree'
  <2>1. TypeOK'
    BY <1>2, ApplicationType, InCallType, NicType
  <2>2. UNCHANGED listVars
    BY <1>2 DEF Application, InCall, AddrLands, ReadLands, AckLands
  <2>3. QED
    BY <1>1, <2>1, <2>2
<1>3. CASE \/ WaitSome \/ Drained \/ SkipRead \/ TestRead \/ Decoded \/ ServerExit
           \/ \E c \in Clients : PickClient(c)
  <2>1. TypeOK'
    BY <1>3, ServerMoveType
  <2>2. UNCHANGED listVars
    BY <1>3 DEF WaitSome, Drained, SkipRead, TestRead, Decoded, ServerExit, PickClient
  <2>3. QED
    BY <1>1, <2>1, <2>2
<1>4. ASSUME NEW c \in Clients, Poll(c) PROVE TypeOK' /\ CountsAgree'
  BY <1>1, <1>4, PollType DEF Poll
<1>5. CASE ReadData
  BY <1>1, <1>5, ReadDataType DEF ReadData
<1>6. CASE CopyMsg
  BY <1>6, CopyMsgType, CopyMsgCounts
<1>7. CASE Copied
  <2>1. TypeOK'
    BY <1>7, CopiedType
  <2>2. UNCHANGED <<msgCnts, msgCltCnt, list>>
    BY <1>7 DEF Copied
  <2>3. QED
    BY <2>1, <2>2 DEF CountsAgree
<1>8. CASE DecodeRound
  BY <1>8, DecodeRoundType, DecodeRoundCounts
<1>9. CASE UNCHANGED vars
  <2>1. TypeOK'
    BY <1>9 DEF TypeOK, vars, clientVars, readVars, listVars, waitVars, reqVars
  <2>2. UNCHANGED listVars
    BY <1>9 DEF vars
  <2>3. QED
    BY <1>1, <2>1, <2>2
<1>10. QED
  BY <1>2, <1>3, <1>4, <1>5, <1>6, <1>7, <1>8, <1>9 DEF Next, Server, Terminating

\* Every variable keeps its type; above all, the pointers of the send buffers
\* and of the receive buffers never leave their buffers (use_buf and free_buf
\* wrap them).  This holds whatever the sizes of buffers and messages, and
\* needs CountsAgree: a decoder that took from an empty list would follow a
\* null pointer.
THEOREM TypeCorrect == Spec => []TypeOK
<1>1. Init => TypeOK /\ CountsAgree
  BY InitCorrect
<1>2. TypeOK /\ CountsAgree /\ [Next]_vars => TypeOK' /\ CountsAgree'
  BY NextCorrect
<1>3. QED
  BY <1>1, <1>2, PTL DEF Spec

\* msg_cnts and msg_clt_cnt always agree with the lists, so that in a round of
\* decoding cfio_recv_get_first finds a message for every client (server.c:423-435).
THEOREM CountsCorrect == Spec => []CountsAgree
<1>1. Init => TypeOK /\ CountsAgree
  BY InitCorrect
<1>2. TypeOK /\ CountsAgree /\ [Next]_vars => TypeOK' /\ CountsAgree'
  BY NextCorrect
<1>3. QED
  BY <1>1, <1>2, PTL DEF Spec

(***************************************************************************)
(* The handover of the pointers.  HandoverInv is inductive: the client     *)
(* only changes its copy when the signal there is 0, and the invariant     *)
(* says that then nothing is posted, the server's signal is 0 and no       *)
(* acknowledgement is due; the server only clears a signal 1, which no     *)
(* write of the client can meet.                                           *)
(***************************************************************************)
\* The part of HandoverInv about one client.
HandoverOf(c) ==
  /\ ~(AtNic(c) /\ AtServer(c)) /\ ~(AtNic(c) /\ AckDue(c))
  /\ ~(AtServer(c) /\ AckDue(c))
  /\ caddr[c].signal = 1 => AtNic(c) \/ AtServer(c) \/ AckDue(c)
  /\ AtServer(c) \/ AckDue(c) =>
       /\ saddr[c].used = caddr[c].used /\ saddr[c].free = caddr[c].free
       /\ saddr[c].end = caddr[c].end
  /\ SignalAtClient(c) /\ SignalAtServer(c)
CopyNews == spc = "copy" => saddr[clt].signal = 1

\* The invariant, client by client.
LEMMA HandoverParts == HandoverInv <=> CopyNews /\ \A c \in Clients : HandoverOf(c)
BY DEF HandoverInv, Handover, OneWriter, SamePointers, CopyNews, HandoverOf

\* The same in the next state.
LEMMA HandoverPartsPrime ==
  HandoverInv' <=> CopyNews' /\ \A c \in Clients : HandoverOf(c)'
BY DEF HandoverInv, Handover, OneWriter, SamePointers, CopyNews, HandoverOf

\* A client that has no more to wait for holds the pointers alone.
LEMMA ClientHolds ==
  ASSUME TypeOK, NEW c \in Clients, HandoverOf(c), ClientWait(c),
         cpc[c] \notin {"final", "done"}
  PROVE  /\ caddr[c].signal = 0 /\ saddr[c].signal = 0
         /\ ~cposted[c] /\ ~ackPosted[c]
         /\ readDone[c] /\ region[c] = <<>>
<1>1. caddr[c].signal \in {0, 1, 11}
  BY DEF TypeOK, Addrs
<1>2. caddr[c].signal = 0
  BY <1>1 DEF ClientWait, HandoverOf, SignalAtClient
<1>3. ~cposted[c]
  BY <1>2 DEF HandoverOf, SignalAtClient
<1>4. saddr[c].signal = 0 /\ ~ackPosted[c]
  BY <1>2 DEF HandoverOf, SignalAtServer, AtServer, AckDue
<1>5. readDone[c] /\ region[c] = <<>>
  BY <1>4 DEF HandoverOf, SignalAtServer
<1>6. QED
  BY <1>2, <1>3, <1>4, <1>5

\* What HandoverOf(c) speaks of.
handVars(c) == <<cposted[c], caddr[c], saddr[c], ackPosted[c], readDone[c],
                 region[c] = <<>>, cpc[c] \in {"final", "done"}>>

\* A client whose part of the state stays keeps its part of the invariant.
LEMMA HandoverKept ==
  ASSUME NEW c \in Clients, HandoverOf(c), UNCHANGED handVars(c)
  PROVE  HandoverOf(c)'
BY DEF handVars, HandoverOf, SignalAtClient, SignalAtServer, AtNic, AtServer, AckDue

\* The steps of a client and of the NIC leave what belongs to the others alone.
LEMMA HandoverClient ==
  ASSUME TypeOK, HandoverInv, NEW c \in Clients, Application(c) \/ InCall(c)
  PROVE  HandoverInv'
<1>1. CopyNews /\ \A d \in Clients : HandoverOf(d)
  BY HandoverParts
<1>2. UNCHANGED <<readVars, ackPosted, spc, clt>>
  BY DEF Application, InCall, reqVars
<1>3. CopyNews'
  BY <1>1, <1>2 DEF CopyNews, readVars
<1>4. /\ cpc \in [Clients -> {"app", "ensure", "buf_free", "io_end", "final_end",
                             "final", "done"}]
      /\ caddr \in [Clients -> Addrs] /\ cposted \in [Clients -> BOOLEAN]
  BY DEF TypeOK
<1>5. ASSUME NEW d \in Clients, d # c PROVE HandoverOf(d)'
  <2>1. caddr'[d] = caddr[d] /\ cposted'[d] = cposted[d] /\ cpc'[d] = cpc[d]
    BY <1>4, <1>5
    DEF Application, InCall, Call, IoEnd, Finalize, Publish, EnsureSkip, Pack,
        BufFreeReclaim, BufFreePublish, BufFreeReturn, IoEndReturn, IoDone, SendFinal
  <2>2. QED
    BY <1>1, <1>2, <2>1, HandoverKept DEF handVars, readVars
<1>6. HandoverOf(c)'
  <2>1. CASE \/ \E m \in Msgs : Call(c, m)
             \/ EnsureSkip(c) \/ Pack(c) \/ BufFreeReclaim(c) \/ IoEndReturn(c)
    <3>1. UNCHANGED <<caddr, cposted>>
      BY <2>1 DEF Call, EnsureSkip, Pack, BufFreeReclaim, IoEndReturn
    <3>2. cpc[c] \notin {"final", "done"} /\ cpc'[c] \notin {"final", "done"}
      BY <1>4, <2>1 DEF Call, EnsureSkip, Pack, BufFreeReclaim, IoEndReturn
    <3>3. QED
      BY <1>1, <1>2, <3>1, <3>2, HandoverKept DEF handVars, readVars
  <2>2. CASE SendFinal(c)
    <3>1. /\ UNCHANGED <<caddr, cposted>>
          /\ cpc[c] \in {"final", "done"} /\ cpc'[c] \in {"final", "done"}
      BY <1>4, <2>2 DEF SendFinal
    <3>2. QED
      BY <1>1, <1>2, <3>1, HandoverKept DEF handVars, readVars
  <2>3. CASE IoEnd(c) \/ Finalize(c) \/ BufFreePublish(c) \/ IoDone(c) \/ BufFreeReturn(c)
    <3>1. cpc[c] \notin {"final", "done"} /\ ClientWait(c)
      BY <2>3 DEF IoEnd, Finalize, BufFreePublish, IoDone, BufFreeReturn
    <3>2. /\ saddr[c].signal = 0 /\ ~cposted[c] /\ ~ackPosted[c]
          /\ readDone[c] /\ region[c] = <<>>
      BY <1>1, <3>1, ClientHolds
    <3>3. saddr'[c].signal = 0 /\ ~ackPosted'[c] /\ readDone'[c] /\ region'[c] = <<>>
      BY <1>2, <3>2 DEF readVars
    <3>4. CASE IoEnd(c) \/ Finalize(c) \/ BufFreePublish(c) \/ IoDone(c)
      <4>1. CASE IoDone(c)
        <5>1. caddr'[c].signal = 11 /\ cposted'[c] /\ cpc'[c] = "final"
          BY <1>4, <4>1 DEF IoDone, Addrs
        <5>2. QED
          BY <3>3, <5>1
          DEF HandoverOf, SignalAtClient, SignalAtServer, AtNic, AtServer, AckDue
      <4>2. CASE ~IoDone(c)
        <5>1. caddr'[c].signal = 1 /\ cposted'[c]
          BY <1>4, <3>4, <4>2 DEF IoEnd, Finalize, BufFreePublish, Publish, AddrInit
        <5>2. QED
          BY <3>3, <5>1
          DEF HandoverOf, SignalAtClient, SignalAtServer, AtNic, AtServer, AckDue
      <4>3. QED
        BY <4>1, <4>2
    <3>5. CASE BufFreeReturn(c)
      <4>1. caddr'[c].signal = 0 /\ ~cposted'[c]
        BY <1>4, <3>2, <3>5 DEF BufFreeReturn, AddrInit
      <4>2. QED
        BY <3>3, <4>1
        DEF HandoverOf, SignalAtClient, SignalAtServer, AtNic, AtServer, AckDue
    <3>6. QED
      BY <2>3, <3>4, <3>5
  <2>4. QED
    BY <2>1, <2>2, <2>3 DEF Application, InCall
<1>7. QED
  BY <1>3, <1>5, <1>6, HandoverPartsPrime

\* A request that is carried out keeps the invariant.
LEMMA HandoverNic ==
  ASSUME TypeOK, HandoverInv, NEW c \in Clients,
         AddrLands(c) \/ ReadLands(c) \/ AckLands(c)
  PROVE  HandoverInv'
<1>1. CopyNews /\ \A d \in Clients : HandoverOf(d)
  BY HandoverParts
<1>2. /\ caddr \in [Clients -> Addrs] /\ saddr \in [Clients -> Addrs]
      /\ cposted \in [Clients -> BOOLEAN] /\ ackPosted \in [Clients -> BOOLEAN]
      /\ region \in [Clients -> Seq(Unit)] /\ clt \in Clients
  BY DEF TypeOK
<1>3. CASE AddrLands(c)
  <2>1. /\ cposted[c] /\ saddr' = [saddr EXCEPT ![c] = caddr[c]]
        /\ cposted' = [cposted EXCEPT ![c] = FALSE]
        /\ UNCHANGED <<caddr, ackPosted, readDone, region, cpc, spc, clt>>
    BY <1>3 DEF AddrLands, reqVars
  <2>2. saddr[c].signal = 0 /\ ~ackPosted[c] /\ caddr[c].signal \in {1, 11}
    BY <1>1, <2>1 DEF HandoverOf, SignalAtClient, AtNic, AtServer, AckDue
  <2>3. HandoverOf(c)'
    <3>1. saddr'[c] = caddr[c] /\ ~cposted'[c]
      BY <1>2, <2>1
    <3>2. readDone[c] /\ region[c] = <<>>
      BY <1>1, <2>2 DEF HandoverOf, SignalAtServer
    <3>3. cpc[c] \notin {"final", "done"} => caddr[c].signal # 11
      BY <1>1 DEF HandoverOf, SignalAtClient
    <3>4. QED
      BY <2>1, <2>2, <3>1, <3>2, <3>3
      DEF HandoverOf, SignalAtClient, SignalAtServer, AtNic, AtServer, AckDue
  <2>4. ASSUME NEW d \in Clients, d # c PROVE HandoverOf(d)'
    <3>1. UNCHANGED handVars(d)
      BY <1>2, <2>1, <2>4 DEF handVars
    <3>2. QED
      BY <1>1, <3>1, HandoverKept
  <2>5. CopyNews'
    BY <1>1, <1>2, <2>1, <2>2 DEF CopyNews
  <2>6. QED
    BY <2>3, <2>4, <2>5, HandoverPartsPrime
<1>4. CASE ReadLands(c)
  <2>1. UNCHANGED <<saddr, caddr, cposted, ackPosted, readDone, cpc, spc, clt>>
    BY <1>4 DEF ReadLands, clientVars
  <2>2. ASSUME NEW d \in Clients, region[d] = <<>> PROVE region'[d] = <<>>
    <3>1. CASE d = c
      <4> DEFINE f(i) == IF i - Head(reads[c]).to \in 1..Head(reads[c]).len /\
                            Head(reads[c]).from + i - 1 - Head(reads[c]).to
                              \in 0..(SendBufSize - 1)
                         THEN cmem[c][Head(reads[c]).from + i - 1 - Head(reads[c]).to]
                         ELSE region[c][i]
      <4>1. region' = [region EXCEPT ![c] = [i \in 1..Len(region[c]) |-> f(i)]]
        BY <1>4 DEF ReadLands
      <4> HIDE DEF f
      <4>2. region'[c] = [i \in 1..Len(region[c]) |-> f(i)]
        BY <1>2, <4>1
      <4>3. Len(region[c]) = 0
        BY <2>2, <3>1, EmptySeq
      <4>4. 1..Len(region[c]) = {}
        BY <4>3
      <4>5. [i \in 1..Len(region[c]) |-> f(i)] = <<>>
        BY <4>4
      <4>6. QED
        BY <3>1, <4>2, <4>5
    <3>2. CASE d # c
      BY <1>2, <1>4, <2>2, <3>2 DEF ReadLands
    <3>3. QED
      BY <3>1, <3>2
  <2>3. ASSUME NEW d \in Clients PROVE HandoverOf(d)'
    BY <1>1, <2>1, <2>2
    DEF HandoverOf, SignalAtClient, SignalAtServer, AtNic, AtServer, AckDue
  <2>4. CopyNews'
    BY <1>1, <2>1 DEF CopyNews
  <2>5. QED
    BY <2>3, <2>4, HandoverPartsPrime
<1>5. CASE AckLands(c)
  <2>1. /\ ackPosted[c] /\ caddr' = [caddr EXCEPT ![c] = saddr[c]]
        /\ ackPosted' = [ackPosted EXCEPT ![c] = FALSE]
        /\ UNCHANGED <<saddr, cposted, readDone, region, cpc, spc, clt>>
    BY <1>5 DEF AckLands, readVars
  <2>2. saddr[c].signal = 0 /\ ~cposted[c]
    BY <1>1, <2>1 DEF HandoverOf, AtNic, AtServer, AckDue
  <2>3. HandoverOf(c)'
    <3>1. caddr'[c] = saddr[c] /\ ~ackPosted'[c]
      BY <1>2, <2>1
    <3>2. readDone[c] /\ region[c] = <<>>
      BY <1>1, <2>2 DEF HandoverOf, SignalAtServer
    <3>3. QED
      BY <2>1, <2>2, <3>1, <3>2
      DEF HandoverOf, SignalAtClient, SignalAtServer, AtNic, AtServer, AckDue
  <2>4. ASSUME NEW d \in Clients, d # c PROVE HandoverOf(d)'
    <3>1. UNCHANGED handVars(d)
      BY <1>2, <2>1, <2>4 DEF handVars
    <3>2. QED
      BY <1>1, <3>1, HandoverKept
  <2>5. CopyNews'
    BY <1>1, <2>1 DEF CopyNews
  <2>6. QED
    BY <2>3, <2>4, <2>5, HandoverPartsPrime
<1>6. QED
  BY <1>3, <1>4, <1>5

\* The server takes up only what signal 1 covers, and clears it before the
\* acknowledgement is posted.
LEMMA HandoverServer ==
  ASSUME TypeOK, HandoverInv, Server
  PROVE  HandoverInv'
<1>1. CopyNews /\ \A d \in Clients : HandoverOf(d)
  BY HandoverParts
<1>2. /\ saddr \in [Clients -> Addrs] /\ readDone \in [Clients -> BOOLEAN]
      /\ ackPosted \in [Clients -> BOOLEAN]
      /\ region \in [Clients -> Seq(Unit)] /\ clt \in Clients
  BY DEF TypeOK
<1>3. CASE \/ WaitSome \/ (\E c \in Clients : Poll(c)) \/ Drained \/ SkipRead
           \/ DecodeRound \/ Decoded \/ ServerExit
  <2>1. /\ UNCHANGED <<clientVars, readVars, ackPosted, clt>>
        /\ spc' = spc \/ spc' # "copy"
    BY <1>3 DEF WaitSome, Poll, Drained, SkipRead, DecodeRound, Decoded, ServerExit,
                reqVars
  <2>2. ASSUME NEW d \in Clients PROVE HandoverOf(d)'
    BY <1>1, <2>1, HandoverKept DEF handVars, clientVars, readVars
  <2>3. CopyNews'
    BY <1>1, <2>1 DEF CopyNews, readVars
  <2>4. QED
    BY <2>2, <2>3, HandoverPartsPrime
<1>4. CASE TestRead
  <2>1. UNCHANGED <<clientVars, readVars, ackPosted, clt>>
    BY <1>4 DEF TestRead, reqVars
  <2>2. ASSUME NEW d \in Clients PROVE HandoverOf(d)'
    BY <1>1, <2>1, HandoverKept DEF handVars, clientVars, readVars
  <2>3. CASE RdmaBufExistMsg(clt)
    <3>1. region[clt] # <<>>
      <4>1. HdrSize \in Nat \ {0} /\ HdrSize <= Len(region[clt])
        BY <2>3, SizesAssumption DEF RdmaBufExistMsg
      <4>2. Len(region[clt]) # 0
        BY <4>1
      <4>3. QED
        BY <4>2, EmptySeq
    <3>2. saddr[clt].signal = 1
      BY <1>1, <1>2, <3>1 DEF HandoverOf, SignalAtServer
    <3>3. CopyNews'
      BY <2>1, <3>2 DEF CopyNews, readVars
    <3>4. QED
      BY <2>2, <3>3, HandoverPartsPrime
  <2>4. CASE ~RdmaBufExistMsg(clt)
    <3>1. spc' # "copy"
      BY <1>4, <2>4 DEF TestRead
    <3>2. QED
      BY <2>2, <3>1, HandoverPartsPrime DEF CopyNews
  <2>5. QED
    BY <2>3, <2>4
<1>5. ASSUME NEW c \in Clients, PickClient(c) PROVE HandoverInv'
  <2>1. /\ UNCHANGED <<clientVars, saddr, region, ackPosted>> /\ spc' # "copy"
        /\ \/ UNCHANGED readDone
           \/ saddr[c].signal = 1 /\ readDone' = [readDone EXCEPT ![c] = FALSE]
    BY <1>5 DEF PickClient, reqVars
  <2>2. ASSUME NEW d \in Clients PROVE HandoverOf(d)'
    <3>1. readDone'[d] = readDone[d] \/ saddr[d].signal = 1
      BY <1>2, <2>1
    <3>2. QED
      BY <1>1, <2>1, <3>1
      DEF HandoverOf, SignalAtClient, SignalAtServer, AtNic, AtServer, AckDue, clientVars
  <2>3. QED
    BY <2>1, <2>2, HandoverPartsPrime DEF CopyNews
<1>6. CASE ReadData
  <2>1. /\ UNCHANGED <<clientVars, saddr, ackPosted>> /\ spc' # "copy"
        /\ ~readDone[clt]
    BY <1>6 DEF ReadData
  <2>2. \A d \in Clients : d # clt => readDone'[d] = readDone[d] /\ region'[d] = region[d]
    BY <1>2, <1>6 DEF ReadData
  <2>3. saddr[clt].signal = 1
    BY <1>1, <1>2, <2>1 DEF HandoverOf, SignalAtServer
  <2>4. ASSUME NEW d \in Clients PROVE HandoverOf(d)'
    BY <1>1, <2>1, <2>2, <2>3
    DEF HandoverOf, SignalAtClient, SignalAtServer, AtNic, AtServer, AckDue, clientVars
  <2>5. QED
    BY <2>1, <2>4, HandoverPartsPrime DEF CopyNews
<1>7. CASE CopyMsg
  <2>1. UNCHANGED <<clientVars, saddr, readDone, ackPosted, spc, clt>> /\ spc = "copy"
    BY <1>7 DEF CopyMsg, reqVars
  <2>2. \A d \in Clients : d # clt => region'[d] = region[d]
    BY <1>2, <1>7 DEF CopyMsg
  <2>3. saddr[clt].signal = 1
    BY <1>1, <2>1 DEF CopyNews
  <2>4. ASSUME NEW d \in Clients PROVE HandoverOf(d)'
    BY <1>1, <2>1, <2>2, <2>3
    DEF HandoverOf, SignalAtClient, SignalAtServer, AtNic, AtServer, AckDue, clientVars
  <2>5. QED
    BY <2>1, <2>3, <2>4, HandoverPartsPrime DEF CopyNews
<1>8. CASE Copied
  <2>1. /\ UNCHANGED <<clientVars, readDone, region, clt>> /\ spc = "copy"
        /\ spc' = "decode"
    BY <1>8 DEF Copied
  <2>2. CASE /\ CopiedAll(clt)
             /\ saddr' = [saddr EXCEPT ![clt].signal = 0]
             /\ ackPosted' = [ackPosted EXCEPT ![clt] = TRUE]
    <3>1. saddr[clt].signal = 1
      BY <1>1, <2>1 DEF CopyNews
    <3>2. /\ ~cposted[clt] /\ caddr[clt].signal = 1
          /\ saddr[clt].used = caddr[clt].used /\ saddr[clt].free = caddr[clt].free
          /\ saddr[clt].end = caddr[clt].end
      BY <1>1, <1>2, <3>1 DEF HandoverOf, SignalAtServer, AtNic, AtServer, AckDue
    <3>3. /\ saddr'[clt].signal = 0 /\ ackPosted'[clt]
          /\ saddr'[clt].used = saddr[clt].used /\ saddr'[clt].free = saddr[clt].free
          /\ saddr'[clt].end = saddr[clt].end
      BY <1>2, <2>2 DEF Addrs
    <3>4. readDone[clt] /\ region[clt] = <<>>
      BY <2>2 DEF CopiedAll, RdmaBufEmpty
    <3>5. HandoverOf(clt)'
      BY <2>1, <3>2, <3>3, <3>4
      DEF HandoverOf, SignalAtClient, SignalAtServer, AtNic, AtServer, AckDue, clientVars
    <3>6. ASSUME NEW d \in Clients, d # clt PROVE HandoverOf(d)'
      <4>1. UNCHANGED handVars(d)
        BY <1>2, <2>1, <2>2, <3>6 DEF handVars, clientVars
      <4>2. QED
        BY <1>1, <4>1, HandoverKept
    <3>7. \A d \in Clients : HandoverOf(d)'
      BY <2>1, <3>5, <3>6
    <3>8. QED
      BY <2>1, <3>7, HandoverPartsPrime DEF CopyNews
  <2>3. CASE UNCHANGED <<saddr, ackPosted>>
    <3>1. ASSUME NEW d \in Clients PROVE HandoverOf(d)'
      BY <1>1, <2>1, <2>3, HandoverKept DEF handVars, clientVars
    <3>2. QED
      BY <2>1, <3>1, HandoverPartsPrime DEF CopyNews
  <2>4. QED
    BY <1>8, <2>2, <2>3 DEF Copied
<1>9. QED
  BY <1>3, <1>4, <1>5, <1>6, <1>7, <1>8 DEF Server

\* The inductive invariant behind the handshake: where the signal of each copy
\* can be while a write of it is due, and that the server reads and copies only
\* what a publication covers (addr.c, server.c:358-414).
THEOREM HandoverCorrect == Spec => []HandoverInv
<1>1. Init => HandoverInv
  <2> SUFFICES ASSUME Init PROVE HandoverInv
    OBVIOUS
  <2>1. ASSUME NEW c \in Clients PROVE HandoverOf(c)
    BY DEF Init, AddrInit, HandoverOf, SignalAtClient, SignalAtServer, AtNic, AtServer,
           AckDue
  <2>2. CopyNews
    BY DEF Init, CopyNews
  <2>3. QED
    BY <2>1, <2>2, HandoverParts
<1>2. TypeOK /\ HandoverInv /\ [Next]_vars => HandoverInv'
  <2> SUFFICES ASSUME TypeOK, HandoverInv, [Next]_vars PROVE HandoverInv'
    OBVIOUS
  <2>1. CASE UNCHANGED vars
    <3>1. CopyNews /\ \A c \in Clients : HandoverOf(c)
      BY HandoverParts
    <3>2. UNCHANGED <<clientVars, readVars, ackPosted, spc, clt>>
      BY <2>1 DEF vars, reqVars
    <3>3. ASSUME NEW c \in Clients PROVE HandoverOf(c)'
      BY <3>1, <3>2, HandoverKept DEF handVars, clientVars, readVars
    <3>4. QED
      BY <3>1, <3>2, <3>3, HandoverPartsPrime DEF CopyNews, readVars
  <2>2. QED
    BY <2>1, HandoverClient, HandoverNic, HandoverServer DEF Next, Terminating
<1>3. QED
  BY <1>1, <1>2, TypeCorrect, PTL DEF Spec

\* The pointers of a send buffer, of which client and server hold a copy each
\* and which both overwrite by RDMA, never have two writers, no write that the
\* other side waits for is lost, and what the server reads by is what the
\* client published last (addr.h, server.c:358-372, server.c:408-414).  It holds
\* for any number of clients, any sizes, and with IO phases that are empty.
THEOREM HandoverSafe == Spec => []Handover
<1>1. HandoverInv => Handover
  BY DEF HandoverInv
<1>2. QED
  BY <1>1, HandoverCorrect, PTL

(***************************************************************************)
(* What the server holds: the messages in its receive buffers.             *)
(***************************************************************************)
\* Every message packed is of one of the kinds.
Sizes(c) == \A n \in 1..Len(sent[c]) : \E m \in Msgs : sent[c][n].size = m.size

\* A message has at least two units and at most half the units of a region.
LEMMA SizeBounds ==
  ASSUME NEW c \in Clients, Sizes(c), NEW n \in 1..Len(sent[c])
  PROVE  /\ sent[c][n].size \in Nat /\ sent[c][n].size >= 2
         /\ 2 * sent[c][n].size <= RegionSize
         /\ sent[c][n].size >= HdrSize
<1>1. PICK m \in Msgs : sent[c][n].size = m.size
  BY DEF Sizes
<1>2. /\ m.size \in Nat /\ m.last \in Nat \ {0}
      /\ HdrSize + m.last <= m.size /\ 2 * m.size <= RegionSize
  BY MsgsAssumption
<1>3. HdrSize \in Nat \ {0}
  BY SizesAssumption
<1>4. QED
  BY <1>1, <1>2, <1>3

\* The listed messages lie one behind the other, from used to free.
HeldIn(l, b) ==
  /\ \A i \in 1..Len(l) :
       /\ l[i].size > 0 /\ l[i].addr + l[i].size <= RegionSize
       /\ RingPos(RegionSize, b, l[i].addr) + l[i].size <= RingPos(RegionSize, b, b.free)
  /\ \A i, j \in 1..Len(l) : i < j =>
       RingPos(RegionSize, b, l[i].addr) + l[i].size <= RingPos(RegionSize, b, l[j].addr)
  /\ l # <<>> => b.used # b.free

ReceiveInv == \A c \in Clients : Sizes(c) /\ HeldIn(list[c], rbuf[c])

\* The elements of a list.
LEMMA ListedTypes ==
  ASSUME NEW l \in Seq(Listed)
  PROVE  /\ Len(l) \in Nat
         /\ \A i \in 1..Len(l) :
              /\ l[i] \in Listed
              /\ l[i].addr \in 0..(RegionSize - 1) /\ l[i].size \in 0..RegionSize
<1>1. \A i \in 1..Len(l) : l[i] \in Listed
  BY ElementOfSeq
<1>2. \A i \in 1..Len(l) :
        l[i].addr \in 0..(RegionSize - 1) /\ l[i].size \in 0..RegionSize
  BY <1>1 DEF Listed
<1>3. QED
  BY <1>1, <1>2, LenProperties

\* A message that is granted space comes behind the others.
LEMMA HeldAppend ==
  ASSUME NEW l \in Seq(Listed), NEW b \in Buffers(RegionSize), HeldIn(l, b),
         NEW size \in Nat \ {0},
         NEW e, e = IF BufIsEmpty(b) THEN BufClear(b) ELSE b,
         NEW s, s = IsFreeSpaceEnough(RegionSize, e, size).buf,
         IsFreeSpaceEnough(RegionSize, e, size).enough,
         NEW entry \in Listed, entry.addr = s.free, entry.size = size
  PROVE  HeldIn(Append(l, entry), UseBuf(RegionSize, s, size))
<1> DEFINE N == RegionSize
           k == Append(l, entry)
<1>1. N \in Nat \ {0}
  BY SizesAssumption
<1>2. e \in Buffers(N)
  BY <1>1, BufClearType
<1>3. PICK u : u = UseBuf(N, s, size)
  OBVIOUS
<1>4. /\ s \in Buffers(N) /\ u \in Buffers(N) /\ u.used = e.used
      /\ u.used # u.free /\ s.free + size <= N
      /\ RingPos(N, e, e.free) <= RingPos(N, e, s.free)
      /\ RingPos(N, e, s.free) + size = RingPos(N, e, u.free)
  BY <1>1, <1>2, <1>3, SpaceBehind
<1>5. \A a : RingPos(N, u, a) = RingPos(N, e, a)
  BY <1>4 DEF RingPos
<1>6. PICK n \in Nat : n = Len(l)
  BY ListedTypes
<1>7. /\ Len(k) = n + 1 /\ k[n + 1] = entry /\ \A i \in 1..n : k[i] = l[i]
  BY <1>6, AppendProperties
<1>8. /\ s.free \in 0..(N - 1) /\ u.free \in 0..(N - 1) /\ e.free \in 0..(N - 1)
      /\ e.used \in 0..(N - 1)
  BY <1>2, <1>4 DEF Buffers
<1>9. \A i \in 1..n : l[i].addr \in 0..(N - 1) /\ l[i].size \in 0..N
  BY <1>6, ListedTypes
<1>10. \A a \in 0..(N - 1) : RingPos(N, e, a) \in Int
  BY <1>1, <1>8 DEF RingPos
<1>11. /\ \A i \in 1..n :
            /\ l[i].size > 0 /\ l[i].addr + l[i].size <= N
            /\ RingPos(N, e, l[i].addr) + l[i].size <= RingPos(N, e, e.free)
       /\ \A i, j \in 1..n : i < j =>
            RingPos(N, e, l[i].addr) + l[i].size <= RingPos(N, e, l[j].addr)
  <2>1. CASE BufIsEmpty(b)
    <3>1. l = <<>>
      BY <2>1 DEF HeldIn, BufIsEmpty
    <3>2. n = 0
      BY <1>6, <3>1
    <3>3. QED
      BY <3>2
  <2>2. CASE ~BufIsEmpty(b)
    <3>1. e = b
      BY <2>2
    <3>2. QED
      BY <1>6, <3>1 DEF HeldIn
  <2>3. QED
    BY <2>1, <2>2
<1>12. PICK ef \in Int, sf \in Int, uf \in Int :
         /\ ef = RingPos(N, e, e.free) /\ sf = RingPos(N, e, s.free)
         /\ uf = RingPos(N, e, u.free)
  BY <1>8, <1>10
<1>13. ef <= sf /\ sf + size = uf
  BY <1>4, <1>12
<1>14. ASSUME NEW i \in 1..(n + 1)
       PROVE  /\ k[i].size > 0 /\ k[i].addr + k[i].size <= N
              /\ RingPos(N, u, k[i].addr) + k[i].size <= RingPos(N, u, u.free)
  <2> HIDE DEF k
  <2>1. CASE i \in 1..n
    <3>1. PICK p \in Int, z \in Int : p = RingPos(N, e, l[i].addr) /\ z = l[i].size
      BY <1>9, <1>10, <2>1
    <3>2. p + z <= ef
      BY <1>11, <1>12, <2>1, <3>1
    <3>3. p + z <= uf
      BY <1>13, <3>1, <3>2
    <3>4. QED
      BY <1>5, <1>7, <1>11, <1>12, <2>1, <3>1, <3>3
  <2>2. CASE i = n + 1
    BY <1>4, <1>5, <1>7, <1>12, <1>13, <2>2
  <2>3. i \in 1..n \/ i = n + 1
    OBVIOUS
  <2>4. QED
    BY <2>1, <2>2, <2>3
<1>15. ASSUME NEW i \in 1..(n + 1), NEW j \in 1..(n + 1), i < j
       PROVE  RingPos(N, u, k[i].addr) + k[i].size <= RingPos(N, u, k[j].addr)
  <2> HIDE DEF k
  <2>1. i \in 1..n /\ (j \in 1..n \/ j = n + 1)
    BY <1>15
  <2>2. CASE j \in 1..n
    BY <1>5, <1>7, <1>11, <1>15, <2>1, <2>2
  <2>3. CASE j = n + 1
    <3>1. PICK p \in Int, z \in Int : p = RingPos(N, e, l[i].addr) /\ z = l[i].size
      BY SMTT(30), <1>9, <1>10, <2>1
    <3>2. p + z <= ef
      BY <1>11, <1>12, <2>1, <3>1
    <3>3. p + z <= sf
      BY <1>13, <3>1, <3>2
    <3>4. QED
      BY <1>5, <1>7, <1>12, <2>1, <2>3, <3>1, <3>3
  <2>4. QED
    BY <2>1, <2>2, <2>3
<1>16. Len(k) = n + 1 /\ u.used # u.free
  BY <1>4, <1>7
<1> HIDE DEF k
<1>17. HeldIn(k, u)
  BY <1>14, <1>15, <1>16 DEF HeldIn
<1>18. QED
  BY <1>3, <1>17 DEF k

\* A message that is refused space leaves the others where they are.
LEMMA HeldRefused ==
  ASSUME NEW l \in Seq(Listed), NEW b \in Buffers(RegionSize), HeldIn(l, b),
         NEW size \in Nat \ {0},
         NEW e, e = IF BufIsEmpty(b) THEN BufClear(b) ELSE b
  PROVE  HeldIn(l, IsFreeSpaceEnough(RegionSize, e, size).buf)
<1> DEFINE N == RegionSize
<1>1. N \in Nat \ {0}
  BY SizesAssumption
<1>2. e \in Buffers(N)
  BY <1>1, BufClearType
<1>3. PICK s : s = IsFreeSpaceEnough(N, e, size).buf
  OBVIOUS
<1>4. CASE BufIsEmpty(b)
  <2>1. l = <<>>
    BY <1>4 DEF HeldIn, BufIsEmpty
  <2>2. Len(l) = 0
    BY <2>1
  <2>3. QED
    BY <2>1, <2>2 DEF HeldIn
<1>5. CASE ~BufIsEmpty(b)
  <2>1. e = b
    BY <1>5
  <2>2. /\ s \in Buffers(N) /\ s.used = b.used
        /\ RingPos(N, b, b.free) <= RingPos(N, b, s.free)
        /\ b.used # b.free => s.used # s.free
    BY <1>1, <1>3, <2>1, SpaceRefused
  <2>3. \A a : RingPos(N, s, a) = RingPos(N, b, a)
    BY <2>2 DEF RingPos
  <2>4. \A a \in 0..(N - 1) : RingPos(N, b, a) \in Int
    BY <1>1 DEF RingPos, Buffers
  <2>5. s.free \in 0..(N - 1) /\ b.free \in 0..(N - 1)
    BY <2>2 DEF Buffers
  <2>6. ASSUME NEW i \in 1..Len(l)
        PROVE  RingPos(N, s, l[i].addr) + l[i].size <= RingPos(N, s, s.free)
    <3>1. PICK p \in Int, z \in Int : p = RingPos(N, b, l[i].addr) /\ z = l[i].size
      BY <2>4, ListedTypes
    <3>2. PICK bf \in Int, sf \in Int :
            bf = RingPos(N, b, b.free) /\ sf = RingPos(N, b, s.free)
      BY <2>4, <2>5
    <3>3. p + z <= bf /\ bf <= sf
      BY <2>2, <3>1, <3>2 DEF HeldIn
    <3>4. p + z <= sf
      BY <3>1, <3>2, <3>3
    <3>5. QED
      BY <2>3, <3>1, <3>2, <3>4
  <2>7. HeldIn(l, s)
    BY <2>2, <2>3, <2>6 DEF HeldIn
  <2>8. QED
    BY <1>3, <2>7
<1>6. QED
  BY <1>4, <1>5

\* Decoding the first message frees its part; the others stay.
LEMMA HeldDecode ==
  ASSUME NEW l \in Seq(Listed), NEW b \in Buffers(RegionSize), HeldIn(l, b),
         l # <<>>
  PROVE  HeldIn(Tail(l), FreeBuf(RegionSize, [b EXCEPT !.used = Head(l).addr],
                                 Head(l).size))
<1> DEFINE N == RegionSize
           k == Tail(l)
<1>1. N \in Nat \ {0}
  BY SizesAssumption
<1>2. PICK n \in Nat : n = Len(l)
  BY ListedTypes
<1>3. /\ n >= 1 /\ Head(l) = l[1] /\ Len(k) = n - 1
      /\ \A i \in 1..(n - 1) : k[i] = l[i + 1]
  <2>1. n # 0
    BY <1>2, EmptySeq
  <2>2. /\ Head(l) = l[1] /\ Len(k) = Len(l) - 1
        /\ \A i \in 1..Len(k) : k[i] = l[i + 1]
    BY HeadTailProperties
  <2>3. QED
    BY <1>2, <2>1, <2>2
<1>4. PICK addr \in 0..(N - 1), size \in Nat \ {0} :
        addr = l[1].addr /\ size = l[1].size /\ addr + size <= N
  <2>1. 1 \in 1..Len(l)
    BY <1>2, <1>3
  <2>2. l[1].addr \in 0..(N - 1) /\ l[1].size \in 0..N
    BY <2>1, ListedTypes
  <2>3. l[1].size > 0 /\ l[1].addr + l[1].size <= N
    BY <2>1 DEF HeldIn
  <2>4. QED
    BY <1>1, <2>2, <2>3
<1>5. PICK f : f = FreeBuf(N, [b EXCEPT !.used = addr], size)
  OBVIOUS
<1>6. /\ f \in Buffers(N) /\ f.free = b.free
      /\ \A a \in 0..(N - 1) :
           /\ RingPos(N, b, addr) + size <= RingPos(N, b, a)
                => RingPos(N, f, a) = RingPos(N, b, a) - RingPos(N, b, addr) - size
           /\ a = f.used /\ RingPos(N, b, addr) + size <= RingPos(N, b, a)
                => RingPos(N, b, a) = RingPos(N, b, addr) + size
  BY <1>1, <1>4, <1>5, SpaceFreed
<1>7. \A a \in 0..(N - 1) : RingPos(N, b, a) \in Int
  BY <1>1 DEF RingPos, Buffers
<1>8. PICK d \in Int : d = RingPos(N, b, addr) + size
  BY <1>4, <1>7
<1>9. \A a \in 0..(N - 1) : d <= RingPos(N, b, a) =>
        /\ RingPos(N, f, a) = RingPos(N, b, a) - d
        /\ a = f.used => RingPos(N, b, a) = d
  <2>1. ASSUME NEW a \in 0..(N - 1), d <= RingPos(N, b, a)
        PROVE  /\ RingPos(N, f, a) = RingPos(N, b, a) - d
               /\ a = f.used => RingPos(N, b, a) = d
    <3>1. /\ RingPos(N, f, a) = RingPos(N, b, a) - RingPos(N, b, addr) - size
          /\ a = f.used => RingPos(N, b, a) = RingPos(N, b, addr) + size
      BY <1>6, <1>8, <2>1
    <3>2. PICK p \in Int, q \in Int : p = RingPos(N, b, a) /\ q = RingPos(N, b, addr)
      BY <1>4, <1>7
    <3>3. p - q - size = p - d
      BY <1>4, <1>8, <3>2
    <3>4. QED
      BY <1>8, <3>1, <3>2, <3>3
  <2>2. QED
    BY <2>1
<1>10. /\ b.free \in 0..(N - 1) /\ d <= RingPos(N, b, b.free)
       /\ \A i \in 2..n : d <= RingPos(N, b, l[i].addr)
  <2>1. 1 \in 1..n /\ \A i \in 2..n : i \in 1..n /\ 1 < i
    BY <1>3
  <2>2. b.free \in 0..(N - 1)
    BY DEF Buffers
  <2>3. QED
    BY <1>2, <1>4, <1>8, <2>1, <2>2 DEF HeldIn
<1>11. \A i \in 1..n : l[i].addr \in 0..(N - 1) /\ l[i].size \in 0..N
  BY <1>2, ListedTypes
<1>12. \A i \in 1..(n - 1) : i + 1 \in 1..n /\ i + 1 \in 2..n
  OBVIOUS
<1> HIDE DEF k
<1>13. ASSUME NEW i \in 1..(n - 1)
       PROVE  /\ k[i].size > 0 /\ k[i].addr + k[i].size <= N
              /\ RingPos(N, f, k[i].addr) + k[i].size <= RingPos(N, f, f.free)
  <2>1. PICK p \in Int, z \in Int, bf \in Int :
          /\ p = RingPos(N, b, l[i + 1].addr) /\ z = l[i + 1].size
          /\ bf = RingPos(N, b, b.free)
    BY <1>7, <1>10, <1>11, <1>12
  <2>2. p + z <= bf /\ z > 0 /\ l[i + 1].addr + z <= N
    BY <1>2, <1>12, <2>1 DEF HeldIn
  <2>3. RingPos(N, f, l[i + 1].addr) = p - d /\ RingPos(N, f, f.free) = bf - d
    BY <1>6, <1>9, <1>10, <1>11, <1>12, <2>1
  <2>4. (p - d) + z <= bf - d
    BY <2>1, <2>2
  <2>5. QED
    BY <1>3, <2>1, <2>2, <2>3, <2>4
<1>14. ASSUME NEW i \in 1..(n - 1), NEW j \in 1..(n - 1), i < j
       PROVE  RingPos(N, f, k[i].addr) + k[i].size <= RingPos(N, f, k[j].addr)
  <2>1. PICK p \in Int, z \in Int, q \in Int :
          /\ p = RingPos(N, b, l[i + 1].addr) /\ z = l[i + 1].size
          /\ q = RingPos(N, b, l[j + 1].addr)
    <3>1. i + 1 \in 1..n /\ j + 1 \in 1..n
      BY <1>12
    <3>2. /\ l[i + 1].addr \in 0..(N - 1) /\ l[j + 1].addr \in 0..(N - 1)
          /\ l[i + 1].size \in Int
      BY <1>11, <3>1
    <3>3. QED
      BY <1>7, <3>2
  <2>2. i + 1 < j + 1
    BY <1>14
  <2>3. p + z <= q
    BY <1>2, <1>12, <2>1, <2>2 DEF HeldIn
  <2>4. RingPos(N, f, l[i + 1].addr) = p - d /\ RingPos(N, f, l[j + 1].addr) = q - d
    BY <1>9, <1>10, <1>11, <1>12, <2>1
  <2>5. (p - d) + z <= q - d
    BY <2>1, <2>3
  <2>6. QED
    BY <1>3, <2>1, <2>4, <2>5
<1>15. k # <<>> => f.used # f.free
  <2>1. ASSUME k # <<>>, f.used = f.free PROVE FALSE
    <3>1. n - 1 # 0
      <4>1. k \in Seq(Listed)
        BY HeadTailProperties DEF k
      <4>2. QED
        BY <1>3, <2>1, <4>1, EmptySeq
    <3>2. 1 \in 1..(n - 1) /\ 2 \in 2..n /\ 2 \in 1..n
      BY <1>3, <3>1
    <3>3. PICK p \in Int, z \in Int, bf \in Int :
            /\ p = RingPos(N, b, l[2].addr) /\ z = l[2].size
            /\ bf = RingPos(N, b, b.free)
      BY SMTT(30), <1>7, <1>10, <1>11, <3>2
    <3>4. p + z <= bf /\ z > 0 /\ d <= p
      BY <1>2, <1>10, <3>2, <3>3 DEF HeldIn
    <3>5. bf = d
      BY <1>6, <1>9, <1>10, <2>1, <3>3
    <3>6. QED
      BY <3>3, <3>4, <3>5
  <2>2. QED
    BY <2>1
<1>16. HeldIn(k, f)
  BY <1>3, <1>13, <1>14, <1>15 DEF HeldIn
<1>17. QED
  BY <1>3, <1>4, <1>5, <1>16 DEF k

\* Messages one behind the other lie apart, and the first one is in the used
\* part.
LEMMA HeldApart ==
  ASSUME NEW l \in Seq(Listed), NEW b \in Buffers(RegionSize), HeldIn(l, b)
  PROVE  /\ l # <<>> => CheckUsedAddr(b, Head(l).addr)
         /\ \A i, j \in 1..Len(l) : i < j =>
              \/ l[i].addr + l[i].size <= l[j].addr
              \/ l[j].addr + l[j].size <= l[i].addr
         /\ \A i \in 1..Len(l) : l[i].addr + l[i].size <= RegionSize
<1>1. RegionSize \in Nat \ {0}
  BY SizesAssumption
<1>2. b.used \in 0..(RegionSize - 1) /\ b.free \in 0..(RegionSize - 1)
  BY DEF Buffers
<1>3. \A i \in 1..Len(l) :
        /\ l[i].addr \in 0..(RegionSize - 1) /\ l[i].size \in 0..RegionSize
        /\ l[i].size > 0 /\ l[i].addr + l[i].size <= RegionSize
        /\ RingPos(RegionSize, b, l[i].addr) + l[i].size
             <= RingPos(RegionSize, b, b.free)
  BY ListedTypes DEF HeldIn
<1>4. ASSUME l # <<>> PROVE CheckUsedAddr(b, Head(l).addr)
  <2>1. Len(l) \in Nat /\ Len(l) # 0 /\ Head(l) = l[1]
    BY <1>4, ListedTypes, EmptySeq, HeadTailProperties
  <2>2. 1 \in 1..Len(l)
    BY <2>1
  <2>3. PICK a \in 0..(RegionSize - 1), z \in Nat \ {0} : a = l[1].addr /\ z = l[1].size
    BY <1>3, <2>2
  <2>4. RingPos(RegionSize, b, a) + z <= RingPos(RegionSize, b, b.free)
    BY <1>3, <2>2, <2>3
  <2>5. b.used # b.free
    BY <1>4 DEF HeldIn
  <2>6. QED
    BY <1>1, <2>1, <2>3, <2>4, <2>5, RingPosInside
<1>5. ASSUME NEW i \in 1..Len(l), NEW j \in 1..Len(l), i < j
      PROVE  \/ l[i].addr + l[i].size <= l[j].addr
             \/ l[j].addr + l[j].size <= l[i].addr
  <2>1. PICK a \in 0..(RegionSize - 1), z \in Nat \ {0} : a = l[i].addr /\ z = l[i].size
    BY <1>3
  <2>2. PICK d \in 0..(RegionSize - 1), w \in Nat \ {0} : d = l[j].addr /\ w = l[j].size
    BY <1>3
  <2>3. /\ d + w <= RegionSize
        /\ RingPos(RegionSize, b, d) + w <= RingPos(RegionSize, b, b.free)
    BY <1>3, <2>2
  <2>4. RingPos(RegionSize, b, a) + z <= RingPos(RegionSize, b, d)
    BY <1>5, <2>1, <2>2 DEF HeldIn
  <2>5. a + z <= d \/ d + w <= a
    BY <1>1, <2>3, <2>4, RingPosApart
  <2>6. QED
    BY <2>1, <2>2, <2>5
<1>6. QED
  BY <1>3, <1>4, <1>5

(* The steps *)

\* A message that is copied to the list comes behind the others there.
LEMMA CopyMsgHeld ==
  ASSUME TypeOK, ReceiveInv, CopyMsg
  PROVE  \A c \in Clients : HeldIn(list'[c], rbuf'[c])
<1> DEFINE k     == clt
           size  == MsgSize(k)
           space == SpaceFor(k, size)
           entry == [addr |-> space.buf.free, size |-> size,
                     data |-> SubSeq(region[k], 1, size)]
           e     == IF BufIsEmpty(rbuf[k]) THEN BufClear(rbuf[k]) ELSE rbuf[k]
<1>1. /\ k \in Clients /\ AtHeader(k) /\ size <= Len(region[k]) /\ space.enough
      /\ region[k] \in Seq(Unit) /\ Len(region[k]) \in Nat
      /\ list[k] \in Seq(Listed) /\ rbuf[k] \in Buffers(RegionSize)
  BY LenProperties DEF TypeOK, CopyMsg
<1>2. /\ list' = [list EXCEPT ![k] = Append(list[k], entry)]
      /\ rbuf' = [rbuf EXCEPT ![k] = UseBuf(RegionSize, space.buf, size)]
  BY Zenon DEF CopyMsg
<1> HIDE DEF k
<1>3. size \in Nat \ {0}
  <2>1. PICK n \in 1..Len(sent[k]) : region[k][1] = <<n, 1>>
    BY <1>1 DEF AtHeader
  <2>2. size = sent[k][n].size
    BY <2>1 DEF MsgSize
  <2>3. sent[k][n].size \in Nat /\ sent[k][n].size >= 2
    BY <1>1, SizeBounds DEF ReceiveInv
  <2> HIDE DEF size
  <2>4. QED
    BY <2>2, <2>3
<1>4. space = IsFreeSpaceEnough(RegionSize, e, size)
  BY DEF SpaceFor
<1> HIDE DEF size, e
<1>5. space.buf \in Buffers(RegionSize) /\ size \in 0..RegionSize
  BY <1>1, <1>3, SpaceForType
<1> HIDE DEF space
<1>6. entry \in Listed /\ entry.addr = space.buf.free /\ entry.size = size
  <2>1. space.buf.free \in 0..(RegionSize - 1)
    BY <1>5 DEF Buffers
  <2>2. SubSeq(region[k], 1, size) \in Seq(Unit)
    <3>1. \A i \in 1..size : i \in 1..Len(region[k])
      BY <1>1, <1>3
    <3>2. \A i \in 1..size : region[k][i] \in Unit
      BY <1>1, <3>1, ElementOfSeq
    <3>3. QED
      BY <1>3, <3>2, SubSeqProperties
  <2>3. QED
    BY <1>5, <2>1, <2>2 DEF Listed
<1> HIDE DEF entry
<1>7. HeldIn(Append(list[k], entry), UseBuf(RegionSize, space.buf, size))
  <2>1. HeldIn(list[k], rbuf[k])
    BY <1>1 DEF ReceiveInv
  <2>2. PICK b : b = rbuf[k] /\ b \in Buffers(RegionSize)
    BY <1>1
  <2>3. e = IF BufIsEmpty(b) THEN BufClear(b) ELSE b
    BY <2>2 DEF e
  <2>4. PICK s : s = space.buf
    OBVIOUS
  <2>5. s = IsFreeSpaceEnough(RegionSize, e, size).buf
        /\ IsFreeSpaceEnough(RegionSize, e, size).enough
    BY <1>1, <1>4, <2>4
  <2>6. HeldIn(Append(list[k], entry), UseBuf(RegionSize, s, size))
    BY <1>1, <1>3, <1>6, <2>1, <2>2, <2>3, <2>4, <2>5, HeldAppend
  <2>7. QED
    BY <2>4, <2>6
<1>8. ASSUME NEW c \in Clients PROVE HeldIn(list'[c], rbuf'[c])
  <2>1. CASE c = k
    <3>1. list'[k] = Append(list[k], entry)
          /\ rbuf'[k] = UseBuf(RegionSize, space.buf, size)
      BY <1>1, <1>2 DEF TypeOK
    <3>2. QED
      BY <1>7, <2>1, <3>1
  <2>2. CASE c # k
    <3>1. list'[c] = list[c] /\ rbuf'[c] = rbuf[c]
      BY <1>2, <2>2 DEF TypeOK
    <3>2. QED
      BY <3>1 DEF ReceiveInv
  <2>3. QED
    BY <2>1, <2>2
<1>9. QED
  BY <1>8

\* The end of the copying: a tail that was given up in vain is behind all that
\* is listed.
LEMMA CopiedHeld ==
  ASSUME TypeOK, ReceiveInv, Copied
  PROVE  \A c \in Clients : HeldIn(list'[c], rbuf'[c])
<1>1. list' = list /\ clt \in Clients /\ CopyEnds(clt)
  BY DEF Copied, TypeOK
<1>2. ASSUME NEW c \in Clients PROVE HeldIn(list[c], rbuf[c])
  BY DEF ReceiveInv
<1>3. CASE UNCHANGED rbuf
  BY <1>1, <1>2, <1>3
<1>4. CASE AtHeader(clt) /\ rbuf' = [rbuf EXCEPT ![clt] = SpaceFor(clt, MsgSize(clt)).buf]
  <2>1. PICK k \in Clients : k = clt
    BY <1>1
  <2>2. PICK size \in Nat \ {0} : size = MsgSize(k)
    <3>1. PICK n \in 1..Len(sent[k]) : region[k][1] = <<n, 1>>
      BY <1>4, <2>1 DEF AtHeader
    <3>2. MsgSize(k) = sent[k][n].size
      BY <3>1 DEF MsgSize
    <3>3. sent[k][n].size \in Nat /\ sent[k][n].size >= 2
      BY SizeBounds DEF ReceiveInv
    <3>4. QED
      BY <3>2, <3>3
  <2>3. list[k] \in Seq(Listed) /\ rbuf[k] \in Buffers(RegionSize)
    BY DEF TypeOK
  <2>4. PICK b : b = rbuf[k]
    OBVIOUS
  <2>5. PICK e : e = IF BufIsEmpty(b) THEN BufClear(b) ELSE b
    OBVIOUS
  <2>6. SpaceFor(k, size) = IsFreeSpaceEnough(RegionSize, e, size)
    BY <2>4, <2>5 DEF SpaceFor
  <2>7. HeldIn(list[k], IsFreeSpaceEnough(RegionSize, e, size).buf)
    BY <1>2, <2>3, <2>4, <2>5, HeldRefused
  <2>8. rbuf'[k] = SpaceFor(k, size).buf /\ \A c \in Clients : c # k => rbuf'[c] = rbuf[c]
    BY <1>4, <2>1, <2>2 DEF TypeOK
  <2>9. ASSUME NEW c \in Clients PROVE HeldIn(list'[c], rbuf'[c])
    <3>1. CASE c = k
      BY <1>1, <2>6, <2>7, <2>8, <3>1
    <3>2. CASE c # k
      BY <1>1, <1>2, <2>8, <3>2
    <3>3. QED
      BY <3>1, <3>2
  <2>10. QED
    BY <2>9
<1>5. QED
  BY <1>1, <1>3, <1>4 DEF CopyEnds

\* A round of decoding takes the first message of every list.
LEMMA DecodeRoundHeld ==
  ASSUME TypeOK, CountsAgree, ReceiveInv, DecodeRound
  PROVE  \A c \in Clients : HeldIn(list'[c], rbuf'[c])
<1> SUFFICES ASSUME NEW c \in Clients PROVE HeldIn(list'[c], rbuf'[c])
  OBVIOUS
<1>1. list[c] # <<>>
  BY RoundHasAll DEF DecodeRound
<1>2. /\ list[c] \in Seq(Listed) /\ rbuf[c] \in Buffers(RegionSize)
      /\ HeldIn(list[c], rbuf[c])
  BY DEF TypeOK, ReceiveInv
<1>3. /\ list'[c] = Tail(list[c])
      /\ rbuf'[c] = FreeBuf(RegionSize, [rbuf[c] EXCEPT !.used = Head(list[c]).addr],
                            Head(list[c]).size)
  BY DEF DecodeRound
<1>4. QED
  BY <1>1, <1>2, <1>3, HeldDecode

\* Messages are packed in the sizes the kinds have.
LEMMA SizesKept ==
  ASSUME TypeOK, NEW c \in Clients, Sizes(c), [Next]_vars
  PROVE  Sizes(c)'
<1>1. CASE sent'[c] = sent[c]
  BY <1>1 DEF Sizes
<1>2. CASE sent'[c] # sent[c]
  <2>1. Pack(c)
    <3>1. PICK d \in Clients : Pack(d)
      BY <1>2 DEF Next, vars, clientVars, Application, Call, IoEnd, Finalize, InCall,
         EnsureSkip, BufFreeReclaim, BufFreePublish, BufFreeReturn, IoEndReturn, IoDone,
         SendFinal, AddrLands, ReadLands, AckLands, Server, WaitSome, Poll, Drained,
         PickClient, ReadData, SkipRead, TestRead, CopyMsg, Copied, DecodeRound, Decoded,
         ServerExit, Terminating
    <3>2. d = c
      BY <1>2, <3>1 DEF Pack, TypeOK
    <3>3. QED
      BY <3>1, <3>2
  <2>2. PICK n \in Nat : n = Len(sent[c])
    BY LenProperties DEF TypeOK
  <2>3. PICK x \in Seq([size : Nat, at : 0..(SendBufSize - 1)]) : x = sent[c]
    BY DEF TypeOK
  <2>4. PICK r : r = [size |-> want[c].size, at |-> cbuf[c].free]
    OBVIOUS
  <2>5. r \in [size : Nat, at : 0..(SendBufSize - 1)] /\ r.size = want[c].size
        /\ want[c] \in Msgs
    <3>1. want[c] \in Msgs /\ cbuf[c] \in Buffers(SendBufSize)
      BY DEF TypeOK
    <3>2. want[c].size \in Nat /\ cbuf[c].free \in 0..(SendBufSize - 1)
      BY <3>1, MsgsAssumption DEF Buffers
    <3>3. QED
      BY <2>4, <3>1, <3>2
  <2>6. sent'[c] = Append(x, r)
    BY <2>1, <2>3, <2>4 DEF Pack, TypeOK
  <2>7. /\ Len(sent'[c]) = n + 1 /\ sent'[c][n + 1] = r
        /\ \A i \in 1..n : sent'[c][i] = sent[c][i]
    BY <2>2, <2>3, <2>5, <2>6, AppendProperties
  <2>8. \A i \in 1..(n + 1) : i \in 1..n \/ i = n + 1
    OBVIOUS
  <2>9. \A i \in 1..(n + 1) : \E m \in Msgs : sent'[c][i].size = m.size
    BY <2>2, <2>5, <2>7, <2>8 DEF Sizes
  <2>10. QED
    BY <2>7, <2>9 DEF Sizes
<1>3. QED
  BY <1>1, <1>2

\* The inductive invariant of the receive buffers.
THEOREM ReceiveCorrect == Spec => []ReceiveInv
<1>1. Init => ReceiveInv
  <2> SUFFICES ASSUME Init, NEW c \in Clients PROVE Sizes(c) /\ HeldIn(list[c], rbuf[c])
    BY DEF ReceiveInv
  <2>1. sent[c] = <<>> /\ list[c] = <<>>
    BY DEF Init
  <2>2. Len(sent[c]) = 0 /\ Len(list[c]) = 0
    BY <2>1
  <2>3. QED
    BY <2>1, <2>2 DEF Sizes, HeldIn
<1>2. TypeOK /\ CountsAgree /\ ReceiveInv /\ [Next]_vars => ReceiveInv'
  <2> SUFFICES ASSUME TypeOK, CountsAgree, ReceiveInv, [Next]_vars PROVE ReceiveInv'
    OBVIOUS
  <2>1. \A c \in Clients : Sizes(c)'
    BY SizesKept DEF ReceiveInv
  <2>2. \A c \in Clients : HeldIn(list'[c], rbuf'[c])
    <3>1. CASE CopyMsg
      BY <3>1, CopyMsgHeld
    <3>2. CASE Copied
      BY <3>2, CopiedHeld
    <3>3. CASE DecodeRound
      BY <3>3, DecodeRoundHeld
    <3>4. CASE ~(CopyMsg \/ Copied \/ DecodeRound)
      <4>1. UNCHANGED <<list, rbuf>>
        BY <3>4 DEF Next, vars, listVars, Application, InCall, AddrLands, ReadLands,
           AckLands, Server, WaitSome, Poll, Drained, PickClient, ReadData, SkipRead,
           TestRead, Decoded, ServerExit, Terminating
      <4>2. QED
        BY <4>1 DEF ReceiveInv
    <3>5. QED
      BY <3>1, <3>2, <3>3, <3>4
  <2>3. ReceiveInv' <=> \A c \in Clients : Sizes(c)' /\ HeldIn(list'[c], rbuf'[c])
    BY DEF ReceiveInv, HeldIn
  <2>4. QED
    BY <2>1, <2>2, <2>3
<1>3. QED
  BY <1>1, <1>2, TypeCorrect, CountsCorrect, PTL DEF Spec

\* No message that waits for its round is overwritten by one that is copied to
\* the same receive buffer, and cfio_recv_unpack_msg_size's assertion
\* (recv.c:224) holds for the next one, in every execution.
THEOREM ListedSafe == Spec => []ListedApart
<1>1. TypeOK /\ ReceiveInv => ListedApart
  <2> SUFFICES ASSUME TypeOK, ReceiveInv PROVE ListedApart
    OBVIOUS
  <2>1. ASSUME NEW c \in Clients
        PROVE  /\ list[c] \in Seq(Listed) /\ rbuf[c] \in Buffers(RegionSize)
               /\ HeldIn(list[c], rbuf[c])
    BY DEF TypeOK, ReceiveInv
  <2>2. QED
    BY <2>1, HeldApart DEF ListedApart
<1>2. QED
  BY <1>1, TypeCorrect, ReceiveCorrect, PTL

(***************************************************************************)
(* The two conditions the theorems depend on, both of which the code can   *)
(* violate: the runs exact_fill and partial_drain show how.  The second is *)
(* CopyOnlyRead.                                                           *)
(***************************************************************************)
\* No message has ended exactly at the end of its client's buffer: use_buf
\* records a wrong end_addr then.
NeverFillsUp ==
  \A c \in Clients : \A n \in 1..Len(sent[c]) :
    sent[c][n].at + sent[c][n].size # SendBufSize

(***************************************************************************)
(* The inductive invariant, client by client.                              *)
(***************************************************************************)
\* The messages the server has taken, decoded or listed.
TakenNum(c) == Len(delivered[c]) + Len(list[c])
Untaken(c) == (TakenNum(c) + 1)..Len(sent[c])

\* Where a message starts in the stream of the used part of the buffer; the
\* message after the last one starts at free.
MsgOff(c, n) == IF n <= Len(sent[c]) THEN RingOff(cbuf[c], sent[c][n].at)
                                     ELSE RingOff(cbuf[c], cbuf[c].free)

\* Every message not taken lies in one piece of the used part ...
Placed(c) ==
  /\ RingOK(cbuf[c])
  /\ TakenNum(c) <= Len(sent[c])
  /\ \A n \in Untaken(c) : RingPiece(cbuf[c], sent[c][n].at, sent[c][n].size)

\* ... right behind the one before it ...
Chained(c) ==
  /\ \A n \in Untaken(c) : MsgOff(c, n + 1) = MsgOff(c, n) + sent[c][n].size
  /\ \A m, n \in (TakenNum(c) + 1)..(Len(sent[c]) + 1) :
       m <= n => MsgOff(c, m) <= MsgOff(c, n)

\* ... and is intact.
Intact(c) ==
  \A n \in Untaken(c) : \A k \in 1..sent[c][n].size :
    cmem[c][sent[c][n].at + k - 1] = <<n, k>>

\* The first P messages are published.  All of them are taken when the client
\* is not waiting or its acknowledgement is on the way.
Published(c, P) ==
  /\ TakenNum(c) <= P /\ P <= Len(sent[c])
  /\ MsgOff(c, P + 1) = RingOff(cbuf[c], caddr[c].free)
  /\ caddr[c].signal # 1 \/ AckDue(c) => P = TakenNum(c)
  /\ cpc[c] \in {"buf_free", "final_end", "final", "done"} => P = Len(sent[c])
SomePublished(c) == \E P \in Nat : Published(c, P)

\* The pointers last published, as the buffer is now.
PubWraps(c) == caddr[c].free < caddr[c].used
PubLim(c) == IF PubWraps(c) THEN caddr[c].end ELSE caddr[c].free
Pointers(c) ==
  /\ RingPointer(cbuf[c], caddr[c].free)
  /\ caddr[c].signal = 1 =>
       /\ cbuf[c].used = caddr[c].used
       /\ PubWraps(c) => RingWraps(cbuf[c]) /\ caddr[c].end = cbuf[c].end

\* The server is reading or copying what client c published.
Copying(c) == spc = "copy" /\ clt = c
Active(c) == ~readDone[c] \/ region[c] # <<>> \/ Copying(c)

\* What has been read but not copied starts here in the stream.
Start(c) == IF Active(c) THEN RingOff(cbuf[c], readAddr[c]) - Len(region[c]) ELSE 0

\* It is where the first message not taken starts.
AtStart(c) ==
  caddr[c].signal = 1 /\ ~AckDue(c) => MsgOff(c, TakenNum(c) + 1) = Start(c)

\* How far the server has read.
Cursor(c) ==
  /\ saddr[c].signal = 1 /\ Active(c) =>
       /\ \/ readAddr[c] >= caddr[c].used /\ readAddr[c] <= PubLim(c)
          \/ PubWraps(c) /\ 0 <= readAddr[c] /\ readAddr[c] <= caddr[c].free
       /\ readDone[c] => readAddr[c] = caddr[c].free
       /\ PubWraps(c) /\ readAddr[c] >= caddr[c].used /\ readAddr[c] = caddr[c].end
            => ~readDone[c] /\ region[c] = <<>>
  /\ ~readDone[c] /\ region[c] = <<>> => RingOff(cbuf[c], readAddr[c]) = 0

\* Every posted read takes its part of the stream to its place.
ReadsRight(c) ==
  \A i \in 1..Len(reads[c]) :
    /\ reads[c][i].to >= 0 /\ reads[c][i].len >= 1
    /\ reads[c][i].to + reads[c][i].len <= Len(region[c])
    /\ RingPiece(cbuf[c], reads[c][i].from, reads[c][i].len)
    /\ RingOff(cbuf[c], reads[c][i].from) = Start(c) + reads[c][i].to

\* No posted read is to write the j-th unit of the region.
Settled(c, j) ==
  \A i \in 1..Len(reads[c]) :
    ~(reads[c][i].to < j /\ j <= reads[c][i].to + reads[c][i].len)

\* The region holds the stream, except where a read is still to write it.
RegionRight(c) ==
  \A j \in 1..Len(region[c]) : \A a \in 0..(SendBufSize - 1) :
    /\ Settled(c, j) /\ RingPiece(cbuf[c], a, 1)
    /\ RingOff(cbuf[c], a) = Start(c) + j - 1
    => region[c][j] = cmem[c][a]

\* What has been taken, message by message.
TakenRight(c) ==
  /\ \A i \in 1..Len(delivered[c]) : delivered[c][i] = Image(i, sent[c][i].size)
  /\ \A i \in 1..Len(list[c]) :
       list[c][i].data = Image(Len(delivered[c]) + i,
                               sent[c][Len(delivered[c]) + i].size)

Layout(c) == Sizes(c) /\ Placed(c) /\ Chained(c) /\ Intact(c)
Reading(c) == Cursor(c) /\ ReadsRight(c) /\ RegionRight(c)
FlowOf(c) == /\ Layout(c) /\ SomePublished(c) /\ Pointers(c) /\ AtStart(c)
             /\ Reading(c) /\ TakenRight(c)

\* When the copying starts and not all is read, the region is full, and the
\* receive buffer, of the same size, cannot take all of it: the region does
\* not become empty before the publication is read to its end.
NotDrained ==
  /\ spc = "test" /\ ~readDone[clt] /\ region[clt] # <<>> =>
       rest[clt] > 0 \/ Len(region[clt]) >= RegionSize
  /\ spc = "copy" /\ ~readDone[clt] =>
       Len(region[clt]) > FreeBufSize(RegionSize, rbuf[clt])

FlowInv == NotDrained /\ \A c \in Clients : FlowOf(c)

(* Types *)

\* What the type invariant says of one client.
LEMMA FlowTypes ==
  ASSUME TypeOK, NEW c \in Clients
  PROVE  /\ SendBufSize \in Nat \ {0} /\ RegionSize \in Nat \ {0}
         /\ cbuf[c] \in Buffers(SendBufSize) /\ rbuf[c] \in Buffers(RegionSize)
         /\ caddr[c] \in Addrs /\ saddr[c] \in Addrs
         /\ cmem[c] \in [0..(SendBufSize - 1) -> Unit]
         /\ sent[c] \in Seq([size : Nat, at : 0..(SendBufSize - 1)])
         /\ Len(sent[c]) \in Nat /\ TakenNum(c) \in Nat
         /\ \A n \in 1..Len(sent[c]) :
              sent[c][n].at \in 0..(SendBufSize - 1) /\ sent[c][n].size \in Nat
         /\ readAddr[c] \in Int
         /\ region[c] \in Seq(Unit) /\ Len(region[c]) \in Nat
         /\ reads[c] \in Seq(ReadOps) /\ Len(reads[c]) \in Nat
         /\ \A i \in 1..Len(reads[c]) : reads[c][i] \in ReadOps
         /\ list[c] \in Seq(Listed) /\ Len(list[c]) \in Nat
         /\ delivered[c] \in Seq(Seq(Unit)) /\ Len(delivered[c]) \in Nat
<1>1. SendBufSize \in Nat \ {0} /\ RegionSize \in Nat \ {0}
  BY SizesAssumption
<1>2. /\ cbuf[c] \in Buffers(SendBufSize) /\ rbuf[c] \in Buffers(RegionSize)
      /\ caddr[c] \in Addrs /\ saddr[c] \in Addrs
      /\ cmem[c] \in [0..(SendBufSize - 1) -> Unit] /\ readAddr[c] \in Int
      /\ sent[c] \in Seq([size : Nat, at : 0..(SendBufSize - 1)])
      /\ region[c] \in Seq(Unit) /\ reads[c] \in Seq(ReadOps)
      /\ list[c] \in Seq(Listed) /\ delivered[c] \in Seq(Seq(Unit))
  BY DEF TypeOK
<1>3. /\ Len(sent[c]) \in Nat /\ Len(region[c]) \in Nat /\ Len(reads[c]) \in Nat
      /\ Len(list[c]) \in Nat /\ Len(delivered[c]) \in Nat
  BY <1>2, LenProperties
<1>4. TakenNum(c) \in Nat
  <2> DEFINE d == Len(delivered[c])
             l == Len(list[c])
  <2>1. d \in Nat /\ l \in Nat
    BY <1>3
  <2> HIDE DEF d, l
  <2>2. d + l \in Nat
    BY <2>1
  <2>3. QED
    BY <2>2 DEF TakenNum, d, l
<1>5. \A n \in 1..Len(sent[c]) : sent[c][n] \in [size : Nat, at : 0..(SendBufSize - 1)]
  BY <1>2, ElementOfSeq
<1>6. \A n \in 1..Len(sent[c]) :
        sent[c][n].at \in 0..(SendBufSize - 1) /\ sent[c][n].size \in Nat
  BY <1>5
<1>7. \A i \in 1..Len(reads[c]) : reads[c][i] \in ReadOps
  BY <1>2, ElementOfSeq
<1>8. QED
  BY <1>1, <1>2, <1>3, <1>4, <1>6, <1>7

(* What depends on what *)

\* What the client packed and the server took.
LEMMA LayoutFrame ==
  ASSUME NEW c \in Clients, Layout(c),
         cbuf'[c] = cbuf[c], cmem'[c] = cmem[c], sent'[c] = sent[c],
         TakenNum(c)' = TakenNum(c)
  PROVE  Layout(c)' /\ \A n : MsgOff(c, n)' = MsgOff(c, n)
<1>1. \A n : MsgOff(c, n)' = MsgOff(c, n)
  BY DEF MsgOff
<1>2. Untaken(c)' = Untaken(c)
  BY DEF Untaken
<1>3. Sizes(c)'
  BY DEF Layout, Sizes
<1>4. Placed(c)'
  BY <1>2 DEF Layout, Placed
<1>5. Chained(c)'
  BY <1>1, <1>2 DEF Layout, Chained
<1>6. Intact(c)'
  BY <1>2 DEF Layout, Intact
<1>7. QED
  BY <1>1, <1>3, <1>4, <1>5, <1>6 DEF Layout

\* What is published of it.
LEMMA PublishedFrame ==
  ASSUME NEW c \in Clients, SomePublished(c),
         \A n : MsgOff(c, n)' = MsgOff(c, n),
         cbuf'[c] = cbuf[c], caddr'[c].free = caddr[c].free, sent'[c] = sent[c],
         caddr'[c].signal = caddr[c].signal, ackPosted'[c] = ackPosted[c],
         TakenNum(c)' = TakenNum(c),
         \/ cpc'[c] = cpc[c]
         \/ cpc[c] \in {"buf_free", "final_end", "final", "done"}
         \/ cpc'[c] \notin {"buf_free", "final_end", "final", "done"}
  PROVE  SomePublished(c)'
<1>1. PICK P \in Nat : Published(c, P)
  BY DEF SomePublished
<1>2. Published(c, P)'
  BY <1>1 DEF Published, AckDue
<1>3. QED
  BY <1>2 DEF SomePublished

\* Pointers that stay keep their part of the invariant.
LEMMA PointersFrame ==
  ASSUME NEW c \in Clients, Pointers(c), cbuf'[c] = cbuf[c], caddr'[c] = caddr[c]
  PROVE  Pointers(c)'
BY DEF Pointers, PubWraps

\* Where the server is in the stream.
LEMMA StartFrame ==
  ASSUME NEW c \in Clients,
         cbuf'[c] = cbuf[c], readDone'[c] = readDone[c], region'[c] = region[c],
         readAddr'[c] = readAddr[c], Copying(c)' <=> Copying(c)
  PROVE  Start(c)' = Start(c) /\ (Active(c)' <=> Active(c))
<1>1. Active(c)' <=> Active(c)
  BY DEF Active
<1>2. QED
  BY <1>1 DEF Start

\* Reads and a region that stay keep theirs.
LEMMA ReadingFrame ==
  ASSUME NEW c \in Clients, Reading(c),
         Start(c)' = Start(c), Active(c)' <=> Active(c),
         cbuf'[c] = cbuf[c], cmem'[c] = cmem[c], caddr'[c] = caddr[c],
         saddr'[c].signal = saddr[c].signal, readAddr'[c] = readAddr[c],
         readDone'[c] = readDone[c], region'[c] = region[c], reads'[c] = reads[c]
  PROVE  Reading(c)'
<1>1. Cursor(c)'
  BY DEF Reading, Cursor, PubWraps, PubLim
<1>2. ReadsRight(c)'
  BY DEF Reading, ReadsRight
<1>3. \A j : Settled(c, j)' <=> Settled(c, j)
  BY DEF Settled
<1>4. RegionRight(c)'
  BY <1>3 DEF Reading, RegionRight
<1>5. QED
  BY <1>1, <1>2, <1>4 DEF Reading

\* A list and a receive buffer that stay keep theirs.
LEMMA TakenFrame ==
  ASSUME NEW c \in Clients, TakenRight(c),
         sent'[c] = sent[c], delivered'[c] = delivered[c], list'[c] = list[c]
  PROVE  TakenRight(c)' /\ TakenNum(c)' = TakenNum(c)
BY DEF TakenRight, TakenNum

\* A step that leaves everything of client c alone.
LEMMA FlowFrame ==
  ASSUME NEW c \in Clients, FlowOf(c),
         cpc'[c] = cpc[c], cbuf'[c] = cbuf[c], cmem'[c] = cmem[c],
         caddr'[c] = caddr[c], sent'[c] = sent[c], saddr'[c] = saddr[c],
         readAddr'[c] = readAddr[c], readDone'[c] = readDone[c],
         region'[c] = region[c], list'[c] = list[c], delivered'[c] = delivered[c],
         reads'[c] = reads[c], ackPosted'[c] = ackPosted[c],
         Copying(c)' <=> Copying(c)
  PROVE  FlowOf(c)'
<1>1. TakenRight(c)' /\ TakenNum(c)' = TakenNum(c)
  BY TakenFrame DEF FlowOf
<1>2. Layout(c)' /\ \A n : MsgOff(c, n)' = MsgOff(c, n)
  BY <1>1, LayoutFrame DEF FlowOf
<1>3. SomePublished(c)'
  BY <1>1, <1>2, PublishedFrame DEF FlowOf
<1>4. Pointers(c)'
  BY PointersFrame DEF FlowOf
<1>5. Start(c)' = Start(c) /\ (Active(c)' <=> Active(c))
  BY StartFrame
<1>6. Reading(c)'
  BY <1>5, ReadingFrame DEF FlowOf
<1>7. AtStart(c)'
  BY <1>1, <1>2, <1>5 DEF FlowOf, AtStart, AckDue
<1>8. QED
  BY <1>1, <1>2, <1>3, <1>4, <1>6, <1>7 DEF FlowOf

(***************************************************************************)
(* Steps of a client.                                                      *)
(***************************************************************************)
(* The client holds its pointers: nothing of what it published is left. *)

\* A client that holds the pointers has nothing under way at the server.
LEMMA HolderIdle ==
  ASSUME TypeOK, HandoverInv, NEW c \in Clients, FlowOf(c), caddr[c].signal # 1
  PROVE  /\ ~Active(c) /\ readDone[c] /\ region[c] = <<>> /\ reads[c] = <<>>
         /\ ~Copying(c) /\ ~AckDue(c) /\ Start(c) = 0
         /\ RingOff(cbuf[c], caddr[c].free) = MsgOff(c, TakenNum(c) + 1)
<1>1. ~AckDue(c)
  BY DEF HandoverInv, SignalAtServer
<1>2. saddr[c].signal # 1
  BY DEF HandoverInv, SignalAtServer, AtServer
<1>3. readDone[c] /\ region[c] = <<>>
  BY <1>2 DEF HandoverInv, SignalAtServer
<1>4. ~Copying(c)
  BY <1>2 DEF HandoverInv, Copying
<1>5. reads[c] = <<>>
  <2>1. reads[c] \in Seq(ReadOps) /\ Len(reads[c]) \in Nat
    BY FlowTypes
  <2>2. ASSUME Len(reads[c]) # 0 PROVE FALSE
    <3>1. 1 \in 1..Len(reads[c])
      BY <2>1, <2>2
    <3>2. /\ reads[c][1].to >= 0 /\ reads[c][1].len >= 1
          /\ reads[c][1].to + reads[c][1].len <= Len(region[c])
      BY <3>1 DEF FlowOf, Reading, ReadsRight
    <3>3. Len(region[c]) = 0 /\ reads[c][1] \in ReadOps
      BY <1>3, <3>1, FlowTypes
    <3>4. reads[c][1].to \in Int /\ reads[c][1].len \in Int
      BY <3>3 DEF ReadOps
    <3>5. QED
      BY <3>2, <3>3, <3>4
  <2>3. QED
    BY <2>1, <2>2, EmptySeq
<1>6. ~Active(c) /\ Start(c) = 0
  BY <1>3, <1>4 DEF Active, Start
<1>7. RingOff(cbuf[c], caddr[c].free) = MsgOff(c, TakenNum(c) + 1)
  <2>1. PICK P \in Nat : Published(c, P)
    BY DEF FlowOf, SomePublished
  <2>2. P = TakenNum(c)
    BY <2>1 DEF Published
  <2>3. QED
    BY <2>1, <2>2 DEF Published
<1>8. ~Active(c) /\ readDone[c] /\ region[c] = <<>> /\ reads[c] = <<>>
  BY <1>3, <1>5, <1>6
<1>9. ~Copying(c) /\ ~AckDue(c) /\ Start(c) = 0
  BY <1>1, <1>4, <1>6
<1>10. QED
  BY <1>7, <1>8, <1>9

\* Nothing being read, there is nothing to be said about the reading.
LEMMA IdleReading ==
  ASSUME NEW c \in Clients, readDone'[c], region'[c] = <<>>, reads'[c] = <<>>,
         ~Copying(c)'
  PROVE  Reading(c)' /\ Start(c)' = 0
<1>1. ~Active(c)' /\ Start(c)' = 0
  BY DEF Active, Start
<1>2. Cursor(c)'
  BY <1>1 DEF Cursor
<1>3. Len(region'[c]) = 0 /\ Len(reads'[c]) = 0
  OBVIOUS
<1>4. ReadsRight(c)' /\ RegionRight(c)'
  BY <1>3 DEF ReadsRight, RegionRight
<1>5. QED
  BY <1>1, <1>2, <1>4 DEF Reading

(* Reclaiming space *)

\* When all that was published is taken, its space can be reclaimed: the
\* messages behind it only move up in the stream.
LEMMA ReclaimLayout ==
  ASSUME TypeOK, HandoverInv, NEW c \in Clients, FlowOf(c), caddr[c].signal # 1,
         cbuf'[c] = Reclaimed(c), cmem'[c] = cmem[c], sent'[c] = sent[c],
         TakenNum(c)' = TakenNum(c)
  PROVE  /\ Layout(c)' /\ MsgOff(c, TakenNum(c) + 1)' = 0
         /\ RingPointer(cbuf'[c], caddr[c].free)
         /\ RingOff(cbuf'[c], caddr[c].free) = 0
<1> DEFINE b == cbuf[c]
           p == cbuf'[c]
           f == caddr[c].free
           T == TakenNum(c)
           S == Len(sent[c])
           shift == RingOff(b, f)
<1>1. /\ SendBufSize \in Nat \ {0} /\ b \in Buffers(SendBufSize)
      /\ f \in 0..(SendBufSize - 1) /\ T \in Nat /\ S \in Nat
      /\ \A n \in 1..S : sent[c][n].at \in Int
  <2>1. /\ SendBufSize \in Nat \ {0} /\ b \in Buffers(SendBufSize)
        /\ caddr[c] \in Addrs /\ T \in Nat /\ S \in Nat
        /\ \A n \in 1..S : sent[c][n].at \in 0..(SendBufSize - 1)
    BY FlowTypes, Zenon
  <2>2. f \in 0..(SendBufSize - 1)
    BY <2>1 DEF Addrs
  <2>3. QED
    BY <2>1, <2>2
<1>2. p = [used |-> f, free |-> b.free, end |-> b.end]
  BY <1>1 DEF Reclaimed, Buffers
<1>3. RingOK(b) /\ RingPointer(b, f) /\ T <= S
  BY DEF FlowOf, Layout, Placed, Pointers
<1>4. /\ RingOK(p) /\ RingPointer(p, f) /\ RingOff(p, f) = 0
      /\ RingOff(p, p.free) = RingOff(b, b.free) - shift
  BY <1>1, <1>2, <1>3, RingReclaim
<1>5. MsgOff(c, T + 1) = shift
  <2>1. RingOff(cbuf[c], caddr[c].free) = MsgOff(c, TakenNum(c) + 1)
    BY HolderIdle
  <2>2. QED
    BY <2>1
<1>6. Untaken(c)' = Untaken(c) /\ Untaken(c) = (T + 1)..S
  BY DEF Untaken
<1>7. \A n \in (T + 1)..S : sent[c][n].size \in Nat \ {0}
  <2>1. \A n \in (T + 1)..S : n \in 1..S
    BY <1>1
  <2>2. QED
    BY <2>1, SizeBounds DEF FlowOf, Layout
<1>8. ASSUME NEW n \in (T + 1)..S
      PROVE  /\ RingPiece(p, sent[c][n].at, sent[c][n].size)
             /\ MsgOff(c, n)' = MsgOff(c, n) - shift
  <2>1. n \in 1..S /\ sent[c][n].at \in Int /\ sent[c][n].size \in Nat \ {0}
    BY <1>1, <1>7
  <2>2. RingPiece(b, sent[c][n].at, sent[c][n].size)
    BY <1>6 DEF FlowOf, Layout, Placed
  <2>3. MsgOff(c, T + 1) <= MsgOff(c, n)
    <3>1. T + 1 \in (T + 1)..(S + 1) /\ n \in (T + 1)..(S + 1) /\ T + 1 <= n
      BY <1>1
    <3>2. QED
      BY <3>1 DEF FlowOf, Layout, Chained
  <2>4. MsgOff(c, n) = RingOff(b, sent[c][n].at)
    BY DEF MsgOff
  <2>5. shift <= RingOff(b, sent[c][n].at)
    BY <1>5, <2>3, <2>4
  <2>6. /\ RingPiece(p, sent[c][n].at, sent[c][n].size)
        /\ RingOff(p, sent[c][n].at) = RingOff(b, sent[c][n].at) - shift
    <3> HIDE DEF b, p, f
    <3>1. QED
      BY <1>1, <1>2, <1>3, <2>1, <2>2, <2>5, RingReclaimKeeps
  <2>7. MsgOff(c, n)' = RingOff(p, sent[c][n].at)
    BY DEF MsgOff
  <2>8. QED
    BY <2>4, <2>6, <2>7
<1>9. MsgOff(c, S + 1)' = MsgOff(c, S + 1) - shift
  <2>1. ~(S + 1 <= S)
    BY <1>1
  <2>2. MsgOff(c, S + 1)' = RingOff(p, p.free) /\ MsgOff(c, S + 1) = RingOff(b, b.free)
    BY <2>1 DEF MsgOff
  <2>3. QED
    BY <1>4, <2>2
<1>10. \A n \in (T + 1)..(S + 1) : MsgOff(c, n)' = MsgOff(c, n) - shift
  <2>1. \A n \in (T + 1)..(S + 1) : n \in (T + 1)..S \/ n = S + 1
    BY SMTT(30), <1>1
  <2>2. QED
    BY <1>8, <1>9, <2>1
<1>11. /\ \A n \in (T + 1)..(S + 1) : MsgOff(c, n) \in Int
       /\ shift \in Int
  <2>1. b.used \in Int /\ b.free \in Int /\ b.end \in Int
    BY <1>1 DEF Buffers
  <2>2. \A a \in Int : RingOff(b, a) \in Int
    BY <2>1 DEF RingOff
  <2>3. \A n \in (T + 1)..(S + 1) : n <= S => n \in 1..S
    BY <1>1
  <2>4. \A n \in (T + 1)..(S + 1) : MsgOff(c, n) \in Int
    BY <1>1, <2>1, <2>2, <2>3 DEF MsgOff
  <2>5. shift \in Int
    <3>1. f \in Int
      BY <1>1
    <3>2. QED
      BY <2>2, <3>1
  <2>6. QED
    BY <2>4, <2>5
<1>12. Placed(c)'
  BY <1>3, <1>4, <1>6, <1>8 DEF Placed
<1>13. Chained(c)'
  <2>1. ASSUME NEW n \in (T + 1)..S
        PROVE  MsgOff(c, n + 1)' = MsgOff(c, n)' + sent[c][n].size
    <3>1. n \in (T + 1)..(S + 1) /\ n + 1 \in (T + 1)..(S + 1)
      BY <1>1
    <3>2. MsgOff(c, n + 1) = MsgOff(c, n) + sent[c][n].size
      BY <1>6 DEF FlowOf, Layout, Chained
    <3>3. MsgOff(c, n)' = MsgOff(c, n) - shift /\ MsgOff(c, n + 1)' = MsgOff(c, n + 1) - shift
      BY <1>10, <3>1
    <3>4. /\ MsgOff(c, n) \in Int /\ MsgOff(c, n + 1) \in Int /\ shift \in Int
          /\ sent[c][n].size \in Int
      BY <1>7, <1>11, <3>1
    <3> HIDE DEF shift
    <3>5. QED
      BY <3>2, <3>3, <3>4
  <2>2. ASSUME NEW m \in (T + 1)..(S + 1), NEW n \in (T + 1)..(S + 1), m <= n
        PROVE  MsgOff(c, m)' <= MsgOff(c, n)'
    <3>1. MsgOff(c, m) <= MsgOff(c, n)
      BY <2>2 DEF FlowOf, Layout, Chained
    <3> HIDE DEF shift
    <3>2. QED
      BY <1>10, <1>11, <3>1
  <2>3. QED
    BY <1>6, <2>1, <2>2 DEF Chained
<1>14. Sizes(c)' /\ Intact(c)'
  BY <1>6 DEF FlowOf, Layout, Sizes, Intact
<1>15. MsgOff(c, T + 1)' = 0
  <2>1. T + 1 \in (T + 1)..(S + 1)
    BY <1>1, <1>3
  <2>2. QED
    BY <1>5, <1>10, <1>11, <2>1
<1>16. QED
  BY <1>4, <1>12, <1>13, <1>14, <1>15 DEF Layout

(* Using more of the buffer *)

\* What is published ends before what is packed.
LEMMA PublishedBelow ==
  ASSUME TypeOK, NEW c \in Clients, FlowOf(c)
  PROVE  /\ RingOff(cbuf[c], caddr[c].free) <= RingOff(cbuf[c], cbuf[c].free)
         /\ RingOff(cbuf[c], caddr[c].free) \in Int
         /\ RingOff(cbuf[c], cbuf[c].free) \in Int
         /\ MsgOff(c, TakenNum(c) + 1) <= RingOff(cbuf[c], caddr[c].free)
<1>1. PICK P \in Nat : Published(c, P)
  BY DEF FlowOf, SomePublished
<1>2. TakenNum(c) \in Nat /\ Len(sent[c]) \in Nat
      /\ TakenNum(c) <= P /\ P <= Len(sent[c])
  BY <1>1, FlowTypes DEF Published
<1>3. /\ TakenNum(c) + 1 \in (TakenNum(c) + 1)..(Len(sent[c]) + 1)
      /\ P + 1 \in (TakenNum(c) + 1)..(Len(sent[c]) + 1)
      /\ Len(sent[c]) + 1 \in (TakenNum(c) + 1)..(Len(sent[c]) + 1)
      /\ P + 1 <= Len(sent[c]) + 1 /\ TakenNum(c) + 1 <= P + 1
      /\ ~(Len(sent[c]) + 1 <= Len(sent[c]))
  BY <1>2
<1>4. /\ MsgOff(c, P + 1) <= MsgOff(c, Len(sent[c]) + 1)
      /\ MsgOff(c, TakenNum(c) + 1) <= MsgOff(c, P + 1)
  BY <1>3 DEF FlowOf, Layout, Chained
<1>5. MsgOff(c, Len(sent[c]) + 1) = RingOff(cbuf[c], cbuf[c].free)
  BY <1>3 DEF MsgOff
<1>6. MsgOff(c, P + 1) = RingOff(cbuf[c], caddr[c].free)
  BY <1>1 DEF Published
<1>7. /\ cbuf[c].used \in Int /\ cbuf[c].free \in Int /\ cbuf[c].end \in Int
      /\ caddr[c].free \in Int
  <2>1. cbuf[c] \in Buffers(SendBufSize) /\ caddr[c] \in Addrs
    BY FlowTypes
  <2>2. QED
    BY <2>1 DEF Buffers, Addrs
<1>8. RingOff(cbuf[c], caddr[c].free) \in Int /\ RingOff(cbuf[c], cbuf[c].free) \in Int
  BY <1>7 DEF RingOff
<1>9. QED
  BY <1>4, <1>5, <1>6, <1>8

\* The server's cursor stays in what is published.
LEMMA CursorInside ==
  ASSUME TypeOK, HandoverInv, NEW c \in Clients, FlowOf(c), Active(c)
  PROVE  /\ saddr[c].signal = 1 /\ caddr[c].signal = 1 /\ ~AckDue(c)
         /\ cbuf[c].used = caddr[c].used
         /\ RingPointer(cbuf[c], readAddr[c])
         /\ RingOff(cbuf[c], readAddr[c]) \in Int
         /\ RingOff(cbuf[c], readAddr[c]) <= RingOff(cbuf[c], caddr[c].free)
<1>1. saddr[c].signal = 1
  BY DEF Active, Copying, HandoverInv, SignalAtServer
<1>2. caddr[c].signal = 1 /\ ~AckDue(c)
  BY <1>1 DEF HandoverInv, SignalAtServer, AtServer, Handover, OneWriter
<1>3. /\ cbuf[c].used \in Int /\ cbuf[c].free \in Int /\ cbuf[c].end \in Int
      /\ caddr[c].free \in Int /\ caddr[c].end \in Int /\ caddr[c].used \in Int
      /\ readAddr[c] \in Int
  <2>1. cbuf[c] \in Buffers(SendBufSize) /\ caddr[c] \in Addrs /\ readAddr[c] \in Int
    BY FlowTypes
  <2>2. QED
    BY <2>1 DEF Buffers, Addrs
<1>4. /\ RingPointer(cbuf[c], caddr[c].free) /\ cbuf[c].used = caddr[c].used
      /\ PubWraps(c) => RingWraps(cbuf[c]) /\ caddr[c].end = cbuf[c].end
  BY <1>2 DEF FlowOf, Pointers
<1>5. \/ readAddr[c] >= caddr[c].used /\ readAddr[c] <= PubLim(c)
      \/ PubWraps(c) /\ 0 <= readAddr[c] /\ readAddr[c] <= caddr[c].free
  BY <1>1 DEF FlowOf, Reading, Cursor
<1>6. /\ RingPointer(cbuf[c], readAddr[c])
      /\ RingOff(cbuf[c], readAddr[c]) \in Int
      /\ RingOff(cbuf[c], readAddr[c]) <= RingOff(cbuf[c], caddr[c].free)
  BY <1>3, <1>4, <1>5 DEF RingPointer, RingOff, RingWraps, RingLim, PubWraps, PubLim
<1>7. QED
  BY <1>1, <1>2, <1>4, <1>6

\* When a client uses more of its buffer and leaves what it used alone, the
\* reading of what it published is not disturbed.
LEMMA GrowReading ==
  ASSUME TypeOK, HandoverInv, NEW c \in Clients, FlowOf(c),
         RingGrows(cbuf[c], cbuf'[c]),
         \A a \in 0..(SendBufSize - 1) :
           RingPiece(cbuf[c], a, 1) => cmem'[c][a] = cmem[c][a],
         caddr'[c] = caddr[c], saddr'[c] = saddr[c], readAddr'[c] = readAddr[c],
         readDone'[c] = readDone[c], region'[c] = region[c], reads'[c] = reads[c],
         Copying(c)' <=> Copying(c)
  PROVE  Reading(c)' /\ Pointers(c)' /\ Start(c)' = Start(c)
<1> DEFINE b == cbuf[c]
           p == cbuf'[c]
<1>1. Active(c)' <=> Active(c)
  BY DEF Active
<1>2. Active(c) => RingOff(p, readAddr[c]) = RingOff(b, readAddr[c])
  <2>1. readAddr[c] \in Int
    BY FlowTypes
  <2>2. QED
    BY <2>1, CursorInside DEF RingGrows
<1>3. Start(c)' = Start(c)
  BY <1>1, <1>2 DEF Start
<1>4. Pointers(c)'
  <2>1. caddr[c].free \in Int
    <3>1. caddr[c] \in Addrs
      BY FlowTypes
    <3>2. QED
      BY <3>1 DEF Addrs
  <2>2. RingPointer(p, caddr[c].free) /\ p.used = b.used
    BY <2>1 DEF FlowOf, Pointers, RingGrows
  <2>3. RingWraps(b) => RingWraps(p) /\ p.end = b.end
    BY DEF RingGrows
  <2>4. PubWraps(c)' = PubWraps(c)
    BY DEF PubWraps
  <2>5. QED
    BY <2>2, <2>3, <2>4 DEF FlowOf, Pointers
<1>5. Cursor(c)'
  <2>1. PubWraps(c)' = PubWraps(c) /\ PubLim(c)' = PubLim(c)
    BY DEF PubWraps, PubLim
  <2>2. ~readDone[c] /\ region[c] = <<>> => RingOff(p, readAddr[c]) = 0
    BY <1>2 DEF FlowOf, Reading, Cursor, Active
  <2>3. QED
    BY <1>1, <2>1, <2>2 DEF FlowOf, Reading, Cursor
<1>6. ReadsRight(c)'
  <2>1. ASSUME NEW i \in 1..Len(reads[c])
        PROVE  /\ RingPiece(p, reads[c][i].from, reads[c][i].len)
               /\ RingOff(p, reads[c][i].from) = RingOff(b, reads[c][i].from)
    <3>1. reads[c][i] \in ReadOps
      BY FlowTypes
    <3>2. /\ RingPiece(b, reads[c][i].from, reads[c][i].len) /\ reads[c][i].len >= 1
      BY DEF FlowOf, Reading, ReadsRight
    <3>3. reads[c][i].from \in Int /\ reads[c][i].len \in Nat \ {0}
      BY <3>1, <3>2 DEF ReadOps
    <3>4. QED
      BY <3>2, <3>3 DEF RingGrows
  <2>2. QED
    BY <1>3, <2>1 DEF FlowOf, Reading, ReadsRight
<1>7. RegionRight(c)'
  <2>1. ASSUME NEW j \in 1..Len(region[c]), NEW a \in 0..(SendBufSize - 1),
               Settled(c, j), RingPiece(p, a, 1), RingOff(p, a) = Start(c) + j - 1
        PROVE  region[c][j] = cmem'[c][a]
    <3>1. Len(region[c]) \in Nat /\ SendBufSize \in Nat \ {0} /\ readAddr[c] \in Int
      BY FlowTypes
    <3>2. j \in Int /\ j <= Len(region[c]) /\ a \in Int /\ Len(region[c]) # 0
      BY <3>1
    <3>3. Active(c)
      BY <3>2 DEF Active
    <3>4. /\ RingOff(b, readAddr[c]) <= RingOff(b, b.free)
          /\ RingOff(b, readAddr[c]) \in Int /\ RingOff(b, b.free) \in Int
      BY <3>3, CursorInside, PublishedBelow
    <3>5. Start(c) = RingOff(b, readAddr[c]) - Len(region[c])
      BY <3>3 DEF Start
    <3>6. RingOff(p, a) \in Int /\ RingOff(p, a) < RingOff(b, b.free)
      BY <2>1, <3>1, <3>2, <3>4, <3>5
    <3>7. RingPiece(b, a, 1)
      <4>1. RingPiece(b, a, 1) \/ RingOff(p, a) >= RingOff(b, b.free)
        BY <2>1, <3>2 DEF RingGrows
      <4>2. QED
        BY <3>4, <3>6, <4>1
    <3>8. RingOff(b, a) = RingOff(p, a)
      BY <3>2, <3>7 DEF RingGrows
    <3>9. region[c][j] = cmem[c][a]
      BY <2>1, <3>7, <3>8 DEF FlowOf, Reading, RegionRight
    <3>10. QED
      BY <3>7, <3>9
  <2>2. \A j : Settled(c, j)' <=> Settled(c, j)
    BY DEF Settled
  <2>3. QED
    BY <1>3, <2>1, <2>2 DEF RegionRight
<1>8. QED
  BY <1>3, <1>4, <1>5, <1>6, <1>7 DEF Reading

\* The messages not taken when the buffer grows: those there were keep their
\* place in the stream.
LEMMA GrowOffsets ==
  ASSUME TypeOK, NEW c \in Clients, FlowOf(c), RingGrows(cbuf[c], cbuf'[c]),
         NEW n \in Untaken(c)
  PROVE  /\ n \in 1..Len(sent[c]) /\ n \in (TakenNum(c) + 1)..(Len(sent[c]) + 1)
         /\ n + 1 \in (TakenNum(c) + 1)..(Len(sent[c]) + 1)
         /\ sent[c][n].at \in Int /\ sent[c][n].size \in Nat \ {0}
         /\ RingPiece(cbuf[c], sent[c][n].at, sent[c][n].size)
         /\ RingPiece(cbuf'[c], sent[c][n].at, sent[c][n].size)
         /\ RingOff(cbuf'[c], sent[c][n].at) = MsgOff(c, n)
<1>1. /\ TakenNum(c) \in Nat /\ Len(sent[c]) \in Nat
  BY FlowTypes
<1>2. /\ n \in 1..Len(sent[c]) /\ n \in (TakenNum(c) + 1)..(Len(sent[c]) + 1)
      /\ n + 1 \in (TakenNum(c) + 1)..(Len(sent[c]) + 1)
  BY <1>1 DEF Untaken
<1>3. sent[c][n].at \in Int
  <2>1. sent[c][n].at \in 0..(SendBufSize - 1) /\ SendBufSize \in Nat
    BY <1>2, FlowTypes
  <2>2. QED
    BY <2>1
<1>4. sent[c][n].size \in Nat \ {0}
  BY <1>2, SizeBounds DEF FlowOf, Layout
<1>5. RingPiece(cbuf[c], sent[c][n].at, sent[c][n].size)
  BY DEF FlowOf, Layout, Placed
<1>6. /\ RingPiece(cbuf'[c], sent[c][n].at, sent[c][n].size)
      /\ RingOff(cbuf'[c], sent[c][n].at) = RingOff(cbuf[c], sent[c][n].at)
  BY <1>3, <1>4, <1>5 DEF RingGrows
<1>7. MsgOff(c, n) = RingOff(cbuf[c], sent[c][n].at)
  BY <1>2 DEF MsgOff
<1>8. QED
  BY <1>2, <1>3, <1>4, <1>5, <1>6, <1>7

\* Giving up the tail of the buffer.
LEMMA SkipFlow ==
  ASSUME TypeOK, HandoverInv, NEW c \in Clients, FlowOf(c), EnsureSkip(c),
         UNCHANGED <<readVars, listVars, waitVars, reqVars, spc, clt, commDone>>
  PROVE  FlowOf(c)'
<1> DEFINE b == cbuf[c]
           p == cbuf'[c]
           T == TakenNum(c)
           S == Len(sent[c])
<1>1. /\ UNCHANGED <<cpc, want, cmem, caddr, cposted, sent>>
      /\ UNCHANGED <<saddr, readAddr, readDone, region, list, delivered, reads,
                     ackPosted, spc, clt>>
  BY DEF EnsureSkip, readVars, listVars, reqVars
<1>2. /\ SendBufSize \in Nat \ {0} /\ b \in Buffers(SendBufSize)
      /\ T \in Nat /\ S \in Nat /\ want[c].size \in Nat
  <2>1. want[c] \in Msgs
    BY DEF TypeOK
  <2>2. want[c].size \in Nat
    BY <2>1, MsgsAssumption
  <2>3. QED
    BY <2>2, FlowTypes
<1>3. p = SkipTail(SendBufSize, b, want[c].size)
  BY DEF EnsureSkip, TypeOK
<1>4. /\ FreeBufSize(SendBufSize, b) >= want[c].size
      /\ want[c].size > LeftSpace(SendBufSize, b)
  BY DEF EnsureSkip, HasSpace
<1>5. /\ b.used <= b.free /\ b.used > 1
      /\ p = [used |-> b.used, free |-> 0, end |-> b.free]
  BY <1>2, <1>3, <1>4, SkipTailKeepsUsed
<1>6. b.used > 0
  BY <1>2, <1>5 DEF Buffers
<1>7. RingOK(p) /\ RingGrows(b, p) /\ RingOff(p, p.free) = RingOff(b, b.free)
  BY <1>2, <1>5, <1>6, RingSkip
<1>8. Reading(c)' /\ Pointers(c)' /\ Start(c)' = Start(c)
  BY <1>1, <1>7, GrowReading DEF Copying
<1>9. T' = T /\ Untaken(c)' = Untaken(c)
  BY <1>1 DEF TakenNum, Untaken
<1>10. ASSUME NEW n \in (T + 1)..(S + 1) PROVE MsgOff(c, n)' = MsgOff(c, n)
  <2>1. CASE n \in Untaken(c)
    <3>1. RingOff(p, sent[c][n].at) = MsgOff(c, n) /\ n <= Len(sent[c])
      BY <1>7, <2>1, GrowOffsets DEF Untaken
    <3>2. QED
      BY <1>1, <3>1 DEF MsgOff
  <2>2. CASE n = S + 1
    <3>1. ~(n <= S)
      BY <1>2, <2>2
    <3>2. QED
      BY <1>1, <1>7, <3>1 DEF MsgOff
  <2>3. QED
    BY <1>2, <2>1, <2>2 DEF Untaken
<1>11. Placed(c)'
  BY <1>1, <1>7, <1>9, GrowOffsets DEF FlowOf, Layout, Placed
<1>12. Chained(c)'
  <2>1. \A n \in Untaken(c) : n \in (T + 1)..(S + 1) /\ n + 1 \in (T + 1)..(S + 1)
    BY <1>7, GrowOffsets
  <2>2. QED
    BY <1>1, <1>9, <1>10, <2>1 DEF FlowOf, Layout, Chained
<1>13. Sizes(c)' /\ Intact(c)'
  BY <1>1, <1>9 DEF FlowOf, Layout, Sizes, Intact
<1>14. TakenRight(c)'
  BY <1>1, TakenFrame DEF FlowOf
<1>15. SomePublished(c)' /\ AtStart(c)'
  <2>1. PICK P \in Nat : Published(c, P)
    BY DEF FlowOf, SomePublished
  <2>2. P + 1 \in (T + 1)..(S + 1) /\ T + 1 \in (T + 1)..(S + 1)
    BY <1>2, <2>1 DEF Published
  <2>3. RingOff(p, caddr[c].free) = RingOff(b, caddr[c].free)
    <3>1. caddr[c].free \in Int
      <4>1. caddr[c] \in Addrs
        BY FlowTypes
      <4>2. QED
        BY <4>1 DEF Addrs
    <3>2. QED
      BY <1>7, <3>1 DEF FlowOf, Pointers, RingGrows
  <2>4. Published(c, P)'
    BY <1>1, <1>9, <1>10, <2>1, <2>2, <2>3 DEF Published, AckDue
  <2>5. MsgOff(c, T + 1)' = MsgOff(c, T + 1)
    BY <1>9, <1>10, <2>2
  <2>6. AtStart(c)'
    BY <1>1, <1>8, <1>9, <2>5 DEF FlowOf, AtStart, AckDue
  <2>7. QED
    BY <2>4, <2>6 DEF SomePublished
<1>16. QED
  BY <1>8, <1>11, <1>12, <1>13, <1>14, <1>15 DEF FlowOf, Layout

\* Packing a message.
LEMMA PackFlow ==
  ASSUME TypeOK, HandoverInv, NEW c \in Clients, FlowOf(c), Pack(c), NeverFillsUp',
         UNCHANGED <<readVars, listVars, waitVars, reqVars, spc, clt, commDone>>
  PROVE  FlowOf(c)'
<1> DEFINE N == SendBufSize
           b == cbuf[c]
           p == cbuf'[c]
           size == want[c].size
           msg == [size |-> size, at |-> b.free]
<1>0. PICK T \in Nat, S \in Nat : T = TakenNum(c) /\ S = Len(sent[c])
  BY FlowTypes
<1>1. /\ UNCHANGED <<want, caddr, cposted>>
      /\ UNCHANGED <<saddr, readAddr, readDone, region, list, delivered, reads,
                     ackPosted, spc, clt>>
  BY DEF Pack, readVars, listVars, reqVars
<1>2. /\ N \in Nat \ {0} /\ b \in Buffers(N) /\ T \in Nat /\ S \in Nat
      /\ b.free \in 0..(N - 1) /\ T <= S /\ RingOK(b)
      /\ sent[c] \in Seq([size : Nat, at : 0..(N - 1)])
  <2>1. b \in Buffers(N)
    BY FlowTypes
  <2>2. b.free \in 0..(N - 1)
    BY <2>1 DEF Buffers
  <2>3. T <= S /\ RingOK(b)
    BY <1>0 DEF FlowOf, Layout, Placed
  <2>4. QED
    BY <1>0, <2>1, <2>2, <2>3, FlowTypes
<1>3. /\ want[c] \in Msgs /\ size \in Nat \ {0} /\ want[c].last \in Nat \ {0}
      /\ want[c].last <= size
  <2>1. want[c] \in Msgs /\ HdrSize \in Nat \ {0}
    BY SizesAssumption DEF TypeOK
  <2>2. /\ size \in Nat /\ want[c].last \in Nat \ {0}
        /\ HdrSize + want[c].last <= size
    BY <2>1, MsgsAssumption
  <2>3. QED
    BY <2>1, <2>2
<1>4. /\ sent' = [sent EXCEPT ![c] = Append(sent[c], msg)]
      /\ cpc' = [cpc EXCEPT ![c] = "app"]
      /\ cbuf' = [cbuf EXCEPT ![c] =
                    UseBuf(N, UseBuf(N, b, size - want[c].last), want[c].last)]
      /\ FreeBufSize(N, b) >= size /\ size <= LeftSpace(N, b)
  BY Zenon DEF Pack, HasSpace
<1>5. /\ sent'[c] = Append(sent[c], msg) /\ cpc'[c] = "app"
      /\ p = UseBuf(N, UseBuf(N, b, size - want[c].last), want[c].last)
  BY <1>4 DEF TypeOK
<1>6. /\ Len(sent'[c]) = S + 1 /\ sent'[c][S + 1] = msg
      /\ \A n \in 1..S : sent'[c][n] = sent[c][n]
  <2>1. msg \in [size : Nat, at : 0..(N - 1)]
    BY <1>2, <1>3
  <2>2. QED
    BY <1>0, <1>2, <1>5, <2>1, AppendProperties
<1>7. b.free + size < N
  <2>1. S + 1 \in 1..Len(sent'[c])
    BY <1>2, <1>6
  <2>2. sent'[c][S + 1].at + sent'[c][S + 1].size # N
    BY <2>1 DEF NeverFillsUp
  <2>3. b.free + size # N
    BY <1>6, <2>2
  <2>4. b.free + size <= N
    BY <1>2, <1>3, <1>4 DEF LeftSpace
  <2>5. b.free \in Int /\ size \in Int /\ N \in Int
    BY <1>2, <1>3
  <2> HIDE DEF b, size, N
  <2>6. QED
    BY <2>3, <2>4, <2>5
<1>8. p = [used |-> b.used, free |-> b.free + size, end |-> b.end]
  <2> DEFINE h == size - want[c].last
             q == UseBuf(N, b, h)
  <2>1. h \in 0..N /\ want[c].last \in 0..N /\ b.free + h < N
    BY SMTT(30), <1>2, <1>3, <1>7
  <2>2. q = [used |-> b.used, free |-> b.free + h, end |-> b.end]
    BY <1>2, <2>1, UseBufValue
  <2>3. q \in Buffers(N)
    BY <1>2, <2>1, UseBufType
  <2>4. q.used = b.used /\ q.free = b.free + h /\ q.end = b.end
    BY <2>2
  <2>5. /\ ~(q.free + want[c].last >= N)
        /\ q.free + want[c].last = b.free + size
    BY <1>2, <1>3, <1>7, <2>4
  <2>6. p = [used |-> q.used, free |-> q.free + want[c].last, end |-> q.end]
    BY <1>2, <1>5, <2>1, <2>3, <2>5, UseBufValue
  <2>7. QED
    BY <2>4, <2>5, <2>6
<1>9. /\ p \in Buffers(N) /\ RingOK(p) /\ RingGrows(b, p)
      /\ RingPiece(p, b.free, size)
      /\ RingOff(p, b.free) = RingOff(b, b.free)
      /\ RingOff(p, p.free) = RingOff(b, b.free) + size
  <2> HIDE DEF b, p, size, N
  <2>1. QED
    BY <1>2, <1>3, <1>4, <1>7, <1>8, RingPack
<1>10. cmem'[c] = [i \in 0..(N - 1) |-> IF i >= b.free /\ i < b.free + size
                                        THEN <<S + 1, i - b.free + 1>>
                                        ELSE cmem[c][i]]
  BY <1>0 DEF Pack, TypeOK
<1>11. ASSUME NEW a \in 0..(N - 1), RingPiece(b, a, 1)
       PROVE  cmem'[c][a] = cmem[c][a]
  <2>1. a + 1 <= b.free \/ a >= b.free + size
    BY SMTT(30), <1>2, <1>3, <1>4, <1>7, <1>11, RingPackApart
  <2>2. QED
    BY <1>2, <1>3, <1>10, <2>1
<1>12. Reading(c)' /\ Pointers(c)' /\ Start(c)' = Start(c)
  BY <1>1, <1>9, <1>11, GrowReading DEF Copying
<1>13. TakenNum(c)' = T /\ Untaken(c)' = (T + 1)..(S + 1) /\ Untaken(c) = (T + 1)..S
  BY <1>0, <1>1, <1>6 DEF TakenNum, Untaken
<1>14. ASSUME NEW n \in (T + 1)..S
       PROVE  /\ n \in 1..S /\ sent'[c][n] = sent[c][n]
              /\ MsgOff(c, n)' = MsgOff(c, n)
  <2>1. n \in 1..S /\ n <= S + 1
    BY <1>0, <1>2
  <2>2. sent'[c][n] = sent[c][n]
    BY <1>0, <1>6, <2>1
  <2>3. RingOff(p, sent[c][n].at) = MsgOff(c, n)
    BY <1>0, <1>9, <1>13, GrowOffsets
  <2>4. QED
    BY <1>0, <1>6, <2>1, <2>2, <2>3 DEF MsgOff
<1>15. /\ MsgOff(c, S + 1)' = MsgOff(c, S + 1)
       /\ MsgOff(c, S + 1 + 1)' = MsgOff(c, S + 1) + size
       /\ MsgOff(c, S + 1) \in Int
  <2>1. ~(S + 1 <= S) /\ S + 1 <= S + 1 /\ ~(S + 1 + 1 <= S + 1)
    BY <1>0, <1>2
  <2>2. MsgOff(c, S + 1) = RingOff(b, b.free)
    BY <1>0, <2>1 DEF MsgOff
  <2>3. MsgOff(c, S + 1)' = RingOff(p, b.free)
    <3>1. sent'[c][S + 1].at = b.free
      BY <1>0, <1>6
    <3>2. S + 1 <= Len(sent'[c])
      BY <1>0, <1>6, <2>1
    <3>3. QED
      BY <3>1, <3>2 DEF MsgOff
  <2>4. MsgOff(c, S + 1 + 1)' = RingOff(p, p.free)
    BY <1>0, <1>6, <2>1 DEF MsgOff
  <2>5. RingOff(b, b.free) \in Int
    BY PublishedBelow
  <2>6. QED
    BY <1>0, <1>9, <2>2, <2>3, <2>4, <2>5
<1>16. \A n \in (T + 1)..(S + 1) : MsgOff(c, n)' = MsgOff(c, n)
  <2>1. \A n \in (T + 1)..(S + 1) : n \in (T + 1)..S \/ n = S + 1
    BY <1>2
  <2>2. ASSUME NEW n \in (T + 1)..(S + 1) PROVE MsgOff(c, n)' = MsgOff(c, n)
    <3>1. CASE n \in (T + 1)..S
      BY <1>0, <1>14, <3>1
    <3>2. CASE n = S + 1
      BY <1>0, <1>15, <3>2, Zenon
    <3>3. QED
      BY <2>1, <3>1, <3>2
  <2>3. QED
    BY <2>2
<1>17. Sizes(c)'
  <2>1. \A n \in 1..(S + 1) : n \in 1..S \/ n = S + 1
    BY <1>0, <1>2
  <2>2. sent'[c][S + 1].size = want[c].size
    BY <1>0, <1>6
  <2>3. QED
    BY <1>0, <1>3, <1>6, <2>1, <2>2 DEF FlowOf, Layout, Sizes
<1>18. Placed(c)'
  <2>1. ASSUME NEW n \in (T + 1)..(S + 1)
        PROVE  RingPiece(p, sent'[c][n].at, sent'[c][n].size)
    <3>1. CASE n \in (T + 1)..S
      BY <1>0, <1>9, <1>13, <1>14, <3>1, GrowOffsets
    <3>2. CASE n = S + 1
      BY <1>0, <1>6, <1>9, <3>2
    <3>3. n \in (T + 1)..S \/ n = S + 1
      BY <1>2
    <3>4. QED
      BY <3>1, <3>2, <3>3
  <2>2. T <= S + 1
    BY <1>0, <1>2
  <2>3. QED
    BY <1>0, <1>6, <1>9, <1>13, <2>1, <2>2 DEF Placed
<1>19. Chained(c)'
  <2>1. ASSUME NEW n \in (T + 1)..(S + 1)
        PROVE  MsgOff(c, n + 1)' = MsgOff(c, n)' + sent'[c][n].size
    <3>1. CASE n \in (T + 1)..S
      <4>1. n + 1 \in (T + 1)..(S + 1) /\ n \in (T + 1)..(S + 1)
        BY SMTT(30), <1>0, <1>2, <3>1
      <4>2. MsgOff(c, n + 1)' = MsgOff(c, n + 1)
        BY <1>0, <1>16, <4>1
      <4>3. QED
        BY <1>0, <1>13, <1>14, <3>1, <4>2 DEF FlowOf, Layout, Chained
    <3>2. CASE n = S + 1
      <4>1. sent'[c][S + 1].size = size
        BY <1>0, <1>6
      <4>2. MsgOff(c, S + 1 + 1)' = MsgOff(c, S + 1)' + sent'[c][S + 1].size
        BY <1>0, <1>15, <4>1, Zenon
      <4>3. QED
        BY <3>2, <4>2, Zenon
    <3>3. n \in (T + 1)..S \/ n = S + 1
      <4>1. QED
        BY <1>0, <1>2
    <3>4. QED
      BY <3>1, <3>2, <3>3
  <2>2. ASSUME NEW m \in (T + 1)..(S + 1 + 1), NEW n \in (T + 1)..(S + 1 + 1), m <= n
        PROVE  MsgOff(c, m)' <= MsgOff(c, n)'
    <3>1. \A k \in (T + 1)..(S + 1) : MsgOff(c, k) <= MsgOff(c, S + 1)
      <4>1. \A k \in (T + 1)..(S + 1) : k <= S + 1 /\ S + 1 \in (T + 1)..(S + 1)
        BY <1>0, <1>2
      <4>2. QED
        BY <1>0, <4>1 DEF FlowOf, Layout, Chained
    <3>2. CASE n \in (T + 1)..(S + 1)
      <4>1. m \in (T + 1)..(S + 1)
        BY <1>0, <1>2, <2>2, <3>2
      <4>2. MsgOff(c, m) <= MsgOff(c, n)
        BY <1>0, <1>13, <2>2, <3>2, <4>1 DEF FlowOf, Layout, Chained
      <4>3. QED
        BY <1>0, <1>16, <3>2, <4>1, <4>2
    <3>3. CASE n = S + 1 + 1 /\ m \in (T + 1)..(S + 1)
      <4>1. MsgOff(c, m)' = MsgOff(c, m) /\ MsgOff(c, m) <= MsgOff(c, S + 1)
        BY <1>0, <1>16, <3>1, <3>3
      <4>2. MsgOff(c, n)' = MsgOff(c, S + 1) + size
        BY <1>0, <1>15, <3>3, Zenon
      <4>3. MsgOff(c, m) \in Int
        <5>1. CASE m \in (T + 1)..S
          <6>1. m \in Untaken(c) /\ m \in 1..S
            BY <1>0, <1>13, <1>14, <5>1
          <6>2. sent[c][m].at \in Int /\ MsgOff(c, m) = RingOff(b, sent[c][m].at)
            BY <1>0, <1>9, <6>1, GrowOffsets DEF MsgOff
          <6>3. b.used \in Int /\ b.end \in Int
            BY <1>0, <1>2 DEF Buffers
          <6>4. QED
            BY <6>2, <6>3 DEF RingOff
        <5>2. CASE m = S + 1
          BY <1>0, <1>15, <5>2
        <5>3. m \in (T + 1)..S \/ m = S + 1
          <6>1. QED
            BY <1>2, <3>3
        <5>4. QED
          BY <5>1, <5>2, <5>3
      <4>4. QED
        BY <1>3, <1>15, <4>1, <4>2, <4>3
    <3>4. CASE n = S + 1 + 1 /\ m = n
      <4>1. MsgOff(c, S + 1 + 1)' \in Int
        BY <1>3, <1>15
      <4>2. MsgOff(c, n)' \in Int /\ m = n
        BY <3>4, <4>1
      <4>3. QED
        BY <4>2
    <3>5. \/ n \in (T + 1)..(S + 1)
          \/ n = S + 1 + 1 /\ (m \in (T + 1)..(S + 1) \/ m = n)
      <4>1. QED
        BY SMTT(30), <1>0, <1>2, <2>2
    <3>6. QED
      BY <3>2, <3>3, <3>4, <3>5
  <2>3. QED
    BY <1>0, <1>6, <1>13, <2>1, <2>2 DEF Chained
<1>20. Intact(c)'
  <2>1. ASSUME NEW n \in (T + 1)..S, NEW k \in 1..sent[c][n].size
        PROVE  cmem'[c][sent[c][n].at + k - 1] = <<n, k>>
    <3>1. /\ sent[c][n].at \in Int /\ sent[c][n].size \in Nat \ {0}
          /\ RingPiece(b, sent[c][n].at, sent[c][n].size)
      BY <1>0, <1>9, <1>13, GrowOffsets
    <3>2. k - 1 \in 0..(sent[c][n].size - 1)
      BY <3>1
    <3>3. /\ RingPiece(b, sent[c][n].at + (k - 1), 1)
          /\ sent[c][n].at + (k - 1) \in 0..(N - 1)
      BY <1>0, <1>2, <3>1, <3>2, RingOffInPiece
    <3>4. cmem'[c][sent[c][n].at + (k - 1)] = cmem[c][sent[c][n].at + (k - 1)]
      BY <1>11, <3>3
    <3>5. sent[c][n].at + (k - 1) = sent[c][n].at + k - 1
      BY <3>1, <3>2
    <3>6. cmem[c][sent[c][n].at + k - 1] = <<n, k>>
      BY <1>0, <1>13 DEF FlowOf, Layout, Intact
    <3>7. QED
      BY <3>4, <3>5, <3>6
  <2>2. ASSUME NEW k \in 1..size
        PROVE  cmem'[c][b.free + k - 1] = <<S + 1, k>>
    <3>1. /\ b.free + k - 1 \in 0..(N - 1) /\ b.free + k - 1 >= b.free
          /\ b.free + k - 1 < b.free + size /\ b.free + k - 1 - b.free + 1 = k
      <4> HIDE DEF b, size, N
      <4>1. QED
        BY SMTT(30), <1>0, <1>2, <1>3, <1>7
    <3>2. \A a \in 0..(N - 1) : a >= b.free /\ a < b.free + size
            => cmem'[c][a] = <<S + 1, a - b.free + 1>>
      BY <1>10
    <3>3. PICK a \in 0..(N - 1) : a = b.free + k - 1
      BY <3>1
    <3>4. a >= b.free /\ a < b.free + size /\ a - b.free + 1 = k
      <4>1. b.free \in Int /\ size \in Int /\ k \in Int /\ k >= 1 /\ k <= size
        BY <1>2, <1>3
      <4> HIDE DEF b, size, N
      <4>2. QED
        BY <3>3, <4>1
    <3>5. cmem'[c][a] = <<S + 1, k>>
      <4>1. cmem'[c][a] = <<S + 1, a - b.free + 1>>
        BY <3>2, <3>4
      <4>2. QED
        BY <3>4, <4>1, Zenon
    <3>6. QED
      BY <3>3, <3>5, Zenon
  <2>3. \A n \in (T + 1)..(S + 1) : n \in (T + 1)..S \/ n = S + 1
    BY <1>2
  <2>4. ASSUME NEW n \in (T + 1)..(S + 1), NEW k \in 1..sent'[c][n].size
        PROVE  cmem'[c][sent'[c][n].at + k - 1] = <<n, k>>
    <3>1. CASE n \in (T + 1)..S
      BY <1>0, <1>14, <2>1, <3>1
    <3>2. CASE n = S + 1
      <4>1. sent'[c][S + 1].at = b.free /\ sent'[c][S + 1].size = size
        BY <1>0, <1>6
      <4>2. k \in 1..size
        BY <3>2, <4>1
      <4>3. cmem'[c][b.free + k - 1] = <<S + 1, k>>
        BY <2>2, <4>2
      <4>4. QED
        BY <3>2, <4>1, <4>3, Zenon
    <3>3. QED
      BY <2>3, <3>1, <3>2
  <2>5. QED
    BY <1>0, <1>6, <1>13, <2>4 DEF Intact
<1>21. TakenRight(c)'
  <2>1. /\ \A i \in 1..Len(delivered[c]) : i \in 1..S
        /\ \A i \in 1..Len(list[c]) : Len(delivered[c]) + i \in 1..S
    <3> DEFINE d == Len(delivered[c])
               l == Len(list[c])
    <3>1. d \in Nat /\ l \in Nat /\ d + l <= S
      BY <1>0, <1>2, FlowTypes DEF TakenNum
    <3> HIDE DEF d, l
    <3>2. /\ \A i \in 1..d : i \in 1..S
          /\ \A i \in 1..l : d + i \in 1..S
      BY <1>2, <3>1
    <3>3. QED
      BY <3>2 DEF d, l
  <2>2. QED
    BY <1>0, <1>1, <1>6, <2>1 DEF FlowOf, TakenRight
<1>22. SomePublished(c)' /\ AtStart(c)'
  <2>1. PICK P \in Nat : Published(c, P)
    BY DEF FlowOf, SomePublished
  <2>2. P + 1 \in (T + 1)..(S + 1) /\ T + 1 \in (T + 1)..(S + 1) /\ T <= P /\ P <= S + 1
    BY SMTT(30), <1>0, <1>2, <2>1 DEF Published
  <2>3. RingOff(p, caddr[c].free) = RingOff(b, caddr[c].free)
    <3>1. caddr[c].free \in Int
      <4>1. caddr[c] \in Addrs
        BY FlowTypes
      <4>2. QED
        BY <4>1 DEF Addrs
    <3>2. QED
      BY <1>0, <1>9, <3>1 DEF FlowOf, Pointers, RingGrows
  <2>4. MsgOff(c, P + 1)' = RingOff(p, caddr[c].free)
    BY <1>0, <1>16, <2>1, <2>2, <2>3 DEF Published
  <2>5. Published(c, P)'
    BY <1>0, <1>1, <1>5, <1>6, <1>13, <2>1, <2>2, <2>4 DEF Published, AckDue
  <2>6. MsgOff(c, T + 1)' = MsgOff(c, T + 1)
    BY <1>0, <1>13, <1>16, <2>2
  <2>7. AtStart(c)'
    BY <1>0, <1>1, <1>12, <1>13, <2>6 DEF FlowOf, AtStart, AckDue
  <2>8. QED
    BY <2>5, <2>7 DEF SomePublished
<1>23. QED
  BY <1>12, <1>17, <1>18, <1>19, <1>20, <1>21, <1>22 DEF FlowOf, Layout

\* Taking the space of what the server has acknowledged.
LEMMA ReclaimFlow ==
  ASSUME TypeOK, HandoverInv, NEW c \in Clients, FlowOf(c), BufFreeReclaim(c),
         UNCHANGED <<readVars, listVars, waitVars, reqVars, spc, clt, commDone>>
  PROVE  FlowOf(c)'
<1>1. /\ UNCHANGED <<cpc, cmem, caddr, sent>> /\ caddr[c].signal # 1
      /\ UNCHANGED <<saddr, readAddr, readDone, region, list, delivered, reads,
                     ackPosted, spc, clt>>
      /\ cpc[c] = "ensure" /\ cbuf'[c] = Reclaimed(c)
  BY DEF BufFreeReclaim, ClientWait, readVars, listVars, reqVars, TypeOK
<1>2. TakenRight(c)' /\ TakenNum(c)' = TakenNum(c)
  BY <1>1, TakenFrame DEF FlowOf
<1>3. /\ Layout(c)' /\ MsgOff(c, TakenNum(c) + 1)' = 0
      /\ RingPointer(cbuf'[c], caddr[c].free) /\ RingOff(cbuf'[c], caddr[c].free) = 0
  BY <1>1, <1>2, ReclaimLayout
<1>4. /\ readDone[c] /\ region[c] = <<>> /\ reads[c] = <<>> /\ ~Copying(c)
  BY <1>1, HolderIdle
<1>5. Reading(c)'
  BY <1>1, <1>4, IdleReading DEF Copying
<1>6. Pointers(c)' /\ AtStart(c)'
  BY <1>1, <1>3 DEF Pointers, AtStart
<1>7. SomePublished(c)'
  <2>1. PICK T \in Nat : T = TakenNum(c)
    BY FlowTypes
  <2>2. T <= Len(sent[c])
    BY <2>1 DEF FlowOf, Layout, Placed
  <2>3. Published(c, T)'
    BY <1>1, <1>2, <1>3, <2>1, <2>2 DEF Published
  <2>4. QED
    BY <2>3 DEF SomePublished
<1>8. QED
  BY <1>2, <1>3, <1>5, <1>6, <1>7 DEF FlowOf

\* Initialising the pointers, when the space of the publication before is
\* taken: all that is packed is published, or nothing is left of it.
LEMMA AddrInitFlow ==
  ASSUME TypeOK, HandoverInv, NEW c \in Clients, FlowOf(c), caddr[c].signal # 1,
         UNCHANGED <<readVars, listVars, waitVars, reqVars, spc, clt, commDone>>,
         cbuf'[c] = Reclaimed(c), cmem' = cmem, sent' = sent,
         NEW s, caddr'[c] = AddrInit(Reclaimed(c), s),
         s = 1 \/ TakenNum(c) = Len(sent[c])
  PROVE  FlowOf(c)'
<1>0. PICK T \in Nat, S \in Nat : T = TakenNum(c) /\ S = Len(sent[c]) /\ T <= S
  BY FlowTypes DEF FlowOf, Layout, Placed
<1>1. UNCHANGED <<saddr, readAddr, readDone, region, list, delivered, reads,
                  ackPosted, spc, clt>>
  BY DEF readVars, listVars, reqVars
<1>2. TakenRight(c)' /\ TakenNum(c)' = TakenNum(c)
  BY <1>1, TakenFrame DEF FlowOf
<1>3. /\ Layout(c)' /\ MsgOff(c, TakenNum(c) + 1)' = 0
  BY <1>1, <1>2, ReclaimLayout
<1>4. /\ readDone[c] /\ region[c] = <<>> /\ reads[c] = <<>> /\ ~Copying(c)
      /\ ~AckDue(c)
  BY HolderIdle
<1>5. Reading(c)' /\ Start(c)' = 0
  BY <1>1, <1>4, IdleReading DEF Copying
<1>6. /\ caddr'[c].signal = s /\ caddr'[c].used = cbuf'[c].used
      /\ caddr'[c].free = cbuf'[c].free /\ caddr'[c].end = cbuf'[c].end
  BY DEF AddrInit
<1>7. Pointers(c)'
  <2>1. cbuf'[c].used \in Int /\ cbuf'[c].free \in Nat
    <3>1. cbuf[c] \in Buffers(SendBufSize) /\ caddr[c] \in Addrs
      BY FlowTypes
    <3>2. caddr[c].free \in Int /\ cbuf[c].free \in Nat
      BY <3>1, SizesAssumption DEF Addrs, Buffers
    <3>3. cbuf'[c].used = caddr[c].free /\ cbuf'[c].free = cbuf[c].free
      BY <3>1 DEF Reclaimed, Buffers
    <3>4. QED
      BY <3>2, <3>3
  <2>2. RingPointer(cbuf'[c], cbuf'[c].free)
    BY <2>1 DEF RingPointer, RingLim, RingWraps
  <2>3. PubWraps(c)' <=> RingWraps(cbuf'[c])
    BY <1>6 DEF PubWraps, RingWraps
  <2>4. QED
    BY <1>6, <2>2, <2>3 DEF Pointers
<1>8. AtStart(c)'
  BY <1>2, <1>3, <1>5 DEF AtStart
<1>9. SomePublished(c)'
  <2>1. MsgOff(c, S + 1)' = RingOff(cbuf'[c], caddr'[c].free)
    <3>1. ~(S + 1 <= S)
      BY <1>0
    <3>2. QED
      BY <1>0, <1>6, <3>1 DEF MsgOff
  <2>2. caddr'[c].signal # 1 \/ AckDue(c)' => S = TakenNum(c)'
    BY <1>0, <1>1, <1>2, <1>4, <1>6 DEF AckDue
  <2>3. Published(c, S)'
    BY <1>0, <1>2, <2>1, <2>2 DEF Published
  <2>4. QED
    BY <1>0, <2>3 DEF SomePublished
<1>10. QED
  BY <1>2, <1>3, <1>5, <1>7, <1>8, <1>9 DEF FlowOf

\* Every step of a client that changes its own state.
LEMMA ClientFlow ==
  ASSUME TypeOK, HandoverInv, NEW c \in Clients, FlowOf(c), NeverFillsUp',
         Application(c) \/ InCall(c)
  PROVE  FlowOf(c)'
<1>1. UNCHANGED <<readVars, listVars, waitVars, reqVars, spc, clt, commDone>>
  BY DEF Application, InCall
<1>2. UNCHANGED <<saddr, readAddr, readDone, region, list, delivered, reads,
                  ackPosted, spc, clt>>
  BY <1>1 DEF readVars, listVars, reqVars
<1>3. cbuf[c] \in Buffers(SendBufSize) /\ c \in Clients
  BY FlowTypes
<1>4. CASE EnsureSkip(c)
  BY <1>1, <1>4, SkipFlow
<1>5. CASE Pack(c)
  BY <1>1, <1>5, PackFlow
<1>6. CASE BufFreeReclaim(c)
  BY <1>1, <1>6, ReclaimFlow
<1>7. ASSUME NEW b, Publish(c, b), b = Reclaimed(c), ClientWait(c),
             UNCHANGED <<want, cmem, sent>>
      PROVE  FlowOf(c)'
  <2>1. /\ cbuf'[c] = Reclaimed(c) /\ caddr'[c] = AddrInit(Reclaimed(c), 1)
        /\ caddr[c].signal # 1 /\ cmem' = cmem /\ sent' = sent
    BY <1>7 DEF Publish, ClientWait, TypeOK
  <2>2. QED
    BY <1>1, <2>1, AddrInitFlow
<1>8. CASE BufFreePublish(c)
  <2>1. cbuf[c] = Reclaimed(c)
    BY <1>3, <1>8 DEF BufFreePublish, Reclaimed, Buffers
  <2>2. QED
    BY <1>7, <1>8, <2>1 DEF BufFreePublish
<1>9. CASE IoEnd(c)
  BY <1>7, <1>9 DEF IoEnd
<1>10. CASE Finalize(c)
  BY <1>7, <1>10 DEF Finalize
<1>11. CASE BufFreeReturn(c)
  <2>1. /\ cbuf'[c] = Reclaimed(c) /\ caddr'[c] = AddrInit(Reclaimed(c), 0)
        /\ caddr[c].signal # 1 /\ cmem' = cmem /\ sent' = sent
        /\ cpc[c] = "buf_free"
    BY <1>11 DEF BufFreeReturn, ClientWait, TypeOK
  <2>2. PICK P \in Nat : Published(c, P)
    BY DEF FlowOf, SomePublished
  <2>3. P = TakenNum(c) /\ P = Len(sent[c])
    BY <2>1, <2>2 DEF Published
  <2>4. QED
    BY <1>1, <2>1, <2>3, AddrInitFlow
<1>12. ASSUME UNCHANGED <<cbuf, cmem, sent>>, caddr'[c].free = caddr[c].free,
              caddr'[c].used = caddr[c].used, caddr'[c].end = caddr[c].end,
              \/ caddr'[c].signal = caddr[c].signal
              \/ caddr[c].signal # 1 /\ caddr'[c].signal # 1,
              \/ cpc'[c] = cpc[c]
              \/ cpc[c] \in {"buf_free", "final_end", "final", "done"}
              \/ cpc'[c] \notin {"buf_free", "final_end", "final", "done"}
       PROVE  FlowOf(c)'
  <2>1. TakenRight(c)' /\ TakenNum(c)' = TakenNum(c)
    BY <1>2, <1>12, TakenFrame DEF FlowOf
  <2>2. Layout(c)' /\ \A n : MsgOff(c, n)' = MsgOff(c, n)
    BY <1>12, <2>1, LayoutFrame DEF FlowOf
  <2>3. Start(c)' = Start(c) /\ (Active(c)' <=> Active(c))
    BY <1>2, <1>12, StartFrame DEF Copying
  <2>4. PubWraps(c)' = PubWraps(c) /\ PubLim(c)' = PubLim(c)
    BY <1>12 DEF PubWraps, PubLim
  <2>5. Reading(c)'
    <3>1. Cursor(c)'
      BY <1>2, <1>12, <2>3, <2>4 DEF FlowOf, Reading, Cursor
    <3>2. ReadsRight(c)'
      BY <1>2, <1>12, <2>3 DEF FlowOf, Reading, ReadsRight
    <3>3. RegionRight(c)'
      <4>1. \A j : Settled(c, j)' <=> Settled(c, j)
        BY <1>2 DEF Settled
      <4>2. QED
        BY <1>2, <1>12, <2>3, <4>1 DEF FlowOf, Reading, RegionRight
    <3>4. QED
      BY <3>1, <3>2, <3>3 DEF Reading
  <2>6. Pointers(c)'
    BY <1>12, <2>4 DEF FlowOf, Pointers
  <2>7. AtStart(c)'
    BY <1>2, <1>12, <2>1, <2>2, <2>3 DEF FlowOf, AtStart, AckDue
  <2>8. SomePublished(c)'
    <3>1. PICK P \in Nat : Published(c, P)
      BY DEF FlowOf, SomePublished
    <3>2. Published(c, P)'
      BY <1>2, <1>12, <2>1, <2>2, <3>1 DEF Published, AckDue
    <3>3. QED
      BY <3>2 DEF SomePublished
  <2>9. QED
    BY <2>1, <2>2, <2>5, <2>6, <2>7, <2>8 DEF FlowOf
<1>13. CASE \E m \in Msgs : Call(c, m)
  <2>1. UNCHANGED <<cbuf, cmem, caddr, sent>> /\ cpc'[c] = "ensure"
    BY <1>13 DEF Call, TypeOK
  <2>2. /\ caddr'[c].free = caddr[c].free /\ caddr'[c].signal = caddr[c].signal
        /\ caddr'[c].used = caddr[c].used /\ caddr'[c].end = caddr[c].end
    BY <2>1
  <2>3. UNCHANGED <<cbuf, cmem, sent>>
    BY <2>1
  <2>4. cpc'[c] \notin {"buf_free", "final_end", "final", "done"}
    BY <2>1
  <2>5. QED
    BY <1>12, <2>2, <2>3, <2>4
<1>14. CASE IoEndReturn(c)
  <2>1. UNCHANGED <<cbuf, cmem, caddr, sent>> /\ cpc'[c] = "app"
    BY <1>14 DEF IoEndReturn, TypeOK
  <2>2. /\ caddr'[c].free = caddr[c].free /\ caddr'[c].signal = caddr[c].signal
        /\ caddr'[c].used = caddr[c].used /\ caddr'[c].end = caddr[c].end
    BY <2>1
  <2>3. UNCHANGED <<cbuf, cmem, sent>>
    BY <2>1
  <2>4. cpc'[c] \notin {"buf_free", "final_end", "final", "done"}
    BY <2>1
  <2>5. QED
    BY <1>12, <2>2, <2>3, <2>4
<1>15. CASE SendFinal(c)
  <2>1. UNCHANGED <<cbuf, cmem, caddr, sent>> /\ cpc[c] = "final"
    BY <1>15 DEF SendFinal, TypeOK
  <2>2. /\ caddr'[c].free = caddr[c].free /\ caddr'[c].signal = caddr[c].signal
        /\ caddr'[c].used = caddr[c].used /\ caddr'[c].end = caddr[c].end
    BY <2>1
  <2>3. UNCHANGED <<cbuf, cmem, sent>>
    BY <2>1
  <2>4. cpc[c] \in {"buf_free", "final_end", "final", "done"}
    BY <2>1
  <2>5. QED
    BY <1>12, <2>2, <2>3, <2>4
<1>16. CASE IoDone(c)
  <2>1. UNCHANGED <<cbuf, cmem, sent>> /\ cpc[c] = "final_end"
    BY <1>16 DEF IoDone
  <2>2. caddr[c] \in Addrs
    BY FlowTypes
  <2>3. caddr'[c] = [caddr[c] EXCEPT !.signal = 11]
    BY <1>16 DEF IoDone, TypeOK
  <2>4. /\ caddr'[c].signal = 11 /\ caddr'[c].free = caddr[c].free
        /\ caddr'[c].used = caddr[c].used /\ caddr'[c].end = caddr[c].end
    BY <2>2, <2>3 DEF Addrs
  <2>5. caddr[c].signal # 1
    BY <1>16 DEF IoDone, ClientWait
  <2>6. QED
    BY <1>12, <2>1, <2>4, <2>5
<1>17. QED
  BY <1>4, <1>5, <1>6, <1>8, <1>9, <1>10, <1>11, <1>13, <1>14, <1>15, <1>16
     DEF Application, InCall

(***************************************************************************)
(* Steps of the NIC.                                                       *)
(***************************************************************************)
\* While the right to write the pointers is on its way, nothing is read.
LEMMA NothingPosted ==
  ASSUME TypeOK, NEW c \in Clients, FlowOf(c), region[c] = <<>>
  PROVE  reads[c] = <<>>
<1>1. reads[c] \in Seq(ReadOps) /\ Len(reads[c]) \in Nat
  BY FlowTypes
<1>2. ASSUME Len(reads[c]) # 0 PROVE FALSE
  <2>1. 1 \in 1..Len(reads[c])
    BY <1>1, <1>2
  <2>2. /\ reads[c][1].to >= 0 /\ reads[c][1].len >= 1
        /\ reads[c][1].to + reads[c][1].len <= Len(region[c])
    BY <2>1 DEF FlowOf, Reading, ReadsRight
  <2>3. Len(region[c]) = 0 /\ reads[c][1] \in ReadOps
    BY <2>1, FlowTypes
  <2>4. reads[c][1].to \in Int /\ reads[c][1].len \in Int
    BY <2>3 DEF ReadOps
  <2>5. QED
    BY <2>2, <2>3, <2>4
<1>3. QED
  BY <1>1, <1>2, EmptySeq

\* A publication reaches the server.
LEMMA AddrLandsFlow ==
  ASSUME TypeOK, HandoverInv, NEW c \in Clients, FlowOf(c), AddrLands(c)
  PROVE  FlowOf(c)'
<1>1. /\ UNCHANGED <<cpc, cbuf, cmem, caddr, sent>> /\ cposted[c]
      /\ UNCHANGED <<readAddr, readDone, region, list, delivered, reads, ackPosted,
                     spc, clt>>
  BY DEF AddrLands, listVars, reqVars
<1>2. saddr[c].signal = 0 /\ ~AckDue(c)
  BY <1>1 DEF HandoverInv, Handover, OneWriter, AtNic, AtServer
<1>3. readDone[c] /\ region[c] = <<>>
  BY <1>2 DEF HandoverInv, SignalAtServer
<1>4. ~Copying(c)
  BY <1>2 DEF HandoverInv, Copying
<1>5. reads[c] = <<>>
  BY <1>3, NothingPosted
<1>6. Reading(c)' /\ Start(c)' = 0
  BY <1>1, <1>3, <1>4, <1>5, IdleReading DEF Copying
<1>7. Start(c) = 0
  BY <1>3, <1>4 DEF Start, Active
<1>8. TakenRight(c)' /\ TakenNum(c)' = TakenNum(c)
  BY <1>1, TakenFrame DEF FlowOf
<1>9. Layout(c)' /\ \A n : MsgOff(c, n)' = MsgOff(c, n)
  BY <1>1, <1>8, LayoutFrame DEF FlowOf
<1>10. SomePublished(c)'
  BY <1>1, <1>8, <1>9, PublishedFrame DEF FlowOf
<1>11. Pointers(c)'
  BY <1>1, PointersFrame DEF FlowOf
<1>12. AtStart(c)'
  BY <1>1, <1>6, <1>7, <1>8, <1>9 DEF FlowOf, AtStart, AckDue
<1>13. QED
  BY <1>6, <1>8, <1>9, <1>10, <1>11, <1>12 DEF FlowOf

\* An acknowledgement reaches the client.
LEMMA AckLandsFlow ==
  ASSUME TypeOK, HandoverInv, NEW c \in Clients, FlowOf(c), AckLands(c)
  PROVE  FlowOf(c)'
<1>1. /\ UNCHANGED <<cpc, cbuf, cmem, saddr, sent>> /\ AckDue(c)
      /\ UNCHANGED <<readAddr, readDone, region, list, delivered, reads, spc, clt>>
      /\ caddr'[c] = saddr[c]
  BY DEF AckLands, listVars, readVars, AckDue, TypeOK
<1>2. /\ saddr[c].signal = 0 /\ saddr[c].used = caddr[c].used
      /\ saddr[c].free = caddr[c].free /\ saddr[c].end = caddr[c].end
  BY <1>1 DEF HandoverInv, Handover, OneWriter, SamePointers, AtServer
<1>3. readDone[c] /\ region[c] = <<>>
  BY <1>2 DEF HandoverInv, SignalAtServer
<1>4. ~Copying(c)
  BY <1>2 DEF HandoverInv, Copying
<1>5. reads[c] = <<>>
  BY <1>3, NothingPosted
<1>6. Reading(c)' /\ Start(c)' = 0
  BY <1>1, <1>3, <1>4, <1>5, IdleReading DEF Copying
<1>7. TakenRight(c)' /\ TakenNum(c)' = TakenNum(c)
  BY <1>1, TakenFrame DEF FlowOf
<1>8. Layout(c)' /\ \A n : MsgOff(c, n)' = MsgOff(c, n)
  BY <1>1, <1>7, LayoutFrame DEF FlowOf
<1>9. SomePublished(c)'
  <2>1. PICK P \in Nat : Published(c, P)
    BY DEF FlowOf, SomePublished
  <2>2. P = TakenNum(c)
    BY <1>1, <2>1 DEF Published
  <2>3. Published(c, P)'
    BY <1>1, <1>2, <1>7, <1>8, <2>1, <2>2 DEF Published
  <2>4. QED
    BY <2>3 DEF SomePublished
<1>10. Pointers(c)' /\ AtStart(c)'
  BY <1>1, <1>2 DEF FlowOf, Pointers, AtStart
<1>11. QED
  BY <1>6, <1>7, <1>8, <1>9, <1>10 DEF FlowOf

\* The oldest read of the client's buffer is carried out.
LEMMA ReadLandsFlow ==
  ASSUME TypeOK, HandoverInv, NEW c \in Clients, FlowOf(c), ReadLands(c)
  PROVE  FlowOf(c)'
<1> DEFINE r == Head(reads[c])
           b == cbuf[c]
           old(j) == region[c][j]
<1>1. /\ UNCHANGED <<cpc, cbuf, cmem, caddr, saddr, sent>>
      /\ UNCHANGED <<readAddr, readDone, list, delivered, ackPosted, spc, clt>>
      /\ reads'[c] = Tail(reads[c])
  BY DEF ReadLands, listVars, clientVars, TypeOK
<1>2. region'[c] = [i \in 1..Len(region[c]) |->
         IF i - r.to \in 1..r.len /\ r.from + i - 1 - r.to \in 0..(SendBufSize - 1)
         THEN cmem[c][r.from + i - 1 - r.to] ELSE old(i)]
  <2> HIDE DEF old
  <2>1. region' = [region EXCEPT ![c] = [i \in 1..Len(region[c]) |->
         IF i - r.to \in 1..r.len /\ r.from + i - 1 - r.to \in 0..(SendBufSize - 1)
         THEN cmem[c][r.from + i - 1 - r.to] ELSE old(i)]]
    BY Zenon DEF ReadLands, old
  <2>2. region \in [Clients -> Seq(Unit)]
    BY DEF TypeOK
  <2> HIDE DEF r
  <2>3. QED
    BY <2>1, <2>2
<1>3. /\ region[c] \in Seq(Unit) /\ Len(region[c]) \in Nat
      /\ reads[c] \in Seq(ReadOps) /\ Len(reads[c]) \in Nat \ {0}
      /\ r = reads[c][1] /\ 1 \in 1..Len(reads[c])
      /\ r.from \in Int /\ r.to \in Int /\ r.len \in Int
      /\ SendBufSize \in Nat \ {0} /\ b \in Buffers(SendBufSize)
  <2>1. /\ region[c] \in Seq(Unit) /\ Len(region[c]) \in Nat
        /\ reads[c] \in Seq(ReadOps) /\ Len(reads[c]) \in Nat
        /\ SendBufSize \in Nat \ {0} /\ b \in Buffers(SendBufSize)
    BY FlowTypes
  <2>2. reads[c] # <<>>
    BY DEF ReadLands
  <2>3. Len(reads[c]) # 0
    BY <2>1, <2>2, EmptySeq
  <2>4. r = reads[c][1] /\ 1 \in 1..Len(reads[c])
    BY <2>1, <2>3
  <2>5. r \in ReadOps
    BY <2>4, FlowTypes
  <2>6. r.from \in Int /\ r.to \in Int /\ r.len \in Int
    BY <2>5 DEF ReadOps
  <2>7. QED
    BY <2>1, <2>3, <2>4, <2>6
<1>4. Len(region'[c]) = Len(region[c]) /\ (region'[c] = <<>> <=> region[c] = <<>>)
  <2>1. DOMAIN region'[c] = 1..Len(region[c])
    BY <1>2
  <2>2. region'[c] \in Seq(Unit)
    BY NicType DEF TypeOK
  <2>3. Len(region'[c]) = Len(region[c])
    BY <1>3, <2>1, <2>2, LenProperties
  <2>4. QED
    BY <1>3, <2>2, <2>3, EmptySeq
<1>5. (Active(c)' <=> Active(c)) /\ Start(c)' = Start(c)
  <2>1. Active(c)' <=> Active(c)
    BY <1>1, <1>4 DEF Active, Copying
  <2>2. QED
    BY <1>1, <1>4, <2>1 DEF Start
<1>6. TakenRight(c)' /\ TakenNum(c)' = TakenNum(c)
  BY <1>1, TakenFrame DEF FlowOf
<1>7. Layout(c)' /\ \A n : MsgOff(c, n)' = MsgOff(c, n)
  BY <1>1, <1>6, LayoutFrame DEF FlowOf
<1>8. SomePublished(c)'
  BY <1>1, <1>6, <1>7, PublishedFrame DEF FlowOf
<1>9. Pointers(c)'
  BY <1>1, PointersFrame DEF FlowOf
<1>10. AtStart(c)'
  BY <1>1, <1>5, <1>6, <1>7 DEF FlowOf, AtStart, AckDue
<1>11. Cursor(c)'
  <2>1. PubWraps(c)' = PubWraps(c) /\ PubLim(c)' = PubLim(c)
    BY <1>1 DEF PubWraps, PubLim
  <2>2. QED
    BY <1>1, <1>4, <1>5, <2>1 DEF FlowOf, Reading, Cursor
<1>12. /\ Len(reads'[c]) = Len(reads[c]) - 1
       /\ \A i \in 1..(Len(reads[c]) - 1) :
            reads'[c][i] = reads[c][i + 1] /\ i + 1 \in 1..Len(reads[c])
  BY <1>1, <1>3
<1>13. ReadsRight(c)'
  BY <1>1, <1>4, <1>5, <1>12 DEF FlowOf, Reading, ReadsRight
<1>14. RegionRight(c)'
  <2> SUFFICES ASSUME NEW j \in 1..Len(region[c]), NEW a \in 0..(SendBufSize - 1),
                      Settled(c, j)', RingPiece(b, a, 1),
                      RingOff(b, a) = Start(c) + j - 1
               PROVE  region'[c][j] = cmem[c][a]
    BY <1>1, <1>4, <1>5 DEF RegionRight
  <2>1. j \in Int /\ a \in Int
    BY <1>3
  <2>2. CASE j - r.to \in 1..r.len
    <3>1. /\ RingPiece(b, r.from, r.len) /\ RingOff(b, r.from) = Start(c) + r.to
          /\ r.len >= 1 /\ r.to >= 0
      BY <1>3 DEF FlowOf, Reading, ReadsRight
    <3>2. PICK k \in Int : k = j - 1 - r.to
      BY <1>3, <2>1
    <3>3. k \in 0..(r.len - 1) /\ r.len \in Nat
      BY SMTT(30), <1>3, <2>1, <2>2, <3>1, <3>2
    <3>4. /\ RingPiece(b, r.from + k, 1) /\ r.from + k \in 0..(SendBufSize - 1)
          /\ RingOff(b, r.from + k) = RingOff(b, r.from) + k
      <4>1. PICK from \in Int, len \in Nat : from = r.from /\ len = r.len
        BY <1>3, <3>3
      <4>2. /\ RingPiece(b, from, len) /\ k \in 0..(len - 1)
            /\ SendBufSize \in Nat \ {0} /\ b \in Buffers(SendBufSize)
        BY <1>3, <3>1, <3>3, <4>1
      <4> HIDE DEF b, r
      <4>3. /\ RingPiece(b, from + k, 1) /\ from + k \in 0..(SendBufSize - 1)
            /\ RingOff(b, from + k) = RingOff(b, from) + k
        BY <4>2, RingOffInPiece
      <4>4. QED
        BY <4>1, <4>3
    <3>5. Start(c) \in Int
      <4>1. Start(c) = RingOff(b, r.from) - r.to
        <5>1. RingOff(b, r.from) \in Int
          BY SMTT(30), <1>3 DEF RingOff, Buffers
        <5>2. Active(c)
          <6>1. Len(region[c]) # 0
            BY <1>3, <2>1
          <6>2. QED
            BY <6>1 DEF Active
        <5>3. RingOff(b, readAddr[c]) \in Int
          BY <5>2, CursorInside
        <5>4. Start(c) \in Int
          BY <1>3, <5>2, <5>3 DEF Start
        <5>5. QED
          BY <1>3, <3>1, <5>1, <5>4
      <4>2. RingOff(b, r.from) \in Int
        BY SMTT(30), <1>3 DEF RingOff, Buffers
      <4>3. QED
        BY <1>3, <4>1, <4>2
    <3>6. RingOff(b, r.from + k) = RingOff(b, a)
      BY SMTT(30), <1>3, <2>1, <3>1, <3>2, <3>4, <3>5
    <3>7. r.from + k \in Int
      BY <1>3, <3>2
    <3>8. r.from + k = a
      <4> HIDE DEF b, r
      <4>1. QED
        BY <1>3, <2>1, <3>4, <3>6, <3>7, RingOffOne
    <3>9. r.from + j - 1 - r.to = a
      <4> HIDE DEF r
      <4>1. QED
        BY <1>3, <2>1, <3>2, <3>8
    <3>10. QED
      <4> HIDE DEF r
      <4>1. QED
        BY <1>2, <2>2, <3>9
  <2>3. CASE ~(j - r.to \in 1..r.len)
    <3>1. region'[c][j] = region[c][j]
      <4> HIDE DEF r
      <4>1. QED
        BY <1>2, <2>3
    <3>2. Settled(c, j)
      <4>1. ASSUME NEW i \in 1..Len(reads[c])
            PROVE  ~(reads[c][i].to < j /\ j <= reads[c][i].to + reads[c][i].len)
        <5>1. CASE i = 1
          <6>1. ~(r.to < j /\ j <= r.to + r.len)
            <7> HIDE DEF r
            <7>1. QED
              BY <1>3, <2>1, <2>3
          <6>2. QED
            BY <1>3, <5>1, <6>1
        <5>2. CASE i # 1
          <6>1. i - 1 \in 1..(Len(reads[c]) - 1) /\ i - 1 + 1 = i
            BY SMTT(30), <1>3, <5>2
          <6>2. reads'[c][i - 1] = reads[c][i] /\ i - 1 \in 1..Len(reads'[c])
            BY <1>12, <6>1
          <6>3. QED
            BY <6>2 DEF Settled
        <5>3. QED
          BY <5>1, <5>2
      <4>2. QED
        BY <4>1 DEF Settled
    <3>3. QED
      BY <3>1, <3>2 DEF FlowOf, Reading, RegionRight
  <2>4. QED
    BY <2>2, <2>3
<1>15. QED
  BY <1>6, <1>7, <1>8, <1>9, <1>10, <1>11, <1>13, <1>14 DEF FlowOf, Reading

(***************************************************************************)
(* Steps of the server.                                                    *)
(***************************************************************************)
(* What one _read_data asks for *)

\* The chunk in which a unit of a publication is read.
LEMMA ChunkNumber ==
  ASSUME NEW d \in Nat \ {0}, NEW len \in Nat
  PROVE  /\ (len + d - 1) \div d \in Nat
         /\ ((len + d - 1) \div d) * d <= len + d - 1
         /\ len + d - 1 < ((len + d - 1) \div d) * d + d
         /\ len > 0 => (len + d - 1) \div d > 0
<1> DEFINE x == len + d - 1
           q == x \div d
<1>1. x \in Nat
  OBVIOUS
<1>2. q \in Nat /\ q * d <= x /\ x < q * d + d
  BY <1>1
<1>3. ASSUME len > 0, q = 0 PROVE FALSE
  <2>1. q * d = 0
    BY <1>3
  <2>2. QED
    BY <1>2, <1>3, <2>1
<1>4. QED
  BY <1>2, <1>3

\* Multiples of d are in the order of their factors, and d apart.
LEMMA ProductsApart ==
  ASSUME NEW d \in Nat \ {0}, NEW m \in Int, NEW n \in Int
  PROVE  /\ m * d \in Int /\ (m + 1) * d = m * d + d
         /\ m <= n => m * d <= n * d
         /\ m * d < n * d => m < n
OBVIOUS

\* The requests ops cover len units, each one a part of them.
Covers(ops, from, len, to) ==
  /\ ops \in Seq(ReadOps) /\ Len(ops) \in Nat
  /\ len > 0 => Len(ops) > 0
  /\ \A i \in 1..Len(ops) : \E k \in 0..(len - 1) :
       /\ ops[i].from = from + k /\ ops[i].to = to + k
       /\ ops[i].len \in Nat \ {0} /\ k + ops[i].len <= len
  /\ \A k \in 0..(len - 1) : \E i \in 1..Len(ops) :
       ops[i].to <= to + k /\ to + k < ops[i].to + ops[i].len

\* The requests of one _read_data do.
LEMMA ChunksCover ==
  ASSUME NEW from \in Int, NEW len \in Nat, NEW to \in Int
  PROVE  Covers(Chunks(from, len, to), from, len, to)
<1> DEFINE D == (len + ChunkSize - 1) \div ChunkSize
           ops == Chunks(from, len, to)
           pos(i) == (i - 1) * ChunkSize
<1>1. ChunkSize \in Nat \ {0}
  BY SizesAssumption
<1>2. /\ D \in Nat /\ D * ChunkSize <= len + ChunkSize - 1
      /\ len + ChunkSize - 1 < D * ChunkSize + ChunkSize /\ (len > 0 => D > 0)
  BY <1>1, ChunkNumber
<1>3. ops \in Seq(ReadOps) /\ Len(ops) \in Nat
  BY ChunksType
<1>4. ops = [i \in 1..D |-> [from |-> from + pos(i), to |-> to + pos(i),
                             len |-> Least(ChunkSize, len - pos(i))]]
  BY DEF Chunks
<1> HIDE DEF D, ops, pos
<1>5. Len(ops) = D
  <2>1. DOMAIN ops = 1..D
    BY <1>4
  <2>2. DOMAIN ops = 1..Len(ops)
    BY <1>3, LenProperties
  <2>3. QED
    BY <1>2, <1>3, <2>1, <2>2
<1>6. ASSUME NEW i \in 1..D
      PROVE  /\ pos(i) \in 0..(len - 1)
             /\ ops[i].from = from + pos(i) /\ ops[i].to = to + pos(i)
             /\ ops[i].len = Least(ChunkSize, len - pos(i))
  <2>1. i \in Int /\ i <= D /\ i >= 1
    BY <1>2
  <2>2. /\ pos(i) \in Int /\ i * ChunkSize = pos(i) + ChunkSize
        /\ i * ChunkSize <= D * ChunkSize
    <3>1. PICK m \in Int : m = i - 1
      BY <2>1
    <3>2. m * ChunkSize \in Int /\ (m + 1) * ChunkSize = m * ChunkSize + ChunkSize
      BY <1>1, <3>1, ProductsApart
    <3>3. m + 1 = i
      BY <2>1, <3>1
    <3>4. i * ChunkSize <= D * ChunkSize
      BY <1>1, <1>2, <2>1, ProductsApart
    <3>5. QED
      BY <3>1, <3>2, <3>3, <3>4 DEF pos
  <2>3. pos(i) >= 0
    BY <1>1, <2>1 DEF pos
  <2>4. D * ChunkSize \in Int
    BY <1>1, <1>2, ProductsApart
  <2>5. pos(i) \in 0..(len - 1)
    BY <1>1, <1>2, <2>2, <2>3, <2>4
  <2>6. QED
    BY <1>4, <2>5
<1>7. ASSUME NEW i \in 1..Len(ops)
      PROVE  \E k \in 0..(len - 1) :
               /\ ops[i].from = from + k /\ ops[i].to = to + k
               /\ ops[i].len \in Nat \ {0} /\ k + ops[i].len <= len
  <2>1. PICK k \in 0..(len - 1) : k = pos(i)
    BY <1>5, <1>6
  <2>2. Least(ChunkSize, len - k) \in Nat \ {0} /\ k + Least(ChunkSize, len - k) <= len
    BY <1>1, <2>1 DEF Least
  <2>3. QED
    BY <1>5, <1>6, <2>1, <2>2
<1>8. ASSUME NEW k \in 0..(len - 1)
      PROVE  \E i \in 1..Len(ops) :
               ops[i].to <= to + k /\ to + k < ops[i].to + ops[i].len
  <2>1. PICK q \in Nat : q * ChunkSize <= k /\ k < q * ChunkSize + ChunkSize
    <3>1. k \in Nat
      OBVIOUS
    <3>2. /\ k \div ChunkSize \in Nat /\ (k \div ChunkSize) * ChunkSize <= k
          /\ k < (k \div ChunkSize) * ChunkSize + ChunkSize
      BY <1>1, <3>1
    <3>3. QED
      BY <3>2
  <2>2. q + 1 \in 1..D
    <3>1. (q + 1) * ChunkSize = q * ChunkSize + ChunkSize /\ q * ChunkSize \in Int
      BY <1>1, ProductsApart
    <3>2. (D + 1) * ChunkSize = D * ChunkSize + ChunkSize /\ D * ChunkSize \in Int
      BY <1>1, <1>2, ProductsApart
    <3>3. (q + 1) * ChunkSize < (D + 1) * ChunkSize
      BY <1>1, <1>2, <2>1, <3>1, <3>2
    <3>4. q + 1 < D + 1
      BY <1>1, <1>2, <3>3, ProductsApart
    <3>5. QED
      BY <1>2, <3>4
  <2>3. pos(q + 1) = q * ChunkSize /\ q * ChunkSize \in Int
    BY <1>1, ProductsApart DEF pos
  <2>4. /\ ops[q + 1].to = to + q * ChunkSize
        /\ ops[q + 1].len = Least(ChunkSize, len - q * ChunkSize)
    BY <1>6, <2>2, <2>3
  <2>5. \/ ops[q + 1].len = ChunkSize
        \/ ops[q + 1].len = len - q * ChunkSize
    BY <2>4 DEF Least
  <2>6. ops[q + 1].to <= to + k /\ to + k < ops[q + 1].to + ops[q + 1].len
    BY <1>1, <2>1, <2>3, <2>4, <2>5
  <2>7. QED
    BY <1>5, <2>2, <2>6
<1>9. len > 0 => Len(ops) > 0
  BY <1>2, <1>5
<1>10. QED
  BY <1>3, <1>7, <1>8, <1>9 DEF ops, Covers

\* How far a _read_data gets: the cursor moves on by what it reads, and jumps
\* over the tail that was given up.
LEMMA ReadDataMoves ==
  ASSUME TypeOK, HandoverInv, FlowOf(clt), ReadData, clt \in Clients
  PROVE  \E len \in Nat :
    /\ RingOff(cbuf[clt], readAddr'[clt]) = RingOff(cbuf[clt], readAddr[clt]) + len
    /\ len > 0 => RingPiece(cbuf[clt], readAddr[clt], len)
    /\ region'[clt] = region[clt] \o [i \in 1..len |-> Stale]
    /\ reads'[clt] = reads[clt] \o Chunks(readAddr[clt], len, Len(region[clt]))
    /\ rest'[clt] = rest[clt] + Len(Chunks(readAddr[clt], len, Len(region[clt])))
    /\ \/ readAddr'[clt] >= caddr[clt].used /\ readAddr'[clt] <= PubLim(clt)
       \/ PubWraps(clt) /\ 0 <= readAddr'[clt] /\ readAddr'[clt] <= caddr[clt].free
    /\ readDone'[clt] => readAddr'[clt] = caddr[clt].free
    /\ ~(PubWraps(clt) /\ readAddr'[clt] >= caddr[clt].used
         /\ readAddr'[clt] = caddr[clt].end)
    /\ ~readDone'[clt] /\ len = 0 => region[clt] = <<>>
<1> DEFINE a     == saddr[clt]
           last  == a.used <= a.free \/ readAddr[clt] <= a.free
           limit == IF last THEN a.free ELSE a.end
           room  == RegionSize - Len(region[clt])
           len   == Least(limit - readAddr[clt], room)
           next  == readAddr[clt] + len
           b     == cbuf[clt]
<1>1. /\ readDone' = [readDone EXCEPT ![clt] = last /\ next >= limit]
      /\ readAddr' = [readAddr EXCEPT ![clt] =
                        IF ~last /\ next >= limit THEN 0 ELSE next]
      /\ region' = [region EXCEPT ![clt] = region[clt] \o [i \in 1..len |-> Stale]]
      /\ reads' = [reads EXCEPT ![clt] =
                     reads[clt] \o Chunks(readAddr[clt], len, Len(region[clt]))]
      /\ rest' = [rest EXCEPT ![clt] =
                    rest[clt] + Len(Chunks(readAddr[clt], len, Len(region[clt])))]
      /\ ~readDone[clt] /\ ~RdmaBufFull(clt)
  BY Zenon DEF ReadData
<1>2. /\ readDone \in [Clients -> BOOLEAN] /\ readAddr \in [Clients -> Int]
      /\ region \in [Clients -> Seq(Unit)] /\ reads \in [Clients -> Seq(ReadOps)]
      /\ rest \in [Clients -> Nat]
  BY DEF TypeOK
<1>3. /\ readDone'[clt] = (last /\ next >= limit)
      /\ readAddr'[clt] = IF ~last /\ next >= limit THEN 0 ELSE next
      /\ region'[clt] = region[clt] \o [i \in 1..len |-> Stale]
      /\ reads'[clt] = reads[clt] \o Chunks(readAddr[clt], len, Len(region[clt]))
      /\ rest'[clt] = rest[clt] + Len(Chunks(readAddr[clt], len, Len(region[clt])))
  <2> HIDE DEF last, next, limit, len
  <2>1. QED
    BY <1>1, <1>2
<1>4. Active(clt)
  BY <1>1 DEF Active
<1>5. saddr[clt].signal = 1 /\ caddr[clt].signal = 1 /\ b.used = caddr[clt].used
  BY <1>4, CursorInside
<1>6. /\ a.used = caddr[clt].used /\ a.free = caddr[clt].free
      /\ a.end = caddr[clt].end
  BY <1>5 DEF HandoverInv, Handover, SamePointers, AtServer
<1>7. /\ b.used \in Nat /\ b.free \in Nat /\ b.end \in Nat
      /\ a.used \in Nat /\ a.free \in Nat /\ a.end \in Nat /\ readAddr[clt] \in Int
  <2>1. b \in Buffers(SendBufSize) /\ saddr[clt] \in Addrs /\ readAddr[clt] \in Int
        /\ SendBufSize \in Nat
    BY FlowTypes
  <2>2. QED
    BY <2>1 DEF Buffers, Addrs
<1>8. room \in Nat \ {0}
  <2>1. Len(region[clt]) \in Nat /\ RegionSize \in Nat
    BY FlowTypes
  <2>2. QED
    BY <1>1, <2>1 DEF RdmaBufFull
<1>9. /\ RingPointer(b, a.free)
      /\ a.free < a.used => RingWraps(b) /\ a.end = b.end
  BY <1>5, <1>6 DEF FlowOf, Pointers, PubWraps
<1>10. /\ \/ readAddr[clt] >= a.used /\ readAddr[clt] <= PubLim(clt)
          \/ PubWraps(clt) /\ 0 <= readAddr[clt] /\ readAddr[clt] <= a.free
       /\ PubWraps(clt) /\ readAddr[clt] >= a.used /\ readAddr[clt] = a.end
            => region[clt] = <<>>
  BY <1>4, <1>5, <1>6 DEF FlowOf, Reading, Cursor
<1>11. /\ PubWraps(clt) <=> a.free < a.used
       /\ PubLim(clt) = IF a.free < a.used THEN a.end ELSE a.free
  BY <1>6 DEF PubWraps, PubLim
<1>12. /\ limit \in Nat /\ readAddr[clt] <= limit
       /\ last => readAddr[clt] <= a.free
       /\ ~last => a.free < a.used /\ readAddr[clt] >= a.used
  BY <1>7, <1>10, <1>11
<1>13. /\ len \in Nat /\ readAddr[clt] + len <= limit
       /\ len = limit - readAddr[clt] \/ len = room
  <2> HIDE DEF limit, room
  <2>1. QED
    BY <1>7, <1>8, <1>12 DEF Least
<1> HIDE DEF len, room
<1>14. \/ /\ readAddr'[clt] = readAddr[clt] + len /\ readAddr[clt] + len <= a.free
          /\ readDone'[clt] <=> readAddr[clt] + len = a.free
          /\ len = a.free - readAddr[clt] \/ len = room
       \/ /\ ~readDone'[clt] /\ a.free < a.used /\ readAddr[clt] >= a.used
          /\ readAddr[clt] + len <= a.end
          /\ readAddr'[clt] = IF readAddr[clt] + len = a.end THEN 0
                                                              ELSE readAddr[clt] + len
          /\ len = a.end - readAddr[clt] \/ len = room
  <2>1. CASE last
    <3>1. limit = a.free /\ readAddr'[clt] = next
      BY <1>3, <2>1
    <3>2. readDone'[clt] <=> next >= limit
      BY <1>3, <2>1
    <3>3. QED
      BY <1>7, <1>13, <3>1, <3>2
  <2>2. CASE ~last
    <3>1. limit = a.end /\ a.free < a.used /\ readAddr[clt] >= a.used
      BY <1>12, <2>2
    <3>2. ~readDone'[clt] /\ readAddr'[clt] = IF next >= limit THEN 0 ELSE next
      BY <1>3, <2>2
    <3>3. QED
      BY <1>7, <1>13, <3>1, <3>2
  <2>3. QED
    BY <2>1, <2>2
<1>19. RingOff(b, readAddr'[clt]) = RingOff(b, readAddr[clt]) + len
  <2>1. b.used = a.used
    BY <1>5, <1>6
  <2>2. a.free < a.used => b.free < b.used /\ a.end = b.end
    BY <1>9 DEF RingWraps
  <2>3. \/ readAddr[clt] >= a.used /\ readAddr[clt] <= PubLim(clt)
        \/ a.free < a.used /\ 0 <= readAddr[clt] /\ readAddr[clt] <= a.free
    BY <1>10, <1>11
  <2> HIDE DEF last, limit, next, a, b
  <2>4. QED
    BY <1>7, <1>13, <1>14, <2>1, <2>2, <2>3 DEF RingOff
<1>15. len > 0 => RingPiece(b, readAddr[clt], len)
  BY <1>5, <1>6, <1>7, <1>9, <1>10, <1>11, <1>12, <1>13
  DEF RingPiece, RingLim, RingWraps, RingPointer
<1>16. /\ \/ readAddr'[clt] >= a.used /\ readAddr'[clt] <= PubLim(clt)
          \/ PubWraps(clt) /\ 0 <= readAddr'[clt] /\ readAddr'[clt] <= a.free
       /\ readDone'[clt] => readAddr'[clt] = a.free
       /\ ~(PubWraps(clt) /\ readAddr'[clt] >= a.used /\ readAddr'[clt] = a.end)
  <2> HIDE DEF last, limit, next, a, b
  <2>1. QED
    BY <1>7, <1>10, <1>11, <1>13, <1>14
<1>17. ~readDone'[clt] /\ len = 0 => region[clt] = <<>>
  <2> HIDE DEF last, limit, next, a, b
  <2>1. QED
    BY <1>7, <1>8, <1>10, <1>11, <1>13, <1>14
<1>18. QED
  BY <1>3, <1>6, <1>13, <1>15, <1>16, <1>17, <1>19, Zenon

\* Posting the reads of a publication keeps the invariant.
LEMMA ReadDataFlow ==
  ASSUME TypeOK, HandoverInv, FlowOf(clt), ReadData, clt \in Clients
  PROVE  /\ FlowOf(clt)'
         /\ ~readDone'[clt] /\ region'[clt] # <<>> => rest'[clt] > 0
<1> DEFINE c == clt
           b == cbuf[c]
<1>1. /\ UNCHANGED <<cpc, cbuf, cmem, caddr, saddr, sent>>
      /\ UNCHANGED <<list, delivered, ackPosted, clt>>
      /\ spc = "read" /\ spc' = "test" /\ ~readDone[c]
  BY DEF ReadData, listVars, clientVars
<1>2. PICK len \in Nat :
        /\ RingOff(b, readAddr'[c]) = RingOff(b, readAddr[c]) + len
        /\ len > 0 => RingPiece(b, readAddr[c], len)
        /\ region'[c] = region[c] \o [i \in 1..len |-> Stale]
        /\ reads'[c] = reads[c] \o Chunks(readAddr[c], len, Len(region[c]))
        /\ rest'[c] = rest[c] + Len(Chunks(readAddr[c], len, Len(region[c])))
        /\ \/ readAddr'[c] >= caddr[c].used /\ readAddr'[c] <= PubLim(c)
           \/ PubWraps(c) /\ 0 <= readAddr'[c] /\ readAddr'[c] <= caddr[c].free
        /\ readDone'[c] => readAddr'[c] = caddr[c].free
        /\ ~(PubWraps(c) /\ readAddr'[c] >= caddr[c].used
             /\ readAddr'[c] = caddr[c].end)
        /\ ~readDone'[c] /\ len = 0 => region[c] = <<>>
  BY ReadDataMoves
<1> DEFINE from == readAddr[c]
           L == Len(region[c])
           R == Len(reads[c])
           ops == Chunks(from, len, L)
<1>3. /\ region[c] \in Seq(Unit) /\ L \in Nat /\ from \in Int
      /\ reads[c] \in Seq(ReadOps) /\ R \in Nat
      /\ SendBufSize \in Nat \ {0} /\ b \in Buffers(SendBufSize) /\ rest[c] \in Nat
  <2>1. rest[c] \in Nat
    BY DEF TypeOK
  <2>2. QED
    BY <2>1, FlowTypes
<1>4. /\ ops \in Seq(ReadOps) /\ Len(ops) \in Nat /\ (len > 0 => Len(ops) > 0)
      /\ \A i \in 1..Len(ops) : \E k \in 0..(len - 1) :
           /\ ops[i].from = from + k /\ ops[i].to = L + k
           /\ ops[i].len \in Nat \ {0} /\ k + ops[i].len <= len
      /\ \A k \in 0..(len - 1) : \E i \in 1..Len(ops) :
           ops[i].to <= L + k /\ L + k < ops[i].to + ops[i].len
  <2>1. Covers(ops, from, len, L)
    BY <1>3, ChunksCover
  <2> HIDE DEF ops, L, from
  <2>2. QED
    BY <2>1 DEF Covers
<1> HIDE DEF ops
<1>5. /\ Len(region'[c]) = L + len
      /\ \A j \in 1..L : region'[c][j] = region[c][j]
      /\ region'[c] = <<>> <=> region[c] = <<>> /\ len = 0
  <2>1. [i \in 1..len |-> Stale] \in Seq(Unit) /\ Len([i \in 1..len |-> Stale]) = len
    <3>1. [i \in 1..len |-> Stale] \in [1..len -> Unit]
      BY DEF Stale, Unit
    <3>2. QED
      BY <3>1
  <2>2. /\ Len(region'[c]) = L + len /\ region'[c] \in Seq(Unit)
        /\ \A j \in 1..L : region'[c][j] = region[c][j]
    BY <1>2, <1>3, <2>1, ConcatProperties
  <2>3. region'[c] = <<>> <=> region[c] = <<>> /\ len = 0
    <3>1. region'[c] = <<>> <=> Len(region'[c]) = 0
      BY <2>2, EmptySeq
    <3>2. region[c] = <<>> <=> L = 0
      BY <1>3, EmptySeq
    <3>3. QED
      BY <1>3, <2>2, <3>1, <3>2
  <2>4. QED
    BY <2>2, <2>3
<1>6. /\ reads'[c] = reads[c] \o ops /\ Len(reads'[c]) = R + Len(ops)
      /\ \A i \in 1..R : reads'[c][i] = reads[c][i]
      /\ \A i \in 1..Len(ops) : reads'[c][R + i] = ops[i]
  <2>1. reads'[c] = reads[c] \o ops
    BY <1>2 DEF ops
  <2>2. QED
    BY <1>3, <1>4, <2>1, ConcatProperties
<1>7. rest'[c] = rest[c] + Len(ops)
  BY <1>2 DEF ops
<1>8. ~readDone'[c] /\ region'[c] # <<>> => rest'[c] > 0
  <2>1. ~readDone'[c] /\ len = 0 => region[c] = <<>>
    BY <1>2
  <2>2. ~readDone'[c] /\ region'[c] # <<>> => len > 0
    BY <1>5, <2>1
  <2>3. Len(ops) > 0 => rest'[c] > 0
    BY <1>3, <1>4, <1>7
  <2>4. QED
    BY <1>4, <2>2, <2>3
<1>9. Active(c) /\ ~Copying(c)' /\ (Active(c)' <=> ~readDone'[c] \/ region'[c] # <<>>)
  BY <1>1 DEF Active, Copying
<1>10. /\ RingOff(b, from) \in Int /\ Start(c) = RingOff(b, from) - L
       /\ saddr[c].signal = 1
  BY <1>9, CursorInside DEF Start
<1>11. Start(c)' = Start(c)
  <2>1. CASE Active(c)'
    <3>1. Start(c)' = RingOff(b, readAddr'[c]) - Len(region'[c])
      BY <1>1, <2>1 DEF Start
    <3>2. QED
      BY <1>2, <1>3, <1>5, <1>10, <3>1
  <2>2. CASE ~Active(c)'
    <3>1. region[c] = <<>> /\ Start(c)' = 0
      BY <1>5, <1>9, <2>2 DEF Start
    <3>2. RingOff(b, from) = 0
      BY <1>1, <3>1 DEF FlowOf, Reading, Cursor
    <3>3. L = 0
      BY <3>1
    <3>4. Start(c) = 0 - 0
      BY <1>10, <3>2, <3>3, Zenon
    <3>5. QED
      BY <3>1, <3>4
  <2>3. QED
    BY <2>1, <2>2
<1>12. PubWraps(c)' = PubWraps(c) /\ PubLim(c)' = PubLim(c)
  BY <1>1 DEF PubWraps, PubLim
<1>13. Cursor(c)'
  <2>1. ~readDone'[c] /\ region'[c] = <<>> => RingOff(b, readAddr'[c]) = 0
    <3>1. SUFFICES ASSUME region'[c] = <<>> PROVE RingOff(b, readAddr'[c]) = 0
      OBVIOUS
    <3>2. region[c] = <<>> /\ len = 0
      BY <1>5, <3>1
    <3>3. RingOff(b, from) = 0
      BY <1>1, <3>2 DEF FlowOf, Reading, Cursor
    <3>4. QED
      BY <1>2, <3>2, <3>3
  <2>2. QED
    BY <1>1, <1>2, <1>12, <2>1 DEF Cursor
<1>14. ASSUME NEW i \in 1..Len(ops)
       PROVE  /\ ops[i].to >= 0 /\ ops[i].len >= 1
              /\ ops[i].to + ops[i].len <= L + len
              /\ RingPiece(b, ops[i].from, ops[i].len)
              /\ RingOff(b, ops[i].from) = Start(c) + ops[i].to
  <2>1. PICK k \in 0..(len - 1) :
          /\ ops[i].from = from + k /\ ops[i].to = L + k
          /\ ops[i].len \in Nat \ {0} /\ k + ops[i].len <= len
    BY <1>4
  <2>2. RingPiece(b, from, len)
    BY <1>2, <2>1
  <2>3. RingPiece(b, from + k, ops[i].len) /\ RingOff(b, from + k) = RingOff(b, from) + k
    <3>1. PICK n \in Nat \ {0} : n = ops[i].len
      BY <2>1
    <3>2. k + n <= len /\ k \in Nat
      BY <2>1, <3>1
    <3>3. RingPiece(b, from + k, n) /\ RingOff(b, from + k) = RingOff(b, from) + k
      <4> HIDE DEF b, from
      <4>1. QED
        BY <1>3, <2>2, <3>2, RingPart
    <3>4. QED
      BY <3>1, <3>3
  <2>4. ops[i].to >= 0 /\ ops[i].len >= 1 /\ ops[i].to + ops[i].len <= L + len
    BY SMTT(30), <1>3, <2>1
  <2>5. RingOff(b, ops[i].from) = Start(c) + ops[i].to
    BY <1>3, <1>10, <2>1, <2>3
  <2>6. QED
    BY <2>1, <2>3, <2>4, <2>5
<1>15. ASSUME NEW i \in 1..(R + Len(ops))
       PROVE  \/ i \in 1..R /\ reads'[c][i] = reads[c][i]
              \/ \E k \in 1..Len(ops) : i = R + k /\ reads'[c][i] = ops[k]
  <2>1. CASE i \in 1..R
    BY <1>6, <2>1
  <2>2. CASE i \notin 1..R
    <3>1. i - R \in 1..Len(ops) /\ R + (i - R) = i
      BY <1>3, <1>4, <2>2
    <3>2. reads'[c][R + (i - R)] = ops[i - R]
      BY <1>6, <3>1
    <3>3. QED
      BY <3>1, <3>2
  <2>3. QED
    BY <2>1, <2>2
<1>16. ReadsRight(c)'
  <2>1. ASSUME NEW i \in 1..Len(reads'[c])
        PROVE  /\ reads'[c][i].to >= 0 /\ reads'[c][i].len >= 1
               /\ reads'[c][i].to + reads'[c][i].len <= L + len
               /\ RingPiece(b, reads'[c][i].from, reads'[c][i].len)
               /\ RingOff(b, reads'[c][i].from) = Start(c) + reads'[c][i].to
    <3>1. \/ i \in 1..R /\ reads'[c][i] = reads[c][i]
          \/ \E k \in 1..Len(ops) : i = R + k /\ reads'[c][i] = ops[k]
      BY <1>6, <1>15
    <3>2. CASE i \in 1..R /\ reads'[c][i] = reads[c][i]
      <4>1. /\ reads[c][i].to >= 0 /\ reads[c][i].len >= 1
            /\ reads[c][i].to + reads[c][i].len <= L
            /\ RingPiece(b, reads[c][i].from, reads[c][i].len)
            /\ RingOff(b, reads[c][i].from) = Start(c) + reads[c][i].to
        BY <3>2 DEF FlowOf, Reading, ReadsRight
      <4>2. reads[c][i].to \in Int /\ reads[c][i].len \in Int
        <5>1. reads[c][i] \in ReadOps
          BY <3>2, FlowTypes
        <5>2. QED
          BY <5>1 DEF ReadOps
      <4>3. reads[c][i].to + reads[c][i].len <= L + len
        BY <1>3, <4>1, <4>2
      <4>4. QED
        BY <3>2, <4>1, <4>3
    <3>3. CASE \E k \in 1..Len(ops) : i = R + k /\ reads'[c][i] = ops[k]
      BY <1>14, <3>3
    <3>4. QED
      BY <3>1, <3>2, <3>3
  <2>2. QED
    BY <1>1, <1>5, <1>11, <2>1 DEF ReadsRight
<1>17. RegionRight(c)'
  <2> SUFFICES ASSUME NEW j \in 1..(L + len), NEW d \in 0..(SendBufSize - 1),
                      Settled(c, j)', RingPiece(b, d, 1),
                      RingOff(b, d) = Start(c) + j - 1
               PROVE  region'[c][j] = cmem[c][d]
    BY <1>1, <1>5, <1>11 DEF RegionRight
  <2>1. CASE j \in 1..L
    <3>1. Settled(c, j)
      <4>1. ASSUME NEW i \in 1..R
            PROVE  ~(reads[c][i].to < j /\ j <= reads[c][i].to + reads[c][i].len)
        <5>1. i \in 1..Len(reads'[c]) /\ reads'[c][i] = reads[c][i]
          BY <1>3, <1>4, <1>6
        <5>2. QED
          BY <1>1, <5>1 DEF Settled
      <4>2. QED
        BY <4>1 DEF Settled
    <3>2. region'[c][j] = region[c][j]
      BY <1>5, <2>1
    <3>3. QED
      BY <2>1, <3>1, <3>2 DEF FlowOf, Reading, RegionRight
  <2>2. CASE j \notin 1..L
    <3>1. j - 1 - L \in 0..(len - 1) /\ L + (j - 1 - L) = j - 1 /\ j \in Int
      BY <1>3, <2>2
    <3>2. PICK i \in 1..Len(ops) : ops[i].to <= j - 1 /\ j - 1 < ops[i].to + ops[i].len
      <4>1. \E i \in 1..Len(ops) : /\ ops[i].to <= L + (j - 1 - L)
                                   /\ L + (j - 1 - L) < ops[i].to + ops[i].len
        BY <1>4, <3>1
      <4>2. QED
        BY <3>1, <4>1
    <3>3. ops[i].to \in Int /\ ops[i].len \in Int
      <4>1. ops[i] \in ReadOps
        BY <1>4, ElementOfSeq
      <4>2. QED
        BY <4>1 DEF ReadOps
    <3>4. ops[i].to < j /\ j <= ops[i].to + ops[i].len
      BY <3>1, <3>2, <3>3
    <3>5. R + i \in 1..Len(reads'[c]) /\ reads'[c][R + i] = ops[i]
      BY <1>3, <1>4, <1>6
    <3>6. QED
      BY <1>1, <3>4, <3>5 DEF Settled
  <2>3. QED
    BY <2>1, <2>2
<1>18. TakenRight(c)' /\ TakenNum(c)' = TakenNum(c)
  BY <1>1, TakenFrame DEF FlowOf
<1>19. Layout(c)' /\ \A n : MsgOff(c, n)' = MsgOff(c, n)
  BY <1>1, <1>18, LayoutFrame DEF FlowOf
<1>20. SomePublished(c)'
  BY <1>1, <1>18, <1>19, PublishedFrame DEF FlowOf
<1>21. Pointers(c)'
  BY <1>1, PointersFrame DEF FlowOf
<1>22. AtStart(c)'
  BY <1>1, <1>11, <1>18, <1>19 DEF FlowOf, AtStart, AckDue
<1>23. Reading(c)'
  BY <1>13, <1>16, <1>17 DEF Reading
<1>24. FlowOf(c)'
  BY <1>18, <1>19, <1>20, <1>21, <1>22, <1>23 DEF FlowOf
<1>25. QED
  BY <1>1, <1>8, <1>24

(* Copying *)

\* When the copying runs and every read has been carried out, the region starts
\* with the first message not taken.
LEMMA CopyHead ==
  ASSUME TypeOK, HandoverInv, NEW c \in Clients, FlowOf(c), Copying(c),
         reads[c] = <<>>, AtHeader(c), MsgSize(c) <= Len(region[c]),
         NEW T \in Nat, T = TakenNum(c)
  PROVE  /\ T + 1 \in 1..Len(sent[c]) /\ T + 1 \in Untaken(c)
         /\ MsgSize(c) = sent[c][T + 1].size
         /\ \A k \in 1..MsgSize(c) : region[c][k] = <<T + 1, k>>
         /\ MsgOff(c, T + 1) = Start(c)
         /\ \A P \in Nat : Published(c, P) => T + 1 <= P
<1>1. /\ SendBufSize \in Nat \ {0} /\ cbuf[c] \in Buffers(SendBufSize)
      /\ region[c] \in Seq(Unit) /\ Len(region[c]) \in Nat /\ Len(sent[c]) \in Nat
  BY FlowTypes
<1>2. Len(region[c]) >= 1
  <2>1. HdrSize \in Nat \ {0} /\ HdrSize <= Len(region[c])
    BY SizesAssumption DEF AtHeader, RdmaBufExistMsg
  <2>2. QED
    BY <1>1, <2>1
<1>3. Active(c)
  BY DEF Active
<1>4. /\ caddr[c].signal = 1 /\ ~AckDue(c)
      /\ RingOff(cbuf[c], readAddr[c]) \in Int
      /\ RingOff(cbuf[c], readAddr[c]) <= RingOff(cbuf[c], caddr[c].free)
      /\ RingOff(cbuf[c], caddr[c].free) \in Int
  BY <1>3, CursorInside, PublishedBelow
<1>5. Start(c) = RingOff(cbuf[c], readAddr[c]) - Len(region[c])
  BY <1>3 DEF Start
<1>6. MsgOff(c, T + 1) = Start(c)
  BY <1>4 DEF FlowOf, AtStart
<1>7. ASSUME NEW P \in Nat, Published(c, P) PROVE T + 1 <= P /\ P <= Len(sent[c])
  <2>1. /\ T <= P /\ P <= Len(sent[c])
        /\ MsgOff(c, P + 1) = RingOff(cbuf[c], caddr[c].free)
    BY <1>7 DEF Published
  <2>2. T # P
    <3>1. MsgOff(c, T + 1) < RingOff(cbuf[c], caddr[c].free)
      BY <1>1, <1>2, <1>4, <1>5, <1>6
    <3>2. ASSUME T = P PROVE FALSE
      BY <1>4, <1>6, <2>1, <3>1, <3>2
    <3>3. QED
      BY <3>2
  <2>3. QED
    BY <2>1, <2>2
<1>8. PICK P \in Nat : Published(c, P)
  BY DEF FlowOf, SomePublished
<1>9. T + 1 \in 1..Len(sent[c]) /\ T + 1 \in Untaken(c)
  BY <1>1, <1>7, <1>8 DEF Untaken
<1>10. PICK a \in 0..(SendBufSize - 1), size \in Nat \ {0} :
         a = sent[c][T + 1].at /\ size = sent[c][T + 1].size /\ size >= 2
  <2>1. sent[c][T + 1].size \in Nat /\ sent[c][T + 1].size >= 2
    BY <1>9, SizeBounds DEF FlowOf, Layout
  <2>2. sent[c][T + 1].at \in 0..(SendBufSize - 1)
    BY <1>9, FlowTypes
  <2>3. QED
    BY <2>1, <2>2
<1>11. RingPiece(cbuf[c], a, size) /\ RingOff(cbuf[c], a) = Start(c)
  <2>1. RingPiece(cbuf[c], a, size)
    BY <1>9, <1>10 DEF FlowOf, Layout, Placed
  <2>2. T + 1 <= Len(sent[c])
    BY <1>9
  <2>3. MsgOff(c, T + 1) = RingOff(cbuf[c], a)
    BY <1>10, <2>2 DEF MsgOff
  <2>4. QED
    BY <1>6, <2>1, <2>3
<1>12. ASSUME NEW k \in 1..size, k <= Len(region[c])
       PROVE  region[c][k] = <<T + 1, k>>
  <2>1. PICK m \in 0..(size - 1) : k = m + 1
    <3>1. k - 1 \in 0..(size - 1) /\ k = (k - 1) + 1
      BY <1>10
    <3>2. QED
      BY <3>1
  <2>2. /\ RingPiece(cbuf[c], a + m, 1) /\ a + m \in 0..(SendBufSize - 1)
        /\ RingOff(cbuf[c], a + m) = RingOff(cbuf[c], a) + m
    <3>1. a \in Int /\ size \in Nat
      OBVIOUS
    <3>2. RingPiece(cbuf[c], a, size)
      BY <1>11
    <3>3. QED
      BY <1>1, <3>1, <3>2, RingOffInPiece
  <2>3. Start(c) \in Int
    BY <1>1, <1>4, <1>5
  <2>4. RingOff(cbuf[c], a + m) = Start(c) + k - 1
    BY <1>11, <2>1, <2>2, <2>3
  <2>5. Settled(c, k)
    BY DEF Settled
  <2>6. k \in 1..Len(region[c])
    BY <1>1, <1>12
  <2>7. region[c][k] = cmem[c][a + m]
    BY <2>2, <2>4, <2>5, <2>6 DEF FlowOf, Reading, RegionRight
  <2>8. cmem[c][a + k - 1] = <<T + 1, k>>
    BY <1>9, <1>10 DEF FlowOf, Layout, Intact
  <2>9. a + k - 1 = a + m
    BY <2>1
  <2>10. QED
    BY <2>7, <2>8, <2>9, Zenon
<1>13. MsgSize(c) = size
  <2>1. region[c][1] = <<T + 1, 1>>
    BY <1>2, <1>10, <1>12
  <2>2. region[c][1][1] = T + 1
    BY <2>1
  <2>3. QED
    BY <1>10, <2>2, Zenon DEF MsgSize
<1>14. \A k \in 1..MsgSize(c) : region[c][k] = <<T + 1, k>>
  <2>1. \A k \in 1..size : k <= Len(region[c])
    BY <1>1, <1>10, <1>13
  <2>2. QED
    BY <1>12, <1>13, <2>1
<1>15. QED
  BY <1>6, <1>7, <1>9, <1>10, <1>13, <1>14

\* Asking for space in a receive buffer, and using it.
LEMMA SpaceForGranted ==
  ASSUME TypeOK, NEW c \in Clients, NEW size \in Nat \ {0}, SpaceFor(c, size).enough
  PROVE  LET s == SpaceFor(c, size).buf
             u == UseBuf(RegionSize, s, size)
         IN  /\ FreeBufSize(RegionSize, u) + size <= FreeBufSize(RegionSize, rbuf[c])
             /\ u \in Buffers(RegionSize)
<1> DEFINE N == RegionSize
           b == rbuf[c]
           e == IF BufIsEmpty(b) THEN BufClear(b) ELSE b
           s == SpaceFor(c, size).buf
           u == UseBuf(N, s, size)
<1>1. N \in Nat \ {0} /\ b \in Buffers(N)
  BY FlowTypes
<1>2. e \in Buffers(N)
  BY <1>1, BufClearType
<1>3. FreeBufSize(N, e) = FreeBufSize(N, b)
  <2>1. b.used \in Int /\ b.free \in Int
    BY <1>1 DEF Buffers
  <2>2. CASE BufIsEmpty(b)
    <3>1. e.used = 0 /\ e.free = 0 /\ b.used = b.free
      BY <2>2 DEF BufClear, BufIsEmpty
    <3>2. FreeBufSize(N, e) = N - 1
      BY <1>1, <1>2, <3>1, FreeBufSizeValue
    <3>3. FreeBufSize(N, b) = N - 1
      <4>1. FreeBufSize(N, b) = IF b.used > b.free THEN b.used - b.free - 1
                                                   ELSE N - 1 - (b.free - b.used)
        BY <1>1, FreeBufSizeValue
      <4>2. QED
        BY <1>1, <2>1, <3>1, <4>1
    <3>4. QED
      BY <3>2, <3>3
  <2>3. CASE ~BufIsEmpty(b)
    BY <2>3
  <2>4. QED
    BY <2>2, <2>3
<1>4. SpaceFor(c, size) = IsFreeSpaceEnough(N, e, size)
  BY DEF SpaceFor
<1> HIDE DEF e, b, N
<1>5. /\ s \in Buffers(N) /\ size <= FreeBufSize(N, s)
      /\ FreeBufSize(N, s) <= FreeBufSize(N, e) /\ s.free + size <= N
  <2>1. IsFreeSpaceEnough(N, e, size).enough /\ s = IsFreeSpaceEnough(N, e, size).buf
    BY <1>4
  <2> HIDE DEF s
  <2>2. /\ s \in Buffers(N) /\ s.used = e.used
        /\ size <= FreeBufSize(N, s) /\ FreeBufSize(N, s) <= FreeBufSize(N, e)
        /\ \/ s.free = e.free /\ e.free + size <= N
           \/ s.free = 0 /\ e.used <= e.free /\ e.used > size
    BY <1>1, <1>2, <2>1, SpaceGranted
  <2>3. e.used \in 0..(N - 1)
    BY <1>2 DEF Buffers
  <2>4. QED
    BY <1>1, <2>2, <2>3
<1>6. u \in Buffers(N) /\ FreeBufSize(N, u) = FreeBufSize(N, s) - size
  <2> HIDE DEF s
  <2>1. QED
    BY <1>1, <1>5, SpaceUsed
<1>7. FreeBufSize(N, s) \in Int /\ FreeBufSize(N, e) \in Int
  <2> HIDE DEF s
  <2>1. QED
    BY <1>1, <1>2, <1>5, FreeBufSizeBound
<1>8. FreeBufSize(N, u) + size <= FreeBufSize(N, b)
  BY <1>3, <1>5, <1>6, <1>7
<1>9. QED
  BY <1>6, <1>8 DEF b, N

\* Taking a message: the region starts with the next one then, and is not used
\* up before the publication is read to its end.
LEMMA CopyMsgFlow ==
  ASSUME TypeOK, HandoverInv, NotDrained, FlowOf(clt), CopyMsg, reads[clt] = <<>>,
         clt \in Clients
  PROVE  FlowOf(clt)' /\ NotDrained'
<1> DEFINE c == clt
           b == cbuf[c]
           space == SpaceFor(c, MsgSize(c))
           entry == [addr |-> space.buf.free, size |-> MsgSize(c),
                     data |-> SubSeq(region[c], 1, MsgSize(c))]
<1>1. PICK T \in Nat, L \in Nat, d \in Nat, l \in Nat :
        /\ T = TakenNum(c) /\ L = Len(region[c])
        /\ d = Len(delivered[c]) /\ l = Len(list[c])
  BY FlowTypes
<1>2. /\ spc = "copy" /\ AtHeader(c) /\ MsgSize(c) <= Len(region[c]) /\ space.enough
      /\ UNCHANGED <<cpc, cbuf, cmem, caddr, sent, saddr, readAddr, readDone,
                     delivered, reads, ackPosted, spc, clt>>
      /\ list' = [list EXCEPT ![c] = Append(list[c], entry)]
      /\ rbuf' = [rbuf EXCEPT ![c] = UseBuf(RegionSize, space.buf, MsgSize(c))]
      /\ region' = [region EXCEPT ![c] = SubSeq(region[c], MsgSize(c) + 1, Len(region[c]))]
  BY Zenon DEF CopyMsg, clientVars, reqVars
<1>3. Copying(c) /\ Copying(c)'
  BY <1>2 DEF Copying
<1>4. /\ T + 1 \in 1..Len(sent[c]) /\ T + 1 \in Untaken(c)
      /\ MsgSize(c) = sent[c][T + 1].size
      /\ \A k \in 1..MsgSize(c) : region[c][k] = <<T + 1, k>>
      /\ MsgOff(c, T + 1) = Start(c)
      /\ \A P \in Nat : Published(c, P) => T + 1 <= P
  <2> HIDE DEF c
  <2>1. c \in Clients /\ FlowOf(c) /\ reads[c] = <<>>
    BY DEF c
  <2>2. QED
    BY <1>1, <1>2, <1>3, <2>1, CopyHead
<1>5. PICK size \in Nat \ {0} : size = MsgSize(c)
  BY <1>4, SizeBounds DEF FlowOf, Layout
<1>6. /\ region[c] \in Seq(Unit) /\ list[c] \in Seq(Listed)
      /\ delivered[c] \in Seq(Seq(Unit)) /\ size <= L
      /\ T = d + l
  BY <1>1, <1>2, <1>5, FlowTypes DEF TakenNum
<1>7. /\ list'[c] = Append(list[c], entry)
      /\ rbuf'[c] = UseBuf(RegionSize, space.buf, size)
      /\ region'[c] = SubSeq(region[c], size + 1, L)
  <2> HIDE DEF space, entry
  <2>1. QED
    BY <1>1, <1>2, <1>5 DEF TypeOK
<1>8. Len(region'[c]) = L - size /\ \A j \in 1..(L - size) : region'[c][j] = region[c][j + size]
  <2>1. \A i \in (size + 1)..L : region[c][i] \in Unit
    <3>1. \A i \in (size + 1)..L : i \in 1..Len(region[c])
      BY <1>1, <1>5
    <3>2. QED
      BY <1>6, <3>1, ElementOfSeq
  <2>2. /\ Len(region'[c]) = IF size + 1 <= L THEN L - (size + 1) + 1 ELSE 0
        /\ \A j \in 1..(L - (size + 1) + 1) : region'[c][j] = region[c][(size + 1) + j - 1]
    BY <1>7, <2>1, SubSeqProperties
  <2>3. QED
    BY <1>6, <2>2
<1>9. entry.data = Image(T + 1, size)
  <2>1. entry.data = SubSeq(region[c], 1, size)
    BY <1>5
  <2>2. SubSeq(region[c], 1, size) = [k \in 1..size |-> <<T + 1, k>>]
    <3>1. \A k \in 1..size : region[c][k] = <<T + 1, k>>
      BY <1>4, <1>5
    <3>2. \A k \in 1..size : region[c][k] \in Unit
      <4>1. \A k \in 1..size : k \in 1..Len(region[c])
        BY <1>1, <1>6
      <4>2. QED
        BY <1>6, <4>1, ElementOfSeq
    <3>3. /\ SubSeq(region[c], 1, size) \in Seq(Unit)
          /\ Len(SubSeq(region[c], 1, size)) = size
          /\ \A k \in 1..size : SubSeq(region[c], 1, size)[k] = region[c][k]
      BY <3>2, SubSeqProperties
    <3>4. DOMAIN SubSeq(region[c], 1, size) = 1..size
      BY <3>3, LenProperties
    <3>5. SubSeq(region[c], 1, size) = [k \in 1..size |-> SubSeq(region[c], 1, size)[k]]
      BY <3>3, <3>4, LenProperties
    <3>6. QED
      BY <3>1, <3>3, <3>5
  <2>3. QED
    BY <2>1, <2>2 DEF Image
<1> HIDE DEF entry
<1>10. /\ Len(list'[c]) = l + 1 /\ list'[c][l + 1] = entry
       /\ \A i \in 1..l : list'[c][i] = list[c][i]
  <2>1. list[c] \in Seq(Listed \cup {entry}) /\ entry \in Listed \cup {entry}
    BY <1>6
  <2>2. QED
    BY <1>1, <1>7, <2>1, AppendProperties
<1>11. TakenNum(c)' = T + 1
  <2>1. TakenNum(c)' = Len(delivered'[c]) + Len(list'[c])
    BY <1>2 DEF TakenNum
  <2>2. Len(delivered'[c]) = d /\ Len(list'[c]) = l + 1
    BY <1>1, <1>2, <1>10
  <2>3. TakenNum(c)' = d + (l + 1)
    BY <2>1, <2>2, Zenon
  <2>4. QED
    BY <1>6, <2>3
<1>12. \A n : MsgOff(c, n)' = MsgOff(c, n)
  BY <1>2 DEF MsgOff
<1>13. /\ Untaken(c)' \subseteq Untaken(c) /\ T + 2 = T + 1 + 1
       /\ \A n \in (T + 2)..(Len(sent[c]) + 1) : n \in (T + 1)..(Len(sent[c]) + 1)
       /\ Untaken(c)' = (T + 2)..Len(sent[c])
  <2>1. Len(sent[c]) \in Nat
    BY FlowTypes
  <2>2. Untaken(c)' = (T + 1 + 1)..Len(sent[c]) /\ Untaken(c) = (T + 1)..Len(sent[c])
    BY <1>1, <1>2, <1>11 DEF Untaken
  <2>3. QED
    BY <2>1, <2>2
<1>14. Layout(c)'
  <2>1. T + 1 <= Len(sent[c])
    <3>1. Len(sent[c]) \in Nat
      BY FlowTypes
    <3>2. QED
      BY <1>4, <3>1
  <2>2. Sizes(c)' /\ Intact(c)'
    BY <1>2, <1>13 DEF FlowOf, Layout, Sizes, Intact
  <2>3. Placed(c)'
    BY <1>2, <1>11, <1>13, <2>1 DEF FlowOf, Layout, Placed
  <2>4. Chained(c)'
    <3>1. \A n \in Untaken(c)' : MsgOff(c, n + 1)' = MsgOff(c, n)' + sent'[c][n].size
      BY <1>2, <1>12, <1>13 DEF FlowOf, Layout, Chained
    <3>2. \A m, n \in (T + 2)..(Len(sent[c]) + 1) :
            m <= n => MsgOff(c, m)' <= MsgOff(c, n)'
      BY <1>1, <1>12, <1>13 DEF FlowOf, Layout, Chained
    <3>3. QED
      BY <1>2, <1>11, <1>13, <3>1, <3>2 DEF Chained
  <2>5. QED
    BY <2>2, <2>3, <2>4 DEF Layout
<1>15. saddr[c].signal = 1 /\ caddr[c].signal = 1 /\ ~AckDue(c) /\ Active(c)
       /\ RingOff(b, readAddr[c]) \in Int
  <2>1. Active(c)
    BY <1>3 DEF Active
  <2>2. QED
    BY <2>1, CursorInside
<1>16. SomePublished(c)'
  <2>1. PICK P \in Nat : Published(c, P)
    BY DEF FlowOf, SomePublished
  <2>2. T + 1 <= P
    BY <1>4, <2>1
  <2>3. Published(c, P)'
    BY <1>2, <1>11, <1>12, <1>15, <2>1, <2>2 DEF Published, AckDue
  <2>4. QED
    BY <2>3 DEF SomePublished
<1>17. Pointers(c)'
  BY <1>2, PointersFrame DEF FlowOf
<1>18. Active(c)' /\ Start(c)' = Start(c) + size /\ Start(c) = RingOff(b, readAddr[c]) - L
  <2>1. Active(c)'
    BY <1>3 DEF Active
  <2>2. /\ Start(c) = RingOff(b, readAddr[c]) - L
        /\ Start(c)' = RingOff(b, readAddr[c]) - (L - size)
    BY <1>1, <1>2, <1>8, <1>15, <2>1 DEF Start
  <2>3. QED
    BY <1>15, <2>1, <2>2
<1>19. AtStart(c)'
  <2>1. MsgOff(c, T + 1 + 1) = MsgOff(c, T + 1) + sent[c][T + 1].size
    BY <1>4 DEF FlowOf, Layout, Chained
  <2>2. MsgOff(c, T + 1 + 1)' = Start(c)'
    BY <1>4, <1>5, <1>12, <1>18, <2>1
  <2>3. QED
    BY <1>2, <1>11, <2>2 DEF AtStart
<1>20. ~readDone[c] => L - size > 0 /\ L - size > FreeBufSize(RegionSize, rbuf'[c])
  <2>1. ASSUME ~readDone[c]
        PROVE  L - size > 0 /\ L - size > FreeBufSize(RegionSize, rbuf'[c])
    <3>1. L > FreeBufSize(RegionSize, rbuf[c])
      BY <1>1, <1>2, <2>1 DEF NotDrained
    <3>2. /\ FreeBufSize(RegionSize, rbuf'[c]) + size <= FreeBufSize(RegionSize, rbuf[c])
          /\ rbuf'[c] \in Buffers(RegionSize)
      <4>1. SpaceFor(c, size).enough
            /\ rbuf'[c] = UseBuf(RegionSize, SpaceFor(c, size).buf, size)
        BY <1>2, <1>5, <1>7
      <4>2. QED
        BY <4>1, SpaceForGranted
    <3>3. FreeBufSize(RegionSize, rbuf'[c]) \in Nat /\ FreeBufSize(RegionSize, rbuf[c]) \in Nat
      BY <3>2, FlowTypes, FreeBufSizeBound
    <3>4. QED
      BY <3>1, <3>2, <3>3
  <2>2. QED
    BY <2>1
<1>21. Cursor(c)'
  <2>1. ~readDone'[c] => region'[c] # <<>>
    <3>1. region'[c] = <<>> => Len(region'[c]) = 0
      OBVIOUS
    <3>2. L - size > 0 => Len(region'[c]) # 0
      BY <1>8
    <3>3. readDone'[c] = readDone[c]
      BY <1>2
    <3>4. QED
      BY <1>20, <3>1, <3>2, <3>3
  <2>2. PubWraps(c)' = PubWraps(c) /\ PubLim(c)' = PubLim(c)
    BY <1>2 DEF PubWraps, PubLim
  <2>3. region[c] # <<>>
    BY <1>1, <1>5, <1>6
  <2>4. /\ \/ readAddr[c] >= caddr[c].used /\ readAddr[c] <= PubLim(c)
           \/ PubWraps(c) /\ 0 <= readAddr[c] /\ readAddr[c] <= caddr[c].free
        /\ readDone[c] => readAddr[c] = caddr[c].free
        /\ ~(PubWraps(c) /\ readAddr[c] >= caddr[c].used /\ readAddr[c] = caddr[c].end)
    BY <1>15, <2>3 DEF FlowOf, Reading, Cursor
  <2>5. QED
    BY <1>2, <2>1, <2>2, <2>4 DEF Cursor
<1>22. ReadsRight(c)'
  <2>1. Len(reads'[c]) = 0
    BY <1>2
  <2>2. QED
    BY <1>2, <2>1 DEF ReadsRight
<1>23. RegionRight(c)'
  <2>1. ASSUME NEW j \in 1..(L - size), NEW a \in 0..(SendBufSize - 1),
               RingPiece(b, a, 1), RingOff(b, a) = Start(c) + size + j - 1
        PROVE  region'[c][j] = cmem[c][a]
    <3>1. j + size \in 1..L /\ region'[c][j] = region[c][j + size]
      BY <1>5, <1>6, <1>8
    <3>2. Settled(c, j + size)
      BY DEF Settled
    <3>3. RingOff(b, a) = Start(c) + (j + size) - 1
      BY <1>5, <1>15, <1>18, <2>1
    <3>4. region[c][j + size] = cmem[c][a]
      BY <1>1, <2>1, <3>1, <3>2, <3>3 DEF FlowOf, Reading, RegionRight
    <3>5. QED
      BY <3>1, <3>4
  <2>2. cbuf'[c] = b /\ cmem'[c] = cmem[c] /\ clt' = c /\ Start(c)' = Start(c) + size
    BY <1>2, <1>18
  <2>3. \A j \in 1..Len(region'[c]) : \A a \in 0..(SendBufSize - 1) :
          /\ Settled(c, j)' /\ RingPiece(cbuf'[c], a, 1)
          /\ RingOff(cbuf'[c], a) = Start(c)' + j - 1
          => region'[c][j] = cmem'[c][a]
    BY <1>8, <2>1, <2>2
  <2>4. QED
    BY <2>2, <2>3 DEF RegionRight
<1>24. TakenRight(c)'
  <2>1. \A i \in 1..Len(delivered'[c]) : delivered'[c][i] = Image(i, sent'[c][i].size)
    BY <1>2 DEF FlowOf, TakenRight
  <2>2. ASSUME NEW i \in 1..(l + 1)
        PROVE  list'[c][i].data = Image(d + i, sent[c][d + i].size)
    <3>1. CASE i \in 1..l
      BY <1>1, <1>10, <3>1 DEF FlowOf, TakenRight
    <3>2. CASE i = l + 1
      <4>1. list'[c][i].data = Image(T + 1, sent[c][T + 1].size)
        BY <1>4, <1>5, <1>9, <1>10, <3>2
      <4>2. d + i = T + 1
        BY <1>6, <3>2
      <4>3. QED
        BY <4>1, <4>2
    <3>3. QED
      BY <3>1, <3>2
  <2>3. QED
    BY <1>1, <1>2, <1>10, <2>1, <2>2 DEF TakenRight
<1>25. FlowOf(c)'
  BY <1>14, <1>16, <1>17, <1>19, <1>21, <1>22, <1>23, <1>24 DEF FlowOf, Reading
<1>26. NotDrained'
  BY <1>2, <1>8, <1>20 DEF NotDrained
<1>27. QED
  BY <1>2, <1>25, <1>26

(* Taking up a publication *)

\* The server takes up what client c published: the first message not taken is
\* where it begins to read.
LEMMA NewsFlow ==
  ASSUME TypeOK, HandoverInv, NEW c \in Clients, FlowOf(c),
         readDone[c], region[c] = <<>>, saddr[c].signal = 1,
         spc = "pick", spc' = "read",
         UNCHANGED <<clientVars, saddr, region, listVars, reqVars>>,
         readAddr'[c] = saddr[c].used, ~readDone'[c]
  PROVE  FlowOf(c)'
<1>1. /\ UNCHANGED <<cpc, cbuf, cmem, caddr, sent, saddr, region, list, delivered,
                     reads, ackPosted>>
      /\ ~Copying(c) /\ ~Copying(c)' /\ ~Active(c) /\ Active(c)'
  BY DEF clientVars, listVars, reqVars, Copying, Active
<1>2. /\ caddr[c].signal = 1 /\ ~AckDue(c)
      /\ saddr[c].used = caddr[c].used
  BY DEF HandoverInv, SignalAtServer, AtServer, Handover, OneWriter, SamePointers
<1>3. /\ RingPointer(cbuf[c], caddr[c].free) /\ cbuf[c].used = caddr[c].used
      /\ PubWraps(c) => RingWraps(cbuf[c]) /\ caddr[c].end = cbuf[c].end
  BY <1>2 DEF FlowOf, Pointers
<1>4. reads[c] = <<>> /\ Len(reads[c]) = 0 /\ Len(region[c]) = 0
  BY NothingPosted
<1>5. RingOff(cbuf[c], cbuf[c].used) = 0 /\ readAddr'[c] = cbuf[c].used
  <2>1. cbuf[c].used \in Int
    BY FlowTypes DEF Buffers
  <2>2. QED
    BY <1>2, <1>3, <2>1 DEF RingOff
<1>6. Start(c) = 0 /\ Start(c)' = 0
  BY <1>1, <1>4, <1>5 DEF Start
<1>7. Cursor(c)'
  <2>1. PubWraps(c)' = PubWraps(c) /\ PubLim(c)' = PubLim(c)
    BY <1>1 DEF PubWraps, PubLim
  <2>2. /\ caddr[c].used \in Int /\ caddr[c].free \in Int /\ caddr[c].end \in Int
    BY FlowTypes DEF Addrs
  <2>3. RingOK(cbuf[c])
    BY DEF FlowOf, Layout, Placed
  <2>4. caddr[c].used <= PubLim(c)
    BY <1>3, <2>2, <2>3 DEF PubLim, PubWraps, RingOK
  <2>5. readAddr'[c] >= caddr'[c].used /\ readAddr'[c] <= PubLim(c)'
    BY <1>1, <1>2, <2>1, <2>2, <2>4
  <2>6. QED
    BY <1>1, <1>5, <2>5 DEF Cursor
<1>8. ReadsRight(c)' /\ RegionRight(c)'
  BY <1>1, <1>4 DEF ReadsRight, RegionRight
<1>9. TakenRight(c)' /\ TakenNum(c)' = TakenNum(c)
  BY <1>1, TakenFrame DEF FlowOf
<1>10. Layout(c)' /\ \A n : MsgOff(c, n)' = MsgOff(c, n)
  BY <1>1, <1>9, LayoutFrame DEF FlowOf
<1>11. SomePublished(c)'
  BY <1>1, <1>9, <1>10, PublishedFrame DEF FlowOf
<1>12. Pointers(c)'
  BY <1>1, PointersFrame DEF FlowOf
<1>13. AtStart(c)'
  BY <1>2, <1>6, <1>9, <1>10 DEF FlowOf, AtStart
<1>14. QED
  BY <1>7, <1>8, <1>9, <1>10, <1>11, <1>12, <1>13 DEF FlowOf, Reading

\* Turning to the next client keeps the invariant.
LEMMA PickClientFlow ==
  ASSUME TypeOK, HandoverInv, NEW c \in Clients, PickClient(c),
         NEW d \in Clients, FlowOf(d)
  PROVE  FlowOf(d)'
<1>1. /\ spc = "pick" /\ spc' \in {"read", "loop"}
      /\ UNCHANGED <<clientVars, saddr, region, listVars, reqVars>>
  BY DEF PickClient
<1>2. CASE readAddr'[d] = readAddr[d] /\ readDone'[d] = readDone[d]
  <2>1. Copying(d)' <=> Copying(d)
    BY <1>1 DEF Copying
  <2>2. QED
    BY <1>1, <1>2, <2>1, FlowFrame DEF clientVars, listVars, reqVars
<1>3. CASE ~(readAddr'[d] = readAddr[d] /\ readDone'[d] = readDone[d])
  <2>1. /\ d = c /\ HasNews(c) /\ saddr[c].signal = 1 /\ spc' = "read"
        /\ readAddr' = [readAddr EXCEPT ![c] = saddr[c].used]
        /\ readDone' = [readDone EXCEPT ![c] = FALSE]
    BY <1>3 DEF PickClient, TypeOK
  <2>2. readAddr'[c] = saddr[c].used /\ ~readDone'[c]
    BY <2>1 DEF TypeOK
  <2>3. readDone[c] /\ region[c] = <<>>
    BY <2>1 DEF HasNews, RdmaBufEmpty
  <2>4. QED
    BY <1>1, <2>1, <2>2, <2>3, NewsFlow
<1>4. QED
  BY <1>2, <1>3

(* The end of the copying *)

\* The server has copied all of a publication: it took all that was published.
LEMMA AllTaken ==
  ASSUME TypeOK, HandoverInv, NEW c \in Clients, FlowOf(c), Copying(c),
         readDone[c], region[c] = <<>>
  PROVE  Published(c, TakenNum(c))
<1>1. PICK P \in Nat : Published(c, P)
  BY DEF FlowOf, SomePublished
<1>2. PICK T \in Nat, S \in Nat : T = TakenNum(c) /\ S = Len(sent[c])
  BY FlowTypes
<1>3. T <= P /\ P <= S
  BY <1>1, <1>2 DEF Published
<1>4. Active(c)
  BY DEF Active
<1>5. /\ saddr[c].signal = 1 /\ caddr[c].signal = 1 /\ ~AckDue(c)
      /\ RingOff(cbuf[c], readAddr[c]) \in Int
  BY <1>4, CursorInside
<1>6. readAddr[c] = caddr[c].free
  BY <1>4, <1>5 DEF FlowOf, Reading, Cursor
<1>7. MsgOff(c, P + 1) = MsgOff(c, T + 1) /\ MsgOff(c, P + 1) \in Int
  <2>1. Start(c) = RingOff(cbuf[c], readAddr[c]) - 0
    BY <1>4 DEF Start
  <2>2. MsgOff(c, T + 1) = Start(c)
    BY <1>2, <1>5 DEF FlowOf, AtStart
  <2>3. MsgOff(c, P + 1) = RingOff(cbuf[c], readAddr[c])
    BY <1>1, <1>6 DEF Published
  <2>4. QED
    BY <1>5, <2>1, <2>2, <2>3
<1>8. ASSUME T < P PROVE FALSE
  <2>1. /\ T + 1 \in (T + 1)..S /\ T + 1 \in 1..S
        /\ T + 1 + 1 \in (T + 1)..(S + 1) /\ P + 1 \in (T + 1)..(S + 1)
        /\ T + 1 + 1 <= P + 1
    BY <1>3, <1>8
  <2>2. /\ MsgOff(c, T + 1 + 1) = MsgOff(c, T + 1) + sent[c][T + 1].size
        /\ MsgOff(c, T + 1 + 1) <= MsgOff(c, P + 1)
    BY <1>2, <2>1 DEF FlowOf, Layout, Chained, Untaken
  <2>3. sent[c][T + 1].size \in Nat /\ sent[c][T + 1].size >= 2
    BY <1>2, <2>1, SizeBounds DEF FlowOf, Layout
  <2>4. QED
    BY <1>7, <2>2, <2>3
<1>9. P = T
  BY <1>3, <1>8
<1>10. QED
  BY <1>1, <1>2, <1>9

\* A step that leaves everything of client c alone but begins or ends the
\* copying of a publication that is not copied yet.
LEMMA CopyingFrame ==
  ASSUME NEW c \in Clients, FlowOf(c),
         cpc'[c] = cpc[c], cbuf'[c] = cbuf[c], cmem'[c] = cmem[c],
         caddr'[c] = caddr[c], sent'[c] = sent[c], saddr'[c] = saddr[c],
         readAddr'[c] = readAddr[c], readDone'[c] = readDone[c],
         region'[c] = region[c], list'[c] = list[c], delivered'[c] = delivered[c],
         reads'[c] = reads[c], ackPosted'[c] = ackPosted[c],
         ~readDone[c] \/ region[c] # <<>>
  PROVE  FlowOf(c)'
<1>1. TakenRight(c)' /\ TakenNum(c)' = TakenNum(c)
  BY TakenFrame DEF FlowOf
<1>2. Layout(c)' /\ \A n : MsgOff(c, n)' = MsgOff(c, n)
  BY <1>1, LayoutFrame DEF FlowOf
<1>3. SomePublished(c)'
  BY <1>1, <1>2, PublishedFrame DEF FlowOf
<1>4. Pointers(c)'
  BY PointersFrame DEF FlowOf
<1>5. Active(c) /\ Active(c)'
  BY DEF Active
<1>6. Start(c)' = Start(c)
  BY <1>5 DEF Start
<1>7. Reading(c)'
  BY <1>5, <1>6, ReadingFrame DEF FlowOf
<1>8. AtStart(c)'
  BY <1>1, <1>2, <1>6 DEF FlowOf, AtStart, AckDue
<1>9. QED
  BY <1>1, <1>2, <1>3, <1>4, <1>7, <1>8 DEF FlowOf

\* Starting to copy, or not, keeps the invariant.
LEMMA TestReadFlow ==
  ASSUME TypeOK, TestRead, NEW d \in Clients, FlowOf(d)
  PROVE  FlowOf(d)'
<1>1. /\ spc = "test" /\ spc' \in {"copy", "decode"}
      /\ UNCHANGED <<clientVars, readVars, listVars, reqVars, clt>>
      /\ spc' = "copy" => RdmaBufExistMsg(clt)
  BY DEF TestRead
<1>2. CASE Copying(d)' <=> Copying(d)
  BY <1>1, <1>2, FlowFrame DEF clientVars, readVars, listVars, reqVars
<1>3. CASE ~(Copying(d)' <=> Copying(d))
  <2>1. RdmaBufExistMsg(d)
    BY <1>1, <1>3 DEF Copying
  <2>2. region[d] # <<>>
    <3>1. HdrSize \in Nat \ {0} /\ HdrSize <= Len(region[d])
      BY <2>1, SizesAssumption DEF RdmaBufExistMsg
    <3>2. region[d] = <<>> => Len(region[d]) = 0
      OBVIOUS
    <3>3. QED
      BY <3>1, <3>2
  <2>3. QED
    BY <1>1, <2>2, CopyingFrame DEF clientVars, readVars, listVars, reqVars
<1>4. QED
  BY <1>2, <1>3

\* The server has no more to copy and goes on to decode; when it has all of the
\* publication it acknowledges.
LEMMA CopiedFlow ==
  ASSUME TypeOK, HandoverInv, Copied, reads[clt] = <<>>,
         NEW d \in Clients, FlowOf(d)
  PROVE  FlowOf(d)'
<1>1. /\ spc = "copy" /\ spc' = "decode"
      /\ UNCHANGED <<clientVars, readAddr, readDone, region, list, delivered, reads,
                     clt>>
  BY DEF Copied
<1>2. CASE d # clt
  <2>1. Copying(d)' <=> Copying(d)
    BY <1>1, <1>2 DEF Copying
  <2>2. saddr'[d] = saddr[d] /\ ackPosted'[d] = ackPosted[d]
    BY <1>2 DEF Copied, TypeOK
  <2>3. QED
    BY <1>1, <2>1, <2>2, FlowFrame DEF clientVars
<1>3. CASE d = clt /\ ~CopiedAll(clt)
  <2>1. UNCHANGED <<saddr, ackPosted>>
    BY <1>3 DEF Copied
  <2>2. ~readDone[d] \/ region[d] # <<>>
    BY <1>3 DEF CopiedAll, RdmaBufEmpty
  <2>3. QED
    BY <1>1, <2>1, <2>2, CopyingFrame DEF clientVars
<1>4. CASE d = clt /\ CopiedAll(clt)
  <2>1. readDone[d] /\ region[d] = <<>> /\ reads[d] = <<>> /\ Copying(d)
    BY <1>1, <1>4 DEF CopiedAll, RdmaBufEmpty, Copying
  <2>2. ackPosted'[d]
    BY <1>4 DEF Copied, TypeOK
  <2>3. Published(d, TakenNum(d)) /\ TakenNum(d) \in Nat
    BY <2>1, AllTaken, FlowTypes
  <2>4. Reading(d)'
    BY <1>1, <2>1, IdleReading DEF Copying
  <2>5. TakenRight(d)' /\ TakenNum(d)' = TakenNum(d)
    BY <1>1, TakenFrame DEF FlowOf, clientVars
  <2>6. Layout(d)' /\ \A n : MsgOff(d, n)' = MsgOff(d, n)
    BY <1>1, <2>5, LayoutFrame DEF FlowOf, clientVars
  <2>7. SomePublished(d)'
    <3>1. PICK P \in Nat : P = TakenNum(d)
      BY <2>3
    <3>2. Published(d, P)'
      BY <1>1, <2>3, <2>5, <2>6, <3>1 DEF Published, clientVars
    <3>3. QED
      BY <3>2 DEF SomePublished
  <2>8. Pointers(d)'
    BY <1>1, PointersFrame DEF FlowOf, clientVars
  <2>9. AtStart(d)'
    BY <2>2 DEF AtStart, AckDue
  <2>10. QED
    BY <2>4, <2>5, <2>6, <2>7, <2>8, <2>9 DEF FlowOf
<1>5. QED
  BY <1>2, <1>3, <1>4

(* Decoding *)

\* A round moves the head of every list to what is decoded.
LEMMA DecodeRoundFlow ==
  ASSUME TypeOK, CountsAgree, DecodeRound, NEW d \in Clients, FlowOf(d)
  PROVE  FlowOf(d)'
<1>1. /\ spc = "decode" /\ msgCltCnt = ClientNum
      /\ delivered' = [c \in Clients |-> Append(delivered[c], Head(list[c]).data)]
      /\ list' = [c \in Clients |-> Tail(list[c])]
      /\ UNCHANGED <<clientVars, readVars, reqVars, spc, clt>>
  BY DEF DecodeRound
<1>2. list[d] # <<>>
  BY <1>1, RoundHasAll
<1>3. PICK n \in Nat, l \in Nat : n = Len(delivered[d]) /\ l = Len(list[d])
  BY FlowTypes
<1>4. /\ list[d] \in Seq(Listed) /\ delivered[d] \in Seq(Seq(Unit))
  BY FlowTypes
<1>5. l >= 1
  BY <1>2, <1>3, <1>4, EmptySeq
<1>6. /\ Head(list[d]) = list[d][1] /\ list[d][1] \in Listed
      /\ Len(list'[d]) = l - 1 /\ \A i \in 1..(l - 1) : list'[d][i] = list[d][i + 1]
  <2>1. list'[d] = Tail(list[d])
    BY <1>1
  <2>2. /\ Head(list[d]) = list[d][1] /\ Head(list[d]) \in Listed
        /\ Len(Tail(list[d])) = l - 1
        /\ \A i \in 1..Len(Tail(list[d])) : Tail(list[d])[i] = list[d][i + 1]
    BY <1>2, <1>3, <1>4, HeadTailProperties
  <2>3. QED
    BY <2>1, <2>2
<1>7. /\ Len(delivered'[d]) = n + 1 /\ delivered'[d][n + 1] = list[d][1].data
      /\ \A i \in 1..n : delivered'[d][i] = delivered[d][i]
  <2>1. list[d][1].data \in Seq(Unit)
    BY <1>6 DEF Listed
  <2>2. delivered'[d] = Append(delivered[d], list[d][1].data)
    BY <1>1, <1>6
  <2>3. QED
    BY <1>3, <1>4, <2>1, <2>2, AppendProperties
<1>8. TakenNum(d)' = TakenNum(d)
  <2>1. TakenNum(d)' = (n + 1) + (l - 1)
    BY <1>6, <1>7, Zenon DEF TakenNum
  <2>2. TakenNum(d) = n + l
    BY <1>3, Zenon DEF TakenNum
  <2>3. QED
    BY <2>1, <2>2
<1>9. TakenRight(d)'
  <2>1. /\ \A i \in 1..n : delivered[d][i] = Image(i, sent[d][i].size)
        /\ \A i \in 1..l : list[d][i].data = Image(n + i, sent[d][n + i].size)
    BY <1>3 DEF FlowOf, TakenRight
  <2>2. ASSUME NEW i \in 1..(n + 1)
        PROVE  delivered'[d][i] = Image(i, sent[d][i].size)
    <3>1. CASE i \in 1..n
      BY <1>7, <2>1, <3>1
    <3>2. CASE i = n + 1
      BY <1>5, <1>7, <2>1, <3>2
    <3>3. QED
      BY <3>1, <3>2
  <2>3. ASSUME NEW i \in 1..(l - 1)
        PROVE  list'[d][i].data = Image(n + 1 + i, sent[d][n + 1 + i].size)
    <3>1. i + 1 \in 1..l /\ n + (i + 1) = n + 1 + i
      OBVIOUS
    <3>2. list[d][i + 1].data = Image(n + (i + 1), sent[d][n + (i + 1)].size)
      BY <2>1, <3>1
    <3>3. QED
      BY <1>6, <3>1, <3>2
  <2>4. sent'[d] = sent[d]
    BY <1>1 DEF clientVars
  <2>5. QED
    BY <1>6, <1>7, <2>2, <2>3, <2>4 DEF TakenRight
<1>10. Layout(d)' /\ \A k : MsgOff(d, k)' = MsgOff(d, k)
  BY <1>1, <1>8, LayoutFrame DEF FlowOf, clientVars
<1>11. SomePublished(d)'
  BY <1>1, <1>8, <1>10, PublishedFrame DEF FlowOf, clientVars, reqVars
<1>12. Pointers(d)'
  BY <1>1, PointersFrame DEF FlowOf, clientVars
<1>13. Start(d)' = Start(d) /\ (Active(d)' <=> Active(d))
  BY <1>1, StartFrame DEF clientVars, readVars, Copying
<1>14. Reading(d)'
  BY <1>1, <1>13, ReadingFrame DEF FlowOf, clientVars, readVars, reqVars
<1>15. AtStart(d)'
  BY <1>1, <1>8, <1>10, <1>13 DEF FlowOf, AtStart, AckDue, clientVars, reqVars
<1>16. QED
  BY <1>9, <1>10, <1>11, <1>12, <1>14, <1>15 DEF FlowOf

\* The other steps of the server leave the messages alone.
LEMMA ServerRestFlow ==
  ASSUME \/ WaitSome \/ (\E c \in Clients : Poll(c)) \/ Drained \/ SkipRead
         \/ Decoded \/ ServerExit,
         NEW d \in Clients, FlowOf(d)
  PROVE  FlowOf(d)'
<1>1. /\ UNCHANGED <<clientVars, readVars, list, delivered, reads, ackPosted, clt>>
      /\ spc # "copy" /\ spc' # "copy"
  BY DEF WaitSome, Poll, Drained, SkipRead, Decoded, ServerExit, listVars, reqVars
<1>2. Copying(d)' <=> Copying(d)
  BY <1>1 DEF Copying
<1>3. QED
  BY <1>1, <1>2, FlowFrame DEF clientVars, readVars

(* A full region is never emptied *)

\* No request that is carried out empties a region.
LEMMA NotDrainedNic ==
  ASSUME TypeOK, NotDrained, NEW c \in Clients,
         \/ Application(c) \/ InCall(c)
         \/ AddrLands(c) \/ ReadLands(c) \/ AckLands(c)
  PROVE  NotDrained'
<1>1. UNCHANGED <<spc, clt, readDone, rest, rbuf>>
  BY DEF Application, InCall, AddrLands, ReadLands, AckLands, readVars, listVars, reqVars
<1>2. clt \in Clients /\ region[clt] \in Seq(Unit) /\ Len(region[clt]) \in Nat
  <2>1. clt \in Clients
    BY DEF TypeOK
  <2>2. QED
    BY <2>1, FlowTypes
<1>3. Len(region'[clt]) = Len(region[clt]) /\ (region'[clt] = <<>> => region[clt] = <<>>)
  <2>1. CASE region'[clt] = region[clt]
    BY <2>1
  <2>2. CASE region'[clt] # region[clt]
    <3>1. ReadLands(c) /\ c = clt
      BY <2>2 DEF Application, InCall, AddrLands, ReadLands, AckLands, readVars, TypeOK
    <3>2. PICK f : region' = [region EXCEPT ![c] = [i \in 1..Len(region[c]) |-> f[i]]]
      <4> DEFINE r == Head(reads[c])
                 g == [i \in 1..Len(region[c]) |->
                         IF i - r.to \in 1..r.len
                            /\ r.from + i - 1 - r.to \in 0..(SendBufSize - 1)
                         THEN cmem[c][r.from + i - 1 - r.to] ELSE region[c][i]]
      <4>1. region' = [region EXCEPT ![c] = g]
        BY <3>1, Zenon DEF ReadLands
      <4>2. g = [i \in 1..Len(region[c]) |-> g[i]]
        OBVIOUS
      <4> HIDE DEF g
      <4>3. QED
        BY <4>1, <4>2
    <3>3. Len(region'[clt]) = Len(region[clt])
      BY <1>2, <3>1, <3>2 DEF TypeOK
    <3>4. region'[clt] = <<>> => region[clt] = <<>>
      <4>1. region'[clt] = <<>> => Len(region[clt]) = 0
        BY <3>3
      <4>2. QED
        BY <1>2, <4>1, EmptySeq
    <3>5. QED
      BY <3>3, <3>4
  <2>3. QED
    BY <2>1, <2>2
<1>4. QED
  BY <1>1, <1>3 DEF NotDrained

\* No step of the server empties a region before its publication is read.
LEMMA NotDrainedServer ==
  ASSUME TypeOK, NotDrained,
         \/ WaitSome \/ (\E c \in Clients : Poll(c)) \/ Drained
         \/ (\E c \in Clients : PickClient(c)) \/ SkipRead \/ TestRead
         \/ Copied \/ DecodeRound \/ Decoded \/ ServerExit
  PROVE  NotDrained'
<1>1. clt \in Clients
  BY DEF TypeOK
<1>2. CASE SkipRead
  <2>1. /\ UNCHANGED <<clt, readDone, region, rest>> /\ spc' = "test"
        /\ readDone[clt] \/ Len(region[clt]) >= RegionSize
    BY <1>2 DEF SkipRead, RdmaBufFull, readVars, reqVars
  <2>2. QED
    BY <2>1 DEF NotDrained
<1>3. CASE TestRead
  <2>1. /\ UNCHANGED <<clt, readDone, region, rest, rbuf>> /\ spc = "test"
        /\ spc' \in {"copy", "decode"}
    BY <1>3 DEF TestRead, readVars, reqVars, listVars
  <2>2. ASSUME spc' = "copy", ~readDone[clt]
        PROVE  Len(region[clt]) > FreeBufSize(RegionSize, rbuf[clt])
    <3>1. RdmaBufExistMsg(clt) /\ rest[clt] = 0
      BY <1>3, <2>2 DEF TestRead, ServerTest
    <3>2. HdrSize \in Nat \ {0} /\ HdrSize <= Len(region[clt])
      BY <3>1, SizesAssumption DEF RdmaBufExistMsg
    <3>3. region[clt] # <<>>
      <4>1. region[clt] = <<>> => Len(region[clt]) = 0
        OBVIOUS
      <4>2. QED
        BY <3>2, <4>1
    <3>4. Len(region[clt]) >= RegionSize
      BY <2>1, <2>2, <3>1, <3>3 DEF NotDrained
    <3>5. /\ RegionSize \in Nat \ {0} /\ Len(region[clt]) \in Nat
          /\ FreeBufSize(RegionSize, rbuf[clt]) \in 0..(RegionSize - 1)
      BY <1>1, FlowTypes, FreeBufSizeBound
    <3>6. QED
      BY <3>4, <3>5
  <2>3. QED
    BY <2>1, <2>2 DEF NotDrained
<1>4. CASE \/ WaitSome \/ (\E c \in Clients : Poll(c)) \/ Drained
           \/ (\E c \in Clients : PickClient(c))
           \/ Copied \/ DecodeRound \/ Decoded \/ ServerExit
  <2>1. spc' # "test" /\ spc' # "copy"
    BY <1>4 DEF WaitSome, Poll, Drained, PickClient, Copied, DecodeRound, Decoded,
                ServerExit
  <2>2. QED
    BY <2>1 DEF NotDrained
<1>5. QED
  BY <1>2, <1>3, <1>4

(***************************************************************************)
(* The invariant.                                                          *)
(***************************************************************************)
\* Nothing is packed, published or read at the start.
LEMMA FlowInit ==
  ASSUME Init
  PROVE  FlowInv
<1>1. NotDrained
  BY DEF Init, NotDrained
<1>2. SUFFICES ASSUME NEW c \in Clients PROVE FlowOf(c)
  BY <1>1 DEF FlowInv
<1>3. /\ cpc[c] = "app" /\ cbuf[c] = BufOpen /\ caddr[c] = AddrInit(BufOpen, 0)
      /\ sent[c] = <<>> /\ saddr[c] = AddrInit(BufOpen, 0) /\ readDone[c]
      /\ region[c] = <<>> /\ list[c] = <<>> /\ delivered[c] = <<>> /\ reads[c] = <<>>
      /\ spc = "loop"
  BY DEF Init
<1>4. /\ Len(sent[c]) = 0 /\ Len(region[c]) = 0 /\ Len(list[c]) = 0
      /\ Len(delivered[c]) = 0 /\ Len(reads[c]) = 0
      /\ cbuf[c].used = 0 /\ cbuf[c].free = 0 /\ cbuf[c].end = 0
      /\ caddr[c].free = 0 /\ caddr[c].signal = 0
  BY <1>3 DEF BufOpen, AddrInit
<1>5. TakenNum(c) = 0 /\ Untaken(c) = {}
  <2>1. TakenNum(c) = 0
    BY <1>4 DEF TakenNum
  <2>2. QED
    BY <1>4, <2>1 DEF Untaken
<1>6. \A n \in 1..1 : MsgOff(c, n) = 0 /\ RingOff(cbuf[c], caddr[c].free) = 0
  BY <1>4 DEF MsgOff, RingOff
<1>7. Layout(c)
  <2>1. Sizes(c) /\ Intact(c)
    BY <1>4, <1>5 DEF Sizes, Intact
  <2>2. Placed(c)
    BY <1>4, <1>5 DEF Placed, RingOK, RingWraps
  <2>3. Chained(c)
    <3>1. \A m, n \in (TakenNum(c) + 1)..(Len(sent[c]) + 1) : MsgOff(c, m) = 0 /\ MsgOff(c, n) = 0
      BY <1>4, <1>5, <1>6
    <3>2. QED
      BY <1>5, <3>1 DEF Chained
  <2>4. QED
    BY <2>1, <2>2, <2>3 DEF Layout
<1>8. SomePublished(c)
  <2>1. Published(c, 0)
    BY <1>3, <1>4, <1>5, <1>6 DEF Published
  <2>2. QED
    BY <2>1 DEF SomePublished
<1>9. Pointers(c) /\ AtStart(c)
  BY <1>4 DEF Pointers, AtStart, RingPointer, RingLim, RingWraps
<1>10. Reading(c)
  <2>1. ~Active(c)
    BY <1>3 DEF Active, Copying
  <2>2. Cursor(c)
    BY <1>3, <2>1 DEF Cursor
  <2>3. ReadsRight(c) /\ RegionRight(c)
    BY <1>4 DEF ReadsRight, RegionRight
  <2>4. QED
    BY <2>2, <2>3 DEF Reading
<1>11. TakenRight(c)
  BY <1>4 DEF TakenRight
<1>12. QED
  BY <1>7, <1>8, <1>9, <1>10, <1>11 DEF FlowOf

\* Every step keeps the stream right, as long as no message ends at the end of
\* its client's buffer and the server copies only what has been read.
LEMMA FlowNext ==
  ASSUME TypeOK, CountsAgree, HandoverInv, CopyOnlyRead, FlowInv, NeverFillsUp',
         [Next]_vars
  PROVE  FlowInv'
<1>1. NotDrained /\ \A d \in Clients : FlowOf(d)
  BY DEF FlowInv
<1>2. clt \in Clients
  BY DEF TypeOK
<1>3. ASSUME NEW c \in Clients,
             \/ Application(c) \/ InCall(c)
             \/ AddrLands(c) \/ ReadLands(c) \/ AckLands(c)
      PROVE  FlowInv'
  <2>1. NotDrained'
    BY <1>1, <1>3, NotDrainedNic
  <2>2. FlowOf(c)'
    BY <1>1, <1>3, ClientFlow, AddrLandsFlow, ReadLandsFlow, AckLandsFlow
  <2>3. ASSUME NEW d \in Clients, d # c PROVE FlowOf(d)'
    <3>1. /\ cpc'[d] = cpc[d] /\ cbuf'[d] = cbuf[d] /\ cmem'[d] = cmem[d]
          /\ caddr'[d] = caddr[d] /\ sent'[d] = sent[d] /\ saddr'[d] = saddr[d]
          /\ readAddr'[d] = readAddr[d] /\ readDone'[d] = readDone[d]
          /\ region'[d] = region[d] /\ list'[d] = list[d]
          /\ delivered'[d] = delivered[d] /\ reads'[d] = reads[d]
          /\ ackPosted'[d] = ackPosted[d]
      <4>1. CASE Application(c)
        BY <2>3, <4>1 DEF Application, Call, IoEnd, Finalize, Publish, TypeOK,
                          readVars, listVars, reqVars
      <4>2. CASE InCall(c)
        BY <2>3, <4>2 DEF InCall, EnsureSkip, Pack, BufFreeReclaim, BufFreePublish,
                          BufFreeReturn, IoEndReturn, IoDone, SendFinal, Publish,
                          TypeOK, readVars, listVars, reqVars
      <4>3. CASE AddrLands(c) \/ ReadLands(c) \/ AckLands(c)
        BY <2>3, <4>3 DEF AddrLands, ReadLands, AckLands, TypeOK, clientVars, readVars,
                          listVars, reqVars
      <4>4. QED
        BY <1>3, <4>1, <4>2, <4>3
    <3>2. Copying(d)' <=> Copying(d)
      <4>1. UNCHANGED <<spc, clt>>
        BY <1>3 DEF Application, InCall, AddrLands, ReadLands, AckLands
      <4>2. QED
        BY <4>1 DEF Copying
    <3>3. QED
      BY <1>1, <3>1, <3>2, FlowFrame
  <2>4. QED
    BY <2>1, <2>2, <2>3 DEF FlowInv
<1>4. ASSUME Server
      PROVE  FlowInv'
  <2>1. CASE ReadData
    <3>1. FlowOf(clt)' /\ (~readDone'[clt] /\ region'[clt] # <<>> => rest'[clt] > 0)
      BY <1>1, <1>2, <2>1, ReadDataFlow
    <3>2. /\ spc = "read" /\ spc' = "test" /\ clt' = clt
          /\ UNCHANGED <<clientVars, saddr, listVars, ackPosted>>
          /\ \A d \in Clients : d # clt =>
               /\ readAddr'[d] = readAddr[d] /\ readDone'[d] = readDone[d]
               /\ region'[d] = region[d] /\ reads'[d] = reads[d]
      BY <2>1 DEF ReadData, TypeOK
    <3>3. NotDrained'
      BY <3>1, <3>2 DEF NotDrained
    <3>4. ASSUME NEW d \in Clients, d # clt PROVE FlowOf(d)'
      <4>1. Copying(d)' <=> Copying(d)
        BY <3>2 DEF Copying
      <4>2. QED
        BY <1>1, <3>2, <3>4, <4>1, FlowFrame DEF clientVars, listVars
    <3>5. QED
      BY <1>2, <3>1, <3>2, <3>3, <3>4 DEF FlowInv
  <2>2. CASE CopyMsg
    <3>1. reads[clt] = <<>>
      BY <2>2 DEF CopyMsg, CopyOnlyRead
    <3>2. FlowOf(clt)' /\ NotDrained'
      BY <1>1, <1>2, <2>2, <3>1, CopyMsgFlow
    <3>3. /\ spc' = spc /\ clt' = clt
          /\ UNCHANGED <<clientVars, saddr, readAddr, readDone, delivered, reqVars>>
          /\ \A d \in Clients : d # clt =>
               region'[d] = region[d] /\ list'[d] = list[d]
      BY <2>2 DEF CopyMsg, TypeOK
    <3>4. ASSUME NEW d \in Clients, d # clt PROVE FlowOf(d)'
      <4>1. Copying(d)' <=> Copying(d)
        BY <3>3 DEF Copying
      <4>2. QED
        BY <1>1, <3>3, <3>4, <4>1, FlowFrame DEF clientVars, reqVars
    <3>5. QED
      BY <1>2, <3>2, <3>3, <3>4 DEF FlowInv
  <2>3. CASE \/ WaitSome \/ (\E c \in Clients : Poll(c)) \/ Drained
             \/ (\E c \in Clients : PickClient(c)) \/ SkipRead \/ TestRead
             \/ Copied \/ DecodeRound \/ Decoded \/ ServerExit
    <3>1. NotDrained'
      BY <1>1, <2>3, NotDrainedServer
    <3>2. Copied => reads[clt] = <<>>
      BY DEF Copied, CopyOnlyRead
    <3>3. ASSUME NEW d \in Clients PROVE FlowOf(d)'
      BY <1>1, <2>3, <3>2, PickClientFlow, TestReadFlow, CopiedFlow, DecodeRoundFlow,
         ServerRestFlow
    <3>4. QED
      BY <3>1, <3>3 DEF FlowInv
  <2>4. QED
    BY <1>4, <2>1, <2>2, <2>3 DEF Server
<1>5. CASE UNCHANGED vars
  <2>1. UNCHANGED <<clientVars, readVars, rbuf, list, delivered, reqVars, spc, clt>>
    BY <1>5 DEF vars, listVars
  <2>2. NotDrained'
    BY <1>1, <2>1 DEF NotDrained, readVars, reqVars
  <2>3. ASSUME NEW d \in Clients PROVE FlowOf(d)'
    <3>1. Copying(d)' <=> Copying(d)
      BY <2>1 DEF Copying
    <3>2. QED
      BY <1>1, <2>1, <3>1, FlowFrame DEF clientVars, readVars, reqVars
  <2>4. QED
    BY <2>2, <2>3 DEF FlowInv
<1>6. QED
  BY <1>3, <1>4, <1>5 DEF Next, Terminating

\* The inductive invariant of the stream.
THEOREM FlowCorrect ==
  Spec /\ []NeverFillsUp /\ []CopyOnlyRead => []FlowInv
<1>1. Init => FlowInv
  BY FlowInit
<1>2. TypeOK /\ CountsAgree /\ HandoverInv /\ CopyOnlyRead /\ FlowInv /\ NeverFillsUp'
      /\ [Next]_vars => FlowInv'
  BY FlowNext
<1>3. QED
  BY <1>1, <1>2, TypeCorrect, CountsCorrect, HandoverCorrect, PTL DEF Spec

\* What Taken(c) is, message by message.
LEMMA TakenItems ==
  ASSUME TypeOK, NEW c \in Clients
  PROVE  /\ Len(Taken(c)) = TakenNum(c) /\ TakenNum(c) \in Nat
         /\ \A i \in 1..TakenNum(c) :
              Taken(c)[i] = IF i <= Len(delivered[c]) THEN delivered[c][i]
                            ELSE list[c][i - Len(delivered[c])].data
<1> DEFINE rest_ == [i \in 1..Len(list[c]) |-> list[c][i].data]
<1>1. PICK n \in Nat, l \in Nat : n = Len(delivered[c]) /\ l = Len(list[c])
  BY FlowTypes
<1>2. delivered[c] \in Seq(Seq(Unit)) /\ list[c] \in Seq(Listed)
  BY FlowTypes
<1>3. \A i \in 1..l : list[c][i].data \in Seq(Unit)
  <2>1. \A i \in 1..l : list[c][i] \in Listed
    BY <1>1, <1>2, ElementOfSeq
  <2>2. QED
    BY <2>1 DEF Listed
<1>4. /\ rest_ \in Seq(Seq(Unit)) /\ Len(rest_) = l
      /\ \A i \in 1..l : rest_[i] = list[c][i].data
  BY <1>1, <1>3, IsASeq
<1> HIDE DEF rest_
<1>5. /\ Len(delivered[c] \o rest_) = n + l
      /\ \A i \in 1..(n + l) : (delivered[c] \o rest_)[i] =
                                 IF i <= n THEN delivered[c][i] ELSE rest_[i - n]
  <2>1. /\ Len(delivered[c] \o rest_) = Len(delivered[c]) + Len(rest_)
        /\ \A i \in 1..(Len(delivered[c]) + Len(rest_)) :
             (delivered[c] \o rest_)[i] =
               IF i <= Len(delivered[c]) THEN delivered[c][i]
               ELSE rest_[i - Len(delivered[c])]
    BY <1>2, <1>4, ConcatProperties
  <2>2. QED
    BY <1>1, <1>4, <2>1
<1>6. Taken(c) = delivered[c] \o rest_
  BY DEF Taken, rest_
<1>7. TakenNum(c) = n + l
  BY <1>1, Zenon DEF TakenNum
<1>8. \A i \in 1..(n + l) : i > n => rest_[i - n] = list[c][i - n].data
  <2>1. \A i \in 1..(n + l) : i > n => i - n \in 1..l
    OBVIOUS
  <2>2. QED
    BY <1>4, <2>1
<1>9. \A i \in 1..(n + l) :
        Taken(c)[i] = IF i <= n THEN delivered[c][i] ELSE list[c][i - n].data
  BY <1>5, <1>6, <1>8
<1>10. n + l \in Nat /\ Len(Taken(c)) = n + l
  BY <1>5, <1>6
<1> HIDE DEF rest_
<1>11. QED
  BY <1>1, <1>7, <1>9, <1>10, Zenon

\* What the invariant says of the messages.
LEMMA FlowSafe ==
  ASSUME TypeOK, FlowInv
  PROVE  StreamInOrder /\ UntakenIntact /\ EndMarksUsed
<1>1. \A c \in Clients : FlowOf(c)
  BY DEF FlowInv
<1>2. ASSUME NEW c \in Clients, NEW i \in 1..Len(Taken(c))
      PROVE  i <= Len(sent[c]) /\ Taken(c)[i] = Image(i, sent[c][i].size)
  <2>1. PICK n \in Nat, l \in Nat, S \in Nat :
          n = Len(delivered[c]) /\ l = Len(list[c]) /\ S = Len(sent[c])
    BY FlowTypes
  <2>2. TakenNum(c) = n + l
    BY <2>1, Zenon DEF TakenNum
  <2>3. /\ i \in 1..(n + l)
        /\ Taken(c)[i] = IF i <= n THEN delivered[c][i] ELSE list[c][i - n].data
    BY <2>1, <2>2, TakenItems
  <2>4. i <= S
    <3>1. n + l <= S
      BY <1>1, <2>1, <2>2, Zenon DEF FlowOf, Layout, Placed
    <3>2. QED
      BY <2>3, <3>1
  <2>5. Taken(c)[i] = Image(i, sent[c][i].size)
    <3>1. /\ \A k \in 1..n : delivered[c][k] = Image(k, sent[c][k].size)
          /\ \A k \in 1..l : list[c][k].data = Image(n + k, sent[c][n + k].size)
      BY <1>1, <2>1 DEF FlowOf, TakenRight
    <3>2. CASE i <= n
      BY <2>3, <3>1, <3>2
    <3>3. CASE i > n
      <4>1. i - n \in 1..l /\ n + (i - n) = i
        BY <2>3, <3>3
      <4>2. list[c][i - n].data = Image(n + (i - n), sent[c][n + (i - n)].size)
        BY <3>1, <4>1
      <4>3. QED
        BY <2>3, <3>3, <4>1, <4>2
    <3>4. QED
      BY <2>3, <3>2, <3>3
  <2>6. QED
    BY <2>1, <2>4, <2>5
<1>3. ASSUME NEW c \in Clients, NEW n \in (Len(Taken(c)) + 1)..Len(sent[c])
      PROVE  n \in Untaken(c)
  BY TakenItems DEF Untaken
<1>4. StreamInOrder
  BY <1>2 DEF StreamInOrder
<1>5. UntakenIntact
  BY <1>1, <1>3 DEF UntakenIntact, FlowOf, Layout, Intact
<1>6. EndMarksUsed
  <2>1. ASSUME NEW c \in Clients, cbuf[c].free < cbuf[c].used,
               NEW n \in (Len(Taken(c)) + 1)..Len(sent[c]),
               sent[c][n].at >= cbuf[c].used
        PROVE  sent[c][n].at + sent[c][n].size <= cbuf[c].end
    <3>1. RingPiece(cbuf[c], sent[c][n].at, sent[c][n].size)
      BY <1>1, <1>3 DEF FlowOf, Layout, Placed
    <3>2. n \in 1..Len(sent[c])
      <4>1. Len(Taken(c)) \in Nat /\ Len(sent[c]) \in Nat
        BY TakenItems, FlowTypes
      <4>2. QED
        BY <4>1
    <3>3. sent[c][n].at \in Int /\ cbuf[c].used \in Int
      <4>1. sent[c][n].at \in 0..(SendBufSize - 1) /\ cbuf[c] \in Buffers(SendBufSize)
            /\ SendBufSize \in Nat \ {0}
        BY <3>2, FlowTypes
      <4>2. QED
        BY <4>1 DEF Buffers
    <3>4. QED
      BY <2>1, <3>1, <3>3 DEF RingPiece, RingLim, RingWraps
  <2>2. QED
    BY <2>1 DEF EndMarksUsed
<1>7. QED
  BY <1>4, <1>5, <1>6

\* What the server takes from a client is what the client packed: whole
\* messages, in order, none lost and none twice (send.c, _read_data and
\* _copy_data_to_list of server.c), in every execution in which no message ends
\* at the end of its buffer and the server copies only what has been read.
THEOREM StreamSafe ==
  Spec /\ []NeverFillsUp /\ []CopyOnlyRead => []StreamInOrder
<1>1. TypeOK /\ FlowInv => StreamInOrder
  BY FlowSafe
<1>2. QED
  BY <1>1, TypeCorrect, FlowCorrect, PTL

\* No byte of a message is overwritten in the client's buffer before the server
\* has the message in its list (ensure_free_space of send.c).
THEOREM UntakenSafe ==
  Spec /\ []NeverFillsUp /\ []CopyOnlyRead => []UntakenIntact
<1>1. TypeOK /\ FlowInv => UntakenIntact
  BY FlowSafe
<1>2. QED
  BY <1>1, TypeCorrect, FlowCorrect, PTL

\* While the used part wraps, end_addr is not before the end of any message of
\* its first piece (use_buf of buffer.c).
THEOREM EndMarkSafe ==
  Spec /\ []NeverFillsUp /\ []CopyOnlyRead => []EndMarksUsed
<1>1. TypeOK /\ FlowInv => EndMarksUsed
  BY FlowSafe
<1>2. QED
  BY <1>1, TypeCorrect, FlowCorrect, PTL

(***************************************************************************)
(* The end: rounds, and what a client has sent when it is done.            *)
(***************************************************************************)
\* A client that finishes has packed all its messages, and one that the server
\* counts as done has said so.
Bounded(c) ==
  /\ Len(sent[c]) <= MaxMsgs
  /\ cpc[c] \in {"ensure", "buf_free"} => Len(sent[c]) < MaxMsgs
  /\ cpc[c] \in {"final_end", "final", "done"} => Len(sent[c]) = MaxMsgs
  /\ commDone[c] => caddr[c].signal = 11

\* Every client has had as many messages decoded as every other, a complete
\* round never waits while the server is elsewhere, and the server leaves only
\* when all clients are done.
Rounds ==
  /\ \A c, d \in Clients : Len(delivered[c]) = Len(delivered[d])
  /\ spc \notin {"copy", "decode"} => msgCltCnt # ClientNum
  /\ spc = "exit" => \A c \in Clients : commDone[c]

EndInv == Rounds /\ \A c \in Clients : Bounded(c)

\* What the client's steps do to it.
LEMMA BoundedClient ==
  ASSUME TypeOK, HandoverInv, NEW c \in Clients, Bounded(c),
         Application(c) \/ InCall(c)
  PROVE  Bounded(c)'
<1>1. /\ commDone' = commDone /\ Len(sent[c]) \in Nat /\ MaxMsgs \in Nat
      /\ commDone[c] => caddr[c].signal = 11
  BY FlowTypes, SizesAssumption DEF Application, InCall, Bounded
<1>2. /\ cpc \in [Clients -> {"app", "ensure", "buf_free", "io_end", "final_end",
                              "final", "done"}]
      /\ caddr \in [Clients -> Addrs]
  BY DEF TypeOK
<1>3. caddr[c].signal = 11 => cpc[c] \in {"final", "done"}
  BY DEF HandoverInv, SignalAtClient
<1>4. CASE Pack(c)
  <2>1. /\ cpc[c] = "ensure" /\ cpc'[c] = "app" /\ caddr' = caddr
        /\ sent' = [sent EXCEPT ![c] =
                      Append(sent[c], [size |-> want[c].size, at |-> cbuf[c].free])]
    BY <1>2, <1>4 DEF Pack
  <2>2. PICK x \in Seq([size : Nat, at : 0..(SendBufSize - 1)]) : x = sent[c]
    BY DEF TypeOK
  <2>3. [size |-> want[c].size, at |-> cbuf[c].free]
          \in [size : Nat, at : 0..(SendBufSize - 1)]
    <3>1. want[c] \in Msgs /\ cbuf[c] \in Buffers(SendBufSize)
      BY DEF TypeOK
    <3>2. want[c].size \in Nat /\ cbuf[c].free \in 0..(SendBufSize - 1)
      BY <3>1, MsgsAssumption DEF Buffers
    <3>3. QED
      BY <3>2
  <2>4. Len(sent'[c]) = Len(sent[c]) + 1
    <3>1. sent'[c] = Append(x, [size |-> want[c].size, at |-> cbuf[c].free])
      BY <2>1, <2>2 DEF TypeOK
    <3>2. QED
      BY <2>2, <2>3, <3>1, AppendProperties
  <2>5. Len(sent[c]) < MaxMsgs
    BY <2>1 DEF Bounded
  <2>6. QED
    BY <1>1, <1>3, <2>1, <2>4, <2>5 DEF Bounded
<1>5. CASE ~Pack(c)
  <2>1. /\ sent' = sent
        /\ cpc'[c] \in {"ensure", "buf_free"} =>
             cpc[c] \in {"ensure", "buf_free"} \/ Len(sent[c]) < MaxMsgs
        /\ cpc'[c] \in {"final_end", "final", "done"} =>
             cpc[c] \in {"final_end", "final"} \/ Len(sent[c]) = MaxMsgs
        /\ caddr'[c] = caddr[c] \/ cpc[c] \notin {"final", "done"}
    BY <1>2, <1>5 DEF Application, Call, IoEnd, Finalize, InCall, EnsureSkip,
       BufFreeReclaim, BufFreePublish, BufFreeReturn, IoEndReturn, IoDone, SendFinal,
       Publish
  <2>2. commDone[c] => caddr'[c].signal = 11
    BY <1>1, <1>3, <2>1
  <2>3. QED
    BY <1>1, <2>1, <2>2 DEF Bounded
<1>6. QED
  BY <1>4, <1>5

\* What the steps of others do to it.
LEMMA BoundedFrame ==
  ASSUME NEW c \in Clients, Bounded(c),
         sent'[c] = sent[c], cpc'[c] = cpc[c], commDone'[c] = commDone[c],
         caddr'[c] = caddr[c]
  PROVE  Bounded(c)'
BY DEF Bounded

\* Steps of others keep the bound of a client.
LEMMA BoundedOther ==
  ASSUME TypeOK, HandoverInv, NEW c \in Clients, Bounded(c),
         [Next]_vars, ~(Application(c) \/ InCall(c))
  PROVE  Bounded(c)'
<1>1. CASE \E d \in Clients : Application(d) \/ InCall(d)
  <2>1. PICK d \in Clients : Application(d) \/ InCall(d)
    BY <1>1
  <2>2. d # c /\ commDone' = commDone
    BY <2>1 DEF Application, InCall
  <2>3. sent'[c] = sent[c] /\ cpc'[c] = cpc[c] /\ caddr'[c] = caddr[c]
    <3>1. CASE Application(d)
      BY <2>2, <3>1 DEF Application, Call, IoEnd, Finalize, Publish, TypeOK
    <3>2. CASE InCall(d)
      BY <2>2, <3>2 DEF InCall, EnsureSkip, Pack, BufFreeReclaim, BufFreePublish,
         BufFreeReturn, IoEndReturn, IoDone, SendFinal, Publish, TypeOK
    <3>3. QED
      BY <2>1, <3>1, <3>2
  <2>4. QED
    BY <2>2, <2>3, BoundedFrame
<1>2. CASE \E d \in Clients : AddrLands(d) \/ ReadLands(d)
  BY <1>2, BoundedFrame DEF AddrLands, ReadLands, clientVars
<1>3. CASE \E d \in Clients : AckLands(d)
  <2>1. PICK d \in Clients : AckLands(d)
    BY <1>3
  <2>2. UNCHANGED <<sent, cpc, commDone>> /\ AckDue(d)
        /\ caddr' = [caddr EXCEPT ![d] = saddr[d]]
    BY <2>1 DEF AckLands, AckDue
  <2>3. CASE c = d
    <3>1. caddr[c].signal = 1
      BY <2>2, <2>3 DEF HandoverInv, SignalAtServer
    <3>2. QED
      BY <2>2, <3>1 DEF Bounded
  <2>4. CASE c # d
    BY <2>2, <2>4, BoundedFrame DEF TypeOK
  <2>5. QED
    BY <2>3, <2>4
<1>4. CASE \E d \in Clients : PickClient(d)
  <2>1. PICK d \in Clients : PickClient(d)
    BY <1>4
  <2>2. UNCHANGED <<sent, cpc, caddr>>
    BY <2>1 DEF PickClient, clientVars
  <2>3. CASE commDone'[c] = commDone[c]
    BY <2>2, <2>3, BoundedFrame
  <2>4. CASE commDone'[c] # commDone[c]
    <3>1. HasNews(c) /\ saddr[c].signal # 1
      BY <2>1, <2>4 DEF PickClient, TypeOK
    <3>2. saddr[c].signal = 11
      <4>1. saddr[c].signal \in {0, 1, 11} /\ saddr[c].signal # 0
        BY <3>1 DEF TypeOK, Addrs, HasNews
      <4>2. QED
        BY <3>1, <4>1
    <3>3. caddr[c].signal = 11
      BY <3>2 DEF HandoverInv, SignalAtServer, AtServer
    <3>4. QED
      BY <2>2, <3>3 DEF Bounded
  <2>5. QED
    BY <2>3, <2>4
<1>5. CASE \/ WaitSome \/ (\E d \in Clients : Poll(d)) \/ Drained \/ ReadData \/ SkipRead
           \/ TestRead \/ CopyMsg \/ Copied \/ DecodeRound \/ Decoded \/ ServerExit
  <2>1. UNCHANGED <<clientVars, commDone>>
    BY <1>5 DEF WaitSome, Poll, Drained, ReadData, SkipRead, TestRead, CopyMsg, Copied,
       DecodeRound, Decoded, ServerExit
  <2>2. QED
    BY <2>1, BoundedFrame DEF clientVars
<1>6. CASE UNCHANGED vars
  BY <1>6, BoundedFrame DEF vars, clientVars
<1>7. QED
  BY <1>1, <1>2, <1>3, <1>4, <1>5, <1>6 DEF Next, Server, Terminating

\* Rounds, step by step.
LEMMA RoundsKept ==
  ASSUME TypeOK, Rounds, [Next]_vars
  PROVE  Rounds'
<1>1. CASE DecodeRound
  <2>1. /\ delivered' = [c \in Clients |-> Append(delivered[c], Head(list[c]).data)]
        /\ spc = "decode" /\ spc' = "decode"
    BY <1>1 DEF DecodeRound
  <2>2. ASSUME NEW c \in Clients
        PROVE  Len(delivered'[c]) = Len(delivered[c]) + 1
    <3>1. delivered'[c] = Append(delivered[c], Head(list[c]).data)
      BY <2>1
    <3>2. PICK S : delivered[c] \in Seq(S) /\ Head(list[c]).data \in S
      <4>1. delivered[c] \in Seq(Seq(Unit))
        BY DEF TypeOK
      <4>2. delivered[c] \in Seq(Seq(Unit) \cup {Head(list[c]).data})
        BY <4>1
      <4>3. QED
        BY <4>2
    <3>3. QED
      BY <3>1, <3>2, AppendProperties
  <2>3. \A c, d \in Clients : Len(delivered'[c]) = Len(delivered'[d])
    BY <2>2 DEF Rounds
  <2>4. QED
    BY <2>1, <2>3 DEF Rounds
<1>2. CASE ~DecodeRound
  <2>1. delivered' = delivered
    BY <1>2 DEF Next, vars, listVars, Application, InCall, AddrLands, ReadLands,
       AckLands, Server, WaitSome, Poll, Drained, PickClient, ReadData, SkipRead,
       TestRead, CopyMsg, Copied, Decoded, ServerExit, Terminating
  <2>2. spc' \notin {"copy", "decode"} => msgCltCnt' # ClientNum
    BY <1>2 DEF Rounds, Next, vars, listVars, Application, InCall, AddrLands, ReadLands,
       AckLands, Server, WaitSome, Poll, Drained, PickClient, ReadData, SkipRead,
       TestRead, CopyMsg, Copied, Decoded, ServerExit, Terminating
  <2>3. spc' = "exit" => \A c \in Clients : commDone'[c]
    <3>1. spc' = "exit" => commDone' = commDone /\ (spc = "exit" \/ AllDone)
      BY <1>2 DEF Next, vars, Application, InCall, AddrLands, ReadLands,
         AckLands, Server, WaitSome, Poll, Drained, PickClient, ReadData, SkipRead,
         TestRead, CopyMsg, Copied, Decoded, ServerExit, Terminating
    <3>2. QED
      BY <3>1 DEF Rounds, AllDone
  <2>4. QED
    BY <2>1, <2>2, <2>3 DEF Rounds
<1>3. QED
  BY <1>1, <1>2

\* The rounds and ends are right in every execution.
THEOREM EndCorrect == Spec => []EndInv
<1>1. Init => EndInv
  <2> SUFFICES ASSUME Init PROVE EndInv
    OBVIOUS
  <2>1. ClientNum \in Nat \ {0} /\ MaxMsgs \in Nat
    BY SizesAssumption
  <2>2. ASSUME NEW c \in Clients PROVE Bounded(c) /\ Len(delivered[c]) = 0
    <3>1. sent[c] = <<>> /\ delivered[c] = <<>> /\ cpc[c] = "app" /\ ~commDone[c]
      BY DEF Init
    <3>2. QED
      BY <2>1, <3>1 DEF Bounded
  <2>3. Rounds
    BY <2>1, <2>2 DEF Init, Rounds
  <2>4. QED
    BY <2>2, <2>3 DEF EndInv
<1>2. TypeOK /\ HandoverInv /\ EndInv /\ [Next]_vars => EndInv'
  <2> SUFFICES ASSUME TypeOK, HandoverInv, EndInv, [Next]_vars PROVE EndInv'
    OBVIOUS
  <2>1. Rounds'
    BY RoundsKept DEF EndInv
  <2>2. ASSUME NEW c \in Clients PROVE Bounded(c)'
    BY BoundedClient, BoundedOther DEF EndInv
  <2>3. QED
    BY <2>1, <2>2 DEF EndInv
<1>3. QED
  BY <1>1, <1>2, TypeCorrect, HandoverCorrect, PTL DEF Spec

\* When the server leaves, nothing is left.
LEMMA ExitEmpty ==
  ASSUME TypeOK, CountsAgree, HandoverInv, FlowInv, EndInv, spc = "exit"
  PROVE  \A c \in Clients : Len(delivered[c]) = Len(sent[c])
<1>1. ASSUME NEW c \in Clients
      PROVE  /\ Len(delivered[c]) + Len(list[c]) = Len(sent[c])
             /\ Len(sent[c]) = MaxMsgs
             /\ Len(delivered[c]) \in Nat /\ Len(list[c]) \in Nat
  <2>1. commDone[c] /\ Bounded(c)
    BY DEF EndInv, Rounds
  <2>2. caddr[c].signal = 11
    BY <2>1 DEF Bounded
  <2>3. cpc[c] \in {"final", "done"}
    BY <2>2 DEF HandoverInv, SignalAtClient
  <2>4. PICK P \in Nat : Published(c, P)
    BY DEF FlowInv, FlowOf, SomePublished
  <2>5. P = TakenNum(c) /\ P = Len(sent[c])
    BY <2>2, <2>3, <2>4 DEF Published
  <2>6. Len(sent[c]) = MaxMsgs
    BY <2>1, <2>3 DEF Bounded
  <2>7. Len(delivered[c]) \in Nat /\ Len(list[c]) \in Nat
    BY FlowTypes
  <2>8. QED
    BY <2>5, <2>6, <2>7, Zenon DEF TakenNum
<1>2. ASSUME NEW c \in Clients, Len(list[c]) # 0 PROVE FALSE
  <2>1. \A d \in Clients : Len(list[d]) = Len(list[c])
    <3>1. ASSUME NEW d \in Clients PROVE Len(list[d]) = Len(list[c])
      <4>1. Len(delivered[d]) = Len(delivered[c])
        BY DEF EndInv, Rounds
      <4>2. PICK n \in Nat, l \in Nat, k \in Nat, M \in Nat :
              /\ n = Len(delivered[c]) /\ l = Len(list[c]) /\ k = Len(list[d])
              /\ M = MaxMsgs
        BY <1>1, SizesAssumption
      <4>3. n + l = M
        BY <1>1, <4>2, Zenon
      <4>4. n + k = M
        BY <1>1, <4>1, <4>2, Zenon
      <4>5. l = k
        BY <4>3, <4>4
      <4>6. QED
        BY <4>2, <4>5, Zenon
    <3>2. QED
      BY <3>1
  <2>2. \A d \in Clients : list[d] # <<>>
    <3>1. ASSUME NEW d \in Clients, list[d] = <<>> PROVE FALSE
      <4>1. Len(list[d]) = 0
        BY <3>1
      <4>2. QED
        BY <1>2, <2>1, <4>1
    <3>2. QED
      BY <3>1
  <2>3. {d \in Clients : list[d] # <<>>} = Clients
    BY <2>2
  <2>4. msgCltCnt = ClientNum
    BY <2>3, ClientsFinite DEF CountsAgree
  <2>5. QED
    BY <2>4 DEF EndInv, Rounds
<1>3. ASSUME NEW c \in Clients PROVE Len(delivered[c]) = Len(sent[c])
  <2>1. PICK n \in Nat, l \in Nat, s \in Nat :
          n = Len(delivered[c]) /\ l = Len(list[c]) /\ s = Len(sent[c])
    BY FlowTypes
  <2>2. n + l = s
    BY <1>1, <2>1, Zenon
  <2>3. l = 0
    BY <1>2, <2>1
  <2>4. QED
    BY <2>1, <2>2, <2>3
<1>4. QED
  BY <1>3

\* The server leaves cfio_comm only when every message of every client has been
\* decoded: none is left in a list, a region or a client's buffer.
THEOREM NothingLeftBehind ==
  Spec /\ []NeverFillsUp /\ []CopyOnlyRead => []NothingLeft
<1>1. TypeOK /\ CountsAgree /\ HandoverInv /\ FlowInv /\ EndInv => NothingLeft
  BY ExitEmpty DEF NothingLeft
<1>2. QED
  BY <1>1, TypeCorrect, CountsCorrect, HandoverCorrect, FlowCorrect, EndCorrect, PTL

(***************************************************************************)
(* The path implements the channel of MsgChannel.                          *)
(***************************************************************************)
\* An image is a sequence of units.
LEMMA ImageType ==
  ASSUME NEW n \in Nat, NEW size \in Nat
  PROVE  Image(n, size) \in Seq(Unit) /\ Len(Image(n, size)) = size
<1>1. \A k \in 1..size : <<n, k>> \in Unit
  BY DEF Unit
<1>2. QED
  BY <1>1, IsASeq DEF Image

\* The images of the messages a client has sent.
LEMMA ImagesType ==
  ASSUME TypeOK, NEW c \in Clients
  PROVE  /\ AllSent[c] \in Seq(Seq(Unit)) /\ Len(AllSent[c]) = Len(sent[c])
         /\ \A n \in 1..Len(sent[c]) : AllSent[c][n] = Image(n, sent[c][n].size)
<1>1. Len(sent[c]) \in Nat
      /\ \A n \in 1..Len(sent[c]) : n \in Nat /\ sent[c][n].size \in Nat
  <2>1. /\ Len(sent[c]) \in Nat
        /\ \A n \in 1..Len(sent[c]) :
             sent[c][n].at \in 0..(SendBufSize - 1) /\ sent[c][n].size \in Nat
    BY Zenon, FlowTypes
  <2>2. QED
    BY <2>1
<1>2. \A n \in 1..Len(sent[c]) : Image(n, sent[c][n].size) \in Seq(Unit)
  BY <1>1, ImageType
<1>3. QED
  BY <1>1, <1>2, IsASeq DEF AllSent

\* Packing a message sends it.
LEMMA PackSends ==
  ASSUME TypeOK, NEW c \in Clients, Bounded(c), Pack(c)
  PROVE  \E p \in Payloads :
           AllSent'[c] = Append(AllSent[c], p)
<1>1. PICK n \in Nat : n = Len(sent[c])
  BY FlowTypes
<1>2. PICK x \in Seq([size : Nat, at : 0..(SendBufSize - 1)]) : x = sent[c]
  BY DEF TypeOK
<1>3. want[c] \in Msgs /\ want[c].size \in Nat
  BY MsgsAssumption DEF TypeOK
<1>4. PICK r \in [size : Nat, at : 0..(SendBufSize - 1)] :
        r = [size |-> want[c].size, at |-> cbuf[c].free]
  <2>1. cbuf[c].free \in 0..(SendBufSize - 1)
    BY DEF TypeOK, Buffers
  <2>2. QED
    BY <1>3, <2>1
<1>5. sent'[c] = Append(x, r)
  BY <1>2, <1>4 DEF Pack, TypeOK
<1>6. /\ Len(sent'[c]) = n + 1 /\ sent'[c][n + 1] = r
      /\ \A i \in 1..n : sent'[c][i] = sent[c][i]
  BY <1>1, <1>2, <1>5, AppendProperties
<1>7. r.size = want[c].size
  BY <1>4
<1>8. PICK p : p = Image(n + 1, want[c].size)
  OBVIOUS
<1>9. p \in Seq(Unit)
  <2>1. n + 1 \in Nat
    OBVIOUS
  <2>2. want[c].size \in Nat
    BY <1>3
  <2>3. Image(n + 1, want[c].size) \in Seq(Unit)
    BY <2>1, <2>2, ImageType, Zenon
  <2>4. QED
    BY <1>8, <2>3, Zenon
<1>10. /\ AllSent[c] \in Seq(Seq(Unit)) /\ Len(AllSent[c]) = n
       /\ \A i \in 1..n : AllSent[c][i] = Image(i, sent[c][i].size)
  BY <1>1, ImagesType
<1>11. /\ AllSent'[c] \in Seq(Seq(Unit)) /\ Len(AllSent'[c]) = n + 1
       /\ \A i \in 1..(n + 1) : AllSent'[c][i] = Image(i, sent'[c][i].size)
  <2>1. /\ AllSent'[c] \in Seq(Seq(Unit)) /\ Len(AllSent'[c]) = Len(sent'[c])
        /\ \A i \in 1..Len(sent'[c]) : AllSent'[c][i] = Image(i, sent'[c][i].size)
    <3>1. Len(sent'[c]) \in Nat
          /\ \A i \in 1..Len(sent'[c]) : i \in Nat /\ sent'[c][i].size \in Nat
      <4>1. \A i \in 1..(n + 1) : i \in 1..n \/ i = n + 1
        OBVIOUS
      <4>2. \A i \in 1..n : sent[c][i].size \in Nat
        BY <1>1, FlowTypes
      <4>3. \A i \in 1..n : i \in Nat /\ sent'[c][i].size \in Nat
        <5>1. \A i \in 1..n : i \in Nat
          OBVIOUS
        <5>2. \A i \in 1..n : sent'[c][i] = sent[c][i]
          BY <1>6, Zenon
        <5>3. QED
          BY <4>2, <5>1, <5>2, Zenon
      <4>4. n + 1 \in Nat /\ sent'[c][n + 1].size \in Nat
        <5>1. n + 1 \in Nat
          OBVIOUS
        <5>2. want[c].size \in Nat
          BY <1>3
        <5>3. sent'[c][n + 1].size = want[c].size
          BY <1>6, <1>7, Zenon
        <5>4. QED
          BY <5>1, <5>2, <5>3, Zenon
      <4>5. Len(sent'[c]) = n + 1
        BY <1>6
      <4>6. \A i \in 1..(n + 1) : i \in Nat /\ sent'[c][i].size \in Nat
        BY <4>1, <4>3, <4>4, Zenon
      <4>7. QED
        BY <4>5, <4>6
    <3>2. \A i \in 1..Len(sent'[c]) : Image(i, sent'[c][i].size) \in Seq(Unit)
      BY <3>1, ImageType
    <3>3. AllSent'[c] = [i \in 1..Len(sent'[c]) |-> Image(i, sent'[c][i].size)]
      BY DEF AllSent
    <3>4. QED
      BY <3>1, <3>2, <3>3, IsASeq
  <2>2. QED
    BY <1>6, <2>1
<1>12. /\ Append(AllSent[c], p) \in Seq(Seq(Unit)) /\ Len(Append(AllSent[c], p)) = n + 1
       /\ Append(AllSent[c], p)[n + 1] = p
       /\ \A i \in 1..n : Append(AllSent[c], p)[i] = AllSent[c][i]
  <2>1. PICK y \in Seq(Seq(Unit)) : y = AllSent[c]
    BY <1>10
  <2>2. Len(y) = n
    BY <1>10, <2>1
  <2>3. /\ Append(y, p) \in Seq(Seq(Unit)) /\ Len(Append(y, p)) = n + 1
        /\ Append(y, p)[n + 1] = p
        /\ \A i \in 1..n : Append(y, p)[i] = y[i]
    <3>1. PICK T : T = Seq(Unit)
      OBVIOUS
    <3>2. y \in Seq(T) /\ p \in T
      BY <1>9, <3>1
    <3>3. Append(y, p) \in Seq(T)
      BY <3>2, AppendProperties
    <3>4. QED
      BY <2>2, <3>1, <3>2, <3>3, AppendProperties
  <2>4. QED
    BY <2>1, <2>3, Zenon
<1>13. \A i \in 1..(n + 1) : AllSent'[c][i] = Append(AllSent[c], p)[i]
  <2>1. \A i \in 1..(n + 1) : i \in 1..n \/ i = n + 1
    OBVIOUS
  <2>2. \A i \in 1..n : AllSent'[c][i] = Append(AllSent[c], p)[i]
    <3>1. \A i \in 1..n : i \in 1..(n + 1)
      OBVIOUS
    <3>2. QED
      <4>1. TAKE i \in 1..n
      <4>2. AllSent'[c][i] = Image(i, sent'[c][i].size)
        BY <1>11, <3>1, Zenon
      <4>3. sent'[c][i] = sent[c][i]
        BY <1>6, Zenon
      <4>4. /\ AllSent[c][i] = Image(i, sent[c][i].size)
            /\ Append(AllSent[c], p)[i] = AllSent[c][i]
        BY <1>10, <1>12, Zenon
      <4>5. QED
        BY <4>2, <4>3, <4>4, Zenon
  <2>3. AllSent'[c][n + 1] = p
    <3>1. n + 1 \in 1..(n + 1)
      OBVIOUS
    <3>2. QED
      BY <1>6, <1>7, <1>8, <1>11, <3>1
  <2>4. QED
    BY <1>12, <2>1, <2>2, <2>3
<1>14. AllSent'[c] = Append(AllSent[c], p)
  BY <1>11, <1>12, <1>13, SeqEqual
<1>15. n + 1 \in 1..MaxMsgs
  <2>1. n < MaxMsgs /\ MaxMsgs \in Nat
    BY <1>1, SizesAssumption DEF Bounded, Pack
  <2>2. QED
    BY <2>1
<1>16. p \in Payloads
  BY <1>3, <1>8, <1>15 DEF Payloads
<1>17. QED
  BY <1>14, <1>16

\* A round of decoding is a round of the channel.
LEMMA DecodeDelivers ==
  ASSUME TypeOK, CountsAgree, FlowInv, DecodeRound, NEW c \in Clients
  PROVE  /\ Len(delivered[c]) < Len(AllSent[c])
         /\ delivered'[c] = Append(delivered[c], AllSent[c][Len(delivered[c]) + 1])
<1>1. PICK n \in Nat, l \in Nat, s \in Nat :
        n = Len(delivered[c]) /\ l = Len(list[c]) /\ s = Len(sent[c])
  BY FlowTypes
<1>2. list[c] # <<>> /\ list[c] \in Seq(Listed)
  BY RoundHasAll, FlowTypes DEF DecodeRound
<1>3. l >= 1 /\ Head(list[c]) = list[c][1]
  BY <1>1, <1>2, EmptySeq, HeadTailProperties
<1>4. n + l <= s
  BY <1>1, Zenon DEF FlowInv, FlowOf, Layout, Placed, TakenNum
<1>5. n + 1 \in 1..s /\ 1 \in 1..l
  BY <1>3, <1>4
<1>6. list[c][1].data = Image(n + 1, sent[c][n + 1].size)
  BY <1>1, <1>5 DEF FlowInv, FlowOf, TakenRight
<1>7. Len(AllSent[c]) = s /\ AllSent[c][n + 1] = Image(n + 1, sent[c][n + 1].size)
  BY <1>1, <1>5, ImagesType
<1>8. delivered'[c] = Append(delivered[c], list[c][1].data)
  BY <1>3 DEF DecodeRound
<1>9. n < s
  BY <1>5
<1>10. QED
  BY <1>1, <1>6, <1>7, <1>8, <1>9

\* Only a round of decoding delivers.
LEMMA DeliveredKept ==
  ASSUME [Next]_vars, ~DecodeRound
  PROVE  delivered' = delivered
<1>1. QED
  BY DEF Next, vars, listVars, Application, InCall, AddrLands, ReadLands,
     AckLands, Server, WaitSome, Poll, Drained, PickClient, ReadData, SkipRead,
     TestRead, CopyMsg, Copied, Decoded, ServerExit, Terminating

\* Only packing sends, and only a round of decoding delivers.
LEMMA ChannelIdle ==
  ASSUME [Next]_vars, ~DecodeRound, \A c \in Clients : ~Pack(c)
  PROVE  UNCHANGED <<sent, delivered>>
<1>1. delivered' = delivered
  BY DeliveredKept
<1>2. sent' = sent
  BY DEF Next, vars, clientVars, Application, Call, IoEnd, Finalize, InCall,
     EnsureSkip, BufFreeReclaim, BufFreePublish, BufFreeReturn, IoEndReturn, IoDone,
     SendFinal, AddrLands, ReadLands, AckLands, Server, WaitSome, Poll, Drained,
     PickClient, ReadData, SkipRead, TestRead, CopyMsg, Copied, DecodeRound, Decoded,
     ServerExit, Terminating
<1>3. QED
  BY <1>1, <1>2

\* Every step of the path is a step of the channel or leaves it as it is.
LEMMA ChannelStep ==
  ASSUME TypeOK, CountsAgree, FlowInv, EndInv, [Next]_vars
  PROVE  [Channel!Next]_<<AllSent, delivered>>
<1>1. CASE \E c \in Clients : Pack(c)
  <2>1. PICK c \in Clients : Pack(c)
    BY <1>1
  <2>2. Bounded(c)
    BY DEF EndInv
  <2>3. PICK p \in Payloads :
          AllSent'[c] = Append(AllSent[c], p)
    BY <2>1, <2>2, PackSends
  <2>4. ASSUME NEW d \in Clients, d # c PROVE AllSent'[d] = AllSent[d]
    <3>1. sent'[d] = sent[d]
      BY <2>1, <2>4 DEF Pack, TypeOK
    <3>2. QED
      BY <3>1 DEF AllSent
  <2>5. delivered' = delivered
    <3>1. cpc[c] = "ensure" /\ cpc'[c] # "ensure"
      BY <2>1 DEF Pack, TypeOK
    <3>2. ~DecodeRound
      BY <3>1 DEF DecodeRound, clientVars
    <3>3. QED
      BY <3>2, DeliveredKept
  <2>6. Channel!Send(c)
    <3>1. AllSent = [d \in Clients |-> AllSent[d]]
          /\ AllSent' = [d \in Clients |-> AllSent'[d]]
      BY DEF AllSent
    <3>2. AllSent' = [AllSent EXCEPT ![c] = Append(AllSent[c], p)]
      BY <2>3, <2>4, <3>1
    <3>3. QED
      BY <2>5, <3>2 DEF Channel!Send
  <2>7. QED
    BY <2>6 DEF Channel!Next
<1>2. CASE DecodeRound
  <2>1. \A c \in Clients :
          /\ Len(delivered[c]) < Len(AllSent[c])
          /\ delivered'[c] = Append(delivered[c], AllSent[c][Len(delivered[c]) + 1])
    BY <1>2, DecodeDelivers
  <2>2. delivered' = [c \in Clients |->
                        Append(delivered[c], AllSent[c][Len(delivered[c]) + 1])]
    <3>1. delivered' = [c \in Clients |-> delivered'[c]]
      BY <1>2 DEF DecodeRound
    <3>2. QED
      BY <2>1, <3>1
  <2>3. AllSent' = AllSent
    BY <1>2 DEF DecodeRound, clientVars, AllSent
  <2>4. Channel!DeliverRound
    BY <2>1, <2>2, <2>3 DEF Channel!DeliverRound, Channel!Next1
  <2>5. QED
    BY <2>4 DEF Channel!Next
<1>3. CASE ~DecodeRound /\ \A c \in Clients : ~Pack(c)
  <2>1. UNCHANGED <<sent, delivered>>
    BY <1>3, ChannelIdle
  <2>2. UNCHANGED <<AllSent, delivered>>
    BY <2>1 DEF AllSent
  <2>3. QED
    BY <2>2
<1>4. QED
  BY <1>1, <1>2, <1>3

\* Buffers, publications, reads, regions, lists and rounds together are a
\* channel from every client: the n-th message of each is decoded in the n-th
\* round, whole, and nothing else is ever decoded.
THEOREM PathIsChannel ==
  Spec /\ []NeverFillsUp /\ []CopyOnlyRead => ChannelSpec
<1>1. Init => Channel!Init
  <2> SUFFICES ASSUME Init PROVE Channel!Init
    OBVIOUS
  <2>1. ASSUME NEW c \in Clients
        PROVE  [n \in 1..Len(sent[c]) |-> Image(n, sent[c][n].size)] = <<>>
    <3>1. Len(sent[c]) = 0
      BY DEF Init
    <3>2. \A n \in 1..0 : Image(n, sent[c][n].size) \in Seq(Unit)
      OBVIOUS
    <3>3. PICK q : q = [n \in 1..0 |-> Image(n, sent[c][n].size)]
      OBVIOUS
    <3>4. q \in Seq(Seq(Unit)) /\ Len(q) = 0
      BY <3>2, <3>3, IsASeq
    <3>5. QED
      BY <3>1, <3>3, <3>4, EmptySeq
  <2>2. delivered = [c \in Clients |-> <<>>]
    BY DEF Init
  <2>3. QED
    BY <2>1, <2>2 DEF Channel!Init, AllSent
<1>2. TypeOK /\ CountsAgree /\ FlowInv /\ EndInv /\ [Next]_vars
        => [Channel!Next]_<<AllSent, delivered>>
  BY ChannelStep
<1>3. QED
  BY <1>1, <1>2, TypeCorrect, CountsCorrect, FlowCorrect, EndCorrect, PTL
     DEF Spec, ChannelSpec, Channel!Spec

(***************************************************************************)
(* What request_stack_size counts, and when the server may copy.           *)
(***************************************************************************)
\* Every request the server posted and has not taken the completion of.
Out == [c \in Clients |-> Outstanding(c)]

\* request_stack_size counts them, for all connections together.
RssCounts ==
  IsFiniteSet(Slots(Clients, Out)) /\ rss = Cardinality(Slots(Clients, Out))

OutTyped == Out \in [Clients -> Nat]

\* A count of requests is a number.
LEMMA OutType ==
  ASSUME TypeOK
  PROVE  Out \in [Clients -> Nat]
<1>1. ASSUME NEW c \in Clients PROVE Outstanding(c) \in Nat
  <2>1. reads[c] \in Seq(ReadOps) /\ cq[c] \in Nat
    BY DEF TypeOK
  <2>2. Len(reads[c]) \in Nat
    BY <2>1
  <2>3. QED
    BY <2>1, <2>2 DEF Outstanding
<1>2. QED
  BY <1>1 DEF Out

\* The NIC moves a request on: it stays outstanding.
LEMMA NicOut ==
  ASSUME TypeOK, NEW c \in Clients, ReadLands(c) \/ AckLands(c)
  PROVE  Out' = Out /\ rss' = rss
<1>1. ASSUME NEW d \in Clients PROVE Outstanding(d)' = Outstanding(d)
  <2>1. /\ reads \in [Clients -> Seq(ReadOps)] /\ cq \in [Clients -> Nat]
        /\ ackPosted \in [Clients -> BOOLEAN] /\ reads[c] \in Seq(ReadOps)
    BY DEF TypeOK
  <2>2. CASE ReadLands(c)
    <3>1. /\ reads' = [reads EXCEPT ![c] = Tail(reads[c])]
          /\ cq' = [cq EXCEPT ![c] = cq[c] + 1] /\ ackPosted' = ackPosted
          /\ reads[c] # <<>>
      BY <2>2 DEF ReadLands
    <3>2. Len(Tail(reads[c])) = Len(reads[c]) - 1 /\ Len(reads[c]) \in Nat
      BY <2>1, <3>1, HeadTailProperties
    <3>3. CASE d = c
      <4>1. /\ reads'[c] = Tail(reads[c]) /\ cq'[c] = cq[c] + 1
            /\ ackPosted'[c] = ackPosted[c] /\ cq[c] \in Nat
        BY <2>1, <3>1
      <4>2. QED
        BY <3>2, <3>3, <4>1 DEF Outstanding
    <3>4. CASE d # c
      BY <2>1, <3>1, <3>4 DEF Outstanding
    <3>5. QED
      BY <3>3, <3>4
  <2>3. CASE AckLands(c)
    <3>1. /\ ackPosted' = [ackPosted EXCEPT ![c] = FALSE]
          /\ cq' = [cq EXCEPT ![c] = cq[c] + 1] /\ reads' = reads
          /\ ackPosted[c]
      BY <2>3 DEF AckLands
    <3>2. CASE d = c
      <4>1. /\ reads'[c] = reads[c] /\ cq'[c] = cq[c] + 1
            /\ ~ackPosted'[c] /\ cq[c] \in Nat /\ Len(reads[c]) \in Nat
        BY <2>1, <3>1
      <4>2. QED
        BY <3>1, <3>2, <4>1 DEF Outstanding
    <3>3. CASE d # c
      BY <2>1, <3>1, <3>3 DEF Outstanding
    <3>4. QED
      BY <3>2, <3>3
  <2>4. QED
    BY <2>2, <2>3
<1>2. rss' = rss
  BY DEF ReadLands, AckLands
<1>3. QED
  BY <1>1, <1>2 DEF Out

\* Taking a completion ends one request.
LEMMA PollOut ==
  ASSUME TypeOK, RssCounts, NEW c \in Clients, Poll(c), Out' \in [Clients -> Nat]
  PROVE  RssCounts'
<1>1. /\ cq \in [Clients -> Nat] /\ reads[c] \in Seq(ReadOps)
      /\ Out \in [Clients -> Nat]
  BY OutType DEF TypeOK
<1>2. /\ cq' = [cq EXCEPT ![c] = cq[c] - 1] /\ reads' = reads
      /\ ackPosted' = ackPosted /\ rss' = rss - 1
  BY DEF Poll
<1>3. Out[c] = Out'[c] + 1
  <2>1. /\ reads'[c] = reads[c] /\ cq'[c] = cq[c] - 1
        /\ ackPosted'[c] = ackPosted[c] /\ cq[c] \in Nat /\ Len(reads[c]) \in Nat
    BY <1>1, <1>2
  <2>2. Outstanding(c) = Outstanding(c)' + 1
    BY <2>1 DEF Outstanding
  <2>3. QED
    BY <2>2 DEF Out
<1>4. \A d \in Clients \ {c} : Out'[d] = Out[d]
  BY <1>1, <1>2 DEF Out, Outstanding
<1>5. /\ IsFiniteSet(Slots(Clients, Out'))
      /\ Cardinality(Slots(Clients, Out')) = Cardinality(Slots(Clients, Out)) - 1
  <2>1. PICK f \in [Clients -> Nat], g \in [Clients -> Nat] : f = Out /\ g = Out'
    BY <1>1
  <2>2. /\ f[c] = g[c] + 1 /\ \A d \in Clients \ {c} : g[d] = f[d]
        /\ IsFiniteSet(Slots(Clients, f))
    BY <1>3, <1>4, <2>1 DEF RssCounts
  <2>3. /\ IsFiniteSet(Slots(Clients, g))
        /\ Cardinality(Slots(Clients, g)) = Cardinality(Slots(Clients, f)) - 1
    BY <2>2, SlotsRemove
  <2>4. QED
    BY <2>1, <2>3
<1>6. QED
  BY <1>2, <1>5 DEF RssCounts

\* The requests of a _read_data are added to those of its client.
LEMMA ReadDataOps ==
  ASSUME TypeOK, ReadData
  PROVE  \E ops \in Seq(ReadOps) :
           /\ reads' = [reads EXCEPT ![clt] = reads[clt] \o ops]
           /\ rest' = [rest EXCEPT ![clt] = rest[clt] + Len(ops)]
           /\ rss' = rss + Len(ops) /\ cq' = cq /\ ackPosted' = ackPosted
<1>1. PICK from \in Int, len \in Int, to \in Int :
        /\ reads' = [reads EXCEPT ![clt] = reads[clt] \o Chunks(from, len, to)]
        /\ rest' = [rest EXCEPT ![clt] = rest[clt] + Len(Chunks(from, len, to))]
        /\ rss' = rss + Len(Chunks(from, len, to))
  <2> DEFINE a     == saddr[clt]
             last  == a.used <= a.free \/ readAddr[clt] <= a.free
             limit == IF last THEN a.free ELSE a.end
             len   == Least(limit - readAddr[clt], RegionSize - Len(region[clt]))
  <2>1. /\ reads' = [reads EXCEPT ![clt] =
                        reads[clt] \o Chunks(readAddr[clt], len, Len(region[clt]))]
        /\ rest' = [rest EXCEPT ![clt] =
                       rest[clt] + Len(Chunks(readAddr[clt], len, Len(region[clt])))]
        /\ rss' = rss + Len(Chunks(readAddr[clt], len, Len(region[clt])))
    BY Zenon DEF ReadData
  <2>2. readAddr[clt] \in Int /\ Len(region[clt]) \in Int /\ len \in Int
    <3>1. /\ clt \in Clients /\ saddr[clt] \in Addrs /\ readAddr[clt] \in Int
          /\ region[clt] \in Seq(Unit)
      BY DEF TypeOK
    <3>2. /\ a.free \in Int /\ a.end \in Int /\ Len(region[clt]) \in Int
          /\ RegionSize \in Int
      BY <3>1, SizesAssumption DEF Addrs
    <3>3. QED
      BY <3>1, <3>2 DEF Least
  <2> HIDE DEF len
  <2>3. QED
    BY <2>1, <2>2
<1>2. Chunks(from, len, to) \in Seq(ReadOps)
  BY ChunksType
<1>3. cq' = cq /\ ackPosted' = ackPosted
  BY DEF ReadData
<1>4. QED
  BY <1>1, <1>2, <1>3

\* A _read_data posts as many requests as it counts.
LEMMA ReadDataOut ==
  ASSUME TypeOK, RssCounts, ReadData, Out' \in [Clients -> Nat]
  PROVE  RssCounts'
<1>0. PICK c \in Clients : c = clt
  BY DEF TypeOK
<1>1. /\ reads \in [Clients -> Seq(ReadOps)]
      /\ cq \in [Clients -> Nat] /\ Out \in [Clients -> Nat]
  BY OutType DEF TypeOK
<1>2. PICK ops \in Seq(ReadOps) :
        /\ reads' = [reads EXCEPT ![c] = reads[c] \o ops]
        /\ rss' = rss + Len(ops) /\ cq' = cq /\ ackPosted' = ackPosted
  BY <1>0, ReadDataOps
<1>3. Len(ops) \in Nat
  BY <1>2
<1>4. Out'[c] = Out[c] + Len(ops)
  <2>1. PICK x \in Seq(ReadOps), n \in Nat, k \in Nat, z \in Nat :
          x = reads[c] /\ n = Len(x) /\ k = Len(ops) /\ z = cq[c]
    BY <1>1, <1>3
  <2>2. /\ reads'[c] = x \o ops /\ cq'[c] = z
        /\ ackPosted'[c] = ackPosted[c]
    BY <1>1, <1>2, <2>1
  <2>3. Len(x \o ops) = n + k
    BY <1>2, <2>1, ConcatProperties
  <2>4. Outstanding(c)' = n + k + z + (IF ackPosted[c] THEN 1 ELSE 0)
    BY <2>2, <2>3, Zenon DEF Outstanding
  <2>5. Outstanding(c) = n + z + (IF ackPosted[c] THEN 1 ELSE 0)
    BY <2>1 DEF Outstanding
  <2>6. n + k + z + (IF ackPosted[c] THEN 1 ELSE 0)
          = n + z + (IF ackPosted[c] THEN 1 ELSE 0) + k
    OBVIOUS
  <2>7. Out'[c] = Outstanding(c)' /\ Out[c] = Outstanding(c)
    BY <1>1 DEF Out
  <2>8. QED
    BY <2>1, <2>4, <2>5, <2>6, <2>7, Zenon
<1>5. \A d \in Clients \ {c} : Out'[d] = Out[d]
  BY <1>1, <1>2 DEF Out, Outstanding
<1>6. /\ IsFiniteSet(Slots(Clients, Out'))
      /\ Cardinality(Slots(Clients, Out')) = Cardinality(Slots(Clients, Out)) + Len(ops)
  BY <1>1, <1>3, <1>4, <1>5, SlotsAdd DEF RssCounts
<1>7. QED
  BY <1>2, <1>6 DEF RssCounts

\* The acknowledgement is one request, and never the second of its client.
LEMMA CopiedOut ==
  ASSUME TypeOK, HandoverInv, RssCounts, Copied, Out' \in [Clients -> Nat]
  PROVE  RssCounts'
<1>0. PICK c \in Clients : c = clt
  BY DEF TypeOK
<1>1. /\ reads[c] \in Seq(ReadOps)
      /\ cq \in [Clients -> Nat] /\ ackPosted \in [Clients -> BOOLEAN]
      /\ Out \in [Clients -> Nat]
  BY OutType DEF TypeOK
<1>2. reads' = reads /\ cq' = cq
  BY DEF Copied
<1>3. CASE UNCHANGED <<ackPosted, rss>>
  <2>1. Out' = Out
    BY <1>2, <1>3 DEF Out, Outstanding
  <2>2. QED
    BY <1>3, <2>1 DEF RssCounts
<1>4. CASE ackPosted' = [ackPosted EXCEPT ![c] = TRUE] /\ rss' = rss + 1
  <2>1. ~ackPosted[c]
    BY <1>0, <1>1 DEF Copied, HandoverInv, Handover, OneWriter, AtServer, AckDue
  <2>2. Out'[c] = Out[c] + 1
    <3>1. /\ reads'[c] = reads[c] /\ cq'[c] = cq[c] /\ ackPosted'[c]
          /\ cq[c] \in Nat /\ Len(reads[c]) \in Nat
      BY <1>1, <1>2, <1>4
    <3>2. PICK n \in Nat, z \in Nat : n = Len(reads[c]) /\ z = cq[c]
      BY <3>1
    <3>3. Outstanding(c)' = n + z + 1 /\ Outstanding(c) = n + z + 0
      BY <2>1, <3>1, <3>2, Zenon DEF Outstanding
    <3>4. Out'[c] = Outstanding(c)' /\ Out[c] = Outstanding(c)
      BY <1>1 DEF Out
    <3>5. n + z + 1 = n + z + 0 + 1
      OBVIOUS
    <3>6. QED
      BY <3>3, <3>4, <3>5, Zenon
  <2>3. \A d \in Clients \ {c} : Out'[d] = Out[d]
    BY <1>1, <1>2, <1>4 DEF Out, Outstanding
  <2>4. /\ IsFiniteSet(Slots(Clients, Out'))
        /\ Cardinality(Slots(Clients, Out')) = Cardinality(Slots(Clients, Out)) + 1
    <3>1. 1 \in Nat
      OBVIOUS
    <3>2. QED
      BY <1>1, <2>2, <2>3, <3>1, SlotsAdd DEF RssCounts
  <2>5. QED
    BY <1>4, <2>4 DEF RssCounts
<1>5. QED
  BY <1>0, <1>3, <1>4 DEF Copied

\* request_stack_size is exact in every execution.
THEOREM RssCorrect == Spec => []RssCounts
<1>1. Init => RssCounts
  <2> SUFFICES ASSUME Init PROVE RssCounts
    OBVIOUS
  <2>1. \A c \in Clients : Outstanding(c) = 0
    BY DEF Init, Outstanding
  <2>2. Slots(Clients, Out) = {}
    BY <2>1 DEF Slots, Out
  <2>3. QED
    BY <2>2, FS_EmptySet DEF RssCounts, Init
<1>2. TypeOK /\ OutTyped' /\ HandoverInv /\ RssCounts /\ [Next]_vars => RssCounts'
  <2> SUFFICES ASSUME TypeOK, OutTyped', HandoverInv, RssCounts, [Next]_vars
               PROVE  RssCounts'
    OBVIOUS
  <2>1. Out' \in [Clients -> Nat]
    BY DEF OutTyped
  <2>2. CASE \E c \in Clients : ReadLands(c) \/ AckLands(c)
    BY <2>2, NicOut DEF RssCounts
  <2>3. CASE \E c \in Clients : Poll(c)
    BY <2>1, <2>3, PollOut
  <2>4. CASE ReadData
    BY <2>1, <2>4, ReadDataOut
  <2>5. CASE Copied
    BY <2>1, <2>5, CopiedOut
  <2>6. CASE UNCHANGED <<reads, cq, ackPosted, rss>>
    BY <2>6 DEF RssCounts, Out, Outstanding
  <2>7. QED
    BY <2>2, <2>3, <2>4, <2>5, <2>6 DEF Next, vars, reqVars, Application, InCall,
       AddrLands, Server, WaitSome, Drained, PickClient, SkipRead, TestRead, CopyMsg,
       DecodeRound, Decoded, ServerExit, Terminating
<1>3. TypeOK => OutTyped
  BY OutType DEF OutTyped
<1>4. QED
  BY <1>1, <1>2, <1>3, TypeCorrect, HandoverCorrect, PTL DEF Spec

\* wait_some never goes on with a part of the requests: it stops at half of
\* MaxReqs, which is none, or there are never too many.
DrainsAll == MaxReqs <= 1 \/ rss <= MaxReqs

\* Whether the requests the server still waits for, by connection, stand for
\* the reads that are not carried out.
RestKnown ==
  /\ spc = "drain_some" => MaxReqs <= 1
  /\ spc \notin {"drain_some", "drain_all"} =>
       \A c \in Clients : rest[c] = 0 => reads[c] = <<>>
  /\ spc = "copy" => rest[clt] = 0

\* Once the queue is drained every read has been carried out.
LEMMA DrainedAll ==
  ASSUME TypeOK, RssCounts, rss = 0
  PROVE  \A c \in Clients : reads[c] = <<>>
<1>1. \A c \in Clients : Out[c] = 0
  BY OutType, SlotsNone DEF RssCounts
<1>2. ASSUME NEW c \in Clients PROVE reads[c] = <<>>
  <2>1. reads[c] \in Seq(ReadOps) /\ cq[c] \in Nat
    BY DEF TypeOK
  <2>2. Len(reads[c]) \in Nat /\ Outstanding(c) = 0
    BY <1>1, <2>1 DEF Out
  <2>3. Len(reads[c]) = 0
    BY <2>1, <2>2 DEF Outstanding
  <2>4. QED
    BY <2>1, <2>3, EmptySeq
<1>3. QED
  BY <1>2

\* A _read_data whose requests are none reads nothing.
LEMMA ReadDataRest ==
  ASSUME TypeOK, RestKnown, ReadData
  PROVE  RestKnown'
<1>0. PICK c \in Clients : c = clt
  BY DEF TypeOK
<1>1. PICK ops \in Seq(ReadOps) :
        /\ reads' = [reads EXCEPT ![c] = reads[c] \o ops]
        /\ rest' = [rest EXCEPT ![c] = rest[c] + Len(ops)]
  BY <1>0, ReadDataOps
<1>2. spc = "read" /\ spc' = "test"
  BY DEF ReadData
<1>3. /\ reads \in [Clients -> Seq(ReadOps)] /\ rest \in [Clients -> Nat]
      /\ reads[c] \in Seq(ReadOps) /\ rest[c] \in Nat /\ Len(ops) \in Nat
  BY SMTT(30), <1>1 DEF TypeOK
<1>4. ASSUME NEW d \in Clients, rest'[d] = 0 PROVE reads'[d] = <<>>
  <2>1. CASE d = c
    <3>1. rest'[c] = rest[c] + Len(ops) /\ reads'[c] = reads[c] \o ops
      BY <1>1, <1>3
    <3>2. rest[c] = 0 /\ Len(ops) = 0
      BY <1>3, <1>4, <2>1, <3>1
    <3>3. ops = <<>> /\ reads[c] = <<>>
      BY <1>1, <1>2, <3>2, EmptySeq DEF RestKnown
    <3>4. QED
      BY <2>1, <3>1, <3>3
  <2>2. CASE d # c
    <3>1. rest'[d] = rest[d] /\ reads'[d] = reads[d]
      BY <1>1, <1>3, <2>2
    <3>2. QED
      BY <1>2, <1>4, <3>1 DEF RestKnown
  <2>3. QED
    BY <2>1, <2>2
<1>5. QED
  BY <1>2, <1>4 DEF RestKnown

\* Every other step.
LEMMA RestKept ==
  ASSUME TypeOK, RssCounts, DrainsAll, RestKnown, [Next]_vars, ~ReadData
  PROVE  RestKnown'
<1>1. CASE \E c \in Clients : ReadLands(c)
  <2>1. PICK c \in Clients : ReadLands(c)
    BY <1>1
  <2>2. /\ reads' = [reads EXCEPT ![c] = Tail(reads[c])] /\ reads[c] # <<>>
        /\ rest' = rest /\ spc' = spc /\ clt' = clt
    BY <2>1 DEF ReadLands
  <2>3. reads \in [Clients -> Seq(ReadOps)]
    BY DEF TypeOK
  <2>4. ASSUME NEW d \in Clients, reads[d] = <<>> PROVE reads'[d] = <<>>
    BY <2>2, <2>3, <2>4
  <2>5. QED
    BY <2>2, <2>4 DEF RestKnown
<1>2. CASE Drained
  <2>1. rss \in Nat
    BY FS_CardinalityType DEF RssCounts
  <2>2. rss = 0
    BY <1>2, <2>1, SizesAssumption DEF Drained, RestKnown
  <2>3. /\ spc' = "pick" /\ UNCHANGED <<reads, rest>>
    BY <1>2 DEF Drained, reqVars
  <2>4. QED
    BY <2>2, <2>3, DrainedAll DEF RestKnown
<1>3. CASE \E c \in Clients : Poll(c)
  BY <1>3 DEF Poll, RestKnown
<1>4. CASE WaitSome
  <2>1. rss \in Nat
    BY FS_CardinalityType DEF RssCounts
  <2>2. rss > MaxReqs => MaxReqs <= 1
    BY <2>1, SizesAssumption DEF DrainsAll
  <2>3. QED
    BY <1>4, <2>2 DEF WaitSome, RestKnown, reqVars
<1>5. CASE TestRead
  BY <1>5 DEF TestRead, RestKnown, reqVars, ServerTest
<1>6. CASE /\ UNCHANGED <<reads, rest>>
           /\ \/ UNCHANGED <<spc, clt>>
              \/ /\ spc \notin {"drain_some", "drain_all"}
                 /\ spc' \notin {"drain_some", "drain_all", "copy"}
  BY <1>6 DEF RestKnown
<1>7. QED
  BY <1>1, <1>2, <1>3, <1>4, <1>5, <1>6 DEF Next, vars, reqVars, Application, InCall,
     AddrLands, AckLands, Server, PickClient, SkipRead, CopyMsg,
     Copied, DecodeRound, Decoded, ServerExit, Terminating

\* The region is copied only when the reads into it are carried out, as long
\* as wait_some never goes on with a part of the requests.
THEOREM CopyOnlyReadSafe == Spec /\ []DrainsAll => []CopyOnlyRead
<1>1. Init => RestKnown
  BY DEF Init, RestKnown
<1>2. TypeOK /\ RssCounts /\ DrainsAll /\ RestKnown /\ [Next]_vars => RestKnown'
  BY ReadDataRest, RestKept
<1>3. TypeOK /\ RestKnown => CopyOnlyRead
  BY DEF RestKnown, CopyOnlyRead, TypeOK
<1>4. QED
  BY <1>1, <1>2, <1>3, TypeCorrect, RssCorrect, PTL DEF Spec

(* Both conditions together, the second as what wait_some must not do: while *)
(* no message has ended at the end of its buffer and the server has gone on *)
(* with no part of its requests, everything said of the path holds.         *)
THEOREM PathCorrect ==
  Spec /\ []NeverFillsUp /\ []DrainsAll
    => /\ []StreamInOrder /\ []UntakenIntact /\ []EndMarksUsed
       /\ []NothingLeft /\ ChannelSpec
BY CopyOnlyReadSafe, StreamSafe, UntakenSafe, EndMarkSafe, NothingLeftBehind,
   PathIsChannel, PTL
==============================================================================
