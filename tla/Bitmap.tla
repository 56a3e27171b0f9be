---------------------------------- MODULE Bitmap ----------------------------------
(***************************************************************************)
(* The bitmap of an IO request in which a server notes the clients that     *)
(* have made the call (io.c).  A byte is the set of its bits.  The last byte *)
(* has the clients that do not fill a byte, which may be none.              *)
(***************************************************************************)
EXTENDS Integers

CONSTANT ByteBits   \* 8 in the code

ASSUME BitmapAssumption == ByteBits \in Nat \ {0}

AllBits == 0..(ByteBits - 1)

(* As _recv_client_io allocates and clears it for n clients. *)
NewBitmap(n) == [i \in 0..(n \div ByteBits) |-> {}]

(* _add_bitmap *)
AddBitmap(bitmap, index) ==
  [bitmap EXCEPT ![index \div ByteBits] = @ \cup {index - (index \div ByteBits) * ByteBits}]

\* Mutated: the bytes before the last are not looked at.
BitmapFull_last(bitmap, n) ==
  LET head == n \div ByteBits
      tail == n - head * ByteBits
  IN  bitmap[head] = 0..(tail - 1)

(* _bitmap_full *)
BitmapFull(bitmap, n) ==
  LET head == n \div ByteBits
      tail == n - head * ByteBits
  IN  /\ \A i \in 0..(head - 1) : bitmap[i] = AllBits
      /\ bitmap[head] = 0..(tail - 1)

(* The indices of clients noted in a bitmap. *)
Noted(bitmap, n) == {index \in 0..(n - 1) : index % ByteBits \in bitmap[index \div ByteBits]}
================================================================================
