------------------------------- MODULE CfioBuf -------------------------------
(***************************************************************************)
(* The ring buffer of common/buffer.h and common/buffer.c, used by the     *)
(* client to pack messages and by the server to keep the messages it has   *)
(* copied.  Addresses are offsets from start_addr, so a buffer of size N   *)
(* is the record of its three moving pointers:                             *)
(*   free  where the next byte is packed (free_addr)                       *)
(*   used  the first byte not yet freed (used_addr)                        *)
(*   end   where the used part ends before it continues at 0 (end_addr)    *)
(* One byte is always kept unused: used = free means empty.                *)
(***************************************************************************)
EXTENDS Integers

Buffers(N) == [used : 0..(N - 1), free : 0..(N - 1), end : 0..(N - 1)]

\* cfio_buf_open and cfio_buf_clear (which leaves end_addr as it is)
BufOpen == [used |-> 0, free |-> 0, end |-> 0]
BufClear(b) == [used |-> 0, free |-> 0, end |-> b.end]

BufIsEmpty(b) == b.used = b.free

\* Mutated: the pointer is not wrapped / the end is not recorded.
UseBuf_noWrap(N, b, size) == [b EXCEPT !.free = b.free + size]
UseBuf_noEnd(N, b, size) ==
  IF b.free + size >= N
  THEN [b EXCEPT !.free = b.free + size - N]
  ELSE [b EXCEPT !.free = b.free + size]

\* use_buf: the end recorded is where the pointer was before it advanced.
UseBuf(N, b, size) ==
  IF b.free + size >= N
  THEN [used |-> b.used, free |-> b.free + size - N, end |-> b.free]
  ELSE [b EXCEPT !.free = b.free + size]

\* free_buf
FreeBuf(N, b, size) ==
  IF b.used + size >= N
  THEN [b EXCEPT !.used = b.used + size - N]
  ELSE [b EXCEPT !.used = b.used + size]

FreeBufSize(N, b) == (N + b.used - b.free - 1) % N

LeftSpace(N, b) == N - b.free

\* The tail of the buffer is given up when it is too short for size bytes.
SkipTail(N, b, size) ==
  IF size > LeftSpace(N, b) THEN UseBuf(N, b, LeftSpace(N, b)) ELSE b

\* is_free_space_enough: the buffer it leaves, and its answer.  Giving up the
\* tail is a side effect that stays even when the answer is no.
IsFreeSpaceEnough(N, b, size) ==
  IF FreeBufSize(N, b) < size
  THEN [buf |-> b, enough |-> FALSE]
  ELSE LET s == SkipTail(N, b, size)
       IN  [buf |-> s, enough |-> FreeBufSize(N, s) >= size]

\* check_used_addr
CheckUsedAddr(b, addr) ==
  IF b.used < b.free
  THEN b.used <= addr /\ addr < b.free
  ELSE ~(b.free <= addr /\ addr < b.used)
==============================================================================
