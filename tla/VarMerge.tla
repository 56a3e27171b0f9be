--------------------------------- MODULE VarMerge ---------------------------------
(***************************************************************************)
(* How a server joins the parts of a variable that its clients passed to   *)
(* one put_vara (_merge_var_data with _update_start_and_count, _put_var     *)
(* and _inc_src_index in io.c): the smallest box around the parts is        *)
(* allocated, every part is copied into it element by element, and the box *)
(* is written to the file.                                                 *)
(*                                                                         *)
(* Arrays of the server are row-major, and offsets count elements: the       *)
(* element size multiplies all of them alike.  The program is in Fortran,    *)
(* whose arrays are column-major and start at 1, so that all it passes but   *)
(* the data is turned around (cfio.c); a C program passes parts itself.     *)
(***************************************************************************)
EXTENDS Integers, Sequences, SequencesExt

CONSTANTS
  NDims,      \* dimensions of the variable
  NumParts,   \* clients of the server
  Starts,     \* the starts and counts of parts in a dimension
  Counts

ASSUME MergeAssumption ==
  NDims \in Nat /\ NumParts \in Nat \ {0} /\ Starts \subseteq Nat /\ Counts \subseteq Nat

Dims == 1..NDims
Junk == <<0, 0>>   \* what malloc returned

VARIABLES
  pc,
  asked,      \* start and count as every client passed them
  parts,      \* recv_data: start and count of every client's part
  k,          \* the part at hand
  box,        \* start and count of the merged data
  data,       \* the merged data: part and offset in it of every element
  dst, src,   \* dst_data and src_data, as offsets
  i,          \* elements of the part that were copied
  src_index,
  dim, sub    \* loop variables of _inc_src_index

vars == <<pc, asked, parts, k, box, data, dst, src, i, src_index, dim, sub>>

Product(f) == FoldLeft(LAMBDA a, b : a * b, 1, [d \in Dims |-> f[d]])

(* cfio_put_vara_*_c_ *)
Converted(a) ==
  [start |-> [d \in Dims |-> a.start[NDims + 1 - d] - 1],
   count |-> [d \in Dims |-> a.count[NDims + 1 - d]]]

Init ==
  /\ pc = "box"
  /\ asked \in [1..NumParts -> [start : [Dims -> {s + 1 : s \in Starts}],
                               count : [Dims -> Counts]]]
  /\ parts = [p \in 1..NumParts |-> Converted(asked[p])]
  /\ k = 1 /\ box = parts[1]
  /\ data = << >>
  /\ dst = 0 /\ src = 0 /\ i = 0
  /\ src_index = [d \in Dims |-> 0]
  /\ dim = NDims /\ sub = 1

-------------------------------------------------------------------------------
\* Mutated: the end of the new part is not looked at.
Extended_start(old, new) ==
  LET start(d) == IF old.start[d] < new.start[d] THEN old.start[d] ELSE new.start[d]
  IN  [start |-> [d \in Dims |-> start(d)],
       count |-> [d \in Dims |-> old.start[d] + old.count[d] - start(d)]]

(* _update_start_and_count *)
Extended(old, new) ==
  LET start(d) == IF old.start[d] < new.start[d] THEN old.start[d] ELSE new.start[d]
      end(r, d) == r.start[d] + r.count[d]
      max(d) == IF end(old, d) > end(new, d) THEN end(old, d) ELSE end(new, d)
  IN  [start |-> [d \in Dims |-> start(d)], count |-> [d \in Dims |-> max(d) - start(d)]]

Extend ==
  /\ pc = "box" /\ k < NumParts
  /\ box' = Extended(box, parts[k + 1]) /\ k' = k + 1
  /\ UNCHANGED <<pc, asked, parts, data, dst, src, i, src_index, dim, sub>>

(* The merged data is allocated and not cleared. *)
Allocate ==
  /\ pc = "box" /\ k = NumParts
  /\ pc' = "part" /\ k' = 1
  /\ data' = [o \in 0..(Product(box.count) - 1) |-> Junk]
  /\ UNCHANGED <<asked, parts, box, dst, src, i, src_index, dim, sub>>

-------------------------------------------------------------------------------
(* _put_var *)

Stride(d) == Product([e \in Dims |-> IF e > d THEN box.count[e] ELSE 1])

SrcLen == Product(parts[k].count)

(* The offset of the part in the merged data. *)
DstOffset ==
  FoldLeft(+, 0, [d \in Dims |-> (parts[k].start[d] - box.start[d]) * Stride(d)])

StartPart ==
  /\ pc = "part" /\ k <= NumParts
  /\ pc' = "copy"
  /\ dst' = DstOffset /\ src' = 0 /\ i' = 0
  /\ src_index' = [d \in Dims |-> 0]
  /\ UNCHANGED <<asked, parts, k, box, data, dim, sub>>

Copy == data' = [data EXCEPT ![dst] = <<k, src>>]

(* An element that is not the last, and the first step of _inc_src_index. *)
CopyElement ==
  /\ pc = "copy" /\ i < SrcLen - 1
  /\ Copy
  /\ pc' = "carry" /\ dim' = NDims /\ sub' = 1
  /\ src_index' = [src_index EXCEPT ![NDims] = @ + 1]
  /\ UNCHANGED <<asked, parts, k, box, dst, src, i>>

\* Mutated: a row of the part is taken for a row of the box.
CarriedSub_src(s, d) == s * parts[k].count[d]

CarriedSub(s, d) == s * box.count[d]

(* One turn of the loop of _inc_src_index: the index runs over. *)
Carry ==
  /\ pc = "carry" /\ src_index[dim] >= parts[k].count[dim]
  /\ dst' = dst - (parts[k].count[dim] - 1) * sub
  /\ sub' = CarriedSub(sub, dim)
  /\ dim' = dim - 1
  /\ src_index' = [src_index EXCEPT ![dim] = 0, ![dim - 1] = @ + 1]
  /\ UNCHANGED <<pc, asked, parts, k, box, data, src, i>>

Advance ==
  /\ pc = "carry" /\ src_index[dim] < parts[k].count[dim]
  /\ dst' = dst + sub /\ src' = src + 1 /\ i' = i + 1
  /\ pc' = "copy"
  /\ UNCHANGED <<asked, parts, k, box, data, src_index, dim, sub>>

(* The last element, if there is one; the client's part is freed. *)
EndPart ==
  /\ pc = "copy" /\ i >= SrcLen - 1
  /\ IF SrcLen > 0 THEN Copy ELSE UNCHANGED data
  /\ pc' = "part" /\ k' = k + 1
  /\ UNCHANGED <<asked, parts, box, dst, src, i, src_index, dim, sub>>

Written ==
  /\ pc = "part" /\ k > NumParts
  /\ pc' = "written"
  /\ UNCHANGED <<asked, parts, k, box, data, dst, src, i, src_index, dim, sub>>

Terminating == pc = "written" /\ UNCHANGED vars

Next == \/ Extend \/ Allocate \/ StartPart \/ CopyElement \/ Carry \/ Advance
        \/ EndPart \/ Written \/ Terminating

Spec == Init /\ [][Next]_vars

-------------------------------------------------------------------------------
(* _update_start_and_count, part by part, finds the smallest box: no part     *)
(* sticks out of it, and at each of its sides there is a part.             *)
Inside(part) ==
  \A d \in Dims : /\ box.start[d] <= part.start[d]
                 /\ part.start[d] + part.count[d] <= box.start[d] + box.count[d]

Touched(n) ==
  \A d \in Dims :
    /\ \E p \in 1..n : parts[p].start[d] = box.start[d]
    /\ \E p \in 1..n : parts[p].start[d] + parts[p].count[d] = box.start[d] + box.count[d]

BoxTight == pc # "box" => (\A p \in 1..NumParts : Inside(parts[p])) /\ Touched(NumParts)

(* Every copy reads from its part and writes into the allocated data: the   *)
(* pointer that is moved back and forth by _inc_src_index stays inside.     *)
InBounds ==
  pc = "copy" /\ SrcLen > 0 => dst \in DOMAIN data /\ src \in 0..(SrcLen - 1)

(* Points of an array in Fortran, and the offset of one in column-major order. *)
Along(a, d) == a.start[d] .. (a.start[d] + a.count[d] - 1)

Points(a) == {x \in [Dims -> UNION {Along(a, d) : d \in Dims}] :
                \A d \in Dims : x[d] \in Along(a, d)}

Offset(a, x) ==
  FoldRight(LAMBDA d, o : o * a.count[d] + (x[d] - a.start[d]), [d \in Dims |-> d], 0)

(* The box as a Fortran program sees it. *)
Seen == [start |-> [d \in Dims |-> box.start[NDims + 1 - d] + 1],
         count |-> [d \in Dims |-> box.count[NDims + 1 - d]]]

Holders(x) == {p \in 1..NumParts : x \in Points(asked[p])}

(* What is written at a point is the element that the program has there in   *)
(* its own array, in the order of Fortran, of the last part that has the     *)
(* point, wherever the parts overlap: turning around starts and counts is     *)
(* enough, the data itself is passed as it is.                             *)
MergedRight ==
  pc = "written" => \A x \in Points(Seen) : Holders(x) # {} =>
    LET p == CHOOSE p \in Holders(x) : \A q \in Holders(x) : q <= p
    IN  data[Offset(Seen, x)] = <<p, Offset(asked[p], x)>>

(* Only elements that a client passed are written: nothing of what malloc    *)
(* returned, and so nothing over what other servers' clients wrote.        *)
OnlyParts == pc = "written" => \A o \in DOMAIN data : data[o] # Junk
================================================================================
