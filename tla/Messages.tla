--------------------------------- MODULE Messages ---------------------------------
(***************************************************************************)
(* The messages of a client, field by field, as send.c packs them and      *)
(* recv.c takes them apart.  For every function the size that a message     *)
(* announces, the order of packing and the order of unpacking are written  *)
(* apart from each other.                                                  *)
(*                                                                         *)
(* A field is its width in bytes and its value.  Names have NameSize bytes   *)
(* with the 0 at their end; data are of type CFIO_FLOAT.                     *)
(***************************************************************************)
EXTENDS Integers, Sequences

SizeofInt   == 4   \* also of uint32_t and cfio_type
SizeofSizeT == 8
SizeofFloat == 4
NameSize    == 2

FuncCode == [create |-> 1, enddef |-> 2, close |-> 3, def_dim |-> 11, def_var |-> 12,
             put_att |-> 13, put_vara |-> 20]

-------------------------------------------------------------------------------
(* Packing *)

(* cfio_buf_pack_data *)
PackData(value, size) == << <<size, value>> >>

(* cfio_buf_pack_data_array: how many elements there are, then the elements. *)
PackArray(data, size) == << <<SizeofInt, Len(data)>>, <<Len(data) * size, data>> >>

PackStr(str) == << <<SizeofInt, NameSize>>, <<NameSize, str>> >>

(* cfio_buf_data_array_size and cfio_buf_str_size *)
ArraySize(len, size) == len * size + SizeofInt

StrSize == ArraySize(NameSize, 1)

(* Every message begins with its size and its function. *)
Msg(op, size, fields) ==
  PackData(SizeofSizeT + SizeofInt + size, SizeofSizeT) \o PackData(FuncCode[op], SizeofInt)
    \o fields

SendCreate(path, ncid) ==
  Msg("create", StrSize + SizeofInt + SizeofInt,
      PackStr(path) \o PackData(0, SizeofInt) \o PackData(ncid, SizeofInt))

SendDefDim(ncid, name, dimid) ==
  Msg("def_dim", SizeofInt + StrSize + SizeofSizeT + SizeofInt,
      PackData(ncid, SizeofInt) \o PackStr(name) \o PackData(1, SizeofSizeT)
        \o PackData(dimid, SizeofInt))

\* Mutated: room for the dimensions, but not for their number.
SendDefVar_short(ncid, name, dimids, varid) ==
  Msg("def_var",
      SizeofInt + StrSize + SizeofInt + SizeofInt + Len(dimids) * SizeofInt + SizeofInt,
      PackData(ncid, SizeofInt) \o PackStr(name) \o PackData(5, SizeofInt)
        \o PackData(Len(dimids), SizeofInt)
        \o (IF dimids # << >> THEN PackArray(dimids, SizeofInt) ELSE << >>)
        \o PackData(varid, SizeofInt))

(* Without dimensions there is no array of them. *)
SendDefVar(ncid, name, dimids, varid) ==
  Msg("def_var",
      SizeofInt + StrSize + SizeofInt + SizeofInt
        + (IF dimids # << >> THEN ArraySize(Len(dimids), SizeofInt) ELSE 0) + SizeofInt,
      PackData(ncid, SizeofInt) \o PackStr(name) \o PackData(5, SizeofInt)
        \o PackData(Len(dimids), SizeofInt)
        \o (IF dimids # << >> THEN PackArray(dimids, SizeofInt) ELSE << >>)
        \o PackData(varid, SizeofInt))

SendPutAtt(ncid, varid, name, op) ==
  Msg("put_att",
      SizeofInt + SizeofInt + StrSize + SizeofInt + ArraySize(Len(op), SizeofFloat),
      PackData(ncid, SizeofInt) \o PackData(varid, SizeofInt) \o PackStr(name)
        \o PackData(5, SizeofInt) \o PackArray(op, SizeofFloat))

(* cfio_send_enddef and cfio_send_close *)
SendNcid(op, ncid) == Msg(op, SizeofInt, PackData(ncid, SizeofInt))

(* start and count always are arrays, also without dimensions. *)
SendPutVara(ncid, varid, start, count, fp) ==
  Msg("put_vara",
      SizeofInt + SizeofInt + ArraySize(Len(start), SizeofSizeT)
        + ArraySize(Len(count), SizeofSizeT) + SizeofInt + ArraySize(Len(fp), SizeofFloat),
      PackData(ncid, SizeofInt) \o PackData(varid, SizeofInt) \o PackArray(start, SizeofSizeT)
        \o PackArray(count, SizeofSizeT) \o PackData(5, SizeofInt) \o PackArray(fp, SizeofFloat))

-------------------------------------------------------------------------------
(* Unpacking, of a message f.  What is read where a field of another width   *)
(* lies is not told apart.                                                 *)

(* cfio_buf_unpack_data of the k-th field. *)
Data(f, k, size) == IF k \in DOMAIN f /\ f[k][1] = size THEN f[k][2] ELSE -2

(* cfio_buf_unpack_data_array of the two fields from the k-th on. *)
Array(f, k, size) ==
  LET len == Data(f, k, SizeofInt)
  IN  IF k + 1 \in DOMAIN f /\ f[k + 1][1] = len * size THEN f[k + 1][2] ELSE << >>

Str(f, k) ==
  IF k + 1 \in DOMAIN f /\ f[k + 1][1] = Data(f, k, SizeofInt) THEN f[k + 1][2] ELSE ""

(* By how much the used part of the buffer shrinks for an array. *)
ArrayRead(f, k, size) == SizeofInt + Data(f, k, SizeofInt) * size

StrRead(f, k) == ArrayRead(f, k, 1)

(* What a handler gets of a message, and how many bytes were read for it.    *)
Call(op, nc, id, name, dims, data, read) ==
  [op |-> op, nc |-> nc, id |-> id, name |-> name, dims |-> dims, data |-> data,
   read |-> SizeofSizeT + SizeofInt + read]

UnpackCreate(f) ==
  Call("create", Data(f, 6, SizeofInt), 0, Str(f, 3), << >>, << >>,
       StrRead(f, 3) + SizeofInt + SizeofInt)

UnpackDefDim(f) ==
  Call("def_dim", Data(f, 3, SizeofInt), Data(f, 7, SizeofInt), Str(f, 4), << >>, << >>,
       SizeofInt + StrRead(f, 4) + SizeofSizeT + SizeofInt)

UnpackDefVar(f) ==
  LET nc   == Data(f, 3, SizeofInt)
      head == SizeofInt + StrRead(f, 4) + SizeofInt + SizeofInt
  IN  IF Data(f, 7, SizeofInt) # 0
        THEN Call("def_var", nc, Data(f, 10, SizeofInt), Str(f, 4), Array(f, 8, SizeofInt), << >>,
                  head + ArrayRead(f, 8, SizeofInt) + SizeofInt)
        ELSE Call("def_var", nc, Data(f, 8, SizeofInt), Str(f, 4), << >>, << >>, head + SizeofInt)

UnpackPutAtt(f) ==
  Call("put_att", Data(f, 3, SizeofInt), Data(f, 4, SizeofInt), Str(f, 5), << >>,
       Array(f, 8, SizeofFloat),
       SizeofInt + SizeofInt + StrRead(f, 5) + SizeofInt + ArrayRead(f, 8, SizeofFloat))

UnpackPutVara(f) ==
  Call("put_vara", Data(f, 3, SizeofInt), Data(f, 4, SizeofInt), "", << >>,
       Array(f, 10, SizeofFloat),
       SizeofInt + SizeofInt + ArrayRead(f, 5, SizeofSizeT) + ArrayRead(f, 7, SizeofSizeT)
         + SizeofInt + ArrayRead(f, 10, SizeofFloat))

(* cfio_recv_unpack_enddef and cfio_recv_unpack_close *)
UnpackNcid(f, op) == Call(op, Data(f, 3, SizeofInt), 0, "", << >>, << >>, SizeofInt)

(* decode looks at the function code and calls a handler, which unpacks. *)
Unpacked(f) ==
  LET op == CHOOSE o \in DOMAIN FuncCode : FuncCode[o] = Data(f, 2, SizeofInt)
  IN  CASE op = "create"   -> UnpackCreate(f)
        [] op = "def_dim"  -> UnpackDefDim(f)
        [] op = "def_var"  -> UnpackDefVar(f)
        [] op = "put_att"  -> UnpackPutAtt(f)
        [] op = "put_vara" -> UnpackPutVara(f)
        [] OTHER           -> UnpackNcid(f, op)
================================================================================
