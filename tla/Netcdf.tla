--------------------------------- MODULE Netcdf ---------------------------------
(***************************************************************************)
(* Programs that write netCDF files, and what PnetCDF does for them.  CFIO *)
(* "provides the same interface and feature as PnetCDF" (README), so this  *)
(* is what its servers have to do together: every process of the program   *)
(* makes the same calls, and the calls that reach a file are made once.    *)
(***************************************************************************)
EXTENDS Integers, Sequences, SequencesExt

CONSTANTS
  Paths,      \* files; each is created once
  DimNames,
  VarNames,
  TextVars,   \* variables of type CFIO_CHAR
  MaxCalls,   \* bound on the length of a program
  Misuse      \* "early": data calls in define mode, "late": definitions in data mode

(* What an attribute of the file is given to, in place of a variable. *)
Global == "NC_GLOBAL"

ASSUME ProgramAssumption ==
  /\ TextVars \subseteq VarNames /\ MaxCalls \in Nat /\ Global \notin VarNames
  /\ Misuse \subseteq {"early", "late"}

(* A call as the program makes it, by name. *)
CallOf(op, path, name, dims) == [op |-> op, path |-> path, name |-> name, dims |-> dims]

Did(calls, op, path) ==
  \E i \in DOMAIN calls : calls[i].op = op /\ calls[i].path = path

Named(calls, op, path) ==
  {calls[i].name : i \in {j \in DOMAIN calls : calls[j].op = op /\ calls[j].path = path}}

Defining(calls, path) == ~Did(calls, "enddef", path)

(* The calls a program may make on an open file after the calls so far. *)
CallsOn(calls, path) ==
  LET define == Defining(calls, path) \/ "late" \in Misuse
      data   == ~Defining(calls, path) \/ "early" \in Misuse
      dims   == {<< >>} \cup {<<d>> : d \in Named(calls, "def_dim", path)}
      vars   == Named(calls, "def_var", path)
  IN  {CallOf("def_dim", path, d, << >>) : d \in IF define THEN DimNames ELSE {}}
      \cup {CallOf("def_var", path, v, ds) : v \in IF define THEN VarNames ELSE {}, ds \in dims}
      \cup {CallOf("put_att", path, v, << >>) : v \in IF define THEN vars \cup {Global} ELSE {}}
      \cup {CallOf("put_vara", path, v, << >>) : v \in IF data THEN vars ELSE {}}
      \cup {CallOf("enddef", path, "", << >>)}
      \cup {CallOf("close", path, "", << >>) : p \in {q \in {path} : ~Defining(calls, q)}}

ProgramCalls(calls) ==
  {CallOf("create", p, "", << >>) : p \in {q \in Paths : ~Did(calls, "create", q)}}
  \cup UNION {CallsOn(calls, p) :
                p \in {q \in Paths : Did(calls, "create", q) /\ ~Did(calls, "close", q)}}

-------------------------------------------------------------------------------
(* What reaches a file: the call, and the positions in the program of the   *)
(* calls whose data it carries.                                            *)
Entry(op, path, name, dims, from) ==
  [op |-> op, path |-> path, name |-> name, dims |-> dims, from |-> from]

Positions(calls, op, path, name) ==
  {i \in DOMAIN calls : calls[i].op = op /\ calls[i].path = path /\ calls[i].name = name}

InOrder(positions) ==
  [n \in 1..Cardinality(positions) |->
    CHOOSE i \in positions : Cardinality({j \in positions : j <= i}) = n]

(* A name is defined by the first call that defines it. *)
FirstDefs(calls, path) ==
  {i \in DOMAIN calls :
     /\ calls[i].op \in {"def_dim", "def_var"} /\ calls[i].path = path
     /\ \A j \in Positions(calls, calls[i].op, path, calls[i].name) : i <= j}

Attributes(calls, def) ==
  LET at == InOrder(IF def.op = "def_var" THEN Positions(calls, "put_att", def.path, def.name)
                                          ELSE {})
  IN  [k \in DOMAIN at |-> Entry("put_att", def.path, def.name, << >>, {at[k]})]

Header(calls, path) ==
  LET defs == InOrder(FirstDefs(calls, path))
  IN  FlattenSeq([k \in DOMAIN defs |->
        LET def == calls[defs[k]]
        IN  <<Entry(def.op, path, def.name, def.dims, {})>> \o Attributes(calls, def)])

(* What the k-th call of a program does. *)
Effect(calls, k) ==
  LET before == SubSeq(calls, 1, k - 1)
      call == calls[k]
      defining == Defining(before, call.path)
      inHeader == \E i \in Positions(before, "def_var", call.path, call.name) :
                    Defining(SubSeq(before, 1, i), call.path)
      itself(from) == <<Entry(call.op, call.path, call.name, << >>, from)>>
  IN  CASE call.op \in {"create", "close"} -> itself({})
        [] call.op = "put_att" /\ call.name = Global /\ defining -> itself({k})
        [] call.op = "enddef" /\ defining -> Header(before, call.path) \o itself({})
        [] call.op = "put_vara" /\ ~defining /\ inHeader -> itself({k})
        [] OTHER -> << >>

Promised(calls) == FlattenSeq([k \in DOMAIN calls |-> Effect(calls, k)])
================================================================================
