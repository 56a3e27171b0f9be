-------------------------------- MODULE IoRequests --------------------------------
(***************************************************************************)
(* The calls of a program on their way into a file (cfio.c, id.c, io.c and *)
(* decode in server.c).  Every client gives ids to files, dimensions and   *)
(* variables by itself and sends each call as a message; a server decodes  *)
(* one message of every client per round, notes which clients have made a  *)
(* call, and makes the netCDF call when all have.  Some netCDF calls are   *)
(* collective: a server waits in them for the other servers.               *)
(*                                                                         *)
(* Messages (their fields are in Messages) arrive whole and in order, as in  *)
(* Forwarding and MsgChannel.  The data of a call is its position in the    *)
(* program.                                                                *)
(***************************************************************************)
EXTENDS Netcdf, Bitmap, Messages, FiniteSets, Functions

CONSTANTS
  Servers,
  Group,        \* Group[s]: the clients of server s in the order of their indices
  MaxAhead,     \* bound on the messages of a client that wait for decoding
  CreateFails   \* whether ncmpi_create may fail

Clients == UNION {{Group[s][i] : i \in DOMAIN Group[s]} : s \in Servers}

(* Every client has one server and one index (Lookups of Map). *)
ASSUME GroupsAssumption ==
  /\ \A s \in Servers : Group[s] \in Seq(Clients) /\ Group[s] # << >>
  /\ \A s, t \in Servers : \A i \in DOMAIN Group[s], j \in DOMAIN Group[t] :
       Group[s][i] = Group[t][j] => s = t /\ i = j
  /\ MaxAhead \in Nat \ {0} /\ CreateFails \in BOOLEAN

VARIABLES
  calls,     \* the program, as far as the fastest client has come
  made,      \* made[c]: how many of its calls client c has made
  names,     \* names[c]: assign_table, with open_nc_a
  inbox,     \* inbox[c]: the messages of c its server has not decoded
  turn,      \* turn[s]: index of the client whose message is decoded next
  files,     \* files[s]: map_table
  requests,  \* requests[s]: io_table, from keys to bitmaps
  waiting,   \* waiting[s]: the collective netCDF call s is in, with what follows it
  aborted,   \* servers stopped by an assertion
  netcdf,    \* netcdf[s]: the files open in the netCDF library of s, by its ids
  log        \* log[s]: the netCDF calls s has made

vars == <<calls, made, names, inbox, turn, files, requests, waiting, aborted, netcdf, log>>
clientVars == <<calls, made, names>>

Idle == [op |-> "none"]
Invalid == 0   \* CFIO_ID_NC_INVALID, CFIO_ID_DIM_INVALID, CFIO_ID_VAR_INVALID
GlobalId == -1 \* NC_GLOBAL

Members(s) == {Group[s][i] : i \in DOMAIN Group[s]}
EmptyFcn == [x \in {} |-> x]
Without(f, x) == [y \in DOMAIN f \ {x} |-> f[y]]
With(f, x, v) == [y \in DOMAIN f \cup {x} |-> IF y = x THEN v ELSE f[y]]

Init ==
  /\ calls = << >>
  /\ made = [c \in Clients |-> 0]
  /\ names = [c \in Clients |-> [open |-> 0, nc |-> EmptyFcn]]
  /\ inbox = [c \in Clients |-> << >>]
  /\ turn = [s \in Servers |-> 1]
  /\ files = [s \in Servers |-> EmptyFcn]
  /\ requests = [s \in Servers |-> EmptyFcn]
  /\ waiting = [s \in Servers |-> Idle]
  /\ aborted = {}
  /\ netcdf = [s \in Servers |-> EmptyFcn]
  /\ log = [s \in Servers |-> << >>]

-------------------------------------------------------------------------------
(* Clients: an id is given, and a message sent. *)

(* The id a client has for an open file. *)
Nc(c, path) == CHOOSE n \in DOMAIN names[c].nc : names[c].nc[n].path = path

(* cfio_id_assign_dim and cfio_id_assign_var: a name known gets its id again. *)
Assign(list, name) == IF Contains(list, name) THEN list ELSE Append(list, name)

(* Ids count from 1 in the order of assignment. *)
Id(list, name) == CHOOSE i \in DOMAIN list : list[i] = name

(* An entry of assign_table for a variable, as far as the client fills it. *)
NewEntry(dims) == [dims |-> dims, atts |-> << >>]

Send(c, msg) == inbox' = [inbox EXCEPT ![c] = Append(@, msg)]

(* The data of the call c makes. *)
CallData(c) == <<made[c] + 1>>

(* The file has an entry for its attributes among those of its variables. *)
Create(c, call) ==
  LET nc == names[c].open + 1
  IN  /\ call.op = "create"
      /\ names' = [names EXCEPT ![c] = [open |-> nc,
           nc |-> With(@.nc, nc, [path |-> call.path, dims |-> << >>, vars |-> << >>,
                                  entries |-> With(EmptyFcn, GlobalId, NewEntry(<< >>))])]]
      /\ Send(c, SendCreate(call.path, nc))

DefDim(c, call) ==
  /\ call.op = "def_dim"
  /\ LET nc == Nc(c, call.path)
         dims == Assign(names[c].nc[nc].dims, call.name)
     IN  /\ names' = [names EXCEPT ![c].nc[nc].dims = dims]
         /\ Send(c, SendDefDim(nc, call.name, Id(dims, call.name)))

\* Mutated: a variable defined again takes the dimensions of the last call.
Entered_last(entries, id, dims) == With(entries, id, NewEntry(dims))

(* cfio_id_assign_var leaves the entry of a variable it knows alone. *)
Entered(entries, id, dims) ==
  IF id \in DOMAIN entries THEN entries ELSE With(entries, id, NewEntry(dims))

DefVar(c, call) ==
  /\ call.op = "def_var"
  /\ LET nc == Nc(c, call.path)
         mine == names[c].nc[nc]
         vs == Assign(mine.vars, call.name)
         dims == [i \in DOMAIN call.dims |-> Id(mine.dims, call.dims[i])]
         changed == [mine EXCEPT !.vars = vs, !.entries = Entered(@, Id(vs, call.name), dims)]
     IN  /\ names' = [names EXCEPT ![c].nc[nc] = changed]
         /\ Send(c, SendDefVar(nc, call.name, dims, Id(vs, call.name)))

(* The id a program has for a variable, or for the file. *)
VarId(c, nc, name) == IF name = Global THEN GlobalId ELSE Id(names[c].nc[nc].vars, name)

(* cfio_put_att notes the attribute with the variable. *)
PutAtt(c, call) ==
  /\ call.op = "put_att"
  /\ LET nc == Nc(c, call.path)
         id == VarId(c, nc, call.name)
     IN  /\ names' = [names EXCEPT ![c].nc[nc].entries[id].atts = Append(@, made[c] + 1)]
         /\ Send(c, SendPutAtt(nc, id, "a", CallData(c)))

(* cfio_enddef and cfio_put_vara_* only send. *)
Enddef(c, call) ==
  /\ call.op = "enddef"
  /\ Send(c, SendNcid("enddef", Nc(c, call.path)))
  /\ UNCHANGED names

PutVara(c, call) ==
  /\ call.op = "put_vara"
  /\ LET nc == Nc(c, call.path)
         id == VarId(c, nc, call.name)
         dims == names[c].nc[nc].entries[id].dims
     IN  Send(c, SendPutVara(nc, id, [d \in DOMAIN dims |-> 0], [d \in DOMAIN dims |-> 1],
                             CallData(c)))
  /\ UNCHANGED names

Close(c, call) ==
  /\ call.op = "close"
  /\ names' = [names EXCEPT ![c].nc = Without(@, Nc(c, call.path))]
  /\ Send(c, SendNcid("close", Nc(c, call.path)))

(* The next call of the program; the fastest client finds out which it is. *)
NextCalls(c) ==
  CASE made[c] < Len(calls)                         -> {calls[made[c] + 1]}
    [] made[c] = Len(calls) /\ Len(calls) < MaxCalls -> ProgramCalls(calls)
    [] OTHER                                        -> {}

Client(c) ==
  /\ Len(inbox[c]) < MaxAhead
  /\ \E call \in NextCalls(c) :
       /\ calls' = IF made[c] < Len(calls) THEN calls ELSE Append(calls, call)
       /\ made' = [made EXCEPT ![c] = @ + 1]
       /\ \/ Create(c, call) \/ DefDim(c, call) \/ DefVar(c, call)
          \/ PutAtt(c, call) \/ Enddef(c, call) \/ PutVara(c, call) \/ Close(c, call)
  /\ UNCHANGED <<turn, files, requests, waiting, aborted, netcdf, log>>

-------------------------------------------------------------------------------
(* Inquiries: a client answers them from its table.  The answer is the value *)
(* returned and what is stored for the caller.                             *)

NoError == 0      \* CFIO_ERROR_NONE
NotThere == -401  \* CFIO_ERROR_NC_NO_EXIST, CFIO_ERROR_VAR_NO_EXIST
Unset == "unset"  \* nothing is stored

Answer(ret, out) == [ret |-> ret, out |-> out]

IsOpen(c, nc) == nc \in DOMAIN names[c].nc

(* cfio_id_inq_dim and cfio_id_inq_var *)
InqName(list, name) ==
  IF Contains(list, name) THEN Answer(NoError, Id(list, name)) ELSE Answer(NotThere, Unset)

InqDimid(c, nc, name) ==
  IF IsOpen(c, nc) THEN InqName(names[c].nc[nc].dims, name) ELSE Answer(NotThere, Unset)

InqVarid(c, nc, name) ==
  CASE ~IsOpen(c, nc)                 -> Answer(NotThere, Unset)
    [] IsOpen(c, nc) /\ name = Global -> Answer(NoError, GlobalId)
    [] OTHER                          -> InqName(names[c].nc[nc].vars, name)

HasEntry(c, nc, id) == IsOpen(c, nc) /\ id \in DOMAIN names[c].nc[nc].entries

(* An unknown variable gives CFIO_ID_HASH_GET_NULL, which is positive, and   *)
(* cfio_inq_att passes on negative values only.                            *)
InqAtt(c, nc, id, att) ==
  IF HasEntry(c, nc, id) /\ ~Contains(names[c].nc[nc].entries[id].atts, att)
    THEN Answer(NotThere, Unset) ELSE Answer(NoError, Unset)

(* cfio_inq_varndims passes on no error at all. *)
InqVarndims(c, nc, id) ==
  Answer(NoError, IF HasEntry(c, nc, id) THEN Len(names[c].nc[nc].entries[id].dims) ELSE Unset)

InqVardimid(c, nc, id) ==
  IF HasEntry(c, nc, id) THEN Answer(NoError, names[c].nc[nc].entries[id].dims)
                         ELSE Answer(NotThere, Unset)

-------------------------------------------------------------------------------
(* The netCDF library of a server: a file open in it has its definitions    *)
(* numbered in the order they are made.                                    *)

(* A library call on a file, as it appears in the log. *)
Logged(s, id, op, name, dims, from) == Entry(op, netcdf[s][id].path, name, dims, from)

InDefineMode(s, id) == id \in DOMAIN netcdf[s] /\ netcdf[s][id].define

NewNcId(s) == CHOOSE n \in 1..(Cardinality(DOMAIN netcdf[s]) + 1) :
                /\ n \notin DOMAIN netcdf[s]
                /\ \A m \in 1..(n - 1) : m \in DOMAIN netcdf[s]

-------------------------------------------------------------------------------
(* Tables of a server. *)

(* _recv_client_io: the bitmap of the call, client c added. *)
Key(m) == <<m.op, m.nc, m.id>>

IndexOf(s, c) == (CHOOSE i \in DOMAIN Group[s] : Group[s][i] = c) - 1

Received(s, c, m) ==
  AddBitmap(IF Key(m) \in DOMAIN requests[s] THEN requests[s][Key(m)]
                                             ELSE NewBitmap(Len(Group[s])),
            IndexOf(s, c))

(* All clients have made the call. *)
Full(s, bitmap) == BitmapFull(bitmap, Len(Group[s]))

(* The clients a server has noted for a call. *)
Callers(s, key) == {Group[s][i + 1] : i \in Noted(requests[s][key], Len(Group[s]))}

\* Mutated: the request stays in io_table.
Removed_kept(table, key) == table

Removed(table, key) == Without(table, key)

(* The request is kept with its bitmap, or removed when it is handled. *)
Record(s, c, m, handled) ==
  requests' = [requests EXCEPT ![s] =
    LET noted == With(@, Key(m), Received(s, c, m))
    IN  IF handled THEN Removed(noted, Key(m)) ELSE noted]

(* cfio_id_get_nc, cfio_id_get_dim and cfio_id_get_var. *)
HasNc(s, nc) == nc \in DOMAIN files[s]

Positioned(defs, kind, id) == {i \in DOMAIN defs : defs[i].kind = kind /\ defs[i].id = id}

HasDef(s, nc, kind, id) == HasNc(s, nc) /\ Positioned(files[s][nc].defs, kind, id) # {}

DefAt(s, nc, kind, id) == CHOOSE i \in Positioned(files[s][nc].defs, kind, id) : TRUE

Def(s, nc, kind, id) == files[s][nc].defs[DefAt(s, nc, kind, id)]

(* cfio_id_map_dim and cfio_id_map_var. *)
MapDef(s, nc, def) ==
  files' = [files EXCEPT ![s][nc].defs = Append(@, def)]

-------------------------------------------------------------------------------
(* Handlers, for a message m of client c of server s. *)

(* cfio_io_create: the first message creates the file. *)
IoCreate(s, c, m) ==
  /\ m.op = "create"
  /\ IF HasNc(s, m.nc)
       THEN UNCHANGED <<files, waiting>>
       ELSE /\ files' = [files EXCEPT ![s] =
                 With(@, m.nc, [nc_id |-> Invalid, status |-> "define", defs |-> << >>])]
            /\ waiting' = [waiting EXCEPT ![s] = [op |-> "create", path |-> m.name, nc |-> m.nc]]
  /\ UNCHANGED <<requests, aborted, netcdf, log>>

IoDefDim(s, c, m) ==
  /\ m.op = "def_dim"
  /\ IF HasNc(s, m.nc) /\ ~HasDef(s, m.nc, "dim", m.id)
       THEN MapDef(s, m.nc, [kind |-> "dim", id |-> m.id, name |-> m.name, dims |-> << >>,
                          nc |-> Invalid, atts |-> << >>, parts |-> EmptyFcn])
       ELSE UNCHANGED files
  /\ UNCHANGED <<requests, waiting, aborted, netcdf, log>>

IoDefVar(s, c, m) ==
  /\ m.op = "def_var"
  /\ IF /\ HasNc(s, m.nc) /\ ~HasDef(s, m.nc, "var", m.id)
        /\ \A i \in DOMAIN m.dims : HasDef(s, m.nc, "dim", m.dims[i])
       THEN MapDef(s, m.nc, [kind |-> "var", id |-> m.id, name |-> m.name, dims |-> m.dims,
                          nc |-> Invalid, atts |-> << >>,
                          parts |-> [d \in Members(s) |-> 0]])
       ELSE UNCHANGED files
  /\ UNCHANGED <<requests, waiting, aborted, netcdf, log>>

(* An attribute of the file is written at once, which netCDF refuses in     *)
(* data mode; one of a variable is kept until its definition is made.      *)
IoPutAtt(s, c, m) ==
  LET full   == HasNc(s, m.nc) /\ Full(s, Received(s, c, m))
      nc_id  == files[s][m.nc].nc_id
      global == m.id = GlobalId
      ok     == full /\ IF global THEN InDefineMode(s, nc_id) ELSE HasDef(s, m.nc, "var", m.id)
  IN  /\ m.op = "put_att"
      /\ Record(s, c, m, ok)
      /\ log' = IF ok /\ global
                  THEN [log EXCEPT ![s] = Append(@,
                          Logged(s, nc_id, "put_att", Global, << >>, {m.data[1]}))]
                  ELSE log
      /\ files' = IF ok /\ ~global
                    THEN [files EXCEPT ![s][m.nc].defs[DefAt(s, m.nc, "var", m.id)].atts =
                            Append(@, m.data[1])]
                    ELSE files
      /\ UNCHANGED <<waiting, aborted, netcdf>>

(* _handle_def for every definition in the order of the list: netCDF numbers *)
(* it among those of its kind, and the dimensions of a variable are replaced *)
(* by their netCDF ids, if they have one by then.                          *)
Numbered(defs) ==
  LET number(i) == Cardinality({j \in 1..i : defs[j].kind = defs[i].kind})
      dimId(i, d) == LET at == {j \in Positioned(defs, "dim", d) : j < i}
                     IN  IF at = {} THEN Invalid ELSE number(CHOOSE j \in at : TRUE)
  IN  [i \in DOMAIN defs |->
        [defs[i] EXCEPT !.nc = number(i),
                        !.dims = [k \in DOMAIN @ |-> dimId(i, @[k])]]]

NamesOf(defs, kind) ==
  LET its == InOrder({i \in DOMAIN defs : defs[i].kind = kind})
  IN  [n \in DOMAIN its |-> defs[its[n]].name]

(* The library calls of _handle_def, for definitions with their numbers. *)
DefCalls(s, id, defs) ==
  FlattenSeq([i \in DOMAIN defs |->
    LET def == defs[i]
        dims == NamesOf(defs, "dim")
    IN  IF def.kind = "dim" THEN <<Logged(s, id, "def_dim", def.name, << >>, {})>>
        ELSE <<Logged(s, id, "def_var", def.name, [k \in DOMAIN def.dims |-> dims[def.dims[k]]], {})>>
             \o [k \in DOMAIN def.atts |->
                   Logged(s, id, "put_att", def.name, << >>, {def.atts[k]})]])

(* cfio_io_enddef.  A second enddef does nothing; without a file, there is   *)
(* an assertion for the first definition, and an error for none.            *)
IoEnddef(s, c, m) ==
  LET full == HasNc(s, m.nc) /\ Full(s, Received(s, c, m))
      file == files[s][m.nc]
      first == full /\ file.status = "define"
      define == first /\ file.nc_id # Invalid
      defs == Numbered(file.defs)
  IN  /\ m.op = "enddef"
      /\ Record(s, c, m, full /\ ~first)
      /\ aborted' = IF first /\ file.nc_id = Invalid /\ file.defs # << >>
                      THEN aborted \cup {s} ELSE aborted
      /\ IF define
           THEN /\ files' = [files EXCEPT ![s][m.nc].defs = defs]
                /\ netcdf' = [netcdf EXCEPT ![s][file.nc_id].vars = NamesOf(defs, "var")]
                /\ log' = [log EXCEPT ![s] = @ \o DefCalls(s, file.nc_id, defs)]
                /\ waiting' = [waiting EXCEPT ![s] =
                     [op |-> "enddef", path |-> netcdf[s][file.nc_id].path, nc |-> m.nc,
                      key |-> Key(m), id |-> file.nc_id]]
           ELSE UNCHANGED <<files, netcdf, log, waiting>>

(* cfio_id_put_var: the part of a client replaces the one it sent before.   *)
Stored(var, c, part) == [var.parts EXCEPT ![c] = part]

(* cfio_io_put_vara.  When all clients have sent their parts they are merged *)
(* (VarMerge) and written, except text, which is never written.            *)
IoPutVara(s, c, m) ==
  LET known == HasDef(s, m.nc, "var", m.id)
      var   == Def(s, m.nc, "var", m.id)
      nc_id == files[s][m.nc].nc_id
      parts == Stored(var, c, m.data[1])
      merge == known /\ Full(s, Received(s, c, m)) /\ nc_id # Invalid /\ var.nc # Invalid
      write == merge /\ var.name \notin TextVars
  IN  /\ m.op = "put_vara"
      /\ Record(s, c, m, merge /\ ~write)
      /\ files' = IF known
                    THEN [files EXCEPT ![s][m.nc].defs[DefAt(s, m.nc, "var", m.id)].parts =
                            IF merge THEN [d \in Members(s) |-> 0] ELSE parts]
                    ELSE files
      /\ waiting' = IF write
                      THEN [waiting EXCEPT ![s] =
                        [op |-> "put_vara", path |-> netcdf[s][nc_id].path, nc |-> m.nc,
                         key |-> Key(m), id |-> nc_id, name |-> netcdf[s][nc_id].vars[var.nc],
                         from |-> {parts[d] : d \in Members(s)}]]
                      ELSE waiting
      /\ UNCHANGED <<aborted, netcdf, log>>

IoClose(s, c, m) ==
  LET nc_id == files[s][m.nc].nc_id
      close == HasNc(s, m.nc) /\ Full(s, Received(s, c, m)) /\ nc_id # Invalid
  IN  /\ m.op = "close"
      /\ Record(s, c, m, FALSE)
      /\ waiting' = IF close
                      THEN [waiting EXCEPT ![s] =
                        [op |-> "close", path |-> netcdf[s][nc_id].path, nc |-> m.nc,
                         key |-> Key(m), id |-> nc_id]]
                      ELSE waiting
      /\ UNCHANGED <<files, aborted, netcdf, log>>

\* Mutated: asked before every message of the round.
RoundReady_each(s) == \A c \in Members(s) : inbox[c] # << >>

(* cfio_comm starts a round when it has a message of every client. *)
RoundReady(s) == turn[s] = 1 => \A c \in Members(s) : inbox[c] # << >>

(* decode, for the next message of the round.  A server in a collective call *)
(* returns to it later, in the actions below.                              *)
Decode(s) ==
  /\ waiting[s].op = "none" /\ s \notin aborted
  /\ RoundReady(s)
  /\ \E c \in {Group[s][turn[s]]} : \E m \in {Unpacked(Head(inbox[c]))} :
       /\ inbox' = [inbox EXCEPT ![c] = Tail(@)]
       /\ turn' = [turn EXCEPT ![s] = IF @ = Len(Group[s]) THEN 1 ELSE @ + 1]
       /\ \/ IoCreate(s, c, m) \/ IoDefDim(s, c, m) \/ IoDefVar(s, c, m)
          \/ IoPutAtt(s, c, m) \/ IoEnddef(s, c, m) \/ IoPutVara(s, c, m)
          \/ IoClose(s, c, m)
  /\ UNCHANGED clientVars

-------------------------------------------------------------------------------
(* Collective library calls return when every server has made them, on the  *)
(* same file; then each handler does the rest of its work.                 *)

Together(op) == \A s, t \in Servers : /\ waiting[s].op = op
                                      /\ waiting[s].path = waiting[t].path

\* Mutated: the netCDF id of a closed file stays mapped.
Closed_mapped(s) == files[s]

Closed(s) == Without(files[s], waiting[s].nc)

Return == waiting' = [s \in Servers |-> Idle]

LogCall(name, from) ==
  log' = [s \in Servers |-> Append(log[s],
    Entry(waiting[s].op, waiting[s].path, name, << >>, from[s]))]

NoData == [s \in Servers |-> {}]

RemoveAll == requests' = [s \in Servers |-> Removed(requests[s], waiting[s].key)]

CreateReturns ==
  /\ Together("create") /\ Return
  /\ \/ /\ files' = [s \in Servers |-> [files[s] EXCEPT ![waiting[s].nc].nc_id = NewNcId(s)]]
        /\ netcdf' = [s \in Servers |->
             With(netcdf[s], NewNcId(s), [path |-> waiting[s].path, define |-> TRUE, vars |-> << >>])]
        /\ LogCall("", NoData)
     \/ CreateFails /\ UNCHANGED <<files, netcdf, log>>
  /\ UNCHANGED <<clientVars, inbox, turn, requests, aborted>>

EnddefReturns ==
  /\ Together("enddef") /\ Return /\ RemoveAll
  /\ files' = [s \in Servers |-> [files[s] EXCEPT ![waiting[s].nc].status = "data"]]
  /\ netcdf' = [s \in Servers |-> [netcdf[s] EXCEPT ![waiting[s].id].define = FALSE]]
  /\ LogCall("", NoData)
  /\ UNCHANGED <<clientVars, inbox, turn, aborted>>

PutVaraReturns ==
  /\ Together("put_vara") /\ Return /\ RemoveAll
  /\ \A s, t \in Servers : waiting[s].name = waiting[t].name
  /\ LogCall((CHOOSE w \in {waiting[s] : s \in Servers} : TRUE).name, [s \in Servers |-> waiting[s].from])
  /\ UNCHANGED <<clientVars, inbox, turn, files, aborted, netcdf>>

CloseReturns ==
  /\ Together("close") /\ Return /\ RemoveAll
  /\ files' = [s \in Servers |-> Closed(s)]
  /\ netcdf' = [s \in Servers |-> Without(netcdf[s], waiting[s].id)]
  /\ LogCall("", NoData)
  /\ UNCHANGED <<clientVars, inbox, turn, aborted>>

CollectiveReturns == CreateReturns \/ EnddefReturns \/ PutVaraReturns \/ CloseReturns

(* The program may end after any call; an assertion that fails ends it.     *)
Terminating ==
  /\ \/ aborted # {}
     \/ /\ \A c \in Clients : made[c] = Len(calls) /\ inbox[c] = << >>
        /\ \A s \in Servers : turn[s] = 1 /\ waiting[s].op = "none"
  /\ UNCHANGED vars

Next == \/ \E c \in Clients : Client(c)
        \/ \E s \in Servers : Decode(s)
        \/ CollectiveReturns \/ Terminating

Spec == Init /\ [][Next]_vars

(* A server goes on decoding, and a library call all servers are in returns. *)
FairSpec == /\ Spec /\ WF_vars(CollectiveReturns)
            /\ \A s \in Servers : WF_vars(Decode(s))

-------------------------------------------------------------------------------
(* Type invariant. *)
TypeOK ==
  /\ made \in [Clients -> 0..MaxCalls] /\ Len(calls) <= MaxCalls
  /\ \A c \in Clients : Len(inbox[c]) <= MaxAhead /\ made[c] <= Len(calls)
  /\ \A s \in Servers :
       /\ turn[s] \in 1..Len(Group[s])
       /\ \A nc \in DOMAIN files[s] : files[s][nc].status \in {"define", "data"}
       /\ \A key \in DOMAIN requests[s] : Callers(s, key) # {}
       /\ waiting[s].op \in {"none", "create", "enddef", "put_vara", "close"}
       /\ waiting[s].op = "put_vara" => waiting[s].from \subseteq 1..MaxCalls
  /\ aborted \subseteq Servers

(* The servers make the netCDF calls of the program: each of them once, in  *)
(* its order, on the right file and variable, a put_vara with the parts    *)
(* that all clients passed to that one call.                               *)
AsProgrammed == \A s \in Servers : IsPrefix(log[s], Promised(calls))

(* The same as a refinement: clients and servers implement direct calls.    *)
Direct == INSTANCE DirectCalls
DirectSpec == Direct!Spec

(* What a program learns of a file when it asks for every name it may have   *)
(* used: the dimensions, the variables with the names of as many dimensions  *)
(* as cfio_inq_varndims says, and the attributes of those.                  *)
Learned(c, nc, path) ==
  LET dims == {d \in DimNames : InqDimid(c, nc, d).ret = NoError}
      vs == {v \in VarNames \cup {Global} : InqVarid(c, nc, v).ret = NoError}
      puts == {k \in 1..made[c] : calls[k].op = "put_att"}
      id(v) == InqVarid(c, nc, v).out
      dimName(i) == CHOOSE d \in dims : InqDimid(c, nc, d).out = i
      dimsOf(v) == [k \in 1..InqVarndims(c, nc, id(v)).out |->
                     dimName(InqVardimid(c, nc, id(v)).out[k])]
      atts(v) == {k \in puts : InqAtt(c, nc, id(v), k).ret = NoError}
  IN  {Entry("def_dim", path, d, << >>, {}) : d \in dims}
      \cup {Entry("def_var", path, v, dimsOf(v), {}) : v \in vs \ {Global}}
      \cup UNION {{Entry("put_att", path, v, << >>, {k}) : k \in atts(v)} : v \in vs}

(* The header that a file gets if its definitions end now (they may have     *)
(* ended before), while it is open: what is promised of it.                 *)
HeaderSoFar(path) ==
  LET ended == Append(calls, CallOf("enddef", path, "", << >>))
      its == {k \in DOMAIN ended : ended[k].path = path /\ ended[k].op \in {"put_att", "enddef"}}
  IN  IF Did(calls, "close", path) THEN {}
      ELSE {e \in UNION {Range(Effect(ended, k)) : k \in its} : e.op # "enddef"}

(* Nothing of the file was defined after its enddef. *)
DefinedInTime(path) ==
  \A k \in DOMAIN calls :
    calls[k].path = path /\ calls[k].op \in {"def_dim", "def_var", "put_att"}
      => Defining(SubSeq(calls, 1, k), path)

(* The file of the n-th create. *)
FileOf(n) == calls[InOrder({k \in DOMAIN calls : calls[k].op = "create"})[n]].path

AnswersRight(c, nc) == Learned(c, nc, FileOf(nc)) = HeaderSoFar(FileOf(nc))

(* A client answers inquiries alone, before its server has decoded anything,  *)
(* and as the file will be: when it has made the calls of the program (which  *)
(* may end with any call), a program that asks by name learns of an open      *)
(* file exactly the dimensions, variables and attributes that its header      *)
(* gets (AsProgrammed) if definitions end now, a variable with the dimensions *)
(* of its first definition; and nothing of a closed file.  The condition is   *)
(* needed, and so are creates that succeed for the header to be in a file:    *)
(* a client does not learn of what its server refuses.                      *)
InquiriesRight ==
  \A c \in Clients : made[c] = Len(calls) =>
    \A nc \in 1..names[c].open : DefinedInTime(FileOf(nc)) => AnswersRight(c, nc)

(* The same without the condition: it does not hold. *)
AnswersAreFiled ==
  \A c \in Clients : made[c] = Len(calls) => \A nc \in 1..names[c].open : AnswersRight(c, nc)

BetweenRounds(s) == turn[s] = 1 /\ waiting[s].op = "none" /\ s \notin aborted

(* A call all clients have made leaves nothing behind for the next: no       *)
(* request in io_table and no part in recv_data.                           *)
RoundsClean ==
  \A s \in Servers : BetweenRounds(s) =>
    /\ requests[s] = EmptyFcn
    /\ \A nc \in DOMAIN files[s] : \A i \in DOMAIN files[s][nc].defs :
         files[s][nc].defs[i].parts \in {EmptyFcn, [c \in Members(s) |-> 0]}

(* The ids that clients give without asking anyone mean the same on their    *)
(* server: when it has decoded all a client has sent, its map_table holds   *)
(* the open files, dimensions and variables of that client under their ids. *)
SameIds ==
  \A s \in Servers : BetweenRounds(s) => \A c \in Members(s) : inbox[c] = << >> =>
    /\ DOMAIN files[s] = DOMAIN names[c].nc
    /\ \A nc \in DOMAIN files[s] :
         LET mine == names[c].nc[nc]
         IN  /\ netcdf[s][files[s][nc].nc_id].path = mine.path
             /\ Len(files[s][nc].defs) = Len(mine.dims) + Len(mine.vars)
             /\ \A i \in DOMAIN mine.dims :
                  HasDef(s, nc, "dim", i) /\ Def(s, nc, "dim", i).name = mine.dims[i]
             /\ \A i \in DOMAIN mine.vars :
                  HasDef(s, nc, "var", i) /\ Def(s, nc, "var", i).name = mine.vars[i]

(* _merge_var_data finds a part of every client in a full bitmap, whatever   *)
(* calls went before.                                                      *)
BitsHaveParts ==
  \A s \in Servers : \A key \in DOMAIN requests[s] :
    /\ key[1] = "put_vara" /\ HasDef(s, key[2], "var", key[3])
    /\ waiting[s].op # "put_vara"
    => \A c \in Callers(s, key) : Def(s, key[2], "var", key[3]).parts[c] # 0

(* A message is as long as it says, and is read to its end.  The server cuts *)
(* the list of a client by the first and frees its buffer by the second, so   *)
(* that the next message is found only if both agree with what was packed.   *)
SizesAgree ==
  \A c \in Clients : \A i \in DOMAIN inbox[c] :
    LET msg == inbox[c][i]
    IN  /\ msg[1][2] = Cardinality(UNION {{k} \X (1..msg[k][1]) : k \in DOMAIN msg})
        /\ msg[1][2] = Unpacked(msg).read

(* The assertions in _handle_def on the netCDF id of the file hold. *)
NoAbort == aborted = {}

(* A call that every client has made reaches the file: no server waits for  *)
(* ever in a collective call or for a message.                             *)
CallsHandled ==
  \A k \in 1..MaxCalls :
    (\A c \in Clients : made[c] >= k)
      ~> /\ k <= Len(calls)
         /\ \A s \in Servers : Len(log[s]) >= Len(Promised(SubSeq(calls, 1, k)))
================================================================================
