# CFIO2 in TLA+

CFIO is an IO-forwarding library: the processes of an MPI program are split into
*clients*, which compute, and *servers*, which do the output.  A client's calls
(`cfio_create`, `cfio_def_dim`, `cfio_put_vara_float`, `cfio_close`, ...) are packed
as messages into a buffer that its server reads by RDMA; the server keeps a list of
messages per client, decodes one message of every client at a time, and when all
clients have made the same call it makes the netCDF call itself.

This directory models the parts of that system whose correctness depends on
interleaving, on pointers that wrap and on bounded buffers; checks them with TLC on
small instances; and proves the central facts with TLAPS for all sizes and for any
number of clients.

## Inventory

| Part | Source (under `src/src`) | State | Operations | Interacts with | Hard because |
|---|---|---|---|---|---|
| ring buffer | `common/buffer.h`, `common/buffer.c` | `used_addr`, `free_addr`, `end_addr` | `use_buf`, `free_buf`, `ensure_free_space`, `is_free_space_enough`, `check_used_addr` | used by client and server | wrap-around, tail skipping, off-by-one at the end |
| client send path | `client/C/send.c` | the send buffer and `addr` | `cfio_send_*`, `cfio_send_client_buf_free`, `cfio_send_io_end`, `cfio_send_io_done` | ring buffer, handshake, client RDMA | space is reused while a peer reads it |
| address handshake | `common/addr.c`, `addr.h` | `signal` and four pointers, one copy per side | init, set, clear, wait, test | overwritten by RDMA from the other side | two writers of one struct |
| client RDMA layer | `client/C/rdma_client.c` | `request_stack_size`, connection state | connect, `write_addr`, `wait`, completions | NIC | asynchronous completions |
| server RDMA layer | `server/rdma_server.c` | `request_stack_size`, `rest_reqs`, `previous_rss` | connect, `read_data`, `write_addr`, `wait_some`, `test`, completions | NIC | partial draining, one counter for several kinds |
| communication loop | `server/server.c` | `read_addrs`, `read_dones`, `recv_bufs`, `local_lens`, `msg_cnts`, `comm_dones` | `cfio_comm`, `_read_data`, `_copy_data_to_list` | all of the above | round robin over clients that run at their own pace |
| message lists | `server/recv.c` | one ring buffer and list per client | `cfio_recv_add_msg`, `cfio_recv_get_first`, unpacking | communication loop | bounded, one reader per round |
| client-server map | `common/map.c` | process grids | `cfio_map_init` and lookups | everyone | integer factorisation, edges of the grid |
| id tables | `common/id.c` | ids on the client, hash tables on the server | assign, inquire, map, get, put | API and IO layer | same ids on every client without communication |
| server IO layer | `server/io.c` | bitmaps of clients per pending call, definitions, variable parts | `cfio_io_create` ... `cfio_io_close` | id tables, netCDF | collective matching, partial failure |
| client API | `client/C/cfio.c` | rank, communicator | `cfio_init`, `cfio_*`, inquiries, `cfio_finalize`, the wrappers for Fortran | send path, id tables | order of calls, order of dimensions |
| Fortran binding, hash/list headers, debug, times | `client/Fortran`, `common` | - | - | - | not modelled: conversion, third-party, logging |

What makes each part correct:

* ring buffer - pointers stay inside; a buffer in use never looks empty; `end_addr`
  marks the end of the first piece of a used part that wraps;
* send path, handshake, RDMA, loop and lists together - the server takes every
  message of every client, whole, once and in order; no message is overwritten before
  it is taken; the pointers have one writer at a time; every publication is
  acknowledged and every call returns; rounds of decoding find a message of everyone;
* RDMA layers - requests are counted exactly and nobody sleeps over a completion; both
  ends are ready when initialisation ends, write to the memory of the right peer, and
  take a connection down when nothing is under way on it;
* map - every client has one server, indices are dense, groups are rectangles;
* id tables - the n-th definition gets the same id on every client, and the server
  resolves it to what was defined; inquiries answer as the file will be (while definitions end
  at enddef and creates succeed: a client does not learn of what its server refuses);
* IO layer - a netCDF call is made once per collective call, when the last client has
  made it, with the parts of all.

## Modules

| Module | Models | Used by |
|---|---|---|
| `CfioBuf` | the ring buffer's pointers as a record, its operations as operators | `Forwarding` |
| `Forwarding` | clients, NIC and server of one server's group: the whole path from a call to the decoded message | the runs |
| `MsgChannel` | what that path promises: per-client FIFO channels that are read in lock-step | refined by `Forwarding` |
| `Map` | the choice of a grid of servers, step by step, and the lookups between clients and servers | the runs |
| `Connection` | set-up, use and tear-down of the connections between a server and its clients, in both RDMA layers | the runs |
| `Messages` | the messages of a client field by field: their announced size, packing and unpacking | `IoRequests` |
| `Bitmap` | the bitmap in which a server notes the clients that have made a call | `IoRequests` |
| `Netcdf` | the programs that use the library, and the netCDF calls they would make by themselves | `IoRequests`, `DirectCalls` |
| `IoRequests` | clients' ids, the handlers of the servers, and the collective netCDF calls | the runs |
| `DirectCalls` | what the servers promise: each makes the netCDF calls of the program, once and in order | refined by `IoRequests` |
| `VarMerge` | the merging of the parts of one `put_vara` | the runs |
| `MCForwarding`, `MCIoRequests` | message sets and groups of clients for TLC | the runs |
| `Counting_proofs` (induction, sets of requests), `Forwarding_proofs` (with `CfioBuf`), `Connection_proofs`, `Talk_proofs`, `Map_proofs`, `IoRequests_proofs` (with `Bitmap`, `Messages`), `DirectCalls_proofs` (with `Netcdf`), `VarMerge_proofs` | lemmas and theorems | - |

The modules meet at the message: `Forwarding` is about how messages get to the server
and nothing of what they say (`DecodeRound` takes one of every client); `IoRequests` starts
from that lock-step (`RoundReady`) and is about what the messages do, with their fields from `Messages`; `VarMerge` is the
inside of its action `IoPutVara`; `Map` says which clients are in `Group[s]`.  `Connection`
is what happens before and after `Forwarding`, which starts with connections that are ready.

### How `Forwarding` corresponds to the code

* An address is an offset from `start_addr`.  A *unit* stands for bytes the properties
  need not tell apart; unit k of the n-th message of a client is `<<n, k>>`, a byte
  never packed is `<<0, 0>>`.  A message is `[size, last]`: its size and that of the
  field packed last, because `use_buf` records `end_addr` per field.  The first
  `HdrSize` units hold the size that `_copy_data_to_list` reads.
* Client (`cpc`): `Call` is the application making a call; `EnsureSkip`, `BufFreeReclaim`,
  `BufFreePublish`, `BufFreeReturn` are the two loops of `ensure_free_space` with
  `cfio_send_client_buf_free` in their body; `Pack` packs all fields at once (nobody reads
  what is not published); `IoEnd` / `IoEndReturn` are `cfio_send_io_end` before and after
  `cfio_rdma_client_wait`; `Finalize`, `IoDone`, `SendFinal` are `cfio_finalize`.
  The busy waits of `addr.c` are guards.
* NIC: `AddrLands`, `ReadLands`, `AckLands` carry out one posted request, at any later
  time.  Reads of one queue pair are carried out in order (a reliable connection); a
  read and a write of the same pair, and the requests of different clients, in any order.
  The client's completion and the arrival of its write are one step.
* Server (`spc`): `WaitSome`, `Poll`, `Drained` are `cfio_rdma_server_wait_some` with
  `poll_cq_one_time` and `on_completion`; `PickClient` the choice of the next client and
  the test of its signal; `ReadData` is `_read_data` with all its requests; `TestRead`,
  `CopyMsg` and `Copied` the branch that copies messages and acknowledges; `DecodeRound`
  one turn of the decoding loop over all clients, `Decoded` its exit.  `region[c]` is
  `recv_bufs[c]` up to `local_lens[c]`; `copy_lens` is 0 between two copies.
* Left out: what a message says (`Messages` has it), a failed completion, the tearing of a 40-byte RDMA write;
  the branches of `cfio_recv_add_msg` for `FUNC_FINAL` and a size of 0 (`recv.c:129-141`), which no
  client sends; and the MPI messages at the end of `cfio_send_io_done` (`send.c:456-474`), with
  which rank 0 waits in `cfio_finalize` until every other client has published its last: it
  has published its own before, so that nobody waits for it, and the behaviours with the wait are
  among those without.
  A region not at the head of a message would be read
  as garbage by the code; the model stops there, and `StreamInOrder` and the liveness
  properties rule it out.

### How `Connection` corresponds to the code

* An end of a connection is `<<"client", c>>` or `<<"server", c>>`; a variable over `Ends` is a
  field of both `rdma_conn_t`.  `rss`, `readyCnt`, `conns`, `ordered`, `estCnt`, `disCnt`,
  `rest` are the static counters and tables of the two files.  Memory a message tells of is
  the end that owns it: a client's, or a region of the server, given out in the order of
  the requests (`Region`).
* The client (`rdma_client.c`): `ConnectToServer`, `OnAddrResolved` ... `OnConnection` are
  `connect_to_server` and the handlers of `client_on_event`; then `cfio_rdma_client_init`
  waits (`WaitAll`) and spins on `ready_mr_cnt` (`ClientReady`).  `Publish`, `IoDone` are the
  writes of `send.c`, `WaitFinal` to `OnDisconnected` is `cfio_rdma_client_final`.
* The server (`rdma_server.c`): `OnConnectRequest` and `Accept`, `OnEstablished` and
  `CountEstablished` are two handlers, each cut at the `wait_some` inside it; `ServerReady`
  ends `cfio_rdma_server_init`; `Visit` is one turn of `cfio_comm`, `ServerDisconnect` and
  `OnDisconnect` are `cfio_rdma_server_final`.
* Both: `GetCqEvent`, `PollSend`, `PollRecv`, `PollEmpty`, `Drained` are the loops on
  `poll_cq` with `on_completion`; the channel is armed when the first connection is built
  (`Armed`) and re-armed before each polling (`Rearmed`).
* External: the connection manager (`Manager`) and the NIC (`Nic`).  An event for the server
  comes at any time and in any order; one for a single client is put into its channel at once,
  since nobody else looks there.  Requests of a queue pair are carried out in order, those
  of different pairs in any order; a write is seen at its target before its completion.
  A message completes at both ends in one step.
* Reduced: an address and a route are resolved at once; a client publishes once, one read
  and one acknowledgement stand for a visit's (`Forwarding` has the traffic).  A client whose
  request is rejected dies (`die` in `client_on_event`), which ends an MPI job: the
  behaviour stops there.

### How `Map` corresponds to the code

* The behaviour is one `cfio_init`: `Init` chooses the client grid and the ratio,
  `TryFactor`, `LowDone`, `Partner`, `HighDone` are the two loops of `_get_factor` for one
  side and then the other, `Found`, `AdvanceX`, `AdvanceY`, `Exhausted` the walk of
  `_gen_server_x_and_y` along both lists, `Accept` and `Refuse` its end.
* The lookups (`cfio_map_get_server_of_client`, `_clients`, `_client_index_of_server`,
  `_client_num_of_server`) are operators over the state `Accept` leaves.
* `map.c:138-145`, which corrects a number of servers that was too large, cannot be
  reached: `cfio_init` starts exactly the number wanted (`cfio.c:82`).

### How `IoRequests` corresponds to the code

* A program is a sequence of calls that every client makes (`ProgramCalls`; the calls
  are collective, as in PnetCDF).  It is chosen while it runs, by the fastest client.  The
  data of a call is its position in the program, so that a mix-up of two calls shows.
* Client: `Create`, `DefDim`, `DefVar`, `PutAtt`, `Enddef`, `PutVara`, `Close` are the
  functions of `cfio.c` with the ids that `id.c` assigns and the message that `send.c` packs.
  `names[c]` is `assign_table`, with the entries of variables and of the file for their
  dimensions and attributes; ids of files count up and are never used again.
* Inquiries change nothing, so they are operators (`InqDimid` ... `InqVardimid`) that give
  what is returned and what is stored; `InquiriesRight` asks all of them and compares with the
  file that `Netcdf` promises if definitions end now, for files of which nothing was defined after
  their enddef.  The comparison is with what is promised, not with a server's state: the client
  answers before any server has decoded its calls, and that the servers keep the promise is
  `AsProgrammed`, in the same run.
* A message is a sequence of fields `<<width, value>>` (`Messages`), packed by `SendCreate` ...
  `SendPutVara` as in `send.c`; `Unpacked` is `decode` with the `cfio_recv_unpack_*` functions of
  `recv.c`, each with its own order of fields, and the number of bytes it has read.  Names
  have `NameSize` bytes, data is `CFIO_FLOAT` (the other types differ in the width of an
  element, on both sides alike) with one element, the position of the call.  A field read
  with another width than it was packed with gives a value no call has.
* Server: `Decode` is one turn of the loop that calls `decode`; the handlers are
  `IoCreate` ... `IoClose`.  `files[s]` is `map_table` (a file with its list of definitions,
  in which a variable has its attributes and the parts of every client), `requests[s]` is
  `io_table` (bitmaps by function code and ids; `Bitmap` has them as bytes, a byte being
  the set of its bits).
* A collective netCDF call splits its handler in two: the part before it, with `waiting[s]`
  set, and `CreateReturns`, `EnddefReturns`, `PutVaraReturns`, `CloseReturns`, which happen
  when all servers are in the same call.
* External, modelled as the code uses it: netCDF numbers files with the lowest free id and
  definitions from 1, and refuses a global attribute in data mode.
* Left out: argument checks of the client, failed `malloc`, the test of `ndims` against the
  variable's in `cfio_io_put_vara` (`io.c:1384-1390`; both come from the first definition of the
  variable, at the client and at the server), the values in a call except in `VarMerge`, and programs that redefine a file, close it in define mode,
  or whose processes make different calls.

### How `VarMerge` corresponds to the code

* `Extend` is one turn of the loop over `_update_start_and_count`, `Allocate` the `malloc`
  of the merged data (`Junk` is what it returned), `StartPart` to `EndPart` are
  `_put_var`, element by element, with `Carry` and `Advance` for the loop and the end of
  `_inc_src_index`.  `asked` is what a Fortran program passes and `Converted` what
  `cfio_put_vara_*_c_` makes of it: dimensions reversed, starts from 0.  Offsets count elements.  `Written` is the return to `cfio_io_put_vara`.

## Runs

Sizes are in units; the instances of `Forwarding` are of `MCForwarding`, those of
`IoRequests` of `MCIoRequests`.

| Run | Instance | Checks | Shows |
|---|---|---|---|
| `one_client` | 1 client, send buffer 9, region and receive buffer 8, messages of 2 and 4, chunks of 3, 5 messages, fair | `TypeOK`, `StreamInOrder`, `UntakenIntact`, `EndMarksUsed`, `Handover`, `PublicationAcked`, `CallReturns` | both buffers wrap more than once, the tail is skipped on both sides, the client waits for space in every way the code has, and no wait lasts for ever |
| `two_clients` | 2 clients, buffers 7 and 5, 3 messages each, fair | `CountsAgree`, `ListedApart`, `NothingLeft`, `ChannelSpec`, `Ends` | one client fills its receive buffer while the other has sent nothing; the path implements `MsgChannel`; clients and server finish |
| `fragments` | 1 client, send buffer 13, region 9, messages of 4, size field of 2, chunks of 2, draining above 1 request | `StreamInOrder`, `CopyOnlyRead` | a publication is larger than the region: parts split messages and size fields |
| `map_grids` | client grids up to 12 x 12, eight ratios | `TypeOK`, `Lookups`, `SearchExact` | a grid of servers is found exactly when divisors with the wanted product exist, and the lookups are inverse to each other |
| `io_spmd` | 2 servers with 2 clients each, 1 file, 1 variable, programs of 6 calls, fair | `TypeOK`, `RoundsClean`, `SameIds`, `DirectSpec`, `CallsHandled` | in any interleaving of clients and servers the netCDF calls are those of the program; servers do not wait for each other for ever |
| `io_files` | 1 server, 2 clients, 2 files (interchangeable: TLC takes them up to symmetry), a dimension and a variable, definitions allowed after enddef, 7 calls | `AsProgrammed`, `SameIds`, `InquiriesRight` | ids of several files never mix, definitions are applied in order with the dimensions of variables, refused ones leave no trace; a client answers every inquiry as the file will be, also for a variable defined again or a file after another one was closed |
| `io_misuse` | 1 server, 3 clients, data calls in define mode, definitions in data mode, a create that may fail, 6 calls | `BitsHaveParts`, `SizesAgree` | a full bitmap finds a part of every client even after errors; every message is as long as it announces and is read to its end |
| `connect` | 1 server, 2 clients, `MAX_CONCURRENT_REQS` 2, backlog 1, fair | `TypeOK`, `RequestsCounted`, `WakeUp`, `ReadyOnTime`, `Acquainted`, `QuietTearDown`, `Closed` | handlers that wait in the middle of the event loop, completions that arrive between two waits, clients that come in the other order than their indices, a rejected client, both orders of disconnection |
| `merge` | 3 dimensions, 2 parts, starts 0-1, counts 0-2, in the order of Fortran | `BoxTight`, `InBounds`, `MergedRight` | every placement of two boxes: no write outside the merged data, every element in its place |
| `exact_fill` | send buffer 8, messages of 4 | `EndMarksUsed` violated | `end_addr` is wrong when a message ends exactly at the end of the buffer |
| `empty_phase` | empty IO phases allowed, fair | `FinalizeReturns` violated | a publication of nothing is never acknowledged |
| `partial_drain` | more reads than `MAX_CONCURRENT_REQS` | `CopyOnlyRead` violated | the acknowledgement's completion is counted as a read's |

### Bounds, and why they are enough

`Forwarding`.  The buffers hold two to four messages, so every relation of `used`, `free`, `end` and the
end of the buffer that the code tests occurs (empty, full, wrapped, tail too short, tail
just long enough), and `MaxMsgs` lets the pointers pass the end of the buffer at least
once.  Chunks are smaller than messages, so that messages are split among requests.  Two
clients are enough for a slow one and a fast one, the only distinction the loop makes.
`MaxReqs` is 10 as in the code, or small where draining in the middle is the question.
`MaxMsgs` bounds the program, not the mechanism: the state of the path depends on the
messages in it, not on how many went before.  Messages are at most half of each buffer,
the limit of `cfio_msg_get_max_size` (`msg.c:60-61`), which the code computes and never
applies; `EmptyTakesHalf` proves that this bound is sufficient.  The constant
`AllowEmptyPhase` separates the programs whose IO phases all publish something from the
ones `empty_phase` is about.

In the passing runs the sizes keep a message from ending exactly at the end of the send
buffer (even sizes, odd buffer): with `exact_fill` the same properties fail.  They also
keep the requests of one visit below the limit at which `partial_drain` shows the counter
to be wrong, except in `fragments`, where draining happens in the middle of reads and the
acknowledgement is alone.

`Connection`.  Two clients give two connections that share the counter, the queue and the
channels, and that come in either order.  `MaxReqs` of 2 makes `wait_some` drain because of
many requests and because nothing has changed, inside the handlers and inside the loop, with
the numbers it has for ten.  `Backlog` of 1 lets the second client be accepted or rejected.
One publication takes each state machine to its last state, where it stays.

`Map`.  `MaxSide` is 12: sides with up to six divisors, squares and primes, and grids in
which the two lists end at different times.  The theorems hold for all sides.

`IoRequests`.  `MaxCalls` of 6 holds a whole life of a file with two data calls (create,
def_var, enddef, put_vara twice, close), 7 two files or a file with a dimension.  `MaxAhead`
bounds the messages of a client that wait: a server decodes one of every client in turn, so
that a client further ahead only adds messages no handler sees.  `Paths`, `DimNames`,
`VarNames` have one or two names: enough to define one twice, to use one wrongly, and to
reuse netCDF ids.  Two servers are enough for a collective call to wait, three clients for
a bitmap that is neither empty nor full nor one short of either.  `ByteBits` is 2: two
clients fill a byte exactly, three begin the next, as 8 and 9 do in the code; the theorem
`FullWhenAllNoted` is about any number.

`VarMerge`.  Three dimensions let an index run over once, twice and not at all; `Starts` and
`Counts` give every relation of two intervals on a side (equal, overlapping, inside, apart,
empty).

### Fairness

`Fairness` of `Forwarding` is weak fairness of: the server's loop as a whole (`cfio_comm` is
a thread that never sleeps except in `ibv_get_cq_event`); each NIC request (a reliable
connection delivers); each client's steps inside a call (it spins); and each application's
next call.  The last says that the program goes on, which `Ends`, `PublicationAcked` (a
client may wait for another client's messages) and `CallReturns` need; none of them assumes
anything about the order in which clients run.

`FairSpec` of `Connection` is weak fairness of the server's process, and of the clients, the
manager and the NIC taken together: each of their steps brings the set-up, the one
publication or the tear-down further, so that some step of theirs is always done as long as
there is one; the server's loop, which can go round without doing anything, cannot keep
the others from running.

`FairSpec` of `IoRequests` is weak fairness of each server's decoding and of the return of a
collective call that all servers have made.  Clients are not fair: `CallsHandled` is about
the calls that all of them have made.

## Findings

Each is the counterexample of a run.

* `buffer.h:65` - `end_addr` is taken before `free_addr` advances.  For a skipped tail
  that is right; for a message whose last field ends exactly at the end of the buffer it
  cuts that field off, and the server never reads it (`exact_fill`).
* `server.c:396-421` - an IO phase in which nothing was packed since the last publication
  is never acknowledged.  `cfio_finalize` publishes once more, so a program that ends with
  `cfio_io_end` and `cfio_finalize`, as the repository's README shows, waits for ever
  (`empty_phase`).
* `rdma_server.c:724` - every completion of a connection decrements the count of its
  outstanding reads, also the acknowledgement's (`partial_drain`).

The models also contain the following behaviours of the code.  The configurations named
are kept beside the others and have TLC show each of them:

* `server.c:250-256` - one visit posts as many reads as the publication has chunks, with a
  queue pair created for ten (`send_queue.cfg` refutes `PostsFit` of `MCForwarding`).
* `rdma_server.c:486` - the completion queue has ten entries for all connections, and
  completions stay in it between two waits: two clients with a limit of 2 leave more than 2
  of them (`cq_overrun.cfg` refutes `CqFits` of `Connection`).  What ibverbs really allocates
  is rounded up.
* `rdma_server.c:314` - while the server builds one connection it takes no other request, and
  clients beyond the backlog are rejected and end the job (`backlog.cfg` refutes
  `NoRejection` of `Connection`).  The code's backlog is 10.
* `io.c:748` - when `ncmpi_create` fails the file stays in `map_table` without a netCDF id,
  definitions of it are accepted, and the assertions of `_handle_def` (`io.c:485`,
  `io.c:509`) end the server at enddef (`create_fails.cfg` refutes `NoAbort` of
  `MCIoRequests`).
* `map.c:122` - `min_sub` is not updated while the nearest product is searched, so that
  `GEN_SERVER_ERROR` (`map.h:19`) accepts nothing but exact products: 3 x 3 clients at a
  ratio of 2 are refused, though 3 servers are within the tolerance of 4
  (`map_nearest.cfg` refutes `NearestAccepted` of `Map`).
* `io.c:1372-1395` - a `put_vara` that fails keeps its full bitmap and its parts, so the
  next one of the variable is written at its first message with the old parts of the
  other clients, and their new parts are never written (`early_put.cfg` refutes
  `AsProgrammed` of `MCIoRequests`).
* `io.c:1424` - `CFIO_BYTE` and `CFIO_CHAR` data, which `cfio_put_vara_text` sends, is merged
  and dropped (`text_var.cfg` refutes `AsProgrammed`).
* `io.c:617` - the box around the parts is written as a whole, also where no part covers it:
  with a count of 0 in a part, or with parts that leave a gap, uninitialised memory is
  written (`empty_part.cfg` refutes `OnlyParts` of `VarMerge`).

* `cfio.c:242` - a definition after enddef, or of a file whose create has failed, succeeds at the
  client and is answered by its inquiries, and is never in the file (`late_defs.cfg`
  refutes `AnswersAreFiled` of `MCIoRequests`, which is `InquiriesRight` without its condition; PnetCDF
  refuses the call).

Seen while the inquiries were translated, and in their definitions, without a run of their own
because the properties ask for names that may exist:

* `cfio.c:373` - `cfio_inq_att` passes on negative results only, and an unknown variable gives
  `CFIO_ID_HASH_GET_NULL`, which is 1 (`id.h:28`): it reports success.
* `cfio.c:387-389` - `cfio_inq_varndims` returns `CFIO_ERROR_NONE` whatever happened, and then
  leaves `*ndims` as it was.
* `cfio.c:831-844` - `cfio_inq_att_c_` does not turn Fortran's `NF90_GLOBAL` (0) into -1, as
  `cfio_put_att_c_` does (`cfio.c:632`); id 0 is the entry of the file itself, which has no
  `var` for `id.c:463` to follow.
* `cfio.c:853-858` - `cfio_inq_vardimid_c_` gives the dimensions in the order of C, while
  `cfio_def_var_c_` takes them in that of Fortran (`cfio.c:610-612`).

## Proofs

Checked by TLAPS for every value of the constants that the assumptions of the modules
allow: for `Forwarding` (`SizesAssumption`, `MsgsAssumption`) any number of clients, any
sizes of buffers, chunks and messages, with or without empty IO phases; for `Map` any sides
and ratios; for `Connection` (`ConnectionAssumption`) any number of clients, any limit of at
least 2 and any backlog; for `Messages` any
ids, any number of dimensions and elements, names of `NameSize` bytes; for `Bitmap` any
number of clients and bits in a byte; for `IoRequests` (`GroupsAssumption`, `ProgramAssumption`)
any servers, any groups of clients in which every client has one place, as `Lookups` of `Map`
says, and any programs and bounds; for `VarMerge` any number of dimensions and parts, any starts and counts.

* `SkipTailKeepsUsed`, `EmptyTakesHalf` (`Forwarding_proofs`) - arithmetic of the ring
  buffer, from the value of `free_buf_size` in both cases (`FreeBufSizeValue`).
* `TypeCorrect`, `CountsCorrect` (`Forwarding_proofs`) - `TypeOK` alone is not inductive:
  in `DecodeRound` the head of every list is taken, and a list is known to have one only
  because `msgCltCnt = ClientNum` and the count is right.  The inductive invariant is
  `TypeOK /\ CountsAgree`; the counting uses that a set of clients of cardinality
  `ClientNum` is all of them (`RoundHasAll`), that a listed message adds its client to the
  set (`CopyMsgCounts`), and that a round removes the clients with one message
  (`DecodeRoundCounts`).
* `HandoverSafe` - `Handover` needs `HandoverInv`: a posted publication carries signal 1 or
  11, a client that is not finishing never holds 11, the server's signal is the client's
  while it is set, an acknowledgement is due only while the client's signal is 1, and the
  server reads or copies only under signal 1.  Then a client that has stopped waiting holds
  the pointers alone (`ClientHolds`), and the server's clearing of the signal meets no
  write of the client.
* `ListedSafe` (`Forwarding_proofs`) - `ListedApart` compares any two messages of a list;
  inductive is `ReceiveInv`: every message lies in the used part of the receive buffer, and
  they follow each other in the order of the list.  Places are compared by `RingPos`, the
  distance from `used`, in which wrapping disappears; the `Space...` lemmas
  say what granting and freeing space do to it.  It needs no condition.
* `FlowCorrect` (`Forwarding_proofs`) - the invariant behind the properties of the stream, client by
  client (`FlowOf`): the untaken messages lie in the send buffer one behind the other, from
  where the server is to `free` (`Placed`, `Chained`), and hold what was packed (`Intact`);
  the published pointers end at the end of a message (`SomePublished`, `Pointers`); the posted
  reads cover exactly what is read and not there (`Covers`, `ReadsRight`), the region holds
  the stream from the first untaken message on (`RegionRight`), and the list what was taken
  (`TakenRight`).  One conjunct is about why the loop works at all: the region and the receive
  buffer have the same size, so a region that is full because more is to be read cannot be
  copied to its end, and the server does not acknowledge or start again before it is
  (`NotDrained`).  From it follow `StreamSafe`, `UntakenSafe`, `EndMarkSafe`,
  `NothingLeftBehind` and the refinement `PathIsChannel`, step by step.
  They have two hypotheses about the behaviour: no message ends exactly at the end of its
  buffer (`NeverFillsUp`), and a region is copied only when it is read (`CopyOnlyRead`).
  The runs `exact_fill` and `partial_drain` show that the code does not do without either.
* `CopyOnlyReadSafe` gives the second for `MaxReqs` of 10 as for any other, as long as
  `wait_some` never goes on with a part of the requests (`DrainsAll`: `rss` does not pass
  `MaxReqs`, or half of it is none).  `PathCorrect` puts everything together under `NeverFillsUp` and
  `DrainsAll`.  Both are conditions on an execution, not on the constants: the messages of
  `enddef` and `close` have 16 bytes and the buffer 200 MB, so that sizes alone do not
  exclude an exact fill, and more than ten requests depend on how many clients publish at
  once.  No theorem says that an execution of the program meets them.
* `RssCorrect` - `request_stack_size` is one counter for the reads and acknowledgements of all
  connections.  It equals the number of pairs of a client and one of its requests
  (`Slots`), a set, where TLC would add up a function; `CopyOnlyReadSafe` needs it, because
  the loop stops on the counter and the copy needs that one client has nothing left.
* `EndCorrect` - clients are decoded equally often (`Rounds`), a client sends no more than
  `MaxMsgs`, and what was sent is decoded before the client's done signal counts.

* `SearchCorrect`, `LookupsCorrect`, `MapTypeCorrect` (`Map_proofs`) - `SearchInv` is what
  makes `SearchExact` inductive: the list of a side holds divisors only (`FactorsDivide`), all
  of them up to the number tried (`LowInv`) and then the partners of those (`HighInv`), in
  ascending order (`SideDone`), and no pair of divisors the walk has passed has the wanted
  product.  `LookupsCorrect` needs no invariant of the search but that the server grid
  divides the client grid; `LookupsInverse` is the arithmetic.
* `WakeUpCorrect` (`Connection_proofs`) - `WakeUp` says that completions in a queue have
  somebody polling or an event in the channel.  It is not inductive: the NIC puts an event only
  into a channel that was armed, and arming happens in `build_context`, at different places for
  the two sides.  `WakeInv` adds that nothing is under way at an end whose process has armed
  nothing yet (`UpFirst`), which places in the code are behind the arming (`Behind`), and what
  a connection event says of it (`EventsKnown`).  That `GetCqEvent` arms before the queue is
  polled is what the steps of polling need.
* `TypeCorrect` (`Connection_proofs`) - types alone are not inductive here: an event is taken from the
  head of a queue that must not be empty, and an address is the region of a connection that must be
  built.  `LifeInv` says in which order the places of a client (`ClientAt`), the state of its connection
  (`link`), the ends that are built and the events in both queues go together (`ServerLink`), that an
  event of a kind comes once for a client (`OnceEach`), where the server waits for what
  (`ServerAt`), and that a connection is found in `conns` once (`Conns`).  `Alive` adds that
  nothing is posted on what is not built.
* `RequestsCountedCorrect`, `ReadyOnTimeCorrect`, `AcquaintedCorrect` (`Talk_proofs`) - `EndOk` counts,
  for one end, what it ever sent and received (`Sends`, `Recvs`) over all places where it may be:
  an end receives one message, posts something else only when it is ready, and has a message
  only if the other end has sent one.  The counters are cardinalities: of the requests of all
  ends of a process (`RssInv`), of its ready ends (`ReadyInv`), of the connections of which the
  establishment was counted (`EstInv`).  `MrInv` keeps the order: an end that has not told the
  other of its memory has asked for nothing else.  `ReadyOnTime` is about loops that poll
  nothing: an end whose first wait is over has nothing outstanding (`ClientStage`, `ServerStage`),
  and an end with nothing outstanding that has sent is ready, because the receive that it posted
  first is counted too.  `Acquainted` adds who has written the addresses (`FromInv`).
* `QuietTearDownCorrect` (`Talk_proofs`) - `Hand` is the publication of a client in eight stages
  (`Unpublished`, `Publishing`, `Published`, `Reading`, `Answering`, `Answered`, `Ending`, `Ended`), each
  with the signals of both sides, what is posted, and where the client and the server are.  A
  connection can only go down in the last one (`DownEnded`), in which nothing is posted at either
  end.  `Doneness` says that the server comes to its disconnections only when every client is
  done and its last wait has left nothing of any connection (`Returned`), so that what it frees
  is quiet.
* `CreateReadBack` ... `PutVaraReadBack` (`IoRequests_proofs`), one for each function - the fields of
  a message add up to its announced size, unpacking reads exactly that many bytes, and the
  handler gets the values packed.  Each gives the place of every field first; `CodesDiffer`
  and `Handled` say that `decode` calls the function that unpacks it.
* `SizesCorrect`, `TypeCorrect`, `PartsCorrect` (`IoRequests_proofs`) - the inductive invariant `IInv`
  says that there is a sequence `h` of tables, `h[k]` being the one every client has after `k` calls.
  `Followed` ties the clients to it: a client that has made `k` calls has the table `h[k]`, and its
  messages that wait are those of its last calls, as `Sent` gives them from `h` (`CallMade`,
  `ClientFollows`); with `SentRead`, which adds up the theorems on messages, that is `SizesAgree`.
  `Round` ties the servers to it: the clients of a server that come before its `turn` have had one
  message more taken than the others.  `ServerOk` says that `map_table` has the files and
  definitions of `h[Taken(s)]` (`Matches`), that every bit of a put_vara in `io_table` has a part
  (`PartsThere`), and what a collective call that the server is in may rely on.  `Matches` is
  needed because `cfio_io_put_vara` notes a client in the bitmap whether or not it finds the
  variable, and keeps the part only if it does: that it does is a matter of the ids that clients
  gave without asking.  Each handler has a lemma of its own (`CreateServed` ... `CloseServed`: the
  first message of a round does the work, a later one finds it done), and so have the returns of
  collective calls (`ReturnServes`).  Nothing is assumed of the calls but that they are legal
  (`ProgramCalls`, with `Misuse`), and creates may fail.
* `SameIdsCorrect`, `AbortsAfterFailure` (`IoRequests_proofs`) - the hypothesis is `CreateFails = FALSE`:
  `create_fails.cfg` shows that the code does not do without it.  `IInvOpen` adds to the sequence
  `h` of tables what the netCDF library knows (`Opens`): the files of a server are open in it under
  ids of their own, with the paths that the table of the clients gives them (`LibraryOk`), but
  for the one that is being created (`Creating`), which has no id before the collective call returns,
  and a server has no other files than those of the table but one that is being closed (`Closing`), by
  the call that it waits in or by the clients before `turn`.  `Keeps` is what every handler but that
  of create leaves alone; `NewNcIdFree` is the counting that makes the id of a new file one of its own.
  `SameIds` follows with `Matches`, and `NoAbort` because a file whose definitions end has an id by
  then.  Neither assumes that programs keep to the modes of a file.
* `RoundsCleanCorrect` (`IoRequests_proofs`) - two hypotheses, both about programs.  `Misuse = {}`: a
  put_vara in define mode or a definition in data mode ends with an error of the library, and
  leaves its request or its parts where they are (`early_put.cfg` shows what comes
  of it).  `CreateFails = FALSE` as before: a file that has no id takes no definitions.  `IInvClean` adds
  to `h` and `Opens` that the calls of a program go together (`Orderly`) and, for a server that is taking
  call `k` of its clients, what it holds (`Clean`): the request of that call and no other (`Pending`),
  parts of the variable of that call and no other (`PartsOf`), and files that are in define mode and
  have numbered their definitions as far as the calls before `k` say (`Modes`, `Flags`, `Numbers`);
  a client waits in nothing but that call (`CallWaits`).  Modes are needed because it depends on them
  whether a handler ends its call or returns early with the request left behind.
* `AsProgrammedCorrect`, `DirectImplemented` (`DirectCalls_proofs`) - the refinement of `IoRequests` to
  `DirectCalls`, and the invariant with the same content.  Three hypotheses: `Misuse = {}` and
  `CreateFails = FALSE` as before (`early_put.cfg` and `create_fails.cfg` run without them), and
  `TextVars = {}`, because data of that type is dropped by the switch that writes it (`text_var.cfg`).
  - What is owed: `Owed` is what is promised for the first `k` calls.  It grows by what the `k`-th call
    `Does` (`OwedNext`): a create, a put_vara and a close are one entry, an enddef is the header of its
    file with it, and the others are nothing yet, but for a global attribute, which is put at once.  A header
    collects the attributes of a variable behind its definition (`Blocks`), and names each definition
    once (`FirstBy`), wherever in the program these calls stand; after the enddef nothing can be
    added to it, when programs keep to the modes (`Orderly`).
  - What is kept: `Holds` says that the definitions a server has of a file are those of the calls
    so far, in their order, each the first of its name (`NamedBy`), and until the header is made also with
    their attributes and the ids of their dimensions (`RawBy`).  Then the ids are replaced by numbers of
    the library, given by counting the definitions of a kind (`NumberedIs`), and the library finds under
    them what the program named (`VarsHold`).  `InOrder` of `Netcdf` is the sequence of positions by
    their rank, which is what lets these places be compared (`RankUnique`, `InOrderAt`).
  - What is done: `Holding` adds the parts that `recv_data` has, each with the data of the call that is
    taken, and the log (`LogHolds`): a server that is done with call `k` of all its clients has done what
    is owed for `k` calls; before, and while it waits in a library call, what is owed for `k - 1`, but for a
    create, which is made with the first message of a round, and for an enddef, which puts the header
    before it waits.  `Writes` is all of it for the round that the server is in, and with `AllOpen` of
    `SameIdsCorrect` and `Clean` of `RoundsCleanCorrect` it is inductive (`IInvWrites`).  `Writing` and `Wrote` are
    the two sides of a handler, with a lemma for each handler (`CreateWritten` ... `CloseWritten`); the
    return of a collective call is one step of all servers (`ReturnWrites`).
  - What follows: a log is a beginning of what is promised (`WrittenStarts`), which is `AsProgrammed`.
    For the refinement, what was promised stays so when clients add calls, and a step makes a
    log longer or leaves it.
* `FullWhenAllNoted` (`IoRequests_proofs`) - `BitmapFull` looks at whole bytes and at the rest, `Noted`
  at one client at a time; the byte after the last whole one exists and holds no bit beyond
  the number of clients.  `NewNotesNobody` and `AddNotes` show that every bitmap a server makes
  is of this kind.
* `BoxCorrect` (`VarMerge_proofs`) - `BoxTight` speaks of the finished box; `BoxInv` adds that
  the box is tight around the parts looked at so far (`BoxSoFar`), and that its count, a
  difference of unsigned numbers, never falls below 0 (`ExtendedIsPart`).  A part is what the
  conversion from Fortran gives (`AskedIsPart`).
* `InBoundsCorrect` (`VarMerge_proofs`) - `CopyInv` gives both pointers as functions of `src_index`: `src` is its
  offset in the part, `dst` the offset in the box of the same place (`AtElement`), and while the
  index is carried, `dst` and the row that `sub` stands for make up what the index is short of
  (`BetweenElements`).  An offset is a sum over the dimensions, and one more step in a dimension
  adds a row (`SpreadMoved`); a row that is full is one step in the dimension before
  (`SpreadCarried`), and a place in an array has an offset in it (`SpreadBounded`).  That the loop of
  `_inc_src_index` does not run past the first dimension is `SpreadFull`: it would have to be
  at the end of the part, and the last element is copied without a step after it.
* `MergedRightCorrect` (`VarMerge_proofs`) - `DataInv` says, while the parts are copied, that the merged data has
  at every place the element of the last part that was copied there.  One copy changes one place,
  because two places have two offsets (`SpreadInjective`, by the uniqueness of quotient and
  remainder), in the box as in the part.  `OffsetTurned` compares the offsets of Fortran with those of the
  server: the one counts the dimensions from the last, the other from the first, of arrays that are
  turned around (`HornerSpread`).
  The two rest on induction over the dimensions, without the induction theorems of the library,
  whose parameter is an operator: `UpTo` (`Counting_proofs`) is about a set of numbers, and follows
  from `WFMin`; `FoldThere` proves by it that the functions exist which the folds of the community
  modules choose, and `ProductFolds`, `SpreadPrefix` and `OffsetFolds` that a fold over the dimensions is
  the last of its values over the first ones.

Only model-checked: `InquiriesRight` of `IoRequests`, and `AsProgrammed`, `DirectSpec`, `SameIds` and
`RoundsClean` of it outside the hypotheses of their theorems; the liveness properties, which are out of the prover's reach, as is everything
under fairness; and what runs refute.

## Plan

1. Finer steps: a torn write of the pointers, a failed completion.
2. Proofs for `IoRequests`: `InquiriesRight`, from what the tables of the clients have of the header
   of a file (`Holds` says it of the servers), and the case of misuse.

## Not modelled, and why

The netCDF library and the values in calls (external), the Fortran module `cfio.F90` (its
wrappers in `cfio.c` are in `VarMerge` as far as they convert), `quickhash.h` and `quicklist.h` (third-party containers), logging and timing,
and code no caller reaches (`_io_msgs`, `cfio_send_client_buf_free_old`, the `_old` variants
of `io.c`, the `SEND_ADDR` variant, the polling threads of both RDMA layers).
