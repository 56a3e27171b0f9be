------------------------------ MODULE Forwarding ------------------------------
(***************************************************************************)
(* The forwarding path of CFIO, from the clients of one server to the      *)
(* messages that server decodes:                                           *)
(*                                                                         *)
(*   client  packs each call as a message into a ring buffer (send.c),     *)
(*           publishes the buffer's pointers by an RDMA write of its       *)
(*           cfio_buf_addr_t and waits until the server writes it back;    *)
(*   server  (cfio_comm in server.c) visits its clients round robin, reads *)
(*           what a client published with RDMA reads into a region, copies *)
(*           whole messages to that client's list (recv.c), acknowledges   *)
(*           when nothing is left, and decodes one message of every client *)
(*           at a time;                                                    *)
(*   NIC     carries out posted requests asynchronously (rdma_server.c,    *)
(*           rdma_client.c).                                               *)
(*                                                                         *)
(* A unit stands for the bytes the properties need not tell apart.  The    *)
(* k-th unit of a client's n-th message is <<n, k>>; its first HdrSize     *)
(* units hold the message's size.                                          *)
(***************************************************************************)
EXTENDS CfioBuf, FiniteSets, Sequences

CONSTANTS
  ClientNum,        \* clients of this server (client_num)
  SendBufSize,      \* units of a client's buffer (SEND_BUF_SIZE)
  RegionSize,       \* RECV_BUF_SIZE / client_num: size of a read region and
                    \* of a receive buffer (server.c:505, recv.c:66)
  Msgs,             \* kinds of message: [size, last], last the size of the
                    \* field packed last
  HdrSize,          \* sizeof(size_t)
  ChunkSize,        \* transfer_msg_size_max of _read_data
  MaxReqs,          \* MAX_CONCURRENT_REQS
  MaxMsgs,          \* messages a client packs before cfio_finalize
  AllowEmptyPhase   \* may an IO phase end with nothing packed since the
                    \* last publication?

Clients == 0..(ClientNum - 1)

ASSUME SizesAssumption ==
  /\ ClientNum \in Nat \ {0}
  /\ SendBufSize \in Nat \ {0, 1}
  /\ RegionSize \in Nat \ {0, 1}
  /\ HdrSize \in Nat \ {0}
  /\ ChunkSize \in Nat \ {0}
  /\ MaxReqs \in Nat
  /\ MaxMsgs \in Nat
  /\ AllowEmptyPhase \in BOOLEAN

\* Half a buffer is what cfio_msg_get_max_size (msg.c:60-61) allows.
ASSUME MsgsAssumption ==
  /\ Msgs \subseteq [size : Nat, last : Nat \ {0}] /\ Msgs # {}
  /\ \A m \in Msgs : /\ HdrSize + m.last <= m.size
                     /\ 2 * m.size <= SendBufSize
                     /\ 2 * m.size <= RegionSize

VARIABLES
  (* client *)
  cpc,         \* where the client is: in the application or in a send.c call
  want,        \* the message the call is packing
  cbuf,        \* pointers of its buffer
  cmem,        \* bytes of its buffer
  caddr,       \* its cfio_buf_addr_t
  cposted,     \* its RDMA write of caddr is posted and not complete
  sent,        \* history: size and place of every message packed
  (* server *)
  spc,         \* where cfio_comm is
  clt,         \* client being visited
  saddr,       \* buf_addrs: the copy of each client's cfio_buf_addr_t
  readAddr,    \* read_addrs
  readDone,    \* read_dones
  region,      \* recv_bufs[c][0 .. local_lens[c]-1]
  msgCnts,     \* msg_cnts
  msgCltCnt,   \* msg_clt_cnt
  commDone,    \* comm_dones
  rbuf,        \* pointers of the receive buffer of each client
  list,        \* message list of each client
  delivered,   \* history: the messages decoded
  (* the server's RDMA requests *)
  reads,       \* RDMA reads posted and not carried out
  ackPosted,   \* RDMA write of saddr posted and not carried out
  cq,          \* completions not polled
  rest,        \* rest_reqs
  rss,         \* request_stack_size
  prevRss,     \* previous_rss
  prevChanged  \* previous_rss_changed

clientVars == <<cpc, want, cbuf, cmem, caddr, cposted, sent>>
readVars   == <<saddr, readAddr, readDone, region>>
listVars   == <<msgCnts, msgCltCnt, rbuf, list, delivered>>
waitVars   == <<prevRss, prevChanged>>
reqVars    == <<reads, ackPosted, cq, rest, rss>>
vars == <<clientVars, readVars, listVars, waitVars, reqVars, spc, clt, commDone>>

Stale == <<0, 0>>                         \* a byte no message was packed into
Unit  == Nat \X Nat
Image(n, size) == [k \in 1..size |-> <<n, k>>]

Addrs == [signal : {0, 1, 11}, used : 0..(SendBufSize - 1),
          free : 0..(SendBufSize - 1), end : 0..(SendBufSize - 1)]

\* cfio_rdma_addr_init followed by the setting of the signal
AddrInit(b, signal) ==
  [signal |-> signal, used |-> b.used, free |-> b.free, end |-> b.end]

Init ==
  /\ cpc  = [c \in Clients |-> "app"]
  /\ want \in [Clients -> {CHOOSE m \in Msgs : TRUE}]
  /\ cbuf = [c \in Clients |-> BufOpen]
  /\ cmem = [c \in Clients |-> [i \in 0..(SendBufSize - 1) |-> Stale]]
  /\ caddr = [c \in Clients |-> AddrInit(BufOpen, 0)]
  /\ cposted = [c \in Clients |-> FALSE]
  /\ sent = [c \in Clients |-> <<>>]
  /\ spc = "loop"
  /\ clt = 0
  /\ saddr = [c \in Clients |-> AddrInit(BufOpen, 0)]
  /\ readAddr = [c \in Clients |-> 0]
  /\ readDone = [c \in Clients |-> TRUE]
  /\ region = [c \in Clients |-> <<>>]
  /\ msgCnts = [c \in Clients |-> 0]
  /\ msgCltCnt = 0
  /\ commDone = [c \in Clients |-> FALSE]
  /\ rbuf = [c \in Clients |-> BufOpen]
  /\ list = [c \in Clients |-> <<>>]
  /\ delivered = [c \in Clients |-> <<>>]
  /\ reads = [c \in Clients |-> <<>>]
  /\ ackPosted = [c \in Clients |-> FALSE]
  /\ cq = [c \in Clients |-> 0]
  /\ rest = [c \in Clients |-> 0]
  /\ rss = 0
  /\ prevRss = 0
  /\ prevChanged = TRUE

(***************************************************************************)
(* Client: send.c over addr.c and rdma_client.c.                           *)
(***************************************************************************)
\* Mutated: the client does not wait for the acknowledgement.
ClientWait_never(c) == TRUE

\* cfio_rdma_addr_client_wait lets the client go on.
ClientWait(c) == caddr[c].signal # 1

\* cfio_rdma_client_wait: the client's request has completed.
RequestsDone(c) == ~cposted[c]

\* Space is reclaimed up to b.used and the pointers are published: addr_init,
\* clear_signal, write_addr.
Publish(c, b) ==
  /\ cbuf' = [cbuf EXCEPT ![c] = b]
  /\ caddr' = [caddr EXCEPT ![c] = AddrInit(b, 1)]
  /\ cposted' = [cposted EXCEPT ![c] = TRUE]

\* Mutated: what was packed after the publication is reclaimed too.
Reclaimed_all(c) == [cbuf[c] EXCEPT !.used = cbuf[c].free]

Reclaimed(c) == [cbuf[c] EXCEPT !.used = caddr[c].free]

\* Something was packed since the last publication.
Packed(c) == cbuf[c].free # caddr[c].free

\* The application makes a call that sends message m (cfio_send_create ...
\* cfio_send_close).
Call(c, m) ==
  /\ cpc[c] = "app" /\ Len(sent[c]) < MaxMsgs
  /\ want' = [want EXCEPT ![c] = m]
  /\ cpc' = [cpc EXCEPT ![c] = "ensure"]
  /\ UNCHANGED <<cbuf, cmem, caddr, cposted, sent>>

\* The test of both loops of ensure_free_space.
HasSpace(c) == FreeBufSize(SendBufSize, cbuf[c]) >= want[c].size

\* ensure_free_space gives up the tail of the buffer.
EnsureSkip(c) ==
  /\ cpc[c] = "ensure" /\ HasSpace(c)
  /\ want[c].size > LeftSpace(SendBufSize, cbuf[c])
  /\ cbuf' = [cbuf EXCEPT ![c] = SkipTail(SendBufSize, @, want[c].size)]
  /\ UNCHANGED <<cpc, want, cmem, caddr, cposted, sent>>

\* ensure_free_space returns and the message is packed field by field, the
\* last field by a cfio_buf_pack_data of its own.
Pack(c) ==
  LET N == SendBufSize
      b == cbuf[c]
      m == want[c]
      n == Len(sent[c]) + 1
  IN  /\ cpc[c] = "ensure" /\ HasSpace(c) /\ m.size <= LeftSpace(N, b)
      /\ cmem' = [cmem EXCEPT ![c] =
                    [i \in 0..(N - 1) |-> IF i >= b.free /\ i < b.free + m.size
                                          THEN <<n, i - b.free + 1>>
                                          ELSE cmem[c][i]]]
      /\ cbuf' = [cbuf EXCEPT ![c] =
                    UseBuf(N, UseBuf(N, b, m.size - m.last), m.last)]
      /\ sent' = [sent EXCEPT ![c] = Append(@, [size |-> m.size, at |-> b.free])]
      /\ cpc' = [cpc EXCEPT ![c] = "app"]
      /\ UNCHANGED <<want, caddr, cposted>>

\* cfio_send_client_buf_free, when an earlier publication was acknowledged
\* since it was last called: take the space it freed.
BufFreeReclaim(c) ==
  /\ cpc[c] = "ensure" /\ ~HasSpace(c) /\ ClientWait(c)
  /\ cbuf[c].used # caddr[c].free
  /\ cbuf' = [cbuf EXCEPT ![c] = Reclaimed(c)]
  /\ UNCHANGED <<cpc, want, cmem, caddr, cposted, sent>>

\* cfio_send_client_buf_free: publish what is packed so far ...
BufFreePublish(c) ==
  /\ cpc[c] = "ensure" /\ ~HasSpace(c) /\ ClientWait(c)
  /\ cbuf[c].used = caddr[c].free
  /\ Publish(c, cbuf[c])
  /\ cpc' = [cpc EXCEPT ![c] = "buf_free"]
  /\ UNCHANGED <<want, cmem, sent>>

\* ... and take its space when the server has acknowledged.
BufFreeReturn(c) ==
  /\ cpc[c] = "buf_free" /\ RequestsDone(c) /\ ClientWait(c)
  /\ cbuf' = [cbuf EXCEPT ![c] = Reclaimed(c)]
  /\ caddr' = [caddr EXCEPT ![c] = AddrInit(Reclaimed(c), 0)]
  /\ cpc' = [cpc EXCEPT ![c] = "ensure"]
  /\ UNCHANGED <<want, cmem, cposted, sent>>

\* cfio_send_io_end, called by cfio_io_end in the course of the program ...
IoEnd(c) ==
  /\ cpc[c] = "app" /\ ClientWait(c)
  /\ AllowEmptyPhase \/ (Packed(c) /\ Len(sent[c]) < MaxMsgs)
  /\ Publish(c, Reclaimed(c))
  /\ cpc' = [cpc EXCEPT ![c] = "io_end"]
  /\ UNCHANGED <<want, cmem, sent>>

IoEndReturn(c) ==
  /\ cpc[c] = "io_end" /\ RequestsDone(c)
  /\ cpc' = [cpc EXCEPT ![c] = "app"]
  /\ UNCHANGED <<want, cbuf, cmem, caddr, cposted, sent>>

\* ... and by cfio_finalize at its end.
Finalize(c) ==
  /\ cpc[c] = "app" /\ ClientWait(c)
  /\ Len(sent[c]) = MaxMsgs
  /\ AllowEmptyPhase \/ Packed(c)
  /\ Publish(c, Reclaimed(c))
  /\ cpc' = [cpc EXCEPT ![c] = "final_end"]
  /\ UNCHANGED <<want, cmem, sent>>

\* cfio_send_io_done
IoDone(c) ==
  /\ cpc[c] = "final_end" /\ RequestsDone(c) /\ ClientWait(c)
  /\ caddr' = [caddr EXCEPT ![c].signal = 11]
  /\ cposted' = [cposted EXCEPT ![c] = TRUE]
  /\ cpc' = [cpc EXCEPT ![c] = "final"]
  /\ UNCHANGED <<want, cbuf, cmem, sent>>

\* cfio_send_final, up to its disconnection
SendFinal(c) ==
  /\ cpc[c] = "final" /\ RequestsDone(c)
  /\ cpc' = [cpc EXCEPT ![c] = "done"]
  /\ UNCHANGED <<want, cbuf, cmem, caddr, cposted, sent>>

\* The steps of a call once it is made.
InCall(c) ==
  /\ \/ EnsureSkip(c) \/ Pack(c)
     \/ BufFreeReclaim(c) \/ BufFreePublish(c) \/ BufFreeReturn(c)
     \/ IoEndReturn(c) \/ IoDone(c) \/ SendFinal(c)
  /\ UNCHANGED <<readVars, listVars, waitVars, reqVars, spc, clt, commDone>>

\* The application's next call.
Application(c) ==
  /\ (\E m \in Msgs : Call(c, m)) \/ IoEnd(c) \/ Finalize(c)
  /\ UNCHANGED <<readVars, listVars, waitVars, reqVars, spc, clt, commDone>>

(***************************************************************************)
(* NIC: a posted request is carried out at any later time.                 *)
(***************************************************************************)
\* The client's write of its pointers reaches the server.
AddrLands(c) ==
  /\ cposted[c]
  /\ saddr' = [saddr EXCEPT ![c] = caddr[c]]
  /\ cposted' = [cposted EXCEPT ![c] = FALSE]
  /\ UNCHANGED <<cpc, want, cbuf, cmem, caddr, sent, readAddr, readDone, region,
                 listVars, waitVars, reqVars, spc, clt, commDone>>

\* The oldest RDMA read of client c's buffer: r.len units from offset r.from
\* there to offset r.to of the region.  The client registered its buffer only.
ReadLands(c) ==
  /\ reads[c] # <<>>
  /\ LET r == Head(reads[c])
         From(i) == r.from + i - 1 - r.to
     IN  region' = [region EXCEPT ![c] =
           [i \in 1..Len(region[c]) |->
              IF i - r.to \in 1..r.len /\ From(i) \in 0..(SendBufSize - 1)
              THEN cmem[c][From(i)]
              ELSE region[c][i]]]
  /\ reads' = [reads EXCEPT ![c] = Tail(@)]
  /\ cq' = [cq EXCEPT ![c] = @ + 1]
  /\ UNCHANGED <<clientVars, saddr, readAddr, readDone, listVars, waitVars,
                 ackPosted, rest, rss, spc, clt, commDone>>

\* The server's write of the pointers, its acknowledgement, reaches client c.
AckLands(c) ==
  /\ ackPosted[c]
  /\ caddr' = [caddr EXCEPT ![c] = saddr[c]]
  /\ ackPosted' = [ackPosted EXCEPT ![c] = FALSE]
  /\ cq' = [cq EXCEPT ![c] = @ + 1]
  /\ UNCHANGED <<cpc, want, cbuf, cmem, cposted, sent, readVars, listVars,
                 waitVars, reads, rest, rss, spc, clt, commDone>>

(***************************************************************************)
(* Server, completions: cfio_rdma_server_wait_some and what it calls.      *)
(***************************************************************************)
\* Mutated: the server leaves when its first client is done.
AllDone_first == \E c \in Clients : commDone[c]

AllDone == \A c \in Clients : commDone[c]

\* Mutated: wait_some only drains when there are too many requests.
UnchangedTwice_never == FALSE

\* Nothing changed since the last visit but one.
UnchangedTwice == ~prevChanged /\ prevRss = rss

\* The head of cfio_comm's loop and of wait_some, which goes to drain some
\* requests, or all of them, or none.
WaitSome ==
  /\ spc = "loop" /\ ~AllDone
  /\ \/ /\ rss > MaxReqs
        /\ spc' = "drain_some"
        /\ UNCHANGED waitVars
     \/ /\ rss <= MaxReqs /\ UnchangedTwice
        /\ spc' = "drain_all"
        /\ UNCHANGED waitVars
     \/ /\ rss <= MaxReqs /\ ~UnchangedTwice
        /\ spc' = "pick"
        /\ prevRss' = rss /\ prevChanged' = FALSE
  /\ UNCHANGED <<clientVars, readVars, listVars, reqVars, clt, commDone>>

\* poll_cq_one_time and on_completion: every completion of a connection
\* counts for its reads, the acknowledgement's too.
Poll(c) ==
  /\ spc \in {"drain_some", "drain_all"} /\ cq[c] > 0
  /\ cq' = [cq EXCEPT ![c] = @ - 1]
  /\ rest' = [rest EXCEPT ![c] = IF @ > 0 THEN @ - 1 ELSE @]
  /\ rss' = rss - 1
  /\ UNCHANGED <<clientVars, readVars, listVars, waitVars, reads, ackPosted,
                 spc, clt, commDone>>

\* The queue has been polled until it was empty and few enough are left.
Drained ==
  /\ \A c \in Clients : cq[c] = 0
  /\ \/ spc = "drain_some" /\ 2 * rss <= MaxReqs /\ prevRss' = rss
     \/ spc = "drain_all" /\ rss = 0 /\ prevRss' = 0
  /\ spc' = "pick"
  /\ prevChanged' = TRUE
  /\ UNCHANGED <<clientVars, readVars, listVars, reqVars, clt, commDone>>

(***************************************************************************)
(* Server, one visit of a client: the rest of cfio_comm's loop.            *)
(***************************************************************************)
RdmaBufExistMsg(c) == HdrSize <= Len(region[c])
RdmaBufEmpty(c) == region[c] = <<>>
RdmaBufFull(c) == Len(region[c]) >= RegionSize

\* Mutated: the region is copied without asking whether the reads are over.
ServerTest_always(c) == TRUE

ServerTest(c) == rest[c] = 0

\* The next client in turn that has not ended.
Turn(c) == IF c > clt THEN c - clt ELSE c - clt + ClientNum
IsNext(c) == /\ ~commDone[c]
             /\ \A d \in Clients : commDone[d] \/ Turn(c) <= Turn(d)

\* Mutated: the end signal, 11, is not looked for.
HasNews_one(c) == readDone[c] /\ RdmaBufEmpty(c) /\ saddr[c].signal = 1

\* Mutated: pointers count as new while what they cover is still in the region.
HasNews_again(c) == readDone[c] /\ saddr[c].signal # 0

\* The client has new pointers that nothing is being read for.
HasNews(c) == readDone[c] /\ RdmaBufEmpty(c) /\ saddr[c].signal # 0

PickClient(c) ==
  /\ spc = "pick" /\ IsNext(c)
  /\ clt' = c
  /\ \/ /\ HasNews(c) /\ saddr[c].signal = 1    \* a publication
        /\ readAddr' = [readAddr EXCEPT ![c] = saddr[c].used]
        /\ readDone' = [readDone EXCEPT ![c] = FALSE]
        /\ spc' = "read"
        /\ UNCHANGED commDone
     \/ /\ HasNews(c) /\ saddr[c].signal # 1    \* all its steps are over
        /\ commDone' = [commDone EXCEPT ![c] = TRUE]
        /\ spc' = "loop"
        /\ UNCHANGED <<readAddr, readDone>>
     \/ /\ ~HasNews(c)
        /\ spc' = "read"
        /\ UNCHANGED <<readAddr, readDone, commDone>>
  /\ UNCHANGED <<clientVars, saddr, region, listVars, waitVars, reqVars>>

Least(a, b) == IF a <= b THEN a ELSE b

\* Mutated: every request of a _read_data reads to the same place.
Chunks_sameTo(from, len, to) ==
  [i \in 1..((len + ChunkSize - 1) \div ChunkSize) |->
     [from |-> from + (i - 1) * ChunkSize, to |-> to,
      len  |-> Least(ChunkSize, len - (i - 1) * ChunkSize)]]

\* The requests of one _read_data, ChunkSize units each.
Chunks(from, len, to) ==
  [i \in 1..((len + ChunkSize - 1) \div ChunkSize) |->
     [from |-> from + (i - 1) * ChunkSize,
      to   |-> to + (i - 1) * ChunkSize,
      len  |-> Least(ChunkSize, len - (i - 1) * ChunkSize)]]

\* _read_data: read on up to free_addr, or to end_addr when the published
\* part wraps and its first piece is not read yet.
ReadData ==
  LET c     == clt
      a     == saddr[c]
      last  == a.used <= a.free \/ readAddr[c] <= a.free
      limit == IF last THEN a.free ELSE a.end
      len   == Least(limit - readAddr[c], RegionSize - Len(region[c]))
      next  == readAddr[c] + len
      ops   == Chunks(readAddr[c], len, Len(region[c]))
  IN  /\ spc = "read" /\ ~readDone[c] /\ ~RdmaBufFull(c)
      /\ readDone' = [readDone EXCEPT ![c] = last /\ next >= limit]
      /\ readAddr' = [readAddr EXCEPT ![c] =
                        IF ~last /\ next >= limit THEN 0 ELSE next]
      /\ region' = [region EXCEPT ![c] = @ \o [i \in 1..len |-> Stale]]
      /\ reads' = [reads EXCEPT ![c] = @ \o ops]
      /\ rest' = [rest EXCEPT ![c] = @ + Len(ops)]
      /\ rss' = rss + Len(ops)
      /\ spc' = "test"
      /\ UNCHANGED <<clientVars, saddr, listVars, waitVars, ackPosted, cq, clt,
                     commDone>>

SkipRead ==
  /\ spc = "read" /\ (readDone[clt] \/ RdmaBufFull(clt))
  /\ spc' = "test"
  /\ UNCHANGED <<clientVars, readVars, listVars, waitVars, reqVars, clt, commDone>>

TestRead ==
  /\ spc = "test"
  /\ spc' = IF RdmaBufExistMsg(clt) /\ ServerTest(clt) THEN "copy" ELSE "decode"
  /\ UNCHANGED <<clientVars, readVars, listVars, waitVars, reqVars, clt, commDone>>

\* The size at the head of the region.  In a region that is not at the head
\* of a message the number read is not a size; the server goes no further
\* there (StreamInOrder says it never gets there).
AtHeader(c) == /\ RdmaBufExistMsg(c)
               /\ \E n \in 1..Len(sent[c]) : region[c][1] = <<n, 1>>
MsgSize(c) == sent[c][region[c][1][1]].size

\* Mutated: the receive buffer is cleared whether or not it is empty.
SpaceFor_clear(c, size) == IsFreeSpaceEnough(RegionSize, BufClear(rbuf[c]), size)

\* cfio_recv_add_msg asks for space, after an empty buffer is cleared.
SpaceFor(c, size) ==
  IsFreeSpaceEnough(RegionSize,
                    IF BufIsEmpty(rbuf[c]) THEN BufClear(rbuf[c]) ELSE rbuf[c],
                    size)

\* Mutated: every message counts as its client's first.
CountMsg_all(c) == msgCltCnt + 1

\* msg_clt_cnt counts the clients that have a message.
CountMsg(c) == IF msgCnts[c] = 0 THEN msgCltCnt + 1 ELSE msgCltCnt

\* One turn of _copy_data_to_list's loop: cfio_recv_add_msg takes the message.
CopyMsg ==
  LET c     == clt
      size  == MsgSize(c)
      space == SpaceFor(c, size)
  IN  /\ spc = "copy" /\ AtHeader(c) /\ size <= Len(region[c]) /\ space.enough
      /\ list' = [list EXCEPT ![c] =
                    Append(@, [addr |-> space.buf.free, size |-> size,
                               data |-> SubSeq(region[c], 1, size)])]
      /\ rbuf' = [rbuf EXCEPT ![c] = UseBuf(RegionSize, space.buf, size)]
      /\ msgCnts' = [msgCnts EXCEPT ![c] = @ + 1]
      /\ msgCltCnt' = CountMsg(c)
      /\ region' = [region EXCEPT ![c] = SubSeq(@, size + 1, Len(@))]
      /\ UNCHANGED <<clientVars, saddr, readAddr, readDone, delivered, waitVars,
                     reqVars, spc, clt, commDone>>

\* The loop of _copy_data_to_list ends: no whole message is left, or there is
\* no space for it.
CopyEnds(c) ==
  \/ ~RdmaBufExistMsg(c) /\ UNCHANGED rbuf
  \/ AtHeader(c) /\ MsgSize(c) > Len(region[c]) /\ UNCHANGED rbuf
  \/ /\ AtHeader(c) /\ MsgSize(c) <= Len(region[c])
     /\ ~SpaceFor(c, MsgSize(c)).enough
     /\ rbuf' = [rbuf EXCEPT ![c] = SpaceFor(c, MsgSize(c)).buf]

\* Mutated: the acknowledgement does not wait until all is copied.
CopiedAll_read(c) == readDone[c]

\* All of the publication is copied.
CopiedAll(c) == RdmaBufEmpty(c) /\ readDone[c]

\* Then the server clears the signal and writes the pointers back.
Copied ==
  /\ spc = "copy" /\ CopyEnds(clt)
  /\ \/ /\ CopiedAll(clt)
        /\ saddr' = [saddr EXCEPT ![clt].signal = 0]
        /\ ackPosted' = [ackPosted EXCEPT ![clt] = TRUE]
        /\ rss' = rss + 1
     \/ /\ ~CopiedAll(clt)
        /\ UNCHANGED <<saddr, ackPosted, rss>>
  /\ spc' = "decode"
  /\ UNCHANGED <<clientVars, readAddr, readDone, region, msgCnts, msgCltCnt, list,
                 delivered, waitVars, reads, cq, rest, clt, commDone>>

\* One round of decoding: cfio_recv_get_first and decode for every client.
\* Unpacking takes used_addr from the start of the message to its end.
DecodeRound ==
  /\ spc = "decode" /\ msgCltCnt = ClientNum
  /\ delivered' = [c \in Clients |-> Append(delivered[c], Head(list[c]).data)]
  /\ list' = [c \in Clients |-> Tail(list[c])]
  /\ rbuf' = [c \in Clients |->
                FreeBuf(RegionSize, [rbuf[c] EXCEPT !.used = Head(list[c]).addr],
                        Head(list[c]).size)]
  /\ msgCnts' = [c \in Clients |-> msgCnts[c] - 1]
  /\ msgCltCnt' = msgCltCnt - Cardinality({c \in Clients : msgCnts[c] = 1})
  /\ UNCHANGED <<clientVars, readVars, waitVars, reqVars, spc, clt, commDone>>

Decoded ==
  /\ spc = "decode" /\ msgCltCnt # ClientNum
  /\ spc' = "loop"
  /\ UNCHANGED <<clientVars, readVars, listVars, waitVars, reqVars, clt, commDone>>

\* cfio_comm returns.
ServerExit ==
  /\ spc = "loop" /\ AllDone
  /\ spc' = "exit"
  /\ UNCHANGED <<clientVars, readVars, listVars, waitVars, reqVars, clt, commDone>>

Server ==
  \/ WaitSome \/ (\E c \in Clients : Poll(c)) \/ Drained
  \/ (\E c \in Clients : PickClient(c)) \/ ReadData \/ SkipRead \/ TestRead
  \/ CopyMsg \/ Copied \/ DecodeRound \/ Decoded \/ ServerExit

(***************************************************************************)
(* The system                                                              *)
(***************************************************************************)
Terminating == /\ spc = "exit" /\ \A c \in Clients : cpc[c] = "done"
               /\ UNCHANGED vars

Next ==
  \/ \E c \in Clients : \/ Application(c) \/ InCall(c)
                        \/ AddrLands(c) \/ ReadLands(c) \/ AckLands(c)
  \/ Server
  \/ Terminating

Spec == Init /\ [][Next]_vars

\* The server loops, the NIC carries out what is posted, a call that can go on
\* does, and the program reaches its next call.
Fairness ==
  /\ WF_vars(Server)
  /\ \A c \in Clients : /\ WF_vars(Application(c)) /\ WF_vars(InCall(c))
                        /\ WF_vars(AddrLands(c)) /\ WF_vars(ReadLands(c))
                        /\ WF_vars(AckLands(c))

FairSpec == Spec /\ Fairness

(***************************************************************************)
(* Properties                                                              *)
(***************************************************************************)
ReadOps == [from : Int, to : Int, len : Int]
Listed  == [addr : 0..(RegionSize - 1), size : 0..RegionSize, data : Seq(Unit)]

\* The type of every variable; the pointers of both kinds of buffer stay
\* inside their buffers.
TypeOK ==
  /\ cpc \in [Clients -> {"app", "ensure", "buf_free", "io_end", "final_end",
                          "final", "done"}]
  /\ want \in [Clients -> Msgs]
  /\ cbuf \in [Clients -> Buffers(SendBufSize)]
  /\ cmem \in [Clients -> [0..(SendBufSize - 1) -> Unit]]
  /\ caddr \in [Clients -> Addrs]
  /\ cposted \in [Clients -> BOOLEAN]
  /\ sent \in [Clients -> Seq([size : Nat, at : 0..(SendBufSize - 1)])]
  /\ spc \in {"loop", "drain_some", "drain_all", "pick", "read", "test", "copy",
              "decode", "exit"}
  /\ clt \in Clients
  /\ saddr \in [Clients -> Addrs]
  /\ readAddr \in [Clients -> Int]
  /\ readDone \in [Clients -> BOOLEAN]
  /\ region \in [Clients -> Seq(Unit)]
  /\ msgCnts \in [Clients -> Int]
  /\ msgCltCnt \in Int
  /\ commDone \in [Clients -> BOOLEAN]
  /\ rbuf \in [Clients -> Buffers(RegionSize)]
  /\ list \in [Clients -> Seq(Listed)]
  /\ delivered \in [Clients -> Seq(Seq(Unit))]
  /\ reads \in [Clients -> Seq(ReadOps)]
  /\ ackPosted \in [Clients -> BOOLEAN]
  /\ cq \in [Clients -> Nat]
  /\ rest \in [Clients -> Nat]
  /\ rss \in Int
  /\ prevRss \in Int
  /\ prevChanged \in BOOLEAN

\* The messages the server has taken from client c: decoded, then listed.
Taken(c) == delivered[c] \o [i \in 1..Len(list[c]) |-> list[c][i].data]

\* What the server takes from a client are the client's messages, whole, in
\* the order they were packed, none lost and none twice (send.c, server.c's
\* _read_data and _copy_data_to_list).
StreamInOrder ==
  \A c \in Clients : \A i \in 1..Len(Taken(c)) :
    i <= Len(sent[c]) /\ Taken(c)[i] = Image(i, sent[c][i].size)

\* A message stays intact in the client's buffer until the server has it in
\* its list: ensure_free_space never gives out its space before.
UntakenIntact ==
  \A c \in Clients : \A n \in (Len(Taken(c)) + 1)..Len(sent[c]) :
    \A k \in 1..sent[c][n].size : cmem[c][sent[c][n].at + k - 1] = <<n, k>>

\* While the used part of a client's buffer wraps, end_addr is where its first
\* piece ends (the comment of buffer.h:46): every message packed there ends at
\* or before it.
EndMarksUsed ==
  \A c \in Clients : cbuf[c].free < cbuf[c].used =>
    \A n \in (Len(Taken(c)) + 1)..Len(sent[c]) :
      sent[c][n].at >= cbuf[c].used =>
        sent[c][n].at + sent[c][n].size <= cbuf[c].end

\* The three places the right to write a cfio_buf_addr_t can be when the
\* client does not hold it.
AtNic(c)    == cposted[c]
AtServer(c) == saddr[c].signal # 0
AckDue(c)   == ackPosted[c]

\* The pointers have one writer at a time: a publication is never overwritten
\* before the server took it up, an acknowledgement never meets a newer
\* publication, and one that the client waits for is still on its way.
OneWriter ==
  \A c \in Clients :
    /\ ~(AtNic(c) /\ AtServer(c)) /\ ~(AtNic(c) /\ AckDue(c))
    /\ ~(AtServer(c) /\ AckDue(c))
    /\ caddr[c].signal = 1 => AtNic(c) \/ AtServer(c) \/ AckDue(c)

\* What a publication says is what the server uses until it acknowledges, so
\* that the space the client reclaims then is the space it published.
SamePointers ==
  \A c \in Clients : AtServer(c) \/ AckDue(c) =>
    /\ saddr[c].used = caddr[c].used /\ saddr[c].free = caddr[c].free
    /\ saddr[c].end = caddr[c].end

\* The handshake of addr.h over RDMA writes that overtake nothing but finish
\* at any time: both parts.
Handover == OneWriter /\ SamePointers

\* The inductive invariant behind Handover: where the signal of each copy can
\* be when the write of the other is due, and that the server reads and copies
\* only what a publication, signal 1, covers.
SignalAtClient(c) ==
  /\ cposted[c] => caddr[c].signal \in {1, 11}
  /\ cpc[c] \notin {"final", "done"} => caddr[c].signal # 11
SignalAtServer(c) ==
  /\ AtServer(c) => caddr[c].signal = saddr[c].signal
  /\ AckDue(c) => caddr[c].signal = 1
  /\ ~readDone[c] \/ region[c] # <<>> => saddr[c].signal = 1
HandoverInv ==
  /\ Handover
  /\ \A c \in Clients : SignalAtClient(c) /\ SignalAtServer(c)
  /\ spc = "copy" => saddr[clt].signal = 1

\* When _copy_data_to_list runs, every read of that client has been carried
\* out (the comments of server.c:397 and server.c:399).
CopyOnlyRead == spc = "copy" => reads[clt] = <<>>

\* Requests on the queue pair of client c whose completion is not polled.
Outstanding(c) == Len(reads[c]) + cq[c] + (IF ackPosted[c] THEN 1 ELSE 0)

\* max_send_wr of build_qp_attr
MaxSendWr == 10

\* Every ibv_post_send succeeds, as TEST_NZ (rdma_server.c:12) asserts: a queue
\* pair never holds more requests than were asked for it.
PostsFit == \A c \in Clients : Outstanding(c) <= MaxSendWr

\* msg_cnts and msg_clt_cnt agree with the lists, so that get_first always
\* finds a message for every client when a round is decoded.
CountsAgree ==
  /\ \A c \in Clients : msgCnts[c] = Len(list[c])
  /\ msgCltCnt = Cardinality({c \in Clients : list[c] # <<>>})

\* Listed messages lie in disjoint parts of their receive buffer, and the
\* assertion of cfio_recv_unpack_msg_size (recv.c:224) holds for the next one.
ListedApart ==
  \A c \in Clients :
    /\ list[c] # <<>> => CheckUsedAddr(rbuf[c], Head(list[c]).addr)
    /\ \A i, j \in 1..Len(list[c]) : i < j =>
         \/ list[c][i].addr + list[c][i].size <= list[c][j].addr
         \/ list[c][j].addr + list[c][j].size <= list[c][i].addr
    /\ \A i \in 1..Len(list[c]) :
         list[c][i].addr + list[c][i].size <= RegionSize

\* When the server leaves its loop every message has been decoded.
NothingLeft ==
  spc = "exit" => \A c \in Clients : Len(delivered[c]) = Len(sent[c])

\* What each client has packed so far, message by message.
AllSent ==
  [c \in Clients |-> [n \in 1..Len(sent[c]) |-> Image(n, sent[c][n].size)]]

\* What a message can be.
Payloads == {Image(n, m.size) : n \in 1..MaxMsgs, m \in Msgs}

\* The path implements the channel of MsgChannel.
Channel == INSTANCE MsgChannel WITH sent <- AllSent

\* Every step of the path is a step of the channel or leaves it as it is.
ChannelSpec == Channel!Spec

\* Every publication is acknowledged in the end.
PublicationAcked ==
  \A c \in Clients : caddr[c].signal = 1 ~> caddr[c].signal # 1

\* cfio_finalize returns once it is called.
FinalizeReturns ==
  \A c \in Clients : cpc[c] = "final_end" ~> cpc[c] = "done"

\* A call that packs a message gets its space.
CallReturns == \A c \in Clients : cpc[c] = "ensure" ~> cpc[c] = "app"

\* The program ends: every client has finished and so has the server.
Ends == <>(spc = "exit" /\ \A c \in Clients : cpc[c] = "done")
==============================================================================
