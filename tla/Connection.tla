------------------------------- MODULE Connection -------------------------------
(***************************************************************************)
(* The life of the connections between one server and its clients, as both *)
(* RDMA layers make it (rdma_server.c, rdma_client.c):                     *)
(*                                                                         *)
(*   set-up     the server sends its address, accepts a connection of each *)
(*              client, and both ends tell each other their memory;        *)
(*   use        reduced to one publication of each client, its             *)
(*              acknowledgement and the end signal (Forwarding has more);  *)
(*   tear-down  both ends disconnect and free what the connection used.    *)
(*                                                                         *)
(* A process has an event channel for its connections and a completion     *)
(* queue for their requests, and polls the queue only where the code waits.*)
(* The connection manager and the NIC are external.                        *)
(***************************************************************************)
EXTENDS Integers, Sequences, FiniteSets, SequencesExt

CONSTANTS
  ClientNum,   \* clients of this server (client_amt)
  MaxReqs,     \* MAX_CONCURRENT_REQS
  Backlog      \* of rdma_listen

(* A client is known by its index at the server. *)
Clients == 0..(ClientNum - 1)
Server  == ClientNum
Procs   == 0..ClientNum

(* Waiting until half of MaxReqs are left must leave room for the receive of *)
(* the connection that is being built.                                     *)
ASSUME ConnectionAssumption ==
  /\ ClientNum \in Nat \ {0}
  /\ MaxReqs \in Nat \ {0, 1}
  /\ Backlog \in Nat \ {0}

(* The two ends of every connection. *)
Ends == {"client", "server"} \X Clients

Owner(e) == IF e[1] = "server" THEN Server ELSE e[2]

EndsOf(p) == {e \in Ends : Owner(e) = p}

Other(e) == <<IF e[1] = "server" THEN "client" ELSE "server", e[2]>>

VARIABLES
  (* processes *)
  pc,           \* where each process is
  back,         \* where it goes when it stops waiting for completions
  goal,         \* how many requests may then be left
  polling,      \* it has taken a completion event and polls the queue
  rss,          \* request_stack_size
  readyCnt,     \* ready_mr_cnt
  conns,        \* server: rdma_conns, in the order the requests came
  ordered,      \* server: ordered_conns
  clt,          \* server: the connection it is working on
  estCnt,       \* server: established_cnt
  disCnt,       \* server: disconn_cnt
  prevRss,      \* server: previous_rss
  prevChanged,  \* server: previous_rss_changed
  rest,         \* server: rest_reqs
  held,         \* server: data of a client is in its region, or will be
  (* ends of connections: rdma_conn_t *)
  life,         \* not built, built or freed
  sendState,    \* SS_INIT, SS_MR_SENT, SS_RDMA_SENDING
  recvState,    \* RS_INIT, RS_MR_RECV, RS_RDMA_RECVING
  recvMsg,      \* recv_msg
  peer,         \* peer_data_mr and peer_addr_mr
  (* what is published *)
  saddr,        \* addr_regions of the server: signal, and who wrote it
  caddr,        \* signal of the address of each client
  done,         \* server: comm_dones
  (* connection manager *)
  link,         \* how far the connection has come
  events,       \* event channel of each process
  (* NIC *)
  recvs,        \* receives posted at an end
  posted,       \* requests posted and not carried out
  flying,       \* writes carried out whose completion is to come
  cqSend,       \* completions of requests in the queue
  cqRecv,       \* completions of receives in the queue
  notify        \* completion channel: armed, an event in it, or neither

waitVars  == <<prevRss, prevChanged>>
countVars == <<estCnt, disCnt>>
pollVars  == <<back, goal, polling>>
connVars  == <<conns, ordered, life, sendState, recvState, recvMsg, peer, readyCnt, rest>>
addrVars  == <<saddr, caddr, held, done>>
cmVars    == <<link, events>>
nicVars   == <<recvs, posted, flying, cqSend, cqRecv, notify>>
vars == <<pc, rss, clt, waitVars, countVars, pollVars, connVars, addrVars, cmVars, nicVars>>

(* Memory a process has registered: a client's, or a region of the server. *)
None == <<"none", 0>>
Memory == {"none", "client", "server"} \X Clients

(* data_regions and addr_regions are given out in the order of conns. *)
Region(c) == CHOOSE r \in Clients : r + 1 \in DOMAIN conns /\ conns[r + 1] = c

MemoryOf(e) == IF e[1] = "server" THEN <<"server", Region(e[2])>> ELSE e

Init ==
  /\ pc = [p \in Procs |-> IF p = Server THEN "tell" ELSE "start"]
  /\ back = [p \in Procs |-> "none"]
  /\ goal = [p \in Procs |-> 0]
  /\ polling = [p \in Procs |-> FALSE]
  /\ rss = [p \in Procs |-> 0]
  /\ readyCnt = [p \in Procs |-> 0]
  /\ conns = << >>
  /\ ordered = [i \in Clients |-> ClientNum]
  /\ clt = 0
  /\ estCnt = 0
  /\ disCnt = 0
  /\ prevRss = 0
  /\ prevChanged = TRUE
  /\ rest = [i \in Clients |-> 0]
  /\ held = [i \in Clients |-> FALSE]
  /\ life = [e \in Ends |-> "none"]
  /\ sendState = [e \in Ends |-> 0]
  /\ recvState = [e \in Ends |-> 0]
  /\ recvMsg = [e \in Ends |-> None]
  /\ peer = [e \in Ends |-> None]
  /\ saddr = [r \in Clients |-> [signal |-> 0, from |-> None]]
  /\ caddr = [c \in Clients |-> 0]
  /\ done = [c \in Clients |-> FALSE]
  /\ link = [c \in Clients |-> "none"]
  /\ events = [p \in Procs |-> << >>]
  /\ recvs = [e \in Ends |-> 0]
  /\ posted = [e \in Ends |-> << >>]
  /\ flying = [e \in Ends |-> 0]
  /\ cqSend = [e \in Ends |-> 0]
  /\ cqRecv = [e \in Ends |-> 0]
  /\ notify = [p \in Procs |-> "none"]

-------------------------------------------------------------------------------
(* Requests *)

\* Mutated: the receive is not counted.
PostReceive_uncounted(e) == /\ recvs' = [recvs EXCEPT ![e] = @ + 1]
                            /\ UNCHANGED rss

(* post_receives *)
PostReceive(e) ==
  /\ recvs' = [recvs EXCEPT ![e] = @ + 1]
  /\ rss' = [rss EXCEPT ![Owner(e)] = @ + 1]

(* send_message and the two write_addr: a request on the queue pair of e.   *)
Post(e, op, mem) ==
  /\ posted' = [posted EXCEPT ![e] = Append(@, [op |-> op, mem |-> mem])]
  /\ rss' = [rss EXCEPT ![Owner(e)] = @ + 1]

(* cfio_rdma_client_wait and cfio_rdma_server_wait_all, after which p goes   *)
(* on at next.                                                             *)
WaitAll(p, next) ==
  /\ pc' = [pc EXCEPT ![p] = "wait"]
  /\ goal' = [goal EXCEPT ![p] = 0]
  /\ back' = [back EXCEPT ![p] = next]
  /\ UNCHANGED polling

\* Mutated: a change of the number of requests is not looked for.
UnchangedTwice_any(n) == ~prevChanged

UnchangedTwice(n) == ~prevChanged /\ prevRss = n

(* cfio_rdma_server_wait_some with n requests, after which the server goes   *)
(* on at next.                                                             *)
WaitSome(n, next) ==
  LET many  == n > MaxReqs
      drain == many \/ UnchangedTwice(n)
  IN  /\ pc' = [pc EXCEPT ![Server] = IF drain THEN "drain" ELSE next]
      /\ goal' = [goal EXCEPT ![Server] = IF many THEN MaxReqs \div 2 ELSE 0]
      /\ back' = [back EXCEPT ![Server] = next]
      /\ prevRss' = IF drain THEN prevRss ELSE n
      /\ prevChanged' = (drain /\ prevChanged)
      /\ UNCHANGED polling

(* Loops that take completions. *)
Waiting(p) == pc[p] \in {"wait", "drain"}

HasCompletions(p) == \E e \in Ends : Owner(e) = p /\ cqSend[e] + cqRecv[e] > 0

\* Mutated: the next event is not asked for.
Rearmed_never == "none"

Rearmed == "armed"

(* The loop is not over: the process sleeps in ibv_get_cq_event until there  *)
(* is an event, and asks for the next one before it polls the queue.       *)
GetCqEvent(p) ==
  /\ Waiting(p) /\ ~polling[p] /\ rss[p] > goal[p] /\ notify[p] = "event"
  /\ notify' = [notify EXCEPT ![p] = Rearmed]
  /\ polling' = [polling EXCEPT ![p] = TRUE]
  /\ UNCHANGED <<pc, rss, clt, waitVars, countVars, back, goal, connVars, addrVars, cmVars,
                 recvs, posted, flying, cqSend, cqRecv>>

PollEmpty(p) ==
  /\ polling[p] /\ ~HasCompletions(p) /\ rss[p] > goal[p]
  /\ polling' = [polling EXCEPT ![p] = FALSE]
  /\ UNCHANGED <<pc, rss, clt, waitVars, countVars, back, goal, connVars, addrVars, cmVars,
                 nicVars>>

(* The loop is over.  wait_some remembers what it has left. *)
Drained(p) ==
  /\ Waiting(p) /\ rss[p] <= goal[p] /\ (polling[p] => ~HasCompletions(p))
  /\ pc' = [pc EXCEPT ![p] = back[p]]
  /\ polling' = [polling EXCEPT ![p] = FALSE]
  /\ IF pc[p] = "drain" THEN prevRss' = rss[p] /\ prevChanged' = TRUE
                        ELSE UNCHANGED waitVars
  /\ UNCHANGED <<rss, clt, countVars, back, goal, connVars, addrVars, cmVars, nicVars>>

\* Mutated: it counts on.
Advanced_on(state) == state + 1

(* A state machine of a connection counts up to the RDMA state. *)
Advanced(state) == IF state # 2 THEN state + 1 ELSE state

\* Mutated: only the client's message is looked at.
NowReady_received(s, r) == r = 1

(* Both messages with memory regions are through, and nothing after them.   *)
NowReady(s, r) == s = 1 /\ r = 1

\* Mutated: connections are put in the order they were made.
IndexOf_arrival(e) == Region(e[2])

(* cfio_map_get_client_index_of_server of the rank in the message. *)
IndexOf(e) == recvMsg[e][2]

(* on_completion of a request or of a receive of end e. *)
OnCompletion(e, s, r) ==
  /\ sendState' = [sendState EXCEPT ![e] = s]
  /\ recvState' = [recvState EXCEPT ![e] = r]
  /\ readyCnt' = [readyCnt EXCEPT ![Owner(e)] = IF NowReady(s, r) THEN @ + 1 ELSE @]
  /\ rss' = [rss EXCEPT ![Owner(e)] = @ - 1]
  /\ rest' = [i \in Clients |-> IF Owner(e) = Server /\ ordered[i] = e[2] /\ rest[i] > 0
                                   THEN rest[i] - 1 ELSE rest[i]]

PollSend(e) ==
  /\ polling[Owner(e)] /\ cqSend[e] > 0
  /\ cqSend' = [cqSend EXCEPT ![e] = @ - 1]
  /\ OnCompletion(e, Advanced(sendState[e]), recvState[e])
  /\ UNCHANGED <<pc, clt, waitVars, countVars, pollVars, conns, ordered, life, recvMsg, peer,
                 addrVars, cmVars, recvs, posted, flying, cqRecv, notify>>

PollRecv(e) ==
  /\ polling[Owner(e)] /\ cqRecv[e] > 0
  /\ cqRecv' = [cqRecv EXCEPT ![e] = @ - 1]
  /\ peer' = [peer EXCEPT ![e] = recvMsg[e]]
  /\ ordered' = IF e[1] = "server" THEN [ordered EXCEPT ![IndexOf(e)] = e[2]] ELSE ordered
  /\ OnCompletion(e, sendState[e], Advanced(recvState[e]))
  /\ UNCHANGED <<pc, clt, waitVars, countVars, pollVars, conns, life, recvMsg, addrVars, cmVars,
                 recvs, posted, flying, cqSend, notify>>

Polls(p) ==
  \/ GetCqEvent(p) \/ PollEmpty(p) \/ Drained(p)
  \/ \E e \in Ends : Owner(e) = p /\ (PollSend(e) \/ PollRecv(e))

-------------------------------------------------------------------------------
(* Client *)

(* The next event in p's channel is of that type. *)
NextEvent(p, type) == events[p] # << >> /\ Head(events[p]).type = type

Took(p) == [events EXCEPT ![p] = Tail(@)]

Event(type, c) == [type |-> type, clt |-> c]

(* build_context arms the completion channel. *)
Armed(p) == notify' = [notify EXCEPT ![p] = IF @ = "none" THEN "armed" ELSE @]

(* connect_to_server, with the address the server has sent.  An address and  *)
(* a route are resolved at once: the client does nothing but wait for them. *)
ConnectToServer(c) ==
  /\ pc[c] = "start" /\ pc[Server] # "tell"
  /\ events' = [events EXCEPT ![c] = Append(@, Event("ADDR_RESOLVED", c))]
  /\ pc' = [pc EXCEPT ![c] = "events"]
  /\ UNCHANGED <<rss, clt, waitVars, countVars, pollVars, connVars, addrVars, link, nicVars>>

OnAddrResolved(c) ==
  /\ pc[c] = "events" /\ NextEvent(c, "ADDR_RESOLVED")
  /\ events' = [events EXCEPT ![c] = Append(Tail(@), Event("ROUTE_RESOLVED", c))]
  /\ life' = [life EXCEPT ![<<"client", c>>] = "built"]
  /\ Armed(c)
  /\ PostReceive(<<"client", c>>)
  /\ UNCHANGED <<pc, clt, waitVars, countVars, pollVars, conns, ordered, sendState, recvState,
                 recvMsg, peer, readyCnt, rest, addrVars, link, posted, flying, cqSend, cqRecv>>

OnRouteResolved(c) ==
  /\ pc[c] = "events" /\ NextEvent(c, "ROUTE_RESOLVED")
  /\ events' = Took(c)
  /\ link' = [link EXCEPT ![c] = "request"]
  /\ UNCHANGED <<pc, rss, clt, waitVars, countVars, pollVars, connVars, addrVars, nicVars>>

(* client_on_connection, then cfio_rdma_client_init waits. *)
OnConnection(c) ==
  /\ pc[c] = "events" /\ NextEvent(c, "ESTABLISHED")
  /\ events' = Took(c)
  /\ link' = [link EXCEPT ![c] = "use"]
  /\ Post(<<"client", c>>, "mr", MemoryOf(<<"client", c>>))
  /\ WaitAll(c, "ready")
  /\ UNCHANGED <<clt, waitVars, countVars, connVars, addrVars, recvs, flying, cqSend, cqRecv,
                 notify>>

(* Any other event ends the process, and with it the job. *)
OnUnknownEvent(c) ==
  /\ pc[c] = "events" /\ NextEvent(c, "REJECTED")
  /\ events' = Took(c)
  /\ pc' = [pc EXCEPT ![c] = "dead"]
  /\ UNCHANGED <<rss, clt, waitVars, countVars, pollVars, connVars, addrVars, link, nicVars>>

(* The last wait of cfio_rdma_client_init polls nothing. *)
ClientReady(c) ==
  /\ pc[c] = "ready" /\ readyCnt[c] # 0
  /\ pc' = [pc EXCEPT ![c] = "run"]
  /\ UNCHANGED <<rss, clt, waitVars, countVars, pollVars, connVars, addrVars, cmVars, nicVars>>

(* cfio_send_io_end: the client publishes. *)
Publish(c) ==
  /\ pc[c] = "run"
  /\ caddr' = [caddr EXCEPT ![c] = 1]
  /\ Post(<<"client", c>>, "write", peer[<<"client", c>>])
  /\ WaitAll(c, "published")
  /\ UNCHANGED <<clt, waitVars, countVars, connVars, saddr, held, done, cmVars, recvs, flying,
                 cqSend, cqRecv, notify>>

\* Mutated: the connection is given up without waiting.
WaitFinal_not(c) == pc' = [pc EXCEPT ![c] = "disconnect"] /\ UNCHANGED pollVars

(* The wait at the head of cfio_rdma_client_final. *)
WaitFinal(c) == WaitAll(c, "disconnect")

(* cfio_send_io_done, when the publication is acknowledged, and the head of  *)
(* cfio_rdma_client_final.                                                 *)
IoDone(c) ==
  /\ pc[c] = "published" /\ caddr[c] # 1
  /\ caddr' = [caddr EXCEPT ![c] = 11]
  /\ Post(<<"client", c>>, "write", peer[<<"client", c>>])
  /\ WaitFinal(c)
  /\ UNCHANGED <<clt, waitVars, countVars, connVars, saddr, held, done, cmVars, recvs, flying,
                 cqSend, cqRecv, notify>>

(* rdma_disconnect.  The first of both ends takes the connection down, and    *)
(* both will be told.                                                      *)
Disconnect(c) ==
  IF link[c] = "up"
    THEN /\ link' = [link EXCEPT ![c] = "down"]
         /\ events' = [p \in Procs |-> IF p \in {c, Server}
                         THEN Append(events[p], Event("DISCONNECTED", c)) ELSE events[p]]
    ELSE UNCHANGED cmVars

ClientDisconnect(c) ==
  /\ pc[c] = "disconnect"
  /\ Disconnect(c)
  /\ pc' = [pc EXCEPT ![c] = "events"]
  /\ UNCHANGED <<rss, clt, waitVars, countVars, pollVars, connVars, addrVars, nicVars>>

(* client_on_disconnect, the end of cfio_rdma_client_final. *)
OnDisconnected(c) ==
  /\ pc[c] = "events" /\ NextEvent(c, "DISCONNECTED")
  /\ events' = Took(c)
  /\ life' = [life EXCEPT ![<<"client", c>>] = "freed"]
  /\ pc' = [pc EXCEPT ![c] = "gone"]
  /\ UNCHANGED <<rss, clt, waitVars, countVars, pollVars, conns, ordered, sendState, recvState,
                 recvMsg, peer, readyCnt, rest, addrVars, link, nicVars>>

Client(c) ==
  \/ ConnectToServer(c) \/ OnAddrResolved(c) \/ OnRouteResolved(c) \/ OnConnection(c)
  \/ OnUnknownEvent(c) \/ ClientReady(c) \/ Publish(c) \/ IoDone(c)
  \/ ClientDisconnect(c) \/ OnDisconnected(c) \/ Polls(c)

-------------------------------------------------------------------------------
(* Server *)

(* connect_to_clients: every client is sent the address. *)
TellAddress ==
  /\ pc[Server] = "tell"
  /\ pc' = [pc EXCEPT ![Server] = "events"]
  /\ UNCHANGED <<rss, clt, waitVars, countVars, pollVars, connVars, addrVars, cmVars, nicVars>>

(* server_on_connect_request as far as build_connection ... *)
OnConnectRequest ==
  LET c == Head(events[Server]).clt
  IN  /\ pc[Server] = "events" /\ NextEvent(Server, "CONNECT_REQUEST")
      /\ events' = Took(Server)
      /\ clt' = c
      /\ conns' = Append(conns, c)
      /\ life' = [life EXCEPT ![<<"server", c>>] = "built"]
      /\ Armed(Server)
      /\ PostReceive(<<"server", c>>)
      /\ WaitSome(rss[Server] + 1, "accept")
      /\ UNCHANGED <<countVars, ordered, sendState, recvState, recvMsg, peer, readyCnt, rest, addrVars,
                     link, posted, flying, cqSend, cqRecv>>

(* ... and rdma_accept. *)
Accept ==
  /\ pc[Server] = "accept"
  /\ link' = [link EXCEPT ![clt] = "accepted"]
  /\ events' = [events EXCEPT ![clt] = Append(@, Event("ESTABLISHED", clt))]
  /\ pc' = [pc EXCEPT ![Server] = "events"]
  /\ UNCHANGED <<rss, clt, waitVars, countVars, pollVars, connVars, addrVars, nicVars>>

(* server_on_connection as far as send_mr ... *)
OnEstablished ==
  LET c == Head(events[Server]).clt
  IN  /\ pc[Server] = "events" /\ NextEvent(Server, "ESTABLISHED")
      /\ events' = Took(Server)
      /\ clt' = c
      /\ Post(<<"server", c>>, "mr", MemoryOf(<<"server", c>>))
      /\ WaitSome(rss[Server] + 1, "count")
      /\ UNCHANGED <<countVars, connVars, addrVars, link, recvs, flying, cqSend, cqRecv,
                     notify>>

(* ... and the counting.  After the last, cfio_rdma_server_init waits. *)
CountEstablished ==
  /\ pc[Server] = "count"
  /\ estCnt' = estCnt + 1
  /\ IF estCnt' = ClientNum
       THEN WaitAll(Server, "ready")
       ELSE pc' = [pc EXCEPT ![Server] = "events"] /\ UNCHANGED pollVars
  /\ UNCHANGED <<rss, clt, waitVars, disCnt, connVars, addrVars, cmVars, nicVars>>

(* cfio_comm's loop after a visit of client i with n requests: wait_some     *)
(* before the next one.  After the last client is done,                     *)
(* cfio_rdma_server_final waits.                                            *)
NextTurn(i, n, over) ==
  IF \A c \in Clients : over[c]
    THEN clt' = 0 /\ WaitAll(Server, "disconnect") /\ UNCHANGED waitVars
    ELSE clt' = i /\ WaitSome(n, "visit")

(* The last wait of cfio_rdma_server_init polls nothing either. *)
ServerReady ==
  /\ pc[Server] = "ready" /\ readyCnt[Server] = ClientNum
  /\ NextTurn(0, rss[Server], done)
  /\ UNCHANGED <<rss, countVars, connVars, addrVars, cmVars, nicVars>>

Turn(i) == IF i > clt THEN i - clt ELSE i - clt + ClientNum

IsNext(i) == ~done[i] /\ \A j \in Clients : done[j] \/ Turn(i) <= Turn(j)

(* cfio_rdma_server_get_addr *)
AddrAt(i) == Region(ordered[i])

Visits(i) ==
  /\ pc[Server] = "visit" /\ IsNext(i)
  /\ UNCHANGED <<countVars, conns, ordered, life, sendState, recvState, recvMsg, peer, readyCnt,
                 caddr, cmVars, recvs, flying, cqSend, cqRecv, notify>>

(* A publication: cfio_rdma_server_read_data. *)
VisitReads(i) ==
  /\ Visits(i)
  /\ ~held[i] /\ saddr[AddrAt(i)].signal = 1
  /\ held' = [held EXCEPT ![i] = TRUE]
  /\ rest' = [rest EXCEPT ![i] = @ + 1]
  /\ Post(<<"server", ordered[i]>>, "read", peer[<<"server", ordered[i]>>])
  /\ NextTurn(i, rss[Server] + 1, done)
  /\ UNCHANGED <<saddr, done>>

(* Its data is here (cfio_rdma_server_test) and copied: write_addr. *)
VisitAcks(i) ==
  /\ Visits(i)
  /\ held[i] /\ rest[i] = 0
  /\ held' = [held EXCEPT ![i] = FALSE]
  /\ saddr' = [saddr EXCEPT ![AddrAt(i)].signal = 0]
  /\ Post(<<"server", ordered[i]>>, "write", peer[<<"server", ordered[i]>>])
  /\ NextTurn(i, rss[Server] + 1, done)
  /\ UNCHANGED <<rest, done>>

(* The client is done. *)
VisitEnds(i) ==
  /\ Visits(i)
  /\ ~held[i] /\ saddr[AddrAt(i)].signal = 11
  /\ done' = [done EXCEPT ![i] = TRUE]
  /\ NextTurn(i, rss[Server], done')
  /\ UNCHANGED <<saddr, held, rest, posted, rss>>

VisitNothing(i) ==
  /\ Visits(i)
  /\ IF held[i] THEN rest[i] > 0 ELSE saddr[AddrAt(i)].signal = 0
  /\ NextTurn(i, rss[Server], done)
  /\ UNCHANGED <<saddr, held, done, rest, posted, rss>>

Visit(i) == VisitReads(i) \/ VisitAcks(i) \/ VisitEnds(i) \/ VisitNothing(i)

(* The rest of cfio_rdma_server_final disconnects one connection after the   *)
(* other ...                                                               *)
ServerDisconnect ==
  /\ pc[Server] = "disconnect"
  /\ \E c \in Clients : c = conns[clt + 1] /\ Disconnect(c)
  /\ IF clt + 1 = ClientNum
       THEN pc' = [pc EXCEPT ![Server] = "events"] /\ UNCHANGED clt
       ELSE clt' = clt + 1 /\ UNCHANGED pc
  /\ UNCHANGED <<rss, waitVars, countVars, pollVars, connVars, addrVars, nicVars>>

LastDisconnect == disCnt + 1 = ClientNum

(* ... and frees each when it is told that it is down. *)
OnDisconnect ==
  LET c == Head(events[Server]).clt
  IN  /\ pc[Server] = "events" /\ NextEvent(Server, "DISCONNECTED")
      /\ events' = Took(Server)
      /\ life' = [life EXCEPT ![<<"server", c>>] = "freed"]
      /\ disCnt' = disCnt + 1
      /\ pc' = [pc EXCEPT ![Server] = IF LastDisconnect THEN "gone" ELSE "events"]
      /\ UNCHANGED <<rss, clt, waitVars, estCnt, pollVars, conns, ordered, sendState,
                     recvState, recvMsg, peer, readyCnt, rest, addrVars, link, nicVars>>

ServerStep ==
  \/ TellAddress \/ OnConnectRequest \/ Accept \/ OnEstablished \/ CountEstablished
  \/ ServerReady \/ (\E i \in Clients : Visit(i)) \/ ServerDisconnect
  \/ OnDisconnect \/ Polls(Server)

-------------------------------------------------------------------------------
(* Connection manager.  An event it has for one client only is in the       *)
(* channel of that client at once, which will take it later; what it has for *)
(* the server comes in any order.                                          *)

Notify(p, type, c) == events' = [events EXCEPT ![p] = Append(@, Event(type, c))]

Requests == {i \in DOMAIN events[Server] : events[Server][i].type = "CONNECT_REQUEST"}

CmConnects(c) ==
  /\ link[c] = "request" /\ Cardinality(Requests) < Backlog
  /\ Notify(Server, "CONNECT_REQUEST", c)
  /\ link' = [link EXCEPT ![c] = "requested"]

(* The backlog of the server is full. *)
CmRejects(c) ==
  /\ link[c] = "request" /\ Cardinality(Requests) >= Backlog
  /\ Notify(c, "REJECTED", c)
  /\ link' = [link EXCEPT ![c] = "rejected"]

(* The server learns that the client has its answer. *)
CmConfirms(c) ==
  /\ link[c] = "use"
  /\ Notify(Server, "ESTABLISHED", c)
  /\ link' = [link EXCEPT ![c] = "up"]

Manager ==
  /\ \E c \in Clients : CmConnects(c) \/ CmRejects(c) \/ CmConfirms(c)
  /\ UNCHANGED <<pc, rss, clt, waitVars, countVars, pollVars, connVars, addrVars, nicVars>>

-------------------------------------------------------------------------------
(* NIC: requests of a queue pair are carried out in order, at any later time. *)

(* Completions come into the queues of some processes. *)
Completed(ps) ==
  notify' = [p \in Procs |-> IF p \in ps /\ notify[p] = "armed" THEN "event" ELSE notify[p]]

(* A message takes a receive that is posted at the other end. *)
Deliver(e) ==
  LET f == Other(e)
  IN  /\ posted[e] # << >> /\ Head(posted[e]).op = "mr" /\ recvs[f] > 0
      /\ posted' = [posted EXCEPT ![e] = Tail(@)]
      /\ recvs' = [recvs EXCEPT ![f] = @ - 1]
      /\ recvMsg' = [recvMsg EXCEPT ![f] = Head(posted[e]).mem]
      /\ cqSend' = [cqSend EXCEPT ![e] = @ + 1]
      /\ cqRecv' = [cqRecv EXCEPT ![f] = @ + 1]
      /\ Completed({Owner(e), Owner(f)})
      /\ UNCHANGED <<pc, rss, clt, waitVars, countVars, pollVars, conns, ordered, life, sendState,
                     recvState, peer, readyCnt, rest, addrVars, cmVars, flying>>

(* An RDMA read answers with its completion. *)
Read(e) ==
  /\ posted[e] # << >> /\ Head(posted[e]).op = "read"
  /\ posted' = [posted EXCEPT ![e] = Tail(@)]
  /\ cqSend' = [cqSend EXCEPT ![e] = @ + 1]
  /\ Completed({Owner(e)})
  /\ UNCHANGED <<pc, rss, clt, waitVars, countVars, pollVars, connVars, addrVars, cmVars, recvs,
                 flying, cqRecv>>

(* An RDMA write copies what is then in its sender's address to the memory   *)
(* the sender was told of.  Its target is seen before its completion.       *)
Write(e) ==
  LET w == Head(posted[e])
      signal == IF e[1] = "server" THEN saddr[Region(e[2])].signal ELSE caddr[e[2]]
  IN  /\ posted[e] # << >> /\ w.op = "write"
      /\ posted' = [posted EXCEPT ![e] = Tail(@)]
      /\ flying' = [flying EXCEPT ![e] = @ + 1]
      /\ \/ /\ w.mem[1] = "server"
            /\ saddr' = [saddr EXCEPT ![w.mem[2]] = [signal |-> signal, from |-> e]]
            /\ UNCHANGED caddr
         \/ /\ w.mem[1] = "client"
            /\ caddr' = [caddr EXCEPT ![w.mem[2]] = signal]
            /\ UNCHANGED saddr
      /\ UNCHANGED <<pc, rss, clt, waitVars, countVars, pollVars, connVars, held, done, cmVars,
                     recvs, cqSend, cqRecv, notify>>

WriteCompletes(e) ==
  /\ flying[e] > 0
  /\ flying' = [flying EXCEPT ![e] = @ - 1]
  /\ cqSend' = [cqSend EXCEPT ![e] = @ + 1]
  /\ Completed({Owner(e)})
  /\ UNCHANGED <<pc, rss, clt, waitVars, countVars, pollVars, connVars, addrVars, cmVars, recvs,
                 posted, cqRecv>>

Nic(e) == Deliver(e) \/ Read(e) \/ Write(e) \/ WriteCompletes(e)

-------------------------------------------------------------------------------
AllGone == \A p \in Procs : pc[p] = "gone"
SomeDead == \E c \in Clients : pc[c] = "dead"

Terminating == (AllGone \/ SomeDead) /\ UNCHANGED vars

Others == (\E c \in Clients : Client(c)) \/ Manager \/ (\E e \in Ends : Nic(e))

Next == ServerStep \/ Others \/ Terminating

Spec == Init /\ [][Next]_vars

(* The server runs, and among the clients, the manager and the NIC whatever  *)
(* can happen does not wait for ever.                                      *)
FairSpec == Spec /\ WF_vars(ServerStep) /\ WF_vars(Others)

-------------------------------------------------------------------------------
States == {"start", "events", "wait", "ready", "run", "published", "disconnect", "gone", "dead",
           "tell", "accept", "count", "drain", "visit"}
EventTypes == {"ADDR_RESOLVED", "ROUTE_RESOLVED", "ESTABLISHED", "REJECTED", "CONNECT_REQUEST",
               "DISCONNECTED"}
Links == {"none", "request", "requested", "rejected", "accepted", "use", "up", "down"}
Operations == [op : {"mr", "write", "read"}, mem : Memory]

(* Every variable has its type. *)
TypeOK ==
  /\ pc \in [Procs -> States] /\ back \in [Procs -> States \cup {"none"}]
  /\ goal \in [Procs -> Nat] /\ polling \in [Procs -> BOOLEAN]
  /\ rss \in [Procs -> Int] /\ readyCnt \in [Procs -> Nat]
  /\ estCnt \in Nat /\ disCnt \in Nat /\ clt \in Clients
  /\ conns \in Seq(Clients) /\ ordered \in [Clients -> 0..ClientNum]
  /\ prevRss \in Int /\ prevChanged \in BOOLEAN
  /\ rest \in [Clients -> Nat] /\ held \in [Clients -> BOOLEAN]
  /\ life \in [Ends -> {"none", "built", "freed"}]
  /\ sendState \in [Ends -> 0..2] /\ recvState \in [Ends -> 0..2]
  /\ recvMsg \in [Ends -> Memory] /\ peer \in [Ends -> Memory]
  /\ saddr \in [Clients -> [signal : {0, 1, 11}, from : Memory]]
  /\ caddr \in [Clients -> {0, 1, 11}] /\ done \in [Clients -> BOOLEAN]
  /\ link \in [Clients -> Links]
  /\ events \in [Procs -> Seq([type : EventTypes, clt : Clients])]
  /\ recvs \in [Ends -> Nat] /\ posted \in [Ends -> Seq(Operations)]
  /\ flying \in [Ends -> Nat] /\ cqSend \in [Ends -> Nat] /\ cqRecv \in [Ends -> Nat]
  /\ notify \in [Procs -> {"none", "armed", "event"}]

(* What an end has asked for and not been told of. *)
Outstanding(e) == recvs[e] + Len(posted[e]) + flying[e] + cqSend[e] + cqRecv[e]

(* request_stack_size counts the requests and the receives of a process that *)
(* have not been taken as completions, of all its connections together: it  *)
(* is what every wait of both layers looks at.                             *)
RequestsCounted ==
  \A p \in Procs : rss[p] = Cardinality(UNION {{e} \X (1..Outstanding(e)) : e \in EndsOf(p)})

(* A process never sleeps in ibv_get_cq_event over completions it could take: *)
(* if there are some, it is polling or an event is there to wake it, even    *)
(* though it asks for the next event before it empties the queue and leaves  *)
(* the queue alone between two waits.                                      *)
WakeUp ==
  \A p \in Procs : HasCompletions(p) => polling[p] \/ notify[p] = "event"

(* The loops on ready_mr_cnt that end both initialisations poll nothing, so  *)
(* whoever reaches them must find the count complete.  It is counted by two  *)
(* state machines that must meet at one point, once for each connection.    *)
ReadyOnTime ==
  \A p \in Procs : pc[p] = "ready" => readyCnt[p] = (IF p = Server THEN ClientNum ELSE 1)

(* Regions are given out in the order of the requests, connections are found *)
(* in the order of the clients, and each end is told where to write by a     *)
(* message: all of it fits.  An end knows the memory of the other end, and   *)
(* the address looked at for client i is written by client i only.          *)
Acquainted ==
  /\ \A e \in Ends : recvState[e] # 0 => peer[e] = MemoryOf(Other(e))
  /\ readyCnt[Server] = ClientNum =>
       \A i \in Clients : /\ ordered[i] = i
                          /\ saddr[AddrAt(i)].from \in {None, <<"client", i>>}

(* A connection goes down after everything posted on it, at either end, was  *)
(* carried out, and an end is freed after all of it has been taken.         *)
QuietTearDown ==
  \A e \in Ends : /\ link[e[2]] = "down" => posted[e] = << >> /\ recvs[e] = 0
                  /\ life[e] = "freed" => Outstanding(e) = 0

(* Everybody gets through initialisation, the loop and finalisation, unless a *)
(* client was rejected, which ends the job: the server waits for completions *)
(* inside the handlers of connection events, when some clients cannot send   *)
(* yet, and whoever is the first to take a connection down, both ends count  *)
(* it.                                                                     *)
Closed == <>(AllGone \/ SomeDead)

(* Not checked by a listed run: no client is rejected ... *)
NoRejection == ~SomeDead

(* ... and the completions nobody has taken fit into a queue of MaxReqs      *)
(* entries, as long as the queue pairs of both layers (cqe = 10).           *)
CqFits ==
  \A p \in Procs : FoldSet(LAMBDA e, n : n + cqSend[e] + cqRecv[e], 0,
                           EndsOf(p)) <= MaxReqs
================================================================================
