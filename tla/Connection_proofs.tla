---------------------------- MODULE Connection_proofs ----------------------------
(***************************************************************************)
(* The connections of a server's group, for any number of clients, any     *)
(* number of requests at which the server drains its queue, and any        *)
(* backlog: nobody sleeps over completions it could take, and every        *)
(* variable has its type.                                                  *)
(*                                                                         *)
(* The invariant is built in layers, each proved on top of those before:   *)
(*   WakeInv   completion channels and completion queues;                  *)
(*   LifeInv   where processes, connections and the manager are;           *)
(*   TypeInv   types, and that nothing is posted on what is not built.     *)
(* Talk_proofs goes on from there.                                         *)
(***************************************************************************)
EXTENDS Connection, FiniteSetTheorems, TLAPS

(* The completion channel of p has been asked for an event. *)
Up(p) == notify[p] # "none"

Happenings == [type : EventTypes, clt : Clients]

(* What the argument needs of the types. *)
WakeType ==
  /\ DOMAIN pc = Procs /\ DOMAIN back = Procs
  /\ polling \in [Procs -> BOOLEAN]
  /\ clt \in Clients
  /\ link \in [Clients -> Links]
  /\ events \in [Procs -> Seq(Happenings)]
  /\ recvs \in [Ends -> Nat] /\ flying \in [Ends -> Nat] /\ DOMAIN posted = Ends
  /\ cqSend \in [Ends -> Nat] /\ cqRecv \in [Ends -> Nat]
  /\ notify \in [Procs -> {"none", "armed", "event"}]

(* Nothing is under way at an end. *)
Still(e) == recvs[e] = 0 /\ posted[e] = << >> /\ flying[e] = 0 /\ cqSend[e] = 0 /\ cqRecv[e] = 0

(* A process asks for events before it has requests. *)
UpFirst == \A e \in Ends : ~Up(Owner(e)) => Still(e)

(* What a connection event says about the completion channels: a client that *)
(* resolves its route has built its connection, and who is established has   *)
(* been accepted by a server that has built one.                            *)
Known(p, ev) ==
  /\ p # Server /\ ev.type \in {"ROUTE_RESOLVED", "ESTABLISHED"} => Up(p)
  /\ ev.type = "ESTABLISHED" => Up(Server)
  /\ ev.type = "CONNECT_REQUEST" => Up(ev.clt)

EventsKnown == \A p \in Procs : \A i \in DOMAIN events[p] : Known(p, events[p][i])

Accepting ==
  pc[Server] = "accept" \/ (pc[Server] \in {"wait", "drain"} /\ back[Server] = "accept")

(* The places in the code behind build_connection. *)
Behind ==
  /\ \A c \in Clients : pc[c] \notin {"start", "events", "gone", "dead"} => Up(c)
  /\ pc[Server] \notin {"tell", "events", "gone"} => Up(Server)
  /\ \A c \in Clients : link[c] # "none" => Up(c)
  /\ \A c \in Clients : link[c] \in {"accepted", "use"} => Up(Server)
  /\ Accepting => Up(clt)

WakeInv == WakeType /\ UpFirst /\ EventsKnown /\ Behind /\ WakeUp

(* The owner of an end is a process, and the server is none of the clients.   *)
LEMMA Owners ==
  /\ \A e \in Ends : Owner(e) \in Procs
  /\ Server \in Procs /\ Clients \subseteq Procs /\ Server \notin Clients /\ 0 \in Clients
  /\ \A c \in Clients : /\ <<"client", c>> \in Ends /\ Owner(<<"client", c>>) = c
                        /\ <<"server", c>> \in Ends /\ Owner(<<"server", c>>) = Server
  /\ \A e \in Ends : Other(e) \in Ends
<1>1. ClientNum \in Nat \ {0}
  BY ConnectionAssumption
<1>2. Clients \subseteq Procs /\ Server \in Procs /\ Server \notin Clients /\ 0 \in Clients
  BY <1>1 DEF Clients, Procs, Server
<1>3. ASSUME NEW e \in Ends
      PROVE  Owner(e) \in Procs /\ Other(e) \in Ends
  <2>1. e[2] \in Clients
    BY DEF Ends
  <2> QED
    BY <2>1, <1>2 DEF Owner, Other, Ends
<1>4. ASSUME NEW c \in Clients
      PROVE  /\ <<"client", c>> \in Ends /\ Owner(<<"client", c>>) = c
             /\ <<"server", c>> \in Ends /\ Owner(<<"server", c>>) = Server
  BY DEF Owner, Ends
<1> QED
  BY <1>2, <1>3, <1>4

(* What is in a sequence after an element is appended, or its head taken.     *)
LEMMA Appended ==
  ASSUME NEW S, NEW s \in Seq(S), NEW x \in S
  PROVE  /\ Append(s, x) \in Seq(S)
         /\ \A i \in DOMAIN Append(s, x) :
              Append(s, x)[i] = x \/ \E j \in DOMAIN s : Append(s, x)[i] = s[j]
  OBVIOUS

\* The tail of a sequence, after its head is taken.
LEMMA Taken ==
  ASSUME NEW S, NEW s \in Seq(S), s # << >>
  PROVE  /\ Tail(s) \in Seq(S) /\ Head(s) \in S
         /\ \E j \in DOMAIN s : Head(s) = s[j]
         /\ \A i \in DOMAIN Tail(s) : \E j \in DOMAIN s : Tail(s)[i] = s[j]
  OBVIOUS

-------------------------------------------------------------------------------
(* The parts of the invariant, by what a step leaves alone.                  *)

(* A step that posts nothing and takes no completion. *)
LEMMA QuietStep ==
  ASSUME UpFirst, WakeUp, UNCHANGED <<nicVars, polling>>
  PROVE  UpFirst' /\ WakeUp' /\ (\A p \in Procs : Up(p) => Up(p)')
  BY DEF UpFirst, WakeUp, HasCompletions, Still, Up, nicVars

(* A step that posts at ends whose owner has asked for events. *)
LEMMA PostingStep ==
  ASSUME WakeType, UpFirst, WakeUp,
         UNCHANGED <<polling, flying, cqSend, cqRecv>>,
         \A p \in Procs : notify'[p] = notify[p] \/ (~Up(p) /\ Up(p)'),
         \A e \in Ends : Up(Owner(e))' \/ (recvs'[e] = recvs[e] /\ posted'[e] = posted[e])
  PROVE  UpFirst' /\ WakeUp' /\ (\A p \in Procs : Up(p) => Up(p)')
<1>1. \A p \in Procs : Up(p) => Up(p)'
  BY DEF Up
<1>2. UpFirst'
  BY <1>1, Owners DEF UpFirst, Still
<1>3. WakeUp'
  <2> SUFFICES ASSUME NEW p \in Procs, HasCompletions(p)'
               PROVE  polling[p]' \/ notify[p]' = "event"
    BY DEF WakeUp
  <2>1. PICK e \in Ends : Owner(e) = p /\ cqSend[e] + cqRecv[e] > 0
    BY DEF HasCompletions
  <2>2. Up(p)
    BY <2>1 DEF UpFirst, Still
  <2>3. polling[p] \/ notify[p] = "event"
    BY <2>1 DEF WakeUp, HasCompletions
  <2> QED
    BY <2>2, <2>3
<1> QED
  BY <1>1, <1>2, <1>3

(* Once a process is behind build_connection it stays there. *)
LEMMA BehindKept ==
  ASSUME WakeType, Behind, UNCHANGED <<pc, back, clt, link>>,
         \A p \in Procs : Up(p) => Up(p)'
  PROVE  Behind'
  BY Owners DEF WakeType, Behind, Accepting

(* An event that was in a channel stays true, and one that is put into it must be. *)
LEMMA EventsStep ==
  ASSUME WakeType, EventsKnown,
         \A p \in Procs : Up(p) => Up(p)',
         \A p \in Procs : \A i \in DOMAIN events'[p] :
           \/ \E j \in DOMAIN events[p] : events'[p][i] = events[p][j]
           \/ Known(p, events[p][i])'
  PROVE  EventsKnown'
<1> SUFFICES ASSUME NEW p \in Procs, NEW i \in DOMAIN events'[p]
             PROVE  Known(p, events[p][i])'
  BY DEF EventsKnown
<1>1. CASE \E j \in DOMAIN events[p] : events'[p][i] = events[p][j]
  <2>1. PICK j \in DOMAIN events[p] : events'[p][i] = events[p][j]
    BY <1>1
  <2>2. Known(p, events[p][j])
    BY DEF EventsKnown
  <2>3. events[p][j].clt \in Procs
    <3>1. events[p] \in Seq(Happenings)
      BY DEF WakeType
    <3>2. events[p][j] \in Happenings
      BY <3>1
    <3> QED
      BY <3>2, Owners DEF Happenings
  <2> QED
    BY <2>1, <2>2, <2>3, Owners DEF Known
<1> QED
  BY <1>1

\* Steps that leave the event channels alone keep what events say.
LEMMA EventsKept ==
  ASSUME WakeType, EventsKnown, UNCHANGED events,
         \A p \in Procs : Up(p) => Up(p)'
  PROVE  EventsKnown'
  BY EventsStep

(* The NIC and the polling of a process see no connection. *)
LEMMA NicStep ==
  ASSUME WakeInv, UNCHANGED <<pc, back, clt, link, events>>,
         \A p \in Procs : Up(p) => Up(p)'
  PROVE  EventsKnown' /\ Behind'
  BY BehindKept, EventsKept DEF WakeInv

-------------------------------------------------------------------------------
(* The NIC: completions come to processes that have asked for events.        *)

(* Completions come to processes that are up. *)
LEMMA CompletedWakes ==
  ASSUME NEW ps, WakeType, Completed(ps)
  PROVE  /\ notify' \in [Procs -> {"none", "armed", "event"}]
         /\ \A p \in Procs : Up(p) => Up(p)'
         /\ \A p \in Procs : notify[p] = "event" => notify'[p] = "event"
         /\ \A p \in Procs : p \in ps /\ Up(p) => notify'[p] = "event"
         /\ \A p \in Procs : ~Up(p) => ~Up(p)'
  BY DEF WakeType, Completed, Up

\* A delivered message leaves both owners awake.
LEMMA DeliverWakes ==
  ASSUME WakeInv, NEW e \in Ends, Deliver(e)
  PROVE  WakeInv'
<1> DEFINE f == Other(e)
<1>0. /\ WakeType /\ UpFirst /\ WakeUp /\ f \in Ends /\ Owner(e) \in Procs /\ Owner(f) \in Procs
  BY Owners DEF WakeInv
<1>1. /\ Completed({Owner(e), Owner(f)})
      /\ UNCHANGED <<pc, back, polling, clt, link, events, flying>>
      /\ posted[e] # << >> /\ recvs[f] > 0
      /\ posted' = [posted EXCEPT ![e] = Tail(@)]
      /\ recvs' = [recvs EXCEPT ![f] = @ - 1]
      /\ cqSend' = [cqSend EXCEPT ![e] = @ + 1]
      /\ cqRecv' = [cqRecv EXCEPT ![f] = @ + 1]
  BY DEF Deliver, pollVars, cmVars
<1>2. Up(Owner(e)) /\ Up(Owner(f))
  BY <1>0, <1>1 DEF UpFirst, Still, WakeType
<1>3. WakeType'
  <2>1. notify' \in [Procs -> {"none", "armed", "event"}]
    BY <1>0, <1>1, CompletedWakes
  <2> QED
    BY SMTT(30), <1>0, <1>1, <2>1 DEF WakeType
<1>4. UpFirst'
  BY <1>0, <1>1, <1>2, CompletedWakes, Owners DEF UpFirst, Still, WakeType
<1>5. WakeUp'
  <2> SUFFICES ASSUME NEW p \in Procs, HasCompletions(p)'
               PROVE  polling[p]' \/ notify[p]' = "event"
    BY DEF WakeUp
  <2>1. CASE p \in {Owner(e), Owner(f)}
    BY <2>1, <1>0, <1>1, <1>2, CompletedWakes
  <2>2. CASE p \notin {Owner(e), Owner(f)}
    BY <2>2, <1>0, <1>1, CompletedWakes DEF WakeUp, HasCompletions, WakeType
  <2> QED
    BY <2>1, <2>2
<1>6. EventsKnown' /\ Behind'
  BY <1>0, <1>1, CompletedWakes, NicStep
<1> QED
  BY <1>3, <1>4, <1>5, <1>6 DEF WakeInv

(* A read, or a write, of an end's queue pair completes. *)
LEMMA SendCompletes ==
  ASSUME WakeInv, WakeType', NEW e \in Ends, ~Still(e), Completed({Owner(e)}),
         UNCHANGED <<pc, back, polling, clt, link, events, recvs, cqRecv>>,
         \A f \in Ends : f # e =>
           posted'[f] = posted[f] /\ flying'[f] = flying[f] /\ cqSend'[f] = cqSend[f]
  PROVE  WakeInv'
<1>0. WakeType /\ UpFirst /\ WakeUp /\ Owner(e) \in Procs
  BY Owners DEF WakeInv
<1>1. Up(Owner(e))
  BY <1>0 DEF UpFirst
<1>2. UpFirst'
  BY <1>0, <1>1, CompletedWakes, Owners DEF UpFirst, Still
<1>3. WakeUp'
  <2> SUFFICES ASSUME NEW p \in Procs, HasCompletions(p)'
               PROVE  polling[p]' \/ notify[p]' = "event"
    BY DEF WakeUp
  <2>1. CASE p = Owner(e)
    BY <2>1, <1>0, <1>1, CompletedWakes
  <2>2. CASE p # Owner(e)
    BY <2>2, <1>0, CompletedWakes DEF WakeUp, HasCompletions
  <2> QED
    BY <2>1, <2>2
<1>4. EventsKnown' /\ Behind'
  BY <1>0, CompletedWakes, NicStep
<1> QED
  BY <1>2, <1>3, <1>4 DEF WakeInv

\* No step of the NIC leaves a process asleep over completions.
LEMMA NicWakes ==
  ASSUME WakeInv, NEW e \in Ends, Nic(e)
  PROVE  WakeInv'
<1>0. WakeType /\ UpFirst /\ WakeUp /\ EventsKnown /\ Behind
  BY DEF WakeInv
<1>1. CASE Deliver(e)
  BY <1>1, DeliverWakes
<1>2. CASE Read(e)
  <2>1. WakeType'
    <3>1. Completed({Owner(e)})
      BY <1>2 DEF Read
    <3>2. notify' \in [Procs -> {"none", "armed", "event"}]
      BY <1>0, <3>1, CompletedWakes
    <3> QED
      BY <1>0, <1>2, <3>2 DEF Read, WakeType, pollVars, cmVars
  <2>2. ~Still(e)
    BY <1>2 DEF Read, Still
  <2>3. \A f \in Ends : f # e =>
          posted'[f] = posted[f] /\ flying'[f] = flying[f] /\ cqSend'[f] = cqSend[f]
    BY <1>0, <1>2 DEF Read, WakeType
  <2> QED
    BY <1>2, <2>1, <2>2, <2>3, SendCompletes DEF Read, pollVars, cmVars
<1>3. CASE WriteCompletes(e)
  <2>1. WakeType'
    <3>1. Completed({Owner(e)})
      BY <1>3 DEF WriteCompletes
    <3>2. notify' \in [Procs -> {"none", "armed", "event"}]
      BY <1>0, <3>1, CompletedWakes
    <3> QED
      BY <1>0, <1>3, <3>2 DEF WriteCompletes, WakeType, pollVars, cmVars
  <2>2. ~Still(e)
    BY <1>3 DEF WriteCompletes, Still
  <2>3. \A f \in Ends : f # e =>
          posted'[f] = posted[f] /\ flying'[f] = flying[f] /\ cqSend'[f] = cqSend[f]
    BY <1>0, <1>3 DEF WriteCompletes, WakeType
  <2> QED
    BY <1>3, <2>1, <2>2, <2>3, SendCompletes DEF WriteCompletes, pollVars, cmVars
<1>4. CASE Write(e)
  <2>1. /\ posted[e] # << >>
        /\ posted' = [posted EXCEPT ![e] = Tail(@)]
        /\ flying' = [flying EXCEPT ![e] = @ + 1]
        /\ UNCHANGED <<pc, back, polling, clt, link, events, recvs, cqSend, cqRecv, notify>>
    BY <1>4 DEF Write, pollVars, cmVars
  <2>2. WakeType'
    BY <1>0, <2>1 DEF WakeType
  <2>3. Up(Owner(e))
    BY <1>0, <2>1 DEF UpFirst, Still
  <2>4. UpFirst' /\ WakeUp'
    BY <1>0, <2>1, <2>3, Owners DEF UpFirst, WakeUp, HasCompletions, Still, Up, WakeType
  <2>5. EventsKnown' /\ Behind'
    BY <2>1, NicStep DEF Up
  <2> QED
    BY <2>2, <2>4, <2>5 DEF WakeInv
<1> QED
  BY <1>1, <1>2, <1>3, <1>4 DEF Nic

-------------------------------------------------------------------------------
(* The loops that take completions.                                        *)
LEMMA PollsWake ==
  ASSUME WakeInv, NEW p \in Procs, Polls(p)
  PROVE  WakeInv'
<1>0. WakeType /\ UpFirst /\ WakeUp /\ EventsKnown /\ Behind
  BY DEF WakeInv
<1>1. CASE GetCqEvent(p)
  <2>1. /\ notify' = [notify EXCEPT ![p] = "armed"] /\ notify[p] = "event"
        /\ polling' = [polling EXCEPT ![p] = TRUE]
        /\ UNCHANGED <<pc, back, clt, link, events, recvs, posted, flying, cqSend, cqRecv>>
    BY <1>1 DEF GetCqEvent, Rearmed, cmVars
  <2>2. WakeType' /\ (\A q \in Procs : Up(q) => Up(q)') /\ (\A q \in Procs : ~Up(q) <=> ~Up(q)')
    BY <1>0, <2>1 DEF WakeType, Up
  <2>3. UpFirst' /\ WakeUp'
    BY <1>0, <2>1, <2>2, Owners DEF UpFirst, WakeUp, HasCompletions, Still, WakeType
  <2>4. EventsKnown' /\ Behind'
    BY <2>1, <2>2, NicStep
  <2> QED
    BY <2>2, <2>3, <2>4 DEF WakeInv
<1>2. CASE PollEmpty(p)
  <2>1. /\ ~HasCompletions(p) /\ polling' = [polling EXCEPT ![p] = FALSE]
        /\ UNCHANGED <<pc, back, clt, link, events, nicVars>>
    BY <1>2 DEF PollEmpty, cmVars
  <2>2. WakeType' /\ UpFirst' /\ WakeUp'
    BY <1>0, <2>1 DEF WakeType, UpFirst, WakeUp, HasCompletions, Still, Up, nicVars
  <2>3. EventsKnown' /\ Behind'
    BY <2>1, NicStep DEF Up, nicVars
  <2> QED
    BY <2>2, <2>3 DEF WakeInv
<1>3. CASE Drained(p)
  <2>1. /\ pc[p] \in {"wait", "drain"} /\ (polling[p] => ~HasCompletions(p))
        /\ pc' = [pc EXCEPT ![p] = back[p]]
        /\ polling' = [polling EXCEPT ![p] = FALSE]
        /\ UNCHANGED <<back, clt, link, events, nicVars>>
    BY <1>3 DEF Drained, Waiting, cmVars
  <2>2. WakeType' /\ UpFirst' /\ WakeUp'
    BY <1>0, <2>1 DEF WakeType, UpFirst, WakeUp, HasCompletions, Still, Up, nicVars
  <2>3. EventsKnown' /\ (\A q \in Procs : Up(q)' <=> Up(q))
    BY <1>0, <2>1, EventsKept DEF Up, nicVars
  <2>4. Behind'
    BY <1>0, <2>1, <2>3, Owners DEF WakeType, Behind, Accepting
  <2> QED
    BY <2>2, <2>3, <2>4 DEF WakeInv
<1>4. ASSUME NEW e \in Ends, Owner(e) = p, PollSend(e)
      PROVE  WakeInv'
  <2>1. /\ polling[p] /\ cqSend[e] > 0 /\ cqSend' = [cqSend EXCEPT ![e] = @ - 1]
        /\ UNCHANGED <<pc, back, polling, clt, link, events, recvs, posted, flying, cqRecv, notify>>
    BY <1>4 DEF PollSend, pollVars, cmVars
  <2>2. WakeType' /\ UpFirst' /\ WakeUp'
    BY <1>0, <1>4, <2>1 DEF WakeType, UpFirst, WakeUp, HasCompletions, Still, Up
  <2>3. EventsKnown' /\ Behind'
    BY <2>1, NicStep DEF Up
  <2> QED
    BY <2>2, <2>3 DEF WakeInv
<1>5. ASSUME NEW e \in Ends, Owner(e) = p, PollRecv(e)
      PROVE  WakeInv'
  <2>1. /\ polling[p] /\ cqRecv[e] > 0 /\ cqRecv' = [cqRecv EXCEPT ![e] = @ - 1]
        /\ UNCHANGED <<pc, back, polling, clt, link, events, recvs, posted, flying, cqSend, notify>>
    BY <1>5 DEF PollRecv, pollVars, cmVars
  <2>2. WakeType' /\ UpFirst' /\ WakeUp'
    BY <1>0, <1>5, <2>1 DEF WakeType, UpFirst, WakeUp, HasCompletions, Still, Up
  <2>3. EventsKnown' /\ Behind'
    BY <2>1, NicStep DEF Up
  <2> QED
    BY <2>2, <2>3 DEF WakeInv
<1> QED
  BY <1>1, <1>2, <1>3, <1>4, <1>5 DEF Polls

-------------------------------------------------------------------------------
(* Connection events.                                                      *)

(* The event that a handler takes is true. *)
LEMMA NextKnown ==
  ASSUME WakeType, EventsKnown, NEW q \in Procs, NEW type, NextEvent(q, type)
  PROVE  /\ Head(events[q]) \in Happenings /\ Head(events[q]).type = type
         /\ Known(q, Head(events[q]))
<1>1. events[q] \in Seq(Happenings) /\ events[q] # << >>
  BY DEF WakeType, NextEvent
<1>2. PICK j \in DOMAIN events[q] : Head(events[q]) = events[q][j]
  BY <1>1, Taken
<1>3. Known(q, Head(events[q]))
  BY <1>2 DEF EventsKnown
<1> QED
  BY <1>1, <1>3, Taken DEF NextEvent

\* Taking an event does not break what the others say.
LEMMA EventTaken ==
  ASSUME WakeType, EventsKnown, NEW q \in Procs, events[q] # << >>, events' = Took(q),
         \A p \in Procs : Up(p) => Up(p)'
  PROVE  EventsKnown' /\ events' \in [Procs -> Seq(Happenings)]
<1>1. events[q] \in Seq(Happenings)
  BY DEF WakeType
<1>2. /\ Tail(events[q]) \in Seq(Happenings)
      /\ \A i \in DOMAIN Tail(events[q]) : \E j \in DOMAIN events[q] : Tail(events[q])[i] = events[q][j]
  BY <1>1, Taken
<1>3. events' = [events EXCEPT ![q] = Tail(events[q])]
  BY DEF Took
<1>4. events' \in [Procs -> Seq(Happenings)]
  BY <1>2, <1>3 DEF WakeType
<1>5. \A p \in Procs : \A i \in DOMAIN events'[p] :
        \E j \in DOMAIN events[p] : events'[p][i] = events[p][j]
  BY <1>2, <1>3 DEF WakeType
<1> QED
  BY <1>4, <1>5, EventsStep

\* Neither does a new one break it of which it is true.
LEMMA EventAdded ==
  ASSUME WakeType, EventsKnown, NEW q \in Procs, NEW ev \in Happenings,
         events' = [events EXCEPT ![q] = Append(@, ev)],
         \A p \in Procs : Up(p) => Up(p)',
         Known(q, ev)'
  PROVE  EventsKnown' /\ events' \in [Procs -> Seq(Happenings)]
<1>1. events[q] \in Seq(Happenings)
  BY DEF WakeType
<1>2. /\ Append(events[q], ev) \in Seq(Happenings)
      /\ \A i \in DOMAIN Append(events[q], ev) :
           Append(events[q], ev)[i] = ev \/ \E j \in DOMAIN events[q] : Append(events[q], ev)[i] = events[q][j]
  BY <1>1, Appended
<1>3. events' \in [Procs -> Seq(Happenings)]
  BY <1>2 DEF WakeType
<1>4. ASSUME NEW p \in Procs, NEW i \in DOMAIN events'[p]
      PROVE  \/ \E j \in DOMAIN events[p] : events'[p][i] = events[p][j]
             \/ Known(p, events[p][i])'
  <2>1. CASE p # q
    BY <2>1 DEF WakeType
  <2>2. CASE p = q
    <3>1. events'[p] = Append(events[q], ev)
      BY <2>2 DEF WakeType
    <3>2. CASE events'[p][i] = ev
      BY <2>2, <3>2
    <3>3. CASE events'[p][i] # ev
      BY <1>2, <1>4, <2>2, <3>1, <3>3
    <3> QED
      BY <3>2, <3>3
  <2> QED
    BY <2>1, <2>2
<1> QED
  BY <1>3, <1>4, EventsStep

(* Both ends of a connection are told that it is down. *)
LEMMA DisconnectKnown ==
  ASSUME WakeType, EventsKnown, Behind, NEW c \in Clients, Disconnect(c), UNCHANGED notify
  PROVE  /\ EventsKnown' /\ events' \in [Procs -> Seq(Happenings)]
         /\ link' \in [Clients -> Links]
         /\ \A d \in Clients : link'[d] # link[d] => link[d] = "up" /\ link'[d] = "down"
<1>0. \A p \in Procs : Up(p) => Up(p)'
  BY DEF Up
<1>1. CASE link[c] # "up"
  <2>1. UNCHANGED <<link, events>>
    BY <1>1 DEF Disconnect, cmVars
  <2> QED
    BY <1>0, <2>1, EventsKept DEF WakeType
<1>2. CASE link[c] = "up"
  <2> DEFINE ev == Event("DISCONNECTED", c)
  <2>1. /\ link' = [link EXCEPT ![c] = "down"]
        /\ events' = [p \in Procs |-> IF p \in {c, Server} THEN Append(events[p], ev) ELSE events[p]]
    BY <1>2 DEF Disconnect
  <2>2. ev \in Happenings /\ ev.type = "DISCONNECTED"
    BY DEF Event, Happenings, EventTypes
  <2> HIDE DEF ev
  <2>3. ASSUME NEW p \in Procs
        PROVE  /\ events'[p] \in Seq(Happenings)
               /\ \A i \in DOMAIN events'[p] :
                    events'[p][i] = ev \/ \E j \in DOMAIN events[p] : events'[p][i] = events[p][j]
    <3>1. events[p] \in Seq(Happenings)
      BY DEF WakeType
    <3>2. CASE p \in {c, Server}
      <4>1. events'[p] = Append(events[p], ev)
        BY <2>1, <3>2
      <4> QED
        BY <2>2, <3>1, <4>1, Appended
    <3>3. CASE p \notin {c, Server}
      <4>1. events'[p] = events[p]
        BY <2>1, <3>3
      <4> QED
        BY <3>1, <4>1
    <3> QED
      BY <3>2, <3>3
  <2>4. events' \in [Procs -> Seq(Happenings)]
    <3>1. events' = [p \in Procs |-> events'[p]]
      BY <2>1
    <3> QED
      BY <2>3, <3>1
  <2>5. ASSUME NEW p \in Procs, NEW i \in DOMAIN events'[p]
        PROVE  \/ \E j \in DOMAIN events[p] : events'[p][i] = events[p][j]
               \/ Known(p, events[p][i])'
    <3>1. CASE events'[p][i] = ev
      BY <2>2, <3>1 DEF Known
    <3>2. CASE events'[p][i] # ev
      BY <2>3, <2>5, <3>2
    <3> QED
      BY <3>1, <3>2
  <2>6. EventsKnown'
    BY <1>0, <2>5, EventsStep
  <2>7. /\ link' \in [Clients -> Links]
        /\ \A d \in Clients : link'[d] # link[d] => link[d] = "up" /\ link'[d] = "down"
    BY <1>2, <2>1 DEF WakeType, Links
  <2> QED
    BY <2>4, <2>6, <2>7
<1> QED
  BY <1>1, <1>2

(* build_context asks for events. *)
LEMMA ArmedUp ==
  ASSUME WakeType, NEW p \in Procs, Armed(p)
  PROVE  /\ notify' \in [Procs -> {"none", "armed", "event"}] /\ Up(p)'
         /\ \A q \in Procs : notify'[q] = notify[q] \/ (~Up(q) /\ Up(q)')
  BY DEF WakeType, Armed, Up

-------------------------------------------------------------------------------
(* The client. *)

(* The handler of a resolved address builds the connection. *)
LEMMA AddrResolvedWakes ==
  ASSUME WakeInv, NEW c \in Clients, OnAddrResolved(c)
  PROVE  WakeInv'
<1>0. WakeType /\ UpFirst /\ WakeUp /\ EventsKnown /\ Behind /\ c \in Procs
  BY Owners DEF WakeInv
<1> DEFINE e == <<"client", c>>
           ev == Event("ROUTE_RESOLVED", c)
<1>1. /\ NextEvent(c, "ADDR_RESOLVED") /\ Armed(c)
      /\ events' = [events EXCEPT ![c] = Append(Tail(@), ev)]
      /\ recvs' = [recvs EXCEPT ![e] = @ + 1]
      /\ UNCHANGED <<pc, back, polling, clt, link, posted, flying, cqSend, cqRecv>>
  BY DEF OnAddrResolved, PostReceive, pollVars
<1>2. e \in Ends /\ Owner(e) = c /\ ev \in Happenings /\ ev.type = "ROUTE_RESOLVED"
  BY Owners DEF Event, Happenings, EventTypes
<1> HIDE DEF e, ev
<1>3. /\ notify' \in [Procs -> {"none", "armed", "event"}] /\ Up(c)'
      /\ \A q \in Procs : notify'[q] = notify[q] \/ (~Up(q) /\ Up(q)')
  BY <1>0, <1>1, ArmedUp
<1>4. \A f \in Ends : Up(Owner(f))' \/ (recvs'[f] = recvs[f] /\ posted'[f] = posted[f])
  BY <1>0, <1>1, <1>2, <1>3 DEF WakeType
<1>5. UpFirst' /\ WakeUp' /\ (\A p \in Procs : Up(p) => Up(p)')
  BY <1>0, <1>1, <1>3, <1>4, PostingStep
<1>6. EventsKnown' /\ events' \in [Procs -> Seq(Happenings)]
  <2>1. events[c] \in Seq(Happenings) /\ events[c] # << >>
    BY <1>0, <1>1 DEF WakeType, NextEvent
  <2>2. /\ Tail(events[c]) \in Seq(Happenings)
        /\ \A i \in DOMAIN Tail(events[c]) : \E j \in DOMAIN events[c] : Tail(events[c])[i] = events[c][j]
    BY <2>1, Taken
  <2>3. /\ Append(Tail(events[c]), ev) \in Seq(Happenings)
        /\ \A i \in DOMAIN Append(Tail(events[c]), ev) :
             \/ Append(Tail(events[c]), ev)[i] = ev
             \/ \E j \in DOMAIN Tail(events[c]) : Append(Tail(events[c]), ev)[i] = Tail(events[c])[j]
    BY <1>2, <2>2, Appended
  <2>4. /\ events' \in [Procs -> Seq(Happenings)]
        /\ events'[c] = Append(Tail(events[c]), ev)
        /\ \A p \in Procs : p # c => events'[p] = events[p]
    BY <1>0, <1>1, <2>3 DEF WakeType
  <2>5. ASSUME NEW p \in Procs, NEW i \in DOMAIN events'[p]
        PROVE  \/ \E j \in DOMAIN events[p] : events'[p][i] = events[p][j]
               \/ Known(p, events[p][i])'
    <3>1. CASE p # c
      BY <2>4, <3>1, <2>5
    <3>2. CASE p = c /\ events'[c][i] = ev
      BY <1>2, <1>3, <3>2 DEF Known
    <3>3. CASE p = c /\ events'[c][i] # ev
      <4>1. PICK j \in DOMAIN Tail(events[c]) : events'[c][i] = Tail(events[c])[j]
        BY <2>3, <2>4, <2>5, <3>3
      <4> QED
        BY <2>2, <3>3, <4>1
    <3> QED
      BY <3>1, <3>2, <3>3
  <2> QED
    BY <1>0, <1>5, <2>4, <2>5, EventsStep
<1>7. recvs' \in [Ends -> Nat]
  BY <1>0, <1>1, <1>2 DEF WakeType
<1>8. WakeType'
  BY <1>0, <1>1, <1>3, <1>6, <1>7 DEF WakeType
<1>9. Behind'
  BY <1>0, <1>1, <1>5, BehindKept
<1> QED
  BY <1>5, <1>6, <1>8, <1>9 DEF WakeInv

(* The steps of a client that post on its connection. *)
LEMMA ClientPosts ==
  ASSUME WakeInv, NEW c \in Clients, OnConnection(c) \/ Publish(c) \/ IoDone(c)
  PROVE  WakeInv'
<1>0. WakeType /\ UpFirst /\ WakeUp /\ EventsKnown /\ Behind /\ c \in Procs /\ c # Server
  BY Owners DEF WakeInv
<1>1. /\ pc' = [pc EXCEPT ![c] = "wait"]
      /\ DOMAIN back' = Procs /\ back'[Server] = back[Server]
      /\ DOMAIN posted' = Ends
      /\ \A f \in Ends : f # <<"client", c>> => posted'[f] = posted[f]
      /\ UNCHANGED <<polling, clt, recvs, flying, cqSend, cqRecv, notify>>
  <2>1. ASSUME NEW op, NEW mem, NEW next,
               Post(<<"client", c>>, op, mem), WaitAll(c, next)
        PROVE  /\ pc' = [pc EXCEPT ![c] = "wait"]
               /\ DOMAIN back' = Procs /\ back'[Server] = back[Server]
               /\ DOMAIN posted' = Ends
               /\ \A f \in Ends : f # <<"client", c>> => posted'[f] = posted[f]
               /\ UNCHANGED polling
    BY <1>0, <2>1, Owners DEF Post, WaitAll, WakeType
  <2>2. CASE OnConnection(c)
    BY <2>1, <2>2 DEF OnConnection
  <2>3. CASE Publish(c)
    BY <2>1, <2>3 DEF Publish
  <2>4. CASE IoDone(c)
    BY <2>1, <2>4 DEF IoDone, WaitFinal
  <2> QED
    BY <2>2, <2>3, <2>4
<1>2. /\ Up(c)
      /\ EventsKnown' /\ events' \in [Procs -> Seq(Happenings)]
      /\ link' \in [Clients -> Links]
      /\ \A d \in Clients : link'[d] = link[d] \/ (d = c /\ Up(Server))
  <2>1. CASE OnConnection(c)
    <3>1. /\ NextEvent(c, "ESTABLISHED") /\ events' = Took(c)
          /\ link' = [link EXCEPT ![c] = "use"] /\ UNCHANGED notify
      BY <2>1 DEF OnConnection
    <3>2. Up(c) /\ Up(Server)
      BY <1>0, <3>1, NextKnown DEF Known
    <3>3. EventsKnown' /\ events' \in [Procs -> Seq(Happenings)]
      BY <1>0, <3>1, EventTaken DEF Up, NextEvent
    <3> QED
      BY <1>0, <3>1, <3>2, <3>3 DEF WakeType, Links
  <2>2. CASE Publish(c) \/ IoDone(c)
    <3>1. pc[c] \in {"run", "published"} /\ UNCHANGED <<link, events, notify>>
      BY <2>2 DEF Publish, IoDone, cmVars
    <3> QED
      BY <1>0, <3>1, EventsKept DEF Behind, WakeType, Up
  <2> QED
    BY <2>1, <2>2
<1>3. \A f \in Ends : Up(Owner(f))' \/ (recvs'[f] = recvs[f] /\ posted'[f] = posted[f])
  BY <1>1, <1>2, Owners DEF Up
<1>4. UpFirst' /\ WakeUp' /\ (\A p \in Procs : Up(p) => Up(p)')
  BY <1>0, <1>1, <1>3, PostingStep
<1>5. WakeType'
  <2>1. DOMAIN pc' = Procs
    BY <1>0, <1>1 DEF WakeType
  <2> QED
    BY <1>0, <1>1, <1>2, <2>1 DEF WakeType
<1>6. Behind'
  <2>1. /\ pc'[Server] = pc[Server] /\ back'[Server] = back[Server]
        /\ \A d \in Clients : d # c => pc'[d] = pc[d]
    BY <1>0, <1>1, Owners DEF WakeType
  <2> QED
    BY <1>0, <1>1, <1>2, <1>4, <2>1, Owners DEF Behind, Accepting, WakeType
<1> QED
  BY <1>2, <1>4, <1>5, <1>6 DEF WakeInv

(* A step that only moves processes and connections. *)
LEMMA QuietWakes ==
  ASSUME WakeInv, UNCHANGED <<nicVars, polling>>,
         DOMAIN pc' = Procs, DOMAIN back' = Procs, clt' \in Clients,
         link' \in [Clients -> Links], events' \in [Procs -> Seq(Happenings)],
         EventsKnown', Behind'
  PROVE  WakeInv'
<1>1. WakeType'
  BY DEF WakeInv, WakeType, nicVars
<1> QED
  BY <1>1, QuietStep DEF WakeInv

(* A client that moves to a place where it has asked for events, or need not. *)
LEMMA ClientBehind ==
  ASSUME WakeType, Behind, NEW c \in Clients, NEW place,
         UNCHANGED <<back, clt, notify>>, pc' = [pc EXCEPT ![c] = place],
         place \in {"events", "gone", "dead"} \/ Up(c),
         \A d \in Clients : /\ link'[d] # "none" => Up(d)
                            /\ link'[d] \in {"accepted", "use"} => Up(Server)
  PROVE  Behind' /\ DOMAIN pc' = Procs
<1>1. \A p \in Procs : Up(p)' <=> Up(p)
  BY DEF Up
<1>2. c \in Procs /\ Server \in Procs /\ c # Server /\ Clients \subseteq Procs
  BY Owners
<1>3. /\ pc'[Server] = pc[Server] /\ pc'[c] = place
      /\ \A d \in Clients : d # c => pc'[d] = pc[d]
  BY <1>2 DEF WakeType
<1>4. DOMAIN pc' = Procs
  BY DEF WakeType
<1>5. clt' \in Procs
  BY <1>2 DEF WakeType
<1> QED
  BY <1>1, <1>2, <1>3, <1>4, <1>5 DEF Behind, Accepting

(* The other steps of a client. *)
LEMMA ClientMoves ==
  ASSUME WakeInv, NEW c \in Clients,
         \/ ConnectToServer(c) \/ OnRouteResolved(c) \/ OnUnknownEvent(c) \/ ClientReady(c)
         \/ ClientDisconnect(c) \/ OnDisconnected(c)
  PROVE  WakeInv'
<1>0. WakeType /\ UpFirst /\ WakeUp /\ EventsKnown /\ Behind /\ c \in Procs /\ c # Server
  BY Owners DEF WakeInv
<1>1. UNCHANGED <<nicVars, polling, back, clt, notify>>
  BY DEF ConnectToServer, OnRouteResolved, OnUnknownEvent, ClientReady, ClientDisconnect,
         OnDisconnected, pollVars, nicVars
<1>2. \A p \in Procs : Up(p) => Up(p)'
  BY <1>1 DEF Up
<1>3. \A d \in Clients : /\ link[d] # "none" => Up(d)
                         /\ link[d] \in {"accepted", "use"} => Up(Server)
  BY <1>0 DEF Behind
<1>4. CASE ConnectToServer(c)
  <2> DEFINE ev == Event("ADDR_RESOLVED", c)
  <2>1. events' = [events EXCEPT ![c] = Append(@, ev)] /\ pc' = [pc EXCEPT ![c] = "events"] /\ UNCHANGED link
    BY <1>4 DEF ConnectToServer
  <2>2. ev \in Happenings /\ Known(c, ev)'
    BY DEF Event, Happenings, EventTypes, Known
  <2>3. EventsKnown' /\ events' \in [Procs -> Seq(Happenings)]
    BY <1>0, <1>2, <2>1, <2>2, EventAdded
  <2>4. Behind' /\ DOMAIN pc' = Procs
    BY <1>0, <1>1, <1>3, <2>1, ClientBehind
  <2> QED
    BY <1>0, <1>1, <2>1, <2>3, <2>4, QuietWakes DEF WakeType
<1>5. CASE OnRouteResolved(c)
  <2>1. /\ NextEvent(c, "ROUTE_RESOLVED") /\ events' = Took(c) /\ events[c] # << >>
        /\ link' = [link EXCEPT ![c] = "request"] /\ UNCHANGED pc
    BY <1>5 DEF OnRouteResolved, NextEvent
  <2>2. Up(c)
    BY <1>0, <2>1, NextKnown DEF Known
  <2>3. EventsKnown' /\ events' \in [Procs -> Seq(Happenings)]
    BY <1>0, <1>2, <2>1, EventTaken
  <2>4. link' \in [Clients -> Links]
    BY <1>0, <2>1 DEF WakeType, Links
  <2>5. \A d \in Clients : /\ link'[d] # "none" => Up(d)'
                           /\ link'[d] \in {"accepted", "use"} => Up(Server)'
    BY <1>0, <1>1, <1>3, <2>1, <2>2 DEF WakeType, Up
  <2>6. Behind'
    BY <1>0, <1>1, <1>2, <2>1, <2>5, Owners DEF Behind, Accepting, WakeType
  <2> QED
    BY <1>0, <1>1, <2>1, <2>3, <2>4, <2>6, QuietWakes DEF WakeType
<1>6. CASE OnUnknownEvent(c)
  <2>1. events[c] # << >> /\ events' = Took(c) /\ pc' = [pc EXCEPT ![c] = "dead"] /\ UNCHANGED link
    BY <1>6 DEF OnUnknownEvent, NextEvent
  <2>2. EventsKnown' /\ events' \in [Procs -> Seq(Happenings)]
    BY <1>0, <1>2, <2>1, EventTaken
  <2>3. Behind' /\ DOMAIN pc' = Procs
    BY <1>0, <1>1, <1>3, <2>1, ClientBehind
  <2> QED
    BY <1>0, <1>1, <2>1, <2>2, <2>3, QuietWakes DEF WakeType
<1>7. CASE ClientReady(c)
  <2>1. pc[c] = "ready" /\ pc' = [pc EXCEPT ![c] = "run"] /\ UNCHANGED <<link, events>>
    BY <1>7 DEF ClientReady, cmVars
  <2>2. Up(c)
    BY <1>0, <2>1 DEF Behind
  <2>3. Behind' /\ DOMAIN pc' = Procs
    BY <1>0, <1>1, <1>3, <2>1, <2>2, ClientBehind
  <2> QED
    BY <1>0, <1>1, <1>2, <2>1, <2>3, EventsKept, QuietWakes DEF WakeType
<1>8. CASE ClientDisconnect(c)
  <2>1. Disconnect(c) /\ pc' = [pc EXCEPT ![c] = "events"]
    BY <1>8 DEF ClientDisconnect
  <2>2. /\ EventsKnown' /\ events' \in [Procs -> Seq(Happenings)]
        /\ link' \in [Clients -> Links]
        /\ \A d \in Clients : link'[d] # link[d] => link[d] = "up" /\ link'[d] = "down"
    BY <1>0, <1>1, <2>1, DisconnectKnown
  <2>3. Behind' /\ DOMAIN pc' = Procs
    <3>1. \A d \in Clients : /\ link'[d] # "none" => Up(d)
                             /\ link'[d] \in {"accepted", "use"} => Up(Server)
      BY <1>3, <2>2
    <3> QED
      BY <1>0, <1>1, <2>1, <3>1, ClientBehind
  <2> QED
    BY <1>0, <1>1, <2>2, <2>3, QuietWakes DEF WakeType
<1>9. CASE OnDisconnected(c)
  <2>1. events[c] # << >> /\ events' = Took(c) /\ pc' = [pc EXCEPT ![c] = "gone"] /\ UNCHANGED link
    BY <1>9 DEF OnDisconnected, NextEvent
  <2>2. EventsKnown' /\ events' \in [Procs -> Seq(Happenings)]
    BY <1>0, <1>2, <2>1, EventTaken
  <2>3. Behind' /\ DOMAIN pc' = Procs
    BY <1>0, <1>1, <1>3, <2>1, ClientBehind
  <2> QED
    BY <1>0, <1>1, <2>1, <2>2, <2>3, QuietWakes DEF WakeType
<1> QED
  BY <1>4, <1>5, <1>6, <1>7, <1>8, <1>9

\* No step of a client breaks the invariant.
LEMMA ClientWakes ==
  ASSUME WakeInv, NEW c \in Clients, Client(c)
  PROVE  WakeInv'
<1>1. c \in Procs
  BY Owners
<1> QED
  BY <1>1, AddrResolvedWakes, ClientPosts, ClientMoves, PollsWake DEF Client

-------------------------------------------------------------------------------
(* The server. *)

(* The server moves to a place where it has asked for events, or need not.    *)
LEMMA ServerBehind ==
  ASSUME WakeType, Behind, NEW place,
         pc' = [pc EXCEPT ![Server] = place],
         \A p \in Procs : Up(p) => Up(p)',
         place \in {"events", "gone"} \/ Up(Server)',
         \A d \in Clients : link'[d] # link[d] =>
           Up(d)' /\ (link'[d] \in {"accepted", "use"} => Up(Server)'),
         Accepting' => Up(clt)'
  PROVE  Behind' /\ DOMAIN pc' = Procs
<1>1. Server \in Procs /\ Server \notin Clients /\ Clients \subseteq Procs
  BY Owners
<1>2. /\ DOMAIN pc' = Procs /\ pc'[Server] = place
      /\ \A d \in Clients : pc'[d] = pc[d]
  BY <1>1 DEF WakeType
<1> QED
  BY <1>1, <1>2 DEF Behind

(* It posts at one of its ends. *)
LEMMA ServerPosting ==
  ASSUME WakeInv, UNCHANGED <<flying, cqSend, cqRecv, polling>>,
         \A p \in Procs : notify'[p] = notify[p] \/ (~Up(p) /\ Up(p)'),
         notify' \in [Procs -> {"none", "armed", "event"}],
         Up(Server)',
         recvs' \in [Ends -> Nat], DOMAIN posted' = Ends,
         \A e \in Ends : e[1] # "server" => recvs'[e] = recvs[e] /\ posted'[e] = posted[e],
         DOMAIN pc' = Procs, DOMAIN back' = Procs, clt' \in Clients,
         link' \in [Clients -> Links], events' \in [Procs -> Seq(Happenings)],
         EventsKnown', Behind'
  PROVE  WakeInv'
<1>1. WakeType /\ UpFirst /\ WakeUp
  BY DEF WakeInv
<1>2. WakeType'
  BY <1>1 DEF WakeType
<1>3. \A e \in Ends : Up(Owner(e))' \/ (recvs'[e] = recvs[e] /\ posted'[e] = posted[e])
  <2> SUFFICES ASSUME NEW e \in Ends, e[1] = "server"
               PROVE  Up(Owner(e))'
    OBVIOUS
  <2>1. Owner(e) = Server
    BY DEF Owner
  <2>2. Owner(e)' = Owner(e)
    BY DEF Owner, Server
  <2> QED
    BY <2>1, <2>2
<1> QED
  BY <1>1, <1>2, <1>3, PostingStep DEF WakeInv

\* Neither does the request of a connection, which arms the channel of the server.
LEMMA ConnectRequestWakes ==
  ASSUME WakeInv, OnConnectRequest
  PROVE  WakeInv'
<1>0. WakeType /\ EventsKnown /\ Behind /\ Server \in Procs /\ Server \notin Clients
  BY Owners DEF WakeInv
<1>1. PICK c : /\ c = Head(events[Server]).clt
               /\ NextEvent(Server, "CONNECT_REQUEST") /\ events[Server] # << >>
               /\ events' = Took(Server) /\ clt' = c /\ Armed(Server)
               /\ recvs' = [recvs EXCEPT ![<<"server", c>>] = @ + 1]
               /\ UNCHANGED <<link, posted, flying, cqSend, cqRecv>>
  BY DEF OnConnectRequest, PostReceive, NextEvent
<1>2. /\ UNCHANGED polling /\ back' = [back EXCEPT ![Server] = "accept"]
      /\ \/ pc' = [pc EXCEPT ![Server] = "drain"]
         \/ pc' = [pc EXCEPT ![Server] = "accept"]
  BY DEF OnConnectRequest, WaitSome
<1>3. Head(events[Server]) \in Happenings /\ Known(Server, Head(events[Server]))
      /\ Head(events[Server]).type = "CONNECT_REQUEST"
  BY <1>0, <1>1, NextKnown
<1>4. c \in Clients /\ Up(c)
  BY <1>1, <1>3 DEF Known, Happenings
<1>5. /\ notify' \in [Procs -> {"none", "armed", "event"}] /\ Up(Server)'
      /\ \A q \in Procs : notify'[q] = notify[q] \/ (~Up(q) /\ Up(q)')
  BY <1>0, <1>1, ArmedUp
<1>6. \A q \in Procs : Up(q) => Up(q)'
  BY <1>5 DEF Up
<1>7. EventsKnown' /\ events' \in [Procs -> Seq(Happenings)]
  BY <1>0, <1>1, <1>6, EventTaken
<1> DEFINE e == <<"server", c>>
<1>8. /\ recvs' \in [Ends -> Nat] /\ DOMAIN posted' = Ends
      /\ \A f \in Ends : f[1] # "server" => recvs'[f] = recvs[f] /\ posted'[f] = posted[f]
  <2>1. e \in Ends /\ e[1] = "server" /\ recvs' = [recvs EXCEPT ![e] = @ + 1]
    BY <1>1, <1>4, Owners
  <2> HIDE DEF e
  <2>2. recvs \in [Ends -> Nat] /\ DOMAIN posted' = Ends /\ UNCHANGED posted
    BY <1>0, <1>1 DEF WakeType
  <2>3. recvs' \in [Ends -> Nat] /\ \A f \in Ends : f # e => recvs'[f] = recvs[f]
    BY <2>1, <2>2
  <2> QED
    BY <2>1, <2>2, <2>3
<1>9. Behind' /\ DOMAIN pc' = Procs
  <2>1. Up(clt)'
    <3>1. c \in Procs
      BY <1>4, Owners
    <3>2. Up(c)'
      BY <1>4, <1>6, <3>1
    <3> QED
      BY <1>1, <3>2 DEF Up
  <2>2. \A d \in Clients : link'[d] = link[d]
    BY <1>1
  <2> QED
    BY <1>0, <1>2, <1>5, <1>6, <2>1, <2>2, ServerBehind
<1>10. DOMAIN back' = Procs /\ clt' \in Clients /\ link' \in [Clients -> Links]
  BY <1>0, <1>1, <1>2, <1>4 DEF WakeType
<1> QED
  BY <1>1, <1>2, <1>5, <1>7, <1>8, <1>9, <1>10, ServerPosting

(* The other steps of the server that post, or only move it, all leave the    *)
(* completion channels alone and, behind build_connection, are not about to *)
(* accept a connection.                                                    *)
LEMMA ServerMoves ==
  ASSUME WakeInv, UNCHANGED <<flying, cqSend, cqRecv, polling, notify, recvs>>,
         DOMAIN posted' = Ends, \A e \in Ends : e[1] # "server" => posted'[e] = posted[e],
         Up(Server),
         NEW place, pc' = [pc EXCEPT ![Server] = place], place # "accept",
         DOMAIN back' = Procs, back'[Server] # "accept" \/ place \notin {"wait", "drain"},
         clt' \in Clients,
         \A d \in Clients : link'[d] # link[d] => link[d] = "up" /\ link'[d] = "down",
         link' \in [Clients -> Links], events' \in [Procs -> Seq(Happenings)],
         EventsKnown'
  PROVE  WakeInv'
<1>0. WakeType /\ Behind /\ Server \in Procs /\ Clients \subseteq Procs
  BY Owners DEF WakeInv
<1>1. /\ \A p \in Procs : Up(p)' <=> Up(p)
      /\ notify' \in [Procs -> {"none", "armed", "event"}] /\ recvs' \in [Ends -> Nat]
  BY <1>0 DEF Up, WakeType
<1>2. ~Accepting'
  BY <1>0 DEF Accepting, WakeType
<1>3. Behind' /\ DOMAIN pc' = Procs
  <2>1. \A d \in Clients : link'[d] # link[d] =>
          Up(d)' /\ (link'[d] \in {"accepted", "use"} => Up(Server)')
    BY <1>0, <1>1 DEF Behind
  <2> QED
    BY <1>0, <1>1, <1>2, <2>1, ServerBehind
<1>4. Up(Server)'
  BY <1>0, <1>1
<1> QED
  BY <1>1, <1>3, <1>4, ServerPosting

(* Where the loop of cfio_comm goes on. *)
Turns ==
  /\ clt' \in Clients /\ UNCHANGED polling
  /\ \E place \in {"wait", "drain", "visit"}, next \in {"disconnect", "visit"} :
       pc' = [pc EXCEPT ![Server] = place] /\ back' = [back EXCEPT ![Server] = next]

(* The server's steps between the visits of the clients. *)
LEMMA TurnWakes ==
  ASSUME WakeInv, Turns, Up(Server),
         UNCHANGED <<recvs, flying, cqSend, cqRecv, notify, link, events>>,
         DOMAIN posted' = Ends, \A e \in Ends : e[1] # "server" => posted'[e] = posted[e]
  PROVE  WakeInv'
<1>0. WakeType /\ EventsKnown /\ Server \in Procs
  BY Owners DEF WakeInv
<1>1. PICK place \in {"wait", "drain", "visit"}, next \in {"disconnect", "visit"} :
        pc' = [pc EXCEPT ![Server] = place] /\ back' = [back EXCEPT ![Server] = next]
  BY DEF Turns
<1>2. DOMAIN back' = Procs /\ back'[Server] # "accept"
  BY <1>0, <1>1 DEF WakeType
<1>3. EventsKnown' /\ events' \in [Procs -> Seq(Happenings)] /\ link' \in [Clients -> Links]
  BY <1>0, EventsKept DEF Up, WakeType
<1> QED
  BY <1>1, <1>2, <1>3, ServerMoves DEF Turns

\* Neither does a visit of the server.
LEMMA VisitWakes ==
  ASSUME WakeInv, NEW i \in Clients, Visit(i)
  PROVE  WakeInv'
<1>0. WakeType /\ Behind /\ 0 \in Clients
  BY Owners DEF WakeInv
<1>1. Visits(i)
  BY DEF Visit, VisitReads, VisitAcks, VisitEnds, VisitNothing
<1>2. Up(Server) /\ UNCHANGED <<recvs, flying, cqSend, cqRecv, notify, link, events>>
  BY <1>0, <1>1 DEF Visits, Behind, cmVars
<1>3. Turns
  BY <1>0 DEF Visit, VisitReads, VisitAcks, VisitEnds, VisitNothing, NextTurn, WaitAll, WaitSome,
              Turns
<1>4. \/ UNCHANGED posted
      \/ \E e, r : e[1] = "server" /\ posted' = [posted EXCEPT ![e] = r]
  BY DEF Visit, VisitReads, VisitAcks, VisitEnds, VisitNothing, Post
<1>5. DOMAIN posted' = Ends /\ \A e \in Ends : e[1] # "server" => posted'[e] = posted[e]
  BY <1>0, <1>4 DEF WakeType
<1> QED
  BY <1>2, <1>3, <1>5, TurnWakes

\* Neither does any other step of the server.
LEMMA ServerWakes ==
  ASSUME WakeInv, ServerStep
  PROVE  WakeInv'
<1>0. /\ WakeType /\ UpFirst /\ WakeUp /\ EventsKnown /\ Behind
      /\ Server \in Procs /\ Server \notin Clients /\ Clients \subseteq Procs /\ 0 \in Clients
  BY Owners DEF WakeInv
<1>1. CASE TellAddress
  <2>1. UNCHANGED <<nicVars, polling, back, clt, link, events>> /\ pc' = [pc EXCEPT ![Server] = "events"]
    BY <1>1 DEF TellAddress, pollVars, cmVars
  <2>2. (\A p \in Procs : Up(p) => Up(p)') /\ ~Accepting'
    BY <1>0, <2>1 DEF Up, nicVars, Accepting, WakeType
  <2>3. Behind' /\ DOMAIN pc' = Procs
    BY <1>0, <2>1, <2>2, ServerBehind
  <2> QED
    BY <1>0, <2>1, <2>2, <2>3, EventsKept, QuietWakes DEF WakeType
<1>2. CASE OnConnectRequest
  BY <1>2, ConnectRequestWakes
<1>3. CASE Accept
  <2>1. PICK c \in Clients : c = clt
    BY <1>0 DEF WakeType
  <2> DEFINE ev == Event("ESTABLISHED", c)
  <2>2. /\ UNCHANGED <<nicVars, polling, back, clt>> /\ pc[Server] = "accept"
        /\ pc' = [pc EXCEPT ![Server] = "events"]
        /\ link' = [link EXCEPT ![c] = "accepted"]
        /\ events' = [events EXCEPT ![c] = Append(@, ev)]
    BY <1>3, <2>1 DEF Accept, pollVars
  <2>3. Up(c) /\ Up(Server)
    BY <1>0, <2>1, <2>2 DEF Behind, Accepting
  <2>4. (\A p \in Procs : Up(p) => Up(p)') /\ ~Accepting'
    BY <1>0, <2>2 DEF Up, nicVars, Accepting, WakeType
  <2>5. Up(c)' /\ Up(Server)'
    BY <1>0, <2>3, <2>4
  <2>6. EventsKnown' /\ events' \in [Procs -> Seq(Happenings)]
    <3>1. ev \in Happenings /\ Known(c, ev)'
      BY <2>5 DEF Event, Happenings, EventTypes, Known
    <3> HIDE DEF ev
    <3> QED
      BY <1>0, <2>2, <2>4, <3>1, EventAdded
  <2>7. link' \in [Clients -> Links] /\ \A d \in Clients : link'[d] # link[d] => d = c
    BY <1>0, <2>2 DEF WakeType, Links
  <2>8. Behind' /\ DOMAIN pc' = Procs
    BY <1>0, <2>2, <2>4, <2>5, <2>7, ServerBehind
  <2> QED
    BY <1>0, <2>2, <2>6, <2>7, <2>8, QuietWakes DEF WakeType
<1>4. CASE OnEstablished
  <2>1. PICK c : /\ NextEvent(Server, "ESTABLISHED") /\ events[Server] # << >>
                 /\ events' = Took(Server) /\ clt' = c /\ c = Head(events[Server]).clt
                 /\ Post(<<"server", c>>, "mr", MemoryOf(<<"server", c>>))
                 /\ UNCHANGED <<link, recvs, flying, cqSend, cqRecv, notify>>
    BY <1>4 DEF OnEstablished, NextEvent
  <2>2. /\ UNCHANGED polling /\ back' = [back EXCEPT ![Server] = "count"]
        /\ \E place \in {"drain", "count"} : pc' = [pc EXCEPT ![Server] = place]
    BY <1>4 DEF OnEstablished, WaitSome
  <2>3. c \in Clients /\ Up(Server)
    BY <1>0, <2>1, NextKnown DEF Known, Happenings
  <2>4. DOMAIN posted' = Ends /\ \A e \in Ends : e[1] # "server" => posted'[e] = posted[e]
    <3>1. \E r : posted' = [posted EXCEPT ![<<"server", c>>] = r]
      BY <2>1 DEF Post
    <3> QED
      BY <1>0, <3>1 DEF WakeType
  <2>5. EventsKnown' /\ events' \in [Procs -> Seq(Happenings)]
    BY <1>0, <2>1, EventTaken DEF Up
  <2>6. DOMAIN back' = Procs /\ back'[Server] = "count" /\ link' \in [Clients -> Links]
    BY <1>0, <2>1, <2>2 DEF WakeType
  <2>7. PICK place \in {"drain", "count"} : pc' = [pc EXCEPT ![Server] = place]
    BY <2>2
  <2> QED
    BY <2>1, <2>2, <2>3, <2>4, <2>5, <2>6, <2>7, ServerMoves
<1>5. CASE CountEstablished
  <2>1. /\ Up(Server)
        /\ UNCHANGED <<posted, flying, cqSend, cqRecv, polling, notify, recvs, link, events, clt>>
    BY <1>0, <1>5 DEF CountEstablished, Behind, WaitAll, pollVars, nicVars, cmVars
  <2>2. \/ pc' = [pc EXCEPT ![Server] = "wait"] /\ back' = [back EXCEPT ![Server] = "ready"]
        \/ pc' = [pc EXCEPT ![Server] = "events"] /\ UNCHANGED back
    BY <1>5 DEF CountEstablished, WaitAll, pollVars
  <2>3. /\ DOMAIN posted' = Ends /\ clt' \in Clients /\ link' \in [Clients -> Links]
        /\ EventsKnown' /\ events' \in [Procs -> Seq(Happenings)] /\ DOMAIN back' = Procs
    BY <1>0, <2>1, <2>2, EventsKept DEF WakeType, Up
  <2>4. CASE pc' = [pc EXCEPT ![Server] = "wait"] /\ back' = [back EXCEPT ![Server] = "ready"]
    <3>1. back'[Server] = "ready"
      BY <1>0, <2>4 DEF WakeType
    <3> QED
      BY <2>1, <2>3, <2>4, <3>1, ServerMoves
  <2>5. CASE pc' = [pc EXCEPT ![Server] = "events"] /\ UNCHANGED back
    BY <2>1, <2>3, <2>5, ServerMoves
  <2> QED
    BY <2>2, <2>4, <2>5
<1>6. CASE ServerReady
  <2>1. Up(Server) /\ UNCHANGED <<posted, flying, cqSend, cqRecv, notify, recvs, link, events>>
    BY <1>0, <1>6 DEF ServerReady, Behind, nicVars, cmVars
  <2>2. Turns
    BY <1>0, <1>6 DEF ServerReady, NextTurn, WaitAll, WaitSome, Turns
  <2>3. DOMAIN posted' = Ends
    BY <1>0, <2>1 DEF WakeType
  <2> QED
    BY <2>1, <2>2, <2>3, TurnWakes
<1>7. ASSUME NEW i \in Clients, Visit(i)
      PROVE  WakeInv'
  BY <1>7, VisitWakes
<1>8. CASE ServerDisconnect
  <2>1. /\ Up(Server) /\ pc[Server] = "disconnect"
        /\ UNCHANGED <<back, posted, flying, cqSend, cqRecv, polling, notify, recvs>>
    BY <1>0, <1>8 DEF ServerDisconnect, Behind, pollVars, nicVars
  <2>2. PICK c \in Clients : Disconnect(c)
    BY <1>8 DEF ServerDisconnect
  <2>3. /\ EventsKnown' /\ events' \in [Procs -> Seq(Happenings)]
        /\ link' \in [Clients -> Links]
        /\ \A d \in Clients : link'[d] # link[d] => link[d] = "up" /\ link'[d] = "down"
    BY <1>0, <2>1, <2>2, DisconnectKnown
  <2>4. clt' \in Clients
    <3>1. clt \in 0..(ClientNum - 1) /\ (clt' = clt \/ (clt + 1 # ClientNum /\ clt' = clt + 1))
      BY <1>0, <1>8 DEF ServerDisconnect, WakeType, Clients
    <3> QED
      BY <3>1, ConnectionAssumption DEF Clients
  <2>5. CASE pc' = [pc EXCEPT ![Server] = "events"]
    <3>1. DOMAIN posted' = Ends /\ DOMAIN back' = Procs
      BY <1>0, <2>1 DEF WakeType
    <3> QED
      BY <2>1, <2>3, <2>4, <2>5, <3>1, ServerMoves
  <2>6. CASE UNCHANGED pc
    <3>1. UNCHANGED <<nicVars, polling>>
      BY <1>8, <2>1 DEF ServerDisconnect
    <3>2. \A p \in Procs : Up(p)' <=> Up(p)
      BY <2>1 DEF Up
    <3>3. Behind'
      BY <1>0, <2>1, <2>3, <2>6, <3>2 DEF Behind, Accepting
    <3> QED
      BY <1>0, <2>1, <2>3, <2>4, <2>6, <3>1, <3>3, QuietWakes DEF WakeType
  <2> QED
    BY <1>8, <2>5, <2>6 DEF ServerDisconnect
<1>9. CASE OnDisconnect
  <2>1. /\ UNCHANGED <<nicVars, polling, back, clt, link>>
        /\ events[Server] # << >> /\ events' = Took(Server)
    BY <1>9 DEF OnDisconnect, NextEvent, pollVars
  <2>2. PICK place \in {"events", "gone"} : pc' = [pc EXCEPT ![Server] = place]
    BY <1>9 DEF OnDisconnect
  <2>3. (\A p \in Procs : Up(p) => Up(p)') /\ ~Accepting'
    BY <1>0, <2>1, <2>2 DEF Up, nicVars, Accepting, WakeType
  <2>4. EventsKnown' /\ events' \in [Procs -> Seq(Happenings)]
    BY <1>0, <2>1, <2>3, EventTaken
  <2>5. Behind' /\ DOMAIN pc' = Procs
    BY <1>0, <2>1, <2>2, <2>3, ServerBehind
  <2> QED
    BY <1>0, <2>1, <2>4, <2>5, QuietWakes DEF WakeType
<1>10. CASE Polls(Server)
  BY <1>0, <1>10, PollsWake
<1> QED
  BY <1>1, <1>2, <1>3, <1>4, <1>5, <1>6, <1>7, <1>8, <1>9, <1>10 DEF ServerStep

-------------------------------------------------------------------------------
(* The connection manager tells the server of a request whose client has     *)
(* built its end, and of an answer to a connection the server has accepted.  *)
LEMMA ManagerWakes ==
  ASSUME WakeInv, Manager
  PROVE  WakeInv'
<1>0. /\ WakeType /\ EventsKnown /\ Behind
      /\ Server \in Procs /\ Server \notin Clients /\ Clients \subseteq Procs
  BY Owners DEF WakeInv
<1>1. UNCHANGED <<pc, clt, back, polling, nicVars>> /\ (\A p \in Procs : Up(p)' <=> Up(p))
  BY DEF Manager, pollVars, nicVars, Up
<1>2. PICK c \in Clients : CmConnects(c) \/ CmRejects(c) \/ CmConfirms(c)
  BY DEF Manager
<1>3. PICK p \in {c, Server}, type \in {"CONNECT_REQUEST", "REJECTED", "ESTABLISHED"},
           l \in {"requested", "rejected", "up"} :
        /\ Notify(p, type, c) /\ link' = [link EXCEPT ![c] = l]
        /\ type = "CONNECT_REQUEST" => link[c] = "request"
        /\ type = "ESTABLISHED" => p = Server /\ link[c] = "use"
        /\ link[c] # "none"
  BY <1>2 DEF CmConnects, CmRejects, CmConfirms
<1> DEFINE ev == Event(type, c)
<1>4. ev \in Happenings /\ Known(p, ev)'
  <2>1. Up(c)' /\ (type = "ESTABLISHED" => Up(Server)')
    BY <1>0, <1>1, <1>3 DEF Behind
  <2> QED
    BY <1>3, <2>1 DEF Event, Happenings, EventTypes, Known
<1>5. events' = [events EXCEPT ![p] = Append(@, ev)]
  BY <1>3 DEF Notify
<1> HIDE DEF ev
<1>6. EventsKnown' /\ events' \in [Procs -> Seq(Happenings)]
  <2>1. p \in Procs
    BY <1>0, <1>3
  <2> QED
    BY <1>0, <1>1, <1>4, <1>5, <2>1, EventAdded
<1>7. link' \in [Clients -> Links]
  BY <1>0, <1>3 DEF WakeType, Links
<1>8. Behind'
  <2>1. \A d \in Clients : /\ link'[d] # "none" => Up(d)
                           /\ link'[d] \in {"accepted", "use"} => Up(Server)
    BY <1>0, <1>3 DEF Behind, WakeType
  <2>2. clt \in Procs
    BY <1>0 DEF WakeType
  <2> QED
    BY <1>0, <1>1, <2>1, <2>2 DEF Behind, Accepting
<1> QED
  BY <1>0, <1>1, <1>6, <1>7, <1>8, QuietWakes DEF WakeType

(* At the start nobody has asked for events, and nothing is under way.        *)
LEMMA WakeInit == Init => WakeInv
<1> SUFFICES ASSUME Init
             PROVE  WakeInv
  OBVIOUS
<1>1. \A e \in Ends : Still(e) /\ cqSend[e] + cqRecv[e] = 0
  BY DEF Init, Still
<1>2. UpFirst /\ WakeUp
  BY <1>1 DEF UpFirst, WakeUp, HasCompletions
<1>3. WakeType
  <2>1. 0 \in Clients
    BY Owners
  <2> QED
    BY <2>1 DEF Init, WakeType, Links
<1>4. EventsKnown
  BY DEF Init, EventsKnown
<1>5. Behind
  BY Owners DEF Init, Behind, Accepting
<1> QED
  BY <1>2, <1>3, <1>4, <1>5 DEF WakeInv

(* The invariant holds for ever. *)
LEMMA WakeAlways == Spec => []WakeInv
<1>1. Init => WakeInv
  BY WakeInit
<1>2. WakeInv /\ [Next]_vars => WakeInv'
  <2> SUFFICES ASSUME WakeInv, [Next]_vars
               PROVE  WakeInv'
    OBVIOUS
  <2>1. CASE ServerStep
    BY <2>1, ServerWakes
  <2>2. CASE \E c \in Clients : Client(c)
    BY <2>2, ClientWakes
  <2>3. CASE Manager
    BY <2>3, ManagerWakes
  <2>4. CASE \E e \in Ends : Nic(e)
    BY <2>4, NicWakes
  <2>5. CASE UNCHANGED vars
    <3>1. UNCHANGED <<nicVars, pc, back, polling, clt, link, events>>
      BY <2>5 DEF vars, pollVars, cmVars
    <3>2. EventsKnown' /\ Behind'
      BY <3>1, NicStep DEF Up, nicVars
    <3> QED
      BY <3>1, <3>2, QuietWakes DEF WakeInv, WakeType
  <2> QED
    BY <2>1, <2>2, <2>3, <2>4, <2>5 DEF Next, Others, Terminating
<1> QED
  BY <1>1, <1>2, PTL DEF Spec

(* A process never sleeps in ibv_get_cq_event over completions it could take, *)
(* though it asks for the next event before it has emptied its completion    *)
(* queue, and polls the queue only where it waits (rdma_server.c:681-697,     *)
(* rdma_client.c:537-554).                                                 *)
THEOREM WakeUpCorrect == Spec => []WakeUp
<1>1. WakeInv => WakeUp
  BY DEF WakeInv
<1> QED
  BY <1>1, WakeAlways, PTL

-------------------------------------------------------------------------------
(***************************************************************************)
(* The life of the connections: where the two ends of every connection and *)
(* the connection manager are.                                             *)
(***************************************************************************)

(* The ends of a connection. *)
S(c) == <<"server", c>>
K(c) == <<"client", c>>

(* An event in the channel of the server. *)
Queued(type, c) == \E i \in DOMAIN events[Server] : events[Server][i] = Event(type, c)

OnceEach == \A i, j \in DOMAIN events[Server] : events[Server][i] = events[Server][j] => i = j

LifeType ==
  /\ pc \in [Procs -> States] /\ back \in [Procs -> States \cup {"none"}]
  /\ goal \in [Procs -> Nat] /\ estCnt \in Nat /\ disCnt \in Nat
  /\ conns \in Seq(Clients) /\ life \in [Ends -> {"none", "built", "freed"}]

(* A client, with what is in its channel. *)
InUse == {"wait", "ready", "run", "published", "disconnect", "events"}

ClientAt(c) ==
  /\ \/ /\ link[c] = "none" /\ pc[c] = "start" /\ events[c] = << >> /\ life[K(c)] = "none"
     \/ /\ link[c] = "none" /\ pc[c] = "events" /\ events[c] = <<Event("ADDR_RESOLVED", c)>>
        /\ life[K(c)] = "none"
     \/ /\ link[c] = "none" /\ pc[c] = "events" /\ events[c] = <<Event("ROUTE_RESOLVED", c)>>
        /\ life[K(c)] = "built"
     \/ /\ link[c] \in {"request", "requested"} /\ pc[c] = "events" /\ events[c] = << >>
        /\ life[K(c)] = "built"
     \/ /\ link[c] = "rejected" /\ pc[c] = "events" /\ events[c] = <<Event("REJECTED", c)>>
        /\ life[K(c)] = "built"
     \/ /\ link[c] = "rejected" /\ pc[c] = "dead" /\ events[c] = << >> /\ life[K(c)] = "built"
     \/ /\ link[c] = "accepted" /\ pc[c] = "events" /\ events[c] = <<Event("ESTABLISHED", c)>>
        /\ life[K(c)] = "built"
     \/ /\ link[c] \in {"use", "up"} /\ pc[c] \in InUse /\ events[c] = << >>
        /\ life[K(c)] = "built"
     \/ /\ link[c] = "down" /\ pc[c] \in InUse /\ events[c] = <<Event("DISCONNECTED", c)>>
        /\ life[K(c)] = "built"
     \/ /\ link[c] = "down" /\ pc[c] = "gone" /\ events[c] = << >> /\ life[K(c)] = "freed"
  /\ pc[c] = "wait" => back[c] \in {"ready", "published", "disconnect"} /\ goal[c] = 0

(* The end of c's connection at the server, and what the server is to hear.   *)
ServerLink(c) ==
  /\ life[S(c)] = "none" => link[c] \in {"none", "request", "requested", "rejected"}
  /\ life[S(c)] = "built" => \/ link[c] \in {"accepted", "use", "up", "down"}
                             \/ link[c] = "requested" /\ Accepting /\ clt = c
  /\ life[S(c)] = "freed" => link[c] = "down"
  /\ Queued("CONNECT_REQUEST", c) => link[c] = "requested" /\ life[S(c)] = "none"
  /\ Queued("ESTABLISHED", c) => link[c] \in {"up", "down"}
  /\ Queued("DISCONNECTED", c) => link[c] = "down" /\ life[S(c)] = "built"
  /\ Accepting /\ clt = c => link[c] = "requested" /\ life[S(c)] = "built"

(* The server.  Past the counting all connections are established. *)
To(p) == IF Waiting(p) THEN back[p] ELSE pc[p]

ServerAt ==
  /\ pc[Server] \in {"tell", "events", "wait", "drain", "accept", "count", "ready", "visit",
                     "disconnect", "gone"}
  /\ pc[Server] = "wait" => back[Server] \in {"ready", "disconnect"} /\ goal[Server] = 0
  /\ pc[Server] = "drain" => back[Server] \in {"accept", "count", "visit"}

(* Connections are built once each. *)
Conns ==
  /\ \A i, j \in DOMAIN conns : conns[i] = conns[j] => i = j
  /\ \A c \in Clients : life[S(c)] # "none" <=> \E i \in DOMAIN conns : conns[i] = c

LifeInv ==
  /\ LifeType /\ OnceEach /\ ServerAt /\ Conns
  /\ \A c \in Clients : ClientAt(c) /\ ServerLink(c)

lifeVars == <<pc, back, goal, link, events, life, conns, clt, estCnt, disCnt>>

\* Names of ends are told apart.
LEMMA EndNames ==
  /\ \A c \in Clients : K(c) \in Ends /\ S(c) \in Ends
  /\ \A c, d : K(c) # S(d)
  /\ \A c, d : c # d => K(c) # K(d) /\ S(c) # S(d)
  /\ \A e \in Ends : \E c \in Clients : e = K(c) \/ e = S(c)
<1>1. \A c, d : K(c) # S(d) /\ (c # d => K(c) # K(d) /\ S(c) # S(d))
  BY DEF K, S
<1>2. \A c \in Clients : K(c) \in Ends /\ S(c) \in Ends
  BY DEF K, S, Ends
<1>3. ASSUME NEW e \in Ends PROVE \E c \in Clients : e = K(c) \/ e = S(c)
  BY DEF K, S, Ends
<1>4. QED
  BY <1>1, <1>2, <1>3

\* An event of a client tells type and client.
LEMMA EventNames ==
  /\ \A t, u, c, d : Event(t, c) = Event(u, d) <=> t = u /\ c = d
  /\ \A t \in EventTypes, c \in Clients : Event(t, c) \in Happenings
  /\ \A t, c : Event(t, c).type = t /\ Event(t, c).clt = c
  /\ \A ev \in Happenings : ev = Event(ev.type, ev.clt) /\ ev.clt \in Clients
BY DEF Event, Happenings

\* The server takes an event.
LEMMA QueueTake ==
  ASSUME WakeType, OnceEach, NEW type, NextEvent(Server, type),
         events'[Server] = Tail(events[Server])
  PROVE  /\ \E c \in Clients : /\ Head(events[Server]) = Event(type, c)
                               /\ Queued(type, c) /\ ~Queued(type, c)'
         /\ \A t, d : Queued(t, d)' => Queued(t, d)
         /\ OnceEach'
<1>1. /\ events[Server] \in Seq(Happenings) /\ events[Server] # << >>
      /\ Head(events[Server]).type = type
  BY Owners DEF WakeType, NextEvent
<1>2. PICK q : q = events[Server]
  OBVIOUS
<1>3. q \in Seq(Happenings) /\ q # << >> /\ Head(q) \in Happenings /\ Len(q) \in Nat /\ Len(q) > 0
  BY <1>1, <1>2
<1>4. /\ Tail(q) \in Seq(Happenings) /\ DOMAIN Tail(q) = 1..(Len(q) - 1) /\ DOMAIN q = 1..Len(q)
      /\ \A i \in 1..(Len(q) - 1) : i + 1 \in 1..Len(q) /\ Tail(q)[i] = q[i + 1]
      /\ Head(q) = q[1]
  BY <1>3
<1>5. PICK h \in Happenings : h = q[1]
  BY <1>3, <1>4
<1>6. h = Event(type, h.clt) /\ h.clt \in Clients
  BY <1>1, <1>2, <1>4, <1>5, EventNames
<1>7. \A i, j \in 1..Len(q) : q[i] = q[j] => i = j
  BY <1>2, <1>4 DEF OnceEach
<1>8. Queued(type, h.clt)
  <2>1. 1 \in DOMAIN q /\ q[1] = Event(type, h.clt)
    BY <1>3, <1>4, <1>5, <1>6
  <2>2. QED
    BY <1>2, <2>1 DEF Queued
<1>9. ~Queued(type, h.clt)'
  <2>1. ASSUME NEW i \in 1..(Len(q) - 1), Tail(q)[i] = h PROVE FALSE
    <3>1. i + 1 = 1
      BY <1>3, <1>4, <1>5, <1>7, <2>1
    <3>2. QED
      BY <3>1, <1>3
  <2>2. QED
    BY <1>2, <1>4, <1>6, <2>1 DEF Queued
<1>10. ASSUME NEW t, NEW d, Queued(t, d)' PROVE Queued(t, d)
  BY <1>2, <1>4, <1>10 DEF Queued
<1>11. OnceEach'
  <2>1. ASSUME NEW i \in 1..(Len(q) - 1), NEW j \in 1..(Len(q) - 1), Tail(q)[i] = Tail(q)[j]
        PROVE  i = j
    <3>1. i + 1 = j + 1
      BY <1>4, <1>7, <2>1
    <3>2. QED
      BY <1>3, <3>1
  <2>2. \A i, j \in DOMAIN Tail(q) : Tail(q)[i] = Tail(q)[j] => i = j
    BY <1>4, <2>1, Zenon
  <2>3. events'[Server] = Tail(q)
    BY <1>2, Zenon
  <2>4. QED
    BY <2>2, <2>3, Zenon DEF OnceEach
<1>12. Head(events[Server]) = h
  BY <1>2, <1>4, <1>5, Zenon
<1>13. QED
  <2>1. PICK c \in Clients : c = h.clt
    BY <1>6
  <2>2. Head(events[Server]) = Event(type, c)
    BY <1>6, <1>12, <2>1, Zenon
  <2>3. Queued(type, c) /\ ~Queued(type, c)'
    BY <1>8, <1>9, <2>1
  <2>4. QED
    BY <1>10, <1>11, <2>2, <2>3, Zenon

\* The server is to hear of an event.
LEMMA QueueAdd ==
  ASSUME WakeType, OnceEach, NEW type \in EventTypes, NEW c \in Clients,
         ~Queued(type, c), events'[Server] = Append(events[Server], Event(type, c))
  PROVE  /\ \A t, d : Queued(t, d)' <=> Queued(t, d) \/ (t = type /\ d = c)
         /\ OnceEach'
<1>1. PICK q \in Seq(Happenings) : q = events[Server]
  BY Owners DEF WakeType
<1>2. PICK v \in Happenings : v = Event(type, c)
  BY EventNames
<1>3. PICK n \in Nat : n = Len(q)
  OBVIOUS
<1>4. /\ Append(q, v) \in Seq(Happenings) /\ DOMAIN Append(q, v) = 1..(n + 1) /\ DOMAIN q = 1..n
      /\ Append(q, v)[n + 1] = v
      /\ \A i \in 1..n : Append(q, v)[i] = q[i]
  BY <1>3
<1>5. \A i \in 1..(n + 1) : i \in 1..n \/ i = n + 1
  OBVIOUS
<1>6. n + 1 \in 1..(n + 1) /\ \A i \in 1..n : i \in 1..(n + 1)
  OBVIOUS
<1>7. \A i \in 1..n : q[i] # v
  BY <1>1, <1>2, <1>4 DEF Queued
<1>8. ASSUME NEW t, NEW d
      PROVE  Queued(t, d)' <=> Queued(t, d) \/ (t = type /\ d = c)
  <2>1. Queued(t, d) <=> \E i \in 1..n : q[i] = Event(t, d)
    BY <1>1, <1>4 DEF Queued
  <2>2. Queued(t, d)' <=> \E i \in 1..(n + 1) : Append(q, v)[i] = Event(t, d)
    BY <1>1, <1>2, <1>4 DEF Queued
  <2>3. v = Event(t, d) <=> t = type /\ d = c
    BY <1>2, EventNames
  <2>4. QED
    BY <1>4, <1>5, <1>6, <2>1, <2>2, <2>3
<1>9. OnceEach'
  <2>1. \A i, j \in 1..n : q[i] = q[j] => i = j
    BY <1>1, <1>4 DEF OnceEach
  <2>2. \A i, j \in 1..(n + 1) : Append(q, v)[i] = Append(q, v)[j] => i = j
    BY <1>4, <1>5, <1>7, <2>1
  <2>3. QED
    BY <1>1, <1>2, <1>4, <2>2 DEF OnceEach
<1>10. QED
  BY <1>8, <1>9

\* A step that is not about connections.
LEMMA LifeFrame ==
  ASSUME LifeInv, UNCHANGED lifeVars
  PROVE  LifeInv'
BY DEF LifeInv, lifeVars, LifeType, OnceEach, ServerAt, Conns, ClientAt, ServerLink, Accepting,
    Queued
-------------------------------------------------------------------------------
(* Every process keeps to its places.                                      *)

\* The types, part by part.
LEMMA LifeTypeStep ==
  ASSUME WakeType, LifeInv, [Next]_vars
  PROVE  LifeType'
<1>0. /\ LifeType /\ ServerAt /\ \A c \in Clients : ClientAt(c)
      /\ Server \in Procs /\ Clients \subseteq Procs /\ Server \notin Clients
  BY Owners DEF LifeInv
<1>1. \A p \in Procs : Waiting(p) => back[p] \in States
  <2>1. \A p \in Procs : p \in Clients \/ p = Server
    BY ConnectionAssumption DEF Procs, Clients, Server
  <2>2. Waiting(Server) => back[Server] \in States
    BY <1>0 DEF ServerAt, Waiting, States
  <2>3. \A c \in Clients : Waiting(c) => back[c] \in States
    BY <1>0 DEF ClientAt, Waiting, States, InUse
  <2>4. QED
    BY <2>1, <2>2, <2>3
<1>2. back' \in [Procs -> States \cup {"none"}]
  <2>1. CASE \E p \in Procs : Polls(p)
    BY <1>0, <2>1 DEF LifeType, Polls, GetCqEvent, PollEmpty, Drained, PollSend, PollRecv,
        pollVars, States
  <2>2. CASE \E c \in Clients : Client(c) /\ ~Polls(c)
    BY <1>0, <2>2 DEF LifeType, Client, ConnectToServer, OnAddrResolved, OnRouteResolved,
        OnConnection, OnUnknownEvent,
      ClientReady, Publish, IoDone, ClientDisconnect, OnDisconnected, WaitAll, WaitSome,
        WaitFinal, NextTurn, pollVars, States
  <2>3. CASE ServerStep /\ ~Polls(Server) /\ ~\E i \in Clients : Visit(i)
    BY <1>0, <2>3 DEF LifeType, TellAddress, OnConnectRequest, Accept, OnEstablished,
        CountEstablished, ServerReady,
      ServerDisconnect, OnDisconnect, ServerStep, WaitAll, WaitSome, WaitFinal, NextTurn,
        pollVars, States
  <2>4. CASE \E i \in Clients : Visit(i)
    BY <1>0, <2>4 DEF LifeType, Visit, Visits, VisitReads, VisitAcks, VisitEnds, VisitNothing,
        WaitAll, WaitSome, WaitFinal, NextTurn, pollVars, States
  <2>5. CASE Manager
    BY <1>0, <2>5 DEF LifeType, Manager, pollVars, States
  <2>6. CASE \E e \in Ends : Nic(e)
    BY <1>0, <2>6 DEF LifeType, Nic, Deliver, Read, Write, WriteCompletes, pollVars, States
  <2>7. CASE UNCHANGED vars
    BY <1>0, <2>7 DEF LifeType, vars, pollVars, States
  <2>8. QED
    BY <1>0, <2>1, <2>2, <2>3, <2>4, <2>5, <2>6, <2>7 DEF Next, Others, ServerStep, Client,
        Terminating
<1>8. /\ \A n, next : WaitSome(n, next) => goal' \in [Procs -> Nat]
      /\ \A p \in Procs : \A next : WaitAll(p, next) => goal' \in [Procs -> Nat]
  <2>1. PICK half \in Nat : half = MaxReqs \div 2
    BY ConnectionAssumption
  <2>2. ASSUME NEW n, NEW next, WaitSome(n, next) PROVE goal' \in [Procs -> Nat]
    <3>1. goal' = [goal EXCEPT ![Server] = IF n > MaxReqs THEN half ELSE 0]
      BY <2>1, <2>2, Zenon DEF WaitSome
    <3>2. (IF n > MaxReqs THEN half ELSE 0) \in Nat
      OBVIOUS
    <3>3. QED
      BY <1>0, <3>1, <3>2, Zenon DEF LifeType
  <2>3. ASSUME NEW p \in Procs, NEW next, WaitAll(p, next) PROVE goal' \in [Procs -> Nat]
    BY <1>0, <2>3 DEF LifeType, WaitAll
  <2>4. QED
    BY <2>2, <2>3
<1>9. \A p \in Procs, next \in States : WaitAll(p, next) => pc' \in [Procs -> States]
  BY <1>0 DEF LifeType, WaitAll, States
<1>3. goal' \in [Procs -> Nat]
  <2>1. CASE \E p \in Procs : Polls(p)
    BY <1>0, <1>8, <2>1 DEF LifeType, Polls, GetCqEvent, PollEmpty, Drained, PollSend, PollRecv,
        pollVars
  <2>2. CASE \E c \in Clients : Client(c) /\ ~Polls(c)
    BY <1>0, <1>8, <2>2 DEF LifeType, Client, ConnectToServer, OnAddrResolved, OnRouteResolved,
        OnConnection, OnUnknownEvent,
      ClientReady, Publish, IoDone, ClientDisconnect, OnDisconnected, WaitFinal, NextTurn, pollVars
  <2>3. CASE ServerStep /\ ~Polls(Server) /\ ~\E i \in Clients : Visit(i)
    BY <1>0, <1>8, <2>3 DEF LifeType, TellAddress, OnConnectRequest, Accept, OnEstablished,
        CountEstablished, ServerReady,
      ServerDisconnect, OnDisconnect, ServerStep, WaitFinal, NextTurn, pollVars
  <2>4. CASE \E i \in Clients : Visit(i)
    BY <1>0, <1>8, <2>4 DEF LifeType, Visit, Visits, VisitReads, VisitAcks, VisitEnds,
        VisitNothing, WaitFinal, NextTurn, pollVars
  <2>5. CASE Manager
    BY <1>0, <1>8, <2>5 DEF LifeType, Manager, pollVars
  <2>6. CASE \E e \in Ends : Nic(e)
    BY <1>0, <1>8, <2>6 DEF LifeType, Nic, Deliver, Read, Write, WriteCompletes, pollVars
  <2>7. CASE UNCHANGED vars
    BY <1>0, <1>8, <2>7 DEF LifeType, vars, pollVars
  <2>8. QED
    BY <1>0, <2>1, <2>2, <2>3, <2>4, <2>5, <2>6, <2>7 DEF Next, Others, ServerStep, Client,
        Terminating
<1>4. pc' \in [Procs -> States]
  <2>1. CASE \E p \in Procs : Polls(p)
    BY <1>0, <1>1, <2>1 DEF LifeType, Polls, GetCqEvent, PollEmpty, Drained, PollSend, PollRecv,
        States
  <2>2. CASE \E c \in Clients : Client(c) /\ ~Polls(c)
    BY <1>0, <1>9, <2>2 DEF LifeType, Client, ConnectToServer, OnAddrResolved, OnRouteResolved,
        OnConnection, OnUnknownEvent,
      ClientReady, Publish, IoDone, ClientDisconnect, OnDisconnected, WaitFinal, States
  <2>3. CASE ServerStep /\ ~Polls(Server) /\ ~\E i \in Clients : Visit(i)
    BY <1>0, <1>1, <2>3 DEF LifeType, TellAddress, OnConnectRequest, Accept, OnEstablished,
        CountEstablished, ServerReady,
      ServerDisconnect, OnDisconnect, ServerStep, WaitAll, WaitSome, WaitFinal, NextTurn, States
  <2>4. CASE \E i \in Clients : Visit(i)
    BY SMTT(40), <1>0, <1>1, <2>4
      DEF LifeType, Visit, Visits, VisitReads, VisitAcks, VisitEnds, VisitNothing, WaitAll,
        WaitSome,
          NextTurn, States
  <2>5. CASE Manager
    BY <1>0, <1>1, <2>5 DEF LifeType, Manager, States
  <2>6. CASE \E e \in Ends : Nic(e)
    BY <1>0, <1>1, <2>6 DEF LifeType, Nic, Deliver, Read, Write, WriteCompletes, States
  <2>7. CASE UNCHANGED vars
    BY <1>0, <1>1, <2>7 DEF LifeType, vars, States
  <2>8. QED
    BY <1>0, <2>1, <2>2, <2>3, <2>4, <2>5, <2>6, <2>7 DEF Next, Others, ServerStep, Client,
        Terminating
<1>5. estCnt' \in Nat /\ disCnt' \in Nat
  <2>1. CASE \E p \in Procs : Polls(p)
    BY <1>0, <2>1 DEF LifeType, Polls, GetCqEvent, PollEmpty, Drained, PollSend, PollRecv, countVars
  <2>2. CASE \E c \in Clients : Client(c) /\ ~Polls(c)
    BY <1>0, <2>2 DEF LifeType, Client, ConnectToServer, OnAddrResolved, OnRouteResolved,
        OnConnection, OnUnknownEvent,
      ClientReady, Publish, IoDone, ClientDisconnect, OnDisconnected, WaitAll, WaitSome,
        WaitFinal, NextTurn, countVars
  <2>3. CASE ServerStep /\ ~Polls(Server) /\ ~\E i \in Clients : Visit(i)
    BY <1>0, <2>3 DEF LifeType, TellAddress, OnConnectRequest, Accept, OnEstablished,
        CountEstablished, ServerReady,
      ServerDisconnect, OnDisconnect, ServerStep, WaitAll, WaitSome, WaitFinal, NextTurn, countVars
  <2>4. CASE \E i \in Clients : Visit(i)
    BY <1>0, <2>4 DEF LifeType, Visit, Visits, VisitReads, VisitAcks, VisitEnds, VisitNothing,
        WaitAll, WaitSome, WaitFinal, NextTurn, countVars
  <2>5. CASE Manager
    BY <1>0, <2>5 DEF LifeType, Manager, countVars
  <2>6. CASE \E e \in Ends : Nic(e)
    BY <1>0, <2>6 DEF LifeType, Nic, Deliver, Read, Write, WriteCompletes, countVars
  <2>7. CASE UNCHANGED vars
    BY <1>0, <2>7 DEF LifeType, vars, countVars
  <2>8. QED
    BY <1>0, <2>1, <2>2, <2>3, <2>4, <2>5, <2>6, <2>7 DEF Next, Others, ServerStep, Client,
        Terminating
<1>6. life' \in [Ends -> {"none", "built", "freed"}]
  <2>1. CASE \E p \in Procs : Polls(p)
    BY <1>0, <2>1 DEF LifeType, Polls, GetCqEvent, PollEmpty, Drained, PollSend, PollRecv, connVars
  <2>2. CASE \E c \in Clients : Client(c) /\ ~Polls(c)
    BY <1>0, <2>2 DEF LifeType, Client, ConnectToServer, OnAddrResolved, OnRouteResolved,
        OnConnection, OnUnknownEvent,
      ClientReady, Publish, IoDone, ClientDisconnect, OnDisconnected, connVars
  <2>3. CASE ServerStep /\ ~Polls(Server) /\ ~\E i \in Clients : Visit(i)
    BY <1>0, <2>3 DEF LifeType, TellAddress, OnConnectRequest, Accept, OnEstablished,
        CountEstablished, ServerReady,
      ServerDisconnect, OnDisconnect, ServerStep, connVars
  <2>4. CASE \E i \in Clients : Visit(i)
    BY <1>0, <2>4 DEF LifeType, Visit, Visits, VisitReads, VisitAcks, VisitEnds, VisitNothing,
        connVars
  <2>5. CASE Manager
    BY <1>0, <2>5 DEF LifeType, Manager, connVars
  <2>6. CASE \E e \in Ends : Nic(e)
    BY <1>0, <2>6 DEF LifeType, Nic, Deliver, Read, Write, WriteCompletes, connVars
  <2>7. CASE UNCHANGED vars
    BY <1>0, <2>7 DEF LifeType, vars, connVars
  <2>8. QED
    BY <1>0, <2>1, <2>2, <2>3, <2>4, <2>5, <2>6, <2>7 DEF Next, Others, ServerStep, Client,
        Terminating
<1>7. conns' \in Seq(Clients)
  <2>1. CASE OnConnectRequest
    <3>1. NextEvent(Server, "CONNECT_REQUEST") /\ conns' = Append(conns, Head(events[Server]).clt)
      BY <2>1 DEF OnConnectRequest
    <3>2. Head(events[Server]).clt \in Clients
      <4>1. events[Server] \in Seq(Happenings) /\ events[Server] # << >>
        BY <1>0, <3>1 DEF WakeType, NextEvent
      <4>2. Head(events[Server]) \in Happenings
        BY <4>1
      <4>3. QED
        BY <4>2 DEF Happenings
    <3>3. QED
      BY <1>0, <3>1, <3>2 DEF LifeType
  <2>2. CASE ~OnConnectRequest
    <3>1. conns' = conns
      BY <2>2 DEF Next, vars, connVars, ServerStep, Others, Terminating, Client, Manager, Nic,
    ConnectToServer, OnAddrResolved, OnRouteResolved, OnConnection, OnUnknownEvent, ClientReady,
    Publish, IoDone, ClientDisconnect, OnDisconnected, Polls, GetCqEvent, PollEmpty, Drained,
    PollSend, PollRecv, TellAddress, Accept, OnEstablished, CountEstablished,
    ServerReady, Visit, VisitReads, VisitAcks, VisitEnds, VisitNothing, Visits,
    ServerDisconnect, OnDisconnect, Deliver, Read, Write, WriteCompletes
    <3>2. QED
      BY <1>0, <3>1 DEF LifeType
  <2>3. QED
    BY <2>1, <2>2
<1>10. QED
  BY <1>2, <1>3, <1>4, <1>5, <1>6, <1>7 DEF LifeType

\* A step of client d.
LEMMA ClientLife ==
  ASSUME LifeInv, LifeType', NEW d \in Clients,
         \A p \in Procs : p # d => pc'[p] = pc[p] /\ back'[p] = back[p] /\ goal'[p] = goal[p],
         \A c \in Clients : /\ life'[S(c)] = life[S(c)]
                            /\ c # d => /\ link'[c] = link[c] /\ events'[c] = events[c]
                                        /\ life'[K(c)] = life[K(c)],
         \A t, c : c # d => (Queued(t, c)' => Queued(t, c)),
         UNCHANGED <<conns, clt>>, OnceEach', ClientAt(d)', ServerLink(d)'
  PROVE  LifeInv'
<1>0. /\ OnceEach /\ ServerAt /\ Conns /\ Server \in Procs /\ Clients \subseteq Procs /\ Server # d
      /\ \A c \in Clients : ClientAt(c) /\ ServerLink(c)
  BY Owners DEF LifeInv
<1>1. ServerAt' /\ Accepting' = Accepting
  BY <1>0 DEF ServerAt, Accepting
<1>2. Conns'
  BY <1>0 DEF Conns
<1>3. ASSUME NEW c \in Clients, c # d PROVE ClientAt(c)' /\ ServerLink(c)'
  <2>1. ClientAt(c) /\ ServerLink(c) /\ c \in Procs
    BY <1>0
  <2>2. /\ pc'[c] = pc[c] /\ back'[c] = back[c] /\ goal'[c] = goal[c] /\ link'[c] = link[c]
        /\ events'[c] = events[c] /\ life'[K(c)] = life[K(c)] /\ life'[S(c)] = life[S(c)]
        /\ clt' = clt
    BY <1>3, <2>1
  <2>3. ClientAt(c)'
    BY <2>1, <2>2 DEF ClientAt
  <2>4. ServerLink(c)'
    BY <1>1, <1>3, <2>1, <2>2 DEF ServerLink
  <2>5. QED
    BY <2>3, <2>4
<1>4. QED
  BY <1>1, <1>2, <1>3 DEF LifeInv

\* One of which the server hears nothing.
LEMMA ClientLifeQuiet ==
  ASSUME LifeInv, LifeType', NEW d \in Clients,
         \A p \in Procs : p # d => pc'[p] = pc[p] /\ back'[p] = back[p] /\ goal'[p] = goal[p],
         \A p \in Procs : p # d => events'[p] = events[p],
         \A e \in Ends : e # K(d) => life'[e] = life[e],
         \A c \in Clients : c # d => link'[c] = link[c],
         \/ link'[d] = link[d] \/ (link[d] = "none" /\ link'[d] = "request")
         \/ (link[d] = "request" /\ link'[d] = "rejected")
         \/ (link[d] = "accepted" /\ link'[d] = "use"),
         UNCHANGED <<conns, clt>>, ClientAt(d)'
  PROVE  LifeInv'
<1>0. /\ OnceEach /\ Server \in Procs /\ Clients \subseteq Procs /\ Server # d /\ ServerLink(d)
  BY Owners DEF LifeInv
<1>1. OnceEach' /\ \A t, c : Queued(t, c)' <=> Queued(t, c)
  BY <1>0 DEF OnceEach, Queued
<1>2. \A c \in Clients : /\ life'[S(c)] = life[S(c)]
                         /\ c # d => /\ link'[c] = link[c] /\ events'[c] = events[c]
                                     /\ life'[K(c)] = life[K(c)]
  BY <1>0, EndNames
<1>3. Accepting' = Accepting
  BY <1>0 DEF Accepting
<1>4. ServerLink(d)'
  <2>1. life'[S(d)] = life[S(d)] /\ clt' = clt
    BY <1>2
  <2>2. QED
    BY <1>0, <1>1, <1>3, <2>1 DEF ServerLink
<1>5. QED
  BY <1>1, <1>2, <1>4, ClientLife

\* Short sequences.
LEMMA OneLong ==
  ASSUME NEW x, NEW y
  PROVE  /\ <<x>> # << >> /\ Head(<<x>>) = x /\ Tail(<<x>>) = << >> /\ Append(<< >>, y) = <<y>>
         /\ Append(Tail(<<x>>), y) = <<y>>
<1>1. <<x>> # << >> /\ Head(<<x>>) = x /\ Tail(<<x>>) = << >>
  OBVIOUS
<1>2. Append(<< >>, y) = <<y>>
  OBVIOUS
<1>3. QED
  BY <1>1, <1>2

\* What a client knows that takes an event.
LEMMA ClientNext ==
  ASSUME NEW c \in Clients, ClientAt(c), NEW type, NextEvent(c, type), pc[c] = "events"
  PROVE  /\ events[c] = <<Event(type, c)>> /\ Tail(events[c]) = << >>
         /\ type = "ADDR_RESOLVED" => link[c] = "none" /\ life[K(c)] = "none"
         /\ type = "ROUTE_RESOLVED" => link[c] = "none" /\ life[K(c)] = "built"
         /\ type = "REJECTED" => link[c] = "rejected" /\ life[K(c)] = "built"
         /\ type = "ESTABLISHED" => link[c] = "accepted" /\ life[K(c)] = "built"
         /\ type = "DISCONNECTED" => link[c] = "down" /\ life[K(c)] = "built"
<1>1. events[c] # << >> /\ Head(events[c]).type = type
  BY DEF NextEvent
<1>2. \A t : <<Event(t, c)>> # << >> /\ Head(<<Event(t, c)>>).type = t /\ Tail(<<Event(t, c)>>) = << >>
  <2> TAKE t
  <2>1. PICK ev : ev = Event(t, c)
    OBVIOUS
  <2>2. ev.type = t
    BY <2>1, EventNames, Zenon
  <2>3. <<ev>> # << >> /\ Head(<<ev>>) = ev /\ Tail(<<ev>>) = << >>
    BY OneLong, Zenon
  <2>4. QED
    BY <2>1, <2>2, <2>3, Zenon
<1>3. \E t : events[c] = <<Event(t, c)>>
  BY <1>1 DEF ClientAt
<1>4. PICK t : events[c] = <<Event(t, c)>>
  BY <1>3
<1>5. t = type /\ Tail(events[c]) = << >>
  BY <1>1, <1>2, <1>4, Zenon
<1>6. /\ t = "ADDR_RESOLVED" => link[c] = "none" /\ life[K(c)] = "none"
      /\ t = "ROUTE_RESOLVED" => link[c] = "none" /\ life[K(c)] = "built"
      /\ t = "REJECTED" => link[c] = "rejected" /\ life[K(c)] = "built"
      /\ t = "ESTABLISHED" => link[c] = "accepted" /\ life[K(c)] = "built"
      /\ t = "DISCONNECTED" => link[c] = "down" /\ life[K(c)] = "built"
  <2>1. ASSUME NEW u, <<Event(t, c)>> = <<Event(u, c)>> PROVE t = u
    <3>1. Head(<<Event(t, c)>>).type = t /\ Head(<<Event(u, c)>>).type = u
      BY <1>2, Zenon
    <3>2. QED
      BY <2>1, <3>1, Zenon
  <2>2. QED
    BY <1>1, <1>4, <2>1 DEF ClientAt
<1>7. QED
  BY <1>4, <1>5, <1>6

\* The steps of a client of which the server hears nothing.
LEMMA ClientKeepsLife ==
  ASSUME WakeType, LifeInv, LifeType', NEW d \in Clients,
         \/ ConnectToServer(d) \/ OnAddrResolved(d) \/ OnRouteResolved(d) \/ OnConnection(d)
         \/ OnUnknownEvent(d) \/ ClientReady(d) \/ Publish(d) \/ IoDone(d) \/ OnDisconnected(d)
  PROVE  LifeInv'
<1>0. /\ LifeType /\ ClientAt(d) /\ d \in Procs /\ K(d) \in Ends
      /\ DOMAIN events = Procs /\ DOMAIN link = Clients
  BY Owners, EndNames DEF LifeInv, WakeType
<1>1. CASE ConnectToServer(d)
  <2>1. /\ pc[d] = "start" /\ pc' = [pc EXCEPT ![d] = "events"]
        /\ events' = [events EXCEPT ![d] = Append(@, Event("ADDR_RESOLVED", d))]
        /\ UNCHANGED <<back, goal, link, life, conns, clt>>
    BY <1>1 DEF ConnectToServer, pollVars, connVars
  <2>2. link[d] = "none" /\ life[K(d)] = "none" /\ events[d] = << >>
    BY <1>0, <2>1 DEF ClientAt, InUse
  <2>3. events'[d] = <<Event("ADDR_RESOLVED", d)>>
    BY <1>0, <2>1, <2>2, OneLong
  <2>4. pc'[d] = "events" /\ ClientAt(d)'
    BY <1>0, <2>1, <2>2, <2>3 DEF ClientAt, LifeType
  <2>5. QED
    BY <1>0, <2>1, <2>4, ClientLifeQuiet DEF LifeType
<1>2. CASE OnAddrResolved(d)
  <2>1. /\ pc[d] = "events" /\ NextEvent(d, "ADDR_RESOLVED")
        /\ events' = [events EXCEPT ![d] = Append(Tail(@), Event("ROUTE_RESOLVED", d))]
        /\ life' = [life EXCEPT ![K(d)] = "built"]
        /\ UNCHANGED <<pc, back, goal, link, conns, clt>>
    BY <1>2 DEF OnAddrResolved, pollVars, K
  <2>2. link[d] = "none" /\ events[d] = <<Event("ADDR_RESOLVED", d)>>
    BY <1>0, <2>1, ClientNext
  <2>3. events'[d] = <<Event("ROUTE_RESOLVED", d)>>
    BY <1>0, <2>1, <2>2, OneLong
  <2>4. ClientAt(d)'
    BY <1>0, <2>1, <2>2, <2>3 DEF ClientAt, LifeType
  <2>5. QED
    BY <1>0, <2>1, <2>4, ClientLifeQuiet DEF LifeType
<1>3. CASE OnRouteResolved(d)
  <2>1. /\ pc[d] = "events" /\ NextEvent(d, "ROUTE_RESOLVED")
        /\ events' = [events EXCEPT ![d] = Tail(@)]
        /\ link' = [link EXCEPT ![d] = "request"]
        /\ UNCHANGED <<pc, back, goal, life, conns, clt>>
    BY <1>3 DEF OnRouteResolved, Took, pollVars, connVars
  <2>2. link[d] = "none" /\ life[K(d)] = "built" /\ events'[d] = << >>
    BY <1>0, <2>1, ClientNext
  <2>3. ClientAt(d)'
    BY <1>0, <2>1, <2>2 DEF ClientAt, LifeType
  <2>4. QED
    BY <1>0, <2>1, <2>2, <2>3, ClientLifeQuiet
<1>4. CASE OnConnection(d)
  <2>1. /\ pc[d] = "events" /\ NextEvent(d, "ESTABLISHED")
        /\ events' = [events EXCEPT ![d] = Tail(@)]
        /\ link' = [link EXCEPT ![d] = "use"]
        /\ pc' = [pc EXCEPT ![d] = "wait"] /\ goal' = [goal EXCEPT ![d] = 0]
        /\ back' = [back EXCEPT ![d] = "ready"]
        /\ UNCHANGED <<life, conns, clt>>
    BY <1>4 DEF OnConnection, Took, WaitAll, connVars
  <2>2. link[d] = "accepted" /\ life[K(d)] = "built" /\ events'[d] = << >>
    BY <1>0, <2>1, ClientNext
  <2>3. ClientAt(d)'
    BY <1>0, <2>1, <2>2 DEF ClientAt, LifeType, InUse
  <2>4. QED
    BY <1>0, <2>1, <2>2, <2>3, ClientLifeQuiet DEF LifeType
<1>5. CASE OnUnknownEvent(d)
  <2>1. /\ pc[d] = "events" /\ NextEvent(d, "REJECTED")
        /\ events' = [events EXCEPT ![d] = Tail(@)] /\ pc' = [pc EXCEPT ![d] = "dead"]
        /\ UNCHANGED <<back, goal, link, life, conns, clt>>
    BY <1>5 DEF OnUnknownEvent, Took, pollVars, connVars
  <2>2. link[d] = "rejected" /\ life[K(d)] = "built" /\ events'[d] = << >>
    BY <1>0, <2>1, ClientNext
  <2>3. ClientAt(d)'
    BY <1>0, <2>1, <2>2 DEF ClientAt, LifeType
  <2>4. QED
    BY <1>0, <2>1, <2>2, <2>3, ClientLifeQuiet DEF LifeType
<1>6. CASE ClientReady(d) \/ Publish(d) \/ IoDone(d)
  <2>1. /\ pc[d] \in {"ready", "run", "published"}
        /\ \/ pc' = [pc EXCEPT ![d] = "run"] /\ UNCHANGED <<back, goal>>
           \/ /\ pc' = [pc EXCEPT ![d] = "wait"] /\ goal' = [goal EXCEPT ![d] = 0]
              /\ \/ back' = [back EXCEPT ![d] = "published"]
                 \/ back' = [back EXCEPT ![d] = "disconnect"]
        /\ UNCHANGED <<events, link, life, conns, clt>>
    BY <1>6 DEF ClientReady, Publish, IoDone, WaitFinal, WaitAll, pollVars, connVars, cmVars
  <2>2. /\ life[K(d)] = "built"
        /\ \/ link[d] \in {"use", "up"} /\ events[d] = << >>
           \/ link[d] = "down" /\ events[d] = <<Event("DISCONNECTED", d)>>
    BY <1>0, <2>1 DEF ClientAt
  <2>3. ClientAt(d)'
    BY <1>0, <2>1, <2>2 DEF ClientAt, LifeType, InUse
  <2>4. QED
    BY <1>0, <2>1, <2>3, ClientLifeQuiet DEF LifeType
<1>7. CASE OnDisconnected(d)
  <2>1. /\ pc[d] = "events" /\ NextEvent(d, "DISCONNECTED")
        /\ events' = [events EXCEPT ![d] = Tail(@)] /\ pc' = [pc EXCEPT ![d] = "gone"]
        /\ life' = [life EXCEPT ![K(d)] = "freed"]
        /\ UNCHANGED <<back, goal, link, conns, clt>>
    BY <1>7 DEF OnDisconnected, Took, pollVars, K
  <2>2. link[d] = "down" /\ events'[d] = << >>
    BY <1>0, <2>1, ClientNext
  <2>3. ClientAt(d)'
    BY <1>0, <2>1, <2>2 DEF ClientAt, LifeType
  <2>4. QED
    BY <1>0, <2>1, <2>2, <2>3, ClientLifeQuiet DEF LifeType
<1>8. QED
  BY <1>1, <1>2, <1>3, <1>4, <1>5, <1>6, <1>7

\* rdma_disconnect, by either end.
LEMMA DisconnectLife ==
  ASSUME WakeType, LifeInv, NEW d \in Clients, Disconnect(d)
  PROVE  /\ \A c \in Clients : c # d => link'[c] = link[c] /\ events'[c] = events[c]
         /\ \/ link'[d] = link[d] /\ events'[d] = events[d]
            \/ link[d] = "up" /\ link'[d] = "down" /\ events'[d] = <<Event("DISCONNECTED", d)>>
         /\ OnceEach'
         /\ \A t, c : c # d => (Queued(t, c)' => Queued(t, c))
         /\ \A t : Queued(t, d)' => Queued(t, d) \/ (t = "DISCONNECTED" /\ link'[d] = "down")
         /\ Queued("DISCONNECTED", d)' => life[S(d)] = "built"
<1>0. /\ OnceEach /\ ClientAt(d) /\ ServerLink(d) /\ d \in Procs /\ Server \in Procs
      /\ Clients \subseteq Procs /\ Server \notin Clients
      /\ DOMAIN events = Procs /\ DOMAIN link = Clients /\ life[S(d)] \in {"none", "built", "freed"}
  BY Owners, EndNames DEF LifeInv, LifeType, WakeType
<1>1. CASE link[d] # "up"
  <2>1. UNCHANGED <<link, events>>
    BY <1>1 DEF Disconnect, cmVars
  <2>2. OnceEach' /\ \A t, c : Queued(t, c)' <=> Queued(t, c)
    BY <1>0, <2>1 DEF OnceEach, Queued
  <2>3. QED
    BY <1>0, <2>1, <2>2 DEF ServerLink
<1>2. CASE link[d] = "up"
  <2>1. /\ link' = [link EXCEPT ![d] = "down"]
        /\ events' = [p \in Procs |-> IF p \in {d, Server}
                        THEN Append(events[p], Event("DISCONNECTED", d)) ELSE events[p]]
    BY <1>2 DEF Disconnect
  <2>2. /\ events'[d] = Append(events[d], Event("DISCONNECTED", d))
        /\ events'[Server] = Append(events[Server], Event("DISCONNECTED", d))
        /\ \A c \in Clients : c # d => events'[c] = events[c]
    BY <1>0, <2>1
  <2>3. events[d] = << >> /\ life[S(d)] = "built"
    BY <1>0, <1>2 DEF ClientAt, ServerLink
  <2>4. events'[d] = <<Event("DISCONNECTED", d)>>
    BY <2>2, <2>3, OneLong
  <2>5. ~Queued("DISCONNECTED", d)
    BY <1>0, <1>2 DEF ServerLink
  <2>6. /\ \A t, c : Queued(t, c)' <=> Queued(t, c) \/ (t = "DISCONNECTED" /\ c = d)
        /\ OnceEach'
    BY <1>0, <2>2, <2>5, QueueAdd DEF EventTypes
  <2>7. link'[d] = "down" /\ \A c \in Clients : c # d => link'[c] = link[c]
    BY <1>0, <2>1
  <2>8. QED
    BY <1>2, <2>2, <2>3, <2>4, <2>6, <2>7
<1>3. QED
  BY <1>1, <1>2

\* The rest of a client's steps.
LEMMA ClientLeaves ==
  ASSUME WakeType, LifeInv, LifeType', NEW d \in Clients, ClientDisconnect(d) \/ Drained(d)
  PROVE  LifeInv'
<1>0. /\ LifeType /\ ClientAt(d) /\ ServerLink(d) /\ d \in Procs /\ Server # d
      /\ DOMAIN events = Procs /\ DOMAIN link = Clients
  BY Owners DEF LifeInv, WakeType
<1>1. CASE ClientDisconnect(d)
  <2>1. /\ pc[d] = "disconnect" /\ Disconnect(d) /\ pc' = [pc EXCEPT ![d] = "events"]
        /\ UNCHANGED <<back, goal, life, conns, clt>>
    BY <1>1 DEF ClientDisconnect, pollVars, connVars
  <2>2. /\ \A c \in Clients : c # d => link'[c] = link[c] /\ events'[c] = events[c]
        /\ \/ link'[d] = link[d] /\ events'[d] = events[d]
           \/ link[d] = "up" /\ link'[d] = "down" /\ events'[d] = <<Event("DISCONNECTED", d)>>
        /\ OnceEach'
        /\ \A t, c : c # d => (Queued(t, c)' => Queued(t, c))
        /\ \A t : Queued(t, d)' => Queued(t, d) \/ (t = "DISCONNECTED" /\ link'[d] = "down")
        /\ Queued("DISCONNECTED", d)' => life[S(d)] = "built"
    BY <2>1, DisconnectLife
  <2>3. ClientAt(d)'
    BY <1>0, <2>1, <2>2 DEF ClientAt, InUse, LifeType
  <2>4. Accepting' = Accepting
    BY <1>0, <2>1 DEF Accepting, LifeType
  <2>5. ServerLink(d)'
    BY <1>0, <2>1, <2>2, <2>4 DEF ServerLink
  <2>6. QED
    BY <1>0, <2>1, <2>2, <2>3, <2>5, ClientLife DEF LifeType
<1>2. CASE Drained(d)
  <2>1. /\ pc[d] \in {"wait", "drain"} /\ pc' = [pc EXCEPT ![d] = back[d]]
        /\ UNCHANGED <<back, goal, events, link, life, conns, clt>>
    BY <1>2 DEF Drained, Waiting, connVars, cmVars
  <2>2. pc[d] = "wait" /\ pc'[d] \in {"ready", "published", "disconnect"}
    BY <1>0, <2>1 DEF ClientAt, InUse, LifeType
  <2>3. ClientAt(d)'
    BY <1>0, <2>1, <2>2 DEF ClientAt, InUse
  <2>4. QED
    BY <1>0, <2>1, <2>3, ClientLifeQuiet DEF LifeType
<1>3. QED
  BY <1>1, <1>2

\* The connection manager.
LEMMA ManagerLife ==
  ASSUME WakeType, LifeInv, LifeType', Manager
  PROVE  LifeInv'
<1>1. PICK d \in Clients : CmConnects(d) \/ CmRejects(d) \/ CmConfirms(d)
  BY DEF Manager
<1>2. UNCHANGED <<pc, back, goal, life, conns, clt>>
  BY DEF Manager, pollVars, connVars
<1>0. /\ LifeType /\ OnceEach /\ ClientAt(d) /\ ServerLink(d) /\ d \in Procs /\ Server # d
      /\ Server \in Procs /\ Clients \subseteq Procs /\ Server \notin Clients
      /\ DOMAIN events = Procs /\ DOMAIN link = Clients /\ life[S(d)] \in {"none", "built", "freed"}
      /\ \A t, c : t \in EventTypes => Event(t, c).type = t
  BY Owners, EndNames, EventNames DEF LifeInv, LifeType, WakeType
<1>3. Accepting' = Accepting
  BY <1>2 DEF Accepting
<1>4. CASE CmConnects(d)
  <2>1. /\ link[d] = "request" /\ link' = [link EXCEPT ![d] = "requested"]
        /\ events' = [events EXCEPT ![Server] = Append(@, Event("CONNECT_REQUEST", d))]
    BY <1>4 DEF CmConnects, Notify
  <2>2. ~Queued("CONNECT_REQUEST", d) /\ life[S(d)] = "none" /\ ~(Accepting /\ clt = d)
    BY <1>0, <2>1 DEF ServerLink
  <2>3. /\ \A t, c : Queued(t, c)' <=> Queued(t, c) \/ (t = "CONNECT_REQUEST" /\ c = d)
        /\ OnceEach'
    BY <1>0, <2>1, <2>2, QueueAdd DEF EventTypes
  <2>4. ClientAt(d)'
    BY <1>0, <1>2, <2>1 DEF ClientAt
  <2>5. ServerLink(d)'
    BY <1>0, <1>2, <1>3, <2>1, <2>2, <2>3 DEF ServerLink
  <2>6. QED
    BY <1>0, <1>2, <2>1, <2>3, <2>4, <2>5, ClientLife
<1>5. CASE CmRejects(d)
  <2>1. /\ link[d] = "request" /\ link' = [link EXCEPT ![d] = "rejected"]
        /\ events' = [events EXCEPT ![d] = Append(@, Event("REJECTED", d))]
    BY <1>5 DEF CmRejects, Notify
  <2>2. events[d] = << >> /\ pc[d] = "events" /\ life[K(d)] = "built"
    BY <1>0, <2>1 DEF ClientAt
  <2>3. events'[d] = <<Event("REJECTED", d)>>
    BY <1>0, <2>1, <2>2, OneLong
  <2>4. ClientAt(d)'
    BY <1>0, <1>2, <2>1, <2>2, <2>3 DEF ClientAt
  <2>5. QED
    BY <1>0, <1>2, <2>1, <2>4, ClientLifeQuiet
<1>6. CASE CmConfirms(d)
  <2>1. /\ link[d] = "use" /\ link' = [link EXCEPT ![d] = "up"]
        /\ events' = [events EXCEPT ![Server] = Append(@, Event("ESTABLISHED", d))]
    BY <1>6 DEF CmConfirms, Notify
  <2>2. ~Queued("ESTABLISHED", d) /\ ~(Accepting /\ clt = d)
    BY <1>0, <2>1 DEF ServerLink
  <2>3. /\ \A t, c : Queued(t, c)' <=> Queued(t, c) \/ (t = "ESTABLISHED" /\ c = d)
        /\ OnceEach'
    BY <1>0, <2>1, <2>2, QueueAdd DEF EventTypes
  <2>4. ClientAt(d)'
    BY <1>0, <1>2, <2>1 DEF ClientAt
  <2>5. ServerLink(d)'
    BY <1>0, <1>2, <1>3, <2>1, <2>2, <2>3 DEF ServerLink
  <2>6. QED
    BY <1>0, <1>2, <2>1, <2>3, <2>4, <2>5, ClientLife
<1>7. QED
  BY <1>1, <1>4, <1>5, <1>6

\* A step of the server that is not about connections.
LEMMA ServerLifeQuiet ==
  ASSUME LifeInv, LifeType', ServerAt',
         \A c \in Clients : pc'[c] = pc[c] /\ back'[c] = back[c] /\ goal'[c] = goal[c],
         UNCHANGED <<link, events, life, conns>>,
         \/ UNCHANGED clt /\ Accepting' = Accepting
         \/ ~Accepting /\ ~Accepting'
  PROVE  LifeInv'
<1>0. /\ OnceEach /\ Conns /\ \A c \in Clients : ClientAt(c) /\ ServerLink(c)
  BY DEF LifeInv
<1>1. OnceEach' /\ \A t, c : Queued(t, c)' <=> Queued(t, c)
  BY DEF OnceEach, Queued, LifeInv
<1>2. Conns'
  BY <1>0 DEF Conns
<1>3. \A c \in Clients : ClientAt(c)'
  BY <1>0 DEF ClientAt
<1>4. ASSUME NEW c \in Clients PROVE ServerLink(c)'
  <2>1. ServerLink(c)
    BY <1>0
  <2>2. QED
    BY <1>1, <2>1 DEF ServerLink
<1>5. QED
  BY <1>1, <1>2, <1>3, <1>4 DEF LifeInv

\* Where wait_some and wait_all take the server.
LEMMA WaitsServer ==
  ASSUME LifeType, NEW n, NEW next \in {"accept", "count", "visit"}
  PROVE  /\ WaitSome(n, next) =>
              /\ pc'[Server] \in {"drain", next} /\ back'[Server] = next
              /\ \A c \in Clients : pc'[c] = pc[c] /\ back'[c] = back[c] /\ goal'[c] = goal[c]
         /\ \A then : WaitAll(Server, then) =>
              /\ pc'[Server] = "wait" /\ back'[Server] = then /\ goal'[Server] = 0
              /\ \A c \in Clients : pc'[c] = pc[c] /\ back'[c] = back[c] /\ goal'[c] = goal[c]
<1>1. Server \in Procs /\ Server \notin Clients /\ Clients \subseteq Procs
  BY Owners
<1>2. WaitSome(n, next) =>
         /\ pc'[Server] \in {"drain", next} /\ back'[Server] = next
         /\ \A c \in Clients : pc'[c] = pc[c] /\ back'[c] = back[c] /\ goal'[c] = goal[c]
  <2>1. SUFFICES ASSUME WaitSome(n, next)
                 PROVE  /\ pc'[Server] \in {"drain", next} /\ back'[Server] = next
                        /\ \A c \in Clients : pc'[c] = pc[c] /\ back'[c] = back[c] /\ goal'[c] = goal[c]
    OBVIOUS
  <2>2. \E s \in {"drain", next} : \E g : /\ pc' = [pc EXCEPT ![Server] = s]
                                           /\ goal' = [goal EXCEPT ![Server] = g]
    BY <2>1 DEF WaitSome
  <2>3. back' = [back EXCEPT ![Server] = next]
    BY <2>1 DEF WaitSome
  <2>4. QED
    BY <1>1, <2>2, <2>3 DEF LifeType
<1>3. \A then : WaitAll(Server, then) =>
         /\ pc'[Server] = "wait" /\ back'[Server] = then /\ goal'[Server] = 0
         /\ \A c \in Clients : pc'[c] = pc[c] /\ back'[c] = back[c] /\ goal'[c] = goal[c]
  BY <1>1 DEF WaitAll, LifeType
<1>4. QED
  BY <1>2, <1>3

\* The server's steps that are not about connections.
LEMMA ServerKeepsLife ==
  ASSUME WakeType, LifeInv, LifeType',
         \/ TellAddress \/ CountEstablished \/ ServerReady \/ Drained(Server)
         \/ \E i \in Clients : Visit(i)
  PROVE  LifeInv'
<1>0. /\ LifeType /\ ServerAt /\ Server \in Procs /\ Server \notin Clients /\ Clients \subseteq Procs
  BY Owners DEF LifeInv
<1>1. CASE TellAddress
  <2>1. /\ pc[Server] = "tell" /\ pc' = [pc EXCEPT ![Server] = "events"]
        /\ UNCHANGED <<back, goal, clt, link, events, life, conns>>
    BY <1>1 DEF TellAddress, pollVars, connVars, cmVars
  <2>2. ServerAt' /\ ~Accepting /\ ~Accepting'
    BY <1>0, <2>1 DEF ServerAt, Accepting, LifeType
  <2>3. QED
    BY <1>0, <2>1, <2>2, ServerLifeQuiet DEF LifeType
<1>2. CASE CountEstablished
  <2>1. /\ pc[Server] = "count" /\ UNCHANGED <<clt, link, events, life, conns>>
        /\ \/ WaitAll(Server, "ready")
           \/ pc' = [pc EXCEPT ![Server] = "events"] /\ UNCHANGED <<back, goal>>
    BY <1>2 DEF CountEstablished, pollVars, connVars, cmVars
  <2>2. /\ \/ pc'[Server] = "wait" /\ back'[Server] = "ready" /\ goal'[Server] = 0
           \/ pc'[Server] = "events"
        /\ \A c \in Clients : pc'[c] = pc[c] /\ back'[c] = back[c] /\ goal'[c] = goal[c]
    BY <1>0, <2>1, WaitsServer DEF LifeType
  <2>3. ServerAt' /\ ~Accepting /\ ~Accepting'
    BY <1>0, <2>1, <2>2 DEF ServerAt, Accepting
  <2>4. QED
    BY <2>1, <2>2, <2>3, ServerLifeQuiet
<1>3. CASE ServerReady \/ \E i \in Clients : Visit(i)
  <2>1. /\ pc[Server] \in {"ready", "visit"} /\ UNCHANGED <<link, events, life, conns>>
        /\ \/ WaitAll(Server, "disconnect") \/ \E n : WaitSome(n, "visit")
    BY <1>3 DEF ServerReady, Visit, VisitReads, VisitAcks, VisitEnds, VisitNothing, Visits,
        NextTurn,
       connVars, cmVars
  <2>2. /\ \/ pc'[Server] = "wait" /\ back'[Server] = "disconnect" /\ goal'[Server] = 0
           \/ pc'[Server] \in {"drain", "visit"} /\ back'[Server] = "visit"
        /\ \A c \in Clients : pc'[c] = pc[c] /\ back'[c] = back[c] /\ goal'[c] = goal[c]
    BY <1>0, <2>1, WaitsServer
  <2>3. ServerAt' /\ ~Accepting /\ ~Accepting'
    BY <1>0, <2>1, <2>2 DEF ServerAt, Accepting
  <2>4. QED
    BY <2>1, <2>2, <2>3, ServerLifeQuiet
<1>4. CASE Drained(Server)
  <2>1. /\ pc[Server] \in {"wait", "drain"} /\ pc' = [pc EXCEPT ![Server] = back[Server]]
        /\ UNCHANGED <<back, goal, events, link, life, conns, clt>>
    BY <1>4 DEF Drained, Waiting, connVars, cmVars
  <2>2. ServerAt' /\ Accepting' = Accepting
    BY <1>0, <2>1 DEF ServerAt, Accepting, LifeType
  <2>3. QED
    BY <1>0, <2>1, <2>2, ServerLifeQuiet DEF LifeType
<1>5. QED
  BY <1>1, <1>2, <1>3, <1>4

\* A request of a connection is answered in two steps.
LEMMA ServerBuilds ==
  ASSUME WakeType, LifeInv, LifeType', OnConnectRequest \/ Accept
  PROVE  LifeInv'
<1>0. /\ LifeType /\ ServerAt /\ OnceEach /\ Conns /\ \A c \in Clients : ClientAt(c) /\ ServerLink(c)
      /\ Server \in Procs /\ Server \notin Clients /\ Clients \subseteq Procs /\ DOMAIN events = Procs
      /\ DOMAIN link = Clients
  BY Owners DEF LifeInv, WakeType
<1>1. CASE OnConnectRequest
  <2>1. /\ pc[Server] = "events" /\ NextEvent(Server, "CONNECT_REQUEST")
        /\ events' = [events EXCEPT ![Server] = Tail(@)]
        /\ clt' = Head(events[Server]).clt /\ conns' = Append(conns, Head(events[Server]).clt)
        /\ life' = [life EXCEPT ![S(Head(events[Server]).clt)] = "built"]
        /\ WaitSome(rss[Server] + 1, "accept")
        /\ UNCHANGED link
    BY <1>1 DEF OnConnectRequest, Took, S
  <2>2. events'[Server] = Tail(events[Server]) /\ \A c \in Clients : events'[c] = events[c]
    BY <1>0, <2>1
  <2>3. PICK d \in Clients : /\ Head(events[Server]) = Event("CONNECT_REQUEST", d)
                             /\ Queued("CONNECT_REQUEST", d) /\ ~Queued("CONNECT_REQUEST", d)'
    BY <1>0, <2>1, <2>2, QueueTake
  <2>4. (\A t, c : Queued(t, c)' => Queued(t, c)) /\ OnceEach'
    BY <1>0, <2>1, <2>2, QueueTake
  <2>5. /\ clt' = d /\ conns' = Append(conns, d) /\ life' = [life EXCEPT ![S(d)] = "built"]
    BY <2>1, <2>3, EventNames
  <2>6. link[d] = "requested" /\ life[S(d)] = "none"
    BY <1>0, <2>3 DEF ServerLink
  <2>7. /\ pc'[Server] \in {"drain", "accept"} /\ back'[Server] = "accept"
        /\ \A c \in Clients : pc'[c] = pc[c] /\ back'[c] = back[c] /\ goal'[c] = goal[c]
    BY <1>0, <2>1, WaitsServer
  <2>8. ServerAt' /\ ~Accepting /\ Accepting'
    BY <2>1, <2>7 DEF ServerAt, Accepting
  <2>9. /\ life'[S(d)] = "built" /\ \A c \in Clients : life'[K(c)] = life[K(c)]
        /\ \A c \in Clients : c # d => life'[S(c)] = life[S(c)]
    BY <1>0, <2>5, EndNames DEF LifeType
  <2>10. Conns'
    <3>1. PICK n \in Nat : n = Len(conns)
      <4>1. conns \in Seq(Clients)
        BY <1>0 DEF LifeType
      <4>2. QED
        BY <4>1
    <3>2. /\ DOMAIN conns = 1..n /\ DOMAIN conns' = 1..(n + 1) /\ conns'[n + 1] = d
          /\ \A i \in 1..n : conns'[i] = conns[i]
      BY <1>0, <2>5, <3>1 DEF LifeType
    <3>3. \A i \in 1..(n + 1) : i \in 1..n \/ i = n + 1
      OBVIOUS
    <3>4. n + 1 \in 1..(n + 1) /\ \A i \in 1..n : i \in 1..(n + 1)
      OBVIOUS
    <3>5. \A i \in 1..n : conns[i] # d
      BY <1>0, <2>6, <3>2 DEF Conns
    <3>6. \A i, j \in 1..(n + 1) : conns'[i] = conns'[j] => i = j
      BY <1>0, <3>2, <3>3, <3>5 DEF Conns
    <3>7. ASSUME NEW c \in Clients
          PROVE  life'[S(c)] # "none" <=> \E i \in 1..(n + 1) : conns'[i] = c
      <4>1. life[S(c)] # "none" <=> \E i \in 1..n : conns[i] = c
        BY <1>0, <3>2 DEF Conns
      <4>2. CASE c = d
        BY <2>9, <3>2, <3>4, <4>2
      <4>3. CASE c # d
        BY <2>9, <3>2, <3>3, <3>4, <4>1, <4>3
      <4>4. QED
        BY <4>2, <4>3
    <3>8. QED
      BY <3>2, <3>6, <3>7 DEF Conns
  <2>11. ASSUME NEW c \in Clients PROVE ClientAt(c)' /\ ServerLink(c)'
    <3>1. ClientAt(c) /\ ServerLink(c)
      BY <1>0
    <3>2. ClientAt(c)'
      BY <2>1, <2>2, <2>7, <2>9, <3>1 DEF ClientAt
    <3>6. clt' = d /\ link'[c] = link[c]
      BY <2>1, <2>5
    <3>7. /\ Queued("CONNECT_REQUEST", c)' => Queued("CONNECT_REQUEST", c)
          /\ Queued("ESTABLISHED", c)' => Queued("ESTABLISHED", c)
          /\ Queued("DISCONNECTED", c)' => Queued("DISCONNECTED", c)
      BY <2>4
    <3>3. CASE c = d
      <4>1. ~Queued("CONNECT_REQUEST", c)'
        BY <2>3, <3>3
      <4>2. QED
        BY <2>6, <2>8, <2>9, <3>1, <3>3, <3>2, <3>6, <3>7, <4>1 DEF ServerLink
    <3>4. CASE c # d
      BY <2>8, <2>9, <3>1, <3>2, <3>4, <3>6, <3>7 DEF ServerLink
    <3>5. QED
      BY <3>2, <3>3, <3>4
  <2>12. QED
    BY <2>4, <2>8, <2>10, <2>11 DEF LifeInv
<1>2. CASE Accept
  <2>1. /\ pc[Server] = "accept" /\ pc' = [pc EXCEPT ![Server] = "events"]
        /\ link' = [link EXCEPT ![clt] = "accepted"]
        /\ events' = [events EXCEPT ![clt] = Append(@, Event("ESTABLISHED", clt))]
        /\ UNCHANGED <<back, goal, clt, life, conns>>
    BY <1>2 DEF Accept, pollVars, connVars
  <2>2. PICK d \in Clients : d = clt
    BY DEF WakeType
  <2>3. Accepting /\ ~Accepting' /\ ServerAt'
    BY <1>0, <2>1 DEF Accepting, ServerAt, LifeType
  <2>4. link[d] = "requested" /\ life[S(d)] = "built"
    BY <1>0, <2>2, <2>3 DEF ServerLink
  <2>5. /\ \A c \in Clients : pc'[c] = pc[c]
        /\ \A c \in Clients : c # d => link'[c] = link[c] /\ events'[c] = events[c]
        /\ link'[d] = "accepted" /\ events'[Server] = events[Server]
    BY <1>0, <2>1, <2>2 DEF LifeType
  <2>6. events[d] = << >> /\ pc[d] = "events" /\ life[K(d)] = "built"
    BY <1>0, <2>4 DEF ClientAt
  <2>7. events'[d] = <<Event("ESTABLISHED", d)>>
    BY <1>0, <2>1, <2>2, <2>6, OneLong
  <2>8. OnceEach' /\ \A t, c : Queued(t, c)' <=> Queued(t, c)
    BY <1>0, <2>5 DEF OnceEach, Queued
  <2>9. Conns'
    BY <1>0, <2>1 DEF Conns
  <2>10. ASSUME NEW c \in Clients PROVE ClientAt(c)' /\ ServerLink(c)'
    <3>1. ClientAt(c) /\ ServerLink(c)
      BY <1>0
    <3>2. CASE c = d
      <4>1. ClientAt(c)'
        BY <2>1, <2>5, <2>6, <2>7, <3>2 DEF ClientAt
      <4>2. ServerLink(c)'
        BY <2>1, <2>3, <2>4, <2>5, <2>8, <3>1, <3>2 DEF ServerLink
      <4>3. QED
        BY <4>1, <4>2
    <3>3. CASE c # d
      <4>1. ClientAt(c)'
        BY <2>1, <2>5, <3>1, <3>3 DEF ClientAt
      <4>2. ServerLink(c)'
        BY <2>1, <2>2, <2>3, <2>5, <2>8, <3>1, <3>3 DEF ServerLink
      <4>3. QED
        BY <4>1, <4>2
    <3>4. QED
      BY <3>2, <3>3
  <2>11. QED
    BY <2>3, <2>8, <2>9, <2>10 DEF LifeInv
<1>3. QED
  BY <1>1, <1>2

\* A connection is confirmed, or taken down.
LEMMA ServerConfirms ==
  ASSUME WakeType, LifeInv, LifeType', OnEstablished \/ ServerDisconnect \/ OnDisconnect
  PROVE  LifeInv'
<1>0. /\ LifeType /\ ServerAt /\ OnceEach /\ Conns /\ \A c \in Clients : ClientAt(c) /\ ServerLink(c)
      /\ Server \in Procs /\ Server \notin Clients /\ Clients \subseteq Procs /\ DOMAIN events = Procs
      /\ DOMAIN link = Clients
  BY Owners DEF LifeInv, WakeType
<1>1. CASE OnEstablished
  <2>1. /\ pc[Server] = "events" /\ NextEvent(Server, "ESTABLISHED")
        /\ events' = [events EXCEPT ![Server] = Tail(@)]
        /\ WaitSome(rss[Server] + 1, "count")
        /\ UNCHANGED <<link, life, conns>>
    BY <1>1 DEF OnEstablished, Took, connVars
  <2>2. events'[Server] = Tail(events[Server]) /\ \A c \in Clients : events'[c] = events[c]
    BY <1>0, <2>1
  <2>3. (\A t, c : Queued(t, c)' => Queued(t, c)) /\ OnceEach'
    BY <1>0, <2>1, <2>2, QueueTake
  <2>4. /\ pc'[Server] \in {"drain", "count"} /\ back'[Server] = "count"
        /\ \A c \in Clients : pc'[c] = pc[c] /\ back'[c] = back[c] /\ goal'[c] = goal[c]
    BY <1>0, <2>1, WaitsServer
  <2>5. ServerAt' /\ ~Accepting /\ ~Accepting'
    BY <2>1, <2>4 DEF ServerAt, Accepting
  <2>6. Conns'
    BY <1>0, <2>1 DEF Conns
  <2>7. ASSUME NEW c \in Clients PROVE ClientAt(c)' /\ ServerLink(c)'
    <3>1. ClientAt(c) /\ ServerLink(c)
      BY <1>0
    <3>2. ClientAt(c)'
      BY <2>1, <2>2, <2>4, <3>1 DEF ClientAt
    <3>3. /\ Queued("CONNECT_REQUEST", c)' => Queued("CONNECT_REQUEST", c)
          /\ Queued("ESTABLISHED", c)' => Queued("ESTABLISHED", c)
          /\ Queued("DISCONNECTED", c)' => Queued("DISCONNECTED", c)
      BY <2>3
    <3>4. link'[c] = link[c] /\ life'[S(c)] = life[S(c)]
      BY <2>1
    <3>5. ServerLink(c)'
      BY <2>5, <3>1, <3>3, <3>4 DEF ServerLink
    <3>6. QED
      BY <3>2, <3>5
  <2>8. QED
    BY <2>3, <2>5, <2>6, <2>7 DEF LifeInv
<1>2. CASE ServerDisconnect
  <2>1. PICK d \in Clients : Disconnect(d)
    BY <1>2 DEF ServerDisconnect
  <2>2. /\ pc[Server] = "disconnect" /\ UNCHANGED <<back, goal, life, conns>>
        /\ \/ pc' = [pc EXCEPT ![Server] = "events"] \/ pc' = pc
    BY <1>2 DEF ServerDisconnect, pollVars, connVars
  <2>3. /\ \A c \in Clients : c # d => link'[c] = link[c] /\ events'[c] = events[c]
        /\ \/ link'[d] = link[d] /\ events'[d] = events[d]
           \/ link[d] = "up" /\ link'[d] = "down" /\ events'[d] = <<Event("DISCONNECTED", d)>>
        /\ OnceEach'
        /\ \A t, c : c # d => (Queued(t, c)' => Queued(t, c))
        /\ \A t : Queued(t, d)' => Queued(t, d) \/ (t = "DISCONNECTED" /\ link'[d] = "down")
        /\ Queued("DISCONNECTED", d)' => life[S(d)] = "built"
    BY <2>1, DisconnectLife
  <2>4. ServerAt' /\ ~Accepting /\ ~Accepting' /\ \A c \in Clients : pc'[c] = pc[c]
    BY <1>0, <2>2 DEF ServerAt, Accepting, LifeType
  <2>5. Conns'
    BY <1>0, <2>2 DEF Conns
  <2>6. ASSUME NEW c \in Clients PROVE ClientAt(c)' /\ ServerLink(c)'
    <3>1. ClientAt(c) /\ ServerLink(c)
      BY <1>0
    <3>2. CASE c # d
      <4>1. link'[c] = link[c] /\ events'[c] = events[c] /\ pc'[c] = pc[c]
        BY <2>3, <2>4, <3>2
      <4>2. ClientAt(c)'
        BY <2>2, <3>1, <4>1 DEF ClientAt
      <4>3. /\ Queued("CONNECT_REQUEST", c)' => Queued("CONNECT_REQUEST", c)
            /\ Queued("ESTABLISHED", c)' => Queued("ESTABLISHED", c)
            /\ Queued("DISCONNECTED", c)' => Queued("DISCONNECTED", c)
        BY <2>3, <3>2
      <4>4. ServerLink(c)'
        BY <2>2, <2>4, <3>1, <4>1, <4>3 DEF ServerLink
      <4>5. QED
        BY <4>2, <4>4
    <3>3. CASE c = d
      <4>1. ClientAt(d)'
        BY <2>2, <2>3, <2>4, <3>1, <3>3 DEF ClientAt, InUse
      <4>2. ServerLink(d)'
        BY <2>2, <2>3, <2>4, <3>1, <3>3 DEF ServerLink
      <4>3. QED
        BY <3>3, <4>1, <4>2
    <3>4. QED
      BY <3>2, <3>3
  <2>7. QED
    BY <2>3, <2>4, <2>5, <2>6 DEF LifeInv
<1>3. CASE OnDisconnect
  <2>1. /\ pc[Server] = "events" /\ NextEvent(Server, "DISCONNECTED")
        /\ events' = [events EXCEPT ![Server] = Tail(@)]
        /\ life' = [life EXCEPT ![S(Head(events[Server]).clt)] = "freed"]
        /\ pc' = [pc EXCEPT ![Server] = IF LastDisconnect THEN "gone" ELSE "events"]
        /\ UNCHANGED <<back, goal, link, conns>>
    BY <1>3 DEF OnDisconnect, Took, pollVars, S
  <2>2. events'[Server] = Tail(events[Server]) /\ \A c \in Clients : events'[c] = events[c]
    BY <1>0, <2>1
  <2>3. PICK d \in Clients : /\ Head(events[Server]) = Event("DISCONNECTED", d)
                             /\ Queued("DISCONNECTED", d) /\ ~Queued("DISCONNECTED", d)'
    BY <1>0, <2>1, <2>2, QueueTake
  <2>4. (\A t, c : Queued(t, c)' => Queued(t, c)) /\ OnceEach'
    BY <1>0, <2>1, <2>2, QueueTake
  <2>5. life' = [life EXCEPT ![S(d)] = "freed"]
    BY <2>1, <2>3, EventNames
  <2>6. link[d] = "down" /\ life[S(d)] = "built"
    BY <1>0, <2>3 DEF ServerLink
  <2>7. /\ pc'[Server] \in {"gone", "events"} /\ \A c \in Clients : pc'[c] = pc[c]
    BY <1>0, <2>1 DEF LifeType
  <2>8. ServerAt' /\ ~Accepting /\ ~Accepting'
    BY <2>1, <2>7 DEF ServerAt, Accepting
  <2>9. /\ life'[S(d)] = "freed" /\ \A c \in Clients : life'[K(c)] = life[K(c)]
        /\ \A c \in Clients : c # d => life'[S(c)] = life[S(c)]
    BY <1>0, <2>5, EndNames DEF LifeType
  <2>10. Conns'
    <3>1. \A c \in Clients : life'[S(c)] # "none" <=> life[S(c)] # "none"
      BY <2>6, <2>9
    <3>2. QED
      BY <1>0, <2>1, <3>1 DEF Conns
  <2>11. ASSUME NEW c \in Clients PROVE ClientAt(c)' /\ ServerLink(c)'
    <3>1. ClientAt(c) /\ ServerLink(c)
      BY <1>0
    <3>2. ClientAt(c)'
      BY <2>1, <2>2, <2>7, <2>9, <3>1 DEF ClientAt
    <3>3. /\ Queued("CONNECT_REQUEST", c)' => Queued("CONNECT_REQUEST", c)
          /\ Queued("ESTABLISHED", c)' => Queued("ESTABLISHED", c)
          /\ Queued("DISCONNECTED", c)' => Queued("DISCONNECTED", c)
      BY <2>4
    <3>4. link'[c] = link[c] /\ (c = d => ~Queued("DISCONNECTED", c)')
      BY <2>1, <2>3
    <3>5. ServerLink(c)'
      BY <2>6, <2>8, <2>9, <3>1, <3>3, <3>4 DEF ServerLink
    <3>6. QED
      BY <3>2, <3>5
  <2>12. QED
    BY <2>4, <2>8, <2>10, <2>11 DEF LifeInv
<1>4. QED
  BY <1>1, <1>2, <1>3

\* All steps together.
LEMMA LifeStep ==
  ASSUME WakeType, LifeInv, [Next]_vars
  PROVE  LifeInv'
<1>1. LifeType'
  BY LifeTypeStep
<1>2. Server \in Procs /\ Clients \subseteq Procs /\ \A p \in Procs : p \in Clients \/ p = Server
  BY Owners, ConnectionAssumption DEF Procs, Clients, Server
<1>3. ASSUME NEW p \in Procs, Polls(p) PROVE LifeInv'
  <2>1. CASE Drained(p)
    BY <1>1, <1>2, <2>1, ClientLeaves, ServerKeepsLife
  <2>2. CASE ~Drained(p)
    <3>1. UNCHANGED lifeVars
      BY <1>3, <2>2 DEF Polls, GetCqEvent, PollEmpty, PollSend, PollRecv, lifeVars, countVars,
        pollVars, connVars, cmVars
    <3>2. QED
      BY <3>1, LifeFrame
  <2>3. QED
    BY <2>1, <2>2
<1>4. ASSUME NEW c \in Clients, Client(c) PROVE LifeInv'
  BY <1>1, <1>2, <1>3, <1>4, ClientKeepsLife, ClientLeaves DEF Client
<1>5. CASE ServerStep
  BY <1>1, <1>2, <1>3, <1>5, ServerKeepsLife, ServerBuilds, ServerConfirms DEF ServerStep
<1>6. ASSUME NEW e \in Ends, Nic(e) PROVE LifeInv'
  <2>1. UNCHANGED lifeVars
    BY <1>6 DEF Nic, Deliver, Read, Write, WriteCompletes, lifeVars, countVars, pollVars,
        connVars, cmVars
  <2>2. QED
    BY <2>1, LifeFrame
<1>7. CASE UNCHANGED vars
  <2>1. UNCHANGED lifeVars
    BY <1>7 DEF vars, lifeVars, countVars, pollVars, connVars, cmVars
  <2>2. QED
    BY <2>1, LifeFrame
<1>8. QED
  BY <1>1, <1>4, <1>5, <1>6, <1>7, ManagerLife DEF Next, Others, Terminating

\* LifeInv holds at the start.
LEMMA LifeStart == Init => LifeInv
<1> SUFFICES ASSUME Init PROVE LifeInv
  OBVIOUS
<1>0. /\ Server \in Procs /\ Clients \subseteq Procs /\ Server \notin Clients
      /\ \A c \in Clients : K(c) \in Ends /\ S(c) \in Ends
  BY Owners, EndNames
<1>1. LifeType
  BY DEF Init, LifeType, States
<1>2. ServerAt /\ ~Accepting
  BY <1>0 DEF Init, ServerAt, Accepting
<1>3. OnceEach /\ \A t, c : ~Queued(t, c)
  BY <1>0 DEF Init, OnceEach, Queued
<1>4. Conns
  BY <1>0 DEF Init, Conns
<1>5. ASSUME NEW c \in Clients PROVE ClientAt(c) /\ ServerLink(c)
  <2>1. ClientAt(c)
    BY <1>0 DEF Init, ClientAt
  <2>2. ServerLink(c)
    BY <1>0, <1>2, <1>3 DEF Init, ServerLink
  <2>3. QED
    BY <2>1, <2>2
<1>6. QED
  BY <1>1, <1>2, <1>3, <1>4, <1>5 DEF LifeInv

\* LifeInv always holds.
LEMMA LifeAlways == Spec => []LifeInv
<1>1. WakeInv => WakeType
  BY DEF WakeInv
<1>2. LifeInv /\ WakeType /\ [Next]_vars => LifeInv'
  BY LifeStep
<1>3. QED
  BY <1>1, <1>2, LifeStart, WakeAlways, PTL DEF Spec

-------------------------------------------------------------------------------
(***************************************************************************)
(* Types.                                                                  *)
(***************************************************************************)

(* The types that are not in LifeType and WakeType. *)
RestType ==
  /\ rss \in [Procs -> Int] /\ readyCnt \in [Procs -> Nat]
  /\ ordered \in [Clients -> 0..ClientNum]
  /\ prevRss \in Int /\ prevChanged \in BOOLEAN
  /\ rest \in [Clients -> Nat] /\ held \in [Clients -> BOOLEAN]
  /\ sendState \in [Ends -> 0..2] /\ recvState \in [Ends -> 0..2]
  /\ recvMsg \in [Ends -> Memory] /\ peer \in [Ends -> Memory]
  /\ saddr \in [Clients -> [signal : {0, 1, 11}, from : Memory]]
  /\ caddr \in [Clients -> {0, 1, 11}] /\ done \in [Clients -> BOOLEAN]
  /\ posted \in [Ends -> Seq(Operations)]

(* Nothing is asked for at an end that is not built. *)
Alive ==
  /\ \A e \in Ends : life[e] = "none" => recvs[e] = 0 /\ cqRecv[e] = 0 /\ posted[e] = << >>
  /\ \A i \in Clients : ordered[i] \in Clients => life[S(ordered[i])] # "none"

TypeInv == WakeType /\ LifeInv /\ RestType /\ Alive

\* A server has one region for each connection it has built.
LEMMA RegionOf ==
  ASSUME LifeInv, NEW c \in Clients, life[S(c)] # "none"
  PROVE  /\ Region(c) \in Clients /\ Region(c) + 1 \in DOMAIN conns /\ conns[Region(c) + 1] = c
         /\ \A r : r \in Clients /\ r + 1 \in DOMAIN conns /\ conns[r + 1] = c => r = Region(c)
<1>1. conns \in Seq(Clients) /\ \A i, j \in DOMAIN conns : conns[i] = conns[j] => i = j
  BY DEF LifeInv, LifeType, Conns
<1>2. PICK i \in DOMAIN conns : conns[i] = c
  BY DEF LifeInv, Conns
<1>3. PICK n \in Nat : n = Len(conns) /\ DOMAIN conns = 1..n
  BY <1>1
<1>4. IsFiniteSet(1..n) /\ Cardinality(1..n) = n
  <2>1. Cardinality(1..n) = IF 1 > n THEN 0 ELSE n - 1 + 1
    BY FS_Interval
  <2>2. QED
    BY <2>1, FS_Interval
<1>5. ClientNum \in Nat \ {0} /\ IsFiniteSet(Clients) /\ Cardinality(Clients) = ClientNum
  <2>1. ClientNum \in Nat \ {0}
    BY ConnectionAssumption
  <2>2. Cardinality(0..(ClientNum - 1)) = IF 0 > ClientNum - 1 THEN 0 ELSE (ClientNum - 1) - 0 + 1
    BY <2>1, FS_Interval
  <2>3. QED
    BY <2>1, <2>2, FS_Interval DEF Clients
<1>6. n <= ClientNum
  <2>1. conns \in Injection(1..n, Clients)
    BY <1>1, <1>3 DEF Injection, IsInjective
  <2>2. Cardinality(1..n) <= Cardinality(Clients)
    BY <1>5, <2>1, FS_Injection DEF ExistsInjection
  <2>3. QED
    BY <1>4, <1>5, <2>2
<1>7. PICK r \in Clients : r + 1 \in DOMAIN conns /\ conns[r + 1] = c
  <2>1. i \in 1..n
    BY <1>3
  <2>2. i - 1 \in Clients /\ (i - 1) + 1 = i
    BY <1>5, <1>6, <2>1 DEF Clients
  <2>3. QED
    BY <1>2, <2>2
<1>8. Region(c) \in Clients /\ Region(c) + 1 \in DOMAIN conns /\ conns[Region(c) + 1] = c
  BY <1>7 DEF Region
<1>9. ASSUME NEW s, s \in Clients, s + 1 \in DOMAIN conns, conns[s + 1] = c PROVE s = Region(c)
  <2>1. s + 1 = Region(c) + 1
    BY <1>1, <1>8, <1>9
  <2>2. s \in Int /\ Region(c) \in Int
    BY <1>5, <1>8, <1>9 DEF Clients
  <2>3. QED
    BY <2>1, <2>2
<1>10. QED
  BY <1>8, <1>9

\* An end that is built stays so, and its memory where it is.
LEMMA MemoryKept ==
  ASSUME WakeType, LifeInv, LifeInv', [Next]_vars
  PROVE  /\ \A e \in Ends : life[e] # "none" => life'[e] # "none" /\ MemoryOf(e)' = MemoryOf(e)
         /\ \A c \in Clients : life[S(c)] # "none" => Region(c)' = Region(c)
         /\ \A e \in Ends : life[e] # "none" => MemoryOf(e) \in Memory
<1>1. life \in [Ends -> {"none", "built", "freed"}] /\ conns \in Seq(Clients)
  BY DEF LifeInv, LifeType
<1>2. \E x, v : v \in {"built", "freed"} /\ (life' = life \/ life' = [life EXCEPT ![x] = v])
  BY DEF Next, vars, connVars, ServerStep, Others, Terminating, Client, Manager, Nic,
    ConnectToServer, OnAddrResolved, OnRouteResolved, OnConnection, OnUnknownEvent, ClientReady,
    Publish, IoDone, ClientDisconnect, OnDisconnected, Polls, GetCqEvent, PollEmpty, Drained,
    PollSend, PollRecv, TellAddress, OnConnectRequest, Accept, OnEstablished, CountEstablished,
    ServerReady, Visit, VisitReads, VisitAcks, VisitEnds, VisitNothing, Visits,
    ServerDisconnect, OnDisconnect, Deliver, Read, Write, WriteCompletes
<1>3. \A e \in Ends : life[e] # "none" => life'[e] # "none"
  BY <1>1, <1>2
<1>4. conns' = conns \/ \E d \in Clients : conns' = Append(conns, d)
  <2>1. CASE OnConnectRequest
    <3>1. NextEvent(Server, "CONNECT_REQUEST") /\ conns' = Append(conns, Head(events[Server]).clt)
      BY <2>1 DEF OnConnectRequest
    <3>2. events[Server] \in Seq(Happenings) /\ events[Server] # << >>
      BY <3>1, Owners DEF WakeType, NextEvent
    <3>3. Head(events[Server]) \in Happenings
      BY <3>2
    <3>4. QED
      BY <3>1, <3>3 DEF Happenings
  <2>2. CASE ~OnConnectRequest
    BY <2>2 DEF Next, vars, connVars, ServerStep, Others, Terminating, Client, Manager, Nic,
    ConnectToServer, OnAddrResolved, OnRouteResolved, OnConnection, OnUnknownEvent, ClientReady,
    Publish, IoDone, ClientDisconnect, OnDisconnected, Polls, GetCqEvent, PollEmpty, Drained,
    PollSend, PollRecv, TellAddress, Accept, OnEstablished, CountEstablished,
    ServerReady, Visit, VisitReads, VisitAcks, VisitEnds, VisitNothing, Visits,
    ServerDisconnect, OnDisconnect, Deliver, Read, Write, WriteCompletes
  <2>3. QED
    BY <2>1, <2>2
<1>5. \A i \in DOMAIN conns : i \in DOMAIN conns' /\ conns'[i] = conns[i]
  BY <1>1, <1>4
<1>6. ASSUME NEW c \in Clients, life[S(c)] # "none" PROVE Region(c)' = Region(c)
  <2>1. Region(c) \in Clients /\ Region(c) + 1 \in DOMAIN conns /\ conns[Region(c) + 1] = c
    BY <1>6, RegionOf
  <2>2. PICK r : r = Region(c)
    OBVIOUS
  <2>3. r \in Clients /\ r + 1 \in DOMAIN conns' /\ conns'[r + 1] = c
    BY <1>5, <2>1, <2>2
  <2>4. \A i, j \in DOMAIN conns' : conns'[i] = conns'[j] => i = j
    BY DEF LifeInv, Conns
  <2>5. \A s \in Clients : s + 1 = r + 1 => s = r
    BY <2>3, ConnectionAssumption DEF Clients
  <2>6. r = Region(c)'
    <3>1. PICK s : s = Region(c)'
      OBVIOUS
    <3>2. s \in Clients /\ s + 1 \in DOMAIN conns' /\ conns'[s + 1] = c
      BY <2>3, <3>1 DEF Region
    <3>3. QED
      BY <2>3, <2>4, <2>5, <3>1, <3>2
  <2>7. QED
    BY <2>2, <2>6
<1>7. ASSUME NEW e \in Ends, life[e] # "none"
      PROVE  MemoryOf(e)' = MemoryOf(e) /\ MemoryOf(e) \in Memory
  <2>1. PICK c \in Clients : e = K(c) \/ e = S(c)
    BY EndNames
  <2>2. CASE e = K(c)
    BY <2>2 DEF K, MemoryOf, Memory
  <2>3. CASE e = S(c)
    <3>1. Region(c)' = Region(c) /\ Region(c) \in Clients
      BY <1>6, <1>7, <2>3, RegionOf
    <3>2. e[1] = "server" /\ e[2] = c
      BY <2>3 DEF S
    <3>3. QED
      BY <3>1, <3>2 DEF MemoryOf, Memory
  <2>4. QED
    BY <2>1, <2>2, <2>3
<1>8. QED
  BY <1>3, <1>6, <1>7

\* What is posted, or waited for, has its type.
LEMMA PostTyped ==
  ASSUME RestType
  PROVE  /\ \A e, op, mem : op \in {"mr", "write", "read"} /\ mem \in Memory /\ Post(e, op, mem) =>
              posted' \in [Ends -> Seq(Operations)] /\ rss' \in [Procs -> Int]
         /\ \A e : PostReceive(e) => rss' \in [Procs -> Int]
         /\ \A n, next : n \in Int /\ WaitSome(n, next) => prevRss' \in Int /\ prevChanged' \in BOOLEAN
         /\ \A i, n, over : n \in Int /\ NextTurn(i, n, over) => prevRss' \in Int /\ prevChanged' \in BOOLEAN
<1>1. ASSUME NEW e, NEW op \in {"mr", "write", "read"}, NEW mem \in Memory, Post(e, op, mem)
      PROVE  posted' \in [Ends -> Seq(Operations)] /\ rss' \in [Procs -> Int]
  <2>1. [op |-> op, mem |-> mem] \in Operations
    BY DEF Operations
  <2>2. PICK r \in Operations : r = [op |-> op, mem |-> mem]
    BY <2>1
  <2>3. posted' = [posted EXCEPT ![e] = Append(@, r)] /\ rss' = [rss EXCEPT ![Owner(e)] = @ + 1]
    BY <1>1, <2>2 DEF Post
  <2>4. \A q \in Seq(Operations) : Append(q, r) \in Seq(Operations)
    OBVIOUS
  <2>5. posted \in [Ends -> Seq(Operations)] /\ rss \in [Procs -> Int]
    BY DEF RestType
  <2>6. rss' \in [Procs -> Int]
    <3>1. PICK p : p = Owner(e)
      OBVIOUS
    <3>2. CASE p \in Procs
      BY <2>3, <2>5, <3>1, <3>2
    <3>3. CASE p \notin Procs
      BY <2>3, <2>5, <3>1, <3>3
    <3>4. QED
      BY <3>2, <3>3
  <2>7. posted' \in [Ends -> Seq(Operations)]
    <3>1. PICK SO : SO = Seq(Operations)
      OBVIOUS
    <3>2. posted \in [Ends -> SO] /\ \A q \in SO : Append(q, r) \in SO
      BY <2>4, <2>5, <3>1
    <3>3. posted' \in [Ends -> SO]
      BY <2>3, <3>2
    <3>4. QED
      BY <3>1, <3>3
  <2>8. QED
    BY <2>6, <2>7
<1>2. ASSUME NEW e, PostReceive(e) PROVE rss' \in [Procs -> Int]
  <2>1. PICK p : p = Owner(e)
    OBVIOUS
  <2>2. rss' = [rss EXCEPT ![p] = @ + 1] /\ rss \in [Procs -> Int]
    BY <1>2, <2>1 DEF PostReceive, RestType
  <2>3. CASE p \in Procs
    BY <2>2, <2>3
  <2>4. CASE p \notin Procs
    BY <2>2, <2>4
  <2>5. QED
    BY <2>3, <2>4
<1>3. \A n, next : n \in Int /\ WaitSome(n, next) => prevRss' \in Int /\ prevChanged' \in BOOLEAN
  BY DEF WaitSome, RestType
<1>4. \A i, n, over : n \in Int /\ NextTurn(i, n, over) => prevRss' \in Int /\ prevChanged' \in BOOLEAN
  BY <1>3 DEF NextTurn, RestType, waitVars
<1>5. QED
  BY <1>1, <1>2, <1>3, <1>4

\* Steps that poll.
LEMMA PollsTyped ==
  ASSUME TypeInv, NEW p \in Procs, Polls(p)
  PROVE  RestType'
<1>0. RestType /\ (\A e \in Ends : Owner(e) \in Procs /\ e[2] \in Clients /\ e[2] \in 0..ClientNum)
  <2>1. \A c \in Clients : c \in 0..ClientNum
    BY ConnectionAssumption DEF Clients
  <2>2. QED
    BY <2>1, Owners DEF TypeInv, Ends
<1>1. CASE GetCqEvent(p) \/ PollEmpty(p)
  BY <1>0, <1>1 DEF GetCqEvent, PollEmpty, RestType, waitVars, connVars, addrVars, nicVars
<1>2. CASE Drained(p)
  <2>1. /\ UNCHANGED <<rss, connVars, addrVars, nicVars>>
        /\ \/ prevRss' = rss[p] /\ prevChanged' = TRUE
           \/ UNCHANGED waitVars
    BY <1>2 DEF Drained
  <2>2. prevRss' \in Int /\ prevChanged' \in BOOLEAN
    <3>1. rss[p] \in Int /\ prevRss \in Int /\ prevChanged \in BOOLEAN
      BY <1>0 DEF RestType
    <3>2. CASE UNCHANGED waitVars
      BY <3>1, <3>2 DEF waitVars
    <3>3. CASE prevRss' = rss[p] /\ prevChanged' = TRUE
      BY <3>1, <3>3
    <3>4. QED
      BY <2>1, <3>2, <3>3
  <2>3. QED
    BY <1>0, <2>1, <2>2 DEF RestType, connVars, addrVars, nicVars
<1>3. \A e \in Ends, s \in 0..2, r \in 0..2 : OnCompletion(e, s, r) =>
        /\ sendState' \in [Ends -> 0..2] /\ recvState' \in [Ends -> 0..2]
        /\ readyCnt' \in [Procs -> Nat] /\ rss' \in [Procs -> Int] /\ rest' \in [Clients -> Nat]
  <2> TAKE e \in Ends, s \in 0..2, r \in 0..2
  <2> HAVE OnCompletion(e, s, r)
  <2>1. sendState' \in [Ends -> 0..2] /\ recvState' \in [Ends -> 0..2]
    BY <1>0 DEF OnCompletion, RestType
  <2>2. readyCnt' \in [Procs -> Nat] /\ rss' \in [Procs -> Int]
    BY <1>0 DEF OnCompletion, RestType
  <2>3. rest' \in [Clients -> Nat]
    <3>1. \A i \in Clients : rest[i] \in Nat /\ (rest[i] > 0 => rest[i] - 1 \in Nat)
      BY <1>0 DEF RestType
    <3>2. QED
      BY <3>1 DEF OnCompletion
  <2>4. QED
    BY <2>1, <2>2, <2>3
<1>4. \A s \in 0..2 : Advanced(s) \in 0..2
  BY DEF Advanced
<1>5. ASSUME NEW e \in Ends, PollSend(e) PROVE RestType'
  <2>1. Advanced(sendState[e]) \in 0..2 /\ recvState[e] \in 0..2
    BY <1>0, <1>4 DEF RestType
  <2>2. OnCompletion(e, Advanced(sendState[e]), recvState[e])
    BY <1>5 DEF PollSend
  <2>3. UNCHANGED <<ordered, prevRss, prevChanged, held, recvMsg, peer, saddr, caddr, done, posted>>
    BY <1>5 DEF PollSend, waitVars, addrVars
  <2>4. QED
    BY <1>0, <1>3, <2>1, <2>2, <2>3 DEF RestType
<1>6. ASSUME NEW e \in Ends, PollRecv(e) PROVE RestType'
  <2>1. Advanced(recvState[e]) \in 0..2 /\ sendState[e] \in 0..2
    BY <1>0, <1>4 DEF RestType
  <2>2. OnCompletion(e, sendState[e], Advanced(recvState[e]))
    BY <1>6 DEF PollRecv
  <2>3. UNCHANGED <<prevRss, prevChanged, held, recvMsg, saddr, caddr, done, posted>>
    BY <1>6 DEF PollRecv, waitVars, addrVars
  <2>4. peer' \in [Ends -> Memory]
    BY <1>0, <1>6 DEF PollRecv, RestType
  <2>5. ordered' \in [Clients -> 0..ClientNum]
    BY <1>0, <1>6 DEF PollRecv, RestType
  <2>6. QED
    BY <1>0, <1>3, <2>1, <2>2, <2>3, <2>4, <2>5 DEF RestType
<1>7. QED
  BY <1>1, <1>2, <1>5, <1>6 DEF Polls

\* Steps of a client, but for those that poll.
LEMMA ClientTyped ==
  ASSUME TypeInv, NEW d \in Clients, Client(d), ~Polls(d)
  PROVE  RestType'
<1>0. RestType /\ K(d) \in Ends /\ K(d) \in Memory
  BY EndNames DEF TypeInv, K, Memory
<1>1. CASE OnAddrResolved(d)
  BY <1>0, <1>1, PostTyped DEF OnAddrResolved, RestType, waitVars, addrVars
<1>2. CASE OnConnection(d)
  <2>1. Post(K(d), "mr", K(d))
    BY <1>2 DEF OnConnection, K, MemoryOf
  <2>2. posted' \in [Ends -> Seq(Operations)] /\ rss' \in [Procs -> Int]
    BY <1>0, <2>1, PostTyped
  <2>3. UNCHANGED <<waitVars, connVars, addrVars>>
    BY <1>2 DEF OnConnection
  <2>4. QED
    BY <1>0, <2>2, <2>3 DEF RestType, waitVars, connVars, addrVars
<1>3. CASE Publish(d)
  <2>1. Post(K(d), "write", peer[K(d)]) /\ peer[K(d)] \in Memory
    BY <1>0, <1>3 DEF Publish, K, RestType
  <2>2. posted' \in [Ends -> Seq(Operations)] /\ rss' \in [Procs -> Int]
    BY <1>0, <2>1, PostTyped
  <2>3. UNCHANGED <<waitVars, connVars, saddr, held, done>> /\ caddr' \in [Clients -> {0, 1, 11}]
    BY <1>0, <1>3 DEF Publish, RestType
  <2>4. QED
    BY <1>0, <2>2, <2>3 DEF RestType, waitVars, connVars
<1>4. CASE IoDone(d)
  <2>1. Post(K(d), "write", peer[K(d)]) /\ peer[K(d)] \in Memory
    BY <1>0, <1>4 DEF IoDone, K, RestType
  <2>2. posted' \in [Ends -> Seq(Operations)] /\ rss' \in [Procs -> Int]
    BY <1>0, <2>1, PostTyped
  <2>3. UNCHANGED <<waitVars, connVars, saddr, held, done>> /\ caddr' \in [Clients -> {0, 1, 11}]
    BY <1>0, <1>4 DEF IoDone, RestType
  <2>4. QED
    BY <1>0, <2>2, <2>3 DEF RestType, waitVars, connVars
<1>5. CASE \/ ConnectToServer(d) \/ OnRouteResolved(d) \/ OnUnknownEvent(d) \/ ClientReady(d)
           \/ ClientDisconnect(d) \/ OnDisconnected(d)
  BY <1>0, <1>5 DEF ConnectToServer, OnRouteResolved, OnUnknownEvent, ClientReady,
    ClientDisconnect, OnDisconnected, RestType, waitVars, connVars, addrVars, nicVars
<1>6. QED
  BY <1>1, <1>2, <1>3, <1>4, <1>5 DEF Client

\* Steps of the server, but for those that poll.
LEMMA ServerTyped ==
  ASSUME TypeInv, ServerStep, ~Polls(Server)
  PROVE  RestType'
<1>0. /\ RestType /\ LifeInv /\ Alive /\ WakeType /\ Server \in Procs
      /\ rss[Server] \in Int /\ rss[Server] + 1 \in Int
  BY Owners DEF TypeInv, RestType
<1>1. CASE OnConnectRequest
  <2>1. /\ \E e : PostReceive(e)
        /\ WaitSome(rss[Server] + 1, "accept")
        /\ UNCHANGED <<ordered, sendState, recvState, recvMsg, peer, readyCnt, rest, addrVars, posted>>
    BY <1>1 DEF OnConnectRequest
  <2>2. rss' \in [Procs -> Int] /\ prevRss' \in Int /\ prevChanged' \in BOOLEAN
    BY <1>0, <2>1, PostTyped
  <2>3. QED
    BY <1>0, <2>1, <2>2 DEF RestType, addrVars
<1>2. CASE OnEstablished
  <2>1. PICK c : c = Head(events[Server]).clt
    OBVIOUS
  <2>2. /\ NextEvent(Server, "ESTABLISHED") /\ Post(S(c), "mr", MemoryOf(S(c)))
        /\ WaitSome(rss[Server] + 1, "count") /\ UNCHANGED <<connVars, addrVars>>
    BY <1>2, <2>1 DEF OnEstablished, S
  <2>3. c \in Clients /\ Queued("ESTABLISHED", c)
    <3>1. events[Server] \in Seq(Happenings) /\ events[Server] # << >>
      BY <1>0, <2>2 DEF WakeType, NextEvent
    <3>2. PICK i \in DOMAIN events[Server] : events[Server][i] = Head(events[Server])
      BY <3>1
    <3>3. Head(events[Server]) \in Happenings /\ Head(events[Server]).type = "ESTABLISHED"
      BY <2>2, <3>1 DEF NextEvent
    <3>4. PICK h \in Happenings : h = Head(events[Server])
      BY <3>3
    <3>5. h = Event("ESTABLISHED", c) /\ c \in Clients
      BY <2>1, <3>3, <3>4, EventNames
    <3>6. QED
      BY <3>2, <3>4, <3>5 DEF Queued
  <2>4. life[S(c)] # "none" /\ S(c) \in Ends
    BY <1>0, <2>3, EndNames DEF LifeInv, ServerLink
  <2>5. MemoryOf(S(c)) \in Memory
    BY <1>0, <2>3, <2>4, RegionOf DEF MemoryOf, S, Memory
  <2>6. /\ posted' \in [Ends -> Seq(Operations)] /\ rss' \in [Procs -> Int]
        /\ prevRss' \in Int /\ prevChanged' \in BOOLEAN
    BY <1>0, <2>2, <2>5, PostTyped
  <2>7. QED
    BY <1>0, <2>2, <2>6 DEF RestType, connVars, addrVars
<1>3. CASE ServerReady
  <2>1. \E n, o : n \in Int /\ NextTurn(0, n, o)
    BY <1>0, <1>3 DEF ServerReady
  <2>2. prevRss' \in Int /\ prevChanged' \in BOOLEAN
    BY <1>0, <2>1, PostTyped
  <2>3. QED
    BY <1>0, <1>3, <2>2 DEF ServerReady, RestType, connVars, addrVars, nicVars
<1>4. ASSUME NEW i \in Clients, Visit(i) PROVE RestType'
  <2>1. \E n, o : n \in Int /\ NextTurn(i, n, o)
    BY <1>0, <1>4 DEF Visit, VisitReads, VisitAcks, VisitEnds, VisitNothing
  <2>2. prevRss' \in Int /\ prevChanged' \in BOOLEAN
    BY <1>0, <2>1, PostTyped
  <2>3. UNCHANGED <<ordered, sendState, recvState, recvMsg, peer, readyCnt, caddr>>
    BY <1>4 DEF Visit, VisitReads, VisitAcks, VisitEnds, VisitNothing, Visits
  <2>4. held' \in [Clients -> BOOLEAN] /\ done' \in [Clients -> BOOLEAN] /\ rest' \in [Clients -> Nat]
    <3>1. /\ held' = held \/ held' = [held EXCEPT ![i] = TRUE] \/ held' = [held EXCEPT ![i] = FALSE]
          /\ done' = done \/ done' = [done EXCEPT ![i] = TRUE]
          /\ rest' = rest \/ rest' = [rest EXCEPT ![i] = @ + 1]
      BY <1>4 DEF Visit, VisitReads, VisitAcks, VisitEnds, VisitNothing
    <3>2. /\ held \in [Clients -> BOOLEAN] /\ done \in [Clients -> BOOLEAN]
          /\ rest \in [Clients -> Nat]
      BY <1>0 DEF RestType
    <3>3. rest' \in [Clients -> Nat]
      BY <3>1, <3>2
    <3>4. held' \in [Clients -> BOOLEAN] /\ done' \in [Clients -> BOOLEAN]
      BY <3>1, <3>2
    <3>5. QED
      BY <3>3, <3>4
  <2>5. saddr' \in [Clients -> [signal : {0, 1, 11}, from : Memory]]
    <3>1. CASE saddr' = saddr
      BY <1>0, <3>1 DEF RestType
    <3>2. CASE saddr' = [saddr EXCEPT ![AddrAt(i)].signal = 0]
      BY <1>0, <3>2 DEF RestType
    <3>3. QED
      BY <1>4, <3>1, <3>2 DEF Visit, VisitReads, VisitAcks, VisitEnds, VisitNothing
  <2>6. posted' \in [Ends -> Seq(Operations)] /\ rss' \in [Procs -> Int]
    <3>1. CASE UNCHANGED <<posted, rss>>
      BY <1>0, <3>1 DEF RestType
    <3>2. ASSUME ~UNCHANGED <<posted, rss>> PROVE posted' \in [Ends -> Seq(Operations)] /\ rss' \in [Procs -> Int]
      <4>1. PICK d : d = ordered[i]
        OBVIOUS
      <4>2. \E op \in {"read", "write"} : Post(S(d), op, peer[S(d)])
        BY <1>4, <3>2, <4>1 DEF Visit, VisitReads, VisitAcks, VisitEnds, VisitNothing, S
      <4>3. CASE d \in Clients
        <5>1. peer[S(d)] \in Memory
          BY <1>0, <4>3, EndNames DEF RestType
        <5>2. QED
          BY <1>0, <4>2, <5>1, PostTyped
      <4>4. CASE d \notin Clients
        <5>1. S(d) \notin Ends
          BY <4>4 DEF S, Ends
        <5>2. \E p : posted' = posted /\ rss' = [rss EXCEPT ![p] = @ + 1]
          <6>1. PICK op : Post(S(d), op, peer[S(d)])
            BY <4>2
          <6>2. PICK r : r = [op |-> op, mem |-> peer[S(d)]]
            OBVIOUS
          <6>3. posted' = [posted EXCEPT ![S(d)] = Append(@, r)] /\ rss' = [rss EXCEPT ![Owner(S(d))] = @ + 1]
            BY <6>1, <6>2 DEF Post
          <6>4. PICK q : q = Append(posted[S(d)], r)
            OBVIOUS
          <6>5. posted' = [posted EXCEPT ![S(d)] = q]
            BY <6>3, <6>4
          <6>6. PICK SO : SO = Seq(Operations)
            OBVIOUS
          <6>7. posted \in [Ends -> SO]
            BY <1>0, <6>6 DEF RestType
          <6>8. posted' = posted
            BY <5>1, <6>5, <6>7
          <6>9. QED
            BY <6>3, <6>8
        <5>3. PICK p : posted' = posted /\ rss' = [rss EXCEPT ![p] = @ + 1]
          BY <5>2
        <5>4. CASE p \in Procs
          BY <1>0, <5>3, <5>4 DEF RestType
        <5>5. CASE p \notin Procs
          BY <1>0, <5>3, <5>5 DEF RestType
        <5>6. QED
          BY <5>4, <5>5
      <4>5. QED
        BY <4>3, <4>4
    <3>3. QED
      BY <3>1, <3>2
  <2>7. QED
    BY <1>0, <2>2, <2>3, <2>4, <2>5, <2>6 DEF RestType
<1>5. CASE TellAddress \/ Accept \/ CountEstablished \/ ServerDisconnect \/ OnDisconnect
  BY <1>0, <1>5 DEF TellAddress, Accept, CountEstablished, ServerDisconnect, OnDisconnect, RestType,
    waitVars, connVars, addrVars, nicVars
<1>6. QED
  BY <1>1, <1>2, <1>3, <1>4, <1>5 DEF ServerStep

\* The other side of a connection.
LEMMA OtherNames ==
  /\ \A c \in Clients : Other(K(c)) = S(c) /\ Other(S(c)) = K(c)
  /\ \A c \in Clients : Owner(K(c)) = c /\ Owner(S(c)) = Server
  /\ \A c \in Clients : MemoryOf(K(c)) = K(c)
BY DEF Other, Owner, K, S, MemoryOf

\* The NIC.
LEMMA NicTyped ==
  ASSUME TypeInv, NEW e \in Ends, Nic(e)
  PROVE  RestType'
<1>0. RestType /\ LifeInv /\ Alive /\ posted[e] \in Seq(Operations)
  BY DEF TypeInv, RestType
<1>1. posted[e] # << >> => Head(posted[e]) \in Operations /\ Tail(posted[e]) \in Seq(Operations)
  <2>1. PICK q \in Seq(Operations) : q = posted[e]
    BY <1>0
  <2>2. q # << >> => Head(q) \in Operations /\ Tail(q) \in Seq(Operations)
    OBVIOUS
  <2>3. QED
    BY <2>1, <2>2
<1>2. \A o \in Operations : o.mem \in Memory /\ o.op \in {"mr", "write", "read"}
  BY DEF Operations
<1>3. posted' \in [Ends -> Seq(Operations)]
  BY <1>0, <1>1 DEF Nic, Deliver, Read, Write, WriteCompletes, RestType
<1>4. recvMsg' \in [Ends -> Memory]
  BY <1>0, <1>1, <1>2 DEF Nic, Deliver, Read, Write, WriteCompletes, RestType, connVars
<1>5. /\ saddr' \in [Clients -> [signal : {0, 1, 11}, from : Memory]]
      /\ caddr' \in [Clients -> {0, 1, 11}]
  <2>1. CASE Write(e)
    <3>1. PICK w \in Operations : w = Head(posted[e])
      BY <1>1, <2>1 DEF Write
    <3>2. PICK signal : signal = IF e[1] = "server" THEN saddr[Region(e[2])].signal ELSE caddr[e[2]]
      OBVIOUS
    <3>3. signal \in {0, 1, 11}
      <4>1. PICK c \in Clients : e = K(c) \/ e = S(c)
        BY EndNames
      <4>2. CASE e = K(c)
        BY <1>0, <3>2, <4>2 DEF K, RestType
      <4>3. CASE e = S(c)
        <5>1. life[S(c)] # "none"
          BY <1>0, <2>1, <4>3 DEF Write, Alive
        <5>2. Region(c) \in Clients /\ signal = saddr[Region(c)].signal
          BY <1>0, <3>2, <4>3, <5>1, RegionOf DEF S
        <5>3. QED
          BY <1>0, <5>2 DEF RestType
      <4>4. QED
        BY <4>1, <4>2, <4>3
    <3>4. e \in Memory /\ w.mem \in Memory /\ w.mem[2] \in Clients
      BY <1>2 DEF Ends, Memory
    <3>5. \/ saddr' = [saddr EXCEPT ![w.mem[2]] = [signal |-> signal, from |-> e]] /\ UNCHANGED caddr
          \/ caddr' = [caddr EXCEPT ![w.mem[2]] = signal] /\ UNCHANGED saddr
      BY <2>1, <3>1, <3>2 DEF Write
    <3>6. [signal |-> signal, from |-> e] \in [signal : {0, 1, 11}, from : Memory]
      BY <3>3, <3>4
    <3>7. QED
      BY <1>0, <3>3, <3>4, <3>5, <3>6 DEF RestType
  <2>2. CASE ~Write(e)
    BY <1>0, <2>2 DEF Nic, Deliver, Read, WriteCompletes, RestType, addrVars
  <2>3. QED
    BY <2>1, <2>2
<1>6. UNCHANGED <<rss, readyCnt, ordered, prevRss, prevChanged, rest, held, sendState, recvState, peer, done>>
  BY DEF Nic, Deliver, Read, Write, WriteCompletes, waitVars, connVars, addrVars
<1>7. QED
  BY <1>0, <1>3, <1>4, <1>5, <1>6 DEF RestType

\* Requests are posted at ends that are built.
LEMMA AliveFrame ==
  ASSUME Alive, WakeType, RestType,
         \A e \in Ends : life[e] # "none" => life'[e] # "none",
         \A e \in Ends : life'[e] = "none" =>
            recvs'[e] = recvs[e] /\ cqRecv'[e] = cqRecv[e] /\ posted'[e] = posted[e],
         ordered' = ordered \/ \E x, d : ordered' = [ordered EXCEPT ![x] = d] /\ life[S(d)] # "none"
                                         /\ d \in Clients
  PROVE  Alive'
<1>1. \A e \in Ends : life'[e] = "none" => recvs'[e] = 0 /\ cqRecv'[e] = 0 /\ posted'[e] = << >>
  BY DEF Alive
<1>2. ASSUME NEW i \in Clients, ordered'[i] \in Clients PROVE life'[S(ordered'[i])] # "none"
  <2>1. life[S(ordered'[i])] # "none"
    <3>1. CASE ordered' = ordered
      BY <1>2, <3>1 DEF Alive
    <3>2. ASSUME NEW x, NEW d, ordered' = [ordered EXCEPT ![x] = d], life[S(d)] # "none"
          PROVE  life[S(ordered'[i])] # "none"
      <4>1. ordered'[i] = d \/ ordered'[i] = ordered[i]
        BY <3>2 DEF RestType
      <4>2. QED
        BY <1>2, <3>2, <4>1 DEF Alive
    <3>3. QED
      BY <3>1, <3>2
  <2>2. S(ordered'[i]) \in Ends
    BY <1>2, EndNames
  <2>3. QED
    BY <2>1, <2>2
<1>3. QED
  BY <1>1, <1>2 DEF Alive

\* A server that takes an event knows whose it is.
LEMMA ServerNext ==
  ASSUME WakeType, NEW type, NextEvent(Server, type)
  PROVE  Head(events[Server]).clt \in Clients /\ Queued(type, Head(events[Server]).clt)
<1>1. events[Server] \in Seq(Happenings) /\ events[Server] # << >>
  BY Owners DEF WakeType, NextEvent
<1>2. PICK i \in DOMAIN events[Server] : events[Server][i] = Head(events[Server])
  BY <1>1
<1>3. Head(events[Server]) \in Happenings /\ Head(events[Server]).type = type
  BY <1>1 DEF NextEvent
<1>4. PICK h \in Happenings : h = Head(events[Server])
  BY <1>3
<1>5. PICK c \in Clients : c = h.clt
  BY EventNames
<1>6. h = Event(type, c)
  BY <1>3, <1>4, <1>5, EventNames
<1>7. Queued(type, c)
  BY <1>2, <1>4, <1>6 DEF Queued
<1>8. QED
  BY <1>4, <1>5, <1>7

\* A request more at one end, or at none if there is no such end.
LEMMA PostAt ==
  ASSUME RestType, NEW e, NEW op, NEW mem, Post(e, op, mem)
  PROVE  /\ \A f \in Ends : f # e => posted'[f] = posted[f]
         /\ e \in Ends => posted'[e] = Append(posted[e], [op |-> op, mem |-> mem])
         /\ e \in Ends => rss'[Owner(e)] = rss[Owner(e)] + 1
         /\ \A p \in Procs : p # Owner(e) => rss'[p] = rss[p]
BY Owners DEF Post, RestType

\* All steps keep to it.
LEMMA AliveStep ==
  ASSUME TypeInv, LifeInv', [Next]_vars
  PROVE  Alive'
<1>0. /\ WakeType /\ LifeInv /\ RestType /\ Alive
      /\ \A e \in Ends : life[e] # "none" => life'[e] # "none"
      /\ recvs \in [Ends -> Nat] /\ cqRecv \in [Ends -> Nat] /\ life \in [Ends -> {"none", "built", "freed"}]
  BY MemoryKept DEF TypeInv, WakeType, LifeInv, LifeType
<1>1. ASSUME NEW c \in Clients, OnAddrResolved(c) PROVE Alive'
  <2>1. /\ life' = [life EXCEPT ![K(c)] = "built"] /\ recvs' = [recvs EXCEPT ![K(c)] = @ + 1]
        /\ UNCHANGED <<posted, cqRecv, ordered>>
    BY <1>1 DEF OnAddrResolved, PostReceive, K
  <2>2. QED
    BY <1>0, <2>1, AliveFrame
<1>2. ASSUME NEW c \in Clients, OnConnection(c) \/ Publish(c) \/ IoDone(c) PROVE Alive'
  <2>1. life[K(c)] # "none"
    <3>1. ClientAt(c)
      BY <1>0 DEF LifeInv
    <3>2. \/ pc[c] \in {"run", "published"}
          \/ pc[c] = "events" /\ NextEvent(c, "ESTABLISHED")
      BY <1>2 DEF OnConnection, Publish, IoDone
    <3>3. QED
      BY <3>1, <3>2, ClientNext DEF ClientAt
  <2>2. /\ \E op, mem : Post(K(c), op, mem)
        /\ UNCHANGED <<recvs, cqRecv, ordered>>
    BY <1>2 DEF OnConnection, Publish, IoDone, K, connVars
  <2>3. \A f \in Ends : f # K(c) => posted'[f] = posted[f]
    BY <1>0, <2>2, PostAt
  <2>4. QED
    BY <1>0, <2>1, <2>2, <2>3, AliveFrame
<1>3. CASE OnConnectRequest
  <2>1. PICK c \in Clients : c = Head(events[Server]).clt
    BY <1>0, <1>3, ServerNext DEF OnConnectRequest
  <2>2. /\ life' = [life EXCEPT ![S(c)] = "built"] /\ recvs' = [recvs EXCEPT ![S(c)] = @ + 1]
        /\ UNCHANGED <<posted, cqRecv, ordered>>
    BY <1>3, <2>1 DEF OnConnectRequest, PostReceive, S
  <2>3. QED
    BY <1>0, <2>2, AliveFrame
<1>4. CASE OnEstablished
  <2>1. PICK c \in Clients : c = Head(events[Server]).clt /\ Queued("ESTABLISHED", c)
    BY <1>0, <1>4, ServerNext DEF OnEstablished
  <2>2. life[S(c)] # "none"
    BY <1>0, <2>1 DEF LifeInv, ServerLink
  <2>3. /\ \E op, mem : Post(S(c), op, mem) /\ UNCHANGED <<recvs, cqRecv, ordered>>
    BY <1>4, <2>1 DEF OnEstablished, S, connVars
  <2>4. \A f \in Ends : f # S(c) => posted'[f] = posted[f]
    BY <1>0, <2>3, PostAt
  <2>5. QED
    BY <1>0, <2>2, <2>3, <2>4, AliveFrame
<1>5. ASSUME NEW i \in Clients, VisitReads(i) \/ VisitAcks(i) PROVE Alive'
  <2>1. /\ \E op, mem : Post(S(ordered[i]), op, mem)
        /\ UNCHANGED <<recvs, cqRecv, ordered, life>>
    BY <1>5 DEF VisitReads, VisitAcks, Visits, S
  <2>2. \A f \in Ends : f # S(ordered[i]) => posted'[f] = posted[f]
    BY <1>0, <2>1, PostAt
  <2>3. S(ordered[i]) \in Ends => life[S(ordered[i])] # "none"
    BY <1>0 DEF Alive, S, Ends
  <2>4. QED
    BY <1>0, <2>1, <2>2, <2>3, AliveFrame
<1>6. ASSUME NEW e \in Ends, PollRecv(e) PROVE Alive'
  <2>1. /\ cqRecv[e] > 0 /\ cqRecv' = [cqRecv EXCEPT ![e] = @ - 1] /\ UNCHANGED <<posted, recvs, life>>
        /\ ordered' = IF e[1] = "server" THEN [ordered EXCEPT ![IndexOf(e)] = e[2]] ELSE ordered
    BY <1>6 DEF PollRecv
  <2>2. life[e] # "none"
    BY <1>0, <2>1 DEF Alive
  <2>3. e[1] = "server" => e = S(e[2]) /\ e[2] \in Clients
    BY DEF S, Ends
  <2>4. ordered' = ordered \/ \E x, d : ordered' = [ordered EXCEPT ![x] = d] /\ life[S(d)] # "none" /\ d \in Clients
    BY <2>1, <2>2, <2>3
  <2>5. \A f \in Ends : f # e => cqRecv'[f] = cqRecv[f]
    BY <1>0, <2>1
  <2>6. QED
    BY <1>0, <2>1, <2>2, <2>4, <2>5, AliveFrame
<1>7. ASSUME NEW e \in Ends, Deliver(e) PROVE Alive'
  <2>1. PICK f \in Ends : f = Other(e)
    BY Owners
  <2>2. /\ posted[e] # << >> /\ recvs[f] > 0 /\ posted' = [posted EXCEPT ![e] = Tail(@)]
        /\ recvs' = [recvs EXCEPT ![f] = @ - 1] /\ cqRecv' = [cqRecv EXCEPT ![f] = @ + 1]
        /\ UNCHANGED <<life, ordered>>
    BY <1>7, <2>1 DEF Deliver
  <2>3. life[e] # "none" /\ life[f] # "none"
    BY <1>0, <2>2 DEF Alive
  <2>4. \A g \in Ends : g # e => posted'[g] = posted[g]
    BY <1>0, <2>2 DEF RestType
  <2>5. \A g \in Ends : g # f => recvs'[g] = recvs[g] /\ cqRecv'[g] = cqRecv[g]
    BY <1>0, <2>2
  <2>6. QED
    BY <1>0, <2>2, <2>3, <2>4, <2>5, AliveFrame
<1>8. ASSUME NEW e \in Ends, Read(e) \/ Write(e) PROVE Alive'
  <2>1. /\ posted[e] # << >> /\ posted' = [posted EXCEPT ![e] = Tail(@)] /\ UNCHANGED <<recvs, cqRecv, life, ordered>>
    BY <1>8 DEF Read, Write, connVars
  <2>2. life[e] # "none"
    BY <1>0, <2>1 DEF Alive
  <2>3. \A g \in Ends : g # e => posted'[g] = posted[g]
    BY <1>0, <2>1 DEF RestType
  <2>4. QED
    BY <1>0, <2>1, <2>2, <2>3, AliveFrame
<1>9. CASE UNCHANGED <<recvs, cqRecv, posted, ordered>>
  BY <1>0, <1>9, AliveFrame
<1>10. ASSUME NEW p \in Procs, Polls(p) PROVE Alive'
  <2>1. CASE \E e \in Ends : PollRecv(e)
    BY <1>6, <2>1
  <2>2. CASE ~\E e \in Ends : PollRecv(e)
    BY <1>9, <1>10, <2>2 DEF Polls, GetCqEvent, PollEmpty, Drained, PollSend, connVars, nicVars
  <2>3. QED
    BY <2>1, <2>2
<1>11. ASSUME NEW c \in Clients, Client(c) PROVE Alive'
  <2>1. CASE \/ ConnectToServer(c) \/ OnRouteResolved(c) \/ OnUnknownEvent(c) \/ ClientReady(c)
             \/ ClientDisconnect(c) \/ OnDisconnected(c)
    BY <1>9, <2>1 DEF ConnectToServer, OnRouteResolved, OnUnknownEvent, ClientReady,
        ClientDisconnect,
      OnDisconnected, connVars, nicVars
  <2>2. QED
    BY <1>1, <1>2, <1>10, <1>11, <2>1, Owners DEF Client
<1>12. CASE ServerStep
  <2>1. CASE TellAddress \/ Accept \/ CountEstablished \/ ServerReady \/ ServerDisconnect \/ OnDisconnect
    BY <1>9, <2>1 DEF TellAddress, Accept, CountEstablished, ServerReady, ServerDisconnect,
        OnDisconnect,
      connVars, nicVars
  <2>2. ASSUME NEW i \in Clients, VisitEnds(i) \/ VisitNothing(i) PROVE Alive'
    BY <1>9, <2>2 DEF VisitEnds, VisitNothing, Visits
  <2>3. QED
    BY <1>3, <1>4, <1>5, <1>10, <1>12, <2>1, <2>2, Owners DEF ServerStep, Visit
<1>13. CASE Manager
  BY <1>9, <1>13 DEF Manager, connVars, nicVars
<1>14. ASSUME NEW e \in Ends, Nic(e) PROVE Alive'
  <2>1. CASE WriteCompletes(e)
    BY <1>9, <2>1 DEF WriteCompletes, connVars
  <2>2. QED
    BY <1>7, <1>8, <1>14, <2>1 DEF Nic
<1>15. CASE UNCHANGED vars
  BY <1>9, <1>15 DEF vars, connVars, nicVars
<1>16. QED
  BY <1>11, <1>12, <1>13, <1>14, <1>15 DEF Next, Others, Terminating

\* The types that every step keeps.
LEMMA RestTypeStep ==
  ASSUME TypeInv, [Next]_vars
  PROVE  RestType'
<1>1. ASSUME NEW p \in Procs, Polls(p) PROVE RestType'
  BY <1>1, PollsTyped
<1>2. ASSUME NEW c \in Clients, Client(c) PROVE RestType'
  BY <1>1, <1>2, ClientTyped, Owners
<1>3. CASE ServerStep
  BY <1>1, <1>3, ServerTyped, Owners
<1>4. CASE Manager \/ UNCHANGED vars
  BY <1>4 DEF Manager, TypeInv, RestType, vars, waitVars, connVars, addrVars, nicVars
<1>5. ASSUME NEW e \in Ends, Nic(e) PROVE RestType'
  BY <1>5, NicTyped
<1>6. QED
  BY <1>2, <1>3, <1>4, <1>5 DEF Next, Others, Terminating

\* At the start.
LEMMA TypeStart == Init => RestType /\ Alive
<1> SUFFICES ASSUME Init PROVE RestType /\ Alive
  OBVIOUS
<1>1. ClientNum \in 0..ClientNum /\ ClientNum \notin Clients /\ 0 \in Clients
  BY ConnectionAssumption DEF Clients
<1>2. None \in Memory
  BY <1>1 DEF None, Memory
<1>3. posted = [e \in Ends |-> << >>] /\ << >> \in Seq(Operations)
  BY DEF Init
<1>4. RestType
  BY <1>1, <1>2, <1>3 DEF Init, RestType
<1>5. Alive
  BY <1>1 DEF Init, Alive
<1>6. QED
  BY <1>4, <1>5

\* Always.
LEMMA TypeInvAlways == Spec => []TypeInv
<1>1. WakeInv => WakeType
  BY DEF WakeInv
<1>2. TypeInv /\ LifeInv' /\ [Next]_vars => RestType' /\ Alive'
  BY RestTypeStep, AliveStep
<1>3. WakeType /\ LifeInv /\ RestType /\ Alive <=> TypeInv
  BY DEF TypeInv
<1>4. QED
  BY <1>1, <1>2, <1>3, TypeStart, LifeAlways, WakeAlways, PTL DEF Spec

\* Every variable of Connection has its type in every reachable state.  What
\* this takes is that no request is posted on a connection that is not built,
\* and that the server has a region for every connection it builds.
THEOREM TypeCorrect == Spec => []TypeOK
<1>1. TypeInv => TypeOK
  BY DEF TypeInv, WakeType, LifeInv, LifeType, RestType, TypeOK, Happenings
<1>2. QED
  BY <1>1, TypeInvAlways, PTL
================================================================================
