------------------------------ MODULE MsgChannel ------------------------------
(***************************************************************************)
(* What the forwarding path promises to the calls of netCDF functions it   *)
(* carries: every client has a channel to its server that loses, repeats   *)
(* and reorders nothing, and the server takes from all channels in step,   *)
(* one message of every client at a time, so that the n-th call of every   *)
(* client is decoded in the same round (the calls are collective).         *)
(***************************************************************************)
EXTENDS Naturals, Sequences

CONSTANTS Clients,   \* the clients of one server
          Payloads   \* what a message can be

VARIABLES sent,      \* the messages each client has sent
          delivered  \* the messages of each client the server has decoded

Init == /\ sent = [c \in Clients |-> <<>>]
        /\ delivered = [c \in Clients |-> <<>>]

Send(c) == /\ \E p \in Payloads : sent' = [sent EXCEPT ![c] = Append(@, p)]
           /\ UNCHANGED delivered

Next1(c) == sent[c][Len(delivered[c]) + 1]

DeliverRound ==
  /\ \A c \in Clients : Len(delivered[c]) < Len(sent[c])
  /\ delivered' = [c \in Clients |-> Append(delivered[c], Next1(c))]
  /\ UNCHANGED sent

Next == DeliverRound \/ \E c \in Clients : Send(c)

Spec == Init /\ [][Next]_<<sent, delivered>>
==============================================================================
