------------------------------- MODULE Talk_proofs -------------------------------
(***************************************************************************)
(* What the two ends of a connection ask for and tell each other, for any  *)
(* number of clients, any number of requests at which the server drains    *)
(* its queue, and any backlog: every request is counted, both ends have    *)
(* exchanged their memory when the initialisations end, an address is      *)
(* written by the client it was given to, and nothing is under way when a   *)
(* connection ends.                                                        *)
(*                                                                         *)
(* On top of TypeInv of Connection_proofs:                                 *)
(*   TalkInv   what the ends have sent, received and counted;              *)
(*   FromInv   who has written the addresses of the server;                *)
(*   TearInv   how far the publication of every client is, and the end.    *)
(***************************************************************************)
EXTENDS Connection_proofs, Counting_proofs

(***************************************************************************)
(* What the ends of connections ask for and tell each other.               *)
(***************************************************************************)

(* Requests that an end has posted, and receives, counted from its start to  *)
(* the one after which its state machine stops counting.                    *)
Sends(e) == sendState[e] + Len(posted[e]) + flying[e] + cqSend[e]
Recvs(e) == recvState[e] + recvs[e] + cqRecv[e]

(* Both messages are through. *)
Ready(e) == sendState[e] > 0 /\ recvState[e] > 0

(* The first request tells the other end of the memory of this one; what is  *)
(* posted later is for the memory this end was told of.                     *)
PostedOk(e, r) ==
  \/ r.op = "mr" /\ r.mem = MemoryOf(e)
  \/ r.op # "mr" /\ r.mem = peer[e] /\ recvState[e] > 0

EndOk(e) ==
  /\ Recvs(e) = IF life[e] = "none" THEN 0 ELSE 1
  /\ life[e] = "none" => Sends(e) = 0
  /\ Sends(e) <= 1 \/ Ready(e)
  /\ cqRecv[e] + recvState[e] > 0 => Sends(Other(e)) > 0 /\ recvMsg[e] = MemoryOf(Other(e))
  /\ recvState[e] > 0 => peer[e] = recvMsg[e]
  /\ \A i \in DOMAIN posted[e] : PostedOk(e, posted[e][i])

EndsOk == \A e \in Ends : EndOk(e)

flow(e) == <<recvs[e], posted[e], flying[e], cqSend[e], cqRecv[e], sendState[e], recvState[e],
             recvMsg[e], peer[e]>>

(* An end that is built stays so, and its memory where it is. *)
Kept ==
  \A e \in Ends : life[e] # "none" => life'[e] # "none" /\ MemoryOf(e)' = MemoryOf(e)

\* The counts are numbers.
LEMMA FlowTyped ==
  ASSUME TypeInv, NEW e \in Ends
  PROVE  /\ recvs[e] \in Nat /\ Len(posted[e]) \in Nat /\ flying[e] \in Nat /\ cqSend[e] \in Nat
         /\ cqRecv[e] \in Nat /\ sendState[e] \in 0..2 /\ recvState[e] \in 0..2
         /\ posted[e] \in Seq(Operations)
         /\ Sends(e) \in Nat /\ Recvs(e) \in Nat /\ Outstanding(e) \in Nat
<1>1. /\ recvs[e] \in Nat /\ flying[e] \in Nat /\ cqSend[e] \in Nat
      /\ cqRecv[e] \in Nat /\ sendState[e] \in 0..2 /\ recvState[e] \in 0..2
      /\ posted[e] \in Seq(Operations)
  BY DEF TypeInv, WakeType, RestType
<1>2. PICK n \in Nat : n = Len(posted[e])
  BY <1>1
<1>3. Sends(e) \in Nat /\ Recvs(e) \in Nat /\ Outstanding(e) \in Nat
  <2>1. sendState[e] \in Nat /\ recvState[e] \in Nat
    BY <1>1
  <2>2. Sends(e) \in Nat
    <3>1. PICK a \in Nat, b \in Nat, c \in Nat, d \in Nat :
            a = sendState[e] /\ b = Len(posted[e]) /\ c = flying[e] /\ d = cqSend[e]
      BY <1>1, <1>2, <2>1
    <3>2. a + b + c + d \in Nat
      OBVIOUS
    <3>3. QED
      BY <3>1, <3>2, Zenon DEF Sends
  <2>3. Recvs(e) \in Nat
    <3>1. PICK a \in Nat, b \in Nat, c \in Nat :
            a = recvState[e] /\ b = recvs[e] /\ c = cqRecv[e]
      BY <1>1, <1>2, <2>1
    <3>2. a + b + c \in Nat
      OBVIOUS
    <3>3. QED
      BY <3>1, <3>2, Zenon DEF Recvs
  <2>4. Outstanding(e) \in Nat
    <3>1. \A a, b, c, d, f \in Nat : a + b + c + d + f \in Nat
      OBVIOUS
    <3>2. recvs[e] \in Nat /\ flying[e] \in Nat /\ cqSend[e] \in Nat /\ cqRecv[e] \in Nat
      BY <1>1
    <3>3. Len(posted[e]) \in Nat
      BY <1>2
    <3>4. QED
      BY <3>1, <3>2, <3>3, Zenon DEF Outstanding
  <2>5. QED
    BY <2>2, <2>3, <2>4
<1>4. QED
  BY <1>1, <1>2, <1>3

\* An end of which nothing changes.
LEMMA EndKept ==
  ASSUME TypeInv, EndsOk, Kept, NEW e \in Ends, flow(e)' = flow(e),
         life[e] = "none" => life'[e] = "none",
         Sends(Other(e)) > 0 => Sends(Other(e))' > 0
  PROVE  /\ EndOk(e)'
         /\ Sends(e)' = Sends(e) /\ Outstanding(e)' = Outstanding(e) /\ (Ready(e)' <=> Ready(e))
<1>0. EndOk(e) /\ EndOk(Other(e)) /\ Other(e) \in Ends
  BY Owners DEF EndsOk
<1>1. /\ recvs'[e] = recvs[e] /\ posted'[e] = posted[e] /\ flying'[e] = flying[e]
      /\ cqSend'[e] = cqSend[e] /\ cqRecv'[e] = cqRecv[e] /\ sendState'[e] = sendState[e]
      /\ recvState'[e] = recvState[e] /\ recvMsg'[e] = recvMsg[e] /\ peer'[e] = peer[e]
  BY DEF flow
<1>2. /\ Sends(e)' = Sends(e) /\ Recvs(e)' = Recvs(e) /\ Outstanding(e)' = Outstanding(e)
      /\ Ready(e)' <=> Ready(e)
  BY <1>1 DEF Sends, Recvs, Outstanding, Ready
<1>3. life'[e] = "none" <=> life[e] = "none"
  BY DEF Kept
<1>4. cqRecv[e] + recvState[e] > 0 => Sends(Other(e))' > 0 /\ recvMsg'[e] = MemoryOf(Other(e))'
  <2>1. SUFFICES ASSUME cqRecv[e] + recvState[e] > 0
                 PROVE  Sends(Other(e))' > 0 /\ recvMsg'[e] = MemoryOf(Other(e))'
    OBVIOUS
  <2>2. Sends(Other(e)) > 0 /\ recvMsg[e] = MemoryOf(Other(e))
    BY <1>0, <2>1 DEF EndOk
  <2>3. life[Other(e)] # "none"
    BY <1>0, <2>2 DEF EndOk
  <2>4. MemoryOf(Other(e))' = MemoryOf(Other(e))
    BY <1>0, <2>3 DEF Kept
  <2>5. QED
    BY <1>1, <2>2, <2>4
<1>5. ASSUME NEW i \in DOMAIN posted[e] PROVE PostedOk(e, posted[e][i])'
  <2>1. PostedOk(e, posted[e][i])
    BY <1>0 DEF EndOk
  <2>2. life[e] # "none"
    <3>1. posted[e] # << >> /\ posted[e] \in Seq(Operations)
      BY FlowTyped
    <3>2. QED
      BY <3>1 DEF TypeInv, Alive
  <2>3. MemoryOf(e)' = MemoryOf(e)
    BY <2>2 DEF Kept
  <2>4. QED
    BY <1>1, <2>1, <2>3 DEF PostedOk
<1>6. QED
  BY <1>0, <1>1, <1>2, <1>3, <1>4, <1>5 DEF EndOk

\* What an end was told stays true.
LEMMA HeardKept ==
  ASSUME EndsOk, Kept, NEW e \in Ends, cqRecv[e] + recvState[e] > 0
  PROVE  /\ Sends(Other(e)) > 0 /\ recvMsg[e] = MemoryOf(Other(e))
         /\ MemoryOf(Other(e))' = MemoryOf(Other(e))
<1>1. EndOk(e) /\ EndOk(Other(e)) /\ Other(e) \in Ends
  BY Owners DEF EndsOk
<1>2. Sends(Other(e)) > 0 /\ recvMsg[e] = MemoryOf(Other(e))
  BY <1>1 DEF EndOk
<1>3. life[Other(e)] # "none"
  BY <1>1, <1>2 DEF EndOk
<1>4. QED
  BY <1>1, <1>2, <1>3 DEF Kept

\* What is posted stays right.
LEMMA PostedKept ==
  ASSUME Kept, NEW e \in Ends, life[e] # "none",
         recvState[e] > 0 => recvState'[e] > 0 /\ peer'[e] = peer[e]
  PROVE  \A r : PostedOk(e, r) => PostedOk(e, r)'
<1>1. MemoryOf(e)' = MemoryOf(e)
  BY DEF Kept
<1>2. QED
  BY <1>1 DEF PostedOk

\* build_connection: an end gets its receive.
LEMMA EndsReceive ==
  ASSUME TypeInv, EndsOk, Kept, NEW e \in Ends, life[e] = "none",
         life' = [life EXCEPT ![e] = "built"], PostReceive(e),
         UNCHANGED <<posted, flying, cqSend, cqRecv, sendState, recvState, recvMsg, peer>>
  PROVE  /\ EndsOk'
         /\ \A f \in Ends : Sends(f)' = Sends(f) /\ (Ready(f)' <=> Ready(f))
         /\ \A f \in Ends : f # e => Outstanding(f)' = Outstanding(f)
         /\ Outstanding(e)' = Outstanding(e) + 1
<1>0. /\ EndOk(e) /\ recvs \in [Ends -> Nat] /\ life \in [Ends -> {"none", "built", "freed"}]
      /\ posted[e] = << >>
  BY DEF EndsOk, TypeInv, WakeType, LifeInv, LifeType, Alive
<1>1. recvs' = [recvs EXCEPT ![e] = @ + 1]
  BY DEF PostReceive
<1>2. /\ Recvs(e) = 0 /\ Sends(e) = 0 /\ recvState[e] \in Nat /\ recvs[e] \in Nat /\ cqRecv[e] \in Nat
      /\ Len(posted[e]) \in Nat /\ flying[e] \in Nat /\ cqSend[e] \in Nat
  <2>1. Recvs(e) = 0 /\ Sends(e) = 0
    BY <1>0 DEF EndOk
  <2>2. recvState[e] \in 0..2
    BY FlowTyped
  <2>3. QED
    BY <2>1, <2>2, FlowTyped
<1>3. recvState[e] = 0 /\ cqRecv[e] = 0 /\ recvs[e] = 0 /\ recvs'[e] = 1
  BY <1>0, <1>1, <1>2 DEF Recvs
<1>4. \A f \in Ends : Sends(f)' = Sends(f) /\ (Ready(f)' <=> Ready(f))
  BY DEF Sends, Ready
<1>5. Recvs(e)' = 1
  BY <1>3 DEF Recvs
<1>6. Outstanding(e)' = Outstanding(e) + 1
  BY <1>2, <1>3 DEF Outstanding
<1>7. EndOk(e)'
  BY <1>0, <1>2, <1>3, <1>4, <1>5 DEF EndOk
<1>8. ASSUME NEW f \in Ends, f # e PROVE EndOk(f)' /\ Outstanding(f)' = Outstanding(f)
  <2>1. flow(f)' = flow(f) /\ (life[f] = "none" => life'[f] = "none")
    BY <1>0, <1>1, <1>8 DEF flow
  <2>2. Sends(Other(f))' = Sends(Other(f))
    BY <1>4, Owners
  <2>3. QED
    BY <2>1, <2>2, EndKept
<1>9. QED
  BY <1>4, <1>6, <1>7, <1>8 DEF EndsOk

\* A request is posted.
LEMMA EndsPost ==
  ASSUME TypeInv, EndsOk, Kept, NEW e \in Ends, life[e] # "none",
         NEW op, NEW mem, Post(e, op, mem),
         \/ Sends(e) = 0 /\ op = "mr" /\ mem = MemoryOf(e)
         \/ Ready(e) /\ op # "mr" /\ mem = peer[e],
         UNCHANGED <<life, recvs, flying, cqSend, cqRecv, sendState, recvState, recvMsg, peer>>
  PROVE  /\ EndsOk'
         /\ \A f \in Ends : Ready(f)' <=> Ready(f)
         /\ \A f \in Ends : f # e => Sends(f)' = Sends(f) /\ Outstanding(f)' = Outstanding(f)
         /\ Sends(e)' = Sends(e) + 1 /\ Outstanding(e)' = Outstanding(e) + 1
<1>0. EndOk(e) /\ RestType
  BY DEF EndsOk, TypeInv
<1>1. /\ recvState[e] \in Nat /\ recvs[e] \in Nat /\ cqRecv[e] \in Nat /\ Sends(e) \in Nat
      /\ flying[e] \in Nat /\ cqSend[e] \in Nat /\ sendState[e] \in Nat
      /\ posted[e] \in Seq(Operations)
  BY FlowTyped
<1>2. PICK r : r = [op |-> op, mem |-> mem]
  OBVIOUS
<1>3. posted'[e] = Append(posted[e], r) /\ \A f \in Ends : f # e => posted'[f] = posted[f]
  BY <1>0, <1>2, PostAt
<1>4. PICK q \in Seq(Operations), n \in Nat : q = posted[e] /\ n = Len(q)
  BY <1>1
<1>5. /\ Len(posted'[e]) = n + 1 /\ DOMAIN posted'[e] = 1..(n + 1) /\ DOMAIN posted[e] = 1..n
      /\ posted'[e][n + 1] = r /\ \A i \in 1..n : posted'[e][i] = posted[e][i]
  BY <1>3, <1>4
<1>6. \A i \in 1..(n + 1) : i \in 1..n \/ i = n + 1
  OBVIOUS
<1>7. Sends(e)' = Sends(e) + 1
  <2>1. /\ Sends(e)' = sendState[e] + (n + 1) + flying[e] + cqSend[e]
        /\ Sends(e) = sendState[e] + n + flying[e] + cqSend[e]
    BY <1>4, <1>5 DEF Sends
  <2>2. PICK a \in Nat, b \in Nat, c \in Nat : a = sendState[e] /\ b = flying[e] /\ c = cqSend[e]
    BY <1>1
  <2>3. Sends(e)' = a + (n + 1) + b + c /\ Sends(e) = a + n + b + c
    BY <2>1, <2>2
  <2>4. a + (n + 1) + b + c = a + n + b + c + 1
    OBVIOUS
  <2>5. QED
    BY <2>3, <2>4, Zenon
<1>8. Outstanding(e)' = Outstanding(e) + 1
  <2>1. /\ Outstanding(e)' = recvs[e] + (n + 1) + flying[e] + cqSend[e] + cqRecv[e]
        /\ Outstanding(e) = recvs[e] + n + flying[e] + cqSend[e] + cqRecv[e]
    BY <1>4, <1>5 DEF Outstanding
  <2>2. PICK a \in Nat, b \in Nat, c \in Nat, d \in Nat :
               a = recvs[e] /\ b = flying[e] /\ c = cqSend[e] /\ d = cqRecv[e]
    BY <1>1
  <2>3. Outstanding(e)' = a + (n + 1) + b + c + d /\ Outstanding(e) = a + n + b + c + d
    BY <2>1, <2>2
  <2>4. a + (n + 1) + b + c + d = a + n + b + c + d + 1
    OBVIOUS
  <2>5. QED
    BY <2>3, <2>4, Zenon
<1>9. \A f \in Ends : Ready(f)' <=> Ready(f)
  BY DEF Ready
<1>10. ASSUME NEW i \in DOMAIN posted'[e] PROVE PostedOk(e, posted[e][i])'
  <2>1. MemoryOf(e)' = MemoryOf(e)
    BY DEF Kept
  <2>2. CASE i = n + 1
    <3>1. posted'[e][i] = r /\ r.op = op /\ r.mem = mem
      BY <1>2, <1>5, <2>2
    <3>2. QED
      BY <2>1, <3>1 DEF PostedOk, Ready
  <2>3. CASE i \in 1..n
    <3>1. posted'[e][i] = posted[e][i] /\ PostedOk(e, posted[e][i])
      BY <1>0, <1>5, <2>3 DEF EndOk
    <3>2. QED
      BY <2>1, <3>1 DEF PostedOk
  <2>4. QED
    BY <1>5, <1>6, <2>2, <2>3
<1>11. cqRecv[e] + recvState[e] > 0 => Sends(Other(e))' > 0 /\ recvMsg'[e] = MemoryOf(Other(e))'
  <2>1. SUFFICES ASSUME cqRecv[e] + recvState[e] > 0
                 PROVE  Sends(Other(e))' > 0 /\ recvMsg'[e] = MemoryOf(Other(e))'
    OBVIOUS
  <2>2. Other(e) \in Ends /\ Other(e) # e
    BY Owners DEF Other
  <2>3. Sends(Other(e))' = Sends(Other(e))
    BY <1>3, <2>2 DEF Sends
  <2>4. QED
    BY <2>1, <2>3, HeardKept
<1>12. EndOk(e)'
  <2>1. Recvs(e)' = Recvs(e)
    BY DEF Recvs
  <2>2. Sends(e)' <= 1 \/ Ready(e)'
    BY <1>1, <1>7, <1>9
  <2>3. QED
    BY <1>0, <1>10, <1>11, <2>1, <2>2 DEF EndOk
<1>13. ASSUME NEW f \in Ends, f # e
       PROVE  EndOk(f)' /\ Sends(f)' = Sends(f) /\ Outstanding(f)' = Outstanding(f)
  <2>1. flow(f)' = flow(f)
    BY <1>3, <1>13 DEF flow
  <2>2. Sends(Other(f)) > 0 => Sends(Other(f))' > 0
    <3>1. CASE Other(f) = e
      BY <1>1, <1>7, <3>1
    <3>2. CASE Other(f) # e
      BY <1>3, <3>2, Owners DEF Sends
    <3>3. QED
      BY <3>1, <3>2
  <2>3. QED
    BY <2>1, <2>2, EndKept
<1>14. QED
  BY <1>7, <1>8, <1>9, <1>12, <1>13 DEF EndsOk

\* The NIC takes the first request.
LEMMA Shortened ==
  ASSUME TypeInv, NEW e \in Ends, posted[e] # << >>, posted' = [posted EXCEPT ![e] = Tail(@)]
  PROVE  /\ \E m \in Nat : Len(posted[e]) = m + 1 /\ Len(posted'[e]) = m
         /\ \A f \in Ends : f # e => posted'[f] = posted[f]
         /\ \A i \in DOMAIN posted'[e] : \E j \in DOMAIN posted[e] : posted'[e][i] = posted[e][j]
         /\ \E j \in DOMAIN posted[e] : Head(posted[e]) = posted[e][j]
<1>1. posted \in [Ends -> Seq(Operations)]
  BY DEF TypeInv, RestType
<1>2. PICK q \in Seq(Operations) : q = posted[e]
  BY <1>1
<1>3. posted'[e] = Tail(q) /\ \A f \in Ends : f # e => posted'[f] = posted[f]
  <2>1. PICK t : t = Tail(posted[e])
    OBVIOUS
  <2>2. posted' = [posted EXCEPT ![e] = t]
    BY <2>1
  <2>3. QED
    BY <1>1, <1>2, <2>1, <2>2
<1>4. q # << >>
  BY <1>2
<1>5. Len(q) \in Nat /\ Len(q) > 0 /\ Len(Tail(q)) = Len(q) - 1
  BY <1>4
<1>6. PICK m \in Nat : Len(q) = m + 1 /\ Len(Tail(q)) = m
  <2>1. Len(q) - 1 \in Nat /\ Len(q) = (Len(q) - 1) + 1
    BY <1>5
  <2>2. QED
    BY <1>5, <2>1
<1>7. /\ \A i \in DOMAIN Tail(q) : \E j \in DOMAIN q : Tail(q)[i] = q[j]
      /\ \E j \in DOMAIN q : Head(q) = q[j]
  BY <1>4, Taken
<1>8. Len(posted[e]) = m + 1 /\ Len(posted'[e]) = m
  BY <1>2, <1>3, <1>6, Zenon
<1>9. \A i \in DOMAIN posted'[e] : \E j \in DOMAIN posted[e] : posted'[e][i] = posted[e][j]
  <2>1. PICK t : t = Tail(q)
    OBVIOUS
  <2>2. \A i \in DOMAIN t : \E j \in DOMAIN q : t[i] = q[j]
    BY <1>7, <2>1
  <2>3. posted'[e] = t /\ posted[e] = q
    BY <1>2, <1>3, <2>1
  <2>4. QED
    BY <2>2, <2>3
<1>10. \E j \in DOMAIN posted[e] : Head(posted[e]) = posted[e][j]
  BY <1>2, <1>7, Zenon
<1>11. QED
  BY <1>3, <1>8, <1>9, <1>10, Zenon

\* A request moves towards its completion, and is still one.
LEMMA NicSums ==
  ASSUME TypeInv, NEW e \in Ends, Nic(e)
  PROVE  /\ Sends(e)' = Sends(e) /\ Outstanding(e)' = Outstanding(e)
         /\ Sends(e) > 0
<1>0. /\ recvs \in [Ends -> Nat] /\ flying \in [Ends -> Nat] /\ cqSend \in [Ends -> Nat]
      /\ cqRecv \in [Ends -> Nat] /\ Len(posted[e]) \in Nat /\ sendState[e] \in Nat
      /\ Other(e) \in Ends /\ Other(e) # e
  <2>1. sendState[e] \in 0..2 /\ Len(posted[e]) \in Nat
    BY FlowTyped
  <2>2. Other(e) \in Ends /\ Other(e) # e
    BY Owners DEF Other
  <2>3. QED
    BY <2>1, <2>2 DEF TypeInv, WakeType
<1>1. PICK s \in Nat, n \in Nat, k \in Nat, a \in Nat, b \in Nat, d \in Nat :
           /\ s = sendState[e] /\ n = Len(posted[e]) /\ k = flying[e] /\ a = cqSend[e]
           /\ b = recvs[e] /\ d = cqRecv[e]
  BY <1>0
<1>2. Sends(e) = s + n + k + a /\ Outstanding(e) = b + n + k + a + d
  BY <1>1 DEF Sends, Outstanding
<1>3. sendState' = sendState
  BY DEF Nic, Deliver, Read, Write, WriteCompletes, connVars
<1>4. recvs'[e] = recvs[e] /\ cqRecv'[e] = cqRecv[e]
  BY <1>0 DEF Nic, Deliver, Read, Write, WriteCompletes
<1>5. CASE Deliver(e) \/ Read(e)
  <2>1. posted[e] # << >> /\ posted' = [posted EXCEPT ![e] = Tail(@)]
    BY <1>5 DEF Deliver, Read
  <2>2. PICK m \in Nat : Len(posted[e]) = m + 1 /\ Len(posted'[e]) = m
    BY <2>1, Shortened
  <2>3. cqSend'[e] = a + 1 /\ flying'[e] = k
    BY <1>0, <1>1, <1>5 DEF Deliver, Read
  <2>4. Sends(e)' = s + m + k + (a + 1) /\ Outstanding(e)' = b + m + k + (a + 1) + d
    BY <1>1, <1>3, <1>4, <2>2, <2>3 DEF Sends, Outstanding
  <2>5. n = m + 1
    BY <1>1, <2>2
  <2>6. /\ s + (m + 1) + k + a = s + m + k + (a + 1) /\ s + (m + 1) + k + a > 0
        /\ b + (m + 1) + k + a + d = b + m + k + (a + 1) + d
    OBVIOUS
  <2>7. QED
    BY <1>2, <2>4, <2>5, <2>6, Zenon
<1>6. CASE Write(e)
  <2>1. posted[e] # << >> /\ posted' = [posted EXCEPT ![e] = Tail(@)]
    BY <1>6 DEF Write
  <2>2. PICK m \in Nat : Len(posted[e]) = m + 1 /\ Len(posted'[e]) = m
    BY <2>1, Shortened
  <2>3. cqSend'[e] = a /\ flying'[e] = k + 1
    BY <1>0, <1>1, <1>6 DEF Write
  <2>4. Sends(e)' = s + m + (k + 1) + a /\ Outstanding(e)' = b + m + (k + 1) + a + d
    BY <1>1, <1>3, <1>4, <2>2, <2>3 DEF Sends, Outstanding
  <2>5. n = m + 1
    BY <1>1, <2>2
  <2>6. /\ s + (m + 1) + k + a = s + m + (k + 1) + a /\ s + (m + 1) + k + a > 0
        /\ b + (m + 1) + k + a + d = b + m + (k + 1) + a + d
    OBVIOUS
  <2>7. QED
    BY <1>2, <2>4, <2>5, <2>6, Zenon
<1>7. CASE WriteCompletes(e)
  <2>1. flying[e] > 0 /\ posted' = posted
    BY <1>7 DEF WriteCompletes
  <2>2. PICK m \in Nat : k = m + 1
    <3>1. k - 1 \in Nat /\ k = (k - 1) + 1
      BY <1>1, <2>1
    <3>2. QED
      BY <3>1
  <2>3. cqSend'[e] = a + 1 /\ flying'[e] = m
    <3>1. cqSend'[e] = a + 1 /\ flying'[e] = k - 1
      BY <1>0, <1>1, <1>7 DEF WriteCompletes
    <3>2. QED
      BY <2>2, <3>1
  <2>4. Sends(e)' = s + n + m + (a + 1) /\ Outstanding(e)' = b + n + m + (a + 1) + d
    BY <1>1, <1>3, <1>4, <2>1, <2>3 DEF Sends, Outstanding
  <2>5. /\ s + n + (m + 1) + a = s + n + m + (a + 1) /\ s + n + (m + 1) + a > 0
        /\ b + n + (m + 1) + a + d = b + n + m + (a + 1) + d
    OBVIOUS
  <2>6. QED
    BY <1>2, <2>2, <2>4, <2>5, Zenon
<1>8. QED
  BY <1>5, <1>6, <1>7 DEF Nic

\* The NIC carries out a request.
LEMMA EndsNic ==
  ASSUME TypeInv, EndsOk, Kept, NEW e \in Ends, Nic(e)
  PROVE  /\ EndsOk'
         /\ \A f \in Ends : /\ Sends(f)' = Sends(f) /\ Outstanding(f)' = Outstanding(f)
                            /\ Ready(f)' <=> Ready(f)
<1>0. /\ Sends(e)' = Sends(e) /\ Outstanding(e)' = Outstanding(e) /\ Sends(e) > 0
      /\ \A g \in Ends : EndOk(g)
      /\ recvs \in [Ends -> Nat] /\ flying \in [Ends -> Nat] /\ cqSend \in [Ends -> Nat]
      /\ cqRecv \in [Ends -> Nat] /\ recvMsg \in [Ends -> Memory]
  BY NicSums DEF EndsOk, TypeInv, WakeType, RestType
<1>1. UNCHANGED <<life, sendState, recvState, peer>>
  BY DEF Nic, Deliver, Read, Write, WriteCompletes, connVars
<1>2. \A f \in Ends : Ready(f)' <=> Ready(f)
  BY <1>1 DEF Ready
<1>3. PICK f \in Ends : f = Other(e) /\ f # e /\ Other(f) = e
  BY EndNames, OtherNames
<1>4. /\ \A g \in Ends : g # e => posted'[g] = posted[g] /\ flying'[g] = flying[g] /\ cqSend'[g] = cqSend[g]
      /\ \A i \in DOMAIN posted'[e] : \E j \in DOMAIN posted[e] : posted'[e][i] = posted[e][j]
  <2>1. CASE WriteCompletes(e)
    BY <1>0, <2>1 DEF WriteCompletes
  <2>2. CASE Deliver(e) \/ Read(e) \/ Write(e)
    <3>1. posted[e] # << >> /\ posted' = [posted EXCEPT ![e] = Tail(@)]
      BY <2>2 DEF Deliver, Read, Write
    <3>2. \A g \in Ends : g # e => flying'[g] = flying[g] /\ cqSend'[g] = cqSend[g]
      BY <1>0, <2>2 DEF Deliver, Read, Write
    <3>3. QED
      BY <3>1, <3>2, Shortened
  <2>3. QED
    BY <2>1, <2>2 DEF Nic
<1>5. /\ \A g \in Ends : g # f => recvs'[g] = recvs[g] /\ cqRecv'[g] = cqRecv[g] /\ recvMsg'[g] = recvMsg[g]
      /\ \/ recvs'[f] = recvs[f] /\ cqRecv'[f] = cqRecv[f] /\ recvMsg'[f] = recvMsg[f]
         \/ /\ recvs[f] > 0 /\ recvs'[f] = recvs[f] - 1 /\ cqRecv'[f] = cqRecv[f] + 1
            /\ recvMsg'[f] = MemoryOf(e)
  <2>1. CASE Deliver(e)
    <3>1. posted[e] # << >> /\ posted' = [posted EXCEPT ![e] = Tail(@)] /\ Head(posted[e]).op = "mr"
      BY <2>1 DEF Deliver
    <3>2. PICK j \in DOMAIN posted[e] : Head(posted[e]) = posted[e][j]
      BY <3>1, Shortened
    <3>3. Head(posted[e]).mem = MemoryOf(e)
      BY <1>0, <3>1, <3>2 DEF EndOk, PostedOk
    <3>4. /\ recvs[f] > 0 /\ recvs' = [recvs EXCEPT ![f] = @ - 1]
          /\ recvMsg' = [recvMsg EXCEPT ![f] = MemoryOf(e)] /\ cqRecv' = [cqRecv EXCEPT ![f] = @ + 1]
      BY <1>3, <2>1, <3>3 DEF Deliver
    <3>5. QED
      BY <1>0, <3>4
  <2>2. CASE ~Deliver(e)
    BY <2>2 DEF Nic, Read, Write, WriteCompletes, connVars
  <2>3. QED
    BY <2>1, <2>2
<1>6. \A g \in Ends : g # e => Sends(g)' = Sends(g)
  BY <1>1, <1>4 DEF Sends
<1>7. Sends(f)' = Sends(f) /\ Outstanding(f)' = Outstanding(f) /\ Recvs(f)' = Recvs(f)
  <2>1. PICK n \in Nat, k \in Nat, a \in Nat, b \in Nat, d \in Nat, r \in Nat :
             /\ n = Len(posted[f]) /\ k = flying[f] /\ a = cqSend[f]
             /\ b = recvs[f] /\ d = cqRecv[f] /\ r = recvState[f]
    <3>1. Len(posted[f]) \in Nat /\ recvState[f] \in 0..2
      BY FlowTyped
    <3>2. recvState[f] \in Nat /\ flying[f] \in Nat /\ cqSend[f] \in Nat
          /\ recvs[f] \in Nat /\ cqRecv[f] \in Nat
      BY <1>0, <3>1
    <3>3. QED
      BY <3>1, <3>2, Zenon
  <2>2. Outstanding(f) = b + n + k + a + d /\ Recvs(f) = r + b + d
    BY <2>1 DEF Outstanding, Recvs
  <2>3. PICK x, y : x = recvs'[f] /\ y = cqRecv'[f]
    OBVIOUS
  <2>4. Outstanding(f)' = x + n + k + a + y /\ Recvs(f)' = r + x + y
    BY <1>1, <1>3, <1>4, <2>1, <2>3 DEF Outstanding, Recvs
  <2>5. (x = b /\ y = d) \/ (b > 0 /\ x = b - 1 /\ y = d + 1)
    BY <1>5, <2>1, <2>3
  <2>6. b + n + k + a + d = x + n + k + a + y /\ r + b + d = r + x + y
    <3>1. CASE x = b /\ y = d
      BY <3>1
    <3>2. CASE b > 0 /\ x = b - 1 /\ y = d + 1
      <4>1. PICK m \in Nat : b = m + 1 /\ x = m
        BY <3>2
      <4>2. (m + 1) + n + k + a + d = m + n + k + a + (d + 1) /\ r + (m + 1) + d = r + m + (d + 1)
        OBVIOUS
      <4>3. QED
        BY <3>2, <4>1, <4>2
    <3>3. QED
      BY <2>5, <3>1, <3>2
  <2>7. QED
    BY <1>3, <1>6, <2>2, <2>4, <2>6, Zenon
<1>8. EndOk(e)'
  <2>1. life[e] # "none"
    BY <1>0 DEF EndOk
  <2>2. \A r : PostedOk(e, r) => PostedOk(e, r)'
    BY <1>1, <2>1, PostedKept
  <2>3. \A i \in DOMAIN posted'[e] : PostedOk(e, posted[e][i])'
    BY <1>0, <1>4, <2>2 DEF EndOk
  <2>4. cqRecv'[e] + recvState'[e] > 0 => Sends(Other(e))' > 0 /\ recvMsg'[e] = MemoryOf(Other(e))'
    BY <1>1, <1>3, <1>5, <1>7, HeardKept
  <2>5. Recvs(e)' = Recvs(e)
    BY <1>1, <1>3, <1>5 DEF Recvs
  <2>6. QED
    BY <1>0, <1>1, <1>2, <1>3, <1>5, <2>3, <2>4, <2>5 DEF EndOk
<1>9. EndOk(f)'
  <2>1. life[e] # "none" /\ MemoryOf(e)' = MemoryOf(e)
    BY <1>0 DEF EndOk, Kept
  <2>2. \A i \in DOMAIN posted'[f] : PostedOk(f, posted[f][i])'
    <3>1. SUFFICES ASSUME NEW i \in DOMAIN posted'[f] PROVE PostedOk(f, posted[f][i])'
      OBVIOUS
    <3>2. posted'[f] = posted[f] /\ PostedOk(f, posted[f][i])
      BY <1>0, <1>3, <1>4 DEF EndOk
    <3>3. life[f] # "none"
      <4>1. posted[f] # << >>
        BY <3>2, FlowTyped
      <4>2. QED
        BY <4>1 DEF TypeInv, Alive
    <3>4. \A r : PostedOk(f, r) => PostedOk(f, r)'
      BY <1>1, <3>3, PostedKept
    <3>5. QED
      BY <3>2, <3>4
  <2>3. CASE recvs'[f] = recvs[f] /\ cqRecv'[f] = cqRecv[f] /\ recvMsg'[f] = recvMsg[f]
    <3>1. cqRecv'[f] + recvState'[f] > 0 => Sends(Other(f))' > 0 /\ recvMsg'[f] = MemoryOf(Other(f))'
      BY <1>0, <1>1, <1>3, <2>3, HeardKept
    <3>2. QED
      BY <1>0, <1>1, <1>2, <1>7, <2>2, <2>3, <3>1 DEF EndOk
  <2>4. CASE recvs[f] > 0 /\ recvMsg'[f] = MemoryOf(e)
    <3>1. recvState[f] = 0
      <4>1. Recvs(f) = 0 \/ Recvs(f) = 1
        BY <1>0 DEF EndOk
      <4>2. recvState[f] \in 0..2 /\ recvs[f] \in Nat /\ cqRecv[f] \in Nat
        BY FlowTyped
      <4>3. QED
        BY <2>4, <4>1, <4>2 DEF Recvs
    <3>2. Sends(Other(f))' > 0 /\ recvMsg'[f] = MemoryOf(Other(f))'
      BY <1>0, <1>3, <2>1, <2>4
    <3>3. ~(recvState'[f] > 0)
      BY <1>1, <3>1
    <3>4. QED
      BY <1>0, <1>1, <1>2, <1>7, <2>2, <3>2, <3>3 DEF EndOk
  <2>5. QED
    BY <1>5, <2>3, <2>4
<1>10. ASSUME NEW g \in Ends, g # e, g # f
       PROVE  EndOk(g)' /\ Sends(g)' = Sends(g) /\ Outstanding(g)' = Outstanding(g)
  <2>1. flow(g)' = flow(g)
    BY <1>1, <1>4, <1>5, <1>10 DEF flow
  <2>2. Sends(Other(g))' = Sends(Other(g))
    BY <1>0, <1>6, Owners
  <2>3. QED
    BY <1>1, <2>1, <2>2, EndKept
<1>11. QED
  BY <1>0, <1>2, <1>7, <1>8, <1>9, <1>10 DEF EndsOk

\* What a completion does to the counters of its owner.
LEMMA CompletionCounts ==
  ASSUME TypeInv, NEW e \in Ends, NEW s, NEW r, OnCompletion(e, s, r)
  PROVE  /\ sendState'[e] = s /\ recvState'[e] = r
         /\ \A f \in Ends : f # e => sendState'[f] = sendState[f] /\ recvState'[f] = recvState[f]
         /\ readyCnt'[Owner(e)] = IF NowReady(s, r) THEN readyCnt[Owner(e)] + 1 ELSE readyCnt[Owner(e)]
         /\ rss'[Owner(e)] = rss[Owner(e)] - 1
         /\ \A p \in Procs : p # Owner(e) => readyCnt'[p] = readyCnt[p] /\ rss'[p] = rss[p]
BY Owners DEF OnCompletion, TypeInv, RestType

\* The completion of a request.
LEMMA EndsPollSend ==
  ASSUME TypeInv, EndsOk, Kept, NEW e \in Ends, PollSend(e)
  PROVE  /\ EndsOk'
         /\ \A f \in Ends : f # e => /\ Sends(f)' = Sends(f) /\ Outstanding(f)' = Outstanding(f)
                                     /\ Ready(f)' <=> Ready(f)
         /\ Sends(e) > 0 /\ Sends(e)' > 0 /\ Outstanding(e)' = Outstanding(e) - 1
         /\ Ready(e) => Ready(e)'
         /\ UNCHANGED recvState[e]
         /\ readyCnt'[Owner(e)] = IF Ready(e)' /\ ~Ready(e) THEN readyCnt[Owner(e)] + 1
                                                            ELSE readyCnt[Owner(e)]
<1>0. EndOk(e) /\ cqSend \in [Ends -> Nat] /\ Owner(e) \in Procs
  BY Owners DEF EndsOk, TypeInv, WakeType
<1>1. PICK s \in 0..2 : s = sendState[e]
  BY FlowTyped
<1>2. PICK t \in 0..2 : t = Advanced(s) /\ t = (IF s = 2 THEN 2 ELSE s + 1)
  BY DEF Advanced
<1>3. /\ cqSend[e] > 0 /\ cqSend' = [cqSend EXCEPT ![e] = @ - 1]
      /\ OnCompletion(e, t, recvState[e])
      /\ UNCHANGED <<life, recvMsg, peer, recvs, posted, flying, cqRecv>>
  BY <1>1, <1>2 DEF PollSend
<1>4. /\ sendState'[e] = t /\ recvState'[e] = recvState[e]
      /\ \A f \in Ends : f # e => sendState'[f] = sendState[f] /\ recvState'[f] = recvState[f]
  BY <1>3, CompletionCounts
<1>5. PICK n \in Nat, k \in Nat, a \in Nat, b \in Nat, d \in Nat, r \in Nat :
           /\ n = Len(posted[e]) /\ k = flying[e] /\ cqSend[e] = a + 1 /\ cqSend'[e] = a
           /\ b = recvs[e] /\ d = cqRecv[e] /\ r = recvState[e]
  <2>1. /\ Len(posted[e]) \in Nat /\ flying[e] \in Nat /\ cqSend[e] \in Nat /\ recvs[e] \in Nat
        /\ cqRecv[e] \in Nat /\ recvState[e] \in 0..2
    BY FlowTyped
  <2>2. cqSend[e] - 1 \in Nat /\ cqSend'[e] = cqSend[e] - 1 /\ cqSend[e] = (cqSend[e] - 1) + 1
    BY <1>0, <1>3
  <2>3. PICK a \in Nat : cqSend[e] = a + 1 /\ cqSend'[e] = a
    BY <2>2
  <2>4. recvState[e] \in Nat
    BY <2>1
  <2>5. QED
    BY <2>1, <2>3, <2>4, Zenon
<1>6. /\ Sends(e) = s + n + k + (a + 1) /\ Sends(e)' = t + n + k + a
      /\ Outstanding(e) = b + n + k + (a + 1) + d /\ Outstanding(e)' = b + n + k + a + d
      /\ Recvs(e) = r + b + d /\ Recvs(e)' = Recvs(e)
  BY <1>1, <1>3, <1>4, <1>5 DEF Sends, Outstanding, Recvs
<1>7. /\ s + n + k + (a + 1) > 0 /\ t + n + k + a > 0
      /\ b + n + k + a + d = b + n + k + (a + 1) + d - 1
      /\ s # 2 => t + n + k + a = s + n + k + (a + 1)
  BY <1>2
<1>8. Sends(e) > 0 /\ Sends(e)' > 0 /\ Outstanding(e)' = Outstanding(e) - 1
  BY <1>6, <1>7
<1>9. /\ Ready(e) <=> s > 0 /\ r > 0
      /\ Ready(e)' <=> t > 0 /\ r > 0
  BY <1>1, <1>4, <1>5 DEF Ready
<1>10. r <= 1 /\ (Sends(e) <= 1 \/ (s > 0 /\ r > 0))
  <2>1. Recvs(e) <= 1 /\ (Sends(e) <= 1 \/ Ready(e))
    BY <1>0 DEF EndOk
  <2>2. QED
    BY <1>6, <1>9, <2>1
<1>11. t > 0 /\ (s = 0 => t = 1) /\ (s > 0 => t = 2)
  BY <1>1, <1>2
<1>12. Ready(e) => Ready(e)'
  BY <1>9, <1>11
<1>13. NowReady(t, r) <=> Ready(e)' /\ ~Ready(e)
  <2>1. s > 0 /\ ~(r > 0) => FALSE
    <3>1. SUFFICES ASSUME s > 0, ~(r > 0) PROVE FALSE
      OBVIOUS
    <3>2. s + n + k + (a + 1) <= 1
      BY <1>6, <1>10, <3>1
    <3>3. QED
      BY <3>1, <3>2
  <2>2. QED
    BY <1>9, <1>10, <1>11, <2>1 DEF NowReady
<1>14. Sends(e)' <= 1 \/ Ready(e)'
  <2>1. CASE s > 0 /\ r > 0
    BY <1>9, <1>11, <2>1
  <2>2. CASE ~(s > 0 /\ r > 0)
    <3>1. s + n + k + (a + 1) <= 1
      BY <1>6, <1>10, <2>2
    <3>2. s # 2
      BY <3>1
    <3>3. QED
      BY <1>6, <1>7, <3>1, <3>2
  <2>3. QED
    BY <2>1, <2>2
<1>15. EndOk(e)'
  <2>1. life[e] # "none"
    BY <1>0, <1>8 DEF EndOk
  <2>2. \A x : PostedOk(e, x) => PostedOk(e, x)'
    BY <1>3, <1>4, <2>1, PostedKept
  <2>3. \A i \in DOMAIN posted'[e] : PostedOk(e, posted[e][i])'
    BY <1>0, <1>3, <2>2 DEF EndOk
  <2>4. Sends(Other(e))' = Sends(Other(e))
    <3>1. Other(e) \in Ends /\ Other(e) # e
      BY Owners DEF Other
    <3>2. QED
      BY <1>0, <1>3, <1>4, <3>1 DEF Sends
  <2>5. cqRecv'[e] + recvState'[e] > 0 => Sends(Other(e))' > 0 /\ recvMsg'[e] = MemoryOf(Other(e))'
    BY <1>3, <1>4, <2>4, HeardKept
  <2>6. QED
    BY <1>0, <1>3, <1>4, <1>6, <1>14, <2>1, <2>3, <2>5 DEF EndOk
<1>16. ASSUME NEW f \in Ends, f # e
       PROVE  EndOk(f)' /\ Sends(f)' = Sends(f) /\ Outstanding(f)' = Outstanding(f) /\ (Ready(f)' <=> Ready(f))
  <2>1. flow(f)' = flow(f)
    BY <1>0, <1>3, <1>4, <1>16 DEF flow
  <2>2. Sends(Other(f)) > 0 => Sends(Other(f))' > 0
    <3>1. CASE Other(f) = e
      BY <1>8, <3>1
    <3>2. CASE Other(f) # e
      BY <1>0, <1>3, <1>4, <3>2, Owners DEF Sends
    <3>3. QED
      BY <3>1, <3>2
  <2>3. QED
    BY <1>3, <2>1, <2>2, EndKept
<1>17. readyCnt'[Owner(e)] = IF Ready(e)' /\ ~Ready(e) THEN readyCnt[Owner(e)] + 1 ELSE readyCnt[Owner(e)]
  BY <1>3, <1>5, <1>13, CompletionCounts
<1>18. QED
  BY <1>4, <1>8, <1>12, <1>15, <1>16, <1>17 DEF EndsOk

\* The completion of a receive.
LEMMA EndsPollRecv ==
  ASSUME TypeInv, EndsOk, Kept, NEW e \in Ends, PollRecv(e)
  PROVE  /\ EndsOk'
         /\ \A f \in Ends : f # e => /\ Sends(f)' = Sends(f) /\ Outstanding(f)' = Outstanding(f)
                                     /\ (Ready(f)' <=> Ready(f)) /\ recvState'[f] = recvState[f]
         /\ Sends(e)' = Sends(e) /\ Outstanding(e)' = Outstanding(e) - 1
         /\ ~Ready(e) /\ recvState[e] = 0 /\ recvState'[e] = 1
         /\ recvMsg[e] = MemoryOf(Other(e))
         /\ readyCnt'[Owner(e)] = IF Ready(e)' /\ ~Ready(e) THEN readyCnt[Owner(e)] + 1
                                                            ELSE readyCnt[Owner(e)]
<1>0. EndOk(e) /\ cqRecv \in [Ends -> Nat] /\ peer \in [Ends -> Memory] /\ Owner(e) \in Procs
  BY Owners DEF EndsOk, TypeInv, WakeType, RestType
<1>1. PICK s \in Nat, n \in Nat, k \in Nat, a \in Nat, b \in Nat, d \in Nat, r \in Nat :
           /\ s = sendState[e] /\ n = Len(posted[e]) /\ k = flying[e] /\ a = cqSend[e]
           /\ b = recvs[e] /\ d = cqRecv[e] /\ r = recvState[e]
  <2>1. /\ Len(posted[e]) \in Nat /\ flying[e] \in Nat /\ cqSend[e] \in Nat /\ recvs[e] \in Nat
        /\ cqRecv[e] \in Nat /\ recvState[e] \in 0..2 /\ sendState[e] \in 0..2
    BY FlowTyped
  <2>2. recvState[e] \in Nat /\ sendState[e] \in Nat
    BY <2>1
  <2>3. QED
    BY <2>1, <2>2, Zenon
<1>2. d > 0 /\ Recvs(e) <= 1 /\ Recvs(e) = r + b + d
  BY <1>0, <1>1 DEF PollRecv, EndOk, Recvs
<1>3. d = 1 /\ b = 0 /\ r = 0
  BY <1>2
<1>4. Advanced(recvState[e]) = 1
  BY <1>1, <1>3 DEF Advanced
<1>5. /\ cqRecv' = [cqRecv EXCEPT ![e] = @ - 1] /\ peer' = [peer EXCEPT ![e] = recvMsg[e]]
      /\ OnCompletion(e, sendState[e], 1)
      /\ UNCHANGED <<life, recvMsg, recvs, posted, flying, cqSend>>
  BY <1>4 DEF PollRecv
<1>6. /\ sendState'[e] = sendState[e] /\ recvState'[e] = 1
      /\ \A f \in Ends : f # e => sendState'[f] = sendState[f] /\ recvState'[f] = recvState[f]
  BY <1>5, CompletionCounts
<1>7. cqRecv'[e] = 0 /\ cqRecv[e] + recvState[e] > 0 /\ ~(recvState[e] > 0)
  <2>1. cqRecv[e] = 1 /\ recvState[e] = 0
    BY <1>1, <1>3, Zenon
  <2>2. QED
    BY <1>0, <1>5, <2>1
<1>8. /\ Sends(e) = s + n + k + a /\ Sends(e)' = Sends(e)
      /\ Outstanding(e) = 0 + n + k + a + 1 /\ Outstanding(e)' = 0 + n + k + a + 0
      /\ Recvs(e)' = 1 + 0 + 0
  BY <1>1, <1>3, <1>5, <1>6, <1>7 DEF Sends, Outstanding, Recvs
<1>9. Outstanding(e)' = Outstanding(e) - 1
  <2>1. 0 + n + k + a + 0 = 0 + n + k + a + 1 - 1
    OBVIOUS
  <2>2. QED
    BY <1>8, <2>1
<1>10. ~Ready(e) /\ (Ready(e)' <=> s > 0) /\ Sends(e) <= 1
  BY <1>0, <1>1, <1>3, <1>6 DEF Ready, EndOk
<1>11. NowReady(s, 1) <=> Ready(e)'
  <2>1. s <= 1
    BY <1>8, <1>10
  <2>2. QED
    BY <1>10, <2>1 DEF NowReady
<1>12. Sends(Other(e))' = Sends(Other(e))
  <2>1. Other(e) \in Ends /\ Other(e) # e
    BY Owners DEF Other
  <2>2. QED
    BY <1>5, <1>6, <2>1 DEF Sends
<1>13. Sends(Other(e)) > 0 /\ recvMsg[e] = MemoryOf(Other(e)) /\ MemoryOf(Other(e))' = MemoryOf(Other(e))
  BY <1>7, HeardKept
<1>14. EndOk(e)'
  <2>1. life[e] # "none"
    BY <1>0, <1>1, <1>2, <1>3 DEF EndOk
  <2>2. \A x : PostedOk(e, x) => PostedOk(e, x)'
    BY <1>7, <2>1, PostedKept
  <2>3. \A i \in DOMAIN posted'[e] : PostedOk(e, posted[e][i])'
    BY <1>0, <1>5, <2>2 DEF EndOk
  <2>4. Recvs(e)' = 1
    BY <1>8
  <2>5. peer'[e] = recvMsg'[e]
    BY <1>0, <1>5
  <2>6. QED
    BY <1>5, <1>8, <1>10, <1>12, <1>13, <2>1, <2>3, <2>4, <2>5 DEF EndOk
<1>15. ASSUME NEW f \in Ends, f # e
       PROVE  EndOk(f)' /\ Sends(f)' = Sends(f) /\ Outstanding(f)' = Outstanding(f) /\ (Ready(f)' <=> Ready(f))
  <2>1. flow(f)' = flow(f)
    BY <1>0, <1>5, <1>6, <1>15 DEF flow
  <2>2. Sends(Other(f))' = Sends(Other(f))
    <3>1. CASE Other(f) = e
      BY <1>8, <3>1
    <3>2. CASE Other(f) # e
      BY <1>5, <1>6, <3>2, Owners DEF Sends
    <3>3. QED
      BY <3>1, <3>2
  <2>3. QED
    BY <1>5, <2>1, <2>2, EndKept
<1>16. readyCnt'[Owner(e)] = IF Ready(e)' /\ ~Ready(e) THEN readyCnt[Owner(e)] + 1 ELSE readyCnt[Owner(e)]
  BY <1>1, <1>5, <1>10, <1>11, CompletionCounts
<1>17. QED
  BY <1>1, <1>3, <1>6, <1>8, <1>9, <1>10, <1>13, <1>14, <1>15, <1>16 DEF EndsOk

-------------------------------------------------------------------------------
(***************************************************************************)
(* What request_stack_size and ready_mr_cnt count.                         *)
(***************************************************************************)
OutOf(p) == [e \in EndsOf(p) |-> Outstanding(e)]

RssInv ==
  \A p \in Procs : /\ IsFiniteSet(Slots(EndsOf(p), OutOf(p)))
                   /\ rss[p] = Cardinality(Slots(EndsOf(p), OutOf(p)))

ReadyAt(p) == {e \in EndsOf(p) : Ready(e)}

ReadyInv == \A p \in Procs : readyCnt[p] = Cardinality(ReadyAt(p))

\* There are as many clients as ClientNum says, and two ends for each.
LEMMA EndsFinite ==
  /\ ClientNum \in Nat \ {0} /\ IsFiniteSet(Clients) /\ Cardinality(Clients) = ClientNum
  /\ IsFiniteSet(Ends) /\ \A p : IsFiniteSet(EndsOf(p)) /\ EndsOf(p) \subseteq Ends
<1>1. ClientNum \in Nat \ {0}
  BY ConnectionAssumption
<1>2. IsFiniteSet(Clients) /\ Cardinality(Clients) = ClientNum
  <2>1. Cardinality(0..(ClientNum - 1)) = IF 0 > ClientNum - 1 THEN 0 ELSE (ClientNum - 1) - 0 + 1
    BY <1>1, FS_Interval
  <2>2. QED
    BY <1>1, <2>1, FS_Interval DEF Clients
<1>3. IsFiniteSet(Ends)
  <2>1. IsFiniteSet({"client", "server"})
    <3>1. IsFiniteSet({"client"}) /\ IsFiniteSet({"server"})
      BY FS_Singleton
    <3>2. IsFiniteSet({"client"} \cup {"server"})
      BY <3>1, FS_Union
    <3>3. {"client", "server"} = {"client"} \cup {"server"}
      OBVIOUS
    <3>4. QED
      BY <3>2, <3>3
  <2>2. QED
    BY <1>2, <2>1, FS_Product DEF Ends
<1>4. ASSUME NEW p PROVE IsFiniteSet(EndsOf(p)) /\ EndsOf(p) \subseteq Ends
  <2>1. EndsOf(p) \subseteq Ends
    BY DEF EndsOf
  <2>2. QED
    BY <1>3, <2>1, FS_Subset
<1>5. QED
  BY <1>1, <1>2, <1>3, <1>4

\* What RequestsCounted counts are the slots.
LEMMA SlotsOf ==
  ASSUME TypeInv, NEW p
  PROVE  /\ OutOf(p) \in [EndsOf(p) -> Nat]
         /\ UNION {{e} \X (1..Outstanding(e)) : e \in EndsOf(p)} = Slots(EndsOf(p), OutOf(p))
<1>1. \A e \in EndsOf(p) : e \in Ends /\ Outstanding(e) \in Nat
  BY FlowTyped DEF EndsOf
<1>2. OutOf(p) \in [EndsOf(p) -> Nat]
  BY <1>1 DEF OutOf
<1>3. ASSUME NEW t
      PROVE  t \in UNION {{e} \X (1..Outstanding(e)) : e \in EndsOf(p)}
               <=> t \in Slots(EndsOf(p), OutOf(p))
  <2>1. ASSUME NEW e \in EndsOf(p), t \in {e} \X (1..Outstanding(e))
        PROVE  t \in Slots(EndsOf(p), OutOf(p))
    <3>1. PICK n \in 1..Outstanding(e) : t = <<e, n>>
      BY <2>1
    <3>2. n \in Nat /\ OutOf(p)[e] = Outstanding(e)
      BY <1>1 DEF OutOf
    <3>3. QED
      BY <3>1, <3>2 DEF Slots
  <2>2. ASSUME t \in Slots(EndsOf(p), OutOf(p))
        PROVE  \E e \in EndsOf(p) : t \in {e} \X (1..Outstanding(e))
    <3>1. PICK e \in EndsOf(p), n \in Nat : t = <<e, n>>
      BY <2>2 DEF Slots
    <3>2. n \in 1..OutOf(p)[e]
      BY <2>2, <3>1 DEF Slots
    <3>3. OutOf(p)[e] = Outstanding(e)
      BY DEF OutOf
    <3>4. QED
      BY <3>1, <3>2, <3>3
  <2>3. QED
    BY <2>1, <2>2
<1>4. QED
  BY <1>2, <1>3

\* A step that asks for nothing.
LEMMA RssQuiet ==
  ASSUME RssInv, \A e \in Ends : Outstanding(e)' = Outstanding(e), \A p \in Procs : rss'[p] = rss[p]
  PROVE  RssInv'
<1>1. \A p : OutOf(p)' = OutOf(p)
  BY DEF OutOf, EndsOf
<1>2. QED
  BY <1>1 DEF RssInv

\* One request more.
LEMMA RssMore ==
  ASSUME TypeInv, RssInv, NEW e \in Ends, Outstanding(e)' = Outstanding(e) + 1,
         \A f \in Ends : f # e => Outstanding(f)' = Outstanding(f),
         rss'[Owner(e)] = rss[Owner(e)] + 1, \A p \in Procs : p # Owner(e) => rss'[p] = rss[p]
  PROVE  RssInv'
<1>1. \A f \in Ends : Outstanding(f) \in Nat
  BY FlowTyped
<1>2. ASSUME NEW p \in Procs
      PROVE  /\ IsFiniteSet(Slots(EndsOf(p), OutOf(p)'))
             /\ rss'[p] = Cardinality(Slots(EndsOf(p), OutOf(p)'))
  <2>0. /\ IsFiniteSet(Slots(EndsOf(p), OutOf(p)))
        /\ rss[p] = Cardinality(Slots(EndsOf(p), OutOf(p)))
    BY DEF RssInv
  <2>1. CASE p # Owner(e)
    <3>1. OutOf(p)' = OutOf(p)
      BY <2>1 DEF OutOf, EndsOf
    <3>2. QED
      BY <2>0, <2>1, <3>1
  <2>2. CASE p = Owner(e)
    <3>1. PICK f, g : f = OutOf(p) /\ g = OutOf(p)'
      OBVIOUS
    <3>2. e \in EndsOf(p) /\ EndsOf(p) \subseteq Ends
      BY <2>2 DEF EndsOf
    <3>3. f \in [EndsOf(p) -> Nat] /\ g \in [EndsOf(p) -> Nat]
      BY <1>1, <3>1, <3>2 DEF OutOf
    <3>4. g[e] = f[e] + 1 /\ \A d \in EndsOf(p) \ {e} : g[d] = f[d]
      BY <3>1, <3>2 DEF OutOf
    <3>5. 1 \in Nat /\ IsFiniteSet(Slots(EndsOf(p), f))
      BY <2>0, <3>1
    <3>6. /\ IsFiniteSet(Slots(EndsOf(p), g))
          /\ Cardinality(Slots(EndsOf(p), g)) = Cardinality(Slots(EndsOf(p), f)) + 1
      BY <3>2, <3>3, <3>4, <3>5, SlotsAdd
    <3>7. QED
      BY <2>0, <2>2, <3>1, <3>6
  <2>3. QED
    BY <2>1, <2>2
<1>3. \A p : EndsOf(p)' = EndsOf(p)
  BY DEF EndsOf
<1>4. QED
  BY <1>2, <1>3 DEF RssInv

\* A completion is taken.
LEMMA RssLess ==
  ASSUME TypeInv, RssInv, NEW e \in Ends, Outstanding(e) > 0, Outstanding(e)' = Outstanding(e) - 1,
         \A f \in Ends : f # e => Outstanding(f)' = Outstanding(f),
         rss'[Owner(e)] = rss[Owner(e)] - 1, \A p \in Procs : p # Owner(e) => rss'[p] = rss[p]
  PROVE  RssInv'
<1>1. (\A f \in Ends : Outstanding(f) \in Nat) /\ Outstanding(e) - 1 \in Nat
      /\ Outstanding(e) = Outstanding(e)' + 1
  <2>1. \A f \in Ends : Outstanding(f) \in Nat
    BY FlowTyped
  <2>2. QED
    BY <2>1
<1>2. ASSUME NEW p \in Procs
      PROVE  /\ IsFiniteSet(Slots(EndsOf(p), OutOf(p)'))
             /\ rss'[p] = Cardinality(Slots(EndsOf(p), OutOf(p)'))
  <2>0. /\ IsFiniteSet(Slots(EndsOf(p), OutOf(p)))
        /\ rss[p] = Cardinality(Slots(EndsOf(p), OutOf(p)))
    BY DEF RssInv
  <2>1. CASE p # Owner(e)
    <3>1. OutOf(p)' = OutOf(p)
      BY <2>1 DEF OutOf, EndsOf
    <3>2. QED
      BY <2>0, <2>1, <3>1
  <2>2. CASE p = Owner(e)
    <3>1. PICK f, g : f = OutOf(p) /\ g = OutOf(p)'
      OBVIOUS
    <3>2. e \in EndsOf(p) /\ EndsOf(p) \subseteq Ends
      BY <2>2 DEF EndsOf
    <3>3. f \in [EndsOf(p) -> Nat] /\ g \in [EndsOf(p) -> Nat]
      BY <1>1, <3>1, <3>2 DEF OutOf
    <3>4. f[e] = g[e] + 1 /\ \A d \in EndsOf(p) \ {e} : g[d] = f[d]
      BY <1>1, <3>1, <3>2 DEF OutOf
    <3>5. IsFiniteSet(Slots(EndsOf(p), f))
      BY <2>0, <3>1
    <3>6. /\ IsFiniteSet(Slots(EndsOf(p), g))
          /\ Cardinality(Slots(EndsOf(p), g)) = Cardinality(Slots(EndsOf(p), f)) - 1
      BY <3>2, <3>3, <3>4, <3>5, SlotsRemove
    <3>7. QED
      BY <2>0, <2>2, <3>1, <3>6
  <2>3. QED
    BY <2>1, <2>2
<1>3. \A p : EndsOf(p)' = EndsOf(p)
  BY DEF EndsOf
<1>4. QED
  BY <1>2, <1>3 DEF RssInv

\* Nothing is left of a process that counts none.
LEMMA RssNone ==
  ASSUME TypeInv, RssInv, NEW p \in Procs, rss[p] <= 0
  PROVE  \A e \in EndsOf(p) : Outstanding(e) = 0
<1>1. PICK f : f = OutOf(p)
  OBVIOUS
<1>2. f \in [EndsOf(p) -> Nat] /\ IsFiniteSet(Slots(EndsOf(p), f))
      /\ rss[p] = Cardinality(Slots(EndsOf(p), f))
  BY <1>1, SlotsOf DEF RssInv
<1>3. Cardinality(Slots(EndsOf(p), f)) \in Nat
  BY <1>2, FS_CardinalityType
<1>4. Cardinality(Slots(EndsOf(p), f)) = 0
  BY <1>2, <1>3
<1>5. \A e \in EndsOf(p) : f[e] = 0
  BY <1>2, <1>4, SlotsNone
<1>6. QED
  BY <1>1, <1>5 DEF OutOf

\* A step after which nobody else is ready.
LEMMA ReadyQuiet ==
  ASSUME ReadyInv, \A e \in Ends : Ready(e)' <=> Ready(e), \A p \in Procs : readyCnt'[p] = readyCnt[p]
  PROVE  ReadyInv'
<1>1. \A p : ReadyAt(p)' = ReadyAt(p)
  BY DEF ReadyAt, EndsOf
<1>2. QED
  BY <1>1 DEF ReadyInv

\* An end may have become ready.
LEMMA ReadyMore ==
  ASSUME ReadyInv, TypeInv, NEW e \in Ends, \A f \in Ends : f # e => (Ready(f)' <=> Ready(f)),
         Ready(e) => Ready(e)',
         readyCnt'[Owner(e)] = IF Ready(e)' /\ ~Ready(e) THEN readyCnt[Owner(e)] + 1
                                                         ELSE readyCnt[Owner(e)],
         \A p \in Procs : p # Owner(e) => readyCnt'[p] = readyCnt[p]
  PROVE  ReadyInv'
<1>1. ASSUME NEW p \in Procs PROVE readyCnt'[p] = Cardinality(ReadyAt(p)')
  <2>0. readyCnt[p] = Cardinality(ReadyAt(p)) /\ IsFiniteSet(ReadyAt(p))
    <3>1. ReadyAt(p) \subseteq EndsOf(p)
      BY DEF ReadyAt
    <3>2. QED
      BY <3>1, EndsFinite, FS_Subset DEF ReadyInv
  <2>1. CASE p # Owner(e)
    <3>1. ReadyAt(p)' = ReadyAt(p)
      BY <2>1 DEF ReadyAt, EndsOf
    <3>2. QED
      BY <2>0, <2>1, <3>1
  <2>2. CASE p = Owner(e) /\ Ready(e)' /\ ~Ready(e)
    <3>1. ReadyAt(p)' = ReadyAt(p) \cup {e} /\ e \notin ReadyAt(p)
      BY <2>2 DEF ReadyAt, EndsOf
    <3>2. Cardinality(ReadyAt(p) \cup {e}) = Cardinality(ReadyAt(p)) + 1
      BY <2>0, <3>1, FS_AddElement
    <3>3. readyCnt'[p] = readyCnt[p] + 1
      BY <2>2
    <3>4. QED
      BY <2>0, <3>1, <3>2, <3>3
  <2>3. CASE p = Owner(e) /\ ~(Ready(e)' /\ ~Ready(e))
    <3>1. ReadyAt(p)' = ReadyAt(p)
      BY <2>3 DEF ReadyAt, EndsOf
    <3>2. readyCnt'[p] = readyCnt[p]
      BY <2>3
    <3>3. QED
      BY <2>0, <3>1, <3>2
  <2>4. QED
    BY <2>1, <2>2, <2>3
<1>2. QED
  BY <1>1 DEF ReadyInv

-------------------------------------------------------------------------------
(* The message of an end is the first request it posts, and the other end    *)
(* hears nothing before it is carried out.                                  *)
Mr(e) == \E i \in DOMAIN posted[e] : posted[e][i].op = "mr"

MrInv == \A e \in Ends : Mr(e) => /\ Sends(e) = 1
                                  /\ cqRecv[Other(e)] = 0 /\ recvState[Other(e)] = 0

\* The other end of the other end.
LEMMA OtherTwice ==
  /\ \A e \in Ends : Other(e) \in Ends /\ Other(Other(e)) = e /\ Other(e) # e
  /\ \A e, f \in Ends : Other(e) = Other(f) => e = f
<1>1. \A e \in Ends : Other(e) \in Ends /\ Other(Other(e)) = e /\ Other(e) # e
  BY EndNames, OtherNames
<1>2. QED
  BY <1>1

\* A request that is under way with others behind it, or done.
LEMMA SendsMore ==
  ASSUME TypeInv, NEW e \in Ends, posted[e] # << >>
  PROVE  /\ sendState[e] > 0 \/ flying[e] > 0 \/ cqSend[e] > 0 => Sends(e) # 1
         /\ Sends(e) = 1 => Len(posted[e]) = 1
<1>1. PICK s \in Nat, n \in Nat, k \in Nat, a \in Nat :
         s = sendState[e] /\ n = Len(posted[e]) /\ k = flying[e] /\ a = cqSend[e]
  BY FlowTyped
<1>2. n > 0
  BY <1>1, FlowTyped
<1>3. Sends(e) = s + n + k + a
  BY <1>1 DEF Sends
<1>4. /\ s > 0 \/ k > 0 \/ a > 0 => s + n + k + a # 1
      /\ s + n + k + a = 1 => n = 1
  BY <1>2
<1>5. QED
  BY <1>1, <1>3, <1>4

\* Ends at which no message is posted anew.
LEMMA MrKept ==
  ASSUME MrInv,
         \A e \in Ends : Mr(e)' => /\ Mr(e) /\ Sends(e)' = Sends(e)
                                   /\ cqRecv'[Other(e)] = cqRecv[Other(e)]
                                   /\ recvState'[Other(e)] = recvState[Other(e)]
  PROVE  MrInv'
<1>1. SUFFICES ASSUME NEW e \in Ends, Mr(e)'
               PROVE  Sends(e)' = 1 /\ cqRecv'[Other(e)] = 0 /\ recvState'[Other(e)] = 0
  BY DEF MrInv
<1>2. Mr(e) /\ Sends(e) = 1 /\ cqRecv[Other(e)] = 0 /\ recvState[Other(e)] = 0
  BY <1>1 DEF MrInv
<1>3. QED
  BY <1>1, <1>2

\* A request is posted.
LEMMA MrPost ==
  ASSUME TypeInv, EndsOk, MrInv, NEW e \in Ends, NEW op, NEW mem, Post(e, op, mem),
         (Sends(e) = 0 /\ op = "mr") \/ (Ready(e) /\ op # "mr"),
         Sends(e)' = Sends(e) + 1, \A f \in Ends : f # e => Sends(f)' = Sends(f),
         UNCHANGED <<cqRecv, recvState>>
  PROVE  MrInv'
<1>1. PICK r : r = [op |-> op, mem |-> mem]
  OBVIOUS
<1>2. posted'[e] = Append(posted[e], r) /\ \A f \in Ends : f # e => posted'[f] = posted[f]
  BY <1>1, PostAt DEF TypeInv
<1>3. r.op = op
  BY <1>1
<1>4. Mr(e)' => Mr(e) \/ op = "mr"
  <2>1. PICK q \in Seq(Operations) : q = posted[e]
    BY FlowTyped
  <2>2. \A i \in DOMAIN Append(q, r) : Append(q, r)[i] = r \/ \E j \in DOMAIN q : Append(q, r)[i] = q[j]
    OBVIOUS
  <2>3. QED
    BY <1>2, <1>3, <2>1, <2>2 DEF Mr
<1>5. \A f \in Ends : f # e => (Mr(f)' <=> Mr(f))
  BY <1>2 DEF Mr
<1>6. CASE Sends(e) = 0 /\ op = "mr"
  <2>1. cqRecv[Other(e)] = 0 /\ recvState[Other(e)] = 0
    <3>1. Other(e) \in Ends /\ Other(Other(e)) = e
      BY OtherTwice
    <3>2. EndOk(Other(e))
      BY <3>1 DEF EndsOk
    <3>3. ~(cqRecv[Other(e)] + recvState[Other(e)] > 0)
      BY <1>6, <3>1, <3>2 DEF EndOk
    <3>4. PICK a \in Nat, b \in Nat : a = cqRecv[Other(e)] /\ b = recvState[Other(e)]
      BY <3>1, FlowTyped
    <3>5. a = 0 /\ b = 0
      BY <3>3, <3>4
    <3>6. QED
      BY <3>4, <3>5
  <2>2. SUFFICES ASSUME NEW f \in Ends, Mr(f)'
                 PROVE  Sends(f)' = 1 /\ cqRecv'[Other(f)] = 0 /\ recvState'[Other(f)] = 0
    BY DEF MrInv
  <2>3. CASE f = e
    BY <1>6, <2>1, <2>3
  <2>4. CASE f # e
    BY <1>5, <2>2, <2>4 DEF MrInv
  <2>5. QED
    BY <2>3, <2>4
<1>7. CASE Ready(e) /\ op # "mr"
  <2>1. ~Mr(e)
    <3>1. SUFFICES ASSUME Mr(e) PROVE FALSE
      OBVIOUS
    <3>2. Sends(e) = 1 /\ posted[e] # << >>
      BY <3>1 DEF MrInv, Mr
    <3>3. QED
      BY <1>7, <3>2, SendsMore DEF Ready
  <2>2. QED
    BY <1>4, <1>5, <1>7, <2>1, MrKept
<1>8. QED
  BY <1>6, <1>7

\* The NIC.
LEMMA MrNic ==
  ASSUME TypeInv, MrInv, NEW e \in Ends, Nic(e), \A f \in Ends : Sends(f)' = Sends(f)
  PROVE  MrInv'
<1>1. CASE WriteCompletes(e)
  <2>1. UNCHANGED <<posted, cqRecv, recvState>>
    BY <1>1 DEF WriteCompletes, connVars
  <2>2. \A f \in Ends : Mr(f)' <=> Mr(f)
    BY <2>1 DEF Mr
  <2>3. QED
    BY <2>1, <2>2, MrKept
<1>2. CASE Deliver(e) \/ Read(e) \/ Write(e)
  <2>1. posted[e] # << >> /\ posted' = [posted EXCEPT ![e] = Tail(@)]
    BY <1>2 DEF Deliver, Read, Write
  <2>2. \A f \in Ends : Mr(f)' => Mr(f)
    <3>1. /\ \A f \in Ends : f # e => posted'[f] = posted[f]
          /\ \A i \in DOMAIN posted'[e] : \E j \in DOMAIN posted[e] : posted'[e][i] = posted[e][j]
      BY <2>1, Shortened
    <3>2. Mr(e)' => Mr(e)
      BY <3>1 DEF Mr
    <3>3. \A f \in Ends : f # e => (Mr(f)' => Mr(f))
      BY <3>1 DEF Mr
    <3>4. QED
      BY <3>2, <3>3
  <2>3. CASE Read(e) \/ Write(e)
    <3>1. UNCHANGED <<cqRecv, recvState>>
      BY <2>3 DEF Read, Write, connVars
    <3>2. QED
      BY <2>2, <3>1, MrKept
  <2>4. CASE Deliver(e)
    <3>1. /\ \A f \in Ends : f # Other(e) => cqRecv'[f] = cqRecv[f]
          /\ recvState' = recvState /\ Head(posted[e]).op = "mr"
      BY <2>4, OtherTwice DEF Deliver, TypeInv, WakeType
    <3>2. ~Mr(e)'
      <4>1. Mr(e)
        <5>1. PICK j \in DOMAIN posted[e] : Head(posted[e]) = posted[e][j]
          BY <2>1, Shortened
        <5>2. posted[e][j].op = "mr"
          BY <3>1, <5>1
        <5>3. QED
          BY <5>2 DEF Mr
      <4>2. Sends(e) = 1
        BY <4>1 DEF MrInv
      <4>3. Len(posted[e]) = 1
        BY <2>1, <4>2, SendsMore
      <4>4. PICK q \in Seq(Operations) : q = posted[e]
        BY FlowTyped
      <4>5. DOMAIN Tail(q) = {}
        <5>1. Len(q) = 1 /\ q # << >>
          BY <2>1, <4>3, <4>4
        <5>2. Len(Tail(q)) = 0 /\ Tail(q) \in Seq(Operations)
          BY <5>1
        <5>3. QED
          BY <5>2
      <4>6. posted'[e] = Tail(q)
        BY <2>1, <4>4, FlowTyped DEF TypeInv, WakeType
      <4>7. QED
        BY <4>5, <4>6 DEF Mr
    <3>3. \A f \in Ends : f # e => Other(f) # Other(e) /\ Other(f) \in Ends
      BY OtherTwice
    <3>4. QED
      BY <2>2, <3>1, <3>2, <3>3, MrKept
  <2>5. QED
    BY <1>2, <2>3, <2>4
<1>3. QED
  BY <1>1, <1>2 DEF Nic

\* A completion.
LEMMA MrPoll ==
  ASSUME TypeInv, MrInv, NEW e \in Ends, PollSend(e) \/ PollRecv(e),
         \A f \in Ends : f # e => Sends(f)' = Sends(f) /\ recvState'[f] = recvState[f],
         PollSend(e) => recvState'[e] = recvState[e], PollRecv(e) => Sends(e)' = Sends(e)
  PROVE  MrInv'
<1>0. posted' = posted /\ \A f \in Ends : Mr(f)' <=> Mr(f)
  BY DEF PollSend, PollRecv, Mr
<1>1. CASE PollSend(e)
  <2>1. cqSend[e] > 0 /\ cqRecv' = cqRecv
    BY <1>1 DEF PollSend
  <2>2. ~Mr(e)
    <3>1. SUFFICES ASSUME Mr(e) PROVE FALSE
      OBVIOUS
    <3>2. Sends(e) = 1 /\ posted[e] # << >>
      BY <3>1 DEF MrInv, Mr
    <3>3. QED
      BY <2>1, <3>2, SendsMore
  <2>3. \A f \in Ends : recvState'[f] = recvState[f]
    BY <1>1
  <2>4. QED
    BY <1>0, <2>1, <2>2, <2>3, OtherTwice, MrKept
<1>2. CASE PollRecv(e)
  <2>1. cqRecv[e] > 0 /\ \A f \in Ends : f # e => cqRecv'[f] = cqRecv[f]
    BY <1>2 DEF PollRecv, TypeInv, WakeType
  <2>2. \A f \in Ends : Other(f) = e => ~Mr(f)
    BY <2>1 DEF MrInv
  <2>3. \A f \in Ends : Sends(f)' = Sends(f)
    BY <1>2
  <2>4. QED
    BY <1>0, <2>1, <2>2, <2>3, OtherTwice, MrKept
<1>3. QED
  BY <1>1, <1>2

-------------------------------------------------------------------------------
(***************************************************************************)
(* How far the processes are, and what their ends have done by then.       *)
(***************************************************************************)
Linked == {"use", "up", "down"}

(* An end sends its message when the connection manager says so. *)
Begun(c) ==
  /\ Sends(K(c)) > 0 <=> link[c] \in Linked
  /\ Sends(S(c)) > 0 => link[c] \in {"up", "down"} /\ ~Queued("ESTABLISHED", c)

(* A client that has waited is ready, and has nothing left.                 *)
ClientStage(c) ==
  /\ link[c] \in Linked => Ready(K(c)) \/ (pc[c] = "wait" /\ back[c] = "ready")
  /\ link[c] \in Linked /\ pc[c] # "wait" => Outstanding(K(c)) = 0

(* The connections of which the server has counted the establishment, or is  *)
(* about to.                                                               *)
Told == {c \in Clients : Sends(S(c)) > 0}

EstInv == Cardinality(Told) = IF To(Server) = "count" THEN estCnt + 1 ELSE estCnt

OrderedInv == \A c \in Clients : ordered[c] = IF recvState[S(c)] > 0 THEN c ELSE ClientNum

(* The server has every client when it leaves the handlers of its events, and *)
(* when it comes back to them.                                              *)
Returned == pc[Server] = "events" /\ estCnt = ClientNum

ServerStage ==
  /\ pc[Server] = "tell" => estCnt = 0
  /\ To(Server) \in {"ready", "visit", "disconnect"} => estCnt = ClientNum
  /\ To(Server) \in {"visit", "disconnect"} \/ pc[Server] = "ready" \/ Returned =>
       \A c \in Clients : Ready(S(c))
  /\ pc[Server] \in {"ready", "disconnect"} \/ Returned =>
       \A c \in Clients : Outstanding(S(c)) = 0

FlowInv == EndsOk /\ RssInv /\ ReadyInv /\ OrderedInv /\ MrInv

TalkInv == FlowInv /\ EstInv /\ ServerStage /\ \A c \in Clients : Begun(c) /\ ClientStage(c)

(* What a step does to the ends: those of A may begin to send, and those of B *)
(* to ask for something.                                                    *)
Effects(A, B) ==
  \A e \in Ends : /\ Sends(e) > 0 => Sends(e)' > 0
                  /\ Ready(e) => Ready(e)'
                  /\ e \notin A => (Sends(e)' > 0 => Sends(e) > 0)
                  /\ e \notin B => (Outstanding(e) = 0 => Outstanding(e)' = 0)

\* Who is in order, by the messages that have come.
LEMMA OrderedKept ==
  ASSUME OrderedInv, ordered' = ordered, recvState' = recvState
  PROVE  OrderedInv'
BY DEF OrderedInv

\* Steps that leave the ends alone.
LEMMA FlowQuiet ==
  ASSUME TypeInv, FlowInv, Kept,
         UNCHANGED <<recvs, posted, flying, cqSend, cqRecv, sendState, recvState, recvMsg, peer,
                     rss, readyCnt, ordered>>,
         \A e \in Ends : life[e] = "none" => life'[e] = "none"
  PROVE  FlowInv' /\ Effects({}, {})
<1>1. \A e \in Ends : Sends(e)' = Sends(e) /\ Outstanding(e)' = Outstanding(e) /\ (Ready(e)' <=> Ready(e))
  BY DEF Sends, Outstanding, Ready
<1>2. EndsOk'
  <2>1. SUFFICES ASSUME NEW e \in Ends PROVE EndOk(e)'
    BY DEF EndsOk
  <2>2. flow(e)' = flow(e)
    BY DEF flow
  <2>3. Sends(Other(e))' = Sends(Other(e))
    BY <1>1, Owners
  <2>4. QED
    BY <2>2, <2>3, EndKept DEF FlowInv
<1>3. RssInv' /\ ReadyInv' /\ OrderedInv'
  BY <1>1, RssQuiet, ReadyQuiet, OrderedKept DEF FlowInv
<1>4. MrInv'
  BY <1>1, MrKept DEF FlowInv, Mr
<1>5. QED
  BY <1>1, <1>2, <1>3, <1>4 DEF FlowInv, Effects

\* A receive is posted.
LEMMA FlowReceive ==
  ASSUME TypeInv, FlowInv, Kept, NEW e \in Ends, life[e] = "none",
         life' = [life EXCEPT ![e] = "built"], PostReceive(e),
         UNCHANGED <<posted, flying, cqSend, cqRecv, sendState, recvState, recvMsg, peer,
                     readyCnt, ordered>>
  PROVE  FlowInv' /\ Effects({}, {e})
<1>1. /\ EndsOk'
      /\ \A f \in Ends : Sends(f)' = Sends(f) /\ (Ready(f)' <=> Ready(f))
      /\ \A f \in Ends : f # e => Outstanding(f)' = Outstanding(f)
      /\ Outstanding(e)' = Outstanding(e) + 1
  BY EndsReceive DEF FlowInv
<1>2. rss'[Owner(e)] = rss[Owner(e)] + 1 /\ \A p \in Procs : p # Owner(e) => rss'[p] = rss[p]
  BY Owners DEF PostReceive, TypeInv, RestType
<1>3. RssInv' /\ ReadyInv' /\ OrderedInv'
  BY <1>1, <1>2, RssMore, ReadyQuiet, OrderedKept DEF FlowInv
<1>4. MrInv'
  BY <1>1, MrKept DEF FlowInv, Mr
<1>5. QED
  BY <1>1, <1>3, <1>4 DEF FlowInv, Effects

\* A request is posted.
LEMMA FlowPost ==
  ASSUME TypeInv, FlowInv, Kept, NEW e \in Ends, life[e] # "none",
         NEW op, NEW mem, Post(e, op, mem),
         \/ Sends(e) = 0 /\ op = "mr" /\ mem = MemoryOf(e)
         \/ Ready(e) /\ op # "mr" /\ mem = peer[e],
         UNCHANGED <<life, recvs, flying, cqSend, cqRecv, sendState, recvState, recvMsg, peer,
                     readyCnt, ordered>>
  PROVE  FlowInv' /\ Effects({e}, {e}) /\ Sends(e)' > 0
<1>1. /\ EndsOk'
      /\ \A f \in Ends : Ready(f)' <=> Ready(f)
      /\ \A f \in Ends : f # e => Sends(f)' = Sends(f) /\ Outstanding(f)' = Outstanding(f)
      /\ Sends(e)' = Sends(e) + 1 /\ Outstanding(e)' = Outstanding(e) + 1
  BY EndsPost DEF FlowInv
<1>2. rss'[Owner(e)] = rss[Owner(e)] + 1 /\ \A p \in Procs : p # Owner(e) => rss'[p] = rss[p]
  BY Owners DEF Post, TypeInv, RestType
<1>3. RssInv' /\ ReadyInv' /\ OrderedInv'
  BY <1>1, <1>2, RssMore, ReadyQuiet, OrderedKept DEF FlowInv
<1>4. Sends(e)' > 0
  BY <1>1, FlowTyped
<1>5. MrInv'
  BY <1>1, MrPost DEF FlowInv
<1>6. QED
  BY <1>1, <1>3, <1>4, <1>5 DEF FlowInv, Effects

\* The NIC.
LEMMA FlowNic ==
  ASSUME TypeInv, FlowInv, Kept, NEW e \in Ends, Nic(e)
  PROVE  FlowInv' /\ Effects({}, {})
<1>1. /\ EndsOk'
      /\ \A f \in Ends : /\ Sends(f)' = Sends(f) /\ Outstanding(f)' = Outstanding(f)
                         /\ Ready(f)' <=> Ready(f)
  BY EndsNic DEF FlowInv
<1>2. UNCHANGED <<rss, readyCnt, recvState, ordered>>
  BY DEF Nic, Deliver, Read, Write, WriteCompletes, connVars
<1>3. RssInv' /\ ReadyInv' /\ OrderedInv'
  BY <1>1, <1>2, RssQuiet, ReadyQuiet, OrderedKept DEF FlowInv
<1>4. MrInv'
  BY <1>1, MrNic DEF FlowInv
<1>5. QED
  BY <1>1, <1>3, <1>4 DEF FlowInv, Effects

\* A completion.
LEMMA FlowPoll ==
  ASSUME TypeInv, FlowInv, Kept, NEW e \in Ends, PollSend(e) \/ PollRecv(e)
  PROVE  FlowInv' /\ Effects({}, {}) /\ Outstanding(e) > 0
<1>0. Outstanding(e) > 0 /\ Outstanding(e) \in Nat
  <2>1. PICK n \in Nat, k \in Nat, a \in Nat, b \in Nat, d \in Nat :
             /\ n = Len(posted[e]) /\ k = flying[e] /\ a = cqSend[e]
             /\ b = recvs[e] /\ d = cqRecv[e]
    BY FlowTyped
  <2>2. a > 0 \/ d > 0
    BY <2>1 DEF PollSend, PollRecv
  <2>3. Outstanding(e) = b + n + k + a + d
    BY <2>1 DEF Outstanding
  <2>4. b + n + k + a + d > 0
    BY <2>2
  <2>5. QED
    BY <2>3, <2>4, FlowTyped
<1>1. /\ \E s, r : OnCompletion(e, s, r)
      /\ Owner(e) \in Procs
  BY Owners DEF PollSend, PollRecv
<1>2. /\ rss'[Owner(e)] = rss[Owner(e)] - 1
      /\ \A p \in Procs : p # Owner(e) => readyCnt'[p] = readyCnt[p] /\ rss'[p] = rss[p]
  BY <1>1, CompletionCounts
<1>3. CASE PollSend(e)
  <2>1. /\ EndsOk'
        /\ \A f \in Ends : f # e => /\ Sends(f)' = Sends(f) /\ Outstanding(f)' = Outstanding(f)
                                    /\ Ready(f)' <=> Ready(f)
        /\ Sends(e) > 0 /\ Sends(e)' > 0 /\ Outstanding(e)' = Outstanding(e) - 1
        /\ Ready(e) => Ready(e)'
        /\ UNCHANGED recvState[e]
        /\ readyCnt'[Owner(e)] = IF Ready(e)' /\ ~Ready(e) THEN readyCnt[Owner(e)] + 1
                                                           ELSE readyCnt[Owner(e)]
    BY <1>3, EndsPollSend DEF FlowInv
  <2>2. RssInv' /\ ReadyInv'
    BY <1>0, <1>2, <2>1, RssLess, ReadyMore DEF FlowInv
  <2>3. OrderedInv'
    <3>1. ordered' = ordered /\ \A f \in Ends : recvState'[f] = recvState[f]
      BY <1>1, <1>3, <2>1, CompletionCounts DEF PollSend
    <3>2. QED
      BY <3>1, EndNames DEF FlowInv, OrderedInv
  <2>4. MrInv'
    <3>1. \A f \in Ends : f # e => Sends(f)' = Sends(f) /\ recvState'[f] = recvState[f]
      BY <1>1, <2>1, CompletionCounts
    <3>2. ~PollRecv(e) \/ Sends(e)' = Sends(e)
      BY <1>3, EndsPollRecv DEF FlowInv
    <3>3. QED
      BY <1>3, <2>1, <3>1, <3>2, MrPoll DEF FlowInv
  <2>5. QED
    BY <1>0, <2>1, <2>2, <2>3, <2>4 DEF FlowInv, Effects
<1>4. CASE PollRecv(e)
  <2>1. /\ EndsOk'
        /\ \A f \in Ends : f # e => /\ Sends(f)' = Sends(f) /\ Outstanding(f)' = Outstanding(f)
                                    /\ (Ready(f)' <=> Ready(f)) /\ recvState'[f] = recvState[f]
        /\ Sends(e)' = Sends(e) /\ Outstanding(e)' = Outstanding(e) - 1
        /\ ~Ready(e) /\ recvState[e] = 0 /\ recvState'[e] = 1
        /\ recvMsg[e] = MemoryOf(Other(e))
        /\ readyCnt'[Owner(e)] = IF Ready(e)' /\ ~Ready(e) THEN readyCnt[Owner(e)] + 1
                                                           ELSE readyCnt[Owner(e)]
    BY <1>4, EndsPollRecv DEF FlowInv
  <2>2. RssInv' /\ ReadyInv'
    BY <1>0, <1>2, <2>1, RssLess, ReadyMore DEF FlowInv
  <2>3. OrderedInv'
    <3>0. ordered \in [Clients -> 0..ClientNum] /\ OrderedInv
      BY DEF TypeInv, RestType, FlowInv
    <3>1. PICK c \in Clients : e = K(c) \/ e = S(c)
      BY EndNames
    <3>2. CASE e = K(c)
      <4>1. ordered' = ordered
        BY <1>4, <3>2 DEF PollRecv, K
      <4>2. \A d \in Clients : recvState'[S(d)] = recvState[S(d)]
        BY <2>1, <3>2, EndNames
      <4>3. QED
        BY <3>0, <4>1, <4>2 DEF OrderedInv
    <3>3. CASE e = S(c)
      <4>1. recvMsg[e] = K(c)
        BY <2>1, <3>3, OtherNames
      <4>2. ordered' = [ordered EXCEPT ![c] = c]
        BY <1>4, <3>3, <4>1 DEF PollRecv, IndexOf, K, S
      <4>3. \A d \in Clients : d # c => recvState'[S(d)] = recvState[S(d)]
        BY <2>1, <3>3, EndNames
      <4>4. recvState'[S(c)] = 1
        BY <2>1, <3>3
      <4>5. QED
        BY <3>0, <4>2, <4>3, <4>4 DEF OrderedInv
    <3>4. QED
      BY <3>1, <3>2, <3>3
  <2>4. MrInv'
    <3>1. ~PollSend(e) \/ recvState'[e] = recvState[e]
      BY EndsPollSend DEF FlowInv
    <3>2. QED
      BY <1>4, <2>1, <3>1, MrPoll DEF FlowInv
  <2>5. QED
    BY <1>0, <2>1, <2>2, <2>3, <2>4 DEF FlowInv, Effects
<1>5. QED
  BY <1>0, <1>3, <1>4

-------------------------------------------------------------------------------
\* What a client's steps do to the ends.
LEMMA ClientFlow ==
  ASSUME TypeInv, TalkInv, Kept, NEW d \in Clients
  PROVE  /\ OnAddrResolved(d) => FlowInv' /\ Effects({}, {K(d)})
         /\ OnConnection(d) => FlowInv' /\ Effects({K(d)}, {K(d)}) /\ Sends(K(d))' > 0
         /\ Publish(d) \/ IoDone(d) => FlowInv' /\ Effects({}, {K(d)})
         /\ \/ ConnectToServer(d) \/ OnRouteResolved(d) \/ OnUnknownEvent(d) \/ ClientReady(d)
            \/ ClientDisconnect(d) \/ OnDisconnected(d)
            => FlowInv' /\ Effects({}, {})
<1>0. /\ FlowInv /\ K(d) \in Ends /\ ClientAt(d) /\ Begun(d) /\ ClientStage(d)
      /\ life \in [Ends -> {"none", "built", "freed"}]
  BY EndNames DEF TalkInv, TypeInv, LifeInv, LifeType
<1>1. CASE OnAddrResolved(d)
  <2>1. /\ pc[d] = "events" /\ NextEvent(d, "ADDR_RESOLVED")
        /\ life' = [life EXCEPT ![K(d)] = "built"] /\ PostReceive(K(d))
        /\ UNCHANGED <<posted, flying, cqSend, cqRecv, sendState, recvState, recvMsg, peer, readyCnt, ordered>>
    BY <1>1 DEF OnAddrResolved, K
  <2>2. life[K(d)] = "none"
    BY <1>0, <2>1, ClientNext
  <2>3. FlowInv' /\ Effects({}, {K(d)})
    BY <1>0, <2>1, <2>2, FlowReceive
  <2>4. QED
    BY <1>1, <2>1, <2>3 DEF OnConnection, Publish, IoDone, ConnectToServer, OnRouteResolved,
      OnUnknownEvent, ClientReady, ClientDisconnect, OnDisconnected, NextEvent
<1>2. CASE OnConnection(d)
  <2>1. /\ pc[d] = "events" /\ NextEvent(d, "ESTABLISHED")
        /\ Post(K(d), "mr", MemoryOf(K(d)))
        /\ UNCHANGED <<life, recvs, flying, cqSend, cqRecv, sendState, recvState, recvMsg, peer, readyCnt, ordered>>
    BY <1>2 DEF OnConnection, K, connVars
  <2>2. life[K(d)] # "none" /\ link[d] = "accepted"
    BY <1>0, <2>1, ClientNext
  <2>3. Sends(K(d)) = 0
    BY <1>0, <2>2, FlowTyped DEF Begun, Linked
  <2>4. FlowInv' /\ Effects({K(d)}, {K(d)}) /\ Sends(K(d))' > 0
    BY <1>0, <2>1, <2>2, <2>3, FlowPost
  <2>5. QED
    BY <1>2, <2>1, <2>4 DEF OnAddrResolved, Publish, IoDone, ConnectToServer, OnRouteResolved,
      OnUnknownEvent, ClientReady, ClientDisconnect, OnDisconnected, NextEvent
<1>3. CASE Publish(d) \/ IoDone(d)
  <2>1. /\ pc[d] \in {"run", "published"}
        /\ Post(K(d), "write", peer[K(d)])
        /\ UNCHANGED <<life, recvs, flying, cqSend, cqRecv, sendState, recvState, recvMsg, peer, readyCnt, ordered>>
    BY <1>3 DEF Publish, IoDone, K, connVars
  <2>2. life[K(d)] # "none" /\ link[d] \in Linked
    BY <1>0, <2>1 DEF ClientAt, Linked
  <2>3. Ready(K(d)) /\ Sends(K(d)) > 0
    BY <1>0, <2>1, <2>2 DEF ClientStage, Begun
  <2>4. FlowInv' /\ Effects({K(d)}, {K(d)})
    BY <1>0, <2>1, <2>2, <2>3, FlowPost
  <2>5. Effects({}, {K(d)})
    BY <2>3, <2>4 DEF Effects
  <2>6. QED
    BY <1>3, <2>1, <2>4, <2>5 DEF OnAddrResolved, OnConnection, ConnectToServer, OnRouteResolved,
      OnUnknownEvent, ClientReady, ClientDisconnect, OnDisconnected
<1>4. CASE \/ ConnectToServer(d) \/ OnRouteResolved(d) \/ OnUnknownEvent(d) \/ ClientReady(d)
           \/ ClientDisconnect(d) \/ OnDisconnected(d)
  <2>1. UNCHANGED <<recvs, posted, flying, cqSend, cqRecv, sendState, recvState, recvMsg, peer,
                    rss, readyCnt, ordered>>
    BY <1>4 DEF ConnectToServer, OnRouteResolved, OnUnknownEvent, ClientReady, ClientDisconnect,
      OnDisconnected, connVars, nicVars
  <2>2. life' = life \/ (life' = [life EXCEPT ![K(d)] = "freed"] /\ OnDisconnected(d))
    BY <1>4 DEF ConnectToServer, OnRouteResolved, OnUnknownEvent, ClientReady, ClientDisconnect,
      OnDisconnected, connVars, K
  <2>3. \A e \in Ends : life[e] = "none" => life'[e] = "none"
    <3>1. CASE life' = life
      BY <3>1
    <3>2. CASE life' = [life EXCEPT ![K(d)] = "freed"] /\ OnDisconnected(d)
      <4>1. life[K(d)] = "built"
        BY <1>0, <3>2, ClientNext DEF OnDisconnected
      <4>2. QED
        BY <1>0, <3>2, <4>1
    <3>3. QED
      BY <2>2, <3>1, <3>2
  <2>4. FlowInv' /\ Effects({}, {})
    BY <1>0, <2>1, <2>3, FlowQuiet
  <2>5. ~(OnAddrResolved(d) \/ OnConnection(d) \/ Publish(d) \/ IoDone(d))
    BY <1>4 DEF OnAddrResolved, OnConnection, ConnectToServer, OnRouteResolved, Publish, IoDone,
      OnUnknownEvent, ClientReady, ClientDisconnect, OnDisconnected, NextEvent
  <2>6. QED
    BY <2>4, <2>5
<1>5. QED
  BY <1>1, <1>2, <1>3, <1>4

\* Who is waiting, and for what: nobody who is not in a wait.
LEMMA ServerPlace ==
  ASSUME WakeType, NEW x, pc[Server] = x, x \notin {"wait", "drain"}
  PROVE  To(Server) = x
BY DEF To, Waiting

\* What the server's steps do to the ends.
LEMMA ServerFlow ==
  ASSUME TypeInv, TalkInv, Kept
  PROVE  /\ OnConnectRequest =>
              \E c \in Clients : /\ c = Head(events[Server]).clt /\ life[S(c)] = "none"
                                 /\ FlowInv' /\ Effects({}, {S(c)})
         /\ OnEstablished =>
              \E c \in Clients : /\ c = Head(events[Server]).clt /\ Queued("ESTABLISHED", c)
                                 /\ FlowInv' /\ Effects({S(c)}, {S(c)})
                                 /\ Sends(S(c)) = 0 /\ Sends(S(c))' > 0
         /\ \A i \in Clients : VisitReads(i) \/ VisitAcks(i) => FlowInv' /\ Effects({}, {S(i)})
         /\ \/ TellAddress \/ Accept \/ CountEstablished \/ ServerReady
            \/ ServerDisconnect \/ OnDisconnect
            \/ \E i \in Clients : VisitEnds(i) \/ VisitNothing(i)
            => FlowInv' /\ Effects({}, {})
<1>0. /\ FlowInv /\ WakeType /\ LifeInv
      /\ \A c \in Clients : S(c) \in Ends /\ ServerLink(c) /\ Begun(c)
      /\ life \in [Ends -> {"none", "built", "freed"}]
  BY EndNames DEF TalkInv, TypeInv, LifeInv, LifeType
<1>1. ASSUME OnConnectRequest
      PROVE  \E c \in Clients : /\ c = Head(events[Server]).clt /\ life[S(c)] = "none"
                                /\ FlowInv' /\ Effects({}, {S(c)})
  <2>1. PICK c : c = Head(events[Server]).clt
    OBVIOUS
  <2>2. NextEvent(Server, "CONNECT_REQUEST")
    BY <1>1 DEF OnConnectRequest
  <2>3. c \in Clients /\ Queued("CONNECT_REQUEST", c)
    BY <1>0, <2>1, <2>2, ServerNext
  <2>4. life[S(c)] = "none" /\ S(c) \in Ends
    BY <1>0, <2>3 DEF ServerLink
  <2>5. /\ life' = [life EXCEPT ![S(c)] = "built"] /\ PostReceive(S(c))
        /\ UNCHANGED <<posted, flying, cqSend, cqRecv, sendState, recvState, recvMsg, peer, readyCnt, ordered>>
    BY <1>1, <2>1 DEF OnConnectRequest, S
  <2>6. FlowInv' /\ Effects({}, {S(c)})
    BY <1>0, <2>4, <2>5, FlowReceive
  <2>7. QED
    BY <2>1, <2>3, <2>4, <2>6
<1>2. ASSUME OnEstablished
      PROVE  \E c \in Clients : /\ c = Head(events[Server]).clt /\ Queued("ESTABLISHED", c)
                                /\ FlowInv' /\ Effects({S(c)}, {S(c)})
                                /\ Sends(S(c)) = 0 /\ Sends(S(c))' > 0
  <2>1. PICK c : c = Head(events[Server]).clt
    OBVIOUS
  <2>2. NextEvent(Server, "ESTABLISHED")
    BY <1>2 DEF OnEstablished
  <2>3. c \in Clients /\ Queued("ESTABLISHED", c)
    BY <1>0, <2>1, <2>2, ServerNext
  <2>4. life[S(c)] # "none" /\ S(c) \in Ends
    BY <1>0, <2>3 DEF ServerLink
  <2>5. Sends(S(c)) = 0
    BY <1>0, <2>3, <2>4, FlowTyped DEF Begun
  <2>6. /\ Post(S(c), "mr", MemoryOf(S(c)))
        /\ UNCHANGED <<life, recvs, flying, cqSend, cqRecv, sendState, recvState, recvMsg, peer, readyCnt, ordered>>
    BY <1>2, <2>1 DEF OnEstablished, S, connVars
  <2>7. FlowInv' /\ Effects({S(c)}, {S(c)}) /\ Sends(S(c))' > 0
    BY <1>0, <2>4, <2>5, <2>6, FlowPost
  <2>8. QED
    BY <2>1, <2>3, <2>5, <2>7
<1>3. ASSUME NEW i \in Clients, VisitReads(i) \/ VisitAcks(i)
      PROVE  FlowInv' /\ Effects({}, {S(i)})
  <2>1. pc[Server] = "visit"
    BY <1>3 DEF VisitReads, VisitAcks, Visits
  <2>2. Ready(S(i))
    BY <1>0, <2>1, ServerPlace DEF TalkInv, ServerStage
  <2>3. ordered[i] = i
    BY <1>0, <2>2 DEF FlowInv, OrderedInv, Ready
  <2>4. \E op : op # "mr" /\ Post(S(i), op, peer[S(i)])
    BY <1>3, <2>3 DEF VisitReads, VisitAcks, S
  <2>5. UNCHANGED <<life, recvs, flying, cqSend, cqRecv, sendState, recvState, recvMsg, peer, readyCnt, ordered>>
    BY <1>3 DEF VisitReads, VisitAcks, Visits
  <2>6. life[S(i)] # "none" /\ Sends(S(i)) > 0
    <3>1. EndOk(S(i)) /\ recvState[S(i)] > 0 /\ S(i) \in Ends
      BY <1>0, <2>2 DEF FlowInv, EndsOk, Ready
    <3>2. Recvs(S(i)) > 0
      BY <3>1, FlowTyped DEF Recvs
    <3>3. sendState[S(i)] > 0
      BY <2>2 DEF Ready
    <3>4. Sends(S(i)) > 0
      BY <3>1, <3>3, FlowTyped DEF Sends
    <3>5. QED
      BY <3>1, <3>2, <3>4 DEF EndOk
  <2>7. FlowInv' /\ Effects({S(i)}, {S(i)})
    BY <1>0, <2>2, <2>4, <2>5, <2>6, FlowPost
  <2>8. QED
    BY <2>6, <2>7 DEF Effects
<1>4. ASSUME \/ TellAddress \/ Accept \/ CountEstablished \/ ServerReady
             \/ ServerDisconnect \/ OnDisconnect
             \/ \E i \in Clients : VisitEnds(i) \/ VisitNothing(i)
      PROVE  FlowInv' /\ Effects({}, {})
  <2>1. UNCHANGED <<recvs, posted, flying, cqSend, cqRecv, sendState, recvState, recvMsg, peer,
                    rss, readyCnt, ordered>>
    BY <1>4 DEF TellAddress, Accept, CountEstablished, ServerReady, ServerDisconnect, OnDisconnect,
      VisitEnds, VisitNothing, Visits, connVars, nicVars
  <2>2. life' = life \/ OnDisconnect
    BY <1>4 DEF TellAddress, Accept, CountEstablished, ServerReady, ServerDisconnect,
      VisitEnds, VisitNothing, Visits, connVars
  <2>3. \A e \in Ends : life[e] = "none" => life'[e] = "none"
    <3>1. CASE OnDisconnect
      <4>1. PICK c : c = Head(events[Server]).clt
        OBVIOUS
      <4>2. NextEvent(Server, "DISCONNECTED") /\ life' = [life EXCEPT ![S(c)] = "freed"]
        BY <3>1, <4>1 DEF OnDisconnect, S
      <4>3. life[S(c)] = "built"
        BY <1>0, <4>1, <4>2, ServerNext DEF ServerLink
      <4>4. QED
        BY <1>0, <4>2, <4>3
    <3>2. QED
      BY <2>2, <3>1
  <2>4. QED
    BY <1>0, <2>1, <2>3, FlowQuiet
<1>5. QED
  BY <1>1, <1>2, <1>3, <1>4

-------------------------------------------------------------------------------
\* An end that has sent something and waits for nothing is ready.
LEMMA QuietReady ==
  ASSUME TypeInv, EndsOk, NEW e \in Ends, Sends(e) > 0, Outstanding(e) = 0
  PROVE  Ready(e)
<1>1. PICK n \in Nat, k \in Nat, a \in Nat, b \in Nat, d \in Nat :
             /\ n = Len(posted[e]) /\ k = flying[e] /\ a = cqSend[e]
             /\ b = recvs[e] /\ d = cqRecv[e]
  BY FlowTyped
<1>2. b + n + k + a + d = 0
  BY <1>1 DEF Outstanding
<1>3. n = 0 /\ k = 0 /\ a = 0 /\ b = 0 /\ d = 0
  BY <1>2
<1>4. PICK s \in Nat, r \in Nat : s = sendState[e] /\ r = recvState[e]
  BY FlowTyped
<1>5. s + n + k + a > 0
  BY <1>1, <1>4 DEF Sends
<1>6. s > 0
  BY <1>3, <1>5
<1>7. life[e] # "none" /\ EndOk(e)
  BY FlowTyped DEF EndsOk, EndOk
<1>8. r + b + d = 1
  BY <1>1, <1>4, <1>7 DEF EndOk, Recvs
<1>9. r > 0
  BY <1>3, <1>8
<1>10. QED
  BY <1>4, <1>6, <1>9 DEF Ready

\* The ends of a process that has nothing left.
LEMMA NothingLeft ==
  ASSUME TypeInv, TalkInv, NEW p \in Procs, Drained(p), goal[p] = 0
  PROVE  \A e \in Ends : Owner(e) = p => Outstanding(e) = 0
<1>1. rss[p] \in Int /\ rss[p] <= 0
  BY DEF Drained, TypeInv, RestType
<1>2. QED
  BY <1>1, RssNone DEF TalkInv, FlowInv, EndsOf

-------------------------------------------------------------------------------
(* The parts that a step leaves alone.                                       *)

\* A connection whose ends do not begin.
LEMMA BegunKept ==
  ASSUME TalkInv, NEW A, NEW B, Effects(A, B), NEW c \in Clients, K(c) \notin A, S(c) \notin A,
         link'[c] \in Linked <=> link[c] \in Linked,
         link[c] \in {"up", "down"} => link'[c] \in {"up", "down"},
         Queued("ESTABLISHED", c)' => Queued("ESTABLISHED", c) \/ link[c] = "use"
  PROVE  Begun(c)'
<1>1. /\ Sends(K(c))' > 0 <=> Sends(K(c)) > 0
      /\ Sends(S(c))' > 0 <=> Sends(S(c)) > 0
  BY EndNames DEF Effects
<1>2. Begun(c)
  BY DEF TalkInv
<1>3. QED
  BY <1>1, <1>2 DEF Begun

\* A client that does not move.
LEMMA StageKept ==
  ASSUME TalkInv, NEW A, NEW B, Effects(A, B), NEW c \in Clients, K(c) \notin B,
         link'[c] \in Linked <=> link[c] \in Linked, pc'[c] = pc[c], back'[c] = back[c]
  PROVE  ClientStage(c)'
<1>1. /\ Ready(K(c)) => Ready(K(c))'
      /\ Outstanding(K(c)) = 0 => Outstanding(K(c))' = 0
  BY EndNames DEF Effects
<1>2. ClientStage(c)
  BY DEF TalkInv
<1>3. QED
  BY <1>1, <1>2 DEF ClientStage

\* No establishment is counted.
LEMMA ToldKept ==
  ASSUME TalkInv, NEW A, NEW B, Effects(A, B), \A c \in Clients : S(c) \notin A
  PROVE  Told' = Told
<1>1. \A c \in Clients : Sends(S(c))' > 0 <=> Sends(S(c)) > 0
  BY EndNames DEF Effects
<1>2. QED
  BY <1>1 DEF Told

\* Nor does the server move.
LEMMA ServerKept ==
  ASSUME TalkInv, NEW A, NEW B, Effects(A, B), \A c \in Clients : S(c) \notin A /\ S(c) \notin B,
         pc'[Server] = pc[Server], back'[Server] = back[Server], estCnt' = estCnt
  PROVE  EstInv' /\ ServerStage'
<1>1. Told' = Told
  BY ToldKept
<1>2. To(Server)' = To(Server)
  BY DEF To, Waiting
<1>3. /\ \A c \in Clients : Ready(S(c)) => Ready(S(c))'
      /\ \A c \in Clients : Outstanding(S(c)) = 0 => Outstanding(S(c))' = 0
  BY EndNames DEF Effects
<1>4. EstInv'
  BY <1>1, <1>2 DEF TalkInv, EstInv
<1>5. ServerStage'
  <2>1. ServerStage
    BY DEF TalkInv
  <2>2. Returned' <=> Returned
    BY DEF Returned
  <2>3. QED
    BY <1>2, <1>3, <2>1, <2>2 DEF ServerStage
<1>6. QED
  BY <1>4, <1>5

\* A step in which nobody moves.
LEMMA TalkQuiet ==
  ASSUME TalkInv, FlowInv', Effects({}, {}), UNCHANGED <<pc, back, estCnt>>,
         \A c \in Clients : /\ link'[c] \in Linked <=> link[c] \in Linked
                            /\ link[c] \in {"up", "down"} => link'[c] \in {"up", "down"}
                            /\ Queued("ESTABLISHED", c)' => Queued("ESTABLISHED", c) \/ link[c] = "use"
  PROVE  TalkInv'
<1>1. \A c \in Clients : Begun(c)' /\ ClientStage(c)'
  BY BegunKept, StageKept
<1>2. EstInv' /\ ServerStage'
  BY ServerKept
<1>3. QED
  BY <1>1, <1>2 DEF TalkInv

\* A step of one client.
LEMMA ClientTalk ==
  ASSUME TalkInv, FlowInv', NEW d \in Clients, Effects({K(d)}, {K(d)}),
         pc'[Server] = pc[Server], back'[Server] = back[Server], estCnt' = estCnt,
         \A c \in Clients : c # d => pc'[c] = pc[c] /\ back'[c] = back[c] /\ link'[c] = link[c],
         \A c \in Clients : Queued("ESTABLISHED", c)' => Queued("ESTABLISHED", c),
         link[d] \in {"up", "down"} => link'[d] \in {"up", "down"},
         Sends(K(d))' > 0 <=> link'[d] \in Linked, ClientStage(d)'
  PROVE  TalkInv'
<1>1. \A c \in Clients : c # d => Begun(c)' /\ ClientStage(c)'
  <2>1. ASSUME NEW c \in Clients, c # d PROVE K(c) \notin {K(d)} /\ S(c) \notin {K(d)}
    BY <2>1, EndNames
  <2>2. ASSUME NEW c \in Clients, c # d PROVE Begun(c)' /\ ClientStage(c)'
    BY <2>1, <2>2, BegunKept, StageKept
  <2>3. QED
    BY <2>2
<1>2. Begun(d)'
  <2>1. Sends(S(d))' > 0 => Sends(S(d)) > 0
    BY EndNames DEF Effects
  <2>2. Begun(d)
    BY DEF TalkInv
  <2>3. QED
    BY <2>1, <2>2 DEF Begun
<1>3. EstInv' /\ ServerStage'
  <2>1. \A c \in Clients : S(c) \notin {K(d)}
    BY EndNames
  <2>2. QED
    BY <2>1, ServerKept
<1>4. QED
  BY <1>1, <1>2, <1>3 DEF TalkInv

\* A step of the server in which no end begins.
LEMMA ServerTalk ==
  ASSUME TalkInv, FlowInv', NEW B, Effects({}, B), \A c \in Clients : K(c) \notin B,
         \A c \in Clients : /\ pc'[c] = pc[c] /\ back'[c] = back[c]
                            /\ link'[c] \in Linked <=> link[c] \in Linked
                            /\ link[c] \in {"up", "down"} => link'[c] \in {"up", "down"}
                            /\ Queued("ESTABLISHED", c)' => Queued("ESTABLISHED", c),
         To(Server) = "count" <=> To(Server)' = "count", estCnt' = estCnt, ServerStage'
  PROVE  TalkInv'
<1>1. \A c \in Clients : Begun(c)' /\ ClientStage(c)'
  BY BegunKept, StageKept
<1>2. Told' = Told
  BY ToldKept
<1>3. EstInv'
  BY <1>2 DEF TalkInv, EstInv
<1>4. QED
  BY <1>1, <1>3 DEF TalkInv

-------------------------------------------------------------------------------
\* A client's step moves this client only.
LEMMA ClientFrame ==
  ASSUME TypeInv, NEW d \in Clients,
         \/ ConnectToServer(d) \/ OnAddrResolved(d) \/ OnRouteResolved(d) \/ OnConnection(d)
         \/ OnUnknownEvent(d) \/ ClientReady(d) \/ Publish(d) \/ IoDone(d) \/ OnDisconnected(d)
         \/ ClientDisconnect(d) \/ Drained(d)
  PROVE  /\ \A p \in Procs : p # d => pc'[p] = pc[p] /\ back'[p] = back[p]
         /\ \A c \in Clients : c # d => link'[c] = link[c]
         /\ estCnt' = estCnt
         /\ \A c \in Clients : Queued("ESTABLISHED", c)' => Queued("ESTABLISHED", c)
<1>0. /\ d # Server /\ Server \in Procs
      /\ pc \in [Procs -> States] /\ back \in [Procs -> States \cup {"none"}]
      /\ events \in [Procs -> Seq(Happenings)] /\ link \in [Clients -> Links]
      /\ WakeType /\ LifeInv
  BY Owners DEF TypeInv, LifeInv, LifeType, WakeType
<1>1. \A p \in Procs : p # d => pc'[p] = pc[p] /\ back'[p] = back[p]
  BY <1>0 DEF ConnectToServer, OnAddrResolved, OnRouteResolved, OnConnection, OnUnknownEvent,
      ClientReady,
    Publish, IoDone, OnDisconnected, ClientDisconnect, Drained, WaitAll, WaitFinal, pollVars
<1>2. estCnt' = estCnt
  BY DEF ConnectToServer, OnAddrResolved, OnRouteResolved, OnConnection, OnUnknownEvent,
      ClientReady,
    Publish, IoDone, OnDisconnected, ClientDisconnect, Drained, countVars
<1>3. CASE ClientDisconnect(d)
  <2>1. Disconnect(d)
    BY <1>3 DEF ClientDisconnect
  <2>2. \A t, c : Queued(t, c)' => Queued(t, c) \/ (t = "DISCONNECTED" /\ c = d)
    BY <1>0, <2>1, DisconnectLife
  <2>3. \A c \in Clients : c # d => link'[c] = link[c]
    BY <1>0, <2>1, DisconnectLife
  <2>4. QED
    BY <1>1, <1>2, <2>2, <2>3
<1>4. CASE ~ClientDisconnect(d)
  <2>1. /\ events'[Server] = events[Server]
        /\ \A c \in Clients : c # d => link'[c] = link[c]
    BY <1>0, <1>4 DEF ConnectToServer, OnAddrResolved, OnRouteResolved, OnConnection,
        OnUnknownEvent,
      ClientReady, Publish, IoDone, OnDisconnected, Drained, Took, cmVars
  <2>2. \A c \in Clients : Queued("ESTABLISHED", c)' => Queued("ESTABLISHED", c)
    BY <2>1 DEF Queued
  <2>3. QED
    BY <1>1, <1>2, <2>1, <2>2
<1>5. QED
  BY <1>3, <1>4

\* What may begin or ask for something, but does not.
LEMMA EffectsMore ==
  ASSUME NEW A, NEW B, NEW C, NEW D, A \subseteq C, B \subseteq D, Effects(A, B)
  PROVE  Effects(C, D)
BY DEF Effects

\* The steps of a client that has no connection yet.
LEMMA ClientBefore ==
  ASSUME TypeInv, TalkInv, Kept, NEW d \in Clients,
         ConnectToServer(d) \/ OnAddrResolved(d) \/ OnRouteResolved(d) \/ OnUnknownEvent(d)
  PROVE  TalkInv'
<1>0. /\ ClientAt(d) /\ Begun(d) /\ K(d) \in Ends /\ link \in [Clients -> Links]
  BY EndNames DEF TypeInv, LifeInv, WakeType, TalkInv
<1>1. FlowInv' /\ Effects({}, {K(d)})
  BY ClientFlow, EffectsMore
<1>2. Effects({K(d)}, {K(d)})
  BY <1>1, EffectsMore
<1>3. link[d] \notin Linked /\ link'[d] \notin Linked
  <2>1. CASE ConnectToServer(d)
    BY <1>0, <2>1 DEF ConnectToServer, ClientAt, Linked, InUse
  <2>2. CASE OnAddrResolved(d)
    <3>1. link[d] = "none" /\ link' = link
      BY <1>0, <2>2, ClientNext DEF OnAddrResolved
    <3>2. QED
      BY <3>1 DEF Linked
  <2>3. CASE OnRouteResolved(d)
    <3>1. link[d] = "none" /\ link'[d] = "request"
      BY <1>0, <2>3, ClientNext DEF OnRouteResolved
    <3>2. QED
      BY <3>1 DEF Linked
  <2>4. CASE OnUnknownEvent(d)
    <3>1. link[d] = "rejected" /\ link' = link
      BY <1>0, <2>4, ClientNext DEF OnUnknownEvent
    <3>2. QED
      BY <3>1 DEF Linked
  <2>5. QED
    BY <2>1, <2>2, <2>3, <2>4
<1>4. ~(Sends(K(d))' > 0)
  BY <1>0, <1>1, <1>3 DEF Begun, Effects
<1>5. ClientStage(d)'
  BY <1>3 DEF ClientStage
<1>6. Server \in Procs /\ Server # d /\ Clients \subseteq Procs
  BY Owners
<1>7. QED
  BY <1>1, <1>2, <1>3, <1>4, <1>5, <1>6, ClientFrame, ClientTalk DEF Linked

\* The steps of a client that has one.
LEMMA ClientDuring ==
  ASSUME TypeInv, TalkInv, Kept, NEW d \in Clients,
         \/ OnConnection(d) \/ ClientReady(d) \/ Publish(d) \/ IoDone(d) \/ ClientDisconnect(d)
         \/ OnDisconnected(d)
  PROVE  TalkInv'
<1>0. /\ ClientAt(d) /\ Begun(d) /\ ClientStage(d) /\ K(d) \in Ends /\ link \in [Clients -> Links]
      /\ pc \in [Procs -> States] /\ back \in [Procs -> States \cup {"none"}]
      /\ Server \in Procs /\ Server # d /\ d \in Procs /\ Clients \subseteq Procs
  BY EndNames, Owners DEF TypeInv, LifeInv, LifeType, WakeType, TalkInv
<1>1. FlowInv' /\ Effects({K(d)}, {K(d)})
  BY ClientFlow, EffectsMore
<1>2. CASE OnConnection(d)
  <2>1. Sends(K(d))' > 0
    BY <1>2, ClientFlow
  <2>2. link[d] = "accepted" /\ link'[d] = "use" /\ pc'[d] = "wait" /\ back'[d] = "ready"
    BY <1>0, <1>2, ClientNext DEF OnConnection, WaitAll
  <2>3. ClientStage(d)'
    BY <2>2 DEF ClientStage
  <2>4. QED
    BY <1>0, <1>1, <1>2, <2>1, <2>2, <2>3, ClientFrame, ClientTalk DEF Linked
<1>3. CASE Publish(d) \/ IoDone(d)
  <2>1. link[d] \in Linked /\ link' = link /\ pc[d] # "wait" /\ pc'[d] = "wait"
    BY <1>0, <1>3 DEF Publish, IoDone, ClientAt, Linked, WaitFinal, WaitAll, cmVars
  <2>2. Ready(K(d))' /\ Sends(K(d))' > 0
    BY <1>0, <1>1, <2>1 DEF ClientStage, Effects, Begun
  <2>3. ClientStage(d)'
    BY <2>1, <2>2 DEF ClientStage
  <2>4. QED
    BY <1>0, <1>1, <1>3, <2>1, <2>2, <2>3, ClientFrame, ClientTalk
<1>4. CASE ClientReady(d) \/ ClientDisconnect(d) \/ OnDisconnected(d)
  <2>1. /\ link[d] \in Linked /\ link'[d] \in Linked /\ pc[d] # "wait" /\ pc'[d] # "wait"
        /\ link[d] \in {"up", "down"} => link'[d] \in {"up", "down"}
    <3>1. CASE ClientReady(d)
      BY <1>0, <3>1 DEF ClientReady, ClientAt, Linked, cmVars
    <3>2. CASE ClientDisconnect(d)
      <4>1. link[d] \in Linked /\ pc[d] # "wait" /\ pc'[d] = "events"
        BY <1>0, <3>2 DEF ClientDisconnect, ClientAt, Linked
      <4>2. link'[d] = link[d] \/ link'[d] = "down"
        BY <1>0, <3>2 DEF ClientDisconnect, Disconnect, cmVars
      <4>3. QED
        BY <4>1, <4>2 DEF Linked
    <3>3. CASE OnDisconnected(d)
      <4>1. link[d] = "down"
        BY <1>0, <3>3, ClientNext DEF OnDisconnected
      <4>2. QED
        BY <1>0, <3>3, <4>1 DEF OnDisconnected, Linked
    <3>4. QED
      BY <1>4, <3>1, <3>2, <3>3
  <2>2. Effects({}, {})
    BY <1>4, ClientFlow
  <2>3. Ready(K(d))' /\ Sends(K(d))' > 0 /\ Outstanding(K(d))' = 0
    BY <1>0, <2>1, <2>2 DEF ClientStage, Effects, Begun
  <2>4. ClientStage(d)'
    BY <2>3 DEF ClientStage
  <2>5. QED
    BY <1>0, <1>1, <1>4, <2>1, <2>3, <2>4, ClientFrame, ClientTalk
<1>5. QED
  BY <1>2, <1>3, <1>4

\* A client stops waiting.
LEMMA ClientDrained ==
  ASSUME TypeInv, TalkInv, Kept, NEW d \in Clients, Drained(d)
  PROVE  TalkInv'
<1>0. /\ ClientAt(d) /\ Begun(d) /\ ClientStage(d) /\ K(d) \in Ends /\ link \in [Clients -> Links]
      /\ pc \in [Procs -> States] /\ back \in [Procs -> States \cup {"none"}]
      /\ Server \in Procs /\ Server # d /\ d \in Procs /\ Clients \subseteq Procs /\ Owner(K(d)) = d
  BY EndNames, OtherNames, Owners DEF TypeInv, LifeInv, LifeType, WakeType, TalkInv
<1>1. FlowInv' /\ Effects({}, {})
  <2>1. UNCHANGED <<recvs, posted, flying, cqSend, cqRecv, sendState, recvState, recvMsg, peer,
                    rss, readyCnt, ordered, life>>
    BY DEF Drained, connVars, nicVars
  <2>2. QED
    BY <2>1, FlowQuiet DEF TalkInv
<1>2. Effects({K(d)}, {K(d)})
  BY <1>1, EffectsMore
<1>3. pc[d] = "wait" /\ link[d] \in Linked /\ goal[d] = 0 /\ pc'[d] # "wait" /\ link' = link
  BY <1>0 DEF Drained, Waiting, ClientAt, Linked, cmVars, InUse
<1>4. Outstanding(K(d)) = 0 /\ Sends(K(d)) > 0
  BY <1>0, <1>3, NothingLeft DEF Begun
<1>5. Ready(K(d))
  BY <1>0, <1>4, QuietReady DEF TalkInv, FlowInv
<1>6. Ready(K(d))' /\ Sends(K(d))' > 0 /\ Outstanding(K(d))' = 0
  BY <1>0, <1>1, <1>4, <1>5 DEF Effects
<1>7. ClientStage(d)'
  BY <1>6 DEF ClientStage
<1>8. QED
  BY <1>0, <1>1, <1>2, <1>3, <1>6, <1>7, ClientFrame, ClientTalk

\* Taking completions.
LEMMA PollsTalk ==
  ASSUME TypeInv, TalkInv, Kept, NEW p \in Procs, Polls(p), ~Drained(p)
  PROVE  TalkInv'
<1>1. FlowInv' /\ Effects({}, {})
  <2>1. CASE GetCqEvent(p) \/ PollEmpty(p)
    <3>1. UNCHANGED <<recvs, posted, flying, cqSend, cqRecv, sendState, recvState, recvMsg, peer,
                      rss, readyCnt, ordered, life>>
      BY <2>1 DEF GetCqEvent, PollEmpty, connVars, nicVars
    <3>2. QED
      BY <3>1, FlowQuiet DEF TalkInv
  <2>2. CASE \E e \in Ends : PollSend(e) \/ PollRecv(e)
    BY <2>2, FlowPoll DEF TalkInv
  <2>3. QED
    BY <2>1, <2>2 DEF Polls
<1>2. UNCHANGED <<pc, back, estCnt, link, events>>
  BY DEF Polls, GetCqEvent, PollEmpty, PollSend, PollRecv, countVars, cmVars, pollVars
<1>3. QED
  BY <1>1, <1>2, TalkQuiet DEF Queued

\* The NIC.
LEMMA NicTalk ==
  ASSUME TypeInv, TalkInv, Kept, NEW e \in Ends, Nic(e)
  PROVE  TalkInv'
<1>1. FlowInv' /\ Effects({}, {})
  BY FlowNic DEF TalkInv
<1>2. UNCHANGED <<pc, back, estCnt, link, events>>
  BY DEF Nic, Deliver, Read, Write, WriteCompletes, countVars, cmVars, pollVars
<1>3. QED
  BY <1>1, <1>2, TalkQuiet DEF Queued

\* The connection manager.
LEMMA ManagerTalk ==
  ASSUME TypeInv, TalkInv, Kept, Manager
  PROVE  TalkInv'
<1>1. FlowInv' /\ Effects({}, {})
  <2>1. UNCHANGED <<recvs, posted, flying, cqSend, cqRecv, sendState, recvState, recvMsg, peer,
                    rss, readyCnt, ordered, life>>
    BY DEF Manager, connVars, nicVars
  <2>2. QED
    BY <2>1, FlowQuiet DEF TalkInv
<1>2. UNCHANGED <<pc, back, estCnt>>
  BY DEF Manager, countVars, pollVars
<1>3. PICK d \in Clients : CmConnects(d) \/ CmRejects(d) \/ CmConfirms(d)
  BY DEF Manager
<1>4. \A c \in Clients : /\ link'[c] \in Linked <=> link[c] \in Linked
                         /\ link[c] \in {"up", "down"} => link'[c] \in {"up", "down"}
  <2>1. link \in [Clients -> Links]
    BY DEF TypeInv, WakeType
  <2>2. QED
    BY <1>3, <2>1 DEF CmConnects, CmRejects, CmConfirms, Linked
<1>5. \A c \in Clients : Queued("ESTABLISHED", c)' => Queued("ESTABLISHED", c) \/ link[c] = "use"
  <2>1. ASSUME NEW c \in Clients, Queued("ESTABLISHED", c)', ~Queued("ESTABLISHED", c)
        PROVE  link[c] = "use"
    <3>0. events \in [Procs -> Seq(Happenings)] /\ Server \in Procs /\ d # Server
          /\ d \in Procs
      BY Owners DEF TypeInv, WakeType
    <3>1. PICK i \in DOMAIN events'[Server] : events'[Server][i] = Event("ESTABLISHED", c)
      BY <2>1 DEF Queued
    <3>2. \A t, x : events' = [events EXCEPT ![Server] = Append(@, Event(t, x))] =>
            events'[Server][i] = Event(t, x) \/ \E j \in DOMAIN events[Server] : events'[Server][i] = events[Server][j]
      <4>1. PICK q \in Seq(Happenings) : q = events[Server]
        BY <3>0
      <4>2. ASSUME NEW t, NEW x, events' = [events EXCEPT ![Server] = Append(@, Event(t, x))]
            PROVE  events'[Server][i] = Event(t, x) \/ \E j \in DOMAIN q : events'[Server][i] = q[j]
        <5>1. events'[Server] = Append(q, Event(t, x))
          BY <3>0, <4>1, <4>2
        <5>2. PICK v : v = Event(t, x)
          OBVIOUS
        <5>3. \A k \in DOMAIN Append(q, v) : Append(q, v)[k] = v \/ \E j \in DOMAIN q : Append(q, v)[k] = q[j]
          OBVIOUS
        <5>4. QED
          BY <3>1, <5>1, <5>2, <5>3
      <4>3. QED
        BY <4>1, <4>2
    <3>3. ~\E j \in DOMAIN events[Server] : events'[Server][i] = events[Server][j]
      BY <2>1, <3>1 DEF Queued
    <3>4. CASE CmConnects(d)
      <4>1. events'[Server][i] = Event("CONNECT_REQUEST", d)
        BY <3>2, <3>3, <3>4 DEF CmConnects, Notify
      <4>2. QED
        BY <3>1, <4>1, EventNames
    <3>5. CASE CmRejects(d)
      <4>1. events'[Server] = events[Server]
        BY <3>0, <3>5 DEF CmRejects, Notify
      <4>2. QED
        BY <3>3, <4>1, <3>1
    <3>6. CASE CmConfirms(d)
      <4>1. events'[Server][i] = Event("ESTABLISHED", d)
        BY <3>2, <3>3, <3>6 DEF CmConfirms, Notify
      <4>2. c = d
        BY <3>1, <4>1, EventNames
      <4>3. QED
        BY <3>6, <4>2 DEF CmConfirms
    <3>7. QED
      BY <1>3, <3>4, <3>5, <3>6
  <2>2. QED
    BY <2>1
<1>6. QED
  BY <1>1, <1>2, <1>4, <1>5, TalkQuiet

-------------------------------------------------------------------------------
\* Where the server goes when it waits.
LEMMA ServerWaits ==
  ASSUME LifeType
  PROVE  /\ \A n, next : next \in {"accept", "count", "visit"} /\ WaitSome(n, next) =>
              /\ To(Server)' = next /\ pc'[Server] \in {"drain", next}
              /\ \A c \in Clients : pc'[c] = pc[c] /\ back'[c] = back[c]
         /\ \A next : WaitAll(Server, next) =>
              /\ To(Server)' = next /\ pc'[Server] = "wait"
              /\ \A c \in Clients : pc'[c] = pc[c] /\ back'[c] = back[c]
         /\ \A i, n, over : NextTurn(i, n, over) =>
              /\ To(Server)' \in {"visit", "disconnect"} /\ pc'[Server] \in {"wait", "drain", "visit"}
              /\ \A c \in Clients : pc'[c] = pc[c] /\ back'[c] = back[c]
<1>1. ASSUME NEW n, NEW next \in {"accept", "count", "visit"}, WaitSome(n, next)
      PROVE  /\ To(Server)' = next /\ pc'[Server] \in {"drain", next}
             /\ \A c \in Clients : pc'[c] = pc[c] /\ back'[c] = back[c]
  <2>1. /\ pc'[Server] \in {"drain", next} /\ back'[Server] = next
        /\ \A c \in Clients : pc'[c] = pc[c] /\ back'[c] = back[c]
    BY <1>1, WaitsServer
  <2>2. QED
    BY <2>1 DEF To, Waiting
<1>2. ASSUME NEW next, WaitAll(Server, next)
      PROVE  /\ To(Server)' = next /\ pc'[Server] = "wait"
             /\ \A c \in Clients : pc'[c] = pc[c] /\ back'[c] = back[c]
  <2>1. /\ pc'[Server] = "wait" /\ back'[Server] = next
        /\ \A c \in Clients : pc'[c] = pc[c] /\ back'[c] = back[c]
    <3>1. "accept" \in {"accept", "count", "visit"}
      OBVIOUS
    <3>2. QED
      BY <1>2, <3>1, WaitsServer
  <2>2. QED
    BY <2>1 DEF To, Waiting
<1>3. ASSUME NEW i, NEW n, NEW over, NextTurn(i, n, over)
      PROVE  /\ To(Server)' \in {"visit", "disconnect"} /\ pc'[Server] \in {"wait", "drain", "visit"}
             /\ \A c \in Clients : pc'[c] = pc[c] /\ back'[c] = back[c]
  <2>1. CASE WaitAll(Server, "disconnect")
    BY <1>2, <2>1
  <2>2. CASE WaitSome(n, "visit")
    BY <1>1, <2>2
  <2>3. QED
    BY <1>3, <2>1, <2>2 DEF NextTurn
<1>4. QED
  BY <1>1, <1>2, <1>3

\* A step of the server that leaves links and channels alone.
LEMMA ServerTalkHere ==
  ASSUME TypeInv, TalkInv, FlowInv', NEW B, Effects({}, B), \A c \in Clients : K(c) \notin B,
         \A c \in Clients : pc'[c] = pc[c] /\ back'[c] = back[c],
         UNCHANGED <<link, events>>,
         To(Server) # "count", To(Server)' # "count", estCnt' = estCnt, ServerStage'
  PROVE  TalkInv'
<1>1. \A c \in Clients : Queued("ESTABLISHED", c)' => Queued("ESTABLISHED", c)
  BY DEF Queued
<1>2. QED
  BY <1>1, ServerTalk

\* Every client has been told when the establishments are counted.
LEMMA AllTold ==
  ASSUME TypeInv, TalkInv
  PROVE  /\ Cardinality(Told) = ClientNum => Told = Clients
         /\ Told # Clients => Cardinality(Told) < ClientNum
         /\ IsFiniteSet(Told) /\ Cardinality(Told) \in Nat /\ ClientNum \in Nat \ {0}
<1>1. Told \subseteq Clients /\ IsFiniteSet(Clients) /\ Cardinality(Clients) = ClientNum
      /\ ClientNum \in Nat \ {0}
  BY EndsFinite DEF Told
<1>2. IsFiniteSet(Told) /\ Cardinality(Told) <= ClientNum
      /\ (Cardinality(Told) = Cardinality(Clients) => Told = Clients)
  BY <1>1, FS_Subset
<1>3. Cardinality(Told) \in Nat
  BY <1>2, FS_CardinalityType
<1>4. QED
  BY <1>1, <1>2, <1>3

\* The server's steps before it has all clients.
LEMMA ServerBefore ==
  ASSUME TypeInv, TalkInv, Kept, TellAddress \/ OnConnectRequest \/ Accept
  PROVE  TalkInv'
<1>0. /\ WakeType /\ LifeInv /\ LifeType /\ OnceEach /\ EstInv /\ ServerStage
      /\ pc \in [Procs -> States] /\ events \in [Procs -> Seq(Happenings)] /\ link \in [Clients -> Links]
      /\ Server \in Procs /\ Clients \subseteq Procs /\ Server \notin Clients /\ clt \in Clients
      /\ ClientNum \in Nat \ {0} /\ estCnt \in Nat
  BY Owners, EndsFinite DEF TypeInv, LifeInv, LifeType, WakeType, TalkInv
<1>1. CASE TellAddress
  <2>1. FlowInv' /\ Effects({}, {})
    BY <1>1, ServerFlow
  <2>2. /\ pc[Server] = "tell" /\ pc'[Server] = "events" /\ UNCHANGED <<link, events, estCnt, back>>
        /\ \A c \in Clients : pc'[c] = pc[c] /\ back'[c] = back[c]
    BY <1>0, <1>1 DEF TellAddress, cmVars, countVars, pollVars
  <2>3. To(Server) = "tell" /\ To(Server)' = "events" /\ estCnt' = 0
    BY <1>0, <2>2 DEF To, Waiting, ServerStage
  <2>4. ~Returned'
    BY <1>0, <2>3 DEF Returned
  <2>5. ServerStage'
    BY <2>2, <2>3, <2>4 DEF ServerStage
  <2>6. QED
    BY <2>1, <2>2, <2>3, <2>5, ServerTalkHere
<1>2. CASE OnConnectRequest
  <2>1. PICK c \in Clients : FlowInv' /\ Effects({}, {S(c)})
    BY <1>2, ServerFlow
  <2>2. /\ pc[Server] = "events" /\ NextEvent(Server, "CONNECT_REQUEST")
        /\ events' = Took(Server) /\ WaitSome(rss[Server] + 1, "accept")
        /\ UNCHANGED <<link, estCnt>>
    BY <1>2 DEF OnConnectRequest, countVars
  <2>3. /\ To(Server) = "events" /\ To(Server)' = "accept" /\ pc'[Server] \in {"drain", "accept"}
        /\ \A d \in Clients : pc'[d] = pc[d] /\ back'[d] = back[d]
    BY <1>0, <2>2, ServerWaits, ServerPlace
  <2>4. ~Returned'
    BY <2>3 DEF Returned
  <2>5. ServerStage'
    BY <2>3, <2>4 DEF ServerStage
  <2>6. \A d \in Clients : Queued("ESTABLISHED", d)' => Queued("ESTABLISHED", d)
    <3>1. events'[Server] = Tail(events[Server])
      BY <1>0, <2>2 DEF Took
    <3>2. QED
      BY <1>0, <2>2, <3>1, QueueTake
  <2>7. \A d \in Clients : K(d) \notin {S(c)}
    BY EndNames
  <2>8. QED
    BY <2>1, <2>2, <2>3, <2>5, <2>6, <2>7, ServerTalk
<1>3. CASE Accept
  <2>1. FlowInv' /\ Effects({}, {})
    BY <1>3, ServerFlow
  <2>2. /\ pc[Server] = "accept" /\ pc'[Server] = "events" /\ UNCHANGED <<estCnt, back>>
        /\ \A c \in Clients : pc'[c] = pc[c] /\ back'[c] = back[c]
        /\ link' = [link EXCEPT ![clt] = "accepted"] /\ events'[Server] = events[Server]
    BY <1>0, <1>3 DEF Accept, countVars, pollVars
  <2>3. To(Server) = "accept" /\ To(Server)' = "events"
    BY <1>0, <2>2 DEF To, Waiting
  <2>4. link[clt] = "requested"
    <3>1. Accepting /\ ServerLink(clt)
      BY <1>0, <2>2 DEF Accepting, LifeInv
    <3>2. QED
      BY <3>1 DEF ServerLink
  <2>5. ~Returned'
    <3>1. clt \notin Told
      BY <1>0, <2>4 DEF TalkInv, Begun, Told
    <3>2. Cardinality(Told) < ClientNum
      BY <1>0, <3>1, AllTold
    <3>3. estCnt # ClientNum
      BY <1>0, <2>3, <3>2, AllTold DEF EstInv
    <3>4. QED
      BY <2>2, <3>3 DEF Returned
  <2>6. ServerStage'
    BY <2>2, <2>3, <2>5 DEF ServerStage
  <2>7. \A c \in Clients : /\ link'[c] \in Linked <=> link[c] \in Linked
                           /\ link[c] \in {"up", "down"} => link'[c] \in {"up", "down"}
                           /\ Queued("ESTABLISHED", c)' => Queued("ESTABLISHED", c)
    BY <1>0, <2>2, <2>4 DEF Linked, Queued
  <2>8. QED
    BY <2>1, <2>2, <2>3, <2>6, <2>7, ServerTalk
<1>4. QED
  BY <1>1, <1>2, <1>3

\* A connection is established.
LEMMA ServerHears ==
  ASSUME TypeInv, TalkInv, Kept, OnEstablished
  PROVE  TalkInv'
<1>0. /\ WakeType /\ LifeInv /\ LifeType /\ OnceEach /\ EstInv
      /\ pc \in [Procs -> States] /\ events \in [Procs -> Seq(Happenings)]
      /\ Server \in Procs /\ ClientNum \in Nat \ {0} /\ estCnt \in Nat
  BY Owners, EndsFinite DEF TypeInv, LifeInv, LifeType, WakeType, TalkInv
<1>1. PICK d \in Clients : /\ d = Head(events[Server]).clt /\ Queued("ESTABLISHED", d)
                           /\ FlowInv' /\ Effects({S(d)}, {S(d)})
                           /\ Sends(S(d)) = 0 /\ Sends(S(d))' > 0
  BY ServerFlow
<1>2. /\ pc[Server] = "events" /\ NextEvent(Server, "ESTABLISHED")
      /\ events' = Took(Server) /\ WaitSome(rss[Server] + 1, "count")
      /\ UNCHANGED <<link, estCnt>>
  BY DEF OnEstablished, countVars
<1>3. /\ To(Server) = "events" /\ To(Server)' = "count" /\ pc'[Server] \in {"drain", "count"}
      /\ \A c \in Clients : pc'[c] = pc[c] /\ back'[c] = back[c]
  BY <1>0, <1>2, ServerWaits, ServerPlace
<1>4. ServerStage'
  <2>1. ~Returned'
    BY <1>3 DEF Returned
  <2>2. QED
    BY <1>3, <2>1 DEF ServerStage
<1>5. /\ \A c \in Clients : Queued("ESTABLISHED", c)' => Queued("ESTABLISHED", c)
      /\ ~Queued("ESTABLISHED", d)'
  <2>1. events'[Server] = Tail(events[Server])
    BY <1>0, <1>2 DEF Took
  <2>2. PICK c \in Clients : /\ Head(events[Server]) = Event("ESTABLISHED", c)
                             /\ ~Queued("ESTABLISHED", c)'
    BY <1>0, <1>2, <2>1, QueueTake
  <2>3. c = d
    BY <1>1, <2>2, EventNames
  <2>4. QED
    BY <1>0, <1>2, <2>1, <2>2, <2>3, QueueTake
<1>6. \A c \in Clients : ClientStage(c)'
  <2>1. \A c \in Clients : K(c) \notin {S(d)}
    BY EndNames
  <2>2. QED
    BY <1>1, <1>2, <1>3, <2>1, StageKept
<1>7. \A c \in Clients : Begun(c)'
  <2>1. ASSUME NEW c \in Clients, c # d PROVE Begun(c)'
    <3>1. K(c) \notin {S(d)} /\ S(c) \notin {S(d)}
      BY <2>1, EndNames
    <3>2. QED
      BY <1>1, <1>2, <1>5, <3>1, BegunKept
  <2>2. Begun(d)'
    <3>1. Sends(K(d))' > 0 <=> Sends(K(d)) > 0
      BY <1>1, EndNames DEF Effects
    <3>2. link[d] \in {"up", "down"}
      BY <1>0, <1>1 DEF LifeInv, ServerLink
    <3>3. Begun(d)
      BY DEF TalkInv
    <3>4. QED
      BY <1>2, <1>5, <3>1, <3>2, <3>3 DEF Begun
  <2>3. QED
    BY <2>1, <2>2
<1>8. EstInv'
  <2>1. d \notin Told
    BY <1>1 DEF Told
  <2>2. Told' = Told \cup {d}
    <3>1. \A c \in Clients : c # d => (Sends(S(c))' > 0 <=> Sends(S(c)) > 0)
      BY <1>1, EndNames DEF Effects
    <3>2. QED
      BY <1>1, <3>1 DEF Told
  <2>3. Cardinality(Told') = Cardinality(Told) + 1
    BY <2>1, <2>2, AllTold, FS_AddElement
  <2>4. QED
    BY <1>0, <1>2, <1>3, <2>3 DEF EstInv
<1>9. QED
  BY <1>1, <1>4, <1>6, <1>7, <1>8 DEF TalkInv

\* An establishment is counted.
LEMMA ServerCounts ==
  ASSUME TypeInv, TalkInv, Kept, CountEstablished
  PROVE  TalkInv'
<1>0. /\ WakeType /\ LifeInv /\ LifeType /\ EstInv /\ estCnt \in Nat
      /\ pc \in [Procs -> States] /\ Server \in Procs /\ Clients \subseteq Procs /\ Server \notin Clients
  BY Owners DEF TypeInv, LifeInv, LifeType, WakeType, TalkInv
<1>1. FlowInv' /\ Effects({}, {})
  BY ServerFlow
<1>2. /\ pc[Server] = "count" /\ estCnt' = estCnt + 1 /\ UNCHANGED <<link, events>>
  BY DEF CountEstablished, cmVars
<1>3. To(Server) = "count"
  BY <1>0, <1>2, ServerPlace
<1>4. /\ \/ To(Server)' = "ready" /\ estCnt' = ClientNum /\ pc'[Server] = "wait"
         \/ To(Server)' = "events" /\ estCnt' # ClientNum /\ pc'[Server] = "events"
      /\ \A c \in Clients : pc'[c] = pc[c] /\ back'[c] = back[c]
  <2>1. CASE estCnt' = ClientNum
    <3>1. WaitAll(Server, "ready")
      BY <2>1 DEF CountEstablished
    <3>2. QED
      BY <1>0, <2>1, <3>1, ServerWaits
  <2>2. CASE estCnt' # ClientNum
    <3>1. pc' = [pc EXCEPT ![Server] = "events"] /\ back' = back
      BY <2>2 DEF CountEstablished, pollVars
    <3>2. pc'[Server] = "events" /\ \A c \in Clients : pc'[c] = pc[c]
      BY <1>0, <3>1
    <3>3. To(Server)' = "events"
      BY <3>2 DEF To, Waiting
    <3>4. QED
      BY <2>2, <3>1, <3>2, <3>3
  <2>3. QED
    BY <2>1, <2>2
<1>5. ServerStage'
  <2>1. ~Returned'
    BY <1>4 DEF Returned
  <2>2. QED
    BY <1>4, <2>1 DEF ServerStage
<1>6. \A c \in Clients : Begun(c)' /\ ClientStage(c)'
  <2>1. \A c \in Clients : Queued("ESTABLISHED", c)' => Queued("ESTABLISHED", c)
    BY <1>2 DEF Queued
  <2>2. QED
    BY <1>1, <1>2, <1>4, <2>1, BegunKept, StageKept
<1>7. EstInv'
  <2>1. Told' = Told
    BY <1>1, ToldKept
  <2>2. QED
    BY <1>0, <1>2, <1>3, <1>4, <2>1 DEF EstInv
<1>8. QED
  BY <1>1, <1>5, <1>6, <1>7 DEF TalkInv

-------------------------------------------------------------------------------
\* The server stops waiting.
LEMMA ServerDrained ==
  ASSUME TypeInv, TalkInv, Kept, Drained(Server)
  PROVE  TalkInv'
<1>0. /\ LifeInv /\ LifeType /\ EstInv /\ ServerAt /\ ServerStage /\ EndsOk
      /\ pc \in [Procs -> States] /\ Server \in Procs /\ Clients \subseteq Procs /\ Server \notin Clients
      /\ \A c \in Clients : S(c) \in Ends /\ Owner(S(c)) = Server
  BY Owners, EndNames, OtherNames DEF TypeInv, LifeInv, LifeType, TalkInv, FlowInv
<1>1. FlowInv' /\ Effects({}, {})
  <2>1. UNCHANGED <<recvs, posted, flying, cqSend, cqRecv, sendState, recvState, recvMsg, peer,
                    rss, readyCnt, ordered, life>>
    BY DEF Drained, connVars, nicVars
  <2>2. QED
    BY <2>1, FlowQuiet DEF TalkInv
<1>2. /\ pc[Server] \in {"wait", "drain"} /\ pc'[Server] = back[Server]
      /\ \A c \in Clients : pc'[c] = pc[c] /\ back'[c] = back[c]
      /\ UNCHANGED <<link, events, estCnt, back>>
  BY <1>0 DEF Drained, Waiting, countVars, cmVars
<1>3. /\ back[Server] \in {"ready", "disconnect", "accept", "count", "visit"}
      /\ back[Server] \in {"ready", "disconnect"} => pc[Server] = "wait" /\ goal[Server] = 0
  BY <1>0, <1>2 DEF ServerAt
<1>4. To(Server) = back[Server] /\ To(Server)' = back[Server]
  BY <1>2, <1>3 DEF To, Waiting
<1>5. /\ \A c \in Clients : Ready(S(c)) => Ready(S(c))'
      /\ \A c \in Clients : Outstanding(S(c)) = 0 => Outstanding(S(c))' = 0
  BY <1>0, <1>1 DEF Effects
<1>6. ServerStage'
  <2>1. To(Server) \in {"ready", "disconnect"} => \A c \in Clients : Outstanding(S(c)) = 0
    BY <1>0, <1>3, <1>4, NothingLeft
  <2>2. To(Server) = "ready" => \A c \in Clients : Ready(S(c))
    <3>1. SUFFICES ASSUME To(Server) = "ready", NEW c \in Clients PROVE Ready(S(c))
      OBVIOUS
    <3>2. Cardinality(Told) = ClientNum
      BY <1>0, <3>1 DEF ServerStage, EstInv
    <3>3. Sends(S(c)) > 0
      BY <3>2, AllTold DEF Told
    <3>4. QED
      BY <1>0, <2>1, <3>1, <3>3, QuietReady
  <2>3. ~Returned'
    BY <1>2, <1>3 DEF Returned
  <2>4. To(Server) \in {"ready", "visit", "disconnect"} => estCnt' = ClientNum
    BY <1>0, <1>2 DEF ServerStage
  <2>5. To(Server) \in {"visit", "disconnect"} => \A c \in Clients : Ready(S(c))
    BY <1>0 DEF ServerStage
  <2>6. pc'[Server] = To(Server) /\ pc'[Server] # "tell"
    BY <1>2, <1>3, <1>4
  <2>7. QED
    BY <1>4, <1>5, <2>1, <2>2, <2>3, <2>4, <2>5, <2>6 DEF ServerStage
<1>7. EstInv'
  <2>1. Told' = Told
    BY <1>1, ToldKept
  <2>2. QED
    BY <1>0, <1>2, <1>4, <2>1 DEF EstInv
<1>8. \A c \in Clients : Begun(c)' /\ ClientStage(c)'
  <2>1. \A c \in Clients : Queued("ESTABLISHED", c)' => Queued("ESTABLISHED", c)
    BY <1>2 DEF Queued
  <2>2. QED
    BY <1>1, <1>2, <2>1, BegunKept, StageKept
<1>9. QED
  BY <1>1, <1>6, <1>7, <1>8 DEF TalkInv

\* The loop of the server, from the end of its initialisation.
LEMMA ServerLoops ==
  ASSUME TypeInv, TalkInv, Kept, ServerReady \/ \E i \in Clients : Visit(i)
  PROVE  TalkInv'
<1>0. /\ LifeInv /\ LifeType /\ WakeType /\ ServerStage /\ ReadyInv
      /\ Server \in Procs /\ \A c \in Clients : S(c) \in Ends
  BY Owners, EndNames DEF TypeInv, LifeInv, TalkInv, FlowInv
<1>1. \E i \in Clients : FlowInv' /\ Effects({}, {S(i)})
  <2>1. CASE ServerReady
    BY <2>1, Owners, ServerFlow, EffectsMore
  <2>2. ASSUME NEW i \in Clients, Visit(i) PROVE FlowInv' /\ Effects({}, {S(i)})
    BY <2>2, ServerFlow, EffectsMore DEF Visit
  <2>3. QED
    BY <2>1, <2>2
<1>2. PICK i \in Clients : FlowInv' /\ Effects({}, {S(i)})
  BY <1>1
<1>3. /\ \E j, n, over : NextTurn(j, n, over)
      /\ pc[Server] \in {"ready", "visit"} /\ UNCHANGED <<link, events, estCnt>>
  BY DEF ServerReady, Visit, VisitReads, VisitAcks, VisitEnds, VisitNothing, Visits, cmVars,
      countVars
<1>4. /\ To(Server)' \in {"visit", "disconnect"} /\ pc'[Server] \in {"wait", "drain", "visit"}
      /\ \A c \in Clients : pc'[c] = pc[c] /\ back'[c] = back[c]
  BY <1>0, <1>3, ServerWaits
<1>5. To(Server) \in {"ready", "visit"}
  BY <1>3 DEF To, Waiting
<1>6. \A c \in Clients : Ready(S(c)) /\ Ready(S(c))'
  <2>1. pc[Server] = "ready" \/ To(Server) = "visit"
    BY <1>3 DEF To, Waiting
  <2>2. \A c \in Clients : Ready(S(c))
    BY <1>0, <2>1 DEF ServerStage
  <2>3. \A e \in Ends : Ready(e) => Ready(e)'
    BY <1>2 DEF Effects
  <2>4. QED
    BY <1>0, <2>2, <2>3
<1>7. ServerStage'
  <2>1. ~Returned'
    BY <1>4 DEF Returned
  <2>2. estCnt' = ClientNum
    BY <1>0, <1>3, <1>5 DEF ServerStage
  <2>3. QED
    BY <1>4, <1>6, <2>1, <2>2 DEF ServerStage
<1>8. \A c \in Clients : K(c) \notin {S(i)}
  BY EndNames
<1>9. QED
  BY <1>2, <1>3, <1>4, <1>5, <1>7, <1>8, ServerTalkHere

\* The server's share of the tear-down.
LEMMA ServerEnds ==
  ASSUME TypeInv, TalkInv, Kept, ServerDisconnect \/ OnDisconnect
  PROVE  TalkInv'
<1>0. /\ WakeType /\ LifeInv /\ LifeType /\ OnceEach /\ ServerStage
      /\ pc \in [Procs -> States] /\ events \in [Procs -> Seq(Happenings)] /\ link \in [Clients -> Links]
      /\ Server \in Procs /\ Clients \subseteq Procs /\ Server \notin Clients
  BY Owners DEF TypeInv, LifeInv, LifeType, WakeType, TalkInv
<1>1. FlowInv' /\ Effects({}, {})
  BY ServerFlow
<1>2. /\ \A c \in Clients : pc'[c] = pc[c] /\ back'[c] = back[c]
      /\ UNCHANGED <<estCnt, back>>
  BY <1>0 DEF ServerDisconnect, OnDisconnect, countVars, pollVars
<1>3. /\ \A c \in Clients : Ready(S(c)) => Ready(S(c))'
      /\ \A c \in Clients : Outstanding(S(c)) = 0 => Outstanding(S(c))' = 0
  BY <1>1, EndNames DEF Effects
<1>4. CASE ServerDisconnect
  <2>1. pc[Server] = "disconnect" /\ pc'[Server] \in {"disconnect", "events"}
    BY <1>0, <1>4 DEF ServerDisconnect
  <2>2. To(Server) = "disconnect" /\ To(Server)' \in {"disconnect", "events"}
    BY <2>1 DEF To, Waiting
  <2>3. estCnt = ClientNum /\ \A c \in Clients : Ready(S(c)) /\ Outstanding(S(c)) = 0
    BY <1>0, <2>1, <2>2 DEF ServerStage
  <2>4. ServerStage'
    BY <1>2, <1>3, <2>1, <2>2, <2>3 DEF ServerStage
  <2>5. PICK d \in Clients : Disconnect(d)
    BY <1>4 DEF ServerDisconnect
  <2>6. \A c \in Clients : /\ link'[c] = link[c] \/ (link[c] = "up" /\ link'[c] = "down")
                           /\ Queued("ESTABLISHED", c)' => Queued("ESTABLISHED", c)
    BY <1>0, <2>5, DisconnectLife
  <2>7. \A c \in Clients : /\ link'[c] \in Linked <=> link[c] \in Linked
                           /\ link[c] \in {"up", "down"} => link'[c] \in {"up", "down"}
                           /\ Queued("ESTABLISHED", c)' => Queued("ESTABLISHED", c)
    BY <2>6 DEF Linked
  <2>8. QED
    BY <1>1, <1>2, <2>2, <2>4, <2>7, ServerTalk
<1>5. CASE OnDisconnect
  <2>1. /\ pc[Server] = "events" /\ pc'[Server] \in {"gone", "events"} /\ link' = link
        /\ NextEvent(Server, "DISCONNECTED") /\ events'[Server] = Tail(events[Server])
    BY <1>0, <1>5 DEF OnDisconnect, Took
  <2>2. To(Server) = "events" /\ To(Server)' \in {"gone", "events"}
    BY <2>1 DEF To, Waiting
  <2>3. ServerStage'
    <3>1. Returned' => Returned
      BY <1>2, <2>1 DEF Returned
    <3>2. QED
      BY <1>0, <1>2, <1>3, <2>1, <2>2, <3>1 DEF ServerStage
  <2>4. \A c \in Clients : Queued("ESTABLISHED", c)' => Queued("ESTABLISHED", c)
    BY <1>0, <2>1, QueueTake
  <2>5. QED
    BY <1>1, <1>2, <2>1, <2>2, <2>3, <2>4, ServerTalk
<1>6. QED
  BY <1>4, <1>5

\* Every step.
LEMMA TalkStep ==
  ASSUME TypeInv, LifeInv', TalkInv, [Next]_vars
  PROVE  TalkInv'
<1>0. Kept
  BY MemoryKept DEF TypeInv, Kept
<1>1. CASE UNCHANGED vars
  <2>1. FlowInv' /\ Effects({}, {})
    BY <1>0, <1>1, FlowQuiet DEF TalkInv, vars, connVars, nicVars
  <2>2. UNCHANGED <<pc, back, estCnt, link, events>>
    BY <1>1 DEF vars, countVars, cmVars, pollVars
  <2>3. QED
    BY <2>1, <2>2, TalkQuiet DEF Queued
<1>2. ASSUME NEW p \in Procs, Polls(p) PROVE TalkInv'
  <2>1. CASE ~Drained(p)
    BY <1>0, <1>2, <2>1, PollsTalk
  <2>2. CASE p = Server /\ Drained(p)
    BY <1>0, <2>2, ServerDrained
  <2>3. CASE p \in Clients /\ Drained(p)
    BY <1>0, <2>3, ClientDrained
  <2>4. p = Server \/ p \in Clients
    BY EndsFinite DEF Procs, Clients, Server
  <2>5. QED
    BY <2>1, <2>2, <2>3, <2>4
<1>3. CASE ServerStep
  <2>1. CASE Polls(Server)
    BY <1>2, <2>1, Owners
  <2>2. CASE TellAddress \/ OnConnectRequest \/ Accept
    BY <1>0, <2>2, ServerBefore
  <2>3. CASE OnEstablished
    BY <1>0, <2>3, ServerHears
  <2>4. CASE CountEstablished
    BY <1>0, <2>4, ServerCounts
  <2>5. CASE ServerReady \/ \E i \in Clients : Visit(i)
    BY <1>0, <2>5, ServerLoops
  <2>6. CASE ServerDisconnect \/ OnDisconnect
    BY <1>0, <2>6, ServerEnds
  <2>7. QED
    BY <1>3, <2>1, <2>2, <2>3, <2>4, <2>5, <2>6 DEF ServerStep
<1>4. ASSUME NEW d \in Clients, Client(d) PROVE TalkInv'
  <2>1. CASE Polls(d)
    BY <1>2, <2>1, Owners
  <2>2. CASE ConnectToServer(d) \/ OnAddrResolved(d) \/ OnRouteResolved(d) \/ OnUnknownEvent(d)
    BY <1>0, <2>2, ClientBefore
  <2>3. CASE \/ OnConnection(d) \/ ClientReady(d) \/ Publish(d) \/ IoDone(d) \/ ClientDisconnect(d)
             \/ OnDisconnected(d)
    BY <1>0, <2>3, ClientDuring
  <2>4. QED
    BY <1>4, <2>1, <2>2, <2>3 DEF Client
<1>5. CASE Manager
  BY <1>0, <1>5, ManagerTalk
<1>6. ASSUME NEW e \in Ends, Nic(e) PROVE TalkInv'
  BY <1>0, <1>6, NicTalk
<1>7. QED
  BY <1>1, <1>3, <1>4, <1>5, <1>6 DEF Next, Others, Terminating

-------------------------------------------------------------------------------
\* At the start nothing is under way.
LEMMA TalkStart == Init => TalkInv
<1> SUFFICES ASSUME Init PROVE TalkInv
  OBVIOUS
<1>0. ClientNum \in Nat \ {0} /\ Server \in Procs /\ Server \notin Clients
  BY EndsFinite, Owners
<1>1. ASSUME NEW e \in Ends
      PROVE  /\ Sends(e) = 0 /\ Recvs(e) = 0 /\ Outstanding(e) = 0 /\ ~Ready(e)
             /\ life[e] = "none" /\ posted[e] = << >> /\ cqRecv[e] + recvState[e] = 0 /\ recvState[e] = 0
  <2>1. /\ sendState[e] = 0 /\ recvState[e] = 0 /\ recvs[e] = 0 /\ posted[e] = << >> /\ flying[e] = 0
        /\ cqSend[e] = 0 /\ cqRecv[e] = 0 /\ life[e] = "none"
    BY <1>1 DEF Init
  <2>2. Len(posted[e]) = 0
    BY <2>1
  <2>3. QED
    BY <2>1, <2>2 DEF Sends, Recvs, Outstanding, Ready
<1>2. EndsOk
  <2>1. SUFFICES ASSUME NEW e \in Ends PROVE EndOk(e)
    BY DEF EndsOk
  <2>2. \A i \in DOMAIN posted[e] : PostedOk(e, posted[e][i])
    BY <1>1
  <2>3. QED
    BY <1>1, <2>2 DEF EndOk
<1>3. RssInv
  <2>1. SUFFICES ASSUME NEW p \in Procs
                 PROVE  IsFiniteSet(Slots(EndsOf(p), OutOf(p))) /\ rss[p] = Cardinality(Slots(EndsOf(p), OutOf(p)))
    BY DEF RssInv
  <2>2. \A e \in EndsOf(p) : OutOf(p)[e] = 0
    BY <1>1, EndsFinite DEF OutOf
  <2>3. PICK f : f = OutOf(p)
    OBVIOUS
  <2>4. Slots(EndsOf(p), f) = {}
    BY <2>2, <2>3 DEF Slots
  <2>5. rss[p] = 0
    BY DEF Init
  <2>6. QED
    BY <2>3, <2>4, <2>5, FS_EmptySet
<1>4. ReadyInv
  <2>1. ASSUME NEW p \in Procs PROVE readyCnt[p] = Cardinality(ReadyAt(p))
    <3>1. ReadyAt(p) = {}
      BY <1>1, EndsFinite DEF ReadyAt
    <3>2. readyCnt[p] = 0
      BY DEF Init
    <3>3. QED
      BY <3>1, <3>2, FS_EmptySet
  <2>2. QED
    BY <2>1 DEF ReadyInv
<1>5. OrderedInv
  BY <1>1, EndNames DEF Init, OrderedInv
<1>6. pc[Server] = "tell" /\ To(Server) = "tell" /\ estCnt = 0
  BY <1>0 DEF Init, To, Waiting
<1>7. EstInv
  <2>1. Told = {}
    BY <1>1, EndNames DEF Told
  <2>2. QED
    BY <1>6, <2>1, FS_EmptySet DEF EstInv
<1>8. ServerStage
  BY <1>6 DEF ServerStage, Returned
<1>9. \A c \in Clients : Begun(c) /\ ClientStage(c)
  <2>1. \A c \in Clients : link[c] = "none"
    BY DEF Init
  <2>2. QED
    BY <1>1, <2>1, EndNames DEF Begun, ClientStage, Linked
<1>10. MrInv
  BY <1>1 DEF MrInv, Mr
<1>11. QED
  BY <1>2, <1>3, <1>4, <1>5, <1>7, <1>8, <1>9, <1>10 DEF TalkInv, FlowInv

\* Always.
LEMMA TalkAlways == Spec => []TalkInv
<1>1. TypeInv /\ TypeInv' /\ TalkInv /\ [Next]_vars => TalkInv'
  BY TalkStep DEF TypeInv
<1>2. QED
  BY <1>1, TalkStart, TypeInvAlways, PTL DEF Spec

\* request_stack_size is, in each process, the number of requests and receives
\* of all its connections that have been posted and not been taken as
\* completions: no path posts without counting or counts without posting.
THEOREM RequestsCountedCorrect == Spec => []RequestsCounted
<1>1. TypeInv /\ TalkInv => RequestsCounted
  BY SlotsOf DEF TalkInv, FlowInv, RssInv, RequestsCounted
<1>2. QED
  BY <1>1, TypeInvAlways, TalkAlways, PTL

\* The ends of a process.
LEMMA EndsAt ==
  /\ EndsOf(Server) = {S(c) : c \in Clients} /\ Cardinality(EndsOf(Server)) = ClientNum
  /\ \A c \in Clients : EndsOf(c) = {K(c)}
<1>1. \A c \in Clients : /\ K(c) \in Ends /\ S(c) \in Ends /\ Owner(K(c)) = c /\ Owner(S(c)) = Server
                         /\ c # Server
  BY EndNames, OtherNames, Owners
<1>2. \A e \in Ends : \E c \in Clients : e = K(c) \/ e = S(c)
  BY EndNames
<1>3. EndsOf(Server) = {S(c) : c \in Clients}
  BY <1>1, <1>2 DEF EndsOf
<1>4. \A c \in Clients : EndsOf(c) = {K(c)}
  BY <1>1, <1>2 DEF EndsOf
<1>5. EndsOf(Server) = {"server"} \X Clients
  BY <1>3 DEF S
<1>6. Cardinality({"server"} \X Clients) = ClientNum
  <2>1. IsFiniteSet({"server"}) /\ Cardinality({"server"}) = 1
    BY FS_Singleton
  <2>2. Cardinality({"server"} \X Clients) = Cardinality({"server"}) * Cardinality(Clients)
    BY <2>1, EndsFinite, FS_Product
  <2>3. ClientNum \in Nat /\ Cardinality(Clients) = ClientNum
    BY EndsFinite
  <2>4. QED
    BY <2>1, <2>2, <2>3
<1>7. QED
  BY <1>3, <1>4, <1>5, <1>6

\* The server has counted all clients if, and only if, all are ready.
LEMMA AllReady ==
  ASSUME TalkInv
  PROVE  readyCnt[Server] = ClientNum <=> \A c \in Clients : Ready(S(c))
<1>1. ReadyAt(Server) \subseteq EndsOf(Server) /\ IsFiniteSet(EndsOf(Server))
  BY EndsFinite DEF ReadyAt
<1>2. readyCnt[Server] = Cardinality(ReadyAt(Server))
  BY Owners DEF TalkInv, FlowInv, ReadyInv
<1>3. Cardinality(ReadyAt(Server)) = Cardinality(EndsOf(Server)) => ReadyAt(Server) = EndsOf(Server)
  BY <1>1, FS_Subset
<1>4. ReadyAt(Server) = EndsOf(Server) <=> \A c \in Clients : Ready(S(c))
  BY EndsAt DEF ReadyAt
<1>5. QED
  BY <1>2, <1>3, <1>4, EndsAt

\* The waits for ready_mr_cnt that end both initialisations find it complete:
\* the waits for the requests before them do not end until both messages of
\* every connection have come, in whatever order.
THEOREM ReadyOnTimeCorrect == Spec => []ReadyOnTime
<1>1. TypeInv /\ TalkInv => ReadyOnTime
  <2>1. SUFFICES ASSUME TypeInv, TalkInv, NEW p \in Procs, pc[p] = "ready"
                 PROVE  readyCnt[p] = (IF p = Server THEN ClientNum ELSE 1)
    BY DEF ReadyOnTime
  <2>2. CASE p = Server
    <3>1. \A c \in Clients : Ready(S(c))
      BY <2>1, <2>2 DEF TalkInv, ServerStage
    <3>2. QED
      BY <2>1, <2>2, <3>1, AllReady
  <2>3. CASE p # Server
    <3>1. p \in Clients
      BY <2>3, EndsFinite DEF Procs, Clients, Server
    <3>2. ClientAt(p) /\ ClientStage(p)
      BY <2>1, <3>1 DEF TypeInv, LifeInv, TalkInv
    <3>3. link[p] \in Linked
      BY <2>1, <3>2 DEF ClientAt, Linked
    <3>4. Ready(K(p))
      BY <2>1, <3>2, <3>3 DEF ClientStage
    <3>5. ReadyAt(p) = {K(p)}
      BY <3>1, <3>4, EndsAt DEF ReadyAt
    <3>6. readyCnt[p] = Cardinality({K(p)})
      BY <2>1, <3>5 DEF TalkInv, FlowInv, ReadyInv
    <3>7. QED
      BY <2>3, <3>6, FS_Singleton
  <2>4. QED
    BY <2>2, <2>3
<1>2. QED
  BY <1>1, TypeInvAlways, TalkAlways, PTL

-------------------------------------------------------------------------------
(* Who has written the addresses of the server. *)
FromInv ==
  \A r \in Clients :
    \/ saddr[r].from = None
    \/ r + 1 \in DOMAIN conns /\ saddr[r].from = K(conns[r + 1])

\* Addresses that keep their writer.
LEMMA FromKept ==
  ASSUME FromInv, \A r \in Clients : saddr'[r].from = saddr[r].from,
         \A r : r + 1 \in DOMAIN conns => r + 1 \in DOMAIN conns' /\ conns'[r + 1] = conns[r + 1]
  PROVE  FromInv'
BY DEF FromInv

\* An address is written by the client that was told of it.
LEMMA WriteFrom ==
  ASSUME TypeInv, TalkInv, FromInv, NEW e \in Ends, Write(e)
  PROVE  FromInv'
<1>0. /\ saddr \in [Clients -> [signal : {0, 1, 11}, from : Memory]] /\ EndOk(e) /\ conns' = conns
  BY DEF TypeInv, RestType, TalkInv, FlowInv, EndsOk, Write, connVars
<1>1. PICK w : w = Head(posted[e])
  OBVIOUS
<1>2. /\ posted[e] # << >> /\ w.op = "write"
      /\ \/ w.mem[1] = "server" /\ \E s : saddr' = [saddr EXCEPT ![w.mem[2]] = [signal |-> s, from |-> e]]
         \/ w.mem[1] = "client" /\ saddr' = saddr
  BY <1>1 DEF Write
<1>3. \E j \in DOMAIN posted[e] : w = posted[e][j]
  <2>1. PICK q \in Seq(Operations) : q = posted[e]
    BY FlowTyped
  <2>2. q # << >>
    BY <1>2, <2>1
  <2>3. \E j \in DOMAIN q : Head(q) = q[j]
    BY <2>2
  <2>4. QED
    BY <1>1, <2>1, <2>3
<1>4. w.mem = peer[e] /\ recvState[e] > 0
  BY <1>0, <1>2, <1>3 DEF EndOk, PostedOk
<1>5. w.mem = MemoryOf(Other(e)) /\ Sends(Other(e)) > 0
  <2>1. cqRecv[e] + recvState[e] > 0
    BY <1>4, FlowTyped
  <2>2. QED
    BY <1>0, <1>4, <2>1 DEF EndOk
<1>6. CASE w.mem[1] = "client" /\ saddr' = saddr
  BY <1>0, <1>6, FromKept
<1>7. CASE w.mem[1] = "server"
  <2>1. PICK s : saddr' = [saddr EXCEPT ![w.mem[2]] = [signal |-> s, from |-> e]]
    BY <1>2, <1>7
  <2>2. PICK c \in Clients : e = K(c) \/ e = S(c)
    BY EndNames
  <2>3. e = K(c)
    <3>1. SUFFICES ASSUME e = S(c) PROVE FALSE
      BY <2>2
    <3>2. w.mem = K(c)
      BY <1>5, <3>1, OtherNames
    <3>3. QED
      BY <1>7, <3>2 DEF K
  <2>4. Other(e) = S(c)
    BY <2>3, OtherNames
  <2>5. w.mem = <<"server", Region(c)>>
    BY <1>5, <2>4 DEF MemoryOf, S
  <2>6. life[S(c)] # "none"
    <3>1. Sends(S(c)) > 0 /\ EndOk(S(c)) /\ S(c) \in Ends
      BY <1>5, <2>4, EndNames DEF TalkInv, FlowInv, EndsOk
    <3>2. QED
      BY <3>1 DEF EndOk
  <2>7. Region(c) \in Clients /\ Region(c) + 1 \in DOMAIN conns /\ conns[Region(c) + 1] = c
    BY <2>6, RegionOf DEF TypeInv
  <2>8. PICK x \in Clients : x = Region(c)
    BY <2>7
  <2>9. saddr' = [saddr EXCEPT ![x] = [signal |-> s, from |-> K(c)]]
    BY <2>1, <2>3, <2>5, <2>8
  <2>10. QED
    BY <1>0, <2>7, <2>8, <2>9 DEF FromInv
<1>8. QED
  BY <1>2, <1>6, <1>7

\* Every step.
LEMMA FromStep ==
  ASSUME TypeInv, TalkInv, FromInv, [Next]_vars
  PROVE  FromInv'
<1>0. saddr \in [Clients -> [signal : {0, 1, 11}, from : Memory]] /\ conns \in Seq(Clients)
  BY DEF TypeInv, RestType, LifeInv, LifeType
<1>1. CASE \E e \in Ends : Write(e)
  BY <1>1, WriteFrom
<1>2. CASE OnConnectRequest
  <2>1. PICK c : conns' = Append(conns, c)
    BY <1>2 DEF OnConnectRequest
  <2>2. \A r : r \in DOMAIN conns => r \in DOMAIN conns' /\ conns'[r] = conns[r]
    BY <1>0, <2>1
  <2>3. saddr' = saddr
    BY <1>2 DEF OnConnectRequest, addrVars
  <2>4. QED
    BY <2>2, <2>3, FromKept
<1>3. CASE \E i \in Clients : VisitAcks(i)
  <2>1. PICK i \in Clients : VisitAcks(i)
    BY <1>3
  <2>2. saddr' = [saddr EXCEPT ![AddrAt(i)].signal = 0] /\ conns' = conns
    BY <2>1 DEF VisitAcks, Visits
  <2>3. PICK x : x = AddrAt(i)
    OBVIOUS
  <2>4. \A r \in Clients : saddr'[r].from = saddr[r].from
    BY <1>0, <2>2, <2>3
  <2>5. QED
    BY <2>2, <2>4, FromKept
<1>4. CASE UNCHANGED <<saddr, conns>>
  BY <1>4, FromKept
<1>5. CASE ~(\E e \in Ends : Write(e)) /\ ~OnConnectRequest /\ ~(\E i \in Clients : VisitAcks(i))
  <2>1. CASE ServerStep
    BY <1>4, <1>5, <2>1 DEF ServerStep, TellAddress, Accept, OnEstablished, CountEstablished,
      ServerReady, Visit, VisitReads, VisitEnds, VisitNothing, Visits, ServerDisconnect,
        OnDisconnect,
      Polls, GetCqEvent, PollEmpty, Drained, PollSend, PollRecv, connVars, addrVars
  <2>2. CASE \E c \in Clients : Client(c)
    BY <1>4, <2>2 DEF Client, ConnectToServer, OnAddrResolved, OnRouteResolved, OnConnection,
      OnUnknownEvent, ClientReady, Publish, IoDone, ClientDisconnect, OnDisconnected,
      Polls, GetCqEvent, PollEmpty, Drained, PollSend, PollRecv, connVars, addrVars
  <2>3. CASE Manager
    BY <1>4, <2>3 DEF Manager, connVars, addrVars
  <2>4. CASE \E e \in Ends : Nic(e)
    BY <1>4, <1>5, <2>4 DEF Nic, Deliver, Read, WriteCompletes, connVars, addrVars
  <2>5. CASE UNCHANGED vars
    BY <1>4, <2>5 DEF vars, connVars, addrVars
  <2>6. QED
    BY <2>1, <2>2, <2>3, <2>4, <2>5 DEF Next, Others, Terminating
<1>6. QED
  BY <1>1, <1>2, <1>3, <1>5

\* An end that is ready has sent, and was built.
LEMMA ReadySent ==
  ASSUME TypeInv, TalkInv, NEW c \in Clients, Ready(S(c))
  PROVE  Sends(S(c)) > 0 /\ life[S(c)] # "none" /\ link[c] \in {"up", "down"} /\ ~Queued("ESTABLISHED", c)
<1>1. S(c) \in Ends /\ EndOk(S(c)) /\ Begun(c)
  BY EndNames DEF TalkInv, FlowInv, EndsOk
<1>2. PICK s \in Nat, n \in Nat, k \in Nat, a \in Nat :
         s = sendState[S(c)] /\ n = Len(posted[S(c)]) /\ k = flying[S(c)] /\ a = cqSend[S(c)]
  BY <1>1, FlowTyped
<1>3. s > 0
  BY <1>2 DEF Ready
<1>4. Sends(S(c)) > 0
  <2>1. s + n + k + a > 0
    BY <1>3
  <2>2. Sends(S(c)) = s + n + k + a
    BY <1>2, Zenon DEF Sends
  <2>3. QED
    BY <2>1, <2>2
<1>5. QED
  BY <1>1, <1>4, FlowTyped DEF EndOk, Begun

\* An end that is ready to be written to knows the memory of the other end, and
\* once the server has counted all its clients, the connection and the address
\* it looks at for client i are those of client i: regions are given out in the
\* order of the requests, connections are found in the order of the clients.
THEOREM AcquaintedCorrect == Spec => []Acquainted
<1>1. Init => FromInv
  BY DEF Init, FromInv
<1>2. TypeInv /\ TalkInv /\ FromInv /\ [Next]_vars => FromInv'
  BY FromStep
<1>3. TypeInv /\ TalkInv /\ FromInv => Acquainted
  <2>1. SUFFICES ASSUME TypeInv, TalkInv, FromInv PROVE Acquainted
    OBVIOUS
  <2>2. ASSUME NEW e \in Ends, recvState[e] # 0 PROVE peer[e] = MemoryOf(Other(e))
    <3>1. cqRecv[e] + recvState[e] > 0 /\ recvState[e] > 0 /\ EndOk(e)
      BY <2>1, <2>2, FlowTyped DEF TalkInv, FlowInv, EndsOk
    <3>2. QED
      BY <3>1 DEF EndOk
  <2>3. ASSUME readyCnt[Server] = ClientNum, NEW i \in Clients
        PROVE  ordered[i] = i /\ saddr[AddrAt(i)].from \in {None, <<"client", i>>}
    <3>1. Ready(S(i)) /\ S(i) \in Ends
      BY <2>1, <2>3, AllReady, EndNames
    <3>2. ordered[i] = i
      BY <2>1, <3>1 DEF TalkInv, FlowInv, OrderedInv, Ready
    <3>3. life[S(i)] # "none"
      BY <2>1, <3>1, ReadySent
    <3>4. AddrAt(i) \in Clients /\ conns[AddrAt(i) + 1] = i
      BY <2>1, <3>2, <3>3, RegionOf DEF AddrAt, TypeInv
    <3>5. QED
      BY <2>1, <3>2, <3>4 DEF FromInv, K
  <2>4. QED
    BY <2>2, <2>3 DEF Acquainted
<1>4. QED
  BY <1>1, <1>2, <1>3, TypeInvAlways, TalkAlways, PTL DEF Spec

-------------------------------------------------------------------------------
(***************************************************************************)
(* The tear-down.                                                          *)
(***************************************************************************)

(* The server is past its initialisation. *)
Running ==
  \/ To(Server) \in {"visit", "disconnect", "gone"} \/ pc[Server] = "ready" \/ Returned

(* The signal in the address the server has for c. *)
SignalIs(c, v) ==
  \A r \in Clients : r + 1 \in DOMAIN conns /\ conns[r + 1] = c => saddr[r].signal = v

(* What is posted at an end. *)
Nothing(e) == posted[e] = << >>
One(e, op) == Len(posted[e]) = 1 /\ posted[e][1].op = op
OnlyMr(e)  == \A i \in DOMAIN posted[e] : posted[e][i].op = "mr"

(* Where the client is: it has not published; it has; it is done with it. *)
Fresh(c) == To(c) \in {"start", "events", "ready", "run", "dead"} /\ link[c] # "down"
Sent(c)  == To(c) = "published" /\ link[c] # "down"
Over(c)  == To(c) = "disconnect" \/ (To(c) \in {"events", "gone"} /\ link[c] = "down")

Idle(c) == ~held[c] /\ rest[c] = 0

(* The server has nothing under way with c before it is running. *)
Rested(c) == Running => Outstanding(S(c)) = 0

(* The stages of a publication, its acknowledgement, and the end signal.     *)
Unpublished(c) ==
  /\ Fresh(c) /\ caddr[c] = 0 /\ SignalIs(c, 0) /\ Idle(c) /\ Rested(c) /\ ~done[c]
  /\ OnlyMr(K(c)) /\ OnlyMr(S(c))
Publishing(c) ==
  /\ Sent(c) /\ caddr[c] = 1 /\ SignalIs(c, 0) /\ Idle(c) /\ Rested(c) /\ ~done[c]
  /\ One(K(c), "write") /\ Nothing(S(c))
Published(c) ==
  /\ Sent(c) /\ caddr[c] = 1 /\ SignalIs(c, 1) /\ Idle(c) /\ Rested(c) /\ ~done[c]
  /\ Nothing(K(c)) /\ Nothing(S(c))
Reading(c) ==
  /\ Sent(c) /\ caddr[c] = 1 /\ SignalIs(c, 1) /\ held[c] /\ rest[c] = Outstanding(S(c)) /\ ~done[c]
  /\ Nothing(K(c)) /\ (Nothing(S(c)) \/ One(S(c), "read")) /\ Running
Answering(c) ==
  /\ Sent(c) /\ caddr[c] = 1 /\ SignalIs(c, 0) /\ Idle(c) /\ ~done[c]
  /\ Nothing(K(c)) /\ One(S(c), "write") /\ Running
Answered(c) ==
  /\ Sent(c) /\ caddr[c] = 0 /\ SignalIs(c, 0) /\ Idle(c) /\ ~done[c]
  /\ Nothing(K(c)) /\ Nothing(S(c)) /\ Running
Ending(c) ==
  /\ To(c) = "disconnect" /\ link[c] # "down"
  /\ caddr[c] = 11 /\ SignalIs(c, 0) /\ Idle(c) /\ ~done[c]
  /\ One(K(c), "write") /\ Nothing(S(c)) /\ Running
Ended(c) ==
  /\ Over(c) /\ caddr[c] = 11 /\ SignalIs(c, 11) /\ Idle(c)
  /\ Nothing(K(c)) /\ Nothing(S(c)) /\ Running

Hand(c) ==
  \/ Unpublished(c) \/ Publishing(c) \/ Published(c) \/ Reading(c)
  \/ Answering(c) \/ Answered(c) \/ Ending(c) \/ Ended(c)

(* A region that is not given out yet has no signal. *)
Unused == \A r \in Clients : r + 1 \notin DOMAIN conns => saddr[r].signal = 0

(* The server comes to its disconnections when all clients are done, and     *)
(* frees nothing before them.                                              *)
Doneness ==
  /\ Running => \A c \in Clients : Ready(S(c))
  /\ To(Server) \in {"disconnect", "gone"} \/ Returned => \A c \in Clients : done[c]
  /\ \A c \in Clients : life[S(c)] = "freed" =>
       Outstanding(S(c)) = 0 /\ (Returned \/ pc[Server] = "gone")

TearInv == Doneness /\ Unused /\ \A c \in Clients : Hand(c)

\* A connection goes down at the end.
LEMMA DownEnded ==
  ASSUME NEW c \in Clients, Hand(c), link[c] = "down"
  PROVE  Ended(c)
BY DEF Hand, Unpublished, Publishing, Published, Reading, Answering, Answered, Ending, Fresh, Sent

\* The steps of the others leave the server where it is.
LEMMA ServerStays ==
  ASSUME TypeInv,
         \/ \E d \in Clients : Client(d)
         \/ \E p \in Procs : Polls(p) /\ ~Drained(p)
         \/ Manager \/ (\E e \in Ends : Nic(e)) \/ UNCHANGED vars
  PROVE  pc'[Server] = pc[Server] /\ back'[Server] = back[Server] /\ estCnt' = estCnt
<1>0. pc \in [Procs -> States] /\ back \in [Procs -> States \cup {"none"}]
      /\ Server \in Procs /\ Server \notin Clients
  BY Owners DEF TypeInv, LifeInv, LifeType
<1>1. CASE \E p \in Procs : Polls(p) /\ ~Drained(p)
  BY <1>1 DEF Polls, GetCqEvent, PollEmpty, PollSend, PollRecv, pollVars, countVars
<1>2. ASSUME NEW d \in Clients, Client(d)
      PROVE  pc'[Server] = pc[Server] /\ back'[Server] = back[Server] /\ estCnt' = estCnt
  <2>1. CASE Polls(d) /\ ~Drained(d)
    BY <1>1, <2>1, Owners
  <2>2. CASE ~(Polls(d) /\ ~Drained(d))
    <3>1. d # Server /\ d \in Procs
      BY Owners
    <3>2. \/ ConnectToServer(d) \/ OnAddrResolved(d) \/ OnRouteResolved(d) \/ OnConnection(d)
          \/ OnUnknownEvent(d) \/ ClientReady(d) \/ Publish(d) \/ IoDone(d) \/ OnDisconnected(d)
          \/ ClientDisconnect(d) \/ Drained(d)
      BY <1>2, <2>2 DEF Client, Polls
    <3>3. QED
      BY <1>0, <3>1, <3>2, ClientFrame
  <2>3. QED
    BY <2>1, <2>2
<1>3. CASE Manager \/ (\E e \in Ends : Nic(e)) \/ UNCHANGED vars
  BY <1>3 DEF Manager, Nic, Deliver, Read, Write, WriteCompletes, vars, pollVars, countVars
<1>4. QED
  BY <1>1, <1>2, <1>3

\* Once the server is running it stays so, and before that it waits for what
\* it has posted.
LEMMA RunningStep ==
  ASSUME TypeInv, TypeInv', TalkInv, TalkInv', TearInv, [Next]_vars
  PROVE  /\ Running => Running'
         /\ Running' => Running \/ pc'[Server] = "ready"
<1>0. /\ pc \in [Procs -> States] /\ Server \in Procs /\ ServerStage /\ ServerAt /\ LifeType /\ WakeType
      /\ ServerStage' /\ ClientNum \in Nat \ {0} /\ 0 \in Clients
  BY Owners, EndsFinite DEF TypeInv, LifeInv, LifeType, TalkInv
<1>1. CASE pc'[Server] = pc[Server] /\ back'[Server] = back[Server] /\ estCnt' = estCnt
  BY <1>1 DEF Running, Returned, To, Waiting
<1>2. CASE Drained(Server)
  <2>1. pc[Server] \in {"wait", "drain"} /\ pc'[Server] = back[Server]
        /\ back[Server] \in {"ready", "disconnect", "accept", "count", "visit"}
    BY <1>0, <1>2 DEF Drained, Waiting, ServerAt
  <2>2. To(Server) = back[Server] /\ To(Server)' = back[Server] /\ ~Returned /\ ~Returned'
    BY <2>1 DEF To, Waiting, Returned
  <2>3. QED
    BY <2>1, <2>2 DEF Running
<1>3. CASE TellAddress
  <2>1. pc[Server] = "tell" /\ pc'[Server] = "events" /\ estCnt' = estCnt
    BY <1>0, <1>3 DEF TellAddress, countVars
  <2>2. ~Returned /\ ~Returned' /\ To(Server) = "tell" /\ To(Server)' = "events"
    BY <1>0, <2>1 DEF Returned, To, Waiting, ServerStage
  <2>3. QED
    BY <2>1, <2>2 DEF Running
<1>4. CASE OnConnectRequest \/ OnEstablished
  <2>1. \E c \in Clients : ~Ready(S(c))
    <3>1. PICK c \in Clients : life[S(c)] = "none" \/ Sends(S(c)) = 0
      <4>1. Kept
        BY MemoryKept DEF TypeInv, Kept
      <4>2. QED
        BY <1>4, <4>1, ServerFlow
    <3>2. ~Ready(S(c))
      BY <3>1, ReadySent
    <3>3. QED
      BY <3>2
  <2>2. pc[Server] = "events" /\ To(Server)' \in {"accept", "count"} /\ pc'[Server] \in {"drain", "accept", "count"}
    BY <1>0, <1>4, ServerWaits DEF OnConnectRequest, OnEstablished
  <2>3. To(Server) = "events" /\ ~Returned /\ ~Returned'
    BY <1>0, <2>1, <2>2 DEF Returned, ServerStage, To, Waiting
  <2>4. QED
    BY <2>2, <2>3 DEF Running
<1>5. CASE Accept
  <2>1. pc[Server] = "accept" /\ pc'[Server] = "events" /\ clt \in Clients /\ link'[clt] = "accepted"
    BY <1>0, <1>5 DEF Accept, WakeType
  <2>2. PICK c \in Clients : c = clt
    BY <2>1
  <2>3. ~Ready(S(c))'
    <3>1. Ready(S(c))' => Sends(S(c))' > 0
      <4>1. /\ sendState'[S(c)] \in 0..2 /\ flying'[S(c)] \in Nat /\ cqSend'[S(c)] \in Nat
            /\ posted'[S(c)] \in Seq(Operations)
        BY EndNames DEF TypeInv, RestType, WakeType
      <4>2. PICK s \in Nat, n \in Nat, k \in Nat, a \in Nat :
               /\ s = sendState'[S(c)] /\ n = Len(posted'[S(c)]) /\ k = flying'[S(c)] /\ a = cqSend'[S(c)]
        BY <4>1
      <4>3. s > 0 => s + n + k + a > 0
        OBVIOUS
      <4>4. QED
        BY <4>2, <4>3 DEF Sends, Ready
    <3>2. Begun(c)'
      BY DEF TalkInv
    <3>3. QED
      BY <2>1, <2>2, <3>1, <3>2 DEF Begun
  <2>4. To(Server) = "accept" /\ To(Server)' = "events" /\ ~Returned /\ ~Returned'
    BY <1>0, <2>1, <2>3 DEF Returned, To, Waiting, ServerStage
  <2>5. QED
    BY <2>1, <2>4 DEF Running
<1>6. CASE CountEstablished
  <2>1. pc[Server] = "count" /\ To(Server) = "count"
    BY <1>6 DEF CountEstablished, To, Waiting
  <2>2. \/ To(Server)' = "ready" /\ pc'[Server] = "wait"
        \/ To(Server)' = "events" /\ pc'[Server] = "events" /\ estCnt' # ClientNum
    <3>1. CASE estCnt' = ClientNum
      BY <1>0, <1>6, <3>1, ServerWaits DEF CountEstablished
    <3>2. CASE estCnt' # ClientNum
      <4>1. pc'[Server] = "events"
        BY <1>0, <1>6, <3>2 DEF CountEstablished
      <4>2. QED
        BY <3>2, <4>1 DEF To, Waiting
    <3>3. QED
      BY <3>1, <3>2
  <2>3. QED
    BY <2>1, <2>2 DEF Running, Returned
<1>7. CASE ServerReady \/ \E i \in Clients : Visit(i)
  <2>1. \E j, n, over : NextTurn(j, n, over)
    BY <1>7 DEF ServerReady, Visit, VisitReads, VisitAcks, VisitEnds, VisitNothing
  <2>2. pc[Server] \in {"ready", "visit"}
    BY <1>7 DEF ServerReady, Visit, VisitReads, VisitAcks, VisitEnds, VisitNothing, Visits
  <2>3. To(Server)' \in {"visit", "disconnect"}
    BY <1>0, <2>1, ServerWaits
  <2>4. Running
    BY <2>2 DEF Running, To, Waiting
  <2>5. QED
    BY <2>3, <2>4 DEF Running
<1>8. CASE ServerDisconnect
  <2>1. pc[Server] = "disconnect" /\ pc'[Server] \in {"disconnect", "events"} /\ estCnt' = estCnt
    BY <1>0, <1>8 DEF ServerDisconnect, countVars
  <2>2. To(Server) = "disconnect" /\ (pc'[Server] = "disconnect" => To(Server)' = "disconnect")
    BY <2>1 DEF To, Waiting
  <2>3. estCnt = ClientNum
    BY <1>0, <2>2 DEF ServerStage
  <2>4. QED
    BY <2>1, <2>2, <2>3 DEF Running, Returned
<1>9. CASE OnDisconnect
  <2>1. /\ pc[Server] = "events" /\ pc'[Server] \in {"gone", "events"} /\ estCnt' = estCnt
        /\ NextEvent(Server, "DISCONNECTED")
    BY <1>0, <1>9 DEF OnDisconnect
  <2>2. PICK c \in Clients : Queued("DISCONNECTED", c)
    BY <1>0, <2>1, ServerNext
  <2>3. link[c] = "down"
    BY <2>2 DEF TypeInv, LifeInv, ServerLink
  <2>4. Running
    BY <2>3, DownEnded DEF TearInv, Ended
  <2>5. pc'[Server] = "gone" => To(Server)' = "gone"
    BY DEF To, Waiting
  <2>6. Returned
    BY <2>1, <2>4 DEF Running, To, Waiting
  <2>7. QED
    BY <2>1, <2>4, <2>5, <2>6 DEF Running, Returned
<1>10. QED
  <2>1. CASE \/ \E d \in Clients : Client(d)
             \/ \E p \in Procs : Polls(p) /\ ~Drained(p)
             \/ Manager \/ (\E e \in Ends : Nic(e)) \/ UNCHANGED vars
    BY <1>1, <2>1, ServerStays
  <2>2. CASE ServerStep
    BY <1>0, <1>2, <1>3, <1>4, <1>5, <1>6, <1>7, <1>8, <1>9, <2>1, <2>2 DEF ServerStep, Polls
  <2>3. QED
    BY <2>1, <2>2 DEF Next, Others, Terminating

-------------------------------------------------------------------------------
(* What of a client's hand-over a step leaves alone. *)
Same(c) ==
  /\ To(c)' = To(c) /\ (link'[c] = "down" <=> link[c] = "down")
  /\ caddr'[c] = caddr[c] /\ held'[c] = held[c] /\ done'[c] = done[c]
  /\ posted'[K(c)] = posted[K(c)] /\ posted'[S(c)] = posted[S(c)]
  /\ \A v : SignalIs(c, v) => SignalIs(c, v)'

(* What it does to the counts of requests. *)
Calm(c) ==
  /\ Running => Running'
  /\ Rested(c) => Rested(c)'
  /\ rest[c] = 0 => rest'[c] = 0
  /\ Running /\ rest[c] = Outstanding(S(c)) => rest'[c] = Outstanding(S(c))'

(* The server stays running, and is quiet when it gets there. *)
Runs == (Running => Running') /\ (Running' => Running \/ pc'[Server] = "ready")

\* A client whose hand-over goes on as it is.
LEMMA HandKept ==
  ASSUME NEW c \in Clients, Hand(c), Same(c), Calm(c)
  PROVE  Hand(c)'
<1>1. /\ To(c)' = To(c) /\ (link'[c] = "down" <=> link[c] = "down")
      /\ caddr'[c] = caddr[c] /\ held'[c] = held[c] /\ done'[c] = done[c]
      /\ Running => Running'
      /\ SignalIs(c, 0) => SignalIs(c, 0)'
      /\ SignalIs(c, 1) => SignalIs(c, 1)'
      /\ SignalIs(c, 11) => SignalIs(c, 11)'
  BY DEF Same, Calm
<1>2. /\ Fresh(c)' <=> Fresh(c)
      /\ Sent(c)' <=> Sent(c)
      /\ Over(c)' <=> Over(c)
      /\ Idle(c) => Idle(c)'
  BY <1>1 DEF Fresh, Sent, Over, Idle, Calm
<1>3. /\ Nothing(K(c))' <=> Nothing(K(c))
      /\ Nothing(S(c))' <=> Nothing(S(c))
      /\ \A op : One(K(c), op)' <=> One(K(c), op)
      /\ \A op : One(S(c), op)' <=> One(S(c), op)
      /\ OnlyMr(K(c))' <=> OnlyMr(K(c))
      /\ OnlyMr(S(c))' <=> OnlyMr(S(c))
  BY DEF Same, Nothing, One, OnlyMr
<1>4. Unpublished(c) => Unpublished(c)'
  BY <1>1, <1>2, <1>3 DEF Unpublished, Calm
<1>5. Publishing(c) => Publishing(c)'
  BY <1>1, <1>2, <1>3 DEF Publishing, Calm
<1>6. Published(c) => Published(c)'
  BY <1>1, <1>2, <1>3 DEF Published, Calm
<1>7. Reading(c) => Reading(c)'
  BY <1>1, <1>2, <1>3 DEF Reading, Calm
<1>8. Answering(c) => Answering(c)'
  BY <1>1, <1>2, <1>3 DEF Answering
<1>9. Answered(c) => Answered(c)'
  BY <1>1, <1>2, <1>3 DEF Answered
<1>10. Ending(c) => Ending(c)'
  BY <1>1, <1>2, <1>3 DEF Ending
<1>11. Ended(c) => Ended(c)'
  BY <1>1, <1>2, <1>3 DEF Ended
<1>12. QED
  BY <1>4, <1>5, <1>6, <1>7, <1>8, <1>9, <1>10, <1>11 DEF Hand

\* A step that posts and completes nothing at the server's end of c.
LEMMA CalmQuiet ==
  ASSUME TalkInv', Runs, NEW c \in Clients, rest'[c] = rest[c],
         Outstanding(S(c))' = Outstanding(S(c))
  PROVE  Calm(c)
<1>1. pc'[Server] = "ready" => Outstanding(S(c))' = 0
  BY DEF TalkInv, ServerStage
<1>2. QED
  BY <1>1 DEF Calm, Runs, Rested

\* A client that has not published is in the first stage, and so on.
LEMMA Stages ==
  ASSUME NEW c \in Clients, Hand(c)
  PROVE  /\ Fresh(c) => Unpublished(c)
         /\ Sent(c) => Publishing(c) \/ Published(c) \/ Reading(c) \/ Answering(c) \/ Answered(c)
         /\ Over(c) => Ending(c) \/ Ended(c)
BY DEF Hand, Unpublished, Publishing, Published, Reading, Answering, Answered, Ending, Ended,
       Fresh, Sent, Over

\* The first stage, while the client moves in it.
LEMMA StillFresh ==
  ASSUME NEW c \in Clients, Unpublished(c), Fresh(c)', caddr'[c] = caddr[c],
         held'[c] = held[c], done'[c] = done[c], SignalIs(c, 0)', Calm(c),
         OnlyMr(K(c))', OnlyMr(S(c))'
  PROVE  Hand(c)'
<1>1. Unpublished(c)'
  BY DEF Unpublished, Idle, Calm
<1>2. QED
  BY <1>1 DEF Hand

\* Nothing is posted where nothing is under way ...
LEMMA QuietNothing ==
  ASSUME TypeInv, NEW e \in Ends, Outstanding(e) = 0
  PROVE  Nothing(e)
<1>1. PICK n \in Nat, k \in Nat, a \in Nat, b \in Nat, d \in Nat :
             /\ n = Len(posted[e]) /\ k = flying[e] /\ a = cqSend[e]
             /\ b = recvs[e] /\ d = cqRecv[e]
  BY FlowTyped
<1>2. b + n + k + a + d = 0
  BY <1>1 DEF Outstanding
<1>3. n = 0
  BY <1>2
<1>4. PICK q \in Seq(Operations) : q = posted[e]
  BY FlowTyped
<1>5. Len(q) = 0
  BY <1>1, <1>3, <1>4
<1>6. q = << >>
  BY <1>4, <1>5
<1>7. QED
  BY <1>4, <1>6 DEF Nothing

\* ... nor where nothing but the message was, and the other end has it.
LEMMA MessageGone ==
  ASSUME TypeInv, MrInv, NEW e \in Ends, OnlyMr(e), Ready(Other(e))
  PROVE  Nothing(e)
<1>1. ~Mr(e)
  BY FlowTyped, OtherTwice DEF MrInv, Ready
<1>2. PICK q \in Seq(Operations) : q = posted[e]
  BY FlowTyped
<1>3. DOMAIN q = {}
  BY <1>1, <1>2 DEF OnlyMr, Mr
<1>4. q = << >>
  BY <1>3
<1>5. QED
  BY <1>2, <1>4 DEF Nothing

\* The first request.
LEMMA OnePosted ==
  ASSUME TypeInv, NEW e \in Ends, Nothing(e), NEW op, NEW mem, Post(e, op, mem)
  PROVE  One(e, op)'
<1>1. posted'[e] = Append(<< >>, [op |-> op, mem |-> mem])
  BY PostAt DEF Nothing, TypeInv
<1>2. PICK r : r = [op |-> op, mem |-> mem]
  OBVIOUS
<1>3. r.op = op
  BY <1>2
<1>4. Append(<< >>, r) = <<r>> /\ Len(<<r>>) = 1 /\ <<r>>[1] = r
  OBVIOUS
<1>5. posted'[e] = <<r>>
  BY <1>1, <1>2, <1>4
<1>6. QED
  BY <1>3, <1>4, <1>5 DEF One

\* A message more.
LEMMA OnlyMrMore ==
  ASSUME TypeInv, NEW e \in Ends, OnlyMr(e), NEW m, Post(e, "mr", m)
  PROVE  OnlyMr(e)'
<1>1. posted'[e] = Append(posted[e], [op |-> "mr", mem |-> m])
  BY PostAt DEF TypeInv
<1>2. PICK q \in Seq(Operations) : q = posted[e]
  BY FlowTyped
<1>3. PICK r : r = [op |-> "mr", mem |-> m]
  OBVIOUS
<1>4. r.op = "mr" /\ posted'[e] = Append(q, r)
  BY <1>1, <1>2, <1>3
<1>5. \A i \in DOMAIN q : q[i].op = "mr"
  BY <1>2 DEF OnlyMr
<1>6. \A i \in DOMAIN Append(q, r) :
       (i \in DOMAIN q /\ Append(q, r)[i] = q[i]) \/ Append(q, r)[i] = r
  OBVIOUS
<1>7. \A i \in DOMAIN Append(q, r) : Append(q, r)[i].op = "mr"
  BY <1>4, <1>5, <1>6
<1>8. QED
  BY <1>4, <1>7 DEF OnlyMr

\* A step before the server is running.
LEMMA CalmBefore ==
  ASSUME Runs, ~Running', NEW c \in Clients, rest'[c] = rest[c]
  PROVE  Calm(c)
BY DEF Runs, Calm, Rested

-------------------------------------------------------------------------------
\* What a client's step leaves alone.
LEMMA ClientLeavesAlone ==
  ASSUME TypeInv, TalkInv', Runs, NEW d \in Clients,
         \/ ConnectToServer(d) \/ OnAddrResolved(d) \/ OnRouteResolved(d) \/ OnConnection(d)
         \/ OnUnknownEvent(d) \/ ClientReady(d) \/ Publish(d) \/ IoDone(d) \/ OnDisconnected(d)
         \/ ClientDisconnect(d) \/ Drained(d)
  PROVE  /\ UNCHANGED <<held, done, saddr, conns>>
         /\ \A c \in Clients : /\ posted'[S(c)] = posted[S(c)] /\ Calm(c)
                               /\ c # d => Same(c)
         /\ \A v : SignalIs(d, v) => SignalIs(d, v)'
<1>0. /\ pc \in [Procs -> States] /\ back \in [Procs -> States \cup {"none"}]
      /\ caddr \in [Clients -> {0, 1, 11}] /\ recvs \in [Ends -> Nat]
      /\ posted \in [Ends -> Seq(Operations)]
      /\ Clients \subseteq Procs
  BY Owners DEF TypeInv, LifeInv, LifeType, WakeType, RestType
<1>1. UNCHANGED <<held, done, saddr, conns, rest, flying, cqSend, cqRecv>>
  BY DEF ConnectToServer, OnAddrResolved, OnRouteResolved, OnConnection, OnUnknownEvent,
      ClientReady,
    Publish, IoDone, OnDisconnected, ClientDisconnect, Drained, connVars, addrVars, nicVars
<1>2. /\ recvs' = recvs \/ recvs' = [recvs EXCEPT ![K(d)] = @ + 1]
      /\ caddr' = caddr \/ \E v : caddr' = [caddr EXCEPT ![d] = v]
  BY DEF ConnectToServer, OnAddrResolved, OnRouteResolved, OnConnection, OnUnknownEvent,
      ClientReady,
    Publish, IoDone, OnDisconnected, ClientDisconnect, Drained, addrVars, nicVars, PostReceive, K
<1>3. posted' = posted \/ \E op, mem : Post(K(d), op, mem)
  BY DEF ConnectToServer, OnAddrResolved, OnRouteResolved, OnConnection, OnUnknownEvent,
      ClientReady,
    Publish, IoDone, OnDisconnected, ClientDisconnect, Drained, nicVars, K
<1>4. \A e \in Ends : e # K(d) => recvs'[e] = recvs[e] /\ posted'[e] = posted[e]
  <2>1. \A e \in Ends : e # K(d) => recvs'[e] = recvs[e]
    BY <1>0, <1>2
  <2>2. \A e \in Ends : e # K(d) => posted'[e] = posted[e]
    BY <1>3, PostAt DEF TypeInv
  <2>3. QED
    BY <2>1, <2>2
<1>5. \A c \in Clients : S(c) \in Ends /\ K(c) \in Ends /\ S(c) # K(d) /\ (c # d => K(c) # K(d))
  BY EndNames
<1>6. \A c \in Clients : posted'[S(c)] = posted[S(c)] /\ Outstanding(S(c))' = Outstanding(S(c))
  BY <1>1, <1>4, <1>5 DEF Outstanding
<1>7. \A c \in Clients : Calm(c)
  BY <1>1, <1>6, CalmQuiet
<1>8. \A c, v : SignalIs(c, v) => SignalIs(c, v)'
  BY <1>1 DEF SignalIs
<1>9. ASSUME NEW c \in Clients, c # d PROVE Same(c)
  <2>1. To(c)' = To(c) /\ link'[c] = link[c]
    <3>1. pc'[c] = pc[c] /\ back'[c] = back[c] /\ link'[c] = link[c]
      BY <1>0, <1>9, ClientFrame
    <3>2. QED
      BY <3>1 DEF To, Waiting
  <2>2. caddr'[c] = caddr[c]
    BY <1>0, <1>2, <1>9
  <2>3. QED
    BY <1>1, <1>4, <1>5, <1>6, <1>8, <1>9, <2>1, <2>2 DEF Same
<1>10. QED
  BY <1>1, <1>6, <1>7, <1>8, <1>9

-------------------------------------------------------------------------------
\* Where a client is that waits, and where it is when it stops waiting.
LEMMA ClientWaits ==
  ASSUME TypeInv, NEW d \in Clients
  PROVE  /\ \A next : WaitAll(d, next) => To(d)' = next
         /\ Drained(d) => To(d)' = To(d)
<1>0. /\ pc \in [Procs -> States] /\ back \in [Procs -> States \cup {"none"}] /\ d \in Procs
      /\ ClientAt(d) /\ d # Server
  BY Owners DEF TypeInv, LifeInv, LifeType
<1>1. ASSUME NEW next, WaitAll(d, next) PROVE To(d)' = next
  <2>1. pc'[d] = "wait" /\ back'[d] = next
    BY <1>0, <1>1 DEF WaitAll
  <2>2. QED
    BY <2>1 DEF To, Waiting
<1>2. ASSUME Drained(d) PROVE To(d)' = To(d)
  <2>1. pc[d] \in {"wait", "drain"} /\ pc'[d] = back[d]
    BY <1>0, <1>2 DEF Drained, Waiting
  <2>2. pc[d] = "wait" /\ back[d] \in {"ready", "published", "disconnect"}
    BY <1>0, <2>1 DEF ClientAt, InUse
  <2>3. QED
    BY <2>1, <2>2 DEF To, Waiting
<1>3. QED
  BY <1>1, <1>2

\* A client that has not published yet.
LEMMA FreshHand ==
  ASSUME TypeInv, TalkInv', Runs, NEW d \in Clients, Hand(d),
         \/ ConnectToServer(d) \/ OnAddrResolved(d) \/ OnRouteResolved(d) \/ OnConnection(d)
         \/ OnUnknownEvent(d) \/ ClientReady(d)
  PROVE  Hand(d)'
<1>0. /\ pc \in [Procs -> States] /\ back \in [Procs -> States \cup {"none"}] /\ d \in Procs
      /\ ClientAt(d) /\ link \in [Clients -> Links] /\ K(d) \in Ends
  BY Owners, EndNames DEF TypeInv, WakeType, LifeInv, LifeType
<1>1. /\ link[d] # "down" /\ pc[d] \in {"start", "events", "ready"} /\ To(d) = pc[d]
  <2>1. pc[d] \in {"start", "events", "ready"}
    BY DEF ConnectToServer, OnAddrResolved, OnRouteResolved, OnConnection, OnUnknownEvent,
        ClientReady
  <2>2. To(d) = pc[d]
    BY <2>1 DEF To, Waiting
  <2>3. CASE ConnectToServer(d) \/ ClientReady(d)
    <3>1. pc[d] \in {"start", "ready"}
      BY <2>3 DEF ConnectToServer, ClientReady
    <3>2. ~Over(d) \/ link[d] # "down"
      BY <2>2, <3>1 DEF Over
    <3>3. QED
      BY <2>1, <2>2, <3>2, DownEnded DEF Ended
  <2>4. CASE OnAddrResolved(d) \/ OnRouteResolved(d) \/ OnConnection(d) \/ OnUnknownEvent(d)
    <3>1. link[d] \in {"none", "accepted", "rejected"}
      BY <1>0, <2>4, ClientNext DEF OnAddrResolved, OnRouteResolved, OnConnection, OnUnknownEvent
    <3>2. QED
      BY <2>1, <2>2, <3>1
  <2>5. QED
    BY <2>3, <2>4
<1>2. Unpublished(d)
  BY <1>1, Stages DEF Fresh
<1>3. Fresh(d)'
  <2>1. CASE OnConnection(d)
    <3>1. To(d)' = "ready"
      BY <2>1, ClientWaits DEF OnConnection
    <3>2. link'[d] = "use"
      BY <1>0, <2>1 DEF OnConnection
    <3>3. QED
      BY <3>1, <3>2 DEF Fresh
  <2>2. CASE ~OnConnection(d)
    <3>1. pc'[d] \in {"events", "dead", "run"}
      BY <1>0, <2>2 DEF ConnectToServer, OnAddrResolved, OnRouteResolved, OnUnknownEvent,
          ClientReady
    <3>2. link' = link \/ link' = [link EXCEPT ![d] = "request"]
      BY <2>2 DEF ConnectToServer, OnAddrResolved, OnRouteResolved, OnUnknownEvent, ClientReady,
          cmVars
    <3>3. link'[d] # "down"
      BY <1>0, <1>1, <3>2
    <3>4. To(d)' \in {"events", "dead", "run"}
      BY <3>1 DEF To, Waiting
    <3>5. QED
      BY <3>3, <3>4 DEF Fresh
  <2>3. QED
    BY <2>1, <2>2
<1>4. OnlyMr(K(d))'
  <2>1. CASE OnConnection(d)
    <3>1. Post(K(d), "mr", MemoryOf(K(d)))
      BY <2>1 DEF OnConnection, K
    <3>2. QED
      BY <1>0, <1>2, <3>1, OnlyMrMore DEF Unpublished
  <2>2. CASE ~OnConnection(d)
    <3>1. posted' = posted
      BY <2>2 DEF ConnectToServer, OnAddrResolved, OnRouteResolved, OnUnknownEvent, ClientReady,
          nicVars
    <3>2. QED
      BY <1>2, <3>1 DEF Unpublished, OnlyMr
  <2>3. QED
    BY <2>1, <2>2
<1>5. /\ UNCHANGED <<held, done>> /\ Calm(d) /\ posted'[S(d)] = posted[S(d)]
      /\ SignalIs(d, 0) => SignalIs(d, 0)'
  BY ClientLeavesAlone
<1>6. caddr' = caddr
  BY DEF ConnectToServer, OnAddrResolved, OnRouteResolved, OnConnection, OnUnknownEvent,
      ClientReady,
    addrVars
<1>7. OnlyMr(S(d))'
  BY <1>2, <1>5 DEF Unpublished, OnlyMr
<1>8. SignalIs(d, 0)'
  BY <1>2, <1>5 DEF Unpublished
<1>9. QED
  BY <1>2, <1>3, <1>4, <1>5, <1>6, <1>7, <1>8, StillFresh

\* A client publishes: its message and the server's are through.
LEMMA PublishHand ==
  ASSUME TypeInv, TalkInv, TalkInv', Runs, NEW d \in Clients, Hand(d), Publish(d)
  PROVE  Hand(d)'
<1>0. /\ K(d) \in Ends /\ S(d) \in Ends /\ Other(S(d)) = K(d) /\ ClientAt(d) /\ ClientStage(d)
      /\ MrInv /\ caddr \in [Clients -> {0, 1, 11}]
  BY EndNames, OtherNames DEF TypeInv, RestType, LifeInv, TalkInv, FlowInv
<1>1. pc[d] = "run" /\ To(d) = "run"
  BY DEF Publish, To, Waiting
<1>2. link[d] # "down"
  BY <1>1, DownEnded DEF Ended, Over
<1>3. Unpublished(d)
  BY <1>1, <1>2, Stages DEF Fresh
<1>4. Ready(K(d)) /\ Outstanding(K(d)) = 0
  BY <1>0, <1>1 DEF ClientAt, ClientStage, Linked
<1>5. Nothing(K(d)) /\ Nothing(S(d))
  BY <1>0, <1>3, <1>4, QuietNothing, MessageGone DEF Unpublished
<1>6. One(K(d), "write")'
  <2>1. \E m : Post(K(d), "write", m)
    BY DEF Publish, K
  <2>2. QED
    BY <1>0, <1>5, <2>1, OnePosted
<1>7. To(d)' = "published" /\ link' = link
  BY ClientWaits DEF Publish, cmVars
<1>8. caddr'[d] = 1
  BY <1>0 DEF Publish
<1>9. /\ UNCHANGED <<held, done>> /\ Calm(d) /\ posted'[S(d)] = posted[S(d)]
      /\ SignalIs(d, 0) => SignalIs(d, 0)'
  BY ClientLeavesAlone
<1>10. Publishing(d)'
  BY <1>2, <1>3, <1>5, <1>6, <1>7, <1>8, <1>9
     DEF Unpublished, Publishing, Sent, Idle, Calm, Nothing
<1>11. QED
  BY <1>10 DEF Hand

\* A client has its answer, and says that it is done.
LEMMA IoDoneHand ==
  ASSUME TypeInv, TalkInv, TalkInv', Runs, NEW d \in Clients, Hand(d), IoDone(d)
  PROVE  Hand(d)'
<1>0. /\ K(d) \in Ends /\ S(d) \in Ends /\ caddr \in [Clients -> {0, 1, 11}]
  BY EndNames DEF TypeInv, RestType
<1>1. pc[d] = "published" /\ To(d) = "published" /\ caddr[d] # 1
  BY DEF IoDone, To, Waiting
<1>2. link[d] # "down"
  BY <1>1, DownEnded DEF Ended, Over
<1>3. Answered(d)
  BY <1>1, <1>2, Stages DEF Sent, Publishing, Published, Reading, Answering
<1>4. One(K(d), "write")'
  <2>1. \E m : Post(K(d), "write", m)
    BY DEF IoDone, K
  <2>2. QED
    BY <1>0, <1>3, <2>1, OnePosted DEF Answered
<1>5. To(d)' = "disconnect" /\ link' = link
  BY ClientWaits DEF IoDone, WaitFinal, cmVars
<1>6. caddr'[d] = 11
  BY <1>0 DEF IoDone
<1>7. /\ UNCHANGED <<held, done>> /\ Calm(d) /\ posted'[S(d)] = posted[S(d)]
      /\ SignalIs(d, 0) => SignalIs(d, 0)'
  BY ClientLeavesAlone
<1>8. Ending(d)'
  BY <1>2, <1>3, <1>4, <1>5, <1>6, <1>7 DEF Answered, Ending, Idle, Calm, Nothing
<1>9. QED
  BY <1>8 DEF Hand

\* A client disconnects, and hears that its connection is down.
LEMMA LeavingHand ==
  ASSUME TypeInv, TalkInv, TalkInv', Runs, Doneness, NEW d \in Clients, Hand(d),
         ClientDisconnect(d) \/ OnDisconnected(d)
  PROVE  Hand(d)'
<1>0. /\ K(d) \in Ends /\ ClientAt(d) /\ ClientStage(d) /\ link \in [Clients -> Links]
      /\ pc \in [Procs -> States] /\ d \in Procs
  BY EndNames, Owners DEF TypeInv, WakeType, LifeInv, LifeType, TalkInv
<1>1. Ended(d) /\ link'[d] = "down" /\ pc'[d] \in {"events", "gone"}
  <2>1. CASE ClientDisconnect(d)
    <3>1. pc[d] = "disconnect" /\ To(d) = "disconnect" /\ pc'[d] = "events"
      BY <1>0, <2>1 DEF ClientDisconnect, To, Waiting
    <3>2. Outstanding(K(d)) = 0
      BY <1>0, <3>1 DEF ClientAt, ClientStage, Linked
    <3>3. Nothing(K(d))
      BY <1>0, <3>2, QuietNothing
    <3>4. ~One(K(d), "write")
      BY <3>3 DEF Nothing, One
    <3>5. Ended(d)
      BY <3>1, <3>4, Stages DEF Over, Ending
    <3>6. link[d] \in {"up", "down"}
      BY <3>5, ReadySent DEF Doneness, Ended
    <3>7. link'[d] = "down"
      BY <1>0, <2>1, <3>6 DEF ClientDisconnect, Disconnect, cmVars
    <3>8. QED
      BY <3>1, <3>5, <3>7
  <2>2. CASE OnDisconnected(d)
    <3>1. link[d] = "down"
      BY <1>0, <2>2, ClientNext DEF OnDisconnected
    <3>2. link' = link /\ pc'[d] = "gone"
      BY <1>0, <2>2 DEF OnDisconnected
    <3>3. QED
      BY <3>1, <3>2, DownEnded
  <2>3. QED
    BY <2>1, <2>2
<1>2. Over(d)'
  BY <1>1 DEF Over, To, Waiting
<1>3. /\ UNCHANGED <<held, done>> /\ Calm(d) /\ posted'[S(d)] = posted[S(d)]
      /\ SignalIs(d, 11) => SignalIs(d, 11)'
  BY ClientLeavesAlone
<1>4. caddr' = caddr /\ posted' = posted
  BY DEF ClientDisconnect, OnDisconnected, addrVars, nicVars
<1>5. Ended(d)'
  BY <1>1, <1>2, <1>3, <1>4 DEF Ended, Idle, Calm, Nothing
<1>6. QED
  BY <1>5 DEF Hand

\* The steps of a client.
LEMMA ClientHands ==
  ASSUME TypeInv, TalkInv, TalkInv', Runs, TearInv, NEW d \in Clients,
         \/ ConnectToServer(d) \/ OnAddrResolved(d) \/ OnRouteResolved(d) \/ OnConnection(d)
         \/ OnUnknownEvent(d) \/ ClientReady(d) \/ Publish(d) \/ IoDone(d) \/ OnDisconnected(d)
         \/ ClientDisconnect(d) \/ Drained(d)
  PROVE  \A c \in Clients : Hand(c)'
<1>0. Doneness /\ \A c \in Clients : Hand(c)
  BY DEF TearInv
<1>1. ASSUME NEW c \in Clients, c # d PROVE Hand(c)'
  <2>1. Same(c) /\ Calm(c)
    BY <1>1, ClientLeavesAlone
  <2>2. QED
    BY <1>0, <2>1, HandKept
<1>2. Hand(d)'
  <2>1. CASE Drained(d)
    <3>1. UNCHANGED <<caddr, held, done, posted, link>>
      BY <2>1 DEF Drained, addrVars, nicVars, cmVars
    <3>2. Calm(d) /\ \A v : SignalIs(d, v) => SignalIs(d, v)'
      BY ClientLeavesAlone
    <3>3. Same(d)
      BY <2>1, <3>1, <3>2, ClientWaits DEF Same
    <3>4. QED
      BY <1>0, <3>2, <3>3, HandKept
  <2>2. CASE ClientDisconnect(d) \/ OnDisconnected(d)
    BY <1>0, <2>2, LeavingHand
  <2>3. CASE ~Drained(d) /\ ~ClientDisconnect(d) /\ ~OnDisconnected(d)
    BY <1>0, <2>3, FreshHand, PublishHand, IoDoneHand
  <2>4. QED
    BY <2>1, <2>2, <2>3
<1>3. QED
  BY <1>1, <1>2

-------------------------------------------------------------------------------
\* A step of the server that changes nothing the clients and it share.
LEMMA ServerLeavesAlone ==
  ASSUME TypeInv, TalkInv, TalkInv', Runs, TearInv,
         UNCHANGED <<caddr, saddr, held, done, conns, rest, recvs, posted, flying, cqSend, cqRecv>>,
         \A c \in Clients : /\ pc'[c] = pc[c] /\ back'[c] = back[c]
                            /\ link'[c] = "down" <=> link[c] = "down"
  PROVE  \A c \in Clients : Hand(c)'
<1>1. SUFFICES ASSUME NEW c \in Clients PROVE Hand(c)'
  OBVIOUS
<1>2. Hand(c)
  BY DEF TearInv
<1>3. Calm(c)
  BY CalmQuiet DEF Outstanding
<1>4. To(c)' = To(c)
  BY DEF To, Waiting
<1>5. \A v : SignalIs(c, v) => SignalIs(c, v)'
  BY DEF SignalIs
<1>6. Same(c)
  BY <1>4, <1>5 DEF Same
<1>7. QED
  BY <1>2, <1>3, <1>6, HandKept

\* The steps of the server that post nothing and look at no address.
LEMMA ServerQuietHands ==
  ASSUME TypeInv, TalkInv, TalkInv', Runs, TearInv,
         \/ TellAddress \/ Accept \/ CountEstablished \/ ServerReady \/ OnDisconnect
         \/ Drained(Server) \/ \E i \in Clients : VisitNothing(i)
  PROVE  \A c \in Clients : Hand(c)'
<1>0. /\ pc \in [Procs -> States] /\ back \in [Procs -> States \cup {"none"}] /\ LifeType
      /\ link \in [Clients -> Links] /\ Clients \subseteq Procs /\ Server \notin Clients /\ clt \in Clients
      /\ \A c \in Clients : ServerLink(c)
  BY Owners DEF TypeInv, WakeType, LifeInv, LifeType
<1>1. UNCHANGED <<caddr, saddr, held, done, conns, rest, recvs, posted, flying, cqSend, cqRecv>>
  BY DEF TellAddress, Accept, CountEstablished, ServerReady, OnDisconnect, Drained, VisitNothing,
    Visits, connVars, addrVars, nicVars
<1>2. \A c \in Clients : pc'[c] = pc[c] /\ back'[c] = back[c]
  <2>1. CASE ServerReady \/ \E i \in Clients : VisitNothing(i)
    <3>1. \E j, n, over : NextTurn(j, n, over)
      BY <2>1 DEF ServerReady, VisitNothing
    <3>2. QED
      BY <1>0, <3>1, ServerWaits
  <2>2. CASE CountEstablished
    <3>1. WaitAll(Server, "ready") \/ (pc' = [pc EXCEPT ![Server] = "events"] /\ back' = back)
      BY <2>2 DEF CountEstablished, pollVars
    <3>2. QED
      BY <1>0, <3>1, ServerWaits
  <2>3. CASE TellAddress \/ Accept \/ OnDisconnect \/ Drained(Server)
    BY <1>0, <2>3 DEF TellAddress, Accept, OnDisconnect, Drained, pollVars
  <2>4. QED
    BY <2>1, <2>2, <2>3
<1>3. \A c \in Clients : link'[c] = "down" <=> link[c] = "down"
  <2>1. CASE Accept
    <3>1. link' = [link EXCEPT ![clt] = "accepted"] /\ pc[Server] = "accept"
      BY <2>1 DEF Accept
    <3>2. link[clt] = "requested"
      BY <1>0, <3>1 DEF ServerLink, Accepting
    <3>3. QED
      BY <1>0, <3>1, <3>2
  <2>2. CASE ~Accept
    BY <2>2 DEF TellAddress, CountEstablished, ServerReady, OnDisconnect, Drained, VisitNothing,
      Visits, cmVars
  <2>3. QED
    BY <2>1, <2>2
<1>4. QED
  BY <1>1, <1>2, <1>3, ServerLeavesAlone

\* A client asks for a connection.
LEMMA RequestHands ==
  ASSUME TypeInv, TalkInv, TalkInv', Runs, TearInv, OnConnectRequest
  PROVE  \A c \in Clients : Hand(c)'
<1>0. /\ pc \in [Procs -> States] /\ back \in [Procs -> States \cup {"none"}] /\ LifeType
      /\ Clients \subseteq Procs /\ Server \notin Clients /\ conns \in Seq(Clients) /\ WakeType
      /\ \A c \in Clients : ServerLink(c) /\ ClientAt(c)
  BY Owners DEF TypeInv, LifeInv, LifeType
<1>1. PICK d \in Clients : d = Head(events[Server]).clt /\ Queued("CONNECT_REQUEST", d)
  BY <1>0, ServerNext DEF OnConnectRequest
<1>2. /\ conns' = Append(conns, d) /\ WaitSome(rss[Server] + 1, "accept")
      /\ UNCHANGED <<caddr, saddr, held, done, rest, posted, link>>
  BY <1>1 DEF OnConnectRequest, addrVars
<1>3. /\ To(Server)' = "accept" /\ pc'[Server] \in {"drain", "accept"}
      /\ \A c \in Clients : pc'[c] = pc[c] /\ back'[c] = back[c]
  BY <1>0, <1>2, ServerWaits
<1>4. ~Running'
  BY <1>3 DEF Running, Returned
<1>5. \A c \in Clients : Calm(c)
  BY <1>2, <1>4, CalmBefore
<1>6. \A c \in Clients : To(c)' = To(c)
  BY <1>3 DEF To, Waiting
<1>7. ASSUME NEW r \in Clients, r + 1 \in DOMAIN conns'
      PROVE  \/ r + 1 \in DOMAIN conns /\ conns'[r + 1] = conns[r + 1]
             \/ r + 1 \notin DOMAIN conns /\ conns'[r + 1] = d
  BY <1>0, <1>2, <1>7
<1>8. ASSUME NEW c \in Clients, c # d PROVE Hand(c)'
  <2>1. \A v : SignalIs(c, v) => SignalIs(c, v)'
    BY <1>2, <1>7, <1>8 DEF SignalIs
  <2>2. Same(c)
    BY <1>2, <1>6, <2>1 DEF Same
  <2>3. QED
    BY <1>5, <2>2, HandKept DEF TearInv
<1>9. Hand(d)'
  <2>1. link[d] = "requested"
    BY <1>0, <1>1 DEF ServerLink
  <2>2. pc[d] = "events"
    BY <1>0, <2>1 DEF ClientAt
  <2>3. Fresh(d) /\ Fresh(d)'
    BY <1>2, <1>6, <2>1, <2>2 DEF Fresh, To, Waiting
  <2>4. Unpublished(d)
    BY <2>3, Stages DEF TearInv
  <2>5. SignalIs(d, 0)'
    BY <1>2, <1>7, <2>4 DEF SignalIs, Unpublished, TearInv, Unused
  <2>6. OnlyMr(K(d))' /\ OnlyMr(S(d))'
    BY <1>2, <2>4 DEF OnlyMr, Unpublished
  <2>7. QED
    BY <1>2, <1>5, <2>3, <2>4, <2>5, <2>6, StillFresh
<1>10. QED
  BY <1>8, <1>9

\* A connection is established.
LEMMA EstablishedHands ==
  ASSUME TypeInv, TalkInv, TalkInv', Kept, Runs, TearInv, OnEstablished
  PROVE  \A c \in Clients : Hand(c)'
<1>0. /\ LifeType /\ \A c \in Clients : K(c) \in Ends /\ S(c) \in Ends /\ Other(K(c)) = S(c)
      /\ \A c \in Clients : ServerLink(c) /\ ClientAt(c) /\ ClientStage(c) /\ EndOk(K(c)) /\ Hand(c)
  BY EndNames, OtherNames DEF TypeInv, LifeInv, TalkInv, FlowInv, EndsOk, TearInv
<1>1. PICK d \in Clients : /\ d = Head(events[Server]).clt /\ Queued("ESTABLISHED", d) /\ Sends(S(d)) = 0
  BY ServerFlow
<1>2. /\ Post(S(d), "mr", MemoryOf(S(d))) /\ WaitSome(rss[Server] + 1, "count")
      /\ UNCHANGED <<caddr, saddr, held, done, rest, link, conns>>
  BY <1>1 DEF OnEstablished, addrVars, connVars, S
<1>3. /\ To(Server)' = "count" /\ pc'[Server] \in {"drain", "count"}
      /\ \A c \in Clients : pc'[c] = pc[c] /\ back'[c] = back[c]
  BY <1>0, <1>2, ServerWaits
<1>4. ~Running'
  BY <1>3 DEF Running, Returned
<1>5. \A c \in Clients : Calm(c)
  BY <1>2, <1>4, CalmBefore
<1>6. \A c \in Clients : To(c)' = To(c)
  BY <1>3 DEF To, Waiting
<1>7. \A e \in Ends : e # S(d) => posted'[e] = posted[e]
  BY <1>2, PostAt DEF TypeInv
<1>8. \A c, v : SignalIs(c, v) => SignalIs(c, v)'
  BY <1>2 DEF SignalIs
<1>9. ASSUME NEW c \in Clients, c # d PROVE Hand(c)'
  <2>1. S(c) # S(d) /\ K(c) # S(d)
    BY <1>9, EndNames
  <2>2. Same(c)
    BY <1>0, <1>2, <1>6, <1>7, <1>8, <2>1 DEF Same
  <2>3. QED
    BY <1>0, <1>5, <2>2, HandKept
<1>10. Hand(d)'
  <2>1. link[d] \in {"up", "down"}
    BY <1>0, <1>1 DEF ServerLink
  <2>2. ~Ready(K(d))
    <3>1. SUFFICES ASSUME Ready(K(d)) PROVE FALSE
      OBVIOUS
    <3>2. cqRecv[K(d)] + recvState[K(d)] > 0
      BY <1>0, <3>1, FlowTyped DEF Ready
    <3>3. QED
      BY <1>0, <1>1, <3>2 DEF EndOk
  <2>3. To(d) = "ready"
    BY <1>0, <2>1, <2>2 DEF ClientStage, Linked, To, Waiting
  <2>4. link[d] # "down"
    BY <1>0, <2>3, DownEnded DEF Ended, Over
  <2>5. Fresh(d) /\ Fresh(d)'
    BY <1>2, <1>6, <2>3, <2>4 DEF Fresh
  <2>6. Unpublished(d)
    BY <1>0, <2>5, Stages
  <2>7. OnlyMr(S(d))'
    BY <1>0, <1>2, <2>6, OnlyMrMore DEF Unpublished
  <2>8. OnlyMr(K(d))'
    <3>1. K(d) # S(d)
      BY EndNames
    <3>2. QED
      BY <1>0, <1>7, <2>6, <3>1 DEF Unpublished, OnlyMr
  <2>9. SignalIs(d, 0)'
    BY <1>8, <2>6 DEF Unpublished
  <2>10. QED
    BY <1>2, <1>5, <2>5, <2>6, <2>7, <2>8, <2>9, StillFresh
<1>11. QED
  BY <1>9, <1>10

-------------------------------------------------------------------------------
\* The server looks at the address of client i, and at no other's.
LEMMA AtVisit ==
  ASSUME TypeInv, TalkInv, NEW i \in Clients, Ready(S(i))
  PROVE  /\ ordered[i] = i /\ AddrAt(i) \in Clients
         /\ AddrAt(i) + 1 \in DOMAIN conns /\ conns[AddrAt(i) + 1] = i
         /\ \A r \in Clients : r + 1 \in DOMAIN conns /\ conns[r + 1] = i => r = AddrAt(i)
         /\ \A v : SignalIs(i, v) => saddr[AddrAt(i)].signal = v
<1>1. ordered[i] = i
  BY DEF TalkInv, FlowInv, OrderedInv, Ready
<1>2. life[S(i)] # "none"
  BY ReadySent
<1>3. /\ Region(i) \in Clients /\ Region(i) + 1 \in DOMAIN conns /\ conns[Region(i) + 1] = i
      /\ \A j, k \in DOMAIN conns : conns[j] = conns[k] => j = k
  BY <1>2, RegionOf DEF TypeInv, LifeInv, Conns
<1>4. AddrAt(i) = Region(i)
  BY <1>1 DEF AddrAt
<1>5. PICK x \in Clients : x = AddrAt(i)
  BY <1>3, <1>4
<1>6. ASSUME NEW r \in Clients, r + 1 \in DOMAIN conns, conns[r + 1] = i PROVE r = x
  <2>1. r + 1 = x + 1
    BY <1>3, <1>4, <1>5, <1>6
  <2>2. r \in Int /\ x \in Int
    BY EndsFinite DEF Clients
  <2>3. QED
    BY <2>1, <2>2
<1>7. QED
  BY <1>1, <1>3, <1>4, <1>5, <1>6 DEF SignalIs

\* What a visit of client i leaves alone.
LEMMA VisitLeavesAlone ==
  ASSUME TypeInv, TalkInv, TalkInv', Runs, TearInv, NEW i \in Clients,
         VisitReads(i) \/ VisitAcks(i) \/ VisitEnds(i)
  PROVE  /\ Running /\ Running' /\ \A c \in Clients : Ready(S(c))
         /\ UNCHANGED <<caddr, link, conns, recvs, flying, cqSend, cqRecv>>
         /\ \A c \in Clients : To(c)' = To(c) /\ (c # i => Hand(c)')
         /\ \A e \in Ends : e # S(i) => posted'[e] = posted[e]
         /\ AddrAt(i) \in Clients
<1>0. /\ LifeType /\ rest \in [Clients -> Nat] /\ held \in [Clients -> BOOLEAN] /\ done \in [Clients -> BOOLEAN]
      /\ saddr \in [Clients -> [signal : {0, 1, 11}, from : Memory]]
      /\ \A c \in Clients : S(c) \in Ends /\ K(c) \in Ends /\ K(c) # S(i) /\ (c # i => S(c) # S(i))
      /\ \A c \in Clients : Hand(c)
  BY EndNames DEF TypeInv, LifeInv, RestType, TearInv
<1>1. pc[Server] = "visit" /\ UNCHANGED <<caddr, link, conns, recvs, flying, cqSend, cqRecv>>
  BY DEF VisitReads, VisitAcks, VisitEnds, Visits, cmVars
<1>2. To(Server) = "visit" /\ Running /\ Running'
  BY <1>1 DEF Running, Runs, To, Waiting
<1>3. \A c \in Clients : Ready(S(c))
  BY <1>2 DEF TearInv, Doneness
<1>4. \E j, n, over : NextTurn(j, n, over)
  BY DEF VisitReads, VisitAcks, VisitEnds
<1>5. \A c \in Clients : To(c)' = To(c)
  <2>1. \A c \in Clients : pc'[c] = pc[c] /\ back'[c] = back[c]
    BY <1>0, <1>4, ServerWaits
  <2>2. QED
    BY <2>1 DEF To, Waiting
<1>6. /\ ordered[i] = i /\ AddrAt(i) \in Clients
      /\ AddrAt(i) + 1 \in DOMAIN conns /\ conns[AddrAt(i) + 1] = i
  BY <1>3, AtVisit
<1>7. \A e \in Ends : e # S(i) => posted'[e] = posted[e]
  <2>1. posted' = posted \/ \E op, m : Post(S(i), op, m)
    BY <1>6 DEF VisitReads, VisitAcks, VisitEnds, S
  <2>2. QED
    BY <2>1, PostAt DEF TypeInv
<1>8. ASSUME NEW c \in Clients, c # i PROVE Hand(c)'
  <2>1. held'[c] = held[c] /\ done'[c] = done[c] /\ rest'[c] = rest[c]
    BY <1>0, <1>8 DEF VisitReads, VisitAcks, VisitEnds
  <2>2. posted'[S(c)] = posted[S(c)] /\ posted'[K(c)] = posted[K(c)]
    BY <1>0, <1>7, <1>8
  <2>3. \A v : SignalIs(c, v) => SignalIs(c, v)'
    <3>1. CASE saddr' = saddr
      BY <1>1, <3>1 DEF SignalIs
    <3>2. CASE saddr' = [saddr EXCEPT ![AddrAt(i)].signal = 0]
      <4>1. PICK x \in Clients : x = AddrAt(i)
        BY <1>6
      <4>2. \A r \in Clients : r # x => saddr'[r] = saddr[r]
        BY <1>0, <3>2, <4>1
      <4>3. conns[x + 1] = i
        BY <1>6, <4>1
      <4>4. QED
        BY <1>1, <1>8, <4>2, <4>3 DEF SignalIs
    <3>3. QED
      BY <3>1, <3>2 DEF VisitReads, VisitAcks, VisitEnds
  <2>4. Outstanding(S(c))' = Outstanding(S(c))
    BY <1>1, <2>2 DEF Outstanding
  <2>5. Calm(c)
    BY <2>1, <2>4, CalmQuiet
  <2>6. Same(c)
    BY <1>1, <1>5, <2>1, <2>2, <2>3 DEF Same
  <2>7. QED
    BY <1>0, <2>5, <2>6, HandKept
<1>9. QED
  BY <1>1, <1>2, <1>3, <1>5, <1>6, <1>7, <1>8

\* What is under way at an end at which nothing was.
LEMMA OneOutstanding ==
  ASSUME TypeInv, NEW e \in Ends, Outstanding(e) = 0, Len(posted'[e]) = 1,
         UNCHANGED <<recvs, flying, cqSend, cqRecv>>
  PROVE  Outstanding(e)' = 1
<1>1. PICK n \in Nat, k \in Nat, a \in Nat, b \in Nat, d \in Nat :
             /\ n = Len(posted[e]) /\ k = flying[e] /\ a = cqSend[e]
             /\ b = recvs[e] /\ d = cqRecv[e]
  BY FlowTyped
<1>2. b + n + k + a + d = 0
  BY <1>1 DEF Outstanding
<1>3. b = 0 /\ k = 0 /\ a = 0 /\ d = 0
  BY <1>2
<1>4. recvs'[e] = 0 /\ flying'[e] = 0 /\ cqSend'[e] = 0 /\ cqRecv'[e] = 0
  BY <1>1, <1>3
<1>5. 0 + 1 + 0 + 0 + 0 = 1
  OBVIOUS
<1>6. QED
  BY <1>4, <1>5, Zenon DEF Outstanding

\* The server reads what a client has published.
LEMMA ReadsHands ==
  ASSUME TypeInv, TalkInv, TalkInv', Runs, TearInv, NEW i \in Clients, VisitReads(i)
  PROVE  \A c \in Clients : Hand(c)'
<1>0. /\ rest \in [Clients -> Nat] /\ held \in [Clients -> BOOLEAN] /\ S(i) \in Ends /\ K(i) \in Ends
      /\ K(i) # S(i) /\ Hand(i)
  BY EndNames DEF TypeInv, RestType, TearInv
<1>1. /\ Running /\ Running' /\ Ready(S(i))
      /\ UNCHANGED <<caddr, link, conns, recvs, flying, cqSend, cqRecv>>
      /\ \A c \in Clients : To(c)' = To(c) /\ (c # i => Hand(c)')
      /\ \A e \in Ends : e # S(i) => posted'[e] = posted[e]
  BY VisitLeavesAlone
<1>2. ordered[i] = i /\ \A v : SignalIs(i, v) => saddr[AddrAt(i)].signal = v
  BY <1>1, AtVisit
<1>3. /\ ~held[i] /\ saddr[AddrAt(i)].signal = 1 /\ UNCHANGED <<saddr, done>>
      /\ held' = [held EXCEPT ![i] = TRUE] /\ rest' = [rest EXCEPT ![i] = @ + 1]
      /\ \E m : Post(S(i), "read", m)
  BY <1>2 DEF VisitReads, S
<1>4. Published(i)
  BY <1>0, <1>2, <1>3 DEF Hand, Unpublished, Publishing, Reading, Answering, Answered, Ending, Ended
<1>5. held'[i] /\ rest'[i] = 1
  <2>1. rest[i] = 0
    BY <1>4 DEF Published, Idle
  <2>2. QED
    BY <1>0, <1>3, <2>1
<1>6. One(S(i), "read")'
  BY <1>0, <1>3, <1>4, OnePosted DEF Published
<1>7. Outstanding(S(i))' = 1
  BY <1>0, <1>1, <1>4, <1>6, OneOutstanding DEF Published, Rested, One
<1>8. Nothing(K(i))' /\ SignalIs(i, 1)'
  BY <1>0, <1>1, <1>3, <1>4 DEF Published, Nothing, SignalIs
<1>9. Reading(i)'
  BY <1>1, <1>3, <1>4, <1>5, <1>6, <1>7, <1>8 DEF Published, Reading, Sent
<1>10. QED
  BY <1>1, <1>9 DEF Hand

\* The server has the data, and answers.
LEMMA AcksHands ==
  ASSUME TypeInv, TalkInv, TalkInv', Runs, TearInv, NEW i \in Clients, VisitAcks(i)
  PROVE  \A c \in Clients : Hand(c)'
<1>0. /\ rest \in [Clients -> Nat] /\ held \in [Clients -> BOOLEAN] /\ S(i) \in Ends /\ K(i) \in Ends
      /\ saddr \in [Clients -> [signal : {0, 1, 11}, from : Memory]]
      /\ K(i) # S(i) /\ Hand(i)
  BY EndNames DEF TypeInv, RestType, TearInv
<1>1. /\ Running /\ Running' /\ Ready(S(i))
      /\ UNCHANGED <<caddr, link, conns, recvs, flying, cqSend, cqRecv>>
      /\ \A c \in Clients : To(c)' = To(c) /\ (c # i => Hand(c)')
      /\ \A e \in Ends : e # S(i) => posted'[e] = posted[e]
      /\ AddrAt(i) \in Clients
  BY VisitLeavesAlone
<1>2. ordered[i] = i /\ \A r \in Clients : r + 1 \in DOMAIN conns /\ conns[r + 1] = i => r = AddrAt(i)
  BY <1>1, AtVisit
<1>3. /\ held[i] /\ rest[i] = 0 /\ UNCHANGED <<rest, done>>
      /\ held' = [held EXCEPT ![i] = FALSE] /\ saddr' = [saddr EXCEPT ![AddrAt(i)].signal = 0]
      /\ \E m : Post(S(i), "write", m)
  BY <1>2 DEF VisitAcks, S
<1>4. Reading(i)
  BY <1>0, <1>3 DEF Hand, Unpublished, Publishing, Published, Answering, Answered, Ending, Ended,
      Idle
<1>5. Nothing(S(i))
  BY <1>0, <1>3, <1>4, QuietNothing DEF Reading
<1>6. One(S(i), "write")'
  BY <1>0, <1>3, <1>5, OnePosted
<1>7. SignalIs(i, 0)'
  <2>1. PICK x \in Clients : x = AddrAt(i)
    BY <1>1
  <2>2. saddr'[x].signal = 0
    BY <1>0, <1>3, <2>1
  <2>3. QED
    BY <1>1, <1>2, <2>1, <2>2 DEF SignalIs
<1>8. Idle(i)' /\ Nothing(K(i))'
  BY <1>0, <1>1, <1>3, <1>4 DEF Idle, Nothing, Reading
<1>9. Answering(i)'
  BY <1>1, <1>3, <1>4, <1>6, <1>7, <1>8 DEF Reading, Answering, Sent
<1>10. QED
  BY <1>1, <1>9 DEF Hand

\* The server sees that a client is done.
LEMMA EndsHands ==
  ASSUME TypeInv, TalkInv, TalkInv', Runs, TearInv, NEW i \in Clients, VisitEnds(i)
  PROVE  \A c \in Clients : Hand(c)'
<1>0. Hand(i)
  BY DEF TearInv
<1>1. /\ Running /\ Running' /\ Ready(S(i)) /\ UNCHANGED <<caddr, link, conns>>
      /\ \A c \in Clients : To(c)' = To(c) /\ (c # i => Hand(c)')
  BY VisitLeavesAlone
<1>2. \A v : SignalIs(i, v) => saddr[AddrAt(i)].signal = v
  BY <1>1, AtVisit
<1>3. ~held[i] /\ saddr[AddrAt(i)].signal = 11 /\ UNCHANGED <<saddr, held, rest, posted>>
  BY DEF VisitEnds
<1>4. Ended(i)
  BY <1>0, <1>2, <1>3 DEF Hand, Unpublished, Publishing, Published, Reading, Answering, Answered,
      Ending
<1>5. Nothing(K(i))' /\ Nothing(S(i))' /\ SignalIs(i, 11)' /\ Idle(i)' /\ Over(i)'
  BY <1>1, <1>3, <1>4 DEF Ended, Nothing, SignalIs, Idle, Over
<1>6. Ended(i)'
  BY <1>1, <1>4, <1>5 DEF Ended
<1>7. QED
  BY <1>1, <1>6 DEF Hand

\* The server takes connections down when all clients are done.
LEMMA DisconnectHands ==
  ASSUME TypeInv, TalkInv, TalkInv', Runs, TearInv, ServerDisconnect
  PROVE  \A c \in Clients : Hand(c)'
<1>0. /\ pc \in [Procs -> States] /\ Clients \subseteq Procs /\ Server \notin Clients
      /\ link \in [Clients -> Links]
  BY Owners DEF TypeInv, WakeType, LifeInv, LifeType
<1>1. /\ pc[Server] = "disconnect"
      /\ UNCHANGED <<caddr, saddr, held, done, conns, rest, recvs, posted, flying, cqSend, cqRecv>>
      /\ \A c \in Clients : pc'[c] = pc[c] /\ back'[c] = back[c]
  BY <1>0 DEF ServerDisconnect, connVars, addrVars, nicVars, pollVars
<1>2. To(Server) = "disconnect"
  BY <1>1 DEF To, Waiting
<1>3. \A c \in Clients : done[c] /\ Hand(c)
  BY <1>2 DEF TearInv, Doneness
<1>4. \A c \in Clients : Ended(c)
  BY <1>3 DEF Hand, Unpublished, Publishing, Published, Reading, Answering, Answered, Ending
<1>5. PICK d \in Clients : Disconnect(d)
  BY DEF ServerDisconnect
<1>6. \A c \in Clients : link[c] = "down" => link'[c] = "down"
  BY <1>0, <1>5 DEF Disconnect, cmVars
<1>7. SUFFICES ASSUME NEW c \in Clients PROVE Hand(c)'
  OBVIOUS
<1>8. To(c)' = To(c)
  BY <1>1 DEF To, Waiting
<1>9. Nothing(K(c))' /\ Nothing(S(c))' /\ SignalIs(c, 11)' /\ Idle(c)' /\ Over(c)'
  BY <1>1, <1>4, <1>6, <1>8 DEF Ended, Nothing, SignalIs, Idle, Over
<1>10. Ended(c)'
  BY <1>1, <1>4, <1>9 DEF Ended, Runs
<1>11. QED
  BY <1>10 DEF Hand

\* The steps of the server.
LEMMA ServerHands ==
  ASSUME TypeInv, TalkInv, TalkInv', Kept, Runs, TearInv, ServerStep,
         ~Polls(Server) \/ Drained(Server)
  PROVE  \A c \in Clients : Hand(c)'
<1>1. \/ TellAddress \/ Accept \/ CountEstablished \/ ServerReady \/ OnDisconnect
      \/ Drained(Server) \/ OnConnectRequest \/ OnEstablished \/ ServerDisconnect
      \/ \E i \in Clients : VisitReads(i) \/ VisitAcks(i) \/ VisitEnds(i) \/ VisitNothing(i)
  BY DEF ServerStep, Visit
<1>2. QED
  BY <1>1, ServerQuietHands, RequestHands, EstablishedHands, ReadsHands, AcksHands, EndsHands,
     DisconnectHands

-------------------------------------------------------------------------------
\* What taking a completion does to the counts of one connection.
LEMMA PollCalm ==
  ASSUME TypeInv, TalkInv, TalkInv', Kept, Runs, Doneness, NEW e \in Ends,
         PollSend(e) \/ PollRecv(e), NEW c \in Clients
  PROVE  Calm(c)
<1>0. /\ rest \in [Clients -> Nat] /\ S(c) \in Ends /\ EndsOk /\ ClientNum \notin Clients
      /\ OrderedInv /\ Outstanding(S(c)) \in Nat
  BY EndNames, Owners, FlowTyped DEF TypeInv, RestType, TalkInv, FlowInv, Server
<1>1. \E s, r : OnCompletion(e, s, r)
  BY DEF PollSend, PollRecv
<1>2. rest'[c] = IF Owner(e) = Server /\ ordered[c] = e[2] /\ rest[c] > 0 THEN rest[c] - 1 ELSE rest[c]
  BY <1>1 DEF OnCompletion
<1>3. CASE e # S(c)
  <2>1. Outstanding(S(c))' = Outstanding(S(c))
    BY <1>0, <1>3, EndsPollSend, EndsPollRecv
  <2>2. ~(Owner(e) = Server /\ ordered[c] = e[2])
    <3>1. SUFFICES ASSUME Owner(e) = Server, ordered[c] = e[2] PROVE FALSE
      OBVIOUS
    <3>2. PICK d \in Clients : e = S(d) \/ e = K(d)
      BY EndNames
    <3>3. e = S(d) /\ e[2] = d
      <4>1. e # K(d)
        BY <3>1, OtherNames, Owners
      <4>2. e = S(d)
        BY <3>2, <4>1
      <4>3. QED
        BY <4>2 DEF S
    <3>4. d = c
      BY <1>0, <3>1, <3>3 DEF OrderedInv
    <3>5. QED
      BY <1>3, <3>3, <3>4
  <2>3. rest'[c] = rest[c]
    BY <1>2, <2>2
  <2>4. QED
    BY <2>1, <2>3, CalmQuiet
<1>4. CASE e = S(c)
  <2>1. Outstanding(S(c))' = Outstanding(S(c)) - 1
    BY <1>0, <1>4, EndsPollSend, EndsPollRecv
  <2>2. Outstanding(S(c)) > 0
    BY <1>4, FlowPoll DEF TalkInv
  <2>3. Rested(c) => Rested(c)'
    <3>1. pc'[Server] = "ready" => Outstanding(S(c))' = 0
      BY DEF TalkInv, ServerStage
    <3>2. Outstanding(S(c)) # 0
      BY <1>0, <2>2
    <3>3. QED
      BY <3>1, <3>2 DEF Rested, Runs
  <2>4. rest[c] = 0 => rest'[c] = 0
    BY <1>2
  <2>5. Running => Owner(e) = Server /\ ordered[c] = e[2]
    <3>1. Owner(e) = Server /\ e[2] = c
      BY <1>4, OtherNames DEF S
    <3>2. Running => Ready(S(c))
      BY DEF Doneness
    <3>3. Ready(S(c)) => ordered[c] = c
      BY <1>0 DEF OrderedInv, Ready
    <3>4. QED
      BY <3>1, <3>2, <3>3
  <2>6. Running /\ rest[c] = Outstanding(S(c)) => rest'[c] = Outstanding(S(c))'
    BY <1>0, <1>2, <2>1, <2>2, <2>5
  <2>7. QED
    BY <2>3, <2>4, <2>6 DEF Calm, Runs
<1>5. QED
  BY <1>3, <1>4

\* Taking completions.
LEMMA PollHands ==
  ASSUME TypeInv, TalkInv, TalkInv', Kept, Runs, TearInv, NEW p \in Procs, Polls(p), ~Drained(p)
  PROVE  \A c \in Clients : Hand(c)'
<1>1. CASE GetCqEvent(p) \/ PollEmpty(p)
  <2>1. /\ UNCHANGED <<caddr, saddr, held, done, conns, rest, recvs, posted, flying, cqSend, cqRecv>>
        /\ UNCHANGED <<pc, back, link>>
    BY <1>1 DEF GetCqEvent, PollEmpty, connVars, addrVars, nicVars, cmVars
  <2>2. QED
    BY <2>1, ServerLeavesAlone
<1>2. ASSUME NEW e \in Ends, PollSend(e) \/ PollRecv(e), NEW c \in Clients PROVE Hand(c)'
  <2>1. UNCHANGED <<pc, back, link, caddr, saddr, held, done, conns, posted>>
    BY <1>2 DEF PollSend, PollRecv, addrVars, cmVars, pollVars
  <2>2. Calm(c)
    BY <1>2, PollCalm DEF TearInv
  <2>3. To(c)' = To(c)
    BY <2>1 DEF To, Waiting
  <2>4. \A v : SignalIs(c, v) => SignalIs(c, v)'
    BY <2>1 DEF SignalIs
  <2>5. Same(c)
    BY <2>1, <2>3, <2>4 DEF Same
  <2>6. QED
    BY <2>2, <2>5, HandKept DEF TearInv
<1>3. QED
  BY <1>1, <1>2 DEF Polls

-------------------------------------------------------------------------------
\* What the NIC leaves alone.
LEMMA NicLeavesAlone ==
  ASSUME TypeInv, TalkInv, TalkInv', Kept, Runs, NEW e \in Ends, Nic(e)
  PROVE  /\ UNCHANGED <<pc, back, link, held, done, conns, rest>>
         /\ \A c \in Clients : Calm(c) /\ To(c)' = To(c)
         /\ \A f \in Ends : f # e => posted'[f] = posted[f]
<1>1. UNCHANGED <<pc, back, link, held, done, conns, rest>>
  BY DEF Nic, Deliver, Read, Write, WriteCompletes, addrVars, connVars, cmVars, pollVars
<1>2. \A f \in Ends : Outstanding(f)' = Outstanding(f)
  BY EndsNic DEF TalkInv, FlowInv
<1>3. \A c \in Clients : Calm(c) /\ To(c)' = To(c)
  <2>1. \A c \in Clients : Outstanding(S(c))' = Outstanding(S(c))
    BY <1>2, EndNames
  <2>2. QED
    BY <1>1, <2>1, CalmQuiet DEF To, Waiting
<1>4. \A f \in Ends : f # e => posted'[f] = posted[f]
  <2>1. posted' = posted \/ posted' = [posted EXCEPT ![e] = Tail(@)]
    BY DEF Nic, Deliver, Read, Write, WriteCompletes
  <2>2. QED
    BY <2>1 DEF TypeInv, RestType
<1>5. QED
  BY <1>1, <1>3, <1>4

\* The connections whose requests the NIC does not look at.
LEMMA NicElsewhere ==
  ASSUME TypeInv, TalkInv, TalkInv', Kept, Runs, NEW e \in Ends, Nic(e), NEW c \in Clients,
         Hand(c), e # K(c), e # S(c), caddr'[c] = caddr[c],
         \A v : SignalIs(c, v) => SignalIs(c, v)'
  PROVE  Hand(c)'
<1>1. /\ UNCHANGED <<pc, back, link, held, done>> /\ Calm(c) /\ To(c)' = To(c)
      /\ posted'[K(c)] = posted[K(c)] /\ posted'[S(c)] = posted[S(c)]
  BY NicLeavesAlone, EndNames
<1>2. Same(c)
  BY <1>1 DEF Same
<1>3. QED
  BY <1>1, <1>2, HandKept

\* The head of what is posted, and what is left after it.
LEMMA HeadGone ==
  ASSUME TypeInv, NEW e \in Ends, posted[e] # << >>, posted' = [posted EXCEPT ![e] = Tail(@)]
  PROVE  /\ \E i \in DOMAIN posted[e] : posted[e][i] = Head(posted[e])
         /\ OnlyMr(e) => Head(posted[e]).op = "mr" /\ OnlyMr(e)'
         /\ \A op : One(e, op) => Head(posted[e]).op = op /\ Nothing(e)'
<1>1. PICK q \in Seq(Operations) : q = posted[e]
  BY FlowTyped
<1>2. q # << >> /\ posted'[e] = Tail(q)
  <2>1. posted'[e] = Tail(posted[e])
    BY DEF TypeInv, RestType
  <2>2. QED
    BY <1>1, <2>1
<1>3. Head(q) = q[1] /\ 1 \in DOMAIN q /\ \A i \in DOMAIN Tail(q) : i + 1 \in DOMAIN q /\ Tail(q)[i] = q[i + 1]
  BY <1>2
<1>4. OnlyMr(e) => Head(q).op = "mr" /\ OnlyMr(e)'
  BY <1>1, <1>2, <1>3 DEF OnlyMr
<1>5. ASSUME Len(q) = 1 PROVE Tail(q) = << >>
  <2>1. Tail(q) \in Seq(Operations) /\ Len(Tail(q)) = Len(q) - 1
    BY <1>2
  <2>2. PICK t \in Seq(Operations) : t = Tail(q)
    BY <2>1
  <2>3. Len(t) = 0
    BY <1>5, <2>1, <2>2
  <2>4. t = << >>
    BY <2>3
  <2>5. QED
    BY <2>2, <2>4
<1>6. \A op : One(e, op) => Head(q).op = op /\ Nothing(e)'
  BY <1>1, <1>2, <1>3, <1>5 DEF One, Nothing
<1>7. QED
  BY <1>1, <1>3, <1>4, <1>6

\* The completion of a write.
LEMMA CompletesHands ==
  ASSUME TypeInv, TalkInv, TalkInv', Kept, Runs, TearInv, NEW e \in Ends, WriteCompletes(e)
  PROVE  \A c \in Clients : Hand(c)'
<1>1. SUFFICES ASSUME NEW c \in Clients PROVE Hand(c)'
  OBVIOUS
<1>2. UNCHANGED <<pc, back, link, held, done, conns, caddr, saddr, posted>> /\ Calm(c) /\ To(c)' = To(c)
  <2>1. UNCHANGED <<caddr, saddr, posted>>
    BY DEF WriteCompletes, addrVars
  <2>2. Nic(e)
    BY DEF Nic
  <2>3. QED
    BY <2>1, <2>2, NicLeavesAlone
<1>3. \A v : SignalIs(c, v) => SignalIs(c, v)'
  BY <1>2 DEF SignalIs
<1>4. Same(c)
  BY <1>2, <1>3 DEF Same
<1>5. QED
  BY <1>2, <1>4, HandKept DEF TearInv

\* A message, or what the server reads.
LEMMA DeliverHands ==
  ASSUME TypeInv, TalkInv, TalkInv', Kept, Runs, TearInv, NEW e \in Ends, Deliver(e) \/ Read(e)
  PROVE  \A c \in Clients : Hand(c)'
<1>1. SUFFICES ASSUME NEW c \in Clients PROVE Hand(c)'
  OBVIOUS
<1>0. Hand(c) /\ K(c) \in Ends /\ S(c) \in Ends /\ K(c) # S(c)
  BY EndNames DEF TearInv
<1>2. UNCHANGED <<caddr, saddr>> /\ posted[e] # << >> /\ posted' = [posted EXCEPT ![e] = Tail(@)]
      /\ Head(posted[e]).op \in {"mr", "read"}
  BY DEF Deliver, Read, addrVars
<1>3. /\ UNCHANGED <<pc, back, link, held, done, conns, rest>> /\ Calm(c) /\ To(c)' = To(c)
      /\ \A f \in Ends : f # e => posted'[f] = posted[f]
  BY NicLeavesAlone DEF Nic
<1>4. \A v : SignalIs(c, v) => SignalIs(c, v)'
  BY <1>2, <1>3 DEF SignalIs
<1>5. CASE e # K(c) /\ e # S(c)
  BY <1>0, <1>2, <1>4, <1>5, NicElsewhere DEF Nic
<1>6. CASE e = K(c) \/ e = S(c)
  <2>1. /\ OnlyMr(e) => Head(posted[e]).op = "mr" /\ OnlyMr(e)'
        /\ \A op : One(e, op) => Head(posted[e]).op = op /\ Nothing(e)'
        /\ ~Nothing(e)
    BY <1>2, HeadGone DEF Nothing
  <2>2. ~One(e, "write")
    BY <1>2, <2>1
  <2>3. Unpublished(c) \/ (Reading(c) /\ e = S(c) /\ One(S(c), "read"))
    BY <1>0, <1>6, <2>1, <2>2 DEF Hand, Publishing, Published, Reading, Answering, Answered,
        Ending, Ended
  <2>4. CASE Unpublished(c)
    <3>1. OnlyMr(K(c))' /\ OnlyMr(S(c))'
      BY <1>0, <1>3, <1>6, <2>1, <2>4 DEF Unpublished, OnlyMr
    <3>2. Fresh(c)' /\ SignalIs(c, 0)'
      BY <1>3, <1>4, <2>4 DEF Unpublished, Fresh
    <3>3. QED
      BY <1>2, <1>3, <2>4, <3>1, <3>2, StillFresh
  <2>5. CASE Reading(c) /\ e = S(c) /\ One(S(c), "read")
    <3>1. Nothing(S(c))' /\ Nothing(K(c))' /\ SignalIs(c, 1)' /\ Sent(c)'
      BY <1>0, <1>3, <1>4, <2>1, <2>5 DEF Reading, Nothing, Sent
    <3>2. Reading(c)'
      BY <1>2, <1>3, <2>5, <3>1 DEF Reading, Calm
    <3>3. QED
      BY <3>2 DEF Hand
  <2>6. QED
    BY <2>3, <2>4, <2>5
<1>7. QED
  BY <1>5, <1>6

-------------------------------------------------------------------------------
\* What a request is for: the memory this end was told of.
LEMMA TargetOf ==
  ASSUME TypeInv, TalkInv, NEW e \in Ends, posted[e] # << >>, Head(posted[e]).op = "write"
  PROVE  Head(posted[e]).mem = MemoryOf(Other(e)) /\ life[Other(e)] # "none"
<1>0. EndOk(e) /\ EndOk(Other(e)) /\ Other(e) \in Ends
  BY Owners DEF TalkInv, FlowInv, EndsOk
<1>1. PICK q \in Seq(Operations) : q = posted[e]
  BY FlowTyped
<1>2. q # << >>
  BY <1>1
<1>3. \E j \in DOMAIN q : Head(q) = q[j]
  BY <1>2
<1>4. PICK w : w = Head(posted[e])
  OBVIOUS
<1>5. w.op = "write" /\ \E j \in DOMAIN posted[e] : w = posted[e][j]
  BY <1>1, <1>3, <1>4
<1>6. w.mem = peer[e] /\ recvState[e] > 0
  BY <1>0, <1>5 DEF EndOk, PostedOk
<1>7. cqRecv[e] + recvState[e] > 0
  BY <1>6, FlowTyped
<1>8. w.mem = MemoryOf(Other(e)) /\ Sends(Other(e)) > 0
  BY <1>0, <1>6, <1>7 DEF EndOk
<1>9. QED
  BY <1>0, <1>4, <1>8 DEF EndOk

\* A client has one region.
LEMMA RegionOne ==
  ASSUME TypeInv, NEW c \in Clients, life[S(c)] # "none"
  PROVE  /\ Region(c) \in Clients /\ Region(c) + 1 \in DOMAIN conns /\ conns[Region(c) + 1] = c
         /\ \A r \in Clients : r + 1 \in DOMAIN conns /\ conns[r + 1] = c => r = Region(c)
         /\ \A v : SignalIs(c, v) => saddr[Region(c)].signal = v
<1>1. /\ Region(c) \in Clients /\ Region(c) + 1 \in DOMAIN conns /\ conns[Region(c) + 1] = c
      /\ \A j, k \in DOMAIN conns : conns[j] = conns[k] => j = k
  BY RegionOf DEF TypeInv, LifeInv, Conns
<1>2. PICK x \in Clients : x = Region(c)
  BY <1>1
<1>3. ASSUME NEW r \in Clients, r + 1 \in DOMAIN conns, conns[r + 1] = c PROVE r = x
  <2>1. r + 1 = x + 1
    BY <1>1, <1>2, <1>3
  <2>2. r \in Int /\ x \in Int
    BY EndsFinite DEF Clients
  <2>3. QED
    BY <2>1, <2>2
<1>4. QED
  BY <1>1, <1>2, <1>3 DEF SignalIs

\* A client's address comes to the server: it publishes, or is done.
LEMMA ClientWriteHands ==
  ASSUME TypeInv, TalkInv, TalkInv', Kept, Runs, TearInv, NEW d \in Clients, Write(K(d))
  PROVE  \A c \in Clients : Hand(c)'
<1>0. /\ saddr \in [Clients -> [signal : {0, 1, 11}, from : Memory]] /\ Hand(d)
      /\ K(d) \in Ends /\ S(d) \in Ends /\ K(d) # S(d) /\ Other(K(d)) = S(d)
  BY EndNames, OtherNames DEF TypeInv, RestType, TearInv
<1>1. /\ posted[K(d)] # << >> /\ Head(posted[K(d)]).op = "write"
      /\ posted' = [posted EXCEPT ![K(d)] = Tail(@)]
  BY DEF Write
<1>2. Head(posted[K(d)]).mem = <<"server", Region(d)>> /\ life[S(d)] # "none"
  <2>1. Head(posted[K(d)]).mem = MemoryOf(S(d)) /\ life[S(d)] # "none"
    BY <1>0, <1>1, TargetOf
  <2>2. MemoryOf(S(d)) = <<"server", Region(d)>>
    BY DEF MemoryOf, S
  <2>3. QED
    BY <2>1, <2>2
<1>3. PICK x \in Clients : x = Region(d)
  BY <1>2, RegionOne
<1>4. /\ x + 1 \in DOMAIN conns /\ conns[x + 1] = d
      /\ \A r \in Clients : r + 1 \in DOMAIN conns /\ conns[r + 1] = d => r = x
  BY <1>2, <1>3, RegionOne
<1>5. saddr' = [saddr EXCEPT ![x] = [signal |-> caddr[d], from |-> K(d)]] /\ caddr' = caddr
  BY <1>2, <1>3 DEF Write, K
<1>6. /\ \A r \in Clients : r # x => saddr'[r] = saddr[r]
      /\ saddr'[x].signal = caddr[d]
  BY <1>0, <1>5
<1>7. /\ UNCHANGED <<pc, back, link, held, done, conns, rest>>
      /\ \A c \in Clients : Calm(c) /\ To(c)' = To(c)
      /\ \A f \in Ends : f # K(d) => posted'[f] = posted[f]
  BY <1>0, NicLeavesAlone DEF Nic
<1>8. ASSUME NEW c \in Clients, c # d PROVE Hand(c)'
  <2>1. \A v : SignalIs(c, v) => SignalIs(c, v)'
    BY <1>4, <1>6, <1>7, <1>8 DEF SignalIs
  <2>2. K(d) # K(c) /\ K(d) # S(c) /\ Nic(K(d))
    BY <1>8, EndNames DEF Nic
  <2>3. QED
    BY <1>0, <1>5, <2>1, <2>2, NicElsewhere DEF TearInv
<1>9. SignalIs(d, caddr[d])'
  BY <1>4, <1>5, <1>6, <1>7 DEF SignalIs
<1>10. /\ OnlyMr(K(d)) => Head(posted[K(d)]).op = "mr"
       /\ \A op : One(K(d), op) => Head(posted[K(d)]).op = op /\ Nothing(K(d))'
       /\ ~Nothing(K(d))
  BY <1>0, <1>1, HeadGone DEF Nothing
<1>11. Publishing(d) \/ Ending(d)
  BY <1>0, <1>1, <1>10 DEF Hand, Unpublished, Published, Reading, Answering, Answered, Ended
<1>12. /\ Nothing(S(d)) => Nothing(S(d))'
       /\ Idle(d) => Idle(d)' 
       /\ Sent(d) => Sent(d)'
       /\ To(d) = "disconnect" => Over(d)'
  BY <1>0, <1>7 DEF Nothing, Idle, Sent, Over
<1>13. CASE Publishing(d)
  <2>1. Published(d)'
    BY <1>5, <1>7, <1>9, <1>10, <1>12, <1>13 DEF Publishing, Published, Calm
  <2>2. QED
    BY <1>8, <2>1 DEF Hand
<1>14. CASE Ending(d)
  <2>1. Ended(d)'
    BY <1>5, <1>7, <1>9, <1>10, <1>12, <1>14 DEF Ending, Ended, Calm
  <2>2. QED
    BY <1>8, <2>1 DEF Hand
<1>15. QED
  BY <1>11, <1>13, <1>14

\* The answer of the server comes to a client.
LEMMA ServerWriteHands ==
  ASSUME TypeInv, TalkInv, TalkInv', Kept, Runs, TearInv, NEW d \in Clients, Write(S(d))
  PROVE  \A c \in Clients : Hand(c)'
<1>0. /\ caddr \in [Clients -> {0, 1, 11}] /\ Hand(d)
      /\ K(d) \in Ends /\ S(d) \in Ends /\ K(d) # S(d) /\ Other(S(d)) = K(d) /\ MemoryOf(K(d)) = K(d)
  BY EndNames, OtherNames DEF TypeInv, RestType, TearInv
<1>1. /\ posted[S(d)] # << >> /\ Head(posted[S(d)]).op = "write"
      /\ posted' = [posted EXCEPT ![S(d)] = Tail(@)]
  BY DEF Write
<1>2. Head(posted[S(d)]).mem = <<"client", d>>
  BY <1>0, <1>1, TargetOf DEF K
<1>3. saddr' = saddr /\ caddr' = [caddr EXCEPT ![d] = saddr[Region(d)].signal]
  <2>1. S(d)[1] = "server" /\ S(d)[2] = d
    BY DEF S
  <2>2. PICK m : m = Head(posted[S(d)]).mem
    OBVIOUS
  <2>3. m[1] = "client" /\ m[2] = d
    BY <1>2, <2>2
  <2>4. \/ m[1] = "server"
        \/ caddr' = [caddr EXCEPT ![m[2]] = saddr[Region(d)].signal] /\ saddr' = saddr
    BY <2>1, <2>2 DEF Write
  <2>5. QED
    BY <2>3, <2>4
<1>4. /\ UNCHANGED <<pc, back, link, held, done, conns, rest>>
      /\ \A c \in Clients : Calm(c) /\ To(c)' = To(c)
      /\ \A f \in Ends : f # S(d) => posted'[f] = posted[f]
  BY <1>0, NicLeavesAlone DEF Nic
<1>5. \A c, v : SignalIs(c, v) => SignalIs(c, v)'
  BY <1>3, <1>4 DEF SignalIs
<1>6. ASSUME NEW c \in Clients, c # d PROVE Hand(c)'
  <2>1. caddr'[c] = caddr[c]
    BY <1>0, <1>3, <1>6
  <2>2. S(d) # K(c) /\ S(d) # S(c) /\ Nic(S(d))
    BY <1>6, EndNames DEF Nic
  <2>3. QED
    BY <1>0, <1>5, <2>1, <2>2, NicElsewhere DEF TearInv
<1>7. /\ OnlyMr(S(d)) => Head(posted[S(d)]).op = "mr"
      /\ \A op : One(S(d), op) => Head(posted[S(d)]).op = op /\ Nothing(S(d))'
      /\ ~Nothing(S(d))
  BY <1>0, <1>1, HeadGone DEF Nothing
<1>8. Answering(d)
  BY <1>0, <1>1, <1>7 DEF Hand, Unpublished, Publishing, Published, Reading, Answered, Ending, Ended
<1>9. caddr'[d] = 0
  <2>1. Ready(S(d))
    BY <1>8 DEF Answering, TearInv, Doneness
  <2>2. life[S(d)] # "none"
    BY <2>1, ReadySent
  <2>3. saddr[Region(d)].signal = 0
    BY <1>8, <2>2, RegionOne DEF Answering
  <2>4. QED
    BY <1>0, <1>3, <2>3
<1>10. Nothing(K(d))' /\ Idle(d)' /\ Sent(d)' /\ SignalIs(d, 0)'
  BY <1>0, <1>4, <1>5, <1>8 DEF Answering, Nothing, Idle, Sent
<1>11. Answered(d)'
  BY <1>4, <1>7, <1>8, <1>9, <1>10 DEF Answering, Answered, Calm
<1>12. QED
  BY <1>6, <1>11 DEF Hand

\* The NIC.
LEMMA NicHands ==
  ASSUME TypeInv, TalkInv, TalkInv', Kept, Runs, TearInv, NEW e \in Ends, Nic(e)
  PROVE  \A c \in Clients : Hand(c)'
<1>1. PICK d \in Clients : e = K(d) \/ e = S(d)
  BY EndNames
<1>2. QED
  BY <1>1, CompletesHands, DeliverHands, ClientWriteHands, ServerWriteHands DEF Nic

\* The connection manager.
LEMMA ManagerHands ==
  ASSUME TypeInv, TalkInv, TalkInv', Runs, TearInv, Manager
  PROVE  \A c \in Clients : Hand(c)'
<1>1. /\ UNCHANGED <<caddr, saddr, held, done, conns, rest, recvs, posted, flying, cqSend, cqRecv>>
      /\ UNCHANGED <<pc, back>>
  BY DEF Manager, connVars, addrVars, nicVars, pollVars
<1>2. PICK d \in Clients : CmConnects(d) \/ CmRejects(d) \/ CmConfirms(d)
  BY DEF Manager
<1>3. link[d] \in {"request", "use"} /\ \E v \in {"requested", "rejected", "up"} : link' = [link EXCEPT ![d] = v]
  BY <1>2 DEF CmConnects, CmRejects, CmConfirms
<1>4. \A c \in Clients : link'[c] = "down" <=> link[c] = "down"
  BY <1>3 DEF TypeInv, WakeType
<1>5. QED
  BY <1>1, <1>4, ServerLeavesAlone

\* Every step.
LEMMA HandsStep ==
  ASSUME TypeInv, TalkInv, TalkInv', Kept, Runs, TearInv, [Next]_vars
  PROVE  \A c \in Clients : Hand(c)'
<1>1. ASSUME NEW p \in Procs, Polls(p), ~Drained(p) PROVE \A c \in Clients : Hand(c)'
  BY <1>1, PollHands
<1>2. ASSUME NEW d \in Clients, Client(d) PROVE \A c \in Clients : Hand(c)'
  <2>1. CASE Polls(d) /\ ~Drained(d)
    BY <1>1, <2>1, Owners
  <2>2. CASE ~(Polls(d) /\ ~Drained(d))
    BY <1>2, <2>2, ClientHands DEF Client
  <2>3. QED
    BY <2>1, <2>2
<1>3. CASE ServerStep
  <2>1. CASE Polls(Server) /\ ~Drained(Server)
    BY <1>1, <2>1, Owners
  <2>2. CASE ~Polls(Server) \/ Drained(Server)
    BY <1>3, <2>2, ServerHands
  <2>3. QED
    BY <2>1, <2>2
<1>4. CASE UNCHANGED vars
  <2>1. /\ UNCHANGED <<caddr, saddr, held, done, conns, rest, recvs, posted, flying, cqSend, cqRecv>>
        /\ UNCHANGED <<pc, back, link>>
    BY <1>4 DEF vars, connVars, addrVars, nicVars, pollVars, cmVars
  <2>2. QED
    BY <2>1, ServerLeavesAlone
<1>5. QED
  BY <1>2, <1>3, <1>4, NicHands, ManagerHands DEF Next, Others, Terminating

-------------------------------------------------------------------------------
\* An end of the server's that waits for nothing, while the server posts nothing.
LEMMA QuietEnds ==
  ASSUME TypeInv, TalkInv, Kept, [Next]_vars, ~OnConnectRequest, ~OnEstablished,
         ~(\E i \in Clients : Visit(i)), NEW c \in Clients, Outstanding(S(c)) = 0
  PROVE  Outstanding(S(c))' = 0
<1>0. S(c) \in Ends /\ \A d \in Clients : S(c) \notin {K(d)}
  BY EndNames
<1>1. ASSUME UNCHANGED <<recvs, posted, flying, cqSend, cqRecv>> PROVE Outstanding(S(c))' = 0
  BY <1>1 DEF Outstanding
<1>2. ASSUME NEW p \in Procs, Polls(p) PROVE Outstanding(S(c))' = 0
  <2>1. CASE GetCqEvent(p) \/ PollEmpty(p) \/ Drained(p)
    BY <1>1, <2>1 DEF GetCqEvent, PollEmpty, Drained, nicVars
  <2>2. CASE \E e \in Ends : PollSend(e) \/ PollRecv(e)
    <3>1. Effects({}, {})
      BY <2>2, FlowPoll DEF TalkInv
    <3>2. QED
      BY <1>0, <3>1 DEF Effects
  <2>3. QED
    BY <1>2, <2>1, <2>2 DEF Polls
<1>3. ASSUME NEW d \in Clients, Client(d) PROVE Outstanding(S(c))' = 0
  <2>1. CASE Polls(d)
    BY <1>2, <2>1, Owners
  <2>2. CASE ~Polls(d)
    <3>1. \E A : Effects(A, {K(d)}) \/ Effects(A, {})
      BY <1>3, <2>2, ClientFlow DEF Client
    <3>2. QED
      BY <1>0, <3>1 DEF Effects
  <2>3. QED
    BY <2>1, <2>2
<1>4. CASE \E e \in Ends : Nic(e)
  <2>1. Effects({}, {})
    BY <1>4, FlowNic DEF TalkInv
  <2>2. QED
    BY <1>0, <2>1 DEF Effects
<1>5. CASE ServerStep
  <2>1. CASE Polls(Server)
    BY <1>2, <2>1, Owners
  <2>2. CASE ~Polls(Server)
    BY <1>1, <1>5, <2>2 DEF ServerStep, TellAddress, Accept, CountEstablished, ServerReady,
      ServerDisconnect, OnDisconnect, nicVars
  <2>3. QED
    BY <2>1, <2>2
<1>6. CASE Manager \/ UNCHANGED vars
  BY <1>1, <1>6 DEF Manager, vars, nicVars
<1>7. QED
  BY <1>3, <1>4, <1>5, <1>6 DEF Next, Others, Terminating

\* An end that is ready stays so.
LEMMA ReadyKept ==
  ASSUME TypeInv, TalkInv, Kept, [Next]_vars, NEW e \in Ends, Ready(e)
  PROVE  Ready(e)'
<1>1. CASE \E f \in Ends : PollSend(f) \/ PollRecv(f)
  <2>1. EndsOk
    BY DEF TalkInv, FlowInv
  <2>2. QED
    BY <1>1, <2>1, EndsPollSend, EndsPollRecv
<1>2. CASE UNCHANGED <<sendState, recvState>>
  BY <1>2 DEF Ready
<1>3. CASE ~(\E f \in Ends : PollSend(f) \/ PollRecv(f))
  <2>1. CASE ServerStep
    BY <1>2, <1>3, <2>1 DEF ServerStep, TellAddress, OnConnectRequest, Accept, OnEstablished,
        CountEstablished,
      ServerReady, Visit, VisitReads, VisitAcks, VisitEnds, VisitNothing, Visits,
        ServerDisconnect, OnDisconnect,
      Polls, GetCqEvent, PollEmpty, Drained, connVars
  <2>2. CASE \E c \in Clients : Client(c)
    BY <1>2, <1>3, <2>2 DEF Client, ConnectToServer, OnAddrResolved, OnRouteResolved, OnConnection,
      OnUnknownEvent, ClientReady, Publish, IoDone, ClientDisconnect, OnDisconnected,
      Polls, GetCqEvent, PollEmpty, Drained, connVars
  <2>3. CASE Manager \/ UNCHANGED vars \/ \E f \in Ends : Nic(f)
    BY <1>2, <2>3 DEF Manager, vars, Nic, Deliver, Read, Write, WriteCompletes, connVars
  <2>4. QED
    BY <2>1, <2>2, <2>3 DEF Next, Others, Terminating
<1>4. QED
  BY <1>1, <1>3

\* What is done stays done.
LEMMA DoneKept ==
  ASSUME TypeInv, [Next]_vars, NEW c \in Clients, done[c]
  PROVE  done'[c]
<1>1. CASE \E i \in Clients : VisitEnds(i)
  BY <1>1 DEF VisitEnds, TypeInv, RestType
<1>2. CASE done' = done
  BY <1>2
<1>3. CASE ~(\E i \in Clients : VisitEnds(i))
  <2>1. CASE ServerStep
    BY <1>2, <1>3, <2>1 DEF ServerStep, TellAddress, OnConnectRequest, Accept, OnEstablished,
        CountEstablished,
      ServerReady, Visit, VisitReads, VisitAcks, VisitNothing, Visits, ServerDisconnect,
        OnDisconnect,
      Polls, GetCqEvent, PollEmpty, Drained, PollSend, PollRecv, addrVars
  <2>2. CASE \E d \in Clients : Client(d)
    BY <1>2, <2>2 DEF Client, ConnectToServer, OnAddrResolved, OnRouteResolved, OnConnection,
      OnUnknownEvent, ClientReady, Publish, IoDone, ClientDisconnect, OnDisconnected,
      Polls, GetCqEvent, PollEmpty, Drained, PollSend, PollRecv, addrVars
  <2>3. CASE Manager \/ UNCHANGED vars \/ \E f \in Ends : Nic(f)
    BY <1>2, <2>3 DEF Manager, vars, Nic, Deliver, Read, Write, WriteCompletes, addrVars
  <2>4. QED
    BY <2>1, <2>2, <2>3 DEF Next, Others, Terminating
<1>4. QED
  BY <1>1, <1>3

\* The loop of the server ends when all clients are done.
LEMMA OverAll ==
  ASSUME TypeInv, NEW i, NEW n, NEW over, NextTurn(i, n, over), To(Server)' # "visit"
  PROVE  To(Server)' = "disconnect" /\ \A c \in Clients : over[c]
<1>0. LifeType
  BY DEF TypeInv, LifeInv
<1>1. CASE \A c \in Clients : over[c]
  BY <1>0, <1>1, ServerWaits DEF NextTurn
<1>2. CASE ~(\A c \in Clients : over[c])
  <2>1. WaitSome(n, "visit")
    BY <1>2 DEF NextTurn
  <2>2. QED
    BY <1>0, <2>1, ServerWaits
<1>3. QED
  BY <1>1, <1>2

\* The server does not get past its loop, nor back to its events, before that.
LEMMA EndKnown ==
  ASSUME TypeInv, TypeInv', TalkInv, TalkInv', TearInv, [Next]_vars,
         To(Server)' \in {"disconnect", "gone"} \/ Returned'
  PROVE  \A c \in Clients : done'[c]
<1>0. /\ pc \in [Procs -> States] /\ Server \in Procs /\ LifeType /\ ServerAt
      /\ pc' \in [Procs -> States]
  BY Owners DEF TypeInv, LifeInv, LifeType
<1>1. Running
  <2>1. Running \/ pc'[Server] = "ready"
    BY RunningStep DEF Running
  <2>2. pc'[Server] # "ready"
    BY DEF To, Waiting, Returned
  <2>3. QED
    BY <2>1, <2>2
<1>2. SUFFICES ASSUME ~(\A c \in Clients : done[c]) PROVE \A c \in Clients : done'[c]
  BY DoneKept
<1>3. To(Server) = "visit" \/ pc[Server] = "ready"
  BY <1>1, <1>2 DEF TearInv, Doneness, Running
<1>4. pc[Server] \in {"visit", "wait", "drain", "ready"}
  BY <1>3 DEF To, Waiting
<1>5. CASE pc'[Server] = pc[Server] /\ back'[Server] = back[Server] /\ estCnt' = estCnt
  BY <1>3, <1>4, <1>5 DEF To, Waiting, Returned
<1>6. CASE Drained(Server)
  <2>1. pc[Server] \in {"wait", "drain"} /\ pc'[Server] = back[Server] /\ To(Server) = back[Server]
    BY <1>0, <1>6 DEF Drained, To, Waiting
  <2>2. back[Server] = "visit"
    BY <1>3, <2>1
  <2>3. QED
    BY <2>1, <2>2 DEF To, Waiting, Returned
<1>7. CASE ServerReady \/ \E i \in Clients : Visit(i)
  <2>1. PICK j, n, over : NextTurn(j, n, over) /\ (over = done \/ over = done')
    BY <1>7 DEF ServerReady, Visit, VisitReads, VisitAcks, VisitEnds, VisitNothing
  <2>2. To(Server)' # "visit"
    BY DEF To, Waiting, Returned
  <2>3. \A c \in Clients : over[c]
    BY <2>1, <2>2, OverAll
  <2>4. QED
    BY <1>2, <2>1, <2>3
<1>8. CASE ServerStep
  <2>1. CASE Polls(Server) /\ ~Drained(Server)
    BY <1>0, <1>5, <2>1, ServerStays
  <2>2. CASE ~(Polls(Server) /\ ~Drained(Server))
    BY <1>4, <1>6, <1>7, <1>8, <2>2 DEF ServerStep, TellAddress, OnConnectRequest, Accept,
        OnEstablished,
      CountEstablished, ServerDisconnect, OnDisconnect
  <2>3. QED
    BY <2>1, <2>2
<1>9. CASE \/ \E d \in Clients : Client(d)
           \/ Manager \/ (\E e \in Ends : Nic(e)) \/ UNCHANGED vars
  BY <1>5, <1>9, ServerStays
<1>10. QED
  BY <1>8, <1>9 DEF Next, Others, Terminating

-------------------------------------------------------------------------------
\* A region gets its first signal after it was given out.
LEMMA UnusedStep ==
  ASSUME TypeInv, TalkInv, Unused, Doneness, [Next]_vars
  PROVE  Unused'
<1>0. saddr \in [Clients -> [signal : {0, 1, 11}, from : Memory]] /\ conns \in Seq(Clients)
  BY DEF TypeInv, RestType, LifeInv, LifeType
<1>1. ASSUME NEW d \in Clients, Write(K(d)) PROVE Unused'
  <2>1. /\ posted[K(d)] # << >> /\ Head(posted[K(d)]).op = "write" /\ conns' = conns
        /\ K(d) \in Ends /\ S(d) \in Ends /\ Other(K(d)) = S(d)
    BY <1>1, EndNames, OtherNames DEF Write, connVars
  <2>2. Head(posted[K(d)]).mem = MemoryOf(S(d)) /\ life[S(d)] # "none"
    BY <2>1, TargetOf
  <2>3. MemoryOf(S(d)) = <<"server", Region(d)>>
    BY DEF MemoryOf, S
  <2>4. PICK x \in Clients : x = Region(d) /\ x + 1 \in DOMAIN conns
    BY <2>2, RegionOne
  <2>5. \E v : saddr' = [saddr EXCEPT ![x] = v]
    <3>1. PICK m : m = Head(posted[K(d)]).mem
      OBVIOUS
    <3>2. m[1] = "server" /\ m[2] = x
      BY <2>2, <2>3, <2>4, <3>1
    <3>3. \/ \E v : saddr' = [saddr EXCEPT ![m[2]] = v]
          \/ m[1] = "client"
      BY <1>1, <3>1 DEF Write
    <3>4. QED
      BY <3>2, <3>3
  <2>6. QED
    BY <1>0, <2>1, <2>4, <2>5 DEF Unused
<1>2. ASSUME NEW d \in Clients, Write(S(d)) PROVE Unused'
  <2>1. /\ posted[S(d)] # << >> /\ Head(posted[S(d)]).op = "write" /\ conns' = conns
        /\ S(d) \in Ends /\ Other(S(d)) = K(d) /\ MemoryOf(K(d)) = K(d)
    BY <1>2, EndNames, OtherNames DEF Write, connVars
  <2>2. Head(posted[S(d)]).mem = K(d)
    BY <2>1, TargetOf
  <2>3. saddr' = saddr
    BY <1>2, <2>2 DEF Write, K
  <2>4. QED
    BY <2>1, <2>3 DEF Unused
<1>3. CASE \E e \in Ends : Write(e)
  BY <1>1, <1>2, <1>3, EndNames
<1>4. CASE OnConnectRequest
  <2>1. PICK c : conns' = Append(conns, c)
    BY <1>4 DEF OnConnectRequest
  <2>2. \A r : r \in DOMAIN conns => r \in DOMAIN conns'
    BY <1>0, <2>1
  <2>3. saddr' = saddr
    BY <1>4 DEF OnConnectRequest, addrVars
  <2>4. QED
    BY <2>2, <2>3 DEF Unused
<1>5. CASE \E i \in Clients : VisitAcks(i)
  <2>1. PICK i \in Clients : VisitAcks(i)
    BY <1>5
  <2>2. saddr' = [saddr EXCEPT ![AddrAt(i)].signal = 0] /\ conns' = conns
    BY <2>1 DEF VisitAcks, Visits
  <2>3. PICK x : x = AddrAt(i)
    OBVIOUS
  <2>4. \A r \in Clients : saddr'[r].signal = saddr[r].signal \/ saddr'[r].signal = 0
    BY <1>0, <2>2, <2>3
  <2>5. QED
    BY <2>2, <2>4 DEF Unused
<1>6. CASE UNCHANGED <<saddr, conns>>
  BY <1>6 DEF Unused
<1>7. CASE ~(\E e \in Ends : Write(e)) /\ ~OnConnectRequest /\ ~(\E i \in Clients : VisitAcks(i))
  <2>1. CASE ServerStep
    BY <1>6, <1>7, <2>1 DEF ServerStep, TellAddress, Accept, OnEstablished, CountEstablished,
      ServerReady, Visit, VisitReads, VisitEnds, VisitNothing, Visits, ServerDisconnect,
        OnDisconnect,
      Polls, GetCqEvent, PollEmpty, Drained, PollSend, PollRecv, connVars, addrVars
  <2>2. CASE \E c \in Clients : Client(c)
    BY <1>6, <2>2 DEF Client, ConnectToServer, OnAddrResolved, OnRouteResolved, OnConnection,
      OnUnknownEvent, ClientReady, Publish, IoDone, ClientDisconnect, OnDisconnected,
      Polls, GetCqEvent, PollEmpty, Drained, PollSend, PollRecv, connVars, addrVars
  <2>3. CASE Manager \/ UNCHANGED vars
    BY <1>6, <2>3 DEF Manager, vars, connVars, addrVars
  <2>4. CASE \E e \in Ends : Nic(e)
    BY <1>6, <1>7, <2>4 DEF Nic, Deliver, Read, WriteCompletes, connVars, addrVars
  <2>5. QED
    BY <2>1, <2>2, <2>3, <2>4 DEF Next, Others, Terminating
<1>8. QED
  BY <1>3, <1>4, <1>5, <1>7

\* A server that has come back to its events stays there, and then it is gone.
LEMMA ReturnedStep ==
  ASSUME TypeInv, TypeInv', TalkInv, TalkInv', TearInv, [Next]_vars,
         Returned \/ pc[Server] = "gone"
  PROVE  /\ Returned' \/ pc'[Server] = "gone"
         /\ ~OnConnectRequest /\ ~OnEstablished /\ ~(\E i \in Clients : Visit(i))
<1>0. /\ pc \in [Procs -> States] /\ Server \in Procs /\ LifeType /\ Running
      /\ pc[Server] \in {"events", "gone"}
  BY Owners DEF TypeInv, LifeInv, LifeType, Returned, Running, To, Waiting
<1>1. Running'
  BY <1>0, RunningStep
<1>2. ~(\E i \in Clients : Visit(i))
  BY <1>0 DEF Visit, VisitReads, VisitAcks, VisitEnds, VisitNothing, Visits
<1>3. ~OnConnectRequest /\ ~OnEstablished
  <2>1. SUFFICES ASSUME OnConnectRequest \/ OnEstablished PROVE FALSE
    OBVIOUS
  <2>2. To(Server)' \in {"accept", "count"} /\ pc'[Server] \in {"drain", "accept", "count"}
    BY <1>0, <2>1, ServerWaits DEF OnConnectRequest, OnEstablished
  <2>3. QED
    BY <1>1, <2>2 DEF Running, Returned
<1>4. Returned' \/ pc'[Server] = "gone"
  <2>1. CASE pc'[Server] = pc[Server] /\ back'[Server] = back[Server] /\ estCnt' = estCnt
    BY <2>1 DEF Returned
  <2>2. CASE ServerStep
    <3>1. CASE Polls(Server) /\ ~Drained(Server)
      BY <1>0, <2>1, <3>1, ServerStays
    <3>2. CASE ~(Polls(Server) /\ ~Drained(Server))
      <4>1. OnDisconnect
        BY <1>0, <1>2, <1>3, <2>2, <3>2 DEF ServerStep, TellAddress, Accept, CountEstablished,
          ServerReady, ServerDisconnect, Drained, Waiting
      <4>2. estCnt' = estCnt /\ pc'[Server] \in {"gone", "events"} /\ pc[Server] = "events"
        BY <1>0, <4>1 DEF OnDisconnect
      <4>3. QED
        BY <4>2 DEF Returned
    <3>3. QED
      BY <3>1, <3>2
  <2>3. CASE \/ \E d \in Clients : Client(d)
             \/ Manager \/ (\E e \in Ends : Nic(e)) \/ UNCHANGED vars
    BY <2>1, <2>3, ServerStays
  <2>4. QED
    BY <2>2, <2>3 DEF Next, Others, Terminating
<1>5. QED
  BY <1>2, <1>3, <1>4

\* The server frees the end of a connection when it is told that it is down.
LEMMA FreesWhen ==
  ASSUME TypeInv, [Next]_vars, NEW c \in Clients, life'[S(c)] = "freed", life[S(c)] # "freed"
  PROVE  OnDisconnect
<1>0. life \in [Ends -> {"none", "built", "freed"}] /\ S(c) \in Ends /\ \A d : K(d) # S(c)
  BY EndNames DEF TypeInv, LifeInv, LifeType
<1>1. SUFFICES ASSUME ~OnDisconnect PROVE life'[S(c)] = life[S(c)] \/ life'[S(c)] = "built"
  BY <1>0
<1>2. CASE ServerStep
  BY <1>0, <1>1, <1>2 DEF ServerStep, TellAddress, OnConnectRequest, Accept, OnEstablished,
      CountEstablished,
    ServerReady, Visit, VisitReads, VisitAcks, VisitEnds, VisitNothing, Visits, ServerDisconnect,
    Polls, GetCqEvent, PollEmpty, Drained, PollSend, PollRecv, connVars
<1>3. ASSUME NEW d \in Clients, Client(d) PROVE life'[S(c)] = life[S(c)]
  <2>1. life' = life \/ \E v : life' = [life EXCEPT ![K(d)] = v]
    BY <1>3 DEF Client, ConnectToServer, OnAddrResolved, OnRouteResolved, OnConnection,
      OnUnknownEvent, ClientReady, Publish, IoDone, ClientDisconnect, OnDisconnected,
      Polls, GetCqEvent, PollEmpty, Drained, PollSend, PollRecv, connVars, K
  <2>2. QED
    BY <1>0, <2>1
<1>4. CASE Manager \/ UNCHANGED vars \/ \E f \in Ends : Nic(f)
  BY <1>4 DEF Manager, vars, Nic, Deliver, Read, Write, WriteCompletes, connVars
<1>5. QED
  BY <1>2, <1>3, <1>4 DEF Next, Others, Terminating

\* Doneness is kept.
LEMMA DonenessStep ==
  ASSUME TypeInv, TypeInv', TalkInv, TalkInv', Kept, TearInv, [Next]_vars
  PROVE  Doneness'
<1>1. ASSUME Running', NEW c \in Clients PROVE Ready(S(c))'
  <2>1. Running \/ pc'[Server] = "ready"
    BY <1>1, RunningStep
  <2>2. CASE pc'[Server] = "ready"
    BY <2>2 DEF TalkInv, ServerStage
  <2>3. CASE Running
    <3>1. Ready(S(c)) /\ S(c) \in Ends
      BY <2>3, EndNames DEF TearInv, Doneness
    <3>2. QED
      BY <3>1, ReadyKept
  <2>4. QED
    BY <2>1, <2>2, <2>3
<1>2. To(Server)' \in {"disconnect", "gone"} \/ Returned' => \A c \in Clients : done'[c]
  BY EndKnown
<1>3. ASSUME NEW c \in Clients, life'[S(c)] = "freed"
      PROVE  Outstanding(S(c))' = 0 /\ (Returned' \/ pc'[Server] = "gone")
  <2>1. Outstanding(S(c)) = 0 /\ (Returned \/ pc[Server] = "gone")
    <3>1. CASE life[S(c)] = "freed"
      BY <3>1 DEF TearInv, Doneness
    <3>2. CASE life[S(c)] # "freed"
      <4>1. OnDisconnect
        BY <1>3, <3>2, FreesWhen
      <4>2. PICK d \in Clients : Queued("DISCONNECTED", d)
        BY <4>1, ServerNext DEF OnDisconnect, TypeInv
      <4>3. link[d] = "down"
        BY <4>2 DEF TypeInv, LifeInv, ServerLink
      <4>4. Running /\ pc[Server] = "events"
        BY <4>1, <4>3, DownEnded DEF TearInv, Ended, OnDisconnect
      <4>5. Returned
        BY <4>4 DEF Running, To, Waiting
      <4>6. QED
        BY <4>5 DEF TalkInv, ServerStage
    <3>3. QED
      BY <3>1, <3>2
  <2>2. QED
    BY <2>1, ReturnedStep, QuietEnds
<1>4. QED
  BY <1>1, <1>2, <1>3 DEF Doneness

\* The start.
LEMMA TearStart == Init => TearInv
<1>1. SUFFICES ASSUME Init PROVE TearInv
  OBVIOUS
<1>2. /\ pc[Server] = "tell" /\ \A c \in Clients : pc[c] = "start" /\ c # Server
      /\ \A c \in Clients : link[c] = "none" /\ caddr[c] = 0 /\ held[c] = FALSE /\ rest[c] = 0 /\ done[c] = FALSE
      /\ \A r \in Clients : saddr[r].signal = 0
      /\ \A e \in Ends : posted[e] = << >> /\ life[e] = "none"
  BY <1>1, Owners DEF Init
<1>3. ~Running
  BY <1>2 DEF Running, To, Waiting, Returned
<1>4. Doneness
  BY <1>2, <1>3, EndNames DEF Doneness, Running
<1>5. Unused
  BY <1>2 DEF Unused
<1>6. ASSUME NEW c \in Clients PROVE Hand(c)
  <2>1. To(c) = "start"
    BY <1>2 DEF To, Waiting
  <2>2. Fresh(c) /\ Idle(c) /\ Rested(c) /\ SignalIs(c, 0)
    BY <1>2, <1>3, <2>1 DEF Fresh, Idle, Rested, SignalIs
  <2>3. OnlyMr(K(c)) /\ OnlyMr(S(c))
    BY <1>2, EndNames DEF OnlyMr
  <2>4. QED
    BY <1>2, <2>2, <2>3 DEF Hand, Unpublished
<1>7. QED
  BY <1>4, <1>5, <1>6 DEF TearInv

\* All of it together, in every state.
LEMMA TearAlways == Spec => []TearInv
<1>1. TypeInv /\ TypeInv' /\ TalkInv /\ TalkInv' /\ TearInv /\ [Next]_vars => TearInv'
  <2>1. SUFFICES ASSUME TypeInv, TypeInv', TalkInv, TalkInv', TearInv, [Next]_vars PROVE TearInv'
    OBVIOUS
  <2>2. Kept
    BY <2>1, MemoryKept DEF TypeInv, Kept
  <2>3. Runs
    BY <2>1, RunningStep DEF Runs
  <2>4. \A c \in Clients : Hand(c)'
    BY <2>1, <2>2, <2>3, HandsStep
  <2>5. Unused' /\ Doneness'
    BY <2>1, <2>2, UnusedStep, DonenessStep DEF TearInv
  <2>6. QED
    BY <2>4, <2>5 DEF TearInv
<1>2. QED
  BY <1>1, TearStart, TypeInvAlways, TalkAlways, PTL DEF Spec

\* A connection goes down after everything posted on it, at either end, was
\* carried out, and an end is freed after all of it has been taken: whoever
\* disconnects first, the client has waited for its end signal, and the server
\* has seen it.
THEOREM QuietTearDownCorrect == Spec => []QuietTearDown
<1>1. TypeInv /\ TalkInv /\ TearInv => QuietTearDown
  <2>1. SUFFICES ASSUME TypeInv, TalkInv, TearInv, NEW e \in Ends
                 PROVE  /\ link[e[2]] = "down" => posted[e] = << >> /\ recvs[e] = 0
                        /\ life[e] = "freed" => Outstanding(e) = 0
    BY DEF QuietTearDown
  <2>2. PICK c \in Clients : e = K(c) \/ e = S(c)
    BY EndNames
  <2>3. e[2] = c
    BY <2>2 DEF K, S
  <2>4. ASSUME link[c] = "down" PROVE posted[e] = << >> /\ recvs[e] = 0
    <3>1. Ended(c)
      BY <2>1, <2>4, DownEnded DEF TearInv
    <3>2. posted[e] = << >>
      BY <2>2, <3>1 DEF Ended, Nothing
    <3>3. Ready(e)
      <4>1. Ready(S(c))
        BY <2>1, <3>1 DEF TearInv, Doneness, Ended
      <4>2. To(c) # "ready" /\ ClientStage(c)
        BY <2>1, <3>1 DEF Ended, Over, TalkInv
      <4>3. Ready(K(c))
        BY <2>4, <4>2 DEF ClientStage, Linked, To, Waiting
      <4>4. QED
        BY <2>2, <4>1, <4>3
    <3>4. recvs[e] = 0
      <4>1. EndOk(e)
        BY <2>1 DEF TalkInv, FlowInv, EndsOk
      <4>2. PICK r \in Nat, b \in Nat, d \in Nat : r = recvState[e] /\ b = recvs[e] /\ d = cqRecv[e]
        BY <2>1, FlowTyped
      <4>3. r + b + d <= 1 /\ r > 0
        <5>1. Recvs(e) = r + b + d
          BY <4>2 DEF Recvs
        <5>2. Recvs(e) \in {0, 1}
          BY <4>1 DEF EndOk
        <5>3. r > 0
          BY <3>3, <4>2 DEF Ready
        <5>4. QED
          BY <5>1, <5>2, <5>3
      <4>4. b = 0
        BY <4>3
      <4>5. QED
        BY <4>2, <4>4
    <3>5. QED
      BY <3>2, <3>4
  <2>5. ASSUME life[e] = "freed" PROVE Outstanding(e) = 0
    <3>1. CASE e = S(c)
      BY <2>1, <2>5, <3>1 DEF TearInv, Doneness
    <3>2. CASE e = K(c)
      <4>1. ClientAt(c) /\ ClientStage(c)
        BY <2>1 DEF TypeInv, LifeInv, TalkInv
      <4>2. link[c] = "down" /\ pc[c] = "gone"
        BY <2>5, <3>2, <4>1 DEF ClientAt
      <4>3. QED
        BY <3>2, <4>1, <4>2 DEF ClientStage, Linked
    <3>3. QED
      BY <2>2, <3>1, <3>2
  <2>6. QED
    BY <2>3, <2>4, <2>5
<1>2. QED
  BY <1>1, TypeInvAlways, TalkAlways, TearAlways, PTL
================================================================================
