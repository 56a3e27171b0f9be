----------------------------- MODULE MCForwarding -----------------------------
(* Instances of Forwarding for TLC. *)
EXTENDS Forwarding

\* Even sizes in a buffer of odd size never end exactly at its end, see
\* ExactMsgs for sizes that do.
EvenMsgs  == {[size |-> 2, last |-> 1], [size |-> 4, last |-> 2]}
SmallMsgs == {[size |-> 2, last |-> 1]}
LongMsgs  == {[size |-> 4, last |-> 1]}

\* A single message longer than ten chunks of 1 unit.
OneLongMsg == {[size |-> 12, last |-> 10]}

\* 4 units in a buffer of 8: the second message ends exactly at its end.
ExactMsgs == {[size |-> 4, last |-> 2]}
==============================================================================
