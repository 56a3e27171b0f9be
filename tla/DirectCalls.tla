------------------------------- MODULE DirectCalls -------------------------------
(***************************************************************************)
(* What the servers promise together: whatever order the clients' calls    *)
(* arrive in, every server makes the netCDF calls the program would have   *)
(* made by itself, each of them once and in the order of the program.      *)
(***************************************************************************)
EXTENDS Netcdf

CONSTANT Servers

VARIABLES
  calls,   \* the program, as far as a client has come
  log      \* log[s]: the netCDF calls server s has made

vars == <<calls, log>>

Init == calls = << >> /\ log = [s \in Servers |-> << >>]

Call == \E call \in ProgramCalls(calls) :
          calls' = Append(calls, call) /\ UNCHANGED log

Serve ==
  /\ log' \in [Servers -> {SubSeq(Promised(calls), 1, n) : n \in 0..Len(Promised(calls))}]
  /\ \A s \in Servers : Len(log[s]) <= Len(log'[s])
  /\ UNCHANGED calls

Next == Call \/ Serve

Spec == Init /\ [][Next]_vars
================================================================================
