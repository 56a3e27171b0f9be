------------------------------ MODULE MCIoRequests ------------------------------
(* Groups of clients for TLC. *)
EXTENDS IoRequests

TwoServers == [s \in {"s1", "s2"} |-> IF s = "s1" THEN <<"c1", "c2">> ELSE <<"c3", "c4">>]
OneServer == [s \in {"s1"} |-> <<"c1", "c2">>]
ThreeClients == [s \in {"s1"} |-> <<"c1", "c2", "c3">>]

(* Programs that differ only in which file is which. *)
FilesAlike == Permutations(Paths)
================================================================================
