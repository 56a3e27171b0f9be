---------------------------------- MODULE Map ----------------------------------
(***************************************************************************)
(* The map from clients to servers (map.c).  Clients are the points of a   *)
(* grid of client_x_num columns, numbered row by row; servers divide it    *)
(* into equal rectangles.  cfio_init asks for client_num / ratio servers;  *)
(* cfio_map_init looks for a divisor of each side whose product is that    *)
(* number, and refuses to start when it finds none.                        *)
(*                                                                         *)
(* Every process computes this map for itself from the same arguments, so  *)
(* the module follows one of them.  Indices of arrays start at 1 here.     *)
(***************************************************************************)
EXTENDS Integers, Sequences

CONSTANTS
  MaxSide,   \* bound on the sides of the grid of clients
  Ratios     \* clients per server that programs ask for

ASSUME GridsAssumption == MaxSide \in Nat \ {0} /\ Ratios \subseteq Nat \ {0}

Axes == {"x", "y"}

VARIABLES
  pc,          \* where cfio_map_init stands
  grid,        \* client_x_num and client_y_num
  best,        \* best_server_amount
  server_amount,
  axis,        \* the side _get_factor is called for
  i,           \* loop variable of _get_factor: i, then index
  factor,      \* factor_x and factor_y
  at,          \* index_x and index_y
  min_sub,
  min_at,      \* min_index_x and min_index_y, << >> before they are assigned
  servers      \* server_x_num and server_y_num

vars == <<pc, grid, best, server_amount, axis, i, factor, at, min_sub, min_at,
          servers>>

client_amount == grid["x"] * grid["y"]

(* cfio_init asks for as many servers as clients over ratio, at least one,  *)
(* whatever the number of processes that were started.                     *)
\* Mutated: no server for few clients.
BestServerAmount_zero(clients, ratio) == clients \div ratio

BestServerAmount(clients, ratio) ==
  IF clients \div ratio = 0 THEN 1 ELSE clients \div ratio

Init ==
  /\ pc = "low"
  /\ grid \in [Axes -> 1..MaxSide]
  /\ best \in {BestServerAmount(client_amount, r) : r \in Ratios}
  /\ server_amount = best
  /\ axis = "x" /\ i = 1
  /\ factor = [a \in Axes |-> << >>]
  /\ at = <<1, 0>>
  /\ min_sub = client_amount /\ min_at = << >>
  /\ servers = [a \in Axes |-> 0]

-------------------------------------------------------------------------------
(* _get_factor: the divisors up to the square root, then their partners.   *)

side == grid[axis]
found == factor[axis]

Divides(d, n) == n % d = 0

(* One turn of the first loop. *)
TryFactor ==
  /\ pc = "low" /\ i * i <= side
  /\ factor' = IF Divides(i, side) THEN [factor EXCEPT ![axis] = Append(found, i)]
                                   ELSE factor
  /\ i' = i + 1
  /\ UNCHANGED <<pc, grid, best, server_amount, axis, at, min_sub, min_at, servers>>

(* The square root is not taken twice. *)
LastPartner == IF found[Len(found)] * found[Len(found)] = side
                 THEN Len(found) - 1 ELSE Len(found)

LowDone ==
  /\ pc = "low" /\ i * i > side
  /\ pc' = "high" /\ i' = LastPartner
  /\ UNCHANGED <<grid, best, server_amount, axis, factor, at, min_sub, min_at, servers>>

(* One turn of the second loop. *)
Partner ==
  /\ pc = "high" /\ i > 0
  /\ factor' = [factor EXCEPT ![axis] = Append(found, side \div found[i])]
  /\ i' = i - 1
  /\ UNCHANGED <<pc, grid, best, server_amount, axis, at, min_sub, min_at, servers>>

(* The next side, or the start of the search. *)
HighDone ==
  /\ pc = "high" /\ i = 0
  /\ IF axis = "x" THEN pc' = "low" /\ axis' = "y" /\ i' = 1 /\ UNCHANGED at
                   ELSE /\ pc' = "search" /\ UNCHANGED <<axis, i>>
                        /\ at' = <<1, Len(factor["y"])>>
  /\ UNCHANGED <<grid, best, server_amount, factor, min_sub, min_at, servers>>

-------------------------------------------------------------------------------
(* _gen_server_x_and_y: from the least divisor of the one side and the     *)
(* greatest of the other, one step along a side at a time.                 *)

\* Mutated: the greatest divisor of x is not tried.
InRange_short == at[1] < Len(factor["x"]) /\ at[2] >= 1

InRange == at[1] <= Len(factor["x"]) /\ at[2] >= 1

Product(p) == factor["x"][p[1]] * factor["y"][p[2]]

Found ==
  /\ pc = "search" /\ InRange /\ Product(at) = best
  /\ pc' = "exam" /\ min_sub' = 0 /\ min_at' = at
  /\ UNCHANGED <<grid, best, server_amount, axis, i, factor, at, servers>>

(* The difference is compared with min_sub, which stays client_amount, and *)
(* the indices that are kept are those of the next product.                *)
Advance(next, sub) ==
  /\ at' = next
  /\ min_at' = IF sub < min_sub THEN next ELSE min_at
  /\ UNCHANGED <<pc, grid, best, server_amount, axis, i, factor, min_sub, servers>>

AdvanceX ==
  /\ pc = "search" /\ InRange /\ Product(at) < best
  /\ Advance(<<at[1] + 1, at[2]>>, best - Product(at))

AdvanceY ==
  /\ pc = "search" /\ InRange /\ Product(at) > best
  /\ Advance(<<at[1], at[2] - 1>>, Product(at) - best)

Exhausted ==
  /\ pc = "search" /\ ~InRange
  /\ pc' = "exam"
  /\ UNCHANGED <<grid, best, server_amount, axis, i, factor, at, min_sub, min_at, servers>>

(* sub / best_server_amount < GEN_SERVER_ERROR, which is 0.4. *)
Near(sub) == 10 * sub < 4 * best

Accept ==
  /\ pc = "exam" /\ Near(min_sub) /\ server_amount >= Product(min_at)
  /\ pc' = "mapped"
  /\ server_amount' = Product(min_at)
  /\ servers' = [x |-> factor["x"][min_at[1]], y |-> factor["y"][min_at[2]]]
  /\ UNCHANGED <<grid, best, axis, i, factor, at, min_sub, min_at>>

Refuse ==
  /\ pc = "exam" /\ (Near(min_sub) => server_amount < Product(min_at))
  /\ pc' = "failed"
  /\ UNCHANGED <<grid, best, server_amount, axis, i, factor, at, min_sub, min_at, servers>>

Terminating == pc \in {"mapped", "failed"} /\ UNCHANGED vars

Next == \/ TryFactor \/ LowDone \/ Partner \/ HighDone
        \/ Found \/ AdvanceX \/ AdvanceY \/ Exhausted
        \/ Accept \/ Refuse \/ Terminating

Spec == Init /\ [][Next]_vars

-------------------------------------------------------------------------------
(* The lookups, for clients in a grid g and servers in a grid s. *)

ClientsOf(g) == 0..(g.x * g.y - 1)
ServersOf(g, s) == (g.x * g.y)..(g.x * g.y + s.x * s.y - 1)

(* cfio_map_get_client_num_of_server *)
ClientNum(g, s) == (g.x * g.y) \div (s.x * s.y)

(* client_per_server_x and client_per_server_y *)
Per(g, s, a) == g[a] \div s[a]

(* client_x_index and client_y_index *)
Col(g, c) == c % g.x
Row(g, c) == c \div g.x

(* cfio_map_get_server_of_client *)
ServerOfClient(g, s, c) ==
  g.x * g.y + Col(g, c) \div Per(g, s, "x") + (Row(g, c) \div Per(g, s, "y")) * s.x

(* cfio_map_get_client_index_of_server *)
\* Mutated: rows are counted by the wrong side.
ClientIndex_row(g, s, c) ==
  (Col(g, c) % Per(g, s, "x")) + (Row(g, c) % Per(g, s, "y")) * Per(g, s, "y")

ClientIndex(g, s, c) ==
  (Col(g, c) % Per(g, s, "x")) + (Row(g, c) % Per(g, s, "y")) * Per(g, s, "x")

(* cfio_map_get_clients: the k-th element of its array *)
GetClient(g, s, server, k) ==
  LET index == server - g.x * g.y
      x == (k % Per(g, s, "x")) + (index % s.x) * Per(g, s, "x")
      y == k \div Per(g, s, "x") + (index \div s.x) * Per(g, s, "y")
  IN  x + y * g.x

-------------------------------------------------------------------------------
(* Type invariant. *)
TypeOK ==
  /\ pc \in {"low", "high", "search", "exam", "mapped", "failed"}
  /\ grid \in [Axes -> Nat \ {0}] /\ best \in Nat \ {0} /\ server_amount \in Nat \ {0}
  /\ axis \in Axes /\ i \in Nat
  /\ factor \in [Axes -> Seq(Nat \ {0})]
  /\ at \in Nat \X Nat
  /\ min_sub \in Nat /\ min_at \in {<< >>} \cup Nat \X Nat
  /\ servers \in [Axes -> Nat]

(* A client sends to its server under the index the server's array has it: *)
(* send.c and rdma_client.c ask for the server of a client, server.c and    *)
(* rdma_server.c for the clients of a server, recv.c and io.c for the index *)
(* of a client, and the three agree.                                       *)
LookupsMatch(g, s) ==
  /\ \A c \in ClientsOf(g) :
       /\ ServerOfClient(g, s, c) \in ServersOf(g, s)
       /\ ClientIndex(g, s, c) \in 0..(ClientNum(g, s) - 1)
       /\ GetClient(g, s, ServerOfClient(g, s, c), ClientIndex(g, s, c)) = c
  /\ \A v \in ServersOf(g, s), k \in 0..(ClientNum(g, s) - 1) :
       /\ GetClient(g, s, v, k) \in ClientsOf(g)
       /\ ServerOfClient(g, s, GetClient(g, s, v, k)) = v
       /\ ClientIndex(g, s, GetClient(g, s, v, k)) = k

Lookups == pc = "mapped" => LookupsMatch(grid, servers)

(* Pairs of divisors of the two sides. *)
Pairs == {p \in (1..grid["x"]) \X (1..grid["y"]) :
            Divides(p[1], grid["x"]) /\ Divides(p[2], grid["y"])}

(* The search is exact: it maps exactly the programs for whose number of    *)
(* servers some pair of divisors exists, to that number of servers.         *)
SearchExact ==
  /\ pc = "mapped" => /\ <<servers["x"], servers["y"]>> \in Pairs
                      /\ servers["x"] * servers["y"] = best
                      /\ server_amount = best
  /\ pc = "failed" => \A p \in Pairs : p[1] * p[2] # best

(* The search "adjust[s] server_amount" (map.c:69) to the nearest product   *)
(* within GEN_SERVER_ERROR, so it fails only when none is that near.        *)
NearestAccepted ==
  pc = "failed" => \A p \in Pairs : p[1] * p[2] <= best => ~Near(best - p[1] * p[2])
================================================================================
