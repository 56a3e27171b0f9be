------------------------------ MODULE Map_proofs ------------------------------
(***************************************************************************)
(* Proofs about Map, for grids of any size and any ratio: the search for   *)
(* the grid of servers is exact, and the lookups are each other's inverse. *)
(***************************************************************************)
EXTENDS Map, TLAPS

(* Why the search is exact *)

Values(s) == {s[k] : k \in 1..Len(s)}

Ascending(s) == \A j, k \in 1..Len(s) : j <= k => s[j] <= s[k]

(* What _get_factor has found divides the side, in ascending order. *)
FactorsDivide ==
  \A a \in Axes : \A f \in Values(factor[a]) : Divides(f, grid[a])

(* In the first loop: all divisors below i. *)
LowInv ==
  pc = "low" =>
    /\ i > 0
    /\ \A f \in Values(found) : f < i /\ f * f <= side
    /\ \A d \in 1..(i - 1) : Divides(d, side) /\ d * d <= side => d \in Values(found)

(* In the second: all divisors up to the square root, the partners of those *)
(* after index, and nothing that is greater than the next partner.          *)
HighInv ==
  pc = "high" =>
    /\ i <= Len(found)
    /\ \A d \in 1..side : Divides(d, side) /\ d * d <= side =>
          \/ \E k \in 1..i : found[k] = d
          \/ d \in Values(found) /\ side \div d \in Values(found)
    /\ \A k \in 1..i, f \in Values(found) : f <= side \div found[k]

(* A side is done when all its divisors are found. *)
Complete(a) == \A d \in 1..grid[a] : Divides(d, grid[a]) => d \in Values(factor[a])

SideDone ==
  /\ \A a \in Axes : Ascending(factor[a])
  /\ pc \in {"low", "high"} /\ axis = "x" => factor["y"] = << >>
  /\ pc \notin {"low", "high"} \/ axis = "y" => Complete("x")
  /\ pc \notin {"low", "high"} => Complete("y")

(* No pair with the wanted product lies behind the search. *)
NotPassed ==
  \A j \in 1..Len(factor["x"]), k \in 1..Len(factor["y"]) :
    factor["x"][j] * factor["y"][k] = best => j >= at[1] /\ k <= at[2]

SearchInv ==
  /\ best <= client_amount
  /\ pc # "mapped" => server_amount = best
  /\ min_sub = client_amount \/
       /\ min_sub = 0 /\ pc \notin {"low", "high", "search"}
       /\ min_at \in (1..Len(factor["x"])) \X (1..Len(factor["y"]))
       /\ Product(min_at) = best
  /\ pc = "search" => NotPassed /\ at[1] >= 1 /\ at[2] <= Len(factor["y"])
  /\ pc = "exam" /\ min_sub # 0 => NotPassed /\ ~InRange
  /\ pc = "failed" => NotPassed /\ ~InRange
  /\ pc = "mapped" => /\ servers["x"] \in Values(factor["x"])
                      /\ servers["y"] \in Values(factor["y"])
                      /\ servers["x"] * servers["y"] = best /\ server_amount = best

Inv == /\ TypeOK /\ FactorsDivide /\ LowInv /\ HighInv /\ SideDone /\ SearchInv

(* Arithmetic *)

\* Division with remainder.
LEMMA DivMod ==
  ASSUME NEW n \in Nat, NEW d \in Nat \ {0}
  PROVE  /\ n \div d \in Nat /\ n % d \in 0..(d - 1)
         /\ n = (n \div d) * d + (n % d) /\ (n \div d) * d <= n
OBVIOUS

\* Quotient and remainder are unique.
LEMMA DivModUnique ==
  ASSUME NEW q \in Int, NEW d \in Nat \ {0}, NEW r \in 0..(d - 1)
  PROVE  (q * d + r) \div d = q /\ (q * d + r) % d = r
OBVIOUS

\* Products of natural numbers grow with their factors.
LEMMA TimesMonotone ==
  ASSUME NEW a \in Nat, NEW b \in Nat, NEW c \in Nat, a <= b
  PROVE  a * c <= b * c /\ c * a <= c * b
OBVIOUS

\* A quotient is less than n when the dividend is less than n times the divisor.
LEMMA DivLess ==
  ASSUME NEW a \in Nat, NEW d \in Nat \ {0}, NEW n \in Nat, a < n * d
  PROVE  a \div d \in 0..(n - 1)
<1>1. a \div d \in Nat /\ (a \div d) * d <= a
  BY DivMod
<1>2. ASSUME n <= a \div d PROVE FALSE
  <2>1. n * d <= (a \div d) * d
    BY <1>1, <1>2, TimesMonotone
  <2>2. QED
    BY <1>1, <2>1
<1>3. QED
  BY <1>1, <1>2

\* A number in base d, with q digits in front.
LEMMA BaseBound ==
  ASSUME NEW d \in Nat \ {0}, NEW q \in Nat, NEW a \in 0..(q - 1), NEW r \in 0..(d - 1)
  PROVE  a * d + r \in 0..(q * d - 1)
<1>1. a * d <= (q - 1) * d
  BY TimesMonotone
<1>2. QED
  BY <1>1

\* A number below a product is a pair of digits.
LEMMA Digits ==
  ASSUME NEW d \in Nat \ {0}, NEW q \in Nat, NEW a \in 0..(q - 1), NEW r \in 0..(d - 1)
  PROVE  /\ a * d + r \in 0..(q * d - 1)
         /\ (a * d + r) \div d = a /\ (a * d + r) % d = r
<1>1. a \in Int
  OBVIOUS
<1>2. QED
  BY <1>1, BaseBound, DivModUnique

\* A divisor times its partner.
LEMMA Partners ==
  ASSUME NEW n \in Nat \ {0}, NEW d \in Nat \ {0}, Divides(d, n)
  PROVE  /\ n \div d \in Nat \ {0}
         /\ n = (n \div d) * d
         /\ Divides(n \div d, n)
         /\ n \div (n \div d) = d
         /\ d <= n
<1>1. n \div d \in Nat /\ n = (n \div d) * d
  BY DivMod DEF Divides
<1>2. n \div d # 0
  BY <1>1
<1>3. n = d * (n \div d) + 0
  BY <1>1
<1>4. n \div (n \div d) = d /\ n % (n \div d) = 0
  BY <1>1, <1>2, <1>3, DivModUnique
<1>5. 1 * d <= (n \div d) * d
  BY <1>1, <1>2, TimesMonotone
<1>6. QED
  BY <1>1, <1>2, <1>4, <1>5 DEF Divides

(* The lookups *)

Grids == [Axes -> Nat \ {0}]

\* The sides of a group, and the sizes that follow from them.
LEMMA Sides ==
  ASSUME NEW g \in Grids, NEW s \in Grids, \A a \in Axes : Divides(s[a], g[a])
  PROVE  /\ Per(g, s, "x") \in Nat \ {0} /\ g.x = s.x * Per(g, s, "x")
         /\ Per(g, s, "y") \in Nat \ {0} /\ g.y = s.y * Per(g, s, "y")
         /\ ClientNum(g, s) = Per(g, s, "y") * Per(g, s, "x")
<1>1. /\ g.x \in Nat \ {0} /\ g.y \in Nat \ {0} /\ s.x \in Nat \ {0} /\ s.y \in Nat \ {0}
      /\ Divides(s.x, g.x) /\ Divides(s.y, g.y)
  BY DEF Grids, Axes
<1>2. Per(g, s, "x") \in Nat \ {0} /\ g.x = s.x * Per(g, s, "x")
  BY <1>1, Partners DEF Per
<1>3. Per(g, s, "y") \in Nat \ {0} /\ g.y = s.y * Per(g, s, "y")
  BY <1>1, Partners DEF Per
<1> DEFINE px == Per(g, s, "x")
           py == Per(g, s, "y")
           n == s.x * s.y
           m == py * px
<1>4. g.x * g.y = m * n + 0 /\ m \in Nat /\ n \in Nat \ {0}
  <2> HIDE DEF px, py
  <2>1. px \in Nat /\ py \in Nat /\ g.x = s.x * px /\ g.y = s.y * py
    BY <1>2, <1>3 DEF px, py
  <2>2. QED
    BY <1>1, <2>1
<1>5. (g.x * g.y) \div n = m
  <2> HIDE DEF m, n
  <2>1. QED
    BY <1>4, DivModUnique
<1>6. QED
  BY <1>2, <1>3, <1>5 DEF ClientNum

\* A point of the grid: where it lies, in which group and where in the group.
LEMMA Decompose ==
  ASSUME NEW w \in Nat \ {0}, NEW h \in Nat, NEW c \in 0..(w * h - 1)
  PROVE  c % w \in 0..(w - 1) /\ c \div w \in 0..(h - 1) /\ c = (c \div w) * w + (c % w)
<1>1. c \in Nat /\ c < h * w
  OBVIOUS
<1>2. c \div w \in 0..(h - 1)
  BY <1>1, DivLess
<1>3. QED
  BY <1>1, <1>2, DivMod

\* Every client is in the group of its server, under its index.
LEMMA ClientFound ==
  ASSUME NEW g \in Grids, NEW s \in Grids, \A a \in Axes : Divides(s[a], g[a]),
         NEW c \in ClientsOf(g)
  PROVE  /\ ServerOfClient(g, s, c) \in ServersOf(g, s)
         /\ ClientIndex(g, s, c) \in 0..(ClientNum(g, s) - 1)
         /\ GetClient(g, s, ServerOfClient(g, s, c), ClientIndex(g, s, c)) = c
<1> DEFINE px == Per(g, s, "x")
           py == Per(g, s, "y")
           x == Col(g, c)
           y == Row(g, c)
           gx == x \div px
           gy == y \div py
           ix == x % px
           iy == y % py
<1>1. /\ g.x \in Nat \ {0} /\ g.y \in Nat \ {0} /\ s.x \in Nat \ {0} /\ s.y \in Nat \ {0}
  BY DEF Grids, Axes
<1>2. /\ px \in Nat \ {0} /\ g.x = s.x * px
      /\ py \in Nat \ {0} /\ g.y = s.y * py
      /\ ClientNum(g, s) = py * px
  BY Sides
<1>3. x \in 0..(g.x - 1) /\ y \in 0..(g.y - 1) /\ c = y * g.x + x
  BY <1>1, Decompose DEF Col, Row, ClientsOf
<1> HIDE DEF px, py, x, y
<1>4. /\ gx \in 0..(s.x - 1) /\ ix \in 0..(px - 1) /\ x = gx * px + ix
  <2>1. x \in Nat /\ x < s.x * px
    BY <1>1, <1>2, <1>3
  <2>2. QED
    BY <1>1, <1>2, <2>1, DivMod, DivLess
<1>5. /\ gy \in 0..(s.y - 1) /\ iy \in 0..(py - 1) /\ y = gy * py + iy
  <2>1. y \in Nat /\ y < s.y * py
    BY <1>1, <1>2, <1>3
  <2>2. QED
    BY <1>1, <1>2, <2>1, DivMod, DivLess
<1> HIDE DEF gx, gy, ix, iy
<1>6. gy * s.x + gx \in 0..(s.y * s.x - 1) /\ iy * px + ix \in 0..(py * px - 1)
  BY <1>1, <1>2, <1>4, <1>5, BaseBound
<1>7. /\ (gy * s.x + gx) \div s.x = gy /\ (gy * s.x + gx) % s.x = gx
      /\ (iy * px + ix) \div px = iy /\ (iy * px + ix) % px = ix
  <2>1. gy \in Int /\ s.x \in Nat \ {0} /\ gx \in 0..(s.x - 1)
    BY <1>1, <1>4, <1>5
  <2>2. iy \in Int /\ px \in Nat \ {0} /\ ix \in 0..(px - 1)
    BY <1>2, <1>4, <1>5
  <2>3. QED
    BY <2>1, <2>2, DivModUnique, Zenon
<1> DEFINE v == g.x * g.y + gx + gy * s.x
           k == ix + iy * px
<1>8. ServerOfClient(g, s, c) = v /\ ClientIndex(g, s, c) = k
  BY DEF ServerOfClient, ClientIndex, gx, gy, ix, iy, x, y, px, py
<1>9. v - g.x * g.y = gy * s.x + gx /\ k = iy * px + ix /\ s.y * s.x = s.x * s.y
  BY <1>1, <1>2, <1>4, <1>5
<1>10. v \in ServersOf(g, s) /\ k \in 0..(ClientNum(g, s) - 1)
  BY <1>1, <1>2, <1>4, <1>5, <1>6, <1>9 DEF ServersOf
<1>11. GetClient(g, s, v, k) = (ix + gx * px) + (iy + gy * py) * g.x
  <2> HIDE DEF v, k
  <2>1. QED
    BY <1>7, <1>9 DEF GetClient, px, py
<1>12. (ix + gx * px) + (iy + gy * py) * g.x = c
  <2>1. ix + gx * px = x /\ iy + gy * py = y
    BY <1>2, <1>4, <1>5
  <2>2. QED
    BY <1>1, <1>3, <2>1
<1>13. QED
  BY <1>8, <1>10, <1>11, <1>12

\* Every entry of a server's array is a client of that server, in its place.
LEMMA EntryFound ==
  ASSUME NEW g \in Grids, NEW s \in Grids, \A a \in Axes : Divides(s[a], g[a]),
         NEW v \in ServersOf(g, s), NEW k \in 0..(ClientNum(g, s) - 1)
  PROVE  /\ GetClient(g, s, v, k) \in ClientsOf(g)
         /\ ServerOfClient(g, s, GetClient(g, s, v, k)) = v
         /\ ClientIndex(g, s, GetClient(g, s, v, k)) = k
<1> DEFINE px == Per(g, s, "x")
           py == Per(g, s, "y")
           n == v - g.x * g.y
           gx == n % s.x
           gy == n \div s.x
           ix == k % px
           iy == k \div px
           x == gx * px + ix
           y == gy * py + iy
           c == y * g.x + x
<1>1. /\ g.x \in Nat \ {0} /\ g.y \in Nat \ {0} /\ s.x \in Nat \ {0} /\ s.y \in Nat \ {0}
  BY DEF Grids, Axes
<1>2. /\ px \in Nat \ {0} /\ g.x = s.x * px
      /\ py \in Nat \ {0} /\ g.y = s.y * py
      /\ ClientNum(g, s) = py * px
  BY Sides
<1>3. n \in 0..(s.x * s.y - 1) /\ v = g.x * g.y + n
  BY <1>1 DEF ServersOf
<1>4. k \in 0..(px * py - 1)
  <2>1. py * px = px * py
    BY <1>2
  <2>2. QED
    BY <1>2, <2>1
<1> HIDE DEF px, py, n
<1>5. gx \in 0..(s.x - 1) /\ gy \in 0..(s.y - 1) /\ n = gy * s.x + gx
  BY <1>1, <1>3, Decompose
<1>6. ix \in 0..(px - 1) /\ iy \in 0..(py - 1) /\ k = iy * px + ix
  BY <1>2, <1>4, Decompose
<1> HIDE DEF gx, gy, ix, iy
<1>7. x \in 0..(g.x - 1) /\ x \div px = gx /\ x % px = ix
  <2>1. /\ px \in Nat \ {0} /\ s.x \in Nat
        /\ gx \in 0..(s.x - 1) /\ ix \in 0..(px - 1)
    BY <1>1, <1>2, <1>5, <1>6
  <2>2. x \in 0..(s.x * px - 1) /\ x \div px = gx /\ x % px = ix
    BY <2>1, Digits, Zenon
  <2>3. QED
    BY <1>2, <2>2
<1>8. y \in 0..(g.y - 1) /\ y \div py = gy /\ y % py = iy
  <2>1. /\ py \in Nat \ {0} /\ s.y \in Nat
        /\ gy \in 0..(s.y - 1) /\ iy \in 0..(py - 1)
    BY <1>1, <1>2, <1>5, <1>6
  <2>2. y \in 0..(s.y * py - 1) /\ y \div py = gy /\ y % py = iy
    BY <2>1, Digits, Zenon
  <2>3. QED
    BY <1>2, <2>2
<1> HIDE DEF x, y
<1>9. c \in 0..(g.y * g.x - 1) /\ c \div g.x = y /\ c % g.x = x
  BY <1>1, <1>7, <1>8, Digits
<1>10. GetClient(g, s, v, k) = c
  <2>1. GetClient(g, s, v, k) = (ix + gx * px) + (iy + gy * py) * g.x
    BY DEF GetClient, ix, iy, gx, gy, n, px, py
  <2>2. ix + gx * px = x /\ iy + gy * py = y
    BY <1>2, <1>5, <1>6 DEF x, y
  <2>3. x + y * g.x = c
    BY <1>1, <1>7, <1>8
  <2>4. QED
    BY <2>1, <2>2, <2>3
<1> HIDE DEF c
<1>11. c \in ClientsOf(g)
  <2>1. g.y * g.x = g.x * g.y
    BY <1>1
  <2>2. QED
    BY <1>9, <2>1 DEF ClientsOf
<1>12. ServerOfClient(g, s, c) = g.x * g.y + gx + gy * s.x
  BY <1>7, <1>8, <1>9 DEF ServerOfClient, Col, Row, px, py
<1>13. ClientIndex(g, s, c) = ix + iy * px
  BY <1>7, <1>8, <1>9 DEF ClientIndex, Col, Row, px, py
<1>14. g.x * g.y + gx + gy * s.x = v /\ ix + iy * px = k
  BY <1>1, <1>2, <1>3, <1>5, <1>6
<1>15. QED
  BY <1>10, <1>11, <1>12, <1>13, <1>14

\* The lookups of map.c agree for every grid of servers that divides the grid of
\* clients: no message goes to a server that does not expect it, and no two
\* clients share a place in a server's arrays.
THEOREM LookupsInverse ==
  ASSUME NEW g \in Grids, NEW s \in Grids, \A a \in Axes : Divides(s[a], g[a])
  PROVE  LookupsMatch(g, s)
BY ClientFound, EntryFound DEF LookupsMatch

(* Sequences *)

\* The values of a list with one more element.
LEMMA AppendValues ==
  ASSUME NEW s \in Seq(Nat \ {0}), NEW e \in Nat \ {0}
  PROVE  /\ Append(s, e) \in Seq(Nat \ {0}) /\ Len(Append(s, e)) = Len(s) + 1
         /\ \A k \in 1..Len(s) : Append(s, e)[k] = s[k]
         /\ Append(s, e)[Len(s) + 1] = e
         /\ Values(Append(s, e)) = Values(s) \cup {e}
<1>1. /\ Append(s, e) \in Seq(Nat \ {0}) /\ Len(Append(s, e)) = Len(s) + 1
      /\ \A k \in 1..Len(s) : Append(s, e)[k] = s[k]
      /\ Append(s, e)[Len(s) + 1] = e /\ Len(s) \in Nat
  OBVIOUS
<1>2. 1..(Len(s) + 1) = (1..Len(s)) \cup {Len(s) + 1}
  BY <1>1
<1>3. QED
  BY <1>1, <1>2 DEF Values

\* A list stays ascending when a greater element is appended.
LEMMA AppendAscending ==
  ASSUME NEW s \in Seq(Nat \ {0}), NEW e \in Nat \ {0},
         Ascending(s), \A f \in Values(s) : f <= e
  PROVE  Ascending(Append(s, e))
<1>1. \A k \in 1..Len(s) : s[k] <= e
  BY DEF Values
<1>2. \A j, k \in 1..Len(s) : j <= k => s[j] <= s[k]
  BY DEF Ascending
<1> DEFINE t == Append(s, e)
<1>3. /\ Len(t) = Len(s) + 1 /\ Len(s) \in Nat /\ e \in Nat
      /\ \A k \in 1..Len(s) : t[k] = s[k]
      /\ t[Len(s) + 1] = e
  BY AppendValues
<1> HIDE DEF t
<1>4. ASSUME NEW j \in 1..Len(t), NEW k \in 1..Len(t), j <= k PROVE t[j] <= t[k]
  <2>1. CASE k \in 1..Len(s)
    BY <1>2, <1>3, <1>4, <2>1
  <2>2. CASE k = Len(s) + 1
    BY <1>1, <1>3, <1>4, <2>2
  <2>3. QED
    BY <1>3, <2>1, <2>2
<1>5. Ascending(t)
  BY <1>4 DEF Ascending
<1>6. QED
  BY <1>5 DEF t

(* The invariant holds at the start *)

\* The invariant holds when the search starts.
LEMMA InitInv == Init => Inv
<1> SUFFICES ASSUME Init PROVE Inv
  OBVIOUS
<1>1. grid \in [Axes -> Nat \ {0}] /\ client_amount \in Nat \ {0}
  BY GridsAssumption DEF Init, Axes, client_amount
<1>2. best \in Nat \ {0} /\ best <= client_amount
  <2>1. PICK r \in Ratios : best = BestServerAmount(client_amount, r)
    BY DEF Init
  <2> DEFINE n == client_amount
             q == n \div r
  <2>2. r \in Nat \ {0} /\ n \in Nat \ {0}
    BY <1>1, GridsAssumption
  <2> HIDE DEF n
  <2>3. q \in Nat /\ q * r <= n
    BY <2>2, DivMod
  <2> HIDE DEF q
  <2>4. q * 1 <= q * r
    BY <2>2, <2>3, TimesMonotone
  <2>5. q <= n
    BY <2>2, <2>3, <2>4
  <2>6. QED
    BY <2>1, <2>2, <2>3, <2>5 DEF BestServerAmount, n, q
<1>3. TypeOK
  BY <1>1, <1>2 DEF Init, TypeOK, Axes
<1>4. FactorsDivide /\ LowInv /\ HighInv /\ SideDone
  BY <1>1 DEF Init, FactorsDivide, LowInv, HighInv, SideDone, Values, Ascending, Axes,
              found, side
<1>5. SearchInv
  BY <1>2 DEF Init, SearchInv
<1>6. QED
  BY <1>3, <1>4, <1>5 DEF Inv

(* The loops of _get_factor *)

\* What every step of the loops may rely on.
LEMMA LoopFacts ==
  ASSUME Inv, pc \in {"low", "high"}
  PROVE  /\ axis \in Axes /\ side \in Nat \ {0} /\ found \in Seq(Nat \ {0})
         /\ \A f \in Values(found) : f \in Nat \ {0} /\ Divides(f, side)
         /\ Ascending(found)
         /\ i \in Nat /\ min_sub = client_amount
<1>1. axis \in Axes /\ side \in Nat \ {0} /\ found \in Seq(Nat \ {0}) /\ i \in Nat
  BY DEF Inv, TypeOK, side, found
<1>2. \A f \in Values(found) : f \in Nat \ {0}
  BY <1>1 DEF Values
<1>3. \A f \in Values(found) : Divides(f, side)
  BY <1>1 DEF Inv, FactorsDivide, found, side
<1>4. Ascending(found)
  BY <1>1 DEF Inv, SideDone, found
<1>5. min_sub = client_amount
  BY DEF Inv, SearchInv
<1>6. QED
  BY <1>1, <1>2, <1>3, <1>4, <1>5

\* A divisor that is not below any other found one extends the list.
LEMMA ExtendFactor ==
  ASSUME Inv, pc \in {"low", "high"}, NEW e \in Nat \ {0}, Divides(e, side),
         \A f \in Values(found) : f <= e,
         factor' = [factor EXCEPT ![axis] = Append(found, e)],
         UNCHANGED <<grid, axis>>
  PROVE  /\ factor' \in [Axes -> Seq(Nat \ {0})] /\ found' = Append(found, e)
         /\ side' = side
         /\ Values(found') = Values(found) \cup {e}
         /\ FactorsDivide'
         /\ \A a \in Axes : Ascending(factor[a])'
         /\ \A a \in Axes : a # axis => factor'[a] = factor[a]
<1>1. /\ axis \in Axes /\ found \in Seq(Nat \ {0}) /\ Ascending(found)
      /\ factor \in [Axes -> Seq(Nat \ {0})]
  BY LoopFacts DEF Inv, TypeOK
<1>2. /\ Append(found, e) \in Seq(Nat \ {0})
      /\ Values(Append(found, e)) = Values(found) \cup {e}
      /\ Ascending(Append(found, e))
  BY <1>1, AppendValues, AppendAscending
<1>3. factor' \in [Axes -> Seq(Nat \ {0})] /\ factor'[axis] = Append(found, e)
      /\ \A a \in Axes : a # axis => factor'[a] = factor[a]
  BY <1>1, <1>2
<1>4. found' = Append(found, e) /\ side' = side
  BY <1>3 DEF found, side
<1>5. FactorsDivide'
  <2> SUFFICES ASSUME NEW a \in Axes, NEW f \in Values(factor'[a])
               PROVE  Divides(f, grid'[a])
    BY DEF FactorsDivide, Values
  <2>1. CASE a = axis
    BY <1>2, <1>3, <2>1, LoopFacts DEF side
  <2>2. CASE a # axis
    BY <1>3, <2>2 DEF Inv, FactorsDivide
  <2>3. QED
    BY <2>1, <2>2
<1>6. \A a \in Axes : Ascending(factor[a])'
  <2> SUFFICES ASSUME NEW a \in Axes PROVE Ascending(factor'[a])
    BY DEF Ascending
  <2>1. CASE a = axis
    BY <1>2, <1>3, <2>1
  <2>2. CASE a # axis
    BY <1>3, <2>2 DEF Inv, SideDone
  <2>3. QED
    BY <2>1, <2>2
<1>7. QED
  BY <1>2, <1>3, <1>4, <1>5, <1>6

\* Divisors found, the first loop.
LEMMA TryFactorInv == ASSUME Inv, TryFactor PROVE Inv'
<1>1. /\ axis \in Axes /\ side \in Nat \ {0} /\ found \in Seq(Nat \ {0}) /\ i \in Nat
      /\ pc = "low" /\ i > 0 /\ i * i <= side
  BY LoopFacts DEF TryFactor, Inv, LowInv
<1>2. /\ \A f \in Values(found) : f < i /\ f * f <= side /\ f \in Nat \ {0}
      /\ \A d \in 1..(i - 1) : Divides(d, side) /\ d * d <= side => d \in Values(found)
  BY <1>1, LoopFacts DEF Inv, LowInv
<1>3. UNCHANGED <<pc, grid, axis, best, server_amount, at, min_sub, min_at, servers>> /\ i' = i + 1
  BY DEF TryFactor
<1>4. SearchInv'
  BY <1>1, <1>3, LoopFacts DEF Inv, SearchInv, client_amount
<1>5. CASE Divides(i, side)
  <2>1. factor' = [factor EXCEPT ![axis] = Append(found, i)] /\ i \in Nat \ {0}
    BY <1>1, <1>5 DEF TryFactor
  <2>2. \A f \in Values(found) : f <= i
    BY <1>1, <1>2
  <2>3. /\ factor' \in [Axes -> Seq(Nat \ {0})] /\ side' = side
        /\ Values(found') = Values(found) \cup {i}
        /\ FactorsDivide' /\ \A a \in Axes : Ascending(factor[a])'
        /\ \A a \in Axes : a # axis => factor'[a] = factor[a]
    BY <1>1, <1>3, <1>5, <2>1, <2>2, ExtendFactor
  <2>4. TypeOK'
    BY <1>1, <1>3, <2>3 DEF Inv, TypeOK
  <2>5. LowInv' /\ HighInv'
    BY <1>1, <1>2, <1>3, <2>3 DEF LowInv, HighInv
  <2>6. SideDone'
    BY <1>1, <1>3, <2>3 DEF Inv, SideDone, Axes, Complete
  <2>7. QED
    BY <1>4, <2>3, <2>4, <2>5, <2>6 DEF Inv
<1>6. CASE ~Divides(i, side)
  <2>1. factor' = factor /\ side' = side /\ found' = found
    BY <1>3, <1>6 DEF TryFactor, side, found
  <2>2. TypeOK'
    BY <1>1, <1>3, <2>1 DEF Inv, TypeOK
  <2>3. \A d \in 1..i : Divides(d, side) /\ d * d <= side => d \in Values(found)
    BY <1>1, <1>2, <1>6
  <2>4. LowInv' /\ HighInv'
    BY <1>1, <1>2, <1>3, <2>1, <2>3 DEF LowInv, HighInv
  <2>5. FactorsDivide' /\ SideDone'
    BY <1>1, <1>3, <2>1 DEF Inv, FactorsDivide, SideDone, Complete
  <2>6. QED
    BY <1>4, <2>2, <2>4, <2>5 DEF Inv
<1>7. QED
  BY <1>5, <1>6

\* Two numbers up to the square root of n: the one is at most the other's partner.
LEMMA SmallPair ==
  ASSUME NEW n \in Nat \ {0}, NEW a \in Nat \ {0}, NEW b \in Nat \ {0},
         a * a <= n, b * b <= n, Divides(a, n)
  PROVE  b <= n \div a
<1>1. n \div a \in Nat /\ n = (n \div a) * a
  BY Partners
<1> DEFINE p == n \div a
<1> HIDE DEF p
<1>2. ASSUME p < b PROVE FALSE
  <2>1. p + 1 <= b /\ p \in Nat /\ n = p * a
    BY <1>1, <1>2 DEF p
  <2>2. CASE a <= b
    <3>1. (p + 1) * b <= b * b
      BY <2>1, TimesMonotone
    <3>2. p * a <= p * b
      BY <2>1, <2>2, TimesMonotone
    <3>3. (p + 1) * b = p * b + b
      BY <2>1
    <3>4. p * a >= b * b
      BY <2>1
    <3>5. QED
      BY <2>1, <3>1, <3>2, <3>3, <3>4
  <2>3. CASE b < a
    <3>1. (p + 1) * a <= a * a
      BY <2>1, <2>3, TimesMonotone
    <3>2. (p + 1) * a = p * a + a
      BY <2>1
    <3>3. QED
      BY <2>1, <3>1, <3>2
  <2>4. QED
    BY <2>2, <2>3
<1>3. QED
  BY <1>1, <1>2 DEF p

\* The greater divisor has the lesser partner.
LEMMA PartnersDescend ==
  ASSUME NEW n \in Nat \ {0}, NEW a \in Nat \ {0}, NEW b \in Nat \ {0},
         Divides(a, n), Divides(b, n), a <= b
  PROVE  n \div b <= n \div a
<1> DEFINE p == n \div a
           q == n \div b
<1>1. p \in Nat /\ q \in Nat /\ n = p * a /\ n = q * b
  BY Partners
<1> HIDE DEF p, q
<1>2. ASSUME p < q PROVE FALSE
  <2>1. (p + 1) * a <= q * a
    BY <1>1, <1>2, TimesMonotone
  <2>2. q * a <= q * b
    BY <1>1, TimesMonotone
  <2>3. (p + 1) * a = p * a + a
    BY <1>1
  <2>4. QED
    BY <1>1, <2>1, <2>2, <2>3
<1>3. QED
  BY <1>1, <1>2 DEF p, q

\* Divisors found, from the first loop to the second.
LEMMA LowDoneInv == ASSUME Inv, LowDone PROVE Inv'
<1>1. /\ axis \in Axes /\ side \in Nat \ {0} /\ found \in Seq(Nat \ {0}) /\ i \in Nat
      /\ pc = "low" /\ i > 0 /\ i * i > side /\ pc' = "high" /\ i' = LastPartner
      /\ UNCHANGED <<grid, axis, best, server_amount, factor, at, min_sub, min_at, servers>>
  BY LoopFacts DEF LowDone, Inv, LowInv
<1>2. side' = side /\ found' = found
  BY <1>1 DEF side, found
<1>3. /\ \A f \in Values(found) : f * f <= side /\ f \in Nat \ {0} /\ Divides(f, side)
      /\ \A d \in 1..(i - 1) : Divides(d, side) /\ d * d <= side => d \in Values(found)
  BY <1>1, LoopFacts DEF Inv, LowInv
<1>4. \A d \in 1..side : Divides(d, side) /\ d * d <= side => d \in Values(found)
  <2> SUFFICES ASSUME NEW d \in 1..side, Divides(d, side), d * d <= side
               PROVE  d \in Values(found)
    OBVIOUS
  <2>1. ASSUME i <= d PROVE FALSE
    <3>1. i * i <= i * d /\ i * d <= d * d
      BY <1>1, <2>1, TimesMonotone
    <3>2. QED
      BY <1>1, <3>1
  <2>2. QED
    BY <1>1, <1>3, <2>1
<1>5. Len(found) \in Nat \ {0}
  <2>1. 1 \in Values(found)
    BY <1>1, <1>4 DEF Divides
  <2>2. QED
    BY <1>1, <2>1 DEF Values
<1>6. LastPartner \in Nat /\ LastPartner <= Len(found)
  BY <1>5 DEF LastPartner
<1>7. \A k \in 1..Len(found) : found[k] \in Values(found)
  BY DEF Values
<1>8. TypeOK'
  BY <1>1, <1>6 DEF Inv, TypeOK
<1>9. HighInv'
  <2>1. ASSUME NEW d \in 1..side, Divides(d, side), d * d <= side
        PROVE  \/ \E k \in 1..LastPartner : found[k] = d
               \/ d \in Values(found) /\ side \div d \in Values(found)
    <3>1. PICK k \in 1..Len(found) : found[k] = d
      BY <1>4, <2>1 DEF Values
    <3>2. CASE k \in 1..LastPartner
      BY <3>1, <3>2
    <3>3. CASE k \notin 1..LastPartner
      <4>1. k = Len(found) /\ d * d = side
        BY <1>5, <3>1, <3>3 DEF LastPartner
      <4>2. side \div d = d
        <5>1. d \in Int /\ d \in Nat \ {0} /\ 0 \in 0..(d - 1) /\ d * d + 0 = side
          BY <1>1, <4>1
        <5>2. (d * d + 0) \div d = d
          BY <5>1, DivModUnique, Zenon
        <5>3. QED
          BY <5>1, <5>2, Zenon
      <4>3. QED
        BY <1>7, <3>1, <4>2
    <3>4. QED
      BY <3>2, <3>3
  <2>2. ASSUME NEW k \in 1..LastPartner, NEW f \in Values(found)
        PROVE  f <= side \div found[k]
    <3>1. found[k] \in Values(found)
      BY <1>5, <1>6, <1>7
    <3>2. QED
      BY <1>1, <1>3, <3>1, SmallPair
  <2>3. QED
    BY <1>1, <1>2, <1>6, <2>1, <2>2 DEF HighInv, Values
<1>10. LowInv' /\ FactorsDivide' /\ SideDone' /\ SearchInv'
  BY <1>1 DEF Inv, LowInv, FactorsDivide, SideDone, Complete, SearchInv, client_amount
<1>11. QED
  BY <1>8, <1>9, <1>10 DEF Inv

\* Partners found, the second loop.
LEMMA PartnerInv == ASSUME Inv, Partner PROVE Inv'
<1> DEFINE d == found[i]
           p == side \div d
<1>1. /\ axis \in Axes /\ side \in Nat \ {0} /\ found \in Seq(Nat \ {0}) /\ i \in Nat
      /\ pc = "high" /\ i > 0 /\ i' = i - 1
      /\ factor' = [factor EXCEPT ![axis] = Append(found, p)]
      /\ UNCHANGED <<pc, grid, axis, best, server_amount, at, min_sub, min_at, servers>>
  BY LoopFacts DEF Partner
<1>2. /\ i <= Len(found)
      /\ \A e \in 1..side : Divides(e, side) /\ e * e <= side =>
            \/ \E k \in 1..i : found[k] = e
            \/ e \in Values(found) /\ side \div e \in Values(found)
      /\ \A k \in 1..i, f \in Values(found) : f <= side \div found[k]
  BY <1>1 DEF Inv, HighInv
<1>3. \A k \in 1..Len(found) : found[k] \in Values(found)
  BY DEF Values
<1>4. \A f \in Values(found) : f \in Nat \ {0} /\ Divides(f, side)
  BY <1>1, LoopFacts
<1>5. d \in Values(found) /\ d \in Nat \ {0} /\ Divides(d, side)
  <2>1. i \in 1..Len(found)
    BY <1>1, <1>2
  <2>2. QED
    BY <1>3, <1>4, <2>1
<1>6. p \in Nat \ {0} /\ Divides(p, side) /\ \A f \in Values(found) : f <= p
  <2>1. p \in Nat \ {0} /\ Divides(p, side)
    BY <1>1, <1>5, Partners
  <2>2. i \in 1..i
    BY <1>1
  <2>3. QED
    BY <1>2, <2>1, <2>2
<1>7. /\ factor' \in [Axes -> Seq(Nat \ {0})] /\ side' = side
      /\ found' = Append(found, p)
      /\ Values(found') = Values(found) \cup {p}
      /\ FactorsDivide' /\ \A a \in Axes : Ascending(factor[a])'
      /\ \A a \in Axes : a # axis => factor'[a] = factor[a]
  <2> HIDE DEF p
  <2>1. QED
    BY <1>1, <1>6, ExtendFactor
<1>8. /\ \A k \in 1..Len(found) : found'[k] = found[k]
      /\ Len(found') = Len(found) + 1
  <2> HIDE DEF p
  <2>1. QED
    BY <1>1, <1>6, <1>7, AppendValues
<1>9. TypeOK'
  BY <1>1, <1>7 DEF Inv, TypeOK
<1>10. HighInv'
  <2>1. \A k \in 1..(i - 1) : found'[k] = found[k] /\ k \in 1..Len(found)
    BY <1>1, <1>2, <1>8
  <2>2. ASSUME NEW e \in 1..side, Divides(e, side), e * e <= side
        PROVE  \/ \E k \in 1..(i - 1) : found'[k] = e
               \/ e \in Values(found') /\ side \div e \in Values(found')
    <3>1. CASE \E k \in 1..i : found[k] = e
      <4>1. PICK k \in 1..i : found[k] = e
        BY <3>1
      <4>2. CASE k = i
        BY <1>5, <1>7, <4>1, <4>2
      <4>3. CASE k # i
        <5>1. k \in 1..(i - 1)
          BY <1>1, <4>3
        <5>2. QED
          BY <2>1, <4>1, <5>1
      <4>4. QED
        BY <4>2, <4>3
    <3>2. CASE e \in Values(found) /\ side \div e \in Values(found)
      BY <1>7, <3>2
    <3>3. QED
      BY <1>2, <2>2, <3>1, <3>2
  <2>3. ASSUME NEW k \in 1..(i - 1), NEW f \in Values(found')
        PROVE  f <= side \div found'[k]
    <3>1. k \in 1..i /\ found'[k] = found[k] /\ found[k] \in Values(found)
      BY <1>1, <1>3, <2>1
    <3>2. CASE f \in Values(found)
      BY <1>2, <3>1, <3>2
    <3>3. CASE f = p
      <4>1. found[k] <= found[i]
        <5>1. k \in 1..Len(found) /\ i \in 1..Len(found) /\ k <= i
          BY <1>1, <1>2, <2>1
        <5>2. QED
          BY <1>1, <5>1, LoopFacts DEF Ascending
      <4>2. found[k] \in Nat \ {0} /\ Divides(found[k], side)
        BY <1>4, <3>1
      <4>3. QED
        BY <1>1, <1>5, <3>1, <3>3, <4>1, <4>2, PartnersDescend
    <3>4. QED
      BY <1>7, <3>2, <3>3
  <2>4. i' <= Len(found') /\ i' = i - 1 /\ side' = side
    BY <1>1, <1>2, <1>7, <1>8
  <2> HIDE DEF p, d
  <2>5. QED
    BY <2>2, <2>3, <2>4 DEF HighInv
<1>11. LowInv' /\ SearchInv'
  BY <1>1 DEF Inv, LowInv, SearchInv, client_amount
<1>12. SideDone'
  BY <1>1, <1>7 DEF Inv, SideDone, Axes, Complete
<1>13. QED
  BY <1>7, <1>9, <1>10, <1>11, <1>12 DEF Inv

\* A divisor above the square root is the partner of one below it.
LEMMA GreatPartner ==
  ASSUME NEW n \in Nat \ {0}, NEW d \in Nat \ {0}, Divides(d, n), d * d > n
  PROVE  (n \div d) * (n \div d) <= n
<1> DEFINE e == n \div d
<1>1. e \in Nat /\ n = e * d
  BY Partners
<1> HIDE DEF e
<1>2. e <= d
  <2>1. ASSUME d < e PROVE FALSE
    <3>1. d * d <= e * d
      BY <1>1, <2>1, TimesMonotone
    <3>2. QED
      BY <1>1, <3>1
  <2>2. QED
    BY <1>1, <2>1
<1>3. e * e <= e * d
  BY <1>1, <1>2, TimesMonotone
<1>4. QED
  BY <1>1, <1>3 DEF e

\* When the second loop ends, all divisors are found.
LEMMA AllFound == ASSUME Inv, pc = "high", i = 0 PROVE Complete(axis)
<1>1. axis \in Axes /\ side \in Nat \ {0} /\ side = grid[axis] /\ found = factor[axis]
  BY LoopFacts DEF side, found
<1>2. \A d \in 1..side : Divides(d, side) /\ d * d <= side =>
        d \in Values(found) /\ side \div d \in Values(found)
  BY DEF Inv, HighInv
<1>3. ASSUME NEW d \in 1..side, Divides(d, side) PROVE d \in Values(found)
  <2>1. CASE d * d <= side
    BY <1>2, <1>3, <2>1
  <2>2. CASE d * d > side
    <3> DEFINE e == side \div d
    <3>1. d \in Nat \ {0}
      BY <1>1
    <3>2. /\ e \in Nat \ {0} /\ Divides(e, side) /\ side \div e = d /\ e <= side
      <4>1. e \in Nat \ {0} /\ Divides(e, side) /\ side \div e = d
        BY <1>1, <1>3, <3>1, Partners
      <4>2. e <= side
        BY <1>1, <4>1, Partners
      <4>3. QED
        BY <4>1, <4>2
    <3>3. e * e <= side
      BY <1>1, <1>3, <2>2, <3>1, GreatPartner
    <3> HIDE DEF e
    <3>4. QED
      BY <1>1, <1>2, <3>2, <3>3
  <2>3. QED
    BY <1>1, <2>1, <2>2
<1>4. QED
  BY <1>1, <1>3 DEF Complete

\* Divisors found, from one side to the next or to the search.
LEMMA HighDoneInv == ASSUME Inv, HighDone PROVE Inv'
<1>1. /\ axis \in Axes /\ pc = "high" /\ i = 0 /\ min_sub = client_amount
      /\ UNCHANGED <<grid, best, server_amount, factor, min_sub, min_at, servers>>
  BY LoopFacts DEF HighDone
<1>2. Complete(axis)
  BY <1>1, AllFound
<1>3. FactorsDivide'
  BY <1>1 DEF Inv, FactorsDivide
<1>4. CASE axis = "x"
  <2>1. pc' = "low" /\ axis' = "y" /\ i' = 1 /\ at' = at
    BY <1>4 DEF HighDone
  <2>2. TypeOK'
    BY <1>1, <2>1 DEF Inv, TypeOK, Axes
  <2>3. found' = << >>
    BY <1>1, <1>4, <2>1 DEF Inv, SideDone, found
  <2>4. LowInv' /\ HighInv'
    BY <2>1, <2>3 DEF LowInv, HighInv, Values
  <2>5. SideDone'
    BY <1>1, <1>2, <1>4, <2>1 DEF Inv, SideDone, Complete
  <2>6. SearchInv'
    BY <1>1, <2>1 DEF Inv, SearchInv, client_amount
  <2>7. QED
    BY <1>3, <2>2, <2>4, <2>5, <2>6 DEF Inv
<1>5. CASE axis # "x"
  <2>1. axis = "y" /\ pc' = "search" /\ UNCHANGED <<axis, i>> /\ at' = <<1, Len(factor["y"])>>
    BY <1>1, <1>5 DEF HighDone, Axes
  <2>2. TypeOK'
    <3>1. Len(factor["y"]) \in Nat
      BY DEF Inv, TypeOK, Axes
    <3>2. QED
      BY <1>1, <2>1, <3>1 DEF Inv, TypeOK
  <2>3. LowInv' /\ HighInv'
    BY <2>1 DEF LowInv, HighInv
  <2>4. SideDone'
    BY <1>1, <1>2, <2>1 DEF Inv, SideDone, Complete
  <2>5. NotPassed'
    BY <1>1, <2>1 DEF NotPassed
  <2>6. SearchInv'
    BY <1>1, <2>1, <2>5 DEF Inv, SearchInv, client_amount
  <2>7. QED
    BY <1>3, <2>2, <2>3, <2>4, <2>6 DEF Inv
<1>6. QED
  BY <1>4, <1>5

(* The search *)

\* The steps of the search leave the divisors alone.
LEMMA DivisorsKept ==
  ASSUME Inv, pc \notin {"low", "high"}, pc' \notin {"low", "high"},
         UNCHANGED <<grid, factor>>
  PROVE  FactorsDivide' /\ LowInv' /\ HighInv' /\ SideDone'
BY DEF Inv, FactorsDivide, LowInv, HighInv, SideDone, Complete

\* Where the search stands while it is in range.
LEMMA SearchFacts ==
  ASSUME Inv, pc = "search", InRange
  PROVE  /\ factor["x"] \in Seq(Nat \ {0}) /\ factor["y"] \in Seq(Nat \ {0})
         /\ at[1] \in 1..Len(factor["x"]) /\ at[2] \in 1..Len(factor["y"])
         /\ at = <<at[1], at[2]>> /\ NotPassed
         /\ Ascending(factor["x"]) /\ Ascending(factor["y"])
         /\ best \in Nat \ {0} /\ min_sub = client_amount
<1>1. /\ factor["x"] \in Seq(Nat \ {0}) /\ factor["y"] \in Seq(Nat \ {0})
      /\ at \in Nat \X Nat /\ best \in Nat \ {0}
  BY DEF Inv, TypeOK, Axes
<1>2. /\ at[1] >= 1 /\ at[2] <= Len(factor["y"]) /\ NotPassed /\ min_sub = client_amount
  BY DEF Inv, SearchInv
<1>3. Ascending(factor["x"]) /\ Ascending(factor["y"])
  BY DEF Inv, SideDone, Axes
<1>4. at[1] \in 1..Len(factor["x"]) /\ at[2] \in 1..Len(factor["y"])
  BY <1>1, <1>2 DEF InRange
<1>5. QED
  BY <1>1, <1>2, <1>3, <1>4

\* A step along a side that leaves no wanted product behind.
LEMMA AdvanceInv ==
  ASSUME Inv, pc = "search", InRange, NEW j \in Nat, NEW k \in Nat, NEW sub \in Nat,
         Advance(<<j, k>>, sub), j >= at[1], k <= at[2],
         \A m \in 1..Len(factor["x"]), n \in 1..Len(factor["y"]) :
           factor["x"][m] * factor["y"][n] = best => m >= j /\ n <= k
  PROVE  Inv'
<1>1. /\ UNCHANGED <<pc, grid, best, server_amount, axis, i, factor, min_sub, servers>>
      /\ at' = <<j, k>> /\ min_at' \in {<<j, k>>, min_at}
  BY DEF Advance
<1>2. TypeOK'
  BY <1>1 DEF Inv, TypeOK
<1>3. NotPassed' /\ at'[1] >= 1 /\ at'[2] <= Len(factor'["y"])
  <2>1. at'[1] = j /\ at'[2] = k
    BY <1>1
  <2>2. at[1] >= 1 /\ at[1] \in Nat /\ at[2] \in Nat /\ at[2] <= Len(factor["y"])
        /\ Len(factor["y"]) \in Nat
    BY SearchFacts
  <2>3. j >= 1 /\ k <= Len(factor["y"])
    BY <2>2
  <2>4. QED
    BY <1>1, <2>1, <2>3 DEF NotPassed
<1>4. SearchInv'
  BY <1>1, <1>3 DEF Inv, SearchInv, client_amount
<1>5. QED
  BY <1>1, <1>2, <1>4, DivisorsKept DEF Inv

\* A divisor tried for the first side keeps it.
LEMMA AdvanceXInv == ASSUME Inv, AdvanceX PROVE Inv'
<1> DEFINE fx == factor["x"]
           fy == factor["y"]
<1>1. /\ pc = "search" /\ InRange /\ fx[at[1]] * fy[at[2]] < best
      /\ Advance(<<at[1] + 1, at[2]>>, best - fx[at[1]] * fy[at[2]])
  BY DEF AdvanceX, Product
<1>2. /\ fx \in Seq(Nat \ {0}) /\ fy \in Seq(Nat \ {0}) /\ best \in Nat \ {0}
      /\ at[1] \in 1..Len(fx) /\ at[2] \in 1..Len(fy)
      /\ NotPassed /\ Ascending(fy)
  BY <1>1, SearchFacts
<1> HIDE DEF fx, fy
<1>3. ASSUME NEW m \in 1..Len(fx), NEW n \in 1..Len(fy), fx[m] * fy[n] = best
      PROVE  m >= at[1] + 1 /\ n <= at[2]
  <2>1. m >= at[1] /\ n <= at[2]
    BY <1>2, <1>3 DEF NotPassed, fx, fy
  <2>2. ASSUME m = at[1] PROVE FALSE
    <3>1. fy[n] <= fy[at[2]]
      BY <1>2, <2>1 DEF Ascending
    <3>2. fx[m] * fy[n] <= fx[m] * fy[at[2]]
      <4>1. fx[m] \in Nat /\ fy[n] \in Nat /\ fy[at[2]] \in Nat
        BY <1>2
      <4>2. QED
        BY <3>1, <4>1, TimesMonotone
    <3>3. fx[at[1]] * fy[at[2]] \in Nat
      BY <1>2
    <3>4. QED
      BY <1>1, <1>2, <1>3, <2>2, <3>2, <3>3
  <2>3. QED
    BY <1>2, <2>1, <2>2
<1>4. /\ at[1] + 1 \in Nat /\ at[2] \in Nat /\ at[1] + 1 >= at[1] /\ at[2] <= at[2]
      /\ best - fx[at[1]] * fy[at[2]] \in Nat
  <2> DEFINE p == fx[at[1]] * fy[at[2]]
  <2>1. p \in Nat
    BY <1>2
  <2>2. at[1] \in Nat /\ at[2] \in Nat /\ at[2] >= 1
    BY <1>2
  <2>3. p < best
    BY <1>1
  <2> HIDE DEF p
  <2>4. best - p \in Nat
    BY <1>2, <2>1, <2>3
  <2>5. at[1] + 1 \in Nat /\ at[1] + 1 >= at[1] /\ at[2] <= at[2]
    BY <2>2
  <2>6. QED
    BY <2>2, <2>4, <2>5, Zenon DEF p
<1>5. QED
  BY <1>1, <1>3, <1>4, AdvanceInv DEF fx, fy

\* A divisor tried for the second side keeps it.
LEMMA AdvanceYInv == ASSUME Inv, AdvanceY PROVE Inv'
<1> DEFINE fx == factor["x"]
           fy == factor["y"]
<1>1. /\ pc = "search" /\ InRange /\ fx[at[1]] * fy[at[2]] > best
      /\ Advance(<<at[1], at[2] - 1>>, fx[at[1]] * fy[at[2]] - best)
  BY DEF AdvanceY, Product
<1>2. /\ fx \in Seq(Nat \ {0}) /\ fy \in Seq(Nat \ {0}) /\ best \in Nat \ {0}
      /\ at[1] \in 1..Len(fx) /\ at[2] \in 1..Len(fy)
      /\ NotPassed /\ Ascending(fx)
  BY <1>1, SearchFacts
<1> HIDE DEF fx, fy
<1>3. ASSUME NEW m \in 1..Len(fx), NEW n \in 1..Len(fy), fx[m] * fy[n] = best
      PROVE  m >= at[1] /\ n <= at[2] - 1
  <2>1. m >= at[1] /\ n <= at[2]
    BY <1>2, <1>3 DEF NotPassed, fx, fy
  <2>2. ASSUME n = at[2] PROVE FALSE
    <3>1. fx[at[1]] <= fx[m]
      BY <1>2, <2>1 DEF Ascending
    <3>2. fx[at[1]] * fy[n] <= fx[m] * fy[n]
      <4>1. fx[m] \in Nat /\ fy[n] \in Nat /\ fx[at[1]] \in Nat
        BY <1>2
      <4>2. QED
        BY <3>1, <4>1, TimesMonotone
    <3>3. fx[at[1]] * fy[at[2]] \in Nat
      BY <1>2
    <3>4. QED
      BY <1>1, <1>2, <1>3, <2>2, <3>2, <3>3
  <2>3. QED
    BY <1>2, <2>1, <2>2
<1>4. /\ at[1] \in Nat /\ at[2] - 1 \in Nat /\ at[1] >= at[1] /\ at[2] - 1 <= at[2]
      /\ fx[at[1]] * fy[at[2]] - best \in Nat
  <2> DEFINE p == fx[at[1]] * fy[at[2]]
  <2>1. p \in Nat
    BY <1>2
  <2>2. at[1] \in Nat /\ at[2] \in Nat /\ at[2] >= 1
    BY <1>2
  <2>3. p > best
    BY <1>1
  <2> HIDE DEF p
  <2>4. p - best \in Nat
    BY <1>2, <2>1, <2>3
  <2>5. at[2] - 1 \in Nat /\ at[1] >= at[1] /\ at[2] - 1 <= at[2]
    BY <2>2
  <2>6. QED
    BY <2>2, <2>4, <2>5, Zenon DEF p
<1>5. QED
  BY <1>1, <1>3, <1>4, AdvanceInv DEF fx, fy

\* The wanted product is found.
LEMMA FoundInv == ASSUME Inv, Found PROVE Inv'
<1>1. /\ pc = "search" /\ InRange /\ Product(at) = best
      /\ pc' = "exam" /\ min_sub' = 0 /\ min_at' = at
      /\ UNCHANGED <<grid, best, server_amount, axis, i, factor, at, servers>>
  BY DEF Found
<1>2. at \in (1..Len(factor["x"])) \X (1..Len(factor["y"])) /\ at \in Nat \X Nat
  BY <1>1, SearchFacts DEF Inv, TypeOK
<1>3. TypeOK'
  BY <1>1, <1>2 DEF Inv, TypeOK
<1>4. Product(min_at)' = best
  BY <1>1 DEF Product
<1>5. SearchInv'
  BY <1>1, <1>2, <1>4 DEF Inv, SearchInv, client_amount
<1>6. QED
  BY <1>1, <1>3, <1>5, DivisorsKept DEF Inv

\* The search is over without it.
LEMMA ExhaustedInv == ASSUME Inv, Exhausted PROVE Inv'
<1>1. /\ pc = "search" /\ ~InRange /\ pc' = "exam"
      /\ UNCHANGED <<grid, best, server_amount, axis, i, factor, at, min_sub, min_at, servers>>
  BY DEF Exhausted
<1>2. TypeOK'
  BY <1>1 DEF Inv, TypeOK
<1>3. NotPassed' /\ ~InRange'
  BY <1>1 DEF Inv, SearchInv, NotPassed, InRange
<1>4. SearchInv'
  BY <1>1, <1>3 DEF Inv, SearchInv, client_amount
<1>5. QED
  BY <1>1, <1>2, <1>4, DivisorsKept DEF Inv

\* min_sub is client_amount, never near, or the wanted product was found.
LEMMA ExamFacts ==
  ASSUME Inv, pc = "exam"
  PROVE  /\ Near(min_sub) => min_sub = 0
         /\ min_sub = 0 => /\ Near(min_sub) /\ Product(min_at) = best
                           /\ min_at \in (1..Len(factor["x"])) \X (1..Len(factor["y"]))
         /\ min_sub # 0 => NotPassed /\ ~InRange
         /\ server_amount = best
<1>1. best \in Nat \ {0} /\ min_sub \in Nat /\ best <= client_amount
  BY DEF Inv, TypeOK, SearchInv
<1>2. client_amount \in Nat \ {0}
  BY DEF Inv, TypeOK, Axes, client_amount
<1>3. min_sub = client_amount \/
        /\ min_sub = 0 /\ Product(min_at) = best
        /\ min_at \in (1..Len(factor["x"])) \X (1..Len(factor["y"]))
  BY DEF Inv, SearchInv
<1>4. Near(min_sub) => min_sub = 0
  BY <1>1, <1>2, <1>3 DEF Near
<1>5. min_sub = 0 => Near(min_sub)
  BY <1>1 DEF Near
<1>6. (min_sub # 0 => NotPassed /\ ~InRange) /\ server_amount = best
  BY DEF Inv, SearchInv
<1>7. QED
  BY <1>2, <1>3, <1>4, <1>5, <1>6

\* The grid of servers is taken from the divisors.
LEMMA AcceptInv == ASSUME Inv, Accept PROVE Inv'
<1> DEFINE sx == factor["x"][min_at[1]]
           sy == factor["y"][min_at[2]]
<1>1. /\ pc = "exam" /\ Near(min_sub) /\ pc' = "mapped"
      /\ server_amount' = Product(min_at) /\ servers' = [x |-> sx, y |-> sy]
      /\ UNCHANGED <<grid, best, axis, i, factor, at, min_sub, min_at>>
  BY DEF Accept
<1>2. /\ min_sub = 0 /\ Product(min_at) = best
      /\ min_at[1] \in 1..Len(factor["x"]) /\ min_at[2] \in 1..Len(factor["y"])
      /\ min_at \in (1..Len(factor["x"])) \X (1..Len(factor["y"]))
  BY <1>1, ExamFacts
<1>3. /\ sx \in Values(factor["x"]) /\ sy \in Values(factor["y"]) /\ sx * sy = best
  BY <1>2 DEF Values, Product
<1>4. sx \in Nat /\ sy \in Nat
  BY <1>2 DEF Inv, TypeOK, Axes
<1> HIDE DEF sx, sy
<1>5. servers' \in [Axes -> Nat] /\ servers'["x"] = sx /\ servers'["y"] = sy
  BY <1>1, <1>4 DEF Axes
<1>6. TypeOK'
  BY <1>1, <1>2, <1>5 DEF Inv, TypeOK
<1>7. Product(min_at)' = best
  BY <1>1, <1>2 DEF Product
<1>8. SearchInv'
  BY <1>1, <1>2, <1>3, <1>5, <1>7 DEF Inv, SearchInv, client_amount
<1>9. QED
  BY <1>1, <1>6, <1>8, DivisorsKept DEF Inv

\* Giving up keeps it.
LEMMA RefuseInv == ASSUME Inv, Refuse PROVE Inv'
<1>1. /\ pc = "exam" /\ (Near(min_sub) => server_amount < Product(min_at)) /\ pc' = "failed"
      /\ UNCHANGED <<grid, best, server_amount, axis, i, factor, at, min_sub, min_at, servers>>
  BY DEF Refuse
<1>2. min_sub # 0
  <2>1. best \in Nat
    BY DEF Inv, TypeOK
  <2>2. QED
    BY <1>1, <2>1, ExamFacts
<1>3. TypeOK'
  BY <1>1 DEF Inv, TypeOK
<1>4. NotPassed' /\ ~InRange'
  BY <1>1, <1>2, ExamFacts DEF NotPassed, InRange
<1>5. SearchInv'
  BY <1>1, <1>2, <1>4 DEF Inv, SearchInv, client_amount
<1>6. QED
  BY <1>1, <1>3, <1>5, DivisorsKept DEF Inv

(* Theorems *)

\* Doing nothing keeps it.
LEMMA StutterInv == ASSUME Inv, UNCHANGED vars PROVE Inv'
BY DEF Inv, TypeOK, FactorsDivide, LowInv, HighInv, SideDone, Complete, SearchInv, NotPassed,
       InRange, Product, client_amount, found, side, vars

\* So it always holds.
LEMMA Invariance == Spec => []Inv
<1>1. Init => Inv
  BY InitInv
<1>2. Inv /\ [Next]_vars => Inv'
  <2> SUFFICES ASSUME Inv, [Next]_vars PROVE Inv'
    OBVIOUS
  <2>1. CASE TryFactor
    BY <2>1, TryFactorInv
  <2>2. CASE LowDone
    BY <2>2, LowDoneInv
  <2>3. CASE Partner
    BY <2>3, PartnerInv
  <2>4. CASE HighDone
    BY <2>4, HighDoneInv
  <2>5. CASE Found
    BY <2>5, FoundInv
  <2>6. CASE AdvanceX
    BY <2>6, AdvanceXInv
  <2>7. CASE AdvanceY
    BY <2>7, AdvanceYInv
  <2>8. CASE Exhausted
    BY <2>8, ExhaustedInv
  <2>9. CASE Accept
    BY <2>9, AcceptInv
  <2>10. CASE Refuse
    BY <2>10, RefuseInv
  <2>11. CASE UNCHANGED vars
    BY <2>11, StutterInv
  <2>12. QED
    BY <2>1, <2>2, <2>3, <2>4, <2>5, <2>6, <2>7, <2>8, <2>9, <2>10, <2>11
    DEF Next, Terminating
<1>3. QED
  BY <1>1, <1>2, PTL DEF Spec

\* A refused program has no grid of servers.
LEMMA NonePassed ==
  ASSUME Inv, NotPassed, ~InRange, pc = "failed", NEW p \in Pairs
  PROVE  p[1] * p[2] # best
<1>1. /\ p[1] \in 1..grid["x"] /\ Divides(p[1], grid["x"])
      /\ p[2] \in 1..grid["y"] /\ Divides(p[2], grid["y"])
  BY DEF Pairs
<1>2. Complete("x") /\ Complete("y")
  BY DEF Inv, SideDone
<1>3. p[1] \in Values(factor["x"]) /\ p[2] \in Values(factor["y"])
  BY <1>1, <1>2 DEF Complete
<1>4. PICK j \in 1..Len(factor["x"]), k \in 1..Len(factor["y"]) :
        factor["x"][j] = p[1] /\ factor["y"][k] = p[2]
  BY <1>3 DEF Values
<1>5. ASSUME p[1] * p[2] = best PROVE FALSE
  <2>1. j >= at[1] /\ k <= at[2]
    BY <1>4, <1>5 DEF NotPassed
  <2>2. at[1] \in Nat /\ at[2] \in Nat /\ Len(factor["x"]) \in Nat
    BY DEF Inv, TypeOK, Axes
  <2>3. InRange
    BY <1>4, <2>1, <2>2 DEF InRange
  <2>4. QED
    BY <2>3
<1>6. QED
  BY <1>5

\* cfio_map_init divides the grid of clients into the number of servers asked for
\* whenever some grid of servers does, and refuses to start otherwise.
THEOREM SearchCorrect == Spec => []SearchExact
<1>1. Inv => SearchExact
  <2> SUFFICES ASSUME Inv PROVE SearchExact
    OBVIOUS
  <2>1. ASSUME pc = "mapped"
        PROVE  /\ <<servers["x"], servers["y"]>> \in Pairs
               /\ servers["x"] * servers["y"] = best /\ server_amount = best
    <3>1. /\ servers["x"] \in Values(factor["x"]) /\ servers["y"] \in Values(factor["y"])
          /\ servers["x"] * servers["y"] = best /\ server_amount = best
      BY <2>1 DEF Inv, SearchInv
    <3>2. /\ grid["x"] \in Nat \ {0} /\ grid["y"] \in Nat \ {0}
          /\ servers["x"] \in Nat \ {0} /\ servers["y"] \in Nat \ {0}
      BY <3>1 DEF Inv, TypeOK, Axes, Values
    <3>3. Divides(servers["x"], grid["x"]) /\ Divides(servers["y"], grid["y"])
      BY <3>1 DEF Inv, FactorsDivide, Axes
    <3>4. servers["x"] <= grid["x"] /\ servers["y"] <= grid["y"]
      BY <3>2, <3>3, Partners
    <3>5. QED
      BY <3>1, <3>2, <3>3, <3>4 DEF Pairs
  <2>2. ASSUME pc = "failed" PROVE \A p \in Pairs : p[1] * p[2] # best
    BY <2>2, NonePassed DEF Inv, SearchInv
  <2>3. QED
    BY <2>1, <2>2 DEF SearchExact
<1>2. QED
  BY <1>1, Invariance, PTL

\* Whenever a program starts, the lookups of map.c agree with each other: a client's
\* server has it in its arrays, under the index the receiving side computes.
THEOREM LookupsCorrect == Spec => []Lookups
<1>1. Inv => Lookups
  <2> SUFFICES ASSUME Inv, pc = "mapped" PROVE LookupsMatch(grid, servers)
    BY DEF Lookups
  <2>1. /\ servers["x"] \in Values(factor["x"]) /\ servers["y"] \in Values(factor["y"])
    BY DEF Inv, SearchInv
  <2>2. servers \in Grids /\ grid \in Grids
    BY <2>1 DEF Inv, TypeOK, Grids, Axes, Values
  <2>3. \A a \in Axes : Divides(servers[a], grid[a])
    BY <2>1 DEF Inv, FactorsDivide, Axes
  <2>4. QED
    BY <2>2, <2>3, LookupsInverse
<1>2. QED
  BY <1>1, Invariance, PTL

\* Every variable keeps its type, and the number of servers is never 0.
THEOREM MapTypeCorrect == Spec => []TypeOK
<1>1. Inv => TypeOK
  BY DEF Inv
<1>2. QED
  BY <1>1, Invariance, PTL
================================================================================
