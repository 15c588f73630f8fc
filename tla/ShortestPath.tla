---------------------------- MODULE ShortestPath ----------------------------
(***************************************************************************)
(* The route computation of the network layer, recalculate_routes() in     *)
(* network_stack/net/routing.c: Dijkstra's algorithm with unit weights on  *)
(* the directed graph of the link state packets, then back-tracking from a *)
(* destination to the neighbour that is the first hop towards it.          *)
(*                                                                         *)
(* A graph is a function from an address to the set of addresses it links  *)
(* to.  The loop body is the operator Explore; the machine of Dijkstra.tla *)
(* takes it one iteration at a time, and Routing.tla runs it to the end.   *)
(***************************************************************************)
EXTENDS Naturals

CONSTANTS
  MaxAddress,   \* NET_MAX_ADDRESS (15): the largest network address
  OwnAddress    \* net_get_own_address(): the address of this node

ASSUME AddressAssumption ==
  /\ MaxAddress \in Nat
  /\ OwnAddress \in 0 .. MaxAddress

Address == 0 .. MaxAddress

\* hop_count_infinity (255): more hops than any path without a cycle has.
Infinity == MaxAddress + 1

Graph == [Address -> SUBSET Address]

\* The net_route table: hop_count, previous_node and is_explored by address.
RouteTable == [hops     : [Address -> 0 .. Infinity],
               previous : [Address -> Address],
               explored : SUBSET Address]

\* previous is uninitialised in the code and is read only where it was set.
InitialTable == [hops     |-> [a \in Address |-> IF a = OwnAddress THEN 0 ELSE Infinity],
                 previous |-> [a \in Address |-> OwnAddress],
                 explored |-> {}]

\* The nodes that were reached and whose links were not followed yet.
Frontier(r) == {a \in Address \ r.explored : r.hops[a] < Infinity}

\* The scan keeps the first node with the smallest hop count.
IsNearest(r, c) ==
  /\ c \in Frontier(r)
  /\ \A a \in Frontier(r) : r.hops[c] < r.hops[a] \/ (r.hops[c] = r.hops[a] /\ c <= a)

\* Mutants of Relax: the loop over the links stops before NET_MAX_ADDRESS; the previous node
\* is not recorded; the node is not marked explored.
RelaxNotLast(g, r, c) ==
  LET shorter == {a \in g[c] \ {MaxAddress} : r.hops[c] + 1 < r.hops[a]}
  IN  [hops     |-> [a \in Address |-> IF a \in shorter THEN r.hops[c] + 1 ELSE r.hops[a]],
       previous |-> [a \in Address |-> IF a \in shorter THEN c ELSE r.previous[a]],
       explored |-> r.explored \cup {c}]
RelaxNoPrevious(g, r, c) ==
  LET shorter == {a \in g[c] : r.hops[c] + 1 < r.hops[a]}
  IN  [hops     |-> [a \in Address |-> IF a \in shorter THEN r.hops[c] + 1 ELSE r.hops[a]],
       previous |-> r.previous,
       explored |-> r.explored \cup {c}]
RelaxUnmarked(g, r, c) ==
  LET shorter == {a \in g[c] : r.hops[c] + 1 < r.hops[a]}
  IN  [hops     |-> [a \in Address |-> IF a \in shorter THEN r.hops[c] + 1 ELSE r.hops[a]],
       previous |-> [a \in Address |-> IF a \in shorter THEN c ELSE r.previous[a]],
       explored |-> r.explored]

\* The links of node c improve the entries of the nodes they lead to.
Relax(g, r, c) ==
  LET shorter == {a \in g[c] : r.hops[c] + 1 < r.hops[a]}
  IN  [hops     |-> [a \in Address |-> IF a \in shorter THEN r.hops[c] + 1 ELSE r.hops[a]],
       previous |-> [a \in Address |-> IF a \in shorter THEN c ELSE r.previous[a]],
       explored |-> r.explored \cup {c}]

\* One iteration; the loop is over when no reached node is left to explore.
Explore(g, r) ==
  IF Frontier(r) = {} THEN r ELSE Relax(g, r, CHOOSE c \in Frontier(r) : IsNearest(r, c))

\* n applications of the function f to x.
Iterate(f, x, n) ==
  LET it[k \in 0 .. n] == IF k = 0 THEN x ELSE f[it[k - 1]] IN it[n]

\* The table when the loop ends: it explores one node an iteration.
Routes(g) == Iterate([r \in RouteTable |-> Explore(g, r)], InitialTable, MaxAddress + 1)

\* Mutant of FirstHop: an if where the code has a while.
OneStepBack(r, d) == IF r.previous[d] = OwnAddress THEN d ELSE r.previous[d]

\* Back-tracks from node d until one hop away from this node.
FirstHop(r, d) ==
  Iterate([a \in Address |-> IF r.previous[a] = OwnAddress THEN a ELSE r.previous[a]],
          d, MaxAddress)

-----------------------------------------------------------------------------
\* What the routes are compared with: the nodes within k links of a in g.
Within(g, a, k) ==
  Iterate([s \in SUBSET Address |-> s \cup UNION {g[b] : b \in s}], {a}, k)

\* The least number of links from a to b in g, or Infinity.
Distance(g, a, b) ==
  IF b \in Within(g, a, MaxAddress)
    THEN CHOOSE k \in 0 .. MaxAddress :
           b \in Within(g, a, k) /\ \A j \in 0 .. k - 1 : b \notin Within(g, a, j)
    ELSE Infinity

\* The neighbours that start a path of least length from this node to d.
BestHops(g, d) ==
  {h \in g[OwnAddress] : Distance(g, OwnAddress, d) = Distance(g, h, d) + 1}
=============================================================================
