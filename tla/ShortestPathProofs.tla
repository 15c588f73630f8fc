------------------------- MODULE ShortestPathProofs -------------------------
(***************************************************************************)
(* Lemmas on the operators of ShortestPath.tla.                            *)
(***************************************************************************)
EXTENDS ShortestPath, FiniteSetTheorems, TLAPS

\* A nonempty set of naturals has a least element.
LEMMA LeastNatural ==
  ASSUME NEW T, T \subseteq Nat, T # {}
  PROVE  \E x \in T : \A y \in T : x <= y
<1>. DEFINE R == {ss \in Nat \X Nat : ss[1] < ss[2]}
<1>1. IsWellFoundedOn(R, Nat)
  BY NatLessThanWellFounded, Zenon DEF OpToRel
<1>2. PICK x \in T : \A y \in T : ~ (<<y, x>> \in R)
  <2>. HIDE DEF R
  <2>. QED  BY <1>1, WFMin
<1>3. \A y \in T : ~ (y < x)
  BY <1>2
<1>. QED
  BY <1>3

\* g holds the values of the first n applications of f to x.
IsTrace(g, f, x, n) == g[0] = x /\ \A k \in 1 .. n : g[k] = f[g[k - 1]]

\* Every number of applications of f has such a trace.
LEMMA IterationExists ==
  ASSUME NEW S, NEW f \in [S -> S], NEW x \in S, NEW n \in Nat
  PROVE  \E g \in [0 .. n -> S] : IsTrace(g, f, x, n)
<1>. DEFINE Trace(m) == {g \in [0 .. m -> S] : g[0] = x /\ \A k \in 1 .. m : g[k] = f[g[k - 1]]}
            T == {m \in Nat : Trace(m) = {}}
<1>1. Trace(0) # {}
  <2>1. [k \in 0 .. 0 |-> x] \in Trace(0)
    OBVIOUS
  <2>. QED  BY <2>1
<1>2. ASSUME NEW m \in Nat, Trace(m) # {}
      PROVE  Trace(m + 1) # {}
  <2>1. PICK g \in Trace(m) : TRUE
    BY <1>2
  <2>. DEFINE h == [k \in 0 .. m + 1 |-> IF k = m + 1 THEN f[g[m]] ELSE g[k]]
  <2>2. h \in [0 .. m + 1 -> S]
    BY <2>1
  <2>3. h[0] = x /\ \A k \in 1 .. m + 1 : h[k] = f[h[k - 1]]
    BY <2>1
  <2>4. h \in Trace(m + 1)
    BY <2>2, <2>3
  <2>. QED  BY <2>4
<1>3. T = {}
  <2>1. SUFFICES ASSUME T # {} PROVE FALSE
    OBVIOUS
  <2>2. PICK m \in T : \A y \in T : m <= y
    <3>. HIDE DEF Trace
    <3>. QED  BY <2>1, LeastNatural
  <2>3. m \in Nat /\ m # 0
    BY <1>1, <2>2
  <2>4. m - 1 \in Nat /\ m - 1 \notin T
    <3>. HIDE DEF T
    <3>. QED  BY <2>2, <2>3
  <2>5. Trace(m - 1) # {}
    BY <2>4
  <2>6. Trace((m - 1) + 1) # {}
    <3>. HIDE DEF Trace
    <3>. QED  BY <2>4, <2>5, <1>2
  <2>7. (m - 1) + 1 = m
    BY <2>3
  <2>. QED  BY <2>2, <2>6, <2>7
<1>. QED  BY <1>3 DEF IsTrace

\* Two traces agree as far as both go.
LEMMA TraceUnique ==
  ASSUME NEW f, NEW x, NEW n \in Nat, NEW m \in Nat, n <= m,
         NEW g, IsTrace(g, f, x, n), NEW h, IsTrace(h, f, x, m)
  PROVE  g[n] = h[n]
<1>. DEFINE T == {k \in 0 .. n : g[k] # h[k]}
<1>1. T = {}
  <2>1. SUFFICES ASSUME T # {} PROVE FALSE
    OBVIOUS
  <2>2. PICK k \in T : \A j \in T : k <= j
    <3>1. T \subseteq Nat
      OBVIOUS
    <3>. HIDE DEF T
    <3>. QED  BY <2>1, <3>1, LeastNatural
  <2>3. k # 0
    BY <2>2 DEF IsTrace
  <2>4. k \in 1 .. n /\ k \in 1 .. m /\ k - 1 \in 0 .. n /\ k - 1 \notin T
    BY <2>2, <2>3
  <2>5. g[k] = f[g[k - 1]] /\ h[k] = f[h[k - 1]]
    BY <2>4 DEF IsTrace
  <2>. QED  BY <2>2, <2>4, <2>5
<1>. QED  BY <1>1

\* Iterate is the end of a trace in S.
EndsTrace(S, f, x, n) ==
  \E g \in [0 .. n -> S] : IsTrace(g, f, x, n) /\ Iterate(f, x, n) = g[n]

LEMMA IterateIsTrace ==
  ASSUME NEW S, NEW f \in [S -> S], NEW x \in S, NEW n \in Nat
  PROVE  EndsTrace(S, f, x, n)
<1>1. PICK g \in [0 .. n -> S] : IsTrace(g, f, x, n)
  BY IterationExists
<1>. DEFINE F(h) == [k \in 0 .. n |-> IF k = 0 THEN x ELSE f[h[k - 1]]]
            it == CHOOSE h : h = F(h)
<1>2. g = F(g)
  BY <1>1 DEF IsTrace
<1>3. it = F(it)
  <2>. HIDE DEF F
  <2>. QED  BY <1>2
<1>4. IsTrace(it, f, x, n)
  <2>. HIDE DEF it
  <2>. QED  BY <1>3 DEF IsTrace
<1>5. Iterate(f, x, n) = it[n]
  BY DEF Iterate
<1>6. g[n] = it[n]
  <2>. HIDE DEF it
  <2>. QED  BY <1>1, <1>4, TraceUnique
<1>. QED  BY <1>1, <1>5, <1>6 DEF EndsTrace

\* Iterating a function on S stays in S.
LEMMA IterateType ==
  ASSUME NEW S, NEW f \in [S -> S], NEW x \in S, NEW n \in Nat
  PROVE  Iterate(f, x, n) \in S
<1>1. PICK g \in [0 .. n -> S] : Iterate(f, x, n) = g[n]
  BY IterateIsTrace DEF EndsTrace
<1>. QED  BY <1>1

\* One application more.
LEMMA IterateStep ==
  ASSUME NEW S, NEW f \in [S -> S], NEW x \in S, NEW n \in Nat
  PROVE  Iterate(f, x, 0) = x /\ Iterate(f, x, n + 1) = f[Iterate(f, x, n)]
<1>1. Iterate(f, x, 0) = x
  <2>1. EndsTrace(S, f, x, 0)
    BY IterateIsTrace
  <2>. QED  BY <2>1 DEF EndsTrace, IsTrace
<1>2. PICK g \in [0 .. n -> S] : IsTrace(g, f, x, n) /\ Iterate(f, x, n) = g[n]
  <2>1. EndsTrace(S, f, x, n)
    BY IterateIsTrace
  <2>. QED  BY <2>1 DEF EndsTrace
<1>3. n + 1 \in Nat /\ n <= n + 1
  OBVIOUS
<1>4. PICK h \in [0 .. n + 1 -> S] : IsTrace(h, f, x, n + 1) /\ Iterate(f, x, n + 1) = h[n + 1]
  <2>1. EndsTrace(S, f, x, n + 1)
    BY <1>3, IterateIsTrace
  <2>. QED  BY <2>1 DEF EndsTrace
<1>5. g[n] = h[n]
  BY <1>2, <1>3, <1>4, TraceUnique
<1>6. h[n + 1] = f[h[n]]
  BY <1>4 DEF IsTrace
<1>. QED  BY <1>1, <1>2, <1>4, <1>5, <1>6

-----------------------------------------------------------------------------
\* The constants and the columns of a route table, typed.
LEMMA TableType ==
  ASSUME NEW r \in RouteTable
  PROVE  /\ Infinity \in Nat /\ OwnAddress \in Address /\ Address \subseteq Nat
         /\ \A a \in Address : r.hops[a] \in 0 .. Infinity /\ r.previous[a] \in Address
         /\ r.explored \subseteq Address /\ Frontier(r) \subseteq Address
<1>1. Infinity \in Nat /\ OwnAddress \in Address /\ Address \subseteq Nat
  BY AddressAssumption DEF Infinity, Address
<1>2. /\ r.hops \in [Address -> 0 .. Infinity] /\ r.previous \in [Address -> Address]
      /\ r.explored \subseteq Address
  BY DEF RouteTable
<1>. QED  BY <1>1, <1>2 DEF Frontier

\* While a reached node is left to explore, the scan finds one.
LEMMA NearestExists ==
  ASSUME NEW r \in RouteTable, Frontier(r) # {}
  PROVE  \E c \in Frontier(r) : IsNearest(r, c)
<1>. DEFINE Counts == {r.hops[a] : a \in Frontier(r)}
<1>1. Counts \subseteq Nat /\ Counts # {} /\ Frontier(r) \subseteq Nat
  BY TableType
<1>2. PICK h \in Counts : \A i \in Counts : h <= i
  <2>. HIDE DEF Counts
  <2>. QED  BY <1>1, LeastNatural
<1>. DEFINE Ties == {a \in Frontier(r) : r.hops[a] = h}
<1>3. Ties \subseteq Nat /\ Ties # {}
  BY <1>1, <1>2
<1>4. PICK c \in Ties : \A a \in Ties : c <= a
  <2>. HIDE DEF Ties
  <2>. QED  BY <1>3, LeastNatural
<1>5. IsNearest(r, c)
  <2>1. SUFFICES ASSUME NEW a \in Frontier(r)
                 PROVE  r.hops[c] < r.hops[a] \/ (r.hops[c] = r.hops[a] /\ c <= a)
    BY <1>4 DEF IsNearest
  <2>2. r.hops[c] = h /\ h <= r.hops[a] /\ h \in Nat /\ r.hops[a] \in Nat
    BY <1>1, <1>2, <1>4
  <2>. QED  BY <1>4, <2>2
<1>. QED  BY <1>4, <1>5

\* What the loop body does: nothing at the end, else it relaxes the links of the
\* nearest node it has not explored.
LEMMA ExploreStep ==
  ASSUME NEW g, NEW r \in RouteTable
  PROVE  \/ Frontier(r) = {} /\ Explore(g, r) = r
         \/ \E c \in Frontier(r) : IsNearest(r, c) /\ Explore(g, r) = Relax(g, r, c)
<1>1. CASE Frontier(r) = {}
  BY <1>1 DEF Explore
<1>2. CASE Frontier(r) # {}
  <2>. DEFINE c == CHOOSE a \in Frontier(r) : IsNearest(r, a)
  <2>1. c \in Frontier(r) /\ IsNearest(r, c)
    BY <1>2, NearestExists
  <2>2. Explore(g, r) = Relax(g, r, c)
    BY <1>2 DEF Explore
  <2>. QED  BY <2>1, <2>2
<1>. QED  BY <1>1, <1>2

\* The loop body keeps the table typed.
LEMMA ExploreType ==
  ASSUME NEW g, NEW r \in RouteTable
  PROVE  Explore(g, r) \in RouteTable
<1>1. ASSUME NEW c \in Frontier(r)
      PROVE  Relax(g, r, c) \in RouteTable
  <2>1. c \in Address /\ r.hops[c] + 1 \in 0 .. Infinity
    BY TableType DEF Frontier
  <2>. QED  BY <2>1, TableType DEF Relax, RouteTable
<1>. QED  BY <1>1, ExploreStep

LEMMA InitialTableType == InitialTable \in RouteTable
  BY AddressAssumption DEF InitialTable, RouteTable, Address, Infinity

\* The table the loop computes is typed, whatever the graph.
LEMMA RoutesType ==
  ASSUME NEW g
  PROVE  Routes(g) \in RouteTable
<1>. DEFINE f == [r \in RouteTable |-> Explore(g, r)]
<1>1. f \in [RouteTable -> RouteTable]
  BY ExploreType
<1>2. MaxAddress + 1 \in Nat
  BY AddressAssumption
<1>3. Iterate(f, InitialTable, MaxAddress + 1) \in RouteTable
  <2>. HIDE DEF f
  <2>. QED  BY <1>1, <1>2, InitialTableType, IterateType
<1>. QED  BY <1>3 DEF Routes

\* Back-tracking ends at an address.
LEMMA FirstHopType ==
  ASSUME NEW r \in RouteTable, NEW d \in Address
  PROVE  FirstHop(r, d) \in Address
<1>. DEFINE f == [a \in Address |-> IF r.previous[a] = OwnAddress THEN a ELSE r.previous[a]]
<1>1. f \in [Address -> Address]
  BY DEF RouteTable
<1>2. Iterate(f, d, MaxAddress) \in Address
  <2>. HIDE DEF f
  <2>. QED  BY <1>1, AddressAssumption, IterateType
<1>. QED  BY <1>2 DEF FirstHop

-----------------------------------------------------------------------------
\* The nodes within k + 1 links are those within k links and the ones these link to.
LEMMA WithinStep ==
  ASSUME NEW g \in Graph, NEW a \in Address, NEW k \in Nat
  PROVE  /\ Within(g, a, 0) = {a}
         /\ Within(g, a, k) \subseteq Address
         /\ Within(g, a, k + 1) = Within(g, a, k) \cup UNION {g[b] : b \in Within(g, a, k)}
<1>. DEFINE S == SUBSET Address
            f == [s \in S |-> s \cup UNION {g[b] : b \in s}]
<1>1. f \in [S -> S]
  BY DEF Graph
<1>2. {a} \in S
  OBVIOUS
<1>3. \A j : Within(g, a, j) = Iterate(f, {a}, j)
  BY DEF Within
<1>4. /\ Iterate(f, {a}, 0) = {a} /\ Iterate(f, {a}, k) \in S
      /\ Iterate(f, {a}, k + 1) = f[Iterate(f, {a}, k)]
  <2>. HIDE DEF f, S
  <2>. QED  BY <1>1, <1>2, IterateType, IterateStep
<1>. QED  BY <1>3, <1>4

\* The same, node by node.
LEMMA WithinLink ==
  ASSUME NEW g \in Graph, NEW a \in Address, NEW k \in Nat, NEW b
  PROVE  b \in Within(g, a, k + 1) <=>
           b \in Within(g, a, k) \/ \E c \in Within(g, a, k) : b \in g[c]
<1>. DEFINE W == Within(g, a, k)
<1>1. Within(g, a, k + 1) = W \cup UNION {g[c] : c \in W}
  BY WithinStep
<1>. HIDE DEF W
<1>2. b \in W \cup UNION {g[c] : c \in W} <=> b \in W \/ \E c \in W : b \in g[c]
  OBVIOUS
<1>. QED  BY <1>1, <1>2 DEF W

\* Allowing more links loses no node.
LEMMA WithinGrows ==
  ASSUME NEW g \in Graph, NEW a \in Address, NEW k \in Nat, NEW m \in Nat, k <= m
  PROVE  Within(g, a, k) \subseteq Within(g, a, m)
<1>. DEFINE T == {j \in Nat : k <= j /\ ~ (Within(g, a, k) \subseteq Within(g, a, j))}
<1>1. T = {}
  <2>1. SUFFICES ASSUME T # {} PROVE FALSE
    OBVIOUS
  <2>2. PICK j \in T : \A i \in T : j <= i
    <3>1. T \subseteq Nat
      OBVIOUS
    <3>. HIDE DEF T
    <3>. QED  BY <2>1, <3>1, LeastNatural
  <2>3. j # k /\ j \in Nat /\ k <= j
    BY <2>2
  <2>4. j - 1 \in Nat /\ k <= j - 1 /\ j - 1 \notin T /\ (j - 1) + 1 = j
    BY <2>2, <2>3
  <2>5. Within(g, a, k) \subseteq Within(g, a, j - 1)
    BY <2>4
  <2>6. Within(g, a, j - 1) \subseteq Within(g, a, (j - 1) + 1)
    <3>. HIDE DEF T
    <3>. QED  BY <2>4, WithinLink
  <2>. QED  BY <2>2, <2>4, <2>5, <2>6
<1>. QED  BY <1>1

\* A link in front of a path makes it one longer.
LEMMA WithinPrepend ==
  ASSUME NEW g \in Graph, NEW p \in Address, NEW b \in g[p], NEW k \in Nat
  PROVE  Within(g, b, k) \subseteq Within(g, p, k + 1)
<1>. DEFINE T == {j \in Nat : ~ (Within(g, b, j) \subseteq Within(g, p, j + 1))}
<1>1. b \in Address
  BY DEF Graph
<1>2. T = {}
  <2>1. SUFFICES ASSUME T # {} PROVE FALSE
    OBVIOUS
  <2>2. PICK j \in T : \A i \in T : j <= i
    <3>1. T \subseteq Nat
      OBVIOUS
    <3>. HIDE DEF T
    <3>. QED  BY <2>1, <3>1, LeastNatural
  <2>3. PICK x \in Within(g, b, j) : x \notin Within(g, p, j + 1)
    BY <2>2
  <2>4. j \in Nat /\ j + 1 \in Nat
    BY <2>2
  <2>5. j # 0
    <3>1. Within(g, b, 0) = {b} /\ p \in Within(g, p, 0)
      BY <1>1, WithinStep
    <3>2. b \in Within(g, p, 0 + 1)
      BY <3>1, WithinLink
    <3>3. 0 + 1 = 1
      OBVIOUS
    <3>. HIDE DEF T
    <3>. QED  BY <2>3, <3>1, <3>2, <3>3
  <2>. DEFINE i == j - 1
  <2>6. i \in Nat /\ i \notin T /\ j = i + 1
    BY <2>2, <2>4, <2>5
  <2>7. Within(g, b, i) \subseteq Within(g, p, j)
    BY <2>6
  <2>. HIDE DEF T, i
  <2>8. x \in Within(g, b, i) \/ \E c \in Within(g, b, i) : x \in g[c]
    BY <1>1, <2>3, <2>6, WithinLink
  <2>. QED  BY <2>3, <2>4, <2>7, <2>8, WithinLink
<1>. QED  BY <1>2

\* The distance is the only number of links that is enough and the least.
LEMMA DistanceIs ==
  ASSUME NEW g \in Graph, NEW a \in Address, NEW b, NEW k \in 0 .. MaxAddress,
         b \in Within(g, a, k), \A i \in 0 .. MaxAddress : b \in Within(g, a, i) => k <= i
  PROVE  Distance(g, a, b) = k
<1>1. MaxAddress \in Nat /\ k \in Nat /\ k <= MaxAddress
  BY AddressAssumption
<1>2. b \in Within(g, a, MaxAddress)
  BY <1>1, WithinGrows
<1>3. \A i \in 0 .. k - 1 : b \notin Within(g, a, i)
  BY <1>1
<1>4. \A j \in 0 .. MaxAddress :
        (b \in Within(g, a, j) /\ \A i \in 0 .. j - 1 : b \notin Within(g, a, i)) => j = k
  BY <1>1
<1>. QED  BY <1>2, <1>3, <1>4 DEF Distance

-----------------------------------------------------------------------------
(* The loop.                                                               *)

IsReached(r, a) == r.hops[a] < Infinity

\* Nodes are explored in the order of their distance: an explored node was reached,
\* and is no further than any node that is still to come (Dijkstra's argument).
InOrder(r) ==
  /\ r.hops[OwnAddress] = 0
  /\ \A a \in r.explored :
       IsReached(r, a) /\ \A b \in Address \ r.explored : r.hops[a] <= r.hops[b]

\* Every reached node hangs from an explored one, one hop closer, that links to it.
Hangs(g, r) ==
  \A a \in Address \ {OwnAddress} :
    IsReached(r, a) => LET p == r.previous[a]
                       IN  /\ p \in r.explored
                           /\ a \in g[p]
                           /\ r.hops[a] = r.hops[p] + 1

\* A link of an explored node shortens nothing any more.
Relaxed(g, r) == \A a \in r.explored : \A b \in g[a] : r.hops[b] <= r.hops[a] + 1

\* What holds of the table r at every iteration on graph g.
LoopInv(g, r) ==
  g \in Graph /\ r \in RouteTable /\ InOrder(r) /\ Hangs(g, r) /\ Relaxed(g, r)

\* It holds at first.
LEMMA LoopInvInitial ==
  ASSUME NEW g \in Graph
  PROVE  LoopInv(g, InitialTable)
<1>1. /\ \A a \in Address : InitialTable.hops[a] = IF a = OwnAddress THEN 0 ELSE Infinity
      /\ InitialTable.explored = {}
  BY DEF InitialTable
<1>2. OwnAddress \in Address /\ ~ (Infinity < Infinity)
  BY AddressAssumption DEF Address, Infinity
<1>. QED  BY <1>1, <1>2, InitialTableType DEF LoopInv, InOrder, Hangs, Relaxed, IsReached

\* What an iteration does to the entry of each node, given what holds before it.
LEMMA ExploreEffect ==
  ASSUME NEW g, NEW r, LoopInv(g, r), Frontier(r) # {}, NEW t, t = Explore(g, r)
  PROVE  \E c \in Address \ r.explored :
           /\ IsReached(r, c)
           /\ \A b \in Address \ r.explored : r.hops[c] <= r.hops[b]
           /\ t.explored = r.explored \cup {c}
           /\ \A a \in Address :
                IF a \in g[c] /\ r.hops[c] + 1 < r.hops[a]
                  THEN a \notin r.explored /\ a # c /\ t.hops[a] = r.hops[c] + 1
                         /\ t.previous[a] = c
                  ELSE t.hops[a] = r.hops[a] /\ t.previous[a] = r.previous[a]
<1>1. r \in RouteTable
  BY DEF LoopInv
<1>2. PICK c \in Frontier(r) : IsNearest(r, c) /\ t = Relax(g, r, c)
  BY <1>1, ExploreStep 
<1>3. c \in Address /\ c \notin r.explored /\ IsReached(r, c)
  BY <1>2 DEF Frontier, IsReached
<1>4. /\ Infinity \in Nat
      /\ \A a \in Address : r.hops[a] \in Nat /\ r.hops[a] <= Infinity
  BY <1>1, TableType
<1>5. ASSUME NEW b \in Address \ r.explored
      PROVE  r.hops[c] <= r.hops[b]
  <2>1. CASE b \in Frontier(r)
    BY <1>2, <1>3, <1>4, <1>5, <2>1 DEF IsNearest
  <2>2. CASE b \notin Frontier(r)
    BY <1>3, <1>4, <1>5, <2>2 DEF Frontier, IsReached
  <2>. QED  BY <2>1, <2>2
<1>6. /\ t.explored = r.explored \cup {c}
      /\ \A a \in Address :
           IF a \in g[c] /\ r.hops[c] + 1 < r.hops[a]
             THEN t.hops[a] = r.hops[c] + 1 /\ t.previous[a] = c
             ELSE t.hops[a] = r.hops[a] /\ t.previous[a] = r.previous[a]
  BY <1>2 DEF Relax
<1>7. ASSUME NEW a \in Address, r.hops[c] + 1 < r.hops[a]
      PROVE  a \notin r.explored /\ a # c
  BY <1>3, <1>4, <1>7 DEF LoopInv, InOrder
<1>. QED  BY <1>3, <1>5, <1>6, <1>7

\* An iteration keeps it.
LEMMA ExploreKeeps ==
  ASSUME NEW g, NEW r, LoopInv(g, r), Frontier(r) # {}, NEW t, t = Explore(g, r)
  PROVE  LoopInv(g, t)
<1>1. t \in RouteTable
  BY ExploreType DEF LoopInv
<1>2. PICK c \in Address \ r.explored :
        /\ IsReached(r, c)
        /\ \A b \in Address \ r.explored : r.hops[c] <= r.hops[b]
        /\ t.explored = r.explored \cup {c}
        /\ \A a \in Address :
             IF a \in g[c] /\ r.hops[c] + 1 < r.hops[a]
               THEN a \notin r.explored /\ a # c /\ t.hops[a] = r.hops[c] + 1
                      /\ t.previous[a] = c
               ELSE t.hops[a] = r.hops[a] /\ t.previous[a] = r.previous[a]
  BY ExploreEffect
<1>3. /\ Infinity \in Nat /\ OwnAddress \in Address /\ r.explored \subseteq Address
      /\ \A a \in Address : r.hops[a] \in Nat /\ t.hops[a] \in Nat
  BY <1>1, TableType DEF LoopInv
<1>4. g \in [Address -> SUBSET Address]
  BY DEF LoopInv, Graph
<1>5. ASSUME NEW a \in t.explored
      PROVE  t.hops[a] = r.hops[a] /\ IsReached(r, a)
  BY <1>2, <1>3 DEF LoopInv, InOrder
<1>6. InOrder(t)
  <2>1. t.hops[OwnAddress] = 0
    BY <1>2, <1>3 DEF LoopInv, InOrder
  <2>2. ASSUME NEW a \in t.explored
        PROVE  t.hops[a] < Infinity
    BY <1>5 DEF IsReached
  <2>3. ASSUME NEW a \in t.explored, NEW b \in Address \ t.explored
        PROVE  t.hops[a] <= t.hops[b]
    <3>1. r.hops[a] <= r.hops[c] /\ r.hops[c] <= r.hops[b]
      BY <1>2, <1>3, <2>3 DEF LoopInv, InOrder
    <3>2. a \in Address /\ t.hops[a] = r.hops[a]
      BY <1>2, <1>3, <1>5
    <3>3. t.hops[b] = r.hops[b] \/ t.hops[b] = r.hops[c] + 1
      BY <1>2
    <3>. QED  BY <1>2, <1>3, <3>1, <3>2, <3>3
  <2>. QED  BY <2>1, <2>2, <2>3 DEF InOrder, IsReached
<1>7. Hangs(g, t)
  <2>1. SUFFICES ASSUME NEW a \in Address \ {OwnAddress}, t.hops[a] < Infinity
                 PROVE  /\ t.previous[a] \in t.explored
                        /\ a \in g[t.previous[a]]
                        /\ t.hops[a] = t.hops[t.previous[a]] + 1
    BY <1>4 DEF Hangs, IsReached
  <2>2. CASE a \in g[c] /\ r.hops[c] + 1 < r.hops[a]
    <3>1. t.previous[a] = c /\ t.hops[a] = r.hops[c] + 1
      BY <1>2, <2>2
    <3>2. c \in t.explored /\ t.hops[c] = r.hops[c]
      BY <1>2, <1>5
    <3>. QED  BY <2>2, <3>1, <3>2
  <2>3. CASE ~ (a \in g[c] /\ r.hops[c] + 1 < r.hops[a])
    <3>1. t.previous[a] = r.previous[a] /\ t.hops[a] = r.hops[a]
      BY <1>2, <2>3
    <3>2. /\ r.previous[a] \in r.explored
          /\ a \in g[r.previous[a]]
          /\ r.hops[a] = r.hops[r.previous[a]] + 1
      BY <2>1, <3>1 DEF LoopInv, Hangs, IsReached
    <3>3. r.previous[a] \in t.explored
      BY <1>2, <3>2
    <3>. QED  BY <1>5, <3>1, <3>2, <3>3
  <2>. QED  BY <2>2, <2>3
<1>8. Relaxed(g, t)
  <2>1. SUFFICES ASSUME NEW a \in t.explored, NEW b \in g[a]
                 PROVE  t.hops[b] <= t.hops[a] + 1
    BY <1>4 DEF Relaxed
  <2>2. a \in Address /\ b \in Address /\ t.hops[a] = r.hops[a]
    BY <1>2, <1>3, <1>4, <1>5
  <2>3. t.hops[b] <= r.hops[b]
    BY <1>2, <1>3, <2>2
  <2>4. CASE a = c
    BY <1>2, <1>3, <2>1, <2>2, <2>4
  <2>5. CASE a # c
    <3>1. r.hops[b] <= r.hops[a] + 1
      BY <1>2, <2>1, <2>5 DEF LoopInv, Relaxed
    <3>. QED  BY <1>3, <2>2, <2>3, <3>1
  <2>. QED  BY <2>4, <2>5
<1>. QED  BY <1>1, <1>6, <1>7, <1>8 DEF LoopInv

-----------------------------------------------------------------------------
(* The end of the loop.                                                    *)

\* The table never promises too little: a reached node is within its hop count.
LEMMA HopsReach ==
  ASSUME NEW g, NEW r, LoopInv(g, r), NEW a \in Address, IsReached(r, a)
  PROVE  a \in Within(g, OwnAddress, r.hops[a])
<1>1. /\ g \in Graph /\ OwnAddress \in Address /\ r.explored \subseteq Address
      /\ \A b \in Address : r.hops[b] \in Nat
  BY TableType DEF LoopInv
<1>. DEFINE T == {k \in Nat : \E b \in Address : /\ IsReached(r, b) /\ r.hops[b] = k
                                                 /\ b \notin Within(g, OwnAddress, k)}
<1>2. T = {}
  <2>1. SUFFICES ASSUME T # {} PROVE FALSE
    OBVIOUS
  <2>2. PICK k \in T : \A j \in T : k <= j
    <3>1. T \subseteq Nat
      OBVIOUS
    <3>. HIDE DEF T
    <3>. QED  BY <2>1, <3>1, LeastNatural
  <2>3. PICK b \in Address : /\ IsReached(r, b) /\ r.hops[b] = k
                             /\ b \notin Within(g, OwnAddress, k)
    BY <2>2
  <2>4. b # OwnAddress
    BY <1>1, <2>3, WithinStep DEF LoopInv, InOrder
  <2>. DEFINE p == r.previous[b]
  <2>5. p \in r.explored /\ b \in g[p] /\ k = r.hops[p] + 1
    BY <2>3, <2>4 DEF LoopInv, Hangs
  <2>6. p \in Address /\ IsReached(r, p) /\ r.hops[p] \in Nat
    BY <1>1, <2>5 DEF LoopInv, InOrder
  <2>7. p \in Within(g, OwnAddress, r.hops[p])
    BY <2>2, <2>5, <2>6
  <2>8. b \in Within(g, OwnAddress, r.hops[p] + 1)
    BY <1>1, <2>5, <2>6, <2>7, WithinLink
  <2>. QED  BY <2>3, <2>5, <2>8
<1>. QED  BY <1>1, <1>2

\* The table never promises too much: at the end no node is nearer than its hop count.
LEMMA HopsLeast ==
  ASSUME NEW g, NEW r, LoopInv(g, r), Frontier(r) = {}, NEW k \in 0 .. MaxAddress,
         NEW a \in Within(g, OwnAddress, k)
  PROVE  r.hops[a] <= k
<1>1. /\ g \in Graph /\ OwnAddress \in Address /\ MaxAddress \in Nat
      /\ Infinity = MaxAddress + 1
      /\ \A b \in Address : r.hops[b] \in Nat
  BY TableType, AddressAssumption DEF LoopInv, Infinity
<1>. DEFINE T == {j \in 0 .. MaxAddress :
                    \E b \in Within(g, OwnAddress, j) : ~ (r.hops[b] <= j)}
<1>2. T = {}
  <2>1. SUFFICES ASSUME T # {} PROVE FALSE
    OBVIOUS
  <2>2. PICK j \in T : \A i \in T : j <= i
    <3>1. T \subseteq Nat
      OBVIOUS
    <3>. HIDE DEF T
    <3>. QED  BY <2>1, <3>1, LeastNatural
  <2>3. PICK b \in Within(g, OwnAddress, j) : ~ (r.hops[b] <= j)
    BY <2>2
  <2>4. j # 0
    BY <1>1, <2>3, WithinStep DEF LoopInv, InOrder
  <2>. DEFINE i == j - 1
  <2>5. i \in Nat /\ i \in 0 .. MaxAddress /\ i \notin T /\ j = i + 1
    BY <1>1, <2>2, <2>4
  <2>6. \A c \in Within(g, OwnAddress, i) : c \in Address /\ r.hops[c] <= i
    BY <1>1, <2>5, WithinStep
  <2>7. b \notin Within(g, OwnAddress, i)
    <3>. HIDE DEF T, i
    <3>. QED  BY <1>1, <2>3, <2>5, <2>6
  <2>8. PICK c \in Within(g, OwnAddress, i) : b \in g[c]
    <3>. HIDE DEF T, i
    <3>. QED  BY <1>1, <2>3, <2>5, <2>7, WithinLink
  <2>9. c \in r.explored
    BY <1>1, <2>5, <2>6, <2>8 DEF Frontier
  <2>10. r.hops[b] <= r.hops[c] + 1
    <3>. HIDE DEF T, i
    <3>. QED  BY <2>8, <2>9 DEF LoopInv, Relaxed
  <2>11. b \in Address
    <3>. HIDE DEF T, i
    <3>. QED  BY <1>1, <2>6, <2>8 DEF Graph
  <2>. QED  BY <1>1, <2>3, <2>5, <2>6, <2>8, <2>10, <2>11
<1>. QED  BY <1>2

\* At the end the hop count of every node is its distance.
LEMMA HopsAreDistances ==
  ASSUME NEW g, NEW r, LoopInv(g, r), Frontier(r) = {}, NEW a \in Address
  PROVE  r.hops[a] = Distance(g, OwnAddress, a)
<1>1. /\ MaxAddress \in Nat /\ Infinity = MaxAddress + 1 /\ OwnAddress \in Address
      /\ r.hops[a] \in Nat /\ r.hops[a] <= Infinity /\ g \in Graph
  BY TableType, AddressAssumption DEF LoopInv, Infinity
<1>2. CASE IsReached(r, a)
  <2>. DEFINE k == r.hops[a]
  <2>1. k \in 0 .. MaxAddress /\ a \in Within(g, OwnAddress, k)
    BY <1>1, <1>2, HopsReach DEF IsReached
  <2>2. \A i \in 0 .. MaxAddress : a \in Within(g, OwnAddress, i) => k <= i
    BY HopsLeast
  <2>. HIDE DEF k
  <2>3. Distance(g, OwnAddress, a) = k
    BY <1>1, <2>1, <2>2, DistanceIs
  <2>. QED  BY <2>3 DEF k
<1>3. CASE ~ IsReached(r, a)
  <2>1. a \notin Within(g, OwnAddress, MaxAddress)
    BY <1>1, <1>3, HopsLeast DEF IsReached
  <2>. QED  BY <1>1, <1>3, <2>1 DEF Distance, IsReached
<1>. QED  BY <1>2, <1>3

-----------------------------------------------------------------------------
(* Back-tracking.                                                          *)

\* The node that k steps back from d lead to.
Back(r, d, k) ==
  Iterate([a \in Address |-> IF r.previous[a] = OwnAddress THEN a ELSE r.previous[a]], d, k)

LEMMA BackStep ==
  ASSUME NEW r \in RouteTable, NEW d \in Address, NEW k \in Nat
  PROVE  /\ Back(r, d, 0) = d /\ Back(r, d, k) \in Address
         /\ Back(r, d, k + 1) =
              LET b == Back(r, d, k) IN IF r.previous[b] = OwnAddress THEN b ELSE r.previous[b]
<1>. DEFINE f == [a \in Address |-> IF r.previous[a] = OwnAddress THEN a ELSE r.previous[a]]
<1>1. f \in [Address -> Address]
  BY DEF RouteTable
<1>2. \A j : Back(r, d, j) = Iterate(f, d, j)
  BY DEF Back
<1>3. /\ Iterate(f, d, 0) = d /\ Iterate(f, d, k) \in Address
      /\ Iterate(f, d, k + 1) = f[Iterate(f, d, k)]
  <2>. HIDE DEF f
  <2>. QED  BY <1>1, IterateType, IterateStep
<1>. QED  BY <1>2, <1>3

\* The previous node is one hop closer, and this node exactly for those one hop away.
LEMMA PreviousCloser ==
  ASSUME NEW g, NEW r, LoopInv(g, r), NEW a \in Address \ {OwnAddress}, IsReached(r, a)
  PROVE  /\ r.previous[a] \in Address /\ IsReached(r, r.previous[a]) /\ a \in g[r.previous[a]]
         /\ r.hops[r.previous[a]] \in Nat /\ r.hops[a] = r.hops[r.previous[a]] + 1
         /\ r.previous[a] = OwnAddress <=> r.hops[a] = 1
<1>1. /\ r.explored \subseteq Address /\ OwnAddress \in Address
      /\ \A b \in Address : r.hops[b] \in Nat
  BY TableType DEF LoopInv
<1>2. ASSUME NEW b \in Address \ {OwnAddress}, IsReached(r, b)
      PROVE  /\ r.previous[b] \in r.explored /\ b \in g[r.previous[b]]
             /\ r.hops[b] = r.hops[r.previous[b]] + 1
  BY <1>2 DEF LoopInv, Hangs
<1>. DEFINE p == r.previous[a]
<1>3. p \in Address /\ p \in r.explored /\ a \in g[p] /\ r.hops[a] = r.hops[p] + 1
  BY <1>1, <1>2
<1>4. IsReached(r, p) /\ r.hops[OwnAddress] = 0
  BY <1>3 DEF LoopInv, InOrder
<1>5. p # OwnAddress => r.hops[p] # 0
  <2>1. ASSUME p # OwnAddress PROVE r.hops[p] = r.hops[r.previous[p]] + 1 /\ r.previous[p] \in Address
    BY <1>1, <1>2, <1>3, <1>4, <2>1
  <2>. QED  BY <1>1, <2>1
<1>. QED  BY <1>1, <1>3, <1>4, <1>5

\* After k steps back the path to d is k links long, or the node is one hop away.
LEMMA BackTracks ==
  ASSUME NEW g, NEW r, LoopInv(g, r), NEW d \in Address \ {OwnAddress}, IsReached(r, d), NEW n \in Nat
  PROVE  LET b == Back(r, d, n)
         IN  /\ b \in Address \ {OwnAddress} /\ IsReached(r, b) /\ r.hops[b] <= r.hops[d]
             /\ d \in Within(g, b, r.hops[d] - r.hops[b])
             /\ r.hops[b] = 1 \/ r.hops[b] = r.hops[d] - n
<1>. DEFINE Good(k) == LET b == Back(r, d, k)
                       IN  /\ b \in Address \ {OwnAddress} /\ IsReached(r, b) /\ r.hops[b] <= r.hops[d]
                           /\ d \in Within(g, b, r.hops[d] - r.hops[b])
                           /\ r.hops[b] = 1 \/ r.hops[b] = r.hops[d] - k
            T == {k \in Nat : ~ Good(k)}
<1>1. /\ g \in Graph /\ r \in RouteTable /\ \A b \in Address : r.hops[b] \in Nat
      /\ g \in [Address -> SUBSET Address]
  BY TableType DEF LoopInv, Graph
<1>2. Good(0)
  <2>1. Back(r, d, 0) = d /\ Within(g, d, 0) = {d} /\ r.hops[d] - r.hops[d] = 0
    BY <1>1, BackStep, WithinStep
  <2>2. d \in Within(g, d, r.hops[d] - r.hops[d])
    BY <2>1
  <2>. QED  BY <1>1, <2>1, <2>2
<1>3. ASSUME NEW k \in Nat, Good(k) PROVE Good(k + 1)
  <2>. DEFINE b == Back(r, d, k)
              p == r.previous[b]
              m == r.hops[d] - r.hops[b]
  <2>1. /\ b \in Address \ {OwnAddress} /\ IsReached(r, b) /\ r.hops[b] <= r.hops[d]
        /\ d \in Within(g, b, m)
        /\ r.hops[b] = 1 \/ r.hops[b] = r.hops[d] - k
    BY <1>3
  <2>2. Back(r, d, k + 1) = IF p = OwnAddress THEN b ELSE p
    BY <1>1, BackStep
  <2>. HIDE DEF Good
  <2>3. /\ p \in Address /\ IsReached(r, p) /\ b \in g[p]
        /\ r.hops[p] \in Nat /\ r.hops[b] = r.hops[p] + 1
        /\ p = OwnAddress <=> r.hops[b] = 1
    <3>. HIDE DEF b
    <3>. QED  BY <2>1, PreviousCloser
  <2>. HIDE DEF b, p
  <2>4. CASE p = OwnAddress
    <3>1. Back(r, d, k + 1) = b /\ r.hops[b] = 1
      BY <2>2, <2>3, <2>4
    <3>. QED  BY <2>1, <3>1 DEF Good
  <2>5. CASE p # OwnAddress
    <3>1. Back(r, d, k + 1) = p
      BY <2>2, <2>5
    <3>2. m \in Nat /\ r.hops[d] - r.hops[p] = m + 1
      BY <1>1, <2>1, <2>3
    <3>3. d \in Within(g, p, m + 1)
      <4>. HIDE DEF m
      <4>. QED  BY <1>1, <2>1, <2>3, <3>2, WithinPrepend
    <3>4. r.hops[p] = r.hops[d] - (k + 1) /\ r.hops[p] <= r.hops[d]
      BY <1>1, <2>1, <2>3, <2>5
    <3>. QED  BY <2>3, <2>5, <3>1, <3>2, <3>3, <3>4 DEF Good
  <2>. QED  BY <2>4, <2>5
<1>. HIDE DEF Good
<1>4. T = {}
  <2>1. SUFFICES ASSUME T # {} PROVE FALSE
    OBVIOUS
  <2>2. PICK k \in T : \A j \in T : k <= j
    <3>1. T \subseteq Nat
      OBVIOUS
    <3>. HIDE DEF T
    <3>. QED  BY <2>1, <3>1, LeastNatural
  <2>3. k \in Nat /\ k # 0 /\ ~ Good(k)
    BY <1>2, <2>2
  <2>4. k - 1 \in Nat /\ k - 1 \notin T /\ (k - 1) + 1 = k
    BY <2>2, <2>3
  <2>5. Good(k - 1)
    BY <2>4
  <2>6. Good((k - 1) + 1)
    <3>. HIDE DEF T
    <3>. QED  BY <1>3, <2>4, <2>5
  <2>. QED  BY <2>3, <2>4, <2>6
<1>5. Good(n)
  BY <1>4
<1>. QED  BY <1>5 DEF Good

\* At the end, back-tracking from a node that was reached comes to a neighbour of this node
\* from which a shortest path leads on.
LEMMA FirstHopBest ==
  ASSUME NEW g, NEW r, LoopInv(g, r), Frontier(r) = {}, NEW d \in Address \ {OwnAddress}, IsReached(r, d)
  PROVE  r.previous[FirstHop(r, d)] = OwnAddress /\ FirstHop(r, d) \in BestHops(g, d)
<1>. DEFINE h == FirstHop(r, d)
            m == r.hops[d] - 1
<1>1. /\ g \in Graph /\ r \in RouteTable /\ OwnAddress \in Address
      /\ \A b \in Address : r.hops[b] \in Nat
      /\ MaxAddress \in Nat /\ Infinity = MaxAddress + 1
  BY TableType, AddressAssumption DEF LoopInv, Infinity
<1>2. h = Back(r, d, MaxAddress)
  BY DEF FirstHop, Back
<1>3. /\ h \in Address \ {OwnAddress} /\ IsReached(r, h) /\ r.hops[h] <= r.hops[d]
      /\ d \in Within(g, h, r.hops[d] - r.hops[h])
      /\ r.hops[h] = 1 \/ r.hops[h] = r.hops[d] - MaxAddress
  <2>. HIDE DEF h
  <2>. QED  BY <1>1, <1>2, BackTracks, SMTT(30)
<1>. HIDE DEF h
<1>4. r.hops[d] <= MaxAddress
  BY <1>1 DEF IsReached
<1>5. r.hops[h] = 1 /\ r.previous[h] = OwnAddress /\ h \in g[OwnAddress]
  <2>1. /\ r.hops[r.previous[h]] \in Nat /\ r.hops[h] = r.hops[r.previous[h]] + 1
        /\ r.previous[h] = OwnAddress <=> r.hops[h] = 1
        /\ h \in g[r.previous[h]]
    BY <1>3, PreviousCloser
  <2>2. d \in Address /\ r.hops[d] \in Nat /\ r.hops[h] \in Nat /\ r.hops[h] >= 1
    BY <1>1, <1>3, <2>1
  <2>3. r.hops[h] = 1
    BY <1>1, <1>3, <1>4, <2>2
  <2>4. r.previous[h] = OwnAddress
    BY <2>1, <2>3
  <2>. QED  BY <2>1, <2>3, <2>4
<1>6. m \in 0 .. MaxAddress /\ d \in Within(g, h, m) /\ r.hops[d] = m + 1
  BY <1>1, <1>3, <1>4, <1>5
<1>. HIDE DEF m
<1>7. ASSUME NEW i \in 0 .. MaxAddress, d \in Within(g, h, i)
      PROVE  m <= i
  <2>1. CASE i < m
    <3>1. i \in Nat /\ i + 1 \in 0 .. MaxAddress
      BY <1>1, <1>6, <2>1
    <3>2. d \in Within(g, OwnAddress, i + 1)
      BY <1>1, <1>5, <1>7, <3>1, WithinPrepend
    <3>3. r.hops[d] <= i + 1
      BY <3>1, <3>2, HopsLeast
    <3>. QED  BY <1>1, <1>6, <3>1, <3>3
  <2>. QED  BY <1>1, <1>6, <2>1
<1>8. Distance(g, h, d) = m
  BY <1>1, <1>3, <1>6, <1>7, DistanceIs
<1>9. Distance(g, OwnAddress, d) = m + 1
  BY <1>6, HopsAreDistances
<1>. QED  BY <1>5, <1>8, <1>9 DEF h, BestHops

-----------------------------------------------------------------------------
\* The number of iterations that Routes makes is enough: each explores a node or there is none
\* left to explore.
LEMMA RoutesEnd ==
  ASSUME NEW g \in Graph
  PROVE  LoopInv(g, Routes(g)) /\ Frontier(Routes(g)) = {}
<1>. DEFINE f == [r \in RouteTable |-> Explore(g, r)]
            X(k) == Iterate(f, InitialTable, k)
            Good(k) == /\ LoopInv(g, X(k))
                       /\ Frontier(X(k)) = {} \/ Cardinality(X(k).explored) = k
            T == {k \in Nat : ~ Good(k)}
<1>1. MaxAddress \in Nat /\ IsFiniteSet(Address) /\ Cardinality(Address) = MaxAddress + 1
  <2>1. MaxAddress \in Nat
    BY AddressAssumption
  <2>2. IsFiniteSet(0 .. MaxAddress) /\ Cardinality(0 .. MaxAddress) = MaxAddress + 1
    BY <2>1, FS_Interval
  <2>. QED  BY <2>1, <2>2 DEF Address
<1>2. /\ X(0) = InitialTable
      /\ \A k \in Nat : X(k) \in RouteTable /\ X(k + 1) = Explore(g, X(k))
  <2>1. f \in [RouteTable -> RouteTable] /\ InitialTable \in RouteTable
    BY ExploreType, InitialTableType
  <2>2. Iterate(f, InitialTable, 0) = InitialTable
    <3>. HIDE DEF f
    <3>. QED  BY <2>1, IterateStep
  <2>3. ASSUME NEW k \in Nat
        PROVE  X(k) \in RouteTable /\ X(k + 1) = f[X(k)]
    <3>. HIDE DEF f
    <3>. QED  BY <2>1, IterateStep, IterateType
  <2>. QED  BY <2>2, <2>3
<1>3. Routes(g) = X(MaxAddress + 1)
  BY DEF Routes
<1>. HIDE DEF X, f
<1>4. \A k \in Nat : IsFiniteSet(X(k).explored) /\ X(k).explored \subseteq Address
  BY <1>1, <1>2, FS_Subset, TableType
<1>5. Good(0)
  <2>1. X(0).explored = {}
    BY <1>2 DEF InitialTable
  <2>. QED  BY <1>2, <2>1, LoopInvInitial, FS_EmptySet
<1>6. ASSUME NEW k \in Nat, Good(k) PROVE Good(k + 1)
  <2>1. CASE Frontier(X(k)) = {}
    <3>1. X(k + 1) = X(k)
      BY <1>2, <2>1, ExploreStep
    <3>. QED  BY <1>6, <2>1, <3>1
  <2>2. CASE Frontier(X(k)) # {}
    <3>1. LoopInv(g, X(k + 1))
      BY <1>2, <1>6, <2>2, ExploreKeeps
    <3>2. PICK c \in Address \ X(k).explored : X(k + 1).explored = X(k).explored \cup {c}
      BY <1>2, <1>6, <2>2, ExploreEffect
    <3>3. Cardinality(X(k + 1).explored) = k + 1
      BY <1>4, <1>6, <2>2, <3>2, FS_AddElement
    <3>. QED  BY <3>1, <3>3
  <2>. QED  BY <2>1, <2>2
<1>. HIDE DEF Good
<1>7. T = {}
  <2>1. SUFFICES ASSUME T # {} PROVE FALSE
    OBVIOUS
  <2>2. PICK k \in T : \A j \in T : k <= j
    <3>1. T \subseteq Nat
      OBVIOUS
    <3>. HIDE DEF T
    <3>. QED  BY <2>1, <3>1, LeastNatural
  <2>3. k \in Nat /\ k # 0 /\ ~ Good(k)
    BY <1>5, <2>2
  <2>4. k - 1 \in Nat /\ k - 1 \notin T /\ (k - 1) + 1 = k
    BY <2>2, <2>3
  <2>5. Good(k - 1)
    BY <2>4
  <2>6. Good((k - 1) + 1)
    <3>. HIDE DEF T
    <3>. QED  BY <1>6, <2>4, <2>5
  <2>. QED  BY <2>3, <2>4, <2>6
<1>8. Good(MaxAddress + 1)
  BY <1>1, <1>7
<1>9. Cardinality(X(MaxAddress + 1).explored) = MaxAddress + 1 => Frontier(X(MaxAddress + 1)) = {}
  <2>1. X(MaxAddress + 1).explored \in SUBSET Address
    BY <1>1, <1>4
  <2>2. Cardinality(X(MaxAddress + 1).explored) = MaxAddress + 1 => X(MaxAddress + 1).explored = Address
    BY <1>1, <2>1, FS_Subset
  <2>. QED  BY <2>2 DEF Frontier
<1>. QED  BY <1>3, <1>8, <1>9 DEF Good

=============================================================================
