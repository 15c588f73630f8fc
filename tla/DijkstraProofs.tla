--------------------------- MODULE DijkstraProofs ---------------------------
(***************************************************************************)
(* Proofs about the loop of recalculate_routes(), for any number of        *)
(* addresses and any graph.                                                *)
(***************************************************************************)
EXTENDS Dijkstra, ShortestPathProofs

\* The types, TreeEdges, LinksRelaxed, and that nodes are explored in the order of their
\* distance, without which the latter two are not inductive.
IInv == LoopInv(graph, route)

LEMMA StepIInv == IInv /\ [Next]_vars => IInv'
<1>1. SUFFICES ASSUME IInv, [Next]_vars PROVE IInv'
  OBVIOUS
<1>2. CASE UNCHANGED vars
  BY <1>1, <1>2 DEF IInv, vars
<1>3. CASE Step
  <2>1. graph' = graph /\ route' = Explore(graph, route) /\ Frontier(route) # {}
    BY <1>3 DEF Step
  <2>2. LoopInv(graph, Explore(graph, route))
    BY <1>1, <2>1, ExploreKeeps DEF IInv
  <2>. QED  BY <2>1, <2>2 DEF IInv
<1>. QED  BY <1>1, <1>2, <1>3 DEF Next

\* At every iteration, for every graph: the table is typed, explored nodes are settled
\* in the order of their distance, every reached node hangs from an explored node one
\* hop closer, and no link of an explored node could still shorten a path.
THEOREM DijkstraInvariant == Spec => []IInv
<1>1. Init => IInv
  BY LoopInvInitial DEF Init, IInv
<1>. QED  BY <1>1, StepIInv, PTL DEF Spec

\* Back-tracking over previous_node never meets a node the loop did not set.
THEOREM TreeEdgesAlways == Spec => []TreeEdges
<1>1. IInv => TreeEdges
  BY DEF IInv, LoopInv, Hangs, IsReached, TreeEdges, Reached
<1>. QED  BY DijkstraInvariant, <1>1, PTL

\* No explored node has a link that would still improve a hop count.
THEOREM LinksRelaxedAlways == Spec => []LinksRelaxed
<1>1. IInv => LinksRelaxed
  BY DEF IInv, LoopInv, Relaxed, LinksRelaxed
<1>. QED  BY DijkstraInvariant, <1>1, PTL

\* When the loop ends, for every graph and number of addresses, the hop count of every
\* node is its distance from this node, and a node out of reach has none.
THEOREM ShortestRoutes == Spec => []ShortestWhenDone
<1>1. IInv => ShortestWhenDone
  BY HopsAreDistances DEF IInv, ShortestWhenDone, Done
<1>. QED  BY DijkstraInvariant, <1>1, PTL

\* When the loop has ended, the node at which back-tracking from any explored destination stops
\* is a neighbour of this node, and one from which a shortest path leads on.
THEOREM FirstHopIsBestAlways == Spec => []FirstHopIsBest
<1>1. ASSUME IInv, Done, NEW d \in route.explored \ {OwnAddress}
      PROVE  /\ route.previous[FirstHop(route, d)] = OwnAddress
             /\ FirstHop(route, d) \in BestHops(graph, d)
  <2>1. d \in Address \ {OwnAddress} /\ IsReached(route, d)
    BY <1>1, TableType DEF IInv, LoopInv, InOrder
  <2>. QED  BY <1>1, <2>1, FirstHopBest DEF IInv, Done
<1>2. IInv => FirstHopIsBest
  BY <1>1 DEF FirstHopIsBest
<1>. QED  BY DijkstraInvariant, <1>2, PTL
=============================================================================
