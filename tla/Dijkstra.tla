------------------------------ MODULE Dijkstra ------------------------------
(***************************************************************************)
(* recalculate_routes() one loop iteration at a time, on any graph.        *)
(***************************************************************************)
EXTENDS ShortestPath

VARIABLES
  graph,   \* the links, fixed while the routes are computed
  route    \* node_routes

vars == <<graph, route>>

Init == /\ graph \in Graph
        /\ route = InitialTable

Step == /\ Frontier(route) # {}
        /\ route' = Explore(graph, route)
        /\ UNCHANGED graph

Next == Step

\* The loop runs with nothing to wait for, so it is not left half way.
Spec == Init /\ [][Next]_vars /\ WF_vars(Step)

-----------------------------------------------------------------------------
Done == Frontier(route) = {}

Reached(a) == route.hops[a] < Infinity

\* The table and the graph have the types of the code's arrays.
TypeOK == graph \in Graph /\ route \in RouteTable

\* Every reached node hangs from an explored node one hop closer that links to
\* it, so back-tracking over previous_node comes to this node and stops.
TreeEdges ==
  \A a \in Address \ {OwnAddress} :
    Reached(a) => LET p == route.previous[a]
                  IN  /\ p \in route.explored
                      /\ a \in graph[p]
                      /\ route.hops[a] = route.hops[p] + 1

\* A link followed from an explored node shortens nothing any more: with
\* TreeEdges, the certificate that the hop counts are least ones.
LinksRelaxed ==
  \A a \in route.explored : \A b \in graph[a] : route.hops[b] <= route.hops[a] + 1

\* When the loop ends the hop counts are the distances in the graph.
ShortestWhenDone ==
  Done => \A a \in Address : route.hops[a] = Distance(graph, OwnAddress, a)

\* Back-tracking from any explored destination stops at a neighbour of this node
\* from which a shortest path leads on to the destination.
FirstHopIsBest ==
  Done => \A d \in route.explored \ {OwnAddress} :
            /\ route.previous[FirstHop(route, d)] = OwnAddress
            /\ FirstHop(route, d) \in BestHops(graph, d)

\* The do-while loop ends, with every node a path leads to explored.
LoopEnds == <>(Done /\ route.explored = Within(graph, OwnAddress, MaxAddress))
=============================================================================
