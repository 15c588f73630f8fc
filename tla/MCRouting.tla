----------------------------- MODULE MCRouting -----------------------------
(***************************************************************************)
(* Small instances of Routing.tla for TLC: the packets that may arrive.    *)
(***************************************************************************)
EXTENDS Routing

LinkState(a, numbers, linkLists) ==
  [source : {a}, sequence_number : numbers, nodes : linkLists]

\* Node 1 links to this node and perhaps to node 2 and an address out of range, in packets whose
\* numbers wrap: 0 is newer than 3.  This node's own announcement comes back to it, and one of an
\* address out of range arrives.
MCLinkStates ==
  LinkState(1, {0, 3}, {{0}, {0, 2, MaxAddress + 1}})
    \cup LinkState(OwnAddress, {1}, {{1, 2}}) \cup LinkState(MaxAddress + 1, {1}, {{0}})

\* Node 1 answers from two bus addresses, and so does a node with an address out of range.
MCPingResponses == {<<11, 1>>, <<13, 1>>, <<13, MaxAddress + 1>>}
=============================================================================
