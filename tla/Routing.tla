------------------------------ MODULE Routing ------------------------------
(***************************************************************************)
(* The routing tables of one node, network_stack/net/routing.c: what it    *)
(* knows of the network, how time makes it forget, and the next hops it    *)
(* draws from it.                                                          *)
(*                                                                         *)
(* Everything here runs on the node's one thread, except the clock.  The   *)
(* sends at the end of net_update_routing() block on the data link layer,  *)
(* which delivers received packets meanwhile: the two notifications may    *)
(* happen between the call and the return of the sends.                    *)
(***************************************************************************)
EXTENDS ShortestPath, Integers

CONSTANTS
  PhysAddress,       \* dll_address: the addresses neighbours have on the bus
  Broadcast,         \* NET_NEXT_HOP_NOT_RESOLVED, which is DLL_BROADCAST_ADDRESS
  LinkStateTTL,      \* LINK_STATE_SECONDS_TO_LIVE_START (60)
  NeighbourTTL,      \* NEIGHBOUR_LINK_SECONDS_TO_LIVE_START (60)
  Period,            \* seconds between two announcements (10)
  Modulus,           \* the values of a uint8_t (256)
  MaxLag,            \* bound: seconds the clock runs ahead of net_update_routing()
  LinkStatesHeard,   \* inputs: the link state packets that may arrive
  PingResponsesHeard \* inputs: <<physical, logical>> address pairs that may answer

ASSUME RoutingAssumption ==
  /\ 0 \in PhysAddress /\ Broadcast \notin PhysAddress
  /\ LinkStateTTL \in 1 .. Modulus - 1 /\ NeighbourTTL \in 1 .. Modulus - 1
  /\ Period \in 1 .. Modulus - 1 /\ Modulus \in Nat /\ MaxLag \in Nat
  /\ \A p \in LinkStatesHeard : p.sequence_number \in 0 .. Modulus - 1
  /\ \A p \in PingResponsesHeard : p[1] \in PhysAddress

VARIABLES
  link_state_packets,  \* by address: the last link state accepted from the node
  neighbour_links,     \* by address: the bus address and lifetime of a neighbour
  next_hops,           \* by destination: the bus address to send to, or Broadcast
  is_graph_changed,    \* static flag
  seconds_counter,     \* static uint8_t of net_update_routing()
  lag,                 \* time_now() minus last_time, in whole seconds
  sending,             \* net_update_routing() is in its two sends
  link_state_ages,     \* history: seconds since the live link state was accepted
  neighbour_ages       \* history: seconds since the live neighbour last answered

tables == <<link_state_packets, neighbour_links, next_hops, is_graph_changed, seconds_counter>>
vars == <<tables, lag, sending, link_state_ages, neighbour_ages>>

IsLive(entry) == entry.seconds_to_live > 0

\* net_are_nodes_linked() as a graph: this node's own links never time out.
LinkGraph(packets) ==
  [a \in Address |-> IF IsLive(packets[a]) \/ a = OwnAddress
                       THEN packets[a].connected_addresses ELSE {}]

\* The loop over destinations stops before NET_MAX_ADDRESS.
RoutedDestinations == 0 .. MaxAddress - 1

\* recalculate_routes(): the next hop of a destination out of reach is Broadcast.
RecalculatedHops(graph, links, hops) ==
  LET r == Routes(graph)
      Resolved == (r.explored \ {OwnAddress}) \cap RoutedDestinations
  IN  [d \in Address |->
         IF d \in Resolved THEN links[FirstHop(r, d)].physical_address
         ELSE IF d \in RoutedDestinations THEN Broadcast ELSE hops[d]]

\* Neither static flag nor tables are set but by net_initialise_routing(); the first
\* call of net_update_routing() may come long after the clock started.
Init ==
  /\ link_state_packets = [a \in Address |->
       [sequence_number |-> 0, seconds_to_live |-> 0, connected_addresses |-> {}]]
  /\ neighbour_links = [a \in Address |-> [physical_address |-> 0, seconds_to_live |-> 0]]
  /\ next_hops = [a \in Address |-> Broadcast]
  /\ is_graph_changed = FALSE
  /\ seconds_counter = 0
  /\ lag \in 0 .. MaxLag
  /\ sending = FALSE
  /\ link_state_ages = [a \in Address |-> 0]
  /\ neighbour_ages = [a \in Address |-> 0]

-----------------------------------------------------------------------------
\* A second of history; an age beyond Oldest is not told apart.
Oldest == Modulus + MaxLag
Older(ages, table) ==
  [a \in Address |-> IF ~ IsLive(table[a]) THEN 0
                     ELSE IF ages[a] < Oldest THEN ages[a] + 1 ELSE Oldest]

\* The 1 ms timer interrupt, a thousand times.
Tick ==
  /\ lag < MaxLag
  /\ lag' = lag + 1
  /\ link_state_ages' = Older(link_state_ages, link_state_packets)
  /\ neighbour_ages' = Older(neighbour_ages, neighbour_links)
  /\ UNCHANGED <<tables, sending>>

\* The live entries that do not outlast the elapsed seconds.
TimedOut(table, elapsed) ==
  {a \in Address : IsLive(table[a]) /\ table[a].seconds_to_live <= elapsed}

\* Mutants of CountDown: a second is taken off whatever the time elapsed, no second is taken
\* off an entry that does not time out, and a lifetime runs below zero.
CountDownByOne(table, elapsed) ==
  [a \in Address |-> [table[a] EXCEPT !.seconds_to_live = IF @ > elapsed THEN @ - 1 ELSE 0]]
CountDownForgotten(table, elapsed) ==
  [a \in Address |-> [table[a] EXCEPT !.seconds_to_live = IF @ > elapsed THEN @ ELSE 0]]
CountDownBelowZero(table, elapsed) ==
  [a \in Address |-> [table[a] EXCEPT !.seconds_to_live = @ - elapsed]]

\* The lifetime of every entry after the elapsed seconds.
CountDown(table, elapsed) ==
  [a \in Address |-> [table[a] EXCEPT !.seconds_to_live =
                        IF @ > elapsed THEN @ - elapsed ELSE 0]]

\* Mutant of Unlink: the bit of the neighbour stays set.
UnlinkForgotten(packets, gone) == packets

\* This node unlinks itself from the neighbours that timed out.
Unlink(packets, gone) ==
  [packets EXCEPT ![OwnAddress].connected_addresses = @ \ gone]

\* Mutant of FlagAfterUpdate: the recalculation resets the flag.
FlagResetByUpdate(changed, due) == changed /\ ~ due

\* The flag when net_update_routing() is over: the line that resets it is commented out.
FlagAfterUpdate(changed, due) == changed

\* Mutant of CountedSeconds: the seconds of the last call only.
SecondsOfThisCall(counter, elapsed) == elapsed % Modulus

CountedSeconds(counter, elapsed) == (counter + elapsed) % Modulus

\* net_update_routing() up to its sends; the elapsed seconds are kept in a uint8_t.
net_update_routing ==
  LET elapsed == lag % Modulus
      lost    == TimedOut(neighbour_links, elapsed)
      expired == TimedOut(link_state_packets, elapsed)
      changed == is_graph_changed \/ lost # {} \/ expired # {}
      counted == CountedSeconds(seconds_counter, elapsed)
      due     == counted >= Period
  IN /\ ~ sending
     /\ lag' = lag - elapsed
     /\ neighbour_links' = CountDown(neighbour_links, elapsed)
     /\ link_state_packets' = Unlink(CountDown(link_state_packets, elapsed), lost)
     /\ is_graph_changed' = FlagAfterUpdate(changed, due)
     /\ seconds_counter' = IF due THEN counted - Period ELSE counted
     /\ next_hops' = IF due /\ changed
                       THEN RecalculatedHops(LinkGraph(link_state_packets'), neighbour_links', next_hops)
                       ELSE next_hops
     /\ sending' = due
     /\ link_state_ages' = [a \in Address |-> IF a \in expired THEN 0 ELSE link_state_ages[a]]
     /\ neighbour_ages' = [a \in Address |-> IF a \in lost THEN 0 ELSE neighbour_ages[a]]

\* The ping request and the link state packet are sent and net_update_routing() returns.
SendsReturn ==
  /\ sending
  /\ sending' = FALSE
  /\ UNCHANGED <<tables, lag, link_state_ages, neighbour_ages>>

\* A live entry takes a packet with a number at most half the circle ahead of its own.
IsNewer(number, previous) == (number + Modulus - previous) % Modulus \in 1 .. Modulus \div 2

\* net_notify_link_state_packet() with a packet it does not reject.
net_notify_link_state_packet(p) ==
  LET previous == link_state_packets[p.source]
      links    == p.nodes \cap Address
  IN /\ p.source \in Address \ {OwnAddress}
     /\ IsLive(previous) => IsNewer(p.sequence_number, previous.sequence_number)
     /\ link_state_packets' = [link_state_packets EXCEPT ![p.source] =
          [sequence_number |-> p.sequence_number, seconds_to_live |-> LinkStateTTL,
           connected_addresses |-> links]]
     /\ is_graph_changed' = (is_graph_changed \/ links # previous.connected_addresses)
     /\ link_state_ages' = [link_state_ages EXCEPT ![p.source] = 0]
     /\ UNCHANGED <<neighbour_links, next_hops, seconds_counter, lag, sending, neighbour_ages>>

\* net_notify_ping_response(): an answer for any logical address in range is believed.
net_notify_ping_response(physical, logical) ==
  LET links == link_state_packets[OwnAddress].connected_addresses
  IN /\ logical \in Address
     /\ neighbour_links' = [neighbour_links EXCEPT ![logical] =
          [physical_address |-> physical, seconds_to_live |-> NeighbourTTL]]
     /\ link_state_packets' = [link_state_packets EXCEPT ![OwnAddress].connected_addresses =
          @ \cup {logical}]
     /\ is_graph_changed' = (is_graph_changed \/ logical \notin links)
     /\ neighbour_ages' = [neighbour_ages EXCEPT ![logical] = 0]
     /\ UNCHANGED <<next_hops, seconds_counter, lag, sending, link_state_ages>>

Next ==
  \/ Tick
  \/ net_update_routing
  \/ SendsReturn
  \/ \E p \in LinkStatesHeard : net_notify_link_state_packet(p)
  \/ \E p \in PingResponsesHeard : net_notify_ping_response(p[1], p[2])

Spec == Init /\ [][Next]_vars

\* The timer never stops and the main loop calls net_update_routing() again and again;
\* nothing says that packets arrive, or that a send ever returns.
FairSpec == Spec /\ WF_vars(Tick) /\ WF_vars(net_update_routing)

-----------------------------------------------------------------------------
net_is_device_online(a) == a = OwnAddress \/ (a \in Address /\ IsLive(link_state_packets[a]))

\* The tables hold what the C types can, and lifetimes no longer than they start with.
TypeOK ==
  /\ link_state_packets \in [Address -> [sequence_number : 0 .. Modulus - 1,
       seconds_to_live : 0 .. LinkStateTTL, connected_addresses : SUBSET Address]]
  /\ neighbour_links \in [Address ->
       [physical_address : PhysAddress, seconds_to_live : 0 .. NeighbourTTL]]
  /\ next_hops \in [Address -> PhysAddress \cup {Broadcast}]
  /\ is_graph_changed \in BOOLEAN /\ sending \in BOOLEAN
  /\ seconds_counter \in 0 .. Modulus - 1
  /\ lag \in 0 .. MaxLag
  /\ link_state_ages \in [Address -> 0 .. Oldest]
  /\ neighbour_ages \in [Address -> 0 .. Oldest]

\* The links this node announces are its live neighbours, at every moment: neither a
\* timeout, an answer, nor its own announcement flooded back to it separates the two.
OwnLinksAreLive ==
  \A n \in Address :
    n \in link_state_packets[OwnAddress].connected_addresses <=> IsLive(neighbour_links[n])

\* The links believed: those of the nodes that are online.
BelievedGraph ==
  [a \in Address |-> IF net_is_device_online(a)
                       THEN link_state_packets[a].connected_addresses ELSE {}]

\* The bus addresses that are right for destination d: those of the neighbours that
\* start a shortest path, or Broadcast when there is no path.
RightHops(d) ==
  IF Distance(BelievedGraph, OwnAddress, d) = Infinity THEN {Broadcast}
  ELSE {neighbour_links[h].physical_address : h \in BestHops(BelievedGraph, d)}

\* Some live neighbour has the bus address.
IsNeighbourAt(physical) ==
  \E n \in Address :
    IsLive(neighbour_links[n]) /\ neighbour_links[n].physical_address = physical

RoutesRight(destinations) ==
  \A d \in destinations \ {OwnAddress} :
    /\ next_hops[d] \in RightHops(d)
    /\ next_hops[d] # Broadcast => IsNeighbourAt(next_hops[d])

\* net_update_routing() goes on to its announcements.
Announces == ~ sending /\ sending'

\* When a node announces itself its routes are right: each destination that the loop of
\* recalculate_routes() covers (all but NET_MAX_ADDRESS, which never gets a route) has the bus
\* address of a live neighbour on a shortest path over the links of nodes that did not time out,
\* or no address if there is no such path.  Whether a recalculation is due is told by a flag, so
\* this is also that no change of the graph, and no neighbour that moves on the bus, goes unnoticed.
InstallsShortestRoutes == [][Announces => RoutesRight(RoutedDestinations)']_vars

\* Once net_update_routing() has accounted for the time, what is still live was heard
\* within its time to live: "The number of seconds left before this link state is invalid".
RecentAfterUpdate ==
  [][net_update_routing =>
       \A a \in Address :
         /\ IsLive(link_state_packets'[a]) => link_state_ages'[a] < LinkStateTTL
         /\ IsLive(neighbour_links'[a]) => neighbour_ages'[a] < NeighbourTTL]_vars

\* Each table is a soft state: seen through its live entries and their ages it keeps
\* the promise of SoftState.tla, a lag of the main loop being all it is late or early by.
LinkStates == INSTANCE SoftState WITH
  Key <- Address, MinAge <- LinkStateTTL - MaxLag, MaxAge <- LinkStateTTL + MaxLag - 1,
  live <- {a \in Address : IsLive(link_state_packets[a])}, age <- link_state_ages
Neighbours == INSTANCE SoftState WITH
  Key <- Address, MinAge <- NeighbourTTL - MaxLag, MaxAge <- NeighbourTTL + MaxLag - 1,
  live <- {a \in Address : IsLive(neighbour_links[a])}, age <- neighbour_ages

\* A node's link state is believed as long as SoftState allows, and no longer.
LinkStatesExpire == LinkStates!Spec
\* The same of the answers of a neighbour.
NeighboursExpire == Neighbours!Spec

-----------------------------------------------------------------------------
\* The liveness properties assume that the sends of net_update_routing() return.
SendsReturnAlways == []<>(~ sending)

\* A node that falls silent is seen to be offline.
SilentNodeGoesOffline ==
  SendsReturnAlways =>
    \A a \in Address \ {OwnAddress} :
      (net_is_device_online(a) /\ link_state_ages[a] > 0)
        ~> (~ net_is_device_online(a) \/ link_state_ages[a] = 0)

\* The next hop of d is the bus address of no live neighbour.
HopDead(d) == next_hops[d] # Broadcast /\ ~ IsNeighbourAt(next_hops[d])

\* A next hop whose neighbour is gone, or moved to another bus address, is replaced.
DeadHopIsReplaced ==
  SendsReturnAlways =>
    \A d \in RoutedDestinations \ {OwnAddress} : HopDead(d) ~> ~ HopDead(d)

\* The node announces itself again and again.
KeepsAnnouncing == SendsReturnAlways => []<>sending
=============================================================================
