------------------------------ MODULE Network ------------------------------
(***************************************************************************)
(* The network layer's packets, network_stack/net/packets.c, on every node *)
(* of a network: pings, link states flooded from node to node, and data    *)
(* forwarded from hop to hop.                                              *)
(*                                                                         *)
(* Of the data link layer, see Dll, this is what matters here: a packet of *)
(* one frame is copied from the node's one transmit buffer when its send   *)
(* starts; the send returns when the packet was acknowledged, and never if *)
(* the packet or its acknowledgement was lost; and while dll_send_packet() *)
(* waits the node goes on receiving, so packets are handled inside sends.  *)
(* Two things are taken as dll.h has them and not as dll.c: an             *)
(* acknowledgement ends the send that it is for, and broadcasts reach the  *)
(* nodes in range.  A node's bus address is its network address, and the   *)
(* routes are given; for how they are found see Routing.                   *)
(*                                                                         *)
(* What is in range, who announces itself and what is sent is a setting,   *)
(* chosen in the initial state.                                            *)
(***************************************************************************)
EXTENDS Integers, Sequences, FiniteSets

CONSTANTS
  Node,           \* the addresses of the nodes
  MaxAddress,     \* NET_MAX_ADDRESS (15)
  LinkStateTTL,   \* LINK_STATE_SECONDS_TO_LIVE_START, in periods (6)
  NeighbourTTL,   \* NEIGHBOUR_LINK_SECONDS_TO_LIVE_START, in periods (6)
  Modulus,        \* the values of a uint8_t (256)
  FragSize,       \* the bytes of a packet that one frame takes (23)
  MaxPayload,     \* net_get_data_buffer_size() (121)
  Settings,       \* inputs: see below
  None            \* no node, no packet

\* A setting: who is in range of whom; whether ping requests arrive, otherwise the nodes in
\* range know each other from the start; the nodes whose announcements arrive; whether packets
\* and acknowledgements may be lost; whether a period begins only after the packets of the last;
\* the nodes that may restart, once; the data sent; the next hops; the sequence number at the
\* start; and the bound on the periods.  Link states and the data that is not refused fit into
\* one frame; longer data, of which every fragment is copied when its turn comes, is left out.
ASSUME NetworkAssumption ==
  /\ MaxAddress \in Nat /\ Node \subseteq 0 .. MaxAddress /\ None \notin Node
  /\ Modulus \in Nat \ {0}
  /\ LinkStateTTL \in Nat \ {0} /\ NeighbourTTL \in Nat \ {0}
  /\ MaxPayload \in Nat /\ FragSize \in Nat /\ 5 + Cardinality(Node) + 2 <= FragSize
  /\ \A s \in Settings :
       /\ s.range \in [Node -> SUBSET Node] /\ \A n \in Node : n \notin s.range[n]
       /\ s.pings \in BOOLEAN
       /\ s.announcers \subseteq Node /\ s.lossy \in BOOLEAN /\ s.prompt \in BOOLEAN
       /\ s.restarting \subseteq Node /\ s.number \in 0 .. Modulus - 1 /\ s.rounds \in Nat
       /\ \A d \in s.data :
            /\ d.type = "data" /\ d.from \in Node /\ d.to \in Nat /\ d.length \in Nat
            /\ d.to \in Node \/ d.to > MaxAddress
            /\ 5 + d.length + 2 <= FragSize \/ d.length > MaxPayload
       /\ s.next_hops \in [Node -> [Node -> Node \cup {None}]]

VARIABLES
  setting,           \* the setting; never changes
  rounds,            \* by node: the periods that its clock has counted
  stack,             \* by node: the sends in progress, the running one last
  buffer,            \* by node: the packet in the one transmit buffer
  wire,              \* the packets of sends in progress that are still to be taken
  unanswered,        \* by node: the sends in progress whose acknowledgement will not come
  sequence_number,   \* by node: static uint8_t of net_send_link_state_packet()
  link_state_packets, neighbour_links,   \* by node: the two tables of routing.c
  unsent,            \* the data packets not sent so far
  boots,             \* history, by node: how often it restarted, and in which period
  announced,         \* history, by node: its announcements since it started
  delivered          \* history: the data packets given to a receive callback, in order

statics == <<sequence_number, link_state_packets, neighbour_links>>
history == <<boots, announced, delivered>>
vars == <<setting, rounds, stack, buffer, wire, unanswered, statics, unsent, history>>

NothingHeard == [a \in Node |-> [ttl |-> 0, number |-> 0, boot |-> 0, stamp |-> 0]]
NoNeighbours == [a \in Node |-> 0]

Init ==
  /\ setting \in Settings
  /\ rounds = [n \in Node |-> 0]
  /\ stack = [n \in Node |-> <<>>]
  /\ buffer = [n \in Node |-> None]
  /\ wire = {}
  /\ unanswered = [n \in Node |-> {}]
  /\ sequence_number = [n \in Node |-> setting.number]
  /\ link_state_packets = [n \in Node |-> NothingHeard]
  /\ neighbour_links = [n \in Node |->
       [a \in Node |-> IF ~ setting.pings /\ a \in setting.range[n] THEN NeighbourTTL ELSE 0]]
  /\ unsent = setting.data
  /\ boots = [n \in Node |-> [count |-> 0, round |-> 0]]
  /\ announced = [n \in Node |-> 0]
  /\ delivered = <<>>

-----------------------------------------------------------------------------
(* Packets and sends.                                                      *)

\* The number of bytes that a packet is sent with, and the one that it is expected to have.
PacketLength(p) ==
  CASE p.type = "data"          -> 5 + p.length + 2
    [] p.type = "link state"    -> 5 + Cardinality(p.nodes) + 2
    [] p.type = "ping request"  -> 4
    [] p.type = "ping response" -> 5

ChecksumForgotten(m) == m.length = PacketLength(m.packet) - 2   \* mutant
\* The checksum of what arrives is right, and the length must be.
net_validate_packet(m) == m.length = PacketLength(m.packet)

Idle(n) == stack[n] = <<>>
AtRest == wire = {} /\ \A n \in Node : Idle(n)
Top(n) == stack[n][Len(stack[n])]
Popped(n) == SubSeq(stack[n], 1, Len(stack[n]) - 1)

\* The send in progress has not got its acknowledgement, and perhaps never will: the node that
\* takes a packet acknowledges it before the callback runs.
Waiting(n) == \/ \E m \in wire : m.from = n /\ m.level = Len(stack[n])
              \/ Len(stack[n]) \in unanswered[n]

\* dll_update() in the main loop, or the loop in dll_send_packet().
Polls(n) == Idle(n) \/ Waiting(n)

\* What dll_send_packet() puts on the wire: the buffer as it is now, which is one frame.
Message(n, level, to, packet, length) ==
  [from |-> n, level |-> level, to |-> to, packet |-> packet, length |-> length]

\* Nobody acknowledges what is sent to a node out of range.
Unheard(n, level, nodes) ==
  unanswered' = IF nodes \subseteq setting.range[n] THEN unanswered
                ELSE [unanswered EXCEPT ![n] = @ \cup {level}]

\* A packet is written to the transmit buffer and sent to the nodes.
SendTo(n, nodes, packet, on_wire, activation) ==
  LET level == Len(stack[n]) + 1
  IN /\ buffer' = [buffer EXCEPT ![n] = packet]
     /\ stack' = [stack EXCEPT ![n] = Append(@, activation)]
     /\ wire' = on_wire \cup {Message(n, level, to, packet, PacketLength(packet)) :
                                to \in nodes \cap setting.range[n]}
     /\ Unheard(n, level, nodes)

Send == [kind |-> "send"]

\* A packet is written to the transmit buffer; a loop over bus addresses sends it.
Flood(packet, except) ==
  [kind |-> "flood", packet |-> packet, length |-> PacketLength(packet), next |-> 0, except |-> except]

\* net_is_node_neighbour(): the search stops before NET_MAX_ADDRESS.
Neighbours(n) == {a \in Node : neighbour_links[n][a] > 0 /\ a < MaxAddress}

\* The bus addresses that the loop has still to come to, as the tables are now.
StillToCome(n) ==
  {a \in Neighbours(n) : a >= Top(n).next /\ a # Top(n).except}

\* The body of the loop for the next neighbour.
SendToNext(n) ==
  /\ ~ Idle(n) /\ ~ Waiting(n) /\ Top(n).kind = "flood"
  /\ \E a \in StillToCome(n) :
       /\ \A b \in StillToCome(n) : a <= b
       /\ stack' = [stack EXCEPT ![n] = Append(Popped(n), [Top(n) EXCEPT !.next = a + 1])]
       /\ wire' = wire \cup {Message(n, Len(stack[n]), b, buffer[n], Top(n).length) :
                                b \in {a} \cap setting.range[n]}
       /\ Unheard(n, Len(stack[n]), {a})
  /\ UNCHANGED <<setting, rounds, buffer, statics, unsent, history>>

\* The loop, or a send, is over, and with it the handling of the packet.
Return(n) ==
  /\ ~ Idle(n) /\ ~ Waiting(n)
  /\ Top(n).kind = "send" \/ (Top(n).kind = "flood" /\ StillToCome(n) = {})
  /\ stack' = [stack EXCEPT ![n] = Popped(n)]
  /\ UNCHANGED <<setting, rounds, buffer, wire, unanswered, statics, unsent, history>>

-----------------------------------------------------------------------------
(* The main loop.                                                          *)

CountStopped(ttl) == ttl   \* mutant
CountDown(ttl) == IF ttl > 0 THEN ttl - 1 ELSE 0
Aged(entry) == [entry EXCEPT !.ttl = CountDown(@)]

\* The clocks of the nodes are at most a period apart, but for nodes that wait for ever.
IsDue(n) ==
  /\ rounds[n] < setting.rounds
  /\ \A m \in Node : rounds[n] <= rounds[m] \/ unanswered[m] # {}
  /\ setting.prompt => AtRest \/ \E m \in Node : rounds[n] < rounds[m]

\* net_update_routing() with a period gone by: lifetimes are counted down and a ping request is
\* broadcast.
net_update(n) ==
  /\ Idle(n) /\ IsDue(n)
  /\ rounds' = [rounds EXCEPT ![n] = @ + 1]
  /\ link_state_packets' = [link_state_packets EXCEPT ![n] = [a \in Node |-> Aged(@[a])]]
  /\ neighbour_links' = [neighbour_links EXCEPT ![n] = [a \in Node |-> CountDown(@[a])]]
  /\ SendTo(n, IF setting.pings THEN setting.range[n] ELSE {}, [type |-> "ping request"],
            wire, [kind |-> "update"])
  /\ UNCHANGED <<setting, sequence_number, unsent, history>>

NumberUnwrapped(n) == sequence_number[n] + 1   \* mutant
NumberKept(n) == sequence_number[n]            \* mutant
NextNumber(n) == (sequence_number[n] + 1) % Modulus

LinkState(n) ==
  [type |-> "link state", source |-> n, number |-> NextNumber(n),
   nodes |-> {a \in Node : neighbour_links[n][a] > 0},
   boot |-> boots[n].count, stamp |-> announced[n] + 1]

\* net_send_link_state_packet(), once the ping request was sent.
net_send_link_state_packet(n) ==
  /\ ~ Idle(n) /\ ~ Waiting(n) /\ Top(n).kind = "update"
  /\ buffer' = [buffer EXCEPT ![n] = LinkState(n)]
  /\ stack' = [stack EXCEPT ![n] =
       IF n \in setting.announcers THEN Append(Popped(n), Flood(LinkState(n), None)) ELSE Popped(n)]
  /\ sequence_number' = [sequence_number EXCEPT ![n] = NextNumber(n)]
  /\ announced' = [announced EXCEPT ![n] = @ + 1]
  /\ UNCHANGED <<setting, rounds, wire, unanswered, link_state_packets, neighbour_links, unsent,
                 boots, delivered>>

net_get_next_hop(n, destination) == setting.next_hops[n][destination]

\* Data too long for a packet, or for an address that no node can have, is not sent.
IsRefused(d) == d.length > MaxPayload \/ d.to > MaxAddress

\* Nor is data without a next hop.
net_send_data_packet(n) ==
  \E d \in unsent :
    /\ Idle(n) /\ d.from = n
    /\ unsent' = unsent \ {d}
    /\ IF IsRefused(d) \/ net_get_next_hop(n, d.to) = None
       THEN UNCHANGED <<stack, buffer, wire, unanswered>>
       ELSE SendTo(n, {net_get_next_hop(n, d.to)}, d, wire, Send)
    /\ UNCHANGED <<setting, rounds, statics, history>>

-----------------------------------------------------------------------------
(* net_handle_received_packet(), the callback for packets that arrive.     *)

\* The node polls, acknowledges a packet and is handed it.
Takes(n, m) == m.to = n /\ Polls(n) /\ m \in wire

IsLive(entry) == entry.ttl > 0

IsOther(number, previous) == number # previous   \* mutant
IsAny(number, previous) == TRUE                  \* mutant

\* A live entry takes a number that is up to half the circle ahead.
IsNewer(number, previous) == (number + Modulus - previous) % Modulus \in 1 .. Modulus \div 2

\* net_notify_link_state_packet() says that the packet is news.
IsNews(n, p) ==
  LET previous == link_state_packets[n][p.source]
  IN p.source # n /\ (IsLive(previous) => IsNewer(p.number, previous.number))

\* News is noted and flooded on.
AcceptLinkState(n, m) ==
  /\ Takes(n, m) /\ net_validate_packet(m) /\ m.packet.type = "link state"
  /\ IsNews(n, m.packet)
  /\ link_state_packets' = [link_state_packets EXCEPT ![n][m.packet.source] =
       [ttl |-> LinkStateTTL, number |-> m.packet.number,
        boot |-> m.packet.boot, stamp |-> m.packet.stamp]]
  /\ buffer' = [buffer EXCEPT ![n] = m.packet]
  /\ stack' = [stack EXCEPT ![n] = Append(@, Flood(m.packet, m.from))]
  /\ wire' = wire \ {m}
  /\ UNCHANGED <<setting, rounds, unanswered, sequence_number, neighbour_links, unsent, history>>

AnswerPing(n, m) ==
  /\ Takes(n, m) /\ net_validate_packet(m) /\ m.packet.type = "ping request"
  /\ SendTo(n, {m.from}, [type |-> "ping response", source |-> n], wire \ {m}, Send)
  /\ UNCHANGED <<setting, rounds, statics, unsent, history>>

net_notify_ping_response(n, m) ==
  /\ Takes(n, m) /\ net_validate_packet(m) /\ m.packet.type = "ping response"
  /\ neighbour_links' = [neighbour_links EXCEPT ![n][m.packet.source] = NeighbourTTL]
  /\ wire' = wire \ {m}
  /\ UNCHANGED <<setting, rounds, stack, buffer, unanswered, sequence_number, link_state_packets,
                 unsent, history>>

ForwardData(n, m) ==
  /\ Takes(n, m) /\ net_validate_packet(m) /\ m.packet.type = "data"
  /\ m.packet.to # n /\ net_get_next_hop(n, m.packet.to) # None
  /\ SendTo(n, {net_get_next_hop(n, m.packet.to)}, m.packet, wire \ {m}, Send)
  /\ UNCHANGED <<setting, rounds, statics, unsent, history>>

DeliverData(n, m) ==
  /\ Takes(n, m) /\ net_validate_packet(m) /\ m.packet.type = "data"
  /\ m.packet.to = n
  /\ delivered' = Append(delivered, m.packet)
  /\ wire' = wire \ {m}
  /\ UNCHANGED <<setting, rounds, stack, buffer, unanswered, statics, unsent, boots, announced>>

\* A packet that is invalid, is no news or has no route is forgotten.
Ignore(n, m) ==
  /\ Takes(n, m)
  /\ \/ ~ net_validate_packet(m)
     \/ m.packet.type = "link state" /\ ~ IsNews(n, m.packet)
     \/ m.packet.type = "data" /\ m.packet.to # n /\ net_get_next_hop(n, m.packet.to) = None
  /\ wire' = wire \ {m}
  /\ UNCHANGED <<setting, rounds, stack, buffer, unanswered, statics, unsent, history>>

net_handle_received_packet(n, m) ==
  \/ AcceptLinkState(n, m) \/ AnswerPing(n, m) \/ net_notify_ping_response(n, m)
  \/ ForwardData(n, m) \/ DeliverData(n, m) \/ Ignore(n, m)

-----------------------------------------------------------------------------
(* Faults.                                                                 *)

\* A frame is lost, or the acknowledgement that it will get: the send waits for ever.
Lose(m) ==
  /\ setting.lossy /\ m \in wire
  /\ wire' \in {wire, wire \ {m}}
  /\ unanswered' = [unanswered EXCEPT ![m.from] = @ \cup {m.level}]
  /\ UNCHANGED <<setting, rounds, stack, buffer, statics, unsent, history>>

\* The levels of the sends of n whose packets are among those lost.
Lost(n, packets) == {m.level : m \in {l \in packets : l.from = n}}

\* A node loses all it knows; a packet on its way to it may be lost with it.
Restart(n) ==
  /\ n \in setting.restarting /\ boots[n].count = 0
  /\ boots' = [boots EXCEPT ![n] = [count |-> 1, round |-> rounds[n]]]
  /\ stack' = [stack EXCEPT ![n] = <<>>]
  /\ buffer' = [buffer EXCEPT ![n] = None]
  /\ sequence_number' = [sequence_number EXCEPT ![n] = 0]
  /\ link_state_packets' = [link_state_packets EXCEPT ![n] = NothingHeard]
  /\ neighbour_links' = [neighbour_links EXCEPT ![n] = NoNeighbours]
  /\ announced' = [announced EXCEPT ![n] = 0]
  /\ \E lost \in SUBSET {m \in wire : m.to = n} :
       /\ wire' = {m \in wire : m.from # n /\ m \notin lost}
       /\ unanswered' = [k \in Node |-> IF k = n THEN {} ELSE unanswered[k] \cup Lost(k, lost)]
  /\ UNCHANGED <<setting, rounds, unsent, delivered>>

\* What the thread of node n does: it goes on with its sends, it is handed a packet, or its
\* main loop starts something.
GoOn(n) == SendToNext(n) \/ Return(n) \/ net_send_link_state_packet(n)
Receive(n) == \E m \in wire : net_handle_received_packet(n, m)
Begin(n) == net_update(n) \/ net_send_data_packet(n)

Next == \/ \E n \in Node : GoOn(n) \/ Receive(n) \/ Begin(n) \/ Restart(n)
        \/ \E m \in wire : Lose(m)

Spec == Init /\ [][Next]_vars

-----------------------------------------------------------------------------
IsData(p) == p \in setting.data /\ ~ IsRefused(p)
IsLinkState(p) == /\ p.type = "link state" /\ p.source \in Node /\ p.number \in 0 .. Modulus - 1
                  /\ p.nodes \subseteq Node \ {p.source}
                  /\ p.boot <= boots[p.source].count /\ p.stamp \in Nat
IsPing(p) == p.type = "ping request" \/ (p.type = "ping response" /\ p.source \in Node)
IsPacket(p) == IsPing(p) \/ IsLinkState(p) \/ IsData(p)

\* The types of the variables; what is on the wire, and was not refused by
\* net_send_data_packet(), belongs to an activation of its sender, as do sends without an answer.
TypeOK ==
  /\ \A n \in Node :
       /\ buffer[n] = None \/ IsPacket(buffer[n])
       /\ \A i \in DOMAIN stack[n] :
            \/ stack[n][i].kind \in {"update", "send"}
            \/ /\ stack[n][i].kind = "flood" /\ IsLinkState(stack[n][i].packet)
               /\ stack[n][i].next \in 0 .. MaxAddress
       /\ \A a \in Node : /\ link_state_packets[n][a].ttl \in 0 .. LinkStateTTL
                          /\ link_state_packets[n][a].number \in 0 .. Modulus - 1
  /\ \A m \in wire : IsPacket(m.packet) /\ m.to # m.from /\ m.level \in DOMAIN stack[m.from]
  /\ \A n \in Node : unanswered[n] \subseteq DOMAIN stack[n]
  /\ sequence_number \in [Node -> 0 .. Modulus - 1]
  /\ neighbour_links \in [Node -> [Node -> 0 .. NeighbourTTL]]
  /\ unsent \subseteq setting.data

\* A live entry is replaced by a later announcement only, whatever ways the floods take and
\* however often the numbers of net_notify_link_state_packet() have gone round, as long as a
\* flood is delayed by less than half the circle; of a source that restarted nothing is said.
NewestWins ==
  [][\A n \in Node : \A m \in wire : AcceptLinkState(n, m) =>
       LET old == link_state_packets[n][m.packet.source]
       IN IsLive(old) /\ old.boot = m.packet.boot => m.packet.stamp > old.stamp]_vars

\* A flood that net_handle_received_packet() starts inside another of the same source is of a
\* later announcement: floods that come back round a circle do not pile up on the call stack.
NestedFloodsAreLater ==
  \A n \in Node : \A i, j \in DOMAIN stack[n] :
    LET outer == stack[n][i]
        inner == stack[n][j]
    IN (/\ i < j /\ outer.kind = "flood" /\ inner.kind = "flood"
        /\ outer.packet.source = inner.packet.source /\ outer.packet.boot = inner.packet.boot)
         => outer.packet.stamp < inner.packet.stamp

\* Between two periods every packet was handled.
Quiet == AtRest /\ \A n, m \in Node : rounds[n] = rounds[m]

\* n has the last announcement of a.
Knows(n, a) ==
  LET entry == link_state_packets[n][a]
  IN IsLive(entry) /\ entry.boot = boots[a].count /\ entry.stamp = announced[a]

Reliable == ~ setting.lossy /\ setting.restarting = {}

\* The last announcement of every node has reached the entire network.
FloodsReach ==
  Quiet /\ Reliable => \A a \in setting.announcers : \A n \in Node \ {a} :
    announced[a] > 0 => Knows(n, a)

\* A flood reaches the entire network if no other packet is sent meanwhile: the loops of
\* net_send_link_state_packet() and net_handle_received_packet() then send what they mean to.
UndisturbedFloodsReach ==
  Cardinality(setting.announcers) = 1 /\ setting.data = {} /\ ~ setting.pings => FloodsReach

\* A node that restarted, and numbers its announcements from 1 again, is refused no longer than
\* its old entry lives: then its neighbours have its last announcement.
HeardAgain ==
  Quiet /\ ~ setting.lossy /\ setting.prompt =>
    \A a \in setting.announcers : \A n \in setting.range[a] :
      boots[a].count > 0 /\ rounds[a] > boots[a].round + LinkStateTTL => Knows(n, a)

\* The next hops lead from a node to the destination, over nodes in range.
LeadsTo(n, destination) ==
  \E hops \in 1 .. Cardinality(Node) : \E path \in [0 .. hops -> Node] :
    /\ path[0] = n /\ path[hops] = destination
    /\ \A i \in 1 .. hops : /\ path[i] = setting.next_hops[path[i - 1]][destination]
                           /\ path[i] \in setting.range[path[i - 1]]

Deliveries(d) == Cardinality({i \in DOMAIN delivered : delivered[i] = d})

\* Data that net_send_data_packet() does not refuse, sent along hops that lead to its destination,
\* is given to the receive callback there, whatever is written to the transmit buffers meanwhile;
\* and once only if it is longer than link states are: the loop of a flood that was overwritten by
\* data of its own length sends that data again.
DataArrives ==
  Quiet /\ Reliable => \A d \in setting.data \ unsent :
    ~ IsRefused(d) /\ LeadsTo(d.from, d.to) =>
      Deliveries(d) >= 1 /\ (d.length > Cardinality(Node) => Deliveries(d) = 1)
=============================================================================
