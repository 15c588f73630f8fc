--------------------------- MODULE RoutingProofs ---------------------------
(***************************************************************************)
(* Proofs about the routing tables, for every number of addresses, every   *)
(* set of packets that may arrive and all lifetimes, periods and lags.     *)
(***************************************************************************)
EXTENDS Routing, ShortestPathProofs

LinkStateEntry == [sequence_number : 0 .. Modulus - 1, seconds_to_live : 0 .. LinkStateTTL,
                   connected_addresses : SUBSET Address]
NeighbourEntry == [physical_address : PhysAddress, seconds_to_live : 0 .. NeighbourTTL]

\* The age and the remaining life of a live entry add up to its time to live, but for
\* the seconds the update is behind now and was behind when the entry was refreshed.
AgesFit(table, ages, ttl) ==
  \A a \in Address :
    IF IsLive(table[a])
      THEN /\ ages[a] + table[a].seconds_to_live <= ttl + lag
           /\ ages[a] + table[a].seconds_to_live >= ttl + lag - MaxLag
      ELSE ages[a] = 0

IInv ==
  /\ TypeOK
  /\ OwnLinksAreLive
  /\ link_state_packets[OwnAddress].seconds_to_live = 0
  /\ AgesFit(link_state_packets, link_state_ages, LinkStateTTL)
  /\ AgesFit(neighbour_links, neighbour_ages, NeighbourTTL)

-----------------------------------------------------------------------------
\* The constants, typed.
LEMMA ConstantsTyped ==
  /\ MaxAddress \in Nat /\ OwnAddress \in Address /\ Address \subseteq Nat
  /\ LinkStateTTL \in Nat \ {0} /\ NeighbourTTL \in Nat \ {0} /\ Period \in Nat \ {0}
  /\ Modulus \in Nat \ {0} /\ MaxLag \in Nat /\ Oldest \in Nat
  /\ LinkStateTTL < Modulus /\ NeighbourTTL < Modulus /\ Period < Modulus
  /\ RoutedDestinations \subseteq Address /\ 0 \in PhysAddress
  BY AddressAssumption, RoutingAssumption DEF Address, Oldest, RoutedDestinations

\* A uint8_t of a number of seconds.
LEMMA Remainder ==
  ASSUME NEW n \in Nat, NEW m \in Nat \ {0}
  PROVE  n % m \in 0 .. m - 1 /\ n % m <= n
  OBVIOUS

\* What TypeOK says of an entry, field by field.
LEMMA EntriesTyped ==
  ASSUME TypeOK
  PROVE  /\ link_state_packets \in [Address -> LinkStateEntry]
         /\ neighbour_links \in [Address -> NeighbourEntry]
         /\ \A a \in Address :
              /\ link_state_packets[a].sequence_number \in 0 .. Modulus - 1
              /\ link_state_packets[a].seconds_to_live \in Nat
              /\ link_state_packets[a].seconds_to_live <= LinkStateTTL
              /\ link_state_packets[a].connected_addresses \subseteq Address
              /\ neighbour_links[a].physical_address \in PhysAddress
              /\ neighbour_links[a].seconds_to_live \in Nat
              /\ neighbour_links[a].seconds_to_live <= NeighbourTTL
<1>1. /\ link_state_packets \in [Address -> LinkStateEntry]
      /\ neighbour_links \in [Address -> NeighbourEntry]
  BY DEF TypeOK, LinkStateEntry, NeighbourEntry
<1>2. LinkStateTTL \in Nat /\ NeighbourTTL \in Nat
  BY ConstantsTyped
<1>3. \A e \in LinkStateEntry :
        /\ e.sequence_number \in 0 .. Modulus - 1
        /\ e.seconds_to_live \in Nat /\ e.seconds_to_live <= LinkStateTTL
        /\ e.connected_addresses \subseteq Address
  BY <1>2 DEF LinkStateEntry
<1>4. \A e \in NeighbourEntry :
        /\ e.physical_address \in PhysAddress
        /\ e.seconds_to_live \in Nat /\ e.seconds_to_live <= NeighbourTTL
  BY <1>2 DEF NeighbourEntry
<1>. QED  BY <1>1, <1>3, <1>4

\* Counting down the link states: lifetimes shrink, nothing else changes.
LEMMA LinkStatesCountDown ==
  ASSUME TypeOK, NEW e \in Nat
  PROVE  /\ CountDown(link_state_packets, e) \in [Address -> LinkStateEntry]
         /\ \A a \in Address :
              /\ CountDown(link_state_packets, e)[a].connected_addresses
                   = link_state_packets[a].connected_addresses
              /\ CountDown(link_state_packets, e)[a].seconds_to_live
                   = IF link_state_packets[a].seconds_to_live > e
                       THEN link_state_packets[a].seconds_to_live - e ELSE 0
<1>1. LinkStateTTL \in Nat
  BY ConstantsTyped
<1>2. \A x \in LinkStateEntry :
        LET y == [x EXCEPT !.seconds_to_live = IF @ > e THEN @ - e ELSE 0]
        IN  /\ y \in LinkStateEntry
            /\ y.connected_addresses = x.connected_addresses
            /\ y.seconds_to_live = IF x.seconds_to_live > e THEN x.seconds_to_live - e ELSE 0
  BY <1>1 DEF LinkStateEntry
<1>. QED  BY <1>2, EntriesTyped DEF CountDown

\* The same for the neighbours.
LEMMA NeighboursCountDown ==
  ASSUME TypeOK, NEW e \in Nat
  PROVE  /\ CountDown(neighbour_links, e) \in [Address -> NeighbourEntry]
         /\ \A a \in Address :
              CountDown(neighbour_links, e)[a].seconds_to_live
                = IF neighbour_links[a].seconds_to_live > e
                    THEN neighbour_links[a].seconds_to_live - e ELSE 0
<1>1. NeighbourTTL \in Nat
  BY ConstantsTyped
<1>2. \A x \in NeighbourEntry :
        LET y == [x EXCEPT !.seconds_to_live = IF @ > e THEN @ - e ELSE 0]
        IN  /\ y \in NeighbourEntry
            /\ y.seconds_to_live = IF x.seconds_to_live > e THEN x.seconds_to_live - e ELSE 0
  BY <1>1 DEF NeighbourEntry
<1>. QED  BY <1>2, EntriesTyped DEF CountDown

\* Taking links off this node's entry leaves the table typed and all lifetimes alone.
LEMMA UnlinkEffect ==
  ASSUME NEW t \in [Address -> LinkStateEntry], NEW gone
  PROVE  /\ Unlink(t, gone) \in [Address -> LinkStateEntry]
         /\ Unlink(t, gone)[OwnAddress].connected_addresses
              = t[OwnAddress].connected_addresses \ gone
         /\ \A a \in Address :
              /\ Unlink(t, gone)[a].seconds_to_live = t[a].seconds_to_live
              /\ Unlink(t, gone)[a].connected_addresses \subseteq t[a].connected_addresses
<1>1. OwnAddress \in Address
  BY ConstantsTyped
<1>2. \A x \in LinkStateEntry :
        LET y == [x EXCEPT !.connected_addresses = @ \ gone]
        IN  /\ y \in LinkStateEntry
            /\ y.connected_addresses = x.connected_addresses \ gone
            /\ y.seconds_to_live = x.seconds_to_live
  BY DEF LinkStateEntry
<1>. QED  BY <1>1, <1>2 DEF Unlink

\* The recalculated next hops are bus addresses of neighbours, or Broadcast.
LEMMA HopsTyped ==
  ASSUME NEW g, NEW links \in [Address -> NeighbourEntry],
         NEW hops \in [Address -> PhysAddress \cup {Broadcast}]
  PROVE  RecalculatedHops(g, links, hops) \in [Address -> PhysAddress \cup {Broadcast}]
<1>1. Routes(g) \in RouteTable
  BY RoutesType
<1>2. \A d \in Address : FirstHop(Routes(g), d) \in Address
  BY <1>1, FirstHopType
<1>3. \A n \in Address : links[n].physical_address \in PhysAddress
  BY DEF NeighbourEntry
<1>. QED  BY <1>2, <1>3, ConstantsTyped DEF RecalculatedHops

-----------------------------------------------------------------------------
LEMMA InitIInv == Init => IInv
<1>1. SUFFICES ASSUME Init PROVE IInv
  OBVIOUS
<1>2. TypeOK
  <2>1. /\ link_state_packets \in [Address -> LinkStateEntry]
        /\ neighbour_links \in [Address -> NeighbourEntry]
    BY <1>1, ConstantsTyped DEF Init, LinkStateEntry, NeighbourEntry
  <2>2. \A a \in Address : link_state_ages[a] = 0 /\ neighbour_ages[a] = 0 /\ 0 \in 0 .. Oldest
    BY <1>1, ConstantsTyped DEF Init
  <2>. QED
    BY <1>1, <2>1, <2>2, ConstantsTyped DEF Init, TypeOK, LinkStateEntry, NeighbourEntry
<1>3. /\ \A a \in Address : ~ IsLive(link_state_packets[a]) /\ ~ IsLive(neighbour_links[a])
      /\ \A a \in Address : link_state_packets[a].connected_addresses = {}
      /\ link_state_packets[OwnAddress].seconds_to_live = 0
      /\ \A a \in Address : link_state_ages[a] = 0 /\ neighbour_ages[a] = 0
  BY <1>1, ConstantsTyped DEF Init, IsLive
<1>4. OwnLinksAreLive
  BY <1>3, ConstantsTyped DEF OwnLinksAreLive
<1>5. AgesFit(link_state_packets, link_state_ages, LinkStateTTL)
  BY <1>3 DEF AgesFit
<1>6. AgesFit(neighbour_links, neighbour_ages, NeighbourTTL)
  BY <1>3 DEF AgesFit
<1>. QED  BY <1>2, <1>3, <1>4, <1>5, <1>6 DEF IInv

\* A second of ageing, for either table.
LEMMA OlderFits ==
  ASSUME NEW table, NEW ages \in [Address -> 0 .. Oldest], NEW ttl \in Nat, ttl < Modulus,
         \A a \in Address : table[a].seconds_to_live \in Nat,
         lag \in Nat, lag < MaxLag, AgesFit(table, ages, ttl)
  PROVE  /\ Older(ages, table) \in [Address -> 0 .. Oldest]
         /\ \A a \in Address :
              IF IsLive(table[a]) THEN Older(ages, table)[a] = ages[a] + 1
                                  ELSE Older(ages, table)[a] = 0
<1>1. Oldest \in Nat /\ Oldest = Modulus + MaxLag /\ Modulus \in Nat /\ MaxLag \in Nat
  BY ConstantsTyped DEF Oldest
<1>2. ASSUME NEW a \in Address, IsLive(table[a])
      PROVE  ages[a] < Oldest
  <2>1. ages[a] + table[a].seconds_to_live <= ttl + lag
    BY <1>2 DEF AgesFit
  <2>. QED  BY <1>1, <1>2, <2>1 DEF IsLive
<1>. QED  BY <1>1, <1>2 DEF Older

LEMMA TickIInv == IInv /\ Tick => IInv'
<1>1. SUFFICES ASSUME IInv, Tick PROVE IInv'
  OBVIOUS
<1>2. lag \in Nat /\ lag < MaxLag /\ lag' = lag + 1 /\ lag' \in 0 .. MaxLag
  BY <1>1, ConstantsTyped DEF IInv, TypeOK, Tick
<1>3. \A a \in Address : /\ link_state_packets[a].seconds_to_live \in Nat
                          /\ neighbour_links[a].seconds_to_live \in Nat
  BY <1>1, EntriesTyped DEF IInv
<1>4. /\ link_state_ages \in [Address -> 0 .. Oldest]
      /\ neighbour_ages \in [Address -> 0 .. Oldest]
      /\ AgesFit(link_state_packets, link_state_ages, LinkStateTTL)
      /\ AgesFit(neighbour_links, neighbour_ages, NeighbourTTL)
  BY <1>1 DEF IInv, TypeOK
<1>5. /\ link_state_ages' \in [Address -> 0 .. Oldest]
      /\ \A a \in Address :
           IF IsLive(link_state_packets[a]) THEN link_state_ages'[a] = link_state_ages[a] + 1
                                            ELSE link_state_ages'[a] = 0
  BY <1>1, <1>2, <1>3, <1>4, ConstantsTyped, OlderFits DEF Tick
<1>6. /\ neighbour_ages' \in [Address -> 0 .. Oldest]
      /\ \A a \in Address :
           IF IsLive(neighbour_links[a]) THEN neighbour_ages'[a] = neighbour_ages[a] + 1
                                         ELSE neighbour_ages'[a] = 0
  BY <1>1, <1>2, <1>3, <1>4, ConstantsTyped, OlderFits DEF Tick
<1>7. UNCHANGED <<tables, sending>>
  BY <1>1 DEF Tick
<1>8. TypeOK'
  BY <1>1, <1>2, <1>5, <1>6, <1>7 DEF IInv, TypeOK, tables
<1>9. OwnLinksAreLive' /\ link_state_packets'[OwnAddress].seconds_to_live = 0
  BY <1>1, <1>7 DEF IInv, OwnLinksAreLive, tables
<1>10. AgesFit(link_state_packets, link_state_ages, LinkStateTTL)'
  BY <1>2, <1>3, <1>4, <1>5, <1>7, ConstantsTyped DEF AgesFit, tables
<1>11. AgesFit(neighbour_links, neighbour_ages, NeighbourTTL)'
  BY <1>2, <1>3, <1>4, <1>6, <1>7, ConstantsTyped DEF AgesFit, tables
<1>. QED  BY <1>8, <1>9, <1>10, <1>11 DEF IInv

LEMMA SendsReturnIInv == IInv /\ SendsReturn => IInv'
  BY DEF IInv, SendsReturn, TypeOK, OwnLinksAreLive, AgesFit, tables

LEMMA LinkStateIInv ==
  ASSUME IInv, NEW p \in LinkStatesHeard, net_notify_link_state_packet(p)
  PROVE  IInv'
<1>. DEFINE entry == [sequence_number |-> p.sequence_number, seconds_to_live |-> LinkStateTTL,
                      connected_addresses |-> p.nodes \cap Address]
<1>1. /\ p.source \in Address /\ p.source # OwnAddress
      /\ link_state_packets' = [link_state_packets EXCEPT ![p.source] = entry]
      /\ link_state_ages' = [link_state_ages EXCEPT ![p.source] = 0]
      /\ is_graph_changed' \in BOOLEAN
      /\ UNCHANGED <<neighbour_links, next_hops, seconds_counter, lag, sending, neighbour_ages>>
  BY DEF net_notify_link_state_packet, IInv, TypeOK
<1>2. entry \in LinkStateEntry /\ entry.seconds_to_live = LinkStateTTL
  BY RoutingAssumption, ConstantsTyped DEF LinkStateEntry
<1>. HIDE DEF entry
<1>3. link_state_packets' \in [Address -> LinkStateEntry]
  BY <1>1, <1>2, EntriesTyped DEF IInv
<1>4. link_state_ages' \in [Address -> 0 .. Oldest]
  BY <1>1, ConstantsTyped DEF IInv, TypeOK
<1>5. TypeOK'
  BY <1>1, <1>3, <1>4 DEF IInv, TypeOK, LinkStateEntry
<1>6. OwnLinksAreLive' /\ link_state_packets'[OwnAddress].seconds_to_live = 0
  <2>1. link_state_packets'[OwnAddress] = link_state_packets[OwnAddress]
    BY <1>1, ConstantsTyped, EntriesTyped DEF IInv
  <2>. QED  BY <1>1, <2>1 DEF IInv, OwnLinksAreLive
<1>7. AgesFit(link_state_packets, link_state_ages, LinkStateTTL)'
  <2>1. SUFFICES ASSUME NEW a \in Address
                 PROVE  IF IsLive(link_state_packets'[a])
                          THEN /\ link_state_ages'[a] + link_state_packets'[a].seconds_to_live
                                    <= LinkStateTTL + lag
                               /\ link_state_ages'[a] + link_state_packets'[a].seconds_to_live
                                    >= LinkStateTTL + lag - MaxLag
                          ELSE link_state_ages'[a] = 0
    BY <1>1 DEF AgesFit
  <2>2. CASE a = p.source
    <3>1. link_state_packets'[a].seconds_to_live = LinkStateTTL /\ link_state_ages'[a] = 0
      BY <1>1, <1>2, <2>2, EntriesTyped DEF IInv, TypeOK
    <3>2. lag \in 0 .. MaxLag
      BY DEF IInv, TypeOK
    <3>. QED  BY <3>1, <3>2, ConstantsTyped
  <2>3. CASE a # p.source
    <3>1. /\ link_state_packets'[a] = link_state_packets[a]
          /\ link_state_ages'[a] = link_state_ages[a]
      BY <1>1, <2>3, EntriesTyped DEF IInv, TypeOK
    <3>. QED  BY <3>1 DEF IInv, AgesFit
  <2>. QED  BY <2>2, <2>3
<1>8. AgesFit(neighbour_links, neighbour_ages, NeighbourTTL)'
  BY <1>1 DEF IInv, AgesFit
<1>. QED  BY <1>5, <1>6, <1>7, <1>8 DEF IInv

LEMMA PingResponseIInv ==
  ASSUME IInv, NEW p \in PingResponsesHeard, net_notify_ping_response(p[1], p[2])
  PROVE  IInv'
<1>. DEFINE n == p[2]
            entry == [physical_address |-> p[1], seconds_to_live |-> NeighbourTTL]
<1>1. /\ n \in Address
      /\ neighbour_links' = [neighbour_links EXCEPT ![n] = entry]
      /\ link_state_packets' =
           [link_state_packets EXCEPT ![OwnAddress].connected_addresses = @ \cup {n}]
      /\ neighbour_ages' = [neighbour_ages EXCEPT ![n] = 0]
      /\ is_graph_changed' \in BOOLEAN
      /\ UNCHANGED <<next_hops, seconds_counter, lag, sending, link_state_ages>>
  BY DEF net_notify_ping_response, IInv, TypeOK
<1>2. entry \in NeighbourEntry /\ entry.seconds_to_live = NeighbourTTL
  BY RoutingAssumption, ConstantsTyped DEF NeighbourEntry
<1>. HIDE DEF entry, n
<1>3. /\ neighbour_links' \in [Address -> NeighbourEntry]
      /\ neighbour_ages' \in [Address -> 0 .. Oldest]
      /\ neighbour_links'[n].seconds_to_live = NeighbourTTL
      /\ \A a \in Address \ {n} : neighbour_links'[a] = neighbour_links[a]
  BY <1>1, <1>2, EntriesTyped, ConstantsTyped DEF IInv, TypeOK
<1>4. /\ link_state_packets' \in [Address -> LinkStateEntry]
      /\ link_state_packets'[OwnAddress].connected_addresses
           = link_state_packets[OwnAddress].connected_addresses \cup {n}
      /\ \A a \in Address :
           link_state_packets'[a].seconds_to_live = link_state_packets[a].seconds_to_live
  <2>1. \A x \in LinkStateEntry :
          LET y == [x EXCEPT !.connected_addresses = @ \cup {n}]
          IN  /\ y \in LinkStateEntry
              /\ y.connected_addresses = x.connected_addresses \cup {n}
              /\ y.seconds_to_live = x.seconds_to_live
    BY <1>1 DEF LinkStateEntry
  <2>. QED  BY <1>1, <2>1, ConstantsTyped, EntriesTyped DEF IInv
<1>5. TypeOK'
  BY <1>1, <1>3, <1>4 DEF IInv, TypeOK, LinkStateEntry, NeighbourEntry
<1>6. OwnLinksAreLive'
  BY <1>3, <1>4, ConstantsTyped DEF IInv, OwnLinksAreLive, IsLive
<1>7. link_state_packets'[OwnAddress].seconds_to_live = 0
  BY <1>4, ConstantsTyped DEF IInv
<1>8. AgesFit(link_state_packets, link_state_ages, LinkStateTTL)'
  BY <1>1, <1>4 DEF IInv, AgesFit, IsLive
<1>9. AgesFit(neighbour_links, neighbour_ages, NeighbourTTL)'
  <2>1. SUFFICES ASSUME NEW a \in Address
                 PROVE  IF IsLive(neighbour_links'[a])
                          THEN /\ neighbour_ages'[a] + neighbour_links'[a].seconds_to_live
                                    <= NeighbourTTL + lag
                               /\ neighbour_ages'[a] + neighbour_links'[a].seconds_to_live
                                    >= NeighbourTTL + lag - MaxLag
                          ELSE neighbour_ages'[a] = 0
    BY <1>1 DEF AgesFit
  <2>2. CASE a = n
    <3>1. neighbour_ages'[a] = 0 /\ lag \in 0 .. MaxLag
      BY <1>1, <2>2 DEF IInv, TypeOK
    <3>. QED  BY <1>3, <2>2, <3>1, ConstantsTyped
  <2>3. CASE a # n
    <3>1. neighbour_ages'[a] = neighbour_ages[a]
      BY <1>1, <2>3 DEF IInv, TypeOK
    <3>. QED  BY <1>3, <2>3, <3>1 DEF IInv, AgesFit
  <2>. QED  BY <2>2, <2>3
<1>. QED  BY <1>5, <1>6, <1>7, <1>8, <1>9 DEF IInv

\* What net_update_routing() does to lifetimes and ages, e being the elapsed seconds.
LEMMA UpdateEffect ==
  ASSUME IInv, net_update_routing
  PROVE  \E e \in Nat :
    /\ e = lag % Modulus /\ e <= lag /\ lag' = lag - e
    /\ link_state_packets' \in [Address -> LinkStateEntry]
    /\ neighbour_links' \in [Address -> NeighbourEntry]
    /\ link_state_packets'[OwnAddress].connected_addresses
         = link_state_packets[OwnAddress].connected_addresses \ TimedOut(neighbour_links, e)
    /\ \A a \in Address :
         /\ link_state_packets'[a].connected_addresses \subseteq link_state_packets[a].connected_addresses
         /\ link_state_packets'[a].seconds_to_live
              = IF link_state_packets[a].seconds_to_live > e
                  THEN link_state_packets[a].seconds_to_live - e ELSE 0
         /\ neighbour_links'[a].seconds_to_live
              = IF neighbour_links[a].seconds_to_live > e
                  THEN neighbour_links[a].seconds_to_live - e ELSE 0
         /\ link_state_ages'[a]
              = IF a \in TimedOut(link_state_packets, e) THEN 0 ELSE link_state_ages[a]
         /\ neighbour_ages'[a]
              = IF a \in TimedOut(neighbour_links, e) THEN 0 ELSE neighbour_ages[a]
<1>. DEFINE e == lag % Modulus
            gone == TimedOut(neighbour_links, e)
<1>1. lag \in Nat /\ e \in Nat /\ e <= lag
  <2>1. lag \in Nat /\ Modulus \in Nat \ {0}
    BY ConstantsTyped DEF IInv, TypeOK
  <2>. QED  BY <2>1, Remainder
<1>2. /\ lag' = lag - e
      /\ link_state_packets' = Unlink(CountDown(link_state_packets, e), gone)
      /\ neighbour_links' = CountDown(neighbour_links, e)
      /\ \A a \in Address :
           /\ link_state_ages'[a]
                = IF a \in TimedOut(link_state_packets, e) THEN 0 ELSE link_state_ages[a]
           /\ neighbour_ages'[a] = IF a \in gone THEN 0 ELSE neighbour_ages[a]
  <2>1. /\ lag' = lag - e
        /\ link_state_packets' = Unlink(CountDown(link_state_packets, e), gone)
        /\ neighbour_links' = CountDown(neighbour_links, e)
    BY Zenon DEF net_update_routing
  <2>2. /\ link_state_ages'
             = [a \in Address |-> IF a \in TimedOut(link_state_packets, e) THEN 0 ELSE link_state_ages[a]]
        /\ neighbour_ages' = [a \in Address |-> IF a \in gone THEN 0 ELSE neighbour_ages[a]]
    BY Zenon DEF net_update_routing
  <2>. QED  BY <2>1, <2>2
<1>. HIDE DEF e, gone
<1>3. TypeOK /\ OwnAddress \in Address
  BY ConstantsTyped DEF IInv
<1>4. /\ CountDown(link_state_packets, e) \in [Address -> LinkStateEntry]
      /\ \A a \in Address :
           /\ CountDown(link_state_packets, e)[a].connected_addresses
                = link_state_packets[a].connected_addresses
           /\ CountDown(link_state_packets, e)[a].seconds_to_live
                = IF link_state_packets[a].seconds_to_live > e
                    THEN link_state_packets[a].seconds_to_live - e ELSE 0
  BY <1>1, <1>3, LinkStatesCountDown
<1>5. /\ neighbour_links' \in [Address -> NeighbourEntry]
      /\ \A a \in Address :
           neighbour_links'[a].seconds_to_live
             = IF neighbour_links[a].seconds_to_live > e
                 THEN neighbour_links[a].seconds_to_live - e ELSE 0
  BY <1>1, <1>2, <1>3, NeighboursCountDown
<1>6. /\ link_state_packets' \in [Address -> LinkStateEntry]
      /\ link_state_packets'[OwnAddress].connected_addresses
           = link_state_packets[OwnAddress].connected_addresses \ gone
      /\ \A a \in Address :
           /\ link_state_packets'[a].seconds_to_live
                = CountDown(link_state_packets, e)[a].seconds_to_live
           /\ link_state_packets'[a].connected_addresses
                \subseteq CountDown(link_state_packets, e)[a].connected_addresses
  BY <1>2, <1>3, <1>4, UnlinkEffect
<1>7. e = lag % Modulus /\ gone = TimedOut(neighbour_links, e)
  BY DEF e, gone
<1>. QED  BY <1>1, <1>2, <1>4, <1>5, <1>6, <1>7

LEMMA UpdateIInv == IInv /\ net_update_routing => IInv'
<1>1. SUFFICES ASSUME IInv, net_update_routing PROVE IInv'
  OBVIOUS
<1>2. PICK e \in Nat :
    /\ e = lag % Modulus /\ e <= lag /\ lag' = lag - e
    /\ link_state_packets' \in [Address -> LinkStateEntry]
    /\ neighbour_links' \in [Address -> NeighbourEntry]
    /\ link_state_packets'[OwnAddress].connected_addresses
         = link_state_packets[OwnAddress].connected_addresses \ TimedOut(neighbour_links, e)
    /\ \A a \in Address :
         /\ link_state_packets'[a].seconds_to_live
              = IF link_state_packets[a].seconds_to_live > e
                  THEN link_state_packets[a].seconds_to_live - e ELSE 0
         /\ neighbour_links'[a].seconds_to_live
              = IF neighbour_links[a].seconds_to_live > e
                  THEN neighbour_links[a].seconds_to_live - e ELSE 0
         /\ link_state_ages'[a]
              = IF a \in TimedOut(link_state_packets, e) THEN 0 ELSE link_state_ages[a]
         /\ neighbour_ages'[a]
              = IF a \in TimedOut(neighbour_links, e) THEN 0 ELSE neighbour_ages[a]
  BY <1>1, UpdateEffect
<1>3. /\ lag \in Nat /\ lag <= MaxLag /\ OwnAddress \in Address
      /\ \A a \in Address : /\ link_state_packets[a].seconds_to_live \in Nat
                            /\ neighbour_links[a].seconds_to_live \in Nat
                            /\ link_state_ages[a] \in 0 .. Oldest
                            /\ neighbour_ages[a] \in 0 .. Oldest
  BY <1>1, ConstantsTyped, EntriesTyped DEF IInv, TypeOK
<1>4. TypeOK'
  <2>1. link_state_ages' \in [Address -> 0 .. Oldest] /\ neighbour_ages' \in [Address -> 0 .. Oldest]
    <3>. DEFINE Reset(ages, old) == [a \in Address |-> IF a \in old THEN 0 ELSE ages[a]]
    <3>1. /\ link_state_ages' = Reset(link_state_ages, TimedOut(link_state_packets, lag % Modulus))
          /\ neighbour_ages' = Reset(neighbour_ages, TimedOut(neighbour_links, lag % Modulus))
      BY <1>1, Zenon DEF net_update_routing
    <3>2. \A old : \A ages \in [Address -> 0 .. Oldest] : Reset(ages, old) \in [Address -> 0 .. Oldest]
      BY ConstantsTyped
    <3>. HIDE DEF Reset
    <3>. QED  BY <1>1, <3>1, <3>2 DEF IInv, TypeOK
  <2>2. seconds_counter' \in 0 .. Modulus - 1
    <3>1. seconds_counter \in Nat /\ seconds_counter + e \in Nat /\ Modulus \in Nat \ {0}
      BY <1>1, ConstantsTyped DEF IInv, TypeOK
    <3>2. CountedSeconds(seconds_counter, lag % Modulus) \in 0 .. Modulus - 1
      BY <1>2, <3>1, Remainder DEF CountedSeconds
    <3>. DEFINE counted == CountedSeconds(seconds_counter, lag % Modulus)
    <3>3. seconds_counter' = IF counted >= Period THEN counted - Period ELSE counted
      BY <1>1, Zenon DEF net_update_routing
    <3>. HIDE DEF counted
    <3>. QED  BY <3>2, <3>3, ConstantsTyped DEF counted
  <2>3. next_hops' \in [Address -> PhysAddress \cup {Broadcast}]
    <3>1. next_hops \in [Address -> PhysAddress \cup {Broadcast}]
      BY <1>1 DEF IInv, TypeOK
    <3>2. \/ next_hops' = next_hops
          \/ next_hops' = RecalculatedHops(LinkGraph(link_state_packets'), neighbour_links', next_hops)
      BY <1>1 DEF net_update_routing
    <3>3. neighbour_links' \in [Address -> NeighbourEntry]
      BY <1>2
    <3>4. RecalculatedHops(LinkGraph(link_state_packets'), neighbour_links', next_hops)
            \in [Address -> PhysAddress \cup {Broadcast}]
      BY <3>1, <3>3, HopsTyped
    <3>. QED  BY <3>1, <3>2, <3>4
  <2>4. is_graph_changed' \in BOOLEAN /\ sending' \in BOOLEAN
    BY <1>1 DEF net_update_routing, FlagAfterUpdate, IInv, TypeOK
  <2>5. lag' \in 0 .. MaxLag
    BY <1>2, <1>3, ConstantsTyped
  <2>. QED  BY <1>2, <2>1, <2>2, <2>3, <2>4, <2>5 DEF TypeOK, LinkStateEntry, NeighbourEntry
<1>5. OwnLinksAreLive'
  BY <1>1, <1>2, <1>3 DEF IInv, OwnLinksAreLive, IsLive, TimedOut
<1>6. link_state_packets'[OwnAddress].seconds_to_live = 0
  BY <1>1, <1>2, <1>3 DEF IInv
<1>7. AgesFit(link_state_packets, link_state_ages, LinkStateTTL)'
  BY <1>1, <1>2, <1>3, ConstantsTyped DEF IInv, AgesFit, IsLive, TimedOut
<1>8. AgesFit(neighbour_links, neighbour_ages, NeighbourTTL)'
  BY <1>1, <1>2, <1>3, ConstantsTyped DEF IInv, AgesFit, IsLive, TimedOut
<1>. QED  BY <1>4, <1>5, <1>6, <1>7, <1>8 DEF IInv

LEMMA StepIInv == IInv /\ [Next]_vars => IInv'
<1>1. SUFFICES ASSUME IInv, [Next]_vars PROVE IInv'
  OBVIOUS
<1>2. CASE UNCHANGED vars
  BY <1>1, <1>2 DEF IInv, TypeOK, OwnLinksAreLive, AgesFit, vars, tables
<1>. QED
  BY <1>1, <1>2, TickIInv, UpdateIInv, SendsReturnIInv, LinkStateIInv, PingResponseIInv DEF Next

-----------------------------------------------------------------------------
\* Whatever arrives and however far the main loop lags behind the clock.
THEOREM RoutingInvariant == Spec => []IInv
<1>. QED  BY InitIInv, StepIInv, PTL DEF Spec

\* The tables stay within their C types.
THEOREM TypesKept == Spec => []TypeOK
<1>1. IInv => TypeOK
  BY DEF IInv
<1>. QED  BY RoutingInvariant, <1>1, PTL

\* The links this node announces to the network are at every moment its live neighbours.
THEOREM OwnLinksKept == Spec => []OwnLinksAreLive
<1>1. IInv => OwnLinksAreLive
  BY DEF IInv
<1>. QED  BY RoutingInvariant, <1>1, PTL

\* If net_update_routing() runs at least every Modulus (256) seconds, what is live after it
\* was heard within its time to live.  The assumption is needed: the elapsed seconds are
\* kept in a uint8_t.
THEOREM RecentIfUpdated == ASSUME MaxLag < Modulus PROVE Spec => RecentAfterUpdate
<1>1. ASSUME IInv, net_update_routing, NEW a \in Address
      PROVE  /\ IsLive(link_state_packets'[a]) => link_state_ages'[a] < LinkStateTTL
             /\ IsLive(neighbour_links'[a]) => neighbour_ages'[a] < NeighbourTTL
  <2>1. IInv'
    BY <1>1, UpdateIInv
  <2>2. PICK e \in Nat : e = lag % Modulus /\ lag' = lag - e
    BY <1>1, UpdateEffect
  <2>3. lag' = 0
    <3>1. lag \in Nat /\ lag < Modulus
      BY <1>1, ConstantsTyped DEF IInv, TypeOK
    <3>. QED  BY <2>2, <3>1, ConstantsTyped
  <2>4. /\ AgesFit(link_state_packets, link_state_ages, LinkStateTTL)'
        /\ AgesFit(neighbour_links, neighbour_ages, NeighbourTTL)'
        /\ link_state_ages'[a] \in Nat /\ neighbour_ages'[a] \in Nat
        /\ link_state_packets'[a].seconds_to_live \in Nat
        /\ neighbour_links'[a].seconds_to_live \in Nat
    <3>1. /\ link_state_packets'[a].seconds_to_live \in Nat
          /\ neighbour_links'[a].seconds_to_live \in Nat
      <4>1. TypeOK'
        BY <2>1 DEF IInv
      <4>2. /\ \A x \in LinkStateEntry : x.seconds_to_live \in Nat
            /\ \A x \in NeighbourEntry : x.seconds_to_live \in Nat
        BY ConstantsTyped DEF LinkStateEntry, NeighbourEntry
      <4>. QED  BY <4>1, <4>2 DEF TypeOK, LinkStateEntry, NeighbourEntry
    <3>. QED  BY <2>1, <3>1, ConstantsTyped DEF IInv, TypeOK
  <2>. QED  BY <2>3, <2>4, ConstantsTyped DEF AgesFit, IsLive
<1>2. IInv /\ [Next]_vars =>
        [net_update_routing =>
           \A a \in Address :
             /\ IsLive(link_state_packets'[a]) => link_state_ages'[a] < LinkStateTTL
             /\ IsLive(neighbour_links'[a]) => neighbour_ages'[a] < NeighbourTTL]_vars
  BY <1>1
<1>. QED  BY RoutingInvariant, <1>2, PTL DEF Spec, RecentAfterUpdate

-----------------------------------------------------------------------------
\* The step of either table's soft state that a step of the tables is.
LEMMA SecondPasses ==
  ASSUME NEW table, NEW ages \in [Address -> 0 .. Oldest], NEW ttl \in Nat, ttl < Modulus,
         \A a \in Address : table[a].seconds_to_live \in Nat,
         lag \in Nat, lag < MaxLag, AgesFit(table, ages, ttl)
  PROVE  /\ Older(ages, table) = [k \in Address |->
              IF k \in {a \in Address : IsLive(table[a])} THEN ages[k] + 1 ELSE 0]
         /\ \A k \in {a \in Address : IsLive(table[a])} : ages[k] < ttl + MaxLag - 1
<1>1. \A a \in Address : IF IsLive(table[a]) THEN Older(ages, table)[a] = ages[a] + 1
                                             ELSE Older(ages, table)[a] = 0
  BY OlderFits
<1>2. Older(ages, table) = [a \in Address |-> Older(ages, table)[a]]
  BY DEF Older
<1>3. ASSUME NEW a \in Address, IsLive(table[a])
      PROVE  ages[a] < ttl + MaxLag - 1
  BY <1>3, ConstantsTyped DEF AgesFit, IsLive
<1>. QED  BY <1>1, <1>2, <1>3

LEMMA EntriesOldEnough ==
  ASSUME NEW table, NEW ages \in [Address -> 0 .. Oldest], NEW ttl \in Nat,
         \A a \in Address : table[a].seconds_to_live \in Nat,
         lag \in Nat, AgesFit(table, ages, ttl), NEW e \in Nat, e <= lag
  PROVE  \A k \in TimedOut(table, e) : ages[k] >= ttl - MaxLag
  BY ConstantsTyped DEF AgesFit, TimedOut

\* The lifetimes of the link states implement the soft state: no link state is dropped
\* within its time to live less the lag, none is believed beyond it plus the lag, and
\* nothing but an accepted packet makes one younger.
THEOREM LinkStatesImplementSoftState == Spec => LinkStatesExpire
<1>. DEFINE L == {a \in Address : IsLive(link_state_packets[a])}
<1>1. Init => LinkStates!Init
  BY ConstantsTyped DEF Init, LinkStates!Init, IsLive
<1>2. IInv /\ [Next]_vars => [LinkStates!Next]_(LinkStates!vars)
  <2>1. SUFFICES ASSUME IInv, [Next]_vars PROVE [LinkStates!Next]_(LinkStates!vars)
    OBVIOUS
  <2>2. /\ link_state_ages \in [Address -> 0 .. Oldest] /\ lag \in Nat
        /\ AgesFit(link_state_packets, link_state_ages, LinkStateTTL)
        /\ \A a \in Address : link_state_packets[a].seconds_to_live \in Nat
        /\ LinkStateTTL \in Nat /\ LinkStateTTL < Modulus
        /\ link_state_packets \in [Address -> LinkStateEntry]
    BY <2>1, ConstantsTyped, EntriesTyped DEF IInv, TypeOK
  <2>3. CASE Tick
    <3>1. UNCHANGED link_state_packets /\ lag < MaxLag
          /\ link_state_ages' = Older(link_state_ages, link_state_packets)
      BY <2>3 DEF Tick, tables
    <3>2. LinkStates!Second
      BY <2>2, <3>1, SecondPasses DEF LinkStates!Second
    <3>. QED  BY <3>2 DEF LinkStates!Next
  <2>4. CASE net_update_routing
    <3>1. PICK e \in Nat :
            /\ e <= lag
            /\ \A a \in Address :
                 /\ link_state_packets'[a].seconds_to_live
                      = IF link_state_packets[a].seconds_to_live > e
                          THEN link_state_packets[a].seconds_to_live - e ELSE 0
                 /\ link_state_ages'[a] = IF a \in TimedOut(link_state_packets, e)
                                             THEN 0 ELSE link_state_ages[a]
      BY <2>1, <2>4, UpdateEffect
    <3>2. DOMAIN link_state_ages' = Address /\ link_state_ages' = [a \in Address |-> link_state_ages'[a]]
      BY <2>4, Zenon DEF net_update_routing
    <3>3. L' = L \ TimedOut(link_state_packets, e)
      BY <2>2, <3>1 DEF IsLive, TimedOut
    <3>4. TimedOut(link_state_packets, e) \in SUBSET L
      BY DEF TimedOut
    <3>5. \A k \in TimedOut(link_state_packets, e) : link_state_ages[k] >= LinkStateTTL - MaxLag
      BY <2>2, <3>1, EntriesOldEnough
    <3>6. LinkStates!Expire(TimedOut(link_state_packets, e))
      BY <3>1, <3>2, <3>3, <3>5 DEF LinkStates!Expire
    <3>. QED  BY <3>4, <3>6 DEF LinkStates!Next
  <2>5. CASE \E p \in LinkStatesHeard : net_notify_link_state_packet(p)
    <3>1. PICK p \in LinkStatesHeard : net_notify_link_state_packet(p)
      BY <2>5
    <3>2. /\ p.source \in Address
          /\ link_state_packets'[p.source].seconds_to_live = LinkStateTTL
          /\ \A a \in Address \ {p.source} : link_state_packets'[a] = link_state_packets[a]
          /\ link_state_ages' = [link_state_ages EXCEPT ![p.source] = 0]
      BY <2>2, <3>1 DEF net_notify_link_state_packet
    <3>3. \A a \in Address :
            IsLive(link_state_packets'[a]) <=> IsLive(link_state_packets[a]) \/ a = p.source
      <4>1. IsLive(link_state_packets'[p.source])
        BY <3>2, ConstantsTyped DEF IsLive
      <4>. QED  BY <3>2, <4>1
    <3>4. L' = L \cup {p.source}
      BY <3>2, <3>3
    <3>5. LinkStates!Refresh(p.source)
      BY <3>2, <3>4 DEF LinkStates!Refresh
    <3>. QED  BY <3>2, <3>5 DEF LinkStates!Next
  <2>6. CASE \E p \in PingResponsesHeard : net_notify_ping_response(p[1], p[2])
    <3>1. UNCHANGED link_state_ages
      BY <2>6 DEF net_notify_ping_response
    <3>2. \A a \in Address :
            link_state_packets'[a].seconds_to_live = link_state_packets[a].seconds_to_live
      <4>1. \A l : \A x \in LinkStateEntry :
              [x EXCEPT !.connected_addresses = l].seconds_to_live = x.seconds_to_live
        BY DEF LinkStateEntry
      <4>. QED  BY <2>2, <2>6, <4>1 DEF net_notify_ping_response
    <3>3. L' = L
      BY <3>2 DEF IsLive
    <3>. QED  BY <3>1, <3>3 DEF LinkStates!vars
  <2>7. CASE SendsReturn \/ UNCHANGED vars
    BY <2>7 DEF SendsReturn, vars, tables, LinkStates!vars
  <2>. QED  BY <2>1, <2>3, <2>4, <2>5, <2>6, <2>7 DEF Next
<1>. QED  BY RoutingInvariant, <1>1, <1>2, PTL DEF Spec, LinkStatesExpire, LinkStates!Spec

\* The same of the links to the neighbours and their answers.
THEOREM NeighboursImplementSoftState == Spec => NeighboursExpire
<1>. DEFINE L == {a \in Address : IsLive(neighbour_links[a])}
<1>1. Init => Neighbours!Init
  BY ConstantsTyped DEF Init, Neighbours!Init, IsLive
<1>2. IInv /\ [Next]_vars => [Neighbours!Next]_(Neighbours!vars)
  <2>1. SUFFICES ASSUME IInv, [Next]_vars PROVE [Neighbours!Next]_(Neighbours!vars)
    OBVIOUS
  <2>2. /\ neighbour_ages \in [Address -> 0 .. Oldest] /\ lag \in Nat
        /\ AgesFit(neighbour_links, neighbour_ages, NeighbourTTL)
        /\ \A a \in Address : neighbour_links[a].seconds_to_live \in Nat
        /\ NeighbourTTL \in Nat /\ NeighbourTTL < Modulus
        /\ neighbour_links \in [Address -> NeighbourEntry]
    BY <2>1, ConstantsTyped, EntriesTyped DEF IInv, TypeOK
  <2>3. CASE Tick
    <3>1. UNCHANGED neighbour_links /\ lag < MaxLag
          /\ neighbour_ages' = Older(neighbour_ages, neighbour_links)
      BY <2>3 DEF Tick, tables
    <3>2. Neighbours!Second
      BY <2>2, <3>1, SecondPasses DEF Neighbours!Second
    <3>. QED  BY <3>2 DEF Neighbours!Next
  <2>4. CASE net_update_routing
    <3>1. PICK e \in Nat :
            /\ e <= lag
            /\ \A a \in Address :
                 /\ neighbour_links'[a].seconds_to_live
                      = IF neighbour_links[a].seconds_to_live > e
                          THEN neighbour_links[a].seconds_to_live - e ELSE 0
                 /\ neighbour_ages'[a] = IF a \in TimedOut(neighbour_links, e)
                                            THEN 0 ELSE neighbour_ages[a]
      BY <2>1, <2>4, UpdateEffect
    <3>2. neighbour_ages' = [a \in Address |-> neighbour_ages'[a]]
      BY <2>4, Zenon DEF net_update_routing
    <3>3. L' = L \ TimedOut(neighbour_links, e)
      BY <2>2, <3>1 DEF IsLive, TimedOut
    <3>4. TimedOut(neighbour_links, e) \in SUBSET L
      BY DEF TimedOut
    <3>5. \A k \in TimedOut(neighbour_links, e) : neighbour_ages[k] >= NeighbourTTL - MaxLag
      BY <2>2, <3>1, EntriesOldEnough
    <3>6. Neighbours!Expire(TimedOut(neighbour_links, e))
      BY <3>1, <3>2, <3>3, <3>5 DEF Neighbours!Expire
    <3>. QED  BY <3>4, <3>6 DEF Neighbours!Next
  <2>5. CASE \E p \in PingResponsesHeard : net_notify_ping_response(p[1], p[2])
    <3>1. PICK p \in PingResponsesHeard : net_notify_ping_response(p[1], p[2])
      BY <2>5
    <3>2. /\ p[2] \in Address
          /\ neighbour_links'[p[2]].seconds_to_live = NeighbourTTL
          /\ \A a \in Address \ {p[2]} : neighbour_links'[a] = neighbour_links[a]
          /\ neighbour_ages' = [neighbour_ages EXCEPT ![p[2]] = 0]
      BY <2>2, <3>1 DEF net_notify_ping_response
    <3>3. \A a \in Address : IsLive(neighbour_links'[a]) <=> IsLive(neighbour_links[a]) \/ a = p[2]
      <4>1. IsLive(neighbour_links'[p[2]])
        BY <3>2, ConstantsTyped DEF IsLive
      <4>. QED  BY <3>2, <4>1
    <3>4. L' = L \cup {p[2]}
      BY <3>2, <3>3
    <3>5. Neighbours!Refresh(p[2])
      BY <3>2, <3>4 DEF Neighbours!Refresh
    <3>. QED  BY <3>2, <3>5 DEF Neighbours!Next
  <2>6. CASE \E p \in LinkStatesHeard : net_notify_link_state_packet(p)
    BY <2>6 DEF net_notify_link_state_packet, Neighbours!vars
  <2>7. CASE SendsReturn \/ UNCHANGED vars
    BY <2>7 DEF SendsReturn, vars, tables, Neighbours!vars
  <2>. QED  BY <2>1, <2>3, <2>4, <2>5, <2>6, <2>7 DEF Next
<1>. QED  BY RoutingInvariant, <1>1, <1>2, PTL DEF Spec, NeighboursExpire, Neighbours!Spec

-----------------------------------------------------------------------------
\* Before the first change of the graph there is no link and no route.
NothingYet ==
  ~ is_graph_changed =>
    /\ \A a \in Address : link_state_packets[a].connected_addresses = {}
    /\ next_hops = [a \in Address |-> Broadcast]

\* With no links every other node is out of reach.
LEMMA NoLinksNoRoutes ==
  ASSUME NEW g \in Graph, \A a \in Address : g[a] = {}, NEW d \in Address \ {OwnAddress}
  PROVE  Distance(g, OwnAddress, d) = Infinity
<1>1. OwnAddress \in Address /\ MaxAddress \in Nat
  BY ConstantsTyped
<1>. DEFINE T == {k \in Nat : Within(g, OwnAddress, k) # {OwnAddress}}
<1>2. T = {}
  <2>1. SUFFICES ASSUME T # {} PROVE FALSE
    OBVIOUS
  <2>2. PICK k \in T : \A j \in T : k <= j
    <3>1. T \subseteq Nat
      OBVIOUS
    <3>. HIDE DEF T
    <3>. QED  BY <2>1, <3>1, LeastNatural
  <2>3. k # 0
    BY <1>1, <2>2, WithinStep
  <2>4. k - 1 \in Nat /\ k - 1 \notin T /\ (k - 1) + 1 = k
    BY <2>2, <2>3
  <2>5. Within(g, OwnAddress, k - 1) = {OwnAddress}
    BY <2>4
  <2>6. \A b : b \in Within(g, OwnAddress, (k - 1) + 1) <=> b = OwnAddress
    <3>. HIDE DEF T
    <3>1. k - 1 \in Nat
      BY <2>4
    <3>. QED  BY <1>1, <2>5, <3>1, WithinLink
  <2>7. Within(g, OwnAddress, k) = {OwnAddress}
    BY <2>4, <2>6
  <2>. QED  BY <2>2, <2>7
<1>3. d \notin Within(g, OwnAddress, MaxAddress)
  BY <1>1, <1>2
<1>. QED  BY <1>3 DEF Distance

LEMMA NothingYetStep == IInv /\ NothingYet /\ [Next]_vars => NothingYet'
<1>1. SUFFICES ASSUME IInv, NothingYet, [Next]_vars, ~ is_graph_changed'
               PROVE  /\ \A a \in Address : link_state_packets'[a].connected_addresses = {}
                      /\ next_hops' = [a \in Address |-> Broadcast]
  BY DEF NothingYet
<1>2. CASE UNCHANGED tables
  BY <1>1, <1>2 DEF NothingYet, tables
<1>3. CASE net_update_routing
  <2>1. ~ is_graph_changed /\ next_hops' = next_hops
    BY <1>1, <1>3 DEF net_update_routing, FlagAfterUpdate, IInv, TypeOK
  <2>2. \A a \in Address : link_state_packets'[a].connected_addresses
                             \subseteq link_state_packets[a].connected_addresses
    BY <1>1, <1>3, UpdateEffect
  <2>. QED  BY <1>1, <2>1, <2>2 DEF NothingYet
<1>4. CASE \E p \in LinkStatesHeard : net_notify_link_state_packet(p)
  <2>1. PICK p \in LinkStatesHeard : net_notify_link_state_packet(p)
    BY <1>4
  <2>. DEFINE entry == [sequence_number |-> p.sequence_number, seconds_to_live |-> LinkStateTTL,
                        connected_addresses |-> p.nodes \cap Address]
  <2>2. /\ link_state_packets' = [link_state_packets EXCEPT ![p.source] = entry]
        /\ p.source \in Address /\ next_hops' = next_hops
        /\ ~ is_graph_changed
        /\ entry.connected_addresses = link_state_packets[p.source].connected_addresses
    BY <1>1, <2>1 DEF net_notify_link_state_packet
  <2>. HIDE DEF entry
  <2>3. link_state_packets \in [Address -> LinkStateEntry]
    BY <1>1, EntriesTyped DEF IInv
  <2>. QED  BY <1>1, <2>2, <2>3 DEF NothingYet
<1>5. CASE \E p \in PingResponsesHeard : net_notify_ping_response(p[1], p[2])
  BY <1>1, <1>5, ConstantsTyped DEF net_notify_ping_response, NothingYet
<1>. QED
  BY <1>1, <1>2, <1>3, <1>4, <1>5 DEF Next, vars, Tick, SendsReturn

-----------------------------------------------------------------------------
\* recalculate_routes() resolves the destinations that a path leads to, to the bus address of a
\* neighbour that starts a shortest one.
LEMMA RecalculatedHopsRight ==
  ASSUME NEW g \in Graph, NEW links, NEW hops, NEW d \in RoutedDestinations \ {OwnAddress}
  PROVE  LET resolved == RecalculatedHops(g, links, hops)[d]
         IN  /\ Distance(g, OwnAddress, d) = Infinity => resolved = Broadcast
             /\ Distance(g, OwnAddress, d) # Infinity =>
                  \E h \in BestHops(g, d) : resolved = links[h].physical_address
<1>. DEFINE r == Routes(g)
<1>1. LoopInv(g, r) /\ Frontier(r) = {} /\ d \in Address \ {OwnAddress}
  BY RoutesEnd, ConstantsTyped
<1>2. r.hops[d] = Distance(g, OwnAddress, d)
  <2>. HIDE DEF r
  <2>. QED  BY <1>1, HopsAreDistances
<1>3. r.hops[d] \in Nat /\ r.hops[d] <= Infinity /\ Infinity \in Nat
  <2>. HIDE DEF r
  <2>. QED  BY <1>1, TableType DEF LoopInv
<1>4. RecalculatedHops(g, links, hops)[d] =
        IF d \in r.explored THEN links[FirstHop(r, d)].physical_address ELSE Broadcast
  BY <1>1 DEF RecalculatedHops
<1>. HIDE DEF r
<1>5. CASE d \in r.explored
  <2>1. IsReached(r, d)
    BY <1>1, <1>5 DEF LoopInv, InOrder
  <2>2. FirstHop(r, d) \in BestHops(g, d)
    BY <1>1, <2>1, FirstHopBest
  <2>. QED  BY <1>2, <1>3, <1>4, <1>5, <2>1, <2>2 DEF IsReached
<1>6. CASE d \notin r.explored
  <2>1. r.hops[d] = Infinity
    BY <1>1, <1>3, <1>6 DEF Frontier
  <2>. QED  BY <1>2, <1>4, <1>6, <2>1
<1>. QED  BY <1>5, <1>6

\* Whenever net_update_routing() goes on to its announcements, the routes to all destinations of
\* its loop are those of shortest paths over the links believed then, by way of live neighbours:
\* on every graph, for any number of addresses.
THEOREM InstallsShortestRoutesAlways == Spec => InstallsShortestRoutes
<1>1. ASSUME IInv, IInv', NothingYet', [Next]_vars, Announces PROVE RoutesRight(RoutedDestinations)'
  <2>1. net_update_routing
    <3>1. ~ sending /\ sending'
      BY <1>1 DEF Announces
    <3>. QED  BY <1>1, <3>1 DEF Next, vars, Tick, SendsReturn, net_notify_link_state_packet,
                                net_notify_ping_response
  <2>2. CASE ~ is_graph_changed'
    <3>1. BelievedGraph' \in Graph /\ \A a \in Address : BelievedGraph'[a] = {}
      BY <1>1, <2>2 DEF NothingYet, BelievedGraph, Graph
    <3>2. \A d \in RoutedDestinations \ {OwnAddress} :
            Distance(BelievedGraph', OwnAddress, d) = Infinity /\ next_hops'[d] = Broadcast
      <4>1. \A d \in RoutedDestinations : d \in Address
        BY ConstantsTyped
      <4>2. \A d \in Address : next_hops'[d] = Broadcast
        BY <1>1, <2>2 DEF NothingYet
      <4>. QED  BY <3>1, <4>1, <4>2, NoLinksNoRoutes
    <3>. QED  BY <3>2 DEF RoutesRight, RightHops
  <2>3. CASE is_graph_changed'
    <3>. DEFINE g == LinkGraph(link_state_packets')
    <3>2. next_hops' = RecalculatedHops(g, neighbour_links', next_hops)
      BY <1>1, <2>1, <2>3 DEF net_update_routing, Announces, FlagAfterUpdate
    <3>3. link_state_packets' \in [Address -> LinkStateEntry] /\ OwnAddress \in Address
      BY <1>1, <2>1, UpdateEffect, ConstantsTyped
    <3>4. g \in Graph
      BY <3>3 DEF LinkGraph, Graph, LinkStateEntry
    <3>5. BelievedGraph' = g
      BY DEF BelievedGraph, LinkGraph, net_is_device_online
    <3>6. \A n \in g[OwnAddress] : n \in Address /\ IsLive(neighbour_links'[n])
      <4>1. g[OwnAddress] = link_state_packets'[OwnAddress].connected_addresses
        BY <3>3 DEF LinkGraph
      <4>2. g[OwnAddress] \subseteq Address
        BY <3>3, <3>4 DEF Graph
      <4>. QED  BY <1>1, <4>1, <4>2 DEF IInv, OwnLinksAreLive
    <3>. HIDE DEF g
    <3>7. ASSUME NEW d \in RoutedDestinations \ {OwnAddress}
          PROVE  /\ next_hops'[d] \in RightHops(d)'
                 /\ next_hops'[d] # Broadcast => IsNeighbourAt(next_hops[d])'
      <4>1. CASE Distance(g, OwnAddress, d) = Infinity
        <5>1. next_hops'[d] = Broadcast
          BY <3>2, <3>4, <3>7, <4>1, RecalculatedHopsRight
        <5>. QED  BY <3>5, <4>1, <5>1 DEF RightHops
      <4>2. CASE Distance(g, OwnAddress, d) # Infinity
        <5>1. PICK h \in BestHops(g, d) : next_hops'[d] = neighbour_links'[h].physical_address
          BY <3>2, <3>4, <3>7, <4>2, RecalculatedHopsRight
        <5>2. h \in Address /\ IsLive(neighbour_links'[h])
          BY <3>6 DEF BestHops
        <5>. QED  BY <3>5, <4>2, <5>1, <5>2 DEF RightHops, IsNeighbourAt
      <4>. QED  BY <4>1, <4>2
    <3>. QED  BY <3>7 DEF RoutesRight
  <2>. QED  BY <2>2, <2>3
<1>2. IInv /\ IInv' /\ NothingYet' /\ [Next]_vars => [Announces => RoutesRight(RoutedDestinations)']_vars
  BY <1>1
<1>3. Init => NothingYet
  BY DEF Init, NothingYet
<1>. QED  BY RoutingInvariant, NothingYetStep, <1>2, <1>3, PTL DEF Spec, InstallsShortestRoutes

=============================================================================
