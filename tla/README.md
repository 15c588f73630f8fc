# Smart lighting network: a TLA+ verification project

The program is the network stack of a lighting node: firmware for an ATmega644P that talks to
other nodes over a shared I2C bus. `main()` is still an empty loop and the transport and
application layers are empty files; what there is to verify is the physical (PHY), data link (DLL)
and network (NET) layers and the clock. Every definition here is taken from the C source;
`PROJECT.json` maps each one to its lines.

## 1. Inventory

| Component | Source | State | Operations |
|---|---|---|---|
| NET routing | `net/routing.c` | per address: last link state (number, seconds to live, links), neighbour (bus address, seconds to live), next hop; `is_graph_changed`, `seconds_counter`, `last_time` | `net_update_routing` (time, timeouts, every 10 s routes and announcements), `net_notify_link_state_packet`, `net_notify_ping_response`, queries |
| NET packets | `net/packets.c`, `net/checksum.c` | the DLL's transmit buffer, the announcement number | build and send four packet types; validate, then forward, deliver, flood or answer |
| DLL | `dll/dll.c` | `packet_buffer_tx`, `packet_buffer_rx`, `received_packet_length`, `sequence_number_counter`, `ack`; in `dll_send_packet` its locals | `dll_send_packet` (fragment, transmit, wait for the acknowledgement), `dll_update` (poll, unstuff, acknowledge, reassemble, callback) |
| DLL framing | `dll/dll.c` | `frame_buffer_tx`, `frame_buffer_rx` | `byte_stuff_frame`, `byte_unstuff_frame`, parity |
| PHY | `phy/phy.c` | TWI registers, one transmit pointer, one receive buffer and flags shared with the interrupt | `phy_transmit_frame` (spins), `phy_receive_frame`, the TWI interrupt |
| Time | `application/time.c` | a 32 bit millisecond counter | the timer interrupt, differences |
| APP, TRA, test programs, UART | | none of interest | |

How they interact. A node has one thread and two interrupts. NET calls `dll_send_packet`, which
transmits a frame over PHY and then **polls for received frames itself** until the acknowledgement is
seen. A received packet goes up through NET's callback, which may forward, flood or answer, that
is, call `dll_send_packet` again: activations nest, and share the static buffers. `net_update`
calls `net_update_routing` only; nothing in `src/` but the application (and the test programs) calls `dll_update`.
The link state tables are fed by the callback, thus also in the middle of an update's own sends.

What is hard here: the nesting above; a bus that every node hears and that may lose frames; one
receive buffer that a newer frame overwrites; acknowledgements that are not matched with sends; byte-wide
counters; soft state that ages by the clock of a main loop which can be blocked by a send; loops
over addresses whose last element is special.

What makes each part correct:

* **Routing**: the tables agree with each other; an entry is believed neither too long nor too
  short; the next hops are those of shortest paths over links that are believed; silent nodes and
  lost neighbours disappear.
* **DLL**: a packet arrives once, whole; a send that reports success was received; sends return.
* **Framing**: unstuffing undoes stuffing, whatever the bytes.
* **PHY**: a transmission ends and its result says whether the frame went out; no frame is lost between interrupt and poll.
* **Packets, network** (several nodes): an older link state never replaces a newer one; a restarted
  node is heard again; floods reach everybody and end; data along routes that agree arrives, once.
* **Time**: no second is lost or counted twice, through overflows of the counter too.

The hazards, each at its line, are listed in `PROJECT.json`.

## 2. Modules

| Module | What it is |
|---|---|
| `ShortestPath` | `recalculate_routes()` as operators on a graph and a route table, and the reference definitions (`Within`, `Distance`, `BestHops`) it is compared with |
| `Dijkstra` | the same as a machine, one loop iteration a step, on any graph |
| `SoftState` | abstract: a table whose entries are refreshed and expire between a least and a greatest age |
| `Routing`, `MCRouting` | all of `routing.c`, with the clock; its two tables refine `SoftState` |
| `PacketChannel` | abstract: a one-way channel; send, deliver once, return; on a reliable line always |
| `Dll`, `MCDll` | the link layer on every node of one bus |
| `DllOneWay` | `Dll` with one sender and one receiver, where it refines `PacketChannel` |
| `Phy` | one node's PHY: thread, interrupt routine, two-wire interface, bus |
| `Network`, `MCNetwork` | `packets.c` on every node of a network: pings, floods, forwarding |
| `Seconds` | abstract: seconds pass and are accounted for |
| `Clock` | `time.c` with the two uses of it; refines `Seconds`, which is the clock that `Routing` assumes |
| `Framing` | byte stuffing and unstuffing |
| `ShortestPathProofs`, `DijkstraProofs`, `RoutingProofs`, `ClockProofs`, `PhyProofs`, `DllProofs`, `FramingProofs`, `NetworkProofs` | theorems and their lemmas (section 4) |

### Routing

`link_state_packets`, `neighbour_links`, `next_hops`, `is_graph_changed` and `seconds_counter` are the
code's statics. A set of addresses stands for the bits of `connected_addresses`. `lag` is
`time_now() - last_time` in whole seconds: `Tick` (a thousand timer interrupts) adds one,
`net_update_routing` takes off what it accounts for, which is `lag % Modulus` because
`seconds_elapsed` is a byte. That action is the whole function up to its two sends; `sending`
holds while they run. They may take any time, and the two notifications may happen
meanwhile, as the sends deliver received packets. A packet or ping response is
taken from a set of inputs (`LinkStatesHeard`, `PingResponsesHeard`), so a peer may send, repeat, delay or
withhold anything in it. `link_state_ages` and `neighbour_ages` are history: how long ago a live
entry was refreshed.

`recalculate_routes()` runs to the end within that action (it has no interleaving point). Its
`previous_node` is uninitialised in the code; `TreeEdges` shows that it is read only where it was set.

### Dll

The bytes of a packet are told apart by packet and position, so that shifted, truncated and mixed
packets can be seen as such. `stack` is each node's call stack: `"send"` (a `dll_send_packet` at its poll or its
test of `ack`), `"reply"` (a data frame taken and not yet acknowledged, since
the bus may be busy) and `"callback"`. Only the top runs. A frame that reaches a node goes to
`rx_frame`, PHY's one buffer, over whatever is there. The rigid variable `setting`, chosen in the initial state, says who sends what (`outbox`; each packet at most once, at any
time), whether a transmission may miss any of the other nodes (`lossy`; the result of `phy_transmit_frame` is
ignored, so a failed arbitration is the same) and whether callbacks send (`nested`). `delivered` and `succeeded` are history.

Two abstractions to know of. A copy of received bytes outside `packet_buffer_rx`, which the wrong
`received_packet_length` makes possible, changes nothing in the model, where in the code it changes a neighbouring
variable: `ImplementsChannel` and `ReceiverIntact` show that in the settings without nesting
packets are placed right, and in the one with nesting only `DeliveredOnce` and `AckIsAwaited` are promised, properties of control state that the
byte next to the buffer (another buffer) does not influence. And a frame is unstuffed right in `Dll`; `Framing` says when.
The callback is entered in the step that transmits the acknowledgement, so `SuccessMeansDelivered`
reads "was given to the callback or is about to be". A frame arrives as it was sent or not at all: the receiver
computes the checksum and then does nothing with the result, so a damaged frame would be acknowledged and delivered.

### Framing

A byte is the flag, the escape or a plain one. A frame is a control frame or has a header of five bytes, its data and two bytes of checksum; of these only
addresses and data can be special. Both loops work in place on buffers of `FrameBufSize`, an
iteration a step. A read past the buffer yields any byte; so do the old bytes after a received frame.

### Phy

The statics of `phy.c`, three bits of `TWCR` and `TWDR`. `at` is where the thread is. The interface raises an event
(`TWINT`) and holds the bus until a one is written to `TWINT`; the code does that on purpose in the interrupt routine, and without
wanting to whenever it changes another bit of `TWCR` while an event is pending. Each such read-change-write is two steps
(`ReadToDisable` and `DisableInterrupt`, `CopyFrame` and `EnableInterrupt`), as an event may come between or during them; `AskForStart` always
clears. An interrupt that is due precedes the next step of the thread, except during the one instruction after `cli()`.
Each case of `ISR(TWI_vect)` is an action. The other nodes start, send and stop frames of their own whenever the bus is free,
win arbitration at any data byte, and cause bus errors. All frames go to the general call address, so cases 0x68 and 0x78
(arbitration lost and addressed at once) cannot occur. `sent`, `arrived` and `event_lost` are history: what went out, what should be in the buffer,
and whether the buffer's frame had an event cleared unhandled. That last case is a defect of the code: in it frames are cut or
two frames joined, and without the exception `CopiesWhatArrived` is violated within a few steps. `Dll` does not have it; there a frame arrives whole or not at all.

### Network

A node's activations are the sends in progress: an update (the broadcast ping, then the announcement), a flood (a loop over bus addresses)
or a single send. Each waits while its packet is on the `wire`, and polls meanwhile, so that
`net_handle_received_packet` runs inside; if the packet or its acknowledgement is lost, or the destination is out of range, it waits for ever (`unanswered`), as `dll_send_packet` does. `buffer` is the one transmit buffer: a flood writes it once and each turn of its loop sends what is in it *then*, with
the length of the flood's own packet. `net_validate_packet` refuses a packet whose length differs from what its header says.
The two tables are those of `Routing` without the lists of links and the bus addresses; the next hops are given and fixed (`Routing` computes them).
Ghost fields in link states (`boot`, `stamp`) say which start of a node and which of its announcements they are.

A packet is one frame here, copied from the buffer when its send starts: link states of 16 nodes and pings always are, data of up to 16 bytes is
(`FragSize`). Of longer data only the refusal in `net_send_data_packet` is modelled: `dll_send_packet` copies each of its fragments from the shared buffer when its turn comes,
and a handler that ran meanwhile may have overwritten the rest. `NetworkAssumption` says so, and the properties claim nothing of such data.

Two things of the link below are as `dll.h` promises them and not as `Dll` shows `dll.c` to be: broadcasts reach the nodes in range, and an acknowledgement ends the send that it is for
(and that only, with the packet it is for whole). On the link as it is, NET cannot get beyond its first broadcast; the properties here say what is right and wrong in NET itself.
Whether sends return at all is `Dll`'s question (`dll_crossing`), and no property of `Network` promises it.
As in `Dll` a rigid `setting` chooses topology, faults and traffic.

### Clock

The counter, `last_time` and a periodic task's `next_time` are 32 bit numbers that wrap; `behind` and `due_in` are history, the true
distances. Reading the counter is atomic in the code. Signed overflow is undefined in C. The counter is volatile and wraps; wrapping is assumed of the sum in
`time_add_milliseconds`. The test of the sign of `time_delta_milliseconds` in a wait may be compiled to a comparison of the two times, as optimisation across files is on: `build`,
chosen in the initial state, says which, and a given build always does the same. `TaskRunsOnTime` is of both: a build that subtracts ends every wait when its time has come and
not before; one that compares does so unless an overflow lies between the two times, where it may end the wait early or go on waiting for 24 days. `CountsSeconds` uses the difference itself,
for which no such choice exists, and is what `Routing`'s `lag` relies on.

## 3. Runs

| Run | Question | Result |
|---|---|---|
| `dijkstra` | Are routes shortest on every graph of 4 nodes (all 65 536), at each iteration and at the end? | holds |
| `routing` | Do tables, ages and routes stay right whatever arrives, in and between updates, and are silent nodes, dead hops and announcements dealt with in the end? | holds |
| `dll` | One way, lossy or perfect bus; two senders to one node; sends from callbacks: what arrives, what is acknowledged, what returns? | holds |
| `dll_exchange` | Two nodes send to each other: whole packets? | violated |
| `dll_crossing` | Two nodes send at the same time, perfect bus: do sends return? | violated |
| `framing` | Exactly which frames are stuffed right, and are those received or refused? | holds |
| `framing_flags` | Is every frame that was stuffed right received? | violated |
| `phy` | Are copies, what goes out and ends of transmissions right, whatever the order of thread, interrupt and bus? | holds |
| `phy_result` | Is a frame that is reported as transmitted transmitted? | violated |
| `clock` | Is the clock right through overflows? | holds |
| `network` | Floods, restarts, pings and data among three nodes | holds |
| `network_flood` | Does an announcement reach the entire network when another is made? | violated |

Together the DLL runs say: the link layer is correct for one-way traffic, and for short packets to
one collector, and for nothing more: the first exchange in both directions shifts packets.

Each violated run checks one sentence of a comment or header; the findings in `PROJECT.json` quote it.

What each run's properties say (each is stated at its definition):

* `dijkstra`: reached nodes form a tree (`TreeEdges`), no link of an explored node shortens a path (`LinksRelaxed`), the counts at the end are
  the distances (`ShortestWhenDone`), back-tracking finds the first hop of a shortest path (`FirstHopIsBest`), and the loop ends (`LoopEnds`).
* `routing`: `TypeOK`; a node announces exactly its live neighbours (`OwnLinksAreLive`); every recalculation installs the shortest routes over the links believed then
  (`InstallsShortestRoutes`); nothing outlives its time
  (`RecentAfterUpdate`); both tables are soft states (`LinkStatesExpire`, `NeighboursExpire`); and in the end `SilentNodeGoesOffline`, `DeadHopIsReplaced`, `KeepsAnnouncing`.
* `dll`: one way the two ends agree on the next frame (`SequenceAgrees`) and on how much of the packet has arrived (`LengthAgrees`), and refine
  the channel, with its fairness when the bus loses nothing (`ImplementsChannel`); a node all send to, one of them or in single frames, is given whole packets (`ReceiverIntact`),
  and a success reported for a packet to it means that it was delivered (`SuccessMeansDelivered`). In all settings a packet is delivered at most once
  (`DeliveredOnce`), and an acknowledgement is noted only in a send that waits for one (`AckIsAwaited`).
* `framing`: a frame is stuffed right exactly when its last special byte is before the loop's bound (`StuffsWithinBound`); it is then
  received as it was sent, unless one of its flag bytes does not come after an escape byte, and then it is refused at worst (`UnstuffsOrRefuses`). That it *is* refused is
  against the comment of `byte_unstuff_frame` (`StuffedFramesArrive`, run `framing_flags`).
* `phy`: `TypeOK` (the buffer's bound); what goes out is a beginning of the frame, and `phy_transmit_frame` tells the truth but for the last byte (`SentInOrder`): of the last it does not (`ReturnsWhetherTransmitted`, run `phy_result`); a copied frame is the one that
  arrived last (`CopiesWhatArrived`); transmissions end (`TransmissionEnds`).
* `clock`: seconds are accounted for once (`CountsSeconds`, a refinement); the wait of a task ends when its time has come and not before, unless the build compares and an overflow lies between (`TaskRunsOnTime`).
* `network`: a live link state is replaced by later ones only (`NewestWins`); floods of one source nest only if they are later, so their depth on the call stack is bounded by the
  announcements under way (`NestedFloodsAreLater`); a flood alone reaches every node (`UndisturbedFloodsReach`), whereas two that meet do not (`network_flood`); a restarted node
  is heard again when its old entry has expired (`HeardAgain`); data of one frame along hops that agree arrives, and once if it is longer than link states (`DataArrives`).

Disagreements with comments that are in the models but have no run of their own: no route is computed to address `NET_MAX_ADDRESS`
(`RoutedDestinations`; net.h counts it among the addresses); `phy_receive_frame` may return bytes that are no frame (`event_lost`); and frames to the broadcast address, which
dll.h:26 promises to send, are dropped by every node (`ReceiveOther`; dll.c:384 compares with the own address only) while their sender waits for ever, so that NET's ping requests find no neighbour.

### Bounds

* `MaxAddress = 3` (15 in the code): four nodes have branching, cycles, one-way links, two equal shortest
  paths and an unreachable node, and the last address is one of them. The theorems cover every size.
* `LinkStateTTL = NeighbourTTL = 3` (60), `Period = 2` (10), `Modulus = 4` (256), `MaxLag = 2`:
  lifetimes of several updates, updates that account for several seconds or none, expiry between two
  recalculations, announcement numbers that go round. `MaxLag` bounds how late the main loop is. It is below `Modulus`: a
  loop that stalls for 256 s never accounts for them, and `RecentAfterUpdate` fails (set `MaxLag = 5` to see it). Ages stop at `Oldest`, beyond every limit they are compared with.
* `FragSize = 2` (23), `BufSize = 4` (128), `Modulus = 8` (256): packets of one frame, of two, of a full buffer and
  one too big; a wrapped length differs from every right one. One packet of a kind is enough, since the
  receiver is back in its initial state between packets when all is well, and the sequences of two and three find
  when it is not.
* `Phy`: own frames of one and two bytes, others' of one and three, a buffer of two: a frame that does not fit, a first and a last byte, two consecutive frames
  told apart by alternating names. Own frames repeat without bound.
* `Clock`: `Half = 32` (2^31), `Second = 5` (1000), a byte of two bits, a task interval of 6 (500). The counter overflows again and again; the main loop is up to six seconds late,
  which is more than the byte counts, and the remainder of a second takes every value.
* `Network`: three nodes make a circle, where floods come back, and a line, where they meet. `LinkStateTTL = 2` periods (6); `NeighbourTTL = 9` (6), so that neighbours stay known in the
  settings without pings. `Modulus = 6` (256), and numbers start at 4, to wrap in a few rounds: half the circle has to exceed the announcements that may be
  under way at once (with 4, `NewestWins` fails, as an old flood is half the circle behind). `rounds` bounds the announcements, two to six by setting. In the setting with a restart, and in one without faults (`Punctual`), a period begins only when the packets
  of the last were handled (`prompt`; a period is 10 s, a hop some milliseconds), without which no number of periods would suffice for a restarted node to be heard. Node `MaxAddress` is not among the nodes. `FragSize = 11` (23) and `MaxPayload = 5` (121): data of two bytes, which is as long as a link state, of four, and of six, which is refused.
  A send that waits for ever stops its node; the others' clocks go on without it.
* `MaxData = 4` (23) in `Framing`, and two address bytes: three special bytes in a row, which is what it takes to pass the loop's bound, and more. `framing_flags` needs only a flag byte.

Deadlock is checked in `routing` and `clock`, where the clock or an update can always go on. It is not where the system may stop: the
route computation ends, a bus falls silent when every packet was sent, a frame is done, a network has had all its rounds, and after a bus error PHY hangs.

### Fairness

`Routing!FairSpec`: the timer interrupt never stops, and the main loop calls `net_update_routing` for ever (`net_update`
is to be "called periodically"). Nothing is assumed of arrivals. The liveness properties also assume that sends return
(`SendsReturnAlways`), as an antecedent and not as fairness since `Dll` shows when they do not.
`Dll!FairSpec`: every node's thread keeps running (`Run`), that is, it polls (whether in the main loop or in
a send), acknowledges and returns from callbacks; that it ever starts to send is not assumed. `Dijkstra`: a
loop with nothing to wait for goes on.
`Phy!FairSpec`: the interrupt routine runs, bytes that were begun end, and the thread runs between two interrupts, which are a byte time apart (strong fairness, as each
interrupt disables it for a while). The bus is not taken by others for ever (strong fairness of `SendStart`): nodes that wait for it start together and arbitrate, and after a lost
arbitration the call returns.
## 4. Proofs

All theorems are for every value of the constants that the named assumptions allow: any number of addresses or nodes, any sizes and lengths,
any timing, any inputs; a theorem that needs more has it as a hypothesis, below. Three of the assumptions are more than types. `ClockAssumption` has `2 * Interval <= Half` (500 ms and 2^31 ms), or
a task's next time could not be told from its last. `DllAssumption` has no node send to itself or one packet more often than once (the model's packets
are names: a payload sent twice is two packets). Nothing in `src/` sends to its own address, which the bus would not carry back.
`FramingAssumption` has room for every data byte and both addresses to be escaped in a full frame (`FrameBufSize > (MaxData + 9) + (MaxData + 2)`: 59 > 57 with the 23 of the code). `OneWayAssumption` names the two ends of
`DllOneWay`, for the last part of `DllProofs`; that `None` is not the bytes of a packet there, and not a node in `NetworkAssumption`, is a matter of the model's values.

| Module | Theorem | Shows, for every instance, the property |
|---|---|---|
| `DijkstraProofs` | `TreeEdgesAlways`, `LinksRelaxedAlways` | `TreeEdges`, `LinksRelaxed` |
| | `ShortestRoutes`, `FirstHopIsBestAlways` | `ShortestWhenDone`, `FirstHopIsBest` |
| `RoutingProofs` | `TypesKept`, `OwnLinksKept` | `TypeOK`, `OwnLinksAreLive` |
| | `RecentIfUpdated`, `InstallsShortestRoutesAlways` | `RecentAfterUpdate`, `InstallsShortestRoutes` |
| | `LinkStatesImplementSoftState`, `NeighboursImplementSoftState` | `LinkStatesExpire`, `NeighboursExpire` (refinements) |
| `ClockProofs` | `TypesKept`, `TaskRunsOnTimeAlways` | `TypeOK`, `TaskRunsOnTime` |
| | `ClockImplementsSeconds` | `CountsSeconds` (refinement) |
| `PhyProofs` | `TypesKept`, `SentInOrderAlways`, `CopiesAreTrue` | `TypeOK`, `SentInOrder`, `CopiesWhatArrived` |
| `DllProofs` | `TypesKept`, `AckIsAwaitedAlways`, `DeliveredOnceAlways` | `TypeOK`, `AckIsAwaited`, `DeliveredOnce` |
| | `ReceiverIntactAlways`, `SequenceAgreesAlways`, `LengthAgreesAlways` | `ReceiverIntact`, `SequenceAgrees`, `LengthAgrees` |
| | `SuccessIsDelivery` | `SuccessMeansDelivered` |
| | `ChannelSafety` | the safety part of `ImplementsChannel` |
| `FramingProofs` | `StuffsWithinBoundAlways`, `UnstuffsOrRefusesAlways` | `StuffsWithinBound`, `UnstuffsOrRefuses` |
| `NetworkProofs` | `TypesKept`, `DataArrivesAlways` | `TypeOK`, `DataArrives` |
| | `NewestWinsIfTimely`, `NewestWinsIfPrompt` | `NewestWins` |
| | `FloodsNestIfTimely`, `FloodsNestIfPrompt` | `NestedFloodsAreLater` |
| | `FloodsReachIfPrompt` | `UndisturbedFloodsReach` |

* **`ShortestPathProofs`** has what does not depend on a state: iteration as a function on naturals, `Within` and `Distance`, and the loop of
  `recalculate_routes()` as operators. `LoopInv` is what holds of the route table at every iteration: the types, that reached nodes form a tree
  (`Hangs`), that links of explored nodes shorten nothing (`Relaxed`), and that an explored node was reached and is no further than any node still to come
  (`InOrder`). Without the last, a later iteration could shorten the path to an explored node, and `Relaxed` would not be inductive. At the end hop
  counts are neither above the distances (`Relaxed`, along a shortest path) nor below (`Hangs`, back along the tree); `BackTracks` follows `FirstHop`
  up the tree with the length of the path that is behind it; `RoutesEnd` counts explored nodes, so that the number of iterations is enough.
  Since the induction theorems of the library cannot be instantiated here, inductions are by least counterexample (`LeastNatural`).
* **`DijkstraProofs`** lifts these facts to the machine.
* **`RoutingProofs`**. `IInv` joins the types, `OwnLinksAreLive` and, for both tables, `AgesFit`: the age of a live entry and its
  remaining life add up to its time to live, give or take the seconds the update is behind now and was behind at the last refresh.
  Neither `RecentAfterUpdate` nor the two `SoftState` refinements follow from the tables alone; with it they do.
  `RecentIfUpdated` assumes `MaxLag < Modulus`, which is where the byte-wide `seconds_elapsed` matters. `InstallsShortestRoutesAlways` puts `RoutesEnd` and
  `FirstHopBest` to use on the graph of the links believed; that the hop is a live neighbour's comes from `OwnLinksAreLive`.
  An update that recalculates nothing although it is due is one before the first change: the flag never goes down again, so there no link is believed and
  no route is in the table (`NothingYet`), which are the shortest routes over no links.
* **`ClockProofs`**. The invariant says that the wrapped times are those of the history modulo `2 * Half`: `last_time` is the counter minus `behind`, `next_time`
  the counter plus `due_in`. With `behind` and `due_in` within half the circle, differences of wrapped times are then true ones,
  and so are comparisons of times that no overflow separates.
* **`PhyProofs`**. The invariant has a part for each exclusion the code relies on: the interrupt does not come between the test of
  `rx_complete` and the copy (`Excluded`), what is in `TWDR` and what remains add up to the frame (`Transmitting`), and what is in the receive buffer is a
  beginning of what arrived unless an event was lost (`Receiving`). The two properties follow each from its part, but no part is inductive alone.
* **`DllProofs`**. `AckInv` counts for each node every form in which an acknowledgement may still come to it (a data frame on its way, a reply about to be made, the
  acknowledgement in flight, the flag already set); there are never more of them than sends that wait there, so that none is left over for a later send to take. `OncePerPacket` adds up, for two nodes, what was delivered and what may still be, in
  frames on the way and sends that run or are to come; no step raises the sum above what was sent. Both hold however sends nest and whatever is lost.
  The second part is about settings in which all packets go to one node, from one sender or in single frames (`Converging`); with two senders of longer
  packets the receiver mixes them, and with traffic in both directions `dll_exchange` shows what happens. `OneWayInv` follows
  a packet through the send, the frame in flight, the reply, and the acknowledgement on its way back, and says at each what the receiver expects
  (`sequence_number_counter`), has counted (`received_packet_length`) and has collected. Nothing is ever sent again, but the receiver
  tells a packet's next frame by its sequence number, and a send that lost a frame or an acknowledgement stays where it is; that there is never a second old frame on the way is the heart of it. Number of nodes, packets and frames are arbitrary.
  `ChannelSafety` then maps each step to one of `PacketChannel` or to a stutter.
* **`FramingProofs`**. `Framing` says where a byte belongs by `Place`: its position and one more for each special byte up to it. The invariant of the first loop
  (`Stuffing`) is that of bytes before the counter each is in its place behind its escape, and that the others are as far behind as escapes were put in; that of the
  second loop (`Unstuffing`) is its mirror image. The bound, which is the length *before* stuffing, is then a statement about counts of special bytes
  (`CountsGrow`, `CountsBounded`, `FrameCounts`): the loop gets to byte `j` if and only if `j` and the special bytes before it are within it. For the second theorem it
  has to be shown that a flag is found at the end of the frame and not before (`Measured`), whatever is in the buffer after it.
* **`NetworkProofs`**. `Types` holds at every depth of handlers inside sends. `Announcements` ties the numbers that wrap to the ghost fields that do not: the number of
  every link state on the wire, in a buffer, in a loop or in a table is what its source had counted to at that start and that announcement. A comparison of numbers is
  then one of announcements, as long as those are less than half the circle apart. Without that hypothesis `NewestWins` is false, in the code as in the model: hence `Timely`,
  no link state arrives 128 periods, or 21 minutes, behind what its receiver has noted. `NewestWinsIfPrompt` has the hypothesis that a period begins when the
  packets of the last were handled (`prompt`; ten seconds for a matter of milliseconds). That this makes everything timely is the invariant `Prompt`: of each source at
  most one announcement travels, and what is noted of it is not later.
* `FloodsNestIfTimely` and `FloodsNestIfPrompt` rest on two facts about a call stack: while a node floods a packet, what it has noted of the source is this announcement or a later
  one (`FloodsNoted`), and the floods on its stack are in order (`FloodsOrdered`). The first fails when a node that restarted is taken for new; so
  the first theorem excludes restarts, and the second has that old packets are gone by then.
* `DataArrivesAlways` needs no timing, and is about data of one frame that is not refused (`NetworkAssumption` has no other that is sent). Such data is either delivered or on the wire at a place
  from where the hops lead on (`NoneDropped`), and data longer than a link
  state of all nodes is in one place (`InOnePlace`). Shorter data can be doubled: a flood whose loop sends what is in the shared buffer sends it to the flood's neighbours, when the lengths agree.
  Where nothing is lost and nobody restarts, the sends that wait for ever are those to nodes out of range.
* `FloodsReachIfPrompt` takes a network in which only one node announces itself, all the others are reached from it over nodes in range (`InReach`; not over the one at
  the last address, which the loops skip), and nothing is lost. `Reaching` says of each node that has the announcement that each of its neighbours has it, or it is on the wire to
  it, or the node's loop has still to come to it (`GoesOn`); when nothing is on its way, nodes that have it are closed under neighbours, and are all. That no
  node refuses it takes the lifetimes (`Noted`), `LinkStateTTL > 1` (6 periods in the code: with 1 an entry expires while its successor is on the way), and `Modulus > 1` (256). `rounds < NeighbourTTL` is
  there because neighbours that are known from the start and not pinged expire.

Only model-checked:

* Liveness and fairness, which are beyond the prover: `LoopEnds`, `SilentNodeGoesOffline`, `DeadHopIsReplaced`, `KeepsAnnouncing`, `TransmissionEnds`, the fairness that is part of `ImplementsChannel`.
* The violations.
* `HeardAgain`. It is true of the two nodes of its setting, unless a packet to the restarting node was lost with it: then its sender waits for ever, and is never at rest again. In larger networks a ping response may overwrite the flood in the shared buffer, and then what is sent is cut
  short or refused; a network-wide form would have to say when no ping is answered inside a flood.

## 5. Plan

Done: every layer that has code, from the clock and the bus to the network layer, and the safety properties of all of them for every instance, but for those listed as only
model-checked. Left: `Network` with the routes computed (`Routing`'s `RecalculatedHops` of each node's links), to follow data while the tables of nodes disagree.

Not modelled, and not planned:

* Register set-up, UART and test programs (no state of interest), the empty layers.
* The parity arithmetic of `dll.c` and the sum of `net/checksum.c`, beyond whether they match: pure functions of bytes, of which the DLL ignores
  the result and NET refuses a packet.
* Data of several frames in a network (its fragments are `Dll`'s subject, on one bus).
* Two data packets in one routing loop: each is handled inside the send of the other, the call stacks grow without bound, and TLC has no end to reach.
* A packet relayed for a node after that node restarted (a restart needs pings, and three nodes that ping each other are beyond TLC's reach).
* Memory beyond the end of a buffer is outside every model, as are differences of minutes and hours, which nothing calls.
