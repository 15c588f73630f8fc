--------------------------------- MODULE Dll ---------------------------------
(***************************************************************************)
(* The data link layer, network_stack/dll/dll.c, on every node of one bus: *)
(* packets cut into frames, one frame in flight until its acknowledgement  *)
(* is seen, received frames put together again and handed to the network   *)
(* layer's callback.                                                       *)
(*                                                                         *)
(* A node runs one thread.  While it waits for an acknowledgement it goes  *)
(* on receiving, so the callback may run inside dll_send_packet() and send *)
(* in turn: the control state of a node is a stack of such activations.    *)
(* A frame arrives as it was sent or not at all; for the bytes on the bus  *)
(* see Framing.tla.                                                        *)
(***************************************************************************)
EXTENDS Integers, Sequences, FiniteSets

CONSTANTS
  Node,        \* the NODE_HARDWARE_ADDRESS of each node
  Broadcast,   \* DLL_BROADCAST_ADDRESS
  FragSize,    \* data bytes in a frame (23)
  BufSize,     \* BUFSIZE: bytes in a packet buffer (128)
  Modulus,     \* the values of a uint8_t (256)
  Settings,    \* inputs: see below
  None         \* an empty slot

\* A setting: by node, the packets its network layer sends, each once; whether a callback may
\* send, as the network layer's does; whether a frame may fail to reach some of the other nodes.
\* A packet is the identity of its contents, a destination and a length in bytes.  Nodes send
\* to addresses that they saw on the bus, never to themselves.
ASSUME DllAssumption ==
  /\ FragSize \in Nat \ {0} /\ BufSize \in Nat \ {0} /\ Modulus \in Nat /\ BufSize < Modulus
  /\ IsFiniteSet(Node) /\ Broadcast \notin Node
  /\ \A s \in Settings :
       /\ s.nested \in BOOLEAN /\ s.lossy \in BOOLEAN
       /\ s.outbox \in [Node -> SUBSET UNION {s.outbox[n] : n \in Node}]
       /\ \A n \in Node : \A p \in s.outbox[n] :
            p.to \in (Node \ {n}) \cup {Broadcast} /\ p.length \in 1 .. Modulus - 1
       /\ \A n, m \in Node : \A p \in s.outbox[n], q \in s.outbox[m] :
            p.id = q.id => n = m /\ p = q

VARIABLES
  setting,                  \* the setting; never changes
  stack,                    \* by node: its activations, the running one last
  ack,                      \* by node: an acknowledgement was received
  received_packet_length,   \* by node: a uint8_t
  sequence_number_counter,  \* by node: 0 or 1
  packet_buffer_tx,         \* by node: the bytes of the one transmit buffer
  packet_buffer_rx,         \* by node: the bytes of the one receive buffer
  rx_frame,                 \* by node: the frame in the PHY's one receive buffer, or None
  unsent,                   \* by node: the packets of its outbox not sent so far
  delivered,                \* history, by node: what the callback was given
  succeeded                 \* history: the packets whose send returned success

buffers == <<received_packet_length, sequence_number_counter, packet_buffer_rx>>
history == <<delivered, succeeded>>
vars == <<setting, stack, ack, buffers, packet_buffer_tx, rx_frame, unsent, history>>

\* The bytes of a packet, told apart by the packet and their place in it.
Byte(p, i) == <<p.id, i>>
Bytes(p) == [i \in 1 .. p.length |-> Byte(p, i)]
Blank == [i \in 0 .. BufSize - 1 |-> None]

Init ==
  /\ setting \in Settings
  /\ stack = [n \in Node |-> <<>>]
  /\ ack = [n \in Node |-> FALSE]
  /\ received_packet_length = [n \in Node |-> 0]
  /\ sequence_number_counter = [n \in Node |-> 0]
  /\ packet_buffer_tx = [n \in Node |-> Blank]
  /\ packet_buffer_rx = [n \in Node |-> Blank]
  /\ rx_frame = [n \in Node |-> None]
  /\ unsent = setting.outbox
  /\ delivered = [n \in Node |-> <<>>]
  /\ succeeded = {}

-----------------------------------------------------------------------------
Idle(n) == stack[n] = <<>>
Top(n) == stack[n][Len(stack[n])]
Running(n, kind) == ~ Idle(n) /\ Top(n).kind = kind
Popped(n) == SubSeq(stack[n], 1, Len(stack[n]) - 1)
Replaced(n, top) == Append(Popped(n), top)

\* The nodes other than n that receive what n transmits.
Reach(n) == {R \in SUBSET (Node \ {n}) : setting.lossy \/ R = Node \ {n}}

\* The bus carries the frame to R; a frame that was not read is overwritten.  What
\* phy_transmit_frame() returns is ignored, so a lost frame looks like any other.
Transmitted(slots, R, frame) == [m \in Node |-> IF m \in R THEN frame ELSE slots[m]]

IsLast(send) == send.left <= FragSize

\* The data frame of the next bytes of the transmit buffer, as it is at this moment.
DataFrame(n, buffer, send) ==
  [type |-> "data", from |-> n, to |-> send.packet.to, seq |-> send.seq, last |-> IsLast(send),
   data |-> [i \in 1 .. (IF IsLast(send) THEN send.left ELSE FragSize) |->
               buffer[send.frame_number * FragSize + i - 1]]]

\* Starts or goes on with a send: the frame is transmitted and the wait begins.
TransmitData(n, buffer, slots, send) ==
  \E R \in Reach(n) : rx_frame' = Transmitted(slots, R, DataFrame(n, buffer, send))

TooBig(p) == p.length > BufSize \/ (p.to = Broadcast /\ p.length > FragSize)

\* The network layer writes a packet to the transmit buffer and calls dll_send_packet():
\* from the main loop, or from a callback.
dll_send_packet(n, p) ==
  LET send == [kind |-> "send", packet |-> p, left |-> p.length, frame_number |-> 0,
               seq |-> 0, at |-> "poll"]
      buffer == [i \in 0 .. BufSize - 1 |->
                   IF i < p.length THEN Byte(p, i + 1) ELSE packet_buffer_tx[n][i]]
  IN /\ Idle(n) \/ (setting.nested /\ Running(n, "callback"))
     /\ p \in unsent[n] /\ ~ TooBig(p)
     /\ unsent' = [unsent EXCEPT ![n] = @ \ {p}]
     /\ packet_buffer_tx' = [packet_buffer_tx EXCEPT ![n] = buffer]
     /\ stack' = [stack EXCEPT ![n] = Append(@, send)]
     /\ TransmitData(n, buffer, rx_frame, send)
     /\ UNCHANGED <<setting, ack, buffers, history>>

\* DLL_PACKET_TOO_BIG: the call returns before it does anything.
SendTooBig(n, p) ==
  /\ Idle(n) \/ (setting.nested /\ Running(n, "callback"))
  /\ p \in unsent[n] /\ TooBig(p)
  /\ unsent' = [unsent EXCEPT ![n] = @ \ {p}]
  /\ UNCHANGED <<setting, stack, ack, buffers, packet_buffer_tx, rx_frame, history>>

\* The frame after one that was acknowledged.
NextFrameSameSequence(send) ==   \* mutant
  [send EXCEPT !.left = @ - FragSize, !.frame_number = @ + 1, !.at = "poll"]
NextFrame(send) ==
  [send EXCEPT !.left = @ - FragSize, !.frame_number = @ + 1, !.seq = 1 - @, !.at = "poll"]

\* ack = 0 once it was seen.
AckNotCleared(n) == ack   \* mutant
AckCleared(n) == [ack EXCEPT ![n] = FALSE]

\* if(ack) in the wait for the acknowledgement, after a poll: one that takes a frame is
\* a step of its own, one that finds none is part of this step.
Proceed(n) ==
  LET send == Top(n)
      next == NextFrame(send)
  IN /\ Running(n, "send") /\ ack[n]
     /\ send.at = "test" \/ rx_frame[n] = None
     /\ ack' = AckCleared(n)
     /\ \/ /\ IsLast(send)
           /\ stack' = [stack EXCEPT ![n] = Popped(n)]
           /\ succeeded' = succeeded \cup {send.packet}
           /\ UNCHANGED rx_frame
        \/ /\ ~ IsLast(send)
           /\ stack' = [stack EXCEPT ![n] = Replaced(n, next)]
           /\ TransmitData(n, packet_buffer_tx[n], rx_frame, next)
           /\ UNCHANGED succeeded
     /\ UNCHANGED <<setting, buffers, packet_buffer_tx, unsent, delivered>>

WaitOn(n) ==
  /\ Running(n, "send") /\ Top(n).at = "test" /\ ~ ack[n]
  /\ stack' = [stack EXCEPT ![n] = Replaced(n, [Top(n) EXCEPT !.at = "poll"])]
  /\ UNCHANGED <<setting, ack, buffers, packet_buffer_tx, rx_frame, unsent, history>>

-----------------------------------------------------------------------------
\* Where a node polls: in the main loop's dll_update(), or in the wait of a send.
Polls(n) == Idle(n) \/ (Running(n, "send") /\ Top(n).at = "poll")

\* The stack once the poll is over and the wait goes on to its test.
AfterPoll(n) == IF Idle(n) THEN <<>> ELSE Replaced(n, [Top(n) EXCEPT !.at = "test"])

\* phy_receive_frame() hands a frame over once.
FrameKept(n) == rx_frame   \* mutant
FrameTaken(n) == [rx_frame EXCEPT ![n] = None]

\* received_packet_length += frame_length - 7, before anything is known of the frame;
\* a control frame is one byte short of the seven.
LengthUnlimited(n, frame) ==   \* mutant
  received_packet_length[n] + (IF frame.type = "data" THEN Len(frame.data) ELSE -1)
LengthAfter(n, frame) ==
  (received_packet_length[n] + (IF frame.type = "data" THEN Len(frame.data) ELSE -1)) % Modulus

\* A frame for another node, or a broadcast, is dropped.
ReceiveOther(n) ==
  LET frame == rx_frame[n]
  IN /\ Polls(n) /\ frame # None
     /\ frame.to # n
     /\ received_packet_length' = [received_packet_length EXCEPT ![n] = LengthAfter(n, frame)]
     /\ rx_frame' = FrameTaken(n)
     /\ stack' = [stack EXCEPT ![n] = AfterPoll(n)]
     /\ UNCHANGED <<setting, ack, sequence_number_counter, packet_buffer_tx, packet_buffer_rx,
                    unsent, history>>

IsAck(n, frame) == frame.type = "ack"   \* mutant
IsAckFor(n, frame) == frame.to = n /\ frame.type = "ack"

\* Any acknowledgement will do: neither its sender nor its sequence number is looked at.
ReceiveAck(n) ==
  LET frame == rx_frame[n]
  IN /\ Polls(n) /\ frame # None
     /\ IsAckFor(n, frame)
     /\ ack' = [ack EXCEPT ![n] = TRUE]
     /\ received_packet_length' = [received_packet_length EXCEPT ![n] = LengthAfter(n, frame)]
     /\ rx_frame' = FrameTaken(n)
     /\ stack' = [stack EXCEPT ![n] = AfterPoll(n)]
     /\ UNCHANGED <<setting, sequence_number_counter, packet_buffer_tx, packet_buffer_rx, unsent, history>>

AckToItself(n, to) ==   \* mutant
  [type |-> "ack", from |-> n, to |-> n, seq |-> sequence_number_counter[n]]
AckFrame(n, to) == [type |-> "ack", from |-> n, to |-> to, seq |-> sequence_number_counter[n]]

\* memcpy to the end of the bytes received so far; what it writes beyond the buffer, or
\* before it, is some other variable's memory.
Copied(n, frame, length) ==
  [i \in 0 .. BufSize - 1 |->
     LET j == i - (length - Len(frame.data)) + 1
     IN  IF j \in 1 .. Len(frame.data) THEN frame.data[j] ELSE packet_buffer_rx[n][i]]

\* The bytes the callback may look at.
Given(buffer, length) ==
  [i \in 1 .. length |-> IF i <= BufSize THEN buffer[i - 1] ELSE None]

\* A data frame for this node is taken: the checks of its checksum and its sequence number
\* have no consequence.
ReceiveData(n) ==
  LET frame == rx_frame[n]
  IN /\ Polls(n) /\ frame # None
     /\ frame.to = n /\ frame.type = "data"
     /\ received_packet_length' = [received_packet_length EXCEPT ![n] = LengthAfter(n, frame)]
     /\ rx_frame' = FrameTaken(n)
     /\ stack' = [stack EXCEPT ![n] = Append(AfterPoll(n), [kind |-> "reply", frame |-> frame])]
     /\ UNCHANGED <<setting, ack, sequence_number_counter, packet_buffer_tx, packet_buffer_rx,
                    unsent, history>>

\* Once the bus is free the acknowledgement goes out; the data is copied, and the callback
\* called with the last frame of a packet.
Acknowledge(n) ==
  LET frame  == Top(n).frame
      length == received_packet_length[n]
      buffer == Copied(n, frame, length)
  IN /\ Running(n, "reply")
     /\ \E R \in Reach(n) : rx_frame' = Transmitted(rx_frame, R, AckFrame(n, frame.from))
     /\ sequence_number_counter' = [sequence_number_counter EXCEPT ![n] = 1 - @]
     /\ packet_buffer_rx' = [packet_buffer_rx EXCEPT ![n] = buffer]
     /\ \/ /\ frame.last
           /\ stack' = [stack EXCEPT ![n] = Replaced(n, [kind |-> "callback"])]
           /\ delivered' = [delivered EXCEPT ![n] =
                Append(@, [from |-> frame.from, data |-> Given(buffer, length)])]
        \/ /\ ~ frame.last
           /\ stack' = [stack EXCEPT ![n] = Popped(n)]
           /\ UNCHANGED delivered
     /\ UNCHANGED <<setting, ack, received_packet_length, packet_buffer_tx, unsent, succeeded>>

CallbackKeepsLength(n) ==   \* mutant
  /\ Running(n, "callback")
  /\ sequence_number_counter' = [sequence_number_counter EXCEPT ![n] = 0]
  /\ stack' = [stack EXCEPT ![n] = Popped(n)]
  /\ UNCHANGED <<setting, ack, received_packet_length, packet_buffer_rx, packet_buffer_tx,
                 rx_frame, unsent, history>>

\* Only now is the receiver ready for the next packet.
CallbackReturns(n) ==
  /\ Running(n, "callback")
  /\ received_packet_length' = [received_packet_length EXCEPT ![n] = 0]
  /\ sequence_number_counter' = [sequence_number_counter EXCEPT ![n] = 0]
  /\ stack' = [stack EXCEPT ![n] = Popped(n)]
  /\ UNCHANGED <<setting, ack, packet_buffer_rx, packet_buffer_tx, rx_frame, unsent, history>>

\* What a node does on its own: all but starting to send.
Run(n) == \/ Proceed(n) \/ WaitOn(n)
          \/ ReceiveOther(n) \/ ReceiveAck(n) \/ ReceiveData(n)
          \/ Acknowledge(n) \/ CallbackReturns(n)

Next == \E n \in Node : \/ Run(n)
                        \/ \E p \in setting.outbox[n] : dll_send_packet(n, p) \/ SendTooBig(n, p)

Spec == Init /\ [][Next]_vars

\* Every node's main loop, and the loops inside it, keep running.
FairSpec == Spec /\ \A n \in Node : WF_vars(Run(n))

-----------------------------------------------------------------------------
Packets == UNION {setting.outbox[n] : n \in Node}
BytesSent == (UNION {{Byte(p, i) : i \in 1 .. p.length} : p \in Packets}) \cup {None}

Activations ==
  [kind : {"send"}, packet : Packets, left : 1 .. BufSize, frame_number : 0 .. BufSize,
   seq : {0, 1}, at : {"poll", "test"}]
    \cup {[kind |-> "callback"]}

IsFrame(f) == /\ f.from \in Node /\ f.to \in Node \cup {Broadcast} /\ f.seq \in {0, 1}
              /\ \/ f.type = "ack"
                 \/ /\ f.type = "data" /\ f.last \in BOOLEAN
                    /\ Len(f.data) \in 1 .. FragSize
                    /\ \A i \in DOMAIN f.data : f.data[i] \in BytesSent

\* The types: at most one activation of a node is running and the ones below it are waiting.
TypeOK ==
  /\ \A n \in Node :
       /\ \A i \in DOMAIN stack[n] : \/ stack[n][i] \in Activations
                                     \/ stack[n][i].kind = "reply" /\ IsFrame(stack[n][i].frame)
       /\ rx_frame[n] = None \/ IsFrame(rx_frame[n])
  /\ ack \in [Node -> BOOLEAN]
  /\ received_packet_length \in [Node -> 0 .. Modulus - 1]
  /\ sequence_number_counter \in [Node -> {0, 1}]
  /\ packet_buffer_tx \in [Node -> [0 .. BufSize - 1 -> BytesSent]]
  /\ packet_buffer_rx \in [Node -> [0 .. BufSize - 1 -> BytesSent]]

Received(n, p) == \E i \in DOMAIN delivered[n] : delivered[n][i].data = Bytes(p)

\* What the callback of n is given is one of the packets sent to it, whole and unmixed.
Intact(n) ==
  \A i \in DOMAIN delivered[n] :
    \E p \in setting.outbox[delivered[n][i].from] : p.to = n /\ delivered[n][i].data = Bytes(p)

\* The same of all nodes: what packets.h says of a callback's packet and its length.
DeliveredIntact == \A n \in Node : Intact(n)

\* What is sent is sent to n, by one node or a frame at a time.
Converges(n) ==
  /\ \A p \in Packets : p.to = n
  /\ \/ Cardinality({m \in Node : setting.outbox[m] # {}}) = 1
     \/ \A p \in Packets : p.length <= FragSize

\* A node that all send to is given whole packets, whatever is lost: the received_packet_length
\* and the buffer that receive_frame() builds up over the frames.
ReceiverIntact == \A n \in Node : Converges(n) => Intact(n)

\* Callbacks are called for packets that were sent, once each at most, whatever frames and
\* acknowledgements are lost and however the activations of the sender nest.
DeliveredOnce ==
  \A n, m \in Node :
    Cardinality({i \in DOMAIN delivered[n] : delivered[n][i].from = m}) <=
      Cardinality({p \in setting.outbox[m] \ unsent[m] : p.to = n})

\* An acknowledgement that is noticed is one that the running send waits for: none is left over
\* for a later send, which would take it for its own.
AckIsAwaited == \A n \in Node : ack[n] => Running(n, "send") /\ Top(n).at = "test"

\* DLL_TRANSMISSION_SUCCESS of dll_send_packet() is true where all send to one node: the callback
\* was given the packet, or is about to be by the receive_frame() that sent the acknowledgement.
\* Nothing is said of senders whose fragments mix at a receiver, nor of nodes that send both
\* ways: there an acknowledgement shifts or spoils what a send that succeeds has sent.
SuccessMeansDelivered ==
  \A n \in Node : Converges(n) => \A p \in succeeded : Received(n, p)

Sending(n, p) == \E i \in DOMAIN stack[n] : stack[n][i].kind = "send" /\ stack[n][i].packet = p

\* What some node sends in some setting.
PacketsOf(n) == UNION {s.outbox[n] : s \in Settings}

\* Every call of dll_send_packet() returns.
SendsReturn == \A n \in Node : \A p \in PacketsOf(n) : Sending(n, p) ~> ~ Sending(n, p)
=============================================================================
