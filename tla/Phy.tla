-------------------------------- MODULE Phy --------------------------------
(***************************************************************************)
(* The physical layer of one node, network_stack/phy/phy.c: the thread     *)
(* that transmits frames and polls for received ones, the interrupt        *)
(* routine of the two-wire interface, and the interface itself with the    *)
(* other nodes on its bus.                                                 *)
(*                                                                         *)
(* The interface raises TWINT with an event and holds the bus until a one  *)
(* is written to it.  Changing any other bit of TWCR is a read and a write *)
(* of the whole register, which writes back the TWINT it read.             *)
(*                                                                         *)
(* All frames go to the general call address: every other node is a slave  *)
(* of each, and arbitration is never lost before the data.                 *)
(***************************************************************************)
EXTENDS Integers, Sequences

CONSTANTS
  TxLengths,      \* inputs: the lengths of the frames transmitted
  RxLengths,      \* inputs: the lengths of the frames of other nodes
  MaxRxFrame,     \* PHY_MAX_RX_FRAME_SIZE (59)
  BusErrors       \* whether an illegal start or stop may appear on the bus

ASSUME PhyAssumption ==
  /\ TxLengths \subseteq Nat \ {0} /\ RxLengths \subseteq Nat \ {0}
  /\ MaxRxFrame \in Nat \ {0} /\ BusErrors \in BOOLEAN

VARIABLES
  at,            \* where the thread is; "main" outside the two functions
  sei,           \* interrupts are enabled
  twcr_read,     \* the TWINT in the copy of TWCR that the thread is about to write back
  tx_length,     \* the length of the frame being transmitted
  tx_remaining, tx_complete, rx_buffer, rx_complete,   \* statics; rx_length is Len(rx_buffer)
  TWINT,         \* the event that the interface holds the bus for, or "none"
  TWSTA, TWIE,   \* the bits of TWCR: send a start, enable the interrupt
  TWDR,          \* the data register: a byte, by its frame and its place in it
  bus,           \* what the bus is in: "free", or a frame of "own", "other", "unheard", or "stuck"
  incoming,      \* the frame of another node on the bus: its name, its length and how much was sent
  sent,          \* history: the bytes of the own frame that went out
  arrived,       \* history: the frame that was received last, and not taken or replaced since
  event_lost     \* history: an event of the frame in rx_buffer was cleared unhandled

thread == <<at, twcr_read>>
tx == <<tx_length, tx_remaining, tx_complete>>
rx == <<rx_buffer, rx_complete>>
hardware == <<TWINT, TWSTA, TWIE, TWDR, bus, incoming>>
history == <<sent, arrived, event_lost>>
vars == <<thread, sei, tx, rx, hardware, history>>

Bytes(frame) == [i \in 1 .. frame.length |-> <<frame.name, i>>]

\* What the receive buffer can hold of a frame.
Cut(bytes) == SubSeq(bytes, 1, IF Len(bytes) < MaxRxFrame THEN Len(bytes) ELSE MaxRxFrame)

NoFrame == [name |-> 0, length |-> 0, sent |-> 0]

\* After phy_initialise().
Init ==
  /\ at = "main" /\ sei = TRUE /\ twcr_read = FALSE
  /\ tx_length = 0 /\ tx_remaining = 0 /\ tx_complete = FALSE
  /\ rx_buffer = <<>> /\ rx_complete = FALSE
  /\ TWINT = "none" /\ TWSTA = FALSE /\ TWIE = TRUE /\ TWDR = <<0, 0>>
  /\ bus = "free" /\ incoming = NoFrame
  /\ sent = <<>> /\ arrived = <<>> /\ event_lost = FALSE

Pending == TWINT # "none"
InterruptDue == Pending /\ TWIE /\ sei

-----------------------------------------------------------------------------
(* The thread.  An interrupt that is due comes before its next step.       *)

Steps(from, to) == at = from /\ at' = to

\* phy_transmit_frame() up to the write that asks for a start.
CallTransmit(length) ==
  /\ ~ InterruptDue
  /\ Steps("main", "start")
  /\ tx_length' = length
  /\ tx_remaining' = length
  /\ tx_complete' = FALSE
  /\ sent' = <<>>
  /\ UNCHANGED <<sei, twcr_read, rx, hardware, arrived, event_lost>>

\* A write to TWCR with a one for TWINT clears the event that is pending, handled or not.
ClearsEvent(one) ==
  /\ TWINT' = IF one THEN "none" ELSE TWINT
  /\ event_lost' = (event_lost \/ (one /\ Pending))

\* TWCR |= TWINT | TWSTA: an event may come while the store executes.
AskForStart ==
  /\ Steps("start", "wait")
  /\ TWSTA' = TRUE
  /\ ClearsEvent(TRUE)
  /\ UNCHANGED <<sei, twcr_read, tx, rx, TWIE, TWDR, bus, incoming, sent, arrived>>

\* while(!tx_complete) ends and the result is returned.
ReturnFromTransmit ==
  /\ ~ InterruptDue
  /\ Steps("wait", "main")
  /\ tx_complete
  /\ UNCHANGED <<sei, twcr_read, tx, rx, hardware, history>>

\* phy_receive_frame(): cli().
CallReceive ==
  /\ ~ InterruptDue
  /\ Steps("main", "check")
  /\ sei' = FALSE
  /\ UNCHANGED <<twcr_read, tx, rx, hardware, history>>

NothingReceived ==
  /\ Steps("check", "main")
  /\ ~ rx_complete
  /\ sei' = TRUE
  /\ UNCHANGED <<twcr_read, tx, rx, hardware, history>>

\* There is a frame: TWCR is read, to write it back without TWIE.
ReadToDisable ==
  /\ Steps("check", "disable")
  /\ rx_complete
  /\ twcr_read' = Pending
  /\ UNCHANGED <<sei, tx, rx, hardware, history>>

\* TWCR is written and sei() executed.
DisableInterrupt ==
  /\ Steps("disable", "copy")
  /\ ClearsEvent(twcr_read)
  /\ TWIE' = FALSE
  /\ sei' = TRUE
  /\ UNCHANGED <<twcr_read, tx, rx, TWSTA, TWDR, bus, incoming, sent, arrived>>

\* The frame is copied; TWCR is read, to write it back with TWIE.
CopyFrame ==
  /\ Steps("copy", "enable")
  /\ rx_complete' = FALSE
  /\ twcr_read' = Pending
  /\ arrived' = <<>>
  /\ UNCHANGED <<sei, tx, rx_buffer, hardware, sent, event_lost>>

\* TWCR is written and the frame returned.
EnableInterrupt ==
  /\ Steps("enable", "main")
  /\ ClearsEvent(twcr_read)
  /\ TWIE' = TRUE
  /\ UNCHANGED <<sei, twcr_read, tx, rx, TWSTA, TWDR, bus, incoming, sent, arrived>>

Thread ==
  \/ \E length \in TxLengths : CallTransmit(length)
  \/ AskForStart \/ ReturnFromTransmit
  \/ CallReceive \/ NothingReceived \/ ReadToDisable \/ DisableInterrupt
  \/ CopyFrame \/ EnableInterrupt

-----------------------------------------------------------------------------
(* ISR(TWI_vect), one action for each of its cases; its write to TWCR lets *)
(* the interface go on.                                                    *)

Handles(events) == InterruptDue /\ TWINT \in events /\ TWINT' = "none"

\* The general call address goes out next, as byte 0.
StartSent ==
  /\ Handles({"start"})
  /\ TWDR' = <<"own", 0>>
  /\ TWSTA' = FALSE
  /\ UNCHANGED <<thread, sei, tx, rx, TWIE, bus, incoming, history>>

\* Mutant of NextByte: the first byte goes out again.
NextByteStale == <<"own", IF tx_remaining = tx_length THEN 1 ELSE tx_length - tx_remaining>>
NextByte == <<"own", tx_length - tx_remaining + 1>>

\* The address or a data byte was sent and more is to send.
ByteSent ==
  /\ Handles({"sent"})
  /\ tx_remaining # 0
  /\ TWDR' = NextByte
  /\ tx_remaining' = tx_remaining - 1
  /\ UNCHANGED <<thread, sei, tx_length, tx_complete, rx, TWSTA, TWIE, bus, incoming, history>>

\* It was the last: a stop is sent.
LastByteSent ==
  /\ Handles({"sent"})
  /\ tx_remaining = 0
  /\ tx_complete' = TRUE
  /\ bus' = "free"
  /\ UNCHANGED <<thread, sei, tx_length, tx_remaining, rx, TWSTA, TWIE, TWDR, incoming, history>>

CompleteUnlessLost == tx_complete   \* mutant of CompleteWhenLost
CompleteWhenLost == TRUE

ArbitrationLost ==
  /\ Handles({"arbitration lost"})
  /\ tx_complete' = CompleteWhenLost
  /\ UNCHANGED <<thread, sei, tx_length, tx_remaining, rx, TWSTA, TWIE, TWDR, bus, incoming, history>>

BufferKept == rx_buffer   \* mutant of EmptyBuffer
EmptyBuffer == <<>>

\* A general call: what was received before is given up.
Addressed ==
  /\ Handles({"addressed"})
  /\ rx_buffer' = EmptyBuffer
  /\ rx_complete' = FALSE
  /\ arrived' = <<>>
  /\ event_lost' = FALSE
  /\ UNCHANGED <<thread, sei, tx, TWSTA, TWIE, TWDR, bus, incoming, sent>>

HasRoomOnceMore == Len(rx_buffer) <= MaxRxFrame   \* mutant of HasRoom
HasRoom == Len(rx_buffer) < MaxRxFrame

ByteReceived ==
  /\ Handles({"received"})
  /\ rx_buffer' = IF HasRoom THEN Append(rx_buffer, TWDR) ELSE rx_buffer
  /\ UNCHANGED <<thread, sei, tx, rx_complete, TWSTA, TWIE, TWDR, bus, incoming, history>>

StopReceived ==
  /\ Handles({"stop"})
  /\ rx_complete' = TRUE
  /\ UNCHANGED <<thread, sei, tx, rx_buffer, TWSTA, TWIE, TWDR, bus, incoming, history>>

\* The default case: the event is cleared, and nobody is told.
BusErrorSeen ==
  /\ Handles({"bus error"})
  /\ UNCHANGED <<thread, sei, tx, rx, TWSTA, TWIE, TWDR, bus, incoming, history>>

TWI_vect ==
  \/ StartSent \/ ByteSent \/ LastByteSent \/ ArbitrationLost
  \/ Addressed \/ ByteReceived \/ StopReceived \/ BusErrorSeen

-----------------------------------------------------------------------------
(* The interface and the bus.  Nothing happens while an event is pending.  *)

Raises(event) == ~ Pending /\ TWINT' = event

\* The bus is free, and the interface was asked for a start.
SendStart ==
  /\ Raises("start")
  /\ bus = "free" /\ TWSTA
  /\ bus' = "own"
  /\ UNCHANGED <<thread, sei, tx, rx, TWSTA, TWIE, TWDR, incoming, history>>

\* The address or a byte goes out; it does not matter whether a node acknowledges it.
SendByte ==
  /\ Raises("sent")
  /\ bus = "own"
  /\ sent' = IF TWDR = <<"own", 0>> THEN sent ELSE Append(sent, TWDR)
  /\ UNCHANGED <<thread, sei, tx, rx, TWSTA, TWIE, TWDR, bus, incoming, arrived, event_lost>>

\* Another node that started at the same moment has the same address and the smaller data:
\* it goes on with a frame that this node does not receive.
LoseArbitration ==
  /\ Raises("arbitration lost")
  /\ bus = "own" /\ TWDR # <<"own", 0>>
  /\ bus' = "unheard"
  /\ UNCHANGED <<thread, sei, tx, rx, TWSTA, TWIE, TWDR, incoming, history>>

UnheardEnds ==
  /\ ~ Pending
  /\ bus = "unheard"
  /\ bus' = "free"
  /\ UNCHANGED <<thread, sei, tx, rx, TWINT, TWSTA, TWIE, TWDR, incoming, history>>

\* Another node starts a frame; names of frames alternate.
OtherStarts(length) ==
  /\ Raises("addressed")
  /\ bus = "free"
  /\ bus' = "other"
  /\ incoming' = [name |-> 1 - incoming.name, length |-> length, sent |-> 0]
  /\ UNCHANGED <<thread, sei, tx, rx, TWSTA, TWIE, TWDR, history>>

OtherSends ==
  /\ Raises("received")
  /\ bus = "other" /\ incoming.sent < incoming.length
  /\ TWDR' = Bytes(incoming)[incoming.sent + 1]
  /\ incoming' = [incoming EXCEPT !.sent = @ + 1]
  /\ UNCHANGED <<thread, sei, tx, rx, TWSTA, TWIE, bus, history>>

OtherStops ==
  /\ Raises("stop")
  /\ bus = "other" /\ incoming.sent = incoming.length
  /\ bus' = "free"
  /\ arrived' = Bytes(incoming)
  /\ UNCHANGED <<thread, sei, tx, rx, TWSTA, TWIE, TWDR, incoming, sent, event_lost>>

\* An illegal start or stop: the interface is out of use until it is told to stop, by TWSTO.
BusError ==
  /\ BusErrors
  /\ Raises("bus error")
  /\ bus \in {"own", "other"}
  /\ bus' = "stuck"
  /\ UNCHANGED <<thread, sei, tx, rx, TWSTA, TWIE, TWDR, incoming, history>>

OwnBytes == SendByte \/ LoseArbitration
OtherBytes == OtherSends \/ OtherStops \/ UnheardEnds

Next == Thread \/ TWI_vect
          \/ SendStart \/ OwnBytes \/ OtherBytes \/ BusError
          \/ \E length \in RxLengths : OtherStarts(length)

Spec == Init /\ [][Next]_vars

\* Bytes that were started end and the interrupt routine runs; so does the thread between two
\* interrupts, which are a byte apart.  The bus is not taken by others for ever: nodes that
\* wait for it start at the same moment, and arbitrate.
FairSpec ==
  /\ Spec
  /\ SF_vars(Thread) /\ WF_vars(TWI_vect)
  /\ WF_vars(OwnBytes) /\ WF_vars(OtherBytes) /\ SF_vars(SendStart)

-----------------------------------------------------------------------------
\* The types: the receive buffer never grows beyond its size.
TypeOK ==
  /\ at \in {"main", "start", "wait", "check", "disable", "copy", "enable"}
  /\ sei \in BOOLEAN /\ twcr_read \in BOOLEAN
  /\ tx_length \in TxLengths \cup {0}
  /\ tx_remaining \in 0 .. tx_length /\ tx_complete \in BOOLEAN
  /\ Len(rx_buffer) <= MaxRxFrame /\ rx_complete \in BOOLEAN
  /\ TWINT \in {"none", "start", "sent", "arbitration lost", "addressed", "received", "stop", "bus error"}
  /\ TWSTA \in BOOLEAN /\ TWIE \in BOOLEAN /\ event_lost \in BOOLEAN
  /\ bus \in {"free", "own", "other", "unheard", "stuck"}

\* The bytes of the own frame, in order.
OwnBytesUpTo(n) == [i \in 1 .. n |-> <<"own", i>>]

\* When phy_transmit_frame() is to return, what went out is a beginning of the frame, in order;
\* a frame that went out whole is reported as a success, and of one reported as a success no more
\* than the last byte may not have gone out.
SentInOrder ==
  at = "wait" /\ tx_complete =>
    /\ sent \in {OwnBytesUpTo(n) : n \in 0 .. tx_length}
    /\ Len(sent) = tx_length => tx_remaining = 0
    /\ tx_remaining = 0 => Len(sent) >= tx_length - 1

\* What phy_transmit_frame() is to return: true if the frame was transmitted, false if another
\* node had the bus.
ReturnsWhetherTransmitted ==
  at = "wait" /\ tx_complete => ((tx_remaining = 0) <=> (Len(sent) = tx_length))

\* A frame that phy_receive_frame() copies is one that arrived and was not copied before,
\* as much of it as the buffer holds, unless one of its events was cleared unhandled.
CopiesWhatArrived ==
  [][CopyFrame => event_lost \/ (arrived # <<>> /\ rx_buffer = Cut(arrived))]_vars

\* A call of phy_transmit_frame() returns, whatever the other nodes transmit meanwhile, unless
\* there is a bus error.
TransmissionEnds == (at = "start") ~> (at = "main" \/ bus = "stuck")
=============================================================================
