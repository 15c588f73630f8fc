------------------------------ MODULE DllOneWay ------------------------------
(***************************************************************************)
(* The data link layer where one node sends, one node is sent to and the   *)
(* others overhear: there it implements PacketChannel.  Of settings with   *)
(* other traffic this module says nothing.                                 *)
(***************************************************************************)
EXTENDS Dll

CONSTANTS
  Sender,
  Receiver

ASSUME OneWayAssumption ==
  /\ Sender \in Node /\ Receiver \in Node /\ Sender # Receiver
  /\ \A p \in PacketsOf(Sender) : Bytes(p) # None

-----------------------------------------------------------------------------
OneWay ==
  /\ \A p \in Packets : p.to = Receiver
  /\ \A n \in Node \ {Sender} : setting.outbox[n] = {}

\* The channel is not used in other settings.
Channel == INSTANCE PacketChannel WITH
  Packet    <- {Bytes(p) : p \in PacketsOf(Sender)},
  reliable  <- ~ setting.lossy,
  sending   <- IF OneWay /\ Running(Sender, "send") THEN Bytes(Top(Sender).packet) ELSE None,
  delivered <- IF OneWay THEN [i \in DOMAIN delivered[Receiver] |-> delivered[Receiver][i].data]
               ELSE <<>>

\* dll_send_packet() and receive_frame() together are a channel that delivers each packet once,
\* whole and before the call returns, whatever frames and acknowledgements are lost; and if
\* none are, it delivers and every call returns.
ImplementsChannel == Channel!Spec

\* The frame that the receiver will take next; during a callback it takes none.
Arriving == OneWay /\ rx_frame[Receiver] # None /\ ~ Running(Receiver, "callback")

\* The sequence number of a frame that arrives is the one the receiver expects: the check in
\* process_received_frame() that has no consequence would not have had one here.
SequenceAgrees == Arriving => rx_frame[Receiver].seq = sequence_number_counter[Receiver]

\* While a frame of a packet arrives, the receiver counts exactly the bytes of the frames
\* before it: received_packet_length and the sender's frame_number stay in step.
LengthAgrees ==
  Arriving /\ Running(Sender, "send") =>
    received_packet_length[Receiver] = FragSize * Top(Sender).frame_number
=============================================================================
