---------------------------- MODULE PacketChannel ----------------------------
(***************************************************************************)
(* What dll_send_packet() promises between one sender and one receiver:    *)
(* one packet at a time, delivered once, whole and in order, and the call  *)
(* returns only when its packet was delivered.                             *)
(***************************************************************************)
EXTENDS Sequences

CONSTANTS
  Packet,   \* what may be sent
  None      \* no packet

VARIABLES
  reliable,   \* whether the line loses nothing; never changes
  sending,    \* the packet of the call in progress, or None
  delivered   \* the packets handed to the receiver's callback

vars == <<reliable, sending, delivered>>

Arrived == delivered # <<>> /\ delivered[Len(delivered)] = sending

Init == reliable \in BOOLEAN /\ sending = None /\ delivered = <<>>

\* A packet is sent once.
Send(p) == /\ sending = None
           /\ \A i \in DOMAIN delivered : delivered[i] # p
           /\ sending' = p
           /\ UNCHANGED <<reliable, delivered>>

Deliver == /\ sending # None /\ ~ Arrived
           /\ delivered' = Append(delivered, sending)
           /\ UNCHANGED <<reliable, sending>>

Return == /\ sending # None /\ Arrived
          /\ sending' = None
          /\ UNCHANGED <<reliable, delivered>>

Next == (\E p \in Packet : Send(p)) \/ Deliver \/ Return

\* On a line that loses nothing every call delivers and returns.
Spec == /\ Init /\ [][Next]_vars
        /\ WF_vars(reliable /\ Deliver) /\ WF_vars(reliable /\ Return)
=============================================================================
