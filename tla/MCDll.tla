-------------------------------- MODULE MCDll --------------------------------
(***************************************************************************)
(* Instances of Dll.tla: frames of two bytes, buffers of four, a byte that *)
(* counts to seven.                                                        *)
(***************************************************************************)
EXTENDS DllOneWay

CONSTANTS A, B, C   \* addresses

Packet(id, to, length) == [id |-> id, to |-> to, length |-> length]

Setting(from_A, from_B, from_C, nested, lossy) ==
  [outbox |-> [n \in Node |-> CASE n = A -> from_A [] n = B -> from_B [] n = C -> from_C],
   nested |-> nested, lossy |-> lossy]

\* A sends B packets of one frame, of two, of a full buffer, and one that is too big.
OneSends == {Packet(1, B, 1), Packet(2, B, 3), Packet(3, B, 4), Packet(4, B, 5)}

\* One way; A and C send to B, in one frame each; A and C send to each other and to B, A also
\* from the callback.
MCSettings ==
  {Setting(OneSends, {}, {}, FALSE, lossy) : lossy \in BOOLEAN} \cup
  {Setting({Packet(1, B, 1), Packet(2, B, 2)}, {}, {Packet(3, B, 1)}, FALSE, TRUE),
   Setting({Packet(1, B, 3), Packet(2, C, 2)}, {}, {Packet(3, A, 2)}, TRUE, TRUE)}

\* A and B send to each other, in one frame.
MCExchange == {Setting({Packet(1, B, 2)}, {Packet(2, A, 2)}, {}, FALSE, FALSE)}
=============================================================================
