------------------------------ MODULE PhyProofs ------------------------------
(***************************************************************************)
(* Proofs about the physical layer, for frames of any length, a receive    *)
(* buffer of any size, and bus errors or none.                             *)
(***************************************************************************)
EXTENDS Phy, TLAPS

\* The first n bytes of the frame of that name.
FirstBytes(name, n) == [i \in 1 .. n |-> <<name, i>>]

\* As many of n bytes as the receive buffer can hold.
Held(n) == IF n < MaxRxFrame THEN n ELSE MaxRxFrame

-----------------------------------------------------------------------------
(* The inductive invariant.                                                *)

\* The types, with the sequences' elements; TWDR has no type of its own.
Types ==
  /\ TypeOK
  /\ rx_buffer \in Seq({0, 1} \X Nat) /\ sent \in Seq({"own"} \X Nat)
  /\ incoming \in [name : {0, 1}, length : Nat, sent : Nat]

\* The interrupt cannot come between the test of rx_complete and the copy of the frame.
Excluded ==
  /\ at \in {"check", "disable"} => ~ sei
  /\ at \in {"copy", "enable"} => ~ TWIE
  /\ at \in {"disable", "copy"} => rx_complete

\* The bytes of the own frame that the interrupt routine has put into TWDR.
Loaded == tx_length - tx_remaining

\* A transmission that was not granted the bus so far.
Fresh == Loaded = 0 /\ ~ tx_complete /\ sent = <<>>

\* The own frame on the bus: a start is due, or the byte in TWDR, or the next one.
OwnFrame ==
  /\ at = "wait" /\ ~ tx_complete
  /\ \/ TWINT = "start" /\ TWSTA
     \/ /\ TWINT = "none" /\ ~ TWSTA /\ TWDR = <<"own", Loaded>>
        /\ sent = FirstBytes("own", IF Loaded = 0 THEN 0 ELSE Loaded - 1)
     \/ /\ TWINT = "sent" /\ ~ TWSTA
        /\ sent = FirstBytes("own", Loaded)

\* The byte in TWDR was lost.
Losing ==
  /\ bus = "unheard" /\ at = "wait" /\ ~ tx_complete /\ ~ TWSTA
  /\ Loaded > 0 /\ sent = FirstBytes("own", Loaded - 1)

Transmitting ==
  /\ at = "start" => Fresh
  /\ TWSTA => at = "wait" /\ Fresh
  /\ TWINT \in {"start", "sent"} => bus = "own"
  /\ bus = "own" => OwnFrame
  /\ TWINT = "arbitration lost" => Losing

\* The events of a frame that arrives, and the bus they are raised on.
Frames ==
  /\ TWINT \in {"addressed", "received"} => bus = "other"
  /\ TWINT = "stop" => bus = "free"
  /\ TWINT = "addressed" => incoming.sent = 0
  /\ TWINT = "received" => incoming.sent > 0 /\ TWDR = <<incoming.name, incoming.sent>>
  /\ bus = "other" => /\ TWINT \in {"none", "addressed", "received"}
                      /\ incoming.sent <= incoming.length
  /\ bus = "other" \/ TWINT = "stop" => incoming.length > 0

\* The buffer holds the n bytes of the frame that were handed over, as far as it can.
Holds(n) == ~ rx_complete /\ rx_buffer = FirstBytes(incoming.name, Held(n))

Receiving ==
  ~ event_lost =>
    /\ rx_complete => arrived # <<>> /\ rx_buffer = Cut(arrived)
    /\ bus = "other" /\ TWINT = "none" => Holds(incoming.sent)
    /\ TWINT = "received" => Holds(incoming.sent - 1)
    /\ TWINT = "stop" => arrived = Bytes(incoming) /\ Holds(incoming.length)

IInv == Types /\ Excluded /\ Transmitting /\ SentInOrder /\ Frames /\ Receiving

-----------------------------------------------------------------------------
(* The bytes of frames.                                                    *)

LEMMA ConstantsTyped ==
  /\ \A length \in TxLengths : length \in Nat /\ length > 0
  /\ \A length \in RxLengths : length \in Nat /\ length > 0
  /\ MaxRxFrame \in Nat \ {0} /\ BusErrors \in BOOLEAN
  BY PhyAssumption

LEMMA FirstBytesFacts ==
  ASSUME NEW name, NEW n \in Nat
  PROVE  /\ FirstBytes(name, n) \in Seq({name} \X Nat)
         /\ Len(FirstBytes(name, n)) = n
         /\ FirstBytes(name, 0) = <<>>
         /\ Append(FirstBytes(name, n), <<name, n + 1>>) = FirstBytes(name, n + 1)
         /\ n > 0 => FirstBytes(name, n) # <<>>
<1>1. /\ FirstBytes(name, n) \in Seq({name} \X Nat)
      /\ Len(FirstBytes(name, n)) = n
      /\ FirstBytes(name, 0) = <<>>
  BY DEF FirstBytes
<1>2. Append(FirstBytes(name, n), <<name, n + 1>>) = FirstBytes(name, n + 1)
  BY DEF FirstBytes
<1>3. Len(<<>>) = 0
  OBVIOUS
<1>. QED  BY <1>1, <1>2, <1>3

\* What the buffer holds of a whole frame.
LEMMA CutFrame ==
  ASSUME NEW name, NEW n \in Nat
  PROVE  Cut(FirstBytes(name, n)) = FirstBytes(name, Held(n))
<1>1. MaxRxFrame \in Nat
  BY ConstantsTyped
<1>2. Len(FirstBytes(name, n)) = n /\ FirstBytes(name, n) \in Seq({name} \X Nat)
  BY FirstBytesFacts
<1>3. Cut(FirstBytes(name, n)) = SubSeq(FirstBytes(name, n), 1, Held(n)) /\ Held(n) \in 0 .. n
  BY <1>1, <1>2 DEF Cut, Held
<1>. QED  BY <1>1, <1>2, <1>3 DEF FirstBytes

\* A byte more is held if there is room for it.
LEMMA HeldGrows ==
  ASSUME NEW n \in Nat
  PROVE  /\ Held(n) \in Nat /\ Held(0) = 0
         /\ Held(n) < MaxRxFrame => Held(n) = n /\ Held(n + 1) = n + 1
         /\ ~ (Held(n) < MaxRxFrame) => Held(n + 1) = Held(n)
  BY ConstantsTyped DEF Held

-----------------------------------------------------------------------------
(* Every step preserves the invariant, part by part.                       *)

LEMMA Counts ==
  ASSUME Types
  PROVE  /\ tx_length \in Nat /\ tx_remaining \in Nat /\ tx_remaining <= tx_length
         /\ Loaded \in Nat /\ Loaded <= tx_length /\ (tx_remaining = 0 <=> Loaded = tx_length)
<1>1. tx_length \in Nat
  <2>1. tx_length \in TxLengths \/ tx_length = 0
    BY DEF Types, TypeOK
  <2>. QED  BY <2>1, ConstantsTyped
<1>2. tx_remaining \in 0 .. tx_length
  BY DEF Types, TypeOK
<1>. QED  BY <1>1, <1>2 DEF Loaded

\* The frames' lengths are kept as numbers.
LEMMA CountsStep ==
  Types /\ [Next]_vars => tx_length' \in TxLengths \cup {0} /\ tx_remaining' \in 0 .. tx_length'
<1>. SUFFICES ASSUME Types, [Next]_vars
              PROVE  tx_length' \in TxLengths \cup {0} /\ tx_remaining' \in 0 .. tx_length'
  OBVIOUS
<1>1. ASSUME NEW length \in TxLengths, CallTransmit(length)
      PROVE  tx_length' \in TxLengths \cup {0} /\ tx_remaining' \in 0 .. tx_length'
  <2>1. tx_length' = length /\ tx_remaining' = length /\ length \in Nat
    BY <1>1, ConstantsTyped DEF CallTransmit
  <2>. QED  BY <1>1, <2>1
<1>2. CASE ByteSent
  <2>1. tx_length' = tx_length /\ tx_remaining' = tx_remaining - 1 /\ tx_remaining # 0
    BY <1>2 DEF ByteSent
  <2>2. tx_length \in TxLengths \cup {0}
    BY DEF Types, TypeOK
  <2>3. tx_length \in Nat /\ tx_remaining \in Nat /\ tx_remaining <= tx_length
    BY Counts
  <2>4. tx_remaining - 1 \in 0 .. tx_length
    BY <2>1, <2>3
  <2>. QED  BY <2>1, <2>2, <2>4
<1>3. CASE UNCHANGED <<tx_length, tx_remaining>>
  BY <1>3 DEF Types, TypeOK
<1>4. CASE Thread /\ ~ \E length \in TxLengths : CallTransmit(length)
  BY <1>3, <1>4 DEF Thread, AskForStart, ReturnFromTransmit, CallReceive, NothingReceived,
     ReadToDisable, DisableInterrupt, CopyFrame, EnableInterrupt, tx
<1>5. CASE TWI_vect /\ ~ ByteSent
  BY <1>3, <1>5 DEF TWI_vect, StartSent, LastByteSent, ArbitrationLost, Addressed, ByteReceived,
     StopReceived, BusErrorSeen, tx
<1>6. CASE SendStart \/ OwnBytes \/ OtherBytes \/ BusError \/ \E n \in RxLengths : OtherStarts(n)
  BY <1>3, <1>6 DEF SendStart, OwnBytes, SendByte, LoseArbitration, OtherBytes, OtherSends,
     OtherStops, UnheardEnds, BusError, OtherStarts, tx
<1>. QED  BY <1>1, <1>2, <1>3, <1>4, <1>5, <1>6 DEF Next, vars, tx

\* What the histories and the buffer are made of.
Elements ==
  /\ rx_buffer \in Seq({0, 1} \X Nat) /\ Len(rx_buffer) <= MaxRxFrame
  /\ sent \in Seq({"own"} \X Nat)
  /\ incoming \in [name : {0, 1}, length : Nat, sent : Nat]

LEMMA ElementsStep == Types /\ Frames /\ Transmitting /\ [Next]_vars => Elements'
<1>. SUFFICES ASSUME Types, Frames, Transmitting, [Next]_vars PROVE Elements'
  OBVIOUS
<1>1. Elements
  BY DEF Types, TypeOK, Elements
<1>2. CASE UNCHANGED <<rx_buffer, sent, incoming>>
  BY <1>1, <1>2 DEF Elements
<1>3. CASE Thread
  <2>1. ASSUME NEW length \in TxLengths, CallTransmit(length) PROVE Elements'
    BY <1>1, <2>1 DEF Elements, CallTransmit, rx, hardware
  <2>2. CASE ~ \E length \in TxLengths : CallTransmit(length)
    BY <1>2, <1>3, <2>2 DEF Thread, AskForStart, ReturnFromTransmit, CallReceive, NothingReceived,
       ReadToDisable, DisableInterrupt, CopyFrame, EnableInterrupt, rx, hardware, history
  <2>. QED  BY <2>1, <2>2
<1>4. CASE Addressed
  BY <1>1, <1>4, ConstantsTyped DEF Elements, Addressed, EmptyBuffer
<1>5. CASE ByteReceived
  <2>1. /\ rx_buffer' = IF HasRoom THEN Append(rx_buffer, TWDR) ELSE rx_buffer
        /\ TWDR = <<incoming.name, incoming.sent>>
        /\ sent' = sent /\ incoming' = incoming
    BY <1>5 DEF ByteReceived, Frames, Handles, history
  <2>2. TWDR \in {0, 1} \X Nat
    BY <1>1, <2>1 DEF Elements
  <2>. HIDE DEF Elements
  <2>3. CASE HasRoom
    <3>1. rx_buffer' = Append(rx_buffer, TWDR) /\ Len(rx_buffer) < MaxRxFrame
      BY <2>1, <2>3 DEF HasRoom
    <3>2. rx_buffer' \in Seq({0, 1} \X Nat) /\ Len(rx_buffer') = Len(rx_buffer) + 1
          /\ Len(rx_buffer) \in Nat
      BY <1>1, <2>2, <3>1 DEF Elements
    <3>. QED  BY <1>1, <2>1, <3>1, <3>2, ConstantsTyped DEF Elements
  <2>4. CASE ~ HasRoom
    BY <1>1, <2>1, <2>4 DEF Elements
  <2>. QED  BY <2>3, <2>4
<1>6. CASE TWI_vect /\ ~ Addressed /\ ~ ByteReceived
  BY <1>2, <1>6 DEF TWI_vect, StartSent, ByteSent, LastByteSent, ArbitrationLost, StopReceived,
     BusErrorSeen, rx, history
<1>7. CASE SendByte
  <2>1. /\ sent' = (IF TWDR = <<"own", 0>> THEN sent ELSE Append(sent, TWDR))
        /\ bus = "own" /\ TWINT = "none" /\ rx_buffer' = rx_buffer /\ incoming' = incoming
    BY <1>7 DEF SendByte, Raises, Pending, rx
  <2>2. TWDR = <<"own", Loaded>> /\ Loaded \in Nat
    BY <2>1, Counts DEF Transmitting, OwnFrame
  <2>3. TWDR \in {"own"} \X Nat
    BY <2>2
  <2>4. Append(sent, TWDR) \in Seq({"own"} \X Nat)
    BY <1>1, <2>3 DEF Elements
  <2>. QED  BY <1>1, <2>1, <2>4 DEF Elements
<1>8. ASSUME NEW length \in RxLengths, OtherStarts(length) PROVE Elements'
  <2>1. /\ incoming' = [name |-> 1 - incoming.name, length |-> length, sent |-> 0]
        /\ length \in Nat /\ 1 - incoming.name \in {0, 1}
    BY <1>1, <1>8, ConstantsTyped DEF OtherStarts, Elements
  <2>. QED  BY <1>1, <1>8, <2>1 DEF Elements, OtherStarts, rx, history
<1>9. CASE OtherSends
  <2>1. /\ incoming' = [incoming EXCEPT !.sent = @ + 1]
        /\ incoming \in [name : {0, 1}, length : Nat, sent : Nat]
        /\ UNCHANGED <<rx_buffer, sent>>
    BY <1>1, <1>9 DEF Elements, OtherSends, rx, history
  <2>2. incoming' \in [name : {0, 1}, length : Nat, sent : Nat]
    BY <2>1
  <2>. QED  BY <1>1, <2>1, <2>2 DEF Elements
<1>10. CASE SendStart \/ LoseArbitration \/ OtherStops \/ UnheardEnds \/ BusError
  BY <1>2, <1>10 DEF SendStart, LoseArbitration, OtherStops, UnheardEnds, BusError, rx, history
<1>. QED
  BY <1>2, <1>3, <1>4, <1>5, <1>6, <1>7, <1>8, <1>9, <1>10
  DEF Next, OwnBytes, OtherBytes, vars, rx, hardware, history

LEMMA TypesStep == Types /\ Frames /\ Transmitting /\ [Next]_vars => Types'
<1>. SUFFICES ASSUME Types, Frames, Transmitting, [Next]_vars PROVE Types'
  OBVIOUS
<1>. DEFINE Control ==
              /\ at \in {"main", "start", "wait", "check", "disable", "copy", "enable"}
              /\ sei \in BOOLEAN /\ twcr_read \in BOOLEAN
              /\ tx_complete \in BOOLEAN /\ rx_complete \in BOOLEAN
              /\ TWSTA \in BOOLEAN /\ TWIE \in BOOLEAN /\ event_lost \in BOOLEAN
            Events ==
              /\ TWINT \in {"none", "start", "sent", "arbitration lost", "addressed", "received",
                            "stop", "bus error"}
              /\ bus \in {"free", "own", "other", "unheard", "stuck"}
<1>1. Control /\ Events
  BY DEF Types, TypeOK
<1>. USE DEF thread, tx, rx, hardware, history
<1>2. Control'
  <2>1. CASE Thread
    <3>1. CASE AskForStart
      BY <1>1, <3>1 DEF AskForStart, Steps, ClearsEvent, Pending
    <3>4. CASE ReturnFromTransmit
      BY <1>1, <3>4 DEF ReturnFromTransmit, Steps
    <3>5. ASSUME NEW n \in TxLengths, CallTransmit(n) PROVE Control'
      BY <1>1, <3>5 DEF CallTransmit, Steps
    <3>2. CASE CallReceive \/ NothingReceived \/ ReadToDisable
      BY <1>1, <3>2 DEF CallReceive, NothingReceived, ReadToDisable, Steps, Pending
    <3>3. CASE DisableInterrupt \/ CopyFrame \/ EnableInterrupt
      BY <1>1, <3>3 DEF DisableInterrupt, CopyFrame, EnableInterrupt, Steps, ClearsEvent, Pending
    <3>. HIDE DEF Control
    <3>. QED  BY <2>1, <3>1, <3>2, <3>3, <3>4, <3>5 DEF Thread
  <2>2. CASE TWI_vect
    BY <1>1, <2>2 DEF TWI_vect, StartSent, ByteSent, LastByteSent, ArbitrationLost,
       CompleteWhenLost, Addressed, ByteReceived, StopReceived, BusErrorSeen
  <2>3. CASE SendStart \/ OwnBytes \/ OtherBytes \/ BusError \/ \E n \in RxLengths : OtherStarts(n)
    BY <1>1, <2>3 DEF SendStart, OwnBytes, SendByte, LoseArbitration, OtherBytes, OtherSends,
       OtherStops, UnheardEnds, BusError, OtherStarts
  <2>4. CASE UNCHANGED vars
    BY <1>1, <2>4 DEF vars
  <2>. QED  BY <2>1, <2>2, <2>3, <2>4 DEF Next
<1>3. Events'
  <2>1. CASE Thread
    BY <1>1, <2>1 DEF Thread, CallTransmit, AskForStart, ReturnFromTransmit, CallReceive,
       NothingReceived, ReadToDisable, DisableInterrupt, CopyFrame, EnableInterrupt, ClearsEvent
  <2>2. CASE TWI_vect
    BY <1>1, <2>2 DEF TWI_vect, StartSent, ByteSent, LastByteSent, ArbitrationLost,
       Addressed, ByteReceived, StopReceived, BusErrorSeen, Handles
  <2>3. CASE SendStart \/ OwnBytes \/ OtherBytes \/ BusError \/ \E n \in RxLengths : OtherStarts(n)
    BY <1>1, <2>3 DEF SendStart, OwnBytes, SendByte, LoseArbitration, OtherBytes, OtherSends,
       OtherStops, UnheardEnds, BusError, OtherStarts, Raises
  <2>4. CASE UNCHANGED vars
    BY <1>1, <2>4 DEF vars
  <2>. QED  BY <2>1, <2>2, <2>3, <2>4 DEF Next
<1>. HIDE DEF thread, tx, rx, hardware, history
<1>4. TypeOK'
  BY <1>2, <1>3, CountsStep, ElementsStep DEF TypeOK, Elements
<1>. QED  BY <1>4, ElementsStep DEF Types, Elements

LEMMA ExcludedStep == TypeOK /\ Excluded /\ [Next]_vars => Excluded'
<1>. SUFFICES ASSUME TypeOK, Excluded, [Next]_vars PROVE Excluded'
  OBVIOUS
<1>. USE DEF Excluded, Steps, thread, tx, rx, hardware, history
<1>1. CASE UNCHANGED <<thread, sei, rx_complete, TWIE>>
  BY <1>1
<1>2. ASSUME NEW length \in TxLengths, CallTransmit(length) PROVE Excluded'
  BY <1>2 DEF CallTransmit
<1>3. CASE AskForStart \/ ReturnFromTransmit \/ CallReceive \/ NothingReceived
  BY <1>3 DEF AskForStart, ReturnFromTransmit, CallReceive, NothingReceived
<1>4. CASE ReadToDisable
  BY <1>4 DEF ReadToDisable
<1>5. CASE DisableInterrupt
  BY <1>5 DEF DisableInterrupt
<1>6. CASE CopyFrame \/ EnableInterrupt
  BY <1>6 DEF CopyFrame, EnableInterrupt
<1>7. CASE StartSent \/ ByteSent \/ LastByteSent \/ ArbitrationLost \/ ByteReceived \/ BusErrorSeen
  BY <1>1, <1>7 DEF StartSent, ByteSent, LastByteSent, ArbitrationLost, ByteReceived, BusErrorSeen
<1>8. CASE Addressed \/ StopReceived
  BY <1>8 DEF Addressed, StopReceived, Handles, InterruptDue
<1>9. CASE SendStart \/ OwnBytes \/ OtherBytes \/ BusError
  BY <1>1, <1>9 DEF SendStart, OwnBytes, SendByte, LoseArbitration, OtherBytes, OtherSends,
     OtherStops, UnheardEnds, BusError
<1>10. ASSUME NEW length \in RxLengths, OtherStarts(length) PROVE Excluded'
  BY <1>1, <1>10 DEF OtherStarts
<1>11. CASE UNCHANGED vars
  BY <1>1, <1>11 DEF vars
<1>. QED
  BY <1>2, <1>3, <1>4, <1>5, <1>6, <1>7, <1>8, <1>9, <1>10, <1>11 DEF Next, Thread, TWI_vect

\* The frame of another node, field by field.
LEMMA IncomingTyped ==
  ASSUME Types
  PROVE  /\ incoming \in [name : {0, 1}, length : Nat, sent : Nat]
         /\ incoming.length \in Nat /\ incoming.sent \in Nat
  BY DEF Types

LEMMA FramesStep == Types /\ Transmitting /\ Frames /\ [Next]_vars => Frames'
<1>. SUFFICES ASSUME Types, Transmitting, Frames, [Next]_vars PROVE Frames'
  OBVIOUS
<1>. USE DEF Frames, Pending, Steps, ClearsEvent, Handles, Raises,
             thread, tx, rx, hardware, history
<1>1. ASSUME NEW length \in TxLengths, CallTransmit(length) PROVE Frames'
  BY <1>1 DEF CallTransmit
<1>2. CASE AskForStart \/ ReturnFromTransmit \/ CallReceive \/ NothingReceived
  BY <1>2 DEF AskForStart, ReturnFromTransmit, CallReceive, NothingReceived
<1>3. CASE ReadToDisable \/ DisableInterrupt \/ CopyFrame \/ EnableInterrupt
  BY <1>3 DEF ReadToDisable, DisableInterrupt, CopyFrame, EnableInterrupt
<1>4. CASE StartSent \/ ByteSent \/ LastByteSent \/ ArbitrationLost
  BY <1>4 DEF StartSent, ByteSent, LastByteSent, ArbitrationLost
<1>5. CASE Addressed \/ ByteReceived \/ StopReceived \/ BusErrorSeen
  BY <1>5 DEF Addressed, ByteReceived, StopReceived, BusErrorSeen
<1>6. CASE SendStart \/ SendByte \/ LoseArbitration \/ UnheardEnds
  BY <1>6 DEF SendStart, SendByte, LoseArbitration, UnheardEnds
<1>7. ASSUME NEW length \in RxLengths, OtherStarts(length) PROVE Frames'
  BY <1>7, ConstantsTyped DEF OtherStarts
<1>8. CASE OtherSends
  <2>1. /\ TWINT' = "received" /\ TWDR' = Bytes(incoming)[incoming.sent + 1]
        /\ incoming' = [incoming EXCEPT !.sent = @ + 1]
        /\ bus = "other" /\ bus' = bus /\ incoming.sent < incoming.length
    BY <1>8 DEF OtherSends
  <2>2. /\ incoming.sent \in Nat /\ incoming.length \in Nat /\ incoming.sent + 1 \in 1 .. incoming.length
        /\ incoming'.sent = incoming.sent + 1 /\ incoming'.length = incoming.length
        /\ incoming'.name = incoming.name
    BY <2>1, IncomingTyped
  <2>3. TWDR' = <<incoming.name, incoming.sent + 1>>
    BY <2>1, <2>2 DEF Bytes
  <2>4. incoming.sent + 1 > 0 /\ incoming.sent + 1 <= incoming.length /\ incoming.length > 0
    BY <2>1, <2>2
  <2>. QED  BY <2>1, <2>2, <2>3, <2>4
<1>9. CASE OtherStops \/ BusError
  BY <1>9 DEF OtherStops, BusError
<1>10. CASE UNCHANGED vars
  BY <1>10 DEF vars
<1>. QED
  BY <1>1, <1>2, <1>3, <1>4, <1>5, <1>6, <1>7, <1>8, <1>9, <1>10
  DEF Next, Thread, TWI_vect, OwnBytes, OtherBytes

LEMMA ReceivingStep ==
  Types /\ Excluded /\ Frames /\ Receiving /\ [Next]_vars => Receiving'
<1>. SUFFICES ASSUME Types, Excluded, Frames, Receiving, [Next]_vars PROVE Receiving'
  OBVIOUS
<1>. USE DEF Receiving, Holds, Pending, InterruptDue, Steps, ClearsEvent, Handles,
             Raises, thread, tx, rx, hardware, history
<1>1. ASSUME NEW length \in TxLengths, CallTransmit(length) PROVE Receiving'
  BY <1>1 DEF CallTransmit
<1>2. CASE AskForStart \/ ReturnFromTransmit \/ CallReceive \/ NothingReceived
  BY <1>2 DEF AskForStart, ReturnFromTransmit, CallReceive, NothingReceived
<1>3. CASE ReadToDisable \/ DisableInterrupt \/ EnableInterrupt
  BY <1>3 DEF ReadToDisable, DisableInterrupt, EnableInterrupt
<1>4. CASE CopyFrame
  BY <1>4 DEF CopyFrame, Excluded
<1>5. CASE StartSent \/ ByteSent \/ LastByteSent \/ ArbitrationLost \/ BusErrorSeen
  BY <1>5 DEF StartSent, ByteSent, LastByteSent, ArbitrationLost, BusErrorSeen, Frames
<1>6. CASE Addressed
  <2>1. FirstBytes(incoming.name, Held(0)) = <<>>
    BY FirstBytesFacts, HeldGrows
  <2>. QED  BY <1>6, <2>1 DEF Addressed, EmptyBuffer, Frames
<1>7. CASE ByteReceived
  <2>1. SUFFICES ASSUME ~ event_lost
                 PROVE  ~ rx_complete /\ rx_buffer' = FirstBytes(incoming.name, Held(incoming.sent))
    BY <1>7 DEF ByteReceived
  <2>. DEFINE n == incoming.sent - 1
  <2>2. /\ n \in Nat /\ n + 1 = incoming.sent /\ TWDR = <<incoming.name, n + 1>>
        /\ ~ rx_complete /\ rx_buffer = FirstBytes(incoming.name, Held(n))
        /\ rx_buffer' = IF HasRoom THEN Append(rx_buffer, TWDR) ELSE rx_buffer
    BY <1>7, <2>1, IncomingTyped DEF ByteReceived, Frames
  <2>. HIDE DEF n
  <2>3. Held(n) \in Nat /\ Len(rx_buffer) = Held(n)
    BY <2>2, HeldGrows, FirstBytesFacts
  <2>4. CASE Held(n) < MaxRxFrame
    <3>1. Held(n) = n /\ Held(n + 1) = n + 1
      BY <2>2, <2>4, HeldGrows
    <3>2. Append(FirstBytes(incoming.name, n), <<incoming.name, n + 1>>)
            = FirstBytes(incoming.name, n + 1)
      BY <2>2, FirstBytesFacts
    <3>3. HasRoom
      BY <2>3, <2>4 DEF HasRoom
    <3>. QED  BY <2>2, <3>1, <3>2, <3>3, Zenon
  <2>5. CASE ~ (Held(n) < MaxRxFrame)
    <3>1. Held(n + 1) = Held(n)
      BY <2>2, <2>5, HeldGrows
    <3>2. ~ HasRoom
      BY <2>3, <2>5 DEF HasRoom
    <3>. QED  BY <2>2, <3>1, <3>2, Zenon
  <2>. QED  BY <2>4, <2>5
<1>8. CASE StopReceived
  <2>1. SUFFICES ASSUME ~ event_lost
                 PROVE  arrived # <<>> /\ rx_buffer = Cut(arrived)
    BY <1>8 DEF StopReceived, Frames
  <2>2. /\ arrived = FirstBytes(incoming.name, incoming.length)
        /\ rx_buffer = FirstBytes(incoming.name, Held(incoming.length))
        /\ incoming.length \in Nat /\ incoming.length > 0
    BY <1>8, <2>1, IncomingTyped DEF StopReceived, Frames, Bytes, FirstBytes
  <2>. QED  BY <2>2, CutFrame, FirstBytesFacts, Zenon
<1>9. CASE SendStart \/ SendByte \/ LoseArbitration \/ UnheardEnds \/ BusError
  BY <1>9 DEF SendStart, SendByte, LoseArbitration, UnheardEnds, BusError
<1>10. ASSUME NEW length \in RxLengths, OtherStarts(length) PROVE Receiving'
  BY <1>10 DEF OtherStarts
<1>11. CASE OtherSends
  <2>1. /\ incoming'.name = incoming.name /\ incoming'.sent = incoming.sent + 1
        /\ incoming.sent \in Nat
    BY <1>11, IncomingTyped DEF OtherSends
  <2>2. (incoming.sent + 1) - 1 = incoming.sent
    BY <2>1
  <2>. QED  BY <1>11, <2>1, <2>2 DEF OtherSends
<1>12. CASE OtherStops
  BY <1>12 DEF OtherStops
<1>13. CASE UNCHANGED vars
  BY <1>13 DEF vars, Bytes
<1>. QED
  BY <1>1, <1>2, <1>3, <1>4, <1>5, <1>6, <1>7, <1>8, <1>9, <1>10, <1>11, <1>12, <1>13
  DEF Next, Thread, TWI_vect, OwnBytes, OtherBytes

\* How the number of bytes loaded changes.
LEMMA LoadedStep ==
  ASSUME Types
  PROVE  /\ UNCHANGED <<tx_length, tx_remaining>> => Loaded' = Loaded
         /\ \A length \in TxLengths : CallTransmit(length) => Loaded' = 0
         /\ ByteSent => /\ Loaded' = Loaded + 1 /\ Loaded' # 0 /\ Loaded' - 1 = Loaded
                        /\ TWDR' = <<"own", Loaded'>>
         /\ Loaded \in Nat /\ (Loaded # 0 => Loaded > 0)
<1>1. UNCHANGED <<tx_length, tx_remaining>> => Loaded' = Loaded
  BY DEF Loaded
<1>2. ASSUME NEW length \in TxLengths, CallTransmit(length) PROVE Loaded' = 0
  <2>1. tx_length' = length /\ tx_remaining' = length /\ length \in Nat
    BY <1>2, ConstantsTyped DEF CallTransmit
  <2>. QED  BY <2>1 DEF Loaded
<1>3. ASSUME ByteSent
      PROVE  /\ Loaded' = Loaded + 1 /\ Loaded' # 0 /\ Loaded' - 1 = Loaded
             /\ TWDR' = <<"own", Loaded'>>
  <2>1. /\ tx_length' = tx_length /\ tx_remaining' = tx_remaining - 1
        /\ TWDR' = <<"own", tx_length - tx_remaining + 1>>
    BY <1>3 DEF ByteSent, NextByte
  <2>2. tx_length \in Nat /\ tx_remaining \in Nat /\ Loaded \in Nat
    BY Counts
  <2>3. Loaded' = tx_length - tx_remaining + 1 /\ Loaded = tx_length - tx_remaining
    BY <2>1, <2>2 DEF Loaded
  <2>. QED  BY <2>1, <2>2, <2>3
<1>4. Loaded \in Nat
  BY Counts
<1>. QED  BY <1>1, <1>2, <1>3, <1>4

LEMMA TransmittingStep == Types /\ Frames /\ Transmitting /\ [Next]_vars => Transmitting'
<1>. SUFFICES ASSUME Types, Frames, Transmitting, [Next]_vars PROVE Transmitting'
  OBVIOUS
<1>. USE DEF Fresh, OwnFrame, Losing, Steps, Pending, Raises
<1>0. tx' = tx => Loaded' = Loaded /\ tx_complete' = tx_complete
  BY LoadedStep DEF tx
<1>1. ASSUME NEW length \in TxLengths, CallTransmit(length) PROVE Transmitting'
  <2>1. Loaded' = 0
    BY <1>1, LoadedStep
  <2>2. /\ at = "main" /\ at' = "start" /\ ~ tx_complete' /\ sent' = <<>>
        /\ TWINT' = TWINT /\ TWSTA' = TWSTA /\ bus' = bus
    BY <1>1 DEF CallTransmit, hardware
  <2>. QED  BY <2>1, <2>2 DEF Transmitting
<1>2. CASE AskForStart
  <2>1. /\ at = "start" /\ at' = "wait" /\ TWSTA' /\ TWINT' = "none"
        /\ bus' = bus /\ sent' = sent /\ Loaded' = Loaded /\ tx_complete' = tx_complete
    BY <1>0, <1>2 DEF AskForStart, ClearsEvent
  <2>. QED  BY <2>1 DEF Transmitting
<1>3. CASE ReturnFromTransmit
  <2>1. /\ at = "wait" /\ at' = "main" /\ tx_complete /\ TWSTA' = TWSTA /\ TWINT' = TWINT /\ bus' = bus
    BY <1>3 DEF ReturnFromTransmit, hardware
  <2>. QED  BY <2>1 DEF Transmitting
<1>4. CASE CallReceive \/ NothingReceived \/ ReadToDisable \/ CopyFrame
  <2>1. at # "wait" /\ at' # "start" /\ TWSTA' = TWSTA /\ TWINT' = TWINT /\ bus' = bus
    BY <1>4 DEF CallReceive, NothingReceived, ReadToDisable, CopyFrame, hardware
  <2>. QED  BY <2>1 DEF Transmitting
<1>5. CASE DisableInterrupt \/ EnableInterrupt
  <2>1. at # "wait" /\ at' # "start" /\ TWSTA' = TWSTA /\ TWINT' \in {"none", TWINT} /\ bus' = bus
    BY <1>5 DEF DisableInterrupt, EnableInterrupt, ClearsEvent
  <2>. QED  BY <2>1 DEF Transmitting
<1>6. CASE StartSent
  <2>1. FirstBytes("own", 0) = <<>>
    BY FirstBytesFacts
  <2>2. /\ TWINT = "start" /\ TWINT' = "none" /\ TWDR' = <<"own", 0>> /\ ~ TWSTA'
        /\ at' = at /\ sent' = sent /\ bus' = bus /\ Loaded' = Loaded /\ tx_complete' = tx_complete
    BY <1>0, <1>6 DEF StartSent, Handles, thread, history
  <2>. QED  BY <2>1, <2>2 DEF Transmitting
<1>7. CASE ByteSent
  <2>1. Loaded' # 0 /\ Loaded' - 1 = Loaded /\ TWDR' = <<"own", Loaded'>>
    BY <1>7, LoadedStep
  <2>2. /\ TWINT = "sent" /\ TWINT' = "none" /\ TWSTA' = TWSTA /\ tx_complete' = tx_complete
        /\ at' = at /\ sent' = sent /\ bus' = bus
    BY <1>7 DEF ByteSent, Handles, thread, history
  <2>. QED  BY <2>1, <2>2 DEF Transmitting
<1>8. CASE LastByteSent
  <2>1. /\ TWINT = "sent" /\ TWINT' = "none" /\ TWSTA' = TWSTA /\ at' = at /\ bus' = "free"
    BY <1>8 DEF LastByteSent, Handles, thread
  <2>. QED  BY <2>1 DEF Transmitting
<1>9. CASE ArbitrationLost
  <2>1. /\ TWINT = "arbitration lost" /\ TWINT' = "none" /\ TWSTA' = TWSTA /\ at' = at /\ bus' = bus
    BY <1>9 DEF ArbitrationLost, Handles, thread
  <2>. QED  BY <2>1 DEF Transmitting
<1>10. CASE Addressed \/ ByteReceived \/ StopReceived \/ BusErrorSeen
  <2>1. /\ TWINT \in {"addressed", "received", "stop", "bus error"} /\ TWINT' = "none"
        /\ at' = at /\ TWSTA' = TWSTA /\ bus' = bus /\ sent' = sent
        /\ Loaded' = Loaded /\ tx_complete' = tx_complete
    BY <1>0, <1>10 DEF Addressed, ByteReceived, StopReceived, BusErrorSeen, Handles, thread, history
  <2>2. bus # "own"
    BY <2>1 DEF Transmitting
  <2>. QED  BY <2>1, <2>2 DEF Transmitting
<1>11. CASE SendStart
  <2>1. /\ TWINT' = "start" /\ bus' = "own" /\ TWSTA /\ TWSTA' = TWSTA /\ at' = at /\ sent' = sent
        /\ Loaded' = Loaded /\ tx_complete' = tx_complete
    BY <1>0, <1>11 DEF SendStart, thread, history
  <2>. QED  BY <2>1 DEF Transmitting
<1>12. CASE SendByte
  <2>1. /\ TWINT = "none" /\ TWINT' = "sent" /\ bus = "own" /\ bus' = bus /\ Loaded' = Loaded
        /\ at' = at /\ TWSTA' = TWSTA /\ tx_complete' = tx_complete /\ Loaded \in Nat
        /\ sent' = IF TWDR = <<"own", 0>> THEN sent ELSE Append(sent, TWDR)
    BY <1>0, <1>12, LoadedStep DEF SendByte, thread
  <2>2. /\ TWDR = <<"own", Loaded>> /\ sent = FirstBytes("own", IF Loaded = 0 THEN 0 ELSE Loaded - 1)
        /\ at = "wait" /\ ~ tx_complete /\ ~ TWSTA
    BY <2>1 DEF Transmitting
  <2>3. sent' = FirstBytes("own", Loaded)
    <3>1. CASE Loaded = 0
      BY <2>1, <2>2, <3>1
    <3>2. CASE Loaded # 0
      <4>. DEFINE n == Loaded - 1
      <4>1. n \in Nat /\ n + 1 = Loaded /\ sent = FirstBytes("own", n) /\ TWDR # <<"own", 0>>
        BY <2>1, <2>2, <3>2
      <4>. HIDE DEF n
      <4>2. Append(FirstBytes("own", n), <<"own", n + 1>>) = FirstBytes("own", n + 1)
        BY <4>1, FirstBytesFacts
      <4>. QED  BY <2>1, <2>2, <4>1, <4>2, Zenon
    <3>. QED  BY <3>1, <3>2
  <2>. QED  BY <2>1, <2>2, <2>3 DEF Transmitting
<1>13. CASE LoseArbitration
  <2>1. /\ TWINT = "none" /\ TWINT' = "arbitration lost" /\ TWDR # <<"own", 0>> /\ sent' = sent
        /\ bus = "own" /\ bus' = "unheard" /\ Loaded' = Loaded /\ at' = at /\ TWSTA' = TWSTA
        /\ tx_complete' = tx_complete
    BY <1>0, <1>13 DEF LoseArbitration, thread, history
  <2>2. /\ TWDR = <<"own", Loaded>> /\ sent = FirstBytes("own", IF Loaded = 0 THEN 0 ELSE Loaded - 1)
        /\ at = "wait" /\ ~ tx_complete /\ ~ TWSTA
    BY <2>1 DEF Transmitting
  <2>3. Loaded # 0 /\ Loaded > 0
    BY <2>1, <2>2, LoadedStep
  <2>. QED  BY <2>1, <2>2, <2>3 DEF Transmitting
<1>14. CASE UnheardEnds \/ OtherStops \/ BusError
  <2>1. /\ bus # "free" /\ bus' \in {"free", "stuck"} /\ TWINT = "none"
        /\ TWINT' \in {"none", "stop", "bus error"}
        /\ TWSTA' = TWSTA /\ at' = at /\ sent' = sent /\ Loaded' = Loaded /\ tx_complete' = tx_complete
    BY <1>0, <1>14 DEF UnheardEnds, OtherStops, BusError, thread, history
  <2>. QED  BY <2>1 DEF Transmitting
<1>15. CASE OtherSends \/ \E length \in RxLengths : OtherStarts(length)
  <2>1. /\ bus' = "other" /\ TWINT' \in {"addressed", "received"}
        /\ TWSTA' = TWSTA /\ at' = at /\ sent' = sent /\ Loaded' = Loaded /\ tx_complete' = tx_complete
    BY <1>0, <1>15 DEF OtherSends, OtherStarts, thread, history
  <2>. QED  BY <2>1 DEF Transmitting
<1>16. CASE UNCHANGED vars
  <2>1. UNCHANGED <<TWINT, TWSTA, TWDR, bus, at, sent, tx, tx_complete>>
    BY <1>16 DEF vars, thread, tx, hardware, history
  <2>. QED  BY <1>0, <2>1 DEF Transmitting
<1>. QED
  BY <1>1, <1>2, <1>3, <1>4, <1>5, <1>6, <1>7, <1>8, <1>9, <1>10, <1>11, <1>12, <1>13, <1>14,
     <1>15, <1>16
  DEF Next, Thread, TWI_vect, OwnBytes, OtherBytes

LEMMA ResultStep ==
  Types /\ Transmitting /\ SentInOrder /\ [Next]_vars => SentInOrder'
<1>. SUFFICES ASSUME Types, Transmitting, SentInOrder, [Next]_vars PROVE SentInOrder'
  OBVIOUS
<1>. USE DEF Steps, Handles, thread, tx, rx, hardware, history
<1>1. CASE UNCHANGED <<at, tx, sent>>
  BY <1>1 DEF SentInOrder
<1>2. CASE at' # "wait" \/ ~ tx_complete'
  BY <1>2 DEF SentInOrder
<1>3. CASE LastByteSent
  <2>1. sent = FirstBytes("own", Loaded) /\ Loaded = tx_length /\ tx_remaining = 0
    BY <1>3, Counts DEF LastByteSent, Transmitting, OwnFrame
  <2>2. Len(sent) = tx_length /\ sent = OwnBytesUpTo(tx_length)
    BY <2>1, Counts, FirstBytesFacts DEF FirstBytes, OwnBytesUpTo
  <2>3. tx_length \in 0 .. tx_length /\ tx_length >= tx_length - 1
    BY Counts
  <2>. QED  BY <1>3, <2>1, <2>2, <2>3 DEF LastByteSent, SentInOrder
<1>4. CASE ArbitrationLost
  <2>. DEFINE n == Loaded - 1
  <2>0. sent = FirstBytes("own", n) /\ Loaded > 0
    BY <1>4 DEF ArbitrationLost, Transmitting, Losing
  <2>1. /\ sent = FirstBytes("own", n) /\ n \in Nat /\ n \in 0 .. tx_length
        /\ n # tx_length /\ (tx_remaining = 0 => n >= tx_length - 1)
    <3>. HIDE DEF n
    <3>. QED  BY <2>0, Counts DEF n
  <2>. HIDE DEF n
  <2>2. Len(sent) = n /\ sent = OwnBytesUpTo(n)
    BY <2>1, FirstBytesFacts DEF FirstBytes, OwnBytesUpTo
  <2>. QED  BY <1>4, <2>1, <2>2 DEF ArbitrationLost, SentInOrder
<1>5. ASSUME NEW length \in TxLengths, CallTransmit(length) PROVE SentInOrder'
  BY <1>2, <1>5 DEF CallTransmit
<1>6. CASE AskForStart
  BY <1>2, <1>6 DEF AskForStart, Transmitting, Fresh
<1>7. CASE ReturnFromTransmit \/ CallReceive \/ NothingReceived \/ ReadToDisable
  BY <1>2, <1>7 DEF ReturnFromTransmit, CallReceive, NothingReceived, ReadToDisable
<1>8. CASE DisableInterrupt \/ CopyFrame \/ EnableInterrupt
  BY <1>2, <1>8 DEF DisableInterrupt, CopyFrame, EnableInterrupt
<1>9. CASE ByteSent \/ SendByte
  BY <1>2, <1>9 DEF ByteSent, SendByte, Transmitting, OwnFrame
<1>10. CASE StartSent \/ Addressed \/ ByteReceived \/ StopReceived \/ BusErrorSeen
  BY <1>1, <1>10 DEF StartSent, Addressed, ByteReceived, StopReceived, BusErrorSeen
<1>11. CASE SendStart \/ LoseArbitration \/ OtherBytes \/ BusError
  BY <1>1, <1>11 DEF SendStart, LoseArbitration, OtherBytes, OtherSends, OtherStops, UnheardEnds,
     BusError
<1>12. ASSUME NEW length \in RxLengths, OtherStarts(length) PROVE SentInOrder'
  BY <1>1, <1>12 DEF OtherStarts
<1>13. CASE UNCHANGED vars
  BY <1>1, <1>13 DEF vars
<1>. QED
  BY <1>3, <1>4, <1>5, <1>6, <1>7, <1>8, <1>9, <1>10, <1>11, <1>12, <1>13
  DEF Next, Thread, TWI_vect, OwnBytes

-----------------------------------------------------------------------------
(* The theorems.                                                           *)

THEOREM PhyInvariant == Spec => []IInv
<1>1. Init => IInv
  <2>. SUFFICES ASSUME Init PROVE IInv
    OBVIOUS
  <2>1. TypeOK
    <3>1. tx_remaining \in 0 .. tx_length /\ tx_length \in TxLengths \cup {0}
      BY DEF Init
    <3>2. Len(rx_buffer) <= MaxRxFrame
      BY ConstantsTyped DEF Init
    <3>. QED  BY <3>1, <3>2 DEF Init, TypeOK
  <2>2. Types
    BY <2>1 DEF Init, Types, NoFrame
  <2>3. Excluded /\ Frames /\ Receiving /\ Transmitting /\ SentInOrder
    BY DEF Init, Excluded, Frames, Receiving, Transmitting, SentInOrder
  <2>. QED  BY <2>2, <2>3 DEF IInv
<1>2. IInv /\ [Next]_vars => IInv'
  BY TypesStep, ExcludedStep, FramesStep, ReceivingStep, TransmittingStep, ResultStep DEF IInv, Types
<1>. QED  BY <1>1, <1>2, PTL DEF Spec

\* The statics of the interrupt routine keep their types: the receive buffer is never written
\* beyond its size, and no more bytes remain than the frame has.
THEOREM TypesKept == Spec => []TypeOK
<1>1. IInv => TypeOK
  BY DEF IInv, Types
<1>. QED  BY PhyInvariant, <1>1, PTL

\* What went out when phy_transmit_frame() returns is a beginning of the frame, and its result is
\* true of all bytes but the last, for frames of every length.
THEOREM SentInOrderAlways == Spec => []SentInOrder
<1>1. IInv => SentInOrder
  BY DEF IInv
<1>. QED  BY PhyInvariant, <1>1, PTL

\* phy_receive_frame() copies a frame that arrived whole and was not copied before, as much of
\* it as the buffer holds, whatever the interrupt does around the copy, unless the writes to
\* TWCR cleared one of the frame's events.
THEOREM CopiesAreTrue == Spec => CopiesWhatArrived
<1>1. IInv /\ CopyFrame => event_lost \/ (arrived # <<>> /\ rx_buffer = Cut(arrived))
  BY DEF IInv, Excluded, Receiving, CopyFrame, Steps
<1>2. IInv /\ [Next]_vars
        => [CopyFrame => event_lost \/ (arrived # <<>> /\ rx_buffer = Cut(arrived))]_vars
  BY <1>1
<1>. QED  BY PhyInvariant, <1>2, PTL DEF Spec, CopiesWhatArrived
=============================================================================
