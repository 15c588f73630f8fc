------------------------------ MODULE DllProofs ------------------------------
(***************************************************************************)
(* Proofs about the data link layer.                                       *)
(*                                                                         *)
(* First, on any number of nodes, with any packets, whatever is lost and   *)
(* however sends nest: the types, AckIsAwaited and DeliveredOnce.          *)
(*                                                                         *)
(* Then, where all traffic goes to one node r: from one sender, in frames  *)
(* of any number, or from any senders, in one frame each.                  *)
(*                                                                         *)
(* Last, with one sender and one receiver: only here OneWayAssumption is   *)
(* used.                                                                   *)
(***************************************************************************)
EXTENDS DllOneWay, FiniteSetTheorems, TLAPS

-----------------------------------------------------------------------------
(* Any traffic.  The types, with the frames and activations as sets.       *)

DataFrames ==
  {f \in [type : {"data"}, from : Node, to : Node \cup {Broadcast}, seq : {0, 1},
          last : BOOLEAN, data : Seq(BytesSent)] : Len(f.data) \in 1 .. FragSize}

Frames == [type : {"ack"}, from : Node, to : Node, seq : {0, 1}] \cup DataFrames

\* The activations of dll_send_packet(): what was sent of a packet and what is left make it up.
Sends ==
  {a \in [kind : {"send"}, packet : Packets, left : Nat, frame_number : Nat, seq : {0, 1},
          at : {"poll", "test"}] :
     /\ a.left > 0 /\ a.packet.length <= BufSize
     /\ a.frame_number * FragSize + a.left = a.packet.length}

Replies == [kind : {"reply"}, frame : DataFrames]

Activation == Sends \cup Replies \cup {[kind |-> "callback"]}

Types ==
  /\ setting \in Settings
  /\ stack \in [Node -> Seq(Activation)]
  /\ rx_frame \in [Node -> Frames \cup {None}]
  /\ ack \in [Node -> BOOLEAN]
  /\ received_packet_length \in [Node -> 0 .. Modulus - 1]
  /\ sequence_number_counter \in [Node -> {0, 1}]
  /\ packet_buffer_tx \in [Node -> [0 .. BufSize - 1 -> BytesSent]]
  /\ packet_buffer_rx \in [Node -> [0 .. BufSize - 1 -> BytesSent]]
  /\ delivered \in [Node -> Seq([from : Node, data : Seq(BytesSent)])]
  /\ unsent \in [Node -> SUBSET Packets]

-----------------------------------------------------------------------------
(* Facts about the operators.                                              *)

LEMMA ConstantsTyped ==
  /\ FragSize \in Nat /\ FragSize > 0 /\ BufSize \in Nat /\ BufSize > 0
  /\ Modulus \in Nat /\ BufSize < Modulus /\ IsFiniteSet(Node) /\ Broadcast \notin Node
  BY DllAssumption

\* A sequence without its last element, and with another in its place.
LEMMA LastReplaced ==
  ASSUME NEW A, NEW s \in Seq(A), s # <<>>, NEW a \in A
  PROVE  LET front == SubSeq(s, 1, Len(s) - 1)
         IN  /\ Len(s) \in Nat /\ Len(s) > 0 /\ s[Len(s)] \in A
             /\ front \in Seq(A) /\ Len(front) = Len(s) - 1
             /\ \A i \in 1 .. Len(s) - 1 : front[i] = s[i]
             /\ Append(front, a) \in Seq(A) /\ Len(Append(front, a)) = Len(s)
             /\ \A i \in 1 .. Len(s) - 1 : Append(front, a)[i] = s[i]
             /\ Append(front, a)[Len(s)] = a
<1>1. Len(s) \in Nat /\ Len(s) > 0 /\ s[Len(s)] \in A
  OBVIOUS
<1>. DEFINE front == SubSeq(s, 1, Len(s) - 1)
<1>2. front \in Seq(A) /\ Len(front) = Len(s) - 1 /\ \A i \in 1 .. Len(s) - 1 : front[i] = s[i]
  <2>. DEFINE m == Len(s) - 1
  <2>1. m \in Nat /\ m <= Len(s) /\ \A i \in 1 .. m : i \in 1 .. Len(s) /\ s[i] \in A
    BY <1>1
  <2>. HIDE DEF m
  <2>2. SubSeq(s, 1, m) = [i \in 1 .. m |-> s[i]]
    BY <1>1, <2>1
  <2>3. [i \in 1 .. m |-> s[i]] \in Seq(A) /\ Len([i \in 1 .. m |-> s[i]]) = m
    BY <2>1
  <2>. QED  BY <2>2, <2>3 DEF m
<1>. HIDE DEF front
<1>3. /\ Append(front, a) \in Seq(A) /\ Len(Append(front, a)) = Len(s)
      /\ \A i \in 1 .. Len(s) - 1 : Append(front, a)[i] = s[i]
      /\ Append(front, a)[Len(s)] = a
  BY <1>1, <1>2
<1>. QED  BY <1>1, <1>2, <1>3 DEF front

\* A sequence with an element more.
LEMMA Appended ==
  ASSUME NEW A, NEW s \in Seq(A), NEW a \in A
  PROVE  /\ Append(s, a) \in Seq(A) /\ Len(Append(s, a)) = Len(s) + 1 /\ Len(s) \in Nat
         /\ \A i \in 1 .. Len(s) : Append(s, a)[i] = s[i]
         /\ Append(s, a)[Len(s) + 1] = a
  OBVIOUS

LEMMA NoneTyped == None \in BytesSent
<1>. DEFINE B == UNION {{Byte(p, i) : i \in 1 .. p.length} : p \in Packets}
<1>1. BytesSent = B \cup {None}
  BY Zenon DEF BytesSent
<1>. HIDE DEF B
<1>. QED  BY <1>1

LEMMA PacketsTyped ==
  ASSUME setting \in Settings, NEW n \in Node, NEW p \in setting.outbox[n]
  PROVE  /\ p \in Packets /\ p.length \in Nat /\ p.length > 0 /\ p.length < Modulus
         /\ p.to \in (Node \ {n}) \cup {Broadcast}
         /\ \A i \in 1 .. p.length : Byte(p, i) \in BytesSent
<1>1. p \in Packets
  BY DEF Packets
<1>2. p.to \in (Node \ {n}) \cup {Broadcast} /\ p.length \in 1 .. Modulus - 1
  BY DllAssumption
<1>3. ASSUME NEW i \in 1 .. p.length PROVE Byte(p, i) \in BytesSent
  <2>. DEFINE Of(q) == {Byte(q, j) : j \in 1 .. q.length}
  <2>1. Byte(p, i) \in Of(p)
    OBVIOUS
  <2>. HIDE DEF Of
  <2>2. Byte(p, i) \in UNION {Of(q) : q \in Packets}
    BY <1>1, <2>1
  <2>. QED  BY <2>2 DEF Of, BytesSent
<1>. QED  BY <1>1, <1>2, <1>3, ConstantsTyped

\* The place of a frame's bytes in the packet.
LEMMA SendTyped ==
  ASSUME NEW send \in Sends
  PROVE  LET base == send.frame_number * FragSize
             size == IF IsLast(send) THEN send.left ELSE FragSize
         IN  /\ base \in Nat /\ base + send.left <= BufSize /\ size \in 1 .. FragSize
             /\ size <= send.left /\ send.frame_number <= BufSize /\ send.left <= BufSize
             /\ send.left \in Nat /\ send.left > 0 /\ send.frame_number \in Nat
             /\ send.seq \in {0, 1} /\ send.at \in {"poll", "test"} /\ send.packet \in Packets
             /\ base + send.left = send.packet.length
<1>. DEFINE base == send.frame_number * FragSize
<1>1. /\ send.frame_number \in Nat /\ send.left \in Nat /\ send.left > 0
      /\ base + send.left = send.packet.length /\ send.packet.length <= BufSize
      /\ send.seq \in {0, 1} /\ send.at \in {"poll", "test"} /\ send.packet \in Packets
  BY DEF Sends
<1>2. \A k, f \in Nat : f > 0 => k * f \in Nat /\ k <= k * f
  <2>. SUFFICES ASSUME NEW k \in Nat, NEW f \in Nat, f > 0 PROVE k * f \in Nat /\ k <= k * f
    OBVIOUS
  <2>1. k * f \in Nat /\ k * (f - 1) \in Nat /\ k * f = k * (f - 1) + k
    <3>1. f - 1 \in Nat
      OBVIOUS
    <3>. QED  BY <3>1
  <2>. QED  BY <2>1
<1>3. base \in Nat /\ send.frame_number <= base
  BY <1>1, <1>2, ConstantsTyped
<1>. HIDE DEF base
<1>. QED  BY <1>1, <1>3, ConstantsTyped DEF base, IsLast

LEMMA DataFrameTyped ==
  ASSUME NEW n \in Node, NEW send \in Sends, send.packet.to \in Node \cup {Broadcast},
         NEW buffer \in [0 .. BufSize - 1 -> BytesSent]
  PROVE  LET frame == DataFrame(n, buffer, send)
         IN  /\ frame \in Frames /\ frame \in DataFrames /\ frame.type = "data" /\ frame.from = n
             /\ frame.to = send.packet.to /\ frame.last = IsLast(send) /\ frame.seq = send.seq
<1>. DEFINE base == send.frame_number * FragSize
            size == IF IsLast(send) THEN send.left ELSE FragSize
            data == [i \in 1 .. size |-> buffer[base + i - 1]]
<1>1. /\ base \in Nat /\ base + send.left <= BufSize /\ size \in 1 .. FragSize
      /\ size <= send.left /\ send.seq \in {0, 1} /\ send.left \in Nat
  BY SendTyped
<1>2. DataFrame(n, buffer, send) =
        [type |-> "data", from |-> n, to |-> send.packet.to, seq |-> send.seq,
         last |-> IsLast(send), data |-> data]
  BY DEF DataFrame
<1>. HIDE DEF base, size
<1>3. \A i \in 1 .. size : buffer[base + i - 1] \in BytesSent
  <2>. SUFFICES ASSUME NEW i \in 1 .. size PROVE buffer[base + i - 1] \in BytesSent
    OBVIOUS
  <2>1. base + i - 1 \in 0 .. BufSize - 1
    BY <1>1, ConstantsTyped
  <2>. QED  BY <2>1
<1>4. data \in Seq(BytesSent) /\ Len(data) = size
  BY <1>1, <1>3, ConstantsTyped
<1>. HIDE DEF data
<1>5. IsLast(send) \in BOOLEAN
  BY DEF IsLast
<1>. QED  BY <1>1, <1>2, <1>4, <1>5 DEF Frames, DataFrames

LEMMA TransmittedTyped ==
  ASSUME NEW slots \in [Node -> Frames \cup {None}], NEW frame \in Frames, NEW R
  PROVE  Transmitted(slots, R, frame) \in [Node -> Frames \cup {None}]
  BY DEF Transmitted

LEMMA NextFrameTyped ==
  ASSUME NEW send \in Sends, ~ IsLast(send)
  PROVE  /\ NextFrame(send) \in Sends
         /\ NextFrame(send).packet = send.packet /\ NextFrame(send).kind = "send"
         /\ NextFrame(send).frame_number = send.frame_number + 1
         /\ NextFrame(send).left = send.left - FragSize
         /\ NextFrame(send).seq = 1 - send.seq /\ NextFrame(send).at = "poll"
<1>. DEFINE next == NextFrame(send)
            base == send.frame_number * FragSize
<1>1. send \in [kind : {"send"}, packet : Packets, left : Nat, frame_number : Nat, seq : {0, 1},
                at : {"poll", "test"}]
  BY DEF Sends
<1>2. /\ send.left > FragSize /\ send.left \in Nat /\ send.frame_number \in Nat
      /\ send.packet.length <= BufSize /\ base + send.left = send.packet.length
  BY <1>1, ConstantsTyped DEF Sends, IsLast
<1>3. /\ next \in [kind : {"send"}, packet : Packets, left : Nat, frame_number : Nat,
                   seq : {0, 1}, at : {"poll", "test"}]
      /\ next.packet = send.packet /\ next.kind = "send" /\ next.at = "poll"
      /\ next.frame_number = send.frame_number + 1 /\ next.left = send.left - FragSize
      /\ next.seq = 1 - send.seq
  <2>. DEFINE left == send.left - FragSize
              number == send.frame_number + 1
              seq == 1 - send.seq
  <2>1. left \in Nat /\ number \in Nat /\ seq \in {0, 1}
    BY <1>1, <1>2, ConstantsTyped
  <2>2. next = [send EXCEPT !.left = left, !.frame_number = number, !.seq = seq, !.at = "poll"]
    BY DEF NextFrame
  <2>. HIDE DEF left, number, seq, next
  <2>3. /\ next \in [kind : {"send"}, packet : Packets, left : Nat, frame_number : Nat,
                     seq : {0, 1}, at : {"poll", "test"}]
        /\ next.packet = send.packet /\ next.kind = "send" /\ next.at = "poll"
        /\ next.frame_number = number /\ next.left = left /\ next.seq = seq
    BY <1>1, <2>1, <2>2
  <2>. QED  BY <2>3 DEF left, number, seq
<1>4. \A k, f \in Nat : (k + 1) * f = k * f + f /\ k * f \in Nat
  OBVIOUS
<1>5. (send.frame_number + 1) * FragSize = base + FragSize /\ base \in Nat
  BY <1>2, <1>4, ConstantsTyped
<1>. HIDE DEF base
<1>6. next.frame_number * FragSize + next.left = base + send.left
  <2>1. next.frame_number * FragSize = base + FragSize
    BY <1>3, <1>5
  <2>. DEFINE product == next.frame_number * FragSize
  <2>. HIDE DEF product
  <2>. QED  BY <1>2, <1>3, <1>5, <2>1, ConstantsTyped DEF product
<1>7. next.left > 0 /\ next.packet.length <= BufSize
  BY <1>2, <1>3, ConstantsTyped
<1>8. next \in Sends
  BY <1>2, <1>3, <1>6, <1>7 DEF Sends
<1>. QED  BY <1>3, <1>8

\* The activation that runs, and the stack with another in its place or without it.
LEMMA TopTyped ==
  ASSUME Types, NEW n \in Node, ~ Idle(n)
  PROVE  /\ stack[n] \in Seq(Activation) /\ Len(stack[n]) \in Nat /\ Len(stack[n]) > 0
         /\ Top(n) \in Activation
         /\ Running(n, "send") <=> Top(n) \in Sends
         /\ Running(n, "reply") <=> Top(n) \in Replies
         /\ Running(n, "reply") => Top(n).frame \in DataFrames
         /\ Running(n, "callback") <=> Top(n) = [kind |-> "callback"]
         /\ Popped(n) \in Seq(Activation) /\ Len(Popped(n)) = Len(stack[n]) - 1
         /\ \A i \in 1 .. Len(stack[n]) - 1 : Popped(n)[i] = stack[n][i]
         /\ \A a \in Activation :
              /\ Replaced(n, a) \in Seq(Activation) /\ Len(Replaced(n, a)) = Len(stack[n])
              /\ \A i \in 1 .. Len(stack[n]) - 1 : Replaced(n, a)[i] = stack[n][i]
              /\ Replaced(n, a)[Len(stack[n])] = a
<1>1. stack[n] \in Seq(Activation) /\ stack[n] # <<>>
  BY DEF Types, Idle
<1>2. ASSUME NEW a \in Activation
      PROVE  /\ Len(stack[n]) \in Nat /\ Len(stack[n]) > 0 /\ stack[n][Len(stack[n])] \in Activation
             /\ Popped(n) \in Seq(Activation) /\ Len(Popped(n)) = Len(stack[n]) - 1
             /\ \A i \in 1 .. Len(stack[n]) - 1 : Popped(n)[i] = stack[n][i]
             /\ Replaced(n, a) \in Seq(Activation) /\ Len(Replaced(n, a)) = Len(stack[n])
             /\ \A i \in 1 .. Len(stack[n]) - 1 : Replaced(n, a)[i] = stack[n][i]
             /\ Replaced(n, a)[Len(stack[n])] = a
  BY <1>1, <1>2, LastReplaced DEF Popped, Replaced
<1>3. [kind |-> "callback"] \in Activation
  BY DEF Activation
<1>4. Top(n) \in Activation
  BY <1>2, <1>3 DEF Top
<1>5. ASSUME NEW a \in Activation
      PROVE  /\ a.kind = "send" <=> a \in Sends
             /\ a.kind = "reply" <=> a \in Replies
             /\ a.kind = "reply" => a.frame \in DataFrames
             /\ a.kind = "callback" <=> a = [kind |-> "callback"]
  BY DEF Activation, Sends, Replies
<1>. QED  BY <1>1, <1>2, <1>3, <1>4, <1>5 DEF Running

-----------------------------------------------------------------------------
(* Type correctness.                                                       *)

LEMMA SettingKept ==
  ASSUME [Next]_vars
  PROVE  /\ setting' = setting /\ Packets' = Packets /\ BytesSent' = BytesSent
         /\ Frames' = Frames /\ Activation' = Activation
<1>1. setting' = setting
  BY DEF Next, Run, vars, dll_send_packet, SendTooBig, Proceed, WaitOn, ReceiveOther, ReceiveAck,
     ReceiveData, Acknowledge, CallbackReturns
<1>2. Packets' = Packets
  BY <1>1 DEF Packets
<1>3. BytesSent' = BytesSent
  BY <1>2 DEF BytesSent
<1>4. Frames' = Frames /\ DataFrames' = DataFrames
  BY <1>3 DEF Frames, DataFrames
<1>5. Sends' = Sends /\ Replies' = Replies
  BY <1>2, <1>4 DEF Sends, Replies
<1>. QED  BY <1>1, <1>2, <1>3, <1>4, <1>5 DEF Activation

\* The send that dll_send_packet() starts, and its transmit buffer.
NewSend(p) == [kind |-> "send", packet |-> p, left |-> p.length, frame_number |-> 0,
               seq |-> 0, at |-> "poll"]
NewBuffer(n, p) == [i \in 0 .. BufSize - 1 |->
                      IF i < p.length THEN Byte(p, i + 1) ELSE packet_buffer_tx[n][i]]

LEMMA NewSendTyped ==
  ASSUME Types, NEW n \in Node, NEW p \in setting.outbox[n], ~ TooBig(p)
  PROVE  /\ NewSend(p) \in Sends /\ NewSend(p) \in Activation
         /\ NewBuffer(n, p) \in [0 .. BufSize - 1 -> BytesSent]
<1>1. /\ p \in Packets /\ p.length \in Nat /\ p.length > 0 /\ p.length <= BufSize
      /\ \A i \in 1 .. p.length : Byte(p, i) \in BytesSent
  BY PacketsTyped, ConstantsTyped DEF Types, TooBig
<1>2. NewSend(p) \in Sends
  <2>1. 0 * FragSize + p.length = p.length
    BY <1>1, ConstantsTyped
  <2>. QED  BY <1>1, <2>1 DEF Sends, NewSend
<1>3. packet_buffer_tx[n] \in [0 .. BufSize - 1 -> BytesSent]
  BY DEF Types
<1>4. ASSUME NEW i \in 0 .. BufSize - 1
      PROVE  (IF i < p.length THEN Byte(p, i + 1) ELSE packet_buffer_tx[n][i]) \in BytesSent
  <2>1. i \in Nat /\ (i < p.length => i + 1 \in 1 .. p.length)
    BY <1>1, ConstantsTyped
  <2>2. packet_buffer_tx[n][i] \in BytesSent
    BY <1>3
  <2>. QED  BY <1>1, <2>1, <2>2
<1>. QED  BY <1>2, <1>4 DEF NewBuffer, Activation

\* Where activations poll, and what is on the stack afterwards.
LEMMA PollTyped ==
  ASSUME Types, NEW n \in Node, Polls(n)
  PROVE  /\ AfterPoll(n) \in Seq(Activation) /\ Len(AfterPoll(n)) = Len(stack[n])
         /\ Len(stack[n]) \in Nat
         /\ \A i \in 1 .. Len(stack[n]) - 1 : AfterPoll(n)[i] = stack[n][i]
         /\ ~ Idle(n) => /\ Top(n) \in Sends /\ Running(n, "send") /\ Len(stack[n]) > 0
                         /\ AfterPoll(n)[Len(stack[n])] = [Top(n) EXCEPT !.at = "test"]
                         /\ [Top(n) EXCEPT !.at = "test"] \in Sends
<1>1. CASE Idle(n)
  <2>1. AfterPoll(n) = <<>> /\ stack[n] = <<>>
    BY <1>1 DEF AfterPoll, Idle
  <2>. QED  BY <1>1, <2>1
<1>2. CASE ~ Idle(n)
  <2>1. Running(n, "send") /\ Top(n) \in Sends
    BY <1>2, TopTyped DEF Polls
  <2>2. [Top(n) EXCEPT !.at = "test"] \in Sends
    BY <2>1 DEF Sends
  <2>3. [Top(n) EXCEPT !.at = "test"] \in Activation
    BY <2>2 DEF Activation
  <2>. QED  BY <1>2, <2>1, <2>2, <2>3, TopTyped DEF AfterPoll
<1>. QED  BY <1>1, <1>2

LEMMA StacksStep ==
  ASSUME Types, [Next]_vars
  PROVE  stack' \in [Node -> Seq(Activation)]
<1>0. stack \in [Node -> Seq(Activation)]
  BY DEF Types
<1>1. ASSUME NEW n \in Node, NEW new \in Seq(Activation), stack' = [stack EXCEPT ![n] = new]
      PROVE  stack' \in [Node -> Seq(Activation)]
  BY <1>0, <1>1
<1>2. ASSUME NEW n \in Node, NEW p \in setting.outbox[n], dll_send_packet(n, p)
      PROVE  stack' \in [Node -> Seq(Activation)]
  <2>1. stack' = [stack EXCEPT ![n] = Append(stack[n], NewSend(p))] /\ ~ TooBig(p)
    BY <1>0, <1>2 DEF dll_send_packet, NewSend
  <2>2. Append(stack[n], NewSend(p)) \in Seq(Activation)
    BY <1>0, <2>1, NewSendTyped, Appended
  <2>. QED  BY <1>1, <2>1, <2>2
<1>3. ASSUME NEW n \in Node, Proceed(n) PROVE stack' \in [Node -> Seq(Activation)]
  <2>1. ~ Idle(n) /\ Top(n) \in Sends
    BY <1>3, TopTyped DEF Proceed, Running
  <2>2. CASE IsLast(Top(n))
    <3>1. stack' = [stack EXCEPT ![n] = Popped(n)]
      BY <1>3, <2>2 DEF Proceed
    <3>. QED  BY <1>1, <2>1, <3>1, TopTyped
  <2>3. CASE ~ IsLast(Top(n))
    <3>1. stack' = [stack EXCEPT ![n] = Replaced(n, NextFrame(Top(n)))]
      BY <1>3, <2>3 DEF Proceed
    <3>2. NextFrame(Top(n)) \in Activation
      BY <2>1, <2>3, NextFrameTyped DEF Activation
    <3>. QED  BY <1>1, <2>1, <3>1, <3>2, TopTyped
  <2>. QED  BY <2>2, <2>3
<1>4. ASSUME NEW n \in Node, WaitOn(n) PROVE stack' \in [Node -> Seq(Activation)]
  <2>1. ~ Idle(n) /\ Top(n) \in Sends
    BY <1>4, TopTyped DEF WaitOn, Running
  <2>2. [Top(n) EXCEPT !.at = "poll"] \in Activation
    BY <2>1 DEF Sends, Activation
  <2>. QED  BY <1>1, <1>4, <2>1, <2>2, TopTyped DEF WaitOn
<1>5. ASSUME NEW n \in Node, ReceiveOther(n) \/ ReceiveAck(n)
      PROVE  stack' \in [Node -> Seq(Activation)]
  <2>1. Polls(n) /\ stack' = [stack EXCEPT ![n] = AfterPoll(n)]
    BY <1>5 DEF ReceiveOther, ReceiveAck
  <2>. QED  BY <1>1, <2>1, PollTyped
<1>6. ASSUME NEW n \in Node, ReceiveData(n) PROVE stack' \in [Node -> Seq(Activation)]
  <2>. DEFINE reply == [kind |-> "reply", frame |-> rx_frame[n]]
  <2>1. /\ Polls(n) /\ rx_frame[n] # None
        /\ stack' = [stack EXCEPT ![n] = Append(AfterPoll(n), reply)]
    BY <1>6 DEF ReceiveData
  <2>2. reply \in Activation
    BY <1>6, <2>1 DEF ReceiveData, Types, Frames, Replies, Activation
  <2>3. Append(AfterPoll(n), reply) \in Seq(Activation)
    BY <2>1, <2>2, PollTyped, Appended
  <2>. QED  BY <1>1, <2>1, <2>3
<1>7. ASSUME NEW n \in Node, Acknowledge(n) PROVE stack' \in [Node -> Seq(Activation)]
  <2>1. /\ ~ Idle(n)
        /\ \/ stack' = [stack EXCEPT ![n] = Popped(n)]
           \/ stack' = [stack EXCEPT ![n] = Replaced(n, [kind |-> "callback"])]
    BY <1>7 DEF Acknowledge, Running
  <2>2. [kind |-> "callback"] \in Activation
    BY DEF Activation
  <2>. QED  BY <1>1, <2>1, <2>2, TopTyped
<1>8. ASSUME NEW n \in Node, CallbackReturns(n) PROVE stack' \in [Node -> Seq(Activation)]
  <2>1. ~ Idle(n) /\ stack' = [stack EXCEPT ![n] = Popped(n)]
    BY <1>8 DEF CallbackReturns, Running
  <2>. QED  BY <1>1, <2>1, TopTyped
<1>9. CASE UNCHANGED stack
  BY <1>0, <1>9
<1>. QED
  BY <1>2, <1>3, <1>4, <1>5, <1>6, <1>7, <1>8, <1>9 DEF Next, Run, SendTooBig, vars

LEMMA SlotsStep ==
  ASSUME Types, [Next]_vars
  PROVE  rx_frame' \in [Node -> Frames \cup {None}]
<1>0. rx_frame \in [Node -> Frames \cup {None}]
  BY DEF Types
<1>1. ASSUME NEW R, NEW frame \in Frames, rx_frame' = Transmitted(rx_frame, R, frame)
      PROVE  rx_frame' \in [Node -> Frames \cup {None}]
  BY <1>0, <1>1, TransmittedTyped
<1>2. ASSUME NEW n \in Node, NEW send \in Sends,
             NEW buffer \in [0 .. BufSize - 1 -> BytesSent],
             TransmitData(n, buffer, rx_frame, send)
      PROVE  rx_frame' \in [Node -> Frames \cup {None}]
  <2>1. send.packet.to \in Node \cup {Broadcast}
    <3>1. PICK m \in Node : send.packet \in setting.outbox[m]
      BY SendTyped DEF Packets
    <3>. QED  BY <3>1, PacketsTyped DEF Types
  <2>2. DataFrame(n, buffer, send) \in Frames
    BY <2>1, DataFrameTyped
  <2>. QED  BY <1>1, <1>2, <2>2 DEF TransmitData
<1>3. ASSUME NEW n \in Node, NEW p \in setting.outbox[n], dll_send_packet(n, p)
      PROVE  rx_frame' \in [Node -> Frames \cup {None}]
  <2>1. TransmitData(n, NewBuffer(n, p), rx_frame, NewSend(p)) /\ ~ TooBig(p)
    BY <1>3 DEF dll_send_packet, NewBuffer, NewSend
  <2>. QED  BY <1>2, <2>1, NewSendTyped
<1>4. ASSUME NEW n \in Node, Proceed(n) PROVE rx_frame' \in [Node -> Frames \cup {None}]
  <2>1. Top(n) \in Sends /\ packet_buffer_tx[n] \in [0 .. BufSize - 1 -> BytesSent]
    BY <1>4, TopTyped DEF Proceed, Running, Types
  <2>2. CASE IsLast(Top(n))
    BY <1>0, <1>4, <2>2 DEF Proceed
  <2>3. CASE ~ IsLast(Top(n))
    <3>1. TransmitData(n, packet_buffer_tx[n], rx_frame, NextFrame(Top(n)))
      BY <1>4, <2>3 DEF Proceed
    <3>. QED  BY <1>2, <2>1, <2>3, <3>1, NextFrameTyped
  <2>. QED  BY <2>2, <2>3
<1>5. ASSUME NEW n \in Node, rx_frame' = FrameTaken(n)
      PROVE  rx_frame' \in [Node -> Frames \cup {None}]
  BY <1>0, <1>5 DEF FrameTaken
<1>6. ASSUME NEW n \in Node, Acknowledge(n) PROVE rx_frame' \in [Node -> Frames \cup {None}]
  <2>1. Top(n).frame.from \in Node /\ sequence_number_counter[n] \in {0, 1}
    BY <1>6, TopTyped DEF Acknowledge, Running, DataFrames, Types
  <2>2. AckFrame(n, Top(n).frame.from) \in Frames
    BY <2>1 DEF AckFrame, Frames
  <2>. QED  BY <1>1, <1>6, <2>2 DEF Acknowledge
<1>7. CASE UNCHANGED rx_frame
  BY <1>0, <1>7
<1>. QED
  BY <1>3, <1>4, <1>5, <1>6, <1>7
  DEF Next, Run, SendTooBig, WaitOn, ReceiveOther, ReceiveAck, ReceiveData, CallbackReturns, vars

\* A length stays a byte.
LEMMA LengthTyped ==
  ASSUME Types, NEW n \in Node, NEW frame \in Frames
  PROVE  LengthAfter(n, frame) \in 0 .. Modulus - 1
<1>. DEFINE added == IF frame.type = "data" THEN Len(frame.data) ELSE -1
<1>1. added \in Int
  BY DEF Frames, DataFrames
<1>2. received_packet_length[n] \in Int
  BY ConstantsTyped DEF Types
<1>. HIDE DEF added
<1>3. ((received_packet_length[n] + added) % Modulus) \in 0 .. Modulus - 1
  BY <1>1, <1>2, ConstantsTyped
<1>. QED  BY <1>3 DEF added, LengthAfter

\* What the callback is given, and the receive buffer.
LEMMA ReceivedTyped ==
  ASSUME Types, NEW n \in Node, Running(n, "reply")
  PROVE  LET frame  == Top(n).frame
             length == received_packet_length[n]
             buffer == Copied(n, frame, length)
         IN  /\ frame.from \in Node /\ length \in 0 .. Modulus - 1
             /\ buffer \in [0 .. BufSize - 1 -> BytesSent]
             /\ Given(buffer, length) \in Seq(BytesSent)
<1>. DEFINE frame  == Top(n).frame
            length == received_packet_length[n]
            buffer == Copied(n, frame, length)
<1>1. frame.from \in Node /\ length \in 0 .. Modulus - 1
  BY TopTyped DEF Running, DataFrames, Types
<1>2. /\ frame.data \in Seq(BytesSent) /\ None \in BytesSent
      /\ packet_buffer_rx[n] \in [0 .. BufSize - 1 -> BytesSent]
  <2>1. frame \in DataFrames
    BY TopTyped DEF Running
  <2>2. frame.data \in Seq(BytesSent)
    BY <2>1 DEF DataFrames
  <2>3. None \in BytesSent
    BY NoneTyped
  <2>. QED  BY <2>2, <2>3 DEF Types
<1>3. buffer \in [0 .. BufSize - 1 -> BytesSent]
  <2>1. ASSUME NEW i \in 0 .. BufSize - 1
        PROVE  LET j == i - (length - Len(frame.data)) + 1
               IN  (IF j \in 1 .. Len(frame.data) THEN frame.data[j] ELSE packet_buffer_rx[n][i])
                     \in BytesSent
    <3>. DEFINE j == i - (length - Len(frame.data)) + 1
    <3>1. j \in 1 .. Len(frame.data) => frame.data[j] \in BytesSent
      <4>. HIDE DEF j, frame
      <4>. QED  BY <1>2
    <3>2. packet_buffer_rx[n][i] \in BytesSent
      BY <1>2
    <3>. QED  BY <3>1, <3>2
  <2>. QED  BY <2>1 DEF Copied
<1>. HIDE DEF buffer, length
<1>4. Given(buffer, length) \in Seq(BytesSent)
  <2>1. ASSUME NEW i \in 1 .. length
        PROVE  (IF i <= BufSize THEN buffer[i - 1] ELSE None) \in BytesSent
    <3>1. i <= BufSize => i - 1 \in 0 .. BufSize - 1
      BY <1>1, ConstantsTyped
    <3>. QED  BY <1>2, <1>3, <3>1
  <2>2. length \in Nat
    BY <1>1, ConstantsTyped
  <2>. QED  BY <2>1, <2>2 DEF Given
<1>. QED  BY <1>1, <1>3, <1>4 DEF buffer, length

LEMMA TypesStep ==
  ASSUME Types, [Next]_vars
  PROVE  Types'
<1>. DEFINE Rest ==
              /\ ack \in [Node -> BOOLEAN]
              /\ received_packet_length \in [Node -> 0 .. Modulus - 1]
              /\ sequence_number_counter \in [Node -> {0, 1}]
              /\ packet_buffer_tx \in [Node -> [0 .. BufSize - 1 -> BytesSent]]
              /\ packet_buffer_rx \in [Node -> [0 .. BufSize - 1 -> BytesSent]]
              /\ delivered \in [Node -> Seq([from : Node, data : Seq(BytesSent)])]
              /\ unsent \in [Node -> SUBSET Packets]
<1>0. Rest
  BY DEF Types
<1>. DEFINE Kept == UNCHANGED <<ack, received_packet_length, sequence_number_counter,
                                packet_buffer_tx, packet_buffer_rx, delivered, unsent>>
            Others == UNCHANGED <<sequence_number_counter, packet_buffer_rx, delivered>>
<1>1. ASSUME Kept PROVE Rest'
  BY <1>0, <1>1, SettingKept
<1>2. ASSUME NEW n \in Node, NEW p \in setting.outbox[n], dll_send_packet(n, p) PROVE Rest'
  <2>1. /\ packet_buffer_tx' = [packet_buffer_tx EXCEPT ![n] = NewBuffer(n, p)] /\ ~ TooBig(p)
        /\ unsent' = [unsent EXCEPT ![n] = @ \ {p}]
        /\ UNCHANGED <<ack, received_packet_length>> /\ Others
    BY <1>2 DEF dll_send_packet, NewBuffer, buffers, history
  <2>2. NewBuffer(n, p) \in [0 .. BufSize - 1 -> BytesSent]
    BY <2>1, NewSendTyped
  <2>. QED  BY <1>0, <2>1, <2>2, SettingKept
<1>3. ASSUME NEW n \in Node, NEW p \in setting.outbox[n], SendTooBig(n, p) PROVE Rest'
  <2>1. /\ unsent' = [unsent EXCEPT ![n] = @ \ {p}]
        /\ UNCHANGED <<ack, received_packet_length, packet_buffer_tx>> /\ Others
    BY <1>3 DEF SendTooBig, buffers, history
  <2>. QED  BY <1>0, <2>1, SettingKept
<1>4. ASSUME NEW n \in Node, Proceed(n) PROVE Rest'
  <2>1. /\ ack' = [ack EXCEPT ![n] = FALSE]
        /\ UNCHANGED <<received_packet_length, packet_buffer_tx, unsent>> /\ Others
    BY <1>4 DEF Proceed, AckCleared, buffers
  <2>. QED  BY <1>0, <2>1, SettingKept
<1>5. ASSUME NEW n \in Node, ReceiveOther(n) \/ ReceiveAck(n) \/ ReceiveData(n) PROVE Rest'
  <2>1. /\ received_packet_length' = [received_packet_length EXCEPT ![n] = LengthAfter(n, rx_frame[n])]
        /\ ack' = ack \/ ack' = [ack EXCEPT ![n] = TRUE]
        /\ UNCHANGED <<packet_buffer_tx, unsent>> /\ Others /\ rx_frame[n] # None
    BY <1>5 DEF ReceiveOther, ReceiveAck, ReceiveData, history
  <2>2. LengthAfter(n, rx_frame[n]) \in 0 .. Modulus - 1
    BY <2>1, LengthTyped DEF Types
  <2>. QED  BY <1>0, <2>1, <2>2, SettingKept
<1>6. ASSUME NEW n \in Node, Acknowledge(n) PROVE Rest'
  <2>. DEFINE frame  == Top(n).frame
              length == received_packet_length[n]
              buffer == Copied(n, frame, length)
              record == [from |-> frame.from, data |-> Given(buffer, length)]
  <2>1. /\ sequence_number_counter' = [sequence_number_counter EXCEPT ![n] = 1 - @]
        /\ packet_buffer_rx' = [packet_buffer_rx EXCEPT ![n] = buffer]
        /\ delivered' = delivered \/ delivered' = [delivered EXCEPT ![n] = Append(@, record)]
        /\ UNCHANGED <<ack, received_packet_length, packet_buffer_tx, unsent>>
        /\ Running(n, "reply")
    BY <1>6 DEF Acknowledge
  <2>2. /\ buffer \in [0 .. BufSize - 1 -> BytesSent]
        /\ record \in [from : Node, data : Seq(BytesSent)]
    BY <2>1, ReceivedTyped
  <2>3. 1 - sequence_number_counter[n] \in {0, 1}
    <3>1. sequence_number_counter[n] \in {0, 1}
      BY <1>0
    <3>. QED  BY <3>1
  <2>. HIDE DEF buffer, record
  <2>4. delivered' \in [Node -> Seq([from : Node, data : Seq(BytesSent)])]
    <3>. DEFINE Given_to == [from : Node, data : Seq(BytesSent)]
    <3>1. delivered \in [Node -> Seq(Given_to)] /\ record \in Given_to
      BY <1>0, <2>2
    <3>. HIDE DEF Given_to
    <3>2. Append(delivered[n], record) \in Seq(Given_to)
      BY <3>1
    <3>3. delivered' \in [Node -> Seq(Given_to)]
      BY <2>1, <3>1, <3>2
    <3>. QED  BY <3>3 DEF Given_to
  <2>. QED  BY <1>0, <2>1, <2>2, <2>3, <2>4, SettingKept
<1>7. ASSUME NEW n \in Node, CallbackReturns(n) PROVE Rest'
  <2>1. /\ received_packet_length' = [received_packet_length EXCEPT ![n] = 0]
        /\ sequence_number_counter' = [sequence_number_counter EXCEPT ![n] = 0]
        /\ UNCHANGED <<ack, packet_buffer_tx, packet_buffer_rx, delivered, unsent>>
    BY <1>7 DEF CallbackReturns, history
  <2>2. 0 \in 0 .. Modulus - 1
    BY ConstantsTyped
  <2>. QED  BY <1>0, <2>1, <2>2, SettingKept
<1>8. ASSUME NEW n \in Node, WaitOn(n) PROVE Rest'
  BY <1>1, <1>8 DEF WaitOn, buffers, history
<1>9. ASSUME UNCHANGED vars PROVE Rest'
  BY <1>1, <1>9 DEF vars, buffers, history
<1>10. Rest'
  <2>. HIDE DEF Rest
  <2>. QED  BY <1>2, <1>3, <1>4, <1>5, <1>6, <1>7, <1>8, <1>9 DEF Next, Run
<1>. QED  BY <1>10, StacksStep, SlotsStep, SettingKept DEF Types

LEMMA TypesInit == Init => Types
<1>. SUFFICES ASSUME Init PROVE Types
  OBVIOUS
<1>1. /\ setting \in Settings /\ unsent = setting.outbox /\ None \in BytesSent
      /\ 0 \in 0 .. Modulus - 1
  BY ConstantsTyped, NoneTyped DEF Init
<1>2. unsent \in [Node -> SUBSET Packets]
  BY <1>1, DllAssumption DEF Packets
<1>3. Blank \in [0 .. BufSize - 1 -> BytesSent]
  BY <1>1 DEF Blank
<1>. QED  BY <1>1, <1>2, <1>3 DEF Init, Types

LEMMA TypesInvariant == Spec => []Types
<1>1. Types /\ [Next]_vars => Types'
  BY TypesStep
<1>. QED  BY TypesInit, <1>1, PTL DEF Spec

\* The statics and activations of the link layer keep their types: a frame has no more data
\* than fits, and a send has part of its packet left.
THEOREM TypesKept == Spec => []TypeOK
<1>1. Types => TypeOK
  <2>. SUFFICES ASSUME Types PROVE TypeOK
    OBVIOUS
  <2>1. ASSUME NEW f \in Frames PROVE IsFrame(f)
    <3>1. CASE f \in DataFrames
      <4>1. f.data \in Seq(BytesSent)
        BY <3>1 DEF DataFrames
      <4>. QED  BY <3>1, <4>1 DEF DataFrames, IsFrame
    <3>2. CASE f \notin DataFrames
      BY <2>1, <3>2 DEF Frames, IsFrame
    <3>. QED  BY <3>1, <3>2
  <2>2. ASSUME NEW a \in Activation
        PROVE  a \in Activations \/ (a.kind = "reply" /\ IsFrame(a.frame))
    <3>1. CASE a \in Sends
      <4>1. /\ a.left \in 1 .. BufSize /\ a.frame_number \in 0 .. BufSize
        BY <3>1, SendTyped, ConstantsTyped
      <4>. QED  BY <3>1, <4>1 DEF Sends, Activations
    <3>2. CASE a \in Replies
      BY <2>1, <3>2 DEF Replies, Frames
    <3>. QED  BY <2>2, <3>1, <3>2 DEF Activation, Activations
  <2>3. ASSUME NEW n \in Node, NEW i \in DOMAIN stack[n] PROVE stack[n][i] \in Activation
    BY DEF Types
  <2>. QED  BY <2>1, <2>2, <2>3 DEF Types, TypeOK
<1>. QED  BY TypesInvariant, <1>1, PTL

-----------------------------------------------------------------------------
(* Sets that are kept no larger than others.                               *)

NoLarger(T, S) == IsFiniteSet(T) /\ IsFiniteSet(S) /\ Cardinality(T) <= Cardinality(S)

LEMMA NoLargerSubset ==
  ASSUME NEW T, NEW S, NoLarger(T, S), NEW T2, T2 \subseteq T
  PROVE  NoLarger(T2, S)
<1>1. IsFiniteSet(T2) /\ Cardinality(T2) <= Cardinality(T)
  BY FS_Subset DEF NoLarger
<1>2. Cardinality(T) \in Nat /\ Cardinality(T2) \in Nat /\ Cardinality(S) \in Nat
  BY <1>1, FS_CardinalityType DEF NoLarger
<1>. QED  BY <1>1, <1>2 DEF NoLarger

\* An element takes the place of another.
LEMMA NoLargerMoved ==
  ASSUME NEW T, NEW S, NoLarger(T, S), NEW a \in T, NEW b, NEW T2, T2 \subseteq (T \ {a}) \cup {b}
  PROVE  NoLarger(T2, S)
<1>1. IsFiniteSet(T \ {a}) /\ Cardinality(T \ {a}) = Cardinality(T) - 1
  BY FS_RemoveElement DEF NoLarger
<1>2. Cardinality(T) \in Nat /\ Cardinality(T \ {a}) \in Nat
  BY <1>1, FS_CardinalityType DEF NoLarger
<1>3. /\ IsFiniteSet((T \ {a}) \cup {b})
      /\ Cardinality((T \ {a}) \cup {b}) <= Cardinality(T)
  BY <1>1, <1>2, FS_AddElement
<1>4. NoLarger((T \ {a}) \cup {b}, S)
  <2>1. Cardinality((T \ {a}) \cup {b}) \in Nat /\ Cardinality(S) \in Nat
    BY <1>3, FS_CardinalityType DEF NoLarger
  <2>. QED  BY <1>2, <1>3, <2>1 DEF NoLarger
<1>. QED  BY <1>4, NoLargerSubset

\* Both gain an element.
LEMMA NoLargerGrown ==
  ASSUME NEW T, NEW S, NoLarger(T, S), NEW b, NEW c, c \notin S, NEW T2, T2 \subseteq T \cup {b}
  PROVE  NoLarger(T2, S \cup {c})
<1>1. IsFiniteSet(T \cup {b}) /\ IsFiniteSet(S \cup {c})
  BY FS_AddElement DEF NoLarger
<1>2. /\ Cardinality(T) \in Nat /\ Cardinality(S) \in Nat
      /\ Cardinality(T \cup {b}) \in Nat /\ Cardinality(S \cup {c}) \in Nat
  BY <1>1, FS_CardinalityType DEF NoLarger
<1>3. /\ Cardinality(T \cup {b}) <= Cardinality(T) + 1
      /\ Cardinality(S \cup {c}) = Cardinality(S) + 1
  <2>1. Cardinality(T \cup {b}) = IF b \in T THEN Cardinality(T) ELSE Cardinality(T) + 1
    BY FS_AddElement DEF NoLarger
  <2>2. Cardinality(S \cup {c}) = Cardinality(S) + 1
    BY FS_AddElement DEF NoLarger
  <2>. QED  BY <1>2, <2>1, <2>2
<1>4. NoLarger(T \cup {b}, S \cup {c})
  BY <1>1, <1>2, <1>3 DEF NoLarger
<1>. QED  BY <1>4, NoLargerSubset

\* Both lose an element.
LEMMA NoLargerShrunk ==
  ASSUME NEW T, NEW S, NoLarger(T, S), NEW a \in T, NEW c, NEW T2, T2 \subseteq T \ {a}
  PROVE  NoLarger(T2, S \ {c})
<1>1. IsFiniteSet(T \ {a}) /\ IsFiniteSet(S \ {c})
  BY FS_RemoveElement DEF NoLarger
<1>2. /\ Cardinality(T) \in Nat /\ Cardinality(S) \in Nat
      /\ Cardinality(T \ {a}) \in Nat /\ Cardinality(S \ {c}) \in Nat
  BY <1>1, FS_CardinalityType DEF NoLarger
<1>3. /\ Cardinality(T \ {a}) = Cardinality(T) - 1
      /\ Cardinality(S \ {c}) >= Cardinality(S) - 1
  <2>1. Cardinality(T \ {a}) = Cardinality(T) - 1
    BY FS_RemoveElement DEF NoLarger
  <2>2. Cardinality(S \ {c}) = IF c \in S THEN Cardinality(S) - 1 ELSE Cardinality(S)
    BY FS_RemoveElement DEF NoLarger
  <2>. QED  BY <1>2, <2>1, <2>2
<1>4. NoLarger(T \ {a}, S \ {c})
  BY <1>1, <1>2, <1>3 DEF NoLarger
<1>. QED  BY <1>4, NoLargerSubset

-----------------------------------------------------------------------------
(* How an action changes the stack of its node.                            *)

\* A frame that is being replied to is the last thing its node does.
RepliesOnTop == \A n \in Node : \A i \in 1 .. Len(stack[n]) - 1 : stack[n][i].kind # "reply"

SendsOf(n) == {i \in DOMAIN stack[n] : stack[n][i].kind = "send"}

\* The stacks of the others do not change.
OnlyAt(n) == \A m \in Node \ {n} : stack'[m] = stack[m]

LEMMA OthersStay ==
  ASSUME NEW n, OnlyAt(n), NEW m \in Node \ {n}
  PROVE  /\ \A kind : Running(m, kind)' = Running(m, kind)
         /\ Top(m)' = Top(m) /\ SendsOf(m)' = SendsOf(m)
  BY DEF OnlyAt, Running, Idle, Top, SendsOf

LEMMA Pushed ==
  ASSUME Types, RepliesOnTop, NEW n \in Node, ~ Running(n, "reply"), NEW a \in Activation,
         stack' = [stack EXCEPT ![n] = Append(stack[n], a)]
  PROVE  /\ RepliesOnTop' /\ OnlyAt(n) /\ ~ Idle(n)' /\ Top(n)' = a
         /\ SendsOf(n)' = IF a.kind = "send" THEN SendsOf(n) \cup {Len(stack[n]) + 1} ELSE SendsOf(n)
         /\ Len(stack[n]) + 1 \notin SendsOf(n)
<1>1. stack[n] \in Seq(Activation) /\ stack \in [Node -> Seq(Activation)]
  BY DEF Types
<1>2. /\ stack'[n] = Append(stack[n], a) /\ OnlyAt(n)
      /\ Append(stack[n], a) \in Seq(Activation)
      /\ Len(Append(stack[n], a)) = Len(stack[n]) + 1 /\ Len(stack[n]) \in Nat
      /\ \A i \in 1 .. Len(stack[n]) : Append(stack[n], a)[i] = stack[n][i]
      /\ Append(stack[n], a)[Len(stack[n]) + 1] = a
  BY <1>1, Appended DEF OnlyAt
<1>3. ~ Idle(n)' /\ Top(n)' = a
  BY <1>2 DEF Idle, Top
<1>4. \A i \in 1 .. Len(stack[n]) : stack[n][i].kind # "reply"
  <2>1. ASSUME Len(stack[n]) > 0 PROVE stack[n][Len(stack[n])].kind # "reply"
    BY <1>2, <2>1 DEF Running, Idle, Top
  <2>. QED  BY <1>2, <2>1 DEF RepliesOnTop
<1>5. RepliesOnTop'
  BY <1>2, <1>4 DEF RepliesOnTop, OnlyAt
<1>6. DOMAIN stack[n] = 1 .. Len(stack[n]) /\ DOMAIN stack'[n] = 1 .. Len(stack[n]) + 1
  BY <1>1, <1>2
<1>. QED  BY <1>2, <1>3, <1>5, <1>6 DEF SendsOf

LEMMA Put ==
  ASSUME Types, RepliesOnTop, NEW n \in Node, ~ Idle(n), NEW a \in Activation,
         stack' = [stack EXCEPT ![n] = Replaced(n, a)]
  PROVE  /\ RepliesOnTop' /\ OnlyAt(n) /\ ~ Idle(n)' /\ Top(n)' = a
         /\ (a.kind = "send" <=> Running(n, "send")) => SendsOf(n)' = SendsOf(n)
<1>1. stack[n] \in Seq(Activation) /\ stack \in [Node -> Seq(Activation)]
  BY DEF Types
<1>2. /\ stack'[n] = Replaced(n, a) /\ OnlyAt(n)
      /\ Replaced(n, a) \in Seq(Activation)
      /\ Len(Replaced(n, a)) = Len(stack[n]) /\ Len(stack[n]) \in Nat /\ Len(stack[n]) > 0
      /\ \A i \in 1 .. Len(stack[n]) - 1 : Replaced(n, a)[i] = stack[n][i]
      /\ Replaced(n, a)[Len(stack[n])] = a
  BY <1>1, TopTyped DEF OnlyAt
<1>3. ~ Idle(n)' /\ Top(n)' = a
  BY <1>2 DEF Idle, Top
<1>4. RepliesOnTop'
  BY <1>2 DEF RepliesOnTop, OnlyAt
<1>5. DOMAIN stack[n] = 1 .. Len(stack[n]) /\ DOMAIN stack'[n] = 1 .. Len(stack[n])
  BY <1>1, <1>2
<1>6. ASSUME a.kind = "send" <=> Running(n, "send") PROVE SendsOf(n)' = SendsOf(n)
  <2>1. a.kind = "send" <=> stack[n][Len(stack[n])].kind = "send"
    BY <1>6 DEF Running, Top
  <2>2. \A i \in 1 .. Len(stack[n]) : stack'[n][i].kind = "send" <=> stack[n][i].kind = "send"
    BY <1>2, <2>1
  <2>. QED  BY <1>5, <2>2 DEF SendsOf
<1>. QED  BY <1>2, <1>3, <1>4, <1>6

LEMMA Ended ==
  ASSUME Types, RepliesOnTop, NEW n \in Node, ~ Idle(n),
         stack' = [stack EXCEPT ![n] = Popped(n)]
  PROVE  /\ RepliesOnTop' /\ OnlyAt(n) /\ ~ Running(n, "reply")'
         /\ SendsOf(n)' = SendsOf(n) \ {Len(stack[n])}
         /\ Running(n, "send") <=> Len(stack[n]) \in SendsOf(n)
<1>1. stack[n] \in Seq(Activation) /\ stack \in [Node -> Seq(Activation)]
  BY DEF Types
<1>2. /\ stack'[n] = Popped(n) /\ OnlyAt(n) /\ Popped(n) \in Seq(Activation)
      /\ Len(Popped(n)) = Len(stack[n]) - 1 /\ Len(stack[n]) \in Nat /\ Len(stack[n]) > 0
      /\ \A i \in 1 .. Len(stack[n]) - 1 : Popped(n)[i] = stack[n][i]
  BY <1>1, TopTyped DEF OnlyAt
<1>3. RepliesOnTop'
  BY <1>2 DEF RepliesOnTop, OnlyAt
<1>4. ~ Running(n, "reply")'
  BY <1>2 DEF Running, Idle, Top, RepliesOnTop
<1>5. DOMAIN stack[n] = 1 .. Len(stack[n]) /\ DOMAIN stack'[n] = 1 .. Len(stack[n]) - 1
  BY <1>1, <1>2
<1>. QED  BY <1>2, <1>3, <1>4, <1>5 DEF SendsOf, Running, Top

LEMMA Polled ==
  ASSUME Types, RepliesOnTop, NEW n \in Node, Polls(n),
         stack' = [stack EXCEPT ![n] = AfterPoll(n)]
  PROVE  /\ RepliesOnTop' /\ OnlyAt(n) /\ ~ Running(n, "reply")' /\ SendsOf(n)' = SendsOf(n)
         /\ Idle(n)' <=> Idle(n)
         /\ ~ Idle(n) => /\ Running(n, "send") /\ Running(n, "send")'
                         /\ Top(n)' = [Top(n) EXCEPT !.at = "test"] /\ Top(n)'.at = "test"
<1>1. CASE Idle(n)
  <2>1. stack' = stack
    BY <1>1 DEF AfterPoll, Idle, Types
  <2>. QED  BY <1>1, <2>1 DEF RepliesOnTop, OnlyAt, Running, SendsOf, Idle
<1>2. CASE ~ Idle(n)
  <2>. DEFINE a == [Top(n) EXCEPT !.at = "test"]
  <2>1. /\ Running(n, "send") /\ a \in Sends /\ a \in Activation
        /\ stack' = [stack EXCEPT ![n] = Replaced(n, a)]
    BY <1>2, PollTyped DEF AfterPoll, Activation
  <2>2. a.kind = "send" /\ a.at = "test"
    <3>1. Top(n) \in Sends
      BY <1>2, PollTyped
    <3>. QED  BY <3>1 DEF Sends
  <2>. HIDE DEF a
  <2>3. /\ RepliesOnTop' /\ OnlyAt(n) /\ ~ Idle(n)' /\ Top(n)' = a
        /\ SendsOf(n)' = SendsOf(n)
    BY <1>2, <2>1, <2>2, Put
  <2>4. Running(n, "send")' /\ ~ Running(n, "reply")' /\ Top(n)'.at = "test"
    BY <2>2, <2>3 DEF Running
  <2>. QED  BY <1>2, <2>1, <2>3, <2>4 DEF a
<1>. QED  BY <1>1, <1>2

LEMMA PolledAndPushed ==
  ASSUME Types, RepliesOnTop, NEW n \in Node, Polls(n), NEW a \in Replies,
         stack' = [stack EXCEPT ![n] = Append(AfterPoll(n), a)]
  PROVE  /\ RepliesOnTop' /\ OnlyAt(n) /\ ~ Idle(n)' /\ Running(n, "reply")' /\ Top(n)' = a
         /\ SendsOf(n)' = SendsOf(n)
<1>. DEFINE L == Len(stack[n])
            after == AfterPoll(n)
<1>1. stack[n] \in Seq(Activation) /\ stack \in [Node -> Seq(Activation)]
  BY DEF Types
<1>2. /\ after \in Seq(Activation) /\ Len(after) = L /\ L \in Nat
      /\ \A i \in 1 .. L - 1 : after[i] = stack[n][i]
      /\ L > 0 => after[L].kind = "send" /\ stack[n][L].kind = "send"
  <2>1. /\ after \in Seq(Activation) /\ Len(after) = L /\ L \in Nat
        /\ \A i \in 1 .. L - 1 : after[i] = stack[n][i]
    BY PollTyped
  <2>2. ASSUME L > 0 PROVE after[L].kind = "send" /\ stack[n][L].kind = "send"
    <3>1. ~ Idle(n)
      BY <1>1, <2>2 DEF Idle
    <3>2. Top(n) \in Sends /\ after[L] \in Sends
      BY <3>1, PollTyped
    <3>. QED  BY <3>2 DEF Sends, Top
  <2>. QED  BY <2>1, <2>2
<1>. HIDE DEF after
<1>3. /\ stack'[n] = Append(after, a) /\ OnlyAt(n) /\ a \in Activation
      /\ Append(after, a) \in Seq(Activation) /\ Len(Append(after, a)) = L + 1
      /\ \A i \in 1 .. L : Append(after, a)[i] = after[i]
      /\ Append(after, a)[L + 1] = a
  BY <1>1, <1>2, Appended DEF OnlyAt, Activation, after
<1>4. ~ Idle(n)' /\ Top(n)' = a /\ a.kind = "reply"
  BY <1>2, <1>3 DEF Idle, Top, Replies
<1>5. RepliesOnTop'
  BY <1>2, <1>3 DEF RepliesOnTop, OnlyAt
<1>6. DOMAIN stack[n] = 1 .. L /\ DOMAIN stack'[n] = 1 .. L + 1
  BY <1>1, <1>2, <1>3
<1>7. SendsOf(n)' = SendsOf(n)
  BY <1>2, <1>3, <1>4, <1>6 DEF SendsOf
<1>. QED  BY <1>3, <1>4, <1>5, <1>7 DEF Running

-----------------------------------------------------------------------------
(* Acknowledgements.  A frame that is on its way is worth one; so are a    *)
(* frame that is taken, the acknowledgement on its way back, and the one   *)
(* that was seen.  A node never has more of them to come than sends that   *)
(* wait: when it is idle there are none.                                   *)

\* What there is at m, of that kind, that is worth an acknowledgement for n.
Owes(n, kind, m) ==
  \/ /\ kind = "data" /\ rx_frame[m] # None
     /\ rx_frame[m].type = "data" /\ rx_frame[m].from = n /\ rx_frame[m].to = m
  \/ kind = "reply" /\ Running(m, "reply") /\ Top(m).frame.from = n
  \/ kind = "ack" /\ m = n /\ rx_frame[m] # None /\ IsAckFor(m, rx_frame[m])
  \/ kind = "seen" /\ m = n /\ ack[m]

Owed(n) == {x \in {"data", "reply", "ack", "seen"} \X Node : Owes(n, x[1], x[2])}

AcksOwed == \A n \in Node : NoLarger(Owed(n), SendsOf(n))

AckInv == RepliesOnTop /\ AcksOwed /\ AckIsAwaited

\* How the set follows from its members.
LEMMA OwedKept ==
  ASSUME NEW k,
         \A kind \in {"data", "reply", "ack", "seen"} : \A m \in Node :
           Owes(k, kind, m)' => Owes(k, kind, m)
  PROVE  Owed(k)' \subseteq Owed(k)
  BY DEF Owed

LEMMA OwedMoved ==
  ASSUME NEW k, NEW a, NEW b,
         \A kind \in {"data", "reply", "ack", "seen"} : \A m \in Node :
           Owes(k, kind, m)' => <<kind, m>> = b \/ (Owes(k, kind, m) /\ <<kind, m>> # a)
  PROVE  Owed(k)' \subseteq (Owed(k) \ {a}) \cup {b}
<1>. SUFFICES ASSUME NEW x \in Owed(k)' PROVE x \in (Owed(k) \ {a}) \cup {b}
  OBVIOUS
<1>1. /\ x \in {"data", "reply", "ack", "seen"} \X Node /\ Owes(k, x[1], x[2])'
      /\ x = <<x[1], x[2]>> /\ x[1] \in {"data", "reply", "ack", "seen"} /\ x[2] \in Node
  BY DEF Owed
<1>2. x = b \/ (Owes(k, x[1], x[2]) /\ x # a)
  BY <1>1
<1>. QED  BY <1>1, <1>2 DEF Owed

LEMMA OwedGrown ==
  ASSUME NEW k, NEW b,
         \A kind \in {"data", "reply", "ack", "seen"} : \A m \in Node :
           Owes(k, kind, m)' => <<kind, m>> = b \/ Owes(k, kind, m)
  PROVE  Owed(k)' \subseteq Owed(k) \cup {b}
<1>. SUFFICES ASSUME NEW x \in Owed(k)' PROVE x \in Owed(k) \cup {b}
  OBVIOUS
<1>1. /\ x \in {"data", "reply", "ack", "seen"} \X Node /\ Owes(k, x[1], x[2])'
      /\ x = <<x[1], x[2]>> /\ x[1] \in {"data", "reply", "ack", "seen"} /\ x[2] \in Node
  BY DEF Owed
<1>2. x = b \/ Owes(k, x[1], x[2])
  BY <1>1
<1>. QED  BY <1>1, <1>2 DEF Owed

LEMMA OwedGone ==
  ASSUME NEW k, NEW a,
         \A kind \in {"data", "reply", "ack", "seen"} : \A m \in Node :
           Owes(k, kind, m)' => Owes(k, kind, m) /\ <<kind, m>> # a
  PROVE  Owed(k)' \subseteq Owed(k) \ {a}
  BY DEF Owed

LEMMA OwedMember ==
  ASSUME NEW k, NEW kind \in {"data", "reply", "ack", "seen"}, NEW m \in Node, Owes(k, kind, m)
  PROVE  <<kind, m>> \in Owed(k)
  BY DEF Owed

\* What a transmission puts into the slots of other nodes.
LEMMA Transmits ==
  ASSUME Types, NEW n \in Node, NEW R \in Reach(n), NEW frame,
         rx_frame' = Transmitted(rx_frame, R, frame)
  PROVE  \A m \in Node : rx_frame'[m] = rx_frame[m] \/ (m # n /\ rx_frame'[m] = frame)
  BY DEF Transmitted, Reach

LEMMA TransmitsData ==
  ASSUME Types, NEW n \in Node, NEW send \in Sends, NEW buffer, TransmitData(n, buffer, rx_frame, send)
  PROVE  \A m \in Node : \/ rx_frame'[m] = rx_frame[m]
                         \/ /\ m # n /\ rx_frame'[m] = DataFrame(n, buffer, send)
                            /\ rx_frame'[m].type = "data" /\ rx_frame'[m].from = n
                            /\ rx_frame'[m].to = send.packet.to
                            /\ rx_frame'[m].last = IsLast(send)
<1>1. PICK R \in Reach(n) : rx_frame' = Transmitted(rx_frame, R, DataFrame(n, buffer, send))
  BY DEF TransmitData
<1>2. /\ DataFrame(n, buffer, send).type = "data" /\ DataFrame(n, buffer, send).from = n
      /\ DataFrame(n, buffer, send).to = send.packet.to
      /\ DataFrame(n, buffer, send).last = IsLast(send)
  BY DEF DataFrame
<1>. QED  BY <1>1, <1>2, Transmits

\* An action of a node that changes nothing of this.
LEMMA AckInvKept ==
  ASSUME AckInv, stack' = stack, rx_frame' = rx_frame, ack' = ack
  PROVE  AckInv'
<1>1. RepliesOnTop' /\ AckIsAwaited'
  BY DEF AckInv, RepliesOnTop, AckIsAwaited, Running, Idle, Top
<1>2. ASSUME NEW k \in Node PROVE NoLarger(Owed(k), SendsOf(k))'
  <2>1. Owed(k)' = Owed(k) /\ SendsOf(k)' = SendsOf(k)
    BY DEF Owed, Owes, SendsOf, Running, Idle, Top
  <2>. QED  BY <2>1 DEF AckInv, AcksOwed, NoLarger
<1>. QED  BY <1>1, <1>2 DEF AckInv, AcksOwed

\* What is left to show of an action of n: the count of its own, or that of another node.
LEMMA AcksOwedStep ==
  ASSUME AcksOwed, NEW n \in Node, OnlyAt(n), NoLarger(Owed(n)', SendsOf(n)'),
         \A k \in Node \ {n} : NoLarger(Owed(k)', SendsOf(k))
  PROVE  AcksOwed'
<1>1. \A k \in Node \ {n} : SendsOf(k)' = SendsOf(k)
  BY OthersStay
<1>2. \A k \in Node : NoLarger(Owed(k)', SendsOf(k)')
  BY <1>1
<1>. QED  BY <1>2 DEF AcksOwed, NoLarger

LEMMA AwaitedStep ==
  ASSUME AckIsAwaited, NEW n \in Node, OnlyAt(n), \A m \in Node \ {n} : ack'[m] = ack[m],
         ack'[n] => Running(n, "send")' /\ Top(n)'.at = "test"
  PROVE  AckIsAwaited'
  BY OthersStay DEF AckIsAwaited

LEMMA AckInvSend ==
  ASSUME Types, AckInv, NEW n \in Node, NEW p \in setting.outbox[n], dll_send_packet(n, p)
  PROVE  AckInv'
<1>1. /\ stack' = [stack EXCEPT ![n] = Append(stack[n], NewSend(p))] /\ ~ TooBig(p)
      /\ (Idle(n) \/ Running(n, "callback")) /\ ack' = ack
      /\ TransmitData(n, NewBuffer(n, p), rx_frame, NewSend(p))
  BY DEF dll_send_packet, NewSend, NewBuffer, Types
<1>2. NewSend(p) \in Sends /\ NewSend(p) \in Activation /\ NewSend(p).kind = "send"
  BY <1>1, NewSendTyped DEF NewSend
<1>3. ~ Running(n, "reply") /\ ~ Running(n, "send")
  BY <1>1 DEF Running
<1>4. /\ RepliesOnTop' /\ OnlyAt(n) /\ ~ Idle(n)' /\ Top(n)' = NewSend(p)
      /\ SendsOf(n)' = SendsOf(n) \cup {Len(stack[n]) + 1} /\ Len(stack[n]) + 1 \notin SendsOf(n)
  BY <1>1, <1>2, <1>3, Pushed DEF AckInv
<1>5. ~ Running(n, "reply")'
  BY <1>2, <1>4 DEF Running
<1>6. \A m \in Node : \/ rx_frame'[m] = rx_frame[m]
                      \/ /\ rx_frame'[m].type = "data" /\ rx_frame'[m].from = n
                         /\ rx_frame'[m].to = p.to
  BY <1>1, <1>2, TransmitsData DEF NewSend
<1>7. ASSUME NEW k \in Node, NEW kind \in {"data", "reply", "ack", "seen"}, NEW m \in Node,
             Owes(k, kind, m)'
      PROVE  Owes(k, kind, m) \/ (k = n /\ kind = "data" /\ m = p.to)
  <2>1. m # n => (Running(m, "reply")' <=> Running(m, "reply")) /\ Top(m)' = Top(m)
    BY <1>4, OthersStay
  <2>. QED  BY <1>1, <1>5, <1>6, <1>7, <2>1 DEF Owes, IsAckFor
<1>8. NoLarger(Owed(n)', SendsOf(n)')
  <2>. DEFINE b == <<"data", p.to>>
  <2>1. \A kind \in {"data", "reply", "ack", "seen"} : \A m \in Node :
          Owes(n, kind, m)' => <<kind, m>> = b \/ Owes(n, kind, m)
    BY <1>7
  <2>. HIDE DEF b
  <2>2. Owed(n)' \subseteq Owed(n) \cup {b}
    BY <2>1, OwedGrown
  <2>3. NoLarger(Owed(n)', SendsOf(n) \cup {Len(stack[n]) + 1})
    BY <1>4, <2>2, NoLargerGrown DEF AckInv, AcksOwed
  <2>. QED  BY <1>4, <2>3
<1>9. ASSUME NEW k \in Node \ {n} PROVE NoLarger(Owed(k)', SendsOf(k))
  <2>1. Owed(k)' \subseteq Owed(k)
    BY <1>7, OwedKept
  <2>. QED  BY <2>1, NoLargerSubset DEF AckInv, AcksOwed
<1>10. AcksOwed'
  BY <1>4, <1>8, <1>9, AcksOwedStep DEF AckInv
<1>11. AckIsAwaited'
  BY <1>1, <1>3, <1>4, AwaitedStep DEF AckInv, AckIsAwaited
<1>. QED  BY <1>4, <1>10, <1>11 DEF AckInv

LEMMA AckInvProceed ==
  ASSUME Types, AckInv, NEW n \in Node, Proceed(n)
  PROVE  AckInv'
<1>. DEFINE send == Top(n)
<1>1. /\ Running(n, "send") /\ ack[n] /\ ack' = [ack EXCEPT ![n] = FALSE]
      /\ \/ /\ IsLast(send) /\ rx_frame' = rx_frame
            /\ stack' = [stack EXCEPT ![n] = Popped(n)]
         \/ /\ ~ IsLast(send)
            /\ stack' = [stack EXCEPT ![n] = Replaced(n, NextFrame(send))]
            /\ TransmitData(n, packet_buffer_tx[n], rx_frame, NextFrame(send))
  BY DEF Proceed, AckCleared
<1>2. ~ Idle(n) /\ send \in Sends
  BY <1>1, TopTyped DEF Running
<1>3. ~ ack'[n] /\ \A m \in Node \ {n} : ack'[m] = ack[m]
  BY <1>1 DEF Types
<1>4. <<"seen", n>> \in Owed(n)
  BY <1>1, OwedMember DEF Owes
<1>5. CASE IsLast(send)
  <2>1. /\ RepliesOnTop' /\ OnlyAt(n) /\ ~ Running(n, "reply")' /\ rx_frame' = rx_frame
        /\ SendsOf(n)' = SendsOf(n) \ {Len(stack[n])}
    BY <1>1, <1>2, <1>5, Ended DEF AckInv
  <2>2. ASSUME NEW k \in Node, NEW kind \in {"data", "reply", "ack", "seen"}, NEW m \in Node,
               Owes(k, kind, m)'
        PROVE  Owes(k, kind, m) /\ <<kind, m>> # <<"seen", n>>
    <3>1. m # n => (Running(m, "reply")' <=> Running(m, "reply")) /\ Top(m)' = Top(m)
      BY <2>1, OthersStay
    <3>. QED  BY <1>3, <2>1, <2>2, <3>1 DEF Owes, IsAckFor
  <2>3. NoLarger(Owed(n)', SendsOf(n)')
    <3>1. Owed(n)' \subseteq Owed(n) \ {<<"seen", n>>}
      BY <2>2, OwedGone
    <3>2. NoLarger(Owed(n)', SendsOf(n) \ {Len(stack[n])})
      BY <1>4, <3>1, NoLargerShrunk DEF AckInv, AcksOwed
    <3>. QED  BY <2>1, <3>2
  <2>4. ASSUME NEW k \in Node \ {n} PROVE NoLarger(Owed(k)', SendsOf(k))
    <3>1. Owed(k)' \subseteq Owed(k)
      BY <2>2, OwedKept
    <3>. QED  BY <3>1, NoLargerSubset DEF AckInv, AcksOwed
  <2>. QED  BY <1>3, <2>1, <2>3, <2>4, AcksOwedStep, AwaitedStep DEF AckInv
<1>6. CASE ~ IsLast(send)
  <2>0. NextFrame(send) \in Sends /\ NextFrame(send) \in Activation /\ NextFrame(send).kind = "send"
    BY <1>2, <1>6, NextFrameTyped DEF Activation
  <2>1. /\ RepliesOnTop' /\ OnlyAt(n) /\ ~ Idle(n)' /\ Top(n)' = NextFrame(send)
        /\ SendsOf(n)' = SendsOf(n)
    BY <1>1, <1>2, <1>6, <2>0, Put DEF AckInv
  <2>2. ~ Running(n, "reply")'
    BY <2>0, <2>1 DEF Running
  <2>3. \A m \in Node : \/ rx_frame'[m] = rx_frame[m]
                        \/ /\ rx_frame'[m].type = "data" /\ rx_frame'[m].from = n
                           /\ rx_frame'[m].to = NextFrame(send).packet.to
    BY <1>1, <1>6, <2>0, TransmitsData
  <2>. DEFINE to == NextFrame(send).packet.to
  <2>. HIDE DEF to
  <2>4. ASSUME NEW k \in Node, NEW kind \in {"data", "reply", "ack", "seen"}, NEW m \in Node,
               Owes(k, kind, m)'
        PROVE  \/ k = n /\ <<kind, m>> = <<"data", to>>
               \/ Owes(k, kind, m) /\ <<kind, m>> # <<"seen", n>>
    <3>1. m # n => (Running(m, "reply")' <=> Running(m, "reply")) /\ Top(m)' = Top(m)
      BY <2>1, OthersStay
    <3>. QED  BY <1>3, <2>2, <2>3, <2>4, <3>1 DEF Owes, IsAckFor, to
  <2>5. NoLarger(Owed(n)', SendsOf(n)')
    <3>. DEFINE a == <<"seen", n>>
                b == <<"data", to>>
    <3>1. \A kind \in {"data", "reply", "ack", "seen"} : \A m \in Node :
            Owes(n, kind, m)' => <<kind, m>> = b \/ (Owes(n, kind, m) /\ <<kind, m>> # a)
      BY <2>4
    <3>2. a \in Owed(n)
      BY <1>4
    <3>. HIDE DEF a, b
    <3>3. Owed(n)' \subseteq (Owed(n) \ {a}) \cup {b}
      BY <3>1, OwedMoved
    <3>4. NoLarger(Owed(n)', SendsOf(n))
      BY <3>2, <3>3, NoLargerMoved DEF AckInv, AcksOwed
    <3>. QED  BY <2>1, <3>4
  <2>6. ASSUME NEW k \in Node \ {n} PROVE NoLarger(Owed(k)', SendsOf(k))
    <3>1. Owed(k)' \subseteq Owed(k)
      BY <2>4, OwedKept
    <3>. QED  BY <3>1, NoLargerSubset DEF AckInv, AcksOwed
  <2>. QED  BY <1>3, <2>1, <2>5, <2>6, AcksOwedStep, AwaitedStep DEF AckInv
<1>. QED  BY <1>5, <1>6

LEMMA AckInvWait ==
  ASSUME Types, AckInv, NEW n \in Node, WaitOn(n) \/ CallbackReturns(n)
  PROVE  AckInv'
<1>1. ~ Idle(n) /\ ack' = ack /\ rx_frame' = rx_frame /\ ~ ack[n]
  BY DEF WaitOn, CallbackReturns, Running, AckInv, AckIsAwaited
<1>2. /\ RepliesOnTop' /\ OnlyAt(n) /\ ~ Running(n, "reply")'
      /\ NoLarger(Owed(n), SendsOf(n)')
  <2>1. CASE WaitOn(n)
    <3>. DEFINE a == [Top(n) EXCEPT !.at = "poll"]
    <3>1. Top(n) \in Sends
      BY <2>1, <1>1, TopTyped DEF WaitOn
    <3>2. a \in Activation /\ a.kind = "send"
      BY <3>1 DEF Sends, Activation
    <3>3. stack' = [stack EXCEPT ![n] = Replaced(n, a)] /\ Running(n, "send")
      BY <2>1 DEF WaitOn
    <3>. HIDE DEF a
    <3>4. RepliesOnTop' /\ OnlyAt(n) /\ ~ Idle(n)' /\ Top(n)' = a /\ SendsOf(n)' = SendsOf(n)
      BY <1>1, <3>2, <3>3, Put DEF AckInv
    <3>. QED  BY <3>2, <3>4 DEF Running, AckInv, AcksOwed
  <2>2. CASE CallbackReturns(n)
    <3>1. Running(n, "callback") /\ stack' = [stack EXCEPT ![n] = Popped(n)]
      BY <2>2 DEF CallbackReturns
    <3>2. ~ Running(n, "send")
      BY <3>1 DEF Running
    <3>3. /\ RepliesOnTop' /\ OnlyAt(n) /\ ~ Running(n, "reply")'
          /\ SendsOf(n)' = SendsOf(n)
      BY <1>1, <3>1, <3>2, Ended DEF AckInv
    <3>. QED  BY <3>3 DEF AckInv, AcksOwed
  <2>. QED  BY <2>1, <2>2
<1>3. ASSUME NEW k \in Node PROVE Owed(k)' \subseteq Owed(k)
  <2>1. ASSUME NEW kind \in {"data", "reply", "ack", "seen"}, NEW m \in Node, Owes(k, kind, m)'
        PROVE  Owes(k, kind, m)
    <3>1. m # n => (Running(m, "reply")' <=> Running(m, "reply")) /\ Top(m)' = Top(m)
      BY <1>2, OthersStay
    <3>. QED  BY <1>1, <1>2, <2>1, <3>1 DEF Owes, IsAckFor
  <2>. QED  BY <2>1, OwedKept
<1>4. NoLarger(Owed(n)', SendsOf(n)')
  BY <1>2, <1>3, NoLargerSubset
<1>5. ASSUME NEW k \in Node \ {n} PROVE NoLarger(Owed(k)', SendsOf(k))
  BY <1>3, NoLargerSubset DEF AckInv, AcksOwed
<1>. QED  BY <1>1, <1>2, <1>4, <1>5, AcksOwedStep, AwaitedStep DEF AckInv

LEMMA AckInvReceive ==
  ASSUME Types, AckInv, NEW n \in Node, ReceiveOther(n) \/ ReceiveAck(n)
  PROVE  AckInv'
<1>1. /\ Polls(n) /\ stack' = [stack EXCEPT ![n] = AfterPoll(n)]
      /\ rx_frame' = [rx_frame EXCEPT ![n] = None] /\ rx_frame[n] # None
  BY DEF ReceiveOther, ReceiveAck, FrameTaken
<1>2. /\ RepliesOnTop' /\ OnlyAt(n) /\ ~ Running(n, "reply")' /\ SendsOf(n)' = SendsOf(n)
      /\ Idle(n)' <=> Idle(n)
      /\ ~ Idle(n) => Running(n, "send")' /\ Top(n)'.at = "test"
  BY <1>1, Polled DEF AckInv
<1>3. rx_frame'[n] = None /\ \A m \in Node \ {n} : rx_frame'[m] = rx_frame[m]
  BY <1>1 DEF Types
<1>4. ASSUME NEW m \in Node \ {n}
      PROVE  (Running(m, "reply")' <=> Running(m, "reply")) /\ Top(m)' = Top(m)
  BY <1>2, OthersStay
<1>5. CASE ReceiveOther(n)
  <2>1. ack' = ack
    BY <1>5 DEF ReceiveOther
  <2>2. ASSUME NEW k \in Node PROVE NoLarger(Owed(k)', SendsOf(k))
    <3>1. ASSUME NEW kind \in {"data", "reply", "ack", "seen"}, NEW m \in Node, Owes(k, kind, m)'
          PROVE  Owes(k, kind, m)
      BY <1>2, <1>3, <1>4, <2>1, <3>1 DEF Owes, IsAckFor
    <3>. QED  BY <3>1, OwedKept, NoLargerSubset DEF AckInv, AcksOwed
  <2>3. ack[n] => ~ Idle(n)
    BY DEF AckInv, AckIsAwaited, Running
  <2>. QED  BY <1>2, <2>1, <2>2, <2>3, AcksOwedStep, AwaitedStep DEF AckInv
<1>6. CASE ReceiveAck(n)
  <2>1. ack'[n] /\ (\A m \in Node \ {n} : ack'[m] = ack[m]) /\ IsAckFor(n, rx_frame[n])
    BY <1>6 DEF ReceiveAck, Types
  <2>2. <<"ack", n>> \in Owed(n)
    BY <1>1, <2>1, OwedMember DEF Owes
  <2>3. ~ Idle(n)
    <3>1. ASSUME Idle(n) PROVE FALSE
      <4>1. SendsOf(n) = {}
        BY <3>1 DEF SendsOf, Idle
      <4>2. Cardinality(Owed(n)) \in Nat /\ Cardinality(Owed(n)) <= 0 /\ IsFiniteSet(Owed(n))
        BY <4>1, FS_EmptySet, FS_CardinalityType DEF AckInv, AcksOwed, NoLarger
      <4>3. Cardinality(Owed(n)) = 0
        BY <4>2
      <4>. QED  BY <2>2, <4>2, <4>3, FS_EmptySet
    <3>. QED  BY <3>1
  <2>4. ASSUME NEW k \in Node, NEW kind \in {"data", "reply", "ack", "seen"}, NEW m \in Node,
               Owes(k, kind, m)'
        PROVE  \/ k = n /\ <<kind, m>> = <<"seen", n>>
               \/ Owes(k, kind, m) /\ <<kind, m>> # <<"ack", n>>
    BY <1>2, <1>3, <1>4, <2>1, <2>4 DEF Owes, IsAckFor
  <2>5. NoLarger(Owed(n)', SendsOf(n)')
    <3>. DEFINE a == <<"ack", n>>
                b == <<"seen", n>>
    <3>1. \A kind \in {"data", "reply", "ack", "seen"} : \A m \in Node :
            Owes(n, kind, m)' => <<kind, m>> = b \/ (Owes(n, kind, m) /\ <<kind, m>> # a)
      BY <2>4
    <3>2. a \in Owed(n)
      BY <2>2
    <3>. HIDE DEF a, b
    <3>3. Owed(n)' \subseteq (Owed(n) \ {a}) \cup {b}
      BY <3>1, OwedMoved
    <3>4. NoLarger(Owed(n)', SendsOf(n))
      BY <3>2, <3>3, NoLargerMoved DEF AckInv, AcksOwed
    <3>. QED  BY <1>2, <3>4
  <2>6. ASSUME NEW k \in Node \ {n} PROVE NoLarger(Owed(k)', SendsOf(k))
    <3>1. Owed(k)' \subseteq Owed(k)
      BY <2>4, OwedKept
    <3>. QED  BY <3>1, NoLargerSubset DEF AckInv, AcksOwed
  <2>. QED  BY <1>2, <2>1, <2>3, <2>5, <2>6, AcksOwedStep, AwaitedStep DEF AckInv
<1>. QED  BY <1>5, <1>6

LEMMA AckInvReceiveData ==
  ASSUME Types, AckInv, NEW n \in Node, ReceiveData(n)
  PROVE  AckInv'
<1>. DEFINE reply == [kind |-> "reply", frame |-> rx_frame[n]]
            from  == rx_frame[n].from
<1>1. /\ Polls(n) /\ stack' = [stack EXCEPT ![n] = Append(AfterPoll(n), reply)]
      /\ rx_frame' = [rx_frame EXCEPT ![n] = None] /\ rx_frame[n] # None /\ ack' = ack
      /\ rx_frame[n].to = n /\ rx_frame[n].type = "data"
  BY DEF ReceiveData, FrameTaken
<1>2. rx_frame[n] \in DataFrames /\ reply \in Replies /\ from \in Node
  BY <1>1 DEF Types, Frames, DataFrames, Replies
<1>3. /\ RepliesOnTop' /\ OnlyAt(n) /\ Running(n, "reply")' /\ SendsOf(n)' = SendsOf(n)
      /\ Top(n)' = reply
  BY <1>1, <1>2, PolledAndPushed DEF AckInv
<1>4. rx_frame'[n] = None /\ \A m \in Node \ {n} : rx_frame'[m] = rx_frame[m]
  BY <1>1 DEF Types
<1>5. ASSUME NEW m \in Node \ {n}
      PROVE  (Running(m, "reply")' <=> Running(m, "reply")) /\ Top(m)' = Top(m)
  BY <1>3, OthersStay
<1>6. Top(n)'.frame.from = from
  BY <1>3
<1>. HIDE DEF reply, from
<1>7. ASSUME NEW k \in Node, NEW kind \in {"data", "reply", "ack", "seen"}, NEW m \in Node,
             Owes(k, kind, m)'
      PROVE  \/ k = from /\ <<kind, m>> = <<"reply", n>>
             \/ Owes(k, kind, m) /\ <<kind, m>> # <<"data", n>>
  BY <1>1, <1>3, <1>4, <1>5, <1>6, <1>7 DEF Owes, IsAckFor
<1>8. ASSUME NEW k \in Node PROVE NoLarger(Owed(k)', SendsOf(k))
  <2>1. CASE k = from
    <3>. DEFINE a == <<"data", n>>
                b == <<"reply", n>>
    <3>1. \A kind \in {"data", "reply", "ack", "seen"} : \A m \in Node :
            Owes(k, kind, m)' => <<kind, m>> = b \/ (Owes(k, kind, m) /\ <<kind, m>> # a)
      BY <1>7, <2>1
    <3>2. a \in Owed(k)
      BY <1>1, <2>1, OwedMember DEF Owes, from
    <3>. HIDE DEF a, b
    <3>3. Owed(k)' \subseteq (Owed(k) \ {a}) \cup {b}
      BY <3>1, OwedMoved
    <3>. QED  BY <3>2, <3>3, NoLargerMoved DEF AckInv, AcksOwed
  <2>2. CASE k # from
    <3>1. Owed(k)' \subseteq Owed(k)
      BY <1>7, <2>2, OwedKept
    <3>. QED  BY <3>1, NoLargerSubset DEF AckInv, AcksOwed
  <2>. QED  BY <2>1, <2>2
<1>9. ~ ack[n]
  BY <1>1 DEF AckInv, AckIsAwaited, Polls, Running
<1>. QED  BY <1>1, <1>3, <1>8, <1>9, AcksOwedStep, AwaitedStep DEF AckInv

LEMMA AckInvAcknowledge ==
  ASSUME Types, AckInv, NEW n \in Node, Acknowledge(n)
  PROVE  AckInv'
<1>. DEFINE from == Top(n).frame.from
<1>1. /\ Running(n, "reply") /\ ack' = ack
      /\ \/ stack' = [stack EXCEPT ![n] = Popped(n)]
         \/ stack' = [stack EXCEPT ![n] = Replaced(n, [kind |-> "callback"])]
  BY DEF Acknowledge
<1>2. ~ Idle(n) /\ from \in Node /\ ~ Running(n, "send")
  BY <1>1, TopTyped DEF Running, DataFrames
<1>3. RepliesOnTop' /\ OnlyAt(n) /\ ~ Running(n, "reply")' /\ SendsOf(n)' = SendsOf(n)
  <2>1. CASE stack' = [stack EXCEPT ![n] = Popped(n)]
    BY <1>2, <2>1, Ended DEF AckInv
  <2>2. CASE stack' = [stack EXCEPT ![n] = Replaced(n, [kind |-> "callback"])]
    <3>. DEFINE a == [kind |-> "callback"]
    <3>1. a \in Activation /\ a.kind = "callback"
      BY DEF Activation
    <3>. HIDE DEF a
    <3>2. RepliesOnTop' /\ OnlyAt(n) /\ ~ Idle(n)' /\ Top(n)' = a /\ SendsOf(n)' = SendsOf(n)
      BY <1>2, <2>2, <3>1, Put DEF AckInv, a
    <3>. QED  BY <3>1, <3>2 DEF Running
  <2>. QED  BY <1>1, <2>1, <2>2
<1>4. \A m \in Node : \/ rx_frame'[m] = rx_frame[m]
                      \/ rx_frame'[m].type = "ack" /\ rx_frame'[m].to = from
  <2>1. PICK R \in Reach(n) : rx_frame' = Transmitted(rx_frame, R, AckFrame(n, from))
    BY DEF Acknowledge
  <2>2. AckFrame(n, from).type = "ack" /\ AckFrame(n, from).to = from
    BY DEF AckFrame
  <2>. QED  BY <2>1, <2>2, Transmits
<1>5. ASSUME NEW m \in Node \ {n}
      PROVE  (Running(m, "reply")' <=> Running(m, "reply")) /\ Top(m)' = Top(m)
  BY <1>3, OthersStay
<1>6. <<"reply", n>> \in Owed(from)
  BY <1>1, <1>2, OwedMember DEF Owes
<1>. HIDE DEF from
<1>7. ASSUME NEW k \in Node, NEW kind \in {"data", "reply", "ack", "seen"}, NEW m \in Node,
             Owes(k, kind, m)'
      PROVE  \/ k = from /\ <<kind, m>> = <<"ack", from>>
             \/ Owes(k, kind, m) /\ <<kind, m>> # <<"reply", n>>
  BY <1>1, <1>3, <1>4, <1>5, <1>7 DEF Owes, IsAckFor
<1>8. ASSUME NEW k \in Node PROVE NoLarger(Owed(k)', SendsOf(k))
  <2>1. CASE k = from
    <3>. DEFINE a == <<"reply", n>>
                b == <<"ack", from>>
    <3>1. \A kind \in {"data", "reply", "ack", "seen"} : \A m \in Node :
            Owes(k, kind, m)' => <<kind, m>> = b \/ (Owes(k, kind, m) /\ <<kind, m>> # a)
      BY <1>7, <2>1
    <3>2. a \in Owed(k)
      BY <1>6, <2>1
    <3>. HIDE DEF a, b
    <3>3. Owed(k)' \subseteq (Owed(k) \ {a}) \cup {b}
      BY <3>1, OwedMoved
    <3>. QED  BY <3>2, <3>3, NoLargerMoved DEF AckInv, AcksOwed
  <2>2. CASE k # from
    <3>1. Owed(k)' \subseteq Owed(k)
      BY <1>7, <2>2, OwedKept
    <3>. QED  BY <3>1, NoLargerSubset DEF AckInv, AcksOwed
  <2>. QED  BY <2>1, <2>2
<1>9. ~ ack[n]
  BY <1>1, <1>2 DEF AckInv, AckIsAwaited
<1>. QED  BY <1>1, <1>3, <1>8, <1>9, AcksOwedStep, AwaitedStep DEF AckInv

LEMMA AckInvInit == Init => AckInv
<1>. SUFFICES ASSUME Init PROVE AckInv
  OBVIOUS
<1>1. RepliesOnTop /\ AckIsAwaited
  BY DEF Init, RepliesOnTop, AckIsAwaited
<1>2. ASSUME NEW k \in Node PROVE NoLarger(Owed(k), SendsOf(k))
  <2>1. Owed(k) = {} /\ SendsOf(k) = {}
    BY DEF Init, Owed, Owes, SendsOf, Running, Idle
  <2>. QED  BY <2>1, FS_EmptySet DEF NoLarger
<1>. QED  BY <1>1, <1>2 DEF AckInv, AcksOwed

LEMMA AckInvStep ==
  ASSUME Types, AckInv, [Next]_vars
  PROVE  AckInv'
<1>1. ASSUME NEW n \in Node, NEW p \in setting.outbox[n], SendTooBig(n, p) PROVE AckInv'
  BY <1>1, AckInvKept DEF SendTooBig
<1>2. CASE UNCHANGED vars
  BY <1>2, AckInvKept DEF vars
<1>. QED
  BY <1>1, <1>2, AckInvSend, AckInvProceed, AckInvWait, AckInvReceive, AckInvReceiveData,
     AckInvAcknowledge DEF Next, Run

\* No acknowledgement that is noticed is left over from an earlier send: on any number of nodes,
\* whatever frames are lost or overwritten and however the sends of callbacks nest.
THEOREM AckIsAwaitedAlways == Spec => []AckIsAwaited
<1>1. Types /\ AckInv /\ [Next]_vars => AckInv'
  BY AckInvStep
<1>2. AckInv => AckIsAwaited
  BY DEF AckInv
<1>. QED  BY TypesInvariant, AckInvInit, <1>1, <1>2, PTL DEF Spec

-----------------------------------------------------------------------------
(* Deliveries.  A packet from m to n is worth one delivery: as a send that *)
(* has not come to its last frame, as its last frame on the way, as that   *)
(* frame taken, or as a packet that the callback was given.                *)

\* A send to n that has not come to its last frame.
Open(a, n) == a.kind = "send" /\ a.packet.to = n /\ ~ IsLast(a)

OpenSends(m, n) == {i \in DOMAIN stack[m] : Open(stack[m][i], n)}

\* A frame that ends a packet from m to n.
Ends(frame, m, n) ==
  frame # None /\ frame.type = "data" /\ frame.from = m /\ frame.to = n /\ frame.last

Worth(m, n, kind, i) ==
  \/ kind = "send" /\ i \in OpenSends(m, n)
  \/ kind = "data" /\ i = 0 /\ Ends(rx_frame[n], m, n)
  \/ kind = "reply" /\ i = 0 /\ Running(n, "reply") /\ Top(n).frame.from = m /\ Top(n).frame.last
  \/ kind = "delivered" /\ i \in DOMAIN delivered[n] /\ delivered[n][i].from = m

Kinds == {"send", "data", "reply", "delivered"}

Copies(m, n) == {x \in Kinds \X Nat : Worth(m, n, x[1], x[2])}

SentTo(m, n) == {p \in setting.outbox[m] \ unsent[m] : p.to = n}

OncePerPacket == \A m, n \in Node : NoLarger(Copies(m, n), SentTo(m, n))

LEMMA CopiesKept ==
  ASSUME NEW m, NEW n,
         \A kind \in Kinds : \A i \in Nat : Worth(m, n, kind, i)' => Worth(m, n, kind, i)
  PROVE  Copies(m, n)' \subseteq Copies(m, n)
<1>1. Kinds' = Kinds
  BY DEF Kinds
<1>. QED  BY <1>1 DEF Copies

LEMMA CopiesGrown ==
  ASSUME NEW m, NEW n, NEW b,
         \A kind \in Kinds : \A i \in Nat :
           Worth(m, n, kind, i)' => <<kind, i>> = b \/ Worth(m, n, kind, i)
  PROVE  Copies(m, n)' \subseteq Copies(m, n) \cup {b}
<1>. SUFFICES ASSUME NEW x \in Copies(m, n)' PROVE x \in Copies(m, n) \cup {b}
  OBVIOUS
<1>1. /\ x \in Kinds \X Nat /\ Worth(m, n, x[1], x[2])'
      /\ x = <<x[1], x[2]>> /\ x[1] \in Kinds /\ x[2] \in Nat
  BY DEF Copies, Kinds
<1>2. x = b \/ Worth(m, n, x[1], x[2])
  BY <1>1
<1>. QED  BY <1>1, <1>2 DEF Copies

LEMMA CopiesMoved ==
  ASSUME NEW m, NEW n, NEW a, NEW b,
         \A kind \in Kinds : \A i \in Nat :
           Worth(m, n, kind, i)' => <<kind, i>> = b \/ (Worth(m, n, kind, i) /\ <<kind, i>> # a)
  PROVE  Copies(m, n)' \subseteq (Copies(m, n) \ {a}) \cup {b}
<1>. SUFFICES ASSUME NEW x \in Copies(m, n)' PROVE x \in (Copies(m, n) \ {a}) \cup {b}
  OBVIOUS
<1>1. /\ x \in Kinds \X Nat /\ Worth(m, n, x[1], x[2])'
      /\ x = <<x[1], x[2]>> /\ x[1] \in Kinds /\ x[2] \in Nat
  BY DEF Copies, Kinds
<1>2. x = b \/ (Worth(m, n, x[1], x[2]) /\ x # a)
  BY <1>1
<1>. QED  BY <1>1, <1>2 DEF Copies

LEMMA CopiesMember ==
  ASSUME NEW m, NEW n, NEW kind \in Kinds, NEW i \in Nat, Worth(m, n, kind, i)
  PROVE  <<kind, i>> \in Copies(m, n)
  BY DEF Copies

\* How an action of n changes the open sends.
LEMMA OpenPushed ==
  ASSUME Types, NEW n \in Node, NEW a \in Activation, NEW to,
         stack' = [stack EXCEPT ![n] = Append(stack[n], a)]
  PROVE  /\ \A i \in OpenSends(n, to)' :
              i \in OpenSends(n, to) \/ (i = Len(stack[n]) + 1 /\ Open(a, to))
         /\ Len(stack[n]) + 1 \in Nat
<1>1. stack[n] \in Seq(Activation) /\ stack \in [Node -> Seq(Activation)]
  BY DEF Types
<1>2. /\ stack'[n] = Append(stack[n], a)
      /\ DOMAIN stack'[n] = 1 .. Len(stack[n]) + 1 /\ DOMAIN stack[n] = 1 .. Len(stack[n])
      /\ \A i \in 1 .. Len(stack[n]) : stack'[n][i] = stack[n][i]
      /\ stack'[n][Len(stack[n]) + 1] = a
      /\ Len(stack[n]) \in Nat
  BY <1>1, Appended
<1>3. \A i \in DOMAIN stack'[n] : i \in DOMAIN stack[n] \/ i = Len(stack[n]) + 1
  BY <1>2
<1>. QED  BY <1>2, <1>3 DEF OpenSends, Open, IsLast

LEMMA OpenPut ==
  ASSUME Types, NEW n \in Node, ~ Idle(n), NEW a \in Activation, NEW to,
         stack' = [stack EXCEPT ![n] = Replaced(n, a)]
  PROVE  /\ \A i \in OpenSends(n, to)' :
              \/ i \in OpenSends(n, to) /\ i # Len(stack[n])
              \/ i = Len(stack[n]) /\ Open(a, to)
         /\ Open(Top(n), to) => Len(stack[n]) \in OpenSends(n, to)
         /\ Len(stack[n]) \in Nat
<1>1. stack[n] \in Seq(Activation) /\ stack \in [Node -> Seq(Activation)]
  BY DEF Types
<1>2. /\ stack'[n] = Replaced(n, a)
      /\ Len(stack[n]) \in Nat /\ Len(stack[n]) > 0
      /\ Replaced(n, a) \in Seq(Activation) /\ Len(Replaced(n, a)) = Len(stack[n])
      /\ \A i \in 1 .. Len(stack[n]) - 1 : Replaced(n, a)[i] = stack[n][i]
      /\ Replaced(n, a)[Len(stack[n])] = a
  BY <1>1, TopTyped
<1>3. DOMAIN stack[n] = 1 .. Len(stack[n]) /\ DOMAIN stack'[n] = 1 .. Len(stack[n])
  BY <1>1, <1>2
<1>4. \A i \in 1 .. Len(stack[n]) : i \in 1 .. Len(stack[n]) - 1 \/ i = Len(stack[n])
  BY <1>2
<1>. QED  BY <1>2, <1>3, <1>4 DEF OpenSends, Open, IsLast, Top

LEMMA OpenEnded ==
  ASSUME Types, NEW n \in Node, ~ Idle(n), NEW to, stack' = [stack EXCEPT ![n] = Popped(n)]
  PROVE  OpenSends(n, to)' \subseteq OpenSends(n, to)
<1>1. stack[n] \in Seq(Activation) /\ stack \in [Node -> Seq(Activation)]
  BY DEF Types
<1>2. /\ stack'[n] = Popped(n) /\ Popped(n) \in Seq(Activation)
      /\ Len(Popped(n)) = Len(stack[n]) - 1 /\ Len(stack[n]) \in Nat /\ Len(stack[n]) > 0
      /\ \A i \in 1 .. Len(stack[n]) - 1 : Popped(n)[i] = stack[n][i]
  BY <1>1, TopTyped
<1>3. DOMAIN stack[n] = 1 .. Len(stack[n]) /\ DOMAIN stack'[n] = 1 .. Len(stack[n]) - 1
  BY <1>1, <1>2
<1>. QED  BY <1>2, <1>3 DEF OpenSends, Open, IsLast

LEMMA OpenPolled ==
  ASSUME Types, NEW n \in Node, Polls(n), NEW to,
         \/ stack' = [stack EXCEPT ![n] = AfterPoll(n)]
         \/ \E a \in Replies : stack' = [stack EXCEPT ![n] = Append(AfterPoll(n), a)]
  PROVE  OpenSends(n, to)' \subseteq OpenSends(n, to)
<1>. DEFINE L == Len(stack[n])
            after == AfterPoll(n)
<1>1. stack[n] \in Seq(Activation) /\ stack \in [Node -> Seq(Activation)]
  BY DEF Types
<1>2. /\ after \in Seq(Activation) /\ Len(after) = L /\ L \in Nat
      /\ \A i \in 1 .. L - 1 : after[i] = stack[n][i]
  BY PollTyped
<1>3. L > 0 => (Open(after[L], to) => Open(stack[n][L], to))
  <2>. SUFFICES ASSUME L > 0 PROVE Open(after[L], to) => Open(stack[n][L], to)
    OBVIOUS
  <2>1. ~ Idle(n)
    BY <1>1 DEF Idle
  <2>2. after[L] = [Top(n) EXCEPT !.at = "test"] /\ Top(n) \in Sends
    BY <2>1, PollTyped
  <2>3. /\ after[L].kind = Top(n).kind /\ after[L].packet = Top(n).packet
        /\ after[L].left = Top(n).left
    BY <2>2 DEF Sends
  <2>. QED  BY <2>3 DEF Open, IsLast, Top
<1>. HIDE DEF after
<1>4. /\ \A i \in 1 .. L : stack'[n][i] = after[i]
      /\ DOMAIN stack[n] = 1 .. L
      /\ \A i \in DOMAIN stack'[n] : i \in 1 .. L \/ ~ Open(stack'[n][i], to)
  <2>1. CASE stack' = [stack EXCEPT ![n] = after]
    BY <1>1, <1>2, <2>1
  <2>2. ASSUME NEW a \in Replies, stack' = [stack EXCEPT ![n] = Append(after, a)]
        PROVE  /\ \A i \in 1 .. L : stack'[n][i] = after[i]
               /\ \A i \in DOMAIN stack'[n] : i \in 1 .. L \/ ~ Open(stack'[n][i], to)
    <3>1. a \in Activation /\ a.kind = "reply"
      BY DEF Activation, Replies
    <3>2. /\ stack'[n] = Append(after, a) /\ DOMAIN Append(after, a) = 1 .. L + 1
          /\ \A i \in 1 .. L : Append(after, a)[i] = after[i]
          /\ Append(after, a)[L + 1] = a
      BY <1>1, <1>2, <2>2, <3>1, Appended
    <3>3. \A i \in 1 .. L + 1 : i \in 1 .. L \/ i = L + 1
      BY <1>2
    <3>. QED  BY <3>1, <3>2, <3>3 DEF Open
  <2>3. DOMAIN stack[n] = 1 .. L
    BY <1>1
  <2>. QED  BY <2>1, <2>2, <2>3 DEF after
<1>5. \A i \in 1 .. L : i \in 1 .. L - 1 \/ (i = L /\ L > 0)
  BY <1>2
<1>6. \A i \in 1 .. L : Open(stack'[n][i], to) => Open(stack[n][i], to)
  BY <1>2, <1>3, <1>4, <1>5
<1>7. \A i \in OpenSends(n, to)' : i \in DOMAIN stack'[n] /\ Open(stack'[n][i], to)
  BY DEF OpenSends, Open, IsLast
<1>. QED  BY <1>4, <1>6, <1>7 DEF OpenSends

LEMMA OpenOthers ==
  ASSUME NEW n, OnlyAt(n), NEW m \in Node \ {n}, NEW to
  PROVE  OpenSends(m, to)' = OpenSends(m, to)
  BY DEF OnlyAt, OpenSends, Open, IsLast

LEMMA SentToKept ==
  ASSUME [Next]_vars, unsent' = unsent
  PROVE  \A m, k : SentTo(m, k)' = SentTo(m, k)
  BY SettingKept DEF SentTo

\* A packet that n takes from its outbox is one more of those sent.
LEMMA SentToGrows ==
  ASSUME Types, [Next]_vars, NEW n \in Node, NEW p \in setting.outbox[n], p \in unsent[n],
         unsent' = [unsent EXCEPT ![n] = @ \ {p}]
  PROVE  SentTo(n, p.to)' = SentTo(n, p.to) \cup {p} /\ p \notin SentTo(n, p.to)
  BY SettingKept DEF Types, SentTo

LEMMA SentToSame ==
  ASSUME Types, [Next]_vars, NEW n \in Node, NEW p, NEW m \in Node, NEW k,
         unsent' = [unsent EXCEPT ![n] = @ \ {p}], m # n \/ k # p.to
  PROVE  SentTo(m, k)' = SentTo(m, k)
<1>1. setting' = setting /\ unsent \in [Node -> SUBSET Packets]
  BY SettingKept DEF Types
<1>. QED  BY <1>1 DEF SentTo

LEMMA OnceSend ==
  ASSUME Types, AckInv, OncePerPacket, [Next]_vars,
         NEW n \in Node, NEW p \in setting.outbox[n], dll_send_packet(n, p)
  PROVE  OncePerPacket'
<1>. DEFINE send == NewSend(p)
<1>1. /\ stack' = [stack EXCEPT ![n] = Append(stack[n], send)] /\ ~ TooBig(p)
      /\ Idle(n) \/ Running(n, "callback")
      /\ TransmitData(n, NewBuffer(n, p), rx_frame, send)
      /\ p \in unsent[n] /\ unsent' = [unsent EXCEPT ![n] = @ \ {p}] /\ delivered' = delivered
  BY DEF dll_send_packet, NewSend, NewBuffer, history
<1>2. send \in Sends /\ send \in Activation /\ send.kind = "send" /\ send.packet = p
  BY <1>1, NewSendTyped DEF NewSend
<1>. HIDE DEF send
<1>3. ~ Running(n, "reply")
  BY <1>1 DEF Running
<1>4. OnlyAt(n) /\ ~ Running(n, "reply")'
  BY <1>1, <1>2, <1>3, Pushed DEF AckInv, Running
<1>5. \A k \in Node : \/ rx_frame'[k] = rx_frame[k]
                      \/ /\ rx_frame'[k].type = "data" /\ rx_frame'[k].from = n
                         /\ rx_frame'[k].to = p.to /\ rx_frame'[k].last = IsLast(send)
  BY <1>1, <1>2, TransmitsData
<1>. DEFINE b == IF IsLast(send) THEN <<"data", 0>> ELSE <<"send", Len(stack[n]) + 1>>
<1>6. ASSUME NEW m \in Node, NEW k \in Node, NEW kind \in Kinds, NEW i \in Nat, Worth(m, k, kind, i)'
      PROVE  Worth(m, k, kind, i) \/ (m = n /\ k = p.to /\ <<kind, i>> = b)
  <2>1. k # n => (Running(k, "reply")' <=> Running(k, "reply")) /\ Top(k)' = Top(k)
    BY <1>4, OthersStay
  <2>2. \A j \in OpenSends(m, k)' :
          \/ j \in OpenSends(m, k)
          \/ m = n /\ j = Len(stack[n]) + 1 /\ k = p.to /\ ~ IsLast(send)
    <3>1. CASE m = n
      BY <1>1, <1>2, <3>1, OpenPushed DEF Open
    <3>2. CASE m # n
      BY <1>4, <3>2, OpenOthers
    <3>. QED  BY <3>1, <3>2
  <2>. QED  BY <1>1, <1>4, <1>5, <1>6, <2>1, <2>2 DEF Worth, Ends
<1>. HIDE DEF b
<1>7. ASSUME NEW m \in Node, NEW k \in Node PROVE NoLarger(Copies(m, k)', SentTo(m, k)')
  <2>1. CASE m = n /\ k = p.to
    <3>1. Copies(m, k)' \subseteq Copies(m, k) \cup {b}
      BY <1>6, CopiesGrown
    <3>2. SentTo(m, k)' = SentTo(m, k) \cup {p} /\ p \notin SentTo(m, k)
      BY <1>1, <2>1, SentToGrows
    <3>3. NoLarger(Copies(m, k)', SentTo(m, k) \cup {p})
      BY <3>1, <3>2, NoLargerGrown DEF OncePerPacket
    <3>. QED  BY <3>2, <3>3
  <2>2. CASE ~ (m = n /\ k = p.to)
    <3>1. Copies(m, k)' \subseteq Copies(m, k)
      BY <1>6, <2>2, CopiesKept
    <3>2. SentTo(m, k)' = SentTo(m, k)
      <4>1. unsent' = [unsent EXCEPT ![n] = @ \ {p}]
        BY <1>1
      <4>2. m # n \/ k # p.to
        BY <2>2
      <4>. QED  BY <4>1, <4>2, SettingKept DEF Types, SentTo
    <3>3. NoLarger(Copies(m, k)', SentTo(m, k))
      BY <3>1, NoLargerSubset DEF OncePerPacket
    <3>. QED  BY <3>2, <3>3
  <2>. QED  BY <2>1, <2>2
<1>. QED  BY <1>7 DEF OncePerPacket, NoLarger

LEMMA OnceTooBig ==
  ASSUME Types, OncePerPacket, [Next]_vars,
         NEW n \in Node, NEW p \in setting.outbox[n], SendTooBig(n, p)
  PROVE  OncePerPacket'
<1>1. /\ p \in unsent[n] /\ unsent' = [unsent EXCEPT ![n] = @ \ {p}]
      /\ UNCHANGED <<stack, rx_frame, delivered>>
  BY DEF SendTooBig, history
<1>2. ASSUME NEW m \in Node, NEW k \in Node PROVE NoLarger(Copies(m, k)', SentTo(m, k)')
  <2>1. Copies(m, k)' = Copies(m, k)
    BY <1>1 DEF Copies, Kinds, Worth, OpenSends, Open, IsLast, Ends, Running, Idle, Top
  <2>2. CASE m = n /\ k = p.to
    <3>1. SentTo(m, k)' = SentTo(m, k) \cup {p} /\ p \notin SentTo(m, k)
      BY <1>1, <2>2, SentToGrows
    <3>2. NoLarger(Copies(m, k), SentTo(m, k) \cup {p})
      <4>1. Copies(m, k) \subseteq Copies(m, k) \cup {p}
        OBVIOUS
      <4>. QED  BY <3>1, <4>1, NoLargerGrown DEF OncePerPacket
    <3>. QED  BY <2>1, <3>1, <3>2
  <2>3. CASE ~ (m = n /\ k = p.to)
    <3>1. SentTo(m, k)' = SentTo(m, k)
      <4>1. unsent' = [unsent EXCEPT ![n] = @ \ {p}]
        BY <1>1
      <4>2. m # n \/ k # p.to
        BY <2>3
      <4>. QED  BY <4>1, <4>2, SettingKept DEF Types, SentTo
    <3>. QED  BY <2>1, <3>1 DEF OncePerPacket
  <2>. QED  BY <2>2, <2>3
<1>. QED  BY <1>2 DEF OncePerPacket, NoLarger

\* What is left to show of an action that takes no packet from an outbox.
LEMMA OnceStep ==
  ASSUME OncePerPacket, [Next]_vars, unsent' = unsent,
         NEW from, NEW to, NEW a \in Copies(from, to), NEW b,
         \A m, k \in Node : \A kind \in Kinds : \A i \in Nat :
           Worth(m, k, kind, i)' =>
             IF m = from /\ k = to THEN <<kind, i>> = b \/ (Worth(m, k, kind, i) /\ <<kind, i>> # a)
             ELSE Worth(m, k, kind, i)
  PROVE  OncePerPacket'
<1>1. ASSUME NEW m \in Node, NEW k \in Node PROVE NoLarger(Copies(m, k)', SentTo(m, k)')
  <2>1. CASE m = from /\ k = to
    <3>1. \A kind \in Kinds : \A i \in Nat :
            Worth(m, k, kind, i)' => <<kind, i>> = b \/ (Worth(m, k, kind, i) /\ <<kind, i>> # a)
      BY <2>1
    <3>2. Copies(m, k)' \subseteq (Copies(m, k) \ {a}) \cup {b}
      BY <3>1, CopiesMoved
    <3>3. NoLarger(Copies(m, k)', SentTo(m, k))
      BY <2>1, <3>2, NoLargerMoved DEF OncePerPacket
    <3>. QED  BY <3>3, SentToKept
  <2>2. CASE ~ (m = from /\ k = to)
    <3>1. \A kind \in Kinds : \A i \in Nat : Worth(m, k, kind, i)' => Worth(m, k, kind, i)
      BY <2>2
    <3>2. Copies(m, k)' \subseteq Copies(m, k)
      BY <3>1, CopiesKept
    <3>3. NoLarger(Copies(m, k)', SentTo(m, k))
      BY <3>2, NoLargerSubset DEF OncePerPacket
    <3>. QED  BY <3>3, SentToKept
  <2>. QED  BY <2>1, <2>2
<1>. QED  BY <1>1 DEF OncePerPacket, NoLarger

LEMMA OnceKept ==
  ASSUME OncePerPacket, [Next]_vars, unsent' = unsent,
         \A m, k \in Node : \A kind \in Kinds : \A i \in Nat :
           Worth(m, k, kind, i)' => Worth(m, k, kind, i)
  PROVE  OncePerPacket'
<1>1. ASSUME NEW m \in Node, NEW k \in Node PROVE NoLarger(Copies(m, k)', SentTo(m, k)')
  <2>1. Copies(m, k)' \subseteq Copies(m, k)
    BY CopiesKept
  <2>2. NoLarger(Copies(m, k)', SentTo(m, k))
    BY <2>1, NoLargerSubset DEF OncePerPacket
  <2>. QED  BY <2>2, SentToKept
<1>. QED  BY <1>1 DEF OncePerPacket, NoLarger

LEMMA OnceProceed ==
  ASSUME Types, AckInv, OncePerPacket, [Next]_vars, NEW n \in Node, Proceed(n)
  PROVE  OncePerPacket'
<1>. DEFINE send == Top(n)
            next == NextFrame(send)
<1>1. /\ Running(n, "send") /\ unsent' = unsent /\ delivered' = delivered
      /\ \/ /\ IsLast(send) /\ rx_frame' = rx_frame
            /\ stack' = [stack EXCEPT ![n] = Popped(n)]
         \/ /\ ~ IsLast(send)
            /\ stack' = [stack EXCEPT ![n] = Replaced(n, next)]
            /\ TransmitData(n, packet_buffer_tx[n], rx_frame, next)
  BY DEF Proceed
<1>2. ~ Idle(n) /\ send \in Sends /\ send.kind = "send"
  BY <1>1, TopTyped DEF Running, Sends
<1>3. CASE IsLast(send)
  <2>1. OnlyAt(n) /\ ~ Running(n, "reply")'
    BY <1>1, <1>2, <1>3, Ended DEF AckInv
  <2>2. ASSUME NEW m \in Node, NEW k \in Node, NEW kind \in Kinds, NEW i \in Nat, Worth(m, k, kind, i)'
        PROVE  Worth(m, k, kind, i)
    <3>1. k # n => (Running(k, "reply")' <=> Running(k, "reply")) /\ Top(k)' = Top(k)
      BY <2>1, OthersStay
    <3>2. OpenSends(m, k)' \subseteq OpenSends(m, k)
      <4>1. CASE m = n
        BY <1>1, <1>2, <1>3, <4>1, OpenEnded
      <4>2. CASE m # n
        BY <2>1, <4>2, OpenOthers
      <4>. QED  BY <4>1, <4>2
    <3>. QED  BY <1>1, <1>3, <2>1, <2>2, <3>1, <3>2 DEF Worth, Ends
  <2>3. unsent' = unsent
    BY <1>1
  <2>. QED  BY <2>2, <2>3, OnceKept
<1>4. CASE ~ IsLast(send)
  <2>1. /\ next \in Sends /\ next \in Activation /\ next.kind = "send"
        /\ next.packet = send.packet
    BY <1>2, <1>4, NextFrameTyped DEF Activation
  <2>2. stack' = [stack EXCEPT ![n] = Replaced(n, next)]
    BY <1>1, <1>4
  <2>. DEFINE to == send.packet.to
  <2>3. \A k \in Node : \/ rx_frame'[k] = rx_frame[k]
                        \/ /\ rx_frame'[k].type = "data" /\ rx_frame'[k].from = n
                           /\ rx_frame'[k].to = to /\ rx_frame'[k].last = IsLast(next)
    BY <1>1, <1>4, <2>1, TransmitsData
  <2>. HIDE DEF next
  <2>4. OnlyAt(n) /\ ~ Running(n, "reply")'
    BY <1>2, <2>1, <2>2, Put DEF AckInv, Running
  <2>5. /\ Open(send, to) /\ Len(stack[n]) \in OpenSends(n, to) /\ Len(stack[n]) \in Nat
    <3>1. Open(send, to)
      BY <1>2, <1>4 DEF Open
    <3>. QED  BY <1>2, <2>1, <2>2, <3>1, OpenPut
  <2>6. ASSUME NEW k
        PROVE  \A i \in OpenSends(n, k)' :
                 /\ i \in OpenSends(n, k)
                 /\ i = Len(stack[n]) => k = to /\ ~ IsLast(next)
    <3>1. \A i \in OpenSends(n, k)' :
            \/ i \in OpenSends(n, k) /\ i # Len(stack[n])
            \/ i = Len(stack[n]) /\ Open(next, k)
      BY <1>2, <2>1, <2>2, OpenPut
    <3>2. Open(next, k) => k = to /\ ~ IsLast(next)
      BY <2>1 DEF Open
    <3>. QED  BY <2>5, <3>1, <3>2
  <2>7. ASSUME NEW m \in Node, NEW k \in Node, NEW kind \in Kinds, NEW i \in Nat,
               Worth(m, k, kind, i)'
        PROVE  \/ m = n /\ k = to /\ <<kind, i>> = <<"data", 0>> /\ IsLast(next)
               \/ /\ Worth(m, k, kind, i)
                  /\ m = n /\ k = to /\ IsLast(next) => <<kind, i>> # <<"send", Len(stack[n])>>
    <3>1. k # n => (Running(k, "reply")' <=> Running(k, "reply")) /\ Top(k)' = Top(k)
      BY <2>4, OthersStay
    <3>2. m # n => OpenSends(m, k)' = OpenSends(m, k)
      BY <2>4, OpenOthers
    <3>3. m = n => \A j \in OpenSends(m, k)' :
                     /\ j \in OpenSends(m, k)
                     /\ j = Len(stack[n]) => k = to /\ ~ IsLast(next)
      BY <2>6
    <3>. QED  BY <1>1, <2>3, <2>4, <2>7, <3>1, <3>2, <3>3 DEF Worth, Ends
  <2>8. unsent' = unsent
    BY <1>1
  <2>9. CASE ~ IsLast(next)
    BY <2>7, <2>8, <2>9, OnceKept
  <2>10. CASE IsLast(next)
    <3>. DEFINE a == <<"send", Len(stack[n])>>
                b == <<"data", 0>>
    <3>1. a \in Copies(n, to)
      BY <2>5, CopiesMember DEF Worth, Kinds
    <3>2. \A m, k \in Node : \A kind \in Kinds : \A i \in Nat :
            Worth(m, k, kind, i)' =>
              IF m = n /\ k = to
                THEN <<kind, i>> = b \/ (Worth(m, k, kind, i) /\ <<kind, i>> # a)
                ELSE Worth(m, k, kind, i)
      BY <2>7, <2>10
    <3>. HIDE DEF a, b, to
    <3>. QED  BY <2>8, <3>1, <3>2, OnceStep
  <2>. QED  BY <2>9, <2>10
<1>. QED  BY <1>3, <1>4

LEMMA OnceWait ==
  ASSUME Types, AckInv, OncePerPacket, [Next]_vars, NEW n \in Node, WaitOn(n) \/ CallbackReturns(n)
  PROVE  OncePerPacket'
<1>1. ~ Idle(n) /\ unsent' = unsent /\ rx_frame' = rx_frame /\ delivered' = delivered
  BY DEF WaitOn, CallbackReturns, Running, history
<1>2. /\ OnlyAt(n) /\ ~ Running(n, "reply")'
      /\ \A k : OpenSends(n, k)' \subseteq OpenSends(n, k)
  <2>1. CASE WaitOn(n)
    <3>. DEFINE a == [Top(n) EXCEPT !.at = "poll"]
    <3>1. Top(n) \in Sends
      BY <2>1, <1>1, TopTyped DEF WaitOn
    <3>2. /\ a \in Activation /\ a.kind = "send" /\ Top(n).kind = "send"
          /\ a.packet = Top(n).packet /\ a.left = Top(n).left
      BY <3>1 DEF Sends, Activation
    <3>3. stack' = [stack EXCEPT ![n] = Replaced(n, a)]
      BY <2>1 DEF WaitOn
    <3>. HIDE DEF a
    <3>4. OnlyAt(n) /\ ~ Running(n, "reply")'
      BY <1>1, <3>2, <3>3, Put DEF AckInv, Running
    <3>5. \A k : Open(a, k) => Open(Top(n), k)
      BY <3>2 DEF Open, IsLast
    <3>6. \A k : OpenSends(n, k)' \subseteq OpenSends(n, k)
      BY <1>1, <3>2, <3>3, <3>5, OpenPut
    <3>. QED  BY <3>4, <3>6
  <2>2. CASE CallbackReturns(n)
    <3>1. stack' = [stack EXCEPT ![n] = Popped(n)]
      BY <2>2 DEF CallbackReturns
    <3>. QED  BY <1>1, <3>1, Ended, OpenEnded DEF AckInv
  <2>. QED  BY <2>1, <2>2
<1>3. ASSUME NEW m \in Node, NEW k \in Node, NEW kind \in Kinds, NEW i \in Nat, Worth(m, k, kind, i)'
      PROVE  Worth(m, k, kind, i)
  <2>1. k # n => (Running(k, "reply")' <=> Running(k, "reply")) /\ Top(k)' = Top(k)
    BY <1>2, OthersStay
  <2>2. m # n => OpenSends(m, k)' = OpenSends(m, k)
    BY <1>2, OpenOthers
  <2>. QED  BY <1>1, <1>2, <1>3, <2>1, <2>2 DEF Worth, Ends
<1>. QED  BY <1>1, <1>3, OnceKept

LEMMA OnceReceive ==
  ASSUME Types, AckInv, OncePerPacket, [Next]_vars, NEW n \in Node, ReceiveOther(n) \/ ReceiveAck(n)
  PROVE  OncePerPacket'
<1>1. /\ Polls(n) /\ stack' = [stack EXCEPT ![n] = AfterPoll(n)]
      /\ rx_frame' = [rx_frame EXCEPT ![n] = None]
      /\ unsent' = unsent /\ delivered' = delivered
  BY DEF ReceiveOther, ReceiveAck, FrameTaken, history
<1>2. /\ OnlyAt(n) /\ ~ Running(n, "reply")'
      /\ \A k : OpenSends(n, k)' \subseteq OpenSends(n, k)
  BY <1>1, Polled, OpenPolled DEF AckInv
<1>3. rx_frame'[n] = None /\ \A m \in Node \ {n} : rx_frame'[m] = rx_frame[m]
  BY <1>1 DEF Types
<1>4. ASSUME NEW m \in Node, NEW k \in Node, NEW kind \in Kinds, NEW i \in Nat, Worth(m, k, kind, i)'
      PROVE  Worth(m, k, kind, i)
  <2>1. k # n => (Running(k, "reply")' <=> Running(k, "reply")) /\ Top(k)' = Top(k)
    BY <1>2, OthersStay
  <2>2. m # n => OpenSends(m, k)' = OpenSends(m, k)
    BY <1>2, OpenOthers
  <2>. QED  BY <1>1, <1>2, <1>3, <1>4, <2>1, <2>2 DEF Worth, Ends
<1>. QED  BY <1>1, <1>4, OnceKept

LEMMA OnceReceiveData ==
  ASSUME Types, AckInv, OncePerPacket, [Next]_vars, NEW n \in Node, ReceiveData(n)
  PROVE  OncePerPacket'
<1>. DEFINE reply == [kind |-> "reply", frame |-> rx_frame[n]]
            from  == rx_frame[n].from
<1>1. /\ Polls(n) /\ stack' = [stack EXCEPT ![n] = Append(AfterPoll(n), reply)]
      /\ rx_frame' = [rx_frame EXCEPT ![n] = None] /\ rx_frame[n] # None
      /\ unsent' = unsent /\ delivered' = delivered
      /\ rx_frame[n].to = n /\ rx_frame[n].type = "data"
  BY DEF ReceiveData, FrameTaken, history
<1>2. reply \in Replies /\ reply.frame = rx_frame[n] /\ rx_frame[n].last \in BOOLEAN
  BY <1>1 DEF Types, Frames, DataFrames, Replies
<1>. HIDE DEF reply
<1>3. /\ OnlyAt(n) /\ Top(n)' = reply
      /\ \A k : OpenSends(n, k)' \subseteq OpenSends(n, k)
  BY <1>1, <1>2, PolledAndPushed, OpenPolled DEF AckInv
<1>4. rx_frame'[n] = None /\ \A m \in Node \ {n} : rx_frame'[m] = rx_frame[m]
  BY <1>1 DEF Types
<1>5. Top(n)'.frame.from = from /\ Top(n)'.frame.last = rx_frame[n].last
  BY <1>2, <1>3
<1>6. ASSUME NEW m \in Node, NEW k \in Node, NEW kind \in Kinds, NEW i \in Nat, Worth(m, k, kind, i)'
      PROVE  \/ m = from /\ k = n /\ <<kind, i>> = <<"reply", 0>> /\ rx_frame[n].last
             \/ Worth(m, k, kind, i) /\ (m = from /\ k = n => <<kind, i>> # <<"data", 0>>)
  <2>1. k # n => (Running(k, "reply")' <=> Running(k, "reply")) /\ Top(k)' = Top(k)
    BY <1>3, OthersStay
  <2>2. m # n => OpenSends(m, k)' = OpenSends(m, k)
    BY <1>3, OpenOthers
  <2>. QED  BY <1>1, <1>3, <1>4, <1>5, <1>6, <2>1, <2>2 DEF Worth, Ends
<1>7. CASE ~ rx_frame[n].last
  BY <1>1, <1>6, <1>7, OnceKept
<1>8. CASE rx_frame[n].last
  <2>. DEFINE a == <<"data", 0>>
              b == <<"reply", 0>>
  <2>1. a \in Copies(from, n)
    BY <1>1, <1>8, CopiesMember DEF Worth, Kinds, Ends
  <2>2. \A m, k \in Node : \A kind \in Kinds : \A i \in Nat :
          Worth(m, k, kind, i)' =>
            IF m = from /\ k = n
              THEN <<kind, i>> = b \/ (Worth(m, k, kind, i) /\ <<kind, i>> # a)
              ELSE Worth(m, k, kind, i)
    BY <1>6
  <2>. HIDE DEF a, b, from
  <2>. QED  BY <1>1, <2>1, <2>2, OnceStep
<1>. QED  BY <1>2, <1>7, <1>8

LEMMA OnceAcknowledge ==
  ASSUME Types, AckInv, OncePerPacket, [Next]_vars, NEW n \in Node, Acknowledge(n)
  PROVE  OncePerPacket'
<1>. DEFINE frame == Top(n).frame
            from  == frame.from
            record == [from |-> from,
                       data |-> Given(Copied(n, frame, received_packet_length[n]),
                                      received_packet_length[n])]
<1>1. /\ Running(n, "reply") /\ unsent' = unsent
      /\ \/ /\ frame.last
            /\ stack' = [stack EXCEPT ![n] = Replaced(n, [kind |-> "callback"])]
            /\ delivered' = [delivered EXCEPT ![n] = Append(@, record)]
         \/ /\ ~ frame.last
            /\ stack' = [stack EXCEPT ![n] = Popped(n)]
            /\ delivered' = delivered
  BY DEF Acknowledge
<1>2. /\ ~ Idle(n) /\ from \in Node /\ record.from = from
      /\ record \in [from : Node, data : Seq(BytesSent)]
  BY <1>1, ReceivedTyped DEF Running
<1>. HIDE DEF record
<1>3. /\ OnlyAt(n) /\ ~ Running(n, "reply")'
      /\ \A k : OpenSends(n, k)' \subseteq OpenSends(n, k)
  <2>1. CASE stack' = [stack EXCEPT ![n] = Popped(n)]
    BY <1>2, <2>1, Ended, OpenEnded DEF AckInv
  <2>2. CASE stack' = [stack EXCEPT ![n] = Replaced(n, [kind |-> "callback"])]
    <3>. DEFINE a == [kind |-> "callback"]
    <3>1. a \in Activation /\ a.kind = "callback"
      BY DEF Activation
    <3>. HIDE DEF a
    <3>2. OnlyAt(n) /\ ~ Running(n, "reply")'
      BY <1>2, <2>2, <3>1, Put DEF AckInv, Running, a
    <3>3. \A k : OpenSends(n, k)' \subseteq OpenSends(n, k)
      BY <1>2, <2>2, <3>1, OpenPut DEF Open, a
    <3>. QED  BY <3>2, <3>3
  <2>. QED  BY <1>1, <2>1, <2>2
<1>4. \A m \in Node : rx_frame'[m] = rx_frame[m] \/ rx_frame'[m].type = "ack"
  <2>1. PICK R \in Reach(n) : rx_frame' = Transmitted(rx_frame, R, AckFrame(n, from))
    BY DEF Acknowledge
  <2>2. AckFrame(n, from).type = "ack"
    BY DEF AckFrame
  <2>. QED  BY <2>1, <2>2, Transmits
<1>. DEFINE L == Len(delivered[n])
<1>5. /\ L \in Nat /\ DOMAIN delivered[n] = 1 .. L
      /\ \A m \in Node \ {n} : delivered'[m] = delivered[m]
      /\ ~ frame.last => delivered'[n] = delivered[n]
      /\ frame.last => /\ DOMAIN delivered'[n] = 1 .. L + 1
                       /\ \A i \in 1 .. L : delivered'[n][i] = delivered[n][i]
                       /\ delivered'[n][L + 1].from = from
  <2>. DEFINE Given_to == [from : Node, data : Seq(BytesSent)]
  <2>1. delivered \in [Node -> Seq(Given_to)] /\ record \in Given_to
    BY <1>2 DEF Types
  <2>. HIDE DEF Given_to, frame, from
  <2>2. frame.last => delivered' = [delivered EXCEPT ![n] = Append(delivered[n], record)]
    BY <1>1, <2>1
  <2>3. ~ frame.last => delivered' = delivered
    BY <1>1
  <2>4. delivered[n] \in Seq(Given_to)
    BY <2>1
  <2>5. /\ Append(delivered[n], record) \in Seq(Given_to)
        /\ Len(Append(delivered[n], record)) = L + 1 /\ L \in Nat
        /\ \A i \in 1 .. L : Append(delivered[n], record)[i] = delivered[n][i]
        /\ Append(delivered[n], record)[L + 1] = record
    BY <2>1, <2>4, Appended
  <2>6. DOMAIN delivered[n] = 1 .. L /\ DOMAIN Append(delivered[n], record) = 1 .. L + 1
    BY <2>4, <2>5
  <2>7. ~ frame.last \/ frame.last
    OBVIOUS
  <2>8. frame.last => delivered'[n] = Append(delivered[n], record)
    BY <2>1, <2>2
  <2>9. \A m \in Node \ {n} : delivered'[m] = delivered[m]
    BY <2>1, <2>2, <2>3, <2>7
  <2>. QED  BY <1>2, <2>3, <2>5, <2>6, <2>8, <2>9
<1>. HIDE DEF L
<1>6. ASSUME NEW m \in Node, NEW k \in Node, NEW kind \in Kinds, NEW i \in Nat, Worth(m, k, kind, i)'
      PROVE  \/ m = from /\ k = n /\ <<kind, i>> = <<"delivered", L + 1>> /\ frame.last
             \/ Worth(m, k, kind, i) /\ (m = from /\ k = n => <<kind, i>> # <<"reply", 0>>)
  <2>1. k # n => (Running(k, "reply")' <=> Running(k, "reply")) /\ Top(k)' = Top(k)
    BY <1>3, OthersStay
  <2>2. m # n => OpenSends(m, k)' = OpenSends(m, k)
    BY <1>3, OpenOthers
  <2>3. kind = "delivered" /\ i \in DOMAIN delivered'[k] /\ delivered'[k][i].from = m =>
          \/ i \in DOMAIN delivered[k] /\ delivered[k][i].from = m
          \/ k = n /\ i = L + 1 /\ m = from /\ frame.last
    <3>1. \A j \in 1 .. L + 1 : j \in 1 .. L \/ j = L + 1
      BY <1>5
    <3>. HIDE DEF frame, from
    <3>. QED  BY <1>5, <3>1
  <2>. QED  BY <1>3, <1>4, <1>6, <2>1, <2>2, <2>3 DEF Worth, Ends
<1>7. CASE ~ frame.last
  BY <1>1, <1>6, <1>7, OnceKept
<1>8. CASE frame.last
  <2>. DEFINE a == <<"reply", 0>>
              b == <<"delivered", L + 1>>
  <2>1. a \in Copies(from, n)
    BY <1>1, <1>8, CopiesMember DEF Worth, Kinds
  <2>2. \A m, k \in Node : \A kind \in Kinds : \A i \in Nat :
          Worth(m, k, kind, i)' =>
            IF m = from /\ k = n
              THEN <<kind, i>> = b \/ (Worth(m, k, kind, i) /\ <<kind, i>> # a)
              ELSE Worth(m, k, kind, i)
    BY <1>6
  <2>. HIDE DEF a, b, from
  <2>. QED  BY <1>1, <2>1, <2>2, OnceStep
<1>. QED  BY <1>7, <1>8

\* A node's callback is called for packets that were sent to it, once each at most: on any number
\* of nodes, whatever frames are lost or overwritten and however the sends of callbacks nest.
THEOREM DeliveredOnceAlways == Spec => []DeliveredOnce
<1>1. Init => AckInv /\ OncePerPacket
  <2>. SUFFICES ASSUME Init PROVE AckInv /\ OncePerPacket
    OBVIOUS
  <2>1. AckInv
    BY AckInvInit
  <2>2. ASSUME NEW m \in Node, NEW n \in Node PROVE NoLarger(Copies(m, n), SentTo(m, n))
    <3>1. SentTo(m, n) = {}
      BY DEF Init, SentTo
    <3>2. \A kind, i : ~ Worth(m, n, kind, i)
      BY DEF Init, Worth, OpenSends, Open, Ends, Running, Idle
    <3>3. Copies(m, n) = {}
      BY <3>2 DEF Copies
    <3>. QED  BY <3>1, <3>3, FS_EmptySet DEF NoLarger
  <2>. QED  BY <2>1, <2>2 DEF OncePerPacket
<1>2. Types /\ AckInv /\ OncePerPacket /\ [Next]_vars => AckInv' /\ OncePerPacket'
  <2>. SUFFICES ASSUME Types, AckInv, OncePerPacket, [Next]_vars PROVE AckInv' /\ OncePerPacket'
    OBVIOUS
  <2>1. AckInv'
    BY AckInvStep
  <2>2. ASSUME UNCHANGED vars PROVE OncePerPacket'
    <3>1. UNCHANGED <<stack, rx_frame, delivered, unsent>>
      BY <2>2 DEF vars, history
    <3>2. \A m, n \in Node : \A kind \in Kinds : \A i \in Nat :
            Worth(m, n, kind, i)' => Worth(m, n, kind, i)
      BY <3>1 DEF Worth, OpenSends, Open, IsLast, Ends, Running, Idle, Top
    <3>. QED  BY <3>1, <3>2, OnceKept
  <2>3. OncePerPacket'
    BY <2>2, OnceSend, OnceTooBig, OnceProceed, OnceWait, OnceReceive, OnceReceiveData,
       OnceAcknowledge DEF Next, Run
  <2>. QED  BY <2>1, <2>3
<1>3. Types /\ OncePerPacket => DeliveredOnce
  <2>. SUFFICES ASSUME Types, OncePerPacket, NEW n \in Node, NEW m \in Node
                PROVE  LET S == {i \in DOMAIN delivered[n] : delivered[n][i].from = m}
                       IN  Cardinality(S) <= Cardinality(SentTo(m, n))
    BY DEF DeliveredOnce, SentTo
  <2>. DEFINE S == {i \in DOMAIN delivered[n] : delivered[n][i].from = m}
              f == [i \in S |-> <<"delivered", i>>]
  <2>1. ASSUME NEW i \in S PROVE <<"delivered", i>> \in Copies(m, n)
    <3>1. i \in Nat
      <4>1. delivered[n] \in Seq([from : Node, data : Seq(BytesSent)])
        BY DEF Types
      <4>. QED  BY <4>1
    <3>. QED  BY <3>1, CopiesMember DEF Worth, Kinds
  <2>2. f \in Injection(S, Copies(m, n))
    BY <2>1 DEF Injection, IsInjective
  <2>. HIDE DEF S, f
  <2>3. /\ IsFiniteSet(Copies(m, n)) /\ IsFiniteSet(SentTo(m, n))
        /\ Cardinality(Copies(m, n)) <= Cardinality(SentTo(m, n))
    BY DEF OncePerPacket, NoLarger
  <2>4. IsFiniteSet(S) /\ Cardinality(S) <= Cardinality(Copies(m, n))
    BY <2>2, <2>3, FS_Injection
  <2>5. /\ Cardinality(S) \in Nat /\ Cardinality(Copies(m, n)) \in Nat
        /\ Cardinality(SentTo(m, n)) \in Nat
    BY <2>3, <2>4, FS_CardinalityType
  <2>6. Cardinality(S) <= Cardinality(SentTo(m, n))
    BY <2>3, <2>4, <2>5
  <2>. QED  BY <2>6 DEF S
<1>. QED  BY TypesInvariant, <1>1, <1>2, <1>3, PTL DEF Spec

-----------------------------------------------------------------------------
(* Traffic to one node.  The invariant follows a packet through the send,  *)
(* the frame on its way, the reply and the acknowledgement on its way      *)
(* back, and says at each what the receiver has counted and collected.     *)

Small == \A p \in Packets : p.length <= FragSize

Alone(s) == \A n \in Node \ {s} : setting.outbox[n] = {}

Converging(r) == /\ r \in Node
                 /\ \A p \in Packets : p.to = r
                 /\ Small \/ \E s \in Node : Alone(s)

Callback == [kind |-> "callback"]
Reply(f) == [kind |-> "reply", frame |-> f]

\* Where the frame of a send begins in its packet, and how much it carries of it.
Base(a) == a.frame_number * FragSize
Size(a) == IF IsLast(a) THEN a.left ELSE FragSize

\* The frame is the current one of the send.
Carries(f, a) ==
  /\ f.seq = a.seq /\ (f.last <=> IsLast(a)) /\ Len(f.data) = Size(a)
  /\ \A i \in 1 .. Size(a) : f.data[i] = Byte(a.packet, Base(a) + i)

\* What the receiver has counted, the sequence number it expects, and how much of a packet its
\* buffer holds.
At(r, length, seq, p, good) ==
  /\ received_packet_length[r] = length /\ sequence_number_counter[r] = seq
  /\ \A i \in 1 .. good : packet_buffer_rx[r][i - 1] = Byte(p, i)

InFlight(r, s) == rx_frame[r] # None /\ rx_frame[r].from = s
Replying(r, s, f) == stack[r] = <<Reply(f)>> /\ f.from = s
HasAck(s) == ack[s] \/ (rx_frame[s] # None /\ IsAckFor(s, rx_frame[s]))

\* The receiver does not send and the senders do not receive data.
Shape(r) ==
  /\ \/ stack[r] = <<>> \/ stack[r] = <<Callback>>
     \/ \E f \in DataFrames : stack[r] = <<Reply(f)>> /\ f.from # r
  /\ \A s \in Node \ {r} :
       \/ stack[s] = <<>>
       \/ \E a : /\ stack[s] = <<a>> /\ a.kind = "send"
                 /\ a.packet \in setting.outbox[s] /\ a.packet \notin unsent[s]

Slots(r) ==
  \A m \in Node : rx_frame[m] # None =>
    /\ rx_frame[m].from # m
    /\ rx_frame[m].type = "data" => rx_frame[m].to = r
    /\ rx_frame[m].type = "ack" => rx_frame[m].from = r /\ rx_frame[m].to # r

Buffers(r) ==
  \A s \in Node \ {r} : \A a : stack[s] = <<a>> =>
    \A i \in 1 .. a.packet.length : packet_buffer_tx[s][i - 1] = Byte(a.packet, i)

Flight(r) ==
  \A s \in Node \ {r} : \A a : stack[s] = <<a>> /\ InFlight(r, s) =>
    /\ Carries(rx_frame[r], a) /\ ~ Received(r, a.packet)
    /\ stack[r] = <<>> => At(r, Base(a), a.seq, a.packet, Base(a))
    /\ stack[r] # <<>> => a.frame_number = 0 /\ a.seq = 0

Answer(r) ==
  \A s \in Node \ {r} : \A a, f : stack[s] = <<a>> /\ Replying(r, s, f) =>
    /\ Carries(f, a) /\ ~ Received(r, a.packet)
    /\ At(r, Base(a) + Size(a), a.seq, a.packet, Base(a))

\* The packet is the last that was delivered, unless others send too.
JustReceived(r, s, p) ==
  \E i \in DOMAIN delivered[r] :
    delivered[r][i].data = Bytes(p) /\ (Alone(s) => i = Len(delivered[r]))

Acked(r) ==
  \A s \in Node \ {r} : \A a : stack[s] = <<a>> /\ HasAck(s) =>
    /\ IsLast(a) => JustReceived(r, s, a.packet)
    /\ ~ IsLast(a) => /\ stack[r] = <<>> /\ ~ Received(r, a.packet)
                      /\ At(r, Base(a) + FragSize, 1 - a.seq, a.packet, Base(a) + FragSize)

\* No send is between its frames.
Between(r) ==
  \A s \in Node \ {r} : stack[s] = <<>> \/ (HasAck(s) /\ \E a : stack[s] = <<a>> /\ IsLast(a))

Fresh(r) ==
  stack[r] = <<>> /\ (Small \/ Between(r)) =>
    received_packet_length[r] = 0 /\ sequence_number_counter[r] = 0

Whole(r) ==
  \A i \in DOMAIN delivered[r] :
    \E p \in setting.outbox[delivered[r][i].from] :
      p \notin unsent[delivered[r][i].from] /\ delivered[r][i].data = Bytes(p)

Succeeded(r) == \A p \in succeeded : p.to = r /\ Received(r, p)

OneWayInv(r) ==
  /\ Shape(r) /\ Slots(r) /\ Buffers(r) /\ Flight(r) /\ Answer(r) /\ Acked(r) /\ Fresh(r)
  /\ Whole(r) /\ Succeeded(r)

-----------------------------------------------------------------------------
(* Facts about sends and frames.                                           *)

LEMMA SenderTyped ==
  ASSUME Types, NEW r, Shape(r), NEW s \in Node \ {r}, NEW a, stack[s] = <<a>>
  PROVE  /\ a \in Sends /\ a.kind = "send" /\ a.packet \in setting.outbox[s]
         /\ a.packet \notin unsent[s]
         /\ ~ Idle(s) /\ Top(s) = a /\ Running(s, "send") /\ Popped(s) = <<>>
         /\ \A b : Replaced(s, b) = <<b>>
<1>1. a.kind = "send" /\ a.packet \in setting.outbox[s] /\ a.packet \notin unsent[s]
  <2>1. PICK b : /\ stack[s] = <<b>> /\ b.kind = "send"
                 /\ b.packet \in setting.outbox[s] /\ b.packet \notin unsent[s]
    <3>1. stack[s] # <<>>
      OBVIOUS
    <3>. QED  BY <3>1 DEF Shape
  <2>2. b = a
    BY <2>1
  <2>. QED  BY <2>1, <2>2
<1>2. Len(<<a>>) = 1 /\ <<a>>[1] = a /\ <<a>> # <<>> /\ SubSeq(<<a>>, 1, 0) = <<>>
  OBVIOUS
<1>3. ~ Idle(s) /\ Top(s) = a /\ Running(s, "send") /\ Popped(s) = <<>>
  BY <1>1, <1>2 DEF Idle, Top, Running, Popped
<1>4. \A b : Replaced(s, b) = <<b>>
  BY <1>3 DEF Replaced
<1>5. a \in Sends
  BY <1>3, TopTyped
<1>. QED  BY <1>1, <1>3, <1>4, <1>5

LEMMA ReceiverTyped ==
  ASSUME NEW r
  PROVE  /\ stack[r] = <<>> => Idle(r) /\ ~ Running(r, "send") /\ ~ Running(r, "reply")
                               /\ ~ Running(r, "callback") /\ AfterPoll(r) = <<>>
         /\ \A a : stack[r] = <<a>> =>
              /\ ~ Idle(r) /\ Top(r) = a /\ Popped(r) = <<>> /\ (\A b : Replaced(r, b) = <<b>>)
              /\ \A kind : Running(r, kind) <=> a.kind = kind
         /\ Callback.kind = "callback" /\ \A f : Reply(f).kind = "reply" /\ Reply(f).frame = f
<1>1. ASSUME NEW a, stack[r] = <<a>>
      PROVE  /\ ~ Idle(r) /\ Top(r) = a /\ Popped(r) = <<>> /\ (\A b : Replaced(r, b) = <<b>>)
             /\ \A kind : Running(r, kind) <=> a.kind = kind
  <2>1. Len(<<a>>) = 1 /\ <<a>>[1] = a /\ <<a>> # <<>> /\ SubSeq(<<a>>, 1, 0) = <<>>
    OBVIOUS
  <2>2. ~ Idle(r) /\ Top(r) = a /\ Popped(r) = <<>>
    BY <1>1, <2>1 DEF Idle, Top, Popped
  <2>. QED  BY <2>2 DEF Replaced, Running
<1>2. ASSUME stack[r] = <<>>
      PROVE  /\ Idle(r) /\ AfterPoll(r) = <<>> /\ ~ Running(r, "send") /\ ~ Running(r, "reply")
             /\ ~ Running(r, "callback")
  BY <1>2 DEF Idle, AfterPoll, Running
<1>3. Callback.kind = "callback" /\ \A f : Reply(f).kind = "reply" /\ Reply(f).frame = f
  BY DEF Callback, Reply
<1>. QED  BY <1>1, <1>2, <1>3

\* The numbers of a send.
LEMMA SendFacts ==
  ASSUME NEW a \in Sends
  PROVE  /\ Base(a) \in Nat /\ Size(a) \in Nat /\ Size(a) >= 1 /\ Size(a) <= FragSize
         /\ Base(a) + Size(a) <= a.packet.length /\ a.packet.length <= BufSize
         /\ IsLast(a) => Base(a) + Size(a) = a.packet.length
         /\ ~ IsLast(a) => Size(a) = FragSize
         /\ a.seq \in {0, 1} /\ a.packet \in Packets /\ a.packet.length \in Nat
         /\ Small => IsLast(a)
<1>1. /\ Base(a) \in Nat /\ a.left \in Nat /\ a.left > 0 /\ a.seq \in {0, 1}
      /\ a.packet \in Packets /\ Base(a) + a.left = a.packet.length
  BY SendTyped DEF Base
<1>2. a.packet.length <= BufSize
  BY DEF Sends
<1>3. /\ Size(a) \in Nat /\ Size(a) >= 1 /\ Size(a) <= FragSize /\ Size(a) <= a.left
      /\ IsLast(a) => Size(a) = a.left
      /\ ~ IsLast(a) => Size(a) = FragSize
  BY <1>1, ConstantsTyped DEF Size, IsLast
<1>4. Small => IsLast(a)
  <2>. SUFFICES ASSUME Small PROVE a.left <= FragSize
    BY DEF IsLast
  <2>1. a.packet.length <= FragSize
    BY <1>1 DEF Small
  <2>. QED  BY <1>1, <2>1, ConstantsTyped
<1>5. a.packet.length \in Nat
  BY <1>1
<1>. HIDE DEF Base, Size
<1>. QED  BY <1>1, <1>2, <1>3, <1>4, <1>5

\* The same send at another place of its loop.
Same(a, b) == /\ b.kind = a.kind /\ b.packet = a.packet /\ b.left = a.left
              /\ b.frame_number = a.frame_number /\ b.seq = a.seq

LEMMA SameFacts ==
  ASSUME NEW a, NEW b, Same(a, b)
  PROVE  /\ Base(b) = Base(a) /\ Size(b) = Size(a) /\ (IsLast(b) <=> IsLast(a))
         /\ \A f : Carries(f, b) <=> Carries(f, a)
         /\ b.packet = a.packet /\ b.seq = a.seq /\ b.frame_number = a.frame_number
         /\ b.kind = a.kind
<1>1. Base(b) = Base(a) /\ Size(b) = Size(a) /\ (IsLast(b) <=> IsLast(a))
  BY DEF Same, Base, Size, IsLast
<1>. QED  BY <1>1 DEF Same, Carries

LEMMA AtSame ==
  ASSUME NEW a \in Sends, NEW x \in {"poll", "test"}
  PROVE  Same(a, [a EXCEPT !.at = x])
  BY DEF Sends, Same

\* A frame cut from a buffer that holds the packet.
LEMMA FrameCarries ==
  ASSUME NEW n, NEW a \in Sends, NEW buffer \in [0 .. BufSize - 1 -> BytesSent],
         \A i \in 1 .. a.packet.length : buffer[i - 1] = Byte(a.packet, i)
  PROVE  Carries(DataFrame(n, buffer, a), a)
<1>. DEFINE data == [i \in 1 .. Size(a) |-> buffer[Base(a) + i - 1]]
<1>1. DataFrame(n, buffer, a) =
        [type |-> "data", from |-> n, to |-> a.packet.to, seq |-> a.seq,
         last |-> IsLast(a), data |-> data]
  BY DEF DataFrame, Base, Size
<1>2. /\ Base(a) \in Nat /\ Size(a) \in Nat /\ Base(a) + Size(a) <= a.packet.length
      /\ a.packet.length \in Nat
  BY SendFacts
<1>3. ASSUME NEW i \in 1 .. Size(a) PROVE data[i] = Byte(a.packet, Base(a) + i)
  <2>1. Base(a) + i \in 1 .. a.packet.length
    BY <1>2
  <2>2. buffer[(Base(a) + i) - 1] = Byte(a.packet, Base(a) + i)
    BY <2>1
  <2>3. (Base(a) + i) - 1 = Base(a) + i - 1
    BY <1>2
  <2>. QED  BY <2>2, <2>3
<1>4. Len(data) = Size(a)
  BY <1>2
<1>. HIDE DEF data
<1>. QED  BY <1>1, <1>3, <1>4 DEF Carries

\* Two nodes that have packets to send send them in one frame each.
LEMMA BothSend ==
  ASSUME Types, NEW r, Converging(r),
         NEW s \in Node, NEW p \in setting.outbox[s], NEW t \in Node, NEW q \in setting.outbox[t],
         s # t
  PROVE  Small /\ ~ Alone(s) /\ ~ Alone(t)
  BY DEF Converging, Alone

\* Packets of different nodes, and different packets of a node, have different bytes.
LEMMA BytesDiffer ==
  ASSUME Types,
         NEW s \in Node, NEW p \in setting.outbox[s], NEW t \in Node, NEW q \in setting.outbox[t],
         Bytes(p) = Bytes(q)
  PROVE  s = t /\ p = q
<1>1. p.length >= 1 /\ p.length \in Nat /\ q.length >= 1 /\ q.length \in Nat
  BY PacketsTyped DEF Types
<1>2. Bytes(p)[1] = <<p.id, 1>> /\ Bytes(q)[1] = <<q.id, 1>>
  BY <1>1 DEF Bytes, Byte
<1>3. p.id = q.id
  BY <1>2
<1>. QED  BY <1>3, DllAssumption DEF Types

\* Where all traffic goes to r, r sends nothing and no other node is sent data.
LEMMA ReceiverSilent ==
  ASSUME Types, NEW r, Converging(r)
  PROVE  /\ r \in Node /\ setting.outbox[r] = {}
         /\ \A s \in Node : \A p \in setting.outbox[s] : p.to = r /\ p \in Packets /\ s # r
<1>1. r \in Node
  BY DEF Converging
<1>2. ASSUME NEW s \in Node, NEW p \in setting.outbox[s]
      PROVE  p.to = r /\ p \in Packets /\ s # r
  <2>1. p \in Packets /\ p.to \in (Node \ {s}) \cup {Broadcast}
    BY PacketsTyped DEF Types
  <2>. QED  BY <1>1, <2>1, ConstantsTyped DEF Converging
<1>. QED  BY <1>1, <1>2

\* A send waits for one acknowledgement, which is at one place.
LEMMA Clash ==
  ASSUME Types, AckInv, NEW r \in Node, Shape(r), Slots(r), NEW s \in Node \ {r}
  PROVE  /\ InFlight(r, s) => /\ stack[s] # <<>> /\ ~ HasAck(s)
                              /\ \A f : ~ Replying(r, s, f)
         /\ \A f : Replying(r, s, f) => stack[s] # <<>> /\ ~ HasAck(s)
         /\ HasAck(s) => stack[s] # <<>>
         /\ ack[s] => ~ (rx_frame[s] # None /\ IsAckFor(s, rx_frame[s]))
<1>. DEFINE data == <<"data", r>>
            reply == <<"reply", r>>
            back == <<"ack", s>>
            seen == <<"seen", s>>
<1>1. /\ data # reply /\ data # back /\ data # seen /\ reply # back /\ reply # seen
      /\ back # seen
  OBVIOUS
<1>2. InFlight(r, s) => data \in Owed(s)
  <2>. SUFFICES ASSUME InFlight(r, s) PROVE data \in Owed(s)
    OBVIOUS
  <2>1. rx_frame[r] # None /\ rx_frame[r].from = s
    BY DEF InFlight
  <2>2. rx_frame[r].type = "data" /\ rx_frame[r].to = r
    <3>1. rx_frame[r].type \in {"data", "ack"}
      BY <2>1 DEF Types, Frames, DataFrames
    <3>2. rx_frame[r].type # "ack"
      BY <2>1 DEF Slots
    <3>3. rx_frame[r].type = "data" => rx_frame[r].to = r
      BY <2>1 DEF Slots
    <3>. QED  BY <3>1, <3>2, <3>3
  <2>. QED  BY <2>1, <2>2, OwedMember DEF Owes
<1>3. \A f : Replying(r, s, f) => reply \in Owed(s)
  <2>. SUFFICES ASSUME NEW f, Replying(r, s, f) PROVE reply \in Owed(s)
    OBVIOUS
  <2>1. Running(r, "reply") /\ Top(r).frame.from = s
    BY ReceiverTyped DEF Replying
  <2>. QED  BY <2>1, OwedMember DEF Owes
<1>4. rx_frame[s] # None /\ IsAckFor(s, rx_frame[s]) => back \in Owed(s)
  BY OwedMember DEF Owes
<1>5. ack[s] => seen \in Owed(s)
  BY OwedMember DEF Owes
<1>. HIDE DEF data, reply, back, seen
<1>6. ASSUME NEW x \in Owed(s), NEW y \in Owed(s) PROVE x = y /\ stack[s] # <<>>
  <2>1. /\ IsFiniteSet(Owed(s)) /\ IsFiniteSet(SendsOf(s))
        /\ Cardinality(Owed(s)) <= Cardinality(SendsOf(s))
    BY DEF AckInv, AcksOwed, NoLarger
  <2>2. SendsOf(s) \subseteq {1} /\ (stack[s] = <<>> => SendsOf(s) = {})
    BY DEF Shape, SendsOf
  <2>3. IsFiniteSet({1}) /\ Cardinality({1}) = 1 /\ Cardinality({}) = 0
    BY FS_Singleton, FS_EmptySet
  <2>4. Cardinality(SendsOf(s)) <= 1
    BY <2>2, <2>3, FS_Subset
  <2>5. Cardinality(Owed(s)) \in Nat /\ Cardinality(SendsOf(s)) \in Nat
    BY <2>1, FS_CardinalityType
  <2>6. {x, y} \subseteq Owed(s)
    OBVIOUS
  <2>7. IsFiniteSet({x, y}) /\ Cardinality({x, y}) <= Cardinality(Owed(s))
    BY <2>1, <2>6, FS_Subset
  <2>8. Cardinality({x, y}) \in Nat
    BY <2>7, FS_CardinalityType
  <2>9. stack[s] # <<>>
    <3>1. ASSUME stack[s] = <<>> PROVE FALSE
      <4>1. Cardinality(Owed(s)) = 0
        <5>1. SendsOf(s) = {}
          BY <2>2, <3>1
        <5>2. Cardinality(SendsOf(s)) = 0
          BY <2>3, <5>1
        <5>. QED  BY <2>1, <2>5, <5>2
      <4>2. Owed(s) = {}
        BY <2>1, <4>1, FS_EmptySet
      <4>. QED  BY <4>2
    <3>. QED  BY <3>1
  <2>10. x = y
    <3>1. ASSUME x # y PROVE FALSE
      <4>1. IsFiniteSet({y}) /\ Cardinality({y}) = 1
        BY FS_Singleton
      <4>2. {x, y} = {y} \cup {x} /\ x \notin {y}
        BY <3>1
      <4>3. Cardinality({x, y}) = 2
        BY <4>1, <4>2, FS_AddElement
      <4>. QED  BY <2>1, <2>4, <2>5, <2>7, <4>3
    <3>. QED  BY <3>1
  <2>. QED  BY <2>9, <2>10
<1>7. HasAck(s) => back \in Owed(s) \/ seen \in Owed(s)
  BY <1>4, <1>5 DEF HasAck
<1>8. HasAck(s) => stack[s] # <<>>
  BY <1>6, <1>7
<1>9. InFlight(r, s) => stack[s] # <<>> /\ ~ HasAck(s) /\ \A f : ~ Replying(r, s, f)
  BY <1>1, <1>2, <1>3, <1>6, <1>7
<1>10. \A f : Replying(r, s, f) => stack[s] # <<>> /\ ~ HasAck(s)
  BY <1>1, <1>3, <1>6, <1>7
<1>11. ack[s] => ~ (rx_frame[s] # None /\ IsAckFor(s, rx_frame[s]))
  BY <1>1, <1>4, <1>5, <1>6
<1>. QED  BY <1>8, <1>9, <1>10, <1>11

-----------------------------------------------------------------------------
(* The steps of the senders.  None changes what the receiver knows.        *)

ReceiverSame(r) ==
  /\ stack'[r] = stack[r] /\ delivered'[r] = delivered[r]
  /\ received_packet_length'[r] = received_packet_length[r]
  /\ sequence_number_counter'[r] = sequence_number_counter[r]
  /\ packet_buffer_rx'[r] = packet_buffer_rx[r]

LEMMA ReceiverKept ==
  ASSUME NEW r, ReceiverSame(r), setting' = setting
  PROVE  /\ \A l, q, p, good : At(r, l, q, p, good)' <=> At(r, l, q, p, good)
         /\ \A p : Received(r, p)' <=> Received(r, p)
         /\ \A s, p : JustReceived(r, s, p)' <=> JustReceived(r, s, p)
         /\ \A s, f : Replying(r, s, f)' <=> Replying(r, s, f)
         /\ Small' <=> Small
  BY DEF ReceiverSame, At, Received, JustReceived, Replying, Alone, Small, Packets

\* What is delivered stays whole when others take packets from their outboxes.
LEMMA WholeKept ==
  ASSUME NEW r, delivered'[r] = delivered[r], setting' = setting, Whole(r),
         \A s : unsent'[s] \subseteq unsent[s]
  PROVE  Whole(r)'
  BY DEF Whole

\* A step that sends nothing to r: a send goes on waiting or ends.
LEMMA Quiet ==
  ASSUME Types, AckInv, NEW r, Converging(r), OneWayInv(r), setting' = setting, ReceiverSame(r),
         \A s \in Node \ {r} : \A b : stack'[s] = <<b>> =>
           \E a : stack[s] = <<a>> /\ Same(a, b),
         \A s \in Node \ {r} :
           \/ stack'[s] = <<>> /\ stack[s] = <<>>
           \/ stack'[s] = <<>> /\ ack[s] /\ \E a : stack[s] = <<a>> /\ IsLast(a)
           \/ \E b : stack'[s] = <<b>>,
         \A m \in Node : rx_frame'[m] = rx_frame[m] \/ rx_frame'[m] = None,
         rx_frame'[r] = rx_frame[r],
         \A s \in Node \ {r} : HasAck(s)' => HasAck(s),
         packet_buffer_tx' = packet_buffer_tx,
         \A s : unsent'[s] \subseteq unsent[s],
         \A p \in succeeded' : p \in succeeded \/ (p.to = r /\ Received(r, p))
  PROVE  OneWayInv(r)'
<1>0. /\ Shape(r) /\ Slots(r) /\ Buffers(r) /\ Flight(r) /\ Answer(r) /\ Acked(r) /\ Fresh(r)
      /\ Whole(r) /\ Succeeded(r)
  BY DEF OneWayInv
<1>. USE ReceiverKept
<1>1. DataFrames' = DataFrames
  <2>1. Packets' = Packets
    BY DEF Packets
  <2>2. BytesSent' = BytesSent
    BY <2>1 DEF BytesSent
  <2>. QED  BY <2>2 DEF DataFrames
<1>2. stack'[r] = stack[r] /\ rx_frame'[r] = rx_frame[r]
  BY DEF ReceiverSame
<1>3. Shape(r)'
  <2>1. ASSUME NEW s \in Node \ {r}, NEW b, stack'[s] = <<b>>
        PROVE  b.kind = "send" /\ b.packet \in setting.outbox[s] /\ b.packet \notin unsent'[s]
    <3>1. PICK a : stack[s] = <<a>> /\ Same(a, b)
      BY <2>1
    <3>. QED  BY <1>0, <3>1, SenderTyped, SameFacts
  <2>. QED  BY <1>0, <1>1, <1>2, <2>1 DEF Shape
<1>4. Slots(r)'
  BY <1>0 DEF Slots
<1>5. Buffers(r)'
  BY <1>0, SameFacts DEF Buffers
<1>6. Flight(r)'
  <2>. SUFFICES ASSUME NEW s \in Node \ {r}, NEW b, stack'[s] = <<b>>, InFlight(r, s)'
                PROVE  /\ Carries(rx_frame'[r], b) /\ ~ Received(r, b.packet)
                       /\ stack[r] = <<>> => At(r, Base(b), b.seq, b.packet, Base(b))
                       /\ stack[r] # <<>> => b.frame_number = 0 /\ b.seq = 0
    BY <1>2 DEF Flight
  <2>1. PICK a : stack[s] = <<a>> /\ Same(a, b)
    OBVIOUS
  <2>2. InFlight(r, s)
    BY <1>2 DEF InFlight
  <2>. QED  BY <1>0, <1>2, <2>1, <2>2, SameFacts DEF Flight
<1>7. Answer(r)'
  <2>. SUFFICES ASSUME NEW s \in Node \ {r}, NEW b, NEW f, stack'[s] = <<b>>, Replying(r, s, f)'
                PROVE  /\ Carries(f, b) /\ ~ Received(r, b.packet)
                       /\ At(r, Base(b) + Size(b), b.seq, b.packet, Base(b))
    BY DEF Answer
  <2>1. PICK a : stack[s] = <<a>> /\ Same(a, b)
    OBVIOUS
  <2>. QED  BY <1>0, <2>1, SameFacts DEF Answer
<1>8. Acked(r)'
  <2>. SUFFICES ASSUME NEW s \in Node \ {r}, NEW b, stack'[s] = <<b>>, HasAck(s)'
                PROVE  /\ IsLast(b) => JustReceived(r, s, b.packet)
                       /\ ~ IsLast(b) =>
                            /\ stack[r] = <<>> /\ ~ Received(r, b.packet)
                            /\ At(r, Base(b) + FragSize, 1 - b.seq, b.packet, Base(b) + FragSize)
    BY <1>2 DEF Acked
  <2>1. PICK a : stack[s] = <<a>> /\ Same(a, b)
    OBVIOUS
  <2>. QED  BY <1>0, <2>1, SameFacts DEF Acked
<1>9. Fresh(r)'
  <2>1. Between(r)' => Between(r)
    <3>. SUFFICES ASSUME Between(r)', NEW s \in Node \ {r}
                  PROVE  stack[s] = <<>> \/ (HasAck(s) /\ \E a : stack[s] = <<a>> /\ IsLast(a))
      BY DEF Between
    <3>1. CASE stack'[s] = <<>>
      <4>1. \A b : <<b>> # <<>>
        OBVIOUS
      <4>. QED  BY <3>1, <4>1 DEF HasAck
    <3>2. CASE stack'[s] # <<>>
      <4>1. HasAck(s)' /\ \E b : stack'[s] = <<b>> /\ IsLast(b)
        BY <3>2 DEF Between
      <4>2. PICK b : stack'[s] = <<b>> /\ IsLast(b)
        BY <4>1
      <4>3. PICK a : stack[s] = <<a>> /\ Same(a, b)
        BY <4>2
      <4>. QED  BY <4>1, <4>2, <4>3, SameFacts
    <3>. QED  BY <3>1, <3>2
  <2>. QED  BY <1>0, <1>2, <2>1 DEF Fresh, ReceiverSame
<1>10. Whole(r)'
  BY <1>0, WholeKept DEF ReceiverSame
<1>11. Succeeded(r)'
  BY <1>0 DEF Succeeded
<1>. QED  BY <1>3, <1>4, <1>5, <1>6, <1>7, <1>8, <1>9, <1>10, <1>11 DEF OneWayInv

\* A step of s that transmits the frame of b.
LEMMA Transmission ==
  ASSUME Types, AckInv, NEW r, Converging(r), OneWayInv(r), setting' = setting, ReceiverSame(r),
         NEW s \in Node \ {r}, NEW b,
         b.kind = "send" /\ b.packet \in setting.outbox[s] /\ b.packet \notin unsent'[s],
         stack'[s] = <<b>>, \A t \in Node \ {s} : stack'[t] = stack[t] /\ ack'[t] = ack[t],
         \A m \in Node : \/ rx_frame'[m] = rx_frame[m]
                         \/ /\ m # s /\ rx_frame'[m].type = "data" /\ rx_frame'[m].from = s
                            /\ rx_frame'[m].to = r,
         rx_frame'[r] = rx_frame[r] \/ Carries(rx_frame'[r], b),
         ~ InFlight(r, s), \A f : ~ Replying(r, s, f), ~ HasAck(s)',
         ~ Received(r, b.packet),
         stack[r] = <<>> => At(r, Base(b), b.seq, b.packet, Base(b)),
         stack[r] # <<>> => b.frame_number = 0 /\ b.seq = 0,
         \A i \in 1 .. b.packet.length : packet_buffer_tx'[s][i - 1] = Byte(b.packet, i),
         \A t \in Node \ {s} : packet_buffer_tx'[t] = packet_buffer_tx[t],
         \A t : unsent'[t] \subseteq unsent[t], succeeded' = succeeded
  PROVE  OneWayInv(r)'
<1>0. /\ Shape(r) /\ Slots(r) /\ Buffers(r) /\ Flight(r) /\ Answer(r) /\ Acked(r) /\ Fresh(r)
      /\ Whole(r) /\ Succeeded(r)
  BY DEF OneWayInv
<1>1. DataFrames' = DataFrames
  <2>1. Packets' = Packets
    BY DEF Packets
  <2>2. BytesSent' = BytesSent
    BY <2>1 DEF BytesSent
  <2>. QED  BY <2>2 DEF DataFrames
<1>2. stack'[r] = stack[r] /\ r \in Node /\ s # r
  BY ReceiverSilent DEF ReceiverSame
<1>3. \A t \in Node \ {r, s} : HasAck(t)' => HasAck(t)
  BY DEF HasAck, IsAckFor
<1>4. Shape(r)'
  <2>1. ASSUME NEW t \in Node \ {r}
        PROVE  \/ stack'[t] = <<>>
               \/ \E a : /\ stack'[t] = <<a>> /\ a.kind = "send"
                         /\ a.packet \in setting.outbox[t] /\ a.packet \notin unsent'[t]
    <3>1. CASE t = s
      BY <3>1
    <3>2. CASE t # s
      BY <1>0, <3>2 DEF Shape
    <3>. QED  BY <3>1, <3>2
  <2>. QED  BY <1>0, <1>1, <1>2, <2>1 DEF Shape
<1>5. Slots(r)'
  BY <1>0, <1>2 DEF Slots
<1>6. Buffers(r)'
  <2>. SUFFICES ASSUME NEW t \in Node \ {r}, NEW a, stack'[t] = <<a>>, NEW i \in 1 .. a.packet.length
                PROVE  packet_buffer_tx'[t][i - 1] = Byte(a.packet, i)
    BY DEF Buffers
  <2>1. CASE t = s
    <3>1. a = b
      BY <2>1
    <3>. QED  BY <2>1, <3>1
  <2>2. CASE t # s
    BY <1>0, <2>2 DEF Buffers
  <2>. QED  BY <2>1, <2>2
<1>7. Flight(r)'
  <2>. SUFFICES ASSUME NEW t \in Node \ {r}, NEW a, stack'[t] = <<a>>, InFlight(r, t)'
                PROVE  /\ Carries(rx_frame'[r], a) /\ ~ Received(r, a.packet)
                       /\ stack[r] = <<>> => At(r, Base(a), a.seq, a.packet, Base(a))
                       /\ stack[r] # <<>> => a.frame_number = 0 /\ a.seq = 0
    BY <1>2, ReceiverKept DEF Flight
  <2>1. CASE t = s
    <3>1. a = b
      BY <2>1
    <3>2. rx_frame'[r] # rx_frame[r]
      BY <2>1 DEF InFlight
    <3>. QED  BY <3>1, <3>2
  <2>2. CASE t # s
    <3>1. rx_frame'[r] = rx_frame[r] /\ InFlight(r, t)
      BY <1>2, <2>2 DEF InFlight
    <3>2. stack[t] = <<a>>
      BY <2>2
    <3>. QED  BY <1>0, <3>1, <3>2 DEF Flight
  <2>. QED  BY <2>1, <2>2
<1>8. Answer(r)'
  <2>. SUFFICES ASSUME NEW t \in Node \ {r}, NEW a, NEW f, stack'[t] = <<a>>, Replying(r, t, f)'
                PROVE  /\ Carries(f, a) /\ ~ Received(r, a.packet)
                       /\ At(r, Base(a) + Size(a), a.seq, a.packet, Base(a))
    BY ReceiverKept DEF Answer
  <2>1. Replying(r, t, f)
    BY ReceiverKept
  <2>2. t # s
    BY <2>1
  <2>. QED  BY <1>0, <2>1, <2>2 DEF Answer
<1>9. Acked(r)'
  <2>. SUFFICES ASSUME NEW t \in Node \ {r}, NEW a, stack'[t] = <<a>>, HasAck(t)'
                PROVE  /\ IsLast(a) => JustReceived(r, t, a.packet)
                       /\ ~ IsLast(a) =>
                            /\ stack[r] = <<>> /\ ~ Received(r, a.packet)
                            /\ At(r, Base(a) + FragSize, 1 - a.seq, a.packet, Base(a) + FragSize)
    BY <1>2, ReceiverKept DEF Acked
  <2>1. t # s
    OBVIOUS
  <2>2. HasAck(t) /\ stack[t] = <<a>>
    BY <1>3, <2>1
  <2>. QED  BY <1>0, <2>2 DEF Acked
<1>10. Fresh(r)'
  <2>1. ~ Between(r)'
    BY DEF Between
  <2>2. Small' <=> Small
    BY ReceiverKept
  <2>. QED  BY <1>0, <1>2, <2>1, <2>2 DEF Fresh, ReceiverSame
<1>11. Whole(r)'
  BY <1>0, WholeKept DEF ReceiverSame
<1>12. Succeeded(r)'
  BY <1>0, ReceiverKept DEF Succeeded
<1>. QED
  BY <1>4, <1>5, <1>6, <1>7, <1>8, <1>9, <1>10, <1>11, <1>12 DEF OneWayInv

LEMMA DeliveredTyped ==
  ASSUME Types, NEW r \in Node
  PROVE  /\ Len(delivered[r]) \in Nat /\ DOMAIN delivered[r] = 1 .. Len(delivered[r])
         /\ \A i \in DOMAIN delivered[r] : delivered[r][i].from \in Node
<1>. DEFINE Given_to == [from : Node, data : Seq(BytesSent)]
<1>1. delivered \in [Node -> Seq(Given_to)]
  BY DEF Types
<1>2. \A x \in Given_to : x.from \in Node
  OBVIOUS
<1>. HIDE DEF Given_to
<1>3. delivered[r] \in Seq(Given_to)
  BY <1>1
<1>. QED  BY <1>2, <1>3

LEMMA OneWaySend ==
  ASSUME Types, AckInv, [Next]_vars, NEW r, Converging(r), OneWayInv(r),
         NEW s \in Node, NEW p \in setting.outbox[s], dll_send_packet(s, p)
  PROVE  OneWayInv(r)'
<1>. DEFINE b == NewSend(p)
            buffer == NewBuffer(s, p)
<1>0. /\ Shape(r) /\ Slots(r) /\ Fresh(r) /\ Whole(r)
  BY DEF OneWayInv
<1>1. /\ Idle(s) \/ Running(s, "callback")
      /\ stack' = [stack EXCEPT ![s] = Append(stack[s], b)] /\ ~ TooBig(p)
      /\ TransmitData(s, buffer, rx_frame, b)
      /\ p \in unsent[s] /\ unsent' = [unsent EXCEPT ![s] = @ \ {p}]
      /\ packet_buffer_tx' = [packet_buffer_tx EXCEPT ![s] = buffer]
      /\ UNCHANGED <<setting, ack, buffers, history>>
  BY DEF dll_send_packet, NewSend, NewBuffer
<1>2. /\ s \in Node \ {r} /\ r \in Node /\ p.to = r /\ p \in Packets
  BY ReceiverSilent
<1>3. /\ b \in Sends /\ b.kind = "send" /\ b.packet = p /\ b.seq = 0 /\ b.frame_number = 0
      /\ buffer \in [0 .. BufSize - 1 -> BytesSent]
  BY <1>1, NewSendTyped DEF NewSend
<1>4. Base(b) = 0
  BY <1>3, ConstantsTyped DEF Base
<1>5. \A i \in 1 .. p.length : buffer[i - 1] = Byte(p, i)
  <2>1. p.length \in Nat /\ p.length <= BufSize
    BY <1>3, SendFacts
  <2>2. ASSUME NEW i \in 1 .. p.length PROVE buffer[i - 1] = Byte(p, i)
    <3>1. i - 1 \in 0 .. BufSize - 1 /\ i - 1 < p.length /\ (i - 1) + 1 = i
      BY <2>1, ConstantsTyped
    <3>. QED  BY <3>1 DEF NewBuffer
  <2>. QED  BY <2>2
<1>. HIDE DEF b, buffer
<1>6. stack[s] = <<>>
  <2>1. \A a : stack[s] = <<a>> => ~ Idle(s) /\ ~ Running(s, "callback")
    BY <1>0, <1>2, SenderTyped DEF Running
  <2>. QED  BY <1>0, <1>1, <1>2, <2>1 DEF Shape
<1>7. stack'[s] = <<b>> /\ \A t \in Node \ {s} : stack'[t] = stack[t] /\ ack'[t] = ack[t]
  <2>1. Append(<<>>, b) = <<b>>
    OBVIOUS
  <2>. QED  BY <1>1, <1>2, <1>6, <2>1 DEF Types
<1>8. ReceiverSame(r)
  BY <1>1, <1>2, <1>7 DEF ReceiverSame, buffers, history
<1>9. /\ ~ InFlight(r, s) /\ ~ HasAck(s)
      /\ \A f : ~ Replying(r, s, f)
  BY <1>0, <1>2, <1>6, Clash
<1>10. \A m \in Node : \/ rx_frame'[m] = rx_frame[m]
                       \/ /\ m # s /\ rx_frame'[m].type = "data" /\ rx_frame'[m].from = s
                          /\ rx_frame'[m].to = r
  BY <1>1, <1>2, <1>3, TransmitsData
<1>11. rx_frame'[r] = rx_frame[r] \/ Carries(rx_frame'[r], b)
  <2>1. rx_frame'[r] = rx_frame[r] \/ rx_frame'[r] = DataFrame(s, buffer, b)
    BY <1>1, <1>2, <1>3, TransmitsData
  <2>2. Carries(DataFrame(s, buffer, b), b)
    BY <1>3, <1>5, FrameCarries
  <2>. QED  BY <2>1, <2>2
<1>12. ~ HasAck(s)'
  BY <1>1, <1>2, <1>9, <1>10 DEF HasAck, IsAckFor
<1>13. ~ Received(r, b.packet)
  <2>1. ASSUME NEW i \in DOMAIN delivered[r], delivered[r][i].data = Bytes(p) PROVE FALSE
    <3>1. PICK q \in setting.outbox[delivered[r][i].from] :
            q \notin unsent[delivered[r][i].from] /\ delivered[r][i].data = Bytes(q)
      BY <1>0 DEF Whole
    <3>2. delivered[r][i].from \in Node
      BY <1>2, <2>1, DeliveredTyped
    <3>3. delivered[r][i].from = s /\ q = p
      BY <2>1, <3>1, <3>2, BytesDiffer
    <3>. QED  BY <1>1, <3>1, <3>3
  <2>. QED  BY <1>3, <2>1 DEF Received
<1>14. stack[r] = <<>> => At(r, Base(b), b.seq, b.packet, Base(b))
  <2>. SUFFICES ASSUME stack[r] = <<>>
                PROVE  At(r, Base(b), b.seq, b.packet, Base(b))
    OBVIOUS
  <2>1. CASE Small
    BY <1>0, <1>3, <1>4, <2>1 DEF Fresh, At
  <2>2. CASE ~ Small
    <3>1. ASSUME NEW t \in Node \ {r} PROVE stack[t] = <<>>
      <4>1. CASE t = s
        BY <1>6, <4>1
      <4>2. CASE t # s
        <5>1. \A q \in setting.outbox[t] : FALSE
          BY <2>2, <4>2, BothSend
        <5>. QED  BY <1>0, <5>1 DEF Shape
      <4>. QED  BY <4>1, <4>2
    <3>. QED  BY <1>0, <1>3, <1>4, <3>1 DEF Fresh, Between, At
  <2>. QED  BY <2>1, <2>2
<1>15. /\ \A i \in 1 .. b.packet.length : packet_buffer_tx'[s][i - 1] = Byte(b.packet, i)
       /\ \A t \in Node \ {s} : packet_buffer_tx'[t] = packet_buffer_tx[t]
  <2>1. packet_buffer_tx'[s] = buffer
    BY <1>1, <1>2 DEF Types
  <2>2. \A t \in Node \ {s} : packet_buffer_tx'[t] = packet_buffer_tx[t]
    BY <1>1 DEF Types
  <2>. QED  BY <1>3, <1>5, <2>1, <2>2
<1>16. \A t : unsent'[t] \subseteq unsent[t]
  BY <1>1 DEF Types
<1>17. b.kind = "send" /\ b.packet \in setting.outbox[s] /\ b.packet \notin unsent'[s]
  BY <1>1, <1>2, <1>3 DEF Types
<1>18. setting' = setting /\ succeeded' = succeeded
  BY <1>1 DEF history
<1>19. stack[r] # <<>> => b.frame_number = 0 /\ b.seq = 0
  BY <1>3
<1>. QED
  BY <1>2, <1>7, <1>8, <1>9, <1>10, <1>11, <1>12, <1>13, <1>14, <1>15, <1>16, <1>17, <1>18, <1>19,
     Transmission

LEMMA OneWayProceed ==
  ASSUME Types, AckInv, [Next]_vars, NEW r, Converging(r), OneWayInv(r), NEW s \in Node, Proceed(s)
  PROVE  OneWayInv(r)'
<1>0. Shape(r) /\ Slots(r) /\ Acked(r) /\ Buffers(r)
  BY DEF OneWayInv
<1>1. /\ Running(s, "send") /\ ack[s] /\ ack' = [ack EXCEPT ![s] = FALSE]
      /\ \/ /\ IsLast(Top(s)) /\ rx_frame' = rx_frame
            /\ stack' = [stack EXCEPT ![s] = Popped(s)]
            /\ succeeded' = succeeded \cup {Top(s).packet}
         \/ /\ ~ IsLast(Top(s))
            /\ stack' = [stack EXCEPT ![s] = Replaced(s, NextFrame(Top(s)))]
            /\ TransmitData(s, packet_buffer_tx[s], rx_frame, NextFrame(Top(s)))
            /\ succeeded' = succeeded
      /\ UNCHANGED <<setting, buffers, packet_buffer_tx, unsent, delivered>>
  BY DEF Proceed, AckCleared
<1>2. r \in Node /\ s \in Node \ {r}
  <2>1. \A a : stack[r] = <<a>> => (Running(r, "send") <=> a.kind = "send")
    BY ReceiverTyped
  <2>2. ~ Running(r, "send")
    BY <1>0, <2>1, ReceiverTyped DEF Shape
  <2>. QED  BY <1>1, <2>2, ReceiverSilent
<1>3. PICK a : stack[s] = <<a>>
  BY <1>0, <1>1, <1>2 DEF Shape, Running, Idle
<1>4. /\ a \in Sends /\ Top(s) = a /\ Popped(s) = <<>> /\ (\A b : Replaced(s, b) = <<b>>)
      /\ a.packet \in setting.outbox[s] /\ a.packet \notin unsent[s] /\ a.kind = "send"
  BY <1>0, <1>2, <1>3, SenderTyped
<1>5. /\ HasAck(s) /\ ~ InFlight(r, s) /\ (\A f : ~ Replying(r, s, f))
      /\ ~ (rx_frame[s] # None /\ IsAckFor(s, rx_frame[s]))
  BY <1>0, <1>1, <1>2, Clash DEF HasAck
<1>6. ~ ack'[s] /\ \A t \in Node \ {s} : ack'[t] = ack[t]
  BY <1>1 DEF Types
<1>7. /\ setting' = setting /\ packet_buffer_tx' = packet_buffer_tx
      /\ \A t : unsent'[t] \subseteq unsent[t]
  BY <1>1
<1>8. CASE IsLast(a)
  <2>1. /\ stack'[s] = <<>> /\ (\A t \in Node \ {s} : stack'[t] = stack[t])
        /\ rx_frame' = rx_frame /\ succeeded' = succeeded \cup {a.packet}
    BY <1>1, <1>4, <1>8 DEF Types
  <2>2. ReceiverSame(r)
    BY <1>1, <1>2, <2>1 DEF ReceiverSame, buffers
  <2>3. \A t \in Node \ {r} : \A b : stack'[t] = <<b>> => \E c : stack[t] = <<c>> /\ Same(c, b)
    <3>1. \A b : <<>> # <<b>> /\ Same(b, b)
      BY DEF Same
    <3>. QED  BY <2>1, <3>1
  <2>4. \A t \in Node \ {r} :
          \/ stack'[t] = <<>> /\ stack[t] = <<>>
          \/ stack'[t] = <<>> /\ ack[t] /\ \E c : stack[t] = <<c>> /\ IsLast(c)
          \/ \E b : stack'[t] = <<b>>
    BY <1>0, <1>1, <1>3, <1>8, <2>1 DEF Shape
  <2>5. \A t \in Node \ {r} : HasAck(t)' => HasAck(t)
    BY <1>5, <1>6, <2>1 DEF HasAck, IsAckFor
  <2>6. \A p \in succeeded' : p \in succeeded \/ (p.to = r /\ Received(r, p))
    <3>1. JustReceived(r, s, a.packet)
      BY <1>0, <1>2, <1>3, <1>5, <1>8 DEF Acked
    <3>2. a.packet.to = r
      BY <1>4, ReceiverSilent
    <3>. QED  BY <2>1, <3>1, <3>2 DEF JustReceived, Received
  <2>7. /\ \A m \in Node : rx_frame'[m] = rx_frame[m] \/ rx_frame'[m] = None
        /\ rx_frame'[r] = rx_frame[r]
    BY <2>1
  <2>. QED  BY <1>7, <2>2, <2>3, <2>4, <2>5, <2>6, <2>7, Quiet
<1>9. CASE ~ IsLast(a)
  <2>. DEFINE b == NextFrame(a)
  <2>1. /\ b \in Sends /\ b.packet = a.packet /\ b.kind = "send" /\ b.seq = 1 - a.seq
        /\ b.frame_number = a.frame_number + 1
    BY <1>4, <1>9, NextFrameTyped
  <2>2. /\ stack' = [stack EXCEPT ![s] = <<b>>] /\ succeeded' = succeeded
        /\ TransmitData(s, packet_buffer_tx[s], rx_frame, b)
    BY <1>1, <1>4, <1>9
  <2>. HIDE DEF b
  <2>3. Base(b) = Base(a) + FragSize
    <3>1. \A k, f \in Nat : (k + 1) * f = k * f + f
      OBVIOUS
    <3>2. a.frame_number \in Nat
      BY <1>4, SendTyped
    <3>. QED  BY <2>1, <3>1, <3>2, ConstantsTyped DEF Base
  <2>4. stack'[s] = <<b>> /\ \A t \in Node \ {s} : stack'[t] = stack[t] /\ ack'[t] = ack[t]
    BY <1>6, <2>2 DEF Types
  <2>5. ReceiverSame(r)
    BY <1>1, <1>2, <2>4 DEF ReceiverSame, buffers
  <2>6. /\ stack[r] = <<>> /\ ~ Received(r, b.packet)
        /\ At(r, Base(b), b.seq, b.packet, Base(b))
    BY <1>0, <1>2, <1>3, <1>5, <1>9, <2>1, <2>3 DEF Acked
  <2>7. b.packet.to = r
    BY <1>4, <2>1, ReceiverSilent
  <2>8. \A m \in Node : \/ rx_frame'[m] = rx_frame[m]
                        \/ /\ m # s /\ rx_frame'[m].type = "data" /\ rx_frame'[m].from = s
                           /\ rx_frame'[m].to = r
    BY <2>1, <2>2, <2>7, TransmitsData
  <2>9. rx_frame'[r] = rx_frame[r] \/ Carries(rx_frame'[r], b)
    <3>1. rx_frame'[r] = rx_frame[r] \/ rx_frame'[r] = DataFrame(s, packet_buffer_tx[s], b)
      BY <1>2, <2>1, <2>2, TransmitsData
    <3>2. packet_buffer_tx[s] \in [0 .. BufSize - 1 -> BytesSent]
      BY DEF Types
    <3>3. \A i \in 1 .. b.packet.length : packet_buffer_tx[s][i - 1] = Byte(b.packet, i)
      BY <1>0, <1>2, <1>3, <2>1 DEF Buffers
    <3>4. Carries(DataFrame(s, packet_buffer_tx[s], b), b)
      BY <2>1, <3>2, <3>3, FrameCarries
    <3>. QED  BY <3>1, <3>4
  <2>10. ~ HasAck(s)'
    BY <1>5, <1>6, <2>8 DEF HasAck, IsAckFor
  <2>11. /\ \A i \in 1 .. b.packet.length : packet_buffer_tx'[s][i - 1] = Byte(b.packet, i)
         /\ \A t \in Node \ {s} : packet_buffer_tx'[t] = packet_buffer_tx[t]
    BY <1>0, <1>2, <1>3, <1>7, <2>1 DEF Buffers
  <2>12. b.kind = "send" /\ b.packet \in setting.outbox[s] /\ b.packet \notin unsent'[s]
    BY <1>1, <1>4, <2>1
  <2>. QED
    BY <1>2, <1>5, <1>7, <2>2, <2>4, <2>5, <2>6, <2>8, <2>9, <2>10, <2>11, <2>12, Transmission
<1>. QED  BY <1>8, <1>9

\* A send that goes on waiting stays the same send.
LEMMA WaitStack ==
  ASSUME Types, NEW r, Shape(r), NEW s \in Node \ {r},
         WaitOn(s) \/ ReceiveOther(s) \/ ReceiveAck(s)
  PROVE  /\ \A t \in Node \ {s} : stack'[t] = stack[t]
         /\ \/ stack[s] = <<>> /\ stack'[s] = <<>>
            \/ \E a, b : stack[s] = <<a>> /\ stack'[s] = <<b>> /\ Same(a, b)
<1>1. CASE stack[s] = <<>>
  <2>1. stack' = [stack EXCEPT ![s] = <<>>]
    BY <1>1, ReceiverTyped DEF WaitOn, ReceiveOther, ReceiveAck
  <2>. QED  BY <1>1, <2>1 DEF Types
<1>2. CASE stack[s] # <<>>
  <2>1. PICK a : stack[s] = <<a>>
    BY <1>2 DEF Shape
  <2>2. a \in Sends /\ Top(s) = a /\ ~ Idle(s) /\ \A b : Replaced(s, b) = <<b>>
    BY <2>1, SenderTyped
  <2>3. PICK x \in {"poll", "test"} : stack' = [stack EXCEPT ![s] = <<[a EXCEPT !.at = x]>>]
    BY <2>2 DEF WaitOn, ReceiveOther, ReceiveAck, AfterPoll
  <2>4. stack'[s] = <<[a EXCEPT !.at = x]>> /\ \A t \in Node \ {s} : stack'[t] = stack[t]
    BY <2>3 DEF Types
  <2>. QED  BY <2>1, <2>2, <2>4, AtSame
<1>. QED  BY <1>1, <1>2

LEMMA OneWayWait ==
  ASSUME Types, AckInv, [Next]_vars, NEW r, Converging(r), OneWayInv(r), NEW s \in Node,
         WaitOn(s) \/ ReceiveOther(s) \/ ReceiveAck(s)
  PROVE  OneWayInv(r)'
<1>0. Shape(r) /\ Slots(r)
  BY DEF OneWayInv
<1>1. r \in Node /\ s \in Node \ {r}
  <2>1. r \in Node
    BY ReceiverSilent
  <2>2. ~ Running(r, "send")
    <3>1. \A a : stack[r] = <<a>> => (Running(r, "send") <=> a.kind = "send")
      BY ReceiverTyped
    <3>. QED  BY <1>0, <3>1, ReceiverTyped DEF Shape
  <2>3. rx_frame[r] # None => rx_frame[r].type = "data" /\ rx_frame[r].to = r
    <3>1. rx_frame[r] # None => rx_frame[r].type \in {"data", "ack"}
      BY <2>1 DEF Types, Frames, DataFrames
    <3>. QED  BY <1>0, <2>1, <3>1 DEF Slots
  <2>4. s # r
    BY <2>2, <2>3 DEF WaitOn, ReceiveOther, ReceiveAck, IsAckFor
  <2>. QED  BY <2>1, <2>4
<1>2. /\ setting' = setting /\ packet_buffer_tx' = packet_buffer_tx
      /\ UNCHANGED <<sequence_number_counter, packet_buffer_rx, delivered, succeeded, unsent>>
      /\ \A t \in Node \ {s} : received_packet_length'[t] = received_packet_length[t]
  BY DEF WaitOn, ReceiveOther, ReceiveAck, buffers, history, Types
<1>3. /\ \A t \in Node \ {s} : stack'[t] = stack[t]
      /\ \/ stack[s] = <<>> /\ stack'[s] = <<>>
         \/ \E a, b : stack[s] = <<a>> /\ stack'[s] = <<b>> /\ Same(a, b)
  BY <1>0, <1>1, WaitStack
<1>4. /\ \A m \in Node : rx_frame'[m] = rx_frame[m] \/ rx_frame'[m] = None
      /\ rx_frame'[r] = rx_frame[r]
  BY <1>1 DEF WaitOn, ReceiveOther, ReceiveAck, FrameTaken, Types
<1>5. \A t \in Node \ {r} : HasAck(t)' => HasAck(t)
  <2>1. CASE WaitOn(s) \/ ReceiveOther(s)
    <3>1. ack' = ack
      BY <2>1 DEF WaitOn, ReceiveOther
    <3>. QED  BY <1>4, <3>1 DEF HasAck, IsAckFor
  <2>2. CASE ReceiveAck(s)
    <3>1. /\ \A t \in Node \ {s} : ack'[t] = ack[t]
          /\ rx_frame[s] # None /\ IsAckFor(s, rx_frame[s])
      BY <2>2 DEF ReceiveAck, Types
    <3>. QED  BY <1>4, <3>1 DEF HasAck, IsAckFor
  <2>. QED  BY <2>1, <2>2
<1>6. ReceiverSame(r)
  BY <1>1, <1>2, <1>3 DEF ReceiverSame
<1>7. \A t \in Node \ {r} : \A b : stack'[t] = <<b>> => \E c : stack[t] = <<c>> /\ Same(c, b)
  <2>1. \A b : <<>> # <<b>> /\ Same(b, b)
    BY DEF Same
  <2>2. \A a, b : <<a>> = <<b>> => a = b
    OBVIOUS
  <2>. QED  BY <1>3, <2>1, <2>2
<1>8. \A t \in Node \ {r} :
        \/ stack'[t] = <<>> /\ stack[t] = <<>>
        \/ stack'[t] = <<>> /\ ack[t] /\ \E c : stack[t] = <<c>> /\ IsLast(c)
        \/ \E b : stack'[t] = <<b>>
  BY <1>0, <1>3 DEF Shape
<1>9. \A p \in succeeded' : p \in succeeded \/ (p.to = r /\ Received(r, p))
  BY <1>2
<1>10. \A t : unsent'[t] \subseteq unsent[t]
  BY <1>2
<1>. QED  BY <1>2, <1>4, <1>5, <1>6, <1>7, <1>8, <1>9, <1>10, Quiet

\* A step that changes nothing of this.
LEMMA OneWayKept ==
  ASSUME Types, AckInv, NEW r, Converging(r), OneWayInv(r),
         UNCHANGED <<setting, stack, ack, buffers, packet_buffer_tx, rx_frame, history>>,
         \A t : unsent'[t] \subseteq unsent[t]
  PROVE  OneWayInv(r)'
<1>0. Shape(r)
  BY DEF OneWayInv
<1>1. /\ setting' = setting /\ packet_buffer_tx' = packet_buffer_tx /\ ReceiverSame(r)
      /\ stack' = stack /\ rx_frame' = rx_frame /\ ack' = ack /\ succeeded' = succeeded
  BY DEF ReceiverSame, buffers, history
<1>2. \A t \in Node \ {r} : \A b : stack'[t] = <<b>> => \E c : stack[t] = <<c>> /\ Same(c, b)
  <2>1. \A b : Same(b, b)
    BY DEF Same
  <2>. QED  BY <1>1, <2>1
<1>3. \A t \in Node \ {r} :
        \/ stack'[t] = <<>> /\ stack[t] = <<>>
        \/ stack'[t] = <<>> /\ ack[t] /\ \E c : stack[t] = <<c>> /\ IsLast(c)
        \/ \E b : stack'[t] = <<b>>
  BY <1>0, <1>1 DEF Shape
<1>4. /\ \A m \in Node : rx_frame'[m] = rx_frame[m] \/ rx_frame'[m] = None
      /\ rx_frame'[r] = rx_frame[r]
  BY <1>1
<1>5. \A t \in Node \ {r} : HasAck(t)' => HasAck(t)
  BY <1>1 DEF HasAck, IsAckFor
<1>6. \A p \in succeeded' : p \in succeeded \/ (p.to = r /\ Received(r, p))
  BY <1>1
<1>. QED  BY <1>1, <1>2, <1>3, <1>4, <1>5, <1>6, Quiet

-----------------------------------------------------------------------------
(* The steps of the receiver.                                              *)

\* Only the receiver receives data and calls back.
LEMMA OnlyReceiver ==
  ASSUME Types, NEW r, Converging(r), OneWayInv(r), NEW n \in Node,
         ReceiveData(n) \/ Acknowledge(n) \/ CallbackReturns(n)
  PROVE  n = r
<1>0. Shape(r) /\ Slots(r) /\ r \in Node
  BY ReceiverSilent DEF OneWayInv
<1>. SUFFICES ASSUME n # r PROVE FALSE
  OBVIOUS
<1>1. ~ Running(n, "reply") /\ ~ Running(n, "callback")
  <2>1. CASE stack[n] = <<>>
    BY <2>1, ReceiverTyped
  <2>2. CASE stack[n] # <<>>
    <3>1. PICK a : stack[n] = <<a>> /\ a.kind = "send"
      BY <1>0, <2>2 DEF Shape
    <3>. QED  BY <3>1, ReceiverTyped
  <2>. QED  BY <2>1, <2>2
<1>2. ~ ReceiveData(n)
  BY <1>0 DEF Slots, ReceiveData
<1>. QED  BY <1>1, <1>2 DEF Acknowledge, CallbackReturns

\* What a step of the receiver leaves alone.
SendersSame(r) ==
  /\ \A s \in Node \ {r} : stack'[s] = stack[s] /\ ack'[s] = ack[s]
  /\ UNCHANGED <<setting, packet_buffer_tx, unsent, succeeded>>

LEMMA OneWayReceiveData ==
  ASSUME Types, AckInv, [Next]_vars, NEW r, Converging(r), OneWayInv(r), ReceiveData(r)
  PROVE  OneWayInv(r)'
<1>. DEFINE f == rx_frame[r]
            s == f.from
<1>0. /\ Shape(r) /\ Slots(r) /\ Buffers(r) /\ Flight(r) /\ Answer(r) /\ Acked(r) /\ Fresh(r)
      /\ Whole(r) /\ Succeeded(r) /\ r \in Node
  BY ReceiverSilent DEF OneWayInv
<1>1. /\ Polls(r) /\ f # None /\ f.to = r /\ f.type = "data"
      /\ received_packet_length' = [received_packet_length EXCEPT ![r] = LengthAfter(r, f)]
      /\ rx_frame' = [rx_frame EXCEPT ![r] = None]
      /\ stack' = [stack EXCEPT ![r] = Append(AfterPoll(r), Reply(f))]
      /\ UNCHANGED <<setting, ack, sequence_number_counter, packet_buffer_tx, packet_buffer_rx,
                     unsent, delivered, succeeded>>
  BY DEF ReceiveData, FrameTaken, Reply, history
<1>2. f \in DataFrames /\ s \in Node \ {r} /\ InFlight(r, s)
  <2>1. f \in Frames
    BY <1>0, <1>1 DEF Types
  <2>2. f \in DataFrames /\ s \in Node
    BY <1>1, <2>1 DEF Frames, DataFrames
  <2>3. s # r
    BY <1>0, <1>1 DEF Slots
  <2>. QED  BY <1>1, <2>2, <2>3 DEF InFlight
<1>3. stack[r] = <<>>
  <2>1. \A a : stack[r] = <<a>> => ~ Idle(r) /\ (Running(r, "send") <=> a.kind = "send")
    BY ReceiverTyped
  <2>. QED  BY <1>0, <1>1, <2>1, ReceiverTyped DEF Shape, Polls
<1>4. stack'[r] = <<Reply(f)>> /\ SendersSame(r)
  <2>1. Append(<<>>, Reply(f)) = <<Reply(f)>> /\ AfterPoll(r) = <<>>
    BY <1>3, ReceiverTyped
  <2>. QED  BY <1>0, <1>1, <2>1 DEF Types, SendersSame
<1>. HIDE DEF f
<1>5. PICK a : stack[s] = <<a>> /\ a \in Sends /\ a.packet \in setting.outbox[s]
  <2>1. PICK a : stack[s] = <<a>>
    BY <1>0, <1>2, Clash DEF Shape
  <2>. QED  BY <1>0, <1>2, <2>1, SenderTyped
<1>6. Carries(f, a) /\ ~ Received(r, a.packet) /\ At(r, Base(a), a.seq, a.packet, Base(a))
  BY <1>0, <1>2, <1>3, <1>5 DEF Flight, f
<1>7. received_packet_length'[r] = Base(a) + Size(a)
  <2>1. /\ Base(a) \in Nat /\ Size(a) \in Nat /\ Base(a) + Size(a) <= a.packet.length
        /\ a.packet.length <= BufSize /\ a.packet.length \in Nat
    BY <1>5, SendFacts
  <2>2. LengthAfter(r, f) = (Base(a) + Size(a)) % Modulus
    BY <1>1, <1>6 DEF LengthAfter, At, Carries, f
  <2>3. received_packet_length'[r] = LengthAfter(r, f)
    BY <1>0, <1>1 DEF Types
  <2>. DEFINE x == Base(a) + Size(a)
  <2>4. x \in Nat /\ x < Modulus
    BY <2>1, ConstantsTyped
  <2>. HIDE DEF x
  <2>5. (x % Modulus) = x
    BY <2>4, ConstantsTyped
  <2>. QED  BY <2>2, <2>3, <2>5 DEF x
<1>8. At(r, Base(a) + Size(a), a.seq, a.packet, Base(a))'
  BY <1>1, <1>6, <1>7 DEF At
<1>9. \A p : Received(r, p)' <=> Received(r, p)
  BY <1>1 DEF Received
<1>10. rx_frame'[r] = None /\ \A m \in Node \ {r} : rx_frame'[m] = rx_frame[m]
  BY <1>0, <1>1 DEF Types
<1>11. DataFrames' = DataFrames
  <2>1. Packets' = Packets
    BY <1>1 DEF Packets
  <2>2. BytesSent' = BytesSent
    BY <2>1 DEF BytesSent
  <2>. QED  BY <2>2 DEF DataFrames
<1>12. Shape(r)' /\ Slots(r)' /\ Buffers(r)' /\ Flight(r)'
  <2>1. Shape(r)'
    <3>1. f.from # r
      BY <1>2
    <3>. QED  BY <1>0, <1>2, <1>4, <1>11, <3>1 DEF Shape, SendersSame
  <2>2. Slots(r)'
    BY <1>0, <1>10 DEF Slots
  <2>3. Buffers(r)'
    BY <1>0, <1>4 DEF Buffers, SendersSame
  <2>4. Flight(r)'
    BY <1>10 DEF Flight, InFlight
  <2>. QED  BY <2>1, <2>2, <2>3, <2>4
<1>13. Answer(r)'
  <2>. SUFFICES ASSUME NEW t \in Node \ {r}, NEW b, NEW g, stack'[t] = <<b>>, Replying(r, t, g)'
                PROVE  /\ Carries(g, b) /\ ~ Received(r, b.packet)'
                       /\ At(r, Base(b) + Size(b), b.seq, b.packet, Base(b))'
    BY DEF Answer
  <2>1. g = f
    BY <1>4 DEF Replying, Reply
  <2>2. t = s
    BY <2>1 DEF Replying
  <2>3. b = a
    BY <1>4, <1>5, <2>2 DEF SendersSame
  <2>. QED  BY <1>6, <1>8, <1>9, <2>1, <2>3
<1>14. Acked(r)'
  <2>. SUFFICES ASSUME NEW t \in Node \ {r}, NEW b, stack'[t] = <<b>>, HasAck(t)'
                PROVE  IsLast(b) /\ JustReceived(r, t, b.packet)'
    BY DEF Acked
  <2>1. stack[t] = <<b>> /\ HasAck(t)
    BY <1>4, <1>10 DEF SendersSame, HasAck, IsAckFor
  <2>2. t # s
    BY <1>0, <1>2, <2>1, Clash
  <2>3. b \in Sends /\ b.packet \in setting.outbox[t]
    BY <1>0, <2>1, SenderTyped
  <2>4. IsLast(b)
    BY <1>2, <1>5, <2>2, <2>3, BothSend, SendFacts
  <2>5. JustReceived(r, t, b.packet)
    BY <1>0, <2>1, <2>4 DEF Acked
  <2>. QED  BY <1>1, <2>4, <2>5 DEF JustReceived, Alone
<1>15. Fresh(r)'
  BY <1>4 DEF Fresh
<1>16. Whole(r)'
  BY <1>0, <1>1, WholeKept
<1>17. Succeeded(r)'
  BY <1>0, <1>1, <1>9 DEF Succeeded
<1>. QED  BY <1>12, <1>13, <1>14, <1>15, <1>16, <1>17 DEF OneWayInv

LEMMA OneWayCallbackReturns ==
  ASSUME Types, AckInv, [Next]_vars, NEW r, Converging(r), OneWayInv(r), CallbackReturns(r)
  PROVE  OneWayInv(r)'
<1>0. /\ Shape(r) /\ Slots(r) /\ Buffers(r) /\ Flight(r) /\ Answer(r) /\ Acked(r) /\ Fresh(r)
      /\ Whole(r) /\ Succeeded(r) /\ r \in Node
  BY ReceiverSilent DEF OneWayInv
<1>1. /\ Running(r, "callback")
      /\ received_packet_length' = [received_packet_length EXCEPT ![r] = 0]
      /\ sequence_number_counter' = [sequence_number_counter EXCEPT ![r] = 0]
      /\ stack' = [stack EXCEPT ![r] = Popped(r)]
      /\ UNCHANGED <<setting, ack, packet_buffer_rx, packet_buffer_tx, rx_frame, unsent, delivered,
                     succeeded>>
  BY DEF CallbackReturns, history
<1>2. stack[r] # <<>> /\ Popped(r) = <<>>
  BY <1>0, <1>1, ReceiverTyped DEF Shape, Running, Idle
<1>3. /\ stack'[r] = <<>> /\ SendersSame(r)
      /\ received_packet_length'[r] = 0 /\ sequence_number_counter'[r] = 0
  BY <1>0, <1>1, <1>2 DEF Types, SendersSame
<1>4. \A p : Received(r, p)' <=> Received(r, p)
  BY <1>1 DEF Received
<1>5. Shape(r)'
  BY <1>0, <1>3 DEF Shape, SendersSame
<1>6. Slots(r)'
  BY <1>0, <1>1 DEF Slots
<1>7. Buffers(r)'
  BY <1>0, <1>3 DEF Buffers, SendersSame
<1>8. Flight(r)'
  <2>. SUFFICES ASSUME NEW s \in Node \ {r}, NEW a, stack'[s] = <<a>>, InFlight(r, s)'
                PROVE  /\ Carries(rx_frame[r], a) /\ ~ Received(r, a.packet)'
                       /\ At(r, Base(a), a.seq, a.packet, Base(a))'
    BY <1>1, <1>3 DEF Flight
  <2>1. /\ Carries(rx_frame[r], a) /\ ~ Received(r, a.packet)
        /\ a.frame_number = 0 /\ a.seq = 0
    BY <1>0, <1>1, <1>2, <1>3 DEF Flight, InFlight, SendersSame
  <2>2. Base(a) = 0
    BY <2>1, ConstantsTyped DEF Base
  <2>3. At(r, 0, 0, a.packet, 0)'
    BY <1>3 DEF At
  <2>. QED  BY <1>4, <2>1, <2>2, <2>3
<1>9. Answer(r)'
  BY <1>3 DEF Answer, Replying
<1>10. Acked(r)'
  <2>. SUFFICES ASSUME NEW s \in Node \ {r}, NEW a, stack'[s] = <<a>>, HasAck(s)'
                PROVE  IsLast(a) /\ JustReceived(r, s, a.packet)'
    BY DEF Acked
  <2>1. stack[s] = <<a>> /\ HasAck(s)
    BY <1>1, <1>3 DEF SendersSame, HasAck, IsAckFor
  <2>2. IsLast(a) /\ JustReceived(r, s, a.packet)
    BY <1>0, <1>2, <2>1 DEF Acked
  <2>. QED  BY <1>1, <2>2 DEF JustReceived, Alone
<1>11. Fresh(r)'
  BY <1>3 DEF Fresh
<1>12. Whole(r)'
  BY <1>0, <1>1, WholeKept
<1>13. Succeeded(r)'
  BY <1>0, <1>1, <1>4 DEF Succeeded
<1>. QED
  BY <1>5, <1>6, <1>7, <1>8, <1>9, <1>10, <1>11, <1>12, <1>13 DEF OneWayInv

\* The bytes of a frame go where those before it end.
LEMMA CopiedGood ==
  ASSUME Types, NEW r, NEW a \in Sends, NEW f, Carries(f, a),
         At(r, Base(a) + Size(a), a.seq, a.packet, Base(a))
  PROVE  LET length == received_packet_length[r]
             buffer == Copied(r, f, length)
         IN  /\ \A i \in 1 .. Base(a) + Size(a) : buffer[i - 1] = Byte(a.packet, i)
             /\ IsLast(a) => Given(buffer, length) = Bytes(a.packet)
<1>. DEFINE length == received_packet_length[r]
            buffer == Copied(r, f, length)
            base == Base(a)
            size == Size(a)
            p == a.packet
<1>1. /\ base \in Nat /\ size \in Nat /\ size >= 1 /\ base + size <= p.length
      /\ p.length <= BufSize /\ p.length \in Nat
      /\ IsLast(a) => base + size = p.length
  BY SendFacts
<1>2. /\ length = base + size /\ Len(f.data) = size
      /\ \A i \in 1 .. base : packet_buffer_rx[r][i - 1] = Byte(p, i)
      /\ \A i \in 1 .. size : f.data[i] = Byte(p, base + i)
  BY DEF At, Carries
<1>3. buffer = [i \in 0 .. BufSize - 1 |->
                  LET j == i - (length - Len(f.data)) + 1
                  IN  IF j \in 1 .. Len(f.data) THEN f.data[j] ELSE packet_buffer_rx[r][i]]
  BY DEF Copied
<1>. HIDE DEF length, buffer, base, size, p
<1>4. ASSUME NEW i \in 1 .. base + size PROVE buffer[i - 1] = Byte(p, i)
  <2>1. i - 1 \in 0 .. BufSize - 1
    BY <1>1, ConstantsTyped
  <2>. DEFINE j == (i - 1) - (length - Len(f.data)) + 1
  <2>2. j = i - base
    BY <1>1, <1>2
  <2>3. buffer[i - 1] = IF j \in 1 .. Len(f.data) THEN f.data[j] ELSE packet_buffer_rx[r][i - 1]
    BY <1>3, <2>1
  <2>. HIDE DEF j
  <2>4. CASE i <= base
    <3>1. i \in 1 .. base /\ j \notin 1 .. Len(f.data)
      BY <1>1, <1>2, <2>2, <2>4
    <3>. QED  BY <1>2, <2>3, <3>1
  <2>5. CASE i > base
    <3>1. j \in 1 .. size /\ base + j = i
      BY <1>1, <2>2, <2>5
    <3>. QED  BY <1>2, <2>3, <3>1
  <2>. QED  BY <1>1, <2>4, <2>5
<1>5. ASSUME IsLast(a) PROVE Given(buffer, length) = Bytes(p)
  <2>1. length = p.length
    BY <1>1, <1>2, <1>5
  <2>2. \A i \in 1 .. p.length : (IF i <= BufSize THEN buffer[i - 1] ELSE None) = Byte(p, i)
    BY <1>1, <1>4, <1>5, ConstantsTyped
  <2>3. [i \in 1 .. p.length |-> IF i <= BufSize THEN buffer[i - 1] ELSE None]
          = [i \in 1 .. p.length |-> Byte(p, i)]
    BY <2>2
  <2>. QED  BY <2>1, <2>3 DEF Given, Bytes
<1>. QED  BY <1>4, <1>5 DEF length, buffer, base, size, p

\* The frame that is acknowledged, and what the callback is given with it.
LEMMA Answered ==
  ASSUME Types, AckInv, NEW r, Converging(r), OneWayInv(r), Acknowledge(r)
  PROVE  LET f == Top(r).frame
             s == f.from
             buffer == Copied(r, f, received_packet_length[r])
         IN  /\ s \in Node \ {r} /\ Replying(r, s, f)
             /\ Popped(r) = <<>> /\ Replaced(r, Callback) = <<Callback>>
             /\ \E a :
                  /\ stack[s] = <<a>> /\ a \in Sends
                  /\ a.packet \in setting.outbox[s] /\ a.packet \notin unsent[s]
                  /\ Carries(f, a) /\ ~ Received(r, a.packet)
                  /\ At(r, Base(a) + Size(a), a.seq, a.packet, Base(a))
                  /\ \A i \in 1 .. Base(a) + Size(a) : buffer[i - 1] = Byte(a.packet, i)
                  /\ IsLast(a) => Given(buffer, received_packet_length[r]) = Bytes(a.packet)
<1>. DEFINE f == Top(r).frame
            s == f.from
            buffer == Copied(r, f, received_packet_length[r])
<1>0. Shape(r) /\ Slots(r) /\ Answer(r) /\ r \in Node
  BY ReceiverSilent DEF OneWayInv
<1>1. Running(r, "reply")
  BY DEF Acknowledge
<1>2. stack[r] = <<Reply(f)>> /\ s # r /\ s \in Node
  <2>1. PICK g \in DataFrames : stack[r] = <<Reply(g)>> /\ g.from # r
    <3>1. stack[r] # <<>> /\ stack[r] # <<Callback>>
      BY <1>1, ReceiverTyped DEF Running
    <3>. QED  BY <1>0, <3>1 DEF Shape
  <2>2. f = g
    BY <2>1, ReceiverTyped
  <2>3. g.from \in Node
    BY DEF DataFrames
  <2>. QED  BY <2>1, <2>2, <2>3
<1>3. Replying(r, s, f) /\ s \in Node \ {r}
  BY <1>2 DEF Replying
<1>4. Popped(r) = <<>> /\ Replaced(r, Callback) = <<Callback>>
  BY <1>2, ReceiverTyped
<1>. HIDE DEF f, buffer
<1>5. PICK a : stack[s] = <<a>> /\ a \in Sends /\ a.packet \in setting.outbox[s]
               /\ a.packet \notin unsent[s]
  <2>1. PICK a : stack[s] = <<a>>
    BY <1>0, <1>3, Clash DEF Shape
  <2>. QED  BY <1>0, <1>3, <2>1, SenderTyped
<1>6. /\ Carries(f, a) /\ ~ Received(r, a.packet)
      /\ At(r, Base(a) + Size(a), a.seq, a.packet, Base(a))
  BY <1>0, <1>3, <1>5 DEF Answer
<1>7. /\ \A i \in 1 .. Base(a) + Size(a) : buffer[i - 1] = Byte(a.packet, i)
      /\ IsLast(a) => Given(buffer, received_packet_length[r]) = Bytes(a.packet)
  BY <1>5, <1>6, CopiedGood DEF buffer
<1>. QED  BY <1>3, <1>4, <1>5, <1>6, <1>7 DEF f, buffer

LEMMA OneWayAcknowledge ==
  ASSUME Types, AckInv, [Next]_vars, NEW r, Converging(r), OneWayInv(r), Acknowledge(r)
  PROVE  OneWayInv(r)'
<1>. DEFINE f == Top(r).frame
            s == f.from
            buffer == Copied(r, f, received_packet_length[r])
            record == [from |-> s, data |-> Given(buffer, received_packet_length[r])]
<1>0. /\ Shape(r) /\ Slots(r) /\ Buffers(r) /\ Flight(r) /\ Answer(r) /\ Acked(r) /\ Fresh(r)
      /\ Whole(r) /\ Succeeded(r) /\ r \in Node
  BY ReceiverSilent DEF OneWayInv
<1>1. /\ Running(r, "reply")
      /\ \E R \in Reach(r) : rx_frame' = Transmitted(rx_frame, R, AckFrame(r, s))
      /\ sequence_number_counter' = [sequence_number_counter EXCEPT ![r] = 1 - @]
      /\ packet_buffer_rx' = [packet_buffer_rx EXCEPT ![r] = buffer]
      /\ \/ /\ f.last
            /\ stack' = [stack EXCEPT ![r] = Replaced(r, Callback)]
            /\ delivered' = [delivered EXCEPT ![r] = Append(@, record)]
         \/ /\ ~ f.last
            /\ stack' = [stack EXCEPT ![r] = Popped(r)]
            /\ delivered' = delivered
      /\ UNCHANGED <<setting, ack, received_packet_length, packet_buffer_tx, unsent, succeeded>>
  BY DEF Acknowledge, Callback
<1>2. /\ s \in Node /\ s # r /\ Replying(r, s, f)
      /\ Popped(r) = <<>> /\ Replaced(r, Callback) = <<Callback>>
  BY Answered
<1>3. s \in Node \ {r} /\ stack[r] # <<>>
  BY <1>2 DEF Replying
<1>4. PICK a :
        /\ stack[s] = <<a>> /\ a \in Sends
        /\ a.packet \in setting.outbox[s] /\ a.packet \notin unsent[s]
        /\ Carries(f, a) /\ ~ Received(r, a.packet)
        /\ At(r, Base(a) + Size(a), a.seq, a.packet, Base(a))
        /\ \A i \in 1 .. Base(a) + Size(a) : buffer[i - 1] = Byte(a.packet, i)
        /\ IsLast(a) => Given(buffer, received_packet_length[r]) = Bytes(a.packet)
  BY Answered
<1>5. record.from = s /\ record.data = Given(buffer, received_packet_length[r])
  OBVIOUS
<1>. HIDE DEF f, buffer, record
<1>6. /\ stack[s] = <<a>> /\ a \in Sends
      /\ a.packet \in setting.outbox[s] /\ a.packet \notin unsent[s]
  BY <1>4
<1>7. /\ Carries(f, a) /\ ~ Received(r, a.packet)
      /\ At(r, Base(a) + Size(a), a.seq, a.packet, Base(a))
  BY <1>4
<1>8. /\ \A i \in 1 .. Base(a) + Size(a) : buffer[i - 1] = Byte(a.packet, i)
      /\ IsLast(a) => record.data = Bytes(a.packet)
  BY <1>4, <1>5
<1>9. /\ SendersSame(r) /\ packet_buffer_rx'[r] = buffer
      /\ received_packet_length'[r] = Base(a) + Size(a) /\ sequence_number_counter'[r] = 1 - a.seq
  BY <1>0, <1>1, <1>7 DEF Types, SendersSame, At
<1>10. /\ rx_frame'[r] = rx_frame[r]
       /\ \A m \in Node : \/ rx_frame'[m] = rx_frame[m]
                          \/ /\ m # r /\ rx_frame'[m].type = "ack"
                             /\ rx_frame'[m].from = r /\ rx_frame'[m].to = s
  <2>1. PICK R \in Reach(r) : rx_frame' = Transmitted(rx_frame, R, AckFrame(r, s))
    BY <1>1
  <2>2. /\ AckFrame(r, s).type = "ack" /\ AckFrame(r, s).from = r /\ AckFrame(r, s).to = s
    BY DEF AckFrame
  <2>. QED  BY <1>0, <2>1, <2>2, Transmits
<1>11. \A t \in Node \ {r, s} : HasAck(t)' => HasAck(t)
  BY <1>9, <1>10 DEF HasAck, IsAckFor, SendersSame
<1>12. ~ InFlight(r, s) /\ ~ HasAck(s)
  BY <1>0, <1>2, <1>3, Clash
<1>13. Slots(r)'
  BY <1>0, <1>2, <1>10 DEF Slots
<1>14. Buffers(r)'
  BY <1>0, <1>9 DEF Buffers, SendersSame
<1>15. f.last <=> IsLast(a)
  BY <1>7 DEF Carries
<1>16. CASE ~ f.last
  <2>1. stack'[r] = <<>> /\ delivered' = delivered /\ ~ IsLast(a)
    BY <1>0, <1>1, <1>2, <1>15, <1>16 DEF Types
  <2>2. ASSUME NEW t \in Node \ {r, s}, NEW b, stack[t] = <<b>> PROVE FALSE
    <3>1. b.packet \in setting.outbox[t]
      BY <1>0, <2>2, SenderTyped
    <3>. QED  BY <1>2, <1>6, <2>1, <3>1, BothSend, SendFacts
  <2>3. ~ Small
    BY <1>6, <2>1, SendFacts
  <2>4. Shape(r)'
    BY <1>0, <1>9, <2>1 DEF Shape, SendersSame
  <2>5. Flight(r)'
    <3>. SUFFICES ASSUME NEW t \in Node \ {r}, NEW b, stack'[t] = <<b>>, InFlight(r, t)'
                  PROVE  FALSE
      BY DEF Flight
    <3>1. stack[t] = <<b>> /\ InFlight(r, t)
      BY <1>9, <1>10 DEF SendersSame, InFlight
    <3>. QED  BY <1>12, <2>2, <3>1
  <2>6. Answer(r)'
    <3>1. \A g : <<>> # <<Reply(g)>>
      OBVIOUS
    <3>2. \A g : stack'[r] # <<Reply(g)>>
      BY <2>1, <3>1
    <3>. QED  BY <3>2 DEF Answer, Replying
  <2>7. Acked(r)'
    <3>. SUFFICES ASSUME NEW t \in Node \ {r}, NEW b, stack'[t] = <<b>>, HasAck(t)'
                  PROVE  /\ ~ IsLast(b) /\ ~ Received(r, b.packet)'
                         /\ At(r, Base(b) + FragSize, 1 - b.seq, b.packet, Base(b) + FragSize)'
      BY <2>1 DEF Acked
    <3>1. stack[t] = <<b>>
      BY <1>9 DEF SendersSame
    <3>2. t = s /\ b = a
      BY <1>6, <2>2, <3>1
    <3>3. Size(a) = FragSize
      BY <2>1, <1>6, SendFacts
    <3>4. At(r, Base(a) + FragSize, 1 - a.seq, a.packet, Base(a) + FragSize)'
      BY <1>8, <1>9, <3>3 DEF At
    <3>5. ~ Received(r, a.packet)'
      BY <1>7, <2>1 DEF Received
    <3>. QED  BY <2>1, <3>2, <3>4, <3>5
  <2>8. Fresh(r)'
    <3>1. ~ Between(r)'
      <4>1. stack'[s] = <<a>>
        BY <1>3, <1>6, <1>9 DEF SendersSame
      <4>2. \A b : <<a>> = <<b>> => b = a
        OBVIOUS
      <4>3. <<a>> # <<>>
        OBVIOUS
      <4>4. ~ (stack'[s] = <<>>) /\ \A b : stack'[s] = <<b>> => ~ IsLast(b)
        BY <2>1, <4>1, <4>2, <4>3
      <4>. QED  BY <1>3, <4>4 DEF Between
    <3>2. Small' <=> Small
      BY <1>1 DEF Small, Packets
    <3>. QED  BY <2>3, <3>1, <3>2 DEF Fresh
  <2>9. Whole(r)' /\ Succeeded(r)'
    BY <1>0, <1>1, <2>1 DEF Whole, Succeeded, Received
  <2>. QED  BY <1>13, <1>14, <2>4, <2>5, <2>6, <2>7, <2>8, <2>9 DEF OneWayInv
<1>17. CASE f.last
  <2>. DEFINE L == Len(delivered[r])
  <2>1. stack'[r] = <<Callback>> /\ IsLast(a)
    BY <1>0, <1>1, <1>2, <1>15, <1>17 DEF Types
  <2>2. /\ L \in Nat /\ Len(delivered'[r]) = L + 1
        /\ DOMAIN delivered[r] = 1 .. L /\ DOMAIN delivered'[r] = 1 .. L + 1
        /\ \A i \in 1 .. L : delivered'[r][i] = delivered[r][i]
        /\ delivered'[r][L + 1].from = s /\ delivered'[r][L + 1].data = Bytes(a.packet)
    <3>. DEFINE Given_to == [from : Node, data : Seq(BytesSent)]
    <3>1. delivered \in [Node -> Seq(Given_to)]
      BY DEF Types
    <3>2. record \in Given_to
      <4>1. Given(buffer, received_packet_length[r]) \in Seq(BytesSent)
        BY <1>0, <1>1, ReceivedTyped DEF f, buffer
      <4>. QED  BY <1>2, <4>1 DEF record
    <3>. HIDE DEF Given_to
    <3>3. delivered[r] \in Seq(Given_to) /\ delivered'[r] = Append(delivered[r], record)
      BY <1>0, <1>1, <1>17, <3>1
    <3>. QED  BY <1>5, <1>8, <2>1, <3>2, <3>3, Appended
  <2>. HIDE DEF L
  <2>3. \A i \in 1 .. L + 1 : i \in 1 .. L \/ i = L + 1
    BY <2>2
  <2>4. ASSUME NEW t \in Node, NEW p \in setting.outbox[t], t # s, Received(r, p)'
        PROVE  Received(r, p)
    <3>1. PICK i \in 1 .. L + 1 : delivered'[r][i].data = Bytes(p)
      BY <2>2, <2>4 DEF Received
    <3>2. i # L + 1
      BY <1>2, <1>6, <2>2, <2>4, <3>1, BytesDiffer
    <3>. QED  BY <2>2, <2>3, <3>1, <3>2 DEF Received
  <2>5. Shape(r)'
    BY <1>0, <1>9, <2>1 DEF Shape, SendersSame
  <2>6. Flight(r)'
    <3>. SUFFICES ASSUME NEW t \in Node \ {r}, NEW b, stack'[t] = <<b>>, InFlight(r, t)'
                  PROVE  /\ Carries(rx_frame[r], b) /\ ~ Received(r, b.packet)'
                         /\ b.frame_number = 0 /\ b.seq = 0
      BY <1>10, <2>1 DEF Flight
    <3>1. stack[t] = <<b>> /\ InFlight(r, t)
      BY <1>9, <1>10 DEF SendersSame, InFlight
    <3>2. t # s
      BY <1>12, <3>1
    <3>3. b.packet \in setting.outbox[t]
      BY <1>0, <3>1, SenderTyped
    <3>4. stack[r] # <<>>
      BY <1>3
    <3>5. /\ Carries(rx_frame[r], b) /\ ~ Received(r, b.packet)
          /\ b.frame_number = 0 /\ b.seq = 0
      BY <1>0, <3>1, <3>4 DEF Flight
    <3>. QED  BY <2>4, <3>2, <3>3, <3>5
  <2>7. Answer(r)'
    <3>1. \A g : Callback # Reply(g)
      BY ReceiverTyped
    <3>2. \A g : stack'[r] # <<Reply(g)>>
      BY <2>1, <3>1
    <3>. QED  BY <3>2 DEF Answer, Replying
  <2>8. Acked(r)'
    <3>. SUFFICES ASSUME NEW t \in Node \ {r}, NEW b, stack'[t] = <<b>>, HasAck(t)'
                  PROVE  IsLast(b) /\ JustReceived(r, t, b.packet)'
      BY DEF Acked
    <3>1. stack[t] = <<b>>
      BY <1>9 DEF SendersSame
    <3>2. CASE t = s
      <4>1. b = a
        BY <1>6, <3>1, <3>2
      <4>. QED  BY <2>1, <2>2, <4>1 DEF JustReceived
    <3>3. CASE t # s
      <4>1. HasAck(t)
        BY <1>11, <3>3
      <4>2. IsLast(b) /\ JustReceived(r, t, b.packet)
        BY <1>0, <1>3, <3>1, <4>1 DEF Acked
      <4>3. b.packet \in setting.outbox[t]
        BY <1>0, <3>1, SenderTyped
      <4>4. ~ Alone(t)
        BY <1>2, <1>6, <3>3, <4>3, BothSend
      <4>5. ~ Alone(t)'
        BY <1>1, <4>4 DEF Alone
      <4>6. PICK i \in 1 .. L : delivered[r][i].data = Bytes(b.packet)
        BY <2>2, <4>2 DEF JustReceived
      <4>7. i \in DOMAIN delivered'[r] /\ delivered'[r][i].data = Bytes(b.packet)
        BY <2>2, <4>6
      <4>. QED  BY <4>2, <4>5, <4>7 DEF JustReceived
    <3>. QED  BY <3>2, <3>3
  <2>9. Fresh(r)'
    BY <2>1 DEF Fresh
  <2>10. Whole(r)'
    <3>. SUFFICES ASSUME NEW i \in 1 .. L + 1
                  PROVE  \E p \in setting.outbox[delivered'[r][i].from] :
                           p \notin unsent[delivered'[r][i].from] /\ delivered'[r][i].data = Bytes(p)
      BY <1>1, <2>2 DEF Whole
    <3>1. CASE i = L + 1
      BY <1>6, <2>2, <3>1
    <3>2. CASE i \in 1 .. L
      <4>1. delivered'[r][i] = delivered[r][i] /\ i \in DOMAIN delivered[r]
        BY <2>2, <3>2
      <4>. QED  BY <1>0, <4>1 DEF Whole
    <3>. QED  BY <2>3, <3>1, <3>2
  <2>11. Succeeded(r)'
    <3>. SUFFICES ASSUME NEW p \in succeeded PROVE Received(r, p)'
      BY <1>0, <1>1 DEF Succeeded
    <3>1. PICK i \in 1 .. L : delivered[r][i].data = Bytes(p)
      BY <1>0, <2>2 DEF Succeeded, Received
    <3>2. i \in DOMAIN delivered'[r] /\ delivered'[r][i].data = Bytes(p)
      BY <2>2, <3>1
    <3>. QED  BY <3>2 DEF Received
  <2>. QED
    BY <1>13, <1>14, <2>5, <2>6, <2>7, <2>8, <2>9, <2>10, <2>11 DEF OneWayInv
<1>. QED  BY <1>16, <1>17

-----------------------------------------------------------------------------
(* The theorems.                                                           *)

\* The invariant of every node that all traffic goes to.
Converged == \A r \in Node : Converging(r) => OneWayInv(r)

LEMMA OneWayInit == Init => Converged
<1>. SUFFICES ASSUME Init, NEW r \in Node, Converging(r) PROVE OneWayInv(r)
  BY DEF Converged
<1>1. /\ stack = [n \in Node |-> <<>>] /\ rx_frame = [n \in Node |-> None]
      /\ ack = [n \in Node |-> FALSE] /\ delivered = [n \in Node |-> <<>>] /\ succeeded = {}
      /\ received_packet_length = [n \in Node |-> 0]
      /\ sequence_number_counter = [n \in Node |-> 0]
  BY DEF Init
<1>2. \A a : <<>> # <<a>>
  OBVIOUS
<1>3. Shape(r) /\ Slots(r) /\ Buffers(r)
  BY <1>1, <1>2 DEF Shape, Slots, Buffers
<1>4. Flight(r) /\ Answer(r) /\ Acked(r)
  BY <1>1, <1>2 DEF Flight, Answer, Acked
<1>5. Fresh(r) /\ Whole(r) /\ Succeeded(r)
  BY <1>1 DEF Fresh, Whole, Succeeded
<1>. QED  BY <1>3, <1>4, <1>5 DEF OneWayInv

LEMMA OneWayStep ==
  ASSUME Types, AckInv, [Next]_vars, Converged
  PROVE  Converged'
<1>. SUFFICES ASSUME NEW r \in Node, Converging(r)' PROVE OneWayInv(r)'
  BY DEF Converged
<1>1. Converging(r)
  BY SettingKept DEF Converging, Small, Alone
<1>2. OneWayInv(r)
  BY <1>1 DEF Converged
<1>3. ASSUME NEW n \in Node, NEW p \in setting.outbox[n], SendTooBig(n, p) PROVE OneWayInv(r)'
  <2>1. /\ UNCHANGED <<setting, stack, ack, buffers, packet_buffer_tx, rx_frame, history>>
        /\ \A t : unsent'[t] \subseteq unsent[t]
    BY <1>3 DEF SendTooBig, Types
  <2>. QED  BY <1>1, <1>2, <2>1, OneWayKept
<1>4. CASE UNCHANGED vars
  <2>1. /\ UNCHANGED <<setting, stack, ack, buffers, packet_buffer_tx, rx_frame, history>>
        /\ \A t : unsent'[t] \subseteq unsent[t]
    BY <1>4 DEF vars
  <2>. QED  BY <1>1, <1>2, <2>1, OneWayKept
<1>5. ASSUME NEW n \in Node, ReceiveData(n) \/ Acknowledge(n) \/ CallbackReturns(n)
      PROVE  OneWayInv(r)'
  <2>1. n = r
    BY <1>1, <1>2, <1>5, OnlyReceiver
  <2>. QED
    BY <1>1, <1>2, <1>5, <2>1, OneWayReceiveData, OneWayAcknowledge, OneWayCallbackReturns
<1>6. ASSUME NEW n \in Node, WaitOn(n) \/ ReceiveOther(n) \/ ReceiveAck(n) \/ Proceed(n)
      PROVE  OneWayInv(r)'
  BY <1>1, <1>2, <1>6, OneWayWait, OneWayProceed
<1>7. ASSUME NEW n \in Node, NEW p \in setting.outbox[n], dll_send_packet(n, p)
      PROVE  OneWayInv(r)'
  BY <1>1, <1>2, <1>7, OneWaySend
<1>. QED  BY <1>3, <1>4, <1>5, <1>6, <1>7 DEF Next, Run

LEMMA ConvergedAlways == Spec => [](Types /\ AckInv /\ Converged)
<1>1. Types /\ AckInv /\ Converged /\ [Next]_vars => AckInv' /\ Converged'
  BY AckInvStep, OneWayStep
<1>. QED  BY TypesInvariant, AckInvInit, OneWayInit, <1>1, PTL DEF Spec

LEMMA ConvergesConverging ==
  ASSUME NEW n \in Node, Converges(n)
  PROVE  Converging(n)
<1>1. \A p \in Packets : p.to = n
  BY DEF Converges
<1>2. ASSUME Cardinality({m \in Node : setting.outbox[m] # {}}) = 1
      PROVE  \E s \in Node : Alone(s)
  <2>. DEFINE S == {m \in Node : setting.outbox[m] # {}}
  <2>1. IsFiniteSet(S)
    BY ConstantsTyped, FS_Subset
  <2>2. PICK s : S = {s}
    BY <1>2, <2>1, FS_Singleton
  <2>. QED  BY <2>2 DEF Alone
<1>3. (\A p \in Packets : p.length <= FragSize) => Small
  BY DEF Small
<1>. QED  BY <1>1, <1>2, <1>3 DEF Converges, Converging

\* A node that all others send to, one of them or in one frame each, is given whole packets:
\* however many nodes and packets there are and whatever frames are lost.
THEOREM ReceiverIntactAlways == Spec => []ReceiverIntact
<1>1. Types /\ Converged => ReceiverIntact
  <2>. SUFFICES ASSUME Types, Converged, NEW n \in Node, Converges(n) PROVE Intact(n)
    BY DEF ReceiverIntact
  <2>1. Whole(n) /\ Converging(n)
    BY ConvergesConverging DEF Converged, OneWayInv
  <2>2. ASSUME NEW i \in DOMAIN delivered[n]
        PROVE  \E p \in setting.outbox[delivered[n][i].from] :
                 p.to = n /\ delivered[n][i].data = Bytes(p)
    <3>1. PICK p \in setting.outbox[delivered[n][i].from] : delivered[n][i].data = Bytes(p)
      BY <2>1 DEF Whole
    <3>2. delivered[n][i].from \in Node
      BY DeliveredTyped
    <3>. QED  BY <2>1, <3>1, <3>2, ReceiverSilent
  <2>. QED  BY <2>2 DEF Intact
<1>. QED  BY ConvergedAlways, <1>1, PTL

\* Where all send to one node, DLL_TRANSMISSION_SUCCESS means that its callback was given the
\* packet: however many nodes and packets there are and whatever frames are lost.
THEOREM SuccessIsDelivery == Spec => []SuccessMeansDelivered
<1>1. Types /\ Converged => SuccessMeansDelivered
  <2>. SUFFICES ASSUME Types, Converged, NEW n \in Node, Converges(n), NEW p \in succeeded
                PROVE  Received(n, p)
    BY DEF SuccessMeansDelivered
  <2>1. Succeeded(n) /\ Converging(n)
    BY ConvergesConverging DEF Converged, OneWayInv
  <2>. QED  BY <2>1 DEF Succeeded
<1>. QED  BY ConvergedAlways, <1>1, PTL

-----------------------------------------------------------------------------
(* One sender and one receiver.                                            *)

LEMMA OneWayConverging ==
  ASSUME OneWay
  PROVE  /\ Converging(Receiver) /\ Alone(Sender)
         /\ Sender \in Node \ {Receiver} /\ Receiver \in Node
  BY OneWayAssumption DEF OneWay, Converging, Alone

\* A frame that arrives is the current one of the sender's send, and the one that the receiver
\* is ready for.
LEMMA Arrival ==
  ASSUME Types, AckInv, Converged, Arriving
  PROVE  \E a : /\ stack[Sender] = <<a>> /\ Carries(rx_frame[Receiver], a)
                /\ At(Receiver, Base(a), a.seq, a.packet, Base(a))
<1>. DEFINE r == Receiver
            s == rx_frame[r].from
<1>1. /\ OneWay /\ rx_frame[r] # None /\ ~ Running(r, "callback")
      /\ Converging(r) /\ Sender \in Node \ {r} /\ r \in Node
  BY OneWayConverging DEF Arriving
<1>2. Shape(r) /\ Slots(r) /\ Flight(r)
  BY <1>1 DEF Converged, OneWayInv
<1>3. ASSUME NEW t \in Node \ {r}, stack[t] # <<>> PROVE t = Sender
  <2>1. setting.outbox[t] # {}
    BY <1>2, <1>3 DEF Shape
  <2>. QED  BY <1>1, <2>1 DEF OneWay
<1>4. s \in Node \ {r} /\ InFlight(r, s)
  <2>1. rx_frame[r] \in Frames
    BY <1>1 DEF Types
  <2>2. s \in Node
    BY <2>1 DEF Frames, DataFrames
  <2>3. s # r
    BY <1>1, <1>2 DEF Slots
  <2>. QED  BY <1>1, <2>2, <2>3 DEF InFlight
<1>. HIDE DEF s
<1>5. s = Sender /\ stack[Sender] # <<>>
  <2>1. stack[s] # <<>>
    BY <1>1, <1>2, <1>4, Clash
  <2>. QED  BY <1>3, <1>4, <2>1
<1>6. stack[r] = <<>>
  <2>1. stack[r] # <<Callback>>
    BY <1>1, ReceiverTyped
  <2>2. ASSUME NEW f \in DataFrames, stack[r] = <<Reply(f)>>, f.from # r PROVE FALSE
    <3>1. f.from \in Node \ {r} /\ Replying(r, f.from, f)
      BY <2>2 DEF DataFrames, Replying
    <3>2. stack[f.from] # <<>>
      BY <1>1, <1>2, <3>1, Clash
    <3>3. f.from = s
      BY <1>3, <1>5, <3>1, <3>2
    <3>. QED  BY <1>1, <1>2, <1>4, <3>1, <3>3, Clash
  <2>. QED  BY <1>2, <2>1, <2>2 DEF Shape
<1>7. PICK a : stack[Sender] = <<a>>
  BY <1>1, <1>2, <1>5 DEF Shape
<1>. QED  BY <1>1, <1>2, <1>4, <1>5, <1>6, <1>7 DEF Flight

\* The sequence number of a frame is the one the receiver expects: for every sequence of packets,
\* and whatever frames are lost.
THEOREM SequenceAgreesAlways == Spec => []SequenceAgrees
<1>1. Types /\ AckInv /\ Converged => SequenceAgrees
  <2>. SUFFICES ASSUME Types, AckInv, Converged, Arriving
                PROVE  rx_frame[Receiver].seq = sequence_number_counter[Receiver]
    BY DEF SequenceAgrees
  <2>. QED  BY Arrival DEF Carries, At
<1>. QED  BY ConvergedAlways, <1>1, PTL

\* The receiver has counted the bytes of the frames before the one that arrives, no more and no
\* less.
THEOREM LengthAgreesAlways == Spec => []LengthAgrees
<1>1. Types /\ AckInv /\ Converged => LengthAgrees
  <2>. SUFFICES ASSUME Types, AckInv, Converged, Arriving
                PROVE  received_packet_length[Receiver] = FragSize * Top(Sender).frame_number
    BY DEF LengthAgrees
  <2>1. PICK a : /\ stack[Sender] = <<a>>
                 /\ At(Receiver, Base(a), a.seq, a.packet, Base(a))
    BY Arrival
  <2>2. Top(Sender) = a
    BY <2>1, ReceiverTyped
  <2>3. a \in Sends
    <3>1. OneWay
      BY DEF Arriving
    <3>2. Shape(Receiver) /\ Sender \in Node \ {Receiver}
      BY <3>1, OneWayConverging DEF Converged, OneWayInv
    <3>. QED  BY <2>1, <3>2, SenderTyped
  <2>4. a.frame_number \in Nat
    BY <2>3, SendTyped
  <2>5. \A k, f \in Nat : k * f = f * k
    OBVIOUS
  <2>6. Base(a) = FragSize * a.frame_number
    BY <2>4, <2>5, ConstantsTyped DEF Base
  <2>. QED  BY <2>1, <2>2, <2>6 DEF At
<1>. QED  BY ConvergedAlways, <1>1, PTL

-----------------------------------------------------------------------------
(* The channel that one sender and one receiver implement.                 *)

\* What the channel carries, and what arrived.
Carried == IF OneWay /\ Running(Sender, "send") THEN Bytes(Top(Sender).packet) ELSE None
Arrivals == IF OneWay THEN [i \in DOMAIN delivered[Receiver] |-> delivered[Receiver][i].data]
            ELSE <<>>

LEMMA CarriedFacts ==
  ASSUME OneWay
  PROVE  /\ stack[Sender] = <<>> => Carried = None
         /\ \A a : stack[Sender] = <<a>> /\ a.kind = "send" => Carried = Bytes(a.packet)
<1>1. ASSUME NEW a, stack[Sender] = <<a>>, a.kind = "send"
      PROVE  Running(Sender, "send") /\ Top(Sender) = a
  BY <1>1, ReceiverTyped
<1>2. stack[Sender] = <<>> => ~ Running(Sender, "send")
  BY ReceiverTyped
<1>. QED  BY <1>1, <1>2 DEF Carried

LEMMA ArrivalsFacts ==
  ASSUME OneWay, Types
  PROVE  /\ Len(delivered[Receiver]) \in Nat
         /\ Arrivals \in Seq(Seq(BytesSent)) /\ Len(Arrivals) = Len(delivered[Receiver])
         /\ \A i \in 1 .. Len(delivered[Receiver]) : Arrivals[i] = delivered[Receiver][i].data
<1>. DEFINE S == Seq(BytesSent)
            Given_to == [from : Node, data : S]
            D == delivered[Receiver]
<1>1. Receiver \in Node
  BY OneWayConverging
<1>2. delivered \in [Node -> Seq(Given_to)]
  BY DEF Types
<1>3. \A x \in Given_to : x.data \in S
  OBVIOUS
<1>. HIDE DEF S, Given_to
<1>4. D \in Seq(Given_to)
  BY <1>1, <1>2
<1>5. Arrivals = [i \in DOMAIN D |-> D[i].data]
  BY DEF Arrivals
<1>. HIDE DEF D
<1>6. Len(D) \in Nat /\ DOMAIN D = 1 .. Len(D) /\ \A i \in 1 .. Len(D) : D[i].data \in S
  BY <1>3, <1>4
<1>7. Arrivals \in Seq(S) /\ Len(Arrivals) = Len(D)
      /\ \A i \in 1 .. Len(D) : Arrivals[i] = D[i].data
  BY <1>5, <1>6
<1>. QED  BY <1>6, <1>7 DEF S, D

LEMMA DataAppended ==
  ASSUME NEW S, NEW D \in Seq([from : Node, data : S]), NEW x \in [from : Node, data : S]
  PROVE  [i \in DOMAIN Append(D, x) |-> Append(D, x)[i].data]
           = Append([i \in DOMAIN D |-> D[i].data], x.data)
<1>. DEFINE T == [from : Node, data : S]
            L == Len(D)
            E == Append(D, x)
            d == [i \in DOMAIN D |-> D[i].data]
            e == [i \in DOMAIN E |-> E[i].data]
<1>1. \A y \in T : y.data \in S
  OBVIOUS
<1>2. D \in Seq(T) /\ x \in T
  OBVIOUS
<1>. HIDE DEF T
<1>3. /\ E \in Seq(T) /\ L \in Nat /\ Len(E) = L + 1
      /\ DOMAIN D = 1 .. L /\ DOMAIN E = 1 .. L + 1
      /\ \A i \in 1 .. L : E[i] = D[i]
      /\ E[L + 1] = x
  BY <1>2, Appended
<1>4. /\ \A i \in 1 .. L : D[i].data \in S
      /\ \A i \in 1 .. L + 1 : E[i].data \in S
  BY <1>1, <1>2, <1>3
<1>. HIDE DEF E, L
<1>5. d \in Seq(S) /\ Len(d) = L /\ x.data \in S
  BY <1>1, <1>2, <1>3, <1>4
<1>6. e \in Seq(S) /\ Len(e) = L + 1
  BY <1>3, <1>4
<1>7. \A i \in 1 .. L + 1 : i \in 1 .. L \/ i = L + 1
  BY <1>3
<1>8. /\ \A i \in 1 .. L : e[i] = D[i].data /\ d[i] = D[i].data
      /\ e[L + 1] = x.data
  BY <1>3
<1>. HIDE DEF d, e
<1>9. /\ Append(d, x.data) \in Seq(S) /\ Len(Append(d, x.data)) = L + 1
      /\ \A i \in 1 .. L : Append(d, x.data)[i] = d[i]
      /\ Append(d, x.data)[L + 1] = x.data
  BY <1>5, Appended
<1>10. \A i \in 1 .. L + 1 : e[i] = Append(d, x.data)[i]
  BY <1>7, <1>8, <1>9
<1>11. e = Append(d, x.data)
  BY <1>6, <1>9, <1>10
<1>. QED  BY <1>11 DEF d, e, E

\* A step of the link layer is a step of the channel, or none.
LEMMA ChannelStep ==
  ASSUME Types, AckInv, Converged, [Next]_vars, OneWay
  PROVE  [Channel!Next]_(Channel!vars)
<1>. DEFINE r == Receiver
            s == Sender
<1>0. /\ Converging(r) /\ s \in Node \ {r} /\ r \in Node /\ OneWayInv(r) /\ Alone(s)
  BY OneWayConverging DEF Converged
<1>1. Shape(r) /\ Slots(r) /\ Acked(r) /\ Answer(r) /\ Whole(r)
  BY <1>0 DEF OneWayInv
<1>2. setting' = setting /\ OneWay'
  BY SettingKept DEF OneWay
<1>3. ASSUME NEW t \in Node \ {r}, stack[t] # <<>> PROVE t = s
  <2>1. setting.outbox[t] # {}
    BY <1>1, <1>3 DEF Shape
  <2>. QED  BY <1>0, <2>1 DEF OneWay
<1>4. ASSUME Carried' = Carried, Arrivals' = Arrivals PROVE [Channel!Next]_(Channel!vars)
  BY <1>2, <1>4 DEF Channel!vars, Carried, Arrivals
<1>5. ASSUME delivered' = delivered PROVE Arrivals' = Arrivals
  BY <1>2, <1>5 DEF Arrivals
<1>6. ASSUME stack'[s] = stack[s] PROVE Carried' = Carried
  BY <1>2, <1>6 DEF Carried, Running, Idle, Top
<1>7. ASSUME NEW n \in Node, NEW p \in setting.outbox[n], dll_send_packet(n, p)
      PROVE  [Channel!Next]_(Channel!vars)
  <2>1. n = s
    BY <1>0, <1>7 DEF Alone
  <2>2. /\ Idle(s) \/ Running(s, "callback")
        /\ stack' = [stack EXCEPT ![s] = Append(stack[s], NewSend(p))]
        /\ p \in unsent[s] /\ delivered' = delivered
    BY <1>7, <2>1 DEF dll_send_packet, NewSend, history
  <2>3. stack[s] = <<>>
    <3>1. \A a : stack[s] = <<a>> => ~ Idle(s) /\ ~ Running(s, "callback")
      BY <1>0, <1>1, SenderTyped DEF Running
    <3>. QED  BY <1>0, <1>1, <2>2, <3>1 DEF Shape
  <2>4. stack'[s] = <<NewSend(p)>>
    <3>1. Append(<<>>, NewSend(p)) = <<NewSend(p)>>
      OBVIOUS
    <3>2. s \in Node /\ DOMAIN stack = Node
      BY <1>0 DEF Types
    <3>3. stack'[s] = Append(stack[s], NewSend(p))
      BY <2>2, <3>2
    <3>. QED  BY <2>3, <3>1, <3>3
  <2>5. Carried = None
    BY <2>3, CarriedFacts
  <2>6. Carried' = Bytes(p)
    <3>1. ~ Idle(s)' /\ Top(s)' = NewSend(p)
      <4>1. <<NewSend(p)>> # <<>> /\ Len(<<NewSend(p)>>) = 1 /\ <<NewSend(p)>>[1] = NewSend(p)
        OBVIOUS
      <4>. QED  BY <2>4, <4>1 DEF Idle, Top
    <3>2. NewSend(p).kind = "send" /\ NewSend(p).packet = p
      BY DEF NewSend
    <3>. QED  BY <1>2, <3>1, <3>2 DEF Carried, Running
  <2>7. \A i \in DOMAIN Arrivals : Arrivals[i] # Bytes(p)
    <3>1. ASSUME NEW i \in DOMAIN delivered[r], delivered[r][i].data = Bytes(p) PROVE FALSE
      <4>1. PICK q \in setting.outbox[delivered[r][i].from] :
              q \notin unsent[delivered[r][i].from] /\ delivered[r][i].data = Bytes(q)
        BY <1>1 DEF Whole
      <4>2. delivered[r][i].from \in Node
        BY <1>0, DeliveredTyped
      <4>3. delivered[r][i].from = s /\ q = p
        BY <1>7, <2>1, <3>1, <4>1, <4>2, BytesDiffer
      <4>. QED  BY <2>2, <4>1, <4>3
    <3>. QED  BY <3>1 DEF Arrivals
  <2>8. Bytes(p) \in {Bytes(q) : q \in PacketsOf(s)}
    <3>1. p \in PacketsOf(s)
      BY <1>7, <2>1 DEF PacketsOf, Types
    <3>. QED  BY <3>1
  <2>9. Arrivals' = Arrivals
    BY <1>5, <2>2
  <2>10. Channel!Send(Bytes(p))
    BY <1>2, <2>5, <2>6, <2>7, <2>9 DEF Channel!Send, Carried, Arrivals
  <2>. QED  BY <2>8, <2>10 DEF Channel!Next
<1>8. ASSUME NEW n \in Node, Proceed(n) PROVE [Channel!Next]_(Channel!vars)
  <2>1. Running(n, "send")
    BY <1>8 DEF Proceed
  <2>2. n # r /\ stack[n] # <<>>
    <3>1. \A a : stack[r] = <<a>> => (Running(r, "send") <=> a.kind = "send")
      BY ReceiverTyped
    <3>2. ~ Running(r, "send")
      BY <1>1, <3>1, ReceiverTyped DEF Shape
    <3>. QED  BY <2>1, <3>2 DEF Running, Idle
  <2>3. n = s
    BY <1>3, <2>2
  <2>4. PICK a : stack[s] = <<a>>
    BY <1>0, <1>1, <2>2, <2>3 DEF Shape
  <2>5. /\ a \in Sends /\ Top(s) = a /\ Popped(s) = <<>> /\ (\A b : Replaced(s, b) = <<b>>)
        /\ a.kind = "send" /\ a.packet \in setting.outbox[s]
    BY <1>0, <1>1, <2>4, SenderTyped
  <2>6. delivered' = delivered /\ Arrivals' = Arrivals /\ Carried = Bytes(a.packet) /\ HasAck(s)
    <3>1. delivered' = delivered /\ ack[s]
      BY <1>8, <2>3 DEF Proceed
    <3>. QED  BY <1>5, <2>4, <2>5, <3>1, CarriedFacts DEF HasAck
  <2>7. CASE IsLast(a)
    <3>1. stack'[s] = <<>>
      BY <1>8, <2>3, <2>5, <2>7 DEF Proceed, Types
    <3>2. Carried' = None
      BY <3>1 DEF Carried, Running, Idle
    <3>3. JustReceived(r, s, a.packet)
      BY <1>0, <1>1, <2>4, <2>6, <2>7 DEF Acked
    <3>4. Arrivals # <<>> /\ Arrivals[Len(Arrivals)] = Carried
      <4>1. PICK i \in DOMAIN delivered[r] :
              delivered[r][i].data = Bytes(a.packet) /\ i = Len(delivered[r])
        BY <1>0, <3>3 DEF JustReceived
      <4>2. i \in 1 .. Len(delivered[r])
        BY <1>0, DeliveredTyped
      <4>3. Arrivals[i] = delivered[r][i].data
        BY <1>0, <4>2, ArrivalsFacts
      <4>4. /\ Len(delivered[r]) \in Nat /\ Len(Arrivals) = Len(delivered[r])
            /\ Arrivals \in Seq(Seq(BytesSent))
        BY <1>0, ArrivalsFacts
      <4>5. Len(Arrivals) = i /\ i >= 1
        BY <4>1, <4>2, <4>4
      <4>6. Arrivals # <<>>
        BY <4>4, <4>5
      <4>. QED  BY <2>6, <4>1, <4>3, <4>5, <4>6
    <3>5. Carried # None
      <4>1. a.packet \in PacketsOf(s)
        BY <2>5 DEF PacketsOf, Types
      <4>. QED  BY <2>6, <4>1, OneWayAssumption
    <3>6. Channel!Return
      BY <1>2, <2>6, <3>2, <3>4, <3>5 DEF Channel!Return, Channel!Arrived, Carried, Arrivals
    <3>. QED  BY <3>6 DEF Channel!Next
  <2>8. CASE ~ IsLast(a)
    <3>1. stack'[s] = <<NextFrame(a)>>
      BY <1>8, <2>3, <2>5, <2>8 DEF Proceed, Types
    <3>2. NextFrame(a).kind = "send" /\ NextFrame(a).packet = a.packet
      BY <2>5, <2>8, NextFrameTyped
    <3>3. Carried' = Bytes(a.packet)
      <4>1. ~ Idle(s)' /\ Top(s)' = NextFrame(a)
        <5>1. /\ <<NextFrame(a)>> # <<>> /\ Len(<<NextFrame(a)>>) = 1
              /\ <<NextFrame(a)>>[1] = NextFrame(a)
          OBVIOUS
        <5>. QED  BY <3>1, <5>1 DEF Idle, Top
      <4>. QED  BY <1>2, <3>2, <4>1 DEF Carried, Running
    <3>. QED  BY <1>4, <2>6, <3>3
  <2>. QED  BY <2>7, <2>8
<1>9. ASSUME NEW n \in Node, WaitOn(n) \/ ReceiveOther(n) \/ ReceiveAck(n)
      PROVE  [Channel!Next]_(Channel!vars)
  <2>1. delivered' = delivered
    BY <1>9 DEF WaitOn, ReceiveOther, ReceiveAck, history
  <2>2. CASE n # s
    <3>1. stack'[s] = stack[s]
      BY <1>0, <1>9, <2>2 DEF WaitOn, ReceiveOther, ReceiveAck, Types
    <3>. QED  BY <1>4, <1>5, <1>6, <2>1, <3>1
  <2>3. CASE n = s
    <3>1. \/ stack[s] = <<>> /\ stack'[s] = <<>>
          \/ \E a, b : stack[s] = <<a>> /\ stack'[s] = <<b>> /\ Same(a, b)
      BY <1>0, <1>1, <1>9, <2>3, WaitStack
    <3>2. CASE stack[s] = <<>> /\ stack'[s] = <<>>
      BY <1>4, <1>5, <1>6, <2>1, <3>2
    <3>3. ASSUME NEW a, NEW b, stack[s] = <<a>>, stack'[s] = <<b>>, Same(a, b)
          PROVE  Carried' = Carried
      <4>1. Carried = Bytes(a.packet)
        BY <1>0, <1>1, <3>3, SenderTyped, CarriedFacts
      <4>2. b.kind = "send" /\ b.packet = a.packet
        BY <1>0, <1>1, <3>3, SenderTyped, SameFacts
      <4>3. ~ Idle(s)' /\ Top(s)' = b
        <5>1. <<b>> # <<>> /\ Len(<<b>>) = 1 /\ <<b>>[1] = b
          OBVIOUS
        <5>. QED  BY <3>3, <5>1 DEF Idle, Top
      <4>4. Carried' = Bytes(b.packet)
        BY <1>2, <4>2, <4>3 DEF Carried, Running
      <4>. QED  BY <4>1, <4>2, <4>4
    <3>. QED  BY <1>4, <1>5, <2>1, <3>1, <3>2, <3>3
  <2>. QED  BY <2>2, <2>3
<1>10. ASSUME NEW n \in Node, ReceiveData(n) \/ CallbackReturns(n)
       PROVE  [Channel!Next]_(Channel!vars)
  <2>1. n = r
    BY <1>0, <1>10, OnlyReceiver
  <2>2. delivered' = delivered /\ stack'[s] = stack[s]
    BY <1>0, <1>10, <2>1 DEF ReceiveData, CallbackReturns, history, Types
  <2>. QED  BY <1>4, <1>5, <1>6, <2>2
<1>11. ASSUME NEW n \in Node, Acknowledge(n) PROVE [Channel!Next]_(Channel!vars)
  <2>. DEFINE f == Top(r).frame
              data == Given(Copied(r, f, received_packet_length[r]), received_packet_length[r])
              record == [from |-> f.from, data |-> data]
  <2>1. n = r
    BY <1>0, <1>11, OnlyReceiver
  <2>2. /\ stack'[s] = stack[s]
        /\ \/ f.last /\ delivered' = [delivered EXCEPT ![r] = Append(@, record)]
           \/ ~ f.last /\ delivered' = delivered
        /\ Running(r, "reply")
    BY <1>0, <1>11, <2>1 DEF Acknowledge, Types
  <2>3. f.from \in Node \ {r}
    BY <1>0, <1>11, <2>1, Answered
  <2>4. PICK a :
          /\ stack[f.from] = <<a>> /\ a \in Sends /\ a.packet \in setting.outbox[f.from]
          /\ Carries(f, a) /\ ~ Received(r, a.packet)
          /\ IsLast(a) => data = Bytes(a.packet)
    BY <1>0, <1>11, <2>1, Answered
  <2>5. data \in Seq(BytesSent) /\ record.data = data
    BY <1>0, <2>2, ReceivedTyped
  <2>6. record \in [from : Node, data : Seq(BytesSent)]
    BY <2>3, <2>5
  <2>. HIDE DEF f, data, record
  <2>7. f.from = s
    <3>1. stack[f.from] # <<>>
      BY <2>4
    <3>. QED  BY <1>3, <2>3, <3>1
  <2>8. Carried' = Carried /\ Carried = Bytes(a.packet)
    BY <1>0, <1>1, <1>6, <2>2, <2>4, <2>7, SenderTyped, CarriedFacts
  <2>9. CASE ~ f.last
    BY <1>4, <1>5, <2>2, <2>8, <2>9
  <2>10. CASE f.last
    <3>1. record.data = Carried
      BY <2>4, <2>5, <2>8, <2>10 DEF Carries
    <3>2. Arrivals' = Append(Arrivals, Carried)
      <4>. DEFINE S == Seq(BytesSent)
                  D == delivered[r]
      <4>1. delivered \in [Node -> Seq([from : Node, data : S])]
        BY DEF Types
      <4>2. D \in Seq([from : Node, data : S]) /\ delivered'[r] = Append(D, record)
        BY <1>0, <2>2, <2>10, <4>1
      <4>3. record \in [from : Node, data : S]
        BY <2>6
      <4>. HIDE DEF S, D
      <4>4. [i \in DOMAIN Append(D, record) |-> Append(D, record)[i].data]
              = Append([i \in DOMAIN D |-> D[i].data], record.data)
        BY <4>2, <4>3, DataAppended
      <4>. QED  BY <1>2, <3>1, <4>2, <4>4 DEF Arrivals, D
    <3>3. Carried # None
      <4>1. a.packet \in PacketsOf(s)
        BY <2>4, <2>7 DEF PacketsOf, Types
      <4>. QED  BY <2>8, <4>1, OneWayAssumption
    <3>4. ~ (Arrivals # <<>> /\ Arrivals[Len(Arrivals)] = Carried)
      <4>. SUFFICES ASSUME Arrivals # <<>>, Arrivals[Len(Arrivals)] = Carried PROVE FALSE
        OBVIOUS
      <4>. DEFINE L == Len(delivered[r])
      <4>1. L \in Nat /\ Len(Arrivals) = L /\ L > 0
        BY ArrivalsFacts
      <4>2. delivered[r][L].data = Carried
        BY <4>1, ArrivalsFacts
      <4>3. L \in DOMAIN delivered[r]
        BY <1>0, <4>1, DeliveredTyped
      <4>. QED  BY <2>4, <2>8, <4>2, <4>3 DEF Received
    <3>5. Channel!Deliver
      BY <1>2, <2>8, <3>2, <3>3, <3>4 DEF Channel!Deliver, Channel!Arrived, Carried, Arrivals
    <3>. QED  BY <3>5 DEF Channel!Next
  <2>. QED  BY <2>9, <2>10
<1>12. ASSUME UNCHANGED <<stack, delivered>> PROVE [Channel!Next]_(Channel!vars)
  BY <1>4, <1>5, <1>6, <1>12
<1>13. ASSUME NEW n \in Node, NEW p \in setting.outbox[n], SendTooBig(n, p)
       PROVE  [Channel!Next]_(Channel!vars)
  BY <1>12, <1>13 DEF SendTooBig, history
<1>14. ASSUME UNCHANGED vars PROVE [Channel!Next]_(Channel!vars)
  BY <1>12, <1>14 DEF vars, history
<1>. QED
  BY <1>7, <1>8, <1>9, <1>10, <1>11, <1>13, <1>14 DEF Next, Run

\* dll_send_packet() and receive_frame() deliver each packet once, whole and before the call
\* returns, whatever frames and acknowledgements are lost: the safety part of ImplementsChannel.
THEOREM ChannelSafety == Spec => Channel!Init /\ [][Channel!Next]_(Channel!vars)
<1>1. Init => Channel!Init
  <2>. SUFFICES ASSUME Init PROVE Channel!Init
    OBVIOUS
  <2>1. setting.lossy \in BOOLEAN
    BY DllAssumption DEF Init
  <2>2. Carried = None
    BY OneWayAssumption DEF Init, Carried, Running, Idle
  <2>3. Arrivals = <<>>
    <3>1. delivered[Receiver] = <<>>
      BY OneWayAssumption DEF Init
    <3>. QED  BY <3>1 DEF Arrivals
  <2>. QED  BY <2>1, <2>2, <2>3 DEF Channel!Init, Carried, Arrivals
<1>2. Types /\ AckInv /\ Converged /\ [Next]_vars => [Channel!Next]_(Channel!vars)
  <2>. SUFFICES ASSUME Types, AckInv, Converged, [Next]_vars PROVE [Channel!Next]_(Channel!vars)
    OBVIOUS
  <2>1. CASE OneWay
    BY <2>1, ChannelStep
  <2>2. CASE ~ OneWay
    <3>1. setting' = setting
      BY SettingKept
    <3>2. ~ OneWay'
      BY <2>2, SettingKept DEF OneWay
    <3>. QED  BY <2>2, <3>1, <3>2 DEF Channel!vars
  <2>. QED  BY <2>1, <2>2
<1>. QED  BY ConvergedAlways, <1>1, <1>2, PTL DEF Spec

=============================================================================
