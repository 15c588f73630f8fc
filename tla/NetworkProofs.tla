--------------------------- MODULE NetworkProofs ---------------------------
(***************************************************************************)
(* Proofs about the network layer's packets in any network, with any       *)
(* announcements, data, losses and restarts.                               *)
(***************************************************************************)
EXTENDS Network, FiniteSetTheorems, TLAPS

-----------------------------------------------------------------------------
(* The types, with the packets and the sends in progress as sets.          *)

LinkStatePackets ==
  [type : {"link state"}, source : Node, number : 0 .. Modulus - 1, nodes : SUBSET Node,
   boot : Nat, stamp : Nat]

Activation ==
  {Send, [kind |-> "update"]} \cup
  [kind : {"flood"}, packet : LinkStatePackets, length : {PacketLength(p) : p \in LinkStatePackets},
   next : 0 .. MaxAddress, except : Node \cup {None}]

Entries == [ttl : 0 .. LinkStateTTL, number : 0 .. Modulus - 1, boot : Nat, stamp : Nat]

Tables ==
  /\ link_state_packets \in [Node -> [Node -> Entries]]
  /\ neighbour_links \in [Node -> [Node -> 0 .. NeighbourTTL]]
  /\ \A n \in Node : neighbour_links[n][n] = 0

Counters ==
  /\ setting \in Settings
  /\ rounds \in [Node -> Nat]
  /\ sequence_number \in [Node -> 0 .. Modulus - 1]
  /\ boots \in [Node -> [count : {0, 1}, round : Nat]]
  /\ announced \in [Node -> Nat]
  /\ unsent \subseteq setting.data

Stacks == stack \in [Node -> Seq(Activation)] /\ DOMAIN buffer = Node

\* What node n sends: a ping response is its own, and data was not refused.
Accepted(data) == {d \in data : ~ IsRefused(d)}

IsFrom(n, p, data) ==
  \/ p.type = "ping request" \/ (p.type = "ping response" /\ p.source = n)
  \/ p \in LinkStatePackets \/ p \in Accepted(data)

Buffers == \A n \in Node : (Idle(n) /\ buffer[n] = None) \/ IsFrom(n, buffer[n], setting.data)

\* A message on the wire waits for a send that is in progress.
Messages ==
  \A m \in wire : /\ m.from \in Node /\ m.to \in Node /\ m.to # m.from
                  /\ m.level \in DOMAIN stack[m.from] /\ IsFrom(m.from, m.packet, setting.data)

\* A send without an answer is in progress.
Pending ==
  /\ DOMAIN unanswered = Node
  /\ \A n \in Node : unanswered[n] \subseteq DOMAIN stack[n]

Types == Counters /\ Stacks /\ Tables /\ Buffers /\ Messages /\ Pending

-----------------------------------------------------------------------------
(* Facts about the operators.                                              *)

LEMMA ConstantsTyped ==
  /\ MaxAddress \in Nat /\ Node \subseteq 0 .. MaxAddress /\ Node \subseteq Nat /\ IsFiniteSet(Node)
  /\ Modulus \in Nat /\ Modulus > 0
  /\ LinkStateTTL \in Nat /\ LinkStateTTL > 0 /\ NeighbourTTL \in Nat /\ NeighbourTTL > 0
<1>1. /\ MaxAddress \in Nat /\ Node \subseteq 0 .. MaxAddress /\ Modulus \in Nat \ {0}
      /\ LinkStateTTL \in Nat \ {0} /\ NeighbourTTL \in Nat \ {0}
  BY NetworkAssumption
<1>2. IsFiniteSet(0 .. MaxAddress)
  BY <1>1, FS_Interval
<1>3. IsFiniteSet(Node)
  BY <1>1, <1>2, FS_Subset
<1>. QED  BY <1>1, <1>3

LEMMA SettingTyped ==
  ASSUME NEW s \in Settings
  PROVE  /\ \A n \in Node : s.range[n] \subseteq Node \ {n}
         /\ s.number \in 0 .. Modulus - 1 /\ s.rounds \in Nat
         /\ \A d \in s.data : d.type = "data"
         /\ \A n, d \in Node : s.next_hops[n][d] \in Node \cup {None}
<1>1. /\ s.range \in [Node -> SUBSET Node] /\ \A n \in Node : n \notin s.range[n]
      /\ s.number \in 0 .. Modulus - 1 /\ s.rounds \in Nat
      /\ \A d \in s.data : d.type = "data"
      /\ s.next_hops \in [Node -> [Node -> Node \cup {None}]]
  BY NetworkAssumption
<1>. QED  BY <1>1

LEMMA NumbersTyped == \A i \in Int : i % Modulus \in 0 .. Modulus - 1
BY ConstantsTyped

LEMMA SendIsActivation == Send \in Activation /\ [kind |-> "update"] \in Activation
BY DEF Activation

LEMMA FloodIsActivation ==
  ASSUME NEW p \in LinkStatePackets, NEW e \in Node \cup {None}
  PROVE  Flood(p, e) \in Activation
<1>1. PacketLength(p) \in {PacketLength(q) : q \in LinkStatePackets} /\ 0 \in 0 .. MaxAddress
  BY ConstantsTyped
<1>. DEFINE lengths == {PacketLength(q) : q \in LinkStatePackets}
            length == PacketLength(p)
<1>. HIDE DEF lengths, length
<1>2. [kind |-> "flood", packet |-> p, length |-> length, next |-> 0, except |-> e] \in
      [kind : {"flood"}, packet : LinkStatePackets, length : lengths,
       next : 0 .. MaxAddress, except : Node \cup {None}]
  BY <1>1 DEF length, lengths
<1>. QED  BY <1>2 DEF Flood, Activation, length, lengths

LEMMA ActivationTyped ==
  ASSUME NEW a \in Activation
  PROVE  /\ a.kind \in {"send", "update", "flood"}
         /\ a.kind = "flood" => /\ a.packet \in LinkStatePackets /\ a.next \in 0 .. MaxAddress
                                /\ \A b \in 0 .. MaxAddress : [a EXCEPT !.next = b] \in Activation
                                /\ \A b : /\ [a EXCEPT !.next = b].kind = "flood"
                                          /\ [a EXCEPT !.next = b].packet = a.packet
                                          /\ [a EXCEPT !.next = b].next = b
                                          /\ [a EXCEPT !.next = b].length = a.length
<1>. DEFINE lengths == {PacketLength(q) : q \in LinkStatePackets}
            Floods == [kind : {"flood"}, packet : LinkStatePackets, length : lengths,
                       next : 0 .. MaxAddress, except : Node \cup {None}]
<1>. HIDE DEF lengths
<1>1. CASE a \in {Send, [kind |-> "update"]}
  BY <1>1 DEF Send
<1>2. CASE a \in Floods
  <2>1. /\ a.kind = "flood" /\ a.packet \in LinkStatePackets /\ a.next \in 0 .. MaxAddress
    BY <1>2
  <2>2. ASSUME NEW b PROVE /\ [a EXCEPT !.next = b].kind = "flood"
                           /\ [a EXCEPT !.next = b].packet = a.packet
                           /\ [a EXCEPT !.next = b].next = b
                           /\ [a EXCEPT !.next = b].length = a.length
    BY <1>2
  <2>3. ASSUME NEW b \in 0 .. MaxAddress PROVE [a EXCEPT !.next = b] \in Floods
    BY <1>2
  <2>4. \A b \in 0 .. MaxAddress : [a EXCEPT !.next = b] \in Activation
    BY <2>3 DEF Activation, lengths
  <2>. QED  BY <2>1, <2>2, <2>4
<1>. QED  BY <1>1, <1>2 DEF Activation, lengths

LEMMA LinkStatePacketTyped ==
  ASSUME NEW p \in LinkStatePackets
  PROVE  /\ p.type = "link state" /\ p.source \in Node /\ p.number \in 0 .. Modulus - 1
         /\ p.nodes \subseteq Node /\ p.boot \in Nat /\ p.stamp \in Nat
BY DEF LinkStatePackets

LEMMA EntryTyped ==
  ASSUME NEW e \in Entries
  PROVE  /\ e.ttl \in 0 .. LinkStateTTL /\ e.number \in 0 .. Modulus - 1
         /\ e.boot \in Nat /\ e.stamp \in Nat
BY DEF Entries

LEMMA CountDownTyped ==
  ASSUME NEW bound \in Nat, NEW ttl \in 0 .. bound
  PROVE  CountDown(ttl) \in 0 .. bound /\ CountDown(ttl) <= ttl
BY DEF CountDown

\* A sequence without its last element, and with another in its place.
LEMMA LastReplaced ==
  ASSUME NEW A, NEW s \in Seq(A), s # <<>>, NEW a \in A
  PROVE  LET front == SubSeq(s, 1, Len(s) - 1)
         IN  /\ Len(s) \in Nat /\ Len(s) > 0 /\ s[Len(s)] \in A
             /\ front \in Seq(A) /\ Len(front) = Len(s) - 1
             /\ \A i \in 1 .. Len(s) - 1 : front[i] = s[i]
             /\ Append(front, a) \in Seq(A) /\ Len(Append(front, a)) = Len(s)
             /\ \A i \in 1 .. Len(s) - 1 : Append(front, a)[i] = s[i]
             /\ Append(front, a)[Len(s)] = a
<1>1. Len(s) \in Nat /\ Len(s) > 0 /\ s[Len(s)] \in A
  OBVIOUS
<1>. DEFINE front == SubSeq(s, 1, Len(s) - 1)
<1>2. front \in Seq(A) /\ Len(front) = Len(s) - 1 /\ \A i \in 1 .. Len(s) - 1 : front[i] = s[i]
  <2>. DEFINE m == Len(s) - 1
  <2>1. m \in Nat /\ m <= Len(s) /\ \A i \in 1 .. m : i \in 1 .. Len(s) /\ s[i] \in A
    BY <1>1
  <2>. HIDE DEF m
  <2>2. SubSeq(s, 1, m) = [i \in 1 .. m |-> s[i]]
    BY <1>1, <2>1
  <2>3. [i \in 1 .. m |-> s[i]] \in Seq(A) /\ Len([i \in 1 .. m |-> s[i]]) = m
    BY <2>1
  <2>. QED  BY <2>2, <2>3 DEF m
<1>. HIDE DEF front
<1>3. /\ Append(front, a) \in Seq(A) /\ Len(Append(front, a)) = Len(s)
      /\ \A i \in 1 .. Len(s) - 1 : Append(front, a)[i] = s[i]
      /\ Append(front, a)[Len(s)] = a
  BY <1>1, <1>2
<1>. QED  BY <1>1, <1>2, <1>3 DEF front

LEMMA Appended ==
  ASSUME NEW A, NEW s \in Seq(A), NEW a \in A
  PROVE  /\ Append(s, a) \in Seq(A) /\ Len(Append(s, a)) = Len(s) + 1 /\ Len(s) \in Nat
         /\ \A i \in 1 .. Len(s) : Append(s, a)[i] = s[i]
         /\ Append(s, a)[Len(s) + 1] = a
  OBVIOUS

-----------------------------------------------------------------------------
(* What a step does.                                                       *)

\* A packet or its acknowledgement is lost, or it is ignored, or nothing happens.
Forgets ==
  /\ UNCHANGED <<setting, rounds, stack, buffer, statics, unsent, history>> /\ wire' \subseteq wire
  /\ \/ unanswered' = unanswered
     \/ \E m \in wire : unanswered' = [unanswered EXCEPT ![m.from] = @ \cup {m.level}]

Handles(n) ==
  \E m \in wire : \/ AcceptLinkState(n, m) \/ AnswerPing(n, m) \/ net_notify_ping_response(n, m)
                  \/ ForwardData(n, m) \/ DeliverData(n, m)

Acts(n) == GoOn(n) \/ Handles(n) \/ Begin(n) \/ Restart(n)

LEMMA Steps == ASSUME [Next]_vars PROVE Forgets \/ \E n \in Node : Acts(n)
<1>1. CASE UNCHANGED vars
  BY <1>1 DEF vars, Forgets, statics, history
<1>2. ASSUME NEW m \in wire, Lose(m) PROVE Forgets
  BY <1>2 DEF Lose, Forgets
<1>3. ASSUME NEW n \in Node, Receive(n) PROVE Forgets \/ Acts(n)
  <2>1. PICK m \in wire : net_handle_received_packet(n, m)
    BY <1>3 DEF Receive
  <2>2. CASE Ignore(n, m)
    BY <2>2 DEF Ignore, Forgets
  <2>. QED  BY <2>1, <2>2 DEF net_handle_received_packet, Acts, Handles
<1>. QED  BY <1>1, <1>2, <1>3 DEF Next, Acts

\* The stack of n after a step of it: the same, with an activation more, another or less, or empty.
Same(n) == stack'[n] = stack[n]

Pushes(n, activation) ==
  /\ Len(stack'[n]) = Len(stack[n]) + 1 /\ stack'[n][Len(stack[n]) + 1] = activation
  /\ \A i \in 1 .. Len(stack[n]) : stack'[n][i] = stack[n][i]

Replaces(n, activation) ==
  /\ stack[n] # <<>> /\ ~ Waiting(n)
  /\ Len(stack'[n]) = Len(stack[n]) /\ stack'[n][Len(stack[n])] = activation
  /\ \A i \in 1 .. Len(stack[n]) - 1 : stack'[n][i] = stack[n][i]

Pops(n) ==
  /\ stack[n] # <<>> /\ ~ Waiting(n)
  /\ Len(stack'[n]) = Len(stack[n]) - 1
  /\ \A i \in 1 .. Len(stack[n]) - 1 : stack'[n][i] = stack[n][i]

Clears(n) == stack'[n] = <<>>

Others(n) == \A k \in Node \ {n} : stack'[k] = stack[k] /\ buffer'[k] = buffer[k]

\* What is on the wire after a step of n: messages of before, and its buffer.
Wired(n) ==
  \A m \in wire' :
    \/ m \in wire
    \/ /\ m.from = n /\ m.to \in Node \ {n} /\ m.level = Len(stack'[n]) /\ m.level > 0
       /\ m.packet = buffer'[n]

\* The sends without an answer after a step of n: perhaps the running one is another.
Answers(n) ==
  \/ unanswered' = unanswered
  \/ /\ Len(stack'[n]) > 0
     /\ unanswered' = [unanswered EXCEPT ![n] = @ \cup {Len(stack'[n])}]

LEMMA StacksTyped ==
  ASSUME Stacks, NEW n \in Node
  PROVE  /\ stack[n] \in Seq(Activation) /\ Len(stack[n]) \in Nat /\ DOMAIN stack = Node
         /\ DOMAIN stack[n] = 1 .. Len(stack[n])
         /\ ~ Idle(n) => Len(stack[n]) > 0 /\ Top(n) \in Activation
         /\ Idle(n) <=> Len(stack[n]) = 0
<1>1. stack[n] \in Seq(Activation) /\ DOMAIN stack = Node
  BY DEF Stacks
<1>2. \A s \in Seq(Activation) : /\ Len(s) \in Nat /\ DOMAIN s = 1 .. Len(s)
                                 /\ s # <<>> => Len(s) > 0 /\ s[Len(s)] \in Activation
                                 /\ (s = <<>>) <=> (Len(s) = 0)
  OBVIOUS
<1>. QED  BY <1>1, <1>2 DEF Idle, Top

LEMMA StackChanges ==
  ASSUME Stacks, NEW n \in Node, NEW s \in Seq(Activation), stack' = [stack EXCEPT ![n] = s]
  PROVE  /\ stack' \in [Node -> Seq(Activation)] /\ stack'[n] = s
         /\ \A k \in Node \ {n} : stack'[k] = stack[k]
<1>1. stack \in [Node -> Seq(Activation)]
  BY DEF Stacks
<1>. DEFINE S == Seq(Activation)
<1>. HIDE DEF S
<1>2. stack \in [Node -> S] /\ s \in S
  BY <1>1 DEF S
<1>3. stack' \in [Node -> S]
  BY <1>2
<1>. QED  BY <1>2, <1>3 DEF S

LEMMA PushTyped ==
  ASSUME Stacks, NEW n \in Node, NEW act \in Activation,
         stack' = [stack EXCEPT ![n] = Append(@, act)]
  PROVE  /\ stack' \in [Node -> Seq(Activation)] /\ Pushes(n, act)
         /\ \A k \in Node \ {n} : stack'[k] = stack[k]
<1>1. stack[n] \in Seq(Activation) /\ DOMAIN stack = Node
  BY StacksTyped
<1>2. Append(stack[n], act) \in Seq(Activation)
  BY <1>1, Appended
<1>3. stack' = [stack EXCEPT ![n] = Append(stack[n], act)]
  BY <1>1
<1>4. /\ stack' \in [Node -> Seq(Activation)] /\ stack'[n] = Append(stack[n], act)
      /\ \A k \in Node \ {n} : stack'[k] = stack[k]
  BY <1>2, <1>3, StackChanges
<1>. QED  BY <1>1, <1>4, Appended DEF Pushes

LEMMA ReplaceTyped ==
  ASSUME Stacks, NEW n \in Node, ~ Idle(n), ~ Waiting(n), NEW act \in Activation,
         stack' = [stack EXCEPT ![n] = Append(Popped(n), act)]
  PROVE  /\ stack' \in [Node -> Seq(Activation)] /\ Replaces(n, act)
         /\ \A k \in Node \ {n} : stack'[k] = stack[k]
<1>1. stack[n] \in Seq(Activation) /\ stack[n] # <<>>
  BY StacksTyped DEF Idle
<1>2. Append(Popped(n), act) \in Seq(Activation)
  BY <1>1, LastReplaced DEF Popped
<1>3. /\ stack' \in [Node -> Seq(Activation)] /\ stack'[n] = Append(Popped(n), act)
      /\ \A k \in Node \ {n} : stack'[k] = stack[k]
  BY <1>2, StackChanges
<1>4. Replaces(n, act)
  BY <1>1, <1>3, LastReplaced DEF Replaces, Popped
<1>. QED  BY <1>3, <1>4

LEMMA PopTyped ==
  ASSUME Stacks, NEW n \in Node, ~ Idle(n), ~ Waiting(n), stack' = [stack EXCEPT ![n] = Popped(n)]
  PROVE  /\ stack' \in [Node -> Seq(Activation)] /\ Pops(n)
         /\ \A k \in Node \ {n} : stack'[k] = stack[k]
<1>1. stack[n] \in Seq(Activation) /\ stack[n] # <<>>
  BY StacksTyped DEF Idle
<1>2. /\ Popped(n) \in Seq(Activation) /\ Len(Popped(n)) = Len(stack[n]) - 1
      /\ \A i \in 1 .. Len(stack[n]) - 1 : Popped(n)[i] = stack[n][i]
  BY <1>1, SendIsActivation, LastReplaced DEF Popped
<1>3. /\ stack' \in [Node -> Seq(Activation)] /\ stack'[n] = Popped(n)
      /\ \A k \in Node \ {n} : stack'[k] = stack[k]
  BY <1>2, StackChanges
<1>. QED  BY <1>1, <1>2, <1>3 DEF Pops

LEMMA BufferChanges ==
  ASSUME Stacks, NEW n \in Node, NEW p, buffer' = [buffer EXCEPT ![n] = p]
  PROVE  /\ DOMAIN buffer' = Node /\ buffer'[n] = p
         /\ \A k \in Node \ {n} : buffer'[k] = buffer[k]
BY DEF Stacks

LEMMA RangeTyped ==
  ASSUME Counters, NEW n \in Node PROVE setting.range[n] \subseteq Node \ {n}
BY SettingTyped DEF Counters

LEMMA SendToEffect ==
  ASSUME Types, NEW n \in Node, NEW nodes, NEW p, NEW on_wire \in SUBSET wire,
         NEW act \in Activation, SendTo(n, nodes, p, on_wire, act)
  PROVE  /\ stack' \in [Node -> Seq(Activation)] /\ DOMAIN buffer' = Node
         /\ Others(n) /\ Pushes(n, act) /\ Wired(n) /\ buffer'[n] = p
<1>1. /\ stack' \in [Node -> Seq(Activation)] /\ Pushes(n, act)
      /\ \A k \in Node \ {n} : stack'[k] = stack[k]
  BY PushTyped DEF Types, SendTo
<1>2. /\ DOMAIN buffer' = Node /\ buffer'[n] = p
      /\ \A k \in Node \ {n} : buffer'[k] = buffer[k]
  BY BufferChanges DEF Types, SendTo
<1>3. Wired(n)
  <2>. SUFFICES ASSUME NEW m \in wire', m \notin wire
                PROVE  /\ m.from = n /\ m.to \in Node \ {n} /\ m.level = Len(stack'[n])
                       /\ m.level > 0 /\ m.packet = buffer'[n]
    BY DEF Wired
  <2>1. PICK to \in nodes \cap setting.range[n] :
          m = Message(n, Len(stack[n]) + 1, to, p, PacketLength(p))
    BY DEF SendTo
  <2>2. to \in Node \ {n}
    BY RangeTyped DEF Types
  <2>3. /\ m.from = n /\ m.to = to /\ m.level = Len(stack[n]) + 1 /\ m.packet = p
    BY <2>1 DEF Message
  <2>4. Len(stack[n]) \in Nat
    BY StacksTyped DEF Types
  <2>. QED  BY <1>1, <1>2, <2>2, <2>3, <2>4 DEF Pushes
<1>. QED  BY <1>1, <1>2, <1>3 DEF Others

LEMMA IsLinkStatePacket ==
  ASSUME NEW a \in Node, NEW number \in 0 .. Modulus - 1, NEW nodes \in SUBSET Node,
         NEW boot \in Nat, NEW stamp \in Nat
  PROVE  LET p == [type |-> "link state", source |-> a, number |-> number, nodes |-> nodes,
                   boot |-> boot, stamp |-> stamp]
         IN  /\ p \in LinkStatePackets /\ p.source = a /\ p.number = number /\ p.nodes = nodes
             /\ p.boot = boot /\ p.stamp = stamp
BY DEF LinkStatePackets

LEMMA LinkStateTyped ==
  ASSUME Types, NEW n \in Node
  PROVE  /\ LinkState(n) \in LinkStatePackets /\ n \notin LinkState(n).nodes
         /\ LinkState(n).source = n /\ LinkState(n).number = NextNumber(n)
         /\ LinkState(n).boot = boots[n].count /\ LinkState(n).stamp = announced[n] + 1
<1>1. /\ sequence_number[n] \in 0 .. Modulus - 1 /\ boots[n].count \in Nat /\ announced[n] \in Nat
  BY DEF Types, Counters
<1>2. NextNumber(n) \in 0 .. Modulus - 1
  BY <1>1, NumbersTyped, ConstantsTyped DEF NextNumber
<1>3. announced[n] + 1 \in Nat
  BY <1>1
<1>4. neighbour_links[n][n] = 0
  BY DEF Types, Tables
<1>. DEFINE nodes == {a \in Node : neighbour_links[n][a] > 0}
            number == NextNumber(n)
            boot == boots[n].count
            stamp == announced[n] + 1
<1>5. nodes \in SUBSET Node /\ n \notin nodes
  BY <1>4
<1>. HIDE DEF nodes, number, boot, stamp
<1>6. LinkState(n) = [type |-> "link state", source |-> n, number |-> number, nodes |-> nodes,
                      boot |-> boot, stamp |-> stamp]
  BY DEF LinkState, nodes, number, boot, stamp
<1>7. number \in 0 .. Modulus - 1 /\ boot \in Nat /\ stamp \in Nat
  BY <1>1, <1>2, <1>3 DEF number, boot, stamp
<1>. DEFINE p == [type |-> "link state", source |-> n, number |-> number, nodes |-> nodes,
                  boot |-> boot, stamp |-> stamp]
<1>8. /\ p \in LinkStatePackets /\ p.source = n /\ p.number = number /\ p.nodes = nodes
      /\ p.boot = boot /\ p.stamp = stamp
  BY <1>5, <1>7, IsLinkStatePacket
<1>. HIDE DEF p
<1>9. LinkState(n) = p
  BY <1>6 DEF p
<1>. QED  BY <1>5, <1>8, <1>9 DEF number, boot, stamp

LEMMA MessageTyped ==
  ASSUME Types, NEW m \in wire
  PROVE  /\ m.from \in Node /\ m.to \in Node /\ m.to # m.from
         /\ m.level \in 1 .. Len(stack[m.from]) /\ Len(stack[m.from]) \in Nat
         /\ IsFrom(m.from, m.packet, setting.data)
         /\ m.packet.type = "link state" => m.packet \in LinkStatePackets
         /\ m.packet.type = "ping response" => m.packet.source = m.from
         /\ m.packet.type = "data" => m.packet \in setting.data /\ ~ IsRefused(m.packet)
<1>1. /\ m.from \in Node /\ m.to \in Node /\ m.to # m.from /\ m.level \in DOMAIN stack[m.from]
      /\ IsFrom(m.from, m.packet, setting.data)
  BY DEF Types, Messages
<1>2. m.level \in 1 .. Len(stack[m.from]) /\ Len(stack[m.from]) \in Nat
  BY <1>1, StacksTyped DEF Types
<1>3. \A d \in setting.data : d.type = "data"
  BY SettingTyped DEF Types, Counters
<1>4. \A p \in LinkStatePackets : p.type = "link state"
  BY LinkStatePacketTyped
<1>. QED  BY <1>1, <1>2, <1>3, <1>4 DEF IsFrom, Accepted

\* The effect of n on the stacks, the buffers and the wire: an activation that is pushed or put
\* in place of another, if any, and what is in the buffer then.
Sends(n, activation, packet) ==
  /\ stack' \in [Node -> Seq(Activation)] /\ DOMAIN buffer' = Node
  /\ Others(n) /\ Wired(n) /\ buffer'[n] = packet /\ setting' = setting
  /\ Same(n) \/ Pushes(n, activation) \/ Replaces(n, activation) \/ Pops(n)

LEMMA SendToNextEffect ==
  ASSUME Types, NEW n \in Node, SendToNext(n)
  PROVE  /\ UNCHANGED <<rounds, buffer, statics, unsent, history>>
         /\ \E act \in Activation :
              /\ Sends(n, act, buffer[n]) /\ Replaces(n, act)
              /\ Top(n).kind = "flood" /\ act.kind = "flood" /\ act.packet = Top(n).packet
<1>1. ~ Idle(n) /\ ~ Waiting(n) /\ Top(n).kind = "flood"
  BY DEF SendToNext
<1>2. PICK a \in StillToCome(n) :
       /\ stack' = [stack EXCEPT ![n] = Append(Popped(n), [Top(n) EXCEPT !.next = a + 1])]
       /\ wire' = wire \cup {Message(n, Len(stack[n]), b, buffer[n], Top(n).length) :
                                b \in {a} \cap setting.range[n]}
  BY DEF SendToNext
<1>. DEFINE act == [Top(n) EXCEPT !.next = a + 1]
<1>3. a + 1 \in 0 .. MaxAddress
  BY ConstantsTyped DEF StillToCome, Neighbours
<1>4. act \in Activation /\ act.kind = "flood" /\ act.packet = Top(n).packet
  BY <1>1, <1>3, StacksTyped, ActivationTyped DEF Types
<1>. HIDE DEF act
<1>5. /\ stack' \in [Node -> Seq(Activation)] /\ Replaces(n, act)
      /\ \A k \in Node \ {n} : stack'[k] = stack[k]
  BY <1>1, <1>2, <1>4, ReplaceTyped DEF Types, act
<1>6. UNCHANGED <<setting, rounds, buffer, statics, unsent, history>>
  BY DEF SendToNext
<1>7. Wired(n)
  <2>. SUFFICES ASSUME NEW m \in wire', m \notin wire
                PROVE  /\ m.from = n /\ m.to \in Node \ {n} /\ m.level = Len(stack'[n])
                       /\ m.level > 0 /\ m.packet = buffer'[n]
    BY DEF Wired
  <2>1. PICK b \in {a} \cap setting.range[n] :
          m = Message(n, Len(stack[n]), b, buffer[n], Top(n).length)
    BY <1>2
  <2>2. b \in Node \ {n}
    BY RangeTyped DEF Types
  <2>3. m.from = n /\ m.to = b /\ m.level = Len(stack[n]) /\ m.packet = buffer[n]
    BY <2>1 DEF Message
  <2>4. Len(stack[n]) > 0
    BY <1>1, StacksTyped DEF Types
  <2>. QED  BY <1>5, <1>6, <2>2, <2>3, <2>4 DEF Replaces
<1>8. Sends(n, act, buffer[n])
  BY <1>5, <1>6, <1>7 DEF Sends, Others, Types, Stacks
<1>. QED  BY <1>1, <1>4, <1>5, <1>6, <1>8

LEMMA ReturnEffect ==
  ASSUME Types, NEW n \in Node, Return(n)
  PROVE  /\ UNCHANGED <<rounds, buffer, wire, statics, unsent, history>>
         /\ Sends(n, Send, buffer[n]) /\ Pops(n)
<1>1. /\ stack' \in [Node -> Seq(Activation)] /\ Pops(n)
      /\ \A k \in Node \ {n} : stack'[k] = stack[k]
  BY PopTyped DEF Types, Return
<1>2. UNCHANGED <<setting, rounds, buffer, wire, statics, unsent, history>>
  BY DEF Return
<1>. QED  BY <1>1, <1>2 DEF Sends, Others, Types, Stacks, Wired

LEMMA AnnounceEffect ==
  ASSUME Types, NEW n \in Node, net_send_link_state_packet(n)
  PROVE  /\ UNCHANGED <<rounds, wire, link_state_packets, neighbour_links, unsent, boots, delivered>>
         /\ Sends(n, Flood(LinkState(n), None), LinkState(n))
         /\ IF n \in setting.announcers THEN Replaces(n, Flood(LinkState(n), None)) ELSE Pops(n)
         /\ Top(n).kind = "update" /\ ~ Idle(n)
         /\ Flood(LinkState(n), None) \in Activation
<1>1. UNCHANGED <<setting, rounds, wire, link_state_packets, neighbour_links, unsent, boots, delivered>>
  BY DEF net_send_link_state_packet
<1>2. Flood(LinkState(n), None) \in Activation
  BY LinkStateTyped, FloodIsActivation
<1>3. DOMAIN buffer' = Node /\ buffer'[n] = LinkState(n) /\ \A k \in Node \ {n} : buffer'[k] = buffer[k]
  BY BufferChanges DEF Types, net_send_link_state_packet
<1>4. CASE n \in setting.announcers
  <2>1. stack' = [stack EXCEPT ![n] = Append(Popped(n), Flood(LinkState(n), None))]
    BY <1>4 DEF net_send_link_state_packet
  <2>2. /\ stack' \in [Node -> Seq(Activation)] /\ Replaces(n, Flood(LinkState(n), None))
        /\ \A k \in Node \ {n} : stack'[k] = stack[k]
    BY <1>2, <2>1, ReplaceTyped DEF Types, net_send_link_state_packet
  <2>. QED  BY <1>1, <1>2, <1>3, <1>4, <2>2 DEF Sends, Others, Wired, net_send_link_state_packet
<1>5. CASE n \notin setting.announcers
  <2>1. stack' = [stack EXCEPT ![n] = Popped(n)]
    BY <1>5 DEF net_send_link_state_packet
  <2>2. /\ stack' \in [Node -> Seq(Activation)] /\ Pops(n)
        /\ \A k \in Node \ {n} : stack'[k] = stack[k]
    BY <2>1, PopTyped DEF Types, net_send_link_state_packet
  <2>. QED  BY <1>1, <1>2, <1>3, <1>5, <2>2 DEF Sends, Others, Wired, net_send_link_state_packet
<1>. QED  BY <1>4, <1>5

LEMMA UpdateEffect ==
  ASSUME Types, NEW n \in Node, net_update(n)
  PROVE  /\ UNCHANGED <<sequence_number, unsent, history>>
         /\ Sends(n, [kind |-> "update"], [type |-> "ping request"])
         /\ Pushes(n, [kind |-> "update"]) /\ Idle(n)
<1>. DEFINE nodes == IF setting.pings THEN setting.range[n] ELSE {}
            act == [kind |-> "update"]
            p == [type |-> "ping request"]
<1>. HIDE DEF nodes
<1>1. SendTo(n, nodes, p, wire, act) /\ act \in Activation /\ wire \in SUBSET wire
  BY SendIsActivation DEF net_update, nodes
<1>. HIDE DEF act, p
<1>2. /\ stack' \in [Node -> Seq(Activation)] /\ DOMAIN buffer' = Node
      /\ Others(n) /\ Pushes(n, act) /\ Wired(n) /\ buffer'[n] = p
  BY <1>1, SendToEffect
<1>3. setting' = setting /\ UNCHANGED <<sequence_number, unsent, history>> /\ Idle(n)
  BY DEF net_update
<1>. QED  BY <1>2, <1>3 DEF Sends, act, p

LEMMA DataEffect ==
  ASSUME Types, NEW n \in Node, net_send_data_packet(n)
  PROVE  /\ UNCHANGED <<rounds, statics, history>> /\ unsent' \subseteq unsent /\ Idle(n)
         /\ \/ UNCHANGED <<setting, stack, buffer, wire>>
            \/ \E d \in Accepted(setting.data) : Sends(n, Send, d) /\ Pushes(n, Send)
<1>1. PICK d \in unsent :
        /\ Idle(n) /\ unsent' = unsent \ {d}
        /\ IF IsRefused(d) \/ net_get_next_hop(n, d.to) = None
           THEN UNCHANGED <<stack, buffer, wire, unanswered>>
           ELSE SendTo(n, {net_get_next_hop(n, d.to)}, d, wire, Send)
        /\ UNCHANGED <<setting, rounds, statics, history>>
  BY DEF net_send_data_packet
<1>. DEFINE hop == net_get_next_hop(n, d.to)
            goes == ~ (IsRefused(d) \/ hop = None)
<1>. HIDE DEF hop, goes
<1>2. CASE ~ goes
  BY <1>1, <1>2 DEF hop, goes
<1>3. CASE goes
  <2>1. SendTo(n, {hop}, d, wire, Send) /\ wire \in SUBSET wire /\ d \in Accepted(setting.data)
    BY <1>1, <1>3 DEF hop, goes, Types, Counters, Accepted
  <2>2. /\ stack' \in [Node -> Seq(Activation)] /\ DOMAIN buffer' = Node
        /\ Others(n) /\ Pushes(n, Send) /\ Wired(n) /\ buffer'[n] = d
    BY <2>1, SendIsActivation, SendToEffect
  <2>. QED  BY <1>1, <2>1, <2>2 DEF Sends
<1>. QED  BY <1>2, <1>3

LEMMA AcceptEffect ==
  ASSUME Types, NEW n \in Node, NEW m \in wire, AcceptLinkState(n, m)
  PROVE  /\ UNCHANGED <<rounds, sequence_number, neighbour_links, unsent, history>>
         /\ m.packet \in LinkStatePackets /\ m.to = n /\ wire' = wire \ {m}
         /\ Flood(m.packet, m.from) \in Activation
         /\ Sends(n, Flood(m.packet, m.from), m.packet) /\ Pushes(n, Flood(m.packet, m.from))
<1>1. m.packet \in LinkStatePackets /\ m.from \in Node
  BY MessageTyped DEF AcceptLinkState
<1>2. Flood(m.packet, m.from) \in Activation
  BY <1>1, FloodIsActivation
<1>3. /\ stack' \in [Node -> Seq(Activation)] /\ Pushes(n, Flood(m.packet, m.from))
      /\ \A k \in Node \ {n} : stack'[k] = stack[k]
  BY <1>2, PushTyped DEF Types, AcceptLinkState
<1>4. /\ DOMAIN buffer' = Node /\ buffer'[n] = m.packet
      /\ \A k \in Node \ {n} : buffer'[k] = buffer[k]
  BY BufferChanges DEF Types, AcceptLinkState
<1>5. /\ UNCHANGED <<setting, rounds, sequence_number, neighbour_links, unsent, history>>
      /\ wire' = wire \ {m} /\ m.to = n
  BY DEF AcceptLinkState, Takes
<1>. QED  BY <1>1, <1>2, <1>3, <1>4, <1>5 DEF Sends, Others, Wired

LEMMA AnswerEffect ==
  ASSUME Types, NEW n \in Node, NEW m \in wire, AnswerPing(n, m)
  PROVE  /\ UNCHANGED <<rounds, statics, unsent, history>>
         /\ Sends(n, Send, [type |-> "ping response", source |-> n]) /\ Pushes(n, Send)
<1>. DEFINE p == [type |-> "ping response", source |-> n]
            kept == wire \ {m}
            nodes == {m.from}
<1>1. SendTo(n, nodes, p, kept, Send) /\ kept \in SUBSET wire
  BY DEF AnswerPing
<1>. HIDE DEF p, kept, nodes
<1>2. /\ stack' \in [Node -> Seq(Activation)] /\ DOMAIN buffer' = Node
      /\ Others(n) /\ Pushes(n, Send) /\ Wired(n) /\ buffer'[n] = p
  BY <1>1, SendIsActivation, SendToEffect
<1>3. UNCHANGED <<setting, rounds, statics, unsent, history>>
  BY DEF AnswerPing
<1>. QED  BY <1>2, <1>3 DEF Sends, p

LEMMA ForwardEffect ==
  ASSUME Types, NEW n \in Node, NEW m \in wire, ForwardData(n, m)
  PROVE  /\ UNCHANGED <<rounds, statics, unsent, history>> /\ m.packet \in Accepted(setting.data)
         /\ Sends(n, Send, m.packet) /\ Pushes(n, Send)
<1>. DEFINE kept == wire \ {m}
            nodes == {net_get_next_hop(n, m.packet.to)}
<1>1. SendTo(n, nodes, m.packet, kept, Send) /\ kept \in SUBSET wire
  BY DEF ForwardData
<1>. HIDE DEF kept, nodes
<1>2. /\ stack' \in [Node -> Seq(Activation)] /\ DOMAIN buffer' = Node
      /\ Others(n) /\ Pushes(n, Send) /\ Wired(n) /\ buffer'[n] = m.packet
  BY <1>1, SendIsActivation, SendToEffect
<1>3. UNCHANGED <<setting, rounds, statics, unsent, history>> /\ m.packet \in Accepted(setting.data)
  BY MessageTyped DEF ForwardData, Accepted
<1>. QED  BY <1>2, <1>3 DEF Sends

LEMMA RestartEffect ==
  ASSUME Types, NEW n \in Node, Restart(n)
  PROVE  /\ stack' \in [Node -> Seq(Activation)] /\ DOMAIN buffer' = Node
         /\ Others(n) /\ stack'[n] = <<>> /\ buffer'[n] = None
         /\ wire' \subseteq {m \in wire : m.from # n}
         /\ UNCHANGED <<setting, rounds, unsent, delivered>>
         /\ n \in setting.restarting
<1>1. <<>> \in Seq(Activation) /\ stack' = [stack EXCEPT ![n] = <<>>]
  BY DEF Restart
<1>2. stack' \in [Node -> Seq(Activation)] /\ stack'[n] = <<>> /\ \A k \in Node \ {n} : stack'[k] = stack[k]
  BY <1>1, StackChanges DEF Types
<1>3. DOMAIN buffer' = Node /\ buffer'[n] = None /\ \A k \in Node \ {n} : buffer'[k] = buffer[k]
  BY BufferChanges DEF Types, Restart
<1>. QED  BY <1>2, <1>3 DEF Others, Restart

-----------------------------------------------------------------------------
(* The types are kept.                                                     *)

LEMMA SendsTyped ==
  ASSUME Types, NEW n \in Node, NEW act \in Activation, NEW p, Sends(n, act, p),
         IsFrom(n, p, setting.data)
  PROVE  Stacks' /\ Buffers' /\ Messages'
<1>1. /\ stack' \in [Node -> Seq(Activation)] /\ DOMAIN buffer' = Node
      /\ Others(n) /\ Wired(n) /\ buffer'[n] = p /\ setting' = setting
      /\ Same(n) \/ Pushes(n, act) \/ Replaces(n, act) \/ Pops(n)
  BY DEF Sends
<1>2. Stacks'
  BY <1>1 DEF Stacks
<1>3. Buffers'
  <2>1. \A k \in Node \ {n} : stack'[k] = stack[k] /\ buffer'[k] = buffer[k]
    BY <1>1 DEF Others
  <2>. QED  BY <1>1, <2>1 DEF Buffers, Idle, Types
<1>4. /\ DOMAIN stack'[n] = 1 .. Len(stack'[n]) /\ Len(stack'[n]) \in Nat /\ Len(stack[n]) \in Nat
      /\ DOMAIN stack[n] = 1 .. Len(stack[n])
  <2>1. stack'[n] \in Seq(Activation)
    BY <1>1
  <2>. QED  BY <2>1, StacksTyped DEF Types
<1>5. ASSUME NEW m \in wire, m \in wire'
      PROVE  m.level \in DOMAIN stack'[m.from]
  <2>1. m.from \in Node /\ m.level \in DOMAIN stack[m.from]
    BY DEF Types, Messages
  <2>2. CASE m.from # n
    BY <1>1, <2>1, <2>2 DEF Others
  <2>3. CASE m.from = n
    <3>1. ~ Waiting(n) => m.level # Len(stack[n])
      BY <2>3 DEF Waiting
    <3>2. m.level \in 1 .. Len(stack[n])
      BY <1>4, <2>1, <2>3
    <3>3. Len(stack'[n]) >= m.level
      <4>1. CASE Same(n)
        BY <1>4, <3>2, <4>1 DEF Same
      <4>2. CASE Pushes(n, act)
        BY <1>4, <3>2, <4>2 DEF Pushes
      <4>3. CASE Replaces(n, act)
        BY <1>4, <3>2, <4>3 DEF Replaces
      <4>4. CASE Pops(n)
        BY <1>4, <3>1, <3>2, <4>4 DEF Pops
      <4>. QED  BY <1>1, <4>1, <4>2, <4>3, <4>4
    <3>. QED  BY <1>4, <2>3, <3>2, <3>3
  <2>. QED  BY <2>2, <2>3
<1>6. ASSUME NEW m \in wire', m \notin wire
      PROVE  /\ m.from \in Node /\ m.to \in Node /\ m.to # m.from
             /\ m.level \in DOMAIN stack'[m.from] /\ IsFrom(m.from, m.packet, setting.data)
  <2>1. /\ m.from = n /\ m.to \in Node \ {n} /\ m.level = Len(stack'[n]) /\ m.level > 0
        /\ m.packet = buffer'[n]
    BY <1>1, <1>6 DEF Wired
  <2>. QED  BY <1>1, <1>4, <2>1
<1>7. Messages'
  BY <1>1, <1>5, <1>6 DEF Messages, Types
<1>. QED  BY <1>2, <1>3, <1>7

LEMMA KeptTyped ==
  ASSUME Types, UNCHANGED <<setting, stack, buffer>>, wire' \subseteq wire
  PROVE  Stacks' /\ Buffers' /\ Messages'
BY DEF Types, Stacks, Buffers, Messages, Idle

LEMMA BufferTyped ==
  ASSUME Types, NEW n \in Node, ~ Idle(n) PROVE IsFrom(n, buffer[n], setting.data)
BY DEF Types, Buffers

LEMMA NewPacketsTyped ==
  ASSUME Types, NEW n \in Node
  PROVE  /\ IsFrom(n, LinkState(n), setting.data) /\ IsFrom(n, [type |-> "ping request"], setting.data)
         /\ IsFrom(n, [type |-> "ping response", source |-> n], setting.data)
         /\ \A d \in Accepted(setting.data) : IsFrom(n, d, setting.data)
         /\ \A p \in LinkStatePackets : IsFrom(n, p, setting.data)
BY LinkStateTyped DEF IsFrom

LEMMA StepStacks ==
  ASSUME Types, NEW n \in Node, Acts(n)
  PROVE  Stacks' /\ Buffers' /\ Messages' /\ setting' = setting
<1>1. CASE SendToNext(n)
  <2>1. PICK act \in Activation : Sends(n, act, buffer[n])
    BY <1>1, SendToNextEffect
  <2>. QED  BY <1>1, <2>1, SendsTyped, BufferTyped DEF SendToNext
<1>2. CASE Return(n)
  <2>1. Sends(n, Send, buffer[n]) /\ setting' = setting
    BY <1>2, ReturnEffect DEF Return
  <2>2. IsFrom(n, buffer[n], setting.data)
    BY <1>2, BufferTyped DEF Return
  <2>. QED  BY <2>1, <2>2, SendsTyped, SendIsActivation
<1>3. CASE net_send_link_state_packet(n)
  BY <1>3, AnnounceEffect, SendsTyped, NewPacketsTyped DEF Sends
<1>4. CASE net_update(n)
  <2>1. Sends(n, [kind |-> "update"], [type |-> "ping request"])
    BY <1>4, UpdateEffect
  <2>. QED  BY <2>1, SendsTyped, NewPacketsTyped, SendIsActivation DEF Sends
<1>5. CASE net_send_data_packet(n)
  <2>1. CASE UNCHANGED <<setting, stack, buffer, wire>>
    BY <2>1, KeptTyped
  <2>2. ASSUME NEW d \in Accepted(setting.data), Sends(n, Send, d)
        PROVE  Stacks' /\ Buffers' /\ Messages' /\ setting' = setting
    BY <2>2, SendsTyped, NewPacketsTyped, SendIsActivation DEF Sends
  <2>. QED  BY <1>5, <2>1, <2>2, DataEffect
<1>6. ASSUME NEW m \in wire, AcceptLinkState(n, m)
      PROVE  Stacks' /\ Buffers' /\ Messages' /\ setting' = setting
  <2>1. /\ Sends(n, Flood(m.packet, m.from), m.packet) /\ setting' = setting
        /\ Flood(m.packet, m.from) \in Activation /\ IsFrom(n, m.packet, setting.data)
    BY <1>6, AcceptEffect, NewPacketsTyped DEF Sends
  <2>. QED  BY <2>1, SendsTyped
<1>7. ASSUME NEW m \in wire, AnswerPing(n, m)
      PROVE  Stacks' /\ Buffers' /\ Messages' /\ setting' = setting
  <2>1. Sends(n, Send, [type |-> "ping response", source |-> n])
    BY <1>7, AnswerEffect
  <2>. QED  BY <2>1, SendsTyped, NewPacketsTyped, SendIsActivation DEF Sends
<1>8. ASSUME NEW m \in wire, net_notify_ping_response(n, m)
      PROVE  Stacks' /\ Buffers' /\ Messages' /\ setting' = setting
  BY <1>8, KeptTyped DEF net_notify_ping_response
<1>9. ASSUME NEW m \in wire, ForwardData(n, m)
      PROVE  Stacks' /\ Buffers' /\ Messages' /\ setting' = setting
  BY <1>9, ForwardEffect, SendsTyped, NewPacketsTyped, SendIsActivation DEF Sends
<1>10. ASSUME NEW m \in wire, DeliverData(n, m)
      PROVE  Stacks' /\ Buffers' /\ Messages' /\ setting' = setting
  BY <1>10, KeptTyped DEF DeliverData
<1>11. CASE Restart(n)
  <2>1. /\ stack' \in [Node -> Seq(Activation)] /\ DOMAIN buffer' = Node
        /\ Others(n) /\ stack'[n] = <<>> /\ buffer'[n] = None /\ setting' = setting
        /\ wire' \subseteq {m \in wire : m.from # n}
    BY <1>11, RestartEffect
  <2>2. Buffers'
    BY <2>1 DEF Buffers, Others, Idle, Types
  <2>3. Messages'
    BY <2>1 DEF Messages, Others, Types
  <2>. QED  BY <2>1, <2>2, <2>3 DEF Stacks
<1>. QED  BY <1>1, <1>2, <1>3, <1>4, <1>5, <1>6, <1>7, <1>8, <1>9, <1>10, <1>11
          DEF Acts, GoOn, Handles, Begin

LEMMA EntryChanges ==
  ASSUME Tables, NEW n \in Node, NEW a \in Node, NEW e \in Entries,
         link_state_packets' = [link_state_packets EXCEPT ![n][a] = e]
  PROVE  /\ link_state_packets' \in [Node -> [Node -> Entries]]
         /\ link_state_packets'[n][a] = e
         /\ \A k, b \in Node : k # n \/ b # a => link_state_packets'[k][b] = link_state_packets[k][b]
<1>1. link_state_packets \in [Node -> [Node -> Entries]]
  BY DEF Tables
<1>. QED  BY <1>1

LEMMA AgedTyped ==
  ASSUME NEW e \in Entries
  PROVE  /\ Aged(e) \in Entries /\ Aged(e).ttl <= e.ttl
         /\ Aged(e).number = e.number /\ Aged(e).boot = e.boot /\ Aged(e).stamp = e.stamp
<1>1. CountDown(e.ttl) \in 0 .. LinkStateTTL /\ CountDown(e.ttl) <= e.ttl
  BY EntryTyped, CountDownTyped, ConstantsTyped
<1>. DEFINE ttl == CountDown(e.ttl)
<1>. HIDE DEF ttl
<1>2. /\ [e EXCEPT !.ttl = ttl] \in Entries /\ [e EXCEPT !.ttl = ttl].ttl = ttl
      /\ [e EXCEPT !.ttl = ttl].number = e.number /\ [e EXCEPT !.ttl = ttl].boot = e.boot
      /\ [e EXCEPT !.ttl = ttl].stamp = e.stamp
  BY <1>1 DEF Entries, ttl
<1>. QED  BY <1>1, <1>2 DEF Aged, ttl

LEMMA UpdateTables ==
  ASSUME Tables, NEW n \in Node, net_update(n)
  PROVE  /\ Tables'
         /\ \A k \in Node \ {n} : link_state_packets'[k] = link_state_packets[k]
         /\ \A a \in Node : link_state_packets'[n][a] = Aged(link_state_packets[n][a])
<1>. DEFINE aged == [a \in Node |-> Aged(link_state_packets[n][a])]
            left == [a \in Node |-> CountDown(neighbour_links[n][a])]
<1>1. /\ link_state_packets \in [Node -> [Node -> Entries]]
      /\ neighbour_links \in [Node -> [Node -> 0 .. NeighbourTTL]]
      /\ \A k \in Node : neighbour_links[k][k] = 0
  BY DEF Tables
<1>2. aged \in [Node -> Entries]
  BY <1>1, AgedTyped
<1>3. left \in [Node -> 0 .. NeighbourTTL] /\ left[n] = 0
  <2>1. \A ttl \in 0 .. NeighbourTTL : CountDown(ttl) \in 0 .. NeighbourTTL
    BY CountDownTyped, ConstantsTyped
  <2>2. left[n] = 0
    BY <1>1 DEF CountDown
  <2>. QED  BY <1>1, <2>1, <2>2
<1>4. /\ link_state_packets' = [link_state_packets EXCEPT ![n] = aged]
      /\ neighbour_links' = [neighbour_links EXCEPT ![n] = left]
  BY DEF net_update
<1>5. \A a \in Node : aged[a] = Aged(link_state_packets[n][a])
  OBVIOUS
<1>. HIDE DEF aged, left
<1>6. /\ link_state_packets' \in [Node -> [Node -> Entries]]
      /\ neighbour_links' \in [Node -> [Node -> 0 .. NeighbourTTL]]
      /\ \A k \in Node : neighbour_links'[k][k] = 0
  BY <1>1, <1>2, <1>3, <1>4
<1>7. \A k \in Node \ {n} : link_state_packets'[k] = link_state_packets[k]
  BY <1>1, <1>4
<1>8. link_state_packets'[n] = aged
  BY <1>1, <1>4
<1>. QED  BY <1>5, <1>6, <1>7, <1>8 DEF Tables

LEMMA ZeroEntry == [ttl |-> 0, number |-> 0, boot |-> 0, stamp |-> 0] \in Entries
<1>1. 0 \in 0 .. LinkStateTTL /\ 0 \in 0 .. Modulus - 1
  BY ConstantsTyped
<1>. QED  BY <1>1 DEF Entries

LEMMA StepTables ==
  ASSUME Types, NEW n \in Node, Acts(n)
  PROVE  Tables'
<1>0. /\ link_state_packets \in [Node -> [Node -> Entries]]
      /\ neighbour_links \in [Node -> [Node -> 0 .. NeighbourTTL]]
      /\ \A k \in Node : neighbour_links[k][k] = 0
  BY DEF Types, Tables
<1>1. CASE UNCHANGED <<link_state_packets, neighbour_links>>
  BY <1>0, <1>1 DEF Tables
<1>2. CASE net_update(n)
  BY <1>2, UpdateTables DEF Types
<1>3. ASSUME NEW m \in wire, AcceptLinkState(n, m) PROVE Tables'
  <2>1. m.packet \in LinkStatePackets /\ m.packet.source \in Node
    BY <1>3, AcceptEffect, LinkStatePacketTyped
  <2>. DEFINE e == [ttl |-> LinkStateTTL, number |-> m.packet.number,
                    boot |-> m.packet.boot, stamp |-> m.packet.stamp]
  <2>2. e \in Entries
    <3>0. LinkStateTTL \in 0 .. LinkStateTTL
      BY ConstantsTyped
    <3>1. /\ LinkStateTTL \in 0 .. LinkStateTTL /\ m.packet.number \in 0 .. Modulus - 1
          /\ m.packet.boot \in Nat /\ m.packet.stamp \in Nat
      BY <2>1, <3>0, LinkStatePacketTyped
    <3>. QED  BY <3>1 DEF Entries
  <2>3. link_state_packets' = [link_state_packets EXCEPT ![n][m.packet.source] = e]
    BY <1>3 DEF AcceptLinkState
  <2>. HIDE DEF e
  <2>4. link_state_packets' \in [Node -> [Node -> Entries]]
    BY <2>1, <2>2, <2>3, EntryChanges DEF Types
  <2>. QED  BY <1>0, <1>3, <2>4 DEF Tables, AcceptLinkState
<1>4. ASSUME NEW m \in wire, net_notify_ping_response(n, m) PROVE Tables'
  <2>0. NeighbourTTL \in 0 .. NeighbourTTL
    BY ConstantsTyped
  <2>1. m.packet.source \in Node \ {n}
    BY <1>4, MessageTyped DEF net_notify_ping_response, Takes
  <2>2. /\ neighbour_links' = [neighbour_links EXCEPT ![n][m.packet.source] = NeighbourTTL]
        /\ link_state_packets' = link_state_packets
    BY <1>4 DEF net_notify_ping_response
  <2>3. neighbour_links' \in [Node -> [Node -> 0 .. NeighbourTTL]]
    BY <1>0, <2>0, <2>1, <2>2
  <2>4. \A k \in Node : neighbour_links'[k][k] = 0
    BY <1>0, <2>1, <2>2
  <2>. QED  BY <1>0, <2>2, <2>3, <2>4 DEF Tables
<1>5. CASE Restart(n)
  <2>1. /\ link_state_packets' = [link_state_packets EXCEPT ![n] = NothingHeard]
        /\ neighbour_links' = [neighbour_links EXCEPT ![n] = NoNeighbours]
    BY <1>5 DEF Restart
  <2>2. NothingHeard \in [Node -> Entries]
    BY ZeroEntry DEF NothingHeard
  <2>3. NoNeighbours \in [Node -> 0 .. NeighbourTTL] /\ NoNeighbours[n] = 0
    BY ConstantsTyped DEF NoNeighbours
  <2>. QED  BY <1>0, <2>1, <2>2, <2>3 DEF Tables
<1>6. \/ UNCHANGED <<link_state_packets, neighbour_links>>
      \/ net_update(n) \/ Restart(n)
      \/ \E m \in wire : AcceptLinkState(n, m) \/ net_notify_ping_response(n, m)
  BY DEF Acts, GoOn, Handles, Begin, SendToNext, Return, net_send_link_state_packet,
         net_send_data_packet, AnswerPing, ForwardData, DeliverData, statics
<1>. QED  BY <1>1, <1>2, <1>3, <1>4, <1>5, <1>6

LEMMA StepCounters ==
  ASSUME Types, NEW n \in Node, Acts(n)
  PROVE  Counters'
<1>0. /\ setting \in Settings /\ rounds \in [Node -> Nat]
      /\ sequence_number \in [Node -> 0 .. Modulus - 1]
      /\ boots \in [Node -> [count : {0, 1}, round : Nat]]
      /\ announced \in [Node -> Nat] /\ unsent \subseteq setting.data
  BY DEF Types, Counters
<1>1. setting' = setting
  BY StepStacks
<1>2. CASE UNCHANGED <<rounds, sequence_number, boots, announced>> /\ unsent' \subseteq unsent
  BY <1>0, <1>1, <1>2 DEF Counters
<1>3. CASE net_update(n)
  <2>1. rounds' = [rounds EXCEPT ![n] = @ + 1] /\ UNCHANGED <<sequence_number, unsent, history>>
    BY <1>3 DEF net_update
  <2>2. rounds' \in [Node -> Nat]
    BY <1>0, <2>1
  <2>. QED  BY <1>0, <1>1, <2>1, <2>2 DEF Counters, history
<1>4. CASE net_send_link_state_packet(n)
  <2>1. /\ sequence_number' = [sequence_number EXCEPT ![n] = NextNumber(n)]
        /\ announced' = [announced EXCEPT ![n] = @ + 1]
        /\ UNCHANGED <<rounds, boots, unsent>>
    BY <1>4 DEF net_send_link_state_packet
  <2>2. NextNumber(n) \in 0 .. Modulus - 1
    BY <1>0, NumbersTyped, ConstantsTyped DEF NextNumber
  <2>3. sequence_number' \in [Node -> 0 .. Modulus - 1] /\ announced' \in [Node -> Nat]
    BY <1>0, <2>1, <2>2
  <2>. QED  BY <1>0, <1>1, <2>1, <2>3 DEF Counters
<1>5. CASE Restart(n)
  <2>1. /\ sequence_number' = [sequence_number EXCEPT ![n] = 0]
        /\ announced' = [announced EXCEPT ![n] = 0]
        /\ boots' = [boots EXCEPT ![n] = [count |-> 1, round |-> rounds[n]]]
        /\ UNCHANGED <<rounds, unsent>>
    BY <1>5 DEF Restart
  <2>2. 0 \in 0 .. Modulus - 1
    BY ConstantsTyped
  <2>3. sequence_number' \in [Node -> 0 .. Modulus - 1] /\ announced' \in [Node -> Nat]
    BY <1>0, <2>1, <2>2
  <2>4. [count |-> 1, round |-> rounds[n]] \in [count : {0, 1}, round : Nat]
    BY <1>0
  <2>5. boots' \in [Node -> [count : {0, 1}, round : Nat]]
    BY <1>0, <2>1, <2>4
  <2>. QED  BY <1>0, <1>1, <2>1, <2>3, <2>5 DEF Counters
<1>6. \/ UNCHANGED <<rounds, sequence_number, boots, announced>> /\ unsent' \subseteq unsent
      \/ net_update(n) \/ Restart(n) \/ net_send_link_state_packet(n)
  BY DEF Acts, GoOn, Handles, Begin, SendToNext, Return, AcceptLinkState,
         net_notify_ping_response, net_send_data_packet, AnswerPing, ForwardData, DeliverData,
         statics, history
<1>. QED  BY <1>2, <1>3, <1>4, <1>5, <1>6

LEMMA UnheardEffect ==
  ASSUME NEW n \in Node, NEW level, NEW nodes, Unheard(n, level, nodes), level = Len(stack'[n]),
         level > 0
  PROVE  Answers(n)
BY DEF Unheard, Answers

LEMMA SendToAnswers ==
  ASSUME Types, NEW n \in Node, NEW nodes, NEW p, NEW on_wire, NEW act \in Activation,
         SendTo(n, nodes, p, on_wire, act), Pushes(n, act)
  PROVE  Answers(n)
<1>1. Len(stack[n]) \in Nat
  BY StacksTyped DEF Types
<1>2. Unheard(n, Len(stack[n]) + 1, nodes)
  BY DEF SendTo
<1>. QED  BY <1>1, <1>2, UnheardEffect DEF Pushes

LEMMA PendingKept ==
  ASSUME Types, NEW n \in Node, NEW act, NEW p, Sends(n, act, p), Answers(n)
  PROVE  Pending'
<1>1. /\ stack' \in [Node -> Seq(Activation)] /\ Others(n)
      /\ Same(n) \/ Pushes(n, act) \/ Replaces(n, act) \/ Pops(n)
  BY DEF Sends
<1>2. /\ DOMAIN stack'[n] = 1 .. Len(stack'[n]) /\ Len(stack'[n]) \in Nat /\ Len(stack[n]) \in Nat
      /\ DOMAIN stack[n] = 1 .. Len(stack[n])
  <2>1. stack'[n] \in Seq(Activation)
    BY <1>1
  <2>. QED  BY <2>1, StacksTyped DEF Types
<1>3. DOMAIN unanswered = Node /\ \A k \in Node : unanswered[k] \subseteq DOMAIN stack[k]
  BY DEF Types, Pending
<1>4. \A l \in unanswered[n] : l \in DOMAIN stack'[n]
  <2>. TAKE l \in unanswered[n]
  <2>1. l \in 1 .. Len(stack[n])
    BY <1>2, <1>3
  <2>2. CASE Same(n)
    BY <1>2, <2>1, <2>2 DEF Same
  <2>3. CASE Pushes(n, act)
    BY <1>2, <2>1, <2>3 DEF Pushes
  <2>4. CASE Replaces(n, act)
    BY <1>2, <2>1, <2>4 DEF Replaces
  <2>5. CASE Pops(n)
    <3>1. l # Len(stack[n])
      BY <2>5 DEF Pops, Waiting
    <3>. QED  BY <1>2, <2>1, <2>5, <3>1 DEF Pops
  <2>. QED  BY <1>1, <2>2, <2>3, <2>4, <2>5
<1>5. /\ DOMAIN unanswered' = Node /\ \A k \in Node \ {n} : unanswered'[k] = unanswered[k]
      /\ \A l \in unanswered'[n] : l \in unanswered[n] \/ (l = Len(stack'[n]) /\ l > 0)
  BY <1>3 DEF Answers
<1>6. \A l \in unanswered'[n] : l \in DOMAIN stack'[n]
  BY <1>2, <1>4, <1>5
<1>. QED  BY <1>1, <1>3, <1>5, <1>6 DEF Pending, Others

LEMMA StepPending ==
  ASSUME Types, NEW n \in Node, Acts(n) PROVE Pending'
<1>1. CASE SendToNext(n)
  <2>1. PICK act \in Activation : Sends(n, act, buffer[n]) /\ Replaces(n, act)
    BY <1>1, SendToNextEffect
  <2>2. PICK a \in StillToCome(n) : Unheard(n, Len(stack[n]), {a})
    BY <1>1 DEF SendToNext
  <2>3. Len(stack[n]) > 0 /\ Len(stack'[n]) = Len(stack[n])
    BY <1>1, <2>1, StacksTyped DEF SendToNext, Replaces, Types
  <2>4. Answers(n)
    BY <2>2, <2>3, UnheardEffect
  <2>. QED  BY <2>1, <2>4, PendingKept
<1>2. CASE Return(n)
  BY <1>2, ReturnEffect, PendingKept DEF Return, Answers
<1>3. CASE net_send_link_state_packet(n)
  BY <1>3, AnnounceEffect, PendingKept DEF net_send_link_state_packet, Answers
<1>4. CASE net_update(n)
  <2>. DEFINE act == [kind |-> "update"]
  <2>1. Sends(n, act, [type |-> "ping request"]) /\ Pushes(n, act) /\ act \in Activation
    BY <1>4, UpdateEffect, SendIsActivation
  <2>2. PICK nodes : SendTo(n, nodes, [type |-> "ping request"], wire, act)
    BY <1>4 DEF net_update
  <2>. HIDE DEF act
  <2>3. Answers(n)
    BY <2>1, <2>2, SendToAnswers
  <2>. QED  BY <2>1, <2>3, PendingKept
<1>5. CASE net_send_data_packet(n)
  <2>1. PICK d \in unsent :
          /\ \/ UNCHANGED <<stack, buffer, wire, unanswered>>
             \/ SendTo(n, {net_get_next_hop(n, d.to)}, d, wire, Send)
    BY <1>5 DEF net_send_data_packet
  <2>2. CASE UNCHANGED <<stack, buffer, wire, unanswered>>
    BY <2>2 DEF Types, Pending
  <2>3. CASE SendTo(n, {net_get_next_hop(n, d.to)}, d, wire, Send)
    <3>1. Pushes(n, Send)
      BY <2>3, SendIsActivation, SendToEffect
    <3>2. Answers(n)
      BY <2>3, <3>1, SendIsActivation, SendToAnswers
    <3>3. PICK e : Sends(n, Send, e)
      <4>1. Len(stack[n]) \in Nat
        BY StacksTyped DEF Types
      <4>2. stack' # stack
        BY <3>1, <4>1 DEF Pushes
      <4>. QED  BY <1>5, <4>2, DataEffect
    <3>. QED  BY <3>2, <3>3, PendingKept
  <2>. QED  BY <2>1, <2>2, <2>3
<1>6. ASSUME NEW m \in wire, AcceptLinkState(n, m) PROVE Pending'
  <2>. DEFINE act == Flood(m.packet, m.from)
  <2>1. Sends(n, act, m.packet)
    BY <1>6, AcceptEffect
  <2>2. Answers(n)
    BY <1>6 DEF AcceptLinkState, Answers
  <2>. HIDE DEF act
  <2>. QED  BY <2>1, <2>2, PendingKept
<1>7. ASSUME NEW m \in wire, AnswerPing(n, m) PROVE Pending'
  <2>. DEFINE p == [type |-> "ping response", source |-> n]
  <2>1. Sends(n, Send, p) /\ Pushes(n, Send)
    BY <1>7, AnswerEffect
  <2>2. SendTo(n, {m.from}, p, wire \ {m}, Send)
    BY <1>7 DEF AnswerPing
  <2>. HIDE DEF p
  <2>3. Answers(n)
    BY <2>1, <2>2, SendIsActivation, SendToAnswers
  <2>. QED  BY <2>1, <2>3, PendingKept
<1>8. ASSUME NEW m \in wire, net_notify_ping_response(n, m) PROVE Pending'
  BY <1>8 DEF net_notify_ping_response, Types, Pending
<1>9. ASSUME NEW m \in wire, ForwardData(n, m) PROVE Pending'
  <2>1. Sends(n, Send, m.packet) /\ Pushes(n, Send)
    BY <1>9, ForwardEffect
  <2>2. SendTo(n, {net_get_next_hop(n, m.packet.to)}, m.packet, wire \ {m}, Send)
    BY <1>9 DEF ForwardData
  <2>3. Answers(n)
    BY <2>1, <2>2, SendIsActivation, SendToAnswers
  <2>. QED  BY <2>1, <2>3, PendingKept
<1>10. ASSUME NEW m \in wire, DeliverData(n, m) PROVE Pending'
  BY <1>10 DEF DeliverData, Types, Pending
<1>11. CASE Restart(n)
  <2>1. /\ \A k \in Node \ {n} : stack'[k] = stack[k]
        /\ Messages
    BY <1>11, RestartEffect DEF Others, Types
  <2>2. PICK lost \in SUBSET wire :
          unanswered' = [k \in Node |-> IF k = n THEN {} ELSE unanswered[k] \cup Lost(k, lost)]
    BY <1>11 DEF Restart
  <2>3. ASSUME NEW k \in Node, NEW l \in Lost(k, lost) PROVE l \in DOMAIN stack[k]
    BY <2>1, <2>3 DEF Lost, Messages
  <2>4. \A k \in Node : unanswered[k] \subseteq DOMAIN stack[k]
    BY DEF Types, Pending
  <2>. QED  BY <2>1, <2>2, <2>3, <2>4 DEF Pending
<1>. QED  BY <1>1, <1>2, <1>3, <1>4, <1>5, <1>6, <1>7, <1>8, <1>9, <1>10, <1>11
          DEF Acts, GoOn, Handles, Begin

LEMMA StepTypes == ASSUME Types, [Next]_vars PROVE Types'
<1>1. CASE Forgets
  <2>1. Stacks' /\ Buffers' /\ Messages'
    BY <1>1, KeptTyped DEF Forgets
  <2>2. Counters' /\ Tables'
    BY <1>1 DEF Forgets, Types, Counters, Tables, statics, history
  <2>3. stack' = stack
    BY <1>1 DEF Forgets
  <2>4. Pending
    BY DEF Types
  <2>5. ASSUME unanswered' = unanswered PROVE Pending'
    BY <2>3, <2>4, <2>5 DEF Pending
  <2>6. ASSUME NEW m \in wire, unanswered' = [unanswered EXCEPT ![m.from] = @ \cup {m.level}]
        PROVE  Pending'
    <3>1. m.from \in Node /\ m.level \in DOMAIN stack[m.from]
      BY DEF Types, Messages
    <3>2. DOMAIN unanswered = Node /\ \A n \in Node : unanswered[n] \subseteq DOMAIN stack[n]
      BY <2>4 DEF Pending
    <3>3. /\ DOMAIN unanswered' = Node
          /\ \A n \in Node : \A l \in unanswered'[n] :
               l \in unanswered[n] \/ (n = m.from /\ l = m.level)
      BY <2>6, <3>1, <3>2
    <3>4. \A n \in Node : unanswered'[n] \subseteq DOMAIN stack[n]
      BY <3>1, <3>2, <3>3
    <3>. QED  BY <2>3, <3>3, <3>4 DEF Pending
  <2>7. Pending'
    BY <1>1, <2>5, <2>6 DEF Forgets
  <2>. QED  BY <2>1, <2>2, <2>7 DEF Types
<1>2. ASSUME NEW n \in Node, Acts(n) PROVE Types'
  BY <1>2, StepStacks, StepTables, StepCounters, StepPending DEF Types
<1>. QED  BY <1>1, <1>2, Steps

LEMMA InitTypes == ASSUME Init PROVE Types
<1>1. setting \in Settings /\ setting.number \in 0 .. Modulus - 1 /\ \A n \in Node : n \notin setting.range[n]
  BY SettingTyped DEF Init
<1>2. Counters
  BY <1>1 DEF Init, Counters
<1>3. <<>> \in Seq(Activation)
  OBVIOUS
<1>4. Stacks
  BY <1>3 DEF Init, Stacks
<1>5. Buffers /\ Messages /\ Pending
  BY DEF Init, Buffers, Messages, Pending, Idle
<1>6. link_state_packets \in [Node -> [Node -> Entries]]
  BY ZeroEntry DEF Init, NothingHeard
<1>7. /\ neighbour_links \in [Node -> [Node -> 0 .. NeighbourTTL]]
      /\ \A n \in Node : neighbour_links[n][n] = 0
  BY <1>1, ConstantsTyped DEF Init
<1>. QED  BY <1>2, <1>4, <1>5, <1>6, <1>7 DEF Types, Tables

LEMMA TypesAlways == Spec => []Types
<1>1. Init => Types
  BY InitTypes
<1>2. Types /\ [Next]_vars => Types'
  BY StepTypes
<1>. QED  BY <1>1, <1>2, PTL DEF Spec

-----------------------------------------------------------------------------
(* What is under way was announced, and is numbered as it was.             *)

\* A link state of which a send can still come: in a loop's packet, in the buffer that loops
\* send from, or on the wire.
Travels(p) ==
  \/ \E n \in Node : ~ Idle(n) /\ buffer[n] = p
  \/ \E n \in Node : \E i \in DOMAIN stack[n] : stack[n][i].kind = "flood" /\ stack[n][i].packet = p
  \/ \E m \in wire : m.packet = p

\* The number before the first announcement of a start.
Before(boot, number) == IF boot = 0 THEN number ELSE 0

\* The packet or entry x stems from an announcement of a.
Made(a, x, started, made, number) ==
  /\ x.boot <= started[a].count
  /\ x.boot = started[a].count => x.stamp <= made[a]
  /\ x.number = (Before(x.boot, number) + x.stamp) % Modulus

Announced(p, started, made, number) ==
  p.source \notin p.nodes /\ Made(p.source, p, started, made, number)

Announcements ==
  /\ \A p \in LinkStatePackets : Travels(p) => Announced(p, boots, announced, setting.number)
  /\ \A n \in Node : buffer[n] = None \/
       (buffer[n] \in LinkStatePackets => Announced(buffer[n], boots, announced, setting.number))
  /\ \A n, a \in Node : IsLive(link_state_packets[n][a]) =>
       Made(a, link_state_packets[n][a], boots, announced, setting.number)
  /\ \A n \in Node :
       /\ sequence_number[n] = (Before(boots[n].count, setting.number) + announced[n]) % Modulus
       /\ n \notin setting.restarting => boots[n].count = 0

LEMMA Distributes ==
  ASSUME NEW m \in Int, NEW k \in Int, NEW j \in Int
  PROVE  /\ m * k \in Int
         /\ m * (k + j) = m * k + m * j /\ m * (k - j) = m * k - m * j /\ m * (-k) = -(m * k)
  OBVIOUS

LEMMA Division ==
  ASSUME NEW n \in Int, NEW m \in Nat, m > 0
  PROVE  /\ n \div m \in Int /\ n % m \in Nat /\ n % m < m
         /\ n = m * (n \div m) + (n % m)
  OBVIOUS

\* A multiple of m that is smaller than m is zero.
LEMMA SmallMultiple ==
  ASSUME NEW m \in Nat, m > 0, NEW k \in Int, -m < m * k, m * k < m
  PROVE  m * k = 0
<1>1. k >= 1 => m * k >= m
  OBVIOUS
<1>2. k <= -1 => m * k <= -m
  OBVIOUS
<1>. QED  BY <1>1, <1>2

\* Numbers that differ by a multiple of m have the same remainder, which is the small one.
LEMMA RemainderIs ==
  ASSUME NEW m \in Nat, m > 0, NEW x \in Int, NEW k \in Int, NEW r \in Int,
         0 <= r, r < m, x = m * k + r
  PROVE  x % m = r
<1>. DEFINE q == x \div m
            s == x % m
<1>1. q \in Int /\ s \in Nat /\ s < m /\ x = m * q + s
  BY Division
<1>. HIDE DEF q, s
<1>2. m * (k - q) = m * k - m * q /\ m * (k - q) \in Int /\ m * k \in Int /\ m * q \in Int
  BY <1>1, Distributes
<1>3. k - q \in Int
  BY <1>1
<1>. DEFINE d == m * (k - q)
            mk == m * k
            mq == m * q
<1>4. d = mk - mq /\ d \in Int /\ mk \in Int /\ mq \in Int /\ x = mk + r /\ x = mq + s
  BY <1>1, <1>2
<1>. HIDE DEF d, mk, mq
<1>5. d = s - r
  BY <1>1, <1>4
<1>6. -m < d /\ d < m
  BY <1>1, <1>5
<1>7. d = 0
  BY <1>3, <1>6, SmallMultiple DEF d
<1>8. s = r
  BY <1>1, <1>5, <1>7
<1>. QED  BY <1>8 DEF s

LEMMA NumberOfNext ==
  ASSUME NEW m \in Nat, m > 0, NEW x \in Int
  PROVE  ((x % m) + 1) % m = (x + 1) % m
<1>. DEFINE q == x \div m
            s == x % m
            y == s + 1
            e == y \div m
            r == y % m
<1>1. q \in Int /\ s \in Nat /\ s < m /\ x = m * q + s
  BY Division
<1>. HIDE DEF q, s
<1>2. e \in Int /\ r \in Nat /\ r < m /\ y = m * e + r /\ y \in Int
  BY <1>1, Division
<1>. HIDE DEF e, r
<1>3. m * (q + e) = m * q + m * e /\ m * q \in Int /\ m * e \in Int /\ q + e \in Int
  BY <1>1, <1>2, Distributes
<1>. DEFINE mq == m * q
            me == m * e
<1>4. x = mq + s /\ y = me + r /\ mq \in Int /\ me \in Int
  BY <1>1, <1>2, <1>3
<1>. HIDE DEF mq, me
<1>5. x + 1 = (mq + me) + r
  BY <1>1, <1>2, <1>4
<1>6. x + 1 = m * (q + e) + r
  BY <1>3, <1>5 DEF mq, me
<1>7. (x + 1) % m = r
  <2>1. x + 1 \in Int /\ r \in Int /\ 0 <= r
    BY <1>2
  <2>. QED  BY <1>2, <1>3, <1>6, <2>1, RemainderIs
<1>. QED  BY <1>7 DEF r, s

LEMMA TravelsBySends ==
  ASSUME Types, NEW n \in Node, NEW act \in Activation, NEW q, Sends(n, act, q), NEW x,
         q \in LinkStatePackets => (Travels(q) \/ q = x),
         act.kind = "flood" => (Travels(act.packet) \/ act.packet = x),
         NEW p \in LinkStatePackets, Travels(p)'
  PROVE  Travels(p) \/ p = x
<1>1. /\ stack' \in [Node -> Seq(Activation)] /\ Others(n) /\ Wired(n) /\ buffer'[n] = q
      /\ Same(n) \/ Pushes(n, act) \/ Replaces(n, act) \/ Pops(n)
  BY DEF Sends
<1>2. ASSUME NEW k \in Node, ~ Idle(k)', buffer'[k] = p PROVE Travels(p) \/ p = x
  <2>1. CASE k = n
    BY <1>1, <1>2, <2>1
  <2>2. CASE k # n
    BY <1>1, <1>2, <2>2 DEF Others, Idle, Travels
  <2>. QED  BY <2>1, <2>2
<1>3. ASSUME NEW k \in Node, NEW i \in DOMAIN stack'[k], stack'[k][i].kind = "flood",
             stack'[k][i].packet = p
      PROVE  Travels(p) \/ p = x
  <2>1. CASE k = n
    <3>1. /\ DOMAIN stack'[n] = 1 .. Len(stack'[n]) /\ Len(stack'[n]) \in Nat
          /\ DOMAIN stack[n] = 1 .. Len(stack[n]) /\ Len(stack[n]) \in Nat
      <4>1. stack'[n] \in Seq(Activation)
        BY <1>1
      <4>. QED  BY <4>1, StacksTyped DEF Types
    <3>2. (i \in DOMAIN stack[n] /\ stack'[n][i] = stack[n][i]) \/ stack'[n][i] = act
      <4>1. CASE Same(n)
        BY <1>3, <2>1, <4>1 DEF Same
      <4>2. CASE Pushes(n, act)
        BY <1>3, <2>1, <3>1, <4>2 DEF Pushes
      <4>3. CASE Replaces(n, act)
        BY <1>3, <2>1, <3>1, <4>3 DEF Replaces
      <4>4. CASE Pops(n)
        BY <1>3, <2>1, <3>1, <4>4 DEF Pops
      <4>. QED  BY <1>1, <4>1, <4>2, <4>3, <4>4
    <3>. QED  BY <1>3, <2>1, <3>2 DEF Travels
  <2>2. CASE k # n
    BY <1>1, <1>3, <2>2 DEF Others, Travels
  <2>. QED  BY <2>1, <2>2
<1>4. ASSUME NEW m \in wire', m.packet = p PROVE Travels(p) \/ p = x
  BY <1>1, <1>4 DEF Wired, Travels
<1>. QED  BY <1>2, <1>3, <1>4 DEF Travels

LEMMA TravelsKept ==
  ASSUME UNCHANGED <<stack, buffer>>, wire' \subseteq wire, NEW p, Travels(p)' PROVE Travels(p)
BY DEF Travels, Idle

\* What travels after a step travelled before, or is announced in it.
LEMMA TravelsStep ==
  ASSUME Types, NEW n \in Node, Acts(n), NEW p \in LinkStatePackets, Travels(p)'
  PROVE  Travels(p) \/ (net_send_link_state_packet(n) /\ p = LinkState(n))
<1>0. \A q \in LinkStatePackets : q.type = "link state"
  BY LinkStatePacketTyped
<1>1. CASE SendToNext(n)
  <2>1. PICK act \in Activation :
          /\ Sends(n, act, buffer[n])
          /\ Top(n).kind = "flood" /\ act.kind = "flood" /\ act.packet = Top(n).packet
    BY <1>1, SendToNextEffect
  <2>2. ~ Idle(n)
    BY <1>1 DEF SendToNext
  <2>3. Len(stack[n]) \in DOMAIN stack[n]
    BY <2>2, StacksTyped DEF Types
  <2>4. Travels(buffer[n]) /\ Travels(act.packet)
    BY <2>1, <2>2, <2>3 DEF Travels, Top
  <2>5. Travels(p) \/ p = buffer[n]
    BY <2>1, <2>4, TravelsBySends
  <2>. QED  BY <2>4, <2>5
<1>2. CASE Return(n)
  <2>1. Sends(n, Send, buffer[n]) /\ Send \in Activation /\ Send.kind # "flood" /\ ~ Idle(n)
    BY <1>2, ReturnEffect, SendIsActivation DEF Return, Send
  <2>2. Travels(buffer[n])
    BY <2>1 DEF Travels
  <2>3. Travels(p) \/ p = buffer[n]
    BY <2>1, TravelsBySends
  <2>. QED  BY <2>2, <2>3
<1>3. CASE net_send_link_state_packet(n)
  <2>1. /\ Sends(n, Flood(LinkState(n), None), LinkState(n))
        /\ Flood(LinkState(n), None) \in Activation
        /\ Flood(LinkState(n), None).packet = LinkState(n)
    BY <1>3, AnnounceEffect DEF Flood
  <2>. QED  BY <1>3, <2>1, TravelsBySends
<1>4. CASE net_update(n)
  <2>. DEFINE act == [kind |-> "update"]
              q == [type |-> "ping request"]
  <2>1. Sends(n, act, q) /\ act \in Activation /\ act.kind # "flood" /\ q \notin LinkStatePackets
    BY <1>0, <1>4, UpdateEffect, SendIsActivation
  <2>. HIDE DEF act, q
  <2>2. Travels(p) \/ p = q
    BY <2>1, TravelsBySends
  <2>. QED  BY <2>1, <2>2
<1>5. CASE net_send_data_packet(n)
  <2>1. CASE UNCHANGED <<setting, stack, buffer, wire>>
    BY <2>1, TravelsKept
  <2>2. ASSUME NEW d \in Accepted(setting.data), Sends(n, Send, d) PROVE Travels(p)
    <3>1. d \notin LinkStatePackets
      BY <1>0, SettingTyped DEF Types, Counters, Accepted
    <3>2. Send \in Activation /\ Send.kind # "flood"
      BY SendIsActivation DEF Send
    <3>3. Travels(p) \/ p = d
      BY <2>2, <3>1, <3>2, TravelsBySends
    <3>. QED  BY <3>1, <3>3
  <2>. QED  BY <1>5, <2>1, <2>2, DataEffect
<1>6. ASSUME NEW m \in wire, AcceptLinkState(n, m) PROVE Travels(p)
  <2>. DEFINE q == m.packet
              act == Flood(q, m.from)
  <2>1. Sends(n, act, q) /\ act \in Activation /\ act.packet = q
    BY <1>6, AcceptEffect DEF Flood
  <2>2. Travels(q)
    BY DEF Travels
  <2>. HIDE DEF q, act
  <2>3. Travels(p) \/ p = q
    BY <2>1, <2>2, TravelsBySends
  <2>. QED  BY <2>2, <2>3
<1>7. ASSUME NEW m \in wire, AnswerPing(n, m) PROVE Travels(p)
  <2>. DEFINE q == [type |-> "ping response", source |-> n]
  <2>1. /\ Sends(n, Send, q) /\ Send \in Activation /\ Send.kind # "flood"
        /\ q \notin LinkStatePackets
    BY <1>0, <1>7, AnswerEffect, SendIsActivation DEF Send
  <2>. HIDE DEF q
  <2>2. Travels(p) \/ p = q
    BY <2>1, TravelsBySends
  <2>. QED  BY <2>1, <2>2
<1>8. ASSUME NEW m \in wire, net_notify_ping_response(n, m) PROVE Travels(p)
  BY <1>8, TravelsKept DEF net_notify_ping_response
<1>9. ASSUME NEW m \in wire, ForwardData(n, m) PROVE Travels(p)
  <2>. DEFINE q == m.packet
  <2>1. /\ Sends(n, Send, q) /\ Send \in Activation /\ Send.kind # "flood"
        /\ q \notin LinkStatePackets
    BY <1>0, <1>9, ForwardEffect, SendIsActivation DEF Send, ForwardData
  <2>. HIDE DEF q
  <2>2. Travels(p) \/ p = q
    BY <2>1, TravelsBySends
  <2>. QED  BY <2>1, <2>2
<1>10. ASSUME NEW m \in wire, DeliverData(n, m) PROVE Travels(p)
  BY <1>10, TravelsKept DEF DeliverData
<1>11. CASE Restart(n)
  <2>1. /\ Others(n) /\ stack'[n] = <<>> /\ wire' \subseteq wire
    BY <1>11, RestartEffect
  <2>2. Idle(n)' /\ DOMAIN stack'[n] = {}
    BY <2>1 DEF Idle
  <2>. QED  BY <2>1, <2>2 DEF Travels, Others, Idle
<1>. QED  BY <1>1, <1>2, <1>3, <1>4, <1>5, <1>6, <1>7, <1>8, <1>9, <1>10, <1>11
          DEF Acts, GoOn, Handles, Begin

\* The buffer of a node that is idle was there before, or holds what the node announced.
LEMMA IdleBuffers ==
  ASSUME Types, NEW n \in Node, Acts(n), NEW k \in Node, Idle(k)'
  PROVE  \/ buffer'[k] = buffer[k] \/ buffer'[k] = None
         \/ net_send_link_state_packet(n) /\ buffer'[k] = LinkState(n) /\ k = n
<1>0. \A act, q : Sends(n, act, q) /\ Pushes(n, act) => ~ (Idle(n)')
  BY StacksTyped DEF Types, Pushes, Idle
<1>1. CASE buffer' = buffer
  BY <1>1
<1>2. CASE net_send_link_state_packet(n)
  BY <1>2, AnnounceEffect DEF Sends, Others
<1>3. CASE Restart(n)
  BY <1>3, RestartEffect DEF Others
<1>4. ASSUME NEW act, NEW q, Sends(n, act, q), Pushes(n, act) PROVE buffer'[k] = buffer[k]
  <2>1. k # n
    BY <1>0, <1>4
  <2>. QED  BY <1>4, <2>1 DEF Sends, Others
<1>5. CASE net_update(n)
  BY <1>4, <1>5, UpdateEffect
<1>6. CASE net_send_data_packet(n)
  BY <1>4, <1>6, DataEffect
<1>7. ASSUME NEW m \in wire, AcceptLinkState(n, m) \/ AnswerPing(n, m) \/ ForwardData(n, m)
      PROVE  buffer'[k] = buffer[k]
  BY <1>4, <1>7, AcceptEffect, AnswerEffect, ForwardEffect
<1>. QED  BY <1>1, <1>2, <1>3, <1>5, <1>6, <1>7
          DEF Acts, GoOn, Handles, Begin, SendToNext, Return, net_notify_ping_response, DeliverData

\* How the histories change.
LEMMA HistoriesStep ==
  ASSUME Types, NEW n \in Node, Acts(n)
  PROVE  \/ UNCHANGED <<boots, announced, sequence_number>>
         \/ /\ net_send_link_state_packet(n) /\ boots' = boots
            /\ announced'[n] = announced[n] + 1 /\ sequence_number'[n] = NextNumber(n)
            /\ \A k \in Node \ {n} : announced'[k] = announced[k] /\ sequence_number'[k] = sequence_number[k]
         \/ /\ Restart(n) /\ boots[n].count = 0 /\ boots'[n].count = 1
            /\ announced'[n] = 0 /\ sequence_number'[n] = 0 /\ n \in setting.restarting
            /\ \A k \in Node \ {n} : /\ announced'[k] = announced[k] /\ boots'[k] = boots[k]
                                     /\ sequence_number'[k] = sequence_number[k]
<1>0. /\ announced \in [Node -> Nat] /\ sequence_number \in [Node -> 0 .. Modulus - 1]
      /\ boots \in [Node -> [count : {0, 1}, round : Nat]]
  BY DEF Types, Counters
<1>1. CASE net_send_link_state_packet(n)
  BY <1>0, <1>1 DEF net_send_link_state_packet
<1>2. CASE Restart(n)
  <2>1. /\ sequence_number' = [sequence_number EXCEPT ![n] = 0]
        /\ announced' = [announced EXCEPT ![n] = 0]
        /\ boots' = [boots EXCEPT ![n] = [count |-> 1, round |-> rounds[n]]]
        /\ boots[n].count = 0 /\ n \in setting.restarting
    BY <1>2 DEF Restart
  <2>2. boots'[n] = [count |-> 1, round |-> rounds[n]] /\ \A k \in Node \ {n} : boots'[k] = boots[k]
    BY <1>0, <2>1
  <2>3. boots'[n].count = 1
    BY <2>2
  <2>. QED  BY <1>0, <1>2, <2>1, <2>2, <2>3
<1>3. \/ UNCHANGED <<boots, announced, sequence_number>>
      \/ net_send_link_state_packet(n) \/ Restart(n)
  BY DEF Acts, GoOn, Handles, Begin, SendToNext, Return, AcceptLinkState, net_update,
         net_notify_ping_response, net_send_data_packet, AnswerPing, ForwardData, DeliverData,
         statics, history
<1>. QED  BY <1>1, <1>2, <1>3

LEMMA MadeKept ==
  ASSUME Types, NEW n \in Node, Acts(n), NEW a \in Node, NEW x, x.boot \in Nat, x.stamp \in Nat,
         Made(a, x, boots, announced, setting.number)
  PROVE  Made(a, x, boots', announced', setting'.number)
<1>1. setting' = setting
  BY StepStacks
<1>2. boots[a].count \in {0, 1} /\ announced[a] \in Nat
  BY DEF Types, Counters
<1>3. CASE UNCHANGED <<boots, announced>>
  BY <1>1, <1>3
<1>4. CASE boots' = boots /\ announced'[a] \in {announced[a], announced[a] + 1}
  BY <1>1, <1>2, <1>4 DEF Made
<1>5. CASE boots[a].count = 0 /\ boots'[a].count = 1
  BY <1>1, <1>2, <1>5 DEF Made
<1>6. CASE boots'[a] = boots[a] /\ announced'[a] = announced[a]
  BY <1>1, <1>6 DEF Made
<1>. QED  BY <1>3, <1>4, <1>5, <1>6, HistoriesStep

\* An entry that is live after a step was live before, or notes the packet that was accepted.
LEMMA EntriesStep ==
  ASSUME Types, NEW n \in Node, Acts(n), NEW k \in Node, NEW a \in Node,
         IsLive(link_state_packets'[k][a])
  PROVE  LET old == link_state_packets[k][a]
             new == link_state_packets'[k][a]
         IN  \/ /\ IsLive(old)
                /\ new.boot = old.boot /\ new.stamp = old.stamp /\ new.number = old.number
             \/ /\ k = n
                /\ \E m \in wire : /\ AcceptLinkState(n, m) /\ a = m.packet.source
                                   /\ new.boot = m.packet.boot /\ new.stamp = m.packet.stamp
                                   /\ new.number = m.packet.number
<1>. DEFINE old == link_state_packets[k][a]
            new == link_state_packets'[k][a]
            Goal == \/ /\ IsLive(old)
                       /\ new.boot = old.boot /\ new.stamp = old.stamp /\ new.number = old.number
                    \/ /\ k = n
                       /\ \E m \in wire : /\ AcceptLinkState(n, m) /\ a = m.packet.source
                                          /\ new.boot = m.packet.boot /\ new.stamp = m.packet.stamp
                                          /\ new.number = m.packet.number
<1>0. link_state_packets \in [Node -> [Node -> Entries]] /\ IsLive(new)
  BY DEF Types, Tables
<1>1. CASE new = old
  BY <1>0, <1>1
<1>2. CASE link_state_packets' = link_state_packets
  BY <1>1, <1>2
<1>3. CASE net_update(n)
  <2>1. CASE k # n
    BY <1>1, <1>3, <2>1, UpdateTables DEF Types
  <2>2. CASE k = n
    <3>1. new = Aged(old) /\ old \in Entries
      BY <1>0, <1>3, <2>2, UpdateTables DEF Types
    <3>2. /\ new \in Entries /\ new.ttl <= old.ttl
          /\ new.boot = old.boot /\ new.stamp = old.stamp /\ new.number = old.number
      BY <3>1, AgedTyped
    <3>3. new.ttl \in Int /\ old.ttl \in Int
      BY <3>1, <3>2, EntryTyped
    <3>4. IsLive(old)
      BY <1>0, <3>2, <3>3 DEF IsLive
    <3>. QED  BY <3>2, <3>4
  <2>. QED  BY <2>1, <2>2
<1>4. ASSUME NEW m \in wire, AcceptLinkState(n, m) PROVE Goal
  <2>. DEFINE e == [ttl |-> LinkStateTTL, number |-> m.packet.number,
                    boot |-> m.packet.boot, stamp |-> m.packet.stamp]
  <2>1. m.packet.source \in Node
    BY <1>4, AcceptEffect, LinkStatePacketTyped
  <2>2. link_state_packets' = [link_state_packets EXCEPT ![n][m.packet.source] = e]
    BY <1>4 DEF AcceptLinkState
  <2>3. CASE k = n /\ a = m.packet.source
    <3>1. new = e
      BY <1>0, <2>1, <2>2, <2>3
    <3>2. new.number = m.packet.number /\ new.boot = m.packet.boot /\ new.stamp = m.packet.stamp
      BY <3>1
    <3>. QED  BY <1>4, <2>3, <3>2
  <2>4. CASE ~ (k = n /\ a = m.packet.source)
    <3>1. new = old
      BY <1>0, <2>1, <2>2, <2>4
    <3>. QED  BY <1>1, <3>1
  <2>. QED  BY <2>3, <2>4
<1>5. CASE Restart(n)
  <2>1. link_state_packets' = [link_state_packets EXCEPT ![n] = NothingHeard]
    BY <1>5 DEF Restart
  <2>2. CASE k = n
    <3>1. new.ttl = 0
      BY <1>0, <2>1, <2>2 DEF NothingHeard
    <3>. QED  BY <1>0, <3>1 DEF IsLive
  <2>3. CASE k # n
    BY <1>0, <1>1, <2>1, <2>3
  <2>. QED  BY <2>2, <2>3
<1>6. \/ link_state_packets' = link_state_packets \/ net_update(n) \/ Restart(n)
      \/ \E m \in wire : AcceptLinkState(n, m)
  BY DEF Acts, GoOn, Handles, Begin, SendToNext, Return, net_send_link_state_packet,
         net_send_data_packet, AnswerPing, net_notify_ping_response, ForwardData, DeliverData,
         statics
<1>. QED  BY <1>2, <1>3, <1>4, <1>5, <1>6

LEMMA NumberIsNext ==
  ASSUME Types, Announcements, NEW n \in Node
  PROVE  NextNumber(n) = (Before(boots[n].count, setting.number) + (announced[n] + 1)) % Modulus
<1>. DEFINE first == Before(boots[n].count, setting.number)
<1>1. sequence_number[n] = (first + announced[n]) % Modulus
  BY DEF Announcements
<1>2. first \in Int /\ announced[n] \in Int /\ Modulus \in Nat /\ Modulus > 0
  BY SettingTyped, ConstantsTyped DEF Types, Counters, Before
<1>. HIDE DEF first
<1>. DEFINE x == first + announced[n]
<1>3. x \in Int /\ x + 1 = first + (announced[n] + 1) /\ sequence_number[n] = x % Modulus
  BY <1>1, <1>2
<1>. HIDE DEF x
<1>4. ((x % Modulus) + 1) % Modulus = (x + 1) % Modulus
  BY <1>2, <1>3, NumberOfNext
<1>. QED  BY <1>3, <1>4 DEF NextNumber, first

LEMMA LinkStateAnnounced ==
  ASSUME Types, Announcements, NEW n \in Node, net_send_link_state_packet(n)
  PROVE  Announced(LinkState(n), boots', announced', setting'.number)
<1>1. /\ n \notin LinkState(n).nodes
      /\ LinkState(n).source = n /\ LinkState(n).number = NextNumber(n)
      /\ LinkState(n).boot = boots[n].count /\ LinkState(n).stamp = announced[n] + 1
  BY LinkStateTyped
<1>2. Acts(n)
  BY DEF Acts, GoOn
<1>3. setting' = setting /\ boots' = boots
  BY DEF net_send_link_state_packet
<1>4. announced'[n] = announced[n] + 1
  BY DEF net_send_link_state_packet, Types, Counters
<1>5. announced[n] \in Nat /\ boots[n].count \in Nat
  BY DEF Types, Counters
<1>. QED  BY <1>1, <1>3, <1>4, <1>5, NumberIsNext DEF Announced, Made

LEMMA StepAnnouncements ==
  ASSUME Types, Announcements, NEW n \in Node, Acts(n)
  PROVE  Announcements'
<1>0. setting' = setting
  BY StepStacks
<1>1. ASSUME NEW p \in LinkStatePackets, Announced(p, boots, announced, setting.number)
      PROVE  Announced(p, boots', announced', setting'.number)
  BY <1>1, MadeKept, LinkStatePacketTyped DEF Announced
<1>2. ASSUME NEW p \in LinkStatePackets, Travels(p)'
      PROVE  Announced(p, boots', announced', setting'.number)
  <2>1. CASE Travels(p)
    BY <1>1, <2>1 DEF Announcements
  <2>2. CASE net_send_link_state_packet(n) /\ p = LinkState(n)
    BY <2>2, LinkStateAnnounced
  <2>. QED  BY <1>2, <2>1, <2>2, TravelsStep
<1>3. ASSUME NEW k \in Node, buffer'[k] # None, buffer'[k] \in LinkStatePackets
      PROVE  Announced(buffer'[k], boots', announced', setting'.number)
  <2>1. CASE ~ (Idle(k)')
    <3>. DEFINE p == buffer'[k]
    <3>1. \A q : q = p => Travels(q)'
      BY <2>1 DEF Travels
    <3>. HIDE DEF p
    <3>2. \A q \in LinkStatePackets : q = p => Announced(q, boots', announced', setting'.number)
      BY <1>2, <3>1
    <3>. QED  BY <1>3, <3>2 DEF p
  <2>2. CASE Idle(k)' /\ buffer'[k] = buffer[k]
    BY <1>1, <1>3, <2>2 DEF Announcements
  <2>3. CASE net_send_link_state_packet(n) /\ buffer'[k] = LinkState(n)
    BY <2>3, LinkStateAnnounced
  <2>. QED  BY <1>3, <2>1, <2>2, <2>3, IdleBuffers
<1>4. ASSUME NEW k \in Node, NEW a \in Node, IsLive(link_state_packets'[k][a])
      PROVE  Made(a, link_state_packets'[k][a], boots', announced', setting'.number)
  <2>. DEFINE old == link_state_packets[k][a]
              new == link_state_packets'[k][a]
  <2>1. CASE IsLive(old) /\ new.boot = old.boot /\ new.stamp = old.stamp /\ new.number = old.number
    <3>1. old.boot \in Nat /\ old.stamp \in Nat
      BY EntryTyped DEF Types, Tables
    <3>2. Made(a, old, boots', announced', setting'.number)
      BY <2>1, <3>1, MadeKept DEF Announcements
    <3>. QED  BY <2>1, <3>2 DEF Made
  <2>2. ASSUME NEW m \in wire, AcceptLinkState(n, m), a = m.packet.source, new.boot = m.packet.boot,
               new.stamp = m.packet.stamp, new.number = m.packet.number
        PROVE  Made(a, new, boots', announced', setting'.number)
    <3>1. m.packet \in LinkStatePackets
      BY <2>2, AcceptEffect
    <3>2. Announced(m.packet, boots', announced', setting'.number)
      BY <1>1, <3>1 DEF Announcements, Travels
    <3>. QED  BY <2>2, <3>2 DEF Announced, Made
  <2>. QED  BY <1>4, <2>1, <2>2, EntriesStep
<1>5. ASSUME NEW k \in Node
      PROVE  /\ sequence_number'[k] = (Before(boots'[k].count, setting'.number) + announced'[k]) % Modulus
             /\ k \notin setting'.restarting => boots'[k].count = 0
  <2>0. /\ sequence_number[k] = (Before(boots[k].count, setting.number) + announced[k]) % Modulus
        /\ k \notin setting.restarting => boots[k].count = 0
    BY DEF Announcements
  <2>1. CASE boots'[k] = boots[k] /\ announced'[k] = announced[k] /\ sequence_number'[k] = sequence_number[k]
    BY <1>0, <2>0, <2>1
  <2>2. CASE /\ k = n /\ boots' = boots
             /\ announced'[n] = announced[n] + 1 /\ sequence_number'[n] = NextNumber(n)
    BY <1>0, <2>0, <2>2, NumberIsNext
  <2>3. CASE /\ k = n /\ boots'[n].count = 1 /\ announced'[n] = 0 /\ sequence_number'[n] = 0
             /\ n \in setting.restarting
    <3>1. 0 = 0 % Modulus
      BY ConstantsTyped
    <3>2. Before(boots'[k].count, setting'.number) + announced'[k] = 0
      BY <2>3 DEF Before
    <3>. QED  BY <1>0, <2>3, <3>1, <3>2
  <2>. QED  BY <2>1, <2>2, <2>3, HistoriesStep
<1>. QED  BY <1>2, <1>3, <1>4, <1>5 DEF Announcements

LEMMA AnnouncementsKept ==
  ASSUME Types, Announcements, [Next]_vars PROVE Announcements'
<1>1. CASE Forgets
  <2>1. \A p : Travels(p)' => Travels(p)
    BY <1>1, TravelsKept DEF Forgets
  <2>2. UNCHANGED <<setting, buffer, sequence_number, link_state_packets, boots, announced>>
    BY <1>1 DEF Forgets, statics, history
  <2>. QED  BY <2>1, <2>2 DEF Announcements
<1>. QED  BY <1>1, Steps, StepAnnouncements

LEMMA InitAnnouncements == ASSUME Init PROVE Announcements
<1>1. \A p : ~ Travels(p)
  BY DEF Init, Travels, Idle
<1>2. \A n, a \in Node : ~ IsLive(link_state_packets[n][a])
  BY DEF Init, NothingHeard, IsLive
<1>3. setting.number \in 0 .. Modulus - 1
  BY SettingTyped DEF Init
<1>4. setting.number = (setting.number + 0) % Modulus
  BY <1>3, ConstantsTyped
<1>. QED  BY <1>1, <1>2, <1>4 DEF Init, Announcements, Before

LEMMA AnnouncementsAlways == Spec => [](Types /\ Announcements)
<1>1. Init => Types /\ Announcements
  BY InitTypes, InitAnnouncements
<1>2. Types /\ Announcements /\ [Next]_vars => Types' /\ Announcements'
  BY StepTypes, AnnouncementsKept
<1>. QED  BY <1>1, <1>2, PTL DEF Spec

LEMMA TypesImply == ASSUME Types, Announcements PROVE TypeOK
<1>0. \A n \in Node : stack[n] \in Seq(Activation) /\ DOMAIN stack[n] = 1 .. Len(stack[n])
  BY StacksTyped DEF Types
<1>1. ASSUME NEW p \in LinkStatePackets, Announced(p, boots, announced, setting.number)
      PROVE  IsLinkState(p)
  BY <1>1, LinkStatePacketTyped DEF Announced, Made, IsLinkState
<1>2. ASSUME NEW n \in Node, NEW p, IsFrom(n, p, setting.data),
             p \in LinkStatePackets => Announced(p, boots, announced, setting.number)
      PROVE  IsPacket(p)
  BY <1>1, <1>2 DEF IsFrom, IsPacket, IsPing, IsData, Accepted
<1>3. ASSUME NEW n \in Node PROVE buffer[n] = None \/ IsPacket(buffer[n])
  BY <1>2 DEF Types, Buffers, Announcements
<1>4. ASSUME NEW n \in Node, NEW i \in DOMAIN stack[n]
      PROVE  \/ stack[n][i].kind \in {"update", "send"}
             \/ /\ stack[n][i].kind = "flood" /\ IsLinkState(stack[n][i].packet)
                /\ stack[n][i].next \in 0 .. MaxAddress
  <2>1. stack[n][i] \in Activation
    BY <1>0
  <2>2. CASE stack[n][i].kind = "flood"
    <3>1. stack[n][i].packet \in LinkStatePackets /\ stack[n][i].next \in 0 .. MaxAddress
      BY <2>1, <2>2, ActivationTyped
    <3>2. Travels(stack[n][i].packet)
      BY <2>2 DEF Travels
    <3>. QED  BY <1>1, <2>2, <3>1, <3>2 DEF Announcements
  <2>. QED  BY <2>1, <2>2, ActivationTyped
<1>5. ASSUME NEW n \in Node, NEW a \in Node
      PROVE  /\ link_state_packets[n][a].ttl \in 0 .. LinkStateTTL
             /\ link_state_packets[n][a].number \in 0 .. Modulus - 1
  BY EntryTyped DEF Types, Tables
<1>6. ASSUME NEW m \in wire
      PROVE  IsPacket(m.packet) /\ m.to # m.from /\ m.level \in DOMAIN stack[m.from]
  <2>1. /\ m.from \in Node /\ m.to # m.from /\ m.level \in DOMAIN stack[m.from]
        /\ IsFrom(m.from, m.packet, setting.data)
    BY DEF Types, Messages
  <2>2. Travels(m.packet)
    BY DEF Travels
  <2>. QED  BY <1>2, <2>1, <2>2 DEF Announcements
<1>7. \A n \in Node : unanswered[n] \subseteq DOMAIN stack[n]
  BY DEF Types, Pending
<1>. QED  BY <1>3, <1>4, <1>5, <1>6, <1>7 DEF TypeOK, Types, Counters, Tables

\* The buffers, stacks, messages and tables of packets.c and routing.c hold what they are meant
\* to, at every depth of handlers inside sends: packets of the three kinds, link states that
\* name their source's neighbours and not itself, and no entry with more than its lifetime.
THEOREM TypesKept == Spec => []TypeOK
<1>1. Types /\ Announcements => TypeOK
  BY TypesImply
<1>. QED  BY <1>1, AnnouncementsAlways, PTL

-----------------------------------------------------------------------------
(* The newest announcement wins.                                           *)

\* No link state arrives half the circle of numbers behind one that its receiver noted.
Timely ==
  \A m \in wire : m.packet.type = "link state" =>
    LET entry == link_state_packets[m.to][m.packet.source]
    IN IsLive(entry) /\ entry.boot = m.packet.boot =>
         entry.stamp - m.packet.stamp < Modulus - (Modulus \div 2)

NewerWins(n, m) ==
  LET old == link_state_packets[n][m.packet.source]
  IN IsLive(old) /\ old.boot = m.packet.boot => m.packet.stamp > old.stamp

\* Less than half the circle back is not ahead.
LEMMA OlderIsNotNewer ==
  ASSUME NEW first \in Int, NEW new \in Int, NEW old \in Int,
         new <= old, old - new < Modulus - (Modulus \div 2)
  PROVE  ~ IsNewer((first + new) % Modulus, (first + old) % Modulus)
<1>. DEFINE h == Modulus \div 2
            u == first + new
            v == first + old
            q == u \div Modulus
            r == u % Modulus
            e == v \div Modulus
            s == v % Modulus
            d == old - new
            x == r + (Modulus - s)
<1>0. Modulus \in Nat /\ Modulus > 0
  BY ConstantsTyped
<1>1. h \in Nat /\ h < Modulus
  BY <1>0
<1>2. u \in Int /\ v \in Int /\ v = u + d /\ d \in Nat /\ d < Modulus - h
  BY <1>0, <1>1
<1>. HIDE DEF h, u, v, d
<1>3. /\ q \in Int /\ r \in Nat /\ r < Modulus /\ u = Modulus * q + r
      /\ e \in Int /\ s \in Nat /\ s < Modulus /\ v = Modulus * e + s
  BY <1>0, <1>2, Division
<1>. HIDE DEF q, r, e, s
<1>4. /\ Modulus * (q - e) = Modulus * q - Modulus * e
      /\ Modulus * (e - q) = Modulus * e - Modulus * q
      /\ Modulus * q \in Int /\ Modulus * e \in Int /\ q - e \in Int /\ e - q \in Int
  BY <1>0, <1>3, Distributes
<1>. DEFINE mq == Modulus * q
            me == Modulus * e
            c == Modulus * (e - q)
<1>5. /\ u = mq + r /\ v = me + s /\ c = me - mq /\ mq \in Int /\ me \in Int /\ c \in Int
  BY <1>3, <1>4
<1>. HIDE DEF mq, me, c
<1>6. s - r = d - c /\ x = (Modulus - d) + c
  BY <1>0, <1>2, <1>3, <1>5
<1>. HIDE DEF x
<1>7. ASSUME d = 0 PROVE x % Modulus = 0
  <2>1. -Modulus < c /\ c < Modulus
    BY <1>0, <1>3, <1>5, <1>6, <1>7
  <2>2. c = 0
    BY <1>0, <1>4, <2>1, SmallMultiple DEF c
  <2>3. x = Modulus
    BY <1>0, <1>6, <1>7, <2>2
  <2>. QED  BY <1>0, <2>3
<1>8. ASSUME d > 0 PROVE x % Modulus = Modulus - d
  <2>1. x = Modulus * (e - q) + (Modulus - d)
    BY <1>0, <1>2, <1>5, <1>6 DEF c
  <2>2. Modulus - d \in Int /\ 0 <= Modulus - d /\ Modulus - d < Modulus
    BY <1>0, <1>1, <1>2, <1>8
  <2>3. x \in Int
    BY <1>0, <1>2, <1>5, <1>6
  <2>. QED  BY <1>0, <1>4, <2>1, <2>2, <2>3, RemainderIs
<1>9. x % Modulus \notin 1 .. h
  BY <1>0, <1>1, <1>2, <1>7, <1>8
<1>10. ~ IsNewer(r, s)
  BY <1>9 DEF IsNewer, x, h
<1>11. r = (first + new) % Modulus
  BY Zenon DEF r, u
<1>12. s = (first + old) % Modulus
  BY Zenon DEF s, v
<1>. QED  BY <1>10, <1>11, <1>12

LEMMA AcceptsNewer ==
  ASSUME Types, Announcements, Timely, NEW n \in Node, NEW m \in wire, AcceptLinkState(n, m)
  PROVE  NewerWins(n, m)
<1>. DEFINE a == m.packet.source
            old == link_state_packets[n][a]
<1>1. SUFFICES ASSUME IsLive(old), old.boot = m.packet.boot, ~ (m.packet.stamp > old.stamp)
               PROVE  FALSE
  BY DEF NewerWins
<1>2. m.packet \in LinkStatePackets /\ m.to = n /\ a \in Node /\ m.packet.type = "link state"
  BY AcceptEffect, LinkStatePacketTyped
<1>3. m.packet.stamp \in Nat /\ m.packet.boot \in Nat /\ old \in Entries
  BY <1>2, LinkStatePacketTyped DEF Types, Tables
<1>4. old.stamp \in Nat
  BY <1>3, EntryTyped
<1>5. old.stamp - m.packet.stamp < Modulus - (Modulus \div 2)
  BY <1>1, <1>2 DEF Timely
<1>6. Made(a, m.packet, boots, announced, setting.number)
  <2>1. Travels(m.packet)
    BY DEF Travels
  <2>. QED  BY <1>2, <2>1 DEF Announcements, Announced
<1>7. Made(a, old, boots, announced, setting.number)
  BY <1>1, <1>2 DEF Announcements
<1>. DEFINE first == Before(old.boot, setting.number)
            number == m.packet.number
            new_stamp == m.packet.stamp
            old_stamp == old.stamp
<1>8. first \in Int
  BY SettingTyped DEF Before, Types, Counters
<1>9. number = (first + new_stamp) % Modulus /\ old.number = (first + old_stamp) % Modulus
  BY <1>1, <1>6, <1>7 DEF Made
<1>10. IsNewer(number, old.number)
  BY <1>1 DEF AcceptLinkState, IsNews
<1>11. ~ IsNewer((first + new_stamp) % Modulus, (first + old_stamp) % Modulus)
  <2>1. new_stamp \in Int /\ old_stamp \in Int /\ new_stamp <= old_stamp
    BY <1>1, <1>3, <1>4
  <2>. QED  BY <1>5, <1>8, <2>1, OlderIsNotNewer
<1>. QED  BY <1>9, <1>10, <1>11

\* While no link state is half the circle late, net_notify_link_state_packet() replaces a live
\* entry by a later announcement only, in any network and however often the numbers wrap: packets
\* may be lost, delayed and overtake each other, and nodes may restart.
THEOREM NewestWinsIfTimely == Spec /\ []Timely => NewestWins
<1>1. Types /\ Announcements /\ Timely /\ [Next]_vars =>
        [\A n \in Node : \A m \in wire : AcceptLinkState(n, m) =>
           LET old == link_state_packets[n][m.packet.source]
           IN IsLive(old) /\ old.boot = m.packet.boot => m.packet.stamp > old.stamp]_vars
  BY AcceptsNewer DEF NewerWins
<1>. QED  BY <1>1, AnnouncementsAlways, PTL DEF Spec, NewestWins

-----------------------------------------------------------------------------
(* A period that begins once the packets of the last were handled: of every *)
(* source at most one announcement travels, and none that is half the       *)
(* circle late.                                                             *)

\* What net_update_routing() starts is at the bottom of the stack: it runs in the main loop.
IsOwn(n, activation) ==
  activation.kind = "update" \/ (activation.kind = "flood" /\ activation.packet.source = n)

OwnAtBottom == \A n \in Node : \A i \in DOMAIN stack[n] : i > 1 => ~ IsOwn(n, stack[n][i])

\* n has sent its ping request and not yet its announcement.
Updates(n) == \E i \in DOMAIN stack[n] : stack[n][i].kind = "update"

LEMMA StackStep ==
  ASSUME Types, NEW n \in Node, NEW act \in Activation, NEW q, Sends(n, act, q),
         NEW i \in DOMAIN stack'[n]
  PROVE  \/ i \in DOMAIN stack[n] /\ stack'[n][i] = stack[n][i]
         \/ /\ stack'[n][i] = act
            /\ \/ Pushes(n, act) /\ i = Len(stack[n]) + 1
               \/ Replaces(n, act) /\ i = Len(stack[n]) /\ i \in DOMAIN stack[n]
<1>1. stack'[n] \in Seq(Activation) /\ (Same(n) \/ Pushes(n, act) \/ Replaces(n, act) \/ Pops(n))
  BY DEF Sends
<1>2. /\ DOMAIN stack'[n] = 1 .. Len(stack'[n]) /\ Len(stack'[n]) \in Nat
      /\ DOMAIN stack[n] = 1 .. Len(stack[n]) /\ Len(stack[n]) \in Nat
      /\ stack[n] # <<>> => Len(stack[n]) > 0
  BY <1>1, StacksTyped DEF Types, Idle
<1>3. CASE Same(n)
  BY <1>3 DEF Same
<1>4. CASE Pushes(n, act)
  BY <1>2, <1>4 DEF Pushes
<1>5. CASE Replaces(n, act)
  BY <1>2, <1>5 DEF Replaces
<1>6. CASE Pops(n)
  BY <1>2, <1>6 DEF Pops
<1>. QED  BY <1>1, <1>3, <1>4, <1>5, <1>6

\* A step that neither updates nor announces.
LEMMA OwnKept ==
  ASSUME Types, OwnAtBottom, NEW n \in Node, NEW act \in Activation, NEW q, Sends(n, act, q),
         act.kind # "update",
         IsOwn(n, act) => ~ Idle(n) /\ IsOwn(n, Top(n)) /\ ~ Pushes(n, act)
  PROVE  OwnAtBottom' /\ \A k \in Node : Updates(k)' => Updates(k)
<1>1. \A k \in Node \ {n} : stack'[k] = stack[k]
  BY DEF Sends, Others
<1>2. Len(stack[n]) \in Nat /\ DOMAIN stack[n] = 1 .. Len(stack[n])
  BY StacksTyped DEF Types
<1>3. ASSUME NEW i \in DOMAIN stack'[n], i > 1 PROVE ~ IsOwn(n, stack'[n][i])
  <2>1. CASE i \in DOMAIN stack[n] /\ stack'[n][i] = stack[n][i]
    BY <1>3, <2>1 DEF OwnAtBottom
  <2>2. CASE stack'[n][i] = act /\ Pushes(n, act)
    BY <2>2
  <2>3. CASE stack'[n][i] = act /\ i = Len(stack[n]) /\ i \in DOMAIN stack[n]
    <3>1. ~ IsOwn(n, Top(n))
      BY <1>3, <2>3 DEF OwnAtBottom, Top
    <3>. QED  BY <2>3, <3>1
  <2>. QED  BY <2>1, <2>2, <2>3, StackStep
<1>4. Updates(n)' => Updates(n)
  BY StackStep DEF Updates
<1>5. \A k \in Node \ {n} : Updates(k)' => Updates(k)
  BY <1>1 DEF Updates
<1>6. OwnAtBottom'
  BY <1>1, <1>3 DEF OwnAtBottom
<1>. QED  BY <1>4, <1>5, <1>6

LEMMA OwnStep ==
  ASSUME Types, OwnAtBottom, NEW n \in Node, Acts(n)
  PROVE  /\ OwnAtBottom'
         /\ \A k \in Node : Updates(k)' => Updates(k) \/ (k = n /\ net_update(n))
         /\ net_send_link_state_packet(n) => Updates(n) /\ ~ (Updates(n)')
<1>0. Send \in Activation /\ Send.kind = "send" /\ ~ IsOwn(n, Send)
  BY SendIsActivation DEF Send, IsOwn
<1>. DEFINE Goal == OwnAtBottom' /\ \A k \in Node : Updates(k)' => Updates(k)
<1>1. ASSUME SendToNext(n) PROVE Goal
  <2>1. PICK act \in Activation :
          /\ Sends(n, act, buffer[n]) /\ Replaces(n, act)
          /\ Top(n).kind = "flood" /\ act.kind = "flood" /\ act.packet = Top(n).packet
    BY <1>1, SendToNextEffect
  <2>2. ~ Pushes(n, act) /\ ~ Idle(n)
    BY <2>1, StacksTyped DEF Pushes, Replaces, Idle, Types
  <2>3. IsOwn(n, act) => IsOwn(n, Top(n))
    BY <2>1 DEF IsOwn
  <2>. QED  BY <2>1, <2>2, <2>3, OwnKept
<1>2. ASSUME Return(n) PROVE Goal
  BY <1>0, <1>2, ReturnEffect, OwnKept
<1>3. ASSUME net_send_link_state_packet(n)
      PROVE  Goal /\ Updates(n) /\ ~ (Updates(n)')
  <2>. DEFINE act == Flood(LinkState(n), None)
  <2>1. /\ Sends(n, act, LinkState(n)) /\ act \in Activation /\ act.kind = "flood"
        /\ Replaces(n, act) \/ Pops(n)
        /\ Top(n).kind = "update" /\ ~ Idle(n)
    BY <1>3, AnnounceEffect DEF Flood
  <2>. HIDE DEF act
  <2>2. Len(stack[n]) \in DOMAIN stack[n] /\ Len(stack[n]) \in Nat /\ DOMAIN stack[n] = 1 .. Len(stack[n])
    BY <2>1, StacksTyped DEF Types
  <2>3. Len(stack[n]) = 1
    <3>1. IsOwn(n, stack[n][Len(stack[n])])
      BY <2>1 DEF IsOwn, Top
    <3>2. ~ (Len(stack[n]) > 1)
      BY <2>2, <3>1 DEF OwnAtBottom
    <3>3. Len(stack[n]) > 0
      BY <2>1, StacksTyped DEF Types
    <3>. DEFINE l == Len(stack[n])
    <3>4. l \in Nat /\ l > 0 /\ ~ (l > 1)
      BY <2>2, <3>2, <3>3
    <3>. HIDE DEF l
    <3>5. l = 1
      BY <3>4
    <3>. QED  BY <3>5 DEF l
  <2>4. Updates(n)
    BY <2>1, <2>2 DEF Updates, Top
  <2>5. ASSUME NEW i \in DOMAIN stack'[n] PROVE i = 1 /\ stack'[n][i] = act
    <3>1. stack'[n] \in Seq(Activation)
      BY <2>1 DEF Sends
    <3>2. DOMAIN stack'[n] = 1 .. Len(stack'[n])
      BY <3>1
    <3>3. CASE Replaces(n, act)
      BY <2>3, <3>2, <3>3 DEF Replaces
    <3>4. CASE Pops(n)
      BY <2>3, <3>2, <3>4 DEF Pops
    <3>. QED  BY <2>1, <3>3, <3>4
  <2>6. ~ (Updates(n)')
    BY <2>1, <2>5 DEF Updates
  <2>7. \A k \in Node \ {n} : stack'[k] = stack[k]
    BY <2>1 DEF Sends, Others
  <2>8. OwnAtBottom'
    BY <2>5, <2>7 DEF OwnAtBottom
  <2>9. \A k \in Node : Updates(k)' => Updates(k)
    BY <2>6, <2>7 DEF Updates
  <2>. QED  BY <2>4, <2>6, <2>8, <2>9
<1>4. ASSUME net_update(n)
      PROVE  OwnAtBottom' /\ \A k \in Node : Updates(k)' => Updates(k) \/ k = n
  <2>. DEFINE act == [kind |-> "update"]
              q == [type |-> "ping request"]
  <2>1. Sends(n, act, q) /\ Pushes(n, act) /\ Idle(n)
    BY <1>4, UpdateEffect
  <2>. HIDE DEF act, q
  <2>2. \A k \in Node \ {n} : stack'[k] = stack[k]
    BY <2>1 DEF Sends, Others
  <2>3. stack'[n] \in Seq(Activation) /\ Len(stack[n]) = 0
    BY <2>1, StacksTyped DEF Sends, Types
  <2>4. DOMAIN stack'[n] = 1 .. 1
    BY <2>1, <2>3 DEF Pushes
  <2>5. OwnAtBottom'
    BY <2>2, <2>4 DEF OwnAtBottom
  <2>. QED  BY <2>2, <2>5 DEF Updates
<1>5. ASSUME net_send_data_packet(n) PROVE Goal
  <2>1. CASE UNCHANGED <<setting, stack, buffer, wire>>
    BY <2>1 DEF OwnAtBottom, Updates
  <2>2. ASSUME NEW d \in Accepted(setting.data), Sends(n, Send, d) PROVE Goal
    BY <1>0, <2>2, OwnKept
  <2>. QED  BY <1>5, <2>1, <2>2, DataEffect
<1>6. ASSUME NEW m \in wire, AcceptLinkState(n, m) PROVE Goal
  <2>. DEFINE act == Flood(m.packet, m.from)
  <2>1. Sends(n, act, m.packet) /\ act \in Activation /\ act.packet = m.packet /\ act.kind = "flood"
    BY <1>6, AcceptEffect DEF Flood
  <2>2. m.packet.source # n
    BY <1>6 DEF AcceptLinkState, IsNews
  <2>. HIDE DEF act
  <2>3. ~ IsOwn(n, act)
    BY <2>1, <2>2 DEF IsOwn
  <2>. QED  BY <2>1, <2>3, OwnKept
<1>7. ASSUME NEW m \in wire, AnswerPing(n, m) PROVE Goal
  BY <1>0, <1>7, AnswerEffect, OwnKept
<1>8. ASSUME NEW m \in wire, ForwardData(n, m) PROVE Goal
  BY <1>0, <1>8, ForwardEffect, OwnKept
<1>9. ASSUME stack' = stack PROVE Goal
  BY <1>9 DEF OwnAtBottom, Updates
<1>10. ASSUME Restart(n) PROVE Goal
  <2>1. /\ \A k \in Node \ {n} : stack'[k] = stack[k]
        /\ DOMAIN stack'[n] = {}
    BY <1>10, RestartEffect DEF Others
  <2>. QED  BY <2>1 DEF OwnAtBottom, Updates
<1>11. Goal \/ net_send_link_state_packet(n) \/ net_update(n)
  BY <1>1, <1>2, <1>5, <1>6, <1>7, <1>8, <1>9, <1>10
     DEF Acts, GoOn, Handles, Begin, net_notify_ping_response, DeliverData
<1>12. net_update(n) => ~ net_send_link_state_packet(n)
  BY DEF net_update, net_send_link_state_packet
<1>. QED  BY <1>3, <1>4, <1>11, <1>12

LEMMA OwnAtBottomKept == ASSUME Types, OwnAtBottom, [Next]_vars PROVE OwnAtBottom'
<1>1. CASE Forgets
  BY <1>1 DEF Forgets, OwnAtBottom
<1>. QED  BY <1>1, OwnStep, Steps

LEMMA InitOwnAtBottom == ASSUME Init PROVE OwnAtBottom
BY DEF Init, OwnAtBottom

Behind(a) == \E m \in Node : rounds[a] < rounds[m]

PeriodsTogether ==
  /\ \A m, n \in Node : rounds[m] <= rounds[n] + 1
  /\ \A n \in Node : Updates(n) => ~ Behind(n)

\* A source whose period is still to begin, or that has not yet announced itself in it, has
\* nothing under way.
NothingPending ==
  \A a \in Node : Behind(a) \/ Updates(a) =>
    \A p \in LinkStatePackets : Travels(p) => p.source # a

OneTravels ==
  \A p, q \in LinkStatePackets : Travels(p) /\ Travels(q) /\ p.source = q.source =>
    p.boot = q.boot /\ p.stamp = q.stamp

NotedIsNotLater ==
  \A p \in LinkStatePackets : \A n \in Node : Travels(p) =>
    LET entry == link_state_packets[n][p.source]
    IN IsLive(entry) /\ entry.boot = p.boot => entry.stamp <= p.stamp

Prompt == PeriodsTogether /\ NothingPending /\ OneTravels /\ NotedIsNotLater

LEMMA RoundsStep ==
  ASSUME Types, NEW n \in Node, Acts(n)
  PROVE  \/ rounds' = rounds /\ ~ net_update(n)
         \/ /\ net_update(n) /\ rounds'[n] = rounds[n] + 1
            /\ \A k \in Node \ {n} : rounds'[k] = rounds[k]
<1>1. CASE net_update(n)
  BY <1>1 DEF net_update, Types, Counters
<1>2. CASE rounds' = rounds /\ ~ net_update(n)
  BY <1>2
<1>. QED  BY <1>1, <1>2 DEF Acts, GoOn, Handles, Begin, SendToNext, Return, AcceptLinkState,
       net_send_link_state_packet, net_notify_ping_response, net_send_data_packet, AnswerPing,
       ForwardData, DeliverData, Restart

LEMMA NothingTravelsAtRest == ASSUME AtRest, NEW p PROVE ~ Travels(p)
BY DEF AtRest, Travels, Idle

\* When n begins its period, all are at rest or n is the one that is behind.
LEMMA UpdateIsDue ==
  ASSUME Types, PeriodsTogether, setting.prompt, NEW n \in Node, net_update(n)
  PROVE  (AtRest \/ Behind(n)) /\ \A m \in Node : rounds[n] <= rounds[m]
<1>1. /\ AtRest \/ Behind(n)
      /\ \A m \in Node : rounds[n] <= rounds[m] \/ unanswered[m] # {}
  BY DEF net_update, IsDue, Behind
<1>2. \A k \in Node : rounds[k] \in Nat
  BY DEF Types, Counters
<1>3. CASE AtRest
  <2>1. \A m \in Node : unanswered[m] = {}
    BY <1>3 DEF AtRest, Idle, Types, Pending
  <2>. QED  BY <1>1, <2>1
<1>4. CASE Behind(n)
  <2>1. PICK j \in Node : rounds[n] < rounds[j]
    BY <1>4 DEF Behind
  <2>2. \A m \in Node : rounds[j] <= rounds[m] + 1
    BY DEF PeriodsTogether
  <2>. QED  BY <1>1, <1>2, <2>1, <2>2
<1>. QED  BY <1>1, <1>3, <1>4

LEMMA PeriodsStep ==
  ASSUME Types, OwnAtBottom, PeriodsTogether, setting.prompt, NEW n \in Node, Acts(n)
  PROVE  PeriodsTogether'
<1>1. rounds \in [Node -> Nat] /\ \A k \in Node : rounds[k] \in Nat
  BY DEF Types, Counters
<1>2. \A k \in Node : Updates(k)' => Updates(k) \/ (k = n /\ net_update(n))
  BY OwnStep
<1>3. CASE rounds' = rounds /\ ~ net_update(n)
  BY <1>2, <1>3 DEF PeriodsTogether, Behind
<1>4. CASE /\ net_update(n) /\ rounds'[n] = rounds[n] + 1
           /\ \A k \in Node \ {n} : rounds'[k] = rounds[k]
  <2>1. (AtRest \/ Behind(n)) /\ \A m \in Node : rounds[n] <= rounds[m]
    BY <1>4, UpdateIsDue
  <2>2. \A m \in Node : rounds[m] <= rounds[n] + 1
    BY DEF PeriodsTogether
  <2>3. ASSUME NEW m \in Node, NEW k \in Node PROVE rounds'[m] <= rounds'[k] + 1
    <3>1. rounds[m] <= rounds[k] + 1
      BY DEF PeriodsTogether
    <3>2. rounds'[m] = rounds[m] \/ (m = n /\ rounds'[m] = rounds[n] + 1)
      BY <1>4
    <3>3. rounds'[k] = rounds[k] \/ (k = n /\ rounds'[k] = rounds[n] + 1)
      BY <1>4
    <3>. QED  BY <1>1, <2>1, <2>2, <3>1, <3>2, <3>3
  <2>4. ASSUME NEW k \in Node, Updates(k)', NEW m \in Node PROVE ~ (rounds'[k] < rounds'[m])
    <3>1. CASE k = n
      BY <1>1, <1>4, <2>2, <3>1
    <3>2. CASE k # n
      <4>1. Updates(k)
        BY <1>2, <2>4, <3>2
      <4>2. ~ Behind(k) /\ ~ AtRest
        BY <4>1 DEF PeriodsTogether, Updates, AtRest, Idle
      <4>3. PICK j \in Node : rounds[n] < rounds[j]
        BY <2>1, <4>2 DEF Behind
      <4>4. ~ (rounds[k] < rounds[j]) /\ ~ (rounds[k] < rounds[m])
        BY <4>2 DEF Behind
      <4>. QED  BY <1>1, <1>4, <3>2, <4>3, <4>4
    <3>. QED  BY <3>1, <3>2
  <2>. QED  BY <2>3, <2>4 DEF PeriodsTogether, Behind
<1>. QED  BY <1>3, <1>4, RoundsStep

LEMMA PendingStep ==
  ASSUME Types, OwnAtBottom, PeriodsTogether, NothingPending, setting.prompt,
         NEW n \in Node, Acts(n)
  PROVE  NothingPending'
<1>. SUFFICES ASSUME NEW a \in Node, Behind(a)' \/ Updates(a)', NEW p \in LinkStatePackets, Travels(p)'
              PROVE  p.source # a
  BY DEF NothingPending
<1>1. \A k \in Node : Updates(k)' => Updates(k) \/ (k = n /\ net_update(n))
  BY OwnStep
<1>2. CASE net_send_link_state_packet(n)
  <2>1. Updates(n) /\ ~ (Updates(n)')
    BY <1>2, OwnStep
  <2>2. ~ Behind(n)
    BY <2>1 DEF PeriodsTogether
  <2>3. rounds' = rounds
    BY <1>2 DEF net_send_link_state_packet
  <2>4. a # n /\ (Behind(a) \/ Updates(a))
    BY <1>1, <2>1, <2>2, <2>3 DEF Behind
  <2>5. CASE Travels(p)
    BY <2>4, <2>5 DEF NothingPending
  <2>6. CASE p = LinkState(n)
    BY <2>4, <2>6, LinkStateTyped
  <2>. QED  BY <2>5, <2>6, TravelsStep
<1>3. CASE ~ net_send_link_state_packet(n)
  <2>1. Travels(p)
    BY <1>3, TravelsStep
  <2>2. CASE rounds' = rounds /\ ~ net_update(n)
    BY <1>1, <2>1, <2>2 DEF NothingPending, Behind
  <2>3. CASE /\ net_update(n) /\ rounds'[n] = rounds[n] + 1
             /\ \A k \in Node \ {n} : rounds'[k] = rounds[k]
    <3>0. \A k \in Node : rounds[k] \in Nat
      BY DEF Types, Counters
    <3>1. Behind(n) /\ \A m \in Node : rounds[n] <= rounds[m]
      BY <2>1, <2>3, UpdateIsDue, NothingTravelsAtRest
    <3>2. PICK j \in Node : rounds[n] < rounds[j]
      BY <3>1 DEF Behind
    <3>3. Behind(a) \/ Updates(a)
      <4>1. CASE a = n
        BY <3>1, <4>1
      <4>2. CASE a # n /\ Behind(a)'
        <5>1. PICK m \in Node : rounds'[a] < rounds'[m]
          BY <4>2 DEF Behind
        <5>2. rounds[a] < rounds[m] \/ rounds[a] < rounds[j]
          BY <2>3, <3>0, <3>1, <3>2, <4>2, <5>1
        <5>. QED  BY <5>2 DEF Behind
      <4>3. CASE a # n /\ Updates(a)'
        BY <1>1, <4>3
      <4>. QED  BY <4>1, <4>2, <4>3
    <3>. QED  BY <2>1, <3>3 DEF NothingPending
  <2>. QED  BY <2>2, <2>3, RoundsStep
<1>. QED  BY <1>2, <1>3

LEMMA OneTravelsStep ==
  ASSUME Types, OwnAtBottom, NothingPending, OneTravels, NEW n \in Node, Acts(n)
  PROVE  OneTravels'
<1>. SUFFICES ASSUME NEW p \in LinkStatePackets, NEW q \in LinkStatePackets,
                     Travels(p)', Travels(q)', p.source = q.source
              PROVE  p.boot = q.boot /\ p.stamp = q.stamp
  BY DEF OneTravels
<1>1. CASE Travels(p) /\ Travels(q)
  BY <1>1 DEF OneTravels
<1>2. CASE net_send_link_state_packet(n)
  <2>1. \A r \in LinkStatePackets : Travels(r) => r.source # n
    BY <1>2, OwnStep DEF NothingPending
  <2>2. LinkState(n).source = n
    BY LinkStateTyped
  <2>3. (Travels(p) \/ p = LinkState(n)) /\ (Travels(q) \/ q = LinkState(n))
    BY TravelsStep
  <2>. QED  BY <1>1, <2>1, <2>2, <2>3
<1>. QED  BY <1>1, <1>2, TravelsStep

LEMMA NotedStep ==
  ASSUME Types, Announcements, OneTravels, NotedIsNotLater, NEW n \in Node, Acts(n)
  PROVE  NotedIsNotLater'
<1>. SUFFICES ASSUME NEW p \in LinkStatePackets, NEW k \in Node, Travels(p)',
                     IsLive(link_state_packets'[k][p.source]),
                     link_state_packets'[k][p.source].boot = p.boot
              PROVE  link_state_packets'[k][p.source].stamp <= p.stamp
  BY DEF NotedIsNotLater, IsLive
<1>. DEFINE a == p.source
            old == link_state_packets[k][a]
            new == link_state_packets'[k][a]
<1>0. p.stamp \in Nat /\ a \in Node /\ old \in Entries /\ old.stamp \in Nat
  BY LinkStatePacketTyped, EntryTyped DEF Types, Tables
<1>1. CASE IsLive(old) /\ new.boot = old.boot /\ new.stamp = old.stamp
  <2>1. CASE Travels(p)
    BY <1>1, <2>1 DEF NotedIsNotLater
  <2>2. CASE net_send_link_state_packet(n) /\ p = LinkState(n)
    <3>1. /\ a = n /\ p.boot = boots[n].count /\ p.stamp = announced[n] + 1 /\ announced[n] \in Nat
      BY <2>2, LinkStateTyped DEF Types, Counters
    <3>2. Made(n, old, boots, announced, setting.number)
      BY <1>1, <3>1 DEF Announcements
    <3>3. old.stamp <= announced[n]
      BY <1>1, <3>1, <3>2 DEF Made
    <3>. QED  BY <1>0, <1>1, <3>1, <3>3
  <2>. QED  BY <2>1, <2>2, TravelsStep
<1>2. ASSUME NEW m \in wire, AcceptLinkState(n, m), a = m.packet.source,
             new.boot = m.packet.boot, new.stamp = m.packet.stamp
      PROVE  new.stamp <= p.stamp
  <2>1. m.packet \in LinkStatePackets /\ Travels(m.packet)
    BY <1>2, AcceptEffect DEF Travels
  <2>2. ~ net_send_link_state_packet(n)
    BY <1>2 DEF AcceptLinkState, Takes, Polls, net_send_link_state_packet
  <2>3. Travels(p)
    BY <2>2, TravelsStep
  <2>4. p.stamp = m.packet.stamp
    BY <1>2, <2>1, <2>3 DEF OneTravels
  <2>. QED  BY <1>0, <1>2, <2>4
<1>. QED  BY <1>0, <1>1, <1>2, EntriesStep

LEMMA PromptKept ==
  ASSUME Types, Announcements, OwnAtBottom, setting.prompt, Prompt, [Next]_vars
  PROVE  Prompt'
<1>1. CASE Forgets
  <2>1. \A p : Travels(p)' => Travels(p)
    BY <1>1, TravelsKept DEF Forgets
  <2>2. UNCHANGED <<rounds, stack, link_state_packets>>
    BY <1>1 DEF Forgets, statics
  <2>3. PeriodsTogether'
    BY <2>2 DEF Prompt, PeriodsTogether, Behind, Updates
  <2>4. NothingPending'
    BY <2>1, <2>2 DEF Prompt, NothingPending, Behind, Updates
  <2>5. OneTravels' /\ NotedIsNotLater'
    BY <2>1, <2>2 DEF Prompt, OneTravels, NotedIsNotLater
  <2>. QED  BY <2>3, <2>4, <2>5 DEF Prompt
<1>2. ASSUME NEW n \in Node, Acts(n) PROVE Prompt'
  BY <1>2, PeriodsStep, PendingStep, OneTravelsStep, NotedStep DEF Prompt
<1>. QED  BY <1>1, <1>2, Steps

LEMMA InitPrompt == ASSUME Init PROVE Prompt
<1>1. \A p : ~ Travels(p)
  BY DEF Init, Travels, Idle
<1>2. rounds = [n \in Node |-> 0] /\ \A n \in Node : ~ Updates(n)
  BY DEF Init, Updates
<1>. QED  BY <1>1, <1>2 DEF Prompt, PeriodsTogether, NothingPending, OneTravels, NotedIsNotLater, Behind

LEMMA NotAheadIsTimely ==
  ASSUME NEW e \in Nat, NEW s \in Nat, e <= s
  PROVE  e - s < Modulus - (Modulus \div 2)
<1>. DEFINE h == Modulus \div 2
<1>1. Modulus \in Nat /\ Modulus > 0
  BY ConstantsTyped
<1>2. h \in Int /\ h < Modulus
  BY <1>1
<1>. HIDE DEF h
<1>3. e - s < Modulus - h
  BY <1>1, <1>2
<1>. QED  BY <1>3 DEF h

LEMMA PromptIsTimely == ASSUME Types, Prompt PROVE Timely
<1>. SUFFICES ASSUME NEW m \in wire, m.packet.type = "link state",
                     IsLive(link_state_packets[m.to][m.packet.source]),
                     link_state_packets[m.to][m.packet.source].boot = m.packet.boot
              PROVE  link_state_packets[m.to][m.packet.source].stamp - m.packet.stamp
                       < Modulus - (Modulus \div 2)
  BY DEF Timely
<1>. DEFINE p == m.packet
            entry == link_state_packets[m.to][p.source]
<1>1. p \in LinkStatePackets /\ m.to \in Node /\ Travels(p)
  BY MessageTyped DEF Travels
<1>2. p.stamp \in Nat /\ p.source \in Node /\ entry.stamp \in Nat
  BY <1>1, LinkStatePacketTyped, EntryTyped DEF Types, Tables
<1>3. entry.stamp <= p.stamp
  BY <1>1 DEF Prompt, NotedIsNotLater
<1>4. entry.stamp - p.stamp < Modulus - (Modulus \div 2)
  BY <1>2, <1>3, NotAheadIsTimely
<1>. QED  BY <1>4

LEMMA PromptAlways == Spec => [](Types /\ Announcements /\ OwnAtBottom /\ (setting.prompt => Prompt))
<1>. DEFINE IInv == Types /\ Announcements /\ OwnAtBottom /\ (setting.prompt => Prompt)
<1>1. Init => IInv
  BY InitTypes, InitAnnouncements, InitOwnAtBottom, InitPrompt
<1>2. IInv /\ [Next]_vars => IInv'
  <2>. SUFFICES ASSUME IInv, [Next]_vars PROVE IInv'
    OBVIOUS
  <2>1. Types' /\ Announcements' /\ OwnAtBottom'
    BY StepTypes, AnnouncementsKept, OwnAtBottomKept
  <2>2. setting' = setting
    BY Steps, StepStacks DEF Forgets
  <2>. QED  BY <2>1, <2>2, PromptKept
<1>. QED  BY <1>1, <1>2, PTL DEF Spec

\* Where a period begins only when the packets of the last were handled, which takes milliseconds
\* of its ten seconds, a live entry is replaced by a later announcement only: then none is half
\* the circle late.
THEOREM NewestWinsIfPrompt == Spec /\ []setting.prompt => NewestWins
<1>1. Types /\ Announcements /\ OwnAtBottom /\ (setting.prompt => Prompt) /\ setting.prompt => Timely
  BY PromptIsTimely
<1>. QED  BY <1>1, PromptAlways, NewestWinsIfTimely, PTL

-----------------------------------------------------------------------------
(* Floods do not pile up on the call stack.                                *)

IsForeign(n, activation) == activation.kind = "flood" /\ activation.packet.source # n

\* While a node floods a packet on, its entry is that of the packet or of a later one.
FloodsNoted ==
  \A n \in Node : \A i \in DOMAIN stack[n] : IsForeign(n, stack[n][i]) =>
    LET p == stack[n][i].packet
        entry == link_state_packets[n][p.source]
    IN IsLive(entry) /\ entry.boot = p.boot /\ p.stamp <= entry.stamp

FloodsOrdered ==
  \A n \in Node : \A i, j \in DOMAIN stack[n] :
    /\ i < j /\ IsForeign(n, stack[n][i]) /\ IsForeign(n, stack[n][j])
    /\ stack[n][i].packet.source = stack[n][j].packet.source
    => stack[n][i].packet.stamp < stack[n][j].packet.stamp

\* All that travels of a source is from one start of it.
OneStart ==
  \A p, q \in LinkStatePackets : Travels(p) /\ Travels(q) /\ p.source = q.source => p.boot = q.boot

LEMMA EntriesOfOthers ==
  ASSUME Types, NEW n \in Node, Acts(n)
  PROVE  /\ \A k \in Node \ {n} : link_state_packets'[k] = link_state_packets[k]
         /\ \/ link_state_packets' = link_state_packets \/ net_update(n) \/ Restart(n)
            \/ \E m \in wire : AcceptLinkState(n, m)
<1>0. link_state_packets \in [Node -> [Node -> Entries]]
  BY DEF Types, Tables
<1>1. \/ link_state_packets' = link_state_packets \/ net_update(n) \/ Restart(n)
      \/ \E m \in wire : AcceptLinkState(n, m)
  BY DEF Acts, GoOn, Handles, Begin, SendToNext, Return, net_send_link_state_packet,
         net_send_data_packet, AnswerPing, net_notify_ping_response, ForwardData, DeliverData,
         statics
<1>2. ASSUME net_update(n), NEW k \in Node \ {n} PROVE link_state_packets'[k] = link_state_packets[k]
  BY <1>2, UpdateTables DEF Types
<1>3. ASSUME Restart(n), NEW k \in Node \ {n} PROVE link_state_packets'[k] = link_state_packets[k]
  BY <1>0, <1>3 DEF Restart
<1>4. ASSUME NEW m \in wire, AcceptLinkState(n, m), NEW k \in Node \ {n}
      PROVE  link_state_packets'[k] = link_state_packets[k]
  BY <1>0, <1>4 DEF AcceptLinkState
<1>. QED  BY <1>1, <1>2, <1>3, <1>4

\* A step that notes nothing and floods nothing new but the announcement of n itself.
LEMMA FloodsKept ==
  ASSUME Types, FloodsNoted, FloodsOrdered, NEW n \in Node, NEW act \in Activation, NEW q,
         Sends(n, act, q), link_state_packets' = link_state_packets,
         IsForeign(n, act) => /\ Replaces(n, act) /\ ~ Pushes(n, act)
                              /\ Top(n).kind = "flood" /\ act.packet = Top(n).packet
  PROVE  FloodsNoted' /\ FloodsOrdered'
<1>1. \A k \in Node \ {n} : stack'[k] = stack[k]
  BY DEF Sends, Others
<1>2. ASSUME NEW i \in DOMAIN stack'[n], IsForeign(n, stack'[n][i])
      PROVE  /\ i \in DOMAIN stack[n] /\ IsForeign(n, stack[n][i])
             /\ stack'[n][i].packet = stack[n][i].packet
  <2>1. CASE i \in DOMAIN stack[n] /\ stack'[n][i] = stack[n][i]
    BY <1>2, <2>1
  <2>2. CASE stack'[n][i] = act /\ i = Len(stack[n]) /\ i \in DOMAIN stack[n] /\ ~ Pushes(n, act)
    BY <1>2, <2>2 DEF IsForeign, Top
  <2>. QED  BY <1>2, <2>1, <2>2, StackStep
<1>3. FloodsNoted'
  <2>. SUFFICES ASSUME NEW k \in Node, NEW i \in DOMAIN stack'[k], IsForeign(k, stack'[k][i])
                PROVE  LET p == stack'[k][i].packet
                           entry == link_state_packets[k][p.source]
                       IN IsLive(entry) /\ entry.boot = p.boot /\ p.stamp <= entry.stamp
    BY DEF FloodsNoted, IsLive, IsForeign
  <2>1. /\ i \in DOMAIN stack[k] /\ IsForeign(k, stack[k][i])
        /\ stack'[k][i].packet = stack[k][i].packet
    BY <1>1, <1>2
  <2>. QED  BY <2>1 DEF FloodsNoted
<1>4. FloodsOrdered'
  <2>. SUFFICES ASSUME NEW k \in Node, NEW i \in DOMAIN stack'[k], NEW j \in DOMAIN stack'[k],
                       i < j, IsForeign(k, stack'[k][i]), IsForeign(k, stack'[k][j]),
                       stack'[k][i].packet.source = stack'[k][j].packet.source
                PROVE  stack'[k][i].packet.stamp < stack'[k][j].packet.stamp
    BY DEF FloodsOrdered, IsForeign
  <2>1. /\ i \in DOMAIN stack[k] /\ IsForeign(k, stack[k][i])
        /\ stack'[k][i].packet = stack[k][i].packet
        /\ j \in DOMAIN stack[k] /\ IsForeign(k, stack[k][j])
        /\ stack'[k][j].packet = stack[k][j].packet
    BY <1>1, <1>2
  <2>. QED  BY <2>1 DEF FloodsOrdered
<1>. QED  BY <1>3, <1>4

LEMMA FloodsAccepted ==
  ASSUME Types, Announcements, Timely, OneStart, FloodsNoted, FloodsOrdered,
         NEW n \in Node, NEW m \in wire, AcceptLinkState(n, m)
  PROVE  FloodsNoted' /\ FloodsOrdered'
<1>. DEFINE p == m.packet
            a == p.source
            act == Flood(p, m.from)
            old == link_state_packets[n][a]
            new == link_state_packets'[n][a]
<1>1. /\ p \in LinkStatePackets /\ Sends(n, act, p) /\ Pushes(n, act) /\ act \in Activation
      /\ act.packet = p /\ act.kind = "flood" /\ a \in Node
  BY AcceptEffect, LinkStatePacketTyped DEF Flood
<1>2. a # n
  BY DEF AcceptLinkState, IsNews
<1>3. /\ new.ttl = LinkStateTTL /\ new.boot = p.boot /\ new.stamp = p.stamp
      /\ \A b \in Node \ {a} : link_state_packets'[n][b] = link_state_packets[n][b]
      /\ \A k \in Node \ {n} : link_state_packets'[k] = link_state_packets[k]
  <2>. DEFINE e == [ttl |-> LinkStateTTL, number |-> p.number, boot |-> p.boot, stamp |-> p.stamp]
  <2>1. link_state_packets' = [link_state_packets EXCEPT ![n][a] = e]
    BY DEF AcceptLinkState
  <2>2. link_state_packets \in [Node -> [Node -> Entries]]
    BY DEF Types, Tables
  <2>3. /\ new = e
        /\ \A b \in Node \ {a} : link_state_packets'[n][b] = link_state_packets[n][b]
        /\ \A k \in Node \ {n} : link_state_packets'[k] = link_state_packets[k]
    BY <1>1, <2>1, <2>2
  <2>. QED  BY <2>3
<1>4. IsLive(new) /\ p.stamp \in Nat
  BY <1>1, <1>3, ConstantsTyped, LinkStatePacketTyped DEF IsLive
<1>5. IsLive(old) /\ old.boot = p.boot => p.stamp > old.stamp
  BY AcceptsNewer DEF NewerWins
<1>6. /\ Len(stack[n]) \in Nat /\ DOMAIN stack[n] = 1 .. Len(stack[n]) /\ stack[n] \in Seq(Activation)
      /\ DOMAIN stack'[n] = 1 .. Len(stack[n]) + 1 /\ stack'[n][Len(stack[n]) + 1] = act
      /\ \A i \in DOMAIN stack[n] : stack'[n][i] = stack[n][i]
      /\ \A k \in Node \ {n} : stack'[k] = stack[k]
  <2>1. stack'[n] \in Seq(Activation) /\ Len(stack'[n]) = Len(stack[n]) + 1
    BY <1>1 DEF Sends, Pushes
  <2>2. DOMAIN stack'[n] = 1 .. Len(stack'[n])
    BY <2>1
  <2>. QED  BY <1>1, <2>1, <2>2, StacksTyped DEF Types, Pushes, Sends, Others
<1>. HIDE DEF act
<1>7. ASSUME NEW i \in DOMAIN stack[n], IsForeign(n, stack[n][i]), stack[n][i].packet.source = a
      PROVE  /\ stack[n][i].packet.boot = p.boot /\ stack[n][i].packet.stamp < p.stamp
             /\ stack[n][i].packet.stamp <= p.stamp
  <2>. DEFINE q == stack[n][i].packet
  <2>1. stack[n][i] \in Activation
    BY <1>6
  <2>2. q \in LinkStatePackets
    BY <1>7, <2>1, ActivationTyped DEF IsForeign
  <2>3. Travels(q) /\ Travels(p)
    BY <1>7 DEF Travels, IsForeign
  <2>4. q.boot = p.boot
    BY <1>1, <1>7, <2>2, <2>3 DEF OneStart
  <2>5. IsLive(old) /\ old.boot = q.boot /\ q.stamp <= old.stamp
    BY <1>7 DEF FloodsNoted
  <2>6. q.stamp \in Nat /\ old.stamp \in Nat
    <3>1. old \in Entries
      BY <1>1 DEF Types, Tables
    <3>2. old.stamp \in Nat
      BY <3>1, EntryTyped
    <3>. QED  BY <2>2, <3>2, LinkStatePacketTyped
  <2>. QED  BY <1>4, <1>5, <2>4, <2>5, <2>6
<1>8. FloodsNoted'
  <2>. SUFFICES ASSUME NEW k \in Node, NEW i \in DOMAIN stack'[k], IsForeign(k, stack'[k][i])
                PROVE  LET r == stack'[k][i].packet
                           entry == link_state_packets'[k][r.source]
                       IN IsLive(entry) /\ entry.boot = r.boot /\ r.stamp <= entry.stamp
    BY DEF FloodsNoted, IsLive, IsForeign
  <2>1. CASE k # n
    BY <1>3, <1>6, <2>1 DEF FloodsNoted
  <2>2. CASE k = n /\ i = Len(stack[n]) + 1
    <3>1. stack'[k][i].packet = p
      BY <1>1, <1>6, <2>2
    <3>2. IsLive(new) /\ new.boot = p.boot /\ p.stamp <= new.stamp
      BY <1>3, <1>4
    <3>. QED  BY <2>2, <3>1, <3>2
  <2>3. CASE k = n /\ i \in DOMAIN stack[n] /\ stack[n][i].packet.source = a
    BY <1>3, <1>4, <1>6, <1>7, <2>3
  <2>4. CASE k = n /\ i \in DOMAIN stack[n] /\ stack[n][i].packet.source # a
    <3>1. stack'[k][i] = stack[n][i] /\ IsForeign(n, stack[n][i])
      BY <1>6, <2>4
    <3>2. stack[n][i].packet.source \in Node
      <4>1. stack[n][i] \in Activation
        BY <1>6, <2>4
      <4>. QED  BY <3>1, <4>1, ActivationTyped, LinkStatePacketTyped DEF IsForeign
    <3>. QED  BY <1>3, <2>4, <3>1, <3>2 DEF FloodsNoted
  <2>5. k = n => i = Len(stack[n]) + 1 \/ i \in DOMAIN stack[n]
    BY <1>6
  <2>. QED  BY <2>1, <2>2, <2>3, <2>4, <2>5
<1>9. FloodsOrdered'
  <2>. SUFFICES ASSUME NEW k \in Node, NEW i \in DOMAIN stack'[k], NEW j \in DOMAIN stack'[k],
                       i < j, IsForeign(k, stack'[k][i]), IsForeign(k, stack'[k][j]),
                       stack'[k][i].packet.source = stack'[k][j].packet.source
                PROVE  stack'[k][i].packet.stamp < stack'[k][j].packet.stamp
    BY DEF FloodsOrdered, IsForeign
  <2>1. CASE k # n
    BY <1>6, <2>1 DEF FloodsOrdered
  <2>2. k = n => i \in DOMAIN stack[n] /\ (j = Len(stack[n]) + 1 \/ j \in DOMAIN stack[n])
    BY <1>6
  <2>3. CASE k = n /\ j \in DOMAIN stack[n]
    BY <1>6, <2>2, <2>3 DEF FloodsOrdered
  <2>4. CASE k = n /\ j = Len(stack[n]) + 1
    <3>1. stack'[k][j].packet = p /\ stack'[k][i] = stack[n][i] /\ i \in DOMAIN stack[n]
      BY <1>1, <1>6, <2>2, <2>4
    <3>. QED  BY <1>7, <2>4, <3>1
  <2>. QED  BY <2>1, <2>2, <2>3, <2>4
<1>. QED  BY <1>8, <1>9

LEMMA FloodsStep ==
  ASSUME Types, Announcements, Timely, OneStart, FloodsNoted, FloodsOrdered, NEW n \in Node, Acts(n)
  PROVE  FloodsNoted' /\ FloodsOrdered'
<1>. DEFINE Goal == FloodsNoted' /\ FloodsOrdered'
<1>0. Send \in Activation /\ ~ IsForeign(n, Send)
  BY SendIsActivation DEF Send, IsForeign
<1>1. ASSUME SendToNext(n) PROVE Goal
  <2>1. PICK act \in Activation :
          /\ Sends(n, act, buffer[n]) /\ Replaces(n, act)
          /\ Top(n).kind = "flood" /\ act.kind = "flood" /\ act.packet = Top(n).packet
    BY <1>1, SendToNextEffect
  <2>2. ~ Pushes(n, act)
    BY <2>1, StacksTyped DEF Pushes, Replaces, Types
  <2>3. link_state_packets' = link_state_packets
    BY <1>1 DEF SendToNext, statics
  <2>. QED  BY <2>1, <2>2, <2>3, FloodsKept
<1>2. ASSUME Return(n) PROVE Goal
  <2>1. link_state_packets' = link_state_packets
    BY <1>2 DEF Return, statics
  <2>. QED  BY <1>0, <1>2, <2>1, ReturnEffect, FloodsKept
<1>3. ASSUME net_send_link_state_packet(n) PROVE Goal
  <2>. DEFINE act == Flood(LinkState(n), None)
  <2>1. /\ Sends(n, act, LinkState(n)) /\ act \in Activation /\ act.packet = LinkState(n)
        /\ link_state_packets' = link_state_packets
    BY <1>3, AnnounceEffect DEF Flood
  <2>2. LinkState(n).source = n
    BY LinkStateTyped
  <2>. HIDE DEF act
  <2>3. ~ IsForeign(n, act)
    BY <2>1, <2>2 DEF IsForeign
  <2>. QED  BY <2>1, <2>3, FloodsKept
<1>4. ASSUME NEW m \in wire, AcceptLinkState(n, m) PROVE Goal
  BY <1>4, FloodsAccepted
<1>5. ASSUME \A i \in DOMAIN stack'[n] : ~ IsForeign(n, stack'[n][i]),
             \A k \in Node \ {n} : stack'[k] = stack[k]
      PROVE  Goal
  BY <1>5, EntriesOfOthers DEF FloodsNoted, FloodsOrdered, IsForeign
<1>6. ASSUME net_update(n) PROVE Goal
  <2>. DEFINE act == [kind |-> "update"]
              q == [type |-> "ping request"]
  <2>1. Sends(n, act, q) /\ Pushes(n, act) /\ Idle(n) /\ ~ IsForeign(n, act) /\ act \in Activation
    BY <1>6, UpdateEffect, SendIsActivation DEF IsForeign
  <2>. HIDE DEF act, q
  <2>2. \A i \in DOMAIN stack'[n] : stack'[n][i] = act
    <3>1. DOMAIN stack[n] = {}
      BY <2>1 DEF Idle
    <3>. QED  BY <2>1, <3>1, StackStep
  <2>. QED  BY <1>5, <2>1, <2>2 DEF Sends, Others
<1>7. ASSUME Restart(n) PROVE Goal
  BY <1>5, <1>7, RestartEffect DEF Others
<1>8. ASSUME stack' = stack, link_state_packets' = link_state_packets PROVE Goal
  BY <1>8 DEF FloodsNoted, FloodsOrdered
<1>9. ASSUME net_send_data_packet(n) PROVE Goal
  <2>1. link_state_packets' = link_state_packets
    BY <1>9 DEF net_send_data_packet, statics
  <2>2. CASE UNCHANGED <<setting, stack, buffer, wire>>
    BY <1>8, <2>1, <2>2
  <2>3. ASSUME NEW d \in Accepted(setting.data), Sends(n, Send, d) PROVE Goal
    BY <1>0, <2>1, <2>3, FloodsKept
  <2>. QED  BY <1>9, <2>2, <2>3, DataEffect
<1>10. ASSUME NEW m \in wire, AnswerPing(n, m) PROVE Goal
  <2>1. link_state_packets' = link_state_packets
    BY <1>10 DEF AnswerPing, statics
  <2>. QED  BY <1>0, <1>10, <2>1, AnswerEffect, FloodsKept
<1>11. ASSUME NEW m \in wire, ForwardData(n, m) PROVE Goal
  <2>1. link_state_packets' = link_state_packets
    BY <1>11 DEF ForwardData, statics
  <2>. QED  BY <1>0, <1>11, <2>1, ForwardEffect, FloodsKept
<1>. QED  BY <1>1, <1>2, <1>3, <1>4, <1>6, <1>7, <1>8, <1>9, <1>10, <1>11
          DEF Acts, GoOn, Handles, Begin, net_notify_ping_response, DeliverData, statics

LEMMA FloodsImply ==
  ASSUME OwnAtBottom, FloodsOrdered, Types PROVE NestedFloodsAreLater
<1>. SUFFICES ASSUME NEW n \in Node, NEW i \in DOMAIN stack[n], NEW j \in DOMAIN stack[n], i < j,
                     stack[n][i].kind = "flood", stack[n][j].kind = "flood",
                     stack[n][i].packet.source = stack[n][j].packet.source
              PROVE  stack[n][i].packet.stamp < stack[n][j].packet.stamp
  BY DEF NestedFloodsAreLater
<1>1. j > 1
  BY StacksTyped DEF Types
<1>2. stack[n][j].packet.source # n
  BY <1>1 DEF OwnAtBottom, IsOwn
<1>. QED  BY <1>2 DEF FloodsOrdered, IsForeign

LEMMA OneStartOfEach ==
  ASSUME Types, Announcements, setting.prompt => Prompt, setting.prompt \/ setting.restarting = {}
  PROVE  OneStart
<1>1. CASE setting.prompt
  BY <1>1 DEF Prompt, OneTravels, OneStart
<1>2. CASE setting.restarting = {}
  <2>1. ASSUME NEW p \in LinkStatePackets, Travels(p) PROVE p.boot = 0
    <3>1. p.source \in Node /\ p.boot \in Nat
      BY LinkStatePacketTyped
    <3>2. p.boot <= boots[p.source].count /\ boots[p.source].count = 0
      BY <1>2, <2>1, <3>1 DEF Announcements, Announced, Made
    <3>. QED  BY <3>1, <3>2
  <2>. QED  BY <2>1 DEF OneStart
<1>. QED  BY <1>1, <1>2

\* The invariant of the floods: it holds as long as nothing is half the circle late.
Floods ==
  /\ Types /\ Announcements /\ OwnAtBottom /\ (setting.prompt => Prompt)
  /\ setting.prompt \/ setting.restarting = {} => FloodsNoted /\ FloodsOrdered

LEMMA FloodsInit == Init => Floods
<1>1. Init => FloodsNoted /\ FloodsOrdered
  BY DEF Init, FloodsNoted, FloodsOrdered
<1>. QED  BY <1>1, InitTypes, InitAnnouncements, InitOwnAtBottom, InitPrompt DEF Floods

LEMMA FloodsNext == Floods /\ Timely /\ [Next]_vars => Floods'
<1>. SUFFICES ASSUME Floods, Timely, [Next]_vars PROVE Floods'
  OBVIOUS
<1>1. Types' /\ Announcements' /\ OwnAtBottom'
  BY StepTypes, AnnouncementsKept, OwnAtBottomKept DEF Floods
<1>2. setting' = setting
  BY Steps, StepStacks DEF Forgets, Floods
<1>3. (setting.prompt => Prompt)'
  BY <1>2, PromptKept DEF Floods
<1>4. ASSUME setting.prompt \/ setting.restarting = {} PROVE FloodsNoted' /\ FloodsOrdered'
  <2>1. CASE Forgets
    BY <1>4, <2>1 DEF Forgets, Floods, FloodsNoted, FloodsOrdered, statics
  <2>2. ASSUME NEW n \in Node, Acts(n) PROVE FloodsNoted' /\ FloodsOrdered'
    BY <1>4, <2>2, OneStartOfEach, FloodsStep DEF Floods
  <2>. QED  BY <2>1, <2>2, Steps
<1>. QED  BY <1>1, <1>2, <1>3, <1>4 DEF Floods

\* A flood that net_handle_received_packet() starts inside another of the same source is of a
\* later announcement, where a period begins only when the packets of the last were handled, even
\* if nodes restart: the floods that come back round a circle do not pile up on the call stack.
THEOREM FloodsNestIfPrompt == Spec => [](setting.prompt => NestedFloodsAreLater)
<1>1. Types /\ Announcements /\ OwnAtBottom /\ (setting.prompt => Prompt) /\ Floods /\ [Next]_vars
        /\ setting.prompt => Floods'
  BY PromptIsTimely, FloodsNext
<1>2. [Next]_vars /\ Types => setting' = setting
  BY Steps, StepStacks DEF Forgets
<1>3. Floods /\ setting.prompt => NestedFloodsAreLater
  BY FloodsImply DEF Floods
<1>4. (setting.prompt => Floods) /\ Types /\ Announcements /\ OwnAtBottom
        /\ (setting.prompt => Prompt) /\ [Next]_vars => (setting.prompt => Floods)'
  BY <1>1, <1>2
<1>. QED  BY <1>3, <1>4, FloodsInit, PromptAlways, PTL DEF Spec

\* The same where packets may be delayed from one period into the next ones and overtake each
\* other, as long as none is half the circle late and no node restarts.
THEOREM FloodsNestIfTimely ==
  Spec /\ []Timely => [](setting.restarting = {} => NestedFloodsAreLater)
<1>1. Floods /\ setting.restarting = {} => NestedFloodsAreLater
  BY FloodsImply DEF Floods
<1>. QED  BY <1>1, FloodsInit, FloodsNext, PTL DEF Spec

-----------------------------------------------------------------------------
(* Data on its way.                                                        *)

\* A message that carries the data d and is valid.
Carries(m, d) == m.packet = d /\ m.length = PacketLength(d)

Arrived(d) == \E i \in DOMAIN delivered : delivered[i] = d

\* The data is on the wire, at its last hop or with hops that lead on.
OnItsWay(d) == \E m \in wire : Carries(m, d) /\ (m.to = d.to \/ LeadsTo(m.to, d.to))

IsLong(d) == d.length > Cardinality(Node)

\* Nothing is dropped on the way.
NoneDropped ==
  Reliable => \A d \in Accepted(setting.data) \ unsent :
    LeadsTo(d.from, d.to) => Arrived(d) \/ OnItsWay(d)

\* Long data is in one place: not sent so far, on the wire or arrived.
InOnePlace ==
  \A d \in setting.data : IsLong(d) =>
    /\ \A i, j \in DOMAIN delivered : delivered[i] = d /\ delivered[j] = d => i = j
    /\ \A m1, m2 \in wire : Carries(m1, d) /\ Carries(m2, d) => m1 = m2
    /\ d \in unsent => ~ Arrived(d)
    /\ d \in unsent \/ Arrived(d) => \A m \in wire : ~ Carries(m, d)

DataInv == delivered \in Seq(setting.data) /\ NoneDropped /\ InOnePlace

LEMMA DataTyped ==
  ASSUME Counters, NEW d \in setting.data
  PROVE  /\ d.type = "data" /\ d.from \in Node /\ d.length \in Nat
         /\ ~ IsRefused(d) => d.to \in Node
         /\ PacketLength(d) = (5 + d.length) + 2
<1>1. setting \in Settings
  BY DEF Counters
<1>2. /\ d.type = "data" /\ d.from \in Node /\ d.length \in Nat
      /\ ~ IsRefused(d) => d.to \in Node
  BY <1>1, NetworkAssumption DEF IsRefused
<1>. DEFINE length == d.length
<1>3. PacketLength(d) = 5 + length + 2
  BY <1>2 DEF PacketLength
<1>. HIDE DEF length
<1>4. length \in Nat => 5 + length + 2 = (5 + length) + 2
  OBVIOUS
<1>. QED  BY <1>2, <1>3, <1>4 DEF length

LEMMA AcceptedTyped ==
  ASSUME Counters, NEW d \in Accepted(setting.data)
  PROVE  d \in setting.data /\ ~ IsRefused(d) /\ d.from \in Node /\ d.to \in Node
<1>1. d \in setting.data /\ ~ IsRefused(d)
  BY DEF Accepted
<1>. QED  BY <1>1, DataTyped

\* The next hop of data with hops that lead to its destination is in range, and leads on.
LEMMA HopLeadsOn ==
  ASSUME Counters, NEW n \in Node, NEW destination \in Node, LeadsTo(n, destination)
  PROVE  LET hop == net_get_next_hop(n, destination)
         IN  /\ hop \in setting.range[n] /\ hop \in Node /\ hop # None
             /\ hop = destination \/ LeadsTo(hop, destination)
<1>1. PICK hops \in 1 .. Cardinality(Node) : \E path \in [0 .. hops -> Node] :
        /\ path[0] = n /\ path[hops] = destination
        /\ \A i \in 1 .. hops : /\ path[i] = setting.next_hops[path[i - 1]][destination]
                               /\ path[i] \in setting.range[path[i - 1]]
  BY DEF LeadsTo
<1>2. PICK path \in [0 .. hops -> Node] :
        /\ path[0] = n /\ path[hops] = destination
        /\ \A i \in 1 .. hops : /\ path[i] = setting.next_hops[path[i - 1]][destination]
                               /\ path[i] \in setting.range[path[i - 1]]
  BY <1>1
<1>3. Cardinality(Node) \in Nat
  BY ConstantsTyped, FS_CardinalityType
<1>4. hops \in Nat /\ hops >= 1 /\ hops <= Cardinality(Node)
  BY <1>3
<1>5. /\ path[1] = net_get_next_hop(n, destination)
      /\ path[1] \in setting.range[n] /\ path[1] \in Node
  <2>1. 1 \in 1 .. hops /\ 1 - 1 = 0 /\ 1 \in 0 .. hops
    BY <1>4
  <2>. QED  BY <1>2, <2>1 DEF net_get_next_hop
<1>6. CASE hops = 1
  BY <1>2, <1>5, <1>6, NetworkAssumption
<1>7. CASE hops # 1
  <2>. DEFINE k == hops - 1
              rest == [i \in 0 .. k |-> path[i + 1]]
  <2>1. k \in Nat /\ k \in 1 .. Cardinality(Node) /\ \A i \in 0 .. k : i + 1 \in 0 .. hops
    BY <1>3, <1>4, <1>7
  <2>2. k + 1 = hops /\ 0 \in 0 .. k /\ k \in 0 .. k /\ 0 + 1 = 1
    BY <1>4, <2>1
  <2>. HIDE DEF k
  <2>3. rest \in [0 .. k -> Node] /\ rest[0] = path[1] /\ rest[k] = destination
    BY <1>2, <2>1, <2>2
  <2>4. ASSUME NEW i \in 1 .. k
        PROVE  /\ rest[i] = setting.next_hops[rest[i - 1]][destination]
               /\ rest[i] \in setting.range[rest[i - 1]]
    <3>1. /\ i \in 0 .. k /\ i - 1 \in 0 .. k /\ i + 1 \in 1 .. hops /\ (i + 1) - 1 = i
          /\ (i - 1) + 1 = i
      BY <2>1, <2>2
    <3>2. rest[i] = path[i + 1] /\ rest[i - 1] = path[i]
      BY <3>1
    <3>. QED  BY <1>2, <3>1, <3>2
  <2>. HIDE DEF rest
  <2>5. LeadsTo(path[1], destination)
    BY <2>1, <2>3, <2>4 DEF LeadsTo
  <2>. QED  BY <1>5, <2>5, NetworkAssumption
<1>. QED  BY <1>6, <1>7

\* What the loop of a flood sends has at most the length of a link state that lists every node.
LEMMA FloodsAreShort ==
  ASSUME Counters, NEW act \in Activation, act.kind = "flood", NEW d \in setting.data, IsLong(d)
  PROVE  act.length # PacketLength(d)
<1>1. PICK p \in LinkStatePackets : act.length = PacketLength(p)
  <2>. DEFINE lengths == {PacketLength(q) : q \in LinkStatePackets}
              FloodActivations == [kind : {"flood"}, packet : LinkStatePackets, length : lengths,
                                   next : 0 .. MaxAddress, except : Node \cup {None}]
  <2>. HIDE DEF lengths
  <2>1. CASE act \in {Send, [kind |-> "update"]}
    BY <2>1 DEF Send
  <2>2. CASE act \in FloodActivations
    <3>1. act.length \in lengths
      BY <2>2
    <3>. QED  BY <3>1 DEF lengths
  <2>. QED  BY <2>1, <2>2 DEF Activation, lengths
<1>2. p.type = "link state" /\ p.nodes \subseteq Node
  BY LinkStatePacketTyped
<1>3. /\ Cardinality(p.nodes) \in Nat /\ Cardinality(Node) \in Nat
      /\ Cardinality(p.nodes) <= Cardinality(Node)
  BY <1>2, ConstantsTyped, FS_Subset, FS_CardinalityType
<1>4. PacketLength(p) = 5 + Cardinality(p.nodes) + 2
  BY <1>2 DEF PacketLength
<1>5. PacketLength(d) = (5 + d.length) + 2 /\ d.length \in Nat
  BY DataTyped
<1>. DEFINE count == Cardinality(p.nodes)
            all == Cardinality(Node)
            length == d.length
<1>. HIDE DEF count, all, length
<1>6. count \in Nat /\ all \in Nat /\ count <= all /\ length \in Nat /\ length > all
  BY <1>3, <1>5 DEF count, all, length, IsLong
<1>7. 5 + count + 2 # (5 + length) + 2
  BY <1>6
<1>. QED  BY <1>1, <1>4, <1>5, <1>7 DEF count, length

\* Lemmas about the next state say so of the data that is on its way.
LEMMA SameWays ==
  ASSUME setting' = setting
  PROVE  /\ (Reliable <=> Reliable') /\ \A n, d \in Node : LeadsTo(n, d) <=> LeadsTo(n, d)'
<1>1. Reliable <=> Reliable'
  BY DEF Reliable
<1>2. \A n, d \in Node : LeadsTo(n, d) <=> LeadsTo(n, d)'
  BY DEF LeadsTo
<1>. QED  BY <1>1, <1>2

\* No data moves.
LEMMA NoDataMoves ==
  ASSUME Types, Types', DataInv, UNCHANGED <<setting, unsent, delivered>>,
         \A d \in Accepted(setting.data) : \A m \in wire :
           Reliable /\ Carries(m, d) /\ (m.to = d.to \/ LeadsTo(m.to, d.to)) => m \in wire',
         \A d \in setting.data : \A m \in wire' : IsLong(d) /\ Carries(m, d) => m \in wire
  PROVE  DataInv'
<1>1. delivered' \in Seq(setting'.data)
  BY DEF DataInv
<1>2. NoneDropped'
  <2>. SUFFICES ASSUME Reliable', NEW d \in Accepted(setting'.data) \ unsent', LeadsTo(d.from, d.to)', ~ Arrived(d)'
                PROVE  OnItsWay(d)'
    BY DEF NoneDropped
  <2>1. /\ d \in Accepted(setting.data) \ unsent /\ ~ Arrived(d)
        /\ d.from \in Node /\ d.to \in Node
    BY AcceptedTyped DEF Arrived, Types
  <2>2. Reliable /\ LeadsTo(d.from, d.to)
    BY <2>1, SameWays
  <2>3. PICK m \in wire : Carries(m, d) /\ (m.to = d.to \/ LeadsTo(m.to, d.to))
    BY <2>1, <2>2 DEF DataInv, NoneDropped, OnItsWay
  <2>4. m \in wire' /\ m.to \in Node
    BY <2>1, <2>2, <2>3, MessageTyped
  <2>5. m.to = d.to \/ LeadsTo(m.to, d.to)'
    BY <2>1, <2>3, <2>4, SameWays
  <2>. QED  BY <2>3, <2>4, <2>5 DEF OnItsWay, Carries
<1>3. InOnePlace'
  BY DEF DataInv, InOnePlace, Arrived, Carries, IsLong
<1>. QED  BY <1>1, <1>2, <1>3 DEF DataInv

\* Node n sends data on to the next hop, instead of a message with it that is taken from the wire.
LEMMA DataIsSentOn ==
  ASSUME Types, DataInv, NEW n \in Node, NEW d \in Accepted(setting.data), NEW gone,
         \A m \in gone : Carries(m, d),
         SendTo(n, {net_get_next_hop(n, d.to)}, d, wire \ gone, Send),
         UNCHANGED <<setting, delivered>>, unsent' \subseteq unsent, unsent \subseteq unsent' \cup {d},
         Reliable /\ d \notin unsent' /\ LeadsTo(d.from, d.to) =>
           \/ Arrived(d) \/ LeadsTo(n, d.to)
           \/ \E m \in wire \ gone : Carries(m, d) /\ (m.to = d.to \/ LeadsTo(m.to, d.to)),
         IsLong(d) => /\ ~ Arrived(d) /\ d \notin unsent'
                      /\ \A m \in wire \ gone : ~ Carries(m, d)
  PROVE  DataInv'
<1>. DEFINE hop == net_get_next_hop(n, d.to)
            new == Message(n, Len(stack[n]) + 1, hop, d, PacketLength(d))
<1>0. d.to \in Node /\ d.from \in Node /\ delivered \in Seq(setting.data)
  BY AcceptedTyped DEF Types, DataInv
<1>1. /\ wire \ gone \subseteq wire'
      /\ \A m \in wire' : m \in wire \ gone \/ m = new
      /\ hop \in setting.range[n] => new \in wire'
  BY DEF SendTo
<1>2. new.to = hop /\ new.packet = d /\ Carries(new, d)
  BY DEF Message, Carries
<1>. HIDE DEF hop, new
<1>3. NoneDropped'
  <2>. SUFFICES ASSUME Reliable', NEW e \in Accepted(setting'.data) \ unsent', LeadsTo(e.from, e.to)',
                     ~ Arrived(e)'
                PROVE  OnItsWay(e)'
    BY DEF NoneDropped
  <2>1. /\ e \in Accepted(setting.data) /\ ~ Arrived(e)
        /\ e.from \in Node /\ e.to \in Node
    BY AcceptedTyped DEF Arrived, Types
  <2>2. Reliable /\ LeadsTo(e.from, e.to)
    BY <2>1, SameWays
  <2>3. ASSUME NEW m \in wire \ gone, Carries(m, e), m.to = e.to \/ LeadsTo(m.to, e.to)
        PROVE  OnItsWay(e)'
    <3>1. m \in wire' /\ m.to \in Node
      BY <1>1, MessageTyped
    <3>2. m.to = e.to \/ LeadsTo(m.to, e.to)'
      BY <2>1, <2>3, <3>1, SameWays
    <3>. QED  BY <2>3, <3>1, <3>2 DEF OnItsWay, Carries
  <2>4. CASE e = d
    <3>1. CASE LeadsTo(n, d.to)
      <4>1. hop \in setting.range[n] /\ hop \in Node /\ (hop = d.to \/ LeadsTo(hop, d.to))
        BY <1>0, <3>1, HopLeadsOn DEF Types, hop
      <4>2. PICK m \in wire' : m = new
        BY <1>1, <4>1
      <4>3. m.to \in Node /\ (m.to = d.to \/ LeadsTo(m.to, d.to)) /\ Carries(m, d)
        BY <1>2, <4>1, <4>2
      <4>4. m.to = d.to \/ LeadsTo(m.to, d.to)'
        BY <1>0, <4>3, SameWays
      <4>. QED  BY <2>4, <4>3, <4>4 DEF OnItsWay, Carries
    <3>. QED  BY <2>1, <2>2, <2>3, <2>4, <3>1
  <2>5. CASE e # d
    <3>1. PICK m \in wire : Carries(m, e) /\ (m.to = e.to \/ LeadsTo(m.to, e.to))
      BY <2>1, <2>2, <2>5 DEF DataInv, NoneDropped, OnItsWay
    <3>2. m \notin gone
      BY <2>5, <3>1 DEF Carries
    <3>. QED  BY <2>3, <3>1, <3>2
  <2>. QED  BY <2>4, <2>5
<1>4. InOnePlace'
  <2>. SUFFICES ASSUME NEW e \in setting.data, IsLong(e)
                PROVE  /\ \A i, j \in DOMAIN delivered : delivered[i] = e /\ delivered[j] = e => i = j
                       /\ \A m1, m2 \in wire' : Carries(m1, e) /\ Carries(m2, e) => m1 = m2
                       /\ e \in unsent' => ~ Arrived(e)
                       /\ e \in unsent' \/ Arrived(e) => \A m \in wire' : ~ Carries(m, e)
    BY DEF InOnePlace, Arrived, Carries, IsLong
  <2>1. /\ \A i, j \in DOMAIN delivered : delivered[i] = e /\ delivered[j] = e => i = j
        /\ \A m1, m2 \in wire : Carries(m1, e) /\ Carries(m2, e) => m1 = m2
        /\ e \in unsent => ~ Arrived(e)
        /\ e \in unsent \/ Arrived(e) => \A m \in wire : ~ Carries(m, e)
    BY DEF DataInv, InOnePlace
  <2>2. CASE e = d
    <3>1. \A m \in wire' : Carries(m, d) => m = new
      BY <1>1, <2>2
    <3>. QED  BY <2>1, <2>2, <3>1
  <2>3. CASE e # d
    <3>1. \A m \in wire' : Carries(m, e) => m \in wire
      BY <1>1, <1>2, <2>3 DEF Carries
    <3>. QED  BY <2>1, <3>1
  <2>. QED  BY <2>2, <2>3
<1>. QED  BY <1>0, <1>3, <1>4 DEF DataInv

LEMMA DataArrivesAtLast ==
  ASSUME Types, DataInv, NEW n \in Node, NEW m \in wire, DeliverData(n, m) PROVE DataInv'
<1>. DEFINE d == m.packet
<1>0. d \in setting.data /\ delivered \in Seq(setting.data) /\ Carries(m, d)
  BY MessageTyped DEF DeliverData, DataInv, net_validate_packet, Carries
<1>1. delivered' = Append(delivered, d) /\ wire' = wire \ {m} /\ setting' = setting /\ unsent' = unsent
  BY DEF DeliverData
<1>. HIDE DEF d
<1>2. /\ delivered' \in Seq(setting.data) /\ Len(delivered') = Len(delivered) + 1
      /\ Len(delivered) \in Nat /\ DOMAIN delivered = 1 .. Len(delivered)
      /\ DOMAIN delivered' = 1 .. Len(delivered) + 1
      /\ \A i \in 1 .. Len(delivered) : delivered'[i] = delivered[i]
      /\ delivered'[Len(delivered) + 1] = d
  BY <1>0, <1>1
<1>. DEFINE N == Len(delivered)
<1>. HIDE DEF N
<1>3. /\ N \in Nat /\ DOMAIN delivered = 1 .. N /\ DOMAIN delivered' = 1 .. N + 1
      /\ \A i \in 1 .. N : delivered'[i] = delivered[i]
      /\ delivered'[N + 1] = d
  BY <1>2 DEF N
<1>4. \A e : Arrived(e)' <=> Arrived(e) \/ e = d
  <2>1. ASSUME NEW e, Arrived(e) PROVE Arrived(e)'
    BY <1>3, <2>1 DEF Arrived
  <2>2. Arrived(d)'
    BY <1>3 DEF Arrived
  <2>3. ASSUME NEW e, Arrived(e)' PROVE Arrived(e) \/ e = d
    <3>1. PICK i \in 1 .. N + 1 : delivered'[i] = e
      BY <1>3, <2>3 DEF Arrived
    <3>2. i \in 1 .. N \/ i = N + 1
      BY <1>3
    <3>. QED  BY <1>3, <3>1, <3>2 DEF Arrived
  <2>. QED  BY <2>1, <2>2, <2>3
<1>5. NoneDropped'
  <2>. SUFFICES ASSUME Reliable', NEW e \in Accepted(setting'.data) \ unsent', LeadsTo(e.from, e.to)',
                     ~ Arrived(e)'
                PROVE  OnItsWay(e)'
    BY DEF NoneDropped
  <2>1. /\ e \in Accepted(setting.data) \ unsent /\ ~ Arrived(e) /\ e # d
        /\ e.from \in Node /\ e.to \in Node
    BY <1>1, <1>4, AcceptedTyped DEF Types
  <2>2. Reliable /\ LeadsTo(e.from, e.to)
    BY <1>1, <2>1, SameWays
  <2>3. PICK k \in wire : Carries(k, e) /\ (k.to = e.to \/ LeadsTo(k.to, e.to))
    BY <2>1, <2>2 DEF DataInv, NoneDropped, OnItsWay
  <2>4. k \in wire' /\ k.to \in Node
    BY <1>0, <1>1, <2>1, <2>3, MessageTyped DEF Carries
  <2>5. k.to = e.to \/ LeadsTo(k.to, e.to)'
    BY <1>1, <2>1, <2>3, <2>4, SameWays
  <2>. QED  BY <2>3, <2>4, <2>5 DEF OnItsWay, Carries
<1>6. InOnePlace'
  <2>. SUFFICES ASSUME NEW e \in setting.data, IsLong(e)
                PROVE  /\ \A i, j \in DOMAIN delivered' : delivered'[i] = e /\ delivered'[j] = e => i = j
                       /\ \A m1, m2 \in wire' : Carries(m1, e) /\ Carries(m2, e) => m1 = m2
                       /\ e \in unsent => ~ Arrived(e)'
                       /\ e \in unsent \/ Arrived(e)' => \A k \in wire' : ~ Carries(k, e)
    BY <1>1 DEF InOnePlace, Arrived, Carries, IsLong
  <2>1. /\ \A i, j \in 1 .. N : delivered[i] = e /\ delivered[j] = e => i = j
        /\ \A m1, m2 \in wire : Carries(m1, e) /\ Carries(m2, e) => m1 = m2
        /\ e \in unsent => ~ Arrived(e)
        /\ e \in unsent \/ Arrived(e) => \A k \in wire : ~ Carries(k, e)
    BY <1>3 DEF DataInv, InOnePlace
  <2>2. e = d => ~ Arrived(e) /\ e \notin unsent
    BY <1>0, <2>1
  <2>3. \A i, j \in 1 .. N + 1 : delivered'[i] = e /\ delivered'[j] = e => i = j
    <3>. SUFFICES ASSUME NEW i \in 1 .. N + 1, NEW j \in 1 .. N + 1,
                         delivered'[i] = e, delivered'[j] = e
                  PROVE  i = j
      OBVIOUS
    <3>1. (i \in 1 .. N \/ i = N + 1) /\ (j \in 1 .. N \/ j = N + 1)
      BY <1>3
    <3>2. CASE e = d
      <4>1. i = N + 1 /\ j = N + 1
        BY <1>3, <2>2, <3>1, <3>2 DEF Arrived
      <4>. QED  BY <4>1
    <3>3. CASE e # d
      BY <1>3, <2>1, <3>1, <3>3
    <3>. QED  BY <3>2, <3>3
  <2>4. e \in unsent => ~ Arrived(e)'
    BY <1>4, <2>1, <2>2
  <2>5. e \in unsent \/ Arrived(e)' => \A k \in wire' : ~ Carries(k, e)
    <3>1. CASE e = d
      BY <1>0, <1>1, <2>1, <3>1
    <3>2. CASE e # d
      BY <1>1, <1>4, <2>1, <3>2
    <3>. QED  BY <3>1, <3>2
  <2>. QED  BY <1>1, <1>3, <2>1, <2>3, <2>4, <2>5
<1>. QED  BY <1>1, <1>2, <1>5, <1>6 DEF DataInv

LEMMA DataStep ==
  ASSUME Types, Types', DataInv, NEW n \in Node, Acts(n) PROVE DataInv'
<1>1. Accepted(setting.data) \subseteq setting.data /\ \A d \in setting.data : d.type = "data"
  BY DataTyped DEF Types, Accepted
<1>2. ASSUME NEW m \in wire, net_validate_packet(m), NEW d \in setting.data, Carries(m, d)
      PROVE  m.packet.type = "data"
  BY <1>1, <1>2 DEF Carries
  \* A step that takes no data from the wire and sends none.
<1>3. ASSUME UNCHANGED <<setting, unsent, delivered>>,
             \A m \in wire : m \in wire' \/ m.packet.type # "data",
             \A m \in wire' : m \in wire \/ m.packet.type # "data"
      PROVE  DataInv'
  BY <1>1, <1>3, NoDataMoves DEF Carries
<1>4. ASSUME SendToNext(n) PROVE DataInv'
  <2>1. UNCHANGED <<setting, unsent, delivered>> /\ ~ Idle(n) /\ Top(n).kind = "flood"
    BY <1>4 DEF SendToNext, history
  <2>2. /\ wire \subseteq wire'
        /\ \A m \in wire' : m \in wire \/ m.length = Top(n).length
    BY <1>4 DEF SendToNext, Message
  <2>3. ASSUME NEW d \in setting.data, IsLong(d) PROVE Top(n).length # PacketLength(d)
    BY <2>1, <2>3, StacksTyped, FloodsAreShort DEF Types
  <2>4. \A d \in setting.data : \A m \in wire' : IsLong(d) /\ Carries(m, d) => m \in wire
    BY <2>2, <2>3 DEF Carries
  <2>. QED  BY <2>1, <2>2, <2>4, NoDataMoves
<1>5. ASSUME Return(n) \/ net_send_link_state_packet(n) PROVE DataInv'
  BY <1>3, <1>5 DEF Return, net_send_link_state_packet, history
<1>6. ASSUME net_update(n) PROVE DataInv'
  <2>1. UNCHANGED <<setting, unsent, delivered>>
    BY <1>6 DEF net_update, history
  <2>2. PICK p : p = [type |-> "ping request"]
    OBVIOUS
  <2>3. p.type # "data"
    BY <2>2
  <2>4. PICK nodes, act : SendTo(n, nodes, p, wire, act)
    BY <1>6, <2>2 DEF net_update
  <2>5. wire \subseteq wire' /\ \A m \in wire' : m \in wire \/ m.packet = p
    BY <2>4 DEF SendTo, Message
  <2>. QED  BY <1>3, <2>1, <2>3, <2>5
<1>7. ASSUME net_send_data_packet(n) PROVE DataInv'
  <2>1. PICK d \in unsent :
          /\ Idle(n) /\ d.from = n /\ unsent' = unsent \ {d}
          /\ IF IsRefused(d) \/ net_get_next_hop(n, d.to) = None
             THEN UNCHANGED <<stack, buffer, wire, unanswered>>
             ELSE SendTo(n, {net_get_next_hop(n, d.to)}, d, wire, Send)
          /\ UNCHANGED <<setting, rounds, statics, history>>
    BY <1>7 DEF net_send_data_packet
  <2>. DEFINE goes == ~ (IsRefused(d) \/ net_get_next_hop(n, d.to) = None)
  <2>2. d \in setting.data /\ unsent' = unsent \ {d} /\ delivered' = delivered /\ setting' = setting
    BY <2>1 DEF Types, Counters, history
  <2>3. IsLong(d) => ~ Arrived(d) /\ \A m \in wire : ~ Carries(m, d)
    BY <2>1, <2>2 DEF DataInv, InOnePlace
  <2>4. CASE ~ goes
    <3>1. wire' = wire
      BY <2>1, <2>4
    <3>2. d \in Accepted(setting.data) => ~ LeadsTo(d.from, d.to)
      BY <2>1, <2>2, <2>4, HopLeadsOn, AcceptedTyped DEF Types
    <3>3. NoneDropped'
      <4>. SUFFICES ASSUME Reliable', NEW e \in Accepted(setting'.data) \ unsent',
                           LeadsTo(e.from, e.to)', ~ Arrived(e)'
                    PROVE  OnItsWay(e)'
        BY DEF NoneDropped
      <4>1. e \in Accepted(setting.data) /\ ~ Arrived(e) /\ e.from \in Node /\ e.to \in Node
        BY <2>2, AcceptedTyped DEF Arrived, Types
      <4>2. Reliable /\ LeadsTo(e.from, e.to)
        BY <2>2, <4>1, SameWays
      <4>3. PICK m \in wire : Carries(m, e) /\ (m.to = e.to \/ LeadsTo(m.to, e.to))
        BY <2>2, <3>2, <4>1, <4>2 DEF DataInv, NoneDropped, OnItsWay
      <4>4. m.to = e.to \/ LeadsTo(m.to, e.to)'
        BY <2>2, <4>1, <4>3, SameWays, MessageTyped
      <4>. QED  BY <3>1, <4>3, <4>4 DEF OnItsWay, Carries
    <3>4. InOnePlace'
      BY <2>2, <3>1 DEF DataInv, InOnePlace, Arrived, Carries, IsLong
    <3>. QED  BY <2>2, <3>3, <3>4 DEF DataInv
  <2>5. CASE goes
    <3>1. PICK gone : gone = {}
      OBVIOUS
    <3>2. wire \ gone = wire /\ \A m \in gone : Carries(m, d)
      BY <3>1
    <3>3. /\ SendTo(n, {net_get_next_hop(n, d.to)}, d, wire \ gone, Send)
          /\ d \in Accepted(setting.data)
      BY <2>1, <2>2, <2>5, <3>2 DEF Accepted
    <3>4. IsLong(d) => /\ ~ Arrived(d) /\ d \notin unsent'
                       /\ \A m \in wire \ gone : ~ Carries(m, d)
      BY <2>2, <2>3, <3>2
    <3>5. LeadsTo(d.from, d.to) => LeadsTo(n, d.to)
      BY <2>1
    <3>6. unsent' \subseteq unsent /\ unsent \subseteq unsent' \cup {d}
      BY <2>2
    <3>. QED  BY <2>2, <3>2, <3>3, <3>4, <3>5, <3>6, DataIsSentOn
  <2>. QED  BY <2>4, <2>5
<1>8. ASSUME NEW m \in wire, AcceptLinkState(n, m) \/ net_notify_ping_response(n, m) PROVE DataInv'
  <2>1. /\ m.packet.type # "data" /\ wire' = wire \ {m}
        /\ UNCHANGED <<setting, unsent, delivered>>
    BY <1>8 DEF AcceptLinkState, net_notify_ping_response, history
  <2>. QED  BY <1>3, <2>1
<1>9. ASSUME NEW m \in wire, AnswerPing(n, m) PROVE DataInv'
  <2>1. m.packet.type # "data" /\ UNCHANGED <<setting, unsent, delivered>>
    BY <1>9 DEF AnswerPing, history
  <2>2. PICK p : p = [type |-> "ping response", source |-> n]
    OBVIOUS
  <2>3. p.type # "data"
    BY <2>2
  <2>4. PICK nodes, kept : SendTo(n, nodes, p, kept, Send) /\ kept = wire \ {m}
    BY <1>9, <2>2 DEF AnswerPing
  <2>5. wire \ {m} \subseteq wire' /\ \A k \in wire' : k \in wire \/ k.packet = p
    BY <2>4 DEF SendTo, Message
  <2>. QED  BY <1>3, <2>1, <2>3, <2>5
<1>10. ASSUME NEW m \in wire, ForwardData(n, m) PROVE DataInv'
  <2>. DEFINE d == m.packet
  <2>0. d \in Accepted(setting.data)
    BY <1>10, ForwardEffect
  <2>1. /\ d \in Accepted(setting.data) /\ d \in setting.data /\ Carries(m, d) /\ m.to = n /\ d.to # n
        /\ d.from \in Node /\ d.to \in Node
    BY <1>10, <2>0, AcceptedTyped DEF ForwardData, Takes, net_validate_packet, Carries, Types
  <2>2. /\ SendTo(n, {net_get_next_hop(n, d.to)}, d, wire \ {m}, Send)
        /\ UNCHANGED <<setting, unsent, delivered>>
    BY <1>10 DEF ForwardData, history
  <2>. HIDE DEF d
  <2>3. IsLong(d) => ~ Arrived(d) /\ d \notin unsent /\ \A k \in wire \ {m} : ~ Carries(k, d)
    BY <2>1 DEF DataInv, InOnePlace
  <2>4. Reliable /\ d \notin unsent /\ LeadsTo(d.from, d.to) =>
          \/ Arrived(d) \/ LeadsTo(n, d.to)
          \/ \E k \in wire \ {m} : Carries(k, d) /\ (k.to = d.to \/ LeadsTo(k.to, d.to))
    BY <2>1 DEF DataInv, NoneDropped, OnItsWay
  <2>5. \A k \in {m} : Carries(k, d)
    BY <2>1
  <2>6. unsent' \subseteq unsent /\ unsent \subseteq unsent' \cup {d}
    BY <2>2
  <2>7. PICK gone : gone = {m}
    OBVIOUS
  <2>8. PICK e \in Accepted(setting.data) : e = d
    BY <2>1
  <2>9. SendTo(n, {net_get_next_hop(n, e.to)}, e, wire \ gone, Send)
    BY <2>2, <2>7, <2>8
  <2>10. \A k \in gone : Carries(k, e)
    BY <2>5, <2>7, <2>8
  <2>11. IsLong(e) => ~ Arrived(e) /\ e \notin unsent' /\ \A k \in wire \ gone : ~ Carries(k, e)
    BY <2>2, <2>3, <2>7, <2>8
  <2>12. Reliable /\ e \notin unsent' /\ LeadsTo(e.from, e.to) =>
          \/ Arrived(e) \/ LeadsTo(n, e.to)
          \/ \E k \in wire \ gone : Carries(k, e) /\ (k.to = e.to \/ LeadsTo(k.to, e.to))
    BY <2>2, <2>4, <2>7, <2>8
  <2>13. unsent' \subseteq unsent /\ unsent \subseteq unsent' \cup {e}
    BY <2>6, <2>8
  <2>. QED  BY <2>2, <2>9, <2>10, <2>11, <2>12, <2>13, DataIsSentOn
<1>11. ASSUME Restart(n) PROVE DataInv'
  <2>1. /\ UNCHANGED <<setting, unsent, delivered>> /\ wire' \subseteq wire
        /\ n \in setting.restarting
    BY <1>11, RestartEffect
  <2>2. ~ Reliable
    BY <2>1 DEF Reliable
  <2>. QED  BY <2>1, <2>2, NoDataMoves
<1>. QED  BY <1>4, <1>5, <1>6, <1>7, <1>8, <1>9, <1>10, <1>11, DataArrivesAtLast
          DEF Acts, GoOn, Handles, Begin

LEMMA DataKept == Types /\ DataInv /\ [Next]_vars => DataInv'
<1>. SUFFICES ASSUME Types, DataInv, [Next]_vars PROVE DataInv'
  OBVIOUS
<1>0. Types'
  BY StepTypes
<1>1. CASE UNCHANGED vars
  BY <1>0, <1>1, NoDataMoves DEF vars, history
<1>2. ASSUME NEW m \in wire, Lose(m) PROVE DataInv'
  <2>1. ~ Reliable /\ wire' \subseteq wire /\ UNCHANGED <<setting, unsent, delivered>>
    BY <1>2 DEF Lose, Reliable, history
  <2>. QED  BY <1>0, <2>1, NoDataMoves
<1>3. ASSUME NEW n \in Node, NEW m \in wire, Ignore(n, m) PROVE DataInv'
  <2>1. wire' = wire \ {m} /\ UNCHANGED <<setting, unsent, delivered>> /\ m.to = n
    BY <1>3 DEF Ignore, Takes, history
  <2>2. ASSUME NEW d \in Accepted(setting.data), Carries(m, d), m.to = d.to \/ LeadsTo(m.to, d.to)
        PROVE  FALSE
    <3>1. d.type = "data" /\ d.to \in Node /\ m.packet = d /\ net_validate_packet(m)
      BY <2>2, DataTyped, AcceptedTyped DEF Types, Carries, net_validate_packet
    <3>2. d.to # n /\ net_get_next_hop(n, d.to) = None
      BY <1>3, <3>1 DEF Ignore
    <3>. QED  BY <2>1, <2>2, <3>1, <3>2, HopLeadsOn DEF Types
  <2>3. \A d \in Accepted(setting.data) : \A k \in wire :
          Reliable /\ Carries(k, d) /\ (k.to = d.to \/ LeadsTo(k.to, d.to)) => k \in wire'
    BY <2>1, <2>2
  <2>. QED  BY <1>0, <2>1, <2>3, NoDataMoves
<1>4. ASSUME NEW n \in Node, Receive(n) PROVE DataInv'
  <2>1. PICK m \in wire : net_handle_received_packet(n, m)
    BY <1>4 DEF Receive
  <2>2. CASE Ignore(n, m)
    BY <1>3, <2>2
  <2>. QED  BY <1>0, <2>1, <2>2, DataStep DEF net_handle_received_packet, Acts, Handles
<1>. QED  BY <1>0, <1>1, <1>2, <1>4, DataStep DEF Next, Acts

LEMMA DataInit == Init => DataInv
<1>. SUFFICES ASSUME Init PROVE DataInv
  OBVIOUS
<1>1. delivered = <<>> /\ wire = {} /\ unsent = setting.data
  BY DEF Init
<1>2. DOMAIN delivered = {} /\ delivered \in Seq(setting.data)
  BY <1>1
<1>. QED  BY <1>1, <1>2 DEF DataInv, NoneDropped, InOnePlace, Arrived, Accepted

LEMMA DataImplies == ASSUME Types, DataInv PROVE DataArrives
<1>. SUFFICES ASSUME AtRest, Reliable, NEW d \in Accepted(setting.data) \ unsent,
                     LeadsTo(d.from, d.to)
              PROVE  Deliveries(d) >= 1 /\ (IsLong(d) => Deliveries(d) = 1)
  BY DEF DataArrives, Quiet, IsLong, Accepted
<1>. DEFINE places == {i \in DOMAIN delivered : delivered[i] = d}
<1>0. d \in setting.data
  BY AcceptedTyped DEF Types
<1>1. PICK i \in DOMAIN delivered : delivered[i] = d
  BY DEF AtRest, DataInv, NoneDropped, OnItsWay, Arrived
<1>2. IsFiniteSet(DOMAIN delivered)
  <2>1. DOMAIN delivered = 1 .. Len(delivered) /\ Len(delivered) \in Nat
    BY DEF DataInv
  <2>. QED  BY <2>1, FS_Interval
<1>3. IsFiniteSet(places) /\ IsFiniteSet({i}) /\ {i} \subseteq places
  BY <1>1, <1>2, FS_Subset, FS_Singleton
<1>4. Cardinality(places) \in Nat /\ Cardinality(places) >= 1
  <2>1. Cardinality({i}) <= Cardinality(places) /\ Cardinality({i}) = 1
    BY <1>3, FS_Subset, FS_Singleton
  <2>. QED  BY <1>3, <2>1, FS_CardinalityType
<1>5. ASSUME IsLong(d) PROVE Cardinality(places) = 1
  <2>1. places = {i}
    BY <1>0, <1>1, <1>5 DEF DataInv, InOnePlace
  <2>. QED  BY <2>1, FS_Singleton
<1>. QED  BY <1>4, <1>5 DEF Deliveries

\* Data of one frame that net_send_data_packet() does not refuse, sent along hops that lead to its
\* destination, is given to the receive callback there, and once only if it is longer than link
\* states are, whatever floods and other data of one frame go through the same buffers meanwhile.
THEOREM DataArrivesAlways == Spec => []DataArrives
<1>1. Types /\ DataInv => DataArrives
  BY DataImplies
<1>. QED  BY <1>1, DataInit, DataKept, TypesAlways, PTL DEF Spec

-----------------------------------------------------------------------------
(* One node announces itself in each period and nothing else is sent: its   *)
(* floods reach the entire network.                                         *)

\* The setting: the neighbours are known from the start and for long enough.
Undisturbed(a) ==
  /\ a \in Node /\ setting.announcers = {a} /\ setting.data = {} /\ ~ setting.pings
  /\ Reliable /\ setting.prompt /\ setting.rounds < NeighbourTTL

\* Every node is reached from a over nodes in range; one at the last bus address is never sent to.
InReach(a) ==
  \A S \in SUBSET Node :
    (a \in S /\ \A x \in S : \A y \in setting.range[x] : y < MaxAddress => y \in S) => S = Node

Links ==
  \A n \in Node : /\ rounds[n] <= setting.rounds
                  /\ \A b \in Node : neighbour_links[n][b] =
                       IF b \in setting.range[n] THEN NeighbourTTL - rounds[n] ELSE 0

\* a announces itself once in a period.
OncePerPeriod(a) == announced[a] = IF Updates(a) THEN rounds[a] - 1 ELSE rounds[a]

\* The last announcement of a, and that n has it.
Last(a) ==
  [type |-> "link state", source |-> a, number |-> sequence_number[a], nodes |-> setting.range[a],
   boot |-> 0, stamp |-> announced[a]]

Has(n, a) == n = a \/ link_state_packets[n][a].stamp = announced[a]

Loops(n) == ~ Idle(n) /\ Top(n).kind = "flood"

\* Every node does one thing at a time, and what is sent is the last announcement.
OneThing(a) ==
  \A n \in Node : /\ Len(stack[n]) <= 1
                  /\ ~ Idle(n) => Top(n).kind # "send"
                  /\ Loops(n) =>
                       /\ Top(n).length = PacketLength(Last(a)) /\ buffer[n] = Last(a)
                       /\ Has(n, a) /\ (Top(n).except = None \/ Has(Top(n).except, a))
                       /\ announced[a] > 0

OneMessage(a) ==
  \A m \in wire : m.packet = Last(a) /\ m.length = PacketLength(Last(a)) /\ Has(m.from, a)
                /\ announced[a] > 0

\* What the nodes have noted is the last announcement or the one before, and lives long enough.
Noted(a) ==
  \A n \in Node \ {a} :
    LET entry == link_state_packets[n][a]
    IN /\ entry.stamp = announced[a] \/ entry.stamp = announced[a] - 1
       /\ entry.stamp = 0 => entry.ttl = 0
       /\ entry.stamp > 0 => entry.ttl + rounds[n] >= (LinkStateTTL + entry.stamp) - 1

\* The flood goes on from every node that it has come to.
GoesOn(a) ==
  \A x \in Node : \A y \in setting.range[x] : Has(x, a) /\ y < MaxAddress =>
    \/ Has(y, a)
    \/ \E m \in wire : m.to = y
    \/ Loops(x) /\ y >= Top(x).next /\ y # Top(x).except

Complete(a) == \A n \in Node : Has(n, a)

Reaching(a) ==
  /\ Links /\ OncePerPeriod(a) /\ OneThing(a) /\ OneMessage(a) /\ Noted(a) /\ GoesOn(a)
  /\ Behind(a) \/ Updates(a) => Complete(a)

\* Every send gets its acknowledgement.
AllAnswered == \A n \in Node : unanswered[n] = {}

LEMMA NextIsNewer ==
  ASSUME Modulus > 1, NEW first \in Int, NEW old \in Int
  PROVE  IsNewer((first + (old + 1)) % Modulus, (first + old) % Modulus)
<1>. DEFINE x == first + old
            s == x % Modulus
            r == (s + 1) % Modulus
            h == Modulus \div 2
<1>1. Modulus \in Nat /\ Modulus > 0 /\ x \in Int /\ first + (old + 1) = x + 1
  BY ConstantsTyped
<1>2. h >= 1 /\ h \in Nat
  BY <1>1
<1>3. s \in Nat /\ s < Modulus
  BY <1>1, Division
<1>4. r = (x + 1) % Modulus
  BY <1>1, NumberOfNext
<1>. HIDE DEF s, h
<1>5. (s + 1 < Modulus /\ r = s + 1) \/ (s + 1 = Modulus /\ r = 0)
  <2>1. CASE s + 1 < Modulus
    <3>1. s + 1 = Modulus * 0 + (s + 1)
      BY <1>1, <1>3
    <3>. QED  BY <1>1, <1>3, <2>1, <3>1, RemainderIs
  <2>2. CASE s + 1 = Modulus
    <3>1. s + 1 = Modulus * 1 + 0
      BY <1>1, <1>3, <2>2
    <3>. QED  BY <1>1, <1>3, <2>2, <3>1, RemainderIs
  <2>. QED  BY <1>1, <1>3, <2>1, <2>2
<1>. DEFINE d == r + (Modulus - s)
<1>. HIDE DEF r
<1>6. d = Modulus + 1 \/ d = 1
  BY <1>1, <1>3, <1>5
<1>7. d % Modulus = 1
  <2>1. CASE d = Modulus + 1
    <3>1. d = Modulus * 1 + 1 /\ d \in Int
      BY <1>1, <2>1
    <3>. QED  BY <1>1, <3>1, RemainderIs
  <2>2. CASE d = 1
    <3>1. d = Modulus * 0 + 1 /\ d \in Int
      BY <1>1, <2>2
    <3>. QED  BY <1>1, <3>1, RemainderIs
  <2>. QED  BY <1>6, <2>1, <2>2
<1>8. r + Modulus - s = d
  BY <1>1, <1>3, <1>5
<1>9. IsNewer(r, s)
  BY <1>2, <1>7, <1>8 DEF IsNewer, h
<1>10. r = (first + (old + 1)) % Modulus
  BY <1>1, <1>4
<1>. QED  BY <1>9, <1>10 DEF s

LEMMA FloodTyped ==
  ASSUME NEW act \in Activation, act.kind = "flood", NEW b
  PROVE  [act EXCEPT !.next = b].except = act.except /\ act.except \in Node \cup {None}
<1>. DEFINE lengths == {PacketLength(q) : q \in LinkStatePackets}
            FloodActivations == [kind : {"flood"}, packet : LinkStatePackets, length : lengths,
                                 next : 0 .. MaxAddress, except : Node \cup {None}]
<1>. HIDE DEF lengths
<1>1. CASE act \in {Send, [kind |-> "update"]}
  BY <1>1 DEF Send
<1>2. CASE act \in FloodActivations
  BY <1>2
<1>. QED  BY <1>1, <1>2 DEF Activation, lengths

LEMMA LastTyped ==
  ASSUME Types, NEW a \in Node
  PROVE  /\ Last(a) \in LinkStatePackets /\ Last(a).source = a /\ Last(a).stamp = announced[a]
         /\ Last(a).number = sequence_number[a] /\ Last(a).boot = 0
         /\ Last(a).type = "link state" /\ announced[a] \in Nat
<1>1. sequence_number[a] \in 0 .. Modulus - 1 /\ announced[a] \in Nat
  BY DEF Types, Counters
<1>2. setting.range[a] \in SUBSET Node
  BY RangeTyped DEF Types
<1>. DEFINE number == sequence_number[a]
            nodes == setting.range[a]
            stamp == announced[a]
            p == [type |-> "link state", source |-> a, number |-> number, nodes |-> nodes,
                  boot |-> 0, stamp |-> stamp]
<1>3. number \in 0 .. Modulus - 1 /\ nodes \in SUBSET Node /\ stamp \in Nat /\ 0 \in Nat
  BY <1>1, <1>2
<1>4. Last(a) = p
  BY DEF Last
<1>. HIDE DEF number, nodes, stamp
<1>5. /\ p \in LinkStatePackets /\ p.source = a /\ p.number = number /\ p.nodes = nodes
      /\ p.boot = 0 /\ p.stamp = stamp
  BY <1>3, IsLinkStatePacket
<1>6. p.type = "link state"
  OBVIOUS
<1>. HIDE DEF p
<1>. QED  BY <1>1, <1>4, <1>5, <1>6 DEF number, stamp

LEMMA NoRestarts ==
  ASSUME Types, Announcements, NEW a \in Node, Undisturbed(a)
  PROVE  /\ \A n \in Node : boots[n].count = 0
         /\ sequence_number[a] = (setting.number + announced[a]) % Modulus
BY DEF Undisturbed, Reliable, Announcements, Before

\* Where every node that has the announcement has sent it on, all have it.
LEMMA CompleteAtRest ==
  ASSUME Types, NEW a \in Node, InReach(a), GoesOn(a), AtRest PROVE Complete(a)
<1>. DEFINE S == {n \in Node : Has(n, a)}
<1>1. S \in SUBSET Node /\ a \in S
  BY DEF Has
<1>2. ASSUME NEW x \in S, NEW y \in setting.range[x], y < MaxAddress PROVE y \in S
  <2>1. y \in Node /\ x \in Node /\ Has(x, a)
    BY RangeTyped DEF Types
  <2>2. wire = {} /\ ~ Loops(x)
    BY <2>1 DEF AtRest, Loops
  <2>3. Has(y, a)
    BY <1>2, <2>1, <2>2 DEF GoesOn
  <2>. QED  BY <2>1, <2>3
<1>3. S = Node
  <2>. HIDE DEF S
  <2>. QED  BY <1>1, <1>2 DEF InReach
<1>. QED  BY <1>3 DEF Complete

\* While the announcement is sent, a is in the period that it belongs to, and none is ahead.
LEMMA WhileItTravels ==
  ASSUME Types, NEW a \in Node, Prompt, Reaching(a), wire # {} \/ \E n \in Node : Loops(n)
  PROVE  /\ ~ Behind(a) /\ ~ Updates(a) /\ announced[a] = rounds[a] /\ announced[a] > 0
         /\ \A n \in Node : rounds[n] <= rounds[a] /\ rounds[n] + 1 >= rounds[a]
<1>1. Travels(Last(a)) /\ announced[a] > 0
  <2>1. CASE wire # {}
    BY <2>1 DEF Reaching, OneMessage, Travels
  <2>2. ASSUME NEW n \in Node, Loops(n) PROVE Travels(Last(a)) /\ announced[a] > 0
    BY <2>2 DEF Reaching, OneThing, Travels, Loops
  <2>. QED  BY <2>1, <2>2
<1>2. ~ Behind(a) /\ ~ Updates(a)
  <2>1. Last(a) \in LinkStatePackets /\ Last(a).source = a
    BY LastTyped
  <2>. QED  BY <1>1, <2>1 DEF Prompt, NothingPending
<1>3. announced[a] = rounds[a]
  BY <1>2 DEF Reaching, OncePerPeriod
<1>4. \A n \in Node : rounds[n] \in Nat
  BY DEF Types, Counters
<1>. QED  BY <1>1, <1>2, <1>3, <1>4 DEF Behind, Prompt, PeriodsTogether

\* The last announcement is news to the nodes that do not have it, and to no other.
LEMMA NewsOnce ==
  ASSUME Types, Announcements, Prompt, NEW a \in Node, Undisturbed(a), Reaching(a),
         LinkStateTTL > 1, Modulus > 1, NEW n \in Node, wire # {}
  PROVE  IsNews(n, Last(a)) <=> ~ Has(n, a)
<1>. DEFINE entry == link_state_packets[n][a]
            first == setting.number
            s == announced[a]
            t == entry.stamp
<1>0. /\ Last(a).source = a /\ Last(a).number = sequence_number[a] /\ s \in Nat /\ first \in Int
      /\ entry \in Entries /\ t \in Nat /\ entry.ttl \in Nat /\ entry.boot \in Nat
  <2>1. Last(a).source = a /\ Last(a).number = sequence_number[a] /\ s \in Nat
    BY LastTyped
  <2>2. first \in Int
    BY SettingTyped, ConstantsTyped DEF Types, Counters
  <2>3. entry \in Entries
    BY DEF Types, Tables
  <2>4. t \in Nat /\ entry.ttl \in Nat /\ entry.boot \in Nat
    BY <2>3, EntryTyped, ConstantsTyped
  <2>. QED  BY <2>1, <2>2, <2>3, <2>4
<1>1. /\ s = rounds[a] /\ s > 0 /\ rounds[n] <= rounds[a] /\ rounds[n] \in Nat /\ rounds[a] \in Nat
  BY WhileItTravels DEF Types, Counters
<1>2. sequence_number[a] = (first + s) % Modulus
  BY NoRestarts
<1>3. IsLive(entry) => entry.number = (first + t) % Modulus
  <2>. SUFFICES ASSUME IsLive(entry) PROVE entry.number = (first + t) % Modulus
    OBVIOUS
  <2>1. Made(a, entry, boots, announced, setting.number) /\ boots[a].count = 0
    BY NoRestarts DEF Announcements
  <2>2. entry.boot = 0
    BY <1>0, <2>1 DEF Made
  <2>. QED  BY <2>1, <2>2 DEF Made, Before
<1>4. CASE n = a
  BY <1>0, <1>4 DEF IsNews, Has
<1>5. CASE n # a
  <2>1. /\ t = s \/ t = s - 1
        /\ t > 0 => entry.ttl + rounds[n] >= (LinkStateTTL + t) - 1
    BY <1>5 DEF Reaching, Noted
  <2>2. Has(n, a) <=> t = s
    BY <1>5 DEF Has
  <2>3. IsNews(n, Last(a)) <=> (IsLive(entry) => IsNewer((first + s) % Modulus, entry.number))
    BY <1>0, <1>2, <1>5 DEF IsNews
  <2>4. CASE t = s
    <3>1. entry.ttl > 0
      BY <1>0, <1>1, <2>1, <2>4, ConstantsTyped
    <3>2. IsLive(entry)
      BY <3>1 DEF IsLive
    <3>3. s - s < Modulus - (Modulus \div 2)
      BY <1>0, NotAheadIsTimely
    <3>4. ~ IsNewer((first + s) % Modulus, (first + s) % Modulus)
      <4>1. s \in Int /\ s <= s
        BY <1>0
      <4>. QED  BY <1>0, <3>3, <4>1, OlderIsNotNewer
    <3>. QED  BY <1>3, <2>2, <2>3, <2>4, <3>2, <3>4
  <2>5. CASE t = s - 1
    <3>1. s = t + 1 /\ t # s /\ t \in Int
      BY <1>0, <2>5
    <3>2. IsNewer((first + (t + 1)) % Modulus, (first + t) % Modulus)
      BY <1>0, <3>1, NextIsNewer
    <3>. QED  BY <1>3, <2>2, <2>3, <3>1, <3>2
  <2>. QED  BY <2>1, <2>4, <2>5
<1>. QED  BY <1>4, <1>5

\* The edges of node x: whom its flood has come to, or will.
GoesOnFrom(x, a) ==
  Has(x, a) => \A y \in setting.range[x] : y < MaxAddress =>
    \/ Has(y, a)
    \/ \E m \in wire : m.to = y
    \/ Loops(x) /\ y >= Top(x).next /\ y # Top(x).except

\* Node n is idle, or does one thing.
DoesOne(n, a) ==
  /\ Len(stack[n]) <= 1
  /\ ~ Idle(n) => Top(n).kind # "send"
  /\ Loops(n) => /\ Top(n).length = PacketLength(Last(a)) /\ buffer[n] = Last(a)
                 /\ Has(n, a) /\ (Top(n).except = None \/ Has(Top(n).except, a))
                 /\ announced[a] > 0

\* A step of n in which the flood goes on.
LEMMA FloodGoesOn ==
  ASSUME Types, Types', NEW a \in Node, Undisturbed(a), Reaching(a), NEW n \in Node,
         UNCHANGED <<setting, rounds, neighbour_links>>,
         announced'[a] = announced[a], sequence_number'[a] = sequence_number[a],
         \A k \in Node \ {n} : stack'[k] = stack[k] /\ buffer'[k] = buffer[k],
         DoesOne(n, a)', GoesOnFrom(n, a)', Updates(a)' <=> Updates(a),
         \A k \in Node \ {a} :
           \/ link_state_packets'[k][a] = link_state_packets[k][a]
           \/ /\ k = n /\ link_state_packets'[k][a].stamp = announced[a] /\ announced[a] > 0
              /\ link_state_packets'[k][a].ttl + rounds[k] >= (LinkStateTTL + announced[a]) - 1,
         \A m \in wire' : \/ m \in wire
                          \/ /\ m.packet = Last(a) /\ m.length = PacketLength(Last(a))
                             /\ Has(m.from, a) /\ announced[a] > 0,
         \A m \in wire \ wire' : Has(m.to, a)'
  PROVE  Reaching(a)'
<1>0. Last(a)' = Last(a)
  BY DEF Last
<1>1. \A k \in Node : Has(k, a) => Has(k, a)'
  BY DEF Has
<1>2. Links' /\ OncePerPeriod(a)'
  BY DEF Reaching, Links, OncePerPeriod
<1>3. OneThing(a)'
  <2>. SUFFICES ASSUME NEW k \in Node PROVE DoesOne(k, a)'
    BY DEF OneThing, DoesOne
  <2>1. CASE k = n
    BY <2>1
  <2>2. CASE k # n
    <3>1. stack'[k] = stack[k] /\ buffer'[k] = buffer[k]
      BY <2>2
    <3>2. DoesOne(k, a)
      BY DEF Reaching, OneThing, DoesOne
    <3>3. Loops(k) => Top(k).except \in Node \cup {None}
      BY FloodTyped, StacksTyped DEF Loops, Types
    <3>. QED  BY <1>0, <1>1, <3>1, <3>2, <3>3 DEF DoesOne, Loops, Idle, Top
  <2>. QED  BY <2>1, <2>2
<1>4. OneMessage(a)'
  <2>. SUFFICES ASSUME NEW m \in wire'
                PROVE  /\ m.packet = Last(a) /\ m.length = PacketLength(Last(a))
                       /\ Has(m.from, a)' /\ announced[a] > 0
    BY <1>0 DEF OneMessage
  <2>1. m.from \in Node
    BY DEF Types, Messages
  <2>2. m.packet = Last(a) /\ m.length = PacketLength(Last(a)) /\ Has(m.from, a) /\ announced[a] > 0
    BY DEF Reaching, OneMessage
  <2>. QED  BY <1>1, <2>1, <2>2
<1>5. Noted(a)'
  <2>. SUFFICES ASSUME NEW k \in Node \ {a}
                PROVE  LET entry == link_state_packets'[k][a]
                       IN /\ entry.stamp = announced[a] \/ entry.stamp = announced[a] - 1
                          /\ entry.stamp = 0 => entry.ttl = 0
                          /\ entry.stamp > 0 => entry.ttl + rounds[k] >= (LinkStateTTL + entry.stamp) - 1
    BY DEF Noted
  <2>1. announced[a] \in Nat
    BY DEF Types, Counters
  <2>. QED  BY <2>1 DEF Reaching, Noted
<1>6. GoesOn(a)'
  <2>. SUFFICES ASSUME NEW x \in Node PROVE GoesOnFrom(x, a)'
    BY DEF GoesOn, GoesOnFrom
  <2>1. CASE x = n
    BY <2>1
  <2>2. CASE x # n
    <3>. SUFFICES ASSUME Has(x, a)', NEW y \in setting.range[x], y < MaxAddress, ~ Has(y, a)',
                         ~ \E m \in wire' : m.to = y
                  PROVE  Loops(x)' /\ y >= Top(x)'.next /\ y # Top(x)'.except
      BY DEF GoesOnFrom
    <3>1. stack'[x] = stack[x] /\ y \in Node
      BY <2>2, RangeTyped DEF Types
    <3>2. ~ Has(y, a) /\ ~ \E m \in wire : m.to = y
      BY <1>1, <3>1
    <3>3. CASE Has(x, a)
      <4>1. Loops(x) /\ y >= Top(x).next /\ y # Top(x).except
        BY <3>2, <3>3 DEF Reaching, GoesOn
      <4>. QED  BY <3>1, <4>1 DEF Loops, Idle, Top
    <3>4. Has(x, a)
      BY <2>2 DEF Has
    <3>. QED  BY <3>3, <3>4
  <2>. QED  BY <2>1, <2>2
<1>7. Behind(a)' \/ Updates(a)' => Complete(a)'
  BY <1>1 DEF Reaching, Behind, Complete
<1>. QED  BY <1>2, <1>3, <1>4, <1>5, <1>6, <1>7 DEF Reaching

LEMMA OneAtATime ==
  ASSUME Types, NEW a \in Node, Reaching(a), NEW n \in Node, ~ Idle(n)
  PROVE  Len(stack[n]) = 1 /\ Top(n) = stack[n][1] /\ Top(n) \in Activation
<1>1. Len(stack[n]) \in Nat /\ Len(stack[n]) > 0 /\ Top(n) \in Activation
  BY StacksTyped DEF Types
<1>2. Len(stack[n]) <= 1
  BY DEF Reaching, OneThing
<1>3. \A k \in Nat : k > 0 /\ k <= 1 => k = 1
  OBVIOUS
<1>4. Len(stack[n]) = 1
  BY <1>1, <1>2, <1>3, Zenon
<1>. QED  BY <1>1, <1>4 DEF Top

\* The lemmas below are about what a node that floods, or is about to, does next.
LEMMA SendsOn ==
  ASSUME Types, Types', NEW a \in Node, Undisturbed(a), Prompt, Reaching(a), NEW n \in Node, SendToNext(n)
  PROVE  Reaching(a)'
<1>1. Loops(n) /\ ~ Waiting(n) /\ ~ Idle(n)
  BY DEF SendToNext, Loops
<1>2. Len(stack[n]) = 1 /\ Top(n) = stack[n][1] /\ Top(n) \in Activation /\ Top(n).kind = "flood"
  BY <1>1, OneAtATime DEF Loops
<1>3. PICK b \in StillToCome(n) :
       /\ \A c \in StillToCome(n) : b <= c
       /\ stack' = [stack EXCEPT ![n] = Append(Popped(n), [Top(n) EXCEPT !.next = b + 1])]
       /\ wire' = wire \cup {Message(n, Len(stack[n]), c, buffer[n], Top(n).length) :
                                c \in {b} \cap setting.range[n]}
  BY DEF SendToNext
<1>. DEFINE act == [Top(n) EXCEPT !.next = b + 1]
<1>4. b + 1 \in 0 .. MaxAddress /\ b \in Node /\ b \in Nat
  BY ConstantsTyped DEF StillToCome, Neighbours
<1>5. /\ act \in Activation /\ act.kind = "flood" /\ act.length = Top(n).length
      /\ act.next = b + 1 /\ act.except = Top(n).except
  BY <1>2, <1>4, ActivationTyped, FloodTyped
<1>. HIDE DEF act
<1>6. /\ Replaces(n, act) /\ \A k \in Node \ {n} : stack'[k] = stack[k]
  BY <1>1, <1>3, <1>5, ReplaceTyped DEF Types, act
<1>7. Len(stack'[n]) = 1 /\ stack'[n][1] = act
  BY <1>2, <1>6 DEF Replaces
<1>8. Loops(n)' /\ Top(n)' = act
  BY <1>5, <1>7, StacksTyped DEF Types, Loops, Top, Idle
<1>9. UNCHANGED <<setting, rounds, buffer, sequence_number, link_state_packets, neighbour_links, announced>>
  BY DEF SendToNext, statics, history
<1>10. \A k : Has(k, a)' <=> Has(k, a)
  BY <1>9 DEF Has
<1>11. Last(a)' = Last(a)
  BY <1>9 DEF Last
<1>12. /\ Top(n).length = PacketLength(Last(a)) /\ buffer[n] = Last(a) /\ Has(n, a)
       /\ Top(n).except = None \/ Has(Top(n).except, a)
       /\ announced[a] > 0
  BY <1>1 DEF Reaching, OneThing
<1>13. DoesOne(n, a)'
  BY <1>5, <1>7, <1>8, <1>9, <1>10, <1>11, <1>12 DEF DoesOne
<1>14. GoesOnFrom(n, a)'
  <2>. SUFFICES ASSUME NEW y \in setting.range[n], y < MaxAddress, ~ Has(y, a),
                       ~ \E m \in wire' : m.to = y
                PROVE  y >= b + 1 /\ y # Top(n).except
    BY <1>5, <1>8, <1>9, <1>10 DEF GoesOnFrom
  <2>1. y >= Top(n).next /\ y # Top(n).except /\ y \in Node /\ y \in Nat
    BY <1>3, <1>12, RangeTyped, ConstantsTyped DEF Reaching, GoesOn, Types
  <2>2. neighbour_links[n][y] > 0
    <3>1. rounds[n] \in Nat /\ setting.rounds \in Nat /\ rounds[n] <= setting.rounds
      BY SettingTyped DEF Types, Counters, Reaching, Links
    <3>2. neighbour_links[n][y] = NeighbourTTL - rounds[n] /\ setting.rounds < NeighbourTTL
      BY <2>1 DEF Reaching, Links, Undisturbed
    <3>. QED  BY <3>1, <3>2, ConstantsTyped
  <2>3. y \in StillToCome(n)
    BY <2>1, <2>2 DEF StillToCome, Neighbours
  <2>4. b <= y
    BY <1>3, <2>3
  <2>5. y # b
    <3>1. ASSUME y = b PROVE FALSE
      <4>1. Message(n, Len(stack[n]), b, buffer[n], Top(n).length) \in wire'
        BY <1>3, <3>1
      <4>2. Message(n, Len(stack[n]), b, buffer[n], Top(n).length).to = b
        BY DEF Message
      <4>. QED  BY <3>1, <4>1, <4>2
    <3>. QED  BY <3>1
  <2>. QED  BY <1>4, <2>1, <2>4, <2>5
<1>15. \A k \in Node : Updates(k)' <=> Updates(k)
  <2>1. ~ Updates(n) /\ ~ (Updates(n)')
    BY <1>2, <1>5, <1>7, StacksTyped DEF Types, Updates
  <2>. QED  BY <1>6, <2>1 DEF Updates
<1>16. \A m \in wire' : \/ m \in wire
                        \/ /\ m.packet = Last(a) /\ m.length = PacketLength(Last(a))
                           /\ Has(m.from, a) /\ announced[a] > 0
  BY <1>3, <1>12 DEF Message
<1>17. wire \subseteq wire'
  BY <1>3
<1>. QED  BY <1>6, <1>9, <1>13, <1>14, <1>15, <1>16, <1>17, FloodGoesOn

\* The loop is over; the neighbours that it still had to come to are none.
LEMMA LoopEnds ==
  ASSUME Types, Types', NEW a \in Node, Undisturbed(a), Reaching(a), NEW n \in Node, Return(n)
  PROVE  Reaching(a)'
<1>1. Top(n).kind = "flood" /\ StillToCome(n) = {} /\ ~ Idle(n) /\ ~ Waiting(n)
  BY DEF Return, Reaching, OneThing
<1>2. Len(stack[n]) = 1 /\ Top(n) = stack[n][1]
  BY <1>1, OneAtATime
<1>3. Pops(n) /\ \A k \in Node \ {n} : stack'[k] = stack[k]
  BY <1>1, PopTyped DEF Types, Return
<1>4. Len(stack'[n]) = 0
  BY <1>2, <1>3 DEF Pops
<1>5. Idle(n)' /\ ~ (Loops(n)')
  BY <1>4, StacksTyped DEF Types, Loops, Idle
<1>6. UNCHANGED <<setting, rounds, buffer, wire, sequence_number, link_state_packets, neighbour_links, announced>>
  BY DEF Return, statics, history
<1>7. GoesOnFrom(n, a)'
  <2>. SUFFICES ASSUME Has(n, a), NEW y \in setting.range[n], y < MaxAddress, ~ Has(y, a),
                       ~ \E m \in wire : m.to = y
                PROVE  FALSE
    BY <1>6 DEF GoesOnFrom, Has
  <2>1. y >= Top(n).next /\ y # Top(n).except /\ y \in Node
    BY RangeTyped DEF Reaching, GoesOn, Types
  <2>2. neighbour_links[n][y] > 0
    <3>1. rounds[n] \in Nat /\ setting.rounds \in Nat /\ rounds[n] <= setting.rounds
      BY SettingTyped DEF Types, Counters, Reaching, Links
    <3>2. neighbour_links[n][y] = NeighbourTTL - rounds[n] /\ setting.rounds < NeighbourTTL
      BY <2>1 DEF Reaching, Links, Undisturbed
    <3>. QED  BY <3>1, <3>2, ConstantsTyped
  <2>. QED  BY <1>1, <2>1, <2>2 DEF StillToCome, Neighbours
<1>8. \A k \in Node : Updates(k)' <=> Updates(k)
  <2>1. ~ Updates(n) /\ ~ (Updates(n)')
    BY <1>1, <1>2, <1>4, StacksTyped DEF Types, Updates
  <2>. QED  BY <1>3, <2>1 DEF Updates
<1>9. DoesOne(n, a)'
  BY <1>4, <1>5 DEF DoesOne
<1>. QED  BY <1>3, <1>6, <1>7, <1>8, <1>9, FloodGoesOn

\* A node that does not announce itself.
LEMMA StaysSilent ==
  ASSUME Types, Types', NEW a \in Node, Undisturbed(a), Reaching(a), NEW n \in Node \ {a},
         net_send_link_state_packet(n)
  PROVE  Reaching(a)'
<1>1. Top(n).kind = "update" /\ ~ Idle(n) /\ ~ Waiting(n)
  BY DEF net_send_link_state_packet
<1>2. Len(stack[n]) = 1 /\ Top(n) = stack[n][1]
  BY <1>1, OneAtATime
<1>3. stack' = [stack EXCEPT ![n] = Popped(n)]
  BY DEF net_send_link_state_packet, Undisturbed
<1>4. Pops(n) /\ \A k \in Node \ {n} : stack'[k] = stack[k]
  BY <1>1, <1>3, PopTyped DEF Types
<1>5. Len(stack'[n]) = 0
  BY <1>2, <1>4 DEF Pops
<1>6. Idle(n)' /\ ~ (Loops(n)')
  BY <1>5, StacksTyped DEF Types, Loops, Idle
<1>7. /\ UNCHANGED <<setting, rounds, wire, link_state_packets, neighbour_links>>
      /\ \A k \in Node \ {n} : buffer'[k] = buffer[k]
      /\ announced'[a] = announced[a] /\ sequence_number'[a] = sequence_number[a]
  BY DEF net_send_link_state_packet, Types, Counters, Stacks
<1>8. GoesOnFrom(n, a)'
  BY <1>1, <1>6, <1>7 DEF GoesOnFrom, Has, Reaching, GoesOn, Loops
<1>9. Updates(a)' <=> Updates(a)
  BY <1>4 DEF Updates
<1>10. DoesOne(n, a)'
  BY <1>5, <1>6 DEF DoesOne
<1>. QED  BY <1>4, <1>7, <1>8, <1>9, <1>10, FloodGoesOn

LEMMA TakesNews ==
  ASSUME Types, Types', Announcements, NEW a \in Node, Undisturbed(a), Prompt, Reaching(a),
         AllAnswered, LinkStateTTL > 1, Modulus > 1,
         NEW n \in Node, NEW m \in wire, AcceptLinkState(n, m)
  PROVE  Reaching(a)'
<1>1. /\ m.packet = Last(a) /\ Has(m.from, a) /\ m.to = n /\ m.from \in Node /\ wire # {}
      /\ wire' = wire \ {m} /\ IsNews(n, m.packet) /\ Polls(n)
      /\ UNCHANGED <<setting, rounds, sequence_number, neighbour_links, announced>>
  BY MessageTyped DEF AcceptLinkState, Takes, Reaching, OneMessage, history
<1>2. ~ Has(n, a) /\ n # a
  BY <1>1, NewsOnce DEF Has
<1>3. Idle(n)
  BY <1>1, <1>2 DEF Polls, Waiting, AllAnswered, Reaching, OneMessage
<1>4. /\ announced[a] = rounds[a] /\ announced[a] > 0 /\ rounds[n] + 1 >= rounds[a]
      /\ announced[a] \in Nat /\ rounds[n] \in Nat
  BY <1>1, WhileItTravels DEF Types, Counters
<1>. DEFINE act == Flood(Last(a), m.from)
<1>5. /\ act \in Activation /\ act.kind = "flood" /\ act.length = PacketLength(Last(a))
      /\ act.next = 0 /\ act.except = m.from
  BY <1>1, LastTyped, FloodIsActivation DEF Flood
<1>. HIDE DEF act
<1>6. Pushes(n, act) /\ \A k \in Node \ {n} : stack'[k] = stack[k]
  BY <1>1, <1>5, PushTyped DEF Types, AcceptLinkState, act
<1>7. Len(stack'[n]) = 1 /\ stack'[n][1] = act
  BY <1>3, <1>6, StacksTyped DEF Types, Pushes
<1>8. Loops(n)' /\ Top(n)' = act
  BY <1>5, <1>7, StacksTyped DEF Types, Loops, Top, Idle
<1>9. buffer'[n] = Last(a) /\ \A k \in Node \ {n} : buffer'[k] = buffer[k]
  BY <1>1, BufferChanges DEF Types, AcceptLinkState
<1>10. /\ \A k \in Node \ {n} : link_state_packets'[k] = link_state_packets[k]
       /\ link_state_packets'[n][a].ttl = LinkStateTTL
       /\ link_state_packets'[n][a].stamp = announced[a]
  <2>. DEFINE p == Last(a)
              entry == [ttl |-> LinkStateTTL, number |-> p.number, boot |-> p.boot, stamp |-> p.stamp]
  <2>1. p.source = a /\ entry.ttl = LinkStateTTL /\ entry.stamp = announced[a]
    BY LastTyped
  <2>. HIDE DEF p
  <2>2. link_state_packets' = [link_state_packets EXCEPT ![n][a] = entry]
    BY <1>1, <2>1 DEF AcceptLinkState, p
  <2>. HIDE DEF entry
  <2>. QED  BY <2>1, <2>2 DEF Types, Tables
<1>11. Has(n, a)' /\ \A k \in Node : Has(k, a) => Has(k, a)'
  BY <1>1, <1>10 DEF Has
<1>12. DoesOne(n, a)'
  <2>1. Last(a)' = Last(a)
    BY <1>1 DEF Last
  <2>2. Has(m.from, a)'
    BY <1>1, <1>11
  <2>. QED  BY <1>1, <1>4, <1>5, <1>7, <1>8, <1>9, <1>11, <2>1, <2>2 DEF DoesOne
<1>13. GoesOnFrom(n, a)'
  <2>. SUFFICES ASSUME NEW y \in setting.range[n], ~ Has(y, a)'
                PROVE  y >= 0 /\ y # m.from
    BY <1>1, <1>5, <1>8 DEF GoesOnFrom
  <2>1. y \in Node /\ y \in Nat
    BY RangeTyped, ConstantsTyped DEF Types
  <2>. QED  BY <1>1, <1>11, <2>1
<1>14. Updates(a)' <=> Updates(a)
  BY <1>2, <1>6 DEF Updates
<1>15. \A k \in Node \ {a} :
         \/ link_state_packets'[k][a] = link_state_packets[k][a]
         \/ /\ k = n /\ link_state_packets'[k][a].stamp = announced[a] /\ announced[a] > 0
            /\ link_state_packets'[k][a].ttl + rounds[k] >= (LinkStateTTL + announced[a]) - 1
  <2>1. LinkStateTTL + rounds[n] >= (LinkStateTTL + announced[a]) - 1
    BY <1>4, ConstantsTyped
  <2>. QED  BY <1>4, <1>10, <2>1
<1>16. \A k \in wire \ wire' : Has(k.to, a)'
  BY <1>1, <1>11
<1>. QED  BY <1>1, <1>6, <1>9, <1>12, <1>13, <1>14, <1>15, <1>16, FloodGoesOn

\* A node that has the announcement ignores it.
LEMMA IgnoresIt ==
  ASSUME Types, Types', Announcements, NEW a \in Node, Undisturbed(a), Prompt, Reaching(a),
         LinkStateTTL > 1, Modulus > 1,
         NEW n \in Node, NEW m \in wire, Ignore(n, m)
  PROVE  Reaching(a)'
<1>1. /\ m.packet = Last(a) /\ m.to = n /\ wire # {} /\ wire' = wire \ {m}
      /\ net_validate_packet(m) /\ m.packet.type = "link state"
      /\ UNCHANGED <<setting, rounds, stack, buffer, sequence_number, link_state_packets, neighbour_links, announced>>
  BY LastTyped DEF Ignore, Takes, Reaching, OneMessage, history, statics, net_validate_packet
<1>2. ~ IsNews(n, Last(a))
  BY <1>1 DEF Ignore
<1>3. Has(n, a) /\ \A k : Has(k, a)' <=> Has(k, a)
  BY <1>1, <1>2, NewsOnce DEF Has
<1>4. Last(a)' = Last(a)
  BY <1>1 DEF Last
<1>5. DoesOne(n, a)'
  BY <1>1, <1>3, <1>4 DEF Reaching, OneThing, DoesOne, Loops, Idle, Top
<1>6. GoesOnFrom(n, a)'
  <2>. SUFFICES ASSUME Has(n, a), NEW y \in setting.range[n], y < MaxAddress, ~ Has(y, a),
                       ~ \E k \in wire' : k.to = y
                PROVE  Loops(n) /\ y >= Top(n).next /\ y # Top(n).except
    BY <1>1, <1>3 DEF GoesOnFrom, Loops, Idle, Top
  <2>1. ~ \E k \in wire : k.to = y
    BY <1>1, <1>3
  <2>. QED  BY <2>1 DEF Reaching, GoesOn
<1>7. Updates(a)' <=> Updates(a)
  BY <1>1 DEF Updates
<1>. QED  BY <1>1, <1>3, <1>5, <1>6, <1>7, FloodGoesOn

\* The announcement of a, when all have the one before.
LEMMA AnnouncesNext ==
  ASSUME Types, Types', Announcements, OwnAtBottom, Prompt, NEW a \in Node, Undisturbed(a), Reaching(a),
         net_send_link_state_packet(a)
  PROVE  Reaching(a)'
<1>1. Top(a).kind = "update" /\ ~ Idle(a) /\ ~ Waiting(a)
  BY DEF net_send_link_state_packet
<1>2. Updates(a) /\ ~ (Updates(a)')
  BY OwnStep DEF Acts, GoOn
<1>3. /\ Complete(a) /\ wire = {} /\ \A n \in Node : ~ Loops(n)
      /\ announced[a] = rounds[a] - 1
  BY <1>2, WhileItTravels DEF Reaching, OncePerPeriod
<1>4. Len(stack[a]) = 1
  BY <1>1, OneAtATime
<1>. DEFINE p == LinkState(a)
            act == Flood(p, None)
<1>5. stack' = [stack EXCEPT ![a] = Append(Popped(a), act)]
  BY DEF net_send_link_state_packet, Undisturbed
<1>6. p \in LinkStatePackets /\ act \in Activation
  BY LinkStateTyped, FloodIsActivation
<1>7. act.kind = "flood" /\ act.length = PacketLength(p) /\ act.next = 0 /\ act.except = None
  BY DEF Flood
<1>8. buffer'[a] = p /\ \A k \in Node \ {a} : buffer'[k] = buffer[k]
  BY BufferChanges DEF Types, net_send_link_state_packet
<1>9. /\ UNCHANGED <<setting, rounds, wire, link_state_packets, neighbour_links>>
      /\ sequence_number'[a] = NextNumber(a) /\ announced'[a] = announced[a] + 1
  BY DEF net_send_link_state_packet, Types, Counters
<1>10. p = Last(a)'
  <2>1. boots[a].count = 0
    BY NoRestarts
  <2>2. ASSUME NEW b \in Node PROVE neighbour_links[a][b] > 0 <=> b \in setting.range[a]
    <3>1. rounds[a] \in Nat /\ setting.rounds \in Nat /\ rounds[a] <= setting.rounds
      BY SettingTyped DEF Types, Counters, Reaching, Links
    <3>2. /\ neighbour_links[a][b] = IF b \in setting.range[a] THEN NeighbourTTL - rounds[a] ELSE 0
          /\ setting.rounds < NeighbourTTL
      BY DEF Reaching, Links, Undisturbed
    <3>. QED  BY <3>1, <3>2, ConstantsTyped
  <2>3. {b \in Node : neighbour_links[a][b] > 0} = setting.range[a]
    BY <2>2, RangeTyped DEF Types
  <2>. QED  BY <1>9, <2>1, <2>3 DEF LinkState, Last
<1>. HIDE DEF p, act
<1>11. Replaces(a, act) /\ \A k \in Node \ {a} : stack'[k] = stack[k]
  BY <1>1, <1>5, <1>6, ReplaceTyped DEF Types
<1>12. Len(stack'[a]) = 1 /\ stack'[a][1] = act
  BY <1>4, <1>11 DEF Replaces
<1>13. Loops(a)' /\ Top(a)' = act
  BY <1>7, <1>12, StacksTyped DEF Types, Loops, Top, Idle
<1>14. announced[a] \in Nat /\ \A n \in Node : rounds[n] \in Nat
  BY DEF Types, Counters
<1>15. ASSUME NEW n \in Node PROVE Has(n, a)' <=> n = a
  BY <1>3, <1>9, <1>14 DEF Complete, Has
<1>16. Links' /\ OncePerPeriod(a)'
  BY <1>2, <1>3, <1>9, <1>14 DEF Reaching, Links, OncePerPeriod
<1>17. OneThing(a)'
  <2>. SUFFICES ASSUME NEW k \in Node PROVE DoesOne(k, a)'
    BY DEF OneThing, DoesOne
  <2>1. CASE k = a
    <3>1. Len(stack'[a]) <= 1 /\ Top(a)'.kind # "send" /\ Top(a)'.except = None
      BY <1>7, <1>12, <1>13
    <3>2. Top(a)'.length = PacketLength(Last(a))' /\ buffer'[a] = Last(a)'
      BY <1>7, <1>8, <1>10, <1>13
    <3>3. Has(a, a)' /\ announced'[a] > 0
      BY <1>9, <1>14, <1>15
    <3>. QED  BY <2>1, <3>1, <3>2, <3>3 DEF DoesOne
  <2>2. CASE k # a
    <3>1. stack'[k] = stack[k] /\ ~ Loops(k)
      BY <1>3, <1>11, <2>2
    <3>2. Len(stack[k]) <= 1 /\ (~ Idle(k) => Top(k).kind # "send")
      BY DEF Reaching, OneThing
    <3>3. Len(stack'[k]) <= 1 /\ (~ Idle(k)' => Top(k)'.kind # "send")
      BY <3>1, <3>2 DEF Idle, Top
    <3>4. ~ (Loops(k)')
      BY <3>1 DEF Loops, Idle, Top
    <3>. QED  BY <3>3, <3>4 DEF DoesOne
  <2>. QED  BY <2>1, <2>2
<1>18. OneMessage(a)'
  BY <1>3, <1>9 DEF OneMessage
<1>19. Noted(a)'
  <2>. SUFFICES ASSUME NEW k \in Node \ {a}
                PROVE  LET entry == link_state_packets[k][a]
                       IN /\ entry.stamp = announced[a] + 1 \/ entry.stamp = (announced[a] + 1) - 1
                          /\ entry.stamp = 0 => entry.ttl = 0
                          /\ entry.stamp > 0 => entry.ttl + rounds[k] >= (LinkStateTTL + entry.stamp) - 1
    BY <1>9 DEF Noted
  <2>1. link_state_packets[k][a].stamp = announced[a]
    BY <1>3 DEF Complete, Has
  <2>. QED  BY <1>14, <2>1 DEF Reaching, Noted
<1>20. GoesOn(a)'
  <2>. SUFFICES ASSUME NEW y \in setting.range[a]
                PROVE  Loops(a)' /\ y >= Top(a)'.next /\ y # Top(a)'.except
    BY <1>9, <1>15 DEF GoesOn
  <2>1. y \in Node /\ y \in Nat /\ y # None
    BY RangeTyped, ConstantsTyped, NetworkAssumption DEF Types
  <2>. QED  BY <1>7, <1>13, <2>1
<1>21. ~ (Behind(a)')
  BY <1>2, <1>9 DEF Prompt, PeriodsTogether, Behind
<1>. QED  BY <1>2, <1>16, <1>17, <1>18, <1>19, <1>20, <1>21 DEF Reaching

\* A period begins.
LEMMA CountsDown ==
  ASSUME Types, Types', OwnAtBottom, Prompt, NEW a \in Node, Undisturbed(a), InReach(a), Reaching(a),
         NEW n \in Node, net_update(n)
  PROVE  Reaching(a)'
<1>. DEFINE act == [kind |-> "update"]
<1>1. /\ Idle(n) /\ rounds[n] < setting.rounds
      /\ UNCHANGED <<setting, sequence_number, announced>>
  BY DEF net_update, IsDue, history
<1>2. Pushes(n, act) /\ \A k \in Node \ {n} : stack'[k] = stack[k] /\ buffer'[k] = buffer[k]
  BY UpdateEffect DEF Sends, Others
<1>3. act.kind = "update"
  OBVIOUS
<1>. HIDE DEF act
<1>4. Len(stack'[n]) = 1 /\ stack'[n][1] = act
  <2>1. Len(stack[n]) = 0
    BY <1>1, StacksTyped DEF Types
  <2>2. 0 + 1 = 1
    OBVIOUS
  <2>. QED  BY <1>2, <2>1, <2>2, Zenon DEF Pushes
<1>5. ~ (Idle(n)') /\ Top(n)' = act /\ ~ (Loops(n)') /\ Updates(n)' /\ ~ Loops(n) /\ ~ Updates(n)
  <2>1. DOMAIN stack'[n] = 1 .. 1 /\ ~ (Idle(n)')
    BY <1>4, StacksTyped DEF Types, Idle
  <2>2. DOMAIN stack[n] = {}
    BY <1>1 DEF Idle
  <2>3. Top(n)' = act
    BY <1>4 DEF Top
  <2>4. ~ (Loops(n)') /\ Updates(n)'
    BY <1>3, <1>4, <2>1, <2>3 DEF Loops, Updates
  <2>. QED  BY <1>1, <2>1, <2>2, <2>3, <2>4 DEF Loops, Updates
<1>6. wire' = wire
  <2>1. PICK p : SendTo(n, {}, p, wire, act)
    BY DEF net_update, Undisturbed, act
  <2>. QED  BY <2>1 DEF SendTo
<1>7. \A k \in Node : rounds[k] \in Nat
  BY DEF Types, Counters
<1>8. rounds'[n] = rounds[n] + 1 /\ \A k \in Node \ {n} : rounds'[k] = rounds[k]
  BY DEF net_update, Types, Counters
<1>9. ASSUME NEW k \in Node, NEW b \in Node
      PROVE  /\ link_state_packets'[k][b].stamp = link_state_packets[k][b].stamp
             /\ link_state_packets'[k][b].ttl = IF k = n THEN CountDown(link_state_packets[k][b].ttl)
                                                         ELSE link_state_packets[k][b].ttl
             /\ neighbour_links'[k][b] = IF k = n THEN CountDown(neighbour_links[k][b])
                                                  ELSE neighbour_links[k][b]
  <2>1. link_state_packets' = [link_state_packets EXCEPT ![n] = [c \in Node |-> Aged(link_state_packets[n][c])]]
    BY DEF net_update
  <2>2. neighbour_links' = [neighbour_links EXCEPT ![n] = [c \in Node |-> CountDown(neighbour_links[n][c])]]
    BY DEF net_update
  <2>3. link_state_packets[k][b] \in Entries
    BY DEF Types, Tables
  <2>4. /\ Aged(link_state_packets[k][b]).ttl = CountDown(link_state_packets[k][b].ttl)
        /\ Aged(link_state_packets[k][b]).stamp = link_state_packets[k][b].stamp
    BY <2>3 DEF Aged, Entries
  <2>. QED  BY <2>1, <2>2, <2>4 DEF Types, Tables
<1>10. /\ Last(a)' = Last(a)
       /\ \A k \in Node : Has(k, a)' <=> Has(k, a)
  BY <1>1, <1>9 DEF Last, Has
<1>11. Links'
  <2>. SUFFICES ASSUME NEW k \in Node
                PROVE  /\ rounds'[k] <= setting.rounds
                       /\ \A b \in Node : neighbour_links'[k][b] =
                            IF b \in setting.range[k] THEN NeighbourTTL - rounds'[k] ELSE 0
    BY <1>1 DEF Links
  <2>1. /\ rounds[k] <= setting.rounds /\ setting.rounds \in Nat /\ setting.rounds < NeighbourTTL
        /\ \A b \in Node : neighbour_links[k][b] =
             IF b \in setting.range[k] THEN NeighbourTTL - rounds[k] ELSE 0
    BY SettingTyped DEF Reaching, Links, Undisturbed, Types, Counters
  <2>2. NeighbourTTL \in Nat
    BY ConstantsTyped
  <2>3. CASE k # n
    BY <1>8, <1>9, <2>1, <2>3
  <2>4. CASE k = n
    <3>1. rounds'[k] <= setting.rounds
      BY <1>1, <1>7, <1>8, <2>1, <2>4
    <3>2. ASSUME NEW b \in Node
          PROVE  neighbour_links'[k][b] = IF b \in setting.range[k] THEN NeighbourTTL - rounds'[k] ELSE 0
      <4>1. neighbour_links'[k][b] = CountDown(neighbour_links[k][b])
        BY <1>9, <2>4
      <4>. QED  BY <1>1, <1>7, <1>8, <2>1, <2>2, <2>4, <4>1 DEF CountDown
    <3>. QED  BY <3>1, <3>2
  <2>. QED  BY <2>3, <2>4
<1>12. OncePerPeriod(a)'
  <2>1. CASE a = n
    BY <1>1, <1>5, <1>7, <1>8, <2>1 DEF Reaching, OncePerPeriod
  <2>2. CASE a # n
    <3>1. Updates(a)' <=> Updates(a)
      BY <1>2, <2>2 DEF Updates
    <3>. QED  BY <1>1, <1>8, <2>2, <3>1 DEF Reaching, OncePerPeriod
  <2>. QED  BY <2>1, <2>2
<1>13. OneThing(a)'
  <2>. SUFFICES ASSUME NEW k \in Node PROVE DoesOne(k, a)'
    BY DEF OneThing, DoesOne
  <2>1. CASE k = n
    <3>1. Len(stack'[n]) <= 1 /\ Top(n)'.kind # "send" /\ ~ (Loops(n)')
      BY <1>3, <1>4, <1>5
    <3>. QED  BY <2>1, <3>1 DEF DoesOne
  <2>2. CASE k # n
    <3>1. stack'[k] = stack[k] /\ buffer'[k] = buffer[k]
      BY <1>2, <2>2
    <3>2. DoesOne(k, a)
      BY DEF Reaching, OneThing, DoesOne
    <3>3. Loops(k) => Top(k).except \in Node \cup {None}
      BY FloodTyped, StacksTyped DEF Loops, Types
    <3>4. Loops(k) => (Top(k).except = None \/ Has(Top(k).except, a)')
      <4>. SUFFICES ASSUME Loops(k), Top(k).except # None PROVE Has(Top(k).except, a)'
        OBVIOUS
      <4>1. PICK e \in Node : e = Top(k).except
        BY <3>3
      <4>2. Has(e, a)'
        BY <1>10, <3>2, <4>1 DEF DoesOne
      <4>. QED  BY <3>1, <4>1, <4>2 DEF Top
    <3>5. /\ Last(a)' = Last(a) /\ announced'[a] = announced[a] /\ stack'[k] = stack[k]
          /\ buffer'[k] = buffer[k] /\ (Has(k, a) => Has(k, a)')
      BY <1>1, <1>10, <3>1
    <3>. QED  BY <3>2, <3>4, <3>5 DEF DoesOne, Loops, Idle, Top
  <2>. QED  BY <2>1, <2>2
<1>14. OneMessage(a)'
  <2>1. \A m \in wire : m.from \in Node
    BY DEF Types, Messages
  <2>. QED  BY <1>1, <1>6, <1>10, <2>1 DEF Reaching, OneMessage
<1>15. Noted(a)'
  <2>. SUFFICES ASSUME NEW k \in Node \ {a}
                PROVE  LET entry == link_state_packets'[k][a]
                       IN /\ entry.stamp = announced[a] \/ entry.stamp = announced[a] - 1
                          /\ entry.stamp = 0 => entry.ttl = 0
                          /\ entry.stamp > 0 => entry.ttl + rounds'[k] >= (LinkStateTTL + entry.stamp) - 1
    BY <1>1 DEF Noted
  <2>. DEFINE old == link_state_packets[k][a]
              t == old.stamp
  <2>1. /\ t = announced[a] \/ t = announced[a] - 1
        /\ t = 0 => old.ttl = 0
        /\ t > 0 => old.ttl + rounds[k] >= (LinkStateTTL + t) - 1
    BY DEF Reaching, Noted
  <2>2. old \in Entries
    BY DEF Types, Tables
  <2>3. old.ttl \in Nat /\ t \in Nat
    BY <2>2, EntryTyped, ConstantsTyped
  <2>4. link_state_packets'[k][a].stamp = t
    BY <1>9
  <2>5. link_state_packets'[k][a].ttl = IF k = n THEN CountDown(old.ttl) ELSE old.ttl
    BY <1>9
  <2>6. LinkStateTTL \in Nat /\ rounds[k] \in Nat
    BY <1>7, ConstantsTyped
  <2>. HIDE DEF old, t
  <2>7. CASE k = n
    BY <1>8, <2>1, <2>3, <2>4, <2>5, <2>6, <2>7 DEF CountDown
  <2>8. CASE k # n
    BY <1>8, <2>1, <2>4, <2>5, <2>8
  <2>. QED  BY <2>7, <2>8
<1>16. GoesOn(a)'
  <2>. SUFFICES ASSUME NEW x \in Node, NEW y \in setting.range[x], Has(x, a)', y < MaxAddress
                PROVE  \/ Has(y, a)'
                       \/ \E m \in wire : m.to = y
                       \/ Loops(x)' /\ y >= Top(x)'.next /\ y # Top(x)'.except
    BY <1>1, <1>6 DEF GoesOn
  <2>1. y \in Node
    BY RangeTyped DEF Types
  <2>2. \/ Has(y, a)
        \/ \E m \in wire : m.to = y
        \/ Loops(x) /\ y >= Top(x).next /\ y # Top(x).except
    BY <1>10 DEF Reaching, GoesOn
  <2>3. Loops(x) => x # n /\ stack'[x] = stack[x]
    BY <1>2, <1>5
  <2>. QED  BY <1>10, <2>1, <2>2, <2>3 DEF Loops, Idle, Top
<1>17. ASSUME Behind(a)' \/ Updates(a)' PROVE Complete(a)'
  <2>. SUFFICES Complete(a)
    BY <1>10 DEF Complete
  <2>1. (AtRest \/ Behind(n)) /\ \A m \in Node : rounds[n] <= rounds[m]
    BY UpdateIsDue DEF Undisturbed, Prompt
  <2>2. CASE AtRest
    BY <2>2, CompleteAtRest DEF Reaching
  <2>3. CASE Behind(n)
    <3>1. PICK j \in Node : rounds[n] < rounds[j]
      BY <2>3 DEF Behind
    <3>2. Behind(a) \/ Updates(a)
      <4>1. CASE a = n
        BY <2>3, <4>1
      <4>2. CASE a # n /\ Behind(a)'
        <5>1. PICK m \in Node : rounds'[a] < rounds'[m]
          BY <4>2 DEF Behind
        <5>2. rounds[a] < rounds[m] \/ rounds[a] < rounds[j]
          BY <1>7, <1>8, <2>1, <3>1, <4>2, <5>1
        <5>. QED  BY <5>2 DEF Behind
      <4>3. CASE a # n /\ Updates(a)'
        BY <1>2, <4>3 DEF Updates
      <4>. QED  BY <1>17, <4>1, <4>2, <4>3
    <3>. QED  BY <3>2 DEF Reaching
  <2>. QED  BY <2>1, <2>2, <2>3
<1>. QED  BY <1>11, <1>12, <1>13, <1>14, <1>15, <1>16, <1>17 DEF Reaching

LEMMA ReachingStep ==
  ASSUME Types, Types', Announcements, OwnAtBottom, Prompt, [Next]_vars,
         LinkStateTTL > 1, Modulus > 1,
         NEW a \in Node, Undisturbed(a), InReach(a), Reaching(a), AllAnswered
  PROVE  Reaching(a)'
<1>1. CASE UNCHANGED vars
  <2>1. UNCHANGED <<setting, rounds, stack, buffer, wire, sequence_number, link_state_packets,
                    neighbour_links, announced>>
    BY <1>1 DEF vars, statics, history
  <2>2. Last(a)' = Last(a) /\ \A k : Has(k, a)' <=> Has(k, a)
    BY <2>1 DEF Last, Has
  <2>3. DoesOne(a, a)'
    BY <2>1, <2>2 DEF Reaching, OneThing, DoesOne, Loops, Idle, Top
  <2>4. GoesOnFrom(a, a)'
    BY <2>1, <2>2 DEF Reaching, GoesOn, GoesOnFrom, Loops, Idle, Top
  <2>5. Updates(a)' <=> Updates(a)
    BY <2>1 DEF Updates
  <2>. QED  BY <2>1, <2>3, <2>4, <2>5, FloodGoesOn
<1>2. ASSUME NEW n \in Node, GoOn(n) PROVE Reaching(a)'
  <2>1. CASE n = a
    BY <1>2, <2>1, SendsOn, LoopEnds, AnnouncesNext DEF GoOn
  <2>2. CASE n # a
    BY <1>2, <2>2, SendsOn, LoopEnds, StaysSilent DEF GoOn
  <2>. QED  BY <2>1, <2>2
<1>3. ASSUME NEW n \in Node, Receive(n) PROVE Reaching(a)'
  <2>1. PICK m \in wire : net_handle_received_packet(n, m)
    BY <1>3 DEF Receive
  <2>2. m.packet.type = "link state"
    BY LastTyped DEF Reaching, OneMessage
  <2>3. AcceptLinkState(n, m) \/ Ignore(n, m)
    BY <2>1, <2>2 DEF net_handle_received_packet, AnswerPing, net_notify_ping_response, ForwardData,
         DeliverData
  <2>. QED  BY <2>3, TakesNews, IgnoresIt
<1>4. ASSUME NEW n \in Node, Begin(n) PROVE Reaching(a)'
  <2>1. ~ net_send_data_packet(n)
    BY DEF net_send_data_packet, Undisturbed, Types, Counters
  <2>. QED  BY <1>4, <2>1, CountsDown DEF Begin
<1>5. ASSUME NEW n \in Node, Restart(n) PROVE FALSE
  BY <1>5 DEF Restart, Undisturbed, Reliable
<1>6. ASSUME NEW m \in wire, Lose(m) PROVE FALSE
  BY <1>6 DEF Lose, Undisturbed, Reliable
<1>. QED  BY <1>1, <1>2, <1>3, <1>4, <1>5, <1>6 DEF Next

LEMMA AnsweredStep ==
  ASSUME Types, NEW a \in Node, Undisturbed(a), Reaching(a), AllAnswered, [Next]_vars
  PROVE  AllAnswered'
<1>. SUFFICES unanswered' = unanswered
  BY DEF AllAnswered
<1>1. CASE UNCHANGED vars
  BY <1>1 DEF vars
<1>2. ASSUME NEW n \in Node, GoOn(n) PROVE unanswered' = unanswered
  <2>1. CASE SendToNext(n)
    <3>1. PICK b \in StillToCome(n) : Unheard(n, Len(stack[n]), {b})
      BY <2>1 DEF SendToNext
    <3>2. b \in setting.range[n]
      BY DEF StillToCome, Neighbours, Reaching, Links
    <3>. QED  BY <3>1, <3>2 DEF Unheard
  <2>2. CASE Return(n) \/ net_send_link_state_packet(n)
    BY <2>2 DEF Return, net_send_link_state_packet
  <2>. QED  BY <1>2, <2>1, <2>2 DEF GoOn
<1>3. ASSUME NEW n \in Node, Receive(n) PROVE unanswered' = unanswered
  <2>1. PICK m \in wire : net_handle_received_packet(n, m)
    BY <1>3 DEF Receive
  <2>2. m.packet.type = "link state"
    BY LastTyped DEF Reaching, OneMessage
  <2>. QED  BY <2>1, <2>2 DEF net_handle_received_packet, AcceptLinkState, AnswerPing,
         net_notify_ping_response, ForwardData, DeliverData, Ignore
<1>4. ASSUME NEW n \in Node, Begin(n) PROVE unanswered' = unanswered
  <2>1. net_update(n)
    BY <1>4 DEF Begin, net_send_data_packet, Undisturbed, Types, Counters
  <2>2. Unheard(n, Len(stack[n]) + 1, {})
    BY <2>1 DEF net_update, SendTo, Undisturbed
  <2>. QED  BY <2>2 DEF Unheard
<1>5. ASSUME NEW n \in Node, Restart(n) PROVE FALSE
  BY <1>5 DEF Restart, Undisturbed, Reliable
<1>6. ASSUME NEW m \in wire, Lose(m) PROVE FALSE
  BY <1>6 DEF Lose, Undisturbed, Reliable
<1>. QED  BY <1>1, <1>2, <1>3, <1>4, <1>5, <1>6 DEF Next

LEMMA ReachingInit == ASSUME Init, NEW a \in Node, Undisturbed(a) PROVE Reaching(a)
<1>1. /\ setting \in Settings /\ setting.rounds \in Nat /\ NeighbourTTL \in Nat
  BY SettingTyped, ConstantsTyped DEF Init
<1>2. /\ \A n \in Node : rounds[n] = 0 /\ stack[n] = <<>> /\ announced[n] = 0
      /\ \A n, b \in Node : /\ link_state_packets[n][b].stamp = 0
                            /\ link_state_packets[n][b].ttl = 0
      /\ wire = {}
  BY DEF Init, NothingHeard
<1>3. \A n \in Node : Idle(n) /\ ~ Updates(n) /\ ~ Loops(n) /\ Len(stack[n]) = 0
  BY <1>2 DEF Idle, Updates, Loops
<1>4. Complete(a)
  BY <1>2 DEF Complete, Has
<1>5. Links
  <2>. SUFFICES ASSUME NEW n \in Node, NEW b \in Node
                PROVE  neighbour_links[n][b] = IF b \in setting.range[n] THEN NeighbourTTL - rounds[n] ELSE 0
    BY <1>1, <1>2 DEF Links
  <2>1. neighbour_links[n][b] = IF ~ setting.pings /\ b \in setting.range[n] THEN NeighbourTTL ELSE 0
    BY DEF Init
  <2>2. ~ setting.pings /\ rounds[n] = 0
    BY <1>2 DEF Undisturbed
  <2>. QED  BY <1>1, <2>1, <2>2
<1>6. OncePerPeriod(a) /\ OneThing(a) /\ OneMessage(a)
  BY <1>2, <1>3 DEF OncePerPeriod, OneThing, OneMessage
<1>7. Noted(a)
  BY <1>2 DEF Noted
<1>8. GoesOn(a)
  <2>1. \A x \in Node : setting.range[x] \subseteq Node
    BY <1>1, SettingTyped
  <2>. QED  BY <1>4, <2>1 DEF GoesOn, Complete
<1>. QED  BY <1>4, <1>5, <1>6, <1>7, <1>8 DEF Reaching

LEMMA ReachingImplies ==
  ASSUME Types, Announcements, LinkStateTTL > 1, NEW a \in Node, Undisturbed(a), InReach(a), Reaching(a),
         Quiet, announced[a] > 0, NEW n \in Node \ {a}
  PROVE  Knows(n, a)
<1>. DEFINE entry == link_state_packets[n][a]
<1>1. AtRest /\ rounds[n] = rounds[a] /\ rounds[a] \in Nat
  BY DEF Quiet, Types, Counters
<1>2. entry.stamp = announced[a]
  BY <1>1, CompleteAtRest DEF Reaching, Complete, Has
<1>3. announced[a] = rounds[a]
  BY <1>1 DEF Reaching, OncePerPeriod, Updates, AtRest, Idle
<1>4. entry \in Entries
  BY DEF Types, Tables
<1>5. entry.ttl \in Nat /\ entry.boot \in Nat
  BY <1>4, EntryTyped, ConstantsTyped
<1>6. entry.ttl + rounds[n] >= (LinkStateTTL + announced[a]) - 1
  BY <1>2 DEF Reaching, Noted
<1>7. IsLive(entry)
  BY <1>1, <1>3, <1>5, <1>6, ConstantsTyped DEF IsLive
<1>8. Made(a, entry, boots, announced, setting.number) /\ boots[a].count = 0
  BY <1>7, NoRestarts DEF Announcements
<1>9. entry.boot = 0
  BY <1>5, <1>8 DEF Made
<1>. QED  BY <1>2, <1>7, <1>8, <1>9 DEF Knows

\* What the theorem needs of a setting.
Prompted ==
  /\ setting.prompt /\ setting.rounds < NeighbourTTL
  /\ \A a \in setting.announcers : InReach(a)

\* In any network where every node is reached from the one that announces itself, and whatever the
\* order in which nodes poll and send: if a period begins only when the packets of the last were
\* handled, the flood of every period has reached the entire network when they are.  The loops
\* of net_send_link_state_packet() and net_handle_received_packet() leave out no neighbour, and
\* neither the sequence numbers nor the lifetimes have it refused where it is news.
THEOREM FloodsReachIfPrompt ==
  ASSUME LinkStateTTL > 1, Modulus > 1
  PROVE  Spec => [](Prompted => UndisturbedFloodsReach)
<1>. DEFINE Base == Types /\ Announcements /\ OwnAtBottom /\ (setting.prompt => Prompt)
            Reached == \A a \in Node : Undisturbed(a) /\ InReach(a) => Reaching(a) /\ AllAnswered
<1>1. Init => Reached
  <2>1. Init => AllAnswered
    BY DEF Init, AllAnswered
  <2>. QED  BY <2>1, ReachingInit
<1>2. Base /\ Reached /\ [Next]_vars => Reached'
  <2>. SUFFICES ASSUME Base, Reached, [Next]_vars, NEW a \in Node, Undisturbed(a)', InReach(a)'
                PROVE  Reaching(a)' /\ AllAnswered'
    OBVIOUS
  <2>1. setting' = setting
    BY Steps, StepStacks DEF Forgets
  <2>2. Undisturbed(a) /\ InReach(a)
    BY <2>1 DEF Undisturbed, InReach, Reliable
  <2>3. Types' /\ Prompt
    BY <2>2, StepTypes DEF Undisturbed
  <2>. QED  BY <2>2, <2>3, ReachingStep, AnsweredStep
<1>3. Base /\ Reached /\ Prompted => UndisturbedFloodsReach
  <2>. SUFFICES ASSUME Base, Reached, Prompted, Cardinality(setting.announcers) = 1,
                       setting.data = {}, ~ setting.pings, Quiet, Reliable,
                       NEW a \in setting.announcers, NEW n \in Node \ {a}, announced[a] > 0
                PROVE  Knows(n, a)
    BY DEF UndisturbedFloodsReach, FloodsReach
  <2>1. setting.announcers \subseteq Node
    BY NetworkAssumption DEF Types, Counters
  <2>2. IsFiniteSet(setting.announcers)
    BY <2>1, ConstantsTyped, FS_Subset
  <2>3. setting.announcers = {a}
    BY <2>2, FS_Singleton
  <2>4. a \in Node /\ Undisturbed(a) /\ InReach(a)
    BY <2>1, <2>3 DEF Undisturbed, Prompted
  <2>. QED  BY <2>4, ReachingImplies
<1>. HIDE DEF Base, Reached
<1>4. Spec => []Base
  BY PromptAlways DEF Base
<1>. QED  BY <1>1, <1>2, <1>3, <1>4, PTL DEF Spec

=============================================================================
