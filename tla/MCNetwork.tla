----------------------------- MODULE MCNetwork -----------------------------
(***************************************************************************)
(* Small networks for Network.tla: three nodes, in a circle, in a line or  *)
(* two of them in range, and a byte that counts to five.                   *)
(***************************************************************************)
EXTENDS Network

Circle == [n \in Node |-> Node \ {n}]
Line == [n \in Node |-> IF n = 0 THEN Node \ {n} ELSE {0}]
Pair == [n \in Node |-> IF n = 2 THEN {} ELSE {0, 1} \ {n}]

Data(to, length) == [type |-> "data", from |-> 1, to |-> to, length |-> length]

\* Next hops that go over node 0; ones that end at node 0; ones that go to the node itself.
OverZero == [n \in Node |-> [d \in Node |-> CASE d = n -> None [] n = 0 -> d [] OTHER -> 0]]
ToZero == [n \in Node |-> [d \in Node |-> IF n = 0 THEN None ELSE 0]]
Direct == [n \in Node |-> [d \in Node |-> IF d = n THEN None ELSE d]]

\* The announcements of one node flooded in a circle; their numbers wrap.
Plain == [range |-> Circle, pings |-> FALSE, announcers |-> {0}, lossy |-> FALSE, prompt |-> FALSE,
          restarting |-> {}, data |-> {}, next_hops |-> OverZero, number |-> 4, rounds |-> 3]

\* A period begins when the packets of the last were handled.
Punctual == [Plain EXCEPT !.prompt = TRUE]

Lossy == [Plain EXCEPT !.lossy = TRUE, !.rounds = 2]

\* Floods of two nodes that meet in the middle of a line.
Crossing == [Plain EXCEPT !.range = Line, !.announcers = {0, 1}, !.rounds = 2]

\* Data along the line, of the length of a link state and longer, between the floods of its
\* sender; and data that is refused.
Forwarding == [Plain EXCEPT !.range = Line, !.announcers = {1}, !.rounds = 2,
                            !.data = {Data(2, 2), Data(0, 4), Data(2, 6), Data(6, 2)}]

\* Data that has no route in the middle, and data whose next hop is out of range.
Routeless == [Forwarding EXCEPT !.announcers = {}, !.next_hops = ToZero, !.data = {Data(2, 2)}]
TooFar == [Routeless EXCEPT !.next_hops = Direct, !.data = {Data(0, 4), Data(2, 2)}]

\* Two nodes that find each other; one restarts.
Restarting == [Plain EXCEPT !.range = Pair, !.pings = TRUE, !.prompt = TRUE, !.restarting = {0},
                            !.number = 0, !.rounds = 6]

MCSettings == {Plain, Punctual, Lossy, Crossing, Forwarding, Routeless, TooFar, Restarting}
MCCrossing == {Crossing}
=============================================================================
