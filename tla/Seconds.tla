------------------------------ MODULE Seconds ------------------------------
(***************************************************************************)
(* What the routing tables need of the clock: the whole seconds that have  *)
(* passed and were not accounted for.  Seconds pass one at a time, and an  *)
(* update accounts for as many as a byte can hold.                         *)
(***************************************************************************)
EXTENDS Integers

CONSTANTS
  Modulus,   \* the values of a uint8_t (256)
  MaxLag     \* bound: seconds not accounted for

VARIABLE lag

Init == lag = 0

Pass == lag < MaxLag /\ lag' = lag + 1

Account == lag' = lag - (lag % Modulus)

Next == Pass \/ Account

Spec == Init /\ [][Next]_lag
=============================================================================
