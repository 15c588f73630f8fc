------------------------------ MODULE SoftState ------------------------------
(***************************************************************************)
(* What a table of entries with a time to live promises to its readers: an *)
(* entry is believed while it is refreshed often enough, it is dropped when *)
(* it was not, and never before it is old enough to doubt.  Time passes in *)
(* seconds, for all entries at once.                                       *)
(***************************************************************************)
EXTENDS Integers

CONSTANTS
  Key,      \* what the entries are about
  MinAge,   \* no entry is dropped at a lower age ...
  MaxAge    \* ... and none is kept beyond this one

VARIABLES
  live,     \* the keys whose entry is believed
  age       \* the seconds since the entry of a key was refreshed; 0 when not live

vars == <<live, age>>

Init == live = {} /\ age = [k \in Key |-> 0]

Refresh(k) == /\ live' = live \cup {k}
              /\ age' = [age EXCEPT ![k] = 0]

\* Any number of entries may be dropped at once.
Expire(dropped) ==
  /\ \A k \in dropped : age[k] >= MinAge
  /\ live' = live \ dropped
  /\ age' = [k \in Key |-> IF k \in dropped THEN 0 ELSE age[k]]

\* A second passes only while no entry is due to be dropped.
Second ==
  /\ \A k \in live : age[k] < MaxAge
  /\ live' = live
  /\ age' = [k \in Key |-> IF k \in live THEN age[k] + 1 ELSE 0]

Next == \/ \E k \in Key : Refresh(k)
        \/ \E dropped \in SUBSET live : Expire(dropped)
        \/ Second

Spec == Init /\ [][Next]_vars
=============================================================================
