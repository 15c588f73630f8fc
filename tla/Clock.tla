------------------------------- MODULE Clock -------------------------------
(***************************************************************************)
(* The millisecond counter of application/time.c and the arithmetic on     *)
(* times, with the two ways the program uses them: net_update_routing()    *)
(* accounts for the seconds since last_time, and a periodic task (as in    *)
(* application/tests/time_test.c) waits for its next time.                 *)
(*                                                                         *)
(* A time is a 32 bit number.  It overflows after 24 days: the interrupt's *)
(* increment, the additions and the subtractions wrap, but signed overflow *)
(* is undefined and -flto shows the compiler both the subtraction and the  *)
(* test of its sign: a build may compare the two times instead.            *)
(***************************************************************************)
EXTENDS Integers

CONSTANTS
  Half,       \* 2^31: a time is in -Half .. Half - 1
  Second,     \* milliseconds in a second (1000)
  Modulus,    \* the values of a uint8_t (256)
  Interval,   \* milliseconds between two runs of the task (500)
  MaxBehind   \* bound: milliseconds the main loop, or the task, is late

ASSUME ClockAssumption ==
  /\ Half \in Nat /\ Second \in Nat \ {0} /\ Modulus \in Nat \ {0}
  /\ Interval \in Nat \ {0} /\ MaxBehind \in Nat
  /\ 2 * Interval <= Half /\ MaxBehind < Half /\ Modulus * Second < Half

VARIABLES
  build,        \* how the build computes the sign of a difference; never changes
  ms_counter,   \* static volatile int32_t
  last_time,    \* static of net_update_routing()
  next_time,    \* the task's next time
  behind,       \* history: milliseconds that passed since last_time
  due_in        \* history: milliseconds until next_time; negative when it has passed

vars == <<build, ms_counter, last_time, next_time, behind, due_in>>

\* The int32_t that x is stored as.
Int32(x) == ((x + Half) % (2 * Half)) - Half

\* Division rounds towards zero.
Quotient(x, d) == IF x >= 0 THEN x \div d ELSE -((-x) \div d)

\* Mutant of time_now: without the atomic block the interrupt may come after the low byte.
TornTimeNow ==
  {ms_counter, ((ms_counter + 1) \div Modulus) * Modulus + (ms_counter % Modulus)}

\* The times that reading the clock may give: the counter as it is at one moment.
time_now == {ms_counter}

\* Mutant of time_add_milliseconds.
AddUnwrapped(t, milliseconds) == t + milliseconds

time_add_milliseconds(t, milliseconds) == Int32(t + milliseconds)
time_add_seconds(t, seconds) == time_add_milliseconds(t, Int32(seconds * Second))

\* Mutant of time_delta_milliseconds: computed with more bits than a time has.
DeltaUnwrapped(start, end) == end - start

time_delta_milliseconds(start, end) == Int32(end - start)
time_delta_seconds(start, end) == Quotient(time_delta_milliseconds(start, end), Second)

\* time_delta_milliseconds(start, end) < 0, as the build computes it.
DeltaIsNegative(start, end) ==
  IF build = "compares" THEN end < start ELSE time_delta_milliseconds(start, end) < 0

Init ==
  /\ build \in {"subtracts", "compares"}
  /\ ms_counter = 0 /\ last_time = 0 /\ next_time = 0
  /\ behind = 0 /\ due_in = 0

\* The timer interrupt.
TIMER1_OVF ==
  /\ behind < MaxBehind /\ due_in > -MaxBehind
  /\ ms_counter' = Int32(ms_counter + 1)
  /\ behind' = behind + 1
  /\ due_in' = due_in - 1
  /\ UNCHANGED <<build, last_time, next_time>>

seconds_elapsed(now) == time_delta_seconds(last_time, now) % Modulus

\* The first lines of net_update_routing().
AccountSeconds ==
  \E now \in time_now :
    /\ last_time' = time_add_seconds(last_time, seconds_elapsed(now))
    /\ behind' = behind - seconds_elapsed(now) * Second
    /\ UNCHANGED <<build, ms_counter, next_time, due_in>>

\* while(time_delta_milliseconds(next_time, time_now()) < 0) ends at this look at the clock.
WaitEnds == \E now \in time_now : ~ DeltaIsNegative(next_time, now)

\* The task's wait is over and its next time is set.
RunTask ==
  /\ due_in <= Interval   \* bound: a task that ran too early is not followed further
  /\ WaitEnds
  /\ next_time' = time_add_milliseconds(next_time, Interval)
  /\ due_in' = due_in + Interval
  /\ UNCHANGED <<build, ms_counter, last_time, behind>>

Next == TIMER1_OVF \/ AccountSeconds \/ RunTask

Spec == Init /\ [][Next]_vars

-----------------------------------------------------------------------------
TypeOK ==
  /\ build \in {"subtracts", "compares"}
  /\ ms_counter \in -Half .. Half - 1
  /\ last_time \in -Half .. Half - 1
  /\ next_time \in -Half .. Half - 1
  /\ behind \in 0 .. MaxBehind
  /\ due_in \in -MaxBehind .. 2 * Interval

Lag == INSTANCE Seconds WITH
  MaxLag <- MaxBehind \div Second, lag <- behind \div Second

\* Through every overflow of the counter net_update_routing() accounts for each second once,
\* and for no second that has not passed: the clock is what Routing.tla takes it for.
CountsSeconds == Lag!Spec

\* The counter has overflowed and the task's next time has not, or the other way round.
Straddles == ms_counter - next_time \notin -Half .. Half - 1

\* The task's wait is over when its time has come and not before, whatever the counter did in
\* between.  A build that compares the times keeps this only while no overflow lies between
\* them: there it runs early, or waits on.
TaskRunsOnTime == build = "subtracts" \/ ~ Straddles => (WaitEnds <=> due_in <= 0)
=============================================================================
