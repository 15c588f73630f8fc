---------------------------- MODULE ClockProofs ----------------------------
(***************************************************************************)
(* Proofs about the clock, for every width of a time, every length of a    *)
(* second and every lateness of the main loop that a time can hold.        *)
(***************************************************************************)
EXTENDS Clock, TLAPS

Times == -Half .. Half - 1

\* Two numbers that an int32_t does not tell apart.
SameTime(x, y) == \E k \in Int : x = y + (2 * Half) * k

\* The times are those that the history says: last_time is what it was behind milliseconds
\* ago, next_time what the counter will be in due_in.
IInv ==
  /\ TypeOK
  /\ SameTime(last_time, ms_counter - behind)
  /\ SameTime(next_time, ms_counter + due_in)

-----------------------------------------------------------------------------
(* Arithmetic.                                                             *)

LEMMA ConstantsTyped ==
  /\ Half \in Nat \ {0} /\ Second \in Nat \ {0} /\ Modulus \in Nat \ {0}
  /\ Interval \in Nat \ {0} /\ MaxBehind \in Nat
  /\ 2 * Interval <= Half /\ MaxBehind < Half /\ Modulus * Second < Half
  BY ClockAssumption

LEMMA Distributes ==
  ASSUME NEW m \in Int, NEW k \in Int, NEW j \in Int
  PROVE  /\ m * k \in Int
         /\ m * (k + j) = m * k + m * j /\ m * (k - j) = m * k - m * j /\ m * (-k) = -(m * k)
  OBVIOUS

LEMMA Division ==
  ASSUME NEW n \in Int, NEW m \in Nat \ {0}
  PROVE  /\ n \div m \in Int /\ n % m \in Nat /\ n % m < m
         /\ n = m * (n \div m) + (n % m)
  OBVIOUS

\* A multiple of m that is smaller than m is zero.
LEMMA SmallMultiple ==
  ASSUME NEW m \in Nat \ {0}, NEW k \in Int, -m < m * k, m * k < m
  PROVE  m * k = 0
<1>1. k >= 1 => m * k >= m
  OBVIOUS
<1>2. k <= -1 => m * k <= -m
  OBVIOUS
<1>. QED  BY <1>1, <1>2

LEMMA SameTimeSymmetric ==
  ASSUME NEW x \in Int, NEW y \in Int, SameTime(x, y)
  PROVE  SameTime(y, x)
<1>1. PICK k \in Int : x = y + (2 * Half) * k
  BY DEF SameTime
<1>2. y = x + (2 * Half) * (-k) /\ -k \in Int
  BY <1>1, ConstantsTyped, Distributes
<1>. QED  BY <1>2 DEF SameTime

\* Sums and differences of times that are the same are the same.
LEMMA SameTimeSum ==
  ASSUME NEW x \in Int, NEW y \in Int, NEW u \in Int, NEW v \in Int,
         SameTime(x, y), SameTime(u, v)
  PROVE  SameTime(x + u, y + v) /\ SameTime(x - u, y - v)
<1>1. PICK k \in Int : x = y + (2 * Half) * k
  BY DEF SameTime
<1>2. PICK j \in Int : u = v + (2 * Half) * j
  BY DEF SameTime
<1>3. 2 * Half \in Int
  BY ConstantsTyped
<1>. DEFINE m == 2 * Half
<1>4. /\ m * k \in Int /\ m * j \in Int
      /\ m * (k + j) = m * k + m * j /\ m * (k - j) = m * k - m * j
  BY <1>3, Distributes
<1>. HIDE DEF m
<1>5. x + u = (y + v) + m * (k + j) /\ x - u = (y - v) + m * (k - j)
  BY <1>1, <1>2, <1>4 DEF m
<1>. QED  BY <1>5 DEF SameTime, m

LEMMA SameTimeReflexive == ASSUME NEW x \in Int PROVE SameTime(x, x)
<1>1. x = x + (2 * Half) * 0 /\ 0 \in Int
  BY ConstantsTyped
<1>. QED  BY <1>1 DEF SameTime

LEMMA SameTimeTransitive ==
  ASSUME NEW x \in Int, NEW y \in Int, NEW z \in Int, SameTime(x, y), SameTime(y, z)
  PROVE  SameTime(x, z)
<1>1. SameTime(x + y, y + z)
  BY SameTimeSum
<1>2. SameTime((x + y) - y, (y + z) - y)
  BY <1>1, SameTimeSum, SameTimeReflexive
<1>. QED  BY <1>2

\* Storing a number in an int32_t gives the one time that is the same.
LEMMA Int32Is ==
  ASSUME NEW x \in Int
  PROVE  Int32(x) \in Times /\ SameTime(Int32(x), x)
<1>. DEFINE m == 2 * Half
            q == (x + Half) \div m
<1>1. m \in Nat \ {0} /\ x + Half \in Int /\ Half \in Int
  BY ConstantsTyped
<1>2. /\ q \in Int /\ (x + Half) % m \in Nat /\ (x + Half) % m < m
      /\ x + Half = m * q + ((x + Half) % m)
  BY <1>1, Division
<1>3. Int32(x) = ((x + Half) % m) - Half /\ m = Half + Half
  BY ConstantsTyped DEF Int32
<1>. HIDE DEF m, q
<1>4. m * (-q) = -(m * q) /\ m * q \in Int /\ -q \in Int
  BY <1>1, <1>2, Distributes
<1>5. Int32(x) = x + m * (-q)
  BY <1>1, <1>2, <1>3, <1>4
<1>6. Int32(x) \in Times
  BY <1>1, <1>2, <1>3 DEF Times
<1>. QED  BY <1>4, <1>5, <1>6 DEF SameTime, m

LEMMA TimesAreOne ==
  ASSUME NEW x \in Times, NEW y \in Times, SameTime(x, y)
  PROVE  x = y
<1>1. PICK k \in Int : x = y + (2 * Half) * k
  BY DEF SameTime
<1>. DEFINE m == 2 * Half
<1>2. m \in Nat \ {0} /\ x \in Int /\ y \in Int /\ -m < x - y /\ x - y < m
  BY ConstantsTyped DEF Times
<1>3. m * k \in Int /\ x - y = m * k
  BY <1>1, <1>2, Distributes
<1>. HIDE DEF m
<1>4. m * k = 0
  BY <1>2, <1>3, SmallMultiple
<1>. QED  BY <1>2, <1>3, <1>4

\* A time that is known to be the same as n is n, if n is a time.
LEMMA Int32Value ==
  ASSUME NEW x \in Int, NEW n \in Times, SameTime(x, n)
  PROVE  Int32(x) = n
<1>1. n \in Int
  BY ConstantsTyped DEF Times
<1>2. Int32(x) \in Times /\ Int32(x) \in Int /\ SameTime(Int32(x), x)
  BY Int32Is, ConstantsTyped DEF Times
<1>3. SameTime(Int32(x), n)
  BY <1>1, <1>2, SameTimeTransitive
<1>. QED  BY <1>2, <1>3, TimesAreOne

\* There is one way to divide with a remainder.
LEMMA QuotientUnique ==
  ASSUME NEW n \in Int, NEW d \in Nat \ {0}, NEW q \in Int, NEW r \in 0 .. d - 1, n = d * q + r
  PROVE  n \div d = q
<1>. DEFINE p == n \div d
            t == n % d
<1>1. p \in Int /\ t \in Nat /\ t < d /\ n = d * p + t
  BY Division
<1>. HIDE DEF p, t
<1>2. d * q \in Int /\ d * p \in Int /\ d * (q - p) = d * q - d * p /\ q - p \in Int
  BY <1>1, Distributes
<1>. DEFINE x == d * q
            y == d * p
            z == d * (q - p)
<1>3. n = x + r /\ n = y + t /\ z = x - y /\ x \in Int /\ y \in Int
  BY <1>1, <1>2
<1>. HIDE DEF x, y, z
<1>4. z = t - r /\ r \in Nat /\ r < d
  BY <1>1, <1>3
<1>5. -d < z /\ z < d
  BY <1>1, <1>4
<1>6. z = 0
  BY <1>2, <1>5, SmallMultiple DEF z
<1>7. q - p = 0
  <2>1. \A k \in Int : d * k = 0 => k = 0
    OBVIOUS
  <2>. QED  BY <1>2, <1>6, <2>1 DEF z
<1>. QED  BY <1>1, <1>7 DEF p

\* Taking e times d off takes e off the quotient; a number one greater has the same
\* quotient or the next; and the quotient grows with the number.
LEMMA QuotientOfLess ==
  ASSUME NEW n \in Nat, NEW d \in Nat \ {0}, NEW e \in Int
  PROVE  (n - e * d) \div d = (n \div d) - e
<1>. DEFINE q == n \div d
<1>1. q \in Int /\ n % d \in 0 .. d - 1 /\ n = d * q + (n % d)
  BY Division
<1>. HIDE DEF q
<1>2. d * (q - e) = d * q - d * e /\ d * e \in Int /\ d * q \in Int /\ e * d = d * e
  BY <1>1, Distributes
<1>3. n - e * d = d * (q - e) + (n % d) /\ n - e * d \in Int /\ q - e \in Int
  BY <1>1, <1>2
<1>4. (n - e * d) \div d = q - e
  BY <1>1, <1>3, QuotientUnique
<1>. QED  BY <1>4 DEF q

LEMMA QuotientOfNext ==
  ASSUME NEW n \in Nat, NEW d \in Nat \ {0}
  PROVE  (n + 1) \div d \in {n \div d, (n \div d) + 1}
<1>. DEFINE q == n \div d
<1>1. q \in Int /\ n % d \in 0 .. d - 1 /\ n = d * q + (n % d)
  BY Division
<1>. HIDE DEF q
<1>2. CASE n % d < d - 1
  <2>. DEFINE r == (n % d) + 1
              x == d * q
  <2>1. r \in 0 .. d - 1 /\ x \in Int /\ n = x + (r - 1)
    BY <1>1, <1>2, Distributes
  <2>2. n + 1 = d * q + r /\ n + 1 \in Int
    <3>. HIDE DEF r, x
    <3>1. n + 1 = x + r
      BY <2>1
    <3>. QED  BY <3>1 DEF x
  <2>. HIDE DEF r
  <2>3. (n + 1) \div d = q
    BY <1>1, <2>1, <2>2, QuotientUnique
  <2>. QED  BY <2>3 DEF q
<1>3. CASE n % d = d - 1
  <2>1. d * (q + 1) = d * q + d * 1 /\ d * q \in Int /\ d * 1 = d
    BY <1>1, Distributes
  <2>2. n + 1 = d * (q + 1) + 0 /\ 0 \in 0 .. d - 1 /\ q + 1 \in Int /\ n + 1 \in Int
    BY <1>1, <1>3, <2>1
  <2>3. (n + 1) \div d = q + 1
    BY <2>2, QuotientUnique
  <2>. QED  BY <2>3 DEF q
<1>. QED  BY <1>1, <1>2, <1>3

LEMMA QuotientGrows ==
  ASSUME NEW n \in Nat, NEW m \in Nat, NEW d \in Nat \ {0}, n <= m
  PROVE  n \div d \in Nat /\ n \div d <= m \div d /\ d * (n \div d) <= n
<1>. DEFINE q == n \div d
            p == m \div d
<1>1. /\ q \in Int /\ n % d \in 0 .. d - 1 /\ n = d * q + (n % d)
      /\ p \in Int /\ m % d \in 0 .. d - 1 /\ m = d * p + (m % d)
  BY Division
<1>. HIDE DEF p, q
<1>2. d * q \in Int /\ d * p \in Int /\ d * (p - q) = d * p - d * q /\ p - q \in Int
  BY <1>1, Distributes
<1>3. d * q > -d /\ d * (p - q) > -d
  BY <1>1, <1>2
<1>4. \A k \in Int : d * k > -d => k >= 0
  OBVIOUS
<1>5. q >= 0 /\ p - q >= 0
  BY <1>1, <1>2, <1>3, <1>4
<1>. QED  BY <1>1, <1>2, <1>5 DEF p, q

-----------------------------------------------------------------------------
(* The invariant.                                                          *)

LEMMA Typed ==
  ASSUME TypeOK
  PROVE  /\ ms_counter \in Int /\ last_time \in Int /\ next_time \in Int
         /\ behind \in Nat /\ behind <= MaxBehind /\ behind \in Times
         /\ due_in \in Int /\ -due_in \in Times
  BY ConstantsTyped DEF TypeOK, Times

\* What net_update_routing() measures is the time since it last did.
LEMMA MeasuresBehind ==
  ASSUME IInv
  PROVE  /\ time_delta_milliseconds(last_time, ms_counter) = behind
         /\ seconds_elapsed(ms_counter) = (behind \div Second) % Modulus
<1>1. TypeOK /\ SameTime(last_time, ms_counter - behind)
  BY DEF IInv
<1>2. ms_counter \in Int /\ last_time \in Int /\ behind \in Int /\ ms_counter - behind \in Int
  BY <1>1, Typed
<1>3. SameTime(ms_counter - last_time, ms_counter - (ms_counter - behind))
  BY <1>1, <1>2, SameTimeSum, SameTimeReflexive
<1>4. ms_counter - (ms_counter - behind) = behind
  BY <1>2
<1>5. Int32(ms_counter - last_time) = behind
  <2>1. ms_counter - last_time \in Int /\ behind \in Times
    BY <1>1, <1>2, Typed
  <2>. QED  BY <2>1, <1>3, <1>4, Int32Value
<1>6. time_delta_milliseconds(last_time, ms_counter) = behind
  BY <1>5 DEF time_delta_milliseconds
<1>7. time_delta_seconds(last_time, ms_counter) = behind \div Second
  BY <1>1, <1>6, Typed DEF time_delta_seconds, Quotient
<1>. QED  BY <1>6, <1>7 DEF seconds_elapsed

\* The seconds accounted for leave a lateness that is not negative.
LEMMA Accounted ==
  ASSUME IInv, NEW e, e = (behind \div Second) % Modulus
  PROVE  /\ e \in Nat /\ e * Second \in Int
         /\ behind - e * Second \in 0 .. behind
         /\ (behind - e * Second) \div Second = (behind \div Second) - e
<1>. DEFINE q == behind \div Second
<1>1. behind \in Nat /\ Second \in Nat \ {0} /\ Modulus \in Nat \ {0}
  BY Typed, ConstantsTyped DEF IInv
<1>2. q \in Nat /\ Second * q <= behind
  BY <1>1, QuotientGrows
<1>. HIDE DEF q
<1>3. /\ q % Modulus \in Nat /\ q = Modulus * (q \div Modulus) + (q % Modulus)
      /\ q \div Modulus \in Nat
  BY <1>1, <1>2, Division, QuotientGrows
<1>4. q % Modulus <= q
  <2>1. Modulus * (q \div Modulus) \in Nat
    BY <1>1, <1>3
  <2>. QED  BY <1>2, <1>3, <2>1
<1>5. e \in Nat /\ e <= q
  BY <1>3, <1>4 DEF q
<1>6. Second * (q - e) = Second * q - Second * e /\ Second * e \in Int /\ Second * q \in Int
  BY <1>1, <1>2, <1>5, Distributes
<1>7. Second * (q - e) >= 0 /\ Second * e >= 0 /\ e * Second = Second * e
  BY <1>1, <1>2, <1>5
<1>8. behind - e * Second \in 0 .. behind
  BY <1>1, <1>2, <1>6, <1>7
<1>9. (behind - e * Second) \div Second = (behind \div Second) - e
  <2>1. e \in Int
    BY <1>5
  <2>. QED  BY <1>1, <2>1, QuotientOfLess, Zenon
<1>. QED  BY <1>5, <1>6, <1>7, <1>8, <1>9

LEMMA InitIInv == Init => IInv
<1>. SUFFICES ASSUME Init PROVE IInv
  OBVIOUS
<1>1. SameTime(0, 0) /\ 0 - 0 = 0 /\ 0 + 0 = 0
  BY SameTimeReflexive
<1>2. TypeOK
  BY ConstantsTyped DEF Init, TypeOK
<1>. QED  BY <1>1, <1>2 DEF Init, IInv

LEMMA StepIInv == IInv /\ [Next]_vars => IInv'
<1>. SUFFICES ASSUME IInv, [Next]_vars PROVE IInv'
  OBVIOUS
<1>0. /\ TypeOK
      /\ ms_counter \in Int /\ last_time \in Int /\ next_time \in Int
      /\ behind \in Nat /\ behind <= MaxBehind /\ due_in \in Int
      /\ SameTime(last_time, ms_counter - behind)
      /\ SameTime(next_time, ms_counter + due_in)
  BY Typed DEF IInv
<1>1. CASE TIMER1_OVF
  <2>1. /\ ms_counter' = Int32(ms_counter + 1) /\ behind' = behind + 1 /\ due_in' = due_in - 1
        /\ last_time' = last_time /\ next_time' = next_time
        /\ behind < MaxBehind /\ due_in > -MaxBehind /\ build' = build
    BY <1>1 DEF TIMER1_OVF
  <2>2. /\ ms_counter' \in Times /\ ms_counter' \in Int
        /\ SameTime(ms_counter', ms_counter + 1) /\ SameTime(ms_counter + 1, ms_counter')
    <3>1. ms_counter' \in Times /\ SameTime(ms_counter', ms_counter + 1)
      BY <1>0, <2>1, Int32Is
    <3>2. ms_counter' \in Int
      BY <3>1, ConstantsTyped DEF Times
    <3>. QED  BY <1>0, <3>1, <3>2, SameTimeSymmetric
  <2>3. TypeOK'
    BY <1>0, <2>1, <2>2, ConstantsTyped DEF TypeOK, Times
  <2>4. SameTime((ms_counter + 1) - behind', ms_counter' - behind')
    BY <1>0, <2>1, <2>2, SameTimeSum, SameTimeReflexive
  <2>5. SameTime((ms_counter + 1) + due_in', ms_counter' + due_in')
    BY <1>0, <2>1, <2>2, SameTimeSum, SameTimeReflexive
  <2>6. (ms_counter + 1) - behind' = ms_counter - behind
    BY <1>0, <2>1
  <2>7. (ms_counter + 1) + due_in' = ms_counter + due_in
    BY <1>0, <2>1
  <2>8. SameTime(last_time', ms_counter' - behind')
    BY <1>0, <2>1, <2>2, <2>4, <2>6, SameTimeTransitive
  <2>9. SameTime(next_time', ms_counter' + due_in')
    BY <1>0, <2>1, <2>2, <2>5, <2>7, SameTimeTransitive
  <2>. QED  BY <2>3, <2>8, <2>9 DEF IInv
<1>2. CASE AccountSeconds
  <2>. DEFINE e == seconds_elapsed(ms_counter)
              d == Int32(e * Second)
  <2>1. /\ last_time' = Int32(last_time + d) /\ behind' = behind - e * Second
        /\ ms_counter' = ms_counter /\ next_time' = next_time /\ due_in' = due_in
        /\ build' = build
    BY <1>2 DEF AccountSeconds, time_now, time_add_seconds, time_add_milliseconds
  <2>2. e * Second \in Int /\ behind - e * Second \in 0 .. behind
    BY MeasuresBehind, Accounted
  <2>. HIDE DEF e
  <2>3. d \in Int /\ SameTime(d, e * Second)
    BY <2>2, Int32Is, ConstantsTyped DEF Times
  <2>. HIDE DEF d
  <2>4. SameTime(last_time + d, (ms_counter - behind) + e * Second)
    BY <1>0, <2>2, <2>3, SameTimeSum
  <2>5. (ms_counter - behind) + e * Second = ms_counter' - behind' /\ behind' \in 0 .. behind
    BY <1>0, <2>1, <2>2
  <2>6. last_time' \in Times /\ last_time' \in Int /\ SameTime(last_time', last_time + d)
    BY <1>0, <2>1, <2>3, Int32Is, ConstantsTyped DEF Times
  <2>7. SameTime(last_time', ms_counter' - behind')
    BY <1>0, <2>1, <2>3, <2>4, <2>5, <2>6, SameTimeTransitive
  <2>8. TypeOK'
    BY <1>0, <2>1, <2>5, <2>6, ConstantsTyped DEF TypeOK, Times
  <2>. QED  BY <1>0, <2>1, <2>7, <2>8 DEF IInv
<1>3. CASE RunTask
  <2>1. /\ next_time' = Int32(next_time + Interval) /\ due_in' = due_in + Interval
        /\ due_in <= Interval /\ Interval \in Int
        /\ ms_counter' = ms_counter /\ last_time' = last_time /\ behind' = behind
        /\ build' = build
    BY <1>3, ConstantsTyped DEF RunTask, time_add_milliseconds
  <2>2. /\ next_time' \in Times /\ next_time' \in Int
        /\ SameTime(next_time', next_time + Interval)
    BY <1>0, <2>1, Int32Is, ConstantsTyped DEF Times
  <2>3. SameTime(next_time + Interval, (ms_counter + due_in) + Interval)
    <3>1. SameTime(Interval, Interval) /\ ms_counter + due_in \in Int
      BY <1>0, <2>1, SameTimeReflexive
    <3>. QED  BY <1>0, <2>1, <3>1, SameTimeSum
  <2>4. (ms_counter + due_in) + Interval = ms_counter' + due_in'
    BY <1>0, <2>1
  <2>5. SameTime(next_time', ms_counter' + due_in')
    BY <1>0, <2>1, <2>2, <2>3, <2>4, SameTimeTransitive
  <2>6. TypeOK'
    BY <1>0, <2>1, <2>2, ConstantsTyped DEF TypeOK, Times
  <2>. QED  BY <1>0, <2>1, <2>5, <2>6 DEF IInv
<1>4. CASE UNCHANGED vars
  BY <1>4 DEF vars, IInv, TypeOK
<1>. QED  BY <1>1, <1>2, <1>3, <1>4 DEF Next

THEOREM ClockInvariant == Spec => []IInv
<1>. QED  BY InitIInv, StepIInv, PTL DEF Spec

\* The times are 32 bit numbers, and the main loop's lateness one that fits in.
THEOREM TypesKept == Spec => []TypeOK
<1>1. IInv => TypeOK
  BY DEF IInv
<1>. QED  BY ClockInvariant, <1>1, PTL

-----------------------------------------------------------------------------
\* A periodic task's wait ends when its time has come and not before, however often the counter
\* wrapped, in a build that subtracts; in one that compares, while no overflow lies between.
THEOREM TaskRunsOnTimeAlways == Spec => []TaskRunsOnTime
<1>1. ASSUME IInv PROVE TaskRunsOnTime
  <2>. DEFINE delta == Int32(ms_counter - next_time)
  <2>1. /\ TypeOK /\ SameTime(next_time, ms_counter + due_in)
        /\ ms_counter \in Int /\ next_time \in Int /\ due_in \in Int
        /\ -due_in \in Times /\ ms_counter - next_time \in Int
    BY <1>1, Typed DEF IInv
  <2>2. SameTime(ms_counter - next_time, ms_counter - (ms_counter + due_in))
    BY <2>1, SameTimeSum, SameTimeReflexive
  <2>3. ms_counter - (ms_counter + due_in) = -due_in
    BY <2>1
  <2>4. delta = -due_in
    BY <2>1, <2>2, <2>3, Int32Value
  <2>. HIDE DEF delta
  <2>5. WaitEnds <=> ~ DeltaIsNegative(next_time, ms_counter)
    BY DEF WaitEnds, time_now
  <2>6. CASE build = "subtracts"
    <3>1. DeltaIsNegative(next_time, ms_counter) <=> delta < 0
      BY <2>6 DEF DeltaIsNegative, time_delta_milliseconds, delta
    <3>. QED  BY <2>1, <2>4, <2>5, <3>1 DEF TaskRunsOnTime
  <2>7. CASE build = "compares" /\ ~ Straddles
    <3>1. ms_counter - next_time \in Times
      BY <2>7 DEF Straddles, Times
    <3>2. delta = ms_counter - next_time
      BY <2>1, <3>1, Int32Value, SameTimeReflexive DEF delta
    <3>3. ms_counter - next_time = -due_in
      BY <2>4, <3>2
    <3>4. DeltaIsNegative(next_time, ms_counter) <=> ms_counter < next_time
      BY <2>7 DEF DeltaIsNegative
    <3>. QED  BY <2>1, <2>5, <3>3, <3>4 DEF TaskRunsOnTime
  <2>8. CASE build = "compares" /\ Straddles
    BY <2>8 DEF TaskRunsOnTime
  <2>. QED  BY <2>1, <2>6, <2>7, <2>8 DEF TypeOK
<1>. QED  BY ClockInvariant, <1>1, PTL

\* What net_update_routing() accounts for are the seconds that passed, each once: through
\* every overflow of the counter the clock implements the one that Routing.tla assumes.
THEOREM ClockImplementsSeconds == Spec => CountsSeconds
<1>. DEFINE L == behind \div Second
<1>1. Init => Lag!Init
  BY ConstantsTyped, QuotientUnique DEF Init, Lag!Init
<1>2. ASSUME IInv, IInv', [Next]_vars PROVE [Lag!Next]_L
  <2>1. behind \in Nat /\ behind <= MaxBehind /\ behind' \in Nat /\ behind' <= MaxBehind
    BY <1>2, ConstantsTyped DEF IInv, TypeOK
  <2>2. Second \in Nat \ {0} /\ MaxBehind \in Nat
    BY ConstantsTyped
  <2>3. CASE TIMER1_OVF
    <3>1. behind' = behind + 1
      BY <2>3 DEF TIMER1_OVF
    <3>2. (behind + 1) \div Second \in {behind \div Second, (behind \div Second) + 1}
      BY <2>1, <2>2, QuotientOfNext
    <3>3. /\ behind \div Second \in Nat
          /\ (behind + 1) \div Second <= MaxBehind \div Second
          /\ (behind + 1) \div Second \in Nat /\ MaxBehind \div Second \in Nat
      BY <2>1, <2>2, <3>1, QuotientGrows
    <3>4. behind' \div Second = behind \div Second \/ Lag!Pass
      BY <3>1, <3>2, <3>3 DEF Lag!Pass
    <3>. QED  BY <3>4 DEF Lag!Next
  <2>4. CASE AccountSeconds
    <3>1. behind' = behind - seconds_elapsed(ms_counter) * Second
      BY <2>4 DEF AccountSeconds, time_now
    <3>2. seconds_elapsed(ms_counter) = (behind \div Second) % Modulus
      BY <1>2, MeasuresBehind
    <3>3. behind' \div Second = (behind \div Second) - ((behind \div Second) % Modulus)
      BY <1>2, <3>1, <3>2, Accounted
    <3>. QED  BY <3>3 DEF Lag!Next, Lag!Account
  <2>5. CASE RunTask \/ UNCHANGED vars
    BY <2>5 DEF RunTask, vars
  <2>. QED  BY <1>2, <2>3, <2>4, <2>5 DEF Next
<1>. QED  BY ClockInvariant, <1>1, <1>2, PTL DEF Spec, CountsSeconds, Lag!Spec
=============================================================================
