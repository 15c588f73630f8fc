--------------------------- MODULE FramingProofs ---------------------------
(***************************************************************************)
(* Proofs about byte stuffing and unstuffing, for frames of any length.    *)
(***************************************************************************)
EXTENDS Framing, Integers, FiniteSetTheorems, TLAPS

\* The loop of byte_stuff_frame() has come to byte k: those before it are in their places, the
\* others as far behind as escape bytes were put in.
Stuffing(k) ==
  LET shift == SpecialsBefore(content, k)
  IN  /\ i = k + shift /\ stuffed = Len(content) + shift /\ buffer[stuffed + 1] = Flag
      /\ \A j \in 1 .. k - 1 :
           /\ j + SpecialsBefore(content, j) < Len(content)
           /\ buffer[Place(content, j)] = content[j]
           /\ IsSpecial(content[j]) => buffer[Place(content, j) - 1] = Escape
      /\ \A j \in k .. Len(content) : buffer[j + shift] = content[j]

\* The loop of byte_unstuff_frame() has come to byte i: those before it are as they were sent,
\* the others in the places they were put in, less the escape bytes taken out.
Unstuffing ==
  LET shift == SpecialsBefore(content, i)
  IN  /\ i \in 1 .. Len(content) + 1 /\ buffer[0] = Plain
      /\ stuffed = Place(content, Len(content))
      /\ length = stuffed - shift /\ measured = i + shift /\ buffer[length + 1] = Flag
      /\ \A j \in 1 .. i - 1 :
           buffer[j] = content[j] /\ (content[j] = Flag => content[j - 1] = Escape)
      /\ \A j \in i .. Len(content) :
           /\ buffer[Place(content, j) - shift] = content[j]
           /\ IsSpecial(content[j]) => buffer[Place(content, j) - shift - 1] = Escape

Measured ==
  IF FlagsHidden(content) THEN Intact /\ measured = stuffed + 2 ELSE measured # stuffed + 2

IInv ==
  /\ content \in Contents /\ IsContent(content)
  /\ phase \in {"stuff", "unstuff", "measured", "done"}
  /\ phase = "stuff" => measured = 1 /\ \E k \in 1 .. Len(content) + 1 : Stuffing(k)
  /\ WithinBound(content) =>
       /\ phase = "unstuff" => Unstuffing
       /\ phase = "measured" => Measured
       /\ phase = "done" => IF FlagsHidden(content) THEN Intact ELSE length = 0

-----------------------------------------------------------------------------
(* Facts about the frames.                                                 *)

LEMMA ConstantsTyped ==
  MaxData \in Nat /\ FrameBufSize \in Nat /\ FrameBufSize >= 2 * MaxData + 12
BY FramingAssumption

LEMMA BytesDiffer ==
  /\ Flag # Escape /\ Flag # Plain /\ Escape # Plain
  /\ IsSpecial(Flag) /\ IsSpecial(Escape) /\ ~ IsSpecial(Plain)
  /\ \A b : IsSpecial(b) <=> (b = Flag \/ b = Escape)
BY DEF Flag, Escape, Plain, IsSpecial

LEMMA ContentTyped ==
  ASSUME NEW c \in Contents, IsContent(c)
  PROVE  /\ Len(c) \in Nat /\ 6 <= Len(c) /\ Len(c) <= MaxData + 7 /\ DOMAIN c = 1 .. Len(c)
         /\ c = [k \in 1 .. Len(c) |-> c[k]]
         /\ \A k \in {1, 2, 5, Len(c) - 1, Len(c)} : ~ IsSpecial(c[k])
<1>1. PICK N \in 6 .. MaxData + 7 : c \in [1 .. N -> Byte]
  BY DEF Contents
<1>3. c \in [1 .. N -> Byte] /\ N \in Nat /\ 6 <= N /\ N <= MaxData + 7
  BY <1>1, ConstantsTyped
<1>4. Len(c) = N
  <2>1. c \in Seq(Byte)
    BY <1>3
  <2>. QED  BY <1>3, <2>1
<1>5. DOMAIN c = 1 .. Len(c) /\ c = [k \in 1 .. Len(c) |-> c[k]]
  BY <1>3, <1>4
<1>. QED  BY <1>3, <1>4, <1>5 DEF IsContent

LEMMA Counts ==
  ASSUME NEW c, NEW k \in Nat, 1 <= k
  PROVE  /\ SpecialsBefore(c, k) \in Nat /\ SpecialsBefore(c, 1) = 0
         /\ IsSpecial(c[k]) => SpecialsBefore(c, k + 1) = SpecialsBefore(c, k) + 1
         /\ ~ IsSpecial(c[k]) => SpecialsBefore(c, k + 1) = SpecialsBefore(c, k)
<1>. DEFINE P(m) == {j \in 1 .. m - 1 : IsSpecial(c[j])}
<1>1. IsFiniteSet(1 .. k - 1) /\ k \notin P(k)
  BY FS_Interval
<1>2. IsFiniteSet(P(k)) /\ Cardinality(P(k)) \in Nat
  BY <1>1, FS_Subset, FS_CardinalityType
<1>3. P(1) = {}
  OBVIOUS
<1>4. ASSUME IsSpecial(c[k]) PROVE P(k + 1) = P(k) \cup {k}
  BY <1>4
<1>5. ASSUME ~ IsSpecial(c[k]) PROVE P(k + 1) = P(k)
  BY <1>5
<1>. HIDE DEF P
<1>6. Cardinality(P(k) \cup {k}) = Cardinality(P(k)) + 1
  BY <1>1, <1>2, FS_AddElement
<1>7. Cardinality(P(1)) = 0
  BY <1>3, FS_EmptySet
<1>8. \A m : SpecialsBefore(c, m) = Cardinality(P(m))
  BY DEF SpecialsBefore, P
<1>. QED  BY <1>2, <1>4, <1>5, <1>6, <1>7, <1>8

LEMMA CountsGrow ==
  ASSUME NEW c, NEW k \in Nat, NEW m \in Nat, 1 <= k, k <= m
  PROVE  /\ SpecialsBefore(c, k) \in Nat /\ SpecialsBefore(c, m) \in Nat
         /\ SpecialsBefore(c, k) <= SpecialsBefore(c, m)
         /\ (\A j \in k .. m - 1 : ~ IsSpecial(c[j])) => SpecialsBefore(c, k) = SpecialsBefore(c, m)
         /\ \A j \in k .. m - 1 : IsSpecial(c[j]) => SpecialsBefore(c, k) < SpecialsBefore(c, m)
<1>. DEFINE P(l) == {j \in 1 .. l - 1 : IsSpecial(c[j])}
<1>1. IsFiniteSet(1 .. m - 1) /\ 1 <= m
  BY FS_Interval
<1>2. IsFiniteSet(P(m))
  BY <1>1, FS_Subset
<1>3. P(k) \subseteq P(m)
  OBVIOUS
<1>4. SpecialsBefore(c, k) \in Nat /\ SpecialsBefore(c, m) \in Nat
  BY <1>1, Counts
<1>5. ASSUME \A j \in k .. m - 1 : ~ IsSpecial(c[j]) PROVE P(m) = P(k)
  BY <1>5
<1>6. ASSUME NEW j \in k .. m - 1, IsSpecial(c[j]) PROVE P(k) # P(m)
  <2>1. j \in P(m) /\ j \notin P(k)
    BY <1>6
  <2>. QED  BY <2>1
<1>. HIDE DEF P
<1>7. /\ Cardinality(P(k)) <= Cardinality(P(m))
      /\ P(k) # P(m) => Cardinality(P(k)) < Cardinality(P(m))
  <2>1. P(k) \in SUBSET P(m)
    BY <1>3
  <2>2. /\ IsFiniteSet(P(k)) /\ Cardinality(P(k)) <= Cardinality(P(m))
        /\ Cardinality(P(m)) = Cardinality(P(k)) => P(m) = P(k)
    BY <1>2, <2>1, FS_Subset
  <2>3. Cardinality(P(k)) \in Nat /\ Cardinality(P(m)) \in Nat
    BY <1>2, <2>2, FS_CardinalityType
  <2>. QED  BY <2>2, <2>3
<1>8. \A l : SpecialsBefore(c, l) = Cardinality(P(l))
  BY DEF SpecialsBefore, P
<1>. QED  BY <1>4, <1>5, <1>6, <1>7, <1>8

\* Special bytes are two of addresses and the data.
LEMMA CountsBounded ==
  ASSUME NEW c \in Contents, IsContent(c), NEW k \in 1 .. Len(c) + 1
  PROVE  SpecialsBefore(c, k) \in Nat /\ SpecialsBefore(c, k) <= MaxData + 2
<1>. DEFINE N == Len(c)
            P == {j \in 1 .. k - 1 : IsSpecial(c[j])}
            R == 3 .. N - 2
            Q == R \ {5}
<1>1. /\ N \in Nat /\ 6 <= N /\ N <= MaxData + 7
      /\ ~ IsSpecial(c[1]) /\ ~ IsSpecial(c[2]) /\ ~ IsSpecial(c[5])
      /\ ~ IsSpecial(c[N - 1]) /\ ~ IsSpecial(c[N])
  BY ContentTyped
<1>2. P \subseteq Q
  <2>. SUFFICES ASSUME NEW j \in P PROVE j \in Q
    OBVIOUS
  <2>1. j \in Nat /\ 1 <= j /\ j <= N /\ IsSpecial(c[j])
    BY <1>1
  <2>2. j # 1 /\ j # 2 /\ j # 5 /\ j # N - 1 /\ j # N
    BY <1>1, <2>1
  <2>. HIDE DEF N
  <2>. QED  BY <1>1, <2>1, <2>2
<1>3. IsFiniteSet(Q) /\ Cardinality(Q) \in Nat /\ Cardinality(Q) <= MaxData + 2
  <2>. HIDE DEF N
  <2>1. 3 \in Int /\ N - 2 \in Int
    BY <1>1
  <2>2. IsFiniteSet(R) /\ Cardinality(R) = IF 3 > N - 2 THEN 0 ELSE (N - 2) - 3 + 1
    BY <2>1, FS_Interval
  <2>3. Cardinality(R) = N - 4
    BY <1>1, <2>2
  <2>4. CASE N = 6
    <3>1. Q = R
      BY <2>4
    <3>. HIDE DEF R, Q
    <3>. QED  BY <2>2, <2>3, <2>4, <3>1, ConstantsTyped
  <2>5. CASE N > 6
    <3>1. 5 \in R
      BY <1>1, <2>5
    <3>. HIDE DEF R
    <3>2. IsFiniteSet(R \ {5}) /\ Cardinality(R \ {5}) = Cardinality(R) - 1
      BY <2>2, <3>1, FS_RemoveElement
    <3>. QED  BY <1>1, <2>3, <2>5, <3>2, ConstantsTyped
  <2>. QED  BY <1>1, <2>4, <2>5
<1>4. Cardinality(P) <= Cardinality(Q)
  BY <1>2, <1>3, FS_Subset
<1>5. SpecialsBefore(c, k) \in Nat /\ k \in Nat
  BY <1>1, Counts
<1>6. SpecialsBefore(c, k) = Cardinality(P)
  BY DEF SpecialsBefore
<1>. HIDE DEF P, Q
<1>. QED  BY <1>3, <1>4, <1>5, <1>6, ConstantsTyped

\* How the count of special bytes grows along a frame.
LEMMA FrameCounts ==
  ASSUME NEW c \in Contents, IsContent(c)
  PROVE  /\ Len(c) \in Nat /\ 6 <= Len(c) /\ Len(c) <= MaxData + 7 /\ SpecialsBefore(c, 1) = 0
         /\ \A j \in 1 .. Len(c) + 1 : SpecialsBefore(c, j) \in Nat /\ SpecialsBefore(c, j) <= MaxData + 2
         /\ \A j, m \in 1 .. Len(c) + 1 :
              /\ j <= m => SpecialsBefore(c, j) <= SpecialsBefore(c, m)
              /\ j <= m /\ (\A l \in j .. m - 1 : ~ IsSpecial(c[l])) =>
                   SpecialsBefore(c, j) = SpecialsBefore(c, m)
         /\ \A j \in 1 .. Len(c) :
              /\ IsSpecial(c[j]) => SpecialsBefore(c, j + 1) = SpecialsBefore(c, j) + 1
              /\ ~ IsSpecial(c[j]) => SpecialsBefore(c, j + 1) = SpecialsBefore(c, j)
<1>1. Len(c) \in Nat /\ 6 <= Len(c) /\ Len(c) <= MaxData + 7
  BY ContentTyped
<1>2. SpecialsBefore(c, 1) = 0
  BY Counts
<1>3. \A j \in 1 .. Len(c) + 1 : SpecialsBefore(c, j) \in Nat /\ SpecialsBefore(c, j) <= MaxData + 2
  BY CountsBounded
<1>4. ASSUME NEW j \in 1 .. Len(c) + 1, NEW m \in 1 .. Len(c) + 1, j <= m
      PROVE  /\ SpecialsBefore(c, j) <= SpecialsBefore(c, m)
             /\ (\A l \in j .. m - 1 : ~ IsSpecial(c[l])) => SpecialsBefore(c, j) = SpecialsBefore(c, m)
  <2>1. j \in Nat /\ m \in Nat /\ 1 <= j
    BY <1>1
  <2>. QED  BY <1>4, <2>1, CountsGrow
<1>5. ASSUME NEW j \in 1 .. Len(c)
      PROVE  /\ IsSpecial(c[j]) => SpecialsBefore(c, j + 1) = SpecialsBefore(c, j) + 1
             /\ ~ IsSpecial(c[j]) => SpecialsBefore(c, j + 1) = SpecialsBefore(c, j)
  <2>1. j \in Nat /\ 1 <= j
    BY <1>1
  <2>. QED  BY <2>1, Counts
<1>. QED  BY <1>1, <1>2, <1>3, <1>4, <1>5

-----------------------------------------------------------------------------
(* Stuffing.                                                               *)

LEMMA InitInvariant == Init => IInv
<1>. SUFFICES ASSUME Init PROVE IInv
  OBVIOUS
<1>1. content \in Contents /\ IsContent(content) /\ phase = "stuff" /\ measured = 1
  BY DEF Init
<1>2. PICK older \in Byte : buffer = Framed(content, older)
  BY DEF Init
<1>. DEFINE N == Len(content)
<1>3. N \in Nat /\ 6 <= N /\ N <= MaxData + 7 /\ SpecialsBefore(content, 1) = 0
  BY <1>1, FrameCounts
<1>4. DOMAIN content = 1 .. N
  BY <1>1, ContentTyped
<1>5. i = 1 /\ stuffed = N
  BY DEF Init
<1>6. \A x \in 0 .. N + 1 : x \in Indices
  BY <1>3, ConstantsTyped DEF Indices
<1>. HIDE DEF N
<1>7. buffer[N + 1] = Flag /\ \A j \in 1 .. N : buffer[j] = content[j]
  <2>1. \A x \in Indices : buffer[x] = IF x \in {0, N + 1} THEN Flag
                                       ELSE IF x \in 1 .. N THEN content[x] ELSE older
    BY <1>2, <1>4 DEF Framed, N
  <2>. QED  BY <1>3, <1>6, <2>1
<1>8. Stuffing(1)
  <2>1. stuffed = N + 0 /\ i = 1 + 0 /\ buffer[stuffed + 1] = Flag
    BY <1>3, <1>5, <1>7
  <2>2. \A j \in 1 .. N : buffer[j + 0] = content[j]
    BY <1>3, <1>7
  <2>3. 1 .. 1 - 1 = {}
    OBVIOUS
  <2>. QED  BY <1>3, <2>1, <2>2, <2>3 DEF Stuffing, N
<1>9. 1 \in 1 .. Len(content) + 1
  BY <1>3 DEF N
<1>10. phase # "unstuff" /\ phase # "measured" /\ phase # "done"
  BY <1>1
<1>. QED  BY <1>1, <1>8, <1>9, <1>10 DEF IInv

LEMMA StuffStep ==
  ASSUME content \in Contents, IsContent(content), NEW k \in 1 .. Len(content) + 1, Stuffing(k),
         StuffByte
  PROVE  k + 1 \in 1 .. Len(content) + 1 /\ Stuffing(k + 1)'
<1>. DEFINE N == Len(content)
            S(j) == SpecialsBefore(content, j)
<1>1. /\ N \in Nat /\ 6 <= N /\ N <= MaxData + 7
      /\ \A j \in 1 .. N + 1 : S(j) \in Nat /\ S(j) <= MaxData + 2
      /\ \A j, m \in 1 .. N + 1 : j <= m => S(j) <= S(m)
      /\ \A j \in 1 .. N : /\ IsSpecial(content[j]) => S(j + 1) = S(j) + 1
                           /\ ~ IsSpecial(content[j]) => S(j + 1) = S(j)
  BY FrameCounts
<1>2. /\ i = k + S(k) /\ stuffed = N + S(k) /\ buffer[stuffed + 1] = Flag
      /\ \A j \in 1 .. k - 1 :
           /\ j + S(j) < N /\ buffer[j + S(j + 1)] = content[j]
           /\ IsSpecial(content[j]) => buffer[(j + S(j + 1)) - 1] = Escape
      /\ \A j \in k .. N : buffer[j + S(k)] = content[j]
  BY DEF Stuffing, Place
<1>3. content' = content /\ i < N
  BY DEF StuffByte
<1>13. k \in 1 .. N + 1 /\ k \in Nat
  BY <1>1
<1>4. SUFFICES /\ k \in 1 .. N
               /\ i' = k + 1 + S(k + 1) /\ stuffed' = N + S(k + 1) /\ buffer'[stuffed' + 1] = Flag
               /\ \A j \in 1 .. (k + 1) - 1 :
                    /\ j + S(j) < N /\ buffer'[j + S(j + 1)] = content[j]
                    /\ IsSpecial(content[j]) => buffer'[(j + S(j + 1)) - 1] = Escape
               /\ \A j \in k + 1 .. N : buffer'[j + S(k + 1)] = content[j]
  BY <1>1, <1>3, <1>13 DEF Stuffing, Place
<1>5. \A x \in 0 .. stuffed + 2 : x \in Indices
  <2>1. N \in Nat /\ N <= MaxData + 7 /\ S(k) \in Nat /\ S(k) <= MaxData + 2 /\ stuffed = N + S(k)
    BY <1>1, <1>2, <1>13
  <2>. HIDE DEF N, S
  <2>2. stuffed \in Nat /\ stuffed + 2 <= FrameBufSize - 1
    BY <2>1, ConstantsTyped
  <2>. QED  BY <2>2, ConstantsTyped DEF Indices
<1>6. \/ /\ IsSpecial(buffer[i]) /\ buffer' = Inserted(buffer, i, stuffed + 1)
         /\ stuffed' = stuffed + 1 /\ i' = i + 2
      \/ ~ IsSpecial(buffer[i]) /\ i' = i + 1 /\ buffer' = buffer /\ stuffed' = stuffed
  BY DEF StuffByte, AfterInsertion
<1>. HIDE DEF N, S
<1>14. N \in Nat /\ i = k + S(k) /\ stuffed = N + S(k) /\ i < N
  BY <1>1, <1>2, <1>3
<1>7. k \in 1 .. N /\ S(k) \in Nat /\ k \in Nat /\ i \in Nat /\ stuffed \in Nat /\ i <= stuffed
  <2>1. S(k) \in Nat /\ k \in Nat /\ 1 <= k /\ k <= N + 1
    BY <1>1, <1>13
  <2>. QED  BY <1>14, <2>1
<1>8. buffer[i] = content[k]
  BY <1>1, <1>2, <1>7
<1>9. \A j \in 1 .. k - 1 : S(j + 1) \in Nat /\ S(j + 1) <= S(k) /\ (IsSpecial(content[j]) => S(j + 1) >= 1)
  <2>. SUFFICES ASSUME NEW j \in 1 .. k - 1
                PROVE  S(j + 1) \in Nat /\ S(j + 1) <= S(k) /\ (IsSpecial(content[j]) => S(j + 1) >= 1)
    OBVIOUS
  <2>1. j \in 1 .. N /\ j + 1 \in 1 .. N + 1 /\ j + 1 <= k /\ j \in 1 .. N + 1 /\ k \in 1 .. N + 1
    BY <1>1, <1>7
  <2>2. S(j + 1) \in Nat /\ S(j + 1) <= S(k) /\ S(j) \in Nat
    BY <1>1, <2>1
  <2>3. IsSpecial(content[j]) => S(j + 1) = S(j) + 1
    BY <1>1, <2>1
  <2>. QED  BY <2>2, <2>3
<1>10. \A j \in 1 .. (k + 1) - 1 : j \in 1 .. k - 1 \/ j = k
  BY <1>7
<1>11. CASE IsSpecial(content[k])
  <2>1. S(k + 1) = S(k) + 1
    BY <1>1, <1>7, <1>11
  <2>2. buffer' = Inserted(buffer, i, stuffed + 1) /\ stuffed' = stuffed + 1 /\ i' = i + 2
    BY <1>6, <1>8, <1>11
  <2>3. \A x \in 0 .. stuffed + 2 : buffer'[x] = IF x = i THEN Escape ELSE IF x \in i + 1 .. stuffed + 2
                                                          THEN buffer[x - 1] ELSE buffer[x]
    <3>1. \A x \in Indices : buffer'[x] = IF x = i THEN Escape ELSE IF x \in i + 1 .. (stuffed + 1) + 1
                                                          THEN buffer[x - 1] ELSE buffer[x]
      BY <2>2 DEF Inserted
    <3>2. (stuffed + 1) + 1 = stuffed + 2
      BY <1>7
    <3>. QED  BY <1>5, <3>1, <3>2
  <2>4. i' = k + 1 + S(k + 1) /\ stuffed' = N + S(k + 1) /\ stuffed' + 1 = stuffed + 2
    <3>1. stuffed' = stuffed + 1 /\ i' = i + 2
      BY <2>2
    <3>2. i + 2 = k + 1 + S(k + 1)
      BY <1>7, <1>14, <2>1
    <3>3. stuffed + 1 = N + S(k + 1) /\ (stuffed + 1) + 1 = stuffed + 2
      BY <1>7, <1>14, <2>1
    <3>. QED  BY <3>1, <3>2, <3>3
  <2>5. buffer'[stuffed' + 1] = Flag
    <3>1. stuffed + 2 \in 0 .. stuffed + 2 /\ stuffed + 2 \in i + 1 .. stuffed + 2 /\ stuffed + 2 # i
          /\ (stuffed + 2) - 1 = stuffed + 1
      BY <1>7
    <3>. QED  BY <1>2, <2>3, <2>4, <3>1
  <2>6. ASSUME NEW j \in 1 .. k - 1
        PROVE  /\ j + S(j) < N /\ buffer'[j + S(j + 1)] = content[j]
               /\ IsSpecial(content[j]) => buffer'[(j + S(j + 1)) - 1] = Escape
    <3>1. S(j + 1) \in Nat /\ S(j + 1) <= S(k)
      BY <1>9
    <3>2. j + S(j + 1) \in 0 .. stuffed + 2 /\ j + S(j + 1) < i
      BY <1>2, <1>7, <3>1
    <3>3. buffer'[j + S(j + 1)] = buffer[j + S(j + 1)]
      BY <1>7, <2>3, <3>2
    <3>4. ASSUME IsSpecial(content[j]) PROVE buffer'[(j + S(j + 1)) - 1] = buffer[(j + S(j + 1)) - 1]
      <4>1. (j + S(j + 1)) - 1 \in 0 .. stuffed + 2 /\ (j + S(j + 1)) - 1 < i
        BY <1>7, <1>9, <3>1, <3>2, <3>4
      <4>. QED  BY <1>7, <2>3, <4>1
    <3>. QED  BY <1>2, <3>3, <3>4
  <2>7. /\ k + S(k) < N /\ buffer'[k + S(k + 1)] = content[k]
        /\ buffer'[(k + S(k + 1)) - 1] = Escape
    <3>1. k + S(k + 1) = i + 1 /\ (k + S(k + 1)) - 1 = i /\ (i + 1) - 1 = i
      BY <1>2, <1>7, <2>1
    <3>2. i \in 0 .. stuffed + 2 /\ i + 1 \in 0 .. stuffed + 2 /\ i + 1 \in i + 1 .. stuffed + 2 /\ i + 1 # i
      BY <1>7
    <3>3. buffer'[i] = Escape /\ buffer'[i + 1] = buffer[i]
      BY <2>3, <3>1, <3>2
    <3>. QED  BY <1>2, <1>3, <1>8, <3>1, <3>3 DEF N
  <2>8. ASSUME NEW j \in k + 1 .. N PROVE buffer'[j + S(k + 1)] = content[j]
    <3>1. /\ j + S(k + 1) \in 0 .. stuffed + 2 /\ j + S(k + 1) \in i + 1 .. stuffed + 2
          /\ j + S(k + 1) # i /\ (j + S(k + 1)) - 1 = j + S(k) /\ j \in k .. N
      <4>1. j \in Nat /\ k < j /\ j <= N /\ N \in Nat
        BY <1>1, <1>7
      <4>2. i = k + S(k) /\ stuffed = N + S(k)
        BY <1>2
      <4>. DEFINE s == S(k)
                  t == S(k + 1)
      <4>3. s \in Nat /\ k \in Nat /\ i \in Nat /\ stuffed \in Nat /\ t = s + 1 /\ 1 <= k
        BY <1>7, <2>1
      <4>. HIDE DEF s, t
      <4>4. /\ j + t \in 0 .. stuffed + 2 /\ j + t \in i + 1 .. stuffed + 2
            /\ j + t # i /\ (j + t) - 1 = j + s /\ j \in k .. N
        <5>1. i = k + s /\ stuffed = N + s
          BY <4>2 DEF s
        <5>2. j + t = j + s + 1 /\ i + 1 <= j + s + 1 /\ j + s + 1 <= stuffed + 2 /\ j + t \in Nat
          BY <4>1, <4>3, <5>1
        <5>3. j \in k .. N /\ (j + t) - 1 = j + s
          BY <4>1, <4>3
        <5>. QED  BY <4>1, <4>3, <5>2, <5>3
      <4>. QED  BY <4>4 DEF s, t
    <3>. QED  BY <1>2, <2>3, <3>1
  <2>. QED  BY <1>7, <1>10, <2>4, <2>5, <2>6, <2>7, <2>8
<1>12. CASE ~ IsSpecial(content[k])
  <2>1. S(k + 1) = S(k)
    BY <1>1, <1>7, <1>12
  <2>2. buffer' = buffer /\ stuffed' = stuffed /\ i' = i + 1
    BY <1>6, <1>8, <1>12
  <2>3. i' = k + 1 + S(k + 1) /\ stuffed' = N + S(k + 1) /\ buffer'[stuffed' + 1] = Flag
    BY <1>2, <1>7, <2>1, <2>2
  <2>4. k + S(k) < N /\ buffer'[k + S(k + 1)] = content[k]
    BY <1>2, <1>3, <1>8, <2>1, <2>2 DEF N
  <2>5. \A j \in k + 1 .. N : buffer'[j + S(k + 1)] = content[j]
    BY <1>1, <1>2, <1>7, <2>1, <2>2
  <2>. QED  BY <1>2, <1>7, <1>10, <1>12, <2>2, <2>3, <2>4, <2>5
<1>. QED  BY <1>11, <1>12

\* What byte_stuff_frame() leaves, when its loop is over.
LEMMA StuffingOver ==
  ASSUME content \in Contents, IsContent(content), NEW k \in 1 .. Len(content) + 1, Stuffing(k),
         i >= Len(content)
  PROVE  /\ IsStuffed <=> WithinBound(content)
         /\ buffer[stuffed + 1] = Flag /\ stuffed \in Nat /\ stuffed <= Len(content) + MaxData + 2
<1>. DEFINE N == Len(content)
            S(j) == SpecialsBefore(content, j)
<1>1. /\ N \in Nat /\ 6 <= N /\ N <= MaxData + 7
      /\ \A j \in 1 .. N + 1 : S(j) \in Nat /\ S(j) <= MaxData + 2
      /\ \A j, m \in 1 .. N + 1 :
           /\ j <= m => S(j) <= S(m)
           /\ j <= m /\ (\A l \in j .. m - 1 : ~ IsSpecial(content[l])) => S(j) = S(m)
      /\ \A j \in 1 .. N : /\ IsSpecial(content[j]) => S(j + 1) = S(j) + 1
                           /\ ~ IsSpecial(content[j]) => S(j + 1) = S(j)
  BY FrameCounts
<1>2. /\ i = k + S(k) /\ stuffed = N + S(k) /\ buffer[stuffed + 1] = Flag
      /\ \A j \in 1 .. k - 1 :
           /\ j + S(j) < N /\ buffer[j + S(j + 1)] = content[j]
           /\ IsSpecial(content[j]) => buffer[(j + S(j + 1)) - 1] = Escape
      /\ \A j \in k .. N : buffer[j + S(k)] = content[j]
  BY DEF Stuffing, Place
<1>3. i >= N /\ k \in 1 .. N + 1 /\ DOMAIN content = 1 .. N
  BY ContentTyped
<1>4. WithinBound(content) <=> \A j \in 1 .. N : IsSpecial(content[j]) => j + S(j) < N
  BY <1>3 DEF WithinBound
<1>5. IsStuffed <=> /\ stuffed = N + S(N + 1) /\ buffer[stuffed + 1] = Flag
                    /\ \A j \in 1 .. N :
                         /\ buffer[j + S(j + 1)] = content[j]
                         /\ IsSpecial(content[j]) => buffer[(j + S(j + 1)) - 1] = Escape
  BY <1>3 DEF IsStuffed, Place
<1>6. MaxData \in Nat
  BY ConstantsTyped
<1>. HIDE DEF N, S
<1>7. k \in Nat /\ 1 <= k /\ k <= N + 1 /\ S(k) \in Nat /\ S(k) <= MaxData + 2
  BY <1>1, <1>3
<1>8. \A j \in 1 .. N : j \in 1 .. k - 1 \/ j \in k .. N
  BY <1>1, <1>7
<1>9. ASSUME WithinBound(content) PROVE IsStuffed
  <2>1. \A j \in k .. N : ~ IsSpecial(content[j])
    <3>. SUFFICES ASSUME NEW j \in k .. N, IsSpecial(content[j]) PROVE FALSE
      OBVIOUS
    <3>1. j \in 1 .. N /\ j \in 1 .. N + 1 /\ k <= j /\ j \in Nat
      BY <1>1, <1>7
    <3>2. S(k) <= S(j) /\ S(j) \in Nat
      BY <1>1, <1>3, <3>1
    <3>3. j + S(j) < N
      BY <1>4, <1>9, <3>1
    <3>4. N \in Nat /\ i = k + S(k) /\ i >= N
      BY <1>1, <1>2, <1>3
    <3>. QED  BY <1>7, <3>1, <3>2, <3>3, <3>4
  <2>2. ASSUME NEW m \in k .. N + 1 PROVE S(m) = S(k)
    <3>1. k <= m /\ m \in 1 .. N + 1 /\ \A l \in k .. m - 1 : l \in k .. N
      BY <1>1, <1>7
    <3>. QED  BY <1>1, <1>3, <2>1, <3>1
  <2>3. N + 1 \in k .. N + 1 /\ \A j \in k .. N : j + 1 \in k .. N + 1
    BY <1>1, <1>7
  <2>4. stuffed = N + S(N + 1)
    BY <1>2, <2>2, <2>3
  <2>5. \A j \in k .. N : buffer[j + S(j + 1)] = content[j]
    BY <1>2, <2>2, <2>3
  <2>. QED  BY <1>2, <1>5, <1>8, <2>1, <2>4, <2>5
<1>10. ASSUME IsStuffed PROVE WithinBound(content)
  <2>1. S(N + 1) = S(k)
    <3>1. N + S(N + 1) = N + S(k) /\ S(N + 1) \in Nat
      BY <1>1, <1>2, <1>5, <1>10
    <3>. QED  BY <1>1, <1>7, <3>1
  <2>2. \A j \in k .. N : ~ IsSpecial(content[j])
    <3>. SUFFICES ASSUME NEW j \in k .. N, IsSpecial(content[j]) PROVE FALSE
      OBVIOUS
    <3>1. /\ j \in 1 .. N /\ j \in 1 .. N + 1 /\ j + 1 \in 1 .. N + 1 /\ N + 1 \in 1 .. N + 1
          /\ k <= j /\ j + 1 <= N + 1
      BY <1>1, <1>7
    <3>2. S(k) <= S(j) /\ S(j + 1) = S(j) + 1 /\ S(j + 1) <= S(N + 1) /\ S(j) \in Nat
      BY <1>1, <1>3, <3>1
    <3>3. S(j) + 1 <= S(k) /\ S(k) \in Nat
      BY <1>7, <2>1, <3>2
    <3>. QED  BY <3>2, <3>3, SMTT(30)
  <2>. QED  BY <1>2, <1>4, <1>8, <2>2
<1>. QED  BY <1>1, <1>2, <1>6, <1>7, <1>9, <1>10 DEF N

-----------------------------------------------------------------------------
(* Unstuffing.                                                             *)

LEMMA ReceiveStep ==
  ASSUME content \in Contents, IsContent(content), NEW k \in 1 .. Len(content) + 1, Stuffing(k),
         measured = 1, WithinBound(content), Receive
  PROVE  Unstuffing'
<1>. DEFINE N == Len(content)
            S(j) == SpecialsBefore(content, j)
<1>1. /\ N \in Nat /\ 6 <= N /\ N <= MaxData + 7 /\ S(1) = 0
      /\ \A j \in 1 .. N + 1 : S(j) \in Nat /\ S(j) <= MaxData + 2
      /\ \A j, m \in 1 .. N + 1 : j <= m => S(j) <= S(m)
      /\ \A j \in 1 .. N : IsSpecial(content[j]) => S(j + 1) = S(j) + 1
  BY FrameCounts
<1>2. i >= N /\ content' = content /\ i' = 1 /\ length' = stuffed /\ stuffed' = stuffed /\ measured' = 1
  BY DEF Receive
<1>3. IsStuffed /\ buffer[stuffed + 1] = Flag /\ stuffed \in Nat /\ stuffed <= N + MaxData + 2
  BY <1>2, StuffingOver
<1>4. DOMAIN content = 1 .. N
  BY ContentTyped
<1>5. /\ stuffed = N + S(N + 1)
      /\ \A j \in 1 .. N :
           /\ buffer[j + S(j + 1)] = content[j]
           /\ IsSpecial(content[j]) => buffer[(j + S(j + 1)) - 1] = Escape
  BY <1>3, <1>4 DEF IsStuffed, Place
<1>6. PICK older \in Byte :
        buffer' = [x \in Indices |-> IF x = 0 THEN Plain ELSE IF x <= stuffed + 1 THEN buffer[x] ELSE older]
  BY DEF Receive
<1>7. SUFFICES /\ 1 \in 1 .. N + 1 /\ buffer'[0] = Plain
               /\ stuffed = N + S(N + 1)
               /\ stuffed = stuffed - S(1) /\ 1 = 1 + S(1) /\ buffer'[stuffed + 1] = Flag
               /\ \A j \in 1 .. 1 - 1 :
                    buffer'[j] = content[j] /\ (content[j] = Flag => content[j - 1] = Escape)
               /\ \A j \in 1 .. N :
                    /\ buffer'[(j + S(j + 1)) - S(1)] = content[j]
                    /\ IsSpecial(content[j]) => buffer'[(j + S(j + 1)) - S(1) - 1] = Escape
  BY <1>2 DEF Unstuffing, Place
<1>8. \A x \in 0 .. stuffed + 1 : x \in Indices
  BY <1>1, <1>3, ConstantsTyped DEF Indices
<1>. HIDE DEF N, S
<1>9. buffer'[0] = Plain /\ \A x \in 1 .. stuffed + 1 : buffer'[x] = buffer[x]
  <2>1. 0 \in 0 .. stuffed + 1 /\ \A x \in 1 .. stuffed + 1 : x \in 0 .. stuffed + 1 /\ x # 0 /\ x <= stuffed + 1
    BY <1>3
  <2>. QED  BY <1>6, <1>8, <2>1
<1>10. ASSUME NEW j \in 1 .. N
       PROVE  /\ buffer'[(j + S(j + 1)) - S(1)] = content[j]
              /\ IsSpecial(content[j]) => buffer'[(j + S(j + 1)) - S(1) - 1] = Escape
  <2>. DEFINE p == j + S(j + 1)
  <2>1. /\ j \in 1 .. N + 1 /\ j + 1 \in 1 .. N + 1 /\ N + 1 \in 1 .. N + 1 /\ j + 1 <= N + 1
        /\ j \in Nat /\ 1 <= j /\ j <= N
    BY <1>1
  <2>2. S(j + 1) \in Nat /\ S(j + 1) <= S(N + 1) /\ S(j) \in Nat /\ S(N + 1) \in Nat
    BY <1>1, <2>1
  <2>7. N \in Nat /\ S(1) = 0 /\ stuffed = N + S(N + 1)
    BY <1>1, <1>5
  <2>8. IsSpecial(content[j]) => S(j + 1) = S(j) + 1
    BY <1>1
  <2>9. p \in Nat /\ 1 <= p /\ p <= stuffed /\ stuffed \in Nat
    BY <2>1, <2>2, <2>7
  <2>4. IsSpecial(content[j]) => p - 1 \in 1 .. stuffed + 1
    <3>1. IsSpecial(content[j]) => p >= 2
      BY <2>1, <2>2, <2>8
    <3>. HIDE DEF p
    <3>. QED  BY <2>9, <3>1
  <2>3. p \in 1 .. stuffed + 1 /\ p - S(1) = p /\ p - S(1) - 1 = p - 1
    <3>. HIDE DEF p
    <3>. QED  BY <2>7, <2>9
  <2>5. buffer[p] = content[j] /\ (IsSpecial(content[j]) => buffer[p - 1] = Escape)
    BY <1>5
  <2>. HIDE DEF p
  <2>6. /\ buffer'[p - S(1)] = content[j]
        /\ IsSpecial(content[j]) => buffer'[p - S(1) - 1] = Escape
    BY <1>9, <2>3, <2>4, <2>5
  <2>. QED  BY <2>6 DEF p
<1>11. 1 \in 1 .. N + 1 /\ stuffed = stuffed - S(1) /\ 1 = 1 + S(1) /\ stuffed + 1 \in 1 .. stuffed + 1
  BY <1>1, <1>3
<1>12. buffer'[stuffed + 1] = Flag
  BY <1>3, <1>9, <1>11
<1>13. 1 .. 1 - 1 = {}
  OBVIOUS
<1>. QED  BY <1>5, <1>9, <1>10, <1>11, <1>12, <1>13

\* What byte_unstuff_frame() has in its buffer, with the places of the bytes spelt out.
LEMMA UnstuffingFacts ==
  ASSUME content \in Contents, IsContent(content), Unstuffing, NEW N, N = Len(content)
  PROVE  LET S(j) == SpecialsBefore(content, j) IN
         /\ N \in Nat /\ 6 <= N /\ N <= MaxData + 7 /\ MaxData \in Nat
         /\ \A x \in 0 .. stuffed + 2 : x \in Indices
         /\ i \in 1 .. N + 1 /\ i \in Nat /\ S(i) \in Nat /\ S(N + 1) \in Nat /\ S(i) <= S(N + 1)
         /\ i <= FrameBufSize - 2
         /\ stuffed = N + S(N + 1) /\ length = stuffed - S(i) /\ measured = i + S(i)
         /\ buffer[0] = Plain /\ buffer[length + 1] = Flag
         /\ \A j \in 1 .. i - 1 :
              buffer[j] = content[j] /\ (content[j] = Flag => content[j - 1] = Escape)
         /\ \A j \in i .. N :
              /\ S(j) \in Nat /\ S(j + 1) \in Nat /\ S(i) <= S(j) /\ S(j) <= S(j + 1) /\ S(j + 1) <= S(N + 1)
              /\ IsSpecial(content[j]) => S(j + 1) = S(j) + 1
              /\ ~ IsSpecial(content[j]) => S(j + 1) = S(j)
              /\ buffer[(j + S(j + 1)) - S(i)] = content[j]
              /\ IsSpecial(content[j]) => buffer[(j + S(j + 1)) - S(i) - 1] = Escape
<1>. DEFINE S(j) == SpecialsBefore(content, j)
<1>1. /\ N \in Nat /\ 6 <= N /\ N <= MaxData + 7
      /\ \A j \in 1 .. N + 1 : S(j) \in Nat /\ S(j) <= MaxData + 2
      /\ \A j, m \in 1 .. N + 1 : j <= m => S(j) <= S(m)
      /\ \A j \in 1 .. N : /\ IsSpecial(content[j]) => S(j + 1) = S(j) + 1
                           /\ ~ IsSpecial(content[j]) => S(j + 1) = S(j)
  BY FrameCounts
<1>2. /\ i \in 1 .. N + 1 /\ buffer[0] = Plain
      /\ stuffed = N + S(N + 1)
      /\ length = stuffed - S(i) /\ measured = i + S(i) /\ buffer[length + 1] = Flag
      /\ \A j \in 1 .. i - 1 :
           buffer[j] = content[j] /\ (content[j] = Flag => content[j - 1] = Escape)
      /\ \A j \in i .. N :
           /\ buffer[(j + S(j + 1)) - S(i)] = content[j]
           /\ IsSpecial(content[j]) => buffer[(j + S(j + 1)) - S(i) - 1] = Escape
  BY DEF Unstuffing, Place
<1>3. MaxData \in Nat /\ FrameBufSize \in Nat /\ FrameBufSize >= 2 * MaxData + 12
  BY ConstantsTyped
<1>4. N + 1 \in 1 .. N + 1 /\ i \in Nat /\ 1 <= i /\ i <= N + 1
  BY <1>1, <1>2
<1>. HIDE DEF S
<1>5. S(i) \in Nat /\ S(N + 1) \in Nat /\ S(i) <= S(N + 1) /\ S(N + 1) <= MaxData + 2
  BY <1>1, <1>2, <1>4
<1>6. i <= FrameBufSize - 2 /\ stuffed \in Nat /\ stuffed <= FrameBufSize - 3
  <2>. DEFINE t == S(N + 1)
  <2>1. t \in Nat /\ t <= MaxData + 2 /\ stuffed = N + t /\ N \in Nat /\ N <= MaxData + 7
    BY <1>1, <1>2, <1>5
  <2>. HIDE DEF t
  <2>. QED  BY <1>3, <1>4, <2>1
<1>7. \A x \in 0 .. stuffed + 2 : x \in Indices
  BY <1>3, <1>6 DEF Indices
<1>8. ASSUME NEW j \in i .. N
      PROVE  /\ S(j) \in Nat /\ S(j + 1) \in Nat /\ S(i) <= S(j) /\ S(j) <= S(j + 1) /\ S(j + 1) <= S(N + 1)
             /\ IsSpecial(content[j]) => S(j + 1) = S(j) + 1
             /\ ~ IsSpecial(content[j]) => S(j + 1) = S(j)
  <2>1. /\ j \in 1 .. N /\ j \in 1 .. N + 1 /\ j + 1 \in 1 .. N + 1 /\ i <= j /\ j <= j + 1 /\ j + 1 <= N + 1
    BY <1>1, <1>4
  <2>. QED  BY <1>1, <1>2, <1>4, <2>1
<1>9. N \in Nat /\ 6 <= N /\ N <= MaxData + 7
  BY <1>1
<1>. QED  BY <1>2, <1>3, <1>4, <1>5, <1>6, <1>7, <1>8, <1>9 DEF S

\* The loop comes to a special byte: the escape byte before it goes.
LEMMA UnstuffSpecial ==
  ASSUME content \in Contents, IsContent(content), Unstuffing, UnstuffByte,
         i \in 1 .. Len(content), IsSpecial(content[i])
  PROVE  \/ phase' = "unstuff" /\ Unstuffing'
         \/ phase' = "measured" /\ ~ FlagsHidden(content) /\ measured' # stuffed' + 2
<1>. DEFINE N == Len(content)
            S(j) == SpecialsBefore(content, j)
<1>1. /\ N \in Nat /\ 6 <= N /\ N <= MaxData + 7 /\ MaxData \in Nat
      /\ \A x \in 0 .. stuffed + 2 : x \in Indices
      /\ i \in 1 .. N + 1 /\ i \in Nat /\ S(i) \in Nat /\ S(N + 1) \in Nat /\ S(i) <= S(N + 1)
      /\ i <= FrameBufSize - 2
  BY UnstuffingFacts
<1>2. /\ stuffed = N + S(N + 1) /\ length = stuffed - S(i) /\ measured = i + S(i)
      /\ buffer[0] = Plain /\ buffer[length + 1] = Flag
  BY UnstuffingFacts
<1>3. \A j \in 1 .. i - 1 :
        buffer[j] = content[j] /\ (content[j] = Flag => content[j - 1] = Escape)
  BY UnstuffingFacts
<1>4. \A j \in i .. N :
        /\ S(j) \in Nat /\ S(j + 1) \in Nat /\ S(i) <= S(j) /\ S(j) <= S(j + 1) /\ S(j + 1) <= S(N + 1)
        /\ IsSpecial(content[j]) => S(j + 1) = S(j) + 1
        /\ ~ IsSpecial(content[j]) => S(j + 1) = S(j)
        /\ buffer[(j + S(j + 1)) - S(i)] = content[j]
        /\ IsSpecial(content[j]) => buffer[(j + S(j + 1)) - S(i) - 1] = Escape
  BY UnstuffingFacts
<1>5. i \in 1 .. N /\ DOMAIN content = 1 .. N /\ ~ IsSpecial(content[1]) /\ ~ IsSpecial(content[N])
  BY ContentTyped
<1>6. content' = content /\ stuffed' = stuffed /\ i' = i + 1 /\ phase = "unstuff"
  BY DEF UnstuffByte
<1>. DEFINE s == S(i)
            t == S(N + 1)
            u == S(i + 1)
<1>7. /\ 2 <= i /\ i <= N - 1 /\ i \in i .. N
      /\ s \in Nat /\ t \in Nat /\ u = s + 1 /\ u <= t
  <2>1. i # 1 /\ i # N
    BY <1>5
  <2>2. N \in Nat /\ i \in Nat /\ 1 <= i /\ i <= N
    BY <1>1, <1>5
  <2>3. 2 <= i /\ i <= N - 1 /\ i \in i .. N
    BY <2>1, <2>2
  <2>4. s \in Nat /\ t \in Nat /\ u = s + 1 /\ u <= t
    BY <1>1, <1>4, <2>3
  <2>. HIDE DEF s, t, u
  <2>. QED  BY <2>3, <2>4, Zenon
<1>8. \A j \in i .. N : S(i + 1) <= S(j + 1)
  <2>. SUFFICES ASSUME NEW j \in i .. N PROVE S(i + 1) <= S(j + 1)
    OBVIOUS
  <2>1. i + 1 \in 1 .. N + 1 /\ j + 1 \in 1 .. N + 1 /\ i + 1 <= j + 1
    BY <1>1, <1>7
  <2>. QED  BY <2>1, FrameCounts
<1>. HIDE DEF N, S
<1>9. stuffed = N + t /\ length = N + (t - s) /\ measured = i + s /\ length \in Nat /\ length >= i
  <2>. HIDE DEF s, t, u
  <2>1. stuffed = N + t /\ length = stuffed - s /\ measured = i + s
    BY <1>2 DEF s, t
  <2>. QED  BY <1>1, <1>7, <2>1
<1>10. buffer[i + 1] = content[i] /\ buffer[i] = Escape
  <2>1. (i + S(i + 1)) - S(i) = i + 1 /\ (i + S(i + 1)) - S(i) - 1 = i
    BY <1>1, <1>7
  <2>2. buffer[(i + S(i + 1)) - S(i)] = content[i] /\ buffer[(i + S(i + 1)) - S(i) - 1] = Escape
    BY <1>4, <1>7
  <2>. QED  BY <2>1, <2>2
<1>11. EscapesNext(buffer, i)
  BY <1>10 DEF EscapesNext
<1>12. PICK beyond \in Byte : buffer' = Removed(buffer, i, beyond)
  BY <1>11 DEF UnstuffByte
<1>13. /\ length' = length - 1 /\ measured' = measured + 2
       /\ phase' = IF IsEnd(buffer', i) THEN "measured" ELSE phase
  BY <1>11 DEF UnstuffByte
<1>14. \A x \in 0 .. stuffed + 1 : buffer'[x] = IF x < i THEN buffer[x] ELSE buffer[x + 1]
  <2>1. stuffed \in Nat
    <3>1. N \in Nat /\ t \in Nat /\ stuffed = N + t
      BY <1>1, <1>7, <1>9
    <3>. HIDE DEF t
    <3>. QED  BY <3>1
  <2>2. ASSUME NEW x \in 0 .. stuffed + 1 PROVE x \in Indices /\ x + 1 \in Indices
    <3>1. x \in 0 .. stuffed + 2 /\ x + 1 \in 0 .. stuffed + 2
      BY <2>1
    <3>. QED  BY <1>1, <3>1
  <2>. QED  BY <1>12, <2>2 DEF Removed
<1>15. /\ buffer'[0] = Plain /\ buffer'[i] = content[i]
       /\ \A j \in 1 .. i - 1 : buffer'[j] = content[j]
  <2>1. 0 \in 0 .. stuffed + 1 /\ 0 < i /\ i \in 0 .. stuffed + 1 /\ ~ (i < i)
        /\ \A j \in 1 .. i - 1 : j \in 0 .. stuffed + 1 /\ j < i
    <3>. HIDE DEF s, t, u
    <3>1. stuffed \in Nat /\ i \in Nat /\ 2 <= i /\ i <= stuffed
      BY <1>1, <1>7, <1>9
    <3>. QED  BY <3>1
  <2>. QED  BY <1>2, <1>3, <1>10, <1>14, <2>1
<1>16. IsEnd(buffer', i) <=> content[i] = Flag /\ content[i - 1] # Escape
  <2>1. i - 1 \in 1 .. i - 1
    BY <1>1, <1>7
  <2>. QED  BY <1>15, <2>1 DEF IsEnd
<1>17. CASE IsEnd(buffer', i)
  <2>1. ~ FlagsHidden(content)
    BY <1>5, <1>16, <1>17 DEF FlagsHidden
  <2>2. measured' # stuffed + 2
    <3>. HIDE DEF s, t, u
    <3>1. measured' = i + s + 2
      BY <1>1, <1>7, <1>9, <1>13
    <3>. QED  BY <1>1, <1>7, <1>9, <3>1
  <2>. QED  BY <1>6, <1>13, <1>17, <2>1, <2>2
<1>18. CASE ~ IsEnd(buffer', i)
  <2>1. SUFFICES /\ i + 1 \in 1 .. N + 1 /\ buffer'[0] = Plain
                 /\ stuffed = N + S(N + 1)
                 /\ length' = stuffed - S(i + 1) /\ measured' = i + 1 + S(i + 1)
                 /\ buffer'[length' + 1] = Flag
                 /\ \A j \in 1 .. (i + 1) - 1 :
                      buffer'[j] = content[j] /\ (content[j] = Flag => content[j - 1] = Escape)
                 /\ \A j \in i + 1 .. N :
                      /\ buffer'[(j + S(j + 1)) - S(i + 1)] = content[j]
                      /\ IsSpecial(content[j]) => buffer'[(j + S(j + 1)) - S(i + 1) - 1] = Escape
    BY <1>6, <1>13, <1>18 DEF Unstuffing, Place, N, S
  <2>2. length' = stuffed - u /\ measured' = i + 1 + u /\ length' + 1 = length /\ i + 1 \in 1 .. N + 1
    <3>. HIDE DEF s, t, u
    <3>. QED  BY <1>1, <1>7, <1>9, <1>13
  <2>3. buffer'[length' + 1] = Flag
    <3>1. length \in 0 .. stuffed + 1 /\ ~ (length < i)
      <4>. HIDE DEF s, t, u
      <4>. QED  BY <1>1, <1>7, <1>9
    <3>. QED  BY <1>2, <1>14, <2>2, <3>1
  <2>4. \A j \in 1 .. (i + 1) - 1 :
          buffer'[j] = content[j] /\ (content[j] = Flag => content[j - 1] = Escape)
    <3>1. \A j \in 1 .. (i + 1) - 1 : j \in 1 .. i - 1 \/ j = i
      BY <1>1
    <3>. QED  BY <1>3, <1>15, <1>16, <1>18, <3>1
  <2>5. ASSUME NEW j \in i + 1 .. N
        PROVE  /\ buffer'[(j + S(j + 1)) - S(i + 1)] = content[j]
               /\ IsSpecial(content[j]) => buffer'[(j + S(j + 1)) - S(i + 1) - 1] = Escape
    <3>. DEFINE v == S(j + 1)
                p == (j + S(j + 1)) - S(i + 1)
                q == (j + S(j + 1)) - S(i)
    <3>1. j \in i .. N /\ j \in Nat /\ i < j /\ j <= N
      BY <1>1
    <3>2. v \in Nat /\ u <= v /\ v <= t /\ (IsSpecial(content[j]) => v = S(j) + 1 /\ S(j) \in Nat)
      BY <1>4, <1>8, <3>1
    <3>3. IsSpecial(content[j]) => u <= S(j)
      <4>1. j - 1 \in i .. N /\ (j - 1) + 1 = j
        BY <1>1, <3>1
      <4>. QED  BY <1>8, <4>1
    <3>4. /\ p + 1 = q /\ p \in 0 .. stuffed + 1 /\ ~ (p < i)
          /\ IsSpecial(content[j]) => p - 1 \in 0 .. stuffed + 1 /\ ~ (p - 1 < i) /\ (p - 1) + 1 = q - 1
      <4>1. p = (j + v) - u /\ q = (j + v) - s
        OBVIOUS
      <4>2. IsSpecial(content[j]) => v >= u + 1
        <5>. HIDE DEF s, t, u, v, p, q
        <5>. QED  BY <1>7, <3>2, <3>3
      <4>. HIDE DEF s, t, u, v, p, q
      <4>. QED  BY <1>1, <1>7, <1>9, <3>1, <3>2, <4>1, <4>2
    <3>5. buffer[q] = content[j] /\ (IsSpecial(content[j]) => buffer[q - 1] = Escape)
      BY <1>4, <3>1
    <3>. HIDE DEF p, q
    <3>6. buffer'[p] = content[j] /\ (IsSpecial(content[j]) => buffer'[p - 1] = Escape)
      BY <1>14, <3>4, <3>5
    <3>. QED  BY <3>6 DEF p
  <2>. QED  BY <1>9, <1>15, <2>2, <2>3, <2>4, <2>5
<1>. QED  BY <1>17, <1>18

\* The loop comes to a byte that is not special: it stays as it is.
LEMMA UnstuffPlain ==
  ASSUME content \in Contents, IsContent(content), Unstuffing, UnstuffByte,
         i \in 1 .. Len(content), ~ IsSpecial(content[i])
  PROVE  phase' = "unstuff" /\ Unstuffing'
<1>. DEFINE N == Len(content)
            S(j) == SpecialsBefore(content, j)
<1>1. N \in Nat /\ i \in Nat /\ S(i) \in Nat
  BY UnstuffingFacts
<1>2. /\ stuffed = N + S(N + 1) /\ length = stuffed - S(i) /\ measured = i + S(i)
      /\ buffer[0] = Plain /\ buffer[length + 1] = Flag
  BY UnstuffingFacts
<1>3. \A j \in 1 .. i - 1 :
        buffer[j] = content[j] /\ (content[j] = Flag => content[j - 1] = Escape)
  BY UnstuffingFacts
<1>4. \A j \in i .. N :
        /\ ~ IsSpecial(content[j]) => S(j + 1) = S(j)
        /\ buffer[(j + S(j + 1)) - S(i)] = content[j]
        /\ IsSpecial(content[j]) => buffer[(j + S(j + 1)) - S(i) - 1] = Escape
  BY UnstuffingFacts
<1>5. content' = content /\ stuffed' = stuffed /\ i' = i + 1 /\ phase = "unstuff"
  BY DEF UnstuffByte
<1>6. i \in 1 .. N /\ i \in i .. N
  BY <1>1
<1>. HIDE DEF N, S
<1>7. S(i + 1) = S(i)
  BY <1>4, <1>6
<1>8. buffer[i] = content[i]
  <2>1. (i + S(i + 1)) - S(i) = i
    BY <1>1, <1>7
  <2>. QED  BY <1>4, <1>6, <2>1
<1>9. buffer[i] # Flag /\ buffer[i] # Escape
  BY <1>8, BytesDiffer
<1>10. ~ EscapesNext(buffer, i) /\ ~ IsEnd(buffer, i)
  BY <1>9 DEF EscapesNext, IsEnd
<1>11. buffer' = buffer
  BY <1>10 DEF UnstuffByte
<1>12. length' = length /\ measured' = measured + 1 /\ phase' = phase
  BY <1>10, <1>11 DEF UnstuffByte
<1>13. SUFFICES /\ i + 1 \in 1 .. N + 1 /\ buffer[0] = Plain
                /\ stuffed = N + S(N + 1)
                /\ length = stuffed - S(i + 1) /\ measured + 1 = i + 1 + S(i + 1)
                /\ buffer[length + 1] = Flag
                /\ \A j \in 1 .. (i + 1) - 1 :
                     buffer[j] = content[j] /\ (content[j] = Flag => content[j - 1] = Escape)
                /\ \A j \in i + 1 .. N :
                     /\ buffer[(j + S(j + 1)) - S(i + 1)] = content[j]
                     /\ IsSpecial(content[j]) => buffer[(j + S(j + 1)) - S(i + 1) - 1] = Escape
  BY <1>5, <1>11, <1>12 DEF Unstuffing, Place, N, S
<1>14. i + 1 \in 1 .. N + 1 /\ measured + 1 = i + 1 + S(i + 1)
  BY <1>1, <1>2, <1>6, <1>7
<1>15. \A j \in 1 .. (i + 1) - 1 : j \in 1 .. i - 1 \/ j = i
  BY <1>1
<1>16. \A j \in i + 1 .. N : j \in i .. N
  BY <1>1
<1>. QED  BY <1>2, <1>3, <1>4, <1>7, <1>8, <1>9, <1>14, <1>15, <1>16

\* The loop comes to the flag at the end.
LEMMA UnstuffEnd ==
  ASSUME content \in Contents, IsContent(content), Unstuffing, UnstuffByte, i = Len(content) + 1
  PROVE  phase' = "measured" /\ FlagsHidden(content) /\ Intact' /\ measured' = stuffed' + 2
<1>. DEFINE N == Len(content)
            S(j) == SpecialsBefore(content, j)
<1>1. N \in Nat /\ 6 <= N /\ S(N + 1) \in Nat
  BY UnstuffingFacts
<1>2. /\ stuffed = N + S(N + 1) /\ length = stuffed - S(N + 1) /\ measured = N + 1 + S(N + 1)
      /\ buffer[length + 1] = Flag
  BY UnstuffingFacts
<1>3. \A j \in 1 .. N : buffer[j] = content[j] /\ (content[j] = Flag => content[j - 1] = Escape)
  <2>1. \A j \in 1 .. i - 1 : buffer[j] = content[j] /\ (content[j] = Flag => content[j - 1] = Escape)
    BY UnstuffingFacts
  <2>2. i - 1 = N
    BY <1>1
  <2>. QED  BY <2>1, <2>2
<1>4. content' = content /\ stuffed' = stuffed /\ phase = "unstuff"
  BY DEF UnstuffByte
<1>5. ~ IsSpecial(content[N]) /\ DOMAIN content = 1 .. N /\ content = [k \in 1 .. N |-> content[k]]
  BY ContentTyped
<1>6. i = N + 1
  OBVIOUS
<1>. HIDE DEF N, S
<1>7. length = N
  BY <1>1, <1>2
<1>8. buffer[i] = Flag /\ i - 1 = N
  BY <1>1, <1>2, <1>6, <1>7
<1>9. buffer[N] # Escape
  <2>1. N \in 1 .. N
    BY <1>1
  <2>2. buffer[N] = content[N]
    BY <1>3, <2>1
  <2>. QED  BY <1>5, <2>2, BytesDiffer
<1>10. ~ EscapesNext(buffer, i) /\ IsEnd(buffer, i)
  BY <1>8, <1>9, BytesDiffer DEF EscapesNext, IsEnd
<1>11. buffer' = buffer
  BY <1>10 DEF UnstuffByte
<1>12. length' = length /\ measured' = measured + 1 /\ phase' = "measured"
  BY <1>10, <1>11 DEF UnstuffByte
<1>13. FlagsHidden(content)
  BY <1>3, <1>5 DEF FlagsHidden
<1>14. measured' = stuffed + 2
  <2>1. measured' = (N + 1 + S(N + 1)) + 1 /\ stuffed = N + S(N + 1)
    BY <1>2, <1>12
  <2>. QED  BY <1>1, <2>1
<1>15. Slice(buffer, N) = content
  BY <1>3, <1>5 DEF Slice
<1>16. Intact'
  BY <1>4, <1>7, <1>11, <1>12, <1>15 DEF Intact, N
<1>. QED  BY <1>4, <1>12, <1>13, <1>14, <1>16

-----------------------------------------------------------------------------
(* The invariant, and the two theorems.                                    *)

LEMMA NextInvariant == IInv /\ [Next]_vars => IInv'
<1>. SUFFICES ASSUME IInv, [Next]_vars PROVE IInv'
  OBVIOUS
<1>1. /\ content \in Contents /\ IsContent(content)
      /\ phase \in {"stuff", "unstuff", "measured", "done"}
      /\ phase = "stuff" => measured = 1 /\ \E k \in 1 .. Len(content) + 1 : Stuffing(k)
      /\ WithinBound(content) =>
           /\ phase = "unstuff" => Unstuffing
           /\ phase = "measured" => Measured
           /\ phase = "done" => IF FlagsHidden(content) THEN Intact ELSE length = 0
  BY DEF IInv
<1>2. content' = content
  BY DEF Next, StuffByte, Receive, UnstuffByte, ReturnLength, vars
<1>3. CASE StuffByte
  <2>1. PICK k \in 1 .. Len(content) + 1 : Stuffing(k)
    BY <1>1, <1>3 DEF StuffByte
  <2>2. k + 1 \in 1 .. Len(content) + 1 /\ Stuffing(k + 1)'
    BY <1>1, <1>3, <2>1, StuffStep
  <2>3. phase' = "stuff" /\ measured' = 1
    BY <1>1, <1>3 DEF StuffByte
  <2>. QED  BY <1>1, <1>2, <2>2, <2>3 DEF IInv
<1>4. CASE Receive
  <2>1. PICK k \in 1 .. Len(content) + 1 : Stuffing(k)
    BY <1>1, <1>4 DEF Receive
  <2>2. phase' = "unstuff" /\ phase = "stuff"
    BY <1>4 DEF Receive
  <2>3. WithinBound(content) => Unstuffing'
    BY <1>1, <1>4, <2>1, <2>2, ReceiveStep
  <2>. QED  BY <1>1, <1>2, <2>2, <2>3 DEF IInv
<1>5. CASE UnstuffByte
  <2>1. phase = "unstuff" /\ phase' \in {"unstuff", "measured"}
    BY <1>5 DEF UnstuffByte
  <2>2. ASSUME WithinBound(content)
        PROVE  (phase' = "unstuff" => Unstuffing') /\ (phase' = "measured" => Measured')
    <3>1. Unstuffing
      BY <1>1, <2>1, <2>2
    <3>2. i \in 1 .. Len(content) \/ i = Len(content) + 1
      <4>1. Len(content) \in Nat /\ i \in 1 .. Len(content) + 1
        BY <1>1, <3>1, UnstuffingFacts
      <4>. QED  BY <4>1
    <3>3. CASE i \in 1 .. Len(content) /\ IsSpecial(content[i])
      <4>1. \/ phase' = "unstuff" /\ Unstuffing'
            \/ phase' = "measured" /\ ~ FlagsHidden(content) /\ measured' # stuffed' + 2
        BY <1>1, <1>5, <3>1, <3>3, UnstuffSpecial
      <4>. QED  BY <1>2, <4>1 DEF Measured
    <3>4. CASE i \in 1 .. Len(content) /\ ~ IsSpecial(content[i])
      <4>1. phase' = "unstuff" /\ Unstuffing'
        BY <1>1, <1>5, <3>1, <3>4, UnstuffPlain
      <4>. QED  BY <4>1
    <3>5. CASE i = Len(content) + 1
      <4>1. phase' = "measured" /\ FlagsHidden(content) /\ Intact' /\ measured' = stuffed' + 2
        BY <1>1, <1>5, <3>1, <3>5, UnstuffEnd
      <4>. QED  BY <1>2, <4>1 DEF Measured
    <3>. QED  BY <3>2, <3>3, <3>4, <3>5
  <2>. QED  BY <1>1, <1>2, <2>1, <2>2 DEF IInv
<1>6. CASE ReturnLength
  <2>1. /\ phase' = "done" /\ buffer' = buffer /\ measured' = measured /\ stuffed' = stuffed
        /\ length' = IF measured = stuffed + 2 THEN length ELSE 0
        /\ phase = "measured" \/ (phase = "unstuff" /\ i = FrameBufSize - 1)
    BY <1>6 DEF ReturnLength
  <2>2. ASSUME WithinBound(content)
        PROVE  IF FlagsHidden(content) THEN Intact' ELSE length' = 0
    <3>1. phase = "measured"
      <4>. SUFFICES ASSUME phase = "unstuff", i = FrameBufSize - 1 PROVE FALSE
        BY <2>1
      <4>1. i <= FrameBufSize - 2
        BY <1>1, <2>2, UnstuffingFacts
      <4>. QED  BY <4>1, ConstantsTyped
    <3>2. Measured
      BY <1>1, <2>2, <3>1
    <3>3. CASE FlagsHidden(content)
      <4>1. Intact /\ length' = length
        BY <2>1, <3>2, <3>3 DEF Measured
      <4>. QED  BY <1>2, <2>1, <3>3, <4>1 DEF Intact
    <3>4. CASE ~ FlagsHidden(content)
      <4>1. measured # stuffed + 2
        BY <3>2, <3>4 DEF Measured
      <4>. QED  BY <2>1, <3>4, <4>1
    <3>. QED  BY <3>3, <3>4
  <2>. QED  BY <1>1, <1>2, <2>1, <2>2 DEF IInv
<1>7. CASE UNCHANGED vars
  BY <1>7 DEF IInv, vars, Stuffing, Unstuffing, Measured, Intact
<1>. QED  BY <1>3, <1>4, <1>5, <1>6, <1>7 DEF Next

LEMMA Invariant == Spec => []IInv
<1>1. Init => IInv
  BY InitInvariant
<1>2. IInv /\ [Next]_vars => IInv'
  BY NextInvariant
<1>. QED  BY <1>1, <1>2, PTL DEF Spec

\* byte_stuff_frame() escapes everything that it has to, whatever the frame and its length,
\* exactly where its loop, bounded by the length before stuffing, gets to the last special byte.
THEOREM StuffsWithinBoundAlways == Spec => []StuffsWithinBound
<1>1. ASSUME IInv PROVE StuffsWithinBound
  <2>. SUFFICES ASSUME Stuffed PROVE IsStuffed <=> WithinBound(content)
    BY DEF StuffsWithinBound
  <2>1. content \in Contents /\ IsContent(content) /\ i >= Len(content)
    BY <1>1 DEF IInv, Stuffed
  <2>2. PICK k \in 1 .. Len(content) + 1 : Stuffing(k)
    BY <1>1 DEF IInv, Stuffed
  <2>. QED  BY <2>1, <2>2, StuffingOver
<1>. QED  BY <1>1, Invariant, PTL

\* byte_unstuff_frame() gives back every frame stuffed right but those with a flag byte that
\* shows, which it refuses, whatever the frame and its length and whatever was in the buffer before.
THEOREM UnstuffsOrRefusesAlways == Spec => []UnstuffsOrRefuses
<1>1. IInv => UnstuffsOrRefuses
  BY DEF IInv, UnstuffsOrRefuses
<1>. QED  BY <1>1, Invariant, PTL

=============================================================================
