------------------------------- MODULE Framing -------------------------------
(***************************************************************************)
(* Byte stuffing in network_stack/dll/dll.c: byte_stuff_frame() puts an    *)
(* escape byte before the flag and escape bytes of a frame, between its    *)
(* two flags, and byte_unstuff_frame() takes them out again.  Both work in *)
(* place on a frame buffer, one loop iteration a step.                     *)
(*                                                                         *)
(* A byte is the flag byte, the escape byte or any other one.              *)
(***************************************************************************)
EXTENDS Naturals, Sequences, FiniteSets

CONSTANTS
  MaxData,       \* data bytes in a frame (23)
  FrameBufSize   \* FRAMEBUFSIZE (59)

\* A full frame has MaxData + 9 bytes with its flags, and MaxData + 2 of them may need an escape.
ASSUME FramingAssumption ==
  MaxData \in Nat /\ FrameBufSize \in Nat /\ FrameBufSize > (MaxData + 9) + (MaxData + 2)

VARIABLES
  content,   \* the frame between its flags, before stuffing
  phase,     \* which of the two loops runs
  buffer,    \* frame_buffer_tx, then frame_buffer_rx
  i,         \* the loop counter
  stuffed,   \* stuffed_length
  measured,  \* measured_length
  length     \* unstuffed_length, or 0 for an error

vars == <<content, phase, buffer, i, stuffed, measured, length>>

Flag == "flag"
Escape == "escape"
Plain == "plain"
Byte == {Flag, Escape, Plain}
IsSpecial(b) == b \in {Flag, Escape}

Indices == 0 .. FrameBufSize - 1

\* A data frame has two bytes of control, two of addresses, its length, the data and two of
\* checksum; a control frame has neither length nor data.  Of these the control, length and
\* checksum bytes (a zero and a parity bit) are never special; addresses and data may be.
Contents == UNION {[1 .. m -> Byte] : m \in 6 .. MaxData + 7}
IsContent(c) == \A k \in {1, 2, 5, Len(c) - 1, Len(c)} : ~ IsSpecial(c[k])

\* The frame buffer with a frame in it, flags at both ends, and older bytes after it.
Framed(c, older) == [k \in Indices |-> IF k \in {0, Len(c) + 1} THEN Flag
                                       ELSE IF k \in DOMAIN c THEN c[k] ELSE older]

Init ==
  /\ content \in {c \in Contents : IsContent(c)}
  /\ phase = "stuff"
  /\ \E older \in Byte : buffer = Framed(content, older)
  /\ i = 1
  /\ stuffed = Len(content)
  /\ measured = 1
  /\ length = 0

-----------------------------------------------------------------------------
\* An escape byte is inserted at k, in a frame that ends at index end.
Inserted(b, k, end) == [x \in Indices |-> IF x = k THEN Escape
                                          ELSE IF x \in k + 1 .. end + 1 THEN b[x - 1] ELSE b[x]]

\* The byte at k is removed; what moves in at the end lies beyond the buffer.
Removed(b, k, beyond) == [x \in Indices |-> IF x < k THEN b[x]
                                            ELSE IF x + 1 \in Indices THEN b[x + 1] ELSE beyond]

\* Mutant of AfterInsertion: the escaped byte is looked at again.
AfterInsertionAgain(k) == k + 1
\* The byte after the inserted one was dealt with.
AfterInsertion(k) == k + 2

\* One iteration of the loop of byte_stuff_frame(), whose bound is the length it started with.
StuffByte ==
  /\ phase = "stuff" /\ i < Len(content)
  /\ \/ /\ IsSpecial(buffer[i])
        /\ buffer' = Inserted(buffer, i, stuffed + 1)
        /\ stuffed' = stuffed + 1
        /\ i' = AfterInsertion(i)
     \/ /\ ~ IsSpecial(buffer[i])
        /\ i' = i + 1
        /\ UNCHANGED <<buffer, stuffed>>
  /\ UNCHANGED <<content, phase, measured, length>>

\* The frame, of stuffed_length + 2 bytes, gets to the other node's frame_buffer_rx, and
\* byte_unstuff_frame() starts: it blanks the first flag.
Receive ==
  /\ phase = "stuff" /\ i >= Len(content)
  /\ phase' = "unstuff"
  /\ \E older \in Byte :
       buffer' = [k \in Indices |-> IF k = 0 THEN Plain ELSE IF k <= stuffed + 1 THEN buffer[k] ELSE older]
  /\ i' = 1
  /\ length' = stuffed
  /\ UNCHANGED <<content, stuffed, measured>>

EscapesNext(b, k) == b[k] = Escape /\ IsSpecial(b[k + 1])

\* Mutant of IsEnd: a flag byte in the frame ends it, even after an escape byte.
IsEndEver(b, k) == b[k] = Flag
IsEnd(b, k) == b[k] = Flag /\ b[k - 1] # Escape

\* One iteration of the loop of byte_unstuff_frame(): the byte that an escape byte was
\* removed from is looked at as if nothing had been there.
UnstuffByte ==
  /\ phase = "unstuff" /\ i < FrameBufSize - 1
  /\ \E beyond \in Byte :
       buffer' = IF EscapesNext(buffer, i) THEN Removed(buffer, i, beyond) ELSE buffer
  /\ length' = IF EscapesNext(buffer, i) THEN length - 1 ELSE length
  /\ measured' = measured + (IF EscapesNext(buffer, i) THEN 2 ELSE 1)
  /\ phase' = IF IsEnd(buffer', i) THEN "measured" ELSE phase
  /\ i' = i + 1
  /\ UNCHANGED <<content, stuffed>>

\* The loop is over: the length found has to be the length received.
ReturnLength ==
  /\ phase = "measured" \/ (phase = "unstuff" /\ i = FrameBufSize - 1)
  /\ phase' = "done"
  /\ length' = IF measured = stuffed + 2 THEN length ELSE 0
  /\ UNCHANGED <<content, buffer, i, stuffed, measured>>

Next == StuffByte \/ Receive \/ UnstuffByte \/ ReturnLength

Spec == Init /\ [][Next]_vars

-----------------------------------------------------------------------------
Slice(b, n) == [k \in 1 .. n |-> b[k]]

SpecialsBefore(c, k) == Cardinality({j \in 1 .. k - 1 : IsSpecial(c[j])})

\* Where byte k of a frame is when it is stuffed: after the escape bytes of those before it and
\* its own.
Place(c, k) == k + SpecialsBefore(c, k + 1)

\* What byte stuffing is to produce: every byte in its place, the special ones after an escape
\* byte, and the flag at the end.
Stuffed == phase = "stuff" /\ i >= Len(content)
IsStuffed ==
  /\ stuffed = Place(content, Len(content)) /\ buffer[stuffed + 1] = Flag
  /\ \A k \in DOMAIN content :
       /\ buffer[Place(content, k)] = content[k]
       /\ IsSpecial(content[k]) => buffer[Place(content, k) - 1] = Escape

Intact == length = Len(content) /\ Slice(buffer, length) = content

\* The loop gets to every special byte before its bound.
WithinBound(c) == \A k \in DOMAIN c : IsSpecial(c[k]) => k + SpecialsBefore(c, k) < Len(c)

\* No flag byte but those right after an escape byte.
FlagsHidden(c) == \A k \in DOMAIN c : c[k] = Flag => c[k - 1] = Escape

\* byte_stuff_frame() escapes all that it has to, exactly where its loop gets to the last
\* special byte.
StuffsWithinBound == Stuffed => (IsStuffed <=> WithinBound(content))

\* A frame that was stuffed right is received as it was sent, unless one of its flag bytes shows;
\* and then it is refused: none is taken for a frame that was not sent, as a frame that was
\* stuffed wrong may be.
UnstuffsOrRefuses ==
  phase = "done" /\ WithinBound(content) => Intact \/ (length = 0 /\ ~ FlagsHidden(content))

\* What byte_unstuff_frame() is meant to do: a flag byte that was escaped does not end the frame,
\* so that every frame that was stuffed right is received as it was sent.
StuffedFramesArrive == phase = "done" /\ WithinBound(content) => Intact
=============================================================================
