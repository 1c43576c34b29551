--------------------------- MODULE CircularBuffer ---------------------------
(***************************************************************************)
(* The byte ring of core/circular_buffer.c, as operators on a record with  *)
(* the fields of circular_buffer_t: head, tail and data (the bytes behind  *)
(* the buffer pointer).  The C functions change the structure they are     *)
(* handed; an operator here returns the structure after the call.          *)
(*                                                                         *)
(* Both indexes stay below Size and no slot is kept free, so head = tail   *)
(* means "empty" to Count even when Size bytes were just written.          *)
(***************************************************************************)
EXTENDS Integers, Sequences

CONSTANT Size    \* circular_buffer_t.size, in bytes

ASSUME SizeAssumption == Size \in Nat \ {0}

Index == 0 .. Size - 1

(***************************************************************************)
(* The rings that hold bytes of the set Byte.                              *)
(***************************************************************************)
Ring(Byte) == [head : Index, tail : Index, data : [Index -> Byte]]

EmptyRing(byte) == [head |-> 0, tail |-> 0, data |-> [i \in Index |-> byte]]

(* Mutant: only the head goes back to the start.                           *)
ResetHead(b) == [b EXCEPT !.head = 0]

(***************************************************************************)
(* circular_buffer_reset: the bytes stay where they are.                   *)
(***************************************************************************)
Reset(b) == [head |-> 0, tail |-> 0, data |-> b.data]

Count(b) ==
  IF b.head >= b.tail THEN b.head - b.tail ELSE Size - b.tail + b.head

Space(b) == Size - Count(b)

(* Mutant: only the room up to the end of the array.                       *)
CapacityToEnd(b) ==
  IF b.head >= b.tail THEN Size - b.head ELSE b.tail - b.head

(***************************************************************************)
(* What circular_buffer_write takes for the free room.                     *)
(***************************************************************************)
Capacity(b) ==
  IF b.head >= b.tail THEN Size - b.head + b.tail ELSE b.tail - b.head

Least(m, n) == IF m <= n THEN m ELSE n

(***************************************************************************)
(* circular_buffer_read of at most n bytes.  The two memcpy calls (up to   *)
(* the end of the array, then from its start) copy along the indexes       *)
(* modulo Size.                                                            *)
(***************************************************************************)
ReadBytes(b, n) ==
  [i \in 1 .. Least(n, Count(b)) |-> b.data[(b.tail + i - 1) % Size]]

(* Mutant: the tail moves by what was asked for, not by what was there.    *)
AfterReadUnclamped(b, n) == [b EXCEPT !.tail = (@ + n) % Size]

AfterRead(b, n) == [b EXCEPT !.tail = (@ + Least(n, Count(b))) % Size]

(***************************************************************************)
(* circular_buffer_write of the byte sequence s; what does not fit is cut. *)
(***************************************************************************)
Accepted(b, s) == Least(Len(s), Capacity(b))

(* Mutant: the head does not wrap.                                         *)
AfterWriteUnwrapped(b, s) ==
  LET offset(i) == (i - b.head + Size) % Size
  IN  [head |-> b.head + Accepted(b, s),
       tail |-> b.tail,
       data |-> [i \in Index |->
                   IF offset(i) < Accepted(b, s) THEN s[offset(i) + 1] ELSE b.data[i]]]

AfterWrite(b, s) ==
  LET offset(i) == (i - b.head + Size) % Size
  IN  [head |-> (b.head + Accepted(b, s)) % Size,
       tail |-> b.tail,
       data |-> [i \in Index |->
                   IF offset(i) < Accepted(b, s) THEN s[offset(i) + 1] ELSE b.data[i]]]

(***************************************************************************)
(* The bytes a reader would get, oldest first.                             *)
(***************************************************************************)
Contents(b) == ReadBytes(b, Count(b))
=============================================================================
