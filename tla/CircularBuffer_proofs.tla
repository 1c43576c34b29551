----------------------- MODULE CircularBuffer_proofs -----------------------
(***************************************************************************)
(* The ring of core/circular_buffer.c is a FIFO queue as long as one slot  *)
(* stays free, and looks empty once it is filled: for every size, every    *)
(* set of bytes and every position of head and tail.                       *)
(***************************************************************************)
EXTENDS CircularBuffer, SequenceTheorems, TLAPS

(***************************************************************************)
(* Index arithmetic: a number below Size is its own remainder.             *)
(***************************************************************************)
LEMMA ModSmall == ASSUME NEW a \in Nat, a < Size PROVE a % Size = a
  BY SizeAssumption

(***************************************************************************)
(* A number between Size and twice Size wraps once.                        *)
(***************************************************************************)
LEMMA ModWrap == ASSUME NEW a \in Nat, Size <= a, a < Size + Size PROVE a % Size = a - Size
  BY SizeAssumption

(***************************************************************************)
(* The two cases together.                                                 *)
(***************************************************************************)
LEMMA ModTwice ==
  ASSUME NEW a \in Nat, a < Size + Size
  PROVE  a % Size \in Index /\ a % Size = IF a < Size THEN a ELSE a - Size
<1>1. CASE a < Size
  BY <1>1, ModSmall, SizeAssumption DEF Index
<1>2. CASE Size <= a
  <2>1. a % Size = a - Size
    BY <1>2, ModWrap
  <2>2. a - Size \in Index /\ ~(a < Size)
    BY <1>2, SizeAssumption DEF Index
  <2> QED
    BY <2>1, <2>2
<1> QED
  BY <1>1, <1>2, SizeAssumption

(***************************************************************************)
(* Moving an index forward by at most Size wraps at most once.             *)
(***************************************************************************)
LEMMA Advance ==
  ASSUME NEW i \in Index, NEW k \in 0 .. Size
  PROVE  /\ (i + k) % Size \in Index
         /\ (i + k) % Size = IF i + k < Size THEN i + k ELSE i + k - Size
<1>1. i + k \in Nat /\ i + k < Size + Size
  BY SizeAssumption DEF Index
<1> QED
  BY <1>1, ModTwice, SizeAssumption DEF Index

(***************************************************************************)
(* The ring never counts Size bytes: circular_buffer_count cannot tell a   *)
(* full ring from an empty one.                                            *)
(***************************************************************************)
LEMMA CountRange ==
  ASSUME NEW B, NEW b \in Ring(B)
  PROVE  Count(b) \in 0 .. Size - 1
  BY SizeAssumption DEF Ring, Index, Count

(***************************************************************************)
(* A record of two indexes and a byte array is a ring.                     *)
(***************************************************************************)
LEMMA RingOf ==
  ASSUME NEW B, NEW h \in Index, NEW t \in Index, NEW d \in [Index -> B]
  PROVE  [head |-> h, tail |-> t, data |-> d] \in Ring(B)
  BY DEF Ring

(***************************************************************************)
(* circular_buffer_reset leaves an empty ring.                             *)
(***************************************************************************)
LEMMA ResetEmpty ==
  ASSUME NEW B, NEW b \in Ring(B)
  PROVE  Reset(b) \in Ring(B) /\ Count(Reset(b)) = 0
<1>1. Reset(b) = [head |-> 0, tail |-> 0, data |-> b.data]
  BY DEF Reset, Ring
<1>2. 0 \in Index /\ b.data \in [Index -> B]
  BY SizeAssumption DEF Ring, Index
<1>3. Reset(b) \in Ring(B)
  BY <1>1, <1>2, RingOf
<1>4. Reset(b).head = 0 /\ Reset(b).tail = 0
  BY <1>1
<1> QED
  BY <1>3, <1>4 DEF Count

(***************************************************************************)
(* circular_buffer_read takes as many bytes off the count as it delivers   *)
(* and leaves the array alone.                                             *)
(***************************************************************************)
LEMMA ReadCount ==
  ASSUME NEW B, NEW b \in Ring(B), NEW n \in Nat
  PROVE  /\ AfterRead(b, n) \in Ring(B)
         /\ Count(AfterRead(b, n)) = Count(b) - Least(n, Count(b))
         /\ AfterRead(b, n).data = b.data
<1> DEFINE m == Least(n, Count(b))
           t == (b.tail + m) % Size
<1>1. m \in Nat /\ m <= Count(b) /\ Count(b) \in 0 .. Size - 1
  BY CountRange, SizeAssumption DEF Least
<1>2. AfterRead(b, n) = [head |-> b.head, tail |-> t, data |-> b.data]
  BY DEF AfterRead, Ring
<1>3. b.head \in 0 .. Size - 1 /\ b.tail \in 0 .. Size - 1 /\ b.data \in [Index -> B]
  BY DEF Ring, Index
<1>4. t \in Index /\ t = IF b.tail + m < Size THEN b.tail + m ELSE b.tail + m - Size
  <2>1. m \in 0 .. Size /\ b.tail \in Index
    BY <1>1, <1>3, SizeAssumption DEF Index
  <2> QED
    BY <2>1, Advance
<1>5. AfterRead(b, n) \in Ring(B)
  BY <1>2, <1>3, <1>4, RingOf DEF Index
<1>6. AfterRead(b, n).head = b.head /\ AfterRead(b, n).tail = t /\ AfterRead(b, n).data = b.data
  BY <1>2
<1>7. Count(AfterRead(b, n)) = IF b.head >= t THEN b.head - t ELSE Size - t + b.head
  BY <1>6 DEF Count
<1>8. Count(b) = IF b.head >= b.tail THEN b.head - b.tail ELSE Size - b.tail + b.head
  BY DEF Count
<1> HIDE DEF m, t
<1>9. Count(AfterRead(b, n)) = Count(b) - m
  BY <1>1, <1>3, <1>4, <1>7, <1>8, SizeAssumption
<1> QED
  BY <1>5, <1>6, <1>9 DEF m

(***************************************************************************)
(* Least is a lower bound of both its arguments.                           *)
(***************************************************************************)
LEMMA LeastBelow ==
  ASSUME NEW m \in Nat, NEW n \in Nat
  PROVE  Least(m, n) \in Nat /\ Least(m, n) <= m /\ Least(m, n) <= n
  BY DEF Least

(***************************************************************************)
(* What circular_buffer_write takes for the free room is what              *)
(* circular_buffer_space reports.                                          *)
(***************************************************************************)
LEMMA CapacityIsSpace ==
  ASSUME NEW B, NEW b \in Ring(B)
  PROVE  Capacity(b) = Size - Count(b)
  BY SizeAssumption DEF Ring, Index, Count, Capacity

(***************************************************************************)
(* A read delivers bytes, as many as asked for if the ring counts that     *)
(* many.                                                                   *)
(***************************************************************************)
LEMMA ReadBytesSeq ==
  ASSUME NEW B, NEW b \in Ring(B), NEW n \in Nat
  PROVE  /\ ReadBytes(b, n) \in Seq(B)
         /\ Len(ReadBytes(b, n)) = Least(n, Count(b))
<1> DEFINE m == Least(n, Count(b))
<1>1. Count(b) \in Nat /\ Count(b) < Size
  BY CountRange, SizeAssumption
<1>2. m \in Nat /\ m <= Count(b)
  BY <1>1, LeastBelow
<1>3. ASSUME NEW i \in 1 .. m PROVE b.data[(b.tail + i - 1) % Size] \in B
  <2>1. b.tail \in Index /\ i - 1 \in 0 .. Size /\ b.tail + (i - 1) = b.tail + i - 1
    BY <1>1, <1>2, SizeAssumption DEF Ring, Index
  <2>2. (b.tail + i - 1) % Size \in Index
    BY <2>1, Advance
  <2> QED
    BY <2>2 DEF Ring
<1>4. ReadBytes(b, n) = [i \in 1 .. m |-> b.data[(b.tail + i - 1) % Size]]
  BY DEF ReadBytes
<1> HIDE DEF m
<1>5. ReadBytes(b, n) \in [1 .. m -> B]
  BY <1>3, <1>4
<1>6. ReadBytes(b, n) \in Seq(B) /\ Len(ReadBytes(b, n)) = m
  BY <1>2, <1>5
<1> QED
  BY <1>6 DEF m

(***************************************************************************)
(* A write leaves a ring: the head moves by what was accepted, and only    *)
(* the accepted bytes change in the array.                                 *)
(***************************************************************************)
LEMMA WriteRing ==
  ASSUME NEW B, NEW b \in Ring(B), NEW s \in Seq(B)
  PROVE  /\ AfterWrite(b, s) \in Ring(B)
         /\ AfterWrite(b, s).tail = b.tail
         /\ AfterWrite(b, s).head = (b.head + Accepted(b, s)) % Size
         /\ \A i \in Index :
              AfterWrite(b, s).data[i] =
                LET offset == (i - b.head + Size) % Size
                IN  IF offset < Accepted(b, s) THEN s[offset + 1] ELSE b.data[i]
<1> DEFINE m == Accepted(b, s)
           offset(i) == (i - b.head + Size) % Size
           h == (b.head + m) % Size
           d == [i \in Index |-> IF offset(i) < m THEN s[offset(i) + 1] ELSE b.data[i]]
<1>1. Count(b) \in Nat /\ Count(b) < Size /\ Len(s) \in Nat
  BY CountRange, SizeAssumption
<1>2. m \in Nat /\ m <= Size /\ m <= Len(s)
  <2>1. Capacity(b) \in Nat /\ Capacity(b) <= Size
    BY <1>1, CapacityIsSpace, SizeAssumption
  <2> QED
    BY <1>1, <2>1, SizeAssumption DEF Accepted, Least
<1>3. b.head \in Index /\ b.tail \in Index /\ b.data \in [Index -> B]
  BY DEF Ring
<1>4. h \in Index
  <2>1. m \in 0 .. Size
    BY <1>2, SizeAssumption
  <2> QED
    BY <1>3, <2>1, Advance
<1>5. ASSUME NEW i \in Index PROVE offset(i) \in Nat
  <2>1. i - b.head + Size \in Nat
    BY <1>3, SizeAssumption DEF Index
  <2> QED
    BY <2>1, SizeAssumption
<1>6. AfterWrite(b, s) = [head |-> h, tail |-> b.tail, data |-> d]
  BY DEF AfterWrite
<1> HIDE DEF m, offset, h
<1>7. ASSUME NEW i \in Index PROVE d[i] \in B
  <2>1. CASE offset(i) < m
    <3>1. offset(i) + 1 \in 1 .. Len(s)
      BY <1>1, <1>2, <1>5, <2>1
    <3> QED
      BY <2>1, <3>1
  <2>2. CASE ~(offset(i) < m)
    BY <1>3, <2>2
  <2> QED
    BY <2>1, <2>2
<1>8. d \in [Index -> B]
  BY <1>7
<1>9. AfterWrite(b, s) \in Ring(B)
  BY <1>3, <1>4, <1>6, <1>8, RingOf
<1>10. AfterWrite(b, s).tail = b.tail /\ AfterWrite(b, s).head = h /\ AfterWrite(b, s).data = d
  BY <1>6
<1> QED
  BY <1>9, <1>10 DEF m, offset, h

(***************************************************************************)
(* The distance from tail to head grows by m when the head moves forward   *)
(* by m without reaching the tail (plain integer arithmetic, used by       *)
(* WriteCount).                                                            *)
(***************************************************************************)
LEMMA DistanceGrows ==
  ASSUME NEW h \in 0 .. Size - 1, NEW t \in 0 .. Size - 1, NEW m \in Nat,
         NEW g \in 0 .. Size - 1,
         g = (IF h + m < Size THEN h + m ELSE h + m - Size),
         (IF h >= t THEN h - t ELSE Size - t + h) + m < Size
  PROVE  (IF g >= t THEN g - t ELSE Size - t + g)
           = (IF h >= t THEN h - t ELSE Size - t + h) + m
  BY SizeAssumption

(***************************************************************************)
(* A write that leaves at least one slot free is accepted whole and        *)
(* counted.                                                                *)
(***************************************************************************)
LEMMA WriteCount ==
  ASSUME NEW B, NEW b \in Ring(B), NEW s \in Seq(B), Count(b) + Len(s) < Size
  PROVE  /\ Accepted(b, s) = Len(s)
         /\ Count(AfterWrite(b, s)) = Count(b) + Len(s)
<1> DEFINE m == Len(s)
           w == AfterWrite(b, s)
<1>1. Count(b) \in Nat /\ m \in Nat /\ Count(b) + m < Size /\ Size \in Nat
  BY CountRange, SizeAssumption
<1>2. b.head \in 0 .. Size - 1 /\ b.tail \in 0 .. Size - 1
  BY DEF Ring, Index
<1>3. Accepted(b, s) = m
  BY <1>1, CapacityIsSpace DEF Accepted, Least
<1>4. w.tail = b.tail /\ w.head = (b.head + m) % Size
  BY <1>3, WriteRing
<1>5. w.head = IF b.head + m < Size THEN b.head + m ELSE b.head + m - Size
  <2>1. b.head \in Index /\ m \in 0 .. Size
    BY <1>1, <1>2 DEF Index
  <2> QED
    BY <1>4, <2>1, Advance
<1>6. w.head \in 0 .. Size - 1 /\ w.tail = b.tail
  BY <1>4, WriteRing DEF Ring, Index
<1>7. Count(w) = Count(b) + m
  <2> DEFINE h == b.head
             t == b.tail
             g == w.head
  <2>1. h \in 0 .. Size - 1 /\ t \in 0 .. Size - 1 /\ g \in 0 .. Size - 1
    BY <1>2, <1>6
  <2>2. g = IF h + m < Size THEN h + m ELSE h + m - Size
    BY <1>5
  <2>3. Count(b) = IF h >= t THEN h - t ELSE Size - t + h
    BY DEF Count
  <2>4. Count(w) = IF g >= t THEN g - t ELSE Size - t + g
    BY <1>6 DEF Count
  <2> HIDE DEF h, t, g, w, m
  <2>5. (IF h >= t THEN h - t ELSE Size - t + h) + m < Size
    BY <1>1, <2>3
  <2> QED
    BY <1>1, <2>1, <2>2, <2>3, <2>4, <2>5, DistanceGrows
<1> QED
  BY <1>3, <1>7 DEF m, w

(***************************************************************************)
(* Two moves of an index add up.                                           *)
(***************************************************************************)
LEMMA AdvanceTwice ==
  ASSUME NEW i \in Index, NEW j \in Nat, NEW k \in Nat, j + k <= Size
  PROVE  (((i + j) % Size) + k) % Size = (i + (j + k)) % Size
<1> DEFINE p == (i + j) % Size
<1>1. p \in Index /\ p = IF i + j < Size THEN i + j ELSE i + j - Size
  BY Advance, SizeAssumption
<1> HIDE DEF p
<1>2. (p + k) % Size = IF p + k < Size THEN p + k ELSE p + k - Size
  BY <1>1, Advance, SizeAssumption
<1>3. (i + (j + k)) % Size = IF i + (j + k) < Size THEN i + (j + k) ELSE i + (j + k) - Size
  BY Advance, SizeAssumption
<1>4. (IF p + k < Size THEN p + k ELSE p + k - Size)
        = IF i + (j + k) < Size THEN i + (j + k) ELSE i + (j + k) - Size
  BY <1>1, SizeAssumption DEF Index
<1> QED
  BY <1>2, <1>3, <1>4 DEF p

(***************************************************************************)
(* How far the k-th byte after the tail lies from the head.                *)
(***************************************************************************)
LEMMA OffsetFromHead ==
  ASSUME NEW h \in Index, NEW t \in Index, NEW k \in Index, NEW c \in Index,
         c = IF h >= t THEN h - t ELSE Size - t + h
  PROVE  (((t + k) % Size) - h + Size) % Size = IF k >= c THEN k - c ELSE k - c + Size
<1> DEFINE p == (t + k) % Size
<1>1. p \in Index /\ p = IF t + k < Size THEN t + k ELSE t + k - Size
  BY Advance, SizeAssumption DEF Index
<1> HIDE DEF p
<1> DEFINE a == p - h + Size
<1>2. a \in Nat /\ a < Size + Size
  BY <1>1, SizeAssumption DEF Index
<1>3. a % Size = IF a < Size THEN a ELSE a - Size
  BY <1>2, ModTwice
<1>4. (IF a < Size THEN a ELSE a - Size) = IF k >= c THEN k - c ELSE k - c + Size
  BY <1>1, SizeAssumption DEF Index
<1> QED
  BY <1>3, <1>4 DEF p

(***************************************************************************)
(* The i-th byte a read delivers, with the offset written the way the next *)
(* lemmas need it.                                                         *)
(***************************************************************************)
LEMMA ReadByte ==
  ASSUME NEW B, NEW b \in Ring(B), NEW n \in Nat, NEW i \in 1 .. Least(n, Count(b))
  PROVE  ReadBytes(b, n)[i] = b.data[(b.tail + (i - 1)) % Size]
<1>1. b.tail \in Nat
  BY SizeAssumption DEF Ring, Index
<1> Count(b) \in Nat
  BY CountRange, SizeAssumption
<1>2. i \in Nat
  BY <1>1, LeastBelow
<1>3. b.tail + i - 1 = b.tail + (i - 1)
  BY <1>1, <1>2
<1> QED
  BY <1>3 DEF ReadBytes

(***************************************************************************)
(* The contents are as many bytes as the ring counts.                      *)
(***************************************************************************)
LEMMA ContentsSeq ==
  ASSUME NEW B, NEW b \in Ring(B)
  PROVE  Contents(b) \in Seq(B) /\ Len(Contents(b)) = Count(b)
<1>1. Count(b) \in Nat /\ Least(Count(b), Count(b)) = Count(b)
  BY CountRange, SizeAssumption DEF Least
<1> QED
  BY <1>1, ReadBytesSeq DEF Contents

(***************************************************************************)
(* circular_buffer_read is first in, first out: the bytes delivered and    *)
(* the bytes still in the ring are together what the ring held, in order,  *)
(* for every size and every position of the indexes.                       *)
(***************************************************************************)
THEOREM ReadFifo ==
  ASSUME NEW B, NEW b \in Ring(B), NEW n \in Nat
  PROVE  ReadBytes(b, n) \o Contents(AfterRead(b, n)) = Contents(b)
<1> DEFINE c == Count(b)
           m == Least(n, c)
           r == AfterRead(b, n)
           p == ReadBytes(b, n)
           q == Contents(r)
<1>1. Size \in Nat /\ c \in Nat /\ c < Size /\ m \in Nat /\ m <= c /\ Least(c, c) = c
  BY CountRange, SizeAssumption, LeastBelow DEF Least
<1>2. r \in Ring(B) /\ Count(r) = c - m /\ r.data = b.data /\ Least(c - m, c - m) = c - m
  BY <1>1, ReadCount DEF Least
<1>3. r.tail = (b.tail + m) % Size
  BY DEF AfterRead, Ring
<1>4. p \in Seq(B) /\ Len(p) = m
  BY ReadBytesSeq
<1>5. q \in Seq(B) /\ Len(q) = c - m
  BY <1>2, ContentsSeq
<1>6. Contents(b) \in Seq(B) /\ Len(Contents(b)) = c
  BY ContentsSeq
<1>7. p \o q \in Seq(B) /\ Len(p \o q) = c
  <2>1. p \o q \in Seq(B) /\ Len(p \o q) = Len(p) + Len(q)
    BY <1>4, <1>5, ConcatProperties
  <2> HIDE DEF c, m, p, q
  <2> QED
    BY <1>1, <1>4, <1>5, <2>1
<1>8. ASSUME NEW i \in 1 .. c PROVE (p \o q)[i] = Contents(b)[i]
  <2>1. Contents(b)[i] = b.data[(b.tail + (i - 1)) % Size]
    BY <1>1, ReadByte DEF Contents
  <2>2. CASE i <= m
    <3>1. (p \o q)[i] = p[i]
      BY <1>1, <1>4, <1>5, <2>2, ConcatProperties
    <3>2. p[i] = b.data[(b.tail + (i - 1)) % Size]
      BY <1>1, <2>2, ReadByte
    <3> QED
      BY <2>1, <3>1, <3>2
  <2>3. CASE i > m
    <3>1. (p \o q)[i] = q[i - m]
      BY <1>1, <1>4, <1>5, <2>3, ConcatProperties
    <3>2. i - m \in 1 .. c - m /\ i - m - 1 \in Nat /\ m + (i - m - 1) = i - 1 /\ i - 1 <= Size
      <4> HIDE DEF c, m
      <4> QED
        BY <1>1, <2>3
    <3>3. q[i - m] = r.data[(r.tail + (i - m - 1)) % Size]
      BY <1>1, <1>2, <3>2, ReadByte DEF Contents
    <3>4. b.tail \in Index
      BY DEF Ring
    <3>5. (r.tail + (i - m - 1)) % Size = (b.tail + (i - 1)) % Size
      BY <1>1, <1>3, <3>2, <3>4, AdvanceTwice
    <3> QED
      BY <1>2, <2>1, <3>1, <3>3, <3>5
  <2>4. i <= m \/ i > m
    <3> HIDE DEF c, m
    <3> QED
      BY <1>1
  <2> QED
    BY <2>2, <2>3, <2>4
<1> QED
  BY <1>6, <1>7, <1>8, SeqEqual

(***************************************************************************)
(* circular_buffer_write appends: as long as the write leaves one slot     *)
(* free, the ring holds what it held before followed by the bytes written. *)
(***************************************************************************)
THEOREM WriteFifo ==
  ASSUME NEW B, NEW b \in Ring(B), NEW s \in Seq(B), Count(b) + Len(s) < Size
  PROVE  Contents(AfterWrite(b, s)) = Contents(b) \o s
<1> DEFINE c == Count(b)
           m == Len(s)
           w == AfterWrite(b, s)
           p == Contents(b)
           q == Contents(w)
<1>1. Size \in Nat /\ c \in Nat /\ m \in Nat /\ c + m < Size
  BY CountRange, SizeAssumption
<1>2. w \in Ring(B) /\ Count(w) = c + m /\ w.tail = b.tail /\ Accepted(b, s) = m
  BY WriteRing, WriteCount
<1>3. Least(c, c) = c /\ Least(c + m, c + m) = c + m
  BY DEF Least
<1>4. p \in Seq(B) /\ Len(p) = c
  BY ContentsSeq
<1>5. q \in Seq(B) /\ Len(q) = c + m
  BY <1>2, ContentsSeq
<1>6. p \o s \in Seq(B) /\ Len(p \o s) = c + m
  BY <1>4, ConcatProperties
<1>7. ASSUME NEW i \in 1 .. c + m PROVE q[i] = (p \o s)[i]
  <2> DEFINE k == i - 1
             x == (b.tail + k) % Size
             offset == (x - b.head + Size) % Size
  <2>1. k \in Nat /\ k < c + m /\ k \in Index /\ c \in Index /\ i = k + 1
    <3> HIDE DEF c, m
    <3> QED
      BY <1>1 DEF Index
  <2>2. b.head \in Index /\ b.tail \in Index
    BY DEF Ring
  <2>3. x \in Index
    <3>1. k \in 0 .. Size
      BY <2>1, SizeAssumption DEF Index
    <3> QED
      BY <2>2, <3>1, Advance
  <2>4. q[i] = w.data[x]
    BY <1>1, <1>2, <1>3, ReadByte DEF Contents
  <2>5. w.data[x] = IF offset < m THEN s[offset + 1] ELSE b.data[x]
    BY <1>2, <2>3, WriteRing
  <2>6. offset = IF k >= c THEN k - c ELSE k - c + Size
    BY <2>1, <2>2, OffsetFromHead DEF Count
  <2>7. CASE i <= c
    <3>1. (p \o s)[i] = p[i]
      BY <1>4, <2>7, ConcatProperties
    <3>2. p[i] = b.data[x]
      BY <1>1, <1>3, <2>7, ReadByte DEF Contents
    <3>3. ~(offset < m)
      <4> HIDE DEF c, m, k, offset
      <4> QED
        BY <1>1, <2>1, <2>6, <2>7
    <3> QED
      BY <2>4, <2>5, <3>1, <3>2, <3>3
  <2>8. CASE i > c
    <3>1. (p \o s)[i] = s[i - c]
      BY <1>4, <2>8, ConcatProperties
    <3>2. offset < m /\ offset + 1 = i - c
      <4> HIDE DEF c, m, k, offset
      <4> QED
        BY <1>1, <2>1, <2>6, <2>8
    <3> QED
      BY <2>4, <2>5, <3>1, <3>2
  <2>9. i <= c \/ i > c
    <3> HIDE DEF c, m
    <3> QED
      BY <1>1
  <2> QED
    BY <2>7, <2>8, <2>9
<1> QED
  BY <1>5, <1>6, <1>7, SeqEqual

(***************************************************************************)
(* The ring has no way to tell full from empty: writing Size bytes into an *)
(* empty ring moves the head all the way round, so circular_buffer_count   *)
(* reports 0 and every byte just written is out of reach.                  *)
(***************************************************************************)
THEOREM FullLooksEmpty ==
  ASSUME NEW B, NEW b \in Ring(B), NEW s \in Seq(B), Count(b) = 0, Len(s) = Size
  PROVE  Accepted(b, s) = Size /\ Count(AfterWrite(b, s)) = 0
<1>1. Accepted(b, s) = Size
  BY SizeAssumption, CapacityIsSpace DEF Accepted, Least
<1>2. b.head \in Index /\ b.tail \in Index /\ b.head = b.tail
  <2>1. b.head \in Index /\ b.tail \in Index
    BY DEF Ring
  <2> QED
    BY <2>1, SizeAssumption DEF Count, Index
<1>3. (b.head + Size) % Size = b.head
  <2>1. Size \in 0 .. Size
    BY SizeAssumption
  <2>2. (b.head + Size) % Size = IF b.head + Size < Size THEN b.head + Size ELSE b.head + Size - Size
    BY <1>2, <2>1, Advance
  <2> QED
    BY <1>2, <2>2, SizeAssumption DEF Index
<1>4. AfterWrite(b, s).head = b.head /\ AfterWrite(b, s).tail = b.tail
  BY <1>1, <1>3, WriteRing
<1> HIDE DEF Index
<1>5. b.head >= b.tail /\ b.head - b.tail = 0
  BY <1>2, SizeAssumption DEF Index
<1> QED
  BY <1>1, <1>4, <1>5 DEF Count
=============================================================================
