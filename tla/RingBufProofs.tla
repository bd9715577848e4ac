--------------------------- MODULE RingBufProofs ----------------------------
(* For every size, the ring buffer of kern/ringbuf.c is a bounded first-in   *)
(* first-out buffer.                                                         *)
EXTENDS RingFifo, SequenceTheorems, TLAPS

\* What the remainder of ringbuf_advance_write and ringbuf_advance_read does.
LEMMA AdvanceValue ==
    ASSUME NEW p \in Pos, NEW n \in 0..Size
    PROVE  /\ Advance(p, n) = IF p + n < Size THEN p + n ELSE p + n - Size
           /\ Advance(p, n) \in Pos
<1> USE SizeAssumption DEF Pos
<1>1. CASE p + n < Size
  BY <1>1 DEF Advance
<1>2. CASE p + n >= Size
  <2>1. (p + n) % Size = (p + n - Size) % Size
    OBVIOUS
  <2> QED BY <2>1, <1>2 DEF Advance
<1> QED BY <1>1, <1>2

\* The sizes are natural numbers that add up, and only a full buffer has no
\* contiguous room, only an empty one no contiguous bytes.
LEMMA Sizes ==
    ASSUME NEW r \in Ring
    PROVE  /\ ReadSize(r) \in 0..Size - 1
           /\ WriteSize(r) \in 0..Size - 1
           /\ ReadSize(r) + WriteSize(r) = Size - 1
           /\ ContiguousWriteSize(r) \in 0..WriteSize(r)
           /\ ContiguousReadSize(r) \in 0..ReadSize(r)
           /\ r.wp + ContiguousWriteSize(r) <= Size
           /\ r.rp + ContiguousReadSize(r) <= Size
           /\ r.rp \in Pos /\ r.wp \in Pos
<1>1. r.rp \in Pos /\ r.wp \in Pos
  BY DEF Ring
<1>2. PICK a \in Pos, b \in Pos : a = r.rp /\ b = r.wp
  BY <1>1
<1>3. /\ a \in Int /\ 0 <= a /\ a < Size
      /\ b \in Int /\ 0 <= b /\ b < Size
      /\ Size \in Int /\ 0 < Size
  BY SizeAssumption DEF Pos
<1>4. CASE b < a
  BY <1>1, <1>2, <1>3, <1>4 DEF ReadSize, WriteSize, ContiguousWriteSize, ContiguousReadSize
<1>5. CASE a <= b
  BY <1>1, <1>2, <1>3, <1>5 DEF ReadSize, WriteSize, ContiguousWriteSize, ContiguousReadSize
<1> QED BY <1>3, <1>4, <1>5

\* A pass of the write loop leaves a ring buffer with the bytes it moved.
LEMMA WriteChunkSizes ==
    ASSUME NEW r \in Ring, NEW s \in Seq(Byte)
    PROVE  /\ WriteLen(r, s) \in 0..Len(s)
           /\ WriteLen(r, s) \in 0..WriteSize(r)
           /\ WriteChunk(r, s) \in Ring
           /\ ReadSize(WriteChunk(r, s)) = ReadSize(r) + WriteLen(r, s)
<1> DEFINE n == WriteLen(r, s)
<1>1. /\ n \in 0..Len(s)
      /\ n \in 0..WriteSize(r)
      /\ n \in 0..ContiguousWriteSize(r)
  BY Sizes, SizeAssumption DEF WriteLen, Least
<1>2. r.wp + n <= Size /\ n \in 0..Size
  BY <1>1, Sizes, SizeAssumption DEF Pos
<1>3. Advance(r.wp, n) \in Pos
      /\ Advance(r.wp, n) = IF r.wp + n < Size THEN r.wp + n ELSE r.wp + n - Size
  BY <1>2, Sizes, AdvanceValue
<1>4. WriteChunk(r, s).data \in [Pos -> Byte]
  <2>1. \A i \in Pos : r.wp <= i /\ i < r.wp + n => s[i - r.wp + 1] \in Byte
    <3> SUFFICES ASSUME NEW i \in Pos, r.wp <= i, i < r.wp + n PROVE s[i - r.wp + 1] \in Byte
      OBVIOUS
    <3>0. Len(s) \in Nat /\ n \in Int /\ n <= Len(s) /\ r.wp \in Int /\ i \in Int
      BY <1>1, Sizes, LenProperties, SizeAssumption DEF Pos
    <3> HIDE DEF n
    <3>1. i - r.wp + 1 \in 1..Len(s)
      BY <3>0
    <3> QED BY <3>1, ElementOfSeq
  <2>2. \A i \in Pos : r.data[i] \in Byte
    BY DEF Ring
  <2> QED BY <2>1, <2>2 DEF WriteChunk
<1>5. WriteChunk(r, s) \in Ring
  BY <1>3, <1>4, Sizes DEF WriteChunk, Ring
<1>6. ReadSize(WriteChunk(r, s)) = ReadSize(r) + n
  <2>1. WriteChunk(r, s).rp = r.rp /\ WriteChunk(r, s).wp = Advance(r.wp, n)
    BY DEF WriteChunk
  <2>2. PICK a \in Pos, b \in Pos, c \in Pos : a = r.rp /\ b = r.wp /\ c = Advance(r.wp, n)
    BY <1>3, Sizes
  <2>3. /\ a \in Int /\ 0 <= a /\ a < Size
        /\ b \in Int /\ 0 <= b /\ b < Size
        /\ c \in Int /\ n \in Int /\ 0 <= n
        /\ Size \in Int /\ 0 < Size
    BY <1>1, SizeAssumption DEF Pos
  <2>4. ReadSize(WriteChunk(r, s)) = IF a <= c THEN c - a ELSE Size - a + c
    BY <2>1, <2>2 DEF ReadSize
  <2>5. ReadSize(r) = IF a <= b THEN b - a ELSE Size - a + b
    BY <2>2 DEF ReadSize
  <2>6. c = IF b + n < Size THEN b + n ELSE b + n - Size
    BY <2>2, <1>3
  <2>7. n <= IF b < a THEN a - b - 1 ELSE IF a = 0 THEN Size - b - 1 ELSE Size - b
    BY <1>1, <2>2, Sizes DEF ContiguousWriteSize
  <2> HIDE DEF n
  <2> QED BY <2>3, <2>4, <2>5, <2>6, <2>7
<1> QED BY <1>1, <1>5, <1>6

\* The contents are a sequence of ReadSize bytes.
LEMMA ContentsType ==
    ASSUME NEW r \in Ring
    PROVE  /\ Contents(r) \in Seq(Byte)
           /\ Len(Contents(r)) = ReadSize(r)
           /\ \A i \in 1..ReadSize(r) : Contents(r)[i] = r.data[Advance(r.rp, i - 1)]
<1>1. ReadSize(r) \in Nat
  BY Sizes, SizeAssumption
<1>2. \A i \in 1..ReadSize(r) : Advance(r.rp, i - 1) \in Pos
  <2>1. SUFFICES ASSUME NEW i \in 1..ReadSize(r) PROVE Advance(r.rp, i - 1) \in Pos
    OBVIOUS
  <2>2. i - 1 \in 0..Size
    BY Sizes, SizeAssumption
  <2> QED BY <2>2, Sizes, AdvanceValue
<1>3. \A i \in 1..ReadSize(r) : r.data[Advance(r.rp, i - 1)] \in Byte
  BY <1>2 DEF Ring
<1> QED BY <1>1, <1>3 DEF Contents

\* A pass of the write loop appends the bytes it moves.
LEMMA WriteChunkAppends ==
    ASSUME NEW r \in Ring, NEW s \in Seq(Byte)
    PROVE  Contents(WriteChunk(r, s)) = Contents(r) \o SubSeq(s, 1, WriteLen(r, s))
<1> DEFINE n == WriteLen(r, s)
           m == ReadSize(r)
           w == WriteChunk(r, s)
<1>1. /\ n \in 0..Len(s) /\ n \in 0..WriteSize(r)
      /\ w \in Ring /\ ReadSize(w) = m + n
  BY WriteChunkSizes
<1>2. m \in 0..Size - 1 /\ m + n \in 0..Size - 1
  BY <1>1, Sizes, SizeAssumption
<1>3. PICK a \in Pos, b \in Pos : a = r.rp /\ b = r.wp
  BY Sizes
<1>4. m = IF a <= b THEN b - a ELSE Size - a + b
  BY <1>3 DEF ReadSize
<1>5. n <= IF b < a THEN a - b - 1 ELSE IF a = 0 THEN Size - b - 1 ELSE Size - b
  BY <1>3, Sizes DEF WriteLen, Least, ContiguousWriteSize
<1>6. /\ a \in Int /\ 0 <= a /\ a < Size
      /\ b \in Int /\ 0 <= b /\ b < Size
      /\ Size \in Int /\ 0 < Size
      /\ m \in Int /\ 0 <= m /\ n \in Int /\ 0 <= n
  BY <1>1, <1>2, SizeAssumption DEF Pos
<1>7. \A j \in Pos : w.data[j] = IF b <= j /\ j < b + n THEN s[j - b + 1] ELSE r.data[j]
  BY <1>3 DEF WriteChunk
<1>8. w.rp = a
  BY <1>3 DEF WriteChunk
<1>9. ASSUME NEW i \in 1..m + n
      PROVE  LET j == Advance(a, i - 1)
             IN  /\ j \in Pos
                 /\ i <= m => ~(b <= j /\ j < b + n)
                 /\ i > m => j = b + i - 1 - m
  <2>1. i - 1 \in 0..Size /\ i \in Int /\ 1 <= i /\ i <= m + n
    BY <1>2, <1>6
  <2>2. Advance(a, i - 1) \in Pos
    BY <2>1, AdvanceValue
  <2>3. Advance(a, i - 1) = IF a + i - 1 < Size THEN a + i - 1 ELSE a + i - 1 - Size
    BY <2>1, <1>6, AdvanceValue
  <2> HIDE DEF n, m
  <2>4. i <= m => ~(b <= Advance(a, i - 1) /\ Advance(a, i - 1) < b + n)
    BY <2>1, <2>3, <1>4, <1>5, <1>6
  <2>5. i > m => Advance(a, i - 1) = b + i - 1 - m
    BY <2>1, <2>3, <1>4, <1>5, <1>6
  <2> QED BY <2>2, <2>4, <2>5
<1>10. ASSUME NEW i \in 1..m + n
       PROVE  Contents(w)[i] = IF i <= m THEN Contents(r)[i] ELSE s[i - m]
  <2>1. Contents(w)[i] = w.data[Advance(a, i - 1)]
    BY <1>1, <1>8, ContentsType
  <2>2. CASE i <= m
    <3>1. Contents(r)[i] = r.data[Advance(a, i - 1)]
      BY <2>2, <1>3, <1>6, ContentsType
    <3> QED BY <2>1, <2>2, <3>1, <1>7, <1>9
  <2>3. CASE i > m
    <3>1. Advance(a, i - 1) = b + i - 1 - m /\ Advance(a, i - 1) \in Pos
      BY <2>3, <1>9
    <3>2. b <= b + i - 1 - m /\ b + i - 1 - m < b + n /\ (b + i - 1 - m) - b + 1 = i - m
      BY <2>3, <1>6
    <3>3. w.data[Advance(a, i - 1)] = s[i - m]
      BY <3>1, <3>2, <1>7
    <3> QED BY <2>1, <2>3, <3>3, <1>6
  <2> QED BY <2>2, <2>3, <1>6
<1>11. /\ Contents(w) \in Seq(Byte) /\ Len(Contents(w)) = m + n
       /\ Contents(r) \in Seq(Byte) /\ Len(Contents(r)) = m
  BY <1>1, ContentsType
<1>12. /\ SubSeq(s, 1, n) \in Seq(Byte) /\ Len(SubSeq(s, 1, n)) = n
       /\ \A i \in 1..n : SubSeq(s, 1, n)[i] = s[i]
  BY <1>1
<1> HIDE DEF n, m, w
<1> DEFINE x == Contents(r)
           y == SubSeq(s, 1, n)
           z == Contents(w)
<1> HIDE DEF x, y, z
<1>13. /\ x \o y \in Seq(Byte) /\ Len(x \o y) = m + n
       /\ \A i \in 1..m + n : (x \o y)[i] = IF i <= m THEN x[i] ELSE y[i - m]
  <2>1. x \in Seq(Byte) /\ y \in Seq(Byte) /\ Len(x) = m /\ Len(y) = n
    BY <1>11, <1>12 DEF x, y
  <2> QED BY <2>1, ConcatProperties
<1>14. ASSUME NEW i \in 1..m + n
       PROVE  z[i] = (x \o y)[i]
  <2>1. z[i] = IF i <= m THEN x[i] ELSE s[i - m]
    BY <1>10 DEF x, z
  <2>2. ~(i <= m) => i - m \in 1..n
    BY <1>6
  <2>3. ~(i <= m) => y[i - m] = s[i - m]
    BY <2>2, <1>12 DEF y
  <2> QED BY <2>1, <2>3, <1>13
<1>15. z = x \o y
  BY <1>11, <1>13, <1>14, SeqEqual DEF z
<1> QED BY <1>15 DEF n, w, x, y, z

\* Concatenation of byte sequences is associative.
LEMMA Associative ==
    ASSUME NEW x \in Seq(Byte), NEW y \in Seq(Byte), NEW z \in Seq(Byte)
    PROVE  (x \o y) \o z = x \o (y \o z)
BY ConcatAssociative

\* After a pass that did not take everything, all the room left is contiguous.
LEMMA SecondPass ==
    ASSUME NEW r \in Ring, NEW s \in Seq(Byte), WriteLen(r, s) < Len(s)
    PROVE  LET w == WriteChunk(r, s) IN ContiguousWriteSize(w) = WriteSize(w)
<1> DEFINE n == WriteLen(r, s)
           w == WriteChunk(r, s)
<1>1. n = ContiguousWriteSize(r)
  BY Sizes, SizeAssumption DEF WriteLen, Least
<1>2. PICK a \in Pos, b \in Pos : a = r.rp /\ b = r.wp
  BY Sizes
<1>3. /\ a \in Int /\ 0 <= a /\ a < Size
      /\ b \in Int /\ 0 <= b /\ b < Size
      /\ Size \in Int /\ 0 < Size
  BY SizeAssumption DEF Pos
<1>4. n = IF b < a THEN a - b - 1 ELSE IF a = 0 THEN Size - b - 1 ELSE Size - b
  BY <1>1, <1>2 DEF ContiguousWriteSize
<1>5. n \in 0..Size
  BY <1>3, <1>4
<1>6. Advance(b, n) = IF b + n < Size THEN b + n ELSE b + n - Size
  BY <1>5, AdvanceValue
<1>7. w.rp = a /\ w.wp = Advance(b, n)
  BY <1>2 DEF WriteChunk
<1> HIDE DEF n, w
<1>8. PICK c \in Int : c = w.wp
  BY <1>5, <1>7, AdvanceValue DEF Pos
<1>9. c = IF b < a THEN a - 1 ELSE IF a = 0 THEN Size - 1 ELSE 0
  BY <1>3, <1>4, <1>6, <1>7, <1>8
<1>10. (IF c < a THEN a - c - 1 ELSE IF a = 0 THEN Size - c - 1 ELSE Size - c)
         = (IF c < a THEN a - c - 1 ELSE Size - 1 - c + a)
  BY <1>3, <1>9
<1>11. ContiguousWriteSize(w) = WriteSize(w)
  BY <1>7, <1>8, <1>10 DEF ContiguousWriteSize, WriteSize
<1> QED BY <1>11 DEF w

\* ringbuf_write and ringbuf_writeuio: as many bytes as there is room for are
\* appended, and two passes of the loop are enough.
LEMMA RingWriteAppends ==
    ASSUME NEW r \in Ring, NEW s \in Seq(Byte)
    PROVE  /\ RingWrite(r, s) \in Ring
           /\ WrittenLen(r, s) = Least(Len(s), WriteSize(r))
           /\ Contents(RingWrite(r, s)) = Contents(r) \o SubSeq(s, 1, WrittenLen(r, s))
<1> DEFINE n == WriteLen(r, s)
           w == WriteChunk(r, s)
           s2 == Rest(s, n)
           n2 == WriteLen(w, s2)
<1>1. /\ n \in 0..Len(s) /\ n \in 0..WriteSize(r)
      /\ w \in Ring /\ ReadSize(w) = ReadSize(r) + n
  BY WriteChunkSizes
<1>2. s2 \in Seq(Byte) /\ Len(s2) = Len(s) - n
  BY <1>1 DEF Rest
<1>3. /\ n2 \in 0..Len(s2) /\ n2 \in 0..WriteSize(w)
      /\ RingWrite(r, s) \in Ring
  BY <1>1, <1>2, WriteChunkSizes DEF RingWrite
<1>4. WrittenLen(r, s) = n + n2
  BY DEF WrittenLen
<1>5. WriteSize(w) = WriteSize(r) - n /\ WriteSize(r) \in Nat /\ WriteSize(w) \in Nat
      /\ ContiguousWriteSize(w) \in Nat
  <2>1. /\ ReadSize(r) \in Int /\ WriteSize(r) \in Int /\ WriteSize(w) \in Int
        /\ ReadSize(r) + WriteSize(r) = Size - 1
        /\ 0 <= WriteSize(r) /\ 0 <= WriteSize(w)
    BY <1>1, Sizes, SizeAssumption
  <2>2. ReadSize(w) + WriteSize(w) = Size - 1 /\ ContiguousWriteSize(w) \in Nat
    BY <1>1, Sizes, SizeAssumption
  <2> QED BY <2>1, <2>2, <1>1, SizeAssumption
<1>6. n2 = Least(Len(s2), ContiguousWriteSize(w))
  BY DEF WriteLen
<1>7. WrittenLen(r, s) = Least(Len(s), WriteSize(r))
  <2>1. CASE n = Len(s)
    <3>1. Len(s2) = 0 /\ n2 = 0
      BY <1>2, <1>3, <2>1
    <3> QED BY <1>1, <1>4, <1>5, <3>1, <2>1 DEF Least
  <2>2. CASE n < Len(s)
    <3>1. ContiguousWriteSize(w) = WriteSize(w)
      BY <2>2, SecondPass
    <3>2. n2 = IF Len(s) - n < WriteSize(r) - n THEN Len(s) - n ELSE WriteSize(r) - n
      BY <3>1, <1>2, <1>5, <1>6 DEF Least
    <3> HIDE DEF n, n2
    <3> QED BY <1>1, <1>4, <1>5, <3>2 DEF Least
  <2> QED BY <1>1, <2>1, <2>2
<1>8. Contents(w) = Contents(r) \o SubSeq(s, 1, n)
  BY WriteChunkAppends
<1>9. Contents(RingWrite(r, s)) = Contents(w) \o SubSeq(s2, 1, n2)
  BY <1>1, <1>2, WriteChunkAppends DEF RingWrite
<1>10. SubSeq(s2, 1, n2) = SubSeq(s, n + 1, n + n2)
  <2> HIDE DEF n, n2
  <2>1. n \in Nat /\ n2 \in Nat /\ n + n2 <= Len(s)
    BY <1>1, <1>2, <1>3
  <2> QED BY <2>1 DEF Rest
<1>11. SubSeq(s, 1, n) \o SubSeq(s, n + 1, n + n2) = SubSeq(s, 1, n + n2)
  <2> HIDE DEF n, n2
  <2>1. n \in Nat /\ n2 \in Nat /\ n + n2 <= Len(s)
    BY <1>1, <1>2, <1>3
  <2> QED BY <2>1
<1>12. Contents(RingWrite(r, s)) = Contents(r) \o SubSeq(s, 1, n + n2)
  <2> HIDE DEF n, n2, s2, w
  <2>1. Contents(r) \in Seq(Byte) /\ SubSeq(s, 1, n) \in Seq(Byte)
        /\ SubSeq(s, n + 1, n + n2) \in Seq(Byte)
    BY <1>1, <1>2, <1>3, ContentsType
  <2>2. (Contents(r) \o SubSeq(s, 1, n)) \o SubSeq(s, n + 1, n + n2)
          = Contents(r) \o (SubSeq(s, 1, n) \o SubSeq(s, n + 1, n + n2))
    BY <2>1, Associative
  <2> QED BY <2>2, <1>8, <1>9, <1>10, <1>11
<1> QED BY <1>3, <1>4, <1>7, <1>12

\* A pass of the read loop takes the oldest bytes.
LEMMA ReadChunkTakes ==
    ASSUME NEW r \in Ring, NEW k \in Nat
    PROVE  LET m == Least(k, ContiguousReadSize(r))
           IN  /\ m \in 0..ReadSize(r) /\ m <= k
               /\ ReadChunk(r, k) \in Ring
               /\ ReadBytes(r, k) = SubSeq(Contents(r), 1, m)
               /\ Contents(ReadChunk(r, k)) = SubSeq(Contents(r), m + 1, ReadSize(r))
<1> DEFINE m == Least(k, ContiguousReadSize(r))
           z == ReadSize(r)
           w == ReadChunk(r, k)
<1>1. /\ m \in 0..z /\ m <= k /\ m \in 0..ContiguousReadSize(r)
      /\ z \in 0..Size - 1
  BY Sizes, SizeAssumption DEF Least
<1>2. PICK a \in Pos, b \in Pos : a = r.rp /\ b = r.wp
  BY Sizes
<1>3. z = IF a <= b THEN b - a ELSE Size - a + b
  BY <1>2 DEF ReadSize
<1>4. m <= IF a <= b THEN b - a ELSE Size - a
  BY <1>1, <1>2, Sizes DEF ContiguousReadSize
<1>5. /\ a \in Int /\ 0 <= a /\ a < Size
      /\ b \in Int /\ 0 <= b /\ b < Size
      /\ Size \in Int /\ 0 < Size
      /\ m \in Int /\ 0 <= m /\ m <= z /\ z \in Int /\ z < Size
  BY <1>1, SizeAssumption DEF Pos
<1>6. PICK c \in Pos : c = Advance(a, m)
  BY <1>1, <1>5, AdvanceValue
<1>7. c = (IF a + m < Size THEN a + m ELSE a + m - Size) /\ c \in Int /\ 0 <= c /\ c < Size
  <2> HIDE DEF m, z
  <2>1. m \in 0..Size
    BY <1>5
  <2>2. Advance(a, m) = IF a + m < Size THEN a + m ELSE a + m - Size
    BY <2>1, AdvanceValue
  <2>3. c \in Int /\ 0 <= c /\ c < Size
    BY SizeAssumption DEF Pos
  <2> QED BY <2>2, <2>3, <1>6
<1>8. w.rp = c /\ w.wp = b /\ w.data = r.data /\ w \in Ring
  BY <1>2, <1>6 DEF ReadChunk, Ring
<1>9. ReadSize(w) = z - m
  <2>1. ReadSize(w) = IF c <= b THEN b - c ELSE Size - c + b
    BY <1>8 DEF ReadSize
  <2> HIDE DEF m, z, w
  <2> QED BY <2>1, <1>3, <1>4, <1>5, <1>7
<1>10. /\ Contents(r) \in Seq(Byte) /\ Len(Contents(r)) = z
       /\ \A i \in 1..z : Contents(r)[i] = r.data[Advance(a, i - 1)]
  BY <1>2, ContentsType
<1>11. /\ Contents(w) \in Seq(Byte) /\ Len(Contents(w)) = z - m
       /\ \A i \in 1..z - m : Contents(w)[i] = r.data[Advance(c, i - 1)]
  BY <1>8, <1>9, ContentsType
<1>12. ASSUME NEW i \in 1..m
       PROVE  Contents(r)[i] = r.data[a + i - 1]
  <2> HIDE DEF m, z
  <2>1. i \in Int /\ 1 <= i /\ i <= m /\ i \in 1..z /\ i - 1 \in 0..Size
    BY <1>5
  <2>2. a + (i - 1) < Size
    BY <2>1, <1>4, <1>5
  <2>3. Advance(a, i - 1) = a + i - 1
    BY <2>1, <2>2, <1>5, AdvanceValue
  <2> QED BY <2>1, <2>3, <1>10
<1>13. ReadBytes(r, k) = SubSeq(Contents(r), 1, m)
  <2>1. ReadBytes(r, k) = [i \in 1..m |-> Contents(r)[i]]
    BY <1>2, <1>12 DEF ReadBytes
  <2> HIDE DEF m, z
  <2> QED BY <2>1, <1>5, <1>10
<1>14. ASSUME NEW i \in 1..z - m
       PROVE  Contents(w)[i] = Contents(r)[i + m]
  <2> HIDE DEF m, z
  <2>1. /\ i \in Int /\ 1 <= i /\ i <= z - m /\ i + m \in 1..z
        /\ i - 1 \in 0..Size /\ i + m - 1 \in 0..Size
    BY <1>5
  <2>2. Advance(c, i - 1) = IF c + (i - 1) < Size THEN c + (i - 1) ELSE c + (i - 1) - Size
    BY <2>1, <1>6, AdvanceValue
  <2>3. Advance(a, i + m - 1) = IF a + (i + m - 1) < Size THEN a + (i + m - 1)
                                ELSE a + (i + m - 1) - Size
    BY <2>1, AdvanceValue
  <2>4. Advance(c, i - 1) = Advance(a, i + m - 1)
    BY <2>1, <2>2, <2>3, <1>5, <1>7
  <2>5. Contents(r)[i + m] = r.data[Advance(a, (i + m) - 1)]
    BY <2>1, <1>10
  <2>6. Contents(w)[i] = r.data[Advance(c, i - 1)]
    BY <1>11
  <2>7. (i + m) - 1 = i + m - 1
    BY <2>1, <1>5
  <2> QED BY <2>4, <2>5, <2>6, <2>7
<1> HIDE DEF m, z, w
<1>15. Contents(w) = SubSeq(Contents(r), m + 1, z)
  <2>1. /\ SubSeq(Contents(r), m + 1, z) \in Seq(Byte)
        /\ Len(SubSeq(Contents(r), m + 1, z)) = z - m
    BY <1>5, <1>10
  <2>2. \A i \in 1..z - m : SubSeq(Contents(r), m + 1, z)[i] = Contents(r)[i + m]
    BY <1>5, <1>10
  <2>3. \A i \in 1..z - m : Contents(w)[i] = SubSeq(Contents(r), m + 1, z)[i]
    BY <2>2, <1>14
  <2>4. z - m \in Nat
    BY <1>5
  <2> DEFINE x == Contents(w)
             y == SubSeq(Contents(r), m + 1, z)
  <2>5. x = [i \in 1..z - m |-> x[i]] /\ y = [i \in 1..z - m |-> y[i]]
    BY <2>1, <2>4, <1>11
  <2> QED BY <2>3, <2>5
<1> QED BY <1>1, <1>8, <1>13, <1>15 DEF m, z, w

\* ringbuf_read and ringbuf_readuio: as many of the oldest bytes as there are
\* and as the caller asks for are returned and taken.
LEMMA RingReadTakes ==
    ASSUME NEW r \in Ring, NEW k \in Nat
    PROVE  LET m == Least(k, ReadSize(r))
           IN  /\ m \in 0..ReadSize(r)
               /\ RingRead(r, k) \in Ring
               /\ RingReadBytes(r, k) = SubSeq(Contents(r), 1, m)
               /\ Contents(RingRead(r, k)) = SubSeq(Contents(r), m + 1, ReadSize(r))
<1> DEFINE m1 == Least(k, ContiguousReadSize(r))
           w == ReadChunk(r, k)
           k2 == k - m1
           m2 == Least(k2, ContiguousReadSize(w))
           z == ReadSize(r)
           x == Contents(r)
<1>1. /\ m1 \in 0..z /\ m1 <= k /\ w \in Ring
      /\ ReadBytes(r, k) = SubSeq(x, 1, m1)
      /\ Contents(w) = SubSeq(x, m1 + 1, z)
  BY ReadChunkTakes
<1>2. x \in Seq(Byte) /\ Len(x) = z /\ z \in Nat
  BY ContentsType, Sizes, SizeAssumption
<1>3. ReadSize(w) = z - m1 /\ Len(Contents(w)) = z - m1
  BY <1>1, <1>2, ContentsType
<1>4. k2 \in Nat
  BY <1>1
<1>5. /\ m2 \in 0..ReadSize(w) /\ m2 <= k2
      /\ ReadChunk(w, k2) \in Ring
      /\ ReadBytes(w, k2) = SubSeq(Contents(w), 1, m2)
      /\ Contents(ReadChunk(w, k2)) = SubSeq(Contents(w), m2 + 1, ReadSize(w))
  BY <1>1, <1>4, ReadChunkTakes
<1>6. m1 + m2 = Least(k, z)
  <2>1. CASE m1 = k
    <3>1. k2 = 0 /\ m2 = 0
      BY <2>1, <1>1, <1>3, <1>5
    <3> QED BY <3>1, <2>1, <1>1, <1>2 DEF Least
  <2>2. CASE m1 < k
    <3>1. m1 = ContiguousReadSize(r)
      BY <2>2 DEF Least
    <3>2. ContiguousReadSize(w) = ReadSize(w)
      <4>1. PICK a \in Pos, b \in Pos : a = r.rp /\ b = r.wp
        BY Sizes
      <4>2. m1 = IF a <= b THEN b - a ELSE Size - a
        BY <3>1, <4>1 DEF ContiguousReadSize
      <4>3. /\ a \in Int /\ 0 <= a /\ a < Size /\ b \in Int /\ 0 <= b /\ b < Size
            /\ Size \in Int
        BY SizeAssumption DEF Pos
      <4>4. m1 \in 0..Size
        BY <4>2, <4>3
      <4>5. Advance(a, m1) = IF a + m1 < Size THEN a + m1 ELSE a + m1 - Size
        BY <4>4, AdvanceValue
      <4>6. w.rp = Advance(a, m1) /\ w.wp = b
        BY <4>1 DEF ReadChunk, Ring
      <4> HIDE DEF m1, w
      <4>7. w.rp = (IF a <= b THEN b ELSE 0) /\ w.rp <= w.wp
        BY <4>2, <4>3, <4>5, <4>6
      <4> QED BY <4>7 DEF ContiguousReadSize, ReadSize
    <3>3. m2 = Least(k - m1, z - m1)
      BY <3>2, <1>3
    <3> HIDE DEF m1, m2
    <3> QED BY <3>3, <1>1, <1>2 DEF Least
  <2> QED BY <1>1, <2>1, <2>2
<1> HIDE DEF m1, m2, w, k2, z, x
<1>7. m1 \in Nat /\ m2 \in Nat /\ m1 + m2 <= z
  BY <1>1, <1>2, <1>3, <1>5
<1>8. SubSeq(SubSeq(x, m1 + 1, z), 1, m2) = SubSeq(x, m1 + 1, m1 + m2)
  BY <1>2, <1>7
<1>9. SubSeq(x, 1, m1) \o SubSeq(x, m1 + 1, m1 + m2) = SubSeq(x, 1, m1 + m2)
  BY <1>2, <1>7
<1>10. SubSeq(SubSeq(x, m1 + 1, z), m2 + 1, z - m1) = SubSeq(x, m1 + m2 + 1, z)
  BY <1>2, <1>7
<1>11. RingReadBytes(r, k) = SubSeq(x, 1, m1 + m2)
  BY <1>1, <1>5, <1>8, <1>9 DEF RingReadBytes, m1, w, k2
<1>12. RingRead(r, k) \in Ring /\ Contents(RingRead(r, k)) = SubSeq(x, m1 + m2 + 1, z)
  BY <1>1, <1>3, <1>5, <1>10 DEF RingRead, m1, w, k2
<1>13. Least(k, z) \in 0..z
  BY <1>6, <1>7, <1>2
<1> QED BY <1>6, <1>11, <1>12, <1>13 DEF x, z

-----------------------------------------------------------------------------
\* The requests are sequences of bytes.
LEMMA RequestType == Request \subseteq Seq(Byte)
BY MaxRequestAssumption DEF Request

\* ringbuf_init starts with both positions inside the buffer.
LEMMA TypeInit == Init => TypeOK
BY SizeAssumption DEF Init, TypeOK, Empty, Ring, Pos

\* A peek puts read_pos back: the buffer is what it was.
LEMMA PeekKeeps ==
    ASSUME NEW r \in Ring, NEW k \in Nat
    PROVE  RingPeek(r, k) = r
BY DEF RingPeek, RingRead, ReadChunk, Ring

\* A write, a read and a peek leave the positions inside the buffer.
LEMMA TypeStep == TypeOK /\ [Next]_vars => TypeOK'
<1> SUFFICES ASSUME TypeOK, [Next]_vars PROVE TypeOK'
  OBVIOUS
<1>1. rb \in Ring
  BY DEF TypeOK
<1>2. ASSUME NEW n \in 0..MaxRequest PROVE RingReadBytes(rb, n) \in Seq(Byte)
  <2>1. n \in Nat
    BY MaxRequestAssumption
  <2>2. /\ RingReadBytes(rb, n) = SubSeq(Contents(rb), 1, Least(n, ReadSize(rb)))
        /\ Least(n, ReadSize(rb)) \in 0..ReadSize(rb)
    BY <1>1, <2>1, RingReadTakes
  <2> QED BY <1>1, <2>2, ContentsType
<1>3. ASSUME NEW s \in Request, Write(s) PROVE TypeOK'
  BY <1>1, <1>3, RequestType, RingWriteAppends DEF Write, TypeOK
<1>4. ASSUME NEW n \in 0..MaxRequest, Read(n) PROVE TypeOK'
  <2>1. n \in Nat
    BY MaxRequestAssumption
  <2> QED BY <1>1, <1>2, <1>4, <2>1, RingReadTakes DEF Read, TypeOK
<1>5. ASSUME NEW n \in 0..MaxRequest, Peek(n) PROVE TypeOK'
  <2>1. n \in Nat
    BY MaxRequestAssumption
  <2> QED BY <1>1, <1>2, <1>5, <2>1, PeekKeeps DEF Peek, TypeOK
<1>6. CASE UNCHANGED vars
  BY <1>6 DEF vars, TypeOK
<1> QED BY <1>3, <1>4, <1>5, <1>6 DEF Next

\* The positions of a ring buffer stay inside it (ringbuf_advance_write and
\* ringbuf_advance_read).
THEOREM RingTypeOK == Spec => []TypeOK
BY TypeInit, TypeStep, PTL DEF Spec

\* ringbuf_read_size and ringbuf_write_size always add up, and the loops of
\* ringbuf_write and ringbuf_read move all that there is room for.
THEOREM RingSizesAgree == Spec => []SizesAgree
<1>1. TypeOK => SizesAgree
  <2> SUFFICES ASSUME TypeOK PROVE SizesAgree
    OBVIOUS
  <2>1. rb \in Ring
    BY DEF TypeOK
  <2>2. \A s \in Request : WrittenLen(rb, s) = Least(Len(s), WriteSize(rb))
    BY <2>1, RequestType, RingWriteAppends
  <2>3. ASSUME NEW n \in 0..MaxRequest
        PROVE  Len(RingReadBytes(rb, n)) = Least(n, ReadSize(rb))
    <3>1. n \in Nat
      BY MaxRequestAssumption
    <3>2. /\ RingReadBytes(rb, n) = SubSeq(Contents(rb), 1, Least(n, ReadSize(rb)))
          /\ Least(n, ReadSize(rb)) \in 0..ReadSize(rb)
      BY <2>1, <3>1, RingReadTakes
    <3> QED BY <2>1, <3>2, ContentsType
  <2> QED BY <2>1, <2>2, <2>3, Sizes DEF SizesAgree
<1> QED BY <1>1, RingTypeOK, PTL

\* A ring buffer that ringbuf_init has set up is empty.
LEMMA FifoInit == Init => Fifo!Init
<1> SUFFICES ASSUME NEW data \in [Pos -> Byte], rb = Empty(data)
             PROVE  Contents(rb) = <<>>
  BY DEF Init, Fifo!Init
<1>1. ReadSize(rb) = 0
  BY DEF Empty, ReadSize
<1> QED BY <1>1 DEF Contents

\* A write puts in the first bytes of its request, a read gets and a peek looks
\* at the oldest bytes.
LEMMA FifoStep == TypeOK /\ [Next]_vars => [Fifo!Next]_<<Contents(rb), out>>
<1> SUFFICES ASSUME TypeOK, [Next]_vars
             PROVE  Fifo!Next \/ UNCHANGED <<Contents(rb), out>>
  OBVIOUS
<1>1. rb \in Ring
  BY DEF TypeOK
<1>2. /\ Contents(rb) \in Seq(Byte) /\ Len(Contents(rb)) = ReadSize(rb)
      /\ ReadSize(rb) \in 0..Size - 1 /\ WriteSize(rb) \in 0..Size - 1
      /\ ReadSize(rb) + WriteSize(rb) = Size - 1
  BY <1>1, ContentsType, Sizes
<1>3. ASSUME NEW s \in Request, Write(s) PROVE Fifo!Next
  <2> DEFINE n == WrittenLen(rb, s)
  <2>1. s \in Seq(Byte)
    BY RequestType
  <2>2. /\ n = Least(Len(s), WriteSize(rb))
        /\ Contents(rb') = Contents(rb) \o SubSeq(s, 1, n)
    BY <1>1, <1>3, <2>1, RingWriteAppends DEF Write
  <2>3. n \in 0..Size - 1 /\ n <= WriteSize(rb) /\ n <= Len(s)
    BY <1>2, <2>1, <2>2 DEF Least
  <2>4. SubSeq(s, 1, n) \in [1..n -> Byte] /\ Len(SubSeq(s, 1, n)) = n
    <3> HIDE DEF n
    <3>1. n \in Nat /\ n <= Len(s)
      BY <2>3
    <3>2. SubSeq(s, 1, n) \in Seq(Byte) /\ Len(SubSeq(s, 1, n)) = n
      BY <2>1, <3>1
    <3> QED BY <3>2, LenProperties
  <2>5. Fifo!Put(SubSeq(s, 1, n))
    BY <1>2, <1>3, <2>2, <2>3, <2>4, SizeAssumption DEF Fifo!Put, Write
  <2> QED BY <2>3, <2>4, <2>5 DEF Fifo!Next
<1>4. ASSUME NEW n \in 0..MaxRequest, Read(n) PROVE Fifo!Next
  <2> DEFINE m == Least(n, ReadSize(rb))
  <2>1. n \in Nat
    BY MaxRequestAssumption
  <2>2. /\ m \in 0..ReadSize(rb)
        /\ Contents(rb') = SubSeq(Contents(rb), m + 1, ReadSize(rb))
        /\ out' = SubSeq(Contents(rb), 1, m)
    BY <1>1, <1>4, <2>1, RingReadTakes DEF Read
  <2>3. m \in 0..Size - 1 /\ Fifo!Get(m)
    BY <1>2, <2>2, SizeAssumption DEF Fifo!Get
  <2> QED BY <2>3 DEF Fifo!Next
<1>5. ASSUME NEW n \in 0..MaxRequest, Peek(n) PROVE Fifo!Next
  <2> DEFINE m == Least(n, ReadSize(rb))
  <2>1. n \in Nat
    BY MaxRequestAssumption
  <2>2. m \in 0..ReadSize(rb) /\ out' = SubSeq(Contents(rb), 1, m)
    BY <1>1, <1>5, <2>1, RingReadTakes DEF Peek
  <2>3. Contents(rb') = Contents(rb)
    BY <1>1, <1>5, <2>1, PeekKeeps DEF Peek
  <2>4. m \in 0..Size - 1 /\ Fifo!Look(m)
    BY <1>2, <2>2, <2>3, SizeAssumption DEF Fifo!Look
  <2> QED BY <2>4 DEF Fifo!Next
<1>6. CASE UNCHANGED vars
  BY <1>6 DEF vars, Contents, ReadSize
<1> QED BY <1>3, <1>4, <1>5, <1>6 DEF Next

\* For every size, a ring buffer (ringbuf_write, ringbuf_read, ringbuf_peek) is
\* a bounded first-in first-out buffer.
THEOREM RingImplementsFifo == Spec => ImplementsFifo
BY FifoInit, FifoStep, RingTypeOK, PTL DEF Spec, ImplementsFifo, Fifo!Spec
=============================================================================
