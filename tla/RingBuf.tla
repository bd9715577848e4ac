------------------------------ MODULE RingBuf -------------------------------
(* The ring buffer of kern/ringbuf.c, under every pipe, terminal and stream  *)
(* socket.  A buffer is a record: its bytes, read_pos and write_pos.  One    *)
(* byte stays free, so that equal positions mean an empty buffer.            *)
EXTENDS Integers, Sequences

CONSTANTS
    Size,   \* ringbuf->size
    Byte

ASSUME SizeAssumption == Size \in Nat \ {0}

Pos == 0..Size - 1
Ring == [data : [Pos -> Byte], rp : Pos, wp : Pos]

\* ringbuf_init; vmalloc leaves any bytes
Empty(data) == [data |-> data, rp |-> 0, wp |-> 0]

WriteSize(r) ==
    IF r.wp < r.rp THEN r.rp - r.wp - 1 ELSE Size - 1 - r.wp + r.rp

ContiguousWriteSize(r) ==
    IF r.wp < r.rp THEN r.rp - r.wp - 1
    ELSE IF r.rp = 0 THEN Size - r.wp - 1
    ELSE Size - r.wp

ReadSize(r) ==
    IF r.rp <= r.wp THEN r.wp - r.rp ELSE Size - r.rp + r.wp

ContiguousReadSize(r) ==
    IF r.rp <= r.wp THEN r.wp - r.rp ELSE Size - r.rp

Least(a, b) == IF a < b THEN a ELSE b

\* Where a position lands n bytes on, 0 <= n <= Size.
Advance(p, n) == (p + n) % Size

-----------------------------------------------------------------------------
\* One pass of the loop of ringbuf_write and ringbuf_writeuio, and the number
\* of bytes it moves.
WriteLen(r, s) == Least(Len(s), ContiguousWriteSize(r))

WriteChunk(r, s) ==
    LET n == WriteLen(r, s)
    IN  [data |-> [i \in Pos |-> IF r.wp <= i /\ i < r.wp + n
                                 THEN s[i - r.wp + 1] ELSE r.data[i]],
         rp |-> r.rp,
         wp |-> Advance(r.wp, n)]

Rest(s, n) == SubSeq(s, n + 1, Len(s))

\* The whole loop: the second pass starts at 0, the third finds no room.
RingWrite(r, s) == WriteChunk(WriteChunk(r, s), Rest(s, WriteLen(r, s)))

\* Variant: the requested size is returned.
WrittenLenAll(r, s) == Len(s)

WrittenLen(r, s) ==
    WriteLen(r, s) + WriteLen(WriteChunk(r, s), Rest(s, WriteLen(r, s)))

\* One pass of the loop of ringbuf_read and ringbuf_readuio.
ReadChunk(r, n) == [r EXCEPT !.rp = Advance(@, Least(n, ContiguousReadSize(r)))]

\* Variant: the read starts one byte late.
ReadBytesLate(r, n) ==
    [i \in 1..Least(n, ContiguousReadSize(r)) |-> r.data[Advance(r.rp, i)]]

\* The bytes that pass returns.
ReadBytes(r, n) ==
    [i \in 1..Least(n, ContiguousReadSize(r)) |-> r.data[r.rp + i - 1]]

RingRead(r, n) ==
    LET m == Least(n, ContiguousReadSize(r))
    IN  ReadChunk(ReadChunk(r, n), n - m)

RingReadBytes(r, n) ==
    LET m == Least(n, ContiguousReadSize(r))
    IN  ReadBytes(r, n) \o ReadBytes(ReadChunk(r, n), n - m)

\* ringbuf_peek, ringbuf_peekuio: read_pos is put back.
RingPeek(r, n) == [RingRead(r, n) EXCEPT !.rp = r.rp]

\* The bytes stored, the oldest first.
Contents(r) == [i \in 1..ReadSize(r) |-> r.data[Advance(r.rp, i - 1)]]
=============================================================================
