------------------------------ MODULE RingFifo ------------------------------
(* A ring buffer of kern/ringbuf.c that is written, read and peeked at, as   *)
(* an implementation of a bounded first-in first-out buffer.                 *)
EXTENDS RingBuf

CONSTANT MaxRequest     \* bound: the longest request

ASSUME MaxRequestAssumption == MaxRequest \in Nat

VARIABLES
    rb,     \* the ring buffer
    out     \* the bytes that the last call returned

vars == <<rb, out>>

Request == UNION {[1..n -> Byte] : n \in 0..MaxRequest}

TypeOK == rb \in Ring /\ out \in Seq(Byte)

Init ==
    /\ \E data \in [Pos -> Byte] : rb = Empty(data)
    /\ out = <<>>

Write(s) == rb' = RingWrite(rb, s) /\ out' = <<>>

Read(n) == rb' = RingRead(rb, n) /\ out' = RingReadBytes(rb, n)

Peek(n) == rb' = RingPeek(rb, n) /\ out' = RingReadBytes(rb, n)

Next ==
    \/ \E s \in Request : Write(s)
    \/ \E n \in 0..MaxRequest : Read(n) \/ Peek(n)

Spec == Init /\ [][Next]_vars

-----------------------------------------------------------------------------
\* The two sizes that ringbuf.c computes separately fit together, and the loops
\* of the read and write functions end only when they have done all they can.
SizesAgree ==
    /\ ReadSize(rb) + WriteSize(rb) = Size - 1
    /\ \A s \in Request : WrittenLen(rb, s) = Least(Len(s), WriteSize(rb))
    /\ \A n \in 0..MaxRequest : Len(RingReadBytes(rb, n)) = Least(n, ReadSize(rb))

Fifo == INSTANCE BoundedFifo WITH buf <- Contents(rb), Capacity <- Size - 1

\* Whatever wraps around in the ring buffer, it is a bounded first-in first-out
\* buffer: a read takes and returns the oldest bytes, a peek returns them and
\* takes nothing, and no byte is lost or overwritten.
ImplementsFifo == Fifo!Spec
=============================================================================
