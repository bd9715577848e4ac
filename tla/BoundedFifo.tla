---------------------------- MODULE BoundedFifo -----------------------------
(* What a byte buffer between two sides promises: bytes come out in the      *)
(* order in which they went in, none is lost or made up, and no more than    *)
(* Capacity of them are stored.                                              *)
EXTENDS Integers, Sequences

CONSTANTS Byte, Capacity

VARIABLES
    buf,    \* the bytes stored, the oldest first
    out     \* the bytes that the last call returned

Init == buf = <<>> /\ out = <<>>

Put(s) ==
    /\ Len(buf) + Len(s) <= Capacity
    /\ buf' = buf \o s
    /\ out' = <<>>

Look(n) ==
    /\ n <= Len(buf)
    /\ out' = SubSeq(buf, 1, n)
    /\ UNCHANGED buf

Get(n) ==
    /\ n <= Len(buf)
    /\ out' = SubSeq(buf, 1, n)
    /\ buf' = SubSeq(buf, n + 1, Len(buf))

Next ==
    \E n \in 0..Capacity :
        \/ \E s \in [1..n -> Byte] : Put(s)
        \/ Look(n)
        \/ Get(n)

Spec == Init /\ [][Next]_<<buf, out>>
=============================================================================
