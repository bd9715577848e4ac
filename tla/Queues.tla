------------------------------- MODULE Queues -------------------------------
(* The tail queues of sys/queue.h as sequences without repetition: the two   *)
(* operations the kernel needs beyond Head, Tail and Append.                 *)
EXTENDS Integers, Sequences

Positions(q, x) == {i \in 1..Len(q) : q[i] = x}

\* TAILQ_REMOVE, of an element that may also be on no queue.
Unqueue(q, x) ==
    IF Positions(q, x) = {} THEN q
    ELSE LET i == CHOOSE i \in Positions(q, x) : TRUE
         IN  SubSeq(q, 1, i - 1) \o SubSeq(q, i + 1, Len(q))

\* TAILQ_INSERT_BEFORE the first element of a higher rank than x, else at the
\* tail: the order stays sorted, first come first served among equals.
InsertSorted(q, x, rank) ==
    LET n == CHOOSE n \in 0..Len(q) :
                /\ \A i \in 1..n : rank[q[i]] <= rank[x]
                /\ n = Len(q) \/ rank[x] < rank[q[n + 1]]
    IN  SubSeq(q, 1, n) \o <<x>> \o SubSeq(q, n + 1, Len(q))
=============================================================================
