---------------------------- MODULE QueueProofs -----------------------------
(* What Append, Tail and Unqueue do to a queue without repetition, for the   *)
(* proofs about the locks: a queue is exact when it holds each member of a   *)
(* set once and nothing else.                                                *)
EXTENDS Queues, SequenceTheorems, TLAPS

Exact(q, S) ==
    /\ \A i, j \in 1..Len(q) : q[i] = q[j] => i = j
    /\ \A x : x \in S <=> \E i \in 1..Len(q) : q[i] = x

\* Taking an element off a queue leaves a queue: the one element shorter sequence
\* without it, or the same sequence when it is not on it.
LEMMA UnqueueShape ==
  ASSUME NEW T, NEW q \in Seq(T), NEW t
  PROVE  /\ Unqueue(q, t) \in Seq(T)
         /\ \/ Unqueue(q, t) = q /\ \A k \in 1..Len(q) : q[k] # t
            \/ \E i \in 1..Len(q) :
                  /\ q[i] = t
                  /\ Len(Unqueue(q, t)) = Len(q) - 1
                  /\ \A k \in 1..Len(q) - 1 :
                        Unqueue(q, t)[k] = IF k < i THEN q[k] ELSE q[k + 1]
<1>1. CASE Positions(q, t) = {}
  BY <1>1 DEF Unqueue, Positions
<1>2. CASE Positions(q, t) # {}
  <2> DEFINE i == CHOOSE i \in Positions(q, t) : TRUE
             a == SubSeq(q, 1, i - 1)
             b == SubSeq(q, i + 1, Len(q))
  <2>1. i \in 1..Len(q) /\ q[i] = t
    BY <1>2 DEF Positions
  <2>2. Unqueue(q, t) = a \o b
    BY <1>2 DEF Unqueue
  <2> HIDE DEF i
  <2>3. Len(q) \in Nat
    BY LenProperties
  <2>4. /\ a \in Seq(T) /\ Len(a) = i - 1
        /\ \A k \in 1..i - 1 : a[k] = q[k]
    BY <2>1, <2>3, SubSeqProperties, ElementOfSeq
  <2>5. /\ b \in Seq(T) /\ Len(b) = Len(q) - i
        /\ \A k \in 1..Len(q) - i : b[k] = q[i + k]
    BY <2>1, <2>3, SubSeqProperties, ElementOfSeq
  <2> HIDE DEF a, b
  <2>6. /\ a \o b \in Seq(T) /\ Len(a \o b) = Len(q) - 1
        /\ \A k \in 1..Len(q) - 1 :
              (a \o b)[k] = IF k < i THEN q[k] ELSE q[k + 1]
    <3>1. /\ a \o b \in Seq(T) /\ Len(a \o b) = Len(a) + Len(b)
          /\ \A k \in 1..Len(a) + Len(b) :
                (a \o b)[k] = IF k <= Len(a) THEN a[k] ELSE b[k - Len(a)]
      BY <2>4, <2>5, ConcatProperties
    <3>2. ASSUME NEW k \in 1..Len(q) - 1, k < i PROVE (a \o b)[k] = q[k]
      BY <2>1, <2>3, <2>4, <2>5, <3>1, <3>2
    <3>3. ASSUME NEW k \in 1..Len(q) - 1, ~(k < i) PROVE (a \o b)[k] = q[k + 1]
      <4>1. k - (i - 1) \in 1..Len(q) - i /\ i + (k - (i - 1)) = k + 1
        BY <2>1, <2>3, <3>3
      <4>2. (a \o b)[k] = b[k - (i - 1)]
        BY <2>1, <2>3, <2>4, <2>5, <3>1, <3>3
      <4> QED BY <2>5, <4>1, <4>2
    <3>4. Len(a \o b) = Len(q) - 1
      BY <2>1, <2>3, <2>4, <2>5, <3>1
    <3>5. \A k \in 1..Len(q) - 1 :
            (a \o b)[k] = IF k < i THEN q[k] ELSE q[k + 1]
      BY <3>2, <3>3
    <3> QED BY <3>1, <3>4, <3>5
  <2> QED BY <2>1, <2>2, <2>6
<1> QED BY <1>1, <1>2

\* A queue is empty exactly when nobody is on it.
LEMMA EmptyExact ==
  ASSUME NEW T, NEW q \in Seq(T), NEW S, Exact(q, S)
  PROVE  q = <<>> <=> S = {}
<1>1. CASE q = <<>>
  <2>1. 1..Len(q) = {}
    BY <1>1
  <2> QED BY <1>1, <2>1 DEF Exact
<1>2. CASE q # <<>>
  <2>1. 1 \in 1..Len(q)
    BY <1>2
  <2>2. q[1] \in S
    BY <2>1 DEF Exact
  <2> QED BY <1>2, <2>2
<1> QED BY <1>1, <1>2

\* TAILQ_INSERT_TAIL of an element that is not on the queue.
LEMMA AppendExact ==
  ASSUME NEW T, NEW q \in Seq(T), NEW S, Exact(q, S), NEW t \in T, t \notin S
  PROVE  /\ Append(q, t) \in Seq(T)
         /\ Exact(Append(q, t), S \cup {t})
<1> DEFINE n == Len(q)
           r == Append(q, t)
<1>1. /\ r \in Seq(T) /\ n \in Nat /\ Len(r) = n + 1 /\ r[n + 1] = t
      /\ \A i \in 1..n : r[i] = q[i]
  BY AppendProperties, LenProperties
<1>2. \A i \in 1..n : q[i] # t
  BY DEF Exact
<1> HIDE DEF n, r
<1>3. \A i, j \in 1..n + 1 : r[i] = r[j] => i = j
  BY <1>1, <1>2 DEF Exact, n
<1>4. ASSUME NEW x PROVE x \in S \cup {t} <=> \E i \in 1..n + 1 : r[i] = x
  <2>1. (\E i \in 1..n + 1 : r[i] = x) <=> x = t \/ \E i \in 1..n : q[i] = x
    BY <1>1
  <2> QED BY <2>1 DEF Exact, n
<1> QED BY <1>1, <1>3, <1>4 DEF Exact, r

\* TAILQ_REMOVE of the first element.
LEMMA TailExact ==
  ASSUME NEW T, NEW q \in Seq(T), NEW S, Exact(q, S), q # <<>>
  PROVE  /\ Head(q) \in T /\ Head(q) \in S /\ Tail(q) \in Seq(T)
         /\ Exact(Tail(q), S \ {Head(q)})
<1> DEFINE n == Len(q)
           r == Tail(q)
           h == Head(q)
<1>1. n \in Nat \ {0} /\ h = q[1] /\ h \in T /\ r \in Seq(T) /\ Len(r) = n - 1
      /\ \A i \in 1..n - 1 : r[i] = q[i + 1]
  <2>1. n \in Nat \ {0} /\ h = q[1]
    OBVIOUS
  <2>2. /\ h \in T /\ r \in Seq(T) /\ Len(r) = n - 1
        /\ \A i \in 1..Len(r) : r[i] = q[i + 1]
    BY HeadTailProperties
  <2> QED BY <2>1, <2>2
<1> HIDE DEF n, r, h
<1>2. h \in S
  BY <1>1 DEF Exact, n
<1>3. \A i, j \in 1..n - 1 : r[i] = r[j] => i = j
  <2> SUFFICES ASSUME NEW i \in 1..n - 1, NEW j \in 1..n - 1, r[i] = r[j] PROVE i = j
    OBVIOUS
  <2>1. i + 1 \in 1..n /\ j + 1 \in 1..n /\ q[i + 1] = q[j + 1]
    BY <1>1
  <2> QED BY <2>1 DEF Exact, n
<1>4. ASSUME NEW i \in 1..n - 1 PROVE r[i] \in S \ {h}
  <2>1. i + 1 \in 1..n /\ 1 \in 1..n /\ i + 1 # 1 /\ r[i] = q[i + 1]
    BY <1>1
  <2> QED BY <1>1, <2>1 DEF Exact, n
<1>5. ASSUME NEW x \in S \ {h} PROVE \E i \in 1..n - 1 : r[i] = x
  <2>1. PICK j \in 1..n : q[j] = x
    BY DEF Exact, n
  <2>2. j - 1 \in 1..n - 1 /\ (j - 1) + 1 = j
    BY <1>1, <2>1
  <2> QED BY <1>1, <2>1, <2>2
<1> QED BY <1>1, <1>2, <1>3, <1>4, <1>5 DEF Exact, r, h

\* TAILQ_REMOVE of an element anywhere on the queue, or on no queue.
LEMMA UnqueueExact ==
  ASSUME NEW T, NEW q \in Seq(T), NEW S, Exact(q, S), NEW t
  PROVE  /\ Unqueue(q, t) \in Seq(T)
         /\ Exact(Unqueue(q, t), S \ {t})
<1> DEFINE n == Len(q)
           r == Unqueue(q, t)
<1>0. n \in Nat /\ r \in Seq(T)
  BY LenProperties, UnqueueShape
<1>1. ASSUME r = q, \A k \in 1..n : q[k] # t PROVE Exact(r, S \ {t})
  BY <1>1 DEF Exact
<1>2. ASSUME NEW i \in 1..n, q[i] = t, Len(r) = n - 1,
             \A k \in 1..n - 1 : r[k] = IF k < i THEN q[k] ELSE q[k + 1]
      PROVE  Exact(r, S \ {t})
  <2> HIDE DEF n, r
  <2> DEFINE at(k) == IF k < i THEN k ELSE k + 1
  <2>1. \A k \in 1..n - 1 : at(k) \in 1..n /\ at(k) # i /\ r[k] = q[at(k)]
    BY <1>0, <1>2
  <2>2. \A j, k \in 1..n - 1 : at(j) = at(k) => j = k
    BY <1>0
  <2>3. \A m \in 1..n : m # i => \E k \in 1..n - 1 : at(k) = m
    <3> SUFFICES ASSUME NEW m \in 1..n, m # i PROVE \E k \in 1..n - 1 : at(k) = m
      OBVIOUS
    <3>1. CASE m < i
      <4>1. m \in 1..n - 1 /\ at(m) = m
        BY <1>0, <3>1
      <4> QED BY <4>1
    <3>2. CASE m > i
      <4>1. m - 1 \in 1..n - 1 /\ at(m - 1) = m
        BY <1>0, <3>2
      <4> QED BY <4>1
    <3> QED BY <1>0, <3>1, <3>2
  <2> HIDE DEF at
  <2>4. \A j, k \in 1..n - 1 : r[j] = r[k] => j = k
    BY <2>1, <2>2 DEF Exact, n
  <2>5. ASSUME NEW k \in 1..n - 1 PROVE r[k] \in S \ {t}
    BY <1>2, <2>1 DEF Exact, n
  <2>6. ASSUME NEW x \in S \ {t} PROVE \E k \in 1..n - 1 : r[k] = x
    <3>1. PICK m \in 1..n : q[m] = x
      BY DEF Exact, n
    <3>2. PICK k \in 1..n - 1 : at(k) = m
      BY <1>2, <2>3, <3>1
    <3> QED BY <2>1, <3>1, <3>2
  <2> QED BY <1>2, <2>4, <2>5, <2>6 DEF Exact
<1>3. \/ r = q /\ \A k \in 1..n : q[k] # t
      \/ \E i \in 1..n :
            /\ q[i] = t /\ Len(r) = n - 1
            /\ \A k \in 1..n - 1 : r[k] = IF k < i THEN q[k] ELSE q[k + 1]
  BY UnqueueShape
<1>4. Exact(r, S \ {t})
  <2> HIDE DEF n, r
  <2> QED BY <1>1, <1>2, <1>3
<1> QED BY <1>0, <1>4
=============================================================================
