--------------------------- MODULE PthreadBarrier ---------------------------
(* The barrier of lib/libpthread/src/barrier.c, for as many threads as its   *)
(* count, which meet there again and again.                                  *)
EXTENDS Naturals, FiniteSets

CONSTANTS
    Thread,
    MaxRounds   \* bound: calls of pthread_barrier_wait of a thread

VARIABLES
    value,      \* barrier->value
    revision,   \* barrier->revision
    pc,         \* where a thread is in pthread_barrier_wait
    seen,       \* its local "revision"
    round,      \* how many of its calls have returned
    serial      \* how many of the calls of a round returned PTHREAD_BARRIER_SERIAL_THREAD

vars == <<value, revision, pc, seen, round, serial>>

Count == Cardinality(Thread)    \* barrier->count

\* pthread_barrier_init
Init ==
    /\ value = 0
    /\ revision = 0
    /\ pc = [t \in Thread |-> "out"]
    /\ seen = [t \in Thread |-> 0]
    /\ round = [t \in Thread |-> 0]
    /\ serial = [r \in 1..MaxRounds |-> 0]

Goto(t, l) == pc' = [pc EXCEPT ![t] = l]
Return(t) == Goto(t, "out") /\ round' = [round EXCEPT ![t] = @ + 1]

-----------------------------------------------------------------------------
\* pthread_barrier_wait: the load of the revision
Enter(t) ==
    /\ pc[t] = "out"
    /\ round[t] < MaxRounds
    /\ seen' = [seen EXCEPT ![t] = revision]
    /\ Goto(t, "add")
    /\ UNCHANGED <<value, revision, round, serial>>

\* The last thread to come releases the others.
Add(t) ==
    /\ pc[t] = "add"
    /\ value' = value + 1
    /\ Goto(t, IF value + 1 = Count THEN "reset" ELSE "wait")
    /\ UNCHANGED <<revision, seen, round, serial>>

Reset(t) ==
    /\ pc[t] = "reset"
    /\ value' = 0
    /\ Goto(t, "bump")
    /\ UNCHANGED <<revision, seen, round, serial>>

Bump(t) ==
    /\ pc[t] = "bump"
    /\ revision' = revision + 1
    /\ Goto(t, "wake")
    /\ UNCHANGED <<value, seen, round, serial>>

\* FUTEX_WAKE of all the threads asleep on the revision
WakeAll(t) ==
    /\ pc[t] = "wake"
    /\ pc' = [u \in Thread |-> IF u = t THEN "out" ELSE IF pc[u] = "asleep" THEN "test" ELSE pc[u]]
    /\ round' = [round EXCEPT ![t] = @ + 1]
    /\ serial' = [serial EXCEPT ![round[t] + 1] = @ + 1]
    /\ UNCHANGED <<value, revision, seen>>

\* FUTEX_WAIT on the revision that was loaded: sleep, or EAGAIN, which returns
Wait(t) ==
    /\ pc[t] = "wait"
    /\ IF revision = seen[t] THEN Goto(t, "asleep") /\ UNCHANGED round ELSE Return(t)
    /\ UNCHANGED <<value, revision, seen, serial>>

\* EINTR: on to the condition of the loop
Interrupt(t) ==
    /\ pc[t] = "asleep"
    /\ Goto(t, "test")
    /\ UNCHANGED <<value, revision, seen, round, serial>>

\* The condition of the loop
Test(t) ==
    /\ pc[t] = "test"
    /\ IF revision = seen[t] THEN Goto(t, "wait") /\ UNCHANGED round ELSE Return(t)
    /\ UNCHANGED <<value, revision, seen, serial>>

Step(t) == Add(t) \/ Reset(t) \/ Bump(t) \/ WakeAll(t) \/ Wait(t) \/ Test(t)

Next == \E t \in Thread : Enter(t) \/ Step(t) \/ Interrupt(t)

Spec == Init /\ [][Next]_vars

-----------------------------------------------------------------------------
Arrived(t) == IF pc[t] \in {"out", "add"} THEN round[t] ELSE round[t] + 1

\* Nobody passes the barrier before all have come to it, in any round, with
\* any delay between the accesses of pthread_barrier_wait and any interruption;
\* and one thread of each round, and no other, is told it is the serial one.
MeetTogether ==
    /\ \A t, u \in Thread : round[t] <= Arrived(u)
    /\ \A r \in 1..MaxRounds :
          /\ serial[r] <= 1
          /\ (\A t \in Thread : round[t] >= r) => serial[r] = 1

\* No thread is left behind: once all have come to a round, all pass it.
AllPass ==
    \A r \in 1..MaxRounds :
        (\A t \in Thread : Arrived(t) >= r) ~> (\A t \in Thread : round[t] >= r)
=============================================================================
