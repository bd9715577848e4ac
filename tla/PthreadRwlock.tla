--------------------------- MODULE PthreadRwlock ----------------------------
(* The reader-writer lock of lib/libpthread/src/rwlock.c, one access to      *)
(* rwlock->value at a time; a futex system call is one step, as in           *)
(* PthreadMutex.  A loop of exchanges is the exchange that ends it.          *)
EXTENDS LockThreads

VARIABLES
    readers,    \* rwlock->value & RWLOCK_MASK, when it is not RWLOCK_WRITING
    writing,    \* (rwlock->value & RWLOCK_MASK) == RWLOCK_WRITING
    waiting,    \* rwlock->value & RWLOCK_WAITING
    pc,         \* where a thread is in the calls of rwlock.c
    for,        \* the lock a thread asks for or holds: "read" or "write"
    seen        \* its local "cur", None when it is dead

vars == <<readers, writing, waiting, pc, for, seen>>

\* pthread_rwlock_init
Init ==
    /\ readers = 0
    /\ writing = FALSE /\ waiting = FALSE
    /\ pc = [t \in Thread |-> "idle"]
    /\ for = [t \in Thread |-> "read"]
    /\ seen = [t \in Thread |-> None]

Word == <<readers, writing, waiting>>
Goto(t, l) == pc' = [pc EXCEPT ![t] = l]
Forget(t) == seen' = [seen EXCEPT ![t] = None]

\* rdacquire and wracquire: a writer needs a word of 0, without RWLOCK_WAITING.
MayTake(t) == IF for[t] = "read" THEN ~writing ELSE Word = <<0, FALSE, FALSE>>

TakeFor(t) ==
    /\ Goto(t, "held")
    /\ IF for[t] = "read" THEN readers' = readers + 1 /\ UNCHANGED writing
       ELSE writing' = TRUE /\ UNCHANGED readers
    /\ UNCHANGED <<waiting, for, seen>>

-----------------------------------------------------------------------------
\* pthread_rwlock_rdlock and wrlock, by a thread that does not hold the lock
Lock(t, mode) ==
    /\ pc[t] = "idle"
    /\ for' = [for EXCEPT ![t] = mode]
    /\ Goto(t, "acquire")
    /\ UNCHANGED <<readers, writing, waiting, seen>>

Acquire(t) ==
    /\ pc[t] = "acquire"
    /\ IF MayTake(t) THEN TakeFor(t)
       ELSE /\ seen' = [seen EXCEPT ![t] = Word]
            /\ Goto(t, "mark")
            /\ UNCHANGED <<readers, writing, waiting, for>>

\* The exchange that sets RWLOCK_WAITING in the word that was read.
Mark(t) ==
    /\ pc[t] = "mark"
    /\ IF Word = seen[t]
       THEN waiting' = TRUE /\ Goto(t, "wait") /\ seen' = [seen EXCEPT ![t][3] = TRUE]
       ELSE UNCHANGED waiting /\ Goto(t, "acquire") /\ Forget(t)
    /\ UNCHANGED <<readers, writing, for>>

\* FUTEX_WAIT: sleep, or EAGAIN
Wait(t) ==
    /\ pc[t] = "wait"
    /\ Goto(t, IF Word = seen[t] THEN "asleep" ELSE "acquire")
    /\ Forget(t)
    /\ UNCHANGED <<readers, writing, waiting, for>>

\* A signal or a timeout: the loop goes on.
Interrupt(t) ==
    /\ pc[t] = "asleep"
    /\ Goto(t, "acquire")
    /\ UNCHANGED <<readers, writing, waiting, for, seen>>

\* pthread_rwlock_unlock up to its FUTEX_WAKE: a writer stores 0, a reader
\* takes 1 away and leaves RWLOCK_WAITING where it is.
Unlock(t) ==
    /\ pc[t] = "held"
    /\ IF writing THEN writing' = FALSE /\ waiting' = FALSE /\ UNCHANGED readers
       ELSE readers' = readers - 1 /\ UNCHANGED <<writing, waiting>>
    /\ Goto(t, IF waiting THEN "wake" ELSE "idle")
    /\ UNCHANGED <<for, seen>>

\* FUTEX_WAKE of INT_MAX threads
WakeAll(t) ==
    /\ pc[t] = "wake"
    /\ pc' = [u \in Thread |-> IF u = t THEN "idle"
                               ELSE IF pc[u] = "asleep" THEN "acquire" ELSE pc[u]]
    /\ UNCHANGED <<readers, writing, waiting, for, seen>>

Step(t) == Acquire(t) \/ Mark(t) \/ Wait(t) \/ WakeAll(t)

Next == \E t \in Thread :
    \/ Lock(t, "read") \/ Lock(t, "write") \/ Unlock(t) \/ Interrupt(t) \/ Step(t)

Spec == Init /\ [][Next]_vars

-----------------------------------------------------------------------------
Held(mode) == {t \in Thread : pc[t] = "held" /\ for[t] = mode}

\* No reader is left asleep: while one sleeps, a writer has the lock and will
\* see RWLOCK_WAITING, or an unlock that saw it is about to wake all.
ReadersAnnounced ==
    \A t \in Thread : pc[t] = "asleep" /\ for[t] = "read" =>
        (writing /\ waiting) \/ \E u \in Thread : pc[u] = "wake"

\* What bin/tests/pthread.c asserts once every reader has unlocked: nobody
\* holds the lock, nobody is in the middle of a call, other than asleep in it,
\* and pthread_rwlock_trywrlock succeeds.
FreeForWriters ==
    (\A t \in Thread : pc[t] \in {"idle", "asleep"}) => Word = <<0, FALSE, FALSE>>

Service == INSTANCE LockService WITH
    writer <- IF Held("write") = {} THEN None ELSE CHOOSE t \in Thread : t \in Held("write"),
    level <- IF writing THEN 1 ELSE 0,
    readers <- Held("read"),
    blocked <- {t \in Thread : pc[t] \in {"acquire", "mark", "wait", "asleep"}}

\* pthread_rwlock_rdlock, wrlock and unlock implement the lock service that
\* the kernel's reader-writer locks implement, readers and writers excluding
\* each other at every atomic access.
ImplementsService == Service!LSpec
=============================================================================
