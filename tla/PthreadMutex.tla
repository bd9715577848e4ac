---------------------------- MODULE PthreadMutex ----------------------------
(* The mutex of lib/libpthread/src/mutex.c.  User code is preempted anywhere *)
(* and runs on several CPUs, so every access to mutex->value is a step of    *)
(* its own.  A futex system call is one step: FUTEX_WAIT compares and sleeps *)
(* and FUTEX_WAKE wakes under the big kernel lock, and a store to the word   *)
(* in the middle of FUTEX_WAIT is followed by a FUTEX_WAKE that comes after. *)
EXTENDS LockDepth

VARIABLES
    count,      \* mutex->value & ~MUTEX_WAITING
    waiting,    \* the bit MUTEX_WAITING of mutex->value
    owner,      \* mutex->owner
    pc,         \* where a thread is in the calls of mutex.c
    seen        \* the count in "v" of pthread_mutex_timedlock, 0 once v is dead

mvars == <<count, waiting, owner, pc, seen>>

Label == {"idle", "acquire", "mark", "wait", "asleep", "own", "held", "release", "wake"}

TypeOK ==
    /\ count \in 0..MaxDepth
    /\ waiting \in 0..1
    /\ owner \in Thread \cup {None}
    /\ pc \in [Thread -> Label]
    /\ seen \in [Thread -> 0..MaxDepth]

\* pthread_mutex_init
Init ==
    /\ count = 0
    /\ waiting = 0
    /\ owner = None
    /\ pc = [t \in Thread |-> "idle"]
    /\ seen = [t \in Thread |-> 0]

Goto(t, l) == pc' = [pc EXCEPT ![t] = l]

-----------------------------------------------------------------------------
\* pthread_mutex_lock, by a thread that is not the owner
Lock(t) ==
    /\ pc[t] = "idle"
    /\ Goto(t, "acquire")
    /\ UNCHANGED <<count, waiting, owner, seen>>

\* pthread_mutex_trylock, by a thread that is not the owner
TryLock(t) ==
    /\ pc[t] = "idle"
    /\ count = 0 /\ waiting = 0
    /\ count' = 1
    /\ Goto(t, "own")
    /\ UNCHANGED <<waiting, owner, seen>>

\* recursive_lock, by the owner
Relock(t) ==
    /\ pc[t] = "held"
    /\ owner = t
    /\ count < MaxDepth
    /\ count' = count + 1
    /\ UNCHANGED <<waiting, owner, pc, seen>>

\* acquire, as the condition of the loop of pthread_mutex_timedlock
Acquire(t) ==
    /\ pc[t] = "acquire"
    /\ IF count = 0 /\ waiting = 0
       THEN count' = 1 /\ Goto(t, "own") /\ UNCHANGED seen
       ELSE /\ seen' = [seen EXCEPT ![t] = count]
            /\ Goto(t, IF waiting = 1 THEN "wait" ELSE "mark")
            /\ UNCHANGED count
    /\ UNCHANGED <<waiting, owner>>

\* The exchange that sets MUTEX_WAITING; it is weak and may fail for nothing.
Mark(t) ==
    /\ pc[t] = "mark"
    /\ \/ /\ count = seen[t] /\ waiting = 0
          /\ waiting' = 1
          /\ Goto(t, "wait")
          /\ UNCHANGED seen
       \/ /\ Goto(t, "acquire")
          /\ seen' = [seen EXCEPT ![t] = 0]
          /\ UNCHANGED waiting
    /\ UNCHANGED <<count, owner>>

\* Variant: the thread sleeps whatever the word holds.
WaitUnchecked(t) ==
    /\ pc[t] = "wait"
    /\ Goto(t, "asleep")
    /\ seen' = [seen EXCEPT ![t] = 0]
    /\ UNCHANGED <<count, waiting, owner>>

\* FUTEX_WAIT on v: sleep, or EAGAIN
Wait(t) ==
    /\ pc[t] = "wait"
    /\ Goto(t, IF count = seen[t] /\ waiting = 1 THEN "asleep" ELSE "acquire")
    /\ seen' = [seen EXCEPT ![t] = 0]
    /\ UNCHANGED <<count, waiting, owner>>

\* A signal ends the sleep, or its timeout: EWOULDBLOCK is EAGAIN, the loop
\* goes on in both cases.
Interrupt(t) ==
    /\ pc[t] = "asleep"
    /\ Goto(t, "acquire")
    /\ UNCHANGED <<count, waiting, owner, seen>>

\* The end of pthread_mutex_timedlock and pthread_mutex_trylock.
Own(t) ==
    /\ pc[t] = "own"
    /\ owner' = t
    /\ Goto(t, "held")
    /\ UNCHANGED <<count, waiting, seen>>

\* pthread_mutex_unlock up to its exchange: only the owner changes the count.
Unlock(t) ==
    /\ pc[t] = "held"
    /\ owner = t
    /\ IF count > 1
       THEN count' = count - 1 /\ UNCHANGED <<owner, pc>>
       ELSE owner' = None /\ Goto(t, "release") /\ UNCHANGED count
    /\ UNCHANGED <<waiting, seen>>

\* The loop of exchanges: the one that succeeds has the last value in v.
Release(t) ==
    /\ pc[t] = "release"
    /\ count' = 0
    /\ waiting' = 0
    /\ Goto(t, IF waiting = 1 THEN "wake" ELSE "idle")
    /\ UNCHANGED <<owner, seen>>

\* FUTEX_WAKE of INT_MAX threads
WakeAll(t) ==
    /\ pc[t] = "wake"
    /\ pc' = [u \in Thread |-> IF u = t THEN "idle"
                               ELSE IF pc[u] = "asleep" THEN "acquire" ELSE pc[u]]
    /\ UNCHANGED <<count, waiting, owner, seen>>

\* The steps inside a call, once it is made.
Step(t) ==
    \/ Acquire(t) \/ Mark(t) \/ Wait(t) \/ Own(t) \/ Release(t) \/ WakeAll(t)

Next == \E t \in Thread :
    \/ Lock(t) \/ TryLock(t) \/ Relock(t) \/ Unlock(t) \/ Interrupt(t) \/ Step(t)

Spec == Init /\ [][Next]_mvars

-----------------------------------------------------------------------------
Crit == {"own", "held", "release"}
Holds(t) == pc[t] \in Crit
Holder == IF \E t \in Thread : Holds(t) THEN CHOOSE t \in Thread : Holds(t) ELSE None

\* No FUTEX_WAKE is lost: while a thread sleeps on the word, the word says so
\* to whoever unlocks the mutex, or an unlock that saw it is about to wake all
\* the sleepers; so nobody sleeps on a mutex that is free for good.
SleepersAnnounced ==
    \A t \in Thread : pc[t] = "asleep" =>
        (waiting = 1 /\ count > 0) \/ \E u \in Thread : pc[u] = "wake"

\* The mutex as a lock service, from the call of pthread_mutex_lock on.
Service == INSTANCE LockService WITH
    writer <- Holder,
    level <- count,
    readers <- {},
    blocked <- {t \in Thread : pc[t] \in {"acquire", "mark", "wait", "asleep"}}

\* pthread_mutex_lock, trylock and unlock, one atomic access at a time,
\* implement the exclusive half of the service that the kernel's mutexes
\* implement: a call returns only when the mutex is free or the caller's own.
ImplementsService == Service!LSpec
=============================================================================
