------------------------------- MODULE RWLock -------------------------------
(* The sleeping reader-writer lock of kern/rwlock.c, with its two wait       *)
(* queues.  As for Mutex, a call is one step up to the point where it        *)
(* sleeps.  A sleeping writer keeps new readers out, but a writer that has   *)
(* been woken and has not run yet is on no queue: readers overtake it.       *)
EXTENDS Queues, LockThreads

CONSTANT Killable   \* threads that a fatal signal may hit while they sleep

VARIABLES
    wowner,     \* rwlock->wowner
    rlock_nb,   \* rwlock->rlock_nb
    rwaitq,     \* rwlock->rwaitq.watchers
    wwaitq,     \* rwlock->wwaitq.watchers
    state,      \* per thread: "running", asleep on a queue ("rwait", "wwait"),
                \* woken from it but not back in the loop ("rwoken", "wwoken"),
                \* "asleep" on another queue with the lock held, "zombie"
    held        \* per thread: "no", "read" or "write"

vars == <<wowner, rlock_nb, rwaitq, wwaitq, state, held>>

TypeOK ==
    /\ wowner \in Thread \cup {None}
    /\ rlock_nb \in Nat
    /\ rwaitq \in Seq(Thread)
    /\ wwaitq \in Seq(Thread)
    /\ state \in [Thread -> {"running", "rwait", "wwait", "rwoken", "wwoken",
                             "asleep", "zombie"}]
    /\ held \in [Thread -> {"no", "read", "write"}]

\* rwlock_init
Init ==
    /\ wowner = None
    /\ rlock_nb = 0
    /\ rwaitq = <<>>
    /\ wwaitq = <<>>
    /\ state = [t \in Thread |-> "running"]
    /\ held = [t \in Thread |-> "no"]

-----------------------------------------------------------------------------
SetState(t, s) == state' = [state EXCEPT ![t] = s]

\* Variant: a reader looks at the sleeping writers only.
TryReadOverOwner(t) ==
    /\ IF wwaitq = <<>>
       THEN /\ rlock_nb' = rlock_nb + 1
            /\ held' = [held EXCEPT ![t] = "read"]
            /\ SetState(t, "running")
            /\ UNCHANGED rwaitq
       ELSE /\ rwaitq' = Append(rwaitq, t)
            /\ SetState(t, "rwait")
            /\ UNCHANGED <<rlock_nb, held>>
    /\ UNCHANGED <<wowner, wwaitq>>

\* The body of the loops of rwlock_rdlock, on the first or on a later test:
\* a reader waits for the owner, and for the writers asleep on the lock.
TryRead(t) ==
    /\ IF wowner = None /\ wwaitq = <<>>
       THEN /\ rlock_nb' = rlock_nb + 1
            /\ held' = [held EXCEPT ![t] = "read"]
            /\ SetState(t, "running")
            /\ UNCHANGED rwaitq
       ELSE /\ rwaitq' = Append(rwaitq, t)
            /\ SetState(t, "rwait")
            /\ UNCHANGED <<rlock_nb, held>>
    /\ UNCHANGED <<wowner, wwaitq>>

\* The body of the loop of rwlock_wrlock.
TryWrite(t) ==
    /\ IF wowner = None /\ rlock_nb = 0
       THEN /\ wowner' = t
            /\ held' = [held EXCEPT ![t] = "write"]
            /\ SetState(t, "running")
            /\ UNCHANGED wwaitq
       ELSE /\ wwaitq' = Append(wwaitq, t)
            /\ SetState(t, "wwait")
            /\ UNCHANGED <<wowner, held>>
    /\ UNCHANGED <<rlock_nb, rwaitq>>

RdLock(t) == state[t] = "running" /\ held[t] = "no" /\ TryRead(t)

RdResume(t) == state[t] = "rwoken" /\ TryRead(t)

WrLock(t) == state[t] = "running" /\ held[t] = "no" /\ TryWrite(t)

WrResume(t) == state[t] = "wwoken" /\ TryWrite(t)

\* waitq_signal on wwaitq
SignalWriter ==
    /\ wwaitq' = Tail(wwaitq)
    /\ SetState(Head(wwaitq), "wwoken")

\* waitq_broadcast on rwaitq
BroadcastReaders ==
    /\ rwaitq' = <<>>
    /\ state' = [t \in Thread |->
                    IF state[t] = "rwait" THEN "rwoken" ELSE state[t]]

\* Variant: the readers are not woken.
WrUnlockQuiet(t) ==
    /\ state[t] = "running"
    /\ wowner = t
    /\ wowner' = None
    /\ held' = [held EXCEPT ![t] = "no"]
    /\ IF wwaitq # <<>> THEN SignalWriter ELSE UNCHANGED <<wwaitq, state>>
    /\ UNCHANGED <<rlock_nb, rwaitq>>

\* rwlock_unlock by the owner: a sleeping writer first, else every reader.
WrUnlock(t) ==
    /\ state[t] = "running"
    /\ wowner = t
    /\ wowner' = None
    /\ held' = [held EXCEPT ![t] = "no"]
    /\ \/ wwaitq # <<>> /\ SignalWriter /\ UNCHANGED rwaitq
       \/ wwaitq = <<>> /\ BroadcastReaders /\ UNCHANGED wwaitq
    /\ UNCHANGED rlock_nb

\* Variant: the last reader wakes nobody.
RdUnlockQuiet(t) ==
    /\ state[t] = "running"
    /\ held[t] = "read"
    /\ wowner # t
    /\ rlock_nb' = rlock_nb - 1
    /\ held' = [held EXCEPT ![t] = "no"]
    /\ UNCHANGED <<wwaitq, state, wowner, rwaitq>>

\* rwlock_unlock by a reader: the last one wakes a sleeping writer.
RdUnlock(t) ==
    /\ state[t] = "running"
    /\ held[t] = "read"
    /\ wowner # t
    /\ rlock_nb' = rlock_nb - 1
    /\ held' = [held EXCEPT ![t] = "no"]
    /\ IF rlock_nb = 1 /\ wwaitq # <<>>
       THEN SignalWriter
       ELSE UNCHANGED <<wwaitq, state>>
    /\ UNCHANGED <<wowner, rwaitq>>

\* thread_signal: waitq_wakeup_thread(-EINTR); both loops ignore the reason.
Interrupt(t) ==
    /\ state[t] \in {"rwait", "wwait"}
    /\ rwaitq' = Unqueue(rwaitq, t)
    /\ wwaitq' = Unqueue(wwaitq, t)
    /\ SetState(t, IF state[t] = "rwait" THEN "rwoken" ELSE "wwoken")
    /\ UNCHANGED <<wowner, rlock_nb, held>>

\* The holder sleeps on another wait queue, and runs again later.
SleepElsewhere(t) ==
    /\ state[t] = "running"
    /\ held[t] # "no"
    /\ SetState(t, "asleep")
    /\ UNCHANGED <<wowner, rlock_nb, rwaitq, wwaitq, held>>

WakeElsewhere(t) ==
    /\ state[t] = "asleep"
    /\ SetState(t, "running")
    /\ UNCHANGED <<wowner, rlock_nb, rwaitq, wwaitq, held>>

\* proc_exit on another thread of the process, asleep in the kernel.
Kill(t) ==
    /\ t \in Killable
    /\ state[t] \notin {"running", "zombie"}
    /\ rwaitq' = Unqueue(rwaitq, t)
    /\ wwaitq' = Unqueue(wwaitq, t)
    /\ SetState(t, "zombie")
    /\ UNCHANGED <<wowner, rlock_nb, held>>

Next == \E t \in Thread :
    \/ RdLock(t) \/ RdResume(t) \/ WrLock(t) \/ WrResume(t)
    \/ WrUnlock(t) \/ RdUnlock(t)
    \/ Interrupt(t) \/ SleepElsewhere(t) \/ WakeElsewhere(t) \/ Kill(t)

Spec == Init /\ [][Next]_vars

\* A woken thread is on a run queue and gets a CPU.
FairSpec == Spec /\ \A t \in Thread : WF_vars(RdResume(t)) /\ WF_vars(WrResume(t))

-----------------------------------------------------------------------------
Readers == {t \in Thread : held[t] = "read"}

NobodyKilled == \A t \in Thread : state[t] # "zombie"

\* The counter and the owner are what the calls that returned say: rlock_nb is
\* the number of readers, and there is none while a writer owns the lock.
Exclusion ==
    /\ \A t \in Thread : held[t] = "write" <=> wowner = t
    /\ rlock_nb = Cardinality(Readers)
    /\ wowner # None => rlock_nb = 0

\* No sleeping reader is stranded: while no writer owns the lock, readers sleep
\* only if a writer sleeps too or has been woken and will own it.  Here and
\* below, this is so until a thread is killed in its sleep.
ReadersNotStranded ==
    NobodyKilled /\ rwaitq # <<>> /\ wowner = None =>
        wwaitq # <<>> \/ \E t \in Thread : state[t] = "wwoken"

\* No sleeping writer is stranded: when the lock is free and writers sleep on
\* it, one of them has been woken.
WritersNotStranded ==
    NobodyKilled /\ wwaitq # <<>> /\ wowner = None /\ rlock_nb = 0 =>
        \E t \in Thread : state[t] = "wwoken"

\* A free lock with threads asleep on it is taken again.
FreeLockTaken ==
    wowner = None /\ rlock_nb = 0 /\ rwaitq \o wwaitq # <<>>
        ~> wowner # None \/ rlock_nb > 0 \/ ~NobodyKilled

\* The lock as a lock service: queues and wakeups are invisible.
Service == INSTANCE LockService WITH
    writer <- wowner,
    level <- IF wowner = None THEN 0 ELSE 1,
    readers <- Readers,
    blocked <- {t \in Thread : state[t] \in {"rwait", "wwait", "rwoken", "wwoken"}}

\* rwlock_rdlock, rwlock_wrlock and rwlock_unlock implement LockService: readers
\* share the lock, and an owner shares it with nobody.
ImplementsService == Service!LSpec
=============================================================================
