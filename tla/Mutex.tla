------------------------------- MODULE Mutex --------------------------------
(* The sleeping mutex of kern/mutex.c on its wait queue (kern/waitq.c).      *)
(* Kernel code runs under the big kernel lock and is not preempted, so a     *)
(* call is one step up to the point where it sleeps; what interleaves is     *)
(* what the other threads do while the owner sleeps somewhere else and while *)
(* a woken waiter has not run yet.                                           *)
EXTENDS Queues, LockDepth

CONSTANTS
    Recursive,  \* MUTEX_RECURSIVE in mutex->flags
    Killable    \* threads that a fatal signal may hit while they sleep

ASSUME MutexAssumption ==
    /\ Recursive \in BOOLEAN
    /\ ~Recursive => MaxDepth = 1
    /\ Killable \subseteq Thread

VARIABLES
    owner,      \* mutex->owner
    rec,        \* mutex->recursive_nb
    watchers,   \* mutex->waitq.watchers
    state,      \* per thread: "running"; "waiting" on this queue; "woken" from it
                \* but not back in the loop yet; "asleep" on another queue
                \* with the mutex held; "zombie"
    depth       \* per thread: mutex_lock calls it has not matched yet

vars == <<owner, rec, watchers, state, depth>>

TypeOK ==
    /\ owner \in Thread \cup {None}
    /\ rec \in 0..MaxDepth
    /\ watchers \in Seq(Thread)
    /\ state \in [Thread -> {"running", "waiting", "woken", "asleep", "zombie"}]
    /\ depth \in [Thread -> 0..MaxDepth]

\* mutex_init
Init ==
    /\ owner = None
    /\ rec = 0
    /\ watchers = <<>>
    /\ state = [t \in Thread |-> "running"]
    /\ depth = [t \in Thread |-> 0]

-----------------------------------------------------------------------------
\* Take the mutex for t (mutex_acquire, and the end of mutex_lock).
Take(t) ==
    /\ owner' = t
    /\ rec' = IF Recursive THEN 1 ELSE rec
    /\ depth' = [depth EXCEPT ![t] = @ + 1]
    /\ state' = [state EXCEPT ![t] = "running"]
    /\ UNCHANGED watchers

\* waitq_wait_tail
Sleep(t) ==
    /\ watchers' = Append(watchers, t)
    /\ state' = [state EXCEPT ![t] = "waiting"]
    /\ UNCHANGED <<owner, rec, depth>>

\* mutex_lock up to its return or its first sleep.  Calling it on one's own
\* mutex without MUTEX_RECURSIVE panics, which its callers do not do.
Lock(t) ==
    /\ state[t] = "running"
    /\ depth[t] < MaxDepth
    /\ \/ owner = None /\ Take(t)
       \/ /\ owner = t
          /\ Recursive
          /\ rec' = rec + 1
          /\ depth' = [depth EXCEPT ![t] = @ + 1]
          /\ UNCHANGED <<owner, watchers, state>>
       \/ owner \notin {None, t} /\ Sleep(t)

\* mutex_lock, back from a sleep: the loop tests the owner again.
Resume(t) ==
    /\ state[t] = "woken"
    /\ \/ owner = None /\ Take(t)
       \/ owner # None /\ Sleep(t)

\* waitq_signal: wake the first watcher, if any.
Signal ==
    IF watchers = <<>>
    THEN UNCHANGED <<watchers, state>>
    ELSE /\ watchers' = Tail(watchers)
         /\ state' = [state EXCEPT ![Head(watchers)] = "woken"]

\* Variant: nobody is woken.
UnlockQuiet(t) ==
    /\ state[t] = "running"
    /\ depth[t] > 0
    /\ depth' = [depth EXCEPT ![t] = @ - 1]
    /\ rec' = IF Recursive THEN rec - 1 ELSE rec
    /\ owner' = IF Recursive /\ rec # 1 THEN owner ELSE None
    /\ UNCHANGED <<watchers, state>>

\* Variant: the first unlock of a nested lock frees the mutex.
UnlockFlat(t) ==
    /\ state[t] = "running"
    /\ depth[t] > 0
    /\ depth' = [depth EXCEPT ![t] = @ - 1]
    /\ rec' = IF Recursive THEN rec - 1 ELSE rec
    /\ owner' = None
    /\ Signal

\* mutex_unlock, by the thread that locked: its last level frees the mutex.
Unlock(t) ==
    /\ state[t] = "running"
    /\ depth[t] > 0
    /\ depth' = [depth EXCEPT ![t] = @ - 1]
    /\ rec' = IF Recursive THEN rec - 1 ELSE rec
    /\ IF Recursive /\ rec # 1
       THEN UNCHANGED <<owner, watchers, state>>
       ELSE owner' = None /\ Signal

\* thread_signal: waitq_wakeup_thread(-EINTR), which mutex_lock does not look at.
Interrupt(t) ==
    /\ state[t] = "waiting"
    /\ watchers' = Unqueue(watchers, t)
    /\ state' = [state EXCEPT ![t] = "woken"]
    /\ UNCHANGED <<owner, rec, depth>>

\* The owner sleeps on another wait queue, as a page fault does for its file
\* page with vm_space->mutex held, and runs again later.
SleepElsewhere(t) ==
    /\ state[t] = "running"
    /\ depth[t] > 0
    /\ state' = [state EXCEPT ![t] = "asleep"]
    /\ UNCHANGED <<owner, rec, watchers, depth>>

WakeElsewhere(t) ==
    /\ state[t] = "asleep"
    /\ state' = [state EXCEPT ![t] = "running"]
    /\ UNCHANGED <<owner, rec, watchers, depth>>

\* proc_exit on another thread of the process, asleep in the kernel: off its
\* wait queue if it is on one, and in state THREAD_ZOMBIE for good.
Kill(t) ==
    /\ t \in Killable
    /\ state[t] \in {"waiting", "woken", "asleep"}
    /\ watchers' = Unqueue(watchers, t)
    /\ state' = [state EXCEPT ![t] = "zombie"]
    /\ UNCHANGED <<owner, rec, depth>>

Next == \E t \in Thread :
    \/ Lock(t) \/ Resume(t) \/ Unlock(t) \/ Interrupt(t)
    \/ SleepElsewhere(t) \/ WakeElsewhere(t) \/ Kill(t)

Spec == Init /\ [][Next]_vars

-----------------------------------------------------------------------------
\* A woken thread is on a run queue and gets a CPU.
FairSpec == Spec /\ \A t \in Thread : WF_vars(Resume(t))

\* Mutual exclusion between mutex_lock and mutex_unlock: a thread that has
\* locked more often than it has unlocked is the owner, so there is only one,
\* and on a recursive mutex recursive_nb is its number of unmatched calls.
Ownership ==
    /\ \A t \in Thread : depth[t] > 0 <=> owner = t
    /\ Recursive => rec = IF owner = None THEN 0 ELSE depth[owner]

\* The queue holds exactly the waiting threads, each once: a thread that sleeps
\* can be woken, and a wakeup is never spent on a thread that does not sleep
\* (the assertion "waking up non-sleeping thread" of wakeup_thread).
QueueExact ==
    /\ \A i, j \in 1..Len(watchers) : watchers[i] = watchers[j] => i = j
    /\ \A t \in Thread :
          state[t] = "waiting" <=> \E i \in 1..Len(watchers) : watchers[i] = t

NobodyKilled == \A t \in Thread : state[t] # "zombie"

\* No wakeup of mutex_unlock is lost: when the mutex is free and threads sleep
\* on it, some thread has been woken and will test it again.  Only a kill, of
\* a thread that was woken or that holds the mutex, can break this.
NoLostWakeup ==
    NobodyKilled /\ owner = None /\ watchers # <<>> =>
        \E t \in Thread : state[t] = "woken"

\* A free mutex that threads sleep on is taken again, by one of them or by a
\* thread that overtakes them, unless a thread is killed.
FreeMutexTaken ==
    owner = None /\ watchers # <<>> ~> owner # None \/ ~NobodyKilled

\* The comment in proc_exit: a thread killed in its sleep must still clean up
\* what it holds in the kernel; here, it does not keep the mutex.
KilledHoldsNothing ==
    \A t \in Thread : state[t] = "zombie" => depth[t] = 0

\* The mutex as a lock service: queues and wakeups are invisible.
Service == INSTANCE LockService WITH
    writer <- owner,
    level <- IF owner = None THEN 0 ELSE depth[owner],
    readers <- {},
    blocked <- {t \in Thread : state[t] \in {"waiting", "woken"}}

\* mutex_lock and mutex_unlock implement the exclusive half of LockService:
\* a call returns only when the mutex is free or the caller's own.
ImplementsService == Service!LSpec
=============================================================================
