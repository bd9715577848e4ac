---------------------------- MODULE PthreadJoin -----------------------------
(* The end of a thread in lib/libpthread/src/thread.c: pthread_exit of the   *)
(* thread itself against one pthread_join or pthread_detach of another, on   *)
(* the mutex and the condition variable of struct pthread.                   *)
EXTENDS PthreadCond

CONSTANT Target \* the thread that exits

VARIABLES
    flags,      \* thread->flags
    freed,      \* who has freed struct pthread, or None
    jpc         \* where a thread is in the calls of thread.c

jvars == <<flags, freed, jpc>>

\* pthread_create: Target runs, one other thread may join or detach it.
JInit ==
    /\ CInit
    /\ flags \in {{}, {"detached"}}
    /\ freed = None
    /\ jpc = [t \in Thread |-> "run"]

JGoto(t, l) == jpc' = [jpc EXCEPT ![t] = l]

\* pthread_mutex_lock and pthread_mutex_unlock on thread->mutex
Locks(t) == Lock(t) /\ UNCHANGED cvars
Unlocks(t) == Unlock(t) /\ UNCHANGED cvars

\* t has returned from the calls of mutex.c and cond.c, with the mutex or without.
Has(t) == pc[t] = "held" /\ cpc[t] = "out"
Left(t) == pc[t] = "idle" /\ cpc[t] = "out"

\* pthread_destroy
Destroy(t) == freed' = t /\ JGoto(t, "done") /\ UNCHANGED flags

-----------------------------------------------------------------------------
\* pthread_join and pthread_detach up to the mutex; the program makes one
\* such call for a thread, and none for a thread created detached.
Call(t) ==
    /\ t # Target
    /\ \A u \in Thread \ {Target} : jpc[u] = "run"
    /\ flags \cap {"detached"} = {}
    /\ Locks(t)
    /\ JGoto(t, "join") \/ JGoto(t, "detach")
    /\ UNCHANGED <<flags, freed>>

\* pthread_join with the mutex: the thread has exited, or is waited for.
Join(t) ==
    /\ jpc[t] = "join" /\ Has(t)
    /\ IF "exited" \in flags
       THEN Destroy(t) /\ UNCHANGED vars
       ELSE /\ flags' = flags \cup {"joining"}
            /\ CondWait(t)
            /\ JGoto(t, "joining")
            /\ UNCHANGED freed

\* pthread_join, back from pthread_cond_wait
Joined(t) == jpc[t] = "joining" /\ Has(t) /\ Destroy(t) /\ UNCHANGED vars

\* Variant: struct pthread is freed as if the thread were gone.
DetachFreeing(t) ==
    /\ jpc[t] = "detach" /\ Has(t)
    /\ Unlocks(t)
    /\ flags' = flags \cup {"detached"}
    /\ JGoto(t, "destroy")
    /\ UNCHANGED freed

\* pthread_detach with the mutex: it frees a thread that has exited.
Detach(t) ==
    /\ jpc[t] = "detach" /\ Has(t)
    /\ Unlocks(t)
    /\ IF "exited" \in flags
       THEN JGoto(t, "destroy") /\ UNCHANGED flags
       ELSE flags' = flags \cup {"detached"} /\ JGoto(t, "done")
    /\ UNCHANGED freed

Detached(t) == jpc[t] = "destroy" /\ Left(t) /\ Destroy(t) /\ UNCHANGED vars

\* pthread_exit up to the mutex
Exit(t) ==
    /\ t = Target
    /\ jpc[t] = "run"
    /\ Locks(t)
    /\ JGoto(t, "exit")
    /\ UNCHANGED <<flags, freed>>

\* pthread_exit with the mutex: a detached thread frees itself, the mutex
\* still locked; another one tells the thread that joins it.
ExitLocked(t) ==
    /\ jpc[t] = "exit" /\ Has(t)
    /\ flags' = flags \cup {"exited"}
    /\ IF "detached" \in flags
       THEN freed' = t /\ JGoto(t, "done") /\ UNCHANGED vars
       ELSE Broadcast(t) /\ JGoto(t, "exiting") /\ UNCHANGED freed

\* pthread_exit after the broadcast; the stack is unmapped, the thread exits.
ExitUnlock(t) ==
    /\ jpc[t] = "exiting" /\ Has(t)
    /\ Unlocks(t)
    /\ JGoto(t, "done")
    /\ UNCHANGED <<flags, freed>>

JoinStep(t) ==
    \/ Join(t) \/ Joined(t) \/ Detach(t) \/ Detached(t) \/ ExitLocked(t) \/ ExitUnlock(t)
    \/ CondStep(t) /\ UNCHANGED jvars

JNext == \E t \in Thread :
    \/ Call(t) \/ Exit(t) \/ JoinStep(t)
    \/ CondInterrupt(t) /\ UNCHANGED jvars

JSpec == JInit /\ [][JNext]_<<vars, jvars>>

-----------------------------------------------------------------------------
\* struct pthread is freed once the thread has exited or is about to, and
\* then nobody but its last user touches its mutex or its condition variable
\* again: what a late FUTEX_WAKE names is an address.
FreedUnused ==
    freed # None =>
        /\ "exited" \in flags
        /\ \A t \in Thread \ {freed} : pc[t] \in {"idle", "wake"} /\ cpc[t] = "out"

\* A thread that has exited is freed in the end, if it is detached or joined,
\* by exactly one of the two sides.
FreedInTheEnd ==
    jpc[Target] = "done" /\ (flags \cap {"joining", "detached"} # {}
                             \/ \E t \in Thread : jpc[t] \in {"join", "detach", "destroy"})
        ~> freed # None
=============================================================================
