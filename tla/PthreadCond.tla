---------------------------- MODULE PthreadCond -----------------------------
(* The condition variable of lib/libpthread/src/cond.c, used with one mutex  *)
(* (PthreadMutex): cond->mutex is that mutex or NULL.  cpc is where a thread *)
(* is in the calls of cond.c; inside them it makes the calls of mutex.c.     *)
EXTENDS PthreadMutex

CONSTANT MaxSignals \* bound: calls of pthread_cond_signal and _broadcast

VARIABLES
    value,      \* cond->value
    waiters,    \* cond->waiters
    cpc,        \* where a thread is in the calls of cond.c
    cseen,      \* "value" of pthread_cond_timedwait
    owed        \* the sets of threads one of which a signal has to unblock:
                \* no such variable in the code

cvars == <<value, waiters, cpc, cseen, owed>>
vars == <<mvars, cvars>>

CInit ==
    /\ Init
    /\ value = 0
    /\ waiters = 0
    /\ cpc = [t \in Thread |-> "out"]
    /\ cseen = [t \in Thread |-> 0]
    /\ owed = {}

CGoto(t, l) == cpc' = [cpc EXCEPT ![t] = l]

\* The threads that wait: they have given the mutex up, and sleep or will.
Waits(t) == cpc[t] = "asleep" \/ (cpc[t] = "unlock" /\ pc[t] \in {"idle", "wake"})

\* t is unblocked: the signals it was one of the candidates of are served.
Served(ts) == {S \in owed : S \cap ts = {}}

-----------------------------------------------------------------------------
\* The program calls mutex.c.
MutexCall(t) ==
    /\ cpc[t] = "out"
    /\ Lock(t) \/ TryLock(t) \/ Unlock(t)
    /\ UNCHANGED cvars

\* pthread_cond_timedwait calls mutex.c, and a call of mutex.c goes on.
MutexStep(t) ==
    /\ \/ cpc[t] = "relock" /\ Lock(t)
       \/ cpc[t] = "unlock" /\ Unlock(t)
       \/ Interrupt(t)
       \/ Step(t)
    /\ UNCHANGED cvars

\* pthread_cond_timedwait up to the load of cond->value
CondWait(t) ==
    /\ cpc[t] = "out" /\ pc[t] = "held"
    /\ waiters' = waiters + 1
    /\ CGoto(t, "load")
    /\ UNCHANGED <<mvars, value, cseen, owed>>

Load(t) ==
    /\ cpc[t] = "load"
    /\ cseen' = [cseen EXCEPT ![t] = value]
    /\ CGoto(t, "unlock")
    /\ UNCHANGED <<mvars, value, waiters, owed>>

\* Variant: cond->value is read after the mutex is unlocked.
SleepReloading(t) ==
    /\ cpc[t] = "unlock" /\ pc[t] = "idle"
    /\ cseen' = [cseen EXCEPT ![t] = value]
    /\ CGoto(t, "asleep")
    /\ UNCHANGED <<mvars, value, waiters, owed>>

\* FUTEX_WAIT on the value that was read: sleep, or EAGAIN, which ends the wait
CondSleep(t) ==
    /\ cpc[t] = "unlock" /\ pc[t] = "idle"
    /\ IF value = cseen[t]
       THEN CGoto(t, "asleep") /\ UNCHANGED owed
       ELSE CGoto(t, "relock") /\ owed' = Served({t})
    /\ UNCHANGED <<mvars, value, waiters, cseen>>

\* EINTR: FUTEX_WAIT again
CondInterrupt(t) ==
    /\ cpc[t] = "asleep"
    /\ CGoto(t, "unlock")
    /\ UNCHANGED <<mvars, value, waiters, cseen, owed>>

\* abstime passes: EWOULDBLOCK is EAGAIN, and ends the wait
CondTimeout(t) ==
    /\ cpc[t] = "asleep"
    /\ CGoto(t, "relock")
    /\ owed' = Served({t})
    /\ UNCHANGED <<mvars, value, waiters, cseen>>

\* The end of pthread_cond_timedwait, the mutex locked again.
CondReturn(t) ==
    /\ cpc[t] = "relock" /\ pc[t] = "held"
    /\ waiters' = waiters - 1
    /\ cseen' = [cseen EXCEPT ![t] = 0]
    /\ CGoto(t, "out")
    /\ UNCHANGED <<mvars, value, owed>>

\* pthread_cond_signal up to its FUTEX_WAKE, by a thread that has the mutex
Signal(t) ==
    /\ cpc[t] = "out" /\ pc[t] = "held"
    /\ value < MaxSignals
    /\ value' = value + 1
    /\ owed' = owed \cup ({{u \in Thread : Waits(u)}} \ {{}})
    /\ CGoto(t, "signal")
    /\ UNCHANGED <<mvars, waiters, cseen>>

\* pthread_cond_broadcast up to its FUTEX_WAKE, with the mutex or without
Broadcast(t) ==
    /\ cpc[t] = "out" /\ pc[t] \in {"held", "idle"}
    /\ value < MaxSignals
    /\ value' = value + 1
    /\ owed' = owed \cup {{u} : u \in {v \in Thread : Waits(v)}}
    /\ CGoto(t, "broadcast")
    /\ UNCHANGED <<mvars, waiters, cseen>>

\* FUTEX_WAKE of one thread or of all: the sleepers that it wakes.
Woken(t) ==
    LET asleep == {u \in Thread : cpc[u] = "asleep"}
    IN  IF cpc[t] = "broadcast" \/ asleep = {} THEN {asleep} ELSE {{u} : u \in asleep}

CondWake(t) ==
    /\ cpc[t] \in {"signal", "broadcast"}
    /\ \E ts \in Woken(t) :
          /\ cpc' = [u \in Thread |-> IF u = t THEN "out" ELSE IF u \in ts THEN "relock" ELSE cpc[u]]
          /\ owed' = Served(ts)
    /\ UNCHANGED <<mvars, value, waiters, cseen>>

\* The steps inside a call of cond.c, once it is made.
CondStep(t) == MutexStep(t) \/ Load(t) \/ CondSleep(t) \/ CondReturn(t) \/ CondWake(t)

CNext == \E t \in Thread :
    \/ MutexCall(t) \/ CondWait(t) \/ Signal(t) \/ Broadcast(t)
    \/ CondInterrupt(t) \/ CondTimeout(t) \/ CondStep(t)

CSpec == CInit /\ [][CNext]_vars

-----------------------------------------------------------------------------
\* No signal is lost between the unlock of the mutex and the sleep: of the
\* threads that waited when pthread_cond_signal was called with the mutex
\* held, one no longer sleeps when the call is over, and every one of them
\* after pthread_cond_broadcast.
NoLostSignal ==
    \A S \in owed : (\A t \in S : cpc[t] = "asleep") =>
        \E u \in Thread : cpc[u] \in {"signal", "broadcast"}
=============================================================================
