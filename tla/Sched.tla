------------------------------- MODULE Sched --------------------------------
(* The scheduler of kern/sched.c: one priority-ordered run queue per CPU,    *)
(* work stealing, switches and reschedule interrupts.  The kernel is not     *)
(* preemptive, so a handler is a composition of these functions: each one    *)
(* maps the kernel state k, a record, to the state it leaves.  Fields here:  *)
(*   k.cur[c]      cpu->thread           k.st[t]    thread->state            *)
(*   k.runq[c]     g_runq[c].threads     k.nest[t]  thread->tf_nest_level    *)
(*   k.resched[c]  cpu->must_resched     k.home[t]  thread->wait_cpuid       *)
(*   k.pri[t]      thread->pri           k.panic    an assertion failed      *)
EXTENDS Queues

LOCAL INSTANCE SequencesExt

CONSTANTS
    NCPU,   \* g_ncpus
    User,   \* threads other than the idle threads
    Idle,   \* Idle[c]: g_cpus[c].idlethread
    None

CPU == 0..NCPU - 1

ASSUME SchedAssumption ==
    /\ NCPU \in Nat \ {0}
    /\ DOMAIN Idle = CPU
    /\ \A c, d \in CPU : Idle[c] = Idle[d] => c = d
    /\ \A c \in CPU : Idle[c] \notin User
    /\ None \notin User \cup {Idle[c] : c \in CPU}

IdleThread == {Idle[c] : c \in CPU}
Thread == User \cup IdleThread

-----------------------------------------------------------------------------
\* Variant: a thread goes before the threads of its own priority.
RunqEnqueueFirst(k, q, t) ==
    [k EXCEPT !.runq[q] = InsertSorted(@, t, [k.pri EXCEPT ![t] = @ - 1])]

\* Variant: a thread goes to the end of the queue.
RunqEnqueueLast(k, q, t) == [k EXCEPT !.runq[q] = Append(@, t)]

\* runq_enqueue
RunqEnqueue(k, q, t) ==
    [k EXCEPT !.runq[q] = InsertSorted(@, t, k.pri)]

\* Variant: threads asleep in the kernel are stolen too.
EligibleAnywhere(k, c, q, ignoreidle, t) ==
    /\ k.st[t] = "paused"
    /\ ~(ignoreidle /\ t = Idle[q])
    /\ t \in User \/ t = Idle[c]

\* What CPU c may take from queue q: a paused thread, not one that continues
\* inside the kernel on another CPU, and only its own idle thread (affinity).
Eligible(k, c, q, ignoreidle, t) ==
    /\ k.st[t] = "paused"
    /\ k.nest[t] > 1 => q = c
    /\ ~(ignoreidle /\ t = Idle[q])
    /\ t \in User \/ t = Idle[c]

\* The thread find_runq_thread takes off the queue, or None.
FindRunqThread(k, c, q, ignoreidle) ==
    LET i == SelectInSeq(k.runq[q], LAMBDA t : Eligible(k, c, q, ignoreidle, t))
    IN  IF i = 0 THEN None ELSE k.runq[q][i]

\* The same for find_better_runq_thread: nothing worse than the current thread.
FindBetterRunqThread(k, c, q) ==
    LET t == FindRunqThread(k, c, q, TRUE)
    IN  IF t # None /\ k.pri[t] <= k.pri[k.cur[c]] THEN t ELSE None

Dequeue(k, q, t) == [k EXCEPT !.runq[q] = Unqueue(@, t)]

\* The first, in the order of the loops, of the CPUs whose queue offers a thread.
FirstOffer(s) == IF s = {} THEN None ELSE CHOOSE q \in s : \A r \in s : q <= r

\* find_thread: the thread found, and the state without it on its queue.  The
\* idle thread of c goes back when another CPU offers a thread; without an idle
\* thread to put back, sched_enqueue(NULL) faults.
FindThread(k, c, ignoreidle) ==
    LET own == FindRunqThread(k, c, c, ignoreidle)
        q == FirstOffer({r \in CPU \ {c} : FindRunqThread(k, c, r, TRUE) # None})
        other == FindRunqThread(k, c, q, TRUE)
    IN  IF own \notin {None, Idle[c]} THEN [k |-> Dequeue(k, c, own), t |-> own]
        ELSE IF q = None
             THEN [k |-> IF own = None THEN k ELSE Dequeue(k, c, own), t |-> own]
        ELSE IF own = None
             THEN [k |-> [k EXCEPT !.panic = "null thread"], t |-> None]
        ELSE [k |-> RunqEnqueue(Dequeue(Dequeue(k, c, own), q, other), c, own),
              t |-> other]

\* Variant: the thread that is switched out is not put back on a queue.
SchedSwitchDrop(k, c, t) ==
    LET cur == k.cur[c]
        out == IF k.st[cur] = "running" THEN [k EXCEPT !.st[cur] = "paused"] ELSE k
    IN  IF t = cur THEN k
        ELSE [out EXCEPT !.cur[c] = t, !.st[t] = "running"]

\* Variant: the thread that is switched out is still said to be running.
SchedSwitchRunning(k, c, t) ==
    LET cur == k.cur[c]
        out == IF k.st[cur] = "running" THEN RunqEnqueue(k, c, cur) ELSE k
    IN  IF t = cur THEN k
        ELSE [out EXCEPT !.cur[c] = t, !.st[t] = "running"]

\* sched_switch and switch_thread
SchedSwitch(k, c, t) ==
    LET cur == k.cur[c]
        out == IF k.st[cur] = "running"
               THEN RunqEnqueue([k EXCEPT !.st[cur] = "paused"], c, cur)
               ELSE k
    IN  IF t = cur THEN k
        ELSE [out EXCEPT !.cur[c] = t, !.st[t] = "running"]

\* test_better_thread with find_better_thread
TestBetterThread(k, c) ==
    LET own == FindBetterRunqThread(k, c, c)
        q == IF own # None THEN c
             ELSE FirstOffer({r \in CPU \ {c} : FindBetterRunqThread(k, c, r) # None})
        t == FindBetterRunqThread(k, c, q)
    IN  IF q = None THEN k ELSE SchedSwitch(Dequeue(k, q, t), c, t)

\* test_paused_thread, sched_test
TestPausedThread(k, c) ==
    LET f == FindThread(k, c, FALSE)
    IN  IF k.st[k.cur[c]] = "running" THEN k
        ELSE IF f.t = None THEN [k EXCEPT !.panic = "no thread"]
        ELSE SchedSwitch(f.k, c, f.t)

SchedResched(k, c) ==
    IF k.st[k.cur[c]] # "running" THEN TestPausedThread(k, c)
    ELSE TestBetterThread(k, c)

SchedIpi(k, c) == [k EXCEPT !.resched = [d \in CPU |-> d # c \/ @[d]]]

\* sched_run: queue a runnable thread where it slept, start it now if this CPU
\* idles, and interrupt the other CPUs.
SchedRun(k, c, t) ==
    LET queued == RunqEnqueue(k, k.home[t], t)
    IN  SchedIpi(IF k.cur[c] = Idle[c] THEN TestBetterThread(queued, c) ELSE queued, c)

\* sched_tick, once 10 ms have passed since the last one
SchedTick(k, c) == SchedIpi(TestBetterThread([k EXCEPT !.due = FALSE], c), c)
=============================================================================
