------------------------------- MODULE WaitQ --------------------------------
(* The wait queues of kern/waitq.c as functions on the kernel state k of     *)
(* Sched, which they extend by the fields                                    *)
(*   k.watchers[q]  waitq->watchers      k.on[t]    thread->waitq            *)
(*   k.timeouts     g_timeout_threads    k.left[t]  thread->wait_timeout     *)
(* A deadline is kept as the number of clock ticks left, Forever if there is *)
(* none and -1 once the clock is past it.                                    *)
EXTENDS Sched

LOCAL INSTANCE SequencesExt

CONSTANTS
    Queue,      \* wait queues
    ProcOf,     \* ProcOf[t]: thread->proc of a user thread
    MaxTicks    \* bound: the longest timeout, in clock ticks

Forever == MaxTicks + 1

\* Variant: the thread stays on the list of timeouts.
WakeupThreadTimed(k, c, t) ==
    LET state == IF k.pst[ProcOf[t]] = "stopped" THEN "stopped" ELSE "paused"
        awake == [k EXCEPT !.watchers[k.on[t]] = Unqueue(@, t),
                           !.on[t] = None,
                           !.st[t] = state]
    IN  IF k.st[t] # "waiting" THEN [k EXCEPT !.panic = "not sleeping"]
        ELSE IF state = "paused" THEN SchedRun(awake, c, t) ELSE awake

\* waitq_wakeup_thread, wakeup_thread
WakeupThread(k, c, t) ==
    LET state == IF k.pst[ProcOf[t]] = "stopped" THEN "stopped" ELSE "paused"
        awake == [k EXCEPT !.watchers[k.on[t]] = Unqueue(@, t),
                           !.timeouts = Unqueue(@, t),
                           !.left[t] = Forever,
                           !.on[t] = None,
                           !.st[t] = state]
    IN  IF k.st[t] # "waiting" THEN [k EXCEPT !.panic = "not sleeping"]
        ELSE IF state = "paused" THEN SchedRun(awake, c, t) ELSE awake

WakeupAll(k, c, s) == FoldLeft(LAMBDA r, t : WakeupThread(r, c, t), k, s)

\* waitq_check_timeout: the threads whose deadline has passed are in front.
CheckTimeout(k, c) ==
    WakeupAll(k, c, SelectSeq(k.timeouts, LAMBDA t : k.left[t] < 0))

Sleeping(k, q) == SelectSeq(k.watchers[q], LAMBDA t : k.st[t] = "waiting" /\ k.on[t] = q)

WaitqSignal(k, c, q) ==
    LET s == Sleeping(k, q)
    IN  IF s = <<>> THEN k ELSE WakeupThread(k, c, Head(s))

WaitqBroadcast(k, c, q) == WakeupAll(k, c, Sleeping(k, q))

\* Variant: the thread is not put on the list of timeouts.
WaitqSleepUnlisted(k, c, q, tail, ticks) ==
    LET t == k.cur[c]
        w == k.watchers[q]
    IN  IF k.st[t] # "running" THEN [k EXCEPT !.panic = "waiting on non-running thread"]
        ELSE [k EXCEPT !.watchers[q] = IF tail THEN Append(w, t) ELSE <<t>> \o w,
                       !.on[t] = q, !.st[t] = "waiting", !.home[t] = c,
                       !.nest[t] = @ + 1, !.left[t] = ticks]

\* waitq_wait_tail, waitq_wait_head and their mutex forms up to the switch:
\* prepare_sleep with add_waiting_thread, then waitq_sleep_return.
WaitqSleep(k, c, q, tail, ticks) ==
    LET t == k.cur[c]
        w == k.watchers[q]
        timed == [k EXCEPT !.left[t] = ticks]
    IN  IF k.st[t] # "running" THEN [k EXCEPT !.panic = "waiting on non-running thread"]
        ELSE [timed EXCEPT !.watchers[q] = IF tail THEN Append(w, t) ELSE <<t>> \o w,
                           !.on[t] = q,
                           !.st[t] = "waiting",
                           !.home[t] = c,
                           !.nest[t] = @ + 1,
                           !.timeouts = IF ticks = Forever THEN @
                                        ELSE InsertSorted(@, t, timed.left)]
=============================================================================
