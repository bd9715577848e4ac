------------------------------ MODULE Threads -------------------------------
(* Threads on CPUs: trap entry and return (kern/irq.c), sleeping and waking  *)
(* up (WaitQ), scheduling (Sched), signals, exit, stop and continue of       *)
(* processes (kern/proc.c), with the cpu_sync of kern/cpu.c in the middle of *)
(* the last ones.  The big kernel lock is held by the CPU whose mode is none *)
(* of "user" (user code, or the idle loop), "sync" (waiting in cpu_sync) and *)
(* "left" (held in cpu_sync_leave).                                          *)
EXTENDS WaitQ, FiniteSets

LOCAL INSTANCE SequencesExt

CONSTANTS
    Proc,
    Threads,    \* Threads[p]: the threads p may have, its leader first
    Parent,     \* Parent[p]: proc->parent, None for the init process
    WaitQs,     \* wait queues that system calls and interrupts use
    Sent,       \* the signals that are sent: "kill", "cont", "stop"
    Timeouts,   \* the timeouts, in clock ticks, that system calls ask for
    Prios,      \* the priorities that system calls ask for
    MayYield    \* whether sched_yield is called

ASSUME ThreadsAssumption ==
    /\ DOMAIN Threads = Proc /\ DOMAIN Parent = Proc
    /\ \A t \in User : ProcOf[t] \in Proc
    /\ Queue = WaitQs \cup Proc \cup User
    /\ Timeouts \subseteq 0..MaxTicks
    /\ \E p \in Proc : Parent[p] = None

VARIABLE k

InKernel == {"syscall", "irq", "done", "trapret", "ret"}

TypeOK ==
    /\ k.cur \in [CPU -> Thread]
    /\ k.runq \in [CPU -> Seq(Thread)]
    /\ k.resched \in [CPU -> BOOLEAN]
    /\ k.mode \in [CPU -> InKernel \cup {"user", "sync", "left"}]
    /\ k.st \in [Thread -> {"unborn", "running", "paused", "waiting", "stopped", "zombie"}]
    /\ k.nest \in [Thread -> 0..2]
    /\ k.home \in [Thread -> CPU]
    /\ k.pri \in [Thread -> Nat]
    /\ k.watchers \in [Queue -> Seq(User)]
    /\ k.on \in [Thread -> Queue \cup {None}]
    /\ k.timeouts \in Seq(User)
    /\ k.left \in [Thread -> -1..Forever]
    /\ k.sigq \in [Thread -> SUBSET {"kill", "chld", "cont", "stop"}]
    /\ k.pst \in [Proc -> {"alive", "stopped", "zombie"}]
    /\ k.due \in BOOLEAN
    /\ k.sync \in [by : CPU \cup {None}, mask : SUBSET CPU, why : {"exit", "stop", None},
                   then : {"done", "ret", None}]

NoSync == [by |-> None, mask |-> {}, why |-> None, then |-> None]

Leader(p) == Head(Threads[p])
InitProc == CHOOSE p \in Proc : Parent[p] = None

\* After the boot: every CPU runs its idle thread, the init thread is queued.
Init ==
    k = [cur |-> Idle,
         runq |-> [c \in CPU |-> IF c = 0 THEN <<Leader(InitProc)>> ELSE <<>>],
         resched |-> [c \in CPU |-> c # 0],
         mode |-> [c \in CPU |-> "user"],
         st |-> [t \in Thread |-> IF t \in IdleThread THEN "running"
                                  ELSE IF t = Leader(InitProc) THEN "paused" ELSE "unborn"],
         nest |-> [t \in Thread |-> IF t \in IdleThread THEN 0 ELSE 1],
         home |-> [t \in Thread |-> 0],
         pri |-> [t \in Thread |-> IF t \in IdleThread THEN 255 ELSE 100],
         watchers |-> [q \in Queue |-> <<>>],
         on |-> [t \in Thread |-> None],
         timeouts |-> <<>>,
         left |-> [t \in Thread |-> Forever],
         sigq |-> [t \in Thread |-> {}],
         pst |-> [p \in Proc |-> "alive"],
         due |-> FALSE,
         sync |-> NoSync,
         panic |-> None]

Running == k.panic = None
LockFree == \A c \in CPU : k.mode[c] \notin InKernel

-----------------------------------------------------------------------------
\* thread_signal
ThreadSignal(s, c, t, sig) ==
    LET queued == [s EXCEPT !.sigq[t] = @ \cup {sig}]
    IN  IF s.on[t] # None THEN WakeupThread(queued, c, t) ELSE queued

\* proc_signal; no thread masks the signals of the model
ProcSignal(s, c, p, sig) == ThreadSignal(s, c, Leader(p), sig)

\* proc_wakeup_wait
WakeupWait(s, c, p) == ProcSignal(WaitqBroadcast(s, c, p), c, p, "chld")

Born(s, p) == SelectSeq(Threads[p], LAMBDA t : s.st[t] # "unborn")

\* Where a thread of p other than the current one runs: the CPUs to sync.
RunningOn(s, c, p) ==
    {d \in CPU \ {c} : s.cur[d] \in ToSet(Threads[p]) /\ s.st[s.cur[d]] = "running"}

\* cpu_sync gives the kernel lock up and waits for the CPUs of the mask to
\* leave the kernel; what two calls that overlap do is the subject of KernelLock.
CpuSync(s, c, mask, why, then) ==
    IF s.sync # NoSync THEN [s EXCEPT !.panic = "overlapping cpu_sync"]
    ELSE [s EXCEPT !.mode[c] = "sync",
                   !.sync = [by |-> c, mask |-> mask, why |-> why, then |-> then]]

\* proc_exit after its cpu_sync
ExitRest(s, c, p) == SchedResched(WakeupWait(s, c, Parent[p]), c)

\* Variant: the CPUs that run a thread of the process are not waited for.
ProcExitUnsynced(s, c, p, then) ==
    LET kill(r, t) ==
            LET w == IF r.st[t] = "waiting" THEN WakeupThread(r, c, t) ELSE r
            IN  [w EXCEPT !.st[t] = "zombie"]
        dead == FoldLeft(kill, [s EXCEPT !.pst[p] = "zombie"], Born(s, p))
    IN  [ExitRest(dead, c, p) EXCEPT !.mode[c] = then]

\* proc_exit, up to its end or its cpu_sync
ProcExit(s, c, p, then) ==
    LET kill(r, t) ==
            LET w == IF r.st[t] = "waiting" THEN WakeupThread(r, c, t) ELSE r
            IN  [w EXCEPT !.st[t] = "zombie"]
        dead == FoldLeft(kill, [s EXCEPT !.pst[p] = "zombie"], Born(s, p))
        mask == RunningOn(s, c, p)
    IN  IF mask = {} THEN [ExitRest(dead, c, p) EXCEPT !.mode[c] = then]
        ELSE CpuSync(dead, c, mask, "exit", then)

\* proc_stop
ProcStop(s, c, p, then) ==
    LET mask == RunningOn(s, c, p)
        halted == {s.cur[d] : d \in mask}
        stopped == [s EXCEPT !.pst[p] = "stopped",
                             !.st = [t \in Thread |-> IF t \in halted THEN "stopped" ELSE @[t]]]
    IN  IF s.pst[p] # "alive" THEN [s EXCEPT !.mode[c] = then]
        ELSE IF mask = {} THEN [WakeupWait(stopped, c, Parent[p]) EXCEPT !.mode[c] = then]
        ELSE CpuSync(stopped, c, mask, "stop", then)

\* proc_cont, thread_cont
ProcCont(s, c, p) ==
    LET cont(r, t) == IF r.st[t] = "stopped"
                      THEN SchedRun([r EXCEPT !.st[t] = "paused"], c, t) ELSE r
    IN  IF s.pst[p] # "stopped" THEN s
        ELSE FoldLeft(cont, [s EXCEPT !.pst[p] = "alive"], Threads[p])

-----------------------------------------------------------------------------
Cur(c) == k.cur[c]
InMode(c, m) == Running /\ k.mode[c] \in m

\* trap_handle, from user code or the idle loop
TrapEnter(c, mode) ==
    /\ InMode(c, {"user"})
    /\ LockFree
    /\ k' = [k EXCEPT !.mode[c] = mode, !.nest[Cur(c)] = @ + 1]

Syscall(c) == Cur(c) \in User /\ TrapEnter(c, "syscall")

\* A device or the timer interrupts.
Irq(c) == TrapEnter(c, "irq")

\* handle_ipi, for a reschedule or for cpu_sync
Ipi(c) ==
    /\ InMode(c, {"user"})
    /\ LockFree
    /\ k.resched[c] \/ c \in k.sync.mask
    /\ LET s == [k EXCEPT !.mode[c] = "trapret", !.nest[Cur(c)] = @ + 1,
                          !.resched[c] = FALSE]
       IN  k' = IF k.resched[c] THEN SchedResched(s, c) ELSE s

\* A handler wakes one or all of the threads on a queue.
Wake(c, q) ==
    /\ InMode(c, {"syscall", "irq"})
    /\ k' \in {WaitqSignal(k, c, q), WaitqBroadcast(k, c, q)}

\* A system call sleeps.
Sleep(c, q, tail, ticks) ==
    /\ InMode(c, {"syscall"})
    /\ k' = [WaitqSleep(k, c, q, tail, ticks) EXCEPT !.mode[c] = "ret"]

\* wait4 waits for a child or a thread, thread_sleep on a queue of its own.
SleepForChild(c) == Sleep(c, ProcOf[Cur(c)], TRUE, Forever)
SleepAlone(c, ticks) == Sleep(c, Cur(c), FALSE, ticks)

\* kill, or a signal from the terminal, to a process other than init
SendSignal(c, p, sig) ==
    /\ InMode(c, {"syscall", "irq"})
    /\ p # InitProc
    /\ k.st[Leader(p)] # "unborn"
    /\ k' = [ProcSignal(k, c, p, sig) EXCEPT !.mode[c] = "done"]

\* sys_clone: a new thread, or the leader of a new process
Clone(c, t) ==
    /\ InMode(c, {"syscall"})
    /\ k.st[t] = "unborn"
    /\ ProcOf[t] = ProcOf[Cur(c)] \/ (t = Leader(ProcOf[t]) /\ Parent[ProcOf[t]] = ProcOf[Cur(c)])
    /\ k' = IF k.st[Cur(c)] # "running" THEN [k EXCEPT !.panic = "cloning"]
            ELSE SchedRun([k EXCEPT !.st[t] = "paused", !.pri[t] = k.pri[Cur(c)],
                                    !.mode[c] = "done"], c, t)

\* sys_setpriority
SetPriority(c, pri) ==
    /\ InMode(c, {"syscall"})
    /\ k' = [k EXCEPT !.pri[Cur(c)] = pri, !.mode[c] = "done"]

\* sched_yield: the thread it finds is off its queue, and thread_sleep(0)
Yield(c) ==
    /\ MayYield
    /\ InMode(c, {"syscall"})
    /\ LET f == FindThread(k, c, TRUE)
       IN  k' = IF f.t = None THEN f.k
                ELSE [WaitqSleep(f.k, c, Cur(c), FALSE, 0) EXCEPT !.mode[c] = "ret"]

\* sys_exit: thread_exit, of the leader the whole process
ThreadExit(c) ==
    /\ InMode(c, {"syscall"})
    /\ LET t == Cur(c)
           p == ProcOf[t]
           dead == [k EXCEPT !.st[t] = "zombie", !.mode[c] = "done"]
       IN  IF t = Leader(p)
           THEN p # InitProc /\ k' = ProcExit(k, c, p, "done")
           ELSE k' = SchedResched(WakeupWait(dead, c, p), c)

\* sys_exit_group
ExitGroup(c) ==
    /\ InMode(c, {"syscall"})
    /\ ProcOf[Cur(c)] # InitProc
    /\ k' = ProcExit(k, c, ProcOf[Cur(c)], "done")

\* cpu_tick, which ends every system call and device interrupt
CpuTick(c) ==
    /\ InMode(c, {"syscall", "irq", "done"})
    /\ LET s == CheckTimeout(k, c)
           t == IF c = 0 /\ s.due /\ s.nest[s.cur[c]] < 2 THEN SchedTick(s, c) ELSE s
       IN  k' = [t EXCEPT !.mode[c] = "trapret"]

\* thread_handle_signals in trap_return: the first signal that is not ignored,
\* in the order of their numbers, by its default action.
HandleSignals(c) ==
    /\ InMode(c, {"trapret"})
    /\ LET t == Cur(c)
           p == ProcOf[t]
           handled(sigs) == [k EXCEPT !.sigq[t] = @ \ sigs, !.mode[c] = "ret"]
       IN  k' = IF k.nest[t] > 1 \/ k.st[t] = "zombie" THEN handled({})
                ELSE IF "kill" \in k.sigq[t] THEN ProcExit(handled({"kill"}), c, p, "ret")
                ELSE IF "cont" \in k.sigq[t] THEN ProcCont(handled({"chld", "cont"}), c, p)
                ELSE IF "stop" \in k.sigq[t]
                     THEN ProcStop(handled({"chld", "stop"}), c, p, "ret")
                ELSE handled({"chld"})

\* Variant: only a waiting thread is switched out.
ReturnDead(c) ==
    /\ InMode(c, {"ret"})
    /\ LET s == IF k.st[Cur(c)] = "waiting" THEN TestPausedThread(k, c) ELSE k
           n == s.cur[c]
           down == [s EXCEPT !.nest[n] = @ - 1]
       IN  k' = IF down.nest[n] > 0 THEN [down EXCEPT !.mode[c] = "syscall"]
                ELSE IF c \in k.sync.mask
                     THEN [down EXCEPT !.mode[c] = "left", !.sync.mask = @ \ {c}]
                     ELSE [down EXCEPT !.mode[c] = "user"]

\* The end of trap_return: make sure that the thread is runnable, go down one
\* level, and out of the kernel from the lowest one.
Return(c) ==
    /\ InMode(c, {"ret"})
    /\ LET t == Cur(c)
           s == IF (k.st[t] = "zombie" /\ k.nest[t] < 2) \/ k.st[t] = "waiting"
                THEN TestPausedThread(k, c) ELSE k
           n == s.cur[c]
           down == [s EXCEPT !.nest[n] = @ - 1]
       IN  k' = IF down.nest[n] > 0 THEN [down EXCEPT !.mode[c] = "syscall"]
                ELSE IF c \in k.sync.mask
                     THEN [down EXCEPT !.mode[c] = "left", !.sync.mask = @ \ {c}]
                     ELSE [down EXCEPT !.mode[c] = "user"]

\* cpu_sync returns: its targets are let go, and proc_exit or proc_stop goes on.
SyncEnd(c) ==
    /\ InMode(c, {"sync"})
    /\ k.sync.by = c
    /\ k.sync.mask = {}
    /\ LockFree
    /\ LET p == ProcOf[Cur(c)]
           s == [k EXCEPT !.mode = [d \in CPU |-> IF d = c THEN k.sync.then
                                                  ELSE IF @[d] = "left" THEN "user" ELSE @[d]],
                          !.sync = NoSync]
       IN  k' = IF k.sync.why = "exit" THEN ExitRest(s, c, p) ELSE WakeupWait(s, c, Parent[p])

\* The clock: deadlines come nearer, and the next scheduler tick is due.
TimePasses ==
    /\ Running
    /\ k' = [k EXCEPT !.left = [t \in Thread |-> IF @[t] \in {-1, Forever} THEN @[t] ELSE @[t] - 1],
                      !.due = TRUE]
    /\ k' # k

Step(c) ==
    \/ Syscall(c) \/ Irq(c) \/ Ipi(c)
    \/ \E q \in WaitQs : Wake(c, q)
    \/ \E q \in WaitQs, tail \in BOOLEAN, n \in Timeouts \cup {Forever} : Sleep(c, q, tail, n)
    \/ SleepForChild(c)
    \/ \E n \in Timeouts \cup {Forever} : SleepAlone(c, n)
    \/ \E p \in Proc, sig \in Sent : SendSignal(c, p, sig)
    \/ \E t \in User : Clone(c, t)
    \/ \E pri \in Prios : SetPriority(c, pri)
    \/ Yield(c) \/ ThreadExit(c) \/ ExitGroup(c)
    \/ CpuTick(c) \/ HandleSignals(c) \/ Return(c) \/ SyncEnd(c)

Next == TimePasses \/ \E c \in CPU : Step(c)

Spec == Init /\ [][Next]_k

\* The clock goes on and its interrupts arrive at CPU 0, reschedule interrupts
\* are taken, and no CPU stays in the kernel for ever.
FairSpec ==
    /\ Spec
    /\ []<>k.due
    /\ \A t \in User : []<>(k.left[t] \in {-1, Forever})
    /\ []<><<k.mode[0] = "user" /\ k'.mode[0] = "irq">>_k
    /\ \A c \in CPU : []<>~k.resched[c] /\ []<>(k.mode[c] \notin InKernel \cup {"sync"})

-----------------------------------------------------------------------------
\* No thread is lost between the run queues and the CPUs: a paused thread is on
\* exactly one run queue, once, and what is queued runs nowhere.
PausedQueued ==
    \A t \in Thread :
        LET at == {c \in CPU : t \in ToSet(k.runq[c])}
        IN  /\ k.st[t] = "paused" => \E c \in CPU : at = {c}
            /\ at # {} => k.st[t] \in {"paused", "zombie"} /\ \A c \in CPU : k.cur[c] # t
            /\ \A c \in CPU : \A i, j \in DOMAIN k.runq[c] :
                  k.runq[c][i] = t /\ k.runq[c][j] = t => i = j

\* No thread runs on two CPUs, and only the current threads are running.
RunsOnce ==
    /\ \A c, d \in CPU : k.cur[c] = k.cur[d] => c = d
    /\ \A t \in Thread : k.st[t] = "running" => \E c \in CPU : k.cur[c] = t

\* A CPU always has its idle thread to fall back on: test_paused_thread never
\* panics with "can't find paused thread to run".
IdleReady ==
    \A c \in CPU : \/ k.cur[c] = Idle[c]
                   \/ k.st[Idle[c]] = "paused" /\ Idle[c] \in ToSet(k.runq[c])

\* The wait queues hold exactly the waiting threads, each on the queue it says,
\* and the list of timeouts those with a deadline, the nearest first: a wakeup,
\* a signal and a timeout never meet a thread another one has woken.
WaitExact ==
    /\ \A t \in User, w \in Queue :
          Cardinality({i \in DOMAIN k.watchers[w] : k.watchers[w][i] = t})
            = IF k.st[t] = "waiting" /\ k.on[t] = w THEN 1 ELSE 0
    /\ \A t \in User :
          /\ k.st[t] = "waiting" <=> k.on[t] # None
          /\ Cardinality({i \in DOMAIN k.timeouts : k.timeouts[i] = t})
               = IF k.st[t] = "waiting" /\ k.left[t] # Forever THEN 1 ELSE 0
    /\ \A i, j \in DOMAIN k.timeouts :
          i < j => k.left[k.timeouts[i]] <= k.left[k.timeouts[j]]

\* A thread that slept inside the kernel goes on where it slept: "don't steal
\* from other CPU if we're in kernel" (find_runq_thread).
ResumesAtHome ==
    [][\A t \in User : k.nest[t] = 2 /\ k'.nest[t] = 1 => k'.cur[k.home[t]] = t]_k

\* Once proc_exit is past its cpu_sync, no CPU executes user code of the process.
DeadGone ==
    \A c \in CPU :
        /\ k.mode[c] = "user" /\ k.cur[c] \in User
        /\ k.pst[ProcOf[k.cur[c]]] = "zombie"
        => k.sync.why = "exit" /\ c \in k.sync.mask

\* The comment in trap_return: "it is always a good thing to make sure the
\* current thread is runnable when going to userland".
RunnableInUserland ==
    [][\A c \in CPU : k.mode[c] = "ret" /\ k'.mode[c] \in {"user", "left"}
                       => k'.st[k'.cur[c]] = "running"]_k

\* The run queues are "priority-ordered" (struct runq).
RunqOrdered ==
    \A c \in CPU : \A i, j \in DOMAIN k.runq[c] :
        i < j => k.pri[k.runq[c][i]] <= k.pri[k.runq[c][j]]

\* A thread that may run does run: among threads of one priority nobody starves.
PausedRuns == \A t \in User : k.st[t] = "paused" ~> k.st[t] # "paused"

\* A sleep with a timeout ends, whether or not anything else wakes the thread.
TimeoutWakes ==
    \A t \in User : k.st[t] = "waiting" /\ k.left[t] # Forever ~> k.st[t] # "waiting"
=============================================================================
