----------------------------- MODULE KernelLock -----------------------------
(* The big kernel lock of kern/cpu.c and its use at trap entry and exit      *)
(* (kern/irq.c).  Every trap taken at nesting level 0 spins for              *)
(* g_kernel_lock with interrupts disabled and keeps it until trap_return, so *)
(* one CPU at a time executes kernel code.  cpu_sync is the one place where  *)
(* a handler gives the lock up in the middle: it stops the CPUs of a mask at *)
(* their next return to userland (cpu_sync_leave), through the shared        *)
(* counter cpu_sync_count and the shared mask cpu_sync_mask.                 *)
EXTENDS Integers, FiniteSets

CONSTANTS
    CPU,        \* the CPUs g_cpus[0 .. g_ncpus-1]
    NoCPU,      \* g_kernel_lock is free
    MaxSync,    \* bound: calls of cpu_sync in a behaviour
    Overlap,    \* may a handler call cpu_sync while another CPU is inside it
    MayPanic    \* may a handler panic

ASSUME KernelLockAssumption ==
    /\ IsFiniteSet(CPU)
    /\ NoCPU \notin CPU
    /\ MaxSync \in Nat
    /\ Overlap \in BOOLEAN
    /\ MayPanic \in BOOLEAN

VARIABLES
    klock,      \* CPU that holds g_kernel_lock, or NoCPU
    pc,         \* where each CPU is
    count,      \* cpu_sync_count
    mask,       \* cpu_sync_mask
    request,    \* cpumask argument of each CPU's current cpu_sync
    ipi,        \* CPUs with an inter-processor interrupt pending
    panicked,   \* g_panic
    nsync       \* calls of cpu_sync so far, for the bound

vars == <<klock, pc, count, mask, request, ipi, panicked, nsync>>

\* user: userland or idle loop, interrupts enabled;  enter: spinning in
\* kernel_lock at trap entry;  kernel: holds the lock;  sync: first spin of
\* cpu_sync;  relock: kernel_lock in cpu_sync;  leave: spin of cpu_sync_leave;
\* bogus: the assertion of cpu_sync failed;  panic: spin of _panic;
\* dead: dead_loop, interrupts disabled.
Location == {"user", "enter", "kernel", "sync", "relock", "leave",
             "bogus", "panic", "dead"}

ncpus == Cardinality(CPU)

Syncing(c) == pc[c] \in {"sync", "relock"}

TypeOK ==
    /\ klock \in CPU \cup {NoCPU}
    /\ pc \in [CPU -> Location]
    /\ count \in Nat
    /\ mask \in SUBSET CPU
    /\ request \in [CPU -> SUBSET CPU]
    /\ ipi \in SUBSET CPU
    /\ panicked \in Nat
    /\ nsync \in 0..MaxSync

Init ==
    /\ klock = NoCPU
    /\ pc = [c \in CPU |-> "user"]
    /\ count = 0
    /\ mask = {}
    /\ request = [c \in CPU |-> {}]
    /\ ipi = {}
    /\ panicked = 0
    /\ nsync = 0

Goto(c, l) == pc' = [pc EXCEPT ![c] = l]

-----------------------------------------------------------------------------
\* trap_handle: an interrupt, fault or system call; cpu_test_panic first.
TrapEnter(c) ==
    /\ pc[c] = "user"
    /\ ipi' = ipi \ {c}
    /\ IF panicked = 0
       THEN Goto(c, "enter") /\ UNCHANGED panicked
       ELSE Goto(c, "dead") /\ panicked' = panicked + 1
    /\ UNCHANGED <<klock, count, mask, request, nsync>>

\* Variant: the lock word is stored without testing it.
LockAcquireBlind(c) ==
    /\ pc[c] = "enter"
    /\ klock' = c
    /\ Goto(c, "kernel")
    /\ UNCHANGED <<count, mask, request, ipi, panicked, nsync>>

\* kernel_lock: the compare-and-exchange succeeds.
LockAcquire(c) ==
    /\ pc[c] = "enter"
    /\ klock = NoCPU
    /\ klock' = c
    /\ Goto(c, "kernel")
    /\ UNCHANGED <<count, mask, request, ipi, panicked, nsync>>

\* Variant: the spin loop of kernel_lock does not test for a panic.
LockSpinDeaf(c) ==
    /\ FALSE
    /\ UNCHANGED vars

\* kernel_lock: it fails, and the spin loop runs cpu_test_panic.
LockSpin(c) ==
    /\ pc[c] \in {"enter", "relock"}
    /\ klock # NoCPU
    /\ panicked # 0
    /\ panicked' = panicked + 1
    /\ Goto(c, "dead")
    /\ UNCHANGED <<klock, count, mask, request, ipi, nsync>>

\* What cpu_sync does before its spin, with its counter starting at n and the
\* CPUs of i interrupted.
StartSync(c, m, n, i) ==
    /\ pc[c] = "kernel"
    /\ ncpus > 1
    /\ nsync < MaxSync
    /\ Overlap \/ \A d \in CPU : ~Syncing(d)
    /\ count' = n
    /\ mask' = m
    /\ request' = [request EXCEPT ![c] = m]
    /\ ipi' = ipi \cup i
    /\ klock' = NoCPU
    /\ Goto(c, "sync")
    /\ nsync' = nsync + 1
    /\ UNCHANGED panicked

CpuSyncTwice(c, m) == StartSync(c, m, 1 + Cardinality(CPU \ m), m)
CpuSyncNoIpi(c, m) == StartSync(c, m, 1 + Cardinality(CPU \ (m \cup {c})), {})

\* cpu_sync up to its spin: a CPU outside the argument counts as arrived.
CpuSync(c, m) == StartSync(c, m, 1 + Cardinality(CPU \ (m \cup {c})), m)

\* cpu_sync: the spin sees cpu_sync_count >= g_ncpus.
CpuSyncSeen(c) ==
    /\ pc[c] = "sync"
    /\ count >= ncpus
    /\ Goto(c, "relock")
    /\ UNCHANGED <<klock, count, mask, request, ipi, panicked, nsync>>

\* cpu_sync: kernel_lock, the assertion, and the reset of the counter.
CpuSyncReturn(c) ==
    /\ pc[c] = "relock"
    /\ klock = NoCPU
    /\ klock' = c
    /\ IF count = ncpus
       THEN Goto(c, "kernel") /\ count' = 0
       ELSE Goto(c, "bogus") /\ UNCHANGED count
    /\ UNCHANGED <<mask, request, ipi, panicked, nsync>>

\* Variant: cpu_sync_leave reports and goes on without waiting.
CpuSyncLeaveFree(c) ==
    /\ pc[c] = "kernel"
    /\ klock' = NoCPU
    /\ Goto(c, "user")
    /\ IF count # 0 /\ c \in mask
       THEN mask' = mask \ {c} /\ count' = count + 1
       ELSE UNCHANGED <<count, mask>>
    /\ UNCHANGED <<request, ipi, panicked, nsync>>

\* cpu_sync_leave, at the end of trap_return: report to the CPU that
\* synchronises, if this CPU is asked to, and drop the lock.
CpuSyncLeave(c) ==
    /\ pc[c] = "kernel"
    /\ klock' = NoCPU
    /\ IF count # 0 /\ c \in mask
       THEN /\ mask' = mask \ {c}
            /\ count' = count + 1
            /\ Goto(c, "leave")
       ELSE /\ Goto(c, "user")
            /\ UNCHANGED <<count, mask>>
    /\ UNCHANGED <<request, ipi, panicked, nsync>>

\* cpu_sync_leave: the spin sees cpu_sync_count = 0.
CpuSyncResume(c) ==
    /\ pc[c] = "leave"
    /\ count = 0
    /\ Goto(c, "user")
    /\ UNCHANGED <<klock, count, mask, request, ipi, panicked, nsync>>

\* _panic: count this CPU in and interrupt all the others (cpu_ipi_other).
Panic(c) ==
    /\ pc[c] = "bogus" \/ (MayPanic /\ pc[c] = "kernel")
    /\ panicked' = panicked + 1
    /\ ipi' = ipi \cup (CPU \ {c})
    /\ Goto(c, "panic")
    /\ UNCHANGED <<klock, count, mask, request, nsync>>

\* _panic: every CPU has stopped; the message is printed, then dead_loop.
PanicReport(c) ==
    /\ pc[c] = "panic"
    /\ panicked >= ncpus
    /\ Goto(c, "dead")
    /\ UNCHANGED <<klock, count, mask, request, ipi, panicked, nsync>>

Step(c) ==
    \/ TrapEnter(c)
    \/ LockAcquire(c)
    \/ LockSpin(c)
    \/ \E m \in SUBSET (CPU \ {c}) : m # {} /\ CpuSync(c, m)
    \/ CpuSyncSeen(c)
    \/ CpuSyncReturn(c)
    \/ CpuSyncLeave(c)
    \/ CpuSyncResume(c)
    \/ Panic(c)
    \/ PanicReport(c)

Next == \E c \in CPU : Step(c)

Spec == Init /\ [][Next]_vars

-----------------------------------------------------------------------------
\* What the code relies on from the hardware and from the handlers: a pending
\* IPI interrupts userland, a handler ends, a spin loop that may go on does,
\* and no CPU loses the compare-and-exchange of kernel_lock for ever.
Fairness(c) ==
    /\ WF_vars(c \in ipi /\ TrapEnter(c))
    /\ SF_vars(LockAcquire(c))
    /\ WF_vars(LockSpin(c))
    /\ WF_vars(CpuSyncSeen(c))
    /\ SF_vars(CpuSyncReturn(c))
    /\ WF_vars(CpuSyncLeave(c))
    /\ WF_vars(CpuSyncResume(c))
    /\ WF_vars(PanicReport(c))

FairSpec == Spec /\ \A c \in CPU : Fairness(c)

\* Kernel code (a handler, a failing assertion, the report of a panic) runs on
\* one CPU at a time, the one that holds g_kernel_lock, although cpu_sync gives
\* the lock up and takes it back in the middle of a handler.
MutualExclusion ==
    \A c \in CPU : pc[c] \in {"kernel", "bogus", "panic"} => klock = c

\* The assertion of cpu_sync, "bogus cpu sync cpus count": when the CPU that
\* synchronises has the lock back, the counter is exactly g_ncpus.
SyncCountExact ==
    \A c \in CPU : pc[c] # "bogus"

\* What proc_exit and proc_stop call cpu_sync for: once its spin is over, and
\* until it returns, every CPU it was given is held at its return to userland,
\* so none executes the threads that the caller has just taken away.
SyncStopsTargets ==
    \A c \in CPU : pc[c] = "relock" =>
        \A t \in request[c] : pc[t] = "leave"

\* cpu_sync returns to its caller, unless the kernel panics meanwhile: neither
\* of its two spins lasts for ever.  A CPU that it waits for may not be still in
\* the spin of the cpu_sync_leave before, having missed the zero that ended it:
\* cpu_sync_leave would see the counter of the new call, and never report.
SyncReturns ==
    \A c \in CPU :
        pc[c] = "sync" /\ (\A d \in mask : pc[d] # "leave")
            ~> pc[c] = "kernel" \/ panicked > 0

\* A panic is reported: _panic stops every other CPU, whether in userland
\* (trap_handle) or waiting for the lock (kernel_lock), and ends its own wait.
\* The spins of cpu_sync and cpu_sync_leave do not test for a panic, so this is
\* about a panic that finds no CPU there.
PanicReported ==
    \A c \in CPU :
        pc[c] = "panic" /\ (\A d \in CPU : pc[d] \notin {"sync", "leave"})
            ~> pc[c] = "dead" /\ panicked >= ncpus
=============================================================================
