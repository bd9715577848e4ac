# Uwuntu: TLA+ models of the kernel

Uwuntu is an operating system in C: a kernel (`src/kern`, `src/mem`, `src/net`,
and `src/sys` for the architectures), loadable drivers and file systems
(`src/mod`), user libraries (`src/lib`) and programs (`src/bin`). This directory holds TLA+ models
of the kernel's concurrency core, of what the kernel keeps for processes, of its
sockets and of libpthread, the TLC runs that check them on small instances, and
proofs checked by TLAPS. `PROJECT.json` maps every definition to
the lines it models and lists components, runs, mutants, hazards and theorems.

Paths below are relative to `src/`.

## 1. The system and its hard parts

### How kernel code interleaves

`trap_handle` (`kern/irq.c`) takes one global lock, `g_kernel_lock`
(`kern/cpu.c`), with interrupts disabled, and `trap_return` gives it back. So:

- kernel code runs on one CPU at a time and is never preempted;
- a handler is atomic from its entry, or from its last wakeup, to the next point
  where it sleeps (`waitq_wait_*`) or returns;
- `cpu_sync` is the exception: it gives the lock up in the middle of a handler.

This is the granularity of the models, with two exceptions. `KernelLock` models
the lock itself, one step per access to the shared words. libpthread runs in
userland, outside the lock: the `Pthread*` modules take one step per atomic
access and one per futex call, which is a handler. Some models are finer. `Threads` splits a trap into entry, body, tick, signals and
return; the lock is held in between, so nothing else runs there. `Pipe` takes one
step per pass of a copy loop, with the pipe's mutex (`active`) held.

### Inventory

| Part | State | Hard behaviour | Module |
|---|---|---|---|
| big kernel lock, `cpu_sync`, panic stop | lock word, `cpu_sync_count`, `cpu_sync_mask`, `g_panic` | lock dropped mid-handler, shared counter, spins with interrupts off | `KernelLock` |
| mutexes, rwlocks | owner, counters, watchers | overtaking, one wakeup per unlock, killed sleepers | `Mutex`, `RWLock` |
| scheduler, wait queues | run queues, current threads, watchers, timeouts | two CPUs and one thread, three sources of one wakeup | `Sched`, `WaitQ`, `Threads` |
| signals, exit, stop, continue | signal queues, process state | threads that run elsewhere meanwhile | `Threads` |
| process tree, groups, sessions | children, zombies, reference counts | reaping against exit, vfork, failure half way | `Processes` |
| ring buffers, pipes, FIFOs, poll | positions, reader and writer counts, sleeping calls | wrap-around, partial transfers, faults, last close | `RingBuf`, `Pipe` |
| futexes, libpthread | user words, waiters | atomics against the kernel | `Pthread*` |
| System V IPC | semaphores, messages, segments | rollback, removal under sleepers | `SysvSem`, `SysvMsg`, `VmSpace` |
| address ranges, zones, slabs | range lists, zones, bitmaps | boundaries, merging, reference counts | `Region`, `VmSpace`, `Slab` |
| TCP | connections, queues, sequence numbers | loss, duplication, reordering, interrupted calls | `Tcp` |
| local stream sockets | pairs, listener queue, names | references held by sleeping calls | `LocalStream` |
| ARP | entries, queued packets | lost, late, doubled and unasked replies | `Arp` |
| files, ptrace, pages, UDP, terminals, VFS, drivers | | | not modelled |

The complete list, with a reason for each part left out, is `components` in
`PROJECT.json`.

## 2. Modules

| Module | Models | Extends |
|---|---|---|
| `KernelLock` | `kern/cpu.c`, `kern/irq.c`, `_panic` | |
| `Queues` | list removal and sorted insertion (`TAILQ` macros and loops) | |
| `LockService` | abstract: what a lock promises to readers and writers | |
| `LockThreads`, `LockDepth` | the threads of a lock and the bound on nesting | |
| `Mutex`, `RWLock` | `kern/mutex.c`, `kern/rwlock.c` | `Queues`, `LockThreads` |
| `Sched`, `WaitQ` | `kern/sched.c`, `kern/waitq.c`, as functions on the kernel state | `Queues` |
| `Threads` | `kern/irq.c` and the scheduling side of `kern/proc.c` | `WaitQ` |
| `Processes` | process tree, groups and sessions of `kern/proc.c`, `wait4` | `Queues` |
| `RingBuf`, `RingFifo` | `kern/ringbuf.c`, as operators and as a state machine | |
| `BoundedFifo` | abstract: a byte buffer | |
| `Pipe` | `kern/pipe.c`, `kern/pipebuf.c`, one-entry `kern/poll.c` | `RingBuf` |
| `PthreadMutex`, `PthreadCond`, `PthreadJoin` | `mutex.c`, `cond.c`, and join, detach and exit of `thread.c` in `lib/libpthread` | each other, in this order |
| `PthreadRwlock`, `PthreadBarrier`, `PthreadOnce` | `rwlock.c`, `barrier.c`, `once.c` in `lib/libpthread` | |
| `SysvSem`, `SysvMsg` | semaphore sets and message queues of `kern/ipc.c` | |
| `Region` | `mem/region.c`, as operators | |
| `VmSpace` | zones of `mem/space.c`, shared memory of `kern/ipc.c` | `Region` |
| `Slab` | `kern/sma.c` | |
| `Tcp` | `net/tcp.c` | `Queues` |
| `LocalStream` | `net/local/stream.c` | `Queues` |
| `Arp` | `net/arp.c` under `ip4_output` | |
| `MC*` | values of the constants for TLC, and the composed runs | |
| `*Proofs` | theorems and their proofs; `QueueProofs` has shared lemmas | |

Operators whose comment starts with "Variant" are not part of a model. Each is a
plausible mistake in the operator that follows it; replacing the operator by the
variant must break a property.

### KernelLock

`pc[c]` is where CPU `c` is. The path of a trap is `user`, `enter` (spinning in
`kernel_lock`), `kernel`, then `user` again or `leave` (the spin of
`cpu_sync_leave`). A caller of `cpu_sync` goes through `sync` and `relock`. A
failed assertion is `bogus`, the spin of `_panic` is `panic`, `dead_loop` is
`dead`. `Overlap` says whether a handler may call `cpu_sync` while another CPU is
inside it. The code does nothing to prevent that, see finding 1.

### Mutex and RWLock

A lock call is one step up to its return or its first sleep, and one step per
return from a sleep. `woken` is the important state: off the queue, runnable, not
yet back in the loop. `SleepElsewhere` is an owner that sleeps on another queue.
`Kill` is what `proc_exit` does to a thread asleep in the kernel. Both modules
refine `LockService`, in which queues and wakeups are invisible.

`mutex_trylock` and the `try` forms of the rwlock have no caller and are left
out, and so is `mutex_spinlock`, which never sleeps.

### Sched, WaitQ and Threads

The kernel state is one record `k`. Functions of `sched.c` and `waitq.c` are
operators from `k` to the state they leave, so that a handler is their
composition in the order of the code. The loops of the code are folds. A failed
kernel assertion sets `k.panic`, after which nothing happens.

`Threads` has one action per thing a trap can do: enter, sleep, wake, send a
signal, clone, change priority, yield, exit, then the tick, the signals and the
return that end every trap. A thread that sleeps inside the kernel has nesting
level 2; `Return` takes it back into the system call it slept in. `cpu_sync`
appears as a wait for the CPUs of its mask; how it counts is `KernelLock`'s
subject. Time is a number of ticks left per deadline. Where the trap code differs
between architectures (`sys/`), the model follows x86.

Signals have their default action. Left out: signal handlers, masks and frames,
ptrace stops, reaping (a thread identity is used once; `Processes` has it), the
inside of system calls beyond sleep and wakeup.

### RingBuf, RingFifo and Pipe

A ring is a record of bytes and two positions. `RingWrite` and `RingRead` are the
two passes that the loops of `ringbuf.c` can make. `RingFifo` refines
`BoundedFifo` of capacity `Size - 1` through `Contents`.

In `Pipe` each thread has at most one call under way, described by what it still
has to move (`left`), how much of that is mapped (`good`), what it has moved
(`done`) and, for poll, its events. Bytes are pairs of writer and number, so a
lost, doubled or reordered byte is visible. A file may be open both ways, closed
and, for a FIFO, opened again.

### Processes

The tree, the groups and the sessions are one record `k`: for a process its
state, parent, children, group and `vfork_rel`, for a group its session, members
and reference count. Process `p` has pid `p` and its leader is thread `<<p, 1>>`.
`clone`, `vfork`, `execve` (only that it releases a vfork parent), exit with its
`cpu_sync`, stop and continue, `setpgid`, `setsid` and `wait4` are actions, each
atomic up to its sleep. `broken` becomes "freed" or "panic" when a handler
follows a pointer to freed memory or fails an assertion, and may become "rusage"
where `wait4` reads the statistics of the process it has just freed; nothing is
asserted of what comes after. Which thread runs where is left to `Threads`.

### The Pthread modules

A step is one atomic access to the word of a lock, or one futex call. A futex
call is one step because the kernel compares and sleeps, or wakes, under the big
lock. A compare-and-exchange loop is the exchange that ends it. `PthreadJoin` puts
`pthread_exit` against `pthread_join` or `pthread_detach` on the mutex and the
condition variable of `struct pthread`, which are `PthreadMutex` and
`PthreadCond` with all their steps. The word of the rwlock is three variables,
the reader count and its two flags.

### SysvSem, SysvMsg, Region, VmSpace and Slab

`SysvSem` and `SysvMsg` model one set and one queue: creation, calls with their
sleeps, removal. A thread is asleep, woken for a reason, or idle; between the
wakeup and its next step any other call may come. A `msgrcv` that spins
(`kern/ipc.c:1583`) ends the behaviour, as it ends everything on the machine.
A sleeper that is killed is not modelled: its call never returns, so the counts and
the reference it has taken stay (finding 2 is the same loss for a mutex).

`Region` is `mem/region.c` on a sequence of free ranges. `VmSpace` has a region
and a list of zones per process, and the segments they attach. Addresses are page
numbers, and page tables and faults are left out. `munmap` and `mprotect` of no pages
are requests like the others: within a zone they leave an empty range or an empty zone
behind. Exit and exec release a space with `vm_space_free`, which closes no zone; the
history variable `orphans` counts what they drop. (`vm_space_cleanup`, which would
close them, has no caller.) `Careful` is a condition on the
program: its requests keep clear of three cases `mem/` does not handle
(`mem/region.c:46`, `mem/region.c:115`, `mem/space.c:127`). Without it the lists do
not stay exact, which `region_order` shows for the third. A free list with an empty
range may hold two ranges that touch, so that a request for pages that are all free
can meet the second case.

`Slab` keeps the bitmap word by word. `BPW` and `IntBits` are the widths of a word
and of an `int`: the masks of `kern/sma.c` are shifted `int`s, so in a wider
word the highest one is sign-extended, and a shift past the width is undefined.
A slab may get no memory; when it is the first one of a new meta, the meta is freed
and stays linked (`kern/sma.c:295`), and the behaviour ends there (`dangling`).

### Tcp, LocalStream and Arp

`Tcp` has clients on one host and a listener with its children on the other. All
clients connect to one listener, so a client's port names a connection. The
network is a sequence of segments per direction; it may lose, double (at once or
late) or overtake `MaxFaults` of them. Data and numbers are in bytes: a call sends what
`Budgets` says, `send_data` cuts it into segments of at most `Mss` bytes, and numbers
wrap at `Modulus`. `clean` and `rebound` are history:
what the network has done so far, and whether a `bind` of a bound socket failed.

`LocalStream` has clients of one bound and listening name, the queue, the pairs
of buffers that a connection consists of, and `socketpair`. `recv` and `send` move one
byte and sleep with the socket's mutex held, as the code does (`net/local/stream.c:112`).
`release` reads the name from the structure it has just freed; the model takes
both outcomes, the old value and (`corrupt = "late"`) any other, after which it stops.

`Arp` has one entry per host on the link. Requests and replies are on a wire that
loses them or brings a reply unasked or twice. A driver may refuse a packet, and memory may
run out. `arp_fetch` then returns with the list's spinlock held
(`net/arp.c:128`), and the model stops, because the next use of ARP spins for ever.

## 3. Runs

Components that do not share state are checked together in three composed runs.
A variable `who`, chosen in the initial state, names the component a behaviour
uses, and the others stay as they were initialised. The behaviours of such a run
are the union of those of its components, and a property says of each what it
promises.

| Run | Instance | Properties |
|---|---|---|
| `kernel_lock` | 3 CPUs, 2 rendezvous, panics | `MutualExclusion`, `SyncCountExact`, `SyncStopsTargets`, `SyncReturns`, `PanicReported` |
| `kernel_lock_overlap` | the same, rendezvous may overlap, no other panic | `SyncCountExact`, violated |
| `sync` | mutex (4 threads), rwlock, the locks, condition variable, barrier, once and join of libpthread (3 threads), a pipe | `NoLostWakeup`, `NotStranded`, `SleepersAnnounced`, `FreedUnused`, `MeetTogether`, `NoLostSignal`, `ImplementsService`, `LocksImplement`, `FreeLocksTaken`, `WaitsEnd` |
| `mutex_killed` | 3 threads | `KilledHoldsNothing`, violated |
| `threads_safety` | 2 CPUs, 2 processes, 3 threads, a shared wait queue, kills | `PausedQueued`, `RunsOnce`, `DeadGone`, `ResumesAtHome`, `RunnableInUserland` |
| `threads_jobs` | 2 CPUs, 2 single-threaded processes, stop, continue, yield, a priority change, 2 timeouts, `wait4` | `WaitExact`, `RunqOrdered` |
| `threads_live` | 2 CPUs, 3 threads, one timeout | `PausedRuns`, `TimeoutWakes` |
| `threads_yield` | 2 CPUs, 3 threads, yield, one timeout, no signals | `PausedQueued`, violated |
| `pthread_rwlock` | 3 threads | `FreeForWriters`, violated |
| `ipc` | two pipes, a ring, three TCP and two local socket instances, ARP | `StreamExact`, `SleepersWait`, `PollersTold`, `TcpStreamExact`, `ConnectAnswered`, `ConnectionsSound`, `ImplementsFifo` |
| `resources` | three sets of address spaces, slabs, semaphores, messages, three process trees | `SpaceTiled`, `SegmentsExact`, `SlabsExact`, `CountsExact`, `AllOrNothing`, `FifoPerType`, `RemovalWakes`, `ProcessesExact`, `WaitersTold` |
| `region_order` | as `resources`, programs that are not `Careful` | `RangesOrdered`, violated |

Distinct states of the passing runs: `kernel_lock` 12 089, `sync` 138 702,
`threads_safety` 531 404, `threads_jobs` 1 124 213, `threads_live` 266 066, `ipc`
934 250, `resources` 304 149. Each takes less than four minutes on two cores.

### What the bounds leave in

- Three CPUs: a caller, a target and a third CPU that is in neither role, enters
  the kernel meanwhile or calls `cpu_sync` too. Two calls are enough for one to
  meet the leftovers of the other.
- Four threads on a mutex: an owner, a woken thread, a sleeper and an overtaker.
  Depth 2 tells the first unlock from the last. Three threads on the other locks:
  a reader, a writer and one more of either kind. Three rounds of a barrier:
  one that is left while the next is entered, and a reuse of the counter after it.
- Two CPUs and three threads: stealing, a process whose second thread runs
  elsewhere when it exits, and fewer CPUs than threads. `threads_jobs` has one
  thread per process and no shared queue, because stop, timeouts and priorities
  multiply the states. A `SIGCONT` to a process that is not stopped is the signal
  that interrupts a sleep and does nothing else. Timeouts of 0 and 1 tick give two
  deadlines to order.
- A ring of three bytes (two usable) is wrapped or not, full, half full and empty,
  and requests of 0 to 4 end at, before and after the end of the buffer. The
  theorems hold for every size.
- Pipes of two usable bytes, `PIPE_BUF` 2, requests of 2, 3 and 4: below, at and
  above both limits. Bytes are numbered modulo 3, more than the ring can hold, so
  numbers in it are distinct. One pipe is a FIFO with a non-blocking thread that has
  both ends, pollers and reopening; the other has buffers mapped in part; the one of
  `sync`, of one byte, is for liveness.
- TCP, `who = "tcp_data"`: one connection, two calls of one to three bytes from one
  side or the other, segments of at most two bytes into a buffer of two, one fault of
  the network, and numbers that start at 3 and wrap at 8: a call of one segment and
  one of two, and a first segment of one byte and one of two.
  `who = "tcp"`: two clients, two children, two SYNs, binding and reconnecting over
  a network without faults, and two ephemeral ports, so that they are used again.
  `who = "accept"`: two clients that use one port in turn, and two threads in accept.
- Local sockets: two clients, two acceptors and a queue of two; and one client or a
  socketpair with data in both directions.
- ARP: two hosts with two addresses, two packets each and one fault: a packet behind a
  lost request and one that asks again, an address that changes.
- Three processes: a parent, a child and a grandchild. Three instances share the
  features, because together they are too many states: a second thread and vfork,
  stops and failing clones with `WNOHANG`, and two sessions with groups.
- One process on four pages, with mappings of one to three pages and two empty zones or
  ranges at a time, has every way for a free to touch its neighbours. One on three
  pages mixes mappings with a segment. Two processes and two segments share, fork, exec
  and exit, and may drop one zone of a segment.
- Words of 4 bits, an `int` of 2 and slabs of 5 blocks: a second word that is
  used in part, and a mask whose sign extension covers the rest of its word. Two
  slabs per meta and two metas move a slab through all the lists.
- Semaphores: two per set and three callers, with `SEMVMX` 1 so that the limit is
  reached, and lists of operations that fail at their second one. Messages: two
  bytes of room, messages of one and of two bytes, all four ways to choose.

Symmetry is used in `resources`, where all properties are invariants and no
definition tells the two processes of `VmSpace` apart. It is unsound for the
temporal properties of the other large runs, and the threads there have roles.

`CHECK_DEADLOCK FALSE` appears where the system may really stop: after a panic,
when every thread has been killed or has ended, when both ends of an unnamed pipe
are closed, when the bounds on rounds, messages, segments or processes are used
up, and after the use of freed memory, where a model stops.

### Fairness

- `KernelLock`: a pending IPI interrupts userland, a handler ends, a spin loop
  whose condition stays true is left (weak fairness). A CPU does not lose the
  compare-and-exchange for ever (strong fairness on the two ways to take the
  lock). The code uses a plain test-and-set lock, so this last point is an
  assumption about the hardware, not a guarantee of the code.
- `Mutex`, `RWLock`: a woken thread is on a run queue and gets a CPU. This is
  what `PausedRuns` shows for threads of one priority. Nothing is assumed about
  unlocking.
- `PthreadBarrier`, `PthreadJoin`: a thread inside a call of libpthread takes its
  next step (weak fairness), again because it gets a CPU. Nobody has to call
  `pthread_barrier_wait`, `pthread_join` or `pthread_exit`.
- `Threads`: the clock goes on, its interrupts arrive at CPU 0, reschedule
  interrupts are taken, no CPU stays in the kernel. Stated as `[]<>` formulas,
  which TLC handles better than fairness of actions on one large record.
- `Pipe`: calls under way make progress and a woken call gets the pipe's mutex
  again. For the readers, a user program that goes on reading or closes its file:
  this is a condition on the program, without which a writer may rightly wait.
- Interruptions, kills, timeouts and faults of the network are never required. The
  specifications of `ipc` and `resources` have no fairness: their properties are
  safety properties, in which a lost wakeup is a state (asleep, and what is waited
  for is there).

## 4. What the properties say

The comment above each property states it. The ones a change to the code would
most likely break, and the limits built into them:

**Locks and threads**

- `SyncStopsTargets`: `proc_exit` may free what other CPUs were using, because
  those CPUs are held at their return to userland.
- `SyncReturns` holds for a call none of whose targets is still in the spin of
  the previous call. Without that condition it fails: the target missed the zero
  that ended its wait (`kern/cpu.c:112`) and both wait for each other.
- `PanicReported` holds for a panic that finds no CPU in the spins of `cpu_sync`
  and `cpu_sync_leave`, which do not look for one.
- `NoLostWakeup`, `NotStranded`: an unlock wakes one thread (or all readers), and
  that is enough whatever overtakes it, until a thread is killed.
- `ImplementsService`, `LocksImplement`: the four locks let nobody in whom
  `LockService` would not. `SleepersAnnounced` is why a futex lock need not wake
  anybody when its word says nobody waits.
- `FreedUnused`: the joiner may free `struct pthread` while the exiting thread is
  still in `pthread_mutex_unlock`. All that thread has left is the `FUTEX_WAKE` on
  an address.
- `PausedQueued`, `RunsOnce`: no thread is lost between the queues and the CPUs,
  and none runs twice. `threads_safety` has no yield (finding 3) and no stop signals.
- `RunnableInUserland` does not hold with `SIGSTOP`, and `threads_safety` does
  not send it: a thread stopped while another CPU runs it goes back to user code,
  because `trap_return` switches away from zombie and waiting threads only
  (`kern/proc.c:1730`).
- `WaitExact`: signal, timeout and wakeup never meet a thread already woken. It is
  checked with deadlines, in `threads_jobs`.

**Pipes and sockets**

- `StreamExact` counts what went through the ring. A faulting call may have moved
  bytes although it returns an error.
- `PollersTold` has one exception built in: a write that sleeps half way has not
  told the pollers of the bytes it stored (`kern/pipe.c:59`). It is checked
  with fully mapped buffers. With faults it fails, because a read or write that
  faults after its first copy returns an error and tells nobody.
- `TcpStreamExact` holds while the network only doubles segments. A lost or
  overtaken one leaves a hole, since `handle_pkt` takes any number above the one it
  expects (`net/tcp.c:927`) and drops a segment that does not fit without asking
  for it again; comparisons are plain, so numbers must not wrap. The
  client's side misses the server's first segment: `forge_synack` numbers the
  SYN|ACK like it, and it is refused as old. The client then
  expects the second byte of that segment: where it had several, numbers stay behind, and
  a copy of a later segment can be taken for new. In that case the property says only that nothing else
  is missing and that what is read for the first time is in order.
- `ConnectAnswered`: nothing is retransmitted and connect has no timeout, so a lost
  SYN is a connect that sleeps for ever. While nothing is lost, the answer reaches the
  socket that waits, whatever others bind, close and reconnect.
- `StreamExact` and `ConnectAnswered` also speak of packets that wait for ARP: a later
  one never overtakes them, and the question or its answer is on the way unless it was
  lost. Then they wait until the next packet to that host asks again. A request from the
  host itself does not release them (`net/arp.c:260`).
- `ConnectionsSound`: two sockets never have the same two ends, until a `bind` of a
  bound socket fails and overwrites its address. Buffers live as long as their
  connection, until a connect is interrupted, refused or cannot answer: those paths
  free them twice or leave the socket connecting (`net/tcp.c:350`, `:386`). For local
  sockets the pair is exact until a connect is interrupted, which leaves the socket
  in the listener's queue with its pair freed (`net/local/stream.c:323`). The name's
  count misses one reference per accepted socket (`net/local/stream.c:376`),
  and nothing else. All of this is up to the read of a freed structure in `release`
  (`net/local/stream.c:438`), where that gives another value.

**What the kernel keeps**

- `SpaceTiled`: every page is free or in one zone, and nothing that holds a page is
  hidden behind an early exit of a list, for a `Careful` program. Requests of no pages
  leave empty entries, in front of which all of this still holds; only that free
  ranges are merged is lost.
- `SegmentsExact`: a segment lives as long as a zone maps it, with two exceptions that the
  model counts: exit and exec drop zones without closing them (`mem/space.c:261`), so
  a segment that is attached then is never freed, and `alloc_ipcid` keeps references when
  it looks for an id.
- `SlabsExact`: it holds on words wider than `int` because the sign extension of the
  last mask makes the rest of the word look taken: half of it is wasted, and no
  undefined shift is reached. It says nothing once a new meta has got no slab.
- `RemovalWakes`: `IPC_RMID` ends every sleep except that of a thread already woken for
  another reason, which does not look, and sleeps again until a signal comes.
- `FifoPerType` holds for messages of one type. A `msgrcv` with a negative type takes
  the first message low enough, not the lowest.
- `ProcessesExact`: the lists of the tree and the counts of groups and sessions are
  exact as long as no freed memory has been used. A `wait4` with a `rusage` pointer
  reads the statistics of the process it has just freed, in every reap
  (`kern/syscall.c:1458`). That no other freed memory is used has four named exceptions
  (`SoundUnless`): an orphan keeps a pointer to its reaped parent
  (`kern/proc.c:1705`), two threads of a process meet in `wait4` or vfork, a failed
  clone leaves a process without a thread (`kern/proc.c:1068`), or somebody waits for a
  group, which looks at the first member only and reads an uninitialised pointer
  when there is none.
- `WaitersTold` holds for vfork until a second use of `vfork_rel` meets the first:
  the field serves both as the child waited for and as the parent held up
  (`kern/proc.c:1108`).

## 5. Findings

1. `kernel_lock_overlap`. The assertion "bogus cpu sync cpus count"
   (`kern/cpu.c:98`) fails when two CPUs are inside `cpu_sync` at once. The lock
   is dropped at line 94, and the counter and the mask are global.
2. `mutex_killed`. The comment at `kern/proc.c:1659` says that a thread woken by
   `proc_exit` must not be unscheduled, since it has to clean up its kernel stack.
   Line 1675 makes it a zombie at once, and a mutex it holds stays held.
3. `threads_yield`. `sched_yield` (`kern/sched.c:301`) takes another thread off
   its run queue and never puts it back: a paused thread no CPU can find.
4. `pthread_rwlock`. The last reader's unlock (`lib/libpthread/src/rwlock.c:179`)
   keeps `RWLOCK_WAITING`, and a writer takes the word from 0 only. After a wait
   behind a reader no writer gets the lock again, although the test at
   `bin/tests/pthread.c:153` expects an unlocked lock to be free for one.
5. `region_order`. `munmap` of a range that begins in front of a zone and ends inside
   it frees the wrong pages (`mem/space.c:130`). The free ranges then overlap, and the
   order the early exits of `mem/region.c:283` rely on is lost.

The passing runs stay clear of these: no overlap in `kernel_lock`, wakeup
properties until the first kill in `sync`, no yield in `threads_safety`,
`SleepersAnnounced` of the pthread rwlock for readers only, and `Careful` programs
in `resources`. `threads_jobs` includes yield, which its properties survive.

Some weaknesses found on the way are not findings, because no document, comment or
test of the repository says otherwise. They appear as the limits of section 4 and in
the notes of `hazards`.

## 6. Proofs

All theorems hold for every value of the constants that the named assumptions
allow. TLC evaluates those assumptions in the runs.

| Module | Theorem | Statement |
|---|---|---|
| `KernelLockProofs` | `TypeCorrect` | `Spec => []TypeOK` |
| | `KernelExclusion` | `Spec => []MutualExclusion`, overlap and panics included |
| | `SyncAssertionHolds` | without overlap, `Spec => []SyncCountExact` |
| | `SyncRendezvous` | without overlap, `Spec => []SyncStopsTargets` |
| `SleepLockProofs` | `MutexOwnership` | `Spec => []Ownership` |
| | `MutexQueueExact` | `Spec => []QueueExact` |
| | `MutexNoLostWakeup` | `Spec => []NoLostWakeup` |
| | `MutexImplementsService` | `Spec => ImplementsService` |
| | `RWLockExclusion` | `RW!Spec => []RW!Exclusion` |
| | `RWLockNotStranded` | `RW!Spec => [](RW!ReadersNotStranded /\ RW!WritersNotStranded)` |
| | `RWLockImplementsService` | `RW!Spec => RW!ImplementsService` |
| `RingBufProofs` | `RingTypeOK` | `Spec => []TypeOK` |
| | `RingSizesAgree` | `Spec => []SizesAgree` |
| | `RingImplementsFifo` | `Spec => ImplementsFifo` |
| `PthreadProofs` | `PthreadMutexSleepersAnnounced` | `Spec => []SleepersAnnounced` |
| | `PthreadMutexImplementsService` | `Spec => ImplementsService` |
| | `CondNoLostSignal` | `CSpec => []NoLostSignal` |
| | `JoinImplementsCond` | `JSpec => CSpec`, for a target that is one of the threads |
| | `JoinFreedUnused` | `JSpec => []FreedUnused`, likewise |
| `FutexProofs` | `PthreadReadersAnnounced` | `Spec => []ReadersAnnounced` |
| | `PthreadRwlockImplementsService` | `Spec => ImplementsService` |
| | `BarrierMeetsTogether` | `PB!Spec => []PB!MeetTogether`, for a finite, nonempty set of threads |
| | `OnceRunsBeforeReturn` | `PO!Spec => []PO!RunOnceBeforeReturn` |
| `SyncProofs` | `SyncNotStranded`, `SyncSleepersAnnounced`, `SyncNoLostSignal`, `SyncFreedUnused`, `SyncMeetTogether`, `SyncLocksImplement` | `SSpec => []X` for each invariant X of the `sync` run of that name, and `SSpec => LocksImplement` |

The assumptions: the sets of CPUs and of threads are finite and do not contain the
value that stands for none; bounds are natural numbers; a mutex that is not
recursive has depth 1; a ring has at least one byte. Each lock module has its own
`ImplementsService`. The `sync` run checks that of `Mutex` under this name and the
others as the conjuncts of `LocksImplement`. A proof module treats a second component
through an `INSTANCE` (`RW`, `PB`, `PO`), whose names then have its prefix.

**Rendezvous.** `SyncCountExact` and `SyncStopsTargets` are not inductive: they
speak of the end of the wait only. `SyncInv` adds the accounting during it
(`SyncAccounts`): the counter plus the CPUs still in the mask is `g_ncpus`, and
the requested CPUs no longer in the mask are held. It also needs that one CPU at
most is inside `cpu_sync` (`OneSync`), that the counter is zero otherwise
(`QuietCount`), and that a panic keeps the lock (`PanicHoldsLock`), for then no
handler runs. When the counter reaches `g_ncpus` the mask is empty, so every
target is held. The cardinality facts are in `CPUSubset` and `CountOfOthers`.

**Queues.** `Exact(q, S)` says that `q` holds each member of `S` once and nothing
else. `QueueProofs` shows what an append, a removal of the head and a removal
anywhere do to it (`AppendExact`, `TailExact`, `UnqueueExact`). Both kernel locks use
these lemmas, with `S` the threads asleep on the queue.

**Mutex.** `Ownership` is inductive with `TypeOK` (`Inv`). The queue needs it too:
a thread that sleeps was not on the queue before (`OffQueue`). The refinement maps
every action to one action of `LockService` or to a stutter (`ServiceStep`).

**Kernel rwlock.** `RWInv` is the type, `Exclusion`, exactness of both queues, and that a
thread inside a lock call holds nothing. The last is what makes `rlock_nb` the
number of readers across a wakeup. That nobody is stranded follows one action at a
time: an unlock that finds the writers' queue nonempty wakes its head, and
exactness says that this is a writer asleep.

**libpthread mutex.** `IInv` relates the word to the threads: the count is positive
exactly while a thread has the lock or is about to give it up, and the waiting bit
is set only then. A thread about to sleep has seen the lock held, so its sleep
succeeds only if the bit is still there (`SleepersAnnounced`).

**Condition variable.** `CSpec` is the condition variable with its mutex. Every step of
it is a step of the mutex or leaves that alone (`CondUsesMutex`), so `IInv` carries
over. `NoLostSignal` speaks of sets of waiters to whom a wakeup is owed. `CInv` adds
where each thread is in the mutex while it is in a call of `cond.c` (`Inside`) and
what keeps a debt alive (`Due`): as long as all of a set wait, one of them has not
unlocked the mutex yet, or the signal or broadcast that owes it is still to wake.
A waiter that has not fallen asleep yet holds a value read before the signal
incremented the word, so its `FUTEX_WAIT` fails.

**Join, detach, exit.** `JInv` says that the word of the condition variable moves only
when the target exits, so nobody comes back from `pthread_cond_wait` before; that
one other thread joins or detaches; and that whoever has freed the structure was
the only one left in the calls on it. The calls are calls of `cond.c` and `mutex.c`
that a program may make (`JoinImplementsCond`), which brings in `IInv` and `CInv`.

**Once.** `OInv` is the three stages of the word: nobody has called; one thread runs
`init()` and no other may pass; `init()` has run.

**libpthread rwlock.** `PInv` says that the word is exact (`WordExact`: it counts the readers,
or there is one writer) and that a reader about to mark the word or to sleep has seen it
locked for writing (`SeenLocked`). A statement for writers would be false, see
finding 4.

**Barrier.** `BInv` places every thread relative to the revision (`Placed`) and says
what the value counts (`Counted`): the threads that wait, or, once the last has
come, nothing, and then all others wait. A slow thread of an earlier round is at most
one revision behind, because the next round cannot end without it.

**All locks together.** `SyncProofs` is about the module that the `sync` run checks. Each
step of the composed system is a step of one component and leaves the variables of
the others alone, so a behaviour of the whole is a behaviour of every component
(`PthreadUse`, `FutexUse`, `RWProved`), and what is proved of the component
holds. The three uses of `PthreadJoin`'s variables (mutex, condition variable,
join) are an exception: they share them, and `AnyUse` of `PthreadProofs` covers a
behaviour that is any of the three.

**Ring buffer.** `WriteChunkAppends` and `ReadChunkTakes` say that one pass appends
to, or takes from, `Contents`. `SecondPass` says that after a write pass that did
not take everything the room left is contiguous, so that the second pass is the
last. `RingWriteAppends` and `RingReadTakes` combine two passes, and the
refinement follows from them.

Only model-checked: all liveness properties, because fairness and `ENABLED` are
outside what TLAPS proves here, and the invariants and action properties of
`Threads`, `Processes`, `Pipe`, `SysvSem`,
`SysvMsg`, `VmSpace`, `Slab`, `Tcp`, `LocalStream` and `Arp`. Those of `VmSpace`, `SysvSem` and
`SysvMsg` rest on folds over lists, and induction over data is out of the prover's
reach. No module declares a `RECURSIVE` operator.

## 7. Not modelled

- Parsing and formatting (ELF, ACPI and AML, boot tables, procfs, sysfs, partition
  tables), sequential helpers (libc), register-level code (`sys/`), device
  protocols and on-disk layouts (`mod/`) and user programs: they run in one
  thread or depend on devices, and TLC has little to say about them. They are
  most of the repository's lines. The contract of the architecture layer
  (interrupts off in the kernel, IPIs delivered in userland) is what `KernelLock`
  and `Threads` assume.
- Page tables, page faults, copy on write and the physical allocator: `VmSpace`
  stops at zones.
- The file table, ptrace, terminals, VFS nodes, UDP and raw sockets: protocols of
  their own that are not modelled yet.
- Parts of modelled components, listed in the notes of `components`: signal handlers and
  masks, poll with several entries or a timeout, time limits of semaphores and
  futex locks, delivery over the loopback interface (which hands a segment to the
  receiver inside the sender's call), `cpu_sync` within a stop, permissions and
  options, the kill of a thread that sleeps in `semop`, `msgsnd` or `msgrcv`.
- Composition across components that share state: a lock is not the lock a pipe call
  really takes, and a sleeping call of `Tcp` is not a thread of `Threads`. What
  one model assumes of another (a woken thread runs; a handler is atomic up to its
  sleep) is a property checked there: `PausedRuns`, `MutualExclusion`.

## 8. What is left

In order of importance:

1. **ptrace, signal handlers and masks** on top of `Threads`, and the stop of a
   process whose threads run elsewhere. The ptrace stop is `kern/proc.c:1756`.
2. **Files**: descriptors, sharing of `struct file`, and their release at exit; **poll**
   with several entries (`kern/poll.c:69`, `kern/syscall.c:3451`).
3. **Physical pages and faults**: reference counts through copy on write.
4. **UDP** and raw sockets.
5. **Terminals** over two pipe buffers, with their minimum and time limit.
6. **Proofs**: `StreamExact` and `SleepersWait` of `Pipe`, `RunsOnce` and
   `PausedQueued` of `Threads`. A ring of size 0 (`kern/ringbuf.c:131`) is excluded by
   `SizeAssumption` and left to its callers.
