---------------------------- MODULE MCResources -----------------------------
(* What the kernel keeps for processes, checked together: the processes with *)
(* their groups and sessions, their address spaces with shared memory        *)
(* segments, semaphores, a message queue, and the slab allocator below all   *)
(* of them. "who" says which of them a behaviour uses, the others stay as    *)
(* they are initialised.                                                     *)
EXTENDS Integers, TLC

CONSTANTS
    p1, p2,
    NoId,
    Caller,                         \* the threads that call semop, msgsnd and msgrcv
    Careful,                        \* of VmSpace
    SEMVMX, SetAllMax,              \* of SysvSem
    QBYTES, MaxSent,                \* of SysvMsg
    BPW, IntBits, Blocks, SlabsPer, MaxMetas \* of Slab

VARIABLES
    who,
    space, shm, seq, leaked, orphans,
    metas, slab, live, twice, dangling,
    sem, spc, sops, blocked, slate,
    msg, mpc, arg, halted, msent, mgot, mlate,
    k, broken

\* One process that maps one to three of its four pages
VA == INSTANCE VmSpace WITH
    Base <- 1, Word <- 16, Pages <- 4, Proc <- {p1}, Id <- {0}, SHMMNI <- 0, SegPages <- 2,
    MmapPages <- 1..3, MaxLeaked <- 0, MaxAttach <- 0, MaxOrphans <- 0, MaxEmpty <- 2,
    Probed <- TRUE

\* One that maps one or two of three pages, and has a segment among them
VM == INSTANCE VmSpace WITH
    Base <- 1, Word <- 16, Pages <- 3, Proc <- {p1}, Id <- 0..1, SHMMNI <- 1, SegPages <- 2,
    MmapPages <- 1..2, MaxLeaked <- 1, MaxAttach <- 1, MaxOrphans <- 1, MaxEmpty <- 1,
    Probed <- TRUE

\* Two processes that attach two segments
VB == INSTANCE VmSpace WITH
    Base <- 1, Word <- 16, Pages <- 3, Proc <- {p1, p2}, Id <- 0..1, SHMMNI <- 2, SegPages <- 2,
    MmapPages <- {}, MaxLeaked <- 1, MaxAttach <- 1, MaxOrphans <- 1, MaxEmpty <- 0,
    Probed <- TRUE

SL == INSTANCE Slab WITH Count <- Blocks

Op(num, op_, nowait) == [num |-> num, op |-> op_, nowait |-> nowait]

\* A wait and a post; a wait for zero that takes; sets that fail halfway, with
\* and without IPC_NOWAIT.
MCSops == {<<Op(0, -1, FALSE)>>, <<Op(0, 1, FALSE)>>,
           <<Op(0, 0, FALSE), Op(0, 1, FALSE)>>,
           <<Op(1, 1, FALSE), Op(0, -2, FALSE)>>,
           <<Op(1, -1, FALSE), Op(0, -1, TRUE)>>}

MCMessage == {[mtype |-> 1, size |-> 1], [mtype |-> 2, size |-> 2]}

\* By type, by all types but one, up to a type, any; with and without room.
MCRequest == {[msgtyp |-> 1, except |-> FALSE, msgsz |-> 1, noerror |-> FALSE],
              [msgtyp |-> 1, except |-> TRUE, msgsz |-> 2, noerror |-> FALSE],
              [msgtyp |-> -2, except |-> FALSE, msgsz |-> 1, noerror |-> TRUE],
              [msgtyp |-> 0, except |-> FALSE, msgsz |-> 1, noerror |-> FALSE]}

SEM == INSTANCE SysvSem WITH
    Thread <- Caller, Num <- {0, 1}, Sops <- MCSops, pc <- spc, late <- slate
MSG == INSTANCE SysvMsg WITH
    Thread <- Caller, Message <- MCMessage, Request <- MCRequest,
    pc <- mpc, sent <- msent, got <- mgot, late <- mlate

\* A process with two threads that waits, and vforks like its child
PV == INSTANCE Processes WITH
    MaxProc <- 3, MaxThread <- 2, MaxSess <- 1, Threaded <- {1}, Vforks <- {1, 2},
    Grouping <- {}, Stops <- {}, WaitKinds <- {"pid", "any"}, MayNotHang <- FALSE, MayFail <- FALSE

\* One whose child has two threads and is stopped, and whose clone may fail
PW == INSTANCE Processes WITH
    MaxProc <- 3, MaxThread <- 2, MaxSess <- 1, Threaded <- {2}, Vforks <- {},
    Grouping <- {}, Stops <- {2}, WaitKinds <- {"pid", "tid", "any"}, MayNotHang <- TRUE,
    MayFail <- TRUE

\* Three processes in two sessions that wait for process groups
PG == INSTANCE Processes WITH
    MaxProc <- 3, MaxThread <- 1, MaxSess <- 2, Threaded <- {}, Vforks <- {},
    Grouping <- {2}, Stops <- {}, WaitKinds <- {"grp"}, MayNotHang <- FALSE, MayFail <- FALSE

vvars == <<space, shm, seq, leaked, orphans>>
avars == <<metas, slab, live, twice, dangling>>
svars == <<sem, spc, sops, blocked, slate>>
mvars == <<msg, mpc, arg, halted, msent, mgot, mlate>>
pvars == <<k, broken>>
allvars == <<who, vvars, avars, svars, mvars, pvars>>

\* No definition tells the two processes that share the segments apart, and all
\* properties are invariants.
Symmetric == Permutations({p1, p2})

RInit ==
    /\ who \in {"maps", "mixed", "segments", "slab", "sem", "msg", "vfork", "wait", "groups"}
    /\ CASE who = "segments" -> VB!Init [] who = "mixed" -> VM!Init [] OTHER -> VA!Init
    /\ SL!Init /\ SEM!Init /\ MSG!Init
    /\ CASE who = "vfork" -> PV!Init [] who = "groups" -> PG!Init [] OTHER -> PW!Init

RNext ==
    /\ UNCHANGED who
    /\ \/ who = "maps" /\ VA!Next /\ UNCHANGED <<avars, svars, mvars, pvars>>
       \/ who = "mixed" /\ VM!Next /\ UNCHANGED <<avars, svars, mvars, pvars>>
       \/ who = "segments" /\ VB!Next /\ UNCHANGED <<avars, svars, mvars, pvars>>
       \/ who = "slab" /\ SL!Next /\ UNCHANGED <<vvars, svars, mvars, pvars>>
       \/ who = "sem" /\ SEM!Next /\ UNCHANGED <<vvars, avars, mvars, pvars>>
       \/ who = "msg" /\ MSG!Next /\ UNCHANGED <<vvars, avars, svars, pvars>>
       \/ who = "vfork" /\ PV!Next /\ UNCHANGED <<vvars, avars, svars, mvars>>
       \/ who = "wait" /\ PW!Next /\ UNCHANGED <<vvars, avars, svars, mvars>>
       \/ who = "groups" /\ PG!Next /\ UNCHANGED <<vvars, avars, svars, mvars>>

RSpec == RInit /\ [][RNext]_allvars

-----------------------------------------------------------------------------
\* mmap, munmap, mprotect, shmat, shmdt, fork, exec: the free ranges and the zones of
\* a space tile it, in order, for a program that is Careful.
SpaceTiled ==
    /\ who = "maps" => VA!SpaceTiled
    /\ who = "mixed" => VM!SpaceTiled
    /\ who = "segments" => VB!SpaceTiled

\* shm_nattch counts the zones of all processes that map the segment, those
\* dropped at exit and exec included, and a segment lives as long as it counts
\* one or alloc_ipcid has kept a reference.
SegmentsExact ==
    /\ who = "mixed" => VM!SegmentsExact
    /\ who = "segments" => VB!SegmentsExact

\* sma_alloc never hands out a block that is in use and sma_free never reports
\* a double free that is none; the lists, the bitmaps and first_free of the
\* slabs agree with the blocks in use, until a new meta gets no slab.
SlabsExact == who = "slab" => SL!NoBlockTwice /\ SL!SlabsExact

\* What semctl and msgctl report: ncnt and zcnt count the calls that wait,
\* msg_qnum and msg_cbytes what is queued; and the set or queue lives as long
\* as a call has a reference to it.
CountsExact ==
    /\ who = "sem" => SEM!CountsExact
    /\ who = "msg" => MSG!AccountsExact

\* process_sops and rollback_sops: all the operations of a call are done, or
\* none is.
AllOrNothing == who = "sem" => SEM!AllOrNothing

\* msgsnd and msgrcv: every message is queued or received, once, and those of
\* one type are received in the order they were sent.
FifoPerType == who = "msg" => MSG!FifoPerType

\* IPC_RMID ends every call that sleeps; only a thread that had already been
\* woken when the set or queue was removed can go back to sleep on it.
RemovalWakes == SEM!RemovalWakes /\ MSG!RemovalWakes

\* clone, setpgid, setsid, exit and wait4: every process is on the lists of its
\* parent and of its group, once; groups and sessions live as long as somebody
\* refers to them; and no freed memory is used, but by a wait4 that asks for the
\* rusage of a child that has ended, until a process outlives its parent, has
\* had several threads, was left behind by a failed clone, or somebody waits for
\* a group (SoundUnless of Processes has the limits).
ProcessesExact ==
    /\ who = "vfork" => PV!TreeExact /\ PV!SoundUnless
    /\ who = "wait" => PW!TreeExact /\ PW!SoundUnless
    /\ who = "groups" => PG!TreeExact /\ PG!SoundUnless

\* No wakeup is lost: nobody sleeps in wait4 for a child or thread that has
\* ended and was not reported, or in vfork without a child that will end it; in
\* semop while its operations can be done; in msgsnd while the message fits, or
\* in msgrcv while there is a message.
WaitersTold ==
    /\ who = "vfork" => PV!WaitersTold
    /\ who = "wait" => PW!WaitersTold
    /\ who = "sem" => SEM!SleepersBlocked
    /\ who = "msg" => MSG!SleepersWait

\* The free ranges of a space are kept in order (mem/region.c:283).
RangesOrdered == who = "maps" => VA!RangesOrdered
=============================================================================
