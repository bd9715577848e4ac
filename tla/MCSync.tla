------------------------------- MODULE MCSync -------------------------------
(* What threads wait for one another with, checked together: the locks of    *)
(* the kernel and of libpthread, and the calls on a pipe. "who" says which   *)
(* of them a behaviour uses, the others stay as they are initialised. The    *)
(* modules of libpthread that build on each other share their variables.     *)
EXTENDS Mutex

CONSTANTS
    Three,      \* the threads of the other components
    Target,     \* of PthreadJoin
    MaxSignals, \* of PthreadCond
    MaxRounds,  \* of PthreadBarrier
    Reader, Writer  \* the threads of the pipe

ASSUME SyncAssumption ==
    /\ IsFiniteSet(Three) /\ None \notin Three
    /\ Target \in Three
    /\ MaxRounds \in Nat

VARIABLES
    who,
    wowner, rlock_nb, rwaitq, wwaitq, rwstate, held,
    count, waiting, powner, pc, seen,
    value, waiters, cpc, cseen, owed,
    flags, freed, jpc,
    readers, writing, rwwaiting, rwpc, for, rwseen,
    bvalue, revision, bpc, bseen, round, serial,
    ovalue, opc, ran,
    rb, nreaders, nwriters, open, op, active, sent, got

rwvars == <<wowner, rlock_nb, rwaitq, wwaitq, rwstate, held>>
pmvars == <<count, waiting, powner, pc, seen>>
pcvars == <<value, waiters, cpc, cseen, owed>>
pjvars == <<flags, freed, jpc>>
prvars == <<readers, writing, rwwaiting, rwpc, for, rwseen>>
pbvars == <<bvalue, revision, bpc, bseen, round, serial>>
povars == <<ovalue, opc, ran>>
plvars == <<rb, nreaders, nwriters, open, op, active, sent, got>>
allvars == <<who, vars, rwvars, pmvars, pcvars, pjvars, prvars, pbvars, povars, plvars>>

RW == INSTANCE RWLock WITH
    Thread <- Three, Killable <- Three, state <- rwstate
PJ == INSTANCE PthreadJoin WITH Thread <- Three, owner <- powner
PR == INSTANCE PthreadRwlock WITH
    Thread <- Three, waiting <- rwwaiting, pc <- rwpc, seen <- rwseen
PB == INSTANCE PthreadBarrier WITH
    Thread <- Three, value <- bvalue, pc <- bpc, seen <- bseen
PO == INSTANCE PthreadOnce WITH Thread <- Three, value <- ovalue, pc <- opc

\* A pipe of one byte (Size - 1), and calls for two
PL == INSTANCE Pipe WITH
    Thread <- {Reader, Writer}, Readers <- {Reader}, Writers <- {Writer},
    NonBlock <- {}, Pollers <- {}, Counts <- {2}, PipeBuf <- 2, Numbers <- 2, Size <- 2,
    Byte <- {Writer} \X (0..1), MayFault <- FALSE, Named <- FALSE

SInit ==
    /\ who \in {"mutex", "rwlock", "pthread_mutex", "pthread_cond", "pthread_join",
                "pthread_rwlock", "pthread_barrier", "pthread_once", "pipe"}
    /\ Init /\ RW!Init /\ PJ!JInit /\ PR!Init /\ PB!Init /\ PO!Init /\ PL!Init
    /\ who # "pthread_join" => flags = {}

SNext ==
    /\ UNCHANGED who
    /\ \/ /\ who = "mutex" /\ Next
          /\ UNCHANGED <<rwvars, pmvars, pcvars, pjvars, prvars, pbvars, povars, plvars>>
       \/ /\ who = "rwlock" /\ RW!Next
          /\ UNCHANGED <<vars, pmvars, pcvars, pjvars, prvars, pbvars, povars, plvars>>
       \/ /\ who = "pthread_mutex" /\ PJ!Next
          /\ UNCHANGED <<vars, rwvars, pcvars, pjvars, prvars, pbvars, povars, plvars>>
       \/ /\ who = "pthread_cond" /\ PJ!CNext
          /\ UNCHANGED <<vars, rwvars, pjvars, prvars, pbvars, povars, plvars>>
       \/ /\ who = "pthread_join" /\ PJ!JNext
          /\ UNCHANGED <<vars, rwvars, prvars, pbvars, povars, plvars>>
       \/ /\ who = "pthread_rwlock" /\ PR!Next
          /\ UNCHANGED <<vars, rwvars, pmvars, pcvars, pjvars, pbvars, povars, plvars>>
       \/ /\ who = "pthread_barrier" /\ PB!Next
          /\ UNCHANGED <<vars, rwvars, pmvars, pcvars, pjvars, prvars, povars, plvars>>
       \/ /\ who = "pthread_once" /\ PO!Next
          /\ UNCHANGED <<vars, rwvars, pmvars, pcvars, pjvars, prvars, pbvars, plvars>>
       \/ /\ who = "pipe" /\ PL!Next
          /\ UNCHANGED <<vars, rwvars, pmvars, pcvars, pjvars, prvars, pbvars, povars>>

\* A thread that can run gets a CPU, and the reader of the pipe reads on or
\* closes it; that threads are killed, interrupted, time out or make another
\* call is never required.
SSpec ==
    /\ SInit /\ [][SNext]_allvars
    /\ \A t \in Thread : WF_vars(who = "mutex" /\ Resume(t))
    /\ \A t \in Three :
          /\ WF_rwvars(who = "rwlock" /\ (RW!RdResume(t) \/ RW!WrResume(t)))
          /\ WF_pbvars(who = "pthread_barrier" /\ PB!Step(t))
          /\ WF_<<pmvars, pcvars, pjvars>>(who = "pthread_join" /\ PJ!JoinStep(t))
    /\ \A t \in {Reader, Writer} :
          /\ WF_plvars(who = "pipe" /\ PL!Copying(t))
          /\ SF_plvars(who = "pipe" /\ (PL!Resume(t) \/ PL!Interrupted(t)))
    /\ SF_plvars(who = "pipe" /\ (PL!Close(Reader) \/ PL!Read(Reader, 2, 2)))

-----------------------------------------------------------------------------
\* The kernel's rwlock and the two locks of libpthread let nobody in whom the
\* lock service would not: what their counters, queues and futex words do is
\* hidden behind it (ImplementsService of RWLock, PthreadMutex, PthreadRwlock).
LocksImplement == RW!ImplementsService /\ PJ!ImplementsService /\ PR!ImplementsService

\* rwlock_unlock: until a thread is killed, nobody is left asleep, reader or
\* writer, on a lock that nobody will release.
NotStranded == RW!ReadersNotStranded /\ RW!WritersNotStranded

\* mutex_unlock and rwlock_unlock: a free lock with sleepers is taken in the
\* end, or nobody sleeps on it any more.
FreeLocksTaken == FreeMutexTaken /\ RW!FreeLockTaken

\* pthread_mutex_unlock and pthread_rwlock_unlock: whoever sleeps on the futex
\* word of a lock has announced it there, so that the unlock will wake it.
SleepersAnnounced == PJ!SleepersAnnounced /\ PR!ReadersAnnounced

\* pthread_cond_signal: a signal that found a waiter wakes one, even if it came
\* between the unlock of the mutex and the sleep.
NoLostSignal == PJ!NoLostSignal

\* pthread_join, pthread_detach and pthread_exit: nobody touches the structure
\* of a thread that has been freed.
FreedUnused == PJ!FreedUnused

\* pthread_barrier_wait: nobody leaves a round before all have come to it.
\* pthread_once: the routine runs once, and whoever returns finds it done.
MeetTogether == PB!MeetTogether /\ PO!RunOnceBeforeReturn

\* What is waited for happens. pthread_join and pthread_detach: a thread that has
\* ended and was joined or detached is freed. pthread_barrier_wait: once all
\* have come to a round all leave it. pipe_read and pipe_write: a write larger
\* than the buffer ends if the reader reads on or closes, and a read ends at
\* end of file.
WaitsEnd ==
    /\ PJ!FreedInTheEnd
    /\ PB!AllPass
    /\ PL!WritesEnd /\ PL!ReadsEndAtEof
=============================================================================
