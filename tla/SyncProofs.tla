----------------------------- MODULE SyncProofs -----------------------------
(* What the proofs about the locks say of the behaviours that are checked    *)
(* together: each component of MCSync moves by its own steps only, so a      *)
(* behaviour of the whole is one of each component. Many definitions are     *)
(* expanded twice, as MCSync names them and as the proofs do.                *)
EXTENDS MCSync, TLAPS

-----------------------------------------------------------------------------
(* The mutex, the condition variable and the threads of libpthread           *)

JP == INSTANCE PthreadProofs WITH Thread <- Three, owner <- powner

\* A behaviour uses the calls of thread.c, or only those of cond.c, or only
\* those of mutex.c: then no thread is freed, and no signal is sent.
LEMMA PthreadUse ==
    SSpec => \/ JP!JSpec
             \/ JP!CSpec /\ [](freed = None)
             \/ JP!Spec /\ [](freed = None /\ owed = {})
<1>1. SInit => JP!JInit /\ JP!CInit /\ JP!Init /\ freed = None /\ owed = {}
  BY DEF SInit, PJ!JInit, PJ!CInit, PJ!Init, JP!JInit, JP!CInit, JP!Init
<1>2. who \notin {"pthread_mutex", "pthread_cond"} /\ [SNext]_allvars =>
        /\ (who \notin {"pthread_mutex", "pthread_cond"})'
        /\ [JP!JNext]_<<JP!vars, JP!jvars>>
  BY DEF SNext, allvars, pmvars, pcvars, pjvars, PJ!mvars, PJ!Step, PJ!Lock, PJ!TryLock, PJ!Relock,
         PJ!Acquire, PJ!Mark, PJ!Wait, PJ!Interrupt, PJ!Own, PJ!Unlock, PJ!Release, PJ!WakeAll,
         PJ!Goto, PJ!vars, PJ!cvars, PJ!CondStep, PJ!CGoto, PJ!Waits, PJ!Served, PJ!MutexCall,
         PJ!MutexStep, PJ!CondWait, PJ!Load, PJ!CondSleep, PJ!CondInterrupt, PJ!CondTimeout,
         PJ!CondReturn, PJ!Signal, PJ!Broadcast, PJ!Woken, PJ!CondWake, PJ!JNext, PJ!jvars,
         PJ!JGoto, PJ!Locks, PJ!Unlocks, PJ!Has, PJ!Left, PJ!Destroy, PJ!Call, PJ!Join, PJ!Joined,
         PJ!Detach, PJ!Detached, PJ!Exit, PJ!ExitLocked, PJ!ExitUnlock, PJ!JoinStep, JP!mvars,
         JP!Step, JP!Lock, JP!TryLock, JP!Relock, JP!Acquire, JP!Mark, JP!Wait, JP!Interrupt,
         JP!Own, JP!Unlock, JP!Release, JP!WakeAll, JP!Goto, JP!vars, JP!cvars, JP!CondStep,
         JP!CGoto, JP!Waits, JP!Served, JP!MutexCall, JP!MutexStep, JP!CondWait, JP!Load,
         JP!CondSleep, JP!CondInterrupt, JP!CondTimeout, JP!CondReturn, JP!Signal, JP!Broadcast,
         JP!Woken, JP!CondWake, JP!JNext, JP!jvars, JP!JGoto, JP!Locks, JP!Unlocks, JP!Has, JP!Left,
         JP!Destroy, JP!Call, JP!Join, JP!Joined, JP!Detach, JP!Detached, JP!Exit, JP!ExitLocked,
         JP!ExitUnlock, JP!JoinStep
<1>3. who = "pthread_cond" /\ [SNext]_allvars =>
        (who = "pthread_cond")' /\ [JP!CNext]_(JP!vars) /\ (freed = None => (freed = None)')
  BY DEF SNext, allvars, pmvars, pcvars, pjvars, PJ!mvars, PJ!Step, PJ!Lock, PJ!TryLock, PJ!Relock,
         PJ!Acquire, PJ!Mark, PJ!Wait, PJ!Interrupt, PJ!Own, PJ!Unlock, PJ!Release, PJ!WakeAll,
         PJ!Goto, PJ!CNext, PJ!vars, PJ!cvars, PJ!CondStep, PJ!CGoto, PJ!Waits, PJ!Served,
         PJ!MutexCall, PJ!MutexStep, PJ!CondWait, PJ!Load, PJ!CondSleep, PJ!CondInterrupt,
         PJ!CondTimeout, PJ!CondReturn, PJ!Signal, PJ!Broadcast, PJ!Woken, PJ!CondWake, JP!mvars,
         JP!Step, JP!Lock, JP!TryLock, JP!Relock, JP!Acquire, JP!Mark, JP!Wait, JP!Interrupt,
         JP!Own, JP!Unlock, JP!Release, JP!WakeAll, JP!Goto, JP!CNext, JP!vars, JP!cvars,
         JP!CondStep, JP!CGoto, JP!Waits, JP!Served, JP!MutexCall, JP!MutexStep, JP!CondWait,
         JP!Load, JP!CondSleep, JP!CondInterrupt, JP!CondTimeout, JP!CondReturn, JP!Signal,
         JP!Broadcast, JP!Woken, JP!CondWake
<1>4. who = "pthread_mutex" /\ [SNext]_allvars =>
        /\ (who = "pthread_mutex")'
        /\ [JP!Next]_(JP!mvars)
        /\ freed = None /\ owed = {} => (freed = None /\ owed = {})'
  BY DEF SNext, allvars, pmvars, pcvars, pjvars, PJ!Next, PJ!mvars, PJ!Step, PJ!Lock, PJ!TryLock,
         PJ!Relock, PJ!Acquire, PJ!Mark, PJ!Wait, PJ!Interrupt, PJ!Own, PJ!Unlock, PJ!Release,
         PJ!WakeAll, PJ!Goto, JP!Next, JP!mvars, JP!Step, JP!Lock, JP!TryLock, JP!Relock,
         JP!Acquire, JP!Mark, JP!Wait, JP!Interrupt, JP!Own, JP!Unlock, JP!Release, JP!WakeAll,
         JP!Goto
<1>5. who \notin {"pthread_mutex", "pthread_cond"} \/ who = "pthread_cond" \/ who = "pthread_mutex"
  OBVIOUS
<1> QED BY <1>1, <1>2, <1>3, <1>4, <1>5, PTL DEF SSpec, JP!JSpec, JP!CSpec, JP!Spec

\* What is proved of the three layers, for the threads of MCSync.
LEMMA PthreadProved ==
    SSpec => JP!ImplementsService /\ [](JP!SleepersAnnounced /\ JP!NoLostSignal /\ JP!FreedUnused)
<1>1. JP!ThreadAssumption /\ JP!DepthAssumption
  BY SyncAssumption, DepthAssumption DEF IsFiniteSet, JP!IsFiniteSet
<1> QED BY <1>1, SyncAssumption, JP!AnyUse, PthreadUse

\* pthread_join, pthread_detach and pthread_exit: nobody touches the structure
\* of a thread that has been freed, for any set of threads.
THEOREM SyncFreedUnused == SSpec => []FreedUnused
<1>1. JP!FreedUnused => FreedUnused
  BY DEF FreedUnused, PJ!FreedUnused, JP!FreedUnused
<1> QED BY <1>1, PthreadProved, PTL

\* pthread_cond_signal: a signal that found a waiter wakes one, for any set of
\* threads and any number of signals, the one of pthread_exit included.
THEOREM SyncNoLostSignal == SSpec => []NoLostSignal
<1>1. JP!NoLostSignal => NoLostSignal
  BY DEF NoLostSignal, PJ!NoLostSignal, JP!NoLostSignal
<1> QED BY <1>1, PthreadProved, PTL

LEMMA MutexService == JP!ImplementsService => PJ!ImplementsService
<1>1. JP!Service!LInit => PJ!Service!LInit
  BY DEF JP!Service!LInit, JP!Service!Free, PJ!Service!LInit, PJ!Service!Free, JP!Holder, JP!Holds,
         JP!Crit, PJ!Holder, PJ!Holds, PJ!Crit
<1>2. [JP!Service!LNext]_(JP!Service!lvars) => [PJ!Service!LNext]_(PJ!Service!lvars)
  BY DEF JP!Service!LNext, JP!Service!lvars, JP!Service!Free, JP!Service!GrantExclusive,
         JP!Service!GrantShared, JP!Service!Block, JP!Service!ReleaseExclusive,
         JP!Service!ReleaseShared, JP!Service!Abandon, PJ!Service!LNext, PJ!Service!lvars,
         PJ!Service!Free, PJ!Service!GrantExclusive, PJ!Service!GrantShared, PJ!Service!Block,
         PJ!Service!ReleaseExclusive, PJ!Service!ReleaseShared, PJ!Service!Abandon, JP!Holder,
         JP!Holds, JP!Crit, PJ!Holder, PJ!Holds, PJ!Crit
<1> QED BY <1>1, <1>2, PTL
        DEF JP!ImplementsService, PJ!ImplementsService, JP!Service!LSpec, PJ!Service!LSpec

-----------------------------------------------------------------------------
(* The reader-writer lock, the barrier and pthread_once of libpthread        *)

FP == INSTANCE FutexProofs WITH
    Thread <- Three, waiting <- rwwaiting, pc <- rwpc, seen <- rwseen

\* A behaviour of the whole is one of each of the three.
LEMMA FutexUse == SSpec => FP!Spec /\ FP!PB!Spec /\ FP!PO!Spec
<1>1. SInit => FP!Init /\ FP!PB!Init /\ FP!PO!Init
  BY DEF SInit, PR!Init, FP!Init, PB!Init, FP!PB!Init, PO!Init, FP!PO!Init
<1>2. [SNext]_allvars => [FP!Next]_(FP!vars)
  BY DEF SNext, allvars, prvars, PR!Next, PR!vars, PR!Step, PR!Lock, PR!Acquire, PR!Mark, PR!Wait,
         PR!Interrupt, PR!Unlock, PR!WakeAll, PR!Goto, PR!Forget, PR!Word, PR!MayTake, PR!TakeFor,
         FP!Next, FP!vars, FP!Step, FP!Lock, FP!Acquire, FP!Mark, FP!Wait, FP!Interrupt, FP!Unlock,
         FP!WakeAll, FP!Goto, FP!Forget, FP!Word, FP!MayTake, FP!TakeFor
<1>3. [SNext]_allvars => [FP!PB!Next]_(FP!PB!vars)
  BY DEF SNext, allvars, pbvars, PB!Next, PB!vars, PB!Step, PB!Count, PB!Goto, PB!Return, PB!Enter,
         PB!Add, PB!Reset, PB!Bump, PB!WakeAll, PB!Wait, PB!Interrupt, PB!Test, PB!Cardinality,
         FP!PB!Next, FP!PB!vars, FP!PB!Step, FP!PB!Count, FP!PB!Goto, FP!PB!Return, FP!PB!Enter,
         FP!PB!Add, FP!PB!Reset, FP!PB!Bump, FP!PB!WakeAll, FP!PB!Wait, FP!PB!Interrupt, FP!PB!Test,
         FP!PB!Cardinality
<1>4. [SNext]_allvars => [FP!PO!Next]_(FP!PO!vars)
  BY DEF SNext, allvars, povars, PO!Next, PO!vars, PO!Step, PO!Goto, PO!Once, PO!RunInit, PO!Store,
         PO!WakeAll, PO!Wait, PO!Interrupt, PO!Test, FP!PO!Next, FP!PO!vars, FP!PO!Step, FP!PO!Goto,
         FP!PO!Once, FP!PO!RunInit, FP!PO!Store, FP!PO!WakeAll, FP!PO!Wait, FP!PO!Interrupt,
         FP!PO!Test
<1> QED BY <1>1, <1>2, <1>3, <1>4, PTL DEF SSpec, FP!Spec, FP!PB!Spec, FP!PO!Spec

\* What is proved of the three, for the threads of MCSync.
LEMMA FutexProved ==
    SSpec => /\ FP!ImplementsService
             /\ [](FP!ReadersAnnounced /\ FP!PB!MeetTogether /\ FP!PO!RunOnceBeforeReturn)
<1>1. FP!ThreadAssumption /\ FP!IsFiniteSet(Three) /\ Three # {} /\ MaxRounds \in Nat
  BY SyncAssumption DEF IsFiniteSet, FP!IsFiniteSet
<1>2. FP!PB!Spec => []FP!PB!MeetTogether
  BY <1>1, FP!BarrierMeetsTogether
<1>3. (FP!Spec => FP!ImplementsService) /\ (FP!Spec => []FP!ReadersAnnounced)
  BY <1>1, FP!PthreadRwlockImplementsService, FP!PthreadReadersAnnounced
<1>4. FP!PO!Spec => []FP!PO!RunOnceBeforeReturn
  BY <1>1, FP!OnceRunsBeforeReturn
<1> QED BY <1>2, <1>3, <1>4, FutexUse, PTL

LEMMA FutexService == FP!ImplementsService => PR!ImplementsService
<1>1. FP!Service!LInit => PR!Service!LInit
  BY DEF FP!Service!LInit, FP!Service!Free, PR!Service!LInit, PR!Service!Free, FP!Held, PR!Held
<1>2. [FP!Service!LNext]_(FP!Service!lvars) => [PR!Service!LNext]_(PR!Service!lvars)
  BY DEF FP!Service!LNext, FP!Service!lvars, FP!Service!Free, FP!Service!GrantExclusive,
         FP!Service!GrantShared, FP!Service!Block, FP!Service!ReleaseExclusive,
         FP!Service!ReleaseShared, FP!Service!Abandon, PR!Service!LNext, PR!Service!lvars,
         PR!Service!Free, PR!Service!GrantExclusive, PR!Service!GrantShared, PR!Service!Block,
         PR!Service!ReleaseExclusive, PR!Service!ReleaseShared, PR!Service!Abandon, FP!Held,
         PR!Held
<1> QED BY <1>1, <1>2, PTL
        DEF FP!ImplementsService, PR!ImplementsService, FP!Service!LSpec, PR!Service!LSpec

\* pthread_barrier_wait lets nobody leave a round before all have come to it,
\* and pthread_once runs its routine once, before anybody returns, for any
\* finite number of threads and of rounds.
THEOREM SyncMeetTogether == SSpec => []MeetTogether
<1>1. FP!PB!MeetTogether /\ FP!PO!RunOnceBeforeReturn => MeetTogether
  BY DEF MeetTogether, PB!MeetTogether, PB!Arrived, PO!RunOnceBeforeReturn,
         FP!PB!MeetTogether, FP!PB!Arrived, FP!PO!RunOnceBeforeReturn
<1> QED BY <1>1, FutexProved, PTL

\* pthread_mutex_unlock and pthread_rwlock_unlock: whoever sleeps on the word of
\* a mutex, or as a reader on that of a lock, has announced it there or is about
\* to be woken; also on the mutex of a condition variable or of a thread.
THEOREM SyncSleepersAnnounced == SSpec => []SleepersAnnounced
<1>1. JP!SleepersAnnounced /\ FP!ReadersAnnounced => SleepersAnnounced
  BY DEF SleepersAnnounced, PJ!SleepersAnnounced, JP!SleepersAnnounced,
         PR!ReadersAnnounced, FP!ReadersAnnounced
<1> QED BY <1>1, PthreadProved, FutexProved, PTL

-----------------------------------------------------------------------------
(* The reader-writer lock of the kernel                                      *)

RP == INSTANCE SleepLockProofs WITH Thread <- Three, Killable <- Three

\* What is proved of the lock, for the threads of MCSync.
LEMMA RWProved ==
    SSpec => /\ RP!RW!ImplementsService
             /\ [](RP!RW!ReadersNotStranded /\ RP!RW!WritersNotStranded)
<1>1. SInit => RP!RW!Init
  BY DEF SInit, RW!Init, RP!RW!Init
<1>2. [SNext]_allvars => [RP!RW!Next]_(RP!RW!vars)
  BY DEF SNext, allvars, rwvars, RW!Next, RW!vars, RW!RdLock, RW!RdResume, RW!WrLock, RW!WrResume,
         RW!TryRead, RW!TryWrite, RW!WrUnlock, RW!RdUnlock, RW!SignalWriter, RW!BroadcastReaders,
         RW!Interrupt, RW!Kill, RW!SleepElsewhere, RW!WakeElsewhere, RW!SetState, RW!Unqueue,
         RW!Positions, RP!RW!Next, RP!RW!vars, RP!RW!RdLock, RP!RW!RdResume, RP!RW!WrLock,
         RP!RW!WrResume, RP!RW!TryRead, RP!RW!TryWrite, RP!RW!WrUnlock, RP!RW!RdUnlock,
         RP!RW!SignalWriter, RP!RW!BroadcastReaders, RP!RW!Interrupt, RP!RW!Kill,
         RP!RW!SleepElsewhere, RP!RW!WakeElsewhere, RP!RW!SetState, RP!RW!Unqueue, RP!RW!Positions
<1>3. RP!ThreadAssumption /\ RP!DepthAssumption /\ RP!MutexAssumption
  BY SyncAssumption, DepthAssumption, MutexAssumption DEF IsFiniteSet, RP!IsFiniteSet
<1>4. /\ RP!RW!Spec => RP!RW!ImplementsService
      /\ RP!RW!Spec => [](RP!RW!ReadersNotStranded /\ RP!RW!WritersNotStranded)
  BY <1>3, RP!RWLockImplementsService, RP!RWLockNotStranded
<1> QED BY <1>1, <1>2, <1>4, PTL DEF SSpec, RP!RW!Spec

LEMMA RWService == RP!RW!ImplementsService => RW!ImplementsService
<1>1. RP!RW!Service!LInit => RW!Service!LInit
  BY DEF RP!RW!Service!LInit, RP!RW!Service!Free, RW!Service!LInit, RW!Service!Free, RP!RW!Readers,
         RW!Readers
<1>2. [RP!RW!Service!LNext]_(RP!RW!Service!lvars) => [RW!Service!LNext]_(RW!Service!lvars)
  BY DEF RP!RW!Service!LNext, RP!RW!Service!lvars, RP!RW!Service!Free, RP!RW!Service!GrantExclusive,
         RP!RW!Service!GrantShared, RP!RW!Service!Block, RP!RW!Service!ReleaseExclusive,
         RP!RW!Service!ReleaseShared, RP!RW!Service!Abandon, RW!Service!LNext, RW!Service!lvars,
         RW!Service!Free, RW!Service!GrantExclusive, RW!Service!GrantShared, RW!Service!Block,
         RW!Service!ReleaseExclusive, RW!Service!ReleaseShared, RW!Service!Abandon, RP!RW!Readers,
         RW!Readers
<1> QED BY <1>1, <1>2, PTL
        DEF RP!RW!ImplementsService, RW!ImplementsService, RP!RW!Service!LSpec, RW!Service!LSpec

\* rwlock_unlock: whatever else the threads wait with, nobody is left asleep on
\* a reader-writer lock that nobody will release, until a thread is killed.
THEOREM SyncNotStranded == SSpec => []NotStranded
<1>1. RP!RW!ReadersNotStranded /\ RP!RW!WritersNotStranded => NotStranded
  BY DEF NotStranded, RW!ReadersNotStranded, RW!WritersNotStranded, RW!NobodyKilled, RP!RW!ReadersNotStranded,
         RP!RW!WritersNotStranded, RP!RW!NobodyKilled
<1> QED BY <1>1, RWProved, PTL

\* The kernel's reader-writer lock, the mutex and the reader-writer lock of
\* libpthread implement the lock service, whatever they are used for.
THEOREM SyncLocksImplement == SSpec => LocksImplement
BY PthreadProved, MutexService, FutexProved, FutexService, RWProved, RWService, PTL
   DEF LocksImplement
=============================================================================
