-------------------------- MODULE SleepLockProofs ---------------------------
(* Proofs about the sleeping locks of the kernel, for any finite set of      *)
(* threads: the mutex, then the reader-writer lock (RW). Both implement      *)
(* LockService.                                                              *)
EXTENDS Mutex, QueueProofs

-----------------------------------------------------------------------------
(* The mutex: ownership, no lost wakeup, an exact queue.                     *)

\* waitq_signal keeps the queue and the thread states well typed.
LEMMA SignalType ==
  ASSUME TypeOK, Signal
  PROVE  /\ watchers' \in Seq(Thread)
         /\ state' \in [Thread -> {"running", "waiting", "woken", "asleep", "zombie"}]
<1>1. CASE watchers = <<>>
  BY <1>1 DEF TypeOK, Signal
<1>2. CASE watchers # <<>>
  <2>1. Head(watchers) \in Thread /\ Tail(watchers) \in Seq(Thread)
    BY <1>2, HeadTailProperties DEF TypeOK
  <2> QED BY <1>2, <2>1 DEF TypeOK, Signal
<1> QED BY <1>1, <1>2

Inv == TypeOK /\ Ownership

LEMMA InvInit == Init => Inv /\ NoLostWakeup
  BY MutexAssumption, DepthAssumption, ThreadAssumption DEF Init, Inv, TypeOK, Ownership, NoLostWakeup

\* Types and ownership are preserved by every step.
LEMMA InvStep ==
  ASSUME Inv, [Next]_vars
  PROVE  Inv'
<1> USE MutexAssumption, DepthAssumption, ThreadAssumption DEF Inv, TypeOK, Ownership
<1>1. CASE UNCHANGED vars
  BY <1>1 DEF vars
<1>2. ASSUME NEW t \in Thread, Lock(t) PROVE Inv'
  <2>1. CASE owner = None /\ Take(t)
    BY <1>2, <2>1 DEF Lock, Take
  <2>2. CASE owner = t /\ ~Sleep(t)
    BY <1>2, <2>2 DEF Lock, Take
  <2>3. CASE Sleep(t)
    BY <2>3 DEF Sleep
  <2> QED BY <1>2, <2>1, <2>2, <2>3 DEF Lock
<1>3. ASSUME NEW t \in Thread, Resume(t) PROVE Inv'
  <2>1. CASE owner = None /\ Take(t)
    BY <1>3, <2>1 DEF Resume, Take
  <2>2. CASE Sleep(t)
    BY <2>2 DEF Sleep
  <2> QED BY <1>3, <2>1, <2>2 DEF Resume
<1>4. ASSUME NEW t \in Thread, Unlock(t) PROVE Inv'
  <2>1. owner = t /\ depth[t] \in 1..MaxDepth /\ depth' = [depth EXCEPT ![t] = depth[t] - 1]
    BY <1>4 DEF Unlock
  <2>2. CASE Recursive /\ rec # 1
    BY <1>4, <2>1, <2>2 DEF Unlock
  <2>3. CASE ~(Recursive /\ rec # 1)
    <3>1. owner' = None /\ Signal
      BY <1>4, <2>3 DEF Unlock
    <3>2. depth[t] = 1 /\ \A u \in Thread \ {t} : depth[u] = 0
      BY <2>1, <2>3
    <3>3. rec' = IF Recursive THEN 0 ELSE rec
      BY <1>4, <2>1, <2>3 DEF Unlock
    <3>4. \A u \in Thread : depth'[u] = 0
      BY <2>1, <3>2
    <3>5. depth' \in [Thread -> 0..MaxDepth] /\ rec' \in 0..MaxDepth
      BY <2>1, <3>3
    <3> QED BY <3>1, <3>3, <3>4, <3>5, SignalType
  <2> QED BY <2>2, <2>3
<1>5. ASSUME NEW t \in Thread, Interrupt(t) \/ Kill(t) PROVE Inv'
  <2>1. Unqueue(watchers, t) \in Seq(Thread)
    BY UnqueueShape
  <2> QED BY <1>5, <2>1 DEF Interrupt, Kill
<1>6. ASSUME NEW t \in Thread, SleepElsewhere(t) \/ WakeElsewhere(t) PROVE Inv'
  BY <1>6 DEF SleepElsewhere, WakeElsewhere
<1> QED BY <1>1, <1>2, <1>3, <1>4, <1>5, <1>6 DEF Next

\* Mutual exclusion, for any number of threads: only the owner has unmatched
\* mutex_lock calls, and recursive_nb counts them, even when threads are
\* interrupted or killed in their sleep.
THEOREM MutexOwnership == Spec => []Ownership
<1>1. Init => Inv
  BY InvInit
<1>2. Inv /\ [Next]_vars => Inv'
  BY InvStep
<1>3. Inv => Ownership
  BY DEF Inv
<1> QED BY <1>1, <1>2, <1>3, PTL DEF Spec

\* No wakeup is lost: as long as no thread is killed in its sleep, a free mutex
\* with sleepers always has a woken thread that will test it again.
THEOREM MutexNoLostWakeup == Spec => []NoLostWakeup
<1>1. Init => Inv /\ NoLostWakeup
  BY InvInit
<1>2. Inv /\ NoLostWakeup /\ [Next]_vars => NoLostWakeup'
  <2> SUFFICES ASSUME Inv, NoLostWakeup, [Next]_vars PROVE NoLostWakeup'
    OBVIOUS
  <2> USE MutexAssumption, DepthAssumption, ThreadAssumption DEF Inv, TypeOK, NoLostWakeup, NobodyKilled
  <2>1. CASE UNCHANGED vars
    BY <2>1 DEF vars
  <2>2. ASSUME NEW t \in Thread, Lock(t) \/ Resume(t) PROVE NoLostWakeup'
    BY <2>2 DEF Lock, Resume, Take, Sleep
  <2>3. ASSUME NEW t \in Thread, Unlock(t) PROVE NoLostWakeup'
    <3>1. CASE Recursive /\ rec # 1
      BY <2>3, <3>1 DEF Unlock
    <3>2. CASE ~(Recursive /\ rec # 1) /\ watchers = <<>>
      BY <2>3, <3>2 DEF Unlock, Signal
    <3>3. CASE ~(Recursive /\ rec # 1) /\ watchers # <<>>
      <4>1. Head(watchers) \in Thread
        BY <3>3, HeadTailProperties
      <4> QED BY <2>3, <3>3, <4>1 DEF Unlock, Signal
    <3> QED BY <3>1, <3>2, <3>3
  <2>4. ASSUME NEW t \in Thread, Interrupt(t) PROVE NoLostWakeup'
    BY <2>4 DEF Interrupt
  <2>5. ASSUME NEW t \in Thread, SleepElsewhere(t) \/ WakeElsewhere(t)
        PROVE  NoLostWakeup'
    BY <2>5 DEF SleepElsewhere, WakeElsewhere
  <2>6. ASSUME NEW t \in Thread, Kill(t) PROVE NoLostWakeup'
    BY <2>6 DEF Kill
  <2> QED BY <2>1, <2>2, <2>3, <2>4, <2>5, <2>6 DEF Next
<1>3. Inv /\ [Next]_vars => Inv'
  BY InvStep
<1> QED BY <1>1, <1>2, <1>3, PTL DEF Spec

-----------------------------------------------------------------------------
Sleepers == {t \in Thread : state[t] = "waiting"}

\* The queue is exact, in the terms of the lemmas about queues.
LEMMA SleepersQueued ==
  ASSUME TypeOK, QueueExact
  PROVE  Exact(watchers, Sleepers)
<1>1. \A i \in 1..Len(watchers) : watchers[i] \in Thread
  BY ElementOfSeq DEF TypeOK
<1> QED BY <1>1 DEF Exact, Sleepers, QueueExact

\* waitq_wait_tail, by a thread that was not asleep.
LEMMA SleepQueue ==
  ASSUME TypeOK, QueueExact, NEW t \in Thread, state[t] # "waiting", Sleep(t)
  PROVE  QueueExact'
<1>1. watchers' = Append(watchers, t) /\ Sleepers' = Sleepers \cup {t} /\ t \notin Sleepers
  BY DEF Sleep, Sleepers, TypeOK
<1>2. Exact(watchers', Sleepers')
  BY <1>1, SleepersQueued, AppendExact DEF TypeOK
<1> QED BY <1>2 DEF Exact, Sleepers, QueueExact

\* waitq_signal.
LEMMA SignalQueue ==
  ASSUME TypeOK, QueueExact, Signal
  PROVE  QueueExact'
<1>1. CASE watchers = <<>>
  BY <1>1 DEF Signal, QueueExact
<1>2. CASE watchers # <<>>
  <2>1. /\ Head(watchers) \in Sleepers
        /\ Exact(Tail(watchers), Sleepers \ {Head(watchers)})
    BY <1>2, SleepersQueued, TailExact DEF TypeOK
  <2>2. watchers' = Tail(watchers) /\ Sleepers' = Sleepers \ {Head(watchers)}
    BY <1>2, <2>1 DEF Signal, Sleepers, TypeOK
  <2>3. Exact(watchers', Sleepers')
    BY <2>1, <2>2
  <2> QED BY <2>3 DEF Exact, Sleepers, QueueExact
<1> QED BY <1>1, <1>2

\* waitq_wakeup_thread, and the kill of a thread on the queue or off it.
LEMMA UnqueueQueue ==
  ASSUME TypeOK, QueueExact, NEW t \in Thread, NEW s \in {"woken", "zombie"},
         watchers' = Unqueue(watchers, t), state' = [state EXCEPT ![t] = s]
  PROVE  QueueExact'
<1>1. Sleepers' = Sleepers \ {t}
  BY DEF Sleepers, TypeOK
<1>2. Exact(watchers', Sleepers')
  BY <1>1, SleepersQueued, UnqueueExact DEF TypeOK
<1> QED BY <1>2 DEF Exact, Sleepers, QueueExact

\* A thread that is not on the queue changes between two states off the queue.
LEMMA OffQueue ==
  ASSUME TypeOK, QueueExact, UNCHANGED watchers, NEW t \in Thread,
         state[t] # "waiting", NEW s, s # "waiting",
         state' = [state EXCEPT ![t] = s]
  PROVE  QueueExact'
BY DEF QueueExact, TypeOK

QInv == Inv /\ QueueExact

LEMMA QInvStep == QInv /\ [Next]_vars => QInv'
<1> SUFFICES ASSUME QInv, [Next]_vars PROVE QInv'
  OBVIOUS
<1>0. Inv' /\ Inv /\ TypeOK /\ QueueExact
  BY InvStep DEF QInv, Inv
<1>1. CASE UNCHANGED vars
  BY <1>0, <1>1 DEF vars, QueueExact, QInv
<1>2. ASSUME NEW t \in Thread, Lock(t) \/ Resume(t) PROVE QueueExact'
  <2>1. state[t] # "waiting"
    BY <1>2 DEF Lock, Resume
  <2>2. CASE Take(t)
    BY <1>0, <2>1, <2>2, OffQueue DEF Take
  <2>3. CASE Sleep(t)
    BY <1>0, <2>1, <2>3, SleepQueue
  <2>4. CASE UNCHANGED <<watchers, state>>
    BY <1>0, <2>4 DEF QueueExact
  <2> QED BY <1>2, <2>2, <2>3, <2>4 DEF Lock, Resume
<1>3. ASSUME NEW t \in Thread, Unlock(t) PROVE QueueExact'
  <2>1. CASE Signal
    BY <1>0, <2>1, SignalQueue
  <2>2. CASE UNCHANGED <<watchers, state>>
    BY <1>0, <2>2 DEF QueueExact
  <2> QED BY <1>3, <2>1, <2>2 DEF Unlock
<1>4. ASSUME NEW t \in Thread, Interrupt(t) \/ Kill(t) PROVE QueueExact'
  BY <1>0, <1>4, UnqueueQueue DEF Interrupt, Kill
<1>5. ASSUME NEW t \in Thread, SleepElsewhere(t) \/ WakeElsewhere(t)
      PROVE  QueueExact'
  BY <1>0, <1>5, OffQueue DEF SleepElsewhere, WakeElsewhere
<1> QED BY <1>0, <1>1, <1>2, <1>3, <1>4, <1>5 DEF Next, QInv

\* The wait queue is exact for any number of threads: waitq_signal never meets
\* a thread that does not sleep, and no sleeping thread is off the queue, with
\* interruptions and kills between any two steps.
THEOREM MutexQueueExact == Spec => []QueueExact
<1>1. Init => QInv
  BY InvInit DEF Init, QInv, QueueExact
<1>2. QInv => QueueExact
  BY DEF QInv
<1> QED BY <1>1, <1>2, QInvStep, PTL DEF Spec

-----------------------------------------------------------------------------
\* Every step of the mutex is a step of the lock service, or invisible to it.
LEMMA ServiceStep ==
  ASSUME QInv, [Next]_vars
  PROVE  [Service!LNext]_(Service!lvars)
<1> DEFINE blocked == {u \in Thread : state[u] \in {"waiting", "woken"}}
           level == IF owner = None THEN 0 ELSE depth[owner]
<1>0. /\ TypeOK /\ Ownership /\ QueueExact /\ None \notin Thread
      /\ Ownership' /\ TypeOK'
  BY QInvStep, MutexAssumption, DepthAssumption, ThreadAssumption DEF QInv, Inv
<1> SUFFICES \/ owner' = owner /\ level' = level /\ blocked' = blocked
             \/ Service!LNext
  BY DEF Service!lvars
<1>1. CASE UNCHANGED vars
  BY <1>1 DEF vars
<1>2. ASSUME NEW t \in Thread, Take(t), owner = None
      PROVE  Service!LNext
  <2>1. depth[t] = 0 /\ depth'[t] = 1 /\ owner' = t
    BY <1>0, <1>2 DEF Take, Ownership, TypeOK
  <2>2. level = 0 /\ level' = 1
    BY <1>0, <1>2, <2>1
  <2>3. blocked' = blocked \ {t}
    BY <1>0, <1>2 DEF Take, TypeOK
  <2>4. Service!GrantExclusive(t)
    BY <1>2, <2>1, <2>2, <2>3 DEF Service!GrantExclusive, Service!Free
  <2> QED BY <2>4 DEF Service!LNext
<1>3. ASSUME NEW t \in Thread, Lock(t)
      PROVE  Service!LNext
  <2>1. CASE owner = t /\ depth' = [depth EXCEPT ![t] = @ + 1]
             /\ UNCHANGED <<owner, watchers, state>>
    <3>1. level' = level + 1
      BY <1>0, <2>1 DEF TypeOK
    <3>2. blocked' = blocked \ {t}
      BY <1>0, <1>3, <2>1 DEF Lock
    <3>3. Service!GrantExclusive(t)
      BY <2>1, <3>1, <3>2 DEF Service!GrantExclusive
    <3> QED BY <3>3 DEF Service!LNext
  <2>2. CASE owner \notin {None, t} /\ Sleep(t)
    <3>1. owner' = owner /\ level' = level
      BY <2>2 DEF Sleep
    <3>2. blocked' = blocked \cup {t}
      BY <1>0, <2>2 DEF Sleep, TypeOK
    <3>3. Service!Block(t)
      BY <2>2, <3>1, <3>2 DEF Service!Block
    <3> QED BY <3>3 DEF Service!LNext
  <2> QED BY <1>2, <1>3, <2>1, <2>2 DEF Lock
<1>4. ASSUME NEW t \in Thread, Resume(t), owner # None
      PROVE  owner' = owner /\ level' = level /\ blocked' = blocked
  BY <1>0, <1>4 DEF Resume, Sleep, TypeOK
<1>5. ASSUME NEW t \in Thread, Unlock(t)
      PROVE  Service!LNext
  <2>1. owner = t /\ level = depth[t] /\ depth'[t] = depth[t] - 1 /\ depth[t] \in Nat \ {0}
    BY <1>0, <1>5 DEF Unlock, Ownership, TypeOK
  <2>2. blocked' = blocked
    <3>1. CASE UNCHANGED <<watchers, state>>
      BY <3>1
    <3>2. CASE Signal /\ watchers # <<>>
      <4>1. watchers \in Seq(Thread) /\ 1 \in 1..Len(watchers) /\ Head(watchers) = watchers[1]
        BY <1>0, <3>2 DEF TypeOK
      <4>2. Head(watchers) \in Thread
        BY <3>2, <4>1, HeadTailProperties
      <4>3. state[Head(watchers)] = "waiting"
        BY <1>0, <4>1, <4>2 DEF QueueExact
      <4> QED BY <1>0, <3>2, <4>2, <4>3 DEF Signal, TypeOK
    <3> QED BY <1>5, <3>1, <3>2 DEF Unlock, Signal
  <2>3. owner' = (IF depth[t] = 1 THEN None ELSE t) /\ level' = level - 1
    <3>1. CASE Recursive /\ rec # 1
      <4>1. depth[t] # 1 /\ owner' = t
        BY <1>0, <1>5, <2>1, <3>1 DEF Unlock, Ownership
      <4> QED BY <1>0, <2>1, <4>1
    <3>2. CASE ~(Recursive /\ rec # 1)
      <4>1. depth[t] = 1
        BY <1>0, <2>1, <3>2, MutexAssumption, DepthAssumption, ThreadAssumption DEF Ownership, TypeOK
      <4>2. owner' = None
        BY <1>5, <3>2 DEF Unlock
      <4> QED BY <2>1, <4>1, <4>2
    <3> QED BY <3>1, <3>2
  <2>4. Service!ReleaseExclusive(t)
    BY <2>1, <2>2, <2>3 DEF Service!ReleaseExclusive
  <2> QED BY <2>4 DEF Service!LNext
<1>6. ASSUME NEW t \in Thread,
             Interrupt(t) \/ SleepElsewhere(t) \/ WakeElsewhere(t)
      PROVE  owner' = owner /\ level' = level /\ blocked' = blocked
  BY <1>0, <1>6 DEF Interrupt, SleepElsewhere, WakeElsewhere, TypeOK
<1>7. ASSUME NEW t \in Thread, Kill(t)
      PROVE  \/ owner' = owner /\ level' = level /\ blocked' = blocked
             \/ Service!LNext
  <2>1. owner' = owner /\ level' = level /\ blocked' = blocked \ {t}
    BY <1>0, <1>7 DEF Kill, TypeOK
  <2>2. CASE t \notin blocked
    BY <2>1, <2>2
  <2>3. CASE t \in blocked
    <3>1. Service!Abandon(t)
      BY <2>1, <2>3 DEF Service!Abandon
    <3> QED BY <3>1 DEF Service!LNext
  <2> QED BY <2>2, <2>3
<1> QED BY <1>1, <1>2, <1>3, <1>4, <1>5, <1>6, <1>7 DEF Next, Resume

\* mutex_lock and mutex_unlock, with their queue and wakeups, implement the
\* exclusive lock service for any set of threads, recursive or not.
THEOREM MutexImplementsService == Spec => ImplementsService
<1>1. Init => QInv
  BY InvInit DEF Init, QInv, QueueExact
<1>2. Init => Service!LInit
  BY DEF Init, Service!LInit, Service!Free
<1>3. QInv /\ [Next]_vars => [Service!LNext]_(Service!lvars)
  BY ServiceStep
<1> QED BY <1>1, <1>2, <1>3, QInvStep, PTL DEF Spec, ImplementsService, Service!LSpec

-----------------------------------------------------------------------------
(* The reader-writer lock: readers and writers exclude each other, and       *)
(* nobody is stranded on a queue.                                            *)

VARIABLES wowner, rlock_nb, rwaitq, wwaitq, rwstate, held

RW == INSTANCE RWLock WITH state <- rwstate

INSTANCE FiniteSetTheorems

\* What RWLock takes from FiniteSets and Queues is what this module takes.
LEMMA RWFiniteSets == \A S : RW!Cardinality(S) = Cardinality(S)
BY DEF Cardinality, RW!Cardinality

LEMMA RWUnqueue == \A q, x : RW!Unqueue(q, x) = Unqueue(q, x)
BY DEF Unqueue, RW!Unqueue, Positions, RW!Positions

RSleepers == {t \in Thread : rwstate[t] = "rwait"}
WSleepers == {t \in Thread : rwstate[t] = "wwait"}

\* The inductive invariant. A wakeup takes the first thread of a queue, so both
\* queues must be exact; a thread in a lock call holds nothing.
RWInv ==
    /\ RW!TypeOK
    /\ RW!Exclusion
    /\ Exact(rwaitq, RSleepers)
    /\ Exact(wwaitq, WSleepers)
    /\ \A t \in Thread : rwstate[t] \in {"rwait", "wwait", "rwoken", "wwoken"} => held[t] = "no"

\* The number of readers is finite and is zero only if there is none.
LEMMA ReadersFinite ==
  ASSUME RW!TypeOK
  PROVE  /\ IsFiniteSet(RW!Readers) /\ Cardinality(RW!Readers) \in Nat
         /\ Cardinality(RW!Readers) = 0 <=> RW!Readers = {}
<1>1. RW!Readers \in SUBSET Thread
  BY DEF RW!Readers
<1>2. IsFiniteSet(RW!Readers)
  BY <1>1, ThreadAssumption, FS_Subset
<1> QED BY <1>2, FS_CardinalityType, FS_EmptySet

\* The initial lock satisfies the invariant.
LEMMA RWInvInit == RW!Init => RWInv
<1> SUFFICES ASSUME RW!Init PROVE RWInv
  OBVIOUS
<1>1. RW!TypeOK
  BY DEF RW!Init, RW!TypeOK
<1>2. RW!Readers = {} /\ RSleepers = {} /\ WSleepers = {}
  BY DEF RW!Init, RW!Readers, RSleepers, WSleepers
<1>3. RW!Exclusion
  BY <1>2, ThreadAssumption, FS_EmptySet, RWFiniteSets DEF RW!Init, RW!Exclusion
<1>4. Exact(rwaitq, RSleepers) /\ Exact(wwaitq, WSleepers)
  BY <1>2 DEF RW!Init, Exact
<1> QED BY <1>1, <1>3, <1>4 DEF RWInv, RW!Init

\* The loop of rwlock_rdlock, on its first or on a later test.
LEMMA TryReadStep ==
  ASSUME RWInv, NEW t \in Thread, rwstate[t] \in {"running", "rwoken"}, held[t] = "no", RW!TryRead(t)
  PROVE  RWInv'
<1> USE DEF RWInv
<1>1. CASE wowner = None /\ wwaitq = <<>>
  <2>1. /\ rlock_nb' = rlock_nb + 1 /\ held' = [held EXCEPT ![t] = "read"]
        /\ rwstate' = [rwstate EXCEPT ![t] = "running"] /\ UNCHANGED <<rwaitq, wowner, wwaitq>>
    BY <1>1 DEF RW!TryRead, RW!SetState
  <2>2. RW!TypeOK'
    BY <2>1 DEF RW!TypeOK
  <2>3. RSleepers' = RSleepers /\ WSleepers' = WSleepers
    BY <2>1 DEF RW!TypeOK, RSleepers, WSleepers
  <2>4. RW!Readers' = RW!Readers \cup {t} /\ t \notin RW!Readers
    BY <2>1 DEF RW!TypeOK, RW!Readers
  <2>5. Cardinality(RW!Readers') = Cardinality(RW!Readers) + 1
    BY <2>4, ReadersFinite, FS_AddElement
  <2>6. RW!Exclusion'
    BY <1>1, <2>1, <2>5, ThreadAssumption, RWFiniteSets DEF RW!Exclusion, RW!TypeOK
  <2>7. \A u \in Thread : rwstate'[u] \in {"rwait", "wwait", "rwoken", "wwoken"} => held'[u] = "no"
    BY <2>1 DEF RW!TypeOK
  <2> QED BY <2>1, <2>2, <2>3, <2>6, <2>7
<1>2. CASE ~(wowner = None /\ wwaitq = <<>>)
  <2>1. /\ rwaitq' = Append(rwaitq, t) /\ rwstate' = [rwstate EXCEPT ![t] = "rwait"]
        /\ UNCHANGED <<rlock_nb, held, wowner, wwaitq>>
    BY <1>2 DEF RW!TryRead, RW!SetState
  <2>2. RSleepers' = RSleepers \cup {t} /\ t \notin RSleepers /\ WSleepers' = WSleepers
    BY <2>1 DEF RW!TypeOK, RSleepers, WSleepers
  <2>3. rwaitq' \in Seq(Thread) /\ Exact(rwaitq', RSleepers')
    BY <2>1, <2>2, AppendExact DEF RW!TypeOK
  <2>4. RW!TypeOK' /\ RW!Exclusion'
    BY <2>1, <2>3 DEF RW!TypeOK, RW!Exclusion, RW!Readers
  <2>5. \A u \in Thread : rwstate'[u] \in {"rwait", "wwait", "rwoken", "wwoken"} => held'[u] = "no"
    BY <2>1 DEF RW!TypeOK
  <2> QED BY <2>1, <2>2, <2>3, <2>4, <2>5
<1> QED BY <1>1, <1>2

\* The loop of rwlock_wrlock, on its first or on a later test.
LEMMA TryWriteStep ==
  ASSUME RWInv, NEW t \in Thread, rwstate[t] \in {"running", "wwoken"}, held[t] = "no", RW!TryWrite(t)
  PROVE  RWInv'
<1> USE DEF RWInv
<1>1. CASE wowner = None /\ rlock_nb = 0
  <2>1. /\ wowner' = t /\ held' = [held EXCEPT ![t] = "write"]
        /\ rwstate' = [rwstate EXCEPT ![t] = "running"] /\ UNCHANGED <<rwaitq, rlock_nb, wwaitq>>
    BY <1>1 DEF RW!TryWrite, RW!SetState
  <2>2. RW!TypeOK'
    BY <2>1 DEF RW!TypeOK
  <2>3. RSleepers' = RSleepers /\ WSleepers' = WSleepers /\ RW!Readers' = RW!Readers
    BY <2>1 DEF RW!TypeOK, RSleepers, WSleepers, RW!Readers
  <2>4. RW!Exclusion'
    BY <1>1, <2>1, <2>3, ThreadAssumption DEF RW!Exclusion, RW!TypeOK
  <2>5. \A u \in Thread : rwstate'[u] \in {"rwait", "wwait", "rwoken", "wwoken"} => held'[u] = "no"
    BY <2>1 DEF RW!TypeOK
  <2> QED BY <2>1, <2>2, <2>3, <2>4, <2>5
<1>2. CASE ~(wowner = None /\ rlock_nb = 0)
  <2>1. /\ wwaitq' = Append(wwaitq, t) /\ rwstate' = [rwstate EXCEPT ![t] = "wwait"]
        /\ UNCHANGED <<rlock_nb, held, wowner, rwaitq>>
    BY <1>2 DEF RW!TryWrite, RW!SetState
  <2>2. WSleepers' = WSleepers \cup {t} /\ t \notin WSleepers /\ RSleepers' = RSleepers
    BY <2>1 DEF RW!TypeOK, RSleepers, WSleepers
  <2>3. wwaitq' \in Seq(Thread) /\ Exact(wwaitq', WSleepers')
    BY <2>1, <2>2, AppendExact DEF RW!TypeOK
  <2>4. RW!TypeOK' /\ RW!Exclusion'
    BY <2>1, <2>3 DEF RW!TypeOK, RW!Exclusion, RW!Readers
  <2>5. \A u \in Thread : rwstate'[u] \in {"rwait", "wwait", "rwoken", "wwoken"} => held'[u] = "no"
    BY <2>1 DEF RW!TypeOK
  <2> QED BY <2>1, <2>2, <2>3, <2>4, <2>5
<1> QED BY <1>1, <1>2

\* waitq_signal on wwaitq: the thread it finds sleeps there, and it wakes no other.
LEMMA SignalWriterStep ==
  ASSUME RWInv, wwaitq # <<>>, RW!SignalWriter
  PROVE  /\ wwaitq' \in Seq(Thread) /\ Exact(wwaitq', WSleepers')
         /\ Head(wwaitq) \in Thread /\ rwstate[Head(wwaitq)] = "wwait"
         /\ rwstate' = [rwstate EXCEPT ![Head(wwaitq)] = "wwoken"]
         /\ RSleepers' = RSleepers
<1> DEFINE h == Head(wwaitq)
<1>1. /\ h \in Thread /\ h \in WSleepers /\ Tail(wwaitq) \in Seq(Thread)
      /\ Exact(Tail(wwaitq), WSleepers \ {h})
  BY TailExact DEF RWInv, RW!TypeOK
<1>2. wwaitq' = Tail(wwaitq) /\ rwstate' = [rwstate EXCEPT ![h] = "wwoken"]
  BY DEF RW!SignalWriter, RW!SetState
<1> HIDE DEF h
<1>3. rwstate[h] = "wwait"
  BY <1>1 DEF WSleepers
<1>4. WSleepers' = WSleepers \ {h} /\ RSleepers' = RSleepers
  BY <1>1, <1>2, <1>3 DEF WSleepers, RSleepers, RWInv, RW!TypeOK
<1>5. Exact(wwaitq', WSleepers')
  BY <1>1, <1>2, <1>4
<1> QED BY <1>1, <1>2, <1>3, <1>4, <1>5 DEF h

\* rwlock_unlock by the owner.
LEMMA WrUnlockStep ==
  ASSUME RWInv, NEW t \in Thread, RW!WrUnlock(t)
  PROVE  RWInv'
<1> USE DEF RWInv
<1>1. /\ wowner = t /\ wowner' = None /\ held' = [held EXCEPT ![t] = "no"]
      /\ UNCHANGED rlock_nb /\ held[t] = "write" /\ rwstate[t] = "running"
  BY DEF RW!WrUnlock, RW!Exclusion
<1>2. RW!Readers' = RW!Readers
  BY <1>1 DEF RW!Readers, RW!TypeOK
<1>3. RW!Exclusion'
  BY <1>1, <1>2, ThreadAssumption DEF RW!Exclusion, RW!TypeOK
<1>4. CASE wwaitq # <<>> /\ RW!SignalWriter /\ UNCHANGED rwaitq
  <2> DEFINE h == Head(wwaitq)
  <2>1. /\ wwaitq' \in Seq(Thread) /\ Exact(wwaitq', WSleepers')
        /\ h \in Thread /\ rwstate[h] = "wwait" /\ rwstate' = [rwstate EXCEPT ![h] = "wwoken"]
        /\ RSleepers' = RSleepers
    BY <1>4, SignalWriterStep
  <2> HIDE DEF h
  <2>2. RW!TypeOK'
    BY <1>1, <1>4, <2>1 DEF RW!TypeOK
  <2>3. \A u \in Thread : rwstate'[u] \in {"rwait", "wwait", "rwoken", "wwoken"} => held'[u] = "no"
    BY <1>1, <2>1 DEF RW!TypeOK
  <2> QED BY <1>3, <1>4, <2>1, <2>2, <2>3
<1>5. CASE wwaitq = <<>> /\ RW!BroadcastReaders /\ UNCHANGED wwaitq
  <2>1. /\ rwaitq' = <<>>
        /\ rwstate' = [u \in Thread |-> IF rwstate[u] = "rwait" THEN "rwoken" ELSE rwstate[u]]
    BY <1>5 DEF RW!BroadcastReaders
  <2>2. RW!TypeOK'
    BY <1>1, <1>5, <2>1 DEF RW!TypeOK
  <2>3. RSleepers' = {} /\ WSleepers' = WSleepers
    BY <2>1 DEF RSleepers, WSleepers
  <2>4. Exact(rwaitq', RSleepers')
    BY <2>1, <2>3 DEF Exact
  <2>5. \A u \in Thread : rwstate'[u] \in {"rwait", "wwait", "rwoken", "wwoken"} => held'[u] = "no"
    BY <1>1, <2>1 DEF RW!TypeOK
  <2> QED BY <1>3, <1>5, <2>2, <2>3, <2>4, <2>5
<1> QED BY <1>4, <1>5 DEF RW!WrUnlock

\* rwlock_unlock by a reader.
LEMMA RdUnlockStep ==
  ASSUME RWInv, NEW t \in Thread, RW!RdUnlock(t)
  PROVE  RWInv'
<1> USE DEF RWInv
<1>1. /\ rlock_nb' = rlock_nb - 1 /\ held' = [held EXCEPT ![t] = "no"]
      /\ UNCHANGED <<wowner, rwaitq>> /\ held[t] = "read" /\ rwstate[t] = "running"
  BY DEF RW!RdUnlock
<1>2. RW!Readers' = RW!Readers \ {t} /\ t \in RW!Readers
  BY <1>1 DEF RW!Readers, RW!TypeOK
<1>3. Cardinality(RW!Readers') = Cardinality(RW!Readers) - 1 /\ Cardinality(RW!Readers) # 0
  BY <1>2, ReadersFinite, FS_RemoveElement
<1>4. rlock_nb' \in Nat /\ wowner = None
  BY <1>1, <1>3, RWFiniteSets DEF RW!Exclusion, RW!TypeOK
<1>5. RW!Exclusion'
  BY <1>1, <1>3, <1>4, ThreadAssumption, RWFiniteSets DEF RW!Exclusion, RW!TypeOK
<1>6. CASE wwaitq # <<>> /\ RW!SignalWriter
  <2> DEFINE h == Head(wwaitq)
  <2>1. /\ wwaitq' \in Seq(Thread) /\ Exact(wwaitq', WSleepers')
        /\ h \in Thread /\ rwstate[h] = "wwait" /\ rwstate' = [rwstate EXCEPT ![h] = "wwoken"]
        /\ RSleepers' = RSleepers
    BY <1>6, SignalWriterStep
  <2> HIDE DEF h
  <2>2. RW!TypeOK'
    BY <1>1, <1>4, <2>1 DEF RW!TypeOK
  <2>3. \A u \in Thread : rwstate'[u] \in {"rwait", "wwait", "rwoken", "wwoken"} => held'[u] = "no"
    BY <1>1, <2>1 DEF RW!TypeOK
  <2> QED BY <1>1, <1>5, <2>1, <2>2, <2>3
<1>7. CASE UNCHANGED <<wwaitq, rwstate>>
  <2>1. RW!TypeOK' /\ RSleepers' = RSleepers /\ WSleepers' = WSleepers
    BY <1>1, <1>4, <1>7 DEF RW!TypeOK, RSleepers, WSleepers
  <2>2. \A u \in Thread : rwstate'[u] \in {"rwait", "wwait", "rwoken", "wwoken"} => held'[u] = "no"
    BY <1>1, <1>7 DEF RW!TypeOK
  <2> QED BY <1>1, <1>5, <1>7, <2>1, <2>2
<1> QED BY <1>6, <1>7 DEF RW!RdUnlock

\* A thread leaves the queues, interrupted or killed.
LEMMA UnqueueStep ==
  ASSUME RWInv, NEW t \in Thread, RW!Interrupt(t) \/ RW!Kill(t)
  PROVE  /\ RWInv'
         /\ Exact(rwaitq', RSleepers \ {t}) /\ Exact(wwaitq', WSleepers \ {t})
<1> USE DEF RWInv
<1>1. PICK s \in {"rwoken", "wwoken", "zombie"} :
        /\ rwstate' = [rwstate EXCEPT ![t] = s]
        /\ s # "zombie" => held[t] = "no"
  BY RWUnqueue DEF RW!Interrupt, RW!Kill, RW!SetState
<1>2. /\ rwaitq' = Unqueue(rwaitq, t) /\ wwaitq' = Unqueue(wwaitq, t)
      /\ UNCHANGED <<wowner, rlock_nb, held>>
  BY RWUnqueue DEF RW!Interrupt, RW!Kill
<1>3. /\ rwaitq' \in Seq(Thread) /\ Exact(rwaitq', RSleepers \ {t})
      /\ wwaitq' \in Seq(Thread) /\ Exact(wwaitq', WSleepers \ {t})
  BY <1>2, UnqueueExact DEF RW!TypeOK
<1>4. RSleepers' = RSleepers \ {t} /\ WSleepers' = WSleepers \ {t}
  BY <1>1 DEF RSleepers, WSleepers, RW!TypeOK
<1>5. RW!TypeOK' /\ RW!Exclusion'
  BY <1>1, <1>2, <1>3 DEF RW!TypeOK, RW!Exclusion, RW!Readers
<1>6. \A u \in Thread : rwstate'[u] \in {"rwait", "wwait", "rwoken", "wwoken"} => held'[u] = "no"
  BY <1>1, <1>2 DEF RW!TypeOK
<1> QED BY <1>3, <1>4, <1>5, <1>6

\* Every step keeps the invariant.
LEMMA RWInvStep ==
  ASSUME RWInv, [RW!Next]_(RW!vars)
  PROVE  RWInv'
<1>1. CASE UNCHANGED RW!vars
  BY <1>1 DEF RW!vars, RWInv, RW!TypeOK, RW!Exclusion, RW!Readers, RSleepers, WSleepers
<1>2. ASSUME NEW t \in Thread, RW!RdLock(t) \/ RW!RdResume(t) PROVE RWInv'
  BY <1>2, TryReadStep DEF RW!RdLock, RW!RdResume, RWInv
<1>3. ASSUME NEW t \in Thread, RW!WrLock(t) \/ RW!WrResume(t) PROVE RWInv'
  BY <1>3, TryWriteStep DEF RW!WrLock, RW!WrResume, RWInv
<1>4. ASSUME NEW t \in Thread, RW!SleepElsewhere(t) \/ RW!WakeElsewhere(t) PROVE RWInv'
  <2>1. PICK s \in {"running", "asleep"} : rwstate' = [rwstate EXCEPT ![t] = s]
    BY <1>4 DEF RW!SleepElsewhere, RW!WakeElsewhere, RW!SetState
  <2>2. UNCHANGED <<wowner, rlock_nb, rwaitq, wwaitq, held>> /\ rwstate[t] \notin {"rwait", "wwait"}
    BY <1>4 DEF RW!SleepElsewhere, RW!WakeElsewhere
  <2>3. RSleepers' = RSleepers /\ WSleepers' = WSleepers
    BY <2>1, <2>2 DEF RSleepers, WSleepers, RWInv, RW!TypeOK
  <2>4. RW!TypeOK' /\ RW!Exclusion'
    BY <2>1, <2>2 DEF RWInv, RW!TypeOK, RW!Exclusion, RW!Readers
  <2>5. \A u \in Thread : rwstate'[u] \in {"rwait", "wwait", "rwoken", "wwoken"} => held'[u] = "no"
    BY <2>1, <2>2 DEF RWInv, RW!TypeOK
  <2> QED BY <2>2, <2>3, <2>4, <2>5 DEF RWInv
<1> QED BY <1>1, <1>2, <1>3, <1>4, WrUnlockStep, RdUnlockStep, UnqueueStep DEF RW!Next

\* For any finite set of threads: rlock_nb counts the readers, wowner is the one
\* writer, and they exclude each other, interruptions and kills included.
THEOREM RWLockExclusion == RW!Spec => []RW!Exclusion
<1>1. RWInv => RW!Exclusion
  BY DEF RWInv
<1>2. RWInv /\ [RW!Next]_(RW!vars) => RWInv'
  BY RWInvStep
<1> QED BY <1>1, <1>2, RWInvInit, PTL DEF RW!Spec

-----------------------------------------------------------------------------
\* A thread that is not asleep on a queue is not on it, so that removing it
\* leaves an empty queue empty and the queue of the others as long as it was.
LEMMA UnqueueEmpty ==
  ASSUME RWInv, NEW t \in Thread, RW!Interrupt(t)
  PROVE  /\ rwaitq' # <<>> => rwaitq # <<>>
         /\ wwaitq' # <<>> => wwaitq # <<>>
         /\ rwstate[t] = "rwait" /\ wwaitq # <<>> => wwaitq' # <<>>
<1>1. /\ Exact(rwaitq', RSleepers \ {t}) /\ Exact(wwaitq', WSleepers \ {t})
      /\ Exact(rwaitq, RSleepers) /\ Exact(wwaitq, WSleepers)
      /\ rwaitq \in Seq(Thread) /\ wwaitq \in Seq(Thread)
      /\ rwaitq' \in Seq(Thread) /\ wwaitq' \in Seq(Thread)
  BY UnqueueStep DEF RWInv, RW!TypeOK
<1>2. /\ rwaitq = <<>> <=> RSleepers = {}
      /\ wwaitq = <<>> <=> WSleepers = {}
      /\ rwaitq' = <<>> <=> RSleepers \ {t} = {}
      /\ wwaitq' = <<>> <=> WSleepers \ {t} = {}
  BY <1>1, EmptyExact
<1>3. rwstate[t] = "rwait" => WSleepers \ {t} = WSleepers
  BY DEF WSleepers
<1> QED BY <1>2, <1>3

\* The two halves of "nobody is stranded" are preserved together with RWInv.
LEMMA StrandedStep ==
  ASSUME RWInv, RW!ReadersNotStranded, RW!WritersNotStranded, [RW!Next]_(RW!vars)
  PROVE  RW!ReadersNotStranded' /\ RW!WritersNotStranded'
<1> DEFINE Goal == RW!ReadersNotStranded' /\ RW!WritersNotStranded'
<1>0. RWInv'
  BY RWInvStep
<1> USE DEF RW!ReadersNotStranded, RW!WritersNotStranded, RW!NobodyKilled
<1>1. CASE UNCHANGED RW!vars
  BY <1>1 DEF RW!vars
<1>2. ASSUME NEW t \in Thread, rwstate[t] \in {"running", "rwoken"}, RW!TryRead(t) PROVE Goal
  BY <1>2 DEF RW!TryRead, RW!SetState, RWInv, RW!TypeOK
<1>3. ASSUME NEW t \in Thread, RW!TryWrite(t) PROVE Goal
  <2>1. CASE wowner = None /\ rlock_nb = 0
    <3>1. wowner' = t /\ t # None
      BY <1>3, <2>1, ThreadAssumption DEF RW!TryWrite
    <3> QED BY <3>1
  <2>2. CASE ~(wowner = None /\ rlock_nb = 0)
    <3>1. wwaitq' = Append(wwaitq, t) /\ UNCHANGED <<wowner, rlock_nb>>
      BY <1>3, <2>2 DEF RW!TryWrite
    <3>2. wwaitq' # <<>>
      BY <3>1, AppendProperties DEF RWInv, RW!TypeOK
    <3> QED BY <2>2, <3>1, <3>2
  <2> QED BY <2>1, <2>2
<1>4. ASSUME wwaitq # <<>>, RW!SignalWriter PROVE Goal
  <2>1. Head(wwaitq) \in Thread /\ rwstate'[Head(wwaitq)] = "wwoken"
    BY <1>4, SignalWriterStep DEF RWInv, RW!TypeOK
  <2> QED BY <2>1
<1>5. ASSUME NEW t \in Thread, RW!WrUnlock(t) PROVE Goal
  BY <1>4, <1>5 DEF RW!WrUnlock, RW!BroadcastReaders
<1>6. ASSUME NEW t \in Thread, RW!RdUnlock(t) PROVE Goal
  <2>1. CASE rlock_nb = 1 /\ wwaitq # <<>>
    BY <1>4, <1>6, <2>1 DEF RW!RdUnlock
  <2>2. CASE ~(rlock_nb = 1 /\ wwaitq # <<>>)
    <3>1. UNCHANGED <<wwaitq, rwstate, wowner, rwaitq>> /\ rlock_nb' = rlock_nb - 1
      BY <1>6, <2>2 DEF RW!RdUnlock
    <3>2. wwaitq # <<>> => rlock_nb' # 0
      BY <2>2, <3>1 DEF RWInv, RW!TypeOK
    <3> QED BY <3>1, <3>2
  <2> QED BY <2>1, <2>2
<1>7. ASSUME NEW t \in Thread, RW!Interrupt(t) PROVE Goal
  <2>1. UNCHANGED <<wowner, rlock_nb>>
    BY <1>7 DEF RW!Interrupt
  <2>2. CASE rwstate[t] = "wwait"
    <3>1. rwstate'[t] = "wwoken"
      BY <1>7, <2>2 DEF RW!Interrupt, RW!SetState, RWInv, RW!TypeOK
    <3> QED BY <3>1
  <2>3. CASE rwstate[t] = "rwait"
    <3>1. rwstate' = [rwstate EXCEPT ![t] = "rwoken"]
      BY <1>7, <2>3 DEF RW!Interrupt, RW!SetState
    <3>2. \A u \in Thread : /\ rwstate[u] = "wwoken" => rwstate'[u] = "wwoken"
                            /\ rwstate'[u] # "zombie" => rwstate[u] # "zombie"
      BY <2>3, <3>1 DEF RWInv, RW!TypeOK
    <3>3. /\ rwaitq' # <<>> => rwaitq # <<>>
          /\ wwaitq' # <<>> <=> wwaitq # <<>>
      BY <1>7, <2>3, UnqueueEmpty
    <3> QED BY <2>1, <3>2, <3>3
  <2> QED BY <1>7, <2>2, <2>3 DEF RW!Interrupt
<1>8. ASSUME NEW t \in Thread, RW!SleepElsewhere(t) \/ RW!WakeElsewhere(t) PROVE Goal
  BY <1>8 DEF RW!SleepElsewhere, RW!WakeElsewhere, RW!SetState, RWInv, RW!TypeOK
<1>9. ASSUME NEW t \in Thread, RW!Kill(t) PROVE Goal
  <2>1. rwstate'[t] = "zombie"
    BY <1>9 DEF RW!Kill, RW!SetState, RWInv, RW!TypeOK
  <2> QED BY <2>1
<1> QED BY <1>1, <1>2, <1>3, <1>5, <1>6, <1>7, <1>8, <1>9
        DEF RW!Next, RW!RdLock, RW!RdResume, RW!WrLock, RW!WrResume

\* rwlock_unlock strands nobody, for any finite set of threads: until a thread
\* is killed in its sleep, readers sleep only behind an owner or a writer that
\* will own the lock, and a free lock has no sleeping writer unless one is awake.
THEOREM RWLockNotStranded == RW!Spec => [](RW!ReadersNotStranded /\ RW!WritersNotStranded)
<1>1. RW!Init => RW!ReadersNotStranded /\ RW!WritersNotStranded
  BY DEF RW!Init, RW!ReadersNotStranded, RW!WritersNotStranded
<1>2. RWInv /\ RW!ReadersNotStranded /\ RW!WritersNotStranded /\ [RW!Next]_(RW!vars)
        => RW!ReadersNotStranded' /\ RW!WritersNotStranded'
  BY StrandedStep
<1>3. RWInv /\ [RW!Next]_(RW!vars) => RWInv'
  BY RWInvStep
<1> QED BY <1>1, <1>2, <1>3, RWInvInit, PTL DEF RW!Spec

-----------------------------------------------------------------------------
\* Every step of the lock is a step of the lock service, or invisible to it.
LEMMA RWServiceStep ==
  ASSUME RWInv, [RW!Next]_(RW!vars)
  PROVE  [RW!Service!LNext]_(RW!Service!lvars)
<1> DEFINE Call == {"rwait", "wwait", "rwoken", "wwoken"}
           blocked == {u \in Thread : rwstate[u] \in Call}
           level == IF wowner = None THEN 0 ELSE 1
<1>0. RW!TypeOK /\ RW!Exclusion /\ None \notin Thread
  BY ThreadAssumption DEF RWInv
<1> SUFFICES \/ wowner' = wowner /\ level' = level /\ RW!Readers' = RW!Readers /\ blocked' = blocked
             \/ RW!Service!LNext
  BY DEF RW!Service!lvars
<1>1. CASE UNCHANGED RW!vars
  BY <1>1 DEF RW!vars, RW!Readers
<1>2. ASSUME NEW t \in Thread, RW!TryRead(t), held[t] = "no"
      PROVE  RW!Service!LNext
  <2>1. CASE wowner = None /\ wwaitq = <<>>
    <3>1. RW!Readers' = RW!Readers \cup {t} /\ blocked' = blocked \ {t} /\ wowner' = None
      BY <1>0, <1>2, <2>1 DEF RW!TryRead, RW!SetState, RW!Readers, RW!TypeOK
    <3>2. RW!Service!GrantShared(t)
      BY <2>1, <3>1 DEF RW!Service!GrantShared
    <3> QED BY <3>2 DEF RW!Service!LNext
  <2>2. CASE ~(wowner = None /\ wwaitq = <<>>)
    <3>1. RW!Readers' = RW!Readers /\ blocked' = blocked \cup {t} /\ wowner' = wowner
      BY <1>0, <1>2, <2>2 DEF RW!TryRead, RW!SetState, RW!Readers, RW!TypeOK
    <3>2. t \notin RW!Readers \cup {wowner}
      BY <1>0, <1>2 DEF RW!Readers, RW!Exclusion
    <3>3. RW!Service!Block(t)
      BY <3>1, <3>2 DEF RW!Service!Block
    <3> QED BY <3>3 DEF RW!Service!LNext
  <2> QED BY <2>1, <2>2
<1>3. ASSUME NEW t \in Thread, RW!TryWrite(t), held[t] = "no"
      PROVE  RW!Service!LNext
  <2>1. CASE wowner = None /\ rlock_nb = 0
    <3>1. RW!Readers = {}
      BY <1>0, <2>1, ReadersFinite, RWFiniteSets DEF RW!Exclusion
    <3>2. RW!Readers' = RW!Readers /\ blocked' = blocked \ {t} /\ wowner' = t
      BY <1>0, <1>2, <1>3, <2>1 DEF RW!TryWrite, RW!SetState, RW!Readers, RW!TypeOK
    <3>3. level = 0 /\ level' = 1
      BY <1>0, <2>1, <3>2
    <3>4. RW!Service!GrantExclusive(t)
      BY <2>1, <3>1, <3>2, <3>3 DEF RW!Service!GrantExclusive, RW!Service!Free
    <3> QED BY <3>4 DEF RW!Service!LNext
  <2>2. CASE ~(wowner = None /\ rlock_nb = 0)
    <3>1. RW!Readers' = RW!Readers /\ blocked' = blocked \cup {t} /\ wowner' = wowner
      BY <1>0, <1>3, <2>2 DEF RW!TryWrite, RW!SetState, RW!Readers, RW!TypeOK
    <3>2. t \notin RW!Readers \cup {wowner}
      BY <1>0, <1>3 DEF RW!Readers, RW!Exclusion
    <3>3. RW!Service!Block(t)
      BY <3>1, <3>2 DEF RW!Service!Block
    <3> QED BY <3>3 DEF RW!Service!LNext
  <2> QED BY <2>1, <2>2
<1>4. ASSUME wwaitq # <<>>, RW!SignalWriter PROVE blocked' = blocked
  BY <1>0, <1>4, SignalWriterStep DEF RW!TypeOK
<1>5. ASSUME NEW t \in Thread, RW!WrUnlock(t)
      PROVE  RW!Service!LNext
  <2>1. wowner = t /\ wowner' = None /\ level = 1 /\ level' = 0
    BY <1>0, <1>5 DEF RW!WrUnlock
  <2>2. RW!Readers' = RW!Readers
    BY <1>0, <1>5 DEF RW!WrUnlock, RW!Readers, RW!Exclusion, RW!TypeOK
  <2>3. blocked' = blocked
    BY <1>0, <1>4, <1>5 DEF RW!WrUnlock, RW!BroadcastReaders, RW!TypeOK
  <2>4. RW!Service!ReleaseExclusive(t)
    BY <2>1, <2>2, <2>3 DEF RW!Service!ReleaseExclusive
  <2> QED BY <2>4 DEF RW!Service!LNext
<1>6. ASSUME NEW t \in Thread, RW!RdUnlock(t)
      PROVE  RW!Service!LNext
  <2>1. RW!Readers' = RW!Readers \ {t} /\ t \in RW!Readers /\ wowner' = wowner
    BY <1>0, <1>6 DEF RW!RdUnlock, RW!Readers, RW!TypeOK
  <2>2. blocked' = blocked
    BY <1>4, <1>6 DEF RW!RdUnlock
  <2>3. RW!Service!ReleaseShared(t)
    BY <2>1, <2>2 DEF RW!Service!ReleaseShared
  <2> QED BY <2>3 DEF RW!Service!LNext
<1>7. ASSUME NEW t \in Thread, RW!Interrupt(t) \/ RW!SleepElsewhere(t) \/ RW!WakeElsewhere(t)
      PROVE  wowner' = wowner /\ level' = level /\ RW!Readers' = RW!Readers /\ blocked' = blocked
  BY <1>0, <1>7 DEF RW!Interrupt, RW!SleepElsewhere, RW!WakeElsewhere, RW!SetState, RW!Readers, RW!TypeOK
<1>8. ASSUME NEW t \in Thread, RW!Kill(t)
      PROVE  \/ wowner' = wowner /\ level' = level /\ RW!Readers' = RW!Readers /\ blocked' = blocked
             \/ RW!Service!LNext
  <2>1. wowner' = wowner /\ level' = level /\ RW!Readers' = RW!Readers /\ blocked' = blocked \ {t}
    BY <1>0, <1>8 DEF RW!Kill, RW!SetState, RW!Readers, RW!TypeOK
  <2>2. CASE t \notin blocked
    BY <2>1, <2>2
  <2>3. CASE t \in blocked
    <3>1. RW!Service!Abandon(t)
      BY <2>1, <2>3 DEF RW!Service!Abandon
    <3> QED BY <3>1 DEF RW!Service!LNext
  <2> QED BY <2>2, <2>3
<1>9. ASSUME NEW t \in Thread, RW!RdLock(t) \/ RW!RdResume(t) PROVE RW!Service!LNext
  BY <1>2, <1>9 DEF RW!RdLock, RW!RdResume, RWInv
<1>10. ASSUME NEW t \in Thread, RW!WrLock(t) \/ RW!WrResume(t) PROVE RW!Service!LNext
  BY <1>3, <1>10 DEF RW!WrLock, RW!WrResume, RWInv
<1> QED BY <1>1, <1>5, <1>6, <1>7, <1>8, <1>9, <1>10 DEF RW!Next

\* rwlock_rdlock, rwlock_wrlock and rwlock_unlock, with their two queues and
\* their wakeups, implement the lock service for any finite set of threads.
THEOREM RWLockImplementsService == RW!Spec => RW!ImplementsService
<1>1. RW!Init => RW!Service!LInit
  BY DEF RW!Init, RW!Service!LInit, RW!Service!Free, RW!Readers
<1>2. RWInv /\ [RW!Next]_(RW!vars) => [RW!Service!LNext]_(RW!Service!lvars)
  BY RWServiceStep
<1>3. RWInv /\ [RW!Next]_(RW!vars) => RWInv'
  BY RWInvStep
<1> QED BY <1>1, <1>2, <1>3, RWInvInit, PTL DEF RW!Spec, RW!ImplementsService, RW!Service!LSpec
=============================================================================
