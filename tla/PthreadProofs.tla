---------------------------- MODULE PthreadProofs ---------------------------
(* Proofs about the mutex of libpthread and what is built on it, for any set *)
(* of threads and at every atomic access: the mutex loses no FUTEX_WAKE and  *)
(* implements LockService, the condition variable loses no signal, and the   *)
(* last user of a joined or detached thread is the one that frees it.        *)
EXTENDS PthreadJoin, Integers, TLAPS

\* The inductive invariant: the count is not 0 exactly while one thread is
\* between its two exchanges; the waiting bit is only set in a word that is not
\* 0, because a thread that is about to set it or to sleep saw such a word.
IInv ==
    /\ TypeOK
    /\ \A t, u \in Thread : Holds(t) /\ Holds(u) => t = u
    /\ count > 0 <=> \E t \in Thread : Holds(t)
    /\ \A t \in Thread : owner = t <=> pc[t] = "held"
    /\ waiting = 1 => count > 0
    /\ \A t \in Thread : pc[t] \in {"mark", "wait"} => seen[t] > 0
    /\ \A t \in Thread : pc[t] \in {"own", "release"} => count = 1
    /\ SleepersAnnounced

LEMMA IInvInit == Init => IInv
BY DepthAssumption, ThreadAssumption DEF Init, IInv, TypeOK, Label, Holds, Crit, SleepersAnnounced

\* A thread that only moves between labels outside the critical section, to
\* one where it neither sleeps nor has to have seen a word, disturbs nothing.
LEMMA Move ==
  ASSUME IInv, NEW t \in Thread, pc[t] \notin Crit \cup {"wake"},
         pc' = [pc EXCEPT ![t] = "acquire"],
         seen' = seen \/ seen' = [seen EXCEPT ![t] = 0],
         UNCHANGED <<count, waiting, owner>>
  PROVE  IInv'
<1>1. TypeOK'
  BY DepthAssumption DEF IInv, TypeOK, Label
<1>2. \A u \in Thread : Holds(u)' <=> Holds(u)
  BY DEF IInv, TypeOK, Holds, Crit
<1>3. \A u \in Thread : pc'[u] \in {"mark", "wait"} => seen'[u] > 0
  BY DEF IInv, TypeOK
<1>4. SleepersAnnounced'
  BY DEF IInv, TypeOK, SleepersAnnounced, Crit
<1>5. \A u \in Thread : /\ owner' = u <=> pc'[u] = "held"
                        /\ pc'[u] \in {"own", "release"} => count' = 1
  BY DEF IInv, TypeOK, Crit
<1> QED BY <1>1, <1>2, <1>3, <1>4, <1>5 DEF IInv

LEMMA IInvStep == IInv /\ [Next]_mvars => IInv'
<1> SUFFICES ASSUME IInv, [Next]_mvars PROVE IInv'
  OBVIOUS
<1>0. /\ TypeOK /\ SleepersAnnounced /\ None \notin Thread /\ MaxDepth \in Nat \ {0}
      /\ \A t \in Thread : owner = t <=> pc[t] = "held"
      /\ \A t, u \in Thread : Holds(t) /\ Holds(u) => t = u
      /\ count > 0 <=> \E t \in Thread : Holds(t)
      /\ waiting = 1 => count > 0
      /\ \A t \in Thread : pc[t] \in {"mark", "wait"} => seen[t] > 0
      /\ \A t \in Thread : pc[t] \in {"own", "release"} => count = 1
  BY DepthAssumption, ThreadAssumption DEF IInv
<1>1. CASE UNCHANGED mvars
  BY <1>1 DEF IInv, TypeOK, Holds, SleepersAnnounced, mvars
<1>2. ASSUME NEW t \in Thread, Lock(t) \/ Interrupt(t) PROVE IInv'
  BY <1>2, Move DEF Lock, Interrupt, Goto, Crit
<1>3. ASSUME NEW t \in Thread, pc[t] \in {"idle", "acquire"}, count = 0, waiting = 0,
             count' = 1, Goto(t, "own"), UNCHANGED <<waiting, owner, seen>>
      PROVE  IInv'
  <2>1. \A u \in Thread : ~Holds(u)
    BY <1>0, <1>3
  <2>2. \A u \in Thread : Holds(u)' <=> u = t
    BY <1>0, <1>3, <2>1 DEF TypeOK, Holds, Crit, Goto
  <2>3. TypeOK'
    BY <1>0, <1>3 DEF TypeOK, Goto, Label
  <2>4. SleepersAnnounced'
    BY <1>0, <1>3 DEF TypeOK, SleepersAnnounced, Goto
  <2>5. \A u \in Thread : /\ owner' = u <=> pc'[u] = "held"
                          /\ pc'[u] \in {"own", "release"} => count' = 1
    BY <1>0, <1>3 DEF TypeOK, Goto
  <2>6. \A u \in Thread : pc'[u] \in {"mark", "wait"} => seen'[u] > 0
    BY <1>0, <1>3 DEF TypeOK, Goto
  <2> QED BY <1>0, <1>3, <2>2, <2>3, <2>4, <2>5, <2>6 DEF IInv
<1>4. ASSUME NEW t \in Thread, Relock(t) PROVE IInv'
  <2>1. Holds(t) /\ count \in 1..MaxDepth - 1
    BY <1>0, <1>4 DEF Relock, Holds, Crit, TypeOK
  <2>2. TypeOK' /\ count' > 0 /\ (\A u \in Thread : Holds(u)' <=> Holds(u))
    BY <1>0, <1>4, <2>1 DEF Relock, TypeOK, Holds
  <2>3. SleepersAnnounced'
    BY <1>0, <1>4, <2>1, <2>2 DEF Relock, SleepersAnnounced
  <2>4. \A u \in Thread : pc'[u] \notin {"own", "release"}
    BY <1>0, <1>4, <2>1 DEF Relock, Holds, Crit
  <2> QED BY <1>0, <1>4, <2>1, <2>2, <2>3, <2>4 DEF Relock, IInv
<1>5. ASSUME NEW t \in Thread, pc[t] = "acquire", ~(count = 0 /\ waiting = 0),
             seen' = [seen EXCEPT ![t] = count],
             Goto(t, IF waiting = 1 THEN "wait" ELSE "mark"), UNCHANGED <<count, waiting, owner>>
      PROVE  IInv'
  <2>1. count > 0
    BY <1>0, <1>5 DEF TypeOK
  <2>2. TypeOK' /\ (\A u \in Thread : Holds(u)' <=> Holds(u))
    BY <1>0, <1>5 DEF TypeOK, Goto, Label, Holds, Crit
  <2>3. \A u \in Thread : pc'[u] \in {"mark", "wait"} => seen'[u] > 0
    BY <1>0, <1>5, <2>1 DEF TypeOK, Goto
  <2>4. SleepersAnnounced'
    BY <1>0, <1>5 DEF TypeOK, SleepersAnnounced, Goto
  <2>5. \A u \in Thread : /\ owner' = u <=> pc'[u] = "held"
                          /\ pc'[u] \in {"own", "release"} => count' = 1
    BY <1>0, <1>5 DEF TypeOK, Goto
  <2> QED BY <1>0, <1>5, <2>2, <2>3, <2>4, <2>5 DEF IInv
<1>6. ASSUME NEW t \in Thread, pc[t] = "mark", count = seen[t], waiting' = 1,
             Goto(t, "wait"), UNCHANGED <<count, owner, seen>>
      PROVE  IInv'
  <2>1. count > 0 /\ TypeOK' /\ (\A u \in Thread : Holds(u)' <=> Holds(u))
    BY <1>0, <1>6 DEF TypeOK, Goto, Label, Holds, Crit
  <2>2. SleepersAnnounced'
    BY <1>0, <1>6, <2>1 DEF TypeOK, SleepersAnnounced, Goto
  <2>3. \A u \in Thread : /\ owner' = u <=> pc'[u] = "held"
                          /\ pc'[u] \in {"own", "release"} => count' = 1
                          /\ pc'[u] \in {"mark", "wait"} => seen'[u] > 0
    BY <1>0, <1>6 DEF TypeOK, Goto
  <2> QED BY <1>0, <1>6, <2>1, <2>2, <2>3 DEF IInv
<1>7. ASSUME NEW t \in Thread, pc[t] = "wait", count = seen[t], waiting = 1,
             Goto(t, "asleep"), seen' = [seen EXCEPT ![t] = 0], UNCHANGED <<count, waiting, owner>>
      PROVE  IInv'
  <2>1. TypeOK' /\ (\A u \in Thread : Holds(u)' <=> Holds(u))
    BY <1>0, <1>7 DEF TypeOK, Goto, Label, Holds, Crit
  <2>2. SleepersAnnounced'
    BY <1>0, <1>7 DEF SleepersAnnounced
  <2>3. \A u \in Thread : /\ owner' = u <=> pc'[u] = "held"
                          /\ pc'[u] \in {"own", "release"} => count' = 1
                          /\ pc'[u] \in {"mark", "wait"} => seen'[u] > 0
    BY <1>0, <1>7 DEF TypeOK, Goto
  <2> QED BY <1>0, <1>7, <2>1, <2>2, <2>3 DEF IInv
<1>8. ASSUME NEW t \in Thread, Own(t) PROVE IInv'
  <2>1. Holds(t)
    BY <1>8 DEF Own, Holds, Crit
  <2>2. TypeOK' /\ (\A u \in Thread : Holds(u)' <=> Holds(u))
    BY <1>0, <1>8 DEF Own, TypeOK, Goto, Label, Holds, Crit
  <2>3. \A u \in Thread : /\ owner' = u <=> pc'[u] = "held"
                          /\ pc'[u] \in {"own", "release"} => count' = 1
    BY <1>0, <1>8, <2>1 DEF Own, TypeOK, Goto, Holds, Crit
  <2>4. SleepersAnnounced'
    BY <1>0, <1>8 DEF Own, TypeOK, SleepersAnnounced, Goto
  <2>5. \A u \in Thread : pc'[u] \in {"mark", "wait"} => seen'[u] > 0
    BY <1>0, <1>8 DEF Own, TypeOK, Goto
  <2> QED BY <1>0, <1>8, <2>2, <2>3, <2>4, <2>5 DEF Own, IInv
<1>9. ASSUME NEW t \in Thread, Unlock(t) PROVE IInv'
  <2>1. Holds(t) /\ count \in 1..MaxDepth
    BY <1>0, <1>9 DEF Unlock, Holds, Crit, TypeOK
  <2>2. TypeOK' /\ count' > 0 /\ (\A u \in Thread : Holds(u)' <=> Holds(u))
    BY <1>0, <1>9, <2>1 DEF Unlock, TypeOK, Goto, Label, Holds, Crit
  <2>3. \A u \in Thread : /\ owner' = u <=> pc'[u] = "held"
                          /\ pc'[u] \in {"own", "release"} => count' = 1
    BY <1>0, <1>9, <2>1 DEF Unlock, TypeOK, Goto, Holds, Crit
  <2>4. SleepersAnnounced'
    BY <1>0, <1>9, <2>2 DEF Unlock, TypeOK, SleepersAnnounced, Goto
  <2>5. \A u \in Thread : pc'[u] \in {"mark", "wait"} => seen'[u] > 0
    BY <1>0, <1>9 DEF Unlock, TypeOK, Goto
  <2> QED BY <1>0, <1>9, <2>1, <2>2, <2>3, <2>4, <2>5 DEF Unlock, IInv
<1>10. ASSUME NEW t \in Thread, Release(t) PROVE IInv'
  <2>1. Holds(t)
    BY <1>10 DEF Release, Holds, Crit
  <2>2. TypeOK' /\ count' = 0 /\ waiting' = 0 /\ (\A u \in Thread : ~Holds(u)')
    BY <1>0, <1>10, <2>1 DEF Release, TypeOK, Goto, Label, Holds, Crit
  <2>3. \A u \in Thread : /\ owner' = u <=> pc'[u] = "held"
                          /\ pc'[u] \in {"own", "release"} => count' = 1
    BY <1>0, <1>10, <2>1 DEF Release, TypeOK, Goto, Holds, Crit
  <2>4. SleepersAnnounced'
    BY <1>0, <1>10 DEF Release, TypeOK, SleepersAnnounced, Goto
  <2>5. \A u \in Thread : pc'[u] \in {"mark", "wait"} => seen'[u] > 0
    BY <1>0, <1>10 DEF Release, TypeOK, Goto
  <2> QED BY <2>2, <2>3, <2>4, <2>5 DEF IInv
<1>11. ASSUME NEW t \in Thread, WakeAll(t) PROVE IInv'
  <2>1. TypeOK' /\ (\A u \in Thread : Holds(u)' <=> Holds(u))
    BY <1>0, <1>11 DEF WakeAll, TypeOK, Label, Holds, Crit
  <2>2. SleepersAnnounced'
    BY <1>0, <1>11 DEF WakeAll, TypeOK, SleepersAnnounced
  <2>3. \A u \in Thread : /\ owner' = u <=> pc'[u] = "held"
                          /\ pc'[u] \in {"own", "release"} => count' = 1
                          /\ pc'[u] \in {"mark", "wait"} => seen'[u] > 0
    BY <1>0, <1>11 DEF WakeAll, TypeOK
  <2> QED BY <1>0, <1>11, <2>1, <2>2, <2>3 DEF WakeAll, IInv
<1>12. ASSUME NEW t \in Thread, Acquire(t) \/ TryLock(t) PROVE IInv'
  BY <1>3, <1>5, <1>12 DEF Acquire, TryLock
<1>13. ASSUME NEW t \in Thread, Mark(t) \/ Wait(t) PROVE IInv'
  <2>1. CASE Goto(t, "acquire") /\ seen' = [seen EXCEPT ![t] = 0] /\ UNCHANGED waiting
    BY <1>13, <2>1, Move DEF Mark, Wait, Goto, Crit
  <2> QED BY <1>6, <1>7, <1>13, <2>1 DEF Mark, Wait
<1> QED BY <1>1, <1>2, <1>4, <1>8, <1>9, <1>10, <1>11, <1>12, <1>13 DEF Next, Step

\* For any number of threads, interrupted or timed out at will, no wakeup of
\* pthread_mutex_unlock is lost between the accesses of a thread that goes to
\* sleep: while one sleeps, the word says so or all are about to be woken.
THEOREM PthreadMutexSleepersAnnounced == Spec => []SleepersAnnounced
<1>1. IInv => SleepersAnnounced
  BY DEF IInv
<1> QED BY <1>1, IInvInit, IInvStep, PTL DEF Spec

-----------------------------------------------------------------------------
\* The thread that holds the mutex is the only one to.
LEMMA HolderIs ==
  ASSUME IInv
  PROVE  /\ \A t \in Thread : Holds(t) => Holder = t
         /\ (\A t \in Thread : ~Holds(t)) => Holder = None
<1>1. ASSUME NEW t \in Thread, Holds(t) PROVE Holder = t
  BY <1>1 DEF IInv, Holder
<1> QED BY <1>1 DEF Holder

LEMMA HolderWillBe ==
  ASSUME IInv'
  PROVE  /\ \A t \in Thread : Holds(t)' => Holder' = t
         /\ (\A t \in Thread : ~Holds(t)') => Holder' = None
<1>1. ASSUME NEW t \in Thread, Holds(t)' PROVE Holder' = t
  BY <1>1 DEF IInv, Holder
<1> QED BY <1>1 DEF Holder

\* Every step is a step of the lock service, or invisible to it.
LEMMA ServiceStep ==
  ASSUME IInv, [Next]_mvars
  PROVE  [Service!LNext]_(Service!lvars)
<1> DEFINE blocked == {t \in Thread : pc[t] \in {"acquire", "mark", "wait", "asleep"}}
<1>0. /\ IInv' /\ TypeOK /\ TypeOK' /\ None \notin Thread
      /\ \A t \in Thread : owner = t <=> pc[t] = "held"
      /\ count > 0 <=> \E t \in Thread : Holds(t)
      /\ waiting = 1 => count > 0
  BY IInvStep, ThreadAssumption DEF IInv
<1>h. /\ \A t \in Thread : Holds(t) => Holder = t
      /\ (\A t \in Thread : ~Holds(t)) => Holder = None
      /\ \A t \in Thread : Holds(t)' => Holder' = t
      /\ (\A t \in Thread : ~Holds(t)') => Holder' = None
  BY <1>0, HolderIs, HolderWillBe
<1> HIDE DEF Holder
<1> SUFFICES \/ Holder' = Holder /\ count' = count /\ blocked' = blocked
             \/ Service!LNext
  BY DEF Service!lvars
<1>s. ASSUME \A u \in Thread : Holds(u)' <=> Holds(u) PROVE Holder' = Holder
  BY <1>h, <1>s
<1>1. CASE UNCHANGED mvars
  <2>1. \A u \in Thread : Holds(u)' <=> Holds(u)
    BY <1>1 DEF mvars, Holds
  <2> QED BY <1>1, <1>s, <2>1 DEF mvars
<1>2. ASSUME NEW t \in Thread, Lock(t) PROVE Service!LNext
  <2>1. \A u \in Thread : Holds(u)' <=> Holds(u)
    BY <1>0, <1>2 DEF Lock, Goto, Holds, Crit, TypeOK
  <2>2. blocked' = blocked \cup {t}
    BY <1>0, <1>2 DEF Lock, Goto, TypeOK
  <2>3. Holder # t
    <3>1. ~Holds(t)
      BY <1>2 DEF Lock, Holds, Crit
    <3>2. CASE \E u \in Thread : Holds(u)
      BY <1>h, <3>1, <3>2
    <3>3. CASE \A u \in Thread : ~Holds(u)
      BY <1>0, <1>h, <3>3
    <3> QED BY <3>2, <3>3
  <2>4. Service!Block(t)
    BY <1>2, <1>s, <2>1, <2>2, <2>3 DEF Service!Block, Lock
  <2> QED BY <2>4 DEF Service!LNext
<1>3. ASSUME NEW t \in Thread, pc[t] \in {"idle", "acquire"}, count = 0,
             count' = 1, Goto(t, "own")
      PROVE  Service!LNext
  <2>1. Holder = None
    BY <1>0, <1>h, <1>3
  <2>2. Holder' = t
    <3>1. Holds(t)'
      BY <1>0, <1>3 DEF Goto, Holds, Crit, TypeOK
    <3> QED BY <1>h, <3>1
  <2>3. blocked' = blocked \ {t}
    BY <1>0, <1>3 DEF Goto, TypeOK
  <2>4. Service!GrantExclusive(t)
    BY <1>3, <2>1, <2>2, <2>3 DEF Service!GrantExclusive, Service!Free
  <2> QED BY <2>4 DEF Service!LNext
<1>4. ASSUME NEW t \in Thread, Relock(t) PROVE Service!LNext
  <2>1. Holds(t) /\ \A u \in Thread : Holds(u)' <=> Holds(u)
    BY <1>4 DEF Relock, Holds, Crit
  <2>2. Holder = t /\ Holder' = t
    BY <1>h, <1>s, <2>1
  <2>3. blocked' = blocked \ {t}
    BY <1>4 DEF Relock
  <2>4. Service!GrantExclusive(t)
    BY <1>4, <2>2, <2>3 DEF Relock, Service!GrantExclusive
  <2> QED BY <2>4 DEF Service!LNext
<1>5. ASSUME NEW t \in Thread, Unlock(t), count > 1 PROVE Service!LNext
  <2>1. Holds(t) /\ \A u \in Thread : Holds(u)' <=> Holds(u)
    BY <1>5 DEF Unlock, Holds, Crit
  <2>2. Holder = t /\ Holder' = t
    BY <1>h, <1>s, <2>1
  <2>3. Service!ReleaseExclusive(t)
    BY <1>0, <1>5, <2>2 DEF Unlock, Service!ReleaseExclusive, TypeOK
  <2> QED BY <2>3 DEF Service!LNext
<1>6. ASSUME NEW t \in Thread, Release(t) PROVE Service!LNext
  <2>1. Holds(t) /\ Holder = t /\ count = 1
    BY <1>h, <1>6 DEF Release, Holds, Crit, IInv
  <2>2. Holder' = None
    <3>1. \A u \in Thread : ~Holds(u)'
      BY <1>0, <1>6 DEF Release, IInv
    <3> QED BY <1>h, <3>1
  <2>3. blocked' = blocked
    BY <1>0, <1>6 DEF Release, Goto, TypeOK
  <2>4. Service!ReleaseExclusive(t)
    BY <1>6, <2>1, <2>2, <2>3 DEF Release, Service!ReleaseExclusive
  <2> QED BY <2>4 DEF Service!LNext
<1>7. ASSUME NEW t \in Thread,
             \/ Interrupt(t) \/ Mark(t) \/ Wait(t) \/ Own(t) \/ WakeAll(t)
             \/ Acquire(t) /\ ~(count = 0 /\ waiting = 0)
             \/ Unlock(t) /\ ~(count > 1)
      PROVE  Holder' = Holder /\ count' = count /\ blocked' = blocked
  <2>1. \A u \in Thread : Holds(u)' <=> Holds(u)
    BY <1>0, <1>7 DEF Interrupt, Mark, Wait, Own, WakeAll, Acquire, Unlock, Goto, Holds, Crit, TypeOK
  <2>2. blocked' = blocked
    BY <1>0, <1>7 DEF Interrupt, Mark, Wait, Own, WakeAll, Acquire, Unlock, Goto, TypeOK
  <2>3. count' = count
    BY <1>7 DEF Interrupt, Mark, Wait, Own, WakeAll, Acquire, Unlock
  <2> QED BY <1>s, <2>1, <2>2, <2>3
<1>8. ASSUME NEW t \in Thread, Acquire(t) \/ TryLock(t)
      PROVE  \/ Holder' = Holder /\ count' = count /\ blocked' = blocked
             \/ Service!LNext
  BY <1>3, <1>7, <1>8 DEF Acquire, TryLock
<1> QED BY <1>1, <1>2, <1>4, <1>5, <1>6, <1>7, <1>8 DEF Next, Step

\* pthread_mutex_lock, trylock and unlock implement the exclusive lock service
\* for any set of threads, each atomic access being a step of its own.
THEOREM PthreadMutexImplementsService == Spec => ImplementsService
<1>1. Init => Service!LInit
  <2> SUFFICES ASSUME Init PROVE Service!LInit
    OBVIOUS
  <2>1. Holder = None
    BY DEF Init, Holder, Holds, Crit
  <2> QED BY <2>1 DEF Init, Service!LInit, Service!Free
<1>2. IInv /\ [Next]_mvars => [Service!LNext]_(Service!lvars)
  BY ServiceStep
<1> QED BY <1>1, <1>2, IInvInit, IInvStep, PTL DEF Spec, ImplementsService, Service!LSpec

-----------------------------------------------------------------------------
\* The labels of a thread in pthread_mutex_lock or with the mutex, and of one
\* that gives it up or has none.
Locking == {"acquire", "mark", "wait", "asleep", "own", "held"}
Leaving == {"release", "wake", "idle"}

\* What the calls of mutex.c do to the labels: a thread moves along its own
\* call, and can be woken by another, nothing else.
LEMMA MutexMoves ==
  ASSUME TypeOK, NEW t \in Thread,
         Lock(t) \/ TryLock(t) \/ Unlock(t) \/ Interrupt(t) \/ Step(t)
  PROVE  /\ pc' \in [Thread -> Label]
         /\ \A u \in Thread \ {t} : pc'[u] = pc[u] \/ (pc[u] = "asleep" /\ pc'[u] = "acquire")
         /\ pc[t] = "idle" => pc'[t] \in {"acquire", "own"}
         /\ pc[t] \in Locking \ {"held"} => pc'[t] \in Locking
         /\ pc[t] = "held" => pc'[t] = "release" \/ (pc'[t] = "held" /\ count > 1)
         /\ pc[t] = "release" => pc'[t] \in {"wake", "idle"}
         /\ pc[t] = "wake" => pc'[t] = "idle"
<1> USE DEF TypeOK, Label, Locking, Goto
<1>1. CASE Lock(t) \/ TryLock(t)
  BY <1>1 DEF Lock, TryLock
<1>2. CASE Unlock(t)
  BY <1>2 DEF Unlock
<1>3. CASE Interrupt(t)
  BY <1>3 DEF Interrupt
<1>4. CASE Acquire(t)
  BY <1>4 DEF Acquire
<1>5. CASE Mark(t) \/ Wait(t)
  BY <1>5 DEF Mark, Wait
<1>6. CASE Own(t) \/ Release(t)
  BY <1>6 DEF Own, Release
<1>7. CASE WakeAll(t)
  BY <1>7 DEF WakeAll
<1> QED BY <1>1, <1>2, <1>3, <1>4, <1>5, <1>6, <1>7 DEF Step

\* Which call it is shows in the label.
LEMMA MutexCalls ==
  ASSUME TypeOK, NEW t \in Thread
  PROVE  /\ Lock(t) \/ TryLock(t) => pc[t] = "idle"
         /\ Unlock(t) => pc[t] = "held"
         /\ Interrupt(t) \/ Step(t) => pc[t] \notin {"idle", "held"}
BY DEF Lock, TryLock, Unlock, Interrupt, Step, Acquire, Mark, Wait, Own, Release, WakeAll

-----------------------------------------------------------------------------
CType ==
    /\ value \in Nat
    /\ cpc \in [Thread -> {"out", "load", "unlock", "asleep", "relock", "signal", "broadcast"}]
    /\ cseen \in [Thread -> Nat]
    /\ \A S \in owed : S \subseteq Thread

\* A thread signals and reads cond->value with the mutex, and sleeps without.
Inside(t) ==
    /\ cpc[t] \in {"load", "signal"} => pc[t] = "held"
    /\ cpc[t] = "unlock" => pc[t] \in Leaving \cup {"held"}
    /\ cpc[t] = "asleep" => pc[t] = "idle"
    /\ cseen[t] <= value

\* A signal that is owed: its candidates all saw an older cond->value, so that
\* one that is not asleep will not sleep again; if all are, the FUTEX_WAKE is
\* still to come, and finds nobody else who sleeps if it is to wake only one.
Due(S) ==
    /\ S # {}
    /\ \A t \in S : cpc[t] \in {"unlock", "asleep"} /\ cseen[t] < value
    /\ \/ \E t \in S : cpc[t] = "unlock"
       \/ \E u \in Thread : cpc[u] = "broadcast"
       \/ \E u \in Thread : cpc[u] = "signal" /\ \A t \in Thread : Waits(t) => t \in S

CInv ==
    /\ CType
    /\ \A t \in Thread : Inside(t)
    /\ \A S \in owed : Due(S)

LEMMA CInvInit == CInit => CInv
BY DEF CInit, Init, CInv, CType, Inside

\* A step of mutex.c inside or outside the calls of cond.c: only the thread that
\* unlocks the mutex can begin to wait, and a thread that signals has it.
LEMMA CInvMutex ==
  ASSUME IInv, CInv, NEW t \in Thread,
         Lock(t) \/ TryLock(t) \/ Unlock(t) \/ Interrupt(t) \/ Step(t),
         Lock(t) \/ TryLock(t) => cpc[t] \in {"out", "relock"},
         Unlock(t) => cpc[t] \in {"out", "unlock"},
         UNCHANGED cvars
  PROVE  CInv'
<1>0. /\ TypeOK /\ CType /\ UNCHANGED <<value, waiters, cpc, cseen, owed>>
      /\ \A u, v \in Thread : Holds(u) /\ Holds(v) => u = v
  BY DEF IInv, CInv, cvars
<1>1. /\ pc' \in [Thread -> Label]
      /\ \A u \in Thread \ {t} : pc'[u] = pc[u] \/ (pc[u] = "asleep" /\ pc'[u] = "acquire")
      /\ pc[t] = "idle" => cpc[t] \in {"out", "relock"}
      /\ pc[t] = "held" => cpc[t] \in {"out", "unlock"} /\ pc'[t] \in {"held", "release"}
      /\ pc[t] \in Locking \ {"held"} => pc'[t] \in Locking
      /\ pc[t] = "release" => pc'[t] \in {"wake", "idle"}
      /\ pc[t] = "wake" => pc'[t] = "idle"
  BY <1>0, MutexMoves, MutexCalls
<1>2. CType'
  BY <1>0 DEF CType
<1>3. ASSUME NEW u \in Thread PROVE Inside(u)'
  <2>1. Inside(u) /\ Inside(t) /\ cpc[u] \in {"out", "load", "unlock", "asleep", "relock", "signal", "broadcast"}
    BY <1>0 DEF CInv, CType
  <2> QED BY <1>0, <1>1, <2>1 DEF Inside, Locking, Leaving, TypeOK, Label
<1>4. ASSUME NEW v \in Thread, Waits(v)', ~Waits(v) PROVE v = t /\ pc[t] = "release"
  <2>1. Inside(v) /\ cpc[v] = "unlock" /\ pc'[v] \in {"idle", "wake"} /\ pc[v] \notin {"idle", "wake"}
    BY <1>0, <1>4 DEF Waits, CInv
  <2> QED BY <1>1, <2>1 DEF Inside, Leaving
<1>5. ASSUME NEW S \in owed' PROVE Due(S)'
  <2>1. S \in owed /\ Due(S)
    BY <1>0 DEF CInv
  <2>2. ASSUME NEW u \in Thread, cpc[u] = "signal", NEW v \in Thread, Waits(v)' PROVE Waits(v)
    <3>1. pc[u] = "held" /\ Holds(u)
      BY <2>2 DEF CInv, Inside, Holds, Crit
    <3> QED BY <1>0, <1>4, <2>2, <3>1 DEF Holds, Crit
  <2> QED BY <1>0, <2>1, <2>2 DEF Due
<1> QED BY <1>2, <1>3, <1>5 DEF CInv

\* A step of cond.c by a thread that keeps its place in mutex.c; a signal takes
\* the value past what every thread that waits has seen.
LEMMA CInvSignal ==
  ASSUME IInv, CInv, NEW t \in Thread, Signal(t) \/ Broadcast(t)
  PROVE  CInv'
<1>0. /\ TypeOK /\ CType /\ UNCHANGED <<pc, cseen>> /\ value' = value + 1
      /\ cpc[t] = "out" /\ cpc' = [cpc EXCEPT ![t] = IF Signal(t) THEN "signal" ELSE "broadcast"]
      /\ \A u \in Thread : Inside(u)
      /\ \A S \in owed : Due(S)
  BY DEF IInv, CInv, mvars, Signal, Broadcast, CGoto
<1>1. \A u \in Thread : /\ Waits(u) => cpc[u] \in {"unlock", "asleep"}
                        /\ Waits(u)' <=> Waits(u)
                        /\ u # t => cpc'[u] = cpc[u]
  BY <1>0 DEF CType, Waits
<1>2. \A S \in owed' : S \in owed \/ (S # {} /\ \A u \in S : u \in Thread /\ Waits(u))
  BY DEF Signal, Broadcast
<1>3. CType'
  BY <1>0, <1>2 DEF CType
<1>4. \A u \in Thread : Inside(u)'
  <2>1. Signal(t) => pc[t] = "held"
    BY DEF Signal
  <2> QED BY <1>0, <2>1 DEF CType, Inside
<1>5. ASSUME NEW S \in owed' PROVE Due(S)'
  <2>1. S # {} /\ \A u \in S : u \in Thread /\ cpc'[u] \in {"unlock", "asleep"} /\ cseen'[u] < value'
    <3>1. CASE S \in owed
      BY <1>0, <3>1 DEF Due, CType
    <3>2. CASE S # {} /\ \A u \in S : u \in Thread /\ Waits(u)
      BY <1>0, <1>1, <3>2 DEF Inside, CType
    <3> QED BY <1>2, <3>1, <3>2
  <2>2. CASE Broadcast(t) /\ ~Signal(t)
    BY <1>0, <2>1, <2>2 DEF Due, CType
  <2>3. CASE Signal(t) /\ S \in owed
    <3>1. \A u \in Thread : cpc[u] = "signal" => u = t
      BY <1>0, <2>3 DEF Inside, Signal, Holds, Crit, IInv
    <3>2. \/ \E u \in S : cpc[u] = "unlock"
          \/ \E u \in Thread : cpc[u] = "broadcast"
      BY <1>0, <2>3, <3>1 DEF Due
    <3> QED BY <1>0, <1>1, <2>1, <3>2 DEF Due, CType
  <2>4. CASE Signal(t) /\ S \notin owed
    <3>1. S = {u \in Thread : Waits(u)}
      BY <2>4 DEF Signal
    <3>2. cpc'[t] = "signal"
      BY <1>0, <2>4 DEF CType
    <3> QED BY <1>1, <2>1, <3>1, <3>2 DEF Due
  <2> QED BY <2>2, <2>3, <2>4
<1> QED BY <1>3, <1>4, <1>5 DEF CInv

\* What unblocks threads takes the signals they were candidates of off the list,
\* and so leaves alone the candidates of the others.
LEMMA CInvServe ==
  ASSUME IInv, CInv, NEW ts \in SUBSET Thread, owed' = Served(ts),
         UNCHANGED <<pc, value, cseen>>,
         \A u \in ts : cpc[u] \in {"unlock", "asleep"},
         NEW t \in Thread,
         cpc' = [u \in Thread |-> IF u = t /\ t \notin ts THEN "out"
                                  ELSE IF u \in ts THEN "relock" ELSE cpc[u]],
         t \in ts \/ cpc[t] \in {"signal", "broadcast"},
         cpc[t] = "broadcast" => \A u \in Thread : cpc[u] = "asleep" => u \in ts,
         cpc[t] = "signal" /\ (\E u \in Thread : cpc[u] = "asleep") =>
            \E u \in ts : cpc[u] = "asleep"
  PROVE  CInv'
<1>0. /\ CType /\ (\A u \in Thread : Inside(u)) /\ (\A S \in owed : Due(S))
      /\ \A u \in Thread : cpc[u] \in {"load", "signal"} => pc[u] = "held"
      /\ \A u, v \in Thread : Holds(u) /\ Holds(v) => u = v
  BY DEF IInv, CInv, Inside
<1>1. CType'
  BY <1>0 DEF CType, Served
<1>2. \A u \in Thread : Inside(u)'
  BY <1>0 DEF CType, Inside
<1>3. ASSUME NEW S \in owed' PROVE Due(S)'
  <2>1. S \in owed /\ S \cap ts = {} /\ Due(S) /\ S \subseteq Thread
    BY <1>0 DEF Served, CType
  <2>2. \A u \in S : cpc'[u] = cpc[u] /\ cpc[u] \in {"unlock", "asleep"} /\ cseen'[u] < value'
    BY <2>1 DEF Due
  <2>3. CASE \E u \in S : cpc[u] = "unlock"
    BY <2>1, <2>2, <2>3 DEF Due
  <2>4. CASE (\A u \in S : cpc[u] = "asleep") /\ \E u \in Thread : cpc[u] = "broadcast"
    <3>1. PICK u \in Thread : cpc[u] = "broadcast"
      BY <2>4
    <3>2. u # t
      BY <2>1, <2>4, <3>1 DEF Due
    <3>3. cpc'[u] = "broadcast"
      BY <3>1, <3>2
    <3> QED BY <2>1, <2>2, <3>3 DEF Due
  <2>5. CASE /\ \A u \in S : cpc[u] = "asleep"
             /\ \E u \in Thread : cpc[u] = "signal" /\ \A v \in Thread : Waits(v) => v \in S
    <3>1. PICK u \in Thread : cpc[u] = "signal" /\ \A v \in Thread : Waits(v) => v \in S
      BY <2>5
    <3>2. \A v \in ts : cpc[v] # "asleep"
      BY <2>1, <3>1 DEF Waits
    <3>3. u # t
      BY <2>1, <2>5, <3>1, <3>2 DEF Due
    <3>4. cpc'[u] = "signal"
      BY <3>1, <3>3
    <3>5. \A v \in Thread : Waits(v)' => Waits(v)
      BY DEF Waits
    <3> QED BY <2>1, <2>2, <3>1, <3>4, <3>5 DEF Due
  <2> QED BY <2>1, <2>2, <2>3, <2>4, <2>5 DEF Due
<1> QED BY <1>1, <1>2, <1>3 DEF CInv

LEMMA CInvStep == IInv /\ CInv /\ [CNext]_vars => CInv'
<1> SUFFICES ASSUME IInv, CInv, [CNext]_vars PROVE CInv'
  OBVIOUS
<1>0. /\ TypeOK /\ CType /\ (\A u \in Thread : Inside(u)) /\ (\A S \in owed : Due(S))
      /\ \A u \in Thread : cpc[u] \in {"load", "signal"} => pc[u] = "held"
      /\ \A u, v \in Thread : Holds(u) /\ Holds(v) => u = v
  BY DEF IInv, CInv, Inside
<1>1. CASE UNCHANGED vars
  BY <1>1 DEF vars, mvars, cvars, CInv, CType, Inside, Due, Waits
<1>2. ASSUME NEW t \in Thread, MutexCall(t) \/ MutexStep(t) PROVE CInv'
  <2>1. UNCHANGED cvars
    BY <1>2 DEF MutexCall, MutexStep
  <2>2. Lock(t) \/ TryLock(t) \/ Unlock(t) \/ Interrupt(t) \/ Step(t)
    BY <1>2 DEF MutexCall, MutexStep
  <2>3. Lock(t) \/ TryLock(t) => cpc[t] \in {"out", "relock"}
    BY <1>0, <1>2, MutexCalls DEF MutexCall, MutexStep
  <2>4. Unlock(t) => cpc[t] \in {"out", "unlock"}
    BY <1>0, <1>2, MutexCalls DEF MutexCall, MutexStep
  <2> QED BY <2>1, <2>2, <2>3, <2>4, CInvMutex
<1>3. ASSUME NEW t \in Thread, CondWait(t) \/ Load(t) \/ CondReturn(t) PROVE CInv'
  <2>1. /\ UNCHANGED <<pc, value, owed>> /\ pc[t] = "held" /\ cpc[t] \in {"out", "load", "relock"}
        /\ \E l \in {"load", "unlock", "out"} : cpc' = [cpc EXCEPT ![t] = l]
        /\ \E n \in 0..value : cseen' = cseen \/ cseen' = [cseen EXCEPT ![t] = n]
        /\ pc'[t] = "held"
    BY <1>0, <1>3 DEF CondWait, Load, CondReturn, CGoto, mvars, CType
  <2>2. \A u \in Thread : /\ Waits(u)' <=> Waits(u)
                          /\ u # t => cpc'[u] = cpc[u] /\ cseen'[u] = cseen[u]
    BY <1>0, <2>1 DEF CType, Waits
  <2>3. CType'
    BY <1>0, <2>1 DEF CType
  <2>4. \A u \in Thread : Inside(u)'
    BY <1>0, <2>1 DEF CType, Inside
  <2>5. \A S \in owed' : Due(S)'
    <3> SUFFICES ASSUME NEW S \in owed PROVE Due(S)'
      BY <2>1
    <3>1. Due(S) /\ t \notin S /\ S \subseteq Thread
      BY <1>0, <2>1 DEF Due, CType
    <3> QED BY <1>0, <2>1, <2>2, <3>1 DEF Due, CType
  <2> QED BY <2>3, <2>4, <2>5 DEF CInv
<1>4. ASSUME NEW t \in Thread, Signal(t) \/ Broadcast(t) PROVE CInv'
  BY <1>4, CInvSignal
<1>5. ASSUME NEW t \in Thread, CondInterrupt(t) \/ (CondSleep(t) /\ value = cseen[t]) PROVE CInv'
  <2>1. /\ UNCHANGED <<pc, value, cseen, owed>>
        /\ \/ cpc[t] = "asleep" /\ cpc' = [cpc EXCEPT ![t] = "unlock"]
           \/ /\ cpc[t] = "unlock" /\ pc[t] = "idle" /\ value = cseen[t]
              /\ cpc' = [cpc EXCEPT ![t] = "asleep"]
    BY <1>5 DEF CondInterrupt, CondSleep, CGoto, mvars
  <2>2. \A u \in Thread : Waits(u)' <=> Waits(u)
    BY <1>0, <2>1 DEF CType, Waits, Inside
  <2>3. CType'
    BY <1>0, <2>1 DEF CType
  <2>4. \A u \in Thread : Inside(u)'
    BY <1>0, <2>1 DEF CType, Inside, Leaving
  <2>5. \A S \in owed' : Due(S)'
    <3> SUFFICES ASSUME NEW S \in owed PROVE Due(S)'
      BY <2>1
    <3>1. Due(S) /\ S \subseteq Thread /\ (value = cseen[t] => t \notin S)
      BY <1>0, <2>1 DEF Due, CType
    <3> QED BY <1>0, <2>1, <2>2, <3>1 DEF Due, CType
  <2> QED BY <2>3, <2>4, <2>5 DEF CInv
<1>6. ASSUME NEW t \in Thread, CondTimeout(t) \/ (CondSleep(t) /\ value # cseen[t]) PROVE CInv'
  <2>1. /\ UNCHANGED <<pc, value, cseen>> /\ owed' = Served({t})
        /\ cpc[t] \in {"unlock", "asleep"} /\ cpc' = [cpc EXCEPT ![t] = "relock"]
    BY <1>6 DEF CondTimeout, CondSleep, CGoto, mvars
  <2>2. cpc' = [u \in Thread |-> IF u = t /\ t \notin {t} THEN "out"
                                 ELSE IF u \in {t} THEN "relock" ELSE cpc[u]]
    BY <1>0, <2>1 DEF CType
  <2> QED BY <2>1, <2>2, CInvServe
<1>7. ASSUME NEW t \in Thread, CondWake(t) PROVE CInv'
  <2>1. PICK ts \in Woken(t) :
           /\ cpc' = [u \in Thread |-> IF u = t THEN "out" ELSE IF u \in ts THEN "relock" ELSE cpc[u]]
           /\ owed' = Served(ts)
    BY <1>7 DEF CondWake
  <2>2. /\ cpc[t] \in {"signal", "broadcast"} /\ ts \in SUBSET Thread
        /\ \A u \in ts : cpc[u] = "asleep"
        /\ cpc[t] = "broadcast" => \A u \in Thread : cpc[u] = "asleep" => u \in ts
        /\ (\E u \in Thread : cpc[u] = "asleep") => ts # {}
    BY <1>7 DEF CondWake, Woken
  <2>3. cpc' = [u \in Thread |-> IF u = t /\ t \notin ts THEN "out"
                                 ELSE IF u \in ts THEN "relock" ELSE cpc[u]]
    BY <2>1, <2>2
  <2>4. UNCHANGED <<pc, value, cseen>>
    BY <1>7 DEF CondWake, mvars
  <2> QED BY <2>1, <2>2, <2>3, <2>4, CInvServe
<1> QED BY <1>1, <1>2, <1>3, <1>4, <1>5, <1>6, <1>7 DEF CNext, CondStep

\* The calls of cond.c use the mutex through the calls of mutex.c.
LEMMA CondUsesMutex == [CNext]_vars => [Next]_mvars
BY DEF CNext, CondStep, vars, Next, MutexCall, MutexStep, CondWait, Signal, Broadcast,
       CondInterrupt, CondTimeout, Load, CondSleep, CondReturn, CondWake

LEMMA CondImplementsMutex == CSpec => Spec
<1>1. CInit => Init
  BY DEF CInit
<1> QED BY <1>1, CondUsesMutex, PTL DEF CSpec, Spec

\* pthread_cond_signal and pthread_cond_broadcast: of the threads that waited at
\* the call, one (or all) no longer sleeps when it is over, whatever is
\* interrupted or times out in between, for any number of threads and of signals.
THEOREM CondNoLostSignal == CSpec => []NoLostSignal
<1>1. CInit => IInv /\ CInv
  BY IInvInit, CInvInit DEF CInit
<1>2. IInv /\ CInv /\ [CNext]_vars => IInv' /\ CInv'
  BY IInvStep, CInvStep, CondUsesMutex
<1>3. CInv => NoLostSignal
  BY DEF CInv, Due, NoLostSignal
<1> QED BY <1>1, <1>2, <1>3, PTL DEF CSpec

-----------------------------------------------------------------------------
JType ==
    /\ flags \subseteq {"detached", "joining", "exited"}
    /\ freed \in Thread \cup {None}
    /\ jpc \in [Thread -> {"run", "join", "joining", "detach", "destroy", "exit", "exiting", "done"}]

Exited == "exited" \in flags

\* Where a thread is in the calls of thread.c says where it is in those of
\* mutex.c and cond.c, and what the other side has done.
Placed(t) ==
    /\ jpc[t] = "run" => pc[t] = "idle" /\ cpc[t] = "out"
    /\ jpc[t] \in {"join", "detach", "exit"} => pc[t] \in Locking /\ cpc[t] = "out"
    /\ jpc[t] = "joining" =>
          /\ cpc[t] \in {"load", "unlock", "asleep", "relock", "out"}
          /\ cpc[t] = "relock" => pc[t] \in Locking \cup {"idle"}
          /\ cpc[t] = "out" => pc[t] = "held"
          /\ cpc[t] \in {"relock", "out"} => Exited
    /\ jpc[t] = "destroy" =>
          /\ pc[t] \in Leaving /\ cpc[t] = "out"
          /\ jpc[Target] = "done" /\ pc[Target] \in {"idle", "wake"}
    /\ jpc[t] = "exiting" => pc[t] = "held" /\ cpc[t] \in {"broadcast", "out"}
    /\ jpc[t] = "done" => cpc[t] = "out" /\ (pc[t] \in Leaving \/ freed = t)
    /\ jpc[t] \in {"exit", "exiting"} => t = Target
    /\ t = Target => jpc[t] \in {"run", "exit", "exiting", "done"}

\* cond->value moves only when the target exits, so that nobody comes back from
\* pthread_cond_wait before; one thread joins or detaches; and who frees the
\* structure is the only one left in the calls on it.
JInv ==
    /\ Target \in Thread
    /\ JType
    /\ count <= 1
    /\ \A t \in Thread : Placed(t)
    /\ Exited <=> jpc[Target] \in {"exiting", "done"}
    /\ ~Exited => value = 0 /\ \A t \in Thread : cseen[t] = 0
    /\ \A t, u \in Thread \ {Target} : jpc[t] # "run" /\ jpc[u] # "run" => t = u
    /\ "detached" \in flags => \A t \in Thread \ {Target} : jpc[t] \in {"run", "done"}
    /\ freed # None =>
          /\ jpc[freed] = "done" /\ jpc[Target] = "done"
          /\ freed = Target => "detached" \in flags
          /\ \A t \in Thread \ {freed} : pc[t] \in {"idle", "wake"} /\ cpc[t] = "out"

LEMMA JInvInit == Target \in Thread /\ JInit => JInv
BY DEF JInit, CInit, Init, JInv, JType, Exited, Placed

\* The calls of thread.c use the condition variable through the calls of cond.c.
LEMMA JoinUsesCond == JInv /\ [JNext]_<<vars, jvars>> => [CNext]_vars
<1> SUFFICES ASSUME JInv, JNext PROVE [CNext]_vars
  BY DEF vars
<1>1. PICK t \in Thread : \/ Call(t) \/ Exit(t) \/ JoinStep(t)
                          \/ CondInterrupt(t) /\ UNCHANGED jvars
  BY DEF JNext
<1>2. Placed(t)
  BY DEF JInv
<1>3. CASE Call(t) \/ Exit(t)
  <2>1. cpc[t] = "out" /\ Lock(t) /\ UNCHANGED cvars
    BY <1>2, <1>3 DEF Call, Exit, Locks, Placed, JInv
  <2> QED BY <2>1 DEF CNext, MutexCall
<1>4. CASE JoinStep(t) /\ ~(CondStep(t) /\ UNCHANGED jvars)
  BY <1>4 DEF JoinStep, Join, Joined, Detach, Detached, ExitLocked, ExitUnlock, Unlocks, Has, CNext,
              MutexCall
<1> QED BY <1>1, <1>3, <1>4 DEF CNext

\* The end: whoever frees the structure has the mutex, or comes after the target
\* has left, and is alone.
LEMMA JInvDestroy ==
  ASSUME IInv, CInv, JInv, NEW t \in Thread, UNCHANGED vars,
         freed' = t, jpc' = [jpc EXCEPT ![t] = "done"],
         cpc[t] = "out", pc[t] = "held" \/ jpc[t] = "destroy",
         \/ t # Target /\ jpc[t] # "run" /\ Exited /\ UNCHANGED flags
         \/ /\ t = Target /\ jpc[t] = "exit" /\ "detached" \in flags
            /\ flags' = flags \cup {"exited"}
  PROVE  JInv'
<1>0. /\ TypeOK /\ CType /\ JType /\ Target \in Thread /\ None \notin Thread
      /\ UNCHANGED <<count, pc, value, cpc, cseen>>
      /\ \A u \in Thread : Placed(u) /\ Inside(u)
      /\ \A u, v \in Thread : Holds(u) /\ Holds(v) => u = v
  BY ThreadAssumption DEF IInv, CInv, JInv, vars, mvars, cvars
<1>1. t # Target => jpc[Target] = "done" /\ pc[Target] \in {"idle", "wake"} /\ cpc[Target] = "out"
  <2>1. SUFFICES ASSUME t # Target, pc[t] = "held"
                 PROVE  jpc[Target] = "done" /\ pc[Target] \in {"idle", "wake"} /\ cpc[Target] = "out"
    BY <1>0 DEF Placed
  <2>2. jpc[Target] \in {"exiting", "done"} /\ ~Holds(Target) /\ Holds(t)
    BY <1>0, <2>1 DEF JInv, Holds, Crit
  <2>3. jpc[Target] = "done" /\ cpc[Target] = "out" /\ pc[Target] # "release"
    BY <1>0, <2>2 DEF Placed, Holds, Crit
  <2>4. freed # Target
    BY <1>0, <2>1, <2>2 DEF JInv
  <2> QED BY <1>0, <2>3, <2>4 DEF Placed, Leaving
<1>2. ASSUME NEW u \in Thread \ {t, Target} PROVE pc[u] \in {"idle", "wake"} /\ cpc[u] = "out"
  <2>1. CASE t # Target
    BY <1>0, <2>1 DEF JInv, Placed
  <2>2. CASE t = Target
    <3>1. pc[t] = "held" /\ Holds(t) /\ jpc[u] \in {"run", "done"} /\ freed = None
      BY <1>0, <2>2 DEF JInv, Holds, Crit
    <3>2. pc[u] # "release"
      BY <1>0, <3>1 DEF Holds, Crit
    <3> QED BY <1>0, <3>1, <3>2 DEF Placed, Leaving
  <2> QED BY <2>1, <2>2
<1>3. JType' /\ Exited'
  BY <1>0 DEF JType, Exited
<1>4. jpc'[Target] = "done" /\ jpc'[t] = "done"
  BY <1>0, <1>1 DEF JType
<1>5. \A u \in Thread \ {t} : jpc'[u] = jpc[u] /\ freed # u
  BY <1>0 DEF JType, JInv
<1>6. ASSUME NEW u \in Thread PROVE Placed(u)'
  <2>1. CASE u = t
    BY <1>0, <1>4, <2>1 DEF Placed
  <2>2. CASE u # t
    <3>1. Placed(u) /\ jpc'[u] = jpc[u] /\ pc'[u] = pc[u] /\ cpc'[u] = cpc[u] /\ freed # u
      BY <1>0, <1>5, <2>2
    <3>2. jpc[u] = "destroy" => pc'[Target] \in {"idle", "wake"}
      BY <1>0, <3>1 DEF Placed
    <3> QED BY <1>3, <1>4, <3>1, <3>2 DEF Placed
  <2> QED BY <2>1, <2>2
<1>7. \A u, v \in Thread \ {Target} : jpc'[u] # "run" /\ jpc'[v] # "run" => u = v
  <2>1. \A u \in Thread \ {Target} : jpc'[u] # "run" => jpc[u] # "run"
    BY <1>0, <1>5
  <2>2. \A u, v \in Thread \ {Target} : jpc[u] # "run" /\ jpc[v] # "run" => u = v
    BY DEF JInv
  <2> QED BY <2>1, <2>2
<1>8. "detached" \in flags' => \A u \in Thread \ {Target} : jpc'[u] \in {"run", "done"}
  BY <1>0, <1>4, <1>5 DEF JInv
<1>9. freed' = Target => "detached" \in flags'
  OBVIOUS
<1> QED BY <1>0, <1>1, <1>2, <1>3, <1>4, <1>6, <1>7, <1>8, <1>9 DEF JInv

\* A step of mutex.c or cond.c inside the calls of thread.c: it can neither
\* bring a thread back from pthread_cond_wait before the target has exited, nor
\* bring one back to a structure that is freed.
LEMMA JInvInside ==
  ASSUME IInv, CInv, JInv, NEW t \in Thread, CondStep(t) \/ CondInterrupt(t), UNCHANGED jvars
  PROVE  JInv'
<1>0. /\ TypeOK /\ CType /\ JType /\ Target \in Thread /\ None \notin Thread
      /\ UNCHANGED <<flags, freed, jpc>>
      /\ \A u \in Thread : Placed(u) /\ Inside(u)
      /\ cpc \in [Thread -> {"out", "load", "unlock", "asleep", "relock", "signal", "broadcast"}]
      /\ jpc \in [Thread -> {"run", "join", "joining", "detach", "destroy", "exit", "exiting", "done"}]
  BY ThreadAssumption DEF IInv, CInv, JInv, CType, JType, jvars
<1>1. SUFFICES /\ count' <= 1
               /\ \A u \in Thread : Placed(u)'
               /\ ~Exited => value' = 0 /\ \A u \in Thread : cseen'[u] = 0
               /\ freed # None =>
                     \A u \in Thread \ {freed} : pc'[u] \in {"idle", "wake"} /\ cpc'[u] = "out"
  BY <1>0 DEF JInv, JType, Exited
<1>2. CASE MutexStep(t)
  <2>1. /\ UNCHANGED <<value, cpc, cseen>>
        /\ Lock(t) \/ Unlock(t) \/ Interrupt(t) \/ Step(t)
    BY <1>2 DEF MutexStep, cvars
  <2>2. /\ \A u \in Thread \ {t} : pc'[u] = pc[u] \/ (pc[u] = "asleep" /\ pc'[u] = "acquire")
        /\ pc[t] = "idle" => cpc[t] = "relock" /\ pc'[t] \in {"acquire", "own"}
        /\ pc[t] = "held" => cpc[t] = "unlock" /\ pc'[t] \in {"held", "release"}
        /\ pc[t] \in Locking \ {"held"} => pc'[t] \in Locking
        /\ pc[t] = "release" => pc'[t] \in {"wake", "idle"}
        /\ pc[t] = "wake" => pc'[t] = "idle"
    BY <1>0, <1>2, <2>1, MutexMoves, MutexCalls DEF MutexStep
  <2>3. count' <= 1
    BY <1>0, <2>1, SMTT(20) DEF JInv, TypeOK, Lock, Unlock, Interrupt, Step, Acquire,
                         Mark, Wait, Own, Release, WakeAll
  <2>4. jpc[Target] = "done" /\ pc[Target] \in {"idle", "wake"} => pc'[Target] \in {"idle", "wake"}
    BY <1>0, <2>2 DEF Placed
  <2>5. ASSUME NEW u \in Thread PROVE Placed(u)'
    <3>1. Placed(u) /\ Inside(u)
      BY <1>0
    <3>2. CASE u = t
      BY <1>0, <2>1, <2>2, <2>4, <3>1, <3>2 DEF Placed, Inside, Locking, Leaving, Exited
    <3>3. CASE u # t
      BY <1>0, <2>1, <2>2, <2>4, <3>1, <3>3 DEF Placed, Locking, Leaving, Exited
    <3> QED BY <3>2, <3>3
  <2>6. freed # None => \A u \in Thread \ {freed} : pc'[u] \in {"idle", "wake"} /\ cpc'[u] = "out"
    BY <2>1, <2>2 DEF JInv
  <2> QED BY <1>0, <1>1, <2>1, <2>3, <2>5, <2>6 DEF JInv
<1>3. CASE Load(t) \/ CondSleep(t) \/ CondReturn(t) \/ CondInterrupt(t)
  <2>1. /\ UNCHANGED <<count, pc, value>>
        /\ \/ cpc[t] = "load" /\ cpc' = [cpc EXCEPT ![t] = "unlock"]
           \/ cpc[t] = "unlock" /\ value = cseen[t] /\ cpc' = [cpc EXCEPT ![t] = "asleep"]
           \/ cpc[t] = "unlock" /\ value # cseen[t] /\ pc[t] = "idle"
              /\ cpc' = [cpc EXCEPT ![t] = "relock"]
           \/ cpc[t] = "relock" /\ pc[t] = "held" /\ cpc' = [cpc EXCEPT ![t] = "out"]
           \/ cpc[t] = "asleep" /\ cpc' = [cpc EXCEPT ![t] = "unlock"]
        /\ \/ cseen' = cseen
           \/ cseen' = [cseen EXCEPT ![t] = value] \/ cseen' = [cseen EXCEPT ![t] = 0]
    BY <1>3 DEF Load, CondSleep, CondReturn, CondInterrupt, CGoto, mvars
  <2>2. ~Exited => value' = 0 /\ \A u \in Thread : cseen'[u] = 0
    BY <1>0, <2>1 DEF JInv, CType
  <2>3. jpc[t] = "joining" /\ freed # t /\ (value # cseen[t] => Exited)
    <3>1. cpc[t] \in {"load", "unlock", "asleep", "relock"}
      BY <2>1
    <3>2. jpc[t] = "joining"
      BY <1>0, <3>1 DEF Placed
    <3>3. freed # t
      BY <1>0, <3>2 DEF JInv
    <3>4. value # cseen[t] => Exited
      BY <1>0 DEF JInv
    <3> QED BY <3>2, <3>3, <3>4
  <2>4. ASSUME NEW u \in Thread PROVE Placed(u)'
    BY <1>0, <2>1, <2>3 DEF Placed, Exited, Locking
  <2>5. freed # None => \A u \in Thread \ {freed} : pc'[u] \in {"idle", "wake"} /\ cpc'[u] = "out"
    BY <1>0, <2>1, <2>3 DEF JInv
  <2> QED BY <1>1, <2>1, <2>2, <2>4, <2>5 DEF JInv
<1>4. CASE CondWake(t)
  <2>1. PICK ts \in SUBSET {u \in Thread : cpc[u] = "asleep"} :
           cpc' = [u \in Thread |-> IF u = t THEN "out" ELSE IF u \in ts THEN "relock" ELSE cpc[u]]
    BY <1>4 DEF CondWake, Woken
  <2>2. UNCHANGED <<count, pc, value, cseen>> /\ cpc[t] \in {"signal", "broadcast"}
    BY <1>4 DEF CondWake, mvars
  <2>3. jpc[t] = "exiting" /\ t = Target /\ Exited
    BY <1>0, <2>2 DEF Placed, JInv
  <2>4. \A u \in ts : jpc[u] = "joining" /\ pc[u] = "idle"
    BY <1>0, <2>1 DEF Placed, Inside
  <2>5. ASSUME NEW u \in Thread PROVE Placed(u)'
    BY <1>0, <2>1, <2>2, <2>3, <2>4 DEF Placed, Exited
  <2>6. freed = None
    BY <1>0, <2>3 DEF JInv
  <2> QED BY <1>1, <2>2, <2>3, <2>5, <2>6 DEF JInv
<1> QED BY <1>2, <1>3, <1>4 DEF CondStep

LEMMA JInvStep == IInv /\ CInv /\ JInv /\ [JNext]_<<vars, jvars>> => JInv'
<1> SUFFICES ASSUME IInv, CInv, JInv, [JNext]_<<vars, jvars>> PROVE JInv'
  OBVIOUS
<1>0. /\ TypeOK /\ CType /\ JType /\ Target \in Thread /\ None \notin Thread
      /\ \A u \in Thread : Placed(u) /\ Inside(u)
      /\ cpc \in [Thread -> {"out", "load", "unlock", "asleep", "relock", "signal", "broadcast"}]
      /\ jpc \in [Thread -> {"run", "join", "joining", "detach", "destroy", "exit", "exiting", "done"}]
      /\ pc \in [Thread -> Label]
      /\ \A u, v \in Thread : Holds(u) /\ Holds(v) => u = v
  BY ThreadAssumption DEF IInv, CInv, JInv, CType, JType, TypeOK
<1>1. CASE UNCHANGED <<vars, jvars>>
  BY <1>1 DEF vars, mvars, cvars, jvars, JInv, JType, Placed, Exited
<1>2. ASSUME NEW t \in Thread, Call(t) PROVE JInv'
  <2>1. /\ t # Target /\ jpc[t] = "run" /\ pc[t] = "idle" /\ pc' = [pc EXCEPT ![t] = "acquire"]
        /\ \E l \in {"join", "detach"} : jpc' = [jpc EXCEPT ![t] = l]
        /\ UNCHANGED <<flags, freed, count, value, cpc, cseen>>
        /\ "detached" \notin flags /\ \A u \in Thread \ {Target} : jpc[u] = "run"
    BY <1>0, <1>2 DEF Call, Locks, Lock, Goto, JGoto, cvars
  <2>2. ASSUME NEW u \in Thread PROVE Placed(u)'
    BY <1>0, <2>1, SMTT(20) DEF Placed, Exited, Locking
  <2>3. freed = None
    BY <1>0, <2>1 DEF JInv, JType
  <2> QED BY <1>0, <2>1, <2>2, <2>3 DEF JInv, JType, Exited
<1>3. ASSUME NEW t \in Thread, Exit(t) PROVE JInv'
  <2>1. /\ t = Target /\ jpc[t] = "run" /\ pc[t] = "idle" /\ pc' = [pc EXCEPT ![t] = "acquire"]
        /\ jpc' = [jpc EXCEPT ![t] = "exit"]
        /\ UNCHANGED <<flags, freed, count, value, cpc, cseen>>
    BY <1>0, <1>3 DEF Exit, Locks, Lock, Goto, JGoto, cvars
  <2>2. ASSUME NEW u \in Thread PROVE Placed(u)'
    BY <1>0, <2>1 DEF Placed, Exited, Locking
  <2>3. freed = None
    BY <1>0, <2>1 DEF JInv
  <2> QED BY <1>0, <2>1, <2>2, <2>3, SMTT(20) DEF JInv, JType, Exited
<1>4. ASSUME NEW t \in Thread, Join(t), ~Exited PROVE JInv'
  <2>1. /\ jpc[t] = "join" /\ pc[t] = "held" /\ cpc[t] = "out" /\ cpc' = [cpc EXCEPT ![t] = "load"]
        /\ jpc' = [jpc EXCEPT ![t] = "joining"] /\ flags' = flags \cup {"joining"}
        /\ UNCHANGED <<freed, count, pc, value, cseen>>
    BY <1>0, <1>4 DEF Join, Has, CondWait, CGoto, JGoto, mvars, Exited
  <2>2. t # Target /\ "detached" \notin flags
    BY <1>0, <2>1 DEF Placed, JInv
  <2>3. ASSUME NEW u \in Thread PROVE Placed(u)'
    BY <1>0, <2>1, <2>2 DEF Placed, Exited
  <2>4. freed = None
    BY <1>0, <2>1, <1>4 DEF JInv
  <2> QED BY <1>0, <2>1, <2>2, <2>3, <2>4, SMTT(20) DEF JInv, JType, Exited
<1>5. ASSUME NEW t \in Thread, (Join(t) /\ Exited) \/ Joined(t) \/ Detached(t) PROVE JInv'
  <2>1. /\ freed' = t /\ jpc' = [jpc EXCEPT ![t] = "done"] /\ UNCHANGED <<flags, vars>>
        /\ jpc[t] \in {"join", "joining", "destroy"} /\ cpc[t] = "out"
        /\ pc[t] = "held" \/ jpc[t] = "destroy"
        /\ jpc[t] = "join" => Exited
    BY <1>5 DEF Join, Joined, Detached, Destroy, JGoto, Has, Left, Exited
  <2>2. t # Target /\ jpc[t] # "run" /\ Exited
    BY <1>0, <2>1 DEF Placed, JInv
  <2> QED BY <2>1, <2>2, JInvDestroy
<1>6. ASSUME NEW t \in Thread, Detach(t) \/ ExitUnlock(t) PROVE JInv'
  <2>1. /\ jpc[t] \in {"detach", "exiting"} /\ pc[t] = "held" /\ cpc[t] = "out"
        /\ Unlock(t) /\ UNCHANGED <<freed, value, cpc, cseen>>
        /\ \/ jpc[t] = "detach" /\ Exited /\ jpc' = [jpc EXCEPT ![t] = "destroy"] /\ UNCHANGED flags
           \/ jpc[t] = "detach" /\ ~Exited /\ jpc' = [jpc EXCEPT ![t] = "done"]
              /\ flags' = flags \cup {"detached"}
           \/ jpc[t] = "exiting" /\ jpc' = [jpc EXCEPT ![t] = "done"] /\ UNCHANGED flags
    BY <1>6 DEF Detach, ExitUnlock, Unlocks, Has, JGoto, cvars, Exited
  <2>2. count' <= 1 /\ pc' = [pc EXCEPT ![t] = "release"]
    <3>1. ~(count > 1) /\ count <= 1
      BY <1>0 DEF JInv, TypeOK
    <3> QED BY <2>1, <3>1 DEF Unlock, Goto
  <2>3. freed = None /\ (jpc[t] = "detach" => t # Target) /\ (jpc[t] = "exiting" => t = Target /\ Exited)
    BY <1>0, <2>1 DEF JInv, Placed
  <2>4. jpc[t] = "detach" /\ Exited => jpc[Target] = "done" /\ pc[Target] \in {"idle", "wake"}
    <3> SUFFICES ASSUME jpc[t] = "detach", Exited
                 PROVE  jpc[Target] = "done" /\ pc[Target] \in {"idle", "wake"}
      OBVIOUS
    <3>1. jpc[Target] \in {"exiting", "done"} /\ ~Holds(Target)
      BY <1>0, <2>1, <2>3 DEF JInv, Holds, Crit
    <3> QED BY <1>0, <2>3, <3>1 DEF Placed, Holds, Crit, Leaving
  <2>5. ASSUME NEW u \in Thread PROVE Placed(u)'
    <3>1. \A v \in Thread : jpc[v] = "destroy" => v # t /\ t # Target
      BY <1>0, <2>1, <2>3 DEF JInv, Placed
    <3>2. CASE u = t
      <4>1. jpc'[t] \in {"destroy", "done"} /\ cpc'[t] = "out" /\ pc'[t] = "release"
            /\ (jpc'[t] = "destroy" => jpc[t] = "detach" /\ Exited) /\ jpc[t] # jpc'[t]
        BY <1>0, <2>1, <2>2
      <4>2. jpc'[t] = "destroy" => t # Target /\ jpc'[Target] = "done" /\ pc'[Target] \in {"idle", "wake"}
        BY <1>0, <2>1, <2>2, <2>3, <2>4, <4>1
      <4>3. t = Target => jpc'[t] = "done"
        BY <2>3, <4>1
      <4> QED BY <3>2, <4>1, <4>2, <4>3 DEF Placed, Leaving
    <3>3. CASE u # t
      <4>1. Placed(u) /\ jpc'[u] = jpc[u] /\ pc'[u] = pc[u] /\ cpc'[u] = cpc[u]
            /\ freed' = freed /\ (Exited => Exited')
        BY <1>0, <2>1, <2>2, <3>3 DEF Exited
      <4>2. jpc[u] = "destroy" => jpc'[Target] = jpc[Target] /\ pc'[Target] = pc[Target]
        BY <1>0, <2>1, <2>2, <3>1
      <4> QED BY <4>1, <4>2 DEF Placed
    <3> QED BY <3>2, <3>3
  <2>6. Exited' <=> jpc'[Target] \in {"exiting", "done"}
    BY <1>0, <2>1, <2>3 DEF JInv, Exited
  <2>7. JType' /\ \A u, v \in Thread \ {Target} : jpc'[u] # "run" /\ jpc'[v] # "run" => u = v
    <3>1. JType'
      BY <1>0, <2>1 DEF JInv, JType
    <3>2. \A u \in Thread \ {Target} : jpc'[u] # "run" => jpc[u] # "run"
      BY <1>0, <2>1 DEF JInv, JType
    <3>3. \A u, v \in Thread \ {Target} : jpc[u] # "run" /\ jpc[v] # "run" => u = v
      BY <1>0 DEF JInv
    <3> QED BY <3>1, <3>2, <3>3
  <2>8. "detached" \in flags' => \A u \in Thread \ {Target} : jpc'[u] \in {"run", "done"}
    BY <1>0, <2>1, <2>3, SMTT(20) DEF JInv
  <2> QED BY <1>0, <2>1, <2>2, <2>3, <2>5, <2>6, <2>7, <2>8 DEF JInv, Exited
<1>7. ASSUME NEW t \in Thread, ExitLocked(t), "detached" \in flags PROVE JInv'
  <2>1. /\ freed' = t /\ jpc' = [jpc EXCEPT ![t] = "done"] /\ UNCHANGED vars
        /\ flags' = flags \cup {"exited"} /\ jpc[t] = "exit" /\ pc[t] = "held" /\ cpc[t] = "out"
    BY <1>7 DEF ExitLocked, Has, JGoto
  <2>2. t = Target
    BY <1>0, <2>1 DEF Placed
  <2> QED BY <1>7, <2>1, <2>2, JInvDestroy
<1>8. ASSUME NEW t \in Thread, ExitLocked(t), "detached" \notin flags PROVE JInv'
  <2>1. /\ cpc' = [cpc EXCEPT ![t] = "broadcast"] /\ jpc' = [jpc EXCEPT ![t] = "exiting"]
        /\ flags' = flags \cup {"exited"} /\ jpc[t] = "exit" /\ pc[t] = "held" /\ cpc[t] = "out"
        /\ UNCHANGED <<freed, count, pc, cseen>>
    BY <1>8 DEF ExitLocked, Has, JGoto, Broadcast, CGoto, mvars
  <2>2. t = Target /\ freed = None
    BY <1>0, <2>1 DEF Placed, JInv
  <2>3. ASSUME NEW u \in Thread PROVE Placed(u)'
    BY <1>0, <2>1, <2>2 DEF Placed, Exited
  <2> QED BY <1>0, <2>1, <2>2, <2>3 DEF JInv, JType, Exited
<1>9. ASSUME NEW t \in Thread, CondStep(t) \/ CondInterrupt(t), UNCHANGED jvars PROVE JInv'
  BY <1>9, JInvInside
<1> QED BY <1>1, <1>2, <1>3, <1>4, <1>5, <1>6, <1>7, <1>8, <1>9 DEF JNext, JoinStep

\* All that a behaviour of thread.c does keeps the three invariants.
LEMMA JoinInv == Target \in Thread /\ JSpec => [](IInv /\ CInv /\ JInv)
<1>1. Target \in Thread /\ JInit => IInv /\ CInv /\ JInv
  BY IInvInit, CInvInit, JInvInit DEF JInit, CInit
<1>2. IInv /\ CInv /\ JInv /\ [JNext]_<<vars, jvars>> => IInv' /\ CInv' /\ JInv'
  BY IInvStep, CInvStep, JInvStep, CondUsesMutex, JoinUsesCond
<1> QED BY <1>1, <1>2, PTL DEF JSpec

\* pthread_join, pthread_detach and pthread_exit call cond.c and mutex.c as a
\* program may: what is proved of the condition variable holds for theirs.
THEOREM JoinImplementsCond == Target \in Thread /\ JSpec => CSpec
<1>1. JInit => CInit
  BY DEF JInit
<1> QED BY <1>1, JoinInv, JoinUsesCond, PTL DEF JSpec, CSpec

\* pthread_join, pthread_detach and pthread_exit: struct pthread is freed once
\* the thread has exited, by one side, when no other thread is in a call on its
\* mutex or its condition variable any more.
THEOREM JoinFreedUnused == Target \in Thread /\ JSpec => []FreedUnused
<1>1. JInv => FreedUnused
  BY DEF JInv, Exited, FreedUnused
<1> QED BY <1>1, JoinInv, PTL
\* A program that uses the calls of thread.c, or only those of cond.c (it frees
\* no thread), or only those of mutex.c (it sends no signal): what is proved
\* above holds for it, on the mutex of a condition variable or of a thread too.
LEMMA AnyUse ==
    ASSUME Target \in Thread
    PROVE  \/ JSpec
           \/ CSpec /\ [](freed = None)
           \/ Spec /\ [](freed = None /\ owed = {})
           => ImplementsService /\ [](SleepersAnnounced /\ NoLostSignal /\ FreedUnused)
<1>1. freed = None => FreedUnused
  BY DEF FreedUnused
<1>2. owed = {} => NoLostSignal
  BY DEF NoLostSignal
<1>3. (JSpec => CSpec) /\ (JSpec => []FreedUnused)
  BY JoinImplementsCond, JoinFreedUnused
<1> QED BY <1>1, <1>2, <1>3, CondImplementsMutex, CondNoLostSignal,
           PthreadMutexSleepersAnnounced, PthreadMutexImplementsService, PTL
=============================================================================
