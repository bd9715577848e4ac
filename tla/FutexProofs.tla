---------------------------- MODULE FutexProofs -----------------------------
(* Proofs about what libpthread builds on one futex word each, for any       *)
(* finite set of threads: the reader-writer lock, the barrier (PB) and       *)
(* pthread_once (PO).                                                        *)
EXTENDS PthreadRwlock, Integers, FiniteSetTheorems, TLAPS

-----------------------------------------------------------------------------
(* The reader-writer lock implements LockService, one atomic access at a     *)
(* time, and no reader sleeps unannounced.                                   *)

Calling == {"acquire", "mark", "wait", "asleep"}
HeldRead == {t \in Thread : pc[t] = "held" /\ for[t] = "read"}
HeldWrite == {t \in Thread : pc[t] = "held" /\ for[t] = "write"}

PType ==
    /\ readers \in Nat
    /\ writing \in BOOLEAN
    /\ waiting \in BOOLEAN
    /\ pc \in [Thread -> {"idle", "held", "wake"} \cup Calling]
    /\ for \in [Thread -> {"read", "write"}]
    /\ DOMAIN seen = Thread

\* The word is what the threads that hold the lock make it.
WordExact ==
    /\ readers = Cardinality(HeldRead)
    /\ writing => readers = 0 /\ \E t \in Thread : HeldWrite = {t}
    /\ ~writing => HeldWrite = {}

\* What a reader remembers of the word says that it is locked for writing, and
\* that it waits, once it has set the bit.
SeenLocked(t) ==
    for[t] = "read" =>
        /\ pc[t] = "mark" => seen[t][2] = TRUE
        /\ pc[t] = "wait" => seen[t][2] = TRUE /\ seen[t][3] = TRUE

PInv ==
    /\ PType
    /\ WordExact
    /\ \A t \in Thread : SeenLocked(t)
    /\ ReadersAnnounced

\* The readers are finitely many, and a word that counts none has none.
LEMMA HeldFinite ==
  ASSUME NEW S \in SUBSET Thread
  PROVE  /\ IsFiniteSet(S) /\ Cardinality(S) \in Nat
         /\ Cardinality(S) = 0 <=> S = {}
<1>1. IsFiniteSet(S)
  BY ThreadAssumption, FS_Subset
<1> QED BY <1>1, FS_CardinalityType, FS_EmptySet

\* The initial word is free.
LEMMA PInvInit == Init => PInv
<1> SUFFICES ASSUME Init PROVE PInv
  OBVIOUS
<1>1. HeldRead = {} /\ HeldWrite = {}
  BY DEF Init, HeldRead, HeldWrite
<1>2. WordExact
  BY <1>1, FS_EmptySet DEF Init, WordExact
<1> QED BY <1>2 DEF Init, PInv, PType, SeenLocked, ReadersAnnounced, Calling

\* What a thread remembers is its own.
LEMMA SeenStays ==
  ASSUME PInv, NEW u \in Thread, pc'[u] = pc[u], for'[u] = for[u], seen'[u] = seen[u]
  PROVE  SeenLocked(u)'
BY DEF PInv, SeenLocked

\* The word with RWLOCK_WAITING set.
LEMMA Marked ==
  ASSUME NEW a, NEW b, NEW c, NEW m, m = [<<a, b, c>> EXCEPT ![3] = TRUE]
  PROVE  m[2] = b /\ m[3] = TRUE
OBVIOUS

\* A step that neither takes nor gives back the lock, nor moves the word but
\* for RWLOCK_WAITING.
LEMMA WordStays ==
  ASSUME PInv, UNCHANGED <<readers, writing>>, PType',
         \A t \in Thread : /\ pc'[t] = "held" <=> pc[t] = "held"
                           /\ pc[t] = "held" => for'[t] = for[t]
  PROVE  WordExact' /\ HeldRead' = HeldRead /\ HeldWrite' = HeldWrite
<1>1. HeldRead' = HeldRead /\ HeldWrite' = HeldWrite
  BY DEF HeldRead, HeldWrite
<1> QED BY <1>1 DEF PInv, WordExact

\* rdacquire and wracquire that succeed
LEMMA TakeStep ==
  ASSUME PInv, NEW t \in Thread, pc[t] = "acquire", MayTake(t), TakeFor(t)
  PROVE  /\ PInv'
         /\ for[t] = "read" => ~writing /\ HeldRead' = HeldRead \cup {t} /\ HeldWrite' = HeldWrite
         /\ for[t] = "write" => /\ ~writing /\ HeldRead = {} /\ HeldWrite = {}
                                /\ HeldRead' = {} /\ HeldWrite' = {t}
<1>1. pc' = [pc EXCEPT ![t] = "held"] /\ UNCHANGED <<waiting, for, seen>>
  BY DEF TakeFor, Goto
<1>2. t \notin HeldRead /\ t \notin HeldWrite
  BY DEF HeldRead, HeldWrite
<1>3. \A u \in Thread : SeenLocked(u)'
  BY <1>1 DEF PInv, PType, SeenLocked
<1>4. CASE for[t] = "read"
  <2>1. writing = FALSE /\ readers' = readers + 1 /\ writing' = FALSE
    BY <1>4 DEF MayTake, TakeFor, PInv, PType
  <2>2. PType'
    <3>1. readers' \in Nat /\ writing' \in BOOLEAN
      <4>1. readers \in Nat
        BY DEF PInv, PType
      <4>2. readers' \in Nat
        BY <2>1, <4>1
      <4>3. writing' \in BOOLEAN
        BY <2>1
      <4> QED BY <4>2, <4>3
    <3> QED BY <1>1, <3>1 DEF PInv, PType
  <2>3. HeldRead' = HeldRead \cup {t} /\ HeldWrite' = HeldWrite
    BY <1>1, <1>4 DEF PInv, PType, HeldRead, HeldWrite
  <2>4. HeldRead \in SUBSET Thread
    BY DEF HeldRead
  <2>5. Cardinality(HeldRead') = Cardinality(HeldRead) + 1
    BY <1>2, <2>3, <2>4, HeldFinite, FS_AddElement
  <2>6. WordExact'
    BY <2>1, <2>3, <2>5 DEF PInv, WordExact
  <2>7. ReadersAnnounced'
    BY <1>1, <2>1 DEF PInv, PType, ReadersAnnounced
  <2> QED BY <1>3, <1>4, <2>1, <2>2, <2>3, <2>6, <2>7 DEF PInv
<1>5. CASE for[t] = "write"
  <2>1. readers = 0 /\ writing = FALSE /\ waiting = FALSE /\ writing' = TRUE /\ readers' = 0
    BY <1>5 DEF MayTake, TakeFor, Word
  <2>2. PType'
    BY <1>1, <2>1 DEF PInv, PType
  <2>3. HeldRead \in SUBSET Thread
    BY DEF HeldRead
  <2>4. HeldRead = {} /\ HeldWrite = {}
    BY <2>1, <2>3, HeldFinite DEF PInv, WordExact
  <2>5. HeldRead' = HeldRead /\ HeldWrite' = HeldWrite \cup {t}
    BY <1>1, <1>5 DEF PInv, PType, HeldRead, HeldWrite
  <2>6. HeldRead' = {} /\ HeldWrite' = {t}
    BY <2>4, <2>5
  <2>7. WordExact'
    BY <2>1, <2>6, FS_EmptySet DEF WordExact
  <2>8. ReadersAnnounced'
    BY <1>1, <2>1 DEF PInv, PType, ReadersAnnounced
  <2> QED BY <1>3, <1>5, <2>1, <2>2, <2>4, <2>6, <2>7, <2>8 DEF PInv
<1> QED BY <1>4, <1>5 DEF PInv, PType

\* pthread_rwlock_unlock: the word says which kind of lock the caller holds.
LEMMA UnlockStep ==
  ASSUME PInv, NEW t \in Thread, Unlock(t)
  PROVE  /\ PInv'
         /\ writing => /\ HeldWrite = {t} /\ HeldWrite' = {} /\ writing' = FALSE
                       /\ HeldRead' = HeldRead
         /\ ~writing => /\ t \in HeldRead /\ HeldRead' = HeldRead \ {t}
                        /\ HeldWrite' = HeldWrite /\ writing' = writing
<1> DEFINE to == IF waiting THEN "wake" ELSE "idle"
<1>1. pc[t] = "held" /\ pc' = [pc EXCEPT ![t] = to] /\ UNCHANGED <<for, seen>>
  BY DEF Unlock, Goto
<1>2. HeldRead' = HeldRead \ {t} /\ HeldWrite' = HeldWrite \ {t}
  BY <1>1 DEF PInv, PType, HeldRead, HeldWrite
<1>3. t \in HeldRead \/ t \in HeldWrite
  BY <1>1 DEF PInv, PType, HeldRead, HeldWrite
<1>4. \A u \in Thread : SeenLocked(u)'
  BY <1>1 DEF PInv, PType, SeenLocked
<1>5. HeldRead \in SUBSET Thread
  BY DEF HeldRead
<1>6. CASE writing
  <2>1. writing' = FALSE /\ waiting' = FALSE /\ readers' = readers
    BY <1>6 DEF Unlock
  <2>2. PType'
    BY <1>1, <2>1 DEF PInv, PType
  <2>3. HeldRead = {} /\ \E u \in Thread : HeldWrite = {u}
    BY <1>5, <1>6, HeldFinite DEF PInv, WordExact
  <2>4. HeldWrite = {t} /\ HeldWrite' = {} /\ HeldRead' = HeldRead
    BY <1>2, <1>3, <2>3
  <2>5. WordExact'
    BY <2>1, <2>4 DEF PInv, WordExact
  <2>6. ReadersAnnounced'
    <3>1. CASE waiting
      <4>1. pc'[t] = "wake"
        BY <1>1, <3>1 DEF PInv, PType
      <4> QED BY <4>1 DEF ReadersAnnounced
    <3>2. CASE ~waiting
      <4>1. \A u \in Thread : pc'[u] = "asleep" => pc[u] = "asleep"
        BY <1>1 DEF PInv, PType
      <4>2. \A u \in Thread : pc[u] = "wake" => pc'[u] = "wake"
        BY <1>1 DEF PInv, PType
      <4> QED BY <1>1, <3>2, <4>1, <4>2 DEF PInv, ReadersAnnounced
    <3> QED BY <3>1, <3>2
  <2> QED BY <1>4, <1>6, <2>1, <2>2, <2>4, <2>5, <2>6 DEF PInv
<1>7. CASE ~writing
  <2>1. readers' = readers - 1 /\ UNCHANGED <<writing, waiting>>
    BY <1>7 DEF Unlock
  <2>2. HeldWrite = {} /\ t \in HeldRead
    BY <1>3, <1>7 DEF PInv, WordExact
  <2>3. Cardinality(HeldRead') = Cardinality(HeldRead) - 1 /\ Cardinality(HeldRead) # 0
    BY <1>2, <1>5, <2>2, HeldFinite, FS_RemoveElement
  <2>4. PType'
    <3>1. readers' \in Nat
      BY <2>1, <2>3 DEF PInv, PType, WordExact
    <3> QED BY <1>1, <2>1, <3>1 DEF PInv, PType
  <2>5. WordExact'
    BY <1>2, <1>7, <2>1, <2>2, <2>3 DEF PInv, WordExact
  <2>6. ReadersAnnounced'
    <3>1. \A u \in Thread : /\ pc'[u] = "asleep" => pc[u] = "asleep"
                            /\ pc[u] = "wake" => pc'[u] = "wake"
      BY <1>1 DEF PInv, PType
    <3> QED BY <1>1, <2>1, <3>1 DEF PInv, ReadersAnnounced
  <2> QED BY <1>2, <1>4, <1>7, <2>1, <2>2, <2>4, <2>5, <2>6 DEF PInv
<1> QED BY <1>6, <1>7

\* The steps in which nobody takes the lock or gives it back
Quiet(t) ==
    \/ Lock(t, "read") \/ Lock(t, "write") \/ Interrupt(t)
    \/ (~MayTake(t) /\ Acquire(t)) \/ Mark(t) \/ Wait(t) \/ WakeAll(t)

\* Such a step keeps the invariant and the holders.
LEMMA QuietStep ==
  ASSUME PInv, NEW t \in Thread, Quiet(t)
  PROVE  /\ PInv' /\ UNCHANGED <<readers, writing>>
         /\ HeldRead' = HeldRead /\ HeldWrite' = HeldWrite
<1> SUFFICES /\ PType' /\ UNCHANGED <<readers, writing>>
             /\ \A u \in Thread : /\ pc'[u] = "held" <=> pc[u] = "held"
                                  /\ pc[u] = "held" => for'[u] = for[u]
             /\ \A u \in Thread : SeenLocked(u)'
             /\ ReadersAnnounced'
  BY WordStays DEF PInv
<1> USE DEF PInv, PType
<1>1. CASE Lock(t, "read") \/ Lock(t, "write") \/ Interrupt(t)
  <2>1. PICK l \in Calling : pc' = [pc EXCEPT ![t] = l] /\ l = "acquire"
    BY <1>1 DEF Lock, Interrupt, Goto, Calling
  <2>2. UNCHANGED <<readers, writing, waiting, seen>> /\ pc[t] \in {"idle", "asleep"}
    BY <1>1 DEF Lock, Interrupt
  <2>3. for' \in [Thread -> {"read", "write"}] /\ \A u \in Thread : u # t => for'[u] = for[u]
    BY <1>1 DEF Lock, Interrupt
  <2>4. PType'
    BY <2>1, <2>2, <2>3
  <2>5. \A u \in Thread : /\ pc'[u] = "held" <=> pc[u] = "held"
                          /\ pc[u] = "held" => for'[u] = for[u]
    BY <2>1, <2>2, <2>3
  <2>6. \A u \in Thread : SeenLocked(u)'
    BY <2>1, <2>2, <2>3 DEF SeenLocked
  <2>7. ReadersAnnounced'
    BY <2>1, <2>2, <2>3 DEF ReadersAnnounced
  <2> QED BY <2>2, <2>4, <2>5, <2>6, <2>7
<1>2. CASE ~MayTake(t) /\ Acquire(t)
  <2>1. /\ pc[t] = "acquire" /\ pc' = [pc EXCEPT ![t] = "mark"]
        /\ seen' = [seen EXCEPT ![t] = <<readers, writing, waiting>>]
        /\ UNCHANGED <<readers, writing, waiting, for>>
    BY <1>2 DEF Acquire, Goto, Word
  <2>2. for[t] = "read" => writing = TRUE
    BY <1>2 DEF MayTake
  <2>3. PType'
    BY <2>1 DEF Calling
  <2>4. \A u \in Thread : /\ pc'[u] = "held" <=> pc[u] = "held"
                          /\ pc[u] = "held" => for'[u] = for[u]
    BY <2>1
  <2>5. \A u \in Thread : SeenLocked(u)'
    <3>1. pc'[t] = "mark" /\ for'[t] = for[t] /\ seen'[t] = <<readers, writing, waiting>>
      BY <2>1
    <3>2. SeenLocked(t)'
      BY <2>2, <3>1 DEF SeenLocked
    <3>3. ASSUME NEW u \in Thread, u # t PROVE SeenLocked(u)'
      BY <2>1, <3>3, SeenStays
    <3> QED BY <3>2, <3>3
  <2>6. ReadersAnnounced'
    BY <2>1 DEF ReadersAnnounced
  <2> QED BY <2>1, <2>3, <2>4, <2>5, <2>6
<1>3. CASE Mark(t)
  <2>1. pc[t] = "mark" /\ UNCHANGED <<readers, writing, for>>
    BY <1>3 DEF Mark
  <2>2. CASE Word = seen[t]
    <3>1. /\ waiting' = TRUE /\ pc' = [pc EXCEPT ![t] = "wait"]
          /\ seen' = [seen EXCEPT ![t] = [seen[t] EXCEPT ![3] = TRUE]]
      BY <1>3, <2>2 DEF Mark, Goto
    <3>2. PType'
      BY <2>1, <3>1 DEF Calling
    <3>3. \A u \in Thread : /\ pc'[u] = "held" <=> pc[u] = "held"
                            /\ pc[u] = "held" => for'[u] = for[u]
      BY <2>1, <3>1
    <3>4. SeenLocked(t)'
      <4>1. seen'[t] = [<<readers, writing, waiting>> EXCEPT ![3] = TRUE]
        BY <2>2, <3>1 DEF Word
      <4>2. seen'[t][2] = writing /\ seen'[t][3] = TRUE
        BY <4>1, Marked
      <4>3. for[t] = "read" => writing = TRUE
        BY <2>1, <2>2 DEF SeenLocked, Word
      <4>4. pc'[t] = "wait" /\ for'[t] = for[t]
        BY <2>1, <3>1
      <4> QED BY <4>2, <4>3, <4>4 DEF SeenLocked
    <3>5. \A u \in Thread : SeenLocked(u)'
      <4>1. ASSUME NEW u \in Thread, u # t PROVE SeenLocked(u)'
        BY <2>1, <3>1, <4>1, SeenStays
      <4> QED BY <3>4, <4>1
    <3>6. ReadersAnnounced'
      BY <2>1, <3>1 DEF ReadersAnnounced
    <3> QED BY <2>1, <3>2, <3>3, <3>5, <3>6
  <2>3. CASE Word # seen[t]
    <3>1. /\ UNCHANGED waiting /\ pc' = [pc EXCEPT ![t] = "acquire"]
          /\ seen' = [seen EXCEPT ![t] = None]
      BY <1>3, <2>3 DEF Mark, Goto, Forget
    <3>2. PType'
      BY <2>1, <3>1 DEF Calling
    <3>3. \A u \in Thread : /\ pc'[u] = "held" <=> pc[u] = "held"
                            /\ pc[u] = "held" => for'[u] = for[u]
      BY <2>1, <3>1
    <3>4. \A u \in Thread : SeenLocked(u)'
      <4>1. SeenLocked(t)'
        BY <3>1 DEF SeenLocked
      <4>2. ASSUME NEW u \in Thread, u # t PROVE SeenLocked(u)'
        BY <2>1, <3>1, <4>2, SeenStays
      <4> QED BY <4>1, <4>2
    <3>5. ReadersAnnounced'
      BY <2>1, <3>1 DEF ReadersAnnounced
    <3> QED BY <2>1, <3>2, <3>3, <3>4, <3>5
  <2> QED BY <2>2, <2>3
<1>4. CASE Wait(t)
  <2>1. /\ pc[t] = "wait" /\ UNCHANGED <<readers, writing, waiting, for>>
        /\ pc' = [pc EXCEPT ![t] = IF Word = seen[t] THEN "asleep" ELSE "acquire"]
        /\ seen' = [seen EXCEPT ![t] = None]
    BY <1>4 DEF Wait, Goto, Forget
  <2>2. PType'
    BY <2>1 DEF Calling
  <2>3. \A u \in Thread : /\ pc'[u] = "held" <=> pc[u] = "held"
                          /\ pc[u] = "held" => for'[u] = for[u]
    BY <2>1
  <2>4. \A u \in Thread : SeenLocked(u)'
    <3>1. SeenLocked(t)'
      BY <2>1 DEF SeenLocked
    <3>2. ASSUME NEW u \in Thread, u # t PROVE SeenLocked(u)'
      BY <2>1, <3>2, SeenStays
    <3> QED BY <3>1, <3>2
  <2>5. Word = seen[t] /\ for[t] = "read" => writing = TRUE /\ waiting = TRUE
    <3> SUFFICES ASSUME Word = seen[t], for[t] = "read" PROVE writing = TRUE /\ waiting = TRUE
      OBVIOUS
    <3>1. seen[t][2] = TRUE /\ seen[t][3] = TRUE
      BY <2>1 DEF SeenLocked
    <3> QED BY <3>1 DEF Word
  <2>6. ReadersAnnounced'
    BY <2>1, <2>5 DEF ReadersAnnounced
  <2> QED BY <2>1, <2>2, <2>3, <2>4, <2>6
<1>5. CASE WakeAll(t)
  <2>1. /\ pc[t] = "wake" /\ UNCHANGED <<readers, writing, waiting, for, seen>>
        /\ pc' = [u \in Thread |-> IF u = t THEN "idle"
                                   ELSE IF pc[u] = "asleep" THEN "acquire" ELSE pc[u]]
    BY <1>5 DEF WakeAll
  <2>2. PType'
    BY <2>1 DEF Calling
  <2>3. \A u \in Thread : /\ pc'[u] = "held" <=> pc[u] = "held"
                          /\ pc[u] = "held" => for'[u] = for[u]
    BY <2>1
  <2>4. \A u \in Thread : SeenLocked(u)'
    <3>1. ASSUME NEW u \in Thread, pc'[u] # pc[u] PROVE SeenLocked(u)'
      BY <2>1, <3>1 DEF SeenLocked
    <3>2. ASSUME NEW u \in Thread, pc'[u] = pc[u] PROVE SeenLocked(u)'
      BY <2>1, <3>2, SeenStays
    <3> QED BY <3>1, <3>2
  <2>5. ReadersAnnounced'
    BY <2>1 DEF ReadersAnnounced
  <2> QED BY <2>1, <2>2, <2>3, <2>4, <2>5
<1> QED BY <1>1, <1>2, <1>3, <1>4, <1>5 DEF Quiet

\* Every step keeps the invariant.
LEMMA PInvStep ==
  ASSUME PInv, [Next]_vars
  PROVE  PInv'
<1>1. CASE UNCHANGED vars
  <2>1. UNCHANGED <<readers, writing, waiting, pc, for, seen>>
    BY <1>1 DEF vars
  <2> QED BY <2>1 DEF PInv, PType, WordExact, HeldRead, HeldWrite, SeenLocked, ReadersAnnounced
<1>2. ASSUME NEW t \in Thread, MayTake(t), Acquire(t) PROVE PInv'
  BY <1>2, TakeStep DEF Acquire
<1> QED BY <1>1, <1>2, UnlockStep, QuietStep DEF Next, Step, Quiet

\* pthread_rwlock_rdlock, for any finite set of threads: a reader asleep on the
\* futex word is announced there to the writer that has the lock, or is about to
\* be woken. (For writers it is not so: see FreeForWriters.)
THEOREM PthreadReadersAnnounced == Spec => []ReadersAnnounced
<1>1. PInv => ReadersAnnounced
  BY DEF PInv
<1>2. PInv /\ [Next]_vars => PInv'
  BY PInvStep
<1> QED BY <1>1, <1>2, PInvInit, PTL DEF Spec

-----------------------------------------------------------------------------
\* The owner that the lock service sees.
WriterOf(S) == IF S = {} THEN None ELSE CHOOSE t \in Thread : t \in S

\* One writer is the owner, none is nobody.
LEMMA WriterOfOne ==
  ASSUME NEW t \in Thread
  PROVE  WriterOf({t}) = t /\ WriterOf({}) = None
BY DEF WriterOf

\* The set of owners that the service picks from is HeldWrite, now and next.
LEMMA OwnerStep ==
  /\ Held("read") = HeldRead /\ Held("write") = HeldWrite
  /\ Held("read")' = HeldRead' /\ Held("write")' = HeldWrite'
BY DEF Held, HeldRead, HeldWrite

\* Every step of the lock is a step of the lock service, or invisible to it.
LEMMA PServiceStep ==
  ASSUME PInv, [Next]_vars
  PROVE  [Service!LNext]_(Service!lvars)
<1> DEFINE owner == IF Held("write") = {} THEN None
                    ELSE CHOOSE t \in Thread : t \in Held("write")
           level == IF writing THEN 1 ELSE 0
           shared == Held("read")
           blocked == {u \in Thread : pc[u] \in {"acquire", "mark", "wait", "asleep"}}
<1>0. /\ PInv' /\ None \notin Thread
      /\ owner = WriterOf(HeldWrite) /\ owner' = WriterOf(HeldWrite')
      /\ shared = HeldRead /\ shared' = HeldRead'
  <2>1. owner = WriterOf(Held("write")) /\ owner' = WriterOf(Held("write")')
    BY DEF WriterOf
  <2>2. PInv' /\ None \notin Thread
    BY PInvStep, ThreadAssumption
  <2> HIDE DEF owner
  <2> QED BY <2>1, <2>2, OwnerStep
<1> SUFFICES \/ owner' = owner /\ level' = level /\ shared' = shared /\ blocked' = blocked
             \/ Service!LNext
  BY DEF Service!lvars
<1>1. CASE UNCHANGED vars
  <2>1. UNCHANGED <<writing, pc, for>>
    BY <1>1 DEF vars
  <2>2. HeldRead' = HeldRead /\ HeldWrite' = HeldWrite
    BY <2>1 DEF HeldRead, HeldWrite
  <2> QED BY <1>0, <2>1, <2>2
<1>2. ASSUME NEW t \in Thread, MayTake(t), Acquire(t) PROVE Service!LNext
  <2>1. pc[t] = "acquire" /\ TakeFor(t)
    BY <1>2 DEF Acquire
  <2>2. blocked' = blocked \ {t}
    BY <2>1 DEF TakeFor, Goto, PInv, PType
  <2>3. CASE for[t] = "read"
    <3>1. /\ ~writing /\ writing' = writing
          /\ HeldRead' = HeldRead \cup {t} /\ HeldWrite' = HeldWrite
      BY <1>2, <2>1, <2>3, TakeStep DEF TakeFor
    <3>2. HeldWrite = {}
      BY <3>1 DEF PInv, WordExact
    <3>3. owner = None /\ owner' = owner /\ level' = level /\ shared' = shared \cup {t}
      BY <1>0, <3>1, <3>2 DEF WriterOf
    <3>4. Service!GrantShared(t)
      BY <2>2, <3>3 DEF Service!GrantShared
    <3> QED BY <3>4 DEF Service!LNext
  <2>4. CASE for[t] = "write"
    <3>1. /\ ~writing /\ HeldRead = {} /\ HeldWrite = {} /\ HeldRead' = {} /\ HeldWrite' = {t}
      BY <1>2, <2>1, <2>4, TakeStep
    <3>2. writing'
      BY <2>1, <2>4 DEF TakeFor
    <3>3. owner = None /\ owner' = t /\ shared = {} /\ shared' = {}
      BY <1>0, <3>1, WriterOfOne
    <3>4. level = 0 /\ level' = 1
      BY <3>1, <3>2
    <3>5. Service!GrantExclusive(t)
      BY <2>2, <3>3, <3>4 DEF Service!GrantExclusive, Service!Free
    <3> QED BY <3>5 DEF Service!LNext
  <2> QED BY <2>3, <2>4 DEF PInv, PType
<1>3. ASSUME NEW t \in Thread, Unlock(t) PROVE Service!LNext
  <2>1. blocked' = blocked
    BY <1>3 DEF Unlock, Goto, PInv, PType
  <2>2. CASE writing
    <3>1. HeldWrite = {t} /\ HeldWrite' = {} /\ writing' = FALSE /\ HeldRead' = HeldRead
      BY <1>3, <2>2, UnlockStep
    <3>2. owner = t /\ owner' = None /\ shared' = shared
      BY <1>0, <3>1, WriterOfOne
    <3>3. level = 1 /\ level' = 0
      BY <2>2, <3>1
    <3>4. Service!ReleaseExclusive(t)
      BY <2>1, <3>2, <3>3 DEF Service!ReleaseExclusive
    <3> QED BY <3>4 DEF Service!LNext
  <2>3. CASE ~writing
    <3>1. /\ t \in HeldRead /\ HeldRead' = HeldRead \ {t}
          /\ HeldWrite' = HeldWrite /\ writing' = writing
      BY <1>3, <2>3, UnlockStep
    <3>2. owner' = owner /\ level' = level /\ t \in shared /\ shared' = shared \ {t}
      BY <1>0, <3>1
    <3>3. Service!ReleaseShared(t)
      BY <2>1, <3>2 DEF Service!ReleaseShared
    <3> QED BY <3>3 DEF Service!LNext
  <2> QED BY <2>2, <2>3
<1>4. ASSUME NEW t \in Thread, Quiet(t)
      PROVE  owner' = owner /\ level' = level /\ shared' = shared
  <2>1. HeldRead' = HeldRead /\ HeldWrite' = HeldWrite /\ writing' = writing
    BY <1>4, QuietStep
  <2> QED BY <1>0, <2>1
<1>5. ASSUME NEW t \in Thread, Lock(t, "read") \/ Lock(t, "write") PROVE Service!LNext
  <2>1. owner' = owner /\ level' = level /\ shared' = shared
    BY <1>4, <1>5 DEF Quiet
  <2>2. blocked' = blocked \cup {t} /\ pc[t] = "idle"
    BY <1>5 DEF Lock, Goto, PInv, PType
  <2>3. t \notin HeldRead /\ t \notin HeldWrite
    BY <2>2 DEF HeldRead, HeldWrite
  <2>4. owner # t
    <3>1. CASE HeldWrite = {}
      BY <1>0, <3>1 DEF WriterOf
    <3>2. CASE HeldWrite # {}
      <4>1. PICK u \in Thread : HeldWrite = {u}
        BY <3>2 DEF PInv, PType, WordExact
      <4> QED BY <1>0, <2>3, <4>1, WriterOfOne
    <3> QED BY <3>1, <3>2
  <2>5. Service!Block(t)
    BY <1>0, <2>1, <2>2, <2>3, <2>4 DEF Service!Block
  <2> QED BY <2>5 DEF Service!LNext
<1>6. ASSUME NEW t \in Thread,
             Interrupt(t) \/ (~MayTake(t) /\ Acquire(t)) \/ Mark(t) \/ Wait(t) \/ WakeAll(t)
      PROVE  owner' = owner /\ level' = level /\ shared' = shared /\ blocked' = blocked
  <2>1. blocked' = blocked
    BY <1>6 DEF Interrupt, Acquire, Mark, Wait, WakeAll, Goto, PInv, PType, Calling
  <2> QED BY <1>4, <1>6, <2>1 DEF Quiet
<1> QED BY <1>1, <1>2, <1>3, <1>5, <1>6 DEF Next, Step

\* pthread_rwlock_rdlock, wrlock and unlock, one atomic access at a time, let
\* nobody in whom the lock service would not, for any finite set of threads.
THEOREM PthreadRwlockImplementsService == Spec => ImplementsService
<1>1. Init => Service!LInit
  BY DEF Init, Service!LInit, Service!Free, Held
<1>2. PInv /\ [Next]_vars => [Service!LNext]_(Service!lvars)
  BY PServiceStep
<1>3. PInv /\ [Next]_vars => PInv'
  BY PInvStep
<1> QED BY <1>1, <1>2, <1>3, PInvInit, PTL DEF Spec, ImplementsService, Service!LSpec

-----------------------------------------------------------------------------
(* The barrier keeps its threads together.                                   *)

CONSTANT MaxRounds

VARIABLES bvalue, revision, bpc, bseen, round, serial

PB == INSTANCE PthreadBarrier WITH value <- bvalue, pc <- bpc, seen <- bseen

\* What PthreadBarrier takes from FiniteSets is what this module takes.
LEMMA PBFiniteSets == \A S : PB!Cardinality(S) = Cardinality(S)
BY DEF Cardinality, PB!Cardinality

Waiting == {"wait", "asleep", "test"}

\* The threads that have been counted in the current revision and wait for its end
Here == {t \in Thread : bpc[t] \in Waiting /\ round[t] = revision}

BType ==
    /\ bvalue \in Nat
    /\ revision \in Nat
    /\ bpc \in [Thread -> {"out", "add", "reset", "bump", "wake"} \cup Waiting]
    /\ bseen \in [Thread -> Nat]
    /\ round \in [Thread -> Nat]
    /\ serial \in [1..MaxRounds -> Nat]

\* A thread is in the current round, or on its way out of the one before: then
\* the revision is no longer the one it saw.
Placed(t) ==
    /\ bpc[t] = "out" => round[t] = revision
    /\ bpc[t] # "out" => round[t] < MaxRounds
    /\ bpc[t] \in {"add", "reset", "bump"} => round[t] = revision /\ bseen[t] = revision
    /\ bpc[t] \in Waiting => bseen[t] = round[t] /\ revision \in {round[t], round[t] + 1}
    /\ bpc[t] = "wake" => revision = round[t] + 1

\* barrier->value counts the threads that wait, until the last one has come;
\* everybody else waits for it then.
Counted ==
    /\ \A t \in Thread : bpc[t] \in {"reset", "bump"} => Here = Thread \ {t}
    /\ (\A t \in Thread : bpc[t] # "reset" /\ bpc[t] # "bump") => bvalue = Cardinality(Here)
    /\ (\E t \in Thread : bpc[t] = "bump") => bvalue = 0

\* One thread of every revision that has ended has been told, or will be.
Told ==
    /\ \A t, u \in Thread : bpc[t] = "wake" /\ bpc[u] = "wake" => t = u
    /\ \A r \in 1..MaxRounds :
          serial[r] = IF r < revision \/ (r = revision /\ \A t \in Thread : bpc[t] # "wake")
                      THEN 1 ELSE 0

BInv ==
    /\ IsFiniteSet(Thread) /\ Thread # {} /\ MaxRounds \in Nat
    /\ BType
    /\ \A t \in Thread : Placed(t)
    /\ Counted
    /\ Told

\* The initial barrier satisfies the invariant.
LEMMA BInvInit == IsFiniteSet(Thread) /\ Thread # {} /\ MaxRounds \in Nat /\ PB!Init => BInv
<1> SUFFICES ASSUME IsFiniteSet(Thread), Thread # {}, MaxRounds \in Nat, PB!Init PROVE BInv
  OBVIOUS
<1>1. BType /\ \A t \in Thread : Placed(t)
  BY DEF PB!Init, BType, Placed, Waiting
<1>2. Here = {}
  BY DEF PB!Init, Here, Waiting
<1>3. Counted
  BY <1>2, FS_EmptySet DEF PB!Init, Counted
<1>4. Told
  BY DEF PB!Init, Told
<1> QED BY <1>1, <1>3, <1>4 DEF BInv

\* The threads that wait are finitely many; if all but one wait, it is as many
\* as barrier->count less one that do, and conversely.
LEMMA HereFinite ==
  ASSUME BInv
  PROVE  /\ IsFiniteSet(Here) /\ Cardinality(Here) \in Nat /\ PB!Count \in Nat
         /\ \A t \in Thread : t \notin Here /\ Cardinality(Here) + 1 = PB!Count => Here = Thread \ {t}
<1>1. Here \in SUBSET Thread /\ IsFiniteSet(Thread)
  BY DEF Here, BInv
<1>2. IsFiniteSet(Here) /\ Cardinality(Here) \in Nat /\ PB!Count \in Nat
  BY <1>1, FS_Subset, FS_CardinalityType, PBFiniteSets DEF PB!Count
<1>3. ASSUME NEW t \in Thread, t \notin Here, Cardinality(Here) + 1 = PB!Count
      PROVE  Here = Thread \ {t}
  <2>1. Here \cup {t} \in SUBSET Thread
    BY <1>1
  <2>2. Cardinality(Here \cup {t}) = Cardinality(Here) + 1
    BY <1>2, <1>3, FS_AddElement
  <2>3. Here \cup {t} = Thread
    BY <1>1, <1>3, <2>1, <2>2, FS_Subset, PBFiniteSets DEF PB!Count
  <2> QED BY <1>3, <2>3
<1> QED BY <1>2, <1>3

\* While nobody resets or bumps, a step that lets nobody in or out of Here and
\* leaves the counter alone keeps Counted.
LEMMA CountedStays ==
  ASSUME BInv, Here' = Here, UNCHANGED bvalue,
         \A t \in Thread : bpc'[t] = "reset" <=> bpc[t] = "reset",
         \A t \in Thread : bpc'[t] = "bump" <=> bpc[t] = "bump"
  PROVE  Counted'
BY DEF BInv, Counted

\* The threads that wake and the flags of the rounds are untouched.
LEMMA ToldStays ==
  ASSUME BInv, UNCHANGED <<revision, serial>>,
         \A t \in Thread : bpc'[t] = "wake" <=> bpc[t] = "wake"
  PROVE  Told'
BY DEF BInv, Told

\* A thread loads the revision of the current round.
LEMMA EnterStep ==
  ASSUME BInv, NEW t \in Thread, PB!Enter(t)
  PROVE  BInv'
<1>1. /\ bpc[t] = "out" /\ round[t] < MaxRounds /\ bpc' = [bpc EXCEPT ![t] = "add"]
      /\ bseen' = [bseen EXCEPT ![t] = revision] /\ UNCHANGED <<bvalue, revision, round, serial>>
  BY DEF PB!Enter, PB!Goto
<1>2. BType'
  BY <1>1 DEF BInv, BType
<1>3. ASSUME NEW u \in Thread PROVE Placed(u)'
  BY <1>1 DEF BInv, BType, Placed, Waiting
<1>4. Here' = Here
  BY <1>1 DEF BInv, BType, Here, Waiting
<1>5. Counted'
  BY <1>1, <1>4, CountedStays DEF BInv, BType
<1>6. Told'
  BY <1>1, ToldStays DEF BInv, BType
<1> QED BY <1>2, <1>3, <1>5, <1>6 DEF BInv

\* A thread is counted; the last one finds all the others waiting.
LEMMA AddStep ==
  ASSUME BInv, NEW t \in Thread, PB!Add(t)
  PROVE  BInv'
<1> DEFINE to == IF bvalue + 1 = PB!Count THEN "reset" ELSE "wait"
<1>1. /\ bpc[t] = "add" /\ bvalue' = bvalue + 1 /\ bpc' = [bpc EXCEPT ![t] = to]
      /\ UNCHANGED <<revision, bseen, round, serial>>
  BY DEF PB!Add, PB!Goto
<1>2. BType'
  BY <1>1 DEF BInv, BType, Waiting
<1>3. ASSUME NEW u \in Thread PROVE Placed(u)'
  BY <1>1 DEF BInv, BType, Placed, Waiting
<1>4. t \notin Here /\ round[t] = revision
  BY <1>1 DEF BInv, Placed, Here, Waiting
<1>5. \A u \in Thread : bpc[u] # "reset" /\ bpc[u] # "bump"
  BY <1>1, <1>4 DEF BInv, Counted
<1>6. bvalue = Cardinality(Here)
  BY <1>5 DEF BInv, Counted
<1>7. Counted'
  <2>1. CASE bvalue + 1 = PB!Count
    <3>1. bpc' = [bpc EXCEPT ![t] = "reset"]
      BY <1>1, <2>1
    <3>2. Here' = Here
      BY <1>1, <3>1 DEF BInv, BType, Here, Waiting
    <3>3. Here = Thread \ {t}
      BY <1>4, <1>6, <2>1, HereFinite
    <3>4. \A u \in Thread : bpc'[u] # "bump" /\ (bpc'[u] = "reset" <=> u = t)
      BY <1>5, <3>1 DEF BInv, BType
    <3> QED BY <3>2, <3>3, <3>4 DEF Counted
  <2>2. CASE bvalue + 1 # PB!Count
    <3>1. bpc' = [bpc EXCEPT ![t] = "wait"]
      BY <1>1, <2>2
    <3>2. Here' = Here \cup {t}
      BY <1>1, <1>4, <3>1 DEF BInv, BType, Here, Waiting
    <3>3. Cardinality(Here') = Cardinality(Here) + 1
      BY <1>4, <3>2, HereFinite, FS_AddElement
    <3>4. \A u \in Thread : bpc'[u] # "bump" /\ bpc'[u] # "reset"
      BY <1>5, <3>1 DEF BInv, BType
    <3> QED BY <1>1, <1>6, <3>3, <3>4 DEF Counted
  <2> QED BY <2>1, <2>2
<1>8. Told'
  BY <1>1, ToldStays DEF BInv, BType
<1> QED BY <1>2, <1>3, <1>7, <1>8 DEF BInv

\* The counter is zeroed before the revision moves.
LEMMA ResetStep ==
  ASSUME BInv, NEW t \in Thread, PB!Reset(t)
  PROVE  BInv'
<1>1. /\ bpc[t] = "reset" /\ bvalue' = 0 /\ bpc' = [bpc EXCEPT ![t] = "bump"]
      /\ UNCHANGED <<revision, bseen, round, serial>>
  BY DEF PB!Reset, PB!Goto
<1>2. BType'
  BY <1>1 DEF BInv, BType
<1>3. ASSUME NEW u \in Thread PROVE Placed(u)'
  BY <1>1 DEF BInv, BType, Placed, Waiting
<1>4. Here' = Here
  BY <1>1 DEF BInv, BType, Here, Waiting
<1>5. Counted'
  BY <1>1, <1>4 DEF BInv, BType, Counted
<1>6. Told'
  BY <1>1, ToldStays DEF BInv, BType
<1> QED BY <1>2, <1>3, <1>5, <1>6 DEF BInv

\* The revision ends: all the others wait in it, and are now in the round before.
LEMMA BumpStep ==
  ASSUME BInv, NEW t \in Thread, PB!Bump(t)
  PROVE  BInv'
<1>1. /\ bpc[t] = "bump" /\ revision' = revision + 1 /\ bpc' = [bpc EXCEPT ![t] = "wake"]
      /\ UNCHANGED <<bvalue, bseen, round, serial>>
  BY DEF PB!Bump, PB!Goto
<1>2. BType'
  BY <1>1 DEF BInv, BType
<1>3. Here = Thread \ {t} /\ bvalue = 0
  BY <1>1 DEF BInv, Counted
<1>4. \A u \in Thread : u # t => bpc[u] \in Waiting /\ bpc'[u] = bpc[u] /\ round[u] = revision
  BY <1>1, <1>3 DEF Here, BInv, BType
<1>5. ASSUME NEW u \in Thread PROVE Placed(u)'
  BY <1>1, <1>4 DEF BInv, BType, Placed, Waiting
<1>6. Counted'
  <2>1. Here' = {}
    BY <1>1, <1>4 DEF Here, BInv, BType, Placed, Waiting
  <2>2. \A u \in Thread : bpc'[u] # "reset" /\ bpc'[u] # "bump"
    BY <1>1, <1>4 DEF BInv, BType, Waiting
  <2>3. bvalue' = Cardinality(Here')
    BY <1>1, <1>3, <2>1, FS_EmptySet
  <2> QED BY <2>2, <2>3 DEF Counted
<1>7. Told'
  <2>1. bpc'[t] = "wake" /\ \A u \in Thread : bpc[u] # "wake" /\ (bpc'[u] = "wake" => u = t)
    BY <1>1, <1>4 DEF BInv, BType, Waiting
  <2>2. ASSUME NEW r \in 1..MaxRounds
        PROVE  serial'[r] = IF r < revision' \/ (r = revision' /\ \A u \in Thread : bpc'[u] # "wake")
                            THEN 1 ELSE 0
    <3>1. serial[r] = IF r <= revision THEN 1 ELSE 0
      BY <2>1 DEF BInv, BType, Told
    <3> QED BY <1>1, <2>1, <3>1 DEF BInv, BType
  <2> QED BY <2>1, <2>2 DEF Told
<1> QED BY <1>2, <1>5, <1>6, <1>7 DEF BInv

\* The last thread leaves, and is the one of its round that was told so.
LEMMA WakeAllStep ==
  ASSUME BInv, NEW t \in Thread, PB!WakeAll(t)
  PROVE  BInv'
<1>1. /\ bpc[t] = "wake" /\ UNCHANGED <<bvalue, revision, bseen>>
      /\ bpc' = [u \in Thread |-> IF u = t THEN "out" ELSE IF bpc[u] = "asleep" THEN "test" ELSE bpc[u]]
      /\ round' = [round EXCEPT ![t] = round[t] + 1]
      /\ serial' = [serial EXCEPT ![round[t] + 1] = serial[round[t] + 1] + 1]
  BY DEF PB!WakeAll
<1>2. /\ round[t] + 1 = revision /\ revision \in 1..MaxRounds
      /\ serial' = [serial EXCEPT ![revision] = serial[revision] + 1]
  <2>1. Placed(t) /\ round[t] \in Nat /\ MaxRounds \in Nat
    BY DEF BInv, BType
  <2>2. revision = round[t] + 1 /\ round[t] < MaxRounds
    BY <1>1, <2>1 DEF Placed
  <2> QED BY <1>1, <2>1, <2>2
<1>3. BType'
  BY <1>1, <1>2, SMTT(20) DEF BInv, BType, Waiting
<1>4. ASSUME NEW u \in Thread PROVE Placed(u)'
  BY <1>1, <1>2 DEF BInv, BType, Placed, Waiting
<1>5. Here' = Here
  BY <1>1, <1>2 DEF BInv, BType, Here, Waiting
<1>6. Counted'
  BY <1>1, <1>5, CountedStays DEF BInv, BType
<1>7. Told'
  <2>1. \A u \in Thread : bpc'[u] # "wake"
    BY <1>1 DEF BInv, Told
  <2>2. ASSUME NEW r \in 1..MaxRounds
        PROVE  serial'[r] = IF r < revision' \/ (r = revision' /\ \A u \in Thread : bpc'[u] # "wake")
                            THEN 1 ELSE 0
    <3>1. serial[r] = IF r < revision THEN 1 ELSE 0
      BY <1>1 DEF BInv, BType, Told
    <3> QED BY <1>1, <1>2, <2>1, <3>1 DEF BInv, BType
  <2> QED BY <2>1, <2>2 DEF Told
<1> QED BY <1>3, <1>4, <1>6, <1>7 DEF BInv

\* FUTEX_WAIT, an interruption of it, and the test behind it: on in the loop, or
\* out if the revision is no longer the one that was seen.
LEMMA LoopStep ==
  ASSUME BInv, NEW t \in Thread, PB!Wait(t) \/ PB!Interrupt(t) \/ PB!Test(t)
  PROVE  BInv'
<1>1. bpc[t] \in Waiting /\ UNCHANGED <<bvalue, revision, bseen, serial>>
  BY DEF PB!Wait, PB!Interrupt, PB!Test, Waiting
<1>2. CASE UNCHANGED round /\ \E l \in Waiting : bpc' = [bpc EXCEPT ![t] = l]
  <2>1. PICK l \in Waiting : bpc' = [bpc EXCEPT ![t] = l]
    BY <1>2
  <2>2. BType'
    BY <1>1, <1>2, <2>1 DEF BInv, BType
  <2>3. ASSUME NEW u \in Thread PROVE Placed(u)'
    BY <1>1, <1>2, <2>1 DEF BInv, BType, Placed, Waiting
  <2>4. Here' = Here
    BY <1>1, <1>2, <2>1 DEF BInv, BType, Here
  <2>5. Counted'
    BY <1>1, <2>1, <2>4, CountedStays DEF BInv, BType, Waiting
  <2>6. Told'
    BY <1>1, <2>1, ToldStays DEF BInv, BType, Waiting
  <2> QED BY <2>2, <2>3, <2>5, <2>6 DEF BInv
<1>3. CASE revision # bseen[t] /\ PB!Return(t)
  <2>1. bpc' = [bpc EXCEPT ![t] = "out"] /\ round' = [round EXCEPT ![t] = round[t] + 1]
    BY <1>3 DEF PB!Return, PB!Goto
  <2>2. revision = round[t] + 1
    BY <1>1, <1>3 DEF BInv, Placed
  <2>3. BType'
    BY <1>1, <2>1 DEF BInv, BType
  <2>4. ASSUME NEW u \in Thread PROVE Placed(u)'
    BY <1>1, <2>1, <2>2 DEF BInv, BType, Placed, Waiting
  <2>5. Here' = Here
    BY <1>1, <2>1, <2>2 DEF BInv, BType, Here, Waiting
  <2>6. Counted'
    BY <1>1, <2>1, <2>5, CountedStays DEF BInv, BType, Waiting
  <2>7. Told'
    BY <1>1, <2>1, ToldStays DEF BInv, BType, Waiting
  <2> QED BY <2>3, <2>4, <2>6, <2>7 DEF BInv
<1> QED BY <1>2, <1>3 DEF PB!Wait, PB!Interrupt, PB!Test, PB!Goto, Waiting

\* Every step keeps the invariant.
LEMMA BInvStep ==
  ASSUME BInv, [PB!Next]_(PB!vars)
  PROVE  BInv'
<1>1. CASE UNCHANGED PB!vars
  <2>1. UNCHANGED <<bvalue, revision, bpc, bseen, round, serial>>
    BY <1>1 DEF PB!vars
  <2> QED BY <2>1 DEF BInv, BType, Placed, Counted, Told, Here
<1> QED BY <1>1, EnterStep, AddStep, ResetStep, BumpStep, WakeAllStep, LoopStep DEF PB!Next, PB!Step

\* The invariant is strong enough.
LEMMA BInvMeets == BInv => PB!MeetTogether
<1> SUFFICES ASSUME BInv PROVE PB!MeetTogether
  OBVIOUS
<1>1. ASSUME NEW t \in Thread PROVE round[t] <= revision /\ revision <= PB!Arrived(t)
  <2>1. /\ Placed(t) /\ revision \in Nat /\ round[t] \in Nat
        /\ bpc[t] \in {"out", "add", "reset", "bump", "wake", "wait", "asleep", "test"}
    BY DEF BInv, BType, Waiting
  <2> QED BY <2>1 DEF Placed, PB!Arrived, Waiting
<1>2. \A t, u \in Thread : round[t] <= PB!Arrived(u)
  BY <1>1 DEF BInv, BType, PB!Arrived
<1>3. ASSUME NEW r \in 1..MaxRounds
      PROVE  /\ serial[r] <= 1
             /\ (\A t \in Thread : round[t] >= r) => serial[r] = 1
  <2>1. serial[r] <= 1
    BY DEF BInv, Told
  <2>2. ASSUME \A t \in Thread : round[t] >= r PROVE serial[r] = 1
    <3>1. r <= revision
      <4>1. PICK u \in Thread : TRUE
        BY DEF BInv
      <4> QED BY <1>1, <2>2, <4>1 DEF BInv, BType
    <3>2. r = revision => \A t \in Thread : bpc[t] # "wake"
      BY <2>2 DEF BInv, BType, Placed
    <3> QED BY <3>1, <3>2 DEF BInv, BType, Told
  <2> QED BY <2>1, <2>2
<1> QED BY <1>2, <1>3 DEF PB!MeetTogether

\* pthread_barrier_wait, for any count and any number of rounds: nobody returns
\* from a round before all have come to it, and exactly one thread of each round
\* gets PTHREAD_BARRIER_SERIAL_THREAD, whatever is interrupted.
THEOREM BarrierMeetsTogether ==
    IsFiniteSet(Thread) /\ Thread # {} /\ MaxRounds \in Nat /\ PB!Spec => []PB!MeetTogether
<1>1. BInv /\ [PB!Next]_(PB!vars) => BInv'
  BY BInvStep
<1> QED BY <1>1, BInvInit, BInvMeets, PTL DEF PB!Spec

-----------------------------------------------------------------------------
(* pthread_once: init() has run, once, when a call returns.                  *)

VARIABLES ovalue, opc, ran

PO == INSTANCE PthreadOnce WITH value <- ovalue, pc <- opc

\* Nobody has called; one thread runs init(), and the others come or wait; or
\* init() has run.
OInv ==
    /\ opc \in [Thread -> {"out", "init", "store", "wake", "wait", "asleep", "test", "done"}]
    /\ \/ ovalue = 0 /\ ran = 0 /\ \A t \in Thread : opc[t] = "out"
       \/ /\ ovalue = 1
          /\ \E t \in Thread :
                /\ (opc[t] = "init" /\ ran = 0) \/ (opc[t] = "store" /\ ran = 1)
                /\ \A u \in Thread \ {t} : opc[u] \in {"out", "wait", "asleep", "test"}
       \/ ovalue = 2 /\ ran = 1 /\ \A t \in Thread : opc[t] \notin {"init", "store"}

\* A step of pthread_once keeps the invariant.
LEMMA OInvStep == OInv /\ [PO!Next]_(PO!vars) => OInv'
<1> SUFFICES ASSUME OInv, [PO!Next]_(PO!vars) PROVE OInv'
  OBVIOUS
<1> USE DEF OInv
<1>1. ASSUME NEW t \in Thread, PO!Once(t) PROVE OInv'
  <2>1. CASE ovalue = 0
    <3>1. ovalue' = 1 /\ ran' = 0 /\ opc' = [opc EXCEPT ![t] = "init"]
      BY <1>1, <2>1 DEF PO!Once, PO!Goto
    <3>2. opc'[t] = "init" /\ \A u \in Thread \ {t} : opc'[u] = "out"
      BY <2>1, <3>1
    <3> QED BY <3>1, <3>2
  <2>2. CASE ovalue = 1
    BY <1>1, <2>2 DEF PO!Once, PO!Goto
  <2>3. CASE ovalue = 2
    BY <1>1, <2>3 DEF PO!Once, PO!Goto
  <2> QED BY <2>1, <2>2, <2>3
<1>2. ASSUME NEW t \in Thread, PO!RunInit(t) PROVE OInv'
  BY <1>2 DEF PO!RunInit, PO!Goto
<1>3. ASSUME NEW t \in Thread, PO!Store(t) PROVE OInv'
  BY <1>3 DEF PO!Store, PO!Goto
<1>4. ASSUME NEW t \in Thread, PO!WakeAll(t) PROVE OInv'
  BY <1>4 DEF PO!WakeAll
<1>5. ASSUME NEW t \in Thread, PO!Wait(t) PROVE OInv'
  BY <1>5 DEF PO!Wait, PO!Goto
<1>6. ASSUME NEW t \in Thread, PO!Interrupt(t) \/ PO!Test(t) PROVE OInv'
  BY <1>6 DEF PO!Interrupt, PO!Test, PO!Goto
<1>7. CASE UNCHANGED PO!vars
  BY <1>7 DEF PO!vars
<1> QED BY <1>1, <1>2, <1>3, <1>4, <1>5, <1>6, <1>7 DEF PO!Next, PO!Step

\* pthread_once: whoever returns finds init() run, to its end and once, for any
\* set of threads.
THEOREM OnceRunsBeforeReturn == PO!Spec => []PO!RunOnceBeforeReturn
<1>1. PO!Init => OInv
  BY DEF PO!Init, OInv
<1>2. OInv => PO!RunOnceBeforeReturn
  BY DEF OInv, PO!RunOnceBeforeReturn
<1> QED BY <1>1, <1>2, OInvStep, PTL DEF PO!Spec
=============================================================================
