-------------------------- MODULE KernelLockProofs --------------------------
(* Proofs about the big kernel lock and the CPU rendezvous, for any finite   *)
(* set of CPUs and any number of cpu_sync calls.                             *)
EXTENDS KernelLock, FiniteSetTheorems, TLAPS

\* A panic keeps the lock for ever, held by the CPU that panicked.
PanicHoldsLock ==
    panicked # 0 => klock \in CPU /\ pc[klock] \in {"panic", "dead"}

\* Calls that do not overlap: at most one CPU is inside cpu_sync.
OneSync ==
    \A c, d \in CPU : Syncing(c) /\ Syncing(d) => c = d

\* While CPU c synchronises, the counter misses exactly the CPUs that are still
\* in the mask, and the requested CPUs that are not are held by cpu_sync_leave.
SyncAccounts(c) ==
    /\ mask \subseteq request[c]
    /\ c \notin request[c]
    /\ count + Cardinality(mask) = ncpus
    /\ \A t \in request[c] \ mask : pc[t] = "leave"
    /\ pc[c] = "relock" => mask = {}

\* Without a CPU inside cpu_sync the counter is zero, unless a panic stopped it.
QuietCount ==
    count # 0 => panicked # 0 \/ \E c \in CPU : Syncing(c)

SyncInv ==
    /\ TypeOK
    /\ MutualExclusion
    /\ PanicHoldsLock
    /\ OneSync
    /\ \A c \in CPU : Syncing(c) => SyncAccounts(c)
    /\ QuietCount
    /\ SyncCountExact

-----------------------------------------------------------------------------
LEMMA NcpusNat == ncpus \in Nat
  BY KernelLockAssumption, FS_CardinalityType DEF ncpus

\* A set of CPUs is finite and has at most g_ncpus members, fewer when it
\* misses one.
LEMMA CPUSubset ==
  ASSUME NEW S \in SUBSET CPU
  PROVE  /\ IsFiniteSet(S)
         /\ Cardinality(S) \in Nat
         /\ Cardinality(S) <= ncpus
         /\ \A c \in CPU \ S : Cardinality(S) < ncpus
<1>1. IsFiniteSet(S) /\ Cardinality(S) \in Nat /\ Cardinality(S) <= ncpus
  BY KernelLockAssumption, FS_Subset, FS_CardinalityType DEF ncpus
<1>2. ASSUME NEW c \in CPU \ S PROVE Cardinality(S) < ncpus
  <2>1. S \in SUBSET CPU /\ S # CPU
    BY <1>2
  <2>2. Cardinality(S) # Cardinality(CPU)
    BY <2>1, KernelLockAssumption, FS_Subset
  <2> QED BY <1>1, <2>2, NcpusNat DEF ncpus
<1> QED BY <1>1, <1>2

\* The counter of cpu_sync: one for the caller, one for each CPU left out.
LEMMA CountOfOthers ==
  ASSUME NEW c \in CPU, NEW m \in SUBSET (CPU \ {c})
  PROVE  /\ Cardinality(CPU \ (m \cup {c})) \in Nat
         /\ 1 + Cardinality(CPU \ (m \cup {c})) + Cardinality(m) = ncpus
<1>1. IsFiniteSet(m) /\ IsFiniteSet(CPU \ (m \cup {c})) /\ IsFiniteSet(CPU \ {c})
  BY CPUSubset
<1>2. Cardinality(CPU \ {c}) = ncpus - 1
  BY KernelLockAssumption, FS_RemoveElement DEF ncpus
<1>3. CPU \ (m \cup {c}) = (CPU \ {c}) \ m
  OBVIOUS
<1>4. Cardinality((CPU \ {c}) \ m)
        = Cardinality(CPU \ {c}) - Cardinality((CPU \ {c}) \cap m)
  BY <1>1, FS_Difference
<1>5. (CPU \ {c}) \cap m = m
  OBVIOUS
<1>6. Cardinality(m) \in Nat /\ Cardinality(CPU \ (m \cup {c})) \in Nat
  BY <1>1, FS_CardinalityType
<1>7. Cardinality(CPU \ (m \cup {c})) = ncpus - 1 - Cardinality(m)
  BY <1>2, <1>3, <1>4, <1>5
<1> QED BY <1>6, <1>7, NcpusNat

-----------------------------------------------------------------------------
\* Every step keeps the lock, the counter, the mask and the position of every
\* CPU within their types.
LEMMA TypeStep ==
  ASSUME TypeOK, [Next]_vars
  PROVE  TypeOK'
<1> USE KernelLockAssumption DEF TypeOK, Location, Goto
<1>1. CASE UNCHANGED vars
  BY <1>1 DEF vars
<1>2. ASSUME NEW c \in CPU, Step(c) PROVE TypeOK'
  <2>1. CASE TrapEnter(c) \/ LockAcquire(c) \/ LockSpin(c)
    BY <2>1 DEF TrapEnter, LockAcquire, LockSpin
  <2>2. ASSUME NEW m \in SUBSET (CPU \ {c}), CpuSync(c, m) PROVE TypeOK'
    <3>1. Cardinality(CPU \ (m \cup {c})) \in Nat
      BY CountOfOthers
    <3> QED BY <2>2, <3>1 DEF CpuSync, StartSync
  <2>3. CASE CpuSyncSeen(c) \/ CpuSyncReturn(c)
    BY <2>3 DEF CpuSyncSeen, CpuSyncReturn
  <2>4. CASE CpuSyncLeave(c) \/ CpuSyncResume(c)
    BY <2>4 DEF CpuSyncLeave, CpuSyncResume
  <2>5. CASE Panic(c) \/ PanicReport(c)
    BY <2>5 DEF Panic, PanicReport
  <2> QED BY <1>2, <2>1, <2>2, <2>3, <2>4, <2>5 DEF Step
<1> QED BY <1>1, <1>2 DEF Next

\* The state is always well typed.
THEOREM TypeCorrect == Spec => []TypeOK
<1>1. Init => TypeOK
  BY KernelLockAssumption DEF Init, TypeOK, Location
<1>2. TypeOK /\ [Next]_vars => TypeOK'
  BY TypeStep
<1> QED BY <1>1, <1>2, PTL DEF Spec

\* No step puts a second CPU into kernel code: the lock is taken only when
\* free, and cpu_sync and cpu_sync_leave free it only as they leave.
LEMMA ExclusionStep ==
  ASSUME TypeOK, MutualExclusion, [Next]_vars
  PROVE  MutualExclusion'
<1> USE KernelLockAssumption DEF TypeOK, MutualExclusion, Goto
<1>1. CASE UNCHANGED vars
  BY <1>1 DEF vars
<1>2. ASSUME NEW c \in CPU, Step(c) PROVE MutualExclusion'
  <2>1. CASE TrapEnter(c) \/ LockAcquire(c) \/ LockSpin(c)
    BY <2>1 DEF TrapEnter, LockAcquire, LockSpin
  <2>2. ASSUME NEW m, CpuSync(c, m) PROVE MutualExclusion'
    BY <2>2 DEF CpuSync, StartSync
  <2>3. CASE CpuSyncSeen(c) \/ CpuSyncReturn(c)
    BY <2>3 DEF CpuSyncSeen, CpuSyncReturn
  <2>4. CASE CpuSyncLeave(c) \/ CpuSyncResume(c)
    BY <2>4 DEF CpuSyncLeave, CpuSyncResume
  <2>5. CASE Panic(c) \/ PanicReport(c)
    BY <2>5 DEF Panic, PanicReport
  <2> QED BY <1>2, <2>1, <2>2, <2>3, <2>4, <2>5 DEF Step
<1> QED BY <1>1, <1>2 DEF Next

\* Kernel code runs on one CPU at a time, whatever cpu_sync calls overlap and
\* whatever panics happen: cpu_sync gives the lock up only for itself.
THEOREM KernelExclusion == Spec => []MutualExclusion
<1>1. Init => MutualExclusion
  BY DEF Init, MutualExclusion
<1>2. TypeOK /\ MutualExclusion /\ [Next]_vars => MutualExclusion'
  BY ExclusionStep
<1> QED BY <1>1, <1>2, TypeCorrect, PTL DEF Spec

-----------------------------------------------------------------------------
\* SyncInv is inductive when calls of cpu_sync do not overlap.
LEMMA SyncInvariance ==
  ASSUME Overlap = FALSE, SyncInv, [Next]_vars
  PROVE  SyncInv'
<1>1. TypeOK' /\ MutualExclusion'
  BY TypeStep, ExclusionStep DEF SyncInv
<1> USE KernelLockAssumption DEF SyncInv
<1>2. CASE UNCHANGED vars
  BY <1>1, <1>2 DEF vars, PanicHoldsLock, OneSync, Syncing, SyncAccounts,
     QuietCount, SyncCountExact
<1>3. ASSUME NEW c \in CPU, Step(c) PROVE SyncInv'
  <2> DEFINE Accounts == \A d \in CPU : Syncing(d) => SyncAccounts(d)
  <2> USE DEF TypeOK, Goto, Syncing
  <2>1. CASE TrapEnter(c)
    <3>1. Accounts'
      BY <2>1 DEF TrapEnter, SyncAccounts
    <3> QED BY <1>1, <2>1, <3>1 DEF TrapEnter, PanicHoldsLock, OneSync,
               QuietCount, SyncCountExact
  <2>2. CASE LockAcquire(c)
    <3>1. Accounts'
      BY <2>2 DEF LockAcquire, SyncAccounts
    <3> QED BY <1>1, <2>2, <3>1 DEF LockAcquire, PanicHoldsLock, OneSync,
               QuietCount, SyncCountExact
  <2>3. CASE LockSpin(c)
    <3>1. Accounts'
      BY <2>3 DEF LockSpin, SyncAccounts
    <3> QED BY <1>1, <2>3, <3>1 DEF LockSpin, PanicHoldsLock, OneSync,
               QuietCount, SyncCountExact
  <2>4. ASSUME NEW m \in SUBSET (CPU \ {c}), CpuSync(c, m) PROVE SyncInv'
    <3>1. \A d \in CPU : Syncing(d)' => d = c
      BY <2>4 DEF CpuSync, StartSync
    <3>2. SyncAccounts(c)'
      <4>1. count' + Cardinality(m) = ncpus
        BY <2>4, CountOfOthers DEF CpuSync, StartSync
      <4> QED BY <2>4, <4>1 DEF CpuSync, StartSync, SyncAccounts
    <3>3. panicked = 0
      BY <2>4 DEF CpuSync, StartSync, MutualExclusion, PanicHoldsLock
    <3> QED BY <1>1, <2>4, <3>1, <3>2, <3>3 DEF CpuSync, StartSync, PanicHoldsLock,
               OneSync, QuietCount, SyncCountExact
  <2>5. CASE CpuSyncSeen(c)
    <3>1. mask = {}
      <4>1. SyncAccounts(c) /\ mask \in SUBSET CPU
        BY <2>5 DEF CpuSyncSeen
      <4>2. Cardinality(mask) = 0
        BY <2>5, <4>1, CPUSubset, NcpusNat DEF CpuSyncSeen, SyncAccounts
      <4> QED BY <4>1, <4>2, CPUSubset, FS_EmptySet
    <3>2. Accounts'
      BY <2>5, <3>1 DEF CpuSyncSeen, SyncAccounts, OneSync
    <3> QED BY <1>1, <2>5, <3>2 DEF CpuSyncSeen, PanicHoldsLock, OneSync,
               QuietCount, SyncCountExact
  <2>6. CASE CpuSyncReturn(c)
    <3>1. count = ncpus
      <4>1. mask = {} /\ count + Cardinality(mask) = ncpus
        BY <2>6 DEF CpuSyncReturn, SyncAccounts
      <4> QED BY <4>1, FS_EmptySet, NcpusNat
    <3>2. \A d \in CPU : ~Syncing(d)'
      BY <2>6, <3>1 DEF CpuSyncReturn, OneSync
    <3> QED BY <1>1, <2>6, <3>1, <3>2 DEF CpuSyncReturn, PanicHoldsLock,
               OneSync, QuietCount, SyncCountExact
  <2>7. CASE CpuSyncLeave(c)
    <3>1. panicked = 0
      BY <2>7 DEF CpuSyncLeave, MutualExclusion, PanicHoldsLock
    <3>2. Accounts'
      <4>1. CASE count # 0 /\ c \in mask
        <5>1. Cardinality(mask \ {c}) = Cardinality(mask) - 1
          BY <4>1, CPUSubset, FS_RemoveElement
        <5>2. Cardinality(mask) \in Nat
          BY CPUSubset
        <5>3. ASSUME NEW d \in CPU, Syncing(d)' PROVE SyncAccounts(d)'
          <6>1. Syncing(d) /\ SyncAccounts(d)
            BY <2>7, <4>1, <5>3 DEF CpuSyncLeave
          <6>2. count' + Cardinality(mask') = ncpus
            <7>1. count' = count + 1 /\ mask' = mask \ {c}
              BY <2>7, <4>1 DEF CpuSyncLeave
            <7>2. Cardinality(mask') = Cardinality(mask) - 1
              BY <5>1, <7>1
            <7>3. count + Cardinality(mask) = ncpus
              BY <6>1 DEF SyncAccounts
            <7> QED BY <5>2, <7>1, <7>2, <7>3, NcpusNat
          <6>3. (pc[d] = "relock" => mask = {})'
            BY <2>7, <4>1, <6>1 DEF CpuSyncLeave, SyncAccounts
          <6>4. \A t \in request[d] \ mask' : pc'[t] = "leave"
            BY <2>7, <4>1, <6>1 DEF CpuSyncLeave, SyncAccounts
          <6> QED BY <2>7, <4>1, <6>1, <6>2, <6>3, <6>4 DEF CpuSyncLeave, SyncAccounts
        <5> QED BY <5>3
      <4>2. CASE ~(count # 0 /\ c \in mask)
        BY <2>7, <4>2 DEF CpuSyncLeave, SyncAccounts
      <4> QED BY <4>1, <4>2
    <3> QED BY <1>1, <2>7, <3>1, <3>2 DEF CpuSyncLeave, PanicHoldsLock,
               OneSync, QuietCount, SyncCountExact
  <2>8. CASE CpuSyncResume(c)
    <3>1. \A d \in CPU : ~Syncing(d)
      <4> SUFFICES ASSUME NEW d \in CPU, Syncing(d) PROVE FALSE
        OBVIOUS
      <4>1. SyncAccounts(d) /\ d \notin mask
        BY DEF SyncAccounts
      <4>2. Cardinality(mask) < ncpus
        BY <4>1, CPUSubset
      <4> QED BY <2>8, <4>1, <4>2, CPUSubset, NcpusNat DEF CpuSyncResume, SyncAccounts
    <3> QED BY <1>1, <2>8, <3>1 DEF CpuSyncResume, PanicHoldsLock, OneSync,
               QuietCount, SyncCountExact
  <2>9. CASE Panic(c)
    <3>1. Accounts'
      BY <2>9 DEF Panic, SyncAccounts
    <3> QED BY <1>1, <2>9, <3>1 DEF Panic, PanicHoldsLock, OneSync,
               QuietCount, SyncCountExact, MutualExclusion
  <2>10. CASE PanicReport(c)
    <3>1. Accounts'
      BY <2>10 DEF PanicReport, SyncAccounts
    <3> QED BY <1>1, <2>10, <3>1 DEF PanicReport, PanicHoldsLock, OneSync,
               QuietCount, SyncCountExact, MutualExclusion
  <2> QED BY <1>3, <2>1, <2>2, <2>3, <2>4, <2>5, <2>6, <2>7, <2>8, <2>9, <2>10
             DEF Step
<1> QED BY <1>2, <1>3 DEF Next

\* SyncInv holds of every state when calls of cpu_sync do not overlap.
LEMMA SyncInvHolds ==
  ASSUME Overlap = FALSE
  PROVE  Spec => []SyncInv
<1>1. Init => SyncInv
  BY KernelLockAssumption DEF Init, SyncInv, TypeOK, Location, MutualExclusion,
     PanicHoldsLock, OneSync, Syncing, QuietCount, SyncCountExact
<1>2. SyncInv /\ [Next]_vars => SyncInv'
  BY SyncInvariance
<1> QED BY <1>1, <1>2, PTL DEF Spec

\* The assertion at the end of cpu_sync never fails when calls do not overlap,
\* for any number of CPUs and of calls: once it has the lock back, all g_ncpus
\* CPUs are counted.
THEOREM SyncAssertionHolds ==
  ASSUME Overlap = FALSE
  PROVE  Spec => []SyncCountExact
<1>1. SyncInv => SyncCountExact
  BY DEF SyncInv
<1> QED BY <1>1, SyncInvHolds, PTL

\* cpu_sync keeps its promise when calls do not overlap, for any number of CPUs
\* and of calls: when its spin is over every CPU it was given is held at its
\* return to userland.
THEOREM SyncRendezvous ==
  ASSUME Overlap = FALSE
  PROVE  Spec => []SyncStopsTargets
<1>1. SyncInv => SyncStopsTargets
  BY DEF SyncInv, SyncStopsTargets, Syncing, SyncAccounts
<1> QED BY <1>1, SyncInvHolds, PTL
=============================================================================
