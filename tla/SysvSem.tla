------------------------------ MODULE SysvSem -------------------------------
(* A set of System V semaphores (kern/ipc.c) and the threads that call       *)
(* semop on it. Each call is atomic up to its sleep: the kernel lock is      *)
(* dropped only in waitq_wait_tail_mutex, so the mutex of the set is never   *)
(* contended and is left out. Between the moment a sleeper is taken off the  *)
(* wait queue and the moment it runs, any other call may come.               *)
EXTENDS Integers, Sequences, FiniteSets

LOCAL INSTANCE SequencesExt

CONSTANTS
    Thread,
    Num,        \* indices of the semaphores of the set
    SEMVMX,     \* the largest value semop and SETVAL accept
    Sops,       \* the arrays of operations passed to semop
    SetAllMax   \* bound: the largest value SETALL writes; it checks no limit

VARIABLES
    sem,        \* struct sysv_sem, with exists once it is in the tables
    pc,         \* "idle", "asleep", or the reason it was woken for
    sops,       \* sops[t]: the operations of the call
    blocked,    \* blocked[t]: the operation counted in ncnt or zcnt
    late        \* history: threads already woken for another reason at IPC_RMID

svars == <<sem, pc, sops, blocked, late>>

Zero == [n \in Num |-> 0]

Absent == [exists |-> FALSE, removed |-> FALSE, refcount |-> 0,
           value |-> Zero, ncnt |-> Zero, zcnt |-> Zero]

Init ==
    /\ sem = Absent
    /\ pc = [t \in Thread |-> "idle"]
    /\ sops = [t \in Thread |-> <<>>]
    /\ blocked = [t \in Thread |-> 0]
    /\ late = {}

------------------------------------------------------------------------------
\* process_sops: r.processed operations done, then the one that cannot be.
ProcessSop(r, sop) ==
    LET v == r.value[sop.num]
        failed == IF sop.op = 0 /\ v # 0 THEN "EAGAIN"
                  ELSE IF sop.op < 0 /\ v < -sop.op THEN "EAGAIN"
                  ELSE IF sop.op > 0 /\ sop.op > SEMVMX - v THEN "ERANGE" ELSE "0"
    IN  IF r.ret # "0" THEN r
        ELSE IF failed # "0" THEN [r EXCEPT !.ret = failed]
        ELSE [r EXCEPT !.value[sop.num] = @ + sop.op, !.processed = @ + 1]

ProcessSops(value, s) ==
    FoldLeft(ProcessSop, [value |-> value, processed |-> 0, ret |-> "0"], s)

\* Variant: the operation that failed is taken back too.
RollbackSopsAll(value, s, n) ==
    [i \in Num |-> value[i] - FoldLeft(LAMBDA x, sop : IF sop.num = i THEN x + sop.op ELSE x,
                                       0, SubSeq(s, 1, n + 1))]

RollbackSops(value, s, n) ==
    [i \in Num |-> value[i] - FoldLeft(LAMBDA x, sop : IF sop.num = i THEN x + sop.op ELSE x,
                                       0, SubSeq(s, 1, n))]

------------------------------------------------------------------------------
Asleep == {t \in Thread : pc[t] = "asleep"}

\* waitq_broadcast
Woken(p, reason) == [t \in Thread |-> IF p[t] = "asleep" THEN reason ELSE p[t]]

\* sem_decref, with sem_free
Decref(s) ==
    IF s.refcount = 1 /\ s.removed THEN Absent ELSE [s EXCEPT !.refcount = @ - 1]

\* ncnt or zcnt of the semaphore the operation sop waits for
Count(s, sop, d) ==
    IF sop.op # 0 THEN [s EXCEPT !.ncnt[sop.num] = @ + d]
                  ELSE [s EXCEPT !.zcnt[sop.num] = @ + d]

Return(t, s) ==
    /\ sem' = Decref(s)
    /\ sops' = [sops EXCEPT ![t] = <<>>]
    /\ blocked' = [blocked EXCEPT ![t] = 0]
    /\ late' = late \ {t}

\* One turn of the loop of sys_semtimedop on the set s.
Attempt(t, ops, s) ==
    LET r == ProcessSops(s.value, ops)
        back == [s EXCEPT !.value = RollbackSops(r.value, ops, r.processed)]
        sop == ops[r.processed + 1]
    IN  \/ /\ r.ret = "0"
           /\ pc' = Woken([pc EXCEPT ![t] = "idle"], "0")
           /\ Return(t, [s EXCEPT !.value = r.value])
        \/ /\ r.ret = "ERANGE" \/ (r.ret = "EAGAIN" /\ sop.nowait)
           /\ pc' = [pc EXCEPT ![t] = "idle"]
           /\ Return(t, back)
        \/ /\ r.ret = "EAGAIN" /\ ~sop.nowait
           /\ pc' = [pc EXCEPT ![t] = "asleep"]
           /\ sem' = Count(back, sop, 1)
           /\ sops' = [sops EXCEPT ![t] = ops]
           /\ blocked' = [blocked EXCEPT ![t] = r.processed + 1]
           /\ UNCHANGED late

\* sys_semget of a key that is not in use, or of IPC_PRIVATE: sem_alloc takes
\* the first reference and the end of the call drops it.
Semget ==
    /\ ~sem.exists
    /\ sem' = [Absent EXCEPT !.exists = TRUE]
    /\ UNCHANGED <<pc, sops, blocked, late>>

\* sys_semtimedop. On a set that is gone or removed the call changes nothing.
Semop(t) ==
    /\ pc[t] = "idle" /\ sem.exists /\ ~sem.removed
    /\ \E ops \in Sops : Attempt(t, ops, [sem EXCEPT !.refcount = @ + 1])

\* sys_semtimedop behind its sleep
Resume(t) ==
    LET s == Count(sem, sops[t][blocked[t]], -1)
    IN  /\ pc[t] \notin {"idle", "asleep"}
        /\ \/ /\ pc[t] = "0" /\ Attempt(t, sops[t], s)
           \/ /\ pc[t] # "0"
              /\ pc' = [pc EXCEPT ![t] = "idle"]
              /\ Return(t, s)

\* A signal or the timeout of the call takes a sleeper off the queue.
Wakeup(t) ==
    /\ pc[t] = "asleep"
    /\ \E reason \in {"EINTR", "EAGAIN"} : pc' = [pc EXCEPT ![t] = reason]
    /\ UNCHANGED <<sem, sops, blocked, late>>

\* semctl SETVAL and SETALL: sleepers are woken if a value changed.
Set(value) ==
    /\ sem.exists /\ ~sem.removed /\ value # sem.value
    /\ sem' = [sem EXCEPT !.value = value]
    /\ pc' = Woken(pc, "0")
    /\ UNCHANGED <<sops, blocked, late>>

SetVal == \E n \in Num, v \in 0..SEMVMX : Set([sem.value EXCEPT ![n] = v])

SetAll == \E value \in [Num -> 0..SetAllMax] : Set(value)

\* semctl IPC_RMID
Rmid ==
    /\ sem.exists /\ ~sem.removed
    /\ pc' = Woken(pc, "EIDRM")
    /\ late' = {t \in Thread : pc[t] \notin {"idle", "asleep"}}
    /\ sem' = Decref([sem EXCEPT !.removed = TRUE, !.refcount = @ + 1])
    /\ UNCHANGED <<sops, blocked>>

Next ==
    \/ \E t \in Thread : Semop(t) \/ Resume(t) \/ Wakeup(t)
    \/ Semget \/ SetVal \/ SetAll \/ Rmid

Spec == Init /\ [][Next]_svars

------------------------------------------------------------------------------
\* sys_semtimedop: all the operations of a call are done, each at the value
\* the ones before it leave, or none is: what rollback_sops takes back is what
\* process_sops had done when it failed.
AllOrNothing ==
    \A ops \in Sops :
        LET r == ProcessSops(sem.value, ops)
            total(n) == FoldLeft(LAMBDA x, sop : IF sop.num = n THEN x + sop.op ELSE x, 0, ops)
        IN  IF r.ret = "0" THEN \A n \in Num : r.value[n] = sem.value[n] + total(n)
            ELSE RollbackSops(r.value, ops, r.processed) = sem.value

\* No lost wakeup: a thread that is still on the wait queue has a call that
\* cannot be done with the values of now, whatever other calls, SETVAL, SETALL,
\* signals and timeouts have done since it fell asleep.
SleepersBlocked == \A t \in Asleep : ProcessSops(sem.value, sops[t]).ret = "EAGAIN"

\* semctl reads ncnt and zcnt: they count the calls that sleep, or have been
\* woken and not run yet, for a rise and for zero; and the set lives as long as
\* a call holds a reference, so that waitq_destroy never meets a sleeper.
CountsExact ==
    LET busy == {t \in Thread : pc[t] # "idle"}
        waits(n, zero) == {t \in busy : LET sop == sops[t][blocked[t]]
                                        IN  sop.num = n /\ (sop.op = 0 <=> zero)}
    IN  /\ sem.refcount = Cardinality(busy)
        /\ busy # {} => sem.exists
        /\ \A n \in Num : /\ sem.ncnt[n] = Cardinality(waits(n, FALSE))
                          /\ sem.zcnt[n] = Cardinality(waits(n, TRUE))

\* IPC_RMID ends every semop that sleeps: a thread is found asleep on a removed
\* set only if it had been woken, for another reason, when the set was removed,
\* and went back to sleep when it ran (kern/ipc.c:1073; the loop does not look
\* at removed again). Such a thread sleeps until a signal or its timeout.
RemovalWakes == sem.removed => Asleep \subseteq late
==============================================================================
