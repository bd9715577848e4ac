------------------------------ MODULE Processes ------------------------------
(* The life cycle of processes: clone and vfork, exit, stop, wait4, process   *)
(* groups and sessions (kern/proc.c, kern/syscall.c). Process p has the pid p *)
(* and the threads <<p, 1>>, its leader, <<p, 2>>, ... Handlers are atomic up *)
(* to their sleeps in wait4 and vfork and to cpu_sync in proc_exit. How its   *)
(* threads are scheduled is the subject of Threads.                           *)
EXTENDS Queues, FiniteSets

LOCAL INSTANCE SequencesExt

CONSTANTS
    MaxProc,        \* bound: pids given out
    MaxThread,      \* bound: threads of a process
    MaxSess,        \* bound: sessions made
    Threaded,       \* processes that clone threads
    Vforks,         \* processes that call vfork
    Grouping,       \* processes that call setpgid and setsid
    Stops,          \* processes that are stopped
    WaitKinds,      \* what wait4 is called for: "pid", "tid", "any", "grp"
    MayNotHang,     \* whether it is called with WNOHANG
    MayFail         \* whether thread_dup may run out of memory

VARIABLES
    k,              \* the kernel's structures
    broken          \* "no"; "freed" or "rusage": freed memory was used; "panic"

pvars == <<k, broken>>

Proc == 1..MaxProc
Thr == 1..MaxThread
Init1 == 1

NoCall == [kind |-> "none", of |-> 0, untraced |-> FALSE]
NoThread == [st |-> "none", waitable |-> FALSE, call |-> NoCall]
NewThread == [NoThread EXCEPT !.st = "run"]
NoProc == [st |-> "none", parent |-> 0, kids |-> <<>>, pgrp |-> 0, vfork |-> 0]
NoGroup == [sess |-> 0, refs |-> 0, members |-> <<>>]

\* proc_create of init, in a session and a group of its own
Init ==
    /\ k = [proc |-> [p \in Proc |-> IF p = Init1 THEN [NoProc EXCEPT !.st = "ALIVE", !.pgrp = 1]
                                                  ELSE NoProc],
            th |-> [p \in Proc |-> [t \in Thr |-> IF p = Init1 /\ t = 1 THEN NewThread
                                                                       ELSE NoThread]],
            grp |-> [g \in Proc |-> IF g = 1 THEN [sess |-> 1, refs |-> 1, members |-> <<1>>]
                                             ELSE NoGroup],
            sess |-> <<[refs |-> 1, groups |-> {1}]>>,
            gwait |-> FALSE,    \* history: wait4 was called for a process group
            crossed |-> FALSE]  \* history: two uses of vfork_rel have met
    /\ broken = "no"

Exists(p) == k.proc[p].st \in {"ALIVE", "STOPPED", "ZOMBIE"}
Present(x, p, t) == x.th[p][t].st \notin {"none", "freed"}

\* A thread that can make a system call
Runs(p, t) == k.th[p][t].st = "run" /\ k.proc[p].st = "ALIVE"

Become(x) == k' = x /\ UNCHANGED broken
Break(x, how) == k' = x /\ broken' = how

------------------------------------------------------------------------------
\* Process groups and sessions

\* pgrp_free and sess_free. A thread that waits for its own group has no
\* reference to it.
Unref(x, g) ==
    LET y == [x EXCEPT !.grp[g].refs = @ - 1]
        s == x.grp[g].sess
        stale(c) == IF c.kind = "own" /\ c.of = g THEN [c EXCEPT !.kind = "stale"] ELSE c
    IN  IF y.grp[g].refs > 0 THEN y
        ELSE [y EXCEPT !.grp[g] = NoGroup,
                       !.sess[s] = [refs |-> @.refs - 1, groups |-> @.groups \ {g}],
                       !.th = [p \in Proc |-> [t \in Thr |->
                                  [x.th[p][t] EXCEPT !.call = stale(@)]]]]

\* pgrp_alloc
Alloc(x, g, s) ==
    [x EXCEPT !.grp[g] = [sess |-> s, refs |-> 1, members |-> <<>>],
              !.sess[s] = [refs |-> @.refs + 1, groups |-> @.groups \union {g}]]

\* Variant: the process takes no reference to its new group.
SetPgrpUncounted(x, p, g) ==
    LET old == x.proc[p].pgrp
        left == Unref([x EXCEPT !.grp[old].members = Unqueue(@, p)], old)
    IN  [left EXCEPT !.grp[g].members = Append(@, p), !.proc[p].pgrp = g]

\* proc_setpgrp
SetPgrp(x, p, g) ==
    LET old == x.proc[p].pgrp
        left == Unref([x EXCEPT !.grp[old].members = Unqueue(@, p)], old)
    IN  [left EXCEPT !.grp[g].members = Append(@, p), !.grp[g].refs = @ + 1, !.proc[p].pgrp = g]

\* sys_setpgid of the process or one of its children
Setpgid(p, q, g) ==
    /\ p \in Grouping /\ \E t \in Thr : Runs(p, t)
    /\ q \in {p} \union Range(k.proc[p].kids)
    /\ LET s == k.grp[k.proc[q].pgrp].sess
       IN  \/ /\ k.grp[g].refs > 0 /\ k.grp[g].sess = s
              /\ Become(Unref(SetPgrp([k EXCEPT !.grp[g].refs = @ + 1], q, g), g))
           \/ /\ k.grp[g].refs = 0
              /\ Become(Unref(SetPgrp(Alloc(k, g, s), q, g), g))

\* sys_setsid
Setsid(p) ==
    LET s == Len(k.sess) + 1
        x == [k EXCEPT !.sess = Append(@, [refs |-> 0, groups |-> {}])]
    IN  /\ p \in Grouping /\ \E t \in Thr : Runs(p, t)
        /\ k.grp[p].refs = 0 /\ s <= MaxSess
        /\ Become(Unref(SetPgrp(Alloc(x, p, s), p, p), p))

------------------------------------------------------------------------------
\* uproc_clone: proc_dup and thread_dup. If the second fails the new process
\* stays, without a thread.
Forked(p, n, ok) ==
    LET g == k.proc[p].pgrp
    IN  [k EXCEPT !.proc[n] = [NoProc EXCEPT !.st = "ALIVE", !.parent = p, !.pgrp = g],
                  !.proc[p].kids = Append(@, n),
                  !.grp[g] = [@ EXCEPT !.refs = @ + 1, !.members = Append(@, n)],
                  !.th[n][1] = IF ok THEN NewThread ELSE NoThread]

NextPid == {n \in Proc : k.proc[n].st = "none" /\ \A m \in 1..n - 1 : k.proc[m].st # "none"}

\* sys_clone of a process
Fork(p, t) ==
    \E n \in NextPid, ok \in {TRUE, ~MayFail} :
        /\ Runs(p, t)
        /\ Become(Forked(p, n, ok))

\* sys_clone with CLONE_VFORK: the thread sleeps until the child lets it go on.
Vfork(p, t) ==
    \E n \in NextPid :
        /\ Runs(p, t) /\ p \in Vforks
        /\ Become([Forked(p, n, TRUE) EXCEPT !.proc[n].vfork = p, !.proc[p].vfork = n,
                      !.crossed = @ \/ k.proc[p].vfork # 0,
                      !.th[p][t].st = "asleep", !.th[p][t].call.kind = "vfork"])

\* uthread_clone
CloneThread(p, t) ==
    /\ Runs(p, t) /\ p \in Threaded
    /\ \E u \in Thr : /\ k.th[p][u].st = "none" /\ \A v \in 1..u - 1 : k.th[p][v].st # "none"
                      /\ Become([k EXCEPT !.th[p][u] = NewThread])

\* proc_wakeup_vfork(q), called by p; the relation of p goes with that of q only
\* if they are each other's.
WakeupVfork(x, q) ==
    LET wake(r) == IF r.st = "asleep" /\ r.call.kind = "vfork" THEN [r EXCEPT !.st = "woken"] ELSE r
        y == [x EXCEPT !.th[q] = [t \in Thr |-> wake(x.th[q][t])]]
    IN  [y EXCEPT !.proc[x.proc[q].vfork].vfork = 0, !.proc[q].vfork = 0]

\* q is NULL in the relation that WakeupVfork follows.
VforkGone(p) == k.proc[p].vfork # 0 /\ k.proc[k.proc[p].vfork].vfork = 0

VforkReleased(x, p) == IF x.proc[p].vfork = 0 THEN x ELSE WakeupVfork(x, x.proc[p].vfork)

\* sys_execve, as far as the parent is concerned
Exec(p, t) ==
    /\ Runs(p, t) /\ k.proc[p].vfork # 0
    /\ IF VforkGone(p) THEN Break(k, "freed")
       ELSE Become([VforkReleased(k, p) EXCEPT
                       !.crossed = @ \/ k.proc[k.proc[p].vfork].parent = p])

------------------------------------------------------------------------------
InWait(r) == r.st = "asleep" /\ r.call.kind # "vfork"

\* Variant: the threads that wait are not woken.
WakeupWaitQuiet(x, q, p, t) == [x EXCEPT !.th[p][t].waitable = TRUE]

\* proc_wakeup_wait(q, <<p, t>>)
WakeupWait(x, q, p, t) ==
    LET y == [x EXCEPT !.th[p][t].waitable = TRUE]
        wake(r) == IF InWait(r) THEN [r EXCEPT !.st = "woken"] ELSE r
    IN  [y EXCEPT !.th[q] = [u \in Thr |-> wake(y.th[q][u])]]

\* thread_exit of a thread that is not the leader
ThreadExit(p, t) ==
    /\ t # 1 /\ Runs(p, t)
    /\ Become(WakeupWait([k EXCEPT !.th[p][t].st = "zombie"], p, p, t))

\* proc_exit up to cpu_sync. The calls its other threads sleep in never return.
Killed(p) ==
    [k EXCEPT !.proc[p].st = "ZOMBIE",
              !.th[p] = [t \in Thr |-> IF Present(k, p, t) THEN [@[t] EXCEPT !.st = "zombie"] ELSE @[t]]]

\* ... and from there on. Nobody else becomes the parent of the children.
Ended(x, p) ==
    IF VforkGone(p) \/ x.proc[x.proc[p].parent].st = "freed" THEN Break(k, "freed")
    ELSE Become(WakeupWait(VforkReleased(x, p), x.proc[p].parent, p, 1))

Exit(p, t) ==
    /\ p # Init1 /\ Runs(p, t)
    /\ \/ Ended(Killed(p), p)
       \/ /\ \E u \in Thr \ {t} : k.th[p][u].st = "run"
          /\ Become([Killed(p) EXCEPT !.th[p][t].call.kind = "exit"])

Exiting(p) == \E t \in Thr : k.th[p][t].call.kind = "exit"
ExitSynced(p) ==
    /\ Exiting(p)
    /\ IF k.proc[p].st = "freed" THEN Break(k, "freed")
       ELSE Ended([k EXCEPT !.th[p] = [t \in Thr |-> [@[t] EXCEPT !.call =
                                          IF @.kind = "exit" THEN NoCall ELSE @]]], p)

\* proc_stop and proc_cont
Stop(p) ==
    /\ p \in Stops /\ p # Init1 /\ \E t \in Thr : Runs(p, t)
    /\ IF k.proc[k.proc[p].parent].st = "freed" THEN Break(k, "freed")
       ELSE Become(WakeupWait([k EXCEPT !.proc[p].st = "STOPPED"], k.proc[p].parent, p, 1))

Cont(p) ==
    /\ k.proc[p].st = "STOPPED"
    /\ Become([k EXCEPT !.proc[p].st = "ALIVE"])

------------------------------------------------------------------------------
\* wait_predicate
WaitPredicate(x, u, c) ==
    /\ x.th[u[1]][u[2]].waitable
    /\ x.proc[u[1]].st = "STOPPED" => c.untraced

\* proc_free, which leaves the children of p alone
ProcFree(x, p) ==
    LET g == x.proc[p].pgrp
        q == x.proc[p].parent
        y == [x EXCEPT !.proc[q].kids = Unqueue(@, p), !.proc[p].st = "freed",
                       !.grp[g].members = Unqueue(@, p),
                       !.th[p] = [t \in Thr |-> IF x.th[p][t].st = "none" THEN @[t]
                                                ELSE [@[t] EXCEPT !.st = "freed", !.waitable = FALSE]]]
    IN  Unref(y, g)

\* The threads of some processes, in the order in which wait4 looks at them
ThreadsOf(x, ps) ==
    FlattenSeq([i \in DOMAIN ps |->
        SelectSeq([t \in Thr |-> <<ps[i], t>>], LAMBDA u : Present(x, u[1], u[2]))])

FirstOf(q) == IF q = <<>> THEN <<>> ELSE <<Head(q)>>

\* wait_pgrp leaves its loop behind the first process of the group, whoever's
\* child that is.
Candidates(x, p, c) ==
    CASE c.kind = "pid" -> <<<<c.of, 1>>>>
      [] c.kind = "tid" -> <<<<p, c.of>>>>
      [] c.kind = "any" -> ThreadsOf(x, x.proc[p].kids \o <<p>>)
      [] c.kind \in {"own", "grp"} -> ThreadsOf(x, FirstOf(x.grp[c.of].members))

\* What the call is about to use is gone.
Gone(p, c) ==
    \/ c.kind = "stale"
    \/ c.kind = "pid" /\ (~Exists(c.of) \/ k.th[c.of][1].st = "none")
    \/ c.kind = "tid" /\ ~Present(k, p, c.of)

\* The call returns, a wait for another group with the reference given back.
Return(x, p, t) ==
    LET c == x.th[p][t].call
        y == [x EXCEPT !.th[p][t] = [@ EXCEPT !.st = "run", !.call = NoCall]]
    IN  IF c.kind = "grp" THEN Unref(y, c.of) ELSE y

\* sys_wait4 from end: on, with the thread it has found
Reported(x, u) ==
    LET q == u[1]
    IN  CASE x.proc[q].st = "ZOMBIE" -> ProcFree(x, q)
          [] x.proc[q].st # "ZOMBIE" /\ x.th[q][u[2]].st = "zombie" ->
                [x EXCEPT !.th[q][u[2]].st = "freed"]
          [] OTHER -> x

\* One pass of the loops of wait4. With WNOHANG wait_proc reports the child
\* whether or not its state has changed. A caller that asks for the rusage of a
\* child that has ended has it read from the process just freed.
Pass(x, p, t, nohang) ==
    LET c == x.th[p][t].call
        hits == SelectSeq(Candidates(x, p, c), LAMBDA u : WaitPredicate(x, u, c))
        seen == IF nohang /\ c.kind \in {"pid", "tid"} THEN Candidates(x, p, c) ELSE hits
    IN  \/ /\ seen # <<>>
           /\ LET u == seen[1]
                  y == IF hits = <<>> THEN x ELSE [x EXCEPT !.th[u[1]][u[2]].waitable = FALSE]
                  ended == x.proc[u[1]].st = "ZOMBIE"
              IN  IF ended /\ x.proc[x.proc[u[1]].parent].st = "freed" THEN Break(x, "freed")
                  ELSE \/ Become(Reported(Return(y, p, t), u))
                       \/ ended /\ Break(Reported(Return(y, p, t), u), "rusage")
        \/ seen = <<>> /\ nohang /\ Become(Return(x, p, t))
        \/ seen = <<>> /\ ~nohang /\ Become([x EXCEPT !.th[p][t].st = "asleep"])

Call(x, p, t, c) == [x EXCEPT !.th[p][t].call = c]
Nohang == {FALSE, MayNotHang}

\* sys_wait4 for a child, which may be stopped, or a thread
WaitPid(p, t) ==
    \E nohang \in Nohang, untraced \in BOOLEAN, kind \in WaitKinds \intersect {"pid", "tid"} :
    \E of \in IF kind = "pid" THEN Range(k.proc[p].kids) ELSE {u \in Thr \ {t} : Present(k, p, u)} :
        LET c == [kind |-> kind, of |-> of, untraced |-> untraced]
        IN  /\ Runs(p, t) /\ (untraced => Stops # {})
            /\ IF Gone(p, c) THEN Break(k, "freed") ELSE Pass(Call(k, p, t, c), p, t, nohang)

\* sys_wait4 for any child or thread
WaitAny(p, t) ==
    /\ Runs(p, t) /\ "any" \in WaitKinds
    /\ \E nohang \in Nohang : Pass(Call(k, p, t, [NoCall EXCEPT !.kind = "any"]), p, t, nohang)

\* sys_wait4 for the process group of the caller, or one that is named, with a
\* reference to it (-1 names no group). If the group has no process the first
\* pass finds child_thread uninitialized.
WaitGroup(p, t) ==
    LET x == [k EXCEPT !.gwait = TRUE]
        ref(g) == [x EXCEPT !.grp[g].refs = @ + 1]
    IN  /\ Runs(p, t) /\ "grp" \in WaitKinds
        /\ \E nohang \in Nohang, g \in {g \in Proc : k.grp[g].refs > 0} :
              LET c == [NoCall EXCEPT !.of = g]
              IN  \/ /\ g = k.proc[p].pgrp
                     /\ Pass(Call(x, p, t, [c EXCEPT !.kind = "own"]), p, t, nohang)
                  \/ g # 1 /\ Pass(Call(ref(g), p, t, [c EXCEPT !.kind = "grp"]), p, t, nohang)
                  \/ k.grp[g].members = <<>> /\ Break(x, "freed")

\* do_sleep returns. It panics in a process whose child is in vfork.
Resume(p, t) ==
    LET c == k.th[p][t].call
        v == k.proc[p].vfork
    IN  /\ k.th[p][t].st \in {"woken", "cut"} /\ k.proc[p].st = "ALIVE"
        /\ \/ v # 0 /\ k.proc[v].parent = p /\ Break(k, "panic")
           \/ /\ v # 0 => k.proc[v].parent # p
              /\ \/ (c.kind = "vfork" \/ k.th[p][t].st = "cut") /\ Become(Return(k, p, t))
                 \/ /\ c.kind # "vfork" /\ k.th[p][t].st = "woken"
                    /\ IF Gone(p, c) THEN Break(k, "freed") ELSE Pass(k, p, t, FALSE)

\* thread_signal of a thread that sleeps, with SIGCHLD or another signal
Interrupt(p, t) ==
    /\ k.th[p][t].st = "asleep" /\ k.proc[p].vfork = 0 /\ k.proc[p].st # "ZOMBIE"
    /\ Become([k EXCEPT !.th[p][t].st = "cut"])

Next ==
    /\ broken = "no"
    /\ \E p \in Proc :
          \/ \E t \in Thr :
                \/ Fork(p, t) \/ Vfork(p, t) \/ CloneThread(p, t) \/ Exec(p, t)
                \/ ThreadExit(p, t) \/ Exit(p, t)
                \/ WaitPid(p, t) \/ WaitAny(p, t) \/ WaitGroup(p, t)
                \/ Resume(p, t) \/ Interrupt(p, t)
          \/ ExitSynced(p) \/ Stop(p) \/ Cont(p) \/ Setsid(p)
          \/ \E q, g \in Proc : Setpgid(p, q, g)

Spec == Init /\ [][Next]_pvars

------------------------------------------------------------------------------
\* Threads that have a reference to a group, or were killed with it
Holding(g) == {u \in Proc \X Thr : k.th[u[1]][u[2]].call.kind = "grp" /\ k.th[u[1]][u[2]].call.of = g}

\* Every process is on the list of its parent, as long as that exists, and on
\* that of its group, once; lists hold no process that was freed. A group lives
\* as long as it has a process or a thread waits for it (one killed in its wait
\* keeps it for ever), and a session as long as it has a group.
TreeExact ==
    /\ \A p \in Proc :
          LET r == k.proc[p]
          IN  /\ Exists(p) => p \in Range(k.grp[r.pgrp].members)
              /\ Exists(p) /\ r.parent # 0 /\ Exists(r.parent) => p \in Range(k.proc[r.parent].kids)
              /\ Exists(p) => \A q \in Range(r.kids) : Exists(q) /\ k.proc[q].parent = p
              /\ IsInjective(r.kids)
    /\ \A g \in Proc :
          LET r == k.grp[g]
          IN  /\ r.refs = Len(r.members) + Cardinality(Holding(g))
              /\ IsInjective(r.members)
              /\ \A p \in Range(r.members) : Exists(p) /\ k.proc[p].pgrp = g
              /\ \A s \in DOMAIN k.sess : g \in k.sess[s].groups <=> r.sess = s
              /\ r.refs > 0 <=> r.sess # 0
    /\ \A s \in DOMAIN k.sess : k.sess[s].refs = Cardinality(k.sess[s].groups)

\* No use of freed memory and no panic, but for the rusage of a child, until a
\* process outlives its parent, has had several threads, was left behind by a
\* failed clone, or somebody waits for a process group.
SoundUnless ==
    broken \in {"freed", "panic"} =>
        \/ k.gwait
        \/ \E p \in Proc : \/ Exists(p) /\ k.proc[p].parent # 0 /\ ~Exists(k.proc[p].parent)
                           \/ MaxThread > 1 /\ k.th[p][2].st # "none"
                           \/ Exists(p) /\ k.th[p][1].st = "none"

\* No lost wakeup: nobody sleeps in wait4 for a child or thread, or for any child,
\* that has ended and was not reported; nor in vfork without a child that will end it
\* (until vfork is called where one is under way, by a second thread or by the
\* child, or another thread of the parent calls exec: vfork_rel has room for one).
WaitersTold ==
    \A p \in Proc, t \in Thr :
        LET c == k.th[p][t].call
            ended(q) == k.proc[q].st = "ZOMBIE" /\ k.th[q][1].waitable /\ ~Exiting(q)
        IN  k.th[p][t].st = "asleep" =>
              /\ c.kind = "pid" => ~ended(c.of)
              /\ c.kind = "tid" => ~(k.th[p][c.of].st = "zombie" /\ k.th[p][c.of].waitable)
              /\ c.kind = "any" => \A q \in Range(k.proc[p].kids) : ~ended(q)
              /\ c.kind = "vfork" /\ ~k.crossed =>
                    \E q \in Proc : k.proc[q].vfork = p /\ (k.proc[q].st # "ZOMBIE" \/ Exiting(q))
=============================================================================
