----------------------------- MODULE MCThreads ------------------------------
(* Threads on two CPUs: an init process of one thread and a child process of *)
(* up to two threads, or of one.                                             *)
EXTENDS Threads, TLC

CONSTANTS i0, i1, t1, t2, t3, p1, p2, wq1

MCIdle == 0 :> i0 @@ 1 :> i1
MCUser == {t1, t2, t3}
MCProcOf == t1 :> p1 @@ t2 :> p2 @@ t3 :> p2
MCThreads == p1 :> <<t1>> @@ p2 :> <<t2, t3>>
MCParent == p1 :> None @@ p2 :> p1
MCQueue == WaitQs \cup Proc \cup User

OneEachUser == {t1, t2}
OneEachThreads == p1 :> <<t1>> @@ p2 :> <<t2>>
=============================================================================
