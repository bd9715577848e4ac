---------------------------- MODULE LockThreads -----------------------------
(* The threads that call the locks of the kernel and of libpthread.          *)
EXTENDS Naturals, FiniteSets

CONSTANTS
    Thread,
    None        \* no thread: a NULL owner

ASSUME ThreadAssumption == IsFiniteSet(Thread) /\ None \notin Thread
=============================================================================
