------------------------------ MODULE MCMutex -------------------------------
(* Mutex on four threads, recursive.                                         *)
EXTENDS Mutex
=============================================================================
