----------------------------- MODULE LockDepth ------------------------------
(* The bound on the nested calls of a thread, for the locks that count them. *)
EXTENDS LockThreads

CONSTANT
    MaxDepth    \* bound: nested locks of a thread; 1 for a lock that is not recursive

ASSUME DepthAssumption == MaxDepth \in Nat \ {0}
=============================================================================
