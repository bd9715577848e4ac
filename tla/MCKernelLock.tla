---------------------------- MODULE MCKernelLock ----------------------------
(* KernelLock on three CPUs.                                                 *)
EXTENDS KernelLock
=============================================================================
