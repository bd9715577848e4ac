---------------------------- MODULE LockService -----------------------------
(* What a sleeping lock of the kernel promises to its callers, whatever its  *)
(* queues: one thread owns it exclusively, or a set of threads shares it.    *)
(* kern/mutex.c promises the exclusive half, kern/rwlock.c both.             *)
EXTENDS Naturals

CONSTANTS Thread, None

VARIABLES
    writer,     \* the thread that owns the lock exclusively, or None
    level,      \* how many times it has taken it
    readers,    \* the threads that share it
    blocked     \* the threads asleep inside a lock call

lvars == <<writer, level, readers, blocked>>

Free == writer = None /\ readers = {}

LInit == Free /\ level = 0 /\ blocked = {}

\* An exclusive lock call returns: the lock was free, or already the caller's.
GrantExclusive(t) ==
    /\ Free \/ writer = t
    /\ writer' = t
    /\ level' = level + 1
    /\ blocked' = blocked \ {t}
    /\ UNCHANGED readers

\* A shared lock call returns: nobody owns the lock exclusively.
GrantShared(t) ==
    /\ writer = None
    /\ readers' = readers \cup {t}
    /\ blocked' = blocked \ {t}
    /\ UNCHANGED <<writer, level>>

\* A lock call goes to sleep.
Block(t) ==
    /\ t \notin readers \cup {writer}
    /\ blocked' = blocked \cup {t}
    /\ UNCHANGED <<writer, level, readers>>

\* The owner gives one level back; the last one frees the lock.
ReleaseExclusive(t) ==
    /\ writer = t
    /\ level' = level - 1
    /\ writer' = IF level = 1 THEN None ELSE t
    /\ UNCHANGED <<readers, blocked>>

ReleaseShared(t) ==
    /\ t \in readers
    /\ readers' = readers \ {t}
    /\ UNCHANGED <<writer, level, blocked>>

\* A thread killed in its sleep is not granted anything any more.
Abandon(t) ==
    /\ t \in blocked
    /\ blocked' = blocked \ {t}
    /\ UNCHANGED <<writer, level, readers>>

LNext == \E t \in Thread :
    \/ GrantExclusive(t) \/ GrantShared(t) \/ Block(t)
    \/ ReleaseExclusive(t) \/ ReleaseShared(t) \/ Abandon(t)

LSpec == LInit /\ [][LNext]_lvars
=============================================================================
