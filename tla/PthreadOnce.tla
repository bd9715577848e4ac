---------------------------- MODULE PthreadOnce -----------------------------
(* pthread_once and call_once of lib/libpthread/src/once.c.                  *)
EXTENDS Naturals

CONSTANT Thread

VARIABLES
    value,      \* once->value
    pc,         \* where a thread is in pthread_once
    ran         \* how many times init() has run to its end

vars == <<value, pc, ran>>

\* PTHREAD_ONCE_INIT
Init ==
    /\ value = 0
    /\ pc = [t \in Thread |-> "out"]
    /\ ran = 0

Goto(t, l) == pc' = [pc EXCEPT ![t] = l]

\* Variant: a thread that finds init() under way returns at once.
OnceHasty(t) ==
    /\ pc[t] = "out"
    /\ value' = IF value = 0 THEN 1 ELSE value
    /\ Goto(t, IF value = 0 THEN "init" ELSE "done")
    /\ UNCHANGED ran

\* The exchange, and the test of what it found.
Once(t) ==
    /\ pc[t] = "out"
    /\ value' = IF value = 0 THEN 1 ELSE value
    /\ Goto(t, CASE value = 0 -> "init" [] value = 1 -> "wait" [] value = 2 -> "done")
    /\ UNCHANGED ran

\* init() runs.
RunInit(t) ==
    /\ pc[t] = "init"
    /\ ran' = ran + 1
    /\ Goto(t, "store")
    /\ UNCHANGED value

Store(t) ==
    /\ pc[t] = "store"
    /\ value' = 2
    /\ Goto(t, "wake")
    /\ UNCHANGED ran

\* FUTEX_WAKE of all the threads asleep on the value
WakeAll(t) ==
    /\ pc[t] = "wake"
    /\ pc' = [u \in Thread |-> IF u = t THEN "done" ELSE IF pc[u] = "asleep" THEN "test" ELSE pc[u]]
    /\ UNCHANGED <<value, ran>>

\* FUTEX_WAIT on 1: sleep, or EAGAIN, which returns
Wait(t) ==
    /\ pc[t] = "wait"
    /\ Goto(t, IF value = 1 THEN "asleep" ELSE "done")
    /\ UNCHANGED <<value, ran>>

\* EINTR: on to the condition of the loop
Interrupt(t) ==
    /\ pc[t] = "asleep"
    /\ Goto(t, "test")
    /\ UNCHANGED <<value, ran>>

\* The condition of the loop
Test(t) ==
    /\ pc[t] = "test"
    /\ Goto(t, IF value # 2 THEN "wait" ELSE "done")
    /\ UNCHANGED <<value, ran>>

Step(t) == RunInit(t) \/ Store(t) \/ WakeAll(t) \/ Wait(t) \/ Test(t)

Next == \E t \in Thread : Once(t) \/ Step(t) \/ Interrupt(t)

Spec == Init /\ [][Next]_vars

-----------------------------------------------------------------------------
\* Whoever returns from pthread_once finds init() run, to its end and once.
RunOnceBeforeReturn == ran <= 1 /\ \A t \in Thread : pc[t] = "done" => ran = 1
=============================================================================
