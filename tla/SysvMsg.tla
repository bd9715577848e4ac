------------------------------ MODULE SysvMsg -------------------------------
(* A System V message queue (kern/ipc.c) with its senders and receivers. As  *)
(* in SysvSem a call is atomic up to its sleep on rwaitq or wwaitq.          *)
EXTENDS Integers, Sequences, FiniteSets

LOCAL INSTANCE SequencesExt

CONSTANTS
    Thread,
    Message,    \* what may be sent: records of mtype and size
    Request,    \* what msgrcv may ask for: msgtyp, except, msgsz, noerror
    QBYTES,     \* msg_qbytes
    MaxSent     \* bound: messages sent in all

VARIABLES
    msg,        \* struct sysv_msg
    pc,         \* "idle", "snd", "rcv" (asleep), "woken", "failed", "spin"
    arg,        \* arg[t]: the message or the request of the call
    halted,     \* the kernel has panicked
    sent,       \* history: the types of the messages sent, in order
    got,        \* history: which of them were received
    late        \* history: threads already woken with 0 at IPC_RMID

mvars == <<msg, pc, arg, halted, sent, got, late>>

Absent == [exists |-> FALSE, removed |-> FALSE, refcount |-> 0,
           msgs |-> <<>>, cbytes |-> 0, qnum |-> 0]

NoArg == [nowait |-> TRUE]

Init ==
    /\ msg = Absent
    /\ pc = [t \in Thread |-> "idle"]
    /\ arg = [t \in Thread |-> NoArg]
    /\ halted = FALSE
    /\ sent = <<>> /\ got = {} /\ late = {}

------------------------------------------------------------------------------
\* waitq_broadcast of one of the two queues
Woken(p, queue, pc2) == [t \in Thread |-> IF p[t] = queue THEN pc2 ELSE p[t]]

\* msg_decref, with msg_free
Decref(m) ==
    IF m.refcount = 1 /\ m.removed THEN Absent ELSE [m EXCEPT !.refcount = @ - 1]

Return(t, m) ==
    /\ msg' = Decref(m)
    /\ arg' = [arg EXCEPT ![t] = NoArg]
    /\ late' = late \ {t}

\* The call ends without an effect on the queue.
Fail(t, m) ==
    /\ pc' = [pc EXCEPT ![t] = "idle"]
    /\ Return(t, m)
    /\ UNCHANGED <<halted, sent, got>>

Sleep(t, m, a, queue) ==
    /\ ~a.nowait
    /\ msg' = m
    /\ pc' = [pc EXCEPT ![t] = queue]
    /\ arg' = [arg EXCEPT ![t] = a]
    /\ UNCHANGED <<halted, sent, got, late>>

\* sys_msgsnd from its loop on. The message may also be lost to ENOMEM or to
\* a buffer that cannot be read.
SendTry(t, m, a) ==
    \/ /\ QBYTES - m.cbytes < a.size
       /\ Sleep(t, m, a, "snd") \/ (a.nowait /\ Fail(t, m))
    \/ /\ QBYTES - m.cbytes >= a.size
       /\ Fail(t, m)
    \/ /\ QBYTES - m.cbytes >= a.size /\ Len(sent) < MaxSent
       /\ sent' = Append(sent, a.mtype)
       /\ pc' = Woken([pc EXCEPT ![t] = "idle"], "rcv", "woken")
       /\ Return(t, [m EXCEPT !.msgs = Append(@, [mtype |-> a.mtype, size |-> a.size,
                                                  id |-> Len(sent) + 1]),
                              !.cbytes = @ + a.size,
                              !.qnum = @ + 1])
       /\ UNCHANGED <<halted, got>>

\* The test of each message: by msgtyp, with MSG_EXCEPT, up to -msgtyp, any.
Matches(b, a) ==
    CASE a.msgtyp > 0 -> IF a.except THEN b.mtype # a.msgtyp ELSE b.mtype = a.msgtyp
      [] a.msgtyp < 0 -> b.mtype <= -a.msgtyp
      [] OTHER -> TRUE

\* Variant: the newest message that matches.
FindLast(m, a) == SelectLastInSeq(m.msgs, LAMBDA b : Matches(b, a))

\* The place of the message msgrcv takes, 0 if there is none.
Find(m, a) == SelectInSeq(m.msgs, LAMBDA b : Matches(b, a))

\* Variant: what is subtracted is the length copied out.
ReceiveCopied(t, m, a, i) ==
    LET b == m.msgs[i]
    IN  /\ a.noerror \/ b.size <= a.msgsz
        /\ \/ /\ pc' = Woken([pc EXCEPT ![t] = "idle"], "snd", "woken")
              /\ got' = got \union {b.id}
              /\ Return(t, [m EXCEPT !.msgs = RemoveAt(@, i), !.qnum = @ - 1,
                                     !.cbytes = @ - IF b.size > a.msgsz THEN a.msgsz ELSE b.size])
              /\ UNCHANGED <<halted, sent>>
           \/ /\ halted' = TRUE
              /\ UNCHANGED <<msg, pc, arg, sent, got, late>>

\* sys_msgrcv takes the message at i. It reads buf->msgsz after free(buf): the
\* memory still holds it, or is no longer mapped and the read faults.
Receive(t, m, a, i) ==
    LET b == m.msgs[i]
    IN  /\ a.noerror \/ b.size <= a.msgsz
        /\ \/ /\ pc' = Woken([pc EXCEPT ![t] = "idle"], "snd", "woken")
              /\ got' = got \union {b.id}
              /\ Return(t, [m EXCEPT !.msgs = RemoveAt(@, i),
                                     !.cbytes = @ - b.size, !.qnum = @ - 1])
              /\ UNCHANGED <<halted, sent>>
           \/ /\ halted' = TRUE
              /\ UNCHANGED <<msg, pc, arg, sent, got, late>>

\* sys_msgrcv from its loop on. With messages in the queue and none that
\* matches it goes round its loop for ever, with the kernel lock.
ReceiveTry(t, m, a) ==
    \/ /\ m.qnum = 0
       /\ Sleep(t, m, a, "rcv") \/ (a.nowait /\ Fail(t, m))
    \/ /\ m.qnum # 0 /\ Find(m, a) # 0
       /\ Fail(t, m) \/ Receive(t, m, a, Find(m, a))
    \/ /\ m.qnum # 0 /\ Find(m, a) = 0
       /\ msg' = m
       /\ pc' = [pc EXCEPT ![t] = "spin"]
       /\ arg' = [arg EXCEPT ![t] = a]
       /\ UNCHANGED <<halted, sent, got, late>>

------------------------------------------------------------------------------
Running == ~halted /\ \A t \in Thread : pc[t] # "spin"

\* sys_msgget of a key that is not in use
Msgget ==
    /\ ~msg.exists
    /\ msg' = [Absent EXCEPT !.exists = TRUE]
    /\ sent' = <<>> /\ got' = {}
    /\ UNCHANGED <<pc, arg, halted, late>>

Held == [msg EXCEPT !.refcount = @ + 1]

Msgsnd(t) ==
    /\ pc[t] = "idle" /\ msg.exists /\ ~msg.removed
    /\ \E m \in Message, nowait \in BOOLEAN :
           SendTry(t, Held, [mtype |-> m.mtype, size |-> m.size, nowait |-> nowait])

Msgrcv(t) ==
    /\ pc[t] = "idle" /\ msg.exists /\ ~msg.removed
    /\ \E q \in Request, nowait \in BOOLEAN :
           ReceiveTry(t, Held, [msgtyp |-> q.msgtyp, except |-> q.except, msgsz |-> q.msgsz,
                                noerror |-> q.noerror, nowait |-> nowait])

IsSend(t) == "mtype" \in DOMAIN arg[t]

\* The calls behind their sleep
Resume(t) ==
    \/ pc[t] = "failed" /\ Fail(t, msg)
    \/ pc[t] = "woken" /\ IsSend(t) /\ SendTry(t, msg, arg[t])
    \/ pc[t] = "woken" /\ ~IsSend(t) /\ ReceiveTry(t, msg, arg[t])

\* A signal takes a sleeper off its queue.
Interrupt(t) ==
    /\ pc[t] \in {"snd", "rcv"}
    /\ pc' = [pc EXCEPT ![t] = "failed"]
    /\ UNCHANGED <<msg, arg, halted, sent, got, late>>

\* Variant: the senders are forgotten.
RmidReaders ==
    /\ msg.exists /\ ~msg.removed
    /\ pc' = Woken(pc, "rcv", "failed")
    /\ late' = {t \in Thread : pc[t] = "woken"}
    /\ msg' = Decref([Held EXCEPT !.removed = TRUE])
    /\ UNCHANGED <<arg, halted, sent, got>>

\* msgctl IPC_RMID
Rmid ==
    /\ msg.exists /\ ~msg.removed
    /\ pc' = Woken(Woken(pc, "rcv", "failed"), "snd", "failed")
    /\ late' = {t \in Thread : pc[t] = "woken"}
    /\ msg' = Decref([Held EXCEPT !.removed = TRUE])
    /\ UNCHANGED <<arg, halted, sent, got>>

\* After a panic, or with a thread spinning under the kernel lock, nothing moves.
Stuck == ~Running /\ UNCHANGED mvars

Next ==
    \/ Running /\ (Msgget \/ Rmid)
    \/ Running /\ \E t \in Thread : Msgsnd(t) \/ Msgrcv(t) \/ Resume(t) \/ Interrupt(t)
    \/ Stuck

Spec == Init /\ [][Next]_mvars

------------------------------------------------------------------------------
\* The accounts msgctl shows are exact: msg_qnum counts the messages queued and
\* msg_cbytes their bytes, which never exceed msg_qbytes; the queue lives as
\* long as a call has it.
AccountsExact ==
    /\ msg.qnum = Len(msg.msgs)
    /\ msg.cbytes = FoldLeft(LAMBDA n, b : n + b.size, 0, msg.msgs)
    /\ msg.cbytes <= QBYTES
    /\ msg.refcount = Cardinality({t \in Thread : pc[t] # "idle"})
    /\ msg.refcount > 0 => msg.exists

\* No lost wakeup: a sender sleeps only while its message does not fit, and a
\* receiver only while the queue is empty.
SleepersWait ==
    \A t \in Thread :
        /\ pc[t] = "snd" => QBYTES - msg.cbytes < arg[t].size
        /\ pc[t] = "rcv" => msg.qnum = 0

\* Every message sent is queued or received, never both and never twice, and
\* the messages of one type are received in the order they were sent, whichever
\* receivers ask for them and however (msgtyp, MSG_EXCEPT, any).
FifoPerType ==
    msg.exists =>
        LET queued == {msg.msgs[i].id : i \in DOMAIN msg.msgs}
        IN  /\ queued \intersect got = {}
            /\ queued \union got = DOMAIN sent
            /\ \A i, j \in DOMAIN sent : i < j /\ sent[i] = sent[j] /\ j \in got => i \in got

\* IPC_RMID ends every call that sleeps; only a thread that was already woken
\* when the queue was removed can go back to sleep on it.
RemovalWakes == msg.removed => {t \in Thread : pc[t] \in {"snd", "rcv"}} \subseteq late
==============================================================================
