-------------------------------- MODULE Pipe --------------------------------
(* Pipes: kern/pipe.c over kern/pipebuf.c, with the pollers of kern/poll.c.  *)
(* A call holds the mutex of the pipe (active) until it sleeps or returns;   *)
(* the loops of pipebuf_read_locked and pipebuf_write_locked take one step   *)
(* per pass.  The wait queues are only ever broadcast to, so a queue is the  *)
(* set of the calls that sleep on it.                                        *)
EXTENDS RingBuf, FiniteSets

CONSTANTS
    Thread,
    Readers,    \* threads whose file is open for reading; Readers \cup Writers = Thread
    Writers,    \* threads whose file is open for writing
    NonBlock,   \* threads whose file has O_NONBLOCK
    Pollers,    \* threads that call poll
    Counts,     \* the sizes of the requests
    PipeBuf,    \* PIPE_BUF
    Numbers,    \* bound: the bytes of a writer are numbered modulo this, at least Size;
                \* Byte = Writers \X (0..Numbers - 1)
    MayFault,   \* whether user buffers may be unmapped in part
    Named,      \* whether the pipe has a name and may be opened again
    None

VARIABLES
    rb,         \* pipebuf.ringbuf
    nreaders,   \* pipebuf.nreaders
    nwriters,   \* pipebuf.nwriters
    open,       \* the threads that have their file open
    op,         \* the system call of each thread
    active,     \* the thread that holds pipe->mutex
    sent,       \* how many bytes each writer has put in, modulo Numbers
    got         \* how many of them have come out, modulo Numbers

vars == <<rb, nreaders, nwriters, open, op, active, sent, got>>

Event == {"in", "out", "err", "hup"}

\* A call: what is left to move, how much of that is mapped (good), what was
\* moved, and for poll the events waited for and those that came.
Call == [kind : {"none", "read", "write", "poll"}, st : {"run", "sleep", "woken", "intr"},
         left : Nat, good : Nat, done : Nat, ev : SUBSET Event, rev : SUBSET Event]

NoCall == [kind |-> "none", st |-> "run", left |-> 0, good |-> 0, done |-> 0,
           ev |-> {}, rev |-> {}]

\* fifo_alloc, and the fork that leaves each thread with one end
Init ==
    /\ rb = Empty([i \in Pos |-> CHOOSE b \in Byte : TRUE])
    /\ nreaders = Cardinality(Readers)
    /\ nwriters = Cardinality(Writers)
    /\ open = Thread
    /\ op = [t \in Thread |-> NoCall]
    /\ active = None
    /\ sent = [w \in Writers |-> 0]
    /\ got = [w \in Writers |-> 0]

\* How much of a user buffer of n bytes is mapped.
Mapped(n) == IF MayFault THEN 0..n ELSE {n}

-----------------------------------------------------------------------------
\* Variant: only sleeping writers are woken.
BroadcastWriters(o, kind) ==
    [t \in Thread |-> IF o[t].kind = "write" /\ kind = "write" /\ o[t].st = "sleep"
                      THEN [o[t] EXCEPT !.st = "woken"] ELSE o[t]]

\* waitq_broadcast on rwaitq or wwaitq
Broadcast(o, kind) ==
    [t \in Thread |-> IF o[t].kind = kind /\ o[t].st = "sleep"
                      THEN [o[t] EXCEPT !.st = "woken"] ELSE o[t]]

\* Variant: the end of the other side is not announced.
PollerBroadcastData(o, e) ==
    [t \in Thread |-> IF o[t].kind = "poll" /\ e \in o[t].ev \cap {"in", "out"}
                      THEN [o[t] EXCEPT !.rev = @ \cup {e},
                                        !.st = IF @ = "sleep" THEN "woken" ELSE @]
                      ELSE o[t]]

\* poller_broadcast
PollerBroadcast(o, e) ==
    [t \in Thread |-> IF o[t].kind = "poll" /\ e \in o[t].ev
                      THEN [o[t] EXCEPT !.rev = @ \cup {e},
                                        !.st = IF @ = "sleep" THEN "woken" ELSE @]
                      ELSE o[t]]

\* The call of t returns; pollers are told of e if it returns a positive count.
Finish(t, o, positive, e) ==
    /\ op' = [(IF positive THEN PollerBroadcast(o, e) ELSE o) EXCEPT ![t] = NoCall]
    /\ active' = None

Idle(t) == active = None /\ op[t].kind = "none"

InCall(t, kind) == active = t /\ op[t].kind = kind

FallAsleep(t) ==
    /\ op' = [op EXCEPT ![t].st = "sleep"]
    /\ active' = None

Files == <<nreaders, nwriters, open>>

-----------------------------------------------------------------------------
\* pipe_read up to the loop of pipebuf_read_locked
Read(t, n, good) ==
    /\ Idle(t)
    /\ t \in open \cap Readers
    /\ op' = [op EXCEPT ![t] = [NoCall EXCEPT !.kind = "read", !.left = n, !.good = good]]
    /\ active' = t
    /\ UNCHANGED <<rb, Files, sent, got>>

\* The loop ends: all was read, or the buffer is empty and there is something
\* to return, no writer left, or no waiting allowed.
ReadEnd(t) ==
    /\ InCall(t, "read")
    /\ \/ op[t].left = 0
       \/ ReadSize(rb) = 0 /\ (nwriters = 0 \/ op[t].done > 0 \/ t \in NonBlock)
    /\ Finish(t, op, op[t].done > 0, "out")
    /\ UNCHANGED <<rb, Files, sent, got>>

ReadSleep(t) ==
    /\ InCall(t, "read")
    /\ op[t].left > 0 /\ op[t].done = 0
    /\ ReadSize(rb) = 0
    /\ nwriters > 0 /\ t \notin NonBlock
    /\ FallAsleep(t)
    /\ UNCHANGED <<rb, Files, sent, got>>

\* How much of a transfer of n bytes happens in two passes, the first of m, when
\* good bytes are mapped: a pass that does not fit fails as a whole.
Moved(n, m, good) == IF n <= good THEN n ELSE IF m <= good THEN m ELSE 0

\* What the call of t is after it has moved n of the total bytes: a fault makes
\* it return an error, which no poller hears of.
AfterCopy(o, t, total, n) ==
    IF n < total
    THEN /\ op' = [o EXCEPT ![t] = NoCall]
         /\ active' = None
    ELSE /\ op' = [o EXCEPT ![t].left = @ - n, ![t].good = @ - n, ![t].done = @ + n]
         /\ UNCHANGED active

\* A pass of the loop: ringbuf_readuio, then the writers are woken.
ReadCopy(t) ==
    /\ InCall(t, "read")
    /\ op[t].left > 0
    /\ ReadSize(rb) > 0
    /\ LET total == Least(Least(op[t].left, PipeBuf), ReadSize(rb))
           n == Moved(total, Least(total, ContiguousReadSize(rb)), op[t].good)
           bytes == RingReadBytes(rb, n)
       IN  /\ rb' = RingRead(rb, n)
           /\ got' = [w \in Writers |->
                        (got[w] + Len(SelectSeq(bytes, LAMBDA b : b[1] = w))) % Numbers]
           /\ AfterCopy(Broadcast(op, "write"), t, total, n)
    /\ UNCHANGED <<Files, sent>>

\* pipe_write up to the loop of pipebuf_write_locked; -EPIPE without a reader
Write(t, n, good) ==
    /\ Idle(t)
    /\ t \in open \cap Writers
    /\ nreaders > 0
    /\ op' = [op EXCEPT ![t] = [NoCall EXCEPT !.kind = "write", !.left = n, !.good = good]]
    /\ active' = t
    /\ UNCHANGED <<rb, Files, sent, got>>

WriteEnd(t) ==
    /\ InCall(t, "write")
    /\ op[t].left = 0 \/ (WriteSize(rb) = 0 /\ (nreaders = 0 \/ t \in NonBlock))
    /\ Finish(t, op, op[t].done > 0, "in")
    /\ UNCHANGED <<rb, Files, sent, got>>

WriteSleep(t) ==
    /\ InCall(t, "write")
    /\ op[t].left > 0
    /\ WriteSize(rb) = 0
    /\ nreaders > 0 /\ t \notin NonBlock
    /\ FallAsleep(t)
    /\ UNCHANGED <<rb, Files, sent, got>>

\* The next n bytes of writer w.
NextBytes(w, n) == [i \in 1..n |-> <<w, (sent[w] + i - 1) % Numbers>>]

\* A pass of the loop: ringbuf_writeuio, then the readers are woken.
WriteCopy(t) ==
    /\ InCall(t, "write")
    /\ op[t].left > 0
    /\ WriteSize(rb) > 0
    /\ LET s == NextBytes(t, Least(op[t].left, PipeBuf))
           total == WrittenLen(rb, s)
           n == Moved(total, WriteLen(rb, s), op[t].good)
       IN  /\ rb' = RingWrite(rb, SubSeq(s, 1, n))
           /\ sent' = [sent EXCEPT ![t] = (@ + n) % Numbers]
           /\ AfterCopy(Broadcast(op, "read"), t, total, n)
    /\ UNCHANGED <<Files, got>>

\* A call goes on after waitq_wait_head_mutex or waitq_wait_tail_mutex.
Resume(t) ==
    /\ active = None
    /\ op[t].kind \in {"read", "write"} /\ op[t].st = "woken"
    /\ op' = [op EXCEPT ![t].st = "run"]
    /\ active' = t
    /\ UNCHANGED <<rb, Files, sent, got>>

\* A signal ends the sleep of a call (thread_signal).
Interrupt(t) ==
    /\ active = None
    /\ op[t].st = "sleep"
    /\ op' = [op EXCEPT ![t].st = "intr"]
    /\ UNCHANGED <<rb, Files, active, sent, got>>

\* -EINTR, or what was moved before
Interrupted(t) ==
    /\ active = None
    /\ op[t].kind \in {"read", "write"} /\ op[t].st = "intr"
    /\ Finish(t, op, op[t].done > 0, IF op[t].kind = "read" THEN "out" ELSE "in")
    /\ UNCHANGED <<rb, Files, sent, got>>

-----------------------------------------------------------------------------
\* pipebuf_poll_locked
PollEvents(want) ==
    {e \in Event : \/ e = "in" /\ "in" \in want /\ ReadSize(rb) > 0
                   \/ e = "hup" /\ "in" \in want /\ nwriters = 0
                   \/ e = "out" /\ "out" \in want /\ WriteSize(rb) > 0
                   \/ e = "err" /\ "out" \in want /\ nreaders = 0}

\* sys_ppoll on the file of t: pipe_poll finds nothing, poller_add, poller_wait
Poll(t, want) ==
    /\ Idle(t)
    /\ t \in open \cap Pollers
    /\ PollEvents(want) = {}
    /\ op' = [op EXCEPT ![t] = [NoCall EXCEPT !.kind = "poll", !.st = "sleep",
                                              !.ev = want \cup {"err", "hup"}]]
    /\ UNCHANGED <<rb, Files, active, sent, got>>

\* poller_wait returns, poller_destroy
PollEnd(t) ==
    /\ active = None
    /\ op[t].kind = "poll" /\ op[t].st \in {"woken", "intr"}
    /\ op' = [op EXCEPT ![t] = NoCall]
    /\ UNCHANGED <<rb, Files, active, sent, got>>

\* Variant: a file open both ways only counts as a reader when it goes.
LessFirst(n, t, side) == IF t \in side /\ (side = Readers \/ t \notin Readers) THEN n - 1 ELSE n

\* One file less at a side of the pipe, if t has its file open for it.
Less(n, t, side) == IF t \in side THEN n - 1 ELSE n

\* file_free of the last reference: pipe_release
Close(t) ==
    /\ Idle(t)
    /\ t \in open
    /\ open' = open \ {t}
    /\ nreaders' = Less(nreaders, t, Readers)
    /\ nwriters' = Less(nwriters, t, Writers)
    /\ LET r == IF t \in Readers /\ nreaders' = 0
                THEN PollerBroadcast(Broadcast(op, "write"), "err") ELSE op
           w == IF t \in Writers /\ nwriters' = 0
                THEN PollerBroadcast(Broadcast(r, "read"), "hup") ELSE r
       IN  op' = w
    /\ UNCHANGED <<rb, active, sent, got>>

\* pipe_fopen
Open(t) ==
    /\ Idle(t)
    /\ Named /\ t \notin open
    /\ open' = open \cup {t}
    /\ nreaders' = IF t \in Readers THEN nreaders + 1 ELSE nreaders
    /\ nwriters' = IF t \in Writers THEN nwriters + 1 ELSE nwriters
    /\ UNCHANGED <<rb, op, active, sent, got>>

Copying(t) ==
    \/ ReadEnd(t) \/ ReadSleep(t) \/ ReadCopy(t)
    \/ WriteEnd(t) \/ WriteSleep(t) \/ WriteCopy(t)

Next ==
    \E t \in Thread :
        \/ \E n \in Counts : \E good \in Mapped(n) : Read(t, n, good) \/ Write(t, n, good)
        \/ Copying(t) \/ Resume(t) \/ Interrupt(t) \/ Interrupted(t)
        \/ \E want \in SUBSET {"in", "out"} \ {{}} : Poll(t, want)
        \/ PollEnd(t) \/ Close(t) \/ Open(t)

Spec == Init /\ [][Next]_vars

\* System calls make progress, and a reader goes on reading or closes its file.
FairSpec ==
    /\ Spec
    /\ \A t \in Thread :
          /\ WF_vars(Copying(t))
          /\ SF_vars(Resume(t) \/ Interrupted(t) \/ PollEnd(t))
    /\ \A t \in Readers :
          SF_vars(Close(t) \/ \E n \in Counts \ {0} : Read(t, n, n))

-----------------------------------------------------------------------------
\* No byte is lost, doubled or reordered on the way: of each writer, the pipe
\* holds exactly the bytes it has put in and nobody has read, in their order,
\* however transfers wrap around, are cut at PIPE_BUF, sleep, fault or are
\* interrupted.
StreamExact ==
    \A w \in Writers :
        LET mine == SelectSeq(Contents(rb), LAMBDA b : b[1] = w)
        IN  /\ (got[w] + Len(mine)) % Numbers = sent[w]
            /\ \A i \in DOMAIN mine : mine[i][2] = (got[w] + i - 1) % Numbers

\* A reader sleeps only while there is nothing to read and a writer to wait
\* for, a writer only while the buffer is full and some file open for reading:
\* no wakeup of pipebuf_read, pipebuf_write or pipe_release is lost, and
\* nreaders and nwriters keep up with the files.
SleepersWait ==
    active = None =>
        \A t \in Thread : op[t].st = "sleep" =>
            /\ op[t].kind = "read" => ReadSize(rb) = 0 /\ open \cap Writers # {}
            /\ op[t].kind = "write" => WriteSize(rb) = 0 /\ open \cap Readers # {}

\* A poller sleeps only while none of its events is there, with one exception:
\* pipe_write tells the pollers when it returns, so bytes of a write that still
\* sleeps are not announced.
PollersTold ==
    active = None =>
        \A t \in Thread : op[t].kind = "poll" /\ op[t].st = "sleep" =>
            \/ PollEvents(op[t].ev) = {}
            \/ /\ PollEvents(op[t].ev) = {"in"}
               /\ \E w \in Writers : op[w].kind = "write" /\ op[w].done > 0

\* A write ends, as long as the readers read on or close their end.
WritesEnd == \A w \in Writers : op[w].kind = "write" ~> op[w].kind # "write"

\* A read that sleeps when the last writer closes returns.
ReadsEndAtEof ==
    \A r \in Readers : op[r].kind = "read" /\ nwriters = 0 ~> op[r].kind # "read"
=============================================================================
