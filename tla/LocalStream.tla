----------------------------- MODULE LocalStream -----------------------------
(* Local stream sockets (net/local/stream.c, net/local/local.c): clients of   *)
(* one bound name, the listening socket behind it with its queue, the sockets *)
(* accept makes, and those of socketpair. A pair holds the two pipe buffers   *)
(* of a connection; end 0 reads data[0] and writes data[1], end 1 the other   *)
(* way round. Handlers are atomic up to their sleeps, in connect and accept,  *)
(* and in recv and send, which sleep with the mutex of the socket held.       *)
EXTENDS Queues, FiniteSets

LOCAL INSTANCE SequencesExt
LOCAL INSTANCE FiniteSetsExt

CONSTANTS
    Client,         \* the sockets that connect
    Acceptor,       \* threads that call accept
    MaxChild,       \* bound: sockets made by accept and socketpair
    MaxPair,        \* bound: pairs allocated
    QueueSize,      \* server.queue_size
    Talking,        \* the sockets that send and receive
    None

VARIABLES
    ls,             \* struct sock with its struct sock_pfl_stream
    pair,           \* pair[p]: struct sock_pfl_stream_pair
    queue,          \* server.queue of the listener
    listening,      \* whether the listening socket is open
    prefs,          \* pfls->refcount
    acc,            \* acc[a]: "idle", "asleep", "woken"
    io,             \* io[s]: the calls recv and send on a socket and its mutex
    cut,            \* history: a connect was interrupted
    corrupt         \* "no", or how freed memory was used ("freed", "late"): anything may follow

lvars == <<ls, pair, queue, listening, prefs, acc, io, cut, corrupt>>

Child == 1..MaxChild
Sock == Client \union Child
Pairs == 1..MaxPair
End == 0..1

\* pfl_stream_open
Fresh == [st |-> "NONE", freed |-> FALSE, pair |-> 0, idx |-> 0, peer |-> None,
          pfls |-> FALSE, conn |-> "idle"]

\* A pair that is free; pair_alloc begins with its counts at zero.
NoPair == [refs |-> 0, nr |-> [e \in End |-> 0], nw |-> [e \in End |-> 0],
           buf |-> [e \in End |-> 0]]

\* pfl_stream_bind and pfl_stream_listen have been called. The name and the
\* listener hold a reference to pfls each; the name keeps its own for ever.
Init ==
    /\ ls = [s \in Sock |-> Fresh]
    /\ pair = <<>>
    /\ queue = <<>> /\ listening = TRUE /\ prefs = 2
    /\ acc = [a \in Acceptor |-> "idle"]
    /\ io = [s \in Sock |-> [rd |-> "idle", wr |-> "idle", owner |-> None]]
    /\ cut = FALSE /\ corrupt = "no"

Connected(s) == ls[s].st = "CONNECTED" /\ ~ls[s].freed
Live(p) == p \in DOMAIN pair /\ pair[p].refs > 0
Made == {k \in Child : ls[k].st = "CONNECTED"}
Next1 == Min(Child \ Made)

------------------------------------------------------------------------------
\* pair_free
PairFree(ps, p) == [ps EXCEPT ![p] = IF @.refs = 1 THEN NoPair ELSE [@ EXCEPT !.refs = @ - 1]]

\* waitq_broadcast of the readers and of the writers of data[e]
WakeReaders(f, p, e) ==
    [s \in Sock |-> IF ls[s].pair = p /\ ls[s].idx = e /\ f[s].rd = "asleep"
                    THEN [f[s] EXCEPT !.rd = "woken"] ELSE f[s]]
WakeWriters(f, p, e) ==
    [s \in Sock |-> IF ls[s].pair = p /\ ls[s].idx = 1 - e /\ f[s].wr = "asleep"
                    THEN [f[s] EXCEPT !.wr = "woken"] ELSE f[s]]

\* waitq_signal: one of the threads that sleep in accept
SignalAccept ==
    LET asleep == {a \in Acceptor : acc[a] = "asleep"}
    IN  IF asleep = {} THEN {acc} ELSE {[acc EXCEPT ![a] = "woken"] : a \in asleep}

\* waitq_signal of the wwaitq a client sleeps on in connect. Once it has another
\* peer, its sender sleeps there too; an error makes the send return.
SignalClients(cs, how) ==
    /\ ls' = [s \in Sock |-> IF s \in cs /\ ls[s].conn = "asleep"
                             THEN [ls[s] EXCEPT !.conn = how] ELSE ls[s]]
    /\ io' = [s \in Sock |->
                IF io[s].wr = "asleep" /\ ls[s].idx = 1
                   /\ \E c \in cs : ls[c].conn # "asleep" /\ ls[c].pair = ls[s].pair
                THEN [io[s] EXCEPT !.wr = "idle", !.owner = None] ELSE io[s]]

\* A queue entry whose socket or pair has been freed
Dangling(c) == ls[c].freed \/ ~Live(ls[c].pair)

\* The program has used freed memory.
Corrupted ==
    /\ corrupt' = "freed"
    /\ UNCHANGED <<ls, pair, queue, listening, prefs, acc, io, cut>>

\* pfl_stream_release reads pfls from the pfl_stream it has just freed. The value
\* is still there, unless sma_free has given back the memory of the slab.
LateRead ==
    /\ corrupt' = "late"
    /\ UNCHANGED <<ls, pair, queue, listening, prefs, acc, io, cut>>

------------------------------------------------------------------------------
\* pfl_stream_connect up to its sleep
Connect(c) ==
    /\ ls[c].st = "NONE" /\ ~ls[c].freed /\ ls[c].conn = "idle"
    /\ \/ prefs = 0 /\ Corrupted
       \/ /\ prefs > 0 /\ listening /\ Len(queue) < QueueSize /\ Len(pair) < MaxPair
          /\ pair' = Append(pair, [NoPair EXCEPT !.refs = 1, !.nr[0] = 1, !.nw[1] = 1])
          /\ ls' = [ls EXCEPT ![c].pair = Len(pair) + 1, ![c].idx = 0, ![c].conn = "asleep"]
          /\ queue' = Append(queue, c)
          /\ acc' \in SignalAccept
          /\ UNCHANGED <<listening, prefs, io, cut, corrupt>>

\* A signal ends the sleep in connect.
InterruptConnect(c) ==
    /\ ls[c].conn = "asleep"
    /\ ls' = [ls EXCEPT ![c].conn = "refused"] /\ cut' = TRUE
    /\ UNCHANGED <<pair, queue, listening, prefs, acc, io, corrupt>>

\* pfl_stream_connect behind its sleep: an interrupted client stays in the queue.
ConnectReturn(c) ==
    \/ ls[c].conn \in {"woken", "refused"} /\ (prefs = 0 \/ ~Live(ls[c].pair)) /\ Corrupted
    \/ /\ prefs > 0 /\ Live(ls[c].pair)
       /\ \/ /\ ls[c].conn = "refused"
             /\ pair' = PairFree(pair, ls[c].pair)
             /\ ls' = [ls EXCEPT ![c].conn = "idle"] /\ UNCHANGED prefs
          \/ /\ ls[c].conn = "woken"
             /\ ls' = [ls EXCEPT ![c].conn = "idle", ![c].st = "CONNECTED", ![c].pfls = TRUE]
             /\ prefs' = prefs + 1 /\ UNCHANGED pair
       /\ UNCHANGED <<queue, listening, acc, io, cut, corrupt>>

\* pfl_stream_accept: end 1 of the pair
Join(p) == [pair EXCEPT ![p].refs = @ + 1, ![p].nr[1] = 1, ![p].nw[0] = 1]

\* pfl_stream_accept, from its loop on. The new socket gets pfls without a
\* reference of its own. If sock_open fails the client is refused.
Accept(a) ==
    /\ listening /\ acc[a] # "asleep"
    /\ \/ prefs = 0 /\ Corrupted
       \/ /\ prefs > 0 /\ queue = <<>>
          /\ acc' = [acc EXCEPT ![a] = "asleep"]
          /\ UNCHANGED <<ls, pair, queue, listening, prefs, io, cut, corrupt>>
       \/ prefs > 0 /\ queue # <<>> /\ Dangling(Head(queue)) /\ Corrupted
       \/ /\ prefs > 0 /\ queue # <<>> /\ ~Dangling(Head(queue))
          /\ acc' = [acc EXCEPT ![a] = "idle"] /\ queue' = Tail(queue)
          /\ LET c == Head(queue)
                 k == Next1
             IN  \/ SignalClients({c}, "refused") /\ UNCHANGED pair
                 \/ /\ Made # Child
                    /\ pair' = Join(ls[c].pair)
                    /\ ls' = [ls EXCEPT ![k] = [Fresh EXCEPT !.st = "CONNECTED", !.idx = 1,
                                 !.pair = ls[c].pair, !.peer = c, !.pfls = TRUE],
                               ![c].peer = k,
                               ![c].conn = IF @ = "asleep" THEN "woken" ELSE @]
                    /\ UNCHANGED io
          /\ UNCHANGED <<listening, prefs, cut, corrupt>>

InterruptAccept(a) ==
    /\ acc[a] = "asleep"
    /\ acc' = [acc EXCEPT ![a] = "idle"]
    /\ UNCHANGED <<ls, pair, queue, listening, prefs, io, cut, corrupt>>

\* pfl_stream_openpair
OpenPair ==
    /\ Cardinality(Child \ Made) >= 2 /\ Len(pair) < MaxPair
    /\ LET k == Next1
           l == Min(Child \ (Made \union {k}))
           r == [Fresh EXCEPT !.st = "CONNECTED", !.pair = Len(pair) + 1]
       IN  ls' = [ls EXCEPT ![k] = [r EXCEPT !.peer = l], ![l] = [r EXCEPT !.peer = k, !.idx = 1]]
    /\ pair' = Append(pair, [NoPair EXCEPT !.refs = 2, !.nr = [e \in End |-> 1],
                                           !.nw = [e \in End |-> 1]])
    /\ UNCHANGED <<queue, listening, prefs, acc, io, cut, corrupt>>

------------------------------------------------------------------------------
\* pfl_stream_recv of one byte, in its loop
Recv(s) ==
    LET p == ls[s].pair
        e == ls[s].idx
        back == [io EXCEPT ![s].rd = "idle", ![s].owner = None]
    IN  /\ s \in Talking /\ Connected(s) /\ io[s].rd # "asleep"
        /\ \/ /\ io[s].rd = "idle" /\ io[s].owner = "wr"
              /\ io' = [io EXCEPT ![s].rd = "blocked"] /\ UNCHANGED <<pair, corrupt>>
           \/ /\ io[s].owner # "wr" /\ Live(p) /\ UNCHANGED corrupt
              /\ \/ /\ pair[p].buf[e] > 0
                    /\ pair' = [pair EXCEPT ![p].buf[e] = @ - 1]
                    /\ io' = WakeWriters(back, p, e)
                 \/ /\ pair[p].buf[e] = 0 /\ pair[p].nw[e] = 0
                    /\ io' = back /\ UNCHANGED pair
                 \/ /\ pair[p].buf[e] = 0 /\ pair[p].nw[e] # 0
                    /\ io' = [io EXCEPT ![s].rd = "asleep", ![s].owner = "rd"] /\ UNCHANGED pair
           \/ /\ io[s].owner # "wr" /\ ~Live(p)
              /\ corrupt' = "freed" /\ UNCHANGED <<pair, io>>
        /\ UNCHANGED <<ls, queue, listening, prefs, acc, cut>>

\* pfl_stream_send of one byte, in its loop; the buffer has room for one.
Send(s) ==
    LET p == ls[s].pair
        e == 1 - ls[s].idx
        back == [io EXCEPT ![s].wr = "idle", ![s].owner = None]
    IN  /\ s \in Talking /\ Connected(s) /\ io[s].wr # "asleep"
        /\ \/ /\ io[s].wr = "idle" /\ io[s].owner = "rd"
              /\ io' = [io EXCEPT ![s].wr = "blocked"] /\ UNCHANGED <<pair, corrupt>>
           \/ /\ io[s].owner # "rd" /\ Live(p) /\ UNCHANGED corrupt
              /\ \/ /\ pair[p].nr[e] # 0 /\ pair[p].buf[e] = 0
                    /\ pair' = [pair EXCEPT ![p].buf[e] = 1]
                    /\ io' = WakeReaders(back, p, e)
                 \/ /\ pair[p].nr[e] = 0
                    /\ io' = back /\ UNCHANGED pair
                 \/ /\ pair[p].nr[e] # 0 /\ pair[p].buf[e] = 1
                    /\ io' = [io EXCEPT ![s].wr = "asleep", ![s].owner = "wr"] /\ UNCHANGED pair
           \/ /\ io[s].owner # "rd" /\ ~Live(p)
              /\ corrupt' = "freed" /\ UNCHANGED <<pair, io>>
        /\ UNCHANGED <<ls, queue, listening, prefs, acc, cut>>

\* A signal ends the sleep in recv or send.
Interrupt(s) ==
    /\ \/ io[s].rd = "asleep" /\ io' = [io EXCEPT ![s].rd = "idle", ![s].owner = None]
       \/ io[s].wr = "asleep" /\ io' = [io EXCEPT ![s].wr = "idle", ![s].owner = None]
    /\ UNCHANGED <<ls, pair, queue, listening, prefs, acc, cut, corrupt>>

------------------------------------------------------------------------------
\* pfl_stream_release of a socket that does not listen, when no call uses it.
Release(s) ==
    LET p == ls[s].pair
        e == ls[s].idx
        peer == ls[s].peer
        freed == [ls EXCEPT ![s].freed = TRUE]
    IN  /\ ~ls[s].freed /\ ls[s].conn = "idle" /\ (s \in Child => s \in Made)
        /\ io[s].rd = "idle" /\ io[s].wr = "idle"
        /\ \/ LateRead
           \/ /\ ls[s].st = "NONE" /\ ls' = freed
              /\ UNCHANGED <<pair, queue, listening, prefs, acc, io, cut, corrupt>>
           \/ /\ Connected(s)
              /\ ~Live(p) \/ (peer # None /\ ls[peer].freed) \/ (ls[s].pfls /\ prefs = 0)
              /\ Corrupted
           \/ /\ Connected(s) /\ Live(p) /\ (peer # None => ~ls[peer].freed)
              /\ ls[s].pfls => prefs > 0
              /\ pair' = PairFree([pair EXCEPT ![p].nr[e] = @ - 1, ![p].nw[1 - e] = @ - 1], p)
              /\ io' = WakeReaders(WakeWriters(io, p, e), p, 1 - e)
              /\ ls' = IF peer = None THEN freed ELSE [freed EXCEPT ![peer].peer = None]
              /\ prefs' = prefs - IF ls[s].pfls THEN 1 ELSE 0
              /\ UNCHANGED <<queue, listening, acc, cut, corrupt>>

\* pfl_stream_release of the listening socket
ReleaseListener ==
    /\ listening /\ \A a \in Acceptor : acc[a] = "idle"
    /\ \/ LateRead
       \/ (prefs = 0 \/ \E c \in Range(queue) : Dangling(c)) /\ Corrupted
       \/ /\ prefs > 0 /\ \A c \in Range(queue) : ~Dangling(c)
          /\ SignalClients(Range(queue), "refused")
          /\ queue' = <<>> /\ listening' = FALSE /\ prefs' = prefs - 1
          /\ UNCHANGED <<pair, acc, cut, corrupt>>

Next ==
    /\ corrupt = "no"
    /\ \/ \E c \in Client : Connect(c) \/ InterruptConnect(c) \/ ConnectReturn(c)
       \/ \E a \in Acceptor : Accept(a) \/ InterruptAccept(a)
       \/ OpenPair
       \/ \E s \in Sock : Recv(s) \/ Send(s) \/ Interrupt(s) \/ Release(s)
       \/ ReleaseListener

Spec == Init /\ [][Next]_lvars

------------------------------------------------------------------------------
\* The sockets that refer to a pair: both ends, or a client still in connect
Users(p) == {s \in Sock : ls[s].pair = p /\ ~ls[s].freed
                            /\ (ls[s].st = "CONNECTED" \/ ls[s].conn # "idle")}

\* Until a connect is interrupted: a pair lives exactly as long as a socket uses
\* it, has at most one at each end, and counts the readers and writers that are
\* there; two connected sockets know each other until one is closed; and whoever
\* is in the queue waits in connect.
PairsExact ==
    ~cut =>
        /\ \A p \in DOMAIN pair :
              /\ pair[p].refs = Cardinality(Users(p))
              /\ \A s, t \in Users(p) : ls[s].idx = ls[t].idx => s = t
              /\ \A s \in Users(p) :
                    /\ pair[p].nr[ls[s].idx] = 1 /\ pair[p].nw[1 - ls[s].idx] = 1
                    /\ ls[s].peer # None => Users(p) = {s, ls[s].peer}
              /\ \A e \in End : (\A s \in Users(p) : ls[s].idx # e) => pair[p].nr[e] = 0
        /\ \A c \in Range(queue) : ls[c].conn = "asleep"

\* The name outlives the sockets of the connections made through it, but for one
\* reference that each accepted socket gives back without having taken it. Freed
\* memory is used only behind that or an interrupted connect, apart from the late
\* read of release.
PflsCounted ==
    /\ corrupt = "no" => prefs = 1 + (IF listening THEN 1 ELSE 0)
                        + Cardinality({c \in Client : Connected(c)})
                        - Cardinality({k \in Child : ls[k].freed /\ ls[k].pfls})
    /\ corrupt = "freed" => cut \/ \E k \in Child : ls[k].freed /\ ls[k].pfls

\* No lost wakeup: a receiver sleeps only while there is nothing to read and
\* somebody to write it, a sender while there is no room and somebody to read;
\* a thread waits for the mutex of its socket only behind one that sleeps so, or
\* can go on; connect sleeps only in the queue of an open listener, and accept
\* only while every queued client has a woken thread to take it.
SleepersWait ==
    /\ \A s \in Sock :
          LET p == ls[s].pair
              e == ls[s].idx
          IN  corrupt = "no" =>
              /\ io[s].rd = "asleep" => pair[p].buf[e] = 0 /\ pair[p].nw[e] # 0
              /\ io[s].wr = "asleep" => pair[p].buf[1 - e] = 1 /\ pair[p].nr[1 - e] # 0
    /\ \A c \in Client : ls[c].conn = "asleep" => c \in Range(queue) /\ listening
    /\ (\E a \in Acceptor : acc[a] = "asleep") =>
          Len(queue) <= Cardinality({a \in Acceptor : acc[a] = "woken"})
==============================================================================
