-------------------------------- MODULE Tcp ---------------------------------
(* TCP (net/tcp.c) on two hosts: client sockets on one, a listening socket   *)
(* and its children on the other, and the network between them. All clients  *)
(* connect to the one listener, so the client's port names the connection.   *)
(* A handler runs with the kernel lock; the calls are atomic up to their     *)
(* sleeps in connect, accept and recv.                                       *)
EXTENDS Queues, FiniteSets

LOCAL INSTANCE SequencesExt
LOCAL INSTANCE FiniteSetsExt

CONSTANTS
    Clients,        \* the client sockets, in the order of ip4_tcp_socks
    Listener, None,
    Acceptor,       \* threads that call accept
    MaxChild,       \* bound: children made
    MaxSyn,         \* bound: SYNs sent
    Reader,         \* the sockets somebody reads from
    Budgets,        \* bound: the calls of send of each host, by their bytes, or a FIN instead
    Mss,            \* bytes that send_data puts in a segment, 1000
    InSize,         \* bytes that fit in inbuf
    BindPorts,      \* ports bind may ask for, from 0..EphemeralCount - 1
    EphemeralCount, \* ephemeral_end - ephemeral_start
    Isn,            \* what random_get may give
    Modulus,        \* 2^32, the range of sequence numbers
    MaxFaults       \* bound: segments lost, doubled or overtaken

VARIABLES
    sock,           \* struct sock with its struct sock_tcp
    chain,          \* ip4_tcp_socks of each host
    queue,          \* srv.queue of the listener
    acc,            \* acc[a]: "idle", "asleep", "woken"
    ephemeral,      \* ephemeral_cur
    net,            \* net[h]: the segments on their way to a host, as they were sent
    old,            \* segments that have arrived, of which copies may be left
    budget,         \* what is left of it
    syns,           \* syns[p]: SYNs sent from a port
    faults,         \* faults of the network so far
    clean,          \* history: nothing was lost, overtaken, or numbered past Modulus
    rebound,        \* history: a bind of a bound socket has failed
    corrupt,        \* freed memory has been used: anything may follow
    sent, got       \* history: segments sent by send_data, bytes out of tcp_recv

tvars == <<sock, chain, queue, acc, ephemeral, net, old, budget, syns, faults, clean,
           rebound, corrupt, sent, got>>

Client == Range(Clients)
Child == 1..MaxChild
Conns == Client \union Child
Host == {"client", "server"}
HostOf(s) == IF s \in Client THEN "client" ELSE "server"
Other(h) == IF h = "client" THEN "server" ELSE "client"

Plus(n, bytes) == (n + bytes) % Modulus

\* tcp_open
Fresh == [st |-> "NONE", bound |-> FALSE, dst |-> FALSE, port |-> 0,
          bufs |-> "none", in |-> <<>>, out |-> <<>>, eof |-> FALSE, errno |-> 0,
          lisn |-> 0, lseq |-> 0, rseq |-> 0, rack |-> 0,
          conn |-> "idle", rd |-> "idle", fin |-> FALSE, cut |-> FALSE]

Init ==
    /\ sock = [s \in Conns \union {Listener} |->
                 IF s = Listener THEN [Fresh EXCEPT !.st = "LISTENING", !.bound = TRUE]
                                 ELSE Fresh]
    /\ chain = [h \in Host |-> IF h = "client" THEN Clients ELSE <<Listener>>]
    /\ queue = <<>>
    /\ acc = [a \in Acceptor |-> "idle"]
    /\ ephemeral = 0
    /\ net = [h \in Host |-> <<>>] /\ old = {} /\ faults = 0
    /\ budget \in Budgets
    /\ syns = [p \in 0..EphemeralCount - 1 |-> 0]
    /\ clean = TRUE /\ rebound = FALSE /\ corrupt = FALSE
    /\ sent = [s \in Conns |-> <<>>]
    /\ got = [s \in Conns |-> <<>>]

Listed(s) == s \in Range(chain[HostOf(s)])

------------------------------------------------------------------------------
\* init_clt
InitClt(r) == [r EXCEPT !.bufs = "live", !.in = <<>>, !.out = <<>>, !.eof = FALSE]

\* destroy_clt, which leaves a pointer to the freed buffers behind
DestroyClt(r) == [r EXCEPT !.bufs = "freed"]
DestroysTwice(r) == r.bufs = "freed"

\* Variant: a socket that is bound and not connected does not count.
HasMatchingSockConnected(port) ==
    \E s \in Range(chain["client"]) : sock[s].dst /\ sock[s].port = port

\* has_matching_sock_locked. It does not skip the socket it is called for.
HasMatchingSock(port) ==
    \E s \in Range(chain["client"]) : sock[s].bound /\ sock[s].port = port

\* forge_syn, forge_ack, forge_synack, forge_data
Segment(s, r, flags, seq, data) ==
    [to |-> Other(HostOf(s)), port |-> r.port, flags |-> flags, seq |-> seq,
     ack |-> IF flags = "SYN" THEN 0 ELSE r.rseq, data |-> data]

\* send_pkt, to what is on its way already
SendPkt(n, p) == net' = [n EXCEPT ![p.to] = Append(@, p)]

\* find_ephemeral_port: the ports it tries, from ephemeral_cur on, that are free.
\* A socket that is bound already finds itself at each of them.
FreeEphemeral(c) ==
    {i \in 0..EphemeralCount - 1 :
        ~sock[c].bound /\ ~HasMatchingSock((ephemeral + i) % EphemeralCount)}
EphemeralPort(i) == (ephemeral + i) % EphemeralCount

------------------------------------------------------------------------------
\* tcp_bind. src_addr is overwritten before the port is known to be free.
Bind(c, port) ==
    /\ Listed(c) /\ sock[c].st = "NONE" /\ sock[c].conn = "idle"
    /\ sock' = [sock EXCEPT ![c].port = port,
                            ![c].bound = @ \/ ~HasMatchingSock(port)]
    /\ rebound' = (rebound \/ (sock[c].bound /\ HasMatchingSock(port)))
    /\ UNCHANGED <<chain, queue, acc, ephemeral, net, budget, syns, clean,
                   corrupt, sent, got>>

\* tcp_bind with port 0
BindAny(c) ==
    LET free == FreeEphemeral(c)
        i == IF free = {} THEN EphemeralCount - 1 ELSE Min(free)
    IN  /\ Listed(c) /\ sock[c].st = "NONE" /\ sock[c].conn = "idle"
        /\ sock' = [sock EXCEPT ![c].port = EphemeralPort(i),
                                ![c].bound = @ \/ free # {}]
        /\ ephemeral' = EphemeralPort(i + 1)
        /\ rebound' = (rebound \/ (sock[c].bound /\ free = {}))
        /\ UNCHANGED <<chain, queue, acc, net, budget, syns, clean, corrupt, sent, got>>

\* tcp_connect up to its sleep, with the socket bound to port; ok says whether
\* the SYN could be sent.
Syn(c, port, isn, ok) ==
    LET r == InitClt([sock[c] EXCEPT !.port = port, !.bound = TRUE, !.dst = TRUE,
                                     !.lisn = isn])
    IN  \/ /\ ok
           /\ sock' = [sock EXCEPT ![c] = [r EXCEPT !.st = "CONNECTING", !.conn = "asleep"]]
           /\ SendPkt(net, Segment(c, r, "SYN", isn, <<>>))
           /\ syns' = [syns EXCEPT ![port] = @ + 1]
        \/ /\ ~ok
           /\ sock' = [sock EXCEPT ![c] = DestroyClt(r)]
           /\ UNCHANGED <<net, syns>>

Connect(c) ==
    /\ Listed(c) /\ sock[c].st = "NONE" /\ sock[c].conn = "idle"
    /\ FoldFunction(+, 0, syns) < MaxSyn
    /\ \E isn \in Isn, ok \in BOOLEAN :
          \/ sock[c].bound /\ Syn(c, sock[c].port, isn, ok) /\ UNCHANGED ephemeral
          \/ LET free == FreeEphemeral(c)
             IN  /\ ~sock[c].bound
                 /\ IF free = {}
                    THEN /\ sock' = [sock EXCEPT ![c].dst = TRUE, ![c].lisn = isn,
                                                 ![c].port = EphemeralPort(EphemeralCount - 1)]
                         /\ UNCHANGED <<net, syns, ephemeral>>
                    ELSE /\ Syn(c, EphemeralPort(Min(free)), isn, ok)
                         /\ ephemeral' = EphemeralPort(Min(free) + 1)
    /\ UNCHANGED <<chain, queue, acc, budget, clean, rebound, corrupt, sent, got>>

\* A signal ends the sleep in tcp_connect.
InterruptConnect(c) ==
    /\ sock[c].conn = "asleep"
    /\ sock' = [sock EXCEPT ![c].conn = "interrupted", ![c].cut = TRUE]
    /\ UNCHANGED <<chain, queue, acc, ephemeral, net, budget, syns, clean,
                   rebound, corrupt, sent, got>>

\* tcp_connect behind its sleep
ConnectReturn(c) ==
    LET r == [sock[c] EXCEPT !.conn = "idle"]
    IN  /\ \/ /\ sock[c].conn = "interrupted"
              /\ sock' = [sock EXCEPT ![c] = DestroyClt(r)]
              /\ corrupt' = DestroysTwice(r)
           \/ /\ sock[c].conn = "woken" /\ r.errno # 0
              /\ sock' = [sock EXCEPT ![c] = DestroyClt([r EXCEPT !.st = "NONE"])]
              /\ corrupt' = DestroysTwice(r)
           \/ /\ sock[c].conn = "woken" /\ r.errno = 0
              /\ sock' = [sock EXCEPT ![c] = r]
              /\ UNCHANGED corrupt
        /\ UNCHANGED <<chain, queue, acc, ephemeral, net, budget, syns, clean,
                       rebound, sent, got>>

\* tcp_accept, from its loop on
Accept(a) ==
    /\ sock[Listener].st = "LISTENING" /\ Listed(Listener) /\ acc[a] # "asleep"
    /\ \/ /\ queue = <<>>
          /\ acc' = [acc EXCEPT ![a] = "asleep"] /\ UNCHANGED queue
       \/ /\ queue # <<>>
          /\ acc' = [acc EXCEPT ![a] = "idle"] /\ queue' = Tail(queue)
    /\ UNCHANGED <<sock, chain, ephemeral, net, budget, syns, clean, rebound,
                   corrupt, sent, got>>

InterruptAccept(a) ==
    /\ acc[a] = "asleep"
    /\ acc' = [acc EXCEPT ![a] = "idle"]
    /\ UNCHANGED <<sock, chain, queue, ephemeral, net, budget, syns, clean,
                   rebound, corrupt, sent, got>>

------------------------------------------------------------------------------
\* A child is the application's once accept has returned it.
Held(s) == Listed(s) /\ s \notin Range(queue)

\* waitq_signal of rwaitq: the wakeup goes to one of the sleeping acceptors.
SignalOne(q) ==
    LET asleep == {a \in Acceptor : q[a] = "asleep"}
    IN  IF asleep = {} THEN {q} ELSE {[q EXCEPT ![a] = "woken"] : a \in asleep}

\* waitq_broadcast of rwaitq
Woken(r) == [r EXCEPT !.rd = IF @ = "asleep" THEN "woken" ELSE @]

\* The segments send_data makes of what is in outbuf
Cut(out) ==
    [i \in 1..((Len(out) + Mss - 1) \div Mss) |-> SubSeq(out, (i - 1) * Mss + 1, Min({i * Mss, Len(out)}))]

\* tcp_send, with send_data: n segments are sent before one fails. It is lost if
\* that happens in send_pkt, and stays in outbuf, like those behind it, if there
\* is no memory for it. forge_pkt wakes the readers, not the writers.
Send(s) ==
    LET r == Woken(sock[s])
        h == HostOf(s)
        segs == Cut(r.out \o [i \in 1..Head(budget[h]) |-> <<s, Len(budget[h]), i>>])
    IN  /\ Held(s) /\ r.st = "CONNECTED" /\ ~r.fin /\ budget[h] # <<>>
        /\ \E n \in 0..Len(segs), lost \in 0..1 :
              LET took == SubSeq(segs, 1, n)
                  bytes == Len(FlattenSeq(took))
              IN  /\ net' = [net EXCEPT ![Other(h)] = @ \o [i \in 1..n |->
                                Segment(s, r, "ACK", Plus(r.lseq, (i - 1) * Mss), segs[i])]]
                  /\ sock' = [sock EXCEPT ![s] =
                                [r EXCEPT !.lseq = Plus(@, bytes),
                                          !.out = FlattenSeq(SubSeq(segs, n + 1 + lost, Len(segs)))]]
                  /\ sent' = [sent EXCEPT ![s] = @ \o took]
                  /\ clean' = (clean /\ r.lseq + bytes < Modulus)
        /\ budget' = [budget EXCEPT ![h] = Tail(@)]
        /\ UNCHANGED <<chain, queue, acc, ephemeral, syns, rebound, corrupt, got>>

\* tcp_recv, from the loop of pipebuf_read_locked on, of a byte or of all there are
Recv(s) ==
    /\ s \in Reader /\ Held(s) /\ sock[s].st \in {"CONNECTED", "CLOSED"} /\ sock[s].rd # "asleep"
    /\ \/ /\ sock[s].in # <<>>
          /\ \E n \in {1, Len(sock[s].in)} :
                /\ got' = [got EXCEPT ![s] = @ \o SubSeq(sock[s].in, 1, n)]
                /\ sock' = [sock EXCEPT ![s].in = SubSeq(@, n + 1, Len(@)), ![s].rd = "idle"]
       \/ /\ sock[s].in = <<>> /\ UNCHANGED got
          /\ sock' = [sock EXCEPT ![s].rd = IF sock[s].eof THEN "idle" ELSE "asleep"]
    /\ UNCHANGED <<chain, queue, acc, ephemeral, net, budget, syns, clean,
                   rebound, corrupt, sent>>

InterruptRecv(s) ==
    /\ sock[s].rd = "asleep"
    /\ sock' = [sock EXCEPT ![s].rd = "idle"]
    /\ UNCHANGED <<chain, queue, acc, ephemeral, net, budget, syns, clean,
                   rebound, corrupt, sent, got>>

\* tcp_release of a connection, when no call has a reference. Nothing is sent.
Release(s) ==
    /\ Held(s) /\ sock[s].conn = "idle" /\ sock[s].rd = "idle"
    /\ chain' = [chain EXCEPT ![HostOf(s)] = Unqueue(@, s)]
    /\ sock' = [sock EXCEPT ![s] = DestroyClt(@)]
    /\ corrupt' = (sock[s].st # "NONE" /\ DestroysTwice(sock[s]))
    /\ UNCHANGED <<queue, acc, ephemeral, net, budget, syns, clean, rebound, sent, got>>

\* tcp_release of the listener, with the children nobody has accepted
ReleaseListener ==
    /\ Listed(Listener) /\ \A a \in Acceptor : acc[a] = "idle"
    /\ chain' = [chain EXCEPT !["server"] =
                     SelectSeq(@, LAMBDA s : s # Listener /\ s \notin Range(queue))]
    /\ sock' = [s \in DOMAIN sock |->
                   IF s \in Range(queue) THEN DestroyClt(sock[s]) ELSE sock[s]]
    /\ queue' = <<>>
    /\ clean' = FALSE
    /\ UNCHANGED <<acc, ephemeral, net, budget, syns, rebound, corrupt, sent, got>>

------------------------------------------------------------------------------
\* tcp4_find_input_sockets and find_input_socket: the first socket with the
\* addresses of both ends, or else the first with the local one, even if it is
\* connected to somebody else.
Local(s, p) == s \in Client => sock[s].bound /\ sock[s].port = p.port
Both(s, p) == Local(s, p) /\ sock[s].dst /\ sock[s].port = p.port

\* Variant: only a socket that is connected or listens gets segments.
FindInputSocketReady(p) ==
    LET both == SelectSeq(chain[p.to], LAMBDA s : Both(s, p))
        local == SelectSeq(chain[p.to], LAMBDA s : Local(s, p))
    IN  Head(SelectSeq(both \o local, LAMBDA s : sock[s].st # "CONNECTING") \o <<None>>)

FindInputSocket(p) ==
    LET both == SelectSeq(chain[p.to], LAMBDA s : Both(s, p))
        local == SelectSeq(chain[p.to], LAMBDA s : Local(s, p))
    IN  Head(both \o local \o <<None>>)

\* handle_synack, with n the rest of the network. The ACK may fail to be sent.
HandleSynack(s, p, n) ==
    LET r == sock[s]
        wake == IF r.conn = "asleep" THEN "woken" ELSE r.conn
    IN  /\ \/ /\ p.flags = "RST"
              /\ sock' = [sock EXCEPT ![s] = DestroyClt([r EXCEPT !.st = "NONE", !.errno = 1,
                                                                 !.conn = wake])]
              /\ corrupt' = DestroysTwice(r) /\ net' = n
           \/ /\ p.flags # "RST" /\ (p.flags # "SYN|ACK" \/ p.ack # Plus(r.lisn, 1))
              /\ sock' = [sock EXCEPT ![s].errno = 1, ![s].conn = wake]
              /\ UNCHANGED corrupt /\ net' = n
           \/ /\ p.flags = "SYN|ACK" /\ p.ack = Plus(r.lisn, 1)
              /\ LET ready == [r EXCEPT !.lseq = Plus(r.lisn, 1), !.rack = p.ack,
                                        !.rseq = Plus(p.seq, 1), !.conn = wake]
                 IN  \/ /\ sock' = [sock EXCEPT ![s] = [ready EXCEPT !.st = "CONNECTED", !.errno = 0]]
                        /\ SendPkt(n, Segment(s, ready, "ACK", ready.lseq, <<>>))
                        /\ UNCHANGED corrupt
                     \/ /\ sock' = [sock EXCEPT ![s] = DestroyClt([ready EXCEPT !.st = "NONE",
                                                                               !.errno = 1])]
                        /\ corrupt' = DestroysTwice(r) /\ net' = n
        /\ UNCHANGED <<chain, queue, acc, sent, got>>

\* handle_syn; the new child is the next one of MaxChild. If the SYN|ACK cannot
\* be sent the child is undone, as if the SYN had been lost.
Made == {k \in Child : sock[k].dst}
HandleSyn(p, n) ==
    \/ /\ p.flags # "SYN" \/ p.ack # 0
       /\ UNCHANGED <<sock, chain, queue, acc, corrupt, sent, got>> /\ net' = n
    \/ /\ p.flags = "SYN" /\ p.ack = 0 /\ Child # Made
       /\ \E isn \in Isn :
             LET k == Min(Child \ Made)
                 r == [InitClt(Fresh) EXCEPT !.st = "CONNECTED", !.bound = TRUE, !.dst = TRUE,
                         !.port = p.port, !.lisn = isn, !.lseq = Plus(isn, 1), !.rseq = Plus(p.seq, 1)]
             IN  /\ sock' = [sock EXCEPT ![k] = r]
                 /\ chain' = [chain EXCEPT !["server"] = Append(@, k)]
                 /\ queue' = Append(queue, k)
                 /\ SendPkt(n, Segment(k, r, "SYN|ACK", r.lseq, <<>>))
       /\ acc' \in SignalOne(acc)
       /\ UNCHANGED <<corrupt, sent, got>>

\* handle_pkt: the ACK, then data, then FIN. inbuf takes a segment whole or not
\* at all. An answer that cannot be sent is like a lost one.
Fits(r, p) == Len(r.in) + Len(p.data) <= InSize

\* Variant: old segments are accepted.
AcceptedOld(r, p) ==
    /\ p.flags # "SYN" => p.ack >= r.rack
    /\ Fits(r, p)

Accepted(r, p) ==
    /\ p.flags # "SYN" => p.ack >= r.rack
    /\ p.seq >= r.rseq
    /\ Fits(r, p)

HandlePkt(s, p, n) ==
    LET r == sock[s]
        acked == IF p.flags # "SYN" /\ p.ack >= r.rack
                 THEN [r EXCEPT !.rack = p.ack] ELSE r
        written == IF p.data = <<>> THEN acked
                   ELSE Woken([acked EXCEPT !.in = @ \o p.data, !.rseq = Plus(@, Len(p.data))])
        ended == IF p.flags # "FIN|ACK" THEN written
                 ELSE Woken([written EXCEPT !.rseq = Plus(@, 1), !.st = "CLOSED", !.eof = TRUE])
    IN  /\ \/ ~Accepted(r, p) /\ sock' = [sock EXCEPT ![s] = acked] /\ net' = n /\ UNCHANGED corrupt
           \/ /\ Accepted(r, p)
              /\ sock' = [sock EXCEPT ![s] = ended]
              /\ corrupt' = (p.data # <<>> /\ r.bufs # "live")
              /\ IF ended.rseq = r.rseq THEN net' = n
                 ELSE SendPkt(n, Segment(s, ended, "ACK", ended.lseq, <<>>))
        /\ UNCHANGED <<chain, queue, acc, sent, got>>

\* tcp_input of a segment that has arrived whole
TcpInput(p, n) ==
    LET s == FindInputSocket(p)
    IN  CASE s = None -> UNCHANGED <<sock, chain, queue, acc, corrupt, sent, got>> /\ net' = n
          [] s # None /\ sock[s].st = "CONNECTING" -> HandleSynack(s, p, n)
          [] s # None /\ sock[s].st = "LISTENING" -> HandleSyn(p, n)
          [] s # None /\ sock[s].st \in {"CONNECTED", "CLOSED"} -> HandlePkt(s, p, n)
          [] s # None /\ sock[s].st = "NONE" ->
                UNCHANGED <<sock, chain, queue, acc, corrupt, sent, got>> /\ net' = n

------------------------------------------------------------------------------
\* The network, and peers that do not run this code.

Overtakes(h, i) == \E j \in 1..i - 1 : net[h][j].port = net[h][i].port
Without(h, i) == [net EXCEPT ![h] = RemoveAt(@, i)]
Dropped(p) ==
    LET s == FindInputSocket(p)
    IN  s \in Conns /\ sock[s].st \in {"CONNECTED", "CLOSED"} /\ ~Fits(sock[s], p)

\* Copies that can still arrive; none once the network has done its worst.
Copies(ps, f) == IF f < MaxFaults THEN ps ELSE {}

Deliver(h, i) ==
    LET p == net[h][i]
        f == faults + IF Overtakes(h, i) THEN 1 ELSE 0
    IN  /\ f <= MaxFaults
        /\ TcpInput(p, Without(h, i))
        /\ faults' = f /\ old' = Copies(old \union {p}, f)
        /\ clean' = (clean /\ ~Overtakes(h, i) /\ ~Dropped(p))
        /\ UNCHANGED <<ephemeral, budget, syns, rebound>>

Duplicate(p) ==
    /\ faults < MaxFaults
    /\ TcpInput(p, net)
    /\ faults' = faults + 1 /\ old' = Copies(old, faults + 1)
    /\ clean' = (clean /\ ~Dropped(p))
    /\ UNCHANGED <<ephemeral, budget, syns, rebound>>

Lose(h, i) ==
    /\ faults < MaxFaults
    /\ net' = Without(h, i)
    /\ faults' = faults + 1 /\ old' = Copies(old, faults + 1)
    /\ clean' = FALSE
    /\ UNCHANGED <<sock, chain, queue, acc, ephemeral, budget, syns, rebound, corrupt, sent, got>>

\* A host on which nobody listens answers a SYN with RST; tcp.c itself does not.
Refuse(i) ==
    LET p == net["server"][i]
    IN  /\ p.flags = "SYN"
        /\ SendPkt(Without("server", i),
                   [to |-> "client", port |-> p.port, flags |-> "RST", seq |-> 0,
                    ack |-> Plus(p.seq, 1), data |-> <<>>])
        /\ UNCHANGED <<sock, chain, queue, acc, ephemeral, old, budget, syns, faults, clean, rebound,
                       corrupt, sent, got>>

\* The peer of a connection ends its stream with FIN; tcp.c itself never does.
Fin(s) ==
    /\ Held(s) /\ sock[s].st = "CONNECTED" /\ ~sock[s].fin /\ budget[HostOf(s)] # <<>>
    /\ budget' = [budget EXCEPT ![HostOf(s)] = Tail(@)]
    /\ SendPkt(net, Segment(s, sock[s], "FIN|ACK", sock[s].lseq, <<>>))
    /\ sock' = [sock EXCEPT ![s].fin = TRUE, ![s].lseq = Plus(@, 1)]
    /\ clean' = (clean /\ Plus(sock[s].lseq, 1) # 0)
    /\ UNCHANGED <<chain, queue, acc, ephemeral, syns, rebound, corrupt, sent, got>>

Call ==
    \/ \E c \in Client :
          \/ \E port \in BindPorts : Bind(c, port)
          \/ BindAny(c) \/ Connect(c) \/ InterruptConnect(c) \/ ConnectReturn(c)
    \/ \E a \in Acceptor : Accept(a) \/ InterruptAccept(a)
    \/ \E s \in Conns : Send(s) \/ Recv(s) \/ InterruptRecv(s) \/ Release(s) \/ Fin(s)
    \/ ReleaseListener

Next ==
    /\ ~corrupt
    /\ \/ Call /\ UNCHANGED <<old, faults>>
       \/ \E h \in Host : \E i \in DOMAIN net[h] : Deliver(h, i) \/ Lose(h, i)
       \/ \E p \in old : Duplicate(p)
       \/ \E i \in DOMAIN net["server"] : Refuse(i)

Spec == Init /\ [][Next]_tvars

------------------------------------------------------------------------------
Stream(s) == got[s] \o sock[s].in
First(k) == \A j \in 1..k - 1 : sock[j].port # sock[k].port

FirstTimes(q) == [i \in DOMAIN q |-> IF \E j \in 1..i - 1 : q[j] = q[i] THEN <<>> ELSE <<q[i]>>]

\* handle_pkt on a network that may double a segment, at once or late, but does
\* not lose or reorder any. On the first connection from a port the server reads
\* the bytes the client sent, in order, nothing missing and nothing twice. The
\* client reads all but the server's first segment: forge_synack numbers the
\* SYN|ACK lisn + 1, like that segment, which handle_pkt then takes for an old
\* one. Nothing else is missing, and what is read for the first time is in
\* order. But rseq is one byte ahead where that segment had more, so that a copy
\* may be taken for new: bytes come twice only if a segment was doubled and the
\* first was longer than one byte. (Until the numbers wrap around, a segment
\* finds inbuf full, or the listener is closed.)
StreamPrefix ==
    clean =>
        /\ \A k \in Child : Stream(k) # <<>> /\ First(k) =>
              \E c \in Client : sock[c].port = sock[k].port /\ IsPrefix(Stream(k), FlattenSeq(sent[c]))
        /\ \A c \in Client : Stream(c) # <<>> =>
              \E k \in Child :
                 LET rest == FlattenSeq(Tail(sent[k]))
                 IN  /\ sock[c].port = sock[k].port
                     /\ IsPrefix(FlattenSeq(FirstTimes(Stream(c))), rest)
                     /\ faults = 0 \/ Len(Head(sent[k])) = 1 => IsPrefix(Stream(c), rest)

\* A connect from a fresh port that sleeps has its SYN or the answer on the way,
\* as long as the network has lost nothing and the listener is open.
ConnectAnswered ==
    clean /\ ~rebound =>
        \A c \in Client : sock[c].conn = "asleep" /\ syns[sock[c].port] = 1 =>
            \E p \in Range(net["server"]) \union Range(net["client"]) :
                p.port = sock[c].port /\ p.flags \in {"SYN", "SYN|ACK", "RST"}

\* find_ephemeral_port, tcp_bind and handle_syn: two sockets never have the same
\* two ends, until a bind of a bound socket fails.
NoTwins ==
    /\ \A j, k \in Child : Listed(j) /\ Listed(k) /\ sock[j].port = sock[k].port => j = k
    /\ ~rebound => \A b, c \in {c \in Client : Listed(c) /\ sock[c].bound} :
          sock[b].port = sock[c].port => b = c

\* The buffers of a connection live as long as it can be used, and freed ones are
\* used only after connect was interrupted, refused, or could not answer.
BuffersLive ==
    /\ \A s \in Conns : Listed(s) /\ sock[s].st \in {"CONNECTING", "CONNECTED", "CLOSED"} =>
          sock[s].bufs = "live" \/ sock[s].cut
    /\ corrupt => \E c \in Client : sock[c].cut \/ sock[c].errno # 0

\* No lost wakeup: a receiver sleeps only while there is nothing to read and the
\* peer has not ended, connect only while there is no answer, and accept only
\* while every queued connection has a woken thread to take it.
SleepersWait ==
    /\ \A s \in Conns : sock[s].rd = "asleep" => sock[s].in = <<>> /\ ~sock[s].eof
    /\ \A c \in Client : sock[c].conn = "asleep" => sock[c].st = "CONNECTING"
    /\ (\E a \in Acceptor : acc[a] = "asleep") =>
          Len(queue) <= Cardinality({a \in Acceptor : acc[a] = "woken"})
==============================================================================
