------------------------------- MODULE MCIpc --------------------------------
(* What processes and threads talk through, checked together: pipes, the     *)
(* ring buffer under them, TCP, ARP and local stream sockets. "who" says     *)
(* which of them a behaviour uses, the others stay as they are initialised.  *)
EXTENDS RingFifo

CONSTANTS
    None,
    r1, w1, w2,                 \* the threads of the pipes
    s1, s2, Listener            \* the sockets that connect

VARIABLES
    who,
    prb, nreaders, nwriters, open, op, active, psent, pgot,
    sock, chain, queue, acc, ephemeral, net, old, budget, syns, faults, clean,
    rebound, corrupt, tsent, tgot,
    ls, pair, lqueue, listening, prefs, lacc, io, cut, lcorrupt,
    entry, stuck, wire, given, emitted, dropped, silent, afaults

Sides(ws) == ws \X (0..Size - 1)

\* A FIFO with a reader, a writer and a thread that has it open both ways and
\* does not block; all may close and reopen it.
PP == INSTANCE Pipe WITH
    Readers <- {r1, w2}, Writers <- {w1, w2}, Thread <- {r1, w1, w2}, NonBlock <- {w2},
    Pollers <- {r1, w2}, Counts <- {2, 3}, PipeBuf <- 2, Numbers <- Size,
    Byte <- Sides({w1, w2}), MayFault <- FALSE, Named <- TRUE,
    rb <- prb, sent <- psent, got <- pgot

\* A pipe whose users pass buffers that are mapped only in part.
PF == INSTANCE Pipe WITH
    Readers <- {r1}, Writers <- {w1}, Thread <- {r1, w1}, NonBlock <- {},
    Pollers <- {}, Counts <- {2, 4}, PipeBuf <- 2, Numbers <- Size,
    Byte <- Sides({w1}), MayFault <- TRUE, Named <- FALSE,
    rb <- prb, sent <- psent, got <- pgot

\* One connection, with data and an end of the stream from one side or the
\* other, over a network that makes one fault.
TD == INSTANCE Tcp WITH
    Clients <- <<s1>>, Acceptor <- {"a"}, MaxChild <- 1, Reader <- {s1, 1}, MaxSyn <- 1,
    Budgets <- {[client |-> <<2, 1>>, server |-> <<>>], [client |-> <<>>, server |-> <<1, 1>>],
                [client |-> <<>>, server |-> <<3, 1>>]},
    Mss <- 2, InSize <- 2, BindPorts <- {}, EphemeralCount <- 1, Isn <- {3}, Modulus <- 8,
    MaxFaults <- 1,
    sent <- tsent, got <- tgot

\* Two clients that come and go, bind and connect, over a faultless network.
TC == INSTANCE Tcp WITH
    Clients <- <<s1, s2>>, Acceptor <- {}, MaxChild <- 2, Reader <- {}, MaxSyn <- 2,
    Budgets <- {[client |-> <<>>, server |-> <<>>]},
    Mss <- 2, InSize <- 2, BindPorts <- {0}, EphemeralCount <- 2, Isn <- {3}, Modulus <- 8,
    MaxFaults <- 0,
    sent <- tsent, got <- tgot

\* Two clients that connect from one port, in turn, and two threads in accept
TA == INSTANCE Tcp WITH
    Clients <- <<s1, s2>>, Acceptor <- {"a", "b"}, MaxChild <- 2, Reader <- {}, MaxSyn <- 2,
    Budgets <- {[client |-> <<>>, server |-> <<>>]},
    Mss <- 2, InSize <- 2, BindPorts <- {}, EphemeralCount <- 1, Isn <- {3}, Modulus <- 8,
    MaxFaults <- 0,
    sent <- tsent, got <- tgot

\* Two clients and two threads in accept
LC == INSTANCE LocalStream WITH
    Client <- {s1, s2}, Acceptor <- {"a", "b"}, MaxChild <- 2, MaxPair <- 2, QueueSize <- 2,
    Talking <- {}, queue <- lqueue, acc <- lacc, corrupt <- lcorrupt

\* A client, what accept makes for it or a socketpair, and their data
LD == INSTANCE LocalStream WITH
    Client <- {s1}, Acceptor <- {"a"}, MaxChild <- 2, MaxPair <- 2, QueueSize <- 1,
    Talking <- {s1, 1, 2}, queue <- lqueue, acc <- lacc, corrupt <- lcorrupt

\* Two hosts on the link, whose interfaces may be replaced
AR == INSTANCE Arp WITH
    Host <- {s1, s2}, Ether <- {1, 2}, MaxPackets <- 2, MaxFaults <- 1, faults <- afaults

pvars == <<prb, nreaders, nwriters, open, op, active, psent, pgot>>
tvars == <<sock, chain, queue, acc, ephemeral, net, old, budget, syns, faults, clean,
           rebound, corrupt, tsent, tgot>>
lvars == <<ls, pair, lqueue, listening, prefs, lacc, io, cut, lcorrupt>>
nvars == <<entry, stuck, wire, given, emitted, dropped, silent, afaults>>
allvars == <<who, vars, pvars, tvars, lvars, nvars>>

IInit ==
    /\ who \in {"pipe", "pipe_faults", "ring", "tcp_data", "tcp", "accept", "local", "local_data", "arp"}
    /\ Init /\ AR!Init
    /\ IF who = "pipe_faults" THEN PF!Init ELSE PP!Init
    /\ CASE who = "tcp_data" -> TD!Init [] who = "accept" -> TA!Init [] OTHER -> TC!Init
    /\ IF who = "local_data" THEN LD!Init ELSE LC!Init
    /\ who # "ring" => rb.data = [i \in Pos |-> CHOOSE b \in Byte : TRUE]

INext ==
    /\ UNCHANGED who
    /\ \/ who = "pipe" /\ PP!Next /\ UNCHANGED <<vars, tvars, lvars, nvars>>
       \/ who = "pipe_faults" /\ PF!Next /\ UNCHANGED <<vars, tvars, lvars, nvars>>
       \/ who = "ring" /\ Next /\ UNCHANGED <<pvars, tvars, lvars, nvars>>
       \/ who = "tcp_data" /\ TD!Next /\ UNCHANGED <<vars, pvars, lvars, nvars>>
       \/ who = "tcp" /\ TC!Next /\ UNCHANGED <<vars, pvars, lvars, nvars>>
       \/ who = "accept" /\ TA!Next /\ UNCHANGED <<vars, pvars, lvars, nvars>>
       \/ who = "local" /\ LC!Next /\ UNCHANGED <<vars, pvars, tvars, nvars>>
       \/ who = "local_data" /\ LD!Next /\ UNCHANGED <<vars, pvars, tvars, nvars>>
       \/ who = "arp" /\ AR!Next /\ UNCHANGED <<vars, pvars, tvars, lvars>>

ISpec == IInit /\ [][INext]_allvars

-----------------------------------------------------------------------------
\* pipe_read and pipe_write: no byte is lost, doubled or reordered on the way,
\* whatever wraps around, is cut, sleeps, faults or is interrupted. ip4_output:
\* no packet is, whether it goes out at once or waits for the address.
StreamExact ==
    /\ who = "pipe" => PP!StreamExact
    /\ who = "pipe_faults" => PF!StreamExact
    /\ who = "arp" => AR!PacketsExact

\* pipe_poll: a poller sleeps only while none of its events is there, or bytes
\* are there of a write that has not returned.
PollersTold == who = "pipe" => PP!PollersTold

\* No wakeup is lost. A reader of a pipe sleeps only while there is nothing to
\* read and a writer to wait for, a writer only while the buffer is full and
\* has a reader; recv of a socket only while there is nothing to read and no
\* end, accept only while every queued connection has a woken thread to take it,
\* and connect of a local socket only in the queue of an open listener.
SleepersWait ==
    /\ who = "pipe" => PP!SleepersWait
    /\ who = "pipe_faults" => PF!SleepersWait
    /\ who = "tcp_data" => TD!SleepersWait
    /\ who = "tcp" => TC!SleepersWait
    /\ who = "accept" => TA!SleepersWait
    /\ who = "local" => LC!SleepersWait
    /\ who = "local_data" => LD!SleepersWait

\* handle_pkt: whatever copies of segments arrive, the server reads the bytes its
\* client sent, in order, nothing missing and nothing twice, and the client what
\* the server sent behind its first segment, with bytes twice only if that
\* segment was longer than a byte and one was doubled; as long as the network
\* loses and reorders nothing (StreamPrefix of Tcp has the limits).
TcpStreamExact == who = "tcp_data" => TD!StreamPrefix

\* tcp_connect: a call that sleeps has its SYN or the answer on the way, as long
\* as the network has lost nothing and the listener is open. arp_resolve: so
\* has a packet that waits for an address, if nothing was lost since the last.
ConnectAnswered ==
    /\ who = "tcp_data" => TD!ConnectAnswered
    /\ who = "tcp" => TC!ConnectAnswered
    /\ who = "accept" => TA!ConnectAnswered
    /\ who = "arp" => AR!QueuedAsked

\* tcp_bind, find_ephemeral_port and handle_syn never give two sockets the same
\* two ends, until a bind of a bound socket fails; and a connection's buffers
\* live as long as it does, until its connect is interrupted or fails late. A
\* pair of local sockets counts the two that use it, until a connect is
\* interrupted, and the name they met through the references it was given.
ConnectionsSound ==
    /\ who = "tcp_data" => TD!NoTwins /\ TD!BuffersLive
    /\ who = "tcp" => TC!NoTwins /\ TC!BuffersLive
    /\ who = "accept" => TA!NoTwins /\ TA!BuffersLive
    /\ who = "local" => LC!PairsExact /\ LC!PflsCounted
    /\ who = "local_data" => LD!PairsExact /\ LD!PflsCounted
=============================================================================
