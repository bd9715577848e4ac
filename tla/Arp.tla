--------------------------------- MODULE Arp ---------------------------------
(* ARP (net/arp.c) under ip4_output: the entries of the hosts on the link,   *)
(* the packets queued behind a resolution, and the requests and replies on   *)
(* the wire. Every handler gives back the reference it takes to an entry,    *)
(* and the list keeps one for ever, so that entries are never freed. No      *)
(* handler sleeps, so each is one step.                                      *)
EXTENDS Integers, Sequences, FiniteSets

LOCAL INSTANCE SequencesExt

CONSTANTS
    Host,           \* the IP addresses of the others on the link
    Ether,          \* the addresses their interfaces may have
    MaxPackets,     \* bound: packets sent to a host
    MaxFaults       \* bound: messages lost, doubled or not sent

VARIABLES
    entry,          \* entry[h]: struct arp_entry; "none": not in arp_entries
    stuck,          \* arp_fetch has returned with arp_entries_lock held
    wire,           \* requests on their way to a host and the replies
    given,          \* history: given[h] packets were handed to ip4_output
    emitted,        \* history: the packets put on the link, with their destination
    dropped,        \* history: dropped[h], packets the interface refused
    silent,         \* history: hosts whose last request or its answer was lost
    faults          \* faults so far

avars == <<entry, stuck, wire, given, emitted, dropped, silent, faults>>

NoEntry == [state |-> "none", ether |-> 0, packets |-> <<>>]

Init ==
    /\ entry = [h \in Host |-> NoEntry]
    /\ stuck = FALSE
    /\ wire = {}
    /\ given = [h \in Host |-> 0]
    /\ emitted = [h \in Host |-> <<>>]
    /\ dropped = [h \in Host |-> {}]
    /\ silent = {} /\ faults = 0

Fault == faults < MaxFaults /\ faults' = faults + 1

------------------------------------------------------------------------------
\* ether_output of the packets, in order; the driver may refuse one of them.
Emit(h, packets, ether) ==
    \E bad \in {{}} \union {{n} : n \in ToSet(packets)} :
        LET kept == SelectSeq(packets, LAMBDA n : n \notin bad)
        IN  /\ IF bad = {} THEN UNCHANGED faults ELSE Fault
            /\ dropped' = [dropped EXCEPT ![h] = @ \union bad]
            /\ emitted' = [emitted EXCEPT ![h] =
                              @ \o [i \in DOMAIN kept |-> [packet |-> kept[i], to |-> ether]]]

\* ip4_output to a host whose entry is resolved
OutputResolved(h, n) ==
    /\ entry[h].state = "RESOLVED"
    /\ Emit(h, <<n>>, entry[h].ether)
    /\ UNCHANGED <<entry, stuck, wire, silent>>

\* To any other: arp_fetch makes the entry if there is none, and arp_resolve
\* queues the packet and sends a request, each time; the request may fail.
OutputResolve(h, n) ==
    /\ entry[h].state # "RESOLVED"
    /\ entry' = [entry EXCEPT ![h].state = "RESOLVING", ![h].packets = Append(@, n)]
    /\ \/ /\ wire' = wire \union {[op |-> "request", host |-> h, id |-> n]}
          /\ silent' = silent \ {h}
          /\ UNCHANGED faults
       \/ /\ Fault
          /\ silent' = silent \union {h}
          /\ UNCHANGED wire
    /\ UNCHANGED <<stuck, emitted, dropped>>

\* arp_alloc fails in arp_fetch, which returns without giving the lock back.
OutputNoMemory(h, n) ==
    /\ entry[h].state = "none"
    /\ Fault
    /\ stuck' = TRUE
    /\ dropped' = [dropped EXCEPT ![h] = @ \union {n}]
    /\ UNCHANGED <<entry, wire, emitted, silent>>

Output(h) ==
    /\ given[h] < MaxPackets
    /\ given' = [given EXCEPT ![h] = @ + 1]
    /\ LET n == given[h] + 1
       IN  OutputResolved(h, n) \/ OutputResolve(h, n) \/ OutputNoMemory(h, n)

\* arp_input, handle_reply: the entry is resolved, whatever it was, and the
\* packets that waited for it go out. A reply nobody asked for is ignored.
Reply(m) ==
    /\ m.op = "reply"
    /\ LET e == entry[m.host]
       IN  \/ /\ e.state = "none"
              /\ UNCHANGED <<entry, emitted, dropped, faults>>
           \/ /\ e.state # "none"
              /\ entry' = [entry EXCEPT ![m.host] =
                              [state |-> "RESOLVED", ether |-> m.ether, packets |-> <<>>]]
              /\ Emit(m.host, e.packets, m.ether)
    /\ wire' = wire \ {m}
    /\ UNCHANGED <<stuck, given, silent>>

\* arp_input, handle_request of a host that asks for an address: it is
\* registered if it has no entry, unless memory is short; an entry that is being
\* resolved takes its address and stays as it is; one that is resolved to another
\* address refuses the request. What is answered is not modelled.
Request(h, ether) ==
    /\ \/ /\ entry[h].state = "none"
          /\ entry' = [entry EXCEPT ![h] = [NoEntry EXCEPT !.state = "RESOLVED", !.ether = ether]]
       \/ /\ entry[h].state = "RESOLVING"
          /\ entry' = [entry EXCEPT ![h].ether = ether]
    /\ UNCHANGED <<stuck, wire, given, emitted, dropped, silent, faults>>

\* The network and the hosts on it: a host answers with its address; it does so
\* unasked, or its answer comes twice (Announce); a message is lost.
Answer(m, ether) ==
    /\ m.op = "request"
    /\ wire' = (wire \ {m}) \union {[op |-> "reply", host |-> m.host, id |-> m.id, ether |-> ether]}
    /\ UNCHANGED <<entry, stuck, given, emitted, dropped, silent, faults>>

Announce(h, ether) ==
    /\ Fault
    /\ wire' = wire \union {[op |-> "reply", host |-> h, id |-> 0, ether |-> ether]}
    /\ UNCHANGED <<entry, stuck, given, emitted, dropped, silent>>

Lose(m) ==
    /\ Fault
    /\ wire' = wire \ {m}
    /\ silent' = silent \union {m.host}
    /\ UNCHANGED <<entry, stuck, given, emitted, dropped>>

Next ==
    /\ ~stuck
    /\ \/ \E h \in Host : Output(h)
       \/ \E h \in Host, ether \in Ether : Request(h, ether) \/ Announce(h, ether)
       \/ \E m \in wire : Reply(m) \/ Lose(m) \/ \E ether \in Ether : Answer(m, ether)

Spec == Init /\ [][Next]_avars

------------------------------------------------------------------------------
Packets(h) == [i \in DOMAIN emitted[h] |-> emitted[h][i].packet] \o entry[h].packets

\* Every packet handed to ip4_output is on the link or queued, or the driver or
\* memory failed it; none is there twice, a later one never overtakes one that
\* waits for the address, and none goes out before there is an address.
PacketsExact ==
    \A h \in Host :
        /\ \A i, j \in DOMAIN Packets(h) : i < j => Packets(h)[i] < Packets(h)[j]
        /\ ToSet(Packets(h)) = (1..given[h]) \ dropped[h]
        /\ \A i \in DOMAIN emitted[h] : emitted[h][i].to \in Ether

\* No packet is forgotten: one that is queued waits for a host that was asked,
\* and the request or the answer is on the way, unless one was lost after the
\* last packet. Behind a loss the next packet asks again.
QueuedAsked ==
    \A h \in Host : entry[h].packets # <<>> =>
        /\ entry[h].state = "RESOLVING"
        /\ h \in silent \/ \E m \in wire : m.host = h
==============================================================================
