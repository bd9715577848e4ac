------------------------------ MODULE VmSpace -------------------------------
(* The address spaces of processes, mem/space.c: each is a Region and a list *)
(* of zones. mmap, munmap, mprotect, fork, exec and exit change them, and so *)
(* do shmat and shmdt, whose segments (kern/ipc.c) count the zones that map  *)
(* them. No call sleeps on the way, so each is one step.                     *)
EXTENDS Region, FiniteSets

LOCAL INSTANCE SequencesExt
LOCAL INSTANCE FiniteSetsExt

CONSTANTS
    Proc,
    Id,         \* bound: the ids ipc_hash can return, 0 .. Cardinality(Id) - 1
    SHMMNI,     \* the largest number of segments
    SegPages,   \* shm_segsz of every segment
    NoId,       \* the segment of a zone that maps none
    MmapPages,  \* bound: the sizes of the mmap calls
    MaxLeaked,  \* bound: references leaked to a segment
    MaxAttach,  \* bound: entries in the list of attachments of a process
    MaxOrphans, \* bound: zones of a segment that exit and exec drop
    MaxEmpty,   \* bound: empty zones and ranges that requests of no pages leave
    Probed,     \* the loader has probed the space, as for a dynamic program
    Careful     \* requests keep clear of what mem/ does not handle (see below)

VARIABLES
    space,      \* space[p]: ranges, zones and shms of struct vm_space, and alive
    shm,        \* shm[i]: struct sysv_shm
    seq,        \* shm_seq
    leaked,     \* history: references alloc_ipcid took and never gave back
    orphans     \* history: zones of a segment dropped without a close

vvars == <<space, shm, seq, leaked, orphans>>

Absent == [exists |-> FALSE, removed |-> FALSE, refcount |-> 0, nattch |-> 0]

Empty == [alive |-> FALSE, ranges |-> <<>>, zones |-> <<>>, shms |-> <<>>]

\* elf.c maps a dynamic program once to find room for it, and unmaps it again,
\* which leaves the whole region as one free range.
Fresh == [Empty EXCEPT !.alive = TRUE,
                       !.ranges = IF Probed THEN <<FreeRange(Base, Pages)>> ELSE <<>>]

Init ==
    /\ \E p \in Proc : space = [q \in Proc |-> IF q = p THEN Fresh ELSE Empty]
    /\ shm = [i \in Id |-> Absent]
    /\ seq = 0
    /\ leaked = [i \in Id |-> 0]
    /\ orphans = [i \in Id |-> 0]

------------------------------------------------------------------------------
Zone(addr, size, prot, id) == [addr |-> addr, size |-> size % Word, prot |-> prot, shm |-> id]

\* vm_alloc puts the zone in the list by its address.
Placed(zones, z) ==
    LET i == SelectInSeq(zones, LAMBDA y : z.addr < y.addr)
    IN  IF i = 0 THEN Append(zones, z) ELSE InsertAt(zones, i, z)

\* vm_alloc on the space s, with what vm_region_alloc returns
Allocated(s, a, size, prot, id) ==
    [ret |-> a.ret, addr |-> a.addr,
     space |-> IF a.ret # "0" THEN s
               ELSE [s EXCEPT !.ranges = a.ranges,
                              !.zones = Placed(@, Zone(a.addr, size, prot, id))]]

\* vm_alloc
VmAlloc(s, addr, size, prot, id) ==
    Allocated(s, RegionAlloc(s.ranges, addr, size), size, prot, id)

\* One turn of the loop of vm_free: the zone goes, loses its head or its tail,
\* or is split; the loop stops at the first zone behind the request. A zone that
\* loses its head gives back the pages at the address of the request, and keeps
\* as many as it had beyond the size of the request.
FreeZone(f, z, addr, size) ==
    LET end == addr + size
        head == addr <= z.addr
        tail == end >= End(z)
        freed == CASE head /\ tail -> <<z.addr, z.size>>
                   [] head /\ ~tail -> <<addr, end - z.addr>>
                   [] ~head /\ tail -> <<addr, End(z) - addr>>
                   [] OTHER -> <<addr, size>>
        left == (IF head THEN <<>> ELSE <<Zone(z.addr, addr - z.addr, z.prot, z.shm)>>)
                \o (IF tail THEN <<>>
                    ELSE <<Zone(end, IF head THEN z.size - size ELSE End(z) - end, z.prot, z.shm)>>)
    IN  IF f.stop \/ end <= z.addr THEN [f EXCEPT !.stop = TRUE, !.zones = Append(@, z)]
        ELSE IF addr >= End(z) THEN [f EXCEPT !.zones = Append(@, z)]
        ELSE [f EXCEPT !.ranges = RegionFree(@, freed[1], freed[2]), !.zones = @ \o left]

\* vm_free
VmFree(s, addr, size) ==
    LET from == [ranges |-> s.ranges, zones |-> <<>>, stop |-> FALSE]
        set(f) == [s EXCEPT !.ranges = f.ranges, !.zones = f.zones]
    IN  set(FoldLeft(LAMBDA f, z : FreeZone(f, z, addr, size), from, s.zones))

\* One turn of the loop of vm_space_protect: the part of the zone within the
\* request gets a zone of its own, with the new protection unless vm_protect
\* finds a free page there, which ends the loop.
ProtectZone(f, z, addr, size, prot) ==
    LET end == addr + size
        from == IF addr <= z.addr THEN z.addr ELSE addr
        to == IF end >= End(z) THEN End(z) ELSE end
        ok == RegionTest(f.ranges, from, to - from)
        parts == (IF addr <= z.addr THEN <<>> ELSE <<Zone(z.addr, addr - z.addr, z.prot, z.shm)>>)
                 \o <<Zone(from, to - from, IF ok THEN prot ELSE z.prot, z.shm)>>
                 \o (IF end >= End(z) THEN <<>> ELSE <<Zone(end, End(z) - end, z.prot, z.shm)>>)
    IN  IF f.stop \/ end <= z.addr THEN [f EXCEPT !.stop = TRUE, !.zones = Append(@, z)]
        ELSE IF addr >= End(z) \/ prot = z.prot THEN [f EXCEPT !.zones = Append(@, z)]
        ELSE [f EXCEPT !.stop = ~ok, !.zones = @ \o parts]

\* vm_space_protect; the vm_protect at its end changes no zone.
VmProtect(s, addr, size, prot) ==
    LET from == [ranges |-> s.ranges, zones |-> <<>>, stop |-> FALSE]
        set(f) == [s EXCEPT !.zones = f.zones]
    IN  set(FoldLeft(LAMBDA f, z : ProtectZone(f, z, addr, size, prot), from, s.zones))

------------------------------------------------------------------------------
\* What the zones of the list do to shm_nattch: one open for each zone more,
\* one close for each zone less.
Maps(zones, i) == Len(SelectSeq(zones, LAMBDA z : z.shm = i))

\* shm_vm_open and shm_vm_close
Recount(sh, old, new) ==
    [i \in Id |-> [sh[i] EXCEPT !.nattch = @ + Maps(new, i) - Maps(old, i)]]

\* Variant: the zones that still map the segment are not looked at.
SettleRemoved(sh) ==
    [i \in Id |-> IF sh[i].removed /\ sh[i].refcount = 0 THEN Absent ELSE sh[i]]

\* shm_decref and the end of shm_vm_close, with shm_free
Settle(sh) ==
    [i \in Id |-> IF sh[i].removed /\ sh[i].refcount = 0 /\ sh[i].nattch = 0
                  THEN Absent ELSE sh[i]]

\* The space of p becomes s, and its segments are counted again.
Update(p, s) ==
    /\ space' = [space EXCEPT ![p] = s]
    /\ shm' = Settle(Recount(shm, space[p].zones, s.zones))

------------------------------------------------------------------------------
Addr == Base..(Base + Pages - 1)

\* Requests of pages of the region
Within(addr, size) == addr + size <= Base + Pages

FreePages(s) == UNION {r.addr..(End(r) - 1) : r \in ToSet(s.ranges)}

\* What mem/ does not handle, and a careful program keeps clear of: a request
\* at an address that begins in a free range and overruns it
\* (mem/region.c:115), a request that takes the last free page, after which
\* the region looks untouched (mem/region.c:46), and an munmap that begins in
\* front of a zone and ends within it (mem/space.c:127).
MayAlloc(s, addr, size) ==
    Careful => /\ size < Cardinality(FreePages(s))
               /\ \A r \in ToSet(s.ranges) :
                      r.addr <= addr /\ addr < End(r) => addr + size <= End(r) \/ size >= r.size

MayFree(s, addr, size) ==
    Careful => \A z \in ToSet(s.zones) : z.addr < addr + size /\ addr + size < End(z) => addr >= z.addr

\* sys_mmap, readable and writable: at the address given, or else, with MAP_FIXED
\* after unmapping what is there, without it anywhere.
Mmap(p) ==
    \E addr \in Addr \union {0}, size \in MmapPages, fixed \in BOOLEAN :
        LET s == space[p]
            first == VmAlloc(s, addr, size, "w", NoId)
            cleared == IF fixed THEN VmFree(s, addr, size) ELSE s
            again == VmAlloc(cleared, IF fixed THEN addr ELSE 0, size, "w", NoId)
        IN  /\ s.alive /\ Within(addr, size) /\ (fixed => addr # 0)
            /\ MayAlloc(s, addr, size)
            /\ first.ret # "0" /\ fixed => MayFree(s, addr, size) /\ MayAlloc(cleared, addr, size)
            /\ Update(p, IF first.ret = "0" THEN first.space ELSE again.space)
            /\ UNCHANGED <<seq, leaked, orphans>>

\* Empties the space holds, of which requests of no pages make more
FewEmpties(s) ==
    LET empty(r) == r.size = 0
    IN  Len(SelectSeq(s.ranges, empty)) + Len(SelectSeq(s.zones, empty)) <= MaxEmpty

\* sys_munmap. A request of no pages within a zone splits it, and puts an empty
\* range in the free list.
Munmap(p) ==
    \E addr \in Addr, size \in 0..Pages :
        LET s == VmFree(space[p], addr, size)
        IN  /\ space[p].alive /\ Within(addr, size) /\ MayFree(space[p], addr, size)
            /\ FewEmpties(s)
            /\ Update(p, s)
            /\ UNCHANGED <<seq, leaked, orphans>>

\* sys_mprotect. A request of no pages within a zone leaves an empty zone there.
Mprotect(p) ==
    \E addr \in Addr, size \in 0..Pages, prot \in {"r", "w"} :
        LET s == VmProtect(space[p], addr, size, prot)
        IN  /\ space[p].alive /\ Within(addr, size)
            /\ FewEmpties(s)
            /\ Update(p, s)
            /\ UNCHANGED <<seq, leaked, orphans>>

\* vm_space_dup, for fork: dup_zones opens every zone once more.
Fork(p, q) ==
    /\ space[p].alive /\ ~space[q].alive
    /\ Update(q, space[p])
    /\ UNCHANGED <<seq, leaked, orphans>>

\* The space of p is released and becomes s: vm_space_free gives back the page
\* tables and the space itself, and closes none of the zones.
Release(p, s) ==
    LET dropped(i) == orphans[i] + Maps(space[p].zones, i)
    IN  /\ \A i \in Id : dropped(i) <= MaxOrphans
        /\ space' = [space EXCEPT ![p] = s]
        /\ orphans' = [i \in Id |-> dropped(i)]
        /\ UNCHANGED <<shm, seq, leaked>>

\* proc_exit and proc_free; one process, init, is always there.
Exit(p) ==
    /\ space[p].alive /\ \E q \in Proc \ {p} : space[q].alive
    /\ Release(p, Empty)

\* uproc_execve puts a new space in the place of the old one.
Exec(p) == space[p].alive /\ Release(p, Fresh)

------------------------------------------------------------------------------
\* ipc_hash, of which only matters that it maps the ids one to one
Hash(s) == (s + 1) % Cardinality(Id)

\* alloc_ipcid: every segment met on the way keeps the reference taken on it.
Tried(s) ==
    LET h[k \in 0..Cardinality(Id)] == IF k = 0 THEN Hash(s) ELSE Hash(h[k - 1])
        n == CHOOSE k \in 0..Cardinality(Id) :
                 ~shm[h[k]].exists /\ \A j \in 0..(k - 1) : shm[h[j]].exists
    IN  [id |-> h[n], met |-> {h[j] : j \in 0..(n - 1)}]

\* sys_shmget of a key that is not in use, with shm_alloc
Shmget ==
    LET next == (seq + 1) % Cardinality(Id)
        tried == Tried(next)
    IN  /\ Cardinality({i \in Id : shm[i].exists}) < SHMMNI
        /\ \A i \in tried.met : leaked[i] < MaxLeaked
        /\ seq' = next
        /\ leaked' = [i \in Id |-> IF i \in tried.met THEN leaked[i] + 1
                                   ELSE IF i = tried.id THEN 0 ELSE leaked[i]]
        /\ shm' = [i \in Id |-> IF i = tried.id THEN [Absent EXCEPT !.exists = TRUE]
                                ELSE IF i \in tried.met THEN [shm[i] EXCEPT !.refcount = @ + 1]
                                ELSE shm[i]]
        /\ UNCHANGED <<space, orphans>>

\* sys_shmat, also of a segment that was removed
Shmat(p, i) ==
    LET a == VmAlloc(space[p], 0, SegPages, "w", i)
        entry == [addr |-> a.addr, size |-> SegPages, shm |-> i]
    IN  /\ space[p].alive /\ shm[i].exists /\ a.ret = "0"
        /\ Len(space[p].shms) < MaxAttach
        /\ MayAlloc(space[p], 0, SegPages)
        /\ Update(p, [a.space EXCEPT !.shms = Append(@, entry)])
        /\ UNCHANGED <<seq, leaked, orphans>>

\* sys_shmdt. The entry of the attachment stays in the list, and the next
\* shmdt of the same address finds it again; its segment may be gone by then.
Shmdt(p, addr) ==
    LET k == SelectInSeq(space[p].shms, LAMBDA e : e.addr = addr)
        e == space[p].shms[k]
    IN  /\ space[p].alive /\ k # 0
        /\ shm[e.shm].exists /\ shm[e.shm].nattch # 0
        /\ MayFree(space[p], e.addr, e.size)
        /\ Update(p, VmFree(space[p], e.addr, e.size))
        /\ UNCHANGED <<seq, leaked, orphans>>

\* shmctl IPC_RMID
Rmid(i) ==
    /\ shm[i].exists /\ ~shm[i].removed
    /\ shm' = Settle([shm EXCEPT ![i].removed = TRUE])
    /\ UNCHANGED <<space, seq, leaked, orphans>>

Next ==
    \/ \E p \in Proc : Mmap(p) \/ Munmap(p) \/ Mprotect(p) \/ Exit(p) \/ Exec(p)
    \/ \E p, q \in Proc : Fork(p, q)
    \/ \E p \in Proc, i \in Id : Shmat(p, i)
    \/ \E p \in Proc, addr \in Addr : Shmdt(p, addr)
    \/ \E i \in Id : Rmid(i)
    \/ Shmget

Spec == Init /\ [][Next]_vvars

------------------------------------------------------------------------------
\* The region and the zones of a space always agree: each page is free or in a
\* zone and never both, and every zone and range that holds a page lies behind
\* all those in front of it in the list, as the early exits of vm_free,
\* vm_space_find, vm_space_protect and vm_region_test need, empty ones
\* included. For a Careful program, whatever it maps, unmaps and protects;
\* while no request of no pages has left an empty range, two free ranges never
\* touch.
SpaceTiled ==
    \A p \in Proc : space[p].alive =>
        LET s == space[p]
            mapped == UNION {z.addr..(End(z) - 1) : z \in ToSet(s.zones)}
            inOrder(q) == \A i, j \in DOMAIN q :
                              i < j /\ q[j].size > 0 => End(q[i]) <= q[j].addr
        IN  /\ mapped \intersect FreePages(s) = {}
            /\ mapped \union FreePages(s) = Addr
            /\ inOrder(s.ranges) /\ inOrder(s.zones)
            /\ (\A r \in ToSet(s.ranges) : r.size > 0) => Ordered(s.ranges)

\* shm_nattch counts the zones that map the segment, over all processes and
\* through fork, munmap and mprotect of a part, and those of processes that
\* have exited or called exec with the segment attached, which are never
\* closed: a segment that is mapped is there, and one that is removed and not
\* mapped is gone, unless a process has dropped it so, or alloc_ipcid has taken
\* a reference to it for good.
SegmentsExact ==
    \A i \in Id :
        LET maps == MapThenSumSet(LAMBDA p : Maps(space[p].zones, i), Proc)
        IN  /\ shm[i].nattch = maps + orphans[i]
            /\ maps + orphans[i] > 0 => shm[i].exists
            /\ shm[i].refcount = IF shm[i].exists THEN leaked[i] ELSE 0
            /\ shm[i].removed => maps > 0 \/ orphans[i] > 0 \/ leaked[i] > 0

\* The free list of every space is ordered, as vm_region_test expects of it
\* ("early quit because of ranges ordering", mem/region.c:283).
RangesOrdered == \A p \in Proc : Ordered(space[p].ranges)
==============================================================================
