------------------------------- MODULE Region -------------------------------
(* The free list of an address range, mem/region.c, as functions on the      *)
(* sequence rs of its free ranges. Addresses and sizes are counted in pages. *)
(* An empty list stands for a region of which nothing was ever allocated.    *)
EXTENDS Integers, Sequences

LOCAL INSTANCE SequencesExt

CONSTANTS
    Base,       \* region->addr
    Pages,      \* region->size
    Word        \* 2 to the width of size_t, in pages

FreeRange(addr, size) == [addr |-> addr, size |-> size % Word]

End(r) == r.addr + r.size

NoMem == [ret |-> "ENOMEM", addr |-> 0, ranges |-> <<>>]

Got(addr, rs) == [ret |-> "0", addr |-> addr, ranges |-> rs]

\* vm_region_alloc of a region whose list is empty
AllocFirst(addr, size) ==
    IF addr \in {0, Base} THEN Got(Base, <<FreeRange(Base + size, Pages - size)>>)
    ELSE IF addr + size = Base + Pages THEN Got(addr, <<FreeRange(Base, Pages - size)>>)
    ELSE Got(addr, <<FreeRange(addr + size, Base + Pages - (addr + size)),
                     FreeRange(Base, addr - Base)>>)

\* A request at an address that the range r can hold
Fits(r, addr, size) ==
    /\ r.addr <= addr /\ addr < End(r) /\ size <= r.size
    /\ size = r.size => addr = r.addr

\* vm_region_alloc takes addr .. end - 1 from r, the i-th range.
Carve(rs, i, r, addr, size, end) ==
    CASE r.size = size -> RemoveAt(rs, i)
      [] r.size # size /\ addr = r.addr -> ReplaceAt(rs, i, FreeRange(end, r.size - size))
      [] addr # r.addr /\ end = End(r) -> ReplaceAt(rs, i, FreeRange(r.addr, r.size - size))
      [] OTHER -> InsertAt(ReplaceAt(rs, i, FreeRange(r.addr, addr - r.addr)), i + 1,
                           FreeRange(end, r.size - (end - r.addr)))

\* vm_region_alloc at a given address
AllocAt(rs, addr, size) ==
    LET i == SelectInSeq(rs, LAMBDA r : addr < r.addr \/ Fits(r, addr, size))
    IN  IF i = 0 \/ ~Fits(rs[i], addr, size) THEN NoMem
        ELSE Got(addr, Carve(rs, i, rs[i], addr, size, addr + size))

\* vm_region_alloc of the first range that is large enough
AllocAny(rs, size) ==
    LET i == SelectInSeq(rs, LAMBDA r : r.size >= size)
    IN  IF i = 0 THEN NoMem
        ELSE Got(rs[i].addr, Carve(rs, i, rs[i], rs[i].addr, size, rs[i].addr + size))

\* vm_region_alloc
RegionAlloc(rs, addr, size) ==
    IF addr # 0 /\ (addr < Base \/ addr + size > Base + Pages) THEN NoMem
    ELSE IF rs = <<>> THEN AllocFirst(addr, size)
    ELSE IF addr # 0 THEN AllocAt(rs, addr, size)
    ELSE AllocAny(rs, size)

\* Variant: a range that touches two others is joined to one of them only.
JoinOnce(rs, i, r, addr, size, end) ==
    CASE r.addr = end -> ReplaceAt(rs, i, FreeRange(addr, r.size + size))
      [] r.addr # end /\ End(r) = addr -> ReplaceAt(rs, i, FreeRange(r.addr, r.size + size))
      [] OTHER -> InsertAt(rs, i, FreeRange(addr, size))

\* vm_region_free joins the freed pages to r, the i-th range, and to the one in
\* front or behind, if they touch, or else puts them in front of r.
Join(rs, i, r, addr, size, end) ==
    LET merge(a, b) ==
            RemoveAt(ReplaceAt(rs, a, FreeRange(rs[a].addr, rs[a].size + size + rs[b].size)), b)
    IN  CASE r.addr = end ->
               IF i > 1 /\ End(rs[i - 1]) = addr THEN merge(i - 1, i)
               ELSE ReplaceAt(rs, i, FreeRange(addr, r.size + size))
          [] r.addr # end /\ End(r) = addr ->
               IF i < Len(rs) /\ rs[i + 1].addr = end THEN merge(i, i + 1)
               ELSE ReplaceAt(rs, i, FreeRange(r.addr, r.size + size))
          [] OTHER -> InsertAt(rs, i, FreeRange(addr, size))

\* vm_region_free
RegionFree(rs, addr, size) ==
    LET i == SelectInSeq(rs, LAMBDA r : r.addr = addr + size \/ End(r) = addr \/ addr < r.addr)
    IN  IF i = 0 THEN Append(rs, FreeRange(addr, size))
        ELSE Join(rs, i, rs[i], addr, size, addr + size)

\* vm_region_test: no page of the given ones is free.
RegionTest(rs, addr, size) ==
    LET i == SelectInSeq(rs, LAMBDA r : addr + size <= r.addr \/ addr < End(r))
    IN  i = 0 \/ addr + size <= rs[i].addr

\* "ranges ordering" (mem/region.c:283): the free ranges are kept by ascending
\* address and do not overlap.
Ordered(rs) == \A i \in DOMAIN rs : i > 1 => End(rs[i - 1]) < rs[i].addr
==============================================================================
