-------------------------------- MODULE Slab --------------------------------
(* The slab allocator of kern/sma.c: one sma, its metas and the slabs of     *)
(* each, with the bitmap of a slab kept word by word. A word has BPW bits    *)
(* (size_t), and the mask 1 << n is an int of IntBits bits: the mask of bit  *)
(* IntBits - 1 is negative and sign-extended, and a shift by IntBits or more *)
(* is undefined. sma->mutex is held throughout, so each call is one step.    *)
EXTENDS Integers, Sequences, FiniteSets

LOCAL INSTANCE SequencesExt
LOCAL INSTANCE FiniteSetsExt

CONSTANTS
    BPW,        \* bits of a word of the bitmap
    IntBits,    \* bits of an int; BPW where size_t is no wider
    Count,      \* sma->bitmap_count: blocks of a slab
    SlabsPer,   \* slabs of a meta
    MaxMetas    \* bound: metas in all

VARIABLES
    metas,      \* sma->meta, in order: full, partial and empty lists of slabs
    slab,       \* slab[s]: backed (slab->addr is set), state, first_free, bitmap
    live,       \* history: the blocks in use, pairs of slab and item
    twice,      \* history: a block in use was handed out again, or a shift was undefined
    dangling    \* a meta that was freed is in the list of metas

avars == <<metas, slab, live, twice, dangling>>

Meta == 1..MaxMetas
SlabId == Meta \X (1..SlabsPer)
None == Count + BPW      \* first_free of a full slab, (size_t)-1

Unused == [backed |-> FALSE, state |-> "empty", first |-> 0, bitmap |-> {}]

Init ==
    /\ metas = <<>>
    /\ slab = [s \in SlabId |-> Unused]
    /\ live = {} /\ twice = FALSE /\ dangling = FALSE

------------------------------------------------------------------------------
\* The bits of the bitmap that 1 << (n % BPW) stands for
Mask(n) ==
    IF n % BPW = IntBits - 1 THEN n..((n - (n % BPW)) + BPW - 1) ELSE {n}

Undefined(n) == n % BPW >= IntBits

\* bitmap_set, bitmap_clr and bitmap_get
BitmapSet(b, n) == b \union Mask(n)
BitmapClr(b, n) == b \ Mask(n)
BitmapGet(b, n) == Mask(n) \intersect b # {}

Words == (Count + BPW - 1) \div BPW

\* update_first_free: the first clear bit of the first word that is not full,
\* None if there is none below Count
FirstFree(b) ==
    LET bits(w) == (w * BPW)..((w + 1) * BPW - 1)
        free == {w \in 0..(Words - 1) : ~(bits(w) \subseteq b)}
        w == Min(free)
        n == IF bits(w) \intersect b = {} THEN w * BPW
             ELSE Min({i \in bits(w) : Mask(i) \intersect b = {}})
    IN  IF free = {} THEN None ELSE IF n >= Count THEN None ELSE n

Without(list, s) == SelectSeq(list, LAMBDA x : x # s)

\* The block n of slab s is handed out.
Taken(s, n) ==
    /\ live' = live \union {<<s, n>>}
    /\ twice' = (twice \/ <<s, n>> \in live \/ Undefined(n))
    /\ UNCHANGED dangling

\* get_free_block, from the first slab of the first partial list that is not
\* empty
AllocPartial(k) ==
    LET m == metas[k]
        s == Head(m.partial)
        n == slab[s].first
        b == BitmapSet(slab[s].bitmap, n)
        next == FirstFree(b)
    IN  /\ m.partial # <<>> /\ \A j \in 1..(k - 1) : metas[j].partial = <<>>
        /\ slab' = [slab EXCEPT ![s].bitmap = b, ![s].first = next,
                                ![s].state = IF next = None THEN "full" ELSE @]
        /\ metas' = IF next # None THEN metas
                    ELSE [metas EXCEPT ![k].partial = Without(@, s),
                                       ![k].full = Append(@, s)]
        /\ Taken(s, n)

\* A slab of an empty list gets its memory, if it has none, and its first block
\* is handed out.
FirstBlock(ms, k, s) ==
    /\ slab' = [slab EXCEPT ![s] = [backed |-> TRUE, state |-> "partial", first |-> 1,
                                    bitmap |-> BitmapSet(IF @.backed THEN @.bitmap ELSE {}, 0)]]
    /\ metas' = [ms EXCEPT ![k].empty = Without(@, s), ![k].partial = <<s>> \o @]
    /\ Taken(s, 0)

NoPartial == \A j \in DOMAIN metas : metas[j].partial = <<>>

\* The meta of the first empty slab
FirstEmpty(k) == metas[k].empty # <<>> /\ \A j \in 1..(k - 1) : metas[j].empty = <<>>

\* get_free_block without a partial slab: the first empty one
AllocEmpty(k) == NoPartial /\ FirstEmpty(k) /\ FirstBlock(metas, k, Head(metas[k].empty))

\* get_free_block returns NULL: there is no empty slab either, or slab_ctr finds
\* no memory for the first.
NoFreeBlock ==
    /\ NoPartial
    /\ \A k \in DOMAIN metas : FirstEmpty(k) => ~slab[Head(metas[k].empty)].backed

\* sma_meta_new: the new meta is first in the list, its slabs are empty.
NewMeta ==
    LET m == Len(metas) + 1
    IN  [full |-> <<>>, partial |-> <<>>, empty |-> [i \in 1..SlabsPer |-> <<m, i>>]]

\* sma_alloc with a new meta, the first slab of which gets its memory
AllocMeta ==
    /\ Len(metas) < MaxMetas /\ NoFreeBlock
    /\ FirstBlock(<<NewMeta>> \o metas, 1, Head(NewMeta.empty))

\* sma_alloc with a new meta when there is no memory for its first slab:
\* sma_meta_delete frees the meta, and leaves it in the list.
AllocFails ==
    /\ Len(metas) < MaxMetas /\ NoFreeBlock
    /\ metas' = <<[NewMeta EXCEPT !.empty = <<>>]>> \o metas
    /\ dangling' = TRUE
    /\ UNCHANGED <<slab, live, twice>>

\* sma_free: first_free when block n is freed
FirstAfterFree(s, n) == IF n < slab[s].first THEN n ELSE slab[s].first

\* Variant: the memory goes back and the slab stays in front.
CheckEmptyHead(k, s) ==
    LET m == metas[k]
        spare == m.empty # <<>> /\ slab[Head(m.empty)].backed
    IN  [keep |-> ~spare, empty |-> <<s>> \o m.empty]

\* check_free_slab of a slab without a block in use: its memory goes back if
\* the meta has an empty slab with memory already.
CheckEmpty(k, s) ==
    LET m == metas[k]
        spare == m.empty # <<>> /\ slab[Head(m.empty)].backed
    IN  [keep |-> ~spare, empty |-> IF spare THEN Append(m.empty, s) ELSE <<s>> \o m.empty]

\* sma_free of a block in use, with check_free_slab
Free(k, s, n) ==
    LET b == BitmapClr(slab[s].bitmap, n)
        first == FirstAfterFree(s, n)
        listed(l) == s \in ToSet(l)
        e == CheckEmpty(k, s)
    IN  /\ <<s, n>> \in live
        /\ listed(metas[k].partial) \/ listed(metas[k].full)
        /\ live' = live \ {<<s, n>>}
        /\ twice' = (twice \/ ~BitmapGet(slab[s].bitmap, n))
        /\ UNCHANGED dangling
        /\ \/ /\ slab[s].state = "full"
              /\ slab' = [slab EXCEPT ![s].bitmap = b, ![s].first = first, ![s].state = "partial"]
              /\ metas' = [metas EXCEPT ![k].full = Without(@, s), ![k].partial = <<s>> \o @]
           \/ /\ slab[s].state # "full" /\ b # {}
              /\ slab' = [slab EXCEPT ![s].bitmap = b, ![s].first = first]
              /\ UNCHANGED metas
           \/ /\ slab[s].state # "full" /\ b = {}
              /\ slab' = [slab EXCEPT ![s].bitmap = b, ![s].first = first, ![s].state = "empty",
                                      ![s].backed = e.keep]
              /\ metas' = [metas EXCEPT ![k].partial = Without(@, s), ![k].empty = e.empty]

\* The calls until one finds a meta in the list that was freed, from where on
\* nothing is known
Next ==
    /\ ~dangling
    /\ \/ \E k \in DOMAIN metas : AllocPartial(k) \/ AllocEmpty(k)
       \/ AllocMeta \/ AllocFails
       \/ \E k \in DOMAIN metas, s \in SlabId, n \in 0..(Count - 1) : Free(k, s, n)

Spec == Init /\ [][Next]_avars

------------------------------------------------------------------------------
\* No block is handed out while it is in use, and none is reported as a double
\* free that is not one, although a word of the bitmap is wider than the int
\* the masks are made of: no shift is by IntBits or more, since the sign
\* extension of the last mask makes the rest of its word look taken.
NoBlockTwice == ~twice

\* The lists and the bitmaps agree with the blocks in use: a slab is on the
\* list of its state and on no other, a partial slab has a free block and
\* first_free is the lowest one, a full one has none that sma_alloc could use,
\* an empty one no block in use, and at most the first empty slab of a meta has
\* memory. Also when slabs get no memory, as long as it is not the first slab of
\* a new meta, which is then freed and yet in the list.
SlabsExact ==
    ~dangling => \A k \in DOMAIN metas : \A s \in SlabId :
        LET m == metas[k]
            of(list) == Cardinality({i \in DOMAIN list : list[i] = s})
            used == {n \in 0..(Count - 1) : <<s, n>> \in live}
            here == of(m.full) + of(m.partial) + of(m.empty) > 0
        IN  here =>
            /\ of(m.full) = IF slab[s].state = "full" THEN 1 ELSE 0
            /\ of(m.partial) = IF slab[s].state = "partial" THEN 1 ELSE 0
            /\ of(m.empty) = IF slab[s].state = "empty" THEN 1 ELSE 0
            /\ slab[s].state # "empty" => used # {} /\ slab[s].backed
            /\ slab[s].state = "empty" => used = {}
            /\ slab[s].state = "partial" => slab[s].first = FirstFree(slab[s].bitmap)
            /\ slab[s].state = "full" => FirstFree(slab[s].bitmap) = None
            /\ slab[s].state = "empty" /\ slab[s].backed => Head(m.empty) = s
==============================================================================
