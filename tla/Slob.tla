-------------------------------- MODULE Slob --------------------------------
(***************************************************************************)
(* kmalloc and kfree (mm/kmalloc.c): a circular list of free blocks in     *)
(* pages of the page allocator, and whole pages for the large requests.    *)
(* The kernel is not preempted, so each call is one step.  Addresses are   *)
(* counted in units of sizeof(slob_t), one page is UNITS of them.          *)
(***************************************************************************)
EXTENDS Integers, Sequences, FiniteSets, FiniteSetsExt, SequencesExt

CONSTANTS
    PAGES,          \* pages the page allocator has for kmalloc
    UNITS           \* units of a page

VARIABLES
    blocks,         \* the free blocks as <<address, units>>, from slobfree on
    bigblocks,      \* the large blocks as <<address of the record, order, address>>
    pool,           \* the pages the page allocator still has
    held            \* what kmalloc has returned, as <<address, units>>

vars == <<blocks, bigblocks, pool, held>>

Page == {p * UNITS : p \in 1 .. PAGES}
Units(base, n) == base .. base + n - 1
arena == <<0, 1>>
BIGBLOCK == 2                       \* units of a bigblock_t

\* The requests below a page that slob_alloc does not refuse with its assertion.
Size == 1 .. UNITS - 3
BigOrder == 0 .. 1

Init ==
    /\ blocks = <<arena>>
    /\ bigblocks = {}
    /\ pool = Page
    /\ held = {}

\* The list l from place i on.
From(l, i) == SubSeq(l, i, Len(l)) \o SubSeq(l, 1, i - 1)

\* The list from the block on behind which b belongs: the one below b, or the highest.
Behind(l, b) ==
    LET next(i) == l[(i % Len(l)) + 1][1]
        place == SelectInSeq([i \in DOMAIN l |-> <<l[i][1], next(i)>>],
                    LAMBDA e : \/ e[1] < b /\ b < e[2]
                               \/ e[1] >= e[2] /\ (e[1] < b \/ b < e[2]))
    IN  From(l, place)

\* Deviation: a block does not merge with the one above it.
slob_free_below(l, b, n) ==
    LET f == Behind(l, b)
    IN  IF f[1][1] + f[1][2] = b THEN <<<<f[1][1], f[1][2] + n>>>> \o Tail(f)
        ELSE <<f[1], <<b, n>>>> \o Tail(f)

\* slob_free: n units at b go between their neighbours by address and merge with them.
slob_free(l, b, n) ==
    LET f == Behind(l, b)
        joins == Len(f) > 1 /\ b + n = f[2][1]
        units == IF joins THEN n + f[2][2] ELSE n
        rest == SubSeq(f, IF joins THEN 3 ELSE 2, Len(f))
    IN  IF f[1][1] + f[1][2] = b THEN <<<<f[1][1], f[1][2] + units>>>> \o rest
        ELSE <<f[1], <<b, units>>>> \o rest

\* The first block of n units behind slobfree, whose own turn is last: its place in
\* From(l, 2), 0 if there is none.
Fit(l, n) == SelectInSeq(From(l, 2), LAMBDA b : b[2] >= n)

\* Deviation: what is left of a block begins one unit too early.
Cut_early(l, n) ==
    LET f == From(From(l, 2), Fit(l, n))
        left == IF f[1][2] = n THEN << >> ELSE <<<<f[1][1] + n - 1, f[1][2] - n + 1>>>>
    IN  [addr |-> f[1][1], list |-> <<Last(f)>> \o left \o SubSeq(f, 2, Len(f) - 1)]

\* The block's address, and the list with what is left of it; slobfree is then the
\* block in front.
Cut(l, n) ==
    LET f == From(From(l, 2), Fit(l, n))
        left == IF f[1][2] = n THEN << >> ELSE <<<<f[1][1] + n, f[1][2] - n>>>>
    IN  [addr |-> f[1][1], list |-> <<Last(f)>> \o left \o SubSeq(f, 2, Len(f) - 1)]

\* What slob_alloc of n units may do with the pages pg of the page allocator: it takes
\* a page when no block is large enough, and fails if there is none.
slob_alloc(l, pg, n) ==
    IF Fit(l, n) > 0 THEN {[r |-> Cut(l, n), pool |-> pg]}
    ELSE {[r |-> Cut(slob_free(l, p, UNITS), n), pool |-> pg \ {p}] : p \in pg}

\* kmalloc of n units, less than a page, and a unit in front of them for the header.
kmalloc(n) ==
    /\ \E a \in slob_alloc(blocks, pool, n + 1) :
            /\ blocks' = a.r.list
            /\ pool' = a.pool
            /\ held' = held \cup {<<a.r.addr + 1, n>>}
    /\ UNCHANGED bigblocks

\* alloc_pages(1 << order) takes any run of free pages.
alloc_pages(pg, order) ==
    {p \in pg : \A i \in 1 .. 2^order - 1 : p + i * UNITS \in pg}

\* kmalloc of a page and more: a record of it comes from the blocks, and goes back
\* when there are no pages.
kmalloc_big(order) ==
    \E a \in slob_alloc(blocks, pool, BIGBLOCK) :
        LET run == alloc_pages(a.pool, order)
        IN  \/ /\ run = {}
               /\ blocks' = slob_free(a.r.list, a.r.addr, BIGBLOCK)
               /\ pool' = a.pool
               /\ UNCHANGED <<bigblocks, held>>
            \/ \E p \in run :
                /\ blocks' = a.r.list
                /\ pool' = a.pool \ {p + i * UNITS : i \in 0 .. 2^order - 1}
                /\ bigblocks' = bigblocks \cup {<<a.r.addr, order, p>>}
                /\ held' = held \cup {<<p, 2^order * UNITS>>}

\* The large blocks that kfree takes address a for: only the start of a page can be one.
Large(a) == {bb \in bigblocks : a % UNITS = 0 /\ bb[3] = a}

\* kfree of a large block gives back its pages and its record.
kfree_big(h) ==
    /\ \E bb \in Large(h[1]) :
        /\ blocks' = slob_free(blocks, bb[1], BIGBLOCK)
        /\ bigblocks' = bigblocks \ {bb}
        /\ pool' = pool \cup {bb[3] + i * UNITS : i \in 0 .. 2^bb[2] - 1}
    /\ held' = held \ {h}

\* kfree of a small block, with the units that its header tells.
kfree(h) ==
    /\ Large(h[1]) = {}
    /\ blocks' = slob_free(blocks, h[1] - 1, h[2] + 1)
    /\ held' = held \ {h}
    /\ UNCHANGED <<bigblocks, pool>>

Next ==
    \/ \E n \in Size : kmalloc(n)
    \/ \E order \in BigOrder : kmalloc_big(order)
    \/ \E h \in held : kfree(h) \/ kfree_big(h)

----------------------------------------------------------------------------
(* Properties *)

Memory == UNITS .. (PAGES + 1) * UNITS - 1

\* The list goes through all free blocks in the order of their addresses and once
\* around; no two of them touch; with what is in use, the records of the large blocks
\* and the free pages they are all of the memory, each unit once.
SlobExact ==
    LET f == From(blocks, SelectInSeq(blocks, LAMBDA b : b = arena))
        large == {h \in held : \E bb \in bigblocks : bb[3] = h[1]}
        small == {<<h[1] - 1, h[2] + 1>> : h \in held \ large}
        records == {<<bb[1], BIGBLOCK>> : bb \in bigblocks}
        all == (ToSet(blocks) \ {arena}) \cup small \cup large \cup records
                    \cup {<<p, UNITS>> : p \in pool}
    IN  /\ arena \in ToSet(blocks)
        /\ \A i \in 2 .. Len(f) : f[i - 1][1] + f[i - 1][2] < f[i][1]
        /\ UNION {Units(b[1], b[2]) : b \in all} = Memory
        /\ MapThenSumSet(LAMBDA b : b[2], all) = PAGES * UNITS

FreeUnits == Memory \ UNION {Units(h[1], h[2]) : h \in held}
=============================================================================
