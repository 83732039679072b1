------------------------------- MODULE Buddy --------------------------------
(***************************************************************************)
(* The buddy allocator of pages (lab2, mm/buddy_pmm.c): blocks of 2^order  *)
(* pages, a list of the free ones for each order.  Every operation is one  *)
(* step.                                                                   *)
(***************************************************************************)
EXTENDS Integers, Sequences, FiniteSets, FiniteSetsExt, SequencesExt

CONSTANTS
    PAGES,          \* pages of memory, numbered from 1
    MAX_ORDER       \* as many orders as that, from 0; divides memory into largest blocks

VARIABLES
    kernel,         \* the pages in front of the first one that is given out
    free_list,      \* free_areas[order].free_list
    nr_free,        \* free_areas[order].nr_free
    property,       \* page->property
    PG_property,    \* the pages with this flag
    held,           \* the runs in use, as <<first page, length>>
    panic           \* an assertion has failed

vars == <<kernel, free_list, nr_free, property, PG_property, held, panic>>

Page == 1 .. PAGES
Order == 0 .. MAX_ORDER - 1
Pages(base, n) == base .. base + n - 1

\* The least order whose blocks have n pages, and the greatest whose blocks fit.
get_order(n) == Min({o \in Order : 2^o >= n} \cup {MAX_ORDER - 1})
largest_order(n) == Max({o \in Order : 2^o <= n})

\* buddy_init_memmap of the pages from first on: the blocks, as large as they can be.
Cut(first) ==
    LET cut[p \in first .. PAGES + 1] ==
            IF p = PAGES + 1 THEN << >>
            ELSE LET o == largest_order(PAGES + 1 - p) IN <<<<p, o>>>> \o cut[p + 2^o]
    IN  cut[first]

Init ==
    /\ kernel \in {0, 1}
    /\ LET blocks == Cut(kernel + 1)
           ofOrder(o) == SelectSeq(blocks, LAMBDA b : b[2] = o)
       IN  /\ free_list = [o \in Order |-> [i \in DOMAIN ofOrder(o) |-> ofOrder(o)[i][1]]]
           /\ nr_free = [o \in Order |-> Len(ofOrder(o))]
           /\ property = [p \in Page |->
                IF \E b \in ToSet(blocks) : b[1] = p
                THEN 2^(CHOOSE o \in Order : <<p, o>> \in ToSet(blocks)) ELSE 0]
           /\ PG_property = {b[1] : b \in ToSet(blocks)}
    /\ held = {}
    /\ panic = FALSE

\* buddy_alloc_pages(n): the first block of the least order that has one is halved
\* until it fits; the upper halves become free blocks.
Alloc(n) ==
    /\ ~ panic
    /\ LET target == get_order(n)
           orders == {o \in target .. MAX_ORDER - 1 : nr_free[o] > 0}
           found == Min(orders)
           page == Head(free_list[found])
           halves == {<<page + 2^o, o>> : o \in target .. found - 1}
       IN  /\ n <= 2^(MAX_ORDER - 1) /\ orders # {}
           /\ free_list' = [o \in Order |->
                    IF o = found THEN Tail(free_list[o])
                    ELSE IF o \in target .. found - 1 THEN Append(free_list[o], page + 2^o)
                    ELSE free_list[o]]
           /\ nr_free' = [o \in Order |->
                    IF o = found THEN nr_free[o] - 1
                    ELSE IF o \in target .. found - 1 THEN nr_free[o] + 1
                    ELSE nr_free[o]]
           /\ property' = [p \in Page |->
                    IF p = page THEN 2^target
                    ELSE IF \E h \in halves : h[1] = p THEN p - page ELSE property[p]]
           /\ PG_property' = (PG_property \ {page}) \cup {h[1] : h \in halves}
           /\ held' = held \cup {<<page, 2^target>>}
    /\ UNCHANGED <<kernel, panic>>

\* The page number is the address, counted from 0.
find_buddy(p, order) ==
    IF ((p - 1) \div 2^order) % 2 = 0 THEN p + 2^order ELSE p - 2^order

\* Deviation: the size of the buddy does not matter.
is_buddy_free_any(s, p, order) == p \in s.flags

is_buddy_free(s, p, order) == p \in s.flags /\ s.property[p] = 2^order

\* The loop of buddy_free_pages, from the state s with the block p of the order: the
\* buddy, if it is free, is taken out of its list and merged.  Only its flag is cleared:
\* if the buddy is the lower half the flag of p stays in the middle of the block.
merged(s, base, order) ==
    LET step(r) ==
            LET buddy == find_buddy(r.p, r.order)
                low == IF buddy < r.p THEN buddy ELSE r.p
            IN  IF buddy \notin Page \/ ~ is_buddy_free(r, buddy, r.order)
                THEN [r EXCEPT !.done = TRUE]
                ELSE [list |-> [r.list EXCEPT ![r.order] = SelectSeq(@, LAMBDA q : q # buddy)],
                      nr |-> [r.nr EXCEPT ![r.order] = @ - 1],
                      flags |-> r.flags \ {buddy},
                      property |-> [r.property EXCEPT ![low] = 2^(r.order + 1)],
                      p |-> low, order |-> r.order + 1, done |-> FALSE]
        upto[i \in order .. MAX_ORDER - 1] ==
            IF i = order THEN [list |-> s.list, nr |-> s.nr, flags |-> s.flags,
                               property |-> s.property, p |-> base, order |-> order,
                               done |-> FALSE]
            ELSE IF upto[i - 1].done THEN upto[i - 1] ELSE step(upto[i - 1])
    IN  upto[MAX_ORDER - 1]

\* buddy_free_pages(base, n), with the length that was given out.
Free(base, n) ==
    /\ ~ panic /\ <<base, n>> \in held
    /\ LET order == get_order(n)
           r == merged([list |-> free_list, nr |-> nr_free,
                        flags |-> PG_property \cup {base},
                        property |-> [property EXCEPT ![base] = n]], base, order)
       IN  /\ free_list' = [r.list EXCEPT ![r.order] = Append(@, r.p)]
           /\ nr_free' = [r.nr EXCEPT ![r.order] = @ + 1]
           /\ property' = r.property
           /\ PG_property' = r.flags
           /\ panic' = (base \in PG_property \/ 2^order # n)
    /\ held' = held \ {<<base, n>>}
    /\ UNCHANGED kernel

Next ==
    \/ \E order \in Order : Alloc(2^order)
    \/ \E h \in held : Free(h[1], h[2])

----------------------------------------------------------------------------
(* Properties *)

\* The free blocks, as <<first page, length>>.
FreeBlocks == UNION {{<<p, 2^o>> : p \in ToSet(free_list[o])} : o \in Order}

FreePages == UNION {Pages(b[1], b[2]) : b \in FreeBlocks}

\* Every page behind the kernel is in one free block or in one run in use, and the
\* counters count the blocks of the lists.
BuddyExact ==
    /\ ~ panic
    /\ \A o \in Order : nr_free[o] = Len(free_list[o])
    /\ FreePages \cup UNION {Pages(h[1], h[2]) : h \in held} = kernel + 1 .. PAGES
    /\ MapThenSumSet(LAMBDA b : b[2], FreeBlocks \cup held) = PAGES - kernel

=============================================================================
