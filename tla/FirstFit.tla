----------------------------- MODULE FirstFit ------------------------------
(***************************************************************************)
(* The first-fit and best-fit allocators of pages (mm/default_pmm.c of     *)
(* lab8, mm/best_fit_pmm.c of lab2) on their doubly linked list            *)
(* (libs/list.h).  A free block is represented by its first page, whose    *)
(* property is the length of the block.  Interrupts are off in every       *)
(* operation (mm/pmm.c), so each is one step.                              *)
(***************************************************************************)
EXTENDS Integers, Sequences, FiniteSets, FiniteSetsExt, SequencesExt

CONSTANTS
    PAGES,          \* pages of memory, numbered from 1
    MAX_SIZE,       \* the longest run anybody asks for
    MAX_HELD        \* how many pages are in use at most

VARIABLES
    best,           \* pmm_manager is the best-fit one
    list,           \* the fields next and prev of all list entries
    property,       \* page->property
    PG_property,    \* the pages with this flag
    nr_free,
    held,           \* the runs in use, as <<first page, length>>
    panic           \* an assertion has failed

vars == <<best, list, property, PG_property, nr_free, held, panic>>

Page == 1 .. PAGES
free_list == 0                      \* the list's head
Entry == Page \cup {free_list}
Pages(base, n) == base .. base + n - 1
InUse == MapThenSumSet(LAMBDA h : h[2], held)

----------------------------------------------------------------------------
(* list.h *)

\* __list_add(elm, p, n)
add(l, elm, p, n) == [next |-> [l.next EXCEPT ![p] = elm, ![elm] = n],
                      prev |-> [l.prev EXCEPT ![n] = elm, ![elm] = p]]

list_add(l, e, elm) == add(l, elm, e, l.next[e])

list_add_before(l, e, elm) == add(l, elm, l.prev[e], e)

list_del(l, e) == [next |-> [l.next EXCEPT ![l.prev[e]] = l.next[e]],
                   prev |-> [l.prev EXCEPT ![l.next[e]] = l.prev[e]]]

\* The entries in the order of list_next, from the first to the last one
\* before the head.
Walk(l) ==
    LET nth[i \in 0 .. PAGES + 1] == IF i = 0 THEN free_list ELSE l.next[nth[i - 1]]
        len == Min({i \in 1 .. PAGES + 1 : nth[i] = free_list} \cup {PAGES + 1})
    IN  [i \in 1 .. len - 1 |-> nth[i]]

----------------------------------------------------------------------------

\* After init_memmap of all of the memory.
Init ==
    /\ best \in BOOLEAN
    /\ list = [next |-> [e \in Entry |-> IF e = free_list THEN 1 ELSE free_list],
               prev |-> [e \in Entry |-> IF e = free_list THEN 1 ELSE free_list]]
    /\ property = [p \in Page |-> IF p = 1 THEN PAGES ELSE 0]
    /\ PG_property = {1}
    /\ nr_free = PAGES
    /\ held = {}
    /\ panic = FALSE

\* The list without block page, but with what is left of it behind n pages.
Unlinked(page, n) ==
    LET l == list_del(list, page)
    IN  IF property[page] > n THEN list_add(l, list.prev[page], page + n) ELSE l

\* The place in w of the block that n pages are taken from, 0 if there is none.
FirstFit(w, n) == SelectInSeq(w, LAMBDA p : property[p] >= n)

\* The first of the smallest blocks that are long enough.
BestFit(w, n) ==
    LET fits == {property[p] : p \in {p \in ToSet(w) : property[p] >= n}}
    IN  IF fits = {} THEN 0 ELSE SelectInSeq(w, LAMBDA p : property[p] = Min(fits))

\* default_alloc_pages(n), if it finds a block.
Alloc(n) ==
    /\ ~ panic /\ InUse + n <= MAX_HELD
    /\ n <= nr_free
    /\ LET w == Walk(list)
           k == IF best THEN BestFit(w, n) ELSE FirstFit(w, n)
           page == w[k]
           splits == property[page] > n
       IN  /\ k > 0
           /\ list' = Unlinked(page, n)
           /\ property' = IF splits THEN [property EXCEPT ![page + n] = property[page] - n]
                          ELSE property
           /\ PG_property' = (PG_property \ {page})
                                \cup (IF splits THEN {page + n} ELSE {})
           /\ nr_free' = nr_free - n
           /\ held' = held \cup {<<page, n>>}
    /\ UNCHANGED <<best, panic>>

\* The loop of default_free_pages that puts base where its address belongs.  If
\* no block lies above it, the loop appends it, goes on to base itself, finds it
\* to be the last entry and links it behind itself.
Inserted(base) ==
    LET w == Walk(list)
        k == SelectInSeq(w, LAMBDA p : base < p)
        appended == list_add(list, Last(w), base)
    IN  CASE w = << >> -> list_add(list, free_list, base)
          [] w # << >> /\ k > 0 -> list_add_before(list, w[k], base)
          [] w # << >> /\ k = 0 -> list_add(appended, base, base)

\* Deviation: only the block behind base is merged.
Merged_right(l, base, n) ==
    LET r == l.next[base]
        right == r # free_list /\ base + n = r
    IN  [list |-> IF right THEN list_del(l, r) ELSE l,
         gone |-> IF right THEN {r} ELSE {},
         head |-> base,
         size |-> n + (IF right THEN property[r] ELSE 0)]

\* The rest of it: the new block of n pages at base is merged with the one in
\* front of it, and the result with the one behind.
Merged(l, base, n) ==
    LET p == l.prev[base]
        left == p # free_list /\ p + (IF p = base THEN n ELSE property[p]) = base
        l2 == IF left THEN list_del(l, base) ELSE l
        b == IF left THEN p ELSE base
        size == IF left THEN property[p] + n ELSE n
        r == l2.next[b]
        right == r # free_list /\ b + size = r
    IN  [list |-> IF right THEN list_del(l2, r) ELSE l2,
         gone |-> (IF left THEN {base} ELSE {}) \cup (IF right THEN {r} ELSE {}),
         head |-> b,
         size |-> size + (IF right THEN property[r] ELSE 0)]

\* default_free_pages(base, n)
Free(base, n) ==
    /\ ~ panic /\ <<base, n>> \in held
    /\ LET m == Merged(Inserted(base), base, n)
       IN  /\ list' = m.list
           /\ property' = [property EXCEPT ![base] = n, ![m.head] = m.size]
           /\ PG_property' = (PG_property \cup {base}) \ m.gone
    /\ nr_free' = nr_free + n
    /\ held' = held \ {<<base, n>>}
    /\ panic' = (Pages(base, n) \cap PG_property # {})
    /\ UNCHANGED best

Next ==
    \/ \E n \in 1 .. MAX_SIZE : Alloc(n)
    \/ \E h \in held : Free(h[1], h[2])

Spec == Init /\ [][Next]_vars

----------------------------------------------------------------------------
(* Properties *)

Blocks == ToSet(Walk(list))
FreePages == UNION {Pages(b, property[b]) : b \in Blocks}

\* The list is a list in both directions, its blocks are in the order of their
\* addresses, and no two of them touch: what was split has been merged, so that
\* an allocation fails only if no run of free pages is long enough.
ListSorted ==
    LET w == Walk(list)
        e == <<free_list>> \o w \o <<free_list>>
    IN  /\ \A i \in 2 .. Len(e) : list.next[e[i - 1]] = e[i] /\ list.prev[e[i]] = e[i - 1]
        /\ \A i \in 2 .. Len(w) : w[i - 1] + property[w[i - 1]] < w[i]

\* Every page is free or in use, and in one block or run only.
PagesPartitioned ==
    /\ FreePages \cup UNION {Pages(h[1], h[2]) : h \in held} = Page
    /\ MapThenSumSet(LAMBDA b : property[b], Blocks) + InUse = PAGES

\* The flag says which pages begin a free block; default_free_pages asserts that
\* what it takes back has no such page.
FlagsExact == PG_property = Blocks /\ ~ panic

\* "assert(total == nr_free_pages())" (default_check, mm/default_pmm.c:242): the
\* lengths of the blocks of the list add up to nr_free.
TotalIsNrFree == MapThenSumSet(LAMBDA b : property[b], Blocks) = nr_free
=============================================================================
