----------------------------- MODULE PageHeap ------------------------------
(***************************************************************************)
(* What an allocator of pages promises (mm/pmm.h): it hands out runs of    *)
(* free pages, and takes back what it has handed out.                      *)
(***************************************************************************)
EXTENDS Integers, FiniteSets

CONSTANT PAGES

VARIABLES
    free,           \* the free pages
    held            \* the runs handed out, as <<first page, length>>

Pages(base, n) == base .. base + n - 1

\* Memory begins and ends somewhere.
Init == \E first, last \in 1 .. PAGES : free = first .. last /\ held = {}

Alloc(base, n) ==
    /\ Pages(base, n) \subseteq free
    /\ free' = free \ Pages(base, n)
    /\ held' = held \cup {<<base, n>>}

Free(base, n) ==
    /\ <<base, n>> \in held
    /\ free' = free \cup Pages(base, n)
    /\ held' = held \ {<<base, n>>}

Next == \E base \in 1 .. PAGES, n \in 1 .. PAGES :
            Alloc(base, n) \/ Free(base, n)

Spec == Init /\ [][Next]_<<free, held>>
=============================================================================
