---------------------------- MODULE Allocators -----------------------------
(***************************************************************************)
(* The allocators of memory: those of pages that pmm_manager can stand for *)
(* (mm/pmm.c), FirstFit and Buddy, and kmalloc (Slob).  Each implements    *)
(* the heap of PageHeap, the last with units for pages.                    *)
(***************************************************************************)
EXTENDS Integers, Sequences, FiniteSets, FiniteSetsExt

CONSTANTS
    PAGES,                          \* of FirstFit and Buddy
    MAX_SIZE, MAX_HELD,             \* of FirstFit
    MAX_ORDER,                      \* of Buddy
    SLOB_PAGES, UNITS               \* of Slob

ASSUME AllocatorsAssumption ==
    /\ PAGES \in Nat \ {0} /\ MAX_SIZE \in 1 .. PAGES /\ MAX_HELD \in 1 .. PAGES
    /\ MAX_ORDER \in Nat \ {0} /\ PAGES % 2^(MAX_ORDER - 1) = 0
    /\ SLOB_PAGES \in Nat \ {0} /\ UNITS \in Nat /\ UNITS > 3

VARIABLES
    manager,        \* the allocator looked at
    held, panic, property, PG_property, nr_free,
    list,           \* of FirstFit
    kernel, free_list,              \* of Buddy
    blocks, bigblocks, pool         \* of Slob

listVars == <<list>>
buddyVars == <<kernel, free_list>>
slobVars == <<blocks, bigblocks, pool>>
flagVars == <<panic, property, PG_property, nr_free>>
vars == <<manager, held, flagVars, listVars, buddyVars, slobVars>>

F == INSTANCE FirstFit WITH best <- manager = "best_fit"
B == INSTANCE Buddy
S == INSTANCE Slob WITH PAGES <- SLOB_PAGES

NoList == list = << >>
NoBuddy == kernel = 0 /\ free_list = << >>
NoSlob == blocks = << >> /\ bigblocks = {} /\ pool = {}

Init ==
    \/ /\ manager \in {"first_fit", "best_fit"} /\ F!Init
       /\ NoBuddy /\ NoSlob
    \/ /\ manager = "buddy" /\ B!Init
       /\ NoList /\ NoSlob
    \/ /\ manager = "kmalloc" /\ S!Init
       /\ panic = FALSE /\ property = << >> /\ PG_property = {} /\ nr_free = 0
       /\ NoList /\ NoBuddy

ListNext ==
    /\ manager \in {"first_fit", "best_fit"}
    /\ UNCHANGED <<manager, buddyVars, slobVars>>
    /\ F!Next

BuddyNext ==
    /\ manager = "buddy" /\ B!Next
    /\ UNCHANGED <<manager, listVars, slobVars>>

SlobNext ==
    /\ manager = "kmalloc" /\ S!Next
    /\ UNCHANGED <<manager, flagVars, listVars, buddyVars>>

Next == ListNext \/ BuddyNext \/ SlobNext

Spec == Init /\ [][Next]_vars

----------------------------------------------------------------------------
(* Properties *)

\* The list of free runs is one in both directions and in the order of the addresses,
\* no two of its runs touch, the flags say where they begin, and with what is in use they
\* are all of the memory, once (default_free_pages, best_fit_free_pages).
RunsExact ==
    manager \in {"first_fit", "best_fit"} => F!ListSorted /\ F!PagesPartitioned /\ F!FlagsExact

\* Whatever was halved and merged before, and wherever memory begins, the lists of
\* buddies and what is in use are all of the memory, once, and nr_free counts each list
\* (buddy_alloc_pages, buddy_free_pages).
BuddiesExact == manager = "buddy" => B!BuddyExact

\* The circular list leads from slobfree once around all free blocks in the order of
\* their addresses, no two of them touch, and with what is in use, the records of the
\* large blocks and the free pages they are all of the memory (slob_alloc, slob_free).
BlocksExact == manager = "kmalloc" => S!SlobExact

H == INSTANCE PageHeap WITH
    PAGES <- Max({PAGES, (SLOB_PAGES + 1) * UNITS}),
    free <- CASE manager = "buddy" -> B!FreePages
              [] manager = "kmalloc" -> S!FreeUnits
              [] OTHER -> F!FreePages

\* Each allocator implements the heap: it hands out free memory only, gives nobody a
\* part of what another still has, and takes all of it back (pmm_manager in mm/pmm.h,
\* kmalloc and kfree).
ImplementsHeap == H!Spec
=============================================================================
