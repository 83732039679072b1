----------------------------- MODULE Deadlines -----------------------------
(***************************************************************************)
(* What the timers of the kernel promise, without a list: each armed timer *)
(* has a number of ticks left, a clock tick takes one from every one of    *)
(* them, and before the next thing happens exactly those that have run out *)
(* fire.                                                                   *)
(***************************************************************************)
EXTENDS Integers, Functions

CONSTANTS
    Proc,       \* the owners of timers
    MaxTicks    \* the longest time a timer is armed for

VARIABLES
    left,       \* the ticks each armed timer has left
    firing      \* a tick has happened and its timers are firing

TypeOK ==
    /\ \E S \in SUBSET Proc : left \in [S -> 0 .. MaxTicks]
    /\ firing \in BOOLEAN

Init == left = << >> /\ firing = FALSE

RanOut == {p \in DOMAIN left : left[p] = 0}
Without(p) == Restrict(left, DOMAIN left \ {p})

Arm(p, ticks) ==
    /\ ~ firing /\ p \notin DOMAIN left
    /\ left' = [q \in DOMAIN left \cup {p} |-> IF q = p THEN ticks ELSE left[q]]
    /\ UNCHANGED firing

Cancel(p) ==
    /\ ~ firing
    /\ left' = Without(p)
    /\ UNCHANGED firing

Tick ==
    /\ ~ firing /\ firing' = TRUE
    /\ left' = [p \in DOMAIN left |-> left[p] - 1]

Fire(p) ==
    /\ firing /\ p \in RanOut
    /\ left' = Without(p)
    /\ UNCHANGED firing

Settle ==
    /\ firing /\ RanOut = {} /\ firing' = FALSE
    /\ UNCHANGED left

Next ==
    \/ \E p \in Proc : \/ \E ticks \in 1 .. MaxTicks : Arm(p, ticks)
                       \/ Cancel(p) \/ Fire(p)
    \/ Tick \/ Settle

Spec == Init /\ [][Next]_<<left, firing>>
=============================================================================
