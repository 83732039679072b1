----------------------------- MODULE FileStore -----------------------------
(***************************************************************************)
(* What a file system promises of the contents of its files: they belong   *)
(* to one file each, a write changes what it covers, and a new size leaves *)
(* what lies below it as it was.                                           *)
(***************************************************************************)
EXTENDS Integers

CONSTANTS
    File, Zero,
    BLKSIZE, MAX_BLOCKS, MAX_SIZE

VARIABLES
    data,           \* the block of a file at an index: Zero, or what f writes there
    size

Index == 0 .. MAX_BLOCKS - 1
Written(f, i) == <<f, i>>

Init ==
    /\ data = [f \in File |-> [i \in Index |-> Zero]]
    /\ size = [f \in File |-> 0]

\* A write to the blocks from first to last, as far as it gets; the size is no
\* part of it.
Write(f, first, last) ==
    /\ UNCHANGED size
    /\ data' = [data EXCEPT ![f] =
                    [i \in Index |-> IF i \in first .. last THEN Written(f, i) ELSE @[i]]]

\* The blocks that hold the first len bytes.
Below(len) == {i \in Index : i * BLKSIZE < len}

\* Whatever lies beyond the old or the new size may be cleared.
Resize(f, len) ==
    /\ size' = [size EXCEPT ![f] = len]
    /\ \E kept \in SUBSET Index :
        /\ Below(len) \cap Below(size[f]) \subseteq kept
        /\ data' = [data EXCEPT ![f] = [i \in Index |-> IF i \in kept THEN @[i] ELSE Zero]]

Next == \E f \in File :
            \/ \E first, last \in Index : Write(f, first, last)
            \/ \E len \in 0 .. MAX_SIZE : Resize(f, len)

Spec == Init /\ [][Next]_<<data, size>>
=============================================================================
