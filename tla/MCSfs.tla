------------------------------- MODULE MCSfs --------------------------------
(* Sfs for TLC: files, and descriptors, are interchangeable. *)
EXTENDS Sfs, TLC

SfsSymmetry == Permutations(File) \cup Permutations(Fd)
=============================================================================
