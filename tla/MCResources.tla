---------------------------- MODULE MCResources -----------------------------
(* Resources for TLC: proc_structs, and files, are interchangeable. *)
EXTENDS Resources, TLC

ResourceSymmetry == Permutations(Proc) \cup Permutations(File)
=============================================================================
