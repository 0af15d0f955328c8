------------------------------ MODULE MCLibrary ------------------------------
(* Instances of Library for TLC.  The files that are dropped on the queue   *)
(* are alike; those of the list are not, one of them is already processed.  *)
EXTENDS Library, TLC

Symmetry == Permutations(Chosen)
==============================================================================
