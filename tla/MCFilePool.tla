---------------------------- MODULE MCFilePool -----------------------------
(* The calls of Acquire are interchangeable. *)
EXTENDS FilePool, TLC

Symmetry == Permutations(Boots)
=============================================================================
