------------------------------- MODULE MCVectors -------------------------------
(* An instance of Vectors for TLC: which caller and which id makes no        *)
(* difference.                                                               *)
EXTENDS Vectors, TLC

Symmetry == Permutations(Callers) \cup Permutations(Keys)
================================================================================
