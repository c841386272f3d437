------------------------------ MODULE MCTwoGraphs ------------------------------
(* An instance of TwoGraphs for TLC: vectors on a line, as in MCHnsw.  Its   *)
(* inductive invariant, Inv, can be checked on it as well.                   *)
EXTENDS TwoGraphsInvariant

Position == <<0, 7, 1, 3, 12>>
Gap(a, b) == IF a < b THEN b - a ELSE a - b
OnALine ==
  [a \in Ids |-> [b \in Ids |-> Gap(Position[a + 1], Position[b + 1])]]
================================================================================
