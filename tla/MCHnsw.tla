-------------------------------- MODULE MCHnsw --------------------------------
(* Instances of Hnsw for TLC: the vectors lie on a line, at positions such   *)
(* that no two distances from one of them are equal.                         *)
EXTENDS Hnsw

CONSTANTS w1, w2

One == {w1}
Two == {w1, w2}

Position == <<0, 7, 1, 3, 12>>
Gap(a, b) == IF a < b THEN b - a ELSE a - b
OnALine ==
  [a \in Ids |-> [b \in Ids |-> Gap(Position[a + 1], Position[b + 1])]]
================================================================================
