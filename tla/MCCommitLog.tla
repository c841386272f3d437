------------------------------ MODULE MCCommitLog ------------------------------
(* An instance of CommitLog for TLC: vectors on a line, as in MCHnsw.        *)
EXTENDS CommitLog

CONSTANTS w1, w2

Two == {w1, w2}

Position == <<0, 7, 1, 3, 12>>
Gap(a, b) == IF a < b THEN b - a ELSE a - b
OnALine ==
  [a \in Ids |-> [b \in Ids |-> Gap(Position[a + 1], Position[b + 1])]]
================================================================================
