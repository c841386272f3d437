----------------------------- MODULE MCSearchTree -----------------------------
(* An instance of SearchTree for TLC: five indexes under every distance      *)
(* function with at most three distances, where ties abound, and under one   *)
(* without ties.                                                             *)
EXTENDS OlderTree

MCIndexes == 1 .. 5
MCDistances == [MCIndexes -> 0 .. 2] \cup {[i \in MCIndexes |-> i]}
================================================================================
