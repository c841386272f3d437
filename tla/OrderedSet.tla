------------------------------ MODULE OrderedSet ------------------------------
(****************************************************************************)
(* What the callers of binarySearchTreeGeneric rely on: a set of indexes    *)
(* ordered by a distance.  A distance is a function d from indexes to       *)
(* numbers; in the code it is a float32 cosine distance, here a natural     *)
(* number, because only comparisons of distances are ever made.             *)
(* Module SearchTree checks that the tree of the code keeps these promises. *)
(****************************************************************************)
EXTENDS Integers, FiniteSets, Sequences

(* tree.minimum() and tree.maximum(): where distances tie, the shape of the *)
(* tree decides which of the tied indexes is returned.                      *)
Minima(S, d) == {x \in S : \A y \in S : d[x] <= d[y]}
Maxima(S, d) == {x \in S : \A y \in S : d[x] >= d[y]}

(* The lists flattenInOrder() may begin with, cut off after k elements: the  *)
(* k nearest members of S (all of S if it has fewer), nearest first.         *)
Nearest(S, d, k) ==
  LET n == IF Cardinality(S) < k THEN Cardinality(S) ELSE k
  IN {s \in [1 .. n -> S] :
        /\ \A i, j \in 1 .. n : i < j => s[i] # s[j] /\ d[s[i]] <= d[s[j]]
        /\ \A i \in 1 .. n : \A x \in S :
             d[x] < d[s[i]] => \E j \in 1 .. n : s[j] = x}
================================================================================
