------------------------------- MODULE SortedSet -------------------------------
(****************************************************************************)
(* What a binarySearchTreeGeneric is to its callers: a set of indexes, from *)
(* which they remove the nearest, the farthest, or a given index.           *)
(****************************************************************************)
EXTENDS OrderedSet

CONSTANTS
  Indexes,   \* the indexes that may be inserted
  Distances  \* the distance functions a query may induce on them

VARIABLES set, dist

vars == <<set, dist>>

Init == set = {} /\ dist \in Distances

Insert(i) == set' = set \cup {i} /\ UNCHANGED dist

RemoveNearest ==
  /\ \E i \in Minima(set, dist) : set' = set \ {i}
  /\ UNCHANGED dist

RemoveFarthest ==
  /\ \E i \in Maxima(set, dist) : set' = set \ {i}
  /\ UNCHANGED dist

Distinct == \A i, j \in Indexes : i # j => dist[i] # dist[j]

Remove(i) == Distinct /\ i \in set /\ set' = set \ {i} /\ UNCHANGED dist

Next ==
  \/ RemoveNearest
  \/ RemoveFarthest
  \/ \E i \in Indexes : Insert(i) \/ Remove(i)

Spec == Init /\ [][Next]_vars
================================================================================
