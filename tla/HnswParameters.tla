---------------------------- MODULE HnswParameters ----------------------------
(****************************************************************************)
(* What both ways of adding a vertex to an hnsw graph have in common.       *)
(****************************************************************************)
EXTENDS OrderedSet

CONSTANTS
  N,                  \* how many vertices are added; their ids are 0 .. N - 1
  MaxLevel,           \* bound: the highest level the random level may be
  maximumConnections, \* per vertex and level, twice as many on level 0
  Dist                \* Dist[a][b]: distBetweenNodes(a, b)

Ids == 0 .. N - 1
Levels == 0 .. MaxLevel

ASSUME NAssumption     == N \in Nat \ {0}
ASSUME LevelAssumption == MaxLevel \in Nat
ASSUME LimitAssumption == maximumConnections \in Nat \ {0}
ASSUME DistAssumption  == Dist \in [Ids -> [Ids -> Nat]]

Limit(l) == IF l = 0 THEN 2 * maximumConnections ELSE maximumConnections

(* No connections on any level: an empty map. *)
Unlinked == [l \in Levels |-> <<>>]

Elements(s) == {s[i] : i \in 1 .. Len(s)}
================================================================================
