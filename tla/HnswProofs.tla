------------------------------ MODULE HnswProofs ------------------------------
(****************************************************************************)
(* Proofs about Hnsw, for every number of workers and jobs, every distance  *)
(* and every value of the limits; last, what holds besides when there is    *)
(* one worker.                                                              *)
(****************************************************************************)
EXTENDS Hnsw, FiniteSetTheorems, TLAPS

-------------------------------------------------------------------------------
(* Sets of ids are finite, so that counting them is arithmetic. *)
LEMMA IdsFinite ==
  ASSUME NEW S, S \subseteq Ids
  PROVE  IsFiniteSet(S) /\ Cardinality(S) \in Nat
<1>1. IsFiniteSet(Ids)
  BY NAssumption, FS_Interval DEF Ids
<1> QED
  BY <1>1, FS_Subset, FS_CardinalityType

(* A list of the nearest of some ids holds only those ids, not more than     *)
(* were asked for, and at least one if there is one.                         *)
LEMMA NearestList ==
  ASSUME NEW S, S \subseteq Ids, NEW d, NEW k \in Nat, k > 0,
         NEW s \in Nearest(S, d, k)
  PROVE  /\ s \in Seq(Ids)
         /\ Elements(s) \subseteq S
         /\ Len(s) <= k
         /\ S # {} => Len(s) > 0
<1>1. IsFiniteSet(S) /\ Cardinality(S) \in Nat
  BY IdsFinite
<1>2. PICK n \in Nat : /\ n = (IF Cardinality(S) < k THEN Cardinality(S) ELSE k)
                       /\ s \in [1 .. n -> S]
  BY <1>1 DEF Nearest
<1>3. s \in Seq(S) /\ Len(s) = n
  BY <1>2
<1>4. S # {} => n > 0
  BY <1>1, <1>2, FS_EmptySet
<1> QED
  BY <1>2, <1>3, <1>4 DEF Elements

(* The elements of a list after the operations on lists the model uses. *)
LEMMA ElementsOf ==
  ASSUME NEW s \in Seq(Ids)
  PROVE  /\ Elements(s) \subseteq Ids
         /\ Elements(<<>>) = {}
         /\ s # <<>> => /\ Head(s) \in Elements(s)
                        /\ Tail(s) \in Seq(Ids)
                        /\ Elements(Tail(s)) \subseteq Elements(s)
         /\ \A x \in Ids : /\ Append(s, x) \in Seq(Ids)
                           /\ Elements(Append(s, x)) = Elements(s) \cup {x}
BY DEF Elements

(* Ids and levels are numbers, 0 among them. *)
LEMMA IdsAndLevels ==
  /\ 0 \in Ids /\ 0 \in Levels
  /\ \A v \in Ids : v \in Nat
  /\ \A l \in Levels : l \in Nat /\ (l > 0 => l - 1 \in Levels)
BY NAssumption, LevelAssumption DEF Ids, Levels

-------------------------------------------------------------------------------
(* Type correctness.  It is inductive only together with the facts that make *)
(* Neighbor(w) meaningful: the position is within the chosen list, and the   *)
(* search a list is chosen from never loses its last result.                 *)
Linking == {"link", "linkSelf", "count", "prune"}

Position(w) ==
  /\ pc[w] \in Linking => idx[w] \in 1 .. Len(chosen[w][layer[w]])
  /\ pc[w] \in {"max", "add", "search"} \cup Linking => results[w] # {}
  /\ pc[w] = "search" => results[w] \subseteq visited[w]

Positions == \A w \in Workers : Position(w)

TypeInv == TypeOK /\ Positions

LEMMA UnlinkedType ==
  /\ Unlinked \in [Levels -> Seq(Ids)]
  /\ \A l \in Levels : Unlinked[l] = <<>>
BY DEF Unlinked

LEMMA InitTypeInv == Init => TypeInv
<1>1. Init => TypeOK
  BY IdsAndLevels, UnlinkedType, NAssumption
     DEF Init, TypeOK, PcValues, Trees
<1>2. Init => Positions
  BY DEF Init, Positions, Position, Linking
<1> QED
  BY <1>1, <1>2 DEF TypeInv

LEMMA LimitType == \A l \in Levels : Limit(l) \in Nat /\ Limit(l) > 0
BY LimitAssumption DEF Limit

LEMMA NeighborType ==
  ASSUME TypeInv, NEW w \in Workers, pc[w] \in Linking
  PROVE  /\ Neighbor(w) \in Ids
         /\ Neighbor(w) \in Elements(chosen[w][layer[w]])
<1> DEFINE list == chosen[w][layer[w]]
<1>1. list \in Seq(Ids) /\ idx[w] \in 1 .. Len(list)
  BY DEF TypeInv, TypeOK, Positions, Position
<1>2. list[idx[w]] \in Ids /\ list[idx[w]] \in Elements(list)
  BY <1>1 DEF Elements
<1> QED
  BY <1>2 DEF Neighbor

(* Replacing or extending one list of a vertex. *)
LEMMA ReplaceLinks ==
  ASSUME TypeOK, NEW v \in Ids, NEW l \in Levels, NEW s \in Seq(Ids),
         connections' = [connections EXCEPT ![v][l] = s]
  PROVE  /\ connections' \in [Ids -> [Levels -> Seq(Ids)]]
         /\ \A u \in Ids, k \in Levels :
              connections'[u][k] = IF u = v /\ k = l THEN s ELSE connections[u][k]
BY DEF TypeOK

LEMMA AppendLink ==
  ASSUME TypeOK, NEW v \in Ids, NEW l \in Levels, NEW x \in Ids
  PROVE  connections' = [connections EXCEPT ![v][l] = Append(@, x)] =>
           /\ connections' \in [Ids -> [Levels -> Seq(Ids)]]
           /\ \A u \in Ids, k \in Levels :
                connections'[u][k] =
                  IF u = v /\ k = l THEN Append(connections[v][l], x)
                                    ELSE connections[u][k]
<1>1. ASSUME connections' = [connections EXCEPT ![v][l] = Append(@, x)]
      PROVE  /\ connections' \in [Ids -> [Levels -> Seq(Ids)]]
             /\ \A u \in Ids, k \in Levels :
                  connections'[u][k] =
                    IF u = v /\ k = l THEN Append(connections[v][l], x)
                                      ELSE connections[u][k]
  <2>1. PICK longer \in Seq(Ids) : longer = Append(connections[v][l], x)
    <3>1. connections[v][l] \in Seq(Ids)
      BY DEF TypeOK
    <3>2. Append(connections[v][l], x) \in Seq(Ids)
      BY <3>1
    <3> QED
      BY <3>2
  <2>2. connections' = [connections EXCEPT ![v][l] = longer]
    BY <1>1, <2>1
  <2>3. /\ connections' \in [Ids -> [Levels -> Seq(Ids)]]
        /\ \A u \in Ids, k \in Levels :
             connections'[u][k] = IF u = v /\ k = l THEN longer ELSE connections[u][k]
    BY <2>2 DEF TypeOK
  <2> QED
    BY <2>1, <2>3
<1> QED
  BY <1>1

(* The locals that Position(u) depends on are those of u. *)
SameElsewhere(w) ==
  \A u \in Workers \ {w} :
    /\ pc'[u] = pc[u] /\ idx'[u] = idx[u] /\ chosen'[u] = chosen[u]
    /\ layer'[u] = layer[u] /\ results'[u] = results[u]
    /\ visited'[u] = visited[u]

LEMMA PositionFrame ==
  ASSUME Positions, NEW w \in Workers, Position(w)', SameElsewhere(w)
  PROVE  Positions'
BY DEF Positions, Position, SameElsewhere

(* The end of the loop body, which two actions share. *)
LEMMA AdvanceTypes ==
  ASSUME TypeInv, NEW w \in Workers, pc[w] \in {"count", "prune"}, Advance(w),
         UNCHANGED <<node, chosen>>
  PROVE  /\ Positions'
         /\ pc' \in [Workers -> PcValues]
         /\ layer' \in [Workers -> Levels]
         /\ visited' \in Trees /\ candidates' \in Trees /\ results' \in Trees
         /\ todo' \in [Workers -> Seq(Ids)]
         /\ worst' \in [Workers -> Nat]
         /\ idx' \in [Workers -> Nat]
         /\ snapshot' \in [Workers -> Seq(Ids)]
<1> USE DEF TypeInv, TypeOK, Trees
<1>1. snapshot' \in [Workers -> Seq(Ids)]
  BY DEF Advance
<1>2. idx[w] \in 1 .. Len(chosen[w][layer[w]]) /\ results[w] # {}
  BY DEF Positions, Position, Linking
<1>3. chosen[w][layer[w]] \in Seq(Ids) /\ layer[w] \in Nat
  BY IdsAndLevels
<1>4. CASE idx[w] < Len(chosen[w][layer[w]]) /\ idx' = [idx EXCEPT ![w] = @ + 1]
           /\ pc' = [pc EXCEPT ![w] = "link"] /\ UNCHANGED <<layer, search>>
  <2>1. idx'[w] \in 1 .. Len(chosen[w][layer[w]]) /\ idx' \in [Workers -> Nat]
    <3>1. /\ idx'[w] = idx[w] + 1 /\ idx[w] \in Nat /\ idx[w] >= 1
          /\ idx[w] < Len(chosen[w][layer[w]])
      BY <1>2, <1>4
    <3>2. Len(chosen[w][layer[w]]) \in Nat
      BY <1>3
    <3>3. idx'[w] \in 1 .. Len(chosen[w][layer[w]])
      <4> HIDE DEF TypeInv, TypeOK, Trees
      <4> QED
        BY <3>1, <3>2
    <3>4. idx \in [Workers -> Nat]
      OBVIOUS
    <3>5. idx' \in [Workers -> Nat]
      <4> HIDE DEF TypeInv, TypeOK, Trees
      <4> QED
        BY <1>4, <3>4
    <3> QED
      BY <3>3, <3>5
  <2>3. Position(w)'
    BY <1>2, <1>4, <2>1 DEF search, Position, Linking
  <2>2. SameElsewhere(w)
    BY <1>4 DEF search, SameElsewhere
  <2> QED
    BY <1>1, <1>4, <2>1, <2>2, <2>3, PositionFrame DEF search, PcValues
<1>5. CASE layer[w] > 0 /\ layer' = [layer EXCEPT ![w] = @ - 1]
           /\ StartSearch(w, results[w]) /\ pc' = [pc EXCEPT ![w] = "search"]
           /\ UNCHANGED idx
  <2>1. Position(w)'
    BY <1>2, <1>5 DEF StartSearch, Position, Linking
  <2>2. SameElsewhere(w)
    BY <1>5 DEF StartSearch, SameElsewhere
  <2>3. layer' \in [Workers -> Levels]
    BY <1>3, <1>5, IdsAndLevels
  <2> QED
    BY <1>1, <1>5, <2>1, <2>2, <2>3, PositionFrame DEF StartSearch, PcValues
<1>6. CASE pc' = [pc EXCEPT ![w] = "raise"] /\ UNCHANGED <<layer, search, idx>>
  <2>1. Position(w)' /\ SameElsewhere(w)
    BY <1>6 DEF search, Position, Linking, SameElsewhere
  <2> QED
    BY <1>1, <1>6, <2>1, PositionFrame DEF search, PcValues
<1> QED
  BY <1>4, <1>5, <1>6 DEF Advance

LEMMA StepTypeInv ==
  ASSUME TypeInv, NEW w \in Workers, Take(w) \/ Insert(w)
  PROVE  TypeInv'
<1> USE DEF TypeInv
<1>1. CASE Take(w)
  <2>3. jobs \in Ids
    BY <1>1, NAssumption DEF Take, TypeOK, Ids
  <2>4. jobs' \in 0 .. N
    BY <1>1, NAssumption DEF Take, TypeOK
  <2>5. chosen' \in [Workers -> [Levels -> Seq(Ids)]]
    BY <1>1, UnlinkedType DEF Take, TypeOK
  <2>1. TypeOK'
    BY <1>1, <2>3, <2>4, <2>5 DEF Take, graph, search, TypeOK, PcValues
  <2>2. Position(w)' /\ SameElsewhere(w)
    BY <1>1 DEF Take, search, TypeOK, Positions, Position, SameElsewhere, Linking
  <2> QED
    BY <2>1, <2>2, PositionFrame
<1>2. CASE ReadTotal(w)
  <2>1. TypeOK'
    BY <1>2 DEF ReadTotal, graph, search, TypeOK, PcValues
  <2>2. Position(w)' /\ SameElsewhere(w)
    BY <1>2 DEF ReadTotal, search, TypeOK, Positions, Position, SameElsewhere, Linking
  <2> QED
    BY <2>1, <2>2, PositionFrame
<1>3. CASE LockFirst(w)
  <2>1. TypeOK'
    BY <1>3 DEF LockFirst, search, TypeOK, PcValues
  <2>2. Position(w)' /\ SameElsewhere(w)
    BY <1>3 DEF LockFirst, search, TypeOK, Positions, Position, SameElsewhere, Linking
  <2> QED
    BY <2>1, <2>2, PositionFrame
<1>4. CASE FirstInsert(w)
  <2>3. connections' \in [Ids -> [Levels -> Seq(Ids)]]
    BY <1>4, UnlinkedType DEF FirstInsert, TypeOK
  <2>4. hooks' \subseteq Hooks
    <3>1. [node |-> node[w], target |-> 0, neighbors |-> Unlinked, live |-> TRUE]
            \in Hooks
      BY IdsAndLevels, UnlinkedType DEF TypeOK, Hooks
    <3> QED
      BY <1>4, <3>1 DEF FirstInsert, TypeOK
  <2>1. TypeOK'
    <3>1. nodes' \subseteq Ids /\ levelOf' \in [Ids -> Levels] /\ firsts' \in Nat
      BY <1>4, IdsAndLevels DEF FirstInsert, TypeOK
    <3>2. /\ hlock' = {} /\ currentMaximumLayer' \in Levels
          /\ pc' \in [Workers -> PcValues]
      BY <1>4, IdsAndLevels DEF FirstInsert, TypeOK, PcValues
    <3>3. UNCHANGED <<entryPointID, jobs, node, layer, search, chosen, idx, snapshot>>
      BY <1>4 DEF FirstInsert
    <3> QED
      BY <2>3, <2>4, <3>1, <3>2, <3>3 DEF search, TypeOK
  <2>2. Position(w)' /\ SameElsewhere(w)
    BY <1>4 DEF FirstInsert, search, TypeOK, Positions, Position, SameElsewhere, Linking
  <2> QED
    BY <2>1, <2>2, PositionFrame
<1>5. CASE ReadEntryPoint(w)
  <2>1. TypeOK'
    BY <1>5 DEF ReadEntryPoint, graph, Trees, TypeOK, PcValues
  <2>2. Position(w)' /\ SameElsewhere(w)
    BY <1>5 DEF ReadEntryPoint, Trees, TypeOK, Positions, Position, SameElsewhere, Linking
  <2> QED
    BY <2>1, <2>2, PositionFrame
<1>6. CASE ReadMaximumLayer(w)
  <2>3. connections' \in [Ids -> [Levels -> Seq(Ids)]]
    BY <1>6, UnlinkedType DEF ReadMaximumLayer, TypeOK
  <2>4. levelOf' \in [Ids -> Levels]
    BY <1>6 DEF ReadMaximumLayer, TypeOK
  <2>1. TypeOK'
    BY <1>6, <2>3, <2>4 DEF ReadMaximumLayer, search, TypeOK, PcValues
  <2>2. Position(w)' /\ SameElsewhere(w)
    <3>1. /\ pc[w] = "max" /\ pc' = [pc EXCEPT ![w] = "add"]
          /\ layer' = [layer EXCEPT ![w] = currentMaximumLayer]
          /\ UNCHANGED <<search, chosen, idx>>
      BY <1>6 DEF ReadMaximumLayer
    <3> QED
      BY <3>1 DEF search, TypeOK, Positions, Position, SameElsewhere, Linking
  <2> QED
    BY <2>1, <2>2, PositionFrame
<1>7. CASE AddNode(w)
  <2>1. TypeOK'
    BY <1>7 DEF AddNode, StartSearch, Trees, TypeOK, PcValues
  <2>2. Position(w)' /\ SameElsewhere(w)
    BY <1>7 DEF AddNode, StartSearch, Trees, TypeOK, Positions, Position, SameElsewhere, Linking
  <2> QED
    BY <2>1, <2>2, PositionFrame
<1>8. ASSUME NEW c \in Ids, Expand(w, c)
      PROVE  TypeInv'
  <2>1. worst' \in [Workers -> Nat]
    BY <1>8, DistAssumption DEF Expand, TypeOK, Trees, Maxima
  <2>2. todo' \in [Workers -> Seq(Ids)] /\ pc' \in [Workers -> PcValues]
    <3>1. connections[c][layer[w]] \in Seq(Ids)
      BY <1>8 DEF TypeOK
    <3>2. todo' = todo \/ todo' = [todo EXCEPT ![w] = connections[c][layer[w]]]
      BY <1>8 DEF Expand
    <3>3. pc' = pc \/ pc' = [pc EXCEPT ![w] = "panic"]
      BY <1>8 DEF Expand
    <3> QED
      BY <3>1, <3>2, <3>3 DEF TypeOK, PcValues
  <2>3. candidates' \in Trees
    BY <1>8 DEF Expand, TypeOK, Trees
  <2>4. UNCHANGED <<graph, jobs, hooks, node, layer, visited, results, chosen, idx,
                    snapshot>>
    BY <1>8 DEF Expand
  <2>5. TypeOK'
    BY <2>1, <2>2, <2>3, <2>4 DEF TypeOK, graph
  <2>6. pc[w] = "search" /\ (pc' = pc \/ pc' = [pc EXCEPT ![w] = "panic"])
    BY <1>8 DEF Expand
  <2>7. Position(w)' /\ SameElsewhere(w)
    BY <2>4, <2>6 DEF TypeOK, Positions, Position, SameElsewhere, Linking
  <2> QED
    BY <2>5, <2>7, PositionFrame
<1>9. CASE Visit(w)
  <2> DEFINE v == Head(todo[w])
  <2>1. todo[w] \in Seq(Ids) /\ todo[w] # <<>>
    BY <1>9 DEF Visit, TypeOK
  <2>2. v \in Ids /\ Tail(todo[w]) \in Seq(Ids)
    BY <2>1
  <2> HIDE DEF v
  <2>3. todo' \in [Workers -> Seq(Ids)]
    BY <1>9, <2>2 DEF Visit, TypeOK
  <2>4. /\ visited' = [visited EXCEPT ![w] = @ \cup {v}]
        /\ \/ UNCHANGED <<candidates, results>>
           \/ /\ v \notin visited[w]
              /\ candidates' = [candidates EXCEPT ![w] = @ \cup {v}]
              /\ \/ results' = [results EXCEPT ![w] = @ \cup {v}]
                 \/ \E m : results' = [results EXCEPT ![w] = (@ \cup {v}) \ {m}]
    BY <1>9 DEF Visit, v
  <2>5. results[w] # {} /\ results[w] \subseteq visited[w] /\ pc[w] = "search"
    BY <1>9 DEF Visit, Positions, Position
  <2>12. /\ visited'[w] = visited[w] \cup {v}
         /\ \/ results'[w] = results[w]
            \/ v \notin visited[w] /\ results'[w] = results[w] \cup {v}
            \/ v \notin visited[w] /\ \E m : results'[w] = (results[w] \cup {v}) \ {m}
    BY <2>4 DEF TypeOK, Trees
  <2>6. results'[w] # {} /\ results'[w] \subseteq visited'[w]
    BY <2>12, <2>5
  <2>13. visited' \in Trees
    BY <2>2, <2>4 DEF TypeOK, Trees
  <2>14. candidates' \in Trees
    <3>1. candidates \in Trees /\ candidates[w] \cup {v} \in SUBSET Ids
      BY <2>2 DEF TypeOK, Trees
    <3>2. candidates' = candidates \/ candidates' = [candidates EXCEPT ![w] = @ \cup {v}]
      BY <2>4
    <3> QED
      BY <3>1, <3>2 DEF Trees
  <2>15. results' \in Trees
    <3>1. results \in Trees /\ results[w] \cup {v} \in SUBSET Ids
      BY <2>2 DEF TypeOK, Trees
    <3>2. ASSUME NEW m, results' = [results EXCEPT ![w] = (@ \cup {v}) \ {m}]
          PROVE  results' \in Trees
      <4>1. (results[w] \cup {v}) \ {m} \in SUBSET Ids
        BY <3>1
      <4> QED
        BY <3>1, <3>2, <4>1 DEF Trees
    <3> QED
      BY <2>4, <3>1, <3>2 DEF Trees
  <2>7. visited' \in Trees /\ candidates' \in Trees /\ results' \in Trees
    BY <2>13, <2>14, <2>15
  <2>8. UNCHANGED <<graph, jobs, hooks, pc, node, layer, worst, chosen, idx, snapshot>>
    BY <1>9 DEF Visit
  <2>9. TypeOK'
    BY <2>3, <2>7, <2>8 DEF TypeOK, graph
  <2>10. Position(w)'
    BY <2>5, <2>6, <2>8 DEF Position, Linking
  <2>11. SameElsewhere(w)
    BY <2>4, <2>8 DEF TypeOK, Trees, SameElsewhere
  <2> QED
    BY <2>9, <2>10, <2>11, PositionFrame
<1>10. CASE Descend(w)
  <2>1. layer[w] \in Levels /\ levelOf[node[w]] \in Levels
        /\ layer[w] > levelOf[node[w]]
    BY <1>10 DEF Descend, Descending, TypeOK
  <2>2. layer' \in [Workers -> Levels]
    <3>1. layer[w] - 1 \in Levels
      <4>1. layer[w] \in Nat /\ levelOf[node[w]] \in Nat
        BY <2>1, IdsAndLevels
      <4>2. layer[w] > 0
        BY <2>1, <4>1
      <4> QED
        BY <2>1, <4>2, IdsAndLevels
    <3> QED
      BY <1>10, <3>1 DEF Descend, TypeOK
  <2>3. PICK best \in results[w] : StartSearch(w, {best})
    BY <1>10 DEF Descend, Minima
  <2>4. best \in Ids /\ pc[w] = "search"
    BY <1>10, <2>3 DEF Descend, SearchOver, TypeOK, Trees
  <2>5. UNCHANGED <<graph, jobs, hooks, pc, node, chosen, idx, snapshot>>
    BY <1>10 DEF Descend
  <2>6. TypeOK'
    BY <2>2, <2>3, <2>4, <2>5 DEF StartSearch, graph, TypeOK, Trees
  <2>7. Position(w)'
    BY <2>3, <2>4, <2>5 DEF StartSearch, TypeOK, Trees, Position, Linking
  <2>8. SameElsewhere(w)
    BY <1>10, <2>3, <2>5 DEF Descend, StartSearch, TypeOK, Trees, SameElsewhere
  <2> QED
    BY <2>6, <2>7, <2>8, PositionFrame
<1>11. CASE SelectNeighbors(w)
  <2>1. PICK s \in Nearest(results[w], DistTo(w), maximumConnections) :
               chosen' = [chosen EXCEPT ![w][layer[w]] = s]
    BY <1>11 DEF SelectNeighbors
  <2>2. pc[w] = "search" /\ results[w] # {} /\ results[w] \subseteq Ids
    BY <1>11 DEF SelectNeighbors, SearchOver, Positions, Position, TypeOK, Trees
  <2>3. s \in Seq(Ids) /\ Len(s) > 0
    BY <2>1, <2>2, NearestList, LimitAssumption
  <2>4. chosen' \in [Workers -> [Levels -> Seq(Ids)]] /\ chosen'[w][layer[w]] = s
    BY <2>1, <2>3 DEF TypeOK
  <2>5. \A u \in Workers \ {w} : chosen'[u] = chosen[u]
    BY <2>1 DEF TypeOK
  <2>6. TypeOK'
    BY <1>11, <2>4 DEF SelectNeighbors, graph, TypeOK, PcValues, Trees
  <2>7. Position(w)'
    <3>1. pc'[w] = "link" /\ idx'[w] = 1 /\ UNCHANGED <<layer, results>>
      BY <1>11 DEF SelectNeighbors, TypeOK
    <3>2. 1 \in 1 .. Len(s)
      BY <2>3
    <3> QED
      BY <2>2, <2>4, <3>1, <3>2 DEF Position, Linking
  <2>8. SameElsewhere(w)
    BY <1>11, <2>5 DEF SelectNeighbors, TypeOK, Trees, SameElsewhere
  <2> QED
    BY <2>6, <2>7, <2>8, PositionFrame
<1>12. CASE LinkNeighbor(w)
  <2>1. Neighbor(w) \in Ids
    BY <1>12, NeighborType DEF LinkNeighbor, Linking
  <2>2. connections' \in [Ids -> [Levels -> Seq(Ids)]]
    <3>1. layer[w] \in Levels /\ node[w] \in Ids
      BY DEF TypeOK
    <3>2. \/ UNCHANGED connections
          \/ connections' =
               [connections EXCEPT ![Neighbor(w)][layer[w]] = Append(@, node[w])]
      BY <1>12 DEF LinkNeighbor
    <3> QED
      BY <2>1, <3>1, <3>2, AppendLink DEF TypeOK
  <2>3. TypeOK'
    BY <1>12, <2>2 DEF LinkNeighbor, search, TypeOK, PcValues
  <2>4. Position(w)' /\ SameElsewhere(w)
    BY <1>12 DEF LinkNeighbor, search, TypeOK, Positions, Position,
                 SameElsewhere, Linking
  <2> QED
    BY <2>3, <2>4, PositionFrame
<1>13. CASE LinkSelf(w)
  <2>1. Neighbor(w) \in Ids
    BY <1>13, NeighborType DEF LinkSelf, Linking
  <2>2. connections' \in [Ids -> [Levels -> Seq(Ids)]]
    <3>1. layer[w] \in Levels /\ node[w] \in Ids
      BY DEF TypeOK
    <3>2. connections' =
            [connections EXCEPT ![node[w]][layer[w]] = Append(@, Neighbor(w))]
      BY <1>13 DEF LinkSelf
    <3> QED
      BY <2>1, <3>1, <3>2, AppendLink DEF TypeOK
  <2>3. TypeOK'
    BY <1>13, <2>2 DEF LinkSelf, search, TypeOK, PcValues
  <2>4. Position(w)' /\ SameElsewhere(w)
    BY <1>13 DEF LinkSelf, search, TypeOK, Positions, Position, SameElsewhere,
                 Linking
  <2> QED
    BY <2>3, <2>4, PositionFrame
<1>14. CASE CountNeighbor(w)
  <2>5. pc[w] = "count" /\ Neighbor(w) \in Ids
    BY <1>14, NeighborType DEF CountNeighbor, Linking
  <2>1. connections[Neighbor(w)][layer[w]] \in Seq(Ids) /\ pc[w] = "count"
    BY <2>5 DEF TypeOK
  <2>2. UNCHANGED <<graph, jobs, hooks, node, chosen>>
    BY <1>14 DEF CountNeighbor
  <2>3. CASE Advance(w)
    BY <2>1, <2>2, <2>3, AdvanceTypes DEF graph, TypeOK
  <2>4. CASE /\ snapshot' = [snapshot EXCEPT ![w] =
                               connections[Neighbor(w)][layer[w]]]
             /\ pc' = [pc EXCEPT ![w] = "prune"]
             /\ UNCHANGED <<layer, search, idx>>
    <3>1. TypeOK'
      BY <2>1, <2>2, <2>4 DEF graph, search, TypeOK, PcValues
    <3>2. Position(w)' /\ SameElsewhere(w)
      BY <2>1, <2>2, <2>4 DEF search, TypeOK, Positions, Position,
                              SameElsewhere, Linking
    <3> QED
      BY <3>1, <3>2, PositionFrame
  <2> QED
    BY <1>14, <2>3, <2>4 DEF CountNeighbor
<1>15. CASE Prune(w)
  <2>1. PICK s \in Nearest(Elements(snapshot[w]), DistTo(w), Limit(layer[w])) :
               connections' = [connections EXCEPT ![Neighbor(w)][layer[w]] = s]
    BY <1>15 DEF Prune
  <2>2. Elements(snapshot[w]) \subseteq Ids /\ layer[w] \in Levels
    BY ElementsOf DEF TypeOK
  <2>3. s \in Seq(Ids)
    BY <2>1, <2>2, NearestList, LimitType
  <2>4. Neighbor(w) \in Ids
    BY <1>15, NeighborType DEF Prune, Linking
  <2>5. connections' \in [Ids -> [Levels -> Seq(Ids)]]
    BY <2>1, <2>2, <2>3, <2>4 DEF TypeOK
  <2>6. /\ UNCHANGED <<nodes, entryPointID, currentMaximumLayer, hlock, levelOf,
                       firsts, jobs, hooks, node, chosen>>
        /\ Advance(w) /\ pc[w] = "prune"
    BY <1>15 DEF Prune
  <2> QED
    BY <2>5, <2>6, AdvanceTypes DEF TypeOK
<1>16. CASE CheckMaximumLayer(w)
  <2>4. /\ node[w] \in Ids /\ levelOf[node[w]] \in Levels
        /\ chosen[w] \in [Levels -> Seq(Ids)]
    BY DEF TypeOK
  <2>5. hooks' = hooks \cup {[node |-> node[w], target |-> levelOf[node[w]],
                              neighbors |-> chosen[w], live |-> FALSE]}
    BY <1>16 DEF CheckMaximumLayer
  <2>1. hooks' \subseteq Hooks
    <3>1. [node |-> node[w], target |-> levelOf[node[w]], neighbors |-> chosen[w],
           live |-> FALSE] \in Hooks
      BY <2>4 DEF Hooks
    <3> QED
      BY <2>5, <3>1 DEF TypeOK
  <2>2. TypeOK'
    BY <1>16, <2>1, UnlinkedType
       DEF CheckMaximumLayer, Forget, graph, TypeOK, PcValues, Trees
  <2>3. Position(w)' /\ SameElsewhere(w)
    BY <1>16 DEF CheckMaximumLayer, Forget, TypeOK, Trees, Position,
                 SameElsewhere, Linking
  <2> QED
    BY <2>2, <2>3, PositionFrame
<1>17. CASE PublishEntryPoint(w)
  <2>1. TypeOK'
    BY <1>17 DEF PublishEntryPoint, search, TypeOK, PcValues
  <2>2. Position(w)' /\ SameElsewhere(w)
    BY <1>17 DEF PublishEntryPoint, search, TypeOK, Positions, Position, SameElsewhere, Linking
  <2> QED
    BY <2>1, <2>2, PositionFrame
<1>18. CASE PublishMaximumLayer(w)
  <2>1. TypeOK'
    BY <1>18 DEF PublishMaximumLayer, search, TypeOK, PcValues
  <2>2. Position(w)' /\ SameElsewhere(w)
    BY <1>18 DEF PublishMaximumLayer, search, TypeOK, Positions, Position, SameElsewhere, Linking
  <2> QED
    BY <2>1, <2>2, PositionFrame
<1> QED
  BY <1>1, <1>2, <1>3, <1>4, <1>5, <1>6, <1>7, <1>8, <1>9, <1>10, <1>11, <1>12,
     <1>13, <1>14, <1>15, <1>16, <1>17, <1>18 DEF Insert

LEMMA StutterTypeInv == TypeInv /\ UNCHANGED vars => TypeInv'
BY DEF vars, graph, search, TypeInv, TypeOK, Positions, Position

(* Every variable keeps its type, and the workers' positions make sense. *)
THEOREM TypeInvariance == Spec => []TypeInv
<1>1. TypeInv /\ [Next]_vars => TypeInv'
  BY StepTypeInv, StutterTypeInv DEF Next, Step, Over
<1> QED
  BY <1>1, InitTypeInv, PTL DEF Spec

(* Type correctness of the graph, the hooks and the workers' locals. *)
THEOREM TypeCorrect == Spec => []TypeOK
<1>1. TypeInv => TypeOK
  BY DEF TypeInv
<1> QED
  BY <1>1, TypeInvariance, PTL
-------------------------------------------------------------------------------
(* The entry point and the maximum layer are published together.  For this   *)
(* the level of the entry point must not change any more: a vertex whose     *)
(* level is still to be drawn is not the entry point, because every vertex   *)
(* is inserted by one worker and only its inserter publishes it.             *)
Active(w) == pc[w] \notin {"idle", "panic"}

Fresh == {"total", "entry", "max"}

Beginning == {"idle", "total", "first", "table", "panic"}

Publication ==
  /\ \A w \in Workers : pc[w] \in {"table", "publish"} <=> hlock = {w}
  /\ \A w \in Workers : Active(w) => node[w] < jobs
  /\ \A u, w \in Workers : Active(u) /\ Active(w) /\ u # w => node[u] # node[w]
  /\ nodes = {} <=> firsts = 0
  /\ \A w \in Workers : pc[w] \notin Beginning => nodes # {}
  /\ nodes # {} => entryPointID < jobs
  /\ \A w \in Workers : nodes # {} /\ pc[w] \in Fresh => entryPointID # node[w]
  /\ \A w \in Workers : pc[w] \in {"table", "publish"} => entryPointID = node[w]
  /\ EntryPointOnTop

LEMMA InitPublication == Init => Publication
BY IdsAndLevels
   DEF Init, Publication, Active, Fresh, Beginning, EntryPointOnTop

(* A step that leaves the entry point, the table and the levels alone and    *)
(* does not take or release the write lock.                                  *)
LEMMA PublicationFrame ==
  ASSUME TypeOK, Publication, NEW w \in Workers,
         UNCHANGED <<nodes, entryPointID, currentMaximumLayer, hlock, levelOf,
                     firsts, jobs, node>>,
         NEW next \in PcValues, pc' = [pc EXCEPT ![w] = next],
         pc[w] \notin {"table", "publish"}, next \notin {"table", "publish"},
         Active(w),
         next \in Fresh => pc[w] \in Fresh,
         next \notin Beginning => nodes # {}
  PROVE  Publication'
BY DEF TypeOK, Publication, Active, EntryPointOnTop

LEMMA StepPublication ==
  ASSUME TypeInv, Publication, NEW w \in Workers, Take(w) \/ Insert(w)
  PROVE  Publication'
<1> USE DEF TypeInv
<1>1. CASE Take(w)
  <2>1. /\ pc[w] = "idle" /\ pc' = [pc EXCEPT ![w] = "total"]
        /\ node' = [node EXCEPT ![w] = jobs] /\ jobs' = jobs + 1 /\ jobs \in Nat
        /\ UNCHANGED graph
    BY <1>1, NAssumption DEF Take, TypeOK
  <2>2. entryPointID \in Nat /\ \A u \in Workers : node[u] \in Nat
    BY IdsAndLevels DEF TypeOK
  <2>3. /\ pc'[w] = "total" /\ node'[w] = jobs
        /\ \A u \in Workers \ {w} : pc'[u] = pc[u] /\ node'[u] = node[u]
    BY <2>1 DEF TypeOK
  <2>4. \A u \in Workers : Active(u)' => node'[u] < jobs'
    BY <2>1, <2>2, <2>3 DEF Publication, Active
  <2>5. \A u, x \in Workers : Active(u)' /\ Active(x)' /\ u # x =>
                               node'[u] # node'[x]
    BY <2>1, <2>2, <2>3 DEF Publication, Active
  <2>6. nodes' # {} => entryPointID' < jobs' /\ entryPointID' # jobs
    BY <2>1, <2>2 DEF graph, Publication
  <2>7. \A u \in Workers : nodes' # {} /\ pc'[u] \in Fresh =>
                            entryPointID' # node'[u]
    BY <2>1, <2>3, <2>6 DEF graph, Publication
  <2>8. \A u \in Workers : /\ pc'[u] \in {"table", "publish"} <=> hlock' = {u}
                           /\ pc'[u] \notin Beginning => nodes' # {}
                           /\ pc'[u] \in {"table", "publish"} =>
                                entryPointID' = node'[u]
    BY <2>1, <2>3 DEF graph, Publication, Beginning
  <2>9. EntryPointOnTop' /\ (nodes' = {} <=> firsts' = 0)
    BY <2>1 DEF graph, Publication, EntryPointOnTop
  <2> QED
    BY <2>4, <2>5, <2>6, <2>7, <2>8, <2>9 DEF Publication
<1>2. CASE ReadTotal(w)
  BY <1>2, PublicationFrame
     DEF ReadTotal, graph, Active, Fresh, Beginning, PcValues
<1>3. CASE LockFirst(w)
  BY <1>3 DEF LockFirst, TypeOK, Publication, Active, Fresh, Beginning,
              EntryPointOnTop
<1>4. CASE FirstInsert(w)
  <2>1. /\ pc[w] = "table" /\ pc' = [pc EXCEPT ![w] = "idle"]
        /\ levelOf' = [levelOf EXCEPT ![node[w]] = 0] /\ currentMaximumLayer' = 0
        /\ nodes' = {node[w]} /\ hlock' = {} /\ firsts' = firsts + 1
        /\ UNCHANGED <<entryPointID, jobs, node>>
    BY <1>4 DEF FirstInsert
  <2>2. entryPointID = node[w] /\ hlock = {w} /\ node[w] \in Ids /\ firsts \in Nat
        /\ node[w] < jobs
    BY <2>1 DEF Publication, TypeOK, Active
  <2>3. \A u \in Workers \ {w} : pc[u] \notin {"table", "publish"}
                                 /\ pc'[u] = pc[u]
    BY <2>1, <2>2 DEF Publication, TypeOK
  <2>4. EntryPointOnTop'
    BY <2>1, <2>2 DEF TypeOK, EntryPointOnTop
  <2>5. \A u \in Workers \ {w} : pc[u] \in Fresh => entryPointID # node[u]
    BY <2>1, <2>2 DEF Publication, Active, Fresh
  <2>6. pc'[w] = "idle"
    BY <2>1 DEF TypeOK
  <2> QED
    BY <2>1, <2>2, <2>3, <2>4, <2>5, <2>6 DEF Publication, Active, Fresh, Beginning
<1>5. CASE ReadEntryPoint(w)
  BY <1>5, PublicationFrame
     DEF ReadEntryPoint, graph, Active, Fresh, Beginning, PcValues, Publication
<1>6. CASE ReadMaximumLayer(w)
  <2>1. /\ pc[w] = "max" /\ pc' = [pc EXCEPT ![w] = "add"]
        /\ UNCHANGED <<nodes, entryPointID, currentMaximumLayer, hlock, firsts,
                       jobs, node>>
        /\ \A v \in Ids : v # node[w] => levelOf'[v] = levelOf[v]
    BY <1>6 DEF ReadMaximumLayer, TypeOK
  <2>2. entryPointID # node[w] /\ entryPointID \in Ids
    BY <2>1 DEF Publication, Fresh, Beginning, TypeOK
  <2> QED
    BY <2>1, <2>2 DEF TypeOK, Publication, Active, Fresh, Beginning,
                      EntryPointOnTop
<1>7. CASE AddNode(w)
  <2>1. /\ pc[w] = "add" /\ pc' = [pc EXCEPT ![w] = "search"]
        /\ UNCHANGED <<entryPointID, currentMaximumLayer, hlock, levelOf, firsts,
                       jobs, node>>
        /\ nodes' = nodes \cup {node[w]}
    BY <1>7 DEF AddNode
  <2> QED
    BY <2>1 DEF TypeOK, Publication, Active, Fresh, Beginning, EntryPointOnTop
<1>8. ASSUME NEW c \in Ids, Expand(w, c)
      PROVE  Publication'
  <2>1. pc[w] = "search" /\ UNCHANGED graph /\ UNCHANGED <<jobs, node>>
        /\ (pc' = [pc EXCEPT ![w] = "search"] \/ pc' = [pc EXCEPT ![w] = "panic"])
    <3>1. pc[w] = "search" /\ (pc' = pc \/ pc' = [pc EXCEPT ![w] = "panic"])
      BY <1>8 DEF Expand
    <3>2. pc = [pc EXCEPT ![w] = "search"]
      BY <3>1 DEF TypeOK
    <3>3. UNCHANGED graph /\ UNCHANGED <<jobs, node>>
      BY <1>8 DEF Expand
    <3> QED
      BY <3>1, <3>2, <3>3
  <2> QED
    BY <2>1, PublicationFrame
       DEF graph, Active, Fresh, Beginning, PcValues, Publication
<1>9. CASE Visit(w)
  <2>1. /\ pc[w] = "search"
        /\ UNCHANGED <<nodes, entryPointID, currentMaximumLayer, hlock, levelOf,
                       firsts, jobs, node>>
        /\ pc' = [pc EXCEPT ![w] = "search"]
    BY <1>9 DEF Visit, graph, TypeOK
  <2> QED
    BY <2>1, PublicationFrame DEF Active, Fresh, Beginning, PcValues, Publication
<1>10. CASE Descend(w)
  <2>1. /\ pc[w] = "search"
        /\ UNCHANGED <<nodes, entryPointID, currentMaximumLayer, hlock, levelOf,
                       firsts, jobs, node>>
        /\ pc' = [pc EXCEPT ![w] = "search"]
    BY <1>10 DEF Descend, SearchOver, graph, TypeOK
  <2> QED
    BY <2>1, PublicationFrame DEF Active, Fresh, Beginning, PcValues, Publication
<1>11. CASE SelectNeighbors(w)
  <2>1. /\ pc[w] = "search"
        /\ UNCHANGED <<nodes, entryPointID, currentMaximumLayer, hlock, levelOf,
                       firsts, jobs, node>>
        /\ pc' = [pc EXCEPT ![w] = "link"]
    BY <1>11 DEF SelectNeighbors, SearchOver, graph, TypeOK
  <2> QED
    BY <2>1, PublicationFrame DEF Active, Fresh, Beginning, PcValues, Publication
<1>12. CASE LinkNeighbor(w)
  <2>1. /\ pc[w] = "link"
        /\ UNCHANGED <<nodes, entryPointID, currentMaximumLayer, hlock, levelOf,
                       firsts, jobs, node>>
        /\ \/ pc' = [pc EXCEPT ![w] = "linkSelf"]
           \/ pc' = [pc EXCEPT ![w] = "panic"]
    BY <1>12 DEF LinkNeighbor, TypeOK
  <2> QED
    BY <2>1, PublicationFrame DEF Active, Fresh, Beginning, PcValues, Publication
<1>13. CASE LinkSelf(w)
  <2>1. /\ pc[w] = "linkSelf"
        /\ UNCHANGED <<nodes, entryPointID, currentMaximumLayer, hlock, levelOf,
                       firsts, jobs, node>>
        /\ pc' = [pc EXCEPT ![w] = "count"]
    BY <1>13 DEF LinkSelf, TypeOK
  <2> QED
    BY <2>1, PublicationFrame DEF Active, Fresh, Beginning, PcValues, Publication
<1>14. CASE CountNeighbor(w)
  <2>1. /\ pc[w] = "count"
        /\ UNCHANGED <<nodes, entryPointID, currentMaximumLayer, hlock, levelOf,
                       firsts, jobs, node>>
        /\ \/ pc' = [pc EXCEPT ![w] = "link"]
           \/ pc' = [pc EXCEPT ![w] = "search"]
           \/ pc' = [pc EXCEPT ![w] = "raise"]
           \/ pc' = [pc EXCEPT ![w] = "prune"]
    BY <1>14 DEF CountNeighbor, Advance, graph, TypeOK
  <2> QED
    BY <2>1, PublicationFrame DEF Active, Fresh, Beginning, PcValues, Publication
<1>15. CASE Prune(w)
  <2>1. /\ pc[w] = "prune"
        /\ UNCHANGED <<nodes, entryPointID, currentMaximumLayer, hlock, levelOf,
                       firsts, jobs, node>>
        /\ \/ pc' = [pc EXCEPT ![w] = "link"]
           \/ pc' = [pc EXCEPT ![w] = "search"]
           \/ pc' = [pc EXCEPT ![w] = "raise"]
    BY <1>15 DEF Prune, Advance, TypeOK
  <2> QED
    BY <2>1, PublicationFrame DEF Active, Fresh, Beginning, PcValues, Publication
<1>16. CASE CheckMaximumLayer(w)
  <2>1. /\ pc[w] = "raise"
        /\ UNCHANGED <<nodes, entryPointID, currentMaximumLayer, hlock, levelOf,
                       firsts, jobs, node>>
        /\ \/ pc' = [pc EXCEPT ![w] = "lock"]
           \/ pc' = [pc EXCEPT ![w] = "idle"]
    BY <1>16 DEF CheckMaximumLayer, graph, TypeOK
  <2> QED
    BY <2>1, PublicationFrame DEF Active, Fresh, Beginning, PcValues, Publication
<1>17. CASE PublishEntryPoint(w)
  <2>1. /\ pc[w] = "lock" /\ pc' = [pc EXCEPT ![w] = "publish"]
        /\ hlock = {} /\ hlock' = {w} /\ entryPointID' = node[w]
        /\ UNCHANGED <<nodes, currentMaximumLayer, levelOf, firsts, jobs, node>>
    BY <1>17 DEF PublishEntryPoint
  <2> QED
    BY <2>1 DEF TypeOK, Publication, Active, Fresh, Beginning, EntryPointOnTop
<1>18. CASE PublishMaximumLayer(w)
  <2>1. /\ pc[w] = "publish" /\ pc' = [pc EXCEPT ![w] = "idle"]
        /\ hlock' = {} /\ currentMaximumLayer' = levelOf[node[w]]
        /\ UNCHANGED <<nodes, entryPointID, levelOf, firsts, jobs, node>>
    BY <1>18 DEF PublishMaximumLayer
  <2>2. hlock = {w} /\ entryPointID = node[w]
    BY <2>1 DEF Publication
  <2> QED
    BY <2>1, <2>2 DEF TypeOK, Publication, Active, Fresh, Beginning,
                      EntryPointOnTop
<1> QED
  BY <1>1, <1>2, <1>3, <1>4, <1>5, <1>6, <1>7, <1>8, <1>9, <1>10, <1>11, <1>12,
     <1>13, <1>14, <1>15, <1>16, <1>17, <1>18 DEF Insert

THEOREM PublicationInvariance == Spec => []Publication
<1>1. TypeInv /\ Publication /\ [Next]_vars => Publication'
  <2>1. Publication /\ UNCHANGED vars => Publication'
    BY DEF vars, graph, Publication, Active, EntryPointOnTop
  <2> QED
    BY <2>1, StepPublication DEF Next, Step, Over
<1> QED
  BY <1>1, InitPublication, TypeInvariance, PTL DEF Spec

(* While nobody publishes, the entry point's level is the maximum layer. *)
THEOREM EntryPointIsOnTop == Spec => []EntryPointOnTop
<1>1. Publication => EntryPointOnTop
  BY DEF Publication
<1> QED
  BY <1>1, PublicationInvariance, PTL
-------------------------------------------------------------------------------
(* No nil vertex is followed.  As long as no worker is about to replace a    *)
(* table that is in use (Clean), every id that the graph or a worker holds   *)
(* is in the table: ids only spread by being read from one of these places,  *)
(* and a vertex enters the table before its id is written anywhere.          *)
Clean == firsts <= 1 /\ \A w \in Workers : pc[w] = "table" => nodes = {}

Added == {"search", "link", "linkSelf", "count", "prune", "raise", "lock", "publish"}

GraphKnown ==
  /\ nodes # {} => entryPointID \in nodes
  /\ \A v \in Ids, l \in Levels : Elements(connections[v][l]) \subseteq nodes

KnownTo(w) ==
  /\ results[w] \subseteq nodes
  /\ candidates[w] \subseteq nodes
  /\ Elements(todo[w]) \subseteq nodes
  /\ Elements(snapshot[w]) \subseteq nodes
  /\ \A l \in Levels : Elements(chosen[w][l]) \subseteq nodes
  /\ pc[w] \in Added => node[w] \in nodes

References == GraphKnown /\ \A w \in Workers : KnownTo(w)

LEMMA InitReferences == Init => References /\ NoPanic
<1>1. Elements(<<>>) = {}
  BY DEF Elements
<1> QED
  BY <1>1, UnlinkedType
     DEF Init, References, GraphKnown, KnownTo, Added, NoPanic, Running

(* Once a table in use is about to be replaced, two workers have found the   *)
(* graph empty, and that remains so.                                         *)
LEMMA CleanBefore ==
  ASSUME TypeInv, Publication, NEW w \in Workers, Take(w) \/ Insert(w), Clean'
  PROVE  Clean
<1> USE DEF TypeInv
<1>1. firsts \in Nat /\ (nodes = {} <=> firsts = 0)
  BY DEF TypeOK, Publication
<1>2. CASE FirstInsert(w)
  <2>1. firsts' = firsts + 1 /\ hlock = {w}
    BY <1>2 DEF FirstInsert, Publication
  <2>2. nodes = {}
    BY <1>1, <2>1 DEF Clean
  <2> QED
    BY <1>1, <2>1, <2>2 DEF Clean
<1>3. CASE ~FirstInsert(w)
  <2>1. firsts' = firsts /\ (nodes = {} \/ nodes' # {})
    BY <1>3 DEF Take, Insert, ReadTotal, LockFirst, ReadEntryPoint,
                ReadMaximumLayer, AddNode, Expand, Visit, Descend,
                SelectNeighbors, LinkNeighbor, LinkSelf, CountNeighbor, Prune,
                CheckMaximumLayer, PublishEntryPoint, PublishMaximumLayer, graph
  <2>2. \A u \in Workers : pc[u] = "table" => pc'[u] = "table"
    BY <1>3 DEF Take, Insert, ReadTotal, LockFirst, ReadEntryPoint,
                ReadMaximumLayer, AddNode, Expand, Visit, Descend, SearchOver,
                SelectNeighbors, LinkNeighbor, LinkSelf, CountNeighbor, Prune,
                Advance, CheckMaximumLayer, PublishEntryPoint,
                PublishMaximumLayer, TypeOK
  <2> QED
    BY <2>1, <2>2 DEF Clean
<1> QED
  BY <1>2, <1>3

(* What one worker does to its own locals leaves those of the others alone.  *)
LocalsElsewhere(w) ==
  \A u \in Workers \ {w} :
    /\ results'[u] = results[u] /\ candidates'[u] = candidates[u]
    /\ todo'[u] = todo[u] /\ snapshot'[u] = snapshot[u]
    /\ chosen'[u] = chosen[u] /\ pc'[u] = pc[u] /\ node'[u] = node[u]

LEMMA KnownFrame ==
  ASSUME References, NEW w \in Workers, nodes \subseteq nodes',
         LocalsElsewhere(w), KnownTo(w)', GraphKnown'
  PROVE  References'
BY DEF References, KnownTo, LocalsElsewhere

LEMMA AdvanceKnown ==
  ASSUME TypeInv, References, NEW w \in Workers, pc[w] \in {"count", "prune"},
         Advance(w), UNCHANGED <<nodes, node, chosen>>
  PROVE  KnownTo(w)' /\ LocalsElsewhere(w)
<1> USE DEF TypeInv
<1>1. Elements(<<>>) = {}
  BY DEF Elements
<1>2. snapshot' = [snapshot EXCEPT ![w] = <<>>] /\ todo' = todo
  BY DEF Advance, StartSearch, search
<1>3. results'[w] = results[w]
      /\ (candidates'[w] = candidates[w] \/ candidates'[w] = results[w])
  BY DEF Advance, StartSearch, search, TypeOK, Trees
<1>4. KnownTo(w)'
  BY <1>1, <1>2, <1>3 DEF References, KnownTo, TypeOK, Added
<1>5. \A u \in Workers \ {w} :
        results'[u] = results[u] /\ candidates'[u] = candidates[u] /\ pc'[u] = pc[u]
  BY DEF Advance, StartSearch, search, TypeOK, Trees
<1> QED
  BY <1>2, <1>4, <1>5 DEF TypeOK, LocalsElsewhere
(* Extending a list, or cutting one down, keeps the connections known. *)
LEMMA LinkKnown ==
  ASSUME TypeOK, GraphKnown, NEW v \in Ids, NEW l \in Levels,
         NEW x \in nodes, x \in Ids,
         UNCHANGED <<nodes, entryPointID>>,
         connections' = [connections EXCEPT ![v][l] = Append(@, x)]
  PROVE  GraphKnown'
<1>1. \A u \in Ids, k \in Levels :
        connections'[u][k] = IF u = v /\ k = l THEN Append(connections[v][l], x)
                                               ELSE connections[u][k]
  BY AppendLink
<1>2. connections[v][l] \in Seq(Ids)
  BY DEF TypeOK
<1>3. Elements(Append(connections[v][l], x)) = Elements(connections[v][l]) \cup {x}
  BY <1>2, ElementsOf
<1> QED
  BY <1>1, <1>3 DEF GraphKnown

LEMMA StepReferences ==
  ASSUME TypeInv, Publication, Clean, Clean', References,
         NEW w \in Workers, Take(w) \/ Insert(w)
  PROVE  References'
<1> USE DEF TypeInv
<1>0. Elements(<<>>) = {}
  BY DEF Elements
<1>1. CASE Take(w)
  <2>1. GraphKnown'
    BY <1>1 DEF Take, graph, References, GraphKnown
  <2>2. LocalsElsewhere(w)
    BY <1>1 DEF Take, search, TypeOK, LocalsElsewhere
  <2>3. KnownTo(w)'
    BY <1>0, <1>1, UnlinkedType
       DEF Take, graph, search, TypeOK, References, KnownTo, Added
  <2> QED
    BY <1>1, <2>1, <2>2, <2>3, KnownFrame DEF Take, graph
<1>2. CASE ReadTotal(w)
  <2>1. GraphKnown' /\ LocalsElsewhere(w)
    BY <1>2 DEF ReadTotal, graph, search, TypeOK, References, GraphKnown,
                LocalsElsewhere
  <2>2. KnownTo(w)'
    BY <1>2 DEF ReadTotal, graph, search, TypeOK, References, KnownTo, Added
  <2> QED
    BY <1>2, <2>1, <2>2, KnownFrame DEF ReadTotal, graph
<1>3. CASE LockFirst(w)
  <2>3. nodes = {}
    BY <1>3 DEF LockFirst, TypeOK, Clean
  <2>1. GraphKnown' /\ LocalsElsewhere(w)
    BY <1>3, <2>3 DEF LockFirst, search, TypeOK, References, GraphKnown,
                LocalsElsewhere
  <2>2. KnownTo(w)'
    BY <1>3 DEF LockFirst, search, TypeOK, References, KnownTo, Added
  <2> QED
    BY <1>3, <2>1, <2>2, KnownFrame DEF LockFirst
<1>4. CASE FirstInsert(w)
  <2>1. nodes = {} /\ nodes' = {node[w]} /\ entryPointID' = node[w]
    BY <1>4 DEF FirstInsert, Clean, Publication
  <2>2. \A v \in Ids, l \in Levels :
          connections'[v][l] = connections[v][l] \/ connections'[v][l] = <<>>
    BY <1>4, UnlinkedType DEF FirstInsert, TypeOK
  <2>3. GraphKnown'
    BY <1>0, <2>1, <2>2 DEF References, GraphKnown
  <2>4. LocalsElsewhere(w)
    BY <1>4 DEF FirstInsert, search, TypeOK, LocalsElsewhere
  <2>5. KnownTo(w)'
    BY <1>4, <2>1 DEF FirstInsert, search, TypeOK, References, KnownTo, Added
  <2> QED
    BY <2>1, <2>3, <2>4, <2>5, KnownFrame
<1>5. CASE ReadEntryPoint(w)
  <2>1. entryPointID \in nodes
    BY <1>5 DEF ReadEntryPoint, Publication, Beginning, References, GraphKnown
  <2>2. GraphKnown' /\ LocalsElsewhere(w)
    BY <1>5 DEF ReadEntryPoint, graph, TypeOK, Trees, References, GraphKnown,
                LocalsElsewhere
  <2>3. KnownTo(w)'
    BY <1>5, <2>1 DEF ReadEntryPoint, graph, TypeOK, Trees, References, KnownTo,
                      Added
  <2> QED
    BY <1>5, <2>2, <2>3, KnownFrame DEF ReadEntryPoint, graph
<1>6. CASE ReadMaximumLayer(w)
  <2>1. \A v \in Ids, l \in Levels :
          connections'[v][l] = connections[v][l] \/ connections'[v][l] = <<>>
    BY <1>6, UnlinkedType DEF ReadMaximumLayer, TypeOK
  <2>2. /\ pc' = [pc EXCEPT ![w] = "add"]
        /\ UNCHANGED <<nodes, entryPointID, node, search, chosen, snapshot>>
    BY <1>6 DEF ReadMaximumLayer
  <2>3. GraphKnown'
    BY <1>0, <2>1, <2>2 DEF References, GraphKnown
  <2>4. LocalsElsewhere(w) /\ KnownTo(w)'
    BY <2>2 DEF search, TypeOK, References, KnownTo, Added, LocalsElsewhere
  <2> QED
    BY <2>2, <2>3, <2>4, KnownFrame
<1>7. CASE AddNode(w)
  <2>1. GraphKnown'
    BY <1>7 DEF AddNode, References, GraphKnown, Publication, Beginning
  <2>2. LocalsElsewhere(w)
    BY <1>7 DEF AddNode, StartSearch, TypeOK, Trees, LocalsElsewhere
  <2>3. KnownTo(w)'
    BY <1>7 DEF AddNode, StartSearch, TypeOK, Trees, References, KnownTo
  <2> QED
    BY <1>7, <2>1, <2>2, <2>3, KnownFrame DEF AddNode
<1>8. ASSUME NEW c \in Ids, Expand(w, c)
      PROVE  References'
  <2>1. /\ pc[w] = "search"
        /\ todo' = todo \/ todo' = [todo EXCEPT ![w] = connections[c][layer[w]]]
        /\ pc' = pc \/ pc' = [pc EXCEPT ![w] = "panic"]
        /\ candidates' = [candidates EXCEPT ![w] = @ \ {c}]
        /\ UNCHANGED <<graph, node, results, chosen, snapshot>>
    BY <1>8 DEF Expand
  <2>2. Elements(connections[c][layer[w]]) \subseteq nodes
    BY <1>8 DEF References, GraphKnown, TypeOK
  <2>3. GraphKnown' /\ LocalsElsewhere(w)
    BY <2>1 DEF graph, TypeOK, Trees, References, GraphKnown, LocalsElsewhere
  <2>4. KnownTo(w)'
    BY <2>1, <2>2 DEF graph, TypeOK, Trees, References, KnownTo, Added
  <2> QED
    BY <2>1, <2>3, <2>4, KnownFrame DEF graph
<1>9. CASE Visit(w)
  <2> DEFINE v == Head(todo[w])
  <2>1. v \in nodes /\ Elements(Tail(todo[w])) \subseteq nodes
    BY <1>9, ElementsOf DEF Visit, TypeOK, References, KnownTo
  <2> HIDE DEF v
  <2>2. /\ todo' = [todo EXCEPT ![w] = Tail(@)]
        /\ UNCHANGED <<graph, pc, node, chosen, snapshot>>
    BY <1>9 DEF Visit
  <2>3. /\ candidates'[w] \subseteq candidates[w] \cup {v}
        /\ results'[w] \subseteq results[w] \cup {v}
        /\ \A u \in Workers \ {w} : /\ candidates'[u] = candidates[u]
                                    /\ results'[u] = results[u]
    <3>1. \/ UNCHANGED <<candidates, results>>
          \/ /\ candidates' = [candidates EXCEPT ![w] = @ \cup {v}]
             /\ \/ results' = [results EXCEPT ![w] = @ \cup {v}]
                \/ \E m : results' = [results EXCEPT ![w] = (@ \cup {v}) \ {m}]
      BY <1>9 DEF Visit, v
    <3> QED
      BY <3>1 DEF TypeOK, Trees
  <2>4. GraphKnown' /\ LocalsElsewhere(w)
    BY <2>2, <2>3 DEF graph, TypeOK, References, GraphKnown, LocalsElsewhere
  <2>5. KnownTo(w)'
    BY <2>1, <2>2, <2>3 DEF graph, TypeOK, References, KnownTo
  <2> QED
    BY <2>2, <2>4, <2>5, KnownFrame DEF graph
<1>10. CASE Descend(w)
  <2>1. PICK best \in results[w] : StartSearch(w, {best})
    BY <1>10 DEF Descend, Minima
  <2>2. UNCHANGED <<graph, pc, node, chosen, snapshot>>
    BY <1>10 DEF Descend
  <2>3. GraphKnown' /\ LocalsElsewhere(w)
    BY <2>1, <2>2 DEF StartSearch, graph, TypeOK, Trees, References, GraphKnown,
                      LocalsElsewhere
  <2>4. KnownTo(w)'
    BY <2>1, <2>2 DEF StartSearch, graph, TypeOK, Trees, References, KnownTo
  <2> QED
    BY <2>2, <2>3, <2>4, KnownFrame DEF graph
<1>11. CASE SelectNeighbors(w)
  <2>1. PICK s \in Nearest(results[w], DistTo(w), maximumConnections) :
               chosen' = [chosen EXCEPT ![w][layer[w]] = s]
    BY <1>11 DEF SelectNeighbors
  <2>2. Elements(s) \subseteq nodes
    BY <2>1, NearestList, LimitAssumption
       DEF TypeOK, Trees, References, KnownTo
  <2>3. /\ candidates' = [candidates EXCEPT ![w] = {}]
        /\ pc[w] = "search" /\ pc' = [pc EXCEPT ![w] = "link"]
        /\ UNCHANGED <<graph, node, results, todo, snapshot>>
    BY <1>11 DEF SelectNeighbors, SearchOver
  <2>4. /\ \A u \in Workers \ {w} : chosen'[u] = chosen[u]
        /\ \A l \in Levels : chosen'[w][l] = s \/ chosen'[w][l] = chosen[w][l]
    BY <2>1 DEF TypeOK
  <2>5. GraphKnown' /\ LocalsElsewhere(w)
    BY <2>3, <2>4 DEF graph, TypeOK, Trees, References, GraphKnown,
                      LocalsElsewhere
  <2>6. KnownTo(w)'
    BY <2>2, <2>3, <2>4 DEF graph, TypeOK, Trees, References, KnownTo, Added
  <2> QED
    BY <2>3, <2>5, <2>6, KnownFrame DEF graph
<1>12. CASE LinkNeighbor(w)
  <2>1. Neighbor(w) \in Ids /\ node[w] \in nodes /\ node[w] \in Ids
        /\ layer[w] \in Levels
    BY <1>12, NeighborType
       DEF LinkNeighbor, Linking, References, KnownTo, Added, TypeOK
  <2>2. /\ UNCHANGED <<nodes, entryPointID, node, search, chosen, snapshot>>
        /\ pc[w] = "link"
        /\ pc' = [pc EXCEPT ![w] = "linkSelf"] \/ pc' = [pc EXCEPT ![w] = "panic"]
    BY <1>12 DEF LinkNeighbor
  <2>3. \/ UNCHANGED connections
        \/ connections' =
             [connections EXCEPT ![Neighbor(w)][layer[w]] = Append(@, node[w])]
    BY <1>12 DEF LinkNeighbor
  <2>4. GraphKnown'
    <3>1. CASE UNCHANGED connections
      BY <2>2, <3>1 DEF References, GraphKnown
    <3>2. CASE connections' =
                 [connections EXCEPT ![Neighbor(w)][layer[w]] = Append(@, node[w])]
      BY <2>1, <2>2, <3>2, LinkKnown DEF References
    <3> QED
      BY <2>3, <3>1, <3>2
  <2>5. LocalsElsewhere(w) /\ KnownTo(w)'
    BY <2>2 DEF search, TypeOK, References, KnownTo, Added, LocalsElsewhere
  <2> QED
    BY <2>2, <2>4, <2>5, KnownFrame
<1>13. CASE LinkSelf(w)
  <2>1. Neighbor(w) \in Ids /\ Neighbor(w) \in nodes /\ node[w] \in Ids
        /\ layer[w] \in Levels
    BY <1>13, NeighborType
       DEF LinkSelf, Linking, References, KnownTo, TypeOK
  <2>2. /\ UNCHANGED <<nodes, entryPointID, node, search, chosen, snapshot>>
        /\ pc[w] = "linkSelf" /\ pc' = [pc EXCEPT ![w] = "count"]
        /\ connections' =
             [connections EXCEPT ![node[w]][layer[w]] = Append(@, Neighbor(w))]
    BY <1>13 DEF LinkSelf
  <2>3. GraphKnown'
    BY <2>1, <2>2, LinkKnown DEF References
  <2>4. LocalsElsewhere(w) /\ KnownTo(w)'
    BY <2>2 DEF search, TypeOK, References, KnownTo, Added, LocalsElsewhere
  <2> QED
    BY <2>2, <2>3, <2>4, KnownFrame
<1>14. CASE CountNeighbor(w)
  <2>1. pc[w] = "count" /\ UNCHANGED <<graph, node, chosen>>
    BY <1>14 DEF CountNeighbor
  <2>2. Neighbor(w) \in Ids /\ layer[w] \in Levels
    BY <2>1, NeighborType DEF Linking, TypeOK
  <2>3. GraphKnown'
    BY <2>1 DEF graph, References, GraphKnown
  <2>4. CASE Advance(w)
    BY <2>1, <2>3, <2>4, AdvanceKnown, KnownFrame DEF graph
  <2>5. CASE /\ snapshot' = [snapshot EXCEPT ![w] =
                               connections[Neighbor(w)][layer[w]]]
             /\ pc' = [pc EXCEPT ![w] = "prune"]
             /\ UNCHANGED <<layer, search, idx>>
    <3>1. Elements(connections[Neighbor(w)][layer[w]]) \subseteq nodes
      BY <2>2 DEF References, GraphKnown
    <3>2. LocalsElsewhere(w)
      BY <2>1, <2>5 DEF search, TypeOK, LocalsElsewhere
    <3>3. KnownTo(w)'
      BY <2>1, <2>5, <3>1 DEF graph, search, TypeOK, References, KnownTo, Added
    <3> QED
      BY <2>1, <2>3, <3>2, <3>3, KnownFrame DEF graph
  <2> QED
    BY <1>14, <2>4, <2>5 DEF CountNeighbor
<1>15. CASE Prune(w)
  <2>1. PICK s \in Nearest(Elements(snapshot[w]), DistTo(w), Limit(layer[w])) :
               connections' = [connections EXCEPT ![Neighbor(w)][layer[w]] = s]
    BY <1>15 DEF Prune
  <2>2. Elements(snapshot[w]) \subseteq Ids /\ layer[w] \in Levels
        /\ Elements(snapshot[w]) \subseteq nodes
    BY ElementsOf DEF TypeOK, References, KnownTo
  <2>3. s \in Seq(Ids) /\ Elements(s) \subseteq nodes
    BY <2>1, <2>2, NearestList, LimitType
  <2>4. Neighbor(w) \in Ids /\ pc[w] = "prune"
    BY <1>15, NeighborType DEF Prune, Linking
  <2>5. \A u \in Ids, k \in Levels :
          connections'[u][k] = s \/ connections'[u][k] = connections[u][k]
    BY <2>1, <2>2, <2>3, <2>4, ReplaceLinks
  <2>6. UNCHANGED <<nodes, entryPointID, node, chosen>> /\ Advance(w)
    BY <1>15 DEF Prune
  <2>7. GraphKnown'
    BY <2>3, <2>5, <2>6 DEF References, GraphKnown
  <2> QED
    BY <2>4, <2>6, <2>7, AdvanceKnown, KnownFrame
<1>16. CASE CheckMaximumLayer(w)
  <2>1. /\ pc[w] = "raise"
        /\ pc' = [pc EXCEPT ![w] = "lock"] \/ pc' = [pc EXCEPT ![w] = "idle"]
        /\ results' = [results EXCEPT ![w] = {}]
        /\ chosen' = [chosen EXCEPT ![w] = Unlinked]
        /\ UNCHANGED <<graph, node, candidates, todo, snapshot>>
    BY <1>16 DEF CheckMaximumLayer, Forget
  <2>2. GraphKnown' /\ LocalsElsewhere(w)
    BY <2>1 DEF graph, TypeOK, Trees, References, GraphKnown, LocalsElsewhere
  <2>3. KnownTo(w)'
    BY <1>0, <2>1, UnlinkedType
       DEF graph, TypeOK, Trees, References, KnownTo, Added
  <2> QED
    BY <2>1, <2>2, <2>3, KnownFrame DEF graph
<1>17. CASE PublishEntryPoint(w)
  <2>1. GraphKnown'
    BY <1>17 DEF PublishEntryPoint, References, GraphKnown, KnownTo, Added
  <2>2. LocalsElsewhere(w) /\ KnownTo(w)'
    BY <1>17 DEF PublishEntryPoint, search, TypeOK, References, KnownTo, Added,
                 LocalsElsewhere
  <2> QED
    BY <1>17, <2>1, <2>2, KnownFrame DEF PublishEntryPoint
<1>18. CASE PublishMaximumLayer(w)
  <2>1. GraphKnown'
    BY <1>18 DEF PublishMaximumLayer, References, GraphKnown
  <2>2. LocalsElsewhere(w) /\ KnownTo(w)'
    BY <1>18 DEF PublishMaximumLayer, search, TypeOK, References, KnownTo, Added,
                 LocalsElsewhere
  <2> QED
    BY <1>18, <2>1, <2>2, KnownFrame DEF PublishMaximumLayer
<1> QED
  BY <1>1, <1>2, <1>3, <1>4, <1>5, <1>6, <1>7, <1>8, <1>9, <1>10, <1>11, <1>12,
     <1>13, <1>14, <1>15, <1>16, <1>17, <1>18 DEF Insert
(* With one first insertion nothing panics: whoever looks an id up in the    *)
(* table waits for the write lock first, and finds it there.                 *)
LEMMA StepNoPanic ==
  ASSUME TypeInv, Publication, Clean => References, NoPanic, Running,
         NEW w \in Workers, Take(w) \/ Insert(w), firsts' <= 1
  PROVE  Running'
<1> USE DEF TypeInv
<1>1. firsts <= 1
  BY DEF TypeOK, Take, Insert, ReadTotal, LockFirst, FirstInsert, ReadEntryPoint,
         ReadMaximumLayer, AddNode, Expand, Visit, Descend, SelectNeighbors,
         LinkNeighbor, LinkSelf, CountNeighbor, Prune, CheckMaximumLayer,
         PublishEntryPoint, PublishMaximumLayer, graph
<1>2. hlock = {} => Clean
  BY <1>1 DEF Publication, Clean
<1>3. ASSUME NEW c \in Ids, Expand(w, c)
      PROVE  Running'
  <2>1. c \in nodes
    BY <1>2, <1>3 DEF Expand, Minima, References, KnownTo
  <2>2. UNCHANGED pc
    BY <1>3, <2>1 DEF Expand
  <2> QED
    BY <2>2 DEF Running
<1>4. CASE LinkNeighbor(w)
  <2>1. Neighbor(w) \in Elements(chosen[w][layer[w]]) /\ layer[w] \in Levels
    BY <1>4, NeighborType DEF LinkNeighbor, Linking, TypeOK
  <2>2. Neighbor(w) \in nodes
    BY <1>2, <1>4, <2>1 DEF LinkNeighbor, References, KnownTo
  <2>3. pc' = [pc EXCEPT ![w] = "linkSelf"]
    BY <1>4, <2>2 DEF LinkNeighbor
  <2> QED
    BY <2>3 DEF Running, TypeOK
<1> QED
  BY <1>3, <1>4
     DEF TypeOK, Take, Insert, ReadTotal, LockFirst, FirstInsert, ReadEntryPoint,
         ReadMaximumLayer, AddNode, Visit, Descend, SelectNeighbors, LinkSelf,
         CountNeighbor, Advance, Prune, CheckMaximumLayer, PublishEntryPoint,
         PublishMaximumLayer, Running

Known == (Clean => References) /\ NoPanic

THEOREM KnownInvariance == Spec => []Known
<1>1. TypeInv /\ Publication /\ Known /\ [Next]_vars => Known'
  <2> SUFFICES ASSUME TypeInv, Publication, Known, [Next]_vars
               PROVE  Known'
    OBVIOUS
  <2>1. CASE UNCHANGED vars
    <3>1. (Clean => References)'
      BY <2>1 DEF vars, graph, search, Known, Clean, References, GraphKnown,
                  KnownTo
    <3>2. NoPanic'
      BY <2>1 DEF vars, graph, Known, NoPanic, Running
    <3> QED
      BY <3>1, <3>2 DEF Known
  <2>2. ASSUME NEW w \in Workers, Step(w)
        PROVE  Known'
    <3>1. (Clean => References)'
      BY <2>2, CleanBefore, StepReferences DEF Step, Known
    <3>2. NoPanic'
      BY <2>2, StepNoPanic DEF Step, Known, NoPanic
    <3> QED
      BY <3>1, <3>2 DEF Known
  <2> QED
    BY <2>1, <2>2 DEF Next, Over
<1>2. Init => Known
  BY InitReferences DEF Known
<1> QED
  BY <1>1, <1>2, TypeInvariance, PublicationInvariance, PTL DEF Spec

(* As long as one worker only has found the graph empty, nobody panics. *)
THEOREM NothingPanics == Spec => []NoPanic
<1>1. Known => NoPanic
  BY DEF Known
<1> QED
  BY <1>1, KnownInvariance, PTL
-------------------------------------------------------------------------------
(* A step of w leaves the locals of the other workers alone. *)
Elsewhere(w) ==
  \A u \in Workers \ {w} :
    /\ pc'[u] = pc[u] /\ node'[u] = node[u] /\ layer'[u] = layer[u]
    /\ idx'[u] = idx[u] /\ chosen'[u] = chosen[u]
    /\ candidates'[u] = candidates[u] /\ results'[u] = results[u]
    /\ todo'[u] = todo[u] /\ snapshot'[u] = snapshot[u]

LEMMA StepElsewhere ==
  ASSUME TypeInv, NEW w \in Workers, Take(w) \/ Insert(w)
  PROVE  Elsewhere(w)
<1> USE DEF TypeInv
<1>1. CASE Take(w)
  BY <1>1 DEF Take, search, TypeOK, Trees, Elsewhere
<1>2. CASE ReadTotal(w) \/ LockFirst(w) \/ FirstInsert(w) \/ ReadMaximumLayer(w)
           \/ LinkNeighbor(w) \/ LinkSelf(w) \/ PublishEntryPoint(w)
           \/ PublishMaximumLayer(w)
  <2>1. /\ \E p : pc' = [pc EXCEPT ![w] = p]
        /\ layer' = layer \/ \E p : layer' = [layer EXCEPT ![w] = p]
        /\ UNCHANGED <<node, search, chosen, idx, snapshot>>
    BY <1>2 DEF ReadTotal, LockFirst, FirstInsert, ReadMaximumLayer, LinkNeighbor,
                LinkSelf, PublishEntryPoint, PublishMaximumLayer
  <2> QED
    BY <2>1 DEF search, TypeOK, Elsewhere
<1>3. CASE ReadEntryPoint(w) \/ AddNode(w)
  BY <1>3 DEF ReadEntryPoint, AddNode, StartSearch, TypeOK, Trees, Elsewhere
<1>4. ASSUME NEW c \in Ids, Expand(w, c)
      PROVE  Elsewhere(w)
  <2>1. /\ todo' = todo \/ todo' = [todo EXCEPT ![w] = connections[c][layer[w]]]
        /\ pc' = pc \/ pc' = [pc EXCEPT ![w] = "panic"]
        /\ candidates' = [candidates EXCEPT ![w] = @ \ {c}]
        /\ UNCHANGED <<node, layer, results, chosen, idx, snapshot>>
    BY <1>4 DEF Expand
  <2> QED
    BY <2>1 DEF TypeOK, Trees, Elsewhere
<1>5. CASE Visit(w)
  <2>1. /\ todo' = [todo EXCEPT ![w] = Tail(@)]
        /\ \/ UNCHANGED <<candidates, results>>
           \/ /\ \E S : candidates' = [candidates EXCEPT ![w] = S]
              /\ \E S : results' = [results EXCEPT ![w] = S]
        /\ UNCHANGED <<pc, node, layer, chosen, idx, snapshot>>
    BY <1>5 DEF Visit
  <2> QED
    BY <2>1 DEF TypeOK, Trees, Elsewhere
<1>6. CASE Descend(w)
  BY <1>6 DEF Descend, StartSearch, TypeOK, Trees, Elsewhere
<1>7. CASE SelectNeighbors(w)
  <2>1. \E s : chosen' = [chosen EXCEPT ![w][layer[w]] = s]
    BY <1>7 DEF SelectNeighbors
  <2>2. \A u \in Workers \ {w} : chosen'[u] = chosen[u]
    BY <2>1 DEF TypeOK
  <2> QED
    BY <1>7, <2>2 DEF SelectNeighbors, TypeOK, Trees, Elsewhere
<1>8. CASE CountNeighbor(w) \/ Prune(w)
  <2>1. /\ \E s : snapshot' = [snapshot EXCEPT ![w] = s]
        /\ \/ UNCHANGED <<search, layer>>
           \/ StartSearch(w, results[w]) /\ layer' = [layer EXCEPT ![w] = @ - 1]
        /\ \E p : pc' = [pc EXCEPT ![w] = p]
        /\ idx' = idx \/ idx' = [idx EXCEPT ![w] = @ + 1]
        /\ UNCHANGED <<node, chosen>>
    BY <1>8 DEF CountNeighbor, Prune, Advance
  <2>2. \A u \in Workers \ {w} : /\ candidates'[u] = candidates[u]
                                 /\ results'[u] = results[u]
                                 /\ todo'[u] = todo[u] /\ layer'[u] = layer[u]
    BY <2>1 DEF search, StartSearch, TypeOK, Trees
  <2> QED
    BY <2>1, <2>2 DEF TypeOK, Elsewhere
<1>9. CASE CheckMaximumLayer(w)
  BY <1>9 DEF CheckMaximumLayer, Forget, TypeOK, Trees, Elsewhere
<1> QED
  BY <1>1, <1>2, <1>3, <1>4, <1>5, <1>6, <1>7, <1>8, <1>9 DEF Insert
-------------------------------------------------------------------------------
(* The neighbors an insertion has chosen are kept, level by level, until the *)
(* hook gets them; on the levels it has yet to link nothing is chosen, and   *)
(* no vertex is chosen twice on a level.                                     *)
Unborn == {"total", "first", "table", "entry", "max", "add"}

Choosing == {"search", "raise"} \cup Linking

Choices(w) ==
  \A l \in Levels :
    /\ pc[w] \in Unborn => chosen[w][l] = <<>>
    /\ pc[w] = "search" /\ l <= layer[w] => chosen[w][l] = <<>>
    /\ pc[w] \in Linking /\ l < layer[w] => chosen[w][l] = <<>>
    /\ \A i, j \in 1 .. Len(chosen[w][l]) :
         chosen[w][l][i] = chosen[w][l][j] => i = j

ChoicesInv == \A w \in Workers : Choices(w)

LEMMA InitChoices == Init => ChoicesInv
BY UnlinkedType DEF Init, ChoicesInv, Choices, Unborn, Linking

LEMMA NearestOnce ==
  ASSUME NEW S, S \subseteq Ids, NEW d, NEW k \in Nat, NEW s \in Nearest(S, d, k)
  PROVE  \A i, j \in 1 .. Len(s) : s[i] = s[j] => i = j
<1>1. IsFiniteSet(S) /\ Cardinality(S) \in Nat
  BY IdsFinite
<1>2. PICK n \in Nat : s \in [1 .. n -> S]
                       /\ \A i, j \in 1 .. n : i < j => s[i] # s[j]
  <2>1. PICK n \in Nat : n = (IF Cardinality(S) < k THEN Cardinality(S) ELSE k)
    BY <1>1
  <2> QED
    BY <2>1 DEF Nearest
<1>3. s \in Seq(S) /\ Len(s) = n
  BY <1>2
<1>4. ASSUME NEW i \in 1 .. n, NEW j \in 1 .. n, s[i] = s[j]
      PROVE  i = j
  <2>1. ~(i < j) /\ ~(j < i)
    BY <1>2, <1>4
  <2> QED
    BY <2>1
<1> QED
  BY <1>3, <1>4

LEMMA LevelOrder ==
  \A l, m \in Levels : /\ l < m => l <= m /\ l # m
                       /\ l <= m - 1 => l < m /\ l <= m
                       /\ ~(l < m) => l = m \/ m < l
<1>1. Levels \subseteq Int
  BY LevelAssumption DEF Levels
<1> QED
  BY <1>1

(* What the end of the loop body does to the position of w. *)
LEMMA AdvanceCases ==
  ASSUME TypeInv, NEW w \in Workers, Advance(w)
  PROVE  \/ /\ idx[w] < Len(chosen[w][layer[w]]) /\ idx'[w] = idx[w] + 1
            /\ pc'[w] = "link" /\ layer'[w] = layer[w]
         \/ /\ idx[w] >= Len(chosen[w][layer[w]])
            /\ pc'[w] = "search" /\ layer'[w] = layer[w] - 1
         \/ /\ idx[w] >= Len(chosen[w][layer[w]]) /\ layer[w] = 0
            /\ pc'[w] = "raise" /\ layer'[w] = layer[w]
<1> USE DEF TypeInv, TypeOK
<1>1. /\ idx' = [idx EXCEPT ![w] = @ + 1] => idx'[w] = idx[w] + 1
      /\ layer' = [layer EXCEPT ![w] = @ - 1] => layer'[w] = layer[w] - 1
      /\ \A p : pc' = [pc EXCEPT ![w] = p] => pc'[w] = p
  OBVIOUS
<1> HIDE DEF TypeInv, TypeOK
<1> QED
  BY <1>1 DEF Advance

LEMMA StepChoices ==
  ASSUME TypeInv, ChoicesInv, NEW w \in Workers, Take(w) \/ Insert(w)
  PROVE  ChoicesInv'
<1> USE DEF TypeInv
<1>0. Elsewhere(w)
  BY StepElsewhere
<1>1. SUFFICES Choices(w)'
  BY <1>0 DEF ChoicesInv, Choices, Elsewhere
<1>2. CASE Take(w)
  <2>1. chosen'[w] = Unlinked /\ pc'[w] = "total"
    BY <1>2 DEF Take, TypeOK
  <2> QED
    BY <2>1, UnlinkedType DEF Choices, Unborn, Linking
<1>3. CASE /\ UNCHANGED chosen
           /\ \/ pc[w] \in Unborn
              \/ pc'[w] = pc[w] /\ layer'[w] = layer[w]
              \/ pc'[w] \notin {"search"} \cup Unborn \cup Linking
              \/ pc[w] \in Linking /\ pc'[w] \in Linking /\ layer'[w] = layer[w]
           /\ pc[w] \notin Unborn => pc'[w] \notin Unborn
  BY <1>3 DEF ChoicesInv, Choices, Unborn, Linking
<1>4. CASE ReadTotal(w) \/ LockFirst(w) \/ FirstInsert(w) \/ ReadEntryPoint(w)
           \/ ReadMaximumLayer(w) \/ AddNode(w)
  <2>1. UNCHANGED chosen /\ pc[w] \in Unborn
    BY <1>4 DEF ReadTotal, LockFirst, FirstInsert, ReadEntryPoint, ReadMaximumLayer,
                AddNode, Unborn
  <2> QED
    BY <1>3, <2>1
<1>5. CASE Visit(w)
  <2>1. UNCHANGED <<chosen, pc, layer>>
    BY <1>5 DEF Visit
  <2> QED
    BY <1>3, <2>1
<1>6. ASSUME NEW c \in Ids, Expand(w, c)
      PROVE  Choices(w)'
  <2>1. UNCHANGED <<chosen, layer>> /\ pc[w] = "search"
        /\ (pc' = pc \/ pc' = [pc EXCEPT ![w] = "panic"])
    BY <1>6 DEF Expand
  <2> QED
    BY <1>3, <2>1 DEF TypeOK, Unborn, Linking
<1>7. CASE LinkNeighbor(w) \/ LinkSelf(w) \/ PublishEntryPoint(w)
           \/ PublishMaximumLayer(w)
  <2>1. /\ UNCHANGED <<chosen, layer>>
        /\ \/ pc[w] \in Linking /\ pc'[w] \in Linking
           \/ pc'[w] \in {"panic", "publish", "idle"}
        /\ pc[w] \notin Unborn
    BY <1>7 DEF LinkNeighbor, LinkSelf, PublishEntryPoint, PublishMaximumLayer,
                TypeOK, Linking, Unborn
  <2> QED
    BY <1>3, <2>1 DEF Unborn, Linking
<1>8. CASE Descend(w)
  <2>1. UNCHANGED <<chosen, pc>> /\ layer'[w] = layer[w] - 1 /\ pc[w] = "search"
    BY <1>8 DEF Descend, SearchOver, TypeOK
  <2>2. \A l \in Levels : l <= layer'[w] => l <= layer[w]
    BY <2>1, LevelOrder DEF TypeOK
  <2> QED
    BY <2>1, <2>2 DEF ChoicesInv, Choices, Unborn, Linking
<1>9. CASE SelectNeighbors(w)
  <2>1. PICK s \in Nearest(results[w], DistTo(w), maximumConnections) :
               chosen' = [chosen EXCEPT ![w][layer[w]] = s]
    BY <1>9 DEF SelectNeighbors
  <2>2. \A i, j \in 1 .. Len(s) : s[i] = s[j] => i = j
    <3>1. results[w] \subseteq Ids /\ maximumConnections \in Nat
      BY LimitAssumption DEF TypeOK, Trees
    <3> QED
      BY <2>1, <3>1, NearestOnce
  <2>3. \A l \in Levels : chosen'[w][l] = IF l = layer[w] THEN s ELSE chosen[w][l]
    BY <2>1 DEF TypeOK
  <2>4. pc[w] = "search" /\ pc'[w] = "link" /\ layer' = layer
    BY <1>9 DEF SelectNeighbors, SearchOver, TypeOK
  <2>5. \A l \in Levels : l < layer[w] => l <= layer[w] /\ l # layer[w]
    BY LevelOrder DEF TypeOK
  <2> QED
    BY <2>2, <2>3, <2>4, <2>5 DEF ChoicesInv, Choices, Unborn, Linking
<1>10. ASSUME Advance(w), UNCHANGED chosen, pc[w] \in {"count", "prune"}
       PROVE  Choices(w)'
  <2>1. pc'[w] = "search" => \A l \in Levels : l <= layer'[w] => l < layer[w]
    <3>1. pc'[w] = "search" => layer'[w] = layer[w] - 1
      BY <1>10, AdvanceCases
    <3>2. layer[w] \in Levels
      BY DEF TypeOK
    <3> HIDE DEF TypeInv
    <3>3. \A l \in Levels : l <= layer[w] - 1 => l < layer[w]
      BY <3>2, LevelOrder
    <3> QED
      BY <3>1, <3>3
  <2>2. pc'[w] \in {"link", "search", "raise"}
        /\ (pc'[w] = "link" => layer'[w] = layer[w])
    BY <1>10, AdvanceCases
  <2> QED
    BY <1>10, <2>1, <2>2 DEF ChoicesInv, Choices, Unborn, Linking
<1>11. CASE CountNeighbor(w)
  <2>1. pc[w] = "count" /\ UNCHANGED chosen
        /\ (Advance(w) \/ (pc' = [pc EXCEPT ![w] = "prune"] /\ layer' = layer))
    BY <1>11 DEF CountNeighbor
  <2>2. Advance(w) \/ (pc'[w] = "prune" /\ layer'[w] = layer[w])
    BY <2>1 DEF TypeOK
  <2> QED
    <3>1. CASE Advance(w)
      BY <1>10, <2>1, <3>1
    <3>2. CASE pc'[w] = "prune" /\ layer'[w] = layer[w]
      <4>1. /\ pc[w] \in Linking /\ pc'[w] \in Linking
            /\ pc[w] \notin Unborn /\ pc'[w] \notin Unborn
        BY <2>1, <3>2 DEF Unborn, Linking
      <4> QED
        BY <1>3, <2>1, <3>2, <4>1
    <3> QED
      BY <2>2, <3>1, <3>2
<1>12. CASE Prune(w)
  BY <1>10, <1>12 DEF Prune
<1>13. CASE CheckMaximumLayer(w)
  <2>1. chosen'[w] = Unlinked
    BY <1>13 DEF CheckMaximumLayer, Forget, TypeOK
  <2> QED
    BY <2>1, UnlinkedType DEF Choices
<1> QED
  BY <1>2, <1>4, <1>5, <1>6, <1>7, <1>8, <1>9, <1>11, <1>12, <1>13 DEF Insert
-------------------------------------------------------------------------------
(* A chosen neighbor is pending until the vertex has linked itself to it.    *)
Chosen(w, u, l) == pc[w] \in Choosing /\ u \in Elements(chosen[w][l])

Pending(w, u, l) ==
  /\ l = layer[w]
  /\ \E i \in 1 .. Len(chosen[w][l]) :
       /\ chosen[w][l][i] = u
       /\ \/ pc[w] \in {"link", "linkSelf"} /\ i >= idx[w]
          \/ pc[w] \in {"count", "prune"} /\ i > idx[w]

Settled(w, u, l) == Chosen(w, u, l) /\ ~Pending(w, u, l)

(* v has linked itself to u on level l because it chose u. *)
Linked(v, u, l) ==
  \/ \E h \in hooks : h.node = v /\ u \in Elements(h.neighbors[l])
  \/ \E w \in Workers : node[w] = v /\ Settled(w, u, l)

LEMMA ChoseMeans ==
  ASSUME NEW u, NEW v, NEW l
  PROVE  Chose(u, v, l) <=>
           \/ \E h \in hooks : h.node = u /\ v \in Elements(h.neighbors[l])
           \/ \E w \in Workers : node[w] = u /\ Chosen(w, v, l)
BY DEF Chose, Chosen, Choosing, Linking

(* What the end of the loop body leaves as it is. *)
LEMMA AdvanceSettled ==
  ASSUME TypeInv, ChoicesInv, NEW w \in Workers, pc[w] \in {"count", "prune"},
         Advance(w), UNCHANGED chosen, NEW u, NEW l \in Levels
  PROVE  /\ Chosen(w, u, l) => Chosen(w, u, l)'
         /\ Settled(w, u, l)' <=> Settled(w, u, l)
<1> DEFINE len == Len(chosen[w][layer[w]])
<1>1. pc'[w] \in Choosing /\ pc[w] \in Choosing
  BY AdvanceCases DEF Choosing, Linking
<1>2. Chosen(w, u, l)' <=> Chosen(w, u, l)
  BY <1>1 DEF Chosen
<1>3. idx[w] \in Nat /\ len \in Nat
  BY DEF TypeInv, TypeOK
<1>4. Pending(w, u, l)' <=> Pending(w, u, l)
  <2>1. CASE idx[w] < len /\ idx'[w] = idx[w] + 1 /\ pc'[w] = "link"
             /\ layer'[w] = layer[w]
    <3>1. \A i \in 1 .. len : i >= idx'[w] <=> i > idx[w]
      BY <1>3, <2>1
    <3>2. chosen' = chosen /\ pc[w] \in {"count", "prune"}
      OBVIOUS
    <3> QED
      BY <2>1, <3>1, <3>2 DEF Pending
  <2>2. CASE idx[w] >= len /\ pc'[w] \in {"search", "raise"}
    <3>1. ~ \E i \in 1 .. len : i > idx[w]
      BY <1>3, <2>2
    <3>2. ~Pending(w, u, l)
      BY <3>1 DEF Pending
    <3>3. ~Pending(w, u, l)'
      BY <2>2 DEF Pending
    <3> QED
      BY <3>2, <3>3
  <2> QED
    BY <2>1, <2>2, AdvanceCases
<1> QED
  BY <1>2, <1>4 DEF Settled

(* Only LinkSelf settles a neighbor, and nothing but the hook ends a choice. *)
LEMMA StepSettled ==
  ASSUME TypeInv, ChoicesInv, NEW w \in Workers, Take(w) \/ Insert(w), Running',
         ~CheckMaximumLayer(w), NEW u, NEW l \in Levels
  PROVE  /\ Chosen(w, u, l) => Chosen(w, u, l)'
         /\ Settled(w, u, l)' <=>
              Settled(w, u, l) \/ (LinkSelf(w) /\ u = Neighbor(w) /\ l = layer[w])
<1> USE DEF TypeInv
<1>0. pc'[w] # "panic"
  BY DEF Running
<1>1. ASSUME pc[w] # "linkSelf",
             Chosen(w, u, l) => Chosen(w, u, l)',
             Settled(w, u, l)' <=> Settled(w, u, l)
      PROVE  /\ Chosen(w, u, l) => Chosen(w, u, l)'
             /\ Settled(w, u, l)' <=>
                  Settled(w, u, l) \/ (LinkSelf(w) /\ u = Neighbor(w) /\ l = layer[w])
  BY <1>1 DEF LinkSelf
<1>2. CASE pc[w] \notin Choosing /\ pc'[w] \notin Choosing
  BY <1>1, <1>2 DEF Chosen, Settled, Choosing, Linking
<1>3. CASE \/ Take(w) \/ ReadTotal(w) \/ LockFirst(w) \/ FirstInsert(w)
           \/ ReadEntryPoint(w) \/ ReadMaximumLayer(w)
           \/ PublishEntryPoint(w) \/ PublishMaximumLayer(w)
  <2>1. /\ pc[w] \in Unborn \cup {"idle", "lock", "publish"}
        /\ pc'[w] \in Unborn \cup {"idle", "lock", "publish"}
    BY <1>3 DEF Take, ReadTotal, LockFirst, FirstInsert, ReadEntryPoint,
                ReadMaximumLayer, PublishEntryPoint, PublishMaximumLayer, TypeOK,
                Unborn
  <2> QED
    BY <1>2, <2>1 DEF Unborn, Choosing, Linking
<1>4. CASE AddNode(w)
  <2>1. pc[w] = "add" /\ chosen' = chosen
    BY <1>4 DEF AddNode
  <2>2. Elements(chosen[w][l]) = {}
    BY <2>1 DEF ChoicesInv, Choices, Unborn, Elements
  <2> QED
    BY <1>1, <2>1, <2>2 DEF Chosen, Settled
<1>5. CASE /\ pc[w] \in Choosing /\ pc'[w] \in Choosing /\ pc[w] # "linkSelf"
           /\ UNCHANGED chosen
           /\ Pending(w, u, l)' <=> Pending(w, u, l)
  BY <1>1, <1>5 DEF Chosen, Settled
<1>6. CASE Visit(w) \/ Descend(w) \/ \E c \in Ids : Expand(w, c)
  <2>1. pc[w] = "search" /\ pc'[w] = "search" /\ UNCHANGED chosen
    BY <1>0, <1>6 DEF Visit, Descend, SearchOver, Expand, TypeOK
  <2> QED
    BY <1>5, <2>1 DEF Choosing, Pending
<1>7. CASE SelectNeighbors(w)
  <2>1. PICK s : chosen' = [chosen EXCEPT ![w][layer[w]] = s]
    BY <1>7 DEF SelectNeighbors
  <2>2. /\ pc[w] = "search" /\ pc'[w] = "link" /\ layer'[w] = layer[w]
        /\ idx'[w] = 1
    BY <1>7 DEF SelectNeighbors, SearchOver, TypeOK
  <2>3. chosen'[w][l] = IF l = layer[w] THEN s ELSE chosen[w][l]
    BY <2>1 DEF TypeOK
  <2>4. CASE l = layer[w]
    <3>1. Elements(chosen[w][l]) = {}
      <4>1. l <= layer[w]
        BY <2>4, IdsAndLevels
      <4> QED
        BY <2>2, <4>1 DEF ChoicesInv, Choices, Elements
    <3>2. Chosen(w, u, l)' => Pending(w, u, l)'
      <4>1. \A i \in 1 .. Len(chosen'[w][l]) : i >= 1
        OBVIOUS
      <4> QED
        BY <2>2, <2>4, <4>1 DEF Chosen, Pending, Elements
    <3> QED
      BY <1>1, <2>2, <3>1, <3>2 DEF Chosen, Settled
  <2>5. CASE l # layer[w]
    BY <1>1, <2>2, <2>3, <2>5 DEF Chosen, Settled, Pending, Choosing, Linking
  <2> QED
    BY <2>4, <2>5
<1>8. CASE LinkNeighbor(w)
  <2>1. /\ pc[w] = "link" /\ pc'[w] = "linkSelf"
        /\ UNCHANGED <<chosen, layer, idx>>
    BY <1>0, <1>8 DEF LinkNeighbor, TypeOK
  <2> QED
    BY <1>5, <2>1 DEF Choosing, Linking, Pending
<1>9. CASE LinkSelf(w)
  <2> DEFINE list == chosen[w][layer[w]]
  <2>1. /\ pc[w] = "linkSelf" /\ pc'[w] = "count"
        /\ UNCHANGED <<chosen, layer, idx>>
    BY <1>9 DEF LinkSelf, TypeOK
  <2>2. /\ idx[w] \in 1 .. Len(list) /\ Len(list) \in Nat
        /\ \A i, j \in 1 .. Len(list) : list[i] = list[j] => i = j
    <3>1. list \in Seq(Ids) /\ layer[w] \in Levels
      BY DEF TypeOK
    <3>2. idx[w] \in 1 .. Len(list) /\ Len(list) \in Nat
      BY <2>1, <3>1 DEF Positions, Position, Linking
    <3> QED
      BY <3>1, <3>2 DEF ChoicesInv, Choices
  <2>3. Chosen(w, u, l)' <=> Chosen(w, u, l)
    BY <2>1 DEF Chosen, Choosing, Linking
  <2>4. Pending(w, u, l) <=>
          l = layer[w] /\ \E i \in 1 .. Len(list) : list[i] = u /\ i >= idx[w]
    BY <2>1 DEF Pending
  <2>5. Pending(w, u, l)' <=>
          l = layer[w] /\ \E i \in 1 .. Len(list) : list[i] = u /\ i > idx[w]
    BY <2>1 DEF Pending
  <2>6. Neighbor(w) = list[idx[w]] /\ Neighbor(w) \in Elements(list)
    BY <2>2 DEF Neighbor, Elements
  <2>7. ASSUME l = layer[w]
        PROVE  /\ Pending(w, u, l) <=> Pending(w, u, l)' \/ u = Neighbor(w)
               /\ u = Neighbor(w) => ~Pending(w, u, l)'
    <3>1. ASSUME NEW i \in 1 .. Len(list), list[i] = u
          PROVE  /\ i >= idx[w] <=> i > idx[w] \/ u = Neighbor(w)
                 /\ u = Neighbor(w) => ~(i > idx[w])
      <4>1. u = Neighbor(w) <=> i = idx[w]
        BY <2>2, <2>6, <3>1
      <4> HIDE DEF TypeInv, list
      <4> QED
        BY <2>2, <4>1
    <3>2. u = Neighbor(w) => \E i \in 1 .. Len(list) : list[i] = u /\ i >= idx[w]
      BY <2>2, <2>6
    <3> QED
      BY <2>4, <2>5, <2>7, <3>1, <3>2
  <2>8. u = Neighbor(w) /\ l = layer[w] => Chosen(w, u, l)
    BY <2>1, <2>6 DEF Chosen, Choosing, Linking
  <2>9. l # layer[w] => ~Pending(w, u, l) /\ ~Pending(w, u, l)'
    BY <2>4, <2>5
  <2> QED
    <3>1. CASE l = layer[w]
      BY <1>9, <2>3, <2>7, <2>8, <3>1 DEF Settled
    <3>2. CASE l # layer[w]
      BY <1>9, <2>3, <2>9, <3>2 DEF Settled
    <3> QED
      BY <3>1, <3>2
<1>10. CASE CountNeighbor(w)
  <2>1. pc[w] = "count" /\ UNCHANGED chosen
        /\ (Advance(w) \/ (pc' = [pc EXCEPT ![w] = "prune"] /\ UNCHANGED <<layer, idx>>))
    BY <1>10 DEF CountNeighbor
  <2>2. CASE Advance(w)
    BY <1>1, <2>1, <2>2, AdvanceSettled
  <2>3. CASE pc' = [pc EXCEPT ![w] = "prune"] /\ UNCHANGED <<layer, idx>>
    <3>1. pc'[w] = "prune"
      BY <2>3 DEF TypeOK
    <3> QED
      BY <1>5, <2>1, <2>3, <3>1 DEF Choosing, Linking, Pending
  <2> QED
    BY <2>1, <2>2, <2>3
<1>11. CASE Prune(w)
  BY <1>1, <1>11, AdvanceSettled DEF Prune
<1> QED
  BY <1>3, <1>4, <1>6, <1>7, <1>8, <1>9, <1>10, <1>11 DEF Insert

(* What a step does to the hooks. *)
LEMMA StepHooks ==
  ASSUME NEW w \in Workers, Take(w) \/ Insert(w)
  PROVE  \/ hooks' = hooks
         \/ /\ FirstInsert(w)
            /\ hooks' = hooks \cup {[node |-> node[w], target |-> 0,
                                     neighbors |-> Unlinked, live |-> TRUE]}
         \/ /\ CheckMaximumLayer(w)
            /\ hooks' = hooks \cup {[node |-> node[w], target |-> levelOf[node[w]],
                                     neighbors |-> chosen[w], live |-> FALSE]}
BY DEF Take, Insert, ReadTotal, LockFirst, FirstInsert, ReadEntryPoint,
       ReadMaximumLayer, AddNode, Expand, Visit, Descend, SelectNeighbors,
       LinkNeighbor, LinkSelf, CountNeighbor, Prune, CheckMaximumLayer,
       PublishEntryPoint, PublishMaximumLayer

(* What is in the hooks, of what is chosen or linked. *)
Reported(v, u, l) == \E h \in hooks : h.node = v /\ u \in Elements(h.neighbors[l])

LEMMA StepReported ==
  ASSUME NEW w \in Workers, Take(w) \/ Insert(w), NEW v, NEW u, NEW l \in Levels
  PROVE  Reported(v, u, l)' <=>
           \/ Reported(v, u, l)
           \/ CheckMaximumLayer(w) /\ v = node[w] /\ u \in Elements(chosen[w][l])
<1>1. Elements(Unlinked[l]) = {}
  BY UnlinkedType DEF Elements
<1>2. CASE hooks' = hooks /\ ~CheckMaximumLayer(w)
  BY <1>2 DEF Reported
<1>3. CASE /\ FirstInsert(w)
           /\ hooks' = hooks \cup {[node |-> node[w], target |-> 0,
                                    neighbors |-> Unlinked, live |-> TRUE]}
  <2>1. ~CheckMaximumLayer(w)
    BY <1>3 DEF FirstInsert, CheckMaximumLayer
  <2> QED
    BY <1>1, <1>3, <2>1 DEF Reported
<1>4. CASE /\ CheckMaximumLayer(w)
           /\ hooks' = hooks \cup {[node |-> node[w], target |-> levelOf[node[w]],
                                    neighbors |-> chosen[w], live |-> FALSE]}
  <2> DEFINE new == [node |-> node[w], target |-> levelOf[node[w]],
                     neighbors |-> chosen[w], live |-> FALSE]
  <2>1. /\ hooks' = hooks \cup {new}
        /\ new.node = node[w] /\ new.neighbors = chosen[w]
    BY <1>4
  <2> HIDE DEF new
  <2>2. Reported(v, u, l)' <=> \E h \in hooks' : h.node = v /\ u \in Elements(h.neighbors[l])
    BY DEF Reported
  <2> QED
    BY <1>4, <2>1, <2>2 DEF Reported
<1>5. CheckMaximumLayer(w) =>
        hooks' = hooks \cup {[node |-> node[w], target |-> levelOf[node[w]],
                              neighbors |-> chosen[w], live |-> FALSE]}
  BY DEF CheckMaximumLayer
<1> QED
  BY <1>2, <1>3, <1>4, <1>5, StepHooks

LEMMA StepNode ==
  ASSUME TypeOK, NEW w \in Workers, Take(w) \/ Insert(w)
  PROVE  node'[w] = node[w] \/ (pc[w] = "idle" /\ pc'[w] = "total")
<1>1. Take(w) => pc[w] = "idle" /\ pc'[w] = "total"
  BY DEF Take, TypeOK
<1>2. ~Take(w) => node' = node
  BY DEF Insert, ReadTotal, LockFirst, FirstInsert, ReadEntryPoint,
         ReadMaximumLayer, AddNode, Expand, Visit, Descend, SelectNeighbors,
         LinkNeighbor, LinkSelf, CountNeighbor, Prune, CheckMaximumLayer,
         PublishEntryPoint, PublishMaximumLayer
<1> QED
  BY <1>1, <1>2

(* Until something panics, a choice stays one, and LinkSelf alone adds to    *)
(* what is linked.                                                           *)
LEMMA StepLinked ==
  ASSUME TypeInv, ChoicesInv, NEW w \in Workers, Take(w) \/ Insert(w), Running',
         NEW v, NEW u, NEW l \in Levels
  PROVE  /\ Chose(v, u, l) => Chose(v, u, l)'
         /\ Linked(v, u, l)' <=>
              \/ Linked(v, u, l)
              \/ LinkSelf(w) /\ v = node[w] /\ u = Neighbor(w) /\ l = layer[w]
<1> DEFINE new == LinkSelf(w) /\ u = Neighbor(w) /\ l = layer[w]
<1>1. \A x \in Workers \ {w} : /\ node'[x] = node[x]
                               /\ Chosen(x, u, l)' <=> Chosen(x, u, l)
                               /\ Settled(x, u, l)' <=> Settled(x, u, l)
  BY StepElsewhere DEF Elsewhere, Chosen, Pending, Settled
<1>2. CASE ~CheckMaximumLayer(w)
  <2>1. Reported(v, u, l)' <=> Reported(v, u, l)
    BY <1>2, StepReported
  <2>2. /\ Chosen(w, u, l) => Chosen(w, u, l)'
        /\ Settled(w, u, l)' <=> Settled(w, u, l) \/ new
    BY <1>2, StepSettled
  <2>3. node'[w] = node[w] \/ (~Chosen(w, u, l) /\ ~Chosen(w, u, l)' /\ ~new)
    BY StepNode DEF TypeInv, Chosen, Choosing, Linking, LinkSelf
  <2>4. (node[w] = v /\ Chosen(w, u, l)) => (node'[w] = v /\ Chosen(w, u, l)')
    BY <2>2, <2>3
  <2>5. (node'[w] = v /\ Settled(w, u, l)') <=>
          (node[w] = v /\ Settled(w, u, l)) \/ (new /\ v = node[w])
    BY <2>2, <2>3 DEF Settled
  <2> HIDE DEF new
  <2>6. Chose(v, u, l) => Chose(v, u, l)'
    <3>1. ASSUME Chose(v, u, l)
          PROVE  \/ Reported(v, u, l)'
                 \/ \E x \in Workers : node'[x] = v /\ Chosen(x, u, l)'
      BY <1>1, <2>1, <2>4, <3>1, ChoseMeans DEF Reported
    <3>2. Chose(v, u, l)' <=> \/ Reported(v, u, l)'
                              \/ \E x \in Workers : node'[x] = v /\ Chosen(x, u, l)'
      BY DEF Chose, Chosen, Choosing, Linking, Reported
    <3> QED
      BY <3>1, <3>2
  <2>7. Linked(v, u, l)' <=> Linked(v, u, l) \/ (new /\ v = node[w])
    <3>1. Linked(v, u, l) <=> \/ Reported(v, u, l)
                              \/ \E x \in Workers : node[x] = v /\ Settled(x, u, l)
      BY DEF Linked, Reported
    <3>2. Linked(v, u, l)' <=> \/ Reported(v, u, l)'
                               \/ \E x \in Workers : node'[x] = v /\ Settled(x, u, l)'
      BY DEF Linked, Reported
    <3> QED
      BY <1>1, <2>1, <2>5, <3>1, <3>2
  <2> QED
    BY <2>6, <2>7 DEF new
<1>3. CASE CheckMaximumLayer(w)
  <2>1. Reported(v, u, l)' <=>
          Reported(v, u, l) \/ (v = node[w] /\ u \in Elements(chosen[w][l]))
    BY <1>3, StepReported
  <2>2. pc[w] = "raise" /\ pc'[w] \notin Choosing /\ ~LinkSelf(w)
    BY <1>3 DEF CheckMaximumLayer, TypeInv, TypeOK, Choosing, Linking, LinkSelf
  <2>3. (Chosen(w, u, l) <=> u \in Elements(chosen[w][l]))
        /\ (Settled(w, u, l) <=> u \in Elements(chosen[w][l]))
    BY <2>2 DEF Chosen, Settled, Pending, Choosing
  <2>4. ~Chosen(w, u, l)' /\ ~Settled(w, u, l)'
    BY <2>2 DEF Chosen, Settled
  <2>5. Chose(v, u, l) => Chose(v, u, l)'
    <3>1. Chose(v, u, l)' <=> \/ Reported(v, u, l)'
                              \/ \E x \in Workers : node'[x] = v /\ Chosen(x, u, l)'
      BY DEF Chose, Chosen, Choosing, Linking, Reported
    <3> QED
      BY <1>1, <2>1, <2>3, <3>1, ChoseMeans DEF Reported
  <2>6. Linked(v, u, l)' <=> Linked(v, u, l)
    <3>1. Linked(v, u, l) <=> \/ Reported(v, u, l)
                              \/ \E x \in Workers : node[x] = v /\ Settled(x, u, l)
      BY DEF Linked, Reported
    <3>2. Linked(v, u, l)' <=> \/ Reported(v, u, l)'
                               \/ \E x \in Workers : node'[x] = v /\ Settled(x, u, l)'
      BY DEF Linked, Reported
    <3> QED
      BY <1>1, <2>1, <2>3, <2>4, <3>1, <3>2
  <2> QED
    BY <2>2, <2>5, <2>6
<1> QED
  BY <1>2, <1>3
-------------------------------------------------------------------------------
(* What a step may do to the lists: nothing, forget those of a new vertex,   *)
(* extend one by a link, or cut one down.                                    *)
ForgetsLists(w) ==
  /\ pc[w] \in {"table", "max"}
  /\ \A v \in Ids, l \in Levels :
       connections'[v][l] = IF v = node[w] THEN <<>> ELSE connections[v][l]

Extends(v, l, x) ==
  \A u \in Ids, m \in Levels :
    connections'[u][m] = IF u = v /\ m = l THEN Append(connections[v][l], x)
                                           ELSE connections[u][m]

Cuts(v, l, s) ==
  \A u \in Ids, m \in Levels :
    connections'[u][m] = IF u = v /\ m = l THEN s ELSE connections[u][m]

IsPruned(w, s) ==
  /\ s \in Seq(Ids)
  /\ Elements(s) \subseteq Elements(snapshot[w])
  /\ Len(s) <= Limit(layer[w])
  /\ snapshot[w] # <<>> => s # <<>>

LEMMA StepLists ==
  ASSUME TypeInv, NEW w \in Workers, Take(w) \/ Insert(w)
  PROVE  \/ UNCHANGED connections /\ ~LinkSelf(w) /\ ~Prune(w)
         \/ ForgetsLists(w)
         \/ LinkNeighbor(w) /\ pc'[w] = "linkSelf"
              /\ Extends(Neighbor(w), layer[w], node[w])
         \/ LinkSelf(w) /\ Extends(node[w], layer[w], Neighbor(w))
         \/ Prune(w) /\ \E s : IsPruned(w, s) /\ Cuts(Neighbor(w), layer[w], s)
<1> USE DEF TypeInv
<1>1. CASE FirstInsert(w)
  BY <1>1, UnlinkedType DEF FirstInsert, ForgetsLists, TypeOK
<1>2. CASE ReadMaximumLayer(w)
  BY <1>2, UnlinkedType DEF ReadMaximumLayer, ForgetsLists, TypeOK
<1>3. CASE LinkNeighbor(w)
  <2>1. pc[w] = "link" /\ Neighbor(w) \in Ids /\ layer[w] \in Levels /\ node[w] \in Ids
    BY <1>3, NeighborType DEF LinkNeighbor, Linking, TypeOK
  <2>2. ~LinkSelf(w) /\ ~Prune(w)
    BY <2>1 DEF LinkSelf, Prune
  <2>3. CASE UNCHANGED connections
    BY <2>2, <2>3
  <2>4. CASE /\ pc' = [pc EXCEPT ![w] = "linkSelf"]
             /\ connections' =
                  [connections EXCEPT ![Neighbor(w)][layer[w]] = Append(@, node[w])]
    <3>1. Extends(Neighbor(w), layer[w], node[w])
      BY <2>1, <2>4, AppendLink DEF Extends
    <3>2. pc'[w] = "linkSelf"
      BY <2>4 DEF TypeOK
    <3> QED
      BY <1>3, <3>1, <3>2
  <2> QED
    BY <1>3, <2>3, <2>4 DEF LinkNeighbor
<1>4. CASE LinkSelf(w)
  <2>1. Neighbor(w) \in Ids /\ layer[w] \in Levels /\ node[w] \in Ids
    BY <1>4, NeighborType DEF LinkSelf, Linking, TypeOK
  <2>2. connections' =
          [connections EXCEPT ![node[w]][layer[w]] = Append(@, Neighbor(w))]
    BY <1>4 DEF LinkSelf
  <2>3. Extends(node[w], layer[w], Neighbor(w))
    BY <2>1, <2>2, AppendLink DEF Extends
  <2> QED
    BY <1>4, <2>3
<1>5. CASE Prune(w)
  <2>1. PICK s \in Nearest(Elements(snapshot[w]), DistTo(w), Limit(layer[w])) :
               connections' = [connections EXCEPT ![Neighbor(w)][layer[w]] = s]
    BY <1>5 DEF Prune
  <2>2. /\ snapshot[w] \in Seq(Ids) /\ layer[w] \in Levels
        /\ Elements(snapshot[w]) \subseteq Ids
    BY ElementsOf DEF TypeOK
  <2>3. snapshot[w] # <<>> => Elements(snapshot[w]) # {}
    BY <2>2, ElementsOf
  <2>4. IsPruned(w, s)
    <3>1. /\ s \in Seq(Ids) /\ Elements(s) \subseteq Elements(snapshot[w])
          /\ Len(s) <= Limit(layer[w])
          /\ Elements(snapshot[w]) # {} => Len(s) > 0
      BY <2>1, <2>2, NearestList, LimitType
    <3>2. Len(s) > 0 => s # <<>>
      OBVIOUS
    <3> QED
      BY <2>3, <3>1, <3>2 DEF IsPruned
  <2>5. Neighbor(w) \in Ids
    BY <1>5, NeighborType DEF Prune, Linking
  <2>6. Cuts(Neighbor(w), layer[w], s)
    <3>1. s \in Seq(Ids)
      BY <2>4 DEF IsPruned
    <3> QED
      BY <2>1, <2>2, <2>5, <3>1, ReplaceLinks DEF Cuts
  <2> QED
    BY <1>5, <2>4, <2>6
<1>6. CASE Take(w) \/ ReadTotal(w) \/ LockFirst(w) \/ ReadEntryPoint(w) \/ AddNode(w)
           \/ (\E c \in Ids : Expand(w, c)) \/ Visit(w) \/ Descend(w)
           \/ SelectNeighbors(w) \/ CountNeighbor(w) \/ CheckMaximumLayer(w)
           \/ PublishEntryPoint(w) \/ PublishMaximumLayer(w)
  <2>1. UNCHANGED connections /\ pc[w] \notin {"linkSelf", "prune"}
    BY <1>6 DEF Take, ReadTotal, LockFirst, ReadEntryPoint, AddNode, Expand, Visit,
                Descend, SearchOver, SelectNeighbors, CountNeighbor,
                CheckMaximumLayer, PublishEntryPoint, PublishMaximumLayer, graph
  <2> QED
    BY <2>1 DEF LinkSelf, Prune
<1> QED
  BY <1>1, <1>2, <1>3, <1>4, <1>5, <1>6 DEF Insert

(* A copy that is to be pruned was just made, and was too long. *)
LEMMA StepToPrune ==
  ASSUME TypeInv, NEW w \in Workers, Take(w) \/ Insert(w), pc'[w] = "prune"
  PROVE  /\ pc[w] = "count"
         /\ UNCHANGED <<graph, hooks, node, chosen, layer, idx>>
         /\ Neighbor(w)' = Neighbor(w)
         /\ snapshot'[w] = connections[Neighbor(w)][layer[w]]
         /\ Len(snapshot'[w]) > Limit(layer[w])
<1> USE DEF TypeInv
<1>1. Advance(w) => pc'[w] \in {"link", "search", "raise"}
  BY AdvanceCases
<1>2. CountNeighbor(w)
  <2>1. ~Prune(w)
    BY <1>1 DEF Prune
  <2>2. ~Take(w)
    BY DEF Take, TypeOK
  <2>3. \A c \in Ids : ~Expand(w, c)
    BY DEF Expand, TypeOK
  <2>4. ~Visit(w) /\ ~Descend(w)
    BY DEF Visit, Descend, SearchOver
  <2>5. ~(ReadTotal(w) \/ LockFirst(w) \/ FirstInsert(w) \/ ReadEntryPoint(w)
          \/ ReadMaximumLayer(w) \/ AddNode(w) \/ SelectNeighbors(w)
          \/ LinkNeighbor(w) \/ LinkSelf(w) \/ CheckMaximumLayer(w)
          \/ PublishEntryPoint(w) \/ PublishMaximumLayer(w))
    <3>1. \A p \in PcValues \ {"prune"} : pc' # [pc EXCEPT ![w] = p]
      BY DEF TypeOK
    <3> QED
      BY <3>1 DEF PcValues, ReadTotal, LockFirst, FirstInsert, ReadEntryPoint,
                  ReadMaximumLayer, AddNode, SelectNeighbors, LinkNeighbor, LinkSelf,
                  CheckMaximumLayer, PublishEntryPoint, PublishMaximumLayer
  <2> QED
    BY <2>1, <2>2, <2>3, <2>4, <2>5 DEF Insert
<1> DEFINE current == connections[Neighbor(w)][layer[w]]
<1>3. /\ pc[w] = "count" /\ UNCHANGED <<graph, hooks, node, chosen, layer, idx>>
      /\ snapshot' = [snapshot EXCEPT ![w] = current]
      /\ ~(Len(current) <= Limit(layer[w]))
  BY <1>1, <1>2 DEF CountNeighbor
<1>4. snapshot'[w] = current
  BY <1>3 DEF TypeOK
<1>5. Len(current) \in Nat /\ Limit(layer[w]) \in Nat
  <2>1. Neighbor(w) \in Ids /\ layer[w] \in Levels
    BY <1>3, NeighborType DEF Linking, TypeOK
  <2>2. current \in Seq(Ids)
    BY <2>1 DEF TypeOK
  <2> QED
    BY <2>1, <2>2, LimitType
<1>6. Len(current) > Limit(layer[w])
  <2> HIDE DEF TypeInv, current
  <2> QED
    BY <1>3, <1>5
<1>7. Neighbor(w)' = Neighbor(w)
  BY <1>3 DEF Neighbor
<1> QED
  BY <1>3, <1>4, <1>6, <1>7
-------------------------------------------------------------------------------
(* No link but one that a hook reports, or will report: the one end chose    *)
(* the other, and stale copies of lists hold nothing else.                   *)
ToldOf(v, u, l) == Chose(u, v, l) \/ Chose(v, u, l)

LinksTold ==
  /\ \A v \in Ids, l \in Levels : \A u \in Elements(connections[v][l]) : ToldOf(v, u, l)
  /\ \A w \in Workers : pc[w] = "prune" =>
       \A u \in Elements(snapshot[w]) : ToldOf(Neighbor(w), u, layer[w])

LEMMA ChoseNeighbor ==
  ASSUME TypeInv, NEW w \in Workers, pc[w] \in Linking
  PROVE  Chose(node[w], Neighbor(w), layer[w])
<1>1. Chosen(w, Neighbor(w), layer[w])
  BY NeighborType DEF Chosen, Choosing
<1> QED
  BY <1>1, ChoseMeans

LEMMA StepLinksTold ==
  ASSUME TypeInv, ChoicesInv, LinksTold, NEW w \in Workers, Take(w) \/ Insert(w),
         Running'
  PROVE  LinksTold'
<1> USE DEF TypeInv
<1>1. \A v, u : \A l \in Levels : ToldOf(v, u, l) => ToldOf(v, u, l)'
  BY StepLinked DEF ToldOf
<1>2. \A v \in Ids, l \in Levels : connections[v][l] \in Seq(Ids)
  BY DEF TypeOK
<1>3. ASSUME NEW v \in Ids, NEW l \in Levels, NEW u \in Elements(connections'[v][l])
      PROVE  ToldOf(v, u, l)'
  <2>1. CASE u \in Elements(connections[v][l])
    BY <1>1, <2>1 DEF LinksTold
  <2>2. CASE ForgetsLists(w)
    <3>1. Elements(<<>>) = {}
      BY DEF Elements
    <3> QED
      BY <1>3, <2>1, <2>2, <3>1 DEF ForgetsLists
  <2>3. ASSUME NEW t \in Ids, NEW m \in Levels, NEW x \in Ids, Extends(t, m, x),
               ToldOf(t, x, m)
        PROVE  ToldOf(v, u, l)'
    <3>1. CASE v = t /\ l = m
      <4>1. u \in Elements(connections[v][l]) \cup {x}
        BY <1>2, <1>3, <2>3, <3>1, ElementsOf DEF Extends
      <4> QED
        BY <1>1, <2>1, <2>3, <3>1, <4>1
    <3>2. CASE ~(v = t /\ l = m)
      BY <1>3, <2>1, <2>3, <3>2 DEF Extends
    <3> QED
      BY <3>1, <3>2
  <2>4. CASE /\ LinkNeighbor(w) \/ LinkSelf(w)
             /\ \/ Extends(Neighbor(w), layer[w], node[w])
                \/ Extends(node[w], layer[w], Neighbor(w))
    <3>1. pc[w] \in Linking
      BY <2>4 DEF LinkNeighbor, LinkSelf, Linking
    <3>2. Neighbor(w) \in Ids /\ layer[w] \in Levels /\ node[w] \in Ids
      BY <3>1, NeighborType DEF TypeOK
    <3>3. ToldOf(Neighbor(w), node[w], layer[w]) /\ ToldOf(node[w], Neighbor(w), layer[w])
      BY <3>1, ChoseNeighbor DEF ToldOf
    <3> QED
      BY <2>3, <2>4, <3>2, <3>3
  <2>5. ASSUME Prune(w), NEW s, IsPruned(w, s), Cuts(Neighbor(w), layer[w], s)
        PROVE  ToldOf(v, u, l)'
    <3>1. CASE v = Neighbor(w) /\ l = layer[w]
      <4>1. u \in Elements(snapshot[w]) /\ pc[w] = "prune"
        BY <1>3, <2>5, <3>1 DEF Cuts, IsPruned, Prune
      <4> QED
        BY <1>1, <3>1, <4>1 DEF LinksTold
    <3>2. CASE ~(v = Neighbor(w) /\ l = layer[w])
      BY <1>3, <2>1, <2>5, <3>2 DEF Cuts
    <3> QED
      BY <3>1, <3>2
  <2>6. CASE UNCHANGED connections
    BY <1>3, <2>1, <2>6
  <2> QED
    BY <2>2, <2>4, <2>5, <2>6, StepLists
<1>4. ASSUME NEW x \in Workers, pc'[x] = "prune", NEW u \in Elements(snapshot'[x])
      PROVE  ToldOf(Neighbor(x), u, layer[x])'
  <2>0. ASSUME NEW v, NEW l, v = Neighbor(x)', l = layer'[x], ToldOf(v, u, l)'
        PROVE  ToldOf(Neighbor(x), u, layer[x])'
    BY <2>0 DEF ToldOf, Chose
  <2>1. CASE x = w
    <3>1. /\ snapshot'[w] = connections[Neighbor(w)][layer[w]] /\ pc[w] = "count"
          /\ Neighbor(w)' = Neighbor(w) /\ layer'[w] = layer[w]
      BY <1>4, <2>1, StepToPrune
    <3>2. Neighbor(w) \in Ids /\ layer[w] \in Levels
      BY <3>1, NeighborType DEF Linking, TypeOK
    <3>3. ToldOf(Neighbor(w), u, layer[w])
      BY <1>4, <2>1, <3>1, <3>2 DEF LinksTold
    <3> QED
      BY <1>1, <2>0, <2>1, <3>1, <3>2, <3>3
  <2>2. CASE x # w
    <3>1. /\ pc'[x] = pc[x] /\ snapshot'[x] = snapshot[x] /\ layer'[x] = layer[x]
          /\ Neighbor(x)' = Neighbor(x)
      BY <2>2, StepElsewhere DEF Elsewhere, Neighbor
    <3>2. ToldOf(Neighbor(x), u, layer[x]) /\ layer[x] \in Levels
      BY <1>4, <3>1 DEF LinksTold, TypeOK
    <3> QED
      BY <1>1, <2>0, <3>1, <3>2
  <2> QED
    BY <2>1, <2>2
<1> QED
  <2>1. \A x \in Workers : pc'[x] = "prune" =>
          \A u \in Elements(snapshot'[x]) : ToldOf(Neighbor(x), u, layer[x])'
    BY <1>4
  <2> QED
    BY <1>3, <2>1 DEF LinksTold

LEMMA StutterLinks ==
  UNCHANGED vars => (ChoicesInv => ChoicesInv') /\ (LinksTold => LinksTold')
                    /\ (Running => Running')
BY DEF vars, graph, search, ChoicesInv, Choices, LinksTold, ToldOf, Chose, Neighbor,
       Running

(* A worker has chosen nothing on a level it has yet to search, and never    *)
(* chooses a vertex twice on one level.                                      *)
THEOREM ChoicesInvariance == Spec => []ChoicesInv
<1>1. TypeInv /\ ChoicesInv /\ [Next]_vars => ChoicesInv'
  BY StepChoices, StutterLinks DEF Next, Step, Over
<1> QED
  BY <1>1, InitChoices, TypeInvariance, PTL DEF Spec

(* Until something panics, every link is one that a hook tells the other     *)
(* graph of, or that the worker which made it is about to tell.              *)
THEOREM EveryLinkIsTold == Spec => []HooksTellEveryLink
<1> DEFINE Inv == Running => LinksTold
<1>1. Init => Inv
  <2>1. Elements(<<>>) = {}
    BY DEF Elements
  <2> QED
    BY <2>1, UnlinkedType DEF Init, LinksTold
<1>2. TypeInv /\ ChoicesInv /\ Inv /\ [Next]_vars => Inv'
  <2>1. UNCHANGED vars => (LinksTold => LinksTold') /\ (Running' => Running)
    BY DEF vars, graph, search, LinksTold, ToldOf, Chose, Neighbor, Running
  <2> QED
    BY <2>1, StepLinksTold DEF Next, Step, Over
<1>3. Inv => HooksTellEveryLink
  BY DEF LinksTold, ToldOf, HooksTellEveryLink
<1> QED
  BY <1>1, <1>2, <1>3, TypeInvariance, ChoicesInvariance, PTL DEF Spec
-------------------------------------------------------------------------------
(* Whatever may still have its lists emptied is known to nobody else: an id  *)
(* is read from the graph only once its vertex is born, that is, past the    *)
(* steps that make its maps.  Unlike References this holds however often the *)
(* table is made.  While the first vertex waits to be stored it is nascent:  *)
(* the entry point names it already.                                         *)
Born(v) == v < jobs /\ \A w \in Workers : pc[w] \in Unborn => node[w] # v

Nascent(v) == Born(v) \/ \E w \in Workers : pc[w] = "table" /\ node[w] = v

BornTo(w) ==
  /\ \A v \in results[w] : IF pc[w] \in {"max", "add"} THEN Nascent(v) ELSE Born(v)
  /\ \A v \in candidates[w] : Born(v)
  /\ \A v \in Elements(todo[w]) : Born(v)
  /\ \A v \in Elements(snapshot[w]) : Born(v)
  /\ \A l \in Levels : \A v \in Elements(chosen[w][l]) : Born(v)

BornOnly ==
  /\ nodes # {} => Nascent(entryPointID)
  /\ \A v \in Ids, l \in Levels : \A u \in Elements(connections[v][l]) : Born(u)
  /\ \A w \in Workers : BornTo(w)

Inserting(w) == pc[w] \notin {"idle", "panic", "lock", "publish"}

HooksBorn ==
  \A h \in hooks :
    /\ h.node < jobs
    /\ \A l \in Levels : \A u \in Elements(h.neighbors[l]) : Born(u)
    /\ \A w \in Workers : Inserting(w) => node[w] # h.node

LEMMA InitBorn == Init => BornOnly /\ HooksBorn
<1>1. Elements(<<>>) = {}
  BY DEF Elements
<1> QED
  BY <1>1, UnlinkedType DEF Init, BornOnly, BornTo, HooksBorn

LEMMA StepJobs ==
  ASSUME TypeInv, NEW w \in Workers, Take(w) \/ Insert(w)
  PROVE  \/ /\ UNCHANGED <<jobs, node>>
            /\ pc'[w] \in Unborn => pc[w] \in Unborn
            /\ Inserting(w)' => Inserting(w)
            /\ pc'[w] = "table" => pc[w] = "first"
            /\ pc[w] = "table" => pc'[w] = "idle"
         \/ /\ Take(w) /\ pc[w] = "idle" /\ pc'[w] = "total"
            /\ jobs' = jobs + 1 /\ jobs \in Nat /\ node'[w] = jobs
<1> USE DEF TypeInv
<1>1. CASE Take(w)
  BY <1>1, NAssumption DEF Take, TypeOK
<1>3. CASE ReadTotal(w) \/ LockFirst(w) \/ FirstInsert(w) \/ ReadEntryPoint(w)
           \/ ReadMaximumLayer(w) \/ AddNode(w) \/ PublishEntryPoint(w)
           \/ PublishMaximumLayer(w) \/ CheckMaximumLayer(w)
  <2>1. UNCHANGED <<jobs, node>>
    BY <1>3 DEF ReadTotal, LockFirst, FirstInsert, ReadEntryPoint, ReadMaximumLayer,
                AddNode, PublishEntryPoint, PublishMaximumLayer, CheckMaximumLayer
  <2>2. \/ pc[w] = "total" /\ pc'[w] \in {"first", "entry"}
        \/ pc[w] = "first" /\ pc'[w] = "table"
        \/ pc[w] = "table" /\ pc'[w] = "idle"
        \/ pc[w] = "entry" /\ pc'[w] = "max"
        \/ pc[w] = "max" /\ pc'[w] = "add"
        \/ pc[w] = "add" /\ pc'[w] = "search"
        \/ pc[w] = "lock" /\ pc'[w] = "publish"
        \/ pc[w] = "publish" /\ pc'[w] = "idle"
        \/ pc[w] = "raise" /\ pc'[w] \in {"lock", "idle"}
    BY <1>3 DEF ReadTotal, LockFirst, FirstInsert, ReadEntryPoint, ReadMaximumLayer,
                AddNode, PublishEntryPoint, PublishMaximumLayer, CheckMaximumLayer,
                TypeOK
  <2> QED
    BY <2>1, <2>2 DEF Inserting, Unborn
<1>4. CASE (\E c \in Ids : Expand(w, c)) \/ Visit(w) \/ Descend(w)
           \/ SelectNeighbors(w) \/ LinkNeighbor(w) \/ LinkSelf(w)
           \/ CountNeighbor(w) \/ Prune(w)
  <2>1. UNCHANGED <<jobs, node>> /\ pc[w] \in Choosing
    BY <1>4 DEF Expand, Visit, Descend, SearchOver, SelectNeighbors, LinkNeighbor,
                LinkSelf, CountNeighbor, Prune, Choosing, Linking
  <2>2. pc'[w] \in Choosing \cup {"panic"}
    <3>1. Advance(w) => pc'[w] \in Choosing
      BY AdvanceCases DEF Choosing, Linking
    <3> QED
      BY <1>4, <3>1
         DEF Expand, Visit, Descend, SearchOver, SelectNeighbors, LinkNeighbor,
             LinkSelf, CountNeighbor, Prune, Choosing, Linking, TypeOK
  <2> QED
    BY <2>1, <2>2 DEF Inserting, Unborn, Choosing, Linking
<1> QED
  BY <1>1, <1>3, <1>4 DEF Insert

(* Nobody is unborn again. *)
LEMMA StepBorn ==
  ASSUME TypeInv, Publication, NEW w \in Workers, Take(w) \/ Insert(w), NEW v \in Ids
  PROVE  /\ Born(v) => Born(v)'
         /\ Nascent(v) => Nascent(v)'
<1> USE DEF TypeInv
<1>1. \A x \in Workers \ {w} : pc'[x] = pc[x] /\ node'[x] = node[x]
  BY StepElsewhere DEF Elsewhere
<1>2. v \in Nat /\ jobs \in Nat
  BY IdsAndLevels, NAssumption DEF TypeOK
<1>3. ASSUME Born(v)
      PROVE  Born(v)'
  <2>1. v < jobs'
    BY <1>2, <1>3, StepJobs DEF Born
  <2>2. pc'[w] \in Unborn => node'[w] # v
    <3>1. v # jobs
      BY <1>2, <1>3 DEF Born
    <3> QED
      BY <1>3, <3>1, StepJobs DEF Born
  <2> QED
    BY <1>1, <1>3, <2>1, <2>2 DEF Born
<1>4. ASSUME NEW x \in Workers, pc[x] = "table", node[x] = v
      PROVE  Nascent(v)'
  <2>1. CASE x # w
    BY <1>1, <1>4, <2>1 DEF Nascent
  <2>2. CASE x = w
    <3>1. UNCHANGED <<jobs, node>> /\ pc'[w] = "idle"
      BY <1>4, <2>2, StepJobs
    <3>2. v < jobs /\ \A y \in Workers \ {w} : pc[y] \in Unborn => node[y] # v
      BY <1>4, <2>2 DEF Publication, Active, Unborn
    <3> QED
      BY <1>1, <3>1, <3>2 DEF Nascent, Born, Unborn
  <2> QED
    BY <2>1, <2>2
<1> QED
  BY <1>3, <1>4 DEF Nascent

(* A vertex whose worker is past making its maps is born. *)
LEMMA AddedBorn ==
  ASSUME Publication, NEW w \in Workers, pc[w] \in Choosing \cup {"lock", "publish"}
  PROVE  Born(node[w])
BY DEF Publication, Active, Born, Unborn, Choosing, Linking

LEMMA ListType ==
  ASSUME TypeOK, NEW v \in Ids, NEW l \in Levels
  PROVE  /\ connections[v][l] \in Seq(Ids)
         /\ Elements(connections[v][l]) \subseteq Ids
<1>1. connections[v][l] \in Seq(Ids)
  BY DEF TypeOK
<1> QED
  BY <1>1, ElementsOf

(* The graph's part of BornOnly, given the lists' own step. *)
LEMMA StepListsBorn ==
  ASSUME TypeInv, Publication, BornOnly, NEW w \in Workers, Take(w) \/ Insert(w),
         NEW v \in Ids, NEW l \in Levels, NEW u \in Elements(connections'[v][l])
  PROVE  Born(u)'
<1> USE DEF TypeInv
<1>1. \A x \in Ids, m \in Levels : /\ connections[x][m] \in Seq(Ids)
                                   /\ Elements(connections[x][m]) \subseteq Ids
  BY ListType
<1>2. \A x \in Ids : Born(x) => Born(x)'
  BY StepBorn
<1>3. CASE u \in Elements(connections[v][l])
  BY <1>1, <1>2, <1>3 DEF BornOnly
<1>4. CASE ForgetsLists(w)
  <2>1. Elements(<<>>) = {}
    BY DEF Elements
  <2> QED
    BY <1>3, <1>4, <2>1 DEF ForgetsLists
<1>5. ASSUME NEW t \in Ids, NEW m \in Levels, NEW x \in Ids, Extends(t, m, x), Born(x)
      PROVE  Born(u)'
  <2>1. CASE v = t /\ l = m
    <3>1. u \in Elements(connections[v][l]) \cup {x}
      BY <1>1, <1>5, <2>1, ElementsOf DEF Extends
    <3> QED
      BY <1>2, <1>3, <1>5, <3>1
  <2>2. CASE ~(v = t /\ l = m)
    BY <1>3, <1>5, <2>2 DEF Extends
  <2> QED
    BY <2>1, <2>2
<1>6. CASE /\ LinkNeighbor(w) \/ LinkSelf(w)
           /\ \/ Extends(Neighbor(w), layer[w], node[w])
              \/ Extends(node[w], layer[w], Neighbor(w))
  <2>1. pc[w] \in Linking
    BY <1>6 DEF LinkNeighbor, LinkSelf, Linking
  <2>2. /\ Neighbor(w) \in Ids /\ layer[w] \in Levels /\ node[w] \in Ids
        /\ Neighbor(w) \in Elements(chosen[w][layer[w]])
    BY <2>1, NeighborType DEF TypeOK
  <2>3. Born(Neighbor(w)) /\ Born(node[w])
    BY <2>1, <2>2, AddedBorn DEF BornOnly, BornTo, Choosing
  <2> QED
    BY <1>5, <1>6, <2>2, <2>3
<1>7. ASSUME NEW s, IsPruned(w, s), Cuts(Neighbor(w), layer[w], s)
      PROVE  Born(u)'
  <2>1. CASE u \in Elements(s)
    <3>1. u \in Ids /\ Born(u)
      BY <1>7, <2>1, ElementsOf DEF IsPruned, BornOnly, BornTo, TypeOK
    <3> QED
      BY <1>2, <3>1
  <2>2. u \in Elements(s) \/ u \in Elements(connections[v][l])
    BY <1>7 DEF Cuts
  <2> QED
    BY <1>3, <2>1, <2>2
<1> QED
  BY <1>3, <1>4, <1>6, <1>7, StepLists

(* What w knows after its step. *)
LEMMA StepBornTo ==
  ASSUME TypeInv, Publication, BornOnly, NEW w \in Workers, Take(w) \/ Insert(w)
  PROVE  BornTo(w)'
<1> USE DEF TypeInv
<1>1. \A v \in Ids : (Born(v) => Born(v)') /\ (Nascent(v) => Nascent(v)')
  BY StepBorn
<1>2. Elements(<<>>) = {}
  BY DEF Elements
<1>3. /\ results[w] \subseteq Ids /\ candidates[w] \subseteq Ids
      /\ todo[w] \in Seq(Ids) /\ snapshot[w] \in Seq(Ids)
      /\ \A l \in Levels : chosen[w][l] \in Seq(Ids)
      /\ node[w] \in Ids /\ layer[w] \in Levels
  BY DEF TypeOK, Trees
<1>4. /\ Elements(todo[w]) \subseteq Ids /\ Elements(snapshot[w]) \subseteq Ids
      /\ \A l \in Levels : Elements(chosen[w][l]) \subseteq Ids
  BY <1>3, ElementsOf
(* Every set w holds afterwards is made of ids that were born. *)
<1>5. ASSUME \A v \in results'[w] :
               v \in Ids /\ (Born(v) \/ (pc'[w] \in {"max", "add"} /\ Nascent(v))),
             \A v \in candidates'[w] : v \in Ids /\ Born(v),
             \A v \in Elements(todo'[w]) : v \in Ids /\ Born(v),
             \A v \in Elements(snapshot'[w]) : v \in Ids /\ Born(v),
             \A l \in Levels : \A v \in Elements(chosen'[w][l]) : v \in Ids /\ Born(v)
      PROVE  BornTo(w)'
  <2>1. \A v \in results'[w] : IF pc'[w] \in {"max", "add"} THEN Nascent(v)' ELSE Born(v)'
    BY <1>1, <1>5 DEF Nascent
  <2>2. /\ \A v \in candidates'[w] : Born(v)'
        /\ \A v \in Elements(todo'[w]) : Born(v)'
        /\ \A v \in Elements(snapshot'[w]) : Born(v)'
        /\ \A l \in Levels : \A v \in Elements(chosen'[w][l]) : Born(v)'
    BY <1>1, <1>5
  <2> QED
    BY <2>1, <2>2 DEF BornTo
<1>6. /\ \A v \in results[w] :
           v \in Ids /\ (Born(v) \/ (pc[w] \in {"max", "add"} /\ Nascent(v)))
      /\ \A v \in candidates[w] : v \in Ids /\ Born(v)
      /\ \A v \in Elements(todo[w]) : v \in Ids /\ Born(v)
      /\ \A v \in Elements(snapshot[w]) : v \in Ids /\ Born(v)
      /\ \A l \in Levels : \A v \in Elements(chosen[w][l]) : v \in Ids /\ Born(v)
  BY <1>3, <1>4 DEF BornOnly, BornTo
<1>7. CASE Take(w)
  <2>1. /\ UNCHANGED <<search, snapshot>> /\ chosen'[w] = Unlinked /\ pc[w] = "idle"
    BY <1>7 DEF Take, TypeOK
  <2> QED
    BY <1>2, <1>5, <1>6, <2>1, UnlinkedType DEF search
<1>8. CASE /\ UNCHANGED <<search, snapshot, chosen>>
           /\ pc[w] \in {"max", "add"} => pc'[w] \in {"max", "add"}
  BY <1>5, <1>6, <1>8 DEF search
<1>9. CASE ReadTotal(w) \/ LockFirst(w) \/ FirstInsert(w) \/ ReadMaximumLayer(w)
           \/ LinkNeighbor(w) \/ LinkSelf(w) \/ PublishEntryPoint(w)
           \/ PublishMaximumLayer(w)
  BY <1>8, <1>9 DEF ReadTotal, LockFirst, FirstInsert, ReadMaximumLayer, LinkNeighbor,
                    LinkSelf, PublishEntryPoint, PublishMaximumLayer, TypeOK
<1>10. CASE ReadEntryPoint(w)
  <2>1. /\ pc[w] = "entry" /\ pc'[w] = "max" /\ results'[w] = {entryPointID}
        /\ UNCHANGED <<candidates, todo, snapshot, chosen>>
    BY <1>10 DEF ReadEntryPoint, TypeOK, Trees
  <2>2. entryPointID \in Ids /\ Nascent(entryPointID)
    BY <2>1 DEF BornOnly, Publication, Beginning, TypeOK
  <2> QED
    BY <1>5, <1>6, <2>1, <2>2
<1>11. CASE AddNode(w)
  <2>1. /\ pc[w] = "add" /\ hlock = {} /\ pc'[w] = "search"
        /\ results'[w] = results[w] /\ candidates'[w] = results[w]
        /\ UNCHANGED <<todo, snapshot, chosen>>
    BY <1>11 DEF AddNode, StartSearch, TypeOK, Trees
  <2>2. \A x \in Workers : pc[x] # "table"
    BY <2>1 DEF Publication
  <2>3. \A v \in results[w] : v \in Ids /\ Born(v)
    BY <1>6, <2>2 DEF Nascent
  <2> QED
    BY <1>5, <1>6, <2>1, <2>3
<1>12. ASSUME NEW c \in Ids, Expand(w, c)
       PROVE  BornTo(w)'
  <2>1. /\ pc[w] = "search" /\ candidates'[w] \subseteq candidates[w]
        /\ todo' = todo \/ todo'[w] = connections[c][layer[w]]
        /\ UNCHANGED <<results, snapshot, chosen>>
    BY <1>12 DEF Expand, TypeOK, Trees
  <2>2. \A v \in Elements(connections[c][layer[w]]) : v \in Ids /\ Born(v)
    BY <1>3, ListType DEF BornOnly
  <2> QED
    BY <1>5, <1>6, <2>1, <2>2
<1>13. CASE Visit(w)
  <2> DEFINE v == Head(todo[w])
  <2>1. /\ v \in Elements(todo[w]) /\ Elements(Tail(todo[w])) \subseteq Elements(todo[w])
    BY <1>3, <1>13, ElementsOf DEF Visit
  <2> HIDE DEF v
  <2>2. /\ todo'[w] = Tail(todo[w]) /\ pc[w] = "search"
        /\ UNCHANGED <<pc, snapshot, chosen>>
    BY <1>13 DEF Visit, TypeOK
  <2>3. /\ candidates'[w] \subseteq candidates[w] \cup {v}
        /\ results'[w] \subseteq results[w] \cup {v}
    <3>1. \/ UNCHANGED <<candidates, results>>
          \/ /\ candidates' = [candidates EXCEPT ![w] = @ \cup {v}]
             /\ \/ results' = [results EXCEPT ![w] = @ \cup {v}]
                \/ \E m : results' = [results EXCEPT ![w] = (@ \cup {v}) \ {m}]
      BY <1>13 DEF Visit, v
    <3> QED
      BY <3>1 DEF TypeOK, Trees
  <2>4. v \in Ids /\ Born(v)
    BY <1>6, <2>1
  <2> QED
    BY <1>5, <1>6, <2>1, <2>2, <2>3, <2>4
<1>14. CASE Descend(w)
  <2>1. PICK best \in results[w] : StartSearch(w, {best})
    BY <1>14 DEF Descend, Minima
  <2>2. /\ results'[w] = {best} /\ candidates'[w] = {best} /\ pc[w] = "search"
        /\ UNCHANGED <<todo, pc, snapshot, chosen>>
    BY <1>14, <2>1 DEF Descend, SearchOver, StartSearch, TypeOK, Trees
  <2>3. best \in Ids /\ Born(best)
    BY <1>6, <2>2
  <2> QED
    BY <1>5, <1>6, <2>2, <2>3
<1>15. CASE SelectNeighbors(w)
  <2>1. PICK s \in Nearest(results[w], DistTo(w), maximumConnections) :
               chosen' = [chosen EXCEPT ![w][layer[w]] = s]
    BY <1>15 DEF SelectNeighbors
  <2>2. Elements(s) \subseteq results[w]
    BY <1>3, <2>1, NearestList, LimitAssumption
  <2>3. /\ candidates'[w] = {} /\ pc[w] = "search" /\ pc'[w] = "link"
        /\ UNCHANGED <<results, todo, snapshot>>
    BY <1>15 DEF SelectNeighbors, SearchOver, TypeOK, Trees
  <2>4. \A l \in Levels : chosen'[w][l] = s \/ chosen'[w][l] = chosen[w][l]
    BY <2>1 DEF TypeOK
  <2>5. \A v \in results[w] : v \in Ids /\ Born(v)
    BY <1>6, <2>3
  <2> QED
    BY <1>5, <1>6, <2>2, <2>3, <2>4, <2>5
<1>16. ASSUME Advance(w), UNCHANGED chosen, pc[w] \in {"count", "prune"}
       PROVE  BornTo(w)'
  <2>1. snapshot'[w] = <<>> /\ todo' = todo
    BY <1>16 DEF Advance, StartSearch, search, TypeOK
  <2>2. results'[w] = results[w]
        /\ (candidates'[w] = candidates[w] \/ candidates'[w] = results[w])
    BY <1>16 DEF Advance, StartSearch, search, TypeOK, Trees
  <2>3. \A v \in results[w] : v \in Ids /\ Born(v)
    BY <1>6, <1>16
  <2> QED
    BY <1>2, <1>5, <1>6, <1>16, <2>1, <2>2, <2>3
<1>17. CASE CountNeighbor(w)
  <2>1. /\ pc[w] = "count" /\ UNCHANGED chosen
        /\ \/ Advance(w)
           \/ /\ snapshot' = [snapshot EXCEPT ![w] = connections[Neighbor(w)][layer[w]]]
              /\ UNCHANGED search
    BY <1>17 DEF CountNeighbor
  <2>2. CASE Advance(w)
    BY <1>16, <2>1, <2>2
  <2>3. CASE /\ snapshot' = [snapshot EXCEPT ![w] = connections[Neighbor(w)][layer[w]]]
             /\ UNCHANGED search
    <3>1. Neighbor(w) \in Ids
      BY <2>1, NeighborType DEF Linking
    <3>2. \A v \in Elements(connections[Neighbor(w)][layer[w]]) : v \in Ids /\ Born(v)
      BY <1>3, <3>1, ListType DEF BornOnly
    <3>3. snapshot'[w] = connections[Neighbor(w)][layer[w]]
      BY <2>3 DEF TypeOK
    <3> QED
      BY <1>5, <1>6, <2>1, <2>3, <3>2, <3>3 DEF search
  <2> QED
    BY <2>1, <2>2, <2>3
<1>18. CASE Prune(w)
  BY <1>16, <1>18 DEF Prune
<1>19. CASE CheckMaximumLayer(w)
  <2>1. /\ results'[w] = {} /\ chosen'[w] = Unlinked
        /\ UNCHANGED <<candidates, todo, snapshot>>
    BY <1>19 DEF CheckMaximumLayer, Forget, TypeOK, Trees
  <2> QED
    BY <1>2, <1>5, <1>6, <2>1, UnlinkedType
<1> QED
  BY <1>7, <1>9, <1>10, <1>11, <1>12, <1>13, <1>14, <1>15, <1>17, <1>18, <1>19 DEF Insert

LEMMA StepBornOnly ==
  ASSUME TypeInv, Publication, BornOnly, NEW w \in Workers, Take(w) \/ Insert(w)
  PROVE  BornOnly'
<1> USE DEF TypeInv
<1>1. \A v \in Ids : (Born(v) => Born(v)') /\ (Nascent(v) => Nascent(v)')
  BY StepBorn
<1>2. nodes' # {} => Nascent(entryPointID)'
  <2>1. entryPointID \in Ids /\ node[w] \in Ids
    BY DEF TypeOK
  <2>2. CASE LockFirst(w)
    <3>1. entryPointID' = node[w] /\ node' = node /\ pc'[w] = "table"
      BY <2>2 DEF LockFirst, TypeOK
    <3> QED
      BY <3>1 DEF Nascent
  <2>3. CASE FirstInsert(w)
    <3>1. /\ pc[w] = "table" /\ entryPointID = node[w]
          /\ UNCHANGED entryPointID
      BY <2>3 DEF FirstInsert, Publication
    <3>2. Nascent(entryPointID)'
      <4>1. Nascent(node[w])
        BY <3>1 DEF Nascent
      <4>2. Nascent(entryPointID)
        BY <3>1, <4>1
      <4>3. PICK e \in Ids : e = entryPointID /\ e = entryPointID'
        BY <2>1, <3>1
      <4>4. Nascent(e)'
        BY <1>1, <4>2, <4>3
      <4> QED
        BY <4>3, <4>4 DEF Nascent, Born
    <3> QED
      BY <3>2
  <2>4. CASE PublishEntryPoint(w)
    <3>1. pc[w] = "lock" /\ entryPointID' = node[w]
      BY <2>4 DEF PublishEntryPoint
    <3>2. Born(node[w])
      BY <3>1, AddedBorn
    <3>3. PICK e \in Ids : e = node[w] /\ e = entryPointID'
      BY <2>1, <3>1
    <3>4. Born(e)'
      BY <1>1, <3>2, <3>3
    <3> QED
      BY <3>3, <3>4 DEF Nascent, Born
  <2>5. CASE UNCHANGED entryPointID /\ (nodes' = {} \/ nodes # {})
    <3>1. PICK e \in Ids : e = entryPointID /\ e = entryPointID'
      BY <2>1, <2>5
    <3>2. nodes' # {} => Nascent(e)'
      BY <1>1, <2>5, <3>1 DEF BornOnly
    <3> QED
      BY <3>1, <3>2 DEF Nascent, Born
  <2>6. CASE ~LockFirst(w) /\ ~FirstInsert(w) /\ ~PublishEntryPoint(w)
    <3>1. CASE AddNode(w)
      BY <2>5, <3>1 DEF AddNode, Publication, Beginning
    <3>2. CASE ~AddNode(w)
      <4>1. UNCHANGED <<entryPointID, nodes>>
        BY <2>6, <3>2 DEF Take, Insert, ReadTotal, ReadEntryPoint, ReadMaximumLayer,
             Expand, Visit, Descend, SelectNeighbors, LinkNeighbor, LinkSelf,
             CountNeighbor, Prune, CheckMaximumLayer, PublishMaximumLayer, graph
      <4> QED
        BY <2>5, <4>1
    <3> QED
      BY <3>1, <3>2
  <2> QED
    BY <2>2, <2>3, <2>4, <2>6
<1>3. \A v \in Ids, l \in Levels : \A u \in Elements(connections'[v][l]) : Born(u)'
  BY StepListsBorn
<1>4. ASSUME NEW x \in Workers
      PROVE  BornTo(x)'
  <2>1. CASE x = w
    BY <2>1, StepBornTo
  <2>2. CASE x # w
    <3>1. /\ pc'[x] = pc[x] /\ results'[x] = results[x]
          /\ candidates'[x] = candidates[x] /\ todo'[x] = todo[x]
          /\ snapshot'[x] = snapshot[x] /\ chosen'[x] = chosen[x]
      BY <2>2, StepElsewhere DEF Elsewhere
    <3>2. /\ results[x] \subseteq Ids /\ candidates[x] \subseteq Ids
          /\ Elements(todo[x]) \subseteq Ids /\ Elements(snapshot[x]) \subseteq Ids
          /\ \A l \in Levels : Elements(chosen[x][l]) \subseteq Ids
      <4>1. /\ todo[x] \in Seq(Ids) /\ snapshot[x] \in Seq(Ids)
            /\ \A l \in Levels : chosen[x][l] \in Seq(Ids)
            /\ results[x] \subseteq Ids /\ candidates[x] \subseteq Ids
        BY DEF TypeOK, Trees
      <4> QED
        BY <4>1, ElementsOf
    <3> QED
      BY <1>1, <3>1, <3>2 DEF BornOnly, BornTo
  <2> QED
    BY <2>1, <2>2
<1> QED
  BY <1>2, <1>3, <1>4 DEF BornOnly

(* A hook is about born vertices, and its vertex is not inserted again. *)
LEMMA StepHooksBorn ==
  ASSUME TypeInv, Publication, BornOnly, HooksBorn, NEW w \in Workers,
         Take(w) \/ Insert(w)
  PROVE  HooksBorn'
<1> USE DEF TypeInv
<1>1. \A v \in Ids : Born(v) => Born(v)'
  BY StepBorn
<1>2. \A x \in Workers \ {w} : pc'[x] = pc[x] /\ node'[x] = node[x]
  BY StepElsewhere DEF Elsewhere
<1>3. jobs \in Nat /\ node[w] \in Nat
  BY IdsAndLevels, NAssumption DEF TypeOK
<1>4. ASSUME NEW h \in hooks
      PROVE  /\ h.node < jobs'
             /\ \A l \in Levels : \A u \in Elements(h.neighbors[l]) : Born(u)'
             /\ \A x \in Workers : Inserting(x)' => node'[x] # h.node
  <2>1. /\ h.node \in Nat
        /\ \A l \in Levels : Elements(h.neighbors[l]) \subseteq Ids
    <3>1. h.node \in Ids /\ h.neighbors \in [Levels -> Seq(Ids)]
      BY DEF TypeOK, Hooks
    <3> QED
      BY <3>1, IdsAndLevels, ElementsOf
  <2>2. h.node < jobs'
    BY <1>3, <2>1, StepJobs DEF HooksBorn
  <2>3. \A l \in Levels : \A u \in Elements(h.neighbors[l]) : Born(u)'
    BY <1>1, <2>1 DEF HooksBorn
  <2>4. \A x \in Workers \ {w} : Inserting(x)' => node'[x] # h.node
    BY <1>2 DEF Inserting, HooksBorn
  <2>5. h.node # jobs
    BY <1>3, <2>1 DEF HooksBorn
  <2>6. Inserting(w)' => node'[w] # h.node
    BY <2>5, StepJobs DEF HooksBorn
  <2> QED
    BY <2>2, <2>3, <2>4, <2>6
<1>5. ASSUME NEW h, h.node = node[w], pc[w] \in {"table", "raise"},
             ~Inserting(w)', UNCHANGED <<jobs, node>>,
             \A l \in Levels : \A u \in Elements(h.neighbors[l]) : u \in Ids /\ Born(u)
      PROVE  /\ h.node < jobs'
             /\ \A l \in Levels : \A u \in Elements(h.neighbors[l]) : Born(u)'
             /\ \A x \in Workers : Inserting(x)' => node'[x] # h.node
  <2>1. /\ node[w] < jobs
        /\ \A x \in Workers \ {w} : Inserting(x) => node[x] # node[w]
    BY <1>5 DEF Publication, Active, Inserting
  <2> QED
    BY <1>1, <1>2, <1>5, <2>1 DEF Inserting
<1>6. CASE hooks' = hooks
  BY <1>4, <1>6 DEF HooksBorn
<1>7. CASE /\ FirstInsert(w)
           /\ hooks' = hooks \cup {[node |-> node[w], target |-> 0,
                                    neighbors |-> Unlinked, live |-> TRUE]}
  <2> DEFINE new == [node |-> node[w], target |-> 0, neighbors |-> Unlinked,
                     live |-> TRUE]
  <2>1. \A l \in Levels : Elements(new.neighbors[l]) = {}
    BY UnlinkedType DEF Elements
  <2>2. /\ hooks' = hooks \cup {new} /\ new.node = node[w]
        /\ pc[w] = "table" /\ pc'[w] = "idle" /\ UNCHANGED <<jobs, node>>
    BY <1>7 DEF FirstInsert, TypeOK
  <2> HIDE DEF new
  <2>3. /\ new.node < jobs'
        /\ \A l \in Levels : \A u \in Elements(new.neighbors[l]) : Born(u)'
        /\ \A x \in Workers : Inserting(x)' => node'[x] # new.node
    BY <1>5, <2>1, <2>2 DEF Inserting
  <2> QED
    BY <1>4, <2>2, <2>3 DEF HooksBorn
<1>8. CASE /\ CheckMaximumLayer(w)
           /\ hooks' = hooks \cup {[node |-> node[w], target |-> levelOf[node[w]],
                                    neighbors |-> chosen[w], live |-> FALSE]}
  <2> DEFINE new == [node |-> node[w], target |-> levelOf[node[w]],
                     neighbors |-> chosen[w], live |-> FALSE]
  <2>1. \A l \in Levels : Elements(chosen[w][l]) \subseteq Ids
    BY ElementsOf DEF TypeOK
  <2>2. \A l \in Levels : \A u \in Elements(chosen[w][l]) : u \in Ids /\ Born(u)
    BY <2>1 DEF BornOnly, BornTo
  <2>3. /\ hooks' = hooks \cup {new} /\ new.node = node[w] /\ new.neighbors = chosen[w]
        /\ pc[w] = "raise" /\ pc'[w] \in {"lock", "idle"} /\ UNCHANGED <<jobs, node>>
    BY <1>8 DEF CheckMaximumLayer, TypeOK
  <2> HIDE DEF new
  <2>4. /\ new.node < jobs'
        /\ \A l \in Levels : \A u \in Elements(new.neighbors[l]) : Born(u)'
        /\ \A x \in Workers : Inserting(x)' => node'[x] # new.node
    BY <1>5, <2>2, <2>3 DEF Inserting
  <2> QED
    BY <1>4, <2>3, <2>4 DEF HooksBorn
<1> QED
  BY <1>6, <1>7, <1>8, StepHooks

LEMMA StutterBorn ==
  UNCHANGED vars => (BornOnly => BornOnly') /\ (HooksBorn => HooksBorn')
BY DEF vars, graph, search, BornOnly, BornTo, HooksBorn, Inserting, Born, Nascent

BornInv == BornOnly /\ HooksBorn

(* Only vertices past the steps that make their maps are read from the graph *)
(* by other workers, even when two of them made the table.                   *)
THEOREM BornInvariance == Spec => []BornInv
<1>1. TypeInv /\ Publication /\ BornInv /\ [Next]_vars => BornInv'
  BY StepBornOnly, StepHooksBorn, StutterBorn DEF Next, Step, Over, BornInv
<1>2. Init => BornInv
  BY InitBorn DEF BornInv
<1> QED
  BY <1>1, <1>2, TypeInvariance, PublicationInvariance, PTL DEF Spec

(* A vertex that is not born has no links, so that making its maps anew, as  *)
(* an insertion does, loses none.                                            *)
UnbornUnlinked == \A v \in Ids : Born(v) \/ \A l \in Levels : connections[v][l] = <<>>

LEMMA ForgetsNothing ==
  ASSUME UnbornUnlinked, NEW w \in Workers, ForgetsLists(w), NEW v \in Ids, NEW l \in Levels
  PROVE  connections'[v][l] = connections[v][l]
BY DEF UnbornUnlinked, ForgetsLists, Born, Unborn

LEMMA NeighborBorn ==
  ASSUME TypeInv, BornInv, NEW w \in Workers, pc[w] \in Linking
  PROVE  Neighbor(w) \in Ids /\ layer[w] \in Levels /\ Born(Neighbor(w))
<1>1. /\ Neighbor(w) \in Ids /\ layer[w] \in Levels
      /\ Neighbor(w) \in Elements(chosen[w][layer[w]])
  BY NeighborType DEF TypeInv, TypeOK
<1> QED
  BY <1>1 DEF BornInv, BornOnly, BornTo

LEMMA StepUnbornUnlinked ==
  ASSUME TypeInv, Publication, BornInv, UnbornUnlinked,
         NEW w \in Workers, Take(w) \/ Insert(w)
  PROVE  UnbornUnlinked'
<1> SUFFICES ASSUME NEW v \in Ids, ~Born(v)', NEW l \in Levels
             PROVE  connections'[v][l] = <<>>
  BY DEF UnbornUnlinked
<1>1. ~Born(v) /\ connections[v][l] = <<>>
  BY StepBorn DEF UnbornUnlinked
<1>2. pc[w] \in {"link", "linkSelf", "prune"} => v # Neighbor(w) /\ v # node[w]
  BY <1>1, NeighborBorn, AddedBorn DEF Choosing, Linking
<1>3. /\ LinkNeighbor(w) => pc[w] = "link"
      /\ LinkSelf(w) => pc[w] = "linkSelf"
      /\ Prune(w) => pc[w] = "prune"
  BY DEF LinkNeighbor, LinkSelf, Prune
<1> QED
  BY <1>1, <1>2, <1>3, StepLists, ForgetsNothing DEF Extends, Cuts

(* Nobody has linked a vertex before its worker has made its maps.           *)
THEOREM UnbornInvariance == Spec => []UnbornUnlinked
<1>1. Init => UnbornUnlinked
  BY UnlinkedType DEF Init, UnbornUnlinked
<1>2. TypeInv /\ Publication /\ BornInv /\ UnbornUnlinked /\ [Next]_vars => UnbornUnlinked'
  <2>1. UNCHANGED vars => (UnbornUnlinked => UnbornUnlinked')
    BY DEF vars, graph, UnbornUnlinked, Born
  <2> QED
    BY <2>1, StepUnbornUnlinked DEF Next, Step, Over
<1> QED
  BY <1>1, <1>2, TypeInvariance, PublicationInvariance, BornInvariance, PTL DEF Spec
-------------------------------------------------------------------------------
(* Nobody loses the last link on a level.  A list that was filled by a       *)
(* choice is only ever cut down, to the nearest of a copy that was too long, *)
(* and so never to nothing.                                                  *)
KeptLinks ==
  /\ \A v, u \in Ids, l \in Levels :
       Linked(v, u, l) => connections[v][l] # <<>> /\ connections[u][l] # <<>>
  /\ \A w \in Workers : pc[w] \in {"linkSelf", "count", "prune"} =>
       connections[Neighbor(w)][layer[w]] # <<>>
  /\ \A w \in Workers : pc[w] = "prune" => snapshot[w] # <<>>

LEMMA LinkedBorn ==
  ASSUME TypeInv, Publication, BornInv, NEW v \in Ids, NEW u \in Ids, NEW l \in Levels,
         Linked(v, u, l)
  PROVE  Born(v) /\ Born(u)
<1>1. ASSUME NEW h \in hooks, h.node = v, u \in Elements(h.neighbors[l])
      PROVE  Born(v) /\ Born(u)
  BY <1>1 DEF BornInv, HooksBorn, Inserting, Born, Unborn
<1>2. ASSUME NEW w \in Workers, node[w] = v, Settled(w, u, l)
      PROVE  Born(v) /\ Born(u)
  BY <1>2, AddedBorn DEF Settled, Chosen, BornInv, BornOnly, BornTo
<1> QED
  BY <1>1, <1>2 DEF Linked

LEMMA AppendFills ==
  ASSUME NEW s \in Seq(Ids), NEW x \in Ids
  PROVE  Append(s, x) # <<>>
<1>1. Len(Append(s, x)) = Len(s) + 1 /\ Len(s) \in Nat
  OBVIOUS
<1>2. Len(Append(s, x)) # 0
  BY <1>1
<1>3. Len(<<>>) = 0
  OBVIOUS
<1> QED
  BY <1>2, <1>3, Zenon

LEMMA StepFilled ==
  ASSUME TypeInv, KeptLinks, NEW w \in Workers, Take(w) \/ Insert(w),
         NEW v \in Ids, NEW l \in Levels, Born(v), connections[v][l] # <<>>
  PROVE  connections'[v][l] # <<>>
<1> USE DEF TypeInv
<1>1. CASE ForgetsLists(w)
  <2>1. v # node[w]
    BY <1>1 DEF ForgetsLists, Born, Unborn
  <2> QED
    BY <1>1, <2>1 DEF ForgetsLists
<1>2. ASSUME NEW t \in Ids, NEW m \in Levels, NEW x \in Ids, Extends(t, m, x)
      PROVE  connections'[v][l] # <<>>
  <2>1. Append(connections[v][l], x) # <<>>
    BY ListType, AppendFills
  <2> QED
    BY <1>2, <2>1 DEF Extends
<1>3. CASE /\ LinkNeighbor(w) \/ LinkSelf(w)
           /\ \/ Extends(Neighbor(w), layer[w], node[w])
              \/ Extends(node[w], layer[w], Neighbor(w))
  <2>1. pc[w] \in Linking
    BY <1>3 DEF LinkNeighbor, LinkSelf, Linking
  <2>2. Neighbor(w) \in Ids /\ layer[w] \in Levels /\ node[w] \in Ids
    BY <2>1, NeighborType DEF TypeOK
  <2> QED
    BY <1>2, <1>3, <2>2
<1>4. ASSUME Prune(w), NEW s, IsPruned(w, s), Cuts(Neighbor(w), layer[w], s)
      PROVE  connections'[v][l] # <<>>
  <2>1. s # <<>>
    BY <1>4 DEF Prune, IsPruned, KeptLinks
  <2> QED
    BY <1>4, <2>1 DEF Cuts
<1> QED
  BY <1>1, <1>3, <1>4, StepLists

(* A link just made fills both lists. *)
LEMMA ExtendedFilled ==
  ASSUME TypeOK, NEW t \in Ids, NEW m \in Levels, NEW x \in Ids, Extends(t, m, x)
  PROVE  connections'[t][m] # <<>>
<1>1. Append(connections[t][m], x) # <<>>
  BY ListType, AppendFills
<1> QED
  BY <1>1 DEF Extends

LEMMA StepToLinkSelf ==
  ASSUME TypeInv, NEW w \in Workers, Take(w) \/ Insert(w),
         pc'[w] \in {"linkSelf", "count", "prune"}
  PROVE  /\ LinkNeighbor(w) \/ pc[w] \in {"linkSelf", "count", "prune"}
         /\ pc[w] \in Linking
         /\ UNCHANGED <<chosen, layer, idx, jobs, node>>
         /\ Neighbor(w)' = Neighbor(w)
<1> USE DEF TypeInv
<1>1. Advance(w) => pc'[w] \in {"link", "search", "raise"}
  BY AdvanceCases
<1>2. LinkNeighbor(w) \/ LinkSelf(w) \/ CountNeighbor(w)
  <2>1. ~Prune(w)
    BY <1>1 DEF Prune
  <2>2. ~Take(w)
    BY DEF Take, TypeOK
  <2>3. \A c \in Ids : ~Expand(w, c)
    BY DEF Expand, TypeOK
  <2>4. ~Visit(w) /\ ~Descend(w)
    BY DEF Visit, Descend, SearchOver
  <2>5. ~(ReadTotal(w) \/ LockFirst(w) \/ FirstInsert(w) \/ ReadEntryPoint(w)
          \/ ReadMaximumLayer(w) \/ AddNode(w) \/ SelectNeighbors(w)
          \/ CheckMaximumLayer(w) \/ PublishEntryPoint(w) \/ PublishMaximumLayer(w))
    <3>1. \A p \in PcValues \ {"linkSelf", "count", "prune"} : pc' # [pc EXCEPT ![w] = p]
      BY DEF TypeOK
    <3> QED
      BY <3>1 DEF PcValues, ReadTotal, LockFirst, FirstInsert, ReadEntryPoint,
                  ReadMaximumLayer, AddNode, SelectNeighbors,
                  CheckMaximumLayer, PublishEntryPoint, PublishMaximumLayer
  <2> QED
    BY <2>1, <2>2, <2>3, <2>4, <2>5 DEF Insert
<1>3. /\ LinkNeighbor(w) \/ pc[w] \in {"linkSelf", "count"}
      /\ pc[w] \in {"link", "linkSelf", "count"}
      /\ UNCHANGED <<chosen, layer, idx, jobs, node>>
  BY <1>1, <1>2 DEF LinkNeighbor, LinkSelf, CountNeighbor
<1>4. Neighbor(w)' = Neighbor(w)
  BY <1>3 DEF Neighbor
<1> QED
  BY <1>3, <1>4 DEF Linking

LEMMA StepKeptLinks ==
  ASSUME TypeInv, Publication, ChoicesInv, BornInv, KeptLinks,
         NEW w \in Workers, Take(w) \/ Insert(w), Running'
  PROVE  KeptLinks'
<1> USE DEF TypeInv
<1>1. ASSUME NEW x \in Workers, pc[x] \in {"linkSelf", "count", "prune"}
      PROVE  connections'[Neighbor(x)][layer[x]] # <<>>
  <2>1. /\ Neighbor(x) \in Ids /\ layer[x] \in Levels
        /\ Neighbor(x) \in Elements(chosen[x][layer[x]])
    BY <1>1, NeighborType DEF Linking, TypeOK
  <2>2. Born(Neighbor(x)) /\ connections[Neighbor(x)][layer[x]] # <<>>
    BY <1>1, <2>1 DEF BornInv, BornOnly, BornTo, KeptLinks
  <2> QED
    BY <2>1, <2>2, StepFilled
<1>2. ASSUME NEW v \in Ids, NEW u \in Ids, NEW l \in Levels, Linked(v, u, l)'
      PROVE  connections'[v][l] # <<>> /\ connections'[u][l] # <<>>
  <2>1. CASE Linked(v, u, l)
    BY <2>1, LinkedBorn, StepFilled DEF KeptLinks
  <2>2. CASE LinkSelf(w) /\ v = node[w] /\ u = Neighbor(w) /\ l = layer[w]
    <3>1. pc[w] = "linkSelf"
      BY <2>2 DEF LinkSelf
    <3>2. connections'[u][l] # <<>>
      BY <1>1, <2>2, <3>1
    <3>3. connections' = [connections EXCEPT ![v][l] = Append(@, u)]
      BY <2>2 DEF LinkSelf
    <3>4. Extends(v, l, u)
      BY <3>3, AppendLink DEF Extends
    <3> QED
      BY <3>2, <3>4, ExtendedFilled
  <2> QED
    BY <1>2, <2>1, <2>2, StepLinked
<1>3. ASSUME NEW x \in Workers, pc'[x] \in {"linkSelf", "count", "prune"}
      PROVE  connections'[Neighbor(x)'][layer'[x]] # <<>>
  <2>1. CASE x # w
    <3>1. pc'[x] = pc[x] /\ layer'[x] = layer[x] /\ Neighbor(x)' = Neighbor(x)
      BY <2>1, StepElsewhere DEF Elsewhere, Neighbor
    <3> QED
      BY <1>1, <1>3, <3>1
  <2>2. CASE x = w
    <3>1. /\ LinkNeighbor(w) \/ pc[w] \in {"linkSelf", "count", "prune"}
          /\ pc[w] \in Linking /\ layer'[w] = layer[w]
          /\ Neighbor(w)' = Neighbor(w)
      BY <1>3, <2>2, StepToLinkSelf
    <3>2. CASE pc[w] \in {"linkSelf", "count", "prune"}
      BY <1>1, <2>2, <3>1, <3>2
    <3>3. CASE LinkNeighbor(w)
      <4>1. Neighbor(w) \in Ids /\ layer[w] \in Levels /\ node[w] \in Ids
        BY <3>1, NeighborType DEF TypeOK
      <4>2. connections' =
              [connections EXCEPT ![Neighbor(w)][layer[w]] = Append(@, node[w])]
        BY <3>3 DEF LinkNeighbor, Running, TypeOK
      <4>3. Extends(Neighbor(w), layer[w], node[w])
        BY <4>1, <4>2, AppendLink DEF Extends
      <4> QED
        BY <2>2, <3>1, <4>1, <4>3, ExtendedFilled
    <3> QED
      BY <3>1, <3>2, <3>3
  <2> QED
    BY <2>1, <2>2
<1>4. ASSUME NEW x \in Workers, pc'[x] = "prune"
      PROVE  snapshot'[x] # <<>>
  <2>1. CASE x # w
    <3>1. pc'[x] = pc[x] /\ snapshot'[x] = snapshot[x]
      BY <2>1, StepElsewhere DEF Elsewhere
    <3> QED
      BY <1>4, <3>1 DEF KeptLinks
  <2>2. CASE x = w
    <3>1. Len(snapshot'[w]) > Limit(layer[w]) /\ Limit(layer[w]) \in Nat
      BY <1>4, <2>2, StepToPrune, LimitType DEF TypeOK
    <3>2. Len(<<>>) = 0
      OBVIOUS
    <3>3. Len(snapshot'[w]) # 0
      <4> HIDE DEF TypeInv
      <4> QED
        BY <3>1
    <3> QED
      BY <2>2, <3>2, <3>3, Zenon
  <2> QED
    BY <2>1, <2>2
<1> QED
  BY <1>2, <1>3, <1>4 DEF KeptLinks

(* Pruning from stale copies never leaves a vertex that was inserted, or one *)
(* that it chose, without any link on that level.                            *)
THEOREM NobodyIsIsolated == Spec => []NeverIsolated
<1> DEFINE Inv == (Running => KeptLinks) /\ NeverIsolated
<1>1. Init => Inv
  <2>1. Elements(<<>>) = {}
    BY DEF Elements
  <2> QED
    BY <2>1, UnlinkedType
       DEF Init, KeptLinks, NeverIsolated, Linked, Settled, Chosen, Choosing, Linking
<1>2. TypeInv /\ KeptLinks => NeverIsolated
  <2> SUFFICES ASSUME TypeInv, KeptLinks, NEW h \in hooks, NEW l \in Levels,
                      NEW u \in Elements(h.neighbors[l])
               PROVE  connections[h.node][l] # <<>> /\ connections[u][l] # <<>>
    BY DEF NeverIsolated
  <2>1. h.node \in Ids /\ h.neighbors[l] \in Seq(Ids)
    BY DEF TypeInv, TypeOK, Hooks
  <2>2. u \in Ids
    BY <2>1, ElementsOf
  <2>3. Linked(h.node, u, l)
    BY DEF Linked
  <2> QED
    BY <2>1, <2>2, <2>3 DEF KeptLinks
<1>3. TypeInv /\ TypeInv' /\ Publication /\ ChoicesInv /\ BornInv /\ Inv /\ [Next]_vars
        => Inv'
  <2> SUFFICES ASSUME TypeInv, TypeInv', Publication, ChoicesInv, BornInv, Inv,
                      [Next]_vars
               PROVE  Inv'
    OBVIOUS
  <2>1. CASE UNCHANGED vars
    BY <2>1 DEF vars, graph, search, KeptLinks, NeverIsolated, Linked, Settled, Chosen,
                Pending, Neighbor, Running
  <2>2. ASSUME NEW w \in Workers, Step(w)
        PROVE  Inv'
    <3>1. CASE Running'
      <4>1. KeptLinks'
        BY <2>2, <3>1, StepKeptLinks DEF Step
      <4>2. NeverIsolated'
        BY <1>2, <4>1, PTL
      <4> QED
        BY <4>1, <4>2
    <3>2. CASE ~Running'
      <4>1. hooks' = hooks /\ connections' = connections
        <5>1. \E x \in Workers : pc'[x] = "panic" /\ pc[x] # "panic"
          BY <2>2, <3>2 DEF Step, Running
        <5>2. pc'[w] = "panic" /\ pc[w] # "panic"
          BY <2>2, <5>1, StepElsewhere DEF Step, Elsewhere
        <5>3. pc' # pc /\ \A p \in PcValues \ {"panic"} : pc' # [pc EXCEPT ![w] = p]
          BY <5>2 DEF TypeInv, TypeOK
        <5>4. LinkNeighbor(w) \/ \E c \in Ids : Expand(w, c)
          BY <2>2, <5>3 DEF Step, Insert, Take, ReadTotal, LockFirst, FirstInsert,
               ReadEntryPoint, ReadMaximumLayer, AddNode, Visit, Descend,
               SelectNeighbors, LinkSelf, CountNeighbor, Prune, Advance,
               CheckMaximumLayer, PublishEntryPoint, PublishMaximumLayer, PcValues
        <5>5. pc' # [pc EXCEPT ![w] = "linkSelf"]
          BY <5>3 DEF PcValues
        <5> QED
          BY <5>4, <5>5 DEF LinkNeighbor, Expand, graph
      <4> QED
        BY <3>2, <4>1 DEF NeverIsolated
    <3> QED
      BY <3>1, <3>2
  <2> QED
    BY <2>1, <2>2 DEF Next, Over
<1>4. Inv => NeverIsolated
  OBVIOUS
<1> QED
  BY <1>1, <1>3, <1>4, TypeInvariance, PublicationInvariance, ChoicesInvariance,
     BornInvariance, PTL DEF Spec
-------------------------------------------------------------------------------
(* How long a list can get.  What exceeds the limit are links the vertex has *)
(* made itself, and links of workers that have yet to check.                 *)
OwnLinks(v, l) == {u \in Ids : Linked(v, u, l)}

Degrees ==
  \A v \in Ids, l \in Levels :
    Len(connections[v][l]) <=
      Limit(l) + Cardinality(OwnLinks(v, l)) + Cardinality(Pruners(v, l))

LEMMA PrunersFinite ==
  ASSUME NEW v, NEW l
  PROVE  /\ IsFiniteSet(Pruners(v, l)) /\ Cardinality(Pruners(v, l)) \in Nat
         /\ IsFiniteSet(Pruners(v, l))' /\ Cardinality(Pruners(v, l))' \in Nat
<1>1. Pruners(v, l) \subseteq Workers /\ Pruners(v, l)' \subseteq Workers
  BY DEF Pruners
<1> QED
  BY <1>1, WorkersAssumption, FS_Subset, FS_CardinalityType

LEMMA OwnLinksFinite ==
  ASSUME NEW v, NEW l
  PROVE  /\ IsFiniteSet(OwnLinks(v, l)) /\ Cardinality(OwnLinks(v, l)) \in Nat
         /\ IsFiniteSet(OwnLinks(v, l))' /\ Cardinality(OwnLinks(v, l))' \in Nat
<1>1. OwnLinks(v, l) \subseteq Ids /\ OwnLinks(v, l)' \subseteq Ids
  BY DEF OwnLinks
<1> QED
  BY <1>1, IdsFinite

LEMMA OnlyGrows ==
  ASSUME NEW S, NEW T, IsFiniteSet(S), IsFiniteSet(T), S \subseteq T
  PROVE  /\ Cardinality(S) <= Cardinality(T)
         /\ S # T => Cardinality(S) + 1 <= Cardinality(T)
<1>1. Cardinality(S) \in Nat /\ Cardinality(T) \in Nat
  BY FS_CardinalityType
<1>2. Cardinality(S) <= Cardinality(T) /\ (Cardinality(T) = Cardinality(S) => S = T)
  BY FS_Subset
<1> QED
  BY <1>1, <1>2

(* A neighbor is linked once. *)
LEMMA LinkIsNew ==
  ASSUME TypeInv, Publication, ChoicesInv, BornInv, NEW w \in Workers,
         pc[w] = "linkSelf"
  PROVE  ~Linked(node[w], Neighbor(w), layer[w])
<1> USE DEF TypeInv
<1>1. \A h \in hooks : h.node # node[w]
  BY DEF BornInv, HooksBorn, Inserting
<1>2. ASSUME NEW x \in Workers, node[x] = node[w], Settled(x, Neighbor(w), layer[w])
      PROVE  FALSE
  <2>1. x = w
    BY <1>2 DEF Publication, Active, Settled, Chosen, Choosing, Linking
  <2>2. idx[w] \in 1 .. Len(chosen[w][layer[w]])
    BY DEF Positions, Position, Linking
  <2>3. idx[w] \in Nat /\ idx[w] >= idx[w]
    BY DEF TypeOK
  <2>4. Pending(w, Neighbor(w), layer[w])
    BY <2>2, <2>3 DEF Pending, Neighbor
  <2> QED
    BY <1>2, <2>1, <2>4 DEF Settled
<1> QED
  BY <1>1, <1>2 DEF Linked

(* A worker that has checked found the list within the limit, or cut it. *)
LEMMA StepChecked ==
  ASSUME TypeInv, NEW w \in Workers, Take(w) \/ Insert(w), Running',
         pc[w] \in {"linkSelf", "count", "prune"},
         ~(/\ pc'[w] \in {"linkSelf", "count", "prune"}
           /\ layer'[w] = layer[w] /\ Neighbor(w)' = Neighbor(w))
  PROVE  Len(connections'[Neighbor(w)][layer[w]]) <= Limit(layer[w])
<1> USE DEF TypeInv
<1>1. pc'[w] \notin {"linkSelf", "count", "prune"}
  BY StepToLinkSelf
<1>2. CASE CountNeighbor(w)
  <2> DEFINE current == connections[Neighbor(w)][layer[w]]
  <2>1. Len(current) <= Limit(layer[w]) /\ UNCHANGED graph
    <3>1. CASE pc' = [pc EXCEPT ![w] = "prune"]
      BY <1>1, <3>1 DEF TypeOK
    <3> QED
      BY <1>2, <3>1 DEF CountNeighbor
  <2>2. UNCHANGED connections
    BY <2>1 DEF graph
  <2> QED
    BY <2>1, <2>2
<1>3. CASE Prune(w)
  <2>1. PICK s : IsPruned(w, s) /\ Cuts(Neighbor(w), layer[w], s)
    <3>1. pc[w] = "prune"
      BY <1>3 DEF Prune
    <3> QED
      BY <1>3, <3>1, StepLists DEF ForgetsLists, LinkNeighbor, LinkSelf
  <2>2. Neighbor(w) \in Ids /\ layer[w] \in Levels
    BY NeighborType DEF Linking, TypeOK
  <2> QED
    BY <2>1, <2>2 DEF IsPruned, Cuts
<1>4. ~LinkSelf(w)
  BY <1>1 DEF LinkSelf, TypeOK
<1> QED
  BY <1>2, <1>3, <1>4
     DEF Insert, Take, ReadTotal, LockFirst, FirstInsert, ReadEntryPoint,
         ReadMaximumLayer, AddNode, Expand, Visit, Descend, SearchOver,
         SelectNeighbors, LinkNeighbor, CheckMaximumLayer, PublishEntryPoint,
         PublishMaximumLayer

LEMMA StepDegrees ==
  ASSUME TypeInv, TypeInv', Publication, ChoicesInv, BornInv, Degrees,
         NEW w \in Workers, Take(w) \/ Insert(w), Running'
  PROVE  Degrees'
<1> USE DEF TypeInv
<1> SUFFICES ASSUME NEW v \in Ids, NEW l \in Levels
             PROVE  Len(connections'[v][l]) <=
                      Limit(l) + Cardinality(OwnLinks(v, l)')
                               + Cardinality(Pruners(v, l)')
  BY DEF Degrees
<1> DEFINE before == Len(connections[v][l])
           after  == Len(connections'[v][l])
           own    == Cardinality(OwnLinks(v, l))
           own2   == Cardinality(OwnLinks(v, l)')
           busy   == Cardinality(Pruners(v, l))
           busy2  == Cardinality(Pruners(v, l)')
           max    == Limit(l)
<1>1. /\ before \in Nat /\ after \in Nat /\ max \in Nat
      /\ own \in Nat /\ own2 \in Nat /\ busy \in Nat /\ busy2 \in Nat
  <2>1. connections[v][l] \in Seq(Ids) /\ connections'[v][l] \in Seq(Ids)
    BY DEF TypeOK
  <2> QED
    BY <2>1, LimitType, OwnLinksFinite, PrunersFinite
<1>2. before <= max + own + busy
  BY DEF Degrees
<1>3. OwnLinks(v, l) \subseteq OwnLinks(v, l)' /\ own <= own2
  <2>1. OwnLinks(v, l) \subseteq OwnLinks(v, l)'
    BY StepLinked DEF OwnLinks
  <2> QED
    BY <2>1, OwnLinksFinite, OnlyGrows
<1> DEFINE waiting  == w \in Pruners(v, l)
           waiting2 == w \in Pruners(v, l)'
<1>4. Pruners(v, l) \ {w} = Pruners(v, l)' \ {w}
  BY StepElsewhere DEF Elsewhere, Pruners, Neighbor
<1>5. (waiting => waiting2) => busy <= busy2
  <2>1. (waiting => waiting2) => Pruners(v, l) \subseteq Pruners(v, l)'
    BY <1>4
  <2> QED
    BY <2>1, PrunersFinite, OnlyGrows
<1>6. ~waiting /\ waiting2 => busy + 1 <= busy2
  <2>1. ~waiting /\ waiting2 =>
          Pruners(v, l) \subseteq Pruners(v, l)' /\ Pruners(v, l) # Pruners(v, l)'
    BY <1>4
  <2> QED
    BY <2>1, PrunersFinite, OnlyGrows
<1>7. waiting /\ ~waiting2 => after <= max
  <2>1. waiting <=> /\ pc[w] \in {"linkSelf", "count", "prune"}
                    /\ layer[w] = l /\ Neighbor(w) = v
    BY DEF Pruners
  <2>2. waiting2 <=> /\ pc'[w] \in {"linkSelf", "count", "prune"}
                     /\ layer'[w] = l /\ Neighbor(w)' = v
    BY DEF Pruners, Neighbor
  <2> QED
    BY <2>1, <2>2, StepChecked
<1> HIDE DEF before, after, own, own2, busy, busy2, max, waiting, waiting2
<1>8. ASSUME after <= before \/ after <= max
      PROVE  after <= max + own2 + busy2
  <2> HIDE DEF TypeInv
  <2>1. CASE after <= max
    BY <1>1, <2>1
  <2>2. CASE after <= before /\ busy <= busy2
    BY <1>1, <1>2, <1>3, <2>2
  <2>3. waiting => waiting2 \/ after <= max
    BY <1>7
  <2> QED
    BY <1>5, <1>8, <2>1, <2>2, <2>3
<1>9. CASE UNCHANGED connections
  <2>1. after = before
    BY <1>9 DEF after, before
  <2> QED
    BY <1>1, <1>8, <2>1 DEF after, own2, busy2, max
<1>10. CASE ForgetsLists(w)
  <2>1. connections'[v][l] = <<>> \/ connections'[v][l] = connections[v][l]
    BY <1>10 DEF ForgetsLists
  <2>2. after = 0 \/ after = before
    BY <2>1 DEF after, before
  <2> QED
    BY <1>1, <1>8, <2>2 DEF after, own2, busy2, max
<1>11. CASE LinkNeighbor(w) /\ pc'[w] = "linkSelf"
            /\ Extends(Neighbor(w), layer[w], node[w])
  <2>1. CASE v = Neighbor(w) /\ l = layer[w]
    <3>1. after = before + 1
      <4>1. connections'[v][l] = Append(connections[v][l], node[w])
        BY <1>11, <2>1 DEF Extends
      <4>2. connections[v][l] \in Seq(Ids) /\ node[w] \in Ids
        BY DEF TypeOK
      <4> QED
        BY <4>1, <4>2 DEF after, before
    <3>2. ~waiting /\ waiting2
      <4>1. pc[w] = "link" /\ UNCHANGED <<layer, chosen, idx>>
        BY <1>11 DEF LinkNeighbor
      <4> QED
        BY <1>11, <2>1, <4>1 DEF waiting, waiting2, Pruners, Neighbor
    <3>3. after <= max + own2 + busy2
      <4> HIDE DEF TypeInv
      <4> QED
        BY <1>1, <1>2, <1>3, <1>6, <3>1, <3>2
    <3> QED
      BY <3>3 DEF after, own2, busy2, max
  <2>2. CASE ~(v = Neighbor(w) /\ l = layer[w])
    <3>1. after = before
      BY <1>11, <2>2 DEF Extends, after, before
    <3> QED
      BY <1>1, <1>8, <3>1 DEF after, own2, busy2, max
  <2> QED
    BY <2>1, <2>2
<1>12. CASE LinkSelf(w) /\ Extends(node[w], layer[w], Neighbor(w))
  <2>0. pc[w] = "linkSelf" /\ pc'[w] = "count" /\ UNCHANGED <<layer, chosen, idx>>
    BY <1>12 DEF LinkSelf, TypeOK
  <2>1. CASE v = node[w] /\ l = layer[w]
    <3>0. Neighbor(w) \in Ids
      BY <2>0, NeighborType DEF Linking
    <3>1. after = before + 1
      <4>1. connections'[v][l] = Append(connections[v][l], Neighbor(w))
        BY <1>12, <2>1 DEF Extends
      <4>2. connections[v][l] \in Seq(Ids)
        BY DEF TypeOK
      <4> QED
        BY <3>0, <4>1, <4>2 DEF after, before
    <3>2. busy <= busy2
      <4>1. waiting => waiting2
        BY <2>0 DEF waiting, waiting2, Pruners, Neighbor
      <4> QED
        BY <1>5, <4>1
    <3>3. own + 1 <= own2
      <4>1. Neighbor(w) \notin OwnLinks(v, l)
        BY <2>0, <2>1, LinkIsNew DEF OwnLinks
      <4>2. PICK n \in Ids : n = Neighbor(w)
        BY <3>0
      <4>3. Linked(v, n, l)'
        BY <1>12, <2>1, <4>2, StepLinked
      <4>4. n \in OwnLinks(v, l)'
        BY <4>3 DEF OwnLinks
      <4> QED
        BY <1>3, <4>1, <4>2, <4>4, OwnLinksFinite, OnlyGrows DEF own, own2
    <3>4. after <= max + own2 + busy2
      <4> HIDE DEF TypeInv
      <4> QED
        BY <1>1, <1>2, <3>1, <3>2, <3>3
    <3> QED
      BY <3>4 DEF after, own2, busy2, max
  <2>2. CASE ~(v = node[w] /\ l = layer[w])
    <3>1. after = before
      BY <1>12, <2>2 DEF Extends, after, before
    <3> QED
      BY <1>1, <1>8, <3>1 DEF after, own2, busy2, max
  <2> QED
    BY <2>1, <2>2
<1>13. ASSUME NEW s, IsPruned(w, s), Cuts(Neighbor(w), layer[w], s)
       PROVE  Len(connections'[v][l]) <= Limit(l) + Cardinality(OwnLinks(v, l)')
                                                  + Cardinality(Pruners(v, l)')
  <2>1. after <= max \/ after = before
    BY <1>13 DEF Cuts, IsPruned, after, before, max
  <2> QED
    BY <1>1, <1>8, <2>1 DEF after, own2, busy2, max
<1> QED
  BY <1>9, <1>10, <1>11, <1>12, <1>13, StepLists

(* Pruning works on stale copies and never looks at the links a vertex makes *)
(* itself; still a list exceeds its limit by at most those own links and one *)
(* for each worker about to check it.                                        *)
THEOREM LengthsAreBounded == Spec => []DegreeBound
<1> DEFINE Inv == Running => Degrees
<1>1. Init => Inv
  <2>1. Init => \A v \in Ids, l \in Levels : connections[v][l] = <<>>
    BY UnlinkedType DEF Init
  <2>2. Len(<<>>) = 0
    OBVIOUS
  <2>3. ASSUME Init, NEW v \in Ids, NEW l \in Levels
        PROVE  Len(connections[v][l]) <=
                 Limit(l) + Cardinality(OwnLinks(v, l)) + Cardinality(Pruners(v, l))
    <3>1. Len(connections[v][l]) = 0
      BY <2>1, <2>2, <2>3
    <3>2. /\ Limit(l) \in Nat /\ Cardinality(OwnLinks(v, l)) \in Nat
          /\ Cardinality(Pruners(v, l)) \in Nat
      BY LimitType, OwnLinksFinite, PrunersFinite
    <3> QED
      BY <3>1, <3>2
  <2> QED
    BY <2>3 DEF Degrees
<1>2. TypeInv /\ TypeInv' /\ Publication /\ ChoicesInv /\ BornInv /\ Inv /\ [Next]_vars
        => Inv'
  <2> SUFFICES ASSUME TypeInv, TypeInv', Publication, ChoicesInv, BornInv, Inv,
                      [Next]_vars, Running'
               PROVE  Degrees'
    OBVIOUS
  <2>1. Running
    BY DEF Next, Step, Over, vars, graph, search, Running
  <2>2. CASE UNCHANGED vars
    <3>1. /\ \A v, l : OwnLinks(v, l)' = OwnLinks(v, l) /\ Pruners(v, l)' = Pruners(v, l)
          /\ connections' = connections
      BY <2>2 DEF vars, graph, search, OwnLinks, Pruners, Linked, Settled, Chosen,
                  Pending, Neighbor
    <3> QED
      BY <2>1, <3>1 DEF Degrees
  <2>3. ASSUME NEW w \in Workers, Step(w)
        PROVE  Degrees'
    BY <2>1, <2>3, StepDegrees DEF Step
  <2> QED
    BY <2>2, <2>3 DEF Next, Over
<1>3. TypeInv /\ ChoicesInv /\ Inv => DegreeBound
  <2> SUFFICES ASSUME TypeInv, ChoicesInv, Running, Degrees,
                      NEW v \in Ids, NEW l \in Levels
               PROVE  Len(connections[v][l]) <=
                        Limit(l) + Cardinality({u \in Ids : Chose(v, u, l)})
                                 + Cardinality(Pruners(v, l))
    BY DEF DegreeBound
  <2> DEFINE told == {u \in Ids : Chose(v, u, l)}
  <2>1. OwnLinks(v, l) \subseteq told
    BY ChoseMeans DEF OwnLinks, Linked, Settled
  <2>2. IsFiniteSet(told) /\ Cardinality(told) \in Nat
    BY IdsFinite
  <2>3. Cardinality(OwnLinks(v, l)) <= Cardinality(told)
    BY <2>1, <2>2, OwnLinksFinite, OnlyGrows
  <2>4. Len(connections[v][l]) <=
          Limit(l) + Cardinality(OwnLinks(v, l)) + Cardinality(Pruners(v, l))
    BY DEF Degrees
  <2>5. Len(connections[v][l]) \in Nat
    BY DEF TypeInv, TypeOK
  <2>6. /\ Limit(l) \in Nat /\ Cardinality(OwnLinks(v, l)) \in Nat
        /\ Cardinality(Pruners(v, l)) \in Nat
    BY LimitType, OwnLinksFinite, PrunersFinite
  <2> HIDE DEF told
  <2>7. Len(connections[v][l]) <=
          Limit(l) + Cardinality(told) + Cardinality(Pruners(v, l))
    BY <2>2, <2>3, <2>4, <2>5, <2>6
  <2> QED
    BY <2>7 DEF told
<1> QED
  BY <1>1, <1>2, <1>3, TypeInvariance, PublicationInvariance, ChoicesInvariance,
     BornInvariance, PTL DEF Spec

-------------------------------------------------------------------------------
(* As long as the table was made only once no vertex leaves it, and a vertex *)
(* that is past the making of its maps is in it.                             *)
BornStored == firsts <= 1 => \A v \in Ids : Born(v) => v \in nodes

LEMMA NodesStay ==
  ASSUME TypeInv, Publication, NEW w \in Workers, Take(w) \/ Insert(w)
  PROVE  /\ nodes # {} => nodes' # {}
         /\ firsts' <= 1 => firsts <= 1 /\ nodes \subseteq nodes'
<1>1. firsts \in Nat /\ (firsts = 0 => nodes = {})
  BY DEF TypeInv, TypeOK, Publication
<1>2. CASE FirstInsert(w)
  <2>1. firsts' = firsts + 1 /\ nodes' = {node[w]}
    BY <1>2 DEF FirstInsert
  <2>2. firsts' <= 1 => firsts = 0
    BY <1>1, <2>1
  <2> QED
    BY <1>1, <2>1, <2>2
<1>3. CASE ~FirstInsert(w)
  BY <1>3
     DEF Take, Insert, ReadTotal, LockFirst, ReadEntryPoint, ReadMaximumLayer, AddNode,
         Expand, Visit, Descend, SelectNeighbors, LinkNeighbor, LinkSelf, CountNeighbor,
         Prune, CheckMaximumLayer, PublishEntryPoint, PublishMaximumLayer, graph
<1> QED
  BY <1>2, <1>3

LEMMA LeavesUnborn ==
  ASSUME TypeInv, NEW w \in Workers, Take(w) \/ Insert(w),
         pc[w] \in Unborn, pc'[w] \notin Unborn
  PROVE  node[w] \in nodes'
<1>1. CASE FirstInsert(w) \/ AddNode(w)
  BY <1>1 DEF FirstInsert, AddNode
<1>2. CASE Take(w) \/ ReadTotal(w) \/ LockFirst(w) \/ ReadEntryPoint(w) \/ ReadMaximumLayer(w)
  BY <1>2 DEF Take, ReadTotal, LockFirst, ReadEntryPoint, ReadMaximumLayer, Unborn,
              TypeInv, TypeOK
<1>3. CASE ~(FirstInsert(w) \/ AddNode(w) \/ Take(w) \/ ReadTotal(w) \/ LockFirst(w)
             \/ ReadEntryPoint(w) \/ ReadMaximumLayer(w))
  BY <1>3 DEF Insert, Expand, Visit, Descend, SearchOver, SelectNeighbors, LinkNeighbor,
              LinkSelf, CountNeighbor, Prune, CheckMaximumLayer, PublishEntryPoint,
              PublishMaximumLayer, Unborn
<1> QED
  BY <1>1, <1>2, <1>3

LEMMA StepBornStored ==
  ASSUME TypeInv, Publication, BornStored, NEW w \in Workers, Take(w) \/ Insert(w)
  PROVE  BornStored'
<1> SUFFICES ASSUME firsts' <= 1, NEW v \in Ids, Born(v)'
             PROVE  v \in nodes'
  BY DEF BornStored
<1>0. /\ firsts <= 1 /\ nodes \subseteq nodes'
      /\ \A x \in Workers \ {w} : pc'[x] = pc[x] /\ node'[x] = node[x]
      /\ v \in Nat /\ jobs \in Nat
  <2>1. jobs \in 0 .. N
    BY DEF TypeInv, TypeOK
  <2>2. v \in Nat /\ jobs \in Nat
    BY <2>1, IdsAndLevels, NAssumption
  <2> QED
    BY <2>2, NodesStay, StepElsewhere DEF Elsewhere
<1>1. CASE Born(v)
  BY <1>0, <1>1 DEF BornStored
<1>2. CASE ~Born(v)
  <2>1. v < jobs' /\ \A x \in Workers : pc'[x] \in Unborn => node'[x] # v
    BY DEF Born
  <2>2. CASE Take(w) /\ pc[w] = "idle" /\ pc'[w] = "total" /\ jobs' = jobs + 1 /\ node'[w] = jobs
    <3>1. v # jobs
      BY <2>1, <2>2 DEF Unborn
    <3>2. v < jobs
      BY <1>0, <2>1, <2>2, <3>1
    <3>3. PICK x \in Workers : pc[x] \in Unborn /\ node[x] = v
      BY <1>2, <3>2 DEF Born
    <3>4. x # w
      BY <2>2, <3>3 DEF Unborn
    <3> QED
      BY <1>0, <2>1, <3>3, <3>4
  <2>3. CASE UNCHANGED <<jobs, node>>
    <3>1. PICK x \in Workers : pc[x] \in Unborn /\ node[x] = v
      BY <1>2, <2>1, <2>3 DEF Born
    <3>2. x = w /\ pc'[w] \notin Unborn
      BY <1>0, <2>1, <2>3, <3>1
    <3> QED
      BY <3>1, <3>2, LeavesUnborn
  <2> QED
    BY <2>2, <2>3, StepJobs
<1> QED
  BY <1>1, <1>2

(* As long as the table was made once, every vertex whose worker is past     *)
(* making its maps is in it and stays there.                                 *)
THEOREM BornAreStored == Spec => []BornStored
<1>1. Init => BornStored
  BY IdsAndLevels DEF Init, BornStored, Born
<1>2. TypeInv /\ Publication /\ BornStored /\ [Next]_vars => BornStored'
  <2>1. UNCHANGED vars => (BornStored => BornStored')
    BY DEF vars, graph, BornStored, Born
  <2> QED
    BY <2>1, StepBornStored DEF Next, Step, Over
<1> QED
  BY <1>1, <1>2, TypeInvariance, PublicationInvariance, PTL DEF Spec

-------------------------------------------------------------------------------
(* What holds besides when Init started one worker (src/main.go's            *)
(* numberOfWorkers): with nobody else at the lists, an insertion leaves no   *)
(* trace of the orders in which several of them come apart.                  *)
OneWorker == \A u, w \in Workers : u = w

(* The table is made once: whoever found it missing finds it missing still.  *)
FirstOnce ==
  firsts <= 1 /\ \A w \in Workers : pc[w] \in {"first", "table"} => nodes = {}

(* What is in the table has its maps.                                        *)
StoredBorn == \A v \in nodes : Born(v)

(* No stored vertex is above the entry point, except the one whose worker    *)
(* has yet to publish it.                                                    *)
Highest ==
  /\ \A w \in Workers : pc[w] \in {"lock", "publish"} => levelOf[node[w]] > currentMaximumLayer
  /\ \A v \in nodes : \/ levelOf[v] <= currentMaximumLayer
                      \/ \E w \in Workers : pc[w] \in Added /\ node[w] = v

(* The ids that w comes across reach the layer it is at and are not its own. *)
High(w, S) == \A v \in S : levelOf[v] >= layer[w] /\ v # node[w]

(* What w holds at each place of insert: the ids are High.                   *)
Path(w) ==
  /\ pc[w] = "max" => results[w] = {entryPointID}
  /\ pc[w] \in {"add", "search"} \cup Linking => High(w, results[w])
  /\ pc[w] = "search" => High(w, candidates[w]) /\ High(w, Elements(todo[w]))
  /\ pc[w] # "search" => todo[w] = <<>>
  /\ pc[w] \in Linking => layer[w] <= levelOf[node[w]]
  /\ pc[w] \in Choosing =>
       \A l \in Levels : \A u \in Elements(chosen[w][l]) :
         levelOf[u] >= l /\ levelOf[node[w]] >= l /\ u # node[w]
  /\ pc[w] = "prune" => snapshot[w] = connections[Neighbor(w)][layer[w]]

(* The levels at which w has linked nothing yet.                             *)
ToLink(w, l) == \/ pc[w] = "search" /\ l <= layer[w]
                \/ pc[w] \in Linking /\ l < layer[w]

(* There, no list is about the vertex of w.                                  *)
Untouched(w) ==
  \A l \in Levels : ToLink(w, l) =>
     /\ connections[node[w]][l] = <<>>
     /\ \A v \in Ids : node[w] \notin Elements(connections[v][l])

(* How many of the neighbors of its level w has appended to its own list.    *)
Made(w) == IF pc[w] \in {"link", "linkSelf"} THEN idx[w] - 1 ELSE idx[w]

(* The vertex's own list is that beginning of the neighbors chosen.          *)
OwnList(w) ==
  pc[w] \in Linking =>
    LET own == connections[node[w]][layer[w]]
    IN /\ Len(own) = Made(w)
       /\ \A j \in 1 .. Len(own) : own[j] = chosen[w][layer[w]][j]

(* The neighbors whose lists w has yet to append to...                       *)
NotYet(w, j) == j > idx[w] \/ (j = idx[w] /\ pc[w] = "link")

(* ... do not mention the vertex,                                            *)
OtherLists(w) ==
  pc[w] \in Linking =>
    \A j \in 1 .. Len(chosen[w][layer[w]]) :
      NotYet(w, j) => node[w] \notin Elements(connections[chosen[w][layer[w]][j]][layer[w]])

(* ... and the ones it is through with do.                                   *)
Found(w) ==
  pc[w] \in Choosing =>
    \A l \in Levels : \A j \in 1 .. Len(chosen[w][l]) :
      (pc[w] \in Linking /\ l = layer[w] => ~NotYet(w, j)) =>
        node[w] \in Elements(connections[chosen[w][l][j]][l])

(* Hnsw.ProperLinks, for one list.                                           *)
ProperList(v, l) ==
  LET links == connections[v][l] IN
    /\ v \notin Elements(links)
    /\ \A i, j \in 1 .. Len(links) : links[i] = links[j] => i = j
    /\ \A u \in Elements(links) : levelOf[u] >= l /\ levelOf[v] >= l

(* Only the list that is about to be pruned may be over its limit.           *)
Within ==
  \A v \in Ids, l \in Levels :
    \/ Len(connections[v][l]) <= Limit(l)
    \/ \E w \in Workers : /\ pc[w] \in {"linkSelf", "count", "prune"}
                          /\ v = Neighbor(w) /\ l = layer[w]

FewChosen == \A w \in Workers, l \in Levels : Len(chosen[w][l]) <= maximumConnections

-------------------------------------------------------------------------------
LEMMA StepFirstOnce ==
  ASSUME OneWorker, TypeInv, Publication, FirstOnce, NEW w \in Workers, Take(w) \/ Insert(w)
  PROVE  FirstOnce'
<1>0. /\ \A x \in Workers : x = w
      /\ firsts \in Nat /\ (nodes = {} <=> firsts = 0)
  BY DEF OneWorker, TypeInv, TypeOK, Publication
<1>1. CASE FirstInsert(w)
  <2>1. firsts' = firsts + 1 /\ pc'[w] = "idle" /\ nodes = {}
    BY <1>1 DEF FirstInsert, FirstOnce, TypeInv, TypeOK
  <2> QED
    BY <1>0, <2>1 DEF FirstOnce
<1>2. CASE ReadTotal(w)
  BY <1>0, <1>2 DEF ReadTotal, FirstOnce, TypeInv, TypeOK, graph
<1>3. CASE LockFirst(w)
  BY <1>0, <1>3 DEF LockFirst, FirstOnce, TypeInv, TypeOK
<1>4. CASE ~(FirstInsert(w) \/ ReadTotal(w) \/ LockFirst(w))
  <2>1. UNCHANGED firsts
    BY <1>4
       DEF Take, Insert, ReadEntryPoint, ReadMaximumLayer, AddNode, Expand, Visit,
           Descend, SelectNeighbors, LinkNeighbor, LinkSelf, CountNeighbor, Prune,
           CheckMaximumLayer, PublishEntryPoint, PublishMaximumLayer, graph
  <2>2. pc'[w] \notin {"first", "table"}
    <3>1. Advance(w) => pc'[w] \in {"link", "search", "raise"}
      BY AdvanceCases
    <3>2. CASE (\E c \in Ids : Expand(w, c)) \/ Visit(w) \/ Descend(w) \/ SelectNeighbors(w)
               \/ LinkNeighbor(w) \/ LinkSelf(w) \/ CountNeighbor(w) \/ Prune(w)
      BY <3>1, <3>2
         DEF Expand, Visit, Descend, SearchOver, SelectNeighbors, LinkNeighbor, LinkSelf,
             CountNeighbor, Prune, TypeInv, TypeOK
    <3>3. CASE Take(w) \/ ReadEntryPoint(w) \/ ReadMaximumLayer(w) \/ AddNode(w)
               \/ CheckMaximumLayer(w) \/ PublishEntryPoint(w) \/ PublishMaximumLayer(w)
      BY <3>3
         DEF Take, ReadEntryPoint, ReadMaximumLayer, AddNode, CheckMaximumLayer,
             PublishEntryPoint, PublishMaximumLayer, TypeInv, TypeOK
    <3> QED
      BY <1>4, <3>2, <3>3 DEF Insert
  <2> QED
    BY <1>0, <2>1, <2>2 DEF FirstOnce
<1> QED
  BY <1>1, <1>2, <1>3, <1>4

(* One worker makes the table once, so that nothing ever panics and every id *)
(* anybody holds is stored.                                                  *)
THEOREM OneWorkerMakesItOnce == OneWorker => (Spec => []FirstOnce)
<1> SUFFICES ASSUME OneWorker
             PROVE  Spec => []FirstOnce
  OBVIOUS
<1>1. Init => FirstOnce
  BY DEF Init, FirstOnce
<1>2. TypeInv /\ Publication /\ FirstOnce /\ [Next]_vars => FirstOnce'
  <2>1. UNCHANGED vars => (FirstOnce => FirstOnce')
    BY DEF vars, graph, FirstOnce
  <2> QED
    BY <2>1, StepFirstOnce DEF Next, Step, Over
<1> QED
  BY <1>1, <1>2, TypeInvariance, PublicationInvariance, PTL DEF Spec

LEMMA OneIsSafe ==
  ASSUME FirstOnce, Known
  PROVE  Running /\ References
BY DEF FirstOnce, Known, NoPanic, Clean

LEMMA StepStoredBorn ==
  ASSUME TypeInv, Publication, StoredBorn, NEW w \in Workers, Take(w) \/ Insert(w)
  PROVE  StoredBorn'
<1>0. nodes \subseteq Ids /\ node[w] \in Ids
  BY DEF TypeInv, TypeOK
<1>1. \A v \in nodes : Born(v)'
  BY <1>0, StepBorn DEF StoredBorn
<1>2. CASE FirstInsert(w) \/ AddNode(w)
  <2>1. /\ nodes' \subseteq nodes \cup {node[w]} /\ UNCHANGED <<jobs, node>>
        /\ pc'[w] \in {"idle", "search"} /\ Active(w) /\ pc[w] \in Unborn
    BY <1>2 DEF FirstInsert, AddNode, TypeInv, TypeOK, Active, Unborn
  <2>2. \A x \in Workers \ {w} : pc'[x] = pc[x]
    BY StepElsewhere DEF Elsewhere
  <2>3. node[w] < jobs /\ \A x \in Workers \ {w} : pc[x] \in Unborn => node[x] # node[w]
    BY <2>1 DEF Publication, Active, Unborn
  <2>4. Born(node[w])'
    BY <2>1, <2>2, <2>3 DEF Born, Unborn
  <2> QED
    BY <1>1, <2>1, <2>4 DEF StoredBorn
<1>3. CASE ~(FirstInsert(w) \/ AddNode(w))
  <2>1. UNCHANGED nodes
    BY <1>3
       DEF Take, Insert, ReadTotal, LockFirst, ReadEntryPoint, ReadMaximumLayer, Expand,
           Visit, Descend, SelectNeighbors, LinkNeighbor, LinkSelf, CountNeighbor, Prune,
           CheckMaximumLayer, PublishEntryPoint, PublishMaximumLayer, graph
  <2> QED
    BY <1>1, <2>1 DEF StoredBorn
<1> QED
  BY <1>2, <1>3

(* A vertex whose worker has not added it is not in the table yet. *)
THEOREM StoredAreBorn == Spec => []StoredBorn
<1>1. Init => StoredBorn
  BY DEF Init, StoredBorn
<1>2. TypeInv /\ Publication /\ StoredBorn /\ [Next]_vars => StoredBorn'
  <2>1. UNCHANGED vars => (StoredBorn => StoredBorn')
    BY DEF vars, graph, StoredBorn, Born
  <2> QED
    BY <2>1, StepStoredBorn DEF Next, Step, Over
<1> QED
  BY <1>1, <1>2, TypeInvariance, PublicationInvariance, PTL DEF Spec

-------------------------------------------------------------------------------
LEMMA StepLevels ==
  ASSUME TypeInv, NEW w \in Workers, Take(w) \/ Insert(w)
  PROVE  /\ \A v \in Ids : levelOf'[v] # levelOf[v] => v = node[w] /\ pc[w] \in {"table", "max"}
         /\ pc[w] \in {"table", "max"} => node'[w] = node[w]
<1>1. CASE FirstInsert(w)
  BY <1>1 DEF FirstInsert, TypeInv, TypeOK
<1>2. CASE ReadMaximumLayer(w)
  BY <1>2 DEF ReadMaximumLayer, TypeInv, TypeOK
<1>3. CASE ~(FirstInsert(w) \/ ReadMaximumLayer(w))
  <2>1. UNCHANGED levelOf
    BY <1>3
       DEF Take, Insert, ReadTotal, LockFirst, ReadEntryPoint, AddNode, Expand, Visit,
           Descend, SelectNeighbors, LinkNeighbor, LinkSelf, CountNeighbor, Prune,
           CheckMaximumLayer, PublishEntryPoint, PublishMaximumLayer, graph
  <2>2. pc[w] \in {"table", "max"} => node'[w] = node[w]
    BY StepNode DEF TypeInv
  <2> QED
    BY <2>1, <2>2
<1> QED
  BY <1>1, <1>2, <1>3

LEMMA LevelNumbers ==
  ASSUME TypeInv
  PROVE  /\ currentMaximumLayer \in Nat
         /\ \A v \in Ids : levelOf[v] \in Nat
         /\ \A w \in Workers : layer[w] \in Nat /\ node[w] \in Ids
<1>1. Levels \subseteq Nat
  BY LevelAssumption DEF Levels
<1> QED
  BY <1>1 DEF TypeInv, TypeOK

LEMMA StepHighest ==
  ASSUME OneWorker, TypeInv, StoredBorn, Highest, NEW w \in Workers,
         Take(w) \/ Insert(w), Running'
  PROVE  Highest'
<1>0. /\ \A x \in Workers : x = w
      /\ nodes \subseteq Ids /\ node[w] \in Ids
  BY DEF OneWorker, TypeInv, TypeOK
<1>1. /\ pc[w] \in {"lock", "publish"} => levelOf[node[w]] > currentMaximumLayer
      /\ \A v \in nodes : \/ levelOf[v] <= currentMaximumLayer
                          \/ pc[w] \in Added /\ node[w] = v
  BY <1>0 DEF Highest
<1>2. SUFFICES /\ pc'[w] \in {"lock", "publish"} => levelOf'[node'[w]] > currentMaximumLayer'
               /\ \A v \in nodes' : \/ levelOf'[v] <= currentMaximumLayer'
                                    \/ pc'[w] \in Added /\ node'[w] = v
  BY <1>0 DEF Highest
<1>3. CASE FirstInsert(w)
  <2>1. /\ nodes' = {node[w]} /\ currentMaximumLayer' = 0 /\ levelOf'[node[w]] = 0
        /\ pc'[w] = "idle"
    BY <1>3 DEF FirstInsert, TypeInv, TypeOK
  <2> QED
    BY <2>1
<1>4. CASE ReadMaximumLayer(w)
  <2>1. /\ pc[w] = "max" /\ pc'[w] = "add" /\ UNCHANGED <<nodes, currentMaximumLayer, node>>
    BY <1>4 DEF ReadMaximumLayer, TypeInv, TypeOK
  <2>2. node[w] \notin nodes
    BY <2>1 DEF StoredBorn, Born, Unborn
  <2>3. \A v \in nodes : levelOf'[v] = levelOf[v]
    BY <1>0, <2>2, StepLevels
  <2> QED
    BY <1>1, <2>1, <2>3 DEF Added
<1>5. CASE AddNode(w)
  <2>1. /\ nodes' = nodes \cup {node[w]} /\ pc'[w] = "search"
        /\ UNCHANGED <<levelOf, currentMaximumLayer, node>>
    BY <1>5 DEF AddNode, TypeInv, TypeOK
  <2>2. pc[w] = "add"
    BY <1>5 DEF AddNode
  <2> QED
    BY <1>1, <2>1, <2>2 DEF Added
<1>6. CASE CheckMaximumLayer(w)
  <2>1. /\ UNCHANGED <<nodes, levelOf, currentMaximumLayer, node>>
        /\ pc'[w] = IF levelOf[node[w]] > currentMaximumLayer THEN "lock" ELSE "idle"
    BY <1>6 DEF CheckMaximumLayer, graph, TypeInv, TypeOK
  <2>2. ~(levelOf[node[w]] > currentMaximumLayer) => levelOf[node[w]] <= currentMaximumLayer
    BY <1>0, LevelNumbers
  <2> QED
    BY <1>1, <2>1, <2>2 DEF Added
<1>7. CASE PublishEntryPoint(w)
  BY <1>1, <1>7 DEF PublishEntryPoint, TypeInv, TypeOK, Added
<1>8. CASE PublishMaximumLayer(w)
  <2>1. /\ UNCHANGED <<nodes, levelOf, node>> /\ pc[w] = "publish" /\ pc'[w] = "idle"
        /\ currentMaximumLayer' = levelOf[node[w]]
    BY <1>8 DEF PublishMaximumLayer, TypeInv, TypeOK
  <2>2. \A v \in nodes : levelOf[v] <= currentMaximumLayer => levelOf[v] <= levelOf[node[w]]
    BY <1>0, <1>1, <2>1, LevelNumbers
  <2>3. levelOf[node[w]] <= levelOf[node[w]]
    BY <1>0, LevelNumbers
  <2> QED
    BY <1>1, <2>1, <2>2, <2>3
<1>9. CASE Take(w) \/ ReadTotal(w) \/ LockFirst(w) \/ ReadEntryPoint(w)
  <2>1. /\ UNCHANGED <<nodes, levelOf, currentMaximumLayer>>
        /\ pc[w] \notin Added /\ pc'[w] \notin {"lock", "publish"}
    BY <1>9 DEF Take, ReadTotal, LockFirst, ReadEntryPoint, graph, Added, TypeInv, TypeOK
  <2> QED
    BY <1>1, <2>1
<1>10. CASE (\E c \in Ids : Expand(w, c)) \/ Visit(w) \/ Descend(w) \/ SelectNeighbors(w)
            \/ LinkNeighbor(w) \/ LinkSelf(w) \/ CountNeighbor(w) \/ Prune(w)
  <2>1. UNCHANGED <<nodes, levelOf, currentMaximumLayer, node>>
    BY <1>10 DEF Expand, Visit, Descend, SelectNeighbors, LinkNeighbor, LinkSelf,
                 CountNeighbor, Prune, graph
  <2>2. pc[w] \in Choosing /\ pc'[w] \in Choosing \cup {"panic"}
    <3>1. Advance(w) => pc'[w] \in Choosing
      BY AdvanceCases DEF Choosing, Linking
    <3> QED
      BY <1>10, <3>1
         DEF Expand, Visit, Descend, SearchOver, SelectNeighbors, LinkNeighbor,
             LinkSelf, CountNeighbor, Prune, Choosing, Linking, TypeInv, TypeOK
  <2>3. pc'[w] # "panic"
    BY DEF Running
  <2> QED
    BY <1>1, <2>1, <2>2, <2>3 DEF Added, Choosing, Linking
<1> QED
  BY <1>3, <1>4, <1>5, <1>6, <1>7, <1>8, <1>9, <1>10 DEF Insert

(* Hnsw.EntryPointHighest *)
THEOREM OneEntryPointHighest == OneWorker => (Spec => []EntryPointHighest)
<1> SUFFICES ASSUME OneWorker
             PROVE  Spec => []EntryPointHighest
  OBVIOUS
<1>1. Init => Highest
  BY DEF Init, Highest
<1>2. /\ TypeInv /\ StoredBorn /\ Highest /\ [Next]_vars /\ FirstOnce' /\ Known'
      => Highest'
  <2>1. UNCHANGED vars => (Highest => Highest')
    BY DEF vars, graph, Highest
  <2>2. FirstOnce' /\ Known' => Running'
    BY DEF FirstOnce, Known, NoPanic
  <2> QED
    BY <2>1, <2>2, StepHighest DEF Next, Step, Over
<1>3. TypeInv /\ Publication /\ Highest => EntryPointHighest
  <2>1. ASSUME TypeInv, Publication, Highest, Idle
        PROVE  /\ levelOf[entryPointID] = currentMaximumLayer
               /\ \A v \in nodes : levelOf[v] <= currentMaximumLayer
    <3>1. hlock = {}
      <4>1. SUFFICES ASSUME NEW w \in hlock
                     PROVE  FALSE
        OBVIOUS
      <4>2. w \in Workers /\ \A x \in hlock : x = w
        BY <2>1 DEF OneWorker, TypeInv, TypeOK
      <4>3. hlock = {w}
        BY <4>2
      <4> QED
        BY <2>1, <4>2, <4>3 DEF Publication, Idle
    <3> QED
      BY <2>1, <3>1 DEF Publication, EntryPointOnTop, Highest, Idle, Added
  <2> QED
    BY <2>1 DEF EntryPointHighest
<1> QED
  BY <1>1, <1>2, <1>3, OneWorkerMakesItOnce, StoredAreBorn, TypeInvariance,
     PublicationInvariance, KnownInvariance, PTL DEF Spec

-------------------------------------------------------------------------------
LEMMA StepFewChosen ==
  ASSUME TypeInv, FewChosen, NEW w \in Workers, Take(w) \/ Insert(w)
  PROVE  FewChosen'
<1> SUFFICES ASSUME NEW x \in Workers, NEW l \in Levels
             PROVE  Len(chosen'[x][l]) <= maximumConnections
  BY DEF FewChosen
<1>0. Len(chosen[x][l]) <= maximumConnections /\ Len(<<>>) <= maximumConnections
  BY LimitAssumption DEF FewChosen
<1>1. CASE Take(w) \/ CheckMaximumLayer(w)
  <2>1. chosen'[x] \in {chosen[x], Unlinked}
    BY <1>1 DEF Take, CheckMaximumLayer, Forget, TypeInv, TypeOK
  <2> QED
    BY <1>0, <2>1, UnlinkedType
<1>2. CASE SelectNeighbors(w)
  <2>1. PICK s \in Nearest(results[w], DistTo(w), maximumConnections) :
               chosen' = [chosen EXCEPT ![w][layer[w]] = s]
    BY <1>2 DEF SelectNeighbors
  <2>2. Len(s) <= maximumConnections
    <3>1. results[w] \subseteq Ids /\ maximumConnections \in Nat /\ maximumConnections > 0
      BY LimitAssumption DEF TypeInv, TypeOK, Trees
    <3> QED
      BY <2>1, <3>1, NearestList
  <2>3. chosen'[x][l] \in {chosen[x][l], s}
    BY <2>1 DEF TypeInv, TypeOK
  <2> QED
    BY <1>0, <2>2, <2>3
<1>3. CASE ~(Take(w) \/ CheckMaximumLayer(w) \/ SelectNeighbors(w))
  BY <1>0, <1>3
     DEF Insert, ReadTotal, LockFirst, FirstInsert, ReadEntryPoint, ReadMaximumLayer,
         AddNode, Expand, Visit, Descend, LinkNeighbor, LinkSelf, CountNeighbor, Prune,
         PublishEntryPoint, PublishMaximumLayer
<1> QED
  BY <1>1, <1>2, <1>3

(* No more neighbors are chosen on a level than a vertex is to have. *)
THEOREM FewAreChosen == Spec => []FewChosen
<1>1. Init => FewChosen
  <2>1. Len(<<>>) <= maximumConnections
    BY LimitAssumption
  <2> QED
    BY <2>1, UnlinkedType DEF Init, FewChosen
<1>2. TypeInv /\ FewChosen /\ [Next]_vars => FewChosen'
  <2>1. UNCHANGED vars => (FewChosen => FewChosen')
    BY DEF vars, FewChosen
  <2> QED
    BY <2>1, StepFewChosen DEF Next, Step, Over
<1> QED
  BY <1>1, <1>2, TypeInvariance, PTL DEF Spec

-------------------------------------------------------------------------------
(* A list without repetitions is as long as the set of its elements is large. *)
LEMMA CountOnce ==
  ASSUME NEW s \in Seq(Ids), \A i, j \in 1 .. Len(s) : s[i] = s[j] => i = j
  PROVE  Cardinality(Elements(s)) = Len(s)
<1> DEFINE n == Len(s)
           f == [i \in 1 .. n |-> s[i]]
<1>1. n \in Nat
  OBVIOUS
<1>2. IsFiniteSet(1 .. n) /\ Cardinality(1 .. n) = n
  <2> HIDE DEF n
  <2> QED
    BY <1>1, FS_Interval
<1>3. /\ f \in [1 .. n -> Elements(s)] /\ DOMAIN f = 1 .. n
      /\ \A a, b \in 1 .. n : f[a] = f[b] => a = b
      /\ \A t \in Elements(s) : \E i \in 1 .. n : f[i] = t
  BY DEF Elements
<1>4. ExistsBijection(1 .. n, Elements(s))
  <2> HIDE DEF f, n
  <2> QED
    BY <1>3 DEF ExistsBijection, Bijection, Injection, Surjection, IsInjective
<1>5. Cardinality(Elements(s)) = Cardinality(1 .. n)
  <2> HIDE DEF f, n
  <2> QED
    BY <1>2, <1>4, FS_Bijection
<1> QED
  BY <1>2, <1>5

Proper == \A v \in Ids, l \in Levels : ProperList(v, l)

(* The end of the loop body: what w goes on with. *)
LEMMA AdvancePath ==
  ASSUME TypeInv, NEW w \in Workers, Path(w), pc[w] \in {"count", "prune"}, Advance(w),
         UNCHANGED <<levelOf, node, chosen>>
  PROVE  Path(w)'
<1>0. /\ \A v \in Ids : levelOf[v] \in Nat
      /\ layer[w] \in Nat /\ results[w] \subseteq Ids /\ node[w] \in Ids
  BY LevelNumbers DEF TypeInv, TypeOK, Trees
<1>1. /\ High(w, results[w]) /\ todo[w] = <<>> /\ layer[w] <= levelOf[node[w]]
      /\ \A l \in Levels : \A u \in Elements(chosen[w][l]) :
           levelOf[u] >= l /\ levelOf[node[w]] >= l /\ u # node[w]
  BY DEF Path, Linking, Choosing
<1>2. CASE UNCHANGED <<layer, search>> /\ pc'[w] \in {"link", "raise"}
  BY <1>1, <1>2 DEF search, Path, High, Linking, Choosing
<1>3. CASE /\ layer' = [layer EXCEPT ![w] = @ - 1]
           /\ StartSearch(w, results[w])
           /\ pc'[w] = "search"
  <2>1. /\ layer'[w] = layer[w] - 1 /\ candidates'[w] = results[w] /\ results'[w] = results[w]
        /\ todo'[w] = todo[w]
    BY <1>3 DEF StartSearch, TypeInv, TypeOK, Trees
  <2>2. \A v \in Ids : levelOf[v] >= layer[w] => levelOf[v] >= layer'[w]
    BY <1>0, <2>1
  <2>3. Elements(<<>>) = {}
    BY DEF Elements
  <2>4. High(w, results[w])' /\ High(w, candidates[w])' /\ High(w, Elements(todo[w]))'
    BY <1>0, <1>1, <2>1, <2>2, <2>3 DEF High
  <2> QED
    BY <1>1, <1>3, <2>4 DEF Path, Linking, Choosing
<1>4. /\ pc' = [pc EXCEPT ![w] = "link"] => pc'[w] = "link"
      /\ pc' = [pc EXCEPT ![w] = "raise"] => pc'[w] = "raise"
      /\ pc' = [pc EXCEPT ![w] = "search"] => pc'[w] = "search"
  BY DEF TypeInv, TypeOK
<1>5. \/ UNCHANGED <<layer, search>> /\ pc'[w] \in {"link", "raise"}
      \/ /\ layer' = [layer EXCEPT ![w] = @ - 1]
         /\ StartSearch(w, results[w])
         /\ pc'[w] = "search"
  BY <1>4 DEF Advance
<1> QED
  BY <1>2, <1>3, <1>5

LEMMA StepPath ==
  ASSUME OneWorker, TypeInv, Publication, ChoicesInv, Proper,
         NEW w \in Workers, Path(w), Untouched(w),
         Take(w) \/ Insert(w), Running'
  PROVE  Path(w)'
<1>0. /\ \A v \in Ids : levelOf[v] \in Nat
      /\ layer[w] \in Nat /\ layer[w] \in Levels /\ node[w] \in Ids
      /\ results[w] \subseteq Ids /\ candidates[w] \subseteq Ids
      /\ Elements(<<>>) = {} /\ entryPointID \in Ids /\ pc'[w] # "panic"
  <2>1. /\ layer[w] \in Levels /\ entryPointID \in Ids
        /\ results[w] \subseteq Ids /\ candidates[w] \subseteq Ids
    BY DEF TypeInv, TypeOK, Trees
  <2>2. Elements(<<>>) = {} /\ pc'[w] # "panic"
    BY DEF Elements, Running
  <2> QED
    BY <2>1, <2>2, LevelNumbers
<1>1. CASE Take(w) \/ ReadTotal(w) \/ LockFirst(w) \/ FirstInsert(w) \/ CheckMaximumLayer(w)
           \/ PublishEntryPoint(w) \/ PublishMaximumLayer(w)
  <2>1. pc[w] # "search" /\ UNCHANGED todo
    BY <1>1 DEF Take, ReadTotal, LockFirst, FirstInsert, CheckMaximumLayer, Forget,
                PublishEntryPoint, PublishMaximumLayer, graph, search
  <2>2. pc'[w] \in {"total", "first", "entry", "table", "idle", "lock", "publish"}
    BY <1>1 DEF Take, ReadTotal, LockFirst, FirstInsert, CheckMaximumLayer, Forget,
                PublishEntryPoint, PublishMaximumLayer, TypeInv, TypeOK
  <2> QED
    BY <2>1, <2>2 DEF Path, Linking, Choosing
<1>2. CASE ReadEntryPoint(w)
  <2>1. /\ results'[w] = {entryPointID} /\ pc'[w] = "max" /\ UNCHANGED <<entryPointID, todo>>
        /\ pc[w] # "search"
    BY <1>2 DEF ReadEntryPoint, graph, TypeInv, TypeOK, Trees
  <2> QED
    BY <2>1 DEF Path, Linking, Choosing
<1>3. CASE ReadMaximumLayer(w)
  <2>1. /\ pc[w] = "max" /\ pc'[w] = "add" /\ layer'[w] = currentMaximumLayer
        /\ UNCHANGED <<node, results, todo>>
    BY <1>3 DEF ReadMaximumLayer, search, TypeInv, TypeOK
  <2>2. results[w] = {entryPointID} /\ todo[w] = <<>>
    BY <2>1 DEF Path
  <2>3. entryPointID # node[w]
    BY <2>1 DEF Publication, Fresh, Beginning
  <2>4. levelOf[entryPointID] = currentMaximumLayer
    <3>1. hlock # {} => hlock = {w}
      BY DEF OneWorker, TypeInv, TypeOK
    <3>2. hlock = {}
      BY <2>1, <3>1 DEF Publication
    <3> QED
      BY <3>2 DEF Publication, EntryPointOnTop
  <2>5. levelOf'[entryPointID] >= layer'[w]
    <3>1. levelOf'[entryPointID] = levelOf[entryPointID]
      BY <1>0, <2>3, StepLevels
    <3> QED
      BY <1>0, <2>1, <2>4, <3>1
  <2> QED
    BY <2>1, <2>2, <2>3, <2>5 DEF Path, High, Linking, Choosing
<1>4. CASE AddNode(w)
  <2>1. /\ pc[w] = "add" /\ pc'[w] = "search" /\ UNCHANGED <<node, levelOf, layer, chosen, todo>>
        /\ results'[w] = results[w] /\ candidates'[w] = results[w]
    BY <1>4 DEF AddNode, StartSearch, TypeInv, TypeOK, Trees
  <2>2. \A l \in Levels : chosen[w][l] = <<>>
    BY <2>1 DEF ChoicesInv, Choices, Unborn
  <2>3. todo[w] = <<>> /\ High(w, results[w])
    BY <2>1 DEF Path
  <2> QED
    BY <1>0, <2>1, <2>2, <2>3 DEF Path, High, Linking, Choosing
<1>5. ASSUME NEW c \in Ids, Expand(w, c)
      PROVE  Path(w)'
  <2>1. /\ pc[w] = "search" /\ UNCHANGED <<pc, node, levelOf, layer, chosen, results>>
        /\ todo'[w] = connections[c][layer[w]] /\ candidates'[w] = candidates[w] \ {c}
    <3>1. pc' = [pc EXCEPT ![w] = "panic"] => pc'[w] = "panic"
      BY DEF TypeInv, TypeOK
    <3> QED
      BY <1>0, <1>5, <3>1 DEF Expand, graph, TypeInv, TypeOK, Trees
  <2>2. High(w, results[w]) /\ High(w, candidates[w])
    BY <2>1 DEF Path
  <2>3. layer[w] <= layer[w]
    BY <1>0
  <2>4. High(w, Elements(todo'[w]))
    <3>1. node[w] \notin Elements(connections[c][layer[w]])
      BY <1>0, <2>1, <2>3 DEF Untouched, ToLink
    <3>2. \A u \in Elements(connections[c][layer[w]]) : levelOf[u] >= layer[w]
      BY <1>0 DEF Proper, ProperList
    <3> QED
      BY <2>1, <3>1, <3>2 DEF High
  <2> QED
    BY <2>1, <2>2, <2>4 DEF Path, High, Linking, Choosing
<1>6. CASE Visit(w)
  <2>1. /\ pc[w] = "search" /\ UNCHANGED <<pc, node, levelOf, layer, chosen>>
        /\ todo[w] # <<>> /\ todo'[w] = Tail(todo[w])
        /\ candidates'[w] \subseteq candidates[w] \cup {Head(todo[w])}
        /\ results'[w] \subseteq results[w] \cup {Head(todo[w])}
    <3> DEFINE v == Head(todo[w])
    <3>1. /\ pc[w] = "search" /\ UNCHANGED <<pc, node, levelOf, layer, chosen>>
          /\ todo[w] # <<>> /\ todo' = [todo EXCEPT ![w] = Tail(@)]
          /\ \/ candidates' = candidates
             \/ candidates' = [candidates EXCEPT ![w] = @ \cup {v}]
          /\ \/ results' = results
             \/ \E m \in Ids : results' = [results EXCEPT ![w] = (@ \cup {v}) \ {m}]
             \/ results' = [results EXCEPT ![w] = @ \cup {v}]
      <4>1. todo[w] # <<>> => v \in Ids
        BY DEF TypeInv, TypeOK
      <4>2. todo[w] # <<>> => Maxima(results[w] \cup {v}, DistTo(w)) \subseteq Ids
        BY <1>0, <4>1 DEF Maxima
      <4> QED
        BY <1>6, <4>2 DEF Visit, graph
    <3>2. todo'[w] = Tail(todo[w])
      BY <3>1 DEF TypeInv, TypeOK
    <3>3. candidates'[w] \subseteq candidates[w] \cup {v}
      BY <3>1 DEF TypeInv, TypeOK, Trees
    <3>4. results'[w] \subseteq results[w] \cup {v}
      <4>1. results \in [Workers -> SUBSET Ids]
        BY DEF TypeInv, TypeOK, Trees
      <4>2. \A m : results' = [results EXCEPT ![w] = (@ \cup {v}) \ {m}]
                     => results'[w] = (results[w] \cup {v}) \ {m}
        BY <4>1
      <4>3. results' = [results EXCEPT ![w] = @ \cup {v}] => results'[w] = results[w] \cup {v}
        BY <4>1
      <4> HIDE DEF v
      <4> QED
        BY <3>1, <4>2, <4>3
    <3> QED
      BY <3>1, <3>2, <3>3, <3>4
  <2>2. High(w, results[w]) /\ High(w, candidates[w]) /\ High(w, Elements(todo[w]))
    BY <2>1 DEF Path
  <2>3. todo[w] \in Seq(Ids)
    BY DEF TypeInv, TypeOK
  <2>4. Head(todo[w]) \in Elements(todo[w]) /\ Elements(todo'[w]) \subseteq Elements(todo[w])
    BY <2>1, <2>3, ElementsOf
  <2>5. High(w, results'[w]) /\ High(w, candidates'[w]) /\ High(w, Elements(todo'[w]))
    BY <2>1, <2>2, <2>4 DEF High
  <2> QED
    BY <2>1, <2>5 DEF Path, High, Linking, Choosing
<1>7. CASE Descend(w)
  <2>1. PICK best \in Minima(results[w], DistTo(w)) : StartSearch(w, {best})
    BY <1>7 DEF Descend
  <2>2. /\ pc[w] = "search" /\ UNCHANGED <<pc, node, levelOf, chosen>> /\ todo[w] = <<>>
        /\ layer'[w] = layer[w] - 1
    BY <1>7 DEF Descend, SearchOver, graph, TypeInv, TypeOK
  <2>3. todo'[w] = <<>> /\ candidates'[w] = {best} /\ results'[w] = {best}
    BY <2>1, <2>2 DEF StartSearch, TypeInv, TypeOK, Trees
  <2>4. best \in Ids /\ levelOf[best] >= layer[w] /\ best # node[w]
    BY <1>0, <2>1, <2>2 DEF Minima, Path, High
  <2>5. levelOf[best] >= layer'[w]
    BY <1>0, <2>2, <2>4
  <2> QED
    BY <1>0, <2>2, <2>3, <2>4, <2>5 DEF Path, High, Linking, Choosing
<1>8. CASE SelectNeighbors(w)
  <2>1. PICK s \in Nearest(results[w], DistTo(w), maximumConnections) :
               chosen' = [chosen EXCEPT ![w][layer[w]] = s]
    BY <1>8 DEF SelectNeighbors
  <2>2. /\ pc[w] = "search" /\ pc'[w] = "link" /\ UNCHANGED <<node, levelOf, layer, results, todo>>
        /\ todo[w] = <<>> /\ ~(layer[w] > levelOf[node[w]])
    BY <1>8 DEF SelectNeighbors, SearchOver, Descending, graph, TypeInv, TypeOK
  <2>3. layer[w] <= levelOf[node[w]]
    BY <1>0, <2>2
  <2>4. High(w, results[w])
    BY <2>2 DEF Path
  <2>5. Elements(s) \subseteq results[w]
    <3>1. maximumConnections \in Nat /\ maximumConnections > 0
      BY LimitAssumption
    <3> QED
      BY <1>0, <2>1, <3>1, NearestList
  <2>6. \A l \in Levels : chosen'[w][l] = IF l = layer[w] THEN s ELSE chosen[w][l]
    BY <2>1 DEF TypeInv, TypeOK
  <2>7. \A l \in Levels : \A u \in Elements(chosen[w][l]) :
          levelOf[u] >= l /\ levelOf[node[w]] >= l /\ u # node[w]
    BY <2>2 DEF Path, Choosing
  <2>8. levelOf[node[w]] >= layer[w]
    BY <1>0, <2>3
  <2>9. \A l \in Levels : \A u \in Elements(chosen'[w][l]) :
          levelOf[u] >= l /\ levelOf[node[w]] >= l /\ u # node[w]
    BY <2>4, <2>5, <2>6, <2>7, <2>8 DEF High
  <2> QED
    BY <2>2, <2>3, <2>4, <2>9 DEF Path, High, Linking, Choosing
<1>9. CASE LinkNeighbor(w) \/ LinkSelf(w)
  <2>1. /\ pc[w] \in Linking /\ pc'[w] \in {"linkSelf", "count"} /\ pc[w] # "search"
        /\ UNCHANGED <<node, levelOf, layer, chosen, results, todo>>
    BY <1>0, <1>9 DEF LinkNeighbor, LinkSelf, search, TypeInv, TypeOK, Linking
  <2> QED
    BY <2>1 DEF Path, High, Linking, Choosing
<1>10. CASE CountNeighbor(w) /\ ~Advance(w)
  <2>1. /\ pc[w] = "count" /\ pc'[w] = "prune"
        /\ UNCHANGED <<node, levelOf, layer, chosen, results, todo, connections, idx>>
        /\ snapshot'[w] = connections[Neighbor(w)][layer[w]]
    BY <1>10 DEF CountNeighbor, graph, search, TypeInv, TypeOK
  <2>2. Neighbor(w)' = Neighbor(w)
    BY <2>1 DEF Neighbor
  <2> QED
    BY <2>1, <2>2 DEF Path, High, Linking, Choosing
<1>11. CASE (CountNeighbor(w) \/ Prune(w)) /\ Advance(w)
  <2>1. pc[w] \in {"count", "prune"} /\ UNCHANGED <<node, levelOf, chosen>>
    BY <1>11 DEF CountNeighbor, Prune, graph
  <2> QED
    BY <1>11, <2>1, AdvancePath
<1> QED
  BY <1>1, <1>2, <1>3, <1>4, <1>5, <1>6, <1>7, <1>8, <1>9, <1>10, <1>11 DEF Insert, Prune

-------------------------------------------------------------------------------
(* The levels that w has yet to link, and no list there is being changed. *)
LEMMA StepToLink ==
  ASSUME TypeInv, NEW w \in Workers, Take(w) \/ Insert(w), Running', NEW l \in Levels
  PROVE  /\ ToLink(w, l)' => ToLink(w, l) \/ AddNode(w)
         /\ ToLink(w, l)' => node'[w] = node[w]
         /\ ToLink(w, l) => \A v \in Ids : connections'[v][l] = connections[v][l]
<1>0. /\ layer[w] \in Levels /\ pc'[w] # "panic"
      /\ layer'[w] = layer[w] - 1 => (l <= layer'[w] => l < layer[w] /\ l <= layer[w])
  BY LevelOrder DEF TypeInv, TypeOK, Running
<1>1. ASSUME ToLink(w, l)', ~AddNode(w)
      PROVE  ToLink(w, l)
  <2>1. pc'[w] \in {"search"} \cup Linking
    BY <1>1 DEF ToLink
  <2>2. CASE (\E c \in Ids : Expand(w, c)) \/ Visit(w) \/ LinkNeighbor(w) \/ LinkSelf(w)
             \/ (CountNeighbor(w) /\ ~Advance(w))
    <3>1. layer'[w] = layer[w]
      BY <2>2 DEF Expand, Visit, LinkNeighbor, LinkSelf, CountNeighbor
    <3>2. pc[w] \in Linking \/ (pc[w] = "search" /\ pc'[w] = "search")
      BY <2>2, <1>0 DEF Expand, Visit, LinkNeighbor, LinkSelf, CountNeighbor, Linking, TypeInv, TypeOK
    <3>3. pc[w] \in Linking => pc'[w] \in Linking
      BY <2>2, <1>0 DEF Expand, Visit, LinkNeighbor, LinkSelf, CountNeighbor, Linking, TypeInv, TypeOK
    <3> QED
      BY <1>1, <3>1, <3>2, <3>3 DEF ToLink, Linking
  <2>3. CASE Descend(w)
    <3>1. layer'[w] = layer[w] - 1 /\ pc[w] = "search" /\ pc'[w] = "search"
      BY <2>3 DEF Descend, SearchOver, TypeInv, TypeOK
    <3> QED
      BY <1>0, <1>1, <3>1 DEF ToLink, Linking
  <2>4. CASE SelectNeighbors(w)
    <3>1. layer'[w] = layer[w] /\ pc[w] = "search" /\ pc'[w] = "link"
      BY <2>4 DEF SelectNeighbors, SearchOver, TypeInv, TypeOK
    <3> QED
      BY <1>0, <1>1, <3>1, LevelOrder DEF ToLink, Linking
  <2>5. CASE (CountNeighbor(w) \/ Prune(w)) /\ Advance(w)
    <3>1. pc[w] \in Linking
      BY <2>5 DEF CountNeighbor, Prune, Linking
    <3>2. \/ pc'[w] = "link" /\ layer'[w] = layer[w]
          \/ pc'[w] = "search" /\ layer'[w] = layer[w] - 1
      BY <2>1, <2>5, AdvanceCases DEF Linking
    <3> QED
      BY <1>0, <1>1, <3>1, <3>2 DEF ToLink, Linking
  <2>6. CASE Take(w) \/ ReadTotal(w) \/ LockFirst(w) \/ FirstInsert(w) \/ ReadEntryPoint(w)
             \/ ReadMaximumLayer(w) \/ CheckMaximumLayer(w) \/ PublishEntryPoint(w)
             \/ PublishMaximumLayer(w)
    BY <2>1, <2>6 DEF Take, ReadTotal, LockFirst, FirstInsert, ReadEntryPoint, ReadMaximumLayer,
         CheckMaximumLayer, PublishEntryPoint, PublishMaximumLayer, Linking, TypeInv, TypeOK
  <2> QED
    BY <1>1, <2>2, <2>3, <2>4, <2>5, <2>6 DEF Insert, Prune
<1>2. ToLink(w, l)' => node'[w] = node[w]
  BY StepNode DEF ToLink, Linking, TypeInv
<1>3. ASSUME ToLink(w, l), NEW v \in Ids
      PROVE  connections'[v][l] = connections[v][l]
  <2>1. ~ForgetsLists(w)
    BY <1>3 DEF ForgetsLists, ToLink, Linking
  <2>2. LinkNeighbor(w) \/ LinkSelf(w) \/ Prune(w) => l # layer[w]
    BY <1>0, <1>3, LevelOrder DEF ToLink, LinkNeighbor, LinkSelf, Prune, Linking
  <2> QED
    BY <2>1, <2>2, StepLists DEF Extends, Cuts
<1> QED
  BY <1>1, <1>2, <1>3

LEMMA StepUntouched ==
  ASSUME TypeInv, BornInv, UnbornUnlinked, NEW w \in Workers, Untouched(w),
         Take(w) \/ Insert(w), Running'
  PROVE  Untouched(w)'
<1> SUFFICES ASSUME NEW l \in Levels, ToLink(w, l)'
             PROVE  /\ connections'[node'[w]][l] = <<>>
                    /\ \A v \in Ids : node'[w] \notin Elements(connections'[v][l])
  BY DEF Untouched
<1>0. node[w] \in Ids /\ node'[w] = node[w]
  BY StepToLink DEF TypeInv, TypeOK
<1>1. CASE ToLink(w, l)
  BY <1>0, <1>1, StepToLink DEF Untouched
<1>2. CASE AddNode(w)
  <2>1. ~Born(node[w]) /\ UNCHANGED connections
    BY <1>2 DEF AddNode, Born, Unborn
  <2> QED
    BY <1>0, <2>1 DEF BornInv, BornOnly, UnbornUnlinked
<1> QED
  BY <1>1, <1>2, StepToLink

(* How w comes to be, or stays, at the linking of its vertex. *)
LEMMA StepLinking ==
  ASSUME TypeInv, NEW w \in Workers, Take(w) \/ Insert(w), pc'[w] \in Linking
  PROVE  /\ node'[w] = node[w] /\ layer'[w] = layer[w]
         /\ \/ /\ SelectNeighbors(w) /\ pc[w] = "search" /\ pc'[w] = "link"
               /\ idx'[w] = 1 /\ UNCHANGED connections
            \/ /\ UNCHANGED chosen
               /\ \/ /\ LinkNeighbor(w) /\ pc[w] = "link" /\ pc'[w] = "linkSelf"
                     /\ idx'[w] = idx[w]
                  \/ /\ LinkSelf(w) /\ pc[w] = "linkSelf" /\ pc'[w] = "count"
                     /\ idx'[w] = idx[w]
                  \/ /\ pc[w] = "count" /\ pc'[w] = "prune"
                     /\ idx'[w] = idx[w] /\ UNCHANGED connections
                  \/ /\ CountNeighbor(w) \/ Prune(w)
                     /\ pc[w] \in {"count", "prune"} /\ pc'[w] = "link"
                     /\ idx'[w] = idx[w] + 1 /\ idx[w] < Len(chosen[w][layer[w]])
<1>1. CASE SelectNeighbors(w)
  BY <1>1 DEF SelectNeighbors, SearchOver, graph, TypeInv, TypeOK
<1>2. CASE LinkNeighbor(w) \/ LinkSelf(w)
  BY <1>2 DEF LinkNeighbor, LinkSelf, Linking, TypeInv, TypeOK
<1>3. CASE CountNeighbor(w) /\ ~Advance(w)
  BY <1>3 DEF CountNeighbor, graph, TypeInv, TypeOK
<1>4. CASE (CountNeighbor(w) \/ Prune(w)) /\ Advance(w)
  <2>1. UNCHANGED <<chosen, node>> /\ pc[w] \in {"count", "prune"}
    BY <1>4 DEF CountNeighbor, Prune
  <2>2. /\ idx[w] < Len(chosen[w][layer[w]]) /\ idx'[w] = idx[w] + 1
        /\ pc'[w] = "link" /\ layer'[w] = layer[w]
    BY <1>4, AdvanceCases DEF Linking
  <2> QED
    BY <1>4, <2>1, <2>2
<1>5. CASE Take(w) \/ ReadTotal(w) \/ LockFirst(w) \/ FirstInsert(w) \/ ReadEntryPoint(w)
           \/ ReadMaximumLayer(w) \/ AddNode(w) \/ (\E c \in Ids : Expand(w, c)) \/ Visit(w)
           \/ Descend(w) \/ CheckMaximumLayer(w) \/ PublishEntryPoint(w)
           \/ PublishMaximumLayer(w)
  <2>1. pc'[w] \notin Linking
    BY <1>5, ZenonT(60) DEF Take, ReadTotal, LockFirst, FirstInsert, ReadEntryPoint, ReadMaximumLayer,
         AddNode, Expand, Visit, Descend, SearchOver,
         CheckMaximumLayer, PublishEntryPoint, PublishMaximumLayer, Linking, TypeInv, TypeOK
  <2> QED
    BY <2>1
<1> QED
  BY <1>1, <1>2, <1>3, <1>4, <1>5 DEF Insert, Prune

(* While w links, its neighbors are others, none of them twice. *)
LEMMA NeighborsApart ==
  ASSUME TypeInv, ChoicesInv, NEW w \in Workers, Path(w), pc[w] \in Linking
  PROVE  /\ idx[w] \in 1 .. Len(chosen[w][layer[w]]) /\ layer[w] \in Levels
         /\ Neighbor(w) # node[w] /\ Neighbor(w) \in Ids /\ node[w] \in Ids
         /\ levelOf[Neighbor(w)] >= layer[w] /\ levelOf[node[w]] >= layer[w]
         /\ chosen[w][layer[w]] \in Seq(Ids)
         /\ \A j \in 1 .. Len(chosen[w][layer[w]]) :
              /\ chosen[w][layer[w]][j] \in Ids \ {node[w]}
              /\ chosen[w][layer[w]][j] = Neighbor(w) => j = idx[w]
<1>1. /\ idx[w] \in 1 .. Len(chosen[w][layer[w]]) /\ layer[w] \in Levels
      /\ node[w] \in Ids /\ chosen[w][layer[w]] \in Seq(Ids)
  BY DEF TypeInv, TypeOK, Positions, Position
<1>2. \A l \in Levels : \A u \in Elements(chosen[w][l]) :
         levelOf[u] >= l /\ levelOf[node[w]] >= l /\ u # node[w]
  BY DEF Path, Choosing
<1>3. \A j \in 1 .. Len(chosen[w][layer[w]]) :
         chosen[w][layer[w]][j] \in Elements(chosen[w][layer[w]])
  BY DEF Elements
<1>4. \A i, j \in 1 .. Len(chosen[w][layer[w]]) :
         chosen[w][layer[w]][i] = chosen[w][layer[w]][j] => i = j
  BY <1>1 DEF ChoicesInv, Choices
<1>5. Neighbor(w) = chosen[w][layer[w]][idx[w]]
  BY DEF Neighbor
<1>6. \A j \in 1 .. Len(chosen[w][layer[w]]) : chosen[w][layer[w]][j] \in Ids
  BY <1>1
<1> QED
  BY <1>1, <1>2, <1>3, <1>4, <1>5, <1>6

LEMMA StepOwnList ==
  ASSUME TypeInv, ChoicesInv, NEW w \in Workers, Path(w), Untouched(w), OwnList(w),
         Take(w) \/ Insert(w)
  PROVE  OwnList(w)'
<1> SUFFICES ASSUME pc'[w] \in Linking
             PROVE  /\ Len(connections'[node[w]][layer[w]]) = Made(w)'
                    /\ \A j \in 1 .. Len(connections'[node[w]][layer[w]]) :
                         connections'[node[w]][layer[w]][j] = chosen'[w][layer[w]][j]
  BY StepLinking DEF OwnList
<1> DEFINE own == connections[node[w]][layer[w]]
           own1 == connections'[node[w]][layer[w]]
<1>0. own \in Seq(Ids) /\ idx[w] \in Nat /\ layer[w] \in Levels /\ node[w] \in Ids
  BY DEF TypeInv, TypeOK
<1>1. CASE SelectNeighbors(w) /\ pc[w] = "search" /\ pc'[w] = "link" /\ idx'[w] = 1
           /\ UNCHANGED connections
  <2>1. layer[w] <= layer[w]
    BY <1>0, LevelNumbers
  <2>2. own1 = <<>>
    BY <1>0, <1>1, <2>1 DEF Untouched, ToLink
  <2>3. Made(w)' = 0
    BY <1>1 DEF Made
  <2>4. Len(<<>>) = 0 /\ 1 .. 0 = {}
    OBVIOUS
  <2> HIDE DEF own1
  <2>5. Len(own1) = Made(w)' /\ \A j \in 1 .. Len(own1) : own1[j] = chosen'[w][layer[w]][j]
    BY <2>2, <2>3, <2>4
  <2> QED
    BY <2>5 DEF own1
<1>2. ASSUME pc[w] \in Linking, UNCHANGED chosen, own1 = own, Made(w)' = Made(w)
      PROVE  /\ Len(own1) = Made(w)'
             /\ \A j \in 1 .. Len(own1) : own1[j] = chosen'[w][layer[w]][j]
  BY <1>2 DEF OwnList
<1>3. CASE LinkNeighbor(w) /\ pc[w] = "link" /\ pc'[w] = "linkSelf" /\ idx'[w] = idx[w]
           /\ UNCHANGED chosen
  <2>1. Neighbor(w) # node[w]
    BY <1>3, NeighborsApart DEF Linking
  <2>2. own1 = own
    BY <1>0, <1>3, <2>1, StepLists DEF Extends, ForgetsLists, LinkSelf, Prune
  <2>3. Made(w)' = Made(w)
    BY <1>3 DEF Made
  <2> QED
    BY <1>2, <1>3, <2>2, <2>3 DEF Linking
<1>4. CASE LinkSelf(w) /\ pc[w] = "linkSelf" /\ pc'[w] = "count" /\ idx'[w] = idx[w]
           /\ UNCHANGED chosen
  <2>1. own1 = Append(own, Neighbor(w))
    BY <1>0, <1>4, StepLists DEF Extends, ForgetsLists, LinkNeighbor, Prune
  <2>2. Len(own) = idx[w] - 1 /\ \A j \in 1 .. Len(own) : own[j] = chosen[w][layer[w]][j]
    BY <1>4 DEF OwnList, Made, Linking
  <2>3. Made(w)' = idx[w] /\ Neighbor(w) = chosen[w][layer[w]][idx[w]] /\ Neighbor(w) \in Ids
    BY <1>4, NeighborType DEF Made, Neighbor, Linking
  <2>4. /\ Len(Append(own, Neighbor(w))) = Len(own) + 1
        /\ Append(own, Neighbor(w))[Len(own) + 1] = Neighbor(w)
        /\ \A j \in 1 .. Len(own) : Append(own, Neighbor(w))[j] = own[j]
    <3> HIDE DEF own
    <3> QED
      BY <1>0, <2>3
  <2>5. Len(own) \in Nat
    BY <1>0
  <2> HIDE DEF own, own1
  <2>6. /\ Len(own1) = idx[w]
        /\ \A j \in 1 .. Len(own1) : own1[j] = chosen[w][layer[w]][j]
    <3>1. Len(own1) = idx[w] /\ Len(own) + 1 = idx[w]
      BY <1>0, <2>1, <2>2, <2>4, <2>5
    <3>2. ASSUME NEW j \in 1 .. Len(own1)
          PROVE  own1[j] = chosen[w][layer[w]][j]
      <4>1. j = idx[w] \/ j \in 1 .. Len(own)
        BY <1>0, <3>1, <2>5
      <4> QED
        BY <2>1, <2>2, <2>3, <2>4, <3>1, <4>1
    <3> QED
      BY <3>1, <3>2
  <2> QED
    BY <1>4, <2>3, <2>6 DEF own1
<1>5. CASE pc[w] = "count" /\ pc'[w] = "prune" /\ idx'[w] = idx[w]
           /\ UNCHANGED <<connections, chosen>>
  BY <1>2, <1>5 DEF Made, Linking
<1>6. CASE /\ CountNeighbor(w) \/ Prune(w)
           /\ pc[w] \in {"count", "prune"} /\ pc'[w] = "link"
           /\ idx'[w] = idx[w] + 1 /\ UNCHANGED chosen
  <2>1. Neighbor(w) # node[w]
    BY <1>6, NeighborsApart DEF Linking
  <2>2. own1 = own
    <3>1. CASE CountNeighbor(w)
      BY <3>1 DEF CountNeighbor, graph
    <3>2. CASE Prune(w)
      BY <1>0, <3>2, <2>1, StepLists DEF Cuts, ForgetsLists, LinkSelf, LinkNeighbor, Prune
    <3> QED
      BY <1>6, <3>1, <3>2
  <2>3. Made(w)' = Made(w)
    <3>1. (idx[w] + 1) - 1 = idx[w]
      BY <1>0
    <3>2. Made(w)' = idx'[w] - 1
      BY <1>6 DEF Made
    <3>3. Made(w) = idx[w]
      BY <1>6 DEF Made
    <3>4. idx'[w] = idx[w] + 1
      BY <1>6
    <3> QED
      BY <3>1, <3>2, <3>3, <3>4
  <2> QED
    BY <1>2, <1>6, <2>2, <2>3 DEF Linking
<1> QED
  BY <1>1, <1>3, <1>4, <1>5, <1>6, StepLinking

(* What a step does to the list of a neighbor other than the current one. *)
LEMMA OtherListStays ==
  ASSUME TypeInv, NEW w \in Workers, Take(w) \/ Insert(w), pc[w] \in Linking,
         NEW v \in Ids, v # node[w], v # Neighbor(w), NEW l \in Levels
  PROVE  connections'[v][l] = connections[v][l]
<1>1. ~ForgetsLists(w)
  BY DEF ForgetsLists, Linking
<1> QED
  BY <1>1, StepLists DEF Extends, Cuts

LEMMA StepOtherLists ==
  ASSUME TypeInv, TypeInv', ChoicesInv, NEW w \in Workers, Path(w), Untouched(w),
         OtherLists(w), Take(w) \/ Insert(w)
  PROVE  OtherLists(w)'
<1> SUFFICES ASSUME pc'[w] \in Linking, NEW j \in 1 .. Len(chosen'[w][layer[w]]),
                    NotYet(w, j)'
             PROVE  node[w] \notin Elements(connections'[chosen'[w][layer[w]][j]][layer[w]])
  BY StepLinking DEF OtherLists
<1> DEFINE v == chosen'[w][layer[w]][j]
<1>0. layer[w] \in Levels /\ j \in Nat /\ idx[w] \in Nat /\ v \in Ids
  <2>1. chosen'[w][layer[w]] \in Seq(Ids) /\ layer[w] \in Levels /\ idx[w] \in Nat
    BY DEF TypeInv, TypeOK
  <2> QED
    BY <2>1
<1>1. CASE SelectNeighbors(w) /\ pc[w] = "search" /\ UNCHANGED connections
  <2>1. layer[w] <= layer[w]
    BY <1>0, LevelNumbers
  <2> QED
    BY <1>0, <1>1, <2>1 DEF Untouched, ToLink
<1>2. CASE UNCHANGED chosen /\ pc[w] \in Linking
  <2>1. j > idx[w]
    <3>1. \/ idx'[w] = idx[w] /\ pc'[w] # "link"
          \/ idx'[w] = idx[w] + 1
      BY <1>2, StepLinking DEF Linking
    <3>2. j > idx'[w] \/ (j = idx'[w] /\ pc'[w] = "link")
      BY DEF NotYet
    <3> HIDE DEF v
    <3> QED
      BY <1>0, <3>1, <3>2
  <2>2. NotYet(w, j) /\ j # idx[w]
    BY <1>0, <2>1 DEF NotYet
  <2>3. v = chosen[w][layer[w]][j] /\ j \in 1 .. Len(chosen[w][layer[w]])
    BY <1>2
  <2>4. v # node[w] /\ v # Neighbor(w)
    BY <1>2, <2>2, <2>3, NeighborsApart
  <2>5. connections'[v][layer[w]] = connections[v][layer[w]]
    BY <1>0, <1>2, <2>4, OtherListStays
  <2>6. node[w] \notin Elements(connections[v][layer[w]])
    BY <1>2, <2>2, <2>3 DEF OtherLists
  <2> QED
    BY <2>5, <2>6
<1>3. (SelectNeighbors(w) /\ pc[w] = "search" /\ UNCHANGED connections)
      \/ (UNCHANGED chosen /\ pc[w] \in Linking)
  BY StepLinking DEF Linking
<1> QED
  BY <1>1, <1>2, <1>3

(* A list without repetitions has none either when something new is added.   *)
LEMMA OnceAppended ==
  ASSUME NEW s \in Seq(Ids), NEW x \in Ids, x \notin Elements(s),
         \A i, j \in 1 .. Len(s) : s[i] = s[j] => i = j
  PROVE  \A i, j \in 1 .. Len(Append(s, x)) : Append(s, x)[i] = Append(s, x)[j] => i = j
<1>1. /\ Len(s) \in Nat /\ Len(Append(s, x)) = Len(s) + 1
      /\ Append(s, x)[Len(s) + 1] = x
      /\ \A i \in 1 .. Len(s) : Append(s, x)[i] = s[i] /\ s[i] # x
  BY DEF Elements
<1> DEFINE t == Append(s, x)
<1> HIDE DEF t
<1> SUFFICES ASSUME NEW i \in 1 .. Len(t), NEW j \in 1 .. Len(t), t[i] = t[j]
             PROVE  i = j
  BY DEF t
<1>2. i \in 1 .. Len(s) \/ i = Len(s) + 1
  BY <1>1 DEF t
<1>3. j \in 1 .. Len(s) \/ j = Len(s) + 1
  BY <1>1 DEF t
<1> QED
  BY <1>1, <1>2, <1>3 DEF t

LEMMA StepProper ==
  ASSUME TypeInv, Publication, ChoicesInv, BornInv, UnbornUnlinked, Proper,
         NEW w \in Workers, Path(w), OwnList(w), OtherLists(w), Take(w) \/ Insert(w), Running'
  PROVE  Proper'
<1> SUFFICES ASSUME NEW v \in Ids, NEW l \in Levels
             PROVE  ProperList(v, l)'
  BY DEF Proper
<1> DEFINE list == connections[v][l]
           list1 == connections'[v][l]
<1>0. list \in Seq(Ids) /\ ProperList(v, l) /\ node[w] \in Ids /\ layer[w] \in Levels
  BY DEF TypeInv, TypeOK, Proper
<1>9. \A i, j \in 1 .. Len(list) : list[i] = list[j] => i = j
  BY <1>0 DEF ProperList
<1>1. CASE list1 = list
  <2>1. ASSUME NEW u \in Elements(list)
        PROVE  levelOf'[u] = levelOf[u] /\ levelOf'[v] = levelOf[v]
    <3>1. u \in Ids /\ Born(u)
      BY <1>0, <2>1, ElementsOf DEF BornInv, BornOnly
    <3>2. Born(v)
      <4>1. list # <<>>
        BY <2>1 DEF Elements
      <4> QED
        BY <4>1 DEF UnbornUnlinked
    <3>3. pc[w] \in {"table", "max"} => u # node[w] /\ v # node[w]
      BY <3>1, <3>2 DEF Born, Unborn
    <3> QED
      BY <3>1, <3>3, StepLevels
  <2> QED
    BY <1>0, <1>1, <2>1 DEF ProperList
<1>2. CASE pc[w] \in Linking
  <2>1. \A u \in Ids : levelOf'[u] = levelOf[u]
    BY <1>2, StepLevels DEF Linking
  <2>2. CASE LinkNeighbor(w) /\ v = Neighbor(w) /\ l = layer[w] /\ list1 = Append(list, node[w])
    <3>1. node[w] \notin Elements(list)
      <4>1. /\ idx[w] \in 1 .. Len(chosen[w][layer[w]]) /\ NotYet(w, idx[w])
            /\ chosen[w][layer[w]][idx[w]] = v
        BY <1>2, <2>2, NeighborsApart DEF NotYet, LinkNeighbor, Neighbor
      <4> QED
        BY <1>2, <2>2, <4>1, SMTT(60) DEF OtherLists
    <3>2. /\ levelOf[node[w]] >= l /\ levelOf[v] >= l /\ node[w] # v
      BY <1>2, <2>2, NeighborsApart
    <3>3. Elements(list1) = Elements(list) \cup {node[w]} /\ Elements(list) \subseteq Ids
      BY <1>0, <2>2, ElementsOf
    <3>4. \A i, j \in 1 .. Len(list1) : list1[i] = list1[j] => i = j
      <4> HIDE DEF list, list1
      <4> QED
        BY <1>0, <1>9, <2>2, <3>1, OnceAppended
    <3> HIDE DEF list, list1
    <3>5. /\ v \notin Elements(list1)
          /\ \A u \in Elements(list1) : levelOf'[u] >= l /\ levelOf'[v] >= l
      <4>1. /\ v \notin Elements(list)
            /\ \A u \in Elements(list) : levelOf[u] >= l /\ levelOf[v] >= l
        BY <1>0 DEF ProperList, list
      <4> QED
        BY <1>0, <2>1, <3>2, <3>3, <4>1
    <3> QED
      BY <3>4, <3>5 DEF ProperList, list1
  <2>3. CASE LinkSelf(w) /\ v = node[w] /\ l = layer[w] /\ list1 = Append(list, Neighbor(w))
    <3>1. Neighbor(w) \notin Elements(list)
      <4>1. /\ Len(list) = idx[w] - 1
            /\ \A j \in 1 .. Len(list) : list[j] = chosen[w][layer[w]][j]
        BY <1>2, <2>3 DEF OwnList, Made, LinkSelf
      <4>2. /\ idx[w] \in 1 .. Len(chosen[w][layer[w]])
            /\ \A j \in 1 .. Len(chosen[w][layer[w]]) :
                 chosen[w][layer[w]][j] = Neighbor(w) => j = idx[w]
            /\ Len(chosen[w][layer[w]]) \in Nat
        BY <1>2, NeighborsApart
      <4>3. \A j \in 1 .. Len(list) : j \in 1 .. Len(chosen[w][layer[w]]) /\ j # idx[w]
        <5> HIDE DEF list
        <5> QED
          BY <4>1, <4>2
      <4> QED
        BY <4>1, <4>2, <4>3 DEF Elements
    <3>2. /\ levelOf[Neighbor(w)] >= l /\ levelOf[v] >= l /\ Neighbor(w) # v /\ Neighbor(w) \in Ids
      BY <1>2, <2>3, NeighborsApart
    <3>3. Elements(list1) = Elements(list) \cup {Neighbor(w)} /\ Elements(list) \subseteq Ids
      BY <1>0, <2>3, <3>2, ElementsOf
    <3>4. \A i, j \in 1 .. Len(list1) : list1[i] = list1[j] => i = j
      <4> HIDE DEF list, list1
      <4> QED
        BY <1>0, <1>9, <2>3, <3>1, <3>2, OnceAppended
    <3> HIDE DEF list, list1
    <3>5. /\ v \notin Elements(list1)
          /\ \A u \in Elements(list1) : levelOf'[u] >= l /\ levelOf'[v] >= l
      <4>1. /\ v \notin Elements(list)
            /\ \A u \in Elements(list) : levelOf[u] >= l /\ levelOf[v] >= l
        BY <1>0 DEF ProperList, list
      <4> QED
        BY <1>0, <2>1, <3>2, <3>3, <4>1
    <3> QED
      BY <3>4, <3>5 DEF ProperList, list1
  <2>4. CASE Prune(w) /\ v = Neighbor(w) /\ l = layer[w]
    <3>1. PICK s \in Nearest(Elements(snapshot[w]), DistTo(w), Limit(layer[w])) :
                 connections' = [connections EXCEPT ![Neighbor(w)][layer[w]] = s]
      BY <2>4 DEF Prune
    <3>2. snapshot[w] = list
      BY <2>4 DEF Prune, Path
    <3>3. /\ Elements(list) \subseteq Ids /\ Limit(l) \in Nat /\ Limit(l) > 0
      BY <1>0, ElementsOf, LimitType
    <3>4. /\ Elements(s) \subseteq Elements(list)
          /\ \A i, j \in 1 .. Len(s) : s[i] = s[j] => i = j
      <4> HIDE DEF list
      <4> QED
        BY <2>4, <3>1, <3>2, <3>3, NearestList, NearestOnce
    <3>5. list1 = s
      BY <2>4, <3>1, <1>0 DEF TypeInv, TypeOK
    <3> HIDE DEF list, list1
    <3>6. /\ v \notin Elements(list1)
          /\ \A u \in Elements(list1) : levelOf'[u] >= l /\ levelOf'[v] >= l
      <4>1. /\ v \notin Elements(list)
            /\ \A u \in Elements(list) : levelOf[u] >= l /\ levelOf[v] >= l
        BY <1>0 DEF ProperList, list
      <4> QED
        BY <2>1, <3>3, <3>4, <3>5, <4>1
    <3> QED
      BY <3>4, <3>5, <3>6 DEF ProperList, list1
  <2>5. CASE list1 # list
    <3>1. ~ForgetsLists(w)
      BY <1>2 DEF ForgetsLists, Linking
    <3>2. \/ LinkNeighbor(w) /\ Extends(Neighbor(w), layer[w], node[w])
          \/ LinkSelf(w) /\ Extends(node[w], layer[w], Neighbor(w))
          \/ Prune(w) /\ \E s : Cuts(Neighbor(w), layer[w], s)
      BY <2>5, <3>1, StepLists
    <3>3. CASE LinkNeighbor(w) /\ Extends(Neighbor(w), layer[w], node[w])
      BY <2>2, <2>5, <3>3 DEF Extends
    <3>4. CASE LinkSelf(w) /\ Extends(node[w], layer[w], Neighbor(w))
      BY <2>3, <2>5, <3>4 DEF Extends
    <3>5. CASE Prune(w) /\ \E s : Cuts(Neighbor(w), layer[w], s)
      BY <2>4, <2>5, <3>5 DEF Cuts
    <3> QED
      BY <3>2, <3>3, <3>4, <3>5
  <2> QED
    BY <1>1, <2>5
<1>3. CASE pc[w] \notin Linking
  <2>1. CASE ForgetsLists(w)
    BY <1>1, <2>1, ForgetsNothing
  <2>2. CASE UNCHANGED connections
    BY <1>1, <2>2
  <2> QED
    BY <1>3, <2>1, <2>2, StepLists DEF LinkNeighbor, LinkSelf, Prune, Linking
<1> QED
  BY <1>2, <1>3

LEMMA StepWithin ==
  ASSUME OneWorker, TypeInv, TypeInv', ChoicesInv, FewChosen, Within,
         NEW w \in Workers, Path(w), OwnList(w), UnbornUnlinked, Take(w) \/ Insert(w), Running'
  PROVE  Within'
<1> SUFFICES ASSUME NEW v \in Ids, NEW l \in Levels,
                    ~(/\ pc'[w] \in {"linkSelf", "count", "prune"}
                      /\ v = Neighbor(w)' /\ l = layer'[w])
             PROVE  Len(connections'[v][l]) <= Limit(l)
  BY DEF OneWorker, Within
<1> DEFINE pruner == /\ pc[w] \in {"linkSelf", "count", "prune"}
                     /\ v = Neighbor(w) /\ l = layer[w]
<1>0. /\ Len(connections[v][l]) <= Limit(l) \/ pruner
      /\ layer[w] \in Levels /\ node[w] \in Ids
  <2>1. PICK x \in Workers : \/ Len(connections[v][l]) <= Limit(l)
                             \/ /\ pc[x] \in {"linkSelf", "count", "prune"}
                                /\ v = Neighbor(x) /\ l = layer[x]
    BY DEF Within
  <2>2. x = w
    BY DEF OneWorker
  <2>3. layer[w] \in Levels /\ node[w] \in Ids
    BY DEF TypeInv, TypeOK
  <2> QED
    BY <2>1, <2>2, <2>3
<1>1. CASE pruner
  BY <1>1, StepChecked
<1>2. CASE ~pruner /\ connections'[v][l] = connections[v][l]
  BY <1>0, <1>2
<1>3. CASE ~pruner /\ connections'[v][l] # connections[v][l]
  <2>1. ~ForgetsLists(w)
    BY <1>3, ForgetsNothing
  <2>2. CASE LinkNeighbor(w) /\ pc'[w] = "linkSelf" /\ Extends(Neighbor(w), layer[w], node[w])
    <3>1. v = Neighbor(w) /\ l = layer[w]
      BY <1>3, <2>2, SMTT(60) DEF Extends
    <3>2. Neighbor(w)' = Neighbor(w) /\ layer'[w] = layer[w]
      BY <2>2 DEF LinkNeighbor, search, Neighbor
    <3> QED
      BY <2>2, <3>1, <3>2
  <2>3. CASE LinkSelf(w) /\ Extends(node[w], layer[w], Neighbor(w))
    <3>1. v = node[w] /\ l = layer[w] /\ connections'[v][l] = Append(connections[v][l], Neighbor(w))
      BY <1>3, <2>3 DEF Extends
    <3>2. pc[w] \in Linking /\ pc[w] = "linkSelf"
      BY <2>3 DEF LinkSelf, Linking
    <3>3. /\ connections[v][l] \in Seq(Ids) /\ Neighbor(w) \in Ids
          /\ idx[w] \in 1 .. Len(chosen[w][l])
          /\ chosen[w][l] \in Seq(Ids)
      <4>1. connections[v][l] \in Seq(Ids)
        BY ListType DEF TypeInv
      <4> QED
        BY <3>1, <3>2, <4>1, NeighborsApart
    <3>4. Len(connections'[v][l]) = Len(connections[v][l]) + 1
      BY <3>1, <3>3
    <3>5. Len(connections[v][l]) = idx[w] - 1
      BY <3>1, <3>2 DEF OwnList, Made
    <3>6. Len(chosen[w][l]) <= maximumConnections
      BY DEF FewChosen
    <3>7. maximumConnections <= Limit(l) /\ maximumConnections \in Nat /\ Limit(l) \in Nat
      BY LimitAssumption DEF Limit
    <3>8. Len(connections'[v][l]) = idx[w] /\ Len(chosen[w][l]) \in Nat
      BY <3>3, <3>4, <3>5
    <3> QED
      BY <3>3, <3>6, <3>7, <3>8
  <2>4. CASE Prune(w) /\ \E s : IsPruned(w, s) /\ Cuts(Neighbor(w), layer[w], s)
    <3>1. v = Neighbor(w) /\ l = layer[w]
      BY <1>3, <2>4 DEF Cuts
    <3> QED
      BY <1>3, <2>4, <3>1 DEF Prune
  <2> QED
    BY <1>3, <2>1, <2>2, <2>3, <2>4, StepLists
<1> QED
  BY <1>1, <1>2, <1>3

-------------------------------------------------------------------------------
(* Distinct vectors: each is nearer to itself than any other is. *)
Distinct == \A a, b \in Ids : a # b => Dist[a][a] < Dist[a][b]

(* Of any ids with a nearest one, that one is kept. *)
LEMMA NearestKeeps ==
  ASSUME NEW S, S \subseteq Ids, NEW d \in [Ids -> Nat], NEW n \in Nat, n > 0,
         NEW s \in Nearest(S, d, n), NEW x \in S, \A y \in S \ {x} : d[x] < d[y]
  PROVE  x \in Elements(s)
<1>1. Len(s) > 0 /\ s \in Seq(Ids) /\ Elements(s) \subseteq S
  BY NearestList
<1>2. PICK m \in Nat : /\ s \in [1 .. m -> S]
                       /\ \A i \in 1 .. m : \A y \in S :
                            d[y] < d[s[i]] => \E j \in 1 .. m : s[j] = y
  <2>1. IsFiniteSet(S) /\ Cardinality(S) \in Nat
    BY IdsFinite
  <2>2. PICK m \in Nat : m = (IF Cardinality(S) < n THEN Cardinality(S) ELSE n)
    BY <2>1
  <2> QED
    BY <2>2 DEF Nearest
<1>3. Len(s) = m /\ 1 \in 1 .. m
  BY <1>1, <1>2
<1>4. s[1] \in S
  BY <1>2, <1>3
<1>5. CASE s[1] = x
  BY <1>3, <1>5 DEF Elements
<1>6. CASE s[1] # x
  <2>1. d[x] < d[s[1]]
    BY <1>4, <1>6
  <2>2. PICK j \in 1 .. m : s[j] = x
    BY <1>2, <1>3, <2>1
  <2> QED
    BY <1>3, <2>2 DEF Elements
<1> QED
  BY <1>5, <1>6

(* Every neighbor w has linked its vertex to still has the link. *)
LEMMA StepFound ==
  ASSUME Distinct, TypeInv, TypeInv', ChoicesInv, ChoicesInv', NEW w \in Workers, Path(w),
         Found(w), Take(w) \/ Insert(w), Running'
  PROVE  Found(w)'
<1> SUFFICES ASSUME pc'[w] \in Choosing, NEW l \in Levels, NEW j \in 1 .. Len(chosen'[w][l]),
                    pc'[w] \in Linking /\ l = layer'[w] => ~NotYet(w, j)'
             PROVE  node'[w] \in Elements(connections'[chosen'[w][l][j]][l])
  BY DEF Found
<1> DEFINE v == chosen[w][l][j]
<1>0. layer[w] \in Levels /\ j \in Nat /\ idx[w] \in Nat /\ node[w] \in Ids
  BY DEF TypeInv, TypeOK
(* Either it was linked before, or it is now. *)
<1>1. /\ node'[w] = node[w] /\ chosen'[w][l] = chosen[w][l] /\ pc[w] \in Choosing
      /\ \/ pc[w] \in Linking /\ l = layer[w] => ~NotYet(w, j)
         \/ LinkNeighbor(w) /\ l = layer[w] /\ j = idx[w]
  <2>1. CASE pc'[w] \in Linking
    <3>1. node'[w] = node[w] /\ layer'[w] = layer[w]
      BY <2>1, StepLinking
    <3>2. CASE SelectNeighbors(w) /\ pc[w] = "search" /\ pc'[w] = "link" /\ idx'[w] = 1
      <4>1. PICK s \in Nearest(results[w], DistTo(w), maximumConnections) :
                   chosen' = [chosen EXCEPT ![w][layer[w]] = s]
        BY <3>2 DEF SelectNeighbors
      <4>2. l # layer[w]
        <5>1. NotYet(w, j)'
          BY <1>0, <3>2 DEF NotYet
        <5> QED
          BY <2>1, <3>1, <5>1
      <4>3. chosen'[w][l] = chosen[w][l]
        BY <4>1, <4>2 DEF TypeInv, TypeOK
      <4> QED
        BY <3>1, <3>2, <4>2, <4>3 DEF Choosing
    <3>3. CASE UNCHANGED chosen /\ pc[w] \in Linking
      <4>1. ASSUME l = layer[w]
            PROVE  ~NotYet(w, j) \/ (LinkNeighbor(w) /\ j = idx[w])
        <5>1. ~(j > idx'[w]) /\ ~(j = idx'[w] /\ pc'[w] = "link")
          BY <2>1, <3>1, <4>1 DEF NotYet
        <5>2. \/ idx'[w] = idx[w] /\ LinkNeighbor(w)
              \/ idx'[w] = idx[w] /\ pc[w] # "link"
              \/ idx'[w] = idx[w] + 1 /\ pc[w] # "link" /\ pc'[w] = "link"
          BY <2>1, <3>3, StepLinking DEF Linking
        <5>3. ~(j > idx[w])
          BY <1>0, <5>1, <5>2
        <5> QED
          BY <5>1, <5>2, <5>3 DEF NotYet
      <4> QED
        BY <3>1, <3>3, <4>1 DEF Choosing
    <3> QED
      BY <2>1, <3>2, <3>3, StepLinking DEF Linking
  <2>2. CASE pc'[w] \notin Linking
    <3>1. pc'[w] \in {"search", "raise"}
      BY <2>2 DEF Choosing
    <3>2. CASE AddNode(w)
      <4>1. chosen'[w][l] = <<>>
        BY <3>2 DEF AddNode, ChoicesInv, Choices, Unborn
      <4>2. j \in 1 .. Len(<<>>)
        BY <4>1
      <4> QED
        BY <4>2
    <3>3. CASE (\E c \in Ids : Expand(w, c)) \/ Visit(w) \/ Descend(w)
      <4>1. pc[w] = "search" /\ UNCHANGED <<node, chosen>>
        BY <3>3 DEF Expand, Visit, Descend, SearchOver
      <4> QED
        BY <4>1 DEF Choosing, Linking
    <3>4. CASE (CountNeighbor(w) \/ Prune(w)) /\ Advance(w)
      <4>1. pc[w] \in {"count", "prune"} /\ UNCHANGED <<node, chosen>>
        BY <3>4 DEF CountNeighbor, Prune
      <4>2. idx[w] >= Len(chosen[w][layer[w]])
        BY <2>2, <3>4, AdvanceCases DEF Linking
      <4>3. Len(chosen[w][l]) \in Nat
        BY DEF TypeInv, TypeOK
      <4>4. l = layer[w] => ~(j > idx[w])
        BY <1>0, <4>1, <4>2, <4>3
      <4>5. l = layer[w] => ~NotYet(w, j)
        BY <4>1, <4>4 DEF NotYet
      <4> QED
        BY <4>1, <4>5 DEF Choosing, Linking
    <3>5. CASE Take(w) \/ ReadTotal(w) \/ LockFirst(w) \/ FirstInsert(w) \/ ReadEntryPoint(w)
               \/ ReadMaximumLayer(w) \/ SelectNeighbors(w) \/ LinkNeighbor(w) \/ LinkSelf(w)
               \/ (CountNeighbor(w) /\ ~Advance(w)) \/ CheckMaximumLayer(w)
               \/ PublishEntryPoint(w) \/ PublishMaximumLayer(w)
      <4>1. pc'[w] \notin {"search", "raise"}
        BY <3>5
           DEF Take, ReadTotal, LockFirst, FirstInsert, ReadEntryPoint, ReadMaximumLayer,
               SelectNeighbors, LinkNeighbor, LinkSelf, CountNeighbor, CheckMaximumLayer,
               PublishEntryPoint, PublishMaximumLayer, TypeInv, TypeOK
      <4> QED
        BY <3>1, <4>1
    <3> QED
      BY <3>2, <3>3, <3>4, <3>5 DEF Insert, Prune
  <2> QED
    BY <2>1, <2>2
<1>2. v \in Elements(chosen[w][l]) /\ v \in Ids /\ j \in 1 .. Len(chosen[w][l])
  <2>1. j \in 1 .. Len(chosen[w][l]) /\ chosen[w][l] \in Seq(Ids)
    BY <1>1 DEF TypeInv, TypeOK
  <2> QED
    BY <2>1 DEF Elements
<1>7. (pc[w] \in Linking /\ l = layer[w] => ~NotYet(w, j)) => node[w] \in Elements(connections[v][l])
  BY <1>1, <1>2 DEF Found
<1>8. j = idx[w] /\ l = layer[w] => v = Neighbor(w)
  BY DEF Neighbor
<1>9. SUFFICES node[w] \in Elements(connections'[v][l])
  BY <1>1
<1> HIDE DEF v
<1>3. ~ForgetsLists(w)
  BY <1>1 DEF ForgetsLists, Choosing, Linking
<1>4. \A x \in Ids, m \in Levels, y \in Ids :
        Elements(Append(connections[x][m], y)) = Elements(connections[x][m]) \cup {y}
  BY ListType, ElementsOf DEF TypeInv
<1>5. CASE LinkNeighbor(w) /\ l = layer[w] /\ j = idx[w]
  <2>1. v = Neighbor(w) /\ Neighbor(w) \in Ids
    BY <1>2, <1>5, <1>8
  <2>2. Extends(Neighbor(w), layer[w], node[w])
    <3>1. pc'[w] # "panic" /\ pc[w] = "link"
      BY <1>5 DEF Running, LinkNeighbor
    <3>2. Neighbor(w) \in nodes
      BY <1>5, <3>1 DEF LinkNeighbor, TypeInv, TypeOK
    <3>3. connections' = [connections EXCEPT ![Neighbor(w)][layer[w]] = Append(@, node[w])]
      BY <1>5, <3>2 DEF LinkNeighbor
    <3> QED
      BY <1>0, <2>1, <3>3, AppendLink DEF Extends, TypeInv
  <2> QED
    <3>1. connections'[v][l] = Append(connections[v][l], node[w])
      BY <1>0, <1>5, <2>1, <2>2 DEF Extends
    <3>2. PICK y \in Ids : y = node[w]
      BY <1>0
    <3>3. Elements(Append(connections[v][l], y)) = Elements(connections[v][l]) \cup {y}
      BY <1>2, <1>4
    <3> QED
      BY <3>1, <3>2, <3>3
<1>6. CASE pc[w] \in Linking /\ l = layer[w] => ~NotYet(w, j)
  <2>1. node[w] \in Elements(connections[v][l])
    BY <1>6, <1>7
  <2>2. CASE Prune(w) /\ v = Neighbor(w) /\ l = layer[w]
    <3>1. PICK s \in Nearest(Elements(snapshot[w]), DistTo(w), Limit(layer[w])) :
                 connections' = [connections EXCEPT ![Neighbor(w)][layer[w]] = s]
      BY <2>2 DEF Prune
    <3>2. /\ snapshot[w] = connections[v][l]
          /\ Elements(snapshot[w]) \subseteq Ids /\ Limit(layer[w]) \in Nat /\ Limit(layer[w]) > 0
      BY <1>2, <2>2, ListType, LimitType DEF Path, Prune, TypeInv
    <3>3. /\ DistTo(w) \in [Ids -> Nat]
          /\ \A y \in Elements(snapshot[w]) \ {node[w]} : DistTo(w)[node[w]] < DistTo(w)[y]
      BY <1>0, <3>2, DistAssumption DEF DistTo, Distinct
    <3>4. node[w] \in Elements(s)
      BY <2>1, <3>1, <3>2, <3>3, NearestKeeps
    <3>5. connections'[v][l] = s
      BY <1>2, <2>2, <3>1 DEF TypeInv, TypeOK
    <3> QED
      BY <3>4, <3>5
  <2>3. CASE connections'[v][l] = connections[v][l]
    BY <2>1, <2>3
  <2>4. CASE \E y \in Ids : connections'[v][l] = Append(connections[v][l], y)
    <3>1. PICK y \in Ids : connections'[v][l] = Append(connections[v][l], y)
      BY <2>4
    <3>2. Elements(Append(connections[v][l], y)) = Elements(connections[v][l]) \cup {y}
      BY <1>2, <1>4
    <3> QED
      BY <2>1, <3>1, <3>2
  <2>5. LinkSelf(w) => Neighbor(w) \in Ids
    BY NeighborType DEF LinkSelf, Linking
  <2>6. CASE Prune(w)
    <3>1. (v = Neighbor(w) /\ l = layer[w]) \/ connections'[v][l] = connections[v][l]
      <4>1. ~LinkSelf(w) /\ ~LinkNeighbor(w)
        BY <2>6 DEF Prune, LinkSelf, LinkNeighbor
      <4> QED
        BY <1>2, <1>3, <4>1, StepLists DEF Cuts
    <3> QED
      BY <2>2, <2>3, <2>6, <3>1
  <2>7. CASE ~Prune(w)
    <3>1. \/ connections'[v][l] = connections[v][l]
          \/ \E y \in Ids : connections'[v][l] = Append(connections[v][l], y)
      BY <1>0, <1>2, <1>3, <2>5, <2>7, StepLists DEF Extends
    <3> QED
      BY <2>3, <2>4, <3>1
  <2> QED
    BY <2>6, <2>7
<1> QED
  BY <1>1, <1>5, <1>6

-------------------------------------------------------------------------------
(* The invariant of one worker's insertions. *)
LinkInv ==
  /\ Proper /\ Within
  /\ \A w \in Workers : Path(w) /\ Untouched(w) /\ OwnList(w) /\ OtherLists(w)

LEMMA InitLinks == Init => LinkInv /\ \A w \in Workers : Found(w)
<1>1. Len(<<>>) = 0 /\ 1 .. 0 = {} /\ \A l \in Levels : Limit(l) >= 0
  BY LimitType
<1>2. Elements(<<>>) = {}
  BY DEF Elements
<1>3. Init => \A v \in Ids, l \in Levels : connections[v][l] = <<>>
  BY UnlinkedType DEF Init
<1>4. Init => \A w \in Workers : pc[w] = "idle" /\ todo[w] = <<>>
  BY DEF Init
<1>5. Init => Proper /\ Within
  BY <1>1, <1>2, <1>3 DEF Proper, ProperList, Within
<1>6. Init => \A w \in Workers : Path(w) /\ Untouched(w) /\ OwnList(w) /\ OtherLists(w) /\ Found(w)
  BY <1>4 DEF Path, Untouched, ToLink, OwnList, OtherLists, Found, Linking, Choosing
<1> QED
  BY <1>5, <1>6 DEF LinkInv

LEMMA StepLinkInv ==
  ASSUME OneWorker, TypeInv, TypeInv', Publication, ChoicesInv, BornInv, UnbornUnlinked,
         FewChosen, LinkInv, NEW w \in Workers, Take(w) \/ Insert(w), Running'
  PROVE  LinkInv'
<1>1. Proper'
  BY StepProper DEF LinkInv
<1>2. Within'
  BY StepWithin DEF LinkInv
<1>3. Path(w)' /\ Untouched(w)' /\ OwnList(w)' /\ OtherLists(w)'
  BY StepPath, StepUntouched, StepOwnList, StepOtherLists DEF LinkInv
<1>4. \A x \in Workers : x = w
  BY DEF OneWorker
<1> QED
  BY <1>1, <1>2, <1>3, <1>4 DEF LinkInv

LEMMA StutterLinkInv ==
  UNCHANGED vars => /\ LinkInv => LinkInv'
                    /\ \A w \in Workers : Found(w) => Found(w)'
<1> SUFFICES ASSUME UNCHANGED vars
             PROVE  /\ LinkInv => LinkInv'
                    /\ \A w \in Workers : Found(w) => Found(w)'
  OBVIOUS
<1>1. UNCHANGED <<entryPointID, levelOf, connections, pc, node, layer, candidates, results, todo,
                  chosen, idx, snapshot>>
  BY DEF vars, graph, search
<1>2. (Proper => Proper') /\ (Within => Within')
  BY <1>1 DEF Proper, ProperList, Within, Neighbor
<1>3. ASSUME NEW w \in Workers
      PROVE  /\ Path(w) => Path(w)'
             /\ Untouched(w) => Untouched(w)'
             /\ OwnList(w) => OwnList(w)'
             /\ OtherLists(w) => OtherLists(w)'
             /\ Found(w) => Found(w)'
  <2>1. Path(w) => Path(w)'
    BY <1>1 DEF Path, High, Neighbor
  <2>2. Untouched(w) => Untouched(w)'
    BY <1>1 DEF Untouched, ToLink
  <2>3. OwnList(w) => OwnList(w)'
    BY <1>1 DEF OwnList, Made
  <2>4. OtherLists(w) => OtherLists(w)'
    BY <1>1 DEF OtherLists, NotYet
  <2>5. Found(w) => Found(w)'
    BY <1>1 DEF Found, NotYet
  <2> QED
    BY <2>1, <2>2, <2>3, <2>4, <2>5
<1> QED
  BY <1>2, <1>3 DEF LinkInv

(* One worker links its vertex level by level, and the lists it has yet to   *)
(* change do not mention it.                                                 *)
THEOREM OneWorkerLinks == OneWorker => (Spec => []LinkInv)
<1> SUFFICES ASSUME OneWorker
             PROVE  Spec => []LinkInv
  OBVIOUS
<1>1. /\ TypeInv /\ TypeInv' /\ Publication /\ ChoicesInv /\ BornInv /\ UnbornUnlinked
      /\ FewChosen /\ LinkInv /\ [Next]_vars /\ FirstOnce' /\ Known'
      => LinkInv'
  <2>1. FirstOnce' /\ Known' => Running'
    BY DEF FirstOnce, Known, NoPanic
  <2> QED
    BY <2>1, StepLinkInv, StutterLinkInv DEF Next, Step, Over
<1> QED
  BY <1>1, InitLinks, OneWorkerMakesItOnce, TypeInvariance, PublicationInvariance,
     ChoicesInvariance, BornInvariance, UnbornInvariance, FewAreChosen, KnownInvariance,
     PTL DEF Spec

(* Hnsw.ProperLinks: with one worker, no vertex is linked to itself or twice *)
(* to the same one, and both ends of a link reach the level it is on.        *)
THEOREM OneLinksProperly == OneWorker => (Spec => []ProperLinks)
<1> SUFFICES ASSUME OneWorker
             PROVE  Spec => []ProperLinks
  OBVIOUS
<1>1. TypeInv /\ LinkInv => ProperLinks
  <2> SUFFICES ASSUME TypeInv, Proper, NEW v \in Ids, NEW l \in Levels
               PROVE  Cardinality(Elements(connections[v][l])) = Len(connections[v][l])
    BY DEF LinkInv, Proper, ProperList, ProperLinks
  <2>1. connections[v][l] \in Seq(Ids)
    BY ListType DEF TypeInv
  <2> QED
    BY <2>1, CountOnce DEF Proper, ProperList
<1> QED
  BY <1>1, OneWorkerLinks, TypeInvariance, PTL

(* Hnsw.DegreeLimit: after an insertion by one worker no list is longer than *)
(* the limit of its level.                                                   *)
THEOREM OneKeepsTheLimit == OneWorker => (Spec => []DegreeLimit)
<1> SUFFICES ASSUME OneWorker
             PROVE  Spec => []DegreeLimit
  OBVIOUS
<1>1. LinkInv => DegreeLimit
  BY DEF LinkInv, Within, DegreeLimit, Idle
<1> QED
  BY <1>1, OneWorkerLinks, PTL

(* Hnsw.NewVertexFindable: once one worker is through with linking a vertex, *)
(* every neighbor it chose points back at it, provided that no two vectors   *)
(* are equally near: pruneConnections keeps what is nearest to the vertex.   *)
THEOREM OneIsFound == OneWorker /\ Distinct => (Spec => []NewVertexFindable)
<1> SUFFICES ASSUME OneWorker, Distinct
             PROVE  Spec => []NewVertexFindable
  OBVIOUS
<1> DEFINE AllFound == \A w \in Workers : Found(w)
<1>1. /\ TypeInv /\ TypeInv' /\ ChoicesInv /\ ChoicesInv' /\ LinkInv /\ AllFound
      /\ [Next]_vars /\ FirstOnce' /\ Known'
      => AllFound'
  <2>1. FirstOnce' /\ Known' => Running'
    BY DEF FirstOnce, Known, NoPanic
  <2>2. ASSUME TypeInv, TypeInv', ChoicesInv, ChoicesInv', LinkInv, AllFound, Running',
               NEW w \in Workers, Take(w) \/ Insert(w)
        PROVE  AllFound'
    <3>1. Found(w)'
      BY <2>2, StepFound DEF LinkInv
    <3> QED
      BY <3>1 DEF OneWorker
  <2>3. UNCHANGED vars /\ AllFound => AllFound'
    BY StutterLinkInv
  <2> QED
    BY <2>1, <2>2, <2>3 DEF Next, Step, Over
<1>2. TypeInv /\ AllFound => NewVertexFindable
  <2> SUFFICES ASSUME TypeInv, AllFound, NEW w \in Workers, pc[w] = "raise",
                      NEW l \in Levels, NEW u \in Elements(chosen[w][l])
               PROVE  node[w] \in Elements(connections[u][l])
    BY DEF NewVertexFindable
  <2>1. PICK j \in 1 .. Len(chosen[w][l]) : u = chosen[w][l][j]
    BY DEF Elements
  <2> QED
    BY <2>1 DEF Found, Choosing, Linking
<1>3. Init => AllFound
  BY InitLinks
<1> QED
  BY <1>1, <1>2, <1>3, OneWorkerLinks, OneWorkerMakesItOnce, TypeInvariance, ChoicesInvariance,
     KnownInvariance, PTL DEF Spec
===============================================================================
