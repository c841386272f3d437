------------------------------ MODULE SearchLayer ------------------------------
(****************************************************************************)
(* hnsw.searchLayer: the greedy best-first search of one layer, the loop    *)
(* that every insertion and every query runs.  One behaviour is one call;   *)
(* its arguments are fixed by Begin.  The goroutine that searches takes the *)
(* read lock of a vertex only while it copies that vertex's connections, so *)
(* between two candidates other goroutines link and prune vertices.  It     *)
(* copies the connections of a vertex at most once; whatever the others do, *)
(* it reads some list, and here it may read any.  A layer that nobody       *)
(* changes is the special case in which it reads that layer's lists.        *)
(*                                                                          *)
(* candidates and results are binary search trees in the code; here they    *)
(* are the sets of indexes the trees hold (module OrderedSet).              *)
(****************************************************************************)
EXTENDS OrderedSet

CONSTANTS
  Nodes,   \* the ids that exist in the searched layer
  Dist,    \* Dist[v]: distBetweenNodes(v, queryNode.id)
  Efs      \* the values of ef the callers use

ASSUME NodesAssumption == IsFiniteSet(Nodes)
ASSUME DistAssumption  == Dist \in [Nodes -> Nat]
ASSUME EfsAssumption   == Efs \subseteq Nat \ {0}

VARIABLES
  pc,          \* "call", "loop", "visit" or "done"
  ef,          \* argument: how many results to keep
  entrypoints, \* argument: where to start
  visited,     \* local map visited
  candidates,  \* local tree of the nodes still to be expanded
  results,     \* local tree of the best nodes so far, the return value
  todo,        \* the connections of the candidate not yet looked at
  worst,       \* worstResultDistance, computed once per candidate
  seen         \* history: the connections read from each expanded candidate

vars == <<pc, ef, entrypoints, visited, candidates, results, todo, worst, seen>>

-------------------------------------------------------------------------------
(* Entering the function: all three trees start as copies of entrypoints.   *)
(* Every caller passes at least one and at most ef entry points: insert and *)
(* knnSearch pass one, and insert passes on the at most efConstruction      *)
(* results of the layer above together with the same efConstruction.        *)
Init ==
  /\ pc = "call"
  /\ ef = 0
  /\ entrypoints = {}
  /\ visited = {}
  /\ candidates = {}
  /\ results = {}
  /\ todo = {}
  /\ worst = 0
  /\ seen = [v \in {} |-> {}]

Begin(eps, k) ==
  /\ pc = "call"
  /\ eps # {}
  /\ Cardinality(eps) <= k
  /\ pc' = "loop"
  /\ ef' = k
  /\ entrypoints' = eps
  /\ visited' = eps
  /\ candidates' = eps
  /\ results' = eps
  /\ UNCHANGED <<todo, worst, seen>>

(* Faulty: the candidate is expanded but stays a candidate. *)
ExpandKeeping(c, connections) ==
  /\ pc = "loop"
  /\ c \in Minima(candidates, Dist)
  /\ \E w \in Maxima(results, Dist) : Dist[c] <= Dist[w] /\ worst' = Dist[w]
  /\ todo' = connections
  /\ seen' = [v \in DOMAIN seen \cup {c} |->
                IF v = c THEN connections ELSE seen[v]]
  /\ pc' = "visit"
  /\ UNCHANGED <<ef, entrypoints, visited, candidates, results>>

(* The closest candidate c is taken out and is no farther than the worst    *)
(* result: copy its connections under its read lock and remember how far    *)
(* the worst result is.                                                     *)
Expand(c, connections) ==
  /\ pc = "loop"
  /\ c \in Minima(candidates, Dist)
  /\ \E w \in Maxima(results, Dist) :
       /\ Dist[c] <= Dist[w]
       /\ worst' = Dist[w]
  /\ candidates' = candidates \ {c}
  /\ todo' = connections
  /\ seen' = [v \in DOMAIN seen \cup {c} |->
                IF v = c THEN connections ELSE seen[v]]
  /\ pc' = "visit"
  /\ UNCHANGED <<ef, entrypoints, visited, results>>

(* Faulty: >= for > ends the search at a candidate as far as the worst result. *)
BreakOffEarly(c) ==
  /\ pc = "loop"
  /\ c \in Minima(candidates, Dist)
  /\ \E w \in Maxima(results, Dist) : Dist[c] >= Dist[w]
  /\ candidates' = candidates \ {c}
  /\ pc' = "done"
  /\ UNCHANGED <<ef, entrypoints, visited, results, todo, worst, seen>>

(* It is farther than the worst result: break, the search is over.          *)
BreakOff(c) ==
  /\ pc = "loop"
  /\ c \in Minima(candidates, Dist)
  /\ \E w \in Maxima(results, Dist) : Dist[c] > Dist[w]
  /\ candidates' = candidates \ {c}
  /\ pc' = "done"
  /\ UNCHANGED <<ef, entrypoints, visited, results, todo, worst, seen>>

(* No candidate left: the loop condition candidates.root != nil fails.      *)
Exhaust ==
  /\ pc = "loop"
  /\ candidates = {}
  /\ pc' = "done"
  /\ UNCHANGED <<ef, entrypoints, visited, candidates, results, todo,
                 worst, seen>>

(* Faulty: a neighbor is not let in although there is room. *)
AdmitsCloser(v) == Dist[v] < worst

(* The test that lets a neighbor in.  worst is the value of the beginning   *)
(* of the expansion, the number of results is the current one.              *)
Admits(v) == Dist[v] < worst \/ Cardinality(results) < ef

(* Faulty: the results are never cut back to ef. *)
AdmitAll(v) ==
  /\ candidates' = candidates \cup {v}
  /\ results' = results \cup {v}

(* One round of the inner loop, for a connection not visited before: it     *)
(* joins candidates and results, and if the results are now more than ef    *)
(* the farthest of them is deleted.                                         *)
Admit(v) ==
  /\ candidates' = candidates \cup {v}
  /\ IF Cardinality(results) + 1 > ef
     THEN \E m \in Maxima(results \cup {v}, Dist) :
            results' = (results \cup {v}) \ {m}
     ELSE results' = results \cup {v}

Visit(v) ==
  /\ pc = "visit"
  /\ v \in todo
  /\ todo' = todo \ {v}
  /\ visited' = visited \cup {v}
  /\ IF v \notin visited /\ Admits(v)
     THEN Admit(v)
     ELSE UNCHANGED <<candidates, results>>
  /\ UNCHANGED <<pc, ef, entrypoints, worst, seen>>

NextCandidate ==
  /\ pc = "visit"
  /\ todo = {}
  /\ pc' = "loop"
  /\ UNCHANGED <<ef, entrypoints, visited, candidates, results, todo,
                 worst, seen>>

Search ==
  \/ \E c \in Nodes : \/ \E connections \in SUBSET Nodes : Expand(c, connections)
                     \/ BreakOff(c)
                     \/ Visit(c)
  \/ Exhaust
  \/ NextCandidate

Call == \E eps \in SUBSET Nodes, k \in Efs : Begin(eps, k)

Returned == pc = "done" /\ UNCHANGED vars

Next == Call \/ Search \/ Returned

Spec == Init /\ [][Next]_vars

(* A goroutine that searches is never blocked for good: it only waits for   *)
(* read locks that are held for a few statements.                           *)
FairSpec == Spec /\ WF_vars(Search)

-------------------------------------------------------------------------------
TypeOK ==
  /\ pc \in {"call", "loop", "visit", "done"}
  /\ ef \in Nat
  /\ entrypoints \subseteq visited
  /\ visited \subseteq Nodes
  /\ candidates \subseteq visited
  /\ results \subseteq visited
  /\ todo \subseteq Nodes
  /\ worst \in Nat
  /\ DOMAIN seen \subseteq visited
  /\ \A v \in DOMAIN seen : seen[v] \subseteq Nodes

(* results.maximum() and, in the callers, res.minimum() dereference the root *)
(* of the results tree without a nil check, so the tree may never be empty   *)
(* while the search runs; and it never holds more than ef nodes, whatever    *)
(* the other goroutines do to the graph meanwhile.                           *)
ResultsBounded ==
  pc # "call" => /\ results # {}
                 /\ Cardinality(results) <= ef

(* The search ends in a local minimum: the closest node it returns was       *)
(* expanded, and none of the connections it had when it was expanded leads   *)
(* to a closer node.  (worstResultDistance is stale inside the inner loop,   *)
(* and nodes are dropped from the results: neither may lose the best node.)  *)
LocalMinimum ==
  pc = "done" => \A best \in Minima(results, Dist) :
                   /\ best \in DOMAIN seen
                   /\ \A v \in seen[best] : Dist[best] <= Dist[v]

(* A search that returns fewer than ef nodes returns every node that can be  *)
(* reached: the entry points, and all connections of the nodes it returns.   *)
SmallResultIsClosed ==
  (pc = "done" /\ Cardinality(results) < ef) =>
     /\ entrypoints \subseteq results
     /\ \A v \in results : v \in DOMAIN seen /\ seen[v] \subseteq results

(* Once ef results are held, a step may replace one only by a closer one:    *)
(* the distance of the farthest result never grows again.                    *)
WorstNeverGrows ==
  [][(pc # "call" /\ Cardinality(results) = ef) =>
       \A r \in results' : \E w \in results : Dist[r] <= Dist[w]]_vars

(* Every search ends although the graph grows under it: each node is a       *)
(* candidate at most once.                                                   *)
SearchEnds == (pc = "loop") ~> (pc = "done")
================================================================================
