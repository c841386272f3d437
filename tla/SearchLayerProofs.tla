--------------------------- MODULE SearchLayerProofs ---------------------------
(****************************************************************************)
(* Proofs about SearchLayer, for every finite set of nodes, every distance  *)
(* (ties included), every ef and every interference of other goroutines.    *)
(****************************************************************************)
EXTENDS SearchLayer, FiniteSetTheorems, TLAPS

(* The nearest node ever looked at stays among the results. *)
NearestKept ==
  \A v \in visited : \E r \in results : Dist[r] <= Dist[v]

(* A result is either expanded or still waits in candidates, so when the    *)
(* search stops every result has been expanded.                             *)
ResultsExpanded ==
  /\ pc # "done" => results \subseteq DOMAIN seen \cup candidates
  /\ pc = "done" => results \subseteq DOMAIN seen

(* What was read from an expanded node is looked at, or about to be. *)
SeenVisited ==
  /\ pc # "visit" => todo = {}
  /\ \A v \in DOMAIN seen : seen[v] \subseteq visited \cup todo

(* Nothing is turned away before ef results are held. *)
FullBeforeReject ==
  Cardinality(results) < ef => results = visited

(* The stale worstResultDistance is never better than the best result. *)
WorstCovered ==
  pc = "visit" => \E r \in results : Dist[r] <= worst

IInv ==
  /\ TypeOK
  /\ pc # "call" => ef > 0
  /\ pc = "call" => visited = {}
  /\ ResultsBounded
  /\ NearestKept
  /\ ResultsExpanded
  /\ SeenVisited
  /\ FullBeforeReject
  /\ WorstCovered

-------------------------------------------------------------------------------
(* Sets of nodes are finite, so that counting them is arithmetic. *)
LEMMA NodesFinite ==
  ASSUME NEW S, S \subseteq Nodes
  PROVE  IsFiniteSet(S) /\ Cardinality(S) \in Nat
BY NodesAssumption, FS_Subset, FS_CardinalityType

(* Adding one element to a finite set and taking one out again keeps its    *)
(* size; this is the insertion that evicts the farthest result.             *)
LEMMA SwapKeepsSize ==
  ASSUME NEW R, IsFiniteSet(R), R # {},
         NEW v, v \notin R,
         NEW m, m \in R \cup {v}
  PROVE  /\ Cardinality((R \cup {v}) \ {m}) = Cardinality(R)
         /\ (R \cup {v}) \ {m} # {}
<1>1. /\ IsFiniteSet(R \cup {v})
      /\ Cardinality(R \cup {v}) = Cardinality(R) + 1
  BY FS_AddElement
<1>2. Cardinality((R \cup {v}) \ {m}) = Cardinality(R \cup {v}) - 1
  BY <1>1, FS_RemoveElement
<1>3. Cardinality(R) \in Nat /\ Cardinality(R) # 0
  BY FS_CardinalityType, FS_EmptySet
<1>4. Cardinality((R \cup {v}) \ {m}) = Cardinality(R)
  BY <1>1, <1>2, <1>3
<1>5. (R \cup {v}) \ {m} # {}
  BY <1>3, <1>4, FS_EmptySet
<1> QED
  BY <1>4, <1>5

(* What one round of the inner loop does to the results when it lets v in.  *)
LEMMA AdmitResults ==
  ASSUME IInv, pc = "visit", NEW v \in Nodes, v \notin visited, Admit(v)
  PROVE  /\ results' \subseteq results \cup {v}
         /\ results' # {}
         /\ Cardinality(results') <= ef
         /\ Cardinality(results') >= Cardinality(results)
         /\ \A x \in results \cup {v} : x \notin results' =>
              /\ Cardinality(results) = ef
              /\ \A r \in results' : Dist[r] <= Dist[x]
<1> USE DEF IInv, TypeOK, ResultsBounded
<1>1. IsFiniteSet(results) /\ Cardinality(results) \in Nat
  BY NodesFinite
<1>2. v \notin results /\ results # {} /\ Cardinality(results) <= ef
  OBVIOUS
<1>3. CASE Cardinality(results) + 1 > ef
  <2>1. PICK m \in Maxima(results \cup {v}, Dist) :
               results' = (results \cup {v}) \ {m}
    BY <1>3 DEF Admit
  <2>2. m \in results \cup {v} /\ \A y \in results \cup {v} : Dist[m] >= Dist[y]
    BY <2>1 DEF Maxima
  <2>3. Cardinality(results') = Cardinality(results) /\ results' # {}
    BY <1>1, <1>2, <2>1, <2>2, SwapKeepsSize
  <2>4. Cardinality(results) = ef
    BY <1>1, <1>2, <1>3
  <2>5. \A r \in results' : Dist[r] <= Dist[m]
    BY <2>1, <2>2, DistAssumption
  <2> QED
    BY <1>1, <1>2, <2>1, <2>2, <2>3, <2>4, <2>5
<1>4. CASE ~ (Cardinality(results) + 1 > ef)
  <2>1. results' = results \cup {v}
    BY <1>4 DEF Admit
  <2>2. Cardinality(results') = Cardinality(results) + 1
    BY <1>1, <1>2, <2>1, FS_AddElement
  <2> QED
    BY <1>1, <1>2, <1>4, <2>1, <2>2
<1> QED
  BY <1>3, <1>4

-------------------------------------------------------------------------------
LEMMA InitIInv == Init => IInv
BY FS_EmptySet
   DEF Init, IInv, TypeOK, ResultsBounded, NearestKept, ResultsExpanded,
       SeenVisited, FullBeforeReject, WorstCovered

LEMMA BeginIInv ==
  ASSUME IInv, NEW eps \in SUBSET Nodes, NEW k \in Efs, Begin(eps, k)
  PROVE  IInv'
<1> USE DEF IInv, TypeOK, Begin
<1>1. k \in Nat /\ k > 0
  BY EfsAssumption
<1>2. DOMAIN seen = {} /\ todo = {}
  BY DEF SeenVisited
<1>3. TypeOK'
  BY <1>1, <1>2
<1> QED
  BY <1>1, <1>2, <1>3, DistAssumption
     DEF ResultsBounded, NearestKept, ResultsExpanded, SeenVisited,
         FullBeforeReject, WorstCovered

LEMMA ExpandIInv ==
  ASSUME IInv, NEW c \in Nodes, NEW connections \in SUBSET Nodes,
         Expand(c, connections)
  PROVE  IInv'
<1> USE DEF IInv, TypeOK, Expand
<1>1. PICK w \in Maxima(results, Dist) : Dist[c] <= Dist[w] /\ worst' = Dist[w]
  OBVIOUS
<1>2. w \in results /\ w \in Nodes /\ Dist[w] \in Nat
  BY <1>1, DistAssumption DEF Maxima
<1>3. c \in candidates
  BY DEF Minima
<1>4. DOMAIN seen' = DOMAIN seen \cup {c} /\ seen'[c] = connections
  OBVIOUS
<1>5. \A v \in DOMAIN seen : v # c => seen'[v] = seen[v]
  OBVIOUS
<1>6. TypeOK'
  BY <1>1, <1>2, <1>3, <1>4, <1>5
<1>7. ResultsBounded' /\ NearestKept' /\ FullBeforeReject'
  BY DEF ResultsBounded, NearestKept, FullBeforeReject
<1>8. ResultsExpanded'
  BY <1>4 DEF ResultsExpanded
<1>9. SeenVisited'
  BY <1>4, <1>5 DEF SeenVisited
<1>10. WorstCovered'
  BY <1>1, <1>2 DEF WorstCovered
<1> QED
  BY <1>6, <1>7, <1>8, <1>9, <1>10

LEMMA BreakOffIInv ==
  ASSUME IInv, NEW c \in Nodes, BreakOff(c)
  PROVE  IInv'
<1> USE DEF IInv, TypeOK, BreakOff
<1>1. PICK w \in Maxima(results, Dist) : Dist[c] > Dist[w]
  OBVIOUS
<1>2. candidates \cap results = {}
  <2> SUFFICES ASSUME NEW x \in candidates, x \in results
               PROVE  FALSE
    OBVIOUS
  <2>1. Dist[c] <= Dist[x] /\ Dist[x] <= Dist[w] /\ w \in Nodes
    BY <1>1 DEF Minima, Maxima
  <2> QED
    BY <1>1, <2>1, DistAssumption
<1>3. ResultsExpanded'
  BY <1>2 DEF ResultsExpanded
<1> QED
  BY <1>3 DEF ResultsBounded, NearestKept, SeenVisited, FullBeforeReject,
              WorstCovered

LEMMA ExhaustIInv ==
  ASSUME IInv, Exhaust
  PROVE  IInv'
BY DEF IInv, TypeOK, Exhaust, ResultsBounded, NearestKept, ResultsExpanded,
       SeenVisited, FullBeforeReject, WorstCovered

LEMMA VisitIInv ==
  ASSUME IInv, NEW v \in Nodes, Visit(v)
  PROVE  IInv'
<1> USE DEF IInv, TypeOK, Visit
<1>1. CASE v \in visited
  <2>1. visited' = visited /\ UNCHANGED <<candidates, results>>
    BY <1>1
  <2> QED
    BY <2>1 DEF ResultsBounded, NearestKept, ResultsExpanded, SeenVisited,
                FullBeforeReject, WorstCovered
<1>2. CASE v \notin visited /\ ~ Admits(v)
  <2>1. UNCHANGED <<candidates, results>>
    BY <1>2
  <2>2. ~ (Dist[v] < worst) /\ ~ (Cardinality(results) < ef)
    BY <1>2 DEF Admits
  <2>3. PICK r \in results : Dist[r] <= worst
    BY DEF WorstCovered
  <2>4. Dist[r] <= Dist[v]
    BY <2>2, <2>3, DistAssumption
  <2>5. NearestKept'
    BY <2>1, <2>4 DEF NearestKept
  <2>6. FullBeforeReject'
    BY <2>1, <2>2 DEF FullBeforeReject
  <2> QED
    BY <2>1, <2>5, <2>6
       DEF ResultsBounded, ResultsExpanded, SeenVisited, WorstCovered
<1>3. CASE v \notin visited /\ Admits(v)
  <2>1. Admit(v)
    BY <1>3
  <2>2. /\ results' \subseteq results \cup {v}
        /\ results' # {}
        /\ Cardinality(results') <= ef
        /\ Cardinality(results') >= Cardinality(results)
        /\ \A x \in results \cup {v} : x \notin results' =>
             /\ Cardinality(results) = ef
             /\ \A r \in results' : Dist[r] <= Dist[x]
    BY <1>3, <2>1, AdmitResults
  <2>3. candidates' = candidates \cup {v}
    BY <2>1 DEF Admit
  <2>4. TypeOK'
    BY <2>2, <2>3
  <2>5. ResultsBounded'
    BY <2>2 DEF ResultsBounded
  <2>6. \A u \in results \cup {v} : \E r \in results' : Dist[r] <= Dist[u]
    BY <2>2, DistAssumption
  <2>7. NearestKept'
    <3> SUFFICES ASSUME NEW u \in visited'
                 PROVE  \E r \in results' : Dist[r] <= Dist[u]
      BY DEF NearestKept
    <3>1. CASE u = v
      BY <3>1, <2>6
    <3>2. CASE u \in visited
      <4>1. PICK r \in results : Dist[r] <= Dist[u]
        BY <3>2 DEF NearestKept
      <4>2. PICK q \in results' : Dist[q] <= Dist[r]
        BY <2>6
      <4>3. q \in Nodes /\ r \in Nodes /\ u \in Nodes
        BY <2>2, <3>2
      <4> QED
        BY <4>1, <4>2, <4>3, DistAssumption
    <3> QED
      BY <3>1, <3>2
  <2>8. ResultsExpanded'
    BY <2>2, <2>3 DEF ResultsExpanded
  <2>9. SeenVisited'
    BY DEF SeenVisited
  <2>10. FullBeforeReject'
    <3>1. Cardinality(results) \in Nat /\ Cardinality(results') \in Nat
      BY <2>2, NodesFinite
    <3> SUFFICES ASSUME Cardinality(results') < ef
                 PROVE  results' = visited'
      BY DEF FullBeforeReject
    <3>2. Cardinality(results) < ef /\ results = visited
      BY <2>2, <3>1 DEF FullBeforeReject
    <3> QED
      BY <2>2, <3>1, <3>2
  <2>11. WorstCovered'
    <3>1. PICK r \in results : Dist[r] <= worst
      BY DEF WorstCovered
    <3>2. PICK q \in results' : Dist[q] <= Dist[r]
      BY <2>6
    <3>3. q \in Nodes /\ r \in Nodes
      BY <2>2
    <3> QED
      BY <3>1, <3>2, <3>3, DistAssumption DEF WorstCovered
  <2> QED
    BY <2>4, <2>5, <2>7, <2>8, <2>9, <2>10, <2>11
<1> QED
  BY <1>1, <1>2, <1>3

LEMMA NextCandidateIInv ==
  ASSUME IInv, NextCandidate
  PROVE  IInv'
BY DEF IInv, TypeOK, NextCandidate, ResultsBounded, NearestKept,
       ResultsExpanded, SeenVisited, FullBeforeReject, WorstCovered

(* IInv is kept by every step of the search. *)
LEMMA StepIInv == IInv /\ [Next]_vars => IInv'
<1> SUFFICES ASSUME IInv, [Next]_vars PROVE IInv'
  OBVIOUS
<1>1. CASE Call
  BY <1>1, BeginIInv DEF Call
<1>2. CASE Search
  BY <1>2, ExpandIInv, BreakOffIInv, VisitIInv, ExhaustIInv, NextCandidateIInv
     DEF Search
<1>3. CASE UNCHANGED vars
  BY <1>3 DEF vars, IInv, TypeOK, ResultsBounded, NearestKept,
              ResultsExpanded, SeenVisited, FullBeforeReject, WorstCovered
<1> QED
  BY <1>1, <1>2, <1>3 DEF Next, Returned

LEMMA Invariance == Spec => []IInv
BY InitIInv, StepIInv, PTL DEF Spec

-------------------------------------------------------------------------------
(* The variables of searchLayer keep their types: in particular candidates  *)
(* and results hold visited nodes only.                                     *)
THEOREM TypeCorrect == Spec => []TypeOK
<1>1. IInv => TypeOK
  BY DEF IInv
<1> QED
  BY <1>1, Invariance, PTL

(* The results tree is never empty when results.maximum() is called and     *)
(* never larger than ef when the function returns it.                       *)
THEOREM ResultsAreBounded == Spec => []ResultsBounded
<1>1. IInv => ResultsBounded
  BY DEF IInv
<1> QED
  BY <1>1, Invariance, PTL

(* The closest node returned is a local minimum of the graph that was read. *)
THEOREM ReturnsLocalMinimum == Spec => []LocalMinimum
<1>1. IInv => LocalMinimum
  <2> SUFFICES ASSUME IInv, pc = "done",
                      NEW best \in Minima(results, Dist)
               PROVE  /\ best \in DOMAIN seen
                      /\ \A v \in seen[best] : Dist[best] <= Dist[v]
    BY DEF LocalMinimum
  <2> USE DEF IInv, TypeOK
  <2>1. best \in results /\ \A r \in results : Dist[best] <= Dist[r]
    BY DEF Minima
  <2>2. best \in DOMAIN seen /\ best \in Nodes
    BY <2>1 DEF ResultsExpanded
  <2>3. ASSUME NEW v \in seen[best]
        PROVE  Dist[best] <= Dist[v]
    <3>1. v \in visited /\ v \in Nodes
      BY <2>2 DEF SeenVisited
    <3>2. PICK r \in results : Dist[r] <= Dist[v]
      BY <3>1 DEF NearestKept
    <3>3. r \in Nodes /\ Dist[best] <= Dist[r]
      BY <2>1
    <3> QED
      BY <2>2, <3>1, <3>2, <3>3, DistAssumption
  <2> QED
    BY <2>2, <2>3
<1> QED
  BY <1>1, Invariance, PTL

(* A search that returns fewer than ef nodes has returned all of them. *)
THEOREM SmallResultsAreClosed == Spec => []SmallResultIsClosed
<1>1. IInv => SmallResultIsClosed
  BY DEF IInv, TypeOK, SmallResultIsClosed, FullBeforeReject, ResultsExpanded,
         SeenVisited
<1> QED
  BY <1>1, Invariance, PTL

(* A full set of results only ever improves. *)
THEOREM FullResultsImprove == Spec => WorstNeverGrows
<1>1. ASSUME IInv, [Next]_vars, pc # "call", Cardinality(results) = ef
      PROVE  \A r \in results' : \E w \in results : Dist[r] <= Dist[w]
  <2> USE DEF IInv, TypeOK
  <2>1. CASE UNCHANGED results
    BY <1>1, <2>1, DistAssumption
  <2>2. ASSUME NEW v \in Nodes, Visit(v), v \notin visited, Admits(v)
        PROVE  \A r \in results' : \E w \in results : Dist[r] <= Dist[w]
    <3>1. Admit(v) /\ pc = "visit"
      BY <2>2 DEF Visit
    <3>2. results' \subseteq results \cup {v}
      BY <1>1, <2>2, <3>1, AdmitResults
    <3>3. Cardinality(results) + 1 > ef
      BY <1>1
    <3>4. PICK m \in Maxima(results \cup {v}, Dist) :
                 results' = (results \cup {v}) \ {m}
      BY <3>1, <3>3 DEF Admit
    <3>5. \A x \in results \cup {v} : Dist[x] <= Dist[m] /\ x \in Nodes
      BY <1>1, <3>4, <2>2, DistAssumption DEF Maxima
    <3>6. m \in results \cup {v}
      BY <3>4 DEF Maxima
    <3>7. CASE m = v
      BY <3>4, <3>5, <3>7, DistAssumption
    <3>8. CASE m \in results
      BY <3>2, <3>5, <3>8
    <3> QED
      BY <3>6, <3>7, <3>8
  <2>3. CASE Call
    BY <1>1, <2>3 DEF Call, Begin
  <2>4. CASE Search
    BY <2>1, <2>2, <2>4
       DEF Search, Expand, BreakOff, Exhaust, Visit, NextCandidate
  <2> QED
    BY <1>1, <2>1, <2>3, <2>4 DEF Next, Returned, vars
<1>2. IInv /\ [Next]_vars =>
        [(pc # "call" /\ Cardinality(results) = ef) =>
           \A r \in results' : \E w \in results : Dist[r] <= Dist[w]]_vars
  BY <1>1
<1> QED
  BY <1>2, Invariance, PTL DEF Spec, WorstNeverGrows
================================================================================
