------------------------------- MODULE NswProofs -------------------------------
(****************************************************************************)
(* Proofs about Nsw, for every number of workers and vertices, every k and  *)
(* every distance.                                                          *)
(****************************************************************************)
EXTENDS Nsw, FiniteSetTheorems, WellFoundedInduction, TLAPS

-------------------------------------------------------------------------------
(* Lists of pairs of vertices. *)
Pairs == Vertices \X Vertices

LEMMA ConnectingType ==
  ASSUME NEW v \in Vertices, NEW others \in Seq(Vertices)
  PROVE  /\ Connecting(v, others) \in Seq(Pairs)
         /\ Len(Connecting(v, others)) = 2 * Len(others)
         /\ \A i \in 1 .. 2 * Len(others) :
              Connecting(v, others)[i] =
                IF i % 2 = 1 THEN <<others[(i + 1) \div 2], v>>
                             ELSE <<v, others[(i + 1) \div 2]>>
<1> DEFINE n == 2 * Len(others)
           f == Connecting(v, others)
<1>1. Len(others) \in Nat /\ n \in Nat
  OBVIOUS
<1>2. \A i \in 1 .. n : (i + 1) \div 2 \in 1 .. Len(others)
  BY <1>1
<1>3. \A i \in 1 .. n : others[(i + 1) \div 2] \in Vertices
  BY <1>2
<1>4. \A i \in 1 .. n :
        f[i] = IF i % 2 = 1 THEN <<others[(i + 1) \div 2], v>>
                            ELSE <<v, others[(i + 1) \div 2]>>
  BY DEF Connecting
<1>5. f \in [1 .. n -> Pairs]
  <2>1. ASSUME NEW i \in 1 .. n PROVE f[i] \in Pairs
    <3>1. PICK other \in Vertices : other = others[(i + 1) \div 2]
      BY <1>3
    <3>2. f[i] = <<other, v>> \/ f[i] = <<v, other>>
      <4>1. CASE i % 2 = 1
        BY <1>4, <3>1, <4>1
      <4>2. CASE ~(i % 2 = 1)
        BY <1>4, <3>1, <4>2
      <4> QED
        BY <4>1, <4>2
    <3>3. <<other, v>> \in Pairs /\ <<v, other>> \in Pairs
      BY DEF Pairs
    <3> QED
      BY <3>2, <3>3
  <2>2. f = [i \in 1 .. n |-> f[i]]
    BY DEF Connecting
  <2> QED
    BY <2>1, <2>2
<1>6. f \in Seq(Pairs) /\ Len(f) = n
  BY <1>1, <1>5
<1> QED
  BY <1>4, <1>6

(* The neighbors chosen from what a search found are a list of k vertices. *)
LEMMA NearestType ==
  ASSUME NEW S, S \subseteq Vertices, NEW d, ~(Cardinality(S) < k),
         NEW s \in Nearest(S, d, k)
  PROVE  s \in Seq(Vertices) /\ Len(s) = k
<1>1. s \in [1 .. k -> S]
  BY DEF Nearest
<1> QED
  BY <1>1, KAssumption

-------------------------------------------------------------------------------
(* Type correctness.  It is inductive only together with the facts that      *)
(* there are pairs in todo exactly when one is needed, and that the list of  *)
(* vertices has not become empty again.                                      *)
Busy == {"append", "store"}

HeadNeeded ==
  /\ \A w \in Workers : pc[w] \in Busy <=> todo[w] # <<>>
  /\ \A w \in Workers : pc[w] = "all" => vertices # <<>>

TypeInv == TypeOK /\ HeadNeeded

LEMMA InitTypeInv == Init => TypeInv
<1>1. 0 \in Vertices
  BY NAssumption DEF Vertices
<1>2. Init => vertices \in Seq(Vertices) /\ todo \in [Workers -> Seq(Vertices \X Vertices)]
  BY DEF Init
<1>3. ASSUME Init PROVE TypeOK
  <2>1. jobs \in 0 .. N /\ firsts \in Nat
    BY <1>3, NAssumption DEF Init
  <2>2. raced \in BOOLEAN
    BY <1>3, Zenon DEF Init
  <2>3. pc \in [Workers -> {"idle", "len", "first", "all", "entry", "search",
                            "append", "store", "add", "panic"}]
    BY <1>3 DEF Init
  <2> QED
    BY <1>1, <1>2, <1>3, <2>1, <2>2, <2>3 DEF Init, TypeOK
<1>4. Init => HeadNeeded
  BY DEF Init, HeadNeeded, Busy
<1> QED
  BY <1>3, <1>4 DEF TypeInv

LEMMA HeadType ==
  ASSUME TypeInv, NEW w \in Workers, pc[w] \in Busy
  PROVE  /\ Target(w) \in Vertices /\ Edge(w) \in Vertices
         /\ Tail(todo[w]) \in Seq(Pairs)
         /\ Len(todo[w]) # 1 <=> Tail(todo[w]) # <<>>
         /\ Len(todo[w]) \in Nat /\ Len(todo[w]) > 0
         /\ Head(todo[w]) = <<Target(w), Edge(w)>>
         /\ todo[w][1] = <<Target(w), Edge(w)>>
         /\ Len(Tail(todo[w])) = Len(todo[w]) - 1
         /\ \A i \in 1 .. Len(todo[w]) - 1 : Tail(todo[w])[i] = todo[w][i + 1]
<1>1. todo[w] \in Seq(Pairs) /\ todo[w] # <<>>
  BY DEF TypeInv, TypeOK, HeadNeeded, Pairs
<1>2. /\ Head(todo[w]) \in Pairs /\ Head(todo[w]) = todo[w][1]
      /\ Tail(todo[w]) \in Seq(Pairs)
      /\ Len(todo[w]) \in Nat /\ Len(todo[w]) > 0
      /\ Len(Tail(todo[w])) = Len(todo[w]) - 1
      /\ \A i \in 1 .. Len(todo[w]) - 1 : Tail(todo[w])[i] = todo[w][i + 1]
  BY <1>1
<1>3. /\ Target(w) \in Vertices /\ Edge(w) \in Vertices
      /\ Head(todo[w]) = <<Target(w), Edge(w)>>
  BY <1>2 DEF Target, Edge, Pairs
<1>4. Len(todo[w]) # 1 <=> Tail(todo[w]) # <<>>
  <2>1. PICK rest : rest = Tail(todo[w])
    OBVIOUS
  <2>2. rest \in Seq(Pairs) /\ (Len(rest) # 0 <=> Len(todo[w]) # 1)
    BY <1>2, <2>1
  <2>3. rest # <<>> <=> Len(rest) # 0
    BY <2>2
  <2> QED
    BY <2>1, <2>2, <2>3
<1> QED
  BY <1>2, <1>3, <1>4

LEMMA StepTypeInv == TypeInv /\ [Next]_vars => TypeInv'
<1> SUFFICES ASSUME TypeInv, [Next]_vars PROVE TypeInv'
  OBVIOUS
<1> USE DEF TypeInv, TypeOK, HeadNeeded, Busy
<1>1. ASSUME NEW w \in Workers, Take(w) PROVE TypeInv'
  <2>1. jobs \in Vertices /\ jobs + 1 \in 0 .. N
    BY <1>1, NAssumption DEF Take, Vertices
  <2> QED
    BY <1>1, <2>1 DEF Take, graph, search
<1>2. ASSUME NEW w \in Workers, ReadLen(w) PROVE TypeInv'
  BY <1>2 DEF ReadLen, graph, search
<1>3. ASSUME NEW w \in Workers, FirstInsert(w) PROVE TypeInv'
  BY <1>3 DEF FirstInsert, search
<1>4. ASSUME NEW w \in Workers, LockAll(w) PROVE TypeInv'
  <2>1. /\ Connecting(node[w], vertices) \in Seq(Pairs)
        /\ Connecting(node[w], vertices) # <<>>
    <3>1. Len(vertices) > 0
      BY <1>4 DEF LockAll
    <3> QED
      BY <3>1, ConnectingType
  <2> QED
    BY <1>4, <2>1 DEF LockAll, search, Pairs
<1>5. ASSUME NEW w \in Workers, Enter(w) PROVE TypeInv'
  BY <1>5 DEF Enter, graph
<1>6. ASSUME NEW w \in Workers, NEW c \in Vertices, Expand(w, c) PROVE TypeInv'
  BY <1>6 DEF Expand, graph
<1>7. ASSUME NEW w \in Workers, Choose(w) PROVE TypeInv'
  <2>1. CASE Cardinality(found[w]) < k
    BY <1>7, <2>1 DEF Choose, graph
  <2>2. CASE ~(Cardinality(found[w]) < k)
    <3>1. PICK neighbors \in Nearest(found[w], DistTo(w), k) :
            /\ todo' = [todo EXCEPT ![w] = Connecting(node[w], neighbors)]
            /\ pc' = [pc EXCEPT ![w] = "append"]
      BY <1>7, <2>2 DEF Choose
    <3>2. /\ Connecting(node[w], neighbors) \in Seq(Pairs)
          /\ Connecting(node[w], neighbors) # <<>>
      <4>1. found[w] \subseteq Vertices /\ node[w] \in Vertices
        OBVIOUS
      <4>2. neighbors \in Seq(Vertices) /\ Len(neighbors) = k
        BY <2>2, <4>1, NearestType
      <4>3. /\ Connecting(node[w], neighbors) \in Seq(Pairs)
            /\ Len(Connecting(node[w], neighbors)) = 2 * k
        BY <4>1, <4>2, ConnectingType
      <4> QED
        BY <4>3, KAssumption
    <3> QED
      BY <1>7, <3>1, <3>2 DEF Choose, graph, Pairs
  <2> QED
    BY <2>1, <2>2
<1>8. ASSUME NEW w \in Workers, ReadEdges(w) PROVE TypeInv'
  <2>1. Target(w) \in Vertices
    BY <1>8, HeadType DEF ReadEdges
  <2> QED
    BY <1>8, <2>1 DEF ReadEdges, graph, search
<1>9. ASSUME NEW w \in Workers, WriteEdges(w) PROVE TypeInv'
  <2>1. /\ Target(w) \in Vertices /\ Edge(w) \in Vertices
        /\ Tail(todo[w]) \in Seq(Pairs)
        /\ Len(todo[w]) # 1 <=> Tail(todo[w]) # <<>>
    BY <1>9, HeadType DEF WriteEdges
  <2>2. PICK s \in Appended(old[w], edges[Target(w)], Edge(w)) :
          edges' = [edges EXCEPT ![Target(w)] = s]
    BY <1>9 DEF WriteEdges
  <2>3. s \in SUBSET Vertices
    BY <2>1 DEF Appended
  <2>4. raced' \in BOOLEAN
    BY <1>9 DEF WriteEdges
  <2> QED
    BY <1>9, <2>1, <2>2, <2>3, <2>4 DEF WriteEdges, search, Pairs
<1>10. ASSUME NEW w \in Workers, AddVertex(w) PROVE TypeInv'
  <2>1. node[w] \in Vertices
    OBVIOUS
  <2>2. vertices' \in Seq(Vertices) /\ vertices' # <<>>
    <3>1. PICK v \in Vertices : v = node[w]
      BY <2>1
    <3>2. PICK more \in Seq(Vertices) :
            more = Append(vertices, v) /\ Len(more) = Len(vertices) + 1
      <4>1. /\ Append(vertices, v) \in Seq(Vertices)
            /\ Len(Append(vertices, v)) = Len(vertices) + 1
        OBVIOUS
      <4> QED
        BY <4>1
    <3>3. more # <<>>
      BY <3>2
    <3> QED
      BY <1>10, <3>1, <3>2, <3>3 DEF AddVertex
  <2>3. /\ glock' \subseteq Workers
        /\ pc' = [pc EXCEPT ![w] = "idle"]
        /\ UNCHANGED <<edges, firsts, raced, jobs, node, candidates, found, todo, old>>
    BY <1>10 DEF AddVertex, search
  <2>4. TypeOK'
    BY <2>2, <2>3
  <2>5. pc[w] = "add" /\ "add" \notin Busy /\ "idle" \notin Busy
    BY <1>10 DEF AddVertex
  <2>6. todo[w] = <<>> /\ todo' = todo
    BY <2>3, <2>5
  <2>7. \A u \in Workers : pc'[u] = IF u = w THEN "idle" ELSE pc[u]
    BY <2>3
  <2>8. HeadNeeded'
    BY <2>2, <2>5, <2>6, <2>7
  <2> QED
    BY <2>4, <2>8
<1>11. CASE UNCHANGED vars
  BY <1>11 DEF vars, graph, search
<1> QED
  BY <1>1, <1>2, <1>3, <1>4, <1>5, <1>6, <1>7, <1>8, <1>9, <1>10, <1>11
     DEF Next, Step, Insert, Over

(* Every variable keeps its type, for any number of workers. *)
THEOREM TypeCorrect == Spec => []TypeOK
<1>1. TypeInv => TypeOK
  BY DEF TypeInv
<1> QED
  BY <1>1, InitTypeInv, StepTypeInv, PTL DEF Spec
-------------------------------------------------------------------------------
(* What is still to be appended comes in pairs that belong together: the     *)
(* other half is next to a pair, or it was made before and is an edge now.   *)
Reverse(p) == <<p[2], p[1]>>

InPairs ==
  \A w \in Workers : \A i \in 1 .. Len(todo[w]) :
     \/ i + 1 <= Len(todo[w]) /\ todo[w][i + 1] = Reverse(todo[w][i])
     \/ i > 1 /\ todo[w][i - 1] = Reverse(todo[w][i])
     \/ i = 1 /\ todo[w][i][1] \in edges[todo[w][i][2]]

UndirectedInv == TypeInv /\ Undirected /\ (~raced => InPairs)

(* The two appends that connect two vertices are next to each other. *)
LEMMA ConnectingInPairs ==
  ASSUME NEW v \in Vertices, NEW others \in Seq(Vertices)
  PROVE  LET t == Connecting(v, others)
         IN \A i \in 1 .. Len(t) :
              \/ i + 1 <= Len(t) /\ t[i + 1] = Reverse(t[i])
              \/ i > 1 /\ t[i - 1] = Reverse(t[i])
<1> DEFINE t == Connecting(v, others)
<1> SUFFICES ASSUME NEW i \in 1 .. Len(t)
             PROVE  \/ i + 1 <= Len(t) /\ t[i + 1] = Reverse(t[i])
                    \/ i > 1 /\ t[i - 1] = Reverse(t[i])
  OBVIOUS
<1>1. /\ Len(others) \in Nat /\ Len(t) = 2 * Len(others)
      /\ \A j \in 1 .. Len(t) :
           t[j] = IF j % 2 = 1 THEN <<others[(j + 1) \div 2], v>>
                               ELSE <<v, others[(j + 1) \div 2]>>
  BY ConnectingType
<1> HIDE DEF t
<1>2. CASE i % 2 = 1
  <2>1. /\ i + 1 <= Len(t) /\ (i + 1) % 2 # 1
        /\ (i + 1 + 1) \div 2 = (i + 1) \div 2
    BY <1>1, <1>2
  <2>2. /\ t[i] = <<others[(i + 1) \div 2], v>>
        /\ t[i + 1] = <<v, others[(i + 1) \div 2]>>
    BY <1>1, <1>2, <2>1
  <2> QED
    BY <2>1, <2>2 DEF Reverse
<1>3. CASE ~(i % 2 = 1)
  <2>1. /\ i > 1 /\ i - 1 \in 1 .. Len(t) /\ (i - 1) % 2 = 1
        /\ (i - 1 + 1) \div 2 = (i + 1) \div 2
    BY <1>1, <1>3
  <2>2. /\ t[i] = <<v, others[(i + 1) \div 2]>>
        /\ t[i - 1] = <<others[(i + 1) \div 2], v>>
    BY <1>1, <1>3, <2>1
  <2> QED
    BY <2>1, <2>2 DEF Reverse
<1> QED
  BY <1>2, <1>3

(* A step that changes neither edges nor todo does not disturb them. *)
LEMMA UndirectedKept ==
  ASSUME UndirectedInv, TypeInv', UNCHANGED <<edges, todo, raced>>
  PROVE  UndirectedInv'
BY DEF UndirectedInv, Undirected, InPairs, Pending

(* Neither does one that gives a worker pairs to append. *)
LEMMA UndirectedPlanned ==
  ASSUME UndirectedInv, TypeInv', NEW w \in Workers, pc[w] \notin Busy,
         NEW others \in Seq(Vertices),
         todo' = [todo EXCEPT ![w] = Connecting(node[w], others)],
         UNCHANGED <<edges, raced>>
  PROVE  UndirectedInv'
<1> DEFINE plan == Connecting(node[w], others)
<1>1. /\ todo[w] = <<>>
      /\ todo'[w] = plan
      /\ \A u \in Workers : u # w => todo'[u] = todo[u]
  BY DEF UndirectedInv, TypeInv, TypeOK, HeadNeeded
<1>2. \A i \in 1 .. Len(plan) :
        \/ i + 1 <= Len(plan) /\ plan[i + 1] = Reverse(plan[i])
        \/ i > 1 /\ plan[i - 1] = Reverse(plan[i])
  <2>1. node[w] \in Vertices
    BY DEF UndirectedInv, TypeInv, TypeOK
  <2> QED
    BY <2>1, ConnectingInPairs
<1> HIDE DEF plan
<1>3. \A u \in Workers, v, e \in Vertices : Pending(u, v, e) => Pending(u, v, e)'
  BY <1>1 DEF Pending
<1>4. Undirected'
  BY <1>3 DEF UndirectedInv, Undirected
<1>5. InPairs' \/ raced'
  <2> SUFFICES ASSUME ~raced PROVE InPairs'
    OBVIOUS
  <2>1. InPairs
    BY DEF UndirectedInv
  <2> QED
    BY <1>1, <1>2, <2>1 DEF InPairs
<1> QED
  BY <1>4, <1>5 DEF UndirectedInv

(* An append that has lost nothing adds an edge; its pair is done. *)
LEMMA UndirectedWritten ==
  ASSUME UndirectedInv, TypeInv', NEW w \in Workers, WriteEdges(w)
  PROVE  UndirectedInv'
<1> SUFFICES ASSUME ~raced' PROVE Undirected' /\ InPairs'
  BY DEF UndirectedInv, Undirected
<1>0. pc[w] \in Busy
  BY DEF WriteEdges, Busy
<1>b. PICK v \in Vertices, e \in Vertices, rest \in Seq(Pairs) :
        v = Target(w) /\ e = Edge(w) /\ rest = Tail(todo[w])
  BY <1>0, HeadType DEF UndirectedInv
<1>1. ~raced /\ edges[v] = old[w]
  BY <1>b DEF WriteEdges
<1>2. /\ todo[w][1] = <<v, e>>
      /\ Len(todo[w]) \in Nat /\ Len(todo[w]) > 0
      /\ Len(rest) = Len(todo[w]) - 1
      /\ \A i \in 1 .. Len(todo[w]) - 1 : rest[i] = todo[w][i + 1]
  BY <1>0, <1>b, HeadType DEF UndirectedInv
<1>3. edges' = [edges EXCEPT ![v] = edges[v] \cup {e}]
  <2>1. Appended(old[w], edges[v], e) = {edges[v] \cup {e}}
    BY <1>1 DEF Appended
  <2> QED
    BY <1>b, <2>1 DEF WriteEdges
<1>4. \A u \in Vertices : edges'[u] = IF u = v THEN edges[u] \cup {e} ELSE edges[u]
  BY <1>3 DEF UndirectedInv, TypeInv, TypeOK
<1>5. /\ todo'[w] = rest
      /\ \A u \in Workers : u # w => todo'[u] = todo[u]
  BY <1>b DEF WriteEdges, UndirectedInv, TypeInv, TypeOK
<1>6. InPairs /\ Undirected
  BY <1>1 DEF UndirectedInv
(* What is pending stays so, but for the pair that is done. *)
<1>7. ASSUME NEW u \in Workers, NEW x, NEW y, Pending(u, x, y), <<x, y>> # <<v, e>>
      PROVE  Pending(u, x, y)'
  <2>1. PICK i \in 1 .. Len(todo[u]) : todo[u][i] = <<x, y>>
    BY <1>7 DEF Pending
  <2>2. CASE u # w
    BY <1>5, <2>1, <2>2 DEF Pending
  <2>3. CASE u = w
    <3>1. i # 1
      BY <1>2, <1>7, <2>1, <2>3
    <3>2. i - 1 \in 1 .. Len(rest) /\ rest[i - 1] = <<x, y>>
      BY <1>2, <2>1, <2>3, <3>1
    <3> QED
      BY <1>5, <2>3, <3>2 DEF Pending
  <2> QED
    BY <2>2, <2>3
(* The other direction of the new edge is there or comes next. *)
<1>8. v \in edges[e] \/ Pending(w, e, v)'
  <2>1. \/ 1 + 1 <= Len(todo[w]) /\ todo[w][1 + 1] = Reverse(todo[w][1])
        \/ todo[w][1][1] \in edges[todo[w][1][2]]
    BY <1>2, <1>6 DEF InPairs
  <2>2. CASE todo[w][1][1] \in edges[todo[w][1][2]]
    BY <1>2, <2>2
  <2>3. CASE 1 + 1 <= Len(todo[w]) /\ todo[w][1 + 1] = Reverse(todo[w][1])
    <3>1. 1 \in 1 .. Len(rest) /\ rest[1] = <<e, v>>
      BY <1>2, <2>3 DEF Reverse
    <3> QED
      BY <1>5, <3>1 DEF Pending
  <2> QED
    BY <2>1, <2>2, <2>3
<1>9. Undirected'
  <2> SUFFICES ASSUME NEW x \in Vertices, NEW y \in Vertices, y \in edges'[x]
               PROVE  x \in edges'[y] \/ \E u \in Workers : Pending(u, y, x)'
    BY DEF Undirected
  <2>1. CASE y \in edges[x]
    <3>1. CASE x \in edges[y]
      BY <1>4, <3>1
    <3>2. ASSUME NEW u \in Workers, Pending(u, y, x)
          PROVE  x \in edges'[y] \/ Pending(u, y, x)'
      <4>1. CASE y = v /\ x = e
        BY <1>4, <4>1
      <4>2. CASE ~(y = v /\ x = e)
        BY <1>7, <3>2, <4>2
      <4> QED
        BY <4>1, <4>2
    <3> QED
      BY <1>1, <1>6, <2>1, <3>1, <3>2 DEF Undirected
  <2>2. CASE ~(y \in edges[x])
    <3>1. x = v /\ y = e
      BY <1>4, <2>2
    <3> QED
      BY <1>2, <1>4, <1>8, <3>1
  <2> QED
    BY <2>1, <2>2
<1>10. InPairs'
  <2> SUFFICES ASSUME NEW u \in Workers, NEW i \in 1 .. Len(todo'[u])
               PROVE  \/ i + 1 <= Len(todo'[u]) /\ todo'[u][i + 1] = Reverse(todo'[u][i])
                      \/ i > 1 /\ todo'[u][i - 1] = Reverse(todo'[u][i])
                      \/ i = 1 /\ todo'[u][i][1] \in edges'[todo'[u][i][2]]
    BY DEF InPairs
  <2>1. CASE u # w
    <3>1. todo'[u] = todo[u] /\ i \in 1 .. Len(todo[u])
      BY <1>5, <2>1
    <3>2. \/ i + 1 <= Len(todo[u]) /\ todo[u][i + 1] = Reverse(todo[u][i])
          \/ i > 1 /\ todo[u][i - 1] = Reverse(todo[u][i])
          \/ i = 1 /\ todo[u][i][1] \in edges[todo[u][i][2]]
      BY <1>6, <3>1 DEF InPairs
    <3>3. todo[u][i][2] \in Vertices
      <4>1. todo[u] \in Seq(Vertices \X Vertices)
        BY DEF UndirectedInv, TypeInv, TypeOK
      <4>2. todo[u][i] \in Vertices \X Vertices
        BY <3>1, <4>1
      <4> QED
        BY <4>2
    <3>4. edges[todo[u][i][2]] \subseteq edges'[todo[u][i][2]]
      BY <1>4, <3>3
    <3> QED
      BY <3>1, <3>2, <3>4
  <2>2. CASE u = w
    <3>1. /\ todo'[u] = rest
          /\ i \in Nat /\ i >= 1 /\ i <= Len(rest) /\ i + 1 \in 1 .. Len(todo[w])
          /\ rest[i] = todo[w][i + 1]
      BY <1>2, <1>5, <2>2
    <3>2. \/ i + 1 + 1 <= Len(todo[w]) /\ todo[w][i + 1 + 1] = Reverse(todo[w][i + 1])
          \/ todo[w][i + 1 - 1] = Reverse(todo[w][i + 1])
      BY <1>6, <3>1 DEF InPairs
    <3>3. CASE i + 1 + 1 <= Len(todo[w]) /\ todo[w][i + 1 + 1] = Reverse(todo[w][i + 1])
      <4>1. i + 1 <= Len(rest) /\ rest[i + 1] = todo[w][i + 1 + 1]
        BY <1>2, <3>1, <3>3
      <4> QED
        BY <3>1, <3>3, <4>1
    <3>4. CASE todo[w][i + 1 - 1] = Reverse(todo[w][i + 1])
      <4>0. todo[w][i] = Reverse(rest[i])
        <5>1. i + 1 - 1 = i
          BY <3>1
        <5> QED
          BY <3>1, <3>4, <5>1
      <4>1. CASE i > 1
        <5>1. rest[i - 1] = todo[w][i]
          <6>1. i - 1 \in 1 .. Len(todo[w]) - 1 /\ (i - 1) + 1 = i
            BY <1>2, <3>1, <4>1
          <6> QED
            BY <1>2, <6>1
        <5> QED
          BY <3>1, <4>0, <4>1, <5>1
      <4>2. CASE i = 1
        <5>1. <<v, e>> = <<rest[1][2], rest[1][1]>>
          BY <1>2, <4>0, <4>2 DEF Reverse
        <5>2. rest[1][2] = v /\ rest[1][1] = e
          BY <5>1
        <5>3. e \in edges'[v]
          BY <1>4
        <5> QED
          BY <3>1, <4>2, <5>2, <5>3
      <4> QED
        BY <3>1, <4>1, <4>2
    <3> QED
      BY <3>2, <3>3, <3>4
  <2> QED
    BY <2>1, <2>2
<1> QED
  BY <1>9, <1>10

LEMMA StepUndirectedInv ==
  ASSUME UndirectedInv, [Next]_vars PROVE UndirectedInv'
<1>1. TypeInv /\ TypeInv'
  BY StepTypeInv DEF UndirectedInv
<1>2. ASSUME NEW w \in Workers, LockAll(w) PROVE UndirectedInv'
  <2>1. vertices \in Seq(Vertices)
    BY <1>1 DEF TypeInv, TypeOK
  <2>2. /\ pc[w] \notin Busy
        /\ todo' = [todo EXCEPT ![w] = Connecting(node[w], vertices)]
        /\ UNCHANGED <<edges, raced>>
    BY <1>2 DEF LockAll, Busy
  <2> QED
    BY <1>1, <2>1, <2>2, UndirectedPlanned
<1>3. ASSUME NEW w \in Workers, Choose(w) PROVE UndirectedInv'
  <2>1. CASE Cardinality(found[w]) < k
    BY <1>1, <1>3, <2>1, UndirectedKept DEF Choose, graph
  <2>2. CASE ~(Cardinality(found[w]) < k)
    <3>1. PICK neighbors \in Nearest(found[w], DistTo(w), k) :
            todo' = [todo EXCEPT ![w] = Connecting(node[w], neighbors)]
      BY <1>3, <2>2 DEF Choose
    <3>2. found[w] \subseteq Vertices
      BY <1>1 DEF TypeInv, TypeOK
    <3>3. neighbors \in Seq(Vertices)
      BY <2>2, <3>2, NearestType
    <3>4. pc[w] \notin Busy /\ UNCHANGED <<edges, raced>>
      BY <1>3 DEF Choose, graph, Busy
    <3> QED
      BY <1>1, <3>1, <3>3, <3>4, UndirectedPlanned
  <2> QED
    BY <2>1, <2>2
<1>4. ASSUME NEW w \in Workers, WriteEdges(w) PROVE UndirectedInv'
  BY <1>1, <1>4, UndirectedWritten
<1>5. ASSUME NEW w \in Workers,
             \/ Take(w) \/ ReadLen(w) \/ FirstInsert(w) \/ Enter(w)
             \/ \E c \in Vertices : Expand(w, c)
             \/ ReadEdges(w) \/ AddVertex(w)
      PROVE  UndirectedInv'
  <2>1. UNCHANGED <<edges, todo, raced>>
    BY <1>5 DEF Take, ReadLen, FirstInsert, Enter, Expand, ReadEdges, AddVertex, graph
  <2> QED
    BY <1>1, <2>1, UndirectedKept
<1>6. CASE UNCHANGED vars
  <2>1. UNCHANGED <<edges, todo, raced>>
    BY <1>6 DEF vars, graph
  <2> QED
    BY <1>1, <2>1, UndirectedKept
<1> QED
  BY <1>2, <1>3, <1>4, <1>5, <1>6 DEF Next, Step, Insert, Over

(* What the last theorem needs holds in every state: the missing halves of   *)
(* the edges are appends that are about to be made, and the two halves of a  *)
(* pair follow each other (nsw.go:46-52).                                    *)
THEOREM UndirectedInvariance == Spec => []UndirectedInv
<1>1. Init => UndirectedInv
  <2>1. ASSUME Init PROVE Undirected /\ InPairs
    BY <2>1 DEF Init, Undirected, InPairs
  <2> QED
    BY <2>1, InitTypeInv DEF UndirectedInv
<1>2. UndirectedInv /\ [Next]_vars => UndirectedInv'
  BY StepUndirectedInv
<1> QED
  BY <1>1, <1>2, PTL DEF Spec

(* Until an append loses edges of others, the graph is undirected but for    *)
(* the appends that are about to be made, whatever the workers search and    *)
(* append at the same time.                                                  *)
THEOREM UndirectedUntilRaced == Spec => []Undirected
<1>1. UndirectedInv => Undirected
  BY DEF UndirectedInv
<1> QED
  BY <1>1, UndirectedInvariance, PTL
-------------------------------------------------------------------------------
(* Every job that was handed out is with one worker or in the list once, as  *)
(* long as the list was made no more than once.                              *)
Active(w) == pc[w] # "idle"

Placed ==
  /\ \A i, j \in 1 .. Len(vertices) : i # j => vertices[i] # vertices[j]
  /\ \A i \in 1 .. Len(vertices) : vertices[i] < jobs
  /\ \A i \in 1 .. Len(vertices), w \in Workers : Active(w) => vertices[i] # node[w]
  /\ \A v \in Vertices :
       v < jobs => \/ \E i \in 1 .. Len(vertices) : vertices[i] = v
                  \/ \E w \in Workers : Active(w) /\ node[w] = v

JobsInv ==
  /\ TypeInv
  /\ \A w \in Workers : Active(w) => node[w] < jobs
  /\ \A u, w \in Workers : Active(u) /\ Active(w) /\ u # w => node[u] # node[w]
  /\ \A w \in Workers : pc[w] \notin {"idle", "len", "first"} => firsts # 0
  /\ firsts = 0 => vertices = <<>>
  /\ firsts <= 1 => Placed

LEMMA StepJobsInv ==
  ASSUME JobsInv, [Next]_vars PROVE JobsInv'
<1>1. TypeInv /\ TypeInv'
  BY StepTypeInv DEF JobsInv
<1>2. ASSUME NEW w \in Workers, Take(w) PROVE JobsInv'
  <2>1. /\ jobs \in Vertices /\ jobs \in Nat /\ jobs' = jobs + 1
        /\ pc[w] = "idle" /\ pc'[w] = "len" /\ node'[w] = jobs
        /\ \A u \in Workers : u # w => pc'[u] = pc[u] /\ node'[u] = node[u]
        /\ UNCHANGED <<vertices, firsts>>
    BY <1>1, <1>2, NAssumption DEF Take, graph, TypeInv, TypeOK, Vertices
  <2>2. /\ \A u \in Workers : node[u] \in Nat
        /\ \A i \in 1 .. Len(vertices) : vertices[i] \in Nat
        /\ \A v \in Vertices : v \in Nat
    <3>1. \A v \in Vertices : v \in Nat
      BY DEF Vertices
    <3>2. /\ \A u \in Workers : node[u] \in Vertices
          /\ \A i \in 1 .. Len(vertices) : vertices[i] \in Vertices
      BY <1>1 DEF TypeInv, TypeOK
    <3> QED
      BY <3>1, <3>2
  <2>3. ASSUME firsts <= 1 PROVE Placed'
    <3>1. Placed
      BY <2>3 DEF JobsInv
    <3>2. ASSUME NEW v \in Vertices, v < jobs'
          PROVE  \/ \E i \in 1 .. Len(vertices) : vertices[i] = v
                 \/ \E u \in Workers : Active(u)' /\ node'[u] = v
      <4>1. CASE v = jobs
        BY <2>1, <4>1 DEF Active
      <4>2. CASE v # jobs
        BY <2>1, <2>2, <3>1, <3>2, <4>2 DEF Placed, Active
      <4> QED
        BY <4>1, <4>2
    <3>3. /\ \A i, j \in 1 .. Len(vertices) : i # j => vertices[i] # vertices[j]
          /\ \A i \in 1 .. Len(vertices) : vertices[i] < jobs'
      <4>1. \A i \in 1 .. Len(vertices) : vertices[i] \in Nat /\ vertices[i] < jobs
        BY <2>2, <3>1 DEF Placed
      <4>2. \A n \in Nat : n < jobs => n < jobs'
        BY <2>1
      <4> QED
        BY <3>1, <4>1, <4>2 DEF Placed
    <3>4. ASSUME NEW i \in 1 .. Len(vertices), NEW u \in Workers, Active(u)'
          PROVE  vertices[i] # node'[u]
      <4>1. CASE u = w
        BY <2>1, <2>2, <3>1, <4>1 DEF Placed
      <4>2. CASE u # w
        BY <2>1, <3>1, <3>4, <4>2 DEF Placed, Active
      <4> QED
        BY <4>1, <4>2
    <3> QED
      BY <2>1, <3>2, <3>3, <3>4 DEF Placed
  <2> QED
    BY <1>1, <2>1, <2>2, <2>3 DEF JobsInv, Active
<1>3. ASSUME NEW w \in Workers, FirstInsert(w) PROVE JobsInv'
  <2>1. /\ pc[w] = "first" /\ pc'[w] = "idle"
        /\ \A u \in Workers : u # w => pc'[u] = pc[u]
        /\ vertices' = <<node[w]>> /\ firsts' = firsts + 1
        /\ UNCHANGED <<jobs, node>>
    BY <1>1, <1>3 DEF FirstInsert, TypeInv, TypeOK
  <2>2. firsts \in Nat
    BY <1>1 DEF TypeInv, TypeOK
  <2>3. Len(vertices') = 1 /\ vertices'[1] = node[w]
    BY <2>1
  <2>4. ASSUME firsts' <= 1 PROVE Placed'
    <3>1. Placed /\ vertices = <<>>
      BY <2>1, <2>2, <2>4 DEF JobsInv
    <3>2. Active(w) /\ node[w] < jobs
      BY <2>1 DEF Active, JobsInv
    <3>3. ASSUME NEW v \in Vertices, v < jobs
          PROVE  \/ \E i \in 1 .. Len(vertices') : vertices'[i] = v
                 \/ \E u \in Workers : Active(u)' /\ node[u] = v
      <4>1. PICK u \in Workers : Active(u) /\ node[u] = v
        <5>1. Len(vertices) = 0
          BY <3>1
        <5> QED
          BY <3>1, <3>3, <5>1 DEF Placed
      <4>2. CASE u = w
        BY <2>3, <4>1, <4>2
      <4>3. CASE u # w
        BY <2>1, <4>1, <4>3 DEF Active
      <4> QED
        BY <4>2, <4>3
    <3>4. \A u \in Workers : Active(u)' => node[w] # node[u]
      BY <2>1, <3>2 DEF JobsInv, Active
    <3> QED
      BY <2>1, <2>3, <3>2, <3>3, <3>4 DEF Placed
  <2> QED
    BY <1>1, <2>1, <2>2, <2>4 DEF JobsInv, Active
<1>4. ASSUME NEW w \in Workers, AddVertex(w) PROVE JobsInv'
  <2>1. /\ pc[w] = "add" /\ pc'[w] = "idle"
        /\ \A u \in Workers : u # w => pc'[u] = pc[u]
        /\ vertices' = Append(vertices, node[w])
        /\ UNCHANGED <<jobs, node, firsts>>
    BY <1>1, <1>4 DEF AddVertex, TypeInv, TypeOK
  <2>2. /\ firsts # 0 /\ Active(w) /\ node[w] < jobs
    BY <2>1 DEF JobsInv, Active
  <2>3. /\ Len(vertices) \in Nat /\ Len(vertices') = Len(vertices) + 1
        /\ vertices'[Len(vertices) + 1] = node[w]
        /\ \A i \in 1 .. Len(vertices) : vertices'[i] = vertices[i]
    BY <1>1, <2>1 DEF TypeInv, TypeOK
  <2>4. \A i \in 1 .. Len(vertices') :
          i \in 1 .. Len(vertices) \/ i = Len(vertices) + 1
    BY <2>3
  <2>5. ASSUME firsts <= 1 PROVE Placed'
    <3>1. Placed
      BY <2>5 DEF JobsInv
    <3>2. \A i, j \in 1 .. Len(vertices') : i # j => vertices'[i] # vertices'[j]
      BY <2>2, <2>3, <2>4, <3>1 DEF Placed
    <3>3. \A i \in 1 .. Len(vertices') : vertices'[i] < jobs'
      BY <2>1, <2>2, <2>3, <2>4, <3>1 DEF Placed
    <3>4. \A i \in 1 .. Len(vertices'), u \in Workers :
            Active(u)' => vertices'[i] # node'[u]
      <4> SUFFICES ASSUME NEW i \in 1 .. Len(vertices'), NEW u \in Workers, Active(u)'
                   PROVE  vertices'[i] # node[u]
        BY <2>1
      <4>1. u # w /\ Active(u)
        BY <2>1 DEF Active
      <4> QED
        BY <2>2, <2>3, <2>4, <3>1, <4>1 DEF Placed, JobsInv
    <3>5. ASSUME NEW v \in Vertices, v < jobs
          PROVE  \/ \E i \in 1 .. Len(vertices') : vertices'[i] = v
                 \/ \E u \in Workers : Active(u)' /\ node[u] = v
      <4>1. CASE v = node[w]
        BY <2>3, <4>1
      <4>2. CASE v # node[w]
        BY <2>1, <2>3, <3>1, <3>5, <4>2 DEF Placed, Active
      <4> QED
        BY <4>1, <4>2
    <3> QED
      BY <2>1, <3>2, <3>3, <3>4, <3>5 DEF Placed
  <2> QED
    BY <1>1, <2>1, <2>2, <2>5 DEF JobsInv, Active
<1>5. ASSUME NEW w \in Workers, ReadLen(w) PROVE JobsInv'
  <2>1. /\ pc[w] = "len"
        /\ pc' = [pc EXCEPT ![w] = IF Len(vertices) = 0 THEN "first"
                                   ELSE IF Len(vertices) < k THEN "all"
                                   ELSE "entry"]
        /\ UNCHANGED <<vertices, firsts, jobs, node>>
    BY <1>5 DEF ReadLen, graph
  <2>2. /\ pc'[w] \in {"first", "all", "entry"}
        /\ pc'[w] # "first" => firsts # 0
        /\ \A u \in Workers : u # w => pc'[u] = pc[u]
    BY <1>1, <2>1 DEF TypeInv, TypeOK, JobsInv
  <2>3. \A u \in Workers : Active(u)' <=> Active(u)
    BY <2>1, <2>2 DEF Active
  <2>4. Placed => Placed'
    BY <2>1, <2>3 DEF Placed
  <2> QED
    BY <1>1, <2>1, <2>2, <2>3, <2>4 DEF JobsInv
<1>6. ASSUME NEW w \in Workers,
             \/ LockAll(w) \/ Enter(w) \/ Choose(w) \/ ReadEdges(w) \/ WriteEdges(w)
             \/ \E c \in Vertices : Expand(w, c)
      PROVE  JobsInv'
  <2>1. /\ pc[w] \notin {"idle", "len", "first"} /\ pc'[w] # "idle"
        /\ \A u \in Workers : u # w => pc'[u] = pc[u]
        /\ UNCHANGED <<vertices, firsts, jobs, node>>
    BY <1>1, <1>6
       DEF LockAll, Enter, Choose, ReadEdges, WriteEdges, Expand, graph, TypeInv, TypeOK
  <2>2. \A u \in Workers : Active(u)' <=> Active(u)
    BY <2>1 DEF Active
  <2>3. Placed => Placed'
    BY <2>1, <2>2 DEF Placed
  <2> QED
    BY <1>1, <2>1, <2>2, <2>3 DEF JobsInv
<1>7. CASE UNCHANGED vars
  BY <1>1, <1>7 DEF vars, graph, JobsInv, Placed, Active
<1> QED
  BY <1>2, <1>3, <1>4, <1>5, <1>6, <1>7 DEF Next, Step, Insert, Over

LEMMA InitJobsInv == Init => JobsInv
<1>1. ASSUME Init PROVE Placed
  <2>1. Len(vertices) = 0 /\ jobs = 0
    BY <1>1 DEF Init
  <2>2. \A v \in Vertices : ~(v < jobs)
    BY <2>1 DEF Vertices
  <2> QED
    BY <2>1, <2>2 DEF Placed
<1> QED
  BY <1>1, InitTypeInv DEF Init, JobsInv, Active

(* Unless two workers have both found the graph empty, no insertion of any   *)
(* worker overwrites or repeats another one in the list of vertices.         *)
THEOREM NothingIsLost == Spec => []NothingLost
<1>1. Init => JobsInv
  BY InitJobsInv
<1>2. JobsInv /\ [Next]_vars => JobsInv'
  BY StepJobsInv
<1>3. JobsInv => NothingLost
  <2> SUFFICES ASSUME JobsInv, Quiet, firsts <= 1
               PROVE  /\ Inserted = Vertices
                      /\ \A i, j \in 1 .. Len(vertices) : i # j => vertices[i] # vertices[j]
    BY DEF NothingLost
  <2>1. Placed
    BY DEF JobsInv
  <2>2. \A v \in Vertices : v < jobs
    BY NAssumption DEF Quiet, Vertices
  <2>3. Inserted \subseteq Vertices
    BY DEF JobsInv, TypeInv, TypeOK, Inserted
  <2>4. Vertices \subseteq Inserted
    BY <2>1, <2>2 DEF Placed, Active, Quiet, Inserted
  <2> QED
    BY <2>1, <2>3, <2>4 DEF Placed
<1> QED
  BY <1>1, <1>2, <1>3, PTL DEF Spec
-------------------------------------------------------------------------------
(* Facts about numbers, sets and lists that the arguments below count with.  *)
Below == {p \in Nat \X Nat : p[1] < p[2]}

LEMMA BelowWellFounded == IsWellFoundedOn(Below, Nat)
BY NatLessThanWellFounded, Zenon DEF OpToRel, Below

LEMMA LeastNatural ==
  ASSUME NEW T, T \subseteq Nat, T # {}
  PROVE  \E x \in T : \A y \in T : x <= y
<1>1. PICK x \in T : \A y \in T : ~(<<y, x>> \in Below)
  BY BelowWellFounded, WFMin
<1>2. \A y \in T : y < x => <<y, x>> \in Below
  BY DEF Below
<1>3. \A y \in T : ~(y < x)
  BY <1>1, <1>2
<1>4. \A y \in T : x <= y
  BY <1>3
<1> QED
  BY <1>4

(* minimum() of a tree that is not empty finds something. *)
LEMMA MinimaExist ==
  ASSUME NEW v \in Vertices, NEW S, S \subseteq Vertices, S # {}
  PROVE  Minima(S, Dist[v]) # {}
<1> DEFINE T == {Dist[v][x] : x \in S}
<1>1. T \subseteq Nat /\ T # {}
  BY DistAssumption
<1>2. PICK n \in T : \A m \in T : n <= m
  BY <1>1, LeastNatural
<1> QED
  BY <1>2 DEF Minima

LEMMA VerticesFinite ==
  ASSUME NEW S, S \subseteq Vertices
  PROVE  IsFiniteSet(S) /\ Cardinality(S) \in Nat
<1>1. IsFiniteSet(Vertices)
  BY NAssumption, FS_Interval DEF Vertices
<1> QED
  BY <1>1, FS_Subset, FS_CardinalityType

LEMMA LargerSet ==
  ASSUME NEW S, NEW T, S \subseteq T, T \subseteq Vertices, k <= Cardinality(S)
  PROVE  k <= Cardinality(T)
<1>1. /\ Cardinality(S) \in Nat /\ Cardinality(T) \in Nat
      /\ Cardinality(S) <= Cardinality(T)
  BY VerticesFinite, FS_Subset
<1> QED
  BY <1>1, KAssumption

(* A set that has the k first members of a list without repetitions has at   *)
(* least k members.                                                          *)
LEMMA AtLeast ==
  ASSUME NEW f, NEW S, S \subseteq Vertices,
         \A i \in 1 .. k : f[i] \in S,
         \A i, j \in 1 .. k : i # j => f[i] # f[j]
  PROVE  k <= Cardinality(S)
<1> DEFINE g == [i \in 1 .. k |-> f[i]]
<1>1. g \in Injection(1 .. k, S)
  BY DEF Injection, IsInjective
<1>2. IsFiniteSet(S)
  BY VerticesFinite
<1>3. Cardinality(1 .. k) <= Cardinality(S)
  BY <1>1, <1>2, FS_Injection
<1>4. Cardinality(1 .. k) = k
  BY KAssumption, FS_Interval
<1> QED
  BY <1>3, <1>4

(* Both appends are planned for each of the others. *)
Plans(plan, x, y) == \E j \in 1 .. Len(plan) : plan[j] = <<x, y>>

LEMMA ConnectingPlans ==
  ASSUME NEW v \in Vertices, NEW others \in Seq(Vertices), NEW i \in 1 .. Len(others),
         NEW plan, plan = Connecting(v, others)
  PROVE  Plans(plan, v, others[i]) /\ Plans(plan, others[i], v)
<1>1. /\ Len(others) \in Nat /\ i \in Nat /\ 1 <= i /\ i <= Len(others)
      /\ Len(plan) = 2 * Len(others)
      /\ \A j \in 1 .. 2 * Len(others) :
           plan[j] = IF j % 2 = 1 THEN <<others[(j + 1) \div 2], v>>
                                  ELSE <<v, others[(j + 1) \div 2]>>
  BY ConnectingType
<1>2. /\ 2 * i \in 1 .. Len(plan) /\ ~((2 * i) % 2 = 1)
      /\ (2 * i + 1) \div 2 = i
  BY <1>1
<1>3. /\ 2 * i - 1 \in 1 .. Len(plan) /\ (2 * i - 1) % 2 = 1
      /\ (2 * i - 1 + 1) \div 2 = i
  BY <1>1
<1>4. plan[2 * i] = <<v, others[i]>>
  BY <1>1, <1>2
<1>5. plan[2 * i - 1] = <<others[i], v>>
  BY <1>1, <1>3
<1> QED
  BY <1>2, <1>3, <1>4, <1>5 DEF Plans

(* The k neighbors chosen are different ones. *)
LEMMA NearestDifferent ==
  ASSUME NEW S, S \subseteq Vertices, NEW d, ~(Cardinality(S) < k),
         NEW s \in Nearest(S, d, k)
  PROVE  \A i, j \in 1 .. k : i # j => s[i] # s[j]
<1>1. \A i, j \in 1 .. k : i < j => s[i] # s[j]
  BY DEF Nearest
<1>2. \A i, j \in 1 .. k : i # j => i < j \/ j < i
  BY KAssumption
<1> QED
  BY <1>1, <1>2

-------------------------------------------------------------------------------
(* What a worker that extends vertices has in common with the others that    *)
(* do: an edge is there, or it will be.                                      *)
After(w) == pc[w] \in {"append", "store", "add"}

Will(w, x, y) == y \in edges[x] \/ Pending(w, x, y)

(* Neither two first insertions nor a lost append, so far.                   *)
Fine == firsts <= 1 /\ ~raced

(* An append that has lost nothing adds its edge; nothing that was going to  *)
(* be an edge is forgotten.                                                  *)
LEMMA EdgeWritten ==
  ASSUME TypeInv, NEW w \in Workers, WriteEdges(w), ~raced'
  PROVE  /\ ~raced
         /\ \E v, e \in Vertices :
              /\ todo[w][1] = <<v, e>> /\ 1 \in 1 .. Len(todo[w])
              /\ \A u \in Vertices :
                   edges'[u] = IF u = v THEN edges[u] \cup {e} ELSE edges[u]
         /\ \A u \in Workers, x, y \in Vertices : Will(u, x, y) => Will(u, x, y)'
         /\ \A u \in Workers : \A i \in 1 .. Len(todo'[u]) :
              \E j \in 1 .. Len(todo[u]) : todo'[u][i] = todo[u][j]
<1>0. pc[w] \in Busy
  BY DEF WriteEdges, Busy
<1>1. PICK v \in Vertices, e \in Vertices, rest \in Seq(Pairs) :
        v = Target(w) /\ e = Edge(w) /\ rest = Tail(todo[w])
  BY <1>0, HeadType
<1>2. ~raced /\ edges[v] = old[w]
  BY <1>1 DEF WriteEdges
<1>3. /\ todo[w][1] = <<v, e>>
      /\ Len(todo[w]) \in Nat /\ Len(todo[w]) > 0
      /\ Len(rest) = Len(todo[w]) - 1
      /\ \A i \in 1 .. Len(todo[w]) - 1 : rest[i] = todo[w][i + 1]
  BY <1>0, <1>1, HeadType
<1>4. edges' = [edges EXCEPT ![v] = edges[v] \cup {e}]
  <2>1. Appended(old[w], edges[v], e) = {edges[v] \cup {e}}
    BY <1>2 DEF Appended
  <2> QED
    BY <1>1, <2>1 DEF WriteEdges
<1>5. \A u \in Vertices : edges'[u] = IF u = v THEN edges[u] \cup {e} ELSE edges[u]
  BY <1>4 DEF TypeInv, TypeOK
<1>6. /\ todo'[w] = rest
      /\ \A u \in Workers : u # w => todo'[u] = todo[u]
  BY <1>1 DEF WriteEdges, TypeInv, TypeOK
<1>7. ASSUME NEW u \in Workers, NEW x \in Vertices, NEW y \in Vertices, Will(u, x, y)
      PROVE  Will(u, x, y)'
  <2>1. CASE y \in edges[x]
    BY <1>5, <2>1 DEF Will
  <2>2. CASE Pending(u, x, y)
    <3>1. PICK i \in 1 .. Len(todo[u]) : todo[u][i] = <<x, y>>
      BY <2>2 DEF Pending
    <3>2. CASE u # w
      BY <1>6, <3>1, <3>2 DEF Pending, Will
    <3>3. CASE u = w /\ i = 1
      <4>1. x = v /\ y = e
        BY <1>3, <3>1, <3>3
      <4> QED
        BY <1>5, <4>1 DEF Will
    <3>4. CASE u = w /\ i # 1
      <4>1. i - 1 \in 1 .. Len(rest) /\ rest[i - 1] = <<x, y>>
        BY <1>3, <3>1, <3>4
      <4> QED
        BY <1>6, <3>4, <4>1 DEF Pending, Will
    <3> QED
      BY <3>2, <3>3, <3>4
  <2> QED
    BY <1>7, <2>1, <2>2 DEF Will
<1>8. ASSUME NEW u \in Workers, NEW i \in 1 .. Len(todo'[u])
      PROVE  \E j \in 1 .. Len(todo[u]) : todo'[u][i] = todo[u][j]
  <2>1. CASE u # w
    BY <1>6, <1>8, <2>1
  <2>2. CASE u = w
    <3>1. i \in 1 .. Len(todo[w]) - 1 /\ i + 1 \in 1 .. Len(todo[w])
      BY <1>3, <1>6, <2>2
    <3>2. todo'[u][i] = todo[u][i + 1]
      BY <1>3, <1>6, <2>2, <3>1
    <3> QED
      BY <2>2, <3>1, <3>2
  <2> QED
    BY <2>1, <2>2
<1>9. 1 \in 1 .. Len(todo[w])
  BY <1>3
<1> QED
  BY <1>2, <1>3, <1>5, <1>7, <1>8, <1>9

(* The first k vertices are connected with each other, every later one with  *)
(* at least k. *)
Clique ==
  \A i, j \in 1 .. Len(vertices) :
     i # j /\ i <= k /\ j <= k => vertices[j] \in edges[vertices[i]]

Degrees ==
  \A i \in 1 .. Len(vertices) : i > k => k <= Cardinality(edges[vertices[i]])

(* The write lock is held across steps by a worker that connects its vertex  *)
(* with all, and the list does not change meanwhile; a worker that searches, *)
(* or has, once saw k vertices.                                              *)
Lock == \A w \in glock : glock = {w} /\ After(w)

Long ==
  \A w \in Workers :
     pc[w] \in {"entry", "search"} \/ (After(w) /\ w \notin glock)
       => k <= Len(vertices)

(* What a worker extends its vertex with, and under the lock the others.     *)
Others(w) == {y \in Vertices : Will(w, node[w], y)}

Locked ==
  \A w \in glock : \A i \in 1 .. Len(vertices) :
     Will(w, node[w], vertices[i]) /\ Will(w, vertices[i], node[w])

Planned ==
  \A w \in Workers :
     After(w) /\ w \notin glock
       => k <= Cardinality(Others(w))

(* A search has not expanded the vertex it began at; or has found the others *)
(* of the first k and will expand one of these; or has found enough.         *)
Seeking(w) ==
  \/ found[w] = {} /\ \E i \in 1 .. Len(vertices) : candidates[w] = {vertices[i]}
  \/ \E i, j \in 1 .. k :
       /\ i # j /\ vertices[j] \in candidates[w]
       /\ \A l \in 1 .. k : l # i => vertices[l] \in found[w]
  \/ k <= Cardinality(found[w])

Sought ==
  \A w \in Workers : IF pc[w] = "search" THEN Seeking(w) ELSE found[w] = {}

Enough == Clique /\ Degrees /\ Lock /\ Long /\ Locked /\ Planned /\ Sought /\ Running

EnoughInv == JobsInv /\ (Fine => Enough)

(* A step of w that changes neither the graph nor what w plans keeps them,   *)
(* if what w searches is as it should be.                                    *)
LEMMA EnoughFrame ==
  ASSUME TypeInv, TypeInv', Enough, NEW w \in Workers,
         UNCHANGED <<vertices, edges, glock, todo>>,
         \A u \in Workers : u # w => /\ pc'[u] = pc[u] /\ node'[u] = node[u]
                                     /\ candidates'[u] = candidates[u]
                                     /\ found'[u] = found[u],
         After(w)' <=> After(w),
         After(w) => node'[w] = node[w],
         pc'[w] # "panic",
         pc'[w] \in {"entry", "search"} => k <= Len(vertices),
         IF pc'[w] = "search" THEN Seeking(w)' ELSE found'[w] = {}
  PROVE  Enough'
<1>1. \A u \in Workers : /\ After(u)' <=> After(u)
                         /\ After(u) => node'[u] = node[u]
  BY DEF After
<1>2. \A u \in Workers, x, y \in Vertices : Will(u, x, y)' <=> Will(u, x, y)
  BY DEF Will, Pending
<1>3. glock \subseteq Workers /\ \A i \in 1 .. Len(vertices) : vertices[i] \in Vertices
  BY DEF TypeInv, TypeOK
<1>4. Clique' /\ Degrees'
  BY DEF Enough, Clique, Degrees
<1>5. Lock'
  BY <1>1, <1>3 DEF Enough, Lock
<1>6. Long'
  BY <1>1 DEF Enough, Long
<1>7. Locked'
  <2> SUFFICES ASSUME NEW u \in glock', NEW i \in 1 .. Len(vertices')
               PROVE  (Will(u, node[u], vertices[i]) /\ Will(u, vertices[i], node[u]))'
    BY DEF Locked
  <2>1. u \in glock /\ i \in 1 .. Len(vertices) /\ u \in Workers
    BY <1>3
  <2>2. /\ Will(u, node[u], vertices[i]) /\ Will(u, vertices[i], node[u])
        /\ After(u)
    BY <2>1 DEF Enough, Locked, Lock
  <2>3. node'[u] = node[u]
    BY <1>1, <2>1, <2>2
  <2> QED
    BY <2>2, <2>3 DEF Will, Pending
<1>8. Planned'
  <2> SUFFICES ASSUME NEW u \in Workers, After(u)', u \notin glock'
               PROVE  (k <= Cardinality(Others(u)))'
    BY DEF Planned
  <2>1. After(u) /\ node'[u] = node[u] /\ u \notin glock
    BY <1>1
  <2>2. Others(u)' = Others(u)
    BY <2>1 DEF Others, Will, Pending
  <2>3. k <= Cardinality(Others(u))
    BY <2>1 DEF Enough, Planned
  <2> QED
    BY <2>2, <2>3
<1>9. Sought'
  <2>1. \A u \in Workers : u # w /\ Seeking(u) => Seeking(u)'
    BY DEF Seeking
  <2> QED
    BY <2>1 DEF Enough, Sought
<1>10. Running'
  BY DEF Enough, Running
<1> QED
  BY <1>4, <1>5, <1>6, <1>7, <1>8, <1>9, <1>10 DEF Enough

LEMMA EnoughWritten ==
  ASSUME JobsInv, TypeInv', Enough, NEW w \in Workers, WriteEdges(w), ~raced'
  PROVE  Enough'
<1>0. TypeInv
  BY DEF JobsInv
<1>1. /\ UNCHANGED <<vertices, glock, node, candidates, found>>
      /\ \A u \in Workers : u # w => pc'[u] = pc[u]
      /\ pc[w] = "store" /\ pc'[w] \in {"add", "append"}
  BY <1>0 DEF WriteEdges, TypeInv, TypeOK, search
<1>2. \A u \in Workers : After(u)' <=> After(u)
  BY <1>1 DEF After
<1>3. /\ \A u \in Workers, x, y \in Vertices : Will(u, x, y) => Will(u, x, y)'
      /\ \A v \in Vertices : edges[v] \subseteq edges'[v] /\ edges'[v] \subseteq Vertices
  <2>1. \A v \in Vertices : edges'[v] \subseteq Vertices
    BY DEF TypeInv, TypeOK
  <2> QED
    BY <1>0, <2>1, EdgeWritten
<1>4. /\ \A i \in 1 .. Len(vertices) : vertices[i] \in Vertices
      /\ \A u \in Workers : node[u] \in Vertices
      /\ glock \subseteq Workers
  BY <1>0 DEF TypeInv, TypeOK
<1>5. Clique'
  BY <1>1, <1>3, <1>4 DEF Enough, Clique
<1>6. Degrees'
  <2> SUFFICES ASSUME NEW i \in 1 .. Len(vertices'), i > k
               PROVE  (k <= Cardinality(edges[vertices[i]]))'
    BY DEF Degrees
  <2>1. PICK v \in Vertices : v = vertices[i] /\ v = vertices'[i]
    BY <1>1, <1>4
  <2>2. k <= Cardinality(edges[v])
    BY <1>1, <2>1 DEF Enough, Degrees
  <2>3. k <= Cardinality(edges'[v])
    BY <1>3, <2>2, LargerSet
  <2> QED
    BY <2>1, <2>3
<1>7. Lock' /\ Long'
  BY <1>1, <1>2, <1>4 DEF Enough, Lock, Long
<1>8. Locked'
  <2> SUFFICES ASSUME NEW u \in glock', NEW i \in 1 .. Len(vertices')
               PROVE  (Will(u, node[u], vertices[i]) /\ Will(u, vertices[i], node[u]))'
    BY DEF Locked
  <2>1. PICK x \in Vertices, y \in Vertices :
          x = node[u] /\ y = vertices[i] /\ x = node'[u] /\ y = vertices'[i]
    BY <1>1, <1>4
  <2>2. Will(u, x, y) /\ Will(u, y, x) /\ u \in Workers
    BY <1>1, <1>4, <2>1 DEF Enough, Locked
  <2>3. Will(u, x, y)' /\ Will(u, y, x)'
    BY <1>3, <2>2
  <2> QED
    BY <2>1, <2>3 DEF Will, Pending
<1>9. Planned'
  <2> SUFFICES ASSUME NEW u \in Workers, After(u)', u \notin glock'
               PROVE  (k <= Cardinality(Others(u)))'
    BY DEF Planned
  <2>1. k <= Cardinality(Others(u))
    BY <1>1, <1>2 DEF Enough, Planned
  <2>2. PICK x \in Vertices : x = node[u] /\ x = node'[u]
    BY <1>1, <1>4
  <2>3. Others(u) = {y \in Vertices : Will(u, x, y)}
    BY <2>2 DEF Others
  <2>4. Others(u)' = {y \in Vertices : Will(u, x, y)'}
    BY <2>2 DEF Others, Will, Pending
  <2>5. Others(u) \subseteq Others(u)' /\ Others(u)' \subseteq Vertices
    BY <1>3, <2>3, <2>4
  <2> QED
    BY <2>1, <2>5, LargerSet
<1>10. Sought' /\ Running'
  <2>1. \A u \in Workers : Seeking(u) => Seeking(u)'
    BY <1>1 DEF Seeking
  <2> QED
    BY <1>1, <2>1 DEF Enough, Sought, Running
<1> QED
  BY <1>5, <1>6, <1>7, <1>8, <1>9, <1>10 DEF Enough

(* A vertex that joins the graph has come by the edges it needs.             *)
LEMMA EnoughAdded ==
  ASSUME JobsInv, TypeInv', Enough, Fine, NEW w \in Workers, AddVertex(w)
  PROVE  Enough'
<1>0. TypeInv /\ Placed
  BY DEF JobsInv, Fine
<1>1. /\ UNCHANGED <<edges, node, candidates, found, todo>>
      /\ \A u \in Workers : u # w => pc'[u] = pc[u]
      /\ pc[w] = "add" /\ pc'[w] = "idle"
      /\ glock \subseteq {w} /\ glock' = {}
  BY <1>0 DEF AddVertex, TypeInv, TypeOK, search
<1>2. PICK v \in Vertices, n \in Nat : v = node[w] /\ n = Len(vertices)
  BY <1>0 DEF TypeInv, TypeOK
<1>3. /\ Len(vertices') = n + 1 /\ vertices'[n + 1] = v
      /\ \A i \in 1 .. n : /\ vertices'[i] = vertices[i]
                           /\ vertices[i] \in Vertices
  BY <1>0, <1>2 DEF AddVertex, TypeInv, TypeOK
<1>4. /\ \A i \in 1 .. n + 1 : i \in 1 .. n \/ i = n + 1
      /\ \A i \in 1 .. n : i \in 1 .. n + 1
      /\ k \in Nat /\ k > 0
      /\ k <= n => k <= n + 1 /\ n + 1 > k /\ \A i \in 1 .. k : i \in 1 .. n
      /\ n + 1 > k => k <= n
      /\ ~(n + 1 > k) => n + 1 <= k
  BY <1>2, KAssumption
<1>5. \A y \in Vertices : Will(w, v, y) => y \in edges[v]
  <2>1. todo[w] = <<>>
    BY <1>0, <1>1 DEF TypeInv, HeadNeeded, Busy, TypeOK
  <2>2. ~\E i \in 1 .. Len(todo[w]) : TRUE
    BY <2>1
  <2> QED
    BY <2>2 DEF Will, Pending
<1>6. \A y \in Vertices : Will(w, y, v) => v \in edges[y]
  <2>1. todo[w] = <<>>
    BY <1>0, <1>1 DEF TypeInv, HeadNeeded, Busy, TypeOK
  <2>2. ~\E i \in 1 .. Len(todo[w]) : TRUE
    BY <2>1
  <2> QED
    BY <2>2 DEF Will, Pending
<1>7. edges[v] \subseteq Vertices
  BY <1>0 DEF TypeInv, TypeOK
<1>8. ASSUME w \in glock
      PROVE  Clique' /\ (n + 1 > k => k <= Cardinality(edges[v]))
  <2>1. \A i \in 1 .. n : vertices[i] \in edges[v] /\ v \in edges[vertices[i]]
    BY <1>2, <1>3, <1>5, <1>6, <1>8 DEF Enough, Locked
  <2>2. Clique'
    <3> SUFFICES ASSUME NEW i \in 1 .. n + 1, NEW j \in 1 .. n + 1, i # j, i <= k, j <= k
                 PROVE  vertices'[j] \in edges[vertices'[i]]
      BY <1>1, <1>3 DEF Clique
    <3>1. CASE i \in 1 .. n /\ j \in 1 .. n
      BY <1>2, <1>3, <3>1 DEF Enough, Clique
    <3>2. CASE i = n + 1
      BY <1>3, <1>4, <2>1, <3>2
    <3>3. CASE j = n + 1
      BY <1>3, <1>4, <2>1, <3>3
    <3> QED
      BY <1>4, <3>1, <3>2, <3>3
  <2>3. n + 1 > k => k <= Cardinality(edges[v])
    <3> SUFFICES ASSUME n + 1 > k PROVE k <= Cardinality(edges[v])
      OBVIOUS
    <3>1. /\ \A i \in 1 .. k : vertices[i] \in edges[v]
          /\ \A i, j \in 1 .. k : i # j => vertices[i] # vertices[j]
      BY <1>0, <1>2, <1>4, <2>1 DEF Placed
    <3> QED
      BY <1>7, <3>1, AtLeast
  <2> QED
    BY <2>2, <2>3
<1>9. ASSUME w \notin glock
      PROVE  Clique' /\ (n + 1 > k => k <= Cardinality(edges[v]))
  <2>1. k <= n /\ k <= Cardinality(Others(w))
    BY <1>1, <1>2, <1>9 DEF Enough, Long, Planned, After
  <2>2. Clique'
    <3> SUFFICES ASSUME NEW i \in 1 .. n + 1, NEW j \in 1 .. n + 1, i # j, i <= k, j <= k
                 PROVE  vertices'[j] \in edges[vertices'[i]]
      BY <1>1, <1>3 DEF Clique
    <3>1. i \in 1 .. n /\ j \in 1 .. n
      BY <1>4, <2>1
    <3> QED
      BY <1>2, <1>3, <3>1 DEF Enough, Clique
  <2>3. Others(w) \subseteq edges[v]
    BY <1>2, <1>5 DEF Others
  <2>4. k <= Cardinality(edges[v])
    BY <1>7, <2>1, <2>3, LargerSet
  <2> QED
    BY <2>2, <2>4
<1>10. Clique' /\ (n + 1 > k => k <= Cardinality(edges[v]))
  BY <1>8, <1>9
<1>11. Degrees'
  <2> SUFFICES ASSUME NEW i \in 1 .. n + 1, i > k
               PROVE  k <= Cardinality(edges[vertices'[i]])
    BY <1>1, <1>3 DEF Degrees
  <2>1. CASE i \in 1 .. n
    BY <1>2, <1>3, <2>1 DEF Enough, Degrees
  <2>2. CASE i = n + 1
    BY <1>3, <1>10, <2>2
  <2> QED
    BY <1>4, <2>1, <2>2
<1>12. \A u \in Workers : After(u)' => After(u) /\ u # w
  BY <1>1 DEF After
<1>13. Lock' /\ Locked'
  BY <1>1 DEF Lock, Locked
<1>14. Long'
  <2> SUFFICES ASSUME NEW u \in Workers,
                      pc'[u] \in {"entry", "search"} \/ (After(u)' /\ u \notin glock')
               PROVE  k <= n + 1
    BY <1>3 DEF Long
  <2>1. u # w
    BY <1>1 DEF After
  <2>2. k <= n
    BY <1>1, <1>2, <1>12, <2>1 DEF Enough, Long
  <2> QED
    BY <1>4, <2>2
<1>15. Planned'
  <2> SUFFICES ASSUME NEW u \in Workers, After(u)', u \notin glock'
               PROVE  (k <= Cardinality(Others(u)))'
    BY DEF Planned
  <2>1. After(u) /\ u \notin glock
    BY <1>1, <1>12
  <2>2. Others(u)' = Others(u)
    BY <1>1 DEF Others, Will, Pending
  <2> QED
    BY <2>1, <2>2 DEF Enough, Planned
<1>16. Sought'
  <2> SUFFICES ASSUME NEW u \in Workers
               PROVE  IF pc'[u] = "search" THEN Seeking(u)' ELSE found'[u] = {}
    BY DEF Sought
  <2>1. CASE pc'[u] = "search"
    <3>1. pc[u] = "search" /\ Seeking(u) /\ k <= n
      BY <1>1, <1>2, <2>1 DEF Enough, Sought, Long
    <3>2. ASSUME found[u] = {}, NEW i \in 1 .. n, candidates[u] = {vertices[i]}
          PROVE  Seeking(u)'
      BY <1>1, <1>3, <1>4, <3>2 DEF Seeking
    <3>3. ASSUME NEW i \in 1 .. k, NEW j \in 1 .. k, i # j, vertices[j] \in candidates[u],
                 \A l \in 1 .. k : l # i => vertices[l] \in found[u]
          PROVE  Seeking(u)'
      <4>1. \A l \in 1 .. k : vertices'[l] = vertices[l]
        BY <1>3, <1>4, <3>1
      <4> QED
        BY <1>1, <3>3, <4>1 DEF Seeking
    <3>4. ASSUME k <= Cardinality(found[u])
          PROVE  Seeking(u)'
      <4>1. k <= Cardinality(found'[u])
        BY <1>1, <3>4
      <4> QED
        BY <4>1 DEF Seeking
    <3>5. Seeking(u)'
      BY <1>2, <3>1, <3>2, <3>3, <3>4 DEF Seeking
    <3> QED
      BY <2>1, <3>5
  <2>2. CASE pc'[u] # "search"
    BY <1>1, <2>2 DEF Enough, Sought
  <2> QED
    BY <2>1, <2>2
<1>17. Running'
  BY <1>1 DEF Enough, Running
<1> QED
  BY <1>10, <1>11, <1>13, <1>14, <1>15, <1>16, <1>17 DEF Enough

(* Whoever holds the lock of the graph plans both appends for each vertex.   *)
LEMMA EnoughLocked ==
  ASSUME JobsInv, TypeInv', Enough, NEW w \in Workers, LockAll(w)
  PROVE  Enough'
<1>0. TypeInv
  BY DEF JobsInv
<1>1. PICK v \in Vertices, list \in Seq(Vertices) : v = node[w] /\ list = vertices
  BY <1>0 DEF TypeInv, TypeOK
<1>2. /\ UNCHANGED <<vertices, edges, node, candidates, found>>
      /\ \A u \in Workers : u # w => pc'[u] = pc[u] /\ todo'[u] = todo[u]
      /\ pc[w] = "all" /\ pc'[w] = "append"
      /\ glock = {} /\ glock' = {w} /\ todo'[w] = Connecting(v, list)
  BY <1>0, <1>1 DEF LockAll, TypeInv, TypeOK, search
<1>3. Clique' /\ Degrees'
  BY <1>2 DEF Enough, Clique, Degrees
<1>4. Lock' /\ Long'
  BY <1>2 DEF Enough, Lock, Long, After
<1>5. Locked'
  <2> SUFFICES ASSUME NEW i \in 1 .. Len(vertices')
               PROVE  (Will(w, node[w], vertices[i]) /\ Will(w, vertices[i], node[w]))'
    BY <1>2 DEF Locked
  <2>1. Plans(todo'[w], v, list[i]) /\ Plans(todo'[w], list[i], v)
    <3>1. PICK plan : plan = Connecting(v, list) /\ plan = todo'[w]
      BY <1>2
    <3>2. i \in 1 .. Len(list)
      BY <1>1, <1>2
    <3>3. Plans(plan, v, list[i]) /\ Plans(plan, list[i], v)
      BY <3>1, <3>2, ConnectingPlans
    <3> QED
      BY <3>1, <3>3
  <2>2. list[i] = vertices'[i] /\ v = node'[w]
    BY <1>1, <1>2
  <2> QED
    BY <2>1, <2>2 DEF Will, Pending, Plans
<1>6. Planned'
  <2> SUFFICES ASSUME NEW u \in Workers, After(u)', u \notin glock'
               PROVE  (k <= Cardinality(Others(u)))'
    BY DEF Planned
  <2>1. u # w /\ After(u) /\ u \notin glock
    BY <1>2 DEF After
  <2>2. Others(u)' = Others(u)
    BY <1>2, <2>1 DEF Others, Will, Pending
  <2> QED
    BY <2>1, <2>2 DEF Enough, Planned
<1>7. Sought' /\ Running'
  <2>1. \A u \in Workers : Seeking(u) => Seeking(u)'
    BY <1>2 DEF Seeking
  <2> QED
    BY <1>2, <2>1 DEF Enough, Sought, Running
<1> QED
  BY <1>3, <1>4, <1>5, <1>6, <1>7 DEF Enough

(* A search that is over has found k vertices, and a vertex is connected     *)
(* with that many.                                                           *)
LEMMA EnoughChosen ==
  ASSUME JobsInv, TypeInv', Enough, NEW w \in Workers, Choose(w)
  PROVE  Enough'
<1>0. TypeInv
  BY DEF JobsInv
<1>1. PICK v \in Vertices : v = node[w]
  BY <1>0 DEF TypeInv, TypeOK
<1>2. /\ found[w] \subseteq Vertices /\ candidates[w] \subseteq Vertices
      /\ pc[w] = "search" /\ Seeking(w) /\ k <= Len(vertices)
  BY <1>0 DEF TypeInv, TypeOK, Choose, Enough, Sought, Long
<1>3. ~(Cardinality(found[w]) < k)
  <2> SUFFICES ASSUME Cardinality(found[w]) < k PROVE FALSE
    OBVIOUS
  <2>1. Cardinality(found[w]) \in Nat /\ k \in Nat
    BY <1>2, VerticesFinite, KAssumption
  <2>2. ~(k <= Cardinality(found[w])) /\ ~(Cardinality(found[w]) >= k)
    BY <2>1
  <2>3. candidates[w] # {}
    BY <1>2, <2>2 DEF Seeking
  <2>4. PICK c : c \in Minima(candidates[w], DistTo(w))
    BY <1>1, <1>2, <2>3, MinimaExist DEF DistTo
  <2>5. TooFar(w, c)
    BY <2>4 DEF Choose
  <2> QED
    BY <2>2, <2>5 DEF TooFar
<1>4. PICK neighbors \in Nearest(found[w], DistTo(w), k) :
        todo' = [todo EXCEPT ![w] = Connecting(v, neighbors)]
  BY <1>1, <1>3 DEF Choose
<1>5. neighbors \in Seq(Vertices) /\ Len(neighbors) = k
  BY <1>2, <1>3, <1>4, NearestType
<1>6. /\ UNCHANGED <<vertices, edges, glock, node>>
      /\ \A u \in Workers : u # w => /\ pc'[u] = pc[u] /\ todo'[u] = todo[u]
                                     /\ candidates'[u] = candidates[u]
                                     /\ found'[u] = found[u]
      /\ pc'[w] = "append" /\ todo'[w] = Connecting(v, neighbors) /\ found'[w] = {}
  BY <1>0, <1>3, <1>4 DEF Choose, TypeInv, TypeOK, graph
<1>7. w \notin glock
  BY <1>2 DEF Enough, Lock, After
<1>8. Clique' /\ Degrees'
  BY <1>6 DEF Enough, Clique, Degrees
<1>9. Lock' /\ Long'
  <2>1. \A u \in Workers : u # w => (After(u)' <=> After(u))
    BY <1>6 DEF After
  <2>2. glock \subseteq Workers
    BY <1>0 DEF TypeInv, TypeOK
  <2> QED
    BY <1>2, <1>6, <1>7, <2>1, <2>2 DEF Enough, Lock, Long
<1>10. Locked'
  <2> SUFFICES ASSUME NEW u \in glock', NEW i \in 1 .. Len(vertices')
               PROVE  (Will(u, node[u], vertices[i]) /\ Will(u, vertices[i], node[u]))'
    BY DEF Locked
  <2>1. u \in glock /\ u \in Workers /\ u # w
    BY <1>0, <1>6, <1>7 DEF TypeInv, TypeOK
  <2>2. Will(u, node[u], vertices[i]) /\ Will(u, vertices[i], node[u])
    BY <1>6, <2>1 DEF Enough, Locked
  <2> QED
    BY <1>6, <2>1, <2>2 DEF Will, Pending
<1>11. k <= Cardinality(Others(w)')
  <2>1. \A i \in 1 .. k : neighbors[i] \in Others(w)'
    <3> SUFFICES ASSUME NEW i \in 1 .. k PROVE neighbors[i] \in Others(w)'
      OBVIOUS
    <3>1. Plans(todo'[w], v, neighbors[i])
      <4>1. PICK plan : plan = Connecting(v, neighbors) /\ plan = todo'[w]
        BY <1>6
      <4>2. i \in 1 .. Len(neighbors)
        BY <1>5
      <4>3. Plans(plan, v, neighbors[i])
        BY <1>5, <4>1, <4>2, ConnectingPlans
      <4> QED
        BY <4>1, <4>3
    <3>2. neighbors[i] \in Vertices /\ v = node'[w]
      BY <1>1, <1>5, <1>6
    <3> QED
      BY <3>1, <3>2 DEF Others, Will, Pending, Plans
  <2>2. \A i, j \in 1 .. k : i # j => neighbors[i] # neighbors[j]
    BY <1>2, <1>3, <1>4, NearestDifferent
  <2>3. Others(w)' \subseteq Vertices
    BY DEF Others
  <2> QED
    BY <2>1, <2>2, <2>3, AtLeast
<1>12. Planned'
  <2> SUFFICES ASSUME NEW u \in Workers, u # w, After(u)', u \notin glock'
               PROVE  (k <= Cardinality(Others(u)))'
    BY <1>11 DEF Planned
  <2>1. After(u) /\ u \notin glock
    BY <1>6 DEF After
  <2>2. Others(u)' = Others(u)
    BY <1>6 DEF Others, Will, Pending
  <2> QED
    BY <2>1, <2>2 DEF Enough, Planned
<1>13. Sought' /\ Running'
  <2>1. \A u \in Workers : u # w /\ Seeking(u) => Seeking(u)'
    BY <1>6 DEF Seeking
  <2> QED
    BY <1>6, <2>1 DEF Enough, Sought, Running
<1> QED
  BY <1>8, <1>9, <1>10, <1>12, <1>13 DEF Enough

(* A search that began at one of the first k vertices finds the others, one  *)
(* of which leads back to it: if there are others.                           *)
LEMMA EnoughExpanded ==
  ASSUME JobsInv, TypeInv', Enough, Fine, k > 1,
         NEW w \in Workers, NEW c \in Vertices, Expand(w, c)
  PROVE  Seeking(w)'
<1>0. TypeInv /\ Placed
  BY DEF JobsInv, Fine
<1>1. /\ pc[w] = "search" /\ Seeking(w) /\ k <= Len(vertices) /\ c \in candidates[w]
      /\ candidates'[w] = (candidates[w] \ {c}) \cup (edges[c] \ found[w])
      /\ found'[w] = found[w] \cup edges[c]
      /\ UNCHANGED <<vertices, edges>>
  BY <1>0 DEF Expand, Minima, graph, TypeInv, TypeOK, Enough, Sought, Long
<1>2. found'[w] \subseteq Vertices /\ found[w] \subseteq Vertices /\ edges[c] \subseteq Vertices
  BY <1>0 DEF TypeInv, TypeOK
<1>3. /\ Len(vertices) \in Nat /\ k \in Nat
      /\ \A l \in 1 .. k : l \in 1 .. Len(vertices) /\ l <= k
      /\ \A i \in 1 .. Len(vertices) : i > k \/ i \in 1 .. k
  BY <1>0, <1>1, KAssumption DEF TypeInv, TypeOK
<1>4. ASSUME k <= Cardinality(found'[w])
      PROVE  Seeking(w)'
  BY <1>4 DEF Seeking
<1>5. ASSUME NEW i \in 1 .. k, c = vertices[i]
      PROVE  \A l \in 1 .. k : l # i => vertices[l] \in edges[c]
  BY <1>3, <1>5 DEF Enough, Clique
<1>6. CASE k <= Cardinality(found[w])
  <2>1. k <= Cardinality(found'[w])
    BY <1>1, <1>2, <1>6, LargerSet
  <2> QED
    BY <1>4, <2>1
<1>7. ASSUME found[w] = {}, NEW i \in 1 .. Len(vertices), candidates[w] = {vertices[i]}
      PROVE  Seeking(w)'
  <2>1. c = vertices[i]
    BY <1>1, <1>7
  <2>2. CASE i > k
    <3>1. k <= Cardinality(edges[c])
      BY <2>1, <2>2 DEF Enough, Degrees
    <3>2. k <= Cardinality(found'[w])
      BY <1>1, <1>2, <3>1, LargerSet
    <3> QED
      BY <1>4, <3>2
  <2>3. CASE i \in 1 .. k
    <3>1. PICK j \in 1 .. k : j # i
      <4>1. 1 \in 1 .. k /\ 2 \in 1 .. k
        BY <1>3
      <4> QED
        BY <4>1
    <3>2. \A l \in 1 .. k : l # i => vertices'[l] \in found'[w]
      BY <1>1, <1>5, <2>1, <2>3
    <3>3. vertices'[j] \in candidates'[w]
      BY <1>1, <1>5, <1>7, <2>1, <2>3, <3>1
    <3> QED
      BY <2>3, <3>1, <3>2, <3>3 DEF Seeking
  <2> QED
    BY <1>3, <2>2, <2>3
<1>8. ASSUME NEW i \in 1 .. k, NEW j \in 1 .. k, i # j, vertices[j] \in candidates[w],
             \A l \in 1 .. k : l # i => vertices[l] \in found[w]
      PROVE  Seeking(w)'
  <2>1. CASE c # vertices[j]
    <3>1. vertices'[j] \in candidates'[w]
      BY <1>1, <1>8, <2>1
    <3>2. \A l \in 1 .. k : l # i => vertices'[l] \in found'[w]
      BY <1>1, <1>8
    <3> QED
      BY <1>8, <3>1, <3>2 DEF Seeking
  <2>2. CASE c = vertices[j]
    <3>1. vertices[i] \in edges[c]
      BY <1>5, <1>8, <2>2
    <3>2. \A l \in 1 .. k : vertices[l] \in found'[w]
      BY <1>1, <1>8, <3>1
    <3>3. \A l, m \in 1 .. k : l # m => vertices[l] # vertices[m]
      BY <1>0, <1>3 DEF Placed
    <3>4. k <= Cardinality(found'[w])
      BY <1>2, <3>2, <3>3, AtLeast
    <3> QED
      BY <1>4, <3>4
  <2> QED
    BY <2>1, <2>2
<1> QED
  BY <1>1, <1>6, <1>7, <1>8 DEF Seeking

(* What has happened once has happened for good. *)
LEMMA FineBefore ==
  ASSUME TypeInv, [Next]_vars, Fine' PROVE Fine
<1>1. CASE \E w \in Workers : FirstInsert(w)
  <2>1. firsts \in Nat /\ firsts' = firsts + 1 /\ raced' = raced
    BY <1>1 DEF FirstInsert, TypeInv, TypeOK
  <2> QED
    BY <2>1 DEF Fine
<1>2. CASE \E w \in Workers : WriteEdges(w)
  BY <1>2 DEF WriteEdges, Fine
<1>3. ASSUME NEW w \in Workers,
             \/ Take(w) \/ ReadLen(w) \/ LockAll(w) \/ Enter(w) \/ Choose(w)
             \/ \E c \in Vertices : Expand(w, c)
             \/ ReadEdges(w) \/ AddVertex(w)
      PROVE  Fine
  <2>1. UNCHANGED <<firsts, raced>>
    BY <1>3 DEF Take, ReadLen, LockAll, Enter, Expand, Choose, ReadEdges, AddVertex, graph
  <2> QED
    BY <2>1 DEF Fine
<1>4. CASE UNCHANGED vars
  BY <1>4 DEF vars, graph, Fine
<1> QED
  BY <1>1, <1>2, <1>3, <1>4 DEF Next, Step, Insert, Over

LEMMA StepEnough ==
  ASSUME EnoughInv, k > 1, [Next]_vars PROVE EnoughInv'
<1>0. JobsInv /\ JobsInv' /\ TypeInv /\ TypeInv'
  BY StepJobsInv DEF EnoughInv, JobsInv
<1> SUFFICES ASSUME Fine' PROVE Enough'
  BY <1>0 DEF EnoughInv
<1>1. Fine /\ Enough
  BY <1>0, FineBefore DEF EnoughInv
<1>2. ASSUME NEW w \in Workers, WriteEdges(w) PROVE Enough'
  BY <1>0, <1>1, <1>2, EnoughWritten DEF Fine
<1>3. ASSUME NEW w \in Workers, AddVertex(w) PROVE Enough'
  BY <1>0, <1>1, <1>3, EnoughAdded
<1>4. ASSUME NEW w \in Workers, LockAll(w) PROVE Enough'
  BY <1>0, <1>1, <1>4, EnoughLocked
<1>5. ASSUME NEW w \in Workers, Choose(w) PROVE Enough'
  BY <1>0, <1>1, <1>5, EnoughChosen
<1>6. ASSUME NEW w \in Workers, FirstInsert(w) PROVE Enough'
  <2>1. firsts = 0
    BY <1>0, <1>6 DEF FirstInsert, Fine, TypeInv, TypeOK
  <2>2. \A u \in Workers : pc'[u] \in {"idle", "len", "first"}
    BY <1>0, <1>6, <2>1 DEF FirstInsert, JobsInv, TypeInv, TypeOK
  <2>3. /\ Len(vertices') = 1 /\ glock' = {}
        /\ \A u \in Workers : found'[u] = found[u] /\ (pc'[u] = pc[u] \/ pc[u] = "first")
    BY <1>0, <1>6 DEF FirstInsert, TypeInv, TypeOK, search
  <2>4. Clique' /\ Degrees' /\ Lock' /\ Locked'
    BY <2>3, KAssumption DEF Clique, Degrees, Lock, Locked
  <2>5. Long' /\ Planned' /\ Running'
    BY <2>2 DEF Long, Planned, Running, After
  <2>6. Sought'
    BY <1>1, <2>2, <2>3 DEF Enough, Sought
  <2> QED
    BY <2>4, <2>5, <2>6 DEF Enough
<1>7. ASSUME NEW w \in Workers, NEW c \in Vertices, Expand(w, c) PROVE Enough'
  <2>1. /\ UNCHANGED <<vertices, edges, glock, todo, pc, node>>
        /\ \A u \in Workers : u # w => /\ candidates'[u] = candidates[u]
                                       /\ found'[u] = found[u]
        /\ pc[w] = "search"
    BY <1>0, <1>7 DEF Expand, graph, TypeInv, TypeOK
  <2>2. Seeking(w)'
    BY <1>0, <1>1, <1>7, EnoughExpanded
  <2>3. After(w)' <=> After(w)
    BY <2>1 DEF After
  <2>4. k <= Len(vertices)
    BY <1>1, <2>1 DEF Enough, Long
  <2> QED
    BY <1>0, <1>1, <2>1, <2>2, <2>3, <2>4, EnoughFrame
<1>8. ASSUME NEW w \in Workers, Enter(w) PROVE Enough'
  <2>1. /\ UNCHANGED <<vertices, edges, glock, todo, node, found>>
        /\ \A u \in Workers : u # w => /\ candidates'[u] = candidates[u]
                                       /\ pc'[u] = pc[u]
        /\ pc[w] = "entry" /\ pc'[w] = "search"
    BY <1>0, <1>8 DEF Enter, graph, TypeInv, TypeOK
  <2>2. \E i \in 1 .. Len(vertices) : candidates'[w] = {vertices[i]}
    BY <1>0, <1>8 DEF Enter, TypeInv, TypeOK
  <2>3. Seeking(w)'
    BY <1>1, <2>1, <2>2 DEF Seeking, Enough, Sought
  <2>4. k <= Len(vertices)
    BY <1>1, <2>1 DEF Enough, Long
  <2>5. ~After(w) /\ ~After(w)'
    BY <2>1 DEF After
  <2> QED
    BY <1>0, <1>1, <2>1, <2>3, <2>4, <2>5, EnoughFrame
<1>9. ASSUME NEW w \in Workers, Take(w) \/ ReadLen(w) \/ ReadEdges(w) PROVE Enough'
  <2>1. /\ UNCHANGED <<vertices, edges, glock, todo, candidates, found>>
        /\ \A u \in Workers : u # w => /\ node'[u] = node[u]
                                       /\ pc'[u] = pc[u]
        /\ \/ pc[w] = "idle" /\ pc'[w] = "len"
           \/ pc[w] = "len" /\ pc'[w] \in {"first", "all"}
           \/ pc[w] = "len" /\ pc'[w] = "entry" /\ ~(Len(vertices) < k)
           \/ pc[w] = "append" /\ pc'[w] = "store" /\ node'[w] = node[w]
    BY <1>0, <1>9 DEF Take, ReadLen, ReadEdges, graph, search, TypeInv, TypeOK
  <2>2. (After(w)' <=> After(w)) /\ (After(w) => node'[w] = node[w])
    BY <2>1 DEF After
  <2>3. pc'[w] # "search" /\ pc'[w] # "panic" /\ found'[w] = {}
    BY <1>1, <2>1 DEF Enough, Sought
  <2>4. pc'[w] \in {"entry", "search"} => k <= Len(vertices)
    <3>1. Len(vertices) \in Nat /\ k \in Nat
      BY <1>0, KAssumption DEF TypeInv, TypeOK
    <3> QED
      BY <2>1, <3>1
  <2> QED
    BY <1>0, <1>1, <2>1, <2>2, <2>3, <2>4, EnoughFrame
<1>10. CASE UNCHANGED vars
  <2>1. UNCHANGED <<vertices, edges, glock, todo, pc, node, candidates, found>>
    BY <1>10 DEF vars, graph, search
  <2>2. \A u \in Workers : Others(u)' = Others(u)
    BY <2>1 DEF Others, Will, Pending
  <2>3. Planned' /\ Long'
    BY <1>1, <2>1, <2>2 DEF Enough, Planned, Long, After
  <2>4. Clique' /\ Degrees' /\ Lock' /\ Running'
    BY <1>1, <2>1 DEF Enough, Clique, Degrees, Lock, After, Running
  <2>5. Locked'
    BY <1>1, <2>1 DEF Enough, Locked, Will, Pending
  <2>6. Sought'
    BY <1>1, <2>1 DEF Enough, Sought, Seeking
  <2> QED
    BY <2>3, <2>4, <2>5, <2>6 DEF Enough
<1> QED
  BY <1>2, <1>3, <1>4, <1>5, <1>6, <1>7, <1>8, <1>9, <1>10 DEF Next, Step, Insert, Over

(* Unless two workers find the graph empty or an append loses an edge, no    *)
(* worker's search finds less than the k vertices that its result is filled  *)
(* with: with k at least two, as it is in main.go.  (With k = 1 the second   *)
(* insertion panics: the only vertex has no friends to be found through.)    *)
THEOREM SearchesFindEnough == ASSUME k > 1 PROVE Spec => []NoPanic
<1>1. Init => EnoughInv
  <2> SUFFICES ASSUME Init PROVE Enough
    BY InitJobsInv DEF EnoughInv
  <2>1. Len(vertices) = 0
    BY DEF Init
  <2> QED
    BY <2>1 DEF Init, Enough, Clique, Degrees, Lock, Long, Locked, Planned, Sought,
                Running, After
<1>2. EnoughInv /\ [Next]_vars => EnoughInv'
  BY StepEnough
<1>3. EnoughInv => NoPanic
  BY DEF EnoughInv, Enough, Fine, NoPanic
<1> QED
  BY <1>1, <1>2, <1>3, PTL DEF Spec
-------------------------------------------------------------------------------
(* The graph is in one part.  Vertices count from when the first edge of     *)
(* theirs is made, not only once they are in the list: searches find them.   *)
Linked ==
  Inserted \cup {v \in Vertices : \E u \in Vertices : v \in edges[u] \/ u \in edges[v]}

(* A set that no edge leaves or enters. *)
Closed(part) == \A v \in Vertices : \A u \in edges[v] : v \in part <=> u \in part

OnePart ==
  \A part \in SUBSET Vertices :
     Closed(part) /\ (\E v \in Linked : v \in part) => Linked \subseteq part

(* A search stays within the part, so that a plan attaches a vertex to it.   *)
SeesLinked ==
  \A w \in Workers : pc[w] = "search" => candidates[w] \subseteq Linked /\ found[w] \subseteq Linked

PlansLinked ==
  \A w \in Workers : \A i \in 1 .. Len(todo[w]) :
     todo[w][i][1] \in Linked \/ todo[w][i][2] \in Linked

Attaches == \A w \in Workers : After(w) => \E y \in Vertices : Will(w, node[w], y)

Joined ==
  /\ OnePart /\ SeesLinked /\ PlansLinked /\ Attaches
  /\ \A w \in Workers : pc[w] # "search" => found[w] = {}

JoinedInv ==
  /\ JobsInv
  /\ firsts = 0 => \A v \in Vertices : edges[v] = {}
  /\ Fine => Joined

LEMMA LinkedType == TypeInv => Linked \subseteq Vertices
BY DEF TypeInv, TypeOK, Linked, Inserted

(* What one edge, one end of which is linked, does to the part. *)
LEMMA JoinedWritten ==
  ASSUME JobsInv, TypeInv', Joined, NEW w \in Workers, WriteEdges(w), ~raced'
  PROVE  Joined'
<1>0. TypeInv
  BY DEF JobsInv
<1>1. /\ UNCHANGED <<vertices, node, candidates, found>>
      /\ \A u \in Workers : u # w => pc'[u] = pc[u]
      /\ pc[w] = "store" /\ pc'[w] \in {"add", "append"}
  BY <1>0 DEF WriteEdges, TypeInv, TypeOK, search
<1>2. PICK v \in Vertices, e \in Vertices :
        /\ todo[w][1] = <<v, e>> /\ 1 \in 1 .. Len(todo[w])
        /\ \A u \in Vertices :
             edges'[u] = IF u = v THEN edges[u] \cup {e} ELSE edges[u]
  BY <1>0, EdgeWritten
<1>3. v \in Linked \/ e \in Linked
  BY <1>2 DEF Joined, PlansLinked
<1>4. Linked \subseteq Linked' /\ Linked' \subseteq Linked \cup {v, e}
  <2>1. Inserted' = Inserted
    BY <1>1 DEF Inserted
  <2>2. ASSUME NEW x \in Linked PROVE x \in Linked'
    BY <1>2, <2>1, <2>2 DEF Linked
  <2>3. ASSUME NEW x \in Linked' PROVE x \in Linked \cup {v, e}
    BY <1>2, <2>1, <2>3 DEF Linked
  <2> QED
    BY <2>2, <2>3
<1>5. OnePart'
  <2> SUFFICES ASSUME NEW part \in SUBSET Vertices, Closed(part)',
                      NEW x \in Linked', x \in part
               PROVE  Linked' \subseteq part
    BY DEF OnePart
  <2>1. Closed(part) /\ (v \in part <=> e \in part)
    BY <1>2 DEF Closed
  <2>2. \E y \in Linked : y \in part
    BY <1>3, <1>4, <2>1
  <2>3. Linked \subseteq part
    BY <2>1, <2>2 DEF Joined, OnePart
  <2> QED
    BY <1>3, <1>4, <2>1, <2>3
<1>6. SeesLinked'
  BY <1>1, <1>4 DEF Joined, SeesLinked
<1>7. PlansLinked'
  <2> SUFFICES ASSUME NEW u \in Workers, NEW i \in 1 .. Len(todo'[u])
               PROVE  todo'[u][i][1] \in Linked' \/ todo'[u][i][2] \in Linked'
    BY DEF PlansLinked
  <2>1. PICK j \in 1 .. Len(todo[u]) : todo'[u][i] = todo[u][j]
    BY <1>0, EdgeWritten
  <2> QED
    BY <1>4, <2>1 DEF Joined, PlansLinked
<1>8. Attaches'
  <2> SUFFICES ASSUME NEW u \in Workers, After(u)'
               PROVE  (\E y \in Vertices : Will(u, node[u], y))'
    BY DEF Attaches
  <2>1. After(u)
    BY <1>1 DEF After
  <2>2. PICK x \in Vertices : x = node[u] /\ x = node'[u]
    BY <1>0, <1>1 DEF TypeInv, TypeOK
  <2>3. PICK y \in Vertices : Will(u, x, y)
    BY <2>1, <2>2 DEF Joined, Attaches
  <2>4. Will(u, x, y)'
    BY <1>0, EdgeWritten, <2>3
  <2> QED
    BY <2>2, <2>4 DEF Will, Pending
<1>9. \A u \in Workers : pc'[u] # "search" => found'[u] = {}
  BY <1>1 DEF Joined
<1> QED
  BY <1>5, <1>6, <1>7, <1>8, <1>9 DEF Joined

(* A vertex that joins the list is linked already. *)
LEMMA JoinedAdded ==
  ASSUME JobsInv, TypeInv', Joined, NEW w \in Workers, AddVertex(w)
  PROVE  Joined'
<1>0. TypeInv
  BY DEF JobsInv
<1>1. /\ UNCHANGED <<edges, node, candidates, found, todo>>
      /\ \A u \in Workers : u # w => pc'[u] = pc[u]
      /\ pc[w] = "add" /\ pc'[w] = "idle"
      /\ vertices' = Append(vertices, node[w])
  BY <1>0 DEF AddVertex, TypeInv, TypeOK, search
<1>2. PICK v \in Vertices : v = node[w]
  BY <1>0 DEF TypeInv, TypeOK
<1>3. todo[w] = <<>>
  BY <1>0, <1>1 DEF TypeInv, HeadNeeded, Busy, TypeOK
<1>4. v \in Linked
  <2>1. PICK y \in Vertices : Will(w, v, y)
    BY <1>1, <1>2 DEF Joined, Attaches, After
  <2>2. ~\E i \in 1 .. Len(todo[w]) : TRUE
    BY <1>3
  <2>3. y \in edges[v]
    BY <2>1, <2>2 DEF Will, Pending
  <2> QED
    BY <2>3 DEF Linked
<1>5. Inserted' = Inserted \cup {v}
  <2>1. /\ Len(vertices) \in Nat /\ Len(vertices') = Len(vertices) + 1
        /\ vertices'[Len(vertices) + 1] = v
        /\ \A i \in 1 .. Len(vertices) : vertices'[i] = vertices[i]
    BY <1>0, <1>1, <1>2 DEF TypeInv, TypeOK
  <2>2. \A i \in 1 .. Len(vertices') : i \in 1 .. Len(vertices) \/ i = Len(vertices) + 1
    BY <2>1
  <2>3. /\ \A i \in 1 .. Len(vertices) : i \in 1 .. Len(vertices')
        /\ Len(vertices) + 1 \in 1 .. Len(vertices')
    BY <2>1
  <2> QED
    BY <2>1, <2>2, <2>3 DEF Inserted
<1>6. Linked' = Linked
  BY <1>1, <1>4, <1>5 DEF Linked
<1>7. \A u \in Workers : After(u)' => After(u)
  BY <1>1 DEF After
<1>8. OnePart' /\ SeesLinked' /\ PlansLinked'
  BY <1>1, <1>6 DEF Joined, OnePart, Closed, SeesLinked, PlansLinked
<1>9. Attaches'
  BY <1>1, <1>7 DEF Joined, Attaches, Will, Pending
<1>10. \A u \in Workers : pc'[u] # "search" => found'[u] = {}
  <2>1. pc[w] # "search"
    BY <1>1
  <2> QED
    BY <1>1, <2>1 DEF Joined
<1> QED
  BY <1>8, <1>9, <1>10 DEF Joined

(* What is planned connects a vertex with others that are linked. *)
LEMMA JoinedPlanned ==
  ASSUME JobsInv, TypeInv', Joined, NEW w \in Workers, ~After(w), After(w)',
         NEW v \in Vertices, v = node[w],
         NEW others \in Seq(Vertices), Len(others) > 0,
         \A i \in 1 .. Len(others) : others[i] \in Linked,
         todo' = [todo EXCEPT ![w] = Connecting(v, others)],
         UNCHANGED <<vertices, edges, node>>,
         \A u \in Workers : u # w => /\ pc'[u] = pc[u] /\ candidates'[u] = candidates[u]
                                     /\ found'[u] = found[u],
         found'[w] = {}
  PROVE  Joined'
<1>0. TypeInv
  BY DEF JobsInv
<1>1. /\ todo'[w] = Connecting(v, others)
      /\ \A u \in Workers : u # w => todo'[u] = todo[u]
  BY <1>0 DEF TypeInv, TypeOK
<1>2. Linked' = Linked
  BY DEF Linked, Inserted
<1>3. OnePart'
  BY <1>2 DEF Joined, OnePart, Closed
<1>4. SeesLinked'
  <2>1. pc'[w] # "search"
    BY DEF After
  <2> QED
    BY <1>2, <2>1 DEF Joined, SeesLinked
<1>5. PlansLinked'
  <2> SUFFICES ASSUME NEW u \in Workers, NEW i \in 1 .. Len(todo'[u])
               PROVE  todo'[u][i][1] \in Linked \/ todo'[u][i][2] \in Linked
    BY <1>2 DEF PlansLinked
  <2>1. CASE u # w
    BY <1>1, <2>1 DEF Joined, PlansLinked
  <2>2. CASE u = w
    <3>1. /\ Len(others) \in Nat /\ Len(todo'[w]) = 2 * Len(others)
          /\ \A j \in 1 .. 2 * Len(others) :
               todo'[w][j] = IF j % 2 = 1 THEN <<others[(j + 1) \div 2], v>>
                                          ELSE <<v, others[(j + 1) \div 2]>>
      <4>1. PICK plan : plan = Connecting(v, others) /\ plan = todo'[w]
        BY <1>1
      <4>2. plan = Connecting(v, others)
        BY <4>1
      <4>3. Len(others) \in Nat
        OBVIOUS
      <4>4. /\ Len(plan) = 2 * Len(others)
            /\ \A j \in 1 .. 2 * Len(others) :
                 plan[j] = IF j % 2 = 1 THEN <<others[(j + 1) \div 2], v>>
                                        ELSE <<v, others[(j + 1) \div 2]>>
        BY ONLY <4>2, ConnectingType, v \in Vertices, others \in Seq(Vertices)
      <4> QED
        BY <4>1, <4>3, <4>4
    <3>2. (i + 1) \div 2 \in 1 .. Len(others)
      BY <2>2, <3>1
    <3>3. PICK o \in Linked : o = others[(i + 1) \div 2]
      BY <3>2
    <3>4. todo'[u][i] = <<o, v>> \/ todo'[u][i] = <<v, o>>
      BY <2>2, <3>1, <3>3
    <3>5. CASE todo'[u][i] = <<o, v>>
      <4>1. todo'[u][i][1] = o
        BY <3>5
      <4> QED
        BY <3>3, <4>1
    <3>6. CASE todo'[u][i] = <<v, o>>
      <4>1. todo'[u][i][2] = o
        BY <3>6
      <4> QED
        BY <3>3, <4>1
    <3> QED
      BY <3>4, <3>5, <3>6
  <2> QED
    BY <2>1, <2>2
<1>6. Attaches'
  <2> SUFFICES ASSUME NEW u \in Workers, After(u)'
               PROVE  (\E y \in Vertices : Will(u, node[u], y))'
    BY DEF Attaches
  <2>1. CASE u # w
    <3>1. After(u)
      BY <2>1 DEF After
    <3>2. PICK y \in Vertices : Will(u, node[u], y)
      BY <3>1 DEF Joined, Attaches
    <3>3. Will(u, node[u], y)'
      BY <1>1, <2>1, <3>2 DEF Will, Pending
    <3> QED
      BY <3>3
  <2>2. CASE u = w
    <3>1. 1 \in 1 .. Len(others) /\ others[1] \in Vertices
      OBVIOUS
    <3>2. PICK plan : plan = Connecting(v, others) /\ plan = todo'[w]
      BY <1>1
    <3>3. Plans(plan, v, others[1])
      BY <3>1, <3>2, ConnectingPlans
    <3> QED
      BY <2>2, <3>1, <3>2, <3>3 DEF Plans, Will, Pending
  <2> QED
    BY <2>1, <2>2
<1>7. \A u \in Workers : pc'[u] # "search" => found'[u] = {}
  BY DEF Joined
<1> QED
  BY <1>3, <1>4, <1>5, <1>6, <1>7 DEF Joined

(* Steps that change no edges, no list and no plan. *)
LEMMA JoinedFrame ==
  ASSUME JobsInv, Joined, NEW w \in Workers,
         UNCHANGED <<vertices, edges, todo>>,
         \A u \in Workers : u # w => /\ pc'[u] = pc[u] /\ node'[u] = node[u]
                                     /\ candidates'[u] = candidates[u]
                                     /\ found'[u] = found[u],
         After(w)' => After(w) /\ node'[w] = node[w],
         IF pc'[w] = "search" THEN candidates'[w] \subseteq Linked /\ found'[w] \subseteq Linked
                              ELSE found'[w] = {}
  PROVE  Joined'
<1>1. Linked' = Linked
  BY DEF Linked, Inserted
<1>2. OnePart' /\ PlansLinked'
  BY <1>1 DEF Joined, OnePart, Closed, PlansLinked
<1>3. SeesLinked'
  BY <1>1 DEF Joined, SeesLinked
<1>4. Attaches'
  <2> SUFFICES ASSUME NEW u \in Workers, After(u)'
               PROVE  (\E y \in Vertices : Will(u, node[u], y))'
    BY DEF Attaches
  <2>1. After(u) /\ node'[u] = node[u]
    BY DEF After
  <2>2. PICK y \in Vertices : Will(u, node[u], y)
    BY <2>1 DEF Joined, Attaches
  <2>3. Will(u, node[u], y)'
    BY <2>1, <2>2 DEF Will, Pending
  <2> QED
    BY <2>3
<1>5. \A u \in Workers : pc'[u] # "search" => found'[u] = {}
  BY DEF Joined
<1> QED
  BY <1>2, <1>3, <1>4, <1>5 DEF Joined

LEMMA StepJoined ==
  ASSUME JoinedInv, [Next]_vars PROVE JoinedInv'
<1>0. JobsInv /\ JobsInv' /\ TypeInv /\ TypeInv'
  BY StepJobsInv DEF JoinedInv, JobsInv
<1>1. Fine' => Fine /\ Joined
  BY <1>0, FineBefore DEF JoinedInv
<1>2. ASSUME NEW w \in Workers, WriteEdges(w) PROVE JoinedInv'
  <2>1. firsts' = firsts /\ firsts # 0
    BY <1>0, <1>2 DEF WriteEdges, JobsInv
  <2>2. Fine' => Joined'
    BY <1>0, <1>1, <1>2, JoinedWritten DEF Fine
  <2> QED
    BY <1>0, <2>1, <2>2 DEF JoinedInv
<1>3. ASSUME NEW w \in Workers, AddVertex(w) PROVE JoinedInv'
  <2>1. UNCHANGED <<firsts, edges>>
    BY <1>3 DEF AddVertex
  <2>2. Fine' => Joined'
    BY <1>0, <1>1, <1>3, JoinedAdded
  <2> QED
    BY <1>0, <2>1, <2>2 DEF JoinedInv
<1>4. ASSUME NEW w \in Workers, LockAll(w) PROVE JoinedInv'
  <2>1. UNCHANGED <<firsts, vertices, edges, node, candidates, found>>
    BY <1>4 DEF LockAll, search
  <2>2. ASSUME Fine' PROVE Joined'
    <3>1. PICK v \in Vertices, others \in Seq(Vertices) : v = node[w] /\ others = vertices
      BY <1>0 DEF TypeInv, TypeOK
    <3>2. /\ Len(others) > 0 /\ pc[w] = "all"
          /\ \A i \in 1 .. Len(others) : others[i] \in Linked
      BY <1>0, <1>4, <3>1 DEF LockAll, TypeInv, HeadNeeded, Linked, Inserted
    <3>3. /\ todo' = [todo EXCEPT ![w] = Connecting(v, others)]
          /\ \A u \in Workers : u # w => pc'[u] = pc[u]
          /\ ~After(w) /\ After(w)'
      BY <1>0, <1>4, <3>1 DEF LockAll, After, TypeInv, TypeOK
    <3>4. Joined /\ found'[w] = {}
      BY <1>1, <2>1, <2>2, <3>2 DEF Joined
    <3> QED
      BY <1>0, <2>1, <3>1, <3>2, <3>3, <3>4, JoinedPlanned
  <2> QED
    BY <1>0, <2>1, <2>2 DEF JoinedInv
<1>5. ASSUME NEW w \in Workers, Choose(w) PROVE JoinedInv'
  <2>1. /\ UNCHANGED <<firsts, vertices, edges, node>>
        /\ pc[w] = "search" /\ found'[w] = {} /\ pc'[w] \in {"panic", "append"}
        /\ \A u \in Workers : u # w => /\ pc'[u] = pc[u] /\ node'[u] = node[u]
                                       /\ candidates'[u] = candidates[u]
                                       /\ found'[u] = found[u]
    BY <1>0, <1>5 DEF Choose, graph, TypeInv, TypeOK
  <2>2. CASE Cardinality(found[w]) < k
    <3>1. UNCHANGED todo /\ pc'[w] = "panic"
      BY <1>0, <1>5, <2>2 DEF Choose, TypeInv, TypeOK
    <3>2. ~After(w)'
      BY <3>1 DEF After
    <3>3. Fine' => Joined'
      BY <1>0, <1>1, <2>1, <3>1, <3>2, JoinedFrame
    <3> QED
      BY <1>0, <2>1, <3>3 DEF JoinedInv
  <2>3. ASSUME ~(Cardinality(found[w]) < k), Fine' PROVE Joined'
    <3>1. PICK v \in Vertices : v = node[w]
      BY <1>0 DEF TypeInv, TypeOK
    <3>2. PICK neighbors \in Nearest(found[w], DistTo(w), k) :
            todo' = [todo EXCEPT ![w] = Connecting(v, neighbors)]
      BY <1>5, <2>3, <3>1 DEF Choose
    <3>3. found[w] \subseteq Vertices
      BY <1>0 DEF TypeInv, TypeOK
    <3>4. /\ neighbors \in Seq(Vertices) /\ Len(neighbors) > 0
          /\ \A i \in 1 .. Len(neighbors) : neighbors[i] \in found[w]
      <4>1. neighbors \in Seq(Vertices) /\ Len(neighbors) = k
        BY <2>3, <3>2, <3>3, NearestType
      <4>2. neighbors \in [1 .. k -> found[w]]
        BY <2>3, <3>2 DEF Nearest
      <4> QED
        BY <4>1, <4>2, KAssumption
    <3>5. Joined /\ found[w] \subseteq Linked
      BY <1>1, <2>1, <2>3 DEF Joined, SeesLinked
    <3>6. ~After(w) /\ After(w)'
      <4>1. pc'[w] = "append"
        BY <1>0, <1>5, <2>3 DEF Choose, TypeInv, TypeOK
      <4> QED
        BY <2>1, <4>1 DEF After
    <3>7. \A i \in 1 .. Len(neighbors) : neighbors[i] \in Linked
      BY <3>4, <3>5
    <3> QED
      BY <1>0, <2>1, <3>1, <3>2, <3>4, <3>5, <3>6, <3>7, JoinedPlanned
  <2> QED
    BY <1>0, <2>1, <2>2, <2>3 DEF JoinedInv
<1>6. ASSUME NEW w \in Workers, FirstInsert(w) PROVE JoinedInv'
  <2>1. firsts \in Nat /\ firsts' = firsts + 1
    BY <1>0, <1>6 DEF FirstInsert, TypeInv, TypeOK
  <2>2. ASSUME Fine' PROVE Joined'
    <3>1. firsts = 0
      BY <2>1, <2>2 DEF Fine
    <3>2. /\ \A u \in Workers : pc'[u] \in {"idle", "len", "first"}
          /\ UNCHANGED <<edges, todo, found, node>>
          /\ \A v \in Vertices : edges[v] = {}
          /\ \A u \in Workers : pc[u] \in {"idle", "len", "first"}
      BY <1>0, <1>6, <3>1 DEF FirstInsert, JobsInv, JoinedInv, TypeInv, TypeOK, search
    <3>3. \A u \in Workers : todo'[u] = <<>> /\ found'[u] = {}
      BY <1>0, <1>1, <2>2, <3>2 DEF TypeInv, HeadNeeded, Busy, TypeOK, Joined
    <3>4. PICK v \in Vertices : v = node[w] /\ vertices' = <<v>>
      BY <1>0, <1>6 DEF FirstInsert, TypeInv, TypeOK
    <3>5. Linked' = {v}
      <4>1. Inserted' = {v}
        BY <3>4 DEF Inserted
      <4> QED
        BY <3>2, <4>1 DEF Linked
    <3>6. OnePart'
      BY <3>5 DEF OnePart
    <3>7. PlansLinked'
      <4>1. \A u \in Workers : ~\E i \in 1 .. Len(todo'[u]) : TRUE
        BY <3>3
      <4> QED
        BY <4>1 DEF PlansLinked
    <3>8. SeesLinked' /\ Attaches'
      BY <3>2 DEF SeesLinked, Attaches, After
    <3> QED
      BY <3>3, <3>6, <3>7, <3>8 DEF Joined
  <2> QED
    BY <1>0, <2>1, <2>2 DEF JoinedInv
<1>7. ASSUME NEW w \in Workers,
             \/ Take(w) \/ ReadLen(w) \/ Enter(w) \/ ReadEdges(w)
             \/ \E c \in Vertices : Expand(w, c)
      PROVE  JoinedInv'
  <2>1. /\ UNCHANGED <<firsts, vertices, edges, todo>>
        /\ \A u \in Workers : u # w => /\ pc'[u] = pc[u] /\ node'[u] = node[u]
                                       /\ candidates'[u] = candidates[u]
                                       /\ found'[u] = found[u]
    BY <1>0, <1>7 DEF Take, ReadLen, Enter, ReadEdges, Expand, graph, search, TypeInv, TypeOK
  <2>2. ASSUME Fine' PROVE Joined'
    <3>1. Joined
      BY <1>1, <2>2
    <3>2. CASE Take(w) \/ ReadLen(w) \/ ReadEdges(w)
      <4>1. /\ pc[w] \in {"idle", "len", "append"} /\ pc'[w] # "search"
            /\ \/ pc'[w] \in {"len", "first", "all", "entry"}
               \/ pc[w] = "append" /\ pc'[w] = "store" /\ node'[w] = node[w]
            /\ found'[w] = found[w]
        BY <1>0, <3>2 DEF Take, ReadLen, ReadEdges, search, TypeInv, TypeOK
      <4>2. After(w)' => After(w) /\ node'[w] = node[w]
        BY <4>1 DEF After
      <4>3. found'[w] = {}
        BY <3>1, <4>1 DEF Joined
      <4> QED
        BY <1>0, <2>1, <3>1, <4>1, <4>2, <4>3, JoinedFrame
    <3>3. CASE Enter(w)
      <4>1. PICK i \in 1 .. Len(vertices) : candidates'[w] = {vertices[i]}
        BY <1>0, <3>3 DEF Enter, TypeInv, TypeOK
      <4>2. pc[w] = "entry" /\ pc'[w] = "search" /\ found'[w] = found[w]
        BY <1>0, <3>3 DEF Enter, TypeInv, TypeOK
      <4>3. candidates'[w] \subseteq Linked /\ found'[w] \subseteq Linked
        BY <3>1, <4>1, <4>2 DEF Joined, Linked, Inserted
      <4>4. ~After(w)'
        BY <4>2 DEF After
      <4> QED
        BY <1>0, <2>1, <3>1, <4>2, <4>3, <4>4, JoinedFrame
    <3>4. ASSUME NEW c \in Vertices, Expand(w, c) PROVE Joined'
      <4>1. /\ pc[w] = "search" /\ pc'[w] = "search"
            /\ candidates'[w] = (candidates[w] \ {c}) \cup (edges[c] \ found[w])
            /\ found'[w] = found[w] \cup edges[c]
        BY <1>0, <3>4 DEF Expand, TypeInv, TypeOK
      <4>2. edges[c] \subseteq Linked
        BY <1>0 DEF Linked, TypeInv, TypeOK
      <4>3. candidates'[w] \subseteq Linked /\ found'[w] \subseteq Linked
        BY <3>1, <4>1, <4>2 DEF Joined, SeesLinked
      <4>4. ~After(w)'
        BY <4>1 DEF After
      <4> QED
        BY <1>0, <2>1, <3>1, <4>1, <4>3, <4>4, JoinedFrame
    <3> QED
      BY <1>7, <3>2, <3>3, <3>4
  <2> QED
    BY <1>0, <2>1, <2>2 DEF JoinedInv
<1>8. CASE UNCHANGED vars
  <2>1. UNCHANGED <<firsts, raced, vertices, edges, todo, pc, node, candidates, found>>
    BY <1>8 DEF vars, graph, search
  <2>2. Linked' = Linked
    BY <2>1 DEF Linked, Inserted
  <2>3. Joined => Joined'
    BY <2>1, <2>2 DEF Joined, OnePart, Closed, SeesLinked, PlansLinked, Attaches,
                      After, Will, Pending
  <2> QED
    BY <1>0, <1>1, <2>1, <2>3 DEF JoinedInv
<1> QED
  BY <1>2, <1>3, <1>4, <1>5, <1>6, <1>7, <1>8 DEF Next, Step, Insert, Over

(* When all insertions have returned, and no append has lost edges of        *)
(* others, a search may begin at any vertex: the graph is in one part, and   *)
(* every edge can be followed in both directions.                            *)
THEOREM GraphIsConnected == Spec => []Connected
<1>1. Init => JoinedInv
  <2> SUFFICES ASSUME Init PROVE Joined /\ \A v \in Vertices : edges[v] = {}
    BY InitJobsInv DEF JoinedInv
  <2>1. /\ Len(vertices) = 0 /\ \A v \in Vertices : edges[v] = {}
        /\ \A w \in Workers : Len(todo[w]) = 0 /\ pc[w] = "idle" /\ found[w] = {}
    BY DEF Init
  <2>2. Linked = {}
    BY <2>1 DEF Linked, Inserted
  <2> QED
    BY <2>1, <2>2 DEF Joined, OnePart, SeesLinked, PlansLinked, Attaches, After
<1>2. JoinedInv /\ [Next]_vars => JoinedInv'
  BY StepJoined
<1>3. JoinedInv /\ UndirectedInv /\ NothingLost => Connected
  <2> SUFFICES ASSUME JoinedInv, UndirectedInv, NothingLost, Quiet, firsts <= 1, ~raced,
                      NEW part \in (SUBSET Inserted) \ {{}},
                      \A v \in part : edges[v] \cap Inserted \subseteq part
               PROVE  part = Inserted
    BY DEF Connected
  <2>1. Inserted = Vertices /\ Joined /\ Undirected
    BY DEF NothingLost, JoinedInv, UndirectedInv, Fine
  <2>2. \A v \in Vertices : edges[v] \subseteq Vertices
    BY DEF UndirectedInv, TypeInv, TypeOK
  <2>3. \A w \in Workers, x, y \in Vertices : ~Pending(w, x, y)
    <3>1. \A w \in Workers : todo[w] = <<>>
      BY DEF Quiet, UndirectedInv, TypeInv, TypeOK, HeadNeeded, Busy
    <3>2. \A w \in Workers : ~\E i \in 1 .. Len(todo[w]) : TRUE
      BY <3>1
    <3> QED
      BY <3>2 DEF Pending
  <2>4. \A v, u \in Vertices : u \in edges[v] => v \in edges[u]
    BY <2>1, <2>3 DEF Undirected
  <2>5. Closed(part)
    BY <2>1, <2>2, <2>4 DEF Closed
  <2>6. Vertices = Linked
    BY <2>1, LinkedType DEF Linked, UndirectedInv
  <2> QED
    BY <2>1, <2>5, <2>6 DEF Joined, OnePart
<1>4. Spec => []NothingLost /\ []UndirectedInv
  BY NothingIsLost, UndirectedInvariance
<1> QED
  BY <1>1, <1>2, <1>3, <1>4, PTL DEF Spec
================================================================================
