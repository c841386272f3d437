---------------------------------- MODULE Nsw ----------------------------------
(****************************************************************************)
(* The older graph nsw while several nswWorker goroutines insert into it.   *)
(* It has one layer and no degree limit; the first k vertices are connected *)
(* with each other, a later one with the k nearest that a search finds.     *)
(*                                                                          *)
(* A step is what a goroutine does between two points at which it can meet  *)
(* the others: a lock, or a read or write of the edges of a vertex.  Edges  *)
(* are appended to in two steps, because a vertex extends its own edges     *)
(* without its lock while others, who have found it through a neighbor,     *)
(* extend them under it.  Lists of edges are sets here: the order of a list *)
(* only decides between equal distances.                                    *)
(****************************************************************************)
EXTENDS OrderedSet

CONSTANTS
  Workers, \* the nswWorker goroutines
  N,       \* how many vertices are inserted; they are 0 .. N - 1
  k,       \* how many neighbors a vertex is connected with
  Dist     \* Dist[a][b]: cosineDist of their vectors

Vertices == 0 .. N - 1

ASSUME WorkersAssumption == IsFiniteSet(Workers)
ASSUME NAssumption       == N \in Nat \ {0}
ASSUME KAssumption       == k \in Nat \ {0}
ASSUME DistAssumption    == Dist \in [Vertices -> [Vertices -> Nat]]

VARIABLES
  vertices,   \* g.vertices
  edges,      \* edges[v]: the members of v.edges
  glock,      \* {w}: w holds g.Lock() across steps; {}: it is free
  jobs,       \* how many jobs have been handed out: 0 .. jobs - 1
  \* the locals of each worker
  pc,
  node,       \* vertexToInsert
  candidates,
  found,      \* tempRes, which always has the members of visitedSet
  todo,       \* the pairs <<v, e>>: v.edges = append(v.edges, e) still to come
  old,        \* the v.edges that append is applied to
  \* history
  firsts,     \* how often g.vertices was made
  raced       \* edges were changed by others between reading and writing them

graph  == <<vertices, edges, glock, firsts, raced>>
search == <<candidates, found>>
vars   == <<graph, jobs, pc, node, search, todo, old>>

-------------------------------------------------------------------------------
DistTo(w) == Dist[node[w]]

Init ==
  /\ vertices = <<>>
  /\ edges = [v \in Vertices |-> {}]
  /\ glock = {}
  /\ jobs = 0
  /\ pc = [w \in Workers |-> "idle"]
  /\ node = [w \in Workers |-> 0]
  /\ candidates = [w \in Workers |-> {}]
  /\ found = [w \in Workers |-> {}]
  /\ todo = [w \in Workers |-> <<>>]
  /\ old = [w \in Workers |-> {}]
  /\ firsts = 0
  /\ raced = FALSE

(* nswWorker receives a job. *)
Take(w) ==
  /\ pc[w] = "idle"
  /\ jobs < N
  /\ jobs' = jobs + 1
  /\ node' = [node EXCEPT ![w] = jobs]
  /\ pc' = [pc EXCEPT ![w] = "len"]
  /\ UNCHANGED <<graph, search, todo, old>>

(* Faulty: off by one, the search begins with fewer than k vertices. *)
ReadLenEarly(w) ==
  /\ pc[w] = "len"
  /\ glock = {}
  /\ pc' = [pc EXCEPT ![w] = IF Len(vertices) = 0 THEN "first"
                             ELSE IF Len(vertices) < k - 1 THEN "all"
                             ELSE "entry"]
  /\ UNCHANGED <<graph, jobs, node, search, todo, old>>

(* currentLen is read under the read lock; what is done then depends on it *)
(* alone, not on what the length has become meanwhile.                     *)
ReadLen(w) ==
  /\ pc[w] = "len"
  /\ glock = {}
  /\ pc' = [pc EXCEPT ![w] = IF Len(vertices) = 0 THEN "first"
                             ELSE IF Len(vertices) < k THEN "all"
                             ELSE "entry"]
  /\ UNCHANGED <<graph, jobs, node, search, todo, old>>

(* currentLen = 0: g.vertices becomes a new list, whatever it was. *)
FirstInsert(w) ==
  /\ pc[w] = "first"
  /\ glock = {}
  /\ vertices' = <<node[w]>>
  /\ firsts' = firsts + 1
  /\ pc' = [pc EXCEPT ![w] = "idle"]
  /\ UNCHANGED <<edges, glock, raced, jobs, node, search, todo, old>>

(* Faulty: the others are not told. *)
ConnectingOneWay(v, others) == [i \in 1 .. Len(others) |-> <<v, others[i]>>]

(* Faulty: only the others are told. *)
ConnectingOthers(v, others) == [i \in 1 .. Len(others) |-> <<others[i], v>>]

(* The appends that connect a vertex with each of a list of others: the      *)
(* other one is extended first.                                              *)
Connecting(v, others) ==
  [i \in 1 .. 2 * Len(others) |->
     LET other == others[(i + 1) \div 2]
     IN IF i % 2 = 1 THEN <<other, v>> ELSE <<v, other>>]

(* 0 < currentLen < k: the vertex is connected with all that are there now,  *)
(* under the write lock.                                                     *)
LockAll(w) ==
  /\ pc[w] = "all"
  /\ glock = {}
  /\ glock' = {w}
  /\ todo' = [todo EXCEPT ![w] = Connecting(node[w], vertices)]
  /\ pc' = [pc EXCEPT ![w] = "append"]
  /\ UNCHANGED <<vertices, edges, firsts, raced, jobs, node, search, old>>

-------------------------------------------------------------------------------
(* knnSearch with maximumSearches = 1 begins at a random vertex, which is a *)
(* candidate but neither visited nor a result yet.                          *)
Enter(w) ==
  /\ pc[w] = "entry"
  /\ glock = {}
  /\ \E i \in 1 .. Len(vertices) :
       candidates' = [candidates EXCEPT ![w] = {vertices[i]}]
  /\ pc' = [pc EXCEPT ![w] = "search"]
  /\ UNCHANGED <<graph, jobs, node, found, todo, old>>

(* len(resultSlice) >= k && candidateDist > resultSlice[k-1].dist *)
TooFar(w, c) ==
  /\ Cardinality(found[w]) >= k
  /\ \A s \in Nearest(found[w], DistTo(w), k) : Dist[node[w]][c] > Dist[node[w]][s[k]]

(* The nearest candidate is taken out, and its friends, read without a lock, *)
(* become candidates and results unless they were visited.                   *)
Expand(w, c) ==
  /\ pc[w] = "search"
  /\ c \in Minima(candidates[w], DistTo(w))
  /\ ~TooFar(w, c)
  /\ candidates' = [candidates EXCEPT ![w] = (@ \ {c}) \cup (edges[c] \ found[w])]
  /\ found' = [found EXCEPT ![w] = @ \cup edges[c]]
  /\ UNCHANGED <<graph, jobs, pc, node, todo, old>>

(* No candidate is left, or the nearest one is too far.  The result is an    *)
(* array of k, filled from the list of what was found without asking how     *)
(* long that is: if it is shorter the index is out of range, and the panic   *)
(* ends the program.                                                         *)
Choose(w) ==
  /\ pc[w] = "search"
  /\ \A c \in Minima(candidates[w], DistTo(w)) : TooFar(w, c)
  /\ IF Cardinality(found[w]) < k
     THEN /\ pc' = [pc EXCEPT ![w] = "panic"]
          /\ UNCHANGED todo
     ELSE /\ \E neighbors \in Nearest(found[w], DistTo(w), k) :
               todo' = [todo EXCEPT ![w] = Connecting(node[w], neighbors)]
          /\ pc' = [pc EXCEPT ![w] = "append"]
  /\ candidates' = [candidates EXCEPT ![w] = {}]
  /\ found' = [found EXCEPT ![w] = {}]
  /\ UNCHANGED <<graph, jobs, node, old>>

-------------------------------------------------------------------------------
Target(w) == Head(todo[w])[1]
Edge(w)   == Head(todo[w])[2]

(* neighbor.vertex.Lock() is held by a worker after a search while it        *)
(* extends the neighbor; not while it extends its own vertex, and not by one *)
(* that holds the write lock of the graph.                                   *)
Locks(w, v) ==
  /\ pc[w] = "store"
  /\ w \notin glock
  /\ Target(w) = v
  /\ v # node[w]

(* append begins: the slice is read. *)
ReadEdges(w) ==
  /\ pc[w] = "append"
  /\ Target(w) # node[w] /\ w \notin glock => ~\E u \in Workers : Locks(u, Target(w))
  /\ old' = [old EXCEPT ![w] = edges[Target(w)]]
  /\ pc' = [pc EXCEPT ![w] = "store"]
  /\ UNCHANGED <<graph, jobs, node, search, todo>>

(* What append(before, e) stores if the slice has become now meanwhile: what *)
(* was appended in between is lost; or, if both use the same array, one of   *)
(* what was appended in between may have taken the place of e.               *)
Appended(before, now, e) ==
  {before \cup {e}} \cup {before \cup {x} : x \in now \ before}

(* append ends: the slice is written, and the next append begins. *)
WriteEdges(w) ==
  /\ pc[w] = "store"
  /\ \E s \in Appended(old[w], edges[Target(w)], Edge(w)) :
       edges' = [edges EXCEPT ![Target(w)] = s]
  /\ raced' = (raced \/ edges[Target(w)] # old[w])
  /\ todo' = [todo EXCEPT ![w] = Tail(@)]
  /\ old' = [old EXCEPT ![w] = {}]
  /\ pc' = [pc EXCEPT ![w] = IF Len(todo[w]) = 1 THEN "add" ELSE "append"]
  /\ UNCHANGED <<vertices, glock, firsts, jobs, node, search>>

(* Faulty: the branch for the first k vertices returns too early. *)
AddVertexAfterSearch(w) ==
  /\ pc[w] = "add"
  /\ glock \subseteq {w}
  /\ vertices' = IF glock = {w} THEN vertices ELSE Append(vertices, node[w])
  /\ glock' = {}
  /\ pc' = [pc EXCEPT ![w] = "idle"]
  /\ UNCHANGED <<edges, firsts, raced, jobs, node, search, todo, old>>

(* The vertex joins the graph, under the write lock. *)
AddVertex(w) ==
  /\ pc[w] = "add"
  /\ glock \subseteq {w}
  /\ vertices' = Append(vertices, node[w])
  /\ glock' = {}
  /\ pc' = [pc EXCEPT ![w] = "idle"]
  /\ UNCHANGED <<edges, firsts, raced, jobs, node, search, todo, old>>

-------------------------------------------------------------------------------
Insert(w) ==
  \/ ReadLen(w) \/ FirstInsert(w) \/ LockAll(w)
  \/ Enter(w) \/ Choose(w)
  \/ \E c \in Vertices : Expand(w, c)
  \/ ReadEdges(w) \/ WriteEdges(w) \/ AddVertex(w)

Running == \A w \in Workers : pc[w] # "panic"

Step(w) == Running /\ (Take(w) \/ Insert(w))

Quiet == jobs = N /\ \A w \in Workers : pc[w] = "idle"

(* The program is over: it has panicked, or every insertion has returned. *)
Over == (~Running \/ Quiet) /\ UNCHANGED vars

Next == (\E w \in Workers : Step(w)) \/ Over

Spec == Init /\ [][Next]_vars

-------------------------------------------------------------------------------
Inserted == {vertices[i] : i \in 1 .. Len(vertices)}

TypeOK ==
  /\ vertices \in Seq(Vertices)
  /\ edges \in [Vertices -> SUBSET Vertices]
  /\ glock \subseteq Workers
  /\ jobs \in 0 .. N
  /\ pc \in [Workers -> {"idle", "len", "first", "all", "entry", "search",
                         "append", "store", "add", "panic"}]
  /\ node \in [Workers -> Vertices]
  /\ candidates \in [Workers -> SUBSET Vertices]
  /\ found \in [Workers -> SUBSET Vertices]
  /\ todo \in [Workers -> Seq(Vertices \X Vertices)]
  /\ old \in [Workers -> SUBSET Vertices]
  /\ firsts \in Nat
  /\ raced \in BOOLEAN

(* A search finds at least k vertices, the array it fills is not longer than *)
(* the list (139): unless two workers have both found the graph empty, so    *)
(* that the vertices of the first are gone, or an append has lost edges.     *)
(* Either of these can leave a vertex with fewer than k within reach.  main  *)
(* has k = 36; with k = 1 a search that begins at a vertex without edges     *)
(* finds nothing.                                                            *)
NoPanic == (firsts <= 1 /\ ~raced) => Running

(* Unless two workers found the graph empty, every vertex is in the list     *)
(* once when all insertions have returned, whatever happened to edges.       *)
NothingLost ==
  (Quiet /\ firsts <= 1) =>
     /\ Inserted = Vertices
     /\ \A i, j \in 1 .. Len(vertices) : i # j => vertices[i] # vertices[j]

(* w has not come to extend the edges of v by e yet. *)
Pending(w, v, e) == \E i \in 1 .. Len(todo[w]) : todo[w][i] = <<v, e>>

(* Until an append loses edges, the graph is undirected but for the appends  *)
(* that a worker is still about to make.                                     *)
Undirected ==
  ~raced => \A v, u \in Vertices :
              u \in edges[v] => v \in edges[u] \/ \E w \in Workers : Pending(w, u, v)

(* Until then, and unless two workers found the graph empty, a search may    *)
(* begin at any vertex: from each of them all others can be reached.         *)
Connected ==
  (Quiet /\ firsts <= 1 /\ ~raced) =>
     \A part \in (SUBSET Inserted) \ {{}} :
        (\A v \in part : edges[v] \cap Inserted \subseteq part) => part = Inserted
================================================================================
