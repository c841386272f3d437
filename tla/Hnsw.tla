--------------------------------- MODULE Hnsw ---------------------------------
(****************************************************************************)
(* One hnsw graph while several worker goroutines insert into it: the       *)
(* method insert with everything it calls.  A step is what a goroutine does *)
(* between two points at which it can meet the others: an acquisition of a  *)
(* lock, or a read or a write of entryPointID or currentMaximumLayer, which *)
(* the code reads without a lock.                                           *)
(*                                                                          *)
(* The lock of a vertex is only held within one step and needs no variable; *)
(* neither does a read lock of the graph, which excludes the holder of the  *)
(* write lock hlock.  A vertex is identified with its id: every id comes in *)
(* one job and is turned into one object.  Jobs whose coin flip chose the   *)
(* other graph, and so the calls of insertFromExternal, are left out: this  *)
(* is a run in which every flip chose this graph (module TwoGraphs has the  *)
(* others).  What is sent to the commit log changes nothing here, and is    *)
(* left to module CommitLog.                                                *)
(****************************************************************************)
EXTENDS HnswParameters

CONSTANTS
  Workers,       \* the hnswWorker goroutines
  efConstruction \* how many results an insertion asks of a search

ASSUME WorkersAssumption == IsFiniteSet(Workers)
ASSUME EfAssumption      == efConstruction \in Nat \ {0}

VARIABLES
  \* the graph
  nodes,               \* the ids with h.nodes[id] # nil; {}: len(h.nodes) = 0
  entryPointID,
  currentMaximumLayer,
  hlock,               \* {w}: w holds h.Lock() across steps; {}: it is free
  levelOf,             \* levelOf[v]: v.level
  connections,         \* connections[v][l]: v.connections[l]
  \* the channels
  jobs,                \* how many jobs have been handed out: 0 .. jobs - 1
  hooks,               \* the calls go h.insertHook(...) started so far
  \* the locals of each worker
  pc,
  node,                \* the vertex being inserted
  layer,               \* the loop variable level, before it currentMaximumLayer
  visited, candidates, results, todo, worst, \* see module SearchLayer
  chosen,              \* neighborsAtLevel
  idx,                 \* position in the range over neighbors
  snapshot,            \* currentConnections, once found to be too many
  \* history
  firsts               \* how often a worker has made the table h.nodes

graph  == <<nodes, entryPointID, currentMaximumLayer, hlock, levelOf,
            connections, firsts>>
search == <<visited, candidates, results, todo, worst>>
vars   == <<graph, jobs, hooks, pc, node, layer, search, chosen, idx, snapshot>>

-------------------------------------------------------------------------------
(* The distances of the vertex w inserts. *)
DistTo(w) == Dist[node[w]]

Init ==
  /\ nodes = {} /\ entryPointID = 0 /\ currentMaximumLayer = 0 /\ hlock = {}
  /\ levelOf = [v \in Ids |-> 0]
  /\ connections = [v \in Ids |-> Unlinked]
  /\ firsts = 0
  /\ jobs = 0
  /\ hooks = {}
  /\ pc = [w \in Workers |-> "idle"]
  /\ node = [w \in Workers |-> 0]
  /\ layer = [w \in Workers |-> 0]
  /\ visited = [w \in Workers |-> {}]
  /\ candidates = [w \in Workers |-> {}]
  /\ results = [w \in Workers |-> {}]
  /\ todo = [w \in Workers |-> <<>>]
  /\ worst = [w \in Workers |-> 0]
  /\ chosen = [w \in Workers |-> Unlinked]
  /\ idx = [w \in Workers |-> 0]
  /\ snapshot = [w \in Workers |-> <<>>]

(* hnswWorker takes the next job and begins an insertion. *)
Take(w) ==
  /\ pc[w] = "idle"
  /\ jobs < N
  /\ jobs' = jobs + 1
  /\ node' = [node EXCEPT ![w] = jobs]
  /\ chosen' = [chosen EXCEPT ![w] = Unlinked]
  /\ pc' = [pc EXCEPT ![w] = "total"]
  /\ UNCHANGED <<graph, hooks, layer, search, idx, snapshot>>

(* total := len(h.nodes) under the read lock, and the test total == 0. *)
ReadTotal(w) ==
  /\ pc[w] = "total"
  /\ hlock = {}
  /\ pc' = [pc EXCEPT ![w] = IF nodes = {} THEN "first" ELSE "entry"]
  /\ UNCHANGED <<graph, jobs, hooks, node, layer, search, chosen, idx, snapshot>>

(* The graph was empty when total was read.  The new entry point is visible *)
(* to the unlocked reads before the table and the maximum layer are.        *)
LockFirst(w) ==
  /\ pc[w] = "first"
  /\ hlock = {}
  /\ hlock' = {w}
  /\ entryPointID' = node[w]
  /\ pc' = [pc EXCEPT ![w] = "table"]
  /\ UNCHANGED <<nodes, currentMaximumLayer, levelOf, connections, firsts, jobs,
                 hooks, node, layer, search, chosen, idx, snapshot>>

(* h.nodes becomes a fresh table, whatever it was; the hook is given the    *)
(* vertex's own map of connections, not a copy (live).                      *)
FirstInsert(w) ==
  /\ pc[w] = "table"
  /\ currentMaximumLayer' = 0
  /\ connections' = [connections EXCEPT ![node[w]] = Unlinked]
  /\ levelOf' = [levelOf EXCEPT ![node[w]] = 0]
  /\ nodes' = {node[w]}
  /\ hlock' = {}
  /\ firsts' = firsts + 1
  /\ hooks' = hooks \cup {[node |-> node[w], target |-> 0,
                           neighbors |-> Unlinked, live |-> TRUE]}
  /\ pc' = [pc EXCEPT ![w] = "idle"]
  /\ UNCHANGED <<entryPointID, jobs, node, layer, search, chosen, idx, snapshot>>

(* entryPointID := h.entryPointID, without a lock: the first search starts  *)
(* from there.                                                              *)
ReadEntryPoint(w) ==
  /\ pc[w] = "entry"
  /\ results' = [results EXCEPT ![w] = {entryPointID}]
  /\ pc' = [pc EXCEPT ![w] = "max"]
  /\ UNCHANGED <<graph, jobs, hooks, node, layer, visited, candidates, todo,
                 worst, chosen, idx, snapshot>>

(* currentMaximumLayer is read, again without a lock; the level is drawn;   *)
(* nobody else knows the vertex yet.                                        *)
ReadMaximumLayer(w) ==
  /\ pc[w] = "max"
  /\ layer' = [layer EXCEPT ![w] = currentMaximumLayer]
  /\ \E targetLevel \in Levels :
       levelOf' = [levelOf EXCEPT ![node[w]] = targetLevel]
  /\ connections' = [connections EXCEPT ![node[w]] = Unlinked]
  /\ pc' = [pc EXCEPT ![w] = "add"]
  /\ UNCHANGED <<nodes, entryPointID, currentMaximumLayer, hlock, firsts, jobs,
                 hooks, node, search, chosen, idx, snapshot>>

(* searchLayer begins with its trees filled from the entry points eps. *)
StartSearch(w, eps) ==
  /\ visited' = [visited EXCEPT ![w] = eps]
  /\ candidates' = [candidates EXCEPT ![w] = eps]
  /\ results' = [results EXCEPT ![w] = eps]
  /\ worst' = [worst EXCEPT ![w] = 0]
  /\ UNCHANGED todo

(* Faulty: the vertex is not stored in the table. *)
AddNodeNowhere(w) ==
  /\ pc[w] = "add"
  /\ hlock = {}
  /\ StartSearch(w, results[w])
  /\ pc' = [pc EXCEPT ![w] = "search"]
  /\ UNCHANGED <<graph, jobs, hooks, node, layer, chosen, idx, snapshot>>

(* h.nodes[nodeId] = node, under the write lock; then the first search.     *)
(* Levels above the target are descended to find an entry point, the others *)
(* are linked: both loops together run from the maximum read down to 0.     *)
AddNode(w) ==
  /\ pc[w] = "add"
  /\ hlock = {}
  /\ nodes' = nodes \cup {node[w]}
  /\ StartSearch(w, results[w])
  /\ pc' = [pc EXCEPT ![w] = "search"]
  /\ UNCHANGED <<entryPointID, currentMaximumLayer, hlock, levelOf, connections,
                 firsts, jobs, hooks, node, layer, chosen, idx, snapshot>>

-------------------------------------------------------------------------------
(* searchLayer, see module SearchLayer for its properties.                  *)
Descending(w) == layer[w] > levelOf[node[w]]
Ef(w) == IF Descending(w) THEN 1 ELSE efConstruction

(* Faulty: the candidate is expanded but stays a candidate. *)
ExpandKeeping(w, c) ==
  /\ pc[w] = "search"
  /\ todo[w] = <<>>
  /\ hlock = {}
  /\ c \in Minima(candidates[w], DistTo(w))
  /\ \E m \in Maxima(results[w], DistTo(w)) :
       /\ Dist[node[w]][c] <= Dist[node[w]][m]
       /\ worst' = [worst EXCEPT ![w] = Dist[node[w]][m]]
  /\ c \in nodes
  /\ todo' = [todo EXCEPT ![w] = connections[c][layer[w]]]
  /\ UNCHANGED <<graph, jobs, hooks, pc, node, layer, visited, candidates,
                 results, chosen, idx, snapshot>>

(* The closest candidate is no farther than the worst result: look it up in *)
(* the table and copy its connections.  The two lookups are one step: what  *)
(* is in the table stays there unless a second first insertion replaces it. *)
(* A vertex that is not there is a nil pointer, on which RLock panics, and  *)
(* the panic of one goroutine ends the program.                             *)
Expand(w, c) ==
  /\ pc[w] = "search"
  /\ todo[w] = <<>>
  /\ hlock = {}
  /\ c \in Minima(candidates[w], DistTo(w))
  /\ \E m \in Maxima(results[w], DistTo(w)) :
       /\ Dist[node[w]][c] <= Dist[node[w]][m]
       /\ worst' = [worst EXCEPT ![w] = Dist[node[w]][m]]
  /\ candidates' = [candidates EXCEPT ![w] = @ \ {c}]
  /\ IF c \in nodes
     THEN /\ todo' = [todo EXCEPT ![w] = connections[c][layer[w]]]
          /\ UNCHANGED pc
     ELSE /\ pc' = [pc EXCEPT ![w] = "panic"]
          /\ UNCHANGED todo
  /\ UNCHANGED <<graph, jobs, hooks, node, layer, visited, results, chosen, idx,
                 snapshot>>

Admits(w, v) == \/ Dist[node[w]][v] < worst[w]
                \/ Cardinality(results[w]) < Ef(w)

(* The next of the candidate's connections, in the order of its list. *)
Visit(w) ==
  LET v == Head(todo[w]) IN
  /\ pc[w] = "search"
  /\ todo[w] # <<>>
  /\ todo' = [todo EXCEPT ![w] = Tail(@)]
  /\ visited' = [visited EXCEPT ![w] = @ \cup {v}]
  /\ IF v \notin visited[w] /\ Admits(w, v)
     THEN /\ candidates' = [candidates EXCEPT ![w] = @ \cup {v}]
          /\ IF Cardinality(results[w]) + 1 > Ef(w)
             THEN \E m \in Maxima(results[w] \cup {v}, DistTo(w)) :
                    results' = [results EXCEPT ![w] = (@ \cup {v}) \ {m}]
             ELSE results' = [results EXCEPT ![w] = @ \cup {v}]
     ELSE UNCHANGED <<candidates, results>>
  /\ UNCHANGED <<graph, jobs, hooks, pc, node, layer, worst, chosen, idx, snapshot>>

(* No candidate is left, or the closest one is farther than every result. *)
SearchOver(w) ==
  /\ pc[w] = "search"
  /\ todo[w] = <<>>
  /\ \A c \in candidates[w] : \A m \in Maxima(results[w], DistTo(w)) :
       Dist[node[w]][c] > Dist[node[w]][m]

(* A level above the target: the best vertex found is where the search of   *)
(* the next lower level starts.                                             *)
Descend(w) ==
  /\ SearchOver(w)
  /\ Descending(w)
  /\ \E best \in Minima(results[w], DistTo(w)) : StartSearch(w, {best})
  /\ layer' = [layer EXCEPT ![w] = @ - 1]
  /\ UNCHANGED <<graph, jobs, hooks, pc, node, chosen, idx, snapshot>>

(* A level to link: selectNeighborsSimple takes the closest of the results. *)
SelectNeighbors(w) ==
  /\ SearchOver(w)
  /\ ~Descending(w)
  /\ \E s \in Nearest(results[w], DistTo(w), maximumConnections) :
       chosen' = [chosen EXCEPT ![w][layer[w]] = s]
  /\ idx' = [idx EXCEPT ![w] = 1]
  /\ candidates' = [candidates EXCEPT ![w] = {}]
  /\ visited' = [visited EXCEPT ![w] = {}]
  /\ pc' = [pc EXCEPT ![w] = "link"]
  /\ UNCHANGED <<graph, jobs, hooks, node, layer, results, todo, worst, snapshot>>

-------------------------------------------------------------------------------
Neighbor(w) == chosen[w][layer[w]][idx[w]]

(* neighbor.linkAtLevel(level, nodeId): the neighbor is looked up in the    *)
(* table (a missing one is a nil pointer) and extended under its own lock.  *)
LinkNeighbor(w) ==
  /\ pc[w] = "link"
  /\ hlock = {}
  /\ IF Neighbor(w) \in nodes
     THEN /\ connections' =
               [connections EXCEPT ![Neighbor(w)][layer[w]] = Append(@, node[w])]
          /\ pc' = [pc EXCEPT ![w] = "linkSelf"]
     ELSE /\ pc' = [pc EXCEPT ![w] = "panic"]
          /\ UNCHANGED connections
  /\ UNCHANGED <<nodes, entryPointID, currentMaximumLayer, hlock, levelOf,
                 firsts, jobs, hooks, node, layer, search, chosen, idx, snapshot>>

(* Faulty: the vertex is linked to itself. *)
LinkSelfToSelf(w) ==
  /\ pc[w] = "linkSelf"
  /\ connections' = [connections EXCEPT ![node[w]][layer[w]] = Append(@, node[w])]
  /\ pc' = [pc EXCEPT ![w] = "count"]
  /\ UNCHANGED <<nodes, entryPointID, currentMaximumLayer, hlock, levelOf,
                 firsts, jobs, hooks, node, layer, search, chosen, idx, snapshot>>

(* node.linkAtLevel(level, neighbor.id): other workers may have linked to   *)
(* the vertex, or pruned it, already.                                       *)
LinkSelf(w) ==
  /\ pc[w] = "linkSelf"
  /\ connections' =
       [connections EXCEPT ![node[w]][layer[w]] = Append(@, Neighbor(w))]
  /\ pc' = [pc EXCEPT ![w] = "count"]
  /\ UNCHANGED <<nodes, entryPointID, currentMaximumLayer, hlock, levelOf,
                 firsts, jobs, hooks, node, layer, search, chosen, idx, snapshot>>

(* The end of the loop body: the next neighbor, the next lower level with   *)
(* the results as its entry points, or the end of the loops.                *)
Advance(w) ==
  /\ snapshot' = [snapshot EXCEPT ![w] = <<>>]
  /\ \/ /\ idx[w] < Len(chosen[w][layer[w]])
        /\ idx' = [idx EXCEPT ![w] = @ + 1]
        /\ pc' = [pc EXCEPT ![w] = "link"]
        /\ UNCHANGED <<layer, search>>
     \/ /\ idx[w] >= Len(chosen[w][layer[w]])
        /\ layer[w] > 0
        /\ layer' = [layer EXCEPT ![w] = @ - 1]
        /\ StartSearch(w, results[w])
        /\ pc' = [pc EXCEPT ![w] = "search"]
        /\ UNCHANGED idx
     \/ /\ idx[w] >= Len(chosen[w][layer[w]])
        /\ layer[w] = 0
        /\ pc' = [pc EXCEPT ![w] = "raise"]
        /\ UNCHANGED <<layer, search, idx>>

(* Faulty: the neighbor is never pruned. *)
CountNeighborOnly(w) ==
  /\ pc[w] = "count"
  /\ Advance(w)
  /\ UNCHANGED <<graph, jobs, hooks, node, chosen>>

(* Faulty: off by one, a list may be longer than the limit. *)
CountNeighborLate(w) ==
  LET current == connections[Neighbor(w)][layer[w]] IN
  /\ pc[w] = "count"
  /\ IF Len(current) <= Limit(layer[w]) + 1
     THEN Advance(w)
     ELSE /\ snapshot' = [snapshot EXCEPT ![w] = current]
          /\ pc' = [pc EXCEPT ![w] = "prune"]
          /\ UNCHANGED <<layer, search, idx>>
  /\ UNCHANGED <<graph, jobs, hooks, node, chosen>>

(* currentConnections is copied under the neighbor's read lock; if there    *)
(* are few enough of them, that is all.                                     *)
CountNeighbor(w) ==
  LET current == connections[Neighbor(w)][layer[w]] IN
  /\ pc[w] = "count"
  /\ IF Len(current) <= Limit(layer[w])
     THEN Advance(w)
     ELSE /\ snapshot' = [snapshot EXCEPT ![w] = current]
          /\ pc' = [pc EXCEPT ![w] = "prune"]
          /\ UNCHANGED <<layer, search, idx>>
  /\ UNCHANGED <<graph, jobs, hooks, node, chosen>>

(* Faulty: off by one, one connection too many is dropped. *)
PruneTooMany(w) ==
  /\ pc[w] = "prune"
  /\ \E s \in Nearest(Elements(snapshot[w]), DistTo(w), Limit(layer[w]) - 1) :
       connections' = [connections EXCEPT ![Neighbor(w)][layer[w]] = s]
  /\ Advance(w)
  /\ UNCHANGED <<nodes, entryPointID, currentMaximumLayer, hlock, levelOf,
                 firsts, jobs, hooks, node, chosen>>

(* Faulty: the neighbor keeps what is closest to itself. *)
PruneForNeighbor(w) ==
  /\ pc[w] = "prune"
  /\ \E s \in Nearest(Elements(snapshot[w]), Dist[Neighbor(w)],
                      Limit(layer[w])) :
       connections' = [connections EXCEPT ![Neighbor(w)][layer[w]] = s]
  /\ Advance(w)
  /\ UNCHANGED <<nodes, entryPointID, currentMaximumLayer, hlock, levelOf,
                 firsts, jobs, hooks, node, chosen>>

(* The neighbor keeps, of the copy, what is closest to the NEW vertex; what *)
(* others have linked to it since the copy was made is overwritten.         *)
Prune(w) ==
  /\ pc[w] = "prune"
  /\ \E s \in Nearest(Elements(snapshot[w]), DistTo(w), Limit(layer[w])) :
       connections' = [connections EXCEPT ![Neighbor(w)][layer[w]] = s]
  /\ Advance(w)
  /\ UNCHANGED <<nodes, entryPointID, currentMaximumLayer, hlock, levelOf,
                 firsts, jobs, hooks, node, chosen>>

-------------------------------------------------------------------------------
(* What an insertion leaves behind of its locals when it returns: nothing.  *)
Forget(w) ==
  /\ results' = [results EXCEPT ![w] = {}]
  /\ worst' = [worst EXCEPT ![w] = 0]
  /\ chosen' = [chosen EXCEPT ![w] = Unlinked]
  /\ idx' = [idx EXCEPT ![w] = 0]
  /\ UNCHANGED <<visited, candidates, todo>>

(* Faulty: the hook reports the neighbors of level 0 only. *)
CheckMaximumLayerOneLevel(w) ==
  /\ pc[w] = "raise"
  /\ hooks' = hooks \cup {[node |-> node[w], target |-> levelOf[node[w]],
                           neighbors |-> [Unlinked EXCEPT ![0] = chosen[w][0]],
                           live |-> FALSE]}
  /\ pc' = [pc EXCEPT ![w] = IF levelOf[node[w]] > currentMaximumLayer
                             THEN "lock" ELSE "idle"]
  /\ Forget(w)
  /\ UNCHANGED <<graph, jobs, node, layer, snapshot>>

(* Faulty: the entry point is only replaced on the second level above. *)
CheckMaximumLayerLate(w) ==
  /\ pc[w] = "raise"
  /\ hooks' = hooks \cup {[node |-> node[w], target |-> levelOf[node[w]],
                           neighbors |-> chosen[w], live |-> FALSE]}
  /\ pc' = [pc EXCEPT ![w] = IF levelOf[node[w]] > currentMaximumLayer + 1
                             THEN "lock" ELSE "idle"]
  /\ Forget(w)
  /\ UNCHANGED <<graph, jobs, node, layer, snapshot>>

(* The hook is started; then targetLevel > h.currentMaximumLayer is tested, *)
(* without a lock.                                                          *)
CheckMaximumLayer(w) ==
  /\ pc[w] = "raise"
  /\ hooks' = hooks \cup {[node |-> node[w], target |-> levelOf[node[w]],
                           neighbors |-> chosen[w], live |-> FALSE]}
  /\ pc' = [pc EXCEPT ![w] = IF levelOf[node[w]] > currentMaximumLayer
                             THEN "lock" ELSE "idle"]
  /\ Forget(w)
  /\ UNCHANGED <<graph, jobs, node, layer, snapshot>>

(* Faulty: the entry point is replaced without the write lock. *)
PublishEntryPointUnlocked(w) ==
  /\ pc[w] = "lock"
  /\ entryPointID' = node[w]
  /\ pc' = [pc EXCEPT ![w] = "publish"]
  /\ UNCHANGED <<nodes, currentMaximumLayer, hlock, levelOf, connections, firsts,
                 jobs, hooks, node, layer, search, chosen, idx, snapshot>>

(* The write lock is taken, without a second test; the unlocked reads of    *)
(* other workers can see the new entry point with the old maximum.          *)
PublishEntryPoint(w) ==
  /\ pc[w] = "lock"
  /\ hlock = {}
  /\ hlock' = {w}
  /\ entryPointID' = node[w]
  /\ pc' = [pc EXCEPT ![w] = "publish"]
  /\ UNCHANGED <<nodes, currentMaximumLayer, levelOf, connections, firsts, jobs,
                 hooks, node, layer, search, chosen, idx, snapshot>>

PublishMaximumLayer(w) ==
  /\ pc[w] = "publish"
  /\ currentMaximumLayer' = levelOf[node[w]]
  /\ hlock' = {}
  /\ pc' = [pc EXCEPT ![w] = "idle"]
  /\ UNCHANGED <<nodes, entryPointID, levelOf, connections, firsts, jobs, hooks,
                 node, layer, search, chosen, idx, snapshot>>

-------------------------------------------------------------------------------
Insert(w) ==
  \/ ReadTotal(w) \/ LockFirst(w) \/ FirstInsert(w)
  \/ ReadEntryPoint(w) \/ ReadMaximumLayer(w) \/ AddNode(w)
  \/ \E c \in Ids : Expand(w, c)
  \/ Visit(w) \/ Descend(w) \/ SelectNeighbors(w)
  \/ LinkNeighbor(w) \/ LinkSelf(w) \/ CountNeighbor(w) \/ Prune(w)
  \/ CheckMaximumLayer(w) \/ PublishEntryPoint(w) \/ PublishMaximumLayer(w)

Running == \A w \in Workers : pc[w] # "panic"

Step(w) == Running /\ (Take(w) \/ Insert(w))

Quiet == jobs = N /\ \A w \in Workers : pc[w] = "idle"

(* The program is over: it has panicked, or every insertion has returned. *)
Over == (~Running \/ Quiet) /\ UNCHANGED vars

Next == (\E w \in Workers : Step(w)) \/ Over

Spec == Init /\ [][Next]_vars

(* Go schedules every goroutine that can run, and its RWMutex does not      *)
(* starve a waiting writer: a worker is held up only while another one is   *)
(* between two statements under the write lock.                             *)
FairSpec == Spec /\ \A w \in Workers : SF_vars(Step(w))

-------------------------------------------------------------------------------
Trees == [Workers -> SUBSET Ids]

PcValues == {"idle", "total", "first", "table", "entry", "max", "add", "search",
             "link", "linkSelf", "count", "prune", "raise", "lock", "publish",
             "panic"}

Hooks == [node : Ids, target : Levels, neighbors : [Levels -> Seq(Ids)],
          live : BOOLEAN]

TypeOK ==
  /\ nodes \subseteq Ids
  /\ entryPointID \in Ids
  /\ currentMaximumLayer \in Levels
  /\ hlock \subseteq Workers
  /\ levelOf \in [Ids -> Levels]
  /\ connections \in [Ids -> [Levels -> Seq(Ids)]]
  /\ firsts \in Nat
  /\ jobs \in 0 .. N
  /\ hooks \subseteq Hooks
  /\ pc \in [Workers -> PcValues]
  /\ node \in [Workers -> Ids]
  /\ layer \in [Workers -> Levels]
  /\ visited \in Trees /\ candidates \in Trees /\ results \in Trees
  /\ todo \in [Workers -> Seq(Ids)]
  /\ worst \in [Workers -> Nat]
  /\ chosen \in [Workers -> [Levels -> Seq(Ids)]]
  /\ idx \in [Workers -> Nat]
  /\ snapshot \in [Workers -> Seq(Ids)]

(* Nothing checks h.nodes[id] for nil before it is used.  As long as only    *)
(* one worker has found the graph empty, nobody ever follows an id that is   *)
(* not in the table, however entry points, stale connections and stale       *)
(* search results travel between the workers.                                *)
NoPanic == firsts <= 1 => Running

(* The workers that have linked their vertex to v and have not yet seen to   *)
(* it that v is within the limit.                                            *)
Pruners(v, l) == {w \in Workers : /\ pc[w] \in {"linkSelf", "count", "prune"}
                                  /\ layer[w] = l
                                  /\ Neighbor(w) = v}

(* u chose v on level l, and said so in its hook or still will. *)
Chose(u, v, l) ==
  \/ \E h \in hooks : h.node = u /\ v \in Elements(h.neighbors[l])
  \/ \E w \in Workers : /\ pc[w] \in {"link", "linkSelf", "count", "prune",
                                      "search", "raise"}
                        /\ node[w] = u
                        /\ v \in Elements(chosen[w][l])

(* What the pruning still guarantees although it works on stale copies and   *)
(* never looks at the links a vertex makes itself: a list exceeds its limit  *)
(* by at most those own links and one link for each worker about to check.   *)
(* (After a panic nobody checks any more.)                                   *)
DegreeBound ==
  Running =>
    \A v \in Ids, l \in Levels :
      Len(connections[v][l]) <=
        Limit(l) + Cardinality({u \in Ids : Chose(v, u, l)})
                 + Cardinality(Pruners(v, l))

(* Whenever nobody holds the write lock, the level of the entry point is the *)
(* maximum layer: the two are published together.                            *)
EntryPointOnTop == hlock = {} => levelOf[entryPointID] = currentMaximumLayer

(* Pruning from stale copies may lose links, but an inserted vertex, and     *)
(* each neighbor it chose, never loses the last one on that level.           *)
NeverIsolated ==
  \A h \in hooks : \A l \in Levels : \A u \in Elements(h.neighbors[l]) :
    connections[h.node][l] # <<>> /\ connections[u][l] # <<>>

(* The other graph learns of this one's links from the hooks only: no link   *)
(* exists, in either direction, that no hook reports.                        *)
HooksTellEveryLink ==
  Running =>
    \A v \in Ids, l \in Levels : \A u \in Elements(connections[v][l]) :
      Chose(u, v, l) \/ Chose(v, u, l)

(* Every insertion returns, unless two workers find the graph empty: the     *)
(* searches end although the graph grows under them, and nobody waits for    *)
(* ever for the write lock.                                                  *)
AllInserted == [](firsts <= 1) => <>(Quiet /\ nodes = Ids)

-------------------------------------------------------------------------------
(* The following hold for one worker only. *)
Idle == \A w \in Workers : pc[w] = "idle"

(* hnsw.go:17, Each node should not have more edges than this number: after  *)
(* an insertion no vertex does.                                              *)
DegreeLimit ==
  Idle => \A v \in Ids, l \in Levels : Len(connections[v][l]) <= Limit(l)

(* hnsw.go:29-32: the entry point is on the highest level that any vertex of *)
(* the graph has.                                                            *)
EntryPointHighest == Idle => \A v \in nodes : levelOf[v] <= levelOf[entryPointID]

(* No vertex is linked to itself or twice to the same vertex, and on a level *)
(* only vertices of that level or a higher one are linked.                   *)
ProperLinks ==
  \A v \in Ids, l \in Levels :
    LET links == connections[v][l] IN
    /\ v \notin Elements(links)
    /\ Cardinality(Elements(links)) = Len(links)
    /\ \A u \in Elements(links) : levelOf[u] >= l /\ levelOf[v] >= l

(* When an insertion is through with linking, every neighbor it chose points *)
(* back at the new vertex: pruning the neighbor does not drop it, so the     *)
(* next search that reaches the neighbor finds it.                           *)
NewVertexFindable ==
  \A w \in Workers : pc[w] = "raise" =>
    \A l \in Levels : \A u \in Elements(chosen[w][l]) :
      node[w] \in Elements(connections[u][l])
================================================================================
