------------------------------- MODULE Replica -------------------------------
(****************************************************************************)
(* The graph at the other end of the insert hooks: insertFromExternal.  For *)
(* every vertex inserted into one graph a goroutine calls it on the other   *)
(* one, with the level and the neighbors that were chosen there.  The calls *)
(* run all at once and in any order, so a call may find that a neighbor is  *)
(* not there yet, and puts a placeholder in its place.                      *)
(*                                                                          *)
(* What makes this hard is that there can be several vertices of one id: a  *)
(* placeholder and another one that has replaced it, while a goroutine      *)
(* still holds a pointer to the former.  A vertex is therefore known by its *)
(* id and by the call that made it; a call is known by the id it inserts.   *)
(*                                                                          *)
(* The lock of a vertex, and the write lock of the graph, are only held     *)
(* within one step here.  The read lock is held across steps where a        *)
(* placeholder is written under it.                                         *)
(****************************************************************************)
EXTENDS HnswParameters

None == -1 \* a nil pointer

VARIABLES
  hook,                \* hook[c]: the arguments of call c, once it is sent
  \* the graph
  nodes,               \* nodes[v]: who made the vertex h.nodes[v], or None
  entryPointID,
  currentMaximumLayer,
  levelOf,             \* levelOf[v][c]: the level of the vertex v made by c
  connections,         \* connections[v][c][l]: its connections on level l
  \* the locals of each call
  pc,
  own,                 \* who made the vertex the call inserts: node
  layer,               \* the loop variable level, before it targetLevel
  neighbors,           \* the neighbors on that level
  idx,                 \* position in the range over neighbors
  neighbor,            \* who made the vertex of the current neighbor
  snapshot,            \* currentConnections, once found to be too many
  \* history
  firsts               \* the calls that have made the table h.nodes

graph  == <<nodes, entryPointID, currentMaximumLayer, levelOf, connections, firsts>>
locals == <<pc, own, layer, neighbors, idx, neighbor, snapshot>>

-------------------------------------------------------------------------------
Lower(a, b) == IF a < b THEN a ELSE b

(* Faulty: placeholders are written without a lock. *)
ReadersNone == {}

(* The calls that hold the read lock between two steps. *)
Readers == {c \in Ids : pc[c] \in {"make", "reread"}}

Init ==
  /\ nodes = [v \in Ids |-> None]
  /\ entryPointID = 0 /\ currentMaximumLayer = 0
  /\ levelOf = [v \in Ids |-> [c \in Ids |-> 0]]
  /\ connections = [v \in Ids |-> [c \in Ids |-> Unlinked]]
  /\ firsts = {}
  /\ pc = [c \in Ids |-> "call"]
  /\ own = [c \in Ids |-> None]
  /\ layer = [c \in Ids |-> 0]
  /\ neighbors = [c \in Ids |-> <<>>]
  /\ idx = [c \in Ids |-> 0]
  /\ neighbor = [c \in Ids |-> None]
  /\ snapshot = [c \in Ids |-> <<>>]

(* Under the read lock: is the table empty, and is there a placeholder.  If *)
(* not, a vertex is made; it is not in the table yet.  In either case its   *)
(* level is set, a placeholder's without its lock.                          *)
Lookup(c) ==
  LET mine == IF nodes[c] = None THEN c ELSE nodes[c] IN
  /\ pc[c] = "call"
  /\ hook[c].sent
  /\ own' = [own EXCEPT ![c] = mine]
  /\ levelOf' = [levelOf EXCEPT ![c][mine] = hook[c].target]
  /\ pc' = [pc EXCEPT ![c] = IF \A v \in Ids : nodes[v] = None
                             THEN "first" ELSE "max"]
  /\ UNCHANGED <<nodes, entryPointID, currentMaximumLayer, connections, firsts,
                 layer, neighbors, idx, neighbor, snapshot>>

(* The table was empty: it is made, even if another call has made one in    *)
(* the meantime; the level and the neighbors sent are ignored.              *)
First(c) ==
  /\ pc[c] = "first"
  /\ Readers = {}
  /\ entryPointID' = c
  /\ currentMaximumLayer' = 0
  /\ connections' = [connections EXCEPT ![c][own[c]] = Unlinked]
  /\ levelOf' = [levelOf EXCEPT ![c][own[c]] = 0]
  /\ nodes' = [v \in Ids |-> IF v = c THEN own[c] ELSE None]
  /\ firsts' = firsts \cup {c}
  /\ pc' = [pc EXCEPT ![c] = "done"]
  /\ UNCHANGED <<own, layer, neighbors, idx, neighbor, snapshot>>

(* currentMaximumLayer is read without a lock: where to begin linking.      *)
ReadMaximumLayer(c) ==
  /\ pc[c] = "max"
  /\ layer' = [layer EXCEPT ![c] = Lower(hook[c].target, currentMaximumLayer)]
  /\ pc' = [pc EXCEPT ![c] = "store"]
  /\ UNCHANGED <<graph, own, neighbors, idx, neighbor, snapshot>>

(* Faulty: the vertex is not stored in the table. *)
StoreNowhere(c) ==
  /\ pc[c] = "store"
  /\ Readers = {}
  /\ pc' = [pc EXCEPT ![c] = "level"]
  /\ UNCHANGED <<graph, own, layer, neighbors, idx, neighbor, snapshot>>

(* h.nodes[nodeId] = node, under the write lock, whatever is there by now.  *)
Store(c) ==
  /\ pc[c] = "store"
  /\ Readers = {}
  /\ nodes' = [nodes EXCEPT ![c] = own[c]]
  /\ pc' = [pc EXCEPT ![c] = "level"]
  /\ UNCHANGED <<entryPointID, currentMaximumLayer, levelOf, connections, firsts,
                 own, layer, neighbors, idx, neighbor, snapshot>>

(* The loops: the neighbors of a level are read off the map that was sent.  *)
EnterLevel(c) ==
  /\ pc[c] = "level"
  /\ neighbors' = [neighbors EXCEPT ![c] = hook[c].neighbors[layer[c]]]
  /\ idx' = [idx EXCEPT ![c] = 1]
  /\ pc' = [pc EXCEPT ![c] = "range"]
  /\ UNCHANGED <<graph, own, layer, neighbor, snapshot>>

(* The level is done: the next lower one begins, or all are done.           *)
NextLevel(c) ==
  /\ pc[c] = "range"
  /\ idx[c] > Len(neighbors[c])
  /\ IF layer[c] > 0
     THEN layer' = [layer EXCEPT ![c] = @ - 1] /\ pc' = [pc EXCEPT ![c] = "level"]
     ELSE pc' = [pc EXCEPT ![c] = "raise"] /\ UNCHANGED layer
  /\ UNCHANGED <<graph, own, neighbors, idx, neighbor, snapshot>>

Neighbor(c) == neighbors[c][idx[c]]

(* The neighbor is looked up under the read lock.                           *)
FindNeighbor(c) ==
  /\ pc[c] = "range"
  /\ idx[c] <= Len(neighbors[c])
  /\ IF nodes[Neighbor(c)] = None
     THEN pc' = [pc EXCEPT ![c] = "make"] /\ UNCHANGED neighbor
     ELSE /\ neighbor' = [neighbor EXCEPT ![c] = nodes[Neighbor(c)]]
          /\ pc' = [pc EXCEPT ![c] = "link"]
  /\ UNCHANGED <<graph, own, layer, neighbors, idx, snapshot>>

(* It is not there: a placeholder is written to the table, under the same   *)
(* read lock, which others can hold as well, and then read again.           *)
MakePlaceholder(c) ==
  /\ pc[c] = "make"
  /\ nodes' = [nodes EXCEPT ![Neighbor(c)] = c]
  /\ pc' = [pc EXCEPT ![c] = "reread"]
  /\ UNCHANGED <<entryPointID, currentMaximumLayer, levelOf, connections, firsts,
                 own, layer, neighbors, idx, neighbor, snapshot>>

RereadPlaceholder(c) ==
  /\ pc[c] = "reread"
  /\ neighbor' = [neighbor EXCEPT ![c] = nodes[Neighbor(c)]]
  /\ pc' = [pc EXCEPT ![c] = "link"]
  /\ UNCHANGED <<graph, own, layer, neighbors, idx, snapshot>>

-------------------------------------------------------------------------------
(* From here on as in insert: link both ways, then prune the neighbor.      *)
LinkNeighbor(c) ==
  /\ pc[c] = "link"
  /\ connections' = [connections EXCEPT
                       ![Neighbor(c)][neighbor[c]][layer[c]] = Append(@, c)]
  /\ pc' = [pc EXCEPT ![c] = "linkSelf"]
  /\ UNCHANGED <<nodes, entryPointID, currentMaximumLayer, levelOf, firsts,
                 own, layer, neighbors, idx, neighbor, snapshot>>

(* Faulty: the neighbor is linked a second time, not the vertex. *)
LinkSelfMisplaced(c) ==
  /\ pc[c] = "linkSelf"
  /\ connections' = [connections EXCEPT
                       ![Neighbor(c)][neighbor[c]][layer[c]] = Append(@, c)]
  /\ pc' = [pc EXCEPT ![c] = "count"]
  /\ UNCHANGED <<nodes, entryPointID, currentMaximumLayer, levelOf, firsts,
                 own, layer, neighbors, idx, neighbor, snapshot>>

LinkSelf(c) ==
  /\ pc[c] = "linkSelf"
  /\ connections' = [connections EXCEPT
                       ![c][own[c]][layer[c]] = Append(@, Neighbor(c))]
  /\ pc' = [pc EXCEPT ![c] = "count"]
  /\ UNCHANGED <<nodes, entryPointID, currentMaximumLayer, levelOf, firsts,
                 own, layer, neighbors, idx, neighbor, snapshot>>

NextNeighbor(c) ==
  /\ idx' = [idx EXCEPT ![c] = @ + 1]
  /\ neighbor' = [neighbor EXCEPT ![c] = None]
  /\ snapshot' = [snapshot EXCEPT ![c] = <<>>]
  /\ pc' = [pc EXCEPT ![c] = "range"]

CountNeighbor(c) ==
  LET current == connections[Neighbor(c)][neighbor[c]][layer[c]] IN
  /\ pc[c] = "count"
  /\ IF Len(current) <= Limit(layer[c])
     THEN NextNeighbor(c)
     ELSE /\ snapshot' = [snapshot EXCEPT ![c] = current]
          /\ pc' = [pc EXCEPT ![c] = "prune"]
          /\ UNCHANGED <<idx, neighbor>>
  /\ UNCHANGED <<graph, own, layer, neighbors>>

(* Faulty: the neighbor keeps what is closest to itself. *)
PruneForNeighbor(c) ==
  /\ pc[c] = "prune"
  /\ \E s \in Nearest(Elements(snapshot[c]), Dist[Neighbor(c)], Limit(layer[c])) :
       connections' = [connections EXCEPT
                         ![Neighbor(c)][neighbor[c]][layer[c]] = s]
  /\ NextNeighbor(c)
  /\ UNCHANGED <<nodes, entryPointID, currentMaximumLayer, levelOf, firsts,
                 own, layer, neighbors>>

Prune(c) ==
  /\ pc[c] = "prune"
  /\ \E s \in Nearest(Elements(snapshot[c]), Dist[c], Limit(layer[c])) :
       connections' = [connections EXCEPT
                         ![Neighbor(c)][neighbor[c]][layer[c]] = s]
  /\ NextNeighbor(c)
  /\ UNCHANGED <<nodes, entryPointID, currentMaximumLayer, levelOf, firsts,
                 own, layer, neighbors>>

(* targetLevel > h.currentMaximumLayer is tested without a lock.            *)
CheckMaximumLayer(c) ==
  /\ pc[c] = "raise"
  /\ pc' = [pc EXCEPT ![c] = IF hook[c].target > currentMaximumLayer
                             THEN "publish" ELSE "done"]
  /\ neighbors' = [neighbors EXCEPT ![c] = <<>>]
  /\ idx' = [idx EXCEPT ![c] = 0]
  /\ UNCHANGED <<graph, own, layer, neighbor, snapshot>>

Publish(c) ==
  /\ pc[c] = "publish"
  /\ Readers = {}
  /\ entryPointID' = c
  /\ currentMaximumLayer' = hook[c].target
  /\ pc' = [pc EXCEPT ![c] = "done"]
  /\ UNCHANGED <<nodes, levelOf, connections, firsts, own, layer, neighbors, idx,
                 neighbor, snapshot>>

InsertFromExternal(c) ==
  \/ Lookup(c) \/ First(c) \/ ReadMaximumLayer(c) \/ Store(c)
  \/ EnterLevel(c) \/ NextLevel(c) \/ FindNeighbor(c) \/ MakePlaceholder(c) \/ RereadPlaceholder(c)
  \/ LinkNeighbor(c) \/ LinkSelf(c) \/ CountNeighbor(c) \/ Prune(c)
  \/ CheckMaximumLayer(c) \/ Publish(c)

-------------------------------------------------------------------------------
(* The connections of the vertex that is in the table. *)
Links(v, l) == IF nodes[v] = None THEN <<>> ELSE connections[v][nodes[v]][l]

(* At most one call has found the table empty. *)
MadeOnce == Cardinality(firsts) <= 1

(* Whoever searches this graph dereferences h.nodes of the entry point and   *)
(* of every id it finds in a list of connections: all of these are in the    *)
(* table, whatever the order of the calls, unless two calls made the table.  *)
NoDanglingLinks ==
  (MadeOnce /\ firsts # {}) =>
    /\ nodes[entryPointID] # None
    /\ \A v \in Ids, l \in Levels : \A u \in Elements(Links(v, l)) : nodes[u] # None

(* Once a call has stored its vertex it stays: the call goes on linking that *)
(* vertex, and nobody puts a placeholder in its place.                       *)
StoredForGood ==
  \A c \in Ids :
    (MadeOnce /\ pc[c] \notin {"call", "first", "max", "store"}) => nodes[c] = own[c]

(* The entry point is a vertex of the highest level. *)
EntryPointOnTop ==
  (MadeOnce /\ firsts # {}) =>
    levelOf[entryPointID][nodes[entryPointID]] = currentMaximumLayer

(* hnsw.go:78, it could be that we implicitly added this node already: then  *)
(* that vertex, with the links it has, is the one that remains.              *)
PlaceholderKept ==
  [][(MadeOnce')  =>
       \A v \in Ids : nodes[v] # None => nodes'[v] = nodes[v]]_<<graph, locals>>
================================================================================
