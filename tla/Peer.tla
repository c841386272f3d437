--------------------------------- MODULE Peer ---------------------------------
(****************************************************************************)
(* One of two graphs that replicate to each other.  A call inserts either   *)
(* the vertex of a job (insert) or one that was inserted into the other     *)
(* graph (insertFromExternal, module Replica); the former then starts the   *)
(* call of the latter kind for the other graph.                             *)
(*                                                                          *)
(* What an insertion chooses is abstracted from: on each level any of the   *)
(* vertices that are in the table, since whatever a search finds is among   *)
(* these.  Module Hnsw has the search itself.                               *)
(****************************************************************************)
EXTENDS Replica

VARIABLES
  inserts, \* the calls that insert the vertex of a job here
  chosen,  \* chosen[c][l]: neighborsAtLevel of such a call
  hooked   \* the calls that have started their hook

PeerInit == Init /\ inserts = {} /\ hooked = {} /\ chosen = [c \in Ids |-> Unlinked]

-------------------------------------------------------------------------------
(* Whether the table is empty, under the read lock.  The vertex is a new    *)
(* one: no one looks whether there is one of this id already.               *)
InsertReadTotal(c) ==
  /\ pc[c] = "call"
  /\ own' = [own EXCEPT ![c] = c]
  /\ pc' = [pc EXCEPT ![c] = IF \A v \in Ids : nodes[v] = None
                             THEN "first" ELSE "max"]
  /\ UNCHANGED <<graph, layer, neighbors, idx, neighbor, snapshot, chosen, hooked>>

(* The first vertex: as in insertFromExternal, and then the hook.           *)
InsertFirst(c) == First(c) /\ hooked' = hooked \cup {c} /\ UNCHANGED chosen

(* Faulty: the hook is started before the vertex is in the table. *)
InsertReadMaximumLayerHooked(c) ==
  /\ pc[c] = "max"
  /\ \E targetLevel \in Levels :
       /\ levelOf' = [levelOf EXCEPT ![c][c] = targetLevel]
       /\ layer' = [layer EXCEPT ![c] = Lower(targetLevel, currentMaximumLayer)]
  /\ hooked' = hooked \cup {c}
  /\ pc' = [pc EXCEPT ![c] = "store"]
  /\ UNCHANGED <<nodes, entryPointID, currentMaximumLayer, connections, firsts,
                 own, neighbors, idx, neighbor, snapshot, chosen>>

(* currentMaximumLayer is read without a lock; the level is drawn.  (The    *)
(* entry point is read as well, from where the search begins.)              *)
InsertReadMaximumLayer(c) ==
  /\ pc[c] = "max"
  /\ \E targetLevel \in Levels :
       /\ levelOf' = [levelOf EXCEPT ![c][c] = targetLevel]
       /\ layer' = [layer EXCEPT ![c] = Lower(targetLevel, currentMaximumLayer)]
  /\ pc' = [pc EXCEPT ![c] = "store"]
  /\ UNCHANGED <<nodes, entryPointID, currentMaximumLayer, connections, firsts,
                 own, neighbors, idx, neighbor, snapshot, chosen, hooked>>

(* A search never returns nothing, and the closest of its results are taken. *)
Choices ==
  {s \in UNION {[1 .. n -> {v \in Ids : nodes[v] # None}] : n \in 1 .. maximumConnections} :
     \A i, j \in DOMAIN s : i # j => s[i] # s[j]}

SelectNeighbors(c) ==
  /\ pc[c] = "level"
  /\ \E s \in Choices :
       /\ chosen' = [chosen EXCEPT ![c][layer[c]] = s]
       /\ neighbors' = [neighbors EXCEPT ![c] = s]
  /\ idx' = [idx EXCEPT ![c] = 1]
  /\ pc' = [pc EXCEPT ![c] = "range"]
  /\ UNCHANGED <<graph, own, layer, neighbor, snapshot, hooked>>

(* Unlike insertFromExternal, insert makes no placeholder: a neighbor that  *)
(* is not in the table is a nil pointer.                                    *)
InsertFindNeighbor(c) ==
  /\ FindNeighbor(c)
  /\ nodes[Neighbor(c)] # None
  /\ UNCHANGED <<chosen, hooked>>

InsertPanic(c) ==
  /\ pc[c] = "range"
  /\ idx[c] <= Len(neighbors[c])
  /\ nodes[Neighbor(c)] = None
  /\ pc' = [pc EXCEPT ![c] = "panic"]
  /\ UNCHANGED <<graph, own, layer, neighbors, idx, neighbor, snapshot, chosen, hooked>>

(* What is the same in both, the loops and the links. *)
InsertAsExternal(c) ==
  /\ \/ Store(c) \/ NextLevel(c) \/ LinkNeighbor(c) \/ LinkSelf(c)
     \/ CountNeighbor(c) \/ Prune(c) \/ Publish(c)
  /\ UNCHANGED <<chosen, hooked>>

(* The hook is started before the maximum layer is tested. *)
InsertCheckMaximumLayer(c) ==
  CheckMaximumLayer(c) /\ hooked' = hooked \cup {c} /\ UNCHANGED chosen

Insert(c) ==
  \/ InsertReadTotal(c) \/ InsertFirst(c) \/ InsertReadMaximumLayer(c)
  \/ SelectNeighbors(c) \/ InsertFindNeighbor(c) \/ InsertPanic(c)
  \/ InsertAsExternal(c) \/ InsertCheckMaximumLayer(c)

PeerStep ==
  /\ UNCHANGED inserts
  /\ \/ \E c \in inserts : Insert(c)
     \/ \E c \in Ids \ inserts : InsertFromExternal(c) /\ UNCHANGED <<chosen, hooked>>

-------------------------------------------------------------------------------
NoPanic == \A c \in Ids : pc[c] # "panic"
================================================================================
