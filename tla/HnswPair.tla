------------------------------- MODULE HnswPair -------------------------------
(****************************************************************************)
(* The two graphs of main: workers insert into the one of module Hnsw, and  *)
(* each insertion starts a goroutine that replicates it to the other, the   *)
(* one of module Replica.  Every coin flip of hnswWorker chose the former,  *)
(* so that nothing is replicated in the opposite direction; module TwoGraphs *)
(* has both, without the searches.                                          *)
(****************************************************************************)
EXTENDS Hnsw

VARIABLES
  rnodes, rentryPointID, rcurrentMaximumLayer, rlevelOf, rconnections, \* the other graph
  rpc, rown, rlayer, rneighbors, ridx, rneighbor, rsnapshot,           \* its calls
  rfirsts

rvars == <<rnodes, rentryPointID, rcurrentMaximumLayer, rlevelOf, rconnections,
           rpc, rown, rlayer, rneighbors, ridx, rneighbor, rsnapshot, rfirsts>>

(* The arguments of go h.insertHook(...).  The first insertion hands over   *)
(* the connections of its vertex themselves: what is read from them is what *)
(* they are by then.                                                        *)
Sent ==
  [c \in Ids |->
     IF \E h \in hooks : h.node = c
     THEN LET h == CHOOSE h \in hooks : h.node = c
          IN [sent |-> TRUE, target |-> h.target,
              neighbors |-> IF h.live THEN connections[c] ELSE h.neighbors,
              live |-> h.live]
     ELSE [sent |-> FALSE, target |-> 0, neighbors |-> Unlinked, live |-> FALSE]]

R == INSTANCE Replica WITH
       hook <- Sent, nodes <- rnodes, entryPointID <- rentryPointID,
       currentMaximumLayer <- rcurrentMaximumLayer, levelOf <- rlevelOf,
       connections <- rconnections, pc <- rpc, own <- rown, layer <- rlayer,
       neighbors <- rneighbors, idx <- ridx, neighbor <- rneighbor,
       snapshot <- rsnapshot, firsts <- rfirsts

PairInit == Init /\ R!Init

Replicate == Running /\ (\E c \in Ids : R!InsertFromExternal(c)) /\ UNCHANGED vars

AllReplicated == \A c \in Ids : Sent[c].sent => rpc[c] = "done"

PairOver == (~Running \/ (Quiet /\ AllReplicated)) /\ UNCHANGED <<vars, rvars>>

PairNext ==
  \/ (\E w \in Workers : Step(w)) /\ UNCHANGED rvars
  \/ Replicate
  \/ PairOver

PairSpec == PairInit /\ [][PairNext]_<<vars, rvars>>

(* The same, but no insertion begins before the last one is replicated.     *)
InTurnNext ==
  \/ /\ Running
     /\ \E w \in Workers : \/ Take(w) /\ AllReplicated
                           \/ Insert(w)
     /\ UNCHANGED rvars
  \/ Replicate
  \/ PairOver

InTurnSpec == PairInit /\ [][InTurnNext]_<<vars, rvars>>

-------------------------------------------------------------------------------
(* Replicated one after the other, the insertions of one worker make the     *)
(* same graph again: the same vertices, levels, connections and entry point, *)
(* although the other graph is never searched.                               *)
SameGraph ==
  (Idle /\ AllReplicated) =>
    /\ {v \in Ids : rnodes[v] # R!None} = nodes
    /\ \A v \in nodes : /\ rlevelOf[v][rnodes[v]] = levelOf[v]
                        /\ rconnections[v][rnodes[v]] = connections[v]
    /\ nodes # {} => /\ rentryPointID = entryPointID
                     /\ rcurrentMaximumLayer = currentMaximumLayer

(* hnsw.go:78, it could be that we implicitly added this node already: the   *)
(* vertex that was added then remains, with the links it has got since.      *)
PlaceholderKept == R!PlaceholderKept
================================================================================
