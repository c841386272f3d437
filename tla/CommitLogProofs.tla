---------------------------- MODULE CommitLogProofs ----------------------------
(****************************************************************************)
(* Proofs about CommitLog, for every number of workers and jobs.            *)
(****************************************************************************)
EXTENDS CommitLog, HnswProofs

-------------------------------------------------------------------------------
(* Logging only holds the workers up: whatever they do while they log is     *)
(* something they do without a log.                                          *)
LEMMA LoggedIsStep ==
  ASSUME NEW w \in Workers, LoggedStep(w)
  PROVE  Step(w)
BY DEF LoggedStep, LogFirst, LogAddNode, LogLinks, LogPrune, LogEntryPoint,
       Untold, Step, Insert

(* The logged insertions implement the insertions of module Hnsw, so that    *)
(* what is proved of these holds for them.                                   *)
THEOREM LoggedInsertions == LoggedSpec => Spec
<1>1. [LoggedNext]_<<vars, log>> => [Next]_vars
  BY LoggedIsStep DEF LoggedNext, LoggedOver, Next
<1> QED
  BY <1>1, PTL DEF LoggedSpec, LoggedInit, Spec

-------------------------------------------------------------------------------
(* What is told of a graph: everything it holds, or that a worker is about   *)
(* to tell of it.                                                            *)
GraphTold ==
  /\ nodes \subseteq Told
  /\ \A v \in Ids, l \in Levels : Elements(connections[v][l]) \subseteq Told

ToldBy(w) ==
  /\ pc[w] \in Added => node[w] \in Told
  /\ pc[w] \in {"linkSelf", "count", "prune"} => Neighbor(w) \in Told
  /\ Elements(snapshot[w]) \subseteq Told

(* An entry point is told already, or about to be by the first insertion.    *)
EntryTold(id) == \/ id \in Told
                 \/ \E w \in Workers : pc[w] = "table" /\ node[w] = id

(* The event the logger has received names what the file adds before it.     *)
EventTold ==
  \/ event = <<>>
  \/ \E v \in Ids, l \in Levels : event = <<AddNodeEvent(v, l)>>
  \/ \E v \in Ids, l \in Levels :
       event = <<SetEntryPointEvent(v, l)>> /\ EntryTold(v)
  \/ \E l \in Levels, v \in DOMAIN added : event = <<AddLinkEvent(l, v)>>
  \/ \E v \in DOMAIN added \cap Ids, l \in Levels, ids \in Seq(Ids) :
       /\ event = <<ReplaceLinksEvent(v, l, ids)>>
       /\ Elements(ids) \subseteq DOMAIN added

LogType == /\ lists \in [Ids -> [Levels -> Seq(Ids)]]
           /\ links \in [Levels -> SUBSET Ids]
           /\ DOMAIN added \subseteq Ids

LogInv == /\ LogType
          /\ GraphTold
          /\ \A w \in Workers : ToldBy(w)
          /\ EventTold
          /\ LogNamesAdded

(* The vertices that an event which is yet to be written adds.               *)
LEMMA PendingOf ==
  /\ {e.id : e \in {f \in Elements(<<>>) : f.type = "addNode"}} = {}
  /\ \A g : {e.id : e \in {f \in Elements(<<g>>) : f.type = "addNode"}} =
             IF g.type = "addNode" THEN {g.id} ELSE {}
<1>1. Elements(<<>>) = {}
  BY DEF Elements
<1>2. ASSUME NEW g
      PROVE  {e.id : e \in {f \in Elements(<<g>>) : f.type = "addNode"}} =
             IF g.type = "addNode" THEN {g.id} ELSE {}
  <2>1. Elements(<<g>>) = {g}
    BY DEF Elements
  <2>2. {f \in Elements(<<g>>) : f.type = "addNode"} = IF g.type = "addNode" THEN {g} ELSE {}
    BY <2>1
  <2> QED
    BY <2>2
<1> QED
  BY <1>1, <1>2

(* Sending an event tells what it adds, and forgets nothing.                 *)
LEMMA Sending ==
  ASSUME NEW e, Send(e), UNCHANGED added
  PROVE  /\ event = <<>> /\ event' = <<e>> /\ Told = DOMAIN added
         /\ Told' = DOMAIN added \cup (IF e.type = "addNode" THEN {e.id} ELSE {})
         /\ Told \subseteq Told'
<1>1. event = <<>> /\ event' = <<e>> /\ added' = added
  BY DEF Send
<1>2. Told = DOMAIN added
  BY <1>1, PendingOf DEF Told
<1>3. Told' = DOMAIN added \cup (IF e.type = "addNode" THEN {e.id} ELSE {})
  BY <1>1, PendingOf DEF Told
<1> QED
  BY <1>1, <1>2, <1>3

(* What one worker does leaves the locals of the others alone.               *)
OthersLocals(w) ==
  \A u \in Workers \ {w} :
    /\ pc'[u] = pc[u] /\ node'[u] = node[u] /\ layer'[u] = layer[u]
    /\ chosen'[u] = chosen[u] /\ idx'[u] = idx[u] /\ snapshot'[u] = snapshot[u]

LEMMA ToldFrame ==
  ASSUME \A u \in Workers : ToldBy(u), Told \subseteq Told',
         NEW w \in Workers, OthersLocals(w), ToldBy(w)'
  PROVE  \A u \in Workers : ToldBy(u)'
BY DEF ToldBy, OthersLocals, Neighbor

(* As long as nothing is written the file says what it said.                 *)
LEMMA FileFrame ==
  ASSUME LogInv, Told \subseteq Told', UNCHANGED <<added, entry, lists, links>>,
         \A u \in Workers : pc[u] = "table" =>
           \/ pc'[u] = "table" /\ node'[u] = node[u]
           \/ node[u] \in Told'
  PROVE  /\ LogType' /\ LogNamesAdded'
         /\ \A id : EntryTold(id) => EntryTold(id)'
<1>1. \A id : EntryTold(id) => EntryTold(id)'
  BY DEF EntryTold
<1>2. LogNamesAdded'
  BY <1>1 DEF LogInv, LogNamesAdded, EntryTold
<1> QED
  BY <1>1, <1>2 DEF LogInv, LogType

(* The end of the loop body.                                                 *)
LEMMA AdvanceTold ==
  ASSUME TypeInv, NEW w \in Workers, ToldBy(w), pc[w] \in {"count", "prune"},
         Advance(w), UNCHANGED <<node, chosen>>, Told \subseteq Told'
  PROVE  ToldBy(w)' /\ OthersLocals(w)
<1>1. snapshot' = [snapshot EXCEPT ![w] = <<>>] /\ Elements(<<>>) = {}
  BY DEF Advance, Elements
<1>2. /\ pc'[w] \in {"link", "search", "raise"}
      /\ \A u \in Workers \ {w} :
           pc'[u] = pc[u] /\ idx'[u] = idx[u] /\ layer'[u] = layer[u]
  BY DEF Advance, StartSearch, search, TypeInv, TypeOK
<1> QED
  BY <1>1, <1>2 DEF ToldBy, Added, OthersLocals, TypeInv, TypeOK

-------------------------------------------------------------------------------
(* The logger writes: the file says more, and nothing else has changed.      *)
LEMMA WriteLogInv ==
  ASSUME TypeInv, LogInv, Write, UNCHANGED vars
  PROVE  LogInv'
<1> USE DEF LogInv
<1>1. PICK e : event = <<e>>
  BY DEF EventTold, Write
<1>2. event' = <<>> /\ Told' = DOMAIN added'
  BY PendingOf DEF Write, Told
<1>3. Told = DOMAIN added \cup (IF e.type = "addNode" THEN {e.id} ELSE {})
  BY <1>1, PendingOf DEF Told
<1>4. CASE \E v \in Ids, l \in Levels : event = <<AddNodeEvent(v, l)>>
  <2>1. PICK v \in Ids, l \in Levels : e = AddNodeEvent(v, l)
    BY <1>1, <1>4
  <2>2. /\ DOMAIN added' = DOMAIN added \cup {v}
        /\ lists' = [lists EXCEPT ![v] = Unlinked]
        /\ UNCHANGED <<entry, links>>
    BY <1>1, <2>1 DEF Write, AddNodeEvent
  <2>3. Told' = Told
    BY <1>2, <1>3, <2>1, <2>2 DEF AddNodeEvent
  <2>4. LogType'
    BY <2>2, UnlinkedType DEF LogType
  <2>5. LogNamesAdded'
    <3>1. \A u \in Ids, m \in Levels : lists'[u][m] = lists[u][m] \/ lists'[u][m] = <<>>
      BY <2>2, UnlinkedType DEF LogType
    <3>2. UNCHANGED <<pc, node>>
      BY DEF vars
    <3> QED
      BY <2>2, <2>3, <3>1, <3>2 DEF LogNamesAdded
  <2> QED
    BY <1>2, <2>3, <2>4, <2>5
       DEF vars, graph, GraphTold, ToldBy, Neighbor, EventTold
<1>5. CASE ~\E v \in Ids, l \in Levels : event = <<AddNodeEvent(v, l)>>
  <2>1. e.type # "addNode" /\ UNCHANGED added
    BY <1>1, <1>5 DEF Write, EventTold, AddNodeEvent, SetEntryPointEvent,
                      AddLinkEvent, ReplaceLinksEvent
  <2>2. Told' = Told /\ Told = DOMAIN added
    BY <1>2, <1>3, <2>1
  <2>3. LogType' /\ LogNamesAdded'
    <3>0. UNCHANGED <<pc, node>>
      BY DEF vars
    <3>1. CASE \E v \in Ids, l \in Levels :
                 event = <<SetEntryPointEvent(v, l)>> /\ EntryTold(v)
      <4>1. PICK v \in Ids, l \in Levels : e = SetEntryPointEvent(v, l) /\ EntryTold(v)
        BY <1>1, <3>1
      <4>2. entry' = <<v, l>> /\ UNCHANGED <<lists, links>>
        BY <1>1, <4>1 DEF Write, SetEntryPointEvent
      <4> QED
        BY <2>1, <2>2, <3>0, <4>1, <4>2 DEF LogType, LogNamesAdded, EntryTold
    <3>2. CASE \E l \in Levels, v \in DOMAIN added : event = <<AddLinkEvent(l, v)>>
      <4>1. PICK l \in Levels, v \in DOMAIN added : e = AddLinkEvent(l, v)
        BY <1>1, <3>2
      <4>2. links' = [links EXCEPT ![l] = @ \cup {v}] /\ UNCHANGED <<lists, entry>>
        BY <1>1, <4>1 DEF Write, AddLinkEvent
      <4>3. links' \in [Levels -> SUBSET Ids] /\ \A m \in Levels : links'[m] \subseteq links[m] \cup {v}
        BY <4>2 DEF LogType
      <4> QED
        BY <2>1, <2>2, <3>0, <4>1, <4>2, <4>3 DEF LogType, LogNamesAdded
    <3>3. CASE \E v \in DOMAIN added \cap Ids, l \in Levels, ids \in Seq(Ids) :
                 /\ event = <<ReplaceLinksEvent(v, l, ids)>>
                 /\ Elements(ids) \subseteq DOMAIN added
      <4>1. PICK v \in DOMAIN added \cap Ids, l \in Levels, ids \in Seq(Ids) :
              e = ReplaceLinksEvent(v, l, ids) /\ Elements(ids) \subseteq DOMAIN added
        BY <1>1, <3>3
      <4>2. lists' = [lists EXCEPT ![v][l] = ids] /\ UNCHANGED <<links, entry>>
        BY <1>1, <4>1 DEF Write, ReplaceLinksEvent
      <4>3. /\ lists' \in [Ids -> [Levels -> Seq(Ids)]]
            /\ \A u \in Ids, m \in Levels :
                 lists'[u][m] = IF u = v /\ m = l THEN ids ELSE lists[u][m]
        BY <4>2 DEF LogType
      <4> QED
        BY <2>1, <2>2, <3>0, <4>1, <4>2, <4>3 DEF LogType, LogNamesAdded
    <3> QED
      BY <1>1, <1>5, <3>1, <3>2, <3>3 DEF EventTold
  <2> QED
    BY <1>2, <2>2, <2>3 DEF vars, graph, GraphTold, ToldBy, Neighbor, EventTold
<1> QED
  BY <1>4, <1>5

-------------------------------------------------------------------------------
(* The steps that tell the log nothing name nothing new.                     *)
LEMMA UntoldLogInv ==
  ASSUME TypeInv, LogInv, NEW w \in Workers, Untold(w),
         UNCHANGED <<added, entry, lists, links>>
  PROVE  LogInv'
<1> USE DEF TypeInv, TypeOK
<1>1. UNCHANGED event /\ Told' = Told
  BY DEF Untold, Told
<1>2. GraphTold' /\ OthersLocals(w) /\ ToldBy(w)'
  <2>0. GraphTold /\ ToldBy(w) /\ Elements(<<>>) = {}
    BY DEF LogInv, Elements
  <2>1. CASE Take(w)
    BY <1>1, <2>0, <2>1
       DEF Take, graph, GraphTold, OthersLocals, ToldBy, Added
  <2>2. CASE ReadTotal(w)
    BY <1>1, <2>0, <2>2 DEF ReadTotal, graph, GraphTold, OthersLocals, ToldBy, Added
  <2>3. CASE ReadEntryPoint(w)
    BY <1>1, <2>0, <2>3
       DEF ReadEntryPoint, graph, GraphTold, OthersLocals, ToldBy, Added
  <2>4. CASE ReadMaximumLayer(w)
    <3>1. \A v \in Ids, l \in Levels :
            connections'[v][l] = connections[v][l] \/ connections'[v][l] = <<>>
      BY <2>4, UnlinkedType DEF ReadMaximumLayer
    <3>2. GraphTold'
      BY <1>1, <2>0, <2>4, <3>1 DEF ReadMaximumLayer, GraphTold
    <3> QED
      BY <1>1, <2>0, <2>4, <3>2 DEF ReadMaximumLayer, OthersLocals, ToldBy, Added
  <2>5. CASE \E c \in Ids : Expand(w, c)
    <3>1. /\ pc[w] = "search" /\ pc'[w] \in {"search", "panic"}
          /\ \A u \in Workers \ {w} : pc'[u] = pc[u]
          /\ UNCHANGED <<nodes, connections, node, layer, chosen, idx, snapshot>>
      BY <2>5, ZenonT(60) DEF Expand, graph
    <3> QED
      BY <1>1, <2>0, <3>1 DEF GraphTold, OthersLocals, ToldBy, Added
  <2>6. CASE Visit(w)
    BY <1>1, <2>0, <2>6 DEF Visit, graph, GraphTold, OthersLocals, ToldBy, Added, Neighbor
  <2>7. CASE Descend(w)
    BY <1>1, <2>0, <2>7
       DEF Descend, SearchOver, graph, GraphTold, OthersLocals, ToldBy, Added
  <2>8. CASE SelectNeighbors(w)
    <3>1. \A u \in Workers \ {w} : chosen'[u] = chosen[u]
      BY <2>8 DEF SelectNeighbors
    <3> QED
      BY <1>1, <2>0, <2>8, <3>1
         DEF SelectNeighbors, SearchOver, graph, GraphTold, OthersLocals, ToldBy, Added
  <2>9. CASE CountNeighbor(w)
    <3>1. GraphTold' /\ pc[w] = "count" /\ UNCHANGED <<node, chosen>>
      BY <1>1, <2>0, <2>9 DEF CountNeighbor, graph, GraphTold
    <3>2. CASE Advance(w)
      BY <1>1, <2>0, <3>1, <3>2, AdvanceTold
    <3>3. CASE ~Advance(w)
      <4>1. /\ snapshot' = [snapshot EXCEPT ![w] = connections[Neighbor(w)][layer[w]]]
            /\ pc' = [pc EXCEPT ![w] = "prune"] /\ UNCHANGED <<layer, idx>>
        BY <2>9, <3>3 DEF CountNeighbor
      <4>2. Elements(connections[Neighbor(w)][layer[w]]) \subseteq Told
        BY <2>0, <3>1, NeighborType DEF GraphTold, Linking
      <4> QED
        BY <1>1, <2>0, <3>1, <4>1, <4>2 DEF OthersLocals, ToldBy, Neighbor, Added
    <3> QED
      BY <3>2, <3>3
  <2>10. CASE CheckMaximumLayer(w)
    <3>1. /\ pc[w] = "raise" /\ pc'[w] \in {"lock", "idle"}
          /\ \A u \in Workers \ {w} :
               pc'[u] = pc[u] /\ idx'[u] = idx[u] /\ chosen'[u] = chosen[u]
          /\ UNCHANGED <<nodes, connections, node, layer, snapshot>>
      BY <2>10 DEF CheckMaximumLayer, Forget, graph
    <3> QED
      BY <1>1, <2>0, <3>1 DEF GraphTold, OthersLocals, ToldBy, Added
  <2>11. CASE PublishMaximumLayer(w)
    BY <1>1, <2>0, <2>11
       DEF PublishMaximumLayer, GraphTold, OthersLocals, ToldBy, Added
  <2> QED
    BY <2>1, <2>2, <2>3, <2>4, <2>5, <2>6, <2>7, <2>8, <2>9, <2>10, <2>11 DEF Untold
<1>3. \A u \in Workers : pc[u] = "table" => pc'[u] = "table" /\ node'[u] = node[u]
  <2>1. pc[w] # "table"
    BY DEF Untold, Take, ReadTotal, ReadEntryPoint, ReadMaximumLayer, Expand, Visit,
           Descend, SelectNeighbors, SearchOver, CountNeighbor, CheckMaximumLayer,
           PublishMaximumLayer
  <2> QED
    BY <1>2, <2>1 DEF OthersLocals
<1>4. LogType' /\ LogNamesAdded' /\ \A id : EntryTold(id) => EntryTold(id)'
  BY <1>1, <1>3, FileFrame
<1>5. EventTold'
  BY <1>1, <1>4 DEF LogInv, EventTold
<1> QED
  BY <1>1, <1>2, <1>4, <1>5, ToldFrame DEF LogInv

(* An event that adds a vertex tells it.                                     *)
LEMMA AddNodeTells ==
  \A v, l : AddNodeEvent(v, l).type = "addNode" /\ AddNodeEvent(v, l).id = v
BY DEF AddNodeEvent

(* A list that is extended holds one vertex more.                            *)
LEMMA LinkTold ==
  ASSUME TypeOK, NEW v \in Ids, NEW l \in Levels, NEW x \in Ids,
         connections' = [connections EXCEPT ![v][l] = Append(@, x)]
  PROVE  \A u \in Ids, k \in Levels :
           Elements(connections'[u][k]) \subseteq Elements(connections[u][k]) \cup {x}
<1>1. \A u \in Ids, k \in Levels :
        connections'[u][k] = IF u = v /\ k = l THEN Append(connections[v][l], x)
                                               ELSE connections[u][k]
  BY AppendLink
<1>2. connections[v][l] \in Seq(Ids)
  BY DEF TypeOK
<1>3. Elements(Append(connections[v][l], x)) = Elements(connections[v][l]) \cup {x}
  BY <1>2, ElementsOf
<1> QED
  BY <1>1, <1>3

(* The steps that tell the log what they do name, apart from the first entry *)
(* point and the vertex they add, only what was added before.                *)
LEMMA TellingLogInv ==
  ASSUME TypeInv, LogInv, NEW w \in Workers, LoggedStep(w), ~Untold(w)
  PROVE  LogInv'
<1> USE DEF TypeInv
<1>0. /\ UNCHANGED <<added, entry, lists, links>> /\ Elements(<<>>) = {}
      /\ LogType /\ GraphTold /\ ToldBy(w) /\ \A u \in Workers : ToldBy(u)
      /\ node[w] \in Ids /\ levelOf[node[w]] \in Levels /\ layer[w] \in Levels
      /\ pc \in [Workers -> PcValues] /\ snapshot \in [Workers -> Seq(Ids)]
  BY DEF LoggedStep, LogInv, Elements, TypeOK
(* What remains of the invariant once the graph, the worker and the event    *)
(* are seen to.                                                              *)
<1>1. ASSUME Told \subseteq Told', GraphTold', OthersLocals(w), ToldBy(w)',
             EventTold', pc[w] = "table" => node[w] \in Told'
      PROVE  LogInv'
  <2>1. LogType' /\ LogNamesAdded'
    BY <1>0, <1>1, FileFrame DEF OthersLocals
  <2> QED
    BY <1>0, <1>1, <2>1, ToldFrame DEF LogInv
<1>2. CASE LockFirst(w) /\ Send(SetEntryPointEvent(node[w], 0))
  <2>1. event' = <<SetEntryPointEvent(node[w], 0)>> /\ Told \subseteq Told'
    BY <1>0, <1>2, Sending
  <2>2. EventTold'
    BY <1>0, <1>2, <2>1, IdsAndLevels DEF EventTold, EntryTold, LockFirst
  <2>3. GraphTold' /\ OthersLocals(w) /\ ToldBy(w)'
    BY <1>0, <1>2, <2>1 DEF LockFirst, GraphTold, OthersLocals, ToldBy, Added
  <2> QED
    BY <1>1, <1>2, <2>1, <2>2, <2>3 DEF LockFirst
<1>3. CASE FirstInsert(w) /\ Send(AddNodeEvent(node[w], 0))
  <2>1. /\ event' = <<AddNodeEvent(node[w], 0)>> /\ Told \subseteq Told'
        /\ node[w] \in Told'
    BY <1>0, <1>3, Sending, AddNodeTells
  <2>2. EventTold'
    BY <1>0, <2>1, IdsAndLevels DEF EventTold
  <2>3. \A v \in Ids, l \in Levels :
          connections'[v][l] = connections[v][l] \/ connections'[v][l] = <<>>
    BY <1>3, UnlinkedType DEF FirstInsert, TypeOK
  <2>4. GraphTold' /\ OthersLocals(w) /\ ToldBy(w)'
    BY <1>0, <1>3, <2>1, <2>3 DEF FirstInsert, GraphTold, OthersLocals, ToldBy, Added
  <2> QED
    BY <1>1, <2>1, <2>2, <2>4
<1>4. CASE LogAddNode(w)
  <2>1. /\ event' = <<AddNodeEvent(node[w], levelOf[node[w]])>> /\ Told \subseteq Told'
        /\ node[w] \in Told'
    BY <1>0, <1>4, Sending, AddNodeTells DEF LogAddNode
  <2>2. EventTold'
    BY <1>0, <2>1 DEF EventTold
  <2>3. GraphTold' /\ OthersLocals(w) /\ ToldBy(w)' /\ pc[w] = "add"
    BY <1>0, <1>4, <2>1 DEF LogAddNode, AddNode, GraphTold, OthersLocals, ToldBy
  <2> QED
    BY <1>1, <2>1, <2>2, <2>3
<1>5. CASE /\ LinkNeighbor(w) /\ Neighbor(w) \in nodes
           /\ Send(AddLinkEvent(layer[w], node[w]))
  <2>1. /\ event' = <<AddLinkEvent(layer[w], node[w])>> /\ Told \subseteq Told'
        /\ Told = DOMAIN added
    BY <1>0, <1>5, Sending
  <2>2. node[w] \in Told /\ pc[w] = "link" /\ Neighbor(w) \in Ids /\ layer[w] \in Levels
    BY <1>0, <1>5, NeighborType DEF LinkNeighbor, ToldBy, Added, Linking
  <2>3. EventTold'
    BY <1>0, <2>1, <2>2 DEF EventTold
  <2>4. /\ connections' = [connections EXCEPT ![Neighbor(w)][layer[w]] = Append(@, node[w])]
        /\ pc' = [pc EXCEPT ![w] = "linkSelf"]
        /\ UNCHANGED <<nodes, node, layer, chosen, idx, snapshot>>
    BY <1>5 DEF LinkNeighbor
  <2>5. \A v \in Ids, l \in Levels :
          Elements(connections'[v][l]) \subseteq Elements(connections[v][l]) \cup {node[w]}
    BY <1>0, <2>2, <2>4, LinkTold
  <2>6. GraphTold'
    BY <1>0, <2>1, <2>2, <2>4, <2>5, ZenonT(60) DEF GraphTold
  <2>7. OthersLocals(w) /\ ToldBy(w)'
    BY <1>0, <1>5, <2>1, <2>2, <2>4, ZenonT(60) DEF OthersLocals, ToldBy, GraphTold, Neighbor
  <2> QED
    BY <1>1, <2>1, <2>2, <2>3, <2>6, <2>7
<1>6. CASE LinkNeighbor(w) /\ Neighbor(w) \notin nodes /\ UNCHANGED event
  <2>1. Told' = Told /\ EventTold /\ \A id : EntryTold(id) => EntryTold(id)'
    BY <1>0, <1>6 DEF Told, LogInv, LinkNeighbor, EntryTold
  <2>2. EventTold'
    BY <1>0, <1>6, <2>1 DEF EventTold
  <2>3. GraphTold' /\ OthersLocals(w) /\ ToldBy(w)' /\ pc[w] = "link"
    BY <1>0, <1>6, <2>1 DEF LinkNeighbor, GraphTold, OthersLocals, ToldBy, Added
  <2> QED
    BY <1>1, <2>1, <2>2, <2>3
<1>7. CASE LinkSelf(w) /\ Send(AddLinkEvent(layer[w], Neighbor(w)))
  <2>1. /\ event' = <<AddLinkEvent(layer[w], Neighbor(w))>> /\ Told \subseteq Told'
        /\ Told = DOMAIN added
    BY <1>0, <1>7, Sending
  <2>2. Neighbor(w) \in Told /\ pc[w] = "linkSelf" /\ Neighbor(w) \in Ids /\ layer[w] \in Levels
    BY <1>0, <1>7, NeighborType DEF LinkSelf, ToldBy, Linking
  <2>3. EventTold'
    BY <1>0, <2>1, <2>2 DEF EventTold
  <2>4. /\ connections' = [connections EXCEPT ![node[w]][layer[w]] = Append(@, Neighbor(w))]
        /\ pc' = [pc EXCEPT ![w] = "count"]
        /\ UNCHANGED <<nodes, node, layer, chosen, idx, snapshot>>
    BY <1>7 DEF LinkSelf
  <2>5. \A v \in Ids, l \in Levels :
          Elements(connections'[v][l]) \subseteq Elements(connections[v][l]) \cup {Neighbor(w)}
    BY <1>0, <2>2, <2>4, LinkTold
  <2>6. GraphTold'
    BY <1>0, <2>1, <2>2, <2>4, <2>5 DEF GraphTold
  <2>7. OthersLocals(w) /\ ToldBy(w)'
    BY <1>0, <2>1, <2>2, <2>4 DEF OthersLocals, ToldBy, Neighbor, Added
  <2> QED
    BY <1>1, <2>1, <2>2, <2>3, <2>6, <2>7
<1>8. CASE LogPrune(w)
  <2> DEFINE list == connections'[Neighbor(w)][layer[w]]
  <2>1. /\ event' = <<ReplaceLinksEvent(Neighbor(w), layer[w], list)>>
        /\ Told \subseteq Told' /\ Told = DOMAIN added
    BY <1>0, <1>8, Sending DEF LogPrune
  <2>2. Neighbor(w) \in Told /\ pc[w] = "prune" /\ Neighbor(w) \in Ids /\ layer[w] \in Levels
    BY <1>0, <1>8, NeighborType DEF LogPrune, Prune, ToldBy, Linking
  <2>3. PICK s \in Nearest(Elements(snapshot[w]), DistTo(w), Limit(layer[w])) :
          connections' = [connections EXCEPT ![Neighbor(w)][layer[w]] = s]
    BY <1>8 DEF LogPrune, Prune
  <2>4. s \in Seq(Ids) /\ Elements(s) \subseteq Elements(snapshot[w])
    <3>1. Elements(snapshot[w]) \subseteq Ids
      BY <1>0, ElementsOf
    <3> QED
      BY <2>2, <3>1, NearestList, LimitType
  <2>5. \A v \in Ids, l \in Levels :
          connections'[v][l] = IF v = Neighbor(w) /\ l = layer[w] THEN s ELSE connections[v][l]
    BY <2>2, <2>3, <2>4, ReplaceLinks, ZenonT(60)
  <2>6. list = s /\ Elements(s) \subseteq Told
    BY <1>0, <2>2, <2>4, <2>5 DEF ToldBy
  <2>7. EventTold'
    BY <1>0, <2>1, <2>2, <2>4, <2>6 DEF EventTold
  <2>8. GraphTold'
    BY <1>0, <1>8, <2>1, <2>5, <2>6 DEF LogPrune, Prune, GraphTold
  <2>9. OthersLocals(w) /\ ToldBy(w)'
    BY <1>0, <1>8, <2>1, <2>2, AdvanceTold DEF LogPrune, Prune
  <2> QED
    BY <1>1, <2>1, <2>2, <2>7, <2>8, <2>9
<1>9. CASE LogEntryPoint(w)
  <2>1. event' = <<SetEntryPointEvent(node[w], levelOf[node[w]])>> /\ Told \subseteq Told'
    BY <1>0, <1>9, Sending DEF LogEntryPoint
  <2>2. node[w] \in Told' /\ pc[w] = "lock"
    BY <1>0, <1>9, <2>1 DEF LogEntryPoint, PublishEntryPoint, ToldBy, Added
  <2>3. EventTold'
    BY <1>0, <1>9, <2>1, <2>2 DEF EventTold, EntryTold, LogEntryPoint, PublishEntryPoint
  <2>4. GraphTold' /\ OthersLocals(w) /\ ToldBy(w)'
    BY <1>0, <1>9, <2>1
       DEF LogEntryPoint, PublishEntryPoint, GraphTold, OthersLocals, ToldBy, Added
  <2> QED
    BY <1>1, <2>1, <2>2, <2>3, <2>4
<1> QED
  BY <1>2, <1>3, <1>4, <1>5, <1>6, <1>7, <1>8, <1>9
     DEF LoggedStep, LogFirst, LogLinks

LEMMA InitLogInv == Init /\ LogInit => LogInv
<1> SUFFICES ASSUME Init, LogInit PROVE LogInv
  OBVIOUS
<1>1. Elements(<<>>) = {} /\ Told = {}
  BY PendingOf DEF LogInit, Told, Elements
<1> QED
  BY <1>1, UnlinkedType
     DEF Init, LogInit, LogInv, LogType, GraphTold, ToldBy, Added, EventTold, LogNamesAdded

(* The file, with the event that is on its way and what the workers are      *)
(* about to tell, names nothing it has not added.                            *)
THEOREM LogInvariance == LoggedSpec => []LogInv
<1>1. TypeInv /\ LogInv /\ [LoggedNext]_<<vars, log>> => LogInv'
  <2> SUFFICES ASSUME TypeInv, LogInv, [LoggedNext]_<<vars, log>> PROVE LogInv'
    OBVIOUS
  <2>1. CASE \E w \in Workers : LoggedStep(w)
    BY <2>1, UntoldLogInv, TellingLogInv DEF LoggedStep
  <2>2. CASE Running /\ Write /\ UNCHANGED vars
    BY <2>2, WriteLogInv
  <2>3. CASE UNCHANGED <<vars, log>>
    <3>1. /\ Told' = Told
          /\ UNCHANGED <<nodes, connections, pc, node, layer, chosen, idx, snapshot, log>>
      BY <2>3 DEF vars, graph, log, Told
    <3> QED
      BY <3>1 DEF log, LogInv, LogType, GraphTold, ToldBy, Neighbor, EventTold,
                  EntryTold, LogNamesAdded
  <2> QED
    BY <2>1, <2>2, <2>3 DEF LoggedNext, LoggedOver, Over
<1> QED
  BY <1>1, InitLogInv, LoggedInsertions, TypeInvariance, PTL DEF LoggedSpec, LoggedInit

(* Every vertex the file names was added to it before, at whatever moment    *)
(* the program ends, however many workers there are and even if several of   *)
(* them have found the graph empty.                                          *)
THEOREM FileNamesAdded == LoggedSpec => []LogNamesAdded
<1>1. LogInv => LogNamesAdded
  BY DEF LogInv
<1> QED
  BY <1>1, LogInvariance, PTL
-------------------------------------------------------------------------------
(* What the file will say once the event that the logger has received is     *)
(* written: writing changes nothing of it.                                   *)
Received(type) == event # <<>> /\ event[1].type = type

ToldList(v, l) ==
  IF Received("addNode") /\ event[1].id = v THEN <<>>
  ELSE IF Received("replaceLinksAtLevel") /\ event[1].id = v /\ event[1].level = l
       THEN event[1].targets
       ELSE lists[v][l]

ToldLinks(l) ==
  IF Received("addLinkAtLevel") /\ event[1].level = l
  THEN links[l] \cup {event[1].target} ELSE links[l]

ToldLevel(v) ==
  IF Received("addNode") /\ event[1].id = v THEN event[1].level ELSE added[v]

ToldEntry ==
  IF Received("setEntryPointMaxLevel") THEN <<event[1].id, event[1].level>> ELSE entry

(* A list is the one that was told, with told links appended. *)
Covers(current, list, targets) ==
  /\ Len(list) <= Len(current)
  /\ \A i \in 1 .. Len(list) : list[i] = current[i]
  /\ \A i \in Len(list) + 1 .. Len(current) : current[i] \in targets

ListsCovered ==
  \A v \in Ids, l \in Levels : Covers(connections[v][l], ToldList(v, l), ToldLinks(l))

(* Before its addition is told a vertex has a level of its own choice, and   *)
(* afterwards it keeps it.                                                   *)
NodesTold ==
  /\ \A v \in Told : v \in Ids /\ Born(v) /\ ToldLevel(v) = levelOf[v]
  /\ firsts <= 1 => Told = nodes

EntryPointTold ==
  /\ hlock = {} /\ nodes # {} => ToldEntry = <<entryPointID, currentMaximumLayer>>
  /\ \A w \in Workers : pc[w] = "table" => ToldEntry = <<node[w], 0>>
  /\ \A w \in Workers : pc[w] = "publish" => ToldEntry = <<node[w], levelOf[node[w]]>>

LEMMA CoversItself ==
  ASSUME NEW s, NEW T
  PROVE  Covers(s, s, T)
BY DEF Covers

LEMMA CoversMore ==
  ASSUME NEW s \in Seq(Ids), NEW t \in Seq(Ids), NEW T, Covers(s, t, T), NEW x
  PROVE  Covers(Append(s, x), t, T \cup {x})
<1>1. /\ Len(s) \in Nat /\ Len(t) \in Nat /\ Len(t) <= Len(s)
      /\ Len(Append(s, x)) = Len(s) + 1
      /\ \A i \in 1 .. Len(s) : Append(s, x)[i] = s[i]
      /\ Append(s, x)[Len(s) + 1] = x
  BY DEF Covers
<1>2. \A i \in 1 .. Len(t) : t[i] = Append(s, x)[i]
  BY <1>1 DEF Covers
<1>3. \A i \in Len(t) + 1 .. Len(s) + 1 :
        (i \in Len(t) + 1 .. Len(s) /\ i \in 1 .. Len(s)) \/ i = Len(s) + 1
  BY <1>1
<1>4. \A i \in Len(t) + 1 .. Len(s) + 1 : Append(s, x)[i] \in T \cup {x}
  BY <1>1, <1>3 DEF Covers
<1> QED
  BY <1>1, <1>2, <1>4 DEF Covers

(* In the words of LogTellsGraph. *)
LEMMA CoversMeans ==
  ASSUME NEW s \in Seq(Ids), NEW t \in Seq(Ids), NEW T, Covers(s, t, T)
  PROVE  /\ Len(t) <= Len(s) /\ t = SubSeq(s, 1, Len(t))
         /\ Elements(SubSeq(s, Len(t) + 1, Len(s))) \subseteq T
<1>1. Len(s) \in Nat /\ Len(t) \in Nat /\ Len(t) <= Len(s)
  BY DEF Covers
<1>2. t = SubSeq(s, 1, Len(t))
  <2>1. /\ SubSeq(s, 1, Len(t)) \in Seq(Ids) /\ Len(SubSeq(s, 1, Len(t))) = Len(t)
        /\ \A i \in 1 .. Len(t) : SubSeq(s, 1, Len(t))[i] = s[i]
    BY <1>1
  <2> QED
    BY <2>1 DEF Covers
<1>3. Elements(SubSeq(s, Len(t) + 1, Len(s))) \subseteq T
  <2> DEFINE rest == SubSeq(s, Len(t) + 1, Len(s))
  <2>1. /\ Len(rest) = Len(s) - Len(t)
        /\ \A i \in 1 .. Len(s) - Len(t) : rest[i] = s[Len(t) + i]
    BY <1>1
  <2>2. \A i \in 1 .. Len(s) - Len(t) : Len(t) + i \in Len(t) + 1 .. Len(s)
    BY <1>1
  <2>3. \A i \in 1 .. Len(s) - Len(t) : rest[i] \in T
    BY <2>1, <2>2 DEF Covers
  <2> HIDE DEF rest
  <2>4. Elements(rest) \subseteq T
    BY <2>1, <2>3 DEF Elements
  <2> QED
    BY <2>4 DEF rest
<1> QED
  BY <1>1, <1>2, <1>3 DEF Covers

(* What the receiving of an event adds to that.                              *)
LEMMA ReceivedNow ==
  ASSUME NEW e, Send(e), UNCHANGED <<added, entry, lists, links>>
  PROVE  /\ \A t : ~Received(t)
         /\ \A t : Received(t)' <=> e.type = t
         /\ event'[1] = e
<1>1. event = <<>> /\ event' = <<e>>
  BY DEF Send
<1>2. <<e>> # <<>> /\ <<e>>[1] = e
  OBVIOUS
<1> QED
  BY <1>1, <1>2 DEF Received

LEMMA SendTells ==
  ASSUME NEW e, Send(e), UNCHANGED <<added, entry, lists, links>>
  PROVE  /\ \A v, l : ToldList(v, l) = lists[v][l] /\ ToldLinks(l) = links[l]
         /\ \A v, l : ToldList(v, l)' =
              IF e.type = "addNode" /\ e.id = v THEN <<>>
              ELSE IF e.type = "replaceLinksAtLevel" /\ e.id = v /\ e.level = l
                   THEN e.targets
                   ELSE ToldList(v, l)
         /\ \A l : ToldLinks(l)' =
              IF e.type = "addLinkAtLevel" /\ e.level = l
              THEN ToldLinks(l) \cup {e.target} ELSE ToldLinks(l)
         /\ \A v : ToldLevel(v)' =
              IF e.type = "addNode" /\ e.id = v THEN e.level ELSE ToldLevel(v)
         /\ ToldEntry' =
              IF e.type = "setEntryPointMaxLevel" THEN <<e.id, e.level>> ELSE ToldEntry
<1>1. /\ \A v, l : ToldList(v, l) = lists[v][l] /\ ToldLinks(l) = links[l]
      /\ \A v : ToldLevel(v) = added[v]
      /\ ToldEntry = entry
  BY ReceivedNow DEF ToldList, ToldLinks, ToldLevel, ToldEntry
<1>2. \A v, l : ToldList(v, l)' =
              IF e.type = "addNode" /\ e.id = v THEN <<>>
              ELSE IF e.type = "replaceLinksAtLevel" /\ e.id = v /\ e.level = l
                   THEN e.targets
                   ELSE lists[v][l]
  BY ReceivedNow DEF ToldList
<1>3. \A l : ToldLinks(l)' =
              IF e.type = "addLinkAtLevel" /\ e.level = l
              THEN links[l] \cup {e.target} ELSE links[l]
  BY ReceivedNow DEF ToldLinks
<1>4. \A v : ToldLevel(v)' =
              IF e.type = "addNode" /\ e.id = v THEN e.level ELSE added[v]
  BY ReceivedNow DEF ToldLevel
<1>5. ToldEntry' =
              IF e.type = "setEntryPointMaxLevel" THEN <<e.id, e.level>> ELSE entry
  BY ReceivedNow DEF ToldEntry
<1> QED
  BY <1>1, <1>2, <1>3, <1>4, <1>5

LEMMA EventTypes ==
  \A v, l, ids :
    /\ AddNodeEvent(v, l).type = "addNode"
    /\ AddNodeEvent(v, l).id = v /\ AddNodeEvent(v, l).level = l
    /\ SetEntryPointEvent(v, l).type = "setEntryPointMaxLevel"
    /\ SetEntryPointEvent(v, l).id = v /\ SetEntryPointEvent(v, l).level = l
    /\ AddLinkEvent(l, v).type = "addLinkAtLevel"
    /\ AddLinkEvent(l, v).level = l /\ AddLinkEvent(l, v).target = v
    /\ ReplaceLinksEvent(v, l, ids).type = "replaceLinksAtLevel"
    /\ ReplaceLinksEvent(v, l, ids).id = v /\ ReplaceLinksEvent(v, l, ids).level = l
    /\ ReplaceLinksEvent(v, l, ids).targets = ids
BY DEF AddNodeEvent, SetEntryPointEvent, AddLinkEvent, ReplaceLinksEvent

(* Writing leaves it all as it is.                                           *)
LEMMA WriteTells ==
  ASSUME LogInv, Write
  PROVE  /\ \A v \in Ids, l \in Levels : ToldList(v, l)' = ToldList(v, l)
         /\ \A l \in Levels : ToldLinks(l)' = ToldLinks(l)
         /\ Told' = Told
         /\ \A v \in Told : ToldLevel(v)' = ToldLevel(v)
         /\ ToldEntry' = ToldEntry
<1> USE DEF LogInv
<1>1. PICK e : event = <<e>>
  BY DEF EventTold, Write
<1>2. event' = <<>> /\ (event # <<>>) /\ event[1] = e
  BY <1>1 DEF Write
<1>3. /\ \A t : Received(t) <=> e.type = t
      /\ \A t : ~Received(t)'
  BY <1>2 DEF Received
<1>4. /\ Told' = DOMAIN added'
      /\ Told = DOMAIN added \cup (IF e.type = "addNode" THEN {e.id} ELSE {})
  BY <1>1, <1>2, PendingOf DEF Told
<1>5. /\ \A v, l : ToldList(v, l)' = lists'[v][l] /\ ToldLinks(l)' = links'[l]
      /\ \A v : ToldLevel(v)' = added'[v]
      /\ ToldEntry' = entry'
  BY <1>3 DEF ToldList, ToldLinks, ToldLevel, ToldEntry
<1>6. CASE \E v \in Ids, l \in Levels : event = <<AddNodeEvent(v, l)>>
  <2>1. PICK v \in Ids, l \in Levels : e = AddNodeEvent(v, l)
    BY <1>1, <1>6
  <2>2. e.type = "addNode" /\ e.id = v /\ e.level = l
    BY <2>1, EventTypes
  <2>3. /\ added' = [u \in DOMAIN added \cup {v} |-> IF u = v THEN l ELSE added[u]]
        /\ lists' = [lists EXCEPT ![v] = Unlinked]
        /\ UNCHANGED <<entry, links>>
    BY <1>2, <2>2 DEF Write
  <2>4. \A u \in Ids, m \in Levels : lists'[u][m] = IF u = v THEN <<>> ELSE lists[u][m]
    BY <2>3, UnlinkedType DEF LogType
  <2> QED
    BY <1>2, <1>3, <1>4, <1>5, <2>2, <2>3, <2>4 DEF ToldList, ToldLinks, ToldLevel, ToldEntry
<1>7. CASE \E v \in Ids, l \in Levels : event = <<SetEntryPointEvent(v, l)>>
  <2>1. PICK v \in Ids, l \in Levels : e = SetEntryPointEvent(v, l)
    BY <1>1, <1>7
  <2>2. e.type = "setEntryPointMaxLevel" /\ e.id = v /\ e.level = l
    BY <2>1, EventTypes
  <2>3. entry' = <<v, l>> /\ UNCHANGED <<added, lists, links>>
    BY <1>2, <2>2 DEF Write
  <2> QED
    BY <1>2, <1>3, <1>4, <1>5, <2>2, <2>3 DEF ToldList, ToldLinks, ToldLevel, ToldEntry
<1>8. CASE \E l \in Levels, v \in DOMAIN added : event = <<AddLinkEvent(l, v)>>
  <2>1. PICK l \in Levels, v \in DOMAIN added : e = AddLinkEvent(l, v)
    BY <1>1, <1>8
  <2>2. e.type = "addLinkAtLevel" /\ e.level = l /\ e.target = v
    BY <2>1, EventTypes
  <2>3. links' = [links EXCEPT ![l] = @ \cup {v}] /\ UNCHANGED <<added, lists, entry>>
    BY <1>2, <2>2 DEF Write
  <2>4. \A m \in Levels : links'[m] = IF m = l THEN links[m] \cup {v} ELSE links[m]
    BY <2>3 DEF LogType
  <2>5. \A m \in Levels : ToldLinks(m) = IF m = l THEN links[m] \cup {v} ELSE links[m]
    BY <1>2, <1>3, <2>2 DEF ToldLinks
  <2>6. /\ \A u \in Ids, m \in Levels : ToldList(u, m) = lists[u][m]
        /\ \A u : ToldLevel(u) = added[u]
        /\ ToldEntry = entry
    BY <1>3, <2>2 DEF ToldList, ToldLevel, ToldEntry
  <2>7. Told' = Told
    BY <1>4, <2>2, <2>3
  <2>8. /\ \A u \in Ids, m \in Levels : ToldList(u, m)' = ToldList(u, m)
        /\ \A u \in Told : ToldLevel(u)' = ToldLevel(u)
        /\ ToldEntry' = ToldEntry
    BY <1>5, <2>3, <2>6
  <2>9. \A m \in Levels : ToldLinks(m)' = ToldLinks(m)
    BY <1>5, <2>4, <2>5
  <2> QED
    BY <2>7, <2>8, <2>9
<1>9. CASE \E v \in DOMAIN added \cap Ids, l \in Levels, ids \in Seq(Ids) :
             event = <<ReplaceLinksEvent(v, l, ids)>>
  <2>1. PICK v \in DOMAIN added \cap Ids, l \in Levels, ids \in Seq(Ids) :
          e = ReplaceLinksEvent(v, l, ids)
    BY <1>1, <1>9
  <2>2. e.type = "replaceLinksAtLevel" /\ e.id = v /\ e.level = l /\ e.targets = ids
    BY <2>1, EventTypes
  <2>3. lists' = [lists EXCEPT ![v][l] = ids] /\ UNCHANGED <<added, links, entry>>
    BY <1>2, <2>2 DEF Write
  <2>4. \A u \in Ids, m \in Levels :
          lists'[u][m] = IF u = v /\ m = l THEN ids ELSE lists[u][m]
    BY <2>3 DEF LogType
  <2> QED
    BY <1>2, <1>3, <1>4, <1>5, <2>2, <2>3, <2>4 DEF ToldList, ToldLinks, ToldLevel, ToldEntry
<1> QED
  BY <1>2, <1>6, <1>7, <1>8, <1>9 DEF EventTold

-------------------------------------------------------------------------------
(* What a step does to the lists, and what it tells the log.                 *)
SameLists == \A v \in Ids, l \in Levels : connections'[v][l] = connections[v][l]

LEMMA LoggedLists ==
  ASSUME TypeInv, Publication, BornInv, UnbornUnlinked, NEW w \in Workers, LoggedStep(w)
  PROVE  \/ UNCHANGED event /\ SameLists
         \/ SameLists /\ \E k \in Levels : Send(SetEntryPointEvent(node[w], k))
         \/ /\ SameLists /\ \A l \in Levels : connections[node[w]][l] = <<>>
            /\ \E k \in Levels : Send(AddNodeEvent(node[w], k))
         \/ \E v \in Ids, l \in Levels, x \in Ids :
              Extends(v, l, x) /\ Send(AddLinkEvent(l, x))
         \/ \E v \in Ids, l \in Levels, s \in Seq(Ids) :
              Cuts(v, l, s) /\ Send(ReplaceLinksEvent(v, l, s))
<1>1. Take(w) \/ Insert(w)
  BY LoggedIsStep DEF Step
<1>2. /\ node[w] \in Ids /\ layer[w] \in Levels /\ 0 \in Levels
      /\ levelOf[node[w]] \in Levels
  BY IdsAndLevels DEF TypeInv, TypeOK
<1>3. pc[w] \in Linking => Neighbor(w) \in Ids
  BY NeighborBorn
<1>4. UNCHANGED connections => SameLists
  BY DEF SameLists
<1>5. ForgetsLists(w) => SameLists
  BY ForgetsNothing DEF SameLists
<1>6. pc[w] \in Unborn => \A l \in Levels : connections[node[w]][l] = <<>>
  BY <1>2 DEF UnbornUnlinked, Born
<1>7. CASE LockFirst(w) /\ Send(SetEntryPointEvent(node[w], 0))
  BY <1>2, <1>4, <1>7 DEF LockFirst
<1>8. CASE FirstInsert(w) /\ Send(AddNodeEvent(node[w], 0))
  <2>1. pc[w] \in Unborn /\ ~LinkNeighbor(w) /\ ~LinkSelf(w) /\ ~Prune(w)
    BY <1>8 DEF FirstInsert, Unborn, LinkNeighbor, LinkSelf, Prune
  <2>2. SameLists
    BY <1>1, <1>4, <1>5, <2>1, StepLists
  <2> QED
    BY <1>2, <1>6, <1>8, <2>1, <2>2
<1>9. CASE LogAddNode(w)
  <2>1. pc[w] \in Unborn /\ UNCHANGED connections
    BY <1>9 DEF LogAddNode, AddNode, Unborn
  <2> QED
    BY <1>2, <1>4, <1>6, <1>9, <2>1 DEF LogAddNode
<1>10. CASE LogLinks(w)
  <2>1. CASE LinkNeighbor(w) /\ Neighbor(w) \in nodes
    <3>1. connections' = [connections EXCEPT ![Neighbor(w)][layer[w]] = Append(@, node[w])]
          /\ Neighbor(w) \in Ids
      BY <1>3, <2>1 DEF LinkNeighbor, Linking
    <3>2. Extends(Neighbor(w), layer[w], node[w])
      BY <1>2, <3>1, AppendLink, ZenonT(60) DEF Extends, TypeInv
    <3>3. Send(AddLinkEvent(layer[w], node[w]))
      BY <1>10, <2>1 DEF LogLinks, LinkNeighbor, LinkSelf
    <3> QED
      BY <1>2, <3>1, <3>2, <3>3
  <2>2. CASE LinkNeighbor(w) /\ Neighbor(w) \notin nodes
    BY <1>4, <1>10, <2>2 DEF LogLinks, LinkNeighbor, LinkSelf
  <2>3. CASE LinkSelf(w)
    <3>1. connections' = [connections EXCEPT ![node[w]][layer[w]] = Append(@, Neighbor(w))]
          /\ Neighbor(w) \in Ids
      BY <1>3, <2>3 DEF LinkSelf, Linking
    <3>2. Extends(node[w], layer[w], Neighbor(w))
      BY <1>2, <3>1, AppendLink, ZenonT(60) DEF Extends, TypeInv
    <3>3. Send(AddLinkEvent(layer[w], Neighbor(w)))
      BY <1>10, <2>3 DEF LogLinks, LinkNeighbor, LinkSelf
    <3> QED
      BY <1>2, <3>1, <3>2, <3>3
  <2> QED
    BY <1>10, <2>1, <2>2, <2>3 DEF LogLinks
<1>11. CASE LogPrune(w)
  <2>1. pc[w] = "prune" /\ Prune(w) /\ Neighbor(w) \in Ids
    BY <1>3, <1>11 DEF LogPrune, Prune, Linking
  <2>2. PICK s : IsPruned(w, s) /\ Cuts(Neighbor(w), layer[w], s)
    BY <1>1, <2>1, StepLists DEF ForgetsLists, LinkNeighbor, LinkSelf
  <2>3. s \in Seq(Ids) /\ connections'[Neighbor(w)][layer[w]] = s
    BY <1>2, <2>1, <2>2 DEF IsPruned, Cuts
  <2> QED
    BY <1>2, <1>11, <2>1, <2>2, <2>3 DEF LogPrune
<1>12. CASE LogEntryPoint(w)
  BY <1>2, <1>4, <1>12 DEF LogEntryPoint, PublishEntryPoint
<1>13. CASE Untold(w)
  <2>1. ~LinkNeighbor(w) /\ ~LinkSelf(w) /\ ~Prune(w)
    BY <1>13 DEF Untold, Take, ReadTotal, ReadEntryPoint, ReadMaximumLayer, Expand,
                 Visit, Descend, SearchOver, SelectNeighbors, CountNeighbor,
                 CheckMaximumLayer, PublishMaximumLayer, LinkNeighbor, LinkSelf, Prune
  <2>2. SameLists
    BY <1>1, <1>4, <1>5, <2>1, StepLists
  <2> QED
    BY <1>13, <2>2 DEF Untold
<1> QED
  BY <1>7, <1>8, <1>9, <1>10, <1>11, <1>12, <1>13 DEF LoggedStep, LogFirst

LEMMA StepListsCovered ==
  ASSUME TypeInv, Publication, BornInv, UnbornUnlinked, LogType, ListsCovered,
         NEW w \in Workers, LoggedStep(w)
  PROVE  ListsCovered'
<1> SUFFICES ASSUME NEW v \in Ids, NEW l \in Levels
             PROVE  Covers(connections'[v][l], ToldList(v, l)', ToldLinks(l)')
  BY DEF ListsCovered
<1>0. /\ Covers(connections[v][l], ToldList(v, l), ToldLinks(l))
      /\ connections[v][l] \in Seq(Ids) /\ lists[v][l] \in Seq(Ids)
      /\ UNCHANGED <<added, entry, lists, links>>
  BY DEF ListsCovered, TypeInv, TypeOK, LogType, LoggedStep
<1>1. CASE UNCHANGED event /\ SameLists
  <2>1. ToldList(v, l)' = ToldList(v, l) /\ ToldLinks(l)' = ToldLinks(l)
    BY <1>0, <1>1 DEF ToldList, ToldLinks, Received
  <2> QED
    BY <1>0, <1>1, <2>1 DEF SameLists
<1>2. ASSUME SameLists, NEW k, Send(SetEntryPointEvent(node[w], k))
      PROVE  Covers(connections'[v][l], ToldList(v, l)', ToldLinks(l)')
  <2>1. ToldList(v, l)' = ToldList(v, l) /\ ToldLinks(l)' = ToldLinks(l)
    BY <1>0, <1>2, SendTells, EventTypes
  <2> QED
    BY <1>0, <1>2, <2>1 DEF SameLists
<1>3. ASSUME SameLists, \A m \in Levels : connections[node[w]][m] = <<>>,
             NEW k, Send(AddNodeEvent(node[w], k))
      PROVE  Covers(connections'[v][l], ToldList(v, l)', ToldLinks(l)')
  <2>1. /\ ToldList(v, l)' = IF v = node[w] THEN <<>> ELSE ToldList(v, l)
        /\ ToldLinks(l)' = ToldLinks(l)
    BY <1>0, <1>3, SendTells, EventTypes
  <2> QED
    BY <1>0, <1>3, <2>1, CoversItself DEF SameLists
<1>4. ASSUME NEW u \in Ids, NEW m \in Levels, NEW x \in Ids,
             Extends(u, m, x), Send(AddLinkEvent(m, x))
      PROVE  Covers(connections'[v][l], ToldList(v, l)', ToldLinks(l)')
  <2>1. /\ ToldList(v, l)' = ToldList(v, l) /\ ToldList(v, l) = lists[v][l]
        /\ ToldLinks(l)' = IF l = m THEN ToldLinks(l) \cup {x} ELSE ToldLinks(l)
    BY <1>0, <1>4, SendTells, EventTypes
  <2>2. CASE l = m /\ v = u
    <3>1. connections'[v][l] = Append(connections[v][l], x)
      BY <1>4, <2>2 DEF Extends
    <3> QED
      BY <1>0, <2>1, <2>2, <3>1, CoversMore
  <2>3. CASE ~(l = m /\ v = u)
    <3>1. connections'[v][l] = connections[v][l] /\ ToldLinks(l) \subseteq ToldLinks(l)'
      BY <1>4, <2>1, <2>3 DEF Extends
    <3> QED
      BY <1>0, <2>1, <3>1 DEF Covers
  <2> QED
    BY <2>2, <2>3
<1>5. ASSUME NEW u \in Ids, NEW m \in Levels, NEW s \in Seq(Ids),
             Cuts(u, m, s), Send(ReplaceLinksEvent(u, m, s))
      PROVE  Covers(connections'[v][l], ToldList(v, l)', ToldLinks(l)')
  <2>1. /\ ToldList(v, l)' = IF v = u /\ l = m THEN s ELSE ToldList(v, l)
        /\ ToldLinks(l)' = ToldLinks(l)
    BY <1>0, <1>5, SendTells, EventTypes
  <2>2. connections'[v][l] = IF v = u /\ l = m THEN s ELSE connections[v][l]
    BY <1>5 DEF Cuts
  <2> QED
    BY <1>0, <2>1, <2>2, CoversItself
<1> QED
  BY <1>1, <1>2, <1>3, <1>4, <1>5, LoggedLists

-------------------------------------------------------------------------------
(* What a step does to the table and the levels, and what it tells the log.  *)
LEMMA TurnsBorn ==
  ASSUME TypeInv, Publication, NEW w \in Workers, Take(w) \/ Insert(w), Active(w),
         pc'[w] \notin Unborn, UNCHANGED <<jobs, node>>
  PROVE  Born(node[w])'
BY StepElsewhere DEF Elsewhere, Publication, Active, Born, Unborn

LEMMA Untelling ==
  ASSUME NEW e, Send(e), e.type # "addNode", UNCHANGED <<added, entry, lists, links>>
  PROVE  Told' = Told /\ \A v : ToldLevel(v)' = ToldLevel(v)
BY Sending, SendTells

LEMMA LoggedNodes ==
  ASSUME TypeInv, NEW w \in Workers, LoggedStep(w)
  PROVE  \/ FirstInsert(w) /\ Send(AddNodeEvent(node[w], 0))
         \/ AddNode(w) /\ Send(AddNodeEvent(node[w], levelOf[node[w]]))
         \/ /\ UNCHANGED <<nodes, firsts>> /\ Told' = Told
            /\ \A v : ToldLevel(v)' = ToldLevel(v)
            /\ \A v \in Ids : levelOf'[v] = levelOf[v] \/ (pc[w] = "max" /\ v = node[w])
<1>0. UNCHANGED <<added, entry, lists, links>>
  BY DEF LoggedStep
<1>1. UNCHANGED event => Told' = Told /\ \A v : ToldLevel(v)' = ToldLevel(v)
  BY <1>0 DEF Told, ToldLevel, Received
<1>2. CASE LockFirst(w) /\ Send(SetEntryPointEvent(node[w], 0))
  BY <1>0, <1>2, Untelling, EventTypes DEF LockFirst
<1>3. CASE FirstInsert(w) /\ Send(AddNodeEvent(node[w], 0))
  BY <1>3
<1>4. CASE LogAddNode(w)
  BY <1>4 DEF LogAddNode
<1>5. CASE LogLinks(w)
  <2>1. UNCHANGED <<nodes, firsts, levelOf>>
    BY <1>5 DEF LogLinks, LinkNeighbor, LinkSelf
  <2>2. UNCHANGED event \/ \E l, v : Send(AddLinkEvent(l, v))
    BY <1>5 DEF LogLinks
  <2>3. Told' = Told /\ \A v : ToldLevel(v)' = ToldLevel(v)
    BY <1>0, <1>1, <2>2, Untelling, EventTypes
  <2> QED
    BY <2>1, <2>3
<1>6. CASE LogPrune(w)
  <2>1. UNCHANGED <<nodes, firsts, levelOf>>
    BY <1>6 DEF LogPrune, Prune
  <2>2. \E v, l, s : Send(ReplaceLinksEvent(v, l, s))
    BY <1>6 DEF LogPrune
  <2>3. Told' = Told /\ \A v : ToldLevel(v)' = ToldLevel(v)
    BY <1>0, <2>2, Untelling, EventTypes
  <2> QED
    BY <2>1, <2>3
<1>7. CASE LogEntryPoint(w)
  BY <1>0, <1>7, Untelling, EventTypes DEF LogEntryPoint, PublishEntryPoint
<1>8. CASE Untold(w)
  <2>1. CASE ReadMaximumLayer(w)
    <3>1. /\ pc[w] = "max" /\ UNCHANGED <<nodes, firsts>>
          /\ \E k : levelOf' = [levelOf EXCEPT ![node[w]] = k]
      BY <2>1 DEF ReadMaximumLayer
    <3>2. \A v \in Ids : v # node[w] => levelOf'[v] = levelOf[v]
      BY <3>1 DEF TypeInv, TypeOK
    <3> QED
      BY <1>1, <1>8, <3>1, <3>2 DEF Untold
  <2>2. CASE ~ReadMaximumLayer(w)
    <3>1. UNCHANGED <<nodes, firsts, levelOf, event>>
      BY <1>8, <2>2
         DEF Untold, Take, ReadTotal, ReadEntryPoint, Expand, Visit, Descend,
             SelectNeighbors, CountNeighbor, CheckMaximumLayer, PublishMaximumLayer, graph
    <3> QED
      BY <1>1, <3>1
  <2> QED
    BY <2>1, <2>2
<1> QED
  BY <1>2, <1>3, <1>4, <1>5, <1>6, <1>7, <1>8 DEF LoggedStep, LogFirst

LEMMA StepNodesTold ==
  ASSUME TypeInv, Publication, NodesTold, NEW w \in Workers, LoggedStep(w)
  PROVE  NodesTold'
<1>0. /\ Take(w) \/ Insert(w)
      /\ node[w] \in Ids /\ UNCHANGED <<added, entry, lists, links>>
  BY LoggedIsStep DEF Step, TypeInv, TypeOK, LoggedStep
<1>1. ASSUME NEW k, Send(AddNodeEvent(node[w], k)), Active(w), pc'[w] \notin Unborn,
             UNCHANGED <<jobs, node>>, levelOf'[node[w]] = k,
             \A v \in Ids \ {node[w]} : levelOf'[v] = levelOf[v],
             firsts' <= 1 => nodes' = nodes \cup {node[w]} /\ firsts <= 1
      PROVE  NodesTold'
  <2>1. Told' = Told \cup {node[w]}
    BY <1>0, <1>1, Sending, EventTypes
  <2>2. \A v : ToldLevel(v)' = IF v = node[w] THEN k ELSE ToldLevel(v)
    BY <1>0, <1>1, SendTells, EventTypes
  <2>3. Born(node[w])'
    BY <1>0, <1>1, TurnsBorn
  <2>4. \A v \in Told : Born(v)'
    BY <1>0, StepBorn DEF NodesTold
  <2> QED
    BY <1>0, <1>1, <2>1, <2>2, <2>3, <2>4 DEF NodesTold
<1>2. CASE FirstInsert(w) /\ Send(AddNodeEvent(node[w], 0))
  <2>1. /\ pc[w] = "table" /\ pc'[w] = "idle" /\ UNCHANGED <<jobs, node>>
        /\ levelOf' = [levelOf EXCEPT ![node[w]] = 0]
        /\ nodes' = {node[w]} /\ firsts' = firsts + 1 /\ firsts \in Nat
    BY <1>2 DEF FirstInsert, TypeInv, TypeOK
  <2>2. levelOf'[node[w]] = 0 /\ \A v \in Ids \ {node[w]} : levelOf'[v] = levelOf[v]
    BY <1>0, <2>1 DEF TypeInv, TypeOK
  <2>3. firsts' <= 1 => firsts = 0
    BY <2>1
  <2>4. firsts = 0 => nodes = {}
    BY DEF Publication
  <2>5. firsts' <= 1 => nodes' = nodes \cup {node[w]} /\ firsts <= 1
    BY <2>1, <2>3, <2>4
  <2>6. Active(w) /\ pc'[w] \notin Unborn
    BY <2>1 DEF Active, Unborn
  <2> QED
    BY <1>1, <1>2, <2>1, <2>2, <2>5, <2>6
<1>3. CASE AddNode(w) /\ Send(AddNodeEvent(node[w], levelOf[node[w]]))
  <2>1. /\ pc[w] = "add" /\ pc'[w] = "search" /\ UNCHANGED <<jobs, node, levelOf, firsts>>
        /\ nodes' = nodes \cup {node[w]}
    BY <1>3 DEF AddNode, TypeInv, TypeOK
  <2> QED
    BY <1>1, <1>3, <2>1 DEF Active, Unborn
<1>4. CASE /\ UNCHANGED <<nodes, firsts>> /\ Told' = Told
           /\ \A v : ToldLevel(v)' = ToldLevel(v)
           /\ \A v \in Ids : levelOf'[v] = levelOf[v] \/ (pc[w] = "max" /\ v = node[w])
  <2>1. ASSUME NEW v \in Told
        PROVE  v \in Ids /\ Born(v)' /\ levelOf'[v] = levelOf[v]
    <3>1. v \in Ids /\ Born(v)
      BY DEF NodesTold
    <3>2. ~(pc[w] = "max" /\ v = node[w])
      BY <3>1 DEF Born, Unborn
    <3> QED
      BY <1>0, <1>4, <3>1, <3>2, StepBorn
  <2> QED
    BY <1>4, <2>1 DEF NodesTold
<1> QED
  BY <1>2, <1>3, <1>4, LoggedNodes

-------------------------------------------------------------------------------
(* What a step does to the entry point, and what it tells the log.  The      *)
(* write lock keeps the others away between the two halves of publishing it. *)
NoEntrySent ==
  \/ UNCHANGED event
  \/ \E e : Send(e) /\ e.type # "setEntryPointMaxLevel"

LEMMA SameEntry ==
  ASSUME NoEntrySent, UNCHANGED <<added, entry, lists, links>>
  PROVE  ToldEntry' = ToldEntry
<1>1. CASE UNCHANGED event
  BY <1>1 DEF ToldEntry, Received
<1>2. ASSUME NEW e, Send(e), e.type # "setEntryPointMaxLevel"
      PROVE  ToldEntry' = ToldEntry
  BY <1>2, SendTells
<1> QED
  BY <1>1, <1>2 DEF NoEntrySent

LEMMA LoggedEntry ==
  ASSUME TypeInv, Publication, NEW w \in Workers, LoggedStep(w)
  PROVE  \/ /\ LockFirst(w) /\ UNCHANGED levelOf
            /\ Send(SetEntryPointEvent(node[w], 0))
         \/ FirstInsert(w) /\ NoEntrySent
         \/ /\ PublishEntryPoint(w) /\ UNCHANGED levelOf
            /\ Send(SetEntryPointEvent(node[w], levelOf[node[w]]))
         \/ PublishMaximumLayer(w) /\ UNCHANGED levelOf /\ NoEntrySent
         \/ /\ NoEntrySent /\ UNCHANGED <<entryPointID, currentMaximumLayer, hlock>>
            /\ nodes' # {} => nodes # {}
            /\ pc'[w] \notin {"table", "publish"}
            /\ \A v \in Ids : levelOf'[v] = levelOf[v] \/ (pc[w] = "max" /\ v = node[w])
<1> USE DEF TypeInv
<1>1. CASE LogFirst(w)
  <2>1. Send(AddNodeEvent(node[w], 0)) => NoEntrySent
    BY EventTypes DEF NoEntrySent
  <2> QED
    BY <1>1, <2>1 DEF LogFirst, LockFirst
<1>2. CASE LogAddNode(w)
  <2>1. NoEntrySent
    BY <1>2, EventTypes DEF LogAddNode, NoEntrySent
  <2>2. nodes # {}
    BY <1>2 DEF LogAddNode, AddNode, Publication, Beginning
  <2>3. /\ pc' = [pc EXCEPT ![w] = "search"]
        /\ UNCHANGED <<entryPointID, currentMaximumLayer, hlock, levelOf>>
    BY <1>2 DEF LogAddNode, AddNode
  <2>4. pc'[w] = "search"
    BY <2>3 DEF TypeOK
  <2> QED
    BY <2>1, <2>2, <2>3, <2>4
<1>3. CASE LogLinks(w)
  <2>1. NoEntrySent
    BY <1>3, EventTypes DEF LogLinks, NoEntrySent
  <2>2. /\ \E p \in {"linkSelf", "count", "panic"} : pc' = [pc EXCEPT ![w] = p]
        /\ UNCHANGED <<nodes, entryPointID, currentMaximumLayer, hlock, levelOf>>
    BY <1>3 DEF LogLinks, LinkNeighbor, LinkSelf
  <2>3. pc'[w] \in {"linkSelf", "count", "panic"}
    BY <2>2 DEF TypeOK
  <2> QED
    BY <2>1, <2>2, <2>3
<1>4. CASE LogPrune(w)
  <2>1. NoEntrySent
    BY <1>4, EventTypes DEF LogPrune, NoEntrySent
  <2>2. /\ Advance(w)
        /\ UNCHANGED <<nodes, entryPointID, currentMaximumLayer, hlock, levelOf>>
    BY <1>4 DEF LogPrune, Prune
  <2>3. pc'[w] \in {"link", "search", "raise"}
    BY <2>2, AdvanceCases
  <2> QED
    BY <2>1, <2>2, <2>3
<1>5. CASE LogEntryPoint(w)
  BY <1>5 DEF LogEntryPoint, PublishEntryPoint
<1>6. CASE Untold(w)
  <2>1. NoEntrySent
    BY <1>6 DEF Untold, NoEntrySent
  <2>2. CASE PublishMaximumLayer(w)
    BY <2>1, <2>2 DEF PublishMaximumLayer
  <2>3. CASE ReadMaximumLayer(w)
    <3>1. /\ pc[w] = "max" /\ UNCHANGED <<nodes, entryPointID, currentMaximumLayer, hlock>>
          /\ \E k : levelOf' = [levelOf EXCEPT ![node[w]] = k]
          /\ pc' = [pc EXCEPT ![w] = "add"]
      BY <2>3 DEF ReadMaximumLayer
    <3>2. \A v \in Ids : v # node[w] => levelOf'[v] = levelOf[v]
      BY <3>1 DEF TypeOK
    <3>3. pc'[w] = "add"
      BY <3>1 DEF TypeOK
    <3> QED
      BY <2>1, <3>1, <3>2, <3>3
  <2>4. CASE ~PublishMaximumLayer(w) /\ ~ReadMaximumLayer(w)
    <3>1. UNCHANGED graph
      BY <1>6, <2>4
         DEF Untold, Take, ReadTotal, ReadEntryPoint, Expand, Visit, Descend,
             SelectNeighbors, CountNeighbor, CheckMaximumLayer
    <3>2. pc'[w] \notin {"table", "publish"}
      <4>1. Advance(w) => pc'[w] \in {"link", "search", "raise"}
        BY AdvanceCases
      <4>2. CASE CountNeighbor(w)
        BY <4>1, <4>2 DEF CountNeighbor, TypeOK
      <4>3. CASE ~CountNeighbor(w)
        BY <1>6, <2>4, <4>3
           DEF Untold, Take, ReadTotal, ReadEntryPoint, Expand, Visit, Descend,
               SearchOver, SelectNeighbors, CheckMaximumLayer, TypeOK
      <4> QED
        BY <4>2, <4>3
    <3> QED
      BY <2>1, <3>1, <3>2 DEF graph
  <2> QED
    BY <2>2, <2>3, <2>4
<1> QED
  BY <1>1, <1>2, <1>3, <1>4, <1>5, <1>6 DEF LoggedStep

LEMMA StepEntryPointTold ==
  ASSUME TypeInv, Publication, EntryPointTold, NEW w \in Workers, LoggedStep(w)
  PROVE  EntryPointTold'
<1> USE DEF TypeInv
<1>0. /\ UNCHANGED <<added, entry, lists, links>>
      /\ \A x \in Workers \ {w} : pc'[x] = pc[x] /\ node'[x] = node[x]
      /\ node[w] \in Ids /\ \A x \in Workers : node[x] \in Ids
  <2>1. Take(w) \/ Insert(w)
    BY LoggedIsStep DEF Step
  <2> QED
    BY <2>1, StepElsewhere DEF Elsewhere, LoggedStep, TypeOK
<1>1. \A x \in Workers : pc[x] \in {"table", "publish"} <=> hlock = {x}
  BY DEF Publication
<1>2. CASE LockFirst(w) /\ Send(SetEntryPointEvent(node[w], 0))
  <2>1. ToldEntry' = <<node[w], 0>>
    BY <1>0, <1>2, SendTells, EventTypes
  <2>2. /\ hlock = {} /\ hlock' # {}
        /\ pc'[w] = "table" /\ UNCHANGED node
    BY <1>2 DEF LockFirst, TypeOK
  <2> QED
    BY <1>0, <1>1, <2>1, <2>2 DEF EntryPointTold
<1>3. CASE FirstInsert(w) /\ NoEntrySent
  <2>1. /\ pc[w] = "table" /\ currentMaximumLayer' = 0 /\ UNCHANGED <<node, entryPointID>>
        /\ pc'[w] = "idle"
    BY <1>3 DEF FirstInsert, TypeOK
  <2>2. entryPointID = node[w] /\ ToldEntry' = <<node[w], 0>>
    BY <1>0, <1>3, <2>1, SameEntry DEF EntryPointTold, Publication
  <2>3. \A x \in Workers : pc'[x] \notin {"table", "publish"}
    BY <1>0, <1>1, <2>1
  <2> QED
    BY <2>1, <2>2, <2>3 DEF EntryPointTold
<1>4. CASE /\ PublishEntryPoint(w) /\ UNCHANGED levelOf
           /\ Send(SetEntryPointEvent(node[w], levelOf[node[w]]))
  <2>1. ToldEntry' = <<node[w], levelOf[node[w]]>>
    BY <1>0, <1>4, SendTells, EventTypes
  <2>2. /\ hlock = {} /\ hlock' # {}
        /\ pc'[w] = "publish" /\ UNCHANGED node
    BY <1>4 DEF PublishEntryPoint, TypeOK
  <2> QED
    BY <1>0, <1>1, <1>4, <2>1, <2>2 DEF EntryPointTold
<1>5. CASE PublishMaximumLayer(w) /\ UNCHANGED levelOf /\ NoEntrySent
  <2>1. /\ pc[w] = "publish" /\ currentMaximumLayer' = levelOf[node[w]]
        /\ UNCHANGED <<node, entryPointID>> /\ pc'[w] = "idle"
    BY <1>5 DEF PublishMaximumLayer, TypeOK
  <2>2. entryPointID = node[w] /\ ToldEntry' = <<node[w], levelOf[node[w]]>>
    BY <1>0, <1>5, <2>1, SameEntry DEF EntryPointTold, Publication
  <2>3. \A x \in Workers : pc'[x] \notin {"table", "publish"}
    BY <1>0, <1>1, <2>1
  <2> QED
    BY <2>1, <2>2, <2>3 DEF EntryPointTold
<1>6. CASE /\ NoEntrySent /\ UNCHANGED <<entryPointID, currentMaximumLayer, hlock>>
           /\ nodes' # {} => nodes # {}
           /\ pc'[w] \notin {"table", "publish"}
           /\ \A v \in Ids : levelOf'[v] = levelOf[v] \/ (pc[w] = "max" /\ v = node[w])
  <2>1. ToldEntry' = ToldEntry
    BY <1>0, <1>6, SameEntry
  <2>2. ASSUME NEW x \in Workers, pc'[x] \in {"table", "publish"}
        PROVE  /\ pc'[x] = pc[x] /\ node'[x] = node[x]
               /\ levelOf'[node[x]] = levelOf[node[x]]
    <3>1. x # w /\ pc'[x] = pc[x] /\ node'[x] = node[x]
      BY <1>0, <1>6, <2>2
    <3>2. ~(pc[w] = "max" /\ node[x] = node[w])
      BY <2>2, <3>1 DEF Publication, Active
    <3> QED
      BY <1>0, <1>6, <3>1, <3>2
  <2> QED
    BY <1>6, <2>1, <2>2 DEF EntryPointTold
<1> QED
  BY <1>2, <1>3, <1>4, <1>5, <1>6, LoggedEntry

-------------------------------------------------------------------------------
GraphLogged == ListsCovered /\ NodesTold /\ EntryPointTold

LEMMA InitGraphLogged == Init /\ LogInit => GraphLogged
<1> SUFFICES ASSUME Init, LogInit PROVE GraphLogged
  OBVIOUS
<1>1. /\ \A t : ~Received(t)
      /\ Told = {} /\ nodes = {} /\ \A w \in Workers : pc[w] = "idle"
  BY PendingOf DEF Init, LogInit, Received, Told
<1>2. ListsCovered
  BY <1>1, CoversItself, UnlinkedType DEF Init, LogInit, ListsCovered, ToldList
<1> QED
  BY <1>1, <1>2 DEF GraphLogged, NodesTold, EntryPointTold

LEMMA StillGraphLogged ==
  ASSUME LogInv, GraphLogged, UNCHANGED vars, Write \/ UNCHANGED log
  PROVE  GraphLogged'
<1>1. /\ UNCHANGED <<nodes, entryPointID, currentMaximumLayer, hlock, levelOf,
                     connections, firsts, jobs, pc, node>>
      /\ \A v : Born(v)' = Born(v)
  BY DEF vars, graph, Born
<1>2. /\ \A v \in Ids, l \in Levels : ToldList(v, l)' = ToldList(v, l)
      /\ \A l \in Levels : ToldLinks(l)' = ToldLinks(l)
      /\ Told' = Told /\ \A v \in Told : ToldLevel(v)' = ToldLevel(v)
      /\ ToldEntry' = ToldEntry
  <2>1. CASE Write
    BY <2>1, WriteTells
  <2>2. CASE UNCHANGED log
    BY <2>2 DEF log, Told, ToldList, ToldLinks, ToldLevel, ToldEntry, Received
  <2> QED
    BY <2>1, <2>2
<1>3. ListsCovered'
  BY <1>1, <1>2 DEF GraphLogged, ListsCovered
<1>4. NodesTold'
  BY <1>1, <1>2 DEF GraphLogged, NodesTold
<1>5. EntryPointTold'
  BY <1>1, <1>2 DEF GraphLogged, EntryPointTold
<1> QED
  BY <1>3, <1>4, <1>5 DEF GraphLogged

LEMMA GraphLoggedMeans ==
  ASSUME TypeInv, LogType, GraphLogged
  PROVE  LogTellsGraph
<1> SUFFICES ASSUME event = <<>>, firsts <= 1
             PROVE  LogTellsGraph
  BY DEF LogTellsGraph
<1>1. /\ \A t : ~Received(t)
      /\ Told = DOMAIN added
  BY PendingOf DEF Received, Told
<1>2. hlock = {} => /\ DOMAIN added = nodes
                    /\ nodes # {} => entry = <<entryPointID, currentMaximumLayer>>
  BY <1>1 DEF GraphLogged, NodesTold, EntryPointTold, ToldEntry
<1>3. \A v \in nodes \cap DOMAIN added : added[v] = levelOf[v]
  BY <1>1 DEF GraphLogged, NodesTold, ToldLevel
<1>4. ASSUME NEW v \in Ids, NEW l \in Levels
      PROVE  Covers(connections[v][l], lists[v][l], links[l])
             /\ connections[v][l] \in Seq(Ids) /\ lists[v][l] \in Seq(Ids)
  BY <1>1 DEF GraphLogged, ListsCovered, ToldList, ToldLinks, LogType, TypeInv, TypeOK
<1> QED
  BY <1>2, <1>3, <1>4, CoversMeans DEF LogTellsGraph

(* The file tells the graph, once the event that is on its way is written,   *)
(* however many workers there are.                                           *)
THEOREM FileTellsGraph == LoggedSpec => []LogTellsGraph
<1>1. TypeInv /\ Publication /\ BornInv /\ UnbornUnlinked /\ LogInv /\ GraphLogged
        /\ [LoggedNext]_<<vars, log>> => GraphLogged'
  <2> SUFFICES ASSUME TypeInv, Publication, BornInv, UnbornUnlinked, LogInv, GraphLogged,
                      [LoggedNext]_<<vars, log>>
               PROVE  GraphLogged'
    OBVIOUS
  <2>1. ASSUME NEW w \in Workers, LoggedStep(w)
        PROVE  GraphLogged'
    BY <2>1, StepListsCovered, StepNodesTold, StepEntryPointTold DEF GraphLogged, LogInv
  <2>2. CASE Running /\ Write /\ UNCHANGED vars
    BY <2>2, StillGraphLogged
  <2>3. CASE UNCHANGED <<vars, log>>
    BY <2>3, StillGraphLogged
  <2> QED
    BY <2>1, <2>2, <2>3 DEF LoggedNext, LoggedOver, Over
<1>2. TypeInv /\ LogInv /\ GraphLogged => LogTellsGraph
  BY GraphLoggedMeans DEF LogInv
<1> QED
  BY <1>1, <1>2, InitGraphLogged, LoggedInsertions, LogInvariance, TypeInvariance,
     PublicationInvariance, BornInvariance, UnbornInvariance, PTL
     DEF LoggedSpec, LoggedInit
================================================================================
