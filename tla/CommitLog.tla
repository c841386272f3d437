------------------------------- MODULE CommitLog -------------------------------
(****************************************************************************)
(* hnswCommitLogger under the insertions of module Hnsw.  Every change of   *)
(* the graph is sent, under the lock that guards what changes, over a       *)
(* channel without a buffer to one goroutine, which appends it to a file:   *)
(* the goroutine has received at most one event that is not yet written.    *)
(*                                                                          *)
(* Nothing reads the file.  It is kept here as what it says to whoever      *)
(* reads it from the beginning, and as nothing is ever removed from it,     *)
(* each state stands for what a crash at that moment leaves behind.         *)
(****************************************************************************)
EXTENDS Hnsw

VARIABLES
  event,  \* <<e>>: the logger has received e and not written it; <<>>: none
  \* what the file says
  added,  \* added[v]: the level of v, if its addition is in the file
  entry,  \* the last entry point and maximum layer, as <<id, level>>, or <<>>
  lists,  \* lists[v][l]: the last list that replaced the links of v on level l
  links   \* links[l]: the targets of all links added on level l

log == <<event, added, entry, lists, links>>

(* The bytes of an event, type first.  The id of the vertex is an argument  *)
(* of AddLinkAtLevel but not among what it writes.  (Ids and levels are     *)
(* written in 32 and 16 bits: there are a thousand ids at most.)            *)
AddNodeEvent(v, level)           == [type |-> "addNode", id |-> v, level |-> level]
SetEntryPointEvent(v, level)     == [type |-> "setEntryPointMaxLevel", id |-> v, level |-> level]
AddLinkEvent(level, target)      == [type |-> "addLinkAtLevel", level |-> level, target |-> target]
ReplaceLinksEvent(v, level, ids) == [type |-> "replaceLinksAtLevel", id |-> v, level |-> level, targets |-> ids]

(* l.events <- w.Bytes(): it waits for the goroutine.                       *)
Send(e) == event = <<>> /\ event' = <<e>>

LogInit ==
  /\ event = <<>>
  /\ added = [v \in {} |-> 0]
  /\ entry = <<>>
  /\ lists = [v \in Ids |-> Unlinked]
  /\ links = [l \in Levels |-> {}]

(* The loop of StartLogging. *)
Write ==
  /\ event # <<>>
  /\ event' = <<>>
  /\ LET e == event[1] IN
       \/ /\ e.type = "addNode"
          /\ added' = [v \in DOMAIN added \cup {e.id} |->
                         IF v = e.id THEN e.level ELSE added[v]]
          /\ lists' = [lists EXCEPT ![e.id] = Unlinked]
          /\ UNCHANGED <<entry, links>>
       \/ /\ e.type = "setEntryPointMaxLevel"
          /\ entry' = <<e.id, e.level>>
          /\ UNCHANGED <<added, lists, links>>
       \/ /\ e.type = "addLinkAtLevel"
          /\ links' = [links EXCEPT ![e.level] = @ \cup {e.target}]
          /\ UNCHANGED <<added, entry, lists>>
       \/ /\ e.type = "replaceLinksAtLevel"
          /\ lists' = [lists EXCEPT ![e.id][e.level] = e.targets]
          /\ UNCHANGED <<added, entry, links>>

-------------------------------------------------------------------------------
(* The steps of insert that tell the log, with what they tell it.           *)
LogFirst(w) ==
  \/ LockFirst(w) /\ Send(SetEntryPointEvent(node[w], 0))
  \/ FirstInsert(w) /\ Send(AddNodeEvent(node[w], 0))

(* Faulty: the vertex is not logged. *)
LogAddNodeNot(w) == AddNode(w) /\ UNCHANGED event

LogAddNode(w) == AddNode(w) /\ Send(AddNodeEvent(node[w], levelOf[node[w]]))

(* linkAtLevel, twice.  A nil neighbor panics before anything is sent.      *)
LogLinks(w) ==
  \/ /\ LinkNeighbor(w)
     /\ IF Neighbor(w) \in nodes THEN Send(AddLinkEvent(layer[w], node[w]))
                                 ELSE UNCHANGED event
  \/ LinkSelf(w) /\ Send(AddLinkEvent(layer[w], Neighbor(w)))

(* Faulty: what is logged is the list before it was pruned. *)
LogPruneBefore(w) ==
  Prune(w) /\ Send(ReplaceLinksEvent(Neighbor(w), layer[w], snapshot[w]))

LogPrune(w) ==
  Prune(w) /\ Send(ReplaceLinksEvent(Neighbor(w), layer[w],
                                     connections'[Neighbor(w)][layer[w]]))

LogEntryPoint(w) ==
  PublishEntryPoint(w) /\ Send(SetEntryPointEvent(node[w], levelOf[node[w]]))

(* The other steps tell it nothing. *)
Untold(w) ==
  /\ \/ Take(w) \/ ReadTotal(w) \/ ReadEntryPoint(w) \/ ReadMaximumLayer(w)
     \/ \E c \in Ids : Expand(w, c)
     \/ Visit(w) \/ Descend(w) \/ SelectNeighbors(w) \/ CountNeighbor(w)
     \/ CheckMaximumLayer(w) \/ PublishMaximumLayer(w)
  /\ UNCHANGED event

LoggedStep(w) ==
  /\ Running
  /\ \/ LogFirst(w) \/ LogAddNode(w) \/ LogLinks(w) \/ LogPrune(w)
     \/ LogEntryPoint(w) \/ Untold(w)
  /\ UNCHANGED <<added, entry, lists, links>>

(* A panic ends the logger as well, whatever it has still to write.         *)
LoggedOver == Over /\ (Running => event = <<>>) /\ UNCHANGED log

LoggedNext ==
  \/ \E w \in Workers : LoggedStep(w)
  \/ Running /\ Write /\ UNCHANGED vars
  \/ LoggedOver

LoggedInit == Init /\ LogInit

LoggedSpec == LoggedInit /\ [][LoggedNext]_<<vars, log>>

(* The logger is a goroutine like the workers; those that wait to send wait *)
(* in turn.                                                                 *)
LoggedFairSpec ==
  /\ LoggedSpec
  /\ \A w \in Workers : SF_<<vars, log>>(LoggedStep(w))
  /\ WF_<<vars, log>>(Running /\ Write /\ UNCHANGED vars)

-------------------------------------------------------------------------------
(* The vertices whose addition is in the file or will be next. *)
Told == DOMAIN added \cup {e.id : e \in {f \in Elements(event) : f.type = "addNode"}}

(* However the workers' events interleave, the file ends up telling the      *)
(* graph, as far as its format can: the vertices with their levels, the      *)
(* entry point with the maximum layer, and for each vertex the list it was   *)
(* last given, to which what was linked since is appended.  That holds       *)
(* because an event is sent under the lock that guards the change.           *)
LogTellsGraph ==
  (event = <<>> /\ firsts <= 1) =>
    /\ hlock = {} => /\ DOMAIN added = nodes
                     /\ nodes # {} => entry = <<entryPointID, currentMaximumLayer>>
    /\ \A v \in nodes \cap DOMAIN added : added[v] = levelOf[v]
    /\ \A v \in Ids, l \in Levels :
         LET current == connections[v][l]
             told    == Len(lists[v][l])
         IN /\ told <= Len(current) /\ lists[v][l] = SubSeq(current, 1, told)
            /\ Elements(SubSeq(current, told + 1, Len(current))) \subseteq links[l]

(* Wherever a crash cuts the file off: a vertex it names as linked, as the   *)
(* target of a link or as the entry point was added before; only the first   *)
(* entry point of a graph is named before it is added.                       *)
LogNamesAdded ==
  /\ \A l \in Levels : links[l] \subseteq DOMAIN added
  /\ \A v \in Ids, l \in Levels :
       lists[v][l] # <<>> => {v} \cup Elements(lists[v][l]) \subseteq DOMAIN added
  /\ entry # <<>> => \/ entry[1] \in Told
                     \/ \E w \in Workers : pc[w] = "table" /\ node[w] = entry[1]
================================================================================
