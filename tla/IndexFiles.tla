------------------------------ MODULE IndexFiles ------------------------------
(****************************************************************************)
(* Start-up and the two files it leaves.  A process that finds no index     *)
(* file builds the primary graph, waits three seconds, and writes the graph *)
(* and then the words; one that finds it reads both.  Of the graph only     *)
(* the table of vertices and the entry point are kept, and of a vertex only *)
(* its id: insertions, of the workers or by replication, store vertices     *)
(* until well after the last job is sent, in any order.  (That two of them  *)
(* make the table is left to module Hnsw.)  A crash ends the process, not   *)
(* what it has written.                                                     *)
(****************************************************************************)
EXTENDS Integers, Sequences

CONSTANTS
  N,   \* how many words the vectors file has
  Size \* the length the first insertion gives the table: 100000

ASSUME NAssumption    == N \in Nat \ {0}
ASSUME SizeAssumption == Size \in Nat /\ Size >= N

Ids == 0 .. (N - 1)

\* The vertex UnmarshalGzip makes when there is nothing left to read; its id
\* says 0, but it has no connections.
Zero == -1

VARIABLES
  \* the files
  indexExists,
  indexFile,     \* hnsw.index: the entry point, the length of the table, ids
  words,                  \* object_to_index.json: "none", "part" or "all"
  \* the process
  pc,
  sent,          \* how many jobs parseVectorsFromFile has sent
  table,         \* len(h.nodes)
  stored,        \* the ids that h.nodes has
  entryPointID,  \* of the graph that was built or read
  bytes,         \* what MarshalGzip has made so far
  slots, cursor, \* the range over h.nodes
  nodes,         \* the table that was read
  \* history
  failed,  \* some call that writes a file has returned an error
  calm,    \* everything was stored when MarshalGzip last began
  settled, \* so was some vertex
  image    \* what MarshalGzip last returned

files == <<indexExists, indexFile, words>>
graph == <<sent, table, stored, entryPointID>>
marshalling == <<bytes, slots, cursor>>
history == <<failed, calm, settled, image>>
vars == <<files, pc, graph, marshalling, nodes, history>>

-------------------------------------------------------------------------------
Init ==
  /\ indexExists = FALSE /\ indexFile = <<>> /\ words = "none"
  /\ pc = "down"
  /\ sent = 0 /\ table = 0 /\ stored = {} /\ entryPointID = 0
  /\ bytes = <<>> /\ slots = 0 /\ cursor = 0
  /\ nodes = <<>>
  /\ failed = FALSE /\ calm = FALSE /\ settled = FALSE /\ image = <<>>

(* Faulty: the words file decides. *)
StartByWords ==
  /\ pc = "down"
  /\ pc' = IF words = "all" THEN "read" ELSE "build"
  /\ UNCHANGED <<files, graph, marshalling, nodes, history>>

Start ==
  /\ pc = "down"
  /\ pc' = IF indexExists THEN "read" ELSE "build"
  /\ UNCHANGED <<files, graph, marshalling, nodes, history>>

Feed ==
  /\ pc = "build"
  /\ sent < N
  /\ sent' = sent + 1
  /\ UNCHANGED <<files, pc, table, stored, entryPointID, marshalling, nodes, history>>

(* Faulty: a vertex becomes the entry point before it is stored. *)
EntryPointUnstored(i) ==
  /\ i < sent
  /\ table # 0
  /\ entryPointID' = i
  /\ UNCHANGED <<files, pc, sent, table, stored, marshalling, nodes, history>>

(* The first insertion into the primary names its vertex as the entry point *)
(* and makes the table; others name a vertex that they have stored.         *)
EntryPoint(i) ==
  /\ i < sent
  /\ table = 0 \/ i \in stored
  /\ entryPointID' = i
  /\ UNCHANGED <<files, pc, sent, table, stored, marshalling, nodes, history>>

MakeTable ==
  /\ entryPointID < sent /\ table = 0
  /\ table' = Size
  /\ UNCHANGED <<files, pc, sent, stored, entryPointID, marshalling, nodes, history>>

(* The first insertion then stores its vertex, under the same lock.  Others *)
(* are stored whatever main does: the worker that took the job, or the      *)
(* goroutine that replicates it, may take as long as it likes.              *)
Store(i) ==
  /\ table # 0
  /\ i < sent
  /\ stored = {} => i = entryPointID
  /\ stored' = stored \cup {i}
  /\ UNCHANGED <<files, pc, sent, table, entryPointID, marshalling, nodes, history>>

(* The sleep is over: it waits for time, not for anybody.  MarshalGzip      *)
(* takes no lock.                                                           *)
WriteEntryPoint ==
  /\ pc = "build"
  /\ sent = N
  /\ bytes' = <<entryPointID>>
  /\ calm' = (stored = Ids) /\ settled' = (stored # {})
  /\ pc' = "length"
  /\ UNCHANGED <<files, graph, slots, cursor, nodes, failed, image>>

WriteLength ==
  /\ pc = "length"
  /\ bytes' = Append(bytes, table)
  /\ pc' = "range"
  /\ UNCHANGED <<files, graph, slots, cursor, nodes, history>>

BeginRange ==
  /\ pc = "range"
  /\ slots' = table /\ cursor' = 0
  /\ pc' = "visit"
  /\ UNCHANGED <<files, graph, bytes, nodes, history>>

(* A slot is read when its turn comes; a nil is skipped. *)
VisitSlot ==
  /\ pc = "visit"
  /\ cursor < slots
  /\ bytes' = IF cursor \in stored THEN Append(bytes, cursor) ELSE bytes
  /\ cursor' = cursor + 1
  /\ UNCHANGED <<files, pc, graph, slots, nodes, history>>

EndRange ==
  /\ pc = "visit"
  /\ cursor = slots
  /\ image' = bytes
  /\ pc' = "create index"
  /\ UNCHANGED <<files, graph, marshalling, nodes, failed, calm, settled>>

(* Errors are logged, and the next file is written as if there were none.   *)
Fails(then) ==
  /\ failed' = TRUE
  /\ pc' = then
  /\ UNCHANGED files

CreateIndex ==
  /\ pc = "create index"
  /\ \/ /\ indexExists' = TRUE /\ indexFile' = <<>>
        /\ pc' = "write index"
        /\ UNCHANGED <<words, failed>>
     \/ Fails("create words")
  /\ UNCHANGED <<graph, marshalling, nodes, calm, settled, image>>

WriteIndex ==
  /\ pc = "write index"
  /\ Len(indexFile) < Len(bytes)
  /\ \/ /\ indexFile' = Append(indexFile, bytes[Len(indexFile) + 1])
        /\ UNCHANGED <<indexExists, words, pc, failed>>
     \/ Fails("create words")
  /\ UNCHANGED <<graph, marshalling, nodes, calm, settled, image>>

(* Faulty: what was not written at once is not written at all. *)
CloseIndexEarly ==
  /\ pc = "write index"
  /\ pc' = "create words"
  /\ UNCHANGED <<files, graph, marshalling, nodes, history>>

CloseIndex ==
  /\ pc = "write index"
  /\ Len(indexFile) = Len(bytes)
  /\ pc' = "create words"
  /\ UNCHANGED <<files, graph, marshalling, nodes, history>>

CreateWords ==
  /\ pc = "create words"
  /\ \/ /\ words' = "part"
        /\ pc' = "write words"
        /\ UNCHANGED <<indexExists, indexFile, failed>>
     \/ Fails("serve built")
  /\ UNCHANGED <<graph, marshalling, nodes, calm, settled, image>>

WriteWords ==
  /\ pc = "write words"
  /\ \/ /\ words' = "all"
        /\ pc' = "serve built"
        /\ UNCHANGED <<indexExists, indexFile, failed>>
     \/ Fails("serve built")
  /\ UNCHANGED <<graph, marshalling, nodes, calm, settled, image>>

-------------------------------------------------------------------------------
(* Faulty: the table is filled from its end. *)
UnmarshalledBackwards(file) ==
  IF Len(file) < 2 THEN <<>>
  ELSE [p \in 0 .. (file[2] - 1) |->
          IF p + 3 <= Len(file) THEN file[Len(file) - p] ELSE Zero]

(* One vertex after the other, as many as the table is long; that there are *)
(* not as many is an error UnmarshalGzip collects and does not return.      *)
Unmarshalled(file) ==
  IF Len(file) < 2 THEN <<>>
  ELSE [p \in 0 .. (file[2] - 1) |->
          IF p + 3 <= Len(file) THEN file[p + 3] ELSE Zero]

(* The process ends, and with it what it has in memory.                     *)
Down ==
  /\ pc' = "down"
  /\ sent' = 0 /\ table' = 0 /\ stored' = {} /\ entryPointID' = 0
  /\ bytes' = <<>> /\ slots' = 0 /\ cursor' = 0
  /\ nodes' = <<>>

(* A words file that is missing or incomplete is fatal. *)
Read ==
  /\ pc = "read"
  /\ IF words = "all"
     THEN /\ nodes' = Unmarshalled(indexFile)
          /\ entryPointID' = IF indexFile = <<>> THEN 0 ELSE indexFile[1]
          /\ pc' = "serve read"
          /\ UNCHANGED <<sent, table, stored, marshalling>>
     ELSE Down
  /\ UNCHANGED <<files, history>>

Crash ==
  /\ pc # "down"
  /\ Down
  /\ UNCHANGED <<files, history>>

Build ==
  \/ Feed \/ MakeTable \/ (\E i \in Ids : EntryPoint(i) \/ Store(i))
  \/ WriteEntryPoint \/ WriteLength \/ BeginRange \/ VisitSlot \/ EndRange
  \/ CreateIndex \/ WriteIndex \/ CloseIndex \/ CreateWords \/ WriteWords

Next == Start \/ Build \/ Read \/ Crash

Spec == Init /\ [][Next]_vars

-------------------------------------------------------------------------------
\* What a file of the index is made of.
Items == Ids \cup {0, Size}

(* The types of the variables. *)
TypeOK ==
  /\ indexExists \in BOOLEAN
  /\ indexFile \in Seq(Items)
  /\ words \in {"none", "part", "all"}
  /\ pc \in {"down", "build", "length", "range", "visit", "create index", "write index",
             "create words", "write words", "serve built", "read", "serve read"}
  /\ sent \in 0 .. N /\ table \in {0, Size} /\ stored \subseteq 0 .. (sent - 1)
  /\ entryPointID \in Ids
  /\ bytes \in Seq(Items)
  /\ slots \in {0, Size} /\ cursor \in 0 .. slots
  /\ nodes = <<>> \/ \E len \in {0, Size} :
                       nodes \in [0 .. (len - 1) -> Ids \cup {Zero}]
  /\ failed \in BOOLEAN /\ calm \in BOOLEAN /\ settled \in BOOLEAN
  /\ image \in Seq(Items)

There == {p \in DOMAIN nodes : nodes[p] # Zero}

(* However late the vertices were stored and wherever writing broke off, the *)
(* vertices that are read are in order and without repetition from position  *)
(* 0 on, none of them above its id.                                          *)
OrderKept ==
  /\ \A q \in There : \A p \in 0 .. (q - 1) : p \in There /\ nodes[p] < nodes[q]
  /\ \A p \in There : nodes[p] >= p

(* The words file comes last, so that it vouches for the index: whatever     *)
(* crashes there were, unless a write was answered with an error no process  *)
(* serves a part of an index.                                                *)
CompleteUnlessFailed ==
  (pc = "serve read" /\ ~failed) => nodes = Unmarshalled(image)

(* If moreover the sleep was long enough, every vertex is back in its place, *)
(* and if any vertex was stored by then, so is the entry point in its: it is *)
(* written first, and was stored before it was named.                        *)
RoundTrip ==
  (pc = "serve read" /\ ~failed) =>
    /\ calm => nodes = [p \in 0 .. (Size - 1) |-> IF p \in Ids THEN p ELSE Zero]
    /\ settled => \E p \in There : nodes[p] = entryPointID

(* An index file is only ever completed, by the process that created it: no   *)
(* start, whatever it finds, leads to one that is written anew.              *)
NeverRewritten ==
  [][indexExists => /\ indexExists'
                    /\ \/ indexFile' = indexFile
                       \/ \E x \in Items : indexFile' = Append(indexFile, x)]_vars

(* hnsw_marshalling.go:24 says of the nils that are skipped: "in case we     *)
(* grew further than what we actually need".  Then no vertex would change    *)
(* its position.                                                             *)
PositionsKept == \A p \in There : nodes[p] = p
================================================================================
