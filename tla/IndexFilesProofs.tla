---------------------------- MODULE IndexFilesProofs ----------------------------
(* Proofs about IndexFiles, for any number of vertices and length of the      *)
(* table, and any number of crashes, failing writes and restarts.             *)
EXTENDS IndexFiles, TLAPS

USE NAssumption, SizeAssumption DEF Ids, Zero

Building == {"build", "length", "range", "visit", "create index"}

(* What MarshalGzip writes, and so every prefix of it: an id, a length, then   *)
(* ids in order, none of them below its place.                                *)
Ordered(file) ==
  /\ \A j \in 1 .. Len(file) : /\ j = 1 => file[j] \in Ids
                               /\ j = 2 => file[j] \in {0, Size}
  /\ \A j \in 3 .. Len(file) : file[j] \in Ids /\ file[j] >= j - 3
  /\ \A i, j \in 3 .. Len(file) : i < j => file[i] < file[j]

BytesOrdered ==
  /\ Ordered(bytes)
  /\ pc = "length" => Len(bytes) = 1
  /\ pc = "range" => Len(bytes) = 2
  /\ pc = "visit" => /\ Len(bytes) >= 2 /\ cursor >= Len(bytes) - 2
                     /\ \A j \in 3 .. Len(bytes) : bytes[j] < cursor

(* The index is written from what MarshalGzip returned ...                    *)
Prefix ==
  /\ pc \in {"create index", "write index"} => bytes = image
  /\ pc = "write index" => /\ Len(indexFile) <= Len(bytes)
                           /\ \A j \in 1 .. Len(indexFile) : indexFile[j] = bytes[j]

(* ... where none was, and is complete before the words file is begun.        *)
Vouched ==
  /\ pc \in Building => ~indexExists
  /\ pc = "write index" => indexExists
  /\ ~failed =>
       /\ (~indexExists \/ pc = "write index") => words = "none"
       /\ (words # "none" \/ pc \in {"create words", "write words"}) =>
            indexExists /\ indexFile = image

NodesRead ==
  IF pc = "serve read"
  THEN /\ nodes = Unmarshalled(indexFile) /\ words = "all"
       /\ indexFile # <<>> => entryPointID = indexFile[1]
  ELSE nodes = <<>>

(* A process that builds nothing has sent no job.                             *)
Idle == pc \in {"down", "read", "serve read"} => sent = 0

IInv == TypeOK /\ BytesOrdered /\ Ordered(indexFile) /\ Prefix /\ Vouched /\ NodesRead /\ Idle

-------------------------------------------------------------------------------
(* The empty sequence is ordered.                                             *)
LEMMA Empty ==
  ASSUME NEW s, s = <<>>
  PROVE  s \in Seq(Items) /\ Len(s) = 0 /\ Ordered(s)
<1>1. <<>> \in Seq(Items) /\ Len(<<>>) = 0
  OBVIOUS
<1> QED
  BY <1>1 DEF Ordered

(* The default of entryPointID is an id. *)
LEMMA FirstId == 0 \in Ids
OBVIOUS

(* Appending an item to a sequence adds it behind the others.                 *)
LEMMA Appended ==
  ASSUME NEW s \in Seq(Items), NEW x \in Items
  PROVE  /\ Append(s, x) \in Seq(Items)
         /\ Len(Append(s, x)) = Len(s) + 1 /\ Len(s) \in Nat
         /\ \A j \in 1 .. Len(s) : Append(s, x)[j] = s[j]
         /\ Append(s, x)[Len(s) + 1] = x
OBVIOUS

(* A prefix grows to a prefix.                                                *)
LEMMA Extended ==
  ASSUME NEW s \in Seq(Items), NEW t \in Seq(Items), Len(s) < Len(t),
         \A j \in 1 .. Len(s) : s[j] = t[j]
  PROVE  LET u == Append(s, t[Len(s) + 1])
         IN  /\ u \in Seq(Items) /\ Len(u) <= Len(t)
             /\ \A j \in 1 .. Len(u) : u[j] = t[j]
<1> DEFINE n == Len(s) + 1
           u == Append(s, t[n])
<1>1. n \in 1 .. Len(t) /\ Len(s) \in Nat /\ Len(t) \in Nat
  OBVIOUS
<1>2. t[n] \in Items
  BY <1>1
<1>3. /\ u \in Seq(Items) /\ Len(u) = n /\ u[n] = t[n]
      /\ \A j \in 1 .. Len(s) : u[j] = s[j]
  BY <1>2, Appended
<1> QED
  BY <1>1, <1>3

(* A prefix of what is ordered is ordered.                                    *)
LEMMA PrefixOrdered ==
  ASSUME NEW s \in Seq(Items), NEW t \in Seq(Items), Len(s) <= Len(t),
         \A j \in 1 .. Len(s) : s[j] = t[j], Ordered(t)
  PROVE  Ordered(s)
<1>1. Len(s) \in Nat /\ Len(t) \in Nat
  OBVIOUS
<1>2. \A j \in 1 .. Len(s) : j \in 1 .. Len(t) /\ (j \in 3 .. Len(s) => j \in 3 .. Len(t))
  BY <1>1
<1>3. \A j \in 3 .. Len(s) : j \in 1 .. Len(s) /\ j \in 3 .. Len(t) /\ s[j] = t[j]
  BY <1>1
<1> QED
  BY <1>1, <1>2, <1>3 DEF Ordered

(* Equally long prefixes are equal.                                           *)
LEMMA Whole ==
  ASSUME NEW s \in Seq(Items), NEW t \in Seq(Items), Len(s) = Len(t),
         \A j \in 1 .. Len(s) : s[j] = t[j]
  PROVE  s = t
OBVIOUS

(* What is unmarshalled is a table of the length that was written.            *)
LEMMA UnmarshalledTable ==
  ASSUME NEW file \in Seq(Items), Ordered(file)
  PROVE  \/ Unmarshalled(file) = <<>>
         \/ \E len \in {0, Size} : Unmarshalled(file) \in [0 .. (len - 1) -> Ids \cup {Zero}]
<1>1. CASE Len(file) < 2
  BY <1>1 DEF Unmarshalled
<1>2. CASE ~(Len(file) < 2)
  <2>1. Len(file) \in Nat /\ Len(file) >= 2
    BY <1>2
  <2>2. file[2] \in {0, Size}
    BY <2>1 DEF Ordered
  <2>3. \A p \in 0 .. (file[2] - 1) :
          (IF p + 3 <= Len(file) THEN file[p + 3] ELSE Zero) \in Ids \cup {Zero}
    BY <2>1, <2>2 DEF Ordered
  <2>4. Unmarshalled(file) \in [0 .. (file[2] - 1) -> Ids \cup {Zero}]
    BY <1>2, <2>3 DEF Unmarshalled
  <2> QED
    BY <2>2, <2>4
<1> QED
  BY <1>1, <1>2

-------------------------------------------------------------------------------
(* The types are those of the graph, of what was read and of the rest.        *)
GraphType ==
  /\ sent \in 0 .. N /\ table \in {0, Size} /\ stored \subseteq 0 .. (sent - 1)
  /\ entryPointID \in Ids

NodesType ==
  nodes = <<>> \/ \E len \in {0, Size} : nodes \in [0 .. (len - 1) -> Ids \cup {Zero}]

RestType ==
  /\ indexExists \in BOOLEAN /\ indexFile \in Seq(Items) /\ words \in {"none", "part", "all"}
  /\ pc \in {"down", "build", "length", "range", "visit", "create index", "write index",
             "create words", "write words", "serve built", "read", "serve read"}
  /\ bytes \in Seq(Items) /\ slots \in {0, Size} /\ cursor \in 0 .. slots
  /\ failed \in BOOLEAN /\ calm \in BOOLEAN /\ settled \in BOOLEAN
  /\ image \in Seq(Items)

LEMMA TypeParts ==
  /\ TypeOK <=> GraphType /\ NodesType /\ RestType
  /\ TypeOK' <=> GraphType' /\ NodesType' /\ RestType'
BY DEF TypeOK, GraphType, NodesType, RestType

LEMMA TypesStay ==
  ASSUME TypeOK
  PROVE  /\ UNCHANGED graph => GraphType'
         /\ UNCHANGED nodes => NodesType'
         /\ UNCHANGED <<files, pc, marshalling, history>> => RestType'
<1> USE TypeParts
<1>1. ASSUME UNCHANGED graph PROVE GraphType'
  BY <1>1 DEF GraphType, graph
<1>2. ASSUME UNCHANGED nodes PROVE NodesType'
  BY <1>2 DEF NodesType
<1>3. ASSUME UNCHANGED <<files, pc, marshalling, history>> PROVE RestType'
  BY <1>3 DEF RestType, files, marshalling, history
<1> QED
  BY <1>1, <1>2, <1>3

(* The invariant says little of the graph but its types.                      *)
LEMMA Elsewhere ==
  ASSUME IInv, TypeOK', Idle', pc = "serve read" => entryPointID' = entryPointID,
         UNCHANGED <<files, pc, bytes, cursor, nodes, failed, image>>
  PROVE  IInv'
BY DEF IInv, BytesOrdered, Ordered, Prefix, Vouched, NodesRead, Unmarshalled, files

LEMMA StartKeeps == ASSUME IInv, Start PROVE IInv'
<1> USE DEF IInv, Start, files, graph, marshalling, history
<1>1. TypeOK'
  BY DEF TypeOK
<1>2. BytesOrdered' /\ Ordered(indexFile)'
  BY DEF BytesOrdered, Ordered
<1>3. Prefix' /\ Vouched' /\ NodesRead' /\ Idle'
  BY DEF Prefix, Vouched, NodesRead, Idle, Building
<1> QED
  BY <1>1, <1>2, <1>3

LEMMA InsertionKeeps ==
  ASSUME IInv, Feed \/ MakeTable \/ \E i \in Ids : EntryPoint(i) \/ Store(i)
  PROVE  IInv'
<1>0. sent \in Int
  <2>1. sent \in 0 .. N
    BY DEF IInv, TypeOK
  <2> QED
    BY <2>1
<1>1. TypeOK'
  <2>0. ASSUME sent' \in 0 .. N, table' \in {0, Size}, stored' \subseteq 0 .. (sent' - 1),
               entryPointID' \in Ids, UNCHANGED <<files, pc, marshalling, nodes, history>>
        PROVE  TypeOK'
    BY <2>0, TypesStay, TypeParts DEF IInv, GraphType
  <2> USE DEF IInv, TypeOK
  <2>1. CASE Feed
    <3>1. sent' \in 0 .. N /\ stored' \subseteq 0 .. (sent' - 1)
      BY <2>1 DEF Feed
    <3> QED
      BY <2>0, <2>1, <3>1 DEF Feed
  <2>2. CASE MakeTable
    BY <2>0, <2>2 DEF MakeTable
  <2>3. ASSUME NEW i \in Ids, Store(i) PROVE TypeOK'
    <3>1. i \in 0 .. (sent - 1)
      <4>1. i < sent
        BY <2>3 DEF Store
      <4> HIDE DEF IInv
      <4>2. sent \in Int
        BY <1>0
      <4> QED
        BY <4>1, <4>2
    <3>2. stored' \subseteq 0 .. (sent - 1)
      BY <2>3, <3>1 DEF Store
    <3> QED
      BY <2>0, <2>3, <3>2 DEF Store
  <2>4. ASSUME NEW i \in Ids, EntryPoint(i) PROVE TypeOK'
    BY <2>0, <2>4 DEF EntryPoint
  <2> QED
    BY <2>1, <2>2, <2>3, <2>4
<1>2. Idle' /\ (pc = "serve read" => entryPointID' = entryPointID)
  <2>0. pc' = pc
    BY DEF Feed, MakeTable, Store, EntryPoint
  <2>1. pc \in {"down", "read", "serve read"} => sent = 0
    BY DEF IInv, Idle
  <2>2. ASSUME sent = 0, NEW i \in Ids PROVE ~(i < sent)
    <3>1. ~(i < 0)
      OBVIOUS
    <3> QED
      BY <2>2, <3>1
  <2>3. Feed => pc = "build"
    BY DEF Feed
  <2>4. MakeTable \/ (\E i \in Ids : Store(i)) => sent' = sent /\ entryPointID' = entryPointID
    BY DEF MakeTable, Store
  <2>5. (\E i \in Ids : EntryPoint(i)) => sent' = sent /\ \E i \in Ids : i < sent
    BY DEF EntryPoint
  <2> QED
    BY <2>0, <2>1, <2>2, <2>3, <2>4, <2>5 DEF Idle
<1> QED
  BY <1>1, <1>2, Elsewhere DEF Feed, MakeTable, Store, EntryPoint, files, marshalling, history

LEMMA WriteEntryPointKeeps == ASSUME IInv, WriteEntryPoint PROVE IInv'
<1> USE DEF IInv, WriteEntryPoint, files, graph
<1>0. bytes' \in Seq(Items) /\ Len(bytes') = 1 /\ bytes'[1] = entryPointID
  BY DEF TypeOK, Items
<1>1. TypeOK'
  BY <1>0 DEF TypeOK
<1>2. BytesOrdered' /\ Ordered(indexFile)'
  BY <1>0 DEF BytesOrdered, Ordered, TypeOK
<1>3. Prefix' /\ Vouched' /\ NodesRead' /\ Idle'
  BY DEF Prefix, Vouched, NodesRead, Idle, Building
<1> QED
  BY <1>1, <1>2, <1>3

LEMMA WriteLengthKeeps == ASSUME IInv, WriteLength PROVE IInv'
<1> USE DEF IInv, WriteLength, files, graph, history
<1>0. /\ bytes' \in Seq(Items) /\ Len(bytes) = 1 /\ Len(bytes') = 2
      /\ bytes'[1] = bytes[1] /\ bytes'[2] = table /\ table \in {0, Size}
  <2>1. bytes \in Seq(Items) /\ table \in {0, Size} /\ Len(bytes) = 1 /\ bytes' = Append(bytes, table)
    BY DEF TypeOK, BytesOrdered
  <2> HIDE DEF IInv, WriteLength
  <2>2. table \in Items
    BY <2>1 DEF Items
  <2>3. /\ Append(bytes, table) \in Seq(Items)
        /\ Len(Append(bytes, table)) = 2
        /\ Append(bytes, table)[2] = table
    <3>1. /\ Append(bytes, table) \in Seq(Items)
          /\ Len(Append(bytes, table)) = Len(bytes) + 1
          /\ Append(bytes, table)[Len(bytes) + 1] = table
      BY <2>1, <2>2, Appended
    <3>2. Len(bytes) + 1 = 2
      BY <2>1
    <3> QED
      BY <3>1, <3>2
  <2>4. Append(bytes, table)[1] = bytes[1]
    BY <2>1, <2>2
  <2> QED
    BY <2>1, <2>3, <2>4
<1>1. TypeOK'
  BY <1>0 DEF TypeOK
<1>2. BytesOrdered' /\ Ordered(indexFile)'
  BY <1>0 DEF BytesOrdered, Ordered
<1>3. Prefix' /\ Vouched' /\ NodesRead' /\ Idle'
  BY DEF Prefix, Vouched, NodesRead, Idle, Building
<1> QED
  BY <1>1, <1>2, <1>3

LEMMA BeginRangeKeeps == ASSUME IInv, BeginRange PROVE IInv'
<1> USE DEF IInv, BeginRange, files, graph, history
<1>1. TypeOK'
  BY DEF TypeOK
<1>2. BytesOrdered' /\ Ordered(indexFile)'
  <2>1. Len(bytes) = 2 /\ cursor' = 0 /\ bytes' = bytes /\ indexFile' = indexFile
    BY DEF BytesOrdered
  <2> QED
    BY <2>1 DEF BytesOrdered, Ordered
<1>3. Prefix' /\ Vouched' /\ NodesRead' /\ Idle'
  BY DEF Prefix, Vouched, NodesRead, Idle, Building
<1> QED
  BY <1>1, <1>2, <1>3

LEMMA VisitSlotKeeps == ASSUME IInv, VisitSlot PROVE IInv'
<1> USE DEF IInv, VisitSlot, files, graph, history
<1>0. bytes \in Seq(Items) /\ cursor \in Nat /\ (cursor \in stored => cursor \in Ids)
  BY DEF TypeOK
<1>1. TypeOK'
  BY <1>0, Appended DEF TypeOK, Items
<1>2. BytesOrdered'
  <2>1. CASE cursor \in stored
    <3> DEFINE n == Len(bytes) + 1
    <3>1. /\ Len(bytes') = n /\ Len(bytes) \in Nat
          /\ \A j \in 1 .. Len(bytes) : bytes'[j] = bytes[j]
          /\ bytes'[n] = cursor
      BY <1>0, <2>1, Appended DEF Items
    <3>2. n >= 3 /\ cursor >= n - 3 /\ \A j \in 3 .. Len(bytes) : bytes[j] < cursor
      BY <3>1 DEF BytesOrdered
    <3> QED
      BY <1>0, <2>1, <3>1, <3>2 DEF BytesOrdered, Ordered
  <2>2. CASE cursor \notin stored
    BY <1>0, <2>2 DEF BytesOrdered, Ordered
  <2> QED
    BY <2>1, <2>2
<1>3. Ordered(indexFile)' /\ Prefix' /\ Vouched' /\ NodesRead' /\ Idle'
  BY DEF Ordered, Prefix, Vouched, NodesRead, Idle, Building
<1> QED
  BY <1>1, <1>2, <1>3

LEMMA EndRangeKeeps == ASSUME IInv, EndRange PROVE IInv'
<1> USE DEF IInv, EndRange, files, graph, marshalling
<1>1. TypeOK'
  BY DEF TypeOK
<1>2. BytesOrdered' /\ Ordered(indexFile)'
  BY DEF BytesOrdered, Ordered
<1>3. Prefix' /\ Vouched' /\ NodesRead' /\ Idle'
  BY DEF Prefix, Vouched, NodesRead, Idle, Building
<1> QED
  BY <1>1, <1>2, <1>3

LEMMA CreateIndexKeeps == ASSUME IInv, CreateIndex PROVE IInv'
<1>1. CASE Fails("create words")
  <2> USE DEF IInv, CreateIndex, Fails, files, graph, marshalling
  <2>1. TypeOK'
    BY <1>1 DEF TypeOK
  <2>2. BytesOrdered' /\ Ordered(indexFile)'
    BY <1>1 DEF BytesOrdered, Ordered
  <2>3. Prefix' /\ Vouched' /\ NodesRead' /\ Idle'
    BY <1>1 DEF Prefix, Vouched, NodesRead, Idle, Building
  <2> QED
    BY <2>1, <2>2, <2>3
<1>2. CASE indexExists' = TRUE /\ indexFile' = <<>> /\ ~Fails("create words")
  <2>1. indexFile' \in Seq(Items) /\ Len(indexFile') = 0 /\ Ordered(indexFile')
    BY <1>2, Empty
  <2>2. /\ pc = "create index" /\ pc' = "write index"
        /\ words' = words /\ failed' = failed
        /\ sent' = sent /\ table' = table /\ stored' = stored /\ bytes' = bytes
        /\ slots' = slots /\ cursor' = cursor /\ nodes' = nodes /\ calm' = calm
        /\ settled' = settled /\ entryPointID' = entryPointID
        /\ image' = image
    BY <1>2 DEF CreateIndex, Fails, files, graph, marshalling
  <2>3. TypeOK'
    BY <1>2, <2>1, <2>2 DEF IInv, TypeOK
  <2>4. BytesOrdered' /\ Ordered(indexFile)'
    BY <2>1, <2>2 DEF IInv, BytesOrdered, Ordered
  <2>5. Len(bytes) \in Nat
    <3>1. bytes \in Seq(Items)
      BY DEF IInv, TypeOK
    <3> QED
      BY <3>1
  <2>6. Prefix'
    <3>1. bytes' = image'
      BY <2>2 DEF IInv, Prefix
    <3>2. Len(bytes') = Len(bytes)
      BY <2>2
    <3>3. Len(indexFile') <= Len(bytes')
      BY <2>1, <2>5, <3>2
    <3>4. \A j \in 1 .. Len(indexFile') : indexFile'[j] = bytes'[j]
      BY <2>1
    <3> QED
      BY <3>1, <3>3, <3>4 DEF Prefix
  <2>7. Vouched' /\ NodesRead' /\ Idle'
    BY <1>2, <2>1, <2>2 DEF IInv, Vouched, NodesRead, Idle, Building
  <2> QED
    BY <2>1, <2>3, <2>4, <2>6, <2>7 DEF IInv
<1> QED
  BY <1>1, <1>2 DEF CreateIndex

LEMMA WriteIndexKeeps == ASSUME IInv, WriteIndex PROVE IInv'
<1>1. CASE Fails("create words")
  <2> USE DEF IInv, WriteIndex, Fails, files, graph, marshalling
  <2>1. TypeOK'
    BY <1>1 DEF TypeOK
  <2>2. BytesOrdered' /\ Ordered(indexFile)'
    BY <1>1 DEF BytesOrdered, Ordered
  <2>3. Prefix' /\ Vouched' /\ NodesRead' /\ Idle'
    BY <1>1 DEF Prefix, Vouched, NodesRead, Idle, Building
  <2> QED
    BY <2>1, <2>2, <2>3
<1>2. CASE indexFile' = Append(indexFile, bytes[Len(indexFile) + 1]) /\ ~Fails("create words")
  <2>0. /\ indexFile \in Seq(Items) /\ bytes \in Seq(Items)
        /\ Len(indexFile) < Len(bytes)
        /\ \A j \in 1 .. Len(indexFile) : indexFile[j] = bytes[j]
        /\ Ordered(bytes)
    BY DEF IInv, TypeOK, Prefix, BytesOrdered, WriteIndex
  <2>1. /\ indexFile' \in Seq(Items) /\ Len(indexFile') <= Len(bytes)
        /\ \A j \in 1 .. Len(indexFile') : indexFile'[j] = bytes[j]
    BY <1>2, <2>0, Extended
  <2>2. Ordered(indexFile')
    BY <2>0, <2>1, PrefixOrdered
  <2>3. /\ pc = "write index"
        /\ indexExists' = indexExists /\ words' = words /\ pc' = pc /\ failed' = failed
        /\ sent' = sent /\ table' = table /\ stored' = stored /\ bytes' = bytes
        /\ slots' = slots /\ cursor' = cursor /\ nodes' = nodes /\ calm' = calm
        /\ settled' = settled /\ entryPointID' = entryPointID
        /\ image' = image
    BY <1>2 DEF WriteIndex, Fails, files, graph, marshalling
  <2>4. TypeOK'
    BY <2>1, <2>3 DEF IInv, TypeOK
  <2>5. BytesOrdered' /\ Ordered(indexFile)'
    BY <2>2, <2>3 DEF IInv, BytesOrdered, Ordered
  <2>6. Prefix' /\ Vouched' /\ NodesRead' /\ Idle'
    BY <2>1, <2>3 DEF IInv, Prefix, Vouched, NodesRead, Idle, Building
  <2> QED
    BY <2>4, <2>5, <2>6 DEF IInv
<1> QED
  BY <1>1, <1>2 DEF WriteIndex

LEMMA CloseIndexKeeps == ASSUME IInv, CloseIndex PROVE IInv'
<1> USE DEF IInv, CloseIndex, files, graph, marshalling, history
<1>0. indexFile = image
  BY Whole DEF Prefix, TypeOK, Items
<1>1. TypeOK'
  BY DEF TypeOK
<1>2. BytesOrdered' /\ Ordered(indexFile)'
  BY DEF BytesOrdered, Ordered
<1>3. Prefix' /\ Vouched' /\ NodesRead' /\ Idle'
  BY <1>0 DEF Prefix, Vouched, NodesRead, Idle, Building
<1> QED
  BY <1>1, <1>2, <1>3

LEMMA WordsKeep == ASSUME IInv, CreateWords \/ WriteWords PROVE IInv'
<1> USE DEF IInv, CreateWords, WriteWords, Fails, files, graph, marshalling
<1>1. TypeOK'
  BY DEF TypeOK
<1>2. BytesOrdered' /\ Ordered(indexFile)'
  BY DEF BytesOrdered, Ordered
<1>3. Prefix' /\ Vouched' /\ NodesRead' /\ Idle'
  BY DEF Prefix, Vouched, NodesRead, Idle, Building
<1> QED
  BY <1>1, <1>2, <1>3

LEMMA DownKeeps == ASSUME IInv, Down, UNCHANGED <<files, history>> PROVE IInv'
<1> USE DEF IInv, Down, files, history
<1>0. bytes' \in Seq(Items) /\ Len(bytes') = 0 /\ Ordered(bytes')
  BY Empty
<1>1. stored' \subseteq 0 .. (sent' - 1)
  OBVIOUS
<1>2. slots' \in {0, Size} /\ cursor' \in 0 .. slots' /\ sent' \in 0 .. N
  OBVIOUS
<1>3. TypeOK'
  BY <1>0, <1>1, <1>2, FirstId DEF TypeOK
<1>4. BytesOrdered' /\ Ordered(indexFile)'
  BY <1>0 DEF BytesOrdered, Ordered
<1>5. Prefix' /\ Vouched' /\ NodesRead' /\ Idle'
  BY DEF Prefix, Vouched, NodesRead, Idle, Building
<1> QED
  BY <1>3, <1>4, <1>5

LEMMA ReadKeeps == ASSUME IInv, Read PROVE IInv'
<1>1. CASE words = "all"
  <2> USE <1>1 DEF IInv, Read, files, graph, marshalling, history
  <2>0. entryPointID' \in Ids
    <3>1. CASE indexFile = <<>>
      BY <3>1, FirstId
    <3>2. CASE indexFile # <<>>
      <4>1. 1 \in 1 .. Len(indexFile)
        <5>1. indexFile \in Seq(Items)
          BY DEF TypeOK
        <5> HIDE DEF IInv, Read
        <5> QED
          BY <3>2, <5>1
      <4>2. indexFile[1] \in Ids
        BY <4>1 DEF Ordered
      <4> QED
        BY <3>2, <4>2
    <3> QED
      BY <3>1, <3>2
  <2>1. TypeOK'
    BY <2>0, UnmarshalledTable DEF TypeOK
  <2>2. BytesOrdered' /\ Ordered(indexFile)'
    BY DEF BytesOrdered, Ordered
  <2>3. Prefix' /\ Vouched'
    BY DEF Prefix, Vouched, Building
  <2>4. NodesRead' /\ Idle'
    BY DEF NodesRead, Idle, Unmarshalled
  <2> QED
    BY <2>1, <2>2, <2>3, <2>4
<1>2. CASE words # "all"
  BY <1>2, DownKeeps DEF Read
<1> QED
  BY <1>1, <1>2

LEMMA Invariance == IInv /\ [Next]_vars => IInv'
<1> SUFFICES ASSUME IInv, [Next]_vars PROVE IInv'
  OBVIOUS
<1>1. CASE Build
  BY <1>1, InsertionKeeps, WriteEntryPointKeeps, WriteLengthKeeps, BeginRangeKeeps, VisitSlotKeeps, EndRangeKeeps,
     CreateIndexKeeps, WriteIndexKeeps, CloseIndexKeeps, WordsKeep DEF Build
<1>2. CASE Crash
  BY <1>2, DownKeeps DEF Crash
<1>3. CASE UNCHANGED vars
  <2>1. TypeOK'
    BY <1>3, TypesStay, TypeParts DEF IInv, vars
  <2>2. Idle' /\ entryPointID' = entryPointID
    BY <1>3 DEF IInv, Idle, vars, graph
  <2> QED
    BY <1>3, <2>1, <2>2, Elsewhere DEF vars, marshalling, history
<1> QED
  BY <1>1, <1>2, <1>3, StartKeeps, ReadKeeps DEF Next

LEMMA Initially == Init => IInv
<1> SUFFICES ASSUME Init PROVE IInv
  OBVIOUS
<1> USE DEF Init
<1>0. /\ bytes \in Seq(Items) /\ Len(bytes) = 0 /\ Ordered(bytes)
      /\ indexFile \in Seq(Items) /\ Len(indexFile) = 0 /\ Ordered(indexFile)
      /\ image \in Seq(Items)
  BY Empty
<1>1. stored \subseteq 0 .. (sent - 1)
  OBVIOUS
<1>2. slots \in {0, Size} /\ cursor \in 0 .. slots /\ sent \in 0 .. N
  OBVIOUS
<1>3. TypeOK
  BY <1>0, <1>1, <1>2, FirstId DEF TypeOK
<1>4. BytesOrdered
  BY <1>0 DEF BytesOrdered
<1>5. Prefix /\ Vouched /\ NodesRead /\ Idle
  BY DEF Prefix, Vouched, NodesRead, Idle, Building
<1> QED
  BY <1>0, <1>3, <1>4, <1>5 DEF IInv

LEMMA Invariant == Spec => []IInv
BY Initially, Invariance, PTL DEF Spec

-------------------------------------------------------------------------------
(* Every reachable state is well typed.                                       *)
THEOREM TypeCorrect == Spec => []TypeOK
<1>1. IInv => TypeOK
  BY DEF IInv
<1> QED
  BY <1>1, Invariant, PTL

(* Unless a write was answered with an error, whoever serves an index from    *)
(* the file serves all that MarshalGzip returned, whatever crashed when.      *)
THEOREM IndexIsComplete == Spec => []CompleteUnlessFailed
<1>1. IInv => CompleteUnlessFailed
  BY DEF IInv, CompleteUnlessFailed, NodesRead, Vouched
<1> QED
  BY <1>1, Invariant, PTL

(* Wherever writing broke off, what is read is in order, without repetition,  *)
(* from position 0 on, and not above its id.                                  *)
THEOREM OrderIsKept == Spec => []OrderKept
<1>1. IInv => OrderKept
  <2> SUFFICES ASSUME IInv PROVE OrderKept
    OBVIOUS
  <2>1. CASE nodes = <<>>
    <3>1. There = {}
      BY <2>1 DEF There
    <3> QED
      BY <3>1 DEF OrderKept
  <2>2. CASE nodes # <<>>
    <3>1. /\ nodes = Unmarshalled(indexFile) /\ indexFile \in Seq(Items) /\ Len(indexFile) >= 2
          /\ Ordered(indexFile)
      <4>1. nodes = Unmarshalled(indexFile) /\ indexFile \in Seq(Items) /\ Ordered(indexFile)
        BY <2>2 DEF IInv, NodesRead, TypeOK
      <4>2. Len(indexFile) \in Nat /\ ~(Len(indexFile) < 2)
        BY <2>2, <4>1 DEF Unmarshalled
      <4> QED
        BY <4>1, <4>2
    <3>2. Len(indexFile) \in Nat
      BY <3>1
    <3>3. indexFile[2] \in {0, Size}
      BY <3>1, <3>2 DEF Ordered
    <3>4. \A p \in There : /\ p \in 0 .. (indexFile[2] - 1) /\ p + 3 \in 3 .. Len(indexFile)
                           /\ nodes[p] = indexFile[p + 3]
      BY <3>1, <3>2, <3>3 DEF There, Unmarshalled
    <3>5. \A p \in There : nodes[p] >= p
      BY <3>1, <3>4 DEF Ordered
    <3>6. ASSUME NEW q \in There, NEW p \in 0 .. (q - 1)
          PROVE  p \in There /\ nodes[p] < nodes[q]
      <4>1. /\ p \in 0 .. (indexFile[2] - 1) /\ p + 3 \in 3 .. Len(indexFile) /\ p + 3 < q + 3
        BY <3>2, <3>3, <3>4
      <4>2. indexFile[p + 3] \in Ids
        BY <3>1, <4>1 DEF Ordered
      <4>3. nodes[p] = indexFile[p + 3] /\ p \in DOMAIN nodes
        BY <3>1, <4>1 DEF Unmarshalled
      <4>4. nodes[p] < nodes[q]
        BY <3>1, <3>4, <4>1, <4>3 DEF Ordered
      <4> QED
        BY <4>2, <4>3, <4>4 DEF There
    <3> QED
      BY <3>5, <3>6 DEF OrderKept
  <2> QED
    BY <2>1, <2>2
<1> QED
  BY <1>1, Invariant, PTL

(* No crash and no restart makes a process write an index file anew.          *)
THEOREM NothingIsRewritten == Spec => NeverRewritten
<1> DEFINE Completed == /\ indexExists'
                        /\ \/ indexFile' = indexFile
                           \/ \E x \in Items : indexFile' = Append(indexFile, x)
<1>1. IInv /\ [Next]_vars => [indexExists => Completed]_vars
  <2> SUFFICES ASSUME IInv, [Next]_vars, indexExists PROVE Completed
    OBVIOUS
  <2> USE DEF files, history
  <2>1. CASE UNCHANGED files
    BY <2>1
  <2>2. CASE WriteIndex
    <3>1. bytes \in Seq(Items) /\ indexFile \in Seq(Items)
      BY DEF IInv, TypeOK
    <3>2. Len(indexFile) < Len(bytes) /\ indexExists' = indexExists
      BY <2>2 DEF WriteIndex, Fails
    <3>3. bytes[Len(indexFile) + 1] \in Items
      <4>1. Len(indexFile) + 1 \in 1 .. Len(bytes)
        BY <3>1, <3>2
      <4> QED
        BY <3>1, <4>1
    <3>4. indexFile' = indexFile \/ indexFile' = Append(indexFile, bytes[Len(indexFile) + 1])
      BY <2>2 DEF WriteIndex, Fails
    <3> QED
      BY <3>2, <3>3, <3>4
  <2>3. CASE CreateIndex
    BY <2>3 DEF CreateIndex, IInv, Vouched, Building
  <2>4. CASE CreateWords \/ WriteWords
    BY <2>4 DEF CreateWords, WriteWords, Fails
  <2>5. CASE Build /\ ~WriteIndex /\ ~CreateIndex /\ ~CreateWords /\ ~WriteWords
    BY <2>1, <2>5 DEF Build, Feed, MakeTable, EntryPoint, Store, WriteEntryPoint, WriteLength,
                      BeginRange, VisitSlot, EndRange,
                      CloseIndex
  <2>6. CASE Start \/ Read \/ Crash
    BY <2>1, <2>6 DEF Start, Read, Crash
  <2>7. CASE UNCHANGED vars
    BY <2>1, <2>7 DEF vars
  <2> QED
    BY <2>2, <2>3, <2>4, <2>5, <2>6, <2>7 DEF Next, Build
<1> QED
  BY <1>1, Invariant, PTL DEF Spec, NeverRewritten

-------------------------------------------------------------------------------
(* The entry point is stored as soon as any vertex is.                        *)
Grown ==
  /\ table = 0 => stored = {}
  /\ stored # {} => entryPointID \in stored
  /\ calm => settled

(* What MarshalGzip will have found at its end, as far as it has come.        *)
Recorded ==
  /\ pc \in {"length", "range", "visit"} =>
       /\ settled => stored # {} /\ bytes[1] \in stored
       /\ calm => stored = Ids
  /\ (pc \in {"range", "visit"} /\ settled) => bytes[2] = Size
  /\ (pc = "visit" /\ settled) =>
       /\ slots = Size
       /\ bytes[1] < cursor => \E j \in 3 .. Len(bytes) : bytes[j] = bytes[1]
  /\ (pc = "visit" /\ calm) =>
       /\ \A j \in 3 .. Len(bytes) : bytes[j] = j - 3
       /\ Len(bytes) = (IF cursor <= N THEN cursor ELSE N) + 2

(* What it returns then.                                                      *)
Faithful(file) ==
  /\ settled => /\ Len(file) >= 2 /\ file[2] = Size
                /\ \E j \in 3 .. Len(file) : file[j] = file[1]
  /\ calm => /\ Len(file) = N + 2
             /\ \A j \in 3 .. Len(file) : file[j] = j - 3

Kept ==
  /\ pc \in {"create index", "write index"} => Faithful(image)
  /\ (~failed /\ (words # "none" \/ pc \in {"create words", "write words"})) => Faithful(image)

RInv == Grown /\ Recorded /\ Kept

(* Appending to the entry point leaves it in its place. *)
LEMMA Second ==
  ASSUME NEW s \in Seq(Items), Len(s) = 1, NEW x \in Items
  PROVE  Append(s, x)[1] = s[1] /\ Append(s, x)[2] = x
<1>1. 1 \in 1 .. Len(s)
  OBVIOUS
<1>2. Len(s) + 1 = 2
  OBVIOUS
<1>3. Append(s, x)[2] = x
  <2>1. Append(s, x)[Len(s) + 1] = x
    BY Appended
  <2> QED
    BY <1>2, <2>1, Zenon
<1> QED
  BY <1>1, <1>3, Appended

(* What is stored are ids. *)
LEMMA StoredIds == ASSUME IInv PROVE stored \subseteq Ids
<1>1. stored \subseteq 0 .. (sent - 1) /\ sent \in 0 .. N
  BY DEF IInv, TypeOK
<1> QED
  BY <1>1

LEMMA InsertionRounds ==
  ASSUME IInv, RInv, Feed \/ MakeTable \/ \E i \in Ids : EntryPoint(i) \/ Store(i)
  PROVE  RInv'
<1>1. /\ UNCHANGED <<pc, words, failed, image, bytes, slots, cursor, calm, settled>>
      /\ stored \subseteq stored' /\ (stored = Ids => stored' = Ids)
  BY DEF Feed, MakeTable, EntryPoint, Store, files, marshalling, history
<1>2. Grown'
  <2>1. CASE Feed \/ MakeTable
    BY <1>1, <2>1 DEF RInv, Grown, Feed, MakeTable
  <2>2. ASSUME NEW i \in Ids, EntryPoint(i) PROVE Grown'
    BY <1>1, <2>2 DEF RInv, Grown, EntryPoint
  <2>3. ASSUME NEW i \in Ids, Store(i) PROVE Grown'
    BY <1>1, <2>3 DEF RInv, Grown, Store
  <2> QED
    BY <2>1, <2>2, <2>3
<1>3. Recorded' /\ Kept'
  BY <1>1 DEF RInv, Recorded, Kept, Faithful
<1> QED
  BY <1>2, <1>3 DEF RInv

LEMMA HeaderRounds ==
  ASSUME IInv, RInv, WriteEntryPoint \/ WriteLength \/ BeginRange PROVE RInv'
<1>1. CASE WriteEntryPoint
  <2>1. /\ bytes' = <<entryPointID>> /\ calm' = (stored = Ids) /\ settled' = (stored # {})
        /\ pc = "build" /\ pc' = "length"
        /\ UNCHANGED <<words, table, stored, entryPointID, failed, image>>
    BY <1>1 DEF WriteEntryPoint, files, graph
  <2>2. Grown'
    BY <2>1, FirstId DEF RInv, Grown
  <2>3. bytes'[1] = entryPointID
    BY <2>1
  <2>4. Recorded'
    BY <2>1, <2>3 DEF RInv, Grown, Recorded
  <2>5. ~failed => words = "none"
    BY <2>1 DEF IInv, Vouched, Building
  <2>6. Kept'
    BY <2>1, <2>5 DEF Kept
  <2> QED
    BY <2>2, <2>4, <2>6 DEF RInv
<1>2. CASE WriteLength
  <2>1. /\ bytes \in Seq(Items) /\ Len(bytes) = 1 /\ bytes' = Append(bytes, table)
        /\ table \in {0, Size} /\ pc = "length" /\ pc' = "range"
        /\ UNCHANGED <<words, table, stored, entryPointID, failed, image, calm, settled>>
    BY <1>2 DEF WriteLength, IInv, TypeOK, BytesOrdered, files, graph, history
  <2>2. bytes'[1] = bytes[1] /\ bytes'[2] = table
    <3>1. table \in Items
      BY <2>1 DEF Items
    <3> QED
      BY <2>1, <3>1, Second
  <2>3. settled => table = Size
    BY <2>1 DEF RInv, Grown, Recorded
  <2> QED
    BY <2>1, <2>2, <2>3 DEF RInv, Grown, Recorded, Kept, Faithful
<1>3. CASE BeginRange
  <2>1. /\ Len(bytes) = 2 /\ slots' = table /\ cursor' = 0 /\ pc = "range" /\ pc' = "visit"
        /\ table \in {0, Size}
        /\ UNCHANGED <<bytes, words, table, stored, entryPointID, failed, image, calm, settled>>
    BY <1>3 DEF BeginRange, IInv, TypeOK, BytesOrdered, files, graph, history
  <2>2. settled => table = Size /\ ~(bytes[1] < 0)
    <3>1. \A i \in stored : ~(i < 0)
      BY StoredIds
    <3> QED
      BY <2>1, <3>1 DEF RInv, Grown, Recorded
  <2>3. 0 <= N
    OBVIOUS
  <2>4. 3 .. Len(bytes) = {}
    <3>1. 3 .. 2 = {}
      OBVIOUS
    <3> QED
      BY <2>1, <3>1
  <2> QED
    <3>1. Recorded'
      <4>1. ~calm \/ Len(bytes) = 0 + 2
        BY <2>1
      <4> QED
        BY <2>1, <2>2, <2>3, <2>4, <4>1 DEF RInv, Recorded
    <3> QED
      BY <2>1, <3>1 DEF RInv, Grown, Kept, Faithful
<1> QED
  BY <1>1, <1>2, <1>3

LEMMA VisitRounds == ASSUME IInv, RInv, VisitSlot PROVE RInv'
<1>1. /\ bytes \in Seq(Items) /\ Len(bytes) >= 2 /\ Len(bytes) \in Nat /\ cursor \in Nat
      /\ cursor < slots /\ cursor' = cursor + 1 /\ stored \subseteq Ids
      /\ pc = "visit" /\ pc' = "visit"
      /\ UNCHANGED <<slots, words, table, stored, entryPointID, failed, image, calm, settled>>
  <2>1. bytes \in Seq(Items) /\ cursor \in 0 .. slots /\ slots \in {0, Size}
        /\ stored \subseteq 0 .. (sent - 1) /\ sent \in 0 .. N
    BY DEF IInv, TypeOK
  <2>2. Len(bytes) \in Nat /\ cursor \in Nat /\ stored \subseteq Ids
    BY <2>1
  <2> QED
    BY <2>1, <2>2 DEF VisitSlot, IInv, BytesOrdered, files, graph, history
<1>2. CASE cursor \in stored
  <2>0. cursor \in Ids /\ cursor \in Items /\ bytes' = Append(bytes, cursor)
    BY <1>1, <1>2 DEF VisitSlot, Items
  <2>1. /\ Len(bytes') = Len(bytes) + 1 /\ bytes'[Len(bytes) + 1] = cursor
        /\ \A j \in 1 .. Len(bytes) : bytes'[j] = bytes[j]
    BY <1>1, <2>0, Appended
  <2>2. bytes'[1] = bytes[1] /\ bytes'[2] = bytes[2]
    BY <1>1, <2>1
  <2>3. \A j \in 3 .. Len(bytes) : bytes'[j] = bytes[j]
    BY <1>1, <2>1
  <2>4. ASSUME settled, bytes[1] < cursor'
        PROVE  \E j \in 3 .. Len(bytes') : bytes'[j] = bytes'[1]
    <3>1. bytes[1] \in Ids
      BY <1>1, <2>4 DEF RInv, Recorded
    <3>2. CASE bytes[1] < cursor
      BY <1>1, <2>1, <2>2, <2>3, <2>4, <3>2 DEF RInv, Recorded
    <3>3. CASE bytes[1] = cursor
      BY <1>1, <2>1, <2>2, <3>3
    <3> QED
      BY <1>1, <2>4, <3>1, <3>2, <3>3
  <2>5. ASSUME calm
        PROVE  /\ \A j \in 3 .. Len(bytes') : bytes'[j] = j - 3
               /\ Len(bytes') = (IF cursor' <= N THEN cursor' ELSE N) + 2
    <3>1. Len(bytes) = cursor + 2 /\ \A j \in 3 .. Len(bytes) : bytes[j] = j - 3
      BY <1>1, <2>0, <2>5 DEF RInv, Recorded
    <3> QED
      BY <1>1, <2>0, <2>1, <2>3, <3>1
  <2>6. Recorded'
    BY <1>1, <2>2, <2>4, <2>5 DEF RInv, Recorded
  <2> QED
    BY <1>1, <2>6 DEF RInv, Grown, Kept, Faithful
<1>3. CASE cursor \notin stored
  <2>1. bytes' = bytes
    BY <1>3 DEF VisitSlot
  <2>2. ASSUME settled, bytes[1] < cursor' PROVE bytes[1] < cursor
    <3>1. bytes[1] \in stored /\ bytes[1] \in Ids
      BY <1>1, <2>2 DEF RInv, Recorded
    <3>2. bytes[1] # cursor
      BY <1>3, <3>1
    <3> QED
      BY <1>1, <2>2, <3>1, <3>2
  <2>3. ASSUME calm PROVE Len(bytes) = (IF cursor' <= N THEN cursor' ELSE N) + 2
    <3>1. cursor \notin Ids /\ Len(bytes) = (IF cursor <= N THEN cursor ELSE N) + 2
      BY <1>1, <1>3, <2>3 DEF RInv, Recorded
    <3> QED
      BY <1>1, <3>1
  <2>4. Recorded'
    BY <1>1, <2>1, <2>2, <2>3 DEF RInv, Recorded
  <2> QED
    BY <1>1, <2>4 DEF RInv, Grown, Kept, Faithful
<1> QED
  BY <1>2, <1>3

LEMMA EndRangeRounds == ASSUME IInv, RInv, EndRange PROVE RInv'
<1>1. /\ bytes \in Seq(Items) /\ Len(bytes) >= 2 /\ cursor = slots /\ image' = bytes
      /\ pc = "visit" /\ pc' = "create index"
      /\ UNCHANGED <<words, table, stored, entryPointID, failed, calm, settled>>
  BY DEF EndRange, IInv, TypeOK, BytesOrdered, files, graph
<1>2. stored \subseteq Ids
  BY StoredIds
<1>3. settled => bytes[2] = Size /\ \E j \in 3 .. Len(bytes) : bytes[j] = bytes[1]
  <2> SUFFICES ASSUME settled PROVE bytes[2] = Size /\ \E j \in 3 .. Len(bytes) : bytes[j] = bytes[1]
    OBVIOUS
  <2>1. bytes[1] \in Ids /\ slots = Size /\ bytes[2] = Size
    BY <1>1, <1>2 DEF RInv, Recorded
  <2>2. bytes[1] < Size
    BY <2>1
  <2>3. bytes[1] < cursor
    BY <1>1, <2>1, <2>2
  <2> QED
    BY <1>1, <2>1, <2>3 DEF RInv, Recorded
<1>4. calm => Len(bytes) = N + 2 /\ \A j \in 3 .. Len(bytes) : bytes[j] = j - 3
  <2> SUFFICES ASSUME calm PROVE Len(bytes) = N + 2 /\ \A j \in 3 .. Len(bytes) : bytes[j] = j - 3
    OBVIOUS
  <2>1. cursor = Size
    BY <1>1 DEF RInv, Grown, Recorded
  <2>2. /\ \A j \in 3 .. Len(bytes) : bytes[j] = j - 3
        /\ Len(bytes) = (IF Size <= N THEN Size ELSE N) + 2
    BY <1>1, <2>1 DEF RInv, Recorded
  <2>3. (IF Size <= N THEN Size ELSE N) = N
    OBVIOUS
  <2> QED
    BY <2>2, <2>3
<1>5. ~failed => words = "none"
  BY <1>1 DEF IInv, Vouched, Building
<1>6. Faithful(image)'
  BY <1>1, <1>3, <1>4 DEF Faithful
<1> QED
  BY <1>1, <1>6 DEF RInv, Grown, Recorded, Kept

LEMMA FilesRound ==
  ASSUME IInv, RInv, CreateIndex \/ WriteIndex \/ CloseIndex \/ CreateWords \/ WriteWords
  PROVE  RInv'
<1>1. /\ UNCHANGED <<table, stored, entryPointID, calm, settled, image>>
      /\ pc \in {"create index", "write index", "create words", "write words"}
      /\ pc' \in {"write index", "create words", "write words", "serve built"}
  BY DEF CreateIndex, WriteIndex, CloseIndex, CreateWords, WriteWords, Fails, files, graph, history
<1>2. \/ failed'
      \/ Faithful(image)
  BY DEF CreateIndex, WriteIndex, CloseIndex, CreateWords, WriteWords, Fails, history, RInv, Kept
<1>3. pc' = "write index" => pc \in {"create index", "write index"}
  BY DEF CreateIndex, WriteIndex, CloseIndex, CreateWords, WriteWords, Fails
<1> QED
  BY <1>1, <1>2, <1>3 DEF RInv, Grown, Recorded, Kept, Faithful

LEMMA RoundInvariance == IInv /\ RInv /\ [Next]_vars => RInv'
<1> SUFFICES ASSUME IInv, RInv, [Next]_vars PROVE RInv'
  OBVIOUS
<1>1. CASE Down /\ UNCHANGED <<files, history>>
  BY <1>1 DEF Down, files, history, RInv, Grown, Recorded, Kept, Faithful
<1>2. CASE Start
  BY <1>2 DEF Start, files, graph, history, RInv, Grown, Recorded, Kept, Faithful
<1>3. CASE Read
  <2>1. CASE words = "all"
    <3>1. /\ pc = "read" /\ pc' = "serve read"
          /\ UNCHANGED <<table, stored, words, calm, settled, failed, image>>
      BY <1>3, <2>1 DEF Read, files, history
    <3>2. stored = {}
      <4>1. stored \subseteq 0 .. (sent - 1) /\ sent = 0
        BY <3>1 DEF IInv, TypeOK, Idle
      <4> QED
        BY <4>1
    <3> QED
      BY <3>1, <3>2 DEF RInv, Grown, Recorded, Kept, Faithful
  <2> QED
    BY <1>1, <1>3, <2>1 DEF Read
<1>4. CASE UNCHANGED vars
  BY <1>4 DEF vars, files, graph, marshalling, history, RInv, Grown, Recorded, Kept, Faithful
<1>5. CASE Build
  BY <1>5, InsertionRounds, HeaderRounds, VisitRounds, EndRangeRounds, FilesRound DEF Build
<1> QED
  BY <1>1, <1>2, <1>3, <1>4, <1>5 DEF Next, Crash

(* A sequence that has an item is not empty. *)
LEMMA NotEmpty == ASSUME NEW s \in Seq(Items), Len(s) >= 2 PROVE s # <<>>
<1>1. Len(<<>>) = 0
  OBVIOUS
<1>2. Len(s) # 0
  OBVIOUS
<1> QED
  BY <1>1, <1>2, Zenon

(* The table that such a file is read to: its length ... *)
LEMMA TableLength ==
  ASSUME NEW file \in Seq(Items), Len(file) >= 2, file[2] = Size
  PROVE  Unmarshalled(file) = [p \in 0 .. (Size - 1) |->
                                 IF p + 3 <= Len(file) THEN file[p + 3] ELSE Zero]
<1>1. ~(Len(file) < 2)
  <2>1. Len(file) \in Nat
    OBVIOUS
  <2> QED
    BY <2>1
<1> QED
  BY <1>1 DEF Unmarshalled

(* ... its entry point ... *)
LEMMA EntryPointComesBack ==
  ASSUME NEW file \in Seq(Items), Ordered(file), Faithful(file), settled
  PROVE  \E p \in DOMAIN Unmarshalled(file) :
            Unmarshalled(file)[p] # Zero /\ Unmarshalled(file)[p] = file[1]
<1>1. Len(file) \in Nat /\ Len(file) >= 2 /\ file[2] = Size
  BY DEF Faithful
<1>2. PICK j \in 3 .. Len(file) : file[j] = file[1]
  BY DEF Faithful
<1>3. file[j] \in Ids /\ file[j] >= j - 3
  BY DEF Ordered
<1>4. j \in Int /\ 3 <= j /\ j <= Len(file)
  BY <1>1
<1>5. PICK p \in Int : p = j - 3
  BY <1>4
<1>6. p \in 0 .. (Size - 1) /\ p + 3 = j
  BY <1>3, <1>4, <1>5
<1>7. p \in DOMAIN Unmarshalled(file) /\ Unmarshalled(file)[p] = file[j]
  BY <1>1, <1>4, <1>6, TableLength
<1> QED
  BY <1>2, <1>3, <1>7

(* ... and every vertex. *)
LEMMA VerticesComeBack ==
  ASSUME NEW file \in Seq(Items), Faithful(file), calm, settled
  PROVE  Unmarshalled(file) = [p \in 0 .. (Size - 1) |-> IF p \in Ids THEN p ELSE Zero]
<1>1. Len(file) = N + 2 /\ file[2] = Size /\ \A j \in 3 .. Len(file) : file[j] = j - 3
  BY DEF Faithful
<1>2. ASSUME NEW p \in 0 .. (Size - 1)
      PROVE  (IF p + 3 <= Len(file) THEN file[p + 3] ELSE Zero) = (IF p \in Ids THEN p ELSE Zero)
  <2>1. CASE p \in Ids
    <3>1. p + 3 \in 3 .. Len(file) /\ (p + 3) - 3 = p /\ p + 3 <= Len(file)
      BY <1>1, <2>1
    <3> QED
      BY <1>1, <2>1, <3>1
  <2>2. CASE p \notin Ids
    <3>1. ~(p + 3 <= Len(file))
      BY <1>1, <2>2
    <3> QED
      BY <2>2, <3>1
  <2> QED
    BY <2>1, <2>2
<1>3. Len(file) >= 2
  BY <1>1
<1> QED
  BY <1>1, <1>2, <1>3, TableLength

(* Unless a write was answered with an error: if every vertex was stored when *)
(* the index was marshalled, each comes back in its place, and if any was, so *)
(* does the entry point.                                                      *)
THEOREM GraphComesBack == Spec => []RoundTrip
<1>1. Init => RInv
  BY DEF Init, RInv, Grown, Recorded, Kept
<1>2. IInv /\ RInv => RoundTrip
  <2> SUFFICES ASSUME IInv, RInv, pc = "serve read", ~failed
               PROVE  /\ calm => nodes = [p \in 0 .. (Size - 1) |-> IF p \in Ids THEN p ELSE Zero]
                      /\ settled => \E p \in There : nodes[p] = entryPointID
    BY DEF RoundTrip
  <2>1. /\ nodes = Unmarshalled(indexFile) /\ indexFile \in Seq(Items) /\ Ordered(indexFile)
        /\ Faithful(indexFile) /\ (calm => settled)
        /\ indexFile # <<>> => entryPointID = indexFile[1]
    BY DEF IInv, TypeOK, NodesRead, Vouched, RInv, Kept, Grown
  <2>2. ASSUME settled PROVE \E p \in There : nodes[p] = entryPointID
    <3>1. indexFile # <<>>
      <4>1. Len(indexFile) >= 2
        BY <2>1, <2>2 DEF Faithful
      <4> QED
        BY <2>1, <4>1, NotEmpty
    <3> QED
      BY <2>1, <2>2, <3>1, EntryPointComesBack DEF There
  <2> QED
    BY <2>1, <2>2, VerticesComeBack
<1> QED
  BY <1>1, <1>2, RoundInvariance, Invariant, PTL DEF Spec
================================================================================
