-------------------------------- MODULE Vectors --------------------------------
(****************************************************************************)
(* The way of a vector: a worker stores the one of its job in bolt, and     *)
(* whoever computes a distance reads it back through the cache of module    *)
(* VectorCache.  Neither a vector that could not be stored nor one that is  *)
(* not there stops anybody at once: the former is only logged, the latter   *)
(* is read as the empty vector, which is cached like any other.             *)
(*                                                                          *)
(* Of one graph, only that matters here which ids its searches can come     *)
(* upon: for these and its own vertex an insertion asks distances.  Calls   *)
(* of insertFromExternal are left out, as in module Hnsw.                   *)
(****************************************************************************)
EXTENDS VectorCache, Sequences

VARIABLES
  db,      \* db[i]: the bytes in bolt: "none", an earlier run's "old", or "new"
  vector,  \* vector[i]: the vector cached for i
  read,    \* <<v>>: the call of get has read v from disk
  \* the workers; one that waits for a job in vain may serve a request
  waiting, \* the jobs not yet handed out
  at,      \* where the caller is: between two jobs, or in which part of one
  job,     \* its vertex, as {i}
  pair,    \* the ids of the distance it computes: a, b
  got,     \* the vectors of the first of them
  near,    \* whether it has computed a distance of its vertex
  found,   \* the ids a search can come upon
  panicked,
  \* history
  failed,  \* the ids whose vector could not be stored
  firsts,  \* how often a worker has made the table of vertices
  early    \* a request asked for a vertex whose vector was not yet stored

disk    == <<db, vector, read>>
flow == <<waiting, at, job, pair, got, near, found, failed, firsts, early>>

-------------------------------------------------------------------------------
VectorsInit ==
  /\ Init
  /\ db \in [Keys -> {"none", "old"}]
  /\ vector = [i \in Keys |-> "empty"]
  /\ read = [c \in Callers |-> <<>>]
  /\ waiting = Keys
  /\ at = [c \in Callers |-> "idle"]
  /\ job = [c \in Callers |-> {}]
  /\ pair = [c \in Callers |-> <<>>]
  /\ got = [c \in Callers |-> <<>>]
  /\ near = [c \in Callers |-> FALSE]
  /\ found = {} /\ failed = {} /\ firsts = 0
  /\ early = FALSE /\ panicked = FALSE

(* hnswWorker: the next job.  (Which id comes next makes no difference.)    *)
Take(c, i) ==
  /\ at[c] = "idle"
  /\ i \in waiting
  /\ waiting' = waiting \ {i}
  /\ job' = [job EXCEPT ![c] = {i}]
  /\ at' = [at EXCEPT ![c] = "store"]
  /\ UNCHANGED <<vars, disk, pair, got, near, found, panicked, failed, firsts, early>>

(* Faulty: the worker does not wait for its vector to be stored. *)
StoreToBoltUnawaited(c, i) ==
  /\ job[c] = {i}
  /\ \/ /\ at[c] = "store"
        /\ at' = [at EXCEPT ![c] = "total"]
        /\ UNCHANGED db
     \/ /\ at[c] \in {"total", "first", "insert"}
        /\ db' = [db EXCEPT ![i] = "new"]
        /\ UNCHANGED at
  /\ UNCHANGED <<vars, vector, read, waiting, job, pair, got, near, found,
                 panicked, failed, firsts, early>>

(* storeToBolt: the transaction succeeds or not; an error is only logged.   *)
StoreToBolt(c, i) ==
  /\ at[c] = "store"
  /\ job[c] = {i}
  /\ \/ db' = [db EXCEPT ![i] = "new"] /\ UNCHANGED failed
     \/ failed' = failed \cup {i} /\ UNCHANGED db
  /\ at' = [at EXCEPT ![c] = "total"]
  /\ UNCHANGED <<vars, vector, read, waiting, job, pair, got, near, found,
                 panicked, firsts, early>>

(* insert: whether the graph is empty. *)
ReadTotal(c) ==
  /\ at[c] = "total"
  /\ at' = [at EXCEPT ![c] = IF found = {} THEN "first" ELSE "insert"]
  /\ UNCHANGED <<vars, disk, waiting, job, pair, got, near, found, panicked,
                 failed, firsts, early>>

(* The first vertex is compared with nothing. *)
InsertFirst(c) ==
  /\ at[c] = "first"
  /\ found' = job[c]
  /\ firsts' = firsts + 1
  /\ job' = [job EXCEPT ![c] = {}]
  /\ at' = [at EXCEPT ![c] = "idle"]
  /\ UNCHANGED <<vars, disk, waiting, pair, got, near, panicked, failed, early>>

(* distBetweenNodes: first of the vertex and the entry point, then of what  *)
(* the searches and the pruning come upon and the vertex.                   *)
Compare(c, i, x) ==
  /\ at[c] = "insert"
  /\ pair[c] = <<>>
  /\ job[c] = {i}
  /\ x \in found
  /\ pair' = [pair EXCEPT ![c] = IF near[c] THEN <<x, i>> ELSE <<i, x>>]
  /\ UNCHANGED <<vars, disk, waiting, at, job, got, near, found, panicked,
                 failed, firsts, early>>

(* Faulty: the vertex can be found before anything is compared with it. *)
LinkUnseen(c) ==
  /\ at[c] = "insert"
  /\ pair[c] = <<>>
  /\ found' = found \cup job[c]
  /\ UNCHANGED <<vars, disk, waiting, at, job, pair, got, near, panicked,
                 failed, firsts, early>>

(* The vertex is linked to others, which the distances have selected.       *)
Link(c) ==
  /\ at[c] = "insert"
  /\ pair[c] = <<>>
  /\ near[c]
  /\ found' = found \cup job[c]
  /\ UNCHANGED <<vars, disk, waiting, at, job, pair, got, near, panicked,
                 failed, firsts, early>>

Finish(c) ==
  /\ at[c] = "insert"
  /\ pair[c] = <<>>
  /\ near[c] /\ job[c] \subseteq found
  /\ job' = [job EXCEPT ![c] = {}]
  /\ near' = [near EXCEPT ![c] = FALSE]
  /\ at' = [at EXCEPT ![c] = "idle"]
  /\ UNCHANGED <<vars, disk, waiting, pair, got, found, panicked, failed, firsts,
                 early>>

(* Whether storeToBolt is over for i. *)
Stored(i) == i \notin waiting /\ \A c \in Callers : ~(at[c] = "store" /\ job[c] = {i})

(* knnSearch computes the distance of the query to the entry point before   *)
(* it looks at the vertex, and later to what its searches come upon.  The   *)
(* program answers requests some time after the last job was handed out.    *)
Query(c, x, q) ==
  /\ at[c] = "idle"
  /\ waiting = {}
  /\ x \in found
  /\ pair' = [pair EXCEPT ![c] = <<x, q>>]
  /\ at' = [at EXCEPT ![c] = "query"]
  /\ early' = (early \/ ~Stored(q))
  /\ UNCHANGED <<vars, disk, waiting, job, got, near, found, panicked, failed, firsts>>

-------------------------------------------------------------------------------
(* cosineSim is an error if one vector has 600 dimensions, the other none.  *)
SameLength(a, b) == (a = "empty") <=> (b = "empty")

(* get returns v, the first vector of the pair, or the second one: then     *)
(* cosineDist has a distance, or panics over the error.  That ends the      *)
(* program if it was a worker, but only the request if it was a request.    *)
Return(c, v) ==
  \/ /\ got[c] = <<>>
     /\ got' = [got EXCEPT ![c] = <<v>>]
     /\ UNCHANGED <<pair, at, near, panicked>>
  \/ /\ got[c] # <<>>
     /\ got' = [got EXCEPT ![c] = <<>>]
     /\ pair' = [pair EXCEPT ![c] = <<>>]
     /\ at' = [at EXCEPT ![c] = IF @ = "query" THEN "idle" ELSE @]
     /\ near' = [near EXCEPT ![c] = @ \/ at[c] = "insert"]
     /\ panicked' = (at[c] = "insert" /\ ~SameLength(got[c][1], v))

Wanted(c) == pair[c][IF got[c] = <<>> THEN 1 ELSE 2]

(* Load finds the id. *)
Hit(c) ==
  /\ pc[c] = "idle"
  /\ pair[c] # <<>>
  /\ Wanted(c) \in cache
  /\ Return(c, vector[Wanted(c)])
  /\ UNCHANGED <<vars, disk, waiting, job, found, failed, firsts, early>>

(* No bytes make an empty vector, and no error. *)
vectorFromBytes(bytes) == IF bytes = "none" THEN "empty" ELSE bytes

(* readVectorFromBolt: an id that is not in the bucket has no bytes.        *)
Read(c, i) ==
  /\ pc[c] = "check"
  /\ read[c] = <<>>
  /\ key[c] = {i}
  /\ read' = [read EXCEPT ![c] = <<vectorFromBytes(db[i])>>]
  /\ UNCHANGED <<vars, db, vector, flow, panicked>>

(* The rest of get, in the steps of module VectorCache. *)
StoreVector(c, i) ==
  /\ Store(c)
  /\ key[c] = {i}
  /\ vector' = [vector EXCEPT ![i] = read[c][1]]
  /\ UNCHANGED <<db, read, flow, panicked>>

ReturnRead(c) ==
  /\ Increment(c)
  /\ read' = [read EXCEPT ![c] = <<>>]
  /\ Return(c, read[c][1])
  /\ UNCHANGED <<db, vector, waiting, job, found, failed, firsts, early>>

GetVector(c) ==
  \/ Hit(c)
  \/ /\ \/ pair[c] # <<>> /\ Miss(c, Wanted(c))
        \/ read[c] # <<>> /\ Check(c)
        \/ \E k \in Keys : Visit(c, k)
        \/ RangeOver(c) \/ Delete(c) \/ Decrement(c)
     /\ UNCHANGED <<disk, flow, panicked>>
  \/ \E i \in Keys : Read(c, i) \/ StoreVector(c, i)
  \/ ReturnRead(c)

Work(c) ==
  \/ \E i \in Keys : Take(c, i) \/ StoreToBolt(c, i)
  \/ ReadTotal(c) \/ InsertFirst(c) \/ Link(c) \/ Finish(c)
  \/ \E x \in Keys, i \in Keys : Compare(c, i, x) \/ Query(c, x, i)

(* The program has panicked, or as many calls have missed as the bound says. *)
VectorsOver ==
  /\ panicked \/ misses = MaxGets
  /\ UNCHANGED <<vars, disk, flow, panicked>>

VectorsNext ==
  \/ ~panicked /\ \E c \in Callers : Work(c) \/ GetVector(c)
  \/ VectorsOver

VectorsSpec == VectorsInit /\ [][VectorsNext]_<<vars, disk, flow, panicked>>

-------------------------------------------------------------------------------
(* What is cached, or has been read to be cached, is what bolt has: nobody   *)
(* asks for a vector before its worker is through with storing it, unless a  *)
(* request does.                                                             *)
CacheAgrees ==
  ~early =>
    /\ \A i \in cache : vector[i] = vectorFromBytes(db[i])
    /\ \A c \in Callers, i \in Keys :
         (key[c] = {i} /\ read[c] # <<>>) => read[c] = <<vectorFromBytes(db[i])>>

(* A vertex without a vector never joins a graph of vertices that have one:  *)
(* while the program runs, all vertices have vectors or none has.            *)
AllOrNone ==
  (~early /\ firsts <= 1 /\ ~panicked) =>
    \A i, j \in found : db[i] = "none" <=> db[j] = "none"

(* The program only panics over a vector that could not be stored and that   *)
(* no earlier run has left, or over one that was asked for too early.        *)
PanicExplained ==
  panicked => early \/ \E i \in failed : db[i] = "none"
================================================================================
