# Verification of knn-nws

The program builds an approximate nearest-neighbour index of word vectors, a
hierarchical navigable small world graph (hnsw), with several worker goroutines at
once, saves it, and answers queries over HTTP. This directory holds TLA+ models of
it, the configurations that check them with TLC, and proofs that TLAPS checks. Line
numbers refer to the files under `src/`.

1. [The system](#1-the-system)
2. [Modules and how they correspond to the code](#2-modules-and-how-they-correspond-to-the-code)
3. [Runs, bounds and what they show](#3-runs-bounds-and-what-they-show)
4. [Fairness](#4-fairness)
5. [Proofs](#5-proofs)
6. [Where code and comments disagree](#6-where-code-and-comments-disagree)
7. [What is not modelled](#7-what-is-not-modelled)
8. [Plan](#8-plan)

## 1. The system

`main` either reads an index from its files or builds one. To build, it reads word
vectors from a file and sends each as a job over an unbuffered channel to one worker
per processor. A worker stores the vector in a bolt database, tosses a coin, and
inserts a vertex into the *primary* or the *secondary* graph. Each insertion ends by
starting a goroutine, the *insert hook*, that adds the same vertex to the other
graph from the neighbors the insertion chose. When all jobs are sent `main` sleeps
for three seconds, writes the primary graph and the words to files, and serves
queries.

| Component | State | Operations | Hard parts | Correct means |
|---|---|---|---|---|
| hnsw graph, `hnsw.go` | table `nodes`, `entryPointID`, `currentMaximumLayer`, per vertex `level` and `connections`; a read-write lock for the graph and one for each vertex | `insert` (166-285) with `searchLayer`, `linkAtLevel`, the pruning of neighbors | workers insert at once; the entry point and the maximum layer are read without a lock; the table is made after another step saw it missing; lists are pruned from copies | no dereference of a nil vertex, degrees bounded, entry point consistent, no vertex cut off, every insertion returns |
| `searchLayer` (287-349) | visited set, two trees, a worst distance | expand the nearest candidate, visit its connections | the graph changes under the search; the worst distance is stale inside the inner loop | result not empty, at most `ef`, a local minimum, ends |
| replication, `insertFromExternal` (71-164) | the other graph | look up, store, make placeholders, link, prune, publish | one goroutine per vertex, in any order, all at once; vertices are named before they exist; one vertex may exist in several copies; both graphs do this to each other while workers insert into both | everything named is in the table, what is stored stays, both graphs are complete in the end, in order it makes the same graph |
| `knnSearch`, `Stats` (400-460) | none | descend, search layer 0 | runs while the graph grows | results are inserted vertices |
| `binarySearchTreeGeneric` | a binary tree of (index, distance) | insert, delete, contains, minimum, maximum, flatten, len | equal distances; deletion of a node with two children | a sorted set |
| vector cache, `vector_cache.go` | a `sync.Map` and a counter | `get` | map and counter are only safe each by itself; a purge runs while others store | counter follows the map, map stays small |
| index files and start-up, `main.go`, `hnsw_marshalling.go` | two files; the graph in memory | build, marshal, write, read | crashes between and within the files, write errors that are only logged, a sleep instead of a join, gaps in the table | what is served is a complete index, every vertex in its place |
| commit log, `hnsw_commitlogger.go` | a channel, a file | four kinds of events, one goroutine that writes | sent by every goroutine, while it holds locks; a crash cuts the file off; both graphs share it; nothing reads it | it tells the graph, and never names what it has not added |
| bolt store, `store_on_disk.go` | one bucket of vectors by id | store, read | a failed store is only logged, a missing vector is read as an empty one, and either is cached | what is computed with is what was stored |
| `nsw.go` | the older graph: a list of vertices with edges | insert, search | workers insert at once; edges are appended to with and without the lock of their vertex; not started by `main` any more | nothing lost, undirected, connected, a search finds enough |
| `binary_search_tree.go`, the older tree | nodes with pointers | insert, delete, contains, minimum, maximum, flatten, len | a node takes over the data of another, which is deleted then | the same tree as the generic one |
| HTTP handlers, monitoring, vector parser, Elasticsearch benchmark | | I/O | | |

Every hazard of the code that a test would hardly reach is listed in `PROJECT.json`,
at its line, with the properties that would catch it.

## 2. Modules and how they correspond to the code

    OrderedSet ── HnswParameters ──┬── Hnsw ──────────┬── HnswProofs ────────┐
        │                          │                  ├── CommitLog ──┬── CommitLogProofs
        │                          │                  │               └── MCCommitLog
        │                          │                  ├── MCHnsw
        │                          │                  ├── HnswPair ──┬── MCHnswPair
        │                          ├── Replica ─(instance of)┘        ├── HnswService ──┬── MCHnswService
        │                          │     └── Peer        KnnSearch ───┘                 └── HnswServiceProofs
        │                          └── TwoGraphs ── TwoGraphsInvariant ──┬── TwoGraphsProofs
        │                             (two instances of Peer)              └── MCTwoGraphs
        ├── SearchLayer ─(one instance of it is each search of KnnSearch, which extends Hnsw)
        │        ├── SearchLayerProofs
        │        └── MCSearchLayer
        ├── Nsw ──┬── NswProofs
        │         └── MCNsw
        └── SortedSet ─(refined by)─ SearchTree ── OlderTree ── MCSearchTree
    VectorCache ── Vectors ──┬── VectorsProofs (of both)     IndexFiles ── IndexFilesProofs
                             └── MCVectors

**OrderedSet.** What the callers of the search tree rely on: the nearest and the
farthest members of a set, and its `k` nearest as a list. A tie between distances
may be resolved either way. The code's distances are float32 cosine distances; only
comparisons between them are ever made, so a distance is a natural number and `Dist`
a constant.

**SearchTree** translates every operation of the tree with its recursion, and
refines **SortedSet**. This is what lets the other modules use sets where the code
uses trees. **OlderTree** is the tree of `nsw.go`: the same calls on a heap of nodes
whose pointers are changed in place, in step with `SearchTree`, so that a tree as a
value and a tree of pointers check each other.

**SearchLayer** is the function `searchLayer` alone. When it expands a candidate it
reads *any* list of connections: this is every layer of every graph, and whatever
other goroutines do to the graph between two reads.

**Hnsw** is one graph while several workers insert into it. A step of a worker is
what it does between two points at which it can meet another: acquiring a lock, or
touching `entryPointID` or `currentMaximumLayer`, which are read without one.
`pc[w]` names the point the worker stands at, the other per-worker variables are the
locals of `insert` and `searchLayer`:

| `pc` | action | code |
|---|---|---|
| `idle` | `Take` | `hnswWorker` receives a job |
| `total` | `ReadTotal` | `len(h.nodes)` under the read lock |
| `first`, `table` | `LockFirst`, `FirstInsert` | the graph was empty: 174-187 |
| `entry`, `max` | `ReadEntryPoint`, `ReadMaximumLayer` | unlocked reads, the level is drawn |
| `add` | `AddNode` | stored in the table under the write lock; first search begins |
| `search` | `Expand`, `Visit`, `Descend`, `SelectNeighbors` | `searchLayer` on each level |
| `link` ... `prune` | `LinkNeighbor`, `LinkSelf`, `CountNeighbor`, `Prune` | 236-271, each lock of a vertex a step |
| `raise`, `lock`, `publish` | `CheckMaximumLayer`, `PublishEntryPoint`, `PublishMaximumLayer` | the hook is started; the test without a lock; 274-285 |

The write lock of the graph is held across steps only where another goroutine could
observe the middle (the unlocked readers see the new entry point before the new
maximum layer); `hlock` is that lock. A step to `panic` is the dereference of a nil
vertex. `firsts` counts, as history, how often the table was made.

**CommitLog** puts `hnswCommitLogger` under `Hnsw`. Each step of `insert` that
changes the graph also sends its event, and the channel has no buffer: the step
waits until the goroutine of the log has written the event before (`Send`). The file
is kept as what it says from its beginning. Nothing is ever removed from it, so each
state also stands for what a crash at that moment leaves behind. As the code does,
an added link is written without the vertex it was added to.

**Replica** is the graph on the receiving side. A call of `insertFromExternal` is
named by the id it is for. Because a vertex may be made by several calls, as the
vertex of its own call or as a placeholder of another, a vertex is identified by its
id *and* the call that made it; `nodes[v]` is the maker of the object that is in the
table. `own[c]` and `neighbor[c]` are the pointers a call holds, which may no longer
be in the table. Placeholders are written under the read lock only, so the read lock
is modelled where it matters (`Readers`).

**HnswPair** composes the two: the hooks of `Hnsw` are the calls of `Replica`. The
first hook hands over the live map of connections, so what its call reads is what
the map has become by then. `PairSpec` lets everything run at once; `InTurnSpec`
begins an insertion only when the last one is replicated.

**TwoGraphs** is `main`'s primary and secondary graph, both instances of **Peer**: a
coin decides into which of them a worker inserts, and each graph runs the calls of
its own jobs (`insert`) and those that replicate the jobs of the other
(`insertFromExternal`, `Replica`). Here the searches are left out: an insertion
chooses any vertices of the table, which covers whatever a search finds. In
`HnswPair` the searches are there, but one graph only replicates.

**KnnSearch** is a query of the graph of `Hnsw`: the vertex is looked up, entry
point and maximum layer are read without a lock, each search is an instance of
`SearchLayer` that reads the connections the graph has at that moment, one per
layer. A query changes nothing, so one that may begin at any moment after the last
job was handed out stands for all. `calm`, history, says that no insertion was under
way then. **HnswService** puts it beside `InTurnSpec`: a worker, the replication of
its insertions, and a query. Its proofs, **HnswServiceProofs**, use those of `Hnsw`
(`HnswProofs`, where what holds of one worker's insertions is proved as well).

**Nsw** is the older graph, `insert` with the one search it makes. What is between
two locks or two accesses to edges is a step, and an append to edges is two, as a
vertex appends to its own edges without its lock while others append to them under
it (46-52). `todo[w]` is what is left of a loop of appends. What an append that
missed another one stores depends on whether both used the same array: `Appended` is
any of it. `firsts` and `raced` are history.

**VectorCache** is `syncCache.get`: loading, comparing the counter, each visit of a
purge, each deletion, each change of the counter and the store are steps. `Range`
visits the keys the map had when it began, if their values are still or again there
when their turn comes, as the `sync.Map` of Go 1.14 does. History variables count
keys stored twice and deleted twice.

**Vectors** is the way of a vector through bolt and the cache: the worker stores it
(or fails to, which is logged), computing a distance reads two vectors through
`get`, the calls of which are those of `VectorCache` with the vectors added. Of one
graph only the set of ids that a search can come upon is kept. A worker that
compares vectors of different lengths panics, which ends the program; a request that
does is ended alone. `old` is what an earlier run left in the database.

**IndexFiles** is `main`, `buildNewIndex`, `MarshalGzip` and `UnmarshalGzip`. Of the
graph only the entry point and which ids are stored are kept; vertices are stored in
any order and until after the index is saved, which is what replication allows: a
vertex of the primary graph may come from a goroutine nobody waits for. A file is
written item by item, so that a crash or an error may end it anywhere; a crash loses
the memory, not the files. The entry point is the first thing that is written, some
time before the vertices are looked at. `failed`, `calm`, `settled` and `image` are
history.

Mutants: an operator whose comment begins with *Faulty* is the definition after it
with a plausible bug. For each property of each run one of them makes TLC find a
violation (`PROJECT.json`, "mutants"), so the properties do depend on the code.

## 3. Runs, bounds and what they show

| Run | Instance | States | Shows |
|---|---|---|---|
| `search` | 4 nodes, `ef` 1 or 2, any connections | 465,000 | a search returns between one and `ef` nodes, ends in a local minimum, returns all it can reach if fewer than `ef`, and it ends |
| `tree` | 5 indexes, distances with and without ties | 49,000 | members are found, flattening is in order, the tree is a sorted set, and the older tree is the same tree |
| `build` | 2 workers and the logger, 4 vertices, 2 levels | 247,000 | no nil is followed, degrees exceed the limit only by own links and by workers about to prune, entry point on its layer, nobody cut off, hooks tell every link, the commit log tells the graph and names nothing it has not added; every insertion returns |
| `one_worker` | 1 worker, 5 vertices, 3 levels, each insertion replicated before the next; one query | 1,198,000 | the comments of the code hold, a new vertex can be found through each of its neighbors, the other graph becomes the same graph, and a query answers with stored vertices and cannot be improved by another step |
| `pair` | 2 workers, 3 vertices, 2 levels, both graphs, all calls at once | 1,947,000 | each table has every id that is named, what was stored stays, `insert` need not look for a placeholder, and in the end both graphs are complete |
| `vector_cache` | 2 callers, 3 vectors, limit 1, 4 misses | 2,028,000 | counter and map differ only by what is under way and by double stores and deletions; the map exceeds its limit by less than one entry for each caller and one for each double deletion; what is cached is what is stored; when a missing vector ends the program |
| `index_files` | 4 vertices, table of 5, any number of crashes, failures, restarts | 4,482,000 | see below |
| `nsw` | 2 workers, 5 vertices, `k` = 2 | 112,000 | see below |
| `lowered`, `degree`, `placeholder`, `index_gaps` | small | | find the violations of section 6 |

*Why the bounds are enough.* Limits are the smallest that let the interesting case
happen: `maximumConnections = 1` (2 on level 0) makes four vertices fill lists and
prune on both levels; `efConstruction = 2` makes results drop out of a search; two
levels give a new entry point of a higher level and a descent (also where both
graphs replicate: three vertices are the first of each graph and one that refers to
both), three levels let two workers raise the maximum to different levels. Two
workers suffice for every race of two critical regions; that more workers do not
change the proved invariants is what the proofs show. The vectors lie on a line in
an order in which the nearest neighbor changes with each insertion, and without
ties, as the tie breaking is checked with the tree. The cache limit of 1 with 3
vectors lets the map outgrow the limit, two purges overlap, and a vector be cached
twice; 4 misses are two for each caller. That this instance is small is made up for
by proofs: all five properties of `vector_cache` hold for any number of callers,
vectors and misses. It is the one run that uses symmetry: callers and ids are
interchangeable, and its properties are invariants. In `nsw` the fifth vertex is the
first whose search has more to choose from than the `k` = 2 it keeps, after edges
were lost. A query asks for `k` = `ef` = 2, fewer than there are vertices, so that
both the results and the answer are cut. In `index_files` only `N` and `Size` are
bounds; crashes and failures are unbounded. Each bound is a CONSTANT; `MaxLevel`
(the code draws from an unbounded distribution) and `MaxGets` are the only ones with
no counterpart in the code.

*Index files.* `CompleteUnlessFailed`: because the words file is written after the
index, and a start without a complete words file is fatal, no crash makes a process
serve a part of an index; only a failing write does. `RoundTrip`: if all was stored
in time, every vertex comes back to its position, and if any vertex was, so does the
entry point, which may be outdated but is never one that was not saved. `OrderKept`:
even otherwise the vertices are in order and only ever move down. `NeverRewritten`:
an index file is only ever completed, never written anew, so an incomplete one stays
until somebody removes it, and with it the start that is fatal.

*Commit log.* `LogTellsGraph`: whenever no event is under way, a reader of the file
knows the vertices, their levels, the entry point, and for each list of connections
the last one that replaced it; of what was linked since he knows the level and the
target, not the vertex. It rests on each event being sent under the lock that guards
its change (210). `AllInserted` shows that sending under locks stops nobody for
good. `LogNamesAdded` is about a crash at any moment.

*Vectors.* `PanicExplained`: the program ends over vectors of different lengths only
if a vector could not be stored, or a request asked for a vertex before its vector
was stored, which caches the empty vector for everybody (406). `AllOrNone`: as long
as the program runs, the graph does not mix vertices with and without vectors: who
enters it was compared with one that is in it (unless two workers made the table, or
a request came too early). `CacheAgrees`: nothing that is cached differs from the
database, although a miss reads and stores in different steps (until a request comes
too early).

*Both graphs.* `NothingDangles` and the others are conditional on `MadeOnce`: each
table made once. Even with one worker that fails, as the first insertion into one
graph and the replication of the first of the other may find it empty together (92,
173). `BothComplete` allows the first vertex of a graph to end without connections,
as its hook may be handed none.

*Queries.* `AnswersAreStored` also holds while the last insertions run. A query is
not shown to find the nearest vertices: with the small limits of this instance
pruning can cut off even the vertex that is asked for, so the graph is approximate
as intended. What is shown is that an answer is a local minimum and, if it is
shorter than asked for, closed under connections.

*The older graph.* As long as `firsts <= 1` and no append has lost edges, it is
undirected, connected, and a search finds `k` vertices. Each condition is needed.
Two workers that both find the graph empty lose a vertex (22). An append of a vertex
to its own edges without its lock (51) may lose what others have appended under it;
with five vertices and `k` = 2 enough can be lost that a later search finds fewer
than `k`, and the program ends with an index out of range (141).

*No panic* and *AllInserted* are conditional on `firsts <= 1`: if two workers find
the graph empty, the second throws the first one's table away (181), and vertices in
it are lost.

## 4. Fairness

`SearchLayer!FairSpec` assumes weak fairness of the search: the scheduler runs every
goroutine that can run, and read locks are held for a few statements only.
`Hnsw!FairSpec` assumes strong fairness of each worker: a worker may find the write
lock taken again and again, but a Go `RWMutex` lets a waiting writer go ahead of
later readers, and a goroutine that waits for a lock gets it eventually.
`CommitLog!LoggedFairSpec` assumes the same of the workers, for whom waiting to send
is one more wait that ends (Go serves those that wait for a channel in turn), and
weak fairness of the goroutine that writes. Run `build` checks `AllInserted` under
it. None assumes that vertices are drawn or jobs arrive in any particular way. The
other specifications state no fairness and are checked for safety only.

## 5. Proofs

| Theorem | Says, for every value of the constants |
|---|---|
| `HnswProofs!TypeCorrect` | concurrent insertion is type correct |
| `HnswProofs!EntryPointIsOnTop` | whenever the write lock is free, the entry point's level is the maximum layer |
| `HnswProofs!NothingPanics` | as long as one worker made the table, no id that is not in it is followed |
| `HnswProofs!EveryLinkIsTold` | `HooksTellEveryLink`: whom an insertion chose or linked, the other graph is told of |
| `HnswProofs!NobodyIsIsolated` | `NeverIsolated`: pruning by others cuts nobody off |
| `HnswProofs!LengthsAreBounded` | `DegreeBound`: own links and workers about to prune are all by which a list is too long |
| `HnswProofs!BornAreStored` | if the table was made once, a vertex whose worker is past storing it is in it for good |
| `HnswProofs!OneEntryPointHighest` | one worker: `EntryPointHighest` |
| `HnswProofs!OneLinksProperly` | one worker: `ProperLinks` |
| `HnswProofs!OneKeepsTheLimit` | one worker: `DegreeLimit` |
| `HnswProofs!OneIsFound` | one worker, no two equal vectors: `NewVertexFindable` |
| `SearchLayerProofs!ResultsAreBounded` | a search holds between one and `ef` results |
| `SearchLayerProofs!ReturnsLocalMinimum` | its best result was expanded, and led nowhere closer |
| `SearchLayerProofs!SmallResultsAreClosed` | fewer than `ef` results are all that can be reached |
| `SearchLayerProofs!FullResultsImprove` | the worst of `ef` results never gets worse |
| `CommitLogProofs!LoggedInsertions` | insertions that are logged are insertions: what is proved of `Hnsw` holds with the log |
| `CommitLogProofs!FileNamesAdded` | `LogNamesAdded`: wherever the log is cut off, what it names was added before |
| `CommitLogProofs!FileTellsGraph` | `LogTellsGraph`: when no event is under way, the log tells the graph |
| `HnswServiceProofs!QueriesAnswerStored` | `AnswersAreStored`, beside any number of workers |
| `HnswServiceProofs!AnswersAreLocalMinima` | `AnswerIsLocalMinimum`, of whichever graph any number of workers left behind |
| `HnswServiceProofs!OneMakesTwins` | one worker, no two ids equally far from a third: `SameGraph` |
| `TwoGraphsProofs!NothingIsDangling` | `NothingDangles`, of both graphs, with any number of workers |
| `TwoGraphsProofs!StoredVerticesStay` | `BothStoredForGood` |
| `TwoGraphsProofs!NoPlaceholderIsMissed` | `NoPlaceholderForInserts` |
| `TwoGraphsProofs!GraphsAreComplete` | `BothComplete`: both graphs have every vertex in the end, linked |
| `VectorsProofs!CountIsExplained` | how counter and map can differ |
| `VectorsProofs!SizeIsBounded` | by how much the map can outgrow its limit |
| `VectorsProofs!UsesCache` | the calls of `get` in `Vectors` are those of `VectorCache`: what holds of it holds here |
| `VectorsProofs!CacheIsTrue` | `CacheAgrees` |
| `VectorsProofs!NoMixture` | `AllOrNone` |
| `VectorsProofs!PanicsAreExplained` | `PanicExplained` |
| `IndexFilesProofs!IndexIsComplete` | `CompleteUnlessFailed` |
| `IndexFilesProofs!OrderIsKept` | `OrderKept` |
| `IndexFilesProofs!NothingIsRewritten` | `NeverRewritten` |
| `IndexFilesProofs!GraphComesBack` | `RoundTrip` |
| `NswProofs!UndirectedUntilRaced` | the older graph is undirected until an append loses edges |
| `NswProofs!NothingIsLost` | unless its first vertex is stored twice, every inserted vertex is in the list, once |
| `NswProofs!SearchesFindEnough` | `NoPanic`: with `k > 1` a search of the older graph finds enough to append to |
| `NswProofs!GraphIsConnected` | `Connected`: vertices in a line, each with all before it, are never cut in two |

and type correctness of `SearchLayer`, `VectorCache`, `IndexFiles` and `Nsw`. Types
are proved only, and so is `FullResultsImprove`: no run repeats them. The theorems
rest on the assumptions named in the modules: positive sizes, finite sets of workers
and callers, distances that are natural numbers.

*Arguments.* Why the properties are not inductive alone, and what is added to them.

- `Hnsw`, types: that `Neighbor(w)` is an id needs the position to be within the chosen
  list, which needs the results a list is chosen from not to be empty, which is the
  search's invariant that the last result is never removed (`Position`).
- `EntryPointOnTop` needs to know what the holder of the write lock has published
  already (`Publication`). `NoPanic` needs that every id anybody holds, in a list, a
  snapshot, a search, or as the entry point, is in the table; that a worker which saw a
  table, or was counted as first, can rely on it; and that at most one worker is about
  to make it (`References`).
- Links: what an insertion chose is kept level by level until its hook is handed it
  (`Choices`), so that who is linked to whom by choice (`Linked`) changes in one step
  only, in which a vertex links itself. From this, no list and no stale copy of one
  holds a link that neither end chose (`LinksTold`); and a list that was filled by a
  choice is only replaced by the nearest of a copy that was too long, thus of more than
  nothing (`KeptLinks`). For the lengths, each append is either by the vertex itself,
  whose choices are counted once, or by a worker that counts as a pruner until it has
  looked at the list or replaced it (`Degrees`); that a replaced list is short enough
  is where a stale copy does no harm. All this needs that making a vertex does not
  clear lists somebody is linked to: nobody comes across a vertex before its maps are
  made (`BornOnly`, `UnbornUnlinked`), and that holds however often the table is made.
  `DegreeBound` is stated while the program runs: after a panic in the middle of a
  linking step nobody prunes any more.
- Log: everything the graph holds is told or about to be told by the worker that made
  it so (`GraphTold`, `ToldBy`). For `LogTellsGraph`, *what the file will say* once the
  event that was received is written is unchanged by the writing, and changes together
  with the graph, since the event is sent in the step that changes it; between the two
  halves of publishing, the event is out and the maximum layer is not, but then the
  write lock is held (`EntryPointTold`).
- Queries beside insertions: whatever a query holds is in the table as long as that is
  not about to be replaced (`QueryKnown`). One exception needs care: the entry point may
  be set by the worker that makes the table before the table is there. A query that
  has read it has done nothing else with it yet (`Unstarted`), because to read the
  connections of a vertex it waits for the write lock.
- Local minimum: `QueryNearest` is the invariant of `SearchLayerProofs`, restated for
  the search that is part of the query (the prover cannot cite a theorem of an
  instantiated module). In addition a graph nobody is inserting into stays so (no jobs
  are left), so that the lists a search has read are still the lists of the graph
  (`SeenAsIs`), and the answer is compared with the graph itself.
- One worker: the table is made once, since whoever saw it missing sees it missing
  still (`FirstOnce`), so that nothing panics and every stored vertex has its maps. A
  vertex above the entry point is the one whose worker has yet to publish it
  (`Highest`). Lists are followed through an insertion: on the levels not linked yet
  nobody mentions the new vertex (`Untouched`); its own list is the part of the chosen
  neighbors the loop is past (`OwnList`), thus no longer than they are and without
  repetition; each neighbor's list mentions the vertex once it is linked, and the copy
  that is pruned *is* the list (`OtherLists`). `OneIsFound` assumes that no two vectors
  are equal (`Distinct`): a list is pruned to what is nearest to the *new* vertex (262),
  to which it is nearest itself; among equal vectors it may be the one that is dropped.
- Twins (`OneMakesTwins`): between two insertions the graphs are alike (`Level`). During
  one, the worker is ahead of the other graph by what it has linked so far (`Ahead`):
  list by list, a neighbor that is done has the other graph's list with the new vertex
  appended, and cut if that was too long (`CutTo`); one being linked may have the long
  list still; all others have what the other graph has (`AheadBy`). Once the hook is out
  nobody inserts, and its call is behind by what it has yet to link in the same sense,
  compared through what becomes of the lists it has not come to (`BehindBy`), while the
  vertex's own list fills up to the one the worker made (`BehindOwn`); when the call
  returns, nothing is left and the graphs are level. The entry points agree whenever
  neither side is about to publish one (`Tops`), which needs `Highest` of the insertion.
  Two graphs prune to the same list because there is one list of the nearest
  (`NearestUnique`: of two, neither can be closer at the first place at which they
  differ). That is the hypothesis `Apart`, no two ids equally far from a third: among
  equally far ones the order in a tree decides, and the graphs use two. The positions of
  run `one_worker` are apart. TLC agrees with the invariant (`TwinInv`) on instances of
  that size.
- Searches: a candidate that is closer than every result cannot be lost: every nearest
  result is a candidate still, is being expanded, or was.
- Two graphs: the invariant, in `TwoGraphsInvariant`, says of each graph what a call
  holds (`PTypes`), that what is named in it is in its table, together with the vertex of
  every call that has stored one (`PSound`), and that only the calls of jobs have hooks
  and only what a hook has told is inserted from outside (`PJobs`). A call that makes a
  placeholder makes it for an id nobody has stored (`PMakesNew`): whoever stores a vertex
  waits for the read lock under which it saw the id missing. Between the graphs: what a
  call was handed is in the table of the graph it comes from, so that what is being
  linked is in one of the two (`PNames`), and an id no insertion has stored is in neither
  (`UnusedOut`). That nothing is left out in the end needs that the chosen neighbors on
  level 0 are not empty, that the loop over them is past the first (`PLinked0`), and that
  no list is emptied again (`PFilled`); that the entry point is on its layer needs that a
  vertex keeps the level its inserting call drew (`PLevels`). Everything is stated and
  proved once for each graph, as `P...` and `S...`, because a theorem of an instance
  cannot be cited. TLC agrees with the invariant on the instance of run `pair` (add `Inv`
  to `MCTwoGraphs.cfg`).
- Cache: the count is a sum of cardinalities, and each step moves one caller between two
  of them; its size needs that what any purges together will not remove leaves room for
  a key of each of them and of each call that is about to store (`Room`).
- Vectors: the invariant says what each caller holds in which part of its job (`Shape`),
  that a vertex anybody can find is settled, its vector stored or failed for good
  (`Settled`), that what is read or cached is what the database has (`Agree`), and that
  what can be found together is alike (`Alike`).
- Index files: the file is a prefix of what was marshalled, what is marshalled is in
  order (`Ordered`), and a words file implies a complete index (`Vouched`); that the
  graph comes back needs in addition what the range over the table has recorded so far
  (`Recorded`): the entry point, once passed, is among the bytes, and as long as
  everything was stored each position is its id.
- Older graph: that it is undirected needs that the appends still to be made come in
  pairs, the one to `v` after the one to its new neighbor (`InPairs`); that nothing is
  lost needs that each job that was handed out is with one worker or in the list, once
  (`JobsInv`, `Placed`). A search finds enough (`Enough`) because the first `k`
  vertices are connected with each other, and every later one with at least `k`: it has
  not expanded the vertex it began at, or has found the others of the first `k` and will
  expand one of them, or has found enough (`Seeking`). This needs `k > 1`, and main.go:49
  has 36: with `k = 1` a search that begins at a vertex without edges finds nothing, and
  TLC shows the panic. That nothing is cut off (`Joined`) is stated of every set that no
  edge enters or leaves: if it has one of the linked vertices, it has all of them; and
  what a worker plans attaches its vertex to these. TLC agrees with both invariants on
  the instance of run `nsw`, with `k` of 2 and of 3.

*Only model-checked:* liveness (`AllInserted`, `SearchEnds`); the refinement of the
sorted set, `MembersAreFound`, `FlattensInOrder` and `SameTree` (the trees are
recursive). Liveness and facts about recursive definitions are out of the prover's
reach. Every other property of a passing run is stated by a theorem above, some of them
under a hypothesis that the instances of the runs satisfy: one worker, distances that
tell the ids apart, `k > 1`.

## 6. Where code and comments disagree

- `lowered`: "if we insert a new point with a higher level it will become the new
  entry point" (29). The test is not repeated under the lock, so the lower of two
  new points may win.
- `degree`: "Each node should not have more edges than this number" (17). Own links
  are never counted.
- `placeholder`: "it could be that we implicitly added this node already" (78). It
  may be added after the lookup, and then its links are lost.
- `index_gaps`: "in case we grew further than what we actually need"
  (hnsw_marshalling.go:24). A nil in the middle of the table, a vertex not stored
  yet when the index is saved, shifts every vertex behind it.

With one worker whose insertions are replicated in turn, run `one_worker` shows the
first two comments to hold, and that the entry point is "guaranteed to be on the
currently highest layer" (hnsw.go:188): it has the level of the maximum layer
(`EntryPointOnTop`), and no vertex has a higher one (`EntryPointHighest`). With two
workers what an insertion reads of them need not fit together: they are read apart
(190, 194).

## 7. What is not modelled

- Of the older graph: `search`, which nobody calls and whose first write goes to a
  nil map, and `print`. `Nsw` uses sets for its tree.
- `Stats`, which prints counts, and the printing of trees.
- The log of both graphs in one file: no event says which graph it is of, and nothing
  reads the file, so that only the log of one graph has a meaning to check. Recovery
  from the log does not exist.
- Data races on maps: a hook's live map that is read while a worker writes it may
  end a Go program; the model lets the read see the map as it is at one moment.
  Likewise a list of edges of `Nsw` is read as it is at one moment.
- Distances: `vectorDist` and its arithmetic, NaN for zero vectors. (Empty vectors are
  in `Vectors`.) A random number that is exactly 0, whose level is the logarithm of it
  (196): a level is any of the levels.
- A tree with ties from whose middle an element is deleted: such a deletion breaks
  the order. No caller does it, so `SearchTree` allows it only without ties.
- In the index files: levels and connections, failing reads, losses of written data
  when the machine stops, a change of the input between two starts, and that two
  insertions may both make the table (`Hnsw`, `TwoGraphs`).
  A vertex that gets connections on another level while it is being written makes a
  file that is read out of step from there on (hnsw_marshalling.go:30): what it is
  read as depends on its bytes.
- The memory-mapped vectors file, which nobody calls (`store_on_disk.go`), and
  transactions of bolt that fail halfway: bolt undoes them.
- The requests around a query, which are single lookups: a name that is not known has
  index 0 (main.go:195); a process that has read its index has no secondary graph
  (main.go:142), so that a query for it dereferences nil; a word that occurs twice in the
  input keeps the last index (parse_vectors.go:30).
- HTTP, monitoring, parsing and the benchmark: input and output.

## 8. Plan

Done, in this order: `OrderedSet`, `SearchLayer`, `SearchTree` with `SortedSet`,
`Hnsw`, `Replica` with `HnswPair`, `VectorCache`, `IndexFiles`, `Nsw`, `KnnSearch`
with `HnswService`; then `CommitLog` over `Hnsw`, `OlderTree`, `Peer` with
`TwoGraphs`, `Vectors` over `VectorCache`, the entry point in `IndexFiles`; and the
proofs above.

Next:

1. That the guards of `Hnsw` make each of its searches a `SearchLayer` search.
2. Connections, in a module beside `IndexFiles`: what a reader finds at the position a
   connection names when the table had gaps, or the connections changed while they were
   written.
