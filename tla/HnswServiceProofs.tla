--------------------------- MODULE HnswServiceProofs ---------------------------
(****************************************************************************)
(* Proofs about HnswService, for every number of jobs, every distance and   *)
(* every value of the limits: what queries rely on while workers insert,    *)
(* what they answer when nobody does, and that the other graph becomes the  *)
(* same when there is one worker.                                           *)
(****************************************************************************)
EXTENDS HnswService, HnswProofs, WellFoundedInduction

-------------------------------------------------------------------------------
(* The insertions are those of module Hnsw: queries and replication leave    *)
(* the graph they are about alone.                                           *)
THEOREM ServiceInserts == ServiceSpec => Spec
<1>1. [ServiceNext]_<<vars, rvars, qvars>> => [Next]_vars
  BY DEF ServiceNext, InTurnNext, Replicate, PairOver, Next, Step
<1> QED
  BY <1>1, PTL DEF ServiceSpec, ServiceInit, PairInit, Spec

-------------------------------------------------------------------------------
(* The query.  Its locals, and those of the search it runs. *)
QueryType ==
  /\ qpc \in {"idle", "refused", "entry", "max", "call", "search", "panic", "answered"}
  /\ query \in Ids /\ qlayer \in Levels /\ qentry \in Ids
  /\ out \in Seq(Ids)
  /\ spc \in {"call", "loop", "visit", "done"}
  /\ qpc \notin {"search", "panic"} => spc = "call" /\ stodo = {}
  /\ sresults \subseteq Ids /\ scandidates \subseteq Ids /\ stodo \subseteq Ids

(* Nothing but the entry point has been looked at yet. *)
Unstarted ==
  spc = "loop" /\ sresults = {qentry} /\ scandidates = {qentry} /\ stodo = {}

(* While a table in use is about to be replaced the entry point may be one   *)
(* that is not stored; the write lock keeps a query from following it until  *)
(* the table is replaced.                                                    *)
QueryKnown ==
  /\ qpc \notin {"idle", "refused"} => nodes # {}
  /\ Clean =>
       /\ qpc \in {"max", "call"} => qentry \in nodes
       /\ sresults \subseteq nodes /\ scandidates \subseteq nodes /\ stodo \subseteq nodes
  /\ firsts <= 1 =>
       /\ qpc # "panic"
       /\ Elements(out) \subseteq nodes
       /\ calm => qpc # "refused"
       /\ Unstarted \/ (sresults \subseteq nodes /\ stodo \subseteq nodes)

LEMMA StepQueryType ==
  ASSUME TypeInv, QueryType, Query
  PROVE  QueryType'
<1> USE DEF QueryType
<1>0. /\ entryPointID \in Ids /\ currentMaximumLayer \in Levels
      /\ \A v \in Ids, l \in Levels : Elements(connections[v][l]) \subseteq Ids
  BY ListType DEF TypeInv, TypeOK
<1>1. CASE ReadQueryEntryPoint \/ ReadQueryMaximumLayer \/ \E q \in Ids : ReadQueryNode(q)
  BY <1>0, <1>1
     DEF ReadQueryEntryPoint, ReadQueryMaximumLayer, ReadQueryNode, layerSearch
<1>2. ASSUME NEW q \in Ids, CallSearch(q)
      PROVE  QueryType'
  BY <1>2 DEF CallSearch, SL!Begin
<1>3. ASSUME NEW q \in Ids, NEW c \in Ids, QueryExpand(q, c)
      PROVE  QueryType'
  <2>1. Elements(connections[c][qlayer]) \subseteq Ids
    BY <1>0
  <2> QED
    BY <1>3, <2>1 DEF QueryExpand, SL!Expand
<1>4. ASSUME NEW q \in Ids, NEW v \in Ids, SL(q)!Visit(v), UNCHANGED locals, qpc = "search"
      PROVE  QueryType'
  <2>1. /\ sresults' \subseteq sresults \cup {v} /\ scandidates' \subseteq scandidates \cup {v}
        /\ stodo' = stodo \ {v} /\ UNCHANGED spc
    BY <1>4 DEF SL!Visit, SL!Admit
  <2> QED
    BY <1>4, <2>1 DEF locals
<1>5. ASSUME NEW q \in Ids, UNCHANGED locals, qpc = "search",
             SL(q)!NextCandidate \/ (\E c \in Ids : SL(q)!BreakOff(c)) \/ SL(q)!Exhaust
      PROVE  QueryType'
  BY <1>5 DEF SL!NextCandidate, SL!BreakOff, SL!Exhaust, locals
<1>6. ASSUME NEW q \in Ids, DescendQuery(q)
      PROVE  QueryType'
  <2>1. PICK best \in Minima(sresults, Dist[q]) : qentry' = best
    BY <1>6 DEF DescendQuery
  <2>2. best \in Ids
    BY <2>1 DEF Minima
  <2>3. qlayer - 1 \in Levels
    <3>1. qlayer \in Levels /\ qlayer >= 1
      BY <1>6 DEF DescendQuery
    <3> QED
      BY <3>1, LevelAssumption DEF Levels
  <2> QED
    BY <1>6, <2>1, <2>2, <2>3 DEF DescendQuery, ReturnSearch
<1>7. ASSUME NEW q \in Ids, Answer(q)
      PROVE  QueryType'
  <2>1. out' \in Nearest(sresults, Dist[q], k) /\ k \in Nat /\ k > 0
    BY <1>7, KAssumption DEF Answer
  <2>2. out' \in Seq(Ids)
    BY <2>1, NearestList
  <2> QED
    BY <1>7, <2>2 DEF Answer, ReturnSearch
<1> QED
  BY <1>1, <1>2, <1>3, <1>4, <1>5, <1>6, <1>7 DEF Query, QueryVisit

(* What the workers do meanwhile. *)
LEMMA InsertQueryKnown ==
  ASSUME TypeInv, Publication, QueryKnown, UNCHANGED qvars,
         NEW w \in Workers, Take(w) \/ Insert(w)
  PROVE  QueryKnown'
<1>1. UNCHANGED <<qpc, qentry, out, calm, spc, sresults, scandidates, stodo>>
  BY DEF qvars, locals, layerSearch
<1>2. /\ nodes # {} => nodes' # {}
      /\ firsts' <= 1 => firsts <= 1 /\ nodes \subseteq nodes'
      /\ Clean' => Clean /\ firsts' <= 1
  BY NodesStay, CleanBefore DEF Clean
<1>3. Unstarted' = Unstarted
  BY <1>1 DEF Unstarted
<1> QED
  BY <1>1, <1>2, <1>3 DEF QueryKnown

LEMMA QuietStored ==
  ASSUME TypeInv, BornStored, Quiet, firsts <= 1, NEW q \in Ids
  PROVE  q \in nodes
<1>1. q < N
  BY NAssumption DEF Ids
<1>2. Born(q)
  BY <1>1 DEF Born, Quiet, Unborn
<1> QED
  BY <1>2 DEF BornStored

(* Between two makings of the table the write lock is held. *)
LEMMA UncleanLocked ==
  ASSUME Publication, firsts <= 1, ~Clean
  PROVE  hlock # {}
BY DEF Publication, Clean

(* A search that has looked beyond its entry point holds stored vertices. *)
LEMMA StepQueryKnown ==
  ASSUME TypeInv, Publication, Clean => References, BornStored, QueryType, QueryKnown,
         Query, UNCHANGED vars
  PROVE  QueryKnown'
<1>0. /\ UNCHANGED <<nodes, firsts, hlock, pc, jobs, connections>> /\ Clean' = Clean
  BY DEF vars, graph, Clean
<1>1. Clean => /\ nodes # {} => entryPointID \in nodes
               /\ \A v \in Ids, l \in Levels : Elements(connections[v][l]) \subseteq nodes
  BY DEF References, GraphKnown
<1>2. /\ firsts <= 1 /\ hlock = {} => Clean
      /\ Clean => firsts <= 1
  BY UncleanLocked DEF Clean
<1>3. CASE ReadQueryEntryPoint \/ ReadQueryMaximumLayer
  <2>1. /\ qpc \in {"entry", "max"} /\ qpc' \in {"max", "call"}
        /\ UNCHANGED <<out, calm, layerSearch>>
        /\ qentry' \in {qentry, entryPointID}
        /\ qpc = "max" => qentry' = qentry
        /\ qpc = "entry" => qentry' = entryPointID
    BY <1>3 DEF ReadQueryEntryPoint, ReadQueryMaximumLayer
  <2>2. UNCHANGED <<spc, sresults, scandidates, stodo>>
    BY <2>1 DEF layerSearch
  <2>3. ~Unstarted
    BY <2>1 DEF Unstarted, QueryType
  <2> QED
    BY <1>0, <1>1, <2>1, <2>2, <2>3 DEF QueryKnown
<1>4. ASSUME NEW q \in Ids, ReadQueryNode(q)
      PROVE  QueryKnown'
  <2>1. /\ qpc = "idle" /\ qpc' \in {"entry", "refused"}
        /\ qpc' = "refused" <=> q \notin nodes
        /\ UNCHANGED <<out, qentry, layerSearch>>
    BY <1>4 DEF ReadQueryNode
  <2>2. firsts <= 1 /\ calm' => q \in nodes
    BY <1>4, QuietStored DEF ReadQueryNode
  <2>3. UNCHANGED <<spc, sresults, scandidates, stodo>>
    BY <2>1 DEF layerSearch
  <2>4. Unstarted' = Unstarted
    BY <2>1, <2>3 DEF Unstarted
  <2>5. qpc' \notin {"idle", "refused"} => nodes' # {}
    BY <1>0, <2>1
  <2> QED
    BY <1>0, <2>1, <2>2, <2>3, <2>4, <2>5 DEF QueryKnown
<1>5. ASSUME NEW q \in Ids, CallSearch(q)
      PROVE  QueryKnown'
  <2>1. /\ qpc = "call" /\ qpc' = "search" /\ UNCHANGED <<out, calm, qentry, stodo>>
        /\ sresults' = {qentry} /\ scandidates' = {qentry} /\ spc' = "loop"
    BY <1>5 DEF CallSearch, SL!Begin
  <2>2. /\ Clean => qentry \in nodes /\ stodo \subseteq nodes
        /\ nodes # {}
        /\ firsts <= 1 => /\ Elements(out) \subseteq nodes
                          /\ Unstarted \/ stodo \subseteq nodes
    BY <2>1 DEF QueryKnown
  <2>3. ~Unstarted
    BY <2>1 DEF Unstarted, QueryType
  <2>4. firsts <= 1 => Unstarted' \/ (sresults' \subseteq nodes /\ stodo' \subseteq nodes)
    BY <2>1 DEF Unstarted, QueryType
  <2> QED
    BY <1>0, <2>1, <2>2, <2>4 DEF QueryKnown
<1>6. ASSUME NEW q \in Ids, NEW c \in Ids, QueryExpand(q, c)
      PROVE  QueryKnown'
  <2>1. /\ qpc = "search" /\ hlock = {} /\ c \in scandidates
        /\ scandidates' = scandidates \ {c} /\ stodo' = Elements(connections[c][qlayer])
        /\ UNCHANGED <<sresults, out, calm, qentry>>
        /\ qpc' = IF c \in nodes THEN "search" ELSE "panic"
    BY <1>6 DEF QueryExpand, SL!Expand, SL!Minima
  <2>2. Clean => /\ c \in nodes /\ stodo' \subseteq nodes
                 /\ sresults \subseteq nodes /\ scandidates \subseteq nodes
    BY <1>1, <2>1 DEF QueryKnown, QueryType
  <2>3. nodes # {} /\ (firsts <= 1 => Elements(out) \subseteq nodes)
    BY <2>1 DEF QueryKnown
  <2> QED
    BY <1>0, <1>2, <2>1, <2>2, <2>3 DEF QueryKnown
<1>7. ASSUME NEW q \in Ids, NEW v \in Ids, SL(q)!Visit(v), UNCHANGED locals, qpc = "search"
      PROVE  QueryKnown'
  <2>1. /\ sresults' \subseteq sresults \cup {v} /\ scandidates' \subseteq scandidates \cup {v}
        /\ stodo' = stodo \ {v} /\ v \in stodo /\ UNCHANGED <<qpc, out, calm, qentry>>
    BY <1>7 DEF SL!Visit, SL!Admit, locals
  <2>2. ~Unstarted
    BY <2>1 DEF Unstarted
  <2> QED
    BY <1>0, <1>7, <2>1, <2>2 DEF QueryKnown
<1>8. ASSUME NEW q \in Ids, UNCHANGED locals, qpc = "search",
             SL(q)!NextCandidate \/ (\E c \in Ids : SL(q)!BreakOff(c)) \/ SL(q)!Exhaust
      PROVE  QueryKnown'
  <2>1. /\ scandidates' \subseteq scandidates
        /\ UNCHANGED <<sresults, stodo, qpc, out, calm, qentry>>
    BY <1>8 DEF SL!NextCandidate, SL!BreakOff, SL!Exhaust, locals
  <2>2. ~Unstarted
    <3>1. CASE SL(q)!NextCandidate
      BY <3>1 DEF SL!NextCandidate, Unstarted
    <3>2. ASSUME NEW c \in Ids, SL(q)!BreakOff(c)
          PROVE  ~Unstarted
      <4>1. c \in scandidates /\ \E x \in sresults : Dist[q][c] > Dist[q][x]
        BY <3>2 DEF SL!BreakOff, SL!Minima, SL!Maxima
      <4>2. Dist[q][c] \in Nat
        BY DistAssumption
      <4>3. ~(Dist[q][c] > Dist[q][c])
        BY <4>2
      <4> QED
        BY <4>1, <4>3 DEF Unstarted
    <3>3. CASE SL(q)!Exhaust
      BY <3>3 DEF SL!Exhaust, Unstarted
    <3> QED
      BY <1>8, <3>1, <3>2, <3>3
  <2> QED
    BY <1>0, <1>8, <2>1, <2>2 DEF QueryKnown
<1>9. ASSUME NEW q \in Ids, DescendQuery(q) \/ Answer(q)
      PROVE  QueryKnown'
  <2>1. /\ qpc = "search" /\ qpc' \in {"call", "answered"} /\ UNCHANGED calm
        /\ spc = "done" /\ spc' = "call"
        /\ sresults' = {} /\ scandidates' = {} /\ stodo' = {}
    BY <1>9 DEF DescendQuery, Answer, ReturnSearch
  <2>2. /\ nodes # {}
        /\ firsts <= 1 => Elements(out) \subseteq nodes /\ sresults \subseteq nodes
    BY <2>1 DEF QueryKnown, Unstarted
  <2>3. qpc' = "call" => qentry' \in sresults
    BY <1>9 DEF DescendQuery, Answer, Minima
  <2>4. Elements(out') \subseteq Elements(out) \cup sresults
    <3>1. CASE Answer(q)
      <4>1. out' \in Nearest(sresults, Dist[q], k) /\ k \in Nat /\ k > 0
        BY <3>1, KAssumption DEF Answer
      <4> QED
        BY <4>1, NearestList DEF QueryType
    <3> QED
      BY <1>9, <3>1 DEF DescendQuery
  <2> QED
    BY <1>0, <1>2, <2>1, <2>2, <2>3, <2>4 DEF QueryKnown
<1>10. ASSUME NEW q \in Ids, QueryVisit(q)
      PROVE  QueryKnown'
  BY <1>7, <1>8, <1>10 DEF QueryVisit
<1> QED
  BY <1>3, <1>4, <1>5, <1>6, <1>9, <1>10 DEF Query

-------------------------------------------------------------------------------
QueryInv == QueryType /\ QueryKnown

LEMMA InitQuery ==
  ASSUME ServiceInit
  PROVE  QueryInv
<1>1. 0 \in Ids /\ 0 \in Levels /\ out = <<>>
  BY IdsAndLevels DEF ServiceInit, QueryInit
<1>2. <<>> \in Seq(Ids)
  OBVIOUS
<1>3. Elements(<<>>) = {}
  BY <1>2, ElementsOf
<1> QED
  BY <1>1, <1>2, <1>3 DEF ServiceInit, QueryInit, QueryInv, QueryType, QueryKnown

LEMMA QueryInvariance == ServiceSpec => []QueryInv
<1>1. ServiceInit => QueryInv
  BY InitQuery
<1>2. /\ TypeInv /\ Publication /\ Known /\ BornStored
      /\ QueryInv /\ [ServiceNext]_<<vars, rvars, qvars>>
      => QueryInv'
  <2> SUFFICES ASSUME TypeInv, Publication, Clean => References, BornStored,
                      QueryType, QueryKnown, [ServiceNext]_<<vars, rvars, qvars>>
               PROVE  QueryType' /\ QueryKnown'
    BY DEF QueryInv, Known
  <2>1. CASE UNCHANGED qvars /\ UNCHANGED vars
    BY <2>1 DEF qvars, locals, layerSearch, vars, graph, QueryType, QueryKnown, Unstarted, Clean
  <2>2. ASSUME UNCHANGED qvars, NEW w \in Workers, Take(w) \/ Insert(w)
        PROVE  QueryType' /\ QueryKnown'
    <3>1. QueryType'
      BY <2>2 DEF qvars, locals, layerSearch, QueryType
    <3> QED
      BY <2>2, <3>1, InsertQueryKnown
  <2>3. CASE Query /\ UNCHANGED vars
    BY <2>3, StepQueryType, StepQueryKnown
  <2> QED
    BY <2>1, <2>2, <2>3 DEF ServiceNext, InTurnNext, Replicate, PairOver
<1> QED
  BY <1>1, <1>2, ServiceInserts, TypeInvariance, PublicationInvariance, KnownInvariance,
     BornAreStored, PTL DEF ServiceSpec

(* KnnSearch.AnswersAreStored: whatever insertions are under way, knnSearch  *)
(* never looks an id up that is not in the table, never returns one, and     *)
(* finds its own vertex if none was under way, for any number of workers,    *)
(* as long as no worker makes the table a second time.                       *)
THEOREM QueriesAnswerStored == ServiceSpec => []AnswersAreStored
<1>1. QueryInv => AnswersAreStored
  BY DEF QueryInv, QueryKnown, AnswersAreStored
<1> QED
  BY <1>1, QueryInvariance, PTL

-------------------------------------------------------------------------------
(* What a query answers when nothing changes the graph meanwhile.            *)
(* What the search of one layer for q keeps up (module SearchLayerProofs     *)
(* proves this of SearchLayer by itself).                                    *)
SearchType ==
  /\ spc # "call" /\ sef \in Nat /\ sef > 0 /\ (qlayer = 0 => sef = ef)
  /\ svisited \subseteq Ids /\ stodo \subseteq Ids /\ sworst \in Nat
  /\ scandidates \subseteq svisited /\ sresults \subseteq svisited
  /\ DOMAIN sseen \subseteq svisited

(* The nearest vertex ever looked at stays among the results. *)
Kept(q) ==
  /\ sresults # {}
  /\ \A v \in svisited : \E r \in sresults : Dist[q][r] <= Dist[q][v]

(* Every result has been expanded or will be. *)
Expanded ==
  /\ spc # "done" => sresults \subseteq DOMAIN sseen \cup scandidates
  /\ spc = "done" => sresults \subseteq DOMAIN sseen

(* What was read from an expanded vertex is looked at, or about to be. *)
SeenLooked ==
  /\ spc # "visit" => stodo = {}
  /\ \A v \in DOMAIN sseen : sseen[v] \subseteq svisited \cup stodo

(* Nothing is turned away before there are enough results. *)
FullFirst == Cardinality(sresults) < sef => sresults = svisited

(* worstResultDistance is never better than the best result. *)
WorstReached(q) == spc = "visit" => \E r \in sresults : Dist[q][r] <= sworst

Greedy(q) ==
  SearchType /\ Kept(q) /\ Expanded /\ SeenLooked /\ FullFirst /\ WorstReached(q)

(* A query that began when no insertion was under way reads the graph as it  *)
(* still is.                                                                 *)
SeenAsIs ==
  calm => \A v \in DOMAIN sseen : sseen[v] = Elements(connections[v][qlayer])

QueryNearest ==
  /\ calm => Quiet
  /\ qpc \notin {"search", "panic"} => DOMAIN sseen = {} /\ sworst \in Nat
  /\ qpc = "search" => Greedy(query) /\ SeenAsIs
  /\ AnswerIsLocalMinimum

(* Counting is the same in every instance. *)
LEMMA SameCount ==
  ASSUME NEW q, NEW S
  PROVE  SL(q)!Cardinality(S) = Cardinality(S)
BY DEF SL!Cardinality, Cardinality, SL!IsFiniteSet, IsFiniteSet

(* Letting v in leaves a result as near as any there was, drops none while   *)
(* there is room, and lets none but v in.                                    *)
LEMMA LetIn ==
  ASSUME NEW q \in Ids, NEW v \in Ids, SearchType, sresults # {}, v \notin sresults,
         sresults \subseteq Ids, SL(q)!Admit(v)
  PROVE  /\ scandidates' = scandidates \cup {v}
         /\ sresults' \subseteq sresults \cup {v}
         /\ \A u \in sresults \cup {v} : \E r \in sresults' : Dist[q][r] <= Dist[q][u]
         /\ Cardinality(sresults') < sef => sresults' = sresults \cup {v}
<1> DEFINE D == Dist[q]
<1>1. D \in [Ids -> Nat] /\ sef \in Nat
  BY DistAssumption DEF SearchType
<1>2. /\ IsFiniteSet(sresults) /\ Cardinality(sresults) \in Nat
      /\ IsFiniteSet(sresults \cup {v}) /\ Cardinality(sresults \cup {v}) = Cardinality(sresults) + 1
  BY IdsFinite, FS_AddElement
<1>3. /\ scandidates' = scandidates \cup {v}
      /\ IF Cardinality(sresults) + 1 > sef
         THEN \E m \in SL(q)!Maxima(sresults \cup {v}, D) : sresults' = (sresults \cup {v}) \ {m}
         ELSE sresults' = sresults \cup {v}
  BY SameCount DEF SL!Admit
<1>4. CASE Cardinality(sresults) + 1 > sef
  <2>1. PICK m \in SL(q)!Maxima(sresults \cup {v}, D) : sresults' = (sresults \cup {v}) \ {m}
    BY <1>3, <1>4
  <2>2. /\ m \in sresults \cup {v} /\ m \in Ids
        /\ \A y \in sresults \cup {v} : D[m] >= D[y]
    BY <2>1 DEF SL!Maxima
  <2>3. Cardinality(sresults') = Cardinality(sresults)
    <3>1. Cardinality((sresults \cup {v}) \ {m}) = Cardinality(sresults \cup {v}) - 1
      BY <1>2, <2>2, FS_RemoveElement
    <3> QED
      BY <1>2, <2>1, <3>1
  <2>4. ~(Cardinality(sresults') < sef)
    BY <1>1, <1>2, <1>4, <2>3
  <2>5. PICK x \in sresults \cup {v} : x # m
    OBVIOUS
  <2>6. \A u \in sresults \cup {v} : u # m => u \in sresults'
    BY <2>1
  <2>7. \A u \in sresults \cup {v} : D[u] \in Nat
    BY <1>1
  <2>8. x \in sresults' /\ D[x] <= D[m]
    BY <2>2, <2>5, <2>6, <2>7
  <2>9. ASSUME NEW u \in sresults \cup {v}
        PROVE  \E r \in sresults' : D[r] <= D[u]
    <3>1. CASE u = m
      BY <2>8, <3>1
    <3>2. CASE u # m
      <4>1. u \in sresults' /\ D[u] <= D[u]
        BY <2>6, <2>7, <3>2
      <4> QED
        BY <4>1
    <3> QED
      BY <3>1, <3>2
  <2> QED
    BY <1>3, <2>1, <2>4, <2>9
<1>5. CASE ~(Cardinality(sresults) + 1 > sef)
  <2>1. sresults' = sresults \cup {v}
    BY <1>3, <1>5
  <2>2. \A u \in sresults \cup {v} : D[u] <= D[u]
    BY <1>1
  <2> QED
    BY <1>3, <2>1, <2>2
<1> QED
  BY <1>4, <1>5

(* One lemma for each kind of step of the query. *)
LEMMA GreedyBegins ==
  ASSUME NEW q \in Ids, QueryType, QueryNearest, q = query, CallSearch(q), UNCHANGED vars
  PROVE  QueryNearest'
<1>1. /\ qpc = "call" /\ qpc' = "search" /\ UNCHANGED <<query, qlayer, qentry, out, calm>>
      /\ UNCHANGED <<stodo, sworst, sseen>>
      /\ spc' = "loop" /\ sef' = (IF qlayer >= 1 THEN 1 ELSE ef)
      /\ svisited' = {qentry} /\ scandidates' = {qentry} /\ sresults' = {qentry}
  BY DEF CallSearch, SL!Begin
<1>2. /\ qentry \in Ids /\ stodo = {} /\ DOMAIN sseen = {} /\ sworst \in Nat
      /\ qlayer \in Levels
  BY <1>1 DEF QueryType, QueryNearest
<1>3. sef' \in Nat /\ sef' > 0 /\ (qlayer = 0 => sef' = ef)
  <2>1. ef \in Nat /\ ef > 0 /\ qlayer \in Nat
    BY <1>2, QueryEfAssumption, LevelAssumption DEF Levels
  <2> QED
    BY <1>1, <2>1
<1>4. SearchType'
  BY <1>1, <1>2, <1>3 DEF SearchType
<1>5. Kept(q)'
  BY <1>1, <1>2, DistAssumption DEF Kept
<1>6. Greedy(q)'
  BY <1>1, <1>2, <1>4, <1>5 DEF Greedy, Expanded, SeenLooked, FullFirst, WorstReached
<1>7. SeenAsIs'
  BY <1>1, <1>2 DEF SeenAsIs
<1>8. Quiet' = Quiet
  BY DEF vars, graph, Quiet
<1> QED
  BY <1>1, <1>6, <1>7, <1>8 DEF QueryNearest, AnswerIsLocalMinimum

LEMMA GreedyExpands ==
  ASSUME NEW q \in Ids, NEW c \in Ids, TypeInv, QueryType, QueryNearest, q = query,
         QueryExpand(q, c), UNCHANGED vars
  PROVE  QueryNearest'
<1>1. /\ qpc = "search" /\ qpc' \in {"search", "panic"}
      /\ UNCHANGED <<query, qlayer, qentry, out, calm, sef, svisited, sresults>>
      /\ spc = "loop" /\ spc' = "visit"
      /\ stodo' = Elements(connections[c][qlayer])
      /\ c \in scandidates /\ scandidates' = scandidates \ {c}
      /\ sseen' = [v \in DOMAIN sseen \cup {c} |->
                     IF v = c THEN Elements(connections[c][qlayer]) ELSE sseen[v]]
      /\ \E w \in sresults : sworst' = Dist[q][w]
  BY DEF QueryExpand, SL!Expand, SL!Minima, SL!Maxima
<1>2. SearchType /\ Kept(q) /\ Expanded /\ SeenLooked /\ FullFirst /\ SeenAsIs
  BY <1>1 DEF QueryNearest, Greedy
<1>3. /\ DOMAIN sseen' = DOMAIN sseen \cup {c}
      /\ sseen'[c] = Elements(connections[c][qlayer])
      /\ \A v \in DOMAIN sseen : v # c => sseen'[v] = sseen[v]
  BY <1>1
<1>4. SearchType'
  <2>1. Elements(connections[c][qlayer]) \subseteq Ids
    BY ListType DEF TypeInv, TypeOK, QueryType
  <2>2. sworst' \in Nat
    BY <1>1, <1>2, DistAssumption DEF SearchType
  <2> QED
    BY <1>1, <1>2, <1>3, <2>1, <2>2 DEF SearchType
<1>5. Kept(q)' /\ FullFirst'
  BY <1>1, <1>2 DEF Kept, FullFirst
<1>6. Expanded'
  BY <1>1, <1>2, <1>3 DEF Expanded
<1>7. SeenLooked'
  BY <1>1, <1>2, <1>3 DEF SeenLooked
<1>8. WorstReached(q)'
  <2>1. PICK w \in sresults : sworst' = Dist[q][w]
    BY <1>1
  <2>2. w \in Ids
    BY <1>2 DEF SearchType
  <2>3. Dist[q][w] <= sworst'
    BY <2>1, <2>2, DistAssumption
  <2> QED
    BY <1>1, <2>3 DEF WorstReached
<1>9. SeenAsIs'
  <2>1. UNCHANGED connections
    BY DEF vars, graph
  <2> QED
    BY <1>1, <1>2, <1>3, <2>1 DEF SeenAsIs
<1>10. Greedy(q)'
  BY <1>4, <1>5, <1>6, <1>7, <1>8 DEF Greedy
<1>11. Quiet' = Quiet
  BY DEF vars, graph, Quiet
<1> QED
  BY <1>1, <1>9, <1>10, <1>11 DEF QueryNearest, AnswerIsLocalMinimum

LEMMA GreedyVisits ==
  ASSUME NEW q \in Ids, NEW v \in Ids, SL(q)!Visit(v), UNCHANGED locals, Greedy(q)
  PROVE  Greedy(q)'
<1>1. /\ spc = "visit" /\ UNCHANGED <<spc, sef, sworst, sseen, qlayer>>
      /\ v \in stodo /\ stodo' = stodo \ {v} /\ svisited' = svisited \cup {v}
      /\ \/ v \notin svisited /\ SL(q)!Admit(v)
         \/ v \in svisited /\ UNCHANGED <<scandidates, sresults>>
         \/ v \notin svisited /\ ~SL(q)!Admits(v) /\ UNCHANGED <<scandidates, sresults>>
  BY DEF SL!Visit, locals
<1>2. SearchType /\ Kept(q) /\ Expanded /\ SeenLooked /\ FullFirst /\ WorstReached(q)
  BY DEF Greedy
<1>3. SeenLooked'
  BY <1>1, <1>2 DEF SeenLooked
<1>4. PICK b \in sresults : Dist[q][b] <= sworst
  BY <1>1, <1>2 DEF WorstReached
<1>5. Dist[q] \in [Ids -> Nat] /\ sresults \subseteq Ids /\ svisited \subseteq Ids /\ sworst \in Nat
  BY <1>2, DistAssumption DEF SearchType
<1>6. CASE UNCHANGED <<scandidates, sresults>> /\ v \in svisited
  <2>1. svisited' = svisited
    BY <1>1, <1>6
  <2> QED
    BY <1>1, <1>2, <1>3, <1>6, <2>1
       DEF Greedy, SearchType, Kept, Expanded, FullFirst, WorstReached
<1>7. CASE UNCHANGED <<scandidates, sresults>> /\ v \notin svisited /\ ~SL(q)!Admits(v)
  <2>1. ~(Dist[q][v] < sworst) /\ ~(Cardinality(sresults) < sef)
    BY <1>7, SameCount DEF SL!Admits
  <2>2. Dist[q][b] <= Dist[q][v]
    BY <1>4, <1>5, <2>1
  <2>3. Kept(q)'
    BY <1>1, <1>2, <1>7, <2>2 DEF Kept
  <2>4. FullFirst'
    BY <1>1, <1>7, <2>1 DEF FullFirst
  <2>5. SearchType'
    BY <1>1, <1>2, <1>7 DEF SearchType
  <2> QED
    BY <1>1, <1>2, <1>3, <1>7, <2>3, <2>4, <2>5 DEF Greedy, Expanded, WorstReached
<1>8. CASE v \notin svisited /\ SL(q)!Admit(v)
  <2>1. v \notin sresults /\ sresults # {}
    BY <1>2, <1>8 DEF SearchType, Kept
  <2>2. /\ scandidates' = scandidates \cup {v}
        /\ sresults' \subseteq sresults \cup {v}
        /\ \A u \in sresults \cup {v} : \E r \in sresults' : Dist[q][r] <= Dist[q][u]
        /\ Cardinality(sresults') < sef => sresults' = sresults \cup {v}
    BY <1>2, <1>5, <1>8, <2>1, LetIn
  <2>3. SearchType'
    BY <1>1, <1>2, <2>2 DEF SearchType
  <2>4. Kept(q)'
    <3>1. ASSUME NEW u \in svisited'
          PROVE  \E r \in sresults' : Dist[q][r] <= Dist[q][u]
      <4>1. CASE u = v
        BY <2>2, <4>1
      <4>2. CASE u \in svisited
        <5>1. PICK r \in sresults : Dist[q][r] <= Dist[q][u]
          BY <1>2, <4>2 DEF Kept
        <5>2. PICK x \in sresults' : Dist[q][x] <= Dist[q][r]
          BY <2>2
        <5>3. x \in Ids /\ r \in Ids /\ u \in Ids
          BY <1>5, <2>2, <4>2
        <5>4. Dist[q][x] \in Nat /\ Dist[q][r] \in Nat /\ Dist[q][u] \in Nat
          BY <1>5, <5>3
        <5> QED
          BY <5>1, <5>2, <5>4
      <4> QED
        BY <1>1, <4>1, <4>2
    <3> QED
      BY <2>2, <3>1 DEF Kept
  <2>5. Expanded'
    BY <1>1, <1>2, <2>2 DEF Expanded
  <2>6. FullFirst'
    <3> SUFFICES ASSUME Cardinality(sresults') < sef
                 PROVE  sresults' = svisited'
      BY <1>1 DEF FullFirst
    <3>1. sresults' = sresults \cup {v}
      BY <2>2
    <3>2. Cardinality(sresults') = Cardinality(sresults) + 1 /\ Cardinality(sresults) \in Nat
      BY <1>5, <2>1, <3>1, IdsFinite, FS_AddElement
    <3>3. Cardinality(sresults) < sef
      BY <1>2, <3>2 DEF SearchType
    <3> QED
      BY <1>1, <1>2, <3>1, <3>3 DEF FullFirst
  <2>7. WorstReached(q)'
    <3>1. PICK x \in sresults' : Dist[q][x] <= Dist[q][b]
      BY <2>2
    <3>2. x \in Ids /\ b \in Ids
      BY <1>5, <2>2
    <3>3. Dist[q][x] \in Nat /\ Dist[q][b] \in Nat
      BY <1>5, <3>2
    <3>4. Dist[q][x] <= sworst
      BY <1>4, <1>5, <3>1, <3>3
    <3> QED
      BY <1>1, <3>4 DEF WorstReached
  <2> QED
    BY <1>3, <2>3, <2>4, <2>5, <2>6, <2>7 DEF Greedy
<1> QED
  BY <1>1, <1>6, <1>7, <1>8

LEMMA GreedyLoops ==
  ASSUME NEW q \in Ids, Greedy(q), UNCHANGED locals,
         SL(q)!NextCandidate \/ (\E c \in Ids : SL(q)!BreakOff(c)) \/ SL(q)!Exhaust
  PROVE  Greedy(q)' /\ UNCHANGED sseen
<1>1. SearchType /\ Kept(q) /\ Expanded /\ SeenLooked /\ FullFirst /\ WorstReached(q)
  BY DEF Greedy
<1>2. UNCHANGED <<sef, svisited, sresults, stodo, sworst, sseen, qlayer>>
  BY DEF SL!NextCandidate, SL!BreakOff, SL!Exhaust, locals
<1>3. Kept(q)' /\ FullFirst'
  BY <1>1, <1>2 DEF Kept, FullFirst
<1>4. CASE SL(q)!NextCandidate \/ SL(q)!Exhaust
  <2>1. /\ UNCHANGED scandidates
        /\ \/ spc = "visit" /\ stodo = {} /\ spc' = "loop"
           \/ spc = "loop" /\ scandidates = {} /\ spc' = "done"
    BY <1>4 DEF SL!NextCandidate, SL!Exhaust
  <2> QED
    BY <1>1, <1>2, <1>3, <2>1 DEF Greedy, SearchType, Expanded, SeenLooked, WorstReached
<1>5. ASSUME NEW c \in Ids, SL(q)!BreakOff(c)
      PROVE  Greedy(q)'
  <2>1. PICK m \in sresults : Dist[q][c] > Dist[q][m] /\ \A r \in sresults : Dist[q][m] >= Dist[q][r]
    BY <1>5 DEF SL!BreakOff, SL!Maxima
  <2>2. /\ spc = "loop" /\ spc' = "done" /\ scandidates' = scandidates \ {c}
        /\ \A y \in scandidates : Dist[q][c] <= Dist[q][y]
    BY <1>5 DEF SL!BreakOff, SL!Minima
  <2>3. scandidates \cap sresults = {}
    <3> SUFFICES ASSUME NEW x \in scandidates, x \in sresults
                 PROVE  FALSE
      OBVIOUS
    <3>1. x \in Ids /\ m \in Ids
      BY <1>1 DEF SearchType
    <3>2. Dist[q][x] \in Nat /\ Dist[q][m] \in Nat /\ Dist[q][c] \in Nat
      BY <3>1, DistAssumption
    <3>3. Dist[q][c] <= Dist[q][x] /\ Dist[q][m] >= Dist[q][x]
      BY <2>1, <2>2
    <3> QED
      BY <2>1, <3>2, <3>3
  <2>4. Expanded'
    BY <1>1, <1>2, <2>2, <2>3 DEF Expanded
  <2>5. SearchType'
    BY <1>1, <1>2, <2>2 DEF SearchType
  <2> QED
    BY <1>1, <1>2, <1>3, <2>2, <2>4, <2>5 DEF Greedy, SeenLooked, WorstReached
<1> QED
  BY <1>2, <1>4, <1>5

(* The first of the nearest is a nearest one, and fewer than were asked for  *)
(* are all there are.                                                        *)
LEMMA FirstIsNearest ==
  ASSUME NEW S, S \subseteq Ids, S # {}, NEW d \in [Ids -> Nat], NEW n \in Nat, n > 0,
         NEW s \in Nearest(S, d, n)
  PROVE  /\ s[1] \in S
         /\ \A x \in S : d[s[1]] <= d[x]
         /\ Len(s) < n => Elements(s) = S
<1> DEFINE l == IF Cardinality(S) < n THEN Cardinality(S) ELSE n
<1>1. IsFiniteSet(S) /\ Cardinality(S) \in Nat /\ Cardinality(S) # 0
  BY IdsFinite, FS_EmptySet
<1>2. l \in Nat /\ l > 0 /\ (l < n => l = Cardinality(S))
  BY <1>1
<1>3. /\ s \in [1 .. l -> S]
      /\ \A i, j \in 1 .. l : i < j => s[i] # s[j] /\ d[s[i]] <= d[s[j]]
      /\ \A i \in 1 .. l : \A x \in S : d[x] < d[s[i]] => \E j \in 1 .. l : s[j] = x
  BY DEF Nearest
<1> HIDE DEF l
<1>4. 1 \in 1 .. l /\ s \in Seq(Ids) /\ Len(s) = l
  BY <1>2, <1>3
<1>5. ASSUME NEW x \in S
      PROVE  d[s[1]] <= d[x]
  <2>1. d[s[1]] \in Nat /\ d[x] \in Nat
    BY <1>3, <1>4
  <2>2. ASSUME d[x] < d[s[1]]
        PROVE  FALSE
    <3>1. PICK j \in 1 .. l : s[j] = x
      BY <1>3, <1>4, <2>2
    <3>2. j # 1
      BY <2>1, <2>2, <3>1
    <3>3. 1 < j
      BY <1>2, <3>2
    <3>4. d[s[1]] <= d[x]
      BY <1>3, <1>4, <3>1, <3>3
    <3> QED
      BY <2>1, <2>2, <3>4
  <2> QED
    BY <2>1, <2>2
<1>6. ASSUME l < n
      PROVE  Elements(s) = S
  <2>1. \A i, j \in 1 .. Len(s) : s[i] = s[j] => i = j
    <3> SUFFICES ASSUME NEW i \in 1 .. l, NEW j \in 1 .. l, s[i] = s[j], i # j
                 PROVE  FALSE
      BY <1>4
    <3>1. i < j \/ j < i
      BY <1>2
    <3> QED
      BY <1>3, <3>1
  <2>2. Cardinality(Elements(s)) = Cardinality(S)
    BY <1>2, <1>4, <1>6, <2>1, CountOnce
  <2>3. Elements(s) \subseteq S
    BY <1>3, <1>4 DEF Elements
  <2> QED
    BY <1>1, <2>2, <2>3, FS_Subset
<1> QED
  BY <1>3, <1>4, <1>5, <1>6

LEMMA GreedyAnswers ==
  ASSUME NEW q \in Ids, TypeInv, QueryType, QueryNearest, q = query, Answer(q), UNCHANGED vars
  PROVE  QueryNearest'
<1>1. /\ qpc = "search" /\ spc = "done" /\ qlayer = 0 /\ qpc' = "answered"
      /\ out' \in Nearest(sresults, Dist[q], k)
      /\ UNCHANGED <<query, qlayer, calm>>
      /\ sworst' = 0 /\ sseen' = [v \in {} |-> {}]
  BY DEF Answer, ReturnSearch
<1>2. UNCHANGED connections /\ Quiet' = Quiet
  BY DEF vars, graph, Quiet
<1>3. SearchType /\ Kept(q) /\ Expanded /\ SeenLooked /\ FullFirst /\ SeenAsIs
  BY <1>1 DEF QueryNearest, Greedy
<1>4. /\ sresults \subseteq Ids /\ sresults # {} /\ k \in Nat /\ k > 0 /\ Dist[q] \in [Ids -> Nat]
  BY <1>3, KAssumption, DistAssumption DEF SearchType, Kept
<1>5. /\ out'[1] \in sresults
      /\ \A x \in sresults : Dist[q][out'[1]] <= Dist[q][x]
      /\ Len(out') < k => Elements(out') = sresults
  BY <1>1, <1>4, FirstIsNearest
<1>6. \A v \in sresults : v \in DOMAIN sseen /\ sseen[v] \subseteq svisited
  BY <1>1, <1>3 DEF Expanded, SeenLooked
<1>7. ASSUME calm, ef >= k, NEW v \in Elements(connections[out'[1]][0])
      PROVE  Dist[q][out'[1]] <= Dist[q][v]
  <2>1. v \in svisited
    BY <1>1, <1>3, <1>5, <1>6, <1>7 DEF SeenAsIs
  <2>2. PICK r \in sresults : Dist[q][r] <= Dist[q][v]
    BY <1>3, <2>1 DEF Kept
  <2>3. v \in Ids /\ r \in Ids /\ out'[1] \in Ids
    BY <1>3, <1>4, <1>5, <2>1 DEF SearchType
  <2>4. Dist[q][v] \in Nat /\ Dist[q][r] \in Nat /\ Dist[q][out'[1]] \in Nat
    BY <1>4, <2>3
  <2>5. Dist[q][out'[1]] <= Dist[q][r]
    BY <1>5
  <2> QED
    BY <2>2, <2>4, <2>5
<1>8. ASSUME calm, ef >= k, Len(out') < k, NEW v \in Elements(out')
      PROVE  Elements(connections[v][0]) \subseteq Elements(out')
  <2>1. Elements(out') = sresults
    BY <1>5, <1>8
  <2>2. Cardinality(sresults) < k
    <3>1. /\ Cardinality(sresults) \in Nat
          /\ out' \in [1 .. (IF Cardinality(sresults) < k THEN Cardinality(sresults) ELSE k)
                       -> sresults]
      BY <1>1, <1>4, IdsFinite DEF Nearest
    <3>2. ASSUME ~(Cardinality(sresults) < k)
          PROVE  Len(out') = k
      BY <1>4, <3>1, <3>2
    <3> QED
      BY <1>4, <1>8, <3>1, <3>2
  <2>3. Cardinality(sresults) < sef
    <3>1. Cardinality(sresults) \in Nat /\ ef \in Nat /\ sef = ef
      BY <1>1, <1>3, <1>4, IdsFinite, QueryEfAssumption DEF SearchType
    <3> QED
      BY <1>4, <1>8, <2>2, <3>1
  <2>4. sresults = svisited
    BY <1>3, <2>3 DEF FullFirst
  <2> QED
    BY <1>1, <1>3, <1>6, <1>8, <2>1, <2>4 DEF SeenAsIs
<1>9. AnswerIsLocalMinimum'
  <2>1. UNCHANGED <<query, calm, connections>>
    BY <1>1, <1>2
  <2> QED
    BY <1>7, <1>8, <2>1 DEF AnswerIsLocalMinimum
<1>10. DOMAIN sseen' = {} /\ sworst' \in Nat
  BY <1>1
<1> QED
  BY <1>1, <1>2, <1>9, <1>10 DEF QueryNearest

LEMMA GreedyDescends ==
  ASSUME NEW q \in Ids, QueryNearest, DescendQuery(q), UNCHANGED vars
  PROVE  QueryNearest'
<1>1. /\ qpc' = "call" /\ UNCHANGED calm /\ sworst' = 0 /\ sseen' = [v \in {} |-> {}]
  BY DEF DescendQuery, ReturnSearch
<1>2. Quiet' = Quiet
  BY DEF vars, graph, Quiet
<1>3. DOMAIN sseen' = {} /\ sworst' \in Nat
  BY <1>1
<1> QED
  BY <1>1, <1>2, <1>3 DEF QueryNearest, AnswerIsLocalMinimum

LEMMA StepQueryNearest ==
  ASSUME TypeInv, QueryType, QueryNearest, Query, UNCHANGED vars
  PROVE  QueryNearest'
<1>0. UNCHANGED connections /\ Quiet' = Quiet
  BY DEF vars, graph, Quiet
<1>1. CASE ReadQueryEntryPoint \/ ReadQueryMaximumLayer \/ \E q \in Ids : ReadQueryNode(q)
  <2>1. /\ qpc \in {"idle", "entry", "max"} /\ qpc' \in {"entry", "refused", "max", "call"}
        /\ calm' \in {calm, Quiet} /\ UNCHANGED <<sseen, sworst>>
    BY <1>1 DEF ReadQueryEntryPoint, ReadQueryMaximumLayer, ReadQueryNode, layerSearch
  <2> QED
    BY <1>0, <2>1 DEF QueryNearest, AnswerIsLocalMinimum
<1>2. ASSUME NEW q \in Ids, q = query, QueryVisit(q)
      PROVE  QueryNearest'
  <2>1. /\ qpc = "search" /\ UNCHANGED locals /\ UNCHANGED <<qpc, query, qlayer, calm>>
        /\ Greedy(q) /\ SeenAsIs
    BY <1>2 DEF QueryVisit, QueryNearest, locals
  <2>2. Greedy(q)' /\ UNCHANGED sseen
    <3>1. ASSUME NEW v \in Ids, SL(q)!Visit(v)
          PROVE  Greedy(q)' /\ UNCHANGED sseen
      <4>1. UNCHANGED sseen
        BY <3>1 DEF SL!Visit
      <4> QED
        BY <2>1, <3>1, <4>1, GreedyVisits
    <3>2. CASE SL(q)!NextCandidate \/ (\E c \in Ids : SL(q)!BreakOff(c)) \/ SL(q)!Exhaust
      BY <2>1, <3>2, GreedyLoops
    <3> QED
      BY <1>2, <3>1, <3>2 DEF QueryVisit
  <2>3. SeenAsIs'
    BY <1>0, <2>1, <2>2 DEF SeenAsIs
  <2>4. Greedy(query)'
    BY <1>2, <2>1, <2>2
  <2> QED
    BY <1>0, <2>1, <2>3, <2>4 DEF QueryNearest, AnswerIsLocalMinimum
<1>3. ASSUME NEW q \in Ids, q = query,
             CallSearch(q) \/ (\E c \in Ids : QueryExpand(q, c)) \/ DescendQuery(q) \/ Answer(q)
      PROVE  QueryNearest'
  <2>1. CASE CallSearch(q)
    BY <1>3, <2>1, GreedyBegins
  <2>2. CASE \E c \in Ids : QueryExpand(q, c)
    BY <1>3, <2>2, GreedyExpands
  <2>3. CASE DescendQuery(q)
    BY <2>3, GreedyDescends
  <2>4. CASE Answer(q)
    BY <1>3, <2>4, GreedyAnswers
  <2> QED
    BY <1>3, <2>1, <2>2, <2>3, <2>4
<1> QED
  BY <1>1, <1>2, <1>3 DEF Query

(* Workers: while the graph is calm there is none; else only the connections *)
(* change, which matters to no part of it.                                   *)
LEMMA InsertQueryNearest ==
  ASSUME TypeInv, QueryNearest, UNCHANGED qvars, NEW w \in Workers, Take(w) \/ Insert(w)
  PROVE  QueryNearest'
<1>1. ~Quiet
  <2>1. CASE Take(w)
    <3>1. jobs < N /\ jobs \in 0 .. N
      BY <2>1 DEF Take, TypeInv, TypeOK
    <3> QED
      BY <3>1, NAssumption DEF Quiet
  <2>2. CASE Insert(w)
    <3>1. pc[w] # "idle"
      BY <2>2
         DEF Insert, ReadTotal, LockFirst, FirstInsert, ReadEntryPoint, ReadMaximumLayer, AddNode,
             Expand, Visit, Descend, SearchOver, SelectNeighbors, LinkNeighbor, LinkSelf,
             CountNeighbor, Prune, CheckMaximumLayer, PublishEntryPoint, PublishMaximumLayer
    <3> QED
      BY <3>1, SMTT(60) DEF Quiet
  <2> QED
    BY <2>1, <2>2
<1>2. ~calm
  BY <1>1 DEF QueryNearest
<1>3. UNCHANGED <<qpc, query, qlayer, calm, spc, sef, svisited, scandidates, sresults, stodo,
                  sworst, sseen>>
  BY DEF qvars, locals, layerSearch
<1>4. qpc = "search" => Greedy(query)'
  BY <1>3 DEF QueryNearest, Greedy, SearchType, Kept, Expanded, SeenLooked, FullFirst,
              WorstReached
<1> QED
  BY <1>2, <1>3, <1>4 DEF QueryNearest, SeenAsIs, AnswerIsLocalMinimum

(* KnnSearch.AnswerIsLocalMinimum: whatever knnSearch answers on a graph in  *)
(* which no insertion is under way, no connection of the first answer leads  *)
(* nearer to the query, and fewer than k answers are all that the graph      *)
(* leads to, for every graph any number of workers can have made.            *)
THEOREM AnswersAreLocalMinima == ServiceSpec => []AnswerIsLocalMinimum
<1>1. ServiceInit => QueryNearest
  BY DEF ServiceInit, QueryInit, QueryNearest, AnswerIsLocalMinimum
<1>2. /\ TypeInv /\ QueryType /\ QueryNearest /\ [ServiceNext]_<<vars, rvars, qvars>>
      => QueryNearest'
  <2> SUFFICES ASSUME TypeInv, QueryType, QueryNearest, [ServiceNext]_<<vars, rvars, qvars>>
               PROVE  QueryNearest'
    OBVIOUS
  <2>1. CASE UNCHANGED qvars /\ UNCHANGED vars
    BY <2>1 DEF qvars, locals, layerSearch, vars, graph, QueryNearest, Greedy, SearchType, Kept,
                Expanded, SeenLooked, FullFirst, WorstReached, SeenAsIs, AnswerIsLocalMinimum,
                Quiet
  <2>2. CASE Query /\ UNCHANGED vars
    BY <2>2, StepQueryNearest
  <2> QED
    BY <2>1, <2>2, InsertQueryNearest DEF ServiceNext, InTurnNext, Replicate, PairOver
<1>3. QueryNearest => AnswerIsLocalMinimum
  BY DEF QueryNearest
<1> QED
  BY <1>1, <1>2, <1>3, ServiceInserts, TypeInvariance, QueryInvariance, PTL
     DEF ServiceSpec, QueryInv

-------------------------------------------------------------------------------
(* With one worker whose insertions are replicated in turn, the other graph  *)
(* becomes the same.  Either the worker is ahead of the other graph by what  *)
(* it has linked so far, or the last call is behind by what it has yet to    *)
(* link; a list that was extended, and cut if it became too long, is         *)
(* compared with the other graph's list through what becomes of the latter.  *)
Told == {h.node : h \in hooks}

(* What the list long becomes once the vertex c prunes it on level l.        *)
CutTo(long, c, l, list) ==
  IF Len(long) <= Limit(l) THEN list = long
                           ELSE list \in Nearest(Elements(long), Dist[c], Limit(l))

(* The list of the other graph's vertex v, which made itself.                *)
RList(v, l) == rconnections[v][v][l]

(* The jobs: the last one is the one that is being inserted, if any is; all  *)
(* others were handed to the other graph, once, with their levels.           *)
Turns ==
  /\ \A w \in Workers : Active(w) =>
       /\ node[w] = jobs - 1
       /\ pc[w] \in {"first", "table"} => node[w] = 0
       /\ pc[w] \notin {"total", "first", "table"} => node[w] # 0
  /\ \A c \in Ids : c < jobs => c \in Told \/ \E w \in Workers : Inserting(w) /\ node[w] = c
  /\ \A g, h \in hooks : g.node = h.node => g = h
  /\ \A h \in hooks : /\ h.target = levelOf[h.node] /\ (h.live <=> h.node = 0)
                      /\ h.node = 0 => h.target = 0

(* The calls: all but the last have returned; none made a placeholder.       *)
NotStored == {"call", "first", "max", "store"}

Calls ==
  /\ \A c \in Ids :
       /\ rpc[c] # "call" => c \in Told
       /\ c \in Told /\ rpc[c] # "done" => c = jobs - 1
       /\ rpc[c] \notin {"make", "reread"}
       /\ c = 0 => rpc[c] \in {"call", "first", "done"}
       /\ rpc[c] = "first" => c = 0
       /\ rnodes[c] = IF rpc[c] \in NotStored THEN R!None ELSE c
       /\ rpc[c] # "call" => rown[c] = c /\ rlevelOf[c][c] = levelOf[c]

(* The worker is ahead: of the neighbors on the level it links, some are     *)
(* left and one is being linked now; all others have been.                   *)
Left(w, l, j) == pc[w] \in Linking /\ l = layer[w] /\ NotYet(w, j)
Now(w, l, j)  == pc[w] \in Linking /\ l = layer[w] /\ j = idx[w] /\ pc[w] # "link"
Past(w, l, j) == ~Left(w, l, j) /\ ~Now(w, l, j)

AheadBy(w, v, l) ==
  LET list == chosen[w][l] IN
  /\ (\A j \in 1 .. Len(list) : list[j] = v => Left(w, l, j)) => connections[v][l] = RList(v, l)
  /\ \A j \in 1 .. Len(list) : list[j] = v =>
       /\ Now(w, l, j) => connections[v][l] = Append(RList(v, l), node[w])
       /\ Past(w, l, j) => CutTo(Append(RList(v, l), node[w]), node[w], l, connections[v][l])

Ahead(w) ==
  /\ Inserting(w) => \A v \in Ids, l \in Levels : v < node[w] => AheadBy(w, v, l)
  /\ pc[w] \in Choosing => \A l \in Levels :
       (pc[w] \in Linking /\ l = layer[w]) \/ connections[node[w]][l] = chosen[w][l]
  /\ pc[w] \in {"add"} \cup Choosing =>
       /\ layer[w] <= currentMaximumLayer
       /\ \A l \in Levels : chosen[w][l] # <<>> => l <= currentMaximumLayer
  /\ pc[w] = "prune" => Len(snapshot[w]) > Limit(layer[w])

(* The call c is behind: it has everything left, or the levels from one on   *)
(* down, or a part of that level and the levels below.                       *)
RLinking == {"range"} \cup Linking
RLeftLevel(c, l) ==
  \/ rpc[c] \in {"call", "max", "store"}
  \/ rpc[c] = "level" /\ l <= rlayer[c]
  \/ rpc[c] \in RLinking /\ l < rlayer[c]
RLeft(c, l, j) ==
  \/ RLeftLevel(c, l)
  \/ /\ rpc[c] \in RLinking /\ l = rlayer[c]
     /\ j > ridx[c] \/ (j = ridx[c] /\ rpc[c] \in {"range", "link"})
RNow(c, l, j) ==
  rpc[c] \in {"linkSelf", "count", "prune"} /\ l = rlayer[c] /\ j = ridx[c]
RPast(c, l, j) == ~RLeft(c, l, j) /\ ~RNow(c, l, j)

BehindBy(h, v, l) ==
  LET c == h.node
      list == h.neighbors[l] IN
  /\ (\A j \in 1 .. Len(list) : list[j] = v => RPast(c, l, j)) => RList(v, l) = connections[v][l]
  /\ \A j \in 1 .. Len(list) : list[j] = v =>
       /\ RNow(c, l, j) => CutTo(RList(v, l), c, l, connections[v][l])
       /\ RLeft(c, l, j) => CutTo(Append(RList(v, l), c), c, l, connections[v][l])

RMade(c) == IF rpc[c] \in {"range", "link", "linkSelf"} THEN ridx[c] - 1 ELSE ridx[c]

BehindOwn(h, l) ==
  LET c == h.node
      list == h.neighbors[l] IN
  /\ connections[c][l] = list
  /\ RLeftLevel(c, l) => RList(c, l) = <<>>
  /\ rpc[c] \in RLinking /\ l = rlayer[c] =>
       /\ Len(RList(c, l)) = RMade(c)
       /\ \A j \in 1 .. Len(RList(c, l)) : RList(c, l)[j] = list[j]
  /\ ~RLeftLevel(c, l) /\ ~(rpc[c] \in RLinking /\ l = rlayer[c]) => RList(c, l) = list

CallState(h) ==
  LET c == h.node IN
  /\ rpc[c] \in RLinking =>
       /\ rneighbors[c] = h.neighbors[rlayer[c]]
       /\ ridx[c] \in 1 .. Len(rneighbors[c]) + 1
  /\ rpc[c] \in Linking => /\ ridx[c] \in 1 .. Len(rneighbors[c])
                           /\ rneighbor[c] = R!Neighbor(c)
  /\ rpc[c] = "prune" => /\ rsnapshot[c] = RList(rneighbor[c], rlayer[c])
                         /\ Len(rsnapshot[c]) > Limit(rlayer[c])
  /\ rpc[c] = "store" => \A l \in Levels : h.neighbors[l] # <<>> => l <= rlayer[c]
  /\ rpc[c] = "publish" => h.target > rcurrentMaximumLayer

HookLists(h) ==
  \A l \in Levels :
    /\ h.neighbors[l] # <<>> => l <= h.target /\ l <= rcurrentMaximumLayer
    /\ \A i, j \in 1 .. Len(h.neighbors[l]) : h.neighbors[l][i] = h.neighbors[l][j] => i = j
    /\ \A j \in 1 .. Len(h.neighbors[l]) : h.neighbors[l][j] < h.node

Behind(h) ==
  rpc[h.node] # "done" =>
    /\ h.node # 0 => /\ CallState(h) /\ HookLists(h)
                     /\ \A l \in Levels : BehindOwn(h, l)
                     /\ \A v \in Ids, l \in Levels : v < h.node => BehindBy(h, v, l)
    /\ h.node = 0 => \A l \in Levels : connections[0][l] = <<>>

Level ==
  (\A c \in Ids : c < jobs => rpc[c] = "done") =>
     \A v \in Ids, l \in Levels : v < jobs => RList(v, l) = connections[v][l]

(* Vertices nobody has called for have no connections. *)
NotCalled == \A c \in Ids, l \in Levels : rpc[c] = "call" => RList(c, l) = <<>>

(* The entry points are the same once both are published. *)
Raising == \E w \in Workers : pc[w] \in {"lock", "publish"}
RRaising == \E c \in Ids : c \in Told /\ rpc[c] # "done" /\ levelOf[c] > rcurrentMaximumLayer

Tops ==
  /\ \A w \in Workers : pc[w] \in {"table", "publish"} => entryPointID = node[w]
  /\ 0 \in Told /\ rpc[0] # "done" => entryPointID = 0 /\ currentMaximumLayer = 0
  /\ rpc[0] = "done" =>
       /\ (IF Raising THEN jobs - 1 ELSE entryPointID)
            = (IF RRaising THEN jobs - 1 ELSE rentryPointID)
       /\ (IF Raising THEN levelOf[jobs - 1] ELSE currentMaximumLayer)
            = (IF RRaising THEN levelOf[jobs - 1] ELSE rcurrentMaximumLayer)

(* The types of the other graph's variables. *)
RPcValues == {"call", "first", "max", "store", "level", "range", "make", "reread", "link",
              "linkSelf", "count", "prune", "raise", "publish", "done"}

RType ==
  /\ rnodes \in [Ids -> Ids \cup {R!None}]
  /\ rentryPointID \in Ids /\ rcurrentMaximumLayer \in Levels
  /\ rlevelOf \in [Ids -> [Ids -> Levels]]
  /\ rconnections \in [Ids -> [Ids -> [Levels -> Seq(Ids)]]]
  /\ rpc \in [Ids -> RPcValues]
  /\ rown \in [Ids -> Ids \cup {R!None}]
  /\ rlayer \in [Ids -> Levels]
  /\ rneighbors \in [Ids -> Seq(Ids)]
  /\ ridx \in [Ids -> Nat]
  /\ rneighbor \in [Ids -> Ids \cup {R!None}]
  /\ rsnapshot \in [Ids -> Seq(Ids)]

TwinInv == /\ RType /\ Turns /\ Calls /\ Level /\ NotCalled /\ Tops
           /\ \A w \in Workers : Ahead(w)
           /\ \A h \in hooks : Behind(h)

-------------------------------------------------------------------------------
(* If no two ids are equally far, there is one list of the nearest: of two,  *)
(* neither can be closer at the first place at which they differ.            *)
Apart == \A c, a, b \in Ids : a # b => Dist[c][a] # Dist[c][b]

Below == {p \in Nat \X Nat : p[1] < p[2]}

LEMMA BelowWellFounded == IsWellFoundedOn(Below, Nat)
BY NatLessThanWellFounded, Zenon DEF OpToRel, Below

LEMMA LeastNatural ==
  ASSUME NEW T, T \subseteq Nat, T # {}
  PROVE  \E x \in T : \A y \in T : x <= y
<1>1. PICK x \in T : \A y \in T : ~(<<y, x>> \in Below)
  BY BelowWellFounded, WFMin
<1>2. \A y \in T : y < x => <<y, x>> \in Below
  BY DEF Below
<1>3. \A y \in T : ~(y < x)
  BY <1>1, <1>2
<1>4. \A y \in T : x <= y
  BY <1>3
<1> QED
  BY <1>4

(* s begins with the n nearest of S, nearest first.                          *)
IsNearest(S, c, n, s) ==
  /\ s \in [1 .. n -> S]
  /\ \A i, j \in 1 .. n : i < j => s[i] # s[j] /\ Dist[c][s[i]] <= Dist[c][s[j]]
  /\ \A i \in 1 .. n : \A x \in S :
       Dist[c][x] < Dist[c][s[i]] => \E j \in 1 .. n : s[j] = x

LEMMA NotCloser ==
  ASSUME NEW S, S \subseteq Ids, NEW c \in Ids, NEW n \in Nat,
         NEW s, IsNearest(S, c, n, s), NEW t, IsNearest(S, c, n, t),
         NEW i \in 1 .. n, \A j \in 1 .. n : j < i => s[j] = t[j]
  PROVE  ~(Dist[c][s[i]] < Dist[c][t[i]])
<1>0. \A x \in S : Dist[c][x] \in Nat
  BY DistAssumption
<1> SUFFICES ASSUME Dist[c][s[i]] < Dist[c][t[i]]
             PROVE  FALSE
  OBVIOUS
<1>1. s[i] \in S /\ t[i] \in S
  BY DEF IsNearest
<1>2. PICK j \in 1 .. n : t[j] = s[i]
  BY <1>1 DEF IsNearest
<1>3. ~(j < i)
  BY <1>2 DEF IsNearest
<1>4. j # i
  BY <1>0, <1>1, <1>2
<1>5. i < j
  BY <1>3, <1>4
<1>6. Dist[c][t[i]] <= Dist[c][t[j]]
  BY <1>5 DEF IsNearest
<1> QED
  BY <1>0, <1>1, <1>2, <1>6

LEMMA NearestUnique ==
  ASSUME Apart, NEW S, S \subseteq Ids, NEW c \in Ids, NEW k1 \in Nat,
         NEW s \in Nearest(S, Dist[c], k1), NEW t \in Nearest(S, Dist[c], k1)
  PROVE  s = t
<1>1. IsFiniteSet(S) /\ Cardinality(S) \in Nat
  BY IdsFinite
<1>2. PICK n \in Nat : n = (IF Cardinality(S) < k1 THEN Cardinality(S) ELSE k1)
  BY <1>1
<1>3. IsNearest(S, c, n, s) /\ IsNearest(S, c, n, t)
  BY <1>2 DEF Nearest, IsNearest
<1>4. s \in [1 .. n -> S] /\ t \in [1 .. n -> S]
  BY <1>3 DEF IsNearest
<1> DEFINE T == {i \in 1 .. n : s[i] # t[i]}
<1>5. SUFFICES ASSUME T # {}
               PROVE  FALSE
  BY <1>4
<1>6. PICK i \in T : \A j \in T : i <= j
  <2>1. T \subseteq Nat
    OBVIOUS
  <2> HIDE DEF T
  <2> QED
    BY <1>5, <2>1, LeastNatural
<1>7. i \in 1 .. n /\ s[i] # t[i]
  OBVIOUS
<1>8. \A j \in 1 .. n : j < i => s[j] = t[j]
  BY <1>6
<1>9. ~(Dist[c][s[i]] < Dist[c][t[i]])
  BY <1>3, <1>7, <1>8, NotCloser
<1>10. ~(Dist[c][t[i]] < Dist[c][s[i]])
  BY <1>3, <1>7, <1>8, NotCloser
<1>11. s[i] \in Ids /\ t[i] \in Ids
  BY <1>4, <1>7
<1>12. Dist[c][s[i]] \in Nat /\ Dist[c][t[i]] \in Nat
  BY <1>11, DistAssumption
<1>13. Dist[c][s[i]] # Dist[c][t[i]]
  BY <1>7, <1>11 DEF Apart
<1> QED
  BY <1>9, <1>10, <1>12, <1>13

-------------------------------------------------------------------------------
(* What the other graph is told.                                             *)
LEMMA HookType ==
  ASSUME TypeInv, NEW h \in hooks
  PROVE  /\ h.node \in Ids /\ h.target \in Levels /\ h.live \in BOOLEAN
         /\ h.neighbors \in [Levels -> Seq(Ids)]
         /\ h.node \in Told
BY DEF TypeInv, TypeOK, Hooks, Told

LEMMA SentOf ==
  ASSUME TypeInv, Turns, NEW h \in hooks
  PROVE  /\ Sent[h.node].sent
         /\ Sent[h.node].target = h.target
         /\ h.node # 0 => Sent[h.node].neighbors = h.neighbors
<1>1. h.node \in Ids /\ \E g \in hooks : g.node = h.node
  BY HookType
<1>2. (CHOOSE g \in hooks : g.node = h.node) = h
  BY DEF Turns
<1>3. h.node # 0 => ~h.live
  BY HookType DEF Turns
<1> QED
  BY <1>1, <1>2, <1>3 DEF Sent

LEMMA NotSent ==
  ASSUME NEW c \in Ids, c \notin Told
  PROVE  ~Sent[c].sent
<1>1. ~\E g \in hooks : g.node = c
  BY DEF Told
<1> QED
  BY <1>1 DEF Sent

LEMMA ReplicatedMeans ==
  ASSUME TypeInv, Turns
  PROVE  AllReplicated <=> \A c \in Told : rpc[c] = "done"
<1>1. ASSUME NEW c \in Told PROVE c \in Ids /\ Sent[c].sent
  BY HookType, SentOf DEF Told
<1> QED
  BY <1>1, NotSent DEF AllReplicated

LEMMA JobNumbers ==
  ASSUME TypeInv
  PROVE  jobs \in Nat /\ (\A c \in Ids : c \in Nat) /\ \A w \in Workers : node[w] \in Ids
BY IdsAndLevels, NAssumption DEF TypeInv, TypeOK

(* A call that has not returned is the last one, and nobody inserts.         *)
LEMMA Alone ==
  ASSUME TypeInv, BornInv, Turns, Calls, NEW c \in Told, rpc[c] # "done"
  PROVE  c \in Ids /\ c = jobs - 1 /\ \A w \in Workers : ~Inserting(w)
<1>1. PICK h \in hooks : h.node = c
  BY DEF Told
<1>2. c \in Ids
  BY <1>1, HookType
<1>3. c = jobs - 1
  BY <1>2 DEF Calls
<1>4. \A w \in Workers : Inserting(w) => node[w] # c /\ node[w] = jobs - 1
  BY <1>1 DEF BornInv, HooksBorn, Inserting, Active, Turns
<1> QED
  BY <1>2, <1>3, <1>4

(* All before the last have returned.                                        *)
LEMMA Returned ==
  ASSUME TypeInv, Turns, Calls, NEW c \in Ids, c < jobs - 1
  PROVE  c \in Told /\ rpc[c] = "done"
<1>1. \A w \in Workers : Inserting(w) => node[w] = jobs - 1
  BY DEF Inserting, Active, Turns
<1>2. c < jobs /\ c # jobs - 1
  BY JobNumbers
<1>3. c \in Told
  BY <1>1, <1>2 DEF Turns
<1> QED
  BY <1>2, <1>3 DEF Calls

LEMMA CallOf ==
  ASSUME Calls, NEW c \in Ids, R!InsertFromExternal(c)
  PROVE  c \in Told /\ rpc[c] # "done"
<1>1. rpc[c] # "done"
  BY DEF R!InsertFromExternal, R!Lookup, R!First, R!ReadMaximumLayer, R!Store, R!EnterLevel,
         R!NextLevel, R!FindNeighbor, R!MakePlaceholder, R!RereadPlaceholder, R!LinkNeighbor,
         R!LinkSelf, R!CountNeighbor, R!Prune, R!CheckMaximumLayer, R!Publish
<1>2. rpc[c] = "call" => Sent[c].sent
  BY DEF R!InsertFromExternal, R!Lookup, R!First, R!ReadMaximumLayer, R!Store, R!EnterLevel,
         R!NextLevel, R!FindNeighbor, R!MakePlaceholder, R!RereadPlaceholder, R!LinkNeighbor,
         R!LinkSelf, R!CountNeighbor, R!Prune, R!CheckMaximumLayer, R!Publish
<1> QED
  BY <1>1, <1>2, NotSent DEF Calls

(* A call leaves the locals of the others alone.                             *)
RElsewhere(c) ==
  \A d \in Ids \ {c} :
    /\ rpc'[d] = rpc[d] /\ rown'[d] = rown[d] /\ rlayer'[d] = rlayer[d]
    /\ rneighbors'[d] = rneighbors[d] /\ ridx'[d] = ridx[d]
    /\ rneighbor'[d] = rneighbor[d] /\ rsnapshot'[d] = rsnapshot[d]
    /\ rlevelOf'[d] = rlevelOf[d]

LEMMA CallElsewhere ==
  ASSUME RType, NEW c \in Ids, R!InsertFromExternal(c)
  PROVE  RElsewhere(c)
<1>0. /\ rpc \in [Ids -> RPcValues] /\ rown \in [Ids -> Ids \cup {R!None}]
      /\ rlayer \in [Ids -> Levels] /\ rneighbors \in [Ids -> Seq(Ids)] /\ ridx \in [Ids -> Nat]
      /\ rneighbor \in [Ids -> Ids \cup {R!None}] /\ rsnapshot \in [Ids -> Seq(Ids)]
      /\ rlevelOf \in [Ids -> [Ids -> Levels]]
  BY DEF RType
<1>1. CASE R!Lookup(c) \/ R!First(c)
  <2>1. /\ \E p : rpc' = [rpc EXCEPT ![c] = p]
        /\ rown' = rown \/ \E p : rown' = [rown EXCEPT ![c] = p]
        /\ \E x, p : rlevelOf' = [rlevelOf EXCEPT ![c][x] = p]
        /\ UNCHANGED <<rlayer, rneighbors, ridx, rneighbor, rsnapshot>>
    BY <1>1 DEF R!Lookup, R!First
  <2>2. \A d \in Ids \ {c} : rpc'[d] = rpc[d]
    BY <1>0, <2>1
  <2>3. \A d \in Ids \ {c} : rown'[d] = rown[d]
    BY <1>0, <2>1
  <2>4. \A d \in Ids \ {c} : rlevelOf'[d] = rlevelOf[d]
    BY <1>0, <2>1
  <2> QED
    BY <2>1, <2>2, <2>3, <2>4 DEF RElsewhere
<1>2. CASE ~(R!Lookup(c) \/ R!First(c))
  <2>1. /\ rpc' = rpc \/ \E p : rpc' = [rpc EXCEPT ![c] = p]
        /\ rown' = rown /\ rlevelOf' = rlevelOf
        /\ rlayer' = rlayer \/ \E p : rlayer' = [rlayer EXCEPT ![c] = p]
        /\ rneighbors' = rneighbors \/ \E p : rneighbors' = [rneighbors EXCEPT ![c] = p]
        /\ ridx' = ridx \/ \E p : ridx' = [ridx EXCEPT ![c] = p]
        /\ rneighbor' = rneighbor \/ \E p : rneighbor' = [rneighbor EXCEPT ![c] = p]
        /\ rsnapshot' = rsnapshot \/ \E p : rsnapshot' = [rsnapshot EXCEPT ![c] = p]
    BY <1>2, Zenon DEF R!InsertFromExternal, R!ReadMaximumLayer, R!Store, R!EnterLevel, R!graph,
         R!NextLevel, R!NextNeighbor, R!FindNeighbor, R!MakePlaceholder, R!RereadPlaceholder,
         R!LinkNeighbor, R!LinkSelf, R!CountNeighbor, R!Prune, R!CheckMaximumLayer, R!Publish
  <2>2. \A d \in Ids \ {c} : rpc'[d] = rpc[d]
    BY <1>0, <2>1
  <2>3. \A d \in Ids \ {c} : rlayer'[d] = rlayer[d]
    BY <1>0, <2>1
  <2>4. \A d \in Ids \ {c} : rneighbors'[d] = rneighbors[d]
    BY <1>0, <2>1
  <2>5. \A d \in Ids \ {c} : ridx'[d] = ridx[d]
    BY <1>0, <2>1
  <2>6. \A d \in Ids \ {c} : rneighbor'[d] = rneighbor[d]
    BY <1>0, <2>1
  <2>7. \A d \in Ids \ {c} : rsnapshot'[d] = rsnapshot[d]
    BY <1>0, <2>1, SMTT(60)
  <2> QED
    BY <2>1, <2>2, <2>3, <2>4, <2>5, <2>6, <2>7 DEF RElsewhere
<1> QED
  BY <1>1, <1>2

-------------------------------------------------------------------------------
(* The neighbor a call has come to is one that is stored, with the id as its *)
(* maker, and is in the list once.                                           *)
LEMMA CallNeighbor ==
  ASSUME TypeInv, Turns, Calls, RType, NEW h \in hooks, NEW c, c = h.node, Behind(h),
         rpc[c] \in RLinking, ridx[c] \in 1 .. Len(rneighbors[c])
  PROVE  /\ c \in Ids /\ c # 0 /\ rlayer[c] \in Levels
         /\ ridx[c] \in 1 .. Len(h.neighbors[rlayer[c]])
         /\ R!Neighbor(c) = h.neighbors[rlayer[c]][ridx[c]]
         /\ R!Neighbor(c) \in Ids /\ R!Neighbor(c) < c /\ R!Neighbor(c) # c
         /\ rpc[R!Neighbor(c)] = "done" /\ rnodes[R!Neighbor(c)] = R!Neighbor(c)
         /\ \A j \in 1 .. Len(h.neighbors[rlayer[c]]) :
              h.neighbors[rlayer[c]][j] = R!Neighbor(c) => j = ridx[c]
<1>1. c \in Ids /\ c \in Told /\ rlayer[c] \in Levels
      /\ h.neighbors[rlayer[c]] \in Seq(Ids)
  BY HookType DEF RType
<1>2. rpc[c] # "done" /\ c # 0
  BY <1>1 DEF RLinking, Linking, Calls
<1>3. CallState(h) /\ HookLists(h) /\ c = jobs - 1
  BY <1>1, <1>2 DEF Behind, Calls
<1>4. rneighbors[c] = h.neighbors[rlayer[c]]
  BY <1>3 DEF CallState
<1>5. PICK list \in Seq(Ids) : list = h.neighbors[rlayer[c]]
  BY <1>1
<1>6. PICK i \in 1 .. Len(list) : i = ridx[c]
  BY <1>4, <1>5
<1>7. R!Neighbor(c) = list[i]
  BY <1>4, <1>5, <1>6 DEF R!Neighbor
<1>8. list[i] \in Ids /\ list[i] < c
  BY <1>1, <1>3, <1>5 DEF HookLists
<1>9. \A j \in 1 .. Len(list) : list[j] = list[i] => j = i
  BY <1>1, <1>3, <1>5 DEF HookLists
<1>10. rpc[list[i]] = "done"
  BY <1>3, <1>8, Returned
<1>11. rnodes[list[i]] = list[i]
  BY <1>8, <1>10 DEF Calls, NotStored
<1>12. list[i] # c
  BY <1>1, <1>8, JobNumbers
<1> QED
  BY <1>1, <1>2, <1>5, <1>6, <1>7, <1>8, <1>9, <1>10, <1>11, <1>12

(* Module Replica brings its own names of what both graphs have in common.   *)
LEMMA CommonCardinality ==
  ASSUME NEW S PROVE R!Cardinality(S) = Cardinality(S)
BY DEF R!Cardinality, Cardinality, R!IsFiniteSet, IsFiniteSet

LEMMA CommonNames ==
  /\ R!Ids = Ids /\ R!Levels = Levels /\ R!Unlinked = Unlinked
  /\ \A l : R!Limit(l) = Limit(l)
  /\ \A s : R!Elements(s) = Elements(s)
  /\ \A S, d, n : R!Nearest(S, d, n) = Nearest(S, d, n)
BY CommonCardinality
   DEF R!Ids, R!Levels, R!Unlinked, R!Limit, R!Elements, R!Nearest,
       Ids, Levels, Unlinked, Limit, Elements, Nearest

(* What a step of a call does to the lists.                                  *)
RKeeps ==
  /\ rconnections' \in [Ids -> [Ids -> [Levels -> Seq(Ids)]]]
  /\ \A u \in Ids, m \in Levels : RList(u, m)' = RList(u, m)

RSets(v, l, s) ==
  /\ rconnections' \in [Ids -> [Ids -> [Levels -> Seq(Ids)]]]
  /\ \A u \in Ids, m \in Levels :
       RList(u, m)' = IF u = v /\ m = l THEN s ELSE RList(u, m)

LEMMA RReplace ==
  ASSUME RType, NEW v \in Ids, NEW l \in Levels, NEW s \in Seq(Ids),
         rconnections' = [rconnections EXCEPT ![v][v][l] = s]
  PROVE  RSets(v, l, s)
BY DEF RType, RSets, RList

LEMMA RAppend ==
  ASSUME RType, NEW v \in Ids, NEW l \in Levels, NEW x \in Ids,
         rconnections' = [rconnections EXCEPT ![v][v][l] = Append(@, x)]
  PROVE  RSets(v, l, Append(RList(v, l), x)) /\ RList(v, l) \in Seq(Ids)
<1>1. RList(v, l) \in Seq(Ids)
  BY DEF RType, RList
<1>2. PICK longer \in Seq(Ids) : longer = Append(RList(v, l), x)
  <2>1. Append(RList(v, l), x) \in Seq(Ids)
    BY <1>1
  <2> QED
    BY <2>1
<1>3. rconnections' = [rconnections EXCEPT ![v][v][l] = longer]
  BY <1>2 DEF RList
<1>4. RSets(v, l, longer)
  BY <1>3, RReplace
<1> QED
  BY <1>1, <1>2, <1>4

LEMMA RListType ==
  ASSUME RType, NEW v \in Ids, NEW l \in Levels
  PROVE  RList(v, l) \in Seq(Ids)
BY DEF RType, RList

LEMMA StepRLists ==
  ASSUME TypeInv, Turns, Calls, RType, NEW h \in hooks, NEW c, c = h.node, Behind(h),
         R!InsertFromExternal(c)
  PROVE  \/ RKeeps /\ ~R!First(c) /\ ~R!LinkNeighbor(c) /\ ~R!LinkSelf(c) /\ ~R!Prune(c)
         \/ /\ R!First(c) /\ c = 0 /\ rconnections' \in [Ids -> [Ids -> [Levels -> Seq(Ids)]]]
            /\ \A u \in Ids, m \in Levels :
                 RList(u, m)' = IF u = c THEN <<>> ELSE RList(u, m)
         \/ R!LinkNeighbor(c) /\ rpc[c] = "link"
              /\ RSets(R!Neighbor(c), rlayer[c], Append(RList(R!Neighbor(c), rlayer[c]), c))
         \/ R!LinkSelf(c) /\ rpc[c] = "linkSelf"
              /\ RSets(c, rlayer[c], Append(RList(c, rlayer[c]), R!Neighbor(c)))
         \/ R!Prune(c) /\ rpc[c] = "prune"
              /\ \E s \in Nearest(Elements(rsnapshot[c]), Dist[c], Limit(rlayer[c])) :
                   RSets(R!Neighbor(c), rlayer[c], s)
<1>0. c \in Ids /\ c \in Told
  BY HookType
<1>1. ASSUME rpc[c] \in Linking
      PROVE  /\ R!Neighbor(c) \in Ids /\ rlayer[c] \in Levels /\ rneighbor[c] = R!Neighbor(c)
             /\ rown[c] = c
  <2>1. rpc[c] \notin {"call", "first", "done"}
    BY <1>1 DEF Linking
  <2>2. c # 0 /\ rown[c] = c
    BY <1>0, <2>1 DEF Calls
  <2>3. CallState(h)
    BY <2>1, <2>2 DEF Behind
  <2>4. ridx[c] \in 1 .. Len(rneighbors[c]) /\ rneighbor[c] = R!Neighbor(c)
    BY <1>1, <2>3 DEF CallState
  <2>5. rpc[c] \in RLinking
    BY <1>1 DEF RLinking
  <2>6. R!Neighbor(c) \in Ids /\ rlayer[c] \in Levels
    BY <2>4, <2>5, CallNeighbor
  <2> QED
    BY <2>2, <2>4, <2>6
<1>2. CASE R!First(c)
  <2>1. rpc[c] = "first" /\ rconnections' = [rconnections EXCEPT ![c][rown[c]] = Unlinked]
    BY <1>2, CommonNames DEF R!First
  <2>2. rown[c] = c /\ c = 0
    BY <1>0, <2>1 DEF Calls
  <2>3. rconnections' = [rconnections EXCEPT ![c][c] = Unlinked]
    BY <2>1, <2>2, SMTT(60)
  <2> QED
    BY <1>0, <1>2, <2>2, <2>3, UnlinkedType DEF RType, RList
<1>3. CASE R!LinkNeighbor(c)
  <2>1. /\ rpc[c] = "link"
        /\ rconnections' = [rconnections EXCEPT ![R!Neighbor(c)][rneighbor[c]][rlayer[c]] = Append(@, c)]
    BY <1>3 DEF R!LinkNeighbor, R!Neighbor
  <2>2. PICK v \in Ids : v = R!Neighbor(c) /\ v = rneighbor[c] /\ rlayer[c] \in Levels
    BY <1>1, <2>1 DEF Linking
  <2>3. rconnections' = [rconnections EXCEPT ![v][v][rlayer[c]] = Append(@, c)]
    BY <2>1, <2>2
  <2> QED
    BY <1>0, <1>3, <2>1, <2>2, <2>3, RAppend, ZenonT(60)
<1>4. CASE R!LinkSelf(c)
  <2>1. /\ rpc[c] = "linkSelf"
        /\ rconnections' = [rconnections EXCEPT ![c][rown[c]][rlayer[c]] = Append(@, R!Neighbor(c))]
    BY <1>4 DEF R!LinkSelf, R!Neighbor
  <2>2. PICK v \in Ids : v = R!Neighbor(c) /\ rown[c] = c /\ rlayer[c] \in Levels
    BY <1>1, <2>1 DEF Linking
  <2>3. rconnections' = [rconnections EXCEPT ![c][c][rlayer[c]] = Append(@, v)]
    BY <2>1, <2>2
  <2> QED
    BY <1>0, <1>4, <2>1, <2>2, <2>3, RAppend
<1>5. CASE R!Prune(c)
  <2>1. rpc[c] = "prune"
    BY <1>5 DEF R!Prune
  <2>2. PICK s \in Nearest(Elements(rsnapshot[c]), Dist[c], Limit(rlayer[c])) :
          rconnections' = [rconnections EXCEPT ![R!Neighbor(c)][rneighbor[c]][rlayer[c]] = s]
    BY <1>5, CommonNames DEF R!Prune
  <2>3. PICK v \in Ids : v = R!Neighbor(c) /\ v = rneighbor[c] /\ rlayer[c] \in Levels
    BY <1>1, <2>1 DEF Linking
  <2>4. rconnections' = [rconnections EXCEPT ![v][v][rlayer[c]] = s]
    BY <2>2, <2>3
  <2>5. s \in Seq(Ids)
    <3>1. Elements(rsnapshot[c]) \subseteq Ids
      BY <1>0, ElementsOf DEF RType
    <3> QED
      BY <2>2, <2>3, <3>1, NearestList, LimitType
  <2> QED
    BY <1>5, <2>1, <2>2, <2>3, <2>4, <2>5, RReplace
<1>6. CASE ~(R!First(c) \/ R!LinkNeighbor(c) \/ R!LinkSelf(c) \/ R!Prune(c))
  <2>1. rconnections' = rconnections
    BY <1>6, Zenon DEF R!InsertFromExternal, R!Lookup, R!ReadMaximumLayer, R!Store, R!EnterLevel,
         R!graph, R!NextLevel, R!FindNeighbor, R!MakePlaceholder, R!RereadPlaceholder,
         R!CountNeighbor, R!CheckMaximumLayer, R!Publish
  <2> QED
    BY <1>6, <2>1 DEF RKeeps, RType, RList
<1> QED
  BY <1>2, <1>3, <1>4, <1>5, <1>6

LEMMA RLower ==
  ASSUME NEW a \in Levels, NEW b \in Levels
  PROVE  /\ R!Lower(a, b) \in Levels
         /\ \A l \in Levels : l <= a /\ l <= b => l <= R!Lower(a, b)
BY DEF R!Lower

(* The types are kept by the steps of a call that has its arguments.         *)
LEMMA StepRType ==
  ASSUME TypeInv, Turns, Calls, RType, NEW h \in hooks, NEW c, c = h.node, Behind(h),
         R!InsertFromExternal(c)
  PROVE  RType'
<1>0. /\ c \in Ids /\ c \in Told /\ h.target \in Levels /\ Sent[c].target = h.target
      /\ 0 \in Levels /\ h.neighbors \in [Levels -> Seq(Ids)]
      /\ c # 0 => Sent[c].neighbors = h.neighbors
      /\ <<>> \in Seq(Ids)
  BY HookType, SentOf, IdsAndLevels
<1>1. rconnections' \in [Ids -> [Ids -> [Levels -> Seq(Ids)]]]
  BY StepRLists DEF RKeeps, RSets
<1>2. CASE R!Lookup(c)
  <2>1. PICK mine \in Ids \cup {R!None}, p \in {"first", "max"} :
          /\ rown' = [rown EXCEPT ![c] = mine]
          /\ rlevelOf' = [rlevelOf EXCEPT ![c][mine] = h.target]
          /\ rpc' = [rpc EXCEPT ![c] = p]
          /\ UNCHANGED <<rnodes, rentryPointID, rcurrentMaximumLayer, rlayer, rneighbors,
                         ridx, rneighbor, rsnapshot>>
    BY <1>0, <1>2 DEF R!Lookup, RType
  <2> QED
    BY <1>0, <1>1, <2>1 DEF RType, RPcValues
<1>3. CASE R!First(c)
  <2>1. rpc[c] = "first" /\ rown[c] = c
    BY <1>0, <1>3 DEF R!First, Calls
  <2>2. /\ rlevelOf' = [rlevelOf EXCEPT ![c][c] = 0]
        /\ rnodes' = [v \in Ids |-> IF v = c THEN c ELSE R!None]
        /\ rpc' = [rpc EXCEPT ![c] = "done"] /\ rentryPointID' = c /\ rcurrentMaximumLayer' = 0
        /\ UNCHANGED <<rown, rlayer, rneighbors, ridx, rneighbor, rsnapshot>>
    BY <1>3, <2>1, CommonNames DEF R!First
  <2> QED
    BY <1>0, <1>1, <2>2 DEF RType, RPcValues
<1>4. CASE R!ReadMaximumLayer(c)
  <2>1. R!Lower(h.target, rcurrentMaximumLayer) \in Levels
    BY <1>0, RLower DEF RType
  <2>2. PICK m : m = R!Lower(h.target, rcurrentMaximumLayer)
    OBVIOUS
  <2>3. /\ rlayer' = [rlayer EXCEPT ![c] = m] /\ rpc' = [rpc EXCEPT ![c] = "store"]
        /\ UNCHANGED <<rnodes, rentryPointID, rcurrentMaximumLayer, rlevelOf, rown,
                       rneighbors, ridx, rneighbor, rsnapshot>>
    BY <1>0, <1>4, <2>2 DEF R!ReadMaximumLayer, R!graph
  <2>4. m \in Levels
    BY <2>1, <2>2
  <2> QED
    BY <1>0, <1>1, <2>3, <2>4 DEF RType, RPcValues
<1>5. CASE R!Store(c)
  BY <1>0, <1>1, <1>5 DEF R!Store, RType, RPcValues
<1>6. CASE R!EnterLevel(c)
  <2>1. c # 0
    BY <1>0, <1>6 DEF R!EnterLevel, Calls
  <2>2. /\ rneighbors' = [rneighbors EXCEPT ![c] = h.neighbors[rlayer[c]]]
        /\ h.neighbors[rlayer[c]] \in Seq(Ids)
    BY <1>0, <1>6, <2>1 DEF R!EnterLevel, RType
  <2> QED
    BY <1>0, <1>1, <1>6, <2>2 DEF R!EnterLevel, R!graph, RType, RPcValues
<1>7. CASE R!NextLevel(c)
  <2>1. rlayer' \in [Ids -> Levels]
    <3>1. rlayer[c] > 0 => rlayer[c] - 1 \in Levels
      BY <1>0, IdsAndLevels DEF RType
    <3> QED
      BY <1>0, <1>7, <3>1 DEF R!NextLevel, RType
  <2> QED
    BY <1>0, <1>1, <1>7, <2>1 DEF R!NextLevel, R!graph, RType, RPcValues
<1>8. CASE R!FindNeighbor(c)
  <2>1. rpc[c] = "range" /\ ridx[c] <= Len(rneighbors[c])
    BY <1>8 DEF R!FindNeighbor
  <2>2. c # 0 /\ CallState(h)
    BY <1>0, <2>1 DEF Calls, Behind
  <2>3. ridx[c] \in 1 .. Len(rneighbors[c])
    BY <1>0, <2>1, <2>2 DEF CallState, RLinking, RType
  <2>4. PICK v \in Ids : v = R!Neighbor(c) /\ rnodes[v] = v
    BY <2>1, <2>3, CallNeighbor DEF RLinking
  <2>5. rnodes[v] # R!None
    BY <2>4, NAssumption DEF R!None, Ids
  <2>6. /\ rneighbor' = [rneighbor EXCEPT ![c] = v] /\ rpc' = [rpc EXCEPT ![c] = "link"]
        /\ UNCHANGED <<rnodes, rentryPointID, rcurrentMaximumLayer, rlevelOf, rown, rlayer,
                       rneighbors, ridx, rsnapshot>>
    BY <1>8, <2>4, <2>5 DEF R!FindNeighbor, R!graph
  <2> QED
    BY <1>0, <1>1, <2>6 DEF RType, RPcValues
<1>9. CASE R!MakePlaceholder(c) \/ R!RereadPlaceholder(c)
  BY <1>0, <1>9 DEF R!MakePlaceholder, R!RereadPlaceholder, Calls
<1>10. CASE R!LinkNeighbor(c) \/ R!LinkSelf(c)
  <2>1. /\ \E p \in {"linkSelf", "count"} : rpc' = [rpc EXCEPT ![c] = p]
        /\ UNCHANGED <<rnodes, rentryPointID, rcurrentMaximumLayer, rlevelOf, rown, rlayer,
                       rneighbors, ridx, rneighbor, rsnapshot>>
    BY <1>10 DEF R!LinkNeighbor, R!LinkSelf
  <2> QED
    BY <1>0, <1>1, <2>1 DEF RType, RPcValues
<1>11. ASSUME R!NextNeighbor(c),
              UNCHANGED <<rnodes, rentryPointID, rcurrentMaximumLayer, rlevelOf, rown, rlayer,
                          rneighbors>>
       PROVE  RType'
  <2>1. /\ ridx' = [ridx EXCEPT ![c] = ridx[c] + 1]
        /\ rneighbor' = [rneighbor EXCEPT ![c] = R!None]
        /\ rsnapshot' = [rsnapshot EXCEPT ![c] = <<>>]
        /\ rpc' = [rpc EXCEPT ![c] = "range"]
    BY <1>11 DEF R!NextNeighbor
  <2>a. c \in Ids /\ ridx \in [Ids -> Nat]
    BY <1>0 DEF RType
  <2>b. ridx[c] \in Nat
    BY ONLY <2>a
  <2>2. ridx[c] + 1 \in Nat
    BY ONLY <2>b
  <2> QED
    BY <1>0, <1>1, <1>11, <2>1, <2>2 DEF RType, RPcValues
<1>12. CASE R!CountNeighbor(c) \/ R!Prune(c)
  <2>1. UNCHANGED <<rnodes, rentryPointID, rcurrentMaximumLayer, rlevelOf, rown, rlayer, rneighbors>>
    BY <1>12 DEF R!CountNeighbor, R!Prune, R!graph
  <2>2. CASE R!NextNeighbor(c)
    BY <1>11, <2>1, <2>2
  <2>3. CASE R!CountNeighbor(c) /\ ~R!NextNeighbor(c)
    <3>1. /\ rsnapshot' = [rsnapshot EXCEPT
                ![c] = rconnections[R!Neighbor(c)][rneighbor[c]][rlayer[c]]]
          /\ rpc' = [rpc EXCEPT ![c] = "prune"] /\ UNCHANGED <<ridx, rneighbor>>
          /\ rpc[c] = "count"
      BY <2>3 DEF R!CountNeighbor
    <3>2. c # 0 /\ CallState(h)
      BY <1>0, <3>1 DEF Calls, Behind
    <3>3. ridx[c] \in 1 .. Len(rneighbors[c]) /\ rneighbor[c] = R!Neighbor(c)
      BY <3>1, <3>2 DEF CallState, Linking
    <3>a. rpc[c] \in RLinking
      BY <3>1 DEF RLinking, Linking
    <3>4. PICK v \in Ids : v = R!Neighbor(c) /\ rlayer[c] \in Levels
      BY <3>a, <3>3, CallNeighbor
    <3>b. v \in Ids /\ rlayer[c] \in Levels
          /\ rconnections \in [Ids -> [Ids -> [Levels -> Seq(Ids)]]]
      BY <3>4 DEF RType
    <3>5. rconnections[v][v][rlayer[c]] \in Seq(Ids)
      BY ONLY <3>b
    <3> QED
      BY <1>0, <1>1, <2>1, <3>1, <3>3, <3>4, <3>5 DEF RType, RPcValues
  <2> QED
    BY <1>12, <2>2, <2>3 DEF R!Prune
<1>13. CASE R!CheckMaximumLayer(c)
  BY <1>0, <1>1, <1>13 DEF R!CheckMaximumLayer, R!graph, RType, RPcValues
<1>14. CASE R!Publish(c)
  BY <1>0, <1>1, <1>14 DEF R!Publish, RType, RPcValues
<1> QED
  BY <1>2, <1>3, <1>4, <1>5, <1>6, <1>7, <1>8, <1>9, <1>10, <1>12, <1>13, <1>14
     DEF R!InsertFromExternal

-------------------------------------------------------------------------------
(* What each step of a call does, with the arguments and the vertices it has. *)
CallTo(c, from, to, l, i) ==
  /\ rpc[c] = from /\ rpc'[c] = to /\ rlayer'[c] = l /\ ridx'[c] = i
  /\ rown' = rown /\ rlevelOf' = rlevelOf

RGraphKept == UNCHANGED <<rnodes, rentryPointID, rcurrentMaximumLayer>>

OnLevel(c) == rneighbors'[c] = rneighbors[c] /\ rneighbor'[c] = rneighbor[c]

ByLookup(h, c) ==
  /\ rpc[c] = "call" /\ rown'[c] = c /\ rlevelOf'[c][c] = h.target
  /\ rpc'[c] = IF \A v \in Ids : rnodes[v] = R!None THEN "first" ELSE "max"
  /\ RKeeps /\ RGraphKept

ByFirst(c) ==
  /\ rpc[c] = "first" /\ rpc'[c] = "done" /\ rown' = rown /\ rlevelOf'[c][c] = 0
  /\ rentryPointID' = c /\ rcurrentMaximumLayer' = 0
  /\ rnodes' = [v \in Ids |-> IF v = c THEN c ELSE R!None]
  /\ \A u \in Ids, m \in Levels : RList(u, m)' = IF u = c THEN <<>> ELSE RList(u, m)

ByReadMaximumLayer(h, c) ==
  /\ CallTo(c, "max", "store", R!Lower(h.target, rcurrentMaximumLayer), ridx[c])
  /\ RKeeps /\ RGraphKept

ByStore(c) ==
  /\ CallTo(c, "store", "level", rlayer[c], ridx[c])
  /\ rnodes' = [rnodes EXCEPT ![c] = c]
  /\ RKeeps /\ UNCHANGED <<rentryPointID, rcurrentMaximumLayer>>

ByEnterLevel(h, c) ==
  /\ CallTo(c, "level", "range", rlayer[c], 1)
  /\ rneighbors'[c] = h.neighbors[rlayer[c]]
  /\ RKeeps /\ RGraphKept

ByNextLevel(c) ==
  /\ ridx[c] > Len(rneighbors[c])
  /\ \/ rlayer[c] > 0 /\ CallTo(c, "range", "level", rlayer[c] - 1, ridx[c])
     \/ rlayer[c] = 0 /\ CallTo(c, "range", "raise", rlayer[c], ridx[c])
  /\ RKeeps /\ RGraphKept

ByFindNeighbor(c) ==
  /\ ridx[c] \in 1 .. Len(rneighbors[c])
  /\ CallTo(c, "range", "link", rlayer[c], ridx[c])
  /\ rneighbors'[c] = rneighbors[c] /\ rneighbor'[c] = R!Neighbor(c)
  /\ RKeeps /\ RGraphKept

ByLinkNeighbor(c) ==
  /\ CallTo(c, "link", "linkSelf", rlayer[c], ridx[c]) /\ OnLevel(c)
  /\ RSets(R!Neighbor(c), rlayer[c], Append(RList(R!Neighbor(c), rlayer[c]), c))
  /\ RGraphKept

ByLinkSelf(c) ==
  /\ CallTo(c, "linkSelf", "count", rlayer[c], ridx[c]) /\ OnLevel(c)
  /\ RSets(c, rlayer[c], Append(RList(c, rlayer[c]), R!Neighbor(c)))
  /\ RGraphKept

ByCountNeighbor(c) ==
  /\ rneighbors'[c] = rneighbors[c]
  /\ Len(RList(R!Neighbor(c), rlayer[c])) <= Limit(rlayer[c])
  /\ CallTo(c, "count", "range", rlayer[c], ridx[c] + 1)
  /\ RKeeps /\ RGraphKept

ByFindingMany(c) ==
  /\ CallTo(c, "count", "prune", rlayer[c], ridx[c]) /\ OnLevel(c)
  /\ Len(RList(R!Neighbor(c), rlayer[c])) > Limit(rlayer[c])
  /\ rsnapshot'[c] = RList(R!Neighbor(c), rlayer[c])
  /\ RKeeps /\ RGraphKept

ByPrune(c) ==
  /\ rneighbors'[c] = rneighbors[c]
  /\ CallTo(c, "prune", "range", rlayer[c], ridx[c] + 1)
  /\ \E s \in Nearest(Elements(rsnapshot[c]), Dist[c], Limit(rlayer[c])) :
       RSets(R!Neighbor(c), rlayer[c], s)
  /\ RGraphKept

ByCheckMaximumLayer(h, c) ==
  /\ CallTo(c, "raise", IF h.target > rcurrentMaximumLayer THEN "publish" ELSE "done",
            rlayer[c], 0)
  /\ RKeeps /\ RGraphKept

ByPublish(h, c) ==
  /\ CallTo(c, "publish", "done", rlayer[c], ridx[c])
  /\ rentryPointID' = c /\ rcurrentMaximumLayer' = h.target
  /\ RKeeps /\ UNCHANGED rnodes

LEMMA CallCases ==
  ASSUME TypeInv, Turns, Calls, RType, NEW h \in hooks, NEW c, c = h.node, Behind(h),
         R!InsertFromExternal(c)
  PROVE  \/ ByLookup(h, c) \/ ByFirst(c) \/ ByReadMaximumLayer(h, c) \/ ByStore(c)
         \/ ByEnterLevel(h, c) \/ ByNextLevel(c) \/ ByFindNeighbor(c) \/ ByLinkNeighbor(c)
         \/ ByLinkSelf(c) \/ ByCountNeighbor(c) \/ ByFindingMany(c) \/ ByPrune(c)
         \/ ByCheckMaximumLayer(h, c) \/ ByPublish(h, c)
<1>0. /\ c \in Ids /\ c \in Told /\ h.target \in Levels /\ Sent[c].target = h.target
      /\ c # 0 => Sent[c].neighbors = h.neighbors
  BY HookType, SentOf
<1>a. rpc \in [Ids -> RPcValues] /\ rlayer \in [Ids -> Levels] /\ ridx \in [Ids -> Nat]
      /\ rneighbors \in [Ids -> Seq(Ids)] /\ rown \in [Ids -> Ids \cup {R!None}]
      /\ rneighbor \in [Ids -> Ids \cup {R!None}] /\ rsnapshot \in [Ids -> Seq(Ids)]
      /\ rlevelOf \in [Ids -> [Ids -> Levels]]
  BY DEF RType
<1>b. ASSUME rpc[c] \notin {"first", "link", "linkSelf", "prune"}
      PROVE  RKeeps
  BY <1>b, StepRLists DEF R!First
<1>2. CASE R!Lookup(c)
  <2>1. rpc[c] = "call" /\ rnodes[c] = R!None
    BY <1>0, <1>2 DEF R!Lookup, Calls, NotStored
  <2>2. /\ rown' = [rown EXCEPT ![c] = c]
        /\ rlevelOf' = [rlevelOf EXCEPT ![c][c] = h.target]
        /\ rpc' = [rpc EXCEPT ![c] = IF \A v \in Ids : rnodes[v] = R!None
                                     THEN "first" ELSE "max"]
        /\ RGraphKept
    BY <1>0, <1>2, <2>1, CommonNames DEF R!Lookup, RGraphKept
  <2> QED
    BY <1>0, <1>a, <1>b, <2>1, <2>2 DEF ByLookup
<1>3. CASE R!First(c)
  <2>1. rpc[c] = "first"
    BY <1>3 DEF R!First
  <2>a. rown[c] = c
    BY <1>0, <2>1 DEF Calls
  <2>2. /\ rlevelOf' = [rlevelOf EXCEPT ![c][c] = 0]
        /\ rnodes' = [v \in Ids |-> IF v = c THEN c ELSE R!None]
        /\ rpc' = [rpc EXCEPT ![c] = "done"] /\ rentryPointID' = c /\ rcurrentMaximumLayer' = 0
        /\ rown' = rown
    BY <1>3, <2>a, CommonNames DEF R!First
  <2>3. \A u \in Ids, m \in Levels : RList(u, m)' = IF u = c THEN <<>> ELSE RList(u, m)
    BY <1>3, <2>1, StepRLists DEF RKeeps
  <2> QED
    BY <1>0, <1>a, <2>1, <2>2, <2>3, IdsAndLevels DEF ByFirst
<1>4. CASE R!ReadMaximumLayer(c)
  BY <1>0, <1>a, <1>b, <1>4 DEF R!ReadMaximumLayer, R!graph, ByReadMaximumLayer, CallTo, RGraphKept
<1>5. CASE R!Store(c)
  <2>1. rown[c] = c
    BY <1>0, <1>5 DEF R!Store, Calls
  <2> QED
    BY <1>0, <1>a, <1>b, <1>5, <2>1 DEF R!Store, ByStore, CallTo
<1>6. CASE R!EnterLevel(c)
  <2>1. c # 0
    BY <1>0, <1>6 DEF R!EnterLevel, Calls
  <2> QED
    BY <1>0, <1>a, <1>b, <1>6, <2>1 DEF R!EnterLevel, R!graph, ByEnterLevel, CallTo, RGraphKept
<1>7. CASE R!NextLevel(c)
  <2>1. rlayer[c] \in Levels
    BY <1>0, <1>a
  <2>2. rlayer[c] > 0 \/ rlayer[c] = 0
    BY <2>1, IdsAndLevels
  <2> QED
    BY <1>0, <1>a, <1>b, <1>7, <2>2 DEF R!NextLevel, R!graph, ByNextLevel, CallTo, RGraphKept
<1>8. CASE R!FindNeighbor(c)
  <2>1. rpc[c] = "range" /\ ridx[c] <= Len(rneighbors[c])
    BY <1>8 DEF R!FindNeighbor
  <2>2. c # 0 /\ CallState(h)
    BY <1>0, <2>1 DEF Calls, Behind
  <2>3. ridx[c] \in 1 .. Len(rneighbors[c])
    BY <1>0, <2>1, <2>2 DEF CallState, RLinking, RType
  <2>a. rpc[c] \in RLinking
    BY <2>1 DEF RLinking
  <2>4. PICK v \in Ids : v = R!Neighbor(c) /\ rnodes[v] = v
    BY <2>a, <2>3, CallNeighbor
  <2>5. rnodes[v] # R!None
    BY <2>4, NAssumption DEF R!None, Ids
  <2>6. /\ rneighbor' = [rneighbor EXCEPT ![c] = v] /\ rpc' = [rpc EXCEPT ![c] = "link"]
        /\ UNCHANGED <<rnodes, rentryPointID, rcurrentMaximumLayer, rlevelOf, rown, rlayer,
                       rneighbors, ridx, rsnapshot>>
    BY <1>8, <2>4, <2>5 DEF R!FindNeighbor, R!graph
  <2> QED
    BY <1>0, <1>a, <1>b, <2>1, <2>3, <2>4, <2>6 DEF ByFindNeighbor, CallTo, RGraphKept
<1>9. CASE R!MakePlaceholder(c) \/ R!RereadPlaceholder(c)
  BY <1>0, <1>9 DEF R!MakePlaceholder, R!RereadPlaceholder, Calls
<1>10. CASE R!LinkNeighbor(c)
  <2>1. rpc[c] = "link"
    BY <1>10 DEF R!LinkNeighbor
  <2>2. RSets(R!Neighbor(c), rlayer[c], Append(RList(R!Neighbor(c), rlayer[c]), c))
    BY <1>10, <2>1, StepRLists DEF R!First
  <2> QED
    BY <1>0, <1>a, <1>10, <2>1, <2>2
       DEF R!LinkNeighbor, ByLinkNeighbor, CallTo, OnLevel, RGraphKept
<1>11. CASE R!LinkSelf(c)
  <2>1. rpc[c] = "linkSelf"
    BY <1>11 DEF R!LinkSelf
  <2>2. RSets(c, rlayer[c], Append(RList(c, rlayer[c]), R!Neighbor(c)))
    BY <1>11, <2>1, StepRLists DEF R!First
  <2> QED
    BY <1>0, <1>a, <1>11, <2>1, <2>2 DEF R!LinkSelf, ByLinkSelf, CallTo, OnLevel, RGraphKept
<1>12. CASE R!CountNeighbor(c)
  <2>1. rpc[c] = "count" /\ UNCHANGED <<rown, rlevelOf, rlayer, rneighbors>> /\ RGraphKept
    BY <1>12 DEF R!CountNeighbor, R!graph, RGraphKept
  <2>2. c # 0 /\ CallState(h)
    BY <1>0, <2>1 DEF Calls, Behind
  <2>3. ridx[c] \in 1 .. Len(rneighbors[c]) /\ rneighbor[c] = R!Neighbor(c)
    BY <2>1, <2>2 DEF CallState, Linking
  <2>4. RList(R!Neighbor(c), rlayer[c]) = rconnections[R!Neighbor(c)][rneighbor[c]][rlayer[c]]
    BY <2>3 DEF RList
  <2>5. PICK v : v = R!Neighbor(c)
    OBVIOUS
  <2>6. CASE Len(RList(v, rlayer[c])) <= Limit(rlayer[c])
    <3>1. rpc' = [rpc EXCEPT ![c] = "range"] /\ ridx' = [ridx EXCEPT ![c] = ridx[c] + 1]
      BY <1>12, <2>4, <2>5, <2>6, CommonNames DEF R!CountNeighbor, R!NextNeighbor
    <3> QED
      BY <1>0, <1>a, <1>b, <2>1, <2>5, <2>6, <3>1 DEF ByCountNeighbor, CallTo
  <2>7. CASE ~(Len(RList(v, rlayer[c])) <= Limit(rlayer[c]))
    <3>1. /\ rpc' = [rpc EXCEPT ![c] = "prune"] /\ UNCHANGED <<ridx, rneighbor>>
          /\ rsnapshot' = [rsnapshot EXCEPT ![c] = RList(v, rlayer[c])]
      BY <1>12, <2>4, <2>5, <2>7, CommonNames DEF R!CountNeighbor
    <3>a. rpc[c] \in RLinking
      BY <2>1 DEF RLinking, Linking
    <3>2. v \in Ids /\ rlayer[c] \in Levels
      BY <3>a, <2>3, <2>5, CallNeighbor
    <3>3. Len(RList(v, rlayer[c])) \in Nat /\ Limit(rlayer[c]) \in Nat
      BY <3>2, RListType, LimitType
    <3>4. Len(RList(v, rlayer[c])) > Limit(rlayer[c])
      BY <2>7, <3>3
    <3> QED
      BY <1>0, <1>a, <1>b, <2>1, <2>5, <3>1, <3>4 DEF ByFindingMany, CallTo, OnLevel
  <2> QED
    BY <2>6, <2>7
<1>13. CASE R!Prune(c)
  <2>1. rpc[c] = "prune" /\ UNCHANGED <<rown, rlevelOf, rlayer, rneighbors>> /\ RGraphKept
        /\ rpc' = [rpc EXCEPT ![c] = "range"] /\ ridx' = [ridx EXCEPT ![c] = ridx[c] + 1]
    BY <1>13 DEF R!Prune, R!NextNeighbor, RGraphKept
  <2>2. \E s \in Nearest(Elements(rsnapshot[c]), Dist[c], Limit(rlayer[c])) :
           RSets(R!Neighbor(c), rlayer[c], s)
    BY <1>13, <2>1, StepRLists DEF R!First
  <2> QED
    BY <1>0, <1>a, <2>1, <2>2 DEF ByPrune, CallTo
<1>14. CASE R!CheckMaximumLayer(c)
  BY <1>0, <1>a, <1>b, <1>14
     DEF R!CheckMaximumLayer, R!graph, ByCheckMaximumLayer, CallTo, RGraphKept
<1>15. CASE R!Publish(c)
  BY <1>0, <1>a, <1>b, <1>15 DEF R!Publish, ByPublish, CallTo
<1> QED
  BY <1>2, <1>3, <1>4, <1>5, <1>6, <1>7, <1>8, <1>9, <1>10, <1>11, <1>12, <1>13, <1>14, <1>15
     DEF R!InsertFromExternal

-------------------------------------------------------------------------------
(* A call that goes on leaves the others as they are.                        *)
LEMMA CallFacts ==
  ASSUME TypeInv, Turns, Calls, RType, NEW h \in hooks, NEW c, c = h.node,
         R!InsertFromExternal(c), UNCHANGED vars
  PROVE  /\ c \in Ids /\ c \in Told /\ rpc[c] # "done" /\ c = jobs - 1 /\ jobs \in Nat
         /\ h.target = levelOf[c] /\ h.target \in Levels
         /\ Told' = Told /\ jobs' = jobs /\ levelOf' = levelOf /\ hooks' = hooks
         /\ connections' = connections /\ pc' = pc /\ node' = node
         /\ entryPointID' = entryPointID /\ currentMaximumLayer' = currentMaximumLayer
         /\ \A d \in Ids \ {c} : rpc'[d] = rpc[d] /\ rown'[d] = rown[d] /\ rlevelOf'[d] = rlevelOf[d]
<1>1. c \in Ids /\ c \in Told /\ h.target \in Levels
  BY HookType
<1>2. rpc[c] # "done"
  BY <1>1, CallOf
<1>3. c = jobs - 1 /\ jobs \in Nat
  BY <1>1, <1>2, JobNumbers DEF Calls
<1>4. RElsewhere(c)
  BY <1>1, CallElsewhere
<1>5. hooks' = hooks /\ jobs' = jobs /\ levelOf' = levelOf /\ connections' = connections
      /\ pc' = pc /\ node' = node
      /\ entryPointID' = entryPointID /\ currentMaximumLayer' = currentMaximumLayer
  BY DEF vars, graph
<1>6. Told' = Told
  BY <1>5 DEF Told
<1>7. h.target = levelOf[c]
  BY DEF Turns
<1> QED
  BY <1>1, <1>2, <1>3, <1>4, <1>5, <1>6, <1>7 DEF RElsewhere

LEMMA CallKeepsCalls ==
  ASSUME TypeInv, BornInv, Turns, Calls, RType, NEW h \in hooks, NEW c, c = h.node, Behind(h),
         R!InsertFromExternal(c), UNCHANGED vars
  PROVE  Calls'
<1>0. /\ c \in Ids /\ c \in Told /\ rpc[c] # "done" /\ c = jobs - 1 /\ jobs \in Nat
      /\ h.target = levelOf[c]
      /\ Told' = Told /\ jobs' = jobs /\ levelOf' = levelOf
      /\ \A d \in Ids \ {c} : rpc'[d] = rpc[d] /\ rown'[d] = rown[d] /\ rlevelOf'[d] = rlevelOf[d]
  BY CallFacts
<1>1. ASSUME NEW d \in Ids, c = 0, d # c
      PROVE  rpc[d] = "call" /\ rnodes[d] = R!None
  <2>1. ~(d < jobs)
    BY <1>0, <1>1, JobNumbers
  <2>2. d \notin Told
    BY <2>1 DEF Told, BornInv, HooksBorn
  <2> QED
    BY <2>2 DEF Calls, NotStored
<1>2. R!None \notin Ids
  BY NAssumption DEF R!None, Ids
<1>3. ASSUME c # 0
      PROVE  0 \in Ids /\ rnodes[0] # R!None
  <2>1. 0 \in Ids /\ 0 < jobs - 1
    BY <1>0, <1>3, IdsAndLevels, JobNumbers
  <2>2. rpc[0] = "done"
    BY <2>1, Returned
  <2> QED
    BY <1>2, <2>1, <2>2 DEF Calls, NotStored
<1>4. rpc[c] = "call" => rnodes[c] = R!None
  BY <1>0 DEF Calls, NotStored
<1>5. rpc[c] # "call" => rown[c] = c /\ rlevelOf[c][c] = levelOf[c]
  BY <1>0 DEF Calls
<1>6. rnodes[c] = IF rpc[c] \in NotStored THEN R!None ELSE c
  BY <1>0 DEF Calls
<1>7. c = 0 => rpc[c] \in {"call", "first", "done"}
  BY <1>0 DEF Calls
<1>8. rpc[c] = "first" => c = 0
  BY <1>0 DEF Calls
<1>9. rnodes \in [Ids -> Ids \cup {R!None}]
  BY DEF RType
<1> DEFINE Goal == /\ rpc'[c] \notin {"call", "make", "reread"}
                   /\ c = 0 => rpc'[c] \in {"first", "done"}
                   /\ rpc'[c] = "first" => c = 0
                   /\ rnodes'[c] = IF rpc'[c] \in NotStored THEN R!None ELSE c
                   /\ rown'[c] = c /\ rlevelOf'[c][c] = levelOf[c]
                   /\ \A d \in Ids \ {c} : rnodes'[d] = rnodes[d]
<1>10. ASSUME rown' = rown, rlevelOf' = rlevelOf, rnodes' = rnodes, rpc[c] \notin {"call", "first"},
              rpc'[c] \notin {"call", "make", "reread", "first"},
              rpc[c] \in NotStored <=> rpc'[c] \in NotStored
       PROVE  Goal
  BY <1>0, <1>5, <1>6, <1>7, <1>10
<1>11. ASSUME ByLookup(h, c)
       PROVE  Goal
  <2>1. c = 0 <=> \A v \in Ids : rnodes[v] = R!None
    BY <1>1, <1>3, <1>4, <1>11 DEF ByLookup
  <2> QED
    <3>1. rpc[c] = "call" /\ rnodes' = rnodes /\ rown'[c] = c /\ rlevelOf'[c][c] = levelOf[c]
      BY <1>0, <1>11 DEF ByLookup, RGraphKept
    <3>2. rpc'[c] = IF c = 0 THEN "first" ELSE "max"
      BY <1>11, <2>1 DEF ByLookup
    <3> QED
      BY <1>4, <3>1, <3>2 DEF NotStored
<1>12. ASSUME ByFirst(c)
       PROVE  Goal
  <2>1. c = 0 /\ h.target = 0
    BY <1>8, <1>12 DEF ByFirst, Turns
  <2> QED
    <3>1. rnodes'[c] = c /\ \A d \in Ids \ {c} : rnodes'[d] = rnodes[d]
      BY <1>0, <1>1, <1>12, <2>1 DEF ByFirst
    <3>2. rpc'[c] = "done" /\ rown'[c] = c /\ rlevelOf'[c][c] = levelOf[c]
      BY <1>0, <1>5, <1>12, <2>1 DEF ByFirst
    <3> QED
      BY <2>1, <3>1, <3>2 DEF NotStored
<1>13. ASSUME ByStore(c)
       PROVE  Goal
  <2>1. rnodes'[c] = c /\ \A d \in Ids \ {c} : rnodes'[d] = rnodes[d]
    BY <1>0, <1>9, <1>13 DEF ByStore
  <2>2. rpc[c] = "store" /\ rpc'[c] = "level" /\ rown' = rown /\ rlevelOf' = rlevelOf
    BY <1>13 DEF ByStore, CallTo
  <2> QED
    BY <1>0, <1>5, <1>7, <2>1, <2>2 DEF NotStored
<1>14. ASSUME ByPublish(h, c)
       PROVE  Goal
  BY <1>0, <1>5, <1>6, <1>7, <1>14 DEF ByPublish, CallTo, NotStored
<1>15. ASSUME ByCheckMaximumLayer(h, c)
       PROVE  Goal
  <2>1. ASSUME h.target > rcurrentMaximumLayer
        PROVE  Goal
    <3>1. CallTo(c, "raise", "publish", rlayer[c], 0) /\ RGraphKept
      BY <1>15, <2>1 DEF ByCheckMaximumLayer
    <3> QED
      BY <1>10, <3>1 DEF NotStored, CallTo, RGraphKept
  <2>2. ASSUME ~(h.target > rcurrentMaximumLayer)
        PROVE  Goal
    <3>1. CallTo(c, "raise", "done", rlayer[c], 0) /\ RGraphKept
      BY <1>15, <2>2 DEF ByCheckMaximumLayer
    <3> QED
      BY <1>10, <3>1 DEF NotStored, CallTo, RGraphKept
  <2> QED
    BY <2>1, <2>2
<1>16. ASSUME ByReadMaximumLayer(h, c)
       PROVE  Goal
  BY <1>10, <1>16 DEF ByReadMaximumLayer, NotStored, CallTo, RGraphKept
<1>17. ASSUME ByEnterLevel(h, c) \/ ByNextLevel(c) \/ ByFindNeighbor(c)
       PROVE  Goal
  BY <1>10, <1>17 DEF ByEnterLevel, ByNextLevel, ByFindNeighbor, NotStored, CallTo, RGraphKept
<1>18. ASSUME ByLinkNeighbor(c) \/ ByLinkSelf(c) \/ ByCountNeighbor(c) \/ ByFindingMany(c) \/ ByPrune(c)
       PROVE  Goal
  BY <1>10, <1>18
     DEF ByLinkNeighbor, ByLinkSelf, ByCountNeighbor, ByFindingMany, ByPrune, NotStored,
         CallTo, RGraphKept
<1>19. Goal
  <2> HIDE DEF Goal
  <2> QED
    BY CallCases, <1>11, <1>12, <1>13, <1>14, <1>15, <1>16, <1>17, <1>18
<1>20. ASSUME NEW d \in Ids
       PROVE  /\ rpc'[d] # "call" => d \in Told'
              /\ d \in Told' /\ rpc'[d] # "done" => d = jobs' - 1
              /\ rpc'[d] \notin {"make", "reread"}
              /\ d = 0 => rpc'[d] \in {"call", "first", "done"}
              /\ rpc'[d] = "first" => d = 0
              /\ rnodes'[d] = IF rpc'[d] \in NotStored THEN R!None ELSE d
              /\ rpc'[d] # "call" => rown'[d] = d /\ rlevelOf'[d][d] = levelOf'[d]
  <2>1. CASE d = c
    BY <1>0, <1>19, <2>1
  <2>2. CASE d # c
    BY <1>0, <1>19, <2>2 DEF Calls
  <2> QED
    BY <2>1, <2>2
<1> QED
  BY <1>20 DEF Calls

LEMMA CallKeepsTurns ==
  ASSUME Turns, UNCHANGED vars
  PROVE  Turns'
BY DEF Turns, Active, Told, Inserting, vars, graph

LEMMA CallKeepsNotCalled ==
  ASSUME TypeInv, BornInv, Turns, Calls, RType, NotCalled, NEW h \in hooks, NEW c, c = h.node,
         Behind(h), R!InsertFromExternal(c), UNCHANGED vars
  PROVE  NotCalled'
<1>1. /\ c \in Ids /\ Calls'
      /\ \A d \in Ids \ {c} : rpc'[d] = rpc[d]
  BY CallFacts, CallKeepsCalls
<1>2. rpc'[c] # "call"
  BY CallCases
     DEF ByLookup, ByFirst, ByReadMaximumLayer, ByStore, ByEnterLevel, ByNextLevel, ByFindNeighbor,
         ByLinkNeighbor, ByLinkSelf, ByCountNeighbor, ByFindingMany, ByPrune, ByCheckMaximumLayer,
         ByPublish, CallTo
<1>3. rpc[c] \in RLinking /\ ridx[c] \in 1 .. Len(rneighbors[c]) => rpc[R!Neighbor(c)] = "done"
  BY CallNeighbor
<1>4. rpc[c] \in Linking => rpc[R!Neighbor(c)] = "done"
  <2>1. rpc[c] \in Linking => rpc[c] \in RLinking /\ c # 0 /\ rpc[c] # "done"
    BY <1>1 DEF Linking, RLinking, Calls
  <2> QED
    BY <1>3, <2>1 DEF Behind, CallState
<1>5. ASSUME NEW d \in Ids, NEW l \in Levels, rpc'[d] = "call"
      PROVE  RList(d, l)' = <<>>
  <2>1. d # c /\ RList(d, l) = <<>> /\ rpc[d] = "call"
    BY <1>1, <1>2, <1>5 DEF NotCalled
  <2>2. RList(d, l)' = RList(d, l)
    BY <1>4, <1>5, <2>1, StepRLists DEF RKeeps, RSets, Linking
  <2> QED
    BY <2>1, <2>2
<1> QED
  BY <1>5 DEF NotCalled

-------------------------------------------------------------------------------
(* What a call has left and is linking stays the same while it does not link *)
(* another vertex and is not through with one.                               *)
RSame(h, c) ==
  \A l \in Levels : \A j \in 1 .. Len(h.neighbors[l]) :
    /\ RLeft(c, l, j)' <=> RLeft(c, l, j)
    /\ RNow(c, l, j)' <=> RNow(c, l, j)

LEMMA CallSame ==
  ASSUME TypeInv, Turns, Calls, RType, NEW h \in hooks, NEW c, c = h.node, Behind(h), c # 0,
         \/ ByLookup(h, c) \/ ByReadMaximumLayer(h, c) \/ ByStore(c) \/ ByEnterLevel(h, c)
         \/ ByNextLevel(c) \/ ByFindNeighbor(c) \/ ByLinkSelf(c) \/ ByFindingMany(c),
         rpc[c] # "done", rpc'[c] # "first"
  PROVE  RSame(h, c)
<1>0. /\ c \in Ids /\ rlayer[c] \in Levels /\ Levels \subseteq Nat /\ ridx[c] \in Nat
      /\ \A l \in Levels : h.neighbors[l] \in Seq(Ids)
  BY HookType, IdsAndLevels DEF RType
<1>a. \A l \in Levels : Len(h.neighbors[l]) \in Nat
  BY <1>0
<1>b. CallState(h) /\ HookLists(h)
  BY DEF Behind
<1>1. CASE ByLookup(h, c)
  BY <1>1 DEF ByLookup, RSame, RLeft, RNow, RLeftLevel, RLinking, Linking
<1>2. CASE ByReadMaximumLayer(h, c)
  BY <1>2 DEF ByReadMaximumLayer, CallTo, RSame, RLeft, RNow, RLeftLevel, RLinking, Linking
<1>3. CASE ByStore(c)
  <2>1. rpc[c] = "store" /\ rpc'[c] = "level" /\ rlayer'[c] = rlayer[c]
    BY <1>3 DEF ByStore, CallTo
  <2>2. ASSUME NEW l \in Levels, NEW j \in 1 .. Len(h.neighbors[l])
        PROVE  l <= rlayer[c]
    <3>1. h.neighbors[l] # <<>>
      BY <1>0, <1>a, <2>2
    <3> QED
      BY <1>b, <2>1, <3>1 DEF CallState
  <2> QED
    BY <2>1, <2>2 DEF RSame, RLeft, RNow, RLeftLevel, RLinking, Linking
<1>4. CASE ByEnterLevel(h, c)
  <2>1. rpc[c] = "level" /\ rpc'[c] = "range" /\ rlayer'[c] = rlayer[c] /\ ridx'[c] = 1
    BY <1>4 DEF ByEnterLevel, CallTo
  <2>2. ASSUME NEW l \in Levels, NEW j \in 1 .. Len(h.neighbors[l])
        PROVE  /\ j > 1 \/ j = 1
               /\ l <= rlayer[c] <=> l < rlayer[c] \/ l = rlayer[c]
    BY <1>0, <1>a, <2>2
  <2> QED
    BY <2>1, <2>2 DEF RSame, RLeft, RNow, RLeftLevel, RLinking, Linking
<1>5. CASE ByNextLevel(c)
  <2>1. rpc[c] = "range" /\ rneighbors[c] = h.neighbors[rlayer[c]] /\ ridx[c] > Len(rneighbors[c])
    BY <1>5, <1>b DEF ByNextLevel, CallTo, CallState, RLinking
  <2>2. \/ rlayer[c] > 0 /\ rpc'[c] = "level" /\ rlayer'[c] = rlayer[c] - 1
        \/ rlayer[c] = 0 /\ rpc'[c] = "raise"
    BY <1>5 DEF ByNextLevel, CallTo
  <2>3. ASSUME NEW l \in Levels, NEW j \in 1 .. Len(h.neighbors[l])
        PROVE  /\ l = rlayer[c] => ~(j > ridx[c]) /\ j # ridx[c]
               /\ l < rlayer[c] <=> l <= rlayer[c] - 1
               /\ rlayer[c] = 0 => ~(l < rlayer[c])
    BY <1>0, <1>a, <2>1, <2>3
  <2> QED
    BY <2>1, <2>2, <2>3 DEF RSame, RLeft, RNow, RLeftLevel, RLinking, Linking
<1>6. CASE ByFindNeighbor(c)
  BY <1>6 DEF ByFindNeighbor, CallTo, RSame, RLeft, RNow, RLeftLevel, RLinking, Linking
<1>7. CASE ByLinkSelf(c) \/ ByFindingMany(c)
  BY <1>7 DEF ByLinkSelf, ByFindingMany, CallTo, RSame, RLeft, RNow, RLeftLevel, RLinking, Linking
<1> QED
  BY <1>1, <1>2, <1>3, <1>4, <1>5, <1>6, <1>7

(* The same for what becomes of it when it is linked...                      *)
LEMMA CallLinksNow ==
  ASSUME NEW c \in Ids, NEW l, NEW j, ridx[c] \in Nat, rlayer[c] \in Nat, ByLinkNeighbor(c)
  PROVE  /\ l = rlayer[c] /\ j = ridx[c] => RLeft(c, l, j) /\ RNow(c, l, j)' /\ ~RLeft(c, l, j)'
         /\ ~(l = rlayer[c] /\ j = ridx[c]) => /\ RLeft(c, l, j)' <=> RLeft(c, l, j)
                                               /\ RNow(c, l, j)' <=> RNow(c, l, j)
<1>1. rpc[c] = "link" /\ rpc'[c] = "linkSelf" /\ rlayer'[c] = rlayer[c] /\ ridx'[c] = ridx[c]
  BY DEF ByLinkNeighbor, CallTo
<1>2. ~(rlayer[c] < rlayer[c]) /\ ~(ridx[c] > ridx[c])
  OBVIOUS
<1> QED
  BY <1>1, <1>2 DEF RLeft, RNow, RPast, RLeftLevel, RLinking, Linking

(* ... and when that is over.                                                *)
LEMMA CallIsPast ==
  ASSUME NEW c \in Ids, NEW l, NEW j \in Nat, ridx[c] \in Nat, rlayer[c] \in Nat,
         ByCountNeighbor(c) \/ ByPrune(c)
  PROVE  /\ l = rlayer[c] /\ j = ridx[c] => RNow(c, l, j) /\ RPast(c, l, j)'
         /\ ~(l = rlayer[c] /\ j = ridx[c]) => /\ RLeft(c, l, j)' <=> RLeft(c, l, j)
                                               /\ RNow(c, l, j)' <=> RNow(c, l, j)
<1>1. /\ rpc[c] \in {"count", "prune"} /\ rpc'[c] = "range" /\ rlayer'[c] = rlayer[c]
      /\ ridx'[c] = ridx[c] + 1
  BY DEF ByCountNeighbor, ByPrune, CallTo
<1>2. j > ridx[c] <=> j > ridx[c] + 1 \/ j = ridx[c] + 1
  OBVIOUS
<1>3. ~(ridx[c] > ridx[c] + 1) /\ ridx[c] # ridx[c] + 1
  OBVIOUS
<1>4. /\ RNow(c, l, j) <=> l = rlayer[c] /\ j = ridx[c]
      /\ ~RNow(c, l, j)'
  BY <1>1 DEF RNow
<1>5. /\ RLeft(c, l, j) <=> l < rlayer[c] \/ (l = rlayer[c] /\ j > ridx[c])
      /\ RLeft(c, l, j)' <=> \/ l < rlayer[c]
                             \/ l = rlayer[c] /\ (j > ridx[c] + 1 \/ j = ridx[c] + 1)
  <2>1. RLeftLevel(c, l) <=> l < rlayer[c]
    BY <1>1 DEF RLeftLevel, RLinking, Linking
  <2>2. RLeftLevel(c, l)' <=> l < rlayer[c]
    BY <1>1 DEF RLeftLevel, RLinking, Linking
  <2>3. RLeft(c, l, j) <=> RLeftLevel(c, l) \/ (l = rlayer[c] /\ j > ridx[c])
    BY <1>1 DEF RLeft, RLinking, Linking
  <2>4. RLeft(c, l, j)' <=> \/ RLeftLevel(c, l)'
                            \/ l = rlayer[c] /\ (j > ridx[c] + 1 \/ j = ridx[c] + 1)
    BY <1>1 DEF RLeft, RLinking, Linking
  <2> QED
    BY ONLY <2>1, <2>2, <2>3, <2>4
<1>6. RLeft(c, l, j)' <=> RLeft(c, l, j)
  BY ONLY <1>2, <1>5
<1>7. rlayer[c] \in Nat => ~(rlayer[c] < rlayer[c])
  OBVIOUS
<1>8. l = rlayer[c] /\ j = ridx[c] => ~RLeft(c, l, j)'
  BY <1>3, <1>5, <1>7
<1> QED
  BY <1>4, <1>6, <1>8 DEF RPast

LEMMA SameBehindBy ==
  ASSUME NEW h, NEW c, c = h.node, RSame(h, c), NEW v \in Ids, NEW l \in Levels,
         RList(v, l)' = RList(v, l), connections' = connections, BehindBy(h, v, l)
  PROVE  BehindBy(h, v, l)'
<1>1. ASSUME NEW j \in 1 .. Len(h.neighbors[l])
      PROVE  /\ RLeft(c, l, j)' <=> RLeft(c, l, j)
             /\ RNow(c, l, j)' <=> RNow(c, l, j)
             /\ RPast(c, l, j)' <=> RPast(c, l, j)
  BY <1>1 DEF RSame, RPast
<1>2. PICK list : list = h.neighbors[l]
  OBVIOUS
<1>3. /\ (\A j \in 1 .. Len(list) : list[j] = v => RPast(c, l, j)) => RList(v, l) = connections[v][l]
      /\ \A j \in 1 .. Len(list) : list[j] = v =>
           /\ RNow(c, l, j) => CutTo(RList(v, l), c, l, connections[v][l])
           /\ RLeft(c, l, j) => CutTo(Append(RList(v, l), c), c, l, connections[v][l])
  BY <1>2 DEF BehindBy
<1>4. /\ (\A j \in 1 .. Len(list) : list[j] = v => RPast(c, l, j)') => RList(v, l)' = connections'[v][l]
      /\ \A j \in 1 .. Len(list) : list[j] = v =>
           /\ RNow(c, l, j)' => CutTo(RList(v, l)', c, l, connections'[v][l])
           /\ RLeft(c, l, j)' => CutTo(Append(RList(v, l)', c), c, l, connections'[v][l])
  BY <1>1, <1>2, <1>3
<1> QED
  BY <1>2, <1>4 DEF BehindBy

(* The lists that are behind, step by step.                                  *)
LEMMA CallKeepsBehindBy ==
  ASSUME Apart, TypeInv, Turns, Calls, RType, NEW h \in hooks, NEW c, c = h.node, Behind(h), c # 0,
         R!InsertFromExternal(c), UNCHANGED vars, Calls', NEW v \in Ids, NEW l \in Levels, v < c,
         rpc'[c] # "done"
  PROVE  BehindBy(h, v, l)'
<1>0. /\ c \in Ids /\ rpc[c] # "done" /\ connections' = connections
      /\ h.neighbors[l] \in Seq(Ids)
      /\ ridx[c] \in Nat /\ rlayer[c] \in Levels /\ rlayer[c] \in Nat
      /\ v # c
  <2>1. c \in Ids /\ rpc[c] # "done" /\ connections' = connections
    BY CallFacts
  <2>2. h.neighbors[l] \in Seq(Ids) /\ ridx[c] \in Nat /\ rlayer[c] \in Levels
    BY <2>1, HookType DEF RType
  <2>3. rlayer[c] \in Nat
    BY <2>2, IdsAndLevels
  <2>4. v # c
    BY <2>1, JobNumbers
  <2> QED
    BY <2>1, <2>2, <2>3, <2>4
<1>b. BehindBy(h, v, l) /\ CallState(h)
  BY <1>0 DEF Behind
<1>c. rpc'[c] # "first"
  BY <1>0 DEF Calls
<1>1. ASSUME \/ ByLookup(h, c) \/ ByReadMaximumLayer(h, c) \/ ByStore(c) \/ ByEnterLevel(h, c)
             \/ ByNextLevel(c) \/ ByFindNeighbor(c) \/ ByLinkSelf(c) \/ ByFindingMany(c)
      PROVE  BehindBy(h, v, l)'
  <2>1. RSame(h, c)
    BY <1>0, <1>1, <1>c, CallSame
  <2>2. CASE ByLinkSelf(c)
    <3>1. RList(v, l)' = RList(v, l)
      BY <1>0, <2>2 DEF ByLinkSelf, RSets
    <3> QED
      BY <1>0, <1>b, <2>1, <3>1, SameBehindBy
  <2>3. CASE ~ByLinkSelf(c)
    <3>1. RList(v, l)' = RList(v, l)
      BY <1>1, <2>3 DEF ByLookup, ByReadMaximumLayer, ByStore, ByEnterLevel, ByNextLevel,
            ByFindNeighbor, ByFindingMany, RKeeps
    <3> QED
      BY <1>0, <1>b, <2>1, <3>1, SameBehindBy
  <2> QED
    BY <2>2, <2>3
<1>2. PICK list \in Seq(Ids) : list = h.neighbors[l]
  BY <1>0
<1>3. /\ (\A j \in 1 .. Len(list) : list[j] = v => RPast(c, l, j)) => RList(v, l) = connections[v][l]
      /\ \A j \in 1 .. Len(list) : list[j] = v =>
           /\ RNow(c, l, j) => CutTo(RList(v, l), c, l, connections[v][l])
           /\ RLeft(c, l, j) => CutTo(Append(RList(v, l), c), c, l, connections[v][l])
  BY <1>b, <1>2 DEF BehindBy
<1>4. SUFFICES
        /\ (\A j \in 1 .. Len(list) : list[j] = v => RPast(c, l, j)') => RList(v, l)' = connections[v][l]
        /\ \A j \in 1 .. Len(list) : list[j] = v =>
             /\ RNow(c, l, j)' => CutTo(RList(v, l)', c, l, connections[v][l])
             /\ RLeft(c, l, j)' => CutTo(Append(RList(v, l)', c), c, l, connections[v][l])
  BY <1>0, <1>2 DEF BehindBy
<1> DEFINE Goal == 
        /\ (\A j \in 1 .. Len(list) : list[j] = v => RPast(c, l, j)') => RList(v, l)' = connections[v][l]
        /\ \A j \in 1 .. Len(list) : list[j] = v =>
             /\ RNow(c, l, j)' => CutTo(RList(v, l)', c, l, connections[v][l])
             /\ RLeft(c, l, j)' => CutTo(Append(RList(v, l)', c), c, l, connections[v][l])
<1>n. ASSUME rpc[c] \in Linking
      PROVE  /\ l = rlayer[c] => ridx[c] \in 1 .. Len(list) /\ R!Neighbor(c) = list[ridx[c]]
             /\ l = rlayer[c] => \A j \in 1 .. Len(list) : list[j] = R!Neighbor(c) => j = ridx[c]
             /\ l = rlayer[c] /\ v = R!Neighbor(c) => list[ridx[c]] = v
             /\ R!Neighbor(c) \in Ids
  <2>1. rpc[c] \in RLinking /\ ridx[c] \in 1 .. Len(rneighbors[c])
    BY <1>b, <1>n DEF CallState, RLinking
  <2> QED
    BY <1>2, <2>1, CallNeighbor
<1>5. ASSUME ByLinkNeighbor(c)
      PROVE  Goal
  <2>1. rpc[c] \in Linking
    BY <1>5 DEF ByLinkNeighbor, CallTo, Linking
  <2>2. \A j \in 1 .. Len(list) :
         /\ l = rlayer[c] /\ j = ridx[c] => RLeft(c, l, j) /\ RNow(c, l, j)' /\ ~RLeft(c, l, j)'
         /\ ~(l = rlayer[c] /\ j = ridx[c]) => /\ RLeft(c, l, j)' <=> RLeft(c, l, j)
                                               /\ RNow(c, l, j)' <=> RNow(c, l, j)
    BY <1>0, <1>5, CallLinksNow
  <2>3. CASE l = rlayer[c] /\ v = R!Neighbor(c)
    <3>1. RList(v, l)' = Append(RList(v, l), c)
      BY <1>5, <2>3 DEF ByLinkNeighbor, RSets
    <3>2. ridx[c] \in 1 .. Len(list) /\ list[ridx[c]] = v
          /\ \A j \in 1 .. Len(list) : list[j] = v => j = ridx[c]
      BY <1>n, <2>1, <2>3
    <3>3. PICK i \in 1 .. Len(list) : i = ridx[c]
      BY <3>2
    <3>4. CutTo(Append(RList(v, l), c), c, l, connections[v][l])
      BY <1>3, <2>2, <2>3, <3>2, <3>3
    <3>a. RNow(c, l, i)' /\ ~RPast(c, l, i)' /\ ~RLeft(c, l, i)'
      BY <2>2, <2>3, <3>3 DEF RPast
    <3>b. CutTo(RList(v, l)', c, l, connections[v][l])
      BY <3>1, <3>4
    <3> QED
      BY <3>2, <3>3, <3>a, <3>b
  <2>4. CASE ~(l = rlayer[c] /\ v = R!Neighbor(c))
    <3>1. RList(v, l)' = RList(v, l)
      BY <1>5, <2>4 DEF ByLinkNeighbor, RSets
    <3>2. \A j \in 1 .. Len(list) : list[j] = v => ~(l = rlayer[c] /\ j = ridx[c])
      BY <1>n, <2>1, <2>4
    <3>3. \A j \in 1 .. Len(list) : list[j] = v =>
             /\ RLeft(c, l, j)' <=> RLeft(c, l, j)
             /\ RNow(c, l, j)' <=> RNow(c, l, j)
             /\ RPast(c, l, j)' <=> RPast(c, l, j)
      BY <2>2, <3>2 DEF RPast
    <3> QED
      BY <1>3, <3>1, <3>3
  <2> QED
    BY <2>3, <2>4
<1>6. ASSUME ByCountNeighbor(c) \/ ByPrune(c)
      PROVE  Goal
  <2>1. rpc[c] \in Linking
    BY <1>6 DEF ByCountNeighbor, ByPrune, CallTo, Linking
  <2>2. \A j \in 1 .. Len(list) :
         /\ l = rlayer[c] /\ j = ridx[c] => RNow(c, l, j) /\ RPast(c, l, j)'
         /\ ~(l = rlayer[c] /\ j = ridx[c]) => /\ RLeft(c, l, j)' <=> RLeft(c, l, j)
                                               /\ RNow(c, l, j)' <=> RNow(c, l, j)
    BY <1>0, <1>6, CallIsPast
  <2>3. CASE l = rlayer[c] /\ v = R!Neighbor(c)
    <3>2. ridx[c] \in 1 .. Len(list) /\ list[ridx[c]] = v
          /\ \A j \in 1 .. Len(list) : list[j] = v => j = ridx[c]
      BY <1>n, <2>1, <2>3
    <3>3. PICK i \in 1 .. Len(list) : i = ridx[c]
      BY <3>2
    <3>4. CutTo(RList(v, l), c, l, connections[v][l])
      BY <1>3, <2>2, <2>3, <3>2, <3>3
    <3>a. ~RNow(c, l, i)' /\ RPast(c, l, i)' /\ ~RLeft(c, l, i)'
      BY <2>2, <2>3, <3>3 DEF RPast
    <3>5. ASSUME ByCountNeighbor(c)
          PROVE  RList(v, l)' = connections[v][l]
      <4>1. RList(v, l)' = RList(v, l) /\ Len(RList(v, l)) <= Limit(l)
        BY <2>3, <3>5 DEF ByCountNeighbor, RKeeps
      <4> QED
        BY <3>4, <4>1 DEF CutTo
    <3>6. ASSUME ByPrune(c)
          PROVE  RList(v, l)' = connections[v][l]
      <4>1. rpc[c] = "prune"
        BY <3>6 DEF ByPrune, CallTo
      <4>2. rneighbor[c] = R!Neighbor(c) /\ rsnapshot[c] = RList(v, l) /\ Len(rsnapshot[c]) > Limit(l)
        BY <1>b, <2>1, <2>3, <4>1 DEF CallState
      <4>3. PICK s \in Nearest(Elements(rsnapshot[c]), Dist[c], Limit(l)) :
               RSets(R!Neighbor(c), l, s)
        BY <2>3, <3>6 DEF ByPrune
      <4>4. RList(v, l)' = s
        BY <2>3, <4>3 DEF RSets
      <4>5. RList(v, l) \in Seq(Ids) /\ Limit(l) \in Nat
        BY RListType, LimitType
      <4>6. ~(Len(RList(v, l)) <= Limit(l))
        BY <4>2, <4>5
      <4>7. connections[v][l] \in Nearest(Elements(RList(v, l)), Dist[c], Limit(l))
        BY <3>4, <4>6 DEF CutTo
      <4>8. Elements(RList(v, l)) \subseteq Ids
        BY <4>5, ElementsOf
      <4>9. PICK S : S = Elements(RList(v, l))
        OBVIOUS
      <4>n. PICK n \in Nat : n = Limit(l)
        BY <4>5
      <4>10. S \subseteq Ids /\ s \in Nearest(S, Dist[c], n)
              /\ connections[v][l] \in Nearest(S, Dist[c], n)
        BY <4>2, <4>3, <4>7, <4>8, <4>9, <4>n
      <4>11. s = connections[v][l]
        <5>1. PICK t : t = connections[v][l]
          OBVIOUS
        <5>2. t \in Nearest(S, Dist[c], n)
          BY <4>10, <5>1
        <5>3. s = t
          BY <1>0, <4>10, <5>2, NearestUnique
        <5> QED
          BY <5>1, <5>3
      <4> QED
        BY <4>4, <4>11
    <3>b. RList(v, l)' = connections[v][l]
      BY <1>6, <3>5, <3>6
    <3> QED
      BY <3>2, <3>3, <3>a, <3>b
  <2>4. CASE ~(l = rlayer[c] /\ v = R!Neighbor(c))
    <3>1. RList(v, l)' = RList(v, l)
      BY <1>6, <2>4 DEF ByCountNeighbor, ByPrune, RKeeps, RSets
    <3>2. \A j \in 1 .. Len(list) : list[j] = v => ~(l = rlayer[c] /\ j = ridx[c])
      BY <1>n, <2>1, <2>4
    <3>3. \A j \in 1 .. Len(list) : list[j] = v =>
             /\ RLeft(c, l, j)' <=> RLeft(c, l, j)
             /\ RNow(c, l, j)' <=> RNow(c, l, j)
             /\ RPast(c, l, j)' <=> RPast(c, l, j)
      BY <2>2, <3>2 DEF RPast
    <3> QED
      BY <1>3, <3>1, <3>3
  <2> QED
    BY <2>3, <2>4
<1>7. ASSUME ByCheckMaximumLayer(h, c)
      PROVE  Goal
  <2>1. rpc[c] = "raise" /\ rpc'[c] = "publish" /\ RList(v, l)' = RList(v, l)
    BY <1>7 DEF ByCheckMaximumLayer, CallTo, RKeeps
  <2>2. \A j \in 1 .. Len(list) :
             /\ RLeft(c, l, j)' <=> RLeft(c, l, j)
             /\ RNow(c, l, j)' <=> RNow(c, l, j)
             /\ RPast(c, l, j)' <=> RPast(c, l, j)
    BY <2>1 DEF RPast, RLeft, RNow, RLeftLevel, RLinking, Linking
  <2> QED
    BY <1>3, <2>1, <2>2
<1>8. ~ByFirst(c) /\ ~ByPublish(h, c)
  BY <1>0 DEF Calls, ByFirst, ByPublish, CallTo
<1>9. CASE BehindBy(h, v, l)'
  BY <1>2, <1>0, <1>9 DEF BehindBy
<1>10. CASE Goal
  BY <1>10
<1> QED
  <2> HIDE DEF Goal
  <2>1. BehindBy(h, v, l)' \/ Goal
    BY CallCases, <1>1, <1>5, <1>6, <1>7, <1>8
  <2> QED
    BY <2>1, <1>9, <1>10

LEMMA SameList ==
  ASSUME NEW s \in Seq(Ids), NEW t \in Seq(Ids), Len(s) = Len(t),
         \A i \in 1 .. Len(s) : s[i] = t[i]
  PROVE  s = t
<1>1. PICK n \in Nat : n = Len(s)
  OBVIOUS
<1>2. s \in [1 .. n -> Ids] /\ t \in [1 .. n -> Ids]
  BY <1>1
<1> QED
  BY <1>1, <1>2

(* The list of the vertex itself.                                            *)
LEMMA CallKeepsOwn ==
  ASSUME TypeInv, Turns, Calls, RType, NEW h \in hooks, NEW c, c = h.node, Behind(h), c # 0,
         R!InsertFromExternal(c), UNCHANGED vars, Calls', NEW l \in Levels, rpc'[c] # "done"
  PROVE  BehindOwn(h, l)'
<1>0. /\ c \in Ids /\ rpc[c] # "done" /\ connections' = connections
      /\ h.neighbors[l] \in Seq(Ids)
      /\ ridx[c] \in Nat /\ rlayer[c] \in Levels /\ rlayer[c] \in Nat /\ l \in Nat
  <2>1. c \in Ids /\ rpc[c] # "done" /\ connections' = connections
    BY CallFacts
  <2>2. h.neighbors[l] \in Seq(Ids) /\ ridx[c] \in Nat /\ rlayer[c] \in Levels
    BY <2>1, HookType DEF RType
  <2>3. rlayer[c] \in Nat /\ l \in Nat
    BY <2>2, IdsAndLevels
  <2> QED
    BY <2>1, <2>2, <2>3
<1>1. BehindOwn(h, l) /\ CallState(h) /\ HookLists(h)
  BY <1>0 DEF Behind
<1>2. rpc'[c] # "first" /\ rpc[c] # "first"
  BY <1>0 DEF Calls
<1>3. PICK list \in Seq(Ids) : list = h.neighbors[l]
  BY <1>0
<1>4. PICK old \in Seq(Ids) : old = RList(c, l)
  BY <1>0, RListType
<1>5. PICK new : new = RList(c, l)'
  OBVIOUS
<1>6. /\ connections[c][l] = list
      /\ RLeftLevel(c, l) => old = <<>>
      /\ rpc[c] \in RLinking /\ l = rlayer[c] =>
           /\ Len(old) = RMade(c)
           /\ \A j \in 1 .. Len(old) : old[j] = list[j]
      /\ ~RLeftLevel(c, l) /\ ~(rpc[c] \in RLinking /\ l = rlayer[c]) => old = list
  BY <1>1, <1>3, <1>4 DEF BehindOwn
<1> DEFINE Goal == /\ RLeftLevel(c, l)' => new = <<>>
                   /\ (rpc'[c] \in RLinking /\ l = rlayer'[c] =>
                        /\ Len(new) = RMade(c)'
                        /\ \A j \in 1 .. Len(new) : new[j] = list[j])
                   /\ ~RLeftLevel(c, l)' /\ ~(rpc'[c] \in RLinking /\ l = rlayer'[c]) => new = list
<1>7. SUFFICES Goal
  BY <1>0, <1>3, <1>5, <1>6 DEF BehindOwn
<1>8. ASSUME RKeeps
      PROVE  new = old
  BY <1>0, <1>4, <1>5, <1>8 DEF RKeeps
<1>9. ASSUME ByLookup(h, c) \/ ByReadMaximumLayer(h, c)
      PROVE  Goal
  BY <1>2, <1>6, <1>8, <1>9
     DEF ByLookup, ByReadMaximumLayer, CallTo, RLeftLevel, RLinking, Linking
<1>10. ASSUME ByStore(c)
       PROVE  Goal
  <2>1. rpc[c] = "store" /\ rpc'[c] = "level" /\ rlayer'[c] = rlayer[c] /\ new = old
    BY <1>8, <1>10 DEF ByStore, CallTo
  <2>2. ~(l <= rlayer[c]) => list = <<>>
    BY <1>1, <1>3, <2>1 DEF CallState
  <2> QED
    BY <1>6, <2>1, <2>2 DEF RLeftLevel, RLinking, Linking
<1>11. ASSUME ByEnterLevel(h, c)
       PROVE  Goal
  <2>1. rpc[c] = "level" /\ rpc'[c] = "range" /\ rlayer'[c] = rlayer[c] /\ ridx'[c] = 1 /\ new = old
    BY <1>8, <1>11 DEF ByEnterLevel, CallTo
  <2>2. RLeftLevel(c, l) <=> l <= rlayer[c]
    BY <2>1 DEF RLeftLevel, RLinking, Linking
  <2>3. RLeftLevel(c, l)' <=> l < rlayer[c]
    BY <2>1 DEF RLeftLevel, RLinking, Linking
  <2>4. l <= rlayer[c] <=> l < rlayer[c] \/ l = rlayer[c]
    BY <1>0
  <2>5. RMade(c)' = 0
    BY <2>1 DEF RMade
  <2>6. new = <<>> => Len(new) = 0 /\ 1 .. Len(new) = {}
    OBVIOUS
  <2>7. rpc'[c] \in RLinking
    BY <2>1 DEF RLinking
  <2>8. ~(rpc[c] \in RLinking)
    BY <2>1 DEF RLinking, Linking
  <2>9. RLeftLevel(c, l)' => new = <<>>
    BY <1>6, <2>1, <2>2, <2>3, <2>4
  <2>10. l = rlayer[c] => Len(new) = RMade(c)' /\ \A j \in 1 .. Len(new) : new[j] = list[j]
    BY <1>6, <2>1, <2>2, <2>4, <2>5, <2>6
  <2> QED
    BY <1>6, <2>1, <2>2, <2>3, <2>4, <2>7, <2>8, <2>9, <2>10
<1>12. ASSUME ByNextLevel(c)
       PROVE  Goal
  <2>1. /\ rpc[c] = "range" /\ ridx[c] > Len(rneighbors[c]) /\ new = old
        /\ \/ rlayer[c] > 0 /\ rpc'[c] = "level" /\ rlayer'[c] = rlayer[c] - 1
           \/ rlayer[c] = 0 /\ rpc'[c] = "raise"
    BY <1>8, <1>12 DEF ByNextLevel, CallTo
  <2>2. rneighbors[c] = h.neighbors[rlayer[c]] /\ ridx[c] \in 1 .. Len(rneighbors[c]) + 1
    BY <1>1, <2>1 DEF CallState, RLinking
  <2>3. RMade(c) = ridx[c] - 1
    BY <2>1 DEF RMade
  <2>4. l = rlayer[c] => Len(old) = Len(list) /\ \A j \in 1 .. Len(old) : old[j] = list[j]
    <3>1. l = rlayer[c] => Len(old) = ridx[c] - 1 /\ \A j \in 1 .. Len(old) : old[j] = list[j]
      BY <1>6, <2>1, <2>3 DEF RLinking
    <3>a. PICK i \in Nat, n \in Nat : i = ridx[c] /\ n = Len(list)
      BY <1>0
    <3>b. l = rlayer[c] => i > n /\ i \in 1 .. n + 1
      BY <1>3, <2>1, <2>2, <3>a
    <3>c. l = rlayer[c] => i - 1 = n
      BY ONLY <3>b
    <3>2. l = rlayer[c] => ridx[c] - 1 = Len(list)
      BY <3>a, <3>c
    <3> QED
      BY <3>1, <3>2
  <2>5. l = rlayer[c] => old = list
    BY <2>4, SameList
  <2>6. RLeftLevel(c, l) <=> l < rlayer[c]
    BY <2>1 DEF RLeftLevel, RLinking, Linking
  <2>7. RLeftLevel(c, l)' <=> l < rlayer[c]
    <3>1. CASE rlayer[c] > 0 /\ rpc'[c] = "level" /\ rlayer'[c] = rlayer[c] - 1
      <4>1. l <= rlayer[c] - 1 <=> l < rlayer[c]
        BY <1>0
      <4> QED
        BY <3>1, <4>1 DEF RLeftLevel, RLinking, Linking
    <3>2. CASE rlayer[c] = 0 /\ rpc'[c] = "raise"
      <4>1. ~(l < rlayer[c])
        BY <1>0, <3>2
      <4> QED
        BY <3>2, <4>1 DEF RLeftLevel, RLinking, Linking
    <3> QED
      BY <2>1, <3>1, <3>2
  <2>8. ~(rpc'[c] \in RLinking)
    BY <2>1 DEF RLinking, Linking
  <2> QED
    BY <1>6, <2>1, <2>5, <2>6, <2>7, <2>8
<1>13. ASSUME rpc[c] \in RLinking, rpc'[c] \in RLinking, rlayer'[c] = rlayer[c],
              RMade(c)' = RMade(c), new = old
       PROVE  Goal
  <2>1. RLeftLevel(c, l)' <=> RLeftLevel(c, l)
    BY <1>13 DEF RLeftLevel, RLinking, Linking
  <2> QED
    BY <1>6, <1>13, <2>1
<1>14. ASSUME ByFindNeighbor(c) \/ ByFindingMany(c) \/ ByCountNeighbor(c)
       PROVE  Goal
  <2>1. rpc[c] \in RLinking /\ rpc'[c] \in RLinking /\ rlayer'[c] = rlayer[c] /\ new = old
    BY <1>8, <1>14 DEF ByFindNeighbor, ByFindingMany, ByCountNeighbor, CallTo, RLinking, Linking
  <2>2. CASE ByFindNeighbor(c) \/ ByFindingMany(c)
    <3>1. RMade(c)' = RMade(c)
      BY <2>2 DEF ByFindNeighbor, ByFindingMany, CallTo, RMade
    <3> QED
      BY <1>13, <2>1, <3>1
  <2>3. CASE ByCountNeighbor(c)
    <3>1. rpc[c] = "count" /\ rpc'[c] = "range" /\ ridx'[c] = ridx[c] + 1
      BY <2>3 DEF ByCountNeighbor, CallTo
    <3>2. ridx'[c] - 1 = ridx[c]
      BY <1>0, <3>1
    <3>3. RMade(c)' = RMade(c)
      BY <3>1, <3>2 DEF RMade
    <3> QED
      BY <1>13, <2>1, <3>3
  <2> QED
    BY <1>14, <2>2, <2>3
<1>n. rpc[c] \in Linking => R!Neighbor(c) \in Ids /\ R!Neighbor(c) # c
        /\ ridx[c] \in 1 .. Len(h.neighbors[rlayer[c]])
        /\ R!Neighbor(c) = h.neighbors[rlayer[c]][ridx[c]]
  <2>1. rpc[c] \in Linking => rpc[c] \in RLinking /\ ridx[c] \in 1 .. Len(rneighbors[c])
    BY <1>1 DEF CallState, RLinking
  <2> QED
    BY <2>1, CallNeighbor
<1>15. ASSUME ByLinkNeighbor(c) \/ ByPrune(c)
       PROVE  Goal
  <2>1. rpc[c] \in Linking
    BY <1>15 DEF ByLinkNeighbor, ByPrune, CallTo, Linking
  <2>2. rpc[c] \in RLinking /\ rpc'[c] \in RLinking /\ rlayer'[c] = rlayer[c]
    BY <1>15 DEF ByLinkNeighbor, ByPrune, CallTo, RLinking, Linking
  <2>3. new = old
    BY <1>0, <1>4, <1>5, <1>15, <1>n, <2>1 DEF ByLinkNeighbor, ByPrune, RSets
  <2>4. CASE ByLinkNeighbor(c)
    <3>1. RMade(c)' = RMade(c)
      BY <2>4 DEF ByLinkNeighbor, CallTo, RMade
    <3> QED
      BY <1>13, <2>2, <2>3, <3>1
  <2>5. CASE ByPrune(c)
    <3>1. rpc[c] = "prune" /\ rpc'[c] = "range" /\ ridx'[c] = ridx[c] + 1
      BY <2>5 DEF ByPrune, CallTo
    <3>2. ridx'[c] - 1 = ridx[c]
      BY <1>0, <3>1
    <3>3. RMade(c)' = RMade(c)
      BY <3>1, <3>2 DEF RMade
    <3> QED
      BY <1>13, <2>2, <2>3, <3>3
  <2> QED
    BY <1>15, <2>4, <2>5
<1>16. ASSUME ByLinkSelf(c)
       PROVE  Goal
  <2>1. /\ rpc[c] = "linkSelf" /\ rpc'[c] = "count" /\ rlayer'[c] = rlayer[c] /\ ridx'[c] = ridx[c]
        /\ rpc[c] \in Linking /\ rpc[c] \in RLinking /\ rpc'[c] \in RLinking
    BY <1>16 DEF ByLinkSelf, CallTo, Linking, RLinking
  <2>2. RMade(c) = ridx[c] - 1 /\ RMade(c)' = ridx[c]
    BY <2>1 DEF RMade
  <2>3. RLeftLevel(c, l)' <=> RLeftLevel(c, l)
    BY <2>1 DEF RLeftLevel, RLinking, Linking
  <2>4. CASE l # rlayer[c]
    <3>1. new = old
      BY <1>0, <1>4, <1>5, <1>16, <2>4 DEF ByLinkSelf, RSets
    <3> QED
      BY <1>6, <2>1, <2>3, <2>4, <3>1
  <2>5. CASE l = rlayer[c]
    <3>1. PICK i \in 1 .. Len(list) : i = ridx[c] /\ R!Neighbor(c) = list[i] /\ list[i] \in Ids
      BY <1>3, <1>n, <2>1, <2>5
    <3>2. new = Append(old, list[i])
      BY <1>0, <1>4, <1>5, <1>16, <2>5, <3>1 DEF ByLinkSelf, RSets
    <3>3. Len(old) = i - 1 /\ \A j \in 1 .. Len(old) : old[j] = list[j]
      BY <1>6, <2>1, <2>2, <2>5, <3>1
    <3>4. i \in Nat
      OBVIOUS
    <3>5. Len(new) = i /\ \A j \in 1 .. Len(new) : new[j] = IF j = i THEN list[i] ELSE old[j]
      BY <3>1, <3>2, <3>3, <3>4
    <3>6. \A j \in 1 .. Len(new) : j = i \/ j \in 1 .. Len(old)
      BY <3>3, <3>4, <3>5
    <3>7. \A j \in 1 .. Len(new) : new[j] = list[j]
      BY <3>3, <3>5, <3>6
    <3>8. ~(l < rlayer[c])
      BY <1>0, <2>5
    <3>9. ~RLeftLevel(c, l)
      BY <2>1, <3>8 DEF RLeftLevel
    <3> QED
      BY <2>1, <2>2, <2>3, <2>5, <3>1, <3>5, <3>7, <3>9
  <2> QED
    BY <2>4, <2>5
<1>17. ASSUME ByCheckMaximumLayer(h, c)
       PROVE  Goal
  <2>1. rpc[c] = "raise" /\ rpc'[c] = "publish" /\ new = old
    BY <1>8, <1>17 DEF ByCheckMaximumLayer, CallTo
  <2> QED
    BY <1>6, <2>1 DEF RLeftLevel, RLinking, Linking
<1>18. ~ByFirst(c) /\ ~ByPublish(h, c)
  BY <1>2 DEF ByFirst, ByPublish, CallTo
<1> QED
  <2> HIDE DEF Goal
  <2> QED
    BY CallCases, <1>9, <1>10, <1>11, <1>12, <1>14, <1>15, <1>16, <1>17, <1>18

(* The locals of the call, and so all of what is behind.                     *)
LEMMA CallKeepsState ==
  ASSUME TypeInv, Turns, Calls, RType, NEW h \in hooks, NEW c, c = h.node, Behind(h), c # 0,
         R!InsertFromExternal(c), UNCHANGED vars, Calls', rpc'[c] # "done"
  PROVE  CallState(h)' /\ HookLists(h)'
<1>0. /\ c \in Ids /\ rpc[c] # "done"
      /\ \A l \in Levels : h.neighbors[l] \in Seq(Ids)
      /\ ridx[c] \in Nat /\ rlayer[c] \in Levels
      /\ h.target \in Levels /\ rcurrentMaximumLayer \in Levels
      /\ CallState(h) /\ HookLists(h)
      /\ rpc[c] # "first" /\ rpc'[c] # "first"
  <2>1. c \in Ids /\ rpc[c] # "done"
    BY CallFacts
  <2>2. /\ \A l \in Levels : h.neighbors[l] \in Seq(Ids)
        /\ ridx[c] \in Nat /\ rlayer[c] \in Levels
        /\ h.target \in Levels /\ rcurrentMaximumLayer \in Levels
    BY <2>1, HookType DEF RType
  <2>3. CallState(h) /\ HookLists(h)
    BY <2>1 DEF Behind
  <2>4. rpc[c] # "first" /\ rpc'[c] # "first"
    BY <2>1 DEF Calls
  <2> QED
    BY <2>1, <2>2, <2>3, <2>4
<1>1. rcurrentMaximumLayer' = rcurrentMaximumLayer
  BY <1>0, CallCases
     DEF ByLookup, ByFirst, ByReadMaximumLayer, ByStore, ByEnterLevel, ByNextLevel, ByFindNeighbor,
         ByLinkNeighbor, ByLinkSelf, ByCountNeighbor, ByFindingMany, ByPrune, ByCheckMaximumLayer,
         ByPublish, CallTo, RGraphKept
<1>2. HookLists(h)'
  BY <1>0, <1>1 DEF HookLists
<1>3. /\ rpc[c] \in RLinking =>
           /\ rneighbors[c] = h.neighbors[rlayer[c]]
           /\ ridx[c] \in 1 .. Len(rneighbors[c]) + 1
      /\ rpc[c] \in Linking => /\ ridx[c] \in 1 .. Len(rneighbors[c])
                               /\ rneighbor[c] = R!Neighbor(c)
  BY <1>0 DEF CallState
<1> DEFINE Goal == CallState(h)'
<1>4. ASSUME rpc'[c] \notin {"store", "publish"} \cup RLinking
      PROVE  Goal
  BY <1>4 DEF CallState, RLinking, Linking
<1>5. ASSUME ByLookup(h, c) \/ ByStore(c) \/ ByNextLevel(c)
      PROVE  Goal
  <2>1. rpc'[c] \notin {"store", "publish"} \cup RLinking
    BY <1>0, <1>5 DEF ByLookup, ByStore, ByNextLevel, CallTo, RLinking, Linking
  <2> QED
    BY <1>4, <2>1
<1>6. ASSUME ByReadMaximumLayer(h, c)
      PROVE  Goal
  <2>1. rpc'[c] = "store" /\ rlayer'[c] = R!Lower(h.target, rcurrentMaximumLayer)
    BY <1>6 DEF ByReadMaximumLayer, CallTo
  <2>2. \A l \in Levels : l <= h.target /\ l <= rcurrentMaximumLayer =>
           l <= R!Lower(h.target, rcurrentMaximumLayer)
    BY <1>0, RLower
  <2>3. \A l \in Levels : h.neighbors[l] # <<>> => l <= rlayer'[c]
    BY <1>0, <2>1, <2>2 DEF HookLists
  <2> QED
    BY <2>1, <2>3 DEF CallState, RLinking, Linking
<1>7. ASSUME ByEnterLevel(h, c)
      PROVE  Goal
  <2>1. rpc'[c] = "range" /\ rlayer'[c] = rlayer[c] /\ ridx'[c] = 1
        /\ rneighbors'[c] = h.neighbors[rlayer[c]]
    BY <1>7 DEF ByEnterLevel, CallTo
  <2>2. Len(h.neighbors[rlayer[c]]) \in Nat
    BY <1>0
  <2>3. ridx'[c] \in 1 .. Len(rneighbors'[c]) + 1
    BY <2>1, <2>2
  <2> QED
    BY <2>1, <2>3 DEF CallState, RLinking, Linking
<1>8. ASSUME ByFindNeighbor(c)
      PROVE  Goal
  <2>1. rpc[c] = "range" /\ rpc'[c] = "link" /\ rlayer'[c] = rlayer[c] /\ ridx'[c] = ridx[c]
        /\ rneighbors'[c] = rneighbors[c] /\ rneighbor'[c] = R!Neighbor(c)
        /\ ridx[c] \in 1 .. Len(rneighbors[c])
    BY <1>8 DEF ByFindNeighbor, CallTo
  <2>2. R!Neighbor(c)' = R!Neighbor(c)
    BY <2>1 DEF R!Neighbor
  <2>3. rneighbors[c] = h.neighbors[rlayer[c]] /\ ridx[c] \in 1 .. Len(rneighbors[c]) + 1
    BY <1>3, <2>1 DEF RLinking
  <2> QED
    BY <2>1, <2>2, <2>3 DEF CallState, RLinking, Linking
<1>9. ASSUME rpc[c] \in Linking, rpc'[c] \in {"linkSelf", "count"},
             rlayer'[c] = rlayer[c], ridx'[c] = ridx[c], OnLevel(c)
      PROVE  Goal
  <2>1. R!Neighbor(c)' = R!Neighbor(c) /\ rneighbors'[c] = rneighbors[c] /\ rneighbor'[c] = rneighbor[c]
    BY <1>9 DEF R!Neighbor, OnLevel
  <2> QED
    BY <1>3, <1>9, <2>1 DEF CallState, RLinking, Linking
<1>10. ASSUME ByLinkNeighbor(c) \/ ByLinkSelf(c)
       PROVE  Goal
  <2>1. /\ rpc[c] \in Linking /\ rpc'[c] \in {"linkSelf", "count"}
        /\ rlayer'[c] = rlayer[c] /\ ridx'[c] = ridx[c] /\ OnLevel(c)
    BY <1>10 DEF ByLinkNeighbor, ByLinkSelf, CallTo, Linking
  <2> QED
    BY <1>9, <2>1
<1>11. ASSUME ByFindingMany(c)
       PROVE  Goal
  <2>1. /\ rpc[c] = "count" /\ rpc'[c] = "prune"
        /\ rlayer'[c] = rlayer[c] /\ ridx'[c] = ridx[c]
        /\ rneighbors'[c] = rneighbors[c] /\ rneighbor'[c] = rneighbor[c]
        /\ Len(RList(R!Neighbor(c), rlayer[c])) > Limit(rlayer[c])
        /\ rsnapshot'[c] = RList(R!Neighbor(c), rlayer[c])
    BY <1>11 DEF ByFindingMany, CallTo, OnLevel
  <2>2. rpc[c] \in RLinking /\ rpc[c] \in Linking
    BY <2>1 DEF RLinking, Linking
  <2>3. /\ rneighbors[c] = h.neighbors[rlayer[c]] /\ ridx[c] \in 1 .. Len(rneighbors[c]) + 1
        /\ ridx[c] \in 1 .. Len(rneighbors[c]) /\ rneighbor[c] = R!Neighbor(c)
    BY <1>3, <2>2
  <2>4. R!Neighbor(c)' = R!Neighbor(c)
    BY <2>1 DEF R!Neighbor
  <2>5. R!Neighbor(c) \in Ids
    BY <2>2, <2>3, CallNeighbor
  <2>6. PICK v \in Ids, m \in Levels : v = R!Neighbor(c) /\ m = rlayer[c]
    BY <1>0, <2>5
  <2>7. RList(v, m)' = RList(v, m)
    BY <1>11, <2>6 DEF ByFindingMany, RKeeps
  <2>8. rneighbor'[c] = v /\ rlayer'[c] = m /\ rsnapshot'[c] = RList(v, m)
        /\ Len(rsnapshot'[c]) > Limit(m)
    BY <2>1, <2>3, <2>6
  <2>9. RList(rneighbor[c], rlayer[c])' = RList(v, m)'
    BY <2>8 DEF RList
  <2> QED
    BY <2>1, <2>3, <2>4, <2>7, <2>8, <2>9 DEF CallState, RLinking, Linking
<1>12. ASSUME ByCountNeighbor(c) \/ ByPrune(c)
       PROVE  Goal
  <2>1. /\ rpc[c] \in {"count", "prune"} /\ rpc'[c] = "range"
        /\ rlayer'[c] = rlayer[c] /\ ridx'[c] = ridx[c] + 1
        /\ rneighbors'[c] = rneighbors[c]
    BY <1>12 DEF ByCountNeighbor, ByPrune, CallTo
  <2>2. rpc[c] \in RLinking /\ rpc[c] \in Linking
    BY <2>1 DEF RLinking, Linking
  <2>3. rneighbors[c] = h.neighbors[rlayer[c]] /\ ridx[c] \in 1 .. Len(rneighbors[c])
    BY <1>3, <2>2
  <2>a. PICK i \in Nat, n \in Nat : i = ridx[c] /\ n = Len(rneighbors[c])
    BY <1>0, <2>3
  <2>b. i \in 1 .. n
    BY <2>3, <2>a
  <2>c. i + 1 \in 1 .. n + 1
    BY ONLY <2>b
  <2>4. ridx'[c] \in 1 .. Len(rneighbors'[c]) + 1
    BY <2>1, <2>a, <2>c
  <2> QED
    BY <2>1, <2>3, <2>4 DEF CallState, RLinking, Linking
<1>13. ASSUME ByCheckMaximumLayer(h, c)
       PROVE  Goal
  <2>1. rpc'[c] = "publish" /\ h.target > rcurrentMaximumLayer
    BY <1>13 DEF ByCheckMaximumLayer, CallTo
  <2> QED
    BY <1>1, <2>1 DEF CallState, RLinking, Linking
<1>14. ~ByFirst(c) /\ ~ByPublish(h, c)
  BY <1>0 DEF ByFirst, ByPublish, CallTo
<1> QED
  <2> HIDE DEF Goal
  <2>1. Goal
    BY CallCases, <1>5, <1>6, <1>7, <1>8, <1>10, <1>11, <1>12, <1>13, <1>14
  <2> USE DEF Goal
  <2> QED
    BY <1>2, <2>1

LEMMA CallKeepsBehind ==
  ASSUME Apart, TypeInv, BornInv, Turns, Calls, RType, NEW h \in hooks, NEW c, c = h.node,
         \A g \in hooks : Behind(g), R!InsertFromExternal(c), UNCHANGED vars
  PROVE  \A g \in hooks' : Behind(g)'
<1>0. /\ c \in Ids /\ c \in Told /\ rpc[c] # "done" /\ c = jobs - 1
      /\ Told' = Told /\ hooks' = hooks /\ connections' = connections
      /\ \A d \in Ids \ {c} : rpc'[d] = rpc[d]
  BY CallFacts
<1>1. Calls'
  BY CallKeepsCalls
<1>2. ASSUME rpc'[c] # "done"
      PROVE  Behind(h)'
  <2>1. CASE c = 0
    BY <1>0, <2>1 DEF Behind
  <2>2. CASE c # 0
    <3>1. CallState(h)' /\ HookLists(h)'
      BY <1>1, <1>2, <2>2, CallKeepsState
    <3>2. \A l \in Levels : BehindOwn(h, l)'
      BY <1>1, <1>2, <2>2, CallKeepsOwn
    <3>3. \A v \in Ids, l \in Levels : v < c => BehindBy(h, v, l)'
      BY <1>1, <1>2, <2>2, CallKeepsBehindBy
    <3> QED
      BY <2>2, <3>1, <3>2, <3>3 DEF Behind
  <2> QED
    BY <2>1, <2>2
<1>3. ASSUME NEW g \in hooks, rpc'[g.node] # "done"
      PROVE  g = h
  <2>1. g.node \in Ids /\ g.node \in Told
    BY HookType
  <2>2. g.node = c
    BY <1>0, <1>3, <2>1 DEF Calls
  <2> QED
    BY <2>2 DEF Turns
<1> QED
  BY <1>0, <1>2, <1>3 DEF Behind

-------------------------------------------------------------------------------
(* Nobody inserts meanwhile; when the call is over the graphs are level.     *)
LEMMA CallKeepsAhead ==
  ASSUME TypeInv, BornInv, Turns, Calls, RType, NEW h \in hooks, NEW c, c = h.node,
         R!InsertFromExternal(c), UNCHANGED vars, NEW w \in Workers
  PROVE  Ahead(w)'
<1>1. c \in Told /\ rpc[c] # "done" /\ pc' = pc
  BY CallFacts
<1>2. ~Inserting(w)
  BY <1>1, Alone
<1>3. pc'[w] \in {"idle", "panic", "lock", "publish"}
  BY <1>1, <1>2 DEF Inserting
<1> QED
  BY <1>3 DEF Ahead, Inserting, Choosing, Linking

LEMMA CallKeepsLevel ==
  ASSUME TypeInv, Turns, Calls, RType, NEW h \in hooks, NEW c, c = h.node, Behind(h),
         R!InsertFromExternal(c), UNCHANGED vars
  PROVE  Level'
<1>0. /\ c \in Ids /\ c \in Told /\ rpc[c] # "done" /\ c = jobs - 1 /\ jobs \in Nat
      /\ connections' = connections /\ jobs' = jobs
  BY CallFacts
<1>1. SUFFICES ASSUME \A d \in Ids : d < jobs => rpc'[d] = "done",
                      NEW v \in Ids, NEW l \in Levels, v < jobs
               PROVE  RList(v, l)' = connections[v][l]
  BY <1>0 DEF Level
<1>2. rpc'[c] = "done"
  BY <1>0, <1>1
<1>3. v = c \/ v < c
  BY <1>0, <1>1, JobNumbers
<1>4. CASE ByFirst(c)
  <2>1. c = 0
    BY <1>0, <1>4 DEF ByFirst, Calls
  <2>2. v = c
    BY <1>3, <2>1, JobNumbers
  <2>3. RList(v, l)' = <<>>
    BY <1>4, <2>2 DEF ByFirst
  <2>4. connections[0][l] = <<>>
    BY <1>0, <2>1 DEF Behind
  <2> QED
    BY <2>1, <2>2, <2>3, <2>4
<1>5. CASE ByCheckMaximumLayer(h, c) \/ ByPublish(h, c)
  <2>1. rpc[c] \in {"raise", "publish"} /\ RKeeps
    BY <1>5 DEF ByCheckMaximumLayer, ByPublish, CallTo
  <2>2. c # 0
    BY <1>0, <2>1 DEF Calls
  <2>3. RList(v, l)' = RList(v, l)
    BY <2>1 DEF RKeeps
  <2>4. ~RLeftLevel(c, l) /\ rpc[c] \notin RLinking
    BY <2>1 DEF RLeftLevel, RLinking, Linking
  <2>5. BehindOwn(h, l)
    BY <1>0, <2>2 DEF Behind
  <2>6. v = c => RList(v, l) = connections[v][l]
    BY <2>4, <2>5 DEF BehindOwn
  <2>7. ASSUME v < c
        PROVE  RList(v, l) = connections[v][l]
    <3>1. BehindBy(h, v, l)
      BY <1>0, <2>2, <2>7 DEF Behind
    <3>2. \A j : RPast(c, l, j)
      BY <2>1 DEF RPast, RLeft, RNow, RLeftLevel, RLinking, Linking
    <3> QED
      BY <3>1, <3>2 DEF BehindBy
  <2> QED
    BY <1>3, <2>3, <2>6, <2>7
<1> QED
  BY <1>2, <1>4, <1>5, CallCases
     DEF ByLookup, ByReadMaximumLayer, ByStore, ByEnterLevel, ByNextLevel, ByFindNeighbor,
         ByLinkNeighbor, ByLinkSelf, ByCountNeighbor, ByFindingMany, ByPrune, CallTo

LEMMA CallKeepsTops ==
  ASSUME TypeInv, BornInv, Turns, Calls, RType, Tops, NEW h \in hooks, NEW c, c = h.node,
         Behind(h), R!InsertFromExternal(c), UNCHANGED vars
  PROVE  Tops'
<1>0. /\ c \in Ids /\ c \in Told /\ rpc[c] # "done" /\ c = jobs - 1 /\ jobs \in Nat
      /\ h.target = levelOf[c] /\ h.target \in Levels
      /\ Told' = Told /\ jobs' = jobs /\ levelOf' = levelOf /\ pc' = pc /\ node' = node
      /\ entryPointID' = entryPointID /\ currentMaximumLayer' = currentMaximumLayer
      /\ \A d \in Ids \ {c} : rpc'[d] = rpc[d]
  BY CallFacts
<1>1. Raising' = Raising
  BY <1>0 DEF Raising
<1>2. \A d \in Ids : d \in Told /\ rpc[d] # "done" => d = c
  BY <1>0 DEF Calls
<1>3. RRaising <=> levelOf[c] > rcurrentMaximumLayer
  BY <1>0, <1>2 DEF RRaising
<1>4. RRaising' <=> rpc'[c] # "done" /\ levelOf[c] > rcurrentMaximumLayer'
  BY <1>0, <1>2 DEF RRaising
<1>5. 0 \in Ids
  BY IdsAndLevels
<1>6. 0 \in Told /\ rpc'[0] # "done" => entryPointID = 0 /\ currentMaximumLayer = 0
  BY <1>0, <1>5 DEF Tops
<1>7. PICK E, M : /\ E = (IF Raising THEN jobs - 1 ELSE entryPointID)
                  /\ M = (IF Raising THEN levelOf[jobs - 1] ELSE currentMaximumLayer)
  OBVIOUS
<1> DEFINE Goal ==
      rpc'[0] = "done" => /\ E = (IF RRaising' THEN jobs - 1 ELSE rentryPointID')
                          /\ M = (IF RRaising' THEN levelOf[jobs - 1] ELSE rcurrentMaximumLayer')
<1>8. ASSUME ByFirst(c)
      PROVE  Goal
  <2>1. c = 0
    BY <1>0, <1>8 DEF ByFirst, Calls
  <2>2. ~Raising
    BY <1>0, <2>1 DEF Raising, Turns, Active
  <2>3. entryPointID = 0 /\ currentMaximumLayer = 0
    BY <1>0, <2>1 DEF Tops
  <2>4. ~RRaising' /\ rentryPointID' = 0 /\ rcurrentMaximumLayer' = 0
    BY <1>4, <1>8, <2>1 DEF ByFirst
  <2> QED
    BY <1>7, <2>2, <2>3, <2>4
<1>9. ASSUME rpc[0] = "done"
      PROVE  /\ E = (IF RRaising THEN jobs - 1 ELSE rentryPointID)
             /\ M = (IF RRaising THEN levelOf[jobs - 1] ELSE rcurrentMaximumLayer)
  BY <1>7, <1>9 DEF Tops
<1>10. ASSUME rentryPointID' = rentryPointID, rcurrentMaximumLayer' = rcurrentMaximumLayer,
              rpc'[c] # "done"
       PROVE  Goal
  <2>1. RRaising' <=> RRaising
    BY <1>3, <1>4, <1>10
  <2>2. rpc'[0] = "done" => rpc[0] = "done"
    BY <1>0, <1>5, <1>10
  <2> QED
    BY <1>9, <1>10, <2>1, <2>2
<1>11. ASSUME rpc[c] # "call"
       PROVE  (c # 0 /\ rpc[0] = "done") \/ rpc[c] = "first"
  <2>1. CASE c = 0
    BY <1>0, <1>11, <2>1 DEF Calls
  <2>2. CASE c # 0
    <3>1. 0 < jobs - 1
      BY <1>0, <2>2, JobNumbers
    <3> QED
      BY <1>5, <2>2, <3>1, Returned
  <2> QED
    BY <2>1, <2>2
<1>12. ASSUME ByCheckMaximumLayer(h, c)
       PROVE  Goal
  <2>1. /\ rpc[c] = "raise" /\ rentryPointID' = rentryPointID
        /\ rcurrentMaximumLayer' = rcurrentMaximumLayer
        /\ rpc'[c] = IF h.target > rcurrentMaximumLayer THEN "publish" ELSE "done"
    BY <1>12 DEF ByCheckMaximumLayer, CallTo, RGraphKept
  <2>2. CASE h.target > rcurrentMaximumLayer
    BY <1>10, <2>1, <2>2
  <2>3. CASE ~(h.target > rcurrentMaximumLayer)
    <3>1. ~RRaising /\ ~RRaising' /\ rpc[0] = "done"
      BY <1>0, <1>3, <1>4, <1>11, <2>1, <2>3
    <3> QED
      BY <1>9, <2>1, <3>1
  <2> QED
    BY <2>2, <2>3
<1>13. ASSUME ByPublish(h, c)
       PROVE  Goal
  <2>1. /\ rpc[c] = "publish" /\ rpc'[c] = "done"
        /\ rentryPointID' = c /\ rcurrentMaximumLayer' = h.target
    BY <1>13 DEF ByPublish, CallTo
  <2>2. c # 0 /\ rpc[0] = "done"
    BY <1>11, <2>1
  <2>3. h.target > rcurrentMaximumLayer
    BY <1>0, <2>1, <2>2 DEF Behind, CallState
  <2>4. RRaising /\ ~RRaising'
    BY <1>0, <1>3, <1>4, <2>1, <2>3
  <2> QED
    BY <1>0, <1>9, <2>1, <2>2, <2>4
<1>14. ASSUME ~ByFirst(c), ~ByCheckMaximumLayer(h, c), ~ByPublish(h, c)
       PROVE  Goal
  <2>1. rentryPointID' = rentryPointID /\ rcurrentMaximumLayer' = rcurrentMaximumLayer
        /\ rpc'[c] # "done"
    BY <1>14, CallCases
       DEF ByLookup, ByReadMaximumLayer, ByStore, ByEnterLevel, ByNextLevel, ByFindNeighbor,
           ByLinkNeighbor, ByLinkSelf, ByCountNeighbor, ByFindingMany, ByPrune, CallTo, RGraphKept
  <2> QED
    BY <1>10, <2>1
<1>15. Goal
  <2> HIDE DEF Goal
  <2> QED
    BY <1>8, <1>12, <1>13, <1>14
<1> QED
  <2>1. /\ rpc'[0] = "done" => 
             /\ (IF Raising' THEN jobs' - 1 ELSE entryPointID')
                  = (IF RRaising' THEN jobs' - 1 ELSE rentryPointID')
             /\ (IF Raising' THEN levelOf'[jobs' - 1] ELSE currentMaximumLayer')
                  = (IF RRaising' THEN levelOf'[jobs' - 1] ELSE rcurrentMaximumLayer')
    BY <1>0, <1>1, <1>7, <1>15
  <2> QED
    BY <1>0, <1>6, <2>1 DEF Tops

(* A step of the other graph.                                                *)
LEMMA CallStep ==
  ASSUME Apart, TypeInv, BornInv, TwinInv, NEW c \in Ids, R!InsertFromExternal(c), UNCHANGED vars
  PROVE  TwinInv'
<1>1. /\ RType /\ Turns /\ Calls /\ Level /\ NotCalled /\ Tops
      /\ \A g \in hooks : Behind(g)
  BY DEF TwinInv
<1>2. c \in Told
  BY <1>1, CallOf
<1>3. PICK h \in hooks : h.node = c
  BY <1>2 DEF Told
<1>4. RType' /\ Level'
  BY <1>1, <1>3, StepRType, CallKeepsLevel
<1>5. Calls' /\ NotCalled'
  BY <1>1, <1>3, CallKeepsCalls, CallKeepsNotCalled
<1>6. Turns' /\ Tops'
  BY <1>1, <1>3, CallKeepsTurns, CallKeepsTops
<1>7. \A w \in Workers : Ahead(w)'
  BY <1>1, <1>3, CallKeepsAhead
<1>8. \A g \in hooks' : Behind(g)'
  BY <1>1, <1>3, CallKeepsBehind
<1> QED
  BY <1>4, <1>5, <1>6, <1>7, <1>8 DEF TwinInv

-------------------------------------------------------------------------------
(* What each step of the worker does, as far as the other graph is about it. *)
WKeeps == \A v \in Ids, l \in Levels : connections'[v][l] = connections[v][l]

WSame == UNCHANGED <<jobs, node, hooks>>

WTop == UNCHANGED <<entryPointID, currentMaximumLayer>>

WTake(w) ==
  /\ pc[w] = "idle" /\ pc'[w] = "total" /\ jobs \in Ids /\ jobs' = jobs + 1 /\ node'[w] = jobs
  /\ chosen'[w] = Unlinked /\ WKeeps /\ UNCHANGED <<hooks, levelOf>> /\ WTop

WReadTotal(w) ==
  /\ pc[w] = "total" /\ pc'[w] = IF nodes = {} THEN "first" ELSE "entry"
  /\ WSame /\ WKeeps /\ UNCHANGED <<chosen, levelOf>> /\ WTop

WLockFirst(w) ==
  /\ pc[w] = "first" /\ pc'[w] = "table"
  /\ WSame /\ WKeeps /\ UNCHANGED <<chosen, levelOf, currentMaximumLayer>>
  /\ entryPointID' = node[w]

WFirstInsert(w) ==
  /\ pc[w] = "table" /\ pc'[w] = "idle" /\ UNCHANGED <<jobs, node, chosen, entryPointID>> /\ WKeeps
  /\ hooks' = hooks \cup {[node |-> node[w], target |-> 0, neighbors |-> Unlinked, live |-> TRUE]}
  /\ levelOf' = [levelOf EXCEPT ![node[w]] = 0] /\ currentMaximumLayer' = 0

WRead(w) ==
  /\ \/ pc[w] = "entry" /\ pc'[w] = "max"
     \/ pc[w] = "max" /\ pc'[w] = "add" /\ layer'[w] = currentMaximumLayer
     \/ pc[w] = "add" /\ pc'[w] = "search" /\ layer'[w] = layer[w]
  /\ WSame /\ WKeeps /\ UNCHANGED chosen /\ WTop
  /\ \A v \in Ids : v # node[w] => levelOf'[v] = levelOf[v]

WSearch(w) ==
  /\ pc[w] = "search" /\ pc'[w] = "search" /\ layer'[w] <= layer[w]
  /\ WSame /\ WKeeps /\ UNCHANGED <<chosen, levelOf>> /\ WTop

WSelect(w) ==
  /\ pc[w] = "search" /\ pc'[w] = "link" /\ layer'[w] = layer[w] /\ idx'[w] = 1
  /\ \A l \in Levels : l # layer[w] => chosen'[w][l] = chosen[w][l]
  /\ WSame /\ WKeeps /\ UNCHANGED levelOf /\ WTop

WLinks == WSame /\ UNCHANGED <<chosen, levelOf>> /\ WTop

WAdvances(w) ==
  \/ /\ idx[w] < Len(chosen[w][layer[w]]) /\ idx'[w] = idx[w] + 1
     /\ pc'[w] = "link" /\ layer'[w] = layer[w]
  \/ /\ idx[w] >= Len(chosen[w][layer[w]])
     /\ pc'[w] = "search" /\ layer'[w] = layer[w] - 1
  \/ /\ idx[w] >= Len(chosen[w][layer[w]])
     /\ pc'[w] = "raise" /\ layer'[w] = layer[w]

WLinkNeighbor(w) ==
  /\ pc[w] = "link" /\ pc'[w] = "linkSelf" /\ idx'[w] = idx[w] /\ layer'[w] = layer[w]
  /\ WLinks /\ Extends(Neighbor(w), layer[w], node[w])

WLinkSelf(w) ==
  /\ pc[w] = "linkSelf" /\ pc'[w] = "count" /\ idx'[w] = idx[w] /\ layer'[w] = layer[w]
  /\ WLinks /\ Extends(node[w], layer[w], Neighbor(w))

WCount(w) ==
  /\ pc[w] = "count" /\ Len(connections[Neighbor(w)][layer[w]]) <= Limit(layer[w])
  /\ WAdvances(w) /\ WLinks /\ WKeeps

WFindMany(w) ==
  /\ pc[w] = "count" /\ pc'[w] = "prune" /\ idx'[w] = idx[w] /\ layer'[w] = layer[w]
  /\ snapshot'[w] = connections[Neighbor(w)][layer[w]]
  /\ Len(connections[Neighbor(w)][layer[w]]) > Limit(layer[w])
  /\ WLinks /\ WKeeps

WPrune(w) ==
  /\ pc[w] = "prune" /\ WAdvances(w) /\ WLinks
  /\ \E s \in Nearest(Elements(snapshot[w]), Dist[node[w]], Limit(layer[w])) :
       Cuts(Neighbor(w), layer[w], s)

WCheck(w) ==
  /\ pc[w] = "raise" /\ pc'[w] = IF levelOf[node[w]] > currentMaximumLayer THEN "lock" ELSE "idle"
  /\ hooks' = hooks \cup {[node |-> node[w], target |-> levelOf[node[w]],
                           neighbors |-> chosen[w], live |-> FALSE]}
  /\ WKeeps /\ UNCHANGED <<jobs, node, levelOf>> /\ WTop

WPublishEntryPoint(w) ==
  /\ pc[w] = "lock" /\ pc'[w] = "publish" /\ entryPointID' = node[w]
  /\ WSame /\ WKeeps /\ UNCHANGED <<levelOf, currentMaximumLayer>>

WPublishMaximumLayer(w) ==
  /\ pc[w] = "publish" /\ pc'[w] = "idle" /\ currentMaximumLayer' = levelOf[node[w]]
  /\ WSame /\ WKeeps /\ UNCHANGED <<levelOf, entryPointID>>

LEMMA WorkerCases ==
  ASSUME TypeInv, UnbornUnlinked, NEW w \in Workers, Take(w) \/ Insert(w), pc'[w] # "panic"
  PROVE  \/ Take(w) /\ WTake(w)
         \/ /\ Insert(w)
            /\ \/ WReadTotal(w) \/ WLockFirst(w) \/ WFirstInsert(w) \/ WRead(w)
               \/ WSearch(w) \/ WSelect(w) \/ WLinkNeighbor(w) \/ WLinkSelf(w) \/ WCount(w)
               \/ WFindMany(w) \/ WPrune(w) \/ WCheck(w) \/ WPublishEntryPoint(w)
               \/ WPublishMaximumLayer(w)
<1>0. /\ pc \in [Workers -> PcValues] /\ layer \in [Workers -> Levels]
      /\ idx \in [Workers -> Nat] /\ node \in [Workers -> Ids]
      /\ chosen \in [Workers -> [Levels -> Seq(Ids)]]
      /\ snapshot \in [Workers -> Seq(Ids)] /\ levelOf \in [Ids -> Levels]
      /\ connections \in [Ids -> [Levels -> Seq(Ids)]] /\ jobs \in Nat
      /\ 0 \in Levels /\ Levels \subseteq Nat
  BY IdsAndLevels, JobNumbers DEF TypeInv, TypeOK
<1>1. \/ WKeeps
      \/ LinkNeighbor(w) /\ Extends(Neighbor(w), layer[w], node[w])
      \/ LinkSelf(w) /\ Extends(node[w], layer[w], Neighbor(w))
      \/ Prune(w)
  <2>1. UNCHANGED connections => WKeeps
    BY DEF WKeeps
  <2>2. ForgetsLists(w) => WKeeps
    BY ForgetsNothing DEF WKeeps
  <2> QED
    BY <2>1, <2>2, StepLists
<1>2. ASSUME pc[w] \notin {"link", "linkSelf", "prune"}
      PROVE  WKeeps
  BY <1>1, <1>2 DEF LinkNeighbor, LinkSelf, Prune
<1>3. CASE Take(w)
  <2>1. pc[w] = "idle" /\ jobs < N
    BY <1>3 DEF Take
  <2>2. jobs \in Ids
    BY <1>0, <2>1, NAssumption DEF Ids
  <2> QED
    BY <1>0, <1>2, <1>3, <2>1, <2>2 DEF Take, graph, WTake, WTop
<1>4. CASE ReadTotal(w)
  BY <1>0, <1>2, <1>4 DEF ReadTotal, graph, WReadTotal, WSame, WTop, Insert
<1>5. CASE LockFirst(w)
  BY <1>0, <1>2, <1>5 DEF LockFirst, WLockFirst, WSame, Insert
<1>6. CASE FirstInsert(w)
  BY <1>0, <1>2, <1>6 DEF FirstInsert, WFirstInsert, Insert
<1>7. CASE ReadEntryPoint(w)
  BY <1>0, <1>2, <1>7 DEF ReadEntryPoint, graph, WRead, WSame, WTop, Insert
<1>8. CASE ReadMaximumLayer(w)
  <2>1. \A v \in Ids : v # node[w] => levelOf'[v] = levelOf[v]
    BY <1>0, <1>8 DEF ReadMaximumLayer
  <2> QED
    BY <1>0, <1>2, <1>8, <2>1 DEF ReadMaximumLayer, WRead, WSame, WTop, Insert
<1>9. CASE AddNode(w)
  BY <1>0, <1>2, <1>9 DEF AddNode, WRead, WSame, WTop, Insert
<1>10. CASE (\E c \in Ids : Expand(w, c)) \/ Visit(w) \/ Descend(w)
  <2>1. pc[w] = "search" /\ WSame /\ UNCHANGED <<chosen, levelOf>> /\ WTop
    BY <1>10 DEF Expand, Visit, Descend, SearchOver, graph, WSame, WTop
  <2>2. pc'[w] = "search"
    BY <1>0, <1>10 DEF Expand, Visit, Descend, SearchOver
  <2>3. layer' = layer \/ layer' = [layer EXCEPT ![w] = layer[w] - 1]
    BY <1>10 DEF Expand, Visit, Descend
  <2>4. layer'[w] = layer[w] \/ layer'[w] = layer[w] - 1
    BY <1>0, <2>3
  <2>a. PICK m \in Nat : m = layer[w]
    BY <1>0
  <2>5. layer'[w] <= layer[w]
    BY <2>4, <2>a
  <2> QED
    BY <1>2, <1>10, <2>1, <2>2, <2>5 DEF WSearch, Insert
<1>11. CASE SelectNeighbors(w)
  <2>1. \E s : chosen' = [chosen EXCEPT ![w][layer[w]] = s]
    BY <1>11 DEF SelectNeighbors
  <2>2. \A l \in Levels : l # layer[w] => chosen'[w][l] = chosen[w][l]
    BY <1>0, <2>1
  <2> QED
    BY <1>0, <1>2, <1>11, <2>2 DEF SelectNeighbors, SearchOver, graph, WSelect, WSame, WTop, Insert
<1>12. CASE LinkNeighbor(w)
  <2>1. pc[w] = "link" /\ WLinks /\ idx'[w] = idx[w] /\ layer'[w] = layer[w]
    BY <1>12 DEF LinkNeighbor, WLinks, WSame, WTop
  <2>2. pc'[w] = "linkSelf" /\ connections' = [connections EXCEPT ![Neighbor(w)][layer[w]] = Append(@, node[w])]
    BY <1>0, <1>12 DEF LinkNeighbor
  <2>3. Extends(Neighbor(w), layer[w], node[w])
    BY <1>0, <2>2 DEF Extends
  <2> QED
    BY <1>12, <2>1, <2>2, <2>3 DEF WLinkNeighbor, Insert
<1>13. CASE LinkSelf(w)
  <2>1. pc[w] = "linkSelf" /\ WLinks /\ idx'[w] = idx[w] /\ layer'[w] = layer[w] /\ pc'[w] = "count"
    BY <1>0, <1>13 DEF LinkSelf, WLinks, WSame, WTop
  <2>2. connections' = [connections EXCEPT ![node[w]][layer[w]] = Append(@, Neighbor(w))]
    BY <1>13 DEF LinkSelf
  <2>3. Extends(node[w], layer[w], Neighbor(w))
    BY <1>0, <2>2 DEF Extends
  <2> QED
    BY <1>13, <2>1, <2>3 DEF WLinkSelf, Insert
<1>14. Advance(w) => WAdvances(w)
  BY AdvanceCases DEF WAdvances
<1>15. CASE CountNeighbor(w)
  <2>1. pc[w] = "count" /\ WLinks
    BY <1>15 DEF CountNeighbor, graph, WLinks, WSame, WTop
  <2>2. CASE Len(connections[Neighbor(w)][layer[w]]) <= Limit(layer[w])
    <3>1. Advance(w)
      BY <1>15, <2>2 DEF CountNeighbor
    <3> QED
      BY <1>2, <1>14, <1>15, <2>1, <2>2, <3>1 DEF WCount, Insert
  <2>3. CASE ~(Len(connections[Neighbor(w)][layer[w]]) <= Limit(layer[w]))
    <3>1. /\ snapshot' = [snapshot EXCEPT ![w] = connections[Neighbor(w)][layer[w]]]
          /\ pc' = [pc EXCEPT ![w] = "prune"]
          /\ UNCHANGED <<layer, idx>>
      BY <1>15, <2>3 DEF CountNeighbor
    <3>2. Neighbor(w) \in Ids
      BY <2>1, NeighborType DEF Linking, TypeInv, TypeOK
    <3>a. connections[Neighbor(w)][layer[w]] \in Seq(Ids) /\ layer[w] \in Levels
      BY <1>0, <3>2
    <3>3. Len(connections[Neighbor(w)][layer[w]]) \in Nat /\ Limit(layer[w]) \in Nat
      BY <3>a, LimitType
    <3>4. Len(connections[Neighbor(w)][layer[w]]) > Limit(layer[w])
      BY <2>3, <3>3
    <3> QED
      BY <1>0, <1>2, <1>15, <2>1, <3>1, <3>4 DEF WFindMany, Insert
  <2> QED
    BY <2>2, <2>3
<1>16. CASE Prune(w)
  <2>1. pc[w] = "prune" /\ WLinks /\ Advance(w)
    BY <1>16 DEF Prune, WLinks, WSame, WTop
  <2>2. PICK s \in Nearest(Elements(snapshot[w]), Dist[node[w]], Limit(layer[w])) :
          connections' = [connections EXCEPT ![Neighbor(w)][layer[w]] = s]
    BY <1>16 DEF Prune, DistTo
  <2>3. Cuts(Neighbor(w), layer[w], s)
    BY <1>0, <2>2 DEF Cuts
  <2> QED
    BY <1>14, <1>16, <2>1, <2>2, <2>3 DEF WPrune, Insert
<1>17. CASE CheckMaximumLayer(w)
  BY <1>0, <1>2, <1>17 DEF CheckMaximumLayer, graph, WCheck, WTop, Insert
<1>18. CASE PublishEntryPoint(w)
  BY <1>0, <1>2, <1>18 DEF PublishEntryPoint, WPublishEntryPoint, WSame, Insert
<1>19. CASE PublishMaximumLayer(w)
  BY <1>0, <1>2, <1>19 DEF PublishMaximumLayer, WPublishMaximumLayer, WSame, Insert
<1> QED
  BY <1>3, <1>4, <1>5, <1>6, <1>7, <1>8, <1>9, <1>10, <1>11, <1>12, <1>13, <1>15, <1>16, <1>17,
     <1>18, <1>19 DEF Insert

-------------------------------------------------------------------------------
(* The worker's steps keep what is said of the calls and of the jobs.        *)
WorkerInv ==
  /\ TypeInv /\ Publication /\ ChoicesInv /\ BornInv /\ UnbornUnlinked /\ LinkInv
  /\ FirstOnce /\ StoredBorn /\ BornStored /\ Known

(* A step of the worker: a job is only taken once all calls have returned.   *)
WorkerStep(w) ==
  /\ (Take(w) /\ AllReplicated) \/ Insert(w)
  /\ UNCHANGED rvars

LEMMA WorkerFacts ==
  ASSUME OneWorker, WorkerInv, TwinInv, NEW w \in Workers, WorkerStep(w), pc'[w] # "panic"
  PROVE  /\ \A x \in Workers : x = w
         /\ Take(w) \/ Insert(w)
         /\ pc[w] \in PcValues /\ node[w] \in Ids /\ jobs \in Nat
         /\ pc[w] \notin {"idle", "panic"} => node[w] = jobs - 1
         /\ pc[w] \in {"first", "table"} => node[w] = 0
         /\ pc[w] \notin {"idle", "panic", "total", "first", "table"} => node[w] # 0
         /\ Inserting(w) => node[w] \notin Told /\ rpc[node[w]] = "call"
         /\ \A d \in Told : d \in Ids /\ d < jobs
         /\ Inserting(w) \/ Take(w) => \A d \in Told : rpc[d] = "done"
         /\ Take(w) => \A d \in Ids : d < jobs => d \in Told
         /\ rpc' = rpc /\ rnodes' = rnodes /\ rown' = rown /\ rlevelOf' = rlevelOf
         /\ rlayer' = rlayer /\ rneighbors' = rneighbors /\ ridx' = ridx
         /\ rneighbor' = rneighbor /\ rsnapshot' = rsnapshot
         /\ rentryPointID' = rentryPointID /\ rcurrentMaximumLayer' = rcurrentMaximumLayer
         /\ rconnections' = rconnections
<1>1. \A x \in Workers : x = w
  BY DEF OneWorker
<1>2. /\ TypeInv /\ BornInv /\ Turns /\ Calls /\ (Take(w) \/ Insert(w))
      /\ Take(w) => AllReplicated \/ Insert(w)
  BY DEF WorkerInv, TwinInv, WorkerStep
<1>3. pc[w] \in PcValues /\ node[w] \in Ids /\ jobs \in Nat
  BY <1>2, JobNumbers DEF TypeInv, TypeOK
<1>4. /\ pc[w] \notin {"idle", "panic"} => node[w] = jobs - 1
      /\ pc[w] \in {"first", "table"} => node[w] = 0
      /\ pc[w] \notin {"idle", "panic", "total", "first", "table"} => node[w] # 0
  BY <1>2 DEF Turns, Active
<1>5. Inserting(w) => node[w] \notin Told
  BY <1>2 DEF BornInv, HooksBorn, Told
<1>6. Inserting(w) => rpc[node[w]] = "call"
  BY <1>2, <1>3, <1>5 DEF Calls
<1>7. \A d \in Told : d \in Ids /\ d < jobs
  BY <1>2, HookType DEF BornInv, HooksBorn, Told
<1>8. Inserting(w) => \A d \in Told : rpc[d] = "done"
  BY <1>2, Alone
<1>9. Take(w) => ~Insert(w) /\ ~Inserting(w)
  BY DEF Take, Insert, ReadTotal, LockFirst, FirstInsert, ReadEntryPoint, ReadMaximumLayer, AddNode,
         Expand, Visit, Descend, SelectNeighbors, SearchOver, LinkNeighbor, LinkSelf, CountNeighbor,
         Prune, CheckMaximumLayer, PublishEntryPoint, PublishMaximumLayer, Inserting
<1>10. Take(w) => \A d \in Told : rpc[d] = "done"
  BY <1>2, <1>9, ReplicatedMeans
<1>11. Take(w) => \A d \in Ids : d < jobs => d \in Told
  BY <1>1, <1>2, <1>9 DEF Turns
<1>12. /\ rpc' = rpc /\ rnodes' = rnodes /\ rown' = rown /\ rlevelOf' = rlevelOf
       /\ rlayer' = rlayer /\ rneighbors' = rneighbors /\ ridx' = ridx
       /\ rneighbor' = rneighbor /\ rsnapshot' = rsnapshot
       /\ rentryPointID' = rentryPointID /\ rcurrentMaximumLayer' = rcurrentMaximumLayer
       /\ rconnections' = rconnections
  BY DEF WorkerStep, rvars
<1> QED
  BY <1>1, <1>2, <1>3, <1>4, <1>5, <1>6, <1>7, <1>8, <1>10, <1>11, <1>12

LEMMA WorkerKeepsRTypes ==
  ASSUME RType, NotCalled, UNCHANGED rvars
  PROVE  RType' /\ NotCalled'
BY DEF RType, NotCalled, RList, rvars

(* What the other graph is told from now on.                                 *)
LEMMA WorkerTells ==
  ASSUME OneWorker, WorkerInv, TwinInv, NEW w \in Workers, WorkerStep(w), pc'[w] # "panic"
  PROVE  \/ hooks' = hooks /\ Told' = Told /\ ~WFirstInsert(w) /\ ~WCheck(w)
         \/ /\ WFirstInsert(w) /\ node[w] = 0 /\ pc[w] = "table"
            /\ Told' = Told \cup {0}
            /\ hooks' = hooks \cup {[node |-> 0, target |-> 0,
                                     neighbors |-> Unlinked, live |-> TRUE]}
         \/ /\ WCheck(w) /\ pc[w] = "raise"
            /\ Told' = Told \cup {node[w]}
            /\ hooks' = hooks \cup {[node |-> node[w], target |-> levelOf[node[w]],
                                     neighbors |-> chosen[w], live |-> FALSE]}
<1>1. Take(w) \/ Insert(w)
  BY WorkerFacts
<1>2. TypeInv /\ UnbornUnlinked
  BY DEF WorkerInv
<1>3. CASE WFirstInsert(w)
  <2>1. node[w] = 0 /\ pc[w] = "table"
    BY <1>3, WorkerFacts DEF WFirstInsert
  <2>2. PICK g : g = [node |-> 0, target |-> 0, neighbors |-> Unlinked, live |-> TRUE]
    OBVIOUS
  <2>3. g.node = 0 /\ hooks' = hooks \cup {g}
    BY <1>3, <2>1, <2>2 DEF WFirstInsert
  <2>4. Told' = Told \cup {0}
    BY <2>3 DEF Told
  <2> QED
    BY <1>3, <2>1, <2>2, <2>3, <2>4
<1>4. CASE WCheck(w)
  <2>1. PICK g : g = [node |-> node[w], target |-> levelOf[node[w]],
                      neighbors |-> chosen[w], live |-> FALSE]
    OBVIOUS
  <2>2. g.node = node[w] /\ hooks' = hooks \cup {g}
    BY <1>4, <2>1 DEF WCheck
  <2>3. Told' = Told \cup {node[w]}
    BY <2>2 DEF Told
  <2> QED
    BY <1>4, <2>1, <2>2, <2>3 DEF WCheck
<1>5. CASE ~WFirstInsert(w) /\ ~WCheck(w)
  <2>1. hooks' = hooks
    BY <1>1, <1>2, <1>5, WorkerCases
       DEF WTake, WReadTotal, WLockFirst, WRead, WSearch, WSelect, WLinkNeighbor, WLinkSelf, WCount,
           WFindMany, WPrune, WPublishEntryPoint, WPublishMaximumLayer, WSame, WLinks
  <2> QED
    BY <1>5, <2>1 DEF Told
<1> QED
  BY <1>3, <1>4, <1>5

LEMMA WorkerKeepsCalls ==
  ASSUME OneWorker, WorkerInv, TwinInv, NEW w \in Workers, WorkerStep(w), pc'[w] # "panic"
  PROVE  Calls'
<1>0. /\ Take(w) \/ Insert(w)
      /\ pc[w] \in PcValues /\ node[w] \in Ids /\ jobs \in Nat
      /\ pc[w] \notin {"idle", "panic"} => node[w] = jobs - 1
      /\ Inserting(w) => node[w] \notin Told /\ rpc[node[w]] = "call"
      /\ Inserting(w) \/ Take(w) => \A d \in Told : rpc[d] = "done"
      /\ rpc' = rpc /\ rnodes' = rnodes /\ rown' = rown /\ rlevelOf' = rlevelOf
  BY WorkerFacts
<1>1. TypeInv /\ UnbornUnlinked /\ Calls
  BY DEF WorkerInv, TwinInv
<1>2. Told \subseteq Told' /\ Told' \subseteq Told \cup {node[w]}
      /\ (Told' = Told \/ (pc[w] \in {"table", "raise"}))
  BY WorkerTells
<1>3. ASSUME NEW d \in Told
      PROVE  levelOf'[d] = levelOf[d]
  <2>1. levelOf'[d] # levelOf[d] => d = node[w] /\ pc[w] \in {"table", "max"}
    <3>1. d \in Ids
      BY WorkerFacts
    <3> QED
      BY <1>0, <1>1, <3>1, StepLevels
  <2>2. pc[w] \in {"table", "max"} => Inserting(w)
    BY DEF Inserting
  <2> QED
    BY <1>0, <2>1, <2>2
<1>4. jobs' = jobs \/ Take(w)
  BY <1>0, <1>1, StepJobs
<1>5. ASSUME NEW d \in Ids, d \in Told', rpc[d] # "done"
      PROVE  d = jobs' - 1
  <2>1. CASE d \in Told
    <3>1. ~Take(w) /\ d = jobs - 1
      BY <1>0, <1>1, <1>5, <2>1 DEF Calls
    <3> QED
      BY <1>4, <3>1
  <2>2. CASE d \notin Told
    <3>1. d = node[w] /\ pc[w] \in {"table", "raise"}
      BY <1>2, <1>5, <2>2
    <3>2. ~Take(w)
      BY <3>1 DEF Take
    <3> QED
      BY <1>0, <1>4, <3>1, <3>2
  <2> QED
    BY <2>1, <2>2
<1>6. ASSUME NEW d \in Ids, rpc[d] # "call"
      PROVE  d \in Told' /\ rown[d] = d /\ rlevelOf[d][d] = levelOf'[d]
  <2>1. d \in Told /\ rown[d] = d /\ rlevelOf[d][d] = levelOf[d]
    BY <1>1, <1>6 DEF Calls
  <2> QED
    BY <1>2, <1>3, <2>1
<1> QED
  BY <1>0, <1>1, <1>5, <1>6 DEF Calls

(* All that the other graph is told in a step is of w's vertex. *)
TellsOnly(w, news) ==
  /\ hooks' = hooks \cup news
  /\ \A g \in news :
       /\ g.node = node[w] /\ node[w] \notin Told /\ g.target = levelOf'[node[w]]
       /\ (g.live <=> node[w] = 0) /\ (node[w] = 0 => g.target = 0)
       /\ \A f \in news : f = g

LEMMA WorkerKeepsTurns ==
  ASSUME OneWorker, WorkerInv, TwinInv, NEW w \in Workers, WorkerStep(w), pc'[w] # "panic"
  PROVE  Turns'
<1>0. /\ \A x \in Workers : x = w
      /\ Take(w) \/ Insert(w)
      /\ pc[w] \in PcValues /\ node[w] \in Ids /\ jobs \in Nat
      /\ pc[w] \notin {"idle", "panic"} => node[w] = jobs - 1
      /\ pc[w] \in {"first", "table"} => node[w] = 0
      /\ pc[w] \notin {"idle", "panic", "total", "first", "table"} => node[w] # 0
      /\ Inserting(w) => node[w] \notin Told /\ rpc[node[w]] = "call"
      /\ Take(w) => \A d \in Ids : d < jobs => d \in Told
  BY WorkerFacts
<1>1. /\ TypeInv /\ UnbornUnlinked /\ Calls /\ Turns /\ StoredBorn /\ BornStored /\ FirstOnce
  BY DEF WorkerInv, TwinInv
<1>2. \/ Take(w) /\ WTake(w)
      \/ /\ Insert(w)
         /\ \/ WReadTotal(w) \/ WLockFirst(w) \/ WFirstInsert(w) \/ WRead(w)
            \/ WSearch(w) \/ WSelect(w) \/ WLinkNeighbor(w) \/ WLinkSelf(w) \/ WCount(w)
            \/ WFindMany(w) \/ WPrune(w) \/ WCheck(w) \/ WPublishEntryPoint(w)
            \/ WPublishMaximumLayer(w)
  BY <1>0, <1>1, WorkerCases
<1>3. CASE WTake(w)
  <2>1. jobs - 1 + 1 = jobs /\ jobs + 1 - 1 = jobs
    BY <1>0
  <2>a. pc'[w] = "total" /\ node'[w] = jobs /\ jobs' = jobs + 1
    BY <1>3 DEF WTake
  <2>c. PICK n \in Nat : n = jobs
    BY <1>0
  <2>d. jobs' = n + 1 /\ node'[w] = n
    BY <2>a, <2>c
  <2>b. node'[w] = jobs' - 1
    BY ONLY <2>d
  <2>2. Active(w)' => /\ node'[w] = jobs' - 1
                      /\ pc'[w] \in {"first", "table"} => node'[w] = 0
                      /\ pc'[w] \notin {"total", "first", "table"} => node'[w] # 0
    BY <2>a, <2>b
  <2>3. Told' = Told /\ hooks' = hooks /\ levelOf' = levelOf
    BY <1>3 DEF WTake, Told
  <2>4. ASSUME NEW d \in Ids, d < jobs'
        PROVE  d \in Told \/ (Inserting(w)' /\ node'[w] = d)
    <3>1. d < jobs \/ d = jobs
      BY <1>0, <1>3, <2>4, JobNumbers DEF WTake
    <3>2. CASE d < jobs
      BY <1>0, <1>2, <1>3, <3>2 DEF WTake, WReadTotal, WLockFirst, WFirstInsert, WRead, WSearch,
         WSelect, WLinkNeighbor, WLinkSelf, WCount, WFindMany, WPrune, WCheck,
         WPublishEntryPoint, WPublishMaximumLayer
    <3>3. CASE d = jobs
      BY <1>3, <3>3 DEF WTake, Inserting
    <3> QED
      BY <3>1, <3>2, <3>3
  <2> QED
    BY <1>0, <1>1, <2>2, <2>3, <2>4 DEF Turns
<1>4. CASE ~WTake(w)
  <2>0. /\ jobs' = jobs /\ node' = node /\ pc[w] \notin {"idle", "panic"}
        /\ node[w] = jobs - 1
    BY <1>0, <1>2, <1>4
       DEF WReadTotal, WLockFirst, WFirstInsert, WRead, WSearch, WSelect, WLinkNeighbor, WLinkSelf,
           WCount, WFindMany, WPrune, WCheck, WPublishEntryPoint, WPublishMaximumLayer, WSame, WLinks
  <2>1. ASSUME WReadTotal(w)
        PROVE  nodes = {} <=> node[w] = 0
    <3>1. pc[w] = "total"
      BY <2>1 DEF WReadTotal
    <3>2. ASSUME node[w] # 0
          PROVE  nodes # {}
      <4>1. 0 \in Ids /\ 0 < jobs - 1 /\ 0 < jobs
        BY <1>0, <2>0, <3>2, IdsAndLevels
      <4>2. \A x \in Workers : node[x] # 0
        BY <1>0, <3>2
      <4>3. Born(0)
        BY <4>1, <4>2 DEF Born
      <4> QED
        BY <1>1, <4>1, <4>3 DEF BornStored, FirstOnce
    <3>3. ASSUME node[w] = 0
          PROVE  nodes = {}
      <4>1. ASSUME NEW v \in nodes
            PROVE  FALSE
        <5>1. Born(v) /\ v \in Ids
          BY <1>1, <4>1 DEF StoredBorn, TypeInv, TypeOK
        <5>2. v < jobs /\ v # 0
          BY <3>1, <3>3, <5>1 DEF Born, Unborn
        <5>3. jobs = 1
          BY <1>0, <2>0, <3>3
        <5> QED
          BY <5>1, <5>2, <5>3, JobNumbers, <1>1
      <4> QED
        BY <4>1
    <3> QED
      BY <3>2, <3>3
  <2>2. /\ pc'[w] \in {"first", "table"} => node[w] = 0
        /\ pc'[w] \notin {"idle", "total", "first", "table"} => node[w] # 0
    <3>1. CASE WReadTotal(w)
      BY <2>1, <3>1 DEF WReadTotal
    <3>2. CASE WLockFirst(w) \/ WFirstInsert(w)
      BY <1>0, <3>2 DEF WLockFirst, WFirstInsert
    <3>3. CASE ~WReadTotal(w) /\ ~WLockFirst(w) /\ ~WFirstInsert(w)
      <4>1. pc[w] \notin {"idle", "panic", "total", "first", "table"} /\ pc'[w] \notin {"first", "table"}
        BY <1>2, <1>4, <3>3
           DEF WRead, WSearch, WSelect, WLinkNeighbor, WLinkSelf, WAdvances,
               WCount, WFindMany, WPrune, WCheck, WPublishEntryPoint, WPublishMaximumLayer
      <4> QED
        BY <1>0, <4>1
    <3> QED
      BY <3>1, <3>2, <3>3
  <2>3. Active(w)' => /\ node'[w] = jobs' - 1
                      /\ pc'[w] \in {"first", "table"} => node'[w] = 0
                      /\ pc'[w] \notin {"total", "first", "table"} => node'[w] # 0
    BY <2>0, <2>2 DEF Active
  <2>4. Inserting(w) => Inserting(w)' \/ WFirstInsert(w) \/ WCheck(w)
    <3>1. CASE WFirstInsert(w) \/ WCheck(w)
      BY <3>1
    <3>2. CASE WPublishEntryPoint(w) \/ WPublishMaximumLayer(w)
      BY <3>2 DEF WPublishEntryPoint, WPublishMaximumLayer, Inserting
    <3>3. CASE ~(WFirstInsert(w) \/ WCheck(w) \/ WPublishEntryPoint(w) \/ WPublishMaximumLayer(w))
      <4>1. pc'[w] \notin {"idle", "panic", "lock", "publish"}
        BY <1>2, <1>4, <3>3
           DEF WReadTotal, WLockFirst, WRead, WSearch, WSelect, WLinkNeighbor, WLinkSelf, WAdvances,
               WCount, WFindMany, WPrune
      <4> QED
        BY <4>1 DEF Inserting
    <3> QED
      BY <3>1, <3>2, <3>3
  <2>5. Told \subseteq Told' /\ (WFirstInsert(w) \/ WCheck(w) => node[w] \in Told')
    BY WorkerTells
  <2>6. ASSUME NEW d \in Ids, d < jobs
        PROVE  d \in Told' \/ (Inserting(w)' /\ node'[w] = d)
    <3>1. d \in Told \/ (Inserting(w) /\ node[w] = d)
      BY <1>0, <1>1, <2>6 DEF Turns
    <3> QED
      BY <2>0, <2>4, <2>5, <3>1
  <2>7. ASSUME NEW h \in hooks
        PROVE  levelOf'[h.node] = levelOf[h.node]
    <3>1. h.node \in Told /\ h.node \in Ids
      BY <1>1, HookType
    <3>2. levelOf'[h.node] # levelOf[h.node] => h.node = node[w] /\ pc[w] \in {"table", "max"}
      BY <1>0, <1>1, <3>1, StepLevels
    <3>3. pc[w] \in {"table", "max"} => Inserting(w)
      BY DEF Inserting
    <3> QED
      BY <1>0, <3>1, <3>2, <3>3
  <2>8. PICK news : TellsOnly(w, news)
    <3>1. CASE hooks' = hooks
      <4>1. hooks' = hooks \cup {}
        BY <3>1
      <4>2. TellsOnly(w, {})
        BY <4>1 DEF TellsOnly
      <4> QED
        BY <4>2
    <3>2. CASE WFirstInsert(w)
      <4>1. PICK g : g = [node |-> 0, target |-> 0, neighbors |-> Unlinked, live |-> TRUE]
        OBVIOUS
      <4>2. hooks' = hooks \cup {g} /\ node[w] = 0 /\ Inserting(w)
        BY <3>2, <4>1, WorkerTells DEF WFirstInsert, WCheck, Inserting
      <4>3. levelOf'[0] = 0
        BY <1>1, <3>2, <4>2, IdsAndLevels DEF WFirstInsert, TypeInv, TypeOK
      <4>4. /\ g.node = node[w] /\ node[w] \notin Told /\ g.target = levelOf'[node[w]]
            /\ (g.live <=> node[w] = 0) /\ (node[w] = 0 => g.target = 0)
        BY <1>0, <4>1, <4>2, <4>3
      <4>5. TellsOnly(w, {g})
        BY <4>2, <4>4 DEF TellsOnly
      <4> QED
        BY <4>5
    <3>3. CASE WCheck(w)
      <4>1. PICK g : g = [node |-> node[w], target |-> levelOf[node[w]],
                          neighbors |-> chosen[w], live |-> FALSE]
        OBVIOUS
      <4>2. hooks' = hooks \cup {g} /\ pc[w] = "raise" /\ levelOf' = levelOf
        BY <3>3, <4>1 DEF WCheck
      <4>3. node[w] # 0 /\ Inserting(w)
        BY <1>0, <4>2 DEF Inserting
      <4>4. /\ g.node = node[w] /\ node[w] \notin Told /\ g.target = levelOf'[node[w]]
            /\ (g.live <=> node[w] = 0) /\ (node[w] = 0 => g.target = 0)
        BY <1>0, <4>1, <4>2, <4>3
      <4>5. TellsOnly(w, {g})
        BY <4>2, <4>4 DEF TellsOnly
      <4> QED
        BY <4>5
    <3> QED
      BY <3>1, <3>2, <3>3, WorkerTells
  <2>9. \A g, h \in hooks' : g.node = h.node => g = h
    BY <1>1, <2>8 DEF Turns, Told, TellsOnly
  <2>10. \A h \in hooks' : /\ h.target = levelOf'[h.node] /\ (h.live <=> h.node = 0)
                           /\ h.node = 0 => h.target = 0
    BY <1>1, <2>7, <2>8 DEF Turns, TellsOnly
  <2> QED
    BY <1>0, <2>0, <2>3, <2>6, <2>9, <2>10 DEF Turns
<1> QED
  BY <1>3, <1>4

-------------------------------------------------------------------------------
(* The worker stays ahead by what it has linked.                             *)
LEMMA AheadFacts ==
  ASSUME WorkerInv, TwinInv, NEW w \in Workers
  PROVE  /\ idx[w] \in Nat /\ layer[w] \in Levels /\ Levels \subseteq Nat /\ node[w] \in Ids
         /\ Ids \subseteq Nat /\ jobs \in Nat /\ pc[w] \in PcValues
         /\ \A l \in Levels : chosen[w][l] \in Seq(Ids) /\ Len(chosen[w][l]) \in Nat
         /\ \A v \in Ids, l \in Levels : connections[v][l] \in Seq(Ids) /\ RList(v, l) \in Seq(Ids)
         /\ pc[w] \in Linking => /\ idx[w] \in 1 .. Len(chosen[w][layer[w]])
                                 /\ Neighbor(w) \in Ids /\ Neighbor(w) # node[w]
         /\ \A l \in Levels : \A i, j \in 1 .. Len(chosen[w][l]) :
              chosen[w][l][i] = chosen[w][l][j] => i = j
         /\ Ahead(w)
<1>1. TypeInv /\ LinkInv /\ RType /\ ChoicesInv
  BY DEF WorkerInv, TwinInv
<1>2. /\ idx[w] \in Nat /\ layer[w] \in Levels /\ Levels \subseteq Nat /\ node[w] \in Ids
      /\ Ids \subseteq Nat /\ jobs \in Nat /\ pc[w] \in PcValues
      /\ \A l \in Levels : chosen[w][l] \in Seq(Ids)
      /\ \A v \in Ids, l \in Levels : connections[v][l] \in Seq(Ids) /\ RList(v, l) \in Seq(Ids)
  <2>1. /\ idx[w] \in Nat /\ layer[w] \in Levels /\ node[w] \in Ids /\ pc[w] \in PcValues
        /\ \A l \in Levels : chosen[w][l] \in Seq(Ids)
    BY <1>1 DEF TypeInv, TypeOK
  <2>2. Levels \subseteq Nat /\ Ids \subseteq Nat /\ jobs \in Nat
    BY <1>1, IdsAndLevels, JobNumbers DEF Ids
  <2>3. \A v \in Ids, l \in Levels : connections[v][l] \in Seq(Ids)
    BY <1>1 DEF TypeInv, TypeOK
  <2>4. \A v \in Ids, l \in Levels : RList(v, l) \in Seq(Ids)
    BY <1>1 DEF RType, RList
  <2> QED
    BY <2>1, <2>2, <2>3, <2>4
<1>3. \A l \in Levels : Len(chosen[w][l]) \in Nat
  BY <1>2
<1>4. pc[w] \in Linking => /\ idx[w] \in 1 .. Len(chosen[w][layer[w]])
                           /\ Neighbor(w) \in Ids /\ Neighbor(w) \in Elements(chosen[w][layer[w]])
  BY <1>1, NeighborType DEF TypeInv, Positions, Position
<1>5. pc[w] \in Linking => Neighbor(w) # node[w]
  <2>1. Path(w)
    BY <1>1 DEF LinkInv
  <2>2. pc[w] \in Linking => pc[w] \in Choosing
    BY DEF Linking, Choosing
  <2> QED
    BY <1>2, <1>4, <2>1, <2>2 DEF Path
<1>6. \A l \in Levels : \A i, j \in 1 .. Len(chosen[w][l]) :
              chosen[w][l][i] = chosen[w][l][j] => i = j
  BY <1>1 DEF ChoicesInv, Choices
<1>7. Ahead(w)
  BY DEF TwinInv
<1> QED
  BY <1>2, <1>3, <1>4, <1>5, <1>6, <1>7

LEMMA AheadSame ==
  ASSUME NEW w \in Workers, NEW v \in Ids, NEW l \in Levels, AheadBy(w, v, l),
         chosen'[w][l] = chosen[w][l], node'[w] = node[w], rconnections' = rconnections,
         connections'[v][l] = connections[v][l],
         \A j \in 1 .. Len(chosen[w][l]) : chosen[w][l][j] = v =>
            /\ Left(w, l, j)' <=> Left(w, l, j)
            /\ Now(w, l, j)' <=> Now(w, l, j)
  PROVE  AheadBy(w, v, l)'
<1>1. PICK list : list = chosen[w][l]
  OBVIOUS
<1>2. chosen'[w][l] = list
  BY <1>1
<1>3. RList(v, l)' = RList(v, l)
  BY DEF RList
<1>4. \A j \in 1 .. Len(list) : list[j] = v =>
            /\ Left(w, l, j)' <=> Left(w, l, j)
            /\ Now(w, l, j)' <=> Now(w, l, j)
            /\ Past(w, l, j)' <=> Past(w, l, j)
  BY <1>1 DEF Past
<1>5. (\A j \in 1 .. Len(list) : list[j] = v => Left(w, l, j)')
         => connections'[v][l] = RList(v, l)'
  BY <1>1, <1>3, <1>4 DEF AheadBy
<1>6. ASSUME NEW j \in 1 .. Len(list), list[j] = v
      PROVE  /\ Now(w, l, j)' => connections'[v][l] = Append(RList(v, l)', node'[w])
             /\ Past(w, l, j)' => CutTo(Append(RList(v, l)', node'[w]), node'[w], l, connections'[v][l])
  <2>1. /\ Now(w, l, j) => connections[v][l] = Append(RList(v, l), node[w])
        /\ Past(w, l, j) => CutTo(Append(RList(v, l), node[w]), node[w], l, connections[v][l])
    BY <1>1, <1>6 DEF AheadBy
  <2> QED
    BY <1>3, <1>4, <1>6, <2>1
<1> QED
  BY <1>2, <1>5, <1>6 DEF AheadBy

(* Steps outside the loop over the neighbors.                                *)
LEMMA QuietKeepsAheadBy ==
  ASSUME WorkerInv, TwinInv, NEW w \in Workers, pc[w] \notin Linking, pc'[w] \notin Linking,
         chosen'[w] = chosen[w], WKeeps, node'[w] = node[w], rconnections' = rconnections,
         Inserting(w), NEW v \in Ids, NEW l \in Levels, v < node[w]
  PROVE  AheadBy(w, v, l)'
<1>1. AheadBy(w, v, l)
  BY AheadFacts DEF Ahead
<1>2. connections'[v][l] = connections[v][l]
  BY DEF WKeeps
<1>3. \A j : /\ ~Left(w, l, j)' /\ ~Left(w, l, j)
             /\ ~Now(w, l, j)' /\ ~Now(w, l, j)
  BY DEF Left, Now
<1> QED
  BY <1>1, <1>2, <1>3, AheadSame

LEMMA SelectKeepsAheadBy ==
  ASSUME WorkerInv, TwinInv, NEW w \in Workers, WSelect(w), rconnections' = rconnections,
         NEW v \in Ids, NEW l \in Levels, v < node[w]
  PROVE  AheadBy(w, v, l)'
<1>0. /\ idx[w] \in Nat /\ layer[w] \in Levels /\ pc[w] = "search" /\ pc'[w] = "link"
      /\ layer'[w] = layer[w] /\ idx'[w] = 1 /\ node'[w] = node[w]
      /\ connections'[v][l] = connections[v][l] /\ RList(v, l)' = RList(v, l)
  BY AheadFacts DEF WSelect, WSame, WKeeps, RList
<1>1. AheadBy(w, v, l)
  BY <1>0, AheadFacts DEF Ahead, Inserting
<1>2. CASE l # layer[w]
  <2>1. chosen'[w][l] = chosen[w][l]
    BY <1>2 DEF WSelect
  <2>2. \A j : /\ ~Left(w, l, j)' /\ ~Left(w, l, j)
               /\ ~Now(w, l, j)' /\ ~Now(w, l, j)
    BY <1>0, <1>2 DEF Left, Now, Linking
  <2> QED
    BY <1>0, <1>1, <2>1, <2>2, AheadSame
<1>3. CASE l = layer[w]
  <2>1. chosen[w][l] = <<>>
    <3>1. l <= layer[w] /\ ChoicesInv
      BY <1>3, AheadFacts DEF WorkerInv
    <3> QED
      BY <1>0, <3>1 DEF ChoicesInv, Choices
  <2>2. connections[v][l] = RList(v, l)
    <3>1. 1 .. Len(chosen[w][l]) = {}
      BY <2>1
    <3> QED
      BY <1>1, <3>1 DEF AheadBy
  <2>3. ASSUME NEW j \in Nat, j >= 1
        PROVE  Left(w, l, j)' /\ ~Now(w, l, j)' /\ ~Past(w, l, j)'
    <3>1. j > 1 \/ j = 1
      BY <2>3
    <3>2. Left(w, l, j)'
      BY <1>0, <1>3, <3>1 DEF Left, NotYet, Linking
    <3> QED
      BY <1>0, <3>2 DEF Now, Past
  <2>4. \A n : \A j \in 1 .. n : j \in Nat /\ j >= 1
    OBVIOUS
  <2> QED
    BY <1>0, <2>2, <2>3, <2>4 DEF AheadBy
<1> QED
  BY <1>2, <1>3

(* The neighbor that is left is linked now.                                  *)
LEMMA LinkKeepsAheadBy ==
  ASSUME WorkerInv, TwinInv, NEW w \in Workers, WLinkNeighbor(w), rconnections' = rconnections,
         NEW v \in Ids, NEW l \in Levels, v < node[w]
  PROVE  AheadBy(w, v, l)'
<1>0. /\ idx[w] \in Nat /\ layer[w] \in Levels /\ pc[w] = "link" /\ pc'[w] = "linkSelf"
      /\ layer'[w] = layer[w] /\ idx'[w] = idx[w] /\ node' = node /\ chosen' = chosen
      /\ Neighbor(w) = chosen[w][layer[w]][idx[w]]
      /\ RList(v, l)' = RList(v, l) /\ Len(chosen[w][l]) \in Nat
      /\ Extends(Neighbor(w), layer[w], node[w])
  BY AheadFacts DEF WLinkNeighbor, WLinks, WSame, RList, Neighbor
<1>1. AheadBy(w, v, l)
  BY <1>0, AheadFacts DEF Ahead, Inserting
<1>2. ASSUME NEW j \in 1 .. Len(chosen[w][l]), ~(l = layer[w] /\ j = idx[w])
      PROVE  /\ Left(w, l, j)' <=> Left(w, l, j)
             /\ Now(w, l, j)' <=> Now(w, l, j)
  BY <1>0, <1>2 DEF Left, Now, NotYet, Linking
<1>3. CASE l = layer[w] /\ v = Neighbor(w)
  <2>1. PICK list, i : list = chosen[w][l] /\ i = idx[w]
    OBVIOUS
  <2>2. i \in 1 .. Len(list) /\ list[i] = v
    BY <1>0, <1>3, <2>1, AheadFacts DEF Linking
  <2>3. \A j \in 1 .. Len(list) : list[j] = v => j = i
    BY <2>1, <2>2, AheadFacts
  <2>4. Left(w, l, i) /\ Now(w, l, i)' /\ ~Left(w, l, i)'
    BY <1>0, <1>3, <2>1 DEF Left, Now, NotYet, Linking
  <2>5. connections[v][l] = RList(v, l)
    BY <1>1, <2>1, <2>3, <2>4, SMTT(60) DEF AheadBy
  <2>6. connections'[v][l] = Append(RList(v, l), node[w])
    BY <1>0, <1>3, <2>5 DEF Extends
  <2>7. chosen'[w][l] = list /\ node'[w] = node[w]
    BY <1>0, <2>1
  <2>8. \A j \in 1 .. Len(list) : list[j] = v => Now(w, l, j)' /\ ~Left(w, l, j)' /\ ~Past(w, l, j)'
    BY <2>3, <2>4 DEF Past
  <2> QED
    BY <1>0, <2>2, <2>6, <2>7, <2>8 DEF AheadBy
<1>4. CASE ~(l = layer[w] /\ v = Neighbor(w))
  <2>1. connections'[v][l] = connections[v][l]
    BY <1>0, <1>4 DEF Extends
  <2>2. \A j \in 1 .. Len(chosen[w][l]) : chosen[w][l][j] = v =>
            /\ Left(w, l, j)' <=> Left(w, l, j)
            /\ Now(w, l, j)' <=> Now(w, l, j)
    BY <1>0, <1>2, <1>4
  <2> QED
    BY <1>0, <1>1, <2>1, <2>2, AheadSame
<1> QED
  BY <1>3, <1>4

LEMMA MarkKeepsAheadBy ==
  ASSUME WorkerInv, TwinInv, NEW w \in Workers, WLinkSelf(w) \/ WFindMany(w),
         rconnections' = rconnections, NEW v \in Ids, NEW l \in Levels, v < node[w]
  PROVE  AheadBy(w, v, l)'
<1>0. /\ pc[w] \in {"linkSelf", "count"} /\ pc'[w] \in {"count", "prune"}
      /\ layer'[w] = layer[w] /\ idx'[w] = idx[w] /\ node' = node /\ chosen' = chosen
  BY DEF WLinkSelf, WFindMany, WLinks, WSame
<1>1. AheadBy(w, v, l)
  BY <1>0, AheadFacts DEF Ahead, Inserting
<1>2. connections'[v][l] = connections[v][l]
  <2>1. CASE WLinkSelf(w)
    <3>1. v # node[w]
      BY AheadFacts
    <3> QED
      BY <2>1, <3>1 DEF WLinkSelf, Extends
  <2>2. CASE WFindMany(w)
    BY <2>2 DEF WFindMany, WKeeps
  <2> QED
    BY <2>1, <2>2
<1>3. \A j : /\ Left(w, l, j)' <=> Left(w, l, j)
             /\ Now(w, l, j)' <=> Now(w, l, j)
  BY <1>0 DEF Left, Now, NotYet, Linking
<1> QED
  BY <1>0, <1>1, <1>2, <1>3, AheadSame

(* The neighbor that was linked now is past, the others stay what they are.  *)
LEMMA AdvanceMarks ==
  ASSUME WorkerInv, TwinInv, NEW w \in Workers, pc[w] \in {"count", "prune"}, WAdvances(w),
         NEW l \in Levels, NEW j \in 1 .. Len(chosen[w][l])
  PROVE  /\ l = layer[w] /\ j = idx[w] => Now(w, l, j) /\ Past(w, l, j)'
         /\ ~(l = layer[w] /\ j = idx[w]) =>
              /\ Left(w, l, j)' <=> Left(w, l, j)
              /\ Now(w, l, j)' <=> Now(w, l, j)
<1>1. PICK i \in Nat : i = idx[w]
  BY AheadFacts
<1>2. PICK n \in Nat : n = Len(chosen[w][layer[w]])
  BY AheadFacts
<1>3. j \in Nat /\ (l = layer[w] => j <= n)
  BY <1>2, AheadFacts
<1>4. pc[w] \in Linking /\ pc[w] # "link"
  BY DEF Linking
<1>5. /\ Left(w, l, j) <=> l = layer[w] /\ j > i
      /\ Now(w, l, j) <=> l = layer[w] /\ j = i
  BY <1>1, <1>4 DEF Left, Now, NotYet
<1>6. CASE i < n /\ idx'[w] = i + 1 /\ pc'[w] = "link" /\ layer'[w] = layer[w]
  <2>1. /\ Left(w, l, j)' <=> l = layer[w] /\ (j > i + 1 \/ j = i + 1)
        /\ ~Now(w, l, j)'
    BY <1>6 DEF Left, Now, NotYet, Linking
  <2>2. (j > i + 1 \/ j = i + 1) <=> j > i
    BY ONLY <1>3, <1>1
  <2>3. j = i => ~(j > i)
    BY <1>1, <1>3
  <2> QED
    BY <1>1, <1>5, <2>1, <2>2, <2>3 DEF Past
<1>7. CASE i >= n /\ pc'[w] \notin Linking
  <2>1. ~Left(w, l, j)' /\ ~Now(w, l, j)'
    BY <1>7 DEF Left, Now
  <2>2. l = layer[w] => ~(j > i)
    BY <1>3, <1>7, <1>1, <1>2
  <2> QED
    BY <1>1, <1>5, <2>1, <2>2 DEF Past
<1> QED
  BY <1>1, <1>2, <1>6, <1>7 DEF WAdvances, Linking

LEMMA AdvanceKeepsAheadBy ==
  ASSUME WorkerInv, TwinInv, NEW w \in Workers, WCount(w) \/ WPrune(w),
         rconnections' = rconnections, NEW v \in Ids, NEW l \in Levels, v < node[w]
  PROVE  AheadBy(w, v, l)'
<1>0. /\ pc[w] \in {"count", "prune"} /\ WAdvances(w) /\ node' = node /\ chosen' = chosen
      /\ idx[w] \in Nat /\ layer[w] \in Levels /\ node[w] \in Ids /\ pc[w] \in Linking
      /\ Neighbor(w) = chosen[w][layer[w]][idx[w]] /\ Neighbor(w) \in Ids
      /\ RList(v, l)' = RList(v, l) /\ RList(v, l) \in Seq(Ids)
  <2>1. pc[w] \in {"count", "prune"} /\ WAdvances(w) /\ node' = node /\ chosen' = chosen
    BY DEF WCount, WPrune, WLinks, WSame
  <2>2. pc[w] \in Linking
    BY <2>1 DEF Linking
  <2> QED
    BY <2>1, <2>2, AheadFacts DEF RList, Neighbor
<1>1. AheadBy(w, v, l)
  BY <1>0, AheadFacts DEF Ahead, Inserting
<1>2. CASE l = layer[w] /\ v = Neighbor(w)
  <2>1. PICK list, i : list = chosen[w][l] /\ i = idx[w]
    OBVIOUS
  <2>2. i \in 1 .. Len(list) /\ list[i] = v
    BY <1>0, <1>2, <2>1, AheadFacts
  <2>3. \A j \in 1 .. Len(list) : list[j] = v => j = i
    BY <2>1, <2>2, AheadFacts
  <2>4. Now(w, l, i) /\ Past(w, l, i)'
    BY <1>0, <1>2, <2>1, <2>2, AdvanceMarks
  <2>5. PICK long : long = Append(RList(v, l), node[w])
    OBVIOUS
  <2>6. connections[v][l] = long
    BY <1>1, <2>1, <2>2, <2>4, <2>5 DEF AheadBy
  <2>7. CutTo(long, node[w], l, connections'[v][l])
    <3>1. long \in Seq(Ids)
      BY <1>0, <2>5
    <3>2. Len(long) \in Nat /\ Limit(l) \in Nat
      BY <3>1, LimitType
    <3>3. CASE WCount(w)
      <4>1. Len(connections[v][l]) <= Limit(l) /\ connections'[v][l] = connections[v][l]
        BY <1>2, <3>3 DEF WCount, WKeeps
      <4> QED
        BY <2>6, <4>1 DEF CutTo
    <3>4. CASE WPrune(w)
      <4>1. pc[w] = "prune"
        BY <3>4 DEF WPrune
      <4>2. LinkInv
        BY DEF WorkerInv
      <4>3. Path(w)
        BY <4>2 DEF LinkInv
      <4>4. snapshot[w] = long
        BY <1>2, <2>6, <4>1, <4>3 DEF Path
      <4>5. Len(long) > Limit(l)
        BY <1>2, <4>1, <4>4, AheadFacts DEF Ahead
      <4>6. PICK s \in Nearest(Elements(long), Dist[node[w]], Limit(l)) : Cuts(v, l, s)
        BY <1>2, <3>4, <4>4 DEF WPrune
      <4>7. connections'[v][l] = s
        BY <4>6 DEF Cuts
      <4>8. ~(Len(long) <= Limit(l))
        BY <3>2, <4>5
      <4> QED
        BY <4>6, <4>7, <4>8 DEF CutTo
    <3> QED
      BY <3>3, <3>4
  <2>8. chosen'[w][l] = list /\ node'[w] = node[w]
    BY <1>0, <2>1
  <2>9. \A j \in 1 .. Len(list) : list[j] = v => Past(w, l, j)' /\ ~Left(w, l, j)' /\ ~Now(w, l, j)'
    BY <2>3, <2>4 DEF Past
  <2> QED
    BY <1>0, <2>2, <2>5, <2>7, <2>8, <2>9 DEF AheadBy
<1>3. CASE ~(l = layer[w] /\ v = Neighbor(w))
  <2>1. connections'[v][l] = connections[v][l]
    BY <1>0, <1>3 DEF WCount, WPrune, WKeeps, Cuts
  <2>2. \A j \in 1 .. Len(chosen[w][l]) : chosen[w][l][j] = v =>
            /\ Left(w, l, j)' <=> Left(w, l, j)
            /\ Now(w, l, j)' <=> Now(w, l, j)
    BY <1>0, <1>3, AdvanceMarks
  <2> QED
    BY <1>0, <1>1, <2>1, <2>2, AheadSame
<1> QED
  BY <1>2, <1>3

LEMMA WorkerKeepsAheadBy ==
  ASSUME OneWorker, WorkerInv, TwinInv, NEW w \in Workers, WorkerStep(w), pc'[w] # "panic",
         Inserting(w)', NEW v \in Ids, NEW l \in Levels, v < node'[w]
  PROVE  AheadBy(w, v, l)'
<1>0. /\ Take(w) \/ Insert(w)
      /\ rconnections' = rconnections /\ TypeInv /\ UnbornUnlinked
  BY WorkerFacts DEF WorkerInv
<1>1. CASE Take(w) /\ WTake(w)
  <2>1. \A d \in Ids : d < jobs => rpc[d] = "done"
    BY <1>1, WorkerFacts
  <2>2. v < jobs
    BY <1>1 DEF WTake
  <2>3. RList(v, l) = connections[v][l]
    BY <2>1, <2>2 DEF TwinInv, Level
  <2>4. connections'[v][l] = RList(v, l)'
    BY <1>0, <1>1, <2>3 DEF WTake, WKeeps, RList
  <2>5. 1 .. Len(chosen'[w][l]) = {}
    BY <1>1, UnlinkedType DEF WTake
  <2> QED
    BY <2>4, <2>5 DEF AheadBy
<1>2. CASE WReadTotal(w) \/ WLockFirst(w) \/ WRead(w) \/ WSearch(w)
  <2>1. /\ pc[w] \notin Linking /\ pc'[w] \notin Linking /\ Inserting(w)
        /\ chosen' = chosen /\ WKeeps /\ node' = node
    BY <1>2 DEF WReadTotal, WLockFirst, WRead, WSearch, WSame, Linking, Inserting
  <2> QED
    BY <1>0, <2>1, QuietKeepsAheadBy
<1>3. CASE WSelect(w)
  <2>1. node' = node
    BY <1>3 DEF WSelect, WSame
  <2> QED
    BY <1>0, <1>3, <2>1, SelectKeepsAheadBy
<1>4. CASE WLinkNeighbor(w)
  <2>1. node' = node
    BY <1>4 DEF WLinkNeighbor, WLinks, WSame
  <2> QED
    BY <1>0, <1>4, <2>1, LinkKeepsAheadBy
<1>5. CASE WLinkSelf(w) \/ WFindMany(w)
  <2>1. node' = node
    BY <1>5 DEF WLinkSelf, WFindMany, WLinks, WSame
  <2> QED
    BY <1>0, <1>5, <2>1, MarkKeepsAheadBy
<1>6. CASE WCount(w) \/ WPrune(w)
  <2>1. node' = node
    BY <1>6 DEF WCount, WPrune, WLinks, WSame
  <2> QED
    BY <1>0, <1>6, <2>1, AdvanceKeepsAheadBy
<1>7. ~WFirstInsert(w) /\ ~WCheck(w) /\ ~WPublishEntryPoint(w) /\ ~WPublishMaximumLayer(w)
  BY DEF WFirstInsert, WCheck, WPublishEntryPoint, WPublishMaximumLayer, Inserting
<1> QED
  BY <1>0, <1>1, <1>2, <1>3, <1>4, <1>5, <1>6, <1>7, WorkerCases

(* Its own lists.                                                            *)
LEMMA WorkerKeepsAheadOwn ==
  ASSUME OneWorker, WorkerInv, TwinInv, NEW w \in Workers, WorkerStep(w), pc'[w] # "panic",
         pc'[w] \in Choosing, NEW l \in Levels
  PROVE  (pc'[w] \in Linking /\ l = layer'[w]) \/ connections'[node'[w]][l] = chosen'[w][l]
<1>0. /\ Take(w) \/ Insert(w)
      /\ TypeInv /\ UnbornUnlinked /\ ChoicesInv /\ LinkInv
      /\ node[w] \in Ids /\ layer[w] \in Levels
  BY WorkerFacts, AheadFacts DEF WorkerInv
<1>a. pc[w] \in Choosing => (pc[w] \in Linking /\ l = layer[w]) \/ connections[node[w]][l] = chosen[w][l]
  BY AheadFacts DEF Ahead
<1>1. CASE WRead(w)
  <2>1. pc[w] = "add" /\ WKeeps /\ node' = node /\ chosen' = chosen
    BY <1>1 DEF WRead, WSame, Choosing, Linking
  <2>2. ~Born(node[w]) /\ pc[w] \in Unborn
    BY <2>1 DEF Born, Unborn
  <2>3. connections[node[w]][l] = <<>>
    BY <1>0, <2>2 DEF UnbornUnlinked
  <2>4. chosen[w][l] = <<>>
    BY <1>0, <2>2 DEF ChoicesInv, Choices
  <2> QED
    BY <1>0, <2>1, <2>3, <2>4 DEF WKeeps
<1>2. CASE WSearch(w)
  <2>1. pc[w] = "search" /\ WKeeps /\ node' = node /\ chosen' = chosen
    BY <1>2 DEF WSearch, WSame
  <2>2. connections[node[w]][l] = chosen[w][l]
    BY <1>a, <2>1 DEF Choosing, Linking
  <2> QED
    BY <1>0, <2>1, <2>2 DEF WKeeps
<1>3. CASE WSelect(w)
  <2>1. /\ pc[w] = "search" /\ pc'[w] = "link" /\ layer'[w] = layer[w] /\ WKeeps /\ node' = node
        /\ l # layer[w] => chosen'[w][l] = chosen[w][l]
    BY <1>3 DEF WSelect, WSame
  <2>2. connections[node[w]][l] = chosen[w][l]
    BY <1>a, <2>1 DEF Choosing, Linking
  <2> QED
    BY <1>0, <2>1, <2>2 DEF WKeeps, Linking
<1>4. CASE WLinkNeighbor(w) \/ WLinkSelf(w) \/ WFindMany(w)
  <2>1. /\ pc[w] \in Linking /\ pc'[w] \in Linking /\ layer'[w] = layer[w]
        /\ node' = node /\ chosen' = chosen
    BY <1>4 DEF WLinkNeighbor, WLinkSelf, WFindMany, WLinks, WSame, Linking
  <2>2. l # layer[w] => connections'[node[w]][l] = connections[node[w]][l]
    BY <1>0, <1>4 DEF WLinkNeighbor, WLinkSelf, WFindMany, WKeeps, Extends
  <2> QED
    BY <1>a, <2>1, <2>2 DEF Choosing
<1>5. CASE WCount(w) \/ WPrune(w)
  <2>1. /\ pc[w] \in {"count", "prune"} /\ WAdvances(w) /\ node' = node /\ chosen' = chosen
    BY <1>5 DEF WCount, WPrune, WLinks, WSame
  <2>2. pc[w] \in Linking /\ pc[w] \in Choosing
    BY <2>1 DEF Linking, Choosing
  <2>3. connections'[node[w]][l] = connections[node[w]][l]
    BY <1>0, <1>5, <2>2, AheadFacts DEF WCount, WPrune, WKeeps, Cuts
  <2>4. CASE l # layer[w]
    BY <1>a, <2>1, <2>2, <2>3, <2>4
  <2>5. CASE l = layer[w] /\ pc'[w] = "link" /\ layer'[w] = layer[w]
    BY <2>5 DEF Linking
  <2>6. CASE l = layer[w] /\ idx[w] >= Len(chosen[w][layer[w]])
    <3>1. PICK own, list : own = connections[node[w]][l] /\ list = chosen[w][l]
      OBVIOUS
    <3>2. own \in Seq(Ids) /\ list \in Seq(Ids)
      BY <1>0, <3>1, AheadFacts
    <3>3. idx[w] \in Nat /\ idx[w] \in 1 .. Len(list) /\ Len(list) \in Nat
      BY <2>2, <2>6, <3>1, AheadFacts
    <3>4. idx[w] = Len(list)
      <4>1. PICK i \in Nat, n \in Nat : i = idx[w] /\ n = Len(list)
        BY <3>3
      <4>2. i \in 1 .. n /\ i >= n
        BY <2>6, <3>1, <3>3, <4>1
      <4>3. i = n
        BY ONLY <4>1, <4>2
      <4> QED
        BY <4>1, <4>3
    <3>5. Len(own) = Made(w) /\ \A j \in 1 .. Len(own) : own[j] = list[j]
      BY <1>0, <2>2, <2>6, <3>1 DEF LinkInv, OwnList
    <3>6. Made(w) = idx[w]
      BY <2>1 DEF Made
    <3>7. Len(own) = Len(list)
      BY <3>4, <3>5, <3>6
    <3>8. own = list
      BY <3>2, <3>5, <3>7, SameList
    <3> QED
      BY <2>1, <2>3, <3>1, <3>8
  <2> QED
    BY <2>1, <2>4, <2>5, <2>6 DEF WAdvances
<1>6. ~WTake(w) /\ ~WReadTotal(w) /\ ~WLockFirst(w) /\ ~WFirstInsert(w) /\ ~WCheck(w)
      /\ ~WPublishEntryPoint(w) /\ ~WPublishMaximumLayer(w)
  BY DEF WTake, WReadTotal, WLockFirst, WFirstInsert, WCheck, WPublishEntryPoint,
         WPublishMaximumLayer, Choosing, Linking
<1> QED
  BY <1>0, <1>1, <1>2, <1>3, <1>4, <1>5, <1>6, WorkerCases

(* Where it chooses.                                                         *)
LEMMA WorkerKeepsAheadTop ==
  ASSUME OneWorker, WorkerInv, TwinInv, NEW w \in Workers, WorkerStep(w), pc'[w] # "panic",
         pc'[w] \in {"add"} \cup Choosing
  PROVE  /\ layer'[w] <= currentMaximumLayer'
         /\ \A l \in Levels : chosen'[w][l] # <<>> => l <= currentMaximumLayer'
<1>0. /\ Take(w) \/ Insert(w)
      /\ TypeInv /\ UnbornUnlinked /\ ChoicesInv
      /\ layer[w] \in Nat /\ currentMaximumLayer \in Nat /\ Levels \subseteq Nat
  <2>1. TypeInv /\ UnbornUnlinked /\ ChoicesInv
    BY DEF WorkerInv
  <2>2. currentMaximumLayer \in Levels
    BY <2>1 DEF TypeInv, TypeOK
  <2> QED
    BY <2>1, <2>2, WorkerFacts, AheadFacts
<1>a. pc[w] \in {"add"} \cup Choosing =>
         /\ layer[w] <= currentMaximumLayer
         /\ \A l \in Levels : chosen[w][l] # <<>> => l <= currentMaximumLayer
  BY AheadFacts DEF Ahead
<1>1. CASE pc[w] = "max" /\ WRead(w)
  <2>1. layer'[w] = currentMaximumLayer /\ chosen' = chosen /\ currentMaximumLayer' = currentMaximumLayer
    BY <1>1 DEF WRead, WSame, WTop
  <2>2. \A l \in Levels : chosen[w][l] = <<>>
    BY <1>0, <1>1 DEF ChoicesInv, Choices, Unborn
  <2>3. currentMaximumLayer <= currentMaximumLayer
    BY <1>0
  <2> QED
    BY <2>1, <2>2, <2>3
<1>2. CASE WSelect(w)
  <2>1. /\ pc[w] = "search" /\ layer'[w] = layer[w] /\ currentMaximumLayer' = currentMaximumLayer
        /\ \A l \in Levels : l # layer[w] => chosen'[w][l] = chosen[w][l]
    BY <1>2 DEF WSelect, WTop
  <2> QED
    BY <1>a, <2>1 DEF Choosing
<1>3. ASSUME pc[w] \in {"add"} \cup Choosing, chosen' = chosen,
             currentMaximumLayer' = currentMaximumLayer,
             layer'[w] <= layer[w] \/ layer'[w] = layer[w], layer'[w] \in Nat
      PROVE  /\ layer'[w] <= currentMaximumLayer'
             /\ \A l \in Levels : chosen'[w][l] # <<>> => l <= currentMaximumLayer'
  <2>1. layer'[w] <= currentMaximumLayer
    BY <1>0, <1>a, <1>3
  <2> QED
    BY <1>a, <1>3, <2>1
<1>4. layer'[w] \in Nat
  <2>1. TypeInv'
    BY <1>0, StepTypeInv
  <2>2. layer'[w] \in Levels
    BY <2>1 DEF TypeInv, TypeOK
  <2> QED
    BY <1>0, <2>2
<1>5. CASE \/ WRead(w) /\ pc[w] # "max"
           \/ WSearch(w) \/ WLinkNeighbor(w) \/ WLinkSelf(w) \/ WCount(w)
           \/ WFindMany(w) \/ WPrune(w)
  <2>1. pc[w] \in {"add"} \cup Choosing /\ chosen' = chosen
        /\ currentMaximumLayer' = currentMaximumLayer
    BY <1>5 DEF WRead, WSearch, WLinkNeighbor, WLinkSelf, WCount, WFindMany, WPrune, WLinks, WSame,
                WTop, Choosing, Linking
  <2>2. layer'[w] <= layer[w] \/ layer'[w] = layer[w] \/ layer'[w] = layer[w] - 1
    BY <1>5 DEF WRead, WSearch, WLinkNeighbor, WLinkSelf, WCount, WFindMany, WPrune, WAdvances,
                Choosing, Linking
  <2>3. layer'[w] = layer[w] - 1 => layer'[w] <= layer[w]
    BY <1>0, <1>4
  <2> QED
    BY <1>3, <1>4, <2>1, <2>2, <2>3
<1>6. ~WTake(w) /\ ~WReadTotal(w) /\ ~WLockFirst(w) /\ ~WFirstInsert(w) /\ ~WCheck(w)
      /\ ~WPublishEntryPoint(w) /\ ~WPublishMaximumLayer(w)
  BY DEF WTake, WReadTotal, WLockFirst, WFirstInsert, WCheck, WPublishEntryPoint,
         WPublishMaximumLayer, Choosing, Linking
<1> QED
  BY <1>0, <1>1, <1>2, <1>5, <1>6, WorkerCases

LEMMA WorkerKeepsAhead ==
  ASSUME OneWorker, WorkerInv, TwinInv, NEW w \in Workers, WorkerStep(w), pc'[w] # "panic"
  PROVE  \A u \in Workers : Ahead(u)'
<1>1. \A u \in Workers : u = w
  BY DEF OneWorker
<1>2. Inserting(w)' => \A v \in Ids, l \in Levels : v < node'[w] => AheadBy(w, v, l)'
  BY WorkerKeepsAheadBy
<1>3. pc'[w] \in Choosing => \A l \in Levels :
       (pc'[w] \in Linking /\ l = layer'[w]) \/ connections'[node'[w]][l] = chosen'[w][l]
  BY WorkerKeepsAheadOwn
<1>4. pc'[w] \in {"add"} \cup Choosing =>
         /\ layer'[w] <= currentMaximumLayer'
         /\ \A l \in Levels : chosen'[w][l] # <<>> => l <= currentMaximumLayer'
  BY WorkerKeepsAheadTop
<1>5. ASSUME pc'[w] = "prune"
      PROVE  Len(snapshot'[w]) > Limit(layer'[w])
  <2>1. /\ Take(w) \/ Insert(w)
        /\ TypeInv /\ UnbornUnlinked
    BY WorkerFacts DEF WorkerInv
  <2>2. WFindMany(w)
    BY <1>5, <2>1, WorkerCases
       DEF WTake, WReadTotal, WLockFirst, WFirstInsert, WRead, WSearch, WSelect, WLinkNeighbor,
           WLinkSelf, WCount, WAdvances, WPrune, WCheck, WPublishEntryPoint, WPublishMaximumLayer
  <2> QED
    BY <2>2 DEF WFindMany
<1>6. Ahead(w)'
  BY <1>2, <1>3, <1>4, <1>5 DEF Ahead
<1> QED
  BY <1>1, <1>6

-------------------------------------------------------------------------------
(* What the worker does while the other graph is behind, or level.           *)
LEMMA WorkerRests ==
  ASSUME OneWorker, WorkerInv, TwinInv, NEW w \in Workers, WorkerStep(w), pc'[w] # "panic",
         ~Inserting(w), ~Take(w)
  PROVE  /\ WPublishEntryPoint(w) \/ WPublishMaximumLayer(w)
         /\ WKeeps /\ UNCHANGED <<jobs, node, hooks, levelOf>> /\ node[w] # 0 /\ node[w] = jobs - 1
<1>1. /\ Take(w) \/ Insert(w)
      /\ TypeInv /\ UnbornUnlinked
  BY WorkerFacts DEF WorkerInv
<1>2. WPublishEntryPoint(w) \/ WPublishMaximumLayer(w)
  BY <1>1, WorkerCases
     DEF WReadTotal, WLockFirst, WFirstInsert, WRead, WSearch, WSelect, WLinkNeighbor, WLinkSelf,
         WCount, WFindMany, WPrune, WCheck, Inserting
<1>3. pc[w] \in {"lock", "publish"}
  BY <1>2 DEF WPublishEntryPoint, WPublishMaximumLayer
<1>4. node[w] # 0 /\ node[w] = jobs - 1
  BY <1>3, WorkerFacts
<1> QED
  BY <1>2, <1>4 DEF WPublishEntryPoint, WPublishMaximumLayer, WSame

LEMMA WorkerKeepsLevel ==
  ASSUME OneWorker, WorkerInv, TwinInv, NEW w \in Workers, WorkerStep(w), pc'[w] # "panic"
  PROVE  Level'
<1>0. /\ Take(w) \/ Insert(w)
      /\ node[w] \in Ids /\ jobs \in Nat
      /\ pc[w] \notin {"idle", "panic"} => node[w] = jobs - 1
      /\ Inserting(w) => rpc[node[w]] = "call"
      /\ \A d \in Told : d < jobs
      /\ rpc' = rpc /\ rconnections' = rconnections
      /\ TypeInv /\ UnbornUnlinked /\ Calls /\ Level
  BY WorkerFacts DEF WorkerInv, TwinInv
<1>1. CASE Take(w)
  <2>1. jobs' = jobs + 1 /\ jobs \in Ids
    BY <1>0, <1>1, NAssumption DEF Take, Ids
  <2>2. jobs \notin Told /\ jobs < jobs'
    BY <1>0, <2>1
  <2>3. rpc[jobs] = "call"
    BY <1>0, <2>1, <2>2 DEF Calls
  <2> QED
    BY <1>0, <2>1, <2>2, <2>3 DEF Level
<1>2. CASE Inserting(w) /\ ~Take(w)
  <2>1. jobs' = jobs
    BY <1>0, <1>2, StepJobs
  <2>2. node[w] < jobs'
    <3>1. node[w] = jobs - 1
      BY <1>0, <1>2 DEF Inserting
    <3> QED
      BY <1>0, <2>1, <3>1
  <2> QED
    BY <1>0, <1>2, <2>2 DEF Level
<1>3. CASE ~Inserting(w) /\ ~Take(w)
  <2>1. WKeeps /\ jobs' = jobs
    BY <1>3, WorkerRests
  <2> QED
    BY <1>0, <2>1 DEF Level, WKeeps, RList
<1> QED
  BY <1>1, <1>2, <1>3

(* A call that is under way stays behind by the same.                        *)
LEMMA RestKeepsBehind ==
  ASSUME TypeInv, NEW h \in hooks, Behind(h), WKeeps, UNCHANGED rvars
  PROVE  Behind(h)'
<1>1. PICK c \in Ids : c = h.node
  BY HookType
<1>2. /\ rpc' = rpc /\ rlayer' = rlayer /\ rneighbors' = rneighbors /\ ridx' = ridx
      /\ rneighbor' = rneighbor /\ rsnapshot' = rsnapshot
      /\ rcurrentMaximumLayer' = rcurrentMaximumLayer /\ rconnections' = rconnections
  BY DEF rvars
<1>3. R!Neighbor(c)' = R!Neighbor(c)
  BY <1>2 DEF R!Neighbor
<1>4. \A v, l : RList(v, l)' = RList(v, l)
  BY <1>2 DEF RList
<1>5. CallState(h) => CallState(h)'
  BY <1>1, <1>2, <1>3 DEF CallState, RList
<1>6. HookLists(h) => HookLists(h)'
  BY <1>2 DEF HookLists
<1>7. \A l : /\ RLeftLevel(c, l)' <=> RLeftLevel(c, l)
             /\ \A j : /\ RLeft(c, l, j)' <=> RLeft(c, l, j)
                       /\ RNow(c, l, j)' <=> RNow(c, l, j)
  BY <1>2 DEF RLeftLevel, RLeft, RNow
<1>8. ASSUME NEW l \in Levels
      PROVE  /\ BehindOwn(h, l) => BehindOwn(h, l)'
             /\ \A v \in Ids : BehindBy(h, v, l) => BehindBy(h, v, l)'
  <2>1. RMade(c)' = RMade(c) /\ connections'[c][l] = connections[c][l]
    BY <1>2 DEF RMade, WKeeps
  <2>2. BehindOwn(h, l) => BehindOwn(h, l)'
    BY <1>1, <1>2, <1>4, <1>7, <2>1 DEF BehindOwn
  <2>3. ASSUME NEW v \in Ids, BehindBy(h, v, l)
        PROVE  BehindBy(h, v, l)'
    <3>1. connections'[v][l] = connections[v][l]
      BY DEF WKeeps
    <3>2. \A j : RPast(c, l, j)' <=> RPast(c, l, j)
      BY <1>7 DEF RPast
    <3> QED
      BY <1>1, <1>4, <1>7, <2>3, <3>1, <3>2 DEF BehindBy
  <2> QED
    BY <2>2, <2>3
<1>9. (\A l \in Levels : connections[0][l] = <<>>) => \A l \in Levels : connections'[0][l] = <<>>
  BY IdsAndLevels DEF WKeeps
<1> QED
  BY <1>1, <1>2, <1>5, <1>6, <1>8, <1>9 DEF Behind

(* The call of the insertion that returns is behind by all that was linked.  *)
LEMMA BeginsBehind ==
  ASSUME OneWorker, WorkerInv, TwinInv, NEW w \in Workers, WorkerStep(w), pc'[w] # "panic",
         WCheck(w), NEW g, g = [node |-> node[w], target |-> levelOf[node[w]],
                                neighbors |-> chosen[w], live |-> FALSE]
  PROVE  Behind(g)'
<1>0. /\ pc[w] = "raise" /\ node[w] # 0 /\ node[w] \in Ids /\ jobs \in Nat /\ node[w] = jobs - 1
      /\ rpc[node[w]] = "call" /\ (\A d \in Told : rpc[d] = "done") /\ WKeeps
      /\ rpc' = rpc /\ rconnections' = rconnections /\ rcurrentMaximumLayer' = rcurrentMaximumLayer
      /\ \A x \in Workers : x = w
  <2>1. pc[w] = "raise" /\ WKeeps
    BY DEF WCheck
  <2>2. Inserting(w)
    BY <2>1 DEF Inserting
  <2> QED
    BY <2>1, <2>2, WorkerFacts
<1>1. PICK c \in Ids : c = node[w]
  BY <1>0
<1>2. g.node = c /\ g.target = levelOf[c] /\ \A l \in Levels : g.neighbors[l] = chosen[w][l]
  BY <1>1
<1>3. /\ TypeInv /\ ChoicesInv /\ BornInv /\ LinkInv /\ Turns /\ Tops /\ NotCalled
  BY DEF WorkerInv, TwinInv
<1>4. ASSUME NEW l \in Levels
      PROVE  /\ chosen[w][l] \in Seq(Ids) /\ Len(chosen[w][l]) \in Nat
             /\ connections'[c][l] = chosen[w][l]
             /\ chosen[w][l] # <<>> => l <= currentMaximumLayer
             /\ \A i, j \in 1 .. Len(chosen[w][l]) : chosen[w][l][i] = chosen[w][l][j] => i = j
  <2>1. Ahead(w)
    BY AheadFacts
  <2>2. connections[c][l] = chosen[w][l] /\ (chosen[w][l] # <<>> => l <= currentMaximumLayer)
    BY <1>0, <1>1, <2>1 DEF Ahead, Choosing, Linking
  <2> QED
    BY <1>0, <2>2, AheadFacts DEF WKeeps
<1>5. ASSUME NEW l \in Levels, NEW j \in 1 .. Len(chosen[w][l])
      PROVE  l <= levelOf[c] /\ chosen[w][l][j] < c /\ chosen[w][l][j] \in Ids
  <2>1. PICK u : u = chosen[w][l][j]
    OBVIOUS
  <2>2. u \in Elements(chosen[w][l]) /\ u \in Ids
    BY <1>4, <1>5, <2>1 DEF Elements
  <2>3. Born(u)
    BY <1>3, <2>2 DEF BornInv, BornOnly, BornTo
  <2>4. Path(w)
    BY <1>3 DEF LinkInv
  <2>5. levelOf[c] >= l /\ u # c
    BY <1>0, <1>1, <2>2, <2>4 DEF Path, Choosing
  <2>6. u < jobs
    BY <2>3 DEF Born
  <2>7. levelOf[c] \in Nat /\ l \in Nat /\ u \in Nat /\ c \in Nat
    BY <1>3, <2>2, IdsAndLevels DEF TypeInv, TypeOK
  <2> QED
    BY <1>0, <1>1, <2>1, <2>2, <2>5, <2>6, <2>7
<1>6. currentMaximumLayer = rcurrentMaximumLayer
  <2>1. 0 \in Told
    <3>1. 0 \in Ids /\ 0 < jobs
      BY <1>0, IdsAndLevels
    <3> QED
      BY <1>0, <1>3, <3>1 DEF Turns
  <2>2. rpc[0] = "done" /\ ~RRaising
    BY <1>0, <2>1 DEF RRaising
  <2>3. ~Raising
    BY <1>0 DEF Raising
  <2> QED
    BY <1>3, <2>2, <2>3 DEF Tops
<1>7. CallState(g)'
  BY <1>0, <1>1, <1>2 DEF CallState, RLinking, Linking
<1>8. HookLists(g)'
  <2>1. ASSUME NEW l \in Levels, chosen[w][l] # <<>>
        PROVE  l <= levelOf[c]
    <3>1. 1 \in 1 .. Len(chosen[w][l])
      BY <1>4, <2>1
    <3> QED
      BY <1>5, <3>1
  <2> QED
    BY <1>0, <1>2, <1>4, <1>5, <1>6, <2>1 DEF HookLists
<1>9. \A l : RLeftLevel(c, l)' /\ \A j : RLeft(c, l, j)' /\ ~RNow(c, l, j)' /\ ~RPast(c, l, j)'
  BY <1>0, <1>1 DEF RLeftLevel, RLeft, RNow, RPast
<1>10. ASSUME NEW l \in Levels
       PROVE  BehindOwn(g, l)'
  <2>1. RList(c, l)' = <<>>
    BY <1>0, <1>1, <1>3 DEF NotCalled, RList
  <2>2. rpc'[c] \notin RLinking
    BY <1>0, <1>1 DEF RLinking, Linking
  <2> QED
    BY <1>2, <1>4, <1>9, <2>1, <2>2 DEF BehindOwn
<1>11. ASSUME NEW v \in Ids, NEW l \in Levels, v < c
       PROVE  BehindBy(g, v, l)'
  <2>1. AheadBy(w, v, l)
    BY <1>0, <1>1, <1>11, AheadFacts DEF Ahead, Inserting
  <2>2. \A j : Past(w, l, j) /\ ~Left(w, l, j)
    BY <1>0 DEF Past, Left, Now, Linking
  <2>3. RList(v, l)' = RList(v, l) /\ connections'[v][l] = connections[v][l]
    BY <1>0 DEF RList, WKeeps
  <2>4. PICK list : list = chosen[w][l]
    OBVIOUS
  <2>5. /\ (\A j \in 1 .. Len(list) : list[j] # v) => connections[v][l] = RList(v, l)
        /\ \A j \in 1 .. Len(list) : list[j] = v => CutTo(Append(RList(v, l), c), c, l, connections[v][l])
    BY <1>1, <2>1, <2>2, <2>4 DEF AheadBy
  <2>6. g.neighbors[l] = list
    BY <1>2, <2>4
  <2> QED
    BY <1>2, <1>9, <2>3, <2>5, <2>6 DEF BehindBy
<1> QED
  BY <1>0, <1>1, <1>2, <1>7, <1>8, <1>10, <1>11 DEF Behind

LEMMA WorkerKeepsBehind ==
  ASSUME OneWorker, WorkerInv, TwinInv, NEW w \in Workers, WorkerStep(w), pc'[w] # "panic"
  PROVE  \A g \in hooks' : Behind(g)'
<1>0. /\ TypeInv /\ UnbornUnlinked /\ (\A g \in hooks : Behind(g)) /\ UNCHANGED rvars
      /\ rpc' = rpc
  BY DEF WorkerInv, TwinInv, WorkerStep, rvars
<1>1. ASSUME NEW g \in hooks
      PROVE  Behind(g)'
  <2>1. CASE rpc[g.node] = "done"
    BY <1>0, <2>1 DEF Behind
  <2>2. CASE rpc[g.node] # "done"
    <3>1. g.node \in Told
      BY DEF Told
    <3>2. ~Inserting(w) /\ ~Take(w)
      BY <2>2, <3>1, WorkerFacts
    <3>3. WKeeps
      BY <3>2, WorkerRests
    <3> QED
      BY <1>0, <3>3, RestKeepsBehind
  <2> QED
    BY <2>1, <2>2
<1>2. CASE WFirstInsert(w) /\ node[w] = 0 /\ pc[w] = "table"
  <2>1. PICK g : g = [node |-> 0, target |-> 0, neighbors |-> Unlinked, live |-> TRUE]
    OBVIOUS
  <2>2. g.node = 0 /\ hooks' = hooks \cup {g}
    BY <1>2, <2>1 DEF WFirstInsert
  <2>3. ~Born(0)
    BY <1>2 DEF Born, Unborn
  <2>4. \A l \in Levels : connections'[0][l] = <<>>
    BY <1>0, <1>2, <2>3, IdsAndLevels DEF WFirstInsert, WKeeps, UnbornUnlinked
  <2>5. Behind(g)'
    BY <2>2, <2>4 DEF Behind
  <2> QED
    BY <1>1, <2>2, <2>5
<1>3. CASE WCheck(w)
  <2>1. PICK g : g = [node |-> node[w], target |-> levelOf[node[w]],
                      neighbors |-> chosen[w], live |-> FALSE]
    OBVIOUS
  <2>2. hooks' = hooks \cup {g}
    BY <1>3, <2>1 DEF WCheck
  <2>3. Behind(g)'
    BY <1>3, <2>1, BeginsBehind
  <2> QED
    BY <1>1, <2>2, <2>3
<1> QED
  BY <1>1, <1>2, <1>3, WorkerTells

-------------------------------------------------------------------------------
(* The entry points.                                                         *)
LEMMA WorkerKeepsTops ==
  ASSUME OneWorker, WorkerInv, TwinInv, NEW w \in Workers, WorkerStep(w), pc'[w] # "panic"
  PROVE  Tops'
<1>0. /\ \A x \in Workers : x = w
      /\ Take(w) \/ Insert(w)
      /\ node[w] \in Ids /\ jobs \in Nat
      /\ pc[w] \notin {"idle", "panic"} => node[w] = jobs - 1
      /\ pc[w] \in {"first", "table"} => node[w] = 0
      /\ pc[w] \notin {"idle", "panic", "total", "first", "table"} => node[w] # 0
      /\ Inserting(w) => node[w] \notin Told /\ rpc[node[w]] = "call"
      /\ \A d \in Told : d \in Ids /\ d < jobs
      /\ Inserting(w) \/ Take(w) => \A d \in Told : rpc[d] = "done"
  BY WorkerFacts
<1>a. /\ rpc' = rpc
      /\ rentryPointID' = rentryPointID /\ rcurrentMaximumLayer' = rcurrentMaximumLayer
  BY WorkerFacts
<1>1. TypeInv /\ UnbornUnlinked /\ Calls /\ Turns /\ Tops /\ 0 \in Ids
  BY IdsAndLevels DEF WorkerInv, TwinInv
<1>2. \/ Take(w) /\ WTake(w)
      \/ /\ Insert(w)
         /\ \/ WReadTotal(w) \/ WLockFirst(w) \/ WFirstInsert(w) \/ WRead(w)
            \/ WSearch(w) \/ WSelect(w) \/ WLinkNeighbor(w) \/ WLinkSelf(w) \/ WCount(w)
            \/ WFindMany(w) \/ WPrune(w) \/ WCheck(w) \/ WPublishEntryPoint(w)
            \/ WPublishMaximumLayer(w)
  BY <1>0, <1>1, WorkerCases
<1>3. ASSUME pc'[w] \in {"table", "publish"}
      PROVE  entryPointID' = node'[w]
  <2>1. WLockFirst(w) \/ WPublishEntryPoint(w)
    BY <1>2, <1>3
       DEF WTake, WReadTotal, WFirstInsert, WRead, WSearch, WSelect, WLinkNeighbor, WLinkSelf,
           WCount, WFindMany, WPrune, WAdvances, WCheck, WPublishMaximumLayer
  <2> QED
    BY <2>1 DEF WLockFirst, WPublishEntryPoint, WSame
<1>4. ASSUME 0 \in Told', rpc'[0] # "done"
      PROVE  entryPointID' = 0 /\ currentMaximumLayer' = 0
  <2>1. CASE 0 \in Told
    <3>1. ~Inserting(w) /\ ~Take(w)
      BY <1>0, <1>a, <1>4, <2>1
    <3>2. node[w] # 0 /\ node[w] = jobs - 1
      BY <3>1, WorkerRests
    <3>3. jobs - 1 = 0
      BY <1>1, <1>a, <1>4, <2>1 DEF Calls
    <3> QED
      BY <3>2, <3>3
  <2>2. CASE 0 \notin Told
    <3>1. WFirstInsert(w) \/ (WCheck(w) /\ node[w] = 0)
      BY <1>4, <2>2, WorkerTells
    <3>2. ~(WCheck(w) /\ node[w] = 0)
      BY <1>0 DEF WCheck
    <3>3. pc[w] = "table" /\ entryPointID' = entryPointID /\ currentMaximumLayer' = 0
      BY <3>1, <3>2 DEF WFirstInsert
    <3>4. entryPointID = 0
      BY <1>0, <1>1, <3>3 DEF Tops
    <3> QED
      BY <3>3, <3>4
  <2> QED
    BY <2>1, <2>2
<1> DEFINE Goal ==
      /\ (IF Raising' THEN jobs' - 1 ELSE entryPointID')
           = (IF RRaising' THEN jobs' - 1 ELSE rentryPointID)
      /\ (IF Raising' THEN levelOf'[jobs' - 1] ELSE currentMaximumLayer')
           = (IF RRaising' THEN levelOf'[jobs' - 1] ELSE rcurrentMaximumLayer)
<1>5. ASSUME rpc[0] = "done"
      PROVE  Goal
  <2>0. 0 \in Told
    BY <1>1, <1>5 DEF Calls
  <2>1. /\ (IF Raising THEN jobs - 1 ELSE entryPointID)
             = (IF RRaising THEN jobs - 1 ELSE rentryPointID)
        /\ (IF Raising THEN levelOf[jobs - 1] ELSE currentMaximumLayer)
             = (IF RRaising THEN levelOf[jobs - 1] ELSE rcurrentMaximumLayer)
    BY <1>1, <1>5 DEF Tops
  <2>2. /\ Raising <=> pc[w] \in {"lock", "publish"}
        /\ Raising' <=> pc'[w] \in {"lock", "publish"}
    BY <1>0 DEF Raising
  <2>3. node[w] = 0 => ~Inserting(w)
    BY <1>0, <2>0
  <2>4. ~WLockFirst(w) /\ ~WFirstInsert(w)
    BY <1>0, <2>3 DEF WLockFirst, WFirstInsert, Inserting
  <2>5. ASSUME Inserting(w) \/ Take(w)
        PROVE  /\ ~RRaising
               /\ Told' = Told => ~RRaising'
    BY <1>0, <1>a, <2>5 DEF RRaising
  <2>6. CASE \/ Take(w) /\ WTake(w)
             \/ WReadTotal(w) \/ WRead(w) \/ WSearch(w) \/ WSelect(w) \/ WLinkNeighbor(w)
             \/ WLinkSelf(w) \/ WCount(w) \/ WFindMany(w) \/ WPrune(w)
    <3>1. /\ Inserting(w) \/ Take(w)
          /\ pc[w] \notin {"lock", "publish"} /\ pc'[w] \notin {"lock", "publish"}
          /\ UNCHANGED <<entryPointID, currentMaximumLayer>>
      BY <2>6
         DEF WTake, WReadTotal, WRead, WSearch, WSelect, WLinkNeighbor, WLinkSelf, WCount, WFindMany,
             WPrune, WAdvances, WLinks, WTop, Inserting
    <3>2. ~WFirstInsert(w) /\ ~WCheck(w)
      BY <2>6 DEF WTake, WReadTotal, WRead, WSearch, WSelect, WLinkNeighbor, WLinkSelf, WCount,
                  WFindMany, WPrune, WFirstInsert, WCheck
    <3>3. ~RRaising /\ ~RRaising'
      BY <2>5, <3>1, <3>2, WorkerTells
    <3> QED
      BY <2>1, <2>2, <3>1, <3>3
  <2>7. CASE WCheck(w)
    <3>1. /\ pc[w] = "raise" /\ jobs' = jobs /\ levelOf' = levelOf
          /\ entryPointID' = entryPointID /\ currentMaximumLayer' = currentMaximumLayer
          /\ pc'[w] = IF levelOf[node[w]] > currentMaximumLayer THEN "lock" ELSE "idle"
      BY <2>7 DEF WCheck, WTop
    <3>2. Inserting(w) /\ node[w] = jobs - 1
      BY <1>0, <3>1 DEF Inserting
    <3>3. ~Raising /\ ~RRaising
      BY <2>2, <2>5, <3>1, <3>2
    <3>4. entryPointID = rentryPointID /\ currentMaximumLayer = rcurrentMaximumLayer
      BY <2>1, <3>3
    <3>5. Raising' <=> levelOf[node[w]] > currentMaximumLayer
      BY <2>2, <3>1
    <3>6. Told' = Told \cup {node[w]}
      BY <2>7, WorkerTells DEF WCheck, WFirstInsert
    <3>7. RRaising' <=> levelOf[node[w]] > rcurrentMaximumLayer
      <4>1. node[w] \in Told' /\ rpc'[node[w]] # "done"
        BY <1>0, <1>a, <3>2, <3>6
      <4>2. \A d \in Ids : d \in Told' /\ rpc'[d] # "done" => d = node[w]
        BY <1>0, <1>a, <3>2, <3>6
      <4> QED
        BY <1>0, <1>a, <3>1, <4>1, <4>2 DEF RRaising
    <3>8. Raising' <=> RRaising'
      BY <3>4, <3>5, <3>7
    <3> QED
      BY <3>1, <3>4, <3>8
  <2>8. CASE WPublishEntryPoint(w) \/ WPublishMaximumLayer(w)
    <3>1. /\ jobs' = jobs /\ levelOf' = levelOf /\ hooks' = hooks
          /\ pc[w] \in {"lock", "publish"}
      BY <2>8 DEF WPublishEntryPoint, WPublishMaximumLayer, WSame
    <3>2. Raising /\ node[w] = jobs - 1
      BY <1>0, <2>2, <3>1
    <3>3. RRaising' <=> RRaising
      BY <1>a, <3>1 DEF RRaising, Told
    <3>4. CASE WPublishEntryPoint(w)
      <4>1. Raising'
        BY <2>2, <3>4 DEF WPublishEntryPoint
      <4> QED
        BY <2>1, <3>1, <3>2, <3>3, <4>1
    <3>5. CASE WPublishMaximumLayer(w)
      <4>1. /\ ~Raising' /\ pc[w] = "publish" /\ entryPointID' = entryPointID
            /\ currentMaximumLayer' = levelOf[node[w]]
        BY <2>2, <3>5 DEF WPublishMaximumLayer
      <4>2. entryPointID = node[w]
        BY <1>1, <4>1 DEF Tops
      <4> QED
        BY <2>1, <3>1, <3>2, <3>3, <4>1, <4>2
    <3> QED
      BY <2>8, <3>4, <3>5
  <2> QED
    <3> HIDE DEF Goal
    <3> QED
      BY <1>2, <2>4, <2>6, <2>7, <2>8
<1>6. Tops' <=>
        /\ \A x \in Workers : pc'[x] \in {"table", "publish"} => entryPointID' = node'[x]
        /\ 0 \in Told' /\ rpc'[0] # "done" => entryPointID' = 0 /\ currentMaximumLayer' = 0
        /\ rpc'[0] = "done" => Goal
  BY <1>a DEF Tops
<1> QED
  <2> HIDE DEF Goal
  <2>1. \A x \in Workers : pc'[x] \in {"table", "publish"} => entryPointID' = node'[x]
    BY <1>0, <1>3
  <2>2. rpc'[0] = "done" => Goal
    BY <1>5, <1>a
  <2> QED
    BY <1>4, <1>6, <2>1, <2>2

LEMMA WorkerTwin ==
  ASSUME OneWorker, WorkerInv, TwinInv, NEW w \in Workers, WorkerStep(w), pc'[w] # "panic"
  PROVE  TwinInv'
<1>1. RType' /\ NotCalled'
  BY WorkerKeepsRTypes DEF TwinInv, WorkerStep
<1>2. Calls' /\ Turns'
  BY WorkerKeepsCalls, WorkerKeepsTurns
<1>3. Level' /\ Tops'
  BY WorkerKeepsLevel, WorkerKeepsTops
<1>4. \A u \in Workers : Ahead(u)'
  BY WorkerKeepsAhead
<1>5. \A h \in hooks' : Behind(h)'
  BY WorkerKeepsBehind
<1> QED
  BY <1>1, <1>2, <1>3, <1>4, <1>5 DEF TwinInv

-------------------------------------------------------------------------------
(* Nothing changes while the graph is queried, or when all is done.          *)
LEMMA StutterTwin ==
  ASSUME TypeInv, TwinInv, UNCHANGED <<vars, rvars>>
  PROVE  TwinInv'
<1>1. /\ nodes' = nodes /\ entryPointID' = entryPointID
      /\ currentMaximumLayer' = currentMaximumLayer
      /\ levelOf' = levelOf /\ connections' = connections /\ jobs' = jobs /\ hooks' = hooks
      /\ pc' = pc /\ node' = node /\ layer' = layer /\ chosen' = chosen /\ idx' = idx
      /\ snapshot' = snapshot
  BY DEF vars, graph
<1>2. /\ rpc' = rpc /\ rnodes' = rnodes /\ rown' = rown /\ rlevelOf' = rlevelOf
      /\ rconnections' = rconnections /\ rentryPointID' = rentryPointID
      /\ rcurrentMaximumLayer' = rcurrentMaximumLayer /\ UNCHANGED rvars
  BY DEF rvars
<1>3. Told' = Told /\ (\A w : Inserting(w)' <=> Inserting(w)) /\ (\A w : Active(w)' <=> Active(w))
  BY <1>1 DEF Told, Inserting, Active
<1>4. RType' /\ NotCalled'
  BY <1>2, WorkerKeepsRTypes DEF TwinInv
<1>5. Turns' /\ Calls'
  <2>1. Turns'
    BY <1>1, <1>3 DEF TwinInv, Turns
  <2>2. Calls'
    BY <1>1, <1>2, <1>3 DEF TwinInv, Calls
  <2> QED
    BY <2>1, <2>2
<1>6. Level'
  BY <1>1, <1>2 DEF TwinInv, Level, RList
<1>7. Tops'
  <2>1. (Raising' <=> Raising) /\ (RRaising' <=> RRaising)
    BY <1>1, <1>2, <1>3 DEF Raising, RRaising
  <2> QED
    BY <1>1, <1>2, <1>3, <2>1 DEF TwinInv, Tops
<1>8. ASSUME NEW w \in Workers
      PROVE  Ahead(w)'
  <2>1. Ahead(w)
    BY DEF TwinInv
  <2>2. ASSUME NEW v \in Ids, NEW l \in Levels, AheadBy(w, v, l)
        PROVE  AheadBy(w, v, l)'
    <3>1. \A j : /\ Left(w, l, j)' <=> Left(w, l, j)
                 /\ Now(w, l, j)' <=> Now(w, l, j)
      BY <1>1 DEF Left, Now, NotYet
    <3> QED
      BY <1>1, <1>2, <2>2, <3>1, AheadSame
  <2> QED
    BY <1>1, <1>3, <2>1, <2>2 DEF Ahead
<1>9. ASSUME NEW h \in hooks
      PROVE  Behind(h)'
  <2>1. Behind(h) /\ WKeeps
    BY <1>1 DEF TwinInv, WKeeps
  <2> QED
    BY <1>2, <2>1, RestKeepsBehind
<1> QED
  BY <1>1, <1>4, <1>5, <1>6, <1>7, <1>8, <1>9 DEF TwinInv

LEMMA InitTwin == PairInit => TwinInv
<1> SUFFICES ASSUME PairInit
             PROVE  TwinInv
  OBVIOUS
<1>1. /\ connections = [v \in Ids |-> Unlinked] /\ jobs = 0 /\ hooks = {}
      /\ pc = [w \in Workers |-> "idle"]
  BY DEF PairInit, Init
<1>2. /\ rnodes = [v \in Ids |-> R!None] /\ rentryPointID = 0 /\ rcurrentMaximumLayer = 0
      /\ rlevelOf = [v \in Ids |-> [c \in Ids |-> 0]]
      /\ rconnections = [v \in Ids |-> [c \in Ids |-> Unlinked]]
      /\ rpc = [c \in Ids |-> "call"] /\ rown = [c \in Ids |-> R!None]
      /\ rlayer = [c \in Ids |-> 0] /\ rneighbors = [c \in Ids |-> <<>>]
      /\ ridx = [c \in Ids |-> 0] /\ rneighbor = [c \in Ids |-> R!None]
      /\ rsnapshot = [c \in Ids |-> <<>>]
  BY CommonNames DEF PairInit, R!Init
<1>3. Told = {} /\ \A w \in Workers : pc[w] = "idle" /\ ~Inserting(w) /\ ~Active(w)
  BY <1>1 DEF Told, Inserting, Active
<1>4. \A v \in Ids, l \in Levels : RList(v, l) = <<>> /\ connections[v][l] = <<>>
  BY <1>1, <1>2, UnlinkedType DEF RList
<1>5. RType
  <2>1. <<>> \in Seq(Ids) /\ 0 \in Nat
    OBVIOUS
  <2> QED
    BY <1>2, <2>1, UnlinkedType, IdsAndLevels DEF RType, RPcValues
<1>6. Turns
  <2>1. \A c \in Ids : ~(c < jobs)
    BY <1>1 DEF Ids
  <2> QED
    BY <1>1, <1>3, <2>1 DEF Turns
<1>7. Calls
  BY <1>2, <1>3 DEF Calls, NotStored
<1>8. Level /\ NotCalled
  BY <1>4 DEF Level, NotCalled
<1>9. Tops
  BY <1>2, <1>3, IdsAndLevels DEF Tops
<1>10. \A w \in Workers : Ahead(w)
  BY <1>3 DEF Ahead, Choosing, Linking
<1> QED
  BY <1>1, <1>5, <1>6, <1>7, <1>8, <1>9, <1>10 DEF TwinInv

(* When nobody inserts and all calls have returned the graphs are the same.  *)
LEMMA TwinsAreSame ==
  ASSUME WorkerInv, TwinInv
  PROVE  SameGraph
<1> SUFFICES ASSUME Idle, AllReplicated
             PROVE  /\ {v \in Ids : rnodes[v] # R!None} = nodes
                    /\ \A v \in nodes : /\ rlevelOf[v][rnodes[v]] = levelOf[v]
                                        /\ rconnections[v][rnodes[v]] = connections[v]
                    /\ nodes # {} => /\ rentryPointID = entryPointID
                                     /\ rcurrentMaximumLayer = currentMaximumLayer
  BY DEF SameGraph
<1>1. /\ TypeInv /\ BornInv /\ StoredBorn /\ BornStored /\ FirstOnce
      /\ RType /\ Turns /\ Calls /\ Level /\ Tops
  BY DEF WorkerInv, TwinInv
<1>2. \A c \in Told : c \in Ids /\ rpc[c] = "done" /\ c < jobs
  BY <1>1, ReplicatedMeans, HookType DEF Told, BornInv, HooksBorn
<1>3. \A w \in Workers : ~Inserting(w) /\ pc[w] = "idle"
  BY DEF Idle, Inserting
<1>4. \A v \in Ids : v < jobs <=> v \in Told
  BY <1>1, <1>2, <1>3 DEF Turns
<1>5. \A v \in Ids : v \in nodes <=> v \in Told
  <2>1. \A v \in Ids : Born(v) <=> v < jobs
    BY <1>3 DEF Born, Unborn
  <2>2. \A v \in Ids : v \in nodes <=> Born(v)
    BY <1>1 DEF StoredBorn, BornStored, FirstOnce
  <2> QED
    BY <1>4, <2>1, <2>2
<1>6. nodes \subseteq Ids
  BY <1>1 DEF TypeInv, TypeOK
<1>7. ASSUME NEW v \in Ids
      PROVE  rnodes[v] # R!None <=> v \in nodes
  <2>1. rnodes[v] = IF rpc[v] \in NotStored THEN R!None ELSE v
    BY <1>1 DEF Calls
  <2>2. v # R!None
    BY IdsAndLevels DEF R!None
  <2>3. rpc[v] \in NotStored <=> v \notin Told
    BY <1>1, <1>2 DEF Calls, NotStored
  <2> QED
    BY <1>5, <2>1, <2>2, <2>3
<1>8. ASSUME NEW v \in nodes
      PROVE  /\ rlevelOf[v][rnodes[v]] = levelOf[v]
             /\ rconnections[v][rnodes[v]] = connections[v]
  <2>1. v \in Ids /\ v \in Told /\ rpc[v] = "done" /\ v < jobs
    BY <1>2, <1>5, <1>6
  <2>2. rnodes[v] = v /\ rlevelOf[v][v] = levelOf[v]
    BY <1>1, <2>1 DEF Calls, NotStored
  <2>3. \A l \in Levels : rconnections[v][v][l] = connections[v][l]
    BY <1>1, <1>2, <1>4, <2>1 DEF Level, RList
  <2>4. rconnections[v][v] \in [Levels -> Seq(Ids)] /\ connections[v] \in [Levels -> Seq(Ids)]
    BY <1>1, <2>1 DEF RType, TypeInv, TypeOK
  <2>5. rconnections[v][v] = connections[v]
    BY <2>3, <2>4
  <2> QED
    BY <2>2, <2>5
<1>9. ASSUME nodes # {}
      PROVE  rentryPointID = entryPointID /\ rcurrentMaximumLayer = currentMaximumLayer
  <2>1. PICK v \in nodes : v \in Ids /\ v < jobs
    BY <1>4, <1>5, <1>6, <1>9
  <2>2. 0 \in Ids /\ 0 < jobs
    BY <1>1, <2>1, IdsAndLevels, JobNumbers
  <2>3. rpc[0] = "done"
    BY <1>2, <1>4, <2>2
  <2>4. ~Raising /\ ~RRaising
    BY <1>2, <1>3 DEF Raising, RRaising
  <2> QED
    BY <1>1, <2>3, <2>4 DEF Tops
<1> QED
  BY <1>6, <1>7, <1>8, <1>9

(* HnswPair.SameGraph: with one worker, each of whose insertions is replicated *)
(* before the next one begins, the other graph has the same vertices, levels,  *)
(* connections and entry point whenever all calls have returned, provided that *)
(* no two ids are equally far from a third: among these the tree chooses, and  *)
(* there are two of them.                                                      *)
THEOREM OneMakesTwins == OneWorker /\ Apart => (ServiceSpec => []SameGraph)
<1> SUFFICES ASSUME OneWorker, Apart
             PROVE  ServiceSpec => []SameGraph
  OBVIOUS
<1>1. Spec => []WorkerInv
  BY OneWorkerMakesItOnce, OneWorkerLinks, TypeInvariance, PublicationInvariance,
     ChoicesInvariance, BornInvariance, UnbornInvariance, StoredAreBorn, BornAreStored,
     KnownInvariance, PTL DEF WorkerInv
<1>2. ServiceInit => TwinInv
  BY InitTwin DEF ServiceInit
<1>3. WorkerInv /\ WorkerInv' /\ TwinInv /\ [ServiceNext]_<<vars, rvars, qvars>> => TwinInv'
  <2> SUFFICES ASSUME WorkerInv, WorkerInv', TwinInv, [ServiceNext]_<<vars, rvars, qvars>>
               PROVE  TwinInv'
    OBVIOUS
  <2>1. TypeInv /\ BornInv /\ Running'
    BY DEF WorkerInv, FirstOnce, Known, NoPanic
  <2>2. ASSUME NEW w \in Workers, (Take(w) /\ AllReplicated) \/ Insert(w), UNCHANGED rvars
        PROVE  TwinInv'
    <3>1. pc'[w] # "panic" /\ WorkerStep(w)
      BY <2>1, <2>2 DEF Running, WorkerStep
    <3> QED
      BY <3>1, WorkerTwin
  <2>3. ASSUME NEW c \in Ids, R!InsertFromExternal(c), UNCHANGED vars
        PROVE  TwinInv'
    BY <2>1, <2>3, CallStep
  <2>4. UNCHANGED <<vars, rvars>> => TwinInv'
    BY <2>1, StutterTwin
  <2> QED
    BY <2>2, <2>3, <2>4 DEF ServiceNext, InTurnNext, Replicate, PairOver
<1>4. WorkerInv /\ TwinInv => SameGraph
  BY TwinsAreSame
<1> QED
  BY <1>1, <1>2, <1>3, <1>4, ServiceInserts, PTL DEF ServiceSpec
================================================================================
