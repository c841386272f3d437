------------------------------- MODULE KnnSearch -------------------------------
(****************************************************************************)
(* A query of the graph of module Hnsw: knnSearch as the HTTP handler calls *)
(* it, in a goroutine of its own.  main serves as soon as all jobs have     *)
(* been handed out and some time has passed, so the last insertions may     *)
(* still be running.  A query changes nothing, so one that may begin at any *)
(* time stands for any number of them.                                      *)
(*                                                                          *)
(* Each of its searches is a behaviour of module SearchLayer that reads the *)
(* connections the graph has when a candidate is expanded.  SL(q) is that   *)
(* module for the query q.                                                  *)
(****************************************************************************)
EXTENDS Hnsw

CONSTANTS
  k, \* how many results the request asks for
  ef \* how many results the search of layer 0 keeps

ASSUME KAssumption       == k \in Nat \ {0}
ASSUME QueryEfAssumption == ef \in Nat \ {0}

VARIABLES
  qpc,
  query,   \* queryNodeID
  qlayer,  \* the loop variable level
  qentry,  \* entryPointID
  out,     \* the answer
  calm,    \* history: no insertion was under way when the query began
  \* the variables of the search of one layer
  spc, sef, sentrypoints, svisited, scandidates, sresults, stodo, sworst, sseen

locals  == <<qpc, query, qlayer, qentry, out, calm>>
layerSearch ==
  <<spc, sef, sentrypoints, svisited, scandidates, sresults, stodo, sworst, sseen>>
qvars   == <<locals, layerSearch>>

SL(q) == INSTANCE SearchLayer WITH
  Nodes <- Ids, Dist <- Dist[q], Efs <- {1, ef},
  pc <- spc, ef <- sef, entrypoints <- sentrypoints, visited <- svisited,
  candidates <- scandidates, results <- sresults, todo <- stodo, worst <- sworst,
  seen <- sseen

-------------------------------------------------------------------------------
QueryInit ==
  /\ qpc = "idle"
  /\ query = 0
  /\ qlayer = 0
  /\ qentry = 0
  /\ out = <<>>
  /\ calm = FALSE
  /\ spc = "call" /\ sef = 0 /\ sworst = 0
  /\ sentrypoints = {} /\ svisited = {} /\ scandidates = {}
  /\ sresults = {} /\ stodo = {} /\ sseen = [v \in {} |-> {}]

(* queryNode is read under the read lock; if the vertex is not stored yet it *)
(* is nil, and the search it is given to panics, which ends the request but  *)
(* not the program.                                                          *)
ReadQueryNode(q) ==
  /\ qpc = "idle"
  /\ jobs = N
  /\ hlock = {}
  /\ query' = q
  /\ calm' = Quiet
  /\ qpc' = IF q \in nodes THEN "entry" ELSE "refused"
  /\ UNCHANGED <<qlayer, qentry, out, layerSearch>>

(* Faulty: the search begins at the vertex of the last job, stored or not. *)
ReadQueryEntryPointLastJob ==
  /\ qpc = "entry"
  /\ qentry' = jobs - 1
  /\ qpc' = "max"
  /\ UNCHANGED <<query, qlayer, out, calm, layerSearch>>

(* The entry point and the maximum layer, as in insert, without a lock. *)
ReadQueryEntryPoint ==
  /\ qpc = "entry"
  /\ qentry' = entryPointID
  /\ qpc' = "max"
  /\ UNCHANGED <<query, qlayer, out, calm, layerSearch>>

ReadQueryMaximumLayer ==
  /\ qpc = "max"
  /\ qlayer' = currentMaximumLayer
  /\ qpc' = "call"
  /\ UNCHANGED <<query, qentry, out, calm, layerSearch>>

(* Faulty: one result is asked for on layer 0 as well. *)
CallSearchForOne(q) ==
  /\ qpc = "call"
  /\ SL(q)!Begin({qentry}, 1)
  /\ qpc' = "search"
  /\ UNCHANGED <<query, qlayer, qentry, out, calm>>

(* Above layer 0 one result is asked for. *)
CallSearch(q) ==
  /\ qpc = "call"
  /\ SL(q)!Begin({qentry}, IF qlayer >= 1 THEN 1 ELSE ef)
  /\ qpc' = "search"
  /\ UNCHANGED <<query, qlayer, qentry, out, calm>>

(* searchLayer looks a candidate up in the table and copies its connections; *)
(* one that is not there is a nil pointer.                                   *)
QueryExpand(q, c) ==
  /\ qpc = "search"
  /\ hlock = {}
  /\ SL(q)!Expand(c, Elements(connections[c][qlayer]))
  /\ qpc' = IF c \in nodes THEN "search" ELSE "panic"
  /\ UNCHANGED <<query, qlayer, qentry, out, calm>>

QueryVisit(q) ==
  /\ qpc = "search"
  /\ \/ \E v \in Ids : SL(q)!Visit(v)
     \/ SL(q)!NextCandidate
     \/ \E c \in Ids : SL(q)!BreakOff(c)
     \/ SL(q)!Exhaust
  /\ UNCHANGED locals

(* The search returns; its variables are as before the next call. *)
ReturnSearch ==
  /\ qpc = "search"
  /\ spc = "done"
  /\ spc' = "call" /\ sef' = 0 /\ sworst' = 0
  /\ sentrypoints' = {} /\ svisited' = {} /\ scandidates' = {}
  /\ sresults' = {} /\ stodo' = {} /\ sseen' = [v \in {} |-> {}]

(* The loop over the upper layers: the best result is where the next begins. *)
DescendQuery(q) ==
  /\ qlayer >= 1
  /\ ReturnSearch
  /\ \E best \in Minima(sresults, Dist[q]) : qentry' = best
  /\ qlayer' = qlayer - 1
  /\ qpc' = "call"
  /\ UNCHANGED <<query, out, calm>>

(* The search of layer 0: at most k results, nearest first. *)
Answer(q) ==
  /\ qlayer = 0
  /\ ReturnSearch
  /\ out' \in Nearest(sresults, Dist[q], k)
  /\ qpc' = "answered"
  /\ UNCHANGED <<query, qlayer, qentry, calm>>

Query ==
  \/ ReadQueryEntryPoint \/ ReadQueryMaximumLayer
  \/ \E q \in Ids : ReadQueryNode(q)
  \/ \E q \in Ids :
       /\ q = query
       /\ \/ CallSearch(q)
          \/ \E c \in Ids : QueryExpand(q, c)
          \/ QueryVisit(q) \/ DescendQuery(q) \/ Answer(q)

-------------------------------------------------------------------------------
(* Whatever insertions are under way: a query never follows an id that is    *)
(* not in the table, and so answers with inserted vertices only, which the   *)
(* handler looks up by their ids; and one that begins when none is under way *)
(* finds its own vertex; unless the table was made twice.                    *)
AnswersAreStored ==
  firsts <= 1 => /\ qpc # "panic"
                 /\ Elements(out) \subseteq nodes
                 /\ calm => qpc # "refused"

(* The answer of a quiet graph cannot be improved by one more step: no       *)
(* connection of the first answer leads nearer to the query; and if there    *)
(* are fewer answers than were asked for, no connection of any answer on     *)
(* layer 0 leads to another vertex.                                          *)
AnswerIsLocalMinimum ==
  (qpc = "answered" /\ calm /\ ef >= k) =>
    /\ \A v \in Elements(connections[out[1]][0]) :
         Dist[query][out[1]] <= Dist[query][v]
    /\ Len(out) < k =>
         \A v \in Elements(out) : Elements(connections[v][0]) \subseteq Elements(out)
================================================================================
