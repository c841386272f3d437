------------------------------- MODULE TwoGraphs -------------------------------
(****************************************************************************)
(* The primary and the secondary graph of main.  A coin decides into which  *)
(* of them a worker inserts its vertex, and the insertion starts the call   *)
(* that replicates it to the other: each graph is at the same time written  *)
(* to by workers and by replicating goroutines, with ids the other chose.   *)
(****************************************************************************)
EXTENDS HnswParameters

CONSTANT NumWorkers

ASSUME NumWorkersAssumption == NumWorkers \in Nat \ {0}

VARIABLES
  jobs, \* how many jobs have been handed out
  \* the primary graph and its calls
  pnodes, pentryPointID, pcurrentMaximumLayer, plevelOf, pconnections, pfirsts,
  ppc, pown, player, pneighbors, pidx, pneighbor, psnapshot,
  pinserts, pchosen, phooked,
  \* the secondary graph and its calls
  snodes, sentryPointID, scurrentMaximumLayer, slevelOf, sconnections, sfirsts,
  spc, sown, slayer, sneighbors, sidx, sneighbor, ssnapshot,
  sinserts, schosen, shooked

(* The arguments of a call: of a job that was given to this graph, what is  *)
(* drawn and chosen here; of another one, what its hook was handed.  The    *)
(* first insertion hands over the connections of its vertex themselves.     *)
Arguments(c, here, level, chosenHere, thereHooked, levelThere, chosenThere, first, live) ==
  IF c \in here
  THEN [sent |-> FALSE, target |-> level[c][c], neighbors |-> chosenHere[c],
        live |-> FALSE]
  ELSE [sent |-> c \in thereHooked, target |-> levelThere[c][c],
        neighbors |-> IF c \in first THEN live[c][c] ELSE chosenThere[c],
        live |-> c \in first]

P == INSTANCE Peer WITH
  hook <- [c \in Ids |-> Arguments(c, pinserts, plevelOf, pchosen, shooked, slevelOf,
                                   schosen, sfirsts, sconnections)],
  nodes <- pnodes, entryPointID <- pentryPointID,
  currentMaximumLayer <- pcurrentMaximumLayer, levelOf <- plevelOf,
  connections <- pconnections, firsts <- pfirsts, pc <- ppc, own <- pown,
  layer <- player, neighbors <- pneighbors, idx <- pidx, neighbor <- pneighbor,
  snapshot <- psnapshot, inserts <- pinserts, chosen <- pchosen, hooked <- phooked

S == INSTANCE Peer WITH
  hook <- [c \in Ids |-> Arguments(c, sinserts, slevelOf, schosen, phooked, plevelOf,
                                   pchosen, pfirsts, pconnections)],
  nodes <- snodes, entryPointID <- sentryPointID,
  currentMaximumLayer <- scurrentMaximumLayer, levelOf <- slevelOf,
  connections <- sconnections, firsts <- sfirsts, pc <- spc, own <- sown,
  layer <- slayer, neighbors <- sneighbors, idx <- sidx, neighbor <- sneighbor,
  snapshot <- ssnapshot, inserts <- sinserts, chosen <- schosen, hooked <- shooked

(* What a graph and its calls keep, but for the jobs it was given. *)
pcalls == <<pnodes, pentryPointID, pcurrentMaximumLayer, plevelOf, pconnections, pfirsts,
            ppc, pown, player, pneighbors, pidx, pneighbor, psnapshot, pchosen, phooked>>
scalls == <<snodes, sentryPointID, scurrentMaximumLayer, slevelOf, sconnections, sfirsts,
            spc, sown, slayer, sneighbors, sidx, sneighbor, ssnapshot, schosen, shooked>>

vars == <<jobs, pcalls, pinserts, scalls, sinserts>>

-------------------------------------------------------------------------------
Init == jobs = 0 /\ P!PeerInit /\ S!PeerInit

(* The jobs a worker is at. *)
AtWork == {c \in pinserts : ppc[c] # "done"} \cup {c \in sinserts : spc[c] # "done"}

Running == P!NoPanic /\ S!NoPanic

(* hnswWorker takes the next job and flips a coin. *)
Take ==
  /\ jobs < N
  /\ Cardinality(AtWork) < NumWorkers
  /\ jobs' = jobs + 1
  /\ \/ pinserts' = pinserts \cup {jobs} /\ UNCHANGED sinserts
     \/ sinserts' = sinserts \cup {jobs} /\ UNCHANGED pinserts
  /\ UNCHANGED <<pcalls, scalls>>

(* Every call has returned in both graphs. *)
AllDone == jobs = N /\ \A c \in Ids : ppc[c] = "done" /\ spc[c] = "done"

Next ==
  \/ Running /\ Take
  \/ Running /\ P!PeerStep /\ UNCHANGED <<jobs, scalls, sinserts>>
  \/ Running /\ S!PeerStep /\ UNCHANGED <<jobs, pcalls, pinserts>>
  \/ (~Running \/ AllDone) /\ UNCHANGED vars

Spec == Init /\ [][Next]_vars

-------------------------------------------------------------------------------
MadeOnce == P!MadeOnce /\ S!MadeOnce

(* Nobody who searches or links in either graph, a worker or a replicating   *)
(* goroutine, comes upon an id that is not in its table, whatever the order  *)
(* in which insertions and calls for both graphs proceed, unless the table   *)
(* of one graph was made twice.                                              *)
NothingDangles ==
  MadeOnce => /\ P!NoDanglingLinks /\ P!NoPanic
              /\ S!NoDanglingLinks /\ S!NoPanic

(* Once a call has stored its vertex, in whichever graph, it stays there.    *)
BothStoredForGood == MadeOnce => P!StoredForGood /\ S!StoredForGood

(* insert never looks for a placeholder.  It need not: what could refer to   *)
(* its vertex learns of it from its hook only, so that none has been put     *)
(* there, in its own graph, when it stores the vertex, nor a level been set. *)
NoPlaceholderForInserts ==
  MadeOnce =>
    /\ \A c \in pinserts : ppc[c] \in {"max", "store"} => pnodes[c] = P!None
    /\ \A c \in sinserts : spc[c] \in {"max", "store"} => snodes[c] = S!None

(* When all is over each graph has every vertex, linked on level 0 unless it *)
(* was the first of its graph or of the other, and the entry point is a      *)
(* vertex of the highest layer.                                              *)
BothComplete ==
  (AllDone /\ MadeOnce) =>
    \A c \in Ids :
      /\ pnodes[c] = pown[c] /\ snodes[c] = sown[c]
      /\ c \notin pfirsts \cup sfirsts => P!Links(c, 0) # <<>> /\ S!Links(c, 0) # <<>>
      /\ P!EntryPointOnTop /\ S!EntryPointOnTop
================================================================================
