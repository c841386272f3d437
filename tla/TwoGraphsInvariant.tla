-------------------------- MODULE TwoGraphsInvariant --------------------------
(*****************************************************************************)
(* An inductive invariant of TwoGraphs: first what holds of the primary      *)
(* graph and its calls, then the same of the secondary one, then of both.    *)
(* The definitions are written out for each, with its variables, since the   *)
(* proofs expand them.                                                       *)
(*****************************************************************************)
EXTENDS TwoGraphs

(* What connections can be.                                                  *)
Tables == [Ids -> [Ids -> [Levels -> Seq(Ids)]]]

-------------------------------------------------------------------------------
(* The primary graph and its calls.                                          *)
(* Types, and ...                                                            *)
PTypeOK ==
  /\ pnodes \in [Ids -> Ids \cup {-1}]
  /\ pentryPointID \in Ids
  /\ pcurrentMaximumLayer \in Levels
  /\ plevelOf \in [Ids -> [Ids -> Levels]]
  /\ pconnections \in Tables
  /\ pfirsts \subseteq Ids
  /\ ppc \in [Ids -> {"call", "first", "max", "store", "level", "range", "make", "reread",
                      "link", "linkSelf", "count", "prune", "raise", "publish", "done",
                      "panic"}]
  /\ pown \in [Ids -> Ids \cup {-1}]
  /\ player \in [Ids -> Levels]
  /\ pneighbors \in [Ids -> Seq(Ids)]
  /\ pidx \in [Ids -> Nat]
  /\ pneighbor \in [Ids -> Ids \cup {-1}]
  /\ psnapshot \in [Ids -> Seq(Ids)]
  /\ pinserts \subseteq Ids /\ phooked \subseteq Ids
  /\ pchosen \in [Ids -> [Levels -> Seq(Ids)]]

(* ... and what a call holds at a step that needs it.                        *)
PAtNeighbor(c)  == ppc[c] \in {"make", "reread", "link", "linkSelf", "count", "prune"}
PHasNeighbor(c) == ppc[c] \in {"link", "linkSelf", "count", "prune"}
PNeighbor(c)    == pneighbors[c][pidx[c]]

PHolds(c) ==
  /\ ppc[c] # "call" => pown[c] \in Ids
  /\ ppc[c] = "range" => pidx[c] > 0
  /\ PAtNeighbor(c) => pidx[c] \in 1 .. Len(pneighbors[c])
  /\ PHasNeighbor(c) => pneighbor[c] \in Ids
  /\ ppc[c] = "reread" => pnodes[PNeighbor(c)] # -1

PTypes == PTypeOK /\ \A c \in Ids : PHolds(c)

(* The table was made once; nothing is in it before.                         *)
POnce == Cardinality(pfirsts) <= 1

PUnmade ==
  /\ \A d \in pfirsts : ppc[d] = "done"
  /\ pfirsts = {} => \A d \in Ids : ppc[d] \in {"call", "first"} /\ pnodes[d] = -1

(* The ids there is a vertex for; the calls whose vertex is in the table for good. *)
PTable == {v \in Ids : pnodes[v] # -1}
PStored(c) == ppc[c] \notin {"call", "first", "max", "store"}

(* As long as the table was made once, whatever is referred to is in it,     *)
(* with the vertex of every call that has stored it.                         *)
PStoredStay  == \A d \in Ids : PStored(d) => pnodes[d] = pown[d]
PMakesNew    == \A d \in Ids : ppc[d] = "make" => ~PStored(PNeighbor(d))
PNeighborsIn == \A d \in Ids : PHasNeighbor(d) => PNeighbor(d) \in PTable
PListsIn     == \A v, m \in Ids, l \in Levels : Elements(pconnections[v][m][l]) \subseteq PTable
PSnapshotsIn == \A d \in Ids : Elements(psnapshot[d]) \subseteq PTable
PChosenIn    == \A d \in Ids, l \in Levels : Elements(pchosen[d][l]) \subseteq PTable
PRangesIn    == \A d \in pinserts : ppc[d] = "range" \/ PAtNeighbor(d) =>
                                   Elements(pneighbors[d]) \subseteq PTable
PEntryIn     == pfirsts # {} => pentryPointID \in PTable
PNoPanic     == \A d \in Ids : ppc[d] # "panic"

PSound == /\ PStoredStay /\ PMakesNew /\ PNeighborsIn /\ PListsIn /\ PSnapshotsIn
          /\ PChosenIn /\ PRangesIn /\ PEntryIn /\ PNoPanic

(* A hook is started by an insertion that is about to return, and what is    *)
(* not the call of a job is that of a hook.                                  *)
PJobs ==
  /\ phooked \subseteq pinserts
  /\ \A d \in phooked : ppc[d] \in {"publish", "done"}
  /\ \A d \in Ids \ pinserts : ppc[d] # "call" => d \in shooked

(* The level of a vertex is the one it was given in the graph it was         *)
(* inserted into, and the entry point has the maximum layer.                 *)
PLevels ==
  /\ \A d \in pinserts : ppc[d] # "call" => pown[d] = d
  /\ \A d \in shooked \ pfirsts : ppc[d] \notin {"call", "first"} =>
       plevelOf[d][pown[d]] = slevelOf[d][d]
  /\ POnce /\ pfirsts # {} =>
       /\ pentryPointID \in Ids /\ PStored(pentryPointID)
       /\ plevelOf[pentryPointID][pown[pentryPointID]] = pcurrentMaximumLayer

(* A vertex that is not the first of a graph is linked on level 0 once its   *)
(* call is past that level, or has linked it with the first neighbor there.  *)
PPast0(d) == ppc[d] \in {"raise", "publish", "done"}
PAt0(d)   == player[d] = 0 /\ (ppc[d] = "range" \/ PAtNeighbor(d))
PLinked0(d) ==
  \/ PPast0(d)
  \/ PAt0(d) /\ (pidx[d] > 1 \/ ppc[d] \in {"count", "prune"})

PFilled ==
  /\ \A d \in Ids : ppc[d] = "prune" => psnapshot[d] # <<>>
  /\ \A d \in Ids \ (pfirsts \cup sfirsts) :
       /\ PAt0(d) => pneighbors[d] # <<>>
       /\ d \in pinserts /\ (PPast0(d) \/ PAt0(d)) => pchosen[d][0] # <<>>
       /\ PLinked0(d) => pconnections[d][pown[d]][0] # <<>>

(* All of these.                                                             *)
PHalf ==
  /\ PTypes /\ PUnmade /\ (POnce => PSound)
  /\ PJobs /\ PLevels /\ PFilled

-------------------------------------------------------------------------------
(* The secondary graph and its calls.                                        *)
(* Types, and ...                                                            *)
STypeOK ==
  /\ snodes \in [Ids -> Ids \cup {-1}]
  /\ sentryPointID \in Ids
  /\ scurrentMaximumLayer \in Levels
  /\ slevelOf \in [Ids -> [Ids -> Levels]]
  /\ sconnections \in Tables
  /\ sfirsts \subseteq Ids
  /\ spc \in [Ids -> {"call", "first", "max", "store", "level", "range", "make", "reread",
                      "link", "linkSelf", "count", "prune", "raise", "publish", "done",
                      "panic"}]
  /\ sown \in [Ids -> Ids \cup {-1}]
  /\ slayer \in [Ids -> Levels]
  /\ sneighbors \in [Ids -> Seq(Ids)]
  /\ sidx \in [Ids -> Nat]
  /\ sneighbor \in [Ids -> Ids \cup {-1}]
  /\ ssnapshot \in [Ids -> Seq(Ids)]
  /\ sinserts \subseteq Ids /\ shooked \subseteq Ids
  /\ schosen \in [Ids -> [Levels -> Seq(Ids)]]

(* ... and what a call holds at a step that needs it.                        *)
SAtNeighbor(c)  == spc[c] \in {"make", "reread", "link", "linkSelf", "count", "prune"}
SHasNeighbor(c) == spc[c] \in {"link", "linkSelf", "count", "prune"}
SNeighbor(c)    == sneighbors[c][sidx[c]]

SHolds(c) ==
  /\ spc[c] # "call" => sown[c] \in Ids
  /\ spc[c] = "range" => sidx[c] > 0
  /\ SAtNeighbor(c) => sidx[c] \in 1 .. Len(sneighbors[c])
  /\ SHasNeighbor(c) => sneighbor[c] \in Ids
  /\ spc[c] = "reread" => snodes[SNeighbor(c)] # -1

STypes == STypeOK /\ \A c \in Ids : SHolds(c)

(* The table was made once; nothing is in it before.                         *)
SOnce == Cardinality(sfirsts) <= 1

SUnmade ==
  /\ \A d \in sfirsts : spc[d] = "done"
  /\ sfirsts = {} => \A d \in Ids : spc[d] \in {"call", "first"} /\ snodes[d] = -1

(* The ids there is a vertex for; the calls whose vertex is in the table for good. *)
STable == {v \in Ids : snodes[v] # -1}
SStored(c) == spc[c] \notin {"call", "first", "max", "store"}

(* As long as the table was made once, whatever is referred to is in it,     *)
(* with the vertex of every call that has stored it.                         *)
SStoredStay  == \A d \in Ids : SStored(d) => snodes[d] = sown[d]
SMakesNew    == \A d \in Ids : spc[d] = "make" => ~SStored(SNeighbor(d))
SNeighborsIn == \A d \in Ids : SHasNeighbor(d) => SNeighbor(d) \in STable
SListsIn     == \A v, m \in Ids, l \in Levels : Elements(sconnections[v][m][l]) \subseteq STable
SSnapshotsIn == \A d \in Ids : Elements(ssnapshot[d]) \subseteq STable
SChosenIn    == \A d \in Ids, l \in Levels : Elements(schosen[d][l]) \subseteq STable
SRangesIn    == \A d \in sinserts : spc[d] = "range" \/ SAtNeighbor(d) =>
                                   Elements(sneighbors[d]) \subseteq STable
SEntryIn     == sfirsts # {} => sentryPointID \in STable
SNoPanic     == \A d \in Ids : spc[d] # "panic"

SSound == /\ SStoredStay /\ SMakesNew /\ SNeighborsIn /\ SListsIn /\ SSnapshotsIn
          /\ SChosenIn /\ SRangesIn /\ SEntryIn /\ SNoPanic

(* A hook is started by an insertion that is about to return, and what is    *)
(* not the call of a job is that of a hook.                                  *)
SJobs ==
  /\ shooked \subseteq sinserts
  /\ \A d \in shooked : spc[d] \in {"publish", "done"}
  /\ \A d \in Ids \ sinserts : spc[d] # "call" => d \in phooked

(* The level of a vertex is the one it was given in the graph it was         *)
(* inserted into, and the entry point has the maximum layer.                 *)
SLevels ==
  /\ \A d \in sinserts : spc[d] # "call" => sown[d] = d
  /\ \A d \in phooked \ sfirsts : spc[d] \notin {"call", "first"} =>
       slevelOf[d][sown[d]] = plevelOf[d][d]
  /\ SOnce /\ sfirsts # {} =>
       /\ sentryPointID \in Ids /\ SStored(sentryPointID)
       /\ slevelOf[sentryPointID][sown[sentryPointID]] = scurrentMaximumLayer

(* A vertex that is not the first of a graph is linked on level 0 once its   *)
(* call is past that level, or has linked it with the first neighbor there.  *)
SPast0(d) == spc[d] \in {"raise", "publish", "done"}
SAt0(d)   == slayer[d] = 0 /\ (spc[d] = "range" \/ SAtNeighbor(d))
SLinked0(d) ==
  \/ SPast0(d)
  \/ SAt0(d) /\ (sidx[d] > 1 \/ spc[d] \in {"count", "prune"})

SFilled ==
  /\ \A d \in Ids : spc[d] = "prune" => ssnapshot[d] # <<>>
  /\ \A d \in Ids \ (sfirsts \cup pfirsts) :
       /\ SAt0(d) => sneighbors[d] # <<>>
       /\ d \in sinserts /\ (SPast0(d) \/ SAt0(d)) => schosen[d][0] # <<>>
       /\ SLinked0(d) => sconnections[d][sown[d]][0] # <<>>

(* All of these.                                                             *)
SHalf ==
  /\ STypes /\ SUnmade /\ (SOnce => SSound)
  /\ SJobs /\ SLevels /\ SFilled

-------------------------------------------------------------------------------
(* Of both: the jobs, each for one of the graphs.                            *)
JobsOK ==
  /\ jobs \in Nat
  /\ pinserts \cap sinserts = {}
  /\ \A c \in pinserts \cup sinserts : c < jobs

(* An id that no insertion has stored yet is in neither table.               *)
Unused(v) == (v \in pinserts => ~PStored(v)) /\ (v \in sinserts => ~SStored(v))

UnusedOut == POnce /\ SOnce => \A v \in Ids : Unused(v) => v \notin PTable \cup STable

(* What a call is linking is in one of the tables.                           *)
PNames == \A d \in Ids : ppc[d] = "range" \/ PAtNeighbor(d) =>
                          Elements(pneighbors[d]) \subseteq PTable \cup STable

SNames == \A d \in Ids : spc[d] = "range" \/ SAtNeighbor(d) =>
                          Elements(sneighbors[d]) \subseteq STable \cup PTable

(* The invariant.                                                            *)
Inv ==
  /\ JobsOK /\ PHalf /\ SHalf /\ UnusedOut
  /\ POnce /\ SOnce => PNames /\ SNames
===============================================================================
