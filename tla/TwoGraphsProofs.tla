--------------------------- MODULE TwoGraphsProofs ---------------------------
(*****************************************************************************)
(* Proofs about TwoGraphs, for every number of workers and of vertices, and  *)
(* every limit: what the two graphs promise each other.                      *)
(*                                                                           *)
(* A step is one of a call of one of the graphs.  First come the lemmas on   *)
(* what such a step does to the primary graph and to what holds of it, then  *)
(* the same ones for the secondary graph, with its variables: theorems of an *)
(* instance cannot be cited.  Then both are put together.                    *)
(*****************************************************************************)
EXTENDS TwoGraphsInvariant, FiniteSetTheorems, TLAPS

-------------------------------------------------------------------------------
(* Of the parameters, of lists and of the operators of the instances.        *)

(* The two instances share their parameters.                                 *)
LEMMA Shared ==
  /\ P!Ids = Ids /\ S!Ids = Ids /\ P!Levels = Levels /\ S!Levels = Levels
  /\ P!None = -1 /\ S!None = -1 /\ P!Unlinked = Unlinked /\ S!Unlinked = Unlinked
  /\ \A s : P!Elements(s) = Elements(s) /\ S!Elements(s) = Elements(s)
  /\ \A l : P!Limit(l) = Limit(l) /\ S!Limit(l) = Limit(l)
BY DEF Ids, P!Ids, S!Ids, Levels, P!Levels, S!Levels, P!None, S!None, Unlinked, P!Unlinked,
       S!Unlinked, Elements, P!Elements, S!Elements, Limit, P!Limit, S!Limit

(* Cardinality is the same in the instances.                                 *)
LEMMA Counting ==
  ASSUME NEW T
  PROVE  P!Cardinality(T) = Cardinality(T) /\ S!Cardinality(T) = Cardinality(T)
BY DEF P!Cardinality, S!Cardinality, Cardinality, P!IsFiniteSet, S!IsFiniteSet, IsFiniteSet

(* What is known of the parameters.                                          *)
LEMMA Parameters ==
  /\ 0 \in Ids /\ 0 \in Levels /\ -1 \notin Ids
  /\ \A l \in Levels : l > 0 => l - 1 \in Levels
  /\ \A a, b \in Levels : P!Lower(a, b) \in Levels /\ S!Lower(a, b) \in Levels
  /\ \A l \in Levels : Limit(l) \in Nat /\ Limit(l) > 0
  /\ Unlinked \in [Levels -> Seq(Ids)] /\ \A l \in Levels : Unlinked[l] = <<>>
<1>1. 0 \in Ids /\ 0 \in Levels /\ -1 \notin Ids
  BY NAssumption, LevelAssumption DEF Ids, Levels
<1>2. \A l \in Levels : l > 0 => l - 1 \in Levels
  BY LevelAssumption DEF Levels
<1>3. \A a, b \in Levels : P!Lower(a, b) \in Levels /\ S!Lower(a, b) \in Levels
  BY DEF P!Lower, S!Lower
<1>4. \A l \in Levels : Limit(l) \in Nat /\ Limit(l) > 0
  BY LimitAssumption DEF Limit
<1> QED
  BY <1>1, <1>2, <1>3, <1>4 DEF Unlinked

(* Sets of ids are finite.                                                   *)
LEMMA IdsFinite ==
  ASSUME NEW T, T \subseteq Ids
  PROVE  IsFiniteSet(T) /\ Cardinality(T) \in Nat
<1>1. IsFiniteSet(Ids)
  BY NAssumption, FS_Interval DEF Ids
<1> QED
  BY <1>1, FS_Subset, FS_CardinalityType

(* A list of the nearest of some ids holds some of them.                     *)
LEMMA NearestList ==
  ASSUME NEW T, T \subseteq Ids, NEW d, NEW n \in Nat, n > 0,
         NEW s, s \in P!Nearest(T, d, n) \/ s \in S!Nearest(T, d, n)
  PROVE  s \in Seq(Ids) /\ Elements(s) \subseteq T /\ (T # {} => s # <<>>)
<1>1. IsFiniteSet(T) /\ Cardinality(T) \in Nat
  BY IdsFinite
<1>2. PICK m \in Nat : m = (IF Cardinality(T) < n THEN Cardinality(T) ELSE n) /\ s \in [1 .. m -> T]
  BY <1>1, Counting DEF P!Nearest, S!Nearest
<1>3. s \in Seq(T) /\ Len(s) = m
  BY <1>2
<1>4. T # {} => m > 0
  BY <1>1, <1>2, FS_EmptySet
<1> QED
  BY <1>2, <1>3, <1>4 DEF Elements

(* The elements of a list.                                                   *)
LEMMA ElementsOf ==
  ASSUME NEW s \in Seq(Ids)
  PROVE  /\ Elements(s) \subseteq Ids /\ Elements(<<>>) = {}
         /\ s # <<>> => Elements(s) # {}
         /\ \A i \in 1 .. Len(s) : s[i] \in Elements(s) /\ s[i] \in Ids
         /\ \A e \in Ids : /\ Append(s, e) \in Seq(Ids) /\ Append(s, e) # <<>>
                           /\ Elements(Append(s, e)) = Elements(s) \cup {e}
<1>1. Elements(s) \subseteq Ids /\ Elements(<<>>) = {} /\ (s # <<>> => Elements(s) # {})
      /\ \A i \in 1 .. Len(s) : s[i] \in Elements(s) /\ s[i] \in Ids
  <2>1. s # <<>> => s[1] \in Elements(s)
    BY DEF Elements
  <2> QED
    BY <2>1 DEF Elements
<1>2. ASSUME NEW e \in Ids
      PROVE  /\ Append(s, e) \in Seq(Ids) /\ Append(s, e) # <<>>
             /\ Elements(Append(s, e)) = Elements(s) \cup {e}
  <2>1. /\ Append(s, e) \in Seq(Ids) /\ Len(Append(s, e)) = Len(s) + 1 /\ Len(s) \in Nat
        /\ Append(s, e)[Len(s) + 1] = e
        /\ \A i \in 1 .. Len(s) : Append(s, e)[i] = s[i]
    OBVIOUS
  <2>2. 1 .. Len(s) + 1 = 1 .. Len(s) \cup {Len(s) + 1}
    BY <2>1
  <2> QED
    BY <2>1, <2>2 DEF Elements
<1> QED
  BY <1>1, <1>2

(* One list of connections is replaced.                                      *)
LEMMA ReplaceList ==
  ASSUME NEW f \in Tables, NEW a \in Ids, NEW b \in Ids, NEW l \in Levels, NEW s \in Seq(Ids)
  PROVE  /\ [f EXCEPT ![a][b][l] = s] \in Tables
         /\ \A v, m \in Ids, i \in Levels :
              [f EXCEPT ![a][b][l] = s][v][m][i] =
                IF v = a /\ m = b /\ i = l THEN s ELSE f[v][m][i]
<1>1. [f EXCEPT ![a][b][l] = s] = [f EXCEPT ![a] = [f[a] EXCEPT ![b] = [f[a][b] EXCEPT ![l] = s]]]
  BY DEF Tables
<1>2. f[a] \in [Ids -> [Levels -> Seq(Ids)]] /\ f[a][b] \in [Levels -> Seq(Ids)]
  BY DEF Tables
<1> DEFINE g == [f[a][b] EXCEPT ![l] = s]
           h == [f[a] EXCEPT ![b] = g]
<1>3. g \in [Levels -> Seq(Ids)] /\ \A i \in Levels : g[i] = IF i = l THEN s ELSE f[a][b][i]
  BY <1>2
<1> HIDE DEF g
<1>4. h \in [Ids -> [Levels -> Seq(Ids)]] /\ \A m \in Ids : h[m] = IF m = b THEN g ELSE f[a][m]
  BY <1>2, <1>3
<1> HIDE DEF h
<1>5. [f EXCEPT ![a] = h] \in Tables /\ \A v \in Ids : [f EXCEPT ![a] = h][v] = IF v = a THEN h ELSE f[v]
  BY <1>4 DEF Tables
<1> QED
  BY <1>1, <1>3, <1>4, <1>5 DEF g, h

(* A list of connections that is read holds ids.                             *)
LEMMA ReadsList ==
  ASSUME NEW f \in Tables, NEW a \in Ids, NEW b \in Ids, NEW l \in Levels
  PROVE  f[a][b][l] \in Seq(Ids)
<1>1. f[a] \in [Ids -> [Levels -> Seq(Ids)]]
  BY DEF Tables
<1>2. f[a][b] \in [Levels -> Seq(Ids)]
  BY <1>1
<1> QED
  BY <1>2

(* A list that is put in the place of another leaves the lists of level 0    *)
(* nonempty.                                                                 *)
LEMMA FilledIn ==
  ASSUME NEW f \in Tables, NEW a \in Ids, NEW b \in Ids, NEW l \in Levels,
         NEW s \in Seq(Ids), s # <<>>, NEW v \in Ids, NEW m \in Ids
  PROVE  /\ f[v][m][0] # <<>> => [f EXCEPT ![a][b][l] = s][v][m][0] # <<>>
         /\ l = 0 => [f EXCEPT ![a][b][l] = s][a][b][0] # <<>>
<1>1. [f EXCEPT ![a][b][l] = s] = [f EXCEPT ![a] = [f[a] EXCEPT ![b] = [f[a][b] EXCEPT ![l] = s]]]
  BY DEF Tables
<1>2. /\ f[a] \in [Ids -> [Levels -> Seq(Ids)]] /\ f[a][b] \in [Levels -> Seq(Ids)]
      /\ 0 \in Levels
  BY Parameters DEF Tables
<1> DEFINE g == [f[a][b] EXCEPT ![l] = s]
           h == [f[a] EXCEPT ![b] = g]
<1>3. g \in [Levels -> Seq(Ids)] /\ g[0] = IF 0 = l THEN s ELSE f[a][b][0]
  BY <1>2
<1> HIDE DEF g
<1>4. h \in [Ids -> [Levels -> Seq(Ids)]] /\ h[m] = (IF m = b THEN g ELSE f[a][m]) /\ h[b] = g
  BY <1>2, <1>3
<1> HIDE DEF h
<1>5. [f EXCEPT ![a] = h][v] = (IF v = a THEN h ELSE f[v]) /\ [f EXCEPT ![a] = h][a] = h
  BY <1>4 DEF Tables
<1>6. f[v][m][0] # <<>> => [f EXCEPT ![a] = h][v][m][0] # <<>>
  BY <1>3, <1>4, <1>5
<1>7. l = 0 => [f EXCEPT ![a] = h][a][b][0] # <<>>
  BY <1>3, <1>4, <1>5
<1> QED
  BY <1>1, <1>6, <1>7 DEF g, h

(* A list of vertices of a set that is put in the place of another.          *)
LEMMA ReplacedIn ==
  ASSUME NEW f \in Tables, NEW T, \A v, m \in Ids, i \in Levels : Elements(f[v][m][i]) \subseteq T,
         NEW a \in Ids, NEW b \in Ids, NEW l \in Levels,
         NEW s \in Seq(Ids), Elements(s) \subseteq T
  PROVE  \A v, m \in Ids, i \in Levels : Elements([f EXCEPT ![a][b][l] = s][v][m][i]) \subseteq T
BY ReplaceList

-------------------------------------------------------------------------------
(* The primary graph: what a step of one of its calls is...                  *)
(* What the primary graph's calls are handed.                                *)
PHook == [c \in Ids |-> Arguments(c, pinserts, plevelOf, pchosen, shooked, slevelOf, schosen,
                                  sfirsts, sconnections)]

(* A step of a call of the primary graph.                                    *)
PStep(c) ==
  \/ c \in pinserts /\ P!Insert(c)
  \/ c \notin pinserts /\ P!InsertFromExternal(c) /\ UNCHANGED <<pchosen, phooked>>

(* What an insertion may choose.                                             *)
PChoices == {s \in Seq(Ids) : s # <<>> /\ Elements(s) \subseteq PTable}

(* The moves of a call, as far as its own locals are concerned.              *)
PSameList(c) == /\ pneighbors'[c] = pneighbors[c] /\ pidx'[c] = pidx[c]
                /\ player'[c] = player[c]

PNeighborIs(c, m) == pneighbor'[c] = m /\ m = pnodes[PNeighbor(c)]

PBegins(c) ==
  \/ ppc[c] = "call" /\ ppc'[c] \in {"first", "max"} /\ (c \in pinserts \/ c \in shooked) /\ PSameList(c)
  \/ ppc[c] = "first" /\ ppc'[c] = "done" /\ PSameList(c)
  \/ /\ ppc[c] = "max" /\ ppc'[c] = "store" /\ player'[c] \in Levels
     /\ pneighbors'[c] = pneighbors[c] /\ pidx'[c] = pidx[c]
  \/ ppc[c] = "store" /\ ppc'[c] = "level" /\ PSameList(c)

PRanges(c) ==
  \/ /\ ppc[c] = "level" /\ ppc'[c] = "range" /\ pidx'[c] = 1 /\ player'[c] = player[c]
     /\ IF c \in pinserts
        THEN pneighbors'[c] \in PChoices /\ pchosen'[c] = [pchosen[c] EXCEPT ![player[c]] = pneighbors'[c]]
        ELSE pneighbors'[c] = PHook[c].neighbors[player[c]]
  \/ /\ ppc[c] = "range" /\ ppc'[c] = "level" /\ player[c] > 0 /\ player'[c] = player[c] - 1
     /\ pidx[c] > Len(pneighbors[c])
     /\ pneighbors'[c] = pneighbors[c] /\ pidx'[c] = pidx[c]
  \/ /\ ppc[c] = "range" /\ ppc'[c] = "raise" /\ player[c] = 0
     /\ pidx[c] > Len(pneighbors[c]) /\ PSameList(c)
  \/ /\ ppc[c] = "range" /\ pidx[c] <= Len(pneighbors[c]) /\ PSameList(c)
     /\ \/ ppc'[c] = "link" /\ pnodes[PNeighbor(c)] # -1 /\ PNeighborIs(c, pneighbor'[c])
        \/ ppc'[c] = "make" /\ pnodes[PNeighbor(c)] = -1 /\ c \notin pinserts
        \/ ppc'[c] = "panic" /\ pnodes[PNeighbor(c)] = -1 /\ c \in pinserts

PLinks(c) ==
  \/ ppc[c] = "make" /\ ppc'[c] = "reread" /\ PSameList(c)
  \/ ppc[c] = "reread" /\ ppc'[c] = "link" /\ PSameList(c) /\ PNeighborIs(c, pneighbor'[c])
  \/ ppc[c] = "link" /\ ppc'[c] = "linkSelf" /\ PSameList(c) /\ pneighbor'[c] = pneighbor[c]
  \/ ppc[c] = "linkSelf" /\ ppc'[c] = "count" /\ PSameList(c) /\ pneighbor'[c] = pneighbor[c]
  \/ /\ ppc[c] = "count" /\ ppc'[c] = "prune" /\ PSameList(c) /\ pneighbor'[c] = pneighbor[c]
     /\ Len(pconnections[PNeighbor(c)][pneighbor[c]][player[c]]) > Limit(player[c])
     /\ psnapshot'[c] = pconnections[PNeighbor(c)][pneighbor[c]][player[c]]
  \/ /\ ppc[c] \in {"count", "prune"} /\ ppc'[c] = "range" /\ pidx'[c] = pidx[c] + 1
     /\ pneighbors'[c] = pneighbors[c] /\ player'[c] = player[c]

PEnds(c) ==
  \/ /\ ppc[c] = "raise" /\ ppc'[c] \in {"publish", "done"}
     /\ pneighbors'[c] = <<>> /\ pidx'[c] = 0 /\ player'[c] = player[c]
  \/ ppc[c] = "publish" /\ ppc'[c] = "done" /\ PSameList(c)

PMove(c) == PBegins(c) \/ PRanges(c) \/ PLinks(c) \/ PEnds(c)

(* ... and the same for the secondary one.                                   *)
(* What the secondary graph's calls are handed.                              *)
SHook == [c \in Ids |-> Arguments(c, sinserts, slevelOf, schosen, phooked, plevelOf, pchosen,
                                  pfirsts, pconnections)]

(* A step of a call of the secondary graph.                                  *)
SStep(c) ==
  \/ c \in sinserts /\ S!Insert(c)
  \/ c \notin sinserts /\ S!InsertFromExternal(c) /\ UNCHANGED <<schosen, shooked>>

(* What an insertion may choose.                                             *)
SChoices == {s \in Seq(Ids) : s # <<>> /\ Elements(s) \subseteq STable}

(* The moves of a call, as far as its own locals are concerned.              *)
SSameList(c) == /\ sneighbors'[c] = sneighbors[c] /\ sidx'[c] = sidx[c]
                /\ slayer'[c] = slayer[c]

SNeighborIs(c, m) == sneighbor'[c] = m /\ m = snodes[SNeighbor(c)]

SBegins(c) ==
  \/ spc[c] = "call" /\ spc'[c] \in {"first", "max"} /\ (c \in sinserts \/ c \in phooked) /\ SSameList(c)
  \/ spc[c] = "first" /\ spc'[c] = "done" /\ SSameList(c)
  \/ /\ spc[c] = "max" /\ spc'[c] = "store" /\ slayer'[c] \in Levels
     /\ sneighbors'[c] = sneighbors[c] /\ sidx'[c] = sidx[c]
  \/ spc[c] = "store" /\ spc'[c] = "level" /\ SSameList(c)

SRanges(c) ==
  \/ /\ spc[c] = "level" /\ spc'[c] = "range" /\ sidx'[c] = 1 /\ slayer'[c] = slayer[c]
     /\ IF c \in sinserts
        THEN sneighbors'[c] \in SChoices /\ schosen'[c] = [schosen[c] EXCEPT ![slayer[c]] = sneighbors'[c]]
        ELSE sneighbors'[c] = SHook[c].neighbors[slayer[c]]
  \/ /\ spc[c] = "range" /\ spc'[c] = "level" /\ slayer[c] > 0 /\ slayer'[c] = slayer[c] - 1
     /\ sidx[c] > Len(sneighbors[c])
     /\ sneighbors'[c] = sneighbors[c] /\ sidx'[c] = sidx[c]
  \/ /\ spc[c] = "range" /\ spc'[c] = "raise" /\ slayer[c] = 0
     /\ sidx[c] > Len(sneighbors[c]) /\ SSameList(c)
  \/ /\ spc[c] = "range" /\ sidx[c] <= Len(sneighbors[c]) /\ SSameList(c)
     /\ \/ spc'[c] = "link" /\ snodes[SNeighbor(c)] # -1 /\ SNeighborIs(c, sneighbor'[c])
        \/ spc'[c] = "make" /\ snodes[SNeighbor(c)] = -1 /\ c \notin sinserts
        \/ spc'[c] = "panic" /\ snodes[SNeighbor(c)] = -1 /\ c \in sinserts

SLinks(c) ==
  \/ spc[c] = "make" /\ spc'[c] = "reread" /\ SSameList(c)
  \/ spc[c] = "reread" /\ spc'[c] = "link" /\ SSameList(c) /\ SNeighborIs(c, sneighbor'[c])
  \/ spc[c] = "link" /\ spc'[c] = "linkSelf" /\ SSameList(c) /\ sneighbor'[c] = sneighbor[c]
  \/ spc[c] = "linkSelf" /\ spc'[c] = "count" /\ SSameList(c) /\ sneighbor'[c] = sneighbor[c]
  \/ /\ spc[c] = "count" /\ spc'[c] = "prune" /\ SSameList(c) /\ sneighbor'[c] = sneighbor[c]
     /\ Len(sconnections[SNeighbor(c)][sneighbor[c]][slayer[c]]) > Limit(slayer[c])
     /\ ssnapshot'[c] = sconnections[SNeighbor(c)][sneighbor[c]][slayer[c]]
  \/ /\ spc[c] \in {"count", "prune"} /\ spc'[c] = "range" /\ sidx'[c] = sidx[c] + 1
     /\ sneighbors'[c] = sneighbors[c] /\ slayer'[c] = slayer[c]

SEnds(c) ==
  \/ /\ spc[c] = "raise" /\ spc'[c] \in {"publish", "done"}
     /\ sneighbors'[c] = <<>> /\ sidx'[c] = 0 /\ slayer'[c] = slayer[c]
  \/ spc[c] = "publish" /\ spc'[c] = "done" /\ SSameList(c)

SMove(c) == SBegins(c) \/ SRanges(c) \/ SLinks(c) \/ SEnds(c)

-------------------------------------------------------------------------------
(* What a step of call c of the primary graph changes, variable by variable. *)

(* What a call is handed has the types it is used with.                      *)
LEMMA PHookIs ==
  ASSUME PTypeOK, STypeOK, NEW c \in Ids
  PROVE  /\ PHook[c].sent => c \notin pinserts /\ c \in shooked
         /\ PHook[c].target = IF c \in pinserts THEN plevelOf[c][c] ELSE slevelOf[c][c]
         /\ PHook[c].target \in Levels
         /\ PHook[c].neighbors = IF c \in pinserts THEN pchosen[c]
                                 ELSE IF c \in sfirsts THEN sconnections[c][c] ELSE schosen[c]
         /\ PHook[c].neighbors \in [Levels -> Seq(Ids)]
<1>1. PHook[c] = Arguments(c, pinserts, plevelOf, pchosen, shooked, slevelOf, schosen,
                           sfirsts, sconnections)
  BY DEF PHook
<1>2. /\ plevelOf[c][c] \in Levels /\ slevelOf[c][c] \in Levels
      /\ pchosen[c] \in [Levels -> Seq(Ids)] /\ schosen[c] \in [Levels -> Seq(Ids)]
      /\ sconnections[c][c] \in [Levels -> Seq(Ids)]
  <2>1. /\ plevelOf \in [Ids -> [Ids -> Levels]] /\ slevelOf \in [Ids -> [Ids -> Levels]]
        /\ pchosen \in [Ids -> [Levels -> Seq(Ids)]] /\ schosen \in [Ids -> [Levels -> Seq(Ids)]]
        /\ sconnections \in [Ids -> [Ids -> [Levels -> Seq(Ids)]]]
    BY DEF PTypeOK, STypeOK, Tables
  <2> QED
    BY <2>1
<1>3. CASE c \in pinserts
  <2>1. PHook[c] = [sent |-> FALSE, target |-> plevelOf[c][c], neighbors |-> pchosen[c],
                    live |-> FALSE]
    BY <1>1, <1>3 DEF Arguments
  <2> QED
    BY <1>2, <1>3, <2>1
<1>4. CASE c \notin pinserts
  <2> DEFINE there == IF c \in sfirsts THEN sconnections[c][c] ELSE schosen[c]
  <2>1. PHook[c] = [sent |-> c \in shooked, target |-> slevelOf[c][c],
                    neighbors |-> there, live |-> c \in sfirsts]
    BY <1>1, <1>4 DEF Arguments
  <2>2. there \in [Levels -> Seq(Ids)]
    BY <1>2
  <2> HIDE DEF there
  <2>3. PHook[c].sent => c \in shooked
    <3> SUFFICES ASSUME c \notin shooked PROVE ~PHook[c].sent
      OBVIOUS
    <3>1. (c \in shooked) = FALSE
      OBVIOUS
    <3>2. PHook[c] = [sent |-> FALSE, target |-> slevelOf[c][c],
                      neighbors |-> there, live |-> c \in sfirsts]
      BY <2>1, <3>1, Zenon
    <3> QED
      BY <3>2
  <2>4. PHook[c].target = slevelOf[c][c] /\ PHook[c].neighbors = there
    BY <2>1
  <2> QED
    BY <1>2, <1>4, <2>2, <2>3, <2>4 DEF there
<1> QED
  BY <1>3, <1>4

(* The locals of the other calls are left alone.                             *)
LEMMA PElsewhere ==
  ASSUME PTypeOK, NEW c \in Ids, PStep(c), NEW d \in Ids, d # c
  PROVE  /\ ppc'[d] = ppc[d] /\ pown'[d] = pown[d] /\ player'[d] = player[d]
         /\ pneighbors'[d] = pneighbors[d] /\ pidx'[d] = pidx[d]
         /\ pneighbor'[d] = pneighbor[d] /\ psnapshot'[d] = psnapshot[d]
         /\ pchosen'[d] = pchosen[d] /\ (d \in phooked' <=> d \in phooked)
BY ZenonT(60) DEF PTypeOK, PStep, P!Insert, P!InsertFromExternal, P!InsertAsExternal,
         P!Lookup, P!First, P!ReadMaximumLayer, P!Store, P!EnterLevel, P!NextLevel,
         P!FindNeighbor, P!MakePlaceholder, P!RereadPlaceholder, P!LinkNeighbor,
         P!LinkSelf, P!CountNeighbor, P!NextNeighbor, P!Prune, P!CheckMaximumLayer,
         P!Publish, P!InsertReadTotal, P!InsertFirst, P!InsertReadMaximumLayer,
         P!SelectNeighbors, P!InsertFindNeighbor, P!InsertPanic,
         P!InsertCheckMaximumLayer, P!graph

(* The table changes in three ways.                                          *)
LEMMA PNodesChange ==
  ASSUME PTypeOK, NEW c \in Ids, PStep(c)
  PROVE  \/ pnodes' = pnodes /\ pfirsts' = pfirsts
         \/ /\ ppc[c] = "first" /\ ppc'[c] = "done"
            /\ \A d \in Ids : ppc[d] \notin {"make", "reread"}
            /\ pnodes' = [v \in Ids |-> IF v = c THEN pown[c] ELSE -1]
            /\ pfirsts' = pfirsts \cup {c}
         \/ /\ ppc[c] = "store" /\ ppc'[c] = "level"
            /\ \A d \in Ids : ppc[d] \notin {"make", "reread"}
            /\ pnodes' = [pnodes EXCEPT ![c] = pown[c]] /\ pfirsts' = pfirsts
         \/ /\ ppc[c] = "make" /\ ppc'[c] = "reread"
            /\ pnodes' = [pnodes EXCEPT ![PNeighbor(c)] = c] /\ pfirsts' = pfirsts
<1> USE Shared DEF PTypeOK
<1>1. CASE P!First(c)
  BY <1>1 DEF P!First, P!Readers
<1>2. CASE P!Store(c)
  BY <1>2 DEF P!Store, P!Readers
<1>3. CASE P!MakePlaceholder(c)
  BY <1>3, SMTT(30) DEF P!MakePlaceholder, P!Neighbor, PNeighbor
<1>4. CASE ~P!First(c) /\ ~P!Store(c) /\ ~P!MakePlaceholder(c)
  BY <1>4, Zenon DEF PStep, P!Insert, P!InsertFromExternal, P!InsertAsExternal,
         P!Lookup, P!ReadMaximumLayer, P!EnterLevel, P!NextLevel,
         P!FindNeighbor, P!RereadPlaceholder, P!LinkNeighbor,
         P!LinkSelf, P!CountNeighbor, P!NextNeighbor, P!Prune, P!CheckMaximumLayer,
         P!Publish, P!InsertReadTotal, P!InsertFirst, P!InsertReadMaximumLayer,
         P!SelectNeighbors, P!InsertFindNeighbor, P!InsertPanic,
         P!InsertCheckMaximumLayer, P!graph
<1> QED
  BY <1>1, <1>2, <1>3, <1>4

(* Lists of connections.                                                     *)
LEMMA PListsChange ==
  ASSUME PTypes, NEW c \in Ids, PStep(c)
  PROVE  \/ pconnections' = pconnections
         \/ /\ ppc[c] = "first" /\ pown[c] \in Ids
            /\ pconnections' = [pconnections EXCEPT ![c][pown[c]] = Unlinked]
         \/ /\ ppc[c] = "link" /\ ppc'[c] = "linkSelf" /\ pneighbor[c] \in Ids /\ PNeighbor(c) \in Ids
            /\ pconnections' = [pconnections EXCEPT
                 ![PNeighbor(c)][pneighbor[c]][player[c]] =
                    Append(pconnections[PNeighbor(c)][pneighbor[c]][player[c]], c)]
         \/ /\ ppc[c] = "linkSelf" /\ ppc'[c] = "count" /\ pown[c] \in Ids /\ PNeighbor(c) \in Ids
            /\ pconnections' = [pconnections EXCEPT
                 ![c][pown[c]][player[c]] =
                    Append(pconnections[c][pown[c]][player[c]], PNeighbor(c))]
         \/ /\ ppc[c] = "prune" /\ ppc'[c] = "range" /\ pneighbor[c] \in Ids /\ PNeighbor(c) \in Ids
            /\ \E s \in P!Nearest(Elements(psnapshot[c]), Dist[c], Limit(player[c])) :
                 pconnections' = [pconnections EXCEPT
                    ![PNeighbor(c)][pneighbor[c]][player[c]] = s]
<1> USE Shared
<1>0. ppc[c] # "call" => pown[c] \in Ids
  BY DEF PTypes, PHolds
<1>n. PHasNeighbor(c) => pneighbor[c] \in Ids /\ PNeighbor(c) \in Ids
  <2>1. PHolds(c) /\ pneighbors[c] \in Seq(Ids)
    BY DEF PTypes, PTypeOK
  <2> QED
    BY <2>1 DEF PHolds, PHasNeighbor, PAtNeighbor, PNeighbor
<1>p. ASSUME NEW x, ppc' = [ppc EXCEPT ![c] = x]
      PROVE  ppc'[c] = x
  BY <1>p DEF PTypes, PTypeOK
<1>1. CASE P!First(c)
  BY <1>0, <1>1, SMTT(30) DEF P!First
<1>2. CASE P!LinkNeighbor(c)
  BY <1>n, <1>p, <1>2, Zenon DEF P!LinkNeighbor, P!Neighbor, PNeighbor, PHasNeighbor
<1>3. CASE P!LinkSelf(c)
  BY <1>0, <1>n, <1>p, <1>3, ZenonT(60) DEF P!LinkSelf, P!Neighbor, PNeighbor, PHasNeighbor
<1>4. CASE P!Prune(c)
  BY <1>n, <1>p, <1>4, Zenon DEF P!Prune, P!NextNeighbor, P!Neighbor, PNeighbor, PHasNeighbor
<1>5. CASE ~P!First(c) /\ ~P!LinkNeighbor(c) /\ ~P!LinkSelf(c) /\ ~P!Prune(c)
  BY <1>5, Zenon DEF PStep, P!Insert, P!InsertFromExternal, P!InsertAsExternal,
         P!Lookup, P!ReadMaximumLayer, P!Store, P!EnterLevel, P!NextLevel,
         P!FindNeighbor, P!MakePlaceholder, P!RereadPlaceholder, P!CountNeighbor, P!NextNeighbor, P!CheckMaximumLayer,
         P!Publish, P!InsertReadTotal, P!InsertFirst, P!InsertReadMaximumLayer,
         P!SelectNeighbors, P!InsertFindNeighbor, P!InsertPanic,
         P!InsertCheckMaximumLayer, P!graph
<1> QED
  BY <1>1, <1>2, <1>3, <1>4, <1>5

(* Levels.                                                                   *)
LEMMA PLevelsChange ==
  ASSUME PTypes, STypeOK, NEW c \in Ids, PStep(c)
  PROVE  \/ plevelOf' = plevelOf
         \/ /\ ppc[c] = "call" /\ c \in shooked /\ c \notin pinserts
            /\ \E m \in Ids : m = pown'[c] /\ plevelOf' = [plevelOf EXCEPT ![c][m] = slevelOf[c][c]]
         \/ /\ ppc[c] = "first" /\ pown[c] \in Ids
            /\ plevelOf' = [plevelOf EXCEPT ![c][pown[c]] = 0]
         \/ /\ ppc[c] = "max" /\ c \in pinserts
            /\ \E l \in Levels : plevelOf' = [plevelOf EXCEPT ![c][c] = l]
<1> USE Shared
<1>0. ppc[c] # "call" => pown[c] \in Ids
  BY DEF PTypes, PHolds
<1>1. CASE P!Lookup(c) /\ c \notin pinserts
  <2>1. PHook[c].sent /\ c \notin pinserts /\ c \in shooked /\ PHook[c].target = slevelOf[c][c]
    BY <1>1, PHookIs DEF P!Lookup, PHook, PTypes
  <2> DEFINE m == IF pnodes[c] = -1 THEN c ELSE pnodes[c]
  <2>2. /\ ppc[c] = "call" /\ pown' = [pown EXCEPT ![c] = m]
        /\ plevelOf' = [plevelOf EXCEPT ![c][m] = PHook[c].target]
    BY <1>1 DEF P!Lookup, PHook
  <2>3. m \in Ids /\ pown'[c] = m
    BY <2>2 DEF PTypes, PTypeOK
  <2> HIDE DEF m
  <2> QED
    BY <2>1, <2>2, <2>3
<1>2. CASE P!First(c)
  BY <1>0, <1>2 DEF P!First
<1>3. CASE P!InsertReadMaximumLayer(c) /\ c \in pinserts
  BY <1>3, Zenon DEF P!InsertReadMaximumLayer
<1>4. CASE ~P!First(c) /\ ~P!InsertReadMaximumLayer(c) /\ ~P!Lookup(c)
  BY <1>4, Zenon DEF PStep, P!Insert, P!InsertFromExternal, P!InsertAsExternal,
         P!ReadMaximumLayer, P!Store, P!EnterLevel, P!NextLevel,
         P!FindNeighbor, P!MakePlaceholder, P!RereadPlaceholder, P!LinkNeighbor,
         P!LinkSelf, P!CountNeighbor, P!NextNeighbor, P!Prune, P!CheckMaximumLayer,
         P!Publish, P!InsertReadTotal, P!InsertFirst, P!SelectNeighbors, P!InsertFindNeighbor, P!InsertPanic,
         P!InsertCheckMaximumLayer, P!graph
<1> QED
  BY <1>1, <1>2, <1>3, <1>4, Zenon DEF PStep, P!Insert, P!InsertFromExternal, P!InsertAsExternal,
     P!InsertFirst, P!Store, P!NextLevel, P!LinkNeighbor, P!LinkSelf, P!CountNeighbor, P!Prune,
     P!Publish, P!InsertReadTotal, P!SelectNeighbors, P!InsertFindNeighbor, P!FindNeighbor,
     P!InsertPanic, P!InsertCheckMaximumLayer, P!CheckMaximumLayer, P!EnterLevel,
     P!ReadMaximumLayer, P!MakePlaceholder, P!RereadPlaceholder, P!graph

(* The entry point and the maximum layer.                                    *)
LEMMA PTopChange ==
  ASSUME PTypes, STypeOK, NEW c \in Ids, PStep(c)
  PROVE  \/ UNCHANGED <<pentryPointID, pcurrentMaximumLayer>>
         \/ ppc[c] = "first" /\ pentryPointID' = c /\ pcurrentMaximumLayer' = 0
         \/ /\ ppc[c] = "publish" /\ pentryPointID' = c
            /\ pcurrentMaximumLayer' = IF c \in pinserts THEN plevelOf[c][c] ELSE slevelOf[c][c]
<1>1. CASE P!First(c)
  BY <1>1 DEF P!First
<1>2. CASE P!Publish(c)
  <2>1. ppc[c] = "publish" /\ pentryPointID' = c /\ pcurrentMaximumLayer' = PHook[c].target
    BY <1>2, Shared, SMTT(30) DEF P!Publish, PHook
  <2> QED
    BY <2>1, PHookIs DEF PTypes
<1>3. CASE ~P!First(c) /\ ~P!Publish(c)
  BY <1>3, Zenon DEF PStep, P!Insert, P!InsertFromExternal, P!InsertAsExternal,
         P!Lookup, P!ReadMaximumLayer, P!Store, P!EnterLevel, P!NextLevel,
         P!FindNeighbor, P!MakePlaceholder, P!RereadPlaceholder, P!LinkNeighbor,
         P!LinkSelf, P!CountNeighbor, P!NextNeighbor, P!Prune, P!CheckMaximumLayer,
         P!InsertReadTotal, P!InsertFirst, P!InsertReadMaximumLayer,
         P!SelectNeighbors, P!InsertFindNeighbor, P!InsertPanic,
         P!InsertCheckMaximumLayer, P!graph
<1> QED
  BY <1>1, <1>2, <1>3

(* A choice is a list of vertices that are in the table.                     *)
LEMMA PChoicesAre ==
  ASSUME PTypeOK
  PROVE  P!Choices \subseteq PChoices
<1> SUFFICES ASSUME NEW s \in P!Choices PROVE s \in PChoices
  OBVIOUS
<1>1. PICK n \in 1 .. maximumConnections : s \in [1 .. n -> PTable]
  BY Shared DEF P!Choices, PTable
<1>2. n \in Nat /\ n > 0
  BY LimitAssumption
<1>3. s \in Seq(PTable) /\ Len(s) = n /\ PTable \subseteq Ids
  BY <1>1, <1>2 DEF PTable
<1>4. s # <<>> /\ Elements(s) \subseteq PTable
  BY <1>1, <1>2, <1>3 DEF Elements
<1> QED
  BY <1>3, <1>4 DEF PChoices

(* Every step is one of these moves.                                         *)
LEMMA PMoves ==
  ASSUME PTypes, STypeOK, NEW c \in Ids, PStep(c)
  PROVE  PMove(c)
<1> USE Shared
<1>a. /\ \A x : ppc' = [ppc EXCEPT ![c] = x] => ppc'[c] = x
      /\ \A x : pidx' = [pidx EXCEPT ![c] = x] => pidx'[c] = x
      /\ \A x : player' = [player EXCEPT ![c] = x] => player'[c] = x
      /\ \A x : pneighbors' = [pneighbors EXCEPT ![c] = x] => pneighbors'[c] = x
      /\ \A x : pneighbor' = [pneighbor EXCEPT ![c] = x] => pneighbor'[c] = x
      /\ \A x : psnapshot' = [psnapshot EXCEPT ![c] = x] => psnapshot'[c] = x
  BY DEF PTypes, PTypeOK
<1>b. player[c] \in Levels /\ pcurrentMaximumLayer \in Levels /\ PHook[c].target \in Levels
      /\ pneighbors[c] \in Seq(Ids) /\ pidx[c] \in Nat /\ player[c] \in Nat
  <2>1. PTypeOK /\ PHook[c].target \in Levels
    BY PHookIs DEF PTypes
  <2> QED
    BY <2>1 DEF PTypeOK, Levels
<1>1. CASE P!Lookup(c) /\ c \notin pinserts
  BY <1>a, <1>b, <1>1, PHookIs, Parameters
     DEF P!Lookup, PHook, P!graph, P!Neighbor, PMove, PBegins, PSameList, PNeighbor, PNeighborIs, PTypes
<1>2. CASE P!First(c)
  BY <1>a, <1>b, <1>2
     DEF P!First, P!graph, P!Neighbor, PMove, PBegins, PSameList, PNeighbor, PNeighborIs, PTypes
<1>3. CASE P!ReadMaximumLayer(c)
  <2>1. /\ ppc[c] = "max" /\ ppc' = [ppc EXCEPT ![c] = "store"]
        /\ player' = [player EXCEPT ![c] = P!Lower(PHook[c].target, pcurrentMaximumLayer)]
        /\ pneighbors' = pneighbors /\ pidx' = pidx
    BY <1>3 DEF P!ReadMaximumLayer, PHook
  <2>2. player'[c] \in Levels
    BY <1>a, <1>b, <2>1, Parameters
  <2> QED
    BY <1>a, <2>1, <2>2 DEF PMove, PBegins
<1>4. CASE P!Store(c)
  BY <1>a, <1>b, <1>4
     DEF P!Store, P!graph, P!Neighbor, PMove, PBegins, PSameList, PNeighbor, PNeighborIs, PTypes
<1>5. CASE P!InsertReadTotal(c) /\ c \in pinserts
  BY <1>a, <1>b, <1>5
     DEF P!InsertReadTotal, P!graph, P!Neighbor, PMove, PBegins, PSameList, PNeighbor, PNeighborIs, PTypes
<1>6. CASE P!InsertReadMaximumLayer(c)
  <2>1. PICK l \in Levels :
          /\ ppc[c] = "max" /\ ppc' = [ppc EXCEPT ![c] = "store"]
          /\ player' = [player EXCEPT ![c] = P!Lower(l, pcurrentMaximumLayer)]
          /\ pneighbors' = pneighbors /\ pidx' = pidx
    BY <1>6 DEF P!InsertReadMaximumLayer
  <2>2. player'[c] \in Levels
    BY <1>a, <1>b, <2>1, Parameters
  <2> QED
    BY <1>a, <2>1, <2>2 DEF PMove, PBegins
<1>7. CASE P!EnterLevel(c) /\ c \notin pinserts
  BY <1>a, <1>b, <1>7
     DEF P!EnterLevel, PHook, P!graph, P!Neighbor, PMove, PRanges, PSameList, PNeighbor, PNeighborIs, PTypes
<1>8. CASE P!NextLevel(c)
  <2>1. /\ ppc[c] = "range" /\ pidx[c] > Len(pneighbors[c])
        /\ pneighbors' = pneighbors /\ pidx' = pidx
        /\ \/ /\ player[c] > 0 /\ player' = [player EXCEPT ![c] = player[c] - 1]
              /\ ppc' = [ppc EXCEPT ![c] = "level"]
           \/ player[c] = 0 /\ player' = player /\ ppc' = [ppc EXCEPT ![c] = "raise"]
    <3>1. player[c] > 0 \/ player[c] = 0
      BY <1>b
    <3> QED
      BY <1>8, <3>1 DEF P!NextLevel, P!graph
  <2> QED
    BY <1>a, <2>1 DEF PMove, PRanges, PSameList
<1>9. CASE P!FindNeighbor(c) /\ (c \in pinserts => pnodes[PNeighbor(c)] # -1)
  BY <1>a, <1>b, <1>9
     DEF P!FindNeighbor, P!graph, P!Neighbor, PMove, PRanges, PSameList, PNeighbor, PNeighborIs, PTypes
<1>10. CASE P!InsertPanic(c) /\ c \in pinserts
  BY <1>a, <1>b, <1>10
     DEF P!InsertPanic, P!graph, P!Neighbor, PMove, PRanges, PSameList, PNeighbor, PNeighborIs, PTypes
<1>11. CASE P!MakePlaceholder(c)
  BY <1>a, <1>b, <1>11
     DEF P!MakePlaceholder, P!graph, P!Neighbor, PMove, PLinks, PSameList, PNeighbor, PNeighborIs, PTypes
<1>12. CASE P!RereadPlaceholder(c)
  BY <1>a, <1>b, <1>12, Zenon
     DEF P!RereadPlaceholder, P!graph, P!Neighbor, PMove, PLinks, PSameList, PNeighbor, PNeighborIs, PTypes
<1>13. CASE P!LinkNeighbor(c)
  BY <1>a, <1>b, <1>13, Zenon
     DEF P!LinkNeighbor, P!graph, P!Neighbor, PMove, PLinks, PSameList, PNeighbor, PNeighborIs, PTypes
<1>14. CASE P!LinkSelf(c)
  BY <1>a, <1>b, <1>14
     DEF P!LinkSelf, P!graph, P!Neighbor, PMove, PLinks, PSameList, PNeighbor, PNeighborIs, PTypes
<1>15. CASE P!CountNeighbor(c)
  <2> DEFINE current == pconnections[PNeighbor(c)][pneighbor[c]][player[c]]
  <2>1. CASE Len(current) <= Limit(player[c])
    <3>1. /\ ppc[c] = "count" /\ ppc' = [ppc EXCEPT ![c] = "range"]
          /\ pidx' = [pidx EXCEPT ![c] = pidx[c] + 1]
          /\ pneighbors' = pneighbors /\ player' = player
      BY <1>15, <2>1 DEF P!CountNeighbor, P!NextNeighbor, P!Neighbor, PNeighbor
    <3> QED
      BY <1>a, <3>1 DEF PMove, PLinks
  <2>2. CASE ~(Len(current) <= Limit(player[c]))
    <3>1. /\ ppc[c] = "count" /\ ppc' = [ppc EXCEPT ![c] = "prune"]
          /\ pneighbors' = pneighbors /\ player' = player /\ pidx' = pidx
          /\ pneighbor' = pneighbor /\ psnapshot' = [psnapshot EXCEPT ![c] = current]
      BY <1>15, <2>2 DEF P!CountNeighbor, P!Neighbor, PNeighbor
    <3>2. current \in Seq(Ids) /\ Len(current) \in Nat /\ Limit(player[c]) \in Nat
      <4>1. PHolds(c) /\ pneighbors[c] \in Seq(Ids) /\ pconnections \in Tables
        BY DEF PTypes, PTypeOK
      <4>2. PNeighbor(c) \in Ids /\ pneighbor[c] \in Ids
        BY <3>1, <4>1 DEF PHolds, PHasNeighbor, PAtNeighbor, PNeighbor
      <4>3. current \in Seq(Ids)
        BY <1>b, <4>1, <4>2 DEF Tables
      <4>4. \A s \in Seq(Ids) : Len(s) \in Nat
        OBVIOUS
      <4>5. Limit(player[c]) \in Nat
        BY <1>b, Parameters
      <4> HIDE DEF current
      <4> QED
        BY <4>3, <4>4, <4>5
    <3>l. current = pconnections[PNeighbor(c)][pneighbor[c]][player[c]]
      OBVIOUS
    <3>3. Len(current) > Limit(player[c])
      BY <2>2, <3>2
    <3> HIDE DEF current
    <3>4. /\ ppc'[c] = "prune" /\ psnapshot'[c] = current /\ PSameList(c) /\ pneighbor'[c] = pneighbor[c]
      BY <1>a, <3>1 DEF PSameList
    <3> QED
      BY <3>1, <3>3, <3>4, <3>l DEF PMove, PLinks
  <2> QED
    BY <2>1, <2>2
<1>16. CASE P!Prune(c)
  BY <1>a, <1>b, <1>16
     DEF P!Prune, P!NextNeighbor, P!graph, P!Neighbor, PMove, PLinks, PSameList, PNeighbor, PNeighborIs, PTypes
<1>17. CASE P!CheckMaximumLayer(c)
  BY <1>a, <1>b, <1>17
     DEF P!CheckMaximumLayer, P!graph, P!Neighbor, PMove, PEnds, PSameList, PNeighbor, PNeighborIs, PTypes
<1>18. CASE P!Publish(c)
  BY <1>a, <1>b, <1>18
     DEF P!Publish, P!graph, P!Neighbor, PMove, PEnds, PSameList, PNeighbor, PNeighborIs, PTypes
<1>19. CASE P!SelectNeighbors(c) /\ c \in pinserts
  <2>1. PICK s \in P!Choices :
          /\ ppc[c] = "level" /\ ppc' = [ppc EXCEPT ![c] = "range"]
          /\ pidx' = [pidx EXCEPT ![c] = 1] /\ player' = player
          /\ pneighbors' = [pneighbors EXCEPT ![c] = s]
          /\ pchosen' = [pchosen EXCEPT ![c][player[c]] = s]
    BY <1>19 DEF P!SelectNeighbors
  <2>2. s \in PChoices
    BY PChoicesAre DEF PTypes
  <2>3. pchosen'[c] = [pchosen[c] EXCEPT ![player[c]] = s]
    BY <2>1 DEF PTypes, PTypeOK
  <2> QED
    BY <1>a, <1>19, <2>1, <2>2, <2>3 DEF PMove, PRanges
<1> QED
  BY <1>1, <1>2, <1>3, <1>4, <1>5, <1>6, <1>7, <1>8, <1>9, <1>10, <1>11, <1>12, <1>13, <1>14, <1>15, <1>16, <1>17, <1>18, <1>19
     DEF PStep, P!Insert, P!InsertFromExternal, P!InsertAsExternal, P!InsertFirst,
         P!InsertFindNeighbor, P!InsertCheckMaximumLayer, P!Neighbor, PNeighbor

(* The locals that the moves do not tell of.                                 *)
LEMMA PLocalsChange ==
  ASSUME PTypes, STypeOK, NEW c \in Ids, PStep(c)
  PROVE  /\ \/ pown' = pown
            \/ /\ ppc[c] = "call" /\ pown'[c] \in Ids /\ pown' = [pown EXCEPT ![c] = pown'[c]]
               /\ c \in pinserts => pown'[c] = c
         /\ \/ pchosen' = pchosen
            \/ /\ ppc[c] = "level" /\ c \in pinserts
               /\ \E s \in PChoices : pchosen' = [pchosen EXCEPT ![c][player[c]] = s]
         /\ \/ phooked' = phooked /\ ~(c \in pinserts /\ ppc[c] \in {"first", "raise"})
            \/ /\ ppc[c] \in {"first", "raise"} /\ ppc'[c] \in {"publish", "done"} /\ c \in pinserts
               /\ phooked' = phooked \cup {c}
         /\ \/ psnapshot' = psnapshot
            \/ psnapshot' = [psnapshot EXCEPT ![c] = <<>>] /\ ppc'[c] = "range"
            \/ /\ ppc[c] = "count" /\ ppc'[c] = "prune" /\ pneighbor[c] \in Ids /\ PNeighbor(c) \in Ids
               /\ psnapshot' = [psnapshot EXCEPT
                     ![c] = pconnections[PNeighbor(c)][pneighbor[c]][player[c]]]
<1> USE Shared
<1>1. \/ pown' = pown
      \/ /\ ppc[c] = "call" /\ pown'[c] \in Ids /\ pown' = [pown EXCEPT ![c] = pown'[c]]
         /\ c \in pinserts => pown'[c] = c
  <2>1. CASE P!Lookup(c) /\ c \notin pinserts
    <3> DEFINE m == IF pnodes[c] = -1 THEN c ELSE pnodes[c]
    <3>1. ppc[c] = "call" /\ pown' = [pown EXCEPT ![c] = m]
      BY <2>1 DEF P!Lookup
    <3>2. m \in Ids
      BY DEF PTypes, PTypeOK
    <3> HIDE DEF m
    <3>3. pown'[c] = m
      BY <3>1 DEF PTypes, PTypeOK
    <3> QED
      BY <2>1, <3>1, <3>2, <3>3
  <2>2. CASE P!InsertReadTotal(c)
    BY <2>2, SMTT(30) DEF P!InsertReadTotal, PTypes, PTypeOK
  <2>3. CASE ~P!Lookup(c) /\ ~P!InsertReadTotal(c)
    BY <2>3, Zenon DEF PStep, P!Insert, P!InsertFromExternal, P!InsertAsExternal,
         P!First, P!ReadMaximumLayer, P!Store, P!EnterLevel, P!NextLevel,
         P!FindNeighbor, P!MakePlaceholder, P!RereadPlaceholder, P!LinkNeighbor,
         P!LinkSelf, P!CountNeighbor, P!NextNeighbor, P!Prune, P!CheckMaximumLayer,
         P!Publish, P!InsertFirst, P!InsertReadMaximumLayer,
         P!SelectNeighbors, P!InsertFindNeighbor, P!InsertPanic,
         P!InsertCheckMaximumLayer, P!graph
  <2> QED
    BY <2>1, <2>2, <2>3, Zenon DEF PStep, P!Insert, P!InsertFromExternal, P!InsertAsExternal,
       P!Store, P!NextLevel, P!LinkNeighbor, P!LinkSelf, P!CountNeighbor, P!Prune, P!Publish,
       P!InsertFirst, P!First, P!InsertReadMaximumLayer, P!SelectNeighbors,
       P!InsertFindNeighbor, P!FindNeighbor, P!InsertPanic, P!InsertCheckMaximumLayer,
       P!CheckMaximumLayer
<1>2. \/ pchosen' = pchosen
      \/ /\ ppc[c] = "level" /\ c \in pinserts
         /\ \E s \in PChoices : pchosen' = [pchosen EXCEPT ![c][player[c]] = s]
  <2>1. CASE P!SelectNeighbors(c) /\ c \in pinserts
    BY <2>1, PChoicesAre DEF P!SelectNeighbors, PTypes
  <2>2. CASE ~(P!SelectNeighbors(c) /\ c \in pinserts)
    BY <2>2 DEF PStep, P!Insert, P!InsertAsExternal, P!InsertReadTotal, P!InsertFirst,
                P!InsertReadMaximumLayer, P!InsertFindNeighbor, P!InsertPanic,
                P!InsertCheckMaximumLayer
  <2> QED
    BY <2>1, <2>2
<1>3. \/ phooked' = phooked /\ ~(c \in pinserts /\ ppc[c] \in {"first", "raise"})
      \/ /\ ppc[c] \in {"first", "raise"} /\ ppc'[c] \in {"publish", "done"} /\ c \in pinserts
         /\ phooked' = phooked \cup {c}
  <2>1. CASE c \in pinserts /\ (P!InsertFirst(c) \/ P!InsertCheckMaximumLayer(c))
    BY <2>1, Zenon DEF P!InsertFirst, P!First, P!InsertCheckMaximumLayer, P!CheckMaximumLayer,
                PTypes, PTypeOK
  <2>2. CASE ~(c \in pinserts /\ (P!InsertFirst(c) \/ P!InsertCheckMaximumLayer(c)))
    BY <2>2, Zenon DEF PStep, P!Insert, P!InsertFromExternal, P!InsertAsExternal,
         P!Lookup, P!First, P!ReadMaximumLayer, P!Store, P!EnterLevel, P!NextLevel,
         P!FindNeighbor, P!MakePlaceholder, P!RereadPlaceholder, P!LinkNeighbor,
         P!LinkSelf, P!CountNeighbor, P!NextNeighbor, P!Prune, P!CheckMaximumLayer,
         P!Publish, P!InsertReadTotal, P!InsertReadMaximumLayer,
         P!SelectNeighbors, P!InsertFindNeighbor, P!InsertPanic,
         P!graph
  <2> QED
    BY <2>1, <2>2
<1>4. \/ psnapshot' = psnapshot
      \/ psnapshot' = [psnapshot EXCEPT ![c] = <<>>] /\ ppc'[c] = "range"
      \/ /\ ppc[c] = "count" /\ ppc'[c] = "prune" /\ pneighbor[c] \in Ids /\ PNeighbor(c) \in Ids
         /\ psnapshot' = [psnapshot EXCEPT
               ![c] = pconnections[PNeighbor(c)][pneighbor[c]][player[c]]]
  <2>1. CASE P!CountNeighbor(c)
    <3>1. ppc[c] = "count" => pneighbor[c] \in Ids /\ PNeighbor(c) \in Ids
      <4>1. PHolds(c) /\ pneighbors[c] \in Seq(Ids)
        BY DEF PTypes, PTypeOK
      <4> QED
        BY <4>1 DEF PHolds, PHasNeighbor, PAtNeighbor, PNeighbor
    <3> QED
      BY <2>1, <3>1 DEF P!CountNeighbor, P!NextNeighbor, P!Neighbor, PNeighbor, PTypes, PTypeOK
  <2>2. CASE P!Prune(c)
    BY <2>2, SMTT(30) DEF P!Prune, P!NextNeighbor, PTypes, PTypeOK
  <2>3. CASE ~P!CountNeighbor(c) /\ ~P!Prune(c)
    BY <2>3 DEF PStep, P!Insert, P!InsertFromExternal, P!InsertAsExternal,
         P!Lookup, P!First, P!ReadMaximumLayer, P!Store, P!EnterLevel, P!NextLevel,
         P!FindNeighbor, P!MakePlaceholder, P!RereadPlaceholder, P!LinkNeighbor,
         P!LinkSelf, P!NextNeighbor, P!CheckMaximumLayer,
         P!Publish, P!InsertReadTotal, P!InsertFirst, P!InsertReadMaximumLayer,
         P!SelectNeighbors, P!InsertFindNeighbor, P!InsertPanic,
         P!InsertCheckMaximumLayer, P!graph
  <2> QED
    BY <2>1, <2>2, <2>3
<1> QED
  BY <1>1, <1>2, <1>3, <1>4, SMTT(30)

(* A step leaves the locals functions.                                       *)
LEMMA PShape ==
  ASSUME PTypeOK, NEW c \in Ids, PStep(c)
  PROVE  /\ ppc' = [ppc EXCEPT ![c] = ppc'[c]]
         /\ player' = [player EXCEPT ![c] = player'[c]]
         /\ pneighbors' = [pneighbors EXCEPT ![c] = pneighbors'[c]]
         /\ pidx' = [pidx EXCEPT ![c] = pidx'[c]]
         /\ pneighbor' = [pneighbor EXCEPT ![c] = pneighbor'[c]]
<1>1. ppc' = [ppc EXCEPT ![c] = ppc'[c]]
  <2>1. /\ ppc' = ppc => ppc' = [ppc EXCEPT ![c] = ppc'[c]]
        /\ \A x : ppc' = [ppc EXCEPT ![c] = x] => ppc' = [ppc EXCEPT ![c] = ppc'[c]]
    BY DEF PTypeOK
  <2> QED
    BY <2>1, Zenon DEF PStep, P!Insert, P!InsertFromExternal, P!InsertAsExternal,
         P!Lookup, P!First, P!ReadMaximumLayer, P!Store, P!EnterLevel, P!NextLevel,
         P!FindNeighbor, P!MakePlaceholder, P!RereadPlaceholder, P!LinkNeighbor,
         P!LinkSelf, P!CountNeighbor, P!NextNeighbor, P!Prune, P!CheckMaximumLayer,
         P!Publish, P!InsertReadTotal, P!InsertFirst, P!InsertReadMaximumLayer,
         P!SelectNeighbors, P!InsertFindNeighbor, P!InsertPanic,
         P!InsertCheckMaximumLayer, P!graph
<1>2. player' = [player EXCEPT ![c] = player'[c]]
  <2>1. /\ player' = player => player' = [player EXCEPT ![c] = player'[c]]
        /\ \A x : player' = [player EXCEPT ![c] = x] => player' = [player EXCEPT ![c] = player'[c]]
    BY DEF PTypeOK
  <2> QED
    BY <2>1, Zenon DEF PStep, P!Insert, P!InsertFromExternal, P!InsertAsExternal,
         P!Lookup, P!First, P!ReadMaximumLayer, P!Store, P!EnterLevel, P!NextLevel,
         P!FindNeighbor, P!MakePlaceholder, P!RereadPlaceholder, P!LinkNeighbor,
         P!LinkSelf, P!CountNeighbor, P!NextNeighbor, P!Prune, P!CheckMaximumLayer,
         P!Publish, P!InsertReadTotal, P!InsertFirst, P!InsertReadMaximumLayer,
         P!SelectNeighbors, P!InsertFindNeighbor, P!InsertPanic,
         P!InsertCheckMaximumLayer, P!graph
<1>3. pneighbors' = [pneighbors EXCEPT ![c] = pneighbors'[c]]
  <2>1. /\ pneighbors' = pneighbors => pneighbors' = [pneighbors EXCEPT ![c] = pneighbors'[c]]
        /\ \A x : pneighbors' = [pneighbors EXCEPT ![c] = x] => pneighbors' = [pneighbors EXCEPT ![c] = pneighbors'[c]]
    BY DEF PTypeOK
  <2> QED
    BY <2>1, Zenon DEF PStep, P!Insert, P!InsertFromExternal, P!InsertAsExternal,
         P!Lookup, P!First, P!ReadMaximumLayer, P!Store, P!EnterLevel, P!NextLevel,
         P!FindNeighbor, P!MakePlaceholder, P!RereadPlaceholder, P!LinkNeighbor,
         P!LinkSelf, P!CountNeighbor, P!NextNeighbor, P!Prune, P!CheckMaximumLayer,
         P!Publish, P!InsertReadTotal, P!InsertFirst, P!InsertReadMaximumLayer,
         P!SelectNeighbors, P!InsertFindNeighbor, P!InsertPanic,
         P!InsertCheckMaximumLayer, P!graph
<1>4. pidx' = [pidx EXCEPT ![c] = pidx'[c]]
  <2>1. /\ pidx' = pidx => pidx' = [pidx EXCEPT ![c] = pidx'[c]]
        /\ \A x : pidx' = [pidx EXCEPT ![c] = x] => pidx' = [pidx EXCEPT ![c] = pidx'[c]]
    BY DEF PTypeOK
  <2> QED
    BY <2>1, Zenon DEF PStep, P!Insert, P!InsertFromExternal, P!InsertAsExternal,
         P!Lookup, P!First, P!ReadMaximumLayer, P!Store, P!EnterLevel, P!NextLevel,
         P!FindNeighbor, P!MakePlaceholder, P!RereadPlaceholder, P!LinkNeighbor,
         P!LinkSelf, P!CountNeighbor, P!NextNeighbor, P!Prune, P!CheckMaximumLayer,
         P!Publish, P!InsertReadTotal, P!InsertFirst, P!InsertReadMaximumLayer,
         P!SelectNeighbors, P!InsertFindNeighbor, P!InsertPanic,
         P!InsertCheckMaximumLayer, P!graph
<1>5. pneighbor' = [pneighbor EXCEPT ![c] = pneighbor'[c]]
  <2>1. /\ pneighbor' = pneighbor => pneighbor' = [pneighbor EXCEPT ![c] = pneighbor'[c]]
        /\ \A x : pneighbor' = [pneighbor EXCEPT ![c] = x] => pneighbor' = [pneighbor EXCEPT ![c] = pneighbor'[c]]
    BY DEF PTypeOK
  <2> QED
    BY <2>1, Zenon DEF PStep, P!Insert, P!InsertFromExternal, P!InsertAsExternal,
         P!Lookup, P!First, P!ReadMaximumLayer, P!Store, P!EnterLevel, P!NextLevel,
         P!FindNeighbor, P!MakePlaceholder, P!RereadPlaceholder, P!LinkNeighbor,
         P!LinkSelf, P!CountNeighbor, P!NextNeighbor, P!Prune, P!CheckMaximumLayer,
         P!Publish, P!InsertReadTotal, P!InsertFirst, P!InsertReadMaximumLayer,
         P!SelectNeighbors, P!InsertFindNeighbor, P!InsertPanic,
         P!InsertCheckMaximumLayer, P!graph
<1> QED
  BY <1>1, <1>2, <1>3, <1>4, <1>5

-------------------------------------------------------------------------------
(* A step keeps the types of the primary graph.                              *)

(* The current neighbor is one of the list.                                  *)
LEMMA PAtNeighborIs ==
  ASSUME PTypes, NEW c \in Ids
  PROVE  /\ PAtNeighbor(c) => PNeighbor(c) \in Ids /\ PNeighbor(c) \in Elements(pneighbors[c])
         /\ ppc[c] = "range" /\ pidx[c] <= Len(pneighbors[c]) =>
              /\ pidx[c] \in 1 .. Len(pneighbors[c])
              /\ PNeighbor(c) \in Ids /\ PNeighbor(c) \in Elements(pneighbors[c])
         /\ PHasNeighbor(c) => PAtNeighbor(c) /\ pneighbor[c] \in Ids
         /\ ppc[c] # "call" => pown[c] \in Ids
<1>1. PHolds(c) /\ pneighbors[c] \in Seq(Ids) /\ pidx[c] \in Nat
  BY DEF PTypes, PTypeOK
<1>2. \A i \in 1 .. Len(pneighbors[c]) :
        pneighbors[c][i] \in Ids /\ pneighbors[c][i] \in Elements(pneighbors[c])
  BY <1>1, ElementsOf
<1>3. Len(pneighbors[c]) \in Nat
  BY <1>1
<1>4. ppc[c] = "range" /\ pidx[c] <= Len(pneighbors[c]) => pidx[c] \in 1 .. Len(pneighbors[c])
  BY <1>1, <1>3 DEF PHolds
<1> QED
  BY <1>1, <1>2, <1>4 DEF PHolds, PNeighbor, PAtNeighbor, PHasNeighbor

(* A step keeps the types...                                                 *)
LEMMA PStepTypeOK ==
  ASSUME PTypes, STypeOK, NEW c \in Ids, PStep(c), pinserts' = pinserts
  PROVE  PTypeOK'
<1>t. PTypeOK
  BY DEF PTypes
<1>n. pnodes' \in [Ids -> Ids \cup {-1}] /\ pfirsts' \subseteq Ids
  <2>1. ppc[c] # "call" => pown[c] \in Ids
    BY PAtNeighborIs
  <2>2. ppc[c] = "make" => PNeighbor(c) \in Ids
    BY PAtNeighborIs DEF PAtNeighbor
  <2>3. pnodes \in [Ids -> Ids \cup {-1}] /\ pfirsts \subseteq Ids
    BY <1>t DEF PTypeOK
  <2> QED
    BY <1>t, <2>1, <2>2, <2>3, PNodesChange
<1>e. pentryPointID' \in Ids /\ pcurrentMaximumLayer' \in Levels
  <2>1. plevelOf[c][c] \in Levels /\ slevelOf[c][c] \in Levels /\ 0 \in Levels
    BY <1>t, Parameters DEF PTypeOK, STypeOK
  <2>2. pentryPointID \in Ids /\ pcurrentMaximumLayer \in Levels
    BY <1>t DEF PTypeOK
  <2>3. \/ pentryPointID' = pentryPointID /\ pcurrentMaximumLayer' = pcurrentMaximumLayer
        \/ pentryPointID' = c /\ pcurrentMaximumLayer' \in {0, plevelOf[c][c], slevelOf[c][c]}
    BY PTopChange
  <2> QED
    BY <2>1, <2>2, <2>3
<1>l. plevelOf' \in [Ids -> [Ids -> Levels]]
  <2>0. plevelOf \in [Ids -> [Ids -> Levels]] /\ slevelOf \in [Ids -> [Ids -> Levels]]
    BY <1>t DEF PTypeOK, STypeOK
  <2>1. plevelOf \in [Ids -> [Ids -> Levels]] /\ slevelOf[c][c] \in Levels /\ 0 \in Levels
    BY <2>0, Parameters
  <2>2. \A m \in Ids, l \in Levels : [plevelOf EXCEPT ![c][m] = l] \in [Ids -> [Ids -> Levels]]
    BY <2>1, SMTT(30)
  <2> QED
    BY <2>1, <2>2, PLevelsChange
<1>c. pconnections' \in Tables
  <2>1. pconnections \in Tables /\ player[c] \in Levels /\ psnapshot[c] \in Seq(Ids)
    BY <1>t DEF PTypeOK
  <2>2. \A a, b \in Ids : pconnections[a][b][player[c]] \in Seq(Ids)
    BY <2>1 DEF Tables
  <2>3. \A a, b \in Ids : Append(pconnections[a][b][player[c]], c) \in Seq(Ids)
    BY <2>2
  <2>4. \A a, b, d \in Ids : Append(pconnections[a][b][player[c]], d) \in Seq(Ids)
    BY <2>2
  <2>5. \A s \in P!Nearest(Elements(psnapshot[c]), Dist[c], Limit(player[c])) : s \in Seq(Ids)
    BY <2>1, ElementsOf, NearestList, Parameters
  <2>6. \A a, b \in Ids, s \in Seq(Ids) : [pconnections EXCEPT ![a][b][player[c]] = s] \in Tables
    BY <2>1, ReplaceList
  <2>7. \A b \in Ids : [pconnections EXCEPT ![c][b] = Unlinked] \in Tables
    BY <2>1, Parameters DEF Tables
  <2>8. CASE pconnections' = pconnections
    BY <2>1, <2>8
  <2>9. CASE /\ pown[c] \in Ids
             /\ pconnections' = [pconnections EXCEPT ![c][pown[c]] = Unlinked]
    BY <2>7, <2>9
  <2>10. CASE /\ pneighbor[c] \in Ids /\ PNeighbor(c) \in Ids
              /\ pconnections' = [pconnections EXCEPT
                   ![PNeighbor(c)][pneighbor[c]][player[c]] =
                      Append(pconnections[PNeighbor(c)][pneighbor[c]][player[c]], c)]
    BY <2>3, <2>6, <2>10
  <2>11. CASE /\ pown[c] \in Ids /\ PNeighbor(c) \in Ids
              /\ pconnections' = [pconnections EXCEPT
                   ![c][pown[c]][player[c]] =
                      Append(pconnections[c][pown[c]][player[c]], PNeighbor(c))]
    BY <2>4, <2>6, <2>11
  <2>12. CASE /\ pneighbor[c] \in Ids /\ PNeighbor(c) \in Ids
              /\ \E s \in P!Nearest(Elements(psnapshot[c]), Dist[c], Limit(player[c])) :
                   pconnections' = [pconnections EXCEPT
                      ![PNeighbor(c)][pneighbor[c]][player[c]] = s]
    <3>1. PICK s \in P!Nearest(Elements(psnapshot[c]), Dist[c], Limit(player[c])) :
            pconnections' = [pconnections EXCEPT
              ![PNeighbor(c)][pneighbor[c]][player[c]] = s]
      BY <2>12
    <3>2. s \in Seq(Ids)
      BY <2>5
    <3>3. [pconnections EXCEPT ![PNeighbor(c)][pneighbor[c]][player[c]] = s] \in Tables
      BY <2>6, <2>12, <3>2
    <3> QED
      BY <3>1, <3>3
  <2> QED
    BY <2>8, <2>9, <2>10, <2>11, <2>12, PListsChange
<1>o. pown' \in [Ids -> Ids \cup {-1}] /\ phooked' \subseteq Ids
  <2>1. pown \in [Ids -> Ids \cup {-1}] /\ phooked \subseteq Ids
    BY <1>t DEF PTypeOK
  <2>2. pown' = pown \/ (pown'[c] \in Ids /\ pown' = [pown EXCEPT ![c] = pown'[c]])
    BY PLocalsChange
  <2>3. phooked' = phooked \/ phooked' = phooked \cup {c}
    BY PLocalsChange
  <2>4. \A m \in Ids : [pown EXCEPT ![c] = m] \in [Ids -> Ids \cup {-1}]
    BY <2>1
  <2> QED
    BY <2>1, <2>2, <2>3, <2>4
<1>h. pchosen' \in [Ids -> [Levels -> Seq(Ids)]]
  <2>1. pchosen \in [Ids -> [Levels -> Seq(Ids)]] /\ player[c] \in Levels
    BY <1>t DEF PTypeOK
  <2>2. \A s \in Seq(Ids) : [pchosen EXCEPT ![c][player[c]] = s] \in [Ids -> [Levels -> Seq(Ids)]]
    BY <2>1
  <2> QED
    <3>1. CASE pchosen' = pchosen
      BY <2>1, <3>1
    <3>2. CASE \E s \in PChoices : pchosen' = [pchosen EXCEPT ![c][player[c]] = s]
      <4>1. PICK s \in PChoices : pchosen' = [pchosen EXCEPT ![c][player[c]] = s]
        BY <3>2
      <4>2. s \in Seq(Ids)
        BY DEF PChoices
      <4> QED
        BY <2>2, <4>1, <4>2
    <3> QED
      BY <3>1, <3>2, PLocalsChange
<1>s. psnapshot' \in [Ids -> Seq(Ids)]
  <2>1. psnapshot \in [Ids -> Seq(Ids)] /\ player[c] \in Levels /\ pconnections \in Tables
    BY <1>t DEF PTypeOK
  <2>2. \A a, b \in Ids : pconnections[a][b][player[c]] \in Seq(Ids)
    BY <2>1 DEF Tables
  <2>3. \A s \in Seq(Ids) : [psnapshot EXCEPT ![c] = s] \in [Ids -> Seq(Ids)]
    BY <2>1
  <2>4. <<>> \in Seq(Ids)
    OBVIOUS
  <2> QED
    <3>1. CASE psnapshot' = psnapshot
      BY <2>1, <3>1
    <3>2. CASE psnapshot' = [psnapshot EXCEPT ![c] = <<>>]
      BY <2>3, <2>4, <3>2
    <3>3. CASE /\ pneighbor[c] \in Ids /\ PNeighbor(c) \in Ids
               /\ psnapshot' = [psnapshot EXCEPT
                     ![c] = pconnections[PNeighbor(c)][pneighbor[c]][player[c]]]
      BY <2>2, <2>3, <3>3
    <3> QED
      BY <3>1, <3>2, <3>3, PLocalsChange
<1>m. /\ ppc'[c] \in {"call", "first", "max", "store", "level", "range", "make", "reread",
                      "link", "linkSelf", "count", "prune", "raise", "publish", "done",
                      "panic"}
      /\ player'[c] \in Levels /\ pneighbors'[c] \in Seq(Ids) /\ pidx'[c] \in Nat
  <2>1. player[c] \in Levels /\ pneighbors[c] \in Seq(Ids) /\ pidx[c] \in Nat /\ pidx[c] + 1 \in Nat
        /\ (player[c] > 0 => player[c] - 1 \in Levels) /\ PHook[c].neighbors[player[c]] \in Seq(Ids)
    <3>1. player[c] \in Levels /\ pneighbors[c] \in Seq(Ids) /\ pidx[c] \in Nat
      BY <1>t DEF PTypeOK
    <3>2. PHook[c].neighbors \in [Levels -> Seq(Ids)]
      BY <1>t, PHookIs
    <3>3. pidx[c] + 1 \in Nat /\ PHook[c].neighbors[player[c]] \in Seq(Ids)
      BY <3>1, <3>2
    <3> QED
      BY <3>1, <3>3, Parameters
  <2>2. \A s \in PChoices : s \in Seq(Ids)
    BY DEF PChoices
  <2>3. PMove(c)
    BY PMoves
  <2>4. CASE PBegins(c)
    BY <2>1, <2>4 DEF PBegins, PSameList
  <2>5. CASE PRanges(c)
    BY <2>1, <2>2, <2>5 DEF PRanges, PSameList
  <2>6. CASE PLinks(c)
    BY <2>1, <2>6 DEF PLinks, PSameList
  <2>7. CASE PEnds(c)
    <3>1. <<>> \in Seq(Ids) /\ 0 \in Nat
      OBVIOUS
    <3> QED
      BY <2>1, <2>7, <3>1 DEF PEnds, PSameList
  <2> QED
    BY <2>3, <2>4, <2>5, <2>6, <2>7 DEF PMove
<1>p. /\ ppc' \in [Ids -> {"call", "first", "max", "store", "level", "range", "make", "reread",
                      "link", "linkSelf", "count", "prune", "raise", "publish", "done",
                      "panic"}]
      /\ player' \in [Ids -> Levels]
      /\ pneighbors' \in [Ids -> Seq(Ids)]
      /\ pidx' \in [Ids -> Nat]
  <2>1. /\ ppc \in [Ids -> {"call", "first", "max", "store", "level", "range", "make", "reread",
                            "link", "linkSelf", "count", "prune", "raise", "publish", "done",
                            "panic"}]
        /\ player \in [Ids -> Levels]
        /\ pneighbors \in [Ids -> Seq(Ids)]
        /\ pidx \in [Ids -> Nat]
    BY <1>t DEF PTypeOK
  <2>2. /\ ppc' = [ppc EXCEPT ![c] = ppc'[c]] /\ player' = [player EXCEPT ![c] = player'[c]]
        /\ pneighbors' = [pneighbors EXCEPT ![c] = pneighbors'[c]]
        /\ pidx' = [pidx EXCEPT ![c] = pidx'[c]]
    BY <1>t, PShape
  <2>3. ppc' \in [Ids -> {"call", "first", "max", "store", "level", "range", "make", "reread",
                          "link", "linkSelf", "count", "prune", "raise", "publish", "done",
                          "panic"}]
    <3> DEFINE x == ppc'[c]
    <3>1. ppc' = [ppc EXCEPT ![c] = x]
      BY <2>2
    <3> HIDE DEF x
    <3> QED
      BY <1>m, <2>1, <3>1 DEF x
  <2>4. player' \in [Ids -> Levels] /\ pneighbors' \in [Ids -> Seq(Ids)] /\ pidx' \in [Ids -> Nat]
    <3> DEFINE x == player'[c]
               y == pneighbors'[c]
               z == pidx'[c]
    <3>1. /\ player' = [player EXCEPT ![c] = x] /\ pneighbors' = [pneighbors EXCEPT ![c] = y]
          /\ pidx' = [pidx EXCEPT ![c] = z]
          /\ x \in Levels /\ y \in Seq(Ids) /\ z \in Nat
      BY <1>m, <2>2
    <3> HIDE DEF x, y, z
    <3> QED
      BY <2>1, <3>1
  <2> QED
    BY <2>3, <2>4
<1>b. pneighbor' \in [Ids -> Ids \cup {-1}]
  <2>1. pneighbor'[c] \in Ids \cup {-1}
    <3> USE Shared DEF PTypes
    <3> DEFINE ok == pneighbor'[c] \in Ids \cup {-1}
    <3>1. CASE P!FindNeighbor(c)
      <4>1. ppc[c] = "range" /\ pidx[c] <= Len(pneighbors[c]) /\
            (pneighbor' = pneighbor \/ pneighbor' = [pneighbor EXCEPT ![c] = pnodes[PNeighbor(c)]])
        BY <3>1 DEF P!FindNeighbor, P!Neighbor, PNeighbor
      <4>2. PNeighbor(c) \in Ids
        BY <4>1, PAtNeighborIs
      <4>3. pnodes[PNeighbor(c)] \in Ids \cup {-1} /\ pneighbor \in [Ids -> Ids \cup {-1}]
        BY <1>t, <4>2 DEF PTypeOK
      <4> QED
        BY <4>1, <4>3
    <3>2. CASE P!RereadPlaceholder(c)
      <4>1. ppc[c] = "reread" /\ pneighbor' = [pneighbor EXCEPT ![c] = pnodes[PNeighbor(c)]]
        BY <3>2 DEF P!RereadPlaceholder, P!Neighbor, PNeighbor
      <4>2. PNeighbor(c) \in Ids
        BY <4>1, PAtNeighborIs DEF PAtNeighbor
      <4>3. pnodes[PNeighbor(c)] \in Ids \cup {-1} /\ pneighbor \in [Ids -> Ids \cup {-1}]
        BY <1>t, <4>2, Zenon DEF PTypeOK
      <4> QED
        BY <4>1, <4>3
    <3>3. CASE ~P!FindNeighbor(c) /\ ~P!RereadPlaceholder(c)
      <4>1. pneighbor' = pneighbor \/ pneighbor' = [pneighbor EXCEPT ![c] = -1]
        BY <3>3, Zenon DEF PStep, P!Insert, P!InsertFromExternal, P!InsertAsExternal,
         P!Lookup, P!First, P!ReadMaximumLayer, P!Store, P!EnterLevel, P!NextLevel,
         P!MakePlaceholder, P!LinkNeighbor,
         P!LinkSelf, P!CountNeighbor, P!NextNeighbor, P!Prune, P!CheckMaximumLayer,
         P!Publish, P!InsertReadTotal, P!InsertFirst, P!InsertReadMaximumLayer,
         P!SelectNeighbors, P!InsertFindNeighbor, P!InsertPanic,
         P!InsertCheckMaximumLayer, P!graph, P!FindNeighbor
      <4>2. pneighbor \in [Ids -> Ids \cup {-1}]
        BY <1>t DEF PTypeOK
      <4> QED
        BY <4>1, <4>2
    <3> QED
      BY <3>1, <3>2, <3>3
  <2> DEFINE x == pneighbor'[c]
  <2>2. pneighbor' = [pneighbor EXCEPT ![c] = x] /\ x \in Ids \cup {-1}
    BY <1>t, <2>1, PShape
  <2>3. pneighbor \in [Ids -> Ids \cup {-1}]
    BY <1>t DEF PTypeOK
  <2> HIDE DEF x
  <2> QED
    BY <2>2, <2>3
<1>i. pinserts' \subseteq Ids
  BY <1>t DEF PTypeOK
<1> QED
  BY <1>n, <1>e, <1>l, <1>c, <1>o, <1>h, <1>s, <1>p, <1>b, <1>i DEF PTypeOK

(* A call has its vertex from its first step on.                             *)
LEMMA PLocalsChangeCall ==
  ASSUME PTypes, STypeOK, NEW c \in Ids, PStep(c), ppc[c] = "call"
  PROVE  pown'[c] \in Ids \/ ppc'[c] = "call"
<1>1. PMove(c) /\ PTypeOK
  BY PMoves DEF PTypes
<1>2. CASE P!Lookup(c)
  BY <1>1, <1>2, Shared DEF P!Lookup, PTypeOK
<1>3. CASE P!InsertReadTotal(c)
  BY <1>1, <1>3, Shared DEF P!InsertReadTotal, PTypeOK
<1>4. CASE ~P!Lookup(c) /\ ~P!InsertReadTotal(c)
  BY <1>4 DEF PStep, P!Insert, P!InsertFromExternal, P!InsertAsExternal,
         P!First, P!ReadMaximumLayer, P!Store, P!EnterLevel, P!NextLevel,
         P!FindNeighbor, P!MakePlaceholder, P!RereadPlaceholder, P!LinkNeighbor,
         P!LinkSelf, P!CountNeighbor, P!NextNeighbor, P!Prune, P!CheckMaximumLayer,
         P!Publish, P!InsertFirst, P!InsertReadMaximumLayer,
         P!SelectNeighbors, P!InsertFindNeighbor, P!InsertPanic,
         P!InsertCheckMaximumLayer, P!graph
<1> QED
  BY <1>2, <1>3, <1>4

(* Only a table with something in it is not made.                            *)
LEMMA PSeesTable ==
  ASSUME PTypes, STypeOK, NEW c \in Ids, PStep(c), ppc[c] = "call"
  PROVE  ppc'[c] = "first" \/ \E v \in Ids : pnodes[v] # -1
<1>1. PTypeOK
  BY DEF PTypes
<1>2. CASE P!Lookup(c)
  BY <1>1, <1>2, Shared DEF P!Lookup, PTypeOK
<1>3. CASE P!InsertReadTotal(c)
  BY <1>1, <1>3, Shared DEF P!InsertReadTotal, PTypeOK
<1>4. CASE ~P!Lookup(c) /\ ~P!InsertReadTotal(c)
  BY <1>4 DEF PStep, P!Insert, P!InsertFromExternal, P!InsertAsExternal,
         P!First, P!ReadMaximumLayer, P!Store, P!EnterLevel, P!NextLevel,
         P!FindNeighbor, P!MakePlaceholder, P!RereadPlaceholder, P!LinkNeighbor,
         P!LinkSelf, P!CountNeighbor, P!NextNeighbor, P!Prune, P!CheckMaximumLayer,
         P!Publish, P!InsertFirst, P!InsertReadMaximumLayer,
         P!SelectNeighbors, P!InsertFindNeighbor, P!InsertPanic,
         P!InsertCheckMaximumLayer, P!graph
<1> QED
  BY <1>2, <1>3, <1>4

(* Who has found the table empty makes it.                                   *)
LEMMA PFirstMakes ==
  ASSUME PTypes, STypeOK, NEW c \in Ids, PStep(c), ppc[c] = "first"
  PROVE  pfirsts' = pfirsts \cup {c}
<1>1. CASE P!First(c)
  BY <1>1 DEF P!First
<1>2. CASE ~P!First(c)
  BY <1>2 DEF PStep, P!Insert, P!InsertFromExternal, P!InsertAsExternal,
         P!Lookup, P!ReadMaximumLayer, P!Store, P!EnterLevel, P!NextLevel,
         P!FindNeighbor, P!MakePlaceholder, P!RereadPlaceholder, P!LinkNeighbor,
         P!LinkSelf, P!CountNeighbor, P!NextNeighbor, P!Prune, P!CheckMaximumLayer,
         P!Publish, P!InsertReadTotal, P!InsertFirst, P!InsertReadMaximumLayer,
         P!SelectNeighbors, P!InsertFindNeighbor, P!InsertPanic,
         P!InsertCheckMaximumLayer, P!graph
<1> QED
  BY <1>1, <1>2

(* ... and what a call holds...                                              *)
LEMMA PStepHolds ==
  ASSUME PTypes, STypeOK, NEW c \in Ids, PStep(c), pinserts' = pinserts
  PROVE  \A d \in Ids : PHolds(d)'
<1>t. PTypeOK /\ PTypeOK'
  BY PStepTypeOK DEF PTypes
<1>1. ASSUME NEW d \in Ids, d # c
      PROVE  PHolds(d)'
  <2>1. /\ ppc'[d] = ppc[d] /\ pown'[d] = pown[d] /\ pneighbors'[d] = pneighbors[d]
        /\ pidx'[d] = pidx[d] /\ pneighbor'[d] = pneighbor[d]
    BY <1>t, <1>1, PElsewhere
  <2>2. PHolds(d) /\ (ppc[d] = "reread" => PNeighbor(d) \in Ids)
    BY PAtNeighborIs DEF PTypes, PAtNeighbor
  <2>3. ppc[d] = "reread" => pnodes'[PNeighbor(d)] # -1
    <3> SUFFICES ASSUME ppc[d] = "reread" PROVE pnodes'[PNeighbor(d)] # -1
      OBVIOUS
    <3>1. pnodes[PNeighbor(d)] # -1 /\ PNeighbor(d) \in Ids /\ pnodes \in [Ids -> Ids \cup {-1}]
      BY <1>t, <2>2 DEF PHolds, PTypeOK
    <3>2. ppc[c] # "call" => pown[c] \in Ids
      BY PAtNeighborIs
    <3>3. ppc[c] = "make" => PNeighbor(c) \in Ids
      BY PAtNeighborIs DEF PAtNeighbor
    <3> QED
      BY <1>t, <3>1, <3>2, <3>3, PNodesChange, Parameters
  <2> QED
    BY <2>1, <2>2, <2>3 DEF PHolds, PAtNeighbor, PHasNeighbor, PNeighbor
<1>2. PHolds(c)'
  <2>1. PHolds(c) /\ PMove(c) /\ pnodes \in [Ids -> Ids \cup {-1}] /\ pidx[c] \in Nat
        /\ pneighbors[c] \in Seq(Ids) /\ Len(pneighbors[c]) \in Nat
    <3>1. PHolds(c) /\ PMove(c)
      BY PMoves DEF PTypes
    <3>2. pnodes \in [Ids -> Ids \cup {-1}] /\ pidx[c] \in Nat /\ pneighbors[c] \in Seq(Ids)
      BY <1>t DEF PTypeOK
    <3>3. Len(pneighbors[c]) \in Nat
      BY <3>2
    <3> QED
      BY <3>1, <3>2, <3>3
  <2>2. ppc'[c] # "call" => pown'[c] \in Ids
    <3>1. ppc[c] = "call" => pown'[c] \in Ids \/ ppc'[c] = "call"
      BY PLocalsChangeCall
    <3> QED
      BY <1>t, <2>1, <3>1, PLocalsChange DEF PHolds
  <2>3. ppc'[c] = "range" => pidx'[c] > 0
    BY <2>1 DEF PMove, PBegins, PRanges, PLinks, PEnds, PSameList, PHolds, PAtNeighbor
  <2>4. PAtNeighbor(c)' => pidx'[c] \in 1 .. Len(pneighbors'[c])
    BY <2>1 DEF PMove, PBegins, PRanges, PLinks, PEnds, PSameList, PHolds, PAtNeighbor
  <2>5. PHasNeighbor(c)' => pneighbor'[c] \in Ids
    <3>1. ppc'[c] = "link" => PNeighbor(c) \in Ids /\ pnodes[PNeighbor(c)] # -1 /\ pneighbor'[c] = pnodes[PNeighbor(c)]
      BY <2>1, PAtNeighborIs DEF PMove, PBegins, PRanges, PLinks, PEnds, PSameList, PHolds, PAtNeighbor, PNeighborIs
    <3>2. ppc'[c] \in {"linkSelf", "count", "prune"} => PHasNeighbor(c) /\ pneighbor'[c] = pneighbor[c]
      BY <2>1 DEF PMove, PBegins, PRanges, PLinks, PEnds, PHasNeighbor
    <3> QED
      BY <2>1, <3>1, <3>2 DEF PHasNeighbor, PHolds
  <2>6. ppc'[c] = "reread" => pnodes'[PNeighbor(c)'] # -1
    <3>1. ppc'[c] = "reread" => ppc[c] = "make" /\ PNeighbor(c)' = PNeighbor(c)
      BY <2>1 DEF PMove, PBegins, PRanges, PLinks, PEnds, PSameList, PNeighbor
    <3>2. ppc[c] = "make" => PNeighbor(c) \in Ids
      BY PAtNeighborIs DEF PAtNeighbor
    <3>3. ppc'[c] = "reread" => pnodes' = [pnodes EXCEPT ![PNeighbor(c)] = c]
      <4>1. ppc'[c] = "reread" => P!MakePlaceholder(c)
        BY <1>t, <3>1 DEF PStep, P!Insert, P!InsertFromExternal, P!InsertAsExternal,
         P!Lookup, P!First, P!ReadMaximumLayer, P!Store, P!EnterLevel, P!NextLevel,
         P!FindNeighbor, P!RereadPlaceholder, P!LinkNeighbor,
         P!LinkSelf, P!CountNeighbor, P!NextNeighbor, P!Prune, P!CheckMaximumLayer,
         P!Publish, P!InsertReadTotal, P!InsertFirst, P!InsertReadMaximumLayer,
         P!SelectNeighbors, P!InsertFindNeighbor, P!InsertPanic,
         P!InsertCheckMaximumLayer, P!graph, PTypeOK
      <4> QED
        BY <4>1, SMTT(30) DEF P!MakePlaceholder, P!Neighbor, PNeighbor
    <3> QED
      BY <2>1, <3>1, <3>2, <3>3, Parameters
  <2> QED
    BY <2>2, <2>3, <2>4, <2>5, <2>6 DEF PHolds, PHasNeighbor, PAtNeighbor, PNeighbor
<1> QED
  BY <1>1, <1>2

(* ... so both.                                                              *)
LEMMA PStepTypes ==
  ASSUME PTypes, STypeOK, NEW c \in Ids, PStep(c), pinserts' = pinserts
  PROVE  PTypes'
BY PStepTypeOK, PStepHolds DEF PTypes

-------------------------------------------------------------------------------
(* As long as the table was made once, whatever is referred to is in it.     *)

(* A table that is not made has nothing in it.                               *)
LEMMA PStepUnmade ==
  ASSUME PTypes, STypeOK, PUnmade, NEW c \in Ids, PStep(c)
  PROVE  PUnmade'
<1>t. PTypeOK /\ PMove(c) /\ pfirsts \subseteq Ids
  BY PMoves DEF PTypes, PTypeOK
<1>1. ppc[c] # "done" /\ (ppc'[c] \in {"call", "first"} \/ pfirsts # {} \/ ppc[c] = "first")
  <2>1. ppc[c] # "done"
    BY <1>t DEF PMove, PBegins, PRanges, PLinks, PEnds
  <2>2. ppc[c] = "call" => ppc'[c] = "first" \/ \E v \in Ids : pnodes[v] # -1
    BY PSeesTable
  <2> QED
    BY <2>1, <2>2 DEF PUnmade
<1>2. \A d \in Ids : d # c => ppc'[d] = ppc[d]
  BY <1>t, PElsewhere
<1>3. CASE pfirsts' = pfirsts \cup {c} /\ ppc[c] = "first" /\ ppc'[c] = "done"
  BY <1>t, <1>2, <1>3 DEF PUnmade
<1>4. CASE pfirsts' = pfirsts /\ pfirsts # {}
  BY <1>t, <1>1, <1>2, <1>4 DEF PUnmade
<1>5. CASE pfirsts' = pfirsts /\ pfirsts = {}
  <2>1. pnodes' = pnodes /\ ppc[c] \in {"call", "first"} /\ (ppc[c] = "first" => pfirsts' = pfirsts \cup {c})
    BY <1>t, <1>5, PNodesChange, PFirstMakes DEF PUnmade
  <2>2. ppc'[c] \in {"call", "first"}
    BY <1>1, <1>5, <2>1, SMTT(30)
  <2> QED
    BY <1>2, <1>5, <2>1, <2>2 DEF PUnmade
<1> QED
  BY <1>t, <1>3, <1>4, <1>5, PNodesChange

(* What a call does at three of its steps.                                   *)
LEMMA PActionAt ==
  ASSUME NEW c \in Ids, PStep(c)
  PROVE  /\ ppc[c] = "first" => P!First(c)
         /\ ppc[c] = "store" => P!Store(c)
         /\ ppc[c] = "make" => P!MakePlaceholder(c)
BY Zenon DEF PStep, P!Insert, P!InsertFromExternal, P!InsertAsExternal,
         P!Lookup, P!First, P!ReadMaximumLayer, P!Store, P!EnterLevel, P!NextLevel,
         P!FindNeighbor, P!MakePlaceholder, P!RereadPlaceholder, P!LinkNeighbor,
         P!LinkSelf, P!CountNeighbor, P!NextNeighbor, P!Prune, P!CheckMaximumLayer,
         P!Publish, P!InsertReadTotal, P!InsertFirst, P!InsertReadMaximumLayer,
         P!SelectNeighbors, P!InsertFindNeighbor, P!InsertPanic,
         P!InsertCheckMaximumLayer, P!graph

(* What was made once before the step was not made before the first.         *)
LEMMA POnceBefore ==
  ASSUME PTypes, STypeOK, PUnmade, NEW c \in Ids, PStep(c), POnce'
  PROVE  POnce /\ (ppc[c] = "first" => pfirsts = {})
<1>1. pfirsts \subseteq Ids /\ IsFiniteSet(pfirsts) /\ Cardinality(pfirsts) \in Nat
  BY IdsFinite DEF PTypes, PTypeOK
<1>2. CASE pfirsts' = pfirsts
  <2>1. ppc[c] # "first"
    BY <1>2, PFirstMakes DEF PUnmade
  <2> QED
    BY <1>2, <2>1 DEF POnce
<1>3. CASE pfirsts' = pfirsts \cup {c} /\ ppc[c] = "first"
  <2>1. c \notin pfirsts
    BY <1>3 DEF PUnmade
  <2>2. Cardinality(pfirsts') = Cardinality(pfirsts) + 1
    BY <1>1, <1>3, <2>1, FS_AddElement
  <2>3. Cardinality(pfirsts) = 0
    BY <1>1, <2>2 DEF POnce
  <2> QED
    BY <1>1, <2>3, FS_EmptySet DEF POnce
<1>4. PTypeOK
  BY DEF PTypes
<1> QED
  BY <1>2, <1>3, <1>4, PNodesChange

(* Nothing leaves the table, and who has stored its vertex goes on with it.  *)
LEMMA PGrows ==
  ASSUME PTypes, STypeOK, PUnmade, NEW c \in Ids, PStep(c), POnce'
  PROVE  /\ PTable \subseteq PTable'
         /\ \A d \in Ids : PStored(d) => PStored(d)' /\ pown'[d] = pown[d]
         /\ \A d \in Ids : d # c => (PStored(d)' <=> PStored(d))
<1>t. PTypeOK /\ pnodes \in [Ids -> Ids \cup {-1}]
  BY DEF PTypes, PTypeOK
<1>1. PTable \subseteq PTable'
  <2>1. ppc[c] # "call" => pown[c] \in Ids
    BY PAtNeighborIs
  <2>2. ppc[c] = "make" => PNeighbor(c) \in Ids
    BY PAtNeighborIs DEF PAtNeighbor
  <2>3. ppc[c] = "first" => PTable = {}
    BY POnceBefore DEF PUnmade, PTable
  <2>4. ASSUME NEW v \in Ids, pnodes[v] # -1, ppc[c] # "first"
        PROVE  pnodes'[v] # -1
    BY <1>t, <2>1, <2>2, <2>4, PNodesChange, Parameters
  <2> QED
    BY <2>3, <2>4 DEF PTable
<1>2. ASSUME NEW d \in Ids, d # c
      PROVE  ppc'[d] = ppc[d] /\ pown'[d] = pown[d]
  BY <1>t, <1>2, PElsewhere
<1>3. ASSUME PStored(c)
      PROVE  PStored(c)' /\ pown'[c] = pown[c]
  <2>1. PMove(c)
    BY PMoves
  <2>2. PStored(c)'
    BY <1>3, <2>1 DEF PMove, PBegins, PRanges, PLinks, PEnds, PStored
  <2>3. ppc[c] # "call"
    BY <1>3 DEF PStored
  <2> QED
    BY <2>2, <2>3, PLocalsChange
<1> QED
  BY <1>1, <1>2, <1>3 DEF PStored

(* A stored vertex is not replaced.                                          *)
LEMMA PStepStoredStay ==
  ASSUME PTypes, STypeOK, PUnmade, PSound, NEW c \in Ids, PStep(c), POnce'
  PROVE  PStoredStay' /\ PMakesNew'
<1>t. PTypeOK /\ pnodes \in [Ids -> Ids \cup {-1}] /\ PMove(c)
  BY PMoves DEF PTypes, PTypeOK
<1>o. \A d \in Ids : d # c => /\ ppc'[d] = ppc[d] /\ pown'[d] = pown[d]
                              /\ PNeighbor(d)' = PNeighbor(d)
  BY <1>t, PElsewhere DEF PNeighbor
<1>1. PStoredStay'
  <2>1. CASE ppc[c] = "first"
    <3>1. pfirsts = {} /\ (\A d \in Ids : ~PStored(d)) /\ pown' = pown
      BY <2>1, POnceBefore, PLocalsChange DEF PUnmade, PStored
    <3>2. pnodes' = [v \in Ids |-> IF v = c THEN pown[c] ELSE -1]
      BY <2>1, PActionAt, Shared DEF P!First
    <3> QED
      BY <3>1, <3>2, PGrows DEF PStoredStay
  <2>2. CASE ppc[c] = "store"
    <3>1. pnodes' = [pnodes EXCEPT ![c] = pown[c]] /\ pown' = pown
      BY <2>2, PActionAt DEF P!Store
    <3> QED
      BY <1>t, <3>1, PGrows DEF PStoredStay, PSound
  <2>3. CASE ppc[c] = "make"
    <3>1. pnodes' = [pnodes EXCEPT ![PNeighbor(c)] = c] /\ pown' = pown
      BY <2>3, PActionAt DEF P!MakePlaceholder, P!Neighbor, PNeighbor
    <3>2. PStored(c) /\ ~PStored(PNeighbor(c)) /\ PNeighbor(c) \in Ids
      BY <2>3, PAtNeighborIs DEF PSound, PMakesNew, PStored, PAtNeighbor
    <3>3. PICK v \in Ids : v = PNeighbor(c)
      BY <3>2
    <3>4. ~PStored(v)'
      BY <3>2, <3>3, PGrows
    <3> QED
      BY <1>t, <3>1, <3>2, <3>3, <3>4, PGrows DEF PStoredStay, PSound
  <2>4. CASE ppc[c] \notin {"first", "store", "make"}
    <3>1. pnodes' = pnodes
      BY <1>t, <2>4, PNodesChange
    <3>2. PStored(c)' => PStored(c)
      BY <1>t, <2>4 DEF PMove, PBegins, PRanges, PLinks, PEnds, PStored
    <3> QED
      BY <3>1, <3>2, PGrows DEF PStoredStay, PSound
  <2> QED
    BY <2>1, <2>2, <2>3, <2>4
<1>2. PMakesNew'
  <2>1. ASSUME ppc'[c] = "make"
        PROVE  ~PStored(PNeighbor(c))'
    <3>1. /\ ppc[c] = "range" /\ PNeighbor(c)' = PNeighbor(c) /\ pnodes[PNeighbor(c)] = -1
          /\ pidx[c] <= Len(pneighbors[c])
      BY <1>t, <2>1 DEF PMove, PBegins, PRanges, PLinks, PEnds, PSameList, PNeighbor
    <3>2. PNeighbor(c) \in Ids
      BY <3>1, PAtNeighborIs
    <3>3. ~PStored(PNeighbor(c))
      <4>1. PStored(PNeighbor(c)) => pown[PNeighbor(c)] \in Ids
        BY <3>2, PAtNeighborIs DEF PStored
      <4> QED
        BY <3>1, <3>2, <4>1, Parameters DEF PSound, PStoredStay
    <3>4. PStored(c)
      BY <3>1 DEF PStored
    <3> QED
      BY <3>1, <3>2, <3>3, <3>4, PGrows
  <2>2. ASSUME NEW d \in Ids, d # c, ppc'[d] = "make"
        PROVE  ~PStored(PNeighbor(d))'
    <3>1. ppc[d] = "make" /\ PNeighbor(d)' = PNeighbor(d)
      BY <1>o, <2>2
    <3>2. PNeighbor(d) \in Ids /\ ~PStored(PNeighbor(d))
      BY <3>1, PAtNeighborIs DEF PSound, PMakesNew, PAtNeighbor
    <3>3. ppc[c] \notin {"first", "store"}
      BY <2>2, <3>1, PActionAt, Shared DEF P!First, P!Store, P!Readers
    <3>4. PStored(c)' => PStored(c)
      BY <1>t, <3>3 DEF PMove, PBegins, PRanges, PLinks, PEnds, PStored
    <3> QED
      BY <3>1, <3>2, <3>4, PGrows
  <2> QED
    BY <2>1, <2>2 DEF PMakesNew
<1> QED
  BY <1>1, <1>2

(* A call that has stored its vertex can be linked to.                       *)
LEMMA POwnIn ==
  ASSUME PTypes, PStoredStay, NEW c \in Ids, PStored(c)
  PROVE  c \in PTable
<1>1. pown[c] \in Ids
  BY PAtNeighborIs DEF PStored
<1> QED
  BY <1>1, Parameters DEF PStoredStay, PTable

(* The neighbors of a call are in the table.                                 *)
LEMMA PStepNeighborsIn ==
  ASSUME PTypes, STypeOK, PUnmade, PSound, NEW c \in Ids, PStep(c), POnce', pinserts' = pinserts
  PROVE  PNeighborsIn' /\ PRangesIn' /\ PNoPanic'
<1>t. PTypeOK /\ PMove(c) /\ PTable \subseteq PTable'
  BY PMoves, PGrows DEF PTypes
<1>o. \A d \in Ids : d # c => /\ ppc'[d] = ppc[d] /\ pneighbors'[d] = pneighbors[d]
                              /\ PNeighbor(d)' = PNeighbor(d)
  BY <1>t, PElsewhere DEF PNeighbor
<1>1. PNeighborsIn'
  <2>1. ASSUME PHasNeighbor(c)'
        PROVE  PNeighbor(c)' \in PTable'
    <3>1. /\ PNeighbor(c)' = PNeighbor(c)
          /\ \/ PHasNeighbor(c) \/ ppc[c] = "reread"
             \/ ppc[c] = "range" /\ pidx[c] <= Len(pneighbors[c]) /\ pnodes[PNeighbor(c)] # -1
      BY <1>t, <2>1 DEF PMove, PBegins, PRanges, PLinks, PEnds, PSameList, PNeighbor, PHasNeighbor
    <3>2. ppc[c] = "reread" => pnodes[PNeighbor(c)] # -1
      BY DEF PTypes, PHolds
    <3>3. PNeighbor(c) \in PTable
      BY <3>1, <3>2, PAtNeighborIs DEF PSound, PNeighborsIn, PTable, PAtNeighbor
    <3> QED
      BY <1>t, <3>1, <3>3
  <2>2. ASSUME NEW d \in Ids, d # c, PHasNeighbor(d)'
        PROVE  PNeighbor(d)' \in PTable'
    BY <1>t, <1>o, <2>2 DEF PSound, PNeighborsIn, PHasNeighbor
  <2> QED
    BY <2>1, <2>2 DEF PNeighborsIn
<1>2. PRangesIn'
  <2>1. ASSUME c \in pinserts, ppc'[c] = "range" \/ PAtNeighbor(c)'
        PROVE  Elements(pneighbors'[c]) \subseteq PTable'
    <3>1. \/ pneighbors'[c] \in PChoices
          \/ pneighbors'[c] = pneighbors[c] /\ (ppc[c] = "range" \/ PAtNeighbor(c))
      BY <1>t, <2>1 DEF PMove, PBegins, PRanges, PLinks, PEnds, PSameList, PAtNeighbor
    <3> QED
      BY <1>t, <2>1, <3>1 DEF PSound, PRangesIn, PChoices
  <2>2. ASSUME NEW d \in pinserts, d # c, ppc'[d] = "range" \/ PAtNeighbor(d)'
        PROVE  Elements(pneighbors'[d]) \subseteq PTable'
    <3>1. d \in Ids
      BY <1>t DEF PTypeOK
    <3> QED
      BY <1>t, <1>o, <2>2, <3>1 DEF PSound, PRangesIn, PAtNeighbor
  <2> QED
    BY <2>1, <2>2 DEF PRangesIn
<1>3. PNoPanic'
  <2>1. ppc'[c] # "panic"
    <3> SUFFICES ASSUME ppc'[c] = "panic" PROVE FALSE
      OBVIOUS
    <3>1. ppc[c] = "range" /\ pidx[c] <= Len(pneighbors[c]) /\ pnodes[PNeighbor(c)] = -1 /\ c \in pinserts
      BY <1>t DEF PMove, PBegins, PRanges, PLinks, PEnds
    <3>2. PNeighbor(c) \in Elements(pneighbors[c])
      BY <3>1, PAtNeighborIs
    <3> QED
      BY <3>1, <3>2 DEF PSound, PRangesIn, PTable
  <2> QED
    BY <1>o, <2>1 DEF PSound, PNoPanic
<1> QED
  BY <1>1, <1>2, <1>3

(* What the graph refers to is in the table.                                 *)
LEMMA PStepListsIn ==
  ASSUME PTypes, STypeOK, PUnmade, PSound, NEW c \in Ids, PStep(c), POnce'
  PROVE  PListsIn' /\ PSnapshotsIn' /\ PChosenIn' /\ PEntryIn'
<1>t. PTypeOK /\ PTable \subseteq PTable' /\ PMove(c)
  BY PMoves, PGrows DEF PTypes
<1>y. /\ pconnections \in Tables /\ psnapshot \in [Ids -> Seq(Ids)] /\ player[c] \in Levels
      /\ pchosen \in [Ids -> [Levels -> Seq(Ids)]]
  BY <1>t DEF PTypeOK
<1>s. PStored(c) => c \in PTable
  BY POwnIn DEF PSound
<1>e. \A l \in Levels : Unlinked[l] \in Seq(Ids) /\ Elements(Unlinked[l]) = {}
  BY Parameters, ElementsOf
<1>1. PListsIn'
  <2> DEFINE In(f) == \A v, m \in Ids, i \in Levels : Elements(f[v][m][i]) \subseteq PTable
  <2>0. In(pconnections)
    BY DEF PSound, PListsIn
  <2>1. SUFFICES In(pconnections')
    BY <1>t, <2>1 DEF PListsIn
  <2>2. CASE pown[c] \in Ids /\ pconnections' = [pconnections EXCEPT ![c][pown[c]] = Unlinked]
    <3>1. \A v, m \in Ids, l \in Levels :
            pconnections'[v][m][l] = IF v = c /\ m = pown[c] THEN Unlinked[l] ELSE pconnections[v][m][l]
      BY <1>y, <2>2 DEF Tables
    <3> QED
      BY <1>e, <2>0, <3>1
  <2>3. ASSUME NEW a \in Ids, NEW b \in Ids, NEW x \in PTable,
               pconnections' = [pconnections EXCEPT
                 ![a][b][player[c]] = Append(pconnections[a][b][player[c]], x)]
        PROVE  In(pconnections')
    <3>1. PICK q \in Seq(Ids) : q = pconnections[a][b][player[c]] /\ Elements(q) \subseteq PTable
      <4>1. pconnections[a][b][player[c]] \in Seq(Ids)
        BY <1>y DEF Tables
      <4>2. Elements(pconnections[a][b][player[c]]) \subseteq PTable
        BY <1>y DEF PSound, PListsIn
      <4> QED
        BY <4>1, <4>2
    <3>2. x \in Ids
      BY DEF PTable
    <3>3. PICK r \in Seq(Ids) : r = Append(q, x) /\ Elements(r) \subseteq PTable
      <4>1. Append(q, x) \in Seq(Ids) /\ Elements(Append(q, x)) = Elements(q) \cup {x}
        BY <3>2, ElementsOf
      <4> QED
        BY <3>1, <4>1
    <3>4. pconnections' = [pconnections EXCEPT ![a][b][player[c]] = r]
      BY <2>3, <3>1, <3>3
    <3> HIDE DEF In
    <3>5. In([pconnections EXCEPT ![a][b][player[c]] = r])
      BY <1>y, <2>0, <3>3, ReplacedIn, ZenonT(60) DEF In
    <3> QED
      BY <3>4, <3>5
  <2>4. ASSUME NEW s \in P!Nearest(Elements(psnapshot[c]), Dist[c], Limit(player[c])),
               pneighbor[c] \in Ids, PNeighbor(c) \in Ids,
               pconnections' = [pconnections EXCEPT ![PNeighbor(c)][pneighbor[c]][player[c]] = s]
        PROVE  In(pconnections')
    <3>1. psnapshot[c] \in Seq(Ids) /\ Elements(psnapshot[c]) \subseteq Ids
      BY <1>y, ElementsOf
    <3>2. s \in Seq(Ids) /\ Elements(s) \subseteq Elements(psnapshot[c])
      BY <1>y, <3>1, NearestList, Parameters
    <3>3. Elements(s) \subseteq PTable
      BY <3>2 DEF PSound, PSnapshotsIn
    <3> HIDE DEF In
    <3>4. In([pconnections EXCEPT ![PNeighbor(c)][pneighbor[c]][player[c]] = s])
      BY <1>y, <2>0, <2>4, <3>2, <3>3, ReplacedIn, SMTT(30) DEF In
    <3> QED
      BY <2>4, <3>4
  <2>5. ppc[c] = "link" => c \in PTable
    BY <1>s DEF PStored
  <2>6. ppc[c] = "linkSelf" => PNeighbor(c) \in PTable
    BY DEF PSound, PNeighborsIn, PHasNeighbor
  <2> HIDE DEF In
  <2>7. CASE pconnections' = pconnections
    BY <2>0, <2>7
  <2>8. CASE /\ ppc[c] = "link" /\ pneighbor[c] \in Ids /\ PNeighbor(c) \in Ids
             /\ pconnections' = [pconnections EXCEPT
                  ![PNeighbor(c)][pneighbor[c]][player[c]] =
                     Append(pconnections[PNeighbor(c)][pneighbor[c]][player[c]], c)]
    BY <2>3, <2>5, <2>8
  <2>9. CASE /\ ppc[c] = "linkSelf" /\ pown[c] \in Ids
             /\ pconnections' = [pconnections EXCEPT
                  ![c][pown[c]][player[c]] =
                     Append(pconnections[c][pown[c]][player[c]], PNeighbor(c))]
    BY <2>3, <2>6, <2>9
  <2> QED
    BY <2>2, <2>4, <2>7, <2>8, <2>9, PListsChange
<1>2. PSnapshotsIn'
  <2> SUFFICES ASSUME NEW d \in Ids PROVE Elements(psnapshot'[d]) \subseteq PTable'
    BY DEF PSnapshotsIn
  <2>1. Elements(psnapshot[d]) \subseteq PTable /\ Elements(<<>>) = {}
    BY <1>y, ElementsOf DEF PSound, PSnapshotsIn
  <2>2. \A a, b \in Ids : Elements(pconnections[a][b][player[c]]) \subseteq PTable
    BY <1>y DEF PSound, PListsIn
  <2>3. CASE psnapshot' = psnapshot
    BY <1>t, <2>1, <2>3
  <2>4. CASE psnapshot' = [psnapshot EXCEPT ![c] = <<>>]
    BY <1>t, <1>y, <2>1, <2>4
  <2>5. CASE /\ pneighbor[c] \in Ids /\ PNeighbor(c) \in Ids
             /\ psnapshot' = [psnapshot EXCEPT
                   ![c] = pconnections[PNeighbor(c)][pneighbor[c]][player[c]]]
    BY <1>t, <1>y, <2>1, <2>2, <2>5
  <2> QED
    BY <2>3, <2>4, <2>5, PLocalsChange
<1>3. PChosenIn'
  <2> SUFFICES ASSUME NEW d \in Ids, NEW l \in Levels PROVE Elements(pchosen'[d][l]) \subseteq PTable'
    BY DEF PChosenIn
  <2>1. Elements(pchosen[d][l]) \subseteq PTable
    BY DEF PSound, PChosenIn
  <2>2. CASE pchosen' = pchosen
    BY <1>t, <2>1, <2>2
  <2>3. ASSUME NEW s \in PChoices, pchosen' = [pchosen EXCEPT ![c][player[c]] = s]
        PROVE  Elements(pchosen'[d][l]) \subseteq PTable'
    <3>1. Elements(s) \subseteq PTable
      BY DEF PChoices
    <3>2. pchosen'[d][l] = IF d = c /\ l = player[c] THEN s ELSE pchosen[d][l]
      BY <1>y, <2>3
    <3> QED
      BY <1>t, <2>1, <3>1, <3>2
  <2> QED
    BY <2>2, <2>3, PLocalsChange
<1>4. PEntryIn'
  <2>1. ppc[c] \in {"first", "publish"} => c \in PTable'
    <3>1. ppc[c] = "publish" => c \in PTable
      BY <1>s DEF PStored
    <3>2. ppc[c] = "first" => pnodes' = [v \in Ids |-> IF v = c THEN pown[c] ELSE -1] /\ pown[c] \in Ids
      BY PActionAt, PAtNeighborIs, Shared DEF P!First
    <3> QED
      BY <1>t, <3>1, <3>2, Parameters DEF PTable
  <2>2. pfirsts' # {} /\ ppc[c] # "first" => pfirsts # {}
    BY <1>t, PNodesChange
  <2>3. ppc[c] = "first" => pentryPointID' = c
    BY PActionAt DEF P!First
  <2> QED
    BY <1>t, <2>1, <2>2, <2>3, PTopChange DEF PEntryIn, PSound
<1> QED
  BY <1>1, <1>2, <1>3, <1>4

(* A step keeps all of that.                                                 *)
LEMMA PStepSound ==
  ASSUME PTypes, STypeOK, PUnmade, POnce => PSound, NEW c \in Ids, PStep(c), pinserts' = pinserts
  PROVE  POnce' => PSound'
BY POnceBefore, PStepStoredStay, PStepNeighborsIn, PStepListsIn DEF PSound

-------------------------------------------------------------------------------
(* What the two graphs know of each other.                                   *)

(* An insertion makes its own vertex.                                        *)
LEMMA PLocalsAtCall ==
  ASSUME PTypes, STypeOK, NEW c \in Ids, PStep(c), ppc[c] = "call", c \in pinserts
  PROVE  pown'[c] = c
<1>1. P!InsertReadTotal(c)
  BY DEF PStep, P!Insert, P!InsertFromExternal, P!InsertAsExternal,
         P!Lookup, P!First, P!ReadMaximumLayer, P!Store, P!EnterLevel, P!NextLevel,
         P!FindNeighbor, P!MakePlaceholder, P!RereadPlaceholder, P!LinkNeighbor,
         P!LinkSelf, P!CountNeighbor, P!NextNeighbor, P!Prune, P!CheckMaximumLayer,
         P!Publish, P!InsertReadTotal, P!InsertFirst, P!InsertReadMaximumLayer,
         P!SelectNeighbors, P!InsertFindNeighbor, P!InsertPanic,
         P!InsertCheckMaximumLayer, P!graph
<1> QED
  BY <1>1, Shared DEF P!InsertReadTotal, PTypes, PTypeOK

(* The call that raises the maximum layer becomes the entry point.           *)
LEMMA PPublishes ==
  ASSUME PTypes, STypeOK, NEW c \in Ids, PStep(c), ppc[c] = "publish"
  PROVE  /\ pentryPointID' = c
         /\ pcurrentMaximumLayer' = IF c \in pinserts THEN plevelOf[c][c] ELSE slevelOf[c][c]
<1>1. P!Publish(c)
  BY DEF PStep, P!Insert, P!InsertFromExternal, P!InsertAsExternal,
         P!Lookup, P!First, P!ReadMaximumLayer, P!Store, P!EnterLevel, P!NextLevel,
         P!FindNeighbor, P!MakePlaceholder, P!RereadPlaceholder, P!LinkNeighbor,
         P!LinkSelf, P!CountNeighbor, P!NextNeighbor, P!Prune, P!CheckMaximumLayer,
         P!Publish, P!InsertReadTotal, P!InsertFirst, P!InsertReadMaximumLayer,
         P!SelectNeighbors, P!InsertFindNeighbor, P!InsertPanic,
         P!InsertCheckMaximumLayer, P!graph
<1>2. pentryPointID' = c /\ pcurrentMaximumLayer' = PHook[c].target
  BY <1>1, Shared DEF P!Publish, PHook
<1> QED
  BY <1>2, PHookIs DEF PTypes

(* PGrows, for the vertex of the entry point as it becomes.                  *)
LEMMA PGrowsAt ==
  ASSUME PTypes, STypeOK, PUnmade, NEW c \in Ids, PStep(c), POnce', pentryPointID' = pentryPointID,
         pentryPointID \in Ids, PStored(pentryPointID)
  PROVE  pown'[pentryPointID] = pown[pentryPointID] /\ PStored(pentryPointID)'
<1>1. PICK e \in Ids : e = pentryPointID
  OBVIOUS
<1>2. PStored(e)' /\ pown'[e] = pown[e]
  BY <1>1, PGrows
<1> QED
  BY <1>1, <1>2 DEF PStored

(* A step keeps the relation of jobs and hooks.                              *)
LEMMA PStepJobs ==
  ASSUME PTypes, STypeOK, PJobs, NEW c \in Ids, PStep(c), pinserts' = pinserts, shooked' = shooked
  PROVE  PJobs' /\ phooked \subseteq phooked'
<1>t. PTypeOK /\ PMove(c)
  BY PMoves DEF PTypes
<1>1. phooked' = phooked \/ (c \in pinserts /\ phooked' = phooked \cup {c} /\ ppc'[c] \in {"publish", "done"})
  BY PLocalsChange
<1>2. \A d \in Ids : d # c => ppc'[d] = ppc[d]
  BY <1>t, PElsewhere
<1>3. ppc[c] \in {"publish", "done"} => ppc'[c] \in {"publish", "done"}
  BY <1>t DEF PMove, PBegins, PRanges, PLinks, PEnds
<1>4. ppc[c] = "call" => c \in pinserts \/ c \in shooked
  BY <1>t DEF PMove, PBegins, PRanges, PLinks, PEnds
<1>5. phooked \subseteq Ids
  BY <1>t DEF PTypeOK
<1> QED
  BY <1>1, <1>2, <1>3, <1>4, <1>5 DEF PJobs

(* What a call is linking stays in one of the tables.                        *)
LEMMA PStepNames ==
  ASSUME PTypes, STypeOK, PUnmade, PSound, SSound, PNames, PJobs, NEW c \in Ids, PStep(c),
         POnce', STable' = STable
  PROVE  PNames'
<1>t. PTypeOK /\ PMove(c) /\ PTable \subseteq PTable' /\ player[c] \in Levels
  BY PMoves, PGrows DEF PTypes, PTypeOK
<1>1. ASSUME NEW d \in Ids, d # c, ppc'[d] = "range" \/ PAtNeighbor(d)'
      PROVE  Elements(pneighbors'[d]) \subseteq PTable' \cup STable'
  <2>1. ppc'[d] = ppc[d] /\ pneighbors'[d] = pneighbors[d]
    BY <1>t, <1>1, PElsewhere
  <2> QED
    BY <1>t, <1>1, <2>1 DEF PNames, PAtNeighbor
<1>2. ASSUME ppc'[c] = "range" \/ PAtNeighbor(c)'
      PROVE  Elements(pneighbors'[c]) \subseteq PTable' \cup STable'
  <2>1. \/ pneighbors'[c] \in PChoices
        \/ c \notin pinserts /\ pneighbors'[c] = PHook[c].neighbors[player[c]]
        \/ pneighbors'[c] = pneighbors[c] /\ (ppc[c] = "range" \/ PAtNeighbor(c))
    BY <1>t, <1>2 DEF PMove, PBegins, PRanges, PLinks, PEnds, PSameList, PAtNeighbor
  <2>2. c \notin pinserts => Elements(PHook[c].neighbors[player[c]]) \subseteq STable
    <3>1. Elements(sconnections[c][c][player[c]]) \subseteq STable
      BY <1>t DEF SSound, SListsIn
    <3>2. Elements(schosen[c][player[c]]) \subseteq STable
      BY <1>t DEF SSound, SChosenIn
    <3> QED
      BY <1>t, <3>1, <3>2, PHookIs
  <2> QED
    BY <1>t, <2>1, <2>2 DEF PNames, PChoices
<1> QED
  BY <1>1, <1>2 DEF PNames

(* What no insertion has stored stays out of both tables.                    *)
LEMMA PStepUnused ==
  ASSUME PTypes, STypeOK, PUnmade, PSound, PNames, PJobs, SJobs, NEW c \in Ids, PStep(c),
         POnce', POnce, SOnce, UnusedOut,
         pinserts' = pinserts, sinserts' = sinserts, STable' = STable, spc' = spc
  PROVE  \A v \in Ids : Unused(v)' => v \notin PTable' \cup STable'
<1>t. PTypeOK /\ PMove(c)
  BY PMoves DEF PTypes
<1>1. \A v \in Ids : Unused(v)' => Unused(v)
  BY PGrows DEF Unused, SStored
<1>2. \A v \in Ids : Unused(v)' => v \notin PTable \cup STable
  BY <1>1 DEF UnusedOut
<1>3. ppc[c] # "call" /\ PStored(c)' => ~Unused(c)'
  <2>1. ppc[c] # "call" => c \in pinserts \/ (c \in sinserts /\ SStored(c))
    BY DEF PJobs, SJobs, SStored
  <2> QED
    BY <2>1 DEF Unused, SStored
<1>4. ASSUME NEW v \in Ids, v \in PTable', v \notin PTable
      PROVE  ~Unused(v)'
  <2>1. CASE ppc[c] = "first" /\ ppc'[c] = "done" /\ pnodes' = [w \in Ids |-> IF w = c THEN pown[c] ELSE -1]
    <3>1. v = c
      BY <1>4, <2>1 DEF PTable
    <3> QED
      BY <1>3, <2>1, <3>1 DEF PStored
  <2>2. CASE ppc[c] = "store" /\ ppc'[c] = "level" /\ pnodes' = [pnodes EXCEPT ![c] = pown[c]]
    <3>1. v = c
      BY <1>t, <1>4, <2>2 DEF PTable, PTypeOK
    <3> QED
      BY <1>3, <2>2, <3>1 DEF PStored
  <2>3. CASE ppc[c] = "make" /\ pnodes' = [pnodes EXCEPT ![PNeighbor(c)] = c]
    <3>1. v = PNeighbor(c)
      BY <1>t, <1>4, <2>3 DEF PTable, PTypeOK
    <3>2. v \in PTable \cup STable
      BY <2>3, <3>1, PAtNeighborIs DEF PNames, PAtNeighbor
    <3> QED
      BY <1>2, <3>2
  <2>4. CASE pnodes' = pnodes
    BY <1>4, <2>4 DEF PTable
  <2> QED
    BY <1>t, <2>1, <2>2, <2>3, <2>4, PNodesChange
<1>5. ASSUME NEW v \in Ids, Unused(v)'
      PROVE  v \notin PTable' \cup STable'
  BY <1>2, <1>4, <1>5
<1> QED
  BY <1>5

(* A step keeps the levels of its own graph...                               *)
LEMMA PStepLevels ==
  ASSUME PTypes, STypeOK, PUnmade, PJobs, SJobs, pinserts \cap sinserts = {}, PLevels,
         NEW c \in Ids, PStep(c),
         pinserts' = pinserts, shooked' = shooked, slevelOf' = slevelOf
  PROVE  PLevels'
<1>t. /\ PTypeOK /\ PMove(c) /\ plevelOf \in [Ids -> [Ids -> Levels]] /\ pinserts \subseteq Ids
      /\ pown \in [Ids -> Ids \cup {-1}]
  BY PMoves DEF PTypes, PTypeOK
<1>o. \A d \in Ids : d # c => ppc'[d] = ppc[d] /\ pown'[d] = pown[d] /\ plevelOf'[d] = plevelOf[d]
  <2>1. ASSUME NEW d \in Ids, d # c
        PROVE  plevelOf'[d] = plevelOf[d]
    BY <1>t, <2>1, PLevelsChange
  <2> QED
    BY <1>t, <2>1, PElsewhere
<1>s. shooked \subseteq Ids /\ shooked \subseteq sinserts
  BY DEF STypeOK, SJobs
<1>w. ppc[c] # "call" => pown' = pown /\ pown[c] \in Ids
  BY PLocalsChange, PAtNeighborIs
<1>1. \A d \in pinserts : ppc'[d] # "call" => pown'[d] = d
  <2>1. c \in pinserts /\ ppc'[c] # "call" => pown'[c] = c
    <3>1. ppc[c] = "call" /\ c \in pinserts => pown'[c] = c
      BY PLocalsAtCall
    <3> QED
      BY <1>w, <3>1 DEF PLevels
  <2> QED
    BY <1>t, <1>o, <2>1 DEF PLevels
<1>2. \A d \in shooked \ pfirsts' : ppc'[d] \notin {"call", "first"} =>
        plevelOf'[d][pown'[d]] = slevelOf[d][d]
  <2>1. pfirsts \subseteq pfirsts'
    BY <1>t, PNodesChange
  <2>2. ASSUME c \in shooked, c \notin pfirsts', ppc'[c] \notin {"call", "first"}
        PROVE  plevelOf'[c][pown'[c]] = slevelOf[c][c]
    <3>1. c \notin pinserts
      BY <1>s, <2>2
    <3>2. CASE ppc[c] = "call"
      <4>1. P!Lookup(c)
        BY <3>1, <3>2 DEF PStep, P!Insert, P!InsertFromExternal, P!InsertAsExternal,
         P!Lookup, P!First, P!ReadMaximumLayer, P!Store, P!EnterLevel, P!NextLevel,
         P!FindNeighbor, P!MakePlaceholder, P!RereadPlaceholder, P!LinkNeighbor,
         P!LinkSelf, P!CountNeighbor, P!NextNeighbor, P!Prune, P!CheckMaximumLayer,
         P!Publish, P!InsertReadTotal, P!InsertFirst, P!InsertReadMaximumLayer,
         P!SelectNeighbors, P!InsertFindNeighbor, P!InsertPanic,
         P!InsertCheckMaximumLayer, P!graph
      <4> DEFINE m == IF pnodes[c] = -1 THEN c ELSE pnodes[c]
      <4>2. /\ pown' = [pown EXCEPT ![c] = m]
            /\ plevelOf' = [plevelOf EXCEPT ![c][m] = PHook[c].target]
        BY <4>1, Shared DEF P!Lookup, PHook
      <4>3. m \in Ids
        BY <1>t DEF PTypeOK
      <4>4. PHook[c].target = slevelOf[c][c]
        BY <1>t, <3>1, PHookIs
      <4> HIDE DEF m
      <4> QED
        BY <1>t, <4>2, <4>3, <4>4
    <3>3. CASE ppc[c] # "call"
      <4>1. ppc[c] # "first"
        BY <2>2, PFirstMakes
      <4>2. plevelOf' = plevelOf
        BY <3>1, <3>3, <4>1, PLevelsChange
      <4> QED
        BY <1>w, <2>1, <2>2, <3>3, <4>1, <4>2 DEF PLevels
    <3> QED
      BY <3>2, <3>3
  <2>3. ASSUME NEW d \in shooked, d # c, d \notin pfirsts', ppc'[d] \notin {"call", "first"}
        PROVE  plevelOf'[d][pown'[d]] = slevelOf[d][d]
    BY <1>o, <1>s, <2>1, <2>3 DEF PLevels
  <2> QED
    BY <2>2, <2>3
<1>3. ASSUME POnce', pfirsts' # {}
      PROVE  /\ pentryPointID' \in Ids /\ PStored(pentryPointID)'
             /\ plevelOf'[pentryPointID'][pown'[pentryPointID']] = pcurrentMaximumLayer'
  <2>1. CASE ppc[c] = "first"
    <3>1. /\ ppc'[c] = "done" /\ pentryPointID' = c /\ pcurrentMaximumLayer' = 0
          /\ plevelOf' = [plevelOf EXCEPT ![c][pown[c]] = 0] /\ pown' = pown /\ pown[c] \in Ids
      BY <1>t, <1>w, <2>1, PActionAt, ZenonT(60) DEF P!First, PTypeOK
    <3> QED
      BY <1>t, <3>1 DEF PStored
  <2>2. CASE ppc[c] = "publish"
    <3>1. /\ ppc'[c] = "done" /\ pown' = pown /\ plevelOf' = plevelOf
      BY <1>t, <1>w, <2>2, PLevelsChange DEF PMove, PBegins, PRanges, PLinks, PEnds
    <3>2. pentryPointID' = c /\ pcurrentMaximumLayer' = IF c \in pinserts THEN plevelOf[c][c] ELSE slevelOf[c][c]
      BY <2>2, PPublishes
    <3>3. c \in pinserts => pown[c] = c
      BY <2>2 DEF PLevels
    <3>4. c \notin pinserts => plevelOf[c][pown[c]] = slevelOf[c][c]
      BY <2>2 DEF PLevels, PJobs, PUnmade
    <3> QED
      BY <3>1, <3>2, <3>3, <3>4 DEF PStored
  <2>3. CASE ppc[c] \notin {"first", "publish"}
    <3>1. pentryPointID' = pentryPointID /\ pcurrentMaximumLayer' = pcurrentMaximumLayer /\ pfirsts' = pfirsts
      BY <1>t, <2>3, PTopChange, PNodesChange
    <3>2. POnce
      BY <1>3, POnceBefore
    <3>3. /\ pentryPointID \in Ids /\ PStored(pentryPointID)
          /\ plevelOf[pentryPointID][pown[pentryPointID]] = pcurrentMaximumLayer
      BY <1>3, <3>1, <3>2 DEF PLevels
    <3>4. pown'[pentryPointID] = pown[pentryPointID] /\ PStored(pentryPointID)'
      BY <1>3, <3>1, <3>3, PGrowsAt
    <3>5. plevelOf'[pentryPointID] = plevelOf[pentryPointID]
      <4>1. pentryPointID = c => plevelOf' = plevelOf
        BY <3>3, PLevelsChange DEF PStored
      <4> QED
        BY <1>o, <3>3, <4>1
    <3> QED
      BY <3>1, <3>3, <3>4, <3>5
  <2> QED
    BY <2>1, <2>2, <2>3
<1> QED
  BY <1>1, <1>2, <1>3 DEF PLevels

(* ... and those of the other one.                                           *)
LEMMA POtherLevels ==
  ASSUME PTypes, STypeOK, PJobs, SJobs, pinserts \cap sinserts = {}, SLevels,
         NEW c \in Ids, PStep(c), pinserts' = pinserts,
         sfirsts' = sfirsts, spc' = spc, sown' = sown, slevelOf' = slevelOf,
         sinserts' = sinserts, sentryPointID' = sentryPointID,
         scurrentMaximumLayer' = scurrentMaximumLayer
  PROVE  SLevels'
<1>t. PTypeOK /\ plevelOf \in [Ids -> [Ids -> Levels]] /\ pinserts \subseteq Ids
  BY DEF PTypes, PTypeOK
<1>1. ASSUME NEW d \in phooked' \ sfirsts, spc[d] \notin {"call", "first"}
      PROVE  d \in phooked /\ plevelOf'[d] = plevelOf[d]
  <2>1. \/ phooked' = phooked
        \/ c \in pinserts /\ phooked' = phooked \cup {c}
    BY PLocalsChange
  <2>2. d \in phooked
    <3>1. c \in pinserts /\ c \notin phooked => spc[c] = "call"
      BY DEF SJobs
    <3> QED
      BY <1>1, <2>1, <3>1
  <2>3. d \in Ids /\ ppc[d] \in {"publish", "done"}
    BY <1>t, <2>2 DEF PJobs
  <2>4. plevelOf'[d] = plevelOf[d]
    BY <1>t, <2>3, PLevelsChange
  <2> QED
    BY <2>2, <2>4
<1>2. \A d \in phooked' \ sfirsts' : spc'[d] \notin {"call", "first"} =>
        slevelOf'[d][sown'[d]] = plevelOf'[d][d]
  BY <1>1, SMTT(30) DEF SLevels
<1> QED
  BY <1>2 DEF SLevels, SOnce, SStored

-------------------------------------------------------------------------------
(* A vertex that is not the first of a graph is linked on level 0.           *)

(* No list of level 0 is emptied, but by who makes the table.                *)
LEMMA PKeepsFilled ==
  ASSUME PTypes, STypeOK, PFilled, NEW c \in Ids, PStep(c),
         NEW d \in Ids, NEW m \in Ids, pconnections[d][m][0] # <<>>,
         ~(ppc[c] = "first" /\ d = c /\ m = pown[c])
  PROVE  pconnections'[d][m][0] # <<>>
<1>t. PTypeOK /\ PMove(c)
  BY PMoves DEF PTypes
<1>y. /\ pconnections \in Tables /\ psnapshot[c] \in Seq(Ids) /\ player[c] \in Levels
      /\ Limit(player[c]) \in Nat /\ Limit(player[c]) > 0 /\ 0 \in Levels
  BY <1>t, Parameters DEF PTypeOK
<1>a. ASSUME NEW a \in Ids, NEW b \in Ids, NEW x \in Ids,
             pconnections' = [pconnections EXCEPT
               ![a][b][player[c]] = Append(pconnections[a][b][player[c]], x)]
      PROVE  pconnections'[d][m][0] # <<>>
  <2>1. pconnections[a][b][player[c]] \in Seq(Ids)
    BY <1>y, ReadsList
  <2>2. PICK r \in Seq(Ids) : r = Append(pconnections[a][b][player[c]], x) /\ r # <<>>
    BY <2>1, ElementsOf
  <2>3. pconnections' = [pconnections EXCEPT ![a][b][player[c]] = r]
    BY <1>a, <2>2
  <2>4. [pconnections EXCEPT ![a][b][player[c]] = r][d][m][0] # <<>>
    BY <1>y, <2>2, FilledIn, SMTT(30)
  <2> QED
    BY <2>3, <2>4
<1>1. CASE pconnections' = pconnections
  BY <1>1
<1>2. CASE /\ ppc[c] = "first" /\ pown[c] \in Ids
           /\ pconnections' = [pconnections EXCEPT ![c][pown[c]] = Unlinked]
  BY <1>2, <1>y DEF Tables
<1>3. CASE /\ pneighbor[c] \in Ids /\ PNeighbor(c) \in Ids
           /\ pconnections' = [pconnections EXCEPT
                ![PNeighbor(c)][pneighbor[c]][player[c]] =
                   Append(pconnections[PNeighbor(c)][pneighbor[c]][player[c]], c)]
  BY <1>3, <1>a
<1>4. CASE /\ pown[c] \in Ids /\ PNeighbor(c) \in Ids
           /\ pconnections' = [pconnections EXCEPT
                ![c][pown[c]][player[c]] =
                   Append(pconnections[c][pown[c]][player[c]], PNeighbor(c))]
  BY <1>4, <1>a
<1>5. CASE /\ ppc[c] = "prune" /\ pneighbor[c] \in Ids /\ PNeighbor(c) \in Ids
           /\ \E s \in P!Nearest(Elements(psnapshot[c]), Dist[c], Limit(player[c])) :
                pconnections' = [pconnections EXCEPT
                   ![PNeighbor(c)][pneighbor[c]][player[c]] = s]
  <2>1. PICK s \in P!Nearest(Elements(psnapshot[c]), Dist[c], Limit(player[c])) :
          pconnections' = [pconnections EXCEPT ![PNeighbor(c)][pneighbor[c]][player[c]] = s]
    BY <1>5
  <2>2. Elements(psnapshot[c]) \subseteq Ids /\ Elements(psnapshot[c]) # {}
    <3>1. psnapshot[c] # <<>>
      BY <1>5 DEF PFilled
    <3> QED
      BY <1>y, <3>1, ElementsOf
  <2>3. s \in Seq(Ids) /\ s # <<>>
    BY <1>y, <2>2, NearestList
  <2>4. PICK a \in Ids : a = PNeighbor(c)
    BY <1>5
  <2>5. [pconnections EXCEPT ![a][pneighbor[c]][player[c]] = s][d][m][0] # <<>>
    BY <1>y, <1>5, <2>3, FilledIn
  <2> QED
    BY <2>1, <2>4, <2>5
<1> QED
  BY <1>1, <1>2, <1>3, <1>4, <1>5, PListsChange

(* linkSelf makes the list of the own vertex nonempty.                       *)
LEMMA PLinksItself ==
  ASSUME PTypes, STypeOK, NEW c \in Ids, PStep(c), ppc[c] = "linkSelf", player[c] = 0
  PROVE  pconnections'[c][pown[c]][0] # <<>>
<1>1. P!LinkSelf(c)
  BY DEF PStep, P!Insert, P!InsertFromExternal, P!InsertAsExternal,
         P!Lookup, P!First, P!ReadMaximumLayer, P!Store, P!EnterLevel, P!NextLevel,
         P!FindNeighbor, P!MakePlaceholder, P!RereadPlaceholder, P!LinkNeighbor,
         P!LinkSelf, P!CountNeighbor, P!NextNeighbor, P!Prune, P!CheckMaximumLayer,
         P!Publish, P!InsertReadTotal, P!InsertFirst, P!InsertReadMaximumLayer,
         P!SelectNeighbors, P!InsertFindNeighbor, P!InsertPanic,
         P!InsertCheckMaximumLayer, P!graph
<1>2. /\ pconnections \in Tables /\ 0 \in Levels /\ PNeighbor(c) \in Ids /\ pown[c] \in Ids
  BY PAtNeighborIs, Parameters DEF PTypes, PTypeOK, PAtNeighbor
<1>3. pconnections' = [pconnections EXCEPT ![c][pown[c]][0] =
                         Append(pconnections[c][pown[c]][0], PNeighbor(c))]
  BY <1>1 DEF P!LinkSelf, P!Neighbor, PNeighbor
<1>4. pconnections[c][pown[c]][0] \in Seq(Ids)
  BY <1>2, ReadsList
<1>5. PICK r \in Seq(Ids) : r = Append(pconnections[c][pown[c]][0], PNeighbor(c)) /\ r # <<>>
  BY <1>2, <1>4, ElementsOf
<1>6. pconnections' = [pconnections EXCEPT ![c][pown[c]][0] = r]
  BY <1>3, <1>5
<1>7. [pconnections EXCEPT ![c][pown[c]][0] = r][c][pown[c]][0] # <<>>
  BY <1>2, <1>5, FilledIn
<1> QED
  BY <1>6, <1>7

(* A step keeps vertices linked on level 0.                                  *)
LEMMA PStepFilled ==
  ASSUME PTypes, STypeOK, PUnmade, PJobs, SJobs, PFilled, SFilled, NEW c \in Ids, PStep(c),
         pinserts' = pinserts, sfirsts' = sfirsts
  PROVE  PFilled'
<1>t. /\ PTypeOK /\ PMove(c) /\ player[c] \in Levels /\ pidx[c] \in Nat /\ pneighbors[c] \in Seq(Ids)
      /\ pinserts \subseteq Ids /\ pchosen \in [Ids -> [Levels -> Seq(Ids)]]
      /\ pchosen[c] \in [Levels -> Seq(Ids)]
  <2>1. PTypeOK /\ PMove(c)
    BY PMoves DEF PTypes
  <2> QED
    BY <2>1 DEF PTypeOK
<1>f. pfirsts \subseteq pfirsts' /\ (ppc[c] = "first" => c \in pfirsts')
  BY <1>t, PNodesChange, PFirstMakes
<1>w. ppc[c] # "call" => pown' = pown /\ pown[c] \in Ids
  BY PLocalsChange, PAtNeighborIs
<1>1. ASSUME NEW d \in Ids, ppc'[d] = "prune"
      PROVE  psnapshot'[d] # <<>>
  <2>1. CASE d = c
    <3>1. /\ Len(pconnections[PNeighbor(c)][pneighbor[c]][player[c]]) > Limit(player[c])
          /\ psnapshot'[c] = pconnections[PNeighbor(c)][pneighbor[c]][player[c]]
      BY <1>t, <1>1, <2>1 DEF PMove, PBegins, PRanges, PLinks, PEnds
    <3>2. Limit(player[c]) \in Nat /\ Len(<<>>) = 0
      BY <1>t, Parameters
    <3>3. ~(Len(<<>>) > Limit(player[c]))
      BY <3>2
    <3> QED
      BY <2>1, <3>1, <3>3
  <2>2. CASE d # c
    BY <1>t, <1>1, <2>2, PElsewhere DEF PFilled
  <2> QED
    BY <2>1, <2>2
<1>2. ASSUME NEW d \in Ids, d # c, d \notin pfirsts' \cup sfirsts
      PROVE  /\ PAt0(d)' => pneighbors'[d] # <<>>
             /\ d \in pinserts /\ (PPast0(d)' \/ PAt0(d)') => pchosen'[d][0] # <<>>
             /\ PLinked0(d)' => pconnections'[d][pown'[d]][0] # <<>>
  <2>1. /\ ppc'[d] = ppc[d] /\ pown'[d] = pown[d] /\ player'[d] = player[d]
        /\ pneighbors'[d] = pneighbors[d] /\ pidx'[d] = pidx[d] /\ pchosen'[d] = pchosen[d]
    BY <1>t, <1>2, PElsewhere
  <2>2. PAt0(d)' = PAt0(d) /\ PPast0(d)' = PPast0(d) /\ PLinked0(d)' = PLinked0(d)
    BY <2>1 DEF PAt0, PPast0, PLinked0, PAtNeighbor
  <2>3. PLinked0(d) => pown[d] \in Ids
    BY PAtNeighborIs DEF PLinked0, PPast0, PAt0, PAtNeighbor
  <2>4. PLinked0(d) => pconnections'[d][pown[d]][0] # <<>>
    BY <1>2, <1>f, <2>3, PKeepsFilled DEF PFilled
  <2> QED
    BY <1>2, <1>f, <2>1, <2>2, <2>4 DEF PFilled
<1>3. ASSUME c \notin pfirsts' \cup sfirsts
      PROVE  /\ PAt0(c)' => pneighbors'[c] # <<>>
             /\ c \in pinserts /\ (PPast0(c)' \/ PAt0(c)') => pchosen'[c][0] # <<>>
             /\ PLinked0(c)' => pconnections'[c][pown'[c]][0] # <<>>
  <2>0. c \notin pfirsts \cup sfirsts /\ ppc[c] # "first"
    BY <1>3, <1>f
  <2>1. CASE PBegins(c)
    BY <2>0, <2>1 DEF PBegins, PAt0, PPast0, PLinked0, PAtNeighbor
  <2>2. CASE ppc[c] = "level" /\ ppc'[c] = "range"
    <3>1. /\ pidx'[c] = 1 /\ player'[c] = player[c]
          /\ IF c \in pinserts
             THEN pneighbors'[c] \in PChoices /\ pchosen'[c] = [pchosen[c] EXCEPT ![player[c]] = pneighbors'[c]]
             ELSE pneighbors'[c] = PHook[c].neighbors[player[c]]
      BY <1>t, <2>2 DEF PMove, PBegins, PRanges, PLinks, PEnds
    <3>2. ~PLinked0(c)' /\ ~PPast0(c)'
      BY <2>2, <3>1 DEF PLinked0, PPast0, PAt0, PAtNeighbor
    <3>3. ASSUME player[c] = 0, c \in pinserts
          PROVE  pneighbors'[c] # <<>> /\ pchosen'[c][0] # <<>>
      BY <1>t, <3>1, <3>3 DEF PChoices
    <3>4. ASSUME player[c] = 0, c \notin pinserts
          PROVE  pneighbors'[c] # <<>>
      <4>1. c \in shooked /\ c \in sinserts /\ SPast0(c)
        BY <2>2, <3>4 DEF PJobs, SJobs, SPast0
      <4>2. schosen[c][0] # <<>>
        BY <2>0, <4>1 DEF SFilled
      <4>3. PHook[c].neighbors = schosen[c]
        BY <1>t, <2>0, <3>4, PHookIs
      <4> QED
        BY <3>1, <3>4, <4>2, <4>3
    <3> QED
      BY <3>1, <3>2, <3>3, <3>4 DEF PAt0
  <2>3. CASE ppc[c] = "range" /\ ppc'[c] = "level"
    BY <2>3 DEF PAt0, PPast0, PLinked0, PAtNeighbor
  <2>4. CASE ppc[c] \notin {"call", "first", "max", "store", "level"} /\ ppc'[c] # "level"
    <3>1. pchosen'[c] = pchosen[c] /\ pown'[c] = pown[c] /\ pown[c] \in Ids
      BY <1>w, <2>4, PLocalsChange
    <3>2. PAt0(c)' => PAt0(c) /\ pneighbors'[c] = pneighbors[c]
      BY <1>t, <2>4 DEF PMove, PBegins, PRanges, PLinks, PEnds, PAt0, PAtNeighbor, PSameList
    <3>3. PPast0(c)' => PPast0(c) \/ (PAt0(c) /\ ppc[c] = "range" /\ pidx[c] > Len(pneighbors[c]))
      BY <1>t, <2>4 DEF PMove, PBegins, PRanges, PLinks, PEnds, PAt0, PPast0, PAtNeighbor
    <3>4. ASSUME PAt0(c), ppc[c] = "range", pidx[c] > Len(pneighbors[c])
          PROVE  PLinked0(c)
      <4>1. pneighbors[c] # <<>>
        BY <2>0, <3>4 DEF PFilled
      <4>2. Len(pneighbors[c]) \in Nat /\ Len(pneighbors[c]) > 0
        BY <1>t, <4>1
      <4>3. pidx[c] > 1
        BY <1>t, <3>4, <4>2
      <4> QED
        BY <3>4, <4>3 DEF PLinked0
    <3>5. PLinked0(c)' => PLinked0(c) \/ (ppc[c] = "linkSelf" /\ player[c] = 0)
      <4>1. PPast0(c)' => PLinked0(c)
        BY <3>3, <3>4 DEF PLinked0
      <4>2. PAt0(c)' /\ ppc'[c] \in {"count", "prune"} => PLinked0(c) \/ (ppc[c] = "linkSelf" /\ player[c] = 0)
        BY <1>t, <2>4, <3>2 DEF PMove, PBegins, PRanges, PLinks, PEnds, PLinked0, PAt0
      <4>3. PAt0(c)' /\ pidx'[c] > 1 => PLinked0(c) \/ (ppc[c] = "linkSelf" /\ player[c] = 0)
        BY <1>t, <2>4, <3>2 DEF PMove, PBegins, PRanges, PLinks, PEnds, PLinked0, PAt0, PSameList, PAtNeighbor
      <4> QED
        BY <4>1, <4>2, <4>3 DEF PLinked0
    <3>6. PLinked0(c) => pconnections'[c][pown[c]][0] # <<>>
      BY <2>0, <3>1, PKeepsFilled DEF PFilled
    <3>7. ppc[c] = "linkSelf" /\ player[c] = 0 => pconnections'[c][pown[c]][0] # <<>>
      BY PLinksItself
    <3>8. PAt0(c) => pneighbors[c] # <<>>
      BY <2>0 DEF PFilled
    <3>9. c \in pinserts /\ (PPast0(c) \/ PAt0(c)) => pchosen[c][0] # <<>>
      BY <2>0 DEF PFilled
    <3> QED
      BY <3>1, <3>2, <3>3, <3>5, <3>6, <3>7, <3>8, <3>9
  <2> QED
    BY <1>t, <2>0, <2>1, <2>2, <2>3, <2>4 DEF PMove, PBegins, PRanges, PLinks, PEnds
<1> QED
  BY <1>1, <1>2, <1>3 DEF PFilled

-------------------------------------------------------------------------------
(* What a step of call c of the secondary graph changes, variable by variable. *)

(* What a call is handed has the types it is used with.                      *)
LEMMA SHookIs ==
  ASSUME STypeOK, PTypeOK, NEW c \in Ids
  PROVE  /\ SHook[c].sent => c \notin sinserts /\ c \in phooked
         /\ SHook[c].target = IF c \in sinserts THEN slevelOf[c][c] ELSE plevelOf[c][c]
         /\ SHook[c].target \in Levels
         /\ SHook[c].neighbors = IF c \in sinserts THEN schosen[c]
                                 ELSE IF c \in pfirsts THEN pconnections[c][c] ELSE pchosen[c]
         /\ SHook[c].neighbors \in [Levels -> Seq(Ids)]
<1>1. SHook[c] = Arguments(c, sinserts, slevelOf, schosen, phooked, plevelOf, pchosen,
                           pfirsts, pconnections)
  BY DEF SHook
<1>2. /\ slevelOf[c][c] \in Levels /\ plevelOf[c][c] \in Levels
      /\ schosen[c] \in [Levels -> Seq(Ids)] /\ pchosen[c] \in [Levels -> Seq(Ids)]
      /\ pconnections[c][c] \in [Levels -> Seq(Ids)]
  <2>1. /\ slevelOf \in [Ids -> [Ids -> Levels]] /\ plevelOf \in [Ids -> [Ids -> Levels]]
        /\ schosen \in [Ids -> [Levels -> Seq(Ids)]] /\ pchosen \in [Ids -> [Levels -> Seq(Ids)]]
        /\ pconnections \in [Ids -> [Ids -> [Levels -> Seq(Ids)]]]
    BY DEF STypeOK, PTypeOK, Tables
  <2> QED
    BY <2>1
<1>3. CASE c \in sinserts
  <2>1. SHook[c] = [sent |-> FALSE, target |-> slevelOf[c][c], neighbors |-> schosen[c],
                    live |-> FALSE]
    BY <1>1, <1>3 DEF Arguments
  <2> QED
    BY <1>2, <1>3, <2>1
<1>4. CASE c \notin sinserts
  <2> DEFINE there == IF c \in pfirsts THEN pconnections[c][c] ELSE pchosen[c]
  <2>1. SHook[c] = [sent |-> c \in phooked, target |-> plevelOf[c][c],
                    neighbors |-> there, live |-> c \in pfirsts]
    BY <1>1, <1>4 DEF Arguments
  <2>2. there \in [Levels -> Seq(Ids)]
    BY <1>2
  <2> HIDE DEF there
  <2>3. SHook[c].sent => c \in phooked
    <3> SUFFICES ASSUME c \notin phooked PROVE ~SHook[c].sent
      OBVIOUS
    <3>1. (c \in phooked) = FALSE
      OBVIOUS
    <3>2. SHook[c] = [sent |-> FALSE, target |-> plevelOf[c][c],
                      neighbors |-> there, live |-> c \in pfirsts]
      BY <2>1, <3>1, Zenon
    <3> QED
      BY <3>2
  <2>4. SHook[c].target = plevelOf[c][c] /\ SHook[c].neighbors = there
    BY <2>1
  <2> QED
    BY <1>2, <1>4, <2>2, <2>3, <2>4 DEF there
<1> QED
  BY <1>3, <1>4

(* The locals of the other calls are left alone.                             *)
LEMMA SElsewhere ==
  ASSUME STypeOK, NEW c \in Ids, SStep(c), NEW d \in Ids, d # c
  PROVE  /\ spc'[d] = spc[d] /\ sown'[d] = sown[d] /\ slayer'[d] = slayer[d]
         /\ sneighbors'[d] = sneighbors[d] /\ sidx'[d] = sidx[d]
         /\ sneighbor'[d] = sneighbor[d] /\ ssnapshot'[d] = ssnapshot[d]
         /\ schosen'[d] = schosen[d] /\ (d \in shooked' <=> d \in shooked)
BY ZenonT(60) DEF STypeOK, SStep, S!Insert, S!InsertFromExternal, S!InsertAsExternal,
         S!Lookup, S!First, S!ReadMaximumLayer, S!Store, S!EnterLevel, S!NextLevel,
         S!FindNeighbor, S!MakePlaceholder, S!RereadPlaceholder, S!LinkNeighbor,
         S!LinkSelf, S!CountNeighbor, S!NextNeighbor, S!Prune, S!CheckMaximumLayer,
         S!Publish, S!InsertReadTotal, S!InsertFirst, S!InsertReadMaximumLayer,
         S!SelectNeighbors, S!InsertFindNeighbor, S!InsertPanic,
         S!InsertCheckMaximumLayer, S!graph

(* The table changes in three ways.                                          *)
LEMMA SNodesChange ==
  ASSUME STypeOK, NEW c \in Ids, SStep(c)
  PROVE  \/ snodes' = snodes /\ sfirsts' = sfirsts
         \/ /\ spc[c] = "first" /\ spc'[c] = "done"
            /\ \A d \in Ids : spc[d] \notin {"make", "reread"}
            /\ snodes' = [v \in Ids |-> IF v = c THEN sown[c] ELSE -1]
            /\ sfirsts' = sfirsts \cup {c}
         \/ /\ spc[c] = "store" /\ spc'[c] = "level"
            /\ \A d \in Ids : spc[d] \notin {"make", "reread"}
            /\ snodes' = [snodes EXCEPT ![c] = sown[c]] /\ sfirsts' = sfirsts
         \/ /\ spc[c] = "make" /\ spc'[c] = "reread"
            /\ snodes' = [snodes EXCEPT ![SNeighbor(c)] = c] /\ sfirsts' = sfirsts
<1> USE Shared DEF STypeOK
<1>1. CASE S!First(c)
  BY <1>1 DEF S!First, S!Readers
<1>2. CASE S!Store(c)
  BY <1>2 DEF S!Store, S!Readers
<1>3. CASE S!MakePlaceholder(c)
  BY <1>3, SMTT(30) DEF S!MakePlaceholder, S!Neighbor, SNeighbor
<1>4. CASE ~S!First(c) /\ ~S!Store(c) /\ ~S!MakePlaceholder(c)
  BY <1>4, Zenon DEF SStep, S!Insert, S!InsertFromExternal, S!InsertAsExternal,
         S!Lookup, S!ReadMaximumLayer, S!EnterLevel, S!NextLevel,
         S!FindNeighbor, S!RereadPlaceholder, S!LinkNeighbor,
         S!LinkSelf, S!CountNeighbor, S!NextNeighbor, S!Prune, S!CheckMaximumLayer,
         S!Publish, S!InsertReadTotal, S!InsertFirst, S!InsertReadMaximumLayer,
         S!SelectNeighbors, S!InsertFindNeighbor, S!InsertPanic,
         S!InsertCheckMaximumLayer, S!graph
<1> QED
  BY <1>1, <1>2, <1>3, <1>4

(* Lists of connections.                                                     *)
LEMMA SListsChange ==
  ASSUME STypes, NEW c \in Ids, SStep(c)
  PROVE  \/ sconnections' = sconnections
         \/ /\ spc[c] = "first" /\ sown[c] \in Ids
            /\ sconnections' = [sconnections EXCEPT ![c][sown[c]] = Unlinked]
         \/ /\ spc[c] = "link" /\ spc'[c] = "linkSelf" /\ sneighbor[c] \in Ids /\ SNeighbor(c) \in Ids
            /\ sconnections' = [sconnections EXCEPT
                 ![SNeighbor(c)][sneighbor[c]][slayer[c]] =
                    Append(sconnections[SNeighbor(c)][sneighbor[c]][slayer[c]], c)]
         \/ /\ spc[c] = "linkSelf" /\ spc'[c] = "count" /\ sown[c] \in Ids /\ SNeighbor(c) \in Ids
            /\ sconnections' = [sconnections EXCEPT
                 ![c][sown[c]][slayer[c]] =
                    Append(sconnections[c][sown[c]][slayer[c]], SNeighbor(c))]
         \/ /\ spc[c] = "prune" /\ spc'[c] = "range" /\ sneighbor[c] \in Ids /\ SNeighbor(c) \in Ids
            /\ \E s \in S!Nearest(Elements(ssnapshot[c]), Dist[c], Limit(slayer[c])) :
                 sconnections' = [sconnections EXCEPT
                    ![SNeighbor(c)][sneighbor[c]][slayer[c]] = s]
<1> USE Shared
<1>0. spc[c] # "call" => sown[c] \in Ids
  BY DEF STypes, SHolds
<1>n. SHasNeighbor(c) => sneighbor[c] \in Ids /\ SNeighbor(c) \in Ids
  <2>1. SHolds(c) /\ sneighbors[c] \in Seq(Ids)
    BY DEF STypes, STypeOK
  <2> QED
    BY <2>1 DEF SHolds, SHasNeighbor, SAtNeighbor, SNeighbor
<1>p. ASSUME NEW x, spc' = [spc EXCEPT ![c] = x]
      PROVE  spc'[c] = x
  BY <1>p DEF STypes, STypeOK
<1>1. CASE S!First(c)
  BY <1>0, <1>1, SMTT(30) DEF S!First
<1>2. CASE S!LinkNeighbor(c)
  BY <1>n, <1>p, <1>2, Zenon DEF S!LinkNeighbor, S!Neighbor, SNeighbor, SHasNeighbor
<1>3. CASE S!LinkSelf(c)
  BY <1>0, <1>n, <1>p, <1>3, ZenonT(60) DEF S!LinkSelf, S!Neighbor, SNeighbor, SHasNeighbor
<1>4. CASE S!Prune(c)
  BY <1>n, <1>p, <1>4, Zenon DEF S!Prune, S!NextNeighbor, S!Neighbor, SNeighbor, SHasNeighbor
<1>5. CASE ~S!First(c) /\ ~S!LinkNeighbor(c) /\ ~S!LinkSelf(c) /\ ~S!Prune(c)
  BY <1>5, Zenon DEF SStep, S!Insert, S!InsertFromExternal, S!InsertAsExternal,
         S!Lookup, S!ReadMaximumLayer, S!Store, S!EnterLevel, S!NextLevel,
         S!FindNeighbor, S!MakePlaceholder, S!RereadPlaceholder, S!CountNeighbor, S!NextNeighbor, S!CheckMaximumLayer,
         S!Publish, S!InsertReadTotal, S!InsertFirst, S!InsertReadMaximumLayer,
         S!SelectNeighbors, S!InsertFindNeighbor, S!InsertPanic,
         S!InsertCheckMaximumLayer, S!graph
<1> QED
  BY <1>1, <1>2, <1>3, <1>4, <1>5

(* Levels.                                                                   *)
LEMMA SLevelsChange ==
  ASSUME STypes, PTypeOK, NEW c \in Ids, SStep(c)
  PROVE  \/ slevelOf' = slevelOf
         \/ /\ spc[c] = "call" /\ c \in phooked /\ c \notin sinserts
            /\ \E m \in Ids : m = sown'[c] /\ slevelOf' = [slevelOf EXCEPT ![c][m] = plevelOf[c][c]]
         \/ /\ spc[c] = "first" /\ sown[c] \in Ids
            /\ slevelOf' = [slevelOf EXCEPT ![c][sown[c]] = 0]
         \/ /\ spc[c] = "max" /\ c \in sinserts
            /\ \E l \in Levels : slevelOf' = [slevelOf EXCEPT ![c][c] = l]
<1> USE Shared
<1>0. spc[c] # "call" => sown[c] \in Ids
  BY DEF STypes, SHolds
<1>1. CASE S!Lookup(c) /\ c \notin sinserts
  <2>1. SHook[c].sent /\ c \notin sinserts /\ c \in phooked /\ SHook[c].target = plevelOf[c][c]
    BY <1>1, SHookIs DEF S!Lookup, SHook, STypes
  <2> DEFINE m == IF snodes[c] = -1 THEN c ELSE snodes[c]
  <2>2. /\ spc[c] = "call" /\ sown' = [sown EXCEPT ![c] = m]
        /\ slevelOf' = [slevelOf EXCEPT ![c][m] = SHook[c].target]
    BY <1>1 DEF S!Lookup, SHook
  <2>3. m \in Ids /\ sown'[c] = m
    BY <2>2 DEF STypes, STypeOK
  <2> HIDE DEF m
  <2> QED
    BY <2>1, <2>2, <2>3
<1>2. CASE S!First(c)
  BY <1>0, <1>2 DEF S!First
<1>3. CASE S!InsertReadMaximumLayer(c) /\ c \in sinserts
  BY <1>3, Zenon DEF S!InsertReadMaximumLayer
<1>4. CASE ~S!First(c) /\ ~S!InsertReadMaximumLayer(c) /\ ~S!Lookup(c)
  BY <1>4, Zenon DEF SStep, S!Insert, S!InsertFromExternal, S!InsertAsExternal,
         S!ReadMaximumLayer, S!Store, S!EnterLevel, S!NextLevel,
         S!FindNeighbor, S!MakePlaceholder, S!RereadPlaceholder, S!LinkNeighbor,
         S!LinkSelf, S!CountNeighbor, S!NextNeighbor, S!Prune, S!CheckMaximumLayer,
         S!Publish, S!InsertReadTotal, S!InsertFirst, S!SelectNeighbors, S!InsertFindNeighbor, S!InsertPanic,
         S!InsertCheckMaximumLayer, S!graph
<1> QED
  BY <1>1, <1>2, <1>3, <1>4, Zenon DEF SStep, S!Insert, S!InsertFromExternal, S!InsertAsExternal,
     S!InsertFirst, S!Store, S!NextLevel, S!LinkNeighbor, S!LinkSelf, S!CountNeighbor, S!Prune,
     S!Publish, S!InsertReadTotal, S!SelectNeighbors, S!InsertFindNeighbor, S!FindNeighbor,
     S!InsertPanic, S!InsertCheckMaximumLayer, S!CheckMaximumLayer, S!EnterLevel,
     S!ReadMaximumLayer, S!MakePlaceholder, S!RereadPlaceholder, S!graph

(* The entry point and the maximum layer.                                    *)
LEMMA STopChange ==
  ASSUME STypes, PTypeOK, NEW c \in Ids, SStep(c)
  PROVE  \/ UNCHANGED <<sentryPointID, scurrentMaximumLayer>>
         \/ spc[c] = "first" /\ sentryPointID' = c /\ scurrentMaximumLayer' = 0
         \/ /\ spc[c] = "publish" /\ sentryPointID' = c
            /\ scurrentMaximumLayer' = IF c \in sinserts THEN slevelOf[c][c] ELSE plevelOf[c][c]
<1>1. CASE S!First(c)
  BY <1>1 DEF S!First
<1>2. CASE S!Publish(c)
  <2>1. spc[c] = "publish" /\ sentryPointID' = c /\ scurrentMaximumLayer' = SHook[c].target
    BY <1>2, Shared, SMTT(30) DEF S!Publish, SHook
  <2> QED
    BY <2>1, SHookIs DEF STypes
<1>3. CASE ~S!First(c) /\ ~S!Publish(c)
  BY <1>3, Zenon DEF SStep, S!Insert, S!InsertFromExternal, S!InsertAsExternal,
         S!Lookup, S!ReadMaximumLayer, S!Store, S!EnterLevel, S!NextLevel,
         S!FindNeighbor, S!MakePlaceholder, S!RereadPlaceholder, S!LinkNeighbor,
         S!LinkSelf, S!CountNeighbor, S!NextNeighbor, S!Prune, S!CheckMaximumLayer,
         S!InsertReadTotal, S!InsertFirst, S!InsertReadMaximumLayer,
         S!SelectNeighbors, S!InsertFindNeighbor, S!InsertPanic,
         S!InsertCheckMaximumLayer, S!graph
<1> QED
  BY <1>1, <1>2, <1>3

(* A choice is a list of vertices that are in the table.                     *)
LEMMA SChoicesAre ==
  ASSUME STypeOK
  PROVE  S!Choices \subseteq SChoices
<1> SUFFICES ASSUME NEW s \in S!Choices PROVE s \in SChoices
  OBVIOUS
<1>1. PICK n \in 1 .. maximumConnections : s \in [1 .. n -> STable]
  BY Shared DEF S!Choices, STable
<1>2. n \in Nat /\ n > 0
  BY LimitAssumption
<1>3. s \in Seq(STable) /\ Len(s) = n /\ STable \subseteq Ids
  BY <1>1, <1>2 DEF STable
<1>4. s # <<>> /\ Elements(s) \subseteq STable
  BY <1>1, <1>2, <1>3 DEF Elements
<1> QED
  BY <1>3, <1>4 DEF SChoices

(* Every step is one of these moves.                                         *)
LEMMA SMoves ==
  ASSUME STypes, PTypeOK, NEW c \in Ids, SStep(c)
  PROVE  SMove(c)
<1> USE Shared
<1>a. /\ \A x : spc' = [spc EXCEPT ![c] = x] => spc'[c] = x
      /\ \A x : sidx' = [sidx EXCEPT ![c] = x] => sidx'[c] = x
      /\ \A x : slayer' = [slayer EXCEPT ![c] = x] => slayer'[c] = x
      /\ \A x : sneighbors' = [sneighbors EXCEPT ![c] = x] => sneighbors'[c] = x
      /\ \A x : sneighbor' = [sneighbor EXCEPT ![c] = x] => sneighbor'[c] = x
      /\ \A x : ssnapshot' = [ssnapshot EXCEPT ![c] = x] => ssnapshot'[c] = x
  BY DEF STypes, STypeOK
<1>b. slayer[c] \in Levels /\ scurrentMaximumLayer \in Levels /\ SHook[c].target \in Levels
      /\ sneighbors[c] \in Seq(Ids) /\ sidx[c] \in Nat /\ slayer[c] \in Nat
  <2>1. STypeOK /\ SHook[c].target \in Levels
    BY SHookIs DEF STypes
  <2> QED
    BY <2>1 DEF STypeOK, Levels
<1>1. CASE S!Lookup(c) /\ c \notin sinserts
  BY <1>a, <1>b, <1>1, SHookIs, Parameters
     DEF S!Lookup, SHook, S!graph, S!Neighbor, SMove, SBegins, SSameList, SNeighbor, SNeighborIs, STypes
<1>2. CASE S!First(c)
  BY <1>a, <1>b, <1>2
     DEF S!First, S!graph, S!Neighbor, SMove, SBegins, SSameList, SNeighbor, SNeighborIs, STypes
<1>3. CASE S!ReadMaximumLayer(c)
  <2>1. /\ spc[c] = "max" /\ spc' = [spc EXCEPT ![c] = "store"]
        /\ slayer' = [slayer EXCEPT ![c] = S!Lower(SHook[c].target, scurrentMaximumLayer)]
        /\ sneighbors' = sneighbors /\ sidx' = sidx
    BY <1>3 DEF S!ReadMaximumLayer, SHook
  <2>2. slayer'[c] \in Levels
    BY <1>a, <1>b, <2>1, Parameters
  <2> QED
    BY <1>a, <2>1, <2>2 DEF SMove, SBegins
<1>4. CASE S!Store(c)
  BY <1>a, <1>b, <1>4
     DEF S!Store, S!graph, S!Neighbor, SMove, SBegins, SSameList, SNeighbor, SNeighborIs, STypes
<1>5. CASE S!InsertReadTotal(c) /\ c \in sinserts
  BY <1>a, <1>b, <1>5
     DEF S!InsertReadTotal, S!graph, S!Neighbor, SMove, SBegins, SSameList, SNeighbor, SNeighborIs, STypes
<1>6. CASE S!InsertReadMaximumLayer(c)
  <2>1. PICK l \in Levels :
          /\ spc[c] = "max" /\ spc' = [spc EXCEPT ![c] = "store"]
          /\ slayer' = [slayer EXCEPT ![c] = S!Lower(l, scurrentMaximumLayer)]
          /\ sneighbors' = sneighbors /\ sidx' = sidx
    BY <1>6 DEF S!InsertReadMaximumLayer
  <2>2. slayer'[c] \in Levels
    BY <1>a, <1>b, <2>1, Parameters
  <2> QED
    BY <1>a, <2>1, <2>2 DEF SMove, SBegins
<1>7. CASE S!EnterLevel(c) /\ c \notin sinserts
  BY <1>a, <1>b, <1>7
     DEF S!EnterLevel, SHook, S!graph, S!Neighbor, SMove, SRanges, SSameList, SNeighbor, SNeighborIs, STypes
<1>8. CASE S!NextLevel(c)
  <2>1. /\ spc[c] = "range" /\ sidx[c] > Len(sneighbors[c])
        /\ sneighbors' = sneighbors /\ sidx' = sidx
        /\ \/ /\ slayer[c] > 0 /\ slayer' = [slayer EXCEPT ![c] = slayer[c] - 1]
              /\ spc' = [spc EXCEPT ![c] = "level"]
           \/ slayer[c] = 0 /\ slayer' = slayer /\ spc' = [spc EXCEPT ![c] = "raise"]
    <3>1. slayer[c] > 0 \/ slayer[c] = 0
      BY <1>b
    <3> QED
      BY <1>8, <3>1 DEF S!NextLevel, S!graph
  <2> QED
    BY <1>a, <2>1 DEF SMove, SRanges, SSameList
<1>9. CASE S!FindNeighbor(c) /\ (c \in sinserts => snodes[SNeighbor(c)] # -1)
  BY <1>a, <1>b, <1>9
     DEF S!FindNeighbor, S!graph, S!Neighbor, SMove, SRanges, SSameList, SNeighbor, SNeighborIs, STypes
<1>10. CASE S!InsertPanic(c) /\ c \in sinserts
  BY <1>a, <1>b, <1>10
     DEF S!InsertPanic, S!graph, S!Neighbor, SMove, SRanges, SSameList, SNeighbor, SNeighborIs, STypes
<1>11. CASE S!MakePlaceholder(c)
  BY <1>a, <1>b, <1>11
     DEF S!MakePlaceholder, S!graph, S!Neighbor, SMove, SLinks, SSameList, SNeighbor, SNeighborIs, STypes
<1>12. CASE S!RereadPlaceholder(c)
  BY <1>a, <1>b, <1>12, Zenon
     DEF S!RereadPlaceholder, S!graph, S!Neighbor, SMove, SLinks, SSameList, SNeighbor, SNeighborIs, STypes
<1>13. CASE S!LinkNeighbor(c)
  BY <1>a, <1>b, <1>13, Zenon
     DEF S!LinkNeighbor, S!graph, S!Neighbor, SMove, SLinks, SSameList, SNeighbor, SNeighborIs, STypes
<1>14. CASE S!LinkSelf(c)
  BY <1>a, <1>b, <1>14
     DEF S!LinkSelf, S!graph, S!Neighbor, SMove, SLinks, SSameList, SNeighbor, SNeighborIs, STypes
<1>15. CASE S!CountNeighbor(c)
  <2> DEFINE current == sconnections[SNeighbor(c)][sneighbor[c]][slayer[c]]
  <2>1. CASE Len(current) <= Limit(slayer[c])
    <3>1. /\ spc[c] = "count" /\ spc' = [spc EXCEPT ![c] = "range"]
          /\ sidx' = [sidx EXCEPT ![c] = sidx[c] + 1]
          /\ sneighbors' = sneighbors /\ slayer' = slayer
      BY <1>15, <2>1 DEF S!CountNeighbor, S!NextNeighbor, S!Neighbor, SNeighbor
    <3> QED
      BY <1>a, <3>1 DEF SMove, SLinks
  <2>2. CASE ~(Len(current) <= Limit(slayer[c]))
    <3>1. /\ spc[c] = "count" /\ spc' = [spc EXCEPT ![c] = "prune"]
          /\ sneighbors' = sneighbors /\ slayer' = slayer /\ sidx' = sidx
          /\ sneighbor' = sneighbor /\ ssnapshot' = [ssnapshot EXCEPT ![c] = current]
      BY <1>15, <2>2 DEF S!CountNeighbor, S!Neighbor, SNeighbor
    <3>2. current \in Seq(Ids) /\ Len(current) \in Nat /\ Limit(slayer[c]) \in Nat
      <4>1. SHolds(c) /\ sneighbors[c] \in Seq(Ids) /\ sconnections \in Tables
        BY DEF STypes, STypeOK
      <4>2. SNeighbor(c) \in Ids /\ sneighbor[c] \in Ids
        BY <3>1, <4>1 DEF SHolds, SHasNeighbor, SAtNeighbor, SNeighbor
      <4>3. current \in Seq(Ids)
        BY <1>b, <4>1, <4>2 DEF Tables
      <4>4. \A s \in Seq(Ids) : Len(s) \in Nat
        OBVIOUS
      <4>5. Limit(slayer[c]) \in Nat
        BY <1>b, Parameters
      <4> HIDE DEF current
      <4> QED
        BY <4>3, <4>4, <4>5
    <3>l. current = sconnections[SNeighbor(c)][sneighbor[c]][slayer[c]]
      OBVIOUS
    <3>3. Len(current) > Limit(slayer[c])
      BY <2>2, <3>2
    <3> HIDE DEF current
    <3>4. /\ spc'[c] = "prune" /\ ssnapshot'[c] = current /\ SSameList(c) /\ sneighbor'[c] = sneighbor[c]
      BY <1>a, <3>1 DEF SSameList
    <3> QED
      BY <3>1, <3>3, <3>4, <3>l DEF SMove, SLinks
  <2> QED
    BY <2>1, <2>2
<1>16. CASE S!Prune(c)
  BY <1>a, <1>b, <1>16
     DEF S!Prune, S!NextNeighbor, S!graph, S!Neighbor, SMove, SLinks, SSameList, SNeighbor, SNeighborIs, STypes
<1>17. CASE S!CheckMaximumLayer(c)
  BY <1>a, <1>b, <1>17
     DEF S!CheckMaximumLayer, S!graph, S!Neighbor, SMove, SEnds, SSameList, SNeighbor, SNeighborIs, STypes
<1>18. CASE S!Publish(c)
  BY <1>a, <1>b, <1>18
     DEF S!Publish, S!graph, S!Neighbor, SMove, SEnds, SSameList, SNeighbor, SNeighborIs, STypes
<1>19. CASE S!SelectNeighbors(c) /\ c \in sinserts
  <2>1. PICK s \in S!Choices :
          /\ spc[c] = "level" /\ spc' = [spc EXCEPT ![c] = "range"]
          /\ sidx' = [sidx EXCEPT ![c] = 1] /\ slayer' = slayer
          /\ sneighbors' = [sneighbors EXCEPT ![c] = s]
          /\ schosen' = [schosen EXCEPT ![c][slayer[c]] = s]
    BY <1>19 DEF S!SelectNeighbors
  <2>2. s \in SChoices
    BY SChoicesAre DEF STypes
  <2>3. schosen'[c] = [schosen[c] EXCEPT ![slayer[c]] = s]
    BY <2>1 DEF STypes, STypeOK
  <2> QED
    BY <1>a, <1>19, <2>1, <2>2, <2>3 DEF SMove, SRanges
<1> QED
  BY <1>1, <1>2, <1>3, <1>4, <1>5, <1>6, <1>7, <1>8, <1>9, <1>10, <1>11, <1>12, <1>13, <1>14, <1>15, <1>16, <1>17, <1>18, <1>19
     DEF SStep, S!Insert, S!InsertFromExternal, S!InsertAsExternal, S!InsertFirst,
         S!InsertFindNeighbor, S!InsertCheckMaximumLayer, S!Neighbor, SNeighbor

(* The locals that the moves do not tell of.                                 *)
LEMMA SLocalsChange ==
  ASSUME STypes, PTypeOK, NEW c \in Ids, SStep(c)
  PROVE  /\ \/ sown' = sown
            \/ /\ spc[c] = "call" /\ sown'[c] \in Ids /\ sown' = [sown EXCEPT ![c] = sown'[c]]
               /\ c \in sinserts => sown'[c] = c
         /\ \/ schosen' = schosen
            \/ /\ spc[c] = "level" /\ c \in sinserts
               /\ \E s \in SChoices : schosen' = [schosen EXCEPT ![c][slayer[c]] = s]
         /\ \/ shooked' = shooked /\ ~(c \in sinserts /\ spc[c] \in {"first", "raise"})
            \/ /\ spc[c] \in {"first", "raise"} /\ spc'[c] \in {"publish", "done"} /\ c \in sinserts
               /\ shooked' = shooked \cup {c}
         /\ \/ ssnapshot' = ssnapshot
            \/ ssnapshot' = [ssnapshot EXCEPT ![c] = <<>>] /\ spc'[c] = "range"
            \/ /\ spc[c] = "count" /\ spc'[c] = "prune" /\ sneighbor[c] \in Ids /\ SNeighbor(c) \in Ids
               /\ ssnapshot' = [ssnapshot EXCEPT
                     ![c] = sconnections[SNeighbor(c)][sneighbor[c]][slayer[c]]]
<1> USE Shared
<1>1. \/ sown' = sown
      \/ /\ spc[c] = "call" /\ sown'[c] \in Ids /\ sown' = [sown EXCEPT ![c] = sown'[c]]
         /\ c \in sinserts => sown'[c] = c
  <2>1. CASE S!Lookup(c) /\ c \notin sinserts
    <3> DEFINE m == IF snodes[c] = -1 THEN c ELSE snodes[c]
    <3>1. spc[c] = "call" /\ sown' = [sown EXCEPT ![c] = m]
      BY <2>1 DEF S!Lookup
    <3>2. m \in Ids
      BY DEF STypes, STypeOK
    <3> HIDE DEF m
    <3>3. sown'[c] = m
      BY <3>1 DEF STypes, STypeOK
    <3> QED
      BY <2>1, <3>1, <3>2, <3>3
  <2>2. CASE S!InsertReadTotal(c)
    BY <2>2, SMTT(30) DEF S!InsertReadTotal, STypes, STypeOK
  <2>3. CASE ~S!Lookup(c) /\ ~S!InsertReadTotal(c)
    BY <2>3, Zenon DEF SStep, S!Insert, S!InsertFromExternal, S!InsertAsExternal,
         S!First, S!ReadMaximumLayer, S!Store, S!EnterLevel, S!NextLevel,
         S!FindNeighbor, S!MakePlaceholder, S!RereadPlaceholder, S!LinkNeighbor,
         S!LinkSelf, S!CountNeighbor, S!NextNeighbor, S!Prune, S!CheckMaximumLayer,
         S!Publish, S!InsertFirst, S!InsertReadMaximumLayer,
         S!SelectNeighbors, S!InsertFindNeighbor, S!InsertPanic,
         S!InsertCheckMaximumLayer, S!graph
  <2> QED
    BY <2>1, <2>2, <2>3, Zenon DEF SStep, S!Insert, S!InsertFromExternal, S!InsertAsExternal,
       S!Store, S!NextLevel, S!LinkNeighbor, S!LinkSelf, S!CountNeighbor, S!Prune, S!Publish,
       S!InsertFirst, S!First, S!InsertReadMaximumLayer, S!SelectNeighbors,
       S!InsertFindNeighbor, S!FindNeighbor, S!InsertPanic, S!InsertCheckMaximumLayer,
       S!CheckMaximumLayer
<1>2. \/ schosen' = schosen
      \/ /\ spc[c] = "level" /\ c \in sinserts
         /\ \E s \in SChoices : schosen' = [schosen EXCEPT ![c][slayer[c]] = s]
  <2>1. CASE S!SelectNeighbors(c) /\ c \in sinserts
    BY <2>1, SChoicesAre DEF S!SelectNeighbors, STypes
  <2>2. CASE ~(S!SelectNeighbors(c) /\ c \in sinserts)
    BY <2>2 DEF SStep, S!Insert, S!InsertAsExternal, S!InsertReadTotal, S!InsertFirst,
                S!InsertReadMaximumLayer, S!InsertFindNeighbor, S!InsertPanic,
                S!InsertCheckMaximumLayer
  <2> QED
    BY <2>1, <2>2
<1>3. \/ shooked' = shooked /\ ~(c \in sinserts /\ spc[c] \in {"first", "raise"})
      \/ /\ spc[c] \in {"first", "raise"} /\ spc'[c] \in {"publish", "done"} /\ c \in sinserts
         /\ shooked' = shooked \cup {c}
  <2>1. CASE c \in sinserts /\ (S!InsertFirst(c) \/ S!InsertCheckMaximumLayer(c))
    BY <2>1, Zenon DEF S!InsertFirst, S!First, S!InsertCheckMaximumLayer, S!CheckMaximumLayer,
                STypes, STypeOK
  <2>2. CASE ~(c \in sinserts /\ (S!InsertFirst(c) \/ S!InsertCheckMaximumLayer(c)))
    BY <2>2, Zenon DEF SStep, S!Insert, S!InsertFromExternal, S!InsertAsExternal,
         S!Lookup, S!First, S!ReadMaximumLayer, S!Store, S!EnterLevel, S!NextLevel,
         S!FindNeighbor, S!MakePlaceholder, S!RereadPlaceholder, S!LinkNeighbor,
         S!LinkSelf, S!CountNeighbor, S!NextNeighbor, S!Prune, S!CheckMaximumLayer,
         S!Publish, S!InsertReadTotal, S!InsertReadMaximumLayer,
         S!SelectNeighbors, S!InsertFindNeighbor, S!InsertPanic,
         S!graph
  <2> QED
    BY <2>1, <2>2
<1>4. \/ ssnapshot' = ssnapshot
      \/ ssnapshot' = [ssnapshot EXCEPT ![c] = <<>>] /\ spc'[c] = "range"
      \/ /\ spc[c] = "count" /\ spc'[c] = "prune" /\ sneighbor[c] \in Ids /\ SNeighbor(c) \in Ids
         /\ ssnapshot' = [ssnapshot EXCEPT
               ![c] = sconnections[SNeighbor(c)][sneighbor[c]][slayer[c]]]
  <2>1. CASE S!CountNeighbor(c)
    <3>1. spc[c] = "count" => sneighbor[c] \in Ids /\ SNeighbor(c) \in Ids
      <4>1. SHolds(c) /\ sneighbors[c] \in Seq(Ids)
        BY DEF STypes, STypeOK
      <4> QED
        BY <4>1 DEF SHolds, SHasNeighbor, SAtNeighbor, SNeighbor
    <3> QED
      BY <2>1, <3>1 DEF S!CountNeighbor, S!NextNeighbor, S!Neighbor, SNeighbor, STypes, STypeOK
  <2>2. CASE S!Prune(c)
    BY <2>2, SMTT(30) DEF S!Prune, S!NextNeighbor, STypes, STypeOK
  <2>3. CASE ~S!CountNeighbor(c) /\ ~S!Prune(c)
    BY <2>3 DEF SStep, S!Insert, S!InsertFromExternal, S!InsertAsExternal,
         S!Lookup, S!First, S!ReadMaximumLayer, S!Store, S!EnterLevel, S!NextLevel,
         S!FindNeighbor, S!MakePlaceholder, S!RereadPlaceholder, S!LinkNeighbor,
         S!LinkSelf, S!NextNeighbor, S!CheckMaximumLayer,
         S!Publish, S!InsertReadTotal, S!InsertFirst, S!InsertReadMaximumLayer,
         S!SelectNeighbors, S!InsertFindNeighbor, S!InsertPanic,
         S!InsertCheckMaximumLayer, S!graph
  <2> QED
    BY <2>1, <2>2, <2>3
<1> QED
  BY <1>1, <1>2, <1>3, <1>4, SMTT(30)

(* A step leaves the locals functions.                                       *)
LEMMA SShape ==
  ASSUME STypeOK, NEW c \in Ids, SStep(c)
  PROVE  /\ spc' = [spc EXCEPT ![c] = spc'[c]]
         /\ slayer' = [slayer EXCEPT ![c] = slayer'[c]]
         /\ sneighbors' = [sneighbors EXCEPT ![c] = sneighbors'[c]]
         /\ sidx' = [sidx EXCEPT ![c] = sidx'[c]]
         /\ sneighbor' = [sneighbor EXCEPT ![c] = sneighbor'[c]]
<1>1. spc' = [spc EXCEPT ![c] = spc'[c]]
  <2>1. /\ spc' = spc => spc' = [spc EXCEPT ![c] = spc'[c]]
        /\ \A x : spc' = [spc EXCEPT ![c] = x] => spc' = [spc EXCEPT ![c] = spc'[c]]
    BY DEF STypeOK
  <2> QED
    BY <2>1, Zenon DEF SStep, S!Insert, S!InsertFromExternal, S!InsertAsExternal,
         S!Lookup, S!First, S!ReadMaximumLayer, S!Store, S!EnterLevel, S!NextLevel,
         S!FindNeighbor, S!MakePlaceholder, S!RereadPlaceholder, S!LinkNeighbor,
         S!LinkSelf, S!CountNeighbor, S!NextNeighbor, S!Prune, S!CheckMaximumLayer,
         S!Publish, S!InsertReadTotal, S!InsertFirst, S!InsertReadMaximumLayer,
         S!SelectNeighbors, S!InsertFindNeighbor, S!InsertPanic,
         S!InsertCheckMaximumLayer, S!graph
<1>2. slayer' = [slayer EXCEPT ![c] = slayer'[c]]
  <2>1. /\ slayer' = slayer => slayer' = [slayer EXCEPT ![c] = slayer'[c]]
        /\ \A x : slayer' = [slayer EXCEPT ![c] = x] => slayer' = [slayer EXCEPT ![c] = slayer'[c]]
    BY DEF STypeOK
  <2> QED
    BY <2>1, Zenon DEF SStep, S!Insert, S!InsertFromExternal, S!InsertAsExternal,
         S!Lookup, S!First, S!ReadMaximumLayer, S!Store, S!EnterLevel, S!NextLevel,
         S!FindNeighbor, S!MakePlaceholder, S!RereadPlaceholder, S!LinkNeighbor,
         S!LinkSelf, S!CountNeighbor, S!NextNeighbor, S!Prune, S!CheckMaximumLayer,
         S!Publish, S!InsertReadTotal, S!InsertFirst, S!InsertReadMaximumLayer,
         S!SelectNeighbors, S!InsertFindNeighbor, S!InsertPanic,
         S!InsertCheckMaximumLayer, S!graph
<1>3. sneighbors' = [sneighbors EXCEPT ![c] = sneighbors'[c]]
  <2>1. /\ sneighbors' = sneighbors => sneighbors' = [sneighbors EXCEPT ![c] = sneighbors'[c]]
        /\ \A x : sneighbors' = [sneighbors EXCEPT ![c] = x] => sneighbors' = [sneighbors EXCEPT ![c] = sneighbors'[c]]
    BY DEF STypeOK
  <2> QED
    BY <2>1, Zenon DEF SStep, S!Insert, S!InsertFromExternal, S!InsertAsExternal,
         S!Lookup, S!First, S!ReadMaximumLayer, S!Store, S!EnterLevel, S!NextLevel,
         S!FindNeighbor, S!MakePlaceholder, S!RereadPlaceholder, S!LinkNeighbor,
         S!LinkSelf, S!CountNeighbor, S!NextNeighbor, S!Prune, S!CheckMaximumLayer,
         S!Publish, S!InsertReadTotal, S!InsertFirst, S!InsertReadMaximumLayer,
         S!SelectNeighbors, S!InsertFindNeighbor, S!InsertPanic,
         S!InsertCheckMaximumLayer, S!graph
<1>4. sidx' = [sidx EXCEPT ![c] = sidx'[c]]
  <2>1. /\ sidx' = sidx => sidx' = [sidx EXCEPT ![c] = sidx'[c]]
        /\ \A x : sidx' = [sidx EXCEPT ![c] = x] => sidx' = [sidx EXCEPT ![c] = sidx'[c]]
    BY DEF STypeOK
  <2> QED
    BY <2>1, Zenon DEF SStep, S!Insert, S!InsertFromExternal, S!InsertAsExternal,
         S!Lookup, S!First, S!ReadMaximumLayer, S!Store, S!EnterLevel, S!NextLevel,
         S!FindNeighbor, S!MakePlaceholder, S!RereadPlaceholder, S!LinkNeighbor,
         S!LinkSelf, S!CountNeighbor, S!NextNeighbor, S!Prune, S!CheckMaximumLayer,
         S!Publish, S!InsertReadTotal, S!InsertFirst, S!InsertReadMaximumLayer,
         S!SelectNeighbors, S!InsertFindNeighbor, S!InsertPanic,
         S!InsertCheckMaximumLayer, S!graph
<1>5. sneighbor' = [sneighbor EXCEPT ![c] = sneighbor'[c]]
  <2>1. /\ sneighbor' = sneighbor => sneighbor' = [sneighbor EXCEPT ![c] = sneighbor'[c]]
        /\ \A x : sneighbor' = [sneighbor EXCEPT ![c] = x] => sneighbor' = [sneighbor EXCEPT ![c] = sneighbor'[c]]
    BY DEF STypeOK
  <2> QED
    BY <2>1, Zenon DEF SStep, S!Insert, S!InsertFromExternal, S!InsertAsExternal,
         S!Lookup, S!First, S!ReadMaximumLayer, S!Store, S!EnterLevel, S!NextLevel,
         S!FindNeighbor, S!MakePlaceholder, S!RereadPlaceholder, S!LinkNeighbor,
         S!LinkSelf, S!CountNeighbor, S!NextNeighbor, S!Prune, S!CheckMaximumLayer,
         S!Publish, S!InsertReadTotal, S!InsertFirst, S!InsertReadMaximumLayer,
         S!SelectNeighbors, S!InsertFindNeighbor, S!InsertPanic,
         S!InsertCheckMaximumLayer, S!graph
<1> QED
  BY <1>1, <1>2, <1>3, <1>4, <1>5

-------------------------------------------------------------------------------
(* A step keeps the types of the secondary graph.                            *)

(* The current neighbor is one of the list.                                  *)
LEMMA SAtNeighborIs ==
  ASSUME STypes, NEW c \in Ids
  PROVE  /\ SAtNeighbor(c) => SNeighbor(c) \in Ids /\ SNeighbor(c) \in Elements(sneighbors[c])
         /\ spc[c] = "range" /\ sidx[c] <= Len(sneighbors[c]) =>
              /\ sidx[c] \in 1 .. Len(sneighbors[c])
              /\ SNeighbor(c) \in Ids /\ SNeighbor(c) \in Elements(sneighbors[c])
         /\ SHasNeighbor(c) => SAtNeighbor(c) /\ sneighbor[c] \in Ids
         /\ spc[c] # "call" => sown[c] \in Ids
<1>1. SHolds(c) /\ sneighbors[c] \in Seq(Ids) /\ sidx[c] \in Nat
  BY DEF STypes, STypeOK
<1>2. \A i \in 1 .. Len(sneighbors[c]) :
        sneighbors[c][i] \in Ids /\ sneighbors[c][i] \in Elements(sneighbors[c])
  BY <1>1, ElementsOf
<1>3. Len(sneighbors[c]) \in Nat
  BY <1>1
<1>4. spc[c] = "range" /\ sidx[c] <= Len(sneighbors[c]) => sidx[c] \in 1 .. Len(sneighbors[c])
  BY <1>1, <1>3 DEF SHolds
<1> QED
  BY <1>1, <1>2, <1>4 DEF SHolds, SNeighbor, SAtNeighbor, SHasNeighbor

(* A step keeps the types...                                                 *)
LEMMA SStepTypeOK ==
  ASSUME STypes, PTypeOK, NEW c \in Ids, SStep(c), sinserts' = sinserts
  PROVE  STypeOK'
<1>t. STypeOK
  BY DEF STypes
<1>n. snodes' \in [Ids -> Ids \cup {-1}] /\ sfirsts' \subseteq Ids
  <2>1. spc[c] # "call" => sown[c] \in Ids
    BY SAtNeighborIs
  <2>2. spc[c] = "make" => SNeighbor(c) \in Ids
    BY SAtNeighborIs DEF SAtNeighbor
  <2>3. snodes \in [Ids -> Ids \cup {-1}] /\ sfirsts \subseteq Ids
    BY <1>t DEF STypeOK
  <2> QED
    BY <1>t, <2>1, <2>2, <2>3, SNodesChange
<1>e. sentryPointID' \in Ids /\ scurrentMaximumLayer' \in Levels
  <2>1. slevelOf[c][c] \in Levels /\ plevelOf[c][c] \in Levels /\ 0 \in Levels
    BY <1>t, Parameters DEF STypeOK, PTypeOK
  <2>2. sentryPointID \in Ids /\ scurrentMaximumLayer \in Levels
    BY <1>t DEF STypeOK
  <2>3. \/ sentryPointID' = sentryPointID /\ scurrentMaximumLayer' = scurrentMaximumLayer
        \/ sentryPointID' = c /\ scurrentMaximumLayer' \in {0, slevelOf[c][c], plevelOf[c][c]}
    BY STopChange
  <2> QED
    BY <2>1, <2>2, <2>3
<1>l. slevelOf' \in [Ids -> [Ids -> Levels]]
  <2>0. slevelOf \in [Ids -> [Ids -> Levels]] /\ plevelOf \in [Ids -> [Ids -> Levels]]
    BY <1>t DEF STypeOK, PTypeOK
  <2>1. slevelOf \in [Ids -> [Ids -> Levels]] /\ plevelOf[c][c] \in Levels /\ 0 \in Levels
    BY <2>0, Parameters
  <2>2. \A m \in Ids, l \in Levels : [slevelOf EXCEPT ![c][m] = l] \in [Ids -> [Ids -> Levels]]
    BY <2>1, SMTT(30)
  <2> QED
    BY <2>1, <2>2, SLevelsChange
<1>c. sconnections' \in Tables
  <2>1. sconnections \in Tables /\ slayer[c] \in Levels /\ ssnapshot[c] \in Seq(Ids)
    BY <1>t DEF STypeOK
  <2>2. \A a, b \in Ids : sconnections[a][b][slayer[c]] \in Seq(Ids)
    BY <2>1 DEF Tables
  <2>3. \A a, b \in Ids : Append(sconnections[a][b][slayer[c]], c) \in Seq(Ids)
    BY <2>2
  <2>4. \A a, b, d \in Ids : Append(sconnections[a][b][slayer[c]], d) \in Seq(Ids)
    BY <2>2
  <2>5. \A s \in S!Nearest(Elements(ssnapshot[c]), Dist[c], Limit(slayer[c])) : s \in Seq(Ids)
    BY <2>1, ElementsOf, NearestList, Parameters
  <2>6. \A a, b \in Ids, s \in Seq(Ids) : [sconnections EXCEPT ![a][b][slayer[c]] = s] \in Tables
    BY <2>1, ReplaceList
  <2>7. \A b \in Ids : [sconnections EXCEPT ![c][b] = Unlinked] \in Tables
    BY <2>1, Parameters DEF Tables
  <2>8. CASE sconnections' = sconnections
    BY <2>1, <2>8
  <2>9. CASE /\ sown[c] \in Ids
             /\ sconnections' = [sconnections EXCEPT ![c][sown[c]] = Unlinked]
    BY <2>7, <2>9
  <2>10. CASE /\ sneighbor[c] \in Ids /\ SNeighbor(c) \in Ids
              /\ sconnections' = [sconnections EXCEPT
                   ![SNeighbor(c)][sneighbor[c]][slayer[c]] =
                      Append(sconnections[SNeighbor(c)][sneighbor[c]][slayer[c]], c)]
    BY <2>3, <2>6, <2>10
  <2>11. CASE /\ sown[c] \in Ids /\ SNeighbor(c) \in Ids
              /\ sconnections' = [sconnections EXCEPT
                   ![c][sown[c]][slayer[c]] =
                      Append(sconnections[c][sown[c]][slayer[c]], SNeighbor(c))]
    BY <2>4, <2>6, <2>11
  <2>12. CASE /\ sneighbor[c] \in Ids /\ SNeighbor(c) \in Ids
              /\ \E s \in S!Nearest(Elements(ssnapshot[c]), Dist[c], Limit(slayer[c])) :
                   sconnections' = [sconnections EXCEPT
                      ![SNeighbor(c)][sneighbor[c]][slayer[c]] = s]
    <3>1. PICK s \in S!Nearest(Elements(ssnapshot[c]), Dist[c], Limit(slayer[c])) :
            sconnections' = [sconnections EXCEPT
              ![SNeighbor(c)][sneighbor[c]][slayer[c]] = s]
      BY <2>12
    <3>2. s \in Seq(Ids)
      BY <2>5
    <3>3. [sconnections EXCEPT ![SNeighbor(c)][sneighbor[c]][slayer[c]] = s] \in Tables
      BY <2>6, <2>12, <3>2
    <3> QED
      BY <3>1, <3>3
  <2> QED
    BY <2>8, <2>9, <2>10, <2>11, <2>12, SListsChange
<1>o. sown' \in [Ids -> Ids \cup {-1}] /\ shooked' \subseteq Ids
  <2>1. sown \in [Ids -> Ids \cup {-1}] /\ shooked \subseteq Ids
    BY <1>t DEF STypeOK
  <2>2. sown' = sown \/ (sown'[c] \in Ids /\ sown' = [sown EXCEPT ![c] = sown'[c]])
    BY SLocalsChange
  <2>3. shooked' = shooked \/ shooked' = shooked \cup {c}
    BY SLocalsChange
  <2>4. \A m \in Ids : [sown EXCEPT ![c] = m] \in [Ids -> Ids \cup {-1}]
    BY <2>1
  <2> QED
    BY <2>1, <2>2, <2>3, <2>4
<1>h. schosen' \in [Ids -> [Levels -> Seq(Ids)]]
  <2>1. schosen \in [Ids -> [Levels -> Seq(Ids)]] /\ slayer[c] \in Levels
    BY <1>t DEF STypeOK
  <2>2. \A s \in Seq(Ids) : [schosen EXCEPT ![c][slayer[c]] = s] \in [Ids -> [Levels -> Seq(Ids)]]
    BY <2>1
  <2> QED
    <3>1. CASE schosen' = schosen
      BY <2>1, <3>1
    <3>2. CASE \E s \in SChoices : schosen' = [schosen EXCEPT ![c][slayer[c]] = s]
      <4>1. PICK s \in SChoices : schosen' = [schosen EXCEPT ![c][slayer[c]] = s]
        BY <3>2
      <4>2. s \in Seq(Ids)
        BY DEF SChoices
      <4> QED
        BY <2>2, <4>1, <4>2
    <3> QED
      BY <3>1, <3>2, SLocalsChange
<1>s. ssnapshot' \in [Ids -> Seq(Ids)]
  <2>1. ssnapshot \in [Ids -> Seq(Ids)] /\ slayer[c] \in Levels /\ sconnections \in Tables
    BY <1>t DEF STypeOK
  <2>2. \A a, b \in Ids : sconnections[a][b][slayer[c]] \in Seq(Ids)
    BY <2>1 DEF Tables
  <2>3. \A s \in Seq(Ids) : [ssnapshot EXCEPT ![c] = s] \in [Ids -> Seq(Ids)]
    BY <2>1
  <2>4. <<>> \in Seq(Ids)
    OBVIOUS
  <2> QED
    <3>1. CASE ssnapshot' = ssnapshot
      BY <2>1, <3>1
    <3>2. CASE ssnapshot' = [ssnapshot EXCEPT ![c] = <<>>]
      BY <2>3, <2>4, <3>2
    <3>3. CASE /\ sneighbor[c] \in Ids /\ SNeighbor(c) \in Ids
               /\ ssnapshot' = [ssnapshot EXCEPT
                     ![c] = sconnections[SNeighbor(c)][sneighbor[c]][slayer[c]]]
      BY <2>2, <2>3, <3>3
    <3> QED
      BY <3>1, <3>2, <3>3, SLocalsChange
<1>m. /\ spc'[c] \in {"call", "first", "max", "store", "level", "range", "make", "reread",
                      "link", "linkSelf", "count", "prune", "raise", "publish", "done",
                      "panic"}
      /\ slayer'[c] \in Levels /\ sneighbors'[c] \in Seq(Ids) /\ sidx'[c] \in Nat
  <2>1. slayer[c] \in Levels /\ sneighbors[c] \in Seq(Ids) /\ sidx[c] \in Nat /\ sidx[c] + 1 \in Nat
        /\ (slayer[c] > 0 => slayer[c] - 1 \in Levels) /\ SHook[c].neighbors[slayer[c]] \in Seq(Ids)
    <3>1. slayer[c] \in Levels /\ sneighbors[c] \in Seq(Ids) /\ sidx[c] \in Nat
      BY <1>t DEF STypeOK
    <3>2. SHook[c].neighbors \in [Levels -> Seq(Ids)]
      BY <1>t, SHookIs
    <3>3. sidx[c] + 1 \in Nat /\ SHook[c].neighbors[slayer[c]] \in Seq(Ids)
      BY <3>1, <3>2
    <3> QED
      BY <3>1, <3>3, Parameters
  <2>2. \A s \in SChoices : s \in Seq(Ids)
    BY DEF SChoices
  <2>3. SMove(c)
    BY SMoves
  <2>4. CASE SBegins(c)
    BY <2>1, <2>4 DEF SBegins, SSameList
  <2>5. CASE SRanges(c)
    BY <2>1, <2>2, <2>5 DEF SRanges, SSameList
  <2>6. CASE SLinks(c)
    BY <2>1, <2>6 DEF SLinks, SSameList
  <2>7. CASE SEnds(c)
    <3>1. <<>> \in Seq(Ids) /\ 0 \in Nat
      OBVIOUS
    <3> QED
      BY <2>1, <2>7, <3>1 DEF SEnds, SSameList
  <2> QED
    BY <2>3, <2>4, <2>5, <2>6, <2>7 DEF SMove
<1>p. /\ spc' \in [Ids -> {"call", "first", "max", "store", "level", "range", "make", "reread",
                      "link", "linkSelf", "count", "prune", "raise", "publish", "done",
                      "panic"}]
      /\ slayer' \in [Ids -> Levels]
      /\ sneighbors' \in [Ids -> Seq(Ids)]
      /\ sidx' \in [Ids -> Nat]
  <2>1. /\ spc \in [Ids -> {"call", "first", "max", "store", "level", "range", "make", "reread",
                            "link", "linkSelf", "count", "prune", "raise", "publish", "done",
                            "panic"}]
        /\ slayer \in [Ids -> Levels]
        /\ sneighbors \in [Ids -> Seq(Ids)]
        /\ sidx \in [Ids -> Nat]
    BY <1>t DEF STypeOK
  <2>2. /\ spc' = [spc EXCEPT ![c] = spc'[c]] /\ slayer' = [slayer EXCEPT ![c] = slayer'[c]]
        /\ sneighbors' = [sneighbors EXCEPT ![c] = sneighbors'[c]]
        /\ sidx' = [sidx EXCEPT ![c] = sidx'[c]]
    BY <1>t, SShape
  <2>3. spc' \in [Ids -> {"call", "first", "max", "store", "level", "range", "make", "reread",
                          "link", "linkSelf", "count", "prune", "raise", "publish", "done",
                          "panic"}]
    <3> DEFINE x == spc'[c]
    <3>1. spc' = [spc EXCEPT ![c] = x]
      BY <2>2
    <3> HIDE DEF x
    <3> QED
      BY <1>m, <2>1, <3>1 DEF x
  <2>4. slayer' \in [Ids -> Levels] /\ sneighbors' \in [Ids -> Seq(Ids)] /\ sidx' \in [Ids -> Nat]
    <3> DEFINE x == slayer'[c]
               y == sneighbors'[c]
               z == sidx'[c]
    <3>1. /\ slayer' = [slayer EXCEPT ![c] = x] /\ sneighbors' = [sneighbors EXCEPT ![c] = y]
          /\ sidx' = [sidx EXCEPT ![c] = z]
          /\ x \in Levels /\ y \in Seq(Ids) /\ z \in Nat
      BY <1>m, <2>2
    <3> HIDE DEF x, y, z
    <3> QED
      BY <2>1, <3>1
  <2> QED
    BY <2>3, <2>4
<1>b. sneighbor' \in [Ids -> Ids \cup {-1}]
  <2>1. sneighbor'[c] \in Ids \cup {-1}
    <3> USE Shared DEF STypes
    <3> DEFINE ok == sneighbor'[c] \in Ids \cup {-1}
    <3>1. CASE S!FindNeighbor(c)
      <4>1. spc[c] = "range" /\ sidx[c] <= Len(sneighbors[c]) /\
            (sneighbor' = sneighbor \/ sneighbor' = [sneighbor EXCEPT ![c] = snodes[SNeighbor(c)]])
        BY <3>1 DEF S!FindNeighbor, S!Neighbor, SNeighbor
      <4>2. SNeighbor(c) \in Ids
        BY <4>1, SAtNeighborIs
      <4>3. snodes[SNeighbor(c)] \in Ids \cup {-1} /\ sneighbor \in [Ids -> Ids \cup {-1}]
        BY <1>t, <4>2 DEF STypeOK
      <4> QED
        BY <4>1, <4>3
    <3>2. CASE S!RereadPlaceholder(c)
      <4>1. spc[c] = "reread" /\ sneighbor' = [sneighbor EXCEPT ![c] = snodes[SNeighbor(c)]]
        BY <3>2 DEF S!RereadPlaceholder, S!Neighbor, SNeighbor
      <4>2. SNeighbor(c) \in Ids
        BY <4>1, SAtNeighborIs DEF SAtNeighbor
      <4>3. snodes[SNeighbor(c)] \in Ids \cup {-1} /\ sneighbor \in [Ids -> Ids \cup {-1}]
        BY <1>t, <4>2, Zenon DEF STypeOK
      <4> QED
        BY <4>1, <4>3
    <3>3. CASE ~S!FindNeighbor(c) /\ ~S!RereadPlaceholder(c)
      <4>1. sneighbor' = sneighbor \/ sneighbor' = [sneighbor EXCEPT ![c] = -1]
        BY <3>3, Zenon DEF SStep, S!Insert, S!InsertFromExternal, S!InsertAsExternal,
         S!Lookup, S!First, S!ReadMaximumLayer, S!Store, S!EnterLevel, S!NextLevel,
         S!MakePlaceholder, S!LinkNeighbor,
         S!LinkSelf, S!CountNeighbor, S!NextNeighbor, S!Prune, S!CheckMaximumLayer,
         S!Publish, S!InsertReadTotal, S!InsertFirst, S!InsertReadMaximumLayer,
         S!SelectNeighbors, S!InsertFindNeighbor, S!InsertPanic,
         S!InsertCheckMaximumLayer, S!graph, S!FindNeighbor
      <4>2. sneighbor \in [Ids -> Ids \cup {-1}]
        BY <1>t DEF STypeOK
      <4> QED
        BY <4>1, <4>2
    <3> QED
      BY <3>1, <3>2, <3>3
  <2> DEFINE x == sneighbor'[c]
  <2>2. sneighbor' = [sneighbor EXCEPT ![c] = x] /\ x \in Ids \cup {-1}
    BY <1>t, <2>1, SShape
  <2>3. sneighbor \in [Ids -> Ids \cup {-1}]
    BY <1>t DEF STypeOK
  <2> HIDE DEF x
  <2> QED
    BY <2>2, <2>3
<1>i. sinserts' \subseteq Ids
  BY <1>t DEF STypeOK
<1> QED
  BY <1>n, <1>e, <1>l, <1>c, <1>o, <1>h, <1>s, <1>p, <1>b, <1>i DEF STypeOK

(* A call has its vertex from its first step on.                             *)
LEMMA SLocalsChangeCall ==
  ASSUME STypes, PTypeOK, NEW c \in Ids, SStep(c), spc[c] = "call"
  PROVE  sown'[c] \in Ids \/ spc'[c] = "call"
<1>1. SMove(c) /\ STypeOK
  BY SMoves DEF STypes
<1>2. CASE S!Lookup(c)
  BY <1>1, <1>2, Shared DEF S!Lookup, STypeOK
<1>3. CASE S!InsertReadTotal(c)
  BY <1>1, <1>3, Shared DEF S!InsertReadTotal, STypeOK
<1>4. CASE ~S!Lookup(c) /\ ~S!InsertReadTotal(c)
  BY <1>4 DEF SStep, S!Insert, S!InsertFromExternal, S!InsertAsExternal,
         S!First, S!ReadMaximumLayer, S!Store, S!EnterLevel, S!NextLevel,
         S!FindNeighbor, S!MakePlaceholder, S!RereadPlaceholder, S!LinkNeighbor,
         S!LinkSelf, S!CountNeighbor, S!NextNeighbor, S!Prune, S!CheckMaximumLayer,
         S!Publish, S!InsertFirst, S!InsertReadMaximumLayer,
         S!SelectNeighbors, S!InsertFindNeighbor, S!InsertPanic,
         S!InsertCheckMaximumLayer, S!graph
<1> QED
  BY <1>2, <1>3, <1>4

(* Only a table with something in it is not made.                            *)
LEMMA SSeesTable ==
  ASSUME STypes, PTypeOK, NEW c \in Ids, SStep(c), spc[c] = "call"
  PROVE  spc'[c] = "first" \/ \E v \in Ids : snodes[v] # -1
<1>1. STypeOK
  BY DEF STypes
<1>2. CASE S!Lookup(c)
  BY <1>1, <1>2, Shared DEF S!Lookup, STypeOK
<1>3. CASE S!InsertReadTotal(c)
  BY <1>1, <1>3, Shared DEF S!InsertReadTotal, STypeOK
<1>4. CASE ~S!Lookup(c) /\ ~S!InsertReadTotal(c)
  BY <1>4 DEF SStep, S!Insert, S!InsertFromExternal, S!InsertAsExternal,
         S!First, S!ReadMaximumLayer, S!Store, S!EnterLevel, S!NextLevel,
         S!FindNeighbor, S!MakePlaceholder, S!RereadPlaceholder, S!LinkNeighbor,
         S!LinkSelf, S!CountNeighbor, S!NextNeighbor, S!Prune, S!CheckMaximumLayer,
         S!Publish, S!InsertFirst, S!InsertReadMaximumLayer,
         S!SelectNeighbors, S!InsertFindNeighbor, S!InsertPanic,
         S!InsertCheckMaximumLayer, S!graph
<1> QED
  BY <1>2, <1>3, <1>4

(* Who has found the table empty makes it.                                   *)
LEMMA SFirstMakes ==
  ASSUME STypes, PTypeOK, NEW c \in Ids, SStep(c), spc[c] = "first"
  PROVE  sfirsts' = sfirsts \cup {c}
<1>1. CASE S!First(c)
  BY <1>1 DEF S!First
<1>2. CASE ~S!First(c)
  BY <1>2 DEF SStep, S!Insert, S!InsertFromExternal, S!InsertAsExternal,
         S!Lookup, S!ReadMaximumLayer, S!Store, S!EnterLevel, S!NextLevel,
         S!FindNeighbor, S!MakePlaceholder, S!RereadPlaceholder, S!LinkNeighbor,
         S!LinkSelf, S!CountNeighbor, S!NextNeighbor, S!Prune, S!CheckMaximumLayer,
         S!Publish, S!InsertReadTotal, S!InsertFirst, S!InsertReadMaximumLayer,
         S!SelectNeighbors, S!InsertFindNeighbor, S!InsertPanic,
         S!InsertCheckMaximumLayer, S!graph
<1> QED
  BY <1>1, <1>2

(* ... and what a call holds...                                              *)
LEMMA SStepHolds ==
  ASSUME STypes, PTypeOK, NEW c \in Ids, SStep(c), sinserts' = sinserts
  PROVE  \A d \in Ids : SHolds(d)'
<1>t. STypeOK /\ STypeOK'
  BY SStepTypeOK DEF STypes
<1>1. ASSUME NEW d \in Ids, d # c
      PROVE  SHolds(d)'
  <2>1. /\ spc'[d] = spc[d] /\ sown'[d] = sown[d] /\ sneighbors'[d] = sneighbors[d]
        /\ sidx'[d] = sidx[d] /\ sneighbor'[d] = sneighbor[d]
    BY <1>t, <1>1, SElsewhere
  <2>2. SHolds(d) /\ (spc[d] = "reread" => SNeighbor(d) \in Ids)
    BY SAtNeighborIs DEF STypes, SAtNeighbor
  <2>3. spc[d] = "reread" => snodes'[SNeighbor(d)] # -1
    <3> SUFFICES ASSUME spc[d] = "reread" PROVE snodes'[SNeighbor(d)] # -1
      OBVIOUS
    <3>1. snodes[SNeighbor(d)] # -1 /\ SNeighbor(d) \in Ids /\ snodes \in [Ids -> Ids \cup {-1}]
      BY <1>t, <2>2 DEF SHolds, STypeOK
    <3>2. spc[c] # "call" => sown[c] \in Ids
      BY SAtNeighborIs
    <3>3. spc[c] = "make" => SNeighbor(c) \in Ids
      BY SAtNeighborIs DEF SAtNeighbor
    <3> QED
      BY <1>t, <3>1, <3>2, <3>3, SNodesChange, Parameters
  <2> QED
    BY <2>1, <2>2, <2>3 DEF SHolds, SAtNeighbor, SHasNeighbor, SNeighbor
<1>2. SHolds(c)'
  <2>1. SHolds(c) /\ SMove(c) /\ snodes \in [Ids -> Ids \cup {-1}] /\ sidx[c] \in Nat
        /\ sneighbors[c] \in Seq(Ids) /\ Len(sneighbors[c]) \in Nat
    <3>1. SHolds(c) /\ SMove(c)
      BY SMoves DEF STypes
    <3>2. snodes \in [Ids -> Ids \cup {-1}] /\ sidx[c] \in Nat /\ sneighbors[c] \in Seq(Ids)
      BY <1>t DEF STypeOK
    <3>3. Len(sneighbors[c]) \in Nat
      BY <3>2
    <3> QED
      BY <3>1, <3>2, <3>3
  <2>2. spc'[c] # "call" => sown'[c] \in Ids
    <3>1. spc[c] = "call" => sown'[c] \in Ids \/ spc'[c] = "call"
      BY SLocalsChangeCall
    <3> QED
      BY <1>t, <2>1, <3>1, SLocalsChange DEF SHolds
  <2>3. spc'[c] = "range" => sidx'[c] > 0
    BY <2>1 DEF SMove, SBegins, SRanges, SLinks, SEnds, SSameList, SHolds, SAtNeighbor
  <2>4. SAtNeighbor(c)' => sidx'[c] \in 1 .. Len(sneighbors'[c])
    BY <2>1 DEF SMove, SBegins, SRanges, SLinks, SEnds, SSameList, SHolds, SAtNeighbor
  <2>5. SHasNeighbor(c)' => sneighbor'[c] \in Ids
    <3>1. spc'[c] = "link" => SNeighbor(c) \in Ids /\ snodes[SNeighbor(c)] # -1 /\ sneighbor'[c] = snodes[SNeighbor(c)]
      BY <2>1, SAtNeighborIs DEF SMove, SBegins, SRanges, SLinks, SEnds, SSameList, SHolds, SAtNeighbor, SNeighborIs
    <3>2. spc'[c] \in {"linkSelf", "count", "prune"} => SHasNeighbor(c) /\ sneighbor'[c] = sneighbor[c]
      BY <2>1 DEF SMove, SBegins, SRanges, SLinks, SEnds, SHasNeighbor
    <3> QED
      BY <2>1, <3>1, <3>2 DEF SHasNeighbor, SHolds
  <2>6. spc'[c] = "reread" => snodes'[SNeighbor(c)'] # -1
    <3>1. spc'[c] = "reread" => spc[c] = "make" /\ SNeighbor(c)' = SNeighbor(c)
      BY <2>1 DEF SMove, SBegins, SRanges, SLinks, SEnds, SSameList, SNeighbor
    <3>2. spc[c] = "make" => SNeighbor(c) \in Ids
      BY SAtNeighborIs DEF SAtNeighbor
    <3>3. spc'[c] = "reread" => snodes' = [snodes EXCEPT ![SNeighbor(c)] = c]
      <4>1. spc'[c] = "reread" => S!MakePlaceholder(c)
        BY <1>t, <3>1 DEF SStep, S!Insert, S!InsertFromExternal, S!InsertAsExternal,
         S!Lookup, S!First, S!ReadMaximumLayer, S!Store, S!EnterLevel, S!NextLevel,
         S!FindNeighbor, S!RereadPlaceholder, S!LinkNeighbor,
         S!LinkSelf, S!CountNeighbor, S!NextNeighbor, S!Prune, S!CheckMaximumLayer,
         S!Publish, S!InsertReadTotal, S!InsertFirst, S!InsertReadMaximumLayer,
         S!SelectNeighbors, S!InsertFindNeighbor, S!InsertPanic,
         S!InsertCheckMaximumLayer, S!graph, STypeOK
      <4> QED
        BY <4>1, SMTT(30) DEF S!MakePlaceholder, S!Neighbor, SNeighbor
    <3> QED
      BY <2>1, <3>1, <3>2, <3>3, Parameters
  <2> QED
    BY <2>2, <2>3, <2>4, <2>5, <2>6 DEF SHolds, SHasNeighbor, SAtNeighbor, SNeighbor
<1> QED
  BY <1>1, <1>2

(* ... so both.                                                              *)
LEMMA SStepTypes ==
  ASSUME STypes, PTypeOK, NEW c \in Ids, SStep(c), sinserts' = sinserts
  PROVE  STypes'
BY SStepTypeOK, SStepHolds DEF STypes

-------------------------------------------------------------------------------
(* As long as the table was made once, whatever is referred to is in it.     *)

(* A table that is not made has nothing in it.                               *)
LEMMA SStepUnmade ==
  ASSUME STypes, PTypeOK, SUnmade, NEW c \in Ids, SStep(c)
  PROVE  SUnmade'
<1>t. STypeOK /\ SMove(c) /\ sfirsts \subseteq Ids
  BY SMoves DEF STypes, STypeOK
<1>1. spc[c] # "done" /\ (spc'[c] \in {"call", "first"} \/ sfirsts # {} \/ spc[c] = "first")
  <2>1. spc[c] # "done"
    BY <1>t DEF SMove, SBegins, SRanges, SLinks, SEnds
  <2>2. spc[c] = "call" => spc'[c] = "first" \/ \E v \in Ids : snodes[v] # -1
    BY SSeesTable
  <2> QED
    BY <2>1, <2>2 DEF SUnmade
<1>2. \A d \in Ids : d # c => spc'[d] = spc[d]
  BY <1>t, SElsewhere
<1>3. CASE sfirsts' = sfirsts \cup {c} /\ spc[c] = "first" /\ spc'[c] = "done"
  BY <1>t, <1>2, <1>3 DEF SUnmade
<1>4. CASE sfirsts' = sfirsts /\ sfirsts # {}
  BY <1>t, <1>1, <1>2, <1>4 DEF SUnmade
<1>5. CASE sfirsts' = sfirsts /\ sfirsts = {}
  <2>1. snodes' = snodes /\ spc[c] \in {"call", "first"} /\ (spc[c] = "first" => sfirsts' = sfirsts \cup {c})
    BY <1>t, <1>5, SNodesChange, SFirstMakes DEF SUnmade
  <2>2. spc'[c] \in {"call", "first"}
    BY <1>1, <1>5, <2>1, SMTT(30)
  <2> QED
    BY <1>2, <1>5, <2>1, <2>2 DEF SUnmade
<1> QED
  BY <1>t, <1>3, <1>4, <1>5, SNodesChange

(* What a call does at three of its steps.                                   *)
LEMMA SActionAt ==
  ASSUME NEW c \in Ids, SStep(c)
  PROVE  /\ spc[c] = "first" => S!First(c)
         /\ spc[c] = "store" => S!Store(c)
         /\ spc[c] = "make" => S!MakePlaceholder(c)
BY Zenon DEF SStep, S!Insert, S!InsertFromExternal, S!InsertAsExternal,
         S!Lookup, S!First, S!ReadMaximumLayer, S!Store, S!EnterLevel, S!NextLevel,
         S!FindNeighbor, S!MakePlaceholder, S!RereadPlaceholder, S!LinkNeighbor,
         S!LinkSelf, S!CountNeighbor, S!NextNeighbor, S!Prune, S!CheckMaximumLayer,
         S!Publish, S!InsertReadTotal, S!InsertFirst, S!InsertReadMaximumLayer,
         S!SelectNeighbors, S!InsertFindNeighbor, S!InsertPanic,
         S!InsertCheckMaximumLayer, S!graph

(* What was made once before the step was not made before the first.         *)
LEMMA SOnceBefore ==
  ASSUME STypes, PTypeOK, SUnmade, NEW c \in Ids, SStep(c), SOnce'
  PROVE  SOnce /\ (spc[c] = "first" => sfirsts = {})
<1>1. sfirsts \subseteq Ids /\ IsFiniteSet(sfirsts) /\ Cardinality(sfirsts) \in Nat
  BY IdsFinite DEF STypes, STypeOK
<1>2. CASE sfirsts' = sfirsts
  <2>1. spc[c] # "first"
    BY <1>2, SFirstMakes DEF SUnmade
  <2> QED
    BY <1>2, <2>1 DEF SOnce
<1>3. CASE sfirsts' = sfirsts \cup {c} /\ spc[c] = "first"
  <2>1. c \notin sfirsts
    BY <1>3 DEF SUnmade
  <2>2. Cardinality(sfirsts') = Cardinality(sfirsts) + 1
    BY <1>1, <1>3, <2>1, FS_AddElement
  <2>3. Cardinality(sfirsts) = 0
    BY <1>1, <2>2 DEF SOnce
  <2> QED
    BY <1>1, <2>3, FS_EmptySet DEF SOnce
<1>4. STypeOK
  BY DEF STypes
<1> QED
  BY <1>2, <1>3, <1>4, SNodesChange

(* Nothing leaves the table, and who has stored its vertex goes on with it.  *)
LEMMA SGrows ==
  ASSUME STypes, PTypeOK, SUnmade, NEW c \in Ids, SStep(c), SOnce'
  PROVE  /\ STable \subseteq STable'
         /\ \A d \in Ids : SStored(d) => SStored(d)' /\ sown'[d] = sown[d]
         /\ \A d \in Ids : d # c => (SStored(d)' <=> SStored(d))
<1>t. STypeOK /\ snodes \in [Ids -> Ids \cup {-1}]
  BY DEF STypes, STypeOK
<1>1. STable \subseteq STable'
  <2>1. spc[c] # "call" => sown[c] \in Ids
    BY SAtNeighborIs
  <2>2. spc[c] = "make" => SNeighbor(c) \in Ids
    BY SAtNeighborIs DEF SAtNeighbor
  <2>3. spc[c] = "first" => STable = {}
    BY SOnceBefore DEF SUnmade, STable
  <2>4. ASSUME NEW v \in Ids, snodes[v] # -1, spc[c] # "first"
        PROVE  snodes'[v] # -1
    BY <1>t, <2>1, <2>2, <2>4, SNodesChange, Parameters
  <2> QED
    BY <2>3, <2>4 DEF STable
<1>2. ASSUME NEW d \in Ids, d # c
      PROVE  spc'[d] = spc[d] /\ sown'[d] = sown[d]
  BY <1>t, <1>2, SElsewhere
<1>3. ASSUME SStored(c)
      PROVE  SStored(c)' /\ sown'[c] = sown[c]
  <2>1. SMove(c)
    BY SMoves
  <2>2. SStored(c)'
    BY <1>3, <2>1 DEF SMove, SBegins, SRanges, SLinks, SEnds, SStored
  <2>3. spc[c] # "call"
    BY <1>3 DEF SStored
  <2> QED
    BY <2>2, <2>3, SLocalsChange
<1> QED
  BY <1>1, <1>2, <1>3 DEF SStored

(* A stored vertex is not replaced.                                          *)
LEMMA SStepStoredStay ==
  ASSUME STypes, PTypeOK, SUnmade, SSound, NEW c \in Ids, SStep(c), SOnce'
  PROVE  SStoredStay' /\ SMakesNew'
<1>t. STypeOK /\ snodes \in [Ids -> Ids \cup {-1}] /\ SMove(c)
  BY SMoves DEF STypes, STypeOK
<1>o. \A d \in Ids : d # c => /\ spc'[d] = spc[d] /\ sown'[d] = sown[d]
                              /\ SNeighbor(d)' = SNeighbor(d)
  BY <1>t, SElsewhere DEF SNeighbor
<1>1. SStoredStay'
  <2>1. CASE spc[c] = "first"
    <3>1. sfirsts = {} /\ (\A d \in Ids : ~SStored(d)) /\ sown' = sown
      BY <2>1, SOnceBefore, SLocalsChange DEF SUnmade, SStored
    <3>2. snodes' = [v \in Ids |-> IF v = c THEN sown[c] ELSE -1]
      BY <2>1, SActionAt, Shared DEF S!First
    <3> QED
      BY <3>1, <3>2, SGrows DEF SStoredStay
  <2>2. CASE spc[c] = "store"
    <3>1. snodes' = [snodes EXCEPT ![c] = sown[c]] /\ sown' = sown
      BY <2>2, SActionAt DEF S!Store
    <3> QED
      BY <1>t, <3>1, SGrows DEF SStoredStay, SSound
  <2>3. CASE spc[c] = "make"
    <3>1. snodes' = [snodes EXCEPT ![SNeighbor(c)] = c] /\ sown' = sown
      BY <2>3, SActionAt DEF S!MakePlaceholder, S!Neighbor, SNeighbor
    <3>2. SStored(c) /\ ~SStored(SNeighbor(c)) /\ SNeighbor(c) \in Ids
      BY <2>3, SAtNeighborIs DEF SSound, SMakesNew, SStored, SAtNeighbor
    <3>3. PICK v \in Ids : v = SNeighbor(c)
      BY <3>2
    <3>4. ~SStored(v)'
      BY <3>2, <3>3, SGrows
    <3> QED
      BY <1>t, <3>1, <3>2, <3>3, <3>4, SGrows DEF SStoredStay, SSound
  <2>4. CASE spc[c] \notin {"first", "store", "make"}
    <3>1. snodes' = snodes
      BY <1>t, <2>4, SNodesChange
    <3>2. SStored(c)' => SStored(c)
      BY <1>t, <2>4 DEF SMove, SBegins, SRanges, SLinks, SEnds, SStored
    <3> QED
      BY <3>1, <3>2, SGrows DEF SStoredStay, SSound
  <2> QED
    BY <2>1, <2>2, <2>3, <2>4
<1>2. SMakesNew'
  <2>1. ASSUME spc'[c] = "make"
        PROVE  ~SStored(SNeighbor(c))'
    <3>1. /\ spc[c] = "range" /\ SNeighbor(c)' = SNeighbor(c) /\ snodes[SNeighbor(c)] = -1
          /\ sidx[c] <= Len(sneighbors[c])
      BY <1>t, <2>1 DEF SMove, SBegins, SRanges, SLinks, SEnds, SSameList, SNeighbor
    <3>2. SNeighbor(c) \in Ids
      BY <3>1, SAtNeighborIs
    <3>3. ~SStored(SNeighbor(c))
      <4>1. SStored(SNeighbor(c)) => sown[SNeighbor(c)] \in Ids
        BY <3>2, SAtNeighborIs DEF SStored
      <4> QED
        BY <3>1, <3>2, <4>1, Parameters DEF SSound, SStoredStay
    <3>4. SStored(c)
      BY <3>1 DEF SStored
    <3> QED
      BY <3>1, <3>2, <3>3, <3>4, SGrows
  <2>2. ASSUME NEW d \in Ids, d # c, spc'[d] = "make"
        PROVE  ~SStored(SNeighbor(d))'
    <3>1. spc[d] = "make" /\ SNeighbor(d)' = SNeighbor(d)
      BY <1>o, <2>2
    <3>2. SNeighbor(d) \in Ids /\ ~SStored(SNeighbor(d))
      BY <3>1, SAtNeighborIs DEF SSound, SMakesNew, SAtNeighbor
    <3>3. spc[c] \notin {"first", "store"}
      BY <2>2, <3>1, SActionAt, Shared DEF S!First, S!Store, S!Readers
    <3>4. SStored(c)' => SStored(c)
      BY <1>t, <3>3 DEF SMove, SBegins, SRanges, SLinks, SEnds, SStored
    <3> QED
      BY <3>1, <3>2, <3>4, SGrows
  <2> QED
    BY <2>1, <2>2 DEF SMakesNew
<1> QED
  BY <1>1, <1>2

(* A call that has stored its vertex can be linked to.                       *)
LEMMA SOwnIn ==
  ASSUME STypes, SStoredStay, NEW c \in Ids, SStored(c)
  PROVE  c \in STable
<1>1. sown[c] \in Ids
  BY SAtNeighborIs DEF SStored
<1> QED
  BY <1>1, Parameters DEF SStoredStay, STable

(* The neighbors of a call are in the table.                                 *)
LEMMA SStepNeighborsIn ==
  ASSUME STypes, PTypeOK, SUnmade, SSound, NEW c \in Ids, SStep(c), SOnce', sinserts' = sinserts
  PROVE  SNeighborsIn' /\ SRangesIn' /\ SNoPanic'
<1>t. STypeOK /\ SMove(c) /\ STable \subseteq STable'
  BY SMoves, SGrows DEF STypes
<1>o. \A d \in Ids : d # c => /\ spc'[d] = spc[d] /\ sneighbors'[d] = sneighbors[d]
                              /\ SNeighbor(d)' = SNeighbor(d)
  BY <1>t, SElsewhere DEF SNeighbor
<1>1. SNeighborsIn'
  <2>1. ASSUME SHasNeighbor(c)'
        PROVE  SNeighbor(c)' \in STable'
    <3>1. /\ SNeighbor(c)' = SNeighbor(c)
          /\ \/ SHasNeighbor(c) \/ spc[c] = "reread"
             \/ spc[c] = "range" /\ sidx[c] <= Len(sneighbors[c]) /\ snodes[SNeighbor(c)] # -1
      BY <1>t, <2>1 DEF SMove, SBegins, SRanges, SLinks, SEnds, SSameList, SNeighbor, SHasNeighbor
    <3>2. spc[c] = "reread" => snodes[SNeighbor(c)] # -1
      BY DEF STypes, SHolds
    <3>3. SNeighbor(c) \in STable
      BY <3>1, <3>2, SAtNeighborIs DEF SSound, SNeighborsIn, STable, SAtNeighbor
    <3> QED
      BY <1>t, <3>1, <3>3
  <2>2. ASSUME NEW d \in Ids, d # c, SHasNeighbor(d)'
        PROVE  SNeighbor(d)' \in STable'
    BY <1>t, <1>o, <2>2 DEF SSound, SNeighborsIn, SHasNeighbor
  <2> QED
    BY <2>1, <2>2 DEF SNeighborsIn
<1>2. SRangesIn'
  <2>1. ASSUME c \in sinserts, spc'[c] = "range" \/ SAtNeighbor(c)'
        PROVE  Elements(sneighbors'[c]) \subseteq STable'
    <3>1. \/ sneighbors'[c] \in SChoices
          \/ sneighbors'[c] = sneighbors[c] /\ (spc[c] = "range" \/ SAtNeighbor(c))
      BY <1>t, <2>1 DEF SMove, SBegins, SRanges, SLinks, SEnds, SSameList, SAtNeighbor
    <3> QED
      BY <1>t, <2>1, <3>1 DEF SSound, SRangesIn, SChoices
  <2>2. ASSUME NEW d \in sinserts, d # c, spc'[d] = "range" \/ SAtNeighbor(d)'
        PROVE  Elements(sneighbors'[d]) \subseteq STable'
    <3>1. d \in Ids
      BY <1>t DEF STypeOK
    <3> QED
      BY <1>t, <1>o, <2>2, <3>1 DEF SSound, SRangesIn, SAtNeighbor
  <2> QED
    BY <2>1, <2>2 DEF SRangesIn
<1>3. SNoPanic'
  <2>1. spc'[c] # "panic"
    <3> SUFFICES ASSUME spc'[c] = "panic" PROVE FALSE
      OBVIOUS
    <3>1. spc[c] = "range" /\ sidx[c] <= Len(sneighbors[c]) /\ snodes[SNeighbor(c)] = -1 /\ c \in sinserts
      BY <1>t DEF SMove, SBegins, SRanges, SLinks, SEnds
    <3>2. SNeighbor(c) \in Elements(sneighbors[c])
      BY <3>1, SAtNeighborIs
    <3> QED
      BY <3>1, <3>2 DEF SSound, SRangesIn, STable
  <2> QED
    BY <1>o, <2>1 DEF SSound, SNoPanic
<1> QED
  BY <1>1, <1>2, <1>3

(* What the graph refers to is in the table.                                 *)
LEMMA SStepListsIn ==
  ASSUME STypes, PTypeOK, SUnmade, SSound, NEW c \in Ids, SStep(c), SOnce'
  PROVE  SListsIn' /\ SSnapshotsIn' /\ SChosenIn' /\ SEntryIn'
<1>t. STypeOK /\ STable \subseteq STable' /\ SMove(c)
  BY SMoves, SGrows DEF STypes
<1>y. /\ sconnections \in Tables /\ ssnapshot \in [Ids -> Seq(Ids)] /\ slayer[c] \in Levels
      /\ schosen \in [Ids -> [Levels -> Seq(Ids)]]
  BY <1>t DEF STypeOK
<1>s. SStored(c) => c \in STable
  BY SOwnIn DEF SSound
<1>e. \A l \in Levels : Unlinked[l] \in Seq(Ids) /\ Elements(Unlinked[l]) = {}
  BY Parameters, ElementsOf
<1>1. SListsIn'
  <2> DEFINE In(f) == \A v, m \in Ids, i \in Levels : Elements(f[v][m][i]) \subseteq STable
  <2>0. In(sconnections)
    BY DEF SSound, SListsIn
  <2>1. SUFFICES In(sconnections')
    BY <1>t, <2>1 DEF SListsIn
  <2>2. CASE sown[c] \in Ids /\ sconnections' = [sconnections EXCEPT ![c][sown[c]] = Unlinked]
    <3>1. \A v, m \in Ids, l \in Levels :
            sconnections'[v][m][l] = IF v = c /\ m = sown[c] THEN Unlinked[l] ELSE sconnections[v][m][l]
      BY <1>y, <2>2 DEF Tables
    <3> QED
      BY <1>e, <2>0, <3>1
  <2>3. ASSUME NEW a \in Ids, NEW b \in Ids, NEW x \in STable,
               sconnections' = [sconnections EXCEPT
                 ![a][b][slayer[c]] = Append(sconnections[a][b][slayer[c]], x)]
        PROVE  In(sconnections')
    <3>1. PICK q \in Seq(Ids) : q = sconnections[a][b][slayer[c]] /\ Elements(q) \subseteq STable
      <4>1. sconnections[a][b][slayer[c]] \in Seq(Ids)
        BY <1>y DEF Tables
      <4>2. Elements(sconnections[a][b][slayer[c]]) \subseteq STable
        BY <1>y DEF SSound, SListsIn
      <4> QED
        BY <4>1, <4>2
    <3>2. x \in Ids
      BY DEF STable
    <3>3. PICK r \in Seq(Ids) : r = Append(q, x) /\ Elements(r) \subseteq STable
      <4>1. Append(q, x) \in Seq(Ids) /\ Elements(Append(q, x)) = Elements(q) \cup {x}
        BY <3>2, ElementsOf
      <4> QED
        BY <3>1, <4>1
    <3>4. sconnections' = [sconnections EXCEPT ![a][b][slayer[c]] = r]
      BY <2>3, <3>1, <3>3
    <3> HIDE DEF In
    <3>5. In([sconnections EXCEPT ![a][b][slayer[c]] = r])
      BY <1>y, <2>0, <3>3, ReplacedIn, ZenonT(60) DEF In
    <3> QED
      BY <3>4, <3>5
  <2>4. ASSUME NEW s \in S!Nearest(Elements(ssnapshot[c]), Dist[c], Limit(slayer[c])),
               sneighbor[c] \in Ids, SNeighbor(c) \in Ids,
               sconnections' = [sconnections EXCEPT ![SNeighbor(c)][sneighbor[c]][slayer[c]] = s]
        PROVE  In(sconnections')
    <3>1. ssnapshot[c] \in Seq(Ids) /\ Elements(ssnapshot[c]) \subseteq Ids
      BY <1>y, ElementsOf
    <3>2. s \in Seq(Ids) /\ Elements(s) \subseteq Elements(ssnapshot[c])
      BY <1>y, <3>1, NearestList, Parameters
    <3>3. Elements(s) \subseteq STable
      BY <3>2 DEF SSound, SSnapshotsIn
    <3> HIDE DEF In
    <3>4. In([sconnections EXCEPT ![SNeighbor(c)][sneighbor[c]][slayer[c]] = s])
      BY <1>y, <2>0, <2>4, <3>2, <3>3, ReplacedIn, SMTT(30) DEF In
    <3> QED
      BY <2>4, <3>4
  <2>5. spc[c] = "link" => c \in STable
    BY <1>s DEF SStored
  <2>6. spc[c] = "linkSelf" => SNeighbor(c) \in STable
    BY DEF SSound, SNeighborsIn, SHasNeighbor
  <2> HIDE DEF In
  <2>7. CASE sconnections' = sconnections
    BY <2>0, <2>7
  <2>8. CASE /\ spc[c] = "link" /\ sneighbor[c] \in Ids /\ SNeighbor(c) \in Ids
             /\ sconnections' = [sconnections EXCEPT
                  ![SNeighbor(c)][sneighbor[c]][slayer[c]] =
                     Append(sconnections[SNeighbor(c)][sneighbor[c]][slayer[c]], c)]
    BY <2>3, <2>5, <2>8
  <2>9. CASE /\ spc[c] = "linkSelf" /\ sown[c] \in Ids
             /\ sconnections' = [sconnections EXCEPT
                  ![c][sown[c]][slayer[c]] =
                     Append(sconnections[c][sown[c]][slayer[c]], SNeighbor(c))]
    BY <2>3, <2>6, <2>9
  <2> QED
    BY <2>2, <2>4, <2>7, <2>8, <2>9, SListsChange
<1>2. SSnapshotsIn'
  <2> SUFFICES ASSUME NEW d \in Ids PROVE Elements(ssnapshot'[d]) \subseteq STable'
    BY DEF SSnapshotsIn
  <2>1. Elements(ssnapshot[d]) \subseteq STable /\ Elements(<<>>) = {}
    BY <1>y, ElementsOf DEF SSound, SSnapshotsIn
  <2>2. \A a, b \in Ids : Elements(sconnections[a][b][slayer[c]]) \subseteq STable
    BY <1>y DEF SSound, SListsIn
  <2>3. CASE ssnapshot' = ssnapshot
    BY <1>t, <2>1, <2>3
  <2>4. CASE ssnapshot' = [ssnapshot EXCEPT ![c] = <<>>]
    BY <1>t, <1>y, <2>1, <2>4
  <2>5. CASE /\ sneighbor[c] \in Ids /\ SNeighbor(c) \in Ids
             /\ ssnapshot' = [ssnapshot EXCEPT
                   ![c] = sconnections[SNeighbor(c)][sneighbor[c]][slayer[c]]]
    BY <1>t, <1>y, <2>1, <2>2, <2>5
  <2> QED
    BY <2>3, <2>4, <2>5, SLocalsChange
<1>3. SChosenIn'
  <2> SUFFICES ASSUME NEW d \in Ids, NEW l \in Levels PROVE Elements(schosen'[d][l]) \subseteq STable'
    BY DEF SChosenIn
  <2>1. Elements(schosen[d][l]) \subseteq STable
    BY DEF SSound, SChosenIn
  <2>2. CASE schosen' = schosen
    BY <1>t, <2>1, <2>2
  <2>3. ASSUME NEW s \in SChoices, schosen' = [schosen EXCEPT ![c][slayer[c]] = s]
        PROVE  Elements(schosen'[d][l]) \subseteq STable'
    <3>1. Elements(s) \subseteq STable
      BY DEF SChoices
    <3>2. schosen'[d][l] = IF d = c /\ l = slayer[c] THEN s ELSE schosen[d][l]
      BY <1>y, <2>3
    <3> QED
      BY <1>t, <2>1, <3>1, <3>2
  <2> QED
    BY <2>2, <2>3, SLocalsChange
<1>4. SEntryIn'
  <2>1. spc[c] \in {"first", "publish"} => c \in STable'
    <3>1. spc[c] = "publish" => c \in STable
      BY <1>s DEF SStored
    <3>2. spc[c] = "first" => snodes' = [v \in Ids |-> IF v = c THEN sown[c] ELSE -1] /\ sown[c] \in Ids
      BY SActionAt, SAtNeighborIs, Shared DEF S!First
    <3> QED
      BY <1>t, <3>1, <3>2, Parameters DEF STable
  <2>2. sfirsts' # {} /\ spc[c] # "first" => sfirsts # {}
    BY <1>t, SNodesChange
  <2>3. spc[c] = "first" => sentryPointID' = c
    BY SActionAt DEF S!First
  <2> QED
    BY <1>t, <2>1, <2>2, <2>3, STopChange DEF SEntryIn, SSound
<1> QED
  BY <1>1, <1>2, <1>3, <1>4

(* A step keeps all of that.                                                 *)
LEMMA SStepSound ==
  ASSUME STypes, PTypeOK, SUnmade, SOnce => SSound, NEW c \in Ids, SStep(c), sinserts' = sinserts
  PROVE  SOnce' => SSound'
BY SOnceBefore, SStepStoredStay, SStepNeighborsIn, SStepListsIn DEF SSound

-------------------------------------------------------------------------------
(* What the two graphs know of each other.                                   *)

(* An insertion makes its own vertex.                                        *)
LEMMA SLocalsAtCall ==
  ASSUME STypes, PTypeOK, NEW c \in Ids, SStep(c), spc[c] = "call", c \in sinserts
  PROVE  sown'[c] = c
<1>1. S!InsertReadTotal(c)
  BY DEF SStep, S!Insert, S!InsertFromExternal, S!InsertAsExternal,
         S!Lookup, S!First, S!ReadMaximumLayer, S!Store, S!EnterLevel, S!NextLevel,
         S!FindNeighbor, S!MakePlaceholder, S!RereadPlaceholder, S!LinkNeighbor,
         S!LinkSelf, S!CountNeighbor, S!NextNeighbor, S!Prune, S!CheckMaximumLayer,
         S!Publish, S!InsertReadTotal, S!InsertFirst, S!InsertReadMaximumLayer,
         S!SelectNeighbors, S!InsertFindNeighbor, S!InsertPanic,
         S!InsertCheckMaximumLayer, S!graph
<1> QED
  BY <1>1, Shared DEF S!InsertReadTotal, STypes, STypeOK

(* The call that raises the maximum layer becomes the entry point.           *)
LEMMA SPublishes ==
  ASSUME STypes, PTypeOK, NEW c \in Ids, SStep(c), spc[c] = "publish"
  PROVE  /\ sentryPointID' = c
         /\ scurrentMaximumLayer' = IF c \in sinserts THEN slevelOf[c][c] ELSE plevelOf[c][c]
<1>1. S!Publish(c)
  BY DEF SStep, S!Insert, S!InsertFromExternal, S!InsertAsExternal,
         S!Lookup, S!First, S!ReadMaximumLayer, S!Store, S!EnterLevel, S!NextLevel,
         S!FindNeighbor, S!MakePlaceholder, S!RereadPlaceholder, S!LinkNeighbor,
         S!LinkSelf, S!CountNeighbor, S!NextNeighbor, S!Prune, S!CheckMaximumLayer,
         S!Publish, S!InsertReadTotal, S!InsertFirst, S!InsertReadMaximumLayer,
         S!SelectNeighbors, S!InsertFindNeighbor, S!InsertPanic,
         S!InsertCheckMaximumLayer, S!graph
<1>2. sentryPointID' = c /\ scurrentMaximumLayer' = SHook[c].target
  BY <1>1, Shared DEF S!Publish, SHook
<1> QED
  BY <1>2, SHookIs DEF STypes

(* SGrows, for the vertex of the entry point as it becomes.                  *)
LEMMA SGrowsAt ==
  ASSUME STypes, PTypeOK, SUnmade, NEW c \in Ids, SStep(c), SOnce', sentryPointID' = sentryPointID,
         sentryPointID \in Ids, SStored(sentryPointID)
  PROVE  sown'[sentryPointID] = sown[sentryPointID] /\ SStored(sentryPointID)'
<1>1. PICK e \in Ids : e = sentryPointID
  OBVIOUS
<1>2. SStored(e)' /\ sown'[e] = sown[e]
  BY <1>1, SGrows
<1> QED
  BY <1>1, <1>2 DEF SStored

(* A step keeps the relation of jobs and hooks.                              *)
LEMMA SStepJobs ==
  ASSUME STypes, PTypeOK, SJobs, NEW c \in Ids, SStep(c), sinserts' = sinserts, phooked' = phooked
  PROVE  SJobs' /\ shooked \subseteq shooked'
<1>t. STypeOK /\ SMove(c)
  BY SMoves DEF STypes
<1>1. shooked' = shooked \/ (c \in sinserts /\ shooked' = shooked \cup {c} /\ spc'[c] \in {"publish", "done"})
  BY SLocalsChange
<1>2. \A d \in Ids : d # c => spc'[d] = spc[d]
  BY <1>t, SElsewhere
<1>3. spc[c] \in {"publish", "done"} => spc'[c] \in {"publish", "done"}
  BY <1>t DEF SMove, SBegins, SRanges, SLinks, SEnds
<1>4. spc[c] = "call" => c \in sinserts \/ c \in phooked
  BY <1>t DEF SMove, SBegins, SRanges, SLinks, SEnds
<1>5. shooked \subseteq Ids
  BY <1>t DEF STypeOK
<1> QED
  BY <1>1, <1>2, <1>3, <1>4, <1>5 DEF SJobs

(* What a call is linking stays in one of the tables.                        *)
LEMMA SStepNames ==
  ASSUME STypes, PTypeOK, SUnmade, SSound, PSound, SNames, SJobs, NEW c \in Ids, SStep(c),
         SOnce', PTable' = PTable
  PROVE  SNames'
<1>t. STypeOK /\ SMove(c) /\ STable \subseteq STable' /\ slayer[c] \in Levels
  BY SMoves, SGrows DEF STypes, STypeOK
<1>1. ASSUME NEW d \in Ids, d # c, spc'[d] = "range" \/ SAtNeighbor(d)'
      PROVE  Elements(sneighbors'[d]) \subseteq STable' \cup PTable'
  <2>1. spc'[d] = spc[d] /\ sneighbors'[d] = sneighbors[d]
    BY <1>t, <1>1, SElsewhere
  <2> QED
    BY <1>t, <1>1, <2>1 DEF SNames, SAtNeighbor
<1>2. ASSUME spc'[c] = "range" \/ SAtNeighbor(c)'
      PROVE  Elements(sneighbors'[c]) \subseteq STable' \cup PTable'
  <2>1. \/ sneighbors'[c] \in SChoices
        \/ c \notin sinserts /\ sneighbors'[c] = SHook[c].neighbors[slayer[c]]
        \/ sneighbors'[c] = sneighbors[c] /\ (spc[c] = "range" \/ SAtNeighbor(c))
    BY <1>t, <1>2 DEF SMove, SBegins, SRanges, SLinks, SEnds, SSameList, SAtNeighbor
  <2>2. c \notin sinserts => Elements(SHook[c].neighbors[slayer[c]]) \subseteq PTable
    <3>1. Elements(pconnections[c][c][slayer[c]]) \subseteq PTable
      BY <1>t DEF PSound, PListsIn
    <3>2. Elements(pchosen[c][slayer[c]]) \subseteq PTable
      BY <1>t DEF PSound, PChosenIn
    <3> QED
      BY <1>t, <3>1, <3>2, SHookIs
  <2> QED
    BY <1>t, <2>1, <2>2 DEF SNames, SChoices
<1> QED
  BY <1>1, <1>2 DEF SNames

(* What no insertion has stored stays out of both tables.                    *)
LEMMA SStepUnused ==
  ASSUME STypes, PTypeOK, SUnmade, SSound, SNames, SJobs, PJobs, NEW c \in Ids, SStep(c),
         SOnce', SOnce, POnce, UnusedOut,
         sinserts' = sinserts, pinserts' = pinserts, PTable' = PTable, ppc' = ppc
  PROVE  \A v \in Ids : Unused(v)' => v \notin STable' \cup PTable'
<1>t. STypeOK /\ SMove(c)
  BY SMoves DEF STypes
<1>1. \A v \in Ids : Unused(v)' => Unused(v)
  BY SGrows DEF Unused, PStored
<1>2. \A v \in Ids : Unused(v)' => v \notin STable \cup PTable
  BY <1>1 DEF UnusedOut
<1>3. spc[c] # "call" /\ SStored(c)' => ~Unused(c)'
  <2>1. spc[c] # "call" => c \in sinserts \/ (c \in pinserts /\ PStored(c))
    BY DEF SJobs, PJobs, PStored
  <2> QED
    BY <2>1 DEF Unused, PStored
<1>4. ASSUME NEW v \in Ids, v \in STable', v \notin STable
      PROVE  ~Unused(v)'
  <2>1. CASE spc[c] = "first" /\ spc'[c] = "done" /\ snodes' = [w \in Ids |-> IF w = c THEN sown[c] ELSE -1]
    <3>1. v = c
      BY <1>4, <2>1 DEF STable
    <3> QED
      BY <1>3, <2>1, <3>1 DEF SStored
  <2>2. CASE spc[c] = "store" /\ spc'[c] = "level" /\ snodes' = [snodes EXCEPT ![c] = sown[c]]
    <3>1. v = c
      BY <1>t, <1>4, <2>2 DEF STable, STypeOK
    <3> QED
      BY <1>3, <2>2, <3>1 DEF SStored
  <2>3. CASE spc[c] = "make" /\ snodes' = [snodes EXCEPT ![SNeighbor(c)] = c]
    <3>1. v = SNeighbor(c)
      BY <1>t, <1>4, <2>3 DEF STable, STypeOK
    <3>2. v \in STable \cup PTable
      BY <2>3, <3>1, SAtNeighborIs DEF SNames, SAtNeighbor
    <3> QED
      BY <1>2, <3>2
  <2>4. CASE snodes' = snodes
    BY <1>4, <2>4 DEF STable
  <2> QED
    BY <1>t, <2>1, <2>2, <2>3, <2>4, SNodesChange
<1>5. ASSUME NEW v \in Ids, Unused(v)'
      PROVE  v \notin STable' \cup PTable'
  BY <1>2, <1>4, <1>5
<1> QED
  BY <1>5

(* A step keeps the levels of its own graph...                               *)
LEMMA SStepLevels ==
  ASSUME STypes, PTypeOK, SUnmade, SJobs, PJobs, sinserts \cap pinserts = {}, SLevels,
         NEW c \in Ids, SStep(c),
         sinserts' = sinserts, phooked' = phooked, plevelOf' = plevelOf
  PROVE  SLevels'
<1>t. /\ STypeOK /\ SMove(c) /\ slevelOf \in [Ids -> [Ids -> Levels]] /\ sinserts \subseteq Ids
      /\ sown \in [Ids -> Ids \cup {-1}]
  BY SMoves DEF STypes, STypeOK
<1>o. \A d \in Ids : d # c => spc'[d] = spc[d] /\ sown'[d] = sown[d] /\ slevelOf'[d] = slevelOf[d]
  <2>1. ASSUME NEW d \in Ids, d # c
        PROVE  slevelOf'[d] = slevelOf[d]
    BY <1>t, <2>1, SLevelsChange
  <2> QED
    BY <1>t, <2>1, SElsewhere
<1>s. phooked \subseteq Ids /\ phooked \subseteq pinserts
  BY DEF PTypeOK, PJobs
<1>w. spc[c] # "call" => sown' = sown /\ sown[c] \in Ids
  BY SLocalsChange, SAtNeighborIs
<1>1. \A d \in sinserts : spc'[d] # "call" => sown'[d] = d
  <2>1. c \in sinserts /\ spc'[c] # "call" => sown'[c] = c
    <3>1. spc[c] = "call" /\ c \in sinserts => sown'[c] = c
      BY SLocalsAtCall
    <3> QED
      BY <1>w, <3>1 DEF SLevels
  <2> QED
    BY <1>t, <1>o, <2>1 DEF SLevels
<1>2. \A d \in phooked \ sfirsts' : spc'[d] \notin {"call", "first"} =>
        slevelOf'[d][sown'[d]] = plevelOf[d][d]
  <2>1. sfirsts \subseteq sfirsts'
    BY <1>t, SNodesChange
  <2>2. ASSUME c \in phooked, c \notin sfirsts', spc'[c] \notin {"call", "first"}
        PROVE  slevelOf'[c][sown'[c]] = plevelOf[c][c]
    <3>1. c \notin sinserts
      BY <1>s, <2>2
    <3>2. CASE spc[c] = "call"
      <4>1. S!Lookup(c)
        BY <3>1, <3>2 DEF SStep, S!Insert, S!InsertFromExternal, S!InsertAsExternal,
         S!Lookup, S!First, S!ReadMaximumLayer, S!Store, S!EnterLevel, S!NextLevel,
         S!FindNeighbor, S!MakePlaceholder, S!RereadPlaceholder, S!LinkNeighbor,
         S!LinkSelf, S!CountNeighbor, S!NextNeighbor, S!Prune, S!CheckMaximumLayer,
         S!Publish, S!InsertReadTotal, S!InsertFirst, S!InsertReadMaximumLayer,
         S!SelectNeighbors, S!InsertFindNeighbor, S!InsertPanic,
         S!InsertCheckMaximumLayer, S!graph
      <4> DEFINE m == IF snodes[c] = -1 THEN c ELSE snodes[c]
      <4>2. /\ sown' = [sown EXCEPT ![c] = m]
            /\ slevelOf' = [slevelOf EXCEPT ![c][m] = SHook[c].target]
        BY <4>1, Shared DEF S!Lookup, SHook
      <4>3. m \in Ids
        BY <1>t DEF STypeOK
      <4>4. SHook[c].target = plevelOf[c][c]
        BY <1>t, <3>1, SHookIs
      <4> HIDE DEF m
      <4> QED
        BY <1>t, <4>2, <4>3, <4>4
    <3>3. CASE spc[c] # "call"
      <4>1. spc[c] # "first"
        BY <2>2, SFirstMakes
      <4>2. slevelOf' = slevelOf
        BY <3>1, <3>3, <4>1, SLevelsChange
      <4> QED
        BY <1>w, <2>1, <2>2, <3>3, <4>1, <4>2 DEF SLevels
    <3> QED
      BY <3>2, <3>3
  <2>3. ASSUME NEW d \in phooked, d # c, d \notin sfirsts', spc'[d] \notin {"call", "first"}
        PROVE  slevelOf'[d][sown'[d]] = plevelOf[d][d]
    BY <1>o, <1>s, <2>1, <2>3 DEF SLevels
  <2> QED
    BY <2>2, <2>3
<1>3. ASSUME SOnce', sfirsts' # {}
      PROVE  /\ sentryPointID' \in Ids /\ SStored(sentryPointID)'
             /\ slevelOf'[sentryPointID'][sown'[sentryPointID']] = scurrentMaximumLayer'
  <2>1. CASE spc[c] = "first"
    <3>1. /\ spc'[c] = "done" /\ sentryPointID' = c /\ scurrentMaximumLayer' = 0
          /\ slevelOf' = [slevelOf EXCEPT ![c][sown[c]] = 0] /\ sown' = sown /\ sown[c] \in Ids
      BY <1>t, <1>w, <2>1, SActionAt, ZenonT(60) DEF S!First, STypeOK
    <3> QED
      BY <1>t, <3>1 DEF SStored
  <2>2. CASE spc[c] = "publish"
    <3>1. /\ spc'[c] = "done" /\ sown' = sown /\ slevelOf' = slevelOf
      BY <1>t, <1>w, <2>2, SLevelsChange DEF SMove, SBegins, SRanges, SLinks, SEnds
    <3>2. sentryPointID' = c /\ scurrentMaximumLayer' = IF c \in sinserts THEN slevelOf[c][c] ELSE plevelOf[c][c]
      BY <2>2, SPublishes
    <3>3. c \in sinserts => sown[c] = c
      BY <2>2 DEF SLevels
    <3>4. c \notin sinserts => slevelOf[c][sown[c]] = plevelOf[c][c]
      BY <2>2 DEF SLevels, SJobs, SUnmade
    <3> QED
      BY <3>1, <3>2, <3>3, <3>4 DEF SStored
  <2>3. CASE spc[c] \notin {"first", "publish"}
    <3>1. sentryPointID' = sentryPointID /\ scurrentMaximumLayer' = scurrentMaximumLayer /\ sfirsts' = sfirsts
      BY <1>t, <2>3, STopChange, SNodesChange
    <3>2. SOnce
      BY <1>3, SOnceBefore
    <3>3. /\ sentryPointID \in Ids /\ SStored(sentryPointID)
          /\ slevelOf[sentryPointID][sown[sentryPointID]] = scurrentMaximumLayer
      BY <1>3, <3>1, <3>2 DEF SLevels
    <3>4. sown'[sentryPointID] = sown[sentryPointID] /\ SStored(sentryPointID)'
      BY <1>3, <3>1, <3>3, SGrowsAt
    <3>5. slevelOf'[sentryPointID] = slevelOf[sentryPointID]
      <4>1. sentryPointID = c => slevelOf' = slevelOf
        BY <3>3, SLevelsChange DEF SStored
      <4> QED
        BY <1>o, <3>3, <4>1
    <3> QED
      BY <3>1, <3>3, <3>4, <3>5
  <2> QED
    BY <2>1, <2>2, <2>3
<1> QED
  BY <1>1, <1>2, <1>3 DEF SLevels

(* ... and those of the other one.                                           *)
LEMMA SOtherLevels ==
  ASSUME STypes, PTypeOK, SJobs, PJobs, sinserts \cap pinserts = {}, PLevels,
         NEW c \in Ids, SStep(c), sinserts' = sinserts,
         pfirsts' = pfirsts, ppc' = ppc, pown' = pown, plevelOf' = plevelOf,
         pinserts' = pinserts, pentryPointID' = pentryPointID,
         pcurrentMaximumLayer' = pcurrentMaximumLayer
  PROVE  PLevels'
<1>t. STypeOK /\ slevelOf \in [Ids -> [Ids -> Levels]] /\ sinserts \subseteq Ids
  BY DEF STypes, STypeOK
<1>1. ASSUME NEW d \in shooked' \ pfirsts, ppc[d] \notin {"call", "first"}
      PROVE  d \in shooked /\ slevelOf'[d] = slevelOf[d]
  <2>1. \/ shooked' = shooked
        \/ c \in sinserts /\ shooked' = shooked \cup {c}
    BY SLocalsChange
  <2>2. d \in shooked
    <3>1. c \in sinserts /\ c \notin shooked => ppc[c] = "call"
      BY DEF PJobs
    <3> QED
      BY <1>1, <2>1, <3>1
  <2>3. d \in Ids /\ spc[d] \in {"publish", "done"}
    BY <1>t, <2>2 DEF SJobs
  <2>4. slevelOf'[d] = slevelOf[d]
    BY <1>t, <2>3, SLevelsChange
  <2> QED
    BY <2>2, <2>4
<1>2. \A d \in shooked' \ pfirsts' : ppc'[d] \notin {"call", "first"} =>
        plevelOf'[d][pown'[d]] = slevelOf'[d][d]
  BY <1>1, SMTT(30) DEF PLevels
<1> QED
  BY <1>2 DEF PLevels, POnce, PStored

-------------------------------------------------------------------------------
(* A vertex that is not the first of a graph is linked on level 0.           *)

(* No list of level 0 is emptied, but by who makes the table.                *)
LEMMA SKeepsFilled ==
  ASSUME STypes, PTypeOK, SFilled, NEW c \in Ids, SStep(c),
         NEW d \in Ids, NEW m \in Ids, sconnections[d][m][0] # <<>>,
         ~(spc[c] = "first" /\ d = c /\ m = sown[c])
  PROVE  sconnections'[d][m][0] # <<>>
<1>t. STypeOK /\ SMove(c)
  BY SMoves DEF STypes
<1>y. /\ sconnections \in Tables /\ ssnapshot[c] \in Seq(Ids) /\ slayer[c] \in Levels
      /\ Limit(slayer[c]) \in Nat /\ Limit(slayer[c]) > 0 /\ 0 \in Levels
  BY <1>t, Parameters DEF STypeOK
<1>a. ASSUME NEW a \in Ids, NEW b \in Ids, NEW x \in Ids,
             sconnections' = [sconnections EXCEPT
               ![a][b][slayer[c]] = Append(sconnections[a][b][slayer[c]], x)]
      PROVE  sconnections'[d][m][0] # <<>>
  <2>1. sconnections[a][b][slayer[c]] \in Seq(Ids)
    BY <1>y, ReadsList
  <2>2. PICK r \in Seq(Ids) : r = Append(sconnections[a][b][slayer[c]], x) /\ r # <<>>
    BY <2>1, ElementsOf
  <2>3. sconnections' = [sconnections EXCEPT ![a][b][slayer[c]] = r]
    BY <1>a, <2>2
  <2>4. [sconnections EXCEPT ![a][b][slayer[c]] = r][d][m][0] # <<>>
    BY <1>y, <2>2, FilledIn, SMTT(30)
  <2> QED
    BY <2>3, <2>4
<1>1. CASE sconnections' = sconnections
  BY <1>1
<1>2. CASE /\ spc[c] = "first" /\ sown[c] \in Ids
           /\ sconnections' = [sconnections EXCEPT ![c][sown[c]] = Unlinked]
  BY <1>2, <1>y DEF Tables
<1>3. CASE /\ sneighbor[c] \in Ids /\ SNeighbor(c) \in Ids
           /\ sconnections' = [sconnections EXCEPT
                ![SNeighbor(c)][sneighbor[c]][slayer[c]] =
                   Append(sconnections[SNeighbor(c)][sneighbor[c]][slayer[c]], c)]
  BY <1>3, <1>a
<1>4. CASE /\ sown[c] \in Ids /\ SNeighbor(c) \in Ids
           /\ sconnections' = [sconnections EXCEPT
                ![c][sown[c]][slayer[c]] =
                   Append(sconnections[c][sown[c]][slayer[c]], SNeighbor(c))]
  BY <1>4, <1>a
<1>5. CASE /\ spc[c] = "prune" /\ sneighbor[c] \in Ids /\ SNeighbor(c) \in Ids
           /\ \E s \in S!Nearest(Elements(ssnapshot[c]), Dist[c], Limit(slayer[c])) :
                sconnections' = [sconnections EXCEPT
                   ![SNeighbor(c)][sneighbor[c]][slayer[c]] = s]
  <2>1. PICK s \in S!Nearest(Elements(ssnapshot[c]), Dist[c], Limit(slayer[c])) :
          sconnections' = [sconnections EXCEPT ![SNeighbor(c)][sneighbor[c]][slayer[c]] = s]
    BY <1>5
  <2>2. Elements(ssnapshot[c]) \subseteq Ids /\ Elements(ssnapshot[c]) # {}
    <3>1. ssnapshot[c] # <<>>
      BY <1>5 DEF SFilled
    <3> QED
      BY <1>y, <3>1, ElementsOf
  <2>3. s \in Seq(Ids) /\ s # <<>>
    BY <1>y, <2>2, NearestList
  <2>4. PICK a \in Ids : a = SNeighbor(c)
    BY <1>5
  <2>5. [sconnections EXCEPT ![a][sneighbor[c]][slayer[c]] = s][d][m][0] # <<>>
    BY <1>y, <1>5, <2>3, FilledIn
  <2> QED
    BY <2>1, <2>4, <2>5
<1> QED
  BY <1>1, <1>2, <1>3, <1>4, <1>5, SListsChange

(* linkSelf makes the list of the own vertex nonempty.                       *)
LEMMA SLinksItself ==
  ASSUME STypes, PTypeOK, NEW c \in Ids, SStep(c), spc[c] = "linkSelf", slayer[c] = 0
  PROVE  sconnections'[c][sown[c]][0] # <<>>
<1>1. S!LinkSelf(c)
  BY DEF SStep, S!Insert, S!InsertFromExternal, S!InsertAsExternal,
         S!Lookup, S!First, S!ReadMaximumLayer, S!Store, S!EnterLevel, S!NextLevel,
         S!FindNeighbor, S!MakePlaceholder, S!RereadPlaceholder, S!LinkNeighbor,
         S!LinkSelf, S!CountNeighbor, S!NextNeighbor, S!Prune, S!CheckMaximumLayer,
         S!Publish, S!InsertReadTotal, S!InsertFirst, S!InsertReadMaximumLayer,
         S!SelectNeighbors, S!InsertFindNeighbor, S!InsertPanic,
         S!InsertCheckMaximumLayer, S!graph
<1>2. /\ sconnections \in Tables /\ 0 \in Levels /\ SNeighbor(c) \in Ids /\ sown[c] \in Ids
  BY SAtNeighborIs, Parameters DEF STypes, STypeOK, SAtNeighbor
<1>3. sconnections' = [sconnections EXCEPT ![c][sown[c]][0] =
                         Append(sconnections[c][sown[c]][0], SNeighbor(c))]
  BY <1>1 DEF S!LinkSelf, S!Neighbor, SNeighbor
<1>4. sconnections[c][sown[c]][0] \in Seq(Ids)
  BY <1>2, ReadsList
<1>5. PICK r \in Seq(Ids) : r = Append(sconnections[c][sown[c]][0], SNeighbor(c)) /\ r # <<>>
  BY <1>2, <1>4, ElementsOf
<1>6. sconnections' = [sconnections EXCEPT ![c][sown[c]][0] = r]
  BY <1>3, <1>5
<1>7. [sconnections EXCEPT ![c][sown[c]][0] = r][c][sown[c]][0] # <<>>
  BY <1>2, <1>5, FilledIn
<1> QED
  BY <1>6, <1>7

(* A step keeps vertices linked on level 0.                                  *)
LEMMA SStepFilled ==
  ASSUME STypes, PTypeOK, SUnmade, SJobs, PJobs, SFilled, PFilled, NEW c \in Ids, SStep(c),
         sinserts' = sinserts, pfirsts' = pfirsts
  PROVE  SFilled'
<1>t. /\ STypeOK /\ SMove(c) /\ slayer[c] \in Levels /\ sidx[c] \in Nat /\ sneighbors[c] \in Seq(Ids)
      /\ sinserts \subseteq Ids /\ schosen \in [Ids -> [Levels -> Seq(Ids)]]
      /\ schosen[c] \in [Levels -> Seq(Ids)]
  <2>1. STypeOK /\ SMove(c)
    BY SMoves DEF STypes
  <2> QED
    BY <2>1 DEF STypeOK
<1>f. sfirsts \subseteq sfirsts' /\ (spc[c] = "first" => c \in sfirsts')
  BY <1>t, SNodesChange, SFirstMakes
<1>w. spc[c] # "call" => sown' = sown /\ sown[c] \in Ids
  BY SLocalsChange, SAtNeighborIs
<1>1. ASSUME NEW d \in Ids, spc'[d] = "prune"
      PROVE  ssnapshot'[d] # <<>>
  <2>1. CASE d = c
    <3>1. /\ Len(sconnections[SNeighbor(c)][sneighbor[c]][slayer[c]]) > Limit(slayer[c])
          /\ ssnapshot'[c] = sconnections[SNeighbor(c)][sneighbor[c]][slayer[c]]
      BY <1>t, <1>1, <2>1 DEF SMove, SBegins, SRanges, SLinks, SEnds
    <3>2. Limit(slayer[c]) \in Nat /\ Len(<<>>) = 0
      BY <1>t, Parameters
    <3>3. ~(Len(<<>>) > Limit(slayer[c]))
      BY <3>2
    <3> QED
      BY <2>1, <3>1, <3>3
  <2>2. CASE d # c
    BY <1>t, <1>1, <2>2, SElsewhere DEF SFilled
  <2> QED
    BY <2>1, <2>2
<1>2. ASSUME NEW d \in Ids, d # c, d \notin sfirsts' \cup pfirsts
      PROVE  /\ SAt0(d)' => sneighbors'[d] # <<>>
             /\ d \in sinserts /\ (SPast0(d)' \/ SAt0(d)') => schosen'[d][0] # <<>>
             /\ SLinked0(d)' => sconnections'[d][sown'[d]][0] # <<>>
  <2>1. /\ spc'[d] = spc[d] /\ sown'[d] = sown[d] /\ slayer'[d] = slayer[d]
        /\ sneighbors'[d] = sneighbors[d] /\ sidx'[d] = sidx[d] /\ schosen'[d] = schosen[d]
    BY <1>t, <1>2, SElsewhere
  <2>2. SAt0(d)' = SAt0(d) /\ SPast0(d)' = SPast0(d) /\ SLinked0(d)' = SLinked0(d)
    BY <2>1 DEF SAt0, SPast0, SLinked0, SAtNeighbor
  <2>3. SLinked0(d) => sown[d] \in Ids
    BY SAtNeighborIs DEF SLinked0, SPast0, SAt0, SAtNeighbor
  <2>4. SLinked0(d) => sconnections'[d][sown[d]][0] # <<>>
    BY <1>2, <1>f, <2>3, SKeepsFilled DEF SFilled
  <2> QED
    BY <1>2, <1>f, <2>1, <2>2, <2>4 DEF SFilled
<1>3. ASSUME c \notin sfirsts' \cup pfirsts
      PROVE  /\ SAt0(c)' => sneighbors'[c] # <<>>
             /\ c \in sinserts /\ (SPast0(c)' \/ SAt0(c)') => schosen'[c][0] # <<>>
             /\ SLinked0(c)' => sconnections'[c][sown'[c]][0] # <<>>
  <2>0. c \notin sfirsts \cup pfirsts /\ spc[c] # "first"
    BY <1>3, <1>f
  <2>1. CASE SBegins(c)
    BY <2>0, <2>1 DEF SBegins, SAt0, SPast0, SLinked0, SAtNeighbor
  <2>2. CASE spc[c] = "level" /\ spc'[c] = "range"
    <3>1. /\ sidx'[c] = 1 /\ slayer'[c] = slayer[c]
          /\ IF c \in sinserts
             THEN sneighbors'[c] \in SChoices /\ schosen'[c] = [schosen[c] EXCEPT ![slayer[c]] = sneighbors'[c]]
             ELSE sneighbors'[c] = SHook[c].neighbors[slayer[c]]
      BY <1>t, <2>2 DEF SMove, SBegins, SRanges, SLinks, SEnds
    <3>2. ~SLinked0(c)' /\ ~SPast0(c)'
      BY <2>2, <3>1 DEF SLinked0, SPast0, SAt0, SAtNeighbor
    <3>3. ASSUME slayer[c] = 0, c \in sinserts
          PROVE  sneighbors'[c] # <<>> /\ schosen'[c][0] # <<>>
      BY <1>t, <3>1, <3>3 DEF SChoices
    <3>4. ASSUME slayer[c] = 0, c \notin sinserts
          PROVE  sneighbors'[c] # <<>>
      <4>1. c \in phooked /\ c \in pinserts /\ PPast0(c)
        BY <2>2, <3>4 DEF SJobs, PJobs, PPast0
      <4>2. pchosen[c][0] # <<>>
        BY <2>0, <4>1 DEF PFilled
      <4>3. SHook[c].neighbors = pchosen[c]
        BY <1>t, <2>0, <3>4, SHookIs
      <4> QED
        BY <3>1, <3>4, <4>2, <4>3
    <3> QED
      BY <3>1, <3>2, <3>3, <3>4 DEF SAt0
  <2>3. CASE spc[c] = "range" /\ spc'[c] = "level"
    BY <2>3 DEF SAt0, SPast0, SLinked0, SAtNeighbor
  <2>4. CASE spc[c] \notin {"call", "first", "max", "store", "level"} /\ spc'[c] # "level"
    <3>1. schosen'[c] = schosen[c] /\ sown'[c] = sown[c] /\ sown[c] \in Ids
      BY <1>w, <2>4, SLocalsChange
    <3>2. SAt0(c)' => SAt0(c) /\ sneighbors'[c] = sneighbors[c]
      BY <1>t, <2>4 DEF SMove, SBegins, SRanges, SLinks, SEnds, SAt0, SAtNeighbor, SSameList
    <3>3. SPast0(c)' => SPast0(c) \/ (SAt0(c) /\ spc[c] = "range" /\ sidx[c] > Len(sneighbors[c]))
      BY <1>t, <2>4 DEF SMove, SBegins, SRanges, SLinks, SEnds, SAt0, SPast0, SAtNeighbor
    <3>4. ASSUME SAt0(c), spc[c] = "range", sidx[c] > Len(sneighbors[c])
          PROVE  SLinked0(c)
      <4>1. sneighbors[c] # <<>>
        BY <2>0, <3>4 DEF SFilled
      <4>2. Len(sneighbors[c]) \in Nat /\ Len(sneighbors[c]) > 0
        BY <1>t, <4>1
      <4>3. sidx[c] > 1
        BY <1>t, <3>4, <4>2
      <4> QED
        BY <3>4, <4>3 DEF SLinked0
    <3>5. SLinked0(c)' => SLinked0(c) \/ (spc[c] = "linkSelf" /\ slayer[c] = 0)
      <4>1. SPast0(c)' => SLinked0(c)
        BY <3>3, <3>4 DEF SLinked0
      <4>2. SAt0(c)' /\ spc'[c] \in {"count", "prune"} => SLinked0(c) \/ (spc[c] = "linkSelf" /\ slayer[c] = 0)
        BY <1>t, <2>4, <3>2 DEF SMove, SBegins, SRanges, SLinks, SEnds, SLinked0, SAt0
      <4>3. SAt0(c)' /\ sidx'[c] > 1 => SLinked0(c) \/ (spc[c] = "linkSelf" /\ slayer[c] = 0)
        BY <1>t, <2>4, <3>2 DEF SMove, SBegins, SRanges, SLinks, SEnds, SLinked0, SAt0, SSameList, SAtNeighbor
      <4> QED
        BY <4>1, <4>2, <4>3 DEF SLinked0
    <3>6. SLinked0(c) => sconnections'[c][sown[c]][0] # <<>>
      BY <2>0, <3>1, SKeepsFilled DEF SFilled
    <3>7. spc[c] = "linkSelf" /\ slayer[c] = 0 => sconnections'[c][sown[c]][0] # <<>>
      BY SLinksItself
    <3>8. SAt0(c) => sneighbors[c] # <<>>
      BY <2>0 DEF SFilled
    <3>9. c \in sinserts /\ (SPast0(c) \/ SAt0(c)) => schosen[c][0] # <<>>
      BY <2>0 DEF SFilled
    <3> QED
      BY <3>1, <3>2, <3>3, <3>5, <3>6, <3>7, <3>8, <3>9
  <2> QED
    BY <1>t, <2>0, <2>1, <2>2, <2>3, <2>4 DEF SMove, SBegins, SRanges, SLinks, SEnds
<1> QED
  BY <1>1, <1>2, <1>3 DEF SFilled

-------------------------------------------------------------------------------
(* Both graphs together.                                                     *)
(* What concerns the primary graph only stays so while its calls rest.       *)
LEMMA PUntouched ==
  ASSUME PHalf, UNCHANGED <<pcalls, pinserts>>, shooked \subseteq shooked', sfirsts \subseteq sfirsts'
  PROVE  /\ PTypes' /\ PUnmade' /\ (POnce' => PSound') /\ PJobs' /\ PFilled'
         /\ PTable' = PTable /\ (POnce' <=> POnce) /\ \A d \in Ids : PStored(d)' <=> PStored(d)
<1>0. /\ PTypes /\ PTypeOK /\ PUnmade /\ (POnce => PSound) /\ PJobs /\ PFilled
  BY DEF PHalf, PTypes
<1>1. /\ pinserts' = pinserts /\ pnodes' = pnodes
      /\ pentryPointID' = pentryPointID /\ pcurrentMaximumLayer' = pcurrentMaximumLayer
      /\ plevelOf' = plevelOf /\ pconnections' = pconnections /\ pfirsts' = pfirsts
      /\ ppc' = ppc /\ pown' = pown /\ player' = player /\ pneighbors' = pneighbors
      /\ pidx' = pidx /\ pneighbor' = pneighbor /\ psnapshot' = psnapshot
      /\ pchosen' = pchosen /\ phooked' = phooked
  BY DEF pcalls
<1>2. PTable' = PTable /\ (POnce' <=> POnce) /\ \A d \in Ids : PStored(d)' <=> PStored(d)
  BY <1>1 DEF PTable, POnce, PStored
<1>3. PTypeOK'
  BY <1>0, <1>1 DEF PTypeOK
<1>4. \A d \in Ids : PHolds(d)'
  BY <1>0, <1>1 DEF PTypes, PHolds, PAtNeighbor, PHasNeighbor, PNeighbor
<1>5. PUnmade' /\ PJobs'
  BY <1>0, <1>1 DEF PUnmade, PJobs
<1>6. POnce' => PSound'
  BY <1>0, <1>1, <1>2 DEF PSound, PStoredStay, PMakesNew, PNeighborsIn, PListsIn,
     PSnapshotsIn, PChosenIn, PRangesIn, PEntryIn, PNoPanic, PStored, PNeighbor,
     PHasNeighbor, PAtNeighbor
<1>7. PFilled'
  BY <1>0, <1>1 DEF PFilled, PAt0, PPast0, PLinked0, PAtNeighbor
<1> QED
  BY <1>2, <1>3, <1>4, <1>5, <1>6, <1>7 DEF PTypes

(* What concerns the secondary graph only stays so while its calls rest.     *)
LEMMA SUntouched ==
  ASSUME SHalf, UNCHANGED <<scalls, sinserts>>, phooked \subseteq phooked', pfirsts \subseteq pfirsts'
  PROVE  /\ STypes' /\ SUnmade' /\ (SOnce' => SSound') /\ SJobs' /\ SFilled'
         /\ STable' = STable /\ (SOnce' <=> SOnce) /\ \A d \in Ids : SStored(d)' <=> SStored(d)
<1>0. /\ STypes /\ STypeOK /\ SUnmade /\ (SOnce => SSound) /\ SJobs /\ SFilled
  BY DEF SHalf, STypes
<1>1. /\ sinserts' = sinserts /\ snodes' = snodes
      /\ sentryPointID' = sentryPointID /\ scurrentMaximumLayer' = scurrentMaximumLayer
      /\ slevelOf' = slevelOf /\ sconnections' = sconnections /\ sfirsts' = sfirsts
      /\ spc' = spc /\ sown' = sown /\ slayer' = slayer /\ sneighbors' = sneighbors
      /\ sidx' = sidx /\ sneighbor' = sneighbor /\ ssnapshot' = ssnapshot
      /\ schosen' = schosen /\ shooked' = shooked
  BY DEF scalls
<1>2. STable' = STable /\ (SOnce' <=> SOnce) /\ \A d \in Ids : SStored(d)' <=> SStored(d)
  BY <1>1 DEF STable, SOnce, SStored
<1>3. STypeOK'
  BY <1>0, <1>1 DEF STypeOK
<1>4. \A d \in Ids : SHolds(d)'
  BY <1>0, <1>1 DEF STypes, SHolds, SAtNeighbor, SHasNeighbor, SNeighbor
<1>5. SUnmade' /\ SJobs'
  BY <1>0, <1>1 DEF SUnmade, SJobs
<1>6. SOnce' => SSound'
  BY <1>0, <1>1, <1>2 DEF SSound, SStoredStay, SMakesNew, SNeighborsIn, SListsIn,
     SSnapshotsIn, SChosenIn, SRangesIn, SEntryIn, SNoPanic, SStored, SNeighbor,
     SHasNeighbor, SAtNeighbor
<1>7. SFilled'
  BY <1>0, <1>1 DEF SFilled, SAt0, SPast0, SLinked0, SAtNeighbor
<1> QED
  BY <1>2, <1>3, <1>4, <1>5, <1>6, <1>7 DEF STypes

(* A step of a call of the primary graph keeps the invariant...              *)
LEMMA PStepInv ==
  ASSUME Inv, NEW c \in Ids, PStep(c), pinserts' = pinserts,
         UNCHANGED <<jobs, scalls, sinserts>>
  PROVE  Inv'
<1>0. /\ JobsOK /\ PTypes /\ PUnmade /\ (POnce => PSound) /\ PJobs /\ PLevels /\ PFilled
      /\ STypes /\ STypeOK /\ SUnmade /\ (SOnce => SSound) /\ SJobs /\ SLevels /\ SFilled
      /\ UnusedOut /\ (POnce /\ SOnce => PNames /\ SNames)
  BY DEF Inv, PHalf, SHalf, STypes
<1>1. /\ jobs' = jobs /\ sinserts' = sinserts /\ snodes' = snodes
      /\ sentryPointID' = sentryPointID /\ scurrentMaximumLayer' = scurrentMaximumLayer
      /\ slevelOf' = slevelOf /\ sconnections' = sconnections /\ sfirsts' = sfirsts
      /\ spc' = spc /\ sown' = sown /\ slayer' = slayer /\ sneighbors' = sneighbors
      /\ sidx' = sidx /\ sneighbor' = sneighbor /\ ssnapshot' = ssnapshot
      /\ schosen' = schosen /\ shooked' = shooked
  BY DEF scalls
<1>2. STable' = STable /\ (SOnce' <=> SOnce) /\ pfirsts \subseteq pfirsts' /\ pinserts \cap sinserts = {}
  <2>1. STable' = STable /\ (SOnce' <=> SOnce)
    BY <1>1 DEF STable, SOnce
  <2>2. PTypeOK
    BY <1>0 DEF PTypes
  <2> QED
    BY <1>0, <2>1, <2>2, PNodesChange DEF JobsOK
<1>3. PHalf'
  <2>1. PTypes' /\ PUnmade'
    BY <1>0, PStepTypes, PStepUnmade
  <2>2. POnce' => PSound'
    BY <1>0, PStepSound
  <2>3. PJobs'
    BY <1>0, <1>1, PStepJobs
  <2>4. PLevels'
    BY <1>0, <1>1, <1>2, PStepLevels
  <2>5. PFilled'
    BY <1>0, <1>1, PStepFilled
  <2> QED
    BY <2>1, <2>2, <2>3, <2>4, <2>5 DEF PHalf
<1>4. SHalf'
  <2>1. phooked \subseteq phooked' /\ UNCHANGED <<scalls, sinserts>>
    BY <1>0, <1>1, PStepJobs
  <2>2. STypes' /\ SUnmade' /\ (SOnce' => SSound') /\ SJobs' /\ SFilled'
    BY <1>2, <2>1, SUntouched DEF Inv
  <2>3. SLevels'
    BY <1>0, <1>1, <1>2, POtherLevels
  <2> QED
    BY <2>2, <2>3 DEF SHalf
<1>5. ASSUME POnce', SOnce
      PROVE  /\ \A v \in Ids : Unused(v)' => v \notin PTable' \cup STable'
             /\ PNames' /\ SNames'
  <2>1. POnce /\ PSound /\ SSound /\ PNames /\ SNames
    BY <1>0, <1>5, POnceBefore
  <2>2. \A v \in Ids : Unused(v)' => v \notin PTable' \cup STable'
    BY <1>0, <1>1, <1>2, <1>5, <2>1, PStepUnused
  <2>3. PNames'
    BY <1>0, <1>2, <1>5, <2>1, PStepNames
  <2>4. PTable \subseteq PTable'
    BY <1>0, <1>5, PGrows
  <2>5. SNames'
    BY <1>1, <1>2, <2>1, <2>4 DEF SNames, SAtNeighbor
  <2> QED
    BY <2>2, <2>3, <2>5
<1>6. UnusedOut' /\ (POnce' /\ SOnce' => PNames' /\ SNames')
  BY <1>2, <1>5 DEF UnusedOut
<1>7. JobsOK'
  BY <1>0, <1>1 DEF JobsOK
<1> QED
  BY <1>3, <1>4, <1>6, <1>7 DEF Inv

(* A step of a call of the secondary graph keeps the invariant...            *)
LEMMA SStepInv ==
  ASSUME Inv, NEW c \in Ids, SStep(c), sinserts' = sinserts,
         UNCHANGED <<jobs, pcalls, pinserts>>
  PROVE  Inv'
<1>0. /\ JobsOK /\ STypes /\ SUnmade /\ (SOnce => SSound) /\ SJobs /\ SLevels /\ SFilled
      /\ PTypes /\ PTypeOK /\ PUnmade /\ (POnce => PSound) /\ PJobs /\ PLevels /\ PFilled
      /\ UnusedOut /\ (SOnce /\ POnce => SNames /\ PNames)
  BY DEF Inv, SHalf, PHalf, PTypes
<1>1. /\ jobs' = jobs /\ pinserts' = pinserts /\ pnodes' = pnodes
      /\ pentryPointID' = pentryPointID /\ pcurrentMaximumLayer' = pcurrentMaximumLayer
      /\ plevelOf' = plevelOf /\ pconnections' = pconnections /\ pfirsts' = pfirsts
      /\ ppc' = ppc /\ pown' = pown /\ player' = player /\ pneighbors' = pneighbors
      /\ pidx' = pidx /\ pneighbor' = pneighbor /\ psnapshot' = psnapshot
      /\ pchosen' = pchosen /\ phooked' = phooked
  BY DEF pcalls
<1>2. PTable' = PTable /\ (POnce' <=> POnce) /\ sfirsts \subseteq sfirsts' /\ sinserts \cap pinserts = {}
  <2>1. PTable' = PTable /\ (POnce' <=> POnce)
    BY <1>1 DEF PTable, POnce
  <2>2. STypeOK
    BY <1>0 DEF STypes
  <2> QED
    BY <1>0, <2>1, <2>2, SNodesChange DEF JobsOK
<1>3. SHalf'
  <2>1. STypes' /\ SUnmade'
    BY <1>0, SStepTypes, SStepUnmade
  <2>2. SOnce' => SSound'
    BY <1>0, SStepSound
  <2>3. SJobs'
    BY <1>0, <1>1, SStepJobs
  <2>4. SLevels'
    BY <1>0, <1>1, <1>2, SStepLevels
  <2>5. SFilled'
    BY <1>0, <1>1, SStepFilled
  <2> QED
    BY <2>1, <2>2, <2>3, <2>4, <2>5 DEF SHalf
<1>4. PHalf'
  <2>1. shooked \subseteq shooked' /\ UNCHANGED <<pcalls, pinserts>>
    BY <1>0, <1>1, SStepJobs
  <2>2. PTypes' /\ PUnmade' /\ (POnce' => PSound') /\ PJobs' /\ PFilled'
    BY <1>2, <2>1, PUntouched DEF Inv
  <2>3. PLevels'
    BY <1>0, <1>1, <1>2, SOtherLevels
  <2> QED
    BY <2>2, <2>3 DEF PHalf
<1>5. ASSUME SOnce', POnce
      PROVE  /\ \A v \in Ids : Unused(v)' => v \notin STable' \cup PTable'
             /\ SNames' /\ PNames'
  <2>1. SOnce /\ SSound /\ PSound /\ SNames /\ PNames
    BY <1>0, <1>5, SOnceBefore
  <2>2. \A v \in Ids : Unused(v)' => v \notin STable' \cup PTable'
    BY <1>0, <1>1, <1>2, <1>5, <2>1, SStepUnused
  <2>3. SNames'
    BY <1>0, <1>2, <1>5, <2>1, SStepNames
  <2>4. STable \subseteq STable'
    BY <1>0, <1>5, SGrows
  <2>5. PNames'
    BY <1>1, <1>2, <2>1, <2>4 DEF PNames, PAtNeighbor
  <2> QED
    BY <2>2, <2>3, <2>5
<1>6. UnusedOut' /\ (SOnce' /\ POnce' => SNames' /\ PNames')
  BY <1>2, <1>5 DEF UnusedOut
<1>7. JobsOK'
  BY <1>0, <1>1 DEF JobsOK
<1> QED
  BY <1>3, <1>4, <1>6, <1>7 DEF Inv

(* ... and so does a job that is given to it.                                *)
LEMMA PTakeInv ==
  ASSUME Inv, jobs < N, jobs' = jobs + 1, pinserts' = pinserts \cup {jobs},
         UNCHANGED <<sinserts, pcalls, scalls>>
  PROVE  Inv'
<1>0. /\ JobsOK /\ PTypes /\ PTypeOK /\ PUnmade /\ (POnce => PSound) /\ PJobs /\ PLevels /\ PFilled
      /\ STypes /\ STypeOK /\ SUnmade /\ (SOnce => SSound) /\ SJobs /\ SLevels /\ SFilled
      /\ UnusedOut /\ (POnce /\ SOnce => PNames /\ SNames)
  BY DEF Inv, PHalf, SHalf, STypes, PTypes
<1>1. /\ sinserts' = sinserts /\ snodes' = snodes
      /\ sentryPointID' = sentryPointID /\ scurrentMaximumLayer' = scurrentMaximumLayer
      /\ slevelOf' = slevelOf /\ sconnections' = sconnections /\ sfirsts' = sfirsts
      /\ spc' = spc /\ sown' = sown /\ slayer' = slayer /\ sneighbors' = sneighbors
      /\ sidx' = sidx /\ sneighbor' = sneighbor /\ ssnapshot' = ssnapshot
      /\ schosen' = schosen /\ shooked' = shooked
  BY DEF scalls
<1>2. /\ pnodes' = pnodes
      /\ pentryPointID' = pentryPointID /\ pcurrentMaximumLayer' = pcurrentMaximumLayer
      /\ plevelOf' = plevelOf /\ pconnections' = pconnections /\ pfirsts' = pfirsts
      /\ ppc' = ppc /\ pown' = pown /\ player' = player /\ pneighbors' = pneighbors
      /\ pidx' = pidx /\ pneighbor' = pneighbor /\ psnapshot' = psnapshot
      /\ pchosen' = pchosen /\ phooked' = phooked
  BY DEF pcalls
<1>3. jobs \in Ids /\ jobs \notin pinserts /\ jobs \notin sinserts
  BY <1>0, NAssumption DEF JobsOK, Ids
<1>4. ppc[jobs] = "call"
  BY <1>0, <1>3 DEF PJobs, SJobs
<1>5. /\ PTable' = PTable /\ STable' = STable /\ (POnce' <=> POnce) /\ (SOnce' <=> SOnce)
      /\ \A d \in Ids : Unused(d)' => Unused(d)
  <2>1. PTable' = PTable /\ STable' = STable
    BY <1>1, <1>2 DEF PTable, STable
  <2>2. (POnce' <=> POnce) /\ (SOnce' <=> SOnce)
    BY <1>1, <1>2 DEF POnce, SOnce
  <2>3. \A d \in Ids : Unused(d)' => Unused(d)
    <3>1. \A d \in Ids : (d \in pinserts => d \in pinserts') /\ (d \in sinserts => d \in sinserts')
      BY <1>1
    <3>2. \A d \in Ids : (PStored(d)' <=> PStored(d)) /\ (SStored(d)' <=> SStored(d))
      BY <1>1, <1>2 DEF PStored, SStored
    <3> QED
      BY <3>1, <3>2 DEF Unused
  <2> QED
    BY <2>1, <2>2, <2>3
<1>6. JobsOK'
  <2>1. jobs' \in Nat /\ jobs < jobs' /\ \A c \in pinserts \cup sinserts : c < jobs'
    <3>1. jobs \in Nat /\ jobs' = jobs + 1
      BY <1>0 DEF JobsOK
    <3>2. \A c \in pinserts \cup sinserts : c \in Nat /\ c < jobs
      BY <1>0 DEF JobsOK, PTypeOK, STypeOK, Ids
    <3> QED
      BY <3>1, <3>2
  <2>2. pinserts' \cap sinserts' = {}
    BY <1>0, <1>1, <1>3 DEF JobsOK
  <2> QED
    BY <1>1, <2>1, <2>2 DEF JobsOK
<1>7. PHalf'
  <2>1. PTypes'
    <3>1. PTypeOK'
      BY <1>0, <1>2, <1>3 DEF PTypeOK
    <3>2. \A d \in Ids : PHolds(d)'
      BY <1>0, <1>2 DEF PTypes, PHolds, PAtNeighbor, PHasNeighbor, PNeighbor
    <3> QED
      BY <3>1, <3>2 DEF PTypes
  <2>2. PUnmade'
    BY <1>0, <1>2 DEF PUnmade
  <2>3. POnce' => PSound'
    BY <1>0, <1>2, <1>4, <1>5 DEF PSound, PStoredStay, PMakesNew, PNeighborsIn, PListsIn,
       PSnapshotsIn, PChosenIn, PRangesIn, PEntryIn, PNoPanic, PStored, PNeighbor,
       PHasNeighbor, PAtNeighbor
  <2>4. PJobs'
    BY <1>0, <1>1, <1>2 DEF PJobs
  <2>5. PLevels'
    BY <1>0, <1>1, <1>2, <1>4, <1>5 DEF PLevels, PStored
  <2>6. PFilled'
    BY <1>0, <1>1, <1>2, <1>4 DEF PFilled, PAt0, PPast0, PLinked0, PAtNeighbor
  <2> QED
    BY <2>1, <2>2, <2>3, <2>4, <2>5, <2>6 DEF PHalf
<1>8. SHalf'
  <2>1. phooked \subseteq phooked' /\ pfirsts \subseteq pfirsts' /\ UNCHANGED <<scalls, sinserts>>
    BY <1>2
  <2>2. STypes' /\ SUnmade' /\ (SOnce' => SSound') /\ SJobs' /\ SFilled'
    BY <2>1, SUntouched DEF Inv
  <2>3. SLevels'
    BY <1>0, <1>1, <1>2, <1>5 DEF SLevels, SStored
  <2> QED
    BY <2>2, <2>3 DEF SHalf
<1>9. UnusedOut' /\ (POnce' /\ SOnce' => PNames' /\ SNames')
  BY <1>0, <1>1, <1>2, <1>5 DEF UnusedOut, PNames, SNames, PAtNeighbor, SAtNeighbor
<1> QED
  BY <1>6, <1>7, <1>8, <1>9 DEF Inv

(* ... and so does a job that is given to it.                                *)
LEMMA STakeInv ==
  ASSUME Inv, jobs < N, jobs' = jobs + 1, sinserts' = sinserts \cup {jobs},
         UNCHANGED <<pinserts, scalls, pcalls>>
  PROVE  Inv'
<1>0. /\ JobsOK /\ STypes /\ STypeOK /\ SUnmade /\ (SOnce => SSound) /\ SJobs /\ SLevels /\ SFilled
      /\ PTypes /\ PTypeOK /\ PUnmade /\ (POnce => PSound) /\ PJobs /\ PLevels /\ PFilled
      /\ UnusedOut /\ (SOnce /\ POnce => SNames /\ PNames)
  BY DEF Inv, SHalf, PHalf, PTypes, STypes
<1>1. /\ pinserts' = pinserts /\ pnodes' = pnodes
      /\ pentryPointID' = pentryPointID /\ pcurrentMaximumLayer' = pcurrentMaximumLayer
      /\ plevelOf' = plevelOf /\ pconnections' = pconnections /\ pfirsts' = pfirsts
      /\ ppc' = ppc /\ pown' = pown /\ player' = player /\ pneighbors' = pneighbors
      /\ pidx' = pidx /\ pneighbor' = pneighbor /\ psnapshot' = psnapshot
      /\ pchosen' = pchosen /\ phooked' = phooked
  BY DEF pcalls
<1>2. /\ snodes' = snodes
      /\ sentryPointID' = sentryPointID /\ scurrentMaximumLayer' = scurrentMaximumLayer
      /\ slevelOf' = slevelOf /\ sconnections' = sconnections /\ sfirsts' = sfirsts
      /\ spc' = spc /\ sown' = sown /\ slayer' = slayer /\ sneighbors' = sneighbors
      /\ sidx' = sidx /\ sneighbor' = sneighbor /\ ssnapshot' = ssnapshot
      /\ schosen' = schosen /\ shooked' = shooked
  BY DEF scalls
<1>3. jobs \in Ids /\ jobs \notin sinserts /\ jobs \notin pinserts
  BY <1>0, NAssumption DEF JobsOK, Ids
<1>4. spc[jobs] = "call"
  BY <1>0, <1>3 DEF SJobs, PJobs
<1>5. /\ STable' = STable /\ PTable' = PTable /\ (SOnce' <=> SOnce) /\ (POnce' <=> POnce)
      /\ \A d \in Ids : Unused(d)' => Unused(d)
  <2>1. STable' = STable /\ PTable' = PTable
    BY <1>1, <1>2 DEF STable, PTable
  <2>2. (SOnce' <=> SOnce) /\ (POnce' <=> POnce)
    BY <1>1, <1>2 DEF SOnce, POnce
  <2>3. \A d \in Ids : Unused(d)' => Unused(d)
    <3>1. \A d \in Ids : (d \in sinserts => d \in sinserts') /\ (d \in pinserts => d \in pinserts')
      BY <1>1
    <3>2. \A d \in Ids : (SStored(d)' <=> SStored(d)) /\ (PStored(d)' <=> PStored(d))
      BY <1>1, <1>2 DEF SStored, PStored
    <3> QED
      BY <3>1, <3>2 DEF Unused
  <2> QED
    BY <2>1, <2>2, <2>3
<1>6. JobsOK'
  <2>1. jobs' \in Nat /\ jobs < jobs' /\ \A c \in sinserts \cup pinserts : c < jobs'
    <3>1. jobs \in Nat /\ jobs' = jobs + 1
      BY <1>0 DEF JobsOK
    <3>2. \A c \in sinserts \cup pinserts : c \in Nat /\ c < jobs
      BY <1>0 DEF JobsOK, STypeOK, PTypeOK, Ids
    <3> QED
      BY <3>1, <3>2
  <2>2. sinserts' \cap pinserts' = {}
    BY <1>0, <1>1, <1>3 DEF JobsOK
  <2> QED
    BY <1>1, <2>1, <2>2 DEF JobsOK
<1>7. SHalf'
  <2>1. STypes'
    <3>1. STypeOK'
      BY <1>0, <1>2, <1>3 DEF STypeOK
    <3>2. \A d \in Ids : SHolds(d)'
      BY <1>0, <1>2 DEF STypes, SHolds, SAtNeighbor, SHasNeighbor, SNeighbor
    <3> QED
      BY <3>1, <3>2 DEF STypes
  <2>2. SUnmade'
    BY <1>0, <1>2 DEF SUnmade
  <2>3. SOnce' => SSound'
    BY <1>0, <1>2, <1>4, <1>5 DEF SSound, SStoredStay, SMakesNew, SNeighborsIn, SListsIn,
       SSnapshotsIn, SChosenIn, SRangesIn, SEntryIn, SNoPanic, SStored, SNeighbor,
       SHasNeighbor, SAtNeighbor
  <2>4. SJobs'
    BY <1>0, <1>1, <1>2 DEF SJobs
  <2>5. SLevels'
    BY <1>0, <1>1, <1>2, <1>4, <1>5 DEF SLevels, SStored
  <2>6. SFilled'
    BY <1>0, <1>1, <1>2, <1>4 DEF SFilled, SAt0, SPast0, SLinked0, SAtNeighbor
  <2> QED
    BY <2>1, <2>2, <2>3, <2>4, <2>5, <2>6 DEF SHalf
<1>8. PHalf'
  <2>1. shooked \subseteq shooked' /\ sfirsts \subseteq sfirsts' /\ UNCHANGED <<pcalls, pinserts>>
    BY <1>2
  <2>2. PTypes' /\ PUnmade' /\ (POnce' => PSound') /\ PJobs' /\ PFilled'
    BY <2>1, PUntouched DEF Inv
  <2>3. PLevels'
    BY <1>0, <1>1, <1>2, <1>5 DEF PLevels, PStored
  <2> QED
    BY <2>2, <2>3 DEF PHalf
<1>9. UnusedOut' /\ (SOnce' /\ POnce' => SNames' /\ PNames')
  BY <1>0, <1>1, <1>2, <1>5 DEF UnusedOut, SNames, PNames, SAtNeighbor, PAtNeighbor
<1> QED
  BY <1>6, <1>7, <1>8, <1>9 DEF Inv

(* Nothing has been made yet, and nobody is at work.                         *)
LEMMA InitInv == Init => Inv
<1> SUFFICES ASSUME Init PROVE Inv
  OBVIOUS
<1>1. /\ jobs = 0 /\ pinserts = {} /\ phooked = {} /\ pfirsts = {}
      /\ pchosen = [c \in Ids |-> Unlinked]
      /\ pnodes = [v \in Ids |-> -1] /\ pentryPointID = 0 /\ pcurrentMaximumLayer = 0
      /\ plevelOf = [v \in Ids |-> [c \in Ids |-> 0]]
      /\ pconnections = [v \in Ids |-> [c \in Ids |-> Unlinked]]
      /\ ppc = [c \in Ids |-> "call"] /\ pown = [c \in Ids |-> -1]
      /\ player = [c \in Ids |-> 0] /\ pneighbors = [c \in Ids |-> <<>>]
      /\ pidx = [c \in Ids |-> 0] /\ pneighbor = [c \in Ids |-> -1]
      /\ psnapshot = [c \in Ids |-> <<>>]
  BY Shared DEF Init, P!PeerInit, P!Init
<1>2. /\ sinserts = {} /\ shooked = {} /\ sfirsts = {}
      /\ schosen = [c \in Ids |-> Unlinked]
      /\ snodes = [v \in Ids |-> -1] /\ sentryPointID = 0 /\ scurrentMaximumLayer = 0
      /\ slevelOf = [v \in Ids |-> [c \in Ids |-> 0]]
      /\ sconnections = [v \in Ids |-> [c \in Ids |-> Unlinked]]
      /\ spc = [c \in Ids |-> "call"] /\ sown = [c \in Ids |-> -1]
      /\ slayer = [c \in Ids |-> 0] /\ sneighbors = [c \in Ids |-> <<>>]
      /\ sidx = [c \in Ids |-> 0] /\ sneighbor = [c \in Ids |-> -1]
      /\ ssnapshot = [c \in Ids |-> <<>>]
  BY Shared DEF Init, S!PeerInit, S!Init
<1>3. Elements(<<>>) = {} /\ <<>> \in Seq(Ids)
  BY DEF Elements
<1>4. PHalf
  <2>1. PTypes
    BY <1>1, <1>3, Parameters DEF PTypes, PTypeOK, Tables, PHolds, PAtNeighbor, PHasNeighbor
  <2>2. PUnmade /\ PJobs /\ PLevels
    BY <1>1, <1>2 DEF PUnmade, PJobs, PLevels
  <2>3. PSound
    BY <1>1, <1>3, Parameters DEF PSound, PStoredStay, PMakesNew, PNeighborsIn, PListsIn,
       PSnapshotsIn, PChosenIn, PRangesIn, PEntryIn, PNoPanic, PStored, PHasNeighbor
  <2>4. PFilled
    BY <1>1 DEF PFilled, PAt0, PPast0, PLinked0, PAtNeighbor
  <2> QED
    BY <2>1, <2>2, <2>3, <2>4 DEF PHalf
<1>5. SHalf
  <2>1. STypes
    BY <1>2, <1>3, Parameters DEF STypes, STypeOK, Tables, SHolds, SAtNeighbor, SHasNeighbor
  <2>2. SUnmade /\ SJobs /\ SLevels
    BY <1>1, <1>2 DEF SUnmade, SJobs, SLevels
  <2>3. SSound
    BY <1>2, <1>3, Parameters DEF SSound, SStoredStay, SMakesNew, SNeighborsIn, SListsIn,
       SSnapshotsIn, SChosenIn, SRangesIn, SEntryIn, SNoPanic, SStored, SHasNeighbor
  <2>4. SFilled
    BY <1>2 DEF SFilled, SAt0, SPast0, SLinked0, SAtNeighbor
  <2> QED
    BY <2>1, <2>2, <2>3, <2>4 DEF SHalf
<1>6. JobsOK /\ UnusedOut /\ PNames /\ SNames
  BY <1>1, <1>2 DEF JobsOK, UnusedOut, PNames, SNames, PAtNeighbor, SAtNeighbor, PTable, STable
<1> QED
  BY <1>4, <1>5, <1>6 DEF Inv

(* A step that changes nothing keeps it.                                     *)
LEMMA Rests ==
  ASSUME Inv, UNCHANGED vars
  PROVE  Inv'
<1>1. /\ UNCHANGED <<pcalls, pinserts>> /\ UNCHANGED <<scalls, sinserts>> /\ jobs' = jobs
      /\ PHalf /\ SHalf
  BY DEF vars, Inv
<1>2. /\ pfirsts' = pfirsts /\ phooked' = phooked /\ plevelOf' = plevelOf /\ pown' = pown
      /\ ppc' = ppc /\ pinserts' = pinserts /\ pneighbors' = pneighbors
      /\ pentryPointID' = pentryPointID /\ pcurrentMaximumLayer' = pcurrentMaximumLayer
      /\ sfirsts' = sfirsts /\ shooked' = shooked /\ slevelOf' = slevelOf /\ sown' = sown
      /\ spc' = spc /\ sinserts' = sinserts /\ sneighbors' = sneighbors
      /\ sentryPointID' = sentryPointID /\ scurrentMaximumLayer' = scurrentMaximumLayer
  BY <1>1 DEF pcalls, scalls
<1>3. /\ PTypes' /\ PUnmade' /\ (POnce' => PSound') /\ PJobs' /\ PFilled'
      /\ PTable' = PTable /\ (POnce' <=> POnce)
  BY <1>1, <1>2, PUntouched
<1>4. /\ STypes' /\ SUnmade' /\ (SOnce' => SSound') /\ SJobs' /\ SFilled'
      /\ STable' = STable /\ (SOnce' <=> SOnce)
  BY <1>1, <1>2, SUntouched
<1>5. PLevels' /\ SLevels'
  BY <1>1, <1>2, <1>3, <1>4 DEF PHalf, SHalf, PLevels, SLevels, PStored, SStored
<1>6. PHalf' /\ SHalf'
  BY <1>3, <1>4, <1>5 DEF PHalf, SHalf
<1>7. JobsOK' /\ UnusedOut' /\ (POnce' /\ SOnce' => PNames' /\ SNames')
  BY <1>1, <1>2, <1>3, <1>4 DEF Inv, JobsOK, UnusedOut, Unused, PStored, SStored, PNames, SNames,
     PAtNeighbor, SAtNeighbor
<1> QED
  BY <1>6, <1>7 DEF Inv

(* A step is one of a call of either graph, a job that is taken, or none.    *)
LEMMA NextSteps ==
  ASSUME Inv, [Next]_vars
  PROVE  \/ UNCHANGED vars
         \/ /\ jobs < N /\ jobs' = jobs + 1 /\ UNCHANGED <<pcalls, scalls>>
            /\ \/ pinserts' = pinserts \cup {jobs} /\ UNCHANGED sinserts
               \/ sinserts' = sinserts \cup {jobs} /\ UNCHANGED pinserts
         \/ \E c \in Ids : PStep(c) /\ pinserts' = pinserts /\ UNCHANGED <<jobs, scalls, sinserts>>
         \/ \E c \in Ids : SStep(c) /\ sinserts' = sinserts /\ UNCHANGED <<jobs, pcalls, pinserts>>
<1>1. pinserts \subseteq Ids /\ sinserts \subseteq Ids
  BY DEF Inv, PHalf, SHalf, PTypes, STypes, PTypeOK, STypeOK
<1>2. CASE P!PeerStep /\ UNCHANGED <<jobs, scalls, sinserts>>
  BY <1>1, <1>2, Shared DEF P!PeerStep, PStep
<1>3. CASE S!PeerStep /\ UNCHANGED <<jobs, pcalls, pinserts>>
  BY <1>1, <1>3, Shared DEF S!PeerStep, SStep
<1>4. CASE Take
  BY <1>4 DEF Take
<1> QED
  BY <1>2, <1>3, <1>4 DEF Next

(* Inv is an invariant.                                                      *)
THEOREM Invariance == Spec => []Inv
<1>1. ASSUME Inv, [Next]_vars
      PROVE  Inv'
  <2>1. CASE UNCHANGED vars
    BY <1>1, <2>1, Rests
  <2>2. CASE /\ jobs < N /\ jobs' = jobs + 1 /\ UNCHANGED <<pcalls, scalls>>
             /\ pinserts' = pinserts \cup {jobs} /\ UNCHANGED sinserts
    BY <1>1, <2>2, PTakeInv
  <2>3. CASE /\ jobs < N /\ jobs' = jobs + 1 /\ UNCHANGED <<pcalls, scalls>>
             /\ sinserts' = sinserts \cup {jobs} /\ UNCHANGED pinserts
    BY <1>1, <2>3, STakeInv
  <2>4. CASE \E c \in Ids : PStep(c) /\ pinserts' = pinserts /\ UNCHANGED <<jobs, scalls, sinserts>>
    BY <1>1, <2>4, PStepInv
  <2>5. CASE \E c \in Ids : SStep(c) /\ sinserts' = sinserts /\ UNCHANGED <<jobs, pcalls, pinserts>>
    BY <1>1, <2>5, SStepInv
  <2> QED
    BY <1>1, <2>1, <2>2, <2>3, <2>4, <2>5, NextSteps
<1> QED
  BY <1>1, InitInv, PTL DEF Spec

-------------------------------------------------------------------------------
(* The invariant in the words of the instances.                              *)
LEMMA OnceIs == (P!MadeOnce <=> POnce) /\ (S!MadeOnce <=> SOnce) /\ (MadeOnce <=> POnce /\ SOnce)
BY Counting DEF P!MadeOnce, S!MadeOnce, MadeOnce, POnce, SOnce

(* The list of connections that is read from the table is one of those that  *)
(* hold what is in the table.                                                *)
LEMMA PLinksIn ==
  ASSUME PHalf, POnce, NEW v \in Ids, NEW l \in Levels
  PROVE  Elements(P!Links(v, l)) \subseteq PTable
<1>1. PTypeOK /\ PListsIn
  BY DEF PHalf, PTypes, PSound
<1>2. CASE pnodes[v] = -1
  BY <1>2, Shared DEF P!Links, Elements
<1>3. CASE pnodes[v] # -1
  <2>1. pnodes[v] \in Ids
    BY <1>1, <1>3 DEF PTypeOK
  <2>2. P!Links(v, l) = pconnections[v][pnodes[v]][l]
    BY <1>3, Shared DEF P!Links
  <2> QED
    BY <1>1, <2>1, <2>2 DEF PListsIn
<1> QED
  BY <1>2, <1>3

LEMMA PNothingDangles ==
  ASSUME PHalf, POnce
  PROVE  P!NoDanglingLinks /\ P!NoPanic /\ P!StoredForGood
<1>1. PSound
  BY DEF PHalf
<1>2. P!NoDanglingLinks
  <2>1. pfirsts # {} => pnodes[pentryPointID] # -1
    BY <1>1 DEF PSound, PEntryIn, PTable
  <2>2. \A v \in Ids, l \in Levels : \A u \in Elements(P!Links(v, l)) : pnodes[u] # -1
    BY PLinksIn DEF PTable
  <2> QED
    BY <2>1, <2>2, Shared DEF P!NoDanglingLinks
<1>3. P!NoPanic
  BY <1>1, Shared DEF PSound, PNoPanic, P!NoPanic
<1>4. P!StoredForGood
  BY <1>1, Shared DEF PSound, PStoredStay, PStored, P!StoredForGood
<1> QED
  BY <1>2, <1>3, <1>4

(* When its calls have returned the graph is complete.                       *)
LEMMA PComplete ==
  ASSUME PHalf, POnce, \A c \in Ids : ppc[c] = "done"
  PROVE  /\ \A c \in Ids : pnodes[c] = pown[c]
         /\ \A c \in Ids \ (pfirsts \cup sfirsts) : P!Links(c, 0) # <<>>
         /\ P!EntryPointOnTop
<1>1. PTypes /\ PSound /\ PFilled /\ PLevels
  BY DEF PHalf
<1>2. \A c \in Ids : pnodes[c] = pown[c] /\ pown[c] \in Ids
  BY <1>1 DEF PSound, PStoredStay, PStored, PTypes, PHolds
<1>3. ASSUME NEW c \in Ids \ (pfirsts \cup sfirsts)
      PROVE  P!Links(c, 0) # <<>>
  <2>1. pconnections[c][pown[c]][0] # <<>>
    BY <1>1, <1>3 DEF PFilled, PLinked0, PPast0
  <2>2. pnodes[c] = pown[c] /\ pnodes[c] # -1
    BY <1>2, <1>3, Parameters
  <2> QED
    BY <2>1, <2>2, Shared DEF P!Links
<1>4. P!EntryPointOnTop
  BY <1>1, <1>2, OnceIs DEF PLevels, P!EntryPointOnTop
<1> QED
  BY <1>2, <1>3, <1>4

(* The list of connections that is read from the table is one of those that  *)
(* hold what is in the table.                                                *)
LEMMA SLinksIn ==
  ASSUME SHalf, SOnce, NEW v \in Ids, NEW l \in Levels
  PROVE  Elements(S!Links(v, l)) \subseteq STable
<1>1. STypeOK /\ SListsIn
  BY DEF SHalf, STypes, SSound
<1>2. CASE snodes[v] = -1
  BY <1>2, Shared DEF S!Links, Elements
<1>3. CASE snodes[v] # -1
  <2>1. snodes[v] \in Ids
    BY <1>1, <1>3 DEF STypeOK
  <2>2. S!Links(v, l) = sconnections[v][snodes[v]][l]
    BY <1>3, Shared DEF S!Links
  <2> QED
    BY <1>1, <2>1, <2>2 DEF SListsIn
<1> QED
  BY <1>2, <1>3

LEMMA SNothingDangles ==
  ASSUME SHalf, SOnce
  PROVE  S!NoDanglingLinks /\ S!NoPanic /\ S!StoredForGood
<1>1. SSound
  BY DEF SHalf
<1>2. S!NoDanglingLinks
  <2>1. sfirsts # {} => snodes[sentryPointID] # -1
    BY <1>1 DEF SSound, SEntryIn, STable
  <2>2. \A v \in Ids, l \in Levels : \A u \in Elements(S!Links(v, l)) : snodes[u] # -1
    BY SLinksIn DEF STable
  <2> QED
    BY <2>1, <2>2, Shared DEF S!NoDanglingLinks
<1>3. S!NoPanic
  BY <1>1, Shared DEF SSound, SNoPanic, S!NoPanic
<1>4. S!StoredForGood
  BY <1>1, Shared DEF SSound, SStoredStay, SStored, S!StoredForGood
<1> QED
  BY <1>2, <1>3, <1>4

(* When its calls have returned the graph is complete.                       *)
LEMMA SComplete ==
  ASSUME SHalf, SOnce, \A c \in Ids : spc[c] = "done"
  PROVE  /\ \A c \in Ids : snodes[c] = sown[c]
         /\ \A c \in Ids \ (sfirsts \cup pfirsts) : S!Links(c, 0) # <<>>
         /\ S!EntryPointOnTop
<1>1. STypes /\ SSound /\ SFilled /\ SLevels
  BY DEF SHalf
<1>2. \A c \in Ids : snodes[c] = sown[c] /\ sown[c] \in Ids
  BY <1>1 DEF SSound, SStoredStay, SStored, STypes, SHolds
<1>3. ASSUME NEW c \in Ids \ (sfirsts \cup pfirsts)
      PROVE  S!Links(c, 0) # <<>>
  <2>1. sconnections[c][sown[c]][0] # <<>>
    BY <1>1, <1>3 DEF SFilled, SLinked0, SPast0
  <2>2. snodes[c] = sown[c] /\ snodes[c] # -1
    BY <1>2, <1>3, Parameters
  <2> QED
    BY <2>1, <2>2, Shared DEF S!Links
<1>4. S!EntryPointOnTop
  BY <1>1, <1>2, OnceIs DEF SLevels, S!EntryPointOnTop
<1> QED
  BY <1>2, <1>3, <1>4

(* Nobody who searches or links in either graph comes upon an id that is not *)
(* in its table, in whatever order insertions, their hooks and the calls that *)
(* replicate proceed, as long as each table was made once.                   *)
THEOREM NothingIsDangling == Spec => []NothingDangles
<1>1. Inv => NothingDangles
  BY OnceIs, PNothingDangles, SNothingDangles DEF Inv, NothingDangles
<1> QED
  BY <1>1, Invariance, PTL

(* A vertex a call has stored, in either graph, is the one that stays there. *)
THEOREM StoredVerticesStay == Spec => []BothStoredForGood
<1>1. Inv => BothStoredForGood
  BY OnceIs, PNothingDangles, SNothingDangles DEF Inv, BothStoredForGood
<1> QED
  BY <1>1, Invariance, PTL

(* insert finds no placeholder where it stores its vertex: that it does not  *)
(* look for one, as insertFromExternal does, loses no links.                 *)
THEOREM NoPlaceholderIsMissed == Spec => []NoPlaceholderForInserts
<1>1. ASSUME Inv, MadeOnce
      PROVE  /\ \A c \in pinserts : ppc[c] \in {"max", "store"} => pnodes[c] = P!None
             /\ \A c \in sinserts : spc[c] \in {"max", "store"} => snodes[c] = S!None
  <2>1. /\ UnusedOut /\ POnce /\ SOnce /\ pinserts \cap sinserts = {}
        /\ pinserts \subseteq Ids /\ sinserts \subseteq Ids
    BY <1>1, OnceIs DEF Inv, JobsOK, PHalf, SHalf, PTypes, STypes, PTypeOK, STypeOK
  <2>2. \A c \in pinserts : ppc[c] \in {"max", "store"} => c \notin PTable
    BY <2>1 DEF UnusedOut, Unused, PStored
  <2>3. \A c \in sinserts : spc[c] \in {"max", "store"} => c \notin STable
    BY <2>1 DEF UnusedOut, Unused, SStored
  <2> QED
    BY <2>1, <2>2, <2>3, Shared DEF PTable, STable
<1>2. Inv => NoPlaceholderForInserts
  BY <1>1 DEF NoPlaceholderForInserts
<1> QED
  BY <1>2, Invariance, PTL

(* When all is over each graph has the vertex of every call, linked on level *)
(* 0 unless it was the first of one of them, and an entry point that is on   *)
(* the highest layer.                                                        *)
THEOREM GraphsAreComplete == Spec => []BothComplete
<1>1. ASSUME Inv, AllDone, MadeOnce
      PROVE  \A c \in Ids :
               /\ pnodes[c] = pown[c] /\ snodes[c] = sown[c]
               /\ c \notin pfirsts \cup sfirsts => P!Links(c, 0) # <<>> /\ S!Links(c, 0) # <<>>
               /\ P!EntryPointOnTop /\ S!EntryPointOnTop
  <2>1. /\ PHalf /\ SHalf /\ POnce /\ SOnce
        /\ \A c \in Ids : ppc[c] = "done" /\ spc[c] = "done"
    BY <1>1, OnceIs DEF Inv, AllDone
  <2> QED
    BY <2>1, PComplete, SComplete
<1>2. Inv => BothComplete
  BY <1>1 DEF BothComplete
<1> QED
  BY <1>2, Invariance, PTL
===============================================================================
