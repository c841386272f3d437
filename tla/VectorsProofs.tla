----------------------------- MODULE VectorsProofs -----------------------------
(* Proofs about Vectors, for any number of workers and requests, of vectors  *)
(* and of misses of the cache: first about the cache alone (VectorCache, for *)
(* any number of callers and keys), then about what is stored and cached.    *)
EXTENDS Vectors, FiniteSetTheorems, TLAPS

-------------------------------------------------------------------------------
(* The cache.                                                                *)
USE CallersAssumption, KeysAssumption, SizeAssumption, BoundAssumption

Steps == {"idle", "check", "range", "delete", "decrement", "store", "increment"}

(* The types, and what a call holds at which step, are invariant.            *)
LEMMA Typing == TypeOK /\ [Next]_vars => TypeOK'
<1> SUFFICES ASSUME TypeOK, [Next]_vars PROVE TypeOK'
  OBVIOUS
<1> USE DEF TypeOK
<1>1. ASSUME NEW c \in Callers, NEW i \in Keys, Miss(c, i) PROVE TypeOK'
  BY <1>1 DEF Miss
<1>2. ASSUME NEW c \in Callers, NEW i \in Keys, Visit(c, i) PROVE TypeOK'
  BY <1>2 DEF Visit
<1>3. ASSUME NEW c \in Callers, Check(c) PROVE TypeOK'
  BY <1>3 DEF Check
<1>4. ASSUME NEW c \in Callers, RangeOver(c) PROVE TypeOK'
  BY <1>4 DEF RangeOver
<1>5. ASSUME NEW c \in Callers, Delete(c) PROVE TypeOK'
  BY <1>5 DEF Delete
<1>6. ASSUME NEW c \in Callers, Decrement(c) PROVE TypeOK'
  BY <1>6 DEF Decrement
<1>7. ASSUME NEW c \in Callers, Store(c) PROVE TypeOK'
  BY <1>7 DEF Store
<1>8. ASSUME NEW c \in Callers, Increment(c) PROVE TypeOK'
  BY <1>8 DEF Increment
<1>9. ASSUME UNCHANGED vars PROVE TypeOK'
  BY <1>9 DEF vars
<1> QED
  BY <1>1, <1>2, <1>3, <1>4, <1>5, <1>6, <1>7, <1>8, <1>9 DEF Next, Get, Over

(* Every reachable state of the cache is well typed, and a call holds its    *)
(* key and its victim exactly while it needs them.                           *)
THEOREM TypeCorrect == Spec => []TypeOK
<1>1. Init => TypeOK
  BY DEF Init, TypeOK
<1> QED
  BY <1>1, Typing, PTL DEF Spec

-------------------------------------------------------------------------------
(* Putting an element into a finite set adds one unless it was there.        *)
LEMMA Added ==
  ASSUME NEW S, IsFiniteSet(S), NEW x
  PROVE  /\ x \in S => S \cup {x} = S
         /\ x \notin S => Cardinality(S \cup {x}) = Cardinality(S) + 1
BY FS_AddElement

(* Taking one out removes one if it was there.                               *)
LEMMA Removed ==
  ASSUME NEW S, IsFiniteSet(S), NEW x
  PROVE  /\ x \notin S => S \ {x} = S
         /\ x \in S => Cardinality(S \ {x}) = Cardinality(S) - 1
BY FS_RemoveElement

(* What is counted is finite.                                                *)
LEMMA Counted ==
  ASSUME TypeOK
  PROVE  /\ IsFiniteSet(cache) /\ Cardinality(cache) \in Nat
         /\ \A s : IsFiniteSet(At(s)) /\ Cardinality(At(s)) \in Nat
BY FS_Subset, FS_CardinalityType DEF TypeOK, At

(* A step of one caller moves it from one set of callers to another.         *)
LEMMA Moved ==
  ASSUME TypeOK, NEW c \in Callers, NEW s \in Steps, pc' = [pc EXCEPT ![c] = s],
         NEW t \in Steps
  PROVE  At(t)' = IF t = s THEN At(t) \cup {c} ELSE At(t) \ {c}
BY DEF TypeOK, At, Steps

(* The count differs from the number of keys exactly by the calls between    *)
(* the two accesses and by the double stores and deletions.                  *)
LEMMA Counting == TypeOK /\ CountExplained /\ [Next]_vars => CountExplained'
<1> SUFFICES ASSUME TypeOK, CountExplained, [Next]_vars PROVE CountExplained'
  OBVIOUS
<1> DEFINE inc == At("increment")
           dec == At("decrement")
<1>0. /\ IsFiniteSet(cache) /\ Cardinality(cache) \in Nat
      /\ IsFiniteSet(inc) /\ Cardinality(inc) \in Nat
      /\ IsFiniteSet(dec) /\ Cardinality(dec) \in Nat
      /\ count \in Int /\ doubles \in Nat /\ ghosts \in Nat
  BY Counted DEF TypeOK
<1>1. ASSUME inc' = inc, dec' = dec, UNCHANGED <<cache, count, doubles, ghosts>>
      PROVE CountExplained'
  BY <1>1 DEF CountExplained
<1>2. ASSUME NEW c \in Callers, NEW s \in {"check", "range", "delete", "store"},
             pc' = [pc EXCEPT ![c] = s], c \notin inc, c \notin dec
      PROVE inc' = inc /\ dec' = dec
  <2>1. inc' = inc \ {c} /\ dec' = dec \ {c}
    BY <1>2, Moved DEF Steps
  <2> QED
    BY <1>2, <2>1
<1>3. ASSUME NEW c \in Callers, NEW i \in Keys, Miss(c, i) PROVE CountExplained'
  BY <1>1, <1>2, <1>3 DEF Miss, At
<1>4. ASSUME NEW c \in Callers, NEW i \in Keys, Visit(c, i) PROVE CountExplained'
  <2>1. CASE i \in cache
    BY <1>1, <1>2, <1>4, <2>1 DEF Visit, At
  <2>2. CASE i \notin cache
    BY <1>1, <1>4, <2>2 DEF Visit, At
  <2> QED
    BY <2>1, <2>2
<1>5. ASSUME NEW c \in Callers, Check(c) PROVE CountExplained'
  <2>1. CASE count >= maxSize
    BY <1>1, <1>2, <1>5, <2>1 DEF Check, At
  <2>2. CASE ~(count >= maxSize)
    BY <1>1, <1>2, <1>5, <2>2 DEF Check, At
  <2> QED
    BY <2>1, <2>2
<1>6. ASSUME NEW c \in Callers, RangeOver(c) PROVE CountExplained'
  BY <1>1, <1>2, <1>6 DEF RangeOver, At
<1>7. ASSUME NEW c \in Callers, Delete(c) PROVE CountExplained'
  <2>1. PICK k \in Keys : victim[c] = {k}
    BY <1>7 DEF Delete, TypeOK
  <2>2. inc' = inc /\ dec' = dec \cup {c} /\ c \notin dec
    <3>1. inc' = inc \ {c} /\ dec' = dec \cup {c}
      BY <1>7, Moved DEF Delete, Steps
    <3>2. c \notin inc /\ c \notin dec
      BY <1>7 DEF Delete, At
    <3> QED
      BY <3>1, <3>2
  <2>3. Cardinality(dec') = Cardinality(dec) + 1
    BY <1>0, <2>2, Added
  <2>4. CASE k \in cache
    <3>1. Cardinality(cache') = Cardinality(cache) - 1
      BY <1>0, <1>7, <2>1, <2>4, Removed DEF Delete
    <3>2. ghosts' = ghosts /\ count' = count /\ doubles' = doubles
      BY <1>7, <2>1, <2>4 DEF Delete
    <3> QED
      BY <1>0, <2>2, <2>3, <3>1, <3>2 DEF CountExplained
  <2>5. CASE k \notin cache
    <3>1. cache' = cache /\ ghosts' = ghosts + 1 /\ count' = count /\ doubles' = doubles
      BY <1>7, <2>1, <2>5 DEF Delete
    <3>2. Cardinality(cache') = Cardinality(cache)
      BY <3>1
    <3> QED
      BY <1>0, <2>2, <2>3, <3>1, <3>2 DEF CountExplained
  <2> QED
    BY <2>4, <2>5
<1>8. ASSUME NEW c \in Callers, Decrement(c) PROVE CountExplained'
  <2>1. inc' = inc /\ dec' = dec \ {c} /\ c \in dec
    <3>1. inc' = inc \ {c} /\ dec' = dec \ {c}
      BY <1>8, Moved DEF Decrement, Steps
    <3>2. c \notin inc /\ c \in dec
      BY <1>8 DEF Decrement, At
    <3> QED
      BY <3>1, <3>2
  <2>2. Cardinality(dec') = Cardinality(dec) - 1
    BY <1>0, <2>1, Removed
  <2> QED
    BY <1>0, <1>8, <2>1, <2>2 DEF Decrement, CountExplained
<1>9. ASSUME NEW c \in Callers, Store(c) PROVE CountExplained'
  <2>1. PICK i \in Keys : key[c] = {i}
    BY <1>9 DEF Store, TypeOK
  <2>2. inc' = inc \cup {c} /\ dec' = dec /\ c \notin inc
    <3>1. inc' = inc \cup {c} /\ dec' = dec \ {c}
      BY <1>9, Moved DEF Store, Steps
    <3>2. c \notin inc /\ c \notin dec
      BY <1>9 DEF Store, At
    <3> QED
      BY <3>1, <3>2
  <2>3. Cardinality(inc') = Cardinality(inc) + 1
    BY <1>0, <2>2, Added
  <2>4. CASE i \in cache
    <3>1. cache' = cache /\ doubles' = doubles + 1
      BY <1>9, <2>1, <2>4 DEF Store
    <3> QED
      BY <1>0, <1>9, <2>2, <2>3, <3>1 DEF Store, CountExplained
  <2>5. CASE i \notin cache
    <3>1. Cardinality(cache') = Cardinality(cache) + 1 /\ doubles' = doubles
      BY <1>0, <1>9, <2>1, <2>5, Added DEF Store
    <3> QED
      BY <1>0, <1>9, <2>2, <2>3, <3>1 DEF Store, CountExplained
  <2> QED
    BY <2>4, <2>5
<1>10. ASSUME NEW c \in Callers, Increment(c) PROVE CountExplained'
  <2>1. inc' = inc \ {c} /\ dec' = dec /\ c \in inc
    <3>1. inc' = inc \ {c} /\ dec' = dec \ {c}
      BY <1>10, Moved DEF Increment, Steps
    <3>2. c \in inc /\ c \notin dec
      BY <1>10 DEF Increment, At
    <3> QED
      BY <3>1, <3>2
  <2>2. Cardinality(inc') = Cardinality(inc) - 1
    BY <1>0, <2>1, Removed
  <2> QED
    BY <1>0, <1>10, <2>1, <2>2 DEF Increment, CountExplained
<1>11. ASSUME UNCHANGED vars PROVE CountExplained'
  BY <1>1, <1>11 DEF vars, At
<1> QED
  BY <1>3, <1>4, <1>5, <1>6, <1>7, <1>8, <1>9, <1>10, <1>11 DEF Next, Get, Over

(* However many calls race: the counter and the map part only by what is     *)
(* under way, by keys stored twice and by keys deleted twice.                *)
THEOREM CountIsExplained == Spec => []CountExplained
<1>1. Init => CountExplained
  <2>1. Init => cache = {} /\ At("increment") = {} /\ At("decrement") = {}
    BY DEF Init, At
  <2> QED
    BY <2>1, FS_EmptySet DEF Init, CountExplained
<1> QED
  BY <1>1, Counting, Typing, TypeCorrect, PTL DEF Spec

-------------------------------------------------------------------------------
(* The size of the map.  A call only stores its key if the counter is below  *)
(* the limit or if it has purged what there was; but others may store while  *)
(* it does.  What several purges together will not remove therefore leaves   *)
(* room for a key of each of them, and of each call that is about to store.  *)
Purgers == {c \in Callers : pc[c] \in {"range", "delete", "decrement"}}

(* The keys that the purges of Q will leave in the map. *)
Kept(Q) == {k \in cache : \A q \in Q : /\ k \notin range[q]
                                       /\ ~(pc[q] = "delete" /\ k \in victim[q])}

Load(Q) == Cardinality(Kept(Q)) + Cardinality(At("store")) + Cardinality(Q)

Room == \A Q \in SUBSET Purgers :
          Load(Q) < maxSize + Cardinality(Callers) + ghosts

(* What is counted is finite, and callers are not counted twice.             *)
LEMMA Loaded ==
  ASSUME TypeOK, NEW Q \in SUBSET Purgers
  PROVE  /\ IsFiniteSet(Q) /\ Cardinality(Q) \in Nat
         /\ IsFiniteSet(Kept(Q)) /\ Cardinality(Kept(Q)) \in Nat
         /\ Cardinality(Kept(Q)) <= Cardinality(cache)
         /\ IsFiniteSet(At("store")) /\ Cardinality(At("store")) \in Nat
         /\ Cardinality(Callers) \in Nat
<1>1. Kept(Q) \subseteq cache /\ Q \subseteq Callers
  BY DEF Kept, Purgers
<1> QED
  BY <1>1, Counted, FS_Subset, FS_CardinalityType

LEMMA ApartFrom ==
  ASSUME NEW S, NEW T, S \subseteq Callers, T \subseteq Callers, S \cap T = {}
  PROVE  /\ IsFiniteSet(S \cup T) /\ S \cup T \subseteq Callers
         /\ Cardinality(S \cup T) = Cardinality(S) + Cardinality(T)
         /\ Cardinality(S) + Cardinality(T) <= Cardinality(Callers)
<1>1. IsFiniteSet(S) /\ IsFiniteSet(T) /\ Cardinality(S) \in Nat /\ Cardinality(T) \in Nat
  BY FS_Subset, FS_CardinalityType
<1>2. Cardinality(S \cup T) = Cardinality(S) + Cardinality(T)
  <2>1. Cardinality(S \cup T) = Cardinality(S) + Cardinality(T) - Cardinality(S \cap T)
    BY <1>1, FS_Union
  <2>2. Cardinality(S \cap T) = 0
    BY FS_EmptySet
  <2> QED
    BY <1>1, <2>1, <2>2
<1>3. S \cup T \in SUBSET Callers
  OBVIOUS
<1> QED
  BY <1>2, <1>3, FS_Subset

(* A step that adds to none of the numbers leaves room.                      *)
LEMMA RoomKept ==
  ASSUME TypeOK, TypeOK', Room, Purgers' \subseteq Purgers, ghosts' >= ghosts,
         At("store")' \subseteq At("store"),
         \A Q \in SUBSET Purgers' : Kept(Q)' \subseteq Kept(Q)
  PROVE  Room'
<1> SUFFICES ASSUME NEW Q \in SUBSET Purgers'
             PROVE  (Load(Q) < maxSize + Cardinality(Callers) + ghosts)'
  BY DEF Room
<1>1. Q \in SUBSET Purgers /\ Load(Q) < maxSize + Cardinality(Callers) + ghosts
  BY DEF Room
<1>2. Cardinality(Kept(Q)') <= Cardinality(Kept(Q)) /\ Cardinality(Kept(Q)') \in Nat
  BY <1>1, Loaded, FS_Subset, FS_CardinalityType
<1>3. /\ Cardinality(At("store")') <= Cardinality(At("store"))
      /\ Cardinality(At("store")') \in Nat
  BY <1>1, Loaded, FS_Subset, FS_CardinalityType
<1>4. ghosts \in Nat /\ ghosts' \in Nat
  BY DEF TypeOK
<1> QED
  BY <1>1, <1>2, <1>3, <1>4, Loaded DEF Load

(* Every step leaves room.                                                   *)
LEMMA StepRoom ==
  ASSUME TypeOK, TypeOK', CountExplained, Room, [Next]_vars
  PROVE  Room'
<1>0. /\ ghosts \in Nat /\ doubles \in Nat /\ count \in Int
      /\ Cardinality(Callers) \in Nat /\ Cardinality(At("store")) \in Nat
      /\ IsFiniteSet(At("store"))
  BY Counted, FS_CardinalityType DEF TypeOK
<1> USE DEF Purgers, Kept
<1>1. ASSUME NEW c \in Callers, NEW i \in Keys, Miss(c, i) PROVE Room'
  BY <1>0, <1>1, RoomKept DEF Miss, At, TypeOK
<1>2. ASSUME NEW c \in Callers, NEW k \in Keys, Visit(c, k) PROVE Room'
  <2>1. Purgers' = Purgers /\ At("store")' = At("store") /\ ghosts' = ghosts
    BY <1>2 DEF Visit, At, TypeOK
  <2>2. \A Q \in SUBSET Purgers' : Kept(Q)' \subseteq Kept(Q)
    BY <1>2 DEF Visit, TypeOK
  <2> QED
    BY <1>0, <2>1, <2>2, RoomKept
<1>3. ASSUME NEW c \in Callers, Check(c), count >= maxSize PROVE Room'
  <2>1. /\ Purgers' = Purgers \cup {c} /\ c \notin Purgers
        /\ At("store")' = At("store") /\ UNCHANGED <<ghosts, cache>>
        /\ range' = [range EXCEPT ![c] = cache]
    BY <1>3 DEF Check, At, TypeOK
  <2> SUFFICES ASSUME NEW Q \in SUBSET Purgers'
               PROVE  (Load(Q) < maxSize + Cardinality(Callers) + ghosts)'
    BY DEF Room
  <2>2. CASE c \in Q
    <3>1. Kept(Q)' = {} /\ Cardinality({}) = 0
      BY <2>1, <2>2, FS_EmptySet DEF TypeOK
    <3>2. Cardinality(At("store")) + Cardinality(Q) <= Cardinality(Callers)
      <4>1. At("store") \subseteq Callers /\ Q \subseteq Callers /\ At("store") \cap Q = {}
        BY <1>3, <2>1 DEF At, Check
      <4> QED
        BY <4>1, ApartFrom
    <3>3. Cardinality(Q) \in Nat
      BY FS_Subset, FS_CardinalityType
    <3> QED
      <4> HIDE DEF Purgers, Kept
      <4> QED
        BY <1>0, <2>1, <3>1, <3>2, <3>3, SizeAssumption DEF Load
  <2>3. CASE c \notin Q
    <3>1. Q \in SUBSET Purgers
      BY <2>1, <2>3
    <3>2. Kept(Q)' = Kept(Q)
      BY <1>3, <2>1, <2>3 DEF Check, TypeOK
    <3> QED
      BY <2>1, <3>1, <3>2 DEF Load, Room
  <2> QED
    BY <2>2, <2>3
<1>4. ASSUME NEW c \in Callers, Check(c), ~(count >= maxSize) PROVE Room'
  <2>1. /\ Purgers' = Purgers /\ c \notin Purgers /\ pc[c] = "check"
        /\ At("store")' = At("store") \cup {c} /\ UNCHANGED <<ghosts, cache>>
    BY <1>4 DEF Check, At, TypeOK
  <2> SUFFICES ASSUME NEW Q \in SUBSET Purgers'
               PROVE  (Load(Q) < maxSize + Cardinality(Callers) + ghosts)'
    BY DEF Room
  <2>2. Kept(Q)' = Kept(Q)
    BY <1>4, <2>1 DEF Check, TypeOK
  <2> DEFINE inc == At("increment")
             dec == At("decrement")
             pass == At("store") \cup {c}
  <2>3. /\ inc \subseteq Callers /\ pass \subseteq Callers /\ Q \subseteq Callers
        /\ inc \cap pass = {} /\ Q \cap (inc \cup pass) = {}
    BY <2>1 DEF At
  <2>4. /\ Cardinality(inc \cup pass) = Cardinality(inc) + Cardinality(pass)
        /\ Cardinality(Q) + Cardinality(inc \cup pass) <= Cardinality(Callers)
    BY <2>3, ApartFrom
  <2>5. Cardinality(cache) < maxSize + Cardinality(inc) + ghosts
    <3>1. Cardinality(inc) \in Nat /\ Cardinality(dec) \in Nat /\ Cardinality(cache) \in Nat
      BY Counted
    <3> QED
      BY <1>0, <1>4, <3>1 DEF CountExplained
  <2>6. /\ Cardinality(inc) \in Nat /\ Cardinality(pass) \in Nat
        /\ Cardinality(Q) \in Nat /\ Cardinality(cache) \in Nat
    BY <2>1, <2>3, Counted, FS_Subset, FS_CardinalityType
  <2> HIDE DEF Purgers, Kept
  <2>7. Q \in SUBSET Purgers
    BY <2>1
  <2>8. Cardinality(Kept(Q)) <= Cardinality(cache) /\ Cardinality(Kept(Q)) \in Nat
    BY <2>7, Loaded
  <2> HIDE DEF inc, pass
  <2>9. Cardinality(Kept(Q)) + Cardinality(pass) + Cardinality(Q)
          < maxSize + Cardinality(Callers) + ghosts
    BY <1>0, <2>4, <2>5, <2>6, <2>8
  <2> QED
    BY <2>1, <2>2, <2>9 DEF Load, pass
<1>5. ASSUME NEW c \in Callers, RangeOver(c) PROVE Room'
  <2>1. /\ Purgers' = Purgers \ {c} /\ c \in Purgers /\ c \notin At("store")
        /\ At("store")' = At("store") \cup {c} /\ UNCHANGED <<ghosts, cache>>
    BY <1>5 DEF RangeOver, At, TypeOK
  <2> SUFFICES ASSUME NEW Q \in SUBSET Purgers'
               PROVE  (Load(Q) < maxSize + Cardinality(Callers) + ghosts)'
    BY DEF Room
  <2>2. Q \in SUBSET Purgers /\ Q \cup {c} \in SUBSET Purgers /\ c \notin Q
    BY <2>1
  <2>3. Kept(Q)' = Kept(Q \cup {c})
    BY <1>5, <2>2 DEF RangeOver, TypeOK
  <2>4. Cardinality(Q \cup {c}) = Cardinality(Q) + 1
    BY <2>2, Loaded, Added
  <2>5. Cardinality(At("store")') = Cardinality(At("store")) + 1
    BY <2>1, <2>2, Loaded, Added
  <2> HIDE DEF Purgers, Kept
  <2>6. Load(Q \cup {c}) < maxSize + Cardinality(Callers) + ghosts
    BY <2>2 DEF Room
  <2>7. Cardinality(Kept(Q \cup {c})) \in Nat /\ Cardinality(Q) \in Nat
    BY <2>2, Loaded
  <2> QED
    BY <1>0, <2>1, <2>3, <2>4, <2>5, <2>6, <2>7 DEF Load
<1>6. ASSUME NEW c \in Callers, Delete(c) PROVE Room'
  <2>1. Purgers' = Purgers /\ At("store")' = At("store") /\ ghosts' >= ghosts
    BY <1>0, <1>6 DEF Delete, At, TypeOK
  <2>2. \A Q \in SUBSET Purgers' : Kept(Q)' \subseteq Kept(Q)
    BY <1>6 DEF Delete, TypeOK
  <2> QED
    BY <2>1, <2>2, RoomKept
<1>7. ASSUME NEW c \in Callers, Decrement(c) PROVE Room'
  BY <1>0, <1>7, RoomKept DEF Decrement, At, TypeOK
<1>8. ASSUME NEW c \in Callers, Store(c) PROVE Room'
  <2>1. /\ Purgers' = Purgers /\ c \in At("store")
        /\ At("store")' = At("store") \ {c} /\ UNCHANGED ghosts
    BY <1>8 DEF Store, At, TypeOK
  <2>2. PICK i \in Keys : key[c] = {i}
    BY <1>8 DEF Store, TypeOK
  <2> SUFFICES ASSUME NEW Q \in SUBSET Purgers'
               PROVE  (Load(Q) < maxSize + Cardinality(Callers) + ghosts)'
    BY DEF Room
  <2>3. Q \in SUBSET Purgers
    BY <2>1
  <2>4. Kept(Q)' \subseteq Kept(Q) \cup {i}
    BY <1>8, <2>1, <2>2, <2>3 DEF Store, TypeOK
  <2> HIDE DEF Purgers, Kept
  <2>5. Cardinality(Kept(Q)') <= Cardinality(Kept(Q)) + 1 /\ Cardinality(Kept(Q)') \in Nat
    <3>1. /\ IsFiniteSet(Kept(Q) \cup {i})
          /\ Cardinality(Kept(Q) \cup {i}) <= Cardinality(Kept(Q)) + 1
      <4>1. IsFiniteSet(Kept(Q)) /\ Cardinality(Kept(Q)) \in Nat
        BY <2>3, Loaded
      <4>2. /\ IsFiniteSet(Kept(Q) \cup {i})
            /\ Cardinality(Kept(Q) \cup {i}) =
                 IF i \in Kept(Q) THEN Cardinality(Kept(Q)) ELSE Cardinality(Kept(Q)) + 1
        BY <4>1, FS_AddElement
      <4> QED
        BY <4>1, <4>2
    <3>2. /\ Cardinality(Kept(Q)') <= Cardinality(Kept(Q) \cup {i})
          /\ Cardinality(Kept(Q)') \in Nat
      BY <2>4, <3>1, FS_Subset, FS_CardinalityType
    <3>3. Cardinality(Kept(Q) \cup {i}) \in Nat /\ Cardinality(Kept(Q)) \in Nat
      BY <2>3, <3>1, Loaded, FS_CardinalityType
    <3> QED
      BY <3>1, <3>2, <3>3
  <2>6. Cardinality(At("store")') = Cardinality(At("store")) - 1
    BY <2>1, <2>3, Loaded, Removed
  <2>7. Load(Q) < maxSize + Cardinality(Callers) + ghosts
    BY <2>3 DEF Room
  <2>8. Cardinality(Kept(Q)) \in Nat /\ Cardinality(Q) \in Nat
    BY <2>3, Loaded
  <2> QED
    BY <1>0, <2>1, <2>5, <2>6, <2>7, <2>8 DEF Load
<1>9. ASSUME NEW c \in Callers, Increment(c) PROVE Room'
  BY <1>0, <1>9, RoomKept DEF Increment, At, TypeOK
<1>10. ASSUME UNCHANGED vars PROVE Room'
  BY <1>0, <1>10, RoomKept DEF vars, At
<1> QED
  BY <1>1, <1>2, <1>3, <1>4, <1>5, <1>6, <1>7, <1>8, <1>9, <1>10 DEF Next, Get, Over

(* However many calls race, the map outgrows its limit by less than one key  *)
(* for each caller and one for each deletion that two purges both counted.   *)
THEOREM SizeIsBounded == Spec => []SizeBounded
<1>1. Init => Room
  <2> SUFFICES ASSUME Init PROVE Room
    OBVIOUS
  <2>1. Purgers = {} /\ At("store") = {} /\ \A Q : Kept(Q) = {}
    BY DEF Init, Purgers, At, Kept
  <2>2. Cardinality(Callers) \in Nat /\ ghosts = 0
    BY FS_CardinalityType DEF Init
  <2>3. Load({}) = 0
    BY <2>1, FS_EmptySet DEF Load
  <2> QED
    BY <2>1, <2>2, <2>3 DEF Room
<1>2. TypeOK /\ Room => SizeBounded
  <2> SUFFICES ASSUME TypeOK, Room PROVE SizeBounded
    OBVIOUS
  <2>1. Kept({}) = cache /\ {} \in SUBSET Purgers /\ Cardinality({}) = 0
    BY FS_EmptySet DEF Kept
  <2>2. Load({}) < maxSize + Cardinality(Callers) + ghosts
    BY <2>1 DEF Room
  <2>3. ghosts \in Nat
    BY DEF TypeOK
  <2> QED
    BY <2>1, <2>2, <2>3, Loaded DEF Load, SizeBounded
<1> QED
  BY <1>1, <1>2, StepRoom, TypeCorrect, CountIsExplained, PTL DEF Spec

-------------------------------------------------------------------------------
(* The way of a vector through the database and the cache.                   *)
all == <<vars, disk, flow, panicked>>

Bytes   == {"none", "old", "new"}
Vecs    == {"empty", "old", "new"}
Perhaps == {<<>>} \cup {<<v>> : v \in Vecs}
Pairs   == {<<>>} \cup Keys \X Keys

(* A result that is there or not yet. *)
LEMMA PerhapsOne ==
  /\ <<>> \in Perhaps
  /\ \A v \in Vecs : <<v>> \in Perhaps /\ <<v>> # <<>> /\ <<v>>[1] = v
  /\ \A p \in Perhaps : p # <<>> => p[1] \in Vecs /\ p = <<p[1]>>
<1>1. \A v \in Vecs : <<v>> # <<>> /\ <<v>>[1] = v
  OBVIOUS
<1> QED
  BY <1>1 DEF Perhaps

(* A pair of ids, or none. *)
LEMMA PairOfKeys ==
  /\ <<>> \in Pairs
  /\ \A a, b \in Keys : /\ <<a, b>> \in Pairs /\ <<a, b>> # <<>>
                        /\ <<a, b>>[1] = a /\ <<a, b>>[2] = b
  /\ \A p \in Pairs : p # <<>> => p[1] \in Keys /\ p[2] \in Keys
<1>1. \A a, b \in Keys : <<a, b>> # <<>> /\ <<a, b>>[1] = a /\ <<a, b>>[2] = b
  OBVIOUS
<1> QED
  BY <1>1 DEF Pairs

(* The types of the variables of the way of a vector. *)
FlowType ==
  /\ db \in [Keys -> Bytes]
  /\ vector \in [Keys -> Vecs]
  /\ read \in [Callers -> Perhaps]
  /\ waiting \subseteq Keys
  /\ at \in [Callers -> {"idle", "store", "total", "first", "insert", "query"}]
  /\ job \in [Callers -> SUBSET Keys]
  /\ pair \in [Callers -> Pairs]
  /\ got \in [Callers -> Perhaps]
  /\ near \in [Callers -> BOOLEAN]
  /\ found \subseteq Keys /\ failed \subseteq Keys
  /\ firsts \in Nat
  /\ early \in BOOLEAN /\ panicked \in BOOLEAN

(* What a caller holds in which part of its job, and which job it is. *)
Holds(c) ==
  /\ at[c] \in {"idle", "store", "total", "first"} => pair[c] = <<>>
  /\ pair[c] = <<>> => got[c] = <<>> /\ pc[c] = "idle"
  /\ pc[c] # "idle" => key[c] = {Wanted(c)}
  /\ pc[c] = "idle" => read[c] = <<>>
  /\ pc[c] \notin {"idle", "check"} => read[c] # <<>>
  /\ near[c] => at[c] = "insert"

HasJob(c) ==
  IF at[c] \in {"idle", "query"} THEN job[c] = {}
                                 ELSE \E i \in Keys : job[c] = {i} /\ i \notin waiting

Held ==
  /\ \A c \in Callers : Holds(c) /\ HasJob(c)
  /\ \A c, d \in Callers : c # d => job[c] \cap job[d] = {}

Shape == TypeOK /\ FlowType /\ Held

(* The argument of get is one of the pair. *)
LEMMA WantedIsKey ==
  ASSUME Shape, NEW c \in Callers, pair[c] # <<>>
  PROVE  /\ Wanted(c) \in Keys
         /\ Wanted(c) = IF got[c] = <<>> THEN pair[c][1] ELSE pair[c][2]
BY PairOfKeys DEF Shape, FlowType, Wanted

(* A step of get is one of module VectorCache, or none of its. *)
LEMMA CacheStep == Shape /\ [VectorsNext]_all => [Next]_vars
<1> SUFFICES ASSUME Shape, [VectorsNext]_all PROVE [Next]_vars
  OBVIOUS
<1>1. ASSUME NEW c \in Callers, Work(c) PROVE UNCHANGED vars
  BY <1>1 DEF Work, Take, StoreToBolt, ReadTotal, InsertFirst, Compare, Link, Finish, Query
<1>2. ASSUME NEW c \in Callers, GetVector(c) PROVE [Next]_vars
  <2>1. CASE pair[c] # <<>> /\ Miss(c, Wanted(c))
    BY <2>1, WantedIsKey DEF Next, Get
  <2> QED
    BY <1>2, <2>1 DEF GetVector, Hit, Read, StoreVector, ReturnRead, Next, Get
<1> QED
  BY <1>1, <1>2 DEF VectorsNext, VectorsOver, all

(* The parts of a job keep types and holdings. *)
LEMMA WorkShape ==
  ASSUME Shape, NEW c \in Callers, Work(c)
  PROVE  FlowType' /\ Held'
<1> USE PerhapsOne, PairOfKeys DEF Shape, FlowType, Held, Holds, HasJob, Wanted
<1>1. ASSUME NEW i \in Keys, Take(c, i) PROVE FlowType' /\ Held'
  <2>1. FlowType' /\ \A d \in Callers : Holds(d)'
    BY <1>1 DEF Take, vars, disk
  <2>2. \A d \in Callers : HasJob(d)' /\ (d # c => i \notin job[d] /\ job'[d] = job[d])
    BY <1>1 DEF Take, vars, disk
  <2>3. job'[c] = {i}
    BY <1>1 DEF Take
  <2>4. \A d, e \in Callers : d # e => job'[d] \cap job'[e] = {}
    BY <2>2, <2>3
  <2> QED
    BY <2>1, <2>2, <2>4
<1>2. ASSUME NEW i \in Keys, StoreToBolt(c, i) PROVE FlowType' /\ Held'
  BY <1>2 DEF StoreToBolt, vars, Bytes
<1>3. ASSUME ReadTotal(c) PROVE FlowType' /\ Held'
  BY <1>3 DEF ReadTotal, vars, disk
<1>4. ASSUME InsertFirst(c) PROVE FlowType' /\ Held'
  BY <1>4 DEF InsertFirst, vars, disk
<1>5. ASSUME NEW i \in Keys, NEW x \in Keys, Compare(c, i, x) PROVE FlowType' /\ Held'
  BY <1>5 DEF Compare, vars, disk
<1>6. ASSUME Link(c) PROVE FlowType' /\ Held'
  BY <1>6 DEF Link, vars, disk
<1>7. ASSUME Finish(c) PROVE FlowType' /\ Held'
  BY <1>7 DEF Finish, vars, disk
<1>8. ASSUME NEW i \in Keys, NEW x \in Keys, Query(c, x, i) PROVE FlowType' /\ Held'
  BY <1>8 DEF Query, vars, disk
<1> QED
  BY <1>1, <1>2, <1>3, <1>4, <1>5, <1>6, <1>7, <1>8 DEF Work

(* The steps of module VectorCache that are silent keep them too. *)
LEMMA CacheShape ==
  ASSUME Shape, NEW c \in Callers, UNCHANGED <<disk, flow, panicked>>,
         \/ pair[c] # <<>> /\ Miss(c, Wanted(c))
         \/ read[c] # <<>> /\ Check(c)
         \/ \E k \in Keys : Visit(c, k)
         \/ RangeOver(c) \/ Delete(c) \/ Decrement(c)
  PROVE  FlowType' /\ Held'
<1>1. FlowType' /\ \A d \in Callers : HasJob(d)' /\ Wanted(d)' = Wanted(d)
  BY DEF Shape, FlowType, Held, HasJob, Wanted, disk, flow
<1>2. \A d \in Callers \ {c} : pc'[d] = pc[d] /\ key'[d] = key[d]
  BY DEF Shape, TypeOK, Miss, Check, Visit, RangeOver, Delete, Decrement
<1>3. /\ pair[c] # <<>>
      /\ key'[c] = {Wanted(c)} /\ pc'[c] # "idle"
      /\ pc'[c] = "check" \/ read[c] # <<>>
  BY DEF Shape, TypeOK, Held, Holds, Miss, Check, Visit, RangeOver, Delete, Decrement
<1>4. \A d \in Callers : Holds(d)'
  BY <1>1, <1>2, <1>3 DEF Shape, Held, Holds, disk, flow
<1> QED
  BY <1>1, <1>4 DEF Shape, Held, disk, flow

(* What get returns may be the second of a pair of vectors. *)
LEMMA ReturnShape ==
  ASSUME Shape, NEW c \in Callers, NEW v \in Vecs, pair[c] # <<>>, Return(c, v),
         pc'[c] = "idle", read'[c] = <<>>,
         \A d \in Callers \ {c} : pc'[d] = pc[d] /\ key'[d] = key[d] /\ read'[d] = read[d],
         read' \in [Callers -> Perhaps],
         UNCHANGED <<db, vector, waiting, job, found, failed, firsts, early>>
  PROVE  FlowType' /\ Held'
<1> USE PerhapsOne, PairOfKeys
<1>1. FlowType'
  <2>1. pair' \in [Callers -> Pairs] /\ got' \in [Callers -> Perhaps]
    <3>1. pair \in [Callers -> Pairs] /\ got \in [Callers -> Perhaps]
      BY DEF Shape, FlowType
    <3>2. <<>> \in Pairs /\ <<>> \in Perhaps /\ <<v>> \in Perhaps
      BY DEF Pairs
    <3>3. pair' \in [Callers -> Pairs]
      BY <3>1, <3>2 DEF Return
    <3> QED
      BY <3>1, <3>2, <3>3 DEF Return
  <2>3. near' \in [Callers -> BOOLEAN]
    BY DEF Shape, FlowType, Return
  <2>4. panicked' \in BOOLEAN
    BY DEF Shape, FlowType, Return
  <2>2. at' \in [Callers -> {"idle", "store", "total", "first", "insert", "query"}]
    BY DEF Shape, FlowType, Return
  <2> QED
    BY <2>1, <2>2, <2>3, <2>4 DEF Shape, FlowType
<1>2. \A d \in Callers : HasJob(d)'
  BY DEF Shape, FlowType, Held, HasJob, Holds, Return
<1>3. \A d \in Callers \ {c} : Holds(d)'
  BY DEF Shape, FlowType, Held, Holds, Return, Wanted
<1>4. Holds(c)'
  BY DEF Shape, FlowType, Held, Holds, Return, Wanted
<1> QED
  BY <1>1, <1>2, <1>3, <1>4 DEF Shape, Held

(* All steps of get keep types and holdings. *)
LEMMA GetShape ==
  ASSUME Shape, NEW c \in Callers, GetVector(c)
  PROVE  FlowType' /\ Held'
<1>1. CASE Hit(c)
  <2>1. vector[Wanted(c)] \in Vecs
    BY <1>1, WantedIsKey DEF Hit, Shape, FlowType
  <2> QED
    BY <1>1, <2>1, ReturnShape DEF Hit, vars, disk, Shape, FlowType, Held, Holds
<1>2. ASSUME NEW i \in Keys, Read(c, i) PROVE FlowType' /\ Held'
  <2>1. vectorFromBytes(db[i]) \in Vecs
    BY DEF Shape, FlowType, vectorFromBytes, Bytes, Vecs
  <2> QED
    BY <1>2, <2>1, PerhapsOne
       DEF Read, vars, flow, Shape, FlowType, Held, Holds, HasJob, Wanted
<1>3. ASSUME NEW i \in Keys, StoreVector(c, i) PROVE FlowType' /\ Held'
  <2>1. read[c][1] \in Vecs
    BY <1>3, PerhapsOne DEF StoreVector, Store, Shape, FlowType, Held, Holds
  <2> QED
    BY <1>3, <2>1 DEF StoreVector, Store, flow, Shape, TypeOK, FlowType, Held, Holds, HasJob, Wanted
<1>4. CASE ReturnRead(c)
  <2>1. pair[c] # <<>> /\ read[c] # <<>> /\ read[c][1] \in Vecs
    BY <1>4, PerhapsOne DEF ReturnRead, Increment, Shape, FlowType, Held, Holds
  <2>2. /\ pc'[c] = "idle" /\ read'[c] = <<>> /\ read' \in [Callers -> Perhaps]
        /\ \A d \in Callers \ {c} :
             pc'[d] = pc[d] /\ key'[d] = key[d] /\ read'[d] = read[d]
    BY <1>4, PerhapsOne DEF ReturnRead, Increment, Shape, TypeOK, FlowType
  <2> QED
    BY <1>4, <2>1, <2>2, ReturnShape DEF ReturnRead
<1>5. CASE /\ UNCHANGED <<disk, flow, panicked>>
           /\ \/ pair[c] # <<>> /\ Miss(c, Wanted(c))
              \/ read[c] # <<>> /\ Check(c)
              \/ \E k \in Keys : Visit(c, k)
              \/ RangeOver(c) \/ Delete(c) \/ Decrement(c)
  BY <1>5, CacheShape
<1> QED
  BY <1>1, <1>2, <1>3, <1>4, <1>5 DEF GetVector

(* Types and holdings are invariant. *)
LEMMA ShapeInvariance == VectorsSpec => []Shape
<1>1. VectorsInit => Shape
  <2> SUFFICES ASSUME VectorsInit PROVE Shape
    OBVIOUS
  <2>1. TypeOK
    BY DEF VectorsInit, Init, TypeOK
  <2>2. FlowType
    <3>1. db \in [Keys -> Bytes] /\ vector \in [Keys -> Vecs]
      BY DEF VectorsInit, Bytes, Vecs
    <3>2. /\ read \in [Callers -> Perhaps] /\ got \in [Callers -> Perhaps]
          /\ pair \in [Callers -> Pairs]
      BY PerhapsOne, PairOfKeys DEF VectorsInit
    <3> QED
      BY <3>1, <3>2 DEF VectorsInit, FlowType
  <2>3. Held
    BY DEF VectorsInit, Init, Held, Holds, HasJob
  <2> QED
    BY <2>1, <2>2, <2>3 DEF Shape
<1>2. Shape /\ [VectorsNext]_all => Shape'
  <2> SUFFICES ASSUME Shape, [VectorsNext]_all PROVE Shape'
    OBVIOUS
  <2>1. TypeOK'
    BY CacheStep, Typing DEF Shape
  <2>2. CASE UNCHANGED all
    BY <2>1, <2>2 DEF all, vars, disk, flow, Shape, FlowType, Held, Holds, HasJob, Wanted
  <2> QED
    BY <2>1, <2>2, WorkShape, GetShape DEF VectorsNext, VectorsOver, Shape, all
<1> QED
  BY <1>1, <1>2, PTL DEF VectorsSpec, all

(* The calls of get are those of module VectorCache: what holds of the cache *)
(* whoever calls it holds here.                                              *)
THEOREM UsesCache == VectorsSpec => Spec
<1>1. VectorsInit => Init
  BY DEF VectorsInit
<1> QED
  BY <1>1, CacheStep, ShapeInvariance, PTL DEF VectorsSpec, Spec, all

-------------------------------------------------------------------------------
(* What bolt has for an id does not change any more once its worker is       *)
(* through with storing it.                                                  *)
LEMMA StoredStays ==
  ASSUME Shape, [VectorsNext]_all
  PROVE  /\ \A i \in Keys : Stored(i) => Stored(i)' /\ db'[i] = db[i]
         /\ early => early'
<1>1. ASSUME NEW c \in Callers, NEW i \in Keys, Take(c, i)
      PROVE  \A j \in Keys : Stored(j) => Stored(j)' /\ db'[j] = db[j]
  <2> SUFFICES ASSUME NEW j \in Keys, Stored(j) PROVE Stored(j)' /\ db'[j] = db[j]
    OBVIOUS
  <2>1. db' = db /\ i # j /\ j \notin waiting'
    BY <1>1 DEF Take, disk, Stored
  <2>2. ASSUME NEW d \in Callers, at'[d] = "store" PROVE job'[d] # {j}
    BY <1>1, <2>1, <2>2 DEF Take, Stored, Shape, FlowType
  <2> QED
    BY <2>1, <2>2 DEF Stored
<1>2. ASSUME NEW c \in Callers, NEW i \in Keys, StoreToBolt(c, i)
      PROVE  \A j \in Keys : Stored(j) => Stored(j)' /\ db'[j] = db[j]
  BY <1>2 DEF StoreToBolt, Stored, Shape, FlowType
<1>3. ASSUME UNCHANGED <<db, waiting, job>>,
             \A d \in Callers : at'[d] = "store" => at[d] = "store"
      PROVE  \A j \in Keys : Stored(j) => Stored(j)' /\ db'[j] = db[j]
  BY <1>3 DEF Stored
<1>4. ASSUME NEW c \in Callers, InsertFirst(c) \/ Finish(c)
      PROVE  \A j \in Keys : Stored(j) => Stored(j)' /\ db'[j] = db[j]
  BY <1>4 DEF InsertFirst, Finish, disk, Stored, Shape, FlowType
<1>5. ASSUME NEW c \in Callers, ReadTotal(c) \/ Link(c)
      PROVE  \A j \in Keys : Stored(j) => Stored(j)' /\ db'[j] = db[j]
  BY <1>3, <1>5 DEF ReadTotal, Link, disk, Shape, FlowType
<1>6. ASSUME NEW c \in Callers, NEW i \in Keys, NEW x \in Keys,
             Compare(c, i, x) \/ Query(c, x, i)
      PROVE  \A j \in Keys : Stored(j) => Stored(j)' /\ db'[j] = db[j]
  BY <1>3, <1>6 DEF Compare, Query, disk, Shape, FlowType
<1>7. ASSUME NEW c \in Callers, GetVector(c)
      PROVE  \A j \in Keys : Stored(j) => Stored(j)' /\ db'[j] = db[j]
  <2>1. /\ UNCHANGED <<db, waiting, job>>
        /\ at' = at \/ \E v \in {vector[Wanted(c)], read[c][1]} : Return(c, v)
    BY <1>7 DEF GetVector, Hit, Read, StoreVector, ReturnRead, disk, flow
  <2> QED
    BY <1>3, <2>1 DEF Return, Shape, FlowType
<1>8. ASSUME UNCHANGED all
      PROVE  \A j \in Keys : Stored(j) => Stored(j)' /\ db'[j] = db[j]
  BY <1>3, <1>8 DEF all, disk, flow
<1>9. early => early'
  BY DEF VectorsNext, VectorsOver, Work, GetVector, Take, StoreToBolt, ReadTotal,
         InsertFirst, Compare, Link, Finish, Query, Hit, Read, StoreVector, ReturnRead,
         all, flow
<1>10. ASSUME NEW c \in Callers, Work(c)
       PROVE  \A j \in Keys : Stored(j) => Stored(j)' /\ db'[j] = db[j]
  BY <1>1, <1>2, <1>4, <1>5, <1>6, <1>10 DEF Work
<1> QED
  BY <1>7, <1>8, <1>9, <1>10 DEF VectorsNext, VectorsOver, all

(* A worker goes on only when its vector is stored. *)
LEMMA JobStored ==
  ASSUME Shape, NEW c \in Callers, at[c] \in {"total", "first", "insert"}
  PROVE  \A i \in job[c] : i \in Keys /\ Stored(i)
<1>1. PICK i \in Keys : job[c] = {i} /\ i \notin waiting
  BY DEF Shape, Held, HasJob
<1>2. \A d \in Callers : at[d] = "store" => d # c
  OBVIOUS
<1>3. \A d \in Callers : at[d] = "store" => job[d] # {i}
  BY <1>1, <1>2 DEF Shape, Held
<1> QED
  BY <1>1, <1>3 DEF Stored

Bare(i) == db[i] = "none"

(* The vertices a search can come upon have been through storing, and the   *)
(* vectors that are missing then are those that could not be stored.        *)
Settled ==
  /\ \A i \in found : Stored(i)
  /\ \A i \in Keys : (Stored(i) /\ Bare(i)) => i \in failed
  /\ firsts = 0 <=> found = {}
  /\ \A c \in Callers : at[c] = "insert" => found # {}

(* No step makes a vertex findable or a vector missing that is not settled.  *)
LEMMA SettledInvariance ==
  ASSUME Shape, Settled, [VectorsNext]_all PROVE Settled'
<1> USE DEF Shape, FlowType
<1>1. ASSUME UNCHANGED <<db, found, failed, firsts, waiting, job>>,
             \A d \in Callers : /\ at'[d] = "store" <=> at[d] = "store"
                                /\ at'[d] = "insert" => at[d] = "insert" \/ found # {}
      PROVE  Settled'
  BY <1>1 DEF Settled, Stored, Bare
<1>2. ASSUME NEW c \in Callers, NEW i \in Keys, Take(c, i) PROVE Settled'
  <2>1. \A j \in Keys : Stored(j)' => Stored(j)
    <3> SUFFICES ASSUME NEW j \in Keys, Stored(j)' PROVE Stored(j)
      OBVIOUS
    <3>1. j # i
      BY <1>2 DEF Take, Stored
    <3> QED
      BY <1>2, <3>1 DEF Take, Stored
  <2> QED
    BY <1>2, <2>1, StoredStays DEF Take, Settled, Bare, disk
<1>3. ASSUME NEW c \in Callers, NEW i \in Keys, StoreToBolt(c, i) PROVE Settled'
  <2>1. \A j \in Keys : Stored(j)' /\ j # i => Stored(j)
    BY <1>3 DEF StoreToBolt, Stored
  <2>2. \A j \in Keys : j # i => db'[j] = db[j]
    BY <1>3 DEF StoreToBolt
  <2>3. db'[i] = "new" \/ i \in failed'
    BY <1>3 DEF StoreToBolt
  <2>4. /\ UNCHANGED <<found, firsts>>
        /\ failed \subseteq failed'
        /\ \A d \in Callers : at'[d] = "insert" => at[d] = "insert"
    BY <1>3 DEF StoreToBolt
  <2> QED
    BY <2>1, <2>2, <2>3, <2>4, StoredStays DEF Settled, Bare
<1>4. ASSUME NEW c \in Callers, InsertFirst(c) PROVE Settled'
  <2>1. \A i \in job[c] : i \in Keys /\ Stored(i)
    BY <1>4, JobStored DEF InsertFirst
  <2>2. job[c] # {}
    BY <1>4 DEF InsertFirst, Held, HasJob
  <2>3. \A j \in Keys : Stored(j)' => Stored(j)
    BY <1>4 DEF InsertFirst, Stored
  <2> QED
    BY <1>4, <2>1, <2>2, <2>3, StoredStays DEF InsertFirst, Settled, Bare, disk
<1>5. ASSUME NEW c \in Callers, Link(c) PROVE Settled'
  <2>1. \A i \in job[c] : i \in Keys /\ Stored(i)
    BY <1>5, JobStored DEF Link
  <2>2. \A j \in Keys : Stored(j)' => Stored(j)
    BY <1>5 DEF Link, Stored
  <2>3. found # {}
    BY <1>5 DEF Link, Settled
  <2> QED
    BY <1>5, <2>1, <2>2, <2>3, StoredStays DEF Link, Settled, Bare, disk
<1>6. ASSUME NEW c \in Callers, Finish(c) PROVE Settled'
  <2>1. \A j \in Keys : Stored(j)' => Stored(j)
    BY <1>6 DEF Finish, Stored
  <2> QED
    BY <1>6, <2>1, StoredStays DEF Finish, Settled, Bare, disk
<1>7. ASSUME NEW c \in Callers, ReadTotal(c) PROVE Settled'
  BY <1>1, <1>7 DEF ReadTotal, disk
<1>8. ASSUME NEW c \in Callers, NEW i \in Keys, NEW x \in Keys,
             Compare(c, i, x) \/ Query(c, x, i)
      PROVE  Settled'
  BY <1>1, <1>8 DEF Compare, Query, disk
<1>9. ASSUME NEW c \in Callers, GetVector(c) PROVE Settled'
  <2>1. /\ UNCHANGED <<db, found, failed, firsts, waiting, job>>
        /\ at' = at \/ \E v \in {vector[Wanted(c)], read[c][1]} : Return(c, v)
    BY <1>9 DEF GetVector, Hit, Read, StoreVector, ReturnRead, disk, flow
  <2> QED
    BY <1>1, <2>1 DEF Return
<1>10. ASSUME UNCHANGED all PROVE Settled'
  BY <1>1, <1>10 DEF all, disk, flow
<1>11. ASSUME NEW c \in Callers, Work(c) PROVE Settled'
  BY <1>2, <1>3, <1>4, <1>5, <1>6, <1>7, <1>8, <1>11 DEF Work
<1> QED
  BY <1>9, <1>10, <1>11 DEF VectorsNext, VectorsOver, all

-------------------------------------------------------------------------------
(* What the cache holds, and what a call of get has in its hands, is what    *)
(* bolt has, for an id that is stored.                                       *)
Fresh(i) == vectorFromBytes(db[i])

Agree ==
  /\ \A c \in Callers : pair[c] # <<>> => Stored(pair[c][1]) /\ Stored(pair[c][2])
  /\ \A i \in cache : Stored(i) /\ vector[i] = Fresh(i)
  /\ \A c \in Callers : read[c] # <<>> => read[c] = <<Fresh(Wanted(c))>>
  /\ \A c \in Callers : got[c] # <<>> => got[c] = <<Fresh(pair[c][1])>>

(* Nor does what get would return for an id that is stored. *)
LEMMA FreshStays ==
  ASSUME Shape, [VectorsNext]_all, NEW i \in Keys, Stored(i)
  PROVE  Stored(i)' /\ Fresh(i)' = Fresh(i)
BY StoredStays DEF Fresh

(* The id a call asks for is stored. *)
LEMMA WantedStored ==
  ASSUME Shape, Agree, NEW c \in Callers, pair[c] # <<>>
  PROVE  Wanted(c) \in Keys /\ Stored(Wanted(c))
BY WantedIsKey DEF Agree

(* What get returns is what bolt has. *)
LEMMA Returned ==
  ASSUME Shape, Agree, NEW c \in Callers
  PROVE  /\ Hit(c) => vector[Wanted(c)] = Fresh(Wanted(c))
         /\ ReturnRead(c) => read[c][1] = Fresh(Wanted(c)) /\ pair[c] # <<>>
<1>1. ReturnRead(c) => pc[c] = "increment"
  BY DEF ReturnRead, Increment
<1>2. pc[c] = "increment" => read[c] # <<>> /\ pair[c] # <<>>
  BY DEF Shape, Held, Holds
<1>3. read[c] # <<>> => read[c][1] = Fresh(Wanted(c))
  BY DEF Agree
<1> QED
  BY <1>1, <1>2, <1>3 DEF Agree, Hit

(* The cache goes on agreeing with bolt unless a request comes too early.    *)
LEMMA AgreeInvariance ==
  ASSUME Shape, Shape', Settled, ~early => Agree, [VectorsNext]_all PROVE ~early' => Agree'
<1> SUFFICES ASSUME ~early' PROVE Agree'
  OBVIOUS
<1>0. ~early /\ Agree
  BY StoredStays
<1> USE <1>0
<1>1. ASSUME cache' \subseteq cache, UNCHANGED <<vector, read, pair, got>> PROVE Agree'
  <2>1. ASSUME NEW c \in Callers, pair[c] # <<>>
        PROVE  /\ \A i \in {pair[c][1], pair[c][2], Wanted(c)} : Stored(i)' /\ Fresh(i)' = Fresh(i)
               /\ Wanted(c)' = Wanted(c)
    BY <1>1, <2>1, FreshStays, WantedIsKey, PairOfKeys DEF Agree, Shape, FlowType, Wanted
  <2>2. \A i \in cache' : i \in cache /\ Stored(i)' /\ Fresh(i)' = Fresh(i)
    BY <1>1, FreshStays DEF Agree, Shape, TypeOK
  <2>3. \A c \in Callers : read[c] # <<>> \/ got[c] # <<>> => pair[c] # <<>>
    BY DEF Shape, Held, Holds
  <2> QED
    BY <1>1, <2>1, <2>2, <2>3 DEF Agree
<1>2. ASSUME NEW c \in Callers, UNCHANGED <<cache, vector, read>>, read[c] = <<>>, got' = got,
             got[c] = <<>>, NEW a \in Keys, NEW b \in Keys, Stored(a), Stored(b),
             pair' = [pair EXCEPT ![c] = <<a, b>>]
      PROVE  Agree'
  <2>1. /\ \A d \in Callers \ {c} : pair'[d] = pair[d] /\ Wanted(d)' = Wanted(d)
        /\ pair'[c] = <<a, b>>
    BY <1>2 DEF Shape, FlowType, Wanted
  <2>2. ASSUME NEW d \in Callers \ {c}, pair[d] # <<>>
        PROVE  \A i \in {pair[d][1], pair[d][2], Wanted(d)} : Stored(i)' /\ Fresh(i)' = Fresh(i)
    BY <2>2, FreshStays, WantedIsKey, PairOfKeys DEF Agree, Shape, FlowType
  <2>3. \A i \in cache' : i \in cache /\ Stored(i)' /\ Fresh(i)' = Fresh(i)
    BY <1>2, FreshStays DEF Agree, Shape, TypeOK
  <2>4. \A d \in Callers : read[d] # <<>> \/ got[d] # <<>> => pair[d] # <<>>
    BY DEF Shape, Held, Holds
  <2>5. Stored(a)' /\ Stored(b)' /\ <<a, b>>[1] = a /\ <<a, b>>[2] = b
    BY <1>2, FreshStays
  <2> QED
    BY <1>2, <2>1, <2>2, <2>3, <2>4, <2>5 DEF Agree
<1>3. ASSUME NEW c \in Callers, Work(c) PROVE Agree'
  <2>1. ASSUME NEW x \in Keys, NEW i \in Keys, Compare(c, i, x) PROVE Agree'
    <3>1. Stored(i) /\ Stored(x)
      BY <2>1, JobStored DEF Compare, Settled
    <3>2. read[c] = <<>> /\ got[c] = <<>>
      BY <2>1 DEF Compare, Shape, Held, Holds
    <3>3. UNCHANGED <<cache, vector, read, got>>
      BY <2>1 DEF Compare, vars, disk
    <3>4. \/ pair' = [pair EXCEPT ![c] = <<x, i>>]
          \/ pair' = [pair EXCEPT ![c] = <<i, x>>]
      BY <2>1 DEF Compare
    <3> QED
      BY <1>2, <3>1, <3>2, <3>3, <3>4
  <2>2. ASSUME NEW x \in Keys, NEW i \in Keys, Query(c, x, i) PROVE Agree'
    <3>1. Stored(i) /\ Stored(x)
      BY <2>2 DEF Query, Settled
    <3>2. read[c] = <<>> /\ got[c] = <<>>
      BY <2>2 DEF Query, Shape, Held, Holds
    <3>3. UNCHANGED <<cache, vector, read, got>> /\ pair' = [pair EXCEPT ![c] = <<x, i>>]
      BY <2>2 DEF Query, vars, disk
    <3> QED
      BY <1>2, <3>1, <3>2, <3>3
  <2>3. CASE \/ \E i \in Keys : Take(c, i) \/ StoreToBolt(c, i)
             \/ ReadTotal(c) \/ InsertFirst(c) \/ Link(c) \/ Finish(c)
    BY <1>1, <2>3 DEF Take, StoreToBolt, ReadTotal, InsertFirst, Link, Finish, vars, disk
  <2> QED
    BY <1>3, <2>1, <2>2, <2>3 DEF Work
<1>4. ASSUME NEW c \in Callers, GetVector(c) PROVE Agree'
  <2>1. pair[c] # <<>> => \A i \in {Wanted(c), pair[c][1], pair[c][2]} :
                            i \in Keys /\ Stored(i)' /\ Fresh(i)' = Fresh(i)
    BY FreshStays, WantedIsKey, PairOfKeys DEF Agree, Shape, FlowType
  <2>2. \A i \in cache : i \in Keys /\ Stored(i)' /\ Fresh(i)' = Fresh(i)
    BY FreshStays DEF Agree, Shape, TypeOK
  <2>3. \A d \in Callers : read[d] # <<>> \/ got[d] # <<>> => pair[d] # <<>>
    BY DEF Shape, Held, Holds
  <2>4. ASSUME NEW d \in Callers \ {c}, pair[d] # <<>>
        PROVE  \A i \in {pair[d][1], pair[d][2], Wanted(d)} : Stored(i)' /\ Fresh(i)' = Fresh(i)
    BY <2>4, FreshStays, WantedIsKey, PairOfKeys DEF Agree, Shape, FlowType
  <2>5. ASSUME NEW v, v = Fresh(Wanted(c)), Return(c, v), pair[c] # <<>>,
               UNCHANGED <<vector, cache>>, read'[c] = <<>>,
               \A d \in Callers \ {c} : read'[d] = read[d]
        PROVE  Agree'
    <3>1. \A d \in Callers \ {c} : pair'[d] = pair[d] /\ got'[d] = got[d] /\ Wanted(d)' = Wanted(d)
      BY <2>5 DEF Return, Shape, FlowType, Wanted
    <3>2. \/ pair'[c] = <<>> /\ got'[c] = <<>>
          \/ pair'[c] = pair[c] /\ got'[c] = <<Fresh(pair[c][1])>>
      BY <2>5, WantedIsKey DEF Return, Shape, FlowType
    <3> QED
      BY <2>1, <2>2, <2>3, <2>4, <2>5, <3>1, <3>2 DEF Agree
  <2>6. CASE Hit(c)
    BY <2>5, <2>6, Returned DEF Hit, vars, disk, Shape, Held, Holds
  <2>7. ASSUME NEW i \in Keys, Read(c, i) PROVE Agree'
    <3>1. Wanted(c) = i /\ pair[c] # <<>>
      BY <2>7 DEF Read, Shape, Held, Holds
    <3>2. read'[c] = <<Fresh(i)>> /\ \A d \in Callers \ {c} : read'[d] = read[d]
      BY <2>7 DEF Read, Shape, FlowType, Fresh
    <3>3. UNCHANGED <<pair, got, vector, cache>> /\ \A d \in Callers : Wanted(d)' = Wanted(d)
      BY <2>7 DEF Read, flow, vars, Wanted
    <3> QED
      BY <2>1, <2>2, <2>3, <2>4, <3>1, <3>2, <3>3 DEF Agree
  <2>8. ASSUME NEW i \in Keys, StoreVector(c, i) PROVE Agree'
    <3>1. Wanted(c) = i /\ pair[c] # <<>> /\ read[c] # <<>>
      BY <2>8 DEF StoreVector, Store, Shape, Held, Holds
    <3>2. vector'[i] = Fresh(i) /\ \A j \in Keys \ {i} : vector'[j] = vector[j]
      BY <2>8, <3>1 DEF StoreVector, Shape, FlowType, Agree
    <3>3. /\ UNCHANGED <<pair, got, read>> /\ \A d \in Callers : Wanted(d)' = Wanted(d)
          /\ cache' = cache \cup {i}
      BY <2>8 DEF StoreVector, Store, flow, Wanted
    <3> QED
      BY <2>1, <2>2, <2>3, <2>4, <3>1, <3>2, <3>3 DEF Agree
  <2>9. CASE ReturnRead(c)
    BY <2>5, <2>9, Returned DEF ReturnRead, Increment, Shape, FlowType
  <2>10. CASE /\ UNCHANGED <<disk, flow, panicked>>
              /\ \/ pair[c] # <<>> /\ Miss(c, Wanted(c))
                 \/ read[c] # <<>> /\ Check(c)
                 \/ \E k \in Keys : Visit(c, k)
                 \/ RangeOver(c) \/ Delete(c) \/ Decrement(c)
    BY <1>1, <2>10 DEF Miss, Check, Visit, RangeOver, Delete, Decrement, disk, flow
  <2> QED
    BY <1>4, <2>6, <2>7, <2>8, <2>9, <2>10 DEF GetVector
<1>5. CASE UNCHANGED all
  BY <1>1, <1>5 DEF all, vars, disk, flow
<1> QED
  BY <1>3, <1>4, <1>5 DEF VectorsNext, VectorsOver, all

-------------------------------------------------------------------------------
(* A distance that makes a worker panic is between a vertex without a vector *)
(* and one with a vector.                                                    *)
LEMMA PanicStep ==
  ASSUME Shape, Agree, NEW c \in Callers, GetVector(c), at[c] = "insert"
  PROVE  (near'[c] # near[c] \/ panicked' # panicked \/ pair'[c] # pair[c]) =>
           /\ pair[c] # <<>> /\ near'[c] /\ pair'[c] = <<>>
           /\ (panicked' <=> ~(Bare(pair[c][1]) <=> Bare(pair[c][2])))
<1>1. ASSUME NEW v, v = Fresh(Wanted(c)), Return(c, v), pair[c] # <<>>
      PROVE  \/ UNCHANGED <<near, panicked, pair>>
             \/ /\ near'[c] /\ pair'[c] = <<>>
                /\ (panicked' <=> ~(Bare(pair[c][1]) <=> Bare(pair[c][2])))
  <2>1. CASE got[c] = <<>>
    BY <1>1, <2>1 DEF Return
  <2>2. CASE got[c] # <<>>
    <3>1. got[c][1] = Fresh(pair[c][1]) /\ v = Fresh(pair[c][2])
      BY <1>1, <2>2, WantedIsKey DEF Agree
    <3>2. \A i \in Keys : Fresh(i) = "empty" <=> Bare(i)
      BY DEF Fresh, vectorFromBytes, Bare, Shape, FlowType, Bytes
    <3>3. pair[c][1] \in Keys /\ pair[c][2] \in Keys
      BY <1>1, PairOfKeys DEF Shape, FlowType
    <3>4. near'[c] /\ pair'[c] = <<>> /\ (panicked' <=> ~SameLength(got[c][1], v))
      BY <1>1, <2>2 DEF Return, Shape, FlowType
    <3> QED
      BY <3>1, <3>2, <3>3, <3>4 DEF SameLength, Bare
  <2> QED
    BY <2>1, <2>2
<1>2. CASE Hit(c)
  BY <1>1, <1>2, Returned DEF Hit
<1>3. CASE ReturnRead(c)
  BY <1>1, <1>3, Returned DEF ReturnRead
<1>4. CASE UNCHANGED <<near, panicked, pair>>
  BY <1>4
<1> QED
  BY <1>2, <1>3, <1>4 DEF GetVector, Read, StoreVector, flow

(* Only the computation of a distance panics. *)
LEMMA PanicsWhere ==
  ASSUME [VectorsNext]_all
  PROVE  \/ panicked' = panicked \/ panicked' = FALSE
         \/ \E c \in Callers : GetVector(c) /\ at[c] = "insert"
<1>1. ASSUME NEW c \in Callers, Work(c) PROVE panicked' = panicked
  BY <1>1 DEF Work, Take, StoreToBolt, ReadTotal, InsertFirst, Compare, Link, Finish, Query
<1>2. ASSUME NEW c \in Callers, GetVector(c)
      PROVE  panicked' = panicked \/ panicked' = FALSE \/ at[c] = "insert"
  BY <1>2 DEF GetVector, Hit, Read, StoreVector, ReturnRead, Return
<1> QED
  BY <1>1, <1>2 DEF VectorsNext, VectorsOver, all

(* A panic is explained when it happens, and nothing happens after it. *)
LEMMA PanicInvariance ==
  ASSUME Shape, Shape', Settled, Settled', ~early => Agree, PanicExplained, [VectorsNext]_all
  PROVE  PanicExplained'
<1> SUFFICES ASSUME panicked', ~early' PROVE \E i \in failed' : db'[i] = "none"
  BY DEF PanicExplained
<1>0. ~early /\ Agree
  BY StoredStays
<1>1. CASE panicked
  <2>1. UNCHANGED all
    BY <1>1 DEF VectorsNext, VectorsOver, all
  <2> QED
    BY <1>0, <1>1, <2>1 DEF PanicExplained, all, disk, flow
<1>2. CASE ~panicked
  <2>1. PICK c \in Callers : GetVector(c) /\ at[c] = "insert"
    BY <1>2, PanicsWhere
  <2>2. pair[c] # <<>> /\ ~(Bare(pair[c][1]) <=> Bare(pair[c][2]))
    <3>1. panicked' # panicked
      BY <1>2
    <3>2. pair[c] # <<>> /\ (panicked' <=> ~(Bare(pair[c][1]) <=> Bare(pair[c][2])))
      BY <1>0, <2>1, <3>1, PanicStep
    <3> QED
      BY <3>2
  <2>3. PICK i \in {pair[c][1], pair[c][2]} : Bare(i)
    BY <2>2
  <2>4. i \in Keys /\ Stored(i)
    BY <1>0, <2>2, PairOfKeys DEF Agree, Shape, FlowType
  <2>5. Stored(i)' /\ db'[i] = "none"
    BY <2>3, <2>4, StoredStays DEF Bare
  <2> QED
    BY <2>4, <2>5 DEF Settled, Bare
<1> QED
  BY <1>1, <1>2

-------------------------------------------------------------------------------
(* The ids a worker computes a distance of: its own and one that was found.  *)
Compares(c) ==
  (at[c] = "insert" /\ pair[c] # <<>>) =>
    \E i \in job[c], x \in found : pair[c] = <<i, x>> \/ pair[c] = <<x, i>>

(* A worker that has computed one agrees with all that was found.            *)
Alike ==
  /\ \A i, j \in found : Bare(i) = Bare(j)
  /\ \A c \in Callers : near[c] => \A i \in job[c], x \in found : Bare(i) = Bare(x)
  /\ \A c \in Callers : Compares(c)

Calm == ~early /\ firsts <= 1 /\ ~panicked

(* A vertex is linked only after it was found to be like the others. *)
LEMMA AlikeInvariance ==
  ASSUME Shape, Shape', Settled, ~early => Agree, Calm => Alike, [VectorsNext]_all, Calm'
  PROVE  Alike'
<1> USE DEF Shape, FlowType
<1>0. /\ ~early /\ firsts <= 1 /\ Agree
      /\ ~panicked => Alike
  <2>1. ~early /\ Agree
    BY StoredStays DEF Calm
  <2>2. firsts <= firsts'
    BY DEF VectorsNext, VectorsOver, Work, GetVector, Take, StoreToBolt, ReadTotal,
           InsertFirst, Compare, Link, Finish, Query, Hit, Read, StoreVector, ReturnRead,
           all, flow
  <2> QED
    BY <2>1, <2>2 DEF Calm
<1>1. CASE UNCHANGED all
  BY <1>0, <1>1 DEF all, disk, flow, Alike, Compares, Calm, Bare
<1>2. ASSUME ~panicked, NEW c \in Callers, Work(c) \/ GetVector(c) PROVE Alike'
  <2> USE <1>0, <1>2
  <2>0. /\ \A i \in found : i \in Keys /\ Bare(i)' = Bare(i)
        /\ \A d \in Callers : near[d] => \A i \in job[d] : i \in Keys /\ Bare(i)' = Bare(i)
    BY JobStored, StoredStays DEF Settled, Held, Holds, Bare
  <2>1. ASSUME found' = found, \A d \in Callers : near'[d] => near[d] /\ job'[d] = job[d],
               \A d \in Callers : at'[d] = "insert" /\ pair'[d] # <<>> =>
                                    at[d] = "insert" /\ pair'[d] = pair[d] /\ job'[d] = job[d]
        PROVE  Alike'
    BY <2>0, <2>1 DEF Alike, Compares
  <2>2. ASSUME NEW i \in Keys, Take(c, i) \/ StoreToBolt(c, i) PROVE Alike'
    BY <2>1, <2>2 DEF Take, StoreToBolt, Held, Holds
  <2>3. CASE ReadTotal(c)
    BY <2>1, <2>3 DEF ReadTotal, Held, Holds
  <2>4. CASE InsertFirst(c)
    <3>1. firsts = 0 /\ found = {}
      BY <2>4 DEF InsertFirst, Calm, Settled
    <3>2. \A d \in Callers : at[d] # "insert" /\ ~near[d]
      BY <3>1 DEF Settled, Held, Holds
    <3>3. \A d \in Callers : at'[d] # "insert" /\ ~near'[d]
      BY <2>4, <3>2 DEF InsertFirst
    <3>4. PICK i \in Keys : job[c] = {i}
      BY <2>4 DEF InsertFirst, Held, HasJob
    <3> QED
      BY <2>4, <3>3, <3>4 DEF InsertFirst, Alike, Compares
  <2>5. CASE Link(c)
    <3>1. PICK i \in Keys : job[c] = {i}
      BY <2>5 DEF Link, Held, HasJob
    <3>2. PICK x \in found : TRUE
      BY <2>5 DEF Link, Settled
    <3>3. near[c] /\ Bare(i) = Bare(x) /\ found' = found \cup {i} /\ Bare(i)' = Bare(i)
      BY <2>0, <2>5, <3>1, <3>2 DEF Link, Alike
    <3>4. UNCHANGED <<near, job, at, pair>>
      BY <2>5 DEF Link
    <3> QED
      BY <2>0, <3>2, <3>3, <3>4 DEF Alike, Compares
  <2>6. CASE Finish(c)
    BY <2>1, <2>6 DEF Finish, Held, Holds
  <2>7. ASSUME NEW x \in Keys, NEW i \in Keys, Compare(c, i, x) PROVE Alike'
    <3>1. /\ UNCHANGED <<found, near, job, at>> /\ job[c] = {i} /\ x \in found
          /\ pair'[c] = <<i, x>> \/ pair'[c] = <<x, i>>
          /\ \A d \in Callers \ {c} : pair'[d] = pair[d]
      BY <2>7 DEF Compare
    <3>2. Compares(c)'
      BY <3>1 DEF Compares
    <3>3. \A d \in Callers \ {c} : Compares(d)'
      BY <3>1 DEF Alike, Compares
    <3>4. \A d, e \in found' : Bare(d)' = Bare(e)'
      BY <2>0, <3>1 DEF Alike
    <3>5. \A d \in Callers : near'[d] => \A j \in job'[d], y \in found' : Bare(j)' = Bare(y)'
      BY <2>0, <3>1 DEF Alike
    <3> QED
      BY <3>2, <3>3, <3>4, <3>5 DEF Alike
  <2>8. ASSUME NEW x \in Keys, NEW i \in Keys, Query(c, x, i) PROVE Alike'
    BY <2>1, <2>8 DEF Query, Held, Holds
  <2>9. CASE GetVector(c)
    <3>1. /\ UNCHANGED <<found, job>>
          /\ \A d \in Callers \ {c} : at'[d] = at[d] /\ near'[d] = near[d] /\ pair'[d] = pair[d]
          /\ at[c] = "insert" <=> at'[c] = "insert"
          /\ at[c] # "insert" => near'[c] = near[c]
      BY <2>9 DEF GetVector, Hit, Read, StoreVector, ReturnRead, Return, flow
    <3>2. CASE at[c] = "insert" /\ (near'[c] # near[c] \/ pair'[c] # pair[c])
      <4>1. pair[c] # <<>> /\ pair'[c] = <<>> /\ (Bare(pair[c][1]) <=> Bare(pair[c][2]))
        BY <2>9, <3>2, PanicStep DEF Calm, Bare
      <4>2. PICK i \in job[c], x \in found : pair[c] = <<i, x>> \/ pair[c] = <<x, i>>
        BY <3>2, <4>1 DEF Alike, Compares
      <4>3. Bare(i) <=> Bare(x)
        <5>1. i \in Keys /\ x \in Keys
          BY <4>2
        <5>2. CASE pair[c] = <<i, x>>
          BY <4>1, <5>1, <5>2, PairOfKeys
        <5>3. CASE pair[c] = <<x, i>>
          BY <4>1, <5>1, <5>3, PairOfKeys
        <5> QED
          BY <4>2, <5>2, <5>3
      <4>4. job[c] = {i} /\ i \in Keys /\ Bare(i)' = Bare(i)
        BY <3>2, <4>2, JobStored, StoredStays DEF Held, HasJob, Bare
      <4>5. \A j \in job[c], y \in found : Bare(j)' = Bare(y)'
        BY <2>0, <4>2, <4>3, <4>4 DEF Alike, Bare
      <4> QED
        BY <2>0, <3>1, <4>1, <4>5 DEF Alike, Compares
    <3>3. CASE ~(at[c] = "insert" /\ (near'[c] # near[c] \/ pair'[c] # pair[c]))
      BY <2>1, <3>1, <3>3
    <3> QED
      BY <3>2, <3>3
  <2> QED
    BY <1>2, <2>2, <2>3, <2>4, <2>5, <2>6, <2>7, <2>8, <2>9 DEF Work
<1> QED
  BY <1>1, <1>2 DEF VectorsNext, VectorsOver, all

-------------------------------------------------------------------------------
VectorsInv ==
  /\ Settled /\ (~early => Agree)
  /\ PanicExplained /\ (Calm => Alike)

(* The parts together are invariant. *)
LEMMA VectorsInvariance == VectorsSpec => []VectorsInv
<1>1. VectorsInit => VectorsInv
  BY DEF VectorsInit, Init, VectorsInv, Settled, Stored, Agree, PanicExplained, Alike, Compares
<1>2. Shape /\ Shape' /\ VectorsInv /\ [VectorsNext]_all => VectorsInv'
  BY SettledInvariance, AgreeInvariance, PanicInvariance, AlikeInvariance DEF VectorsInv
<1> QED
  BY <1>1, <1>2, ShapeInvariance, PTL DEF VectorsSpec, all

(* So the counter follows the map and the map stays small, whoever calls.    *)
COROLLARY CacheIsBounded == VectorsSpec => [](CountExplained /\ SizeBounded)
BY UsesCache, CountIsExplained, SizeIsBounded, PTL

(* What is cached is what bolt has, whatever the workers, purges and         *)
(* requests do at the same time, until a request asks for a vertex too early.*)
THEOREM CacheIsTrue == VectorsSpec => []CacheAgrees
<1>1. Shape /\ VectorsInv => CacheAgrees
  <2> SUFFICES ASSUME Shape, Agree PROVE CacheAgrees
    BY DEF VectorsInv, CacheAgrees
  <2>1. \A c \in Callers, i \in Keys : key[c] = {i} => Wanted(c) = i
    BY DEF Shape, TypeOK, Held, Holds
  <2> QED
    BY <2>1 DEF CacheAgrees, Agree, Fresh
<1> QED
  BY <1>1, ShapeInvariance, VectorsInvariance, PTL

(* Vertices with and without a vector are never in the graph together.       *)
THEOREM NoMixture == VectorsSpec => []AllOrNone
<1>1. VectorsInv => AllOrNone
  BY DEF VectorsInv, AllOrNone, Calm, Alike, Bare
<1> QED
  BY <1>1, VectorsInvariance, PTL

(* Only a vector that could not be stored, or a request that came too early, *)
(* makes the program panic over vectors.                                     *)
THEOREM PanicsAreExplained == VectorsSpec => []PanicExplained
<1>1. VectorsInv => PanicExplained
  BY DEF VectorsInv
<1> QED
  BY <1>1, VectorsInvariance, PTL
================================================================================
