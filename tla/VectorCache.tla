----------------------------- MODULE VectorCache -----------------------------
(****************************************************************************)
(* syncCache: vectors read from the database are kept in a sync.Map, and    *)
(* dropped all at once when a counter says that there are too many.  The    *)
(* map and the counter are each safe to use concurrently, but nothing holds *)
(* them together: workers, replicating goroutines and queries all call get  *)
(* at once.                                                                 *)
(****************************************************************************)
EXTENDS Integers, FiniteSets

CONSTANTS
  Callers, \* the goroutines that compute distances
  Keys,    \* the ids whose vectors they ask for
  maxSize,
  MaxGets  \* bound: how many misses there are

ASSUME CallersAssumption == IsFiniteSet(Callers)
ASSUME KeysAssumption    == IsFiniteSet(Keys)
ASSUME SizeAssumption    == maxSize \in Nat \ {0}
ASSUME BoundAssumption   == MaxGets \in Nat

VARIABLES
  cache,   \* the keys in the sync.Map
  count,
  \* the locals of each caller
  pc,
  key,     \* the argument i, as {i}
  range,   \* the keys the purge has not visited yet
  victim,  \* the key the purge visits, as {k}
  \* history
  misses,  \* how many calls have missed
  doubles, \* how often a key was stored that was there already
  ghosts   \* how often a key was deleted that was gone already

vars == <<cache, count, pc, key, range, victim, misses, doubles, ghosts>>

-------------------------------------------------------------------------------
Init ==
  /\ cache = {} /\ count = 0
  /\ pc = [c \in Callers |-> "idle"]
  /\ key = [c \in Callers |-> {}]
  /\ range = [c \in Callers |-> {}]
  /\ victim = [c \in Callers |-> {}]
  /\ misses = 0 /\ doubles = 0 /\ ghosts = 0

(* Load misses.  (A hit changes nothing.)  The vector is read from disk; an *)
(* error is only printed and what was read is used all the same.            *)
Miss(c, i) ==
  /\ pc[c] = "idle"
  /\ i \notin cache
  /\ misses < MaxGets
  /\ misses' = misses + 1
  /\ key' = [key EXCEPT ![c] = {i}]
  /\ pc' = [pc EXCEPT ![c] = "check"]
  /\ UNCHANGED <<cache, count, range, victim, doubles, ghosts>>

(* Faulty: one more entry than the limit allows. *)
CheckLate(c) ==
  /\ pc[c] = "check"
  /\ IF count > maxSize
     THEN pc' = [pc EXCEPT ![c] = "range"] /\ range' = [range EXCEPT ![c] = cache]
     ELSE pc' = [pc EXCEPT ![c] = "store"] /\ UNCHANGED range
  /\ UNCHANGED <<cache, count, key, victim, misses, doubles, ghosts>>

(* The counter is read; if it has reached the limit, Range begins.  It goes *)
(* through the keys there are at that moment.                               *)
Check(c) ==
  /\ pc[c] = "check"
  /\ IF count >= maxSize
     THEN pc' = [pc EXCEPT ![c] = "range"] /\ range' = [range EXCEPT ![c] = cache]
     ELSE pc' = [pc EXCEPT ![c] = "store"] /\ UNCHANGED range
  /\ UNCHANGED <<cache, count, key, victim, misses, doubles, ghosts>>

(* Range visits a key if its value is there when its turn comes.            *)
Visit(c, k) ==
  /\ pc[c] = "range"
  /\ k \in range[c]
  /\ range' = [range EXCEPT ![c] = @ \ {k}]
  /\ IF k \in cache
     THEN pc' = [pc EXCEPT ![c] = "delete"] /\ victim' = [victim EXCEPT ![c] = {k}]
     ELSE UNCHANGED <<pc, victim>>
  /\ UNCHANGED <<cache, count, key, misses, doubles, ghosts>>

(* Faulty: the call that has purged the cache returns without a vector. *)
RangeOverReturning(c) ==
  /\ pc[c] = "range"
  /\ range[c] = {}
  /\ pc' = [pc EXCEPT ![c] = "idle"]
  /\ UNCHANGED <<cache, count, key, range, victim, misses, doubles, ghosts>>

RangeOver(c) ==
  /\ pc[c] = "range"
  /\ range[c] = {}
  /\ pc' = [pc EXCEPT ![c] = "store"]
  /\ UNCHANGED <<cache, count, key, range, victim, misses, doubles, ghosts>>

(* The callback: another purge may have deleted the key since.              *)
Delete(c) ==
  /\ pc[c] = "delete"
  /\ cache' = cache \ victim[c]
  /\ ghosts' = IF victim[c] \subseteq cache THEN ghosts ELSE ghosts + 1
  /\ pc' = [pc EXCEPT ![c] = "decrement"]
  /\ UNCHANGED <<count, key, range, victim, misses, doubles>>

(* Faulty: what is purged is not counted but the counter is reset. *)
DecrementToZero(c) ==
  /\ pc[c] = "decrement"
  /\ count' = 0
  /\ victim' = [victim EXCEPT ![c] = {}]
  /\ pc' = [pc EXCEPT ![c] = "range"]
  /\ UNCHANGED <<cache, key, range, misses, doubles, ghosts>>

Decrement(c) ==
  /\ pc[c] = "decrement"
  /\ count' = count - 1
  /\ victim' = [victim EXCEPT ![c] = {}]
  /\ pc' = [pc EXCEPT ![c] = "range"]
  /\ UNCHANGED <<cache, key, range, misses, doubles, ghosts>>

(* Another call may have missed the same key and stored it since.           *)
Store(c) ==
  /\ pc[c] = "store"
  /\ cache' = cache \cup key[c]
  /\ doubles' = IF key[c] \subseteq cache THEN doubles + 1 ELSE doubles
  /\ pc' = [pc EXCEPT ![c] = "increment"]
  /\ UNCHANGED <<count, key, range, victim, misses, ghosts>>

Increment(c) ==
  /\ pc[c] = "increment"
  /\ count' = count + 1
  /\ key' = [key EXCEPT ![c] = {}]
  /\ pc' = [pc EXCEPT ![c] = "idle"]
  /\ UNCHANGED <<cache, range, victim, misses, doubles, ghosts>>

Get(c) ==
  \/ \E i \in Keys : Miss(c, i) \/ Visit(c, i)
  \/ Check(c) \/ RangeOver(c) \/ Delete(c) \/ Decrement(c)
  \/ Store(c) \/ Increment(c)

(* Everybody has what it asked for. *)
Over == (\A c \in Callers : pc[c] = "idle") /\ UNCHANGED vars

Next == (\E c \in Callers : Get(c)) \/ Over

Spec == Init /\ [][Next]_vars

-------------------------------------------------------------------------------
At(where) == {c \in Callers : pc[c] = where}

(* The types of the variables, and what a call holds at which step. *)
TypeOK ==
  /\ cache \subseteq Keys
  /\ count \in Int
  /\ pc \in [Callers -> {"idle", "check", "range", "delete", "decrement", "store",
                         "increment"}]
  /\ key \in [Callers -> SUBSET Keys]
  /\ range \in [Callers -> SUBSET Keys]
  /\ victim \in [Callers -> SUBSET Keys]
  /\ \A c \in Callers :
       /\ IF pc[c] = "idle" THEN key[c] = {} ELSE \E i \in Keys : key[c] = {i}
       /\ IF pc[c] \in {"delete", "decrement"} THEN \E k \in Keys : victim[c] = {k}
                                               ELSE victim[c] = {}
  /\ misses \in Nat /\ doubles \in Nat /\ ghosts \in Nat

(* Where the counter and the map part: by what is stored and not yet counted *)
(* or deleted and not yet discounted, which passes, and by keys stored twice *)
(* or deleted twice, which is for good.                                      *)
CountExplained ==
  count = Cardinality(cache) - Cardinality(At("increment"))
          + Cardinality(At("decrement")) + doubles - ghosts

(* The map outgrows its limit by less than one entry for each caller, and by *)
(* one for each deletion that two purges both counted.                       *)
SizeBounded == Cardinality(cache) < maxSize + Cardinality(Callers) + ghosts
================================================================================
