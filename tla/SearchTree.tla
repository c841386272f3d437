------------------------------ MODULE SearchTree ------------------------------
(****************************************************************************)
(* binarySearchTreeGeneric: the unbalanced binary search tree that keeps    *)
(* candidates, results and connections in order of their distance.  One     *)
(* tree belongs to one query, so a distance belongs to each index (dist),   *)
(* and the callers always pass the two together.                            *)
(*                                                                          *)
(* A tree is <<>> (a nil pointer) or <<left, index, right>>.  The methods   *)
(* are pure functions of the tree here; the code changes nodes in place and *)
(* a tree is never shared.                                                  *)
(****************************************************************************)
EXTENDS OrderedSet

CONSTANTS
  Indexes,   \* the indexes that may be inserted
  Distances  \* the distance functions a query may induce on them

ASSUME IndexesAssumption   == IsFiniteSet(Indexes)
ASSUME DistancesAssumption == Distances \subseteq [Indexes -> Nat]

VARIABLES
  root,     \* t.root
  dist,     \* the distance of each index to the vector searched for
  panicked  \* delete has come to a nil node: "trying to delete nil node"

vars == <<root, dist, panicked>>

-------------------------------------------------------------------------------
Nil == <<>>

Left(t) == t[1]
Index(t) == t[2]
Right(t) == t[3]

(* insert: nearer goes left, everything else right; an index met on the way *)
(* is not inserted again.                                                   *)
RECURSIVE Inserted(_, _, _)
(* Faulty: an index as far as the one met goes left. *)
InsertedLeft(t, i, d) ==
  IF t = Nil THEN <<Nil, i, Nil>>
  ELSE IF Index(t) = i THEN t
  ELSE IF d[i] <= d[Index(t)] THEN <<Inserted(Left(t), i, d), Index(t), Right(t)>>
  ELSE <<Left(t), Index(t), Inserted(Right(t), i, d)>>

Inserted(t, i, d) ==
  IF t = Nil THEN <<Nil, i, Nil>>
  ELSE IF Index(t) = i THEN t
  ELSE IF d[i] < d[Index(t)] THEN <<Inserted(Left(t), i, d), Index(t), Right(t)>>
  ELSE <<Left(t), Index(t), Inserted(Right(t), i, d)>>

(* contains: the same way down; so delete comes to a nil node exactly if    *)
(* contains does.                                                           *)
RECURSIVE Contains(_, _, _)
Contains(t, i, d) ==
  /\ t # Nil
  /\ \/ Index(t) = i
     \/ d[i] < d[Index(t)] /\ Contains(Left(t), i, d)
     \/ d[i] >= d[Index(t)] /\ Contains(Right(t), i, d)

RECURSIVE Minimum(_)
Minimum(t) == IF Left(t) = Nil THEN Index(t) ELSE Minimum(Left(t))

RECURSIVE Maximum(_)
Maximum(t) == IF Right(t) = Nil THEN Index(t) ELSE Maximum(Right(t))

(* maxAndParent and the deletion of the replacement it finds, which has no  *)
(* right child and so is replaced by its left one; minAndParent likewise.   *)
RECURSIVE WithoutMaximum(_)
WithoutMaximum(t) ==
  IF Right(t) = Nil THEN Left(t)
  ELSE <<Left(t), Index(t), WithoutMaximum(Right(t))>>

RECURSIVE WithoutMinimum(_)
WithoutMinimum(t) ==
  IF Left(t) = Nil THEN Right(t)
  ELSE <<WithoutMinimum(Left(t)), Index(t), Right(t)>>

(* Faulty: a node with one child takes it along. *)
WithoutRootAndChild(t, isRight) ==
  IF Left(t) = Nil \/ Right(t) = Nil THEN Nil
  ELSE IF isRight THEN <<WithoutMaximum(Left(t)), Maximum(Left(t)), Right(t)>>
  ELSE <<Left(t), Minimum(Right(t)), WithoutMinimum(Right(t))>>

(* Faulty: the replacement is left where it was found as well. *)
WithoutRootCopying(t, isRight) ==
  IF Left(t) = Nil THEN Right(t)
  ELSE IF Right(t) = Nil THEN Left(t)
  ELSE IF isRight THEN <<Left(t), Maximum(Left(t)), Right(t)>>
  ELSE <<Left(t), Minimum(Right(t)), Right(t)>>

(* The node to be deleted is found.  With two children it takes over the    *)
(* index of the farthest of its left subtree if it is a right child itself, *)
(* of the nearest of its right subtree if it is a left child.               *)
WithoutRoot(t, isRight) ==
  IF Left(t) = Nil THEN Right(t)
  ELSE IF Right(t) = Nil THEN Left(t)
  ELSE IF isRight THEN <<WithoutMaximum(Left(t)), Maximum(Left(t)), Right(t)>>
  ELSE <<Left(t), Minimum(Right(t)), WithoutMinimum(Right(t))>>

(* delete; the root hangs at the right of a fake parent. *)
RECURSIVE Deleted(_, _, _, _)
Deleted(t, i, d, isRight) ==
  IF Index(t) = i THEN WithoutRoot(t, isRight)
  ELSE IF d[i] < d[Index(t)]
       THEN <<Deleted(Left(t), i, d, FALSE), Index(t), Right(t)>>
       ELSE <<Left(t), Index(t), Deleted(Right(t), i, d, TRUE)>>

RECURSIVE Flattened(_)
Flattened(t) ==
  IF t = Nil THEN <<>>
  ELSE Flattened(Left(t)) \o <<Index(t)>> \o Flattened(Right(t))

RECURSIVE Length(_)
Length(t) == IF t = Nil THEN 0 ELSE Length(Left(t)) + 1 + Length(Right(t))

-------------------------------------------------------------------------------
Init == root = Nil /\ dist \in Distances /\ panicked = FALSE

Insert(i) ==
  /\ root' = Inserted(root, i, dist)
  /\ UNCHANGED <<dist, panicked>>

Delete(i) ==
  /\ IF Contains(root, i, dist)
     THEN root' = Deleted(root, i, dist, TRUE) /\ UNCHANGED panicked
     ELSE panicked' = TRUE /\ UNCHANGED root
  /\ UNCHANGED dist

(* The deletions of searchLayer: candidates loses its minimum, results its  *)
(* maximum.  Both are asked for while the tree is not empty only.           *)
DeleteMinimum == root # Nil /\ Delete(Minimum(root))
DeleteMaximum == root # Nil /\ Delete(Maximum(root))

Members(t) == {Flattened(t)[n] : n \in 1 .. Len(Flattened(t))}

(* No two indexes are at the same distance. *)
Distinct == \A i, j \in Indexes : i # j => dist[i] # dist[j]

(* searchLayer inserts and deletes as above.  A caller that deletes any     *)
(* member is allowed for where no distances tie: this reaches the deletion  *)
(* of a node with two children.                                             *)
Next ==
  /\ ~panicked
  /\ \/ \E i \in Indexes : Insert(i)
     \/ DeleteMinimum
     \/ DeleteMaximum
     \/ Distinct /\ \E i \in Members(root) : Delete(i)

Spec == Init /\ [][Next]_vars

-------------------------------------------------------------------------------
(* What is in the tree is found on the way that insert, contains and delete  *)
(* go down: nothing is inserted twice, and no deletion of a member panics.   *)
MembersAreFound ==
  ~panicked /\ \A i \in Indexes : Contains(root, i, dist) <=> i \in Members(root)

(* flattenInOrder lists every member once, nearest first, and len counts     *)
(* them: the first k of the list are the k nearest.                          *)
FlattensInOrder ==
  /\ Flattened(root) \in Nearest(Members(root), dist, Cardinality(Members(root)))
  /\ Length(root) = Cardinality(Members(root))

(* The tree is the sorted set its callers take it for.  With the calls of    *)
(* searchLayer this holds even if distances tie; deleting from the middle    *)
(* of the tree, only if they do not.                                         *)
Abstract == INSTANCE SortedSet WITH set <- Members(root)
ImplementsSortedSet == Abstract!Spec
================================================================================
