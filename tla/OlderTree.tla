------------------------------- MODULE OlderTree -------------------------------
(****************************************************************************)
(* binarySearchTree, the tree of the older graph, called in step with the   *)
(* binarySearchTreeGeneric of module SearchTree.  Here the nodes are cells  *)
(* of a heap and a deletion moves pointers in place, as the code does, so   *)
(* that module SearchTree, where trees are values, is checked against it.   *)
(*                                                                          *)
(* The callers pass a vertex with its distance, so that comparing both, as  *)
(* insert and delete do, is comparing the vertices, as contains does.       *)
(****************************************************************************)
EXTENDS SearchTree

VARIABLE heap \* heap[n]: the node at the address n

Null == 0

(* delete makes a fake parent that has t.root at its right, and takes t.root *)
(* back from there: this node stands for both.                               *)
Fake == -1

Unused == [data |-> Null, left |-> Null, right |-> Null]

OlderRoot(h) == h[Fake].right

-------------------------------------------------------------------------------
(* The way insert, contains and delete go down: the node where it ends, nil  *)
(* if i is not met, and its parent.                                          *)
RECURSIVE Walk(_, _, _, _)
Walk(h, n, parent, i) ==
  IF n = Null \/ h[n].data = i THEN [node |-> n, parent |-> parent]
  ELSE IF dist[i] < dist[h[n].data] THEN Walk(h, h[n].left, n, i)
  ELSE Walk(h, h[n].right, n, i)

WalkTo(h, i) == Walk(h, OlderRoot(h), Fake, i)

RECURSIVE Below(_, _)
Below(h, n) ==
  IF n = Null THEN {} ELSE {n} \cup Below(h, h[n].left) \cup Below(h, h[n].right)

(* No pointer into a tree outlives a call, and an address can be any.        *)
(* Between calls the node of the vertex i is at the address i, and what      *)
(* nothing refers to is unused.                                              *)
Settled(h) ==
  LET nodes == Below(h, OlderRoot(h))
      At(n) == IF n \in nodes THEN h[n].data ELSE Null
      Node(n) == [data |-> At(n), left |-> At(h[n].left), right |-> At(h[n].right)]
  IN [a \in DOMAIN h |-> IF a = Fake THEN Node(Fake)
                         ELSE IF \E n \in nodes : h[n].data = a
                         THEN Node(CHOOSE n \in nodes : h[n].data = a)
                         ELSE Unused]

InsertNode(i) ==
  LET at    == WalkTo(heap, i)
      grown == [heap EXCEPT ![i] = [Unused EXCEPT !.data = i]]
  IN heap' = IF at.node # Null THEN heap
             ELSE IF at.parent # Fake /\ dist[i] < dist[heap[at.parent].data]
             THEN [grown EXCEPT ![at.parent].left = i]
             ELSE [grown EXCEPT ![at.parent].right = i]

OlderContains(i) == WalkTo(heap, i).node # Null

RECURSIVE MaxAndParent(_, _, _)
MaxAndParent(h, n, parent) ==
  IF h[n].right = Null THEN [node |-> n, parent |-> parent]
  ELSE MaxAndParent(h, h[n].right, n)

RECURSIVE MinAndParent(_, _, _)
MinAndParent(h, n, parent) ==
  IF h[n].left = Null THEN [node |-> n, parent |-> parent]
  ELSE MinAndParent(h, h[n].left, n)

(* Faulty: it is always the right child that is replaced. *)
ReplaceNodeRight(h, n, parent, replacement) ==
  [h EXCEPT ![parent].right = replacement]

ReplaceNode(h, n, parent, replacement) ==
  IF n = h[parent].left
  THEN [h EXCEPT ![parent].left = replacement]
  ELSE [h EXCEPT ![parent].right = replacement]

(* The node to be deleted is found: nil or its only child takes its place.   *)
(* One with two children takes over the data of the farthest node below its  *)
(* left or of the nearest below its right child, and that one is deleted.    *)
(* Which of them depends on the side of its parent it is at, told by what    *)
(* the node at the parent's right holds.                                     *)
RECURSIVE Removed(_, _, _)
Removed(h, n, parent) ==
  LET isRight == h[parent].right # Null /\ h[h[parent].right].data = h[n].data
      replacement == IF isRight THEN MaxAndParent(h, h[n].left, n)
                     ELSE MinAndParent(h, h[n].right, n)
  IN IF h[n].left = Null THEN ReplaceNode(h, n, parent, h[n].right)
     ELSE IF h[n].right = Null THEN ReplaceNode(h, n, parent, h[n].left)
     ELSE Removed([h EXCEPT ![n].data = h[replacement.node].data],
                  replacement.node, replacement.parent)

(* Deleting what is not met comes to a nil node and panics, which Delete of *)
(* module SearchTree says.                                                  *)
DeleteNode(i) ==
  LET at == WalkTo(heap, i) IN
  heap' = IF at.node = Null THEN heap
          ELSE Settled(Removed(heap, at.node, at.parent))

RECURSIVE FlattenedNodes(_, _)
FlattenedNodes(h, n) ==
  IF n = Null THEN <<>>
  ELSE FlattenedNodes(h, h[n].left) \o <<h[n].data>> \o FlattenedNodes(h, h[n].right)

-------------------------------------------------------------------------------
OlderInit == Init /\ heap = [n \in {Fake} \cup Indexes |-> Unused]

(* Both trees are called alike.  The older one has no maximum: the last of   *)
(* the flattened nodes is that.                                              *)
OlderNext ==
  LET flattened == FlattenedNodes(heap, OlderRoot(heap)) IN
  /\ ~panicked
  /\ \/ \E i \in Indexes : Insert(i) /\ InsertNode(i)
     \/ DeleteMinimum /\ DeleteNode(heap[MinAndParent(heap, OlderRoot(heap), Fake).node].data)
     \/ DeleteMaximum /\ DeleteNode(flattened[Len(flattened)])
     \/ Distinct /\ \E i \in Members(root) : Delete(i) /\ DeleteNode(i)

OlderSpec == OlderInit /\ [][OlderNext]_<<vars, heap>>

-------------------------------------------------------------------------------
RECURSIVE Shape(_, _)
Shape(h, n) ==
  IF n = Null THEN Nil ELSE <<Shape(h, h[n].left), h[n].data, Shape(h, h[n].right)>>

(* The tree whose pointers are moved in place is, after every sequence of    *)
(* calls, the same tree: no pointer of a node that was taken out or of one   *)
(* that took over another's data is left behind, and the same are found.     *)
SameTree ==
  /\ Shape(heap, OlderRoot(heap)) = root
  /\ \A i \in Indexes : OlderContains(i) <=> Contains(root, i, dist)
================================================================================
