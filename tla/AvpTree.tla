-------------------------------- MODULE AvpTree --------------------------------
(***********************************************************************************)
(* The AVP trees of a scenario (web/src/pages/scenarios/tabs/avpTree.ts).          *)
(* A tree is a function from the paths of its nodes to the nodes; a path           *)
(* is the sequence of child positions from the top, counted from 1.  An            *)
(* operation of the code copies the tree and splices arrays; here it says          *)
(* where each path goes.                                                           *)
(***********************************************************************************)
EXTENDS Naturals, Sequences, FiniteSets

Parent(p) == SubSeq(p, 1, Len(p) - 1)
Pos(p) == p[Len(p)]
At(p, i) == [p EXCEPT ![Len(p)] = i]

Under(p, q) == Len(q) >= Len(p) /\ SubSeq(q, 1, Len(p)) = p

Children(tree, p) == {q \in DOMAIN tree : q # <<>> /\ Parent(q) = p}
NumberOfChildren(tree, p) == Cardinality(Children(tree, p))

getNodeAt(tree, p) == tree[p]

(* Where q goes when the node at p is spliced out of its siblings, and when        *)
(* a node is spliced in at p.                                                      *)
(* Faulty: the siblings after it stay where they are.                              *)
ClosedNever(p, q) == q

Closed(p, q) ==
  IF Len(q) >= Len(p) /\ SubSeq(q, 1, Len(p) - 1) = Parent(p) /\ q[Len(p)] > Pos(p)
    THEN [q EXCEPT ![Len(p)] = @ - 1] ELSE q

(* Faulty: the node that is there is overwritten.                                  *)
OpenedNever(p, q) == q

Opened(p, q) ==
  IF Len(q) >= Len(p) /\ SubSeq(q, 1, Len(p) - 1) = Parent(p) /\ q[Len(p)] >= Pos(p)
    THEN [q EXCEPT ![Len(p)] = @ + 1] ELSE q

(* The node at p, with what is under it, goes to "to" in the tree that is          *)
(* left without it.                                                                *)
Moved(p, to, q) ==
  IF Under(p, q) THEN to \o SubSeq(q, Len(p) + 1, Len(q)) ELSE Opened(to, Closed(p, q))

Replant(tree, p, to) ==
  [q \in {Moved(p, to, r) : r \in DOMAIN tree} |->
     tree[CHOOSE r \in DOMAIN tree : Moved(p, to, r) = q]]

setNodeAt(tree, p, node) == [tree EXCEPT ![p] = node]

removeNodeAt(tree, p) ==
  LET left == {q \in DOMAIN tree : ~Under(p, q)}
  IN [q \in {Closed(p, r) : r \in left} |-> tree[CHOOSE r \in left : Closed(p, r) = q]]

(* A new last child of p; the top of the tree has the empty path.                  *)
addChildAt(tree, p, child) ==
  LET q == Append(p, NumberOfChildren(tree, p) + 1)
  IN [r \in DOMAIN tree \cup {q} |-> IF r = q THEN child ELSE tree[r]]

-----------------------------------------------------------------------------
(* Moving a node.  The children of a locked group stay as they are.                *)

parentLocked(tree, p) == Len(p) >= 2 /\ tree[Parent(p)].locked

canMoveUp(tree, p) == Pos(p) > 1 /\ ~parentLocked(tree, p)

canMoveDown(tree, p) ==
  Pos(p) < NumberOfChildren(tree, Parent(p)) /\ ~parentLocked(tree, p)

canIndent(tree, p) ==
  /\ Pos(p) > 1 /\ ~parentLocked(tree, p)
  /\ LET prev == tree[At(p, Pos(p) - 1)] IN prev.group /\ ~prev.locked

canOutdent(tree, p) == Len(p) >= 2 /\ ~parentLocked(tree, p)

(* Where the node goes, in the tree that is left without it.                       *)
moveUp(tree, p) == At(p, Pos(p) - 1)

moveDown(tree, p) == At(p, Pos(p) + 1)

indent(tree, p) ==
  LET prev == At(p, Pos(p) - 1) IN Append(prev, NumberOfChildren(tree, prev) + 1)

outdent(tree, p) == At(Parent(p), Pos(Parent(p)) + 1)

-----------------------------------------------------------------------------
(* Every child has its parent, a group, and its elder siblings.                    *)
WellFormed(tree) ==
  \A p \in DOMAIN tree :
    /\ Len(p) > 1 => Parent(p) \in DOMAIN tree /\ tree[Parent(p)].group
    /\ Pos(p) > 1 => At(p, Pos(p) - 1) \in DOMAIN tree

(* How often a node occurs.                                                        *)
Count(tree, node) == Cardinality({p \in DOMAIN tree : tree[p] = node})
=============================================================================
