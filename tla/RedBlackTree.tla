----------------------------- MODULE RedBlackTree -----------------------------
(***************************************************************************)
(* RBTree.cpp: a binary search tree whose nodes are red or black, with     *)
(* links to the parents.  A node is named by the value it holds when a     *)
(* call begins; names stand for addresses, so that they may be given anew  *)
(* after each call.                                                        *)
(***************************************************************************)
EXTENDS Integers, Sequences, FiniteSets, TLC

CONSTANTS Data,     \* the values inserted
          NULL

VARIABLES kind, tree,
          call      \* the call that came last: [op, at, values, answer]

RedBlackKinds == {"RBTree.cpp"}
Nothing == <<>>

\* A tree is its root and what is at each node in use.
NoTree == [root |-> NULL, node |-> <<>>]
Node(n) == [data |-> n, color |-> "RED", left |-> NULL, right |-> NULL, parent |-> NULL]
Other(side) == IF side = "left" THEN "right" ELSE "left"

getColor(t, n) == IF n = NULL THEN "BLACK" ELSE t.node[n].color
setColor(t, n, c) == IF n = NULL THEN t ELSE [t EXCEPT !.node[n].color = c]

\* What points to n from above, the parent's link or the root, points to m.
Replaced(t, n, m) ==
    LET p == t.node[n].parent
    IN  CASE p = NULL -> [t EXCEPT !.root = m]
          [] p # NULL /\ t.node[p].left = n -> [t EXCEPT !.node[p].left = m]
          [] OTHER -> [t EXCEPT !.node[p].right = m]

\* n goes down on one side, its child of the other side takes its place, and the
\* grandchild between them changes its parent.
Rotated(t, n, side) ==
    LET up == t.node[n][Other(side)]
        inner == t.node[up][side]
        u == Replaced(t, n, up)
        v == IF inner = NULL THEN u ELSE [u EXCEPT !.node[inner].parent = n]
    IN  [v EXCEPT !.node[n][Other(side)] = inner, !.node[n].parent = up,
                  !.node[up][side] = n, !.node[up].parent = t.node[n].parent]
rotateLeft(t, n) == Rotated(t, n, "left")
rotateRight(t, n) == Rotated(t, n, "right")
rotate(t, n, side) == IF side = "left" THEN rotateLeft(t, n) ELSE rotateRight(t, n)
-----------------------------------------------------------------------------
\* Below node `at` the new node n hangs where the search for it ends.
RECURSIVE BSTInsert(_, _, _)
BSTInsert(t, at, n) ==
    LET side == IF n < t.node[at].data THEN "left" ELSE "right"
    IN  IF t.node[at][side] = NULL
        THEN [t EXCEPT !.node[at][side] = n, !.node[n].parent = at]
        ELSE BSTInsert(t, t.node[at][side], n)

RECURSIVE Below(_, _)
Below(t, n) == IF n = NULL THEN {} ELSE {n} \cup Below(t, t.node[n].left) \cup Below(t, t.node[n].right)
RECURSIVE InOrder(_, _)
InOrder(t, n) == IF n = NULL THEN <<>>
                 ELSE InOrder(t, t.node[n].left) \o <<t.node[n].data>> \o InOrder(t, t.node[n].right)

\* A red node with a red parent: a red uncle passes the blame to the grandparent;
\* otherwise one rotation or two, and the colours of parent and grandparent change
\* places.
RECURSIVE fixViolation(_, _)
fixViolation(t, n) ==
    IF n = t.root \/ t.node[n].color = "BLACK" \/ t.node[t.node[n].parent].color = "BLACK"
    THEN [t EXCEPT !.node[t.root].color = "BLACK"]
    ELSE LET parent == t.node[n].parent
             grandparent == t.node[parent].parent
             side == IF parent = t.node[grandparent].left THEN "left" ELSE "right"
             uncle == t.node[grandparent][Other(side)]
             bent == n = t.node[parent][Other(side)]
             below == IF bent THEN parent ELSE n
             above == IF bent THEN n ELSE parent
             straight == IF bent THEN rotate(t, parent, side) ELSE t
         IN  IF getColor(t, uncle) = "RED"
             THEN fixViolation([t EXCEPT !.node[grandparent].color = "RED",
                                         !.node[parent].color = "BLACK",
                                         !.node[uncle].color = "BLACK"], grandparent)
             ELSE LET u == rotate(straight, grandparent, Other(side))
                  IN  fixViolation([u EXCEPT !.node[above].color = u.node[grandparent].color,
                                             !.node[grandparent].color = u.node[above].color], below)
-----------------------------------------------------------------------------
RECURSIVE minValueNode(_, _)
minValueNode(t, n) == IF t.node[n].left = NULL THEN n ELSE minValueNode(t, t.node[n].left)

\* The node to take out for value d, and the tree it is to be taken out of: a node
\* with two children gets the value of its successor, which goes in its place.
RECURSIVE deleteBST(_, _, _)
deleteBST(t, n, d) ==
    CASE n = NULL -> <<t, NULL>>
      [] n # NULL /\ d < t.node[n].data -> deleteBST(t, t.node[n].left, d)
      [] n # NULL /\ d > t.node[n].data -> deleteBST(t, t.node[n].right, d)
      [] OTHER ->
             IF t.node[n].left = NULL \/ t.node[n].right = NULL THEN <<t, n>>
             ELSE LET d2 == t.node[minValueNode(t, t.node[n].right)].data
                  IN  deleteBST([t EXCEPT !.node[n].data = d2], t.node[n].right, d2)

\* Where the loop of fixDeleteRBTree comes to from node n, and the tree then; a
\* black sibling with black children moves the loop up to the parent.
RECURSIVE Lifted(_, _)
Lifted(t, n) ==
    IF n = t.root THEN <<t, n>>
    ELSE LET parent == t.node[n].parent
             side == IF n = t.node[parent].left THEN "left" ELSE "right"
             first == t.node[parent][Other(side)]
             u == IF getColor(t, first) = "BLACK" THEN t
                  ELSE rotate(setColor(setColor(t, first, "BLACK"), parent, "RED"), parent, side)
             sibling == u.node[parent][Other(side)]
             near == u.node[sibling][side]
             far == u.node[sibling][Other(side)]
             v == IF getColor(u, far) = "RED" THEN u
                  ELSE rotate(setColor(setColor(u, near, "BLACK"), sibling, "RED"), sibling, Other(side))
             nephew == v.node[parent][Other(side)]
             w == setColor(setColor(setColor(v, nephew, getColor(v, parent)), parent, "BLACK"),
                           v.node[nephew][Other(side)], "BLACK")
         IN  CASE sibling = NULL -> <<u, NULL>>
               [] sibling # NULL /\ getColor(u, near) = "BLACK" /\ getColor(u, far) = "BLACK" ->
                      LET x == setColor(u, sibling, "RED")
                      IN  IF getColor(x, parent) = "BLACK" THEN Lifted(x, parent) ELSE <<x, parent>>
               [] OTHER -> <<rotate(w, parent, side), n>>

\* A red node, or one with a red child, whose place the child takes.
HasRed(t, n) == \E m \in {n, t.node[n].left, t.node[n].right} : getColor(t, m) = "RED"
\* The mutation leaves the child red.
SplicedKeepsRed(t, n) ==
    LET child == IF t.node[n].left # NULL THEN t.node[n].left ELSE t.node[n].right
        u == Replaced(t, n, child)
    IN  IF child = NULL THEN u ELSE [u EXCEPT !.node[child].parent = t.node[n].parent]
Spliced(t, n) ==
    LET child == IF t.node[n].left # NULL THEN t.node[n].left ELSE t.node[n].right
        u == Replaced(t, n, child)
    IN  IF child = NULL THEN u
        ELSE [u EXCEPT !.node[child].parent = t.node[n].parent, !.node[child].color = "BLACK"]

\* The node that the loop came to is unlinked, with what is below it.
Unlinked(t, n) == LET u == Replaced(t, n, NULL) IN setColor(u, u.root, "BLACK")

\* What fixDeleteRBTree makes of the tree, and whether it goes through a null pointer.
fixDeleteRBTree(t, n) ==
    CASE n = t.root -> <<[t EXCEPT !.root = NULL], FALSE>>
      [] n # t.root /\ HasRed(t, n) -> <<Spliced(t, n), FALSE>>
      [] OTHER -> LET l == Lifted(t, n)
                  IN  IF l[2] \in {NULL, l[1].root} THEN <<t, TRUE>>
                      ELSE <<Unlinked(l[1], l[2]), FALSE>>
-----------------------------------------------------------------------------
\* The nodes that are left, each named by the value it now holds.
Renamed(t) ==
    LET N == Below(t, t.root)
        name(n) == IF n = NULL THEN NULL ELSE t.node[n].data
        at(d) == CHOOSE n \in N : t.node[n].data = d
    IN  [root |-> name(t.root),
         node |-> [d \in {name(n) : n \in N} |->
                     LET old == t.node[at(d)]
                     IN  [old EXCEPT !.left = name(@), !.right = name(@), !.parent = name(@)]]]

Did(op, d, r, t) == /\ tree' = Renamed(t)
                    /\ call' = [op |-> op, at |-> 0, values |-> <<d>>, answer |-> r]
                    /\ UNCHANGED kind
Crashes == /\ kind' = "crashed" /\ call' = [call EXCEPT !.op = "crash"]
           /\ UNCHANGED tree

\* A value that is there already is not linked in, and fixViolation looks for the
\* colour of its parent.
insert(d) ==
    LET t == [tree EXCEPT !.node = (d :> Node(d)) @@ @]
    IN  CASE d \in DOMAIN tree.node -> Crashes
          [] d \notin DOMAIN tree.node /\ tree.root = NULL ->
                 Did("add", d, Nothing, fixViolation([t EXCEPT !.root = d], d))
          [] OTHER -> Did("add", d, Nothing, fixViolation(BSTInsert(t, tree.root, d), d))

\* A deletion keeps to the node it was asked for when this one is red or has a red
\* child; the other deletions may take more out.
deleteNode(d) ==
    LET found == deleteBST(tree, tree.root, d)
        t == found[1]
        n == found[2]
        fixed == fixDeleteRBTree(t, n)
    IN  CASE n = NULL -> Did("discard", d, Nothing, tree)
          [] n # NULL /\ fixed[2] -> Crashes
          [] OTHER -> Did(IF n # t.root /\ HasRed(t, n) THEN "discard" ELSE "delete_black",
                          d, Nothing, fixed[1])

RedBlackNext == kind \in RedBlackKinds /\ \E d \in Data : insert(d) \/ deleteNode(d)
-----------------------------------------------------------------------------
\* Every variable keeps its type.
TypeOK == LET Link == Data \cup {NULL}
          IN  /\ tree.root \in Link
              /\ DOMAIN tree.node \subseteq Data
              /\ \A n \in DOMAIN tree.node :
                    tree.node[n] \in [data : Data, color : {"RED", "BLACK"},
                                      left : Link, right : Link, parent : Link]

Elements == InOrder(tree, tree.root)

RECURSIVE BlackHeight(_, _)
\* The black nodes on the way down from n, -1 when the ways differ.
BlackHeight(t, n) ==
    IF n = NULL THEN 0
    ELSE LET l == BlackHeight(t, t.node[n].left)
             r == BlackHeight(t, t.node[n].right)
         IN  CASE l # r \/ l = -1 -> -1
               [] l = r /\ l # -1 /\ t.node[n].color = "BLACK" -> l + 1
               [] OTHER -> l
NoRedPair(t) == \A n \in DOMAIN t.node :
    t.node[n].color = "RED" => getColor(t, t.node[n].parent) = "BLACK"
Balanced(t) == BlackHeight(t, t.root) # -1 /\ NoRedPair(t)

\* Links and parents mirror each other, the root is black, and the values are in
\* order, also after deletions that took too much.
TreeSound ==
    /\ \A n \in DOMAIN tree.node, side \in {"left", "right"} :
          LET child == tree.node[n][side] IN child # NULL => tree.node[child].parent = n
    /\ tree.root # NULL => tree.node[tree.root].parent = NULL /\ getColor(tree, tree.root) = "BLACK"
    /\ \A i \in 1..(Len(Elements) - 1) : Elements[i] < Elements[i + 1]

\* An insertion, and a deletion that takes out no more than it was asked for, leave a
\* balanced tree balanced; and no deletion leaves its value in the tree, or puts
\* another one in.
StaysBalanced ==
    LET before == DOMAIN tree.node
        after == DOMAIN tree'.node
        d == call'.values[1]
    IN  kind' \in RedBlackKinds =>
           /\ Balanced(tree) /\ (call'.op = "add" \/ after = before \ {d}) => Balanced(tree)'
           /\ call'.op # "add" => after \subseteq before \ {d}
=============================================================================
