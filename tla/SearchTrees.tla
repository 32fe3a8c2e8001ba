------------------------------ MODULE SearchTrees ------------------------------
(***************************************************************************)
(* The binary search trees without balance: BST.cpp with raw pointers,     *)
(* BST_smartptr.cpp and BST_smartptr2.cpp, whose nodes own their children, *)
(* and the two trees of intervals.  Nobody but its parent points to a      *)
(* node, so that a tree is a value; a reference to a link is the way to it *)
(* from the root.                                                          *)
(***************************************************************************)
EXTENDS Integers, Sequences, SequencesExt, FiniteSetsExt

CONSTANTS Data,     \* the values inserted, and the ends of the intervals
          Room      \* bound: the nodes of a tree

VARIABLES kind, tree,
          call      \* the call that came last: [op, at, values, answer]

BSTKinds == {"BST.cpp", "BST_smartptr.cpp", "BST_smartptr2.cpp"}
IntervalKinds == {"intervalTree.cpp", "intervalTree2.cpp"}

Nothing == <<>>
Leaf == <<>>
Node(v) == [data |-> v, left |-> Leaf, right |-> Leaf]

\* The values in order.
RECURSIVE inOrderHelper(_)
inOrderHelper(t) == IF t = Leaf THEN <<>>
                    ELSE inOrderHelper(t.left) \o <<t.data>> \o inOrderHelper(t.right)
Elements == inOrderHelper(tree)
Vague == {"add_interval", "overlap"}

Did(op, s, r, t) == /\ tree' = t
                    /\ call' = [op |-> op, at |-> 0, values |-> s, answer |-> r]
                    /\ UNCHANGED kind
Truth(b) == IF b THEN <<1>> ELSE <<0>>
-----------------------------------------------------------------------------
(* BST.cpp: each helper returns what takes the place of its node. *)

RECURSIVE insertHelper(_, _)
insertHelper(t, v) ==
    CASE t = Leaf -> Node(v)
      [] t # Leaf /\ v < t.data -> [t EXCEPT !.left = insertHelper(@, v)]
      [] OTHER -> [t EXCEPT !.right = insertHelper(@, v)]

RECURSIVE searchHelper(_, _)
searchHelper(t, v) == t # Leaf /\ \/ v = t.data
                                  \/ v < t.data /\ searchHelper(t.left, v)
                                  \/ v > t.data /\ searchHelper(t.right, v)

RECURSIVE minValueNode(_)
minValueNode(t) == IF t.left = Leaf THEN t ELSE minValueNode(t.left)

\* A node with two children gets the value of its successor, which is deleted.
RECURSIVE deleteNodeHelper(_, _)
deleteNodeHelper(t, v) ==
    CASE t = Leaf -> Leaf
      [] t # Leaf /\ v < t.data -> [t EXCEPT !.left = deleteNodeHelper(@, v)]
      [] t # Leaf /\ v > t.data -> [t EXCEPT !.right = deleteNodeHelper(@, v)]
      [] OTHER -> CASE t.left = Leaf -> t.right
                    [] t.left # Leaf /\ t.right = Leaf -> t.left
                    [] OTHER -> LET next == minValueNode(t.right).data
                                IN  [t EXCEPT !.data = next, !.right = deleteNodeHelper(@, next)]
-----------------------------------------------------------------------------
(* The trees of unique_ptr: the helpers work on a reference to a link. *)

RECURSIVE At(_, _)
At(t, way) == IF way = <<>> THEN t ELSE At(t[Head(way)], Tail(way))
RECURSIVE Put(_, _, _)
Put(t, way, s) == IF way = <<>> THEN s ELSE [t EXCEPT ![Head(way)] = Put(@, Tail(way), s)]

\* The link that the search for v ends at, and the empty one where v is inserted.
RECURSIVE WayTo(_, _)
WayTo(t, v) ==
    CASE t = Leaf \/ (t # Leaf /\ t.data = v) -> <<>>
      [] t # Leaf /\ v < t.data -> <<"left">> \o WayTo(t.left, v)
      [] OTHER -> <<"right">> \o WayTo(t.right, v)
RECURSIVE EndFor(_, _)
EndFor(t, v) ==
    CASE t = Leaf -> <<>>
      [] t # Leaf /\ v < t.data -> <<"left">> \o EndFor(t.left, v)
      [] OTHER -> <<"right">> \o EndFor(t.right, v)

\* BST_smartptr.cpp
sptr_insertHelper(t, v) == Put(t, EndFor(t, v), Node(v))
sptr_searchHelper(t, v) == At(t, WayTo(t, v)) # Leaf
RECURSIVE sptr_minValueNode(_)
sptr_minValueNode(t) == IF t.left = Leaf THEN t ELSE sptr_minValueNode(t.left)
RECURSIVE sptr_deleteNodeHelper(_, _)
sptr_deleteNodeHelper(t, v) ==
    LET way == WayTo(t, v)
        n == At(t, way)
    IN  CASE n = Leaf -> t
          [] n # Leaf /\ n.left = Leaf -> Put(t, way, n.right)
          [] n # Leaf /\ n.left # Leaf /\ n.right = Leaf -> Put(t, way, n.left)
          [] OTHER -> LET next == sptr_minValueNode(n.right).data
                      IN  Put(t, way, [n EXCEPT !.data = next,
                                                !.right = sptr_deleteNodeHelper(@, next)])

\* BST_smartptr2.cpp: the successor is removed by the reference that found it.
value_insertHelper(t, v) == Put(t, EndFor(t, v), Node(v))
value_search(t, v) == At(t, WayTo(t, v)) # Leaf
RECURSIVE getMinNode(_, _)
getMinNode(t, way) == IF At(t, way).left = Leaf THEN way ELSE getMinNode(t, Append(way, "left"))
removeHelper(t, v) ==
    LET way == WayTo(t, v)
        n == At(t, way)
        min == getMinNode(t, Append(way, "right"))
    IN  CASE n = Leaf -> t
          [] n # Leaf /\ n.left = Leaf -> Put(t, way, n.right)
          [] n # Leaf /\ n.left # Leaf /\ n.right = Leaf -> Put(t, way, n.left)
          [] OTHER -> LET s == At(t, min)
                      IN  Put(Put(t, min, s.right), Append(way, "data"), s.data)
-----------------------------------------------------------------------------
(* The calls of the three trees; an equal value goes to the right. *)

insert(v) == Did("place", <<v>>, Nothing,
                 CASE kind = "BST.cpp" -> insertHelper(tree, v)
                   [] kind = "BST_smartptr.cpp" -> sptr_insertHelper(tree, v)
                   [] kind = "BST_smartptr2.cpp" -> value_insertHelper(tree, v))
search(v) == Did("contains", <<v>>,
                 Truth(CASE kind = "BST.cpp" -> searchHelper(tree, v)
                         [] kind = "BST_smartptr.cpp" -> sptr_searchHelper(tree, v)
                         [] kind = "BST_smartptr2.cpp" -> value_search(tree, v)), tree)
remove(v) == Did("delete_node", <<v>>, Nothing,
                 CASE kind = "BST.cpp" -> deleteNodeHelper(tree, v)
                   [] kind = "BST_smartptr.cpp" -> sptr_deleteNodeHelper(tree, v)
                   [] kind = "BST_smartptr2.cpp" -> removeHelper(tree, v))
-----------------------------------------------------------------------------
(* The trees of intervals: ordered by the lower ends, each node knows the  *)
(* largest upper end below it.                                             *)

Interval == {i \in Data \X Data : i[1] <= i[2]}
IntervalNode(i) == [data |-> i, max |-> i[2], left |-> Leaf, right |-> Leaf]
Higher(m, i) == IF m < i[2] THEN i[2] ELSE m

\* intervalTree.cpp
RECURSIVE interval_insert(_, _)
interval_insert(t, i) ==
    CASE t = Leaf -> IntervalNode(i)
      [] t # Leaf /\ i[1] < t.data[1] ->
             [t EXCEPT !.left = interval_insert(@, i), !.max = Higher(@, i)]
      [] OTHER -> [t EXCEPT !.right = interval_insert(@, i), !.max = Higher(@, i)]

doOverlap(i, j) == i[1] <= j[2] /\ j[1] <= i[2]

\* One interval that overlaps i: the left subtree alone is searched when its largest
\* upper end reaches i.
RECURSIVE overlapSearch(_, _)
overlapSearch(t, i) ==
    CASE t = Leaf -> Nothing
      [] t # Leaf /\ doOverlap(t.data, i) -> t.data
      [] OTHER -> IF t.left # Leaf /\ t.left.max >= i[1] THEN overlapSearch(t.left, i)
                  ELSE overlapSearch(t.right, i)

\* intervalTree2.cpp: all of them.
RECURSIVE insertNode(_, _)
insertNode(t, i) ==
    CASE t = Leaf -> IntervalNode(i)
      [] t # Leaf /\ i[1] < t.data[1] ->
             [t EXCEPT !.left = insertNode(@, i), !.max = Higher(@, i)]
      [] OTHER -> [t EXCEPT !.right = insertNode(@, i), !.max = Higher(@, i)]
RECURSIVE searchOverlappingIntervals(_, _)
searchOverlappingIntervals(t, i) ==
    IF t = Leaf THEN <<>>
    ELSE (IF doOverlap(t.data, i) THEN t.data ELSE <<>>)
         \o (IF t.left # Leaf /\ t.left.max >= i[1] THEN searchOverlappingIntervals(t.left, i)
             ELSE <<>>)
         \o searchOverlappingIntervals(t.right, i)

insertInterval(i) == Did("add_interval", i, Nothing,
                         IF kind = "intervalTree.cpp" THEN interval_insert(tree, i)
                         ELSE insertNode(tree, i))
searchInterval(i) == Did("overlap", i,
                         IF kind = "intervalTree.cpp" THEN overlapSearch(tree, i)
                         ELSE searchOverlappingIntervals(tree, i), tree)

SearchTreeNext ==
    \/ /\ kind \in BSTKinds
       /\ \E v \in Data : (Len(Elements) < Room /\ insert(v)) \/ search(v) \/ remove(v)
    \/ /\ kind \in IntervalKinds
       /\ \E i \in Interval : (Len(Elements) < Room /\ insertInterval(i)) \/ searchInterval(i)
-----------------------------------------------------------------------------
\* Every variable keeps its type.
RECURSIVE TreeOK(_)
TreeOK(t) ==
    \/ t = Leaf
    \/ /\ IF kind \in BSTKinds THEN DOMAIN t = {"data", "left", "right"} /\ t.data \in Data
          ELSE DOMAIN t = {"data", "max", "left", "right"} /\ t.data \in Interval /\ t.max \in Data
       /\ TreeOK(t.left) /\ TreeOK(t.right)
TypeOK == TreeOK(tree)

\* What is below each link lies on its side: smaller values on the left, the others,
\* with the equal ones, on the right; and each interval node knows the largest upper
\* end below it.
SortKey(t) == IF kind \in BSTKinds THEN t.data ELSE t.data[1]
RECURSIVE Ordered(_)
Ordered(t) ==
    t # Leaf => LET low(s) == {IF kind \in BSTKinds THEN v ELSE v[1] : v \in ToSet(inOrderHelper(s))}
                IN  /\ \A k \in low(t.left) : k < SortKey(t)
                    /\ \A k \in low(t.right) : k >= SortKey(t)
                    /\ kind \in IntervalKinds =>
                          t.max = Max({v[2] : v \in ToSet(inOrderHelper(t))})
                    /\ Ordered(t.left) /\ Ordered(t.right)

\* A search for an interval finds one that overlaps it, or all of them, when there
\* are any.
Overlapping(i) == SelectSeq(Elements, LAMBDA j : doOverlap(i, j))
OverlapsFound ==
    call.op = "overlap" =>
       LET found == Overlapping(call.values)
           n == Len(call.answer) \div 2
           answers == [k \in 1..n |-> <<call.answer[2 * k - 1], call.answer[2 * k]>>]
       IN  IF kind = "intervalTree.cpp" THEN n = Min({1, Len(found)}) /\ ToSet(answers) \subseteq ToSet(found)
           ELSE \A j \in Interval : Len(SelectSeq(answers, LAMBDA k : k = j))
                                       = Len(SelectSeq(found, LAMBDA k : k = j))
TreesSound == kind \in BSTKinds \cup IntervalKinds => Ordered(tree) /\ OverlapsFound

\* An inserted interval is one more of those that were there.
IntervalsStay == call'.op = "add_interval" =>
    \E n \in 0..Len(Elements) :
       Elements' = SubSeq(Elements, 1, n) \o <<call'.values>> \o SubSeq(Elements, n + 1, Len(Elements))
=============================================================================
