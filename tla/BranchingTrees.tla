---------------------------- MODULE BranchingTrees -----------------------------
(***************************************************************************)
(* The trees whose nodes have many children, and the one in an array: the  *)
(* trie of words trie.cpp, the map hamt.cpp, the tree of NaryTree.cpp, in  *)
(* which each value is put below another, and the sums of SegmentTree.cpp. *)
(* Nobody but its parent points to a node, so that a tree is a value.      *)
(***************************************************************************)
EXTENDS Integers, Sequences, SequencesExt, FiniteSetsExt, TLC

CONSTANTS Letter,    \* what words are made of: digits below ten
          MaxWord,   \* bound: the letters of a word
          Key, Value, Fan,  \* of the map: a key stands for its hash, of which each
                            \* level takes one of Fan values
          Data, m,   \* of NaryTree: the values, and the children of a node
          Summand, Room     \* of SegmentTree: the numbers; bound: the nodes of both

VARIABLES kind, tree,
          call       \* the call that came last: [op, at, values, answer]

BranchingKinds == {"trie.cpp", "hamt.cpp", "NaryTree.cpp", "SegmentTree.cpp"}
Nothing == <<>>
Truth(b) == IF b THEN <<1>> ELSE <<0>>
Did(op, at, s, r, t) == /\ tree' = t
                        /\ call' = [op |-> op, at |-> at, values |-> s, answer |-> r]
                        /\ UNCHANGED kind
Without(f, i) == [j \in (DOMAIN f) \ {i} |-> f[j]]
-----------------------------------------------------------------------------
(* trie.cpp *)

Word == UNION {[1..n -> Letter] : n \in 0..MaxWord}
\* A word as the caller names it: the number that its digits write.
Number(w) == LET n[i \in 0..Len(w)] == IF i = 0 THEN 0 ELSE 10 * n[i - 1] + w[i] IN n[Len(w)]
TrieNode == [isEndOfWord |-> FALSE, children |-> <<>>]

RECURSIVE trie_insert(_, _)
trie_insert(t, w) ==
    IF w = <<>> THEN [t EXCEPT !.isEndOfWord = TRUE]
    ELSE LET c == Head(w)
             child == IF c \in DOMAIN t.children THEN t.children[c] ELSE TrieNode
         IN  [t EXCEPT !.children = (c :> trie_insert(child, Tail(w))) @@ t.children]

RECURSIVE trie_search(_, _)
trie_search(t, w) ==
    IF w = <<>> THEN t.isEndOfWord
    ELSE Head(w) \in DOMAIN t.children /\ trie_search(t.children[Head(w)], Tail(w))

\* What is left of the trie, and whether the caller shall delete its root.
RECURSIVE deleteHelper(_, _)
deleteHelper(t, w) ==
    CASE w = <<>> -> [trie |-> [t EXCEPT !.isEndOfWord = FALSE],
                      shouldDelete |-> t.isEndOfWord /\ DOMAIN t.children = {}]
      [] w # <<>> /\ Head(w) \notin DOMAIN t.children -> [trie |-> t, shouldDelete |-> FALSE]
      [] OTHER -> LET c == Head(w)
                      below == deleteHelper(t.children[c], Tail(w))
                      rest == IF below.shouldDelete THEN Without(t.children, c)
                              ELSE [t.children EXCEPT ![c] = below.trie]
                  IN  [trie |-> [t EXCEPT !.children = rest],
                       shouldDelete |-> below.shouldDelete /\ ~t.isEndOfWord /\ DOMAIN rest = {}]
deleteKey(t, w) == deleteHelper(t, w).trie

TrieNext == \E w \in Word :
    \/ Did("add", 0, <<Number(w)>>, Nothing, trie_insert(tree, w))
    \/ Did("contains", 0, <<Number(w)>>, Truth(trie_search(tree, w)), tree)
    \/ Did("discard", 0, <<Number(w)>>, Nothing, deleteKey(tree, w))
-----------------------------------------------------------------------------
(* hamt.cpp: a leaf holds a key and its value, an inner node has a child *)
(* for some of the values of the hash's digit at its level.              *)

InternalNode == [children |-> <<>>]
LeafNode(k, v) == [key |-> k, value |-> v]
IsLeaf(t) == "key" \in DOMAIN t
Index(k, level) == (k \div Fan^level) % Fan

RECURSIVE insertHelper(_, _, _, _)
insertHelper(t, level, k, v) ==
    LET i == Index(k, level)
        put(child) == [t EXCEPT !.children = (i :> child) @@ t.children]
    IN  IF i \notin DOMAIN t.children THEN put(LeafNode(k, v))
        ELSE LET child == t.children[i]
             IN  CASE IsLeaf(child) /\ child.key = k -> put(LeafNode(k, v))
                   [] IsLeaf(child) /\ child.key # k ->
                        put(insertHelper(insertHelper(InternalNode, level + 1, child.key, child.value),
                                         level + 1, k, v))
                   [] ~IsLeaf(child) -> put(insertHelper(child, level + 1, k, v))

\* What is left of the node; removeHelper answers whether it took the key out.
RECURSIVE removeHelper(_, _, _)
removeHelper(t, level, k) ==
    LET i == Index(k, level)
    IN  IF i \notin DOMAIN t.children THEN t
        ELSE LET child == t.children[i]
             IN  CASE IsLeaf(child) /\ child.key = k -> [t EXCEPT !.children = Without(@, i)]
                   [] IsLeaf(child) /\ child.key # k -> t
                   [] ~IsLeaf(child) ->
                        LET below == removeHelper(child, level + 1, k)
                        IN  IF below # child /\ DOMAIN below.children = {}
                            THEN [t EXCEPT !.children = Without(@, i)]
                            ELSE [t EXCEPT !.children[i] = below]

RECURSIVE lookup(_, _, _)
lookup(t, level, k) ==
    LET i == Index(k, level)
    IN  CASE i \notin DOMAIN t.children -> Nothing
          [] i \in DOMAIN t.children /\ IsLeaf(t.children[i]) ->
                IF t.children[i].key = k THEN <<t.children[i].value>> ELSE Nothing
          [] OTHER -> lookup(t.children[i], level + 1, k)

MapNext == \E k \in Key :
    \/ \E v \in Value : Did("put", 0, <<k, v>>, Nothing, insertHelper(tree, 0, k, v))
    \/ Did("find", 0, <<k>>, lookup(tree, 0, k), tree)
    \/ Did("take", 0, <<k>>, Nothing, removeHelper(tree, 0, k))
-----------------------------------------------------------------------------
(* NaryTree.cpp: the empty tree is <<>>. *)

Node(v) == [data |-> v, children |-> <<>>]

\* The way to the first node with value v in preorder, as the indices of children;
\* <<0>> if there is none.
RECURSIVE search(_, _)
search(t, v) ==
    IF t.data = v THEN <<>>
    ELSE LET found == {i \in DOMAIN t.children : search(t.children[i], v) # <<0>>}
         IN  IF found = {} THEN <<0>> ELSE <<Min(found)>> \o search(t.children[Min(found)], v)

RECURSIVE Grown(_, _, _)
Grown(t, way, v) ==
    IF way # <<>> THEN [t EXCEPT !.children[Head(way)] = Grown(@, Tail(way), v)]
    ELSE IF Len(t.children) < m THEN [t EXCEPT !.children = Append(@, Node(v))] ELSE t
insert(t, p, v) == CASE t = <<>> -> Node(v)
                     [] t # <<>> /\ search(t, p) = <<0>> -> t
                     [] OTHER -> Grown(t, search(t, p), v)

\* The first child with value v is erased with all below it, which ends the loop; the
\* children before it, or all of them, are searched.
RECURSIVE deleteNodeHelper(_, _)
deleteNodeHelper(t, v) ==
    LET first == SelectInSeq(t.children, LAMBDA c : c.data = v)
        searched == [i \in DOMAIN t.children |->
                        IF first = 0 \/ i < first THEN deleteNodeHelper(t.children[i], v)
                        ELSE t.children[i]]
    IN  [t EXCEPT !.children = IF first = 0 THEN searched ELSE RemoveAt(searched, first)]
deleteNode(t, v) == IF t = <<>> \/ (t # <<>> /\ t.data = v) THEN <<>> ELSE deleteNodeHelper(t, v)

\* The values in preorder.
RECURSIVE traverseDFS(_)
traverseDFS(t) == IF t = <<>> THEN <<>>
                  ELSE <<t.data>> \o FlattenSeq([i \in DOMAIN t.children |-> traverseDFS(t.children[i])])

NaryNext == \E v \in Data :
    \/ \E p \in Data : /\ Len(traverseDFS(tree)) < Room
                       /\ Did("put_below", p, <<v>>, Nothing, insert(tree, p, v))
    \/ Did("delete_subtree", 0, <<v>>, Nothing, deleteNode(tree, v))
-----------------------------------------------------------------------------
(* SegmentTree.cpp: node 1 is the root, and node k has the children 2k and *)
(* 2k + 1; each holds the sum of a range of the n numbers.                 *)

Half(start, end) == (start + end) \div 2

\* tree[node] and what is below it, for the numbers s.
RECURSIVE buildTree(_, _, _, _, _)
buildTree(sums, s, node, start, end) ==
    IF start = end THEN [sums EXCEPT ![node] = s[start + 1]]
    ELSE LET mid == Half(start, end)
             left == buildTree(sums, s, 2 * node, start, mid)
             both == buildTree(left, s, 2 * node + 1, mid + 1, end)
         IN  [both EXCEPT ![node] = both[2 * node] + both[2 * node + 1]]
SegmentTree(s) == [n |-> Len(s),
                   sums |-> buildTree([k \in 0..(4 * Len(s) - 1) |-> 0], s, 1, 0, Len(s) - 1)]

RECURSIVE updateTree(_, _, _, _, _, _)
updateTree(sums, node, start, end, idx, val) ==
    IF start = end THEN [sums EXCEPT ![node] = val]
    ELSE LET mid == Half(start, end)
             below == IF idx <= mid THEN updateTree(sums, 2 * node, start, mid, idx, val)
                      ELSE updateTree(sums, 2 * node + 1, mid + 1, end, idx, val)
         IN  [below EXCEPT ![node] = below[2 * node] + below[2 * node + 1]]
update(t, idx, val) == [t EXCEPT !.sums = updateTree(@, 1, 0, t.n - 1, idx, val)]

RECURSIVE queryTree(_, _, _, _, _, _)
queryTree(sums, node, start, end, l, r) ==
    CASE r < start \/ end < l -> 0
      [] l <= start /\ end <= r -> sums[node]
      [] OTHER -> LET mid == Half(start, end)
                  IN  queryTree(sums, 2 * node, start, mid, l, r)
                      + queryTree(sums, 2 * node + 1, mid + 1, end, l, r)
sumRange(t, l, r) == queryTree(t.sums, 1, 0, t.n - 1, l, r)

SegmentNext ==
    \/ /\ tree = <<>>
       /\ \E n \in 1..Room : \E s \in [1..n -> Summand] : Did("build", 0, s, Nothing, SegmentTree(s))
    \/ /\ tree # <<>>
       /\ \/ \E idx \in 0..(tree.n - 1), val \in Summand :
                Did("replace", idx, <<val>>, Nothing, update(tree, idx, val))
          \/ \E l \in 0..(tree.n - 1), r \in 0..(tree.n - 1) :
                Did("sum", 0, <<l, r>>, <<sumRange(tree, l, r)>>, tree)
-----------------------------------------------------------------------------
Create == CASE kind = "trie.cpp" -> TrieNode
            [] kind = "hamt.cpp" -> InternalNode
            [] OTHER -> <<>>
BranchingNext == \/ kind = "trie.cpp" /\ TrieNext
                 \/ kind = "hamt.cpp" /\ MapNext
                 \/ kind = "NaryTree.cpp" /\ NaryNext
                 \/ kind = "SegmentTree.cpp" /\ SegmentNext
-----------------------------------------------------------------------------
(* What the trees hold. *)

RECURSIVE Words(_)
Words(t) == (IF t.isEndOfWord THEN {<<>>} ELSE {})
            \cup UNION {{<<c>> \o w : w \in Words(t.children[c])} : c \in DOMAIN t.children}
Ascending(S) == LET s[T \in SUBSET S] == IF T = {} THEN <<>> ELSE <<Min(T)>> \o s[T \ {Min(T)}]
                IN  s[S]
RECURSIVE Leaves(_, _, _)
Leaves(node, start, end) ==
    IF start = end THEN <<tree.sums[node]>>
    ELSE Leaves(2 * node, start, Half(start, end)) \o Leaves(2 * node + 1, Half(start, end) + 1, end)
\* As a sequence of values: the words in the order of their numbers, the numbers that
\* are summed.
Elements == CASE kind = "trie.cpp" -> Ascending({Number(w) : w \in Words(tree)})
              [] kind = "NaryTree.cpp" -> traverseDFS(tree)
              [] kind = "SegmentTree.cpp" /\ tree # <<>> -> Leaves(1, 0, tree.n - 1)
              [] OTHER -> <<>>

RECURSIVE AllLeaves(_)
AllLeaves(t) == IF IsLeaf(t) THEN {<<t.key, t.value>>}
                ELSE UNION {AllLeaves(t.children[i]) : i \in DOMAIN t.children}
\* As the values of each key of the map.
Held(k) == IF kind = "hamt.cpp"
           THEN SetToSeq({leaf[2] : leaf \in {l \in AllLeaves(tree) : l[1] = k}}) ELSE <<>>

Vague == {"put_below", "delete_subtree", "build", "sum"}
-----------------------------------------------------------------------------
\* Every variable keeps its type.
RECURSIVE TrieOK(_)
TrieOK(t) == /\ DOMAIN t = {"isEndOfWord", "children"} /\ t.isEndOfWord \in BOOLEAN
             /\ DOMAIN t.children \subseteq Letter
             /\ \A c \in DOMAIN t.children : TrieOK(t.children[c])
RECURSIVE MapOK(_)
MapOK(t) == IF IsLeaf(t) THEN t \in [key : Key, value : Value]
            ELSE /\ DOMAIN t = {"children"} /\ DOMAIN t.children \subseteq 0..(Fan - 1)
                 /\ \A i \in DOMAIN t.children : MapOK(t.children[i])
RECURSIVE NaryOK(_)
NaryOK(t) == /\ DOMAIN t = {"data", "children"} /\ t.data \in Data
             /\ Len(t.children) <= m /\ \A i \in DOMAIN t.children : NaryOK(t.children[i])
TypeOK == CASE kind = "trie.cpp" -> TrieOK(tree)
            [] kind = "hamt.cpp" -> MapOK(tree)
            [] kind = "NaryTree.cpp" -> tree = <<>> \/ NaryOK(tree)
            [] kind = "SegmentTree.cpp" -> tree = <<>> \/ tree.n \in 1..Room
            [] OTHER -> TRUE

\* No branch of the trie ends without a word.
RECURSIVE NoDeadBranch(_)
NoDeadBranch(t) ==
    \A c \in DOMAIN t.children :
       LET child == t.children[c]
       IN  (child.isEndOfWord \/ DOMAIN child.children # {}) /\ NoDeadBranch(child)

\* Each leaf of the map is where its hash leads, and only the root has no children.
RECURSIVE LeavesInPlace(_, _, _)
LeavesInPlace(t, level, belongs) ==
    IF IsLeaf(t) THEN t.key \in belongs
    ELSE /\ level > 0 => DOMAIN t.children # {}
         /\ \A i \in DOMAIN t.children :
               LeavesInPlace(t.children[i], level + 1, {k \in belongs : Index(k, level) = i})

\* Every node of the segment tree above the leaves holds the sum of its children,
\* and a sum is that of the numbers asked for.
RECURSIVE SumsAgree(_, _, _)
SumsAgree(node, start, end) ==
    start < end => /\ tree.sums[node] = tree.sums[2 * node] + tree.sums[2 * node + 1]
                   /\ SumsAgree(2 * node, start, Half(start, end))
                   /\ SumsAgree(2 * node + 1, Half(start, end) + 1, end)
SumIsRight == call.op = "sum" =>
    LET total[i \in -1..(tree.n - 1)] ==
            IF i < call.values[1] THEN 0 ELSE Elements[i + 1] + total[i - 1]
    IN  call.answer = <<IF call.values[2] < call.values[1] THEN 0 ELSE total[call.values[2]]>>

BranchesSound ==
    CASE kind = "trie.cpp" -> NoDeadBranch(tree)
      [] kind = "hamt.cpp" -> LeavesInPlace(tree, 0, Key)
      [] kind = "SegmentTree.cpp" -> tree # <<>> => SumsAgree(1, 0, tree.n - 1) /\ SumIsRight
      [] OTHER -> TRUE

\* The values on the ways from the root of NaryTree's tree to its nodes.
RECURSIVE Ways(_)
Ways(t) == IF t = <<>> THEN {}
           ELSE {<<t.data>>} \cup UNION {{<<t.data>> \o w : w \in Ways(t.children[i])} : i \in DOMAIN t.children}

\* deleteNode takes nothing but nodes at or below one with the value asked for, and all
\* of these when there is one such node; insert puts one node below one with the
\* parent's value, and refuses only where there is no room.
SubtreesLeaveWhole ==
    kind = "NaryTree.cpp" =>
       LET v == call'.values[1]
           kept == {w \in Ways(tree) : v \notin ToSet(w)}
           copies == Len(SelectSeq(Elements, LAMBDA x : x = v))
       IN  IF call'.op = "delete_subtree"
           THEN /\ kept \subseteq Ways(tree)' /\ Ways(tree)' \subseteq Ways(tree)
                /\ copies = 1 => Ways(tree)' = kept
                /\ Len(Elements') < Len(Elements) \/ copies = 0
           ELSE /\ Len(Elements') \in {Len(Elements), Len(Elements) + 1}
                /\ \A w \in Ways(tree)' \ Ways(tree) :
                      Last(w) = v /\ (Len(w) = 1 \/ w[Len(w) - 1] = call'.at)
                /\ Len(Elements') = Len(Elements) =>
                      LET way == search(tree, call'.at) IN way = <<0>> \/ Len(Elements) > m
=============================================================================
