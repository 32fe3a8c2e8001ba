------------------------ MODULE FineGrainedBST_proofs ------------------------
(***************************************************************************)
(* fgl_bst.c for any number of threads, of calls and of values, as long as *)
(* the threads keep to Orderly: the tree is at every moment a search tree  *)
(* of the set that the calls make, and no thread uses a node that another  *)
(* one has destroyed.                                                      *)
(***************************************************************************)
EXTENDS FineGrainedBST, DataLemmas
-----------------------------------------------------------------------------
(* Search trees: S is the set of the nodes, D[n] the nodes below n. *)

TreeOf(nd, r, S, D) ==
    /\ S \subseteq Node /\ r \in S \cup {NULL} /\ D[r] = S
    /\ D \in [Node \cup {NULL} -> SUBSET Node] /\ D[NULL] = {}
    /\ \A n \in S : /\ nd[n].value \in Int
                    /\ nd[n].left \in S \cup {NULL} /\ nd[n].right \in S \cup {NULL}
                    /\ D[n] = {n} \cup D[nd[n].left] \cup D[nd[n].right]
                    /\ n \notin D[nd[n].left] /\ n \notin D[nd[n].right]
                    /\ D[nd[n].left] \cap D[nd[n].right] = {}
                    /\ \A m \in D[n] : D[m] \subseteq D[n]
                    /\ \A m \in D[nd[n].left] : nd[m].value < nd[n].value
                    /\ \A m \in D[nd[n].right] : nd[m].value > nd[n].value

Names == NULL \notin Node \cup Caller /\ MaxNodes \in Nat

\* Every node is in the tree, below the root and below itself.
LEMMA InTree ==
    ASSUME Names, NEW nd, NEW r, NEW S, NEW D, TreeOf(nd, r, S, D), NEW n \in S
    PROVE  /\ n \in Node /\ n # NULL /\ r \in S /\ n \in D[r] /\ n \in D[n] /\ D[n] \subseteq S
           /\ D[nd[n].left] \subseteq D[n] /\ D[nd[n].right] \subseteq D[n]
           /\ nd[n].left # NULL => nd[n].left \in D[nd[n].left]
           /\ nd[n].right # NULL => nd[n].right \in D[nd[n].right]
<1>1. r \in S
  BY DEF TreeOf, Names
<1>2. /\ n \in Node /\ n # NULL /\ n \in D[r] /\ n \in D[n]
      /\ D[nd[n].left] \subseteq D[n] /\ D[nd[n].right] \subseteq D[n]
  BY DEF TreeOf, Names
<1>3. D[n] \subseteq S
  BY <1>1, <1>2 DEF TreeOf
<1>4. \A m \in S : m \in D[m]
  BY DEF TreeOf
<1> QED BY <1>1, <1>2, <1>3, <1>4 DEF TreeOf

\* Of two nodes one at most is below the other one.
LEMMA OneBelow ==
    ASSUME Names, NEW nd, NEW r, NEW S, NEW D, TreeOf(nd, r, S, D),
           NEW m \in S, NEW n \in S, m \in D[n], n \in D[m]
    PROVE  m = n
<1> SUFFICES ASSUME m # n PROVE FALSE
  OBVIOUS
<1>1. PICK c \in {nd[n].left, nd[n].right} : m \in D[c]
  BY DEF TreeOf
<1>2. c \in S
  BY <1>1 DEF TreeOf
<1>3. D[m] \subseteq D[c]
  BY <1>1, <1>2 DEF TreeOf
<1> QED BY <1>1, <1>3 DEF TreeOf

\* Every set of nodes which have p and m below them has a lowest one.
LEMMA Lowest ==
    ASSUME Names, NEW nd, NEW r, NEW S, NEW D, TreeOf(nd, r, S, D), NEW T \in SUBSET S, T # {}
    PROVE  \E a \in T : \A b \in T : b \in D[a] => b = a
<1>1. \A n \in S : D[n] \in SUBSET Node /\ IsFiniteSet(D[n]) /\ Cardinality(D[n]) \in Nat
  <2>1. IsFiniteSet(Node)
    BY FS_Interval DEF Node, Names
  <2>2. \A n \in S : D[n] \in SUBSET Node
    BY InTree DEF TreeOf
  <2> QED BY <2>1, <2>2, FS_Subset, FS_CardinalityType
<1> DEFINE Sizes == {Cardinality(D[n]) : n \in T}
<1>2. Sizes \in SUBSET Nat /\ Sizes # {}
  BY <1>1
<1>3. PICK k \in Sizes : \A l \in Sizes : k <= l
  <2> HIDE DEF Sizes
  <2> QED BY <1>2, LeastNatural
<1>4. PICK a \in T : k = Cardinality(D[a])
  BY <1>3
<1>5. ASSUME NEW b \in T, b \in D[a], b # a PROVE FALSE
  <2>1. D[b] \subseteq D[a]
    BY <1>5 DEF TreeOf
  <2>2. a \in D[a] /\ a \notin D[b]
    BY <1>5, InTree, OneBelow
  <2>3. IsFiniteSet(D[a]) /\ D[b] # D[a] /\ Cardinality(D[b]) \in Nat /\ Cardinality(D[a]) \in Nat
    BY <1>1, <2>2
  <2>4. Cardinality(D[b]) < Cardinality(D[a])
    BY <2>1, <2>3, FS_Subset
  <2>5. Cardinality(D[b]) >= k
    BY <1>3, <1>5
  <2> QED BY <1>4, <2>3, <2>4, <2>5
<1> QED BY <1>4, <1>5

\* Of two nodes below x, one is below the other, or a node below x separates them.
LEMMA Meeting ==
    ASSUME Names, NEW nd, NEW r, NEW S, NEW D, TreeOf(nd, r, S, D),
           NEW x \in S, NEW p \in D[x], NEW m \in D[x]
    PROVE  \/ m \in D[p] \/ p \in D[m]
           \/ \E a \in D[x] : /\ a \in S
                              /\ \/ p \in D[nd[a].left] /\ m \in D[nd[a].right]
                                 \/ p \in D[nd[a].right] /\ m \in D[nd[a].left]
<1> DEFINE T == {a \in D[x] : p \in D[a] /\ m \in D[a]}
<1>1. D[x] \subseteq S /\ x \in T
  BY InTree
<1>2. T \in SUBSET S
  BY <1>1
<1>3. PICK a \in T : \A b \in T : b \in D[a] => b = a
  <2> HIDE DEF T
  <2> QED BY <1>1, <1>2, Lowest
<1>4. a \in S /\ a \in D[x] /\ p \in D[a] /\ m \in D[a] /\ D[a] \subseteq D[x]
  BY <1>1, <1>3 DEF TreeOf
<1>5. ASSUME NEW c \in {nd[a].left, nd[a].right}, p \in D[c], m \in D[c] PROVE FALSE
  <2>1. c \in S /\ c # a
    BY <1>4, <1>5 DEF TreeOf
  <2>2. c \in D[a] /\ c \in D[x]
    BY <1>4, <2>1, InTree
  <2> QED BY <1>3, <1>5, <2>1, <2>2
<1>6. p = a \/ p \in D[nd[a].left] \/ p \in D[nd[a].right]
  BY <1>4 DEF TreeOf
<1>7. m = a \/ m \in D[nd[a].left] \/ m \in D[nd[a].right]
  BY <1>4 DEF TreeOf
<1> QED BY <1>4, <1>5, <1>6, <1>7

Child(nd, p, c) == c # NULL /\ (c = nd[p].left \/ c = nd[p].right)

\* A child is below its parent.
LEMMA ChildBelow ==
    ASSUME Names, NEW nd, NEW r, NEW S, NEW D, TreeOf(nd, r, S, D), NEW p \in S, NEW c, Child(nd, p, c)
    PROVE  c \in S /\ c \in D[c] /\ c \in D[p] /\ D[c] \subseteq D[p] /\ p \notin D[c] /\ c # p
<1>1. c \in S
  BY DEF TreeOf, Child
<1>2. c \in D[c]
  BY <1>1, InTree
<1>3. D[c] \subseteq D[p]
  BY InTree DEF Child
<1>4. p \notin D[c]
  BY DEF TreeOf, Child
<1> QED BY <1>1, <1>2, <1>3, <1>4

\* A node has one parent.
LEMMA OneParent ==
    ASSUME Names, NEW nd, NEW r, NEW S, NEW D, TreeOf(nd, r, S, D),
           NEW p \in S, NEW q \in S, NEW c, Child(nd, p, c), Child(nd, q, c)
    PROVE  p = q
<1>1. c \in S /\ c \in D[c] /\ c \in D[p] /\ c \in D[q] /\ p \in D[r] /\ q \in D[r] /\ r \in S
  BY InTree, ChildBelow
<1>2. ASSUME NEW a \in S, NEW b \in S, Child(nd, a, c), Child(nd, b, c), b \in D[a], a # b PROVE FALSE
  <2>1. PICK d \in {nd[a].left, nd[a].right} : b \in D[d] /\ d \in S
    BY <1>2 DEF TreeOf
  <2>2. c \in D[b] /\ D[b] \subseteq D[d]
    <3>1. c \in D[b]
      BY <1>2, ChildBelow
    <3>2. D[b] \subseteq D[d]
      BY <2>1 DEF TreeOf
    <3> QED BY <3>1, <3>2
  <2>3. CASE d = c
    <3>1. b = c
      BY <1>1, <1>2, <2>1, <2>2, <2>3, OneBelow
    <3> QED BY <1>1, <1>2, <3>1 DEF TreeOf, Child
  <2>4. CASE d # c
    BY <1>1, <1>2, <2>1, <2>2, <2>4 DEF TreeOf, Child
  <2> QED BY <2>3, <2>4
<1>3. ~\E a \in S : \/ p \in D[nd[a].left] /\ q \in D[nd[a].right]
                    \/ p \in D[nd[a].right] /\ q \in D[nd[a].left]
  <2> SUFFICES ASSUME NEW a \in S, NEW b \in S, NEW e \in S, b \in D[nd[a].left], e \in D[nd[a].right],
                      c \in D[b], c \in D[e]
               PROVE  FALSE
    BY <1>1
  <2>1. D[b] \subseteq D[nd[a].left] /\ D[e] \subseteq D[nd[a].right]
    BY DEF TreeOf
  <2> QED BY <2>1 DEF TreeOf
<1> QED BY <1>1, <1>2, <1>3, Meeting

\* What is above a node, and is not the node, is above its parent.
LEMMA AboveParent ==
    ASSUME Names, NEW nd, NEW r, NEW S, NEW D, TreeOf(nd, r, S, D),
           NEW p \in S, NEW c, Child(nd, p, c), NEW x \in S, c \in D[x], c # x
    PROVE  p \in D[x]
<1>1. c \in S /\ c \in D[c] /\ c \in D[p] /\ p \in D[r] /\ x \in D[r] /\ r \in S /\ p \in D[p]
  BY InTree, ChildBelow
<1>2. ASSUME x \in D[p], x # p PROVE FALSE
  <2>1. PICK d \in {nd[p].left, nd[p].right} : x \in D[d] /\ d \in S
    BY <1>2 DEF TreeOf
  <2>2. D[x] \subseteq D[d]
    BY <2>1 DEF TreeOf
  <2>3. CASE d = c
    BY <1>1, <2>1, <2>3, OneBelow
  <2>4. CASE d # c
    BY <1>1, <2>1, <2>2, <2>4 DEF TreeOf, Child
  <2> QED BY <2>3, <2>4
<1>3. ASSUME NEW a \in S, NEW b \in S, NEW e \in S, b \in D[nd[a].left], e \in D[nd[a].right],
             c \in D[b], c \in D[e]
      PROVE  FALSE
  <2>1. D[b] \subseteq D[nd[a].left] /\ D[e] \subseteq D[nd[a].right]
    BY <1>3 DEF TreeOf
  <2> QED BY <1>3, <2>1 DEF TreeOf
<1> QED BY <1>1, <1>2, <1>3, Meeting

\* No two nodes hold the same value.
LEMMA OneNodeEach ==
    ASSUME Names, NEW nd, NEW r, NEW S, NEW D, TreeOf(nd, r, S, D),
           NEW m \in S, NEW n \in S, nd[m].value = nd[n].value
    PROVE  m = n
<1>1. m \in D[r] /\ n \in D[r] /\ r \in S
  BY InTree
<1>2. ASSUME NEW a \in S, NEW b \in S, b \in D[a], a # b, nd[a].value = nd[b].value PROVE FALSE
  BY <1>2 DEF TreeOf
<1>3. ASSUME NEW a \in S, NEW b \in S, NEW e \in S, b \in D[nd[a].left], e \in D[nd[a].right]
      PROVE  nd[b].value # nd[e].value
  <2>1. nd[b].value < nd[a].value /\ nd[e].value > nd[a].value
    BY <1>3 DEF TreeOf
  <2>2. nd[b].value \in Int /\ nd[a].value \in Int /\ nd[e].value \in Int
    BY DEF TreeOf
  <2> QED BY <2>1, <2>2
<1> QED BY <1>1, <1>2, <1>3, Meeting
-----------------------------------------------------------------------------
(* What fits where. *)

\* The key k may stand below the node x.
Fits(nd, S, D, x, k) == \A a \in S : /\ x \in D[nd[a].left] => k < nd[a].value
                                     /\ x \in D[nd[a].right] => k > nd[a].value

\* Every key may stand below the root, ...
LEMMA FitsRoot ==
    ASSUME Names, NEW nd, NEW r, NEW S, NEW D, TreeOf(nd, r, S, D), r \in S, NEW k
    PROVE  Fits(nd, S, D, r, k)
<1> SUFFICES ASSUME NEW a \in S, NEW c \in {nd[a].left, nd[a].right}, r \in D[c] PROVE FALSE
  BY DEF Fits
<1>1. r \in D[a] /\ a \in D[r]
  BY InTree
<1>2. r = a
  BY <1>1, OneBelow
<1> QED BY <1>2 DEF TreeOf

\* ... and below a child, on the side of its parent on which it belongs.
LEMMA FitsChild ==
    ASSUME Names, NEW nd, NEW r, NEW S, NEW D, TreeOf(nd, r, S, D),
           NEW p \in S, NEW k \in Int, k # nd[p].value, Fits(nd, S, D, p, k),
           NEW c, c # NULL, c = IF k < nd[p].value THEN nd[p].left ELSE nd[p].right
    PROVE  c \in S /\ Fits(nd, S, D, c, k)
<1>1. Child(nd, p, c)
  BY DEF Child
<1>2. c \in S /\ c \in D[c] /\ c \in D[p]
  BY <1>1, ChildBelow
<1>3. ASSUME NEW a \in S, c \in D[nd[a].left] PROVE k < nd[a].value
  <2>1. CASE a = p
    <3>1. c \notin D[nd[p].right]
      BY <1>3, <2>1 DEF TreeOf
    <3> QED BY <1>2, <2>1, <3>1
  <2>2. CASE a # p
    <3>1. nd[a].left \in S /\ nd[a].left # NULL
      BY <1>3 DEF TreeOf
    <3>2. c # nd[a].left
      BY <1>1, <2>2, <3>1, OneParent DEF Child
    <3>3. p \in D[nd[a].left]
      BY <1>1, <1>3, <3>1, <3>2, AboveParent
    <3> QED BY <3>3 DEF Fits
  <2> QED BY <2>1, <2>2
<1>4. ASSUME NEW a \in S, c \in D[nd[a].right] PROVE k > nd[a].value
  <2>1. CASE a = p
    <3>1. c \notin D[nd[p].left]
      BY <1>4, <2>1 DEF TreeOf
    <3>2. nd[p].value \in Int
      BY DEF TreeOf
    <3> QED BY <1>2, <2>1, <3>1, <3>2
  <2>2. CASE a # p
    <3>1. nd[a].right \in S /\ nd[a].right # NULL
      BY <1>4 DEF TreeOf
    <3>2. c # nd[a].right
      BY <1>1, <2>2, <3>1, OneParent DEF Child
    <3>3. p \in D[nd[a].right]
      BY <1>1, <1>4, <3>1, <3>2, AboveParent
    <3> QED BY <3>3 DEF Fits
  <2> QED BY <2>1, <2>2
<1> QED BY <1>2, <1>3, <1>4 DEF Fits

\* A key that may stand below p, and is not found where it belongs, is in no node.
LEMMA FitsNowhere ==
    ASSUME Names, NEW nd, NEW r, NEW S, NEW D, TreeOf(nd, r, S, D),
           NEW p \in S, NEW k \in Int, k # nd[p].value, Fits(nd, S, D, p, k),
           (IF k < nd[p].value THEN nd[p].left ELSE nd[p].right) = NULL,
           NEW m \in S, nd[m].value = k
    PROVE  FALSE
<1>1. r \in S /\ p \in D[r] /\ m \in D[r] /\ p \in S /\ m \in S
  BY InTree
<1>2. m # p /\ D[NULL] = {}
  BY DEF TreeOf
<1>3. ASSUME m \in D[p] PROVE FALSE
  BY <1>2, <1>3 DEF TreeOf
<1>4. ASSUME p \in D[m] PROVE FALSE
  <2>1. p \in D[nd[m].left] \/ p \in D[nd[m].right]
    BY <1>2, <1>4 DEF TreeOf
  <2> QED BY <2>1 DEF Fits
<1>5. ASSUME NEW a \in S, \/ p \in D[nd[a].left] /\ m \in D[nd[a].right]
                          \/ p \in D[nd[a].right] /\ m \in D[nd[a].left]
      PROVE  FALSE
  <2>1. nd[a].value \in Int
    BY DEF TreeOf
  <2>2. \/ k < nd[a].value /\ nd[m].value > nd[a].value
        \/ k > nd[a].value /\ nd[m].value < nd[a].value
    BY <1>5 DEF Fits, TreeOf
  <2> QED BY <2>1, <2>2
<1> QED BY <1>1, <1>3, <1>4, <1>5, Meeting
-----------------------------------------------------------------------------
(* What insert and delete do to the tree. *)

\* A new leaf e below p.
WithLeaf(nd, S, D, p, k, e, nd2, S2, D2) ==
    /\ p \in S /\ k \in Int /\ k # nd[p].value /\ Fits(nd, S, D, p, k) /\ e \in Node \ S /\ S2 = S \cup {e}
    /\ \A m \in S : /\ nd2[m].value = nd[m].value
                    /\ m # p => nd2[m].left = nd[m].left /\ nd2[m].right = nd[m].right
    /\ IF k < nd[p].value
       THEN nd[p].left = NULL /\ nd2[p].left = e /\ nd2[p].right = nd[p].right
       ELSE nd[p].right = NULL /\ nd2[p].right = e /\ nd2[p].left = nd[p].left
    /\ nd2[e].value = k /\ nd2[e].left = NULL /\ nd2[e].right = NULL
    /\ D2 \in [Node \cup {NULL} -> SUBSET Node] /\ D2[NULL] = {} /\ D2[e] = {e}
    /\ \A m \in S : D2[m] = D[m] \cup (IF p \in D[m] THEN {e} ELSE {})

LEMMA TreeGrows ==
    ASSUME Names, NEW nd, NEW r, NEW S, NEW D, TreeOf(nd, r, S, D),
           NEW p, NEW k, NEW e, NEW nd2, NEW S2, NEW D2, WithLeaf(nd, S, D, p, k, e, nd2, S2, D2)
    PROVE  /\ TreeOf(nd2, r, S2, D2)
           /\ \A x \in S : \A l : Fits(nd, S, D, x, l) => Fits(nd2, S2, D2, x, l)
<1> USE DEF WithLeaf
<1>1. /\ \A n \in S : n \in Node /\ n # NULL /\ n # e /\ D[n] \subseteq S /\ n \in D[n]
      /\ e \in Node /\ e # NULL /\ r \in S /\ p \in D[r] /\ D[NULL] = {} /\ D[r] = S
  <2>1. e # NULL
    BY DEF Names
  <2> QED BY <2>1, InTree DEF TreeOf
<1>2. D2[e] = {e} /\ D2[NULL] = {} /\ \A n \in S : D2[n] = D[n] \cup (IF p \in D[n] THEN {e} ELSE {})
  OBVIOUS
<1>3. D2 \in [Node \cup {NULL} -> SUBSET Node]
  OBVIOUS
<1>4. ASSUME NEW n \in S
      PROVE  /\ nd2[n].left \in S2 \cup {NULL} /\ nd2[n].right \in S2 \cup {NULL}
             /\ D2[nd2[n].left] = D[nd[n].left] \cup
                   (IF p \in D[nd[n].left] \/ (n = p /\ k < nd[p].value) THEN {e} ELSE {})
             /\ D2[nd2[n].right] = D[nd[n].right] \cup
                   (IF p \in D[nd[n].right] \/ (n = p /\ ~(k < nd[p].value)) THEN {e} ELSE {})
  <2>1. nd[n].left \in S \cup {NULL} /\ nd[n].right \in S \cup {NULL}
    BY DEF TreeOf
  <2>2. CASE n = p
    <3>1. p \notin D[nd[p].left] /\ p \notin D[nd[p].right]
      BY DEF TreeOf
    <3> QED BY <1>1, <1>2, <2>1, <2>2, <3>1
  <2>3. CASE n # p
    BY <1>1, <1>2, <2>1, <2>3
  <2> QED BY <2>2, <2>3
<1>5. ASSUME NEW n \in S
      PROVE  /\ nd2[n].value \in Int
             /\ nd2[n].left \in S2 \cup {NULL} /\ nd2[n].right \in S2 \cup {NULL}
             /\ D2[n] = {n} \cup D2[nd2[n].left] \cup D2[nd2[n].right]
             /\ n \notin D2[nd2[n].left] /\ n \notin D2[nd2[n].right]
             /\ D2[nd2[n].left] \cap D2[nd2[n].right] = {}
             /\ \A m \in D2[n] : D2[m] \subseteq D2[n]
             /\ \A m \in D2[nd2[n].left] : nd2[m].value < nd2[n].value
             /\ \A m \in D2[nd2[n].right] : nd2[m].value > nd2[n].value
  <2>1. /\ nd[n].value \in Int /\ nd[p].value \in Int
        /\ nd[n].left \in S \cup {NULL} /\ nd[n].right \in S \cup {NULL}
        /\ D[n] = {n} \cup D[nd[n].left] \cup D[nd[n].right]
        /\ n \notin D[nd[n].left] /\ n \notin D[nd[n].right]
        /\ D[nd[n].left] \cap D[nd[n].right] = {}
        /\ \A m \in D[n] : D[m] \subseteq D[n]
        /\ \A m \in D[nd[n].left] : nd[m].value < nd[n].value
        /\ \A m \in D[nd[n].right] : nd[m].value > nd[n].value
    BY DEF TreeOf
  <2>2. /\ p \in D[nd[n].left] => k < nd[n].value
        /\ p \in D[nd[n].right] => k > nd[n].value
        /\ D[nd[n].left] \subseteq S /\ D[nd[n].right] \subseteq S
    BY <1>1, <2>1 DEF Fits
  <2>3. D2[n] = {n} \cup D2[nd2[n].left] \cup D2[nd2[n].right]
    BY <1>2, <1>4, <2>1
  <2>4. n \notin D2[nd2[n].left] /\ n \notin D2[nd2[n].right]
    BY <1>1, <1>4, <2>1
  <2>5. D2[nd2[n].left] \cap D2[nd2[n].right] = {}
    <3>1. e \notin D[nd[n].left] /\ e \notin D[nd[n].right]
      BY <2>2
    <3> QED BY <1>4, <2>1, <3>1
  <2>6. \A m \in D2[n] : D2[m] \subseteq D2[n]
    <3> SUFFICES ASSUME NEW m \in D2[n] PROVE D2[m] \subseteq D2[n]
      OBVIOUS
    <3>1. CASE m = e
      BY <1>2, <3>1
    <3>2. CASE m # e
      <4>1. m \in D[n] /\ m \in S
        BY <1>1, <1>2, <3>2
      <4>2. D[m] \subseteq D[n]
        BY <2>1, <4>1
      <4> QED BY <1>2, <4>1, <4>2
    <3> QED BY <3>1, <3>2
  <2>7. \A m \in D2[nd2[n].left] : nd2[m].value < nd2[n].value
    <3> SUFFICES ASSUME NEW m \in D2[nd2[n].left] PROVE nd2[m].value < nd2[n].value
      OBVIOUS
    <3>1. CASE m = e
      <4>1. e \notin D[nd[n].left]
        BY <2>2
      <4> QED BY <1>4, <2>2, <3>1, <4>1
    <3>2. CASE m # e
      <4>1. m \in D[nd[n].left]
        BY <1>4, <3>2
      <4> QED BY <2>1, <2>2, <4>1
    <3> QED BY <3>1, <3>2
  <2>8. \A m \in D2[nd2[n].right] : nd2[m].value > nd2[n].value
    <3> SUFFICES ASSUME NEW m \in D2[nd2[n].right] PROVE nd2[m].value > nd2[n].value
      OBVIOUS
    <3>1. CASE m = e
      <4>1. e \notin D[nd[n].right]
        BY <2>2
      <4> QED BY <1>4, <2>1, <2>2, <3>1, <4>1
    <3>2. CASE m # e
      <4>1. m \in D[nd[n].right]
        BY <1>4, <3>2
      <4> QED BY <2>1, <2>2, <4>1
    <3> QED BY <3>1, <3>2
  <2> QED BY <1>4, <2>1, <2>3, <2>4, <2>5, <2>6, <2>7, <2>8
<1>6. TreeOf(nd2, r, S2, D2)
  <2>1. D2[r] = S2
    BY <1>1, <1>2
  <2>2. S2 \subseteq Node
    BY DEF TreeOf
  <2>3. /\ nd2[e].value \in Int
        /\ nd2[e].left \in S2 \cup {NULL} /\ nd2[e].right \in S2 \cup {NULL}
        /\ D2[e] = {e} \cup D2[nd2[e].left] \cup D2[nd2[e].right]
        /\ e \notin D2[nd2[e].left] /\ e \notin D2[nd2[e].right]
        /\ D2[nd2[e].left] \cap D2[nd2[e].right] = {}
        /\ \A m \in D2[e] : D2[m] \subseteq D2[e]
        /\ \A m \in D2[nd2[e].left] : nd2[m].value < nd2[e].value
        /\ \A m \in D2[nd2[e].right] : nd2[m].value > nd2[e].value
    BY <1>2
  <2> HIDE DEF Fits
  <2> QED BY <1>1, <1>2, <1>3, <1>5, <2>1, <2>2, <2>3 DEF TreeOf
<1>7. ASSUME NEW x \in S, NEW l, Fits(nd, S, D, x, l), NEW a \in S2
      PROVE  (x \in D2[nd2[a].left] => l < nd2[a].value) /\ (x \in D2[nd2[a].right] => l > nd2[a].value)
  <2>1. CASE a = e
    BY <1>2, <2>1
  <2>2. CASE a # e
    <3>1. a \in S
      BY <2>2
    <3>2. /\ x \in D2[nd2[a].left] => x \in D[nd[a].left]
          /\ x \in D2[nd2[a].right] => x \in D[nd[a].right]
      BY <1>4, <3>1
    <3> QED BY <1>7, <3>1, <3>2 DEF Fits
  <2> QED BY <2>1, <2>2
<1> QED BY <1>6, <1>7 DEF Fits

\* A tree without the node n, whatever is now where it was.
Without(nd, S, D, n, nd2, r2, S2, D2) ==
    /\ n \in S /\ S2 = S \ {n} /\ r2 \in S2 \cup {NULL} /\ D2[r2] = S2
    /\ D2 \in [Node \cup {NULL} -> SUBSET Node] /\ \A m \in S \cup {NULL} : D2[m] = D[m] \ {n}
    /\ \A a \in S2 : /\ nd2[a].value = nd[a].value
                     /\ nd2[a].left \in S2 \cup {NULL} /\ nd2[a].right \in S2 \cup {NULL}
                     /\ D2[nd2[a].left] = D[nd[a].left] \ {n}
                     /\ D2[nd2[a].right] = D[nd[a].right] \ {n}

LEMMA TreeLess ==
    ASSUME Names, NEW nd, NEW r, NEW S, NEW D, TreeOf(nd, r, S, D),
           NEW n, NEW nd2, NEW r2, NEW S2, NEW D2, Without(nd, S, D, n, nd2, r2, S2, D2)
    PROVE  /\ TreeOf(nd2, r2, S2, D2)
           /\ \A x \in S2 : \A l : Fits(nd, S, D, x, l) => Fits(nd2, S2, D2, x, l)
<1> USE DEF Without
<1>1. S2 \subseteq Node /\ D2 \in [Node \cup {NULL} -> SUBSET Node] /\ D2[NULL] = {}
  BY DEF TreeOf
<1>2. \A m \in S : D2[m] = D[m] \ {n} /\ D[m] \subseteq S
  BY InTree DEF TreeOf
<1>3. ASSUME NEW a \in S2
      PROVE  /\ nd2[a].value \in Int
             /\ D2[a] = {a} \cup D2[nd2[a].left] \cup D2[nd2[a].right]
             /\ a \notin D2[nd2[a].left] /\ a \notin D2[nd2[a].right]
             /\ D2[nd2[a].left] \cap D2[nd2[a].right] = {}
             /\ \A m \in D2[a] : D2[m] \subseteq D2[a]
             /\ \A m \in D2[nd2[a].left] : nd2[m].value < nd2[a].value
             /\ \A m \in D2[nd2[a].right] : nd2[m].value > nd2[a].value
  <2>1. a \in S /\ a # n
    OBVIOUS
  <2>2. /\ nd[a].value \in Int
        /\ D[a] = {a} \cup D[nd[a].left] \cup D[nd[a].right]
        /\ a \notin D[nd[a].left] /\ a \notin D[nd[a].right]
        /\ D[nd[a].left] \cap D[nd[a].right] = {}
        /\ \A m \in D[a] : D[m] \subseteq D[a]
        /\ \A m \in D[nd[a].left] : nd[m].value < nd[a].value
        /\ \A m \in D[nd[a].right] : nd[m].value > nd[a].value
    BY <2>1 DEF TreeOf
  <2>3. D2[a] = {a} \cup D2[nd2[a].left] \cup D2[nd2[a].right]
    BY <1>2, <2>1, <2>2
  <2>4. \A m \in D2[a] : m \in S2 /\ D2[m] \subseteq D2[a]
    BY <1>2, <2>1, <2>2
  <2>5. D2[nd2[a].left] \subseteq D2[a] /\ D2[nd2[a].right] \subseteq D2[a]
    BY <2>3
  <2>6. \A m \in D2[nd2[a].left] : nd2[m].value < nd2[a].value
    BY <2>2, <2>4, <2>5
  <2>7. \A m \in D2[nd2[a].right] : nd2[m].value > nd2[a].value
    BY <2>2, <2>4, <2>5
  <2> QED BY <2>2, <2>3, <2>4, <2>6, <2>7
<1>4. TreeOf(nd2, r2, S2, D2)
  BY <1>1, <1>3 DEF TreeOf
<1> QED BY <1>4 DEF Fits

OnlyBelow(nd, n) == IF nd[n].left # NULL THEN nd[n].left ELSE nd[n].right

\* A node with at most one child gives its place below its parent to that child.
WithoutChild(nd, S, D, p, n, nd2, S2, D2) ==
    /\ p \in S /\ Child(nd, p, n) /\ (nd[n].left = NULL \/ nd[n].right = NULL) /\ S2 = S \ {n}
    /\ \A a \in S : /\ nd2[a].value = nd[a].value
                    /\ a # p => nd2[a].left = nd[a].left /\ nd2[a].right = nd[a].right
    /\ IF nd[p].left = n
       THEN nd2[p].left = OnlyBelow(nd, n) /\ nd2[p].right = nd[p].right
       ELSE nd2[p].right = OnlyBelow(nd, n) /\ nd2[p].left = nd[p].left
    /\ D2 \in [Node \cup {NULL} -> SUBSET Node] /\ \A m \in S \cup {NULL} : D2[m] = D[m] \ {n}

LEMMA TreeUnlinked ==
    ASSUME Names, NEW nd, NEW r, NEW S, NEW D, TreeOf(nd, r, S, D),
           NEW p, NEW n, NEW nd2, NEW S2, NEW D2, WithoutChild(nd, S, D, p, n, nd2, S2, D2)
    PROVE  /\ TreeOf(nd2, r, S2, D2)
           /\ \A x \in S2 : \A l : Fits(nd, S, D, x, l) => Fits(nd2, S2, D2, x, l)
           /\ \A a \in S2 : /\ nd2[a].left \in S2 \cup {NULL} /\ nd2[a].right \in S2 \cup {NULL}
                            /\ D2[nd2[a].left] = D[nd[a].left] \ {n}
                            /\ D2[nd2[a].right] = D[nd[a].right] \ {n}
<1> USE DEF WithoutChild
<1>1. n \in S /\ n \in D[n] /\ n \in D[p] /\ p \notin D[n] /\ n # p /\ r \in S /\ D[r] = S /\ n # NULL
  BY ChildBelow, InTree DEF TreeOf, Child
<1>2. r \in S2 /\ D2[r] = S2
  <2>1. r # n
    BY <1>1
  <2> QED BY <1>1, <2>1 DEF TreeOf
<1> DEFINE c == OnlyBelow(nd, n)
<1>3. c \in S2 \cup {NULL} /\ D2[c] = D[n] \ {n}
  <2>1. /\ c \in S \cup {NULL} /\ D[n] = {n} \cup D[c] /\ n \notin D[c] /\ D[NULL] = {}
    BY <1>1 DEF TreeOf, OnlyBelow
  <2>2. c \in S => c \in D[c]
    BY InTree
  <2>3. D2[c] = D[c] \ {n}
    BY <2>1 DEF TreeOf
  <2> QED BY <2>1, <2>2, <2>3
<1>4. nd[p].left # nd[p].right
  <2>1. nd[p].left \in S \/ nd[p].right \in S
    BY <1>1 DEF Child
  <2> QED BY <2>1, InTree DEF TreeOf
<1>5. ASSUME NEW a \in S2
      PROVE  /\ nd2[a].value = nd[a].value
             /\ nd2[a].left \in S2 \cup {NULL} /\ nd2[a].right \in S2 \cup {NULL}
             /\ D2[nd2[a].left] = D[nd[a].left] \ {n}
             /\ D2[nd2[a].right] = D[nd[a].right] \ {n}
  <2>1. /\ nd[a].left \in S \cup {NULL} /\ nd[a].right \in S \cup {NULL} /\ a \in S
    BY DEF TreeOf
  <2>2. \A m \in S \cup {NULL} : D2[m] = D[m] \ {n}
    BY DEF TreeOf
  <2>3. CASE a = p
    <3>1. CASE nd[p].left = n
      BY <1>3, <1>4, <2>1, <2>2, <2>3, <3>1
    <3>2. CASE nd[p].left # n
      <4>1. nd[p].right = n
        BY <3>2 DEF Child
      <4> QED BY <1>3, <1>4, <2>1, <2>2, <2>3, <3>2, <4>1
    <3> QED BY <3>1, <3>2
  <2>4. CASE a # p
    <3>1. nd[a].left # n /\ nd[a].right # n
      BY <1>1, <2>1, <2>4, OneParent DEF Child
    <3> QED BY <2>1, <2>2, <2>4, <3>1
  <2> QED BY <2>3, <2>4
<1>6. Without(nd, S, D, n, nd2, r, S2, D2)
  BY <1>1, <1>2, <1>5 DEF Without
<1> QED BY <1>5, <1>6, TreeLess

\* The root gives its place to its only child.
RootLess(nd, r, S, D, S2, D2) ==
    /\ r \in S /\ (nd[r].left = NULL \/ nd[r].right = NULL) /\ S2 = S \ {r}
    /\ D2 \in [Node \cup {NULL} -> SUBSET Node] /\ \A m \in S \cup {NULL} : D2[m] = D[m] \ {r}

LEMMA TreeRerooted ==
    ASSUME Names, NEW nd, NEW r, NEW S, NEW D, TreeOf(nd, r, S, D),
           NEW S2, NEW D2, RootLess(nd, r, S, D, S2, D2)
    PROVE  TreeOf(nd, OnlyBelow(nd, r), S2, D2)
<1> USE DEF RootLess
<1> DEFINE c == OnlyBelow(nd, r)
<1>1. c \in S2 \cup {NULL} /\ D2[c] = S2
  <2>1. /\ c \in S \cup {NULL} /\ D[r] = {r} \cup D[c] /\ r \notin D[c] /\ D[NULL] = {} /\ D[r] = S
    BY DEF TreeOf, OnlyBelow
  <2>2. c \in S => c \in D[c]
    BY InTree
  <2>3. D2[c] = D[c] \ {r}
    BY <2>1 DEF TreeOf
  <2> QED BY <2>1, <2>2, <2>3
<1>2. ASSUME NEW a \in S2
      PROVE  /\ nd[a].value = nd[a].value
             /\ nd[a].left \in S2 \cup {NULL} /\ nd[a].right \in S2 \cup {NULL}
             /\ D2[nd[a].left] = D[nd[a].left] \ {r}
             /\ D2[nd[a].right] = D[nd[a].right] \ {r}
  <2>1. nd[a].left \in S \cup {NULL} /\ nd[a].right \in S \cup {NULL} /\ a \in S /\ a \in D[r]
    BY DEF TreeOf
  <2>2. ~Child(nd, a, r)
    BY <2>1, ChildBelow, OneBelow
  <2>3. r # NULL
    BY InTree
  <2> QED BY <2>1, <2>2, <2>3 DEF TreeOf, Child
<1> HIDE DEF c
<1>3. Without(nd, S, D, r, nd, c, S2, D2)
  BY <1>1, <1>2 DEF Without
<1>4. TreeOf(nd, c, S2, D2)
  BY <1>3, TreeLess
<1> QED BY <1>4 DEF c

\* A node gets another value that fits there.
WithValue(nd, S, D, q, v, nd2) ==
    /\ q \in S /\ v \in Int /\ Fits(nd, S, D, q, v)
    /\ \A m \in D[nd[q].left] : nd[m].value < v
    /\ \A m \in D[nd[q].right] : nd[m].value > v
    /\ nd2[q].value = v
    /\ \A a \in S : /\ nd2[a].left = nd[a].left /\ nd2[a].right = nd[a].right
                    /\ a # q => nd2[a].value = nd[a].value

LEMMA TreeRevalued ==
    ASSUME Names, NEW nd, NEW r, NEW S, NEW D, TreeOf(nd, r, S, D),
           NEW q, NEW v, NEW nd2, WithValue(nd, S, D, q, v, nd2)
    PROVE  TreeOf(nd2, r, S, D)
<1> USE DEF WithValue
<1>1. ASSUME NEW a \in S
      PROVE  /\ nd2[a].value \in Int
             /\ \A m \in D[nd[a].left] : nd2[m].value < nd2[a].value
             /\ \A m \in D[nd[a].right] : nd2[m].value > nd2[a].value
  <2>1. D[nd[a].left] \subseteq S /\ D[nd[a].right] \subseteq S
    BY InTree
  <2>2. /\ nd[a].value \in Int /\ a \notin D[nd[a].left] /\ a \notin D[nd[a].right]
        /\ \A m \in D[nd[a].left] : nd[m].value < nd[a].value
        /\ \A m \in D[nd[a].right] : nd[m].value > nd[a].value
    BY DEF TreeOf
  <2>3. CASE a = q
    BY <2>1, <2>2, <2>3
  <2>4. CASE a # q
    <3>1. nd2[a].value = nd[a].value
      BY <2>4
    <3>2. ASSUME NEW m \in D[nd[a].left] PROVE nd2[m].value < nd2[a].value
      <4>1. CASE m = q
        BY <3>1, <3>2, <4>1 DEF Fits
      <4>2. CASE m # q
        BY <2>1, <2>2, <3>1, <4>2
      <4> QED BY <4>1, <4>2
    <3>3. ASSUME NEW m \in D[nd[a].right] PROVE nd2[m].value > nd2[a].value
      <4>1. CASE m = q
        BY <3>1, <3>3, <4>1 DEF Fits
      <4>2. CASE m # q
        BY <2>1, <2>2, <3>1, <4>2
      <4> QED BY <4>1, <4>2
    <3> QED BY <2>2, <3>1, <3>2, <3>3
  <2> QED BY <2>3, <2>4
<1> QED BY <1>1 DEF TreeOf
-----------------------------------------------------------------------------
(* Below, which goes down level by level, finds D. *)

Deeper(X) == (UNION {{node[m].left, node[m].right} : m \in X}) \ {NULL}
Levels(L, n, b) == \A d \in 0..b : L[d] = IF d = 0 THEN {n} \ {NULL} ELSE Deeper(L[d - 1])

\* The levels exist, ...
LEMMA LevelsExist ==
    ASSUME NEW n, MaxNodes \in Nat
    PROVE  \E L : DOMAIN L = 0..MaxNodes /\ Levels(L, n, MaxNodes) /\ Below(n) = UNION {L[d] : d \in 0..MaxNodes}
<1> DEFINE T == {b \in Nat : \E L : Levels(L, n, b)}
<1>1. 0 \in T
  <2> PICK L : L = [d \in 0..0 |-> {n} \ {NULL}]
    OBVIOUS
  <2>1. Levels(L, n, 0)
    BY DEF Levels
  <2> QED BY <2>1
<1>2. ASSUME NEW b \in Nat, b \in T PROVE b + 1 \in T
  <2>1. PICK L : Levels(L, n, b)
    BY <1>2
  <2>2. PICK M : M = [d \in 0..(b + 1) |-> IF d = b + 1 THEN Deeper(L[b]) ELSE L[d]]
    OBVIOUS
  <2>3. ASSUME NEW d \in 0..(b + 1) PROVE M[d] = IF d = 0 THEN {n} \ {NULL} ELSE Deeper(M[d - 1])
    <3>1. CASE d = b + 1
      <4>1. b \in 0..(b + 1) /\ d # 0 /\ d - 1 = b /\ b # b + 1
        BY <1>2, <3>1
      <4>2. M[b] = L[b] /\ M[d] = Deeper(L[b])
        BY <2>2, <3>1, <4>1
      <4> QED BY <4>1, <4>2
    <3>2. CASE d # b + 1
      <4>1. d \in 0..b
        BY <1>2, <3>2
      <4>2. M[d] = L[d]
        BY <2>2, <3>2
      <4>3. d # 0 => d - 1 \in 0..(b + 1) /\ d - 1 # b + 1
        BY <1>2, <4>1
      <4>4. d # 0 => M[d - 1] = L[d - 1]
        BY <2>2, <4>3
      <4> QED BY <2>1, <4>1, <4>2, <4>4 DEF Levels
    <3> QED BY <3>1, <3>2
  <2>4. Levels(M, n, b + 1)
    BY <2>3 DEF Levels
  <2> QED BY <2>4
<1>3. MaxNodes \in T
  <2> HIDE DEF T
  <2> QED BY <1>1, <1>2, SetInduction
<1>4. PICK L : Levels(L, n, MaxNodes)
  BY <1>3
<1>5. PICK M : M = [d \in 0..MaxNodes |-> L[d]]
  OBVIOUS
<1>6. M = [d \in 0..MaxNodes |-> IF d = 0 THEN {n} \ {NULL}
                               ELSE (UNION {{node[m].left, node[m].right} : m \in M[d - 1]}) \ {NULL}]
  <2>1. \A d \in 0..MaxNodes : d # 0 => d - 1 \in 0..MaxNodes
    OBVIOUS
  <2>2. \A d \in 0..MaxNodes : M[d] = IF d = 0 THEN {n} \ {NULL} ELSE Deeper(M[d - 1])
    BY <1>4, <1>5, <2>1 DEF Levels
  <2> QED BY <1>5, <2>2 DEF Deeper
<1>7. PICK C : C = CHOOSE f : f = [d \in 0..MaxNodes |->
                     IF d = 0 THEN {n} \ {NULL}
                     ELSE (UNION {{node[m].left, node[m].right} : m \in f[d - 1]}) \ {NULL}]
  OBVIOUS
<1>8. C = [d \in 0..MaxNodes |-> IF d = 0 THEN {n} \ {NULL}
                               ELSE (UNION {{node[m].left, node[m].right} : m \in C[d - 1]}) \ {NULL}]
  BY <1>6, <1>7
<1>9. Below(n) = UNION {C[d] : d \in 0..MaxNodes}
  BY <1>7 DEF Below
<1>10. DOMAIN C = 0..MaxNodes /\ Levels(C, n, MaxNodes)
  BY <1>8 DEF Levels, Deeper
<1> QED BY <1>9, <1>10

\* ... and the nodes on all of them are those below n.
LEMMA BelowIs ==
    ASSUME Names, NEW r, NEW S, NEW D, TreeOf(node, r, S, D), NEW n \in S \cup {NULL}
    PROVE  Below(n) = D[n]
<1>0. MaxNodes \in Nat
  BY DEF Names
<1>1. PICK L : /\ Levels(L, n, MaxNodes)
               /\ Below(n) = UNION {L[d] : d \in 0..MaxNodes}
  BY <1>0, LevelsExist
<1> DEFINE size(m) == Cardinality(D[m])
           R(d) == {m \in D[n] : size(m) + d <= size(n)}
<1>2. \A m \in S \cup {NULL} : D[m] \in SUBSET Node /\ IsFiniteSet(D[m]) /\ size(m) \in 0..MaxNodes
  <2>1. IsFiniteSet(Node) /\ Cardinality(Node) = MaxNodes
    BY <1>0, FS_Interval DEF Node
  <2>2. \A m \in S \cup {NULL} : D[m] \in SUBSET Node
    BY DEF TreeOf
  <2>3. \A X \in SUBSET Node : IsFiniteSet(X) /\ Cardinality(X) \in Nat /\ Cardinality(X) <= MaxNodes
    BY <2>1, FS_Subset, FS_CardinalityType
  <2> QED BY <1>0, <2>2, <2>3
<1>3. /\ D[n] \subseteq S /\ D[NULL] = {}
      /\ n # NULL => n \in S /\ n \in D[n]
      /\ \A m \in S : m # NULL /\ m \in D[m]
  BY InTree DEF TreeOf
<1>4. ASSUME NEW m \in S, NEW c, Child(node, m, c)
      PROVE  c \in S /\ D[c] \subseteq D[m] /\ c \in D[m] /\ size(c) + 1 <= size(m)
  <2>1. c \in S /\ D[c] \subseteq D[m] /\ m \notin D[c] /\ m \in D[m] /\ c \in D[m]
    BY <1>4, ChildBelow, InTree
  <2>2. Cardinality(D[c]) < Cardinality(D[m])
    BY <1>2, <2>1, FS_Subset
  <2> QED BY <1>2, <2>1, <2>2
<1>5. ASSUME NEW d \in Nat, d + 1 \in 0..MaxNodes, L[d] \subseteq R(d) PROVE L[d + 1] \subseteq R(d + 1)
  <2> SUFFICES ASSUME NEW c \in L[d + 1] PROVE c \in R(d + 1)
    OBVIOUS
  <2>1. c \in Deeper(L[d])
    BY <1>0, <1>1, <1>5 DEF Levels
  <2>2. PICK m \in L[d] : Child(node, m, c)
    BY <2>1 DEF Deeper, Child
  <2>3. m \in D[n] /\ m \in S /\ size(m) + d <= size(n)
    BY <1>3, <1>5, <2>2
  <2>4. c \in S /\ D[c] \subseteq D[m] /\ size(c) + 1 <= size(m) /\ c \in D[m]
    BY <1>4, <2>2, <2>3
  <2>5. D[m] \subseteq D[n]
    BY <1>3, <2>3 DEF TreeOf
  <2>6. size(c) + (d + 1) <= size(n)
    <3>1. size(c) \in Nat /\ size(m) \in Nat /\ size(n) \in Nat
      BY <1>2, <2>3, <2>4, <1>0
    <3> HIDE DEF size
    <3> QED BY <2>3, <2>4, <3>1
  <2> QED BY <2>4, <2>5, <2>6
<1>6. \A d \in 0..MaxNodes : L[d] \subseteq R(d)
  <2> DEFINE T == {d \in Nat : d <= MaxNodes => L[d] \subseteq R(d)}
  <2>1. 0 \in T
    <3>1. L[0] = {n} \ {NULL}
      BY <1>0, <1>1 DEF Levels
    <3>2. size(n) + 0 <= size(n)
      BY <1>0, <1>2
    <3> QED BY <1>3, <3>1, <3>2
  <2>2. ASSUME NEW d \in Nat, d \in T PROVE d + 1 \in T
    <3> SUFFICES ASSUME d + 1 <= MaxNodes PROVE L[d + 1] \subseteq R(d + 1)
      OBVIOUS
    <3>1. d + 1 \in 0..MaxNodes /\ d <= MaxNodes
      BY <1>0
    <3> HIDE DEF R
    <3> QED BY <1>5, <2>2, <3>1
  <2> HIDE DEF T
  <2>3. Nat \subseteq T
    BY <2>1, <2>2, SetInduction
  <2> QED BY <1>0, <2>3 DEF T
<1>7. Below(n) \subseteq D[n]
  BY <1>1, <1>6
<1>8. ASSUME NEW m \in D[n] PROVE m \in Below(n)
  <2> DEFINE U == {a \in Below(n) : m \in D[a]}
  <2>1. m \in S /\ n \in S /\ n # NULL
    BY <1>3
  <2>2. n \in U
    <3>1. L[0] = {n} \ {NULL} /\ 0 \in 0..MaxNodes
      BY <1>0, <1>1 DEF Levels
    <3> QED BY <1>1, <2>1, <3>1
  <2>3. U \in SUBSET S
    BY <1>3, <1>7
  <2>4. PICK a \in U : \A b \in U : b \in D[a] => b = a
    <3> HIDE DEF U
    <3> QED BY <2>2, <2>3, Lowest
  <2>5. a \in S /\ m \in D[a]
    BY <2>3, <2>4
  <2> SUFFICES ASSUME m # a PROVE FALSE
    BY <2>4
  <2>6. PICK c \in {node[a].left, node[a].right} : m \in D[c]
    BY <2>5 DEF TreeOf
  <2>7. Child(node, a, c)
    BY <1>3, <2>6 DEF Child
  <2>8. c \in D[a] /\ c # a /\ c # NULL
    BY <2>5, <2>7, ChildBelow DEF Child
  <2>9. PICK d \in 0..MaxNodes : a \in L[d]
    BY <1>1, <2>4
  <2>10. d + 1 \in 0..MaxNodes
    <3>1. a \in R(d)
      BY <1>6, <2>9
    <3>2. size(a) # 0
      <4>1. a \in D[a] /\ IsFiniteSet(D[a])
        BY <1>2, <1>3, <2>5
      <4> QED BY <4>1, FS_EmptySet
    <3>3. size(a) \in Nat /\ size(n) \in 0..MaxNodes
      BY <1>0, <1>2, <2>1, <2>5
    <3>4. size(a) + d <= size(n)
      BY <3>1
    <3> HIDE DEF size, R
    <3> QED BY <1>0, <3>2, <3>3, <3>4
  <2>11. c \in L[d + 1]
    <3>1. L[d + 1] = Deeper(L[d])
      BY <1>0, <1>1, <2>10 DEF Levels
    <3>2. c \in Deeper(L[d])
      BY <2>6, <2>8, <2>9 DEF Deeper
    <3> QED BY <3>1, <3>2
  <2>12. c \in U
    BY <1>1, <2>6, <2>10, <2>11
  <2> QED BY <2>4, <2>8, <2>12
<1> QED BY <1>7, <1>8
-----------------------------------------------------------------------------
(* The invariant. *)

Clients == Names /\ \A p \in Programs : Orderly(p)

Cell == [value : Int, left : Node \cup {NULL}, right : Node \cup {NULL}]
Label == {"idle", "root", "insert", "delete", "search", "successor", "destroy"}

\* The inserts that have returned; each allocates one node at most.
Returned == {c \in Insertions(program) : c[2] < at[c[1]]}
TreeTypes ==
    /\ node \in [Node -> Cell \cup {NULL}] /\ \A n \in 1..used : node[n] \in Cell
    /\ used \in 0..MaxNodes /\ alive \subseteq 1..used /\ used <= Cardinality(Returned)
    /\ owner \in [Node -> Caller \cup {NULL}]
    /\ program \in Programs /\ at \in [Caller -> Nat] /\ pc \in [Caller -> Label]
    /\ \A t \in Caller : at[t] \in 1..(Len(program[t]) + 1)
    /\ current \in [Caller -> Node \cup {NULL}] /\ parent \in [Caller -> Node \cup {NULL}]
    /\ target \in [Caller -> Node \cup {NULL}] /\ doomed \in [Caller -> Node \cup {NULL}]

\* What is allocated is in the tree or about to be destroyed, by one thread.
TreeHeap(S) ==
    /\ alive = S \cup Doomed
    /\ \A t, u \in Caller :
          pc[t] = "destroy" /\ pc[u] = "destroy" /\ doomed[t] = doomed[u] => t = u
    /\ {node[m].value : m \in S} = keys

\* What the clients' discipline amounts to.
Kept ==
    /\ \A r : Rooted(program, r) => /\ (root # NULL => node[root].value = r)
                                   /\ (root = NULL => \A t \in Caller : at[t] = 1)
    /\ NoLoss(program) => \A t \in Caller : Inserted(t) \subseteq keys
    /\ \A k \in keys : \E t \in Caller : \E i \in DOMAIN program[t] : program[t][i] = <<"insert", k>>

\* A walk to a key stands below a node under which the key fits.
Walking(t) == pc[t] \in {"insert", "delete"}
WalksWell(S, D, t) ==
    /\ current[t] \in S \cup {NULL}
    /\ pc[t] = "insert" => current[t] # NULL
    /\ parent[t] = NULL => current[t] \in {root, NULL}
    /\ parent[t] # NULL => /\ parent[t] \in S /\ Key(t) # node[parent[t]].value
                           /\ current[t] = node[parent[t]][Side(parent[t], Key(t))]
                           /\ Fits(node, S, D, parent[t], Key(t))

\* A search has below it what it is to find.
SearchesWell(S, D, t) ==
    /\ current[t] \in S \cup {NULL} /\ parent[t] = NULL
    /\ Key(t) \in Inserted(t) \cap keys => \E m \in D[current[t]] : node[m].value = Key(t)

\* The way to the successor goes from the right child of the target down to the
\* left, and no walk is on it.
Way(D, t) == {a \in D[node[target[t]].right] : current[t] \in D[a] /\ a # current[t]}
Descends(S, D, t) ==
    /\ target[t] \in S /\ node[target[t]].value = Key(t)
    /\ parent[t] \in S /\ current[t] \in D[node[target[t]].right]
    /\ IF parent[t] = target[t] THEN current[t] = node[target[t]].right
       ELSE parent[t] \in D[node[target[t]].right] /\ current[t] = node[parent[t]].left
    /\ \A a \in D[node[target[t]].right] : current[t] \notin D[node[a].right]
    /\ \A u \in Caller \ {t} : Walking(u) => parent[u] \notin Way(D, t)

Holds(t) == IF Walking(t) THEN {parent[t]} \ {NULL}
            ELSE IF pc[t] = "successor" THEN {parent[t], target[t]} ELSE {}
TreeThread(S, D, t) ==
    /\ pc[t] # "idle" => Calls(t)
    /\ pc[t] = "root" => Call(t) = "insert" /\ root # NULL
    /\ pc[t] \in {"insert", "delete", "search"} => Call(t) = pc[t]
    /\ pc[t] \in {"successor", "destroy"} => Call(t) = "delete"
    /\ Walking(t) => WalksWell(S, D, t)
    /\ pc[t] = "search" => SearchesWell(S, D, t)
    /\ pc[t] = "successor" => Descends(S, D, t)
    /\ pc[t] = "destroy" => doomed[t] \in alive \ S
    /\ \A n \in Holds(t) : owner[n] = t

TreeState(S, D) == /\ TreeTypes /\ TreeOf(node, root, S, D) /\ TreeHeap(S) /\ Kept
                   /\ \A t \in Caller : TreeThread(S, D, t)
TreeInv == \E S, D : TreeState(S, D)
-----------------------------------------------------------------------------
(* Calls, types and room. *)

\* The call of a thread is one of its program.
LEMMA TheCall ==
    ASSUME Clients, TreeTypes, NEW t \in Caller, Calls(t)
    PROVE  /\ at[t] \in DOMAIN program[t] /\ at[t] \in Nat /\ at[t] + 1 \in 1..(Len(program[t]) + 1)
           /\ program[t][at[t]] = <<Call(t), Key(t)>> /\ Key(t) \in Int
           /\ Call(t) \in {"insert", "delete", "search", "join"}
<1>1. program[t] \in Seq({"insert", "delete", "search", "join"} \X Int)
  BY DEF Clients, TreeTypes, Orderly, Written
<1>2. at[t] \in 1..Len(program[t]) /\ at[t] \in Nat
  BY <1>1 DEF TreeTypes, Calls
<1>3. program[t][at[t]] \in {"insert", "delete", "search", "join"} \X Int
  BY <1>1, <1>2
<1>4. /\ program[t][at[t]] = <<Call(t), Key(t)>> /\ Key(t) \in Int
      /\ Call(t) \in {"insert", "delete", "search", "join"}
  BY <1>3 DEF Call, Key
<1> QED BY <1>1, <1>2, <1>4

\* What a step of one thread does not change of another.
Same(u) == /\ pc'[u] = pc[u] /\ at'[u] = at[u] /\ current'[u] = current[u] /\ parent'[u] = parent[u]
           /\ target'[u] = target[u] /\ doomed'[u] = doomed[u]
LEMMA StepOfOne ==
    ASSUME TreeTypes, NEW t \in Caller, Step(t)
    PROVE  program' = program /\ \A u \in Caller \ {t} : Same(u)
<1> SUFFICES ASSUME NEW u \in Caller \ {t} PROVE program' = program /\ Same(u)
  BY DEF Step, InsertRoot, InsertBegins, InsertReadsRoot, InsertMoves, InsertFinds, InsertLinks,
         ReadsRoot, NotFound, Searches, DeleteMoves, DeleteUnlinks, DeleteDescends, SuccessorMoves,
         DeleteReplaces, destroyNode, Joins
<1> USE DEF Same, TreeTypes, Goto, Returns
<1>1. CASE InsertRoot(t) \/ InsertBegins(t) \/ InsertReadsRoot(t)
  BY <1>1 DEF InsertRoot, InsertBegins, InsertReadsRoot
<1>2. CASE InsertMoves(t) \/ InsertFinds(t)
  BY <1>2 DEF InsertMoves, InsertFinds
<1>3. CASE InsertLinks(t)
  BY <1>3 DEF InsertLinks
<1>4. CASE ReadsRoot(t) \/ NotFound(t)
  BY <1>4 DEF ReadsRoot, NotFound
<1>5. CASE Searches(t)
  BY <1>5 DEF Searches
<1>6. CASE DeleteMoves(t)
  BY <1>6 DEF DeleteMoves
<1>7. CASE DeleteUnlinks(t)
  BY <1>7 DEF DeleteUnlinks
<1>8. CASE DeleteDescends(t)
  BY <1>8 DEF DeleteDescends
<1>9. CASE SuccessorMoves(t)
  BY <1>9 DEF SuccessorMoves
<1>10. CASE DeleteReplaces(t)
  BY <1>10 DEF DeleteReplaces
<1>11. CASE destroyNode(t) \/ Joins(t)
  BY <1>11 DEF destroyNode, Joins
<1> QED BY <1>1, <1>2, <1>3, <1>4, <1>5, <1>6, <1>7, <1>8, <1>9, <1>10, <1>11 DEF Step

\* The inserts of a program.
LEMMA AnInsertion ==
    ASSUME NEW p, NEW t, NEW i
    PROVE  <<t, i>> \in Insertions(p) <=> t \in Caller /\ i \in DOMAIN p[t] /\ p[t][i][1] = "insert"
BY DEF Insertions

\* There is a node for every insert that has not returned.
LEMMA InsertRoom ==
    ASSUME Clients, TreeTypes, NEW t \in Caller, Calls(t), Call(t) = "insert"
    PROVE  /\ used + 1 \in Node /\ used + 1 \notin 1..used /\ used + 1 \in 0..MaxNodes
           /\ program' = program /\ at' = [at EXCEPT ![t] = @ + 1] => used + 1 <= Cardinality(Returned')
<1> DEFINE I == Insertions(program)
           c == <<t, at[t]>>
<1>1. IsFiniteSet(I) /\ Cardinality(I) <= MaxNodes /\ Cardinality(I) \in Nat /\ MaxNodes \in Nat
  BY FS_CardinalityType DEF Clients, TreeTypes, Orderly, Written, Names
<1>2. at[t] \in DOMAIN program[t] /\ at[t] \in Nat /\ program[t][at[t]][1] = "insert"
  BY TheCall DEF Call
<1>3. c \in I /\ c[1] = t /\ c[2] = at[t]
  BY <1>2, AnInsertion
<1>4. c \notin Returned /\ Returned \subseteq I
  BY <1>2, <1>3 DEF Returned
<1> HIDE DEF I, c
<1>5. IsFiniteSet(Returned)
  BY <1>1, <1>4, FS_Subset
<1>6. IsFiniteSet(Returned \cup {c}) /\ Cardinality(Returned \cup {c}) = Cardinality(Returned) + 1
      /\ Cardinality(Returned) \in Nat
  BY <1>4, <1>5, FS_AddElement, FS_CardinalityType
<1>7. Cardinality(Returned) + 1 <= MaxNodes
  <2>1. Returned \cup {c} \subseteq I
    BY <1>3, <1>4
  <2>2. Cardinality(Returned \cup {c}) <= Cardinality(I)
    BY <1>1, <2>1, FS_Subset
  <2> QED BY <1>1, <1>6, <2>2
<1>8. used \in Nat /\ used <= Cardinality(Returned)
  BY <1>1 DEF TreeTypes
<1>9. ASSUME program' = program, at' = [at EXCEPT ![t] = @ + 1] PROVE Returned' = Returned \cup {c}
  <2>1. \A d \in I : d[1] \in Caller /\ d[2] \in DOMAIN program[d[1]] /\ d = <<d[1], d[2]>>
    BY DEF I, Insertions
  <2>2. \A u \in Caller : /\ at'[u] = IF u = t THEN at[u] + 1 ELSE at[u]
                          /\ at[u] \in Nat /\ DOMAIN program[u] \subseteq Nat
    <3>1. \A u \in Caller : program[u] \in Seq({"insert", "delete", "search", "join"} \X Int)
      BY DEF Clients, TreeTypes, Orderly, Written
    <3> QED BY <1>9, <3>1 DEF TreeTypes
  <2>3. Returned' = {d \in I : d[2] < at'[d[1]]}
    BY <1>9 DEF Returned, I
  <2>4. ASSUME NEW d \in I PROVE d[2] < at'[d[1]] <=> d[2] < at[d[1]] \/ d = c
    <3>1. d[1] \in Caller /\ d[2] \in Nat /\ d = <<d[1], d[2]>> /\ at[d[1]] \in Nat
      BY <2>1, <2>2
    <3>2. CASE d[1] = t
      <4>1. d = c <=> d[2] = at[t]
        BY <1>3, <3>1, <3>2 DEF c
      <4>2. at'[d[1]] = at[t] + 1 /\ at[d[1]] = at[t]
        BY <2>2, <3>1, <3>2
      <4> QED BY <3>1, <4>1, <4>2
    <3>3. CASE d[1] # t
      BY <1>3, <2>2, <3>1, <3>3
    <3> QED BY <3>2, <3>3
  <2> QED BY <1>3, <2>3, <2>4 DEF Returned, I
<1>10. used + 1 \in Node /\ used + 1 \notin 1..used /\ used + 1 \in 0..MaxNodes
  BY <1>1, <1>6, <1>7, <1>8 DEF Node
<1>11. ASSUME program' = program, at' = [at EXCEPT ![t] = @ + 1] PROVE used + 1 <= Cardinality(Returned')
  <2>1. Cardinality(Returned') = Cardinality(Returned) + 1
    BY <1>6, <1>9, <1>11
  <2> QED BY <1>6, <1>8, <2>1
<1> QED BY <1>10, <1>11

\* Calls only return.
LEMMA RoomKept ==
    ASSUME Clients, TreeTypes, program' = program, at' \in [Caller -> Nat],
           \A u \in Caller : at[u] <= at'[u]
    PROVE  used <= Cardinality(Returned')
<1>1. IsFiniteSet(Insertions(program)) /\ \A u \in Caller : at[u] \in Nat /\ at'[u] \in Nat
                                       /\ DOMAIN program[u] \subseteq Nat
  <2>1. \A u \in Caller : program[u] \in Seq({"insert", "delete", "search", "join"} \X Int)
    BY DEF Clients, TreeTypes, Orderly, Written
  <2> QED BY <2>1 DEF Clients, TreeTypes, Orderly, Written
<1>2. \A d \in Insertions(program) : d[1] \in Caller /\ d[2] \in DOMAIN program[d[1]]
  BY DEF Insertions
<1>3. Returned \subseteq Returned'
  <2> SUFFICES ASSUME NEW d \in Insertions(program), d[2] < at[d[1]] PROVE d[2] < at'[d[1]]
    BY DEF Returned
  <2>1. d[1] \in Caller /\ d[2] \in Nat /\ at[d[1]] \in Nat /\ at'[d[1]] \in Nat /\ at[d[1]] <= at'[d[1]]
    BY <1>1, <1>2
  <2> QED BY <2>1
<1>4. IsFiniteSet(Returned')
  <2>1. Returned' \subseteq Insertions(program)
    BY DEF Returned
  <2> QED BY <1>1, <2>1, FS_Subset
<1>5. Cardinality(Returned) <= Cardinality(Returned') /\ Cardinality(Returned) \in Nat
      /\ Cardinality(Returned') \in Nat
  BY <1>3, <1>4, FS_Subset, FS_CardinalityType
<1>6. used \in Int /\ used <= Cardinality(Returned)
  BY DEF TreeTypes, Clients, Names
<1> QED BY <1>5, <1>6

\* What a step may rely on: names, and the thread's own part of the invariant.
LEMMA AtWork ==
    ASSUME Clients, NEW S, NEW D, TreeState(S, D), NEW t \in Caller
    PROVE  /\ Names /\ TreeTypes /\ TreeOf(node, root, S, D) /\ TreeHeap(S) /\ Kept
           /\ \A u \in Caller : TreeThread(S, D, u)
           /\ NULL \notin Node /\ NULL \notin Caller /\ 1..used \subseteq Node /\ S \subseteq alive
           /\ \A n \in alive : n \in Node /\ node[n] \in Cell
           /\ pc[t] # "idle" => Calls(t)
<1>1. Names /\ NULL \notin Node /\ NULL \notin Caller /\ MaxNodes \in Nat
  BY DEF Clients, Names
<1>2. TreeTypes /\ TreeOf(node, root, S, D) /\ TreeHeap(S) /\ Kept /\ \A u \in Caller : TreeThread(S, D, u)
  BY DEF TreeState
<1>3. 1..used \subseteq Node /\ S \subseteq alive /\ \A n \in alive : n \in Node /\ node[n] \in Cell
  BY <1>1, <1>2 DEF TreeTypes, TreeHeap, Node
<1> QED BY <1>1, <1>2, <1>3 DEF TreeThread

\* The types stay as they are.
LEMMA TypesKept ==
    ASSUME Clients, NEW S, NEW D, TreeState(S, D), NEW t \in Caller, Step(t)
    PROVE  TreeTypes'
<1>0. /\ Names /\ TreeTypes /\ TreeOf(node, root, S, D) /\ TreeHeap(S) /\ Kept
      /\ \A u \in Caller : TreeThread(S, D, u)
      /\ NULL \notin Node /\ NULL \notin Caller /\ 1..used \subseteq Node /\ S \subseteq alive
      /\ \A n \in alive : n \in Node /\ node[n] \in Cell
      /\ pc[t] # "idle" => Calls(t)
  BY AtWork
<1>1. /\ root \in Node \cup {NULL} /\ S \subseteq Node /\ TreeThread(S, D, t) /\ used \in Nat
  BY <1>0 DEF TreeOf, TreeTypes, Names
<1> DEFINE Rest == /\ used <= Cardinality(Returned)
                   /\ program \in Programs /\ at \in [Caller -> Nat]
                   /\ \A u \in Caller : at[u] \in 1..(Len(program[u]) + 1)
           Nodes == /\ node \in [Node -> Cell \cup {NULL}] /\ \A n \in 1..used : node[n] \in Cell
                    /\ used \in 0..MaxNodes /\ alive \subseteq 1..used
           Threads == /\ owner \in [Node -> Caller \cup {NULL}] /\ pc \in [Caller -> Label]
                      /\ current \in [Caller -> Node \cup {NULL}] /\ parent \in [Caller -> Node \cup {NULL}]
                      /\ target \in [Caller -> Node \cup {NULL}] /\ doomed \in [Caller -> Node \cup {NULL}]
<1>2. Rest /\ Nodes /\ Threads
  BY <1>0 DEF TreeTypes
<1>3. program' = program
  BY <1>0, StepOfOne
<1>4. at' = at \/ (Calls(t) /\ at' = [at EXCEPT ![t] = @ + 1])
  BY <1>0 DEF Step, InsertRoot, InsertBegins, InsertReadsRoot, InsertMoves, InsertFinds, InsertLinks,
         ReadsRoot, NotFound, Searches, DeleteMoves, DeleteUnlinks, DeleteDescends, SuccessorMoves,
         DeleteReplaces, destroyNode, Joins, Returns
<1>5. /\ program' \in Programs /\ at' \in [Caller -> Nat]
      /\ \A u \in Caller : at'[u] \in 1..(Len(program'[u]) + 1) /\ at[u] <= at'[u]
  <2>1. CASE at' = at
    BY <1>2, <1>3, <2>1
  <2>2. CASE Calls(t) /\ at' = [at EXCEPT ![t] = @ + 1]
    <3>1. at[t] \in Nat /\ at[t] + 1 \in 1..(Len(program[t]) + 1)
      BY <1>0, <2>2, TheCall
    <3>2. \A u \in Caller : at[u] \in Nat
      BY <1>2
    <3> QED BY <1>2, <1>3, <2>2, <3>1, <3>2
  <2> QED BY <1>4, <2>1, <2>2
<1>6. used' = used => Rest'
  BY <1>0, <1>3, <1>5, RoomKept
<1>7. (Call(t) = "insert" /\ Calls(t) /\ Returns(t) /\ used' = used + 1) => Rest'
  BY <1>0, <1>3, <1>5, InsertRoom DEF Returns
<1> HIDE DEF Rest
<1>8. CASE InsertRoot(t)
  <2>1. used + 1 \in Node /\ used + 1 \in 0..MaxNodes /\ Key(t) \in Int
    BY <1>0, <1>8, InsertRoom, TheCall DEF InsertRoot
  <2>2. New(Key(t)) \in Cell
    BY <2>1 DEF New, Cell
  <2>3. node' = [node EXCEPT ![used + 1] = New(Key(t))] /\ used' = used + 1 /\ alive' = alive \cup {used + 1}
    BY <1>8 DEF InsertRoot, Allocates
  <2>4. Nodes'
    BY <1>1, <1>2, <2>1, <2>2, <2>3
  <2>5. Threads'
    BY <1>2, <1>8 DEF InsertRoot, Returns, Goto, Label
  <2>6. Rest'
    BY <1>7, <1>8, <2>3 DEF InsertRoot
  <2> QED BY <2>4, <2>5, <2>6 DEF TreeTypes, Rest
<1>9. CASE InsertLinks(t)
  <2> DEFINE n == current[t]
  <2>1. Call(t) = "insert" /\ Calls(t) /\ n \in alive /\ used' = used + 1 /\ alive' = alive \cup {used + 1}
    BY <1>0, <1>1, <1>9 DEF InsertLinks, TreeThread, Allocates
  <2>2. used + 1 \in Node /\ used + 1 \notin 1..used /\ used + 1 \in 0..MaxNodes /\ Key(t) \in Int
    BY <1>0, <2>1, InsertRoom, TheCall
  <2>3. New(Key(t)) \in Cell
    BY <2>2 DEF New, Cell
  <2>4. n \in 1..used /\ n \in Node /\ node[n] \in Cell /\ n # used + 1
    BY <1>0, <1>2, <2>1, <2>2
  <2>5. [node[n] EXCEPT ![LinkSide(n, Key(t))] = used + 1] \in Cell
    BY <2>2, <2>4 DEF LinkSide, Cell
  <2>6. node' = [node EXCEPT ![n] = [node[n] EXCEPT ![LinkSide(n, Key(t))] = used + 1],
                             ![used + 1] = New(Key(t))]
    BY <1>9 DEF InsertLinks
  <2>7. Nodes'
    <3> HIDE DEF n
    <3>1. /\ node'[n] \in Cell /\ node'[used + 1] \in Cell /\ node' \in [Node -> Cell \cup {NULL}]
          /\ \A m \in Node : m # n /\ m # used + 1 => node'[m] = node[m]
      BY <1>2, <2>2, <2>3, <2>4, <2>5, <2>6
    <3>2. used \in 0..MaxNodes /\ used \in Int /\ 1..used' = (1..used) \cup {used + 1}
      BY <1>1, <1>2, <2>1
    <3>3. \A m \in 1..used' : node'[m] \in Cell
      <4>1. \A m \in 1..used : m \in Node
        BY <1>0
      <4> QED BY <1>2, <3>1, <3>2, <4>1
    <3> QED BY <1>2, <2>1, <2>2, <3>1, <3>2, <3>3
  <2>8. Threads'
    BY <1>2, <1>9 DEF InsertLinks, Returns, Goto, Label, Unlocked
  <2>9. Rest'
    BY <1>7, <1>9, <2>1 DEF InsertLinks
  <2> QED BY <2>7, <2>8, <2>9 DEF TreeTypes, Rest
<1>10. CASE used' = used /\ node' = node /\ alive' \subseteq alive
  <2>1. Nodes'
    BY <1>2, <1>10
  <2>2. Rest'
    BY <1>6, <1>10
  <2>3. \A n \in alive : \A k : node[n][Side(n, k)] \in Node \cup {NULL}
    BY <1>0 DEF Side, Cell
  <2>4. Threads'
    <3> HIDE DEF Nodes
    <3>1. CASE InsertBegins(t) \/ InsertReadsRoot(t)
      BY <1>1, <1>2, <3>1 DEF InsertBegins, InsertReadsRoot, Goto, Label
    <3>2. CASE InsertMoves(t)
      BY <1>0, <1>2, <2>3, <3>2 DEF InsertMoves, Unlocked, Locked, Label
    <3>3. CASE InsertFinds(t)
      BY <1>2, <3>3 DEF InsertFinds, Unlocked, Returns, Goto, Label
    <3>4. CASE ReadsRoot(t)
      BY <1>1, <1>2, <3>4 DEF ReadsRoot, Goto, Label
    <3>5. CASE NotFound(t)
      BY <1>2, <3>5 DEF NotFound, Unlocked, Returns, Goto, Label
    <3>6. CASE Searches(t)
      BY <1>0, <1>2, <2>3, <3>6 DEF Searches, Returns, Goto, Label
    <3>7. CASE DeleteMoves(t)
      BY <1>0, <1>2, <2>3, <3>7 DEF DeleteMoves, Unlocked, Locked, Label
    <3>8. CASE DeleteDescends(t)
      <4>1. node[current[t]].right \in Node \cup {NULL} /\ current[t] \in Node
        BY <1>0, <3>8 DEF DeleteDescends, Cell
      <4> QED BY <1>2, <3>8, <4>1 DEF DeleteDescends, Locked, Goto, Label
    <3>9. CASE SuccessorMoves(t)
      <4>1. node[current[t]].left \in Node \cup {NULL} /\ current[t] \in Node
        BY <1>0, <3>9 DEF SuccessorMoves, Cell
      <4> QED BY <1>2, <3>9, <4>1 DEF SuccessorMoves, Unlocked, Locked, Label
    <3>10. CASE destroyNode(t) \/ Joins(t)
      BY <1>2, <3>10 DEF destroyNode, Joins, Returns, Goto, Label
    <3>11. CASE InsertRoot(t) \/ InsertLinks(t)
      BY <1>1, <1>10, <3>11 DEF InsertRoot, InsertLinks, Allocates
    <3>12. CASE DeleteUnlinks(t)
      <4>1. current[t] \in Node
        BY <1>0, <3>12 DEF DeleteUnlinks
      <4> QED BY <1>2, <3>12, <4>1 DEF DeleteUnlinks, Unlocked, Goto, Label
    <3>13. CASE DeleteReplaces(t)
      <4>1. current[t] \in Node
        BY <1>0, <3>13 DEF DeleteReplaces
      <4> QED BY <1>2, <3>13, <4>1 DEF DeleteReplaces, Unlocked, Goto, Label
    <3> QED BY <3>1, <3>2, <3>3, <3>4, <3>5, <3>6, <3>7, <3>8, <3>9, <3>10, <3>11, <3>12, <3>13 DEF Step
  <2> QED BY <2>1, <2>2, <2>4 DEF TreeTypes, Rest
<1>11. CASE DeleteUnlinks(t)
  <2> DEFINE n == current[t]
             p == parent[t]
  <2>1. n \in alive /\ OnlyChild(n) \in Node \cup {NULL}
    BY <1>0, <1>11 DEF DeleteUnlinks, OnlyChild, Cell
  <2>2. Nodes'
    <3>1. CASE p = NULL
      BY <1>2, <1>11, <3>1 DEF DeleteUnlinks
    <3>2. CASE p # NULL
      <4>1. p \in alive
        BY <1>0, <1>1, <1>11, <3>2 DEF DeleteUnlinks, TreeThread, Walking, WalksWell
      <4>2. [node[p] EXCEPT ![LinkTo(p, n)] = OnlyChild(n)] \in Cell
        BY <1>0, <2>1, <4>1 DEF LinkTo, Cell
      <4>3. node' = [node EXCEPT ![p] = [node[p] EXCEPT ![LinkTo(p, n)] = OnlyChild(n)]]
            /\ used' = used /\ alive' = alive
        BY <1>11, <3>2 DEF DeleteUnlinks
      <4>4. p \in Node
        BY <1>0, <4>1
      <4> HIDE DEF p, n
      <4>5. PICK x \in Cell : node' = [node EXCEPT ![p] = x]
        BY <4>2, <4>3
      <4>6. used' = used /\ alive' = alive
        BY <1>11 DEF DeleteUnlinks
      <4> QED BY <1>2, <4>4, <4>5, <4>6
    <3> QED BY <3>1, <3>2
  <2>3. Rest'
    BY <1>6, <1>11 DEF DeleteUnlinks
  <2>4. Threads'
    <3>1. n \in Node
      BY <1>0, <2>1
    <3> QED BY <1>2, <1>11, <3>1 DEF DeleteUnlinks, Unlocked, Goto, Label
  <2> QED BY <2>2, <2>3, <2>4 DEF TreeTypes, Rest
<1>12. CASE DeleteReplaces(t)
  <2> DEFINE s == current[t]
             p == parent[t]
             n == target[t]
             nd == [node EXCEPT ![n] = [node[n] EXCEPT !.value = node[s].value]]
  <2>1. s \in alive /\ p \in alive /\ n \in alive
    BY <1>0, <1>1, <1>12 DEF DeleteReplaces, TreeThread, Descends
  <2>2. BelowSuccessor(s) \in Node \cup {NULL} /\ node[s].value \in Int
    BY <1>0, <2>1 DEF BelowSuccessor, Cell
  <2>3. nd[n] \in Cell /\ nd \in [Node -> Cell \cup {NULL}] /\ \A m \in 1..used : nd[m] \in Cell
    <3>1. [node[n] EXCEPT !.value = node[s].value] \in Cell
      BY <1>0, <2>1, <2>2 DEF Cell
    <3>2. n \in Node
      BY <1>0, <2>1
    <3> HIDE DEF n, s
    <3> QED BY <1>2, <3>1, <3>2
  <2>4. node' = [nd EXCEPT ![p] = [nd[p] EXCEPT ![LinkTo(p, s)] = BelowSuccessor(s)]]
    BY <1>12 DEF DeleteReplaces
  <2>5. p \in 1..used /\ p \in Node
    BY <1>0, <1>2, <2>1
  <2> HIDE DEF nd, p, n, s
  <2>6. [nd[p] EXCEPT ![LinkTo(p, s)] = BelowSuccessor(s)] \in Cell
    BY <2>2, <2>3, <2>5 DEF LinkTo, Cell
  <2>7. Nodes'
    <3>1. used' = used /\ alive' = alive
      BY <1>12 DEF DeleteReplaces
    <3>2. PICK x \in Cell : node' = [nd EXCEPT ![p] = x]
      BY <2>4, <2>6
    <3> QED BY <1>2, <2>3, <2>5, <3>1, <3>2
  <2>8. Rest'
    BY <1>6, <1>12 DEF DeleteReplaces
  <2>9. Threads'
    <3>1. s \in Node
      BY <1>0, <2>1
    <3> QED BY <1>2, <1>12, <3>1 DEF DeleteReplaces, Unlocked, Goto, Label, s
  <2> QED BY <2>7, <2>8, <2>9 DEF TreeTypes, Rest
<1> QED BY <1>8, <1>9, <1>10, <1>11, <1>12
        DEF Step, InsertBegins, InsertReadsRoot, InsertMoves, InsertFinds, ReadsRoot, NotFound, Searches,
            DeleteMoves, DeleteDescends, SuccessorMoves, destroyNode, Joins
-----------------------------------------------------------------------------
(* What a step leaves of the other threads' part. *)

LEMMA WalkKept ==
    ASSUME Names, NEW S, NEW D, NEW S2, NEW D2, NEW u \in Caller, Same(u), program' = program,
           Walking(u), WalksWell(S, D, u), current[u] \in S2 \cup {NULL},
           parent[u] = NULL => current[u] \in {root', NULL},
           parent[u] # NULL => /\ parent[u] \in S2 /\ node'[parent[u]] = node[parent[u]]
                               /\ Fits(node', S2, D2, parent[u], Key(u))
    PROVE  WalksWell(S2, D2, u)'
<1>1. Key(u)' = Key(u)
  BY DEF Same, Key
<1> QED BY <1>1 DEF Same, WalksWell, Side, Walking

LEMMA DescentKept ==
    ASSUME Names, NEW S, NEW D, NEW S2, NEW D2, NEW u \in Caller, Same(u), program' = program,
           pc[u] = "successor", Descends(S, D, u), target[u] \in S2, parent[u] \in S2, current[u] \in S2,
           node'[target[u]] = node[target[u]], node'[parent[u]] = node[parent[u]],
           NEW top, top = node[target[u]].right,
           \A m \in S2 : m \in D[top] => m \in D2[top],
           \A a \in D2[top] :
              \/ current[u] \notin D2[node'[a].right] /\ current[u] \notin D2[a]
              \/ /\ a \in D[top]
                 /\ current[u] \in D2[node'[a].right] => current[u] \in D[node[a].right]
                 /\ current[u] \in D2[a] => current[u] \in D[a],
           \A v \in Caller \ {u} : Walking(v)' => parent'[v] \notin Way(D, u)
    PROVE  Descends(S2, D2, u)'
<1>1. /\ Key(u)' = Key(u) /\ current'[u] = current[u] /\ parent'[u] = parent[u] /\ target'[u] = target[u]
  BY DEF Same, Key
<1>2. /\ target[u] \in S /\ node[target[u]].value = Key(u)
      /\ parent[u] \in S /\ current[u] \in D[top]
      /\ IF parent[u] = target[u] THEN current[u] = top
         ELSE parent[u] \in D[top] /\ current[u] = node[parent[u]].left
      /\ \A a \in D[top] : current[u] \notin D[node[a].right]
  BY DEF Descends
<1>3. \A a \in D2[top] : current[u] \notin D2[node'[a].right]
  BY <1>2
<1>4. ASSUME NEW a \in D2[top], current[u] \in D2[a], a # current[u] PROVE a \in Way(D, u)
  BY <1>4 DEF Way
<1>5. \A v \in Caller \ {u} : Walking(v)' => parent'[v] \notin Way(D2, u)'
  BY <1>1, <1>4 DEF Way
<1>6. /\ target[u] \in S2 /\ node'[target[u]].value = Key(u) /\ node'[target[u]].right = top
      /\ parent[u] \in S2 /\ current[u] \in D2[top]
      /\ IF parent[u] = target[u] THEN current[u] = top
         ELSE parent[u] \in D2[top] /\ current[u] = node'[parent[u]].left
  BY <1>2
<1> QED BY <1>1, <1>3, <1>5, <1>6 DEF Descends

\* The parts together.
LEMMA ThreadKept ==
    ASSUME NEW S, NEW D, NEW S2, NEW D2, NEW u \in Caller, Same(u), program' = program,
           TreeThread(S, D, u),
           pc[u] = "root" => root' # NULL,
           Walking(u) => WalksWell(S2, D2, u)',
           pc[u] = "search" => SearchesWell(S2, D2, u)',
           pc[u] = "successor" => Descends(S2, D2, u)',
           pc[u] = "destroy" => doomed[u] \in alive' \ S2,
           \A n \in Holds(u) : owner'[n] = owner[n]
    PROVE  TreeThread(S2, D2, u)'
<1>1. /\ Calls(u)' = Calls(u) /\ Call(u)' = Call(u) /\ Walking(u)' = Walking(u) /\ Holds(u)' = Holds(u)
      /\ pc'[u] = pc[u] /\ doomed'[u] = doomed[u]
  BY DEF Same, Calls, Call, Walking, Holds
<1> QED BY <1>1 DEF TreeThread

\* A mutex that t takes was free, and one that it gives back was its own.
LEMMA OwnersKept ==
    ASSUME NEW S, NEW D, TreeState(S, D), NEW t \in Caller, NEW u \in Caller, u # t, NULL \notin Caller,
           \A n \in Node : owner'[n] = owner[n] \/ owner[n] \in {NULL, t}
    PROVE  \A n \in Holds(u) : owner'[n] = owner[n]
<1>1. TreeThread(S, D, u) /\ Holds(u) \subseteq Node \cup {NULL} /\ TreeOf(node, root, S, D)
  BY DEF TreeState, TreeTypes, Holds
<1>2. NULL \notin Holds(u)
  BY <1>1 DEF TreeState, TreeThread, Holds, TreeTypes, Descends, TreeOf
<1> QED BY <1>1, <1>2 DEF TreeThread

\* A step that leaves the tree as it is keeps the invariant, if its thread's part holds
\* afterwards, it takes only free mutexes and does not step on the way of another one.
LEMMA TreeLeftAlone ==
    ASSUME Clients, NEW S, NEW D, TreeState(S, D), NEW t \in Caller, Step(t),
           UNCHANGED <<root, node, keys>>, used' = used,
           \A n \in Node : owner'[n] = owner[n] \/ owner[n] \in {NULL, t},
           Walking(t)' => \A u \in Caller \ {t} : pc[u] = "successor" => parent'[t] \notin Way(D, u),
           pc'[t] # "destroy",
           alive' = IF pc[t] = "destroy" THEN alive \ {doomed[t]} ELSE alive,
           at'[t] = at[t] \/ ((root # NULL \/ Call(t) # "insert") /\ at' = [at EXCEPT ![t] = @ + 1]
                              /\ (Call(t) = "insert" => Key(t) \in keys) /\ Calls(t)),
           (\E r : Rooted(program, r)) /\ root = NULL => at'[t] = at[t],
           TreeThread(S, D, t)'
    PROVE  TreeState(S, D)'
<1>0. /\ Names /\ TreeTypes /\ TreeOf(node, root, S, D) /\ TreeHeap(S) /\ Kept
      /\ \A u \in Caller : TreeThread(S, D, u)
      /\ NULL \notin Node /\ NULL \notin Caller /\ 1..used \subseteq Node /\ S \subseteq alive
      /\ \A n \in alive : n \in Node /\ node[n] \in Cell
  BY AtWork
<1>1. program' = program /\ \A u \in Caller \ {t} : Same(u)
  BY <1>0, StepOfOne
<1>2. TreeTypes' /\ TreeOf(node, root, S, D)'
  BY <1>0, TypesKept
<1>3. TreeHeap(S)'
  <2>1. /\ \A u \in Caller : pc'[u] = "destroy" <=> pc[u] = "destroy" /\ u # t
        /\ \A u \in Caller : u # t => doomed'[u] = doomed[u]
    BY <1>1 DEF Same
  <2>2. Doomed' = {doomed[u] : u \in {v \in Caller : pc[v] = "destroy" /\ v # t}}
    BY <2>1 DEF Doomed
  <2>3. pc[t] = "destroy" => doomed[t] \notin S
    BY <1>0 DEF TreeThread
  <2>4. alive' = S \cup Doomed'
    <3>1. CASE pc[t] = "destroy"
      <4>1. alive = S \cup Doomed /\ alive' = alive \ {doomed[t]}
        BY <1>0, <3>1 DEF TreeHeap
      <4>2. \A x : x \in Doomed <=> \E u \in Caller : pc[u] = "destroy" /\ x = doomed[u]
        BY DEF Doomed
      <4>3. \A x : x \in Doomed' <=> \E u \in Caller : pc[u] = "destroy" /\ u # t /\ x = doomed[u]
        BY <2>2
      <4>4. \A u \in Caller : pc[u] = "destroy" /\ u # t => doomed[u] # doomed[t]
        BY <1>0, <3>1 DEF TreeHeap
      <4>5. \A x : x \in Doomed' <=> x \in Doomed /\ x # doomed[t]
        BY <4>2, <4>3, <4>4
      <4> QED BY <2>3, <3>1, <4>1, <4>5
    <3>2. CASE pc[t] # "destroy"
      BY <1>0, <2>2, <3>2 DEF TreeHeap, Doomed
    <3> QED BY <3>1, <3>2
  <2> QED BY <1>0, <2>1, <2>4 DEF TreeHeap
<1>4. Kept'
  <2>1. CASE at'[t] = at[t]
    <3>1. \A u \in Caller : at'[u] = at[u]
      BY <1>1, <2>1 DEF Same
    <3>2. \A u \in Caller : Inserted(u)' = Inserted(u)
      BY <1>1, <3>1 DEF Inserted
    <3> QED BY <1>0, <1>1, <3>1, <3>2 DEF Kept
  <2>2. CASE at' = [at EXCEPT ![t] = @ + 1] /\ (Call(t) = "insert" => Key(t) \in keys) /\ Calls(t)
    <3>1. at[t] \in Nat /\ at'[t] = at[t] + 1 /\ \A u \in Caller : u # t => at'[u] = at[u]
      BY <1>0, <2>2 DEF TreeTypes
    <3>2. \A u \in Caller : Inserted(u)' \subseteq Inserted(u) \cup keys
      <4>1. \A u \in Caller : u # t => Inserted(u)' = Inserted(u)
        BY <1>1, <3>1 DEF Inserted
      <4>2. Inserted(t)' \subseteq Inserted(t) \cup keys
        <5>1. 1..(at'[t] - 1) \subseteq (1..(at[t] - 1)) \cup {at[t]}
          BY <3>1
        <5> QED BY <1>1, <2>2, <5>1 DEF Inserted, Call, Key
      <4> QED BY <4>1, <4>2
    <3>3. ~((\E r : Rooted(program, r)) /\ root = NULL)
      BY <3>1
    <3> QED BY <1>0, <1>1, <3>2, <3>3 DEF Kept
  <2> QED BY <2>1, <2>2
<1>5. ASSUME NEW u \in Caller, u # t PROVE TreeThread(S, D, u)'
  <2>0. Same(u) /\ TreeThread(S, D, u)
    BY <1>0, <1>1, <1>5
  <2>1. Walking(u) => WalksWell(S, D, u)'
    <3> SUFFICES ASSUME Walking(u) PROVE WalksWell(S, D, u)'
      OBVIOUS
    <3>1. WalksWell(S, D, u)
      BY <2>0 DEF TreeThread
    <3>2. parent[u] # NULL => parent[u] \in S /\ Fits(node', S, D, parent[u], Key(u))
      BY <3>1 DEF WalksWell
    <3>3. current[u] \in S \cup {NULL} /\ (parent[u] = NULL => current[u] \in {root', NULL})
      BY <3>1 DEF WalksWell
    <3>4. node' = node
      OBVIOUS
    <3> QED BY <1>0, <1>1, <2>0, <3>1, <3>2, <3>3, <3>4, WalkKept
  <2>2. pc[u] = "search" => SearchesWell(S, D, u)'
    <3>1. Key(u)' = Key(u) /\ Inserted(u)' = Inserted(u) /\ current'[u] = current[u] /\ parent'[u] = parent[u]
      BY <1>1, <2>0 DEF Same, Key, Inserted
    <3> QED BY <2>0, <3>1 DEF TreeThread, SearchesWell
  <2>3. pc[u] = "successor" => Descends(S, D, u)'
    <3> SUFFICES ASSUME pc[u] = "successor" PROVE Descends(S, D, u)'
      OBVIOUS
    <3>1. Descends(S, D, u)
      BY <2>0 DEF TreeThread
    <3>2. target[u] \in S /\ parent[u] \in S /\ current[u] \in S
      <4>1. target[u] \in S /\ parent[u] \in S /\ current[u] \in D[node[target[u]].right]
        BY <3>1 DEF Descends
      <4>2. D[node[target[u]].right] \subseteq S
        BY <1>0, <4>1, InTree
      <4> QED BY <4>1, <4>2
    <3>3. \A v \in Caller \ {u} : Walking(v)' => parent'[v] \notin Way(D, u)
      <4>1. \A v \in Caller \ {u} : v # t => Walking(v)' = Walking(v) /\ parent'[v] = parent[v]
        BY <1>1 DEF Same, Walking
      <4>2. \A v \in Caller \ {u} : Walking(v) => parent[v] \notin Way(D, u)
        BY <3>1 DEF Descends
      <4> QED BY <1>5, <4>1, <4>2
    <3>4. Key(u)' = Key(u) /\ current'[u] = current[u] /\ parent'[u] = parent[u] /\ target'[u] = target[u]
      BY <1>1, <2>0 DEF Same, Key
    <3>5. Way(D, u)' = Way(D, u)
      BY <3>4 DEF Way
    <3> QED BY <3>1, <3>3, <3>4, <3>5 DEF Descends
  <2>4. pc[u] = "destroy" => doomed[u] \in alive' \ S
    <3>1. pc[u] = "destroy" => doomed[u] \in alive \ S
      BY <2>0 DEF TreeThread
    <3>2. pc[u] = "destroy" /\ pc[t] = "destroy" => doomed[u] # doomed[t]
      BY <1>0, <1>5 DEF TreeHeap
    <3> QED BY <3>1, <3>2
  <2>5. \A n \in Holds(u) : owner'[n] = owner[n]
    BY <1>0, <1>5, OwnersKept
  <2>6. pc[u] = "root" => root' # NULL
    BY <2>0 DEF TreeThread
  <2> QED BY <1>1, <2>0, <2>1, <2>2, <2>3, <2>4, <2>5, <2>6, ThreadKept
<1> QED BY <1>2, <1>3, <1>4, <1>5 DEF TreeState
-----------------------------------------------------------------------------
(* Steps that leave the tree as it is. *)

\* A step of a walk: its next node is locked, the parent given back.
LEMMA WalkMoves ==
    ASSUME Clients, NEW S, NEW D, TreeState(S, D), NEW t \in Caller, InsertMoves(t) \/ DeleteMoves(t)
    PROVE  TreeState(S, D)'
<1> DEFINE n == current[t]
           p == parent[t]
           c == node[n][Side(n, Key(t))]
<1>0. /\ Names /\ TreeTypes /\ TreeOf(node, root, S, D) /\ TreeHeap(S) /\ Kept
      /\ \A u \in Caller : TreeThread(S, D, u)
      /\ NULL \notin Node /\ NULL \notin Caller /\ 1..used \subseteq Node /\ S \subseteq alive
      /\ \A m \in alive : m \in Node /\ node[m] \in Cell
      /\ pc[t] # "idle" => Calls(t)
  BY AtWork
<1>1. /\ pc[t] \in {"insert", "delete"} /\ n \in alive /\ owner[n] = NULL /\ Key(t) # node[n].value
      /\ pc[t] = "insert" => c # NULL
      /\ owner' = Unlocked(Locked(n, t), {p})
      /\ parent' = [parent EXCEPT ![t] = n] /\ current' = [current EXCEPT ![t] = c]
      /\ UNCHANGED <<root, node, alive, used, program, at, pc, target, doomed, keys>>
  BY DEF InsertMoves, DeleteMoves
<1>2. /\ TreeThread(S, D, t) /\ Walking(t) /\ WalksWell(S, D, t) /\ Calls(t) /\ Call(t) = pc[t] /\ Key(t) \in Int
  BY <1>0, <1>1, TheCall DEF TreeThread, Walking
<1>3. n \in S /\ n \in Node /\ n # NULL /\ c \in S \cup {NULL}
  <2>1. n \in S /\ n \in Node
    BY <1>0, <1>1, <1>2 DEF WalksWell
  <2>2. node[n].left \in S \cup {NULL} /\ node[n].right \in S \cup {NULL}
    BY <1>0, <2>1 DEF TreeOf
  <2> QED BY <1>0, <2>1, <2>2 DEF Side
<1>4. p # NULL => p \in S /\ owner[p] = t /\ Child(node, p, n)
  <2>1. p # NULL => p \in Holds(t)
    BY <1>2 DEF Holds
  <2> QED BY <1>2, <1>3, <2>1 DEF TreeThread, WalksWell, Child, Side
<1>5. Fits(node, S, D, n, Key(t))
  <2>1. CASE p = NULL
    BY <1>0, <1>2, <1>3, <2>1, FitsRoot DEF WalksWell
  <2>2. CASE p # NULL
    <3>1. /\ p \in S /\ Key(t) # node[p].value /\ Fits(node, S, D, p, Key(t))
          /\ n = IF Key(t) < node[p].value THEN node[p].left ELSE node[p].right
      BY <1>2, <2>2 DEF WalksWell, Side
    <3> QED BY <1>0, <1>2, <1>3, <3>1, FitsChild
  <2> QED BY <2>1, <2>2
<1>6. TreeThread(S, D, t)'
  <2>1. /\ parent'[t] = n /\ current'[t] = c /\ Key(t)' = Key(t) /\ pc'[t] = pc[t] /\ Calls(t)' = Calls(t)
        /\ Call(t)' = Call(t) /\ Walking(t)'
    BY <1>0, <1>1 DEF TreeTypes, Key, Calls, Call, Walking
  <2>2. WalksWell(S, D, t)'
    BY <1>1, <1>3, <1>5, <2>1 DEF WalksWell, Side
  <2>3. owner'[n] = t
    <3>1. p # n
      BY <1>0, <1>1, <1>4
    <3> QED BY <1>0, <1>1, <1>3, <3>1 DEF Unlocked, Locked, TreeTypes
  <2>4. Holds(t)' = {n}
    BY <1>3, <2>1 DEF Holds
  <2> QED BY <1>1, <1>2, <2>1, <2>2, <2>3, <2>4 DEF TreeThread
<1>7. \A m \in Node : owner'[m] = owner[m] \/ owner[m] \in {NULL, t}
  BY <1>0, <1>1, <1>4 DEF Unlocked, Locked, TreeTypes
<1>8. ASSUME NEW u \in Caller \ {t}, pc[u] = "successor" PROVE n \notin Way(D, u)
  <2> DEFINE q == target[u]
             top == node[q].right
  <2> SUFFICES ASSUME n \in Way(D, u) PROVE FALSE
    OBVIOUS
  <2>1. Descends(S, D, u) /\ TreeThread(S, D, u)
    BY <1>0, <1>8 DEF TreeThread
  <2>2. /\ q \in S /\ q \in Holds(u) /\ n \in D[top] /\ current[u] \in D[n] /\ n # current[u]
        /\ p \notin Way(D, u) /\ owner[q] = u
    BY <1>2, <1>8, <2>1 DEF Descends, Holds, Walking, Way, TreeThread
  <2>3. top \in S /\ Child(node, q, top)
    BY <1>0, <2>2 DEF TreeOf, Child
  <2> HIDE DEF q, top
  <2>4. CASE p = NULL
    <3>1. n = root /\ q \in D[n]
      BY <1>0, <1>2, <1>3, <2>2, <2>4, InTree DEF WalksWell
    <3>2. D[top] \subseteq D[q] /\ q \notin D[top]
      BY <1>0, <2>2, <2>3, ChildBelow
    <3>3. n = q
      BY <1>0, <1>3, <2>2, <3>1, <3>2, OneBelow
    <3> QED BY <2>2, <3>2, <3>3
  <2>5. CASE p # NULL
    <3>1. CASE n = top
      <4>1. p = q
        BY <1>0, <1>4, <2>2, <2>3, <2>5, <3>1, OneParent
      <4> QED BY <1>4, <1>8, <2>2, <2>5, <4>1
    <3>2. CASE n # top
      <4>1. p \in D[top] /\ p \in S
        BY <1>0, <1>4, <2>2, <2>3, <2>5, <3>2, AboveParent
      <4>2. D[n] \subseteq D[p] /\ p \notin D[n]
        BY <1>0, <1>4, <2>5, ChildBelow
      <4>3. current[u] \in D[p] /\ p # current[u]
        BY <2>2, <4>2
      <4>4. p \in Way(D, u)
        BY <4>1, <4>3 DEF Way, top, q
      <4> QED BY <2>2, <4>4
    <3> QED BY <3>1, <3>2
  <2> QED BY <2>4, <2>5
<1>9. Step(t)
  BY DEF Step
<1>10. /\ parent'[t] = n /\ pc'[t] = pc[t] /\ pc[t] # "destroy" /\ at'[t] = at[t]
  BY <1>0, <1>1 DEF TreeTypes
<1> HIDE DEF n, p, c
<1> QED BY <1>1, <1>6, <1>7, <1>8, <1>9, <1>10, TreeLeftAlone

\* A walk or a search begins, or an insert is about to read the root.
LEMMA ReadingRoot ==
    ASSUME Clients, NEW S, NEW D, TreeState(S, D), NEW t \in Caller,
           InsertBegins(t) \/ InsertReadsRoot(t) \/ ReadsRoot(t)
    PROVE  TreeState(S, D)'
<1>0. /\ Names /\ TreeTypes /\ TreeOf(node, root, S, D) /\ TreeHeap(S) /\ Kept
      /\ \A u \in Caller : TreeThread(S, D, u)
      /\ NULL \notin Node /\ NULL \notin Caller /\ 1..used \subseteq Node /\ S \subseteq alive
      /\ pc[t] # "idle" => Calls(t)
  BY AtWork
<1>1. /\ UNCHANGED <<root, node, alive, used, owner, program, at, target, doomed, keys>>
      /\ Calls(t) /\ pc[t] # "destroy"
  BY <1>0 DEF InsertBegins, InsertReadsRoot, ReadsRoot
<1>2. Calls(t)' /\ Call(t)' = Call(t) /\ Key(t)' = Key(t) /\ Inserted(t)' = Inserted(t)
  BY <1>1 DEF Calls, Call, Key, Inserted
<1>3. TreeThread(S, D, t)' /\ pc'[t] # "destroy" /\ (Walking(t)' => parent'[t] = NULL)
  <2>1. CASE InsertBegins(t)
    <3>1. pc'[t] = "root" /\ Call(t) = "insert" /\ root # NULL
      BY <1>0, <2>1 DEF InsertBegins, Goto, TreeTypes
    <3> QED BY <1>1, <1>2, <3>1 DEF TreeThread, Walking, Holds
  <2>2. CASE InsertReadsRoot(t)
    <3>1. pc'[t] = "insert" /\ parent'[t] = NULL /\ current'[t] = root /\ Call(t) = "insert" /\ root # NULL
      BY <1>0, <2>2 DEF InsertReadsRoot, Goto, TreeTypes, TreeThread
    <3>2. root \in S
      BY <1>0, <3>1 DEF TreeOf
    <3> QED BY <1>1, <1>2, <3>1, <3>2 DEF TreeThread, Walking, Holds, WalksWell
  <2>3. CASE ReadsRoot(t)
    <3>1. pc'[t] = Call(t) /\ Call(t) \in {"delete", "search"} /\ parent'[t] = NULL /\ current'[t] = root
      BY <1>0, <2>3 DEF ReadsRoot, Goto, TreeTypes
    <3>2. root \in S \cup {NULL} /\ D[root] = S
      BY <1>0 DEF TreeOf
    <3>3. SearchesWell(S, D, t)'
      <4>1. {node[m].value : m \in S} = keys
        BY <1>0 DEF TreeHeap
      <4> QED BY <1>1, <1>2, <3>1, <3>2, <4>1 DEF SearchesWell
    <3> QED BY <1>1, <1>2, <3>1, <3>2, <3>3 DEF TreeThread, Walking, Holds, WalksWell
  <2> QED BY <2>1, <2>2, <2>3
<1>4. Walking(t)' => \A u \in Caller \ {t} : pc[u] = "successor" => parent'[t] \notin Way(D, u)
  <2> SUFFICES ASSUME NEW u \in Caller, pc[u] = "successor" PROVE NULL \notin Way(D, u)
    BY <1>3
  <2>1. target[u] \in S
    BY <1>0 DEF TreeThread, Descends
  <2>2. D[node[target[u]].right] \subseteq S
    BY <1>0, <2>1, InTree
  <2>3. NULL \notin S
    BY <1>0 DEF TreeOf
  <2> QED BY <2>2, <2>3 DEF Way
<1>5. Step(t)
  BY DEF Step
<1> QED BY <1>1, <1>3, <1>4, <1>5, TreeLeftAlone

\* A call returns, having changed nothing.
LEMMA ReturnsIdle ==
    ASSUME Clients, NEW S, NEW D, TreeState(S, D), NEW t \in Caller,
           \/ InsertFinds(t) \/ NotFound(t) \/ Joins(t) \/ destroyNode(t)
           \/ Searches(t) /\ Key(t) = node[current[t]].value
    PROVE  TreeState(S, D)'
<1>0. /\ Names /\ TreeTypes /\ TreeOf(node, root, S, D) /\ TreeHeap(S) /\ Kept
      /\ \A u \in Caller : TreeThread(S, D, u)
      /\ NULL \notin Node /\ NULL \notin Caller /\ 1..used \subseteq Node /\ S \subseteq alive
      /\ pc[t] # "idle" => Calls(t)
  BY AtWork
<1>1. /\ UNCHANGED <<root, node, used, program, target, doomed, keys, parent>> /\ Calls(t) /\ Returns(t)
      /\ alive' = IF pc[t] = "destroy" THEN alive \ {doomed[t]} ELSE alive
      /\ owner' = owner \/ (owner' = Unlocked(owner, {parent[t]}) /\ pc[t] \in {"insert", "delete", "search"})
  BY <1>0 DEF InsertFinds, NotFound, Joins, destroyNode, Searches, GivesParentBack
<1>2. /\ pc'[t] = "idle" /\ at' = [at EXCEPT ![t] = @ + 1] /\ TreeThread(S, D, t)
  BY <1>0, <1>1 DEF Returns, Goto, TreeTypes
<1>3. TreeThread(S, D, t)' /\ pc'[t] # "destroy" /\ ~Walking(t)'
  BY <1>2 DEF TreeThread, Walking, Holds
<1>4. \A m \in Node : owner'[m] = owner[m] \/ owner[m] \in {NULL, t}
  <2>1. CASE owner' = owner
    BY <2>1
  <2>2. CASE owner' = Unlocked(owner, {parent[t]}) /\ pc[t] \in {"insert", "delete", "search"}
    <3>1. parent[t] = NULL \/ owner[parent[t]] = t
      <4>1. CASE pc[t] = "search"
        BY <1>2, <4>1 DEF TreeThread, SearchesWell
      <4>2. CASE pc[t] # "search"
        BY <1>2, <2>2, <4>2 DEF TreeThread, Holds, Walking
      <4> QED BY <4>1, <4>2
    <3> QED BY <1>0, <2>2, <3>1 DEF Unlocked
  <2> QED BY <1>1, <2>1, <2>2
<1>5. Call(t) = "insert" => Key(t) \in keys /\ root # NULL
  <2> SUFFICES ASSUME Call(t) = "insert" PROVE Key(t) \in keys /\ root # NULL
    OBVIOUS
  <2>1. InsertFinds(t)
    BY <1>0 DEF TreeThread, NotFound, Joins, destroyNode, Searches
  <2>2. current[t] \in S /\ Key(t) = node[current[t]].value
    BY <1>0, <2>1 DEF TreeThread, InsertFinds, Walking, WalksWell, TreeTypes
  <2>3. {node[m].value : m \in S} = keys
    BY <1>0 DEF TreeHeap
  <2>4. root # NULL
    BY <1>0, <2>2, InTree
  <2> QED BY <2>2, <2>3, <2>4
<1>6. (\E r : Rooted(program, r)) /\ root = NULL => at'[t] = at[t]
  <2> SUFFICES ASSUME NEW r, Rooted(program, r), root = NULL PROVE FALSE
    OBVIOUS
  <2>1. at[t] = 1 /\ program[t][at[t]] = <<Call(t), Key(t)>> /\ at[t] \in DOMAIN program[t]
    BY <1>0, <1>1, TheCall DEF Kept
  <2>2. Call(t) = "insert"
    BY <2>1 DEF Rooted
  <2> QED BY <1>5, <2>2
<1>7. root # NULL \/ Call(t) # "insert"
  BY <1>5
<1>8. Step(t)
  BY DEF Step
<1> HIDE DEF Step
<1> QED BY <1>1, <1>2, <1>3, <1>4, <1>5, <1>6, <1>7, <1>8, TreeLeftAlone

\* A search goes on to the side on which its value belongs.
LEMMA SearchGoesOn ==
    ASSUME Clients, NEW S, NEW D, TreeState(S, D), NEW t \in Caller,
           Searches(t), Key(t) # node[current[t]].value
    PROVE  TreeState(S, D)'
<1> DEFINE n == current[t]
           c == node[n][Side(n, Key(t))]
<1>0. /\ Names /\ TreeTypes /\ TreeOf(node, root, S, D) /\ TreeHeap(S) /\ Kept
      /\ \A u \in Caller : TreeThread(S, D, u)
      /\ NULL \notin Node /\ NULL \notin Caller /\ 1..used \subseteq Node /\ S \subseteq alive
      /\ \A m \in alive : m \in Node /\ node[m] \in Cell
      /\ pc[t] # "idle" => Calls(t)
  BY AtWork
<1>1. /\ UNCHANGED <<root, node, alive, used, owner, program, at, pc, parent, target, doomed, keys>>
      /\ pc[t] = "search" /\ n \in alive /\ Calls(t) /\ current' = [current EXCEPT ![t] = c]
  BY <1>0 DEF Searches
<1>2. TreeThread(S, D, t) /\ SearchesWell(S, D, t) /\ Key(t) \in Int /\ n \in S
  BY <1>0, <1>1, TheCall DEF TreeThread, SearchesWell
<1>3. /\ Calls(t)' = Calls(t) /\ Call(t)' = Call(t) /\ Key(t)' = Key(t) /\ Inserted(t)' = Inserted(t)
      /\ current'[t] = c
  BY <1>0, <1>1 DEF Calls, Call, Key, Inserted, TreeTypes
<1>4. c \in S \cup {NULL} /\ \A m \in D[n] : node[m].value = Key(t) => m \in D[c]
  <2>1. /\ node[n].left \in S \cup {NULL} /\ node[n].right \in S \cup {NULL} /\ node[n].value \in Int
        /\ D[n] = {n} \cup D[node[n].left] \cup D[node[n].right]
        /\ \A m \in D[node[n].left] : node[m].value < node[n].value
        /\ \A m \in D[node[n].right] : node[m].value > node[n].value
    BY <1>0, <1>2 DEF TreeOf
  <2>2. CASE Key(t) < node[n].value
    BY <1>2, <2>1, <2>2 DEF Side
  <2>3. CASE ~(Key(t) < node[n].value)
    BY <1>2, <2>1, <2>3 DEF Side
  <2> QED BY <2>2, <2>3
<1>5. TreeThread(S, D, t)'
  <2>1. SearchesWell(S, D, t)'
    BY <1>1, <1>2, <1>3, <1>4 DEF SearchesWell
  <2> QED BY <1>1, <1>2, <1>3, <2>1 DEF TreeThread, Walking, Holds
<1>6. Step(t) /\ ~Walking(t)'
  BY <1>1 DEF Step, Walking
<1> QED BY <1>1, <1>5, <1>6, TreeLeftAlone

\* The way to the successor begins at the right child.
LEMMA DescentBegins ==
    ASSUME Clients, NEW S, NEW D, TreeState(S, D), NEW t \in Caller, DeleteDescends(t)
    PROVE  TreeState(S, D)'
<1> DEFINE n == current[t]
           c == node[n].right
<1>0. /\ Names /\ TreeTypes /\ TreeOf(node, root, S, D) /\ TreeHeap(S) /\ Kept
      /\ \A u \in Caller : TreeThread(S, D, u)
      /\ NULL \notin Node /\ NULL \notin Caller /\ 1..used \subseteq Node /\ S \subseteq alive
      /\ \A m \in alive : m \in Node /\ node[m] \in Cell
      /\ pc[t] # "idle" => Calls(t)
  BY AtWork
<1>1. /\ pc[t] = "delete" /\ n \in alive /\ owner[n] = NULL /\ Key(t) = node[n].value /\ c # NULL
      /\ owner' = Locked(n, t) /\ Calls(t)
      /\ UNCHANGED <<root, node, alive, used, program, at, doomed, keys>>
  BY <1>0 DEF DeleteDescends
<1>2. /\ parent'[t] = n /\ target'[t] = n /\ current'[t] = c /\ pc'[t] = "successor"
  BY <1>0 DEF DeleteDescends, Goto, TreeTypes
<1>3. n \in S /\ n \in Node /\ Call(t) = "delete"
  BY <1>0, <1>1 DEF TreeThread, Walking, WalksWell
<1>4. Child(node, n, c)
  BY <1>1 DEF Child
<1>5. c \in S /\ c \in D[c]
  BY <1>0, <1>3, <1>4, ChildBelow
<1>6. Calls(t)' = Calls(t) /\ Call(t)' = Call(t) /\ Key(t)' = Key(t)
  BY <1>1 DEF Calls, Call, Key
<1>7. ASSUME NEW a \in D[c] PROVE c \notin D[node[a].right] /\ (c \in D[a] => a = c)
  <2>1. a \in S
    BY <1>0, <1>5, InTree
  <2>2. c \in D[a] => a = c
    BY <1>0, <1>5, <1>7, <2>1, OneBelow
  <2>3. D[node[a].right] \subseteq D[a] /\ a \notin D[node[a].right]
    BY <1>0, <2>1, InTree DEF TreeOf
  <2> QED BY <2>2, <2>3
<1>8. Way(D, t)' = {}
  BY <1>1, <1>2, <1>7 DEF Way
<1>9. Descends(S, D, t)'
  BY <1>1, <1>2, <1>3, <1>5, <1>6, <1>7, <1>8 DEF Descends
<1>10. owner'[n] = t /\ \A m \in Node : owner'[m] = owner[m] \/ owner[m] \in {NULL, t}
  BY <1>0, <1>1, <1>3 DEF Locked, TreeTypes
<1>11. TreeThread(S, D, t)'
  BY <1>1, <1>2, <1>3, <1>6, <1>9, <1>10 DEF TreeThread, Walking, Holds
<1>12. Step(t) /\ ~Walking(t)' /\ pc'[t] # "destroy" /\ at'[t] = at[t]
  BY <1>1, <1>2 DEF Step, Walking
<1> HIDE DEF n, c
<1> QED BY <1>1, <1>10, <1>11, <1>12, TreeLeftAlone

\* ... and goes on to the left.
LEMMA DescentMoves ==
    ASSUME Clients, NEW S, NEW D, TreeState(S, D), NEW t \in Caller, SuccessorMoves(t)
    PROVE  TreeState(S, D)'
<1> DEFINE s == current[t]
           c == node[s].left
           q == target[t]
           top == node[q].right
<1>0. /\ Names /\ TreeTypes /\ TreeOf(node, root, S, D) /\ TreeHeap(S) /\ Kept
      /\ \A u \in Caller : TreeThread(S, D, u)
      /\ NULL \notin Node /\ NULL \notin Caller /\ 1..used \subseteq Node /\ S \subseteq alive
      /\ \A m \in alive : m \in Node /\ node[m] \in Cell
      /\ pc[t] # "idle" => Calls(t)
  BY AtWork
<1>1. /\ pc[t] = "successor" /\ s \in alive /\ owner[s] = NULL /\ c # NULL /\ Calls(t)
      /\ owner' = Unlocked(Locked(s, t), {parent[t]} \ {q})
      /\ UNCHANGED <<root, node, alive, used, program, at, pc, target, doomed, keys>>
  BY <1>0 DEF SuccessorMoves
<1>2. /\ parent'[t] = s /\ current'[t] = c
  BY <1>0 DEF SuccessorMoves, TreeTypes
<1>3. /\ Descends(S, D, t) /\ Call(t) = "delete" /\ owner[q] = t /\ owner[parent[t]] = t
      /\ q \in S /\ s \in D[top] /\ node[q].value = Key(t)
      /\ \A a \in D[top] : s \notin D[node[a].right]
      /\ \A u \in Caller \ {t} : Walking(u) => parent[u] \notin Way(D, t)
  BY <1>0, <1>1 DEF TreeThread, Descends, Holds, Walking
<1>4. D[top] \subseteq S /\ q \notin D[top]
  BY <1>0, <1>3, InTree DEF TreeOf
<1>5. s \in S /\ s \in Node /\ s # q /\ Child(node, s, c)
  BY <1>0, <1>1, <1>3, <1>4 DEF Child
<1>6. c \in S /\ c \in D[s] /\ c \in D[c] /\ s \notin D[c] /\ c # s
  BY <1>0, <1>5, ChildBelow
<1>7. top \in S
  BY <1>0, <1>3 DEF TreeOf
<1>8. c \in D[top]
  BY <1>0, <1>3, <1>6, <1>7 DEF TreeOf
<1>9. Calls(t)' = Calls(t) /\ Call(t)' = Call(t) /\ Key(t)' = Key(t)
  BY <1>1 DEF Calls, Call, Key
<1> HIDE DEF c, s, q, top
<1>10. ASSUME NEW a \in D[top] PROVE c \notin D[node[a].right]
  <2>1. a \in S
    BY <1>4
  <2>2. CASE a = s
    BY <1>0, <1>5, <1>6, <2>2 DEF TreeOf, c
  <2>3. CASE a # s /\ c \in D[node[a].right]
    <3>1. node[a].right \in S
      BY <1>0, <2>1, <2>3 DEF TreeOf
    <3>2. c # node[a].right
      <4>1. NULL \notin S
        BY <1>0 DEF TreeOf
      <4> QED BY <1>0, <1>5, <2>1, <2>3, <3>1, <4>1, OneParent DEF Child
    <3>3. s \in D[node[a].right]
      BY <1>0, <1>5, <2>3, <3>1, <3>2, AboveParent
    <3> QED BY <1>3, <3>3
  <2> QED BY <2>2, <2>3
<1>11. ASSUME NEW a \in D[top], c \in D[a], a # c PROVE a = s \/ a \in Way(D, t)
  <2>1. a \in S
    BY <1>4
  <2>2. s \in D[a]
    BY <1>0, <1>5, <1>11, <2>1, AboveParent
  <2> QED BY <2>2 DEF Way, top, q, s
<1>12. ASSUME NEW u \in Caller \ {t}, Walking(u)' PROVE parent'[u] \notin Way(D, t)'
  <2>1. Step(t)
    BY DEF Step
  <2>2. Same(u)
    BY <1>0, <2>1, StepOfOne
  <2>3. Walking(u) /\ parent'[u] = parent[u]
    BY <1>12, <2>2 DEF Same, Walking
  <2>4. parent[u] # s
    <3>1. ASSUME parent[u] = s PROVE owner[s] = u
      BY <1>0, <1>5, <2>3, <3>1 DEF TreeThread, Holds
    <3> QED BY <1>0, <1>1, <3>1
  <2>5. parent[u] \notin Way(D, t)
    BY <1>3, <2>3
  <2>6. Way(D, t)' = {a \in D[top] : c \in D[a] /\ a # c}
    BY <1>1, <1>2 DEF Way, top, q
  <2> QED BY <1>11, <2>3, <2>4, <2>5, <2>6
<1>13. target'[t] = q /\ node'[q].right = top /\ node'[q].value = Key(t)' /\ node' = node
  BY <1>1, <1>3, <1>9 DEF q, top
<1>14. Descends(S, D, t)'
  BY <1>2, <1>3, <1>5, <1>8, <1>10, <1>12, <1>13 DEF Descends, c
<1>15. owner'[s] = t /\ owner'[q] = t /\ \A m \in Node : owner'[m] = owner[m] \/ owner[m] \in {NULL, t}
  <2>1. parent[t] # s /\ s # NULL
    BY <1>0, <1>1, <1>3, <1>5
  <2>2. q \in Node
    BY <1>0, <1>3
  <2> QED BY <1>0, <1>1, <1>3, <1>5, <2>1, <2>2 DEF Unlocked, Locked, TreeTypes
<1>16. TreeThread(S, D, t)'
  BY <1>1, <1>2, <1>3, <1>9, <1>13, <1>14, <1>15 DEF TreeThread, Walking, Holds
<1>17. Step(t) /\ ~Walking(t)' /\ pc'[t] # "destroy" /\ pc[t] # "destroy" /\ at'[t] = at[t]
  BY <1>1 DEF Step, Walking
<1> QED BY <1>1, <1>15, <1>16, <1>17, TreeLeftAlone
-----------------------------------------------------------------------------
(* Steps that change the tree. *)

\* Alone, no other thread has begun.
LEMMA NobodyElse ==
    ASSUME Clients, NEW S, NEW D, TreeState(S, D), NEW t \in Caller, Calls(t), Lone(program),
           NEW u \in Caller, u # t
    PROVE  pc[u] = "idle"
<1>1. program[u] \in Seq({"insert", "delete", "search", "join"} \X Int)
  BY DEF Clients, TreeState, TreeTypes, Orderly, Written
<1>2. program[t] # <<>>
  BY TheCall DEF TreeState
<1>3. program[u] = <<>>
  BY <1>2 DEF Lone
<1>4. ~Calls(u)
  BY <1>3 DEF Calls, TreeState, TreeTypes
<1> QED BY <1>4 DEF TreeState, TreeThread

\* Nothing is taken out while another thread searches, nor the root while it works.
LEMMA TakenOut ==
    ASSUME Clients, NEW S, NEW D, TreeState(S, D), NEW t \in Caller, Calls(t), Call(t) = "delete",
           NEW n \in S, node[n].value = Key(t), NEW u \in Caller, u # t
    PROVE  pc[u] # "search" /\ (pc[u] = "idle" \/ n # root)
<1>0. /\ TreeTypes /\ Kept /\ TreeHeap(S) /\ TreeThread(S, D, u)
      /\ program[t][at[t]] = <<"delete", Key(t)>> /\ at[t] \in DOMAIN program[t] /\ Orderly(program)
  BY TheCall DEF TreeState, Clients, TreeTypes
<1>1. ASSUME NoLoss(program) PROVE FALSE
  <2>1. Key(t) \in keys
    BY <1>0 DEF TreeHeap
  <2>2. PICK v \in Caller : \E i \in DOMAIN program[v] : program[v][i] = <<"insert", Key(t)>>
    BY <1>0, <2>1 DEF Kept
  <2>3. PICK i \in DOMAIN program[v] : program[v][i] = <<"insert", Key(t)>>
    BY <2>2
  <2> QED BY <1>0, <1>1, <2>3 DEF NoLoss
<1>2. CASE Lone(program)
  BY <1>2, NobodyElse
<1>3. ASSUME NEW r, Rooted(program, r) PROVE pc[u] # "search" /\ n # root
  <2>1. Key(t) # r
    BY <1>0, <1>3 DEF Rooted
  <2>2. root # NULL => node[root].value = r
    BY <1>0, <1>3 DEF Kept
  <2>3. n # NULL
    BY InTree DEF TreeState, Clients
  <2>4. ASSUME pc[u] = "search" PROVE FALSE
    <3>1. Calls(u) /\ Call(u) = "search"
      BY <1>0, <2>4 DEF TreeThread
    <3>2. at[u] \in DOMAIN program[u] /\ program[u][at[u]] = <<Call(u), Key(u)>>
      BY <1>0, <3>1, TheCall
    <3> QED BY <1>3, <3>1, <3>2 DEF Rooted
  <2> QED BY <2>1, <2>2, <2>3, <2>4
<1> QED BY <1>0, <1>1, <1>2, <1>3 DEF Orderly

\* What is taken out was inserted, and is not the root of a tree whose root stays.
LEMMA TakenWell ==
    ASSUME Clients, NEW S, NEW D, TreeState(S, D), NEW t \in Caller, Calls(t), Call(t) = "delete",
           NEW n \in S, node[n].value = Key(t)
    PROVE  ~NoLoss(program) /\ \A r : Rooted(program, r) => n # root /\ root # NULL
<1>0. /\ TreeTypes /\ Kept /\ TreeHeap(S)
      /\ program[t][at[t]] = <<"delete", Key(t)>> /\ at[t] \in DOMAIN program[t]
  BY TheCall DEF TreeState
<1>1. ASSUME NoLoss(program) PROVE FALSE
  <2>1. Key(t) \in keys
    BY <1>0 DEF TreeHeap
  <2>2. PICK v \in Caller : \E i \in DOMAIN program[v] : program[v][i] = <<"insert", Key(t)>>
    BY <1>0, <2>1 DEF Kept
  <2>3. PICK i \in DOMAIN program[v] : program[v][i] = <<"insert", Key(t)>>
    BY <2>2
  <2> QED BY <1>0, <1>1, <2>3 DEF NoLoss
<1>2. ASSUME NEW r, Rooted(program, r) PROVE n # root /\ root # NULL
  <2>1. Key(t) # r
    BY <1>0, <1>2 DEF Rooted
  <2>2. root # NULL => node[root].value = r
    BY <1>0, <1>2 DEF Kept
  <2>3. root # NULL
    BY InTree DEF TreeState, Clients
  <2> QED BY <2>1, <2>2, <2>3
<1> QED BY <1>1, <1>2

\* After an insert of a new key the clients' discipline means the same.
LEMMA KeptByInsert ==
    ASSUME Clients, TreeTypes, Kept, NEW t \in Caller, Calls(t), Call(t) = "insert", program' = program,
           at' = [at EXCEPT ![t] = @ + 1], keys' = keys \cup {Key(t)}, root' # NULL,
           \A r : Rooted(program, r) => node'[root'].value = r
    PROVE  Kept'
<1>1. /\ at[t] \in Nat /\ at'[t] = at[t] + 1 /\ \A u \in Caller : u # t => at'[u] = at[u]
      /\ program[t][at[t]] = <<"insert", Key(t)>> /\ at[t] \in DOMAIN program[t]
  BY TheCall DEF TreeTypes
<1>2. \A u \in Caller : Inserted(u)' \subseteq Inserted(u) \cup {Key(t)}
  <2>1. \A u \in Caller : u # t => Inserted(u)' = Inserted(u)
    BY <1>1 DEF Inserted
  <2>2. 1..(at'[t] - 1) \subseteq (1..(at[t] - 1)) \cup {at[t]}
    BY <1>1
  <2>3. Inserted(t)' \subseteq Inserted(t) \cup {Key(t)}
    BY <1>1, <2>2 DEF Inserted
  <2> QED BY <2>1, <2>3
<1>3. NoLoss(program) => \A u \in Caller : Inserted(u)' \subseteq keys'
  BY <1>2 DEF Kept
<1>4. \A k \in keys' : \E u \in Caller : \E i \in DOMAIN program[u] : program[u][i] = <<"insert", k>>
  BY <1>1 DEF Kept
<1> QED BY <1>3, <1>4 DEF Kept

\* What a search is to find, it finds among the keys that are there before another
\* thread inserts.
LEMMA NothingNewToFind ==
    ASSUME Clients, NEW S, NEW D, TreeState(S, D), NEW t \in Caller, Calls(t),
           NEW u \in Caller, u # t, pc[u] = "search", Key(u) \in Inserted(u)
    PROVE  Key(u) \in keys
<1>0. /\ TreeTypes /\ Kept /\ TreeThread(S, D, u) /\ Orderly(program)
  BY DEF TreeState, Clients, TreeTypes
<1>1. CASE NoLoss(program)
  BY <1>0, <1>1 DEF Kept
<1>2. CASE Lone(program)
  BY <1>2, NobodyElse
<1>3. ASSUME NEW r, Rooted(program, r) PROVE FALSE
  <2>1. Calls(u) /\ Call(u) = "search"
    BY <1>0 DEF TreeThread
  <2>2. at[u] \in DOMAIN program[u] /\ program[u][at[u]] = <<Call(u), Key(u)>>
    BY <1>0, <2>1, TheCall
  <2> QED BY <1>3, <2>1, <2>2 DEF Rooted
<1> QED BY <1>0, <1>1, <1>2, <1>3 DEF Orderly

\* The first node.
LEMMA RootPlanted ==
    ASSUME Clients, NEW S, NEW D, TreeState(S, D), NEW t \in Caller, InsertRoot(t)
    PROVE  TreeInv'
<1>0. /\ Names /\ TreeTypes /\ TreeOf(node, root, S, D) /\ TreeHeap(S) /\ Kept
      /\ \A u \in Caller : TreeThread(S, D, u)
      /\ NULL \notin Node /\ NULL \notin Caller /\ 1..used \subseteq Node /\ S \subseteq alive
  BY AtWork
<1>1. Step(t) /\ root = NULL /\ Calls(t) /\ Call(t) = "insert" /\ pc[t] = "idle"
  BY DEF Step, InsertRoot
<1>2. program' = program /\ \A u \in Caller \ {t} : Same(u)
  BY <1>0, <1>1, StepOfOne
<1>3. PICK e : e = used + 1
  OBVIOUS
<1>4. e \in Node /\ e \notin alive /\ Key(t) \in Int
  BY <1>0, <1>1, <1>3, InsertRoom, TheCall DEF TreeTypes
<1>5. /\ root' = e /\ alive' = alive \cup {e} /\ keys' = keys \cup {Key(t)}
      /\ node'[e].value = Key(t) /\ node'[e].left = NULL /\ node'[e].right = NULL
      /\ owner' = owner /\ at' = [at EXCEPT ![t] = @ + 1] /\ pc'[t] = "idle"
  BY <1>0, <1>3, <1>4 DEF InsertRoot, Allocates, New, Returns, Goto, TreeTypes
<1>6. S = {} /\ keys = {} /\ D[NULL] = {}
  BY <1>0, <1>1 DEF TreeOf, TreeHeap
<1>7. PICK D2 : D2 = [m \in Node \cup {NULL} |-> IF m = e THEN {e} ELSE {}]
  OBVIOUS
<1>8. D2 \in [Node \cup {NULL} -> SUBSET Node] /\ D2[e] = {e} /\ D2[NULL] = {}
  BY <1>0, <1>4, <1>7
<1>9. TreeOf(node', root', {e}, D2)
  BY <1>4, <1>5, <1>8 DEF TreeOf
<1>10. TreeHeap({e})'
  <2>1. pc'[t] # "destroy" /\ pc[t] # "destroy" /\ \A u \in Caller : u # t => pc'[u] = pc[u] /\ doomed'[u] = doomed[u]
    BY <1>1, <1>2, <1>5 DEF Same
  <2>2. Doomed' = Doomed
    BY <2>1 DEF Doomed
  <2> QED BY <1>0, <1>5, <1>6, <2>1, <2>2 DEF TreeHeap
<1>11. Kept'
  <2>1. ASSUME NEW r, Rooted(program, r) PROVE node'[root'].value = r
    <3>1. at[t] = 1 /\ program[t][at[t]] = <<Call(t), Key(t)>> /\ at[t] \in DOMAIN program[t]
      BY <1>0, <1>1, <2>1, TheCall DEF Kept
    <3>2. program[t][at[t]] = <<"insert", r>>
      BY <2>1, <3>1 DEF Rooted
    <3> QED BY <1>5, <3>1, <3>2
  <2>2. root' # NULL
    BY <1>0, <1>4, <1>5
  <2> QED BY <1>0, <1>1, <1>2, <1>5, <2>1, <2>2, KeptByInsert
<1>12. ASSUME NEW u \in Caller PROVE TreeThread({e}, D2, u)'
  <2>1. CASE u = t
    BY <1>5, <2>1 DEF TreeThread, Walking, Holds
  <2>2. CASE u # t
    <3>0. Same(u) /\ TreeThread(S, D, u) /\ S = {}
      BY <1>0, <1>2, <1>6, <2>2
    <3>1. Walking(u) => WalksWell({e}, D2, u)'
      <4> SUFFICES ASSUME Walking(u) PROVE WalksWell({e}, D2, u)'
        OBVIOUS
      <4>1. WalksWell(S, D, u) /\ current[u] = NULL /\ parent[u] = NULL
        BY <3>0 DEF TreeThread, WalksWell
      <4> QED BY <1>0, <1>2, <3>0, <4>1, WalkKept
    <3>2. pc[u] = "search" => SearchesWell({e}, D2, u)'
      <4> SUFFICES ASSUME pc[u] = "search" PROVE SearchesWell({e}, D2, u)'
        OBVIOUS
      <4>1. current[u] = NULL /\ parent[u] = NULL /\ Key(u) \notin Inserted(u)
        BY <1>1, <1>6, <2>2, <3>0, NothingNewToFind DEF TreeThread, SearchesWell
      <4>2. Key(u)' = Key(u) /\ Inserted(u)' = Inserted(u) /\ current'[u] = current[u] /\ parent'[u] = parent[u]
        BY <1>2, <3>0 DEF Same, Key, Inserted
      <4> QED BY <4>1, <4>2 DEF SearchesWell
    <3>3. pc[u] # "successor"
      BY <3>0 DEF TreeThread, Descends
    <3>4. pc[u] = "destroy" => doomed[u] \in alive' \ {e}
      BY <1>4, <1>5, <3>0 DEF TreeThread
    <3>5. \A n \in Holds(u) : owner'[n] = owner[n]
      BY <1>5
    <3>6. pc[u] = "root" => root' # NULL
      BY <1>0, <1>4, <1>5
    <3> QED BY <1>2, <3>0, <3>1, <3>2, <3>3, <3>4, <3>5, <3>6, ThreadKept
  <2> QED BY <2>1, <2>2
<1>13. TreeTypes'
  BY <1>1, TypesKept
<1>14. TreeState({e}, D2)'
  BY <1>9, <1>10, <1>11, <1>12, <1>13 DEF TreeState
<1> QED BY <1>14 DEF TreeInv

\* A new leaf.
LEMMA LeafLinked ==
    ASSUME Clients, NEW S, NEW D, TreeState(S, D), NEW t \in Caller, InsertLinks(t)
    PROVE  TreeInv'
<1>0. /\ Names /\ TreeTypes /\ TreeOf(node, root, S, D) /\ TreeHeap(S) /\ Kept
      /\ \A u \in Caller : TreeThread(S, D, u)
      /\ NULL \notin Node /\ NULL \notin Caller /\ 1..used \subseteq Node /\ S \subseteq alive
      /\ \A m \in alive : m \in Node /\ node[m] \in Cell
      /\ pc[t] # "idle" => Calls(t)
  BY AtWork
<1>1. Step(t) /\ pc[t] = "insert" /\ Calls(t)
  BY <1>0 DEF Step, InsertLinks
<1>2. program' = program /\ \A u \in Caller \ {t} : Same(u)
  BY <1>0, <1>1, StepOfOne
<1>3. PICK n : n = current[t]
  OBVIOUS
<1>4. PICK e : e = used + 1
  OBVIOUS
<1>5. TreeThread(S, D, t) /\ Walking(t) /\ WalksWell(S, D, t) /\ Call(t) = "insert" /\ Key(t) \in Int
  BY <1>0, <1>1, TheCall DEF TreeThread, Walking
<1>6. /\ n \in alive /\ owner[n] = NULL /\ Key(t) # node[n].value /\ node[n][Side(n, Key(t))] = NULL
      /\ n \in S /\ n \in Node
  BY <1>0, <1>3, <1>5 DEF InsertLinks, WalksWell
<1>7. e \in Node /\ e \notin alive /\ e \notin S /\ e # n /\ e # NULL
  BY <1>0, <1>1, <1>4, <1>5, <1>6, InsertRoom DEF TreeTypes
<1>8. /\ root' = root /\ alive' = alive \cup {e} /\ keys' = keys \cup {Key(t)}
      /\ owner' = Unlocked(owner, {parent[t]}) /\ at' = [at EXCEPT ![t] = @ + 1] /\ pc'[t] = "idle"
  BY <1>0, <1>4 DEF InsertLinks, Allocates, Returns, Goto, TreeTypes
<1>9. /\ node'[e].value = Key(t) /\ node'[e].left = NULL /\ node'[e].right = NULL
      /\ node'[n] = [node[n] EXCEPT ![LinkSide(n, Key(t))] = e]
      /\ \A m \in Node : m # n /\ m # e => node'[m] = node[m]
  BY <1>0, <1>3, <1>4, <1>6, <1>7 DEF InsertLinks, New, TreeTypes
<1>10. /\ node'[n].value = node[n].value
       /\ IF Key(t) < node[n].value
          THEN node[n].left = NULL /\ node'[n].left = e /\ node'[n].right = node[n].right
          ELSE node[n].right = NULL /\ node'[n].right = e /\ node'[n].left = node[n].left
  <2>1. node[n] \in Cell
    BY <1>0, <1>6
  <2> QED BY <1>6, <1>9, <2>1 DEF LinkSide, Side, Cell
<1>11. Fits(node, S, D, n, Key(t))
  <2>1. CASE parent[t] = NULL
    BY <1>0, <1>3, <1>5, <1>6, <1>7, <2>1, FitsRoot DEF WalksWell
  <2>2. CASE parent[t] # NULL
    <3>1. /\ parent[t] \in S /\ Key(t) # node[parent[t]].value /\ Fits(node, S, D, parent[t], Key(t))
          /\ n = IF Key(t) < node[parent[t]].value THEN node[parent[t]].left ELSE node[parent[t]].right
          /\ n # NULL
      BY <1>0, <1>3, <1>5, <1>6, <2>2 DEF WalksWell, Side
    <3> QED BY <1>0, <1>5, <3>1, FitsChild
  <2> QED BY <2>1, <2>2
<1>12. PICK S2 : S2 = S \cup {e}
  OBVIOUS
<1>13. PICK D2 : D2 = [m \in Node \cup {NULL} |->
                        IF m = e THEN {e} ELSE D[m] \cup (IF n \in D[m] THEN {e} ELSE {})]
  OBVIOUS
<1>14. /\ D2 \in [Node \cup {NULL} -> SUBSET Node] /\ D2[NULL] = {} /\ D2[e] = {e}
       /\ \A m \in S : D2[m] = D[m] \cup (IF n \in D[m] THEN {e} ELSE {})
  <2>1. /\ D \in [Node \cup {NULL} -> SUBSET Node] /\ D[NULL] = {} /\ S \subseteq Node
    BY <1>0 DEF TreeOf
  <2> QED BY <1>0, <1>7, <1>13, <2>1
<1>15. \A m \in S : node'[m].value = node[m].value /\ (m # n => node'[m] = node[m])
  BY <1>0, <1>7, <1>9, <1>10
<1>16. /\ TreeOf(node', root, S2, D2)
       /\ \A x \in S : \A l : Fits(node, S, D, x, l) => Fits(node', S2, D2, x, l)
  <2>1. e \in Node \ S
    BY <1>7
  <2>2. \A m \in S : m # n => node'[m].left = node[m].left /\ node'[m].right = node[m].right
    BY <1>15
  <2>3. WithLeaf(node, S, D, n, Key(t), e, node', S2, D2)
    BY <1>5, <1>6, <1>9, <1>10, <1>11, <1>12, <1>14, <1>15, <2>1, <2>2 DEF WithLeaf
  <2> QED BY <1>0, <2>3, TreeGrows
<1>17. TreeHeap(S2)'
  <2>1. pc'[t] # "destroy" /\ pc[t] # "destroy" /\ \A u \in Caller : u # t => pc'[u] = pc[u] /\ doomed'[u] = doomed[u]
    BY <1>1, <1>2, <1>8 DEF Same
  <2>2. Doomed' = Doomed
    BY <2>1 DEF Doomed
  <2>3. {node'[m].value : m \in S2} = keys'
    <3>1. {node[m].value : m \in S} = keys
      BY <1>0 DEF TreeHeap
    <3> QED BY <1>8, <1>9, <1>12, <1>15, <3>1
  <2>4. alive' = S2 \cup Doomed'
    BY <1>0, <1>8, <1>12, <2>2 DEF TreeHeap
  <2>5. \A v, u \in Caller : pc[v] = "destroy" /\ pc[u] = "destroy" /\ doomed[v] = doomed[u] => v = u
    BY <1>0 DEF TreeHeap
  <2>6. \A v, u \in Caller : pc'[v] = "destroy" /\ pc'[u] = "destroy" /\ doomed'[v] = doomed'[u] => v = u
    BY <2>1, <2>5
  <2> QED BY <2>3, <2>4, <2>6 DEF TreeHeap
<1>18. Kept'
  <2>1. root \in S
    BY <1>0, <1>6, InTree
  <2>2. root # NULL /\ node'[root].value = node[root].value
    BY <1>0, <1>15, <2>1
  <2>3. \A r : Rooted(program, r) => node'[root'].value = r
    BY <1>0, <1>8, <2>2 DEF Kept
  <2> QED BY <1>0, <1>1, <1>2, <1>5, <1>8, <2>2, <2>3, KeptByInsert
<1>19. ASSUME NEW u \in Caller, u # t PROVE TreeThread(S2, D2, u)'
  <2>0. Same(u) /\ TreeThread(S, D, u)
    BY <1>0, <1>2, <1>19
  <2>1. \A m \in Holds(u) : owner'[m] = owner[m]
    <3>1. parent[t] # NULL => owner[parent[t]] = t
      BY <1>5 DEF TreeThread, Holds
    <3>2. \A m \in Node : owner'[m] = owner[m] \/ owner[m] \in {NULL, t}
      BY <1>0, <1>8, <3>1 DEF Unlocked
    <3> QED BY <1>0, <1>19, <3>2, OwnersKept
  <2>2. \A m \in Holds(u) : owner[m] = u /\ m # n
    BY <1>0, <1>6, <2>0 DEF TreeThread
  <2>3. Walking(u) => WalksWell(S2, D2, u)'
    <3> SUFFICES ASSUME Walking(u) PROVE WalksWell(S2, D2, u)'
      OBVIOUS
    <3>1. WalksWell(S, D, u)
      BY <2>0 DEF TreeThread
    <3>2. /\ current[u] \in S2 \cup {NULL} /\ (parent[u] = NULL => current[u] \in {root', NULL})
          /\ parent[u] # NULL => parent[u] \in S /\ Fits(node, S, D, parent[u], Key(u))
      BY <1>8, <1>12, <3>1 DEF WalksWell
    <3>3. parent[u] # NULL => parent[u] # n
      BY <2>2 DEF Holds
    <3>4. parent[u] # NULL => /\ parent[u] \in S2 /\ node'[parent[u]] = node[parent[u]]
                             /\ Fits(node', S2, D2, parent[u], Key(u))
      BY <1>12, <1>15, <1>16, <3>2, <3>3
    <3> QED BY <1>0, <1>2, <2>0, <3>1, <3>2, <3>4, WalkKept
  <2>4. pc[u] = "search" => SearchesWell(S2, D2, u)'
    <3> SUFFICES ASSUME pc[u] = "search" PROVE SearchesWell(S2, D2, u)'
      OBVIOUS
    <3>1. SearchesWell(S, D, u)
      BY <2>0 DEF TreeThread
    <3>2. Key(u) \in Inserted(u) => Key(u) \in keys
      BY <1>1, <1>19, NothingNewToFind
    <3>3. Key(u)' = Key(u) /\ Inserted(u)' = Inserted(u) /\ current'[u] = current[u] /\ parent'[u] = parent[u]
      BY <1>2, <2>0 DEF Same, Key, Inserted
    <3>4. current[u] \in S2 \cup {NULL} /\ D[current[u]] \subseteq D2[current[u]] /\ D[current[u]] \subseteq S
      <4>1. D[NULL] = {}
        BY <1>0 DEF TreeOf
      <4>2. current[u] \in S \cup {NULL}
        BY <3>1 DEF SearchesWell
      <4> QED BY <1>0, <1>12, <1>14, <4>1, <4>2, InTree
    <3> QED BY <1>15, <3>1, <3>2, <3>3, <3>4 DEF SearchesWell
  <2>5. pc[u] = "successor" => Descends(S2, D2, u)'
    <3> SUFFICES ASSUME pc[u] = "successor" PROVE Descends(S2, D2, u)'
      OBVIOUS
    <3>1. Descends(S, D, u)
      BY <2>0 DEF TreeThread
    <3>2. PICK top : top = node[target[u]].right
      OBVIOUS
    <3>3. target[u] \in S /\ parent[u] \in S /\ current[u] \in D[top]
      BY <3>1, <3>2 DEF Descends
    <3>4. D[top] \subseteq S /\ top \in S
      BY <1>0, <3>2, <3>3, InTree DEF TreeOf
    <3>5. target[u] # n /\ parent[u] # n
      BY <2>2 DEF Holds, Walking
    <3>6. node'[target[u]] = node[target[u]] /\ node'[parent[u]] = node[parent[u]]
      BY <1>15, <3>3, <3>5
    <3>7. \A m \in S2 : m \in D[top] => m \in D2[top]
      BY <1>14, <3>4
    <3>8. ASSUME NEW a \in D2[top]
          PROVE  \/ current[u] \notin D2[node'[a].right] /\ current[u] \notin D2[a]
                 \/ /\ a \in D[top]
                    /\ current[u] \in D2[node'[a].right] => current[u] \in D[node[a].right]
                    /\ current[u] \in D2[a] => current[u] \in D[a]
      <4>1. current[u] \in S /\ current[u] # e
        BY <1>7, <3>3, <3>4
      <4>2. CASE a = e
        BY <1>9, <1>14, <4>1, <4>2
      <4>3. CASE a # e
        <5>1. a \in D[top] /\ a \in S
          BY <1>14, <3>4, <4>3
        <5>2. current[u] \in D2[a] => current[u] \in D[a]
          BY <1>14, <4>1, <5>1
        <5>3. current[u] \in D2[node'[a].right] => current[u] \in D[node[a].right]
          <6>1. node[a].right \in S \cup {NULL} /\ D[NULL] = {}
            BY <1>0, <5>1 DEF TreeOf
          <6>2. node'[a].right = node[a].right \/ node'[a].right = e
            BY <1>9, <1>10, <1>15, <5>1
          <6> QED BY <1>14, <4>1, <6>1, <6>2
        <5> QED BY <5>1, <5>2, <5>3
      <4> QED BY <4>2, <4>3
    <3>9. \A v \in Caller \ {u} : Walking(v)' => parent'[v] \notin Way(D, u)
      <4>1. \A v \in Caller \ {u} : Walking(v)' => Walking(v) /\ parent'[v] = parent[v]
        BY <1>2, <1>8 DEF Same, Walking
      <4> QED BY <3>1, <4>1 DEF Descends
    <3>10. target[u] \in S2 /\ parent[u] \in S2 /\ current[u] \in S2
      BY <1>12, <3>3, <3>4
    <3> QED BY <1>0, <1>2, <2>0, <3>1, <3>2, <3>6, <3>7, <3>8, <3>9, <3>10, DescentKept
  <2>6. pc[u] = "destroy" => doomed[u] \in alive' \ S2
    BY <1>7, <1>8, <1>12, <2>0 DEF TreeThread
  <2>7. pc[u] = "root" => root' # NULL
    BY <1>8, <2>0 DEF TreeThread
  <2> QED BY <1>2, <2>0, <2>1, <2>3, <2>4, <2>5, <2>6, <2>7, ThreadKept
<1>20. TreeThread(S2, D2, t)'
  BY <1>8 DEF TreeThread, Walking, Holds
<1>21. TreeTypes'
  BY <1>1, TypesKept
<1>22. TreeState(S2, D2)'
  BY <1>8, <1>16, <1>17, <1>18, <1>19, <1>20, <1>21 DEF TreeState
<1> QED BY <1>22 DEF TreeInv

\* After a delete the clients' discipline means the same.
LEMMA KeptByDelete ==
    ASSUME Kept, ~NoLoss(program), program' = program, keys' \subseteq keys,
           \A r : Rooted(program, r) => root' # NULL /\ node'[root'].value = r
    PROVE  Kept'
BY DEF Kept

\* The node that is taken out is the one about to be destroyed.
LEMMA HeapTaken ==
    ASSUME NEW S, NEW n \in S, NEW t \in Caller, TreeHeap(S), S \subseteq alive, S \cap Doomed = {},
           pc[t] # "destroy", pc'[t] = "destroy", doomed'[t] = n, \A u \in Caller \ {t} : Same(u),
           alive' = alive, NEW S2, S2 = S \ {n}, {node'[m].value : m \in S2} = keys'
    PROVE  TreeHeap(S2)'
<1>1. \A u \in Caller : u # t => pc'[u] = pc[u] /\ doomed'[u] = doomed[u]
  BY DEF Same
<1>2. \A u \in Caller : pc[u] = "destroy" => doomed[u] # n
  BY DEF Doomed
<1>3. \A x : x \in Doomed' <=> x \in Doomed \/ x = n
  BY <1>1 DEF Doomed
<1>4. alive' = S2 \cup Doomed'
  BY <1>3 DEF TreeHeap
<1>5. \A v, u \in Caller : pc[v] = "destroy" /\ pc[u] = "destroy" /\ doomed[v] = doomed[u] => v = u
  BY DEF TreeHeap
<1>6. \A v, u \in Caller : pc'[v] = "destroy" /\ pc'[u] = "destroy" /\ doomed'[v] = doomed'[u] => v = u
  BY <1>1, <1>2, <1>5
<1> QED BY <1>4, <1>6 DEF TreeHeap

\* What is left for another thread when n gives its place below p to its only child,
\* and the node q gets another value, while the acting thread holds p and q.
Beside(u, S, D, p, n, q, nd, S2, D2) ==
    /\ WithoutChild(node, S, D, p, n, nd, S2, D2)
    /\ \A m \in Holds(u) : m \notin {p, n, q} /\ owner'[m] = owner[m]
    /\ \A m \in S : /\ node'[m].left = nd[m].left /\ node'[m].right = nd[m].right
                    /\ m \notin {p, n, q} => node'[m] = node[m]
    /\ Walking(u) /\ parent[u] # NULL => Fits(node', S2, D2, parent[u], Key(u))

LEMMA OthersUnlinked ==
    ASSUME Clients, NEW S, NEW D, TreeState(S, D), NEW t \in Caller, NEW u \in Caller, u # t,
           \A v \in Caller \ {t} : Same(v), program' = program, root' = root, alive' = alive,
           NEW p, NEW n, NEW q, NEW nd, NEW S2, NEW D2, Beside(u, S, D, p, n, q, nd, S2, D2),
           pc[u] # "search", pc'[t] = "destroy"
    PROVE  TreeThread(S2, D2, u)'
<1> USE DEF Beside
<1>0. /\ Names /\ TreeOf(node, root, S, D) /\ TreeHeap(S) /\ TreeThread(S, D, u) /\ Same(u)
      /\ p \in S /\ Child(node, p, n) /\ S2 = S \ {n}
      /\ \A m \in S \cup {NULL} : D2[m] = D[m] \ {n}
  BY DEF TreeState, Clients, WithoutChild
<1>1. n \in S /\ n # root /\ n # NULL /\ root \in S
  <2>1. n \in S /\ p \notin D[n] /\ n # NULL
    BY <1>0, ChildBelow DEF Child
  <2>2. root \in S /\ p \in D[root]
    BY <1>0, InTree
  <2> QED BY <2>1, <2>2
<1>2. \A a \in S2 : D2[nd[a].right] = D[node[a].right] \ {n}
  BY <1>0, TreeUnlinked
<1>3. ASSUME NEW x \in S, x # p, Child(node, x, current[u]) PROVE current[u] # n
  BY <1>0, <1>3, OneParent
<1>4. Walking(u) => WalksWell(S2, D2, u)'
  <2> SUFFICES ASSUME Walking(u) PROVE WalksWell(S2, D2, u)'
    OBVIOUS
  <2>1. WalksWell(S, D, u)
    BY <1>0 DEF TreeThread
  <2>2. CASE parent[u] = NULL
    <3>1. current[u] \in {root, NULL} /\ current[u] \in S2 \cup {NULL}
      BY <1>0, <1>1, <2>1, <2>2 DEF WalksWell
    <3> QED BY <1>0, <2>1, <2>2, <3>1, WalkKept
  <2>3. CASE parent[u] # NULL
    <3>1. parent[u] \in S /\ parent[u] \notin {p, n, q}
      BY <2>1, <2>3 DEF WalksWell, Holds
    <3>2. current[u] = NULL \/ Child(node, parent[u], current[u])
      BY <2>1, <2>3 DEF WalksWell, Child, Side
    <3>3. current[u] \in S2 \cup {NULL}
      BY <1>0, <1>3, <2>1, <3>1, <3>2 DEF WalksWell
    <3>4. parent[u] \in S2 /\ node'[parent[u]] = node[parent[u]]
      BY <1>0, <3>1
    <3> QED BY <1>0, <2>1, <2>3, <3>3, <3>4, WalkKept
  <2> QED BY <2>2, <2>3
<1>5. pc[u] = "successor" => Descends(S2, D2, u)'
  <2> SUFFICES ASSUME pc[u] = "successor" PROVE Descends(S2, D2, u)'
    OBVIOUS
  <2>1. Descends(S, D, u)
    BY <1>0 DEF TreeThread
  <2>2. PICK top : top = node[target[u]].right
    OBVIOUS
  <2>3. target[u] \in S /\ parent[u] \in S /\ current[u] \in D[top]
    BY <2>1, <2>2 DEF Descends
  <2>4. D[top] \subseteq S /\ top \in S
    <3>1. D[top] \subseteq S
      BY <1>0, <2>2, <2>3, InTree
    <3>2. top \in S \cup {NULL} /\ D[NULL] = {}
      BY <1>0, <2>2, <2>3 DEF TreeOf
    <3> QED BY <2>3, <3>1, <3>2
  <2>5. target[u] \notin {p, n, q} /\ parent[u] \notin {p, n, q}
    BY DEF Holds, Walking
  <2>6. node'[target[u]] = node[target[u]] /\ node'[parent[u]] = node[parent[u]]
    BY <2>3, <2>5
  <2>7. Child(node, parent[u], current[u])
    <3>1. current[u] # NULL
      BY <1>0, <2>3, <2>4 DEF TreeOf, Names
    <3> QED BY <2>1, <2>2, <3>1 DEF Descends, Child
  <2>8. current[u] # n
    BY <1>3, <2>3, <2>5, <2>7
  <2>9. target[u] \in S2 /\ parent[u] \in S2 /\ current[u] \in S2
    BY <1>0, <2>3, <2>4, <2>5, <2>8
  <2>10. D2[top] = D[top] \ {n}
    BY <1>0, <2>4
  <2>11. ASSUME NEW a \in D2[top]
         PROVE  \/ current[u] \notin D2[node'[a].right] /\ current[u] \notin D2[a]
                \/ /\ a \in D[top]
                   /\ current[u] \in D2[node'[a].right] => current[u] \in D[node[a].right]
                   /\ current[u] \in D2[a] => current[u] \in D[a]
    <3>1. a \in D[top] /\ a \in S /\ a \in S2
      BY <1>0, <2>4, <2>10
    <3>2. D2[node'[a].right] = D[node[a].right] \ {n} /\ D2[a] = D[a] \ {n}
      BY <1>0, <1>2, <3>1
    <3> QED BY <3>1, <3>2
  <2>12. \A v \in Caller \ {u} : Walking(v)' => parent'[v] \notin Way(D, u)
    <3>1. \A v \in Caller \ {u} : Walking(v)' => Walking(v) /\ parent'[v] = parent[v]
      BY DEF Same, Walking
    <3> QED BY <2>1, <3>1 DEF Descends
  <2>13. \A m \in S2 : m \in D[top] => m \in D2[top]
    BY <1>0, <2>10
  <2> QED BY <1>0, <2>1, <2>2, <2>6, <2>9, <2>11, <2>12, <2>13, DescentKept
<1>6. pc[u] = "destroy" => doomed[u] \in alive' \ S2
  BY <1>0 DEF TreeThread
<1>7. pc[u] = "root" => root' # NULL
  BY <1>0 DEF TreeThread
<1> QED BY <1>0, <1>4, <1>5, <1>6, <1>7, ThreadKept

\* A node with at most one child is unlinked.
LEMMA NodeUnlinked ==
    ASSUME Clients, NEW S, NEW D, TreeState(S, D), NEW t \in Caller, DeleteUnlinks(t)
    PROVE  TreeInv'
<1>0. /\ Names /\ TreeTypes /\ TreeOf(node, root, S, D) /\ TreeHeap(S) /\ Kept
      /\ \A u \in Caller : TreeThread(S, D, u)
      /\ NULL \notin Node /\ NULL \notin Caller /\ 1..used \subseteq Node /\ S \subseteq alive
      /\ \A m \in alive : m \in Node /\ node[m] \in Cell
      /\ pc[t] # "idle" => Calls(t)
  BY AtWork
<1>1. Step(t) /\ pc[t] = "delete" /\ Calls(t)
  BY <1>0 DEF Step, DeleteUnlinks
<1>2. program' = program /\ \A u \in Caller \ {t} : Same(u)
  BY <1>0, <1>1, StepOfOne
<1>3. PICK n : n = current[t]
  OBVIOUS
<1>4. PICK p : p = parent[t]
  OBVIOUS
<1>5. TreeThread(S, D, t) /\ Walking(t) /\ WalksWell(S, D, t) /\ Call(t) = "delete" /\ Key(t) \in Int
  BY <1>0, <1>1, TheCall DEF TreeThread, Walking
<1>6. /\ n \in alive /\ owner[n] = NULL /\ Key(t) = node[n].value
      /\ node[n].left = NULL \/ node[n].right = NULL
      /\ n \in S /\ n \in Node
  BY <1>0, <1>3, <1>5 DEF DeleteUnlinks, WalksWell
<1>7. /\ alive' = alive /\ keys' = keys \ {Key(t)} /\ owner' = Unlocked(owner, {p})
      /\ doomed'[t] = n /\ pc'[t] = "destroy" /\ at' = at /\ OnlyChild(n) = OnlyBelow(node, n)
  BY <1>0, <1>3, <1>4 DEF DeleteUnlinks, Goto, TreeTypes, OnlyChild, OnlyBelow
<1>8. PICK S2 : S2 = S \ {n}
  OBVIOUS
<1>9. PICK D2 : D2 = [m \in Node \cup {NULL} |-> D[m] \ {n}]
  OBVIOUS
<1>10. D2 \in [Node \cup {NULL} -> SUBSET Node] /\ \A m \in S \cup {NULL} : D2[m] = D[m] \ {n}
  <2>1. D \in [Node \cup {NULL} -> SUBSET Node] /\ S \subseteq Node
    BY <1>0 DEF TreeOf
  <2> QED BY <1>9, <2>1
<1>11. /\ ~NoLoss(program) /\ \A r : Rooted(program, r) => n # root /\ root # NULL
       /\ \A u \in Caller : u # t => pc[u] # "search" /\ (pc[u] = "idle" \/ n # root)
  BY <1>1, <1>5, <1>6, TakenWell, TakenOut
<1>12. p # NULL => p \in S /\ owner[p] = t /\ Child(node, p, n) /\ n # root /\ p # n
  <2> SUFFICES ASSUME p # NULL PROVE p \in S /\ owner[p] = t /\ Child(node, p, n) /\ n # root /\ p # n
    OBVIOUS
  <2>1. p \in Holds(t)
    BY <1>4, <1>5 DEF Holds
  <2>2. p \in S /\ owner[p] = t /\ Child(node, p, n)
    BY <1>0, <1>3, <1>4, <1>5, <1>6, <2>1 DEF TreeThread, WalksWell, Child, Side
  <2>3. p \notin D[n] /\ p \in D[root] /\ p # n
    BY <1>0, <2>2, ChildBelow, InTree
  <2> QED BY <2>2, <2>3
<1>13. p = NULL => n = root /\ root' = OnlyBelow(node, n) /\ node' = node
  BY <1>0, <1>3, <1>4, <1>5, <1>6, <1>7 DEF WalksWell, DeleteUnlinks
<1>14. p # NULL => root' = root /\ WithoutChild(node, S, D, p, n, node', S2, D2)
                   /\ \A m \in S : node'[m].value = node[m].value /\ (m # p => node'[m] = node[m])
  <2> SUFFICES ASSUME p # NULL
               PROVE  root' = root /\ WithoutChild(node, S, D, p, n, node', S2, D2)
                      /\ \A m \in S : node'[m].value = node[m].value /\ (m # p => node'[m] = node[m])
    OBVIOUS
  <2>1. root' = root /\ node' = [node EXCEPT ![p] = [node[p] EXCEPT ![LinkTo(p, n)] = OnlyChild(n)]]
    BY <1>3, <1>4 DEF DeleteUnlinks
  <2>2. p \in Node /\ node[p] \in Cell /\ S \subseteq Node
    BY <1>0, <1>12
  <2>3. node'[p] = [node[p] EXCEPT ![LinkTo(p, n)] = OnlyChild(n)] /\ \A m \in S : m # p => node'[m] = node[m]
    BY <1>0, <2>1, <2>2 DEF TreeTypes
  <2>4. /\ node'[p].value = node[p].value
        /\ IF node[p].left = n
           THEN node'[p].left = OnlyBelow(node, n) /\ node'[p].right = node[p].right
           ELSE node'[p].right = OnlyBelow(node, n) /\ node'[p].left = node[p].left
    BY <1>7, <2>2, <2>3 DEF LinkTo, Cell
  <2>5. \A m \in S : node'[m].value = node[m].value /\ (m # p => node'[m] = node[m])
    BY <2>3, <2>4
  <2>6. \A m \in S : /\ node'[m].value = node[m].value
                     /\ m # p => node'[m].left = node[m].left /\ node'[m].right = node[m].right
    BY <2>5
  <2>7. WithoutChild(node, S, D, p, n, node', S2, D2)
    BY <1>6, <1>8, <1>10, <1>12, <2>4, <2>6 DEF WithoutChild
  <2> QED BY <2>1, <2>5, <2>7
<1>15. \A m \in S : node'[m].value = node[m].value
  BY <1>13, <1>14
<1>16. TreeOf(node', root', S2, D2)
  <2>1. CASE p = NULL
    <3>1. RootLess(node, root, S, D, S2, D2)
      BY <1>0, <1>6, <1>8, <1>10, <1>13, <2>1 DEF RootLess
    <3>2. TreeOf(node, OnlyBelow(node, root), S2, D2)
      BY <1>0, <3>1, TreeRerooted
    <3> QED BY <1>13, <2>1, <3>2
  <2>2. CASE p # NULL
    BY <1>0, <1>14, <2>2, TreeUnlinked
  <2> QED BY <2>1, <2>2
<1>17. {node'[m].value : m \in S2} = keys'
  <2>1. {node[m].value : m \in S} = keys
    BY <1>0 DEF TreeHeap
  <2>2. \A m \in S : node[m].value = Key(t) => m = n
    BY <1>0, <1>6, OneNodeEach
  <2> QED BY <1>6, <1>7, <1>8, <1>15, <2>1, <2>2
<1>18. TreeHeap(S2)'
  <2>1. S \cap Doomed = {}
    BY <1>0 DEF Doomed, TreeThread
  <2> QED BY <1>0, <1>1, <1>2, <1>6, <1>7, <1>8, <1>17, <2>1, HeapTaken
<1>19. Kept'
  <2>1. ASSUME NEW r, Rooted(program, r) PROVE root' # NULL /\ node'[root'].value = r
    <3>1. n # root /\ root # NULL /\ p # NULL /\ node[root].value = r
      BY <1>0, <1>11, <1>13, <2>1 DEF Kept
    <3>2. root \in S
      BY <1>0, <1>6, InTree
    <3> QED BY <1>14, <3>1, <3>2
  <2> QED BY <1>0, <1>2, <1>7, <1>11, <2>1, KeptByDelete
<1>20. ASSUME NEW u \in Caller, u # t PROVE TreeThread(S2, D2, u)'
  <2>0. Same(u) /\ TreeThread(S, D, u) /\ pc[u] # "search"
    BY <1>0, <1>2, <1>11, <1>20
  <2>1. CASE p = NULL
    <3>1. pc[u] = "idle"
      BY <1>11, <1>13, <1>20, <2>1
    <3> QED BY <2>0, <3>1 DEF Same, TreeThread, Walking, Holds
  <2>2. CASE p # NULL
    <3>1. \A m \in Holds(u) : m \notin {p, n, p} /\ owner'[m] = owner[m]
      <4>1. \A m \in Node : owner'[m] = owner[m] \/ owner[m] \in {NULL, t}
        BY <1>0, <1>7, <1>12, <2>2 DEF Unlocked
      <4>2. \A m \in Holds(u) : owner'[m] = owner[m]
        BY <1>0, <1>20, <4>1, OwnersKept
      <4>3. \A m \in Holds(u) : owner[m] = u
        BY <2>0 DEF TreeThread
      <4> QED BY <1>0, <1>6, <1>12, <1>20, <2>2, <4>2, <4>3
    <3>2. Walking(u) /\ parent[u] # NULL => Fits(node', S2, D2, parent[u], Key(u))
      <4> SUFFICES ASSUME Walking(u), parent[u] # NULL PROVE Fits(node', S2, D2, parent[u], Key(u))
        OBVIOUS
      <4>1. parent[u] \in S /\ Fits(node, S, D, parent[u], Key(u))
        BY <2>0 DEF TreeThread, WalksWell
      <4>2. parent[u] # n
        BY <3>1 DEF Holds
      <4> QED BY <1>0, <1>8, <1>14, <2>2, <4>1, <4>2, TreeUnlinked
    <3>3. \A m \in S : /\ node'[m].left = node'[m].left /\ node'[m].right = node'[m].right
                       /\ m \notin {p, n, p} => node'[m] = node[m]
      BY <1>14, <2>2
    <3>4. root' = root /\ WithoutChild(node, S, D, p, n, node', S2, D2)
      BY <1>14, <2>2
    <3>5. Beside(u, S, D, p, n, p, node', S2, D2)
      BY <3>1, <3>2, <3>3, <3>4 DEF Beside
    <3> QED BY <1>2, <1>7, <1>20, <2>0, <3>4, <3>5, OthersUnlinked
  <2> QED BY <2>1, <2>2
<1>21. TreeThread(S2, D2, t)'
  <2>1. Calls(t)' /\ Call(t)' = Call(t)
    BY <1>1, <1>2, <1>7 DEF Calls, Call
  <2> QED BY <1>5, <1>6, <1>7, <1>8, <2>1 DEF TreeThread, Walking, Holds
<1>22. TreeTypes'
  BY <1>1, TypesKept
<1>23. TreeState(S2, D2)'
  BY <1>16, <1>18, <1>19, <1>20, <1>21, <1>22 DEF TreeState
<1> QED BY <1>23 DEF TreeInv

\* The node furthest to the left below top holds the least value there, ...
LEMMA SuccessorLeast ==
    ASSUME Names, NEW nd, NEW r, NEW S, NEW D, TreeOf(nd, r, S, D), NEW top \in S, NEW s \in D[top],
           nd[s].left = NULL, \A a \in D[top] : s \notin D[nd[a].right], NEW m \in D[top], m # s
    PROVE  nd[m].value > nd[s].value
<1>1. D[top] \subseteq S /\ m \in S /\ s \in S
  BY InTree
<1>2. nd[m].value \in Int /\ nd[s].value \in Int /\ D[NULL] = {}
  BY <1>1 DEF TreeOf
<1>3. CASE m \in D[s]
  <2>1. m \in D[nd[s].right]
    BY <1>1, <1>2, <1>3 DEF TreeOf
  <2> QED BY <1>1, <2>1 DEF TreeOf
<1>4. CASE s \in D[m]
  <2>1. s \in D[nd[m].left]
    BY <1>1, <1>4 DEF TreeOf
  <2>2. nd[s].value < nd[m].value
    BY <1>1, <2>1 DEF TreeOf
  <2> QED BY <1>2, <2>2
<1>5. ASSUME NEW a \in S, s \in D[nd[a].left], m \in D[nd[a].right] PROVE nd[m].value > nd[s].value
  <2>1. nd[a].value \in Int /\ nd[s].value < nd[a].value /\ nd[m].value > nd[a].value
    BY <1>5 DEF TreeOf
  <2> QED BY <1>2, <2>1
<1> QED BY <1>3, <1>4, <1>5, Meeting

\* ... and a key that fits elsewhere below top than above it is greater.
LEMMA FitsBeyond ==
    ASSUME Names, NEW nd, NEW r, NEW S, NEW D, TreeOf(nd, r, S, D), NEW top \in S, NEW s \in D[top],
           nd[s].left = NULL, \A a \in D[top] : s \notin D[nd[a].right],
           NEW x \in D[top], s \notin D[x], NEW k \in Int, Fits(nd, S, D, x, k), x # s
    PROVE  k > nd[s].value
<1>1. D[top] \subseteq S /\ x \in S /\ s \in S
  BY InTree
<1>2. nd[s].value \in Int /\ D[NULL] = {}
  BY <1>1 DEF TreeOf
<1>3. CASE x \in D[s]
  <2>1. x \in D[nd[s].right]
    BY <1>1, <1>2, <1>3 DEF TreeOf
  <2> QED BY <1>1, <2>1 DEF Fits
<1>4. ASSUME NEW a \in S, s \in D[nd[a].left], x \in D[nd[a].right] PROVE k > nd[s].value
  <2>1. nd[a].value \in Int /\ nd[s].value < nd[a].value
    BY <1>4 DEF TreeOf
  <2>2. k > nd[a].value
    BY <1>4 DEF Fits
  <2> QED BY <1>2, <2>1, <2>2
<1> QED BY <1>3, <1>4, Meeting

\* A node with two children gets the value of its successor, which is unlinked.
LEMMA NodeReplaced ==
    ASSUME Clients, NEW S, NEW D, TreeState(S, D), NEW t \in Caller, DeleteReplaces(t)
    PROVE  TreeInv'
<1>0. /\ Names /\ TreeTypes /\ TreeOf(node, root, S, D) /\ TreeHeap(S) /\ Kept
      /\ \A u \in Caller : TreeThread(S, D, u)
      /\ NULL \notin Node /\ NULL \notin Caller /\ 1..used \subseteq Node /\ S \subseteq alive
      /\ \A m \in alive : m \in Node /\ node[m] \in Cell
      /\ pc[t] # "idle" => Calls(t)
  BY AtWork
<1>1. Step(t) /\ pc[t] = "successor" /\ Calls(t)
  BY <1>0 DEF Step, DeleteReplaces
<1>2. program' = program /\ \A u \in Caller \ {t} : Same(u)
  BY <1>0, <1>1, StepOfOne
<1>3. PICK s : s = current[t]
  OBVIOUS
<1>4. PICK sp : sp = parent[t]
  OBVIOUS
<1>5. PICK q : q = target[t]
  OBVIOUS
<1>6. PICK top : top = node[q].right
  OBVIOUS
<1>7. /\ Call(t) = "delete" /\ Key(t) \in Int /\ owner[sp] = t /\ owner[q] = t
      /\ q \in S /\ node[q].value = Key(t) /\ sp \in S /\ s \in D[top]
      /\ IF sp = q THEN s = top ELSE sp \in D[top] /\ s = node[sp].left
      /\ \A a \in D[top] : s \notin D[node[a].right]
      /\ \A u \in Caller \ {t} : Walking(u) => parent[u] \notin Way(D, t)
  BY <1>0, <1>1, <1>3, <1>4, <1>5, <1>6, TheCall DEF TreeThread, Descends, Holds, Walking
<1>8. /\ s \in alive /\ owner[s] = NULL /\ node[s].left = NULL /\ alive' = alive /\ root' = root
      /\ keys' = keys \ {Key(t)} /\ owner' = Unlocked(owner, {q, sp}) /\ at' = at
      /\ doomed'[t] = s /\ pc'[t] = "destroy" /\ OnlyBelow(node, s) = node[s].right
      /\ node' = [node EXCEPT ![q].value = node[s].value, ![sp][LinkTo(sp, s)] = node[s].right]
  BY <1>0, <1>3, <1>4, <1>5 DEF DeleteReplaces, Goto, TreeTypes, OnlyBelow, BelowSuccessor
<1>9. D[top] \subseteq S /\ q \notin D[top] /\ top \in S /\ s \in S /\ s # q /\ s # NULL
  <2>1. D[top] \subseteq S
    BY <1>0, <1>6, <1>7, InTree
  <2>2. top \in S \cup {NULL} /\ D[NULL] = {} /\ q \notin D[top]
    BY <1>0, <1>6, <1>7 DEF TreeOf
  <2> QED BY <1>0, <1>7, <2>1, <2>2 DEF TreeOf
<1>10. Child(node, sp, s) /\ (sp = q => node[q].left # s)
  <2>1. Child(node, sp, s)
    BY <1>6, <1>7, <1>9 DEF Child
  <2>2. ASSUME sp = q PROVE node[q].left # s
    <3>1. s \in D[s]
      BY <1>0, <1>9, InTree
    <3>2. D[node[q].left] \cap D[node[q].right] = {}
      BY <1>0, <1>7 DEF TreeOf
    <3> QED BY <1>6, <1>7, <2>2, <3>1, <3>2
  <2> QED BY <2>1, <2>2
<1>11. sp # s
  BY <1>0, <1>7, <1>10, ChildBelow
<1>12. /\ q \in Node /\ sp \in Node /\ node[q] \in Cell /\ node[sp] \in Cell /\ DOMAIN node = Node
       /\ S \subseteq Node /\ node[s].value \in Int
  BY <1>0, <1>7, <1>9 DEF TreeTypes, TreeOf
<1>13. /\ \A m \in S : m \notin {q, sp} => node'[m] = node[m]
       /\ node'[q].value = node[s].value
       /\ sp # q => node'[sp].value = node[sp].value /\ node'[q].left = node[q].left
                    /\ node'[q].right = node[q].right
       /\ IF node[sp].left = s
          THEN node'[sp].left = OnlyBelow(node, s) /\ node'[sp].right = node[sp].right
          ELSE node'[sp].right = OnlyBelow(node, s) /\ node'[sp].left = node[sp].left
  BY <1>8, <1>12 DEF LinkTo, Cell
<1>14. PICK S2 : S2 = S \ {s}
  OBVIOUS
<1>15. PICK D2 : D2 = [m \in Node \cup {NULL} |-> D[m] \ {s}]
  OBVIOUS
<1>16. D2 \in [Node \cup {NULL} -> SUBSET Node] /\ \A m \in S \cup {NULL} : D2[m] = D[m] \ {s}
  <2>1. D \in [Node \cup {NULL} -> SUBSET Node]
    BY <1>0 DEF TreeOf
  <2> QED BY <1>12, <1>15, <2>1
<1>17. PICK nd : nd = [m \in S |-> [value |-> node[m].value, left |-> node'[m].left, right |-> node'[m].right]]
  OBVIOUS
<1>18. \A m \in S : nd[m].value = node[m].value /\ nd[m].left = node'[m].left /\ nd[m].right = node'[m].right
  BY <1>17
<1>19. WithoutChild(node, S, D, sp, s, nd, S2, D2)
  <2>1. \A a \in S : /\ nd[a].value = node[a].value
                     /\ a # sp => nd[a].left = node[a].left /\ nd[a].right = node[a].right
    <3> SUFFICES ASSUME NEW a \in S, a # sp PROVE nd[a].left = node[a].left /\ nd[a].right = node[a].right
      BY <1>18
    <3> QED BY <1>13, <1>18
  <2>2. IF node[sp].left = s
        THEN nd[sp].left = OnlyBelow(node, s) /\ nd[sp].right = node[sp].right
        ELSE nd[sp].right = OnlyBelow(node, s) /\ nd[sp].left = node[sp].left
    BY <1>7, <1>13, <1>18
  <2> QED BY <1>7, <1>8, <1>10, <1>14, <1>16, <2>1, <2>2 DEF WithoutChild
<1>20. TreeOf(nd, root, S2, D2) /\ \A x \in S2 : \A l : Fits(node, S, D, x, l) => Fits(nd, S2, D2, x, l)
  BY <1>0, <1>19, TreeUnlinked
<1>21. \A a \in S2 : D2[nd[a].left] = D[node[a].left] \ {s} /\ D2[nd[a].right] = D[node[a].right] \ {s}
  BY <1>0, <1>19, TreeUnlinked
<1>22. \A m \in D[top] : m # s => node[m].value > node[s].value
  BY <1>0, <1>7, <1>8, <1>9, SuccessorLeast
<1>23. q \in S2 /\ sp \in S2 /\ S2 \subseteq S /\ Key(t) < node[s].value
  <2>1. node[s].value > node[q].value
    BY <1>0, <1>6, <1>7 DEF TreeOf
  <2> QED BY <1>7, <1>9, <1>11, <1>12, <1>14, <2>1
<1>24. WithValue(nd, S2, D2, q, node[s].value, node')
  <2>1. Fits(nd, S2, D2, q, node[s].value)
    <3>1. D[top] \subseteq D[q] /\ s \in D[q]
      BY <1>0, <1>6, <1>7, InTree
    <3>2. ASSUME NEW a \in S2, q \in D2[nd[a].left] PROVE node[s].value < nd[a].value
      <4>1. q \in D[node[a].left] /\ a \in S
        BY <1>21, <1>23, <3>2
      <4>2. node[a].left \in S
        BY <1>0, <4>1 DEF TreeOf
      <4>3. D[q] \subseteq D[node[a].left]
        BY <1>0, <4>1, <4>2 DEF TreeOf
      <4>4. node[s].value < node[a].value
        BY <1>0, <3>1, <4>1, <4>3 DEF TreeOf
      <4> QED BY <1>18, <4>1, <4>4
    <3>3. ASSUME NEW a \in S2, q \in D2[nd[a].right] PROVE node[s].value > nd[a].value
      <4>1. q \in D[node[a].right] /\ a \in S
        BY <1>21, <1>23, <3>3
      <4>2. node[a].right \in S
        BY <1>0, <4>1 DEF TreeOf
      <4>3. D[q] \subseteq D[node[a].right]
        BY <1>0, <4>1, <4>2 DEF TreeOf
      <4>4. node[s].value > node[a].value
        BY <1>0, <3>1, <4>1, <4>3 DEF TreeOf
      <4> QED BY <1>18, <4>1, <4>4
    <3> QED BY <3>2, <3>3 DEF Fits
  <2>2. \A m \in D2[nd[q].left] : nd[m].value < node[s].value
    <3> SUFFICES ASSUME NEW m \in D2[nd[q].left] PROVE nd[m].value < node[s].value
      OBVIOUS
    <3>1. m \in D[node[q].left]
      BY <1>21, <1>23
    <3>2. m \in S
      BY <1>0, <1>7, <3>1, InTree
    <3>3. node[m].value < node[q].value /\ node[m].value \in Int
      BY <1>0, <1>7, <3>1, <3>2 DEF TreeOf
    <3> QED BY <1>7, <1>12, <1>18, <1>23, <3>2, <3>3
  <2>3. \A m \in D2[nd[q].right] : nd[m].value > node[s].value
    BY <1>6, <1>9, <1>18, <1>21, <1>22, <1>23
  <2>4. \A a \in S2 : /\ node'[a].left = nd[a].left /\ node'[a].right = nd[a].right
                      /\ a # q => node'[a].value = nd[a].value
    <3> SUFFICES ASSUME NEW a \in S2, a # q PROVE node'[a].value = nd[a].value
      BY <1>18, <1>23
    <3>1. node'[a].value = node[a].value
      BY <1>13, <1>23
    <3> QED BY <1>18, <1>23, <3>1
  <2> QED BY <1>12, <1>13, <1>23, <2>1, <2>2, <2>3, <2>4 DEF WithValue
<1>25. TreeOf(node', root', S2, D2)
  BY <1>0, <1>8, <1>20, <1>24, TreeRevalued
<1>26. \A m \in S2 : node'[m].value = IF m = q THEN node[s].value ELSE node[m].value
  <2> SUFFICES ASSUME NEW m \in S2, m # q PROVE node'[m].value = node[m].value
    BY <1>13
  <2> QED BY <1>13, <1>23
<1>27. {node'[m].value : m \in S2} = keys'
  <2>1. {node[m].value : m \in S} = keys
    BY <1>0 DEF TreeHeap
  <2>2. \A m \in S : node[m].value = Key(t) => m = q
    BY <1>0, <1>7, OneNodeEach
  <2>3. ASSUME NEW m \in S2 PROVE node'[m].value \in keys'
    <3>1. CASE m = q
      <4>1. node[s].value \in keys /\ node[s].value # Key(t)
        BY <1>7, <1>9, <1>12, <1>23, <2>1
      <4> QED BY <1>8, <1>13, <3>1, <4>1
    <3>2. CASE m # q
      <4>1. m \in S /\ node[m].value # Key(t)
        BY <1>23, <2>2, <3>2
      <4>2. node[m].value \in keys
        BY <2>1, <4>1
      <4>3. node'[m].value = node[m].value
        BY <1>26, <3>2
      <4>4. keys' = keys \ {Key(t)}
        BY <1>8
      <4> QED BY <4>1, <4>2, <4>3, <4>4
    <3> QED BY <3>1, <3>2
  <2>4. ASSUME NEW k \in keys' PROVE \E m \in S2 : node'[m].value = k
    <3>1. PICK m \in S : node[m].value = k /\ k # Key(t)
      BY <1>8, <2>1
    <3>2. m # q
      BY <1>7, <3>1
    <3>3. CASE m = s
      BY <1>13, <1>23, <3>1, <3>3
    <3>4. CASE m # s
      BY <1>14, <1>26, <3>1, <3>2, <3>4
    <3> QED BY <3>3, <3>4
  <2> QED BY <2>3, <2>4
<1>28. TreeHeap(S2)'
  <2>1. S \cap Doomed = {}
    BY <1>0 DEF Doomed, TreeThread
  <2> QED BY <1>0, <1>1, <1>2, <1>8, <1>9, <1>14, <1>27, <2>1, HeapTaken
<1>29. /\ ~NoLoss(program) /\ \A r : Rooted(program, r) => q # root /\ root # NULL
       /\ \A u \in Caller : u # t => pc[u] # "search"
  BY <1>1, <1>7, TakenWell, TakenOut
<1>30. Kept'
  <2>1. ASSUME NEW r, Rooted(program, r) PROVE root' # NULL /\ node'[root'].value = r
    <3>1. q # root /\ root # NULL /\ node[root].value = r
      BY <1>0, <1>29, <2>1 DEF Kept
    <3>2. root \in S2
      <4>1. root \in S /\ root \in D[root] /\ sp \in D[root]
        BY <1>0, <1>7, InTree
      <4>2. root # s
        BY <1>0, <1>7, <1>10, <4>1, ChildBelow
      <4> QED BY <1>14, <4>1, <4>2
    <3> QED BY <1>8, <1>26, <3>1, <3>2
  <2> QED BY <1>0, <1>2, <1>8, <1>29, <2>1, KeptByDelete
<1>31. ASSUME NEW u \in Caller, u # t PROVE TreeThread(S2, D2, u)'
  <2>0. Same(u) /\ TreeThread(S, D, u) /\ pc[u] # "search"
    BY <1>0, <1>2, <1>29, <1>31
  <2>1. \A m \in Holds(u) : m \notin {sp, s, q} /\ owner'[m] = owner[m]
    <3>1. \A m \in Node : owner'[m] = owner[m] \/ owner[m] \in {NULL, t}
      BY <1>0, <1>7, <1>8 DEF Unlocked
    <3>2. \A m \in Holds(u) : owner'[m] = owner[m]
      BY <1>0, <1>31, <3>1, OwnersKept
    <3>3. \A m \in Holds(u) : owner[m] = u
      BY <2>0 DEF TreeThread
    <3>4. u # NULL
      BY <1>0
    <3> QED BY <1>7, <1>8, <1>31, <3>2, <3>3, <3>4
  <2>2. ASSUME Walking(u), parent[u] # NULL PROVE Fits(node', S2, D2, parent[u], Key(u))
    <3>1. PICK x : x = parent[u]
      OBVIOUS
    <3>2. PICK k : k = Key(u)
      OBVIOUS
    <3>3. x \in S /\ Fits(node, S, D, x, k) /\ k \in Int
      <4>1. WalksWell(S, D, u) /\ Calls(u)
        BY <2>0, <2>2 DEF TreeThread, Walking
      <4>2. Key(u) \in Int
        BY <1>0, <4>1, TheCall
      <4> QED BY <2>2, <3>1, <3>2, <4>1, <4>2 DEF WalksWell
    <3>4. x # s /\ x \in S2
      <4>1. x # s
        BY <2>1, <2>2, <3>1 DEF Holds
      <4> QED BY <1>14, <3>3, <4>1
    <3>5. Fits(nd, S2, D2, x, k)
      BY <1>20, <3>3, <3>4
    <3>6. \A a \in S2 : node'[a].left = nd[a].left /\ node'[a].right = nd[a].right
      BY <1>18, <1>23
    <3>7. ASSUME NEW a \in S2, x \in D2[node'[a].left] PROVE k < node'[a].value
      <4>1. k < node[a].value
        BY <1>18, <1>23, <3>5, <3>6, <3>7 DEF Fits
      <4>2. CASE a = q
        BY <1>7, <1>12, <1>23, <1>26, <3>3, <4>1, <4>2
      <4> QED BY <1>26, <4>1, <4>2
    <3>8. ASSUME NEW a \in S2, x \in D2[node'[a].right] PROVE k > node'[a].value
      <4>1. k > node[a].value
        BY <1>18, <1>23, <3>5, <3>6, <3>8 DEF Fits
      <4>2. CASE a = q
        <5>1. x \in D[top]
          BY <1>6, <1>21, <3>6, <3>8, <4>2
        <5>2. s \notin D[x]
          BY <1>3, <1>5, <1>6, <1>7, <1>31, <2>2, <3>1, <3>4, <5>1 DEF Way
        <5>3. k > node[s].value
          BY <1>0, <1>7, <1>8, <1>9, <3>3, <3>4, <5>1, <5>2, FitsBeyond
        <5> QED BY <1>26, <4>2, <5>3
      <4> QED BY <1>26, <4>1, <4>2
    <3> QED BY <3>1, <3>2, <3>7, <3>8 DEF Fits
  <2>3. \A m \in S : /\ node'[m].left = nd[m].left /\ node'[m].right = nd[m].right
                     /\ m \notin {sp, s, q} => node'[m] = node[m]
    BY <1>13, <1>18
  <2>4. Beside(u, S, D, sp, s, q, nd, S2, D2)
    BY <1>19, <2>1, <2>2, <2>3 DEF Beside
  <2> QED BY <1>2, <1>8, <1>31, <2>0, <2>4, OthersUnlinked
<1>32. TreeThread(S2, D2, t)'
  <2>1. Calls(t)' /\ Call(t)' = Call(t)
    BY <1>1, <1>2, <1>8 DEF Calls, Call
  <2> QED BY <1>7, <1>8, <1>14, <2>1 DEF TreeThread, Walking, Holds
<1>33. TreeTypes'
  BY <1>1, TypesKept
<1>34. TreeState(S2, D2)'
  BY <1>25, <1>28, <1>30, <1>31, <1>32, <1>33 DEF TreeState
<1> QED BY <1>34 DEF TreeInv
-----------------------------------------------------------------------------
(* The invariant. *)

LEMMA TreeInitially ==
    ASSUME Clients, Init
    PROVE  TreeInv
<1>0. Names /\ NULL \notin Node /\ NULL \notin Caller /\ MaxNodes \in Nat
  BY DEF Clients, Names
<1>1. PICK D : D = [m \in Node \cup {NULL} |-> {}]
  OBVIOUS
<1>2. TreeOf(node, root, {}, D)
  BY <1>0, <1>1 DEF Init, TreeOf
<1>3. Orderly(program) /\ Written(program)
  BY DEF Clients, Init, Orderly
<1>4. \A t \in Caller : program[t] \in Seq({"insert", "delete", "search", "join"} \X Int)
  BY <1>3 DEF Written
<1>5. TreeTypes
  <2>1. \A c \in Returned : FALSE
    <3> SUFFICES ASSUME NEW t \in Caller, NEW i \in DOMAIN program[t], i < at[t] PROVE FALSE
      BY DEF Returned, Insertions
    <3>1. i \in 1..Len(program[t]) /\ at[t] = 1
      BY <1>4 DEF Init
    <3> QED BY <3>1
  <2>2. Cardinality(Returned) = 0
    <3>1. Returned = {}
      BY <2>1
    <3> QED BY <3>1, FS_EmptySet
  <2>3. \A t \in Caller : at[t] \in 1..(Len(program[t]) + 1)
    BY <1>4 DEF Init
  <2>4. used = 0 /\ 0 \in 0..MaxNodes /\ used <= Cardinality(Returned)
    BY <1>0, <2>2 DEF Init
  <2>5. \A n \in 1..used : node[n] \in Cell
    BY <2>4
  <2> QED BY <2>3, <2>4, <2>5 DEF Init, TreeTypes, Label
<1>6. TreeHeap({})
  BY DEF Init, TreeHeap, Doomed
<1>7. Kept
  <2>1. \A t \in Caller : Inserted(t) = {}
    BY DEF Init, Inserted
  <2> QED BY <2>1 DEF Init, Kept
<1>8. \A t \in Caller : TreeThread({}, D, t)
  BY DEF Init, TreeThread, Walking, Holds
<1> QED BY <1>2, <1>5, <1>6, <1>7, <1>8 DEF TreeInv, TreeState

LEMMA TreeStep ==
    ASSUME Clients, TreeInv, [Next]_vars
    PROVE  TreeInv'
<1>1. PICK S, D : TreeState(S, D)
  BY DEF TreeInv
<1>2. ASSUME UNCHANGED vars PROVE TreeInv'
  <2>1. TreeState(S, D)'
    <3>1. TreeTypes' /\ TreeOf(node, root, S, D)' /\ TreeHeap(S)' /\ Kept'
      <4>1. Returned' = Returned /\ Doomed' = Doomed
        BY <1>2 DEF vars, Returned, Doomed
      <4>2. TreeTypes'
        BY <1>1, <1>2, <4>1 DEF vars, TreeState, TreeTypes
      <4>3. TreeHeap(S)' /\ node' = node /\ root' = root
        BY <1>1, <1>2, <4>1 DEF vars, TreeState, TreeHeap
      <4>4. \A t \in Caller : Inserted(t)' = Inserted(t)
        BY <1>2 DEF vars, Inserted
      <4>5. Kept'
        BY <1>1, <1>2, <4>4 DEF vars, TreeState, Kept
      <4> QED BY <1>1, <4>2, <4>3, <4>5 DEF TreeState
    <3>2. ASSUME NEW t \in Caller PROVE TreeThread(S, D, t)'
      <4>0. TreeThread(S, D, t) /\ program' = program /\ \A u \in Caller : Same(u)
        BY <1>1, <1>2, <3>2 DEF TreeState, vars, Same
      <4>1. Walking(t) => WalksWell(S, D, t)'
        <5>1. Key(t)' = Key(t)
          BY <1>2 DEF vars, Key
        <5> QED BY <1>2, <4>0, <5>1 DEF vars, TreeThread, WalksWell, Side
      <4>2. pc[t] = "search" => SearchesWell(S, D, t)'
        <5>1. Key(t)' = Key(t) /\ Inserted(t)' = Inserted(t)
          BY <1>2 DEF vars, Key, Inserted
        <5> QED BY <1>2, <4>0, <5>1 DEF vars, TreeThread, SearchesWell
      <4>3. pc[t] = "successor" => Descends(S, D, t)'
        <5>1. Key(t)' = Key(t) /\ Way(D, t)' = Way(D, t) /\ \A u \in Caller : Walking(u)' = Walking(u)
          BY <1>2 DEF vars, Key, Way, Walking
        <5> QED BY <1>2, <4>0, <5>1 DEF vars, TreeThread, Descends
      <4>4. /\ pc[t] = "root" => root' # NULL
            /\ pc[t] = "destroy" => doomed[t] \in alive' \ S
            /\ \A n \in Holds(t) : owner'[n] = owner[n]
        BY <1>2, <4>0 DEF vars, TreeThread
      <4> QED BY <4>0, <4>1, <4>2, <4>3, <4>4, ThreadKept
    <3> QED BY <3>1, <3>2 DEF TreeState
  <2> QED BY <2>1 DEF TreeInv
<1>3. ASSUME NEW t \in Caller, Step(t) PROVE TreeInv'
  <2>1. CASE InsertRoot(t)
    BY <1>1, <2>1, RootPlanted
  <2>2. CASE InsertBegins(t) \/ InsertReadsRoot(t) \/ ReadsRoot(t)
    <3>1. TreeState(S, D)'
      BY <1>1, <2>2, ReadingRoot
    <3> QED BY <3>1 DEF TreeInv
  <2>3. CASE InsertMoves(t) \/ DeleteMoves(t)
    <3>1. TreeState(S, D)'
      BY <1>1, <2>3, WalkMoves
    <3> QED BY <3>1 DEF TreeInv
  <2>4. CASE InsertFinds(t) \/ NotFound(t) \/ Joins(t) \/ destroyNode(t)
    <3>1. TreeState(S, D)'
      BY <1>1, <2>4, ReturnsIdle
    <3> QED BY <3>1 DEF TreeInv
  <2>5. CASE InsertLinks(t)
    BY <1>1, <2>5, LeafLinked
  <2>6. CASE Searches(t)
    <3>1. TreeState(S, D)'
      <4>1. CASE Key(t) = node[current[t]].value
        BY <1>1, <2>6, <4>1, ReturnsIdle
      <4>2. CASE Key(t) # node[current[t]].value
        BY <1>1, <2>6, <4>2, SearchGoesOn
      <4> QED BY <4>1, <4>2
    <3> QED BY <3>1 DEF TreeInv
  <2>7. CASE DeleteUnlinks(t)
    BY <1>1, <2>7, NodeUnlinked
  <2>8. CASE DeleteDescends(t)
    <3>1. TreeState(S, D)'
      BY <1>1, <2>8, DescentBegins
    <3> QED BY <3>1 DEF TreeInv
  <2>9. CASE SuccessorMoves(t)
    <3>1. TreeState(S, D)'
      BY <1>1, <2>9, DescentMoves
    <3> QED BY <3>1 DEF TreeInv
  <2>10. CASE DeleteReplaces(t)
    BY <1>1, <2>10, NodeReplaced
  <2> QED BY <1>3, <2>1, <2>2, <2>3, <2>4, <2>5, <2>6, <2>7, <2>8, <2>9, <2>10 DEF Step
<1> QED BY <1>2, <1>3 DEF Next

\* What the invariant says of the tree and of the threads.
LEMMA TreeIsWell ==
    ASSUME Clients, TreeInv
    PROVE  TypeOK /\ Ordered /\ TreeHoldsKeys /\ NoUseAfterFree /\ FindsWhatIsThere
<1>1. PICK S, D : TreeState(S, D)
  BY DEF TreeInv
<1>2. /\ Names /\ TreeTypes /\ TreeOf(node, root, S, D) /\ TreeHeap(S)
      /\ \A t \in Caller : TreeThread(S, D, t)
      /\ NULL \notin Node /\ MaxNodes \in Nat
  BY <1>1 DEF TreeState, Clients, Names
<1>3. Below(root) = S /\ \A n \in S \cup {NULL} : Below(n) = D[n]
  <2>1. \A n \in S \cup {NULL} : Below(n) = D[n]
    BY <1>2, BelowIs
  <2> QED BY <1>2, <2>1 DEF TreeOf
<1>4. TypeOK
  <2>1. root \in Node \cup {NULL}
    BY <1>2 DEF TreeOf
  <2> QED BY <1>2, <2>1 DEF TypeOK, TreeTypes, Cell
<1>5. Ordered
  <2> SUFFICES ASSUME NEW n \in S
               PROVE  /\ \A k \in Values(node[n].left) : k < node[n].value
                      /\ \A k \in Values(node[n].right) : k > node[n].value
    BY <1>3 DEF Ordered
  <2>1. Below(node[n].left) = D[node[n].left] /\ Below(node[n].right) = D[node[n].right]
    BY <1>2, <1>3 DEF TreeOf
  <2>2. /\ \A m \in D[node[n].left] : node[m].value < node[n].value
        /\ \A m \in D[node[n].right] : node[m].value > node[n].value
    BY <1>2 DEF TreeOf
  <2> QED BY <2>1, <2>2 DEF Values
<1>6. TreeHoldsKeys
  BY <1>2, <1>3 DEF TreeHoldsKeys, TreeHeap, Values
<1>7. ASSUME NEW t \in Caller, pc[t] \in Locking PROVE current[t] \in alive \cup {NULL}
  <2>1. S \subseteq alive /\ TreeThread(S, D, t)
    BY <1>2 DEF TreeHeap
  <2>2. CASE pc[t] \in {"insert", "delete"}
    BY <2>1, <2>2 DEF TreeThread, Walking, WalksWell
  <2>3. CASE pc[t] = "search"
    BY <2>1, <2>3 DEF TreeThread, SearchesWell
  <2>4. CASE pc[t] = "successor"
    <3>1. target[t] \in S /\ current[t] \in D[node[target[t]].right]
      BY <2>1, <2>4 DEF TreeThread, Descends
    <3>2. D[node[target[t]].right] \subseteq S
      BY <1>2, <3>1, InTree
    <3> QED BY <2>1, <3>1, <3>2
  <2> QED BY <1>7, <2>2, <2>3, <2>4 DEF Locking
<1>8. ASSUME NEW t \in Caller, pc[t] = "delete", current[t] = NULL, parent[t] # NULL, Key(t) \in keys
      PROVE  FALSE
  <2>1. WalksWell(S, D, t) /\ Calls(t)
    BY <1>2, <1>8 DEF TreeThread, Walking
  <2>2. PICK p : p = parent[t]
    OBVIOUS
  <2>3. PICK k : k = Key(t)
    OBVIOUS
  <2>4. k \in Int
    <3>1. Clients /\ TreeTypes
      BY <1>2
    <3> QED BY <2>1, <2>3, <3>1, TheCall
  <2>5. /\ p \in S /\ k # node[p].value /\ Fits(node, S, D, p, k)
        /\ (IF k < node[p].value THEN node[p].left ELSE node[p].right) = NULL
    BY <1>8, <2>1, <2>2, <2>3 DEF WalksWell, Side
  <2>6. PICK m \in S : node[m].value = k
    BY <1>2, <1>8, <2>3 DEF TreeHeap
  <2> QED BY <1>2, <2>4, <2>5, <2>6, FitsNowhere
<1>9. ASSUME NEW t \in Caller, pc[t] = "search", current[t] = NULL, Key(t) \in Inserted(t) \cap keys
      PROVE  FALSE
  <2>1. SearchesWell(S, D, t)
    BY <1>2, <1>9 DEF TreeThread
  <2>2. D[NULL] = {}
    BY <1>2 DEF TreeOf
  <2> QED BY <1>9, <2>1, <2>2 DEF SearchesWell
<1>10. NoUseAfterFree
  BY <1>7 DEF NoUseAfterFree
<1>11. FindsWhatIsThere
  BY <1>8, <1>9 DEF FindsWhatIsThere
<1> QED BY <1>4, <1>5, <1>6, <1>10, <1>11

\* Hand over hand locking keeps the tree of fgl_bst.c a search tree of the set that the
\* calls make, with nothing leaked, and no thread uses a node that another one has
\* destroyed, while the threads keep to Orderly: all insert below a root that stays and
\* none searches, or no value that is inserted is deleted, or there is one thread.
THEOREM TreeIsSafe ==
    ASSUME Clients
    PROVE  Spec => [](TypeOK /\ Ordered /\ TreeHoldsKeys /\ NoUseAfterFree /\ FindsWhatIsThere)
<1>1. Init => TreeInv
  BY TreeInitially
<1>2. TreeInv /\ [Next]_vars => TreeInv'
  BY TreeStep
<1>3. TreeInv => TypeOK /\ Ordered /\ TreeHoldsKeys /\ NoUseAfterFree /\ FindsWhatIsThere
  BY TreeIsWell
<1> QED BY <1>1, <1>2, <1>3, PTL DEF Spec
=============================================================================
