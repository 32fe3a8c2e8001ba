------------------------------- MODULE SkipLists -------------------------------
(***************************************************************************)
(* The skip lists skipList.c and skipList_smartptr.cpp: sorted lists of    *)
(* distinct values with links of several levels.  A node is named by its   *)
(* value; it has the links of the levels it was made with and no others,   *)
(* so that a list is its level and, for the header and each node, the      *)
(* links that there are.                                                   *)
(***************************************************************************)
EXTENDS Integers, Sequences, FiniteSets, SequencesExt, FiniteSetsExt, TLC

CONSTANTS Data,        \* the values inserted, above INT_MIN
          MAX_LEVEL,
          NULL

VARIABLES kind, tree,
          call         \* the call that came last: [op, at, values, answer]

SkipKinds == {"skipList.c", "skipList_smartptr.cpp"}
INT_MIN == 0           \* the value of the header
Nothing == <<>>

\* A node without successors; the list with no node but the header.
createNode(rl) == [i \in 0..rl |-> NULL]
createSkipList == [level |-> 0, forward |-> (INT_MIN :> createNode(MAX_LEVEL))]

Did(op, s, r, l) == /\ tree' = l
                    /\ call' = [op |-> op, at |-> 0, values |-> s, answer |-> r]
                    /\ UNCHANGED kind
Truth(b) == IF b THEN <<1>> ELSE <<0>>
-----------------------------------------------------------------------------
\* From n along the links of level i to the last node before v.
RECURSIVE LastBefore(_, _, _, _)
LastBefore(l, v, n, i) ==
    IF l.forward[n][i] # NULL /\ l.forward[n][i] < v THEN LastBefore(l, v, l.forward[n][i], i)
    ELSE n

\* The node whose link of level i changes when v comes or goes: the walk starts at the
\* header, at the list's level, and goes down a level where it cannot go on.
RECURSIVE update(_, _, _)
update(l, v, i) == IF i > l.level THEN INT_MIN ELSE LastBefore(l, v, update(l, v, i + 1), i)

\* What stands where v belongs.
Candidate(l, v) == l.forward[update(l, v, 0)][0]

\* rand() may answer anything, up to MAX_LEVEL times in a row.
randomLevel == 0..MAX_LEVEL

\* The new node takes over the links of the nodes before it.
Linked(l, v, rl) ==
    [level |-> Max({rl, l.level}),
     forward |-> [n \in DOMAIN l.forward \cup {v} |->
        IF n = v THEN [i \in 0..rl |-> l.forward[update(l, v, i)][i]]
        ELSE [i \in DOMAIN l.forward[n] |->
                 IF i <= rl /\ update(l, v, i) = n THEN v ELSE l.forward[n][i]]]]
insert(v, rl) ==
    Did("add", <<v>>, Nothing, IF Candidate(tree, v) = v THEN tree ELSE Linked(tree, v, rl))

search(v) == Did("contains", <<v>>, Truth(Candidate(tree, v) = v), tree)

\* The levels at which v is linked, up to the first at which it is not.
Levels(l, v) == {i \in 0..l.level : \A j \in 0..i : l.forward[update(l, v, j)][j] = v}
Around(l, v) == [n \in (DOMAIN l.forward) \ {v} |->
                    [i \in DOMAIN l.forward[n] |->
                        IF i \in Levels(l, v) /\ update(l, v, i) = n THEN l.forward[v][i]
                        ELSE l.forward[n][i]]]

\* The level goes down while the header has no node at it; the mutation goes down once.
LoweredOnce(forward, level) == IF level > 0 /\ forward[INT_MIN][level] = NULL THEN level - 1 ELSE level
Lowered(forward, level) == Max({0} \cup {i \in 1..level : forward[INT_MIN][i] # NULL})
Unlinked(l, v) == LET around == Around(l, v)
                  IN  [level |-> Lowered(around, l.level), forward |-> around]
delete(v) ==
    Did("discard", <<v>>, Nothing, IF Candidate(tree, v) = v THEN Unlinked(tree, v) ELSE tree)
-----------------------------------------------------------------------------
(* skipList_smartptr.cpp: the walk holds the node it is at, and shared links *)
(* free what nothing holds.                                                  *)

sptr_randomLevel == 0..MAX_LEVEL
sptr_insert(v, level) ==
    Did("add", <<v>>, Nothing,
        IF Candidate(tree, v) # v THEN Linked(tree, v, level) ELSE tree)
sptr_search(v) == Did("contains", <<v>>, Truth(Candidate(tree, v) = v), tree)

\* A node lives as long as a link to it does.
Held(forward) == {INT_MIN} \cup UNION {{forward[n][i] : i \in DOMAIN forward[n]} : n \in DOMAIN forward}
remove(v) ==
    LET links == [n \in DOMAIN tree.forward |->
                     [i \in DOMAIN tree.forward[n] |->
                         IF i \in Levels(tree, v) /\ update(tree, v, i) = n THEN tree.forward[v][i]
                         ELSE tree.forward[n][i]]]
        kept == [n \in DOMAIN links \cap Held(links) |-> links[n]]
    IN  Did("discard", <<v>>, Nothing,
            IF Candidate(tree, v) # v THEN tree
            ELSE [level |-> Lowered(kept, tree.level), forward |-> kept])

SkipNext ==
    \E v \in Data :
       \/ /\ kind = "skipList.c"
          /\ (\E rl \in randomLevel : insert(v, rl)) \/ search(v) \/ delete(v)
       \/ /\ kind = "skipList_smartptr.cpp"
          /\ (\E level \in sptr_randomLevel : sptr_insert(v, level)) \/ sptr_search(v) \/ remove(v)
-----------------------------------------------------------------------------
\* Every variable keeps its type.
TypeOK == /\ tree.level \in 0..MAX_LEVEL
          /\ DOMAIN tree.forward \subseteq Data \cup {INT_MIN}
          /\ \A n \in DOMAIN tree.forward :
                /\ DOMAIN tree.forward[n] \in {0..rl : rl \in 0..MAX_LEVEL}
                /\ \A i \in DOMAIN tree.forward[n] : tree.forward[n][i] \in Data \cup {NULL}

\* The values along level i, from node n on.
RECURSIVE Along(_, _)
Along(n, i) == IF n = NULL THEN <<>> ELSE <<n>> \o Along(tree.forward[n][i], i)
Elements == Along(tree.forward[INT_MIN][0], 0)

\* Each level links, in order, exactly the nodes that were made with a link of that
\* level, so that a walk which comes down a level finds a link there; a walk begins
\* at the highest level that links a node.
LevelsSound ==
    /\ \A i \in 0..MAX_LEVEL :
          LET s == Along(tree.forward[INT_MIN][i], i)
          IN  /\ ToSet(s) = {n \in (DOMAIN tree.forward) \ {INT_MIN} : i \in DOMAIN tree.forward[n]}
              /\ \A j \in 1..(Len(s) - 1) : s[j] < s[j + 1]
    /\ tree.level = Max({0} \cup {i \in 0..MAX_LEVEL : tree.forward[INT_MIN][i] # NULL})
=============================================================================
