----------------------- MODULE MCSequentialStructures ------------------------
(***************************************************************************)
(* The sequential containers and trees for TLC.  A behaviour is that of    *)
(* one container under all sequences of its calls; `kind` names the file.  *)
(***************************************************************************)
EXTENDS NodeLists

CONSTANTS Kinds,                          \* the files checked
          Sizes, Wrap,                    \* of LinkedLists
          Capacity, MaxCapacity, Garbage, \* of ArrayContainers
          Key, TableSize, MAX_LOOPS,      \* of HashTables
          Ranked, Data, Room,             \* of the trees: the values, the nodes
          MAX_LEVEL,                      \* of SkipLists
          Letter, MaxWord, Fan, m, Summand  \* of BranchingTrees

VARIABLES array, rearUsed, table, tree

Linked == INSTANCE LinkedLists
Array == INSTANCE ArrayContainers
Tables == INSTANCE HashTables WITH Size <- TableSize
RedBlack == INSTANCE RedBlackTree WITH Data <- Ranked
Binary == INSTANCE SearchTrees
Skip == INSTANCE SkipLists
Branching == INSTANCE BranchingTrees

arrays == <<array, rearUsed>>
all == <<kind, list, call, arrays, table, tree>>
LinkedKinds == Linked!RawKinds \cup Linked!OwnedKinds \cup Linked!CircularKinds
BinaryKinds == Binary!BSTKinds \cup Binary!IntervalKinds
TreeKinds == RedBlack!RedBlackKinds \cup BinaryKinds \cup Skip!SkipKinds \cup Branching!BranchingKinds
Symmetry == Permutations(Address)

NoArray == Array!createQueue
NoTable == Tables!NewTable(Tables!Linear)
NoTree == CASE kind \in RedBlack!RedBlackKinds -> RedBlack!NoTree
            [] kind \in Skip!SkipKinds -> Skip!createSkipList
            [] kind \in Branching!BranchingKinds -> Branching!Create
            [] OTHER -> Binary!Leaf

MCInit == /\ kind \in Kinds
          /\ rearUsed = FALSE
          /\ call = [op |-> "create", at |-> 0, values |-> <<>>, answer |-> Nothing]
          /\ \/ Array!Init /\ list = NoList(0) /\ table = NoTable
             \/ /\ kind \in LinkedKinds
                /\ \E size \in Sizes : /\ kind \notin Linked!CircularKinds => size = 0
                                       /\ list = NoList(size)
                /\ array = NoArray /\ table = NoTable
             \/ /\ kind \in Tables!TableKinds /\ Tables!TableInit
                /\ list = NoList(0) /\ array = NoArray
             \/ kind \in TreeKinds /\ list = NoList(0) /\ array = NoArray /\ table = NoTable
          /\ tree = NoTree

MCNext == \/ Array!ArrayNext /\ UNCHANGED <<list, table, tree>>
          \/ (Linked!RawNext \/ Linked!OwnedNext \/ Linked!CircularNext) /\ UNCHANGED <<arrays, table, tree>>
          \/ Tables!TableNext /\ UNCHANGED <<list, arrays, tree>>
          \/ /\ \/ RedBlack!RedBlackNext \/ Binary!SearchTreeNext
                \/ Skip!SkipNext \/ Branching!BranchingNext
             /\ UNCHANGED <<list, arrays, table>>
          \/ kind = "crashed" /\ UNCHANGED all

MCSpec == MCInit /\ [][MCNext]_all
-----------------------------------------------------------------------------
\* Every variable of the sequential containers keeps its type.
SequentialTypeOK == /\ TypeOK /\ Array!TypeOK /\ Tables!TypeOK
                    /\ kind \in RedBlack!RedBlackKinds => RedBlack!TypeOK
                    /\ kind \in BinaryKinds => Binary!TypeOK
                    /\ kind \in Skip!SkipKinds => Skip!TypeOK
                    /\ kind \in Branching!BranchingKinds => Branching!TypeOK
                    /\ call.values \in Seq(Int) /\ call.answer \in Seq(Int)

\* Every container does with each call what a sequence of values does with it, and
\* answers the same, except for the rear of the deque, for the rings whose size
\* started wrong and for deletions of black nodes from RBTree; and every hash table
\* and hamt.cpp what copies of keys do, as long as a table has hidden none.  A ring
\* of ringbuffer.c is full with `size` elements, as its insert and is_full have it; its
\* pseudocode and the comments of its main say with size - 1.
Elements == CASE kind \in Array!ArrayKinds -> Array!Elements
              [] kind \in RedBlack!RedBlackKinds -> RedBlack!Elements
              [] kind \in Binary!BSTKinds -> Binary!Elements
              [] kind \in Skip!SkipKinds -> Skip!Elements
              [] kind \in Branching!BranchingKinds -> Branching!Elements
              [] OTHER -> Contents(list)
Unlimited == 99
Promised == INSTANCE ContainerCalls
              WITH elements <- Elements,
                   bound <- CASE kind \in Array!ArrayKinds -> array.capacity
                              [] kind \in TreeKinds -> Unlimited
                              [] OTHER -> MaxLength,
                   held <- [k \in Key |-> IF kind = "hamt.cpp" THEN Branching!Held(k)
                                          ELSE Tables!Held(k)],
                   places <- Tables!Places,
                   vague <- Array!Vague \cup Linked!Vague \cup {"crash", "delete_black"}
                            \cup Binary!Vague \cup Branching!Vague \cup Tables!Vague
KeepsItsPromise == Promised!Spec

\* A call loses nodes for good only where they own each other in a ring, and only
\* when it empties the list or gives it up: a node taken out of a longer list is
\* always freed.
OwnersInARing == {"doublyLinkedlist_memoryleak.cpp"} \cup Linked!CircularKinds
LosesOnlyRings ==
    \/ kind \in OwnersInARing /\ (list'.head = NULL \/ call'.op = "clone")
    \/ list' = list
    \/ \A n \in Lost(list)' : n \in Lost(list)

\* Every call leaves the links, the sizes and the indices of a container in
\* agreement, and frees what it takes out.
StructuresSound == /\ [](/\ Linked!RawListsSound /\ Linked!OwnedListsSound
                         /\ Linked!CircularListsSound /\ Array!IndicesAgree
                         /\ (kind \in Tables!TableKinds => Tables!TablesSound))
                   /\ [][LosesOnlyRings /\ Linked!StaysExact]_all

\* Every tree keeps its values in order and what its nodes know of those below them:
\* the largest end of an interval, a sum, the levels of a skip list, that a branch of
\* a trie leads to a word; the node of each key of hamt.cpp is where its hash leads.
TreesSound == /\ kind \in RedBlack!RedBlackKinds => RedBlack!TreeSound
              /\ Binary!TreesSound
              /\ kind \in Skip!SkipKinds => Skip!LevelsSound
              /\ Branching!BranchesSound

\* A call changes no more of a tree than it should: RBTree stays balanced as long as
\* nothing is lost from it, an interval is one more of those that were there, and a
\* node of NaryTree leaves with all that is below it and nothing else.
TreesChangeAsAsked == [][/\ RedBlack!StaysBalanced /\ Binary!IntervalsStay
                         /\ Branching!SubtreesLeaveWhole]_all

\* Both ends of a deque with items are items that were inserted.
EndsAreItems == Array!EndsAreItems

\* A search of hashtable_cache.hpp that ends at a free slot is one for a key that is
\* not in the table.
FreeSlotMeansAbsent == Tables!FreeSlotMeansAbsent
=============================================================================
