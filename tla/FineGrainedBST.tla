--------------------------- MODULE FineGrainedBST ----------------------------
(***************************************************************************)
(* fgl_bst.c: a binary search tree with a mutex in every node, which       *)
(* insert and delete take hand over hand, and the threads of its two test  *)
(* programs.  What a thread does while it holds the mutex that protects it *)
(* is one step, from the acquisition on; tree->root is read without one.   *)
(***************************************************************************)
EXTENDS Integers, Sequences, FiniteSets

CONSTANTS Caller,
          Programs,     \* what the threads may run: a sequence of calls each
          MaxNodes,     \* no program inserts more often than this
          NULL

Node == 1..MaxNodes

VARIABLES root, node,
          alive,        \* the nodes allocated and not destroyed
          used,         \* how many were ever allocated
          owner,        \* who holds each node's mutex
          program, at,  \* what each thread runs, and its call
          pc, current, parent,
          target,       \* delete: the node that holds the value
          doomed,       \* delete: the node about to be destroyed
          keys          \* history: the set that the calls so far make

vars == <<root, node, alive, used, owner, program, at, pc, current, parent, target, doomed, keys>>

Init == /\ root = NULL /\ node = [n \in Node |-> NULL]
        /\ alive = {} /\ used = 0
        /\ owner = [n \in Node |-> NULL]
        /\ program \in Programs
        /\ at = [t \in Caller |-> 1]
        /\ pc = [t \in Caller |-> "idle"]
        /\ current = [t \in Caller |-> NULL]
        /\ parent = [t \in Caller |-> NULL]
        /\ target = [t \in Caller |-> NULL]
        /\ doomed = [t \in Caller |-> NULL]
        /\ keys = {}

Calls(t) == at[t] <= Len(program[t])
Call(t) == program[t][at[t]][1]
Key(t) == program[t][at[t]][2]

Goto(t, label) == pc' = [pc EXCEPT ![t] = label]

Returns(t) == Goto(t, "idle") /\ at' = [at EXCEPT ![t] = @ + 1]

\* The child under which a value is sought.
Side(n, k) == IF k < node[n].value THEN "left" ELSE "right"

Unlocked(locks, S) == [n \in Node |-> IF n \in S THEN NULL ELSE locks[n]]
Locked(n, t) == [owner EXCEPT ![n] = t]

\* createNode.
New(k) == [value |-> k, left |-> NULL, right |-> NULL]
Allocates == used' = used + 1 /\ alive' = alive \cup {used + 1}
-----------------------------------------------------------------------------
(* insert *)

InsertRoot(t) == /\ pc[t] = "idle" /\ Calls(t) /\ Call(t) = "insert"
                 /\ root = NULL
                 /\ Allocates
                 /\ root' = used + 1
                 /\ node' = [node EXCEPT ![used + 1] = New(Key(t))]
                 /\ keys' = keys \cup {Key(t)}
                 /\ Returns(t)
                 /\ UNCHANGED <<owner, program, current, parent, target, doomed>>

InsertBegins(t) == /\ pc[t] = "idle" /\ Calls(t) /\ Call(t) = "insert"
                   /\ root # NULL
                   /\ Goto(t, "root")
                   /\ UNCHANGED <<root, node, alive, used, owner, program, at, current, parent, target,
                                  doomed, keys>>

\* The root is read again after tree->mutex was given back.
InsertReadsRoot(t) == /\ pc[t] = "root"
                      /\ current' = [current EXCEPT ![t] = root]
                      /\ parent' = [parent EXCEPT ![t] = NULL]
                      /\ Goto(t, "insert")
                      /\ UNCHANGED <<root, node, alive, used, owner, program, at, target, doomed, keys>>

InsertMoves(t) ==
    LET n == current[t] IN
    /\ pc[t] = "insert" /\ n \in alive /\ owner[n] = NULL
    /\ Key(t) # node[n].value
    /\ node[n][Side(n, Key(t))] # NULL
    /\ owner' = Unlocked(Locked(n, t), {parent[t]})
    /\ parent' = [parent EXCEPT ![t] = n]
    /\ current' = [current EXCEPT ![t] = node[n][Side(n, Key(t))]]
    /\ UNCHANGED <<root, node, alive, used, program, at, pc, target, doomed, keys>>

InsertFinds(t) ==
    LET n == current[t] IN
    /\ pc[t] = "insert" /\ n \in alive /\ owner[n] = NULL
    /\ Key(t) = node[n].value
    /\ owner' = Unlocked(owner, {parent[t]})
    /\ Returns(t)
    /\ UNCHANGED <<root, node, alive, used, program, current, parent, target, doomed, keys>>

\* The mutation links the new node on the wrong side.
WrongSide(n, k) == IF k < node[n].value THEN "right" ELSE "left"
LinkSide(n, k) == IF k < node[n].value THEN "left" ELSE "right"

InsertLinks(t) ==
    LET n == current[t] IN
    /\ pc[t] = "insert" /\ n \in alive /\ owner[n] = NULL
    /\ Key(t) # node[n].value
    /\ node[n][Side(n, Key(t))] = NULL
    /\ Allocates
    /\ node' = [node EXCEPT ![n][LinkSide(n, Key(t))] = used + 1, ![used + 1] = New(Key(t))]
    /\ owner' = Unlocked(owner, {parent[t]})
    /\ keys' = keys \cup {Key(t)}
    /\ Returns(t)
    /\ UNCHANGED <<root, program, current, parent, target, doomed>>
-----------------------------------------------------------------------------
(* delete and search *)

ReadsRoot(t) == /\ pc[t] = "idle" /\ Calls(t) /\ Call(t) \in {"delete", "search"}
                /\ current' = [current EXCEPT ![t] = root]
                /\ parent' = [parent EXCEPT ![t] = NULL]
                /\ Goto(t, Call(t))
                /\ UNCHANGED <<root, node, alive, used, owner, program, at, target, doomed, keys>>

GivesParentBack(t) == {parent[t]}

NotFound(t) == /\ pc[t] \in {"delete", "search"} /\ current[t] = NULL
               /\ owner' = Unlocked(owner, GivesParentBack(t))
               /\ Returns(t)
               /\ UNCHANGED <<root, node, alive, used, program, current, parent, target, doomed,
                              keys>>

\* search holds no mutex while it moves to the child.
Searches(t) ==
    LET n == current[t] IN
    /\ pc[t] = "search" /\ n \in alive /\ owner[n] = NULL
    /\ IF Key(t) = node[n].value
       THEN Returns(t) /\ UNCHANGED current
       ELSE /\ current' = [current EXCEPT ![t] = node[n][Side(n, Key(t))]]
            /\ UNCHANGED <<at, pc>>
    /\ UNCHANGED <<root, node, alive, used, owner, program, parent, target, doomed, keys>>

DeleteMoves(t) ==
    LET n == current[t] IN
    /\ pc[t] = "delete" /\ n \in alive /\ owner[n] = NULL
    /\ Key(t) # node[n].value
    /\ owner' = Unlocked(Locked(n, t), {parent[t]})
    /\ parent' = [parent EXCEPT ![t] = n]
    /\ current' = [current EXCEPT ![t] = node[n][Side(n, Key(t))]]
    /\ UNCHANGED <<root, node, alive, used, program, at, pc, target, doomed, keys>>

\* The side of parent p on which its child c hangs.
LinkTo(p, c) == IF node[p].left = c THEN "left" ELSE "right"

\* Case 1, at most one child: *childLink is the root or a field of the parent.
\* The mutation forgets the child.
NoChild(n) == NULL
OnlyChild(n) == IF node[n].left # NULL THEN node[n].left ELSE node[n].right

DeleteUnlinks(t) ==
    LET n == current[t]  p == parent[t] IN
    /\ pc[t] = "delete" /\ n \in alive /\ owner[n] = NULL
    /\ Key(t) = node[n].value
    /\ node[n].left = NULL \/ node[n].right = NULL
    /\ IF p = NULL
       THEN root' = OnlyChild(n) /\ UNCHANGED node
       ELSE node' = [node EXCEPT ![p][LinkTo(p, n)] = OnlyChild(n)] /\ UNCHANGED root
    /\ owner' = Unlocked(owner, {p})
    /\ doomed' = [doomed EXCEPT ![t] = n]
    /\ keys' = keys \ {Key(t)}
    /\ Goto(t, "destroy")
    /\ UNCHANGED <<alive, used, program, at, current, parent, target>>

\* Case 2, two children: the node stays locked while its successor is sought,
\* and so does its parent.
DeleteDescends(t) ==
    LET n == current[t] IN
    /\ pc[t] = "delete" /\ n \in alive /\ owner[n] = NULL
    /\ Key(t) = node[n].value
    /\ node[n].left # NULL /\ node[n].right # NULL
    /\ owner' = Locked(n, t)
    /\ target' = [target EXCEPT ![t] = n]
    /\ parent' = [parent EXCEPT ![t] = n]
    /\ current' = [current EXCEPT ![t] = node[n].right]
    /\ Goto(t, "successor")
    /\ UNCHANGED <<root, node, alive, used, program, at, doomed, keys>>

SuccessorMoves(t) ==
    LET s == current[t] IN
    /\ pc[t] = "successor" /\ s \in alive /\ owner[s] = NULL
    /\ node[s].left # NULL
    /\ owner' = Unlocked(Locked(s, t), {parent[t]} \ {target[t]})
    /\ parent' = [parent EXCEPT ![t] = s]
    /\ current' = [current EXCEPT ![t] = node[s].left]
    /\ UNCHANGED <<root, node, alive, used, program, at, pc, target, doomed, keys>>

\* The mutation unlinks the successor with all that hangs below it.
NothingBelow(s) == NULL
BelowSuccessor(s) == node[s].right

DeleteReplaces(t) ==
    LET s == current[t]  sp == parent[t]  n == target[t] IN
    /\ pc[t] = "successor" /\ s \in alive /\ owner[s] = NULL
    /\ node[s].left = NULL
    /\ node' = [node EXCEPT ![n].value = node[s].value,
                            ![sp][LinkTo(sp, s)] = BelowSuccessor(s)]
    /\ owner' = Unlocked(owner, {n, sp})
    /\ doomed' = [doomed EXCEPT ![t] = s]
    /\ keys' = keys \ {Key(t)}
    /\ Goto(t, "destroy")
    /\ UNCHANGED <<root, alive, used, program, at, current, parent, target>>

destroyNode(t) == /\ pc[t] = "destroy"
                  /\ alive' = alive \ {doomed[t]}
                  /\ Returns(t)
                  /\ UNCHANGED <<root, node, used, owner, program, current, parent, target, doomed,
                                 keys>>
-----------------------------------------------------------------------------
\* The main thread joins all before the next phase begins.
Joins(t) == /\ pc[t] = "idle" /\ Calls(t) /\ Call(t) = "join"
            /\ \A u \in Caller : at[u] >= at[t]
            /\ Returns(t)
            /\ UNCHANGED <<root, node, alive, used, owner, program, current, parent, target, doomed,
                           keys>>

Step(t) == \/ InsertRoot(t) \/ InsertBegins(t) \/ InsertReadsRoot(t)
           \/ InsertMoves(t) \/ InsertFinds(t) \/ InsertLinks(t)
           \/ ReadsRoot(t) \/ NotFound(t) \/ Searches(t)
           \/ DeleteMoves(t) \/ DeleteUnlinks(t)
           \/ DeleteDescends(t) \/ SuccessorMoves(t) \/ DeleteReplaces(t) \/ destroyNode(t)
           \/ Joins(t)

AllReturned == \A t \in Caller : ~Calls(t)

Next == \/ \E t \in Caller : Step(t)
        \/ AllReturned /\ UNCHANGED vars

Spec == Init /\ [][Next]_vars
-----------------------------------------------------------------------------
TypeOK == /\ root \in Node \cup {NULL}
          /\ alive \subseteq 1..used /\ used \in 0..MaxNodes
          /\ \A n \in 1..used : /\ node[n].left \in Node \cup {NULL}
                                /\ node[n].right \in Node \cup {NULL}
          /\ owner \in [Node -> Caller \cup {NULL}]

\* The nodes below a node, itself included.
Below(n) == LET Level[d \in 0..MaxNodes] ==
                  IF d = 0 THEN {n} \ {NULL}
                  ELSE (UNION {{node[m].left, node[m].right} : m \in Level[d - 1]}) \ {NULL}
            IN UNION {Level[d] : d \in 0..MaxNodes}
Values(n) == {node[m].value : m \in Below(n)}

\* At every moment the nodes that can be reached form a binary search tree.
Ordered == \A n \in Below(root) : /\ \A k \in Values(node[n].left) : k < node[n].value
                                  /\ \A k \in Values(node[n].right) : k > node[n].value

\* The tree holds at every moment the set that the calls make: each takes
\* effect at once.  Nothing is allocated but its nodes and those about to be
\* destroyed.
Doomed == {doomed[t] : t \in {u \in Caller : pc[u] = "destroy"}}
TreeHoldsKeys == Values(root) = keys /\ Below(root) \cup Doomed = alive

\* Nobody is about to lock a node that was destroyed.
Locking == {"insert", "delete", "search", "successor"}
NoUseAfterFree == \A t \in Caller : pc[t] \in Locking => current[t] \in alive \cup {NULL}

\* What delete does not find below a node it has locked is not in the tree, and
\* a thread's search finds what the thread inserted and nobody has deleted.
Inserted(t) == {program[t][i][2] : i \in {j \in 1..(at[t] - 1) : program[t][j][1] = "insert"}}
FindsWhatIsThere ==
    \A t \in Caller :
       /\ pc[t] = "delete" /\ current[t] = NULL /\ parent[t] # NULL => Key(t) \notin keys
       /\ pc[t] = "search" /\ current[t] = NULL => Key(t) \notin Inserted(t) \cap keys
-----------------------------------------------------------------------------
(* What the threads of a tree may run, so that none uses a node which another *)
(* one has destroyed.                                                        *)

\* Every call has a key, and there is a node for every insert.
Insertions(p) == UNION {{t} \X {i \in DOMAIN p[t] : p[t][i][1] = "insert"} : t \in Caller}
Written(p) == /\ p \in [Caller -> Seq({"insert", "delete", "search", "join"} \X Int)]
              /\ IsFiniteSet(Insertions(p)) /\ Cardinality(Insertions(p)) <= MaxNodes

\* All begin with the insertion of r, which stays, and nobody searches ...
Rooted(p, r) == \A t \in Caller : \A i \in DOMAIN p[t] :
                   /\ i = 1 => p[t][i] = <<"insert", r>>
                   /\ p[t][i] # <<"delete", r>> /\ p[t][i][1] # "search"

\* ... or no value that is inserted is ever deleted ...
NoLoss(p) == \A t, u \in Caller : \A i \in DOMAIN p[t], j \in DOMAIN p[u] :
                p[t][i][1] = "insert" /\ p[u][j][1] = "delete" => p[t][i][2] # p[u][j][2]

\* ... or there is one thread only.
Lone(p) == \A t, u \in Caller : t = u \/ p[t] = <<>> \/ p[u] = <<>>

KeysOf(p) == UNION {{p[t][i][2] : i \in DOMAIN p[t]} : t \in Caller}
Orderly(p) == Written(p) /\ ((\E r \in KeysOf(p) : Rooted(p, r)) \/ NoLoss(p) \/ Lone(p))
-----------------------------------------------------------------------------
(* The delete phase of fgl_bst_test.c, run by two threads. *)

\* performTest for the operations 0 and 1: each thread inserts its two values,
\* and when all are joined, each deletes its two values.
Work(base) == <<<<"insert", base>>, <<"insert", base + 1>>, <<"join", 0>>,
                <<"delete", base>>, <<"delete", base + 1>>, <<"join", 0>>>>
Phases == {[t \in Caller |-> Work(2 * t)]}

PhasesSpec == Spec /\ \A t \in Caller : WF_vars(Step(t))

\* "Test delete": the delete phase ends, unless a thread has used a node that
\* another one destroyed.
DeletePhaseEnds == <>(AllReturned \/ ~NoUseAfterFree)
=============================================================================
