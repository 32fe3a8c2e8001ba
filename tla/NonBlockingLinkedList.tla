------------------------ MODULE NonBlockingLinkedList ------------------------
(***************************************************************************)
(* NonBlockingLinkedList<T> of NonBlockingLinkedList.hpp: a sorted list    *)
(* between two sentinels, one action per access to a next that threads     *)
(* share.  Nodes are shared pointers, so that none is freed while somebody *)
(* looks at it.  `marked` is never set: what tests it is left out.         *)
(***************************************************************************)
EXTENDS Reachability, Integers

CONSTANTS Thread,
          Programs,      \* what the threads may run: a sequence of calls each
          MaxCalls,      \* no program is longer
          First, Last

\* A node is named for the call of insert that links it.
Node == (Thread \X (1..MaxCalls)) \cup {First}

VARIABLES next,
          program, at,            \* what each thread runs, and its call
          pc,
          left, right, after,     \* left_node, right_node, right_node_next
          keys,                   \* history: the set that the calls so far make
          seen,                   \* history: whether the call's key was in it, at
                                  \* each moment of the call
          misfits                 \* history: the calls with an answer that was
                                  \* right at no moment

vars == <<next, program, at, pc, left, right, after, keys, seen, misfits>>

Init == /\ next = [n \in Node |-> Last]
        /\ program \in Programs
        /\ at = [t \in Thread |-> 1]
        /\ pc = [t \in Thread |-> "idle"]
        /\ left = [t \in Thread |-> First]
        /\ right = [t \in Thread |-> First]
        /\ after = [t \in Thread |-> Last]
        /\ keys = {} /\ misfits = {}
        /\ seen = [t \in Thread |-> {}]
-----------------------------------------------------------------------------
Calls(t) == at[t] <= Len(program[t])
Operation(t) == program[t][at[t]][1]
Key(t) == program[t][at[t]][2]
KeyOf(n) == program[n[1]][n[2]][2]

Goto(t, place) == pc' = [pc EXCEPT ![t] = place]

\* Every call under way sees the set as it is after the step.
Sees == seen' = [t \in Thread |-> IF pc'[t] = "idle" THEN {}
                                  ELSE seen[t] \cup {Key(t) \in keys'}]

\* The call goes on, and starts over in the second case.
GoesOn(t, place) == /\ Goto(t, place)
                    /\ UNCHANGED <<next, program, at, keys, misfits>>
                    /\ Sees
StartsOver(t) == /\ GoesOn(t, "walk")
                 /\ right' = [right EXCEPT ![t] = First]
                 /\ UNCHANGED <<left, after>>

\* The call returns; its answer fits if it was right at the moment of the
\* change, or at some moment of a call that changes nothing.
Returns(t, answer, fits) ==
    /\ Goto(t, "idle")
    /\ at' = [at EXCEPT ![t] = @ + 1]
    /\ misfits' = misfits \cup (IF fits THEN {} ELSE {<<t, at[t], answer>>})
    /\ Sees
    /\ UNCHANGED <<program, left, right, after>>
-----------------------------------------------------------------------------
(* searchForNodes *)

Begins(t) == /\ pc[t] = "idle" /\ Calls(t) /\ Operation(t) # "join"
             /\ StartsOver(t)

\* One node further.
Passes(n, key) == KeyOf(n) < key

Walk(t) == /\ pc[t] = "walk"
           /\ left' = [left EXCEPT ![t] = right[t]]
           /\ right' = [right EXCEPT ![t] = next[right[t]]]
           /\ UNCHANGED after
           /\ GoesOn(t, IF right'[t] # Last /\ Passes(right'[t], Key(t)) THEN "walk" ELSE "check")

Adjacent(t) == next[left[t]] = right[t]
Found(t) == right[t] # Last /\ KeyOf(right[t]) = Key(t)

WalkAgain(t) == pc[t] = "check" /\ ~Adjacent(t) /\ StartsOver(t)

\* search, insert of a key that is there and remove of one that is not end here.
Answers(t) ==
    /\ pc[t] = "check" /\ Adjacent(t)
    /\ Operation(t) = "search" \/ Found(t) = (Operation(t) = "insert")
    /\ UNCHANGED <<next, keys>>
    /\ LET answer == Operation(t) = "search" /\ Found(t)
       IN Returns(t, answer, Found(t) \in seen[t])
-----------------------------------------------------------------------------
(* insert and remove *)

Decides(t) == /\ pc[t] = "check" /\ Adjacent(t)
              /\ Operation(t) # "search" /\ Found(t) = (Operation(t) = "remove")
              /\ GoesOn(t, IF Operation(t) = "insert" THEN "link" ELSE "load")
              /\ UNCHANGED <<left, right, after>>

\* The exchange that links the new node; the mutation is a store.
StoreBlindly(t) == TRUE
StillAdjacent(t) == Adjacent(t)

Link(t) == /\ pc[t] = "link" /\ StillAdjacent(t)
           /\ next' = [next EXCEPT ![left[t]] = <<t, at[t]>>, ![<<t, at[t]>>] = right[t]]
           /\ keys' = keys \cup {Key(t)}
           /\ Returns(t, TRUE, Key(t) \notin keys)

LoadNext(t) == /\ pc[t] = "load"
               /\ after' = [after EXCEPT ![t] = next[right[t]]]
               /\ UNCHANGED <<left, right>>
               /\ GoesOn(t, "touch")

\* The first exchange puts back what it found.
Touch(t) == /\ pc[t] = "touch" /\ next[right[t]] = after[t]
            /\ GoesOn(t, "unlink")
            /\ UNCHANGED <<left, right, after>>

Unlink(t) == /\ pc[t] = "unlink" /\ Adjacent(t)
             /\ next' = [next EXCEPT ![left[t]] = after[t]]
             /\ keys' = keys \ {Key(t)}
             /\ Returns(t, TRUE, Key(t) \in keys)

\* An exchange failed, because of another thread or, being weak, for no reason.
Retries(t) == pc[t] \in {"link", "touch", "unlink"} /\ StartsOver(t)

FailsForNoReason(t) == /\ Retries(t)
                       /\ IF pc[t] = "touch" THEN next[right[t]] = after[t] ELSE Adjacent(t)

\* The threads of one test are joined before the next begins.
Joins(t) == /\ pc[t] = "idle" /\ Calls(t) /\ Operation(t) = "join"
            /\ \A u \in Thread : at[u] >= at[t]
            /\ UNCHANGED <<next, keys>>
            /\ Returns(t, TRUE, TRUE)
-----------------------------------------------------------------------------
Step(t) == \/ Begins(t) \/ Walk(t) \/ WalkAgain(t) \/ Answers(t) \/ Decides(t)
           \/ Link(t) \/ LoadNext(t) \/ Touch(t) \/ Unlink(t) \/ Retries(t) \/ Joins(t)

AllReturned == \A t \in Thread : ~Calls(t)

Next == (\E t \in Thread : Step(t)) \/ (AllReturned /\ UNCHANGED vars)

Spec == Init /\ [][Next]_vars
-----------------------------------------------------------------------------
TypeOK == /\ next \in [Node -> Node \cup {Last}]
          /\ at \in [Thread -> 1..(MaxCalls + 1)]
          /\ left \in [Thread -> Node]
          /\ {right[t] : t \in Thread} \cup {after[t] : t \in Thread} \subseteq Node \cup {Last}

\* The nodes of the list, and the keys behind the first one.
Chain == NodesFrom(next, Last, First)
Keys == [i \in 1..(Len(Chain) - 1) |-> KeyOf(Chain[i + 1])]

\* The list is at every moment in order, without repetition, and the set that
\* the calls make, and every call answers what was right while it ran.
ListIsTheSet == /\ \A i \in 1..(Len(Keys) - 1) : Keys[i] < Keys[i + 1]
                /\ {Keys[i] : i \in 1..Len(Keys)} = keys
                /\ misfits = {}
-----------------------------------------------------------------------------
(* What the threads may run, so that no exchange unlinks what another thread *)
(* has linked behind it meanwhile: nothing is removed before all have joined, *)
(* and then a node that stays lies between any two keys that threads update.  *)

Written(p) == /\ p \in [Thread -> Seq({"insert", "remove", "search", "join"} \X Int)]
              /\ \A t \in Thread : Len(p[t]) <= MaxCalls

\* The keys that are inserted before call j, and removed by nobody.
Before(p, j) == UNION {{p[t][i][2] : i \in {l \in DOMAIN p[t] : l < j /\ p[t][l][1] = "insert"}} : t \in Thread}
Posts(p, j) == {k \in Before(p, j) : \A t \in Thread : \A i \in DOMAIN p[t] : p[t][i] # <<"remove", k>>}

Between(a, k, b) == (a < k /\ k < b) \/ (b < k /\ k < a)
Apart(p, j) ==
    \A t, u \in Thread : \A i \in DOMAIN p[t], l \in DOMAIN p[u] :
       t # u /\ i > j /\ l > j /\ p[t][i][1] = "remove" /\ p[u][l][1] \in {"insert", "remove"}
          => \E k \in Posts(p, j) : Between(p[t][i][2], k, p[u][l][2])

Joined(p, j) == \A t \in Thread : \A i \in DOMAIN p[t] : /\ i <= j => p[t][i][1] # "remove"
                                                         /\ i = j => p[t][i][1] = "join"
Orderly(p) == Written(p) /\ \E j \in 1..(MaxCalls + 1) : Joined(p, j) /\ Apart(p, j)
=============================================================================
