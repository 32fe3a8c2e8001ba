------------------------- MODULE LockFreeLinkedList --------------------------
(***************************************************************************)
(* LockFreeLinkedList<T> of LockFreeLinkedList.hpp with the hazard         *)
(* pointers of HazardPointer.hpp, one action per access to memory that     *)
(* threads share, and the threads of its benchmark, each of which inserts, *)
(* searches and removes values of its own.  A thread's hazard pointer      *)
(* stands for the slot it owns while a call lasts: there are 512 slots, so *)
(* that up to 512 threads find one.                                        *)
(***************************************************************************)
EXTENDS Reachability

CONSTANTS Thread,
          Rounds,    \* how many values each thread inserts, searches and removes
          NULL

Value == Thread \X (1..Rounds)

\* Nodes are told apart by the value they hold; nothing is ever allocated at
\* the address of another one, because nothing is ever freed (NothingFreed).
Node == Value

VARIABLES head, next,
          freed,             \* the nodes deleted
          pointer,           \* the hazard pointer of each thread
          pc, round,
          expectedHead, prev, current, successor,    \* locals
          deleted,           \* remove's answer to come, or the last one
          inserted, removed  \* history: the values inserted, and those
                             \* whose remove answered true

vars == <<head, next, freed, pointer, pc, round, expectedHead, prev, current, successor,
          deleted, inserted, removed>>

Init == /\ head = NULL
        /\ next = [n \in Node |-> NULL]
        /\ freed = {}
        /\ pointer = [t \in Thread |-> NULL]
        /\ pc = [t \in Thread |-> "insert"]
        /\ round = [t \in Thread |-> 1]
        /\ expectedHead = [t \in Thread |-> NULL]
        /\ prev = [t \in Thread |-> NULL]
        /\ current = [t \in Thread |-> NULL]
        /\ successor = [t \in Thread |-> NULL]
        /\ deleted = [t \in Thread |-> FALSE]
        /\ inserted = {} /\ removed = {}

data(t) == <<t, round[t]>>
Runs(t) == round[t] <= Rounds
Goto(t, label) == pc' = [pc EXCEPT ![t] = label]
-----------------------------------------------------------------------------
(* insert *)

LoadHead(t) == /\ pc[t] = "insert" /\ Runs(t)
               /\ expectedHead' = [expectedHead EXCEPT ![t] = head]
               /\ next' = [next EXCEPT ![data(t)] = head]
               /\ Goto(t, "link")
               /\ UNCHANGED <<head, freed, pointer, round, prev, current, successor, deleted,
                              inserted, removed>>

\* The mutation links the node without comparing the head.
AnyHead(t) == TRUE
HeadIsExpected(t) == head = expectedHead[t]

Link(t) == /\ pc[t] = "link" /\ HeadIsExpected(t)
           /\ head' = data(t)
           /\ inserted' = inserted \cup {data(t)}
           /\ Goto(t, "search")
           /\ UNCHANGED <<next, freed, pointer, round, expectedHead, prev, current, successor,
                          deleted, removed>>

\* The exchange may also fail although the values are equal.
LinkFails(t) == /\ pc[t] = "link"
                /\ expectedHead' = [expectedHead EXCEPT ![t] = head]
                /\ next' = [next EXCEPT ![data(t)] = head]
                /\ UNCHANGED <<head, freed, pointer, pc, round, prev, current, successor, deleted,
                               inserted, removed>>
-----------------------------------------------------------------------------
(* search *)

SearchBegins(t) == /\ pc[t] = "search"
                   /\ current' = [current EXCEPT ![t] = head]
                   /\ Goto(t, "visit")
                   /\ UNCHANGED <<head, next, freed, pointer, round, expectedHead, prev, successor,
                                  deleted, inserted, removed>>

Visit(t) == /\ pc[t] = "visit" /\ current[t] \notin freed \cup {NULL}
            /\ pointer' = [pointer EXCEPT ![t] = current[t]]
            /\ Goto(t, IF current[t] = data(t) THEN "found" ELSE "advance")
            /\ UNCHANGED <<head, next, freed, round, expectedHead, prev, current, successor, deleted,
                           inserted, removed>>

Advance(t) == /\ pc[t] = "advance" /\ current[t] \notin freed
              /\ current' = [current EXCEPT ![t] = next[current[t]]]
              /\ Goto(t, "visit")
              /\ UNCHANGED <<head, next, freed, pointer, round, expectedHead, prev, successor,
                             deleted, inserted, removed>>

SearchReturns(t) == /\ \/ pc[t] = "found"
                       \/ pc[t] = "visit" /\ current[t] = NULL
                    /\ pointer' = [pointer EXCEPT ![t] = NULL]
                    /\ Goto(t, "remove")
                    /\ UNCHANGED <<head, next, freed, round, expectedHead, prev, current, successor,
                                   deleted, inserted, removed>>
-----------------------------------------------------------------------------
(* remove *)

RemoveBegins(t) == /\ pc[t] = "remove"
                   /\ prev' = [prev EXCEPT ![t] = NULL]
                   /\ current' = [current EXCEPT ![t] = head]
                   /\ deleted' = [deleted EXCEPT ![t] = FALSE]
                   /\ Goto(t, "next")
                   /\ UNCHANGED <<head, next, freed, pointer, round, expectedHead, successor,
                                  inserted, removed>>

LoadNext(t) == /\ pc[t] = "next" /\ current[t] \notin freed \cup {NULL}
               /\ successor' = [successor EXCEPT ![t] = next[current[t]]]
               /\ Goto(t, "protect")
               /\ UNCHANGED <<head, next, freed, pointer, round, expectedHead, prev, current,
                              deleted, inserted, removed>>

\* The mutation protects nothing.
NotProtected(t) == pointer[t]
Protected(t) == current[t]

Protect(t) ==
    /\ pc[t] = "protect" /\ current[t] \notin freed
    /\ pointer' = [pointer EXCEPT ![t] = Protected(t)]
    /\ IF current[t] = data(t)
       THEN Goto(t, "unlink") /\ UNCHANGED <<prev, current>>
       ELSE /\ prev' = [prev EXCEPT ![t] = current[t]]
            /\ current' = [current EXCEPT ![t] = successor[t]]
            /\ Goto(t, "next")
    /\ UNCHANGED <<head, next, freed, round, expectedHead, successor, deleted, inserted, removed>>

\* What head or prev->next holds.
Before(t) == IF prev[t] = NULL THEN head ELSE next[prev[t]]

\* The mutation skips the node after the removed one as well.
SkipsOne(t) == IF successor[t] = NULL THEN NULL ELSE next[successor[t]]
Rest(t) == successor[t]

Unlink(t) == /\ pc[t] = "unlink" /\ Before(t) = current[t]
             /\ IF prev[t] = NULL
                THEN head' = Rest(t) /\ UNCHANGED next
                ELSE next' = [next EXCEPT ![prev[t]] = Rest(t)] /\ UNCHANGED head
             /\ deleted' = [deleted EXCEPT ![t] = TRUE]
             /\ Goto(t, "reclaim")
             /\ UNCHANGED <<freed, pointer, round, expectedHead, prev, current, successor, inserted,
                            removed>>

\* The exchange replaces current by what it found, which becomes prev.
UnlinkFails(t) == /\ pc[t] = "unlink" /\ Before(t) # current[t]
                  /\ prev' = [prev EXCEPT ![t] = Before(t)]
                  /\ current' = [current EXCEPT ![t] = successor[t]]
                  /\ Goto(t, "next")
                  /\ UNCHANGED <<head, next, freed, pointer, round, expectedHead, successor, deleted,
                                 inserted, removed>>

isPointerHazardous(n) == \E u \in Thread : pointer[u] = n

Reclaim(t) == /\ pc[t] = "reclaim"
              /\ freed' = IF isPointerHazardous(current[t]) THEN freed ELSE freed \cup {current[t]}
              /\ Goto(t, "return")
              /\ UNCHANGED <<head, next, pointer, round, expectedHead, prev, current, successor,
                             deleted, inserted, removed>>

RemoveReturns(t) == /\ \/ pc[t] = "return"
                       \/ pc[t] = "next" /\ current[t] = NULL
                    /\ pointer' = [pointer EXCEPT ![t] = NULL]
                    /\ removed' = removed \cup {v \in {data(t)} : deleted[t]}
                    /\ round' = [round EXCEPT ![t] = @ + 1]
                    /\ Goto(t, "insert")
                    /\ UNCHANGED <<head, next, freed, expectedHead, prev, current, successor,
                                   deleted, inserted>>
-----------------------------------------------------------------------------
Step(t) == \/ LoadHead(t) \/ Link(t) \/ LinkFails(t)
           \/ SearchBegins(t) \/ Visit(t) \/ Advance(t) \/ SearchReturns(t)
           \/ RemoveBegins(t) \/ LoadNext(t) \/ Protect(t) \/ Unlink(t) \/ UnlinkFails(t)
           \/ Reclaim(t) \/ RemoveReturns(t)

AllReturned == \A t \in Thread : ~Runs(t)

Next == (\E t \in Thread : Step(t)) \/ (AllReturned /\ UNCHANGED vars)

Spec == Init /\ [][Next]_vars
-----------------------------------------------------------------------------
TypeOK == /\ head \in Node \cup {NULL}
          /\ next \in [Node -> Node \cup {NULL}]
          /\ freed \subseteq Node /\ removed \subseteq inserted
          /\ round \in [Thread -> 1..(Rounds + 1)]

\* The nodes of the list.
Nodes == Visited(next, NULL, head)

\* No remove frees its node, in whatever order the threads run.
NothingFreed == freed = {}

\* A value is lost only to the remove that takes it out.
InTransit == {data(t) : t \in {u \in Thread : pc[u] \in {"reclaim", "return"} /\ deleted[u]}}
NothingLost == inserted \ (removed \cup InTransit) \subseteq Nodes

\* A thread finds the value that it inserted and has not removed.
FindsItsOwn == \A t \in Thread : ~(pc[t] = "visit" /\ current[t] = NULL)

\* When nobody is at work, a value whose remove answered true is gone.
Quiet == \A t \in Thread : pc[t] = "insert"
RemovedIsGone == Quiet => removed \cap Nodes = {}
=============================================================================
