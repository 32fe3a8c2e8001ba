--------------------------- MODULE LockFreeListsC ---------------------------
(***************************************************************************)
(* lock_free_list.c and wait_free_list.c, one action per access to memory  *)
(* that threads share: insert pushes a node at the head, delete unlinks    *)
(* and frees the first node with the value.  wait_free_list.c marks the    *)
(* node's next before it unlinks it (`marks`); lock_free_list.c does not.  *)
(* The owners run the loop of wait_free_list_test.c, insert, search, delete*)
(* and search again (lock_free_list_test.c leaves out the last), the       *)
(* inserters only insert.  A freed address may be allocated again.         *)
(***************************************************************************)
EXTENDS Reachability

CONSTANTS Owners, Inserters,
          Rounds,       \* how many values each thread goes through
          Address,      \* the addresses malloc may return; memory never runs out
          NULL

Thread == Owners \cup Inserters
Value == Thread \X (1..Rounds)

VARIABLES marks,              \* which of the two lists this is
          head, node,         \* node[a] is [data, next, marked]
          heap,               \* the addresses allocated and not freed
          pc, round,
          newNode, oldHead, prev, curr, succ,   \* locals
          found,              \* what the latest call of search or delete answered
          inserted, removed   \* history: the values whose call has taken effect

vars == <<marks, head, node, heap, pc, round, newNode, oldHead, prev, curr, succ, found,
          inserted, removed>>
locals == <<newNode, oldHead, prev, curr, succ>>

Init == /\ marks \in BOOLEAN
        /\ head = NULL
        /\ node = [a \in Address |-> [data |-> NULL, next |-> NULL, marked |-> FALSE]]
        /\ heap = {}
        /\ pc = [t \in Thread |-> "insert"]
        /\ round = [t \in Thread |-> 1]
        /\ newNode = [t \in Thread |-> NULL]
        /\ oldHead = [t \in Thread |-> NULL]
        /\ prev = [t \in Thread |-> NULL]
        /\ curr = [t \in Thread |-> NULL]
        /\ succ = [t \in Thread |-> NULL]
        /\ found = [t \in Thread |-> FALSE]
        /\ inserted = {} /\ removed = {}

value(t) == <<t, round[t]>>
Runs(t) == round[t] <= Rounds
Goto(t, place) == pc' = [pc EXCEPT ![t] = place]

\* Some address that is free, whether it was used before or not.
Malloc == CHOOSE a \in Address : a \notin heap
-----------------------------------------------------------------------------
(* insert *)

create_node(t) ==
    /\ pc[t] = "insert" /\ Runs(t) /\ heap # Address
    /\ newNode' = [newNode EXCEPT ![t] = Malloc]
    /\ heap' = heap \cup {Malloc}
    /\ node' = [node EXCEPT ![Malloc] = [data |-> value(t), next |-> NULL, marked |-> FALSE]]
    /\ Goto(t, "load")
    /\ UNCHANGED <<marks, head, round, oldHead, prev, curr, succ, found, inserted, removed>>

\* The new node is private until it is pushed, so that its next goes with oldHead.
Expects(t) == /\ oldHead' = [oldHead EXCEPT ![t] = head]
              /\ node' = [node EXCEPT ![newNode[t]].next = head]
              /\ UNCHANGED <<marks, head, heap, round, newNode, prev, curr, succ, found,
                             inserted, removed>>

LoadHead(t) == pc[t] = "load" /\ Expects(t) /\ Goto(t, "push")

\* The exchange.
HeadIsExpected(t) == head = oldHead[t]

Push(t) == /\ pc[t] = "push" /\ HeadIsExpected(t)
           /\ head' = newNode[t]
           /\ inserted' = inserted \cup {value(t)}
           /\ IF t \in Owners THEN Goto(t, "search") /\ UNCHANGED round
              ELSE Goto(t, "insert") /\ round' = [round EXCEPT ![t] = @ + 1]
           /\ UNCHANGED <<marks, node, heap, locals, found, removed>>

\* It failed, also for no reason: lock_free_list.c loads the head again,
\* wait_free_list.c takes what the exchange has found.
PushFails(t) == /\ pc[t] = "push"
                /\ IF marks THEN Expects(t) /\ UNCHANGED pc
                   ELSE /\ Goto(t, "load")
                        /\ UNCHANGED <<marks, head, node, heap, round, locals, found,
                                       inserted, removed>>
-----------------------------------------------------------------------------
(* search *)

Unchanged == UNCHANGED <<marks, head, node, heap, round, newNode, oldHead>>

SearchBegins(t) == /\ pc[t] \in {"search", "again"}
                   /\ curr' = [curr EXCEPT ![t] = head]
                   /\ Goto(t, IF pc[t] = "search" THEN "visit" ELSE "revisit")
                   /\ Unchanged /\ UNCHANGED <<prev, succ, found, inserted, removed>>

Visiting(t) == pc[t] \in {"visit", "revisit"}
Here(t) == curr[t] # NULL /\ node[curr[t]].data = value(t)

SearchMoves(t) == /\ Visiting(t) /\ curr[t] # NULL /\ ~Here(t)
                  /\ curr' = [curr EXCEPT ![t] = node[curr[t]].next]
                  /\ Unchanged /\ UNCHANGED <<pc, prev, succ, found, inserted, removed>>

\* Two searches per round: the second one after delete.
SearchReturns(t) ==
    /\ Visiting(t) /\ (curr[t] = NULL \/ Here(t))
    /\ found' = [found EXCEPT ![t] = Here(t)]
    /\ IF pc[t] = "visit" THEN Goto(t, "delete") /\ UNCHANGED round
       ELSE Goto(t, "insert") /\ round' = [round EXCEPT ![t] = @ + 1]
    /\ UNCHANGED <<marks, head, node, heap, locals, inserted, removed>>
-----------------------------------------------------------------------------
(* delete *)

DeleteBegins(t) == /\ pc[t] = "delete"
                   /\ prev' = [prev EXCEPT ![t] = NULL]
                   /\ curr' = [curr EXCEPT ![t] = head]
                   /\ Goto(t, "next")
                   /\ Unchanged /\ UNCHANGED <<succ, found, inserted, removed>>

\* The next of the current node is loaded, and the node passed or deleted.
LoadNext(t) ==
    /\ pc[t] = "next" /\ curr[t] # NULL
    /\ LET n == node[curr[t]].next IN
          /\ succ' = [succ EXCEPT ![t] = n]
          /\ IF Here(t) THEN /\ Goto(t, IF marks THEN "mark" ELSE "unlink")
                             /\ UNCHANGED <<prev, curr>>
             ELSE /\ prev' = [prev EXCEPT ![t] = curr[t]]
                  /\ curr' = [curr EXCEPT ![t] = n]
                  /\ UNCHANGED pc
    /\ Unchanged /\ UNCHANGED <<found, inserted, removed>>

\* wait_free_list.c marks the next of the node; failing for no reason it looks
\* at the node again.
Mark(t) == /\ pc[t] = "mark" /\ node[curr[t]].next = succ[t]
           /\ node' = [node EXCEPT ![curr[t]].marked = TRUE]
           /\ Goto(t, "unlink")
           /\ UNCHANGED <<marks, head, heap, round, locals, found, inserted, removed>>

MarkFails(t) == /\ pc[t] = "mark" /\ Goto(t, "next")
                /\ Unchanged /\ UNCHANGED <<prev, curr, succ, found, inserted, removed>>

\* Where the node was found: at the head, or behind prev, if that is unmarked.
\* The mutation swings the head without looking at it.
HeadOrBehind(t) == \/ prev[t] = NULL
                   \/ prev[t] # NULL /\ node[prev[t]].next = curr[t] /\ ~node[prev[t]].marked
StillThere(t) == IF prev[t] = NULL THEN head = curr[t]
                 ELSE node[prev[t]].next = curr[t] /\ ~node[prev[t]].marked

Unlink(t) == /\ pc[t] = "unlink" /\ StillThere(t)
             /\ IF prev[t] = NULL THEN head' = succ[t] /\ UNCHANGED node
                ELSE node' = [node EXCEPT ![prev[t]].next = succ[t]] /\ UNCHANGED head
             /\ removed' = removed \cup {value(t)}
             /\ Goto(t, "free")
             /\ UNCHANGED <<marks, heap, round, locals, found, inserted>>

\* It failed, in lock_free_list.c also for no reason: the walk starts over from
\* the head, but prev stays what it was.
UnlinkFails(t) == /\ pc[t] = "unlink" /\ (marks => ~StillThere(t))
                  /\ curr' = [curr EXCEPT ![t] = head]
                  /\ Goto(t, "next")
                  /\ Unchanged /\ UNCHANGED <<prev, succ, found, inserted, removed>>

FailsForNoReason(t) == \/ PushFails(t) /\ HeadIsExpected(t)
                       \/ MarkFails(t)
                       \/ UnlinkFails(t) /\ StillThere(t)

\* delete frees the node, or did not find it.
DeleteReturns(t) == /\ pc[t] = "free" \/ (pc[t] = "next" /\ curr[t] = NULL)
                    /\ heap' = heap \ (IF pc[t] = "free" THEN {curr[t]} ELSE {})
                    /\ found' = [found EXCEPT ![t] = pc[t] = "free"]
                    /\ Goto(t, "again")
                    /\ UNCHANGED <<marks, head, node, round, locals, inserted, removed>>
-----------------------------------------------------------------------------
\* The nodes that a thread is about to use.  It stops at one that was freed, or
\* where a marked next led it, since nothing is known of what would follow.
Uses(t) == CASE Visiting(t) \/ pc[t] \in {"next", "mark"} -> {curr[t]}
             [] pc[t] = "unlink" -> {curr[t], prev[t]}
             [] OTHER -> {}
Usable(t) == /\ Uses(t) \ {NULL} \subseteq heap
             /\ Visiting(t) /\ curr[t] # NULL => ~node[curr[t]].marked

Step(t) == /\ Usable(t)
           /\ \/ create_node(t) \/ LoadHead(t) \/ Push(t) \/ PushFails(t)
              \/ SearchBegins(t) \/ SearchMoves(t) \/ SearchReturns(t)
              \/ DeleteBegins(t) \/ LoadNext(t) \/ Mark(t) \/ MarkFails(t)
              \/ Unlink(t) \/ UnlinkFails(t) \/ DeleteReturns(t)

AllReturned == \A t \in Thread : ~Runs(t)

Next == (\E t \in Thread : Step(t)) \/ (AllReturned /\ UNCHANGED vars)

Spec == Init /\ [][Next]_vars
-----------------------------------------------------------------------------
TypeOK == /\ head \in Address \cup {NULL}
          /\ heap \subseteq Address
          /\ removed \subseteq inserted
          /\ round \in [Thread -> 1..(Rounds + 1)]

\* The nodes of the list.
Links == [a \in Address |-> node[a].next]
Nodes == Visited(Links, NULL, head)

\* The list holds what was inserted and not removed, whatever else is pushed
\* while a node is unlinked.
HoldsItsValues == {node[n].data : n \in Nodes} = inserted \ removed

\* Nobody is about to use a node that was freed, or has followed a marked next.
HeapIsSound == \A t \in Thread : Usable(t)

\* The tests' assertions: the first search and delete find the value, the
\* second search does not.
FoundAsAsserted == \A t \in Owners : pc[t] = "delete" \/ pc[t] = "again" => found[t]
NotFoundAgain == \A t \in Owners : pc[t] = "insert" => ~found[t]

\* wait_free_list_test.c: what a thread has inserted it finds, beside nine others that
\* insert and delete as it does.
InsertedIsFound == \A t \in Owners : marks /\ pc[t] = "delete" => found[t]
=============================================================================
