---------------------------- MODULE LockFreeQueue ----------------------------
(***************************************************************************)
(* LockFreeQueue<T> of lockfree_queue.cpp, a linked queue with a dummy     *)
(* node, one action per access to memory that threads share, and threads   *)
(* that each call enqueue and dequeue as their program says, like those of *)
(* main.  dequeue deletes the old dummy at once, beside threads that have  *)
(* loaded its address: what they read there may be anything, an exchange   *)
(* on it may succeed, and the address may be allocated again.              *)
(***************************************************************************)
EXTENDS Reachability

CONSTANTS Thread, Programs,   \* what the threads may call: [Thread -> Seq({"enqueue", "dequeue"})]
          MaxCalls,           \* the length of the longest program
          Address,            \* the addresses new may return; memory never runs out
          NULL

Item == Thread \X (1..MaxCalls)

VARIABLES head, tail, node, heap,
          program, at, pc,                    \* what each thread calls, and how far it is
          newNode, headNode, tailNode, next,  \* the locals of the two calls
          delivered,                          \* history: the items dequeued
          stale,    \* history: who expects a node that was deleted since its address was loaded
          misled    \* history: whether a comparison or an exchange took another node for that one

calls == <<program, at>>
locals == <<newNode, headNode, tailNode, next>>
history == <<delivered, stale, misled>>
vars == <<head, tail, node, heap, calls, pc, locals, history>>

Dummy == CHOOSE a \in Address : TRUE

Init == /\ head = Dummy /\ tail = Dummy
        /\ node = [a \in Address |-> [data |-> NULL, next |-> NULL]]
        /\ heap = {Dummy}
        /\ program \in Programs
        /\ at = [t \in Thread |-> 1]
        /\ pc = [t \in Thread |-> "call"]
        /\ newNode = [t \in Thread |-> NULL]
        /\ headNode = [t \in Thread |-> NULL]
        /\ tailNode = [t \in Thread |-> NULL]
        /\ next = [t \in Thread |-> NULL]
        /\ delivered = <<>> /\ stale = {} /\ misled = FALSE

Runs(t) == at[t] <= Len(program[t])
Calls(t, operation) == Runs(t) /\ program[t][at[t]] = operation
Goto(t, label) == pc' = [pc EXCEPT ![t] = label]

\* What the comparisons and exchanges of t expect to find: an enqueue, or a call that
\* moves the tail, its tailNode, else a dequeue its headNode.
Expects(t) == CASE pc[t] \in {"tail_next", "same_tail", "link", "swing", "help"} -> tailNode[t]
                [] pc[t] \in {"head_tail", "head_next", "same_head", "take"} -> headNode[t]
                [] OTHER -> NULL

\* The call ends, having deleted the addresses in S, and with it the life of its locals.
Returns(t, S) == /\ Goto(t, "call")
                 /\ at' = [at EXCEPT ![t] = @ + 1]
                 /\ newNode' = [newNode EXCEPT ![t] = NULL]
                 /\ headNode' = [headNode EXCEPT ![t] = NULL]
                 /\ tailNode' = [tailNode EXCEPT ![t] = NULL]
                 /\ next' = [next EXCEPT ![t] = NULL]
                 /\ stale' = (stale \cup {u \in Thread : Expects(u) \in S}) \ {t}
                 /\ UNCHANGED program

\* Some address that is free, whether it was used before or not.
New == CHOOSE a \in Address : a \notin heap

\* What is read as the next of a, if a is allocated; else there is no telling.
Reads(a) == IF a \in heap THEN {node[a].next} ELSE Address \cup {NULL}

\* t finds what it expects, or something at the same address.
Finds(t) == misled' = (misled \/ t \in stale)
-----------------------------------------------------------------------------
(* enqueue *)

NewNode(t) == /\ pc[t] = "call" /\ Calls(t, "enqueue") /\ heap # Address
              /\ LET a == New IN
                    /\ heap' = heap \cup {a}
                    /\ newNode' = [newNode EXCEPT ![t] = a]
                    /\ node' = [node EXCEPT ![a] = [data |-> <<t, at[t]>>, next |-> NULL]]
              /\ Goto(t, "tail")
              /\ UNCHANGED <<head, tail, calls, headNode, tailNode, next, history>>

LoadTail(t) == /\ pc[t] = "tail"
               /\ tailNode' = [tailNode EXCEPT ![t] = tail]
               /\ stale' = stale \ {t}
               /\ Goto(t, "tail_next")
               /\ UNCHANGED <<head, tail, node, heap, calls, newNode, headNode, next, delivered, misled>>

LoadTailNext(t) == /\ pc[t] = "tail_next"
                   /\ \E a \in Reads(tailNode[t]) : next' = [next EXCEPT ![t] = a]
                   /\ Goto(t, "same_tail")
                   /\ UNCHANGED <<head, tail, node, heap, calls, newNode, headNode, tailNode, history>>

CompareTail(t) ==
    /\ pc[t] = "same_tail"
    /\ \/ tailNode[t] # tail /\ Goto(t, "tail") /\ UNCHANGED misled
       \/ tailNode[t] = tail /\ Goto(t, IF next[t] = NULL THEN "link" ELSE "help") /\ Finds(t)
    /\ UNCHANGED <<head, tail, node, heap, calls, locals, delivered, stale>>

\* Only the last node is followed by nothing.  The mutation links without comparing.
Anything(t) == TRUE
IsLast(t) == NULL \in Reads(tailNode[t])

Link(t) == /\ pc[t] = "link" /\ IsLast(t)
           /\ node' = [node EXCEPT ![tailNode[t]].next = newNode[t]]
           /\ Finds(t)
           /\ Goto(t, "swing")
           /\ UNCHANGED <<head, tail, heap, calls, locals, delivered, stale>>

\* A weak exchange may fail although the values are equal.
LinkFails(t) == /\ pc[t] = "link"
                /\ Goto(t, "tail")
                /\ UNCHANGED <<head, tail, node, heap, calls, locals, history>>

\* The tail is moved, if nobody did so before and the exchange does not fail.
MoveTail(t, to) == \/ tail = tailNode[t] /\ tail' = to /\ Finds(t)
                   \/ UNCHANGED <<tail, misled>>

SwingTail(t) == /\ pc[t] = "swing"
                /\ MoveTail(t, newNode[t])
                /\ Returns(t, {})
                /\ UNCHANGED <<head, node, heap, delivered>>

\* Either call moves a tail that fell behind, and starts again.
HelpTail(t) == /\ pc[t] = "help"
               /\ MoveTail(t, next[t])
               /\ Goto(t, IF Calls(t, "enqueue") THEN "tail" ELSE "call")
               /\ UNCHANGED <<head, node, heap, calls, locals, delivered, stale>>
-----------------------------------------------------------------------------
(* dequeue *)

LoadHead(t) == /\ pc[t] = "call" /\ Calls(t, "dequeue")
               /\ headNode' = [headNode EXCEPT ![t] = head]
               /\ stale' = stale \ {t}
               /\ Goto(t, "head_tail")
               /\ UNCHANGED <<head, tail, node, heap, calls, newNode, tailNode, next, delivered, misled>>

LoadHeadTail(t) == /\ pc[t] = "head_tail"
                   /\ tailNode' = [tailNode EXCEPT ![t] = tail]
                   /\ Goto(t, "head_next")
                   /\ UNCHANGED <<head, tail, node, heap, calls, newNode, headNode, next, history>>

LoadHeadNext(t) == /\ pc[t] = "head_next"
                   /\ \E a \in Reads(headNode[t]) : next' = [next EXCEPT ![t] = a]
                   /\ Goto(t, "same_head")
                   /\ UNCHANGED <<head, tail, node, heap, calls, newNode, headNode, tailNode, history>>

\* The tail's own node is not taken.  The mutation takes it, which lets the
\* head overtake the tail.
Overtakes(t) == next[t] = NULL
AtTail(t) == headNode[t] = tailNode[t]

CompareHead(t) ==
    /\ pc[t] = "same_head"
    /\ \/ headNode[t] # head /\ Goto(t, "call") /\ UNCHANGED misled
       \/ headNode[t] = head /\ AtTail(t) /\ next[t] # NULL /\ Goto(t, "help") /\ Finds(t)
       \/ headNode[t] = head /\ ~AtTail(t) /\ Goto(t, "take") /\ Finds(t)
    /\ UNCHANGED <<head, tail, node, heap, calls, locals, delivered, stale>>

FindsEmpty(t) == /\ pc[t] = "same_head" /\ headNode[t] = head /\ AtTail(t) /\ next[t] = NULL
                 /\ Finds(t)
                 /\ Returns(t, {})
                 /\ UNCHANGED <<head, tail, node, heap, delivered>>

\* value = next->data, which nobody changes, and the exchange.  A next that is null
\* stops the program, which only a comparison that was misled lets happen.
Take(t) == /\ pc[t] = "take" /\ head = headNode[t] /\ next[t] # NULL
           /\ head' = next[t]
           /\ delivered' = Append(delivered, node[next[t]].data)
           /\ Finds(t)
           /\ Goto(t, "delete")
           /\ UNCHANGED <<tail, node, heap, calls, locals, stale>>

TakeFails(t) == /\ pc[t] = "take" /\ next[t] # NULL
                /\ Goto(t, "call")
                /\ UNCHANGED <<head, tail, node, heap, calls, locals, history>>

Delete(t) == /\ pc[t] = "delete"
             /\ heap' = heap \ {headNode[t]}
             /\ Returns(t, {headNode[t]})
             /\ UNCHANGED <<head, tail, node, delivered, misled>>
-----------------------------------------------------------------------------
Step(t) == \/ NewNode(t) \/ LoadTail(t) \/ LoadTailNext(t) \/ CompareTail(t)
           \/ Link(t) \/ LinkFails(t) \/ SwingTail(t) \/ HelpTail(t)
           \/ LoadHead(t) \/ LoadHeadTail(t) \/ LoadHeadNext(t) \/ CompareHead(t)
           \/ FindsEmpty(t) \/ Take(t) \/ TakeFails(t) \/ Delete(t)

\* A weak exchange fails although it finds what it expects.
FailsForNoReason(t) ==
    \/ LinkFails(t) /\ IsLast(t)
    \/ TakeFails(t) /\ head = headNode[t]
    \/ HelpTail(t) /\ tail = tailNode[t] /\ UNCHANGED tail

AllReturned == \A t \in Thread : ~Runs(t)

Next == (\E t \in Thread : Step(t)) \/ (AllReturned /\ UNCHANGED vars)
-----------------------------------------------------------------------------
TypeOK == /\ {head, tail} \subseteq Address \cup {NULL}
          /\ heap \subseteq Address
          /\ at \in [Thread -> 1..(MaxCalls + 1)]
          /\ \A t \in Thread : {newNode[t], headNode[t], tailNode[t], next[t]} \subseteq Address \cup {NULL}
          /\ stale \subseteq Thread /\ misled \in BOOLEAN

\* The nodes from the dummy on.
Links == [a \in Address |-> node[a].next]
Chain == NodesFrom(Links, NULL, head)
Items == [i \in 1..(Len(Chain) - 1) |-> node[Chain[i + 1]].data]

\* The tail is one of the nodes that can be reached from the head, and all but
\* the last node follow it by at most one; until a call is misled.
TailNearEnd == misled \/ \E i \in 1..Len(Chain) : Chain[i] = tail /\ i >= Len(Chain) - 1

\* The queue is a FIFO queue without a bound but the memory's, until a call is misled.
FIFO == INSTANCE BoundedFIFO WITH items <- Items, Bound <- Cardinality(Address)
FIFOSpec == FIFO!Init /\ [][FIFO!Next \/ misled']_<<Items, delivered>>
=============================================================================
