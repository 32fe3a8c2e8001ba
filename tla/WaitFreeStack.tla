---------------------------- MODULE WaitFreeStack ----------------------------
(***************************************************************************)
(* wait_free_stack.c: a stack of linked nodes whose top is swung by        *)
(* compare and exchange, one action per access to memory that threads      *)
(* share, and the pushing and popping threads of its main.  pop frees its  *)
(* node at once, beside poppers that have loaded its address: what they    *)
(* read there as next may be anything, and the address may be allocated    *)
(* and pushed again before they compare it with the top.                   *)
(***************************************************************************)
EXTENDS Reachability

CONSTANTS Pushers, Poppers,
          Pushes, Pops,    \* how often each thread calls
          Address,         \* the addresses malloc may return; memory never runs out
          NULL

Thread == Pushers \cup Poppers
Value == UNION {{t} \X (1..Pushes[t]) : t \in Pushers}

VARIABLES top, node,
          heap,            \* the addresses allocated and not freed
          pc, calls,
          newNode, oldTop, newTop,
          answer,          \* history: what the latest pop took
          stale,           \* history: who holds an oldTop that was freed since it was loaded
          aba              \* history: whether a pop's exchange succeeded with such an oldTop

locals == <<newNode, oldTop, newTop>>
history == <<answer, stale, aba>>
vars == <<top, node, heap, pc, calls, locals, history>>

Init == /\ top = NULL
        /\ node = [a \in Address |-> [data |-> NULL, next |-> NULL]]
        /\ heap = {}
        /\ pc = [t \in Thread |-> IF t \in Pushers THEN "push" ELSE "pop"]
        /\ calls = [t \in Thread |-> 0]
        /\ newNode = [t \in Thread |-> NULL]
        /\ oldTop = [t \in Thread |-> NULL]
        /\ newTop = [t \in Thread |-> NULL]
        /\ answer = NULL /\ stale = {} /\ aba = FALSE

Calls(t) == IF t \in Pushers THEN calls[t] < Pushes[t] ELSE calls[t] < Pops[t]
Goto(t, label) == pc' = [pc EXCEPT ![t] = label]

\* The call ends, and with it the life of its locals.
Returns(t, label) == /\ Goto(t, label)
                     /\ calls' = [calls EXCEPT ![t] = @ + 1]
                     /\ newNode' = [newNode EXCEPT ![t] = NULL]
                     /\ oldTop' = [oldTop EXCEPT ![t] = NULL]
                     /\ newTop' = [newTop EXCEPT ![t] = NULL]

\* Some address that is free, whether it was used before or not.
Malloc == CHOOSE a \in Address : a \notin heap
-----------------------------------------------------------------------------
(* stack_push *)

create_node(t) ==
    /\ pc[t] = "push" /\ t \in Pushers /\ Calls(t) /\ heap # Address
    /\ LET a == Malloc IN
          /\ heap' = heap \cup {a}
          /\ newNode' = [newNode EXCEPT ![t] = a]
          /\ node' = [node EXCEPT ![a] = [data |-> <<t, calls[t] + 1>>, next |-> NULL]]
    /\ Goto(t, "load")
    /\ UNCHANGED <<top, calls, oldTop, newTop, history>>

PushLoadsTop(t) == /\ pc[t] = "load"
                   /\ oldTop' = [oldTop EXCEPT ![t] = top]
                   /\ node' = [node EXCEPT ![newNode[t]].next = top]
                   /\ Goto(t, "swap")
                   /\ UNCHANGED <<top, heap, calls, newNode, newTop, history>>

\* When the exchange may succeed.  The mutation stores without comparing.
Regardless(t) == TRUE
TopUnchanged(t) == top = oldTop[t]

PushSwaps(t) == /\ pc[t] = "swap" /\ TopUnchanged(t)
                /\ top' = newNode[t]
                /\ Returns(t, "push")
                /\ UNCHANGED <<node, heap, history>>

\* A weak exchange may fail although the values are equal.
PushRetries(t) == /\ pc[t] = "swap"
                  /\ Goto(t, "load")
                  /\ UNCHANGED <<top, node, heap, calls, locals, history>>
-----------------------------------------------------------------------------
(* stack_pop *)

\* The test of oldTop.  The mutation omits it.
NeverEmpty(a) == FALSE
Empty(a) == a = NULL

PopFindsEmpty(t) == /\ pc[t] = "pop" /\ Calls(t)
                    /\ Empty(top)
                    /\ answer' = NULL
                    /\ Returns(t, "pop")
                    /\ UNCHANGED <<top, node, heap, stale, aba>>

PopLoadsTop(t) == /\ pc[t] = "pop" /\ Calls(t)
                  /\ ~Empty(top)
                  /\ oldTop' = [oldTop EXCEPT ![t] = top]
                  /\ Goto(t, "next")
                  /\ UNCHANGED <<top, node, heap, calls, newNode, newTop, history>>

\* What is read at a, if it is allocated; else there is no telling.
Reads(a) == IF a \in heap THEN {node[a].next} ELSE Address \cup {NULL}

PopReadsNext(t) == /\ pc[t] = "next"
                   /\ \E a \in Reads(oldTop[t]) : newTop' = [newTop EXCEPT ![t] = a]
                   /\ Goto(t, "unlink")
                   /\ UNCHANGED <<top, node, heap, calls, newNode, oldTop, history>>

PopSwaps(t) == /\ pc[t] = "unlink" /\ TopUnchanged(t)
               /\ top' = newTop[t]
               /\ answer' = node[oldTop[t]].data
               /\ aba' = (aba \/ t \in stale)
               /\ stale' = stale \ {t}
               /\ Goto(t, "free")
               /\ UNCHANGED <<node, heap, calls, locals>>

PopRetries(t) == /\ pc[t] = "unlink"
                 /\ stale' = stale \ {t}
                 /\ Goto(t, "pop")
                 /\ UNCHANGED <<top, node, heap, calls, locals, answer, aba>>

\* What pop frees once it has the value.  The mutation frees nothing.
FreesNothing(t) == {}
Frees(t) == {oldTop[t]}

\* Those who have loaded one of the addresses S and not yet compared it.
Holding(S) == {u \in Thread : pc[u] \in {"next", "unlink"} /\ oldTop[u] \in S}

PopFrees(t) == /\ pc[t] = "free"
               /\ heap' = heap \ Frees(t)
               /\ stale' = stale \cup Holding(Frees(t))
               /\ Returns(t, "pop")
               /\ UNCHANGED <<top, node, answer, aba>>
-----------------------------------------------------------------------------
Step(t) == \/ create_node(t) \/ PushLoadsTop(t) \/ PushSwaps(t) \/ PushRetries(t)
           \/ PopFindsEmpty(t) \/ PopLoadsTop(t) \/ PopReadsNext(t)
           \/ PopSwaps(t) \/ PopRetries(t) \/ PopFrees(t)

Swaps(t) == PushSwaps(t) \/ PopSwaps(t)

AllReturned == \A t \in Thread : ~Calls(t) /\ pc[t] \in {"push", "pop"}

Next == (\E t \in Thread : Step(t)) \/ (AllReturned /\ UNCHANGED vars)
-----------------------------------------------------------------------------
TypeOK == /\ top \in Address \cup {NULL}
          /\ heap \subseteq Address
          /\ calls \in [Thread -> Nat]
          /\ \A t \in Thread :
                /\ {newNode[t], oldTop[t], newTop[t]} \subseteq Address \cup {NULL}
                /\ pc[t] \in {"next", "unlink", "free"} => oldTop[t] \in Address
          /\ stale \subseteq Holding(Address) /\ aba \in BOOLEAN

\* The values from a node down, and the nodes that hold them.
Links == [a \in Address |-> node[a].next]
Chain == NodesFrom(Links, NULL, top)
Values == [i \in 1..Len(Chain) |-> node[Chain[i]].data]
Nodes == {Chain[i] : i \in 1..Len(Chain)}

\* What is allocated is the stack and the nodes that one thread holds for itself,
\* as long as no exchange has taken a new node for one that was freed.
Owns(t) == CASE pc[t] \in {"load", "swap"} -> {newNode[t]}
             [] pc[t] = "free" -> {oldTop[t]}
             [] OTHER -> {}
NothingLeaks == aba \/ /\ heap = Nodes \cup UNION {Owns(t) : t \in Thread}
                       /\ \A t \in Thread : Owns(t) \cap Nodes = {}
                       /\ \A t, u \in Thread : t # u => Owns(t) \cap Owns(u) = {}

\* The stack is one, up to the first such exchange.
Stack == INSTANCE LIFO WITH stack <- Values, Nothing <- NULL
LIFOSpec == Stack!Init /\ [][Stack!Next \/ aba']_<<Values, answer>>
=============================================================================
