-------------------- MODULE MCConcurrentStructures_proofs ---------------------
(***************************************************************************)
(* The structures of MCConcurrentStructures for any finite sets of         *)
(* threads and any number of calls: each keeps its invariant, so that      *)
(* nothing is lost, and the stack and the queue are what they are called   *)
(* until a thread takes one node for another at the same address.  The     *)
(* tree and the lists have modules of their own.  Here come the stack and  *)
(* the queue: the links from the top and from the head make a path, each   *)
(* thread in the middle of a call knows what it owns and, unless the       *)
(* address was freed since, where the node stands that it expects, and     *)
(* every step is one of a LIFO stack or of a FIFO queue.                   *)
(***************************************************************************)
EXTENDS Lists_proofs, FineGrainedBST_proofs
-----------------------------------------------------------------------------
(* The stack of wait_free_stack.c. *)

\* What is meant by the walk of the model is the walk of the lemmas.
LEMMA StackWalk ==
    ASSUME NEW links, DOMAIN links = Address, NEW a, NEW s, IsPath(links, NULL, a, s)
    PROVE  Stack!NodesFrom(links, NULL, a) = s
<1>1. NodesFrom(links, NULL, a) = s
  BY NamesAssumption, SizesAssumption, PathIsWalked
<1>2. Stack!NodesFrom(links, NULL, a) = NodesFrom(links, NULL, a)
  BY DEF Stack!NodesFrom, NodesFrom, Stack!Cardinality, Cardinality
<1> QED BY <1>1, <1>2

StackNode == [data : Stack!Value \cup {NULL}, next : Address \cup {NULL}]
StackPlaces == {"push", "load", "swap", "pop", "next", "unlink", "free"}

\* A pusher's node is its own until it is pushed, a popper's once it is unlinked.
Pushing(t) == stack_pc[t] \in {"load", "swap"}
StackOwns(t, a) == \/ Pushing(t) /\ a = stack_new[t]
                   \/ stack_pc[t] = "free" /\ a = oldTop[t]

\* The types, which hold whatever was read at an address that was freed.
StackTypes ==
    /\ top \in Address \cup {NULL}
    /\ stack_node \in [Address -> StackNode]
    /\ stack_heap \subseteq Address
    /\ stack_pc \in [Stack!Thread -> StackPlaces]
    /\ stack_calls \in [Stack!Thread -> Nat]
    /\ stack_new \in [Stack!Thread -> Address \cup {NULL}]
    /\ oldTop \in [Stack!Thread -> Address \cup {NULL}]
    /\ newTop \in [Stack!Thread -> Address \cup {NULL}]
    /\ \A t \in Stack!Thread : t \in Pushers <=> stack_pc[t] \in {"push", "load", "swap"}
    /\ \A t \in Stack!Thread : Pushing(t) => stack_new[t] \in Address
    /\ \A t \in Stack!Thread : stack_pc[t] \in {"next", "unlink", "free"} => oldTop[t] \in Address
    /\ stale \subseteq Stack!Thread
    /\ \A t \in stale : stack_pc[t] \in {"next", "unlink"}
    /\ aba \in BOOLEAN

StackLinked == IsPath(Stack!Links, NULL, top, Stack!Chain)

\* What a popper has loaded is still what it was.
Trusting(t) == stack_pc[t] \in {"next", "unlink"} /\ t \notin stale

StackHolds(t) ==
    /\ Pushing(t) => /\ stack_new[t] \in stack_heap \ Stack!Nodes
                     /\ stack_node[stack_new[t]].data \in Stack!Value
    /\ stack_pc[t] = "swap" => stack_node[stack_new[t]].next = oldTop[t]
    /\ Trusting(t) => /\ oldTop[t] \in stack_heap
                      /\ \A u \in Stack!Thread : Pushing(u) => stack_new[u] # oldTop[t]
    /\ Trusting(t) /\ stack_pc[t] = "unlink" => newTop[t] = stack_node[oldTop[t]].next
    /\ stack_pc[t] = "free" => oldTop[t] \in stack_heap \ Stack!Nodes

\* The nodes allocated are those of the stack and those of one thread each.
StackHeap ==
    /\ Stack!Nodes \subseteq stack_heap
    /\ \A a \in stack_heap : a \in Stack!Nodes \/ \E t \in Stack!Thread : StackOwns(t, a)
    /\ \A t, u \in Stack!Thread : t # u => \A a \in Address : ~(StackOwns(t, a) /\ StackOwns(u, a))

StackSound == StackLinked /\ StackHeap /\ \A t \in Stack!Thread : StackHolds(t)

\* All of this holds up to the first exchange that takes a new node for a freed one.
StackInv == StackTypes /\ (~aba => StackSound)

\* What follows from a path that the links make.
LEMMA StackChain ==
    ASSUME NEW s, IsPath(Stack!Links, NULL, top, s)
    PROVE  /\ Stack!Chain = s /\ StackLinked
           /\ Stack!Nodes = {s[i] : i \in 1..Len(s)} /\ s \in Seq(Address)
           /\ Stack!Values = [i \in 1..Len(s) |-> stack_node[s[i]].data]
<1>1. DOMAIN Stack!Links = Address
  BY DEF Stack!Links
<1>2. Stack!Chain = s
  BY <1>1, StackWalk DEF Stack!Chain
<1> QED BY <1>1, <1>2 DEF StackLinked, Stack!Nodes, Stack!Values, IsPath

\* The same of the next state.
LEMMA StackChainNext ==
    ASSUME NEW s, IsPath(Stack!Links', NULL, top', s)
    PROVE  /\ Stack!Chain' = s /\ StackLinked'
           /\ Stack!Nodes' = {s[i] : i \in 1..Len(s)}
           /\ Stack!Values' = [i \in 1..Len(s) |-> stack_node'[s[i]].data]
<1>1. DOMAIN Stack!Links' = Address
  BY DEF Stack!Links
<1>2. Stack!Chain' = s
  BY <1>1, StackWalk DEF Stack!Chain
<1> QED BY <1>1, <1>2 DEF StackLinked, Stack!Nodes, Stack!Values

\* The chain as a sequence of addresses.
LEMMA StackFacts ==
    ASSUME StackLinked
    PROVE  /\ Stack!Chain \in Seq(Address) /\ Len(Stack!Chain) \in Nat /\ Stack!Nodes \subseteq Address
           /\ DOMAIN Stack!Links = Address
           /\ \A a \in Address : Stack!Links[a] = stack_node[a].next
           /\ Stack!Nodes = {Stack!Chain[i] : i \in 1..Len(Stack!Chain)}
           /\ Stack!Values = [i \in 1..Len(Stack!Chain) |-> stack_node[Stack!Chain[i]].data]
<1>1. DOMAIN Stack!Links = Address /\ \A a \in Address : Stack!Links[a] = stack_node[a].next
  BY DEF Stack!Links
<1>2. Stack!Chain \in Seq(Address)
  BY <1>1 DEF StackLinked, IsPath
<1> QED BY <1>1, <1>2 DEF Stack!Nodes, Stack!Values

\* The chain stays if the top does and the nodes of the chain do.
LEMMA StackChainKept ==
    ASSUME StackLinked, top' = top,
           \A a \in Stack!Nodes : stack_node'[a] = stack_node[a]
    PROVE  /\ StackLinked' /\ Stack!Nodes' = Stack!Nodes /\ Stack!Values' = Stack!Values
<1> DEFINE s == Stack!Chain
<1>1. /\ s \in Seq(Address) /\ Len(s) \in Nat /\ DOMAIN Stack!Links = Address
      /\ Stack!Nodes = {s[i] : i \in 1..Len(s)}
      /\ \A a \in Address : Stack!Links[a] = stack_node[a].next
  BY StackFacts
<1>2. DOMAIN Stack!Links' = Address /\ \A a \in Address : Stack!Links'[a] = stack_node'[a].next
  BY DEF Stack!Links
<1>3. ASSUME NEW i \in 1..Len(s) PROVE s[i] \in Address /\ stack_node'[s[i]] = stack_node[s[i]]
  BY <1>1
<1>4. IsPath(Stack!Links, NULL, top, s)
  BY DEF StackLinked
<1> HIDE DEF s
<1>5. \A i \in 1..Len(s) : Stack!Links'[s[i]] = Stack!Links[s[i]]
  BY <1>1, <1>2, <1>3
<1>6. IsPath(Stack!Links', NULL, top', s)
  BY <1>1, <1>2, <1>4, <1>5, PathKept
<1>7. /\ StackLinked' /\ Stack!Nodes' = {s[i] : i \in 1..Len(s)}
      /\ Stack!Values' = [i \in 1..Len(s) |-> stack_node'[s[i]].data]
  BY <1>6, StackChainNext
<1>8. Stack!Values = [i \in 1..Len(s) |-> stack_node[s[i]].data]
  BY StackFacts DEF s
<1> QED BY <1>1, <1>3, <1>7, <1>8

\* An empty stack with no thread in the middle of a call.
LEMMA StackInitially ==
    ASSUME Stack!Init PROVE StackInv /\ Stack!Values = <<>>
<1>1. StackTypes
  <2>1. NULL \in Address \cup {NULL} /\ [data |-> NULL, next |-> NULL] \in StackNode
    BY DEF StackNode
  <2> QED BY <2>1, NamesAssumption DEF Stack!Init, StackTypes, StackPlaces, Stack!Thread, Pushing
<1>2. PICK s : s = <<>>
  OBVIOUS
<1>3. DOMAIN Stack!Links = Address
  BY DEF Stack!Links
<1>4. IsPath(Stack!Links, NULL, top, s)
  <2>1. s \in Seq(Address) /\ Len(s) = 0
    BY <1>2
  <2>2. \A i \in 1..(Len(s) - 1) : Stack!Links[s[i]] = s[i + 1]
    BY <2>1
  <2>3. \A i, j \in 1..Len(s) : s[i] = s[j] => i = j
    BY <2>1
  <2> QED BY <1>3, <2>1, <2>2, <2>3 DEF IsPath, Stack!Init
<1>5. /\ StackLinked /\ Stack!Nodes = {s[i] : i \in 1..Len(s)}
      /\ Stack!Values = [i \in 1..Len(s) |-> stack_node[s[i]].data]
  BY <1>4, StackChain
<1>6. Stack!Nodes = {} /\ Stack!Values = <<>>
  BY <1>2, <1>5
<1>7. \A t \in Stack!Thread : StackHolds(t)
  BY DEF Stack!Init, StackHolds, Pushing, Trusting
<1>8. StackHeap
  BY <1>6 DEF Stack!Init, StackHeap, StackOwns, Pushing
<1> QED BY <1>1, <1>5, <1>6, <1>7, <1>8 DEF StackInv, StackSound

\* malloc finds an address, and the value pushed is one of those to be pushed.
LEMMA StackMalloc ==
    ASSUME StackTypes, NEW t \in Stack!Thread, Stack!create_node(t)
    PROVE  Stack!Malloc \in Address \ stack_heap /\ <<t, stack_calls[t] + 1>> \in Stack!Value
<1>1. t \in Pushers /\ stack_calls[t] < Pushes[t] /\ stack_heap # Address
  BY DEF Stack!create_node, Stack!Calls
<1>2. stack_calls[t] \in Nat /\ Pushes[t] \in Nat
  BY <1>1, SizesAssumption DEF StackTypes
<1>3. stack_calls[t] + 1 \in 1..Pushes[t]
  BY <1>1, <1>2
<1>4. <<t, stack_calls[t] + 1>> \in {t} \X (1..Pushes[t])
  BY <1>3
<1>5. <<t, stack_calls[t] + 1>> \in Stack!Value
  BY <1>1, <1>4 DEF Stack!Value
<1>6. \E a \in Address : a \notin stack_heap
  BY <1>1 DEF StackTypes
<1> QED BY <1>5, <1>6 DEF Stack!Malloc

\* A thread that returns forgets its locals; those of the others stay.
LEMMA StackReturns ==
    ASSUME StackTypes, NEW t \in Stack!Thread, NEW label \in {"push", "pop"},
           Stack!Returns(t, label)
    PROVE  /\ stack_pc' = [stack_pc EXCEPT ![t] = label] /\ stack_pc'[t] = label
           /\ stack_calls' \in [Stack!Thread -> Nat]
           /\ stack_new' \in [Stack!Thread -> Address \cup {NULL}]
           /\ oldTop' \in [Stack!Thread -> Address \cup {NULL}]
           /\ newTop' \in [Stack!Thread -> Address \cup {NULL}]
           /\ \A u \in Stack!Thread : u # t =>
                /\ stack_pc'[u] = stack_pc[u]
                /\ stack_new'[u] = stack_new[u] /\ oldTop'[u] = oldTop[u] /\ newTop'[u] = newTop[u]
<1>1. /\ stack_pc' = [stack_pc EXCEPT ![t] = label]
      /\ stack_calls' = [stack_calls EXCEPT ![t] = @ + 1]
      /\ stack_new' = [stack_new EXCEPT ![t] = NULL]
      /\ oldTop' = [oldTop EXCEPT ![t] = NULL]
      /\ newTop' = [newTop EXCEPT ![t] = NULL]
  BY DEF Stack!Returns, Stack!Goto
<1> QED BY <1>1 DEF StackTypes

\* The types of what one thread changes.
LEMMA StackTypesOf ==
    ASSUME StackTypes, NEW t \in Stack!Thread, NEW label \in StackPlaces,
           stack_pc' = [stack_pc EXCEPT ![t] = label],
           t \in Pushers <=> label \in {"push", "load", "swap"},
           stack_calls' \in [Stack!Thread -> Nat],
           stack_new' \in [Stack!Thread -> Address \cup {NULL}],
           oldTop' \in [Stack!Thread -> Address \cup {NULL}],
           newTop' \in [Stack!Thread -> Address \cup {NULL}],
           \A u \in Stack!Thread : u # t => stack_new'[u] = stack_new[u] /\ oldTop'[u] = oldTop[u],
           label \in {"load", "swap"} => stack_new'[t] \in Address,
           label \in {"next", "unlink", "free"} => oldTop'[t] \in Address,
           top' \in Address \cup {NULL}, stack_node' \in [Address -> StackNode],
           stack_heap' \subseteq Address,
           stale' \subseteq Stack!Thread, \A u \in stale' : stack_pc'[u] \in {"next", "unlink"},
           aba' \in BOOLEAN
    PROVE  StackTypes'
<1>1. /\ stack_pc' \in [Stack!Thread -> StackPlaces]
      /\ stack_pc'[t] = label /\ \A u \in Stack!Thread : u # t => stack_pc'[u] = stack_pc[u]
  BY DEF StackTypes
<1>2. ASSUME NEW u \in Stack!Thread
      PROVE  /\ u \in Pushers <=> stack_pc'[u] \in {"push", "load", "swap"}
             /\ stack_pc'[u] \in {"load", "swap"} => stack_new'[u] \in Address
             /\ stack_pc'[u] \in {"next", "unlink", "free"} => oldTop'[u] \in Address
  <2>1. CASE u = t
    BY <1>1, <2>1
  <2>2. CASE u # t
    BY <1>1, <2>2 DEF StackTypes, Pushing
  <2> QED BY <2>1, <2>2
<1> QED BY <1>1, <1>2 DEF StackTypes, Pushing

\* The types hold whatever the heap has come to.
LEMMA StackTypesKept ==
    ASSUME StackTypes, NEW t \in Stack!Thread, Stack!Step(t)
    PROVE  StackTypes' /\ (aba => aba')
<1>0. /\ stack_pc \in [Stack!Thread -> StackPlaces] /\ stack_node \in [Address -> StackNode]
      /\ stack_new \in [Stack!Thread -> Address \cup {NULL}]
      /\ oldTop \in [Stack!Thread -> Address \cup {NULL}]
      /\ newTop \in [Stack!Thread -> Address \cup {NULL}]
      /\ stack_calls \in [Stack!Thread -> Nat]
      /\ top \in Address \cup {NULL} /\ stack_heap \subseteq Address
      /\ stale \subseteq Stack!Thread /\ aba \in BOOLEAN
      /\ \A u \in stale : stack_pc[u] \in {"next", "unlink"}
      /\ t \in Pushers <=> stack_pc[t] \in {"push", "load", "swap"}
      /\ stack_pc[t] \in {"load", "swap"} => stack_new[t] \in Address
      /\ stack_pc[t] \in {"next", "unlink", "free"} => oldTop[t] \in Address
  BY DEF StackTypes, Pushing
<1>1. ASSUME NEW a \in Address PROVE stack_node[a].next \in Address \cup {NULL} /\ stack_node[a] \in StackNode
  BY <1>0 DEF StackNode
<1>2. ASSUME NEW label, stack_pc' = [stack_pc EXCEPT ![t] = label], t \notin stale
      PROVE  \A u \in stale : stack_pc'[u] \in {"next", "unlink"}
  BY <1>0, <1>2
<1>3. stack_pc[t] \notin {"next", "unlink"} => t \notin stale
  BY <1>0
<1>4. \A label : stack_pc' = [stack_pc EXCEPT ![t] = label] =>
                   \A u \in stale \ {t} : stack_pc'[u] \in {"next", "unlink"}
  BY <1>0
<1>5. CASE Stack!create_node(t)
  <2>1. Stack!Malloc \in Address /\ <<t, stack_calls[t] + 1>> \in Stack!Value
    BY <1>5, StackMalloc
  <2>2. PICK n \in Address, r \in StackNode :
          /\ stack_pc[t] = "push" /\ stack_heap' = stack_heap \cup {n}
          /\ stack_node' = [stack_node EXCEPT ![n] = r]
          /\ stack_new' = [stack_new EXCEPT ![t] = n]
          /\ stack_pc' = [stack_pc EXCEPT ![t] = "load"]
          /\ UNCHANGED <<top, stack_calls, oldTop, newTop, stale, aba>>
    <3>1. [data |-> <<t, stack_calls[t] + 1>>, next |-> NULL] \in StackNode
      BY <2>1 DEF StackNode
    <3> QED BY <1>5, <2>1, <3>1 DEF Stack!create_node, Stack!Goto, Stack!history
  <2>3. stack_node' \in [Address -> StackNode] /\ stack_new' \in [Stack!Thread -> Address \cup {NULL}]
        /\ stack_new'[t] \in Address /\ \A u \in Stack!Thread : u # t => stack_new'[u] = stack_new[u]
    BY <1>0, <2>2
  <2>4. \A u \in stale' : stack_pc'[u] \in {"next", "unlink"}
    BY <1>2, <1>3, <2>2
  <2>5. stack_heap' \subseteq Address /\ t \in Pushers
    BY <1>0, <2>2
  <2> QED BY <1>0, <2>2, <2>3, <2>4, <2>5, StackTypesOf DEF StackPlaces
<1>6. CASE Stack!PushLoadsTop(t)
  <2>1. PICK n, r :
          /\ n = stack_new[t] /\ r = [stack_node[n] EXCEPT !.next = top]
          /\ stack_pc[t] = "load" /\ oldTop' = [oldTop EXCEPT ![t] = top]
          /\ stack_node' = [stack_node EXCEPT ![n] = r]
          /\ stack_pc' = [stack_pc EXCEPT ![t] = "swap"]
          /\ UNCHANGED <<top, stack_heap, stack_calls, stack_new, newTop, stale, aba>>
    BY <1>6 DEF Stack!PushLoadsTop, Stack!Goto, Stack!history
  <2>2. n \in Address /\ r \in StackNode
    BY <1>0, <1>1, <2>1 DEF StackNode
  <2>3. stack_node' \in [Address -> StackNode] /\ oldTop' \in [Stack!Thread -> Address \cup {NULL}]
        /\ \A u \in Stack!Thread : u # t => oldTop'[u] = oldTop[u]
    BY <1>0, <2>1, <2>2
  <2>4. \A u \in stale' : stack_pc'[u] \in {"next", "unlink"}
    BY <1>2, <1>3, <2>1
  <2> QED BY <1>0, <2>1, <2>2, <2>3, <2>4, StackTypesOf DEF StackPlaces
<1>7. CASE Stack!PushSwaps(t)
  <2>1. /\ stack_pc[t] = "swap" /\ top' = stack_new[t] /\ Stack!Returns(t, "push")
        /\ UNCHANGED <<stack_node, stack_heap, stale, aba>>
    BY <1>7 DEF Stack!PushSwaps, Stack!history
  <2>2. \A u \in stale' : stack_pc'[u] \in {"next", "unlink"}
    BY <1>2, <1>3, <2>1, StackReturns
  <2> QED BY <1>0, <2>1, <2>2, StackReturns, StackTypesOf DEF StackPlaces
<1>8. CASE Stack!PushRetries(t)
  <2>1. /\ stack_pc[t] = "swap" /\ stack_pc' = [stack_pc EXCEPT ![t] = "load"]
        /\ UNCHANGED <<top, stack_node, stack_heap, stack_calls, stack_new, oldTop, newTop, stale, aba>>
    BY <1>8 DEF Stack!PushRetries, Stack!Goto, Stack!history, Stack!locals
  <2>2. \A u \in stale' : stack_pc'[u] \in {"next", "unlink"}
    BY <1>2, <1>3, <2>1
  <2> QED BY <1>0, <2>1, <2>2, StackTypesOf DEF StackPlaces
<1>9. CASE Stack!PopFindsEmpty(t)
  <2>1. /\ stack_pc[t] = "pop" /\ Stack!Returns(t, "pop")
        /\ UNCHANGED <<top, stack_node, stack_heap, stale, aba>>
    BY <1>9 DEF Stack!PopFindsEmpty
  <2>2. \A u \in stale' : stack_pc'[u] \in {"next", "unlink"}
    BY <1>2, <1>3, <2>1, StackReturns
  <2> QED BY <1>0, <2>1, <2>2, StackReturns, StackTypesOf DEF StackPlaces
<1>10. CASE Stack!PopLoadsTop(t)
  <2>1. /\ stack_pc[t] = "pop" /\ top # NULL /\ stack_pc' = [stack_pc EXCEPT ![t] = "next"]
        /\ oldTop' = [oldTop EXCEPT ![t] = top]
        /\ UNCHANGED <<top, stack_node, stack_heap, stack_calls, stack_new, newTop, stale, aba>>
    BY <1>10 DEF Stack!PopLoadsTop, Stack!Goto, Stack!Empty, Stack!history
  <2>2. oldTop' \in [Stack!Thread -> Address \cup {NULL}] /\ oldTop'[t] \in Address
        /\ \A u \in Stack!Thread : u # t => oldTop'[u] = oldTop[u]
    BY <1>0, <2>1
  <2>3. \A u \in stale' : stack_pc'[u] \in {"next", "unlink"}
    BY <1>2, <1>3, <2>1
  <2> QED BY <1>0, <2>1, <2>2, <2>3, StackTypesOf DEF StackPlaces
<1>11. CASE Stack!PopReadsNext(t)
  <2>1. PICK a \in Stack!Reads(oldTop[t]) :
          /\ stack_pc[t] = "next" /\ stack_pc' = [stack_pc EXCEPT ![t] = "unlink"]
          /\ newTop' = [newTop EXCEPT ![t] = a]
          /\ UNCHANGED <<top, stack_node, stack_heap, stack_calls, stack_new, oldTop, stale, aba>>
    BY <1>11 DEF Stack!PopReadsNext, Stack!Goto, Stack!history
  <2>2. a \in Address \cup {NULL}
    BY <1>0, <1>1, <2>1 DEF Stack!Reads
  <2>3. newTop' \in [Stack!Thread -> Address \cup {NULL}]
    BY <1>0, <2>1, <2>2
  <2>4. \A u \in stale' : stack_pc'[u] \in {"next", "unlink"}
    BY <1>0, <2>1
  <2> QED BY <1>0, <2>1, <2>3, <2>4, StackTypesOf DEF StackPlaces
<1>12. CASE Stack!PopSwaps(t)
  <2>1. /\ stack_pc[t] = "unlink" /\ top' = newTop[t] /\ stack_pc' = [stack_pc EXCEPT ![t] = "free"]
        /\ aba' = (aba \/ t \in stale) /\ stale' = stale \ {t}
        /\ UNCHANGED <<stack_node, stack_heap, stack_calls, stack_new, oldTop, newTop>>
    BY <1>12 DEF Stack!PopSwaps, Stack!Goto, Stack!locals
  <2>2. \A u \in stale' : stack_pc'[u] \in {"next", "unlink"}
    BY <1>4, <2>1
  <2> QED BY <1>0, <2>1, <2>2, StackTypesOf DEF StackPlaces
<1>13. CASE Stack!PopRetries(t)
  <2>1. /\ stack_pc[t] = "unlink" /\ stack_pc' = [stack_pc EXCEPT ![t] = "pop"]
        /\ stale' = stale \ {t}
        /\ UNCHANGED <<top, stack_node, stack_heap, stack_calls, stack_new, oldTop, newTop, aba>>
    BY <1>13 DEF Stack!PopRetries, Stack!Goto, Stack!locals
  <2>2. \A u \in stale' : stack_pc'[u] \in {"next", "unlink"}
    BY <1>4, <2>1
  <2> QED BY <1>0, <2>1, <2>2, StackTypesOf DEF StackPlaces
<1>14. CASE Stack!PopFrees(t)
  <2>1. /\ stack_pc[t] = "free" /\ stack_heap' \subseteq stack_heap /\ Stack!Returns(t, "pop")
        /\ stale' = stale \cup Stack!Holding(Stack!Frees(t)) /\ UNCHANGED <<top, stack_node, aba>>
    BY <1>14 DEF Stack!PopFrees
  <2>2. /\ stack_pc' = [stack_pc EXCEPT ![t] = "pop"]
        /\ \A u \in stale' : u \in Stack!Thread /\ u # t /\ stack_pc[u] \in {"next", "unlink"}
    BY <1>0, <2>1, StackReturns DEF Stack!Holding
  <2>3. \A u \in stale' : stack_pc'[u] \in {"next", "unlink"}
    BY <1>0, <2>2
  <2> QED BY <1>0, <2>1, <2>2, <2>3, StackReturns, StackTypesOf DEF StackPlaces
<1> QED BY <1>5, <1>6, <1>7, <1>8, <1>9, <1>10, <1>11, <1>12, <1>13, <1>14 DEF Stack!Step

\* A step by which a thread changes nothing but its place and its locals.
LEMMA StackLocalStep ==
    ASSUME StackTypes, StackSound, NEW t \in Stack!Thread,
           UNCHANGED <<top, stack_node, stack_heap>>,
           \A u \in Stack!Thread : u # t =>
              /\ stack_pc'[u] = stack_pc[u] /\ (u \in stale' <=> u \in stale)
              /\ stack_new'[u] = stack_new[u] /\ oldTop'[u] = oldTop[u] /\ newTop'[u] = newTop[u],
           Pushing(t)' <=> Pushing(t),
           Pushing(t) => stack_new'[t] = stack_new[t],
           stack_pc[t] # "free", stack_pc'[t] # "free",
           Stack!Nodes' = Stack!Nodes => StackHolds(t)'
    PROVE  StackSound' /\ Stack!Values' = Stack!Values
<1>1. StackLinked' /\ Stack!Nodes' = Stack!Nodes /\ Stack!Values' = Stack!Values
  BY StackChainKept DEF StackSound
<1>2. \A u \in Stack!Thread : /\ Pushing(u)' <=> Pushing(u)
                              /\ Pushing(u) => stack_new'[u] = stack_new[u]
  BY DEF Pushing
<1>3. \A u \in Stack!Thread : StackHolds(u)'
  <2>1. ASSUME NEW u \in Stack!Thread, u # t PROVE StackHolds(u)'
    <3>1. StackHolds(u)
      BY DEF StackSound
    <3>2. Trusting(u)' <=> Trusting(u)
      BY <2>1 DEF Trusting
    <3> QED BY <1>1, <1>2, <2>1, <3>1, <3>2 DEF StackHolds
  <2> QED BY <1>1, <2>1
<1>4. \A u \in Stack!Thread : \A a : StackOwns(u, a)' <=> StackOwns(u, a)
  <2>1. ASSUME NEW u \in Stack!Thread, NEW a PROVE StackOwns(u, a)' <=> StackOwns(u, a)
    <3>1. CASE u = t
      BY <1>2, <3>1 DEF StackOwns
    <3>2. CASE u # t
      BY <1>2, <3>2 DEF StackOwns
    <3> QED BY <3>1, <3>2
  <2> QED BY <2>1
<1>5. StackHeap'
  BY <1>1, <1>4 DEF StackSound, StackHeap
<1> QED BY <1>1, <1>3, <1>5 DEF StackSound

\* The top of a stack that is not empty is one of its nodes.
LEMMA StackTop ==
    ASSUME StackSound, top # NULL
    PROVE  top \in Stack!Nodes /\ top \in stack_heap
<1>1. Len(Stack!Chain) \in Nat \ {0} /\ Stack!Chain[1] = top
  BY PathPopped DEF StackSound, StackLinked
<1> QED BY <1>1, StackFacts DEF StackSound, StackHeap

\* Loads and exchanges that fail change nothing but what a thread has read.
LEMMA StackQuietSteps ==
    ASSUME StackTypes, StackSound, NEW t \in Stack!Thread,
           \/ Stack!PushRetries(t) \/ Stack!PopLoadsTop(t) \/ Stack!PopReadsNext(t)
           \/ Stack!PopRetries(t)
    PROVE  StackSound' /\ UNCHANGED <<Stack!Values, answer>>
<1>0. /\ StackHolds(t) /\ stack_pc \in [Stack!Thread -> StackPlaces]
      /\ oldTop \in [Stack!Thread -> Address \cup {NULL}]
      /\ newTop \in [Stack!Thread -> Address \cup {NULL}]
      /\ \A u \in stale : stack_pc[u] \in {"next", "unlink"}
  BY DEF StackSound, StackTypes
<1>1. CASE Stack!PushRetries(t)
  <2>1. /\ stack_pc[t] = "swap" /\ stack_pc' = [stack_pc EXCEPT ![t] = "load"]
        /\ UNCHANGED <<top, stack_node, stack_heap, stack_new, oldTop, newTop, answer, stale>>
    BY <1>1 DEF Stack!PushRetries, Stack!Goto, Stack!history, Stack!locals
  <2>2. stack_pc'[t] = "load" /\ \A u \in Stack!Thread : u # t => stack_pc'[u] = stack_pc[u]
    BY <1>0, <2>1
  <2>3. Stack!Nodes' = Stack!Nodes => StackHolds(t)'
    BY <1>0, <2>1, <2>2 DEF StackHolds, Pushing, Trusting
  <2> QED BY <2>1, <2>2, <2>3, StackLocalStep DEF Pushing
<1>2. CASE Stack!PopLoadsTop(t)
  <2>1. /\ stack_pc[t] = "pop" /\ top # NULL /\ stack_pc' = [stack_pc EXCEPT ![t] = "next"]
        /\ oldTop' = [oldTop EXCEPT ![t] = top]
        /\ UNCHANGED <<top, stack_node, stack_heap, stack_new, newTop, answer, stale>>
    BY <1>2 DEF Stack!PopLoadsTop, Stack!Goto, Stack!Empty, Stack!history
  <2>2. /\ stack_pc'[t] = "next" /\ oldTop'[t] = top
        /\ \A u \in Stack!Thread : u # t => stack_pc'[u] = stack_pc[u] /\ oldTop'[u] = oldTop[u]
    BY <1>0, <2>1
  <2>3. \A u \in Stack!Thread : Pushing(u)' => Pushing(u) /\ stack_new'[u] = stack_new[u]
    BY <2>1, <2>2 DEF Pushing
  <2>4. \A u \in Stack!Thread : Pushing(u) => stack_new[u] # top
    BY <2>1, StackTop DEF StackSound, StackHolds
  <2>5. StackHolds(t)'
    BY <2>1, <2>2, <2>3, <2>4, StackTop DEF StackHolds, Pushing, Trusting
  <2> QED BY <2>1, <2>2, <2>5, StackLocalStep DEF Pushing
<1>3. CASE Stack!PopReadsNext(t)
  <2>1. PICK a \in Stack!Reads(oldTop[t]) :
          /\ stack_pc[t] = "next" /\ stack_pc' = [stack_pc EXCEPT ![t] = "unlink"]
          /\ newTop' = [newTop EXCEPT ![t] = a]
          /\ UNCHANGED <<top, stack_node, stack_heap, stack_new, oldTop, answer, stale>>
    BY <1>3 DEF Stack!PopReadsNext, Stack!Goto, Stack!history
  <2>2. /\ stack_pc'[t] = "unlink" /\ newTop'[t] = a
        /\ \A u \in Stack!Thread : u # t => stack_pc'[u] = stack_pc[u] /\ newTop'[u] = newTop[u]
    BY <1>0, <2>1
  <2>3. Trusting(t)' => Trusting(t) /\ a = stack_node[oldTop[t]].next
    BY <1>0, <2>1, <2>2 DEF Trusting, StackHolds, Stack!Reads
  <2>4. \A u \in Stack!Thread : Pushing(u)' => Pushing(u) /\ stack_new'[u] = stack_new[u]
    BY <2>1, <2>2 DEF Pushing
  <2>5. StackHolds(t)'
    BY <1>0, <2>1, <2>2, <2>3, <2>4 DEF StackHolds, Pushing
  <2> QED BY <2>1, <2>2, <2>5, StackLocalStep DEF Pushing
<1>4. CASE Stack!PopRetries(t)
  <2>1. /\ stack_pc[t] = "unlink" /\ stack_pc' = [stack_pc EXCEPT ![t] = "pop"]
        /\ stale' = stale \ {t}
        /\ UNCHANGED <<top, stack_node, stack_heap, stack_new, oldTop, newTop, answer>>
    BY <1>4 DEF Stack!PopRetries, Stack!Goto, Stack!locals
  <2>2. stack_pc'[t] = "pop" /\ \A u \in Stack!Thread : u # t => stack_pc'[u] = stack_pc[u]
    BY <1>0, <2>1
  <2>3. StackHolds(t)'
    BY <2>2 DEF StackHolds, Pushing, Trusting
  <2> QED BY <2>1, <2>2, <2>3, StackLocalStep DEF Pushing
<1> QED BY <1>1, <1>2, <1>3, <1>4

\* A pop that sees no top answers for an empty stack.
LEMMA StackFindsEmpty ==
    ASSUME StackTypes, StackSound, NEW t \in Stack!Thread, Stack!PopFindsEmpty(t)
    PROVE  StackSound' /\ Stack!Values = <<>> /\ Stack!Values' = <<>> /\ answer' = NULL
<1>1. /\ stack_pc[t] = "pop" /\ top = NULL /\ answer' = NULL
      /\ UNCHANGED <<top, stack_node, stack_heap, stale>> /\ Stack!Returns(t, "pop")
  BY DEF Stack!PopFindsEmpty, Stack!Empty
<1>2. /\ stack_pc'[t] = "pop"
      /\ \A u \in Stack!Thread : u # t =>
           /\ stack_pc'[u] = stack_pc[u]
           /\ stack_new'[u] = stack_new[u] /\ oldTop'[u] = oldTop[u] /\ newTop'[u] = newTop[u]
  BY <1>1, StackReturns
<1>3. StackHolds(t)'
  BY <1>2 DEF StackHolds, Pushing, Trusting
<1>4. StackSound' /\ Stack!Values' = Stack!Values
  BY <1>1, <1>2, <1>3, StackLocalStep DEF Pushing
<1>5. Stack!Values = <<>>
  <2>1. Len(Stack!Chain) = 0
    <3> SUFFICES ASSUME Len(Stack!Chain) # 0 PROVE FALSE
      OBVIOUS
    <3>1. Stack!Chain[1] = NULL /\ 1 \in 1..Len(Stack!Chain)
      BY <1>1, StackFacts DEF StackSound, StackLinked, IsPath
    <3>2. Stack!Chain[1] \in Address
      BY <3>1, StackFacts DEF StackSound
    <3> QED BY <3>1, <3>2, NamesAssumption
  <2> QED BY <2>1, StackFacts DEF StackSound
<1> QED BY <1>1, <1>4, <1>5

\* A pusher takes a node for itself out of free memory.
LEMMA StackCreates ==
    ASSUME StackTypes, StackSound, NEW t \in Stack!Thread, Stack!create_node(t)
    PROVE  StackSound' /\ UNCHANGED <<Stack!Values, answer>>
<1> DEFINE n == Stack!Malloc
           v == <<t, stack_calls[t] + 1>>
<1>1. n \in Address /\ n \notin stack_heap /\ v \in Stack!Value
  BY StackMalloc
<1> HIDE DEF n, v
<1>2. /\ stack_pc[t] = "push" /\ top' = top /\ stack_heap' = stack_heap \cup {n}
      /\ stack_node' = [stack_node EXCEPT ![n] = [data |-> v, next |-> NULL]]
      /\ stack_pc' = [stack_pc EXCEPT ![t] = "load"]
      /\ stack_new' = [stack_new EXCEPT ![t] = n]
      /\ UNCHANGED <<oldTop, newTop, answer, stale>>
  BY DEF Stack!create_node, Stack!Goto, Stack!history, n, v
<1>3. /\ Stack!Nodes \subseteq stack_heap /\ stack_heap \subseteq Address
      /\ \A u \in Stack!Thread : StackHolds(u)
  BY DEF StackSound, StackHeap, StackTypes
<1>4. /\ stack_node'[n].data = v /\ \A a \in Address : a # n => stack_node'[a] = stack_node[a]
  BY <1>1, <1>2 DEF StackTypes
<1>5. StackLinked' /\ Stack!Nodes' = Stack!Nodes /\ Stack!Values' = Stack!Values
  <2>1. \A a \in Stack!Nodes : stack_node'[a] = stack_node[a]
    BY <1>1, <1>3, <1>4
  <2> QED BY <1>2, <2>1, StackChainKept DEF StackSound
<1>6. /\ \A u \in Stack!Thread : u # t => stack_pc'[u] = stack_pc[u] /\ stack_new'[u] = stack_new[u]
      /\ stack_pc'[t] = "load" /\ stack_new'[t] = n
  BY <1>2 DEF StackTypes
<1>7. \A u \in Stack!Thread : StackHolds(u)'
  <2>1. StackHolds(t)'
    BY <1>1, <1>2, <1>3, <1>4, <1>5, <1>6 DEF StackHolds, Pushing, Trusting
  <2>2. ASSUME NEW u \in Stack!Thread, u # t PROVE StackHolds(u)'
    <3>1. StackHolds(u)
      BY <1>3
    <3>2. \A a \in stack_heap : a \in stack_heap' /\ stack_node'[a] = stack_node[a]
      BY <1>1, <1>2, <1>3, <1>4
    <3>3. (Pushing(u)' <=> Pushing(u)) /\ (Trusting(u)' <=> Trusting(u))
      BY <1>2, <1>6, <2>2 DEF Pushing, Trusting
    <3>4. ASSUME Trusting(u), NEW w \in Stack!Thread, Pushing(w)' PROVE stack_new'[w] # oldTop[u]
      <4>1. CASE w = t
        BY <1>1, <1>6, <3>1, <3>4, <4>1 DEF StackHolds
      <4>2. CASE w # t
        BY <1>6, <3>1, <3>4, <4>2 DEF StackHolds, Pushing
      <4> QED BY <4>1, <4>2
    <3>5. stack_pc[u] = "swap" => Pushing(u)
      BY DEF Pushing
    <3> QED BY <1>2, <1>5, <1>6, <2>2, <3>1, <3>2, <3>3, <3>4, <3>5 DEF StackHolds
  <2> QED BY <2>1, <2>2
<1>8. StackHeap'
  <2>1. \A u \in Stack!Thread : \A a : u # t => (StackOwns(u, a)' <=> StackOwns(u, a))
    BY <1>2, <1>6 DEF StackOwns, Pushing
  <2>2. \A a : (StackOwns(t, a)' <=> a = n) /\ ~StackOwns(t, a)
    BY <1>2, <1>6 DEF StackOwns, Pushing
  <2>3. \A u \in Stack!Thread : \A a : StackOwns(u, a) => a \in stack_heap
    BY <1>3 DEF StackOwns, StackHolds
  <2>4. \A a \in stack_heap' : a \in Stack!Nodes' \/ \E u \in Stack!Thread : StackOwns(u, a)'
    BY <1>2, <1>5, <2>1, <2>2 DEF StackSound, StackHeap
  <2>5. ASSUME NEW u \in Stack!Thread, NEW w \in Stack!Thread, u # w, NEW a \in Address,
               StackOwns(u, a)', StackOwns(w, a)'
        PROVE  FALSE
    <3>1. CASE u # t /\ w # t
      BY <2>1, <2>5, <3>1 DEF StackSound, StackHeap
    <3>2. CASE u = t \/ w = t
      BY <1>1, <2>1, <2>2, <2>3, <2>5, <3>2
    <3> QED BY <3>1, <3>2
  <2> QED BY <1>2, <1>3, <1>5, <2>4, <2>5 DEF StackHeap
<1> QED BY <1>2, <1>5, <1>7, <1>8 DEF StackSound

\* A pusher links its node to the top it has seen, outside of the stack.
LEMMA StackLoads ==
    ASSUME StackTypes, StackSound, NEW t \in Stack!Thread, Stack!PushLoadsTop(t)
    PROVE  StackSound' /\ UNCHANGED <<Stack!Values, answer>>
<1> DEFINE n == stack_new[t]
<1>1. /\ stack_pc[t] = "load" /\ stack_pc' = [stack_pc EXCEPT ![t] = "swap"]
      /\ oldTop' = [oldTop EXCEPT ![t] = top]
      /\ stack_node' = [stack_node EXCEPT ![n].next = top]
      /\ UNCHANGED <<top, stack_heap, stack_new, newTop, answer, stale>>
  BY DEF Stack!PushLoadsTop, Stack!Goto, Stack!history
<1>2. /\ \A u \in Stack!Thread : StackHolds(u)
      /\ Stack!Nodes \subseteq stack_heap /\ stack_heap \subseteq Address
      /\ n \in stack_heap \ Stack!Nodes /\ n \in Address /\ stack_node[n].data \in Stack!Value
  BY <1>1 DEF StackSound, StackHeap, StackTypes, StackHolds, Pushing
<1>3. /\ stack_node'[n].data = stack_node[n].data /\ stack_node'[n].next = top
      /\ \A a \in Address : a # n => stack_node'[a] = stack_node[a]
  <2>1. stack_node[n] \in [data : Stack!Value \cup {NULL}, next : Address \cup {NULL}]
        /\ stack_node \in [Address -> StackNode]
    BY <1>2 DEF StackTypes, StackNode
  <2>2. PICK r : r = [stack_node[n] EXCEPT !.next = top]
    OBVIOUS
  <2>3. r.data = stack_node[n].data /\ r.next = top
    BY <2>1, <2>2
  <2>4. stack_node' = [stack_node EXCEPT ![n] = r]
    BY <1>1, <2>2
  <2> QED BY <1>2, <2>1, <2>3, <2>4
<1>4. /\ stack_pc'[t] = "swap" /\ oldTop'[t] = top
      /\ \A u \in Stack!Thread : u # t => stack_pc'[u] = stack_pc[u] /\ oldTop'[u] = oldTop[u]
  BY <1>1 DEF StackTypes
<1>5. StackLinked' /\ Stack!Nodes' = Stack!Nodes /\ Stack!Values' = Stack!Values
  <2>1. \A a \in Stack!Nodes : stack_node'[a] = stack_node[a]
    BY <1>2, <1>3
  <2> QED BY <1>1, <2>1, StackChainKept DEF StackSound
<1>6. \A u \in Stack!Thread : (Pushing(u)' <=> Pushing(u)) /\ (Trusting(u)' <=> Trusting(u))
  BY <1>1, <1>4 DEF Pushing, Trusting
<1>7. Pushing(t)
  BY <1>1 DEF Pushing
<1> HIDE DEF n
<1>8. \A u \in Stack!Thread : StackHolds(u)'
  <2>1. StackHolds(t)'
    BY <1>1, <1>2, <1>3, <1>4, <1>5 DEF StackHolds, Pushing, Trusting, n
  <2>2. ASSUME NEW u \in Stack!Thread, u # t PROVE StackHolds(u)'
    <3>1. StackHolds(u) /\ stack_pc'[u] = stack_pc[u] /\ oldTop'[u] = oldTop[u]
      BY <1>2, <1>4, <2>2
    <3>2. Pushing(u) => stack_new[u] # n
      BY <1>2, <1>7, <2>2 DEF StackSound, StackHeap, StackOwns, n
    <3>3. Pushing(u) => stack_node'[stack_new[u]] = stack_node[stack_new[u]]
      BY <1>2, <1>3, <3>1, <3>2 DEF StackHolds
    <3>4. Trusting(u) => oldTop[u] # n /\ oldTop[u] \in Address
      BY <1>2, <1>7, <3>1 DEF StackHolds, n
    <3>5. Trusting(u) => stack_node'[oldTop[u]] = stack_node[oldTop[u]]
      BY <1>3, <3>4
    <3>6. stack_pc[u] = "swap" => Pushing(u)
      BY DEF Pushing
    <3>7. Trusting(u)' => \A w \in Stack!Thread : Pushing(w)' => stack_new'[w] # oldTop'[u]
      BY <1>1, <1>6, <3>1 DEF StackHolds
    <3>8. /\ stack_heap' = stack_heap /\ Stack!Nodes' = Stack!Nodes
          /\ stack_new'[u] = stack_new[u] /\ newTop'[u] = newTop[u]
          /\ (Pushing(u)' <=> Pushing(u)) /\ (Trusting(u)' <=> Trusting(u))
      BY <1>1, <1>5, <1>6
    <3> QED BY <3>1, <3>3, <3>5, <3>6, <3>7, <3>8 DEF StackHolds
  <2> QED BY <2>1, <2>2
<1>9. \A u \in Stack!Thread : \A a : StackOwns(u, a)' <=> StackOwns(u, a)
  <2>1. \A u \in Stack!Thread : stack_pc[u] = "free" \/ stack_pc'[u] = "free" => u # t
    BY <1>1, <1>4
  <2> QED BY <1>1, <1>4, <1>6, <2>1 DEF StackOwns
<1>10. StackHeap'
  BY <1>1, <1>5, <1>9 DEF StackSound, StackHeap
<1> QED BY <1>1, <1>5, <1>8, <1>10 DEF StackSound

\* A row of one more value in front.
LEMMA RowWithHead ==
    ASSUME NEW S, NEW s \in Seq(S), NEW v \in S, NEW t \in [1..(Len(s) + 1) -> S],
           t[1] = v, \A k \in 1..Len(s) : t[k + 1] = s[k]
    PROVE  t = <<v>> \o s
<1>1. PICK u : u = <<v>> \o s
  OBVIOUS
<1>2. <<v>> \in Seq(S) /\ Len(<<v>>) = 1 /\ <<v>>[1] = v
  OBVIOUS
<1>3. /\ u \in Seq(S) /\ Len(u) = Len(s) + 1 /\ u[1] = v
      /\ \A k \in 1..Len(s) : u[k + 1] = s[k]
  BY <1>1, <1>2, ConcatProperties
<1>4. ASSUME NEW k \in 1..(Len(s) + 1) PROVE t[k] = u[k]
  <2>1. CASE k = 1
    BY <1>3, <2>1
  <2>2. CASE k # 1
    <3>1. k - 1 \in 1..Len(s) /\ (k - 1) + 1 = k
      BY <2>2
    <3> QED BY <1>3, <3>1
  <2> QED BY <2>1, <2>2
<1>5. t = [k \in 1..(Len(s) + 1) |-> t[k]] /\ u = [k \in 1..(Len(s) + 1) |-> u[k]]
  BY <1>3
<1> QED BY <1>1, <1>4, <1>5

\* The values of the stack are a sequence.
LEMMA StackRow ==
    ASSUME StackTypes, StackLinked
    PROVE  /\ Stack!Values \in Seq(Stack!Value \cup {NULL}) /\ Len(Stack!Values) = Len(Stack!Chain)
           /\ \A i \in 1..Len(Stack!Chain) : Stack!Values[i] = stack_node[Stack!Chain[i]].data
<1>1. /\ Stack!Chain \in Seq(Address) /\ Len(Stack!Chain) \in Nat
      /\ Stack!Values = [i \in 1..Len(Stack!Chain) |-> stack_node[Stack!Chain[i]].data]
  BY StackFacts
<1>2. ASSUME NEW i \in 1..Len(Stack!Chain)
      PROVE  stack_node[Stack!Chain[i]].data \in Stack!Value \cup {NULL}
  <2>1. stack_node[Stack!Chain[i]] \in StackNode
    BY <1>1 DEF StackTypes
  <2> QED BY <2>1 DEF StackNode
<1> QED BY <1>1, <1>2

\* The exchange that succeeds in push puts its value in front of the others.
LEMMA StackPushes ==
    ASSUME StackTypes, StackSound, NEW t \in Stack!Thread, Stack!PushSwaps(t)
    PROVE  /\ StackSound' /\ UNCHANGED answer
           /\ \E v \in Stack!Value : Stack!Values' = <<v>> \o Stack!Values
<1> DEFINE n == stack_new[t]
           s == Stack!Chain
           v == stack_node[n].data
<1>1. /\ stack_pc[t] = "swap" /\ top = oldTop[t] /\ top' = n /\ Stack!Returns(t, "push")
      /\ UNCHANGED <<stack_node, stack_heap, answer, stale>>
  BY DEF Stack!PushSwaps, Stack!TopUnchanged, Stack!history
<1>2. /\ \A u \in Stack!Thread : StackHolds(u)
      /\ n \in stack_heap \ Stack!Nodes /\ n \in Address /\ v \in Stack!Value
      /\ stack_node[n].next = top /\ Pushing(t)
  BY <1>1 DEF StackSound, StackTypes, StackHolds, Pushing
<1>3. /\ stack_pc'[t] = "push"
      /\ \A u \in Stack!Thread : u # t =>
           /\ stack_pc'[u] = stack_pc[u]
           /\ stack_new'[u] = stack_new[u] /\ oldTop'[u] = oldTop[u] /\ newTop'[u] = newTop[u]
  BY <1>1, StackReturns
<1>4. /\ s \in Seq(Address) /\ Len(s) \in Nat /\ DOMAIN Stack!Links = Address
      /\ Stack!Nodes = {s[i] : i \in 1..Len(s)}
      /\ Stack!Links[n] = top /\ Stack!Links' = Stack!Links
      /\ IsPath(Stack!Links, NULL, top, s)
  BY <1>1, <1>2, StackFacts DEF StackSound, StackLinked, Stack!Links
<1>5. /\ Stack!Values \in Seq(Stack!Value \cup {NULL}) /\ Len(Stack!Values) = Len(s)
      /\ \A i \in 1..Len(s) : Stack!Values[i] = stack_node[s[i]].data
  BY StackRow DEF StackSound
<1> HIDE DEF n, s, v
<1>6. IsPath(Stack!Links', NULL, top', <<n>> \o s)
  <2>1. \A i \in 1..Len(s) : s[i] # n
    BY <1>2, <1>4
  <2> QED BY <1>1, <1>2, <1>4, <2>1, PathPushed
<1>7. PICK r : r = <<n>> \o s
  OBVIOUS
<1>8. /\ StackLinked' /\ Stack!Nodes' = {r[i] : i \in 1..Len(r)}
      /\ Stack!Values' = [i \in 1..Len(r) |-> stack_node'[r[i]].data]
  BY <1>6, <1>7, StackChainNext
<1>9. /\ r \in Seq(Address) /\ Len(r) = Len(s) + 1 /\ r[1] = n
      /\ \A k \in 1..Len(s) : r[k + 1] = s[k]
  BY <1>2, <1>4, <1>7, ConcatProperties
<1>10. Stack!Nodes' = Stack!Nodes \cup {n}
  <2>1. \A k \in 1..Len(s) : k + 1 \in 1..Len(r)
    BY <1>4, <1>9
  <2>2. 1 \in 1..Len(r)
    BY <1>4, <1>9
  <2>3. ASSUME NEW a \in Stack!Nodes PROVE a \in Stack!Nodes'
    <3>1. PICK k \in 1..Len(s) : a = s[k]
      BY <1>4
    <3>2. k + 1 \in 1..Len(r) /\ r[k + 1] = a
      BY <1>9, <2>1, <3>1
    <3> QED BY <1>8, <3>2
  <2>4. ASSUME NEW a \in Stack!Nodes', a # n PROVE a \in Stack!Nodes
    <3>1. PICK k \in 1..Len(r) : a = r[k]
      BY <1>8
    <3>2. k # 1
      BY <1>9, <2>4, <3>1
    <3>3. k - 1 \in 1..Len(s) /\ (k - 1) + 1 = k
      BY <1>4, <1>9, <3>2
    <3>4. a = s[k - 1]
      BY <1>9, <3>1, <3>3
    <3> QED BY <1>4, <3>3, <3>4
  <2>5. n \in Stack!Nodes'
    BY <1>8, <1>9, <2>2
  <2> QED BY <2>3, <2>4, <2>5
<1>11. Stack!Values' = <<v>> \o Stack!Values
  <2>1. PICK w : w = Stack!Values
    OBVIOUS
  <2>2. PICK y : y = Stack!Values'
    OBVIOUS
  <2>3. y = [i \in 1..(Len(w) + 1) |-> stack_node[r[i]].data]
    BY <1>1, <1>5, <1>8, <1>9, <2>1, <2>2
  <2>4. ASSUME NEW i \in 1..(Len(w) + 1) PROVE stack_node[r[i]].data \in Stack!Value \cup {NULL}
    <3>1. r[i] \in Address
      BY <1>5, <1>9, <2>1
    <3> QED BY <3>1 DEF StackTypes, StackNode
  <2>5. y \in [1..(Len(w) + 1) -> Stack!Value \cup {NULL}]
    BY <2>3, <2>4
  <2>6. w \in Seq(Stack!Value \cup {NULL}) /\ Len(w) \in Nat /\ v \in Stack!Value \cup {NULL}
    BY <1>2, <1>5, <2>1
  <2>7. y[1] = v
    <3>1. 1 \in 1..(Len(w) + 1)
      BY <2>6
    <3> QED BY <1>9, <2>3, <3>1 DEF v
  <2>8. ASSUME NEW k \in 1..Len(w) PROVE y[k + 1] = w[k]
    <3>1. k + 1 \in 1..(Len(w) + 1) /\ k \in 1..Len(s)
      BY <1>5, <2>1, <2>6
    <3> QED BY <1>5, <1>9, <2>1, <2>3, <3>1
  <2>9. y = <<v>> \o w
    BY <2>5, <2>6, <2>7, <2>8, RowWithHead
  <2> QED BY <2>1, <2>2, <2>9
<1>12. \A u \in Stack!Thread : u # t => /\ Pushing(u)' <=> Pushing(u)
                                        /\ Trusting(u)' <=> Trusting(u)
                                        /\ \A a : StackOwns(u, a)' <=> StackOwns(u, a)
  BY <1>1, <1>3 DEF Pushing, Trusting, StackOwns
<1>13. ~Pushing(t)' /\ \A a : ~StackOwns(t, a)' /\ (StackOwns(t, a) <=> a = n)
  BY <1>1, <1>2, <1>3 DEF Pushing, StackOwns, n
<1>14. \A u \in Stack!Thread : StackHolds(u)'
  <2>1. StackHolds(t)'
    BY <1>3 DEF StackHolds, Pushing, Trusting
  <2>2. ASSUME NEW u \in Stack!Thread, u # t PROVE StackHolds(u)'
    <3>1. /\ StackHolds(u) /\ stack_pc'[u] = stack_pc[u]
          /\ stack_new'[u] = stack_new[u] /\ oldTop'[u] = oldTop[u] /\ newTop'[u] = newTop[u]
      BY <1>2, <1>3, <2>2
    <3>2. \A a \in Address : ~(StackOwns(u, a) /\ StackOwns(t, a))
      BY <2>2 DEF StackSound, StackHeap
    <3>3. (Pushing(u) => stack_new[u] # n) /\ (stack_pc[u] = "free" => oldTop[u] # n)
      BY <1>2, <1>13, <3>2 DEF StackOwns
    <3>4. \A w \in Stack!Thread : Pushing(w)' => Pushing(w) /\ stack_new'[w] = stack_new[w]
      BY <1>3, <1>12, <1>13
    <3> QED BY <1>1, <1>10, <1>12, <2>2, <3>1, <3>3, <3>4 DEF StackHolds
  <2> QED BY <2>1, <2>2
<1>15. StackHeap'
  <2>1. \A a \in stack_heap : a \in Stack!Nodes' \/ \E u \in Stack!Thread : StackOwns(u, a)'
    BY <1>10, <1>12, <1>13 DEF StackSound, StackHeap
  <2>2. Stack!Nodes' \subseteq stack_heap'
    BY <1>1, <1>2, <1>10 DEF StackSound, StackHeap
  <2>3. \A u, w \in Stack!Thread : u # w => \A a \in Address : ~(StackOwns(u, a)' /\ StackOwns(w, a)')
    BY <1>12, <1>13 DEF StackSound, StackHeap
  <2> QED BY <1>1, <2>1, <2>2, <2>3 DEF StackHeap
<1> QED BY <1>1, <1>2, <1>8, <1>11, <1>14, <1>15 DEF StackSound

\* The exchange that succeeds in pop, on a node that was not freed since it was loaded,
\* takes the first value out: the node after the top is the one that was read.
LEMMA StackPops ==
    ASSUME StackTypes, StackSound, NEW t \in Stack!Thread, Stack!PopSwaps(t), ~aba'
    PROVE  /\ StackSound' /\ Stack!Values # <<>>
           /\ answer' = Head(Stack!Values) /\ Stack!Values' = Tail(Stack!Values)
<1> DEFINE s == Stack!Chain
<1>1. /\ stack_pc[t] = "unlink" /\ top = oldTop[t] /\ top' = newTop[t] /\ t \notin stale
      /\ answer' = stack_node[oldTop[t]].data
      /\ stack_pc' = [stack_pc EXCEPT ![t] = "free"] /\ stale' = stale \ {t}
      /\ UNCHANGED <<stack_node, stack_heap, stack_new, oldTop, newTop>>
  BY DEF Stack!PopSwaps, Stack!TopUnchanged, Stack!Goto, Stack!locals
<1>2. /\ \A u \in Stack!Thread : StackHolds(u)
      /\ Trusting(t) /\ ~Pushing(t) /\ newTop[t] = stack_node[top].next
      /\ top \in Address /\ top # NULL
  BY <1>1, NamesAssumption DEF StackSound, StackTypes, StackHolds, Trusting, Pushing
<1>3. /\ stack_pc'[t] = "free"
      /\ \A u \in Stack!Thread : u # t => stack_pc'[u] = stack_pc[u]
  BY <1>1 DEF StackTypes
<1>4. /\ s \in Seq(Address) /\ Len(s) \in Nat /\ DOMAIN Stack!Links = Address
      /\ Stack!Nodes = {s[i] : i \in 1..Len(s)}
      /\ \A a \in Address : Stack!Links[a] = stack_node[a].next
      /\ IsPath(Stack!Links, NULL, top, s)
  BY StackFacts DEF StackSound, StackLinked
<1>5. /\ Stack!Values \in Seq(Stack!Value \cup {NULL}) /\ Len(Stack!Values) = Len(s)
      /\ \A i \in 1..Len(s) : Stack!Values[i] = stack_node[s[i]].data
  BY StackRow DEF StackSound
<1>6. top \in Stack!Nodes /\ top \in stack_heap
  BY <1>2, StackTop
<1> HIDE DEF s
<1>7. PICK r : r = Tail(s)
  OBVIOUS
<1>8. /\ s # <<>> /\ Len(s) \in Nat \ {0} /\ s[1] = top
      /\ IsPath(Stack!Links, NULL, Stack!Links[top], r)
      /\ \A i \in 1..Len(r) : r[i] = s[i + 1] /\ r[i] # top
      /\ {r[i] : i \in 1..Len(r)} = Stack!Nodes \ {top}
  <2>1. /\ s # <<>> /\ s[1] = top
        /\ IsPath(Stack!Links, NULL, Stack!Links[top], Tail(s))
        /\ \A i \in 1..Len(Tail(s)) : Tail(s)[i] = s[i + 1] /\ Tail(s)[i] # top
        /\ {Tail(s)[i] : i \in 1..Len(Tail(s))} = {s[i] : i \in 1..Len(s)} \ {top}
    BY <1>2, <1>4, PathPopped
  <2>2. Len(s) \in Nat \ {0}
    BY <1>4, <2>1
  <2>3. {Tail(s)[i] : i \in 1..Len(Tail(s))} = Stack!Nodes \ {top}
    BY <1>4, <2>1
  <2> QED BY ONLY <1>7, <2>1, <2>2, <2>3
<1>9. IsPath(Stack!Links', NULL, top', r)
  <2>1. Stack!Links' = Stack!Links
    BY <1>1 DEF Stack!Links
  <2>2. top' = Stack!Links[top]
    BY <1>1, <1>2, <1>4
  <2> QED BY <1>8, <2>1, <2>2
<1>10. /\ StackLinked' /\ Stack!Nodes' = Stack!Nodes \ {top}
       /\ Stack!Values' = [i \in 1..Len(r) |-> stack_node[r[i]].data]
  BY <1>1, <1>8, <1>9, StackChainNext
<1>11. /\ Stack!Values # <<>> /\ answer' = Head(Stack!Values)
       /\ Stack!Values' = Tail(Stack!Values)
  <2>1. PICK w : w = Stack!Values
    OBVIOUS
  <2>2. /\ w \in Seq(Stack!Value \cup {NULL}) /\ Len(w) = Len(s)
        /\ \A i \in 1..Len(s) : w[i] = stack_node[s[i]].data
    BY <1>5, <2>1
  <2>3. w # <<>> /\ Head(w) = stack_node[top].data
    BY <1>8, <2>2
  <2>4. Len(r) = Len(s) - 1 /\ r \in Seq(Address)
    BY <1>4, <1>7, <1>8, HeadTailProperties
  <2>5. PICK z : z = Stack!Values'
    OBVIOUS
  <2>6. z \in [1..(Len(w) - 1) -> Stack!Value \cup {NULL}]
    <3>1. \A i \in 1..Len(r) : stack_node[r[i]].data \in Stack!Value \cup {NULL}
      BY <2>4 DEF StackTypes, StackNode
    <3>2. Len(w) - 1 = Len(r)
      BY <2>2, <2>4
    <3> QED BY <1>10, <2>5, <3>1, <3>2
  <2>7. ASSUME NEW k \in 1..(Len(w) - 1) PROVE z[k] = w[k + 1]
    <3>1. k \in 1..Len(r) /\ k + 1 \in 1..Len(s)
      BY <1>4, <2>2, <2>4
    <3> QED BY <1>8, <1>10, <2>2, <2>5, <3>1
  <2>8. Len(w) > 0
    BY <1>8, <2>2
  <2>9. z = Tail(w)
    BY <2>2, <2>6, <2>7, <2>8, RowWithoutHead
  <2> QED BY <1>1, <2>1, <2>3, <2>5, <2>9
<1>12. \A u \in Stack!Thread : u # t => /\ Pushing(u)' <=> Pushing(u)
                                        /\ Trusting(u)' <=> Trusting(u)
                                        /\ \A a : StackOwns(u, a)' <=> StackOwns(u, a)
  BY <1>1, <1>3 DEF Pushing, Trusting, StackOwns
<1>13. ~Pushing(t)' /\ ~Trusting(t)' /\ \A a : ~StackOwns(t, a) /\ (StackOwns(t, a)' <=> a = top)
  BY <1>1, <1>3 DEF Pushing, Trusting, StackOwns
<1>14. \A u \in Stack!Thread : StackHolds(u)'
  <2>1. StackHolds(t)'
    BY <1>1, <1>3, <1>6, <1>10, <1>13 DEF StackHolds
  <2>2. ASSUME NEW u \in Stack!Thread, u # t PROVE StackHolds(u)'
    <3>1. StackHolds(u) /\ stack_pc'[u] = stack_pc[u]
      BY <1>2, <1>3, <2>2
    <3>2. \A w \in Stack!Thread : Pushing(w)' => Pushing(w)
      BY <1>12, <1>13
    <3> QED BY <1>1, <1>10, <1>12, <2>2, <3>1, <3>2 DEF StackHolds
  <2> QED BY <2>1, <2>2
<1>15. StackHeap'
  <2>1. \A a \in stack_heap : a \in Stack!Nodes' \/ \E u \in Stack!Thread : StackOwns(u, a)'
    BY <1>10, <1>12, <1>13 DEF StackSound, StackHeap
  <2>2. Stack!Nodes' \subseteq stack_heap'
    BY <1>1, <1>10 DEF StackSound, StackHeap
  <2>3. \A u \in Stack!Thread : u # t => ~StackOwns(u, top)
    BY <1>2, <1>6 DEF StackOwns, StackHolds
  <2>4. \A u, w \in Stack!Thread : u # w => \A a \in Address : ~(StackOwns(u, a)' /\ StackOwns(w, a)')
    BY <1>12, <1>13, <2>3 DEF StackSound, StackHeap
  <2> QED BY <1>1, <2>1, <2>2, <2>4 DEF StackHeap
<1> QED BY <1>10, <1>11, <1>14, <1>15 DEF StackSound

\* A node that was popped is given back, and who has loaded its address holds it stale.
LEMMA StackFrees ==
    ASSUME StackTypes, StackSound, NEW t \in Stack!Thread, Stack!PopFrees(t)
    PROVE  StackSound' /\ UNCHANGED <<Stack!Values, answer>>
<1> DEFINE n == oldTop[t]
<1>1. /\ stack_pc[t] = "free" /\ stack_heap' = stack_heap \ {n}
      /\ stale' = stale \cup {u \in Stack!Thread : stack_pc[u] \in {"next", "unlink"} /\ oldTop[u] = n}
      /\ UNCHANGED <<top, stack_node, answer>> /\ Stack!Returns(t, "pop")
  BY DEF Stack!PopFrees, Stack!Frees, Stack!Holding
<1>2. /\ \A u \in Stack!Thread : StackHolds(u)
      /\ n \in stack_heap \ Stack!Nodes
  BY <1>1 DEF StackSound, StackHolds
<1>3. /\ stack_pc'[t] = "pop"
      /\ \A u \in Stack!Thread : u # t =>
           /\ stack_pc'[u] = stack_pc[u]
           /\ stack_new'[u] = stack_new[u] /\ oldTop'[u] = oldTop[u] /\ newTop'[u] = newTop[u]
  BY <1>1, StackReturns
<1>4. StackLinked' /\ Stack!Nodes' = Stack!Nodes /\ Stack!Values' = Stack!Values
  BY <1>1, StackChainKept DEF StackSound
<1> HIDE DEF n
<1>5. \A u \in Stack!Thread : u # t => /\ Pushing(u)' <=> Pushing(u)
                                       /\ Trusting(u)' => Trusting(u) /\ oldTop[u] # n
                                       /\ \A a : StackOwns(u, a)' <=> StackOwns(u, a)
  BY <1>1, <1>3 DEF Pushing, Trusting, StackOwns
<1>6. ~Pushing(t)' /\ ~Trusting(t)' /\ \A a : ~StackOwns(t, a)' /\ (StackOwns(t, a) <=> a = n)
  BY <1>1, <1>3 DEF Pushing, Trusting, StackOwns, n
<1>7. \A u \in Stack!Thread : u # t => ~StackOwns(u, n)
  BY <1>2, <1>6 DEF StackSound, StackHeap, StackTypes
<1>8. \A u \in Stack!Thread : StackHolds(u)'
  <2>1. StackHolds(t)'
    BY <1>3, <1>6 DEF StackHolds
  <2>2. ASSUME NEW u \in Stack!Thread, u # t PROVE StackHolds(u)'
    <3>1. /\ StackHolds(u) /\ stack_pc'[u] = stack_pc[u]
          /\ stack_new'[u] = stack_new[u] /\ oldTop'[u] = oldTop[u] /\ newTop'[u] = newTop[u]
      BY <1>2, <1>3, <2>2
    <3>2. (Pushing(u) => stack_new[u] # n) /\ (stack_pc[u] = "free" => oldTop[u] # n)
      BY <1>7, <2>2 DEF StackOwns
    <3>3. \A w \in Stack!Thread : Pushing(w)' => Pushing(w) /\ stack_new'[w] = stack_new[w]
      BY <1>3, <1>5, <1>6
    <3> QED BY <1>1, <1>4, <1>5, <2>2, <3>1, <3>2, <3>3 DEF StackHolds
  <2> QED BY <2>1, <2>2
<1>9. StackHeap'
  <2>1. \A a \in stack_heap' : a \in Stack!Nodes' \/ \E u \in Stack!Thread : StackOwns(u, a)'
    BY <1>1, <1>4, <1>5, <1>6 DEF StackSound, StackHeap
  <2>2. Stack!Nodes' \subseteq stack_heap'
    BY <1>1, <1>2, <1>4 DEF StackSound, StackHeap
  <2>3. \A u, w \in Stack!Thread : u # w => \A a \in Address : ~(StackOwns(u, a)' /\ StackOwns(w, a)')
    BY <1>5, <1>6 DEF StackSound, StackHeap
  <2> QED BY <2>1, <2>2, <2>3 DEF StackHeap
<1> QED BY <1>1, <1>4, <1>8, <1>9 DEF StackSound

\* What each step does to the stack.
LEMMA StackStep ==
    ASSUME StackInv, [Stack!Next]_stack_vars
    PROVE  StackInv' /\ (Stack!Stack!Next \/ aba' \/ UNCHANGED <<Stack!Values, answer>>)
<1>1. CASE UNCHANGED stack_vars
  <2>1. StackTypes'
    BY <1>1 DEF stack_vars, StackInv, StackTypes, Pushing
  <2>2. StackLinked => StackLinked' /\ Stack!Nodes' = Stack!Nodes /\ Stack!Values' = Stack!Values
    BY <1>1, StackChainKept DEF stack_vars
  <2>3. StackSound => StackSound'
    <3> SUFFICES ASSUME StackSound PROVE StackSound'
      OBVIOUS
    <3>1. \A u \in Stack!Thread : StackHolds(u)'
      BY <1>1, <2>2 DEF stack_vars, StackSound, StackHolds, Pushing, Trusting
    <3>2. StackHeap'
      BY <1>1, <2>2 DEF stack_vars, StackSound, StackHeap, StackOwns, Pushing
    <3> QED BY <2>2, <3>1, <3>2 DEF StackSound
  <2> QED BY <1>1, <2>1, <2>2, <2>3 DEF stack_vars, StackInv, StackSound
<1>2. ASSUME NEW t \in Stack!Thread, Stack!Step(t)
      PROVE  StackInv' /\ (Stack!Stack!Next \/ aba' \/ UNCHANGED <<Stack!Values, answer>>)
  <2>1. StackTypes /\ StackTypes' /\ (aba => aba')
    BY <1>2, StackTypesKept DEF StackInv
  <2>2. CASE aba'
    BY <2>1, <2>2 DEF StackInv
  <2>3. ASSUME ~aba'
        PROVE  StackSound' /\ (Stack!Stack!Next \/ UNCHANGED <<Stack!Values, answer>>)
    <3>1. StackSound
      BY <2>1, <2>3 DEF StackInv
    <3>2. CASE Stack!PushSwaps(t)
      BY <2>1, <3>1, <3>2, StackPushes DEF Stack!Stack!Next, Stack!Stack!Push
    <3>3. CASE Stack!PopFindsEmpty(t)
      BY <2>1, <3>1, <3>3, StackFindsEmpty DEF Stack!Stack!Next, Stack!Stack!PopFails
    <3>4. CASE Stack!PopSwaps(t)
      BY <2>1, <2>3, <3>1, <3>4, StackPops DEF Stack!Stack!Next, Stack!Stack!Pop
    <3>5. CASE Stack!create_node(t)
      BY <2>1, <3>1, <3>5, StackCreates
    <3>6. CASE Stack!PushLoadsTop(t)
      BY <2>1, <3>1, <3>6, StackLoads
    <3>7. CASE Stack!PopFrees(t)
      BY <2>1, <3>1, <3>7, StackFrees
    <3> QED BY <1>2, <2>1, <3>1, <3>2, <3>3, <3>4, <3>5, <3>6, <3>7, StackQuietSteps DEF Stack!Step
  <2> QED BY <2>1, <2>2, <2>3 DEF StackInv
<1>3. CASE Stack!AllReturned /\ UNCHANGED Stack!vars
  BY <1>1, <1>3 DEF Stack!vars, Stack!locals, Stack!history, stack_vars
<1> QED BY <1>1, <1>2, <1>3 DEF Stack!Next

\* What the invariant says of the heap, in the words of the model.
LEMMA StackHeapSound == ASSUME StackInv PROVE Stack!NothingLeaks
<1> SUFFICES ASSUME ~aba PROVE Stack!NothingLeaks
  BY DEF Stack!NothingLeaks
<1>1. StackTypes /\ StackSound
  BY DEF StackInv
<1>2. ASSUME NEW t \in Stack!Thread
      PROVE  /\ Pushing(t) => Stack!Owns(t) = {stack_new[t]}
             /\ stack_pc[t] = "free" => Stack!Owns(t) = {oldTop[t]}
             /\ ~Pushing(t) /\ stack_pc[t] # "free" => Stack!Owns(t) = {}
  <2>1. stack_pc[t] \in {"load", "swap"} => stack_pc[t] # "free"
    OBVIOUS
  <2> QED BY Zenon, <2>1 DEF Stack!Owns, Pushing
<1>3. \A t \in Stack!Thread : \A a : a \in Stack!Owns(t) <=> StackOwns(t, a)
  BY <1>2 DEF StackOwns, Pushing
<1>4. \A t \in Stack!Thread : \A a : StackOwns(t, a) => a \in stack_heap \ Stack!Nodes /\ a \in Address
  BY <1>1 DEF StackOwns, StackSound, StackHolds, StackTypes
<1>5. stack_heap = Stack!Nodes \cup UNION {Stack!Owns(t) : t \in Stack!Thread}
  <2>1. ASSUME NEW a \in stack_heap, a \notin Stack!Nodes PROVE \E t \in Stack!Thread : a \in Stack!Owns(t)
    BY <1>1, <1>3, <2>1 DEF StackSound, StackHeap
  <2>2. ASSUME NEW t \in Stack!Thread PROVE Stack!Owns(t) \subseteq stack_heap
    BY <1>3, <1>4
  <2>3. Stack!Nodes \subseteq stack_heap
    BY <1>1 DEF StackSound, StackHeap
  <2> QED BY <2>1, <2>2, <2>3
<1>6. \A t \in Stack!Thread : Stack!Owns(t) \cap Stack!Nodes = {}
  BY <1>3, <1>4
<1>7. \A t, u \in Stack!Thread : t # u => Stack!Owns(t) \cap Stack!Owns(u) = {}
  BY <1>1, <1>3, <1>4 DEF StackSound, StackHeap
<1> QED BY <1>5, <1>6, <1>7 DEF Stack!NothingLeaks

\* The type invariant of the stack.
LEMMA StackTyped == ASSUME StackInv PROVE Stack!TypeOK
<1>1. StackTypes
  BY DEF StackInv
<1>2. stale \subseteq Stack!Holding(Address)
  BY <1>1 DEF StackTypes, Stack!Holding
<1> QED BY <1>1, <1>2 DEF Stack!TypeOK, StackTypes
-----------------------------------------------------------------------------
(* The queue of lockfree_queue.cpp. *)

QueueCell == [data : Queue!Item \cup {NULL}, next : Address \cup {NULL}]

InEnqueue == {"tail", "tail_next", "same_tail", "link", "swing"}
InDequeue == {"head_tail", "head_next", "same_head", "take", "delete"}
QueuePlaces ==
    /\ queue_pc \in [Caller -> InEnqueue \cup InDequeue \cup {"call", "help"}]
    /\ q_at \in [Caller -> 1..(MaxCalls + 1)]
    /\ q_program \in QueuePrograms
    /\ \A t \in Caller :
          /\ queue_pc[t] # "call" => Queue!Runs(t)
          /\ queue_pc[t] \in InEnqueue => Queue!Calls(t, "enqueue")
          /\ queue_pc[t] \in InDequeue => Queue!Calls(t, "dequeue")

\* The types, which hold whatever was read at an address that was deleted.
QueueCells ==
    /\ head \in Address \cup {NULL} /\ tail \in Address \cup {NULL}
    /\ queue_node \in [Address -> QueueCell]
    /\ queue_heap \subseteq Address
    /\ queue_new \in [Caller -> Address \cup {NULL}]
    /\ headNode \in [Caller -> Address \cup {NULL}]
    /\ tailNode \in [Caller -> Address \cup {NULL}]
    /\ queue_next \in [Caller -> Address \cup {NULL}]
    /\ q_stale \subseteq Caller /\ misled \in BOOLEAN

QueueTypes == QueuePlaces /\ QueueCells

QueueLinked == IsPath(Queue!Links, NULL, head, Queue!Chain) /\ head # NULL
QueueNodes == {Queue!Chain[i] : i \in 1..Len(Queue!Chain)}
After(a) == queue_node[a].next

\* The tail is the last node or the last but one.
QueueTail == tail \in QueueNodes /\ (After(tail) = NULL \/ After(After(tail)) = NULL)

\* The node of an enqueuer is its own until it is linked, that of a dequeuer once it
\* has made another one the dummy.
Keeping(t) == \/ queue_pc[t] \in {"tail", "tail_next", "same_tail", "link"}
              \/ queue_pc[t] = "help" /\ Queue!Calls(t, "enqueue")
QueueOwns(t, a) == \/ Keeping(t) /\ a = queue_new[t]
                   \/ queue_pc[t] = "delete" /\ a = headNode[t]

QueueOwned(t) ==
    /\ Keeping(t) => /\ queue_new[t] \in queue_heap \ QueueNodes
                     /\ queue_node[queue_new[t]].data \in Queue!Item
                     /\ After(queue_new[t]) = NULL
    /\ queue_pc[t] = "delete" => headNode[t] \in queue_heap \ QueueNodes /\ After(headNode[t]) # NULL

\* An address that was loaded from the tail and is still that of the same node.  The
\* node was not linked after the one that is the tail now.
Unlinked(a) == \E u \in Caller : Keeping(u) /\ queue_new[u] = a
OnTail(t) == queue_pc[t] \in {"tail_next", "same_tail", "link", "swing", "help"} /\ t \notin q_stale
QueueAtTail(t) ==
    OnTail(t) =>
    /\ tailNode[t] \in queue_heap /\ ~Unlinked(tailNode[t]) /\ tailNode[t] # After(tail)
    /\ queue_pc[t] = "same_tail" /\ queue_next[t] # NULL => queue_next[t] = After(tailNode[t])
    /\ queue_pc[t] = "help" => queue_next[t] # NULL /\ queue_next[t] = After(tailNode[t])
    /\ queue_pc[t] = "swing" => queue_new[t] # NULL /\ queue_new[t] = After(tailNode[t])

\* An address that was loaded from the head and is still that of the same node.  Either
\* it is the head, which the tail has not fallen behind, or it is no longer in the queue.
OnHead(t) == queue_pc[t] \in {"head_tail", "head_next", "same_head", "take"} /\ t \notin q_stale
QueueAtHead(t) ==
    OnHead(t) =>
    /\ headNode[t] \in queue_heap /\ ~Unlinked(headNode[t])
    /\ headNode[t] = head \/ headNode[t] \notin QueueNodes
    /\ headNode[t] = head =>
         /\ queue_pc[t] \in {"head_next", "same_head"} /\ tailNode[t] # head => tail # head
         /\ queue_pc[t] = "same_head" => \/ queue_next[t] = After(head)
                                         \/ queue_next[t] = NULL /\ tailNode[t] = head
         /\ queue_pc[t] = "take" => tail # head /\ queue_next[t] = After(head)

QueueHeap ==
    /\ QueueNodes \subseteq queue_heap
    /\ \A a \in queue_heap : a \in QueueNodes \/ \E t \in Caller : QueueOwns(t, a)
    /\ \A t, u \in Caller : t # u => \A a \in Address : ~(QueueOwns(t, a) /\ QueueOwns(u, a))

QueueWell == /\ QueueLinked /\ QueueTail /\ QueueHeap
             /\ \A t \in Caller : QueueOwned(t) /\ QueueAtTail(t) /\ QueueAtHead(t)

\* All of this holds until a thread takes one node for another.
QueueInv == QueueTypes /\ (~misled => QueueWell)

\* What is meant by the walk of the model is the walk of the lemmas.
LEMMA QueueWalk ==
    ASSUME NEW links, DOMAIN links = Address, NEW a, NEW s, IsPath(links, NULL, a, s)
    PROVE  Queue!NodesFrom(links, NULL, a) = s
<1>1. NodesFrom(links, NULL, a) = s
  BY NamesAssumption, SizesAssumption, PathIsWalked
<1>2. Queue!NodesFrom(links, NULL, a) = NodesFrom(links, NULL, a)
  BY DEF Queue!NodesFrom, NodesFrom, Queue!Cardinality, Cardinality
<1> QED BY <1>1, <1>2

\* What follows from a path that the links make.
LEMMA QueueChain ==
    ASSUME NEW s, IsPath(Queue!Links, NULL, head, s), head # NULL
    PROVE  /\ Queue!Chain = s /\ QueueLinked
           /\ QueueNodes = {s[i] : i \in 1..Len(s)}
           /\ Queue!Items = [i \in 1..(Len(s) - 1) |-> queue_node[s[i + 1]].data]
<1>1. DOMAIN Queue!Links = Address
  BY DEF Queue!Links
<1>2. Queue!Chain = s
  BY <1>1, QueueWalk DEF Queue!Chain
<1> QED BY <1>1, <1>2 DEF QueueLinked, QueueNodes, Queue!Items

\* The same of the next state.
LEMMA QueueChainNext ==
    ASSUME NEW s, IsPath(Queue!Links', NULL, head', s), head' # NULL
    PROVE  /\ Queue!Chain' = s /\ QueueLinked'
           /\ QueueNodes' = {s[i] : i \in 1..Len(s)}
           /\ Queue!Items' = [i \in 1..(Len(s) - 1) |-> queue_node'[s[i + 1]].data]
<1>1. DOMAIN Queue!Links' = Address
  BY DEF Queue!Links
<1>2. Queue!Chain' = s
  BY <1>1, QueueWalk DEF Queue!Chain
<1> QED BY <1>1, <1>2 DEF QueueLinked, QueueNodes, Queue!Items

\* The chain as a sequence of addresses, and which of its nodes has none after it.
LEMMA QueueFacts ==
    ASSUME QueueLinked
    PROVE  /\ Queue!Chain \in Seq(Address) /\ Len(Queue!Chain) \in Nat \ {0}
           /\ Queue!Chain[1] = head /\ head \in QueueNodes /\ QueueNodes \subseteq Address
           /\ DOMAIN Queue!Links = Address
           /\ \A a \in Address : Queue!Links[a] = After(a)
           /\ QueueNodes = {Queue!Chain[i] : i \in 1..Len(Queue!Chain)}
           /\ Queue!Items = [i \in 1..(Len(Queue!Chain) - 1) |-> queue_node[Queue!Chain[i + 1]].data]
           /\ \A a \in QueueNodes :
                 /\ After(a) = NULL <=> a = Queue!Chain[Len(Queue!Chain)]
                 /\ After(a) # NULL => After(a) \in QueueNodes /\ After(a) # head /\ After(a) # a
<1>1. DOMAIN Queue!Links = Address /\ \A a \in Address : Queue!Links[a] = After(a)
  BY DEF Queue!Links, After
<1>2. Queue!Chain \in Seq(Address) /\ IsPath(Queue!Links, NULL, head, Queue!Chain) /\ head # NULL
  BY <1>1 DEF QueueLinked, IsPath
<1>4. Len(Queue!Chain) \in Nat \ {0} /\ Queue!Chain[1] = head
  BY <1>2, PathPopped
<1>5. \A i \in 1..Len(Queue!Chain) : Queue!Chain[i] \in Address
  BY <1>2
<1>6. ASSUME NEW a \in QueueNodes
      PROVE  /\ After(a) = NULL <=> a = Queue!Chain[Len(Queue!Chain)]
             /\ After(a) # NULL => After(a) \in QueueNodes /\ After(a) # head /\ After(a) # a
  <2>1. NULL \notin DOMAIN Queue!Links /\ a \in Address
    BY <1>1, <1>5, NamesAssumption DEF QueueNodes
  <2>2. a \in {Queue!Chain[i] : i \in 1..Len(Queue!Chain)}
    BY DEF QueueNodes
  <2>3. /\ Queue!Links[a] = NULL <=> a = Queue!Chain[Len(Queue!Chain)]
        /\ Queue!Links[a] # NULL => /\ Queue!Links[a] \in {Queue!Chain[i] : i \in 1..Len(Queue!Chain)}
                                    /\ Queue!Links[a] # head /\ Queue!Links[a] # a
    BY <1>2, <2>1, <2>2, PathNext
  <2> QED BY <1>1, <2>1, <2>3 DEF QueueNodes
<1>7. head \in QueueNodes
  BY <1>4 DEF QueueNodes
<1> QED BY <1>1, <1>2, <1>4, <1>5, <1>6, <1>7 DEF QueueNodes, Queue!Items

\* The chain stays if the head does and the nodes of the chain do.
LEMMA QueueChainKept ==
    ASSUME QueueLinked, head' = head,
           \A a \in QueueNodes : queue_node'[a] = queue_node[a]
    PROVE  /\ QueueLinked' /\ QueueNodes' = QueueNodes /\ Queue!Items' = Queue!Items
           /\ \A a \in QueueNodes : After(a)' = After(a)
<1> DEFINE s == Queue!Chain
<1>1. /\ s \in Seq(Address) /\ Len(s) \in Nat /\ DOMAIN Queue!Links = Address
      /\ QueueNodes = {s[i] : i \in 1..Len(s)}
      /\ \A a \in Address : Queue!Links[a] = After(a)
      /\ Queue!Items = [i \in 1..(Len(s) - 1) |-> queue_node[s[i + 1]].data]
  BY QueueFacts
<1>2. DOMAIN Queue!Links' = Address /\ \A a \in Address : Queue!Links'[a] = queue_node'[a].next
  BY DEF Queue!Links
<1>3. ASSUME NEW i \in 1..Len(s) PROVE s[i] \in Address /\ queue_node'[s[i]] = queue_node[s[i]]
  BY <1>1
<1>4. IsPath(Queue!Links, NULL, head, s) /\ head # NULL
  BY DEF QueueLinked
<1> HIDE DEF s
<1>5. \A i \in 1..Len(s) : Queue!Links'[s[i]] = Queue!Links[s[i]]
  BY <1>1, <1>2, <1>3 DEF After
<1>6. IsPath(Queue!Links', NULL, head', s)
  BY <1>1, <1>2, <1>4, <1>5, PathKept
<1>7. /\ QueueLinked' /\ QueueNodes' = {s[i] : i \in 1..Len(s)}
      /\ Queue!Items' = [i \in 1..(Len(s) - 1) |-> queue_node'[s[i + 1]].data]
  BY <1>4, <1>6, QueueChainNext
<1>8. \A i \in 1..(Len(s) - 1) : queue_node'[s[i + 1]] = queue_node[s[i + 1]]
  <2> SUFFICES ASSUME NEW i \in 1..(Len(s) - 1) PROVE queue_node'[s[i + 1]] = queue_node[s[i + 1]]
    OBVIOUS
  <2>1. i + 1 \in 1..Len(s)
    BY <1>1
  <2> QED BY <1>3, <2>1
<1>9. Queue!Items' = Queue!Items
  BY <1>1, <1>7, <1>8
<1> QED BY <1>1, <1>7, <1>9 DEF After

\* A queue of nothing but the dummy.
LEMMA QueueInitially ==
    ASSUME Queue!Init PROVE QueueInv /\ Queue!Items = <<>>
<1> DEFINE d == Queue!Dummy
<1>1. d \in Address /\ d # NULL
  BY SizesAssumption, NamesAssumption DEF Queue!Dummy
<1> HIDE DEF d
<1>2. /\ head = d /\ tail = d /\ queue_heap = {d}
      /\ queue_node = [a \in Address |-> [data |-> NULL, next |-> NULL]]
      /\ q_program \in QueuePrograms /\ q_at = [t \in Caller |-> 1]
      /\ queue_pc = [t \in Caller |-> "call"]
      /\ queue_new = [t \in Caller |-> NULL]
      /\ headNode = [t \in Caller |-> NULL]
      /\ tailNode = [t \in Caller |-> NULL]
      /\ queue_next = [t \in Caller |-> NULL]
      /\ q_stale = {} /\ misled = FALSE
  BY DEF Queue!Init, d
<1>3. QueueTypes
  <2>1. QueuePlaces
    <3>1. 1 \in 1..(MaxCalls + 1) /\ "call" \notin InEnqueue /\ "call" \notin InDequeue
      BY SizesAssumption DEF InEnqueue, InDequeue
    <3> QED BY <1>2, <3>1 DEF QueuePlaces
  <2>2. [data |-> NULL, next |-> NULL] \in QueueCell
    BY DEF QueueCell
  <2> QED BY <1>1, <1>2, <2>1, <2>2 DEF QueueTypes, QueueCells
<1>4. PICK s : s = <<d>>
  OBVIOUS
<1>5. s \in Seq(Address) /\ Len(s) = 1 /\ s[1] = d
  BY <1>1, <1>4
<1>6. IsPath(Queue!Links, NULL, head, s)
  <2>1. DOMAIN Queue!Links = Address /\ Queue!Links[d] = NULL
    BY <1>1, <1>2 DEF Queue!Links
  <2>2. \A i \in 1..(Len(s) - 1) : Queue!Links[s[i]] = s[i + 1]
    BY <1>5
  <2>3. \A i, j \in 1..Len(s) : s[i] = s[j] => i = j
    BY <1>5
  <2> QED BY <1>2, <1>5, <2>1, <2>2, <2>3 DEF IsPath
<1>7. QueueLinked /\ QueueNodes = {d} /\ Queue!Items = <<>>
  <2>1. /\ QueueLinked /\ QueueNodes = {s[i] : i \in 1..Len(s)}
        /\ Queue!Items = [i \in 1..(Len(s) - 1) |-> queue_node[s[i + 1]].data]
    BY <1>1, <1>2, <1>6, QueueChain
  <2>2. QueueNodes = {d}
    BY <1>5, <2>1
  <2>3. Len(s) - 1 = 0
    BY <1>5
  <2>4. Queue!Items = <<>>
    <3>1. Queue!Items = [i \in 1..0 |-> queue_node[s[i + 1]].data]
      BY <2>1, <2>3
    <3>2. Queue!Items \in Seq({}) /\ Len(Queue!Items) = 0
      BY <3>1
    <3> QED BY <3>2
  <2> QED BY <2>1, <2>2, <2>4
<1>8. \A t \in Caller : queue_pc[t] = "call" /\ ~Keeping(t)
  BY <1>2 DEF Keeping
<1>9. After(tail) = NULL
  BY <1>1, <1>2 DEF After
<1>10. QueueTail
  BY <1>2, <1>7, <1>9 DEF QueueTail
<1>11. \A t \in Caller : QueueOwned(t) /\ QueueAtTail(t) /\ QueueAtHead(t)
  BY <1>8 DEF QueueOwned, QueueAtTail, QueueAtHead, OnTail, OnHead
<1>12. QueueHeap
  BY <1>2, <1>7, <1>8 DEF QueueHeap, QueueOwns
<1> QED BY <1>3, <1>7, <1>10, <1>11, <1>12 DEF QueueInv, QueueWell

\* The number of a call is one of those there are.
LEMMA QueueRuns ==
    ASSUME QueuePlaces, NEW t \in Caller, Queue!Runs(t)
    PROVE  q_at[t] \in 1..MaxCalls /\ <<t, q_at[t]>> \in Queue!Item
<1>1. q_at[t] \in 1..(MaxCalls + 1) /\ Len(q_program[t]) <= MaxCalls /\ q_program[t] \in Seq({"enqueue", "dequeue"})
  BY QueueAssumption DEF QueuePlaces
<1>2. q_at[t] <= Len(q_program[t]) /\ Len(q_program[t]) \in Nat
  BY <1>1 DEF Queue!Runs
<1>3. q_at[t] \in 1..MaxCalls
  BY <1>1, <1>2, SizesAssumption
<1> QED BY <1>3 DEF Queue!Item

\* A thread goes to a place of its own call.
LEMMA QueueGoto ==
    ASSUME QueuePlaces, NEW t \in Caller, NEW label, Queue!Goto(t, label), UNCHANGED <<q_program, q_at>>,
           \/ label = "call"
           \/ label = "help" /\ Queue!Runs(t)
           \/ label \in InEnqueue /\ Queue!Calls(t, "enqueue")
           \/ label \in InDequeue /\ Queue!Calls(t, "dequeue")
    PROVE  /\ QueuePlaces' /\ queue_pc'[t] = label
           /\ \A u \in Caller : u # t => queue_pc'[u] = queue_pc[u]
           /\ \A u \in Caller : Queue!Calls(u, "enqueue")' <=> Queue!Calls(u, "enqueue")
<1>1. queue_pc' = [queue_pc EXCEPT ![t] = label]
  BY DEF Queue!Goto
<1>2. /\ "help" \notin InEnqueue /\ "help" \notin InDequeue /\ InEnqueue \cap InDequeue = {}
      /\ "call" \notin InEnqueue /\ "call" \notin InDequeue
  BY DEF InEnqueue, InDequeue
<1>3. /\ queue_pc' \in [Caller -> InEnqueue \cup InDequeue \cup {"call", "help"}] /\ queue_pc'[t] = label
      /\ \A u \in Caller : u # t => queue_pc'[u] = queue_pc[u]
  BY <1>1 DEF QueuePlaces
<1>4. \A u \in Caller : /\ Queue!Runs(u)' <=> Queue!Runs(u)
                        /\ Queue!Calls(u, "enqueue")' <=> Queue!Calls(u, "enqueue")
                        /\ Queue!Calls(u, "dequeue")' <=> Queue!Calls(u, "dequeue")
  BY DEF Queue!Runs, Queue!Calls
<1>5. ASSUME NEW u \in Caller
      PROVE  /\ queue_pc'[u] # "call" => Queue!Runs(u)
             /\ queue_pc'[u] \in InEnqueue => Queue!Calls(u, "enqueue")
             /\ queue_pc'[u] \in InDequeue => Queue!Calls(u, "dequeue")
  <2>1. CASE u # t
    BY <1>3, <2>1 DEF QueuePlaces
  <2>2. CASE u = t
    BY <1>2, <1>3, <2>2 DEF Queue!Calls
  <2> QED BY <2>1, <2>2
<1> QED BY <1>3, <1>4, <1>5 DEF QueuePlaces

\* A thread that returns has made one more call; the others stay where they are.
LEMMA QueueReturns ==
    ASSUME QueuePlaces, QueueCells, NEW t \in Caller, queue_pc[t] # "call", NEW S, Queue!Returns(t, S)
    PROVE  /\ QueuePlaces' /\ queue_pc'[t] = "call"
           /\ queue_new' \in [Caller -> Address \cup {NULL}]
           /\ headNode' \in [Caller -> Address \cup {NULL}]
           /\ tailNode' \in [Caller -> Address \cup {NULL}]
           /\ queue_next' \in [Caller -> Address \cup {NULL}]
           /\ q_stale' = (q_stale \cup {u \in Caller : Queue!Expects(u) \in S}) \ {t}
           /\ q_stale' \subseteq Caller
           /\ \A u \in Caller : u # t =>
                /\ queue_pc'[u] = queue_pc[u]
                /\ queue_new'[u] = queue_new[u] /\ headNode'[u] = headNode[u]
                /\ tailNode'[u] = tailNode[u] /\ queue_next'[u] = queue_next[u]
                /\ Queue!Calls(u, "enqueue")' <=> Queue!Calls(u, "enqueue")
<1>1. /\ queue_pc' = [queue_pc EXCEPT ![t] = "call"]
      /\ q_at' = [q_at EXCEPT ![t] = @ + 1] /\ q_program' = q_program
      /\ queue_new' = [queue_new EXCEPT ![t] = NULL]
      /\ headNode' = [headNode EXCEPT ![t] = NULL]
      /\ tailNode' = [tailNode EXCEPT ![t] = NULL]
      /\ queue_next' = [queue_next EXCEPT ![t] = NULL]
      /\ q_stale' = (q_stale \cup {u \in Caller : Queue!Expects(u) \in S}) \ {t}
  BY DEF Queue!Returns, Queue!Goto
<1>2. q_at[t] \in 1..MaxCalls
  BY QueueRuns DEF QueuePlaces
<1>3. q_at' \in [Caller -> 1..(MaxCalls + 1)] /\ \A u \in Caller : u # t => q_at'[u] = q_at[u]
  <2>1. q_at[t] + 1 \in 1..(MaxCalls + 1)
    BY <1>2, SizesAssumption
  <2> QED BY <1>1, <2>1 DEF QueuePlaces
<1>4. /\ queue_pc' \in [Caller -> InEnqueue \cup InDequeue \cup {"call", "help"}] /\ queue_pc'[t] = "call"
      /\ \A u \in Caller : u # t => queue_pc'[u] = queue_pc[u]
  BY <1>1 DEF QueuePlaces
<1>5. \A u \in Caller : u # t => /\ Queue!Runs(u)' <=> Queue!Runs(u)
                                 /\ Queue!Calls(u, "enqueue")' <=> Queue!Calls(u, "enqueue")
                                 /\ Queue!Calls(u, "dequeue")' <=> Queue!Calls(u, "dequeue")
  BY <1>1, <1>3 DEF Queue!Runs, Queue!Calls
<1>6. QueuePlaces'
  <2>1. "call" \notin InEnqueue /\ "call" \notin InDequeue
    BY DEF InEnqueue, InDequeue
  <2> QED BY <1>1, <1>3, <1>4, <1>5, <2>1 DEF QueuePlaces
<1> QED BY <1>1, <1>4, <1>5, <1>6 DEF QueueCells


\* What a step of t does to the others: it may make what they expect a node that is gone.
OthersStay(t) ==
    \A u \in Caller : u # t =>
      /\ queue_pc'[u] = queue_pc[u]
      /\ queue_new'[u] = queue_new[u] /\ headNode'[u] = headNode[u]
      /\ tailNode'[u] = tailNode[u] /\ queue_next'[u] = queue_next[u]
      /\ Queue!Calls(u, "enqueue")' <=> Queue!Calls(u, "enqueue")
      /\ u \in q_stale => u \in q_stale'

\* A call that goes on changes no more than one of its locals.
LEMMA QueueGoes ==
    ASSUME QueueTypes, NEW t \in Caller, NEW label, Queue!Goto(t, label), UNCHANGED <<q_program, q_at>>,
           \/ label = "call"
           \/ label = "help" /\ Queue!Runs(t)
           \/ label \in InEnqueue /\ Queue!Calls(t, "enqueue")
           \/ label \in InDequeue /\ Queue!Calls(t, "dequeue"),
           q_stale' = q_stale \/ q_stale' = q_stale \ {t},
           NEW a \in Address \cup {NULL},
           queue_new' = queue_new \/ queue_new' = [queue_new EXCEPT ![t] = a],
           headNode' = headNode \/ headNode' = [headNode EXCEPT ![t] = a],
           tailNode' = tailNode \/ tailNode' = [tailNode EXCEPT ![t] = a],
           queue_next' = queue_next \/ queue_next' = [queue_next EXCEPT ![t] = a]
    PROVE  /\ QueuePlaces' /\ OthersStay(t) /\ queue_pc'[t] = label
           /\ Queue!Calls(t, "enqueue")' <=> Queue!Calls(t, "enqueue")
           /\ queue_new' \in [Caller -> Address \cup {NULL}]
           /\ headNode' \in [Caller -> Address \cup {NULL}]
           /\ tailNode' \in [Caller -> Address \cup {NULL}]
           /\ queue_next' \in [Caller -> Address \cup {NULL}]
           /\ q_stale' \subseteq Caller
<1>1. QueuePlaces /\ QueueCells
  BY DEF QueueTypes
<1>2. /\ QueuePlaces' /\ queue_pc'[t] = label
      /\ \A u \in Caller : u # t => queue_pc'[u] = queue_pc[u]
      /\ \A u \in Caller : Queue!Calls(u, "enqueue")' <=> Queue!Calls(u, "enqueue")
  BY <1>1, QueueGoto
<1>3. /\ queue_new' \in [Caller -> Address \cup {NULL}]
      /\ \A u \in Caller : u # t => queue_new'[u] = queue_new[u]
  BY <1>1 DEF QueueCells
<1>4. /\ headNode' \in [Caller -> Address \cup {NULL}]
      /\ \A u \in Caller : u # t => headNode'[u] = headNode[u]
  BY <1>1 DEF QueueCells
<1>5. /\ tailNode' \in [Caller -> Address \cup {NULL}]
      /\ \A u \in Caller : u # t => tailNode'[u] = tailNode[u]
  BY <1>1 DEF QueueCells
<1>6. /\ queue_next' \in [Caller -> Address \cup {NULL}]
      /\ \A u \in Caller : u # t => queue_next'[u] = queue_next[u]
  BY <1>1 DEF QueueCells
<1>7. q_stale' \subseteq Caller /\ \A u \in Caller : u # t /\ u \in q_stale => u \in q_stale'
  BY <1>1 DEF QueueCells
<1> QED BY <1>2, <1>3, <1>4, <1>5, <1>6, <1>7 DEF OthersStay

\* What is read as the next of a node is an address or null.
LEMMA QueueReads ==
    ASSUME QueueTypes, NEW a, NEW b \in Queue!Reads(a) PROVE b \in Address \cup {NULL}
<1>1. queue_heap \subseteq Address /\ queue_node \in [Address -> QueueCell]
  BY DEF QueueTypes, QueueCells
<1>2. CASE a \in queue_heap
  BY <1>1, <1>2 DEF Queue!Reads, QueueCell
<1>3. CASE a \notin queue_heap
  BY <1>3 DEF Queue!Reads
<1> QED BY <1>2, <1>3

\* An exchange or a comparison that succeeds may be misled; no step takes that back.
LEMMA QueueMisled ==
    ASSUME QueueTypes, NEW t \in Caller, UNCHANGED misled \/ Queue!Finds(t)
    PROVE  misled' \in BOOLEAN /\ (misled => misled')
<1>1. misled \in BOOLEAN
  BY DEF QueueTypes, QueueCells
<1>2. CASE misled' = misled
  BY <1>1, <1>2
<1>3. CASE misled' = (misled \/ t \in q_stale)
  BY <1>1, <1>3, Zenon
<1> QED BY <1>2, <1>3 DEF Queue!Finds

\* The types are kept by every step.
LEMMA QueueTypesKept ==
    ASSUME QueueTypes, NEW t \in Caller, Queue!Step(t)
    PROVE  QueueTypes' /\ OthersStay(t) /\ (misled => misled')
<1> USE DEF Queue!calls, Queue!locals, Queue!history
<1>0. QueuePlaces /\ QueueCells
  BY DEF QueueTypes
<1>1. /\ head \in Address \cup {NULL} /\ tail \in Address \cup {NULL}
      /\ queue_node \in [Address -> QueueCell] /\ queue_heap \subseteq Address
      /\ queue_next[t] \in Address \cup {NULL} /\ queue_new[t] \in Address \cup {NULL}
  BY <1>0 DEF QueueCells
<1>2. /\ queue_pc[t] # "call" => Queue!Runs(t)
      /\ queue_pc[t] \in InEnqueue => Queue!Calls(t, "enqueue")
      /\ queue_pc[t] \in InDequeue => Queue!Calls(t, "dequeue")
  BY <1>0 DEF QueuePlaces
<1>3. CASE Queue!NewNode(t)
  <2> DEFINE n == Queue!New
             r == [data |-> <<t, q_at[t]>>, next |-> NULL]
  <2>1. n \in Address
    BY <1>1, <1>3 DEF Queue!NewNode, Queue!New
  <2>2. r \in QueueCell
    BY <1>0, <1>3, QueueRuns DEF Queue!NewNode, Queue!Calls, QueueCell
  <2>3. /\ queue_heap' = queue_heap \cup {n} /\ queue_new' = [queue_new EXCEPT ![t] = n]
        /\ queue_node' = [queue_node EXCEPT ![n] = r]
        /\ Queue!Goto(t, "tail") /\ Queue!Calls(t, "enqueue")
        /\ UNCHANGED <<head, tail, q_program, q_at, headNode, tailNode, queue_next, q_stale, misled>>
    BY <1>3 DEF Queue!NewNode
  <2> HIDE DEF n, r
  <2>4. queue_node' \in [Address -> QueueCell] /\ queue_heap' \subseteq Address
    BY <1>1, <2>1, <2>2, <2>3
  <2>5. /\ QueuePlaces' /\ OthersStay(t) /\ q_stale' \subseteq Caller
        /\ queue_new' \in [Caller -> Address \cup {NULL}] /\ headNode' \in [Caller -> Address \cup {NULL}]
        /\ tailNode' \in [Caller -> Address \cup {NULL}] /\ queue_next' \in [Caller -> Address \cup {NULL}]
    BY <2>1, <2>3, QueueGoes DEF InEnqueue
  <2> QED BY <1>0, <2>3, <2>4, <2>5 DEF QueueTypes, QueueCells
<1>4. CASE Queue!LoadTail(t) \/ Queue!LoadTailNext(t) \/ Queue!CompareTail(t) \/ Queue!LinkFails(t)
  <2>1. /\ UNCHANGED <<head, tail, queue_node, queue_heap, q_program, q_at, queue_new, headNode>>
        /\ queue_pc[t] \in {"tail", "tail_next", "same_tail", "link"}
        /\ UNCHANGED misled \/ Queue!Finds(t)
    BY <1>4 DEF Queue!LoadTail, Queue!LoadTailNext, Queue!CompareTail, Queue!LinkFails
  <2>2. Queue!Calls(t, "enqueue") /\ Queue!Runs(t)
    BY <1>2, <2>1 DEF InEnqueue, Queue!Calls
  <2>3. PICK label \in {"tail", "tail_next", "same_tail", "link", "help"} : Queue!Goto(t, label)
    BY <1>4 DEF Queue!LoadTail, Queue!LoadTailNext, Queue!CompareTail, Queue!LinkFails
  <2>4. PICK a \in Address \cup {NULL} :
           /\ tailNode' = tailNode \/ tailNode' = [tailNode EXCEPT ![t] = a]
           /\ queue_next' = queue_next \/ queue_next' = [queue_next EXCEPT ![t] = a]
           /\ q_stale' = q_stale \/ q_stale' = q_stale \ {t}
    <3>1. CASE Queue!LoadTail(t)
      BY <1>1, <3>1 DEF Queue!LoadTail
    <3>2. CASE Queue!LoadTailNext(t)
      BY <3>2, QueueReads DEF Queue!LoadTailNext
    <3>3. CASE Queue!CompareTail(t) \/ Queue!LinkFails(t)
      BY <3>3 DEF Queue!CompareTail, Queue!LinkFails
    <3> QED BY <1>4, <3>1, <3>2, <3>3
  <2>5. /\ QueuePlaces' /\ OthersStay(t) /\ q_stale' \subseteq Caller
        /\ queue_new' \in [Caller -> Address \cup {NULL}] /\ headNode' \in [Caller -> Address \cup {NULL}]
        /\ tailNode' \in [Caller -> Address \cup {NULL}] /\ queue_next' \in [Caller -> Address \cup {NULL}]
    <3>1. label = "help" \/ label \in InEnqueue
      BY <2>3 DEF InEnqueue
    <3> QED BY <2>1, <2>2, <2>3, <2>4, <3>1, QueueGoes
  <2> QED BY <1>0, <2>1, <2>5, QueueMisled DEF QueueTypes, QueueCells
<1>5. CASE Queue!Link(t)
  <2>1. /\ UNCHANGED <<head, tail, queue_heap, q_program, q_at, queue_new, headNode, tailNode, queue_next,
                       q_stale>>
        /\ queue_node' = [queue_node EXCEPT ![tailNode[t]].next = queue_new[t]]
        /\ queue_pc[t] = "link" /\ Queue!Finds(t) /\ Queue!Goto(t, "swing")
    BY <1>5 DEF Queue!Link
  <2>2. queue_node' \in [Address -> QueueCell]
    <3>1. ASSUME NEW a \in Address PROVE [queue_node[a] EXCEPT !.next = queue_new[t]] \in QueueCell
      BY <1>1 DEF QueueCell
    <3> QED BY <1>1, <2>1, <3>1
  <2>3. /\ QueuePlaces' /\ OthersStay(t)
    BY <1>2, <2>1, QueueGoes DEF InEnqueue
  <2> QED BY <1>0, <2>1, <2>2, <2>3, QueueMisled DEF QueueTypes, QueueCells
<1>6. CASE Queue!HelpTail(t)
  <2>1. /\ UNCHANGED <<head, queue_node, queue_heap, q_program, q_at, queue_new, headNode, tailNode, queue_next,
                       q_stale>>
        /\ queue_pc[t] = "help" /\ Queue!MoveTail(t, queue_next[t])
        /\ Queue!Goto(t, IF Queue!Calls(t, "enqueue") THEN "tail" ELSE "call")
    BY <1>6 DEF Queue!HelpTail
  <2>2. tail' \in Address \cup {NULL} /\ (UNCHANGED misled \/ Queue!Finds(t))
    BY <1>1, <2>1 DEF Queue!MoveTail
  <2>3. PICK label : /\ Queue!Goto(t, label)
                     /\ label = "call" \/ (label \in InEnqueue /\ Queue!Calls(t, "enqueue"))
    BY <2>1 DEF InEnqueue
  <2>4. QueuePlaces' /\ OthersStay(t)
    BY <2>1, <2>3, QueueGoes
  <2> QED BY <1>0, <2>1, <2>2, <2>4, QueueMisled DEF QueueTypes, QueueCells
<1>7. CASE Queue!LoadHead(t) \/ Queue!LoadHeadTail(t) \/ Queue!LoadHeadNext(t) \/ Queue!CompareHead(t)
           \/ Queue!TakeFails(t)
  <2>1. /\ UNCHANGED <<head, tail, queue_node, queue_heap, q_program, q_at, queue_new>>
        /\ \/ queue_pc[t] \in {"head_tail", "head_next", "same_head", "take"}
           \/ queue_pc[t] = "call" /\ Queue!Calls(t, "dequeue")
        /\ UNCHANGED misled \/ Queue!Finds(t)
    BY <1>7 DEF Queue!LoadHead, Queue!LoadHeadTail, Queue!LoadHeadNext, Queue!CompareHead, Queue!TakeFails
  <2>2. Queue!Calls(t, "dequeue") /\ Queue!Runs(t)
    BY <1>2, <2>1 DEF InDequeue, Queue!Calls
  <2>3. PICK label \in {"call", "head_tail", "head_next", "same_head", "take", "help"} : Queue!Goto(t, label)
    BY <1>7 DEF Queue!LoadHead, Queue!LoadHeadTail, Queue!LoadHeadNext, Queue!CompareHead, Queue!TakeFails
  <2>4. PICK a \in Address \cup {NULL} :
           /\ headNode' = headNode \/ headNode' = [headNode EXCEPT ![t] = a]
           /\ tailNode' = tailNode \/ tailNode' = [tailNode EXCEPT ![t] = a]
           /\ queue_next' = queue_next \/ queue_next' = [queue_next EXCEPT ![t] = a]
           /\ q_stale' = q_stale \/ q_stale' = q_stale \ {t}
    <3>1. CASE Queue!LoadHead(t)
      BY <1>1, <3>1 DEF Queue!LoadHead
    <3>2. CASE Queue!LoadHeadTail(t)
      BY <1>1, <3>2 DEF Queue!LoadHeadTail
    <3>3. CASE Queue!LoadHeadNext(t)
      BY <3>3, QueueReads DEF Queue!LoadHeadNext
    <3>4. CASE Queue!CompareHead(t) \/ Queue!TakeFails(t)
      BY <3>4 DEF Queue!CompareHead, Queue!TakeFails
    <3> QED BY <1>7, <3>1, <3>2, <3>3, <3>4
  <2>5. /\ QueuePlaces' /\ OthersStay(t) /\ q_stale' \subseteq Caller
        /\ queue_new' \in [Caller -> Address \cup {NULL}] /\ headNode' \in [Caller -> Address \cup {NULL}]
        /\ tailNode' \in [Caller -> Address \cup {NULL}] /\ queue_next' \in [Caller -> Address \cup {NULL}]
    <3>1. label = "help" \/ label = "call" \/ label \in InDequeue
      BY <2>3 DEF InDequeue
    <3> QED BY <2>1, <2>2, <2>3, <2>4, <3>1, QueueGoes
  <2> QED BY <1>0, <2>1, <2>5, QueueMisled DEF QueueTypes, QueueCells
<1>8. CASE Queue!Take(t)
  <2>1. /\ UNCHANGED <<tail, queue_node, queue_heap, q_program, q_at, queue_new, headNode, tailNode, queue_next,
                       q_stale>>
        /\ queue_pc[t] = "take" /\ head' = queue_next[t] /\ Queue!Finds(t) /\ Queue!Goto(t, "delete")
    BY <1>8 DEF Queue!Take
  <2>2. QueuePlaces' /\ OthersStay(t)
    BY <1>2, <2>1, QueueGoes DEF InDequeue
  <2> QED BY <1>0, <1>1, <2>1, <2>2, QueueMisled DEF QueueTypes, QueueCells
<1>9. CASE Queue!SwingTail(t) \/ Queue!FindsEmpty(t) \/ Queue!Delete(t)
  <2>1. /\ UNCHANGED <<head, queue_node>> /\ queue_heap' \subseteq queue_heap
        /\ queue_pc[t] # "call" /\ \E S : Queue!Returns(t, S)
        /\ tail' = tail \/ tail' = queue_new[t]
        /\ UNCHANGED misled \/ Queue!Finds(t)
    <3>1. CASE Queue!SwingTail(t)
      BY <3>1 DEF Queue!SwingTail, Queue!MoveTail
    <3>2. CASE Queue!FindsEmpty(t)
      BY <3>2 DEF Queue!FindsEmpty
    <3>3. CASE Queue!Delete(t)
      BY <3>3 DEF Queue!Delete
    <3> QED BY <1>9, <3>1, <3>2, <3>3
  <2>2. /\ QueuePlaces' /\ q_stale' \subseteq Caller /\ OthersStay(t)
        /\ queue_new' \in [Caller -> Address \cup {NULL}] /\ headNode' \in [Caller -> Address \cup {NULL}]
        /\ tailNode' \in [Caller -> Address \cup {NULL}] /\ queue_next' \in [Caller -> Address \cup {NULL}]
    BY <1>0, <2>1, QueueReturns DEF OthersStay
  <2>3. tail' \in Address \cup {NULL} /\ queue_heap' \subseteq Address
    BY <1>1, <2>1
  <2> QED BY <1>0, <2>1, <2>2, <2>3, QueueMisled DEF QueueTypes, QueueCells
<1> QED BY <1>3, <1>4, <1>5, <1>6, <1>7, <1>8, <1>9 DEF Queue!Step

\* What a thread that stays holds, and whether what it expects is still there.
LEMMA QueueOthers ==
    ASSUME NEW t \in Caller, OthersStay(t), NEW u \in Caller, u # t
    PROVE  /\ Keeping(u)' <=> Keeping(u)
           /\ \A a : QueueOwns(u, a)' <=> QueueOwns(u, a)
           /\ OnTail(u)' => OnTail(u)
           /\ OnHead(u)' => OnHead(u)
<1>1. /\ queue_pc'[u] = queue_pc[u]
      /\ queue_new'[u] = queue_new[u] /\ headNode'[u] = headNode[u]
      /\ Queue!Calls(u, "enqueue")' <=> Queue!Calls(u, "enqueue")
      /\ u \in q_stale => u \in q_stale'
  BY DEF OthersStay
<1>2. Keeping(u)' <=> Keeping(u)
  BY <1>1 DEF Keeping
<1> QED BY <1>1, <1>2 DEF QueueOwns, OnTail, OnHead

\* What the comparisons and the exchanges expect.
LEMMA QueueExpects ==
    ASSUME NEW t \in Caller
    PROVE  /\ queue_pc[t] \in {"tail_next", "same_tail", "link", "swing", "help"} =>
                Queue!Expects(t) = tailNode[t]
           /\ queue_pc[t] \in {"head_tail", "head_next", "same_head", "take"} =>
                Queue!Expects(t) = headNode[t]
<1>1. ASSUME queue_pc[t] \in {"tail_next", "same_tail", "link", "swing", "help"}
      PROVE  Queue!Expects(t) = tailNode[t]
  BY <1>1, Zenon DEF Queue!Expects
<1>2. ASSUME queue_pc[t] \in {"head_tail", "head_next", "same_head", "take"}
      PROVE  Queue!Expects(t) = headNode[t]
  <2>1. queue_pc[t] \notin {"tail_next", "same_tail", "link", "swing", "help"}
    BY <1>2
  <2> QED BY <1>2, <2>1, Zenon DEF Queue!Expects
<1> QED BY <1>1, <1>2

\* A head that is the last node is the tail.
LEMMA QueueBehind ==
    ASSUME QueueLinked, QueueTail, tail # head PROVE After(head) # NULL
<1> DEFINE s == Queue!Chain
<1> SUFFICES ASSUME After(head) = NULL PROVE tail = head
  OBVIOUS
<1>1. head = s[Len(s)] /\ head = s[1] /\ Len(s) \in Nat \ {0}
  BY QueueFacts
<1>2. PICK i \in 1..Len(s) : tail = s[i]
  BY DEF QueueNodes, QueueTail
<1>3. Len(s) = 1
  <2>1. 1 \in 1..Len(s) /\ Len(s) \in 1..Len(s)
    BY <1>1
  <2> QED BY <1>1, <2>1 DEF QueueLinked, IsPath
<1> QED BY <1>1, <1>2, <1>3

\* A step that changes no node and no owner leaves the queue as it is, the tail aside.
LEMMA QueueLocalFacts ==
    ASSUME QueueTypes, QueueWell, NEW t \in Caller, OthersStay(t),
           UNCHANGED <<head, queue_node, queue_heap>>,
           tail' = tail \/ (After(tail) # NULL /\ tail' = After(tail)),
           Keeping(t)' <=> Keeping(t), Keeping(t) => queue_new'[t] = queue_new[t]
    PROVE  /\ QueueLinked' /\ QueueNodes' = QueueNodes /\ Queue!Items' = Queue!Items
           /\ \A a : queue_node'[a].next = After(a)
           /\ \A a : Unlinked(a)' <=> Unlinked(a)
           /\ tail \in QueueNodes /\ tail' \in QueueNodes /\ tail \in Address /\ head \in QueueNodes
           /\ tail # NULL /\ head \in Address
           /\ After(tail) # NULL => /\ After(tail) \in QueueNodes /\ After(tail) # head
                                    /\ After(tail) # tail /\ After(After(tail)) = NULL
<1>1. QueueLinked /\ QueueTail
  BY DEF QueueWell
<1>2. QueueLinked' /\ QueueNodes' = QueueNodes /\ Queue!Items' = Queue!Items
  BY <1>1, QueueChainKept
<1>3. \A a : queue_node'[a].next = After(a)
  BY DEF After
<1>4. \A u \in Caller : u # t => (Keeping(u)' <=> Keeping(u)) /\ queue_new'[u] = queue_new[u]
  BY QueueOthers DEF OthersStay
<1>5. \A a : Unlinked(a)' <=> Unlinked(a)
  BY <1>4 DEF Unlinked
<1>6. /\ tail \in QueueNodes /\ tail \in Address /\ head \in QueueNodes /\ head \in Address
      /\ After(tail) # NULL => /\ After(tail) \in QueueNodes /\ After(tail) # head
                               /\ After(tail) # tail /\ After(After(tail)) = NULL
  BY <1>1, QueueFacts DEF QueueTail
<1> QED BY <1>2, <1>3, <1>5, <1>6, NamesAssumption

LEMMA QueueLocalStep ==
    ASSUME QueueTypes, QueueWell, NEW t \in Caller, OthersStay(t),
           UNCHANGED <<head, queue_node, queue_heap>>,
           tail' = tail \/ (After(tail) # NULL /\ tail' = After(tail)),
           Keeping(t)' <=> Keeping(t), Keeping(t) => queue_new'[t] = queue_new[t],
           queue_pc[t] # "delete", queue_pc'[t] # "delete", QueueAtTail(t)', QueueAtHead(t)'
    PROVE  QueueWell' /\ Queue!Items' = Queue!Items
<1>0. /\ QueueTail /\ QueueHeap /\ \A u \in Caller : QueueOwned(u) /\ QueueAtTail(u) /\ QueueAtHead(u)
      /\ queue_heap \subseteq Address
  BY DEF QueueWell, QueueTypes, QueueCells
<1>1. /\ QueueLinked' /\ QueueNodes' = QueueNodes /\ Queue!Items' = Queue!Items
      /\ \A a : queue_node'[a].next = After(a)
      /\ \A a : Unlinked(a)' <=> Unlinked(a)
      /\ tail \in QueueNodes /\ tail' \in QueueNodes
      /\ After(tail) # NULL => After(tail) # head /\ After(After(tail)) = NULL
  BY QueueLocalFacts
<1>2. QueueTail'
  BY <1>0, <1>1 DEF QueueTail, After
<1>3. \A u \in Caller : \A a : QueueOwns(u, a)' <=> QueueOwns(u, a)
  <2>1. \A a : QueueOwns(t, a)' <=> QueueOwns(t, a)
    BY DEF QueueOwns
  <2> QED BY <2>1, QueueOthers
<1>4. QueueHeap'
  BY <1>0, <1>1, <1>3 DEF QueueHeap
<1>5. ASSUME NEW u \in Caller PROVE QueueOwned(u)'
  <2>1. (Keeping(u)' <=> Keeping(u)) /\ (Keeping(u) => queue_new'[u] = queue_new[u])
    BY QueueOthers DEF OthersStay
  <2>2. queue_pc'[u] = "delete" => queue_pc[u] = "delete" /\ headNode'[u] = headNode[u]
    BY DEF OthersStay
  <2> QED BY <1>0, <1>1, <2>1, <2>2 DEF QueueOwned, After
<1>6. ASSUME NEW u \in Caller PROVE QueueAtTail(u)'
  <2>1. CASE u = t
    BY <2>1
  <2>2. CASE u # t
    <3>1. /\ queue_pc'[u] = queue_pc[u] /\ queue_new'[u] = queue_new[u]
          /\ tailNode'[u] = tailNode[u] /\ queue_next'[u] = queue_next[u]
      BY <2>2 DEF OthersStay
    <3>2. OnTail(u)' => OnTail(u) /\ tailNode[u] # NULL
      BY <1>0, <2>2, QueueOthers, NamesAssumption DEF QueueAtTail
    <3>3. OnTail(u)' => tailNode[u] # After(tail')
      BY <1>0, <1>1, <3>2 DEF QueueAtTail
    <3> QED BY <1>0, <1>1, <3>1, <3>2, <3>3 DEF QueueAtTail, After
  <2> QED BY <2>1, <2>2
<1>7. ASSUME NEW u \in Caller PROVE QueueAtHead(u)'
  <2>1. CASE u = t
    BY <2>1
  <2>2. CASE u # t
    <3>1. /\ queue_pc'[u] = queue_pc[u] /\ headNode'[u] = headNode[u]
          /\ tailNode'[u] = tailNode[u] /\ queue_next'[u] = queue_next[u]
      BY <2>2 DEF OthersStay
    <3>2. OnHead(u)' => OnHead(u)
      BY <2>2, QueueOthers
    <3>3. tail # head => tail' # head
      BY <1>1
    <3> QED BY <1>0, <1>1, <3>1, <3>2, <3>3 DEF QueueAtHead, After
  <2> QED BY <2>1, <2>2
<1> QED BY <1>1, <1>2, <1>4, <1>5, <1>6, <1>7 DEF QueueWell

\* A node of the queue is allocated, and was linked.
LEMMA QueueInside ==
    ASSUME QueueWell, NEW a \in QueueNodes PROVE a \in queue_heap /\ ~Unlinked(a)
<1>1. QueueNodes \subseteq queue_heap /\ \A u \in Caller : QueueOwned(u)
  BY DEF QueueWell, QueueHeap
<1> QED BY <1>1 DEF Unlinked, QueueOwned

\* A thread that goes to a place, its call being the same.
LEMMA QueuePlaceOf ==
    ASSUME QueueTypes, NEW t \in Caller, NEW label, Queue!Goto(t, label), UNCHANGED <<q_program, q_at>>
    PROVE  queue_pc'[t] = label /\ (Queue!Calls(t, "enqueue")' <=> Queue!Calls(t, "enqueue"))
BY DEF QueueTypes, QueuePlaces, Queue!Goto, Queue!Calls, Queue!Runs

\* An enqueuer reads, compares and fails to link.
LEMMA EnqueuerLooks ==
    ASSUME QueueTypes, QueueWell, NEW t \in Caller, OthersStay(t),
           \/ Queue!LoadTail(t) \/ Queue!LoadTailNext(t) \/ Queue!CompareTail(t) \/ Queue!LinkFails(t)
    PROVE  QueueWell' /\ UNCHANGED <<Queue!Items, delivered>>
<1> USE DEF Queue!calls, Queue!locals, Queue!history
<1>0. /\ QueueAtTail(t) /\ tailNode \in [Caller -> Address \cup {NULL}]
      /\ queue_next \in [Caller -> Address \cup {NULL}]
      /\ queue_pc[t] \in InEnqueue => Queue!Calls(t, "enqueue")
  BY DEF QueueWell, QueueTypes, QueueCells, QueuePlaces
<1>1. /\ UNCHANGED <<head, tail, queue_node, queue_heap, q_program, q_at, queue_new, headNode, delivered>>
      /\ queue_pc[t] \in {"tail", "tail_next", "same_tail", "link"}
      /\ \E label \in {"tail", "tail_next", "same_tail", "link", "help"} : Queue!Goto(t, label)
  BY DEF Queue!LoadTail, Queue!LoadTailNext, Queue!CompareTail, Queue!LinkFails
<1>2. Queue!Calls(t, "enqueue")
  BY <1>0, <1>1 DEF InEnqueue
<1>3. /\ queue_pc'[t] \in {"tail", "tail_next", "same_tail", "link", "help"}
      /\ Queue!Calls(t, "enqueue")'
  BY <1>1, <1>2, QueuePlaceOf
<1>4. Keeping(t) /\ Keeping(t)' /\ ~OnHead(t)'
  BY <1>1, <1>3 DEF Keeping, OnHead
<1>5. /\ QueueNodes' = QueueNodes /\ \A a : queue_node'[a].next = After(a)
      /\ \A a : Unlinked(a)' <=> Unlinked(a)
      /\ tail \in QueueNodes /\ tail # NULL /\ (After(tail) # NULL => After(tail) # tail)
  BY <1>1, <1>4, QueueLocalFacts
<1>6. QueueAtTail(t)'
  <2>1. CASE Queue!LoadTail(t)
    <3>1. tailNode'[t] = tail /\ queue_pc'[t] = "tail_next"
      BY <1>0, <2>1, QueuePlaceOf DEF Queue!LoadTail
    <3>2. tail \in queue_heap /\ ~Unlinked(tail) /\ tail # After(tail)
      BY <1>5, QueueInside
    <3> QED BY <1>1, <1>5, <3>1, <3>2 DEF QueueAtTail, After
  <2>2. CASE Queue!LoadTailNext(t)
    <3>1. /\ tailNode' = tailNode /\ queue_pc[t] = "tail_next" /\ queue_pc'[t] = "same_tail"
          /\ q_stale' = q_stale
      BY <2>2, QueuePlaceOf DEF Queue!LoadTailNext
    <3>2. PICK a \in Queue!Reads(tailNode[t]) : queue_next' = [queue_next EXCEPT ![t] = a]
      BY <2>2 DEF Queue!LoadTailNext
    <3>3. queue_next'[t] = a
      BY <1>0, <3>2
    <3>4. ASSUME OnTail(t)' PROVE OnTail(t) /\ queue_next'[t] = After(tailNode[t])
      <4>1. OnTail(t) /\ tailNode[t] \in queue_heap
        BY <1>0, <3>1, <3>4 DEF OnTail, QueueAtTail
      <4>2. a = queue_node[tailNode[t]].next
        BY <3>2, <4>1 DEF Queue!Reads
      <4> QED BY <3>3, <4>1, <4>2 DEF After
    <3> QED BY <1>0, <1>1, <1>5, <3>1, <3>4 DEF QueueAtTail, After
  <2>3. CASE Queue!CompareTail(t)
    <3>1. /\ tailNode' = tailNode /\ queue_next' = queue_next /\ queue_pc[t] = "same_tail"
          /\ q_stale' = q_stale
          /\ \/ Queue!Goto(t, "tail")
             \/ Queue!Goto(t, "link")
             \/ Queue!Goto(t, "help") /\ queue_next[t] # NULL
      BY <2>3 DEF Queue!CompareTail
    <3>2. queue_pc'[t] \in {"tail", "link"} \/ (queue_pc'[t] = "help" /\ queue_next[t] # NULL)
      BY <1>1, <3>1, QueuePlaceOf
    <3>3. OnTail(t)' => OnTail(t)
      BY <3>1 DEF OnTail
    <3> QED BY <1>0, <1>1, <1>5, <3>1, <3>2, <3>3 DEF QueueAtTail, After
  <2>4. CASE Queue!LinkFails(t)
    <3>1. queue_pc'[t] = "tail"
      BY <2>4, QueuePlaceOf DEF Queue!LinkFails
    <3> QED BY <3>1 DEF QueueAtTail, OnTail
  <2> QED BY <2>1, <2>2, <2>3, <2>4
<1>7. QueueAtHead(t)'
  BY <1>4 DEF QueueAtHead
<1>8. queue_pc[t] # "delete" /\ queue_pc'[t] # "delete" /\ queue_new'[t] = queue_new[t]
  BY <1>1, <1>3
<1> QED BY <1>1, <1>4, <1>6, <1>7, <1>8, QueueLocalStep

\* The tail is swung after a link, or moved by whoever finds it behind.
LEMMA QueueSwings ==
    ASSUME QueueTypes, QueueWell, NEW t \in Caller, OthersStay(t), ~misled',
           Queue!SwingTail(t) \/ Queue!HelpTail(t)
    PROVE  QueueWell' /\ UNCHANGED <<Queue!Items, delivered>>
<1> USE DEF Queue!calls, Queue!locals, Queue!history
<1>0. QueueTail /\ QueueAtTail(t)
  BY DEF QueueWell
<1>1. /\ UNCHANGED <<head, queue_node, queue_heap, delivered>>
      /\ queue_pc[t] \in {"swing", "help"}
      /\ tail' = tail \/ (tail = tailNode[t] /\ Queue!Finds(t))
  BY DEF Queue!SwingTail, Queue!HelpTail, Queue!MoveTail
<1>2. tail' = tail \/ (After(tail) # NULL /\ tail' = After(tail))
  <2> SUFFICES ASSUME tail' # tail PROVE After(tail) # NULL /\ tail' = After(tail)
    OBVIOUS
  <2>1. tail = tailNode[t] /\ t \notin q_stale
    BY <1>1 DEF Queue!Finds
  <2>2. OnTail(t)
    BY <1>1, <2>1 DEF OnTail
  <2>3. CASE Queue!SwingTail(t)
    <3>1. queue_pc[t] = "swing" /\ tail' = queue_new[t]
      BY <2>3 DEF Queue!SwingTail, Queue!MoveTail
    <3> QED BY <1>0, <2>1, <2>2, <3>1 DEF QueueAtTail
  <2>4. CASE Queue!HelpTail(t)
    <3>1. queue_pc[t] = "help" /\ tail' = queue_next[t]
      BY <2>4 DEF Queue!HelpTail, Queue!MoveTail
    <3> QED BY <1>0, <2>1, <2>2, <3>1 DEF QueueAtTail
  <2> QED BY <2>3, <2>4
<1>3. /\ queue_pc'[t] \in {"call", "tail"}
      /\ Keeping(t)' <=> Keeping(t)
      /\ Keeping(t) => queue_new'[t] = queue_new[t]
  <2>1. CASE Queue!SwingTail(t)
    <3>1. queue_pc[t] = "swing" /\ Queue!Returns(t, {})
      BY <2>1 DEF Queue!SwingTail
    <3>2. queue_pc'[t] = "call"
      BY <3>1, QueueReturns DEF QueueTypes
    <3> QED BY <3>1, <3>2 DEF Keeping
  <2>2. CASE Queue!HelpTail(t)
    <3>1. /\ queue_pc[t] = "help" /\ queue_new' = queue_new /\ UNCHANGED <<q_program, q_at>>
          /\ Queue!Goto(t, IF Queue!Calls(t, "enqueue") THEN "tail" ELSE "call")
      BY <2>2 DEF Queue!HelpTail
    <3>2. CASE Queue!Calls(t, "enqueue")
      <4>1. queue_pc'[t] = "tail"
        BY <3>1, <3>2, QueuePlaceOf
      <4> QED BY <3>1, <3>2, <4>1 DEF Keeping
    <3>3. CASE ~Queue!Calls(t, "enqueue")
      <4>1. queue_pc'[t] = "call"
        BY <3>1, <3>3, QueuePlaceOf
      <4> QED BY <3>1, <3>3, <4>1 DEF Keeping
    <3> QED BY <3>2, <3>3
  <2> QED BY <2>1, <2>2
<1>4. QueueAtTail(t)' /\ QueueAtHead(t)'
  BY <1>3 DEF QueueAtTail, QueueAtHead, OnTail, OnHead
<1>5. queue_pc[t] # "delete" /\ queue_pc'[t] # "delete"
  BY <1>1, <1>3
<1> QED BY <1>1, <1>2, <1>3, <1>4, <1>5, QueueLocalStep

\* A dequeuer reads, compares and fails to take.
LEMMA DequeuerLooks ==
    ASSUME QueueTypes, QueueWell, NEW t \in Caller, OthersStay(t), ~misled',
           \/ Queue!LoadHead(t) \/ Queue!LoadHeadTail(t) \/ Queue!LoadHeadNext(t) \/ Queue!CompareHead(t)
           \/ Queue!FindsEmpty(t) \/ Queue!TakeFails(t)
    PROVE  QueueWell' /\ UNCHANGED <<Queue!Items, delivered>>
<1> USE DEF Queue!calls, Queue!locals, Queue!history
<1>0. /\ QueueAtHead(t) /\ headNode \in [Caller -> Address \cup {NULL}]
      /\ tailNode \in [Caller -> Address \cup {NULL}]
      /\ queue_next \in [Caller -> Address \cup {NULL}]
      /\ queue_pc[t] \in InDequeue => Queue!Calls(t, "dequeue")
  BY DEF QueueWell, QueueTypes, QueueCells, QueuePlaces
<1>1. /\ UNCHANGED <<head, tail, queue_node, queue_heap, delivered>>
      /\ \/ queue_pc[t] \in {"head_tail", "head_next", "same_head", "take"}
         \/ queue_pc[t] = "call" /\ Queue!Calls(t, "dequeue")
      /\ \/ \E S : Queue!Returns(t, S)
         \/ /\ \E label \in {"call", "head_tail", "head_next", "same_head", "take", "help"} :
                  Queue!Goto(t, label)
            /\ UNCHANGED <<q_program, q_at>>
  BY DEF Queue!LoadHead, Queue!LoadHeadTail, Queue!LoadHeadNext, Queue!CompareHead, Queue!FindsEmpty,
         Queue!TakeFails
<1>2. Queue!Calls(t, "dequeue") /\ ~Queue!Calls(t, "enqueue")
  BY <1>0, <1>1 DEF InDequeue, Queue!Calls
<1>3. /\ queue_pc'[t] \in {"call", "head_tail", "head_next", "same_head", "take", "help"}
      /\ queue_pc'[t] # "call" => ~Queue!Calls(t, "enqueue")'
  <2>1. CASE queue_pc[t] # "call" /\ \E S : Queue!Returns(t, S)
    BY <2>1, QueueReturns DEF QueueTypes
  <2>2. CASE /\ \E label \in {"call", "head_tail", "head_next", "same_head", "take", "help"} :
                  Queue!Goto(t, label)
             /\ UNCHANGED <<q_program, q_at>>
    BY <1>2, <2>2, QueuePlaceOf
  <2>3. queue_pc[t] = "call" => Queue!LoadHead(t)
    BY DEF Queue!LoadHead, Queue!LoadHeadTail, Queue!LoadHeadNext, Queue!CompareHead, Queue!FindsEmpty,
           Queue!TakeFails
  <2>4. Queue!LoadHead(t) => Queue!Goto(t, "head_tail") /\ UNCHANGED <<q_program, q_at>>
    BY DEF Queue!LoadHead
  <2> QED BY <1>1, <2>1, <2>2, <2>3, <2>4
<1>4. ~Keeping(t) /\ ~Keeping(t)'
  BY <1>1, <1>2, <1>3 DEF Keeping
<1>5. /\ QueueNodes' = QueueNodes /\ \A a : queue_node'[a].next = After(a)
      /\ \A a : Unlinked(a)' <=> Unlinked(a)
      /\ tail \in QueueNodes /\ tail # NULL /\ (After(tail) # NULL => After(tail) # head)
      /\ head \in QueueNodes /\ head \in Address
  BY <1>1, <1>4, QueueLocalFacts
<1>6. QueueAtTail(t)' /\ QueueAtHead(t)'
  <2>1. CASE Queue!LoadHead(t)
    <3>1. headNode'[t] = head /\ queue_pc'[t] = "head_tail"
      BY <1>0, <2>1, QueuePlaceOf DEF Queue!LoadHead
    <3>2. head \in queue_heap /\ ~Unlinked(head)
      BY <1>5, QueueInside
    <3> QED BY <1>1, <1>5, <3>1, <3>2 DEF QueueAtHead, QueueAtTail, OnTail
  <2>2. CASE Queue!LoadHeadTail(t)
    <3>1. /\ headNode' = headNode /\ q_stale' = q_stale
          /\ queue_pc'[t] = "head_next" /\ queue_pc[t] = "head_tail" /\ tailNode'[t] = tail
      BY <1>0, <2>2, QueuePlaceOf DEF Queue!LoadHeadTail
    <3>2. OnHead(t)' => OnHead(t)
      BY <3>1 DEF OnHead
    <3> QED BY <1>0, <1>1, <1>5, <3>1, <3>2 DEF QueueAtHead, QueueAtTail, OnTail
  <2>3. CASE Queue!LoadHeadNext(t)
    <3>1. /\ headNode' = headNode /\ tailNode' = tailNode /\ q_stale' = q_stale
          /\ queue_pc'[t] = "same_head" /\ queue_pc[t] = "head_next"
      BY <2>3, QueuePlaceOf DEF Queue!LoadHeadNext
    <3>2. PICK a \in Queue!Reads(headNode[t]) : queue_next' = [queue_next EXCEPT ![t] = a]
      BY <2>3 DEF Queue!LoadHeadNext
    <3>3. queue_next'[t] = a
      BY <1>0, <3>2
    <3>4. ASSUME OnHead(t)' PROVE OnHead(t) /\ queue_next'[t] = After(headNode[t])
      <4>1. OnHead(t) /\ headNode[t] \in queue_heap
        BY <1>0, <3>1, <3>4 DEF OnHead, QueueAtHead
      <4>2. a = queue_node[headNode[t]].next
        BY <3>2, <4>1 DEF Queue!Reads
      <4> QED BY <3>3, <4>1, <4>2 DEF After
    <3> QED BY <1>0, <1>1, <1>5, <3>1, <3>4 DEF QueueAtHead, QueueAtTail, OnTail, After
  <2>4. CASE Queue!CompareHead(t)
    <3>1. /\ headNode' = headNode /\ tailNode' = tailNode /\ queue_next' = queue_next /\ q_stale' = q_stale
          /\ queue_pc[t] = "same_head"
          /\ \/ Queue!Goto(t, "call")
             \/ /\ headNode[t] = head /\ headNode[t] = tailNode[t] /\ queue_next[t] # NULL
                /\ Queue!Finds(t) /\ Queue!Goto(t, "help")
             \/ headNode[t] = head /\ headNode[t] # tailNode[t] /\ Queue!Finds(t) /\ Queue!Goto(t, "take")
          /\ UNCHANGED <<q_program, q_at>>
      BY <2>4 DEF Queue!CompareHead, Queue!AtTail
    <3>2. CASE Queue!Goto(t, "call")
      <4>1. queue_pc'[t] = "call"
        BY <3>1, <3>2, QueuePlaceOf
      <4> QED BY <4>1 DEF QueueAtHead, QueueAtTail, OnHead, OnTail
    <3>3. OnHead(t) <=> t \notin q_stale
      BY <3>1 DEF OnHead
    <3>4. CASE /\ headNode[t] = head /\ headNode[t] = tailNode[t] /\ queue_next[t] # NULL
               /\ Queue!Finds(t) /\ Queue!Goto(t, "help")
      <4>1. queue_pc'[t] = "help"
        BY <3>1, <3>4, QueuePlaceOf
      <4>2. OnHead(t)
        BY <3>3, <3>4 DEF Queue!Finds
      <4>3. /\ head \in queue_heap /\ ~Unlinked(head) /\ queue_next[t] = After(head)
        BY <1>0, <3>1, <3>4, <4>2 DEF QueueAtHead
      <4>4. head # After(tail) /\ tailNode'[t] = head /\ queue_next'[t] # NULL
        BY <1>5, <3>1, <3>4, NamesAssumption
      <4> QED BY <1>1, <1>5, <3>1, <4>1, <4>3, <4>4 DEF QueueAtTail, QueueAtHead, OnHead, After
    <3>5. CASE headNode[t] = head /\ headNode[t] # tailNode[t] /\ Queue!Finds(t) /\ Queue!Goto(t, "take")
      <4>1. queue_pc'[t] = "take"
        BY <3>1, <3>5, QueuePlaceOf
      <4>2. OnHead(t)
        BY <3>3, <3>5 DEF Queue!Finds
      <4>3. /\ head \in queue_heap /\ ~Unlinked(head) /\ queue_next[t] = After(head) /\ tail # head
        BY <1>0, <3>1, <3>5, <4>2 DEF QueueAtHead
      <4> QED BY <1>1, <1>5, <3>1, <3>5, <4>1, <4>3 DEF QueueAtTail, QueueAtHead, OnTail, After
    <3> QED BY <3>1, <3>2, <3>4, <3>5
  <2>5. CASE Queue!FindsEmpty(t) \/ Queue!TakeFails(t)
    <3>1. queue_pc'[t] = "call"
      <4>1. CASE Queue!FindsEmpty(t)
        <5>1. Queue!Returns(t, {}) /\ queue_pc[t] = "same_head"
          BY <4>1 DEF Queue!FindsEmpty
        <5> QED BY <5>1, QueueReturns DEF QueueTypes
      <4>2. CASE Queue!TakeFails(t)
        BY <4>2, QueuePlaceOf DEF Queue!TakeFails
      <4> QED BY <2>5, <4>1, <4>2
    <3> QED BY <3>1 DEF QueueAtHead, QueueAtTail, OnHead, OnTail
  <2> QED BY <2>1, <2>2, <2>3, <2>4, <2>5
<1>7. queue_pc[t] # "delete" /\ queue_pc'[t] # "delete"
  BY <1>1, <1>3
<1> QED BY <1>1, <1>4, <1>6, <1>7, QueueLocalStep

\* An enqueuer takes a node for itself out of free memory.
LEMMA EnqueuerCreates ==
    ASSUME QueueTypes, QueueWell, NEW t \in Caller, OthersStay(t), Queue!NewNode(t)
    PROVE  QueueWell' /\ UNCHANGED <<Queue!Items, delivered>>
<1> USE DEF Queue!calls, Queue!locals, Queue!history
<1> DEFINE n == Queue!New
           v == <<t, q_at[t]>>
<1>0. /\ QueueLinked /\ QueueTail /\ QueueHeap
      /\ \A u \in Caller : QueueOwned(u) /\ QueueAtTail(u) /\ QueueAtHead(u)
      /\ queue_heap \subseteq Address /\ queue_pc[t] = "call"
      /\ queue_new \in [Caller -> Address \cup {NULL}] /\ queue_node \in [Address -> QueueCell]
  BY DEF QueueWell, QueueTypes, QueueCells, Queue!NewNode
<1>1. n \in Address /\ n \notin queue_heap
  BY <1>0 DEF Queue!NewNode, Queue!New
<1>2. v \in Queue!Item
  BY QueueRuns DEF QueueTypes, Queue!NewNode, Queue!Calls
<1>3. /\ UNCHANGED <<head, tail, q_program, q_at, headNode, tailNode, queue_next, delivered>>
      /\ queue_heap' = queue_heap \cup {n}
      /\ queue_new' = [queue_new EXCEPT ![t] = n]
      /\ queue_node' = [queue_node EXCEPT ![n] = [data |-> v, next |-> NULL]]
      /\ Queue!Goto(t, "tail") /\ Queue!Calls(t, "enqueue")
  BY DEF Queue!NewNode
<1> HIDE DEF n, v
<1>4. queue_pc'[t] = "tail" /\ Queue!Calls(t, "enqueue")'
  BY <1>3, QueuePlaceOf
<1>5. /\ queue_node'[n].data = v /\ queue_node'[n].next = NULL
      /\ \A a \in Address : a # n => queue_node'[a] = queue_node[a]
      /\ queue_new'[t] = n
  BY <1>0, <1>1, <1>3
<1>6. /\ QueueNodes \subseteq queue_heap
      /\ \A a \in queue_heap : a # n /\ queue_node'[a] = queue_node[a]
  BY <1>0, <1>1, <1>5 DEF QueueHeap
<1>7. /\ QueueLinked' /\ QueueNodes' = QueueNodes /\ Queue!Items' = Queue!Items
  BY <1>0, <1>3, <1>6, QueueChainKept
<1>8. /\ Keeping(t)' /\ ~Keeping(t) /\ \A a : ~QueueOwns(t, a) /\ (QueueOwns(t, a)' <=> a = n)
      /\ ~OnTail(t)' /\ ~OnHead(t)'
  BY <1>0, <1>4, <1>5 DEF Keeping, QueueOwns, OnTail, OnHead
<1>9. /\ tail \in QueueNodes /\ head \in QueueNodes
      /\ After(tail) # NULL => After(tail) \in QueueNodes
  BY <1>0, QueueFacts DEF QueueTail
<1>10. QueueTail'
  BY <1>0, <1>3, <1>6, <1>7, <1>9 DEF QueueTail, After
<1>11. ASSUME NEW u \in Caller PROVE QueueOwned(u)'
  <2>1. CASE u = t
    BY <1>1, <1>2, <1>3, <1>4, <1>5, <1>6, <1>7, <2>1 DEF QueueOwned, After
  <2>2. CASE u # t
    <3>1. /\ Keeping(u)' <=> Keeping(u)
          /\ queue_pc'[u] = queue_pc[u] /\ queue_new'[u] = queue_new[u] /\ headNode'[u] = headNode[u]
      BY <2>2, QueueOthers DEF OthersStay
    <3> QED BY <1>0, <1>3, <1>6, <1>7, <3>1 DEF QueueOwned, After
  <2> QED BY <2>1, <2>2
<1>12. \A a : Unlinked(a)' => Unlinked(a) \/ a = n
  <2> SUFFICES ASSUME NEW a, NEW u \in Caller, Keeping(u)', queue_new'[u] = a
               PROVE  Unlinked(a) \/ a = n
    BY DEF Unlinked
  <2>1. CASE u = t
    BY <1>5, <2>1
  <2>2. CASE u # t
    <3>1. Keeping(u) /\ queue_new[u] = a
      BY <2>2, QueueOthers DEF OthersStay
    <3> QED BY <3>1 DEF Unlinked
  <2> QED BY <2>1, <2>2
<1>13. ASSUME NEW u \in Caller PROVE QueueAtTail(u)' /\ QueueAtHead(u)'
  <2>1. CASE u = t
    BY <1>8, <2>1 DEF QueueAtTail, QueueAtHead
  <2>2. CASE u # t
    <3>1. /\ queue_pc'[u] = queue_pc[u] /\ queue_new'[u] = queue_new[u] /\ headNode'[u] = headNode[u]
          /\ tailNode'[u] = tailNode[u] /\ queue_next'[u] = queue_next[u]
          /\ (OnTail(u)' => OnTail(u)) /\ (OnHead(u)' => OnHead(u))
          /\ QueueAtTail(u) /\ QueueAtHead(u)
      BY <1>0, <2>2, QueueOthers DEF OthersStay
    <3>2. \A a \in queue_heap : /\ a \in queue_heap' /\ queue_node'[a].next = After(a)
                                /\ ~Unlinked(a) => ~Unlinked(a)'
      BY <1>3, <1>6, <1>12 DEF After
    <3>3. queue_node'[tail'].next = After(tail) /\ queue_node'[head'].next = After(head)
      BY <1>3, <1>6, <1>9 DEF After
    <3>4. QueueAtTail(u)'
      <4> SUFFICES ASSUME OnTail(u)' PROVE QueueAtTail(u)'
        BY DEF QueueAtTail
      <4>1. OnTail(u)
        BY <3>1
      <4> QED BY <3>1, <3>2, <3>3, <4>1 DEF QueueAtTail, After
    <3>5. QueueAtHead(u)'
      <4> SUFFICES ASSUME OnHead(u)' PROVE QueueAtHead(u)'
        BY DEF QueueAtHead
      <4>1. OnHead(u)
        BY <3>1
      <4> QED BY <1>3, <1>7, <3>1, <3>2, <3>3, <4>1 DEF QueueAtHead, After
    <3> QED BY <3>4, <3>5
  <2> QED BY <2>1, <2>2
<1>14. QueueHeap'
  <2>1. QueueNodes' \subseteq queue_heap'
    BY <1>3, <1>6, <1>7
  <2>2. \A u \in Caller : u # t => \A a : QueueOwns(u, a)' <=> QueueOwns(u, a)
    BY QueueOthers
  <2>3. ASSUME NEW a \in queue_heap' PROVE a \in QueueNodes' \/ \E u \in Caller : QueueOwns(u, a)'
    <3>1. CASE a = n
      BY <1>8, <3>1
    <3>2. CASE a \in queue_heap /\ a \notin QueueNodes
      <4>1. PICK u \in Caller : QueueOwns(u, a)
        BY <1>0, <3>2 DEF QueueHeap
      <4>2. u # t
        BY <1>8, <4>1
      <4> QED BY <2>2, <4>1, <4>2
    <3> QED BY <1>3, <1>7, <3>1, <3>2
  <2>4. \A u \in Caller : ~QueueOwns(u, n)
    BY <1>0, <1>1 DEF QueueOwns, QueueOwned
  <2>5. ASSUME NEW u \in Caller, NEW w \in Caller, u # w, NEW a \in Address
        PROVE  ~(QueueOwns(u, a)' /\ QueueOwns(w, a)')
    <3>1. CASE u # t /\ w # t
      BY <1>0, <2>2, <2>5, <3>1 DEF QueueHeap
    <3>2. CASE u = t \/ w = t
      BY <1>8, <2>2, <2>4, <2>5, <3>2
    <3> QED BY <3>1, <3>2
  <2> QED BY <2>1, <2>3, <2>5 DEF QueueHeap
<1> QED BY <1>3, <1>7, <1>10, <1>11, <1>13, <1>14 DEF QueueWell

\* The items of the queue are those of the nodes behind the dummy.
LEMMA QueueItems ==
    ASSUME QueueTypes, QueueLinked
    PROVE  /\ Queue!Items \in Seq(Queue!Item \cup {NULL}) /\ Len(Queue!Items) = Len(Queue!Chain) - 1
           /\ \A i \in 1..Len(Queue!Items) :
                 /\ i + 1 \in 1..Len(Queue!Chain) /\ Queue!Chain[i + 1] \in QueueNodes
                 /\ Queue!Items[i] = queue_node[Queue!Chain[i + 1]].data
<1>1. PICK s : s = Queue!Chain
  OBVIOUS
<1>2. PICK w : w = Queue!Items
  OBVIOUS
<1>3. /\ s \in Seq(Address) /\ Len(s) \in Nat \ {0} /\ QueueNodes = {s[i] : i \in 1..Len(s)}
      /\ w = [i \in 1..(Len(s) - 1) |-> queue_node[s[i + 1]].data]
  BY <1>1, <1>2, QueueFacts
<1>4. ASSUME NEW i \in 1..(Len(s) - 1)
      PROVE  /\ i + 1 \in 1..Len(s) /\ s[i + 1] \in QueueNodes
             /\ queue_node[s[i + 1]].data \in Queue!Item \cup {NULL}
  <2>1. i + 1 \in 1..Len(s)
    BY <1>3
  <2>2. s[i + 1] \in Address /\ s[i + 1] \in QueueNodes
    BY <1>3, <2>1
  <2> QED BY <2>1, <2>2 DEF QueueTypes, QueueCells, QueueCell
<1>5. w \in [1..(Len(s) - 1) -> Queue!Item \cup {NULL}] /\ Len(s) - 1 \in Nat
  BY <1>3, <1>4
<1>6. w \in Seq(Queue!Item \cup {NULL}) /\ Len(w) = Len(s) - 1
  BY <1>5
<1> QED BY <1>1, <1>2, <1>3, <1>4, <1>6

\* A link puts the item at the end of the queue.
LEMMA EnqueuerLinks ==
    ASSUME QueueTypes, QueueTypes', QueueWell, NEW t \in Caller, OthersStay(t), ~misled', Queue!Link(t)
    PROVE  /\ QueueWell' /\ UNCHANGED delivered
           /\ \E v \in Queue!Item : /\ Queue!Items' = Append(Queue!Items, v)
                                    /\ Len(Queue!Items) < Cardinality(Address)
<1> USE DEF Queue!calls, Queue!locals, Queue!history
<1> DEFINE n == queue_new[t]
           v == queue_node[n].data
           s == Queue!Chain
<1>0. /\ QueueLinked /\ QueueTail /\ QueueHeap
      /\ \A u \in Caller : QueueOwned(u) /\ QueueAtTail(u) /\ QueueAtHead(u)
      /\ queue_heap \subseteq Address
      /\ queue_new \in [Caller -> Address \cup {NULL}] /\ queue_node \in [Address -> QueueCell]
  BY DEF QueueWell, QueueTypes, QueueCells
<1>1. /\ queue_pc[t] = "link" /\ Queue!IsLast(t) /\ t \notin q_stale
      /\ UNCHANGED <<head, tail, queue_heap, q_program, q_at, queue_new, headNode, tailNode, queue_next,
                     delivered, q_stale>>
      /\ queue_node' = [queue_node EXCEPT ![tailNode[t]].next = n]
      /\ Queue!Goto(t, "swing")
  BY DEF Queue!Link, Queue!Finds
<1>2. /\ queue_pc'[t] = "swing" /\ OnTail(t) /\ Keeping(t) /\ ~Keeping(t)' /\ ~OnHead(t)'
      /\ \A a : (QueueOwns(t, a) <=> a = n) /\ ~QueueOwns(t, a)'
  <2>1. queue_pc'[t] = "swing"
    BY <1>1, QueuePlaceOf
  <2> QED BY <1>1, <2>1 DEF OnTail, OnHead, Keeping, QueueOwns
<1>3. /\ n \in queue_heap \ QueueNodes /\ v \in Queue!Item /\ After(n) = NULL
      /\ tailNode[t] \in queue_heap /\ ~Unlinked(tailNode[t]) /\ tailNode[t] # After(tail)
      /\ n \in Address /\ Unlinked(n)
  BY <1>0, <1>2 DEF QueueOwned, QueueAtTail, Unlinked
<1>4. After(tailNode[t]) = NULL
  BY <1>1, <1>3 DEF Queue!IsLast, Queue!Reads, After
<1>5. /\ s \in Seq(Address) /\ Len(s) \in Nat \ {0} /\ QueueNodes \subseteq Address
      /\ DOMAIN Queue!Links = Address /\ \A a \in Address : Queue!Links[a] = After(a)
      /\ QueueNodes = {s[i] : i \in 1..Len(s)} /\ s[1] = head
      /\ IsPath(Queue!Links, NULL, head, s) /\ head # NULL
  BY <1>0, QueueFacts DEF QueueLinked
<1>6. /\ tailNode[t] = tail /\ tail = s[Len(s)] /\ tail \in QueueNodes /\ tail \in Address
      /\ After(tail) = NULL
  <2>1. tailNode[t] \in QueueNodes
    <3> SUFFICES ASSUME NEW u \in Caller, QueueOwns(u, tailNode[t]) PROVE FALSE
      BY <1>0, <1>3 DEF QueueHeap
    <3> QED BY <1>0, <1>3, <1>4 DEF QueueOwns, Unlinked, QueueOwned
  <2>2. tailNode[t] = s[Len(s)]
    BY <1>0, <1>4, <2>1, QueueFacts
  <2>3. tail = s[Len(s)]
    <3>1. CASE After(tail) = NULL
      BY <1>0, <3>1, QueueFacts DEF QueueTail
    <3>2. CASE After(tail) # NULL
      <4>1. After(tail) \in QueueNodes /\ After(After(tail)) = NULL
        BY <1>0, <3>2, QueueFacts DEF QueueTail
      <4>2. After(tail) = s[Len(s)]
        BY <1>0, <4>1, QueueFacts
      <4> QED BY <1>3, <2>2, <4>2
    <3> QED BY <3>1, <3>2
  <2> QED BY <1>0, <1>4, <1>5, <2>2, <2>3 DEF QueueTail
<1>7. n # NULL /\ n # tail
  BY <1>3, <1>6, NamesAssumption
<1> HIDE DEF n, s, v
<1>8. /\ queue_node'[tail].next = n
      /\ \A a \in Address : queue_node'[a].data = queue_node[a].data
      /\ \A a \in Address : a # tail => queue_node'[a] = queue_node[a]
  <2>1. PICK r : r = [queue_node[tail] EXCEPT !.next = n]
    OBVIOUS
  <2>2. r.data = queue_node[tail].data /\ r.next = n
    BY <1>0, <1>6, <2>1 DEF QueueCell
  <2>3. queue_node' = [queue_node EXCEPT ![tail] = r]
    BY <1>1, <1>6, <2>1
  <2> QED BY <1>0, <1>6, <2>2, <2>3
<1>9. Queue!Links' = [Queue!Links EXCEPT ![s[Len(s)]] = n]
  <2>1. Queue!Links' = [a \in Address |-> queue_node'[a].next]
    BY DEF Queue!Links
  <2>2. Queue!Links = [a \in Address |-> queue_node[a].next]
    BY DEF Queue!Links
  <2> QED BY <1>6, <1>8, <2>1, <2>2
<1>10. PICK r : r = Append(s, n)
  OBVIOUS
<1>11. /\ r \in Seq(Address) /\ Len(r) = Len(s) + 1 /\ r[Len(s) + 1] = n
       /\ \A i \in 1..Len(s) : r[i] = s[i]
  BY <1>3, <1>5, <1>10, AppendProperties
<1>12. IsPath(Queue!Links', NULL, head', r)
  <2>1. \A i \in 1..Len(s) : s[i] # n
    BY <1>3, <1>5
  <2>2. Queue!Links[n] = NULL /\ n \in DOMAIN Queue!Links
    BY <1>3, <1>5
  <2>3. IsPath([Queue!Links EXCEPT ![s[Len(s)]] = n], NULL, head, Append(s, n))
    BY <1>3, <1>5, <2>1, <2>2, PathAppended
  <2> QED BY <1>1, <1>9, <1>10, <2>3
<1>13. /\ QueueLinked' /\ QueueNodes' = {r[i] : i \in 1..Len(r)}
       /\ Queue!Items' = [i \in 1..(Len(r) - 1) |-> queue_node'[r[i + 1]].data]
  BY <1>1, <1>5, <1>12, QueueChainNext
<1>14. QueueNodes' = QueueNodes \cup {n}
  <2>1. \A i \in 1..Len(r) : i \in 1..Len(s) \/ i = Len(s) + 1
    BY <1>5, <1>11
  <2>2. \A i \in 1..Len(s) : i \in 1..Len(r)
    BY <1>5, <1>11
  <2>3. Len(s) + 1 \in 1..Len(r)
    BY <1>5, <1>11
  <2>4. ASSUME NEW a \in QueueNodes' PROVE a \in QueueNodes \cup {n}
    BY <1>5, <1>11, <1>13, <2>1
  <2>5. ASSUME NEW a \in QueueNodes PROVE a \in QueueNodes'
    <3>1. PICK i \in 1..Len(s) : a = s[i]
      BY <1>5
    <3> QED BY <1>11, <1>13, <2>2, <3>1
  <2>6. n \in QueueNodes'
    BY <1>11, <1>13, <2>3
  <2> QED BY <2>4, <2>5, <2>6
<1>15. Queue!Items' = Append(Queue!Items, v) /\ Len(Queue!Items) < Cardinality(Address)
  <2>1. PICK x : x = Queue!Items
    OBVIOUS
  <2>2. /\ x \in Seq(Queue!Item \cup {NULL}) /\ Len(x) = Len(s) - 1
        /\ \A i \in 1..Len(x) : /\ i + 1 \in 1..Len(s) /\ s[i + 1] \in QueueNodes
                                /\ x[i] = queue_node[s[i + 1]].data
    BY <1>0, <2>1, QueueItems DEF s
  <2>3. PICK y : y = Queue!Items'
    OBVIOUS
  <2>4. y = [i \in 1..(Len(x) + 1) |-> queue_node'[r[i + 1]].data] /\ Len(x) + 1 = Len(s)
    <3>1. Len(r) - 1 = Len(x) + 1 /\ Len(x) + 1 = Len(s)
      BY <1>5, <1>11, <2>2
    <3> QED BY <1>13, <2>3, <3>1
  <2>5. ASSUME NEW i \in 1..Len(x) PROVE y[i] = x[i]
    <3>1. /\ i + 1 \in 1..Len(s) /\ s[i + 1] \in Address /\ x[i] = queue_node[s[i + 1]].data
          /\ i \in 1..(Len(x) + 1)
      BY <1>5, <2>2
    <3>2. y[i] = queue_node'[s[i + 1]].data
      BY <1>11, <2>4, <3>1
    <3> QED BY <1>8, <3>1, <3>2
  <2>6. y[Len(x) + 1] = v
    <3>1. Len(x) + 1 \in 1..(Len(x) + 1)
      BY <1>5, <2>2
    <3>2. y[Len(x) + 1] = queue_node'[n].data
      BY <1>11, <2>4, <3>1
    <3> QED BY <1>3, <1>8, <3>2 DEF v
  <2>7. y \in [1..(Len(x) + 1) -> Queue!Item \cup {NULL}]
    <3> SUFFICES ASSUME NEW i \in 1..(Len(x) + 1) PROVE y[i] \in Queue!Item \cup {NULL}
      BY <2>4
    <3>1. i \in 1..Len(x) \/ i = Len(x) + 1
      BY <2>2
    <3>2. ASSUME NEW j \in 1..Len(x) PROVE x[j] \in Queue!Item \cup {NULL}
      BY <2>2
    <3> QED BY <1>3, <2>5, <2>6, <3>1, <3>2
  <2>8. y = Append(x, v)
    BY <1>3, <2>2, <2>5, <2>6, <2>7, AppendedRow
  <2>9. Len(x) < Cardinality(Address)
    <3>1. \A i, j \in 1..Len(s) : s[i] = s[j] => i = j
      BY <1>5 DEF IsPath
    <3>2. Cardinality(Address) \in Nat /\ Len(s) <= Cardinality(Address)
      BY <1>5, <3>1, SizesAssumption, PathIsShort
    <3> QED BY <1>5, <2>2, <3>2
  <2> QED BY <2>1, <2>3, <2>8, <2>9
<1>16. /\ queue_node'[n].next = NULL /\ queue_node'[tail'].next = n /\ tail' = tail
       /\ \A a \in Address : a # tail => queue_node'[a].next = After(a)
  BY <1>1, <1>3, <1>7, <1>8 DEF After
<1>17. QueueTail'
  BY <1>6, <1>14, <1>16 DEF QueueTail, After
<1>18. \A u \in Caller : u # t => ~QueueOwns(u, n)
  BY <1>0, <1>2, <1>3 DEF QueueHeap
<1>19. \A a : Unlinked(a)' => Unlinked(a)
  <2> SUFFICES ASSUME NEW a, NEW u \in Caller, Keeping(u)', queue_new'[u] = a PROVE Unlinked(a)
    BY DEF Unlinked
  <2>1. u # t
    BY <1>2
  <2>2. Keeping(u) /\ queue_new[u] = a
    BY <2>1, QueueOthers DEF OthersStay
  <2> QED BY <2>2 DEF Unlinked
<1>20. ASSUME NEW u \in Caller PROVE QueueOwned(u)'
  <2>1. CASE u = t
    BY <1>2, <2>1 DEF QueueOwned
  <2>2. CASE u # t
    <3>1. /\ Keeping(u)' <=> Keeping(u)
          /\ queue_pc'[u] = queue_pc[u] /\ queue_new'[u] = queue_new[u] /\ headNode'[u] = headNode[u]
      BY <2>2, QueueOthers DEF OthersStay
    <3>2. ASSUME Keeping(u)
          PROVE  /\ queue_new[u] \in queue_heap' \ QueueNodes'
                 /\ queue_node'[queue_new[u]].data \in Queue!Item /\ queue_node'[queue_new[u]].next = NULL
      <4>1. /\ queue_new[u] \in queue_heap \ QueueNodes /\ queue_node[queue_new[u]].data \in Queue!Item
            /\ After(queue_new[u]) = NULL
        BY <1>0, <3>2 DEF QueueOwned
      <4>2. queue_new[u] # n
        BY <1>18, <2>2, <3>2 DEF QueueOwns
      <4> QED BY <1>0, <1>1, <1>6, <1>8, <1>14, <1>16, <4>1, <4>2
    <3>3. ASSUME queue_pc[u] = "delete"
          PROVE  headNode[u] \in queue_heap' \ QueueNodes' /\ queue_node'[headNode[u]].next # NULL
      <4>1. headNode[u] \in queue_heap \ QueueNodes /\ After(headNode[u]) # NULL
        BY <1>0, <3>3 DEF QueueOwned
      <4>2. headNode[u] # n
        BY <1>18, <2>2, <3>3 DEF QueueOwns
      <4> QED BY <1>0, <1>1, <1>6, <1>14, <1>16, <4>1, <4>2
    <3> QED BY <3>1, <3>2, <3>3 DEF QueueOwned, After
  <2> QED BY <2>1, <2>2
<1>21. ASSUME NEW u \in Caller PROVE QueueAtTail(u)'
  <2>1. CASE u = t
    <3>1. /\ tailNode'[t] = tail /\ tail \in queue_heap' /\ ~Unlinked(tail)' /\ tail # n
          /\ queue_new'[t] = n
      BY <1>1, <1>3, <1>6, <1>7, <1>19 DEF n
    <3> QED BY <1>2, <1>7, <1>16, <2>1, <3>1 DEF QueueAtTail, After
  <2>2. CASE u # t
    <3> SUFFICES ASSUME OnTail(u)' PROVE QueueAtTail(u)'
      BY DEF QueueAtTail
    <3>1. /\ queue_pc'[u] = queue_pc[u] /\ queue_new'[u] = queue_new[u]
          /\ tailNode'[u] = tailNode[u] /\ queue_next'[u] = queue_next[u] /\ OnTail(u)
      BY <2>2, QueueOthers DEF OthersStay
    <3>2. /\ tailNode[u] \in queue_heap' /\ tailNode[u] \in Address /\ ~Unlinked(tailNode[u])'
          /\ tailNode[u] # n
      BY <1>0, <1>1, <1>3, <1>19, <3>1 DEF QueueAtTail
    <3>3. After(tailNode[u]) # NULL => queue_node'[tailNode[u]].next = After(tailNode[u])
      BY <1>6, <1>16, <3>2
    <3> QED BY <1>0, <1>16, <3>1, <3>2, <3>3 DEF QueueAtTail, After
  <2> QED BY <2>1, <2>2
<1>22. ASSUME NEW u \in Caller PROVE QueueAtHead(u)'
  <2>1. CASE u = t
    BY <1>2, <2>1 DEF QueueAtHead
  <2>2. CASE u # t
    <3> SUFFICES ASSUME OnHead(u)' PROVE QueueAtHead(u)'
      BY DEF QueueAtHead
    <3>1. /\ queue_pc'[u] = queue_pc[u] /\ headNode'[u] = headNode[u]
          /\ tailNode'[u] = tailNode[u] /\ queue_next'[u] = queue_next[u] /\ OnHead(u) /\ head' = head
      BY <1>1, <2>2, QueueOthers DEF OthersStay
    <3>2. /\ headNode[u] \in queue_heap' /\ ~Unlinked(headNode[u])' /\ headNode[u] # n
          /\ headNode[u] = head \/ headNode[u] \notin QueueNodes'
      BY <1>0, <1>1, <1>3, <1>14, <1>19, <3>1 DEF QueueAtHead
    <3>3. ASSUME headNode[u] = head
          PROVE  /\ queue_pc[u] \in {"head_next", "same_head"} /\ tailNode[u] # head => tail # head
                 /\ queue_pc[u] = "same_head" => \/ queue_next[u] = After(head)
                                                 \/ queue_next[u] = NULL /\ tailNode[u] = head
                 /\ queue_pc[u] = "take" => tail # head /\ queue_next[u] = After(head)
      BY <1>0, <3>1, <3>3 DEF QueueAtHead
    <3>4. (head # tail => queue_node'[head].next = After(head)) /\ (head = tail => After(head) = NULL)
      BY <1>5, <1>6, <1>16, QueueFacts, <1>0
    <3> QED BY <1>16, <3>1, <3>2, <3>3, <3>4 DEF QueueAtHead, After
  <2> QED BY <2>1, <2>2
<1>23. QueueHeap'
  <2>1. QueueNodes' \subseteq queue_heap'
    BY <1>0, <1>1, <1>3, <1>14 DEF QueueHeap
  <2>2. \A u \in Caller : u # t => \A a : QueueOwns(u, a)' <=> QueueOwns(u, a)
    BY QueueOthers
  <2>3. ASSUME NEW a \in queue_heap', a \notin QueueNodes' PROVE \E u \in Caller : QueueOwns(u, a)'
    <3>1. a \in queue_heap /\ a \notin QueueNodes /\ a # n
      BY <1>1, <1>14, <2>3
    <3>2. PICK u \in Caller : QueueOwns(u, a)
      BY <1>0, <3>1 DEF QueueHeap
    <3> QED BY <1>2, <2>2, <3>1, <3>2
  <2>4. ASSUME NEW u \in Caller, NEW w \in Caller, u # w, NEW a \in Address
        PROVE  ~(QueueOwns(u, a)' /\ QueueOwns(w, a)')
    BY <1>0, <1>2, <2>2, <2>4 DEF QueueHeap
  <2> QED BY <2>1, <2>3, <2>4 DEF QueueHeap
<1> QED BY <1>1, <1>3, <1>13, <1>15, <1>17, <1>20, <1>21, <1>22, <1>23 DEF QueueWell

\* An exchange of the head takes the first item.
LEMMA DequeuerTakes ==
    ASSUME QueueTypes, QueueTypes', QueueWell, NEW t \in Caller, OthersStay(t), ~misled', Queue!Take(t)
    PROVE  /\ QueueWell' /\ Queue!Items # <<>>
           /\ delivered' = Append(delivered, Head(Queue!Items)) /\ Queue!Items' = Tail(Queue!Items)
<1> USE DEF Queue!calls, Queue!locals, Queue!history
<1> DEFINE s == Queue!Chain
<1>0. /\ QueueLinked /\ QueueTail /\ QueueHeap
      /\ \A u \in Caller : QueueOwned(u) /\ QueueAtTail(u) /\ QueueAtHead(u)
      /\ QueueNodes \subseteq queue_heap
  BY DEF QueueWell, QueueHeap
<1>1. /\ queue_pc[t] = "take" /\ head = headNode[t] /\ head' = queue_next[t] /\ t \notin q_stale
      /\ delivered' = Append(delivered, queue_node[queue_next[t]].data)
      /\ UNCHANGED <<tail, queue_node, queue_heap, q_program, q_at, queue_new, headNode, tailNode, queue_next,
                     q_stale>>
      /\ Queue!Goto(t, "delete")
  BY DEF Queue!Take, Queue!Finds
<1>2. /\ queue_pc'[t] = "delete" /\ ~Keeping(t) /\ ~Keeping(t)' /\ ~OnTail(t)' /\ ~OnHead(t)'
      /\ \A a : ~QueueOwns(t, a) /\ (QueueOwns(t, a)' <=> a = head)
  <2>1. queue_pc'[t] = "delete"
    BY <1>1, QueuePlaceOf
  <2> QED BY <1>1, <2>1 DEF OnTail, OnHead, Keeping, QueueOwns
<1>3. tail # head /\ queue_next[t] = After(head)
  <2>1. OnHead(t)
    BY <1>1 DEF OnHead
  <2> QED BY <1>0, <1>1, <2>1 DEF QueueAtHead
<1>4. /\ s \in Seq(Address) /\ Len(s) \in Nat \ {0} /\ s[1] = head /\ head \in QueueNodes
      /\ head \in Address /\ head # NULL
      /\ After(head) # NULL /\ After(head) \in QueueNodes /\ After(head) # head
      /\ DOMAIN Queue!Links = Address /\ \A a \in Address : Queue!Links[a] = After(a)
      /\ QueueNodes = {s[i] : i \in 1..Len(s)} /\ QueueNodes \subseteq Address
      /\ IsPath(Queue!Links, NULL, head, s)
  BY <1>0, <1>3, QueueBehind, QueueFacts DEF QueueLinked
<1> HIDE DEF s
<1>5. PICK r : r = Tail(s)
  OBVIOUS
<1>6. /\ IsPath(Queue!Links, NULL, After(head), r)
      /\ \A i \in 1..Len(r) : r[i] = s[i + 1] /\ r[i] # head
      /\ {r[i] : i \in 1..Len(r)} = QueueNodes \ {head}
  <2>0. IsPath(Queue!Links, NULL, head, s) /\ head # NULL
    BY <1>4
  <2>1. /\ IsPath(Queue!Links, NULL, Queue!Links[head], Tail(s))
        /\ \A i \in 1..Len(Tail(s)) : Tail(s)[i] = s[i + 1] /\ Tail(s)[i] # head
        /\ {Tail(s)[i] : i \in 1..Len(Tail(s))} = {s[i] : i \in 1..Len(s)} \ {head}
    BY <2>0, PathPopped
  <2>2. {Tail(s)[i] : i \in 1..Len(Tail(s))} = QueueNodes \ {head}
    BY <1>4, <2>1
  <2>3. Queue!Links[head] = After(head)
    BY <1>4
  <2> QED BY ONLY <1>5, <2>1, <2>2, <2>3
<1>7. r \in Seq(Address) /\ Len(r) = Len(s) - 1 /\ Len(r) \in Nat
  BY <1>4, <1>5, HeadTailProperties
<1>8. /\ QueueLinked' /\ QueueNodes' = QueueNodes \ {head}
      /\ Queue!Items' = [i \in 1..(Len(r) - 1) |-> queue_node[r[i + 1]].data]
  <2>1. Queue!Links' = Queue!Links
    BY <1>1 DEF Queue!Links
  <2>2. IsPath(Queue!Links', NULL, head', r) /\ head' # NULL
    BY <1>1, <1>3, <1>4, <1>6, <2>1
  <2> QED BY <1>1, <1>6, <2>2, QueueChainNext
<1>9. /\ Queue!Items # <<>> /\ Queue!Items' = Tail(Queue!Items)
      /\ Head(Queue!Items) = queue_node[queue_next[t]].data
  <2>1. PICK w : w = Queue!Items
    OBVIOUS
  <2>2. /\ w \in Seq(Queue!Item \cup {NULL}) /\ Len(w) = Len(s) - 1
        /\ \A i \in 1..Len(w) : i + 1 \in 1..Len(s) /\ w[i] = queue_node[s[i + 1]].data
    BY <1>0, <2>1, QueueItems DEF s
  <2>3. Len(s) > 1 /\ s[2] = After(head)
    <3>1. Len(s) # 1
      BY <1>0, <1>4, QueueFacts DEF s
    <3>2. PICK m \in Nat \ {0} : m = Len(s)
      BY <1>4
    <3>3. m > 1 /\ 1 \in 1..(m - 1)
      BY <3>1, <3>2
    <3>4. Len(s) > 1 /\ 1 \in 1..(Len(s) - 1)
      BY <3>2, <3>3
    <3>5. Queue!Links[s[1]] = s[1 + 1]
      BY <1>4, <3>4 DEF IsPath
    <3> QED BY <1>4, <3>4, <3>5
  <2>4. Len(w) > 0 /\ w # <<>> /\ Head(w) = w[1] /\ 1 \in 1..Len(w)
    BY <1>4, <2>2, <2>3
  <2>5. Head(w) = queue_node[After(head)].data
    BY <2>2, <2>3, <2>4
  <2>6. PICK z : z = Queue!Items'
    OBVIOUS
  <2>7. z = [i \in 1..(Len(w) - 1) |-> queue_node[r[i + 1]].data]
    <3>1. Len(r) - 1 = Len(w) - 1
      BY <1>7, <2>2
    <3> QED BY <1>8, <2>6, <3>1
  <2>8. ASSUME NEW i \in 1..(Len(w) - 1)
        PROVE  /\ z[i] = w[i + 1] /\ i + 1 \in 1..Len(w) /\ w[i + 1] \in Queue!Item \cup {NULL}
    <3>1. i + 1 \in 1..Len(w) /\ i + 1 \in 1..Len(r)
      BY <1>7, <2>2, <2>4
    <3>2. r[i + 1] = s[i + 1 + 1]
      BY <1>6, <3>1
    <3> QED BY <2>2, <2>7, <3>1, <3>2
  <2>9. z \in [1..(Len(w) - 1) -> Queue!Item \cup {NULL}]
    BY <2>7, <2>8
  <2>10. z = Tail(w)
    BY <2>2, <2>4, <2>8, <2>9, RowWithoutHead
  <2> QED BY <1>3, <2>1, <2>4, <2>5, <2>6, <2>10
<1>10. tail' = tail /\ \A a : queue_node'[a].next = After(a)
  BY <1>1 DEF After
<1>11. QueueTail'
  BY <1>0, <1>3, <1>8, <1>10 DEF QueueTail, After
<1>12. \A a : Unlinked(a)' => Unlinked(a)
  <2>1. \A u \in Caller : Keeping(u)' => Keeping(u) /\ queue_new'[u] = queue_new[u]
    BY <1>1, <1>2, QueueOthers
  <2> QED BY <2>1 DEF Unlinked
<1>13. ASSUME NEW u \in Caller PROVE QueueOwned(u)'
  <2>1. CASE u = t
    BY <1>0, <1>1, <1>2, <1>4, <1>8, <1>10, <2>1 DEF QueueOwned, After
  <2>2. CASE u # t
    <3>1. /\ Keeping(u)' <=> Keeping(u)
          /\ queue_pc'[u] = queue_pc[u] /\ queue_new'[u] = queue_new[u] /\ headNode'[u] = headNode[u]
      BY <2>2, QueueOthers DEF OthersStay
    <3> QED BY <1>0, <1>1, <1>8, <1>10, <3>1 DEF QueueOwned, After
  <2> QED BY <2>1, <2>2
<1>14. ASSUME NEW u \in Caller PROVE QueueAtTail(u)'
  <2>1. CASE u = t
    BY <1>2, <2>1 DEF QueueAtTail
  <2>2. CASE u # t
    <3> SUFFICES ASSUME OnTail(u)' PROVE QueueAtTail(u)'
      BY DEF QueueAtTail
    <3>1. /\ queue_pc'[u] = queue_pc[u] /\ queue_new'[u] = queue_new[u]
          /\ tailNode'[u] = tailNode[u] /\ queue_next'[u] = queue_next[u] /\ OnTail(u)
      BY <2>2, QueueOthers DEF OthersStay
    <3> QED BY <1>0, <1>1, <1>10, <1>12, <3>1 DEF QueueAtTail, After
  <2> QED BY <2>1, <2>2
<1>15. ASSUME NEW u \in Caller PROVE QueueAtHead(u)'
  <2>1. CASE u = t
    BY <1>2, <2>1 DEF QueueAtHead
  <2>2. CASE u # t
    <3> SUFFICES ASSUME OnHead(u)' PROVE QueueAtHead(u)'
      BY DEF QueueAtHead
    <3>1. /\ headNode'[u] = headNode[u] /\ OnHead(u)
      BY <2>2, QueueOthers DEF OthersStay
    <3>2. /\ headNode[u] \in queue_heap /\ ~Unlinked(headNode[u])
          /\ headNode[u] = head \/ headNode[u] \notin QueueNodes
      BY <1>0, <3>1 DEF QueueAtHead
    <3>3. headNode[u] \notin QueueNodes' /\ headNode[u] # head'
      BY <1>1, <1>3, <1>4, <1>8, <3>2
    <3> QED BY <1>1, <1>12, <3>1, <3>2, <3>3 DEF QueueAtHead
  <2> QED BY <2>1, <2>2
<1>16. QueueHeap'
  <2>1. QueueNodes' \subseteq queue_heap'
    BY <1>0, <1>1, <1>8
  <2>2. \A u \in Caller : u # t => \A a : QueueOwns(u, a)' <=> QueueOwns(u, a)
    BY QueueOthers
  <2>3. ASSUME NEW a \in queue_heap', a \notin QueueNodes' PROVE \E u \in Caller : QueueOwns(u, a)'
    <3>1. CASE a = head
      BY <1>2, <3>1
    <3>2. CASE a # head
      <4>1. PICK u \in Caller : QueueOwns(u, a)
        BY <1>0, <1>1, <1>8, <2>3, <3>2 DEF QueueHeap
      <4> QED BY <1>2, <2>2, <4>1
    <3> QED BY <3>1, <3>2
  <2>4. \A u \in Caller : ~QueueOwns(u, head)
    BY <1>0, <1>4 DEF QueueOwns, QueueOwned
  <2>5. ASSUME NEW u \in Caller, NEW w \in Caller, u # w, NEW a \in Address
        PROVE  ~(QueueOwns(u, a)' /\ QueueOwns(w, a)')
    <3>1. CASE u # t /\ w # t
      BY <1>0, <2>2, <2>5, <3>1 DEF QueueHeap
    <3>2. CASE u = t \/ w = t
      BY <1>2, <2>2, <2>4, <2>5, <3>2
    <3> QED BY <3>1, <3>2
  <2> QED BY <2>1, <2>3, <2>5 DEF QueueHeap
<1> QED BY <1>1, <1>8, <1>9, <1>11, <1>13, <1>14, <1>15, <1>16 DEF QueueWell

\* The node that was the dummy is deleted; from then on those who had loaded its address
\* expect what is gone.
LEMMA DequeuerDeletes ==
    ASSUME QueueTypes, QueueWell, NEW t \in Caller, OthersStay(t), Queue!Delete(t)
    PROVE  QueueWell' /\ UNCHANGED <<Queue!Items, delivered>>
<1> DEFINE n == headNode[t]
<1>0. /\ QueueLinked /\ QueueTail /\ QueueHeap
      /\ \A u \in Caller : QueueOwned(u) /\ QueueAtTail(u) /\ QueueAtHead(u)
      /\ queue_heap \subseteq Address
  BY DEF QueueWell, QueueTypes, QueueCells
<1>1. /\ queue_pc[t] = "delete" /\ queue_heap' = queue_heap \ {n} /\ Queue!Returns(t, {n})
      /\ UNCHANGED <<head, tail, queue_node, delivered>>
  BY DEF Queue!Delete
<1>2. n \in queue_heap \ QueueNodes /\ \A a : QueueOwns(t, a) <=> a = n
  BY <1>0, <1>1 DEF QueueOwned, QueueOwns, Keeping
<1> HIDE DEF n
<1>3. /\ queue_pc'[t] = "call"
      /\ q_stale' = (q_stale \cup {u \in Caller : Queue!Expects(u) \in {n}}) \ {t}
  BY <1>1, QueueReturns DEF QueueTypes
<1>4. ~Keeping(t)' /\ ~OnTail(t)' /\ ~OnHead(t)' /\ \A a : ~QueueOwns(t, a)'
  BY <1>3 DEF Keeping, OnTail, OnHead, QueueOwns
<1>5. /\ QueueLinked' /\ QueueNodes' = QueueNodes /\ Queue!Items' = Queue!Items
      /\ \A a : queue_node'[a].next = After(a)
  BY <1>0, <1>1, QueueChainKept DEF After
<1>6. QueueTail'
  BY <1>0, <1>1, <1>5 DEF QueueTail, After
<1>7. \A u \in Caller : u # t => ~QueueOwns(u, n)
  BY <1>0, <1>2 DEF QueueHeap
<1>8. \A a : Unlinked(a)' => Unlinked(a)
  <2> SUFFICES ASSUME NEW a, NEW u \in Caller, Keeping(u)', queue_new'[u] = a PROVE Unlinked(a)
    BY DEF Unlinked
  <2>1. u # t
    BY <1>4
  <2>2. Keeping(u) /\ queue_new[u] = a
    BY <2>1, QueueOthers DEF OthersStay
  <2> QED BY <2>2 DEF Unlinked
<1>9. ASSUME NEW u \in Caller PROVE QueueOwned(u)'
  <2>1. CASE u = t
    BY <1>3, <1>4, <2>1 DEF QueueOwned
  <2>2. CASE u # t
    <3>1. /\ Keeping(u)' <=> Keeping(u)
          /\ queue_pc'[u] = queue_pc[u] /\ queue_new'[u] = queue_new[u] /\ headNode'[u] = headNode[u]
      BY <2>2, QueueOthers DEF OthersStay
    <3>2. (Keeping(u) => queue_new[u] # n) /\ (queue_pc[u] = "delete" => headNode[u] # n)
      BY <1>7, <2>2 DEF QueueOwns
    <3> QED BY <1>0, <1>1, <1>5, <3>1, <3>2 DEF QueueOwned, After
  <2> QED BY <2>1, <2>2
<1>10. ASSUME NEW u \in Caller PROVE QueueAtTail(u)'
  <2>1. CASE u = t
    BY <1>4, <2>1 DEF QueueAtTail
  <2>2. CASE u # t
    <3> SUFFICES ASSUME OnTail(u)' PROVE QueueAtTail(u)'
      BY DEF QueueAtTail
    <3>1. /\ queue_pc'[u] = queue_pc[u] /\ queue_new'[u] = queue_new[u]
          /\ tailNode'[u] = tailNode[u] /\ queue_next'[u] = queue_next[u] /\ OnTail(u)
      BY <2>2, QueueOthers DEF OthersStay
    <3>2. tailNode[u] # n
      <4>1. u \notin q_stale'
        BY DEF OnTail
      <4>2. Queue!Expects(u) # n
        BY <1>3, <2>2, <4>1
      <4> QED BY <3>1, <4>2, QueueExpects DEF OnTail
    <3> QED BY <1>0, <1>1, <1>5, <1>8, <3>1, <3>2 DEF QueueAtTail, After
  <2> QED BY <2>1, <2>2
<1>11. ASSUME NEW u \in Caller PROVE QueueAtHead(u)'
  <2>1. CASE u = t
    BY <1>4, <2>1 DEF QueueAtHead
  <2>2. CASE u # t
    <3> SUFFICES ASSUME OnHead(u)' PROVE QueueAtHead(u)'
      BY DEF QueueAtHead
    <3>1. /\ queue_pc'[u] = queue_pc[u] /\ headNode'[u] = headNode[u]
          /\ tailNode'[u] = tailNode[u] /\ queue_next'[u] = queue_next[u] /\ OnHead(u)
      BY <2>2, QueueOthers DEF OthersStay
    <3>2. headNode[u] # n
      <4>1. u \notin q_stale'
        BY DEF OnHead
      <4>2. Queue!Expects(u) # n
        BY <1>3, <2>2, <4>1
      <4> QED BY <3>1, <4>2, QueueExpects DEF OnHead
    <3> QED BY <1>0, <1>1, <1>5, <1>8, <3>1, <3>2 DEF QueueAtHead, After
  <2> QED BY <2>1, <2>2
<1>12. QueueHeap'
  <2>1. QueueNodes' \subseteq queue_heap'
    BY <1>0, <1>1, <1>2, <1>5 DEF QueueHeap
  <2>2. \A u \in Caller : u # t => \A a : QueueOwns(u, a)' <=> QueueOwns(u, a)
    BY QueueOthers
  <2>3. ASSUME NEW a \in queue_heap', a \notin QueueNodes' PROVE \E u \in Caller : QueueOwns(u, a)'
    <3>1. PICK u \in Caller : QueueOwns(u, a)
      BY <1>0, <1>1, <1>5, <2>3 DEF QueueHeap
    <3>2. u # t
      BY <1>1, <1>2, <2>3, <3>1
    <3> QED BY <2>2, <3>1, <3>2
  <2>4. ASSUME NEW u \in Caller, NEW w \in Caller, u # w, NEW a \in Address
        PROVE  ~(QueueOwns(u, a)' /\ QueueOwns(w, a)')
    BY <1>0, <1>4, <2>2, <2>4 DEF QueueHeap
  <2> QED BY <2>1, <2>3, <2>4 DEF QueueHeap
<1> QED BY <1>1, <1>5, <1>6, <1>9, <1>10, <1>11, <1>12 DEF QueueWell

\* Until a thread is misled, each step keeps the queue well, and is to its items a step
\* of the bounded queue or none.
LEMMA QueueStepsWell ==
    ASSUME QueueTypes, QueueTypes', QueueWell, NEW t \in Caller, OthersStay(t), ~misled', Queue!Step(t)
    PROVE  QueueWell' /\ (Queue!FIFO!Next \/ UNCHANGED <<Queue!Items, delivered>>)
<1>1. CASE Queue!NewNode(t)
  BY <1>1, EnqueuerCreates
<1>2. CASE Queue!LoadTail(t) \/ Queue!LoadTailNext(t) \/ Queue!CompareTail(t) \/ Queue!LinkFails(t)
  BY <1>2, EnqueuerLooks
<1>3. CASE Queue!Link(t)
  <2>1. QueueWell' /\ delivered' = delivered
    BY <1>3, EnqueuerLinks
  <2>2. PICK v \in Queue!Item : /\ Queue!Items' = Append(Queue!Items, v)
                                /\ Len(Queue!Items) < Cardinality(Address)
    BY <1>3, EnqueuerLinks
  <2>3. Queue!Cardinality(Address) = Cardinality(Address)
    BY DEF Queue!Cardinality, Cardinality
  <2> QED BY <2>1, <2>2, <2>3 DEF Queue!FIFO!Next, Queue!FIFO!Put
<1>4. CASE Queue!SwingTail(t) \/ Queue!HelpTail(t)
  BY <1>4, QueueSwings
<1>5. CASE \/ Queue!LoadHead(t) \/ Queue!LoadHeadTail(t) \/ Queue!LoadHeadNext(t) \/ Queue!CompareHead(t)
           \/ Queue!FindsEmpty(t) \/ Queue!TakeFails(t)
  BY <1>5, DequeuerLooks
<1>6. CASE Queue!Take(t)
  BY <1>6, DequeuerTakes DEF Queue!FIFO!Next, Queue!FIFO!Get
<1>7. CASE Queue!Delete(t)
  BY <1>7, DequeuerDeletes
<1> QED BY <1>1, <1>2, <1>3, <1>4, <1>5, <1>6, <1>7 DEF Queue!Step

\* What each step does to the queue.
LEMMA QueueStep ==
    ASSUME QueueInv, [Queue!Next]_queue_vars
    PROVE  QueueInv' /\ (Queue!FIFO!Next \/ misled' \/ UNCHANGED <<Queue!Items, delivered>>)
<1>0. QueueTypes /\ (~misled => QueueWell)
  BY DEF QueueInv
<1>1. CASE UNCHANGED queue_vars
  <2>1. QueueTypes'
    BY <1>0, <1>1 DEF queue_vars, QueueTypes, QueuePlaces, QueueCells, Queue!Runs, Queue!Calls
  <2>2. UNCHANGED <<head, tail, queue_node, queue_heap, q_program, q_at, queue_pc, queue_new,
                    headNode, tailNode, queue_next, delivered, q_stale, misled>>
    BY <1>1 DEF queue_vars
  <2>3. Queue!Links' = Queue!Links /\ Queue!Chain' = Queue!Chain /\ Queue!Items' = Queue!Items
    BY <2>2 DEF Queue!Links, Queue!Chain, Queue!Items
  <2>4. ASSUME ~misled PROVE QueueWell'
    <3>1. QueueLinked /\ QueueTail /\ QueueHeap /\ \A u \in Caller : QueueOwned(u) /\ QueueAtTail(u) /\ QueueAtHead(u)
      BY <1>0, <2>4 DEF QueueWell
    <3>2. QueueLinked' /\ QueueNodes' = QueueNodes /\ \A a : After(a)' = After(a)
      BY <2>2, <2>3, <3>1 DEF QueueLinked, QueueNodes, After
    <3>3. \A u \in Caller : /\ Keeping(u)' <=> Keeping(u)
                            /\ OnTail(u)' <=> OnTail(u)
                            /\ OnHead(u)' <=> OnHead(u)
      BY <2>2 DEF Keeping, Queue!Calls, Queue!Runs, OnTail, OnHead
    <3>4. \A a : Unlinked(a)' <=> Unlinked(a)
      BY <2>2, <3>3 DEF Unlinked
    <3>5. \A u \in Caller : \A a : QueueOwns(u, a)' <=> QueueOwns(u, a)
      BY <2>2, <3>3 DEF QueueOwns
    <3>6. QueueTail' /\ QueueHeap'
      BY <2>2, <3>1, <3>2, <3>5 DEF QueueTail, QueueHeap, After
    <3>7. ASSUME NEW u \in Caller PROVE QueueOwned(u)' /\ QueueAtTail(u)' /\ QueueAtHead(u)'
      BY <2>2, <3>1, <3>2, <3>3, <3>4 DEF QueueOwned, QueueAtTail, QueueAtHead, After
    <3> QED BY <3>2, <3>6, <3>7 DEF QueueWell
  <2> QED BY <2>1, <2>2, <2>3, <2>4 DEF QueueInv
<1>2. ASSUME NEW t \in Caller, Queue!Step(t)
      PROVE  QueueInv' /\ (Queue!FIFO!Next \/ misled' \/ UNCHANGED <<Queue!Items, delivered>>)
  <2>1. QueueTypes' /\ OthersStay(t) /\ (misled => misled')
    BY <1>0, <1>2, QueueTypesKept
  <2>2. CASE misled'
    BY <2>1, <2>2 DEF QueueInv
  <2>3. CASE ~misled'
    BY <1>0, <1>2, <2>1, <2>3, QueueStepsWell DEF QueueInv
  <2> QED BY <2>2, <2>3
<1>3. CASE Queue!AllReturned /\ UNCHANGED Queue!vars
  <2>1. UNCHANGED queue_vars
    BY <1>3 DEF Queue!vars, Queue!calls, Queue!locals, Queue!history, queue_vars
  <2> QED BY <1>1, <2>1
<1> QED BY <1>1, <1>2, <1>3 DEF Queue!Next

\* What the invariant says of the tail and of the types.
LEMMA QueueSound ==
    ASSUME QueueInv PROVE Queue!TailNearEnd /\ Queue!TypeOK
<1>0. QueueTypes /\ (~misled => QueueWell)
  BY DEF QueueInv
<1>1. Queue!TypeOK
  BY <1>0 DEF Queue!TypeOK, QueueTypes, QueueCells, QueuePlaces
<1>2. ASSUME ~misled PROVE Queue!TailNearEnd
  <2>0. QueueLinked /\ QueueTail
    BY <1>0, <1>2 DEF QueueWell
  <2> DEFINE s == Queue!Chain
  <2>1. /\ Len(s) \in Nat \ {0} /\ QueueNodes = {s[i] : i \in 1..Len(s)} /\ QueueNodes \subseteq Address
        /\ IsPath(Queue!Links, NULL, head, s) /\ \A a \in Address : Queue!Links[a] = After(a)
        /\ \A a \in QueueNodes :
              /\ After(a) = NULL <=> a = s[Len(s)]
              /\ After(a) # NULL => After(a) \in QueueNodes
    BY <2>0, QueueFacts DEF QueueLinked
  <2>2. PICK i \in 1..Len(s) : s[i] = tail
    BY <2>0, <2>1 DEF QueueTail
  <2> HIDE DEF s
  <2>3. ASSUME i < Len(s) - 1 PROVE FALSE
    <3>1. /\ i \in 1..(Len(s) - 1) /\ i + 1 \in 1..(Len(s) - 1) /\ i + 1 + 1 \in 1..Len(s)
          /\ i # Len(s) /\ i + 1 # Len(s) /\ Len(s) \in 1..Len(s) /\ i + 1 \in 1..Len(s)
      BY <2>1, <2>2, <2>3
    <3>2. s[i] # s[Len(s)] /\ s[i + 1] # s[Len(s)] /\ s[i] \in QueueNodes /\ s[i + 1] \in QueueNodes
      BY <2>1, <3>1 DEF IsPath
    <3>3. Queue!Links[s[i]] = s[i + 1]
      BY <2>1, <3>1 DEF IsPath
    <3>4. After(tail) = s[i + 1] /\ After(tail) # NULL /\ After(After(tail)) # NULL
      BY <2>1, <2>2, <3>2, <3>3
    <3> QED BY <2>0, <3>4 DEF QueueTail
  <2>4. i >= Len(s) - 1
    BY <2>1, <2>2, <2>3
  <2> QED BY <2>2, <2>4 DEF Queue!TailNearEnd, s
<1> QED BY <1>1, <1>2 DEF Queue!TailNearEnd
-----------------------------------------------------------------------------
(* The composition. *)

AllInv == TreeInv /\ StackInv /\ QueueInv /\ ListInv /\ MutexInv /\ SortedInv /\ CInv

\* The threads of the tree keep to what is asked of them.
LEMMA TreeClients == Clients
BY NamesAssumption, SizesAssumption, ProgramsAssumption DEF Clients, Names

\* At first every structure is empty.
LEMMA AllInitially == MCInit => AllInv /\ Stack!Values = <<>> /\ Queue!Items = <<>>
<1>1. MCInit => /\ Init /\ Stack!Init /\ Queue!Init /\ List!Init /\ Mutex!Init
                /\ Sorted!Init /\ InC!Init
  BY DEF MCInit
<1>2. Init => TreeInv
  BY TreeClients, TreeInitially
<1>3. Sorted!Init => SortedInv
  BY SortedInitially
<1> QED BY <1>1, <1>2, <1>3, StackInitially, QueueInitially, ListInitially, MutexInitially, CInitially
        DEF AllInv

\* What a step of the composition is to each structure.
LEMMA StepOfEach ==
    ASSUME [MCNext]_all
    PROVE  /\ [Next]_vars /\ [Stack!Next]_stack_vars /\ [Queue!Next]_queue_vars /\ [List!Next]_list_vars
           /\ [Mutex!Next]_mutex_vars /\ [Sorted!Next]_sorted_vars /\ [InC!Next]_c_vars
<1>1. CASE UNCHANGED lists
  <2>1. UNCHANGED <<mutex_vars, sorted_vars, c_vars>>
    BY <1>1 DEF lists
  <2>2. CASE MCNext /\ ~UNCHANGED structures
    BY <2>1, <2>2 DEF MCNext
  <2>3. CASE UNCHANGED structures
    BY <2>1, <2>3 DEF structures
  <2>4. CASE UNCHANGED all
    BY <2>4, <2>3 DEF all
  <2> QED BY <2>2, <2>3, <2>4
<1>2. CASE UNCHANGED structures
  <2>1. UNCHANGED <<vars, stack_vars, queue_vars, list_vars>>
    BY <1>2 DEF structures
  <2>2. CASE MCNext /\ ~UNCHANGED lists
    BY <2>1, <2>2 DEF MCNext
  <2>3. CASE UNCHANGED all
    BY <2>3, <1>1 DEF all
  <2> QED BY <2>2, <2>3, <1>1
<1>3. CASE UNCHANGED all
  BY <1>3, <1>1 DEF all
<1> QED BY <1>1, <1>2, <1>3 DEF MCNext

\* No step of any structure breaks an invariant.
LEMMA AllStep == AllInv /\ [MCNext]_all => AllInv'
<1>1. TreeInv /\ [Next]_vars => TreeInv'
  BY TreeClients, TreeStep
<1>2. SortedInv /\ [Sorted!Next]_sorted_vars => SortedInv'
  BY SortedStep
<1> QED BY <1>1, <1>2, StepOfEach, StackStep, QueueStep, ListStep, MutexStep, CStep DEF AllInv

\* The invariants hold in every behaviour.
LEMMA AllAlways == MCSpec => []AllInv
BY AllInitially, AllStep, PTL DEF MCSpec

\* Pushes and pops of wait_free_stack.c take effect as on a stack, for any number of
\* pushers and of poppers and of calls: until an exchange of a pop succeeds on an address
\* that was freed and pushed again since it was loaded, every step is a push or a pop of
\* the stack, or leaves it and the last answer as they are.
THEOREM StackRefinesLIFO == MCSpec => StackIsLIFO
<1>1. MCInit => Stack!Stack!Init
  <2>1. MCInit => answer = NULL
    BY DEF MCInit, Stack!Init
  <2> QED BY <2>1, AllInitially DEF Stack!Stack!Init
<1>2. AllInv /\ [MCNext]_all => [Stack!Stack!Next \/ aba']_<<Stack!Values, answer>>
  BY StepOfEach, StackStep DEF AllInv
<1> QED BY <1>1, <1>2, AllAlways, PTL DEF MCSpec, StackIsLIFO, Stack!LIFOSpec

\* lockfree_queue.cpp delivers every item once and in order, and its tail is never left
\* behind by more than one node, nor by the head: for any number of threads that enqueue
\* and dequeue as they like, with exchanges that fail for no reason, until a comparison or
\* an exchange succeeds on an address that was deleted since it was loaded.
THEOREM QueueRefinesFIFO == MCSpec => QueueIsFIFO
<1>1. MCInit => Queue!FIFO!Init
  <2>1. MCInit => delivered = <<>>
    BY DEF MCInit, Queue!Init
  <2> QED BY <2>1, AllInitially DEF Queue!FIFO!Init
<1>2. AllInv /\ [MCNext]_all => [Queue!FIFO!Next \/ misled']_<<Queue!Items, delivered>>
  BY StepOfEach, QueueStep DEF AllInv
<1>3. AllInv => Queue!TailNearEnd
  BY QueueSound DEF AllInv
<1> QED BY <1>1, <1>2, <1>3, AllAlways, PTL DEF MCSpec, QueueIsFIFO, Queue!FIFOSpec

\* Until one of its pops is misled in that way, what the stack has allocated is what is in
\* it and what one thread is about to push or to free, so that nothing leaks and nothing
\* is freed twice; remove of LockFreeLinkedList frees nothing: for any number of threads,
\* of poppers too, and of calls.
THEOREM HeapStaysSound == MCSpec => []HeapIsSound
<1>1. AllInv => HeapIsSound
  BY StackHeapSound, ListSound DEF AllInv, HeapIsSound
<1> QED BY <1>1, AllAlways, PTL

\* LockFreeLinkedList loses no value but to a remove of that value, and a thread's
\* search finds what it inserted, for any number of threads and of rounds.
THEOREM ValuesAreKept == MCSpec => []ListKeepsItsValues
<1>1. AllInv => ListKeepsItsValues
  BY ListSound DEF AllInv, ListKeepsItsValues
<1> QED BY <1>1, AllAlways, PTL

\* A list with one mutex holds every value as often as it was inserted and not
\* removed, FineGrainedLinkedList in order, and a thread finds what it has inserted,
\* for any finite sets of threads and any number of operations.
THEOREM ListsAreBags == MCSpec => []MutexListsAreBags
<1>1. AllInv => MutexListsAreBags
  BY DEF AllInv, MutexInv, MutexListsAreBags
<1> QED BY <1>1, AllAlways, PTL

\* With one thread that deletes, the lock-free lists in C lose nothing that is pushed
\* while a node is unlinked, use no node that was freed, and what that thread asserts
\* holds, for any number of threads that push and of rounds.  With two it does not.
THEOREM ListsInCAreSound ==
    ASSUME OneOwner PROVE MCSpec => []ListsInCHold
<1>1. AllInv => ListsInCHold
  BY CSound DEF AllInv
<1> QED BY <1>1, AllAlways, PTL

\* fgl_bst.c is at every moment a search tree of the set that its calls make, delete and
\* search find what is there and no thread uses a node that another one has destroyed;
\* NonBlockingLinkedList is at every moment the sorted set that its calls make, and
\* every call answers what was right while it ran: for any finite set of threads and
\* any programs that ProgramsAssumption allows.
THEOREM SetsStayKept == MCSpec => []SetsAreKept
<1>1. TreeInv => Ordered /\ TreeHoldsKeys /\ FindsWhatIsThere /\ NoUseAfterFree
  BY TreeClients, TreeIsWell
<1>2. SortedInv => Sorted!ListIsTheSet
  BY SortedSound
<1>3. AllInv => SetsAreKept
  BY <1>1, <1>2 DEF AllInv, SetsAreKept
<1> QED BY <1>3, AllAlways, PTL

\* Every variable of the structures keeps its type, for any finite sets of threads and
\* any number of calls.
THEOREM StructuresKeepTypes == MCSpec => []StructuresTypeOK
<1>1. TreeInv => TypeOK
  BY TreeClients, TreeIsWell
<1>2. SortedInv => Sorted!TypeOK
  BY SortedSound
<1>3. QueueInv => Queue!TypeOK
  BY QueueSound
<1>4. ListInv => List!TypeOK
  BY ListSound
<1>5. CInv => InC!TypeOK
  BY CTyped
<1>6. MutexInv => Mutex!TypeOK
  BY DEF MutexInv
<1>7. AllInv => StructuresTypeOK
  BY <1>1, <1>2, <1>3, <1>4, <1>5, <1>6, StackTyped DEF AllInv, StructuresTypeOK
<1> QED BY <1>7, AllAlways, PTL
=============================================================================
