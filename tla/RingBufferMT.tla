---------------------------- MODULE RingBufferMT -----------------------------
(***************************************************************************)
(* The RingBuffer of lockfree_ringbuffer.c: a ring of pointers to nodes,   *)
(* behind one mutex and two condition variables, with the threads of       *)
(* con_test_lfrb.c (producers, and consumers that own what they removed)   *)
(* and thread_modify, whose modifyData takes its index before the mutex.   *)
(***************************************************************************)
EXTENDS Naturals, Sequences, FiniteSets, CondVar

CONSTANTS Producers, Consumers, Modifiers,
          size,
          Calls,        \* OPERATIONS_PER_THREAD
          NULL, Garbage,
          Fresh         \* what malloc may leave in a slot: some of NULL, Garbage

\* A node is named for the call of insert that allocates it.
Node == Producers \X (1..Calls)
Thread == Producers \cup Consumers
Slots == 0..(size - 1)

VARIABLES buffer, head, tail, count,
          not_full, not_empty,  \* the threads asleep on each
          calls,                \* how many calls of each thread have returned
          i,                    \* thread_modify's loop counter
          actualIndex,          \* modifyData's local, NULL outside the call
          touched,              \* what the last modifyData wrote to, NULL if nothing
          memory,               \* TRUE: malloc never fails in insert
          delivered             \* history: the nodes removed, in order

ring == <<buffer, head, tail, count, not_full, not_empty>>
clients == <<calls, delivered>>
modifying == <<i, actualIndex, touched, memory>>
vars == <<ring, clients, modifying>>
-----------------------------------------------------------------------------
Init == /\ buffer \in [Slots -> Fresh]
        /\ head = 0 /\ tail = 0 /\ count = 0
        /\ not_full = {} /\ not_empty = {}
        /\ calls = [t \in Thread |-> 0]
        /\ i = [m \in Modifiers |-> 0]
        /\ actualIndex = [m \in Modifiers |-> NULL]
        /\ touched = NULL
        /\ memory \in BOOLEAN
        /\ delivered = <<>>

\* The mutation wraps around one slot too early.
WrapsEarly(index) == IF index + 2 >= size THEN 0 ELSE index + 1
Advance(index) == (index + 1) % size

is_empty == head = tail

is_full == (head + 1) % size = tail

Awake(t) == t \notin not_full \cup not_empty /\ calls[t] < Calls
Returns(t) == calls' = [calls EXCEPT ![t] = @ + 1]

SignalNotEmpty == not_empty' \in NotifyOne(not_empty)

SignalNotFull == not_full' \in NotifyOne(not_full) /\ UNCHANGED not_empty

\* The mutation leaves the pointer in the slot.
SlotKept == UNCHANGED buffer
ClearSlot == buffer' = [buffer EXCEPT ![tail] = NULL]
-----------------------------------------------------------------------------
Insert(p) == /\ Awake(p)
             /\ ~is_full
             /\ buffer' = [buffer EXCEPT ![head] = <<p, calls[p] + 1>>]
             /\ head' = Advance(head)
             /\ count' = count + 1
             /\ SignalNotEmpty
             /\ Returns(p)
             /\ UNCHANGED <<tail, not_full, delivered, modifying>>

\* Out of memory: insert returns as if it had done its work.
InsertFails(p) == /\ ~memory
                  /\ Awake(p)
                  /\ ~is_full
                  /\ Returns(p)
                  /\ UNCHANGED <<ring, delivered, modifying>>

InsertWaits(p) == /\ Awake(p)
                  /\ is_full
                  /\ not_full' = not_full \cup {p}
                  /\ UNCHANGED <<buffer, head, tail, count, not_empty, clients, modifying>>

Remove(c) == /\ Awake(c)
             /\ ~is_empty
             /\ delivered' = Append(delivered, buffer[tail])
             /\ ClearSlot
             /\ tail' = Advance(tail)
             /\ count' = count - 1
             /\ SignalNotFull
             /\ Returns(c)
             /\ UNCHANGED <<head, modifying>>

RemoveWaits(c) == /\ Awake(c)
                       /\ is_empty
                  /\ not_empty' = not_empty \cup {c}
                  /\ UNCHANGED <<buffer, head, tail, count, not_full, clients, modifying>>

WakeSpuriously ==
    /\ \/ not_full' \in WakeOne(not_full) /\ UNCHANGED not_empty
       \/ not_empty' \in WakeOne(not_empty) /\ UNCHANGED not_full
    /\ UNCHANGED <<buffer, head, tail, count, clients, modifying>>
-----------------------------------------------------------------------------
(* modifyData(rb, i, ...) *)

\* The tail is loaded without the mutex ...
IndexOf(m) == (tail + i[m]) % size

LoadIndex(m) == /\ i[m] < size
                /\ actualIndex[m] = NULL
                /\ actualIndex' = [actualIndex EXCEPT ![m] = IndexOf(m)]
                /\ UNCHANGED <<ring, clients, i, touched, memory>>

\* ... and the slot is looked at under it: no node has another reference.
ModifyData(m) == /\ actualIndex[m] # NULL
                 /\ touched' = buffer[actualIndex[m]]
                 /\ actualIndex' = [actualIndex EXCEPT ![m] = NULL]
                 /\ i' = [i EXCEPT ![m] = @ + 1]
                 /\ UNCHANGED <<ring, clients, memory>>
-----------------------------------------------------------------------------
ProducerStep(p) == Insert(p) \/ InsertFails(p) \/ InsertWaits(p)
ConsumerStep(c) == Remove(c) \/ RemoveWaits(c)
ModifierStep(m) == LoadIndex(m) \/ ModifyData(m)

\* main joins every thread and calls cleanupRingBuffer, which frees whatever
\* the slots hold.
AllJoined == /\ \A t \in Thread : calls[t] = Calls
             /\ \A m \in Modifiers : i[m] = size

Next == \/ \E p \in Producers : ProducerStep(p)
        \/ \E c \in Consumers : ConsumerStep(c)
        \/ \E m \in Modifiers : ModifierStep(m)
        \/ WakeSpuriously
        \/ AllJoined /\ UNCHANGED vars

Spec == Init /\ [][Next]_vars

\* A thread that is awake gets the mutex at last; nobody wakes by itself.
FairSpec == /\ Spec
            /\ \A p \in Producers : WF_vars(ProducerStep(p))
            /\ \A c \in Consumers : WF_vars(ConsumerStep(c))
            /\ \A m \in Modifiers : WF_vars(ModifierStep(m))
-----------------------------------------------------------------------------
TypeOK == /\ buffer \in [Slots -> Node \cup {NULL, Garbage}]
          /\ head \in Slots /\ tail \in Slots /\ count \in 0..size
          /\ not_full \in SUBSET Producers /\ not_empty \in SUBSET Consumers
          /\ calls \in [Thread -> 0..Calls]
          /\ i \in [Modifiers -> 0..size]
          /\ actualIndex \in [Modifiers -> Slots \cup {NULL}]
          /\ memory \in BOOLEAN
          /\ touched \in Node \cup {NULL, Garbage}
          /\ delivered \in Seq(Node)

Size == (head + size - tail) % size

Contents == [k \in 1..Size |-> buffer[(tail + k - 1) % size]]

\* What insert stored is removed once and in that order, also when insert
\* may fail: one place less than there are slots.
FIFO == INSTANCE BoundedFIFO WITH Item <- Node, Bound <- size - 1, items <- Contents
FIFOSpec == FIFO!Spec

\* While a consumer sleeps an awake one is left for every item, and while a
\* producer sleeps one for every free place: a producer that was woken and
\* then gets no memory has used up the signal, and breaks the latter.
NobodyMissed ==
    LET waiting(threads) == {t \in threads : Awake(t)}
    IN /\ not_empty # {} => Size <= Cardinality(waiting(Consumers))
       /\ memory /\ not_full # {}
            => size - 1 - Size <= Cardinality(waiting(Producers))

\* A late modifyData never writes to a node that was removed: its consumer
\* reads it and frees it, without the mutex, at any time from then on.
ModifiesNodesInRing ==
    [][\A m \in Modifiers : ModifyData(m) =>
          \A k \in 1..Len(delivered) : delivered[k] # touched']_vars

\* cleanupRingBuffer frees no node twice and no pointer nobody stored: in the
\* tests the ring has a slot for each insert and each node was removed.
CleanupFreesNothing == AllJoined => \A s \in Slots : buffer[s] = NULL

\* With memory the threads of the tests are joined.
TestEnds == memory ~> AllJoined
=============================================================================
