------------------------ MODULE LockFreeCircularQueue ------------------------
(***************************************************************************)
(* LockFreeCircularQueue<T> of mrmw_LockFreeCircularQueue.cpp, one action  *)
(* per access to head_, tail_ and data_, together with the client threads  *)
(* of its tests: each producer offers its items in order, each consumer    *)
(* asks for as many, and a call that failed is repeated (testQueue,        *)
(* stressTest) or not (concurrentEnqueueDequeueTest).                      *)
(***************************************************************************)
EXTENDS Naturals, Sequences

CONSTANTS Producers, Consumers,
          Capacity,    \* the constructor's argument
          Calls,       \* how many items each producer offers, each consumer asks for
          Retry,       \* TRUE: a failed call is repeated until it succeeds
          Empty        \* what a slot of data_ holds before anything is stored

ASSUME CapacityAssumption == Capacity \in Nat \ {0}     \* assert(capacity > 0)
ASSUME CallsAssumption == Calls \in Nat /\ Retry \in BOOLEAN
ASSUME ThreadsAssumption == Producers \cap Consumers = {}

Item == Producers \X (1..Calls)

Thread == Producers \cup Consumers

Slots == 0..(Capacity - 1)

VARIABLES head_, tail_, data_,
          pc,          \* where each thread is in its call
          currentTail, \* enqueue's local, per producer
          fullTail,    \* the tail that is_full loaded, per producer
          loaded,      \* the index is_empty loaded first, per consumer
          currentHead, \* dequeue's local, per consumer
          item,        \* dequeue's result, per consumer
          calls,       \* the loop counter of each client thread
          accepted,    \* history: the items of successful enqueues
          delivered    \* history: the items of successful dequeues

vars == <<head_, tail_, data_, pc, currentTail, fullTail, loaded, currentHead,
          item, calls, accepted, delivered>>
-----------------------------------------------------------------------------
\* The mutation forgets to wrap around.
Unwrapped(index) == index + 1
nextIndex(index) == (index + 1) % Capacity

\* is_full's test.  The mutations: no test, equal indices taken for a full
\* ring, and one more slot given up than needed.
NeverFull(tail, head) == FALSE
EqualIsFull(tail, head) == tail = head
TwoSlotsGivenUp(tail, head) == nextIndex(tail) = head \/ nextIndex(nextIndex(tail)) = head
Full(tail, head) == nextIndex(tail) = head

Init == /\ head_ = 0 /\ tail_ = 0
        /\ data_ = [s \in Slots |-> Empty]
        /\ pc = [t \in Thread |-> IF t \in Producers THEN "enqueue" ELSE "is_empty"]
        /\ currentTail = [p \in Producers |-> 0]
        /\ fullTail = [p \in Producers |-> 0]
        /\ loaded = [c \in Consumers |-> 0]
        /\ currentHead = [c \in Consumers |-> 0]
        /\ item = [c \in Consumers |-> Empty]
        /\ calls = [t \in Thread |-> 0]
        /\ accepted = <<>> /\ delivered = <<>>

Goto(t, place) == pc' = [pc EXCEPT ![t] = place]

\* The client's loop after a call that failed: again, or on to the next one.
Failed(t, place) == /\ Goto(t, place)
                    /\ calls' = IF Retry THEN calls
                                ELSE [calls EXCEPT ![t] = @ + 1]
-----------------------------------------------------------------------------
(* enqueue *)

LoadTail(p) == /\ pc[p] = "enqueue"
               /\ calls[p] < Calls
               /\ currentTail' = [currentTail EXCEPT ![p] = tail_]
               /\ Goto(p, "is_full")
               /\ UNCHANGED <<head_, tail_, data_, fullTail, loaded, currentHead,
                              item, calls, accepted, delivered>>

\* is_full loads the tail again ...
FullLoadTail(p) == /\ pc[p] = "is_full"
                   /\ fullTail' = [fullTail EXCEPT ![p] = tail_]
                   /\ Goto(p, "full_head")
                   /\ UNCHANGED <<head_, tail_, data_, currentTail, loaded,
                                  currentHead, item, calls, accepted, delivered>>

\* ... and then the head: the call fails, or goes on to store.
FullLoadHead(p) ==
    /\ pc[p] = "full_head"
    /\ \/ Full(fullTail[p], head_) /\ Failed(p, "enqueue")
       \/ ~Full(fullTail[p], head_) /\ Goto(p, "store") /\ UNCHANGED calls
    /\ UNCHANGED <<head_, tail_, data_, currentTail, fullTail, loaded,
                   currentHead, item, accepted, delivered>>

StoreData(p) == /\ pc[p] = "store"
                /\ data_' = [data_ EXCEPT ![currentTail[p]] = <<p, calls[p] + 1>>]
                /\ Goto(p, "publish")
                /\ UNCHANGED <<head_, tail_, currentTail, fullTail, loaded,
                               currentHead, item, calls, accepted, delivered>>

PublishTail(p) == /\ pc[p] = "publish"
                  /\ tail_' = nextIndex(currentTail[p])
                  /\ accepted' = Append(accepted, <<p, calls[p] + 1>>)
                  /\ calls' = [calls EXCEPT ![p] = @ + 1]
                  /\ Goto(p, "enqueue")
                  /\ UNCHANGED <<head_, data_, currentTail, fullTail, loaded,
                                 currentHead, item, delivered>>
-----------------------------------------------------------------------------
(* dequeue.  The two loads of is_empty are operands of ==, which C++       *)
(* evaluates in either order.                                              *)

EmptyLoadFirst(c) ==
    /\ pc[c] = "is_empty"
    /\ calls[c] < Calls
    /\ \/ loaded' = [loaded EXCEPT ![c] = head_] /\ Goto(c, "empty_tail")
       \/ loaded' = [loaded EXCEPT ![c] = tail_] /\ Goto(c, "empty_head")
    /\ UNCHANGED <<head_, tail_, data_, currentTail, fullTail, currentHead,
                   item, calls, accepted, delivered>>

EmptySeen(c, second) ==
    \/ loaded[c] = second /\ Failed(c, "is_empty")
    \/ loaded[c] # second /\ Goto(c, "dequeue") /\ UNCHANGED calls

EmptyLoadSecond(c) ==
    /\ \/ pc[c] = "empty_tail" /\ EmptySeen(c, tail_)
       \/ pc[c] = "empty_head" /\ EmptySeen(c, head_)
    /\ UNCHANGED <<head_, tail_, data_, currentTail, fullTail, loaded,
                   currentHead, item, accepted, delivered>>

LoadHead(c) == /\ pc[c] = "dequeue"
               /\ currentHead' = [currentHead EXCEPT ![c] = head_]
               /\ Goto(c, "take")
               /\ UNCHANGED <<head_, tail_, data_, currentTail, fullTail, loaded,
                              item, calls, accepted, delivered>>

TakeData(c) == /\ pc[c] = "take"
               /\ item' = [item EXCEPT ![c] = data_[currentHead[c]]]
               /\ Goto(c, "release")
               /\ UNCHANGED <<head_, tail_, data_, currentTail, fullTail, loaded,
                              currentHead, calls, accepted, delivered>>

ReleaseHead(c) == /\ pc[c] = "release"
                  /\ head_' = nextIndex(currentHead[c])
                  /\ delivered' = Append(delivered, item[c])
                  /\ calls' = [calls EXCEPT ![c] = @ + 1]
                  /\ Goto(c, "is_empty")
                  /\ UNCHANGED <<tail_, data_, currentTail, fullTail, loaded,
                                 currentHead, item, accepted>>
-----------------------------------------------------------------------------
ProducerStep(p) == \/ LoadTail(p) \/ FullLoadTail(p) \/ FullLoadHead(p)
                   \/ StoreData(p) \/ PublishTail(p)

ConsumerStep(c) == \/ EmptyLoadFirst(c) \/ EmptyLoadSecond(c) \/ LoadHead(c)
                   \/ TakeData(c) \/ ReleaseHead(c)

AllJoined == \A t \in Thread : calls[t] = Calls

Next == \/ \E p \in Producers : ProducerStep(p)
        \/ \E c \in Consumers : ConsumerStep(c)
        \/ AllJoined /\ UNCHANGED vars

Spec == Init /\ [][Next]_vars

\* Every running thread keeps getting scheduled.
FairSpec == /\ Spec
            /\ \A p \in Producers : WF_vars(ProducerStep(p))
            /\ \A c \in Consumers : WF_vars(ConsumerStep(c))
-----------------------------------------------------------------------------
TypeOK == /\ head_ \in Slots /\ tail_ \in Slots
          /\ data_ \in [Slots -> Item \cup {Empty}]
          /\ pc \in [Thread -> {"enqueue", "is_full", "full_head", "store", "publish",
                                "is_empty", "empty_tail", "empty_head", "dequeue",
                                "take", "release"}]
          /\ currentTail \in [Producers -> Slots]
          /\ fullTail \in [Producers -> Slots]
          /\ loaded \in [Consumers -> Slots]
          /\ currentHead \in [Consumers -> Slots]
          /\ item \in [Consumers -> Item \cup {Empty}]
          /\ calls \in [Thread -> 0..Calls]
          /\ accepted \in Seq(Item)
          /\ delivered \in Seq(Item \cup {Empty})

\* What head_ and tail_ say the ring holds, oldest first.
Size == (tail_ + Capacity - head_) % Capacity

Contents == [k \in 1..Size |-> data_[(head_ + k - 1) % Capacity]]

\* Nothing is lost, duplicated, reordered or made up: what was accepted is
\* what was delivered followed by what the ring holds.
LedgerBalances == accepted = delivered \o Contents

\* No slot is stored to by one thread while another reads it or stores to it:
\* data_ is not atomic.
NoDataRace ==
    LET slot(t) == IF t \in Producers THEN currentTail[t] ELSE currentHead[t]
    IN \A s, t \in Thread : pc[s] = "store" /\ pc[t] \in {"store", "take"}
                            /\ s # t => slot(s) # slot(t)

\* enqueue fails only while Capacity - 1 items are held: one slot is given up
\* to tell a full ring from an empty one, and no more.
RejectStep == \A p \in Producers : pc[p] = "full_head" /\ pc'[p] = "enqueue"
                                       => Size = Capacity - 1
RejectsOnlyWhenFull == [][RejectStep]_vars

\* The consumer of testQueue receives exactly what the producer sent, in order.
Queue == INSTANCE BoundedFIFO WITH Bound <- Capacity - 1, items <- Contents
FIFOSpec == Queue!Spec

\* The threads of the retrying tests all return: no item they wait for is
\* lost, and neither side spins for ever.
TestCompletes == <>AllJoined
=============================================================================
