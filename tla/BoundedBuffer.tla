---------------------------- MODULE BoundedBuffer ----------------------------
(***************************************************************************)
(* bounded_queue of boundedQueue.cpp, one mutex and two condition          *)
(* variables around a std::queue.  (BoundedBuffer of BoundedBuffer_cp.cpp  *)
(* is the same program around a std::vector.)  A call holds the mutex from *)
(* its beginning until it returns or waits, so that each such section is   *)
(* one action.  Each producer puts Calls items, each consumer gets as many.*)
(***************************************************************************)
EXTENDS Naturals, Sequences, CondVar

CONSTANTS Producers, Consumers,
          Capacity,     \* the constructor's size
          Calls         \* how often each thread calls put or get

Item == Producers \X (1..Calls)
Thread == Producers \cup Consumers

VARIABLES queue,
          cv_produce,   \* the threads asleep in put
          cv_consume,   \* the threads asleep in get
          calls,        \* how many calls of each thread have returned
          delivered     \* history: what the calls of get returned, in order

vars == <<queue, cv_produce, cv_consume, calls, delivered>>
-----------------------------------------------------------------------------
Init == /\ queue = <<>>
        /\ cv_produce = {} /\ cv_consume = {}
        /\ calls = [t \in Thread |-> 0]
        /\ delivered = <<>>

\* The predicate put waits for.
HasRoom(n) == n < Capacity

\* The two calls of notify_one.
TellConsumer == cv_consume' \in NotifyOne(cv_consume)
TellProducer == cv_produce' \in NotifyOne(cv_produce)

Returns(t) == calls' = [calls EXCEPT ![t] = @ + 1]
-----------------------------------------------------------------------------
\* The threads that may run: they have calls left and are not asleep.
AwakeProducers == {p \in Producers \ cv_produce : calls[p] < Calls}
AwakeConsumers == {c \in Consumers \ cv_consume : calls[c] < Calls}

Put(p) == /\ p \in AwakeProducers
          /\ HasRoom(Len(queue))
          /\ queue' = Append(queue, <<p, calls[p] + 1>>)
          /\ TellConsumer
          /\ Returns(p)
          /\ UNCHANGED <<cv_produce, delivered>>

PutWaits(p) == /\ p \in AwakeProducers
               /\ ~HasRoom(Len(queue))
               /\ cv_produce' = cv_produce \cup {p}
               /\ UNCHANGED <<queue, cv_consume, calls, delivered>>

Get(c) == /\ c \in AwakeConsumers
          /\ queue # <<>>
          /\ delivered' = Append(delivered, Head(queue))
          /\ queue' = Tail(queue)
          /\ TellProducer
          /\ Returns(c)
          /\ UNCHANGED cv_consume

GetWaits(c) == /\ c \in AwakeConsumers
               /\ queue = <<>>
               /\ cv_consume' = cv_consume \cup {c}
               /\ UNCHANGED <<queue, cv_produce, calls, delivered>>

WakeSpuriously ==
    /\ \/ cv_produce' \in WakeOne(cv_produce) /\ UNCHANGED cv_consume
       \/ cv_consume' \in WakeOne(cv_consume) /\ UNCHANGED cv_produce
    /\ UNCHANGED <<queue, calls, delivered>>

PutStep(p) == Put(p) \/ PutWaits(p)
GetStep(c) == Get(c) \/ GetWaits(c)

AllReturned == \A t \in Thread : calls[t] = Calls

Next == \/ \E p \in Producers : PutStep(p)
        \/ \E c \in Consumers : GetStep(c)
        \/ WakeSpuriously
        \/ AllReturned /\ UNCHANGED vars

Spec == Init /\ [][Next]_vars
-----------------------------------------------------------------------------
TypeOK == /\ queue \in Seq(Item)
          /\ cv_produce \in SUBSET Producers
          /\ cv_consume \in SUBSET Consumers
          /\ calls \in [Thread -> 0..Calls]
          /\ delivered \in Seq(Item)
=============================================================================
