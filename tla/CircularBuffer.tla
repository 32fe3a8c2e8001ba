--------------------------- MODULE CircularBuffer ----------------------------
(***************************************************************************)
(* CircularBuffer of CircularBuffers_1c1p.cpp: the monitor of              *)
(* BoundedBuffer, its items held in a ring with a head, a tail and a       *)
(* count, and the producer and consumer threads that main starts.          *)
(***************************************************************************)
EXTENDS Naturals, Sequences, FiniteSets, CondVar

CONSTANTS Producers, Consumers,
          max_size_,
          Calls,        \* the bound of the loops of producer and consumer
          Zero          \* what std::vector initialises a slot of buf_ with

ASSUME SizeAssumption == max_size_ \in Nat \ {0}
ASSUME CallsAssumption == Calls \in Nat
ASSUME ThreadsAssumption == Producers \cap Consumers = {}
ASSUME FiniteAssumption == IsFiniteSet(Producers) /\ IsFiniteSet(Consumers)

Item == Producers \X (1..Calls)
Thread == Producers \cup Consumers
Slots == 0..(max_size_ - 1)

VARIABLES buf_, head_, tail_, count_,
          not_full_,    \* the threads asleep in put
          not_empty_,   \* the threads asleep in get
          calls,        \* how many calls of each thread have returned
          delivered     \* history: what the calls of get returned, in order

vars == <<buf_, head_, tail_, count_, not_full_, not_empty_, calls, delivered>>
-----------------------------------------------------------------------------
Init == /\ buf_ = [s \in Slots |-> Zero]
        /\ head_ = 0 /\ tail_ = 0 /\ count_ = 0
        /\ not_full_ = {} /\ not_empty_ = {}
        /\ calls = [t \in Thread |-> 0]
        /\ delivered = <<>>

\* The mutation wraps around one slot too early.
WrapsEarly(index) == IF index + 2 >= max_size_ THEN 0 ELSE index + 1
Advance(index) == (index + 1) % max_size_

\* The predicates the two calls wait for; the mutation never waits.
SpaceAvailable == count_ < max_size_

Always == TRUE
DataAvailable == count_ > 0

\* The mutation signals only when the buffer was empty before.
TellFirst == IF count_ = 0 THEN not_empty_' \in NotifyOne(not_empty_)
             ELSE UNCHANGED not_empty_
SignalData == not_empty_' \in NotifyOne(not_empty_)

Awake(t) == t \notin not_full_ \cup not_empty_ /\ calls[t] < Calls
-----------------------------------------------------------------------------
Put(p) == /\ Awake(p)
          /\ SpaceAvailable
          /\ buf_' = [buf_ EXCEPT ![tail_] = <<p, calls[p] + 1>>]
          /\ tail_' = Advance(tail_)
          /\ count_' = count_ + 1
          /\ SignalData
          /\ calls' = [calls EXCEPT ![p] = @ + 1]
          /\ UNCHANGED <<head_, not_full_, delivered>>

PutWaits(p) == /\ Awake(p)
               /\ ~SpaceAvailable
               /\ not_full_' = not_full_ \cup {p}
               /\ UNCHANGED <<buf_, head_, tail_, count_, not_empty_, calls, delivered>>

Get(c) == /\ Awake(c)
          /\ DataAvailable
          /\ delivered' = Append(delivered, buf_[head_])
          /\ head_' = Advance(head_)
          /\ count_' = count_ - 1
          /\ not_full_' \in NotifyOne(not_full_)
          /\ calls' = [calls EXCEPT ![c] = @ + 1]
          /\ UNCHANGED <<buf_, tail_, not_empty_>>

GetWaits(c) == /\ Awake(c)
               /\ ~DataAvailable
               /\ not_empty_' = not_empty_ \cup {c}
               /\ UNCHANGED <<buf_, head_, tail_, count_, not_full_, calls, delivered>>

WakeSpuriously ==
    /\ \/ not_full_' \in WakeOne(not_full_) /\ UNCHANGED not_empty_
       \/ not_empty_' \in WakeOne(not_empty_) /\ UNCHANGED not_full_
    /\ UNCHANGED <<buf_, head_, tail_, count_, calls, delivered>>

PutStep(p) == Put(p) \/ PutWaits(p)
GetStep(c) == Get(c) \/ GetWaits(c)

AllReturned == \A t \in Thread : calls[t] = Calls

Next == \/ \E p \in Producers : PutStep(p)
        \/ \E c \in Consumers : GetStep(c)
        \/ WakeSpuriously
        \/ AllReturned /\ UNCHANGED vars

Spec == Init /\ [][Next]_vars

\* A thread that is awake gets the mutex at last; nobody wakes by itself.
FairSpec == /\ Spec
            /\ \A p \in Producers : WF_vars(PutStep(p))
            /\ \A c \in Consumers : WF_vars(GetStep(c))
-----------------------------------------------------------------------------
TypeOK == /\ buf_ \in [Slots -> Item \cup {Zero}]
          /\ head_ \in Slots /\ tail_ \in Slots /\ count_ \in 0..max_size_
          /\ not_full_ \in SUBSET Producers
          /\ not_empty_ \in SUBSET Consumers
          /\ calls \in [Thread -> 0..Calls]
          /\ delivered \in Seq(Item \cup {Zero})

\* The items held, oldest first: all slots when the count says so, although
\* head_ = tail_ then as in an empty ring.
Contents == [k \in 1..count_ |-> buf_[(head_ + k - 1) % max_size_]]

\* The ring implements the monitor: the same calls wait, are woken and return
\* in the same steps, with the same items.
Monitor == INSTANCE BoundedBuffer
             WITH Capacity <- max_size_, queue <- Contents,
                  cv_produce <- not_full_, cv_consume <- not_empty_
MonitorSpec == Monitor!Spec

\* No signal is wasted: while a consumer sleeps, an awake consumer is left for
\* every item held, and while a producer sleeps one for every free place.
AwakeConsumers == {c \in Consumers \ not_empty_ : calls[c] < Calls}
AwakeProducers == {p \in Producers \ not_full_ : calls[p] < Calls}

NobodyMissed ==
    /\ not_empty_ # {} => count_ <= Cardinality(AwakeConsumers)
    /\ not_full_ # {} => max_size_ - count_ <= Cardinality(AwakeProducers)

\* The buffer is a FIFO of max_size_ places: whoever is woken, by a signal or
\* spuriously, checks the count again before touching the ring.
FIFO == INSTANCE BoundedFIFO WITH Bound <- max_size_, items <- Contents
FIFOSpec == FIFO!Spec
=============================================================================
