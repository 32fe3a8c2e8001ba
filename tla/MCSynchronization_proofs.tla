----------------------- MODULE MCSynchronization_proofs -----------------------
(***************************************************************************)
(* The objects of MCSynchronization for any finite sets of threads, any    *)
(* sizes and any number of calls, CircularBuffer first: each keeps its     *)
(* invariant, so that nobody who sleeps is forgotten, the rings are FIFO   *)
(* queues, and whoever is to be alone inside is.                           *)
(***************************************************************************)
EXTENDS MCSynchronization, DataLemmas
-----------------------------------------------------------------------------
(* CircularBuffer: the inductive invariant. *)

\* count_ slots from the head on hold items, and the tail is the slot after.
RingShape ==
    /\ tail_ = IF count_ = max_size_ THEN head_ ELSE Slot(head_, count_ + 1, max_size_)
    /\ \A k \in 1..count_ : buf_[Slot(head_, k, max_size_)] \in Item

\* Nobody goes to sleep after its last call.
SleepersCall == \A t \in not_full_ \cup not_empty_ : calls[t] < Calls

DeliveredItems == delivered \in Seq(Item)

IInv == TypeOK /\ RingShape /\ SleepersCall /\ NobodyMissed /\ DeliveredItems
-----------------------------------------------------------------------------
(* The contents as a sequence. *)

LEMMA ContentsValue ==
    ASSUME TypeOK, RingShape
    PROVE  /\ Contents \in Seq(Item)
           /\ Len(Contents) = count_
           /\ \A k \in 1..count_ : Contents[k] = buf_[Slot(head_, k, max_size_)]
<1>1. count_ \in Nat
  BY SizeAssumption DEF TypeOK
<1>2. Contents = [k \in 1..count_ |-> buf_[Slot(head_, k, max_size_)]]
  BY DEF Contents, Slot
<1>3. Contents \in [1..count_ -> Item]
  BY <1>2 DEF RingShape
<1> QED BY <1>1, <1>2, <1>3

\* The slot at the tail is free unless the ring is full.
LEMMA TailFree ==
    ASSUME TypeOK, RingShape, count_ < max_size_
    PROVE  \A k \in 1..count_ : /\ Slot(head_, k, max_size_) # tail_
                                /\ Slot(head_, k, max_size_) \in Slots
<1>1. /\ max_size_ \in Nat \ {0} /\ head_ \in 0..(max_size_ - 1) /\ count_ \in 0..max_size_
      /\ count_ + 1 \in 1..max_size_ /\ count_ # max_size_
  BY SizeAssumption DEF TypeOK, Slots
<1>2. ASSUME NEW k \in 1..count_
      PROVE  Slot(head_, k, max_size_) # tail_ /\ Slot(head_, k, max_size_) \in Slots
  <2>1. k \in 1..max_size_ /\ k # count_ + 1
    BY <1>1
  <2>2. Slot(head_, k, max_size_) # Slot(head_, count_ + 1, max_size_)
    BY <1>1, <2>1, SlotsDistinct
  <2> QED BY <1>1, <2>1, <2>2, SlotValue DEF RingShape, Slots
<1> QED BY <1>2

LEMMA PutRing ==
    ASSUME IInv, NEW p \in Producers, Put(p)
    PROVE  /\ TypeOK' /\ RingShape'
           /\ Contents' = Append(Contents, <<p, calls[p] + 1>>)
           /\ <<p, calls[p] + 1>> \in Item
<1> DEFINE C == max_size_
           x == <<p, calls[p] + 1>>
<1>0. /\ C \in Nat \ {0} /\ head_ \in 0..(C - 1) /\ tail_ \in 0..(C - 1)
      /\ count_ \in 0..C /\ count_ < C /\ count_ + 1 \in 1..C /\ count_ # C
      /\ TypeOK /\ RingShape /\ p \in Thread /\ calls[p] \in 0..Calls /\ calls[p] < Calls
      /\ calls \in [Thread -> 0..Calls]
  BY SizeAssumption DEF IInv, TypeOK, Slots, Put, SpaceAvailable, Awake, Thread
<1>1. x \in Item
  BY <1>0, CallsAssumption DEF Item
<1>2. tail_ = Slot(head_, count_ + 1, C)
  BY <1>0 DEF RingShape
<1>3. tail_' \in 0..(C - 1)
  BY <1>0, NextValue DEF Put, Advance
<1>4. TypeOK'
  <2>1. not_empty_' \in SUBSET Consumers
    BY <1>0 DEF TypeOK, Put, SignalData, NotifyOne
  <2>2. calls' \in [Thread -> 0..Calls]
    <3>1. calls[p] + 1 \in 0..Calls
      BY <1>0, CallsAssumption
    <3> QED BY <1>0, <3>1 DEF Put
  <2>3. buf_' \in [Slots -> Item \cup {Zero}]
    BY <1>0, <1>1 DEF TypeOK, Put
  <2>4. count_' \in 0..C
    BY <1>0 DEF Put
  <2> QED BY <1>0, <1>3, <2>1, <2>2, <2>3, <2>4 DEF TypeOK, Put, Slots
<1>5. \A k \in 1..count_ : buf_'[Slot(head_, k, C)] = buf_[Slot(head_, k, C)]
  BY <1>0, TailFree DEF TypeOK, Put
<1>6. buf_'[Slot(head_, count_ + 1, C)] = x
  BY <1>0, <1>2 DEF TypeOK, Put, Slots
<1>7. RingShape'
  <2>1. tail_' = IF count_ + 1 = C THEN head_ ELSE Slot(head_, (count_ + 1) + 1, C)
    <3>1. CASE count_ + 1 = C
      <4>1. tail_ = IF head_ + (count_ + 1) - 1 < C THEN head_ + (count_ + 1) - 1
                    ELSE head_ + (count_ + 1) - 1 - C
        BY <1>0, <1>2, SlotValue
      <4>2. tail_' = IF tail_ + 1 < C THEN tail_ + 1 ELSE 0
        BY <1>0, NextValue DEF Put, Advance
      <4> QED BY <1>0, <3>1, <4>1, <4>2
    <3>2. CASE count_ + 1 # C
      <4>1. count_ + 1 \in 1..(C - 1)
        BY <1>0, <3>2
      <4>2. Slot(head_, (count_ + 1) + 1, C) = (Slot(head_, count_ + 1, C) + 1) % C
        BY <1>0, <4>1, NextSlot
      <4> QED BY <1>2, <3>2, <4>2 DEF Put, Advance
    <3> QED BY <3>1, <3>2
  <2>2. \A k \in 1..(count_ + 1) : buf_'[Slot(head_, k, C)] \in Item
    <3>1. ASSUME NEW k \in 1..(count_ + 1) PROVE buf_'[Slot(head_, k, C)] \in Item
      <4>1. k \in 1..count_ \/ k = count_ + 1
        BY <1>0
      <4> QED BY <1>0, <1>1, <1>5, <1>6, <4>1 DEF RingShape
    <3> QED BY <3>1
  <2> QED BY <2>1, <2>2 DEF RingShape, Put, Slot
<1>8. Contents' = Append(Contents, x)
  <2>1. /\ Contents \in Seq(Item) /\ Len(Contents) = count_
        /\ \A k \in 1..count_ : Contents[k] = buf_[Slot(head_, k, C)]
    BY <1>0, ContentsValue
  <2>2. Contents' = [k \in 1..(count_ + 1) |-> buf_'[Slot(head_, k, C)]]
    BY DEF Contents, Slot, Put
  <2>3. PICK t : t = Append(Contents, x)
    OBVIOUS
  <2>4. /\ t \in Seq(Item) /\ Len(t) = count_ + 1
        /\ \A k \in 1..count_ : t[k] = Contents[k]
        /\ t[count_ + 1] = x
    BY <1>1, <2>1, <2>3, AppendProperties
  <2>5. \A k \in 1..(count_ + 1) : buf_'[Slot(head_, k, C)] = t[k] /\ t[k] \in Item
    <3>1. ASSUME NEW k \in 1..(count_ + 1)
          PROVE  buf_'[Slot(head_, k, C)] = t[k] /\ t[k] \in Item
      <4>1. k \in 1..count_ \/ k = count_ + 1
        BY <1>0
      <4>2. buf_'[Slot(head_, k, C)] = t[k]
        BY <1>5, <1>6, <2>1, <2>4, <4>1
      <4> QED BY <1>0, <2>4, <4>2
    <3> QED BY <3>1
  <2>6. PICK s : s = Contents'
    OBVIOUS
  <2>7. s \in [1..(count_ + 1) -> Item] /\ \A k \in 1..(count_ + 1) : s[k] = t[k]
    BY <2>2, <2>5, <2>6
  <2>8. s \in Seq(Item) /\ Len(s) = count_ + 1
    BY <1>0, <2>7
  <2> QED BY <2>3, <2>4, <2>6, <2>7, <2>8, SeqEqual
<1> QED BY <1>1, <1>4, <1>7, <1>8

LEMMA GetRing ==
    ASSUME IInv, NEW c \in Consumers, Get(c)
    PROVE  /\ TypeOK' /\ RingShape' /\ DeliveredItems'
           /\ Contents # <<>>
           /\ Contents' = Tail(Contents)
           /\ delivered' = Append(delivered, Head(Contents))
<1> DEFINE C == max_size_
<1>0. /\ C \in Nat \ {0} /\ head_ \in 0..(C - 1) /\ tail_ \in 0..(C - 1)
      /\ count_ \in 1..C /\ count_ - 1 \in 0..(C - 1) /\ count_ - 1 # C
      /\ TypeOK /\ RingShape /\ c \in Thread /\ calls[c] \in 0..Calls /\ calls[c] < Calls
      /\ calls \in [Thread -> 0..Calls] /\ DeliveredItems
  BY SizeAssumption DEF IInv, TypeOK, Slots, Get, DataAvailable, Awake, Thread
<1>1. /\ Contents \in Seq(Item) /\ Len(Contents) = count_
      /\ \A k \in 1..count_ : Contents[k] = buf_[Slot(head_, k, C)]
  BY <1>0, ContentsValue
<1>2. Contents # <<>> /\ Head(Contents) = buf_[head_] /\ buf_[head_] \in Item
  <2>1. 1 \in 1..count_ /\ Slot(head_, 1, C) = head_
    BY <1>0, HeadSlot
  <2>2. Contents[1] = buf_[head_] /\ buf_[head_] \in Item
    BY <1>0, <1>1, <2>1 DEF RingShape
  <2>3. Contents # <<>>
    BY <1>0, <1>1
  <2> QED BY <1>1, <2>2, <2>3
<1>3. delivered' = Append(delivered, Head(Contents)) /\ DeliveredItems'
  BY <1>0, <1>2, AppendProperties DEF Get, DeliveredItems
<1>4. head_' \in 0..(C - 1)
  BY <1>0, NextValue DEF Get, Advance
<1>5. TypeOK'
  <2>1. not_full_' \in SUBSET Producers
    BY <1>0 DEF TypeOK, Get, NotifyOne
  <2>2. calls' \in [Thread -> 0..Calls]
    <3>1. calls[c] + 1 \in 0..Calls
      BY <1>0, CallsAssumption
    <3> QED BY <1>0, <3>1 DEF Get
  <2>3. count_' \in 0..C
    BY <1>0 DEF Get
  <2>4. delivered' \in Seq(Item \cup {Zero})
    BY <1>0, <1>2, AppendProperties DEF TypeOK, Get
  <2> QED BY <1>0, <1>4, <2>1, <2>2, <2>3, <2>4 DEF TypeOK, Get, Slots
\* The head moves on, so that the k-th slot held is the one that was next.
<1>6. ASSUME NEW k \in 1..(C - 1)
      PROVE  Slot(head_', k, C) = Slot(head_, k + 1, C)
  BY <1>0, HeadSlot DEF Get, Advance
<1>7. RingShape'
  <2>1. tail_ = Slot(head_', (count_ - 1) + 1, C)
    <3>1. CASE count_ = C
      <4>1. tail_ = head_
        BY <1>0, <3>1 DEF RingShape
      <4>2. PICK u \in 0..(C - 1) : u = head_'
        BY <1>4
      <4>3. u = IF head_ + 1 < C THEN head_ + 1 ELSE 0
        BY <1>0, <4>2, NextValue DEF Get, Advance
      <4>4. Slot(u, C, C) = IF u + C - 1 < C THEN u + C - 1 ELSE u + C - 1 - C
        BY <1>0, SlotValue
      <4>5. Slot(u, C, C) = head_
        BY <1>0, <4>3, <4>4
      <4>6. (count_ - 1) + 1 = C
        BY <1>0, <3>1
      <4> QED BY <4>1, <4>2, <4>5, <4>6
    <3>2. CASE count_ # C
      <4>1. count_ \in 1..(C - 1) /\ (count_ - 1) + 1 = count_
        BY <1>0, <3>2
      <4>2. Slot(head_', count_, C) = Slot(head_, count_ + 1, C)
        BY <1>6, <4>1
      <4>3. tail_ = Slot(head_, count_ + 1, C)
        BY <1>0, <3>2 DEF RingShape
      <4>4. Slot(head_', (count_ - 1) + 1, C) = Slot(head_', count_, C)
        BY <4>1, Zenon
      <4> QED BY <4>2, <4>3, <4>4
    <3> QED BY <3>1, <3>2
  <2>2. \A k \in 1..(count_ - 1) : buf_[Slot(head_', k, C)] \in Item
    <3>1. ASSUME NEW k \in 1..(count_ - 1) PROVE buf_[Slot(head_', k, C)] \in Item
      <4>1. k \in 1..(C - 1) /\ k + 1 \in 1..count_
        BY <1>0
      <4> QED BY <1>0, <1>6, <4>1 DEF RingShape
    <3> QED BY <3>1
  <2>3. tail_' = tail_ /\ buf_' = buf_ /\ count_' = count_ - 1
    BY DEF Get
  <2> QED BY <1>0, <2>1, <2>2, <2>3 DEF RingShape, Slot
<1>8. Contents' = Tail(Contents)
  <2>1. Contents' = [k \in 1..(count_ - 1) |-> buf_[Slot(head_', k, C)]]
    BY DEF Contents, Slot, Get
  <2>2. PICK t : t = Tail(Contents)
    OBVIOUS
  <2>3. /\ t \in Seq(Item) /\ Len(t) = count_ - 1
        /\ \A k \in 1..(count_ - 1) : t[k] = Contents[k + 1]
    BY <1>1, <1>2, <2>2, HeadTailProperties
  <2>4. \A k \in 1..(count_ - 1) : buf_[Slot(head_', k, C)] = t[k] /\ t[k] \in Item
    <3>1. ASSUME NEW k \in 1..(count_ - 1)
          PROVE  buf_[Slot(head_', k, C)] = t[k] /\ t[k] \in Item
      <4>1. k \in 1..(C - 1) /\ k + 1 \in 1..count_
        BY <1>0
      <4>2. buf_[Slot(head_', k, C)] = t[k]
        BY <1>1, <1>6, <2>3, <4>1
      <4> QED BY <1>0, <2>3, <4>2
    <3> QED BY <3>1
  <2>5. PICK s : s = Contents'
    OBVIOUS
  <2>6. s \in [1..(count_ - 1) -> Item] /\ \A k \in 1..(count_ - 1) : s[k] = t[k]
    BY <2>1, <2>4, <2>5
  <2>7. s \in Seq(Item) /\ Len(s) = count_ - 1
    BY <1>0, <2>6
  <2> QED BY <2>2, <2>3, <2>5, <2>6, <2>7, SeqEqual
<1> QED BY <1>2, <1>3, <1>5, <1>7, <1>8
-----------------------------------------------------------------------------
(* Signals and sleepers: what a step does to the threads that are awake. *)

LEMMA AwakeFinite ==
    /\ IsFiniteSet(AwakeConsumers) /\ Cardinality(AwakeConsumers) \in Nat
    /\ IsFiniteSet(AwakeProducers) /\ Cardinality(AwakeProducers) \in Nat
<1>1. IsFiniteSet(AwakeConsumers)
  BY FiniteAssumption, FS_Subset DEF AwakeConsumers
<1>2. IsFiniteSet(AwakeProducers)
  BY FiniteAssumption, FS_Subset DEF AwakeProducers
<1> QED BY <1>1, <1>2, FS_CardinalityType

LEMMA OneMore ==
    ASSUME NEW A, NEW B, IsFiniteSet(A), IsFiniteSet(B), NEW x, x \notin A, A \cup {x} \subseteq B
    PROVE  Cardinality(A) + 1 <= Cardinality(B)
<1>1. Cardinality(A \cup {x}) = Cardinality(A) + 1
  BY FS_AddElement
<1>2. Cardinality(A \cup {x}) <= Cardinality(B)
  BY FS_Subset
<1> QED BY <1>1, <1>2

LEMMA OneLess ==
    ASSUME NEW A, NEW B, IsFiniteSet(A), IsFiniteSet(B), NEW x, A \ {x} \subseteq B
    PROVE  Cardinality(A) - 1 <= Cardinality(B)
<1>1. Cardinality(A \ {x}) = IF x \in A THEN Cardinality(A) - 1 ELSE Cardinality(A)
  BY FS_RemoveElement
<1>2. Cardinality(A \ {x}) <= Cardinality(B) /\ Cardinality(A) \in Nat /\ Cardinality(B) \in Nat
  BY FS_Subset, FS_CardinalityType
<1> QED BY <1>1, <1>2

LEMMA PutMissed ==
    ASSUME IInv, NEW p \in Producers, Put(p)
    PROVE  SleepersCall' /\ NobodyMissed'
<1>0. /\ TypeOK /\ SleepersCall /\ NobodyMissed /\ p \notin Consumers /\ p \notin not_full_ \cup not_empty_
      /\ p \in Thread /\ Thread = Producers \cup Consumers
      /\ not_full_ \subseteq Producers /\ not_empty_ \subseteq Consumers
      /\ calls \in [Thread -> 0..Calls] /\ count_ \in Nat /\ max_size_ \in Nat
  BY ThreadsAssumption, SizeAssumption DEF IInv, TypeOK, Put, Awake, Thread
<1>1. /\ not_full_' = not_full_ /\ count_' = count_ + 1
      /\ calls' = [calls EXCEPT ![p] = @ + 1]
      /\ not_empty_' \in NotifyOne(not_empty_)
  BY DEF Put, SignalData
<1>2. \A t \in Thread : t # p => calls'[t] = calls[t]
  BY <1>0, <1>1
<1>3. not_empty_' \subseteq not_empty_
  BY <1>1 DEF NotifyOne
<1>4. SleepersCall'
  BY <1>0, <1>1, <1>2, <1>3 DEF SleepersCall
<1>5. IsFiniteSet(AwakeConsumers') /\ IsFiniteSet(AwakeProducers')
      /\ Cardinality(AwakeConsumers') \in Nat /\ Cardinality(AwakeProducers') \in Nat
  <2>1. AwakeConsumers' \subseteq Consumers /\ AwakeProducers' \subseteq Producers
    BY DEF AwakeConsumers, AwakeProducers
  <2> QED BY <2>1, FiniteAssumption, FS_Subset, FS_CardinalityType
<1>6. not_empty_' # {} => count_' <= Cardinality(AwakeConsumers')
  <2> SUFFICES ASSUME not_empty_' # {}
               PROVE  count_' <= Cardinality(AwakeConsumers')
    OBVIOUS
  <2>1. not_empty_ # {}
    BY <1>3
  <2>2. PICK t \in not_empty_ : not_empty_' = not_empty_ \ {t}
    BY <1>1, <2>1 DEF NotifyOne
  <2>3. t \in Consumers /\ calls[t] < Calls /\ t # p /\ calls'[t] < Calls
    BY <1>0, <1>2, <2>2 DEF SleepersCall
  <2>4. t \notin AwakeConsumers /\ AwakeConsumers \cup {t} \subseteq AwakeConsumers'
    BY <1>0, <1>2, <2>2, <2>3 DEF AwakeConsumers
  <2>5. Cardinality(AwakeConsumers) + 1 <= Cardinality(AwakeConsumers')
    BY <1>5, <2>4, AwakeFinite, OneMore
  <2> QED BY <1>0, <1>1, <1>5, <2>1, <2>5, AwakeFinite DEF NobodyMissed
<1>7. not_full_' # {} => max_size_ - count_' <= Cardinality(AwakeProducers')
  <2>1. AwakeProducers \ {p} \subseteq AwakeProducers'
    BY <1>0, <1>1, <1>2 DEF AwakeProducers
  <2>2. Cardinality(AwakeProducers) - 1 <= Cardinality(AwakeProducers')
    BY <1>5, <2>1, AwakeFinite, OneLess
  <2> QED BY <1>0, <1>1, <1>5, <2>2, AwakeFinite DEF NobodyMissed
<1> QED BY <1>4, <1>6, <1>7 DEF NobodyMissed

LEMMA GetMissed ==
    ASSUME IInv, NEW c \in Consumers, Get(c)
    PROVE  SleepersCall' /\ NobodyMissed'
<1>0. /\ TypeOK /\ SleepersCall /\ NobodyMissed /\ c \notin Producers /\ c \notin not_full_ \cup not_empty_
      /\ c \in Thread /\ Thread = Producers \cup Consumers
      /\ not_full_ \subseteq Producers /\ not_empty_ \subseteq Consumers
      /\ calls \in [Thread -> 0..Calls] /\ count_ \in Nat /\ count_ > 0 /\ max_size_ \in Nat
  BY ThreadsAssumption, SizeAssumption DEF IInv, TypeOK, Get, Awake, Thread, DataAvailable
<1>1. /\ not_empty_' = not_empty_ /\ count_' = count_ - 1
      /\ calls' = [calls EXCEPT ![c] = @ + 1]
      /\ not_full_' \in NotifyOne(not_full_)
  BY DEF Get
<1>2. \A t \in Thread : t # c => calls'[t] = calls[t]
  BY <1>0, <1>1
<1>3. not_full_' \subseteq not_full_
  BY <1>1 DEF NotifyOne
<1>4. SleepersCall'
  BY <1>0, <1>1, <1>2, <1>3 DEF SleepersCall
<1>5. IsFiniteSet(AwakeConsumers') /\ IsFiniteSet(AwakeProducers')
      /\ Cardinality(AwakeConsumers') \in Nat /\ Cardinality(AwakeProducers') \in Nat
  <2>1. AwakeConsumers' \subseteq Consumers /\ AwakeProducers' \subseteq Producers
    BY DEF AwakeConsumers, AwakeProducers
  <2> QED BY <2>1, FiniteAssumption, FS_Subset, FS_CardinalityType
<1>6. not_full_' # {} => max_size_ - count_' <= Cardinality(AwakeProducers')
  <2> SUFFICES ASSUME not_full_' # {}
               PROVE  max_size_ - count_' <= Cardinality(AwakeProducers')
    OBVIOUS
  <2>1. not_full_ # {}
    BY <1>3
  <2>2. PICK t \in not_full_ : not_full_' = not_full_ \ {t}
    BY <1>1, <2>1 DEF NotifyOne
  <2>3. t \in Producers /\ calls[t] < Calls /\ t # c /\ calls'[t] < Calls
    BY <1>0, <1>2, <2>2 DEF SleepersCall
  <2>4. t \notin AwakeProducers /\ AwakeProducers \cup {t} \subseteq AwakeProducers'
    BY <1>0, <1>2, <2>2, <2>3 DEF AwakeProducers
  <2>5. Cardinality(AwakeProducers) + 1 <= Cardinality(AwakeProducers')
    BY <1>5, <2>4, AwakeFinite, OneMore
  <2> QED BY <1>0, <1>1, <1>5, <2>1, <2>5, AwakeFinite DEF NobodyMissed
<1>7. not_empty_' # {} => count_' <= Cardinality(AwakeConsumers')
  <2>1. AwakeConsumers \ {c} \subseteq AwakeConsumers'
    BY <1>0, <1>1, <1>2 DEF AwakeConsumers
  <2>2. Cardinality(AwakeConsumers) - 1 <= Cardinality(AwakeConsumers')
    BY <1>5, <2>1, AwakeFinite, OneLess
  <2> QED BY <1>0, <1>1, <1>5, <2>2, AwakeFinite DEF NobodyMissed
<1> QED BY <1>4, <1>6, <1>7 DEF NobodyMissed
-----------------------------------------------------------------------------
(* The steps that only put threads to sleep or wake them. *)

RingUnchanged == UNCHANGED <<buf_, head_, tail_, count_, calls, delivered>>

LEMMA SleepersPreserve ==
    ASSUME IInv, RingUnchanged,
           not_full_' \subseteq Producers, not_empty_' \subseteq Consumers,
           \A t \in not_full_' \cup not_empty_' : calls[t] < Calls,
           not_empty_' # {} => count_ = 0 \/ (not_empty_' \subseteq not_empty_),
           not_full_' # {} => count_ = max_size_ \/ (not_full_' \subseteq not_full_)
    PROVE  IInv' /\ Contents' = Contents
<1>0. /\ TypeOK /\ RingShape /\ SleepersCall /\ NobodyMissed /\ DeliveredItems
      /\ buf_' = buf_ /\ head_' = head_ /\ tail_' = tail_ /\ count_' = count_
      /\ calls' = calls /\ delivered' = delivered
      /\ count_ \in Nat /\ max_size_ \in Nat
  BY SizeAssumption DEF IInv, RingUnchanged, TypeOK
<1>1. TypeOK'
  BY <1>0 DEF TypeOK
<1>2. RingShape' /\ DeliveredItems' /\ Contents' = Contents
  BY <1>0 DEF RingShape, DeliveredItems, Contents
<1>3. SleepersCall'
  BY <1>0 DEF SleepersCall
<1>4. IsFiniteSet(AwakeConsumers') /\ IsFiniteSet(AwakeProducers')
      /\ Cardinality(AwakeConsumers') \in Nat /\ Cardinality(AwakeProducers') \in Nat
  <2>1. AwakeConsumers' \subseteq Consumers /\ AwakeProducers' \subseteq Producers
    BY DEF AwakeConsumers, AwakeProducers
  <2> QED BY <2>1, FiniteAssumption, FS_Subset, FS_CardinalityType
<1>5. not_empty_' # {} => count_' <= Cardinality(AwakeConsumers')
  <2>1. CASE count_ = 0
    BY <1>0, <1>4, <2>1
  <2>2. CASE not_empty_' # {} /\ not_empty_' \subseteq not_empty_
    <3>1. AwakeConsumers \subseteq AwakeConsumers' /\ not_empty_ # {}
      BY <1>0, <2>2 DEF AwakeConsumers
    <3>2. Cardinality(AwakeConsumers) <= Cardinality(AwakeConsumers')
      BY <1>4, <3>1, FS_Subset
    <3> QED BY <1>0, <1>4, <3>1, <3>2, AwakeFinite DEF NobodyMissed
  <2> QED BY <2>1, <2>2
<1>6. not_full_' # {} => max_size_ - count_' <= Cardinality(AwakeProducers')
  <2>1. CASE count_ = max_size_
    BY <1>0, <1>4, <2>1
  <2>2. CASE not_full_' # {} /\ not_full_' \subseteq not_full_
    <3>1. AwakeProducers \subseteq AwakeProducers' /\ not_full_ # {}
      BY <1>0, <2>2 DEF AwakeProducers
    <3>2. Cardinality(AwakeProducers) <= Cardinality(AwakeProducers')
      BY <1>4, <3>1, FS_Subset
    <3> QED BY <1>0, <1>4, <3>1, <3>2, AwakeFinite DEF NobodyMissed
  <2> QED BY <2>1, <2>2
<1> QED BY <1>1, <1>2, <1>3, <1>5, <1>6 DEF IInv, NobodyMissed

LEMMA PutWaitsPreserves ==
    ASSUME IInv, NEW p \in Producers, PutWaits(p)
    PROVE  IInv' /\ Contents' = Contents
<1>1. /\ RingUnchanged /\ not_full_' = not_full_ \cup {p} /\ not_empty_' = not_empty_
      /\ calls[p] < Calls /\ ~(count_ < max_size_)
  BY DEF PutWaits, RingUnchanged, Awake, SpaceAvailable
<1>2. count_ = max_size_ /\ not_full_ \subseteq Producers /\ not_empty_ \subseteq Consumers /\ SleepersCall
  BY <1>1, SizeAssumption DEF IInv, TypeOK
<1> QED BY <1>1, <1>2, SleepersPreserve DEF SleepersCall

LEMMA GetWaitsPreserves ==
    ASSUME IInv, NEW c \in Consumers, GetWaits(c)
    PROVE  IInv' /\ Contents' = Contents
<1>1. /\ RingUnchanged /\ not_empty_' = not_empty_ \cup {c} /\ not_full_' = not_full_
      /\ calls[c] < Calls /\ ~(count_ > 0)
  BY DEF GetWaits, RingUnchanged, Awake, DataAvailable
<1>2. count_ = 0 /\ not_full_ \subseteq Producers /\ not_empty_ \subseteq Consumers /\ SleepersCall
  BY <1>1, SizeAssumption DEF IInv, TypeOK
<1> QED BY <1>1, <1>2, SleepersPreserve DEF SleepersCall

LEMMA WakePreserves ==
    ASSUME IInv, WakeSpuriously
    PROVE  IInv' /\ Contents' = Contents
<1>1. /\ RingUnchanged /\ not_empty_' \subseteq not_empty_ /\ not_full_' \subseteq not_full_
  BY DEF WakeSpuriously, WakeOne, RingUnchanged
<1>2. not_full_ \subseteq Producers /\ not_empty_ \subseteq Consumers /\ SleepersCall
  BY DEF IInv, TypeOK
<1> QED BY <1>1, <1>2, SleepersPreserve DEF SleepersCall
-----------------------------------------------------------------------------
(* Invariance. *)

LEMMA InitIInv == Init => IInv /\ Contents = <<>>
<1> SUFFICES ASSUME Init PROVE IInv /\ Contents = <<>>
  OBVIOUS
<1>1. /\ 0 \in Slots /\ 0 \in 0..max_size_ /\ 0 # max_size_ /\ Slot(0, 1, max_size_) = 0
      /\ 0 \in 0..Calls
  BY SizeAssumption, CallsAssumption, HeadSlot DEF Slots
<1>2. TypeOK /\ SleepersCall /\ NobodyMissed /\ DeliveredItems
  BY <1>1 DEF Init, TypeOK, SleepersCall, NobodyMissed, DeliveredItems
<1>3. RingShape
  BY <1>1 DEF Init, RingShape
<1>4. Contents \in Seq(Item) /\ Len(Contents) = 0
  BY <1>2, <1>3, ContentsValue DEF Init
<1>5. Contents = <<>>
  BY <1>4, EmptySeq
<1> QED BY <1>2, <1>3, <1>5 DEF IInv

LEMMA StepIInv == IInv /\ [Next]_vars => IInv'
<1> SUFFICES ASSUME IInv, [Next]_vars PROVE IInv'
  OBVIOUS
<1>1. CASE \E p \in Producers : Put(p)
  <2>1. PICK p \in Producers : Put(p)
    BY <1>1
  <2>2. DeliveredItems'
    BY <2>1 DEF IInv, DeliveredItems, Put
  <2> QED BY <2>1, <2>2, PutRing, PutMissed DEF IInv
<1>2. CASE \E p \in Producers : PutWaits(p)
  BY <1>2, PutWaitsPreserves
<1>3. CASE \E c \in Consumers : Get(c)
  BY <1>3, GetRing, GetMissed DEF IInv
<1>4. CASE \E c \in Consumers : GetWaits(c)
  BY <1>4, GetWaitsPreserves
<1>5. CASE WakeSpuriously
  BY <1>5, WakePreserves
<1>6. CASE UNCHANGED vars
  BY <1>6 DEF vars, IInv, TypeOK, RingShape, SleepersCall, NobodyMissed, DeliveredItems,
              AwakeConsumers, AwakeProducers, Slot
<1> QED BY <1>1, <1>2, <1>3, <1>4, <1>5, <1>6 DEF Next, PutStep, GetStep

LEMMA Invariance == Spec => []IInv
BY InitIInv, StepIInv, PTL DEF Spec

\* The indices stay inside the ring, the count between 0 and the size, and only
\* producers sleep on not_full_, only consumers on not_empty_.
THEOREM TypeCorrect == Spec => []TypeOK
<1>1. IInv => TypeOK
  BY DEF IInv
<1> QED BY <1>1, Invariance, PTL

\* No signal is wasted: while a consumer sleeps, an awake consumer is left for
\* every item held, and while a producer sleeps one for every free place.
THEOREM NoSignalWasted == Spec => []NobodyMissed
<1>1. IInv => NobodyMissed
  BY DEF IInv
<1> QED BY <1>1, Invariance, PTL
-----------------------------------------------------------------------------
(* Refinement. *)

\* The ring and its client are the monitor BoundedBuffer: every step of the
\* code is a step of bounded_queue, or none.
THEOREM ImplementsMonitor == Spec => MonitorSpec
<1>1. Init => Monitor!Init
  BY InitIInv DEF Init, Monitor!Init, Thread, Monitor!Thread
<1>2. IInv /\ [Next]_vars => [Monitor!Next]_(Monitor!vars)
  <2> SUFFICES ASSUME IInv, [Next]_vars PROVE [Monitor!Next]_(Monitor!vars)
    OBVIOUS
  <2>0. /\ Contents \in Seq(Item) /\ Len(Contents) = count_ /\ count_ \in Nat
        /\ not_full_ \subseteq Producers /\ not_empty_ \subseteq Consumers
    BY ContentsValue, SizeAssumption DEF IInv, TypeOK
  <2>1. ASSUME NEW p \in Producers, Put(p) PROVE Monitor!Put(p)
    <3>1. p \in Monitor!AwakeProducers /\ Monitor!HasRoom(Len(Contents))
      BY <2>0, <2>1 DEF Put, Awake, SpaceAvailable, Monitor!AwakeProducers, Monitor!HasRoom
    <3>2. Contents' = Append(Contents, <<p, calls[p] + 1>>)
      BY <2>1, PutRing
    <3> QED BY <2>1, <3>1, <3>2 DEF Put, SignalData, NotifyOne, Monitor!Put, Monitor!TellConsumer,
                                    Monitor!NotifyOne, Monitor!Returns
  <2>2. ASSUME NEW p \in Producers, PutWaits(p) PROVE Monitor!PutWaits(p)
    <3>1. p \in Monitor!AwakeProducers /\ ~Monitor!HasRoom(Len(Contents))
      BY <2>0, <2>2 DEF PutWaits, Awake, SpaceAvailable, Monitor!AwakeProducers, Monitor!HasRoom
    <3> QED BY <2>2, <3>1, PutWaitsPreserves DEF PutWaits, Monitor!PutWaits
  <2>3. ASSUME NEW c \in Consumers, Get(c) PROVE Monitor!Get(c)
    <3>1. c \in Monitor!AwakeConsumers
      BY <2>0, <2>3 DEF Get, Awake, Monitor!AwakeConsumers
    <3> QED BY <2>3, <3>1, GetRing DEF Get, NotifyOne, Monitor!Get, Monitor!TellProducer,
                                       Monitor!NotifyOne, Monitor!Returns
  <2>4. ASSUME NEW c \in Consumers, GetWaits(c) PROVE Monitor!GetWaits(c)
    <3>1. c \in Monitor!AwakeConsumers /\ Contents = <<>>
      <4>1. count_ = 0
        BY <2>0, <2>4 DEF GetWaits, DataAvailable
      <4> QED BY <2>0, <2>4, <4>1, EmptySeq DEF GetWaits, Awake, Monitor!AwakeConsumers
    <3> QED BY <2>4, <3>1, GetWaitsPreserves DEF GetWaits, Monitor!GetWaits
  <2>5. CASE WakeSpuriously
    <3>1. UNCHANGED <<Contents, calls, delivered>>
      BY <2>5, WakePreserves DEF WakeSpuriously
    <3>2. \/ not_full_' \in Monitor!WakeOne(not_full_) /\ UNCHANGED not_empty_
          \/ not_empty_' \in Monitor!WakeOne(not_empty_) /\ UNCHANGED not_full_
      BY <2>5, Zenon DEF WakeSpuriously, WakeOne, Monitor!WakeOne
    <3> QED BY <3>1, <3>2 DEF Monitor!WakeSpuriously, Monitor!Next
  <2>6. CASE UNCHANGED vars
    BY <2>6 DEF vars, Contents, Monitor!vars
  <2> QED BY <2>1, <2>2, <2>3, <2>4, <2>5, <2>6
          DEF Next, PutStep, GetStep, Monitor!Next, Monitor!PutStep, Monitor!GetStep
<1> QED BY <1>1, <1>2, Invariance, PTL DEF Spec, MonitorSpec, Monitor!Spec

\* Whatever interleaving the threads are woken in, the buffer is a FIFO of
\* max_size_ places.
THEOREM ImplementsFIFO == Spec => FIFOSpec
<1>1. Init => FIFO!Init
  BY InitIInv DEF Init, FIFO!Init
<1>2. IInv /\ [Next]_vars => [FIFO!Next]_<<Contents, delivered>>
  <2> SUFFICES ASSUME IInv, [Next]_vars PROVE [FIFO!Next]_<<Contents, delivered>>
    OBVIOUS
  <2>1. ASSUME NEW p \in Producers, Put(p) PROVE FIFO!Next
    <3>1. Len(Contents) < max_size_
      BY <2>1, ContentsValue DEF IInv, Put, SpaceAvailable
    <3>2. FIFO!Put(<<p, calls[p] + 1>>) /\ <<p, calls[p] + 1>> \in Item
      BY <2>1, <3>1, PutRing DEF Put, FIFO!Put
    <3> QED BY <3>2 DEF FIFO!Next
  <2>2. ASSUME NEW c \in Consumers, Get(c) PROVE FIFO!Next
    BY <2>2, GetRing DEF FIFO!Get, FIFO!Next
  <2>3. ASSUME NEW p \in Producers, PutWaits(p) PROVE UNCHANGED <<Contents, delivered>>
    BY <2>3, PutWaitsPreserves DEF PutWaits
  <2>4. ASSUME NEW c \in Consumers, GetWaits(c) PROVE UNCHANGED <<Contents, delivered>>
    BY <2>4, GetWaitsPreserves DEF GetWaits
  <2>5. CASE WakeSpuriously
    BY <2>5, WakePreserves DEF WakeSpuriously
  <2>6. CASE UNCHANGED vars
    BY <2>6 DEF vars, Contents
  <2> QED BY <2>1, <2>2, <2>3, <2>4, <2>5, <2>6 DEF Next, PutStep, GetStep
<1> QED BY <1>1, <1>2, Invariance, PTL DEF Spec, FIFOSpec, FIFO!Spec
-----------------------------------------------------------------------------
(* The RingBuffer. *)

LEMMA SameRingCardinality == \A S : Ring!Cardinality(S) = Cardinality(S)
BY DEF Ring!Cardinality, Cardinality

\* Between tail and head lie nodes, as many as count says.
RingHolds == /\ count = Held(tail, head, size)
             /\ \A k \in 1..count : buffer[Slot(tail, k, size)] \in Ring!Node

RingSleepersCall == \A t \in not_full \cup not_empty : rb_calls[t] < Calls

RingProducers == {p \in Producers : Ring!Awake(p)}
RingConsumers == {c \in Consumers : Ring!Awake(c)}

RingCovered == /\ not_empty # {} => count <= Cardinality(RingConsumers)
               /\ memory /\ not_full # {} => size - 1 - count <= Cardinality(RingProducers)

\* A modifyData that has its index is not counted yet.
RingModifies == \A m \in Modifiers : actualIndex[m] # NULL => i[m] < size

RingInv == Ring!TypeOK /\ RingHolds /\ RingSleepersCall /\ RingCovered /\ RingModifies

LEMMA RingFacts ==
    ASSUME Ring!TypeOK, RingHolds
    PROVE  /\ size \in Nat \ {0} /\ head \in 0..(size - 1) /\ tail \in 0..(size - 1)
           /\ count \in 0..(size - 1) /\ Ring!Size = count
           /\ Slot(tail, count + 1, size) = head
           /\ \A k \in 1..count : /\ Slot(tail, k, size) # head
                                  /\ Slot(tail, k, size) \in 0..(size - 1)
<1>1. size \in Nat \ {0} /\ head \in 0..(size - 1) /\ tail \in 0..(size - 1)
  BY RingAssumption DEF Ring!TypeOK, Ring!Slots
<1>2. Ring!Size = Held(tail, head, size)
  BY DEF Ring!Size, Held
<1> QED BY <1>1, <1>2, TailSlot DEF RingHolds

LEMMA RingMissed == ASSUME RingInv PROVE Ring!NobodyMissed
<1>1. Ring!Size = count
  BY RingFacts DEF RingInv
<1> QED BY <1>1, SameRingCardinality
        DEF RingInv, RingCovered, Ring!NobodyMissed, RingProducers, RingConsumers

LEMMA RingContents ==
    ASSUME Ring!TypeOK, RingHolds
    PROVE  /\ Ring!Contents \in Seq(Ring!Node) /\ Len(Ring!Contents) = count
           /\ \A k \in 1..count : Ring!Contents[k] = buffer[Slot(tail, k, size)]
<1>1. count \in Nat /\ Ring!Size = count
  BY RingFacts
<1>2. Ring!Contents = [k \in 1..count |-> buffer[Slot(tail, k, size)]]
  BY <1>1 DEF Ring!Contents, Slot
<1>3. Ring!Contents \in [1..count -> Ring!Node]
  BY <1>2 DEF RingHolds
<1> QED BY <1>1, <1>2, <1>3

LEMMA RingInitially ==
    ASSUME Ring!Init PROVE RingInv /\ Ring!Contents = <<>>
<1>1. 0 \in 0..(size - 1) /\ 0 \in 0..size /\ 0 \in 0..Calls /\ Held(0, 0, size) = 0
  <2>1. 0 \in 0..(size - 1) /\ 0 \in 0..size /\ 0 \in 0..Calls
    BY RingAssumption, CallsAssumption
  <2> QED BY <2>1, RingAssumption, HeldValue
<1>2. Ring!TypeOK
  <2>1. buffer \in [Ring!Slots -> Ring!Node \cup {NULL, Garbage}]
    BY RingAssumption DEF Ring!Init
  <2>2. <<>> \in Seq(Ring!Node)
    OBVIOUS
  <2> QED BY <1>1, <2>1, <2>2 DEF Ring!Init, Ring!TypeOK, Ring!Slots
<1>3. RingHolds
  BY <1>1 DEF Ring!Init, RingHolds
<1>4. RingSleepersCall /\ RingCovered /\ RingModifies
  BY DEF Ring!Init, RingSleepersCall, RingCovered, RingModifies
<1>5. Ring!Contents \in Seq(Ring!Node) /\ Len(Ring!Contents) = 0
  BY <1>2, <1>3, RingContents DEF Ring!Init
<1> QED BY <1>2, <1>3, <1>4, <1>5, EmptySeq DEF RingInv

LEMMA RingThreadsFinite ==
    /\ IsFiniteSet(RingProducers) /\ Cardinality(RingProducers) \in Nat
    /\ IsFiniteSet(RingConsumers) /\ Cardinality(RingConsumers) \in Nat
    /\ IsFiniteSet(RingProducers') /\ Cardinality(RingProducers') \in Nat
    /\ IsFiniteSet(RingConsumers') /\ Cardinality(RingConsumers') \in Nat
<1>1. /\ RingProducers \subseteq Producers /\ RingProducers' \subseteq Producers
      /\ RingConsumers \subseteq Consumers /\ RingConsumers' \subseteq Consumers
  BY DEF RingProducers, RingConsumers
<1> QED BY <1>1, FiniteAssumption, FS_Subset, FS_CardinalityType

\* Two sets that differ by what one step did.
LEMMA RingInsert ==
    ASSUME RingInv, NEW p \in Producers, Ring!Insert(p)
    PROVE  /\ RingInv' /\ count < size - 1 /\ <<p, rb_calls[p] + 1>> \in Ring!Node
           /\ Ring!Contents' = Append(Ring!Contents, <<p, rb_calls[p] + 1>>)
<1> DEFINE C == size
           x == <<p, rb_calls[p] + 1>>
<1>1. /\ Ring!TypeOK /\ RingHolds /\ RingSleepersCall /\ RingCovered
      /\ C \in Nat \ {0} /\ head \in 0..(C - 1) /\ tail \in 0..(C - 1)
      /\ count \in 0..(C - 1) /\ count = Held(tail, head, C)
      /\ Slot(tail, count + 1, C) = head
      /\ \A k \in 1..count : Slot(tail, k, C) # head /\ Slot(tail, k, C) \in 0..(C - 1)
  BY RingFacts DEF RingInv, RingHolds
<1>2. /\ (head + 1) % C # tail /\ buffer' = [buffer EXCEPT ![head] = x]
      /\ head' = (head + 1) % C /\ count' = count + 1
      /\ not_empty' \in Ring!NotifyOne(not_empty)
      /\ rb_calls' = [rb_calls EXCEPT ![p] = rb_calls[p] + 1]
      /\ p \notin not_full \cup not_empty /\ rb_calls[p] < Calls
      /\ UNCHANGED <<tail, not_full, rb_delivered, i, actualIndex, touched, memory>>
  BY DEF Ring!Insert, Ring!is_full, Ring!Advance, Ring!SignalNotEmpty, Ring!Returns, Ring!Awake,
         Ring!modifying
<1>3. /\ rb_calls \in [Ring!Thread -> 0..Calls] /\ p \in Ring!Thread /\ rb_calls[p] \in 0..Calls
      /\ not_empty \subseteq Consumers /\ not_full \subseteq Producers /\ p \notin Consumers
      /\ Calls \in Nat
  BY <1>1, ThreadsAssumption, CallsAssumption DEF Ring!TypeOK, Ring!Thread
<1>4. rb_calls[p] + 1 \in 1..Calls /\ x \in Ring!Node
  BY <1>2, <1>3 DEF Ring!Node
<1>5. head' \in 0..(C - 1) /\ count' = Held(tail', head', C)
  BY <1>1, <1>2, NextValue, TailAdvances
<1>6. count + 1 \in 0..(C - 1)
  <2>1. Held(tail', head', C) \in 0..(C - 1)
    BY <1>1, <1>2, <1>5, TailSlot
  <2> QED BY <1>2, <1>5, <2>1
<1>7. buffer' \in [Ring!Slots -> Ring!Node \cup {NULL, Garbage}]
  BY <1>1, <1>2, <1>4 DEF Ring!TypeOK
<1>8. /\ \A k \in 1..count : buffer'[Slot(tail, k, C)] = buffer[Slot(tail, k, C)]
      /\ buffer'[Slot(tail, count + 1, C)] = x
  BY <1>1, <1>2 DEF Ring!TypeOK, Ring!Slots
<1>9. RingHolds'
  <2>1. ASSUME NEW k \in 1..(count + 1) PROVE buffer'[Slot(tail, k, C)] \in Ring!Node
    <3>1. k \in 1..count \/ k = count + 1
      BY <1>1
    <3> QED BY <1>1, <1>4, <1>8, <3>1 DEF RingHolds
  <2> QED BY <1>2, <1>5, <2>1 DEF RingHolds, Slot
<1>10. not_empty' \subseteq not_empty /\ (not_empty' # {} => \E w \in not_empty : not_empty' = not_empty \ {w})
  BY <1>2 DEF Ring!NotifyOne
<1>11. rb_calls' \in [Ring!Thread -> 0..Calls]
  BY <1>2, <1>3, <1>4
<1>12. Ring!TypeOK'
  <2>1. count' \in 0..C
    BY <1>1, <1>2, <1>6
  <2> QED BY <1>1, <1>2, <1>3, <1>5, <1>7, <1>10, <1>11, <2>1 DEF Ring!TypeOK, Ring!Slots
<1>13. RingSleepersCall'
  BY <1>1, <1>2, <1>3, <1>10 DEF RingSleepersCall
<1>14. RingCovered'
  <2>1. ASSUME not_empty' # {} PROVE count' <= Cardinality(RingConsumers')
    <3>1. PICK w \in not_empty : not_empty' = not_empty \ {w}
      BY <1>10, <2>1
    <3>2. w \in RingConsumers' /\ w \notin RingConsumers /\ RingConsumers \subseteq RingConsumers'
      BY <1>1, <1>2, <1>3, <3>1, ThreadsAssumption
         DEF RingConsumers, Ring!Awake, RingSleepersCall
    <3>3. Cardinality(RingConsumers) + 1 <= Cardinality(RingConsumers')
      BY <3>2, RingThreadsFinite, OneMore
    <3>4. count <= Cardinality(RingConsumers)
      BY <1>1, <3>1 DEF RingCovered
    <3> QED BY <1>1, <1>2, <3>3, <3>4, RingThreadsFinite
  <2>2. ASSUME memory', not_full' # {} PROVE size - 1 - count' <= Cardinality(RingProducers')
    <3>1. RingProducers \ {p} \subseteq RingProducers'
      BY <1>2, <1>3, <1>10 DEF RingProducers, Ring!Awake
    <3>2. Cardinality(RingProducers) - 1 <= Cardinality(RingProducers')
      BY <3>1, RingThreadsFinite, OneLess
    <3>3. size - 1 - count <= Cardinality(RingProducers)
      BY <1>1, <1>2, <2>2 DEF RingCovered
    <3> QED BY <1>1, <1>2, <3>2, <3>3, RingThreadsFinite
  <2> QED BY <2>1, <2>2 DEF RingCovered
<1>15. Ring!Contents' = Append(Ring!Contents, x)
  <2>1. /\ Ring!Contents \in Seq(Ring!Node) /\ Len(Ring!Contents) = count
        /\ \A k \in 1..count : Ring!Contents[k] = buffer[Slot(tail, k, C)]
    BY <1>1, RingContents
  <2>2. PICK t : t = Ring!Contents'
    OBVIOUS
  <2>3. Ring!Size' = count + 1
    <3>1. Ring!Size' = Held(tail', head', C)
      BY <1>2 DEF Ring!Size, Held
    <3> QED BY <1>2, <1>5, <3>1
  <2>4. t = [k \in 1..(count + 1) |-> buffer'[Slot(tail, k, C)]]
    BY <1>2, <2>2, <2>3 DEF Ring!Contents, Slot
  <2>5. \A k \in 1..(count + 1) : buffer'[Slot(tail, k, C)] \in Ring!Node
    BY <1>2, <1>9 DEF RingHolds, Slot
  <2>6. t \in [1..(count + 1) -> Ring!Node] /\ t[count + 1] = x
        /\ \A k \in 1..count : t[k] = Ring!Contents[k]
    <3>1. t \in [1..(count + 1) -> Ring!Node]
      BY <2>4, <2>5
    <3>2. count + 1 \in 1..(count + 1) /\ \A k \in 1..count : k \in 1..(count + 1)
      BY <1>1
    <3> QED BY <1>8, <2>1, <2>4, <3>1, <3>2
  <2> QED BY <1>4, <2>1, <2>2, <2>6, AppendedRow
<1>16. RingModifies'
  BY <1>2 DEF RingInv, RingModifies
<1> QED BY <1>1, <1>4, <1>6, <1>9, <1>12, <1>13, <1>14, <1>15, <1>16 DEF RingInv

LEMMA RingRemove ==
    ASSUME RingInv, NEW c \in Consumers, Ring!Remove(c)
    PROVE  /\ RingInv' /\ Ring!Contents # <<>>
           /\ Ring!Contents' = Tail(Ring!Contents)
           /\ rb_delivered' = Append(rb_delivered, Head(Ring!Contents))
<1> DEFINE C == size
<1>1. /\ Ring!TypeOK /\ RingHolds /\ RingSleepersCall /\ RingCovered
      /\ C \in Nat \ {0} /\ head \in 0..(C - 1) /\ tail \in 0..(C - 1)
      /\ count \in 0..(C - 1) /\ count = Held(tail, head, C)
      /\ \A k \in 1..count : Slot(tail, k, C) \in 0..(C - 1)
  BY RingFacts DEF RingInv, RingHolds
<1>2. /\ head # tail /\ buffer' = [buffer EXCEPT ![tail] = NULL]
      /\ tail' = (tail + 1) % C /\ count' = count - 1
      /\ rb_delivered' = Append(rb_delivered, buffer[tail])
      /\ not_full' \in Ring!NotifyOne(not_full)
      /\ rb_calls' = [rb_calls EXCEPT ![c] = rb_calls[c] + 1]
      /\ c \notin not_full \cup not_empty /\ rb_calls[c] < Calls
      /\ UNCHANGED <<head, not_empty, i, actualIndex, touched, memory>>
  BY DEF Ring!Remove, Ring!is_empty, Ring!Advance, Ring!ClearSlot, Ring!SignalNotFull,
         Ring!Returns, Ring!Awake, Ring!modifying
<1>3. /\ rb_calls \in [Ring!Thread -> 0..Calls] /\ c \in Ring!Thread /\ rb_calls[c] \in 0..Calls
      /\ not_empty \subseteq Consumers /\ not_full \subseteq Producers /\ c \notin Producers
      /\ Calls \in Nat
  BY <1>1, ThreadsAssumption, CallsAssumption DEF Ring!TypeOK, Ring!Thread
<1>4. rb_calls[c] + 1 \in 0..Calls
  BY <1>2, <1>3
<1>5. count \in 1..(C - 1) /\ 1 \in 1..C
  BY <1>1, <1>2, HeldNothing
<1>6. tail' \in 0..(C - 1) /\ count' = Held(tail', head', C)
  BY <1>1, <1>2, NextValue, HeadAdvances
<1>7. Slot(tail, 1, C) = tail /\ buffer[tail] \in Ring!Node
  BY <1>1, <1>5, HeadSlot DEF RingHolds
<1>8. ASSUME NEW k \in 1..(count - 1)
      PROVE  /\ k + 1 \in 1..count /\ Slot(tail', k, C) = Slot(tail, k + 1, C)
             /\ buffer'[Slot(tail', k, C)] = buffer[Slot(tail, k + 1, C)]
             /\ buffer'[Slot(tail', k, C)] \in Ring!Node
  <2>1. k \in 1..(C - 1) /\ k + 1 \in 1..count /\ k + 1 \in 1..C /\ k + 1 # 1
    BY <1>1, <1>5
  <2>2. Slot(tail', k, C) = Slot(tail, k + 1, C)
    BY <1>1, <1>2, <2>1, HeadSlot
  <2>3. Slot(tail, k + 1, C) # tail
    BY <1>1, <1>5, <1>7, <2>1, SlotsDistinct
  <2>4. buffer'[Slot(tail, k + 1, C)] = buffer[Slot(tail, k + 1, C)]
    BY <1>1, <1>2, <2>1, <2>3 DEF Ring!TypeOK, Ring!Slots
  <2> QED BY <1>1, <2>1, <2>2, <2>4 DEF RingHolds
<1>9. buffer' \in [Ring!Slots -> Ring!Node \cup {NULL, Garbage}]
  BY <1>1, <1>2 DEF Ring!TypeOK
<1>10. RingHolds'
  BY <1>2, <1>6, <1>8 DEF RingHolds, Slot
<1>11. not_full' \subseteq not_full /\ (not_full' # {} => \E w \in not_full : not_full' = not_full \ {w})
  BY <1>2 DEF Ring!NotifyOne
<1>12. rb_calls' \in [Ring!Thread -> 0..Calls]
  BY <1>2, <1>3, <1>4
<1>13. Ring!TypeOK'
  <2>1. count' \in 0..C
    BY <1>1, <1>2, <1>5
  <2>2. rb_delivered' \in Seq(Ring!Node)
    BY <1>1, <1>2, <1>7, AppendProperties DEF Ring!TypeOK
  <2> QED BY <1>1, <1>2, <1>3, <1>6, <1>9, <1>11, <1>12, <2>1, <2>2 DEF Ring!TypeOK, Ring!Slots
<1>14. RingSleepersCall'
  BY <1>1, <1>2, <1>3, <1>11 DEF RingSleepersCall
<1>15. RingCovered'
  <2>1. ASSUME not_empty' # {} PROVE count' <= Cardinality(RingConsumers')
    <3>1. RingConsumers \ {c} \subseteq RingConsumers'
      BY <1>2, <1>3, <1>11 DEF RingConsumers, Ring!Awake
    <3>2. Cardinality(RingConsumers) - 1 <= Cardinality(RingConsumers')
      BY <3>1, RingThreadsFinite, OneLess
    <3>3. count <= Cardinality(RingConsumers)
      BY <1>1, <1>2, <2>1 DEF RingCovered
    <3> QED BY <1>1, <1>2, <3>2, <3>3, RingThreadsFinite
  <2>2. ASSUME memory', not_full' # {} PROVE size - 1 - count' <= Cardinality(RingProducers')
    <3>1. PICK w \in not_full : not_full' = not_full \ {w}
      BY <1>11, <2>2
    <3>2. w \in RingProducers' /\ w \notin RingProducers /\ RingProducers \subseteq RingProducers'
      BY <1>1, <1>2, <1>3, <3>1, ThreadsAssumption
         DEF RingProducers, Ring!Awake, RingSleepersCall
    <3>3. Cardinality(RingProducers) + 1 <= Cardinality(RingProducers')
      BY <3>2, RingThreadsFinite, OneMore
    <3>4. size - 1 - count <= Cardinality(RingProducers)
      BY <1>1, <1>2, <2>2, <3>1 DEF RingCovered
    <3>5. C - 1 - count' = C - 1 - count + 1
      BY <1>1, <1>2
    <3> QED BY <1>1, <3>3, <3>4, <3>5, RingThreadsFinite
  <2> QED BY <2>1, <2>2 DEF RingCovered
<1>16. /\ Ring!Contents \in Seq(Ring!Node) /\ Len(Ring!Contents) = count
       /\ \A k \in 1..count : Ring!Contents[k] = buffer[Slot(tail, k, C)]
  BY <1>1, RingContents
<1>17. Ring!Contents # <<>> /\ Ring!Contents' = Tail(Ring!Contents)
  <2>1. PICK t : t = Ring!Contents'
    OBVIOUS
  <2>2. Ring!Size' = count - 1
    <3>1. Ring!Size' = Held(tail', head', C)
      BY <1>2 DEF Ring!Size, Held
    <3> QED BY <1>2, <1>6, <3>1
  <2>3. t = [k \in 1..(count - 1) |-> buffer'[Slot(tail', k, C)]]
    BY <1>2, <2>1, <2>2 DEF Ring!Contents, Slot
  <2>4. t \in [1..(count - 1) -> Ring!Node]
    BY <1>8, <2>3
  <2>5. \A k \in 1..(count - 1) : t[k] = Ring!Contents[k + 1]
    BY <1>8, <1>16, <2>3
  <2>6. Len(Ring!Contents) > 0
    BY <1>5, <1>16
  <2> QED BY <1>16, <2>1, <2>4, <2>5, <2>6, RowWithoutHead
<1>18. Head(Ring!Contents) = buffer[tail]
  BY <1>5, <1>7, <1>16, <1>17
<1>19. RingModifies'
  BY <1>2 DEF RingInv, RingModifies
<1> QED BY <1>2, <1>10, <1>13, <1>14, <1>15, <1>17, <1>18, <1>19 DEF RingInv

\* Of the steps that leave the ring itself alone.
LEMMA RingStays ==
    ASSUME RingInv, UNCHANGED <<buffer, head, tail, count, rb_delivered, memory>>,
           not_full' \subseteq Producers, not_empty' \subseteq Consumers,
           rb_calls' \in [Ring!Thread -> 0..Calls],
           \A t \in not_full' \cup not_empty' : rb_calls'[t] < Calls,
           i' \in [Modifiers -> 0..size], actualIndex' \in [Modifiers -> Ring!Slots \cup {NULL}],
           touched' \in Ring!Node \cup {NULL, Garbage}, RingModifies',
           not_empty' # {} => count = 0 \/ (not_empty # {} /\ RingConsumers \subseteq RingConsumers'),
           memory /\ not_full' # {} =>
              count = size - 1 \/ (not_full # {} /\ RingProducers \subseteq RingProducers')
    PROVE  RingInv' /\ Ring!Contents' = Ring!Contents
<1>1. Ring!TypeOK' /\ RingHolds' /\ RingSleepersCall'
  BY DEF RingInv, Ring!TypeOK, RingHolds, RingSleepersCall
<1>2. count \in Nat /\ size \in Nat
  BY RingFacts DEF RingInv
<1>3. ASSUME not_empty' # {} PROVE count' <= Cardinality(RingConsumers')
  <2>1. CASE count = 0
    BY <2>1, RingThreadsFinite
  <2>2. CASE not_empty # {} /\ RingConsumers \subseteq RingConsumers'
    <3>1. Cardinality(RingConsumers) <= Cardinality(RingConsumers')
      BY <2>2, RingThreadsFinite, FS_Subset
    <3>2. count <= Cardinality(RingConsumers)
      BY <2>2 DEF RingInv, RingCovered
    <3> QED BY <1>2, <3>1, <3>2, RingThreadsFinite
  <2> QED BY <1>3, <2>1, <2>2
<1>4. ASSUME memory', not_full' # {} PROVE size - 1 - count' <= Cardinality(RingProducers')
  <2>1. CASE count = size - 1
    BY <1>2, <2>1, RingThreadsFinite
  <2>2. CASE not_full # {} /\ RingProducers \subseteq RingProducers'
    <3>1. Cardinality(RingProducers) <= Cardinality(RingProducers')
      BY <2>2, RingThreadsFinite, FS_Subset
    <3>2. size - 1 - count <= Cardinality(RingProducers)
      BY <1>4, <2>2 DEF RingInv, RingCovered
    <3> QED BY <1>2, <3>1, <3>2, RingThreadsFinite
  <2> QED BY <1>4, <2>1, <2>2
<1>5. RingCovered'
  BY <1>3, <1>4 DEF RingCovered
<1>6. Ring!Contents' = Ring!Contents
  BY DEF Ring!Contents, Ring!Size
<1> QED BY <1>1, <1>5, <1>6 DEF RingInv

LEMMA RingStep ==
    ASSUME RingInv, Ring!Next \/ UNCHANGED ring
    PROVE  /\ RingInv'
           /\ \/ \E p \in Producers : Ring!Insert(p)
              \/ \E c \in Consumers : Ring!Remove(c)
              \/ UNCHANGED <<Ring!Contents, rb_delivered>>
<1>1. /\ rb_calls \in [Ring!Thread -> 0..Calls] /\ Calls \in Nat
      /\ not_empty \subseteq Consumers /\ not_full \subseteq Producers
      /\ i \in [Modifiers -> 0..size] /\ actualIndex \in [Modifiers -> Ring!Slots \cup {NULL}]
      /\ touched \in Ring!Node \cup {NULL, Garbage}
      /\ buffer \in [Ring!Slots -> Ring!Node \cup {NULL, Garbage}]
      /\ \A t \in not_full \cup not_empty : rb_calls[t] < Calls
      /\ Producers \cap Consumers = {} /\ Ring!Thread = Producers \cup Consumers
      /\ RingModifies
  BY ThreadsAssumption, CallsAssumption DEF RingInv, Ring!TypeOK, RingSleepersCall, Ring!Thread
<1>2. /\ size \in Nat \ {0} /\ head \in 0..(size - 1) /\ tail \in 0..(size - 1)
      /\ count \in 0..(size - 1) /\ count = Held(tail, head, size)
  BY RingFacts DEF RingInv, RingHolds
<1>3. CASE \E p \in Producers : Ring!Insert(p)
  BY <1>3, RingInsert
<1>4. CASE \E c \in Consumers : Ring!Remove(c)
  BY <1>4, RingRemove
<1>5. ASSUME NEW p \in Producers, Ring!InsertFails(p)
      PROVE  RingInv' /\ UNCHANGED <<Ring!Contents, rb_delivered>>
  <2>1. /\ ~memory /\ p \notin not_full \cup not_empty /\ rb_calls[p] < Calls
        /\ rb_calls' = [rb_calls EXCEPT ![p] = rb_calls[p] + 1]
        /\ UNCHANGED <<buffer, head, tail, count, not_full, not_empty, rb_delivered,
                       i, actualIndex, touched, memory>>
    BY <1>5 DEF Ring!InsertFails, Ring!Awake, Ring!Returns, Ring!ring, Ring!modifying
  <2>2. rb_calls[p] + 1 \in 0..Calls
    BY <1>1, <2>1
  <2>3. rb_calls' \in [Ring!Thread -> 0..Calls]
    BY <1>1, <2>1, <2>2
  <2>4. RingConsumers \subseteq RingConsumers'
    BY <1>1, <2>1 DEF RingConsumers, Ring!Awake
  <2>5. \A t \in not_full' \cup not_empty' : rb_calls'[t] < Calls
    BY <1>1, <2>1
  <2> QED BY <1>1, <2>1, <2>3, <2>4, <2>5, RingStays DEF RingModifies
<1>6. ASSUME NEW p \in Producers, Ring!InsertWaits(p)
      PROVE  RingInv' /\ UNCHANGED <<Ring!Contents, rb_delivered>>
  <2>1. /\ (head + 1) % size = tail /\ rb_calls[p] < Calls /\ not_full' = not_full \cup {p}
        /\ UNCHANGED <<buffer, head, tail, count, not_empty, rb_calls, rb_delivered,
                       i, actualIndex, touched, memory>>
    BY <1>6 DEF Ring!InsertWaits, Ring!Awake, Ring!is_full, Ring!clients, Ring!modifying
  <2>2. count = size - 1
    <3>1. tail = IF head + 1 < size THEN head + 1 ELSE 0
      BY <1>2, <2>1, NextValue
    <3>2. Held(tail, head, size) = IF tail <= head THEN head - tail ELSE head - tail + size
      BY <1>2, HeldValue
    <3> QED BY <1>2, <3>1, <3>2
  <2>3. RingConsumers \subseteq RingConsumers'
    BY <1>1, <2>1 DEF RingConsumers, Ring!Awake
  <2> QED BY <1>1, <2>1, <2>2, <2>3, RingStays DEF RingModifies
<1>7. ASSUME NEW c \in Consumers, Ring!RemoveWaits(c)
      PROVE  RingInv' /\ UNCHANGED <<Ring!Contents, rb_delivered>>
  <2>1. /\ head = tail /\ rb_calls[c] < Calls /\ not_empty' = not_empty \cup {c}
        /\ UNCHANGED <<buffer, head, tail, count, not_full, rb_calls, rb_delivered,
                       i, actualIndex, touched, memory>>
    BY <1>7 DEF Ring!RemoveWaits, Ring!Awake, Ring!is_empty, Ring!clients, Ring!modifying
  <2>2. count = 0
    <3>1. Held(tail, head, size) = IF tail <= head THEN head - tail ELSE head - tail + size
      BY <1>2, HeldValue
    <3> QED BY <1>2, <2>1, <3>1
  <2>3. RingProducers \subseteq RingProducers'
    BY <1>1, <2>1 DEF RingProducers, Ring!Awake
  <2> QED BY <1>1, <2>1, <2>2, <2>3, RingStays DEF RingModifies
<1>8. ASSUME NEW m \in Modifiers, Ring!ModifierStep(m)
      PROVE  RingInv' /\ UNCHANGED <<Ring!Contents, rb_delivered>>
  <2>1. UNCHANGED <<buffer, head, tail, count, not_full, not_empty, rb_calls, rb_delivered, memory>>
    BY <1>8 DEF Ring!ModifierStep, Ring!LoadIndex, Ring!ModifyData, Ring!ring, Ring!clients
  <2>2. RingConsumers \subseteq RingConsumers' /\ RingProducers \subseteq RingProducers'
    BY <2>1 DEF RingConsumers, RingProducers, Ring!Awake
  <2>3. /\ i' \in [Modifiers -> 0..size] /\ actualIndex' \in [Modifiers -> Ring!Slots \cup {NULL}]
        /\ touched' \in Ring!Node \cup {NULL, Garbage} /\ RingModifies'
    <3>1. CASE Ring!LoadIndex(m)
      <4>1. Ring!IndexOf(m) \in Ring!Slots
        <5>1. tail + i[m] \in Nat
          BY <1>1, <1>2
        <5> QED BY <1>2, <5>1 DEF Ring!IndexOf, Ring!Slots
      <4>2. /\ i[m] < size /\ actualIndex' = [actualIndex EXCEPT ![m] = Ring!IndexOf(m)]
            /\ UNCHANGED <<i, touched>>
        BY <3>1 DEF Ring!LoadIndex
      <4> QED BY <1>1, <4>1, <4>2 DEF RingModifies
    <3>2. CASE Ring!ModifyData(m)
      <4>1. /\ actualIndex[m] \in Ring!Slots /\ touched' = buffer[actualIndex[m]]
            /\ actualIndex' = [actualIndex EXCEPT ![m] = NULL]
            /\ i' = [i EXCEPT ![m] = i[m] + 1]
        BY <1>1, <3>2 DEF Ring!ModifyData
      <4>2. i[m] + 1 \in 0..size
        BY <1>1, <1>2, <3>2 DEF RingModifies, Ring!ModifyData
      <4>3. touched' \in Ring!Node \cup {NULL, Garbage}
        BY <1>1, <4>1
      <4>4. RingModifies'
        BY <1>1, <4>1 DEF RingModifies
      <4> QED BY <1>1, <4>1, <4>2, <4>3, <4>4
    <3> QED BY <1>8, <3>1, <3>2 DEF Ring!ModifierStep
  <2> QED BY <1>1, <2>1, <2>2, <2>3, RingStays DEF RingModifies
<1>9. CASE Ring!WakeSpuriously
  <2>1. /\ not_full' \subseteq not_full /\ not_empty' \subseteq not_empty
        /\ UNCHANGED <<buffer, head, tail, count, rb_calls, rb_delivered,
                       i, actualIndex, touched, memory>>
    BY <1>9 DEF Ring!WakeSpuriously, Ring!WakeOne, Ring!clients, Ring!modifying
  <2>2. RingConsumers \subseteq RingConsumers' /\ RingProducers \subseteq RingProducers'
    BY <2>1 DEF RingConsumers, RingProducers, Ring!Awake
  <2> QED BY <1>1, <2>1, <2>2, RingStays DEF RingModifies
<1>10. CASE UNCHANGED ring
  <2>1. UNCHANGED <<buffer, head, tail, count, not_full, not_empty, rb_calls, rb_delivered,
                    i, actualIndex, touched, memory>>
    BY <1>10 DEF ring
  <2>2. RingConsumers \subseteq RingConsumers' /\ RingProducers \subseteq RingProducers'
    BY <2>1 DEF RingConsumers, RingProducers, Ring!Awake
  <2> QED BY <1>1, <2>1, <2>2, RingStays DEF RingModifies
<1> QED BY <1>3, <1>4, <1>5, <1>6, <1>7, <1>8, <1>9, <1>10
        DEF Ring!Next, Ring!ProducerStep, Ring!ConsumerStep, Ring!vars, Ring!ring, Ring!clients,
            Ring!modifying, ring

\* The nodes that consumers own, and the calls of ringBufferRemove that returned.
Owned == {rb_delivered[k] : k \in 1..Len(rb_delivered)}
RingRemoves == {x \in Consumers \X (1..Calls) : x[2] <= rb_calls[x[1]]}
RingUsed == Cardinality(Owned) + count

\* As in con_test_lfrb.c: consumers remove all that producers insert, and every slot is used.
RingEmptied == /\ Cardinality(Producers) = Cardinality(Consumers)
               /\ size <= Cardinality(Producers) * Calls

\* A node in a slot is in no other slot and in no consumer's hands, as many nodes are owned as
\* calls have removed one, and the slots used so far hold nodes or NULL.
RingNodes ==
    /\ \A s \in Ring!Slots : buffer[s] \in Ring!Node =>
          /\ buffer[s][2] <= rb_calls[buffer[s][1]] /\ buffer[s] \notin Owned
          /\ \A r \in Ring!Slots : buffer[r] = buffer[s] => r = s
    /\ \A x \in Owned : x[2] <= rb_calls[x[1]]
    /\ IsFiniteSet(Owned) /\ Cardinality(Owned) = Cardinality(RingRemoves)
    /\ RingUsed < size => head = RingUsed
    /\ \A s \in Ring!Slots : s < RingUsed => buffer[s] \in Ring!Node \cup {NULL}

LEMMA RingNodesInitially == ASSUME Ring!Init PROVE RingNodes
<1>1. /\ size \in Nat \ {0} /\ buffer \in [Ring!Slots -> Fresh] /\ head = 0 /\ count = 0
      /\ rb_calls = [t \in Ring!Thread |-> 0] /\ rb_delivered = <<>>
  BY RingAssumption DEF Ring!Init
<1>2. Owned = {}
  BY <1>1 DEF Owned
<1>3. RingRemoves = {}
  BY <1>1, CallsAssumption DEF RingRemoves, Ring!Thread
<1>4. IsFiniteSet(Owned) /\ Cardinality(Owned) = 0
  BY <1>2, FS_EmptySet
<1>5. RingUsed = 0
  BY <1>1, <1>4 DEF RingUsed
<1>6. \A s \in Ring!Slots : buffer[s] \notin Ring!Node
  BY <1>1, RingAssumption DEF Ring!Node
<1> QED BY <1>1, <1>2, <1>3, <1>4, <1>5, <1>6 DEF RingNodes, Ring!Slots

LEMMA RingRemovesFinite ==
    /\ IsFiniteSet(RingRemoves) /\ IsFiniteSet(RingRemoves')
    /\ Cardinality(RingRemoves) \in Nat
<1>1. IsFiniteSet(1..Calls) /\ IsFiniteSet(Consumers)
  BY FS_Interval, FiniteAssumption, CallsAssumption
<1>2. IsFiniteSet(Consumers \X (1..Calls))
  BY <1>1, FS_Product
<1> QED BY <1>2, FS_Subset, FS_CardinalityType DEF RingRemoves

LEMMA RingNodesInsert ==
    ASSUME RingInv, RingNodes, NEW p \in Producers, Ring!Insert(p)
    PROVE  RingNodes'
<1> DEFINE x == <<p, rb_calls[p] + 1>>
<1>1. /\ rb_calls \in [Ring!Thread -> 0..Calls] /\ Calls \in Nat /\ size \in Nat \ {0}
      /\ Producers \cap Consumers = {} /\ Ring!Thread = Producers \cup Consumers
      /\ buffer \in [Ring!Slots -> Ring!Node \cup {NULL, Garbage}]
      /\ head \in Ring!Slots /\ Ring!Slots = 0..(size - 1) /\ count \in Nat
  BY ThreadsAssumption, CallsAssumption, RingFacts DEF RingInv, Ring!TypeOK, Ring!Thread, Ring!Slots
<1>2. /\ buffer' = [buffer EXCEPT ![head] = x] /\ head' = (head + 1) % size
      /\ count' = count + 1 /\ rb_calls' = [rb_calls EXCEPT ![p] = rb_calls[p] + 1]
      /\ rb_calls[p] < Calls /\ rb_delivered' = rb_delivered
  BY DEF Ring!Insert, Ring!Advance, Ring!Returns, Ring!Awake
<1>3. x \in Ring!Node /\ x[1] = p /\ x[2] = rb_calls[p] + 1
  BY RingInsert
<1>4. Owned' = Owned /\ RingRemoves' = RingRemoves
  <2>1. \A c \in Consumers : rb_calls'[c] = rb_calls[c]
    BY <1>1, <1>2
  <2> QED BY <1>2, <2>1 DEF Owned, RingRemoves
<1>5. \A n \in Ring!Node : n[2] <= rb_calls[n[1]] => n # x /\ n[2] <= rb_calls'[n[1]]
  <2> SUFFICES ASSUME NEW n \in Ring!Node, n[2] <= rb_calls[n[1]]
               PROVE  n # x /\ n[2] <= rb_calls'[n[1]]
    OBVIOUS
  <2>1. n[1] \in Producers /\ n[2] \in Nat /\ n[1] \in Ring!Thread
    BY <1>1 DEF Ring!Node
  <2>2. rb_calls[n[1]] \in Nat /\ rb_calls[p] \in Nat
    BY <1>1, <2>1
  <2> QED BY <1>1, <1>2, <1>3, <2>1, <2>2
<1>6. \A n \in Owned : n \in Ring!Node /\ n[2] <= rb_calls[n[1]]
  BY DEF RingNodes, Owned, RingInv, Ring!TypeOK
<1>7. ASSUME NEW s \in Ring!Slots, buffer'[s] \in Ring!Node
      PROVE  /\ buffer'[s][2] <= rb_calls'[buffer'[s][1]] /\ buffer'[s] \notin Owned'
             /\ \A r \in Ring!Slots : buffer'[r] = buffer'[s] => r = s
  <2>1. \A r \in Ring!Slots : buffer'[r] = IF r = head THEN x ELSE buffer[r]
    BY <1>1, <1>2
  <2>2. \A r \in Ring!Slots : buffer[r] # x
    BY <1>3, <1>5 DEF RingNodes
  <2>3. x[2] <= rb_calls'[x[1]]
    BY <1>1, <1>2, <1>3
  <2>4. x \notin Owned
    BY <1>5, <1>6
  <2> QED BY <1>4, <1>5, <1>7, <2>1, <2>2, <2>3, <2>4 DEF RingNodes
<1>8. RingUsed \in Nat /\ RingUsed' = RingUsed + 1
  <2>1. Cardinality(Owned) \in Nat
    BY FS_CardinalityType DEF RingNodes
  <2>2. Cardinality(Owned') = Cardinality(Owned)
    BY <1>4
  <2> QED BY <1>1, <1>2, <2>1, <2>2 DEF RingUsed
<1>9. RingUsed' < size => head' = RingUsed'
  <2> SUFFICES ASSUME RingUsed + 1 < size PROVE head' = RingUsed + 1
    BY <1>8
  <2>1. head = RingUsed
    BY <1>1, <1>8 DEF RingNodes
  <2> QED BY <1>1, <1>2, <1>8, <2>1, NextValue
<1>10. ASSUME NEW s \in Ring!Slots, s < RingUsed' PROVE buffer'[s] \in Ring!Node \cup {NULL}
  <2>1. CASE s = head
    BY <1>1, <1>2, <1>3, <2>1
  <2>2. CASE s # head
    <3>1. s < RingUsed
      BY <1>1, <1>8, <1>10, <2>2 DEF RingNodes
    <3> QED BY <1>1, <1>2, <2>2, <3>1 DEF RingNodes
  <2> QED BY <2>1, <2>2
<1>11. \A n \in Owned' : n[2] <= rb_calls'[n[1]]
  BY <1>4, <1>5, <1>6
<1>12. IsFiniteSet(Owned') /\ Cardinality(Owned') = Cardinality(RingRemoves')
  BY <1>4 DEF RingNodes
<1> QED BY <1>7, <1>9, <1>10, <1>11, <1>12 DEF RingNodes, Ring!Slots

LEMMA RingNodesRemove ==
    ASSUME RingInv, RingNodes, NEW c \in Consumers, Ring!Remove(c)
    PROVE  RingNodes'
<1> DEFINE x == buffer[tail]
<1>1. /\ rb_calls \in [Ring!Thread -> 0..Calls] /\ Calls \in Nat /\ size \in Nat \ {0}
      /\ Producers \cap Consumers = {} /\ Ring!Thread = Producers \cup Consumers
      /\ buffer \in [Ring!Slots -> Ring!Node \cup {NULL, Garbage}]
      /\ tail \in Ring!Slots /\ Ring!Slots = 0..(size - 1)
      /\ count \in Nat /\ rb_delivered \in Seq(Ring!Node)
  BY ThreadsAssumption, CallsAssumption, RingFacts DEF RingInv, Ring!TypeOK, Ring!Thread, Ring!Slots
<1>2. /\ buffer' = [buffer EXCEPT ![tail] = NULL] /\ head' = head
      /\ count' = count - 1 /\ rb_calls' = [rb_calls EXCEPT ![c] = rb_calls[c] + 1]
      /\ rb_calls[c] < Calls /\ rb_delivered' = Append(rb_delivered, x)
  BY DEF Ring!Remove, Ring!ClearSlot, Ring!Returns, Ring!Awake
<1>3. x \in Ring!Node
  <2>1. rb_delivered' \in Seq(Ring!Node)
    BY RingRemove DEF RingInv, Ring!TypeOK
  <2>2. /\ Len(rb_delivered') = Len(rb_delivered) + 1
        /\ rb_delivered'[Len(rb_delivered) + 1] = x
    BY <1>1, <1>2, AppendProperties
  <2>3. Len(rb_delivered) + 1 \in 1..Len(rb_delivered')
    BY <1>1, <2>2
  <2> QED BY <2>1, <2>2, <2>3
<1>4. Owned' = Owned \cup {x} /\ x \notin Owned
  <2>1. /\ Len(rb_delivered') = Len(rb_delivered) + 1 /\ Len(rb_delivered) \in Nat
        /\ rb_delivered'[Len(rb_delivered) + 1] = x
        /\ \A k \in 1..Len(rb_delivered) : rb_delivered'[k] = rb_delivered[k]
    BY <1>1, <1>2, <1>3, AppendProperties
  <2>2. \A k : k \in 1..(Len(rb_delivered) + 1) <=>
                  k \in 1..Len(rb_delivered) \/ k = Len(rb_delivered) + 1
    BY <2>1
  <2>3. Owned' = Owned \cup {x}
    BY <2>1, <2>2 DEF Owned
  <2> QED BY <1>1, <1>3, <2>3 DEF RingNodes
<1>5. LET r == <<c, rb_calls[c] + 1>> IN RingRemoves' = RingRemoves \cup {r} /\ r \notin RingRemoves
  <2> DEFINE r == <<c, rb_calls[c] + 1>>
  <2>1. rb_calls[c] \in 0..Calls /\ rb_calls[c] + 1 \in 1..Calls /\ r \in Consumers \X (1..Calls)
    BY <1>1, <1>2
  <2>2. ASSUME NEW y \in Consumers \X (1..Calls)
        PROVE  y[2] <= rb_calls'[y[1]] <=> y[2] <= rb_calls[y[1]] \/ y = r
    <3>1. y[1] \in Consumers /\ y[1] \in Ring!Thread /\ y[2] \in Nat /\ y = <<y[1], y[2]>>
      BY <1>1
    <3>2. CASE y[1] = c
      <4>1. rb_calls'[y[1]] = rb_calls[c] + 1
        BY <1>1, <1>2, <3>1, <3>2
      <4>2. y = r <=> y[2] = rb_calls[c] + 1
        BY <3>1, <3>2
      <4> QED BY <2>1, <3>1, <3>2, <4>1, <4>2
    <3>3. CASE y[1] # c
      BY <1>1, <1>2, <3>1, <3>3
    <3> QED BY <3>2, <3>3
  <2>3. r \notin RingRemoves
    BY <2>1 DEF RingRemoves
  <2> HIDE DEF r
  <2>4. RingRemoves' = RingRemoves \cup {r}
    BY <2>1, <2>2 DEF RingRemoves
  <2> QED BY <2>3, <2>4 DEF r
<1>6. /\ IsFiniteSet(Owned') /\ Cardinality(Owned') = Cardinality(Owned) + 1
      /\ Cardinality(Owned') = Cardinality(RingRemoves') /\ Cardinality(Owned) \in Nat
  <2>1. /\ IsFiniteSet(Owned') /\ Cardinality(Owned') = Cardinality(Owned) + 1
        /\ Cardinality(Owned) \in Nat
    BY <1>4, FS_AddElement, FS_CardinalityType DEF RingNodes
  <2>2. Cardinality(RingRemoves') = Cardinality(RingRemoves) + 1
    BY <1>5, RingRemovesFinite, FS_AddElement
  <2> QED BY <2>1, <2>2 DEF RingNodes
<1>7. RingUsed' = RingUsed
  BY <1>1, <1>2, <1>6 DEF RingUsed
<1>8. \A n \in Ring!Node : rb_calls'[n[1]] = rb_calls[n[1]]
  BY <1>1, <1>2 DEF Ring!Node
<1>9. \A s \in Ring!Slots : buffer'[s] = IF s = tail THEN NULL ELSE buffer[s]
  BY <1>1, <1>2
<1>10. NULL \notin Ring!Node
  BY RingAssumption DEF Ring!Node
<1>11. ASSUME NEW s \in Ring!Slots, buffer'[s] \in Ring!Node
       PROVE  /\ buffer'[s][2] <= rb_calls'[buffer'[s][1]] /\ buffer'[s] \notin Owned'
              /\ \A r \in Ring!Slots : buffer'[r] = buffer'[s] => r = s
  <2>1. s # tail /\ buffer'[s] = buffer[s] /\ buffer[s] \in Ring!Node
    BY <1>9, <1>10, <1>11
  <2>2. buffer[s] # x
    BY <1>1, <2>1 DEF RingNodes
  <2>3. \A r \in Ring!Slots : buffer'[r] = buffer[s] => r = s
    BY <1>9, <1>10, <2>1 DEF RingNodes
  <2> QED BY <1>4, <1>8, <2>1, <2>2, <2>3 DEF RingNodes
<1>12. \A n \in Owned' : n[2] <= rb_calls'[n[1]]
  <2>1. \A n \in Owned : n \in Ring!Node
    BY <1>1 DEF Owned
  <2>2. \A n \in Owned : n[2] <= rb_calls[n[1]]
    BY DEF RingNodes
  <2>3. x[2] <= rb_calls[x[1]]
    BY <1>1, <1>3 DEF RingNodes
  <2> QED BY <1>3, <1>4, <1>8, <2>1, <2>2, <2>3
<1>13. \A s \in Ring!Slots : s < RingUsed' => buffer'[s] \in Ring!Node \cup {NULL}
  BY <1>7, <1>9 DEF RingNodes
<1>14. RingUsed' < size => head' = RingUsed'
  BY <1>2, <1>7 DEF RingNodes
<1> QED BY <1>6, <1>11, <1>12, <1>13, <1>14 DEF RingNodes, Ring!Slots

LEMMA RingNodesStep ==
    ASSUME RingInv, RingNodes, Ring!Next \/ UNCHANGED ring
    PROVE  RingNodes'
<1>1. CASE \E p \in Producers : Ring!Insert(p)
  BY <1>1, RingNodesInsert
<1>2. CASE \E c \in Consumers : Ring!Remove(c)
  BY <1>2, RingNodesRemove
<1>3. ASSUME UNCHANGED <<buffer, head, count, rb_delivered>>,
             \/ UNCHANGED rb_calls
             \/ \E p \in Producers : rb_calls' = [rb_calls EXCEPT ![p] = @ + 1]
      PROVE  RingNodes'
  <2>1. /\ rb_calls \in [Ring!Thread -> 0..Calls] /\ Calls \in Nat
        /\ Producers \cap Consumers = {} /\ Ring!Thread = Producers \cup Consumers
        /\ rb_delivered \in Seq(Ring!Node)
    BY ThreadsAssumption, CallsAssumption DEF RingInv, Ring!TypeOK, Ring!Thread
  <2>2. \A c \in Consumers : rb_calls'[c] = rb_calls[c]
    BY <1>3, <2>1
  <2>3. \A n \in Ring!Node : n[2] <= rb_calls[n[1]] => n[2] <= rb_calls'[n[1]]
    <3> SUFFICES ASSUME NEW n \in Ring!Node, n[2] <= rb_calls[n[1]] PROVE n[2] <= rb_calls'[n[1]]
      OBVIOUS
    <3>1. n[1] \in Ring!Thread /\ n[2] \in Nat /\ rb_calls[n[1]] \in Nat
      BY <2>1 DEF Ring!Node
    <3> QED BY <1>3, <2>1, <3>1
  <2>4. Owned' = Owned /\ RingRemoves' = RingRemoves /\ RingUsed' = RingUsed
    BY <1>3, <2>2 DEF Owned, RingRemoves, RingUsed
  <2>5. \A n \in Owned : n \in Ring!Node
    BY <2>1 DEF Owned
  <2>6. \A s \in Ring!Slots : buffer'[s] \in Ring!Node =>
           /\ buffer'[s][2] <= rb_calls'[buffer'[s][1]] /\ buffer'[s] \notin Owned'
           /\ \A r \in Ring!Slots : buffer'[r] = buffer'[s] => r = s
    BY <1>3, <2>3, <2>4 DEF RingNodes
  <2> QED BY <1>3, <2>3, <2>4, <2>5, <2>6 DEF RingNodes, Ring!Slots
<1>4. CASE UNCHANGED ring
  BY <1>3, <1>4 DEF ring
<1>5. CASE \E p \in Producers : Ring!InsertFails(p)
  BY <1>3, <1>5 DEF Ring!InsertFails, Ring!Returns, Ring!ring
<1>6. CASE \E p \in Producers : Ring!InsertWaits(p)
  BY <1>3, <1>6 DEF Ring!InsertWaits, Ring!clients
<1>7. CASE \E c \in Consumers : Ring!RemoveWaits(c)
  BY <1>3, <1>7 DEF Ring!RemoveWaits, Ring!clients
<1>8. CASE \E m \in Modifiers : Ring!ModifierStep(m)
  BY <1>3, <1>8 DEF Ring!ModifierStep, Ring!LoadIndex, Ring!ModifyData, Ring!ring, Ring!clients
<1>9. CASE Ring!WakeSpuriously
  BY <1>3, <1>9 DEF Ring!WakeSpuriously, Ring!clients
<1>10. CASE UNCHANGED Ring!vars
  BY <1>3, <1>10 DEF Ring!vars, Ring!ring, Ring!clients
<1> QED BY <1>1, <1>2, <1>4, <1>5, <1>6, <1>7, <1>8, <1>9, <1>10
        DEF Ring!Next, Ring!ProducerStep, Ring!ConsumerStep

\* What modifyData finds in its slot is no node that was removed.
LEMMA ModifiesInside ==
    ASSUME RingInv, RingNodes, NEW m \in Modifiers, Ring!ModifyData(m),
           NEW k \in 1..Len(rb_delivered)
    PROVE  rb_delivered[k] # touched'
<1>1. /\ actualIndex[m] \in Ring!Slots /\ touched' = buffer[actualIndex[m]]
      /\ rb_delivered \in Seq(Ring!Node)
  BY DEF Ring!ModifyData, RingInv, Ring!TypeOK
<1>2. rb_delivered[k] \in Ring!Node /\ rb_delivered[k] \in Owned
  BY <1>1 DEF Owned
<1> QED BY <1>1, <1>2 DEF RingNodes

\* Once all calls have returned every node is owned, and every slot was used.
LEMMA NothingToFree == ASSUME RingInv, RingNodes, RingEmptied PROVE Ring!CleanupFreesNothing
<1> SUFFICES ASSUME Ring!AllJoined, NEW s \in Ring!Slots PROVE buffer[s] = NULL
  BY DEF Ring!CleanupFreesNothing
<1>1. /\ Calls \in Nat /\ size \in Nat \ {0} /\ count \in Nat /\ Ring!Slots = 0..(size - 1)
      /\ rb_delivered \in Seq(Ring!Node)
      /\ \A c \in Consumers : rb_calls[c] = Calls
  BY CallsAssumption, RingFacts DEF RingInv, Ring!TypeOK, Ring!AllJoined, Ring!Thread, Ring!Slots
<1>2. RingRemoves = Consumers \X (1..Calls)
  BY <1>1 DEF RingRemoves
<1>3. IsFiniteSet(1..Calls) /\ Cardinality(1..Calls) = Calls
  <2>1. 1 \in Int /\ Calls \in Int
    BY <1>1
  <2>2. /\ IsFiniteSet(1..Calls)
        /\ Cardinality(1..Calls) = IF 1 > Calls THEN 0 ELSE Calls - 1 + 1
    BY <2>1, FS_Interval
  <2> QED BY <1>1, <2>2
<1>4. Cardinality(Owned) = Cardinality(Consumers) * Calls
  <2>1. Cardinality(Consumers \X (1..Calls)) = Cardinality(Consumers) * Cardinality(1..Calls)
    BY <1>3, FiniteAssumption, FS_Product
  <2> QED BY <1>2, <1>3, <2>1 DEF RingNodes
<1>5. IsFiniteSet(Ring!Node) /\ Cardinality(Ring!Node) = Cardinality(Producers) * Calls
  BY <1>3, FiniteAssumption, FS_Product DEF Ring!Node
<1>6. Owned \subseteq Ring!Node
  BY <1>1 DEF Owned
<1>7. Owned = Ring!Node
  BY <1>4, <1>5, <1>6, FS_Subset DEF RingEmptied
<1>8. size <= RingUsed
  <2>1. Cardinality(Owned) \in Nat /\ size <= Cardinality(Owned)
    BY <1>4, FS_CardinalityType DEF RingNodes, RingEmptied
  <2> QED BY <1>1, <2>1 DEF RingUsed
<1>9. buffer[s] \in Ring!Node \cup {NULL}
  <2>1. RingUsed \in Nat
    BY <1>1, FS_CardinalityType DEF RingUsed, RingNodes
  <2> QED BY <1>1, <1>8, <2>1 DEF RingNodes
<1> QED BY <1>7, <1>9 DEF RingNodes
-----------------------------------------------------------------------------
(* ThreadsafeQueue. *)

LEMMA SameQueueCardinality == \A S : Queue!Cardinality(S) = Cardinality(S)
BY DEF Queue!Cardinality, Cardinality

\* The calls of enqueue that have returned.
Enqueued == {p \in (Producers \cup MoreProducers) \X (1..Calls) : p[2] <= tq_calls[p[1]]}

\* Nobody goes to sleep after its last call, and no item was made up.
QueueInv == /\ Queue!TypeOK /\ Queue!NoConsumerMissed
            /\ \A c \in cond_var_ : tq_calls[c] < Calls
            /\ queue_ <= Cardinality(Enqueued)

LEMMA EnqueuedIsFinite ==
    /\ IsFiniteSet(Enqueued) /\ Cardinality(Enqueued) \in Nat
    /\ Cardinality(Enqueued) <= Cardinality(Producers \cup MoreProducers) * Calls
    /\ Cardinality(Producers \cup MoreProducers) \in Nat
<1> DEFINE P == Producers \cup MoreProducers
<1>1. IsFiniteSet(P)
  BY FS_Union, FiniteAssumption, QueueAssumption
<1>2. IsFiniteSet(1..Calls) /\ Cardinality(1..Calls) = Calls
  BY FS_Interval, CallsAssumption
<1>3. IsFiniteSet(P \X (1..Calls)) /\ Cardinality(P \X (1..Calls)) = Cardinality(P) * Calls
  BY <1>1, <1>2, FS_Product
<1>4. Enqueued \subseteq P \X (1..Calls)
  BY DEF Enqueued
<1>5. IsFiniteSet(Enqueued) /\ Cardinality(Enqueued) <= Cardinality(P) * Calls
  BY <1>3, <1>4, FS_Subset
<1> QED BY <1>1, <1>5, FS_CardinalityType

\* As many consumers are awake as the waking of a thread and the return of one leave.
LEMMA AwakeCount ==
    /\ IsFiniteSet(Queue!Awake) /\ Cardinality(Queue!Awake) \in Nat
    /\ IsFiniteSet(Queue!Awake') /\ Cardinality(Queue!Awake') \in Nat
<1>1. Queue!Awake \subseteq Consumers /\ Queue!Awake' \subseteq Consumers
  BY DEF Queue!Awake
<1> QED BY <1>1, FS_Subset, FS_CardinalityType, FiniteAssumption

LEMMA QueueInitially == ASSUME Queue!Init PROVE QueueInv
<1>1. Cardinality(Enqueued) \in Nat /\ Cardinality(Producers \cup MoreProducers) * Calls \in Nat
  BY EnqueuedIsFinite, CallsAssumption
<1>2. 0 \in 0..(Queue!Cardinality(Producers \cup MoreProducers) * Calls) /\ 0 \in 0..Calls
  BY <1>1, SameQueueCardinality, CallsAssumption
<1>3. Queue!TypeOK
  BY <1>2 DEF Queue!Init, Queue!TypeOK
<1> QED BY <1>1, <1>3 DEF QueueInv, Queue!Init, Queue!NoConsumerMissed

LEMMA QueueStep ==
    ASSUME QueueInv, Queue!Next \/ UNCHANGED queue
    PROVE  QueueInv'
<1> DEFINE P == Producers \cup MoreProducers
           Room == Cardinality(P) * Calls
<1>1. /\ queue_ \in Nat /\ cond_var_ \subseteq Consumers
      /\ tq_calls \in [Queue!Thread -> 0..Calls]
      /\ Queue!Thread = P \cup Consumers \cup Pollers /\ P \cap Consumers = {}
      /\ P \cap Pollers = {} /\ Consumers \cap Pollers = {} /\ Calls \in Nat
      /\ moving \in {"never", "begin", "halfway", "done"}
      /\ \A c \in cond_var_ : tq_calls[c] < Calls
      /\ queue_ <= Cardinality(Enqueued)
  BY ThreadsAssumption, QueueAssumption, CallsAssumption
     DEF QueueInv, Queue!TypeOK, Queue!Thread
<1>2. cond_var_ # {} => queue_ <= Cardinality(Queue!Awake)
  BY SameQueueCardinality DEF QueueInv, Queue!NoConsumerMissed
<1>3. ASSUME /\ queue_' \in Nat /\ queue_' <= Cardinality(Enqueued)'
             /\ cond_var_' \subseteq Consumers
             /\ tq_calls' \in [Queue!Thread -> 0..Calls]
             /\ moving' \in {"never", "begin", "halfway", "done"}
             /\ \A c \in cond_var_' : tq_calls'[c] < Calls
             /\ cond_var_' # {} => queue_' <= Cardinality(Queue!Awake')
      PROVE  QueueInv'
  <2>1. Cardinality(Enqueued)' <= Room /\ Cardinality(Enqueued)' \in Nat /\ Room \in Nat
    <3>1. Enqueued' \subseteq P \X (1..Calls)
      BY DEF Enqueued
    <3>2. IsFiniteSet(P)
      BY FS_Union, FiniteAssumption, QueueAssumption
    <3>3. IsFiniteSet(1..Calls) /\ Cardinality(1..Calls) = Calls
      BY FS_Interval, CallsAssumption
    <3>4. IsFiniteSet(P \X (1..Calls)) /\ Cardinality(P \X (1..Calls)) = Room
      BY <3>2, <3>3, FS_Product
    <3>5. IsFiniteSet(Enqueued') /\ Cardinality(Enqueued') <= Room
      BY <3>1, <3>4, FS_Subset
    <3> QED BY <3>4, <3>5, FS_CardinalityType
  <2>2. queue_' \in 0..Room
    BY <1>3, <2>1
  <2>3. queue_' \in 0..(Queue!Cardinality(P) * Calls)
    BY <2>2, SameQueueCardinality
  <2> QED BY <1>3, <2>3, SameQueueCardinality DEF QueueInv, Queue!TypeOK, Queue!NoConsumerMissed
<1>4. ASSUME NEW p \in P, Queue!enqueue(p)
      PROVE  QueueInv'
  <2>1. /\ tq_calls[p] < Calls /\ queue_' = queue_ + 1 /\ UNCHANGED moving
        /\ tq_calls' = [tq_calls EXCEPT ![p] = tq_calls[p] + 1]
        /\ cond_var_' \in Queue!NotifyOne(cond_var_)
    BY <1>4 DEF Queue!enqueue, Queue!Signal, Queue!Returns
  <2>2. tq_calls[p] + 1 \in 1..Calls /\ p \in Queue!Thread /\ p \notin Consumers
    BY <1>1, <2>1
  <2>3. tq_calls' \in [Queue!Thread -> 0..Calls]
    BY <1>1, <2>1, <2>2
  <2>4. Enqueued' = Enqueued \cup {<<p, tq_calls[p] + 1>>} /\ <<p, tq_calls[p] + 1>> \notin Enqueued
    BY <1>1, <2>1, <2>2 DEF Enqueued
  <2>5. Cardinality(Enqueued)' = Cardinality(Enqueued) + 1
    BY <2>4, EnqueuedIsFinite, FS_AddElement
  <2>6. cond_var_' \subseteq cond_var_
    BY <2>1 DEF Queue!NotifyOne
  <2>7. ASSUME cond_var_' # {}
        PROVE  queue_' <= Cardinality(Queue!Awake')
    <3>1. PICK c \in cond_var_ : cond_var_' = cond_var_ \ {c}
      BY <2>1, <2>7 DEF Queue!NotifyOne
    <3>2. Queue!Awake' = Queue!Awake \cup {c} /\ c \notin Queue!Awake
      BY <1>1, <2>1, <2>2, <3>1 DEF Queue!Awake
    <3>3. Cardinality(Queue!Awake') = Cardinality(Queue!Awake) + 1
      BY <3>2, AwakeCount, FS_AddElement
    <3> QED BY <1>1, <1>2, <2>1, <3>1, <3>3, AwakeCount
  <2>8. \A c \in cond_var_' : tq_calls'[c] < Calls
    BY <1>1, <2>1, <2>2, <2>6
  <2> QED BY <1>1, <1>3, <2>1, <2>3, <2>5, <2>6, <2>7, <2>8, EnqueuedIsFinite
<1>5. ASSUME NEW t \in Pollers, Queue!try_dequeue(t)
      PROVE  QueueInv'
  <2>1. /\ UNCHANGED <<cond_var_, moving>> /\ tq_calls[t] < Calls
        /\ \/ queue_ > 0 /\ queue_' = queue_ - 1 /\ tq_calls' = [tq_calls EXCEPT ![t] = tq_calls[t] + 1]
           \/ UNCHANGED <<queue_, tq_calls>>
    BY <1>5 DEF Queue!try_dequeue, Queue!Returns
  <2>2. tq_calls[t] + 1 \in 0..Calls
    BY <1>1, <2>1
  <2>3. tq_calls' \in [Queue!Thread -> 0..Calls]
    BY <1>1, <2>1, <2>2
  <2>4. Enqueued' = Enqueued /\ Queue!Awake' = Queue!Awake
    BY <1>1, <2>1 DEF Enqueued, Queue!Awake
  <2>5. queue_' \in Nat /\ queue_' <= queue_
    BY <1>1, <2>1
  <2>6. \A c \in cond_var_' : tq_calls'[c] < Calls
    BY <1>1, <2>1
  <2> QED BY <1>1, <1>2, <1>3, <2>1, <2>3, <2>4, <2>5, <2>6, AwakeCount, EnqueuedIsFinite
<1>6. ASSUME NEW c \in Consumers, Queue!dequeue(c)
      PROVE  QueueInv'
  <2>1. /\ UNCHANGED <<cond_var_, moving>> /\ tq_calls[c] < Calls /\ c \in Queue!Awake
        /\ queue_ > 0 /\ queue_' = queue_ - 1
        /\ tq_calls' = [tq_calls EXCEPT ![c] = tq_calls[c] + 1]
    BY <1>6 DEF Queue!dequeue, Queue!Returns, Queue!Awake
  <2>2. tq_calls[c] + 1 \in 0..Calls
    BY <1>1, <2>1
  <2>3. tq_calls' \in [Queue!Thread -> 0..Calls]
    BY <1>1, <2>1, <2>2
  <2>4. Enqueued' = Enqueued /\ Queue!Awake \ {c} \subseteq Queue!Awake'
    BY <1>1, <2>1 DEF Enqueued, Queue!Awake
  <2>5. Cardinality(Queue!Awake \ {c}) = Cardinality(Queue!Awake) - 1
    BY <2>1, AwakeCount, FS_RemoveElement
  <2>6. Cardinality(Queue!Awake \ {c}) <= Cardinality(Queue!Awake')
    BY <2>4, AwakeCount, FS_Subset
  <2>7. \A d \in cond_var_' : tq_calls'[d] < Calls
    BY <1>1, <2>1 DEF Queue!Awake
  <2>8. queue_' \in Nat
    BY <1>1, <2>1
  <2> QED BY <1>1, <1>2, <1>3, <2>1, <2>3, <2>4, <2>5, <2>6, <2>7, <2>8, AwakeCount, EnqueuedIsFinite
<1>7. ASSUME NEW c \in Consumers, Queue!DequeueWaits(c)
      PROVE  QueueInv'
  <2>1. /\ queue_ = 0 /\ cond_var_' = cond_var_ \cup {c} /\ tq_calls[c] < Calls
        /\ UNCHANGED <<queue_, tq_calls, moving>>
    BY <1>7 DEF Queue!DequeueWaits, Queue!Awake
  <2>2. Enqueued' = Enqueued
    BY <2>1 DEF Enqueued
  <2> QED BY <1>1, <1>3, <2>1, <2>2, AwakeCount
<1>8. CASE Queue!WakeSpuriously
  <2>1. UNCHANGED <<queue_, tq_calls, moving>> /\ cond_var_' \subseteq cond_var_
    BY <1>8 DEF Queue!WakeSpuriously, Queue!WakeOne
  <2>2. Enqueued' = Enqueued /\ Queue!Awake \subseteq Queue!Awake'
    BY <2>1 DEF Enqueued, Queue!Awake
  <2>3. Cardinality(Queue!Awake) <= Cardinality(Queue!Awake')
    BY <2>2, AwakeCount, FS_Subset
  <2> QED BY <1>1, <1>2, <1>3, <2>1, <2>2, <2>3, AwakeCount
<1>9. CASE Queue!MoveTakes \/ Queue!MoveEmpties
  <2>1. UNCHANGED <<cond_var_, tq_calls>> /\ queue_' \in {0, queue_} /\ moving' \in {"halfway", "done"}
    BY <1>9 DEF Queue!MoveTakes, Queue!MoveEmpties
  <2>2. Enqueued' = Enqueued /\ Queue!Awake' = Queue!Awake
    BY <2>1 DEF Enqueued, Queue!Awake
  <2> QED BY <1>1, <1>2, <1>3, <2>1, <2>2, AwakeCount, EnqueuedIsFinite
<1>10. CASE UNCHANGED queue
  <2>1. UNCHANGED <<queue_, cond_var_, tq_calls, moving>>
    BY <1>10 DEF queue
  <2> QED BY <1>1, <1>2, <1>3, <2>1 DEF Enqueued, Queue!Awake
<1> QED BY <1>4, <1>5, <1>6, <1>7, <1>8, <1>9, <1>10
        DEF Queue!Next, Queue!ConsumerStep, Queue!vars, queue
-----------------------------------------------------------------------------
(* prodcons. *)

LEMMA SameSlotCardinality == \A S : ProdCons!Cardinality(S) = Cardinality(S)
BY DEF ProdCons!Cardinality, Cardinality

\* How many of the threads are at the place.
Those(threads, place) == {t \in threads : pc[t] = place}
HowMany(threads, place) == Cardinality(Those(threads, place))

LEMMA CountsAreNatural ==
    ASSUME NEW S, IsFiniteSet(S), NEW place
    PROVE  /\ IsFiniteSet(Those(S, place)) /\ HowMany(S, place) \in Nat
           /\ IsFiniteSet(Those(S, place)') /\ HowMany(S, place)' \in Nat
<1>1. Those(S, place) \subseteq S /\ Those(S, place)' \subseteq S
  BY DEF Those
<1> QED BY <1>1, FS_Subset, FS_CardinalityType DEF HowMany

LEMMA OneMoves ==
    ASSUME NEW S, IsFiniteSet(S), S \subseteq ProdCons!Thread, NEW t \in S, NEW a, NEW b, a # b,
           pc \in [ProdCons!Thread -> {"wait", "section", "post"}], pc[t] = a,
           pc' = [pc EXCEPT ![t] = b]
    PROVE  /\ HowMany(S, a)' = HowMany(S, a) - 1 /\ HowMany(S, a) > 0
           /\ HowMany(S, b)' = HowMany(S, b) + 1
<1>1. Those(S, a)' = Those(S, a) \ {t} /\ t \in Those(S, a)
  BY DEF Those
<1>2. Those(S, b)' = Those(S, b) \cup {t} /\ t \notin Those(S, b)
  BY DEF Those
<1>3. HowMany(S, a)' = HowMany(S, a) - 1
  BY <1>1, CountsAreNatural, FS_RemoveElement DEF HowMany
<1>4. HowMany(S, b)' = HowMany(S, b) + 1
  BY <1>2, CountsAreNatural, FS_AddElement DEF HowMany
<1>5. HowMany(S, a) > 0
  BY <1>3, CountsAreNatural
<1> QED BY <1>3, <1>4, <1>5

LEMMA ElsewhereAsMany ==
    ASSUME NEW S, S \subseteq ProdCons!Thread, NEW t \in S, NEW b, NEW c, c # b,
           pc \in [ProdCons!Thread -> {"wait", "section", "post"}], pc[t] # c,
           pc' = [pc EXCEPT ![t] = b]
    PROVE  HowMany(S, c)' = HowMany(S, c)
<1>1. Those(S, c)' = Those(S, c)
  BY DEF Those
<1> QED BY <1>1 DEF HowMany

LEMMA NoneMoves ==
    ASSUME NEW S, S \subseteq ProdCons!Thread, NEW t, t \notin S, NEW b, NEW place,
           pc \in [ProdCons!Thread -> {"wait", "section", "post"}],
           pc' = [pc EXCEPT ![t] = b]
    PROVE  HowMany(S, place)' = HowMany(S, place)
<1>1. Those(S, place)' = Those(S, place)
  BY DEF Those
<1> QED BY <1>1 DEF HowMany

\* How many items the ring holds, and where.
InRing == full + HowMany(Producers, "post") + HowMany(Consumers, "section")

SlotsHold ==
    /\ in = IF InRing = BUFFER_SIZE THEN out ELSE Slot(out, InRing + 1, BUFFER_SIZE)
    /\ \A k \in 1..InRing : pc_buffer[Slot(out, k, BUFFER_SIZE)] \in ProdCons!Item

SlotsInv ==
    /\ ProdCons!TypeOK
    /\ pc_delivered \in Seq(ProdCons!Item)
    /\ \A t \in ProdCons!Thread : pc[t] # "wait" => rounds[t] < Calls
    /\ empty + HowMany(Producers, "section") + InRing + HowMany(Consumers, "post") = BUFFER_SIZE
    /\ Len(pc_accepted) = Len(pc_delivered) + InRing
    /\ SlotsHold

LEMMA SlotFacts ==
    ASSUME SlotsInv
    PROVE  /\ BUFFER_SIZE \in Nat \ {0}
           /\ in \in 0..(BUFFER_SIZE - 1) /\ out \in 0..(BUFFER_SIZE - 1)
           /\ empty \in Nat /\ full \in Nat
           /\ HowMany(Producers, "section") \in Nat /\ HowMany(Producers, "post") \in Nat
           /\ HowMany(Consumers, "section") \in Nat /\ HowMany(Consumers, "post") \in Nat
           /\ InRing \in 0..BUFFER_SIZE
           /\ Producers \subseteq ProdCons!Thread /\ Consumers \subseteq ProdCons!Thread
           /\ pc \in [ProdCons!Thread -> {"wait", "section", "post"}]
           /\ rounds \in [ProdCons!Thread -> 0..Calls] /\ Calls \in Nat
           /\ Len(pc_accepted) \in Nat /\ Len(pc_delivered) \in Nat
<1>1. /\ HowMany(Producers, "section") \in Nat /\ HowMany(Producers, "post") \in Nat
      /\ HowMany(Consumers, "section") \in Nat /\ HowMany(Consumers, "post") \in Nat
  BY CountsAreNatural, FiniteAssumption
<1>2. /\ BUFFER_SIZE \in Nat \ {0}
      /\ in \in 0..(BUFFER_SIZE - 1) /\ out \in 0..(BUFFER_SIZE - 1)
      /\ empty \in 0..BUFFER_SIZE /\ full \in 0..BUFFER_SIZE
      /\ pc \in [ProdCons!Thread -> {"wait", "section", "post"}]
      /\ rounds \in [ProdCons!Thread -> 0..Calls] /\ Calls \in Nat
      /\ Len(pc_accepted) \in Nat /\ Len(pc_delivered) \in Nat
  BY SlotsAssumption, CallsAssumption DEF SlotsInv, ProdCons!TypeOK, ProdCons!Slots
<1>3. InRing \in Nat
  BY <1>1, <1>2 DEF InRing
<1>4. empty + HowMany(Producers, "section") + InRing + HowMany(Consumers, "post") = BUFFER_SIZE
  BY DEF SlotsInv
<1>5. InRing \in 0..BUFFER_SIZE
  BY <1>1, <1>2, <1>3, <1>4
<1> QED BY <1>1, <1>2, <1>5 DEF ProdCons!Thread

LEMMA SlotsAccounted == ASSUME SlotsInv PROVE ProdCons!SlotsAccountedFor
<1>1. /\ ProdCons!At(Producers, "section") = HowMany(Producers, "section")
      /\ ProdCons!At(Producers, "post") = HowMany(Producers, "post")
      /\ ProdCons!At(Consumers, "section") = HowMany(Consumers, "section")
      /\ ProdCons!At(Consumers, "post") = HowMany(Consumers, "post")
  BY SameSlotCardinality DEF ProdCons!At, HowMany, Those
<1>2. /\ empty + HowMany(Producers, "section") + InRing + HowMany(Consumers, "post") = BUFFER_SIZE
      /\ Len(pc_accepted) = Len(pc_delivered) + InRing
  BY DEF SlotsInv
<1>3. /\ empty \in Nat /\ full \in Nat
      /\ HowMany(Producers, "section") \in Nat /\ HowMany(Producers, "post") \in Nat
      /\ HowMany(Consumers, "section") \in Nat /\ HowMany(Consumers, "post") \in Nat
      /\ Len(pc_accepted) \in Nat /\ Len(pc_delivered) \in Nat
  BY SlotFacts
<1> QED BY SMTT(20), <1>1, <1>2, <1>3 DEF InRing, ProdCons!SlotsAccountedFor

LEMMA SlotContents ==
    ASSUME SlotsInv
    PROVE  /\ ProdCons!Contents \in Seq(ProdCons!Item) /\ Len(ProdCons!Contents) = InRing
           /\ \A k \in 1..InRing : ProdCons!Contents[k] = pc_buffer[Slot(out, k, BUFFER_SIZE)]
<1>1. InRing \in Nat /\ Len(pc_accepted) - Len(pc_delivered) = InRing
  BY SlotFacts DEF SlotsInv
<1>2. ProdCons!Contents = [k \in 1..InRing |-> pc_buffer[Slot(out, k, BUFFER_SIZE)]]
  BY <1>1 DEF ProdCons!Contents, Slot
<1>3. ProdCons!Contents \in [1..InRing -> ProdCons!Item]
  BY <1>2 DEF SlotsInv, SlotsHold
<1> QED BY <1>1, <1>2, <1>3

LEMMA SlotsInitially ==
    ASSUME ProdCons!Init PROVE SlotsInv /\ ProdCons!Contents = <<>>
<1>1. /\ 0 \in 0..(BUFFER_SIZE - 1) /\ 0 \in 0..BUFFER_SIZE /\ BUFFER_SIZE \in 0..BUFFER_SIZE
      /\ 0 \in 0..Calls /\ 0 # BUFFER_SIZE
  BY SlotsAssumption, CallsAssumption
<1>2. Slot(0, 1, BUFFER_SIZE) = 0
  BY <1>1, SlotsAssumption, HeadSlot
<1>3. ASSUME NEW S \in {Producers, Consumers}, NEW place \in {"section", "post"}
      PROVE  HowMany(S, place) = 0
  <2>1. \A t \in ProdCons!Thread : pc[t] = "wait"
    BY DEF ProdCons!Init
  <2>2. Those(S, place) = {}
    BY <2>1 DEF Those, ProdCons!Thread
  <2> QED BY <2>2, FS_EmptySet DEF HowMany
<1>4. InRing = 0
  BY <1>3 DEF InRing, ProdCons!Init
<1>5. ProdCons!TypeOK
  BY <1>1 DEF ProdCons!Init, ProdCons!TypeOK, ProdCons!Slots
<1>6. SlotsHold
  BY <1>1, <1>2, <1>4 DEF SlotsHold, ProdCons!Init
<1>7. /\ empty + HowMany(Producers, "section") + InRing + HowMany(Consumers, "post") = BUFFER_SIZE
      /\ Len(pc_accepted) = Len(pc_delivered) + InRing
  BY <1>3, <1>4, SlotsAssumption DEF ProdCons!Init
<1>8. \A t \in ProdCons!Thread : pc[t] = "wait"
  BY DEF ProdCons!Init
<1>9. pc_delivered \in Seq(ProdCons!Item)
  BY DEF ProdCons!Init
<1>10. SlotsInv
  BY <1>5, <1>6, <1>7, <1>8, <1>9 DEF SlotsInv
<1>11. ProdCons!Contents \in Seq(ProdCons!Item) /\ Len(ProdCons!Contents) = 0
  BY <1>4, <1>10, SlotContents
<1> QED BY <1>10, <1>11, EmptySeq

\* Of the waits and the posts.
LEMMA SlotsStay ==
    ASSUME SlotsInv, UNCHANGED <<pc_buffer, in, out, pc_accepted, pc_delivered>>,
           empty' \in Nat, full' \in Nat, InRing' = InRing,
           empty' + HowMany(Producers, "section")' + InRing' + HowMany(Consumers, "post")'
             = BUFFER_SIZE,
           pc' \in [ProdCons!Thread -> {"wait", "section", "post"}],
           rounds' \in [ProdCons!Thread -> 0..Calls],
           \A t \in ProdCons!Thread : pc'[t] # "wait" => rounds'[t] < Calls
    PROVE  SlotsInv' /\ ProdCons!Contents' = ProdCons!Contents
<1>1. /\ HowMany(Producers, "section")' \in Nat /\ HowMany(Producers, "post")' \in Nat
      /\ HowMany(Consumers, "section")' \in Nat /\ HowMany(Consumers, "post")' \in Nat
  BY CountsAreNatural, FiniteAssumption
<1>2. InRing' = full' + HowMany(Producers, "post")' + HowMany(Consumers, "section")'
  BY DEF InRing
<1>3. empty' \in 0..BUFFER_SIZE /\ full' \in 0..BUFFER_SIZE
  BY <1>1, <1>2, SlotsAssumption
<1>4. ProdCons!TypeOK'
  BY <1>3 DEF SlotsInv, ProdCons!TypeOK
<1>5. SlotsHold'
  BY DEF SlotsInv, SlotsHold, Slot
<1>6. Len(pc_accepted') = Len(pc_delivered') + InRing'
  BY DEF SlotsInv
<1>7. ProdCons!Contents' = ProdCons!Contents
  BY DEF ProdCons!Contents
<1> QED BY <1>4, <1>5, <1>6, <1>7 DEF SlotsInv

LEMMA SlotWaits ==
    ASSUME SlotsInv, NEW t \in ProdCons!Thread,
           \/ t \in Producers /\ (ProdCons!ProducerWait(t) \/ ProdCons!ProducerPost(t))
           \/ t \in Consumers /\ (ProdCons!ConsumerWait(t) \/ ProdCons!ConsumerPost(t))
    PROVE  SlotsInv' /\ ProdCons!Contents' = ProdCons!Contents /\ UNCHANGED pc_delivered
<1>1. /\ empty \in Nat /\ full \in Nat /\ BUFFER_SIZE \in Nat
      /\ HowMany(Producers, "section") \in Nat /\ HowMany(Producers, "post") \in Nat
      /\ HowMany(Consumers, "section") \in Nat /\ HowMany(Consumers, "post") \in Nat
      /\ Producers \subseteq ProdCons!Thread /\ Consumers \subseteq ProdCons!Thread
      /\ pc \in [ProdCons!Thread -> {"wait", "section", "post"}]
      /\ rounds \in [ProdCons!Thread -> 0..Calls] /\ Calls \in Nat
      /\ IsFiniteSet(Producers) /\ IsFiniteSet(Consumers)
  BY SlotFacts, FiniteAssumption
<1>2. /\ empty + HowMany(Producers, "section") + InRing + HowMany(Consumers, "post") = BUFFER_SIZE
      /\ \A u \in ProdCons!Thread : pc[u] # "wait" => rounds[u] < Calls
  BY DEF SlotsInv
<1>3. InRing = full + HowMany(Producers, "post") + HowMany(Consumers, "section")
      /\ InRing' = full' + HowMany(Producers, "post")' + HowMany(Consumers, "section")'
  BY DEF InRing
<1>4. ASSUME t \in Producers, ProdCons!ProducerWait(t)
      PROVE  SlotsInv' /\ ProdCons!Contents' = ProdCons!Contents /\ UNCHANGED pc_delivered
  <2>1. /\ pc[t] = "wait" /\ rounds[t] < Calls /\ empty > 0 /\ empty' = empty - 1
        /\ pc' = [pc EXCEPT ![t] = "section"]
        /\ UNCHANGED <<pc_buffer, in, out, full, rounds, pc_accepted, pc_delivered>>
    BY <1>4 DEF ProdCons!ProducerWait, ProdCons!WaitEmpty, ProdCons!Goto
  <2>2. /\ HowMany(Producers, "section")' = HowMany(Producers, "section") + 1
        /\ HowMany(Producers, "post")' = HowMany(Producers, "post")
    <3>1. Producers \subseteq ProdCons!Thread
      BY DEF ProdCons!Thread
    <3>2. HowMany(Producers, "section")' = HowMany(Producers, "section") + 1
      BY <1>1, <1>4, <2>1, <3>1, OneMoves
    <3>3. HowMany(Producers, "post")' = HowMany(Producers, "post")
      BY <1>1, <1>4, <2>1, <3>1, ElsewhereAsMany
    <3> QED BY <3>2, <3>3
  <2>3. t \notin Consumers
    BY <1>4, ThreadsAssumption
  <2>4. /\ HowMany(Consumers, "section")' = HowMany(Consumers, "section")
        /\ HowMany(Consumers, "post")' = HowMany(Consumers, "post")
    BY <1>1, <2>1, <2>3, NoneMoves
  <2>5. InRing' = InRing /\ empty' \in Nat
    BY <1>1, <1>3, <2>1, <2>2, <2>4
  <2>6. empty' + HowMany(Producers, "section")' + InRing' + HowMany(Consumers, "post")'
          = BUFFER_SIZE
    BY <1>1, <1>2, <1>3, <2>1, <2>2, <2>4, <2>5
  <2> QED BY <1>1, <1>2, <2>1, <2>5, <2>6, SlotsStay
<1>5. ASSUME t \in Producers, ProdCons!ProducerPost(t)
      PROVE  SlotsInv' /\ ProdCons!Contents' = ProdCons!Contents /\ UNCHANGED pc_delivered
  <2>1. /\ pc[t] = "post" /\ full' = full + 1 /\ pc' = [pc EXCEPT ![t] = "wait"]
        /\ rounds' = [rounds EXCEPT ![t] = rounds[t] + 1]
        /\ UNCHANGED <<pc_buffer, in, out, empty, pc_accepted, pc_delivered>>
    BY <1>5 DEF ProdCons!ProducerPost, ProdCons!PostFull, ProdCons!Goto, ProdCons!NextRound
  <2>2. /\ HowMany(Producers, "post")' = HowMany(Producers, "post") - 1
        /\ HowMany(Producers, "section")' = HowMany(Producers, "section")
    BY <1>1, <1>5, <2>1, OneMoves, ElsewhereAsMany
  <2>3. t \notin Consumers
    BY <1>5, ThreadsAssumption
  <2>4. /\ HowMany(Consumers, "section")' = HowMany(Consumers, "section")
        /\ HowMany(Consumers, "post")' = HowMany(Consumers, "post")
    BY <1>1, <2>1, <2>3, NoneMoves
  <2>5. InRing' = InRing /\ full' \in Nat
    BY <1>1, <1>3, <2>1, <2>2, <2>4
  <2>6. empty' + HowMany(Producers, "section")' + InRing' + HowMany(Consumers, "post")'
          = BUFFER_SIZE
    BY <1>1, <1>2, <2>1, <2>2, <2>4, <2>5
  <2>7. rounds[t] + 1 \in 0..Calls
    BY <1>1, <1>2, <2>1
  <2>8. rounds' \in [ProdCons!Thread -> 0..Calls]
    BY <1>1, <2>1, <2>7
  <2>9. \A u \in ProdCons!Thread : pc'[u] # "wait" => rounds'[u] < Calls
    BY <1>1, <1>2, <2>1
  <2> QED BY <1>1, <2>1, <2>5, <2>6, <2>8, <2>9, SlotsStay
<1>6. ASSUME t \in Consumers, ProdCons!ConsumerWait(t)
      PROVE  SlotsInv' /\ ProdCons!Contents' = ProdCons!Contents /\ UNCHANGED pc_delivered
  <2>1. /\ pc[t] = "wait" /\ rounds[t] < Calls /\ full > 0 /\ full' = full - 1
        /\ pc' = [pc EXCEPT ![t] = "section"]
        /\ UNCHANGED <<pc_buffer, in, out, empty, rounds, pc_accepted, pc_delivered>>
    BY <1>6 DEF ProdCons!ConsumerWait, ProdCons!Goto
  <2>2. /\ HowMany(Consumers, "section")' = HowMany(Consumers, "section") + 1
        /\ HowMany(Consumers, "post")' = HowMany(Consumers, "post")
    <3>1. Consumers \subseteq ProdCons!Thread
      BY DEF ProdCons!Thread
    <3>2. HowMany(Consumers, "section")' = HowMany(Consumers, "section") + 1
      BY <1>1, <1>6, <2>1, <3>1, OneMoves
    <3>3. HowMany(Consumers, "post")' = HowMany(Consumers, "post")
      BY <1>1, <1>6, <2>1, <3>1, ElsewhereAsMany
    <3> QED BY <3>2, <3>3
  <2>3. t \notin Producers
    BY <1>6, ThreadsAssumption
  <2>4. /\ HowMany(Producers, "section")' = HowMany(Producers, "section")
        /\ HowMany(Producers, "post")' = HowMany(Producers, "post")
    BY <1>1, <2>1, <2>3, NoneMoves
  <2>5. InRing' = InRing /\ full' \in Nat
    BY <1>1, <1>3, <2>1, <2>2, <2>4
  <2>6. empty' + HowMany(Producers, "section")' + InRing' + HowMany(Consumers, "post")'
          = BUFFER_SIZE
    BY <1>1, <1>2, <2>1, <2>2, <2>4, <2>5
  <2> QED BY <1>1, <1>2, <2>1, <2>5, <2>6, SlotsStay
<1>7. ASSUME t \in Consumers, ProdCons!ConsumerPost(t)
      PROVE  SlotsInv' /\ ProdCons!Contents' = ProdCons!Contents /\ UNCHANGED pc_delivered
  <2>1. /\ pc[t] = "post" /\ empty' = empty + 1 /\ pc' = [pc EXCEPT ![t] = "wait"]
        /\ rounds' = [rounds EXCEPT ![t] = rounds[t] + 1]
        /\ UNCHANGED <<pc_buffer, in, out, full, pc_accepted, pc_delivered>>
    BY <1>7 DEF ProdCons!ConsumerPost, ProdCons!Goto, ProdCons!NextRound
  <2>2. /\ HowMany(Consumers, "post")' = HowMany(Consumers, "post") - 1
        /\ HowMany(Consumers, "section")' = HowMany(Consumers, "section")
    BY <1>1, <1>7, <2>1, OneMoves, ElsewhereAsMany
  <2>3. t \notin Producers
    BY <1>7, ThreadsAssumption
  <2>4. /\ HowMany(Producers, "section")' = HowMany(Producers, "section")
        /\ HowMany(Producers, "post")' = HowMany(Producers, "post")
    BY <1>1, <2>1, <2>3, NoneMoves
  <2>5. InRing' = InRing /\ empty' \in Nat
    BY <1>1, <1>3, <2>1, <2>2, <2>4
  <2>6. empty' + HowMany(Producers, "section")' + InRing' + HowMany(Consumers, "post")'
          = BUFFER_SIZE
    BY <1>1, <1>2, <1>3, <2>1, <2>2, <2>4, <2>5
  <2>7. rounds[t] + 1 \in 0..Calls
    BY <1>1, <1>2, <2>1
  <2>8. rounds' \in [ProdCons!Thread -> 0..Calls]
    BY <1>1, <2>1, <2>7
  <2>9. \A u \in ProdCons!Thread : pc'[u] # "wait" => rounds'[u] < Calls
    BY <1>1, <1>2, <2>1
  <2> QED BY <1>1, <2>1, <2>5, <2>6, <2>8, <2>9, SlotsStay
<1> QED BY <1>4, <1>5, <1>6, <1>7

LEMMA SlotInsert ==
    ASSUME SlotsInv, NEW p \in Producers, ProdCons!Insert(p)
    PROVE  /\ SlotsInv' /\ InRing < BUFFER_SIZE /\ <<p, rounds[p] + 1>> \in ProdCons!Item
           /\ ProdCons!Contents' = Append(ProdCons!Contents, <<p, rounds[p] + 1>>)
           /\ UNCHANGED pc_delivered
<1> DEFINE B == BUFFER_SIZE
           x == <<p, rounds[p] + 1>>
           n == InRing
<1>1. /\ B \in Nat \ {0} /\ in \in 0..(B - 1) /\ out \in 0..(B - 1) /\ n \in 0..B
      /\ empty \in Nat /\ full \in Nat
      /\ HowMany(Producers, "section") \in Nat /\ HowMany(Producers, "post") \in Nat
      /\ HowMany(Consumers, "section") \in Nat /\ HowMany(Consumers, "post") \in Nat
      /\ Producers \subseteq ProdCons!Thread /\ Consumers \subseteq ProdCons!Thread
      /\ pc \in [ProdCons!Thread -> {"wait", "section", "post"}]
      /\ rounds \in [ProdCons!Thread -> 0..Calls] /\ Calls \in Nat
      /\ IsFiniteSet(Producers) /\ p \in ProdCons!Thread /\ p \notin Consumers
  BY SlotFacts, FiniteAssumption, ThreadsAssumption
<1>2. /\ empty + HowMany(Producers, "section") + InRing + HowMany(Consumers, "post") = B
      /\ \A u \in ProdCons!Thread : pc[u] # "wait" => rounds[u] < Calls
      /\ Len(pc_accepted) = Len(pc_delivered) + InRing
      /\ ProdCons!TypeOK /\ SlotsHold /\ pc_delivered \in Seq(ProdCons!Item)
  BY DEF SlotsInv
<1>3. /\ pc[p] = "section" /\ pc_buffer' = [pc_buffer EXCEPT ![in] = x]
      /\ in' = (in + 1) % B /\ pc_accepted' = Append(pc_accepted, x)
      /\ pc' = [pc EXCEPT ![p] = "post"]
      /\ UNCHANGED <<out, empty, full, rounds, pc_delivered>>
  BY DEF ProdCons!Insert, ProdCons!Goto
<1>4. rounds[p] + 1 \in 1..Calls /\ x \in ProdCons!Item
  <2>1. rounds[p] < Calls /\ rounds[p] \in 0..Calls
    BY <1>1, <1>2, <1>3
  <2>2. rounds[p] + 1 \in 1..Calls
    BY <1>1, <2>1
  <2> QED BY <2>2 DEF ProdCons!Item
<1>5. /\ HowMany(Producers, "section")' = HowMany(Producers, "section") - 1
      /\ HowMany(Producers, "section") > 0
      /\ HowMany(Producers, "post")' = HowMany(Producers, "post") + 1
  BY <1>1, <1>3, OneMoves
<1>6. /\ HowMany(Consumers, "section")' = HowMany(Consumers, "section")
      /\ HowMany(Consumers, "post")' = HowMany(Consumers, "post")
  BY <1>1, <1>3, NoneMoves
<1>7. InRing' = InRing + 1
  BY <1>1, <1>3, <1>5, <1>6 DEF InRing
<1>8. n < B /\ n + 1 \in 1..B /\ n # B
  BY SMTT(20), <1>1, <1>2, <1>5
<1>9. empty' + HowMany(Producers, "section")' + InRing' + HowMany(Consumers, "post")' = B
  <2>1. /\ empty' = empty
        /\ empty + HowMany(Producers, "section") + InRing + HowMany(Consumers, "post") = B
    BY <1>2, <1>3
  <2> QED BY <1>1, <1>5, <1>6, <1>7, <2>1
<1>10. in = Slot(out, n + 1, B)
  BY <1>2, <1>8 DEF SlotsHold
<1>11. in' \in 0..(B - 1)
  BY <1>1, <1>3, NextValue
<1>12. ASSUME NEW k \in 1..n
       PROVE  pc_buffer'[Slot(out, k, B)] = pc_buffer[Slot(out, k, B)]
  <2>1. k \in 1..B /\ k # n + 1
    BY <1>1, <1>8
  <2>2. Slot(out, k, B) # in /\ Slot(out, k, B) \in 0..(B - 1)
    BY <1>1, <1>8, <1>10, <2>1, SlotsDistinct, SlotValue
  <2> QED BY <1>2, <1>3, <2>2 DEF ProdCons!TypeOK, ProdCons!Slots
<1>13. pc_buffer'[Slot(out, n + 1, B)] = x
  BY <1>1, <1>2, <1>3, <1>10 DEF ProdCons!TypeOK, ProdCons!Slots
<1>14. \A k \in 1..(n + 1) : pc_buffer'[Slot(out, k, B)] \in ProdCons!Item
  <2>1. ASSUME NEW k \in 1..(n + 1) PROVE pc_buffer'[Slot(out, k, B)] \in ProdCons!Item
    <3>1. k \in 1..n \/ k = n + 1
      BY <1>1
    <3> QED BY <1>2, <1>4, <1>12, <1>13, <3>1 DEF SlotsHold
  <2> QED BY <2>1
<1>15. in' = IF n + 1 = B THEN out ELSE Slot(out, (n + 1) + 1, B)
  <2>1. CASE n + 1 = B
    <3>1. in = IF out + (n + 1) - 1 < B THEN out + (n + 1) - 1 ELSE out + (n + 1) - 1 - B
      BY <1>1, <1>8, <1>10, SlotValue
    <3>2. in' = IF in + 1 < B THEN in + 1 ELSE 0
      BY <1>1, <1>3, NextValue
    <3> QED BY <1>1, <2>1, <3>1, <3>2
  <2>2. CASE n + 1 # B
    <3>1. n + 1 \in 1..(B - 1)
      BY <1>1, <1>8, <2>2
    <3>2. Slot(out, (n + 1) + 1, B) = (Slot(out, n + 1, B) + 1) % B
      BY <1>1, <3>1, NextSlot
    <3> QED BY <1>3, <1>10, <2>2, <3>2
  <2> QED BY <2>1, <2>2
<1>16. SlotsHold'
  <2>1. in' = IF InRing' = B THEN out' ELSE Slot(out', InRing' + 1, B)
    BY <1>3, <1>7, <1>15
  <2>2. \A k \in 1..InRing' : pc_buffer'[Slot(out', k, B)] \in ProdCons!Item
    BY <1>3, <1>7, <1>14
  <2> QED BY <2>1, <2>2 DEF SlotsHold, Slot
<1>17. Len(pc_accepted') = Len(pc_delivered') + InRing' /\ pc_accepted' \in Seq(ProdCons!Item)
  <2>1. pc_accepted \in Seq(ProdCons!Item) /\ Len(pc_delivered) \in Nat
    BY <1>2 DEF ProdCons!TypeOK
  <2>2. Len(pc_accepted') = Len(pc_accepted) + 1 /\ pc_accepted' \in Seq(ProdCons!Item)
    BY <1>3, <1>4, <2>1, AppendProperties
  <2> QED BY <1>1, <1>2, <1>3, <1>7, <2>1, <2>2
<1>18. ProdCons!TypeOK'
  <2>1. pc_buffer' \in [ProdCons!Slots -> ProdCons!Item \cup {Zero}]
    BY <1>2, <1>3, <1>4 DEF ProdCons!TypeOK
  <2>2. pc' \in [ProdCons!Thread -> {"wait", "section", "post"}]
    BY <1>1, <1>3
  <2> QED BY <1>2, <1>3, <1>11, <1>17, <2>1, <2>2 DEF ProdCons!TypeOK, ProdCons!Slots
<1>19. \A u \in ProdCons!Thread : pc'[u] # "wait" => rounds'[u] < Calls
  BY <1>1, <1>2, <1>3
<1>20. SlotsInv'
  BY <1>2, <1>3, <1>9, <1>16, <1>17, <1>18, <1>19 DEF SlotsInv
<1>21. ProdCons!Contents' = Append(ProdCons!Contents, x)
  <2>1. /\ ProdCons!Contents \in Seq(ProdCons!Item) /\ Len(ProdCons!Contents) = n
        /\ \A k \in 1..n : ProdCons!Contents[k] = pc_buffer[Slot(out, k, B)]
    BY SlotContents
  <2>2. PICK t : t = ProdCons!Contents'
    OBVIOUS
  <2>3. Len(pc_accepted') - Len(pc_delivered') = n + 1
    BY <1>1, <1>3, <1>7, <1>17, SlotFacts
  <2>4. t = [k \in 1..(n + 1) |-> pc_buffer'[Slot(out, k, B)]]
    BY <1>3, <2>2, <2>3 DEF ProdCons!Contents, Slot
  <2>5. t \in [1..(n + 1) -> ProdCons!Item]
    BY <1>14, <2>4
  <2>6. t[n + 1] = x /\ \A k \in 1..n : t[k] = ProdCons!Contents[k]
    <3>1. n + 1 \in 1..(n + 1) /\ \A k \in 1..n : k \in 1..(n + 1)
      BY <1>1
    <3> QED BY <1>12, <1>13, <2>1, <2>4, <3>1
  <2> QED BY <1>4, <2>1, <2>2, <2>5, <2>6, AppendedRow
<1> QED BY <1>3, <1>4, <1>8, <1>20, <1>21

LEMMA SlotRemove ==
    ASSUME SlotsInv, NEW c \in Consumers, ProdCons!Remove(c)
    PROVE  /\ SlotsInv' /\ ProdCons!Contents # <<>>
           /\ ProdCons!Contents' = Tail(ProdCons!Contents)
           /\ pc_delivered' = Append(pc_delivered, Head(ProdCons!Contents))
<1> DEFINE B == BUFFER_SIZE
           n == InRing
<1>1. /\ B \in Nat \ {0} /\ in \in 0..(B - 1) /\ out \in 0..(B - 1) /\ n \in 0..B
      /\ empty \in Nat /\ full \in Nat
      /\ HowMany(Producers, "section") \in Nat /\ HowMany(Producers, "post") \in Nat
      /\ HowMany(Consumers, "section") \in Nat /\ HowMany(Consumers, "post") \in Nat
      /\ Producers \subseteq ProdCons!Thread /\ Consumers \subseteq ProdCons!Thread
      /\ pc \in [ProdCons!Thread -> {"wait", "section", "post"}]
      /\ IsFiniteSet(Consumers) /\ c \in ProdCons!Thread /\ c \notin Producers
  BY SlotFacts, FiniteAssumption, ThreadsAssumption
<1>2. /\ empty + HowMany(Producers, "section") + InRing + HowMany(Consumers, "post") = B
      /\ \A u \in ProdCons!Thread : pc[u] # "wait" => rounds[u] < Calls
      /\ Len(pc_accepted) = Len(pc_delivered) + InRing
      /\ ProdCons!TypeOK /\ SlotsHold /\ pc_delivered \in Seq(ProdCons!Item)
  BY DEF SlotsInv
<1>3. /\ pc[c] = "section" /\ pc_delivered' = Append(pc_delivered, pc_buffer[out])
      /\ out' = (out + 1) % B /\ pc' = [pc EXCEPT ![c] = "post"]
      /\ UNCHANGED <<pc_buffer, in, empty, full, rounds, pc_accepted>>
  BY DEF ProdCons!Remove, ProdCons!Goto
<1>4. /\ HowMany(Consumers, "section")' = HowMany(Consumers, "section") - 1
      /\ HowMany(Consumers, "section") > 0
      /\ HowMany(Consumers, "post")' = HowMany(Consumers, "post") + 1
  BY <1>1, <1>3, OneMoves
<1>5. /\ HowMany(Producers, "section")' = HowMany(Producers, "section")
      /\ HowMany(Producers, "post")' = HowMany(Producers, "post")
  BY <1>1, <1>3, NoneMoves
<1>6. InRing' = InRing - 1
  BY <1>1, <1>3, <1>4, <1>5 DEF InRing
<1>7. n \in 1..B /\ n - 1 \in 0..(B - 1) /\ 1 \in 1..B
  <2>1. n = full + HowMany(Producers, "post") + HowMany(Consumers, "section")
    BY DEF InRing
  <2> QED BY <1>1, <1>4, <2>1
<1>8. empty' + HowMany(Producers, "section")' + InRing' + HowMany(Consumers, "post")' = B
  BY <1>1, <1>2, <1>3, <1>4, <1>5, <1>6
<1>9. Slot(out, 1, B) = out /\ pc_buffer[out] \in ProdCons!Item
  BY <1>1, <1>2, <1>7, HeadSlot DEF SlotsHold
<1>10. out' \in 0..(B - 1)
  BY <1>1, <1>3, NextValue
<1>11. ASSUME NEW k \in 1..(B - 1) PROVE Slot(out', k, B) = Slot(out, k + 1, B)
  BY <1>1, <1>3, HeadSlot
<1>12. ASSUME NEW k \in 1..(n - 1)
       PROVE  /\ k + 1 \in 1..n /\ Slot(out', k, B) = Slot(out, k + 1, B)
              /\ pc_buffer[Slot(out', k, B)] \in ProdCons!Item
  <2>1. k \in 1..(B - 1) /\ k + 1 \in 1..n
    BY <1>1, <1>7
  <2> QED BY <1>2, <1>11, <2>1 DEF SlotsHold
<1>13. in = Slot(out', (n - 1) + 1, B)
  <2>1. CASE n = B
    <3>1. in = out
      BY <1>2, <2>1 DEF SlotsHold
    <3>2. Slot(out', B, B) = IF out' + B - 1 < B THEN out' + B - 1 ELSE out' + B - 1 - B
      <4>1. B \in 1..B
        BY <1>1
      <4> QED BY <1>1, <1>10, <4>1, SlotValue
    <3>3. out' = IF out + 1 < B THEN out + 1 ELSE 0
      BY <1>1, <1>3, NextValue
    <3>4. Slot(out', B, B) = out
      BY <1>1, <3>2, <3>3
    <3> QED BY <1>1, <2>1, <3>1, <3>4
  <2>2. CASE n # B
    <3>1. n \in 1..(B - 1) /\ (n - 1) + 1 = n
      BY <1>1, <1>7, <2>2
    <3>2. in = Slot(out, n + 1, B)
      BY <1>2, <2>2 DEF SlotsHold
    <3> QED BY <1>11, <3>1, <3>2
  <2> QED BY <2>1, <2>2
<1>14. SlotsHold'
  <2>1. InRing' # B
    BY <1>1, <1>6, <1>7
  <2>2. in' = IF InRing' = B THEN out' ELSE Slot(out', InRing' + 1, B)
    BY <1>3, <1>6, <1>13, <2>1
  <2>3. \A k \in 1..InRing' : pc_buffer'[Slot(out', k, B)] \in ProdCons!Item
    BY <1>3, <1>6, <1>12
  <2> QED BY <2>2, <2>3 DEF SlotsHold, Slot
<1>15. /\ pc_delivered' \in Seq(ProdCons!Item) /\ Len(pc_delivered') = Len(pc_delivered) + 1
       /\ Len(pc_accepted') = Len(pc_delivered') + InRing'
  <2>1. pc_delivered' \in Seq(ProdCons!Item) /\ Len(pc_delivered') = Len(pc_delivered) + 1
    BY <1>2, <1>3, <1>9, AppendProperties
  <2>2. Len(pc_delivered) \in Nat
    BY SlotFacts
  <2> QED BY <1>1, <1>2, <1>3, <1>6, <2>1, <2>2
<1>16. ProdCons!TypeOK'
  <2>1. pc' \in [ProdCons!Thread -> {"wait", "section", "post"}]
    BY <1>1, <1>3
  <2>2. pc_delivered' \in Seq(ProdCons!Item \cup {Zero})
    BY <1>15
  <2> QED BY <1>2, <1>3, <1>10, <2>1, <2>2 DEF ProdCons!TypeOK, ProdCons!Slots
<1>17. \A u \in ProdCons!Thread : pc'[u] # "wait" => rounds'[u] < Calls
  BY <1>1, <1>2, <1>3
<1>18. SlotsInv'
  BY <1>8, <1>14, <1>15, <1>16, <1>17 DEF SlotsInv
<1>19. /\ ProdCons!Contents \in Seq(ProdCons!Item) /\ Len(ProdCons!Contents) = n
       /\ \A k \in 1..n : ProdCons!Contents[k] = pc_buffer[Slot(out, k, B)]
  BY SlotContents
<1>20. ProdCons!Contents # <<>> /\ ProdCons!Contents' = Tail(ProdCons!Contents)
  <2>1. PICK t : t = ProdCons!Contents'
    OBVIOUS
  <2>2. Len(pc_accepted') - Len(pc_delivered') = n - 1
    <3>1. Len(pc_delivered) \in Nat
      BY SlotFacts
    <3> QED BY <1>1, <1>6, <1>15, <3>1
  <2>3. t = [k \in 1..(n - 1) |-> pc_buffer[Slot(out', k, B)]]
    BY <1>3, <2>1, <2>2 DEF ProdCons!Contents, Slot
  <2>4. t \in [1..(n - 1) -> ProdCons!Item]
    BY <1>12, <2>3
  <2>5. \A k \in 1..(n - 1) : t[k] = ProdCons!Contents[k + 1]
    BY <1>12, <1>19, <2>3
  <2>6. Len(ProdCons!Contents) > 0
    BY <1>7, <1>19
  <2> QED BY <1>19, <2>1, <2>4, <2>5, <2>6, RowWithoutHead
<1>21. Head(ProdCons!Contents) = pc_buffer[out]
  BY <1>7, <1>9, <1>19, <1>20
<1> QED BY <1>3, <1>18, <1>20, <1>21

LEMMA SlotsStep ==
    ASSUME SlotsInv, ProdCons!Next \/ UNCHANGED prodcons
    PROVE  /\ SlotsInv'
           /\ \/ \E p \in Producers : ProdCons!Insert(p)
              \/ \E c \in Consumers : ProdCons!Remove(c)
              \/ UNCHANGED <<ProdCons!Contents, pc_delivered>>
<1>1. CASE \E p \in Producers : ProdCons!Insert(p)
  BY <1>1, SlotInsert
<1>2. CASE \E c \in Consumers : ProdCons!Remove(c)
  BY <1>2, SlotRemove
<1>3. CASE \/ \E p \in Producers : ProdCons!ProducerWait(p) \/ ProdCons!ProducerPost(p)
           \/ \E c \in Consumers : ProdCons!ConsumerWait(c) \/ ProdCons!ConsumerPost(c)
  BY <1>3, SlotWaits DEF ProdCons!Thread
<1>4. CASE UNCHANGED prodcons
  <2>1. UNCHANGED <<pc_buffer, in, out, empty, full, pc, rounds, pc_accepted, pc_delivered>>
    BY <1>4 DEF prodcons
  <2>2. InRing' = InRing
    BY <2>1 DEF InRing, HowMany, Those
  <2>3. SlotsInv'
    BY <2>1, <2>2 DEF SlotsInv, ProdCons!TypeOK, SlotsHold, Slot, HowMany, Those
  <2>4. ProdCons!Contents' = ProdCons!Contents
    BY <2>1 DEF ProdCons!Contents
  <2> QED BY <2>1, <2>3, <2>4
<1> QED BY <1>1, <1>2, <1>3, <1>4
        DEF ProdCons!Next, ProdCons!ProducerStep, ProdCons!ConsumerStep, ProdCons!vars, prodcons
-----------------------------------------------------------------------------
(* The clients of the semaphores. *)

LEMMA SameClientCardinality == \A S : Clients!Cardinality(S) = Cardinality(S)
BY DEF Clients!Cardinality, Cardinality

LEMMA Programs ==
    /\ client = "cs" => Clients!Program = [t \in Workers |-> Clients!accessCriticalSection]
    /\ client = "ioe" => Clients!Program = [first |-> Clients!first, second |-> Clients!second,
                                            third |-> Clients!third]
    /\ client = "pc" => Clients!Program = [producer |-> Clients!producer,
                                           consumer |-> Clients!consumer]
    /\ client = "pool" => Clients!Program = [t \in Workers |-> Clients!usePermit]
BY DEF Clients!Program

LEMMA ThreadsOf ==
    /\ client \in {"cs", "pool"} => Clients!Thread = Workers
    /\ client = "ioe" => Clients!Thread = {"first", "second", "third"}
    /\ client = "pc" => Clients!Thread = {"producer", "consumer"}
BY Programs DEF Clients!Thread

ClientNames == {"cs", "ioe", "pc", "pool"}

LEMMA ProgramsAreFinite ==
    ASSUME client \in ClientNames
    PROVE  /\ IsFiniteSet(Clients!Thread)
           /\ \A t \in Clients!Thread : Len(Clients!Program[t]) \in Nat \ {0}
<1>1. CASE client \in {"cs", "pool"}
  BY <1>1, Programs, ThreadsOf, SemaphoresAssumption
     DEF Clients!accessCriticalSection, Clients!usePermit
<1>2. CASE client = "ioe"
  <2>1. IsFiniteSet({"first", "second", "third"})
    <3>1. IsFiniteSet({"first"}) /\ IsFiniteSet({"second"}) /\ IsFiniteSet({"third"})
      BY FS_Singleton
    <3>2. IsFiniteSet({"first"} \cup {"second"})
      BY <3>1, FS_Union
    <3>3. IsFiniteSet(({"first"} \cup {"second"}) \cup {"third"})
      BY <3>1, <3>2, FS_Union
    <3>4. {"first", "second", "third"} = ({"first"} \cup {"second"}) \cup {"third"}
      OBVIOUS
    <3> QED BY <3>3, <3>4
  <2>2. Len(Clients!first) = 3 /\ Len(Clients!second) = 3 /\ Len(Clients!third) = 2
    BY DEF Clients!first, Clients!second, Clients!third
  <2>3. /\ Clients!Program["first"] = Clients!first /\ Clients!Program["second"] = Clients!second
        /\ Clients!Program["third"] = Clients!third
    BY <1>2, Programs
  <2>4. Clients!Thread = {"first", "second", "third"}
    BY <1>2, ThreadsOf
  <2> QED BY <2>1, <2>2, <2>3, <2>4
<1>3. CASE client = "pc"
  <2>1. IsFiniteSet({"producer", "consumer"})
    <3>1. IsFiniteSet({"producer"}) /\ IsFiniteSet({"consumer"})
      BY FS_Singleton
    <3>2. IsFiniteSet({"producer"} \cup {"consumer"})
      BY <3>1, FS_Union
    <3>3. {"producer", "consumer"} = {"producer"} \cup {"consumer"}
      OBVIOUS
    <3> QED BY <3>2, <3>3
  <2>2. Len(Clients!producer) = 4 /\ Len(Clients!consumer) = 4
    BY DEF Clients!producer, Clients!consumer
  <2>3. /\ Clients!Program["producer"] = Clients!producer
        /\ Clients!Program["consumer"] = Clients!consumer
    BY <1>3, Programs
  <2>4. Clients!Thread = {"producer", "consumer"}
    BY <1>3, ThreadsOf
  <2>5. IsFiniteSet(Clients!Thread)
    BY <2>1, <2>4
  <2>6. ASSUME NEW t \in Clients!Thread PROVE Len(Clients!Program[t]) = 4
    <3>1. CASE t = "producer"
      BY <2>2, <2>3, <3>1
    <3>2. CASE t = "consumer"
      BY <2>2, <2>3, <3>2
    <3> QED BY <2>4, <3>1, <3>2
  <2> QED BY SMTT(20), <2>5, <2>6
<1> QED BY <1>1, <1>2, <1>3 DEF ClientNames

\* A sleeper is about to wait on the semaphore it sleeps at.
ClientTypes == /\ client \in ClientNames
               /\ Clients!TypeOK
               /\ sem_at \in [Clients!Thread -> Nat] /\ sem_rounds \in [Clients!Thread -> Nat]
               /\ \A s \in Clients!Sems : \A t \in cv[s] :
                     Clients!Runs(t) /\ Clients!Call(t) = <<"wait", s>>

LEMMA ClientsInitially ==
    ASSUME NEW C \in SUBSET ClientNames, Clients!Init(C)
    PROVE  ClientTypes /\ Clients!NobodyMissed
<1>1. client \in ClientNames
  BY DEF Clients!Init
<1>2. \A t \in Clients!Thread : 1 \in 1..Len(Clients!Program[t])
  BY <1>1, ProgramsAreFinite
<1>3. Clients!RoundsOf(client) \in Nat
  BY SemaphoresAssumption DEF Clients!RoundsOf
<1>4. sem_count \in [Clients!Sems -> Nat]
  BY SemaphoresAssumption
     DEF Clients!Init, Clients!SemInit, Clients!InitialCount, Clients!Sems, Clients!BinarySems
<1>5. \A s \in Clients!BinarySems : sem_count[s] \in {0, 1}
  BY DEF Clients!Init, Clients!SemInit, Clients!InitialCount, Clients!Sems, Clients!BinarySems
<1>6. Clients!TypeOK
  BY <1>2, <1>3, <1>4, <1>5 DEF Clients!TypeOK, Clients!Init, Clients!SemInit
<1> QED BY <1>1, <1>6 DEF ClientTypes, Clients!Init, Clients!SemInit, Clients!NobodyMissed

\* Everything about the threads that is the same in the next state.
LEMMA SameProgram ==
    ASSUME UNCHANGED client
    PROVE  /\ Clients!Program' = Clients!Program /\ Clients!Thread' = Clients!Thread
           /\ Clients!RoundsOf(client)' = Clients!RoundsOf(client)
BY DEF Clients!Program, Clients!Thread, Clients!RoundsOf

\* The next call of a thread, and those of the others, which stay.
LEMMA Moves ==
    ASSUME ClientTypes, UNCHANGED client, NEW t \in Clients!Thread,
           Clients!Runs(t), Clients!NextCall(t)
    PROVE  /\ sem_at' \in [Clients!Thread -> Nat] /\ sem_rounds' \in [Clients!Thread -> Nat]
           /\ \A u \in Clients!Thread :
                /\ sem_at'[u] \in 1..Len(Clients!Program[u])
                /\ sem_rounds'[u] \in 0..Clients!RoundsOf(client)
           /\ \A u \in Clients!Thread \ {t} :
                sem_at'[u] = sem_at[u] /\ sem_rounds'[u] = sem_rounds[u]
           /\ \/ /\ sem_at[t] < Len(Clients!Program[t]) /\ sem_at'[t] = sem_at[t] + 1
                 /\ sem_rounds'[t] = sem_rounds[t]
              \/ /\ sem_at[t] = Len(Clients!Program[t]) /\ sem_at'[t] = 1
                 /\ sem_rounds'[t] = sem_rounds[t] + 1
<1>1. /\ sem_at \in [Clients!Thread -> Nat] /\ sem_rounds \in [Clients!Thread -> Nat]
      /\ \A u \in Clients!Thread : /\ sem_at[u] \in 1..Len(Clients!Program[u])
                                   /\ sem_rounds[u] \in 0..Clients!RoundsOf(client)
                                   /\ Len(Clients!Program[u]) \in Nat \ {0}
      /\ Clients!RoundsOf(client) \in Nat
      /\ sem_rounds[t] < Clients!RoundsOf(client)
  BY ProgramsAreFinite, SemaphoresAssumption
     DEF ClientTypes, Clients!TypeOK, Clients!Runs, Clients!RoundsOf
<1>2. CASE /\ sem_at[t] < Len(Clients!Program[t])
           /\ sem_at' = [sem_at EXCEPT ![t] = sem_at[t] + 1]
           /\ sem_rounds' = sem_rounds
  BY <1>1, <1>2
<1>3. CASE /\ ~(sem_at[t] < Len(Clients!Program[t]))
           /\ sem_at' = [sem_at EXCEPT ![t] = 1]
           /\ sem_rounds' = [sem_rounds EXCEPT ![t] = sem_rounds[t] + 1]
  BY <1>1, <1>3
<1> QED BY <1>2, <1>3 DEF Clients!NextCall

\* The threads awake that are about to wait on s.
Coming(s) == {t \in Clients!Thread : /\ Clients!Runs(t) /\ ~Clients!Asleep(t)
                                     /\ Clients!Call(t) = <<"wait", s>>}

LEMMA ComingIsFinite ==
    ASSUME client \in ClientNames, UNCHANGED client, NEW s
    PROVE  /\ IsFiniteSet(Coming(s)) /\ Cardinality(Coming(s)) \in Nat
           /\ IsFiniteSet(Coming(s)') /\ Cardinality(Coming(s)') \in Nat
<1>1. Coming(s) \subseteq Clients!Thread /\ Coming(s)' \subseteq Clients!Thread
  BY SameProgram DEF Coming
<1> QED BY <1>1, ProgramsAreFinite, FS_Subset, FS_CardinalityType

CoveredBy(n, s) == cv[s] # {} => n <= Cardinality(Coming(s))

LEMMA Missed ==
    Clients!NobodyMissed <=> \A s \in Clients!Sems : CoveredBy(sem_count[s], s)
BY SameClientCardinality DEF Clients!NobodyMissed, CoveredBy, Coming

\* What must be shown of a step.
LEMMA ClientsKept ==
    ASSUME ClientTypes, UNCHANGED client, sem_buffer' \in Int,
           sem_count' \in [Clients!Sems -> Nat],
           \A s \in Clients!BinarySems : sem_count'[s] \in {0, 1},
           sem_at' \in [Clients!Thread -> Nat], sem_rounds' \in [Clients!Thread -> Nat],
           \A t \in Clients!Thread : /\ sem_at'[t] \in 1..Len(Clients!Program[t])
                                     /\ sem_rounds'[t] \in 0..Clients!RoundsOf(client),
           cv' \in [Clients!Sems -> SUBSET Clients!Thread],
           \A s \in Clients!Sems : \A t \in cv'[s] :
              /\ sem_rounds'[t] < Clients!RoundsOf(client)
              /\ Clients!Program[t][sem_at'[t]] = <<"wait", s>>,
           \A s \in Clients!Sems : cv'[s] # {} => sem_count'[s] <= Cardinality(Coming(s)')
    PROVE  ClientTypes' /\ Clients!NobodyMissed'
<1>1. ClientTypes'
  BY SameProgram DEF ClientTypes, Clients!TypeOK, Clients!Runs, Clients!Call
<1>2. \A s \in Clients!Sems : CoveredBy(sem_count[s], s)'
  BY DEF CoveredBy
<1>3. Clients!NobodyMissed'
  BY <1>2, SameClientCardinality, SameProgram DEF Clients!NobodyMissed, CoveredBy, Coming
<1> QED BY <1>1, <1>3

\* Where the threads are that neither move nor are woken.
LEMMA Others ==
    ASSUME UNCHANGED client, NEW u \in Clients!Thread,
           sem_at'[u] = sem_at[u], sem_rounds'[u] = sem_rounds[u]
    PROVE  Clients!Runs(u)' = Clients!Runs(u) /\ Clients!Call(u)' = Clients!Call(u)
BY SameProgram DEF Clients!Runs, Clients!Call

LEMMA WaitStep ==
    ASSUME ClientTypes, Clients!NobodyMissed, UNCHANGED client,
           NEW t \in Clients!Thread, NEW s \in Clients!Sems,
           Clients!Runs(t), ~Clients!Asleep(t), Clients!Passes(t, s)
    PROVE  ClientTypes' /\ Clients!NobodyMissed'
<1>1. /\ Clients!Call(t) = <<"wait", s>> /\ sem_count[s] > 0 /\ Clients!NextCall(t)
      /\ sem_count' = [sem_count EXCEPT ![s] = Clients!Taken(s)]
      /\ UNCHANGED <<cv, sem_buffer, printed>>
  BY DEF Clients!Passes, Clients!Wait, Clients!Available
<1>2. /\ sem_count \in [Clients!Sems -> Nat] /\ cv \in [Clients!Sems -> SUBSET Clients!Thread]
      /\ \A r \in Clients!BinarySems : sem_count[r] \in {0, 1}
      /\ sem_buffer \in Int
  BY DEF ClientTypes, Clients!TypeOK
<1>3. Clients!Taken(s) \in Nat /\ Clients!Taken(s) <= sem_count[s] - 1
      /\ (s \in Clients!BinarySems => Clients!Taken(s) = 0)
  BY <1>1, <1>2 DEF Clients!Taken
<1>4. sem_count' \in [Clients!Sems -> Nat]
  BY <1>1, <1>2, <1>3
<1>5. \A r \in Clients!BinarySems : sem_count'[r] \in {0, 1}
  BY <1>1, <1>2, <1>3 DEF Clients!Sems
<1>6. \A u \in Clients!Thread \ {t} :
         sem_at'[u] = sem_at[u] /\ sem_rounds'[u] = sem_rounds[u]
  BY <1>1, Moves
<1>7. ASSUME NEW r \in Clients!Sems, NEW u \in cv'[r]
      PROVE  /\ sem_rounds'[u] < Clients!RoundsOf(client)
             /\ Clients!Program[u][sem_at'[u]] = <<"wait", r>>
  <2>1. u \in cv[r] /\ u \in Clients!Thread /\ u # t
    BY <1>1, <1>2 DEF Clients!Asleep
  <2> QED BY <1>6, <2>1 DEF ClientTypes, Clients!Runs, Clients!Call
<1>8. ASSUME NEW r \in Clients!Sems, cv'[r] # {}
      PROVE  sem_count'[r] <= Cardinality(Coming(r)')
  <2>1. sem_count[r] <= Cardinality(Coming(r))
    BY <1>1, <1>8, Missed DEF CoveredBy
  <2>2. client \in ClientNames
    BY DEF ClientTypes
  <2>3. Coming(r) \ {t} \subseteq Coming(r)'
    <3>1. ASSUME NEW u \in Coming(r) \ {t} PROVE u \in Coming(r)'
      <4>1. Clients!Runs(u)' = Clients!Runs(u) /\ Clients!Call(u)' = Clients!Call(u)
            /\ Clients!Asleep(u)' = Clients!Asleep(u)
        BY <1>1, <1>6, Others DEF Coming, Clients!Asleep
      <4> QED BY <4>1, SameProgram DEF Coming
    <3> QED BY <3>1
  <2>4. CASE r = s
    <3>1. t \in Coming(s)
      BY <1>1 DEF Coming
    <3>2. Cardinality(Coming(s) \ {t}) = Cardinality(Coming(s)) - 1
      BY <2>2, <3>1, ComingIsFinite, FS_RemoveElement
    <3>3. Cardinality(Coming(s) \ {t}) <= Cardinality(Coming(s)')
      BY <2>2, <2>3, <2>4, ComingIsFinite, FS_Subset
    <3>4. sem_count'[s] <= sem_count[s] - 1
      BY <1>1, <1>2, <1>3
    <3> QED BY <1>2, <1>4, <2>1, <2>2, <2>4, <3>2, <3>3, <3>4, ComingIsFinite
  <2>5. CASE r # s
    <3>1. t \notin Coming(r)
      BY <1>1, <2>5 DEF Coming
    <3>2. Cardinality(Coming(r)) <= Cardinality(Coming(r)')
      BY <2>2, <2>3, <3>1, ComingIsFinite, FS_Subset
    <3>3. sem_count'[r] = sem_count[r]
      BY <1>1, <1>2, <2>5
    <3> QED BY <1>2, <2>1, <2>2, <3>2, <3>3, ComingIsFinite
  <2> QED BY <2>4, <2>5
<1> QED BY <1>1, <1>2, <1>4, <1>5, <1>7, <1>8, ClientsKept, Moves

\* Of steps after which at least as many threads are about to wait on each semaphore.
LEMMA ComingGrows ==
    ASSUME client \in ClientNames, UNCHANGED client, NEW r,
           \A u \in Clients!Thread :
              u \in Coming(r) => /\ Clients!Runs(u)' /\ ~Clients!Asleep(u)'
                                 /\ Clients!Call(u)' = <<"wait", r>>
    PROVE  /\ Coming(r) \subseteq Coming(r)'
           /\ Cardinality(Coming(r)) <= Cardinality(Coming(r)')
<1>1. Coming(r) \subseteq Coming(r)'
  BY SameProgram DEF Coming
<1> QED BY <1>1, ComingIsFinite, FS_Subset

LEMMA SignalStep ==
    ASSUME ClientTypes, Clients!NobodyMissed, UNCHANGED client,
           NEW t \in Clients!Thread, NEW s \in Clients!Sems,
           Clients!Runs(t), ~Clients!Asleep(t), Clients!Signals(t, s)
    PROVE  ClientTypes' /\ Clients!NobodyMissed'
<1>1. /\ Clients!Call(t) = <<"signal", s>> /\ Clients!NextCall(t)
      /\ sem_count' = [sem_count EXCEPT ![s] = Clients!Given(s)]
      /\ UNCHANGED <<sem_buffer, printed>>
  BY DEF Clients!Signals, Clients!Signal
<1>2. PICK asleep \in Clients!NotifyOne(cv[s]) : cv' = [cv EXCEPT ![s] = asleep]
  BY DEF Clients!Signals, Clients!Signal, Clients!Notify
<1>3. /\ sem_count \in [Clients!Sems -> Nat] /\ cv \in [Clients!Sems -> SUBSET Clients!Thread]
      /\ \A r \in Clients!BinarySems : sem_count[r] \in {0, 1}
      /\ sem_buffer \in Int /\ client \in ClientNames
  BY DEF ClientTypes, Clients!TypeOK
<1>4. /\ asleep \subseteq cv[s]
      /\ asleep # {} => \E w \in cv[s] : asleep = cv[s] \ {w}
  BY <1>2 DEF Clients!NotifyOne
<1>5. Clients!Given(s) \in Nat /\ Clients!Given(s) <= sem_count[s] + 1
      /\ (s \in Clients!BinarySems => Clients!Given(s) = 1)
  BY <1>3 DEF Clients!Given
<1>6. sem_count' \in [Clients!Sems -> Nat]
  BY <1>1, <1>3, <1>5
<1>7. \A r \in Clients!BinarySems : sem_count'[r] \in {0, 1}
  BY <1>1, <1>3, <1>5 DEF Clients!Sems
<1>8. \A u \in Clients!Thread \ {t} :
         sem_at'[u] = sem_at[u] /\ sem_rounds'[u] = sem_rounds[u]
  BY <1>1, Moves
<1>9. /\ cv' \in [Clients!Sems -> SUBSET Clients!Thread]
      /\ \A r \in Clients!Sems : cv'[r] \subseteq cv[r]
      /\ \A r \in Clients!Sems \ {s} : cv'[r] = cv[r]
      /\ cv'[s] = asleep
  BY <1>2, <1>3, <1>4
<1>10. ASSUME NEW r \in Clients!Sems, NEW u \in cv'[r]
       PROVE  /\ sem_rounds'[u] < Clients!RoundsOf(client)
              /\ Clients!Program[u][sem_at'[u]] = <<"wait", r>>
  <2>1. u \in cv[r] /\ u \in Clients!Thread /\ u # t
    BY <1>3, <1>9 DEF Clients!Asleep
  <2> QED BY <1>8, <2>1 DEF ClientTypes, Clients!Runs, Clients!Call
<1>11. ASSUME NEW r \in Clients!Sems
       PROVE  /\ Coming(r) \subseteq Coming(r)'
              /\ Cardinality(Coming(r)) <= Cardinality(Coming(r)')
  <2>1. ASSUME NEW u \in Clients!Thread, u \in Coming(r)
        PROVE  /\ Clients!Runs(u)' /\ ~Clients!Asleep(u)'
               /\ Clients!Call(u)' = <<"wait", r>>
    <3>1. u # t
      BY <1>1, <2>1 DEF Coming
    <3>2. Clients!Runs(u)' = Clients!Runs(u) /\ Clients!Call(u)' = Clients!Call(u)
      BY <1>8, <3>1, Others
    <3>3. ~Clients!Asleep(u)'
      BY <1>9, <2>1 DEF Coming, Clients!Asleep
    <3> QED BY <2>1, <3>2, <3>3 DEF Coming
  <2> QED BY <1>3, <2>1, ComingGrows
<1>12. ASSUME NEW r \in Clients!Sems, cv'[r] # {}
       PROVE  sem_count'[r] <= Cardinality(Coming(r)')
  <2>1. sem_count[r] <= Cardinality(Coming(r))
    BY <1>9, <1>12, Missed DEF CoveredBy
  <2>2. CASE r # s
    <3>1. sem_count'[r] = sem_count[r]
      BY <1>1, <1>3, <2>2
    <3> QED BY <1>3, <1>11, <2>1, <3>1, ComingIsFinite
  <2>3. CASE r = s
    <3>1. PICK w \in cv[s] : asleep = cv[s] \ {w}
      BY <1>4, <1>9, <1>12, <2>3
    <3>2. w \in Clients!Thread /\ w # t /\ Clients!Runs(w) /\ Clients!Call(w) = <<"wait", s>>
      BY <1>3, <3>1 DEF Clients!Asleep, ClientTypes
    <3>3. ~Clients!Asleep(w)'
      <4>1. ASSUME NEW q \in Clients!Sems, w \in cv'[q] PROVE FALSE
        <5>1. w \in cv[q] /\ q # s
          BY <1>9, <3>1, <4>1
        <5>2. Clients!Call(w) = <<"wait", q>>
          BY <5>1 DEF ClientTypes
        <5> QED BY <3>2, <5>1, <5>2
      <4> QED BY <4>1 DEF Clients!Asleep
    <3>4. w \in Coming(s)' /\ w \notin Coming(s)
      <4>1. Clients!Runs(w)' = Clients!Runs(w) /\ Clients!Call(w)' = Clients!Call(w)
        BY <1>8, <3>2, Others
      <4> QED BY <3>1, <3>2, <3>3, <4>1, SameProgram DEF Coming, Clients!Asleep
    <3>5. Cardinality(Coming(s) \cup {w}) = Cardinality(Coming(s)) + 1
      BY <1>3, <3>4, ComingIsFinite, FS_AddElement
    <3>6. Cardinality(Coming(s) \cup {w}) <= Cardinality(Coming(s)')
      <4>1. Coming(s) \cup {w} \subseteq Coming(s)'
        BY <1>11, <3>4
      <4> QED BY <1>3, <4>1, ComingIsFinite, FS_Subset
    <3>7. sem_count'[s] <= sem_count[s] + 1 /\ sem_count'[s] \in Nat
      BY <1>1, <1>3, <1>5, <1>6
    <3> QED BY <1>3, <2>1, <2>3, <3>5, <3>6, <3>7, ComingIsFinite
  <2> QED BY <2>2, <2>3
<1> QED BY <1>1, <1>3, <1>6, <1>7, <1>9, <1>10, <1>12, ClientsKept, Moves

LEMMA SleepStep ==
    ASSUME ClientTypes, Clients!NobodyMissed, UNCHANGED client,
           NEW t \in Clients!Thread, NEW s \in Clients!Sems,
           Clients!Runs(t), ~Clients!Asleep(t), Clients!Sleeps(t, s)
    PROVE  ClientTypes' /\ Clients!NobodyMissed'
<1>1. /\ Clients!Call(t) = <<"wait", s>> /\ ~(sem_count[s] > 0)
      /\ cv' = [cv EXCEPT ![s] = cv[s] \cup {t}]
      /\ UNCHANGED <<sem_count, sem_at, sem_rounds, sem_buffer, printed>>
  BY DEF Clients!Sleeps, Clients!WaitSleeps, Clients!Available
<1>2. /\ sem_count \in [Clients!Sems -> Nat] /\ cv \in [Clients!Sems -> SUBSET Clients!Thread]
      /\ \A r \in Clients!BinarySems : sem_count[r] \in {0, 1}
      /\ sem_buffer \in Int /\ client \in ClientNames
      /\ sem_at \in [Clients!Thread -> Nat] /\ sem_rounds \in [Clients!Thread -> Nat]
      /\ \A u \in Clients!Thread : /\ sem_at[u] \in 1..Len(Clients!Program[u])
                                   /\ sem_rounds[u] \in 0..Clients!RoundsOf(client)
  BY DEF ClientTypes, Clients!TypeOK
<1>3. /\ cv' \in [Clients!Sems -> SUBSET Clients!Thread]
      /\ \A r \in Clients!Sems \ {s} : cv'[r] = cv[r]
      /\ cv'[s] = cv[s] \cup {t}
  BY <1>1, <1>2
<1>4. ASSUME NEW r \in Clients!Sems, NEW u \in cv'[r]
      PROVE  /\ sem_rounds'[u] < Clients!RoundsOf(client)
             /\ Clients!Program[u][sem_at'[u]] = <<"wait", r>>
  <2>1. u \in cv[r] \/ (u = t /\ r = s)
    BY <1>3
  <2> QED BY <1>1, <2>1 DEF ClientTypes, Clients!Runs, Clients!Call
<1>5. ASSUME NEW r \in Clients!Sems, cv'[r] # {}
      PROVE  sem_count'[r] <= Cardinality(Coming(r)')
  <2>1. CASE r = s
    BY <1>1, <1>2, <2>1, ComingIsFinite
  <2>2. CASE r # s
    <3>1. sem_count[r] <= Cardinality(Coming(r))
      BY <1>3, <1>5, <2>2, Missed DEF CoveredBy
    <3>2. ASSUME NEW u \in Clients!Thread, u \in Coming(r)
          PROVE  /\ Clients!Runs(u)' /\ ~Clients!Asleep(u)'
                 /\ Clients!Call(u)' = <<"wait", r>>
      <4>1. u # t
        BY <1>1, <2>2, <3>2 DEF Coming
      <4>2. Clients!Runs(u)' = Clients!Runs(u) /\ Clients!Call(u)' = Clients!Call(u)
        BY <1>1, Others
      <4>3. ~Clients!Asleep(u)'
        BY <1>3, <3>2, <4>1 DEF Coming, Clients!Asleep
      <4> QED BY <3>2, <4>2, <4>3 DEF Coming
    <3>3. Cardinality(Coming(r)) <= Cardinality(Coming(r)')
      BY <1>2, <3>2, ComingGrows
    <3> QED BY <1>1, <1>2, <3>1, <3>3, ComingIsFinite
  <2> QED BY <2>1, <2>2
<1> QED BY <1>1, <1>2, <1>3, <1>4, <1>5, ClientsKept

LEMMA QuietStep ==
    ASSUME ClientTypes, Clients!NobodyMissed, UNCHANGED client,
           NEW t \in Clients!Thread, Clients!Runs(t), ~Clients!Asleep(t),
           Clients!Pushes(t) \/ Clients!Pops(t) \/ Clients!Prints(t)
    PROVE  ClientTypes' /\ Clients!NobodyMissed'
<1>1. /\ \A s : Clients!Call(t) # <<"wait", s>>
      /\ Clients!NextCall(t) /\ UNCHANGED <<sem_count, cv>>
      /\ sem_buffer' \in {sem_buffer - 1, sem_buffer, sem_buffer + 1}
  BY DEF Clients!Pushes, Clients!Pops, Clients!Prints
<1>2. /\ sem_count \in [Clients!Sems -> Nat] /\ cv \in [Clients!Sems -> SUBSET Clients!Thread]
      /\ \A r \in Clients!BinarySems : sem_count[r] \in {0, 1}
      /\ sem_buffer \in Int /\ client \in ClientNames
  BY DEF ClientTypes, Clients!TypeOK
<1>3. \A u \in Clients!Thread \ {t} :
         sem_at'[u] = sem_at[u] /\ sem_rounds'[u] = sem_rounds[u]
  BY <1>1, Moves
<1>4. ASSUME NEW r \in Clients!Sems, NEW u \in cv'[r]
      PROVE  /\ sem_rounds'[u] < Clients!RoundsOf(client)
             /\ Clients!Program[u][sem_at'[u]] = <<"wait", r>>
  <2>1. u \in cv[r] /\ u \in Clients!Thread /\ u # t
    BY <1>1, <1>2 DEF Clients!Asleep
  <2> QED BY <1>3, <2>1 DEF ClientTypes, Clients!Runs, Clients!Call
<1>5. ASSUME NEW r \in Clients!Sems, cv'[r] # {}
      PROVE  sem_count'[r] <= Cardinality(Coming(r)')
  <2>1. sem_count[r] <= Cardinality(Coming(r))
    BY <1>1, <1>5, Missed DEF CoveredBy
  <2>2. ASSUME NEW u \in Clients!Thread, u \in Coming(r)
        PROVE  /\ Clients!Runs(u)' /\ ~Clients!Asleep(u)'
               /\ Clients!Call(u)' = <<"wait", r>>
    <3>1. u # t
      BY <1>1, <2>2 DEF Coming
    <3>2. Clients!Runs(u)' = Clients!Runs(u) /\ Clients!Call(u)' = Clients!Call(u)
      BY <1>3, <3>1, Others
    <3> QED BY <1>1, <2>2, <3>2 DEF Coming, Clients!Asleep
  <2>3. Cardinality(Coming(r)) <= Cardinality(Coming(r)')
    BY <1>2, <2>2, ComingGrows
  <2> QED BY <1>1, <1>2, <2>1, <2>3, ComingIsFinite
<1>6. sem_buffer' \in Int
  BY <1>1, <1>2
<1> QED BY <1>1, <1>2, <1>4, <1>5, <1>6, ClientsKept, Moves

LEMMA WakeStep ==
    ASSUME ClientTypes, Clients!NobodyMissed, Clients!WakeSpuriously,
           UNCHANGED <<client, sem_at, sem_rounds, sem_buffer, printed>>
    PROVE  ClientTypes' /\ Clients!NobodyMissed'
<1>1. PICK s \in Clients!Sems : \E asleep \in Clients!WakeOne(cv[s]) :
         cv' = [cv EXCEPT ![s] = asleep]
  BY DEF Clients!WakeSpuriously
<1>2. PICK w \in cv[s] : cv' = [cv EXCEPT ![s] = cv[s] \ {w}]
  BY <1>1 DEF Clients!WakeOne
<1>3. UNCHANGED sem_count
  BY DEF Clients!WakeSpuriously
<1>4. /\ sem_count \in [Clients!Sems -> Nat] /\ cv \in [Clients!Sems -> SUBSET Clients!Thread]
      /\ \A r \in Clients!BinarySems : sem_count[r] \in {0, 1}
      /\ sem_buffer \in Int /\ client \in ClientNames
      /\ sem_at \in [Clients!Thread -> Nat] /\ sem_rounds \in [Clients!Thread -> Nat]
      /\ \A u \in Clients!Thread : /\ sem_at[u] \in 1..Len(Clients!Program[u])
                                   /\ sem_rounds[u] \in 0..Clients!RoundsOf(client)
  BY DEF ClientTypes, Clients!TypeOK
<1>5. /\ cv' \in [Clients!Sems -> SUBSET Clients!Thread]
      /\ \A r \in Clients!Sems : cv'[r] \subseteq cv[r]
  BY <1>2, <1>4
<1>6. ASSUME NEW r \in Clients!Sems, NEW u \in cv'[r]
      PROVE  /\ sem_rounds'[u] < Clients!RoundsOf(client)
             /\ Clients!Program[u][sem_at'[u]] = <<"wait", r>>
  <2>1. u \in cv[r]
    BY <1>5
  <2> QED BY <2>1 DEF ClientTypes, Clients!Runs, Clients!Call
<1>7. ASSUME NEW r \in Clients!Sems, cv'[r] # {}
      PROVE  sem_count'[r] <= Cardinality(Coming(r)')
  <2>1. sem_count[r] <= Cardinality(Coming(r))
    BY <1>5, <1>7, Missed DEF CoveredBy
  <2>2. ASSUME NEW u \in Clients!Thread, u \in Coming(r)
        PROVE  /\ Clients!Runs(u)' /\ ~Clients!Asleep(u)'
               /\ Clients!Call(u)' = <<"wait", r>>
    <3>1. Clients!Runs(u)' = Clients!Runs(u) /\ Clients!Call(u)' = Clients!Call(u)
      BY Others
    <3> QED BY <1>5, <2>2, <3>1 DEF Coming, Clients!Asleep
  <2>3. Cardinality(Coming(r)) <= Cardinality(Coming(r)')
    BY <1>4, <2>2, ComingGrows
  <2> QED BY <1>3, <1>4, <2>1, <2>3, ComingIsFinite
<1> QED BY <1>3, <1>4, <1>5, <1>6, <1>7, ClientsKept

LEMMA ClientsStep ==
    ASSUME ClientTypes, Clients!NobodyMissed, Clients!Next \/ UNCHANGED clients
    PROVE  ClientTypes' /\ Clients!NobodyMissed'
<1>1. CASE \E t \in Clients!Thread : Clients!Step(t)
  BY <1>1, WaitStep, SleepStep, SignalStep, QuietStep DEF Clients!Step
<1>2. CASE Clients!WakeSpuriously /\ UNCHANGED <<client, sem_at, sem_rounds, sem_buffer, printed>>
  BY <1>2, WakeStep
<1>3. CASE UNCHANGED clients
  <2>1. UNCHANGED <<client, sem_count, cv, sem_at, sem_rounds, sem_buffer>>
    BY <1>3 DEF clients
  <2>2. ClientTypes'
    BY <2>1, SameProgram
       DEF ClientTypes, Clients!TypeOK, Clients!Runs, Clients!Call
  <2>3. Clients!NobodyMissed'
    BY <2>1, SameProgram
       DEF Clients!NobodyMissed, Clients!Runs, Clients!Call, Clients!Asleep
  <2> QED BY <2>2, <2>3
<1> QED BY <1>1, <1>2, <1>3 DEF Clients!Next, Clients!vars, clients

\* What a thread's call does.
LEMMA StepOf ==
    ASSUME NEW t \in Clients!Thread, Clients!Step(t)
    PROVE  /\ UNCHANGED client /\ Clients!Runs(t)
           /\ \A x : Clients!Call(t) = <<"wait", x>> =>
                /\ UNCHANGED <<sem_buffer, printed>>
                /\ \/ /\ sem_count[x] > 0 /\ Clients!NextCall(t)
                      /\ sem_count' = [sem_count EXCEPT ![x] = Clients!Taken(x)]
                   \/ UNCHANGED <<sem_count, sem_at, sem_rounds>>
           /\ \A x : Clients!Call(t) = <<"signal", x>> =>
                /\ UNCHANGED <<sem_buffer, printed>> /\ Clients!NextCall(t)
                /\ sem_count' = [sem_count EXCEPT ![x] = Clients!Given(x)]
           /\ Clients!Call(t) = <<"push", "buffer">> =>
                /\ UNCHANGED <<sem_count, printed>> /\ Clients!NextCall(t)
                /\ sem_buffer' = sem_buffer + 1
           /\ Clients!Call(t) = <<"pop", "buffer">> =>
                /\ UNCHANGED <<sem_count, printed>> /\ Clients!NextCall(t)
                /\ sem_buffer' = sem_buffer - 1
           /\ \A x : Clients!Call(t) = <<"print", x>> =>
                /\ UNCHANGED <<sem_count, sem_buffer>> /\ Clients!NextCall(t)
                /\ printed' = Append(printed, x)
BY DEF Clients!Step, Clients!Passes, Clients!Sleeps, Clients!Signals, Clients!Pushes, Clients!Pops,
       Clients!Prints, Clients!Wait, Clients!WaitSleeps, Clients!Signal, Clients!Available

\* Of cs_bin_sema and of the pool: their semaphore, and the threads that hold it.
Guard == IF client = "cs" THEN "sem" ELSE "pool"
Inside == {t \in Clients!Thread : sem_at[t] = 2}

GuardCounts == client \in {"cs", "pool"} =>
                 sem_count[Guard] + Cardinality(Inside) = Clients!InitialCount(Guard)

LEMMA GuardStep ==
    ASSUME ClientTypes, GuardCounts, client \in {"cs", "pool"}, NEW t \in Clients!Thread,
           Clients!Step(t)
    PROVE  /\ GuardCounts' /\ UNCHANGED <<sem_buffer, printed>>
           /\ \A s \in Clients!Sems \ {Guard} : sem_count'[s] = sem_count[s]
<1>1. /\ UNCHANGED client /\ Guard' = Guard /\ Guard \in {"sem", "pool"} /\ Guard \in Clients!Sems
      /\ client \in ClientNames
  BY StepOf DEF Guard, Clients!Sems, Clients!BinarySems, ClientNames
<1>2. Clients!Program[t] = <<<<"wait", Guard>>, <<"signal", Guard>>>>
  BY Programs, ThreadsOf DEF Guard, Clients!accessCriticalSection, Clients!usePermit
<1>3. Len(Clients!Program[t]) = 2 /\ Clients!Program[t][1] = <<"wait", Guard>>
      /\ Clients!Program[t][2] = <<"signal", Guard>>
  BY <1>2
<1>4. /\ sem_at[t] \in 1..2 /\ sem_count \in [Clients!Sems -> Nat]
      /\ Guard = "sem" => sem_count["sem"] \in {0, 1}
      /\ Guard = "sem" \/ Guard = "pool"
      /\ Clients!InitialCount(Guard) \in Nat /\ Clients!InitialCount("sem") = 1
  BY <1>1, <1>3, SemaphoresAssumption
     DEF ClientTypes, Clients!TypeOK, Clients!BinarySems, Clients!InitialCount
<1>5. IsFiniteSet(Inside) /\ Cardinality(Inside) \in Nat
  <2>1. Inside \subseteq Clients!Thread
    BY DEF Inside
  <2> QED BY <1>1, <2>1, ProgramsAreFinite, FS_Subset, FS_CardinalityType
<1>6. sem_count[Guard] + Cardinality(Inside) = Clients!InitialCount(Guard)
  BY DEF GuardCounts
<1>7. CASE sem_at[t] = 1
  <2>1. Clients!Call(t) = <<"wait", Guard>>
    BY <1>3, <1>7 DEF Clients!Call
  <2>2. UNCHANGED <<sem_buffer, printed>>
    BY <2>1, StepOf
  <2>3. CASE /\ sem_count[Guard] > 0 /\ Clients!NextCall(t)
             /\ sem_count' = [sem_count EXCEPT ![Guard] = Clients!Taken(Guard)]
    <3>1. Clients!Taken(Guard) = sem_count[Guard] - 1
      BY <1>4, <2>3 DEF Clients!Taken, Clients!BinarySems
    <3>2. sem_at'[t] = 2 /\ \A u \in Clients!Thread \ {t} : sem_at'[u] = sem_at[u]
      BY SMTT(20), <1>1, <1>3, <1>7, <2>3, Moves, StepOf
    <3>3. Inside' = Inside \cup {t} /\ t \notin Inside
      BY <1>1, <1>7, <3>2, SameProgram DEF Inside
    <3>4. Cardinality(Inside') = Cardinality(Inside) + 1
      BY <1>5, <3>3, FS_AddElement
    <3>5. sem_count'[Guard] = sem_count[Guard] - 1
      BY <1>1, <1>4, <2>3, <3>1
    <3>6. \A s \in Clients!Sems \ {Guard} : sem_count'[s] = sem_count[s]
      BY <1>4, <2>3
    <3>7. sem_count'[Guard'] + Cardinality(Inside') = Clients!InitialCount(Guard')
      BY <1>1, <1>4, <1>5, <1>6, <3>4, <3>5
    <3> QED BY <2>2, <3>6, <3>7 DEF GuardCounts
  <2>4. CASE UNCHANGED <<sem_count, sem_at, sem_rounds>>
    <3>1. Inside' = Inside
      BY <1>1, <2>4, SameProgram DEF Inside
    <3> QED BY <1>1, <1>6, <2>2, <2>4, <3>1 DEF GuardCounts
  <2> QED BY <2>1, <2>3, <2>4, StepOf
<1>8. CASE sem_at[t] = 2
  <2>1. Clients!Call(t) = <<"signal", Guard>>
    BY <1>3, <1>8 DEF Clients!Call
  <2>2. /\ UNCHANGED <<sem_buffer, printed>> /\ Clients!NextCall(t)
        /\ sem_count' = [sem_count EXCEPT ![Guard] = Clients!Given(Guard)]
    BY <2>1, StepOf
  <2>3. sem_at'[t] = 1 /\ \A u \in Clients!Thread \ {t} : sem_at'[u] = sem_at[u]
    <3>1. \/ sem_at[t] < Len(Clients!Program[t])
          \/ sem_at'[t] = 1
      BY <1>1, <2>2, Moves, StepOf
    <3>2. \A u \in Clients!Thread \ {t} : sem_at'[u] = sem_at[u]
      BY <1>1, <2>2, Moves, StepOf
    <3> QED BY <1>3, <1>8, <3>1, <3>2
  <2>4. Inside' = Inside \ {t} /\ t \in Inside
    BY <1>1, <1>8, <2>3, SameProgram DEF Inside
  <2>5. Cardinality(Inside') = Cardinality(Inside) - 1 /\ Cardinality(Inside') \in Nat
    <3>1. IsFiniteSet(Inside')
      BY <1>5, <2>4, FS_RemoveElement
    <3> QED BY <1>5, <2>4, <3>1, FS_RemoveElement, FS_CardinalityType
  <2>6. Clients!Given(Guard) = sem_count[Guard] + 1
    <3>1. CASE Guard = "pool"
      BY <3>1 DEF Clients!Given, Clients!BinarySems
    <3>2. CASE Guard = "sem"
      <4>1. sem_count["sem"] = 0
        BY <1>4, <1>5, <1>6, <2>5, <3>2
      <4> QED BY <3>2, <4>1 DEF Clients!Given, Clients!BinarySems
    <3> QED BY <1>4, <3>1, <3>2
  <2>7. sem_count'[Guard] = sem_count[Guard] + 1
    BY <1>1, <1>4, <2>2, <2>6
  <2>8. \A s \in Clients!Sems \ {Guard} : sem_count'[s] = sem_count[s]
    BY <1>4, <2>2
  <2>9. sem_count'[Guard'] + Cardinality(Inside') = Clients!InitialCount(Guard')
    BY <1>1, <1>4, <1>5, <1>6, <2>5, <2>7
  <2> QED BY <2>2, <2>8, <2>9 DEF GuardCounts
<1> QED BY <1>4, <1>7, <1>8

\* Of pc_binsema: who holds the mutex, and that for every item announced or
\* waited for there is one in the queue.
At(t, places) == IF sem_at[t] \in places THEN 1 ELSE 0

ItemCounts ==
    client = "pc" =>
        /\ sem_count["mutex"] + At("producer", {2, 3}) + At("consumer", {3, 4}) = 1
        /\ sem_count["items"] + At("consumer", {2, 3}) + At("producer", {3, 4}) <= sem_buffer

LEMMA ItemStep ==
    ASSUME ClientTypes, ItemCounts, client = "pc", NEW t \in Clients!Thread, Clients!Step(t)
    PROVE  /\ ItemCounts' /\ UNCHANGED printed
           /\ \A s \in Clients!Sems \ {"mutex", "items"} : sem_count'[s] = sem_count[s]
<1>1. UNCHANGED client /\ client \in ClientNames /\ Clients!Runs(t)
      /\ Clients!Thread = {"producer", "consumer"}
  BY StepOf, ThreadsOf DEF ClientNames
<1>2. /\ Clients!Program["producer"] = Clients!producer
      /\ Clients!Program["consumer"] = Clients!consumer
  BY Programs
<1>3. /\ Clients!producer[1] = <<"wait", "mutex">> /\ Clients!producer[2] = <<"push", "buffer">>
      /\ Clients!producer[3] = <<"signal", "mutex">> /\ Clients!producer[4] = <<"signal", "items">>
      /\ Len(Clients!producer) = 4
  BY DEF Clients!producer
<1>4. /\ Clients!consumer[1] = <<"wait", "items">> /\ Clients!consumer[2] = <<"wait", "mutex">>
      /\ Clients!consumer[3] = <<"pop", "buffer">> /\ Clients!consumer[4] = <<"signal", "mutex">>
      /\ Len(Clients!consumer) = 4
  BY DEF Clients!consumer
<1>5. "mutex" \in Clients!BinarySems /\ "items" \in Clients!BinarySems
      /\ Clients!BinarySems \subseteq Clients!Sems
  BY DEF Clients!BinarySems, Clients!Sems
<1>6. /\ sem_at["producer"] \in 1..4 /\ sem_at["consumer"] \in 1..4
      /\ sem_count \in [Clients!Sems -> Nat] /\ sem_buffer \in Int
      /\ sem_count["mutex"] \in {0, 1} /\ sem_count["items"] \in {0, 1}
  <2>1. "producer" \in Clients!Thread /\ "consumer" \in Clients!Thread
    BY <1>1
  <2>2. \A u \in Clients!Thread : sem_at[u] \in 1..Len(Clients!Program[u])
    BY DEF ClientTypes, Clients!TypeOK
  <2>3. /\ sem_count \in [Clients!Sems -> Nat] /\ sem_buffer \in Int
        /\ \A s \in Clients!BinarySems : sem_count[s] \in {0, 1}
    BY DEF ClientTypes, Clients!TypeOK
  <2>4. sem_at["producer"] \in 1..4 /\ sem_at["consumer"] \in 1..4
    BY <1>2, <1>3, <1>4, <2>1, <2>2
  <2> QED BY <1>5, <2>3, <2>4
<1>7. /\ sem_count["mutex"] + At("producer", {2, 3}) + At("consumer", {3, 4}) = 1
      /\ sem_count["items"] + At("consumer", {2, 3}) + At("producer", {3, 4}) <= sem_buffer
  BY DEF ItemCounts
<1>8. /\ Clients!Taken("mutex") = 0 /\ Clients!Taken("items") = 0
      /\ Clients!Given("mutex") = 1 /\ Clients!Given("items") = 1
  BY <1>5 DEF Clients!Taken, Clients!Given
<1>9. Clients!NextCall(t) =>
         /\ sem_at'[t] = IF sem_at[t] < 4 THEN sem_at[t] + 1 ELSE 1
         /\ \A u \in Clients!Thread \ {t} : sem_at'[u] = sem_at[u]
  <2> SUFFICES ASSUME Clients!NextCall(t)
               PROVE  /\ sem_at'[t] = IF sem_at[t] < 4 THEN sem_at[t] + 1 ELSE 1
                      /\ \A u \in Clients!Thread \ {t} : sem_at'[u] = sem_at[u]
    OBVIOUS
  <2>1. Len(Clients!Program[t]) = 4
    <3>1. CASE t = "producer"
      BY <1>2, <1>3, <3>1
    <3>2. CASE t = "consumer"
      BY <1>2, <1>4, <3>2
    <3> QED BY <1>1, <3>1, <3>2
  <2>2. /\ \A u \in Clients!Thread \ {t} : sem_at'[u] = sem_at[u]
        /\ \/ sem_at[t] < Len(Clients!Program[t]) /\ sem_at'[t] = sem_at[t] + 1
           \/ sem_at[t] = Len(Clients!Program[t]) /\ sem_at'[t] = 1
    BY <1>1, Moves
  <2> QED BY <2>1, <2>2
<1> DEFINE p == sem_at["producer"]
           c == sem_at["consumer"]
           Kept == /\ UNCHANGED printed
                   /\ \A s \in Clients!Sems \ {"mutex", "items"} : sem_count'[s] = sem_count[s]
<1>10. ASSUME Kept,
              sem_count'["mutex"] + At("producer", {2, 3})' + At("consumer", {3, 4})' = 1,
              sem_count'["items"] + At("consumer", {2, 3})' + At("producer", {3, 4})' <= sem_buffer'
       PROVE  ItemCounts' /\ Kept
  BY <1>10 DEF ItemCounts
<1>11. CASE t = "producer"
  <2>1. Clients!Call(t) = Clients!producer[p]
    BY <1>2, <1>11 DEF Clients!Call
  <2>2. Clients!NextCall(t) => p' = (IF p < 4 THEN p + 1 ELSE 1) /\ c' = c
    BY <1>1, <1>9, <1>11
  <2>3. CASE p = 1
    <3>1. /\ UNCHANGED <<sem_buffer, printed>>
          /\ \/ /\ sem_count["mutex"] > 0 /\ Clients!NextCall(t)
                /\ sem_count' = [sem_count EXCEPT !["mutex"] = Clients!Taken("mutex")]
             \/ UNCHANGED <<sem_count, sem_at, sem_rounds>>
      BY <1>3, <2>1, <2>3, StepOf
    <3>2. CASE UNCHANGED <<sem_count, sem_at, sem_rounds>>
      BY <1>7, <1>10, <3>1, <3>2 DEF At
    <3>3. CASE /\ sem_count["mutex"] > 0 /\ p' = 2 /\ c' = c
               /\ sem_count' = [sem_count EXCEPT !["mutex"] = 0]
      <4>1. sem_count'["mutex"] = 0 /\ sem_count'["items"] = sem_count["items"] /\ Kept
        BY <1>5, <1>6, <3>1, <3>3
      <4> QED BY <1>6, <1>7, <1>10, <2>3, <3>1, <3>3, <4>1 DEF At
    <3> QED BY <1>8, <2>2, <2>3, <3>1, <3>2, <3>3
  <2>4. CASE p = 2
    <3>0. UNCHANGED <<sem_count, printed>> /\ sem_buffer' = sem_buffer + 1 /\ Clients!NextCall(t)
      BY <1>3, <2>1, <2>4, StepOf
    <3>1. UNCHANGED <<sem_count, printed>> /\ sem_buffer' = sem_buffer + 1 /\ p' = 3 /\ c' = c
      BY <2>2, <2>4, <3>0
    <3> QED BY <1>6, <1>7, <1>10, <2>4, <3>1 DEF At
  <2>5. CASE p = 3
    <3>0. /\ UNCHANGED <<sem_buffer, printed>> /\ Clients!NextCall(t)
          /\ sem_count' = [sem_count EXCEPT !["mutex"] = Clients!Given("mutex")]
      BY <1>3, <2>1, <2>5, StepOf
    <3>1. p' = 4 /\ c' = c
      BY <2>2, <2>5, <3>0
    <3>2. sem_count'["mutex"] = 1 /\ sem_count'["items"] = sem_count["items"] /\ Kept
      BY <1>5, <1>6, <1>8, <3>0
    <3> QED BY <1>6, <1>7, <1>10, <2>5, <3>0, <3>1, <3>2 DEF At
  <2>6. CASE p = 4
    <3>0. /\ UNCHANGED <<sem_buffer, printed>> /\ Clients!NextCall(t)
          /\ sem_count' = [sem_count EXCEPT !["items"] = Clients!Given("items")]
      BY <1>3, <2>1, <2>6, StepOf
    <3>1. p' = 1 /\ c' = c
      BY <2>2, <2>6, <3>0
    <3>2. sem_count'["items"] = 1 /\ sem_count'["mutex"] = sem_count["mutex"] /\ Kept
      BY <1>5, <1>6, <1>8, <3>0
    <3> QED BY <1>6, <1>7, <1>10, <2>6, <3>0, <3>1, <3>2 DEF At
  <2> QED BY <1>6, <2>3, <2>4, <2>5, <2>6
<1>12. CASE t = "consumer"
  <2>1. Clients!Call(t) = Clients!consumer[c]
    BY <1>2, <1>12 DEF Clients!Call
  <2>2. Clients!NextCall(t) => c' = (IF c < 4 THEN c + 1 ELSE 1) /\ p' = p
    BY <1>1, <1>9, <1>12
  <2>3. CASE c = 1
    <3>1. /\ UNCHANGED <<sem_buffer, printed>>
          /\ \/ /\ sem_count["items"] > 0 /\ Clients!NextCall(t)
                /\ sem_count' = [sem_count EXCEPT !["items"] = Clients!Taken("items")]
             \/ UNCHANGED <<sem_count, sem_at, sem_rounds>>
      BY <1>4, <2>1, <2>3, StepOf
    <3>2. CASE UNCHANGED <<sem_count, sem_at, sem_rounds>>
      BY <1>7, <1>10, <3>1, <3>2 DEF At
    <3>3. CASE /\ sem_count["items"] > 0 /\ c' = 2 /\ p' = p
               /\ sem_count' = [sem_count EXCEPT !["items"] = 0]
      <4>1. sem_count'["items"] = 0 /\ sem_count'["mutex"] = sem_count["mutex"] /\ Kept
        BY <1>5, <1>6, <3>1, <3>3
      <4> QED BY <1>6, <1>7, <1>10, <2>3, <3>1, <3>3, <4>1 DEF At
    <3> QED BY <1>8, <2>2, <2>3, <3>1, <3>2, <3>3
  <2>4. CASE c = 2
    <3>1. /\ UNCHANGED <<sem_buffer, printed>>
          /\ \/ /\ sem_count["mutex"] > 0 /\ Clients!NextCall(t)
                /\ sem_count' = [sem_count EXCEPT !["mutex"] = Clients!Taken("mutex")]
             \/ UNCHANGED <<sem_count, sem_at, sem_rounds>>
      BY <1>4, <2>1, <2>4, StepOf
    <3>2. CASE UNCHANGED <<sem_count, sem_at, sem_rounds>>
      BY <1>7, <1>10, <3>1, <3>2 DEF At
    <3>3. CASE /\ sem_count["mutex"] > 0 /\ c' = 3 /\ p' = p
               /\ sem_count' = [sem_count EXCEPT !["mutex"] = 0]
      <4>1. sem_count'["mutex"] = 0 /\ sem_count'["items"] = sem_count["items"] /\ Kept
        BY <1>5, <1>6, <3>1, <3>3
      <4> QED BY <1>6, <1>7, <1>10, <2>4, <3>1, <3>3, <4>1 DEF At
    <3> QED BY <1>8, <2>2, <2>4, <3>1, <3>2, <3>3
  <2>5. CASE c = 3
    <3>0. UNCHANGED <<sem_count, printed>> /\ sem_buffer' = sem_buffer - 1 /\ Clients!NextCall(t)
      BY <1>4, <2>1, <2>5, StepOf
    <3>1. UNCHANGED <<sem_count, printed>> /\ sem_buffer' = sem_buffer - 1 /\ c' = 4 /\ p' = p
      BY <2>2, <2>5, <3>0
    <3> QED BY <1>6, <1>7, <1>10, <2>5, <3>1 DEF At
  <2>6. CASE c = 4
    <3>0. /\ UNCHANGED <<sem_buffer, printed>> /\ Clients!NextCall(t)
          /\ sem_count' = [sem_count EXCEPT !["mutex"] = Clients!Given("mutex")]
      BY <1>4, <2>1, <2>6, StepOf
    <3>1. c' = 1 /\ p' = p
      BY <2>2, <2>6, <3>0
    <3>2. sem_count'["mutex"] = 1 /\ sem_count'["items"] = sem_count["items"] /\ Kept
      BY <1>5, <1>6, <1>8, <3>0
    <3> QED BY <1>6, <1>7, <1>10, <2>6, <3>0, <3>1, <3>2 DEF At
  <2> QED BY <1>6, <2>3, <2>4, <2>5, <2>6
<1> QED BY <1>1, <1>11, <1>12

LEMMA AppendToOne == \A a, b : Append(<<a>>, b) = <<a, b>>
<1> SUFFICES ASSUME NEW a, NEW b PROVE Append(<<a>>, b) = <<a, b>>
  OBVIOUS
<1> DEFINE s == Append(<<a>>, b)
           u == <<a, b>>
<1>1. <<a>> \in Seq({a, b}) /\ u \in Seq({a, b}) /\ Len(<<a>>) = 1 /\ Len(u) = 2 /\ u[1] = a /\ u[2] = b
  OBVIOUS
<1>2. s \in Seq({a, b}) /\ Len(s) = 2 /\ s[1] = a /\ s[2] = b
  BY <1>1
<1> HIDE DEF s, u
<1>3. \A k \in 1..Len(s) : s[k] = u[k]
  BY <1>1, <1>2
<1>4. s = u
  BY <1>1, <1>2, <1>3, SeqEqual
<1> QED BY <1>4 DEF s, u

LEMMA AppendToTwo == \A a, b, c : Append(<<a, b>>, c) = <<a, b, c>>
<1> SUFFICES ASSUME NEW a, NEW b, NEW c PROVE Append(<<a, b>>, c) = <<a, b, c>>
  OBVIOUS
<1> DEFINE s == Append(<<a, b>>, c)
           u == <<a, b, c>>
           T == {a, b, c}
<1>1. /\ <<a, b>> \in Seq(T) /\ u \in Seq(T) /\ Len(<<a, b>>) = 2
      /\ Len(u) = 3 /\ u[1] = a /\ u[2] = b /\ u[3] = c
  OBVIOUS
<1>2. s \in Seq(T) /\ Len(s) = 3 /\ s[1] = a /\ s[2] = b /\ s[3] = c
  BY <1>1
<1> HIDE DEF s, u
<1>3. \A k \in 1..Len(s) : s[k] = u[k]
  BY <1>1, <1>2
<1>4. s = u
  BY <1>1, <1>2, <1>3, SeqEqual
<1> QED BY <1>4 DEF s, u

\* Of ioe_bin_sema: who has printed, and that nobody passes before its predecessor is done.
HasPrinted(t) == sem_at[t] = 3 \/ sem_rounds[t] = 1

Follows(t, s, u) ==
    /\ sem_count[s] = 1 => sem_rounds[t] = 1 /\ sem_at[u] = 1 /\ sem_rounds[u] = 0
    /\ sem_at[u] > 1 \/ sem_rounds[u] = 1 => sem_rounds[t] = 1

PrintCounts ==
    client = "ioe" =>
        /\ \A t \in Clients!Thread : sem_rounds[t] = 1 => sem_at[t] = 1
        /\ Follows("first", "sem2", "second") /\ Follows("second", "sem3", "third")
        /\ printed = IF ~HasPrinted("first") THEN <<>>
                     ELSE IF ~HasPrinted("second") THEN <<"First">>
                     ELSE IF ~HasPrinted("third") THEN <<"First", "Second">>
                     ELSE <<"First", "Second", "Third">>

LEMMA PrintStep ==
    ASSUME ClientTypes, PrintCounts, client = "ioe", NEW t \in Clients!Thread, Clients!Step(t)
    PROVE  /\ PrintCounts' /\ UNCHANGED sem_buffer
           /\ \A s \in Clients!Sems \ {"sem1", "sem2", "sem3"} : sem_count'[s] = sem_count[s]
<1>1. UNCHANGED client /\ client \in ClientNames /\ Clients!Runs(t)
      /\ Clients!Thread = {"first", "second", "third"} /\ Clients!Thread' = Clients!Thread
      /\ Clients!RoundsOf(client) = 1
  BY StepOf, ThreadsOf, SameProgram DEF ClientNames, Clients!RoundsOf
<1>2. /\ Clients!Program["first"] = Clients!first
      /\ Clients!Program["second"] = Clients!second
      /\ Clients!Program["third"] = Clients!third
  BY Programs
<1>3. /\ Clients!first[1] = <<"wait", "sem1">> /\ Clients!first[2] = <<"print", "First">>
      /\ Clients!first[3] = <<"signal", "sem2">> /\ Len(Clients!first) = 3
  BY DEF Clients!first
<1>4. /\ Clients!second[1] = <<"wait", "sem2">> /\ Clients!second[2] = <<"print", "Second">>
      /\ Clients!second[3] = <<"signal", "sem3">> /\ Len(Clients!second) = 3
  BY DEF Clients!second
<1>5. /\ Clients!third[1] = <<"wait", "sem3">> /\ Clients!third[2] = <<"print", "Third">>
      /\ Len(Clients!third) = 2
  BY DEF Clients!third
<1> DEFINE none == <<>>
           one == <<"First">>
           two == <<"First", "Second">>
           three == <<"First", "Second", "Third">>
<1>0. /\ Append(none, "First") = one /\ Append(one, "Second") = two
      /\ Append(two, "Third") = three
  BY AppendToOne, AppendToTwo
<1>6. /\ "sem1" \in Clients!BinarySems /\ "sem2" \in Clients!BinarySems
      /\ "sem3" \in Clients!BinarySems /\ Clients!BinarySems \subseteq Clients!Sems
  BY DEF Clients!BinarySems, Clients!Sems
<1> DEFINE f == sem_at["first"]
           g == sem_at["second"]
           h == sem_at["third"]
           rf == sem_rounds["first"]
           rg == sem_rounds["second"]
           rh == sem_rounds["third"]
           c2 == sem_count["sem2"]
           c3 == sem_count["sem3"]
           Kept == \A s \in Clients!Sems \ {"sem1", "sem2", "sem3"} : sem_count'[s] = sem_count[s]
<1>7. /\ f \in 1..3 /\ g \in 1..3 /\ h \in 1..2 /\ rf \in 0..1 /\ rg \in 0..1 /\ rh \in 0..1
      /\ sem_count \in [Clients!Sems -> Nat] /\ c2 \in {0, 1} /\ c3 \in {0, 1}
  <2>1. \A u \in Clients!Thread : sem_at[u] \in 1..Len(Clients!Program[u]) /\ sem_rounds[u] \in 0..1
    BY <1>1 DEF ClientTypes, Clients!TypeOK
  <2>2. sem_count \in [Clients!Sems -> Nat] /\ \A s \in Clients!BinarySems : sem_count[s] \in {0, 1}
    BY DEF ClientTypes, Clients!TypeOK
  <2>3. /\ "first" \in Clients!Thread /\ "second" \in Clients!Thread /\ "third" \in Clients!Thread
    BY <1>1
  <2>4. f \in 1..3 /\ g \in 1..3 /\ h \in 1..2
    BY <1>2, <1>3, <1>4, <1>5, <2>1, <2>3
  <2> QED BY <1>6, <2>1, <2>2, <2>3, <2>4
<1>8. /\ rf = 1 => f = 1
      /\ rg = 1 => g = 1
      /\ rh = 1 => h = 1
      /\ c2 = 1 => rf = 1 /\ g = 1 /\ rg = 0
      /\ g > 1 \/ rg = 1 => rf = 1
      /\ c3 = 1 => rg = 1 /\ h = 1 /\ rh = 0
      /\ h > 1 \/ rh = 1 => rg = 1
  <2>1. /\ "first" \in Clients!Thread /\ "second" \in Clients!Thread /\ "third" \in Clients!Thread
    BY <1>1
  <2> QED BY <2>1 DEF PrintCounts, Follows
<1>9. printed = IF ~(f = 3 \/ rf = 1) THEN none
                ELSE IF ~(g = 3 \/ rg = 1) THEN one
                ELSE IF ~(h = 3 \/ rh = 1) THEN two
                ELSE three
  BY DEF PrintCounts, HasPrinted
<1>10. ASSUME /\ rf' = 1 => f' = 1
              /\ rg' = 1 => g' = 1
              /\ rh' = 1 => h' = 1
              /\ c2' = 1 => rf' = 1 /\ g' = 1 /\ rg' = 0
              /\ g' > 1 \/ rg' = 1 => rf' = 1
              /\ c3' = 1 => rg' = 1 /\ h' = 1 /\ rh' = 0
              /\ h' > 1 \/ rh' = 1 => rg' = 1,
              printed' = IF ~(f' = 3 \/ rf' = 1) THEN none
                         ELSE IF ~(g' = 3 \/ rg' = 1) THEN one
                         ELSE IF ~(h' = 3 \/ rh' = 1) THEN two
                         ELSE three
       PROVE  PrintCounts'
  BY <1>1, <1>10 DEF PrintCounts, Follows, HasPrinted
<1> HIDE DEF none, one, two, three
<1>11. Clients!NextCall(t) =>
         /\ sem_rounds[t] = 0
         /\ \A u \in Clients!Thread \ {t} :
               sem_at'[u] = sem_at[u] /\ sem_rounds'[u] = sem_rounds[u]
         /\ \/ /\ sem_at[t] < Len(Clients!Program[t]) /\ sem_at'[t] = sem_at[t] + 1
               /\ sem_rounds'[t] = sem_rounds[t]
            \/ /\ sem_at[t] = Len(Clients!Program[t]) /\ sem_at'[t] = 1
               /\ sem_rounds'[t] = sem_rounds[t] + 1
  <2>1. sem_rounds[t] = 0
    BY <1>1, <1>7 DEF Clients!Runs
  <2> QED BY <1>1, <2>1, Moves
<1>12. /\ Clients!Taken("sem1") = 0 /\ Clients!Taken("sem2") = 0 /\ Clients!Taken("sem3") = 0
       /\ Clients!Given("sem1") = 1 /\ Clients!Given("sem2") = 1 /\ Clients!Given("sem3") = 1
  BY <1>6 DEF Clients!Taken, Clients!Given
<1>13. CASE UNCHANGED <<sem_count, sem_at, sem_rounds, sem_buffer, printed>>
  BY <1>8, <1>9, <1>10, <1>13
<1>14. CASE t = "first"
  <2>1. Clients!Call(t) = Clients!first[f] /\ "second" \in Clients!Thread \ {t}
        /\ "third" \in Clients!Thread \ {t}
    BY <1>1, <1>2, <1>14 DEF Clients!Call
  <2>2. Clients!NextCall(t) =>
          /\ rf = 0 /\ UNCHANGED <<g, h, rg, rh>>
          /\ \/ f < 3 /\ f' = f + 1 /\ rf' = 0
             \/ f = 3 /\ f' = 1 /\ rf' = 1
    <3>1. Len(Clients!Program[t]) = 3
      BY <1>2, <1>3, <1>14
    <3> QED BY <1>11, <1>14, <2>1, <3>1
  <2>3. CASE f = 1
    <3>1. /\ UNCHANGED <<sem_buffer, printed>>
          /\ \/ /\ sem_count["sem1"] > 0 /\ Clients!NextCall(t)
                /\ sem_count' = [sem_count EXCEPT !["sem1"] = Clients!Taken("sem1")]
             \/ UNCHANGED <<sem_count, sem_at, sem_rounds>>
      BY <1>3, <2>1, <2>3, StepOf
    <3>2. CASE /\ sem_count["sem1"] > 0 /\ Clients!NextCall(t)
               /\ sem_count' = [sem_count EXCEPT !["sem1"] = Clients!Taken("sem1")]
      <4>1. Kept /\ UNCHANGED <<c2, c3>>
        BY <1>6, <1>7, <3>2
      <4>2. rf = 0 /\ UNCHANGED <<g, h, rg, rh>> /\ f' = 2 /\ rf' = 0
        BY <2>2, <2>3, <3>2
      <4> QED BY <1>7, <1>8, <1>9, <1>10, <2>3, <3>1, <4>1, <4>2
    <3> QED BY <1>13, <3>1, <3>2
  <2>4. CASE f = 2
    <3>1. /\ UNCHANGED <<sem_count, sem_buffer>> /\ Clients!NextCall(t)
          /\ printed' = Append(printed, "First")
      BY <1>3, <2>1, <2>4, StepOf
    <3>2. rf = 0 /\ UNCHANGED <<g, h, rg, rh>> /\ f' = 3 /\ rf' = 0
      BY <2>2, <2>4, <3>1
    <3>3. g = 1 /\ rg = 0 /\ printed = none
      BY <1>7, <1>8, <1>9, <2>4, <3>2
    <3>4. printed' = one
      BY <1>0, <3>1, <3>3
    <3> QED BY <1>7, <1>8, <1>10, <2>4, <3>1, <3>2, <3>3, <3>4
  <2>5. CASE f = 3
    <3>1. /\ UNCHANGED <<sem_buffer, printed>> /\ Clients!NextCall(t)
          /\ sem_count' = [sem_count EXCEPT !["sem2"] = Clients!Given("sem2")]
      BY <1>3, <2>1, <2>5, StepOf
    <3>2. Kept /\ c2' = 1 /\ UNCHANGED c3
      BY <1>6, <1>7, <1>12, <3>1
    <3>3. rf = 0 /\ UNCHANGED <<g, h, rg, rh>> /\ f' = 1 /\ rf' = 1
      BY <2>2, <2>5, <3>1
    <3> QED BY <1>7, <1>8, <1>9, <1>10, <2>5, <3>1, <3>2, <3>3
  <2> QED BY <1>7, <2>3, <2>4, <2>5
<1>15. CASE t = "second"
  <2>1. Clients!Call(t) = Clients!second[g] /\ "first" \in Clients!Thread \ {t}
        /\ "third" \in Clients!Thread \ {t}
    BY <1>1, <1>2, <1>15 DEF Clients!Call
  <2>2. Clients!NextCall(t) =>
          /\ rg = 0 /\ UNCHANGED <<f, h, rf, rh>>
          /\ \/ g < 3 /\ g' = g + 1 /\ rg' = 0
             \/ g = 3 /\ g' = 1 /\ rg' = 1
    <3>1. Len(Clients!Program[t]) = 3
      BY <1>2, <1>4, <1>15
    <3> QED BY <1>11, <1>15, <2>1, <3>1
  <2>3. CASE g = 1
    <3>1. /\ UNCHANGED <<sem_buffer, printed>>
          /\ \/ /\ sem_count["sem2"] > 0 /\ Clients!NextCall(t)
                /\ sem_count' = [sem_count EXCEPT !["sem2"] = Clients!Taken("sem2")]
             \/ UNCHANGED <<sem_count, sem_at, sem_rounds>>
      BY <1>4, <2>1, <2>3, StepOf
    <3>2. CASE /\ sem_count["sem2"] > 0 /\ Clients!NextCall(t)
               /\ sem_count' = [sem_count EXCEPT !["sem2"] = Clients!Taken("sem2")]
      <4>1. Kept /\ c2' = 0 /\ UNCHANGED c3 /\ c2 = 1
        BY <1>6, <1>7, <1>12, <3>2
      <4>2. rg = 0 /\ UNCHANGED <<f, h, rf, rh>> /\ g' = 2 /\ rg' = 0
        BY <2>2, <2>3, <3>2
      <4> QED BY <1>7, <1>8, <1>9, <1>10, <2>3, <3>1, <4>1, <4>2
    <3> QED BY <1>13, <3>1, <3>2
  <2>4. CASE g = 2
    <3>1. /\ UNCHANGED <<sem_count, sem_buffer>> /\ Clients!NextCall(t)
          /\ printed' = Append(printed, "Second")
      BY <1>4, <2>1, <2>4, StepOf
    <3>2. rg = 0 /\ UNCHANGED <<f, h, rf, rh>> /\ g' = 3 /\ rg' = 0
      BY <2>2, <2>4, <3>1
    <3>3. h = 1 /\ rh = 0 /\ rf = 1 /\ printed = one
      BY <1>7, <1>8, <1>9, <2>4, <3>2
    <3>4. printed' = two
      BY <1>0, <3>1, <3>3
    <3> QED BY <1>7, <1>8, <1>10, <2>4, <3>1, <3>2, <3>3, <3>4
  <2>5. CASE g = 3
    <3>1. /\ UNCHANGED <<sem_buffer, printed>> /\ Clients!NextCall(t)
          /\ sem_count' = [sem_count EXCEPT !["sem3"] = Clients!Given("sem3")]
      BY <1>4, <2>1, <2>5, StepOf
    <3>2. Kept /\ c3' = 1 /\ UNCHANGED c2
      BY <1>6, <1>7, <1>12, <3>1
    <3>3. rg = 0 /\ UNCHANGED <<f, h, rf, rh>> /\ g' = 1 /\ rg' = 1
      BY <2>2, <2>5, <3>1
    <3> QED BY <1>7, <1>8, <1>9, <1>10, <2>5, <3>1, <3>2, <3>3
  <2> QED BY <1>7, <2>3, <2>4, <2>5
<1>16. CASE t = "third"
  <2>1. Clients!Call(t) = Clients!third[h] /\ "first" \in Clients!Thread \ {t}
        /\ "second" \in Clients!Thread \ {t}
    BY <1>1, <1>2, <1>16 DEF Clients!Call
  <2>2. Clients!NextCall(t) =>
          /\ rh = 0 /\ UNCHANGED <<f, g, rf, rg>>
          /\ \/ h < 2 /\ h' = h + 1 /\ rh' = 0
             \/ h = 2 /\ h' = 1 /\ rh' = 1
    <3>1. Len(Clients!Program[t]) = 2
      BY <1>2, <1>5, <1>16
    <3> QED BY <1>11, <1>16, <2>1, <3>1
  <2>3. CASE h = 1
    <3>1. /\ UNCHANGED <<sem_buffer, printed>>
          /\ \/ /\ sem_count["sem3"] > 0 /\ Clients!NextCall(t)
                /\ sem_count' = [sem_count EXCEPT !["sem3"] = Clients!Taken("sem3")]
             \/ UNCHANGED <<sem_count, sem_at, sem_rounds>>
      BY <1>5, <2>1, <2>3, StepOf
    <3>2. CASE /\ sem_count["sem3"] > 0 /\ Clients!NextCall(t)
               /\ sem_count' = [sem_count EXCEPT !["sem3"] = Clients!Taken("sem3")]
      <4>1. Kept /\ c3' = 0 /\ UNCHANGED c2 /\ c3 = 1
        BY <1>6, <1>7, <1>12, <3>2
      <4>2. rh = 0 /\ UNCHANGED <<f, g, rf, rg>> /\ h' = 2 /\ rh' = 0
        BY <2>2, <2>3, <3>2
      <4> QED BY <1>7, <1>8, <1>9, <1>10, <2>3, <3>1, <4>1, <4>2
    <3> QED BY <1>13, <3>1, <3>2
  <2>4. CASE h = 2
    <3>1. /\ UNCHANGED <<sem_count, sem_buffer>> /\ Clients!NextCall(t)
          /\ printed' = Append(printed, "Third")
      BY <1>5, <2>1, <2>4, StepOf
    <3>2. rh = 0 /\ UNCHANGED <<f, g, rf, rg>> /\ h' = 1 /\ rh' = 1
      BY <2>2, <2>4, <3>1
    <3>3. rg = 1 /\ rf = 1 /\ printed = two
      BY <1>7, <1>8, <1>9, <2>4, <3>2
    <3>4. printed' = three
      BY <1>0, <3>1, <3>3
    <3> QED BY <1>7, <1>8, <1>10, <2>4, <3>1, <3>2, <3>3, <3>4
  <2> QED BY <1>7, <2>3, <2>4
<1> QED BY <1>1, <1>14, <1>15, <1>16

\* The semaphores and variables of the programs that do not run are as at first.
AtRest == /\ client # "cs" => sem_count["sem"] = 1
          /\ client # "pool" => sem_count["pool"] = Permits
          /\ client # "pc" => sem_count["mutex"] = 1 /\ sem_buffer = 0
          /\ client # "ioe" => printed = <<>>

ClientsInv == /\ ClientTypes /\ Clients!NobodyMissed
              /\ GuardCounts /\ ItemCounts /\ PrintCounts /\ AtRest

LEMMA ClientsInvInitially ==
    ASSUME NEW C \in SUBSET ClientNames, Clients!Init(C) PROVE ClientsInv
<1>1. /\ sem_count = [s \in Clients!Sems |-> Clients!InitialCount(s)]
      /\ sem_at = [t \in Clients!Thread |-> 1] /\ sem_rounds = [t \in Clients!Thread |-> 0]
      /\ sem_buffer = 0 /\ printed = <<>> /\ client \in ClientNames
  BY DEF Clients!Init, Clients!SemInit
<1>2. /\ sem_count["sem"] = 1 /\ sem_count["mutex"] = 1 /\ sem_count["pool"] = Permits
      /\ sem_count["items"] = 0 /\ sem_count["sem2"] = 0 /\ sem_count["sem3"] = 0
      /\ Clients!InitialCount("sem") = 1 /\ Clients!InitialCount("pool") = Permits
  BY <1>1 DEF Clients!InitialCount, Clients!Sems, Clients!BinarySems
<1>3. GuardCounts
  <2>1. Inside = {} /\ Cardinality(Inside) = 0
    <3>1. \A t \in Clients!Thread : sem_at[t] = 1
      BY <1>1
    <3>2. Inside = {}
      BY <3>1 DEF Inside
    <3> QED BY <3>2, FS_EmptySet
  <2> QED BY <1>2, <2>1, SemaphoresAssumption DEF GuardCounts, Guard
<1>4. ItemCounts
  BY <1>1, <1>2, ThreadsOf DEF ItemCounts, At
<1>5. PrintCounts
  BY <1>1, <1>2, ThreadsOf DEF PrintCounts, Follows, HasPrinted
<1> QED BY <1>1, <1>2, <1>3, <1>4, <1>5, ClientsInitially DEF ClientsInv, AtRest

LEMMA ClientsInvStep ==
    ASSUME ClientsInv, Clients!Next \/ UNCHANGED clients
    PROVE  ClientsInv'
<1>1. ClientTypes' /\ Clients!NobodyMissed'
  BY ClientsStep DEF ClientsInv
<1>2. CASE \E t \in Clients!Thread : Clients!Step(t)
  <2>1. PICK t \in Clients!Thread : Clients!Step(t)
    BY <1>2
  <2>2. UNCHANGED client /\ client \in ClientNames
    BY <2>1, StepOf DEF ClientsInv, ClientTypes
  <2>3. /\ "sem" \in Clients!Sems /\ "pool" \in Clients!Sems /\ "mutex" \in Clients!Sems
    BY DEF Clients!Sems, Clients!BinarySems
  <2>4. CASE client \in {"cs", "pool"}
    <3>1. /\ GuardCounts' /\ UNCHANGED <<sem_buffer, printed>>
          /\ \A s \in Clients!Sems \ {Guard} : sem_count'[s] = sem_count[s]
      BY <2>1, <2>4, GuardStep DEF ClientsInv
    <3>2. AtRest'
      BY <2>2, <2>3, <2>4, <3>1 DEF ClientsInv, AtRest, Guard
    <3> QED BY <1>1, <2>2, <2>4, <3>1, <3>2 DEF ClientsInv, ItemCounts, PrintCounts
  <2>5. CASE client = "pc"
    <3>1. /\ ItemCounts' /\ UNCHANGED printed
          /\ \A s \in Clients!Sems \ {"mutex", "items"} : sem_count'[s] = sem_count[s]
      BY <2>1, <2>5, ItemStep DEF ClientsInv
    <3>2. AtRest'
      BY <2>2, <2>3, <2>5, <3>1 DEF ClientsInv, AtRest
    <3> QED BY <1>1, <2>2, <2>5, <3>1, <3>2 DEF ClientsInv, GuardCounts, PrintCounts
  <2>6. CASE client = "ioe"
    <3>1. /\ PrintCounts' /\ UNCHANGED sem_buffer
          /\ \A s \in Clients!Sems \ {"sem1", "sem2", "sem3"} : sem_count'[s] = sem_count[s]
      BY <2>1, <2>6, PrintStep DEF ClientsInv
    <3>2. AtRest'
      BY <2>2, <2>3, <2>6, <3>1 DEF ClientsInv, AtRest
    <3> QED BY <1>1, <2>2, <2>6, <3>1, <3>2 DEF ClientsInv, GuardCounts, ItemCounts
  <2> QED BY <2>2, <2>4, <2>5, <2>6 DEF ClientNames
<1>3. CASE UNCHANGED <<client, sem_count, sem_at, sem_rounds, sem_buffer, printed>>
  <2>1. Clients!Thread' = Clients!Thread /\ Inside' = Inside /\ Guard' = Guard
    BY <1>3, SameProgram DEF Inside, Guard
  <2>2. GuardCounts'
    BY <1>3, <2>1 DEF ClientsInv, GuardCounts
  <2>3. ItemCounts' /\ PrintCounts' /\ AtRest'
    BY <1>3, <2>1 DEF ClientsInv, ItemCounts, At, PrintCounts, Follows, HasPrinted, AtRest
  <2> QED BY <1>1, <2>2, <2>3 DEF ClientsInv
<1> QED BY <1>2, <1>3 DEF Clients!Next, Clients!WakeSpuriously, Clients!vars, clients

LEMMA PermitsAreConserved == ASSUME ClientsInv PROVE Clients!PermitsConserved
<1>1. /\ client \in ClientNames
      /\ \A t \in Clients!Thread : sem_at[t] \in 1..Len(Clients!Program[t])
      /\ \A t \in Clients!Thread : Len(Clients!Program[t]) \in Nat \ {0}
      /\ sem_count \in [Clients!Sems -> Nat]
  BY ProgramsAreFinite DEF ClientsInv, ClientTypes, Clients!TypeOK
<1>2. /\ Clients!InitialCount("sem") = 1 /\ Clients!InitialCount("pool") = Permits
      /\ Clients!InitialCount("mutex") = 1 /\ Permits \in Nat
  BY SemaphoresAssumption DEF Clients!InitialCount
<1>3. ASSUME NEW s \in {"sem", "mutex", "pool"},
             \A t \in Clients!Thread : \A k \in 1..Len(Clients!Program[t]) :
                Clients!Program[t][k] # <<"wait", s>>,
             sem_count[s] = Clients!InitialCount(s)
      PROVE  sem_count[s] + Clients!Cardinality(Clients!Holders(s)) = Clients!InitialCount(s)
  <2>1. Clients!Holders(s) = {}
    BY <1>1, <1>3 DEF Clients!Holders
  <2>2. Clients!Cardinality(Clients!Holders(s)) = 0
    BY <2>1, SameClientCardinality, FS_EmptySet
  <2> QED BY <1>2, <1>3, <2>2
<1>4. CASE client \in {"cs", "pool"}
  <2>1. /\ Clients!Thread = Workers /\ Guard \in {"sem", "pool"}
        /\ \A t \in Workers : Clients!Program[t] = <<<<"wait", Guard>>, <<"signal", Guard>>>>
    BY <1>4, Programs, ThreadsOf DEF Guard, Clients!accessCriticalSection, Clients!usePermit
  <2>2. \A t \in Workers : /\ Len(Clients!Program[t]) = 2
                           /\ Clients!Program[t][1] = <<"wait", Guard>>
                           /\ Clients!Program[t][2] = <<"signal", Guard>>
    BY <2>1
  <2>3. \A t \in Workers : sem_at[t] \in 1..2
    BY <1>1, <2>1, <2>2
  <2>4. Clients!Holders(Guard) = Inside
    <3>1. ASSUME NEW t \in Workers
          PROVE  (\E k \in 1..(sem_at[t] - 1) :
                    /\ Clients!Program[t][k] = <<"wait", Guard>>
                    /\ \A j \in k..(sem_at[t] - 1) : Clients!Program[t][j] # <<"signal", Guard>>)
                 <=> sem_at[t] = 2
      BY <2>2, <2>3
    <3> QED BY <2>1, <3>1 DEF Clients!Holders, Inside
  <2>5. sem_count[Guard] + Clients!Cardinality(Clients!Holders(Guard)) = Clients!InitialCount(Guard)
    BY <1>4, <2>4, SameClientCardinality DEF ClientsInv, GuardCounts
  <2>6. ASSUME NEW s \in {"sem", "mutex", "pool"}, s # Guard
        PROVE  sem_count[s] + Clients!Cardinality(Clients!Holders(s)) = Clients!InitialCount(s)
    <3>1. \A t \in Clients!Thread : \A k \in 1..Len(Clients!Program[t]) :
             Clients!Program[t][k] # <<"wait", s>>
      <4>1. ASSUME NEW t \in Workers, NEW k \in 1..2 PROVE Clients!Program[t][k] # <<"wait", s>>
        <5>1. CASE k = 1
          BY <2>2, <2>6, <5>1
        <5>2. CASE k = 2
          BY <2>2, <5>2
        <5> QED BY <5>1, <5>2
      <4> QED BY <2>1, <2>2, <4>1
    <3>2. sem_count[s] = Clients!InitialCount(s)
      BY <1>2, <1>4, <2>6 DEF ClientsInv, AtRest, Guard
    <3> QED BY <1>3, <3>1, <3>2
  <2> QED BY <2>1, <2>5, <2>6 DEF Clients!PermitsConserved
<1>5. CASE client = "ioe"
  <2>1. Clients!Thread = {"first", "second", "third"}
    BY <1>5, ThreadsOf
  <2>2. /\ Clients!Program["first"] = Clients!first /\ Clients!Program["second"] = Clients!second
        /\ Clients!Program["third"] = Clients!third
    BY <1>5, Programs
  <2>3. ASSUME NEW s \in {"sem", "mutex", "pool"}
        PROVE  sem_count[s] + Clients!Cardinality(Clients!Holders(s)) = Clients!InitialCount(s)
    <3>1. /\ Len(Clients!first) = 3 /\ \A k \in 1..3 : Clients!first[k] # <<"wait", s>>
          /\ Len(Clients!second) = 3 /\ \A k \in 1..3 : Clients!second[k] # <<"wait", s>>
          /\ Len(Clients!third) = 2 /\ \A k \in 1..2 : Clients!third[k] # <<"wait", s>>
      BY DEF Clients!first, Clients!second, Clients!third
    <3>2. ASSUME NEW t \in Clients!Thread, NEW k \in 1..Len(Clients!Program[t])
          PROVE  Clients!Program[t][k] # <<"wait", s>>
      <4>1. CASE t = "first"
        BY <2>2, <3>1, <4>1
      <4>2. CASE t = "second"
        BY <2>2, <3>1, <4>2
      <4>3. CASE t = "third"
        BY <2>2, <3>1, <4>3
      <4> QED BY <2>1, <4>1, <4>2, <4>3
    <3>3. sem_count[s] = Clients!InitialCount(s)
      BY <1>2, <1>5 DEF ClientsInv, AtRest
    <3> QED BY <1>3, <3>2, <3>3
  <2> QED BY <2>3 DEF Clients!PermitsConserved
<1>6. CASE client = "pc"
  <2>1. Clients!Thread = {"producer", "consumer"}
    BY <1>6, ThreadsOf
  <2>2. /\ Clients!Program["producer"] = Clients!producer
        /\ Clients!Program["consumer"] = Clients!consumer
    BY <1>6, Programs
  <2>3. /\ Clients!producer[1] = <<"wait", "mutex">> /\ Clients!producer[2] = <<"push", "buffer">>
        /\ Clients!producer[3] = <<"signal", "mutex">> /\ Clients!producer[4] = <<"signal", "items">>
        /\ Len(Clients!producer) = 4
    BY DEF Clients!producer
  <2>4. /\ Clients!consumer[1] = <<"wait", "items">> /\ Clients!consumer[2] = <<"wait", "mutex">>
        /\ Clients!consumer[3] = <<"pop", "buffer">> /\ Clients!consumer[4] = <<"signal", "mutex">>
        /\ Len(Clients!consumer) = 4
    BY DEF Clients!consumer
  <2>5. ASSUME NEW s \in {"sem", "pool"}
        PROVE  sem_count[s] + Clients!Cardinality(Clients!Holders(s)) = Clients!InitialCount(s)
    <3>1. ASSUME NEW t \in Clients!Thread, NEW k \in 1..Len(Clients!Program[t])
          PROVE  Clients!Program[t][k] # <<"wait", s>>
      <4>1. ASSUME NEW j \in 1..4
            PROVE  Clients!producer[j] # <<"wait", s>> /\ Clients!consumer[j] # <<"wait", s>>
        <5>1. j = 1 \/ j = 2 \/ j = 3 \/ j = 4
          OBVIOUS
        <5> QED BY <2>3, <2>4, <5>1
      <4>2. CASE t = "producer"
        BY <2>2, <2>3, <4>1, <4>2
      <4>3. CASE t = "consumer"
        BY <2>2, <2>4, <4>1, <4>3
      <4> QED BY <2>1, <4>2, <4>3
    <3>2. sem_count[s] = Clients!InitialCount(s)
      BY <1>2, <1>6 DEF ClientsInv, AtRest
    <3> QED BY <1>3, <3>1, <3>2
  <2>6. sem_count["mutex"] + Clients!Cardinality(Clients!Holders("mutex")) = 1
    <3> DEFINE Holds(t) == \E k \in 1..(sem_at[t] - 1) :
                              /\ Clients!Program[t][k] = <<"wait", "mutex">>
                              /\ \A j \in k..(sem_at[t] - 1) :
                                     Clients!Program[t][j] # <<"signal", "mutex">>
    <3>1. sem_at["producer"] \in 1..4 /\ sem_at["consumer"] \in 1..4
      <4>1. "producer" \in Clients!Thread /\ "consumer" \in Clients!Thread
        BY <2>1
      <4> QED BY <1>1, <2>2, <2>3, <2>4, <4>1
    <3>2. Holds("producer") <=> sem_at["producer"] \in {2, 3}
      BY <2>2, <2>3, <3>1
    <3>3. Holds("consumer") <=> sem_at["consumer"] \in {3, 4}
      BY <2>2, <2>4, <3>1
    <3>4. sem_count["mutex"] + At("producer", {2, 3}) + At("consumer", {3, 4}) = 1
      BY <1>6 DEF ClientsInv, ItemCounts
    <3>5. sem_count["mutex"] \in Nat
      BY <1>1 DEF Clients!Sems, Clients!BinarySems
    <3>6. Clients!Holders("mutex") = {t \in {"producer", "consumer"} : Holds(t)}
      BY <2>1 DEF Clients!Holders
    <3> HIDE DEF Holds
    <3>7. CASE Holds("producer")
      <4>1. ~Holds("consumer") /\ sem_count["mutex"] = 0
        BY <3>2, <3>3, <3>4, <3>5, <3>7 DEF At
      <4>2. Clients!Holders("mutex") = {"producer"}
        BY <3>6, <3>7, <4>1
      <4> QED BY <4>1, <4>2, SameClientCardinality, FS_Singleton
    <3>8. CASE ~Holds("producer") /\ Holds("consumer")
      <4>1. sem_count["mutex"] = 0
        BY <3>2, <3>3, <3>4, <3>5, <3>8 DEF At
      <4>2. Clients!Holders("mutex") = {"consumer"}
        BY <3>6, <3>8
      <4> QED BY <4>1, <4>2, SameClientCardinality, FS_Singleton
    <3>9. CASE ~Holds("producer") /\ ~Holds("consumer")
      <4>1. sem_count["mutex"] = 1
        BY <3>2, <3>3, <3>4, <3>5, <3>9 DEF At
      <4>2. Clients!Holders("mutex") = {}
        BY <3>6, <3>9
      <4> QED BY <4>1, <4>2, SameClientCardinality, FS_EmptySet
    <3> QED BY <3>7, <3>8, <3>9
  <2> QED BY <1>2, <2>5, <2>6 DEF Clients!PermitsConserved
<1> QED BY <1>1, <1>4, <1>5, <1>6 DEF ClientNames

LEMMA OrderIsKept == ASSUME ClientsInv PROVE Clients!PrintsInOrder /\ Clients!PopsAnItem
<1>1. /\ client \in ClientNames /\ sem_buffer \in Int
      /\ sem_count \in [Clients!Sems -> Nat] /\ sem_count["items"] \in Nat
  BY DEF ClientsInv, ClientTypes, Clients!TypeOK, Clients!Sems, Clients!BinarySems
<1>2. sem_buffer >= 0
  BY <1>1 DEF ClientsInv, AtRest, ItemCounts, At
<1>3. printed \in {<<>>, <<"First">>, <<"First", "Second">>, <<"First", "Second", "Third">>}
  BY <1>1 DEF ClientsInv, AtRest, PrintCounts
<1> DEFINE W == <<"First", "Second", "Third">>
           T == {"First", "Second", "Third"}
<1>4. W \in Seq(T) /\ Len(W) = 3 /\ W[1] = "First" /\ W[2] = "Second" /\ W[3] = "Third"
  OBVIOUS
<1>5. /\ \A k \in 1..3 : W[k] \in T
      /\ <<>> \in Seq(T) /\ Len(<<>>) = 0
      /\ <<"First">> \in Seq(T) /\ Len(<<"First">>) = 1 /\ <<"First">>[1] = "First"
      /\ <<"First", "Second">> \in Seq(T) /\ Len(<<"First", "Second">>) = 2
      /\ <<"First", "Second">>[1] = "First" /\ <<"First", "Second">>[2] = "Second"
  OBVIOUS
<1>6. PICK n \in 0..3 : printed \in Seq(T) /\ Len(printed) = n /\ \A k \in 1..n : printed[k] = W[k]
  <2>1. CASE printed = <<>>
    <3>1. printed \in Seq(T) /\ Len(printed) = 0
      BY <1>5, <2>1
    <3> QED BY <3>1
  <2>2. CASE printed = <<"First">>
    <3>1. printed \in Seq(T) /\ Len(printed) = 1 /\ printed[1] = "First"
      BY <1>5, <2>2
    <3>2. \A k \in 1..1 : printed[k] = W[k]
      BY <1>4, <3>1
    <3> QED BY <3>1, <3>2
  <2>3. CASE printed = <<"First", "Second">>
    <3>1. printed \in Seq(T) /\ Len(printed) = 2 /\ printed[1] = "First" /\ printed[2] = "Second"
      BY <1>5, <2>3
    <3>2. \A k \in 1..2 : printed[k] = W[k]
      BY <1>4, <3>1
    <3> QED BY <3>1, <3>2
  <2>4. CASE printed = W
    BY <1>4, <2>4
  <2> QED BY <1>3, <2>1, <2>2, <2>3, <2>4
<1>7. /\ SubSeq(W, 1, n) \in Seq(T) /\ Len(SubSeq(W, 1, n)) = n
      /\ \A k \in 1..n : SubSeq(W, 1, n)[k] = W[k]
  BY <1>4, <1>5, SubSeqProperties
<1>8. printed = SubSeq(W, 1, n)
  BY <1>6, <1>7, SeqEqual
<1>9. Clients!PrintsInOrder
  BY <1>8 DEF Clients!PrintsInOrder
<1> QED BY <1>2, <1>9 DEF Clients!PopsAnItem
-----------------------------------------------------------------------------
(* ReadersWriters. *)

\* The cardinality that ReadersWriters names is the one of FiniteSets.
LEMMA SameCardinality == \A S : RW!Cardinality(S) = Cardinality(S)
BY DEF RW!Cardinality, Cardinality

\* Nobody is inside beside a writer.
Alone == \A w \in Writers, t \in RW!Thread :
            rw_at[w] = "inside" /\ rw_at[t] = "inside" => t = w

\* The two fields say who is inside.
FieldsTell == /\ readers_count = Cardinality(RW!Inside(Readers))
              /\ writer_active <=> RW!Inside(Writers) # {}

\* Whoever sleeps has not been inside yet.
SleepOutside == \A t \in RW!Asleep : rw_at[t] = "outside"

RWInv == RW!TypeOK /\ Alone /\ FieldsTell /\ SleepOutside /\ RW!SomebodyWillTell

\* How the readers inside are counted.
LEMMA ReadersInside ==
    IsFiniteSet(RW!Inside(Readers)) /\ Cardinality(RW!Inside(Readers)) \in 0..Cardinality(Readers)
<1>1. RW!Inside(Readers) \subseteq Readers
  BY DEF RW!Inside
<1>2. IsFiniteSet(RW!Inside(Readers)) /\ Cardinality(RW!Inside(Readers)) <= Cardinality(Readers)
  BY <1>1, FS_Subset, ReadersWritersAssumption
<1>3. Cardinality(RW!Inside(Readers)) \in Nat
  BY <1>2, FS_CardinalityType
<1>4. Cardinality(Readers) \in Nat
  BY FS_CardinalityType, ReadersWritersAssumption
<1> QED BY <1>2, <1>3, <1>4

LEMMA NobodyCounted ==
    ASSUME FieldsTell, readers_count = 0
    PROVE  RW!Inside(Readers) = {}
BY ReadersInside, FS_EmptySet DEF FieldsTell

LEMMA RWInitially == ASSUME RW!Init PROVE RWInv
<1>1. RW!Inside(Readers) = {} /\ RW!Inside(Writers) = {} /\ RW!Inside(RW!Thread) = {}
  BY DEF RW!Init, RW!Inside, RW!Thread
<1>2. Cardinality({}) = 0 /\ Cardinality(Readers) \in Nat
  BY FS_EmptySet, FS_CardinalityType, ReadersWritersAssumption
<1>3. RW!TypeOK
  <2>1. RW!Cardinality(Readers) \in Nat
    BY <1>2, SameCardinality
  <2>2. 0 \in 0..RW!Cardinality(Readers)
    BY <2>1
  <2> QED BY <2>2 DEF RW!Init, RW!TypeOK
<1>4. Alone /\ SleepOutside
  BY DEF RW!Init, Alone, SleepOutside, RW!Asleep, RW!Thread
<1>5. FieldsTell
  BY <1>1, <1>2 DEF RW!Init, FieldsTell
<1> QED BY <1>3, <1>4, <1>5 DEF RWInv, RW!Init, RW!SomebodyWillTell

\* The step to or from "inside" of a reader, as a change of the set.
LEMMA ReaderEnters ==
    ASSUME RWInv, NEW r \in Readers, rw_at[r] = "outside",
           rw_at' = [rw_at EXCEPT ![r] = "inside"]
    PROVE  /\ RW!Inside(Readers)' = RW!Inside(Readers) \cup {r}
           /\ RW!Inside(Writers)' = RW!Inside(Writers)
           /\ Cardinality(RW!Inside(Readers)') = Cardinality(RW!Inside(Readers)) + 1
<1>1. rw_at \in [RW!Thread -> {"outside", "inside", "done"}] /\ Readers \subseteq RW!Thread /\ Writers \subseteq RW!Thread
  BY DEF RWInv, RW!TypeOK, RW!Thread
<1>2. RW!Inside(Readers)' = RW!Inside(Readers) \cup {r} /\ r \notin RW!Inside(Readers)
  BY <1>1 DEF RW!Inside
<1>3. RW!Inside(Writers)' = RW!Inside(Writers)
  BY <1>1, ReadersWritersAssumption DEF RW!Inside
<1> QED BY <1>2, <1>3, FS_AddElement, ReadersInside

LEMMA ReaderLeaves ==
    ASSUME RWInv, NEW r \in Readers, rw_at[r] = "inside",
           rw_at' = [rw_at EXCEPT ![r] = "done"]
    PROVE  /\ RW!Inside(Readers)' = RW!Inside(Readers) \ {r}
           /\ RW!Inside(Writers)' = RW!Inside(Writers)
           /\ Cardinality(RW!Inside(Readers)') = Cardinality(RW!Inside(Readers)) - 1
<1>1. rw_at \in [RW!Thread -> {"outside", "inside", "done"}] /\ Readers \subseteq RW!Thread /\ Writers \subseteq RW!Thread
  BY DEF RWInv, RW!TypeOK, RW!Thread
<1>2. RW!Inside(Readers)' = RW!Inside(Readers) \ {r} /\ r \in RW!Inside(Readers)
  BY <1>1 DEF RW!Inside
<1>3. RW!Inside(Writers)' = RW!Inside(Writers)
  BY <1>1, ReadersWritersAssumption DEF RW!Inside
<1> QED BY <1>2, <1>3, FS_RemoveElement, ReadersInside

LEMMA RWTypes ==
    ASSUME RWInv, RW!Next \/ UNCHANGED rw, FieldsTell'
    PROVE  RW!TypeOK'
<1>1. readers_count' \in 0..RW!Cardinality(Readers)
  <2>1. RW!Inside(Readers)' \subseteq Readers
    BY DEF RW!Inside
  <2>2. /\ IsFiniteSet(RW!Inside(Readers)')
        /\ Cardinality(RW!Inside(Readers)') <= Cardinality(Readers)
    BY <2>1, FS_Subset, ReadersWritersAssumption
  <2>3. Cardinality(RW!Inside(Readers)') \in Nat /\ Cardinality(Readers) \in Nat
    BY <2>2, FS_CardinalityType, ReadersWritersAssumption
  <2> QED BY <2>2, <2>3, SameCardinality DEF FieldsTell
<1>2. RW!TypeOK /\ Readers \subseteq RW!Thread /\ Writers \subseteq RW!Thread
  BY DEF RWInv, RW!Thread
<1>3. ASSUME NEW r \in Readers, RW!ReaderStep(r)
      PROVE  RW!TypeOK'
  BY <1>1, <1>2, <1>3 DEF RW!TypeOK, RW!ReaderStep, RW!startRead, RW!ReadWaits, RW!endRead,
     RW!TellAfterLast, RW!NotifyOne, RW!Goes
<1>4. ASSUME NEW w \in Writers, RW!WriterStep(w)
      PROVE  RW!TypeOK'
  <2>1. CASE RW!startWrite(w) \/ RW!WriteWaits(w)
    BY <1>1, <1>2, <2>1 DEF RW!TypeOK, RW!startWrite, RW!WriteWaits, RW!Goes
  <2>2. CASE RW!endWrite(w)
    <3>1. writer_condition' \subseteq writer_condition /\ readers_condition' = {}
      BY <2>2 DEF RW!endWrite, RW!TellEverybody, RW!NotifyOne
    <3> QED BY <1>1, <1>2, <2>2, <3>1 DEF RW!TypeOK, RW!endWrite, RW!Goes
  <2> QED BY <1>4, <2>1, <2>2 DEF RW!WriterStep
<1>5. CASE RW!WakeSpuriously
  BY <1>1, <1>2, <1>5 DEF RW!TypeOK, RW!WakeSpuriously, RW!WakeOne
<1>6. CASE UNCHANGED rw
  BY <1>1, <1>2, <1>6 DEF RW!TypeOK, rw
<1> QED BY <1>3, <1>4, <1>5, <1>6 DEF RW!Next, RW!vars, rw

LEMMA RWStep ==
    ASSUME RWInv, RW!Next \/ UNCHANGED rw
    PROVE  RWInv'
<1>1. /\ rw_at \in [RW!Thread -> {"outside", "inside", "done"}]
      /\ Readers \subseteq RW!Thread /\ Writers \subseteq RW!Thread
      /\ readers_condition \subseteq Readers /\ writer_condition \subseteq Writers
      /\ Readers \cap Writers = {} /\ RW!Thread = Readers \cup Writers
      /\ writer_active \in BOOLEAN
  BY ReadersWritersAssumption DEF RWInv, RW!TypeOK, RW!Thread
<1>2. Cardinality(RW!Inside(Readers)) \in Nat /\ readers_count = Cardinality(RW!Inside(Readers))
  BY ReadersInside, FS_CardinalityType DEF RWInv, FieldsTell
<1> DEFINE Safe == Alone /\ FieldsTell /\ SleepOutside /\ RW!SomebodyWillTell
<1>3. ASSUME NEW r \in Readers, RW!startRead(r)
      PROVE  Safe'
  <2>1. rw_at' = [rw_at EXCEPT ![r] = "inside"] /\ rw_at[r] = "outside" /\ ~writer_active
        /\ readers_count' = readers_count + 1
        /\ UNCHANGED <<writer_active, readers_condition, writer_condition>> /\ r \notin RW!Asleep
    BY <1>3 DEF RW!startRead, RW!MayRead, RW!Goes
  <2>2. RW!Inside(Writers) = {}
    BY <2>1 DEF RWInv, FieldsTell
  <2>3. FieldsTell'
    BY <1>2, <2>1, <2>2, ReaderEnters DEF FieldsTell, RWInv
  <2>4. RW!Inside(Writers)' = {}
    BY <2>1, <2>2, ReaderEnters
  <2>5. Alone'
    BY <2>4 DEF Alone, RW!Inside
  <2>6. SleepOutside'
    BY <1>1, <2>1 DEF RWInv, SleepOutside, RW!Asleep
  <2>7. RW!SomebodyWillTell'
    BY <1>1, <2>1 DEF RWInv, RW!SomebodyWillTell, RW!Inside
  <2> QED BY <2>3, <2>5, <2>6, <2>7
<1>4. ASSUME NEW r \in Readers, RW!ReadWaits(r)
      PROVE  Safe'
  BY <1>1, <1>4 DEF RW!ReadWaits, RW!MayRead, RWInv, Alone, FieldsTell, SleepOutside, RW!Asleep,
     RW!SomebodyWillTell, RW!Inside
<1>5. ASSUME NEW r \in Readers, RW!endRead(r)
      PROVE  Safe'
  <2>1. rw_at' = [rw_at EXCEPT ![r] = "done"] /\ rw_at[r] = "inside"
        /\ readers_count' = readers_count - 1
        /\ UNCHANGED <<writer_active, readers_condition>>
        /\ RW!TellAfterLast(readers_count - 1)
    BY <1>5 DEF RW!endRead, RW!Goes
  <2>2. FieldsTell'
    BY <1>2, <2>1, ReaderLeaves DEF FieldsTell, RWInv
  <2>3. Alone'
    BY <1>1, <2>1 DEF Alone, RWInv
  <2>4. writer_condition' \subseteq writer_condition
    BY <2>1 DEF RW!TellAfterLast, RW!NotifyOne
  <2>5. SleepOutside'
    BY <1>1, <2>1, <2>4 DEF RWInv, SleepOutside, RW!Asleep
  <2>6. ASSUME writer_condition' # {}
        PROVE  \/ RW!Inside(RW!Thread)' # {}
               \/ \E w \in Writers \ writer_condition' : rw_at'[w] = "outside"
    <3>1. CASE readers_count - 1 = 0
      <4>1. PICK w \in writer_condition : writer_condition' = writer_condition \ {w}
        BY <2>4, <2>6, <2>1, <3>1 DEF RW!TellAfterLast, RW!NotifyOne
      <4>2. rw_at'[w] = "outside" /\ w \in Writers
        BY <1>1, <2>1, <4>1 DEF RWInv, SleepOutside, RW!Asleep
      <4> QED BY <4>1, <4>2
    <3>2. CASE readers_count - 1 # 0
      <4>1. Cardinality(RW!Inside(Readers)') # 0
        BY <1>2, <2>1, <3>2, ReaderLeaves
      <4>2. PICK q \in Readers : rw_at'[q] = "inside"
        BY <4>1, FS_EmptySet DEF RW!Inside
      <4> QED BY <1>1, <4>2 DEF RW!Inside
    <3> QED BY <3>1, <3>2
  <2>7. RW!SomebodyWillTell'
    BY <2>1, <2>6 DEF RWInv, RW!SomebodyWillTell
  <2> QED BY <2>2, <2>3, <2>5, <2>7
<1>6. ASSUME NEW w \in Writers, RW!startWrite(w)
      PROVE  Safe'
  <2>1. rw_at' = [rw_at EXCEPT ![w] = "inside"] /\ rw_at[w] = "outside" /\ ~writer_active
        /\ readers_count = 0 /\ writer_active' = TRUE /\ w \notin RW!Asleep
        /\ UNCHANGED <<readers_count, readers_condition, writer_condition>>
    BY <1>6 DEF RW!startWrite, RW!MayWrite, RW!Goes
  <2>2. RW!Inside(Writers) = {} /\ RW!Inside(Readers) = {}
    BY <2>1, NobodyCounted DEF RWInv, FieldsTell
  <2>3. RW!Inside(Readers)' = {} /\ w \in RW!Inside(Writers)' /\ RW!Inside(RW!Thread)' = {w}
    BY <1>1, <2>1, <2>2 DEF RW!Inside
  <2>4. FieldsTell'
    BY <1>2, <2>1, <2>2, <2>3 DEF FieldsTell
  <2>5. Alone'
    BY <1>1, <2>3 DEF Alone, RW!Inside
  <2>6. SleepOutside'
    BY <1>1, <2>1 DEF RWInv, SleepOutside, RW!Asleep
  <2>7. RW!SomebodyWillTell'
    BY <2>1, <2>3 DEF RW!SomebodyWillTell
  <2> QED BY <2>4, <2>5, <2>6, <2>7
<1>7. ASSUME NEW w \in Writers, RW!WriteWaits(w)
      PROVE  Safe'
  <2>1. rw_at[w] = "outside" /\ writer_condition' = writer_condition \cup {w}
        /\ (writer_active \/ readers_count # 0)
        /\ UNCHANGED <<readers_count, writer_active, readers_condition, rw_at>>
    BY <1>7 DEF RW!WriteWaits, RW!MayWrite
  <2>2. RW!Inside(Readers) # {} \/ RW!Inside(Writers) # {}
    BY <1>2, <2>1, FS_EmptySet DEF RWInv, FieldsTell
  <2>3. RW!Inside(RW!Thread) # {}
    BY <1>1, <2>2 DEF RW!Inside
  <2>4. \A S : RW!Inside(S)' = RW!Inside(S)
    BY <2>1 DEF RW!Inside
  <2>5. Alone' /\ FieldsTell' /\ SleepOutside'
    BY <2>1, <2>4 DEF RWInv, Alone, FieldsTell, SleepOutside, RW!Asleep
  <2>6. RW!SomebodyWillTell'
    BY <2>1, <2>3, <2>4 DEF RWInv, RW!SomebodyWillTell, RW!Thread
  <2> QED BY <2>5, <2>6
<1>8. ASSUME NEW w \in Writers, RW!endWrite(w)
      PROVE  Safe'
  <2>1. rw_at' = [rw_at EXCEPT ![w] = "done"] /\ rw_at[w] = "inside"
        /\ writer_active' = FALSE /\ readers_condition' = {}
        /\ writer_condition' \in RW!NotifyOne(writer_condition)
        /\ UNCHANGED readers_count
    BY <1>8 DEF RW!endWrite, RW!TellEverybody, RW!Goes
  <2>2. \A t \in RW!Thread : rw_at[t] = "inside" => t = w
    BY <1>1, <2>1 DEF RWInv, Alone
  <2>3. RW!Inside(Writers)' = {} /\ RW!Inside(Readers)' = {} /\ RW!Inside(Readers) = {}
    BY <1>1, <2>1, <2>2 DEF RW!Inside
  <2>4. FieldsTell'
    BY <1>2, <2>1, <2>3 DEF FieldsTell
  <2>5. Alone'
    BY <2>3 DEF Alone, RW!Inside
  <2>6. writer_condition' \subseteq writer_condition
    BY <2>1 DEF RW!NotifyOne
  <2>7. SleepOutside'
    BY <1>1, <2>1, <2>6 DEF RWInv, SleepOutside, RW!Asleep
  <2>8. ASSUME writer_condition' # {}
        PROVE  \E v \in Writers \ writer_condition' : rw_at'[v] = "outside"
    <3>1. PICK v \in writer_condition : writer_condition' = writer_condition \ {v}
      BY <2>1, <2>8 DEF RW!NotifyOne
    <3>2. rw_at'[v] = "outside" /\ v \in Writers
      BY <1>1, <2>1, <3>1 DEF RWInv, SleepOutside, RW!Asleep
    <3> QED BY <3>1, <3>2
  <2>9. RW!SomebodyWillTell'
    BY <2>1, <2>8 DEF RW!SomebodyWillTell
  <2> QED BY <2>4, <2>5, <2>7, <2>9
<1>9. ASSUME RW!WakeSpuriously
      PROVE  Safe'
  <2>1. UNCHANGED <<readers_count, writer_active, rw_at>>
        /\ \/ \E t \in readers_condition : readers_condition' = readers_condition \ {t}
                                           /\ writer_condition' = writer_condition
           \/ \E t \in writer_condition : writer_condition' = writer_condition \ {t}
                                           /\ readers_condition' = readers_condition
    BY <1>9 DEF RW!WakeSpuriously, RW!WakeOne
  <2>2. \A S : RW!Inside(S)' = RW!Inside(S)
    BY <2>1 DEF RW!Inside
  <2>3. Alone' /\ FieldsTell' /\ SleepOutside'
    BY <2>1, <2>2 DEF RWInv, Alone, FieldsTell, SleepOutside, RW!Asleep
  <2>4. RW!SomebodyWillTell'
    BY <1>1, <2>1, <2>2 DEF RWInv, RW!SomebodyWillTell, RW!Thread, SleepOutside, RW!Asleep
  <2> QED BY <2>3, <2>4
<1>10. ASSUME UNCHANGED rw
       PROVE  Safe'
  BY <1>10 DEF rw, RWInv, Alone, FieldsTell, SleepOutside, RW!Asleep, RW!SomebodyWillTell, RW!Inside
<1>11. Safe'
  BY <1>3, <1>4, <1>5, <1>6, <1>7, <1>8, <1>9, <1>10
     DEF RW!Next, RW!ReaderStep, RW!WriterStep, RW!vars, rw
<1> QED BY <1>11, RWTypes DEF RWInv

LEMMA RWExclusion == ASSUME RWInv PROVE RW!WritersAlone
<1>1. /\ readers_count = RW!Cardinality(RW!Inside(Readers))
      /\ writer_active <=> RW!Inside(Writers) # {}
  BY SameCardinality DEF RWInv, FieldsTell
<1>2. ASSUME RW!Inside(Writers) # {}
      PROVE  RW!Cardinality(RW!Inside(RW!Thread)) = 1
  <2>1. PICK w \in Writers : rw_at[w] = "inside"
    BY <1>2 DEF RW!Inside
  <2>2. RW!Inside(RW!Thread) = {w}
    BY <2>1 DEF RWInv, Alone, RW!Inside, RW!Thread
  <2> QED BY <2>2, FS_Singleton, SameCardinality
<1> QED BY <1>1, <1>2 DEF RW!WritersAlone
-----------------------------------------------------------------------------
(* Spinlock. *)

LEMMA SameSpinCardinality == \A S : Spin!Cardinality(S) = Cardinality(S)
BY DEF Spin!Cardinality, Cardinality

\* The increments that were stored: of each thread those before its index, and the
\* one at its index when it is about to unlock.
Stored == {p \in Spinners \X (0..(numIncrements - 1)) :
              p[2] < sp_i[p[1]] \/ (p[2] = sp_i[p[1]] /\ sp_at[p[1]] = "unlock")}

Holds(t) == sp_at[t] # "lock"

\* One thread at most holds the lock, and the flag says whether one does.
OneHolder == /\ \A s, t \in Spinners : Holds(s) /\ Holds(t) => s = t
             /\ lockFlag <=> \E t \in Spinners : Holds(t)

\* What lock compares the flag with, and what a holder is about to add to.
LocalsTell == \A t \in Spinners : /\ ~expected[t]
                                  /\ Holds(t) => sp_i[t] < numIncrements
                                  /\ sp_at[t] = "store" => loaded[t] = counter

SpinInv == Spin!TypeOK /\ OneHolder /\ LocalsTell /\ counter = Cardinality(Stored)

LEMMA StoredIsFinite == IsFiniteSet(Stored)
<1>1. IsFiniteSet(0..(numIncrements - 1))
  BY FS_Interval, SpinlockAssumption
<1>2. IsFiniteSet(Spinners \X (0..(numIncrements - 1)))
  BY <1>1, FS_Product, SpinlockAssumption
<1> QED BY <1>2, FS_Subset DEF Stored

LEMMA SpinInitially == ASSUME Spin!Init PROVE SpinInv
<1>1. Spin!TypeOK /\ OneHolder /\ LocalsTell
  <2>1. 0 \in 0..numIncrements
    BY SpinlockAssumption
  <2>2. Spin!TypeOK
    BY <2>1 DEF Spin!Init, Spin!TypeOK
  <2> QED BY <2>2 DEF Spin!Init, OneHolder, LocalsTell, Holds
<1>2. Stored = {}
  BY DEF Spin!Init, Stored
<1> QED BY <1>1, <1>2, FS_EmptySet DEF SpinInv, Spin!Init

LEMMA SpinStep ==
    ASSUME SpinInv, Spin!Next \/ UNCHANGED spin
    PROVE  SpinInv'
<1> USE SpinlockAssumption
<1>1. /\ lockFlag \in BOOLEAN /\ counter \in Nat
      /\ expected \in [Spinners -> BOOLEAN] /\ loaded \in [Spinners -> Nat]
      /\ sp_at \in [Spinners -> {"lock", "load", "store", "unlock"}]
      /\ sp_i \in [Spinners -> 0..numIncrements]
  BY DEF SpinInv, Spin!TypeOK
<1>2. OneHolder /\ LocalsTell /\ counter = Cardinality(Stored)
  BY DEF SpinInv
<1>3. ASSUME NEW t \in Spinners, Spin!LockTaken(t)
      PROVE  SpinInv'
  <2>1. /\ sp_at[t] = "lock" /\ sp_at' = [sp_at EXCEPT ![t] = "load"] /\ lockFlag' = TRUE
        /\ UNCHANGED <<counter, expected, loaded, sp_i>> /\ sp_i[t] < numIncrements
        /\ lockFlag = expected[t]
    BY <1>3 DEF Spin!LockTaken, Spin!Runs
  <2>2. \A s \in Spinners : ~Holds(s)
    BY <1>1, <1>2, <2>1 DEF OneHolder, LocalsTell
  <2>3. Stored' = Stored
    BY <1>1, <2>1 DEF Stored
  <2>4. Spin!TypeOK'
    BY <1>1, <2>1 DEF Spin!TypeOK
  <2>5. OneHolder' /\ LocalsTell'
    BY <1>1, <1>2, <2>1, <2>2 DEF OneHolder, LocalsTell, Holds
  <2> QED BY <1>2, <2>1, <2>3, <2>4, <2>5 DEF SpinInv
<1>4. ASSUME NEW t \in Spinners, Spin!LockFails(t)
      PROVE  SpinInv'
  <2>1. /\ expected' = [expected EXCEPT ![t] = FALSE]
        /\ UNCHANGED <<lockFlag, counter, loaded, sp_at, sp_i>>
    BY <1>4 DEF Spin!LockFails, Spin!ExpectedIsReset
  <2> QED BY <1>1, <1>2, <2>1 DEF SpinInv, Spin!TypeOK, OneHolder, LocalsTell, Holds, Stored
<1>5. ASSUME NEW t \in Spinners, Spin!Load(t)
      PROVE  SpinInv'
  <2>1. /\ sp_at[t] = "load" /\ sp_at' = [sp_at EXCEPT ![t] = "store"]
        /\ loaded' = [loaded EXCEPT ![t] = counter]
        /\ UNCHANGED <<lockFlag, counter, expected, sp_i>>
    BY <1>5 DEF Spin!Load
  <2>2. Stored' = Stored
    BY <1>1, <2>1 DEF Stored
  <2>3. Spin!TypeOK' /\ OneHolder' /\ LocalsTell'
    BY <1>1, <1>2, <2>1 DEF Spin!TypeOK, OneHolder, LocalsTell, Holds
  <2> QED BY <1>2, <2>1, <2>2, <2>3 DEF SpinInv
<1>6. ASSUME NEW t \in Spinners, Spin!Store(t)
      PROVE  SpinInv'
  <2>1. /\ sp_at[t] = "store" /\ sp_at' = [sp_at EXCEPT ![t] = "unlock"]
        /\ counter' = loaded[t] + 1
        /\ UNCHANGED <<lockFlag, expected, loaded, sp_i>>
    BY <1>6 DEF Spin!Store
  <2>2. loaded[t] = counter /\ sp_i[t] < numIncrements
    BY <1>2, <2>1 DEF LocalsTell, Holds
  <2>3. <<t, sp_i[t]>> \in Spinners \X (0..(numIncrements - 1)) /\ <<t, sp_i[t]>> \notin Stored
    BY <1>1, <2>1, <2>2 DEF Stored
  <2>4. Stored' = Stored \cup {<<t, sp_i[t]>>}
    BY <1>1, <2>1, <2>3 DEF Stored
  <2>5. counter' = Cardinality(Stored)'
    BY <1>2, <2>1, <2>2, <2>3, <2>4, StoredIsFinite, FS_AddElement
  <2>6. Spin!TypeOK'
    BY <1>1, <2>1 DEF Spin!TypeOK
  <2>7. OneHolder' /\ LocalsTell'
    BY <1>1, <1>2, <2>1 DEF OneHolder, LocalsTell, Holds
  <2> QED BY <2>5, <2>6, <2>7 DEF SpinInv
<1>7. ASSUME NEW t \in Spinners, Spin!unlock(t)
      PROVE  SpinInv'
  <2>1. /\ sp_at[t] = "unlock" /\ sp_at' = [sp_at EXCEPT ![t] = "lock"]
        /\ lockFlag' = FALSE /\ expected' = [expected EXCEPT ![t] = FALSE]
        /\ sp_i' = [sp_i EXCEPT ![t] = sp_i[t] + 1]
        /\ UNCHANGED <<counter, loaded>>
    BY <1>7 DEF Spin!unlock
  <2>2. sp_i[t] < numIncrements
    BY <1>2, <2>1 DEF LocalsTell, Holds
  <2>3. Stored' = Stored
    BY <1>1, <2>1, <2>2 DEF Stored
  <2>4. Spin!TypeOK'
    <3>1. sp_i[t] + 1 \in 0..numIncrements
      BY <1>1, <2>2
    <3>2. sp_i' \in [Spinners -> 0..numIncrements]
      BY <1>1, <2>1, <3>1
    <3> QED BY <1>1, <2>1, <3>2 DEF Spin!TypeOK
  <2>5. OneHolder' /\ LocalsTell'
    BY <1>1, <1>2, <2>1 DEF OneHolder, LocalsTell, Holds
  <2> QED BY <1>2, <2>1, <2>3, <2>4, <2>5 DEF SpinInv
<1>8. CASE UNCHANGED spin
  BY <1>8 DEF spin, SpinInv, Spin!TypeOK, OneHolder, LocalsTell, Holds, Stored
<1> QED BY <1>3, <1>4, <1>5, <1>6, <1>7, <1>8 DEF Spin!Next, Spin!incrementCounter, Spin!vars, spin

LEMMA AllStored == ASSUME SpinInv PROVE Spin!NoLostUpdate
<1> SUFFICES ASSUME Spin!AllJoined
             PROVE  counter = numIncrements * Spin!Cardinality(Spinners)
  BY DEF Spin!NoLostUpdate
<1> USE SpinlockAssumption
<1>1. \A t \in Spinners : sp_i[t] = numIncrements
  BY DEF Spin!AllJoined, Spin!Runs, SpinInv, Spin!TypeOK
<1>2. Stored = Spinners \X (0..(numIncrements - 1))
  BY <1>1 DEF Stored
<1>3. IsFiniteSet(0..(numIncrements - 1)) /\ Cardinality(0..(numIncrements - 1)) = numIncrements
  BY FS_Interval
<1>4. Cardinality(Stored) = Cardinality(Spinners) * numIncrements /\ Cardinality(Spinners) \in Nat
  BY <1>2, <1>3, FS_Product, FS_CardinalityType
<1> QED BY <1>4, SameSpinCardinality DEF SpinInv
-----------------------------------------------------------------------------
(* The composition. *)

AllInv == /\ IInv /\ RingInv /\ RingNodes /\ QueueInv /\ SlotsInv
          /\ ClientsInv /\ RWInv /\ SpinInv

LEMMA AllInitially == MCInit => AllInv /\ Ring!Contents = <<>> /\ ProdCons!Contents = <<>>
<1> SUFFICES ASSUME MCInit PROVE AllInv /\ Ring!Contents = <<>> /\ ProdCons!Contents = <<>>
  OBVIOUS
<1>1. Init /\ Ring!Init /\ Queue!Init /\ ProdCons!Init
  BY DEF MCInit, QueuesInit
<1>2. ClientsInv
  <2>1. PICK C : /\ C = IF subject = "semaphores" THEN {"cs", "ioe", "pc", "pool"} ELSE {"cs"}
                 /\ Clients!Init(C)
    BY DEF MCInit
  <2>2. C \in SUBSET ClientNames
    BY <2>1 DEF ClientNames
  <2> QED BY <2>1, <2>2, ClientsInvInitially
<1>3. RWInv /\ SpinInv
  BY RWInitially, SpinInitially DEF MCInit
<1> QED BY <1>1, <1>2, <1>3, InitIInv, RingInitially, RingNodesInitially, QueueInitially,
           SlotsInitially DEF AllInv

\* What a step of the composition is to each object.
LEMMA StepOfEach ==
    ASSUME [MCNext]_all
    PROVE  /\ [Next]_vars /\ (Ring!Next \/ UNCHANGED ring)
           /\ (Queue!Next \/ UNCHANGED queue) /\ (ProdCons!Next \/ UNCHANGED prodcons)
           /\ (Clients!Next \/ UNCHANGED clients)
           /\ (RW!Next \/ UNCHANGED rw) /\ (Spin!Next \/ UNCHANGED spin)
<1>1. CASE QueuesNext /\ UNCHANGED <<clients, rw, spin>>
  BY <1>1 DEF QueuesNext
<1>2. CASE UNCHANGED queues
  <2>1. UNCHANGED <<vars, ring, queue, prodcons>>
    BY <1>2 DEF queues
  <2>2. CASE MCNext
    BY <1>2, <2>1, <2>2, <1>1 DEF MCNext
  <2>3. CASE UNCHANGED all
    BY <2>1, <2>3 DEF all
  <2> QED BY <2>2, <2>3
<1>3. CASE UNCHANGED all
  <2>1. UNCHANGED queues
    BY <1>3 DEF all
  <2> QED BY <1>2, <2>1
<1> QED BY <1>1, <1>2, <1>3 DEF MCNext

LEMMA AllStep == AllInv /\ [MCNext]_all => AllInv'
BY StepOfEach, StepIInv, RingStep, RingNodesStep, QueueStep, SlotsStep, ClientsInvStep, RWStep, SpinStep
   DEF AllInv

LEMMA AllAlways == MCSpec => []AllInv
BY AllInitially, AllStep, PTL DEF MCSpec

\* Every variable of the seven programs keeps its type, in every behaviour of
\* MCSynchronization and for every value of its constants.
THEOREM TypesKept == MCSpec => []SynchronizationTypeOK
<1>1. AllInv => SynchronizationTypeOK
  BY DEF AllInv, IInv, RingInv, QueueInv, SlotsInv, ClientsInv, ClientTypes, RWInv, SpinInv,
         SynchronizationTypeOK, QueuesTypeOK
<1> QED BY <1>1, AllAlways, PTL

\* In every behaviour of MCSynchronization a writer of ReadersWriters is alone
\* inside, its two fields say who is there, and no increment under the Spinlock is
\* lost, for any finite sets of threads and any number of increments.
THEOREM Exclusion == MCSpec => []MutualExclusion
<1>1. AllInv => MutualExclusion
  BY RWExclusion, AllStored DEF AllInv, MutualExclusion
<1> QED BY <1>1, AllAlways, PTL

\* Nobody who sleeps is forgotten: a thread asleep at the RingBuffer or at
\* ThreadsafeQueue finds as many awake as there are slots or items it could use, the
\* semaphores of prodcons account for every slot, no waiter of a semaphore sleeps
\* beside a permit unless a waiter already woken will take it, and whoever sleeps in
\* ReadersWriters will be told by somebody inside or on the way in.
THEOREM NobodyIsForgotten == MCSpec => []NobodyForgotten
<1>1. AllInv => NobodyForgotten
  BY RingMissed, SlotsAccounted
     DEF AllInv, QueueInv, ClientsInv, RWInv, NobodyForgotten, SleepersAreCovered
<1> QED BY <1>1, AllAlways, PTL

\* The permits of the clients' semaphores are neither made nor lost, first, second
\* and third print in this order whatever order they start in, and the consumer of
\* pc_binsema never pops from an empty queue.
THEOREM ClientsKeepOrder == MCSpec => []ClientsInOrder
<1>1. AllInv => ClientsInOrder
  BY PermitsAreConserved, OrderIsKept DEF AllInv, ClientsInOrder
<1> QED BY <1>1, AllAlways, PTL

\* The RingBuffer and prodcons implement a bounded FIFO queue: whatever the threads'
\* order, the items leave as they came in, once each and none overwritten.
THEOREM RingsAreFIFO == MCSpec => QueuesFIFOSpec
<1>1. MCInit => Ring!FIFO!Init /\ ProdCons!FIFO!Init
  <2> SUFFICES ASSUME MCInit PROVE Ring!FIFO!Init /\ ProdCons!FIFO!Init
    OBVIOUS
  <2>1. rb_delivered = <<>> /\ pc_delivered = <<>>
    BY DEF MCInit, QueuesInit, Ring!Init, ProdCons!Init
  <2> QED BY <2>1, AllInitially DEF Ring!FIFO!Init, ProdCons!FIFO!Init
<1>2. AllInv /\ [MCNext]_all => [Ring!FIFO!Next]_<<Ring!Contents, rb_delivered>>
  <2> SUFFICES ASSUME AllInv, [MCNext]_all
               PROVE  Ring!FIFO!Next \/ UNCHANGED <<Ring!Contents, rb_delivered>>
    OBVIOUS
  <2>1. ASSUME NEW p \in Producers, Ring!Insert(p) PROVE Ring!FIFO!Next
    <3>1. Len(Ring!Contents) < size - 1
      BY <2>1, RingInsert, RingContents DEF AllInv, RingInv
    <3>2. UNCHANGED rb_delivered
      BY <2>1 DEF Ring!Insert
    <3>3. Ring!FIFO!Put(<<p, rb_calls[p] + 1>>)
      BY <2>1, <3>1, <3>2, RingInsert DEF AllInv, Ring!FIFO!Put
    <3> QED BY <2>1, <3>3, RingInsert DEF AllInv, Ring!FIFO!Next
  <2>2. ASSUME NEW c \in Consumers, Ring!Remove(c) PROVE Ring!FIFO!Next
    BY <2>2, RingRemove DEF AllInv, Ring!FIFO!Get, Ring!FIFO!Next
  <2> QED BY <2>1, <2>2, StepOfEach, RingStep DEF AllInv
<1>3. AllInv /\ [MCNext]_all => [ProdCons!FIFO!Next]_<<ProdCons!Contents, pc_delivered>>
  <2> SUFFICES ASSUME AllInv, [MCNext]_all
               PROVE  ProdCons!FIFO!Next \/ UNCHANGED <<ProdCons!Contents, pc_delivered>>
    OBVIOUS
  <2>1. ASSUME NEW p \in Producers, ProdCons!Insert(p) PROVE ProdCons!FIFO!Next
    <3>1. Len(ProdCons!Contents) < BUFFER_SIZE
      BY <2>1, SlotInsert, SlotContents DEF AllInv
    <3>2. ProdCons!FIFO!Put(<<p, rounds[p] + 1>>)
      BY <2>1, <3>1, SlotInsert DEF AllInv, ProdCons!FIFO!Put
    <3> QED BY <2>1, <3>2, SlotInsert DEF AllInv, ProdCons!FIFO!Next
  <2>2. ASSUME NEW c \in Consumers, ProdCons!Remove(c) PROVE ProdCons!FIFO!Next
    BY <2>2, SlotRemove DEF AllInv, ProdCons!FIFO!Get, ProdCons!FIFO!Next
  <2> QED BY <2>1, <2>2, StepOfEach, SlotsStep DEF AllInv
<1> QED BY <1>1, <1>2, <1>3, AllAlways, PTL
        DEF MCSpec, QueuesFIFOSpec, Ring!FIFOSpec, Ring!FIFO!Spec, ProdCons!FIFOSpec, ProdCons!FIFO!Spec

\* A late modifyData of the RingBuffer never writes to a node that a consumer has
\* removed and may have freed, and when every thread has been joined
\* cleanupRingBuffer finds each slot cleared, provided that as many nodes are
\* removed as inserted and every slot was used, as in con_test_lfrb.c.
THEOREM NodesAreOwnedOnce == ASSUME RingEmptied PROVE MCSpec => RingKeepsToItsNodes
<1>1. AllInv => Ring!CleanupFreesNothing
  BY NothingToFree DEF AllInv
<1>2. AllInv => [\A m \in Modifiers : Ring!ModifyData(m) =>
                    \A k \in 1..Len(rb_delivered) : rb_delivered[k] # touched']_Ring!vars
  BY ModifiesInside DEF AllInv
<1> QED BY <1>1, <1>2, AllAlways, PTL
        DEF RingKeepsToItsNodes, Ring!ModifiesNodesInRing
=============================================================================
