-------------------- MODULE LockFreeCircularQueue_proofs --------------------
(***************************************************************************)
(* LockFreeCircularQueue with one producer and one consumer, for every     *)
(* capacity, every number of calls and both kinds of client.  (With more   *)
(* threads on a side the properties are false: see the run queue_stress.)  *)
(***************************************************************************)
EXTENDS LockFreeCircularQueue, DataLemmas
-----------------------------------------------------------------------------
(* The inductive invariant. *)

ProducerPlaces == {"enqueue", "is_full", "full_head", "store", "publish"}
ConsumerPlaces == {"is_empty", "empty_tail", "empty_head", "dequeue", "take", "release"}

\* The producer's copies of tail_ are current, and once it has seen room there
\* stays room for the item it is about to publish.
ProducerKnows(p) ==
    /\ pc[p] \in ProducerPlaces
    /\ pc[p] # "enqueue" => calls[p] < Calls /\ currentTail[p] = tail_
    /\ pc[p] = "full_head" => fullTail[p] = tail_
    /\ pc[p] \in {"store", "publish"} => nextIndex(tail_) # head_
    /\ pc[p] = "publish" => data_[tail_] = <<p, calls[p] + 1>>

\* The consumer's copies of head_ are current, and once it has seen an item
\* the ring does not become empty.
ConsumerKnows(c) ==
    /\ pc[c] \in ConsumerPlaces
    /\ pc[c] # "is_empty" => calls[c] < Calls
    /\ pc[c] = "empty_tail" => loaded[c] = head_
    /\ pc[c] = "empty_head" => (loaded[c] # head_ => head_ # tail_)
    /\ pc[c] \in {"dequeue", "take", "release"} => head_ # tail_
    /\ pc[c] \in {"take", "release"} => currentHead[c] = head_
    /\ pc[c] = "release" => item[c] = data_[head_]

\* LedgerBalances, item by item.
Ledger ==
    /\ Len(accepted) = Len(delivered) + Held(head_, tail_, Capacity)
    /\ \A k \in 1..Len(delivered) : accepted[k] = delivered[k]
    /\ \A k \in 1..Held(head_, tail_, Capacity) :
           accepted[Len(delivered) + k] = data_[Slot(head_, k, Capacity)]

IInv(p, c) == TypeOK /\ ProducerKnows(p) /\ ConsumerKnows(c) /\ Ledger

LEMMA InitIInv ==
    ASSUME NEW p, NEW c, Producers = {p}, Consumers = {c}, Init
    PROVE  IInv(p, c)
<1>1. 0 \in Slots /\ p # c /\ Held(0, 0, Capacity) = 0
  <2>1. 0 \in Slots
    BY CapacityAssumption DEF Slots
  <2>2. Held(0, 0, Capacity) = 0
    BY CapacityAssumption, HeldValue
  <2> QED BY <2>1, <2>2, ThreadsAssumption
<1>2. TypeOK
  BY <1>1, CallsAssumption DEF Init, TypeOK, Thread
<1>3. ProducerKnows(p) /\ ConsumerKnows(c)
  BY <1>1 DEF Init, ProducerKnows, ConsumerKnows, ProducerPlaces, ConsumerPlaces, Thread
<1>4. Ledger
  BY <1>1 DEF Init, Ledger
<1> QED BY <1>2, <1>3, <1>4 DEF IInv
-----------------------------------------------------------------------------
(* Each step of either thread preserves it. *)

LEMMA ProducerPreserves ==
    ASSUME NEW p, NEW c, Producers = {p}, Consumers = {c}, IInv(p, c), ProducerStep(p)
    PROVE  IInv(p, c)'
<1> DEFINE C == Capacity
<1>0. /\ p # c /\ Thread = {p, c} /\ C \in Nat \ {0} /\ Slots = 0..(C - 1)
      /\ TypeOK /\ ProducerKnows(p) /\ ConsumerKnows(c) /\ Ledger
      /\ pc[p] \in ProducerPlaces /\ pc[c] \in ConsumerPlaces
      /\ head_ \in Slots /\ tail_ \in Slots /\ nextIndex(tail_) \in Slots
  BY CapacityAssumption, ThreadsAssumption, NextValue
     DEF IInv, Thread, Slots, TypeOK, ProducerKnows, ConsumerKnows, nextIndex
<1>1. CASE LoadTail(p)
  <2>1. TypeOK'
    BY <1>0, <1>1 DEF LoadTail, Goto, TypeOK
  <2>2. ProducerKnows(p)'
    BY <1>0, <1>1 DEF LoadTail, Goto, TypeOK, ProducerKnows, ProducerPlaces
  <2>3. ConsumerKnows(c)' /\ Ledger'
    BY <1>0, <1>1 DEF LoadTail, Goto, TypeOK, ConsumerKnows, Ledger
  <2> QED BY <2>1, <2>2, <2>3 DEF IInv
<1>2. CASE FullLoadTail(p)
  <2>1. TypeOK'
    BY <1>0, <1>2 DEF FullLoadTail, Goto, TypeOK
  <2>2. ProducerKnows(p)'
    BY <1>0, <1>2 DEF FullLoadTail, Goto, TypeOK, ProducerKnows, ProducerPlaces
  <2>3. ConsumerKnows(c)' /\ Ledger'
    BY <1>0, <1>2 DEF FullLoadTail, Goto, TypeOK, ConsumerKnows, Ledger
  <2> QED BY <2>1, <2>2, <2>3 DEF IInv
<1>3. CASE FullLoadHead(p)
  <2>1. calls' \in [Thread -> 0..Calls] /\ calls'[c] = calls[c]
    BY <1>0, <1>3, CallsAssumption
       DEF FullLoadHead, Failed, TypeOK, ProducerKnows
  <2>2. TypeOK'
    BY <1>0, <1>3, <2>1 DEF FullLoadHead, Failed, Goto, TypeOK
  <2>3. ProducerKnows(p)'
    <3>1. CASE pc'[p] = "enqueue"
      BY <1>3, <3>1 DEF ProducerKnows, ProducerPlaces
    <3>2. CASE pc'[p] = "store" /\ calls' = calls /\ ~Full(fullTail[p], head_)
      BY <1>0, <1>3, <3>2 DEF FullLoadHead, Full, TypeOK, ProducerKnows, ProducerPlaces, nextIndex
    <3> QED BY <1>0, <1>3, <3>1, <3>2 DEF FullLoadHead, Failed, Goto, TypeOK
  <2>4. ConsumerKnows(c)' /\ Ledger'
    BY <1>0, <1>3, <2>1 DEF FullLoadHead, Failed, Goto, TypeOK, ConsumerKnows, Ledger
  <2> QED BY <2>2, <2>3, <2>4 DEF IInv
<1>4. CASE StoreData(p)
  <2>1. /\ currentTail[p] = tail_ /\ calls[p] < Calls /\ nextIndex(tail_) # head_
        /\ calls[p] \in 0..Calls /\ <<p, calls[p] + 1>> \in Item
    BY <1>0, <1>4, CallsAssumption DEF StoreData, ProducerKnows, TypeOK, Item
  <2>2. /\ data_' = [data_ EXCEPT ![tail_] = <<p, calls[p] + 1>>]
        /\ pc'[p] = "publish" /\ pc'[c] = pc[c]
        /\ pc' = [pc EXCEPT ![p] = "publish"]
        /\ UNCHANGED <<head_, tail_, currentTail, fullTail, loaded,
                       currentHead, item, calls, accepted, delivered>>
    BY <1>0, <1>4, <2>1 DEF StoreData, Goto, TypeOK
  <2>3. TypeOK'
    BY <1>0, <2>1, <2>2 DEF TypeOK
  <2>4. ProducerKnows(p)'
    BY <1>0, <2>1, <2>2 DEF ProducerKnows, ProducerPlaces, TypeOK, nextIndex
  <2>5. ConsumerKnows(c)'
    BY <1>0, <2>2 DEF ConsumerKnows, TypeOK
  <2>6. \A k \in 1..Held(head_, tail_, C) :
            data_'[Slot(head_, k, C)] = data_[Slot(head_, k, C)]
    <3>1. ASSUME NEW k \in 1..Held(head_, tail_, C)
          PROVE  Slot(head_, k, C) # tail_ /\ Slot(head_, k, C) \in Slots
      BY <1>0, TailSlot
    <3> QED BY <2>2, <3>1 DEF TypeOK
  <2>7. Ledger'
    BY <1>0, <2>2, <2>6 DEF Ledger
  <2> QED BY <2>3, <2>4, <2>5, <2>7 DEF IInv
<1>5. CASE PublishTail(p)
  <2>1. /\ currentTail[p] = tail_ /\ calls[p] < Calls /\ nextIndex(tail_) # head_
        /\ calls[p] \in 0..Calls /\ <<p, calls[p] + 1>> \in Item
        /\ data_[tail_] = <<p, calls[p] + 1>>
    BY <1>0, <1>5, CallsAssumption DEF PublishTail, ProducerKnows, TypeOK, Item
  <2>2. /\ tail_' = nextIndex(tail_) /\ accepted' = Append(accepted, data_[tail_])
        /\ calls' = [calls EXCEPT ![p] = @ + 1]
        /\ pc' = [pc EXCEPT ![p] = "enqueue"]
        /\ pc'[p] = "enqueue" /\ pc'[c] = pc[c] /\ calls'[c] = calls[c]
        /\ UNCHANGED <<head_, data_, currentTail, fullTail, loaded,
                       currentHead, item, delivered>>
    BY <1>0, <1>5, <2>1 DEF PublishTail, Goto, TypeOK
  <2>3. TypeOK'
    <3>1. accepted' \in Seq(Item)
      BY <2>1, <2>2, <1>0 DEF TypeOK
    <3>2. calls' \in [Thread -> 0..Calls]
      BY <1>0, <2>1, <2>2, CallsAssumption DEF TypeOK
    <3> QED BY <1>0, <2>2, <3>1, <3>2 DEF TypeOK
  <2>4. ProducerKnows(p)'
    BY <2>2 DEF ProducerKnows, ProducerPlaces
  <2>5. ConsumerKnows(c)'
    BY <1>0, <2>1, <2>2 DEF ConsumerKnows
  <2>6. /\ Held(head_', tail_', C) = Held(head_, tail_, C) + 1
        /\ Held(head_, tail_, C) \in Nat
    <3>1. (tail_ + 1) % C # head_ /\ tail_' = (tail_ + 1) % C /\ head_' = head_
      BY <2>1, <2>2 DEF nextIndex
    <3>2. Held(head_, (tail_ + 1) % C, C) = Held(head_, tail_, C) + 1
      BY <1>0, <3>1, TailAdvances
    <3> QED BY <1>0, <3>1, <3>2, TailSlot
  <2>7. /\ Len(accepted') = Len(accepted) + 1
        /\ \A k \in 1..Len(accepted) : accepted'[k] = accepted[k]
        /\ accepted'[Len(accepted) + 1] = data_[tail_]
        /\ Len(accepted) \in Nat /\ Len(delivered) \in Nat
    BY <1>0, <2>1, <2>2 DEF TypeOK
  <2>8. Ledger'
    <3>1. \A k \in 1..Len(delivered) : accepted'[k] = delivered[k]
      BY <1>0, <2>6, <2>7 DEF Ledger
    <3>2. ASSUME NEW k \in 1..(Held(head_, tail_, C) + 1)
          PROVE  accepted'[Len(delivered) + k] = data_[Slot(head_, k, C)]
      <4>1. CASE k = Held(head_, tail_, C) + 1
        <5>1. Slot(head_, k, C) = tail_
          BY <1>0, <4>1, TailSlot
        <5>2. Len(delivered) + k = Len(accepted) + 1
          BY <1>0, <2>6, <2>7, <4>1 DEF Ledger
        <5> QED BY <2>7, <5>1, <5>2
      <4>2. CASE k \in 1..Held(head_, tail_, C)
        BY <1>0, <2>6, <2>7, <4>2 DEF Ledger
      <4> QED BY <2>6, <4>1, <4>2
    <3>3. Len(accepted') = Len(delivered) + (Held(head_, tail_, C) + 1)
      BY <1>0, <2>6, <2>7 DEF Ledger
    <3>4. /\ head_' = head_ /\ delivered' = delivered /\ data_' = data_
          /\ Held(head_', tail_', Capacity) = Held(head_, tail_, C) + 1
      BY <2>2, <2>6
    <3> QED BY <3>1, <3>2, <3>3, <3>4 DEF Ledger
  <2> QED BY <2>3, <2>4, <2>5, <2>8 DEF IInv
<1> QED BY <1>1, <1>2, <1>3, <1>4, <1>5 DEF ProducerStep

LEMMA ConsumerPreserves ==
    ASSUME NEW p, NEW c, Producers = {p}, Consumers = {c}, IInv(p, c), ConsumerStep(c)
    PROVE  IInv(p, c)'
<1> DEFINE C == Capacity
<1>0. /\ p # c /\ Thread = {p, c} /\ C \in Nat \ {0} /\ Slots = 0..(C - 1)
      /\ TypeOK /\ ProducerKnows(p) /\ ConsumerKnows(c) /\ Ledger
      /\ pc[p] \in ProducerPlaces /\ pc[c] \in ConsumerPlaces
      /\ head_ \in Slots /\ tail_ \in Slots /\ nextIndex(head_) \in Slots
  BY CapacityAssumption, ThreadsAssumption, NextValue
     DEF IInv, Thread, Slots, TypeOK, ProducerKnows, ConsumerKnows, nextIndex
<1>1. CASE EmptyLoadFirst(c)
  <2>1. TypeOK'
    BY <1>0, <1>1 DEF EmptyLoadFirst, Goto, TypeOK
  <2>2. ConsumerKnows(c)'
    BY <1>0, <1>1 DEF EmptyLoadFirst, Goto, TypeOK, ConsumerKnows, ConsumerPlaces
  <2>3. ProducerKnows(p)' /\ Ledger'
    BY <1>0, <1>1 DEF EmptyLoadFirst, Goto, TypeOK, ProducerKnows, Ledger, nextIndex
  <2> QED BY <2>1, <2>2, <2>3 DEF IInv
<1>2. CASE EmptyLoadSecond(c)
  <2>1. /\ calls' \in [Thread -> 0..Calls] /\ calls'[p] = calls[p]
        /\ pc' \in [Thread -> ProducerPlaces \cup ConsumerPlaces]
        /\ pc'[p] = pc[p] /\ pc'[c] \in {"is_empty", "dequeue"}
    BY <1>0, <1>2, CallsAssumption
       DEF EmptyLoadSecond, EmptySeen, Failed, Goto, TypeOK, ConsumerKnows,
           ProducerPlaces, ConsumerPlaces
  <2>2. TypeOK'
    BY <1>0, <1>2, <2>1 DEF EmptyLoadSecond, TypeOK, ProducerPlaces, ConsumerPlaces
  <2>3. ConsumerKnows(c)'
    <3>1. CASE pc'[c] = "is_empty"
      BY <3>1 DEF ConsumerKnows, ConsumerPlaces
    <3>2. CASE pc'[c] = "dequeue"
      <4>1. /\ \/ loaded[c] # tail_ /\ pc[c] = "empty_tail"
               \/ loaded[c] # head_ /\ pc[c] = "empty_head"
            /\ calls' = calls
        BY <1>0, <1>2, <3>2 DEF EmptyLoadSecond, EmptySeen, Failed, Goto, TypeOK
      <4>2. head_ # tail_ /\ calls[c] < Calls
        BY <1>0, <4>1 DEF ConsumerKnows
      <4>3. head_' = head_ /\ tail_' = tail_
        BY <1>2 DEF EmptyLoadSecond
      <4> QED BY <3>2, <4>1, <4>2, <4>3 DEF ConsumerKnows, ConsumerPlaces
    <3> QED BY <2>1, <3>1, <3>2
  <2>4. ProducerKnows(p)' /\ Ledger'
    BY <1>0, <1>2, <2>1 DEF EmptyLoadSecond, ProducerKnows, Ledger, nextIndex
  <2> QED BY <2>2, <2>3, <2>4 DEF IInv
<1>3. CASE LoadHead(c)
  <2>1. TypeOK'
    BY <1>0, <1>3 DEF LoadHead, Goto, TypeOK
  <2>2. ConsumerKnows(c)'
    BY <1>0, <1>3 DEF LoadHead, Goto, TypeOK, ConsumerKnows, ConsumerPlaces
  <2>3. ProducerKnows(p)' /\ Ledger'
    BY <1>0, <1>3 DEF LoadHead, Goto, TypeOK, ProducerKnows, Ledger, nextIndex
  <2> QED BY <2>1, <2>2, <2>3 DEF IInv
<1>4. CASE TakeData(c)
  <2>1. TypeOK'
    BY <1>0, <1>4 DEF TakeData, Goto, TypeOK
  <2>2. ConsumerKnows(c)'
    BY <1>0, <1>4 DEF TakeData, Goto, TypeOK, ConsumerKnows, ConsumerPlaces
  <2>3. ProducerKnows(p)' /\ Ledger'
    BY <1>0, <1>4 DEF TakeData, Goto, TypeOK, ProducerKnows, Ledger, nextIndex
  <2> QED BY <2>1, <2>2, <2>3 DEF IInv
<1>5. CASE ReleaseHead(c)
  <2>1. /\ currentHead[c] = head_ /\ calls[c] < Calls /\ head_ # tail_
        /\ item[c] = data_[head_] /\ calls[c] \in 0..Calls
        /\ data_[head_] \in Item \cup {Empty}
    BY <1>0, <1>5 DEF ReleaseHead, ConsumerKnows, TypeOK
  <2>2. /\ head_' = nextIndex(head_) /\ delivered' = Append(delivered, data_[head_])
        /\ calls' = [calls EXCEPT ![c] = @ + 1]
        /\ pc' = [pc EXCEPT ![c] = "is_empty"]
        /\ pc'[c] = "is_empty" /\ pc'[p] = pc[p] /\ calls'[p] = calls[p]
        /\ UNCHANGED <<tail_, data_, currentTail, fullTail, loaded,
                       currentHead, item, accepted>>
    BY <1>0, <1>5, <2>1 DEF ReleaseHead, Goto, TypeOK
  <2>3. TypeOK'
    <3>1. delivered' \in Seq(Item \cup {Empty})
      BY <2>1, <2>2, <1>0 DEF TypeOK
    <3>2. calls' \in [Thread -> 0..Calls]
      BY <1>0, <2>1, <2>2, CallsAssumption DEF TypeOK
    <3> QED BY <1>0, <2>2, <3>1, <3>2 DEF TypeOK
  <2>4. ConsumerKnows(c)'
    BY <2>2 DEF ConsumerKnows, ConsumerPlaces
  <2>5. ProducerKnows(p)'
    <3>1. nextIndex(tail_) # nextIndex(head_)
      BY <1>0, <2>1, NextInjective DEF nextIndex
    <3>2. nextIndex(tail_)' = nextIndex(tail_)
      BY <2>2 DEF nextIndex
    <3> QED BY <1>0, <2>2, <3>1, <3>2 DEF ProducerKnows
  <2>6. /\ Held(head_', tail_', C) = Held(head_, tail_, C) - 1
        /\ Held(head_, tail_, C) \in 1..(C - 1)
    <3>1. head_' = (head_ + 1) % C /\ tail_' = tail_
      BY <2>2 DEF nextIndex
    <3>2. Held((head_ + 1) % C, tail_, C) = Held(head_, tail_, C) - 1
      BY <1>0, <2>1, HeadAdvances
    <3>3. Held(head_, tail_, C) \in 0..(C - 1) /\ Held(head_, tail_, C) # 0
      BY <1>0, <2>1, TailSlot, HeldNothing
    <3> QED BY <1>0, <3>1, <3>2, <3>3
  <2>7. /\ Len(delivered') = Len(delivered) + 1
        /\ \A k \in 1..Len(delivered) : delivered'[k] = delivered[k]
        /\ delivered'[Len(delivered) + 1] = data_[head_]
        /\ Len(delivered) \in Nat
    BY <1>0, <2>1, <2>2 DEF TypeOK
  <2>8. Ledger'
    <3>1. Len(accepted) = Len(delivered') + Held(head_', tail_', C)
      BY <1>0, <2>6, <2>7 DEF Ledger
    <3>2. accepted[Len(delivered) + 1] = data_[head_]
      <4>1. 1 \in 1..Held(head_, tail_, C) /\ Slot(head_, 1, C) = head_
        BY <1>0, <2>6, HeadSlot
      <4> QED BY <1>0, <4>1 DEF Ledger
    <3>3. ASSUME NEW k \in 1..Len(delivered') PROVE accepted[k] = delivered'[k]
      <4>1. CASE k = Len(delivered) + 1
        BY <2>7, <3>2, <4>1
      <4>2. CASE k \in 1..Len(delivered)
        BY <1>0, <2>7, <4>2 DEF Ledger
      <4> QED BY <2>7, <4>1, <4>2
    <3>4. ASSUME NEW k \in 1..Held(head_', tail_', C)
          PROVE  accepted[Len(delivered') + k] = data_[Slot(head_', k, C)]
      <4>1. k + 1 \in 1..Held(head_, tail_, C) /\ k \in 1..(C - 1)
        BY <1>0, <2>6
      <4>2. Slot(head_', k, C) = Slot(head_, k + 1, C)
        BY <1>0, <2>2, <4>1, HeadSlot DEF nextIndex
      <4>3. Len(delivered') + k = Len(delivered) + (k + 1)
        BY <2>7
      <4> QED BY <1>0, <4>1, <4>2, <4>3 DEF Ledger
    <3>5. accepted' = accepted /\ data_' = data_
      BY <2>2
    <3> QED BY <3>1, <3>3, <3>4, <3>5 DEF Ledger
  <2> QED BY <2>3, <2>4, <2>5, <2>8 DEF IInv
<1> QED BY <1>1, <1>2, <1>3, <1>4, <1>5 DEF ConsumerStep
-----------------------------------------------------------------------------
(* The theorems. *)

LEMMA StepIInv ==
    ASSUME NEW p, NEW c, Producers = {p}, Consumers = {c}
    PROVE  IInv(p, c) /\ [Next]_vars => IInv(p, c)'
<1> SUFFICES ASSUME IInv(p, c), [Next]_vars PROVE IInv(p, c)'
  OBVIOUS
<1>1. CASE UNCHANGED vars
  BY <1>1 DEF IInv, vars, TypeOK, ProducerKnows, ConsumerKnows, Ledger, nextIndex
<1> QED BY <1>1, ProducerPreserves, ConsumerPreserves DEF Next

LEMMA Invariance ==
    ASSUME NEW p, NEW c, Producers = {p}, Consumers = {c}
    PROVE  Spec => []IInv(p, c)
<1>1. Init => IInv(p, c)
  BY InitIInv
<1>2. IInv(p, c) /\ [Next]_vars => IInv(p, c)'
  BY StepIInv
<1> QED BY <1>1, <1>2, PTL DEF Spec

\* Both indices and all their copies stay inside the ring.
THEOREM SPSCTypeCorrect ==
    ASSUME NEW p, NEW c, Producers = {p}, Consumers = {c}
    PROVE  Spec => []TypeOK
<1>1. IInv(p, c) => TypeOK
  BY DEF IInv
<1> QED BY <1>1, Invariance, PTL

\* Size and Contents in the terms of the proofs.
LEMMA ContentsValue ==
    ASSUME TypeOK
    PROVE  /\ Size = Held(head_, tail_, Capacity) /\ Size \in 0..(Capacity - 1)
           /\ Contents \in Seq(Item \cup {Empty}) /\ Len(Contents) = Size
           /\ \A k \in 1..Size : Contents[k] = data_[Slot(head_, k, Capacity)]
<1>1. Size = Held(head_, tail_, Capacity) /\ Size \in 0..(Capacity - 1)
  BY CapacityAssumption, TailSlot DEF Size, Held, TypeOK, Slots
<1>2. \A k \in 1..Size : data_[Slot(head_, k, Capacity)] \in Item \cup {Empty}
  BY <1>1, CapacityAssumption, TailSlot DEF TypeOK, Slots
<1> QED BY <1>1, <1>2 DEF Contents, Slot

\* With one thread on each side nothing is lost, duplicated, reordered or made
\* up, whatever the capacity and the interleaving.
THEOREM SPSCLedgerBalances ==
    ASSUME NEW p, NEW c, Producers = {p}, Consumers = {c}
    PROVE  Spec => []LedgerBalances
<1>1. IInv(p, c) => LedgerBalances
  <2> SUFFICES ASSUME IInv(p, c) PROVE accepted = delivered \o Contents
    BY DEF LedgerBalances
  <2>1. /\ TypeOK /\ Ledger /\ accepted \in Seq(Item)
        /\ delivered \in Seq(Item \cup {Empty})
    BY DEF IInv, TypeOK
  <2>2. Len(accepted) = Len(delivered) + Len(Contents)
    BY <2>1, ContentsValue DEF Ledger
  <2>3. \A k \in 1..Len(delivered) : accepted[k] = delivered[k]
    BY <2>1 DEF Ledger
  <2>4. \A k \in 1..Len(Contents) : accepted[Len(delivered) + k] = Contents[k]
    BY <2>1, ContentsValue DEF Ledger
  <2>5. /\ accepted \in Seq(Item \cup {Empty})
        /\ delivered \o Contents \in Seq(Item \cup {Empty})
        /\ Len(delivered \o Contents) = Len(accepted)
    BY <2>1, <2>2, ContentsValue
  <2>6. ASSUME NEW k \in 1..Len(accepted)
        PROVE  accepted[k] = (delivered \o Contents)[k]
    <3>1. CASE k \in 1..Len(delivered)
      BY <2>1, <2>3, <3>1, ContentsValue
    <3>2. CASE k \notin 1..Len(delivered)
      <4>1. k - Len(delivered) \in 1..Len(Contents)
        BY <2>1, <2>2, <3>2, ContentsValue
      <4>2. (delivered \o Contents)[k] = Contents[k - Len(delivered)]
        BY <2>1, <3>2, <4>1, ContentsValue
      <4> QED BY <2>1, <2>4, <4>1, <4>2
    <3> QED BY <3>1, <3>2
  <2> QED BY <2>5, <2>6, SeqEqual
<1> QED BY <1>1, Invariance, PTL

\* With one thread on each side no slot is stored to while it is read.
THEOREM SPSCNoDataRace ==
    ASSUME NEW p, NEW c, Producers = {p}, Consumers = {c}
    PROVE  Spec => []NoDataRace
<1>1. IInv(p, c) => NoDataRace
  BY DEF IInv, NoDataRace, ProducerKnows, ConsumerKnows, Thread,
         ProducerPlaces, ConsumerPlaces
<1> QED BY <1>1, Invariance, PTL

\* With one producer an enqueue that fails found Capacity - 1 items.
THEOREM SPSCRejectsOnlyWhenFull ==
    ASSUME NEW p, NEW c, Producers = {p}, Consumers = {c}
    PROVE  Spec => RejectsOnlyWhenFull
<1>1. IInv(p, c) /\ [Next]_vars => [RejectStep]_vars
  <2> SUFFICES ASSUME IInv(p, c), [Next]_vars,
                      pc[p] = "full_head", pc'[p] = "enqueue"
               PROVE  Size = Capacity - 1
    BY DEF RejectStep
  <2>1. /\ TypeOK /\ p # c /\ p \in Thread /\ head_ \in 0..(Capacity - 1) /\ tail_ \in 0..(Capacity - 1)
        /\ fullTail[p] = tail_ /\ pc[c] \in ConsumerPlaces
    BY ThreadsAssumption DEF IInv, TypeOK, Slots, ProducerKnows, ConsumerKnows, Thread
  <2>2. FullLoadHead(p)
    <3>1. ASSUME ConsumerStep(c) PROVE pc'[p] = pc[p]
      <4>1. CASE EmptyLoadFirst(c)
        BY <2>1, <4>1 DEF EmptyLoadFirst, Goto, TypeOK
      <4>2. CASE EmptyLoadSecond(c)
        BY <2>1, <4>2 DEF EmptyLoadSecond, EmptySeen, Failed, Goto, TypeOK
      <4>3. CASE LoadHead(c) \/ TakeData(c) \/ ReleaseHead(c)
        BY <2>1, <4>3 DEF LoadHead, TakeData, ReleaseHead, Goto, TypeOK
      <4> QED BY <3>1, <4>1, <4>2, <4>3 DEF ConsumerStep
    <3> QED BY <3>1 DEF Next, vars, ProducerStep, LoadTail, FullLoadTail,
                        StoreData, PublishTail
  <2>3. nextIndex(tail_) = head_
    BY <2>1, <2>2 DEF FullLoadHead, Full, Goto, TypeOK, Thread
  <2>4. Held(head_, tail_, Capacity) = IF head_ <= tail_ THEN tail_ - head_
                                       ELSE tail_ - head_ + Capacity
    BY <2>1, CapacityAssumption, HeldValue
  <2>5. (tail_ + 1) % Capacity = IF tail_ + 1 < Capacity THEN tail_ + 1 ELSE 0
    BY <2>1, CapacityAssumption, NextValue
  <2> QED BY <2>1, <2>3, <2>4, <2>5, CapacityAssumption, ContentsValue DEF nextIndex
<1> QED BY <1>1, Invariance, PTL DEF Spec, RejectsOnlyWhenFull
-----------------------------------------------------------------------------
(* Refinement of BoundedFIFO. *)

\* What the ring holds is the part of accepted not yet delivered.
LEMMA ContentsIsSuffix ==
    ASSUME TypeOK, Ledger
    PROVE  /\ Len(accepted) \in Nat /\ Len(delivered) \in Nat
           /\ Len(delivered) <= Len(accepted)
           /\ Len(accepted) - Len(delivered) <= Capacity - 1
           /\ Contents = [k \in 1..(Len(accepted) - Len(delivered)) |->
                                accepted[Len(delivered) + k]]
<1>1. /\ Len(accepted) = Len(delivered) + Size /\ Size \in 0..(Capacity - 1)
      /\ Len(accepted) \in Nat /\ Len(delivered) \in Nat
  BY ContentsValue DEF TypeOK, Ledger
<1>2. Size = Len(accepted) - Len(delivered)
  BY <1>1, CapacityAssumption
<1>3. \A k \in 1..Size : data_[(head_ + k - 1) % Capacity] = accepted[Len(delivered) + k]
  BY ContentsValue DEF Ledger, Slot
<1>4. Contents = [k \in 1..Size |-> accepted[Len(delivered) + k]]
  BY <1>3 DEF Contents
<1> QED BY <1>1, <1>2, <1>4, CapacityAssumption

LEMMA StepRefines ==
    ASSUME NEW p, NEW c, Producers = {p}, Consumers = {c},
           IInv(p, c), IInv(p, c)', [Next]_vars
    PROVE  [Queue!Next]_<<Contents, delivered>>
<1>0. /\ TypeOK /\ Ledger /\ TypeOK' /\ Ledger' /\ p # c /\ p \in Thread /\ c \in Thread
      /\ accepted \in Seq(Item) /\ delivered \in Seq(Item \cup {Empty})
  BY ThreadsAssumption DEF IInv, TypeOK, Thread
<1>1. /\ Len(accepted) \in Nat /\ Len(delivered) \in Nat
      /\ Len(delivered) <= Len(accepted)
      /\ Len(accepted) - Len(delivered) <= Capacity - 1
      /\ Contents = [k \in 1..(Len(accepted) - Len(delivered)) |->
                           accepted[Len(delivered) + k]]
  BY <1>0, ContentsIsSuffix
<1>2. /\ Len(accepted') - Len(delivered') <= Capacity - 1
      /\ Len(delivered') <= Len(accepted')
      /\ Contents' = [k \in 1..(Len(accepted') - Len(delivered')) |->
                            accepted'[Len(delivered') + k]]
  <2>1. (TypeOK /\ Ledger) => /\ Len(accepted) - Len(delivered) <= Capacity - 1
                              /\ Len(delivered) <= Len(accepted)
                              /\ Contents = [k \in 1..(Len(accepted) - Len(delivered)) |->
                                                   accepted[Len(delivered) + k]]
    BY ContentsIsSuffix
  <2>2. (TypeOK /\ Ledger)' => (/\ Len(accepted) - Len(delivered) <= Capacity - 1
                                /\ Len(delivered) <= Len(accepted)
                                /\ Contents = [k \in 1..(Len(accepted) - Len(delivered)) |->
                                                     accepted[Len(delivered) + k]])'
    BY ContentsIsSuffix, PTL
  <2> QED BY <1>0, <2>2
<1>3. CASE accepted' = accepted /\ delivered' = delivered
  BY <1>1, <1>2, <1>3
<1>4. CASE PublishTail(p)
  <2>1. PICK x \in Item : accepted' = Append(accepted, x) /\ delivered' = delivered
    <3>1. calls[p] \in 0..Calls /\ calls[p] < Calls
      BY <1>0, <1>4 DEF IInv, TypeOK, PublishTail, ProducerKnows
    <3>2. <<p, calls[p] + 1>> \in Item
      BY <3>1, CallsAssumption DEF Item
    <3> QED BY <1>4, <3>2 DEF PublishTail
  <2>2. /\ Len(accepted') = Len(accepted) + 1 /\ accepted'[Len(accepted) + 1] = x
        /\ \A k \in 1..Len(accepted) : accepted'[k] = accepted[k]
    BY <1>0, <2>1
  <2> DEFINE n == Len(accepted) - Len(delivered)
  <2>3. n \in Nat /\ Len(Contents) = n /\ n < Capacity - 1
    BY <1>1, <1>2, <2>1, <2>2, CapacityAssumption
  <2>4. Contents' = Append(Contents, x)
    <3>1. Contents' = [k \in 1..(n + 1) |-> accepted'[Len(delivered) + k]]
      <4>1. Len(accepted') - Len(delivered') = n + 1 /\ Len(delivered') = Len(delivered)
        BY <1>1, <2>1, <2>2
      <4> QED BY <1>2, <4>1
    <3>2. Append(Contents, x) = [k \in 1..(n + 1) |-> IF k = n + 1 THEN x ELSE Contents[k]]
      BY <1>1, <2>3
    <3>3. ASSUME NEW k \in 1..(n + 1)
          PROVE  accepted'[Len(delivered) + k] = IF k = n + 1 THEN x ELSE Contents[k]
      <4>1. CASE k = n + 1
        BY <1>1, <2>2, <4>1
      <4>2. CASE k \in 1..n
        BY <1>1, <2>2, <2>3, <4>2
      <4> QED BY <2>3, <4>1, <4>2
    <3> QED BY <3>1, <3>2, <3>3
  <2> QED BY <2>1, <2>3, <2>4 DEF Queue!Next, Queue!Put
<1>5. CASE ReleaseHead(c)
  <2>1. /\ accepted' = accepted /\ delivered' = Append(delivered, item[c])
        /\ item[c] \in Item \cup {Empty}
    BY <1>0, <1>5 DEF ReleaseHead, TypeOK
  <2>2. /\ Len(delivered') = Len(delivered) + 1
        /\ delivered'[Len(delivered) + 1] = item[c]
    BY <1>0, <2>1
  <2>3. item[c] = accepted[Len(delivered) + 1]
    BY <1>0, <1>1, <2>1, <2>2 DEF Ledger
  <2> DEFINE n == Len(accepted) - Len(delivered)
  <2>4. n \in Nat \ {0} /\ Len(Contents) = n /\ Contents # <<>>
    BY <1>1, <1>2, <2>1, <2>2
  <2>5. Head(Contents) = item[c]
    BY <1>1, <2>3, <2>4
  <2>6. Contents' = Tail(Contents)
    <3>1. Contents' = [k \in 1..(n - 1) |-> accepted[Len(delivered) + 1 + k]]
      BY <1>1, <1>2, <2>1, <2>2
    <3>2. /\ Contents \in Seq(Item \cup {Empty})
          /\ Tail(Contents) \in Seq(Item \cup {Empty}) /\ Len(Tail(Contents)) = n - 1
          /\ \A k \in 1..(n - 1) : Tail(Contents)[k] = Contents[k + 1]
      <4>1. Contents \in Seq(Item \cup {Empty})
        BY <1>0, ContentsValue
      <4> QED BY <2>4, <4>1, HeadTailProperties
    <3>3. \A k \in 1..(n - 1) : Contents[k + 1] = accepted[Len(delivered) + 1 + k]
      BY <1>1, <2>4
    <3>4. Contents' \in Seq(Item \cup {Empty}) /\ Len(Contents') = n - 1
      <4>1. \A k \in 1..(n - 1) : accepted[Len(delivered) + 1 + k] \in Item
        BY <1>0, <1>1, <2>4
      <4>2. PICK m \in Nat : m = n - 1
        <5>1. n - 1 \in Nat
          BY <1>1, <2>4
        <5> QED BY <5>1
      <4>3. Contents' = [k \in 1..m |-> accepted[Len(delivered) + 1 + k]]
        BY <3>1, <4>2
      <4>4. Contents' \in [1..m -> Item \cup {Empty}]
        BY <4>1, <4>2, <4>3
      <4> QED BY <4>2, <4>4
    <3> QED BY <3>1, <3>2, <3>3, <3>4, SeqEqual
  <2> QED BY <2>1, <2>4, <2>5, <2>6 DEF Queue!Next, Queue!Get
<1>6. \/ accepted' = accepted /\ delivered' = delivered
      \/ PublishTail(p) \/ ReleaseHead(c)
  BY DEF Next, ProducerStep, ConsumerStep, LoadTail, FullLoadTail, FullLoadHead,
         StoreData, EmptyLoadFirst, EmptyLoadSecond, LoadHead, TakeData, vars
<1> QED BY <1>3, <1>4, <1>5, <1>6

\* With one thread on each side the ring is a queue that holds Capacity - 1
\* items and delivers them first in, first out.
THEOREM SPSCImplementsFIFO ==
    ASSUME NEW p, NEW c, Producers = {p}, Consumers = {c}
    PROVE  Spec => FIFOSpec
<1>1. Init => Queue!Init
  <2> SUFFICES ASSUME Init PROVE Queue!Init
    OBVIOUS
  <2>1. IInv(p, c)
    BY InitIInv
  <2>2. Contents = [k \in 1..0 |-> accepted[0 + k]] /\ delivered = <<>>
    BY <2>1, ContentsIsSuffix DEF Init, IInv
  <2> QED BY <2>2 DEF Queue!Init
<1>2. IInv(p, c) /\ IInv(p, c)' /\ [Next]_vars => [Queue!Next]_<<Contents, delivered>>
  BY StepRefines
<1> QED BY <1>1, <1>2, Invariance, PTL DEF Spec, FIFOSpec, Queue!Spec
=============================================================================
