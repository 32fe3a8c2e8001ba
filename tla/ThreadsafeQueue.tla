--------------------------- MODULE ThreadsafeQueue ---------------------------
(***************************************************************************)
(* ThreadsafeQueue of threadsafe_queue.cpp: an unbounded queue with a      *)
(* mutex and a condition variable.  A call that holds the mutex throughout *)
(* is one action; the move constructor takes the mutex of the object it    *)
(* makes, not of the one it empties, and so is two actions.                *)
(***************************************************************************)
EXTENDS Naturals, FiniteSets, CondVar

CONSTANTS Producers,   \* the threads that call enqueue
          Consumers,   \* the threads that call dequeue
          Pollers,     \* the threads that call try_dequeue
          Calls        \* how many items each of them puts or gets

Thread == Producers \cup Consumers \cup Pollers

VARIABLES queue_,      \* how many items it holds: no property tells them apart
          cond_var_,   \* the threads asleep in dequeue
          calls,       \* how many calls of each thread have returned
          moving       \* where the move constructor is that takes this queue

vars == <<queue_, cond_var_, calls, moving>>
-----------------------------------------------------------------------------
Init == /\ queue_ = 0 /\ cond_var_ = {}
        /\ calls = [t \in Thread |-> 0]
        /\ moving \in {"never", "begin"}

\* The mutation signals only a queue that was empty.
TellFirst == IF queue_ = 0 THEN cond_var_' \in NotifyOne(cond_var_)
             ELSE UNCHANGED cond_var_
Signal == cond_var_' \in NotifyOne(cond_var_)

\* The consumers that may run; the mutation calls once too often.
OneRoundMore == {c \in Consumers \ cond_var_ : calls[c] <= Calls}
Awake == {c \in Consumers \ cond_var_ : calls[c] < Calls}
Returns(t) == calls' = [calls EXCEPT ![t] = @ + 1]
-----------------------------------------------------------------------------
enqueue(p) == /\ calls[p] < Calls
              /\ queue_' = queue_ + 1
              /\ Signal
              /\ Returns(p)
              /\ UNCHANGED <<moving>>

\* The client calls again when the answer was FALSE.
try_dequeue(t) == /\ calls[t] < Calls
                  /\ \/ queue_ > 0 /\ queue_' = queue_ - 1 /\ Returns(t)
                     \/ queue_ = 0 /\ UNCHANGED <<queue_, calls>>
                  /\ UNCHANGED <<cond_var_, moving>>

dequeue(c) == /\ c \in Awake
              /\ queue_ > 0
              /\ queue_' = queue_ - 1
              /\ Returns(c)
              /\ UNCHANGED <<cond_var_, moving>>

DequeueWaits(c) == /\ c \in Awake
                   /\ queue_ = 0
                   /\ cond_var_' = cond_var_ \cup {c}
                   /\ UNCHANGED <<queue_, calls, moving>>

WakeSpuriously == /\ cond_var_' \in WakeOne(cond_var_)
                  /\ UNCHANGED <<queue_, calls, moving>>

\* The move takes what other.queue_ holds and leaves it empty, in two steps
\* between which the threads that use other go on.
MoveTakes == /\ moving = "begin" /\ moving' = "halfway"
             /\ UNCHANGED <<queue_, cond_var_, calls>>

MoveEmpties == /\ moving = "halfway" /\ moving' = "done"
               /\ queue_' = 0
               /\ UNCHANGED <<cond_var_, calls>>
-----------------------------------------------------------------------------
ConsumerStep(c) == dequeue(c) \/ DequeueWaits(c)

AllReturned == \A t \in Thread : calls[t] = Calls

Next == \/ \E p \in Producers : enqueue(p)
        \/ \E c \in Consumers : ConsumerStep(c)
        \/ \E t \in Pollers : try_dequeue(t)
        \/ WakeSpuriously
        \/ MoveTakes \/ MoveEmpties
        \/ AllReturned /\ UNCHANGED vars

Spec == Init /\ [][Next]_vars

\* A thread that is awake gets the mutex at last; nobody wakes by itself.
FairSpec == /\ Spec
            /\ \A p \in Producers : WF_vars(enqueue(p))
            /\ \A c \in Consumers : WF_vars(ConsumerStep(c))
            /\ \A t \in Pollers : WF_vars(try_dequeue(t))
-----------------------------------------------------------------------------
TypeOK == /\ queue_ \in 0..(Cardinality(Producers) * Calls)
          /\ cond_var_ \in SUBSET Consumers
          /\ calls \in [Thread -> 0..Calls]
          /\ moving \in {"never", "begin", "halfway", "done"}

\* While a consumer sleeps, an awake consumer is left for every item.
NoConsumerMissed == cond_var_ # {} => queue_ <= Cardinality(Awake)

\* The threads are joined when the queue stays where it is: no dequeue waits
\* for ever.
MainReturns == moving = "never" ~> AllReturned
=============================================================================
