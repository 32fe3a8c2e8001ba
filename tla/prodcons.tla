------------------------------ MODULE prodcons -------------------------------
(***************************************************************************)
(* prodcons.c: a ring of BUFFER_SIZE slots with counting semaphores for    *)
(* its empty and its full slots and a mutex for its indices.  A wait on a  *)
(* semaphore, the section under the mutex and a post are one action each.  *)
(* main starts one thread of each kind; the program is modelled for any    *)
(* number of them.                                                         *)
(***************************************************************************)
EXTENDS Naturals, Sequences, FiniteSets

CONSTANTS Producers, Consumers,
          BUFFER_SIZE,
          Rounds,      \* the bound of the two for loops
          Zero         \* what a slot holds at first

Item == Producers \X (1..Rounds)
Thread == Producers \cup Consumers
Slots == 0..(BUFFER_SIZE - 1)

VARIABLES buffer, in, out,
          empty, full,   \* the values of the semaphores
          pc,            \* where each thread is in its loop
          rounds,        \* how many rounds each thread has done
          accepted,      \* history: the items inserted, in order
          delivered      \* history: the items removed, in order

vars == <<buffer, in, out, empty, full, pc, rounds, accepted, delivered>>
-----------------------------------------------------------------------------
Init == /\ buffer = [s \in Slots |-> Zero]
        /\ in = 0 /\ out = 0
        /\ empty = BUFFER_SIZE /\ full = 0
        /\ pc = [t \in Thread |-> "wait"]
        /\ rounds = [t \in Thread |-> 0]
        /\ accepted = <<>> /\ delivered = <<>>

Goto(t, place) == pc' = [pc EXCEPT ![t] = place]
NextRound(t) == rounds' = [rounds EXCEPT ![t] = @ + 1]

\* The mutation does not wait for an empty slot.
NoWait == UNCHANGED empty
WaitEmpty == empty > 0 /\ empty' = empty - 1

\* The mutation posts the semaphore it waited for.
PostItself == empty' = empty + 1 /\ UNCHANGED full
PostFull == full' = full + 1 /\ UNCHANGED empty
-----------------------------------------------------------------------------
ProducerWait(p) == /\ pc[p] = "wait" /\ rounds[p] < Rounds
                   /\ WaitEmpty
                   /\ Goto(p, "section")
                   /\ UNCHANGED <<buffer, in, out, full, rounds, accepted, delivered>>

Insert(p) == /\ pc[p] = "section"
             /\ buffer' = [buffer EXCEPT ![in] = <<p, rounds[p] + 1>>]
             /\ in' = (in + 1) % BUFFER_SIZE
             /\ accepted' = Append(accepted, <<p, rounds[p] + 1>>)
             /\ Goto(p, "post")
             /\ UNCHANGED <<out, empty, full, rounds, delivered>>

ProducerPost(p) == /\ pc[p] = "post"
                   /\ PostFull
                   /\ Goto(p, "wait") /\ NextRound(p)
                   /\ UNCHANGED <<buffer, in, out, accepted, delivered>>

ConsumerWait(c) == /\ pc[c] = "wait" /\ rounds[c] < Rounds
                   /\ full > 0 /\ full' = full - 1
                   /\ Goto(c, "section")
                   /\ UNCHANGED <<buffer, in, out, empty, rounds, accepted, delivered>>

Remove(c) == /\ pc[c] = "section"
             /\ delivered' = Append(delivered, buffer[out])
             /\ out' = (out + 1) % BUFFER_SIZE
             /\ Goto(c, "post")
             /\ UNCHANGED <<buffer, in, empty, full, rounds, accepted>>

ConsumerPost(c) == /\ pc[c] = "post"
                   /\ empty' = empty + 1
                   /\ Goto(c, "wait") /\ NextRound(c)
                   /\ UNCHANGED <<buffer, in, out, full, accepted, delivered>>
-----------------------------------------------------------------------------
ProducerStep(p) == ProducerWait(p) \/ Insert(p) \/ ProducerPost(p)
ConsumerStep(c) == ConsumerWait(c) \/ Remove(c) \/ ConsumerPost(c)

AllJoined == \A t \in Thread : rounds[t] = Rounds

Next == \/ \E p \in Producers : ProducerStep(p)
        \/ \E c \in Consumers : ConsumerStep(c)
        \/ AllJoined /\ UNCHANGED vars

Spec == Init /\ [][Next]_vars

\* sem_wait may be overtaken, so that a thread in it needs strong fairness.
FairSpec == /\ Spec
            /\ \A p \in Producers : SF_vars(ProducerStep(p))
            /\ \A c \in Consumers : SF_vars(ConsumerStep(c))
-----------------------------------------------------------------------------
TypeOK == /\ buffer \in [Slots -> Item \cup {Zero}]
          /\ in \in Slots /\ out \in Slots
          /\ empty \in 0..BUFFER_SIZE /\ full \in 0..BUFFER_SIZE
          /\ pc \in [Thread -> {"wait", "section", "post"}]
          /\ rounds \in [Thread -> 0..Rounds]
          /\ accepted \in Seq(Item) /\ delivered \in Seq(Item \cup {Zero})

At(threads, place) == Cardinality({t \in threads : pc[t] = place})

\* The semaphores count slots: every slot is free, full, or in the hands of
\* one thread, and what is in the ring is what the semaphores say.
SlotsAccountedFor ==
    /\ empty + full + At(Producers, "section") + At(Producers, "post")
         + At(Consumers, "section") + At(Consumers, "post") = BUFFER_SIZE
    /\ Len(accepted) - Len(delivered)
         = full + At(Producers, "post") + At(Consumers, "section")

\* The ring is a FIFO of BUFFER_SIZE places: no slot is given up to tell full
\* from empty, and none is overwritten before it was read.
Contents == [k \in 1..(Len(accepted) - Len(delivered)) |->
                 buffer[(out + k - 1) % BUFFER_SIZE]]
FIFO == INSTANCE BoundedFIFO WITH Bound <- BUFFER_SIZE, items <- Contents
FIFOSpec == FIFO!Spec

\* With as many producers as consumers main joins its threads.
MainReturns == <>AllJoined
=============================================================================
