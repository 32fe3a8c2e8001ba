-------------------------- MODULE MCSynchronization --------------------------
(***************************************************************************)
(* The objects that threads wait at, for TLC: the four blocking queues     *)
(* (CircularBuffer, the RingBuffer with a mutex, ThreadsafeQueue and       *)
(* prodcons), the clients of the semaphores, ReadersWriters and Spinlock.  *)
(* They share nothing, so that each behaviour is one of a single program,  *)
(* `subject`, while the variables of the others stay as they are.          *)
(***************************************************************************)
EXTENDS CircularBuffer

CONSTANTS Modifiers, Pollers, MoreProducers, size, BUFFER_SIZE, NULL, Garbage, Fresh,
          Workers, Permits, Rounds, Readers, Writers, Spinners, numIncrements

ASSUME ReadersWritersAssumption == /\ IsFiniteSet(Readers) /\ IsFiniteSet(Writers)
                                   /\ Readers \cap Writers = {}
ASSUME RingAssumption == /\ size \in Nat \ {0} /\ Fresh \subseteq {NULL, Garbage}
                         /\ {NULL, Garbage} \cap (Producers \X (1..Calls)) = {}
ASSUME SlotsAssumption == BUFFER_SIZE \in Nat \ {0}
ASSUME QueueAssumption == /\ IsFiniteSet(MoreProducers) /\ Consumers \cap Pollers = {}
                          /\ (Producers \cup MoreProducers) \cap (Consumers \cup Pollers) = {}
ASSUME SemaphoresAssumption == IsFiniteSet(Workers) /\ Permits \in Nat /\ Rounds \in Nat
ASSUME SpinlockAssumption == IsFiniteSet(Spinners) /\ numIncrements \in Nat

VARIABLES subject,
          buffer, head, tail, count, not_full, not_empty, rb_calls,
          i, actualIndex, touched, memory, rb_delivered,
          queue_, cond_var_, tq_calls, moving,
          pc_buffer, in, out, empty, full, pc, rounds, pc_accepted, pc_delivered

Ring == INSTANCE RingBufferMT WITH calls <- rb_calls, delivered <- rb_delivered
Queue == INSTANCE ThreadsafeQueue
           WITH Producers <- Producers \cup MoreProducers, calls <- tq_calls
ProdCons == INSTANCE prodcons
           WITH Rounds <- Calls, buffer <- pc_buffer,
                accepted <- pc_accepted, delivered <- pc_delivered

ring == <<buffer, head, tail, count, not_full, not_empty, rb_calls,
          i, actualIndex, touched, memory, rb_delivered>>
queue == <<queue_, cond_var_, tq_calls, moving>>
prodcons == <<pc_buffer, in, out, empty, full, pc, rounds, pc_accepted, pc_delivered>>
queues == <<vars, ring, queue, prodcons>>

QueuesInit == /\ Init /\ Ring!Init /\ Queue!Init /\ ProdCons!Init
              /\ subject # "RingBuffer" => memory
              /\ subject # "ThreadsafeQueue" => moving = "never"

QueuesNext == \/ /\ subject = "CircularBuffer" /\ Next
                 /\ UNCHANGED <<ring, queue, prodcons>>
              \/ /\ subject = "RingBuffer" /\ Ring!Next
                 /\ UNCHANGED <<vars, queue, prodcons>>
              \/ /\ subject = "ThreadsafeQueue" /\ Queue!Next
                 /\ UNCHANGED <<vars, ring, prodcons>>
              \/ /\ subject = "prodcons" /\ ProdCons!Next
                 /\ UNCHANGED <<vars, ring, queue>>

\* Each queue's own fairness, of the behaviours it is the subject of.
QueuesFairness ==
    /\ \A p \in Producers :
          /\ WF_vars(subject = "CircularBuffer" /\ PutStep(p))
          /\ WF_ring(subject = "RingBuffer" /\ Ring!ProducerStep(p))
          /\ SF_prodcons(subject = "prodcons" /\ ProdCons!ProducerStep(p))
    /\ \A p \in Producers \cup MoreProducers :
          WF_queue(subject = "ThreadsafeQueue" /\ Queue!enqueue(p))
    /\ \A c \in Consumers :
          /\ WF_vars(subject = "CircularBuffer" /\ GetStep(c))
          /\ WF_ring(subject = "RingBuffer" /\ Ring!ConsumerStep(c))
          /\ WF_queue(subject = "ThreadsafeQueue" /\ Queue!ConsumerStep(c))
          /\ SF_prodcons(subject = "prodcons" /\ ProdCons!ConsumerStep(c))
    /\ \A m \in Modifiers : WF_ring(subject = "RingBuffer" /\ Ring!ModifierStep(m))
    /\ \A t \in Pollers : WF_queue(subject = "ThreadsafeQueue" /\ Queue!try_dequeue(t))
-----------------------------------------------------------------------------
(* The clients of the semaphores, ReadersWriters and Spinlock. *)

VARIABLES client, sem_count, cv, sem_at, sem_rounds, sem_buffer, printed,
          readers_count, writer_active, readers_condition, writer_condition, rw_at,
          lockFlag, counter, expected, loaded, sp_at, sp_i

Clients == INSTANCE Semaphores
             WITH count <- sem_count, at <- sem_at, rounds <- sem_rounds, buffer <- sem_buffer
RW == INSTANCE ReadersWriters WITH at <- rw_at
Spin == INSTANCE Spinlock WITH Thread <- Spinners, at <- sp_at, i <- sp_i

clients == <<client, sem_count, cv, sem_at, sem_rounds, sem_buffer, printed>>
rw == <<readers_count, writer_active, readers_condition, writer_condition, rw_at>>
spin == <<lockFlag, counter, expected, loaded, sp_at, sp_i>>
all == <<subject, queues, clients, rw, spin>>

MCInit == /\ subject \in {"CircularBuffer", "RingBuffer", "ThreadsafeQueue", "prodcons",
                          "semaphores", "ReadersWriters", "Spinlock"}
          /\ QueuesInit
          /\ Clients!Init(IF subject = "semaphores" THEN {"cs", "ioe", "pc", "pool"} ELSE {"cs"})
          /\ RW!Init /\ Spin!Init

MCNext == /\ UNCHANGED subject
          /\ \/ QueuesNext /\ UNCHANGED <<clients, rw, spin>>
             \/ subject = "semaphores" /\ Clients!Next /\ UNCHANGED <<queues, rw, spin>>
             \/ subject = "ReadersWriters" /\ RW!Next /\ UNCHANGED <<queues, clients, spin>>
             \/ subject = "Spinlock" /\ Spin!Next /\ UNCHANGED <<queues, clients, rw>>

\* A thread that is awake gets the mutex, or the processor, at last; nobody
\* wakes by itself.
MCFairness ==
    /\ QueuesFairness
    /\ \A t \in Workers \cup {"first", "second", "third"} :
          WF_clients(subject = "semaphores" /\ t \in Clients!Thread /\ Clients!Step(t))
    /\ \A r \in Readers : WF_rw(subject = "ReadersWriters" /\ RW!ReaderStep(r))
    /\ \A w \in Writers : WF_rw(subject = "ReadersWriters" /\ RW!WriterStep(w))
    /\ \A t \in Spinners : WF_spin(subject = "Spinlock" /\ Spin!incrementCounter(t))

MCSpec == MCInit /\ [][MCNext]_all /\ MCFairness
-----------------------------------------------------------------------------
\* Every variable of the four queues keeps its type.
QueuesTypeOK == TypeOK /\ Ring!TypeOK /\ Queue!TypeOK /\ ProdCons!TypeOK

\* No signal of the RingBuffer or of ThreadsafeQueue is wasted, and the
\* semaphores of prodcons account for every slot.
SleepersAreCovered == /\ Ring!NobodyMissed /\ Queue!NoConsumerMissed
                      /\ ProdCons!SlotsAccountedFor

\* The RingBuffer and prodcons are FIFO queues.
QueuesFIFOSpec == Ring!FIFOSpec /\ ProdCons!FIFOSpec

\* A late modifyData of the RingBuffer never writes to a node that a consumer
\* owns, and cleanupRingBuffer finds every slot cleared.
RingKeepsToItsNodes == Ring!ModifiesNodesInRing /\ []Ring!CleanupFreesNothing

\* The threads of every queue's client return.
QueuesReturn == /\ subject = "CircularBuffer" ~> AllReturned
                /\ subject = "RingBuffer" /\ memory ~> Ring!AllJoined
                /\ subject = "ThreadsafeQueue" /\ moving = "never" ~> Queue!AllReturned
                /\ subject = "prodcons" ~> ProdCons!AllJoined

\* Every variable keeps its type.
SynchronizationTypeOK == QueuesTypeOK /\ Clients!TypeOK /\ RW!TypeOK /\ Spin!TypeOK

\* A writer of ReadersWriters is alone inside, and the Spinlock's critical
\* sections exclude each other, so that no increment is lost.
MutualExclusion == RW!WritersAlone /\ Spin!NoLostUpdate

\* Nobody who sleeps in a queue, on a semaphore or in ReadersWriters is forgotten.
NobodyForgotten == SleepersAreCovered /\ Clients!NobodyMissed /\ RW!SomebodyWillTell

\* A semaphore's permits are neither made nor lost, and its clients do what they wait
\* for: first, second and third print in this order, and pc_binsema's consumer pops
\* from no empty queue.
ClientsInOrder == Clients!PermitsConserved /\ Clients!PrintsInOrder /\ Clients!PopsAnItem

\* The threads of every program return, pc_binsema's consumer excepted.
AllReturn == /\ QueuesReturn
             /\ subject = "semaphores" /\ client # "pc" ~> Clients!AllJoined
             /\ subject = "ReadersWriters" ~> RW!AllJoined
             /\ subject = "Spinlock" ~> Spin!AllJoined
=============================================================================
