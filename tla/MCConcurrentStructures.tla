----------------------- MODULE MCConcurrentStructures ------------------------
(***************************************************************************)
(* The concurrent structures without a blocking queue for TLC: the tree    *)
(* with a mutex per node, the lock-free stack and queue, the lists with    *)
(* one mutex and the lock-free lists.  They share nothing, so that each    *)
(* behaviour is one of a single structure, chosen by `subject`, while the  *)
(* variables of the others stay as they are.                               *)
(***************************************************************************)
EXTENDS FineGrainedBST

CONSTANTS Pushers, Poppers, Pushes, Pops,
          QueuePrograms,                             \* of LockFreeQueue
          Removers, Rounds, Address,
          ListInserters, ListRemovers, Operations,   \* of MutexLists
          SortedPrograms, First, Last,               \* of NonBlockingLinkedList
          MaxCalls,                                  \* of both
          Owners, ListPushers, Cells                 \* of LockFreeListsC

VARIABLES subject,
          top, stack_node, stack_heap, stack_pc, stack_calls, stack_new, oldTop, newTop, answer,
          stale, aba,
          head, tail, queue_node, queue_heap, q_program, q_at, queue_pc, queue_new,
          headNode, tailNode, queue_next, delivered, q_stale, misled,
          list_head, next, freed, pointer, list_pc, round, expectedHead, prev, list_current,
          successor, deleted, inserted, removed,
          kind, m_program, m_at, list, cv, missed,
          s_next, s_program, s_at, s_pc, left, right, after, s_keys, seen, misfits,
          marks, c_head, c_node, c_heap, c_pc, c_round, c_new, c_oldHead, c_prev, curr, succ,
          found, c_inserted, c_removed

Stack == INSTANCE WaitFreeStack
           WITH node <- stack_node, heap <- stack_heap, pc <- stack_pc, calls <- stack_calls,
                newNode <- stack_new
Queue == INSTANCE LockFreeQueue
           WITH Thread <- Caller, Programs <- QueuePrograms, node <- queue_node,
                heap <- queue_heap, program <- q_program, at <- q_at, pc <- queue_pc,
                newNode <- queue_new, next <- queue_next, stale <- q_stale
List == INSTANCE LockFreeLinkedList
           WITH Thread <- Removers, head <- list_head, pc <- list_pc, current <- list_current

Mutex == INSTANCE MutexLists
           WITH Inserters <- ListInserters, Removers <- ListRemovers,
                program <- m_program, at <- m_at
InC == INSTANCE LockFreeListsC
           WITH Inserters <- ListPushers, Address <- Cells, head <- c_head, node <- c_node,
                heap <- c_heap, pc <- c_pc, round <- c_round, newNode <- c_new,
                oldHead <- c_oldHead, prev <- c_prev, inserted <- c_inserted,
                removed <- c_removed

Sorted == INSTANCE NonBlockingLinkedList
            WITH Thread <- Caller, Programs <- SortedPrograms, next <- s_next,
                 program <- s_program, at <- s_at, pc <- s_pc, keys <- s_keys

\* No item and no node is NULL, and no thread plays two parts.
ASSUME NamesAssumption ==
    /\ NULL \notin Address \cup Cells \cup Caller \cup Node
    /\ NULL \notin (Removers \X (1..Rounds)) \cup (Caller \X (1..MaxCalls))
    /\ Pushers \cap Poppers = {} /\ Owners \cap ListPushers = {}
    /\ Last \notin (Caller \X (1..MaxCalls)) \cup {First} /\ First \notin Caller \X (1..MaxCalls)

ASSUME SizesAssumption ==
    /\ Pushes \in [Pushers -> Nat] /\ Pops \in [Poppers -> Nat]
    /\ Rounds \in Nat /\ Operations \in Nat /\ MaxNodes \in Nat /\ MaxCalls \in Nat
    /\ IsFiniteSet(Caller) /\ IsFiniteSet(ListInserters \cup ListRemovers)
    /\ IsFiniteSet(Address) /\ IsFiniteSet(Cells) /\ Address # {}

\* The threads of the tree and of the sorted list run what does no harm to others.
ASSUME ProgramsAssumption == /\ \A p \in Programs : Orderly(p)
                             /\ \A p \in SortedPrograms : Sorted!Orderly(p)

\* The threads of the queue may run any calls.
ASSUME QueueAssumption ==
    \A p \in QueuePrograms : /\ DOMAIN p = Caller
                             /\ \A t \in Caller : /\ p[t] \in Seq({"enqueue", "dequeue"})
                                                  /\ Len(p[t]) <= MaxCalls

\* One thread at most deletes from the lists in C.
OneOwner == \A t, u \in Owners : t = u
-----------------------------------------------------------------------------
stack_vars == <<top, stack_node, stack_heap, stack_pc, stack_calls, stack_new, oldTop, newTop, answer,
                stale, aba>>
queue_vars == <<head, tail, queue_node, queue_heap, q_program, q_at, queue_pc, queue_new,
                headNode, tailNode, queue_next, delivered, q_stale, misled>>
list_vars == <<list_head, next, freed, pointer, list_pc, round, expectedHead, prev, list_current,
               successor, deleted, inserted, removed>>
mutex_vars == <<kind, m_program, m_at, list, cv, missed>>
sorted_vars == <<s_next, s_program, s_at, s_pc, left, right, after, s_keys, seen, misfits>>
c_vars == <<marks, c_head, c_node, c_heap, c_pc, c_round, c_new, c_oldHead, c_prev, curr, succ,
            found, c_inserted, c_removed>>
lists == <<mutex_vars, sorted_vars, c_vars>>
structures == <<vars, stack_vars, queue_vars, list_vars>>
all == <<subject, structures, lists>>
-----------------------------------------------------------------------------
(* What the threads of the tree may run. *)

Ins(k) == <<"insert", k>>
Del(k) == <<"delete", k>>
Find(k) == <<"search", k>>
Join == <<"join", 0>>

\* fgl_bst_test2.c: threads that insert values of their own, and one that
\* deletes values which nobody inserts; the inserters then search for theirs.
InsertersAndDeleter ==
    {[t \in Caller |-> CASE t = 0 -> <<Ins(2), Ins(4), Find(2)>>
                         [] t = 1 -> <<Ins(c), Ins(3), Find(3)>>
                         [] OTHER -> <<Del(e)>>] : c \in {1, 5}, e \in {6}}

\* Threads that insert and delete the same values below a root which stays.
Contenders ==
    {[t \in Caller |-> CASE t = 0 -> <<Ins(9), Join, Ins(a), Ins(b), Del(a)>>
                         [] t = 1 -> <<Ins(9), Join, Ins(a), Del(b)>>
                         [] OTHER -> <<Ins(9), Join, Del(b)>>] : a \in {1, 2}, b \in {1, 2}}

\* One thread that inserts four values in any order and deletes two.
Orders == {o \in [1..4 -> 1..4] : \A i, j \in 1..4 : o[i] = o[j] => i = j}
Alone == {[t \in Caller |-> IF t = 0
                            THEN <<Ins(o[1]), Ins(o[2]), Ins(o[3]), Ins(o[4]), Del(x), Del(y), Find(o[1])>>
                            ELSE <<>>] : o \in Orders, x \in 1..4, y \in 1..4}

AllPrograms == InsertersAndDeleter \cup Contenders \cup Alone
-----------------------------------------------------------------------------
(* What the threads of the sorted list may run. *)

Rem(k) == <<"remove", k>>

\* Threads that insert equal values and look for them.
TogetherIn == [t \in Caller |-> CASE t = 0 -> <<Ins(1), Ins(2)>>
                                  [] t = 1 -> <<Ins(2), Find(1)>>
                                  [] OTHER -> <<Ins(1)>>]

\* Threads that insert and remove with a node between any two that they remove.
Apart == [t \in Caller |-> CASE t = 0 -> <<Ins(2), Ins(3), Join, Rem(3), Rem(3)>>
                             [] t = 1 -> <<Join, Join, Join, Ins(1), Rem(1)>>
                             [] OTHER -> <<Join, Join, Join, Find(3), Find(1)>>]

InsertersOrRemovers == {TogetherIn, Apart}
-----------------------------------------------------------------------------
(* What the threads of the stack and of the queue run. *)

\* Two threads push, once and twice, and two pop, as main's five and five do.
PushesOfEach == [t \in Pushers |-> t]
PopsOfEach == [t \in Poppers |-> 1]

Enq == "enqueue"
Deq == "dequeue"

\* main of lockfree_queue.cpp: one thread enqueues and dequeues in turn, one enqueues.
OfMain == [t \in Caller |-> CASE t = 0 -> <<Enq, Deq, Enq, Deq>> [] t = 1 -> <<Enq>> [] OTHER -> <<>>]

\* Two threads like main's first, and two that dequeue beside one that enqueues.
Alike == [t \in Caller |-> IF t = 2 THEN <<>> ELSE <<Enq, Deq>>]
Takers == [t \in Caller |-> IF t = 0 THEN <<Enq, Enq>> ELSE <<Deq>>]

EnqueuersAndDequeuers == {OfMain, Alike, Takers}
-----------------------------------------------------------------------------
MCInit == /\ subject \in {"tree", "stack", "queue", "list", "mutex", "sorted", "C"}
          /\ Mutex!Init /\ (subject # "mutex" => kind = "naive" /\ m_program = Mutex!Shared)
          /\ Sorted!Init /\ (subject # "sorted" => s_program = CHOOSE p \in SortedPrograms : TRUE)
          /\ InC!Init /\ (subject # "C" => marks)
          /\ Stack!Init /\ List!Init
          /\ Queue!Init /\ (subject # "queue" => q_program = CHOOSE p \in QueuePrograms : TRUE)
          /\ Init /\ (subject # "tree" => program = CHOOSE p \in AllPrograms : TRUE)

MCNext ==
    /\ UNCHANGED subject
    /\ \/ /\ UNCHANGED lists
          /\ \/ subject = "tree" /\ Next /\ UNCHANGED <<stack_vars, queue_vars, list_vars>>
             \/ subject = "stack" /\ Stack!Next /\ UNCHANGED <<vars, queue_vars, list_vars>>
             \/ subject = "queue" /\ Queue!Next /\ UNCHANGED <<vars, stack_vars, list_vars>>
             \/ subject = "list" /\ List!Next /\ UNCHANGED <<vars, stack_vars, queue_vars>>
       \/ /\ UNCHANGED structures
          /\ \/ subject = "mutex" /\ Mutex!Next /\ UNCHANGED <<sorted_vars, c_vars>>
             \/ subject = "sorted" /\ Sorted!Next /\ UNCHANGED <<mutex_vars, c_vars>>
             \/ subject = "C" /\ InC!Next /\ UNCHANGED <<mutex_vars, sorted_vars>>

ForNoReason == \/ \E t \in Caller : Queue!FailsForNoReason(t) \/ Sorted!FailsForNoReason(t)
               \/ \E t \in Owners \cup ListPushers : InC!FailsForNoReason(t)

\* The variables of the structure it is, a step of its thread t and one of its exchanges.
moving == CASE subject = "tree" -> vars
            [] subject = "stack" -> stack_vars
            [] subject = "queue" -> queue_vars
            [] subject = "list" -> list_vars
            [] subject = "mutex" -> mutex_vars
            [] subject = "sorted" -> sorted_vars
            [] subject = "C" -> c_vars

Turn(t) ==
    /\ UNCHANGED subject
    /\ \/ subject = "tree" /\ t \in Caller /\ Step(t)
       \/ subject = "stack" /\ t \in Pushers \cup Poppers /\ Stack!Step(t)
       \/ subject = "queue" /\ t \in Caller /\ Queue!Step(t)
       \/ subject = "list" /\ t \in Removers /\ List!Step(t)
       \/ subject = "mutex" /\ t \in ListInserters \cup ListRemovers /\ Mutex!Step(t)
       \/ subject = "sorted" /\ t \in Caller /\ Sorted!Step(t)
       \/ subject = "C" /\ t \in Owners \cup ListPushers /\ InC!Step(t)

Exchange(t) ==
    /\ UNCHANGED subject
    /\ \/ subject = "stack" /\ t \in Pushers \cup Poppers /\ Stack!Swaps(t)
       \/ subject = "list" /\ t \in Removers /\ List!Link(t)

\* Threads are scheduled, and a weak exchange does not fail for no reason for ever.
MCFairness ==
    /\ \A t \in Caller \cup Pushers \cup Poppers \cup Removers \cup ListInserters
                \cup ListRemovers \cup Owners \cup ListPushers : WF_moving(Turn(t))
    /\ \A t \in Pushers \cup Poppers \cup Removers : SF_moving(Exchange(t))
    /\ <>[][~(subject \in {"queue", "sorted", "C"} /\ ForNoReason)]_all

MCSpec == MCInit /\ [][MCNext]_all /\ MCFairness
-----------------------------------------------------------------------------
\* Every variable of the structures keeps its type.
StructuresTypeOK == /\ TypeOK /\ Stack!TypeOK /\ Queue!TypeOK /\ List!TypeOK
                    /\ Mutex!TypeOK /\ Sorted!TypeOK /\ InC!TypeOK

\* The tree is at every moment a search tree of the set that the calls make, delete
\* and search find what is there, and because of the locking hand over hand no thread
\* uses a node that another one has destroyed; NonBlockingLinkedList is at every
\* moment the sorted set that its calls make, for inserters of equal keys and for
\* removes that do not meet.
SetsAreKept == /\ Ordered /\ TreeHoldsKeys /\ FindsWhatIsThere /\ NoUseAfterFree
               /\ Sorted!ListIsTheSet

\* What the stack has allocated is what is in it and what one thread is about to push
\* or to free: nothing leaks, nothing is freed twice and no node has two owners, as
\* long as no pop takes a new node for one that was freed since it was loaded.
\* LockFreeLinkedList.hpp frees nothing at all: when remove asks whether a hazard
\* pointer names the node, its own does.
HeapIsSound == Stack!NothingLeaks /\ List!NothingFreed

\* Pushes and pops of wait_free_stack.c take effect as on a stack, for any pushers and
\* poppers, until a pop's exchange succeeds on an address that was freed and pushed
\* again since it was loaded.
StackIsLIFO == Stack!LIFOSpec

\* lockfree_queue.cpp delivers every item once and in order, and its tail is never left
\* behind by more than one node, nor by the head, for any threads that enqueue and
\* dequeue, until one finds what it expects at an address that was deleted since it
\* was loaded.
QueueIsFIFO == Queue!FIFOSpec /\ []Queue!TailNearEnd

\* LockFreeLinkedList.hpp loses no value but to a remove of that value, and a
\* thread's search finds what it inserted.
ListKeepsItsValues == List!NothingLost /\ List!FindsItsOwn

\* A list with a mutex holds every value as often as it was inserted and not
\* removed; a thread finds what it has inserted, however many others insert and
\* remove equal values, and does not wait for it.
MutexListsAreBags == Mutex!Copies /\ Mutex!InOrder /\ Mutex!FindsItsOwn

\* With one thread that deletes beside others that push, the lists in C lose nothing
\* that is pushed while a node is unlinked and use no node that was freed, and that
\* thread's assertions hold.  With two they do not.
ListsInCHold == /\ InC!HoldsItsValues /\ InC!HeapIsSound
                /\ InC!FoundAsAsserted /\ InC!NotFoundAgain

\* All threads come to their end: no remove waits for ever, and no retry repeats
\* for ever.  The exception is that delete of the tree, having replaced a node that
\* has two children and a parent, never gives the parent's mutex back: the only
\* thread of the program Alone may come to wait for a mutex of its own; and a stack or a
\* queue that has mistaken one node for another need not go on.
WaitsForItself == \E t \in Caller : current[t] # NULL /\ owner[current[t]] = t
AllReturn == <>CASE subject = "tree" -> AllReturned \/ (program \in Alone /\ WaitsForItself)
                 [] subject = "stack" -> Stack!AllReturned \/ aba
                 [] subject = "queue" -> Queue!AllReturned \/ misled
                 [] subject = "list" -> List!AllReturned
                 [] subject = "mutex" -> Mutex!AllReturned
                 [] subject = "sorted" -> Sorted!AllReturned
                 [] subject = "C" -> InC!AllReturned
=============================================================================
