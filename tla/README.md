# A verification development for DSAlib

DSAlib is a library of data structures and algorithms in C and C++: small, mostly self-contained
programs, each with its tests or a `main` beside it. The part that is hard to get right, and nearly
impossible to test, is the concurrent one: a thread-pool graph traversal, a lock-free ring, several
blocking queues, semaphores, a readers-writers lock, a spinlock, a search tree with a mutex per
node, a lock-free stack and queue, and several linked lists. This directory models those in TLA+,
and beside them the sequential containers, hash tables, trees and skip lists, the parallel and sequential
sorts, the graph programs and searches over MPI, and the matrix products. It checks the models with TLC on
small instances and proves the main safety results of the concurrent core with TLAPS for every value of the
constants.

Paths are relative to the repository's root (`src/` in `PROJECT.json`). "CDS" stands for
`Concurrent DataStructure`.

* [Inventory](#inventory)
* [How the code is translated](#how-the-code-is-translated)
* [Modules](#modules)
* [Runs](#runs)
* [Fairness](#fairness)
* [Proofs](#proofs)
* [Findings](#findings)
* [What is not modelled](#what-is-not-modelled)
* [Plan](#plan)

## Inventory

Nothing in the library is a service: a component is an object, its callers are threads (or one
thread), and components do not call each other except where the table says so. There is no
persistence, hence no crash recovery; the only messages are the collectives of the MPI programs.

| Component (source) | State | Operations | What is hard | What makes it correct |
|---|---|---|---|---|
| `ConcurrentBFS` (CDS/Graph) | adjacency lists, a flag per vertex, a shared queue, the atomics `working` and `done`, mutex and condition variable | `run`, `worker`, `processNode` | two workers reach one vertex; a vertex is marked outside the mutex and queued inside; `done` is never cleared between runs; lost wakeups | each reachable vertex is processed once, none other is; every `run` returns |
| `LockFreeCircularQueue` (CDS/CPP/Queue) | atomic `head_`, `tail_`, plain `data_` | `enqueue`, `dequeue`, `is_empty`, `is_full` | release of a slot and its reuse; full against empty; more than one producer | FIFO, no slot raced on, failure only when full |
| `bounded_queue`, `BoundedBuffer` (DataStructure/CPP/queue, Algorithms/CPP/OS) | queue, mutex, two condition variables | `put`/`get`, `produce`/`consume` | which side a signal goes to; spurious wakeups | FIFO; nobody sleeps beside an item or a free place |
| `CircularBuffer` (CDS/CPP/Queue) | ring, two indices, a count, mutex, two condition variables | `put`, `get` | indices equal both when full and when empty | the same, and the ring is the monitor above |
| `RingBuffer` with a mutex (CDS/C/Queue `lockfree_ringbuffer.c`) | ring of pointers to nodes | `insert`, `ringBufferRemove`, `modifyData`, `cleanupRingBuffer` | an index taken before the mutex; nodes freed by their consumers; malloc failing after a wakeup | FIFO; no write to a node a consumer owns; nothing freed twice |
| `ThreadsafeQueue` (CDS/CPP/Queue) | queue, mutex, condition variable | `enqueue`, `dequeue`, `try_dequeue`, move constructor | one signal per item; a queue moved from while it is in use | no consumer sleeps beside an item |
| `prodcons` (Algorithms/C/OS) | ring, semaphores `empty` and `full`, mutex | the two threads | a slot is full before it is announced | FIFO, all slots accounted for, both threads end |
| `BinarySemaphore`, `CountingSemaphore` (Algorithms/CPP/OS) | count, mutex, condition variable | `wait`, `signal` | a woken waiter is overtaken; two signals make one permit | permits conserved, nobody forgotten, clients in order |
| `ReadersWriters` (Algorithms/CPP/OS) | count of readers, writer flag, two condition variables | `startRead`, `endRead`, `startWrite`, `endWrite` | a notified writer finds readers inside again | exclusion; somebody will tell whoever sleeps |
| `Spinlock` (Algorithms/CPP/OS) | an atomic flag | `lock`, `unlock` | `compare_exchange_weak` overwrites `expected` | exclusion, no lost increment |
| `fgl_bst` (CDS/C/Bst) | tree of nodes with a mutex each, root mutex | `insert`, `delete`, `search` | hand-over-hand locking, destruction of nodes, a mutex that is not given back | the tree is at every moment the set the calls make; no use of a destroyed node; calls end |
| `wait_free_stack` (CDS/C/Stack) | linked nodes, atomic top | `stack_push`, `stack_pop` | compare and exchange against a changed, freed or reused node | LIFO, heap sound, calls end, as long as no exchange takes a new node for a freed one |
| `LockFreeQueue` (CDS/CPP/Queue `lockfree_queue.cpp`) | linked nodes with a dummy, atomic head and tail | `enqueue`, `dequeue` | lagging tail, nodes deleted while other threads stand on them, addresses used again | FIFO, tail near the end, calls end, as long as no thread takes a new node for a deleted one |
| `LockFreeLinkedList` with hazard pointers (CDS/CPP/LinkedList) | atomic head and links, 512 hazard pointers, retired list | `insert`, `search`, `remove` | removes of neighbours, freed nodes | a value is lost only to its remove |
| lists with one mutex in C and C++ (CDS/\*/LinkedList: `nl`, `cvm`, `Naive`, `ConditionVariable`, `FineGrained`) | linked nodes, one mutex, in two of them a condition variable | `insert`, `search`, `remove` | one signal for several waiters; a remove that does not find its value | the list is the multiset of what was inserted and not removed |
| `NonBlockingLinkedList` (CDS/CPP/LinkedList) | nodes in order between two sentinels | `insert`, `remove`, `search` | unlinking a node whose neighbour changes | the list is at every moment the sorted set the calls make |
| `lock_free_list.c`, `wait_free_list.c` (CDS/C/LinkedList) | linked nodes, atomic head and links, marks in one of them | `insert`, `delete`, `search` | restart with a stale predecessor, freed nodes | nothing pushed is lost, no freed node is used, a thread finds what it inserted |
| `queue.c`, `deque.c`, `stack.c`, `set.c`, `ringbuffer.c` (DataStructure/C) | an array, two indices, a count | insert and remove at either end, search, modify, resize | wrap-around, empty against full, a resize of a ring that has wrapped | each is a sequence, and its indices and its count agree |
| lists with raw pointers (`singly_linked_list.c`, `doubly_linked_list.c`, `doublyLinkedlist.cpp`, `liStack.c`, `circular_dll.cpp`) | nodes with next and prev, head, tail | insert and delete at the ends or by value, search | links to repair in both directions, the last node, freeing | each is a sequence, links agree, what is taken out is freed and nothing else |
| lists of smart pointers (`singlyLinkedList_smartptr`, `doublyLinkedlist_smartptr`, `DoublyLinkedList_sptr`, `doublyLinkedlist_memoryleak`, `stack.cpp`) | nodes owned by unique or shared pointers | the same, `addAll`, `clone`, `get` | a node lives as long as something owns it; two that own each other stay | the same; what is lost for good is lost only where prev owns too |
| circular lists of shared pointers (`circular_dll_ptr`, `_ptr2`, `_memoryleak`) | a ring of nodes, a size no constructor sets | push, pop, insert at an index, delete by value | the size is whatever memory held; insert and delete decide by it | a ring whose size is right is a sequence and stays right; no size breaks the ring |
| hash tables (DataStructure/C/hash, CPP/hash_table) | slots, chains or nests | insert, search, delete | a deletion in the middle of a probe sequence or of a chain, displaced keys | the table holds the copies of keys that the calls make; tombstones hide nothing |
| `RBTree` (CPP/tree) | nodes with a colour and a parent, the root | insert, `deleteNode` | rotations and fix-ups, deleting a black node or the root | order, parents mirror children, black heights agree, no red pair |
| `BST*`, `intervalTree*` | nodes with two children | insert, remove, search, overlap, copy, clear | a node with two children takes its successor's value; the largest end below each node | the sorted values; a query that reports the overlaps its walk can reach |
| skip lists (C, C++) | nodes with links of several levels, the list's level | insert, delete, search | the random level, links of a node on some levels only, lowering the list's level | each level is a sublist of the one below |
| trie, HAMT, N-ary tree, segment tree | nodes with many children | insert, delete, search, update, query | what is pruned, what shares a prefix, sums above a leaf | the set of words, the map, the sums |
| parallel sorts (OpenMP, MPI) | an array, a flag, tasks, samples and buckets | phases, iterations, tasks | a shared flag written by a parallel loop; tasks that share cells; order of buckets | the values in order, whatever the schedule; no two threads at one cell |
| sequential sorts | an array | the loops | indices at the ends, equal values, cycles | the values in order |
| `graph.c`, `dfs.c`, `dijkstra.cpp` | adjacency lists, a stack, a priority queue | add, remove, change vertices and edges; search | vertices that move to new indices, stale pairs in the queue | only the edges asked for change; distances |
| `distributed_bfs*.cpp` (MPI) | the graph, distances and a flag per rank | level-synchronous search | ranks agree on the end of a level | levels are distances; no rank waits for ever |
| matrix products (`MatrixMultiply.cpp`) | two matrices, the result, temporary matrices | six ways to multiply | threads that add to one cell; odd sizes, blocks that do not divide the size | the product |
| random forest, benchmarks | floating-point data | - | - | out of reach or of no interest to a model checker |

`PROJECT.json` lists each component with its sources, and under `hazards` each place where this
code could go wrong in a way a test would hardly reach, with the properties aimed at it.

## How the code is translated

* **One action per atomic section.** Code that holds the mutex protecting everything it touches is
  one action, from the acquisition to the release or to the wait. Code without a lock is one action
  per access to memory that threads share: each load, store and exchange of an atomic is a step,
  and so is each access to plain data that another thread could touch.
* **Memory is sequentially consistent.** The lock-free classes mostly use the default memory order;
  where they do not (acquire and release in the ring), each atomic still has one writer, and what
  the weaker order allows beyond these interleavings is not modelled. `NoDataRace` is the condition
  under which plain data may be treated like that.
* **Condition variables** (`CondVar`) are the sets of the threads asleep on them. A notification
  takes out one thread, whichever; a thread that was woken is a thread like any other that competes
  for the mutex and checks its predicate; a thread may also wake up by itself.
* **Memory management** is modelled where the code's correctness hangs on it: a node is an address,
  `malloc` may return an address that was freed, and reading one that was freed is what
  `NoUseAfterFree` of the tree and `HeapIsSound` of the lists in C exclude: there the thread stops, since nothing is
  known of what it would read. The stack and the queue do read freed nodes under the clients of their `main`s. There the
  read is a choice of any address or NULL (`Reads`), an exchange on the address may succeed, and only
  when a comparison or an exchange does take it for the node it once was (`aba`, `misled`) does the
  promise end. Both models choose the free address deterministically (the first), which is the choice that reuses addresses most.
* **Payloads** are identities: an item is (producer, sequence number), so that loss, duplication
  and reordering are visible. `ThreadsafeQueue` needs only the number of items.
* **History variables** (`expanded`, `accepted`, `delivered`, `keys`, `answer`, `inserted`,
  `removed`, `touched`, `printed`, `stale`, `aba`, `misled`) record what happened for the properties. No guard of a
  modelled operation reads one.
* **Clients.** The threads are those of the repository's tests and `main`s, with smaller counts.
  `Calls`, `Pushes`, `Rounds`, `MaxRuns` and the like bound how often each calls. The exceptions:
  * *Fewer than the tests run.* `ListsInCHold` is checked with one thread that runs the loop of `wait_free_list_test.c` beside one that
    only inserts, although the test starts ten of the first kind: with two the promise is false, which is the finding
    `wait_free_list_test`. `NonBlockingLinkedList` has inserters of equal keys, or removes that do not meet (`Orderly`), although its
    `threadSafeTest` inserts and removes the same keys at once and asserts nothing about them: neighbours that are removed together lose
    updates there as in the finding `list_remove`. The searches of the tree meet no delete that destroys a node (`fgl_bst_test2.c` starts none), and
    the delete phase of `fgl_bst_test.c` is the finding `fgl_bst_delete`.
  * *More than the tests run.* The queue has, beside the two threads of its `main`, two that both dequeue, and two that
    dequeue beside one that enqueues; `run()` is called twice; threads delete from the tree below a root that stays; a queue is moved from while
    it is in use; `CountingSemaphore` has a pool of workers, for nothing calls it; the sequential containers and `graph.c` meet every sequence of calls.
* **Mutations.** Next to some definitions stand one or two variants named for a plausible slip
  (`NeverFull`, `LoadOnly`, `NotifyFirst`...). The specification does not use them; they replace
  the definition after them to show that a property notices.

## Modules

### ConcurrentBFS

`Reachability` has the graph vocabulary (`Edge`, `Closed`, `Reachable` as the least closed set, so
that no recursion is needed), and for nodes linked by a pointer the walk along it, as a row (`NodesFrom`) and as a set
(`Visited`), which the chains of nodes below share. `GraphSearch` is what a traversal promises its caller: vertices are
marked one at a time, each next to a marked one, and it returns only when nothing is left to mark.
`ConcurrentBFS` is the class. `Run` is `run()` up to the creation of the threads; `Take`, `Exit`
and `Wait` are the three outcomes of the predicate in `worker`, under the mutex; `Mark` or `Skip`
is the exchange of a neighbour's flag, *outside* the mutex, and `Push` the guarded block that
queues it; `Finish` is `working--` and the test that sets `done`; `Join` is the return of `run()`.
`done` survives from run to run, as in the code. It is checked as a part of `MCAlgorithms`. `SquareAndMulti` are the graphs of the run: the square of
`main`, and one with a repeated neighbour, a self loop and an unreachable part.

### Rings and blocking queues

`BoundedFIFO` is the promise of every queue here: at most `Bound` items, each accepted item
delivered once and in order.

* `LockFreeCircularQueue`: one action per access of `enqueue` (`LoadTail`, `FullLoadTail`,
  `FullLoadHead`, `StoreData`, `PublishTail`) and `dequeue` (`EmptyLoadFirst`, `EmptyLoadSecond`,
  `LoadHead`, `TakeData`, `ReleaseHead`), for any numbers of producers and consumers, repeating a failed
  call or not.
* `BoundedBuffer`: `bounded_queue` (and `BoundedBuffer` of `BoundedBuffer_cp.cpp`) as a monitor.
* `CircularBuffer`: the same protocol around a ring with a count. It refines both
  `BoundedBuffer`, call by call and sleeper by sleeper, and `BoundedFIFO`.
* `RingBufferMT`: `lockfree_ringbuffer.c`, which despite its name has a mutex. A node is the call
  of `insert` that allocated it; `memory` says whether `malloc` may fail; `modifyData` is two
  actions, because it computes its slot from `tail` before it locks.
* `ThreadsafeQueue`: with the move constructor as two actions, for it locks the mutex of the object
  it makes and not of the one it empties.
* `prodcons`: `sem_wait`, the section and `sem_post` as one action each.

`MCSynchronization` puts the last five together with the next group (see [Composed instances](#composed-instances)).

### Operating-system examples

* `Semaphores`: `wait` and `signal` of both classes, with the outcomes "passes" and "sleeps", and their
  clients `cs_bin_sema.cpp`, `ioe_bin_sema.cpp`, `pc_binsema.cpp` as lists of calls,
  and a pool of permits for `CountingSemaphore`, which nothing in the repository uses.
* `ReadersWriters`: the four entry and exit protocols with both condition variables.
* `Spinlock`: `lock` with the weak exchange, its spurious failures and the local `expected`,
  `unlock`, and `incrementCounter` with the increment as a load and a store.

`MCSynchronization` composes them with the blocking queues: everything that threads wait at.

### Concurrent structures

* `FineGrainedBST` (`fgl_bst.c`): each step of the hand-over-hand walk is an action, from one
  mutex's acquisition on. `program` gives each thread its calls, `join` being the barrier between the
  phases of the tests. `keys` is the set the calls make: each changes it at its linearisation point.
* `LIFO` is a stack; `WaitFreeStack` (`wait_free_stack.c`) implements it up to the first `aba`. `stale` are the threads
  whose `oldTop` was freed since they loaded it; `PopSwaps` by such a thread sets `aba`, for its `newTop` may be anything.
* `LockFreeQueue` (`lockfree_queue.cpp`), with helping of the tail, implements `BoundedFIFO` up to the first `misled`. `program` gives
  each thread its calls of `enqueue` and `dequeue`. `Delete` makes those `stale` who expect the node that it frees
  (`Expects`: the `tailNode` or the `headNode` of their comparison), and `Finds` sets `misled` when the comparison
  or the exchange of one of them succeeds all the same. A weak exchange may fail for no reason, and what `IsLast` and `Reads` say
  of a deleted node is any answer.
* `LockFreeLinkedList` (`LockFreeLinkedList.hpp`, `HazardPointer.hpp`): `insert`, `search`
  (`searchSafe`) and `remove` (`removeSafe`), whose `Reclaim` never frees, since the remover's own
  hazard pointer still protects the node.

`PhasesSpec` of `FineGrainedBST` is the delete phase of `fgl_bst_test.c`.

### Concurrent lists

* `MutexLists`: the lists whose calls hold one mutex throughout. A call is one step, or two around a
  wait. `kind` tells the lists apart: `naive` and `condvar` insert at the head, `sorted`
  (`FineGrainedLinkedList`, which holds `headMutex` throughout, so that its node mutexes are never
  contended) keeps the list in order, and `condvar` alone waits. `program` gives each thread
  the calls of one of the tests, among them `threadSafeTest` of `ConditionVariableLinkedList.cpp`,
  whose removers pass a variable that was never initialised: any value is tried.
* `NonBlockingLinkedList`: `Walk` and `WalkAgain` are the loops of `searchForNodes`; `Link` is the
  exchange of `insert`, `Touch` and `Unlink` the two of `remove`. A node is the call that inserts it.
  `seen` records, per call, whether its key was in the set at each moment so far, so that an answer
  can be judged: right at the moment of the change, or at some moment of a call that changes nothing.
* `LockFreeListsC`: `marks` is the difference between the two lists. A thread that is about to use a freed node, or has followed
  a marked `next`, stops (`Usable`): the code's behaviour is undefined from there.

`MCConcurrentStructures` composes the lists with the tree, the stack and the queue.

### Sequential containers and trees

`ContainerCalls` is the promise of all of them: a container holds a sequence of values, and what a
call does to it and answers is a function of the sequence and of the call (`After`, `Answer`).
`vague` names the operations of which nothing is promised for the moment. A call is one action, its
arguments and its answer are recorded in `call`. Its second part is the promise of a hash table, which holds copies of
keys, one value for each, and adds, takes out and finds them; it refuses only for want of room.

* `ArrayContainers`: the five containers in an array. Reading a slot that was never written gives
  `Garbage`; `insertRearOutside` is the store in front of the array which `deque.c` makes once it has
  been emptied.
* `NodeLists`: a heap of nodes (`data`, `next`, `prev`), the head, tail and size of a list, and the
  helpers that all lists share: `Path` and `Contents`, `Between` and `Bypassed` for the two ways to relink,
  `Released` for what the end of a call frees when nodes are owned: everything that is not reached
  from the head along the links that own.
* `LinkedLists`: the thirteen lists on that heap, one operator per member function and a prefix
  where several files use a name (`ring_`, `unique_`, `weak_`, `leak_`, `ptr_`, `ptr2_`, `both_`).

* `HashTables` has the six tables on one record: slots with a status and a link (open addressing with one probe sequence per key, as a
  method; coalesced chains), chains, and the two rows of nests of `cuckoo_hash.c`, whose displacements are a recursive
  function of the rounds. `findEmptySlot`, which `coalesced_hash.c` calls and nothing defines, returns any empty slot.

* `RedBlackTree`: the rotations are one operator for both sides, `fixViolation` and the loop of `fixDeleteRBTree`
  (`Lifted`) are recursive in the node they blame. `deleteNode` has the code's three ways out: the root
  goes and the tree with it, a red node or one with a red child is replaced by its child (`Spliced`), and otherwise the node at which
  the loop ends is unlinked with all below it (`Unlinked`). A call that goes through a null pointer ends the behaviour (`crashed`).
* `SearchTrees`: the three trees without balance, whose owning pointers make a tree a value, and
  the interval trees, whose `max` is kept on the way down.
* `SkipLists`: `update` is the array of predecessors, the random level of an insertion a choice.
* `BranchingTrees`: trie, HAMT (with what shares a path and what is pruned), N-ary tree and segment tree.

`MCSequentialStructures` composes them all: `kind`, fixed by the initial state, names the file.

### Algorithms

* `Sorts`: eighteen sorts. A loop of a sequential sort is a recursive function on arrays; of a parallel sort, each round, iteration or task
  is an action, and `running` are the iterations that have read their cells and not yet written them, so that two
  that share a cell lose an exchange as the code does. `raced` remembers that two threads were at one
  cell. `OutOfOrder`, `Swap` and `merge` are shared by the sorts that share the code.
* `GraphPrograms`: the adjacency lists of `graph.c` under all sequences of calls; `dfs.c` with its call stack;
  `dijkstra.cpp` with the pairs of its queue; `distributed_bfs.cpp` with each rank's scan and its two collective calls
  (a rank that arrives waits until all have); `distributed_bfs_2d.cpp` with its tests in the order of `main`.
* `MatrixMultiply`: the three sequential products as functions; `parallelMatrixMultiply` with atomic additions,
  `blockWiseMultiply` with an addition as a load and a store, and `sharedMemoryMultiply` with its four sections and the two temporary
  matrices they share. `conflict` remembers that two threads were in one cell or one matrix.

`MCAlgorithms` composes the three, and `ConcurrentBFS` with them.

### Composed instances

Components that share nothing are checked in one run without the product of their state spaces: a
variable `subject`, fixed by the initial state, chooses the component that moves, and all others keep
their initial state. A safety property of a component that stands still holds trivially, so that the
run checks the conjunction over all of them; each liveness property is of the form
`subject = "X" ~> ...`. The variables `kind` (sequential containers) and `sort`, `file` and `method` (algorithms) do the same.

## Runs

| Run | Module | Bounds | What it shows |
|---|---|---|---|
| `queue_spsc` | `LockFreeCircularQueue` | capacity 3, 7 items | with one producer and one consumer: no slot is raced on, `enqueue` fails only when full, FIFO, the test ends |
| `queue_stress` | `LockFreeCircularQueue` | capacity 3, 2 + 2 threads, 1 item each | *violation*: with two producers an item is lost and a consumer never ends |
| `synchronization` | `MCSynchronization` | 2 or 3 producers, 2 consumers, a poller, a modifier, 2 calls each, 2 or 3 slots; 4 workers, 2 permits, 3 rounds, 3 readers, 2 writers, 3 spinners | the blocking queues: nobody sleeps beside work, FIFO, the ring is the monitor, late `modifyData` and cleanup touch no node a consumer owns; the semaphores, `ReadersWriters` and `Spinlock`: nobody forgotten, permits conserved and the clients' order, exclusion; all threads return (`pc_binsema`'s consumer excepted) |
| `pc_binsema` | `Semaphores` | 2 rounds | *violation*: a binary `items` semaphore forgets an item |
| `concurrent_structures` | `MCConcurrentStructures` | 3 threads on the tree (own inserts beside a delete; contended deletes below a fixed root; one thread alone with 4 inserts in every order), 2 pushers (3 values) and 2 poppers at 5 addresses; on the queue `main`'s two threads, two like its first, or two dequeuers beside an enqueuer, with up to 3 items at 5 addresses; 2 threads with 2 rounds on `LockFreeLinkedList`; 4 threads on the lists with a mutex; 3 threads with up to 5 calls on `NonBlockingLinkedList`; 1 owner and 1 inserter with 3 addresses on the lists in C | the tree is the set at every moment and uses no destroyed node, the stack is LIFO and the queue FIFO under address reuse until one node is taken for another, no list loses a value, the sorted ones stay sorted, each thread finds what it inserted, the lists with one deleting thread use no freed node, all threads return |
| `fgl_bst_delete` | `FineGrainedBST` | 2 threads with two values each | *violation*: the delete phase of the test blocks |
| `list_remove` | `LockFreeLinkedList` | 2 threads, 1 value each | *violation*: a value removed with answer true is still in the list |
| `wait_free_list_test` | `LockFreeListsC` | 2 threads of the test with 2 rounds, 3 addresses | *violation*: a thread does not find the value that it has just inserted |
| `sequential_structures` | `MCSequentialStructures` | 2 values, 3 slots (4 after a resize), lists of up to 3 nodes at 4 addresses, initial sizes 0 and 4 modulo 5; tables of 3 slots, 3 keys of which two collide, 50 displacements; red-black trees over 6 values, other trees and skip lists over 3 values with up to 4 nodes, 3 levels, words of 2 letters | the eighteen containers, the trees, the skip lists and the hash tables keep the promise of `ContainerCalls`, their links, sizes, colours, levels and indices agree, and they free what they take out |
| `deque_ends` | `MCSequentialStructures` | the deque alone | *violation*: an end of a deque with one item is read from a slot nothing was written to |
| `table_remove` | `MCSequentialStructures` | `hashtable_cache.hpp` alone, 2 keys that collide | *violation*: a removed key hides another |
| `algorithms` | `MCAlgorithms` | BFS: 2 graphs of 4 vertices, 3 workers, 2 runs from every start; arrays of up to 5 elements over 3 values (bitonic sorts: up to 8 over 2; those longer than `EveryArray` = 4 as said below), tasks to depth 2; `graph.c` with up to 3 vertices and 3 list entries, searches on every graph of 4 vertices and up to 4 edges with 2 ranks; matrices of up to 4 rows, blocks of 1 and 2 | BFS: each vertex is processed once, `done` of the first run comes last, each run returns exactly the reachable vertices although the second begins with a stale `done`, every run returns, and the class implements `GraphSearch`; every sort and product returns the right result in every schedule except where threads meet in a cell, which happens nowhere but in three programs; searches find the distances; calls of `graph.c` change the edges named; all end |

**Why these bounds are enough to say something.** A ring of three slots with seven items goes round
more than twice, is full and is empty, and wraps in the middle of a call. Two producers and two
consumers on two places are the least with which both sides sleep at once, a signal can go to a
thread that was overtaken, and one more signal is needed than was sent; with a third producer in
`ThreadsafeQueue` two items arrive before a woken consumer runs. Three BFS workers let two race for
a vertex while the third decides whether the search is over. Three readers and two writers let a
notified writer be overtaken by readers twice. On the tree, the deletes of all shapes (leaf, one
child, two children with a near and a far successor) occur in the program of one thread, and below
a root that stays they interleave. Five addresses are more than the stack and the queue need at once, so that `malloc` never fails, and the first free one is
taken, so that addresses are used again at once. Two poppers let one free and two pushers push again the node
that the other has loaded; `aba` and the `misled` of the queue both become true in the run, which
goes up to the events that end the promises and beyond. The lists in C have as many addresses as there
can be nodes at once. Two inserters and two removers are the least with which one list's removers can both be
asleep while two insertions meet one signal. Every operation on a list changes the links of at most
three neighbours, so that a list of three nodes has each shape of a change (only node, first, last, between),
and a fourth address lets `addAll` and an insert after a delete take a freed or a new one. The
addresses are interchangeable, which the run uses as a symmetry. An array of three slots wraps
around with the fourth insertion, and the four sizes a ring is resized to lie on both sides of it. An initial size
of 0 is the right one, and 4 stands for any that is wrong, above or, modulo 5, below by one. In a table of
three slots the keys 1 and 4 share a slot and 2 has the next: copies make clusters and chains that merge, and
overflow the nests of the cuckoo table. The load at which `openAdd_hash.c` refuses is then that of the full table.
Six values make red-black trees of black height 3 and every case of both fix-ups, on both sides.
Three levels let a skip list's level fall by more than one with one deletion.

Three values on arrays of five have all patterns of equal neighbours, and every length up to five has an odd and an even last pair; the bitonic sorts compare and
exchange without looking at the values, so that arrays of zeros and ones (here 1 and 2) decide for all (the zero-one
principle), and eight elements are three stages. Where tasks sort the halves (`ParallelBitonicSort.cpp`), the arrays longer than `EveryArray` have a second
half that is in order already: both halves are sorted by the same tasks on cells of their own, and arrays of four have every half. On four vertices there are a longer way that is shorter, a cycle
and an unreachable part; a third rank would only own less. Products are linear in either matrix, so that the unit matrices decide for
all sizes tried; together with one matrix of different entries they show where each term goes. `UnitCells` is the
size up to which they are tried; the larger squares, and the products with threads, whose schedules are many, have the matrix of
different entries alone. Four rows are two levels of halving, and blocks of 2 do not divide 3 rows.

`concurrent_structures`, `fgl_bst_delete` and `wait_free_list_test` do not check for deadlock, because the tree's `delete`
leaves a mutex locked (see [Findings](#findings)), a thread of the lists in C stops at a freed node, and a dequeue that was misled at a null pointer; `AllReturn` says
exactly which stops are excused in the first run.

### The properties

* **Type invariants**: `TypeOK`, `SynchronizationTypeOK`, `StructuresTypeOK`,
  `SequentialTypeOK`, `AlgorithmsTypeOK`.
* **`EachVertexOnce`, `DoneMeansFinished`, `ReturnsReachable`, `EveryRunReturns`, `SearchSpec`**
  (BFS). The second is about the first run only; for later runs `done` is stale by construction of
  the class, and the point of `ReturnsReachable` is that the result is right nevertheless: a worker
  leaves only when the queue is empty, and one that is still scanning will come back and take what it
  queues.
* **`NoDataRace`, `RejectsOnlyWhenFull`, `FIFOSpec`, `TestCompletes`** (ring).
* **`NobodyMissed`, `MonitorSpec`, `FIFOSpec`** (`CircularBuffer`), **`NobodyForgotten`,
  `QueuesFIFOSpec`, `RingKeepsToItsNodes`** (the other queues), **`AllReturn`**. `NobodyMissed` is the
  counting argument behind `notify_one`: while a thread sleeps on one side, there are at least as
  many awake threads on that side as items (or free places) for them.
* **`NobodyForgotten`, `ClientsInOrder`, `MutualExclusion`, `AllReturn`**
  (synchronization). `ClientsInOrder` has the conservation of permits in it. `NobodyForgotten` is the counting argument for the other queues and the semaphores and, for
  `ReadersWriters`, that whoever sleeps is owed a notification by somebody inside or on the way.
* **`SetsAreKept`, `HeapIsSound`, `ListKeepsItsValues`, `StackIsLIFO`, `QueueIsFIFO`, `MutexListsAreBags`, `ListsInCHold`, `AllReturn`**
  (structures). `SetsAreKept` is linearisability: the reachable nodes of `fgl_bst.c` are at every step a search tree
  of exactly the set that the calls make, those of `NonBlockingLinkedList` a sorted list of theirs, and no
  call uses a node of the tree that was destroyed. `StackIsLIFO` and `QueueIsFIFO` are refinements for any threads. They are bounded not by the
  clients but by an event: until a pop's exchange succeeds on an address that was freed and used again (`aba`), or a call of the queue
  finds what it expects at such an address (`misled`), every step is one of `LIFO` or `BoundedFIFO`, although freed nodes are read before that.
  After the event the code promises nothing, and no line of it says otherwise. `HeapIsSound` says that the stack has allocated exactly what is in it or in one thread's
  hands, so that it frees each node once, again up to `aba`; and that `LockFreeLinkedList` frees nothing at all, which is why none of its threads can use
  freed memory (and why it leaks, see [Findings](#findings)). `ListKeepsItsValues` is about
  `LockFreeLinkedList`. `MutexListsAreBags` counts
  each value's copies against the calls that returned, and says that a thread which removes
  only what it has inserted finds it, although others insert and remove equal values; `ListsInCHold`,
  for one thread that deletes, adds the assertions of `wait_free_list_test.c` to the soundness of the heap; **`InsertedIsFound`** is the
  first of these assertions for the clients of the test.
* **`KeepsItsPromise`, `StructuresSound`, `TreesSound`, `TreesChangeAsAsked`** (sequential containers), **`EndsAreItems`**
  (the deque), **`FreeSlotMeansAbsent`** (the hash table). `KeepsItsPromise` is the refinement of
  `ContainerCalls`. Some things are not promised, and `vague` says exactly when: of `deque.c`, anything but the front as long as the rear was not used,
  and of a circular list, an insert or a delete by value while its size is wrong (in `circular_dll_ptr.cpp`,
  which keeps a tail, anything but a question once an insert has left the tail wrong); of `hashtable_cache.hpp` and `coalesced_hash.c`,
  anything once a deletion has hidden a key (`NothingHidden`), of `cuckoo_hash.c`, that a refusal changes nothing,
  and of `quad_double_hash.c`, that it refuses only when full. A ring of `ringbuffer.c` is full when it holds `size` elements, which is what its `insert` and `is_full` say
  (l. 89, 125), and not what its pseudocode and `main` say (see [Findings](#findings)). `StructuresSound` says
  that next and prev agree, that no link leads to freed memory, that sizes, tails and indices are right,
  and, as an action property, that a call loses nodes only where they own each other in a ring and
  the call empties the list or gives it up, and that a ring whose size is right keeps it right. For tables it says that tombstones
  hide no key, that coalesced chains always end, that keys are where they hash to and that `numItems` counts them.
  `TreesSound` has the order and the links of the trees, the largest ends, the levels of the skip lists and the sums; `TreesChangeAsAsked` says of each
  step that a balanced red-black tree stays balanced when a call takes out no more than it was
  asked for, and that no deletion leaves its value or adds one.
* **`ResultsSound`, `SearchesSound`, `EdgesChangeAsAsked`, `AlgorithmsEnd`** (algorithms). A result is judged when the program returns, in every schedule;
  what `raced` and `conflict` excuse is confined to the programs named in the property. `EdgesChangeAsAsked` follows
  an edge through the renumbering of its ends.

## Fairness

Safety never depends on it. For liveness each thread's step is weakly fair: a thread that can run is
scheduled, and a thread that is awake gets the mutex it competes for. Nothing is assumed of
spurious wakeups, of the caller of `run()`, or of how often `malloc` succeeds (`AllReturn` of the
RingBuffer is for `memory`, that is, when it does). `MCSpec` of the algorithms
asks for one weakly fair step of the sort, the search or the product as a whole, that is, that the program goes on, and for weak fairness of `Join` and of each worker of
`ConcurrentBFS`. `MCSpec` of the structures has one condition for all of them: `Turn(t)` is the step of thread `t` on the structure at hand, weakly fair
for each `t`. Three places need more:

* `prodcons`: a thread in `sem_wait` may be overtaken by another thread of its kind whenever the
  semaphore is positive, so that weak fairness, of an action that is disabled in between, gives
  nothing. Strong fairness is what `sem_wait` under a fair scheduler provides; with one thread of
  each kind, as in the `main` of the file, weak fairness would do.
* `WaitFreeStack`, `LockFreeLinkedList`: a weak exchange may fail for no reason, but not for ever;
  strong fairness of the exchange (`Exchange(t)`) says so. Each exchange that fails for a reason means that another
  thread's succeeded, so that with bounded calls all end.
* `LockFreeQueue`, `NonBlockingLinkedList`, `LockFreeListsC`: the same assumption, stated once for all of their
  exchanges: from some moment on none fails for no reason (`ForNoReason`).

## Proofs

Eight modules hold proofs, one of them (`DataLemmas`) only lemmas; all hold for every value of the constants that satisfies the named
assumptions or hypotheses, and each property is also checked by a run.

**`ConcurrentBFS_proofs`** (assumptions: graphs are functions from vertices to sequences of vertices,
the set of workers is finite and not empty, `MaxRuns` is positive). The inductive invariant
`IInv` of `ConcurrentBFS` has these parts, each needed for a reason:

* `Counted`: `working` is the number of workers between `working++` and `working--`. Without it the
  test `working == 0` says nothing.
* `NothingDropped`: a marked vertex was taken, is queued, or is in the hands of a worker about to push
  it, who is counted. `ScannedIsClosed`: a taken vertex is being scanned or has no unmarked neighbour.
  Together with an empty queue and nobody active they make the marked set closed.
* `ScansInOrder`: what a worker has passed is marked. `OnlyReachable`: nothing else is marked.
* `Parked`: the last worker to leave saw an empty queue, which is what makes `run()` right when
  `done` is stale.
* `EachVertexOnce`: what is queued or about to be was never handed out.
* `WorkInHand`, `DoneComesLast`: somebody has work or will find some; `done` of the first run comes last.

From `Spec => []IInv` follow `TypeCorrect`, `OncePerVertex`, `RunIsComplete` (when `run()` returns
the flags are exactly the reachable vertices, each processed, in the first run and in later ones),
`NeverAllAsleep` (the safety half of termination) and `FirstDoneIsFinal`; `ImplementsSearch` is the
refinement of `GraphSearch`.

**`LockFreeCircularQueue_proofs`** (one producer, one consumer, which is the hypothesis of each theorem,
and any capacity and number of calls), on the modular arithmetic of `DataLemmas`: the invariant ties each
local copy of an index to the index it was loaded from (the other side can only have moved its own
index on since, never past), and says that the slots from `head_` to `tail_` hold, in order, what was accepted
and not delivered. From it `SPSCTypeCorrect`, `SPSCLedgerBalances`, `SPSCNoDataRace`,
`SPSCRejectsOnlyWhenFull` and the refinement `SPSCImplementsFIFO`.

**`MCSynchronization_proofs`** proves of the composition itself, for any finite sets of threads, any sizes, permits
and number of calls, `TypesKept` (`SynchronizationTypeOK`), `Exclusion` (`MutualExclusion`), `NobodyIsForgotten` (`NobodyForgotten`),
`ClientsKeepOrder` (`ClientsInOrder`), `NodesAreOwnedOnce` (`RingKeepsToItsNodes`) and the refinement `RingsAreFIFO` (`QueuesFIFOSpec`). The assumptions are named in
`MCSynchronization` (and `CircularBuffer`): the roles of the threads are disjoint where one thread has one role, the sets are
finite, sizes are positive, and a fresh slot of the ring holds NULL or garbage, neither of which is a node. `AllInv` is the conjunction of one invariant
for each program, since they share nothing (`StepOfEach`: a step of the whole is a step or a stutter of each):

* `IInv`, of `CircularBuffer`, with which the module begins: `tail_` is `head_ + count_` modulo the size, slots hold items where the count
  says so, and `NobodyMissed` counts awake threads against items and places (waking or returning changes the number
  of awake threads by one). For any number of threads and any size it gives `TypeCorrect`, `NoSignalWasted`,
  `ImplementsMonitor` and `ImplementsFIFO`.
* `RingInv`: `count` is the distance from `tail` to `head`, the slots between them hold nodes, a sleeper has calls left, and
  awake threads cover what is there. Without memory the producers' half is not claimed: a woken producer that gets no node has
  used up the signal.
* `RingNodes`, beside it: a node in a slot is in no other slot and no consumer owns it, `Owned` has as many nodes as calls have
  removed one, and the first `RingUsed` slots were written. `ModifiesInside` and `NothingToFree` derive `NodesAreOwnedOnce`
  (`RingKeepsToItsNodes`): the late `modifyData` misses every node that a consumer owns, and so does `cleanupRingBuffer`, under the
  hypothesis `RingEmptied`: as many consumers as producers, and as many calls as slots. `con_test_lfrb.c` has five of each with a hundred
  calls. Otherwise nodes stay in the ring and `cleanupRingBuffer` frees those.
* `QueueInv`: a sleeping consumer leaves an awake one for every item, a sleeper has calls left, and there are no more items than calls of `enqueue` that returned.
* `SlotsInv`: every slot of `prodcons` is empty, in a producer's hands, in the ring or in a consumer's hands, and what is in the ring is what was inserted and
  not removed. `SlotsAccountedFor` alone is not inductive: it does not say that the slots of the ring hold items, nor that `in` is as
  far from `out` as they are many.
* `ClientsInv`: `GuardCounts` ties a guarding semaphore to the number of threads inside, `ItemCounts` and `PrintCounts` tie the counts of `items`, `sem2` and
  `sem3` to the places of their threads, and `AtRest` says that the programs that do not run are as at first.
* `RWInv`: a sleeper has not been inside yet, so that the one a notification wakes is on its way in, and `readers_count` is the number of readers inside.
* `SpinInv`: at most one thread is between `lock` and `unlock`, `expected` is FALSE again whenever `lock` compares, what a thread is about to
  store is the counter plus one, and the counter is the size of the set `Stored` of increments made: a set of pairs (thread, index)
  instead of a sum over the threads, which would need an induction.

**`DataLemmas`** has what the other proofs need and no library states: the arithmetic of rings, rows with an element
more or less, and linked nodes. `SetInduction` (a set of naturals with a base and a step is all of them) comes from
the least element, because the library's induction takes an operator that the provers cannot
instantiate. With it `PathIsWalked` and `PathIsVisited` show that the recursive walk of
`Reachability` is what `IsPath` says without recursion: a row of different nodes, each linked to the next. The
`Path...` lemmas say what pushing, popping, appending and relinking a node outside do to it. `Chain`
describes the same by ranks that fall along the links, which is easier where
nodes leave from the middle. `Spliced` is a row with one element put in, and `Count` its copies.

**`FineGrainedBST_proofs`** proves `TreeIsSafe`: the types, and `Ordered`, `TreeHoldsKeys`, `NoUseAfterFree` and `FindsWhatIsThere`, of which
`SetsAreKept` is made. The hypothesis `Clients` is about the threads' programs (`Orderly`), because the code does not keep the promise for all programs:
`search` holds no mutex between two nodes, so that a delete may free the node it goes to next, and `delete` keeps its hands off the nodes above it only
while the root stays. So either every thread begins by
inserting one value that stays, and none searches; or what is inserted is not deleted; or one thread runs alone. The
run checks all three. The inductive invariant is `TreeInv`:

* `TreeOf`: there are a set `S` of nodes and for each of them the set `D[n]` of the nodes below it, such that the sets on its two sides are disjoint,
  lie on their side of its value and leave it out, and `S` is the set below the root. That is a search tree, said without recursion
  and without heights, so that unlinking a node takes it out of the sets above it and changes nothing else.
* `TreeHeap`: what is allocated is in `S` or in the hands of one thread about to destroy it, and the values in `S` are `keys`.
  `Kept`: what the clients' discipline amounts to in a state, such as the root that stays.
* `TreeThread`: a thread holds the mutexes of the nodes it stands at (`Holds`) and its key fits there. A delete on its way to the successor (`Descends`)
  knows that nobody walks between it and the node to fill (`Way`): otherwise copying the successor's value upwards could pass a thread that looks for it.

**`MCConcurrentStructures_proofs`** composes `FineGrainedBST_proofs` and `Lists_proofs`, and has the stack and the queue itself: `AllInv` is the conjunction
of `TreeInv` and the six invariants below, `StepOfEach` says that a step of the whole is a step or a stutter of each, and eight theorems follow:
`StackRefinesLIFO` and `QueueRefinesFIFO` (the refinements `StackIsLIFO` and `QueueIsFIFO`, step by
step), `HeapStaysSound`, `ValuesAreKept`, `ListsAreBags`, `ListsInCAreSound`, `SetsStayKept` (`SetsAreKept`: the tree and the sorted list) and
`StructuresKeepTypes` (`StructuresTypeOK`). They hold for any finite sets of threads
and any number of calls, under four assumptions of `MCConcurrentStructures`:
`NamesAssumption` (`NULL` is no address and no item, the sentinels are no nodes; roles are disjoint), `SizesAssumption` (finite), `QueueAssumption`
(threads of the queue run any calls of `enqueue` and `dequeue`) and `ProgramsAssumption`
(the programs on the tree and on the sorted list are `Orderly`). `ListsInCAreSound` alone has a hypothesis, `OneOwner`: at most one thread deletes from the lists in C
(with two the run `wait_free_list_test` refutes what it says).

* `StackInv`: the types, which hold whatever was read, and as long as not `aba`: the links from `top` are a path. A node allocated is in it or in the hands of one thread, which
  alone knows it, before its push or after its pop. A popper that is not `stale` is `Trusting`: its `oldTop` is still allocated and nobody's
  who is about to push it, so that its `newTop` is still the next of it. A stale one knows nothing, and if its exchange succeeds `aba` is set. A push needs
  no such care: its node's `next` is what it compares with, whatever node has that address by then.
* `QueueInv`: likewise the types, and as long as not `misled` the path from `head`, whose last node or last but one is `tail`.
  `Keeping` nodes are private. `QueueAtTail` is what a thread that is not stale knows of the `tailNode` it has loaded: it is
  allocated, it is not behind the tail's own successor, and the `next` it read there, if not NULL, is still the next. `QueueAtHead`
  is what it knows of its `headNode`: it is the head or out of the queue, and as long as it is the head and was not the tail, the tail is not the head either, so that a dequeue
  never lets the head pass the tail. A NULL in `next` is not stable and is compared again by the exchange (`IsLast`).
* `ListInv`: values have ranks by the order of their insertion, and whatever a pointer passes over was removed. Links may
  be stale, as in the finding `list_remove`, and so the reachable nodes are no invariant, but nothing that is
  still to be found is skipped. Nothing is freed, because the remover's own hazard pointer names the node.
* `MutexInv`: the clients' programs are `Legal` (lemma `MutexPrograms` derives it from the model's), `Copies` counts the values,
  a call that inserts never misses and a thread `FindsItsOwn`.
* `SortedInv`: `S` is the set of the nodes in the list, closed under `next` up to `Last`, along which keys rise; `R[t]` are the nodes that thread `t` may still come to.
  A node that was unlinked keeps its `next`, so that a thread may stand on one that is `LeftBehind`; what saves the answer is that its key was removed during the
  call by somebody else (`FALSE \in seen[t]`), and what saves the list is `Orderly`: removes begin when all have joined (`j`), and from then on
  between two keys that different threads update, one of them by a remove, lies a key that nobody removes (a post, beyond which no
  node left behind leads). So nobody links behind a node or unlinks from one that is out of the list. Without posts the program
  loses updates, as `LockFreeLinkedList` does in `list_remove`. `SortedSound` derives the order, the set and the answers.
* `CInv`: the nodes of the list are a `Chain` ranked by pushes, the heap is the list and what threads hold, and the
  node that the deleting thread looks for is ahead of where it stands.

**`ArrayContainers_proofs`** is about the containers in an array, under the hypothesis `Capacities` (capacities are positive and at most `MaxCapacity`).
`Inv` joins `TypeOK`, `IndicesAgree` (`ArraysStaySound`) and `FrontInside`: the front of a queue, of a ring and of a deque that holds something is a slot,
which the -1 of an emptied deque is not. `Row` and `StackRow` are the values in use as a sequence, `RowPutBack`, `RowPutFront`, `RowWithoutFirst`,
`RowReplaced` and `RowMoved` say what a store, a moved index and a resize do to it, and `KeptBy` compares that with what `ContainerCalls` says of the call. From it
`ArraysKeepPromise` has every step of queue.c, stack.c, ringbuffer.c and deque.c as a step of `ContainerCalls`, with nothing promised of the calls in `Vague` (the rear of the
deque, and its front once the rear was used) and of the crash. The sequence of a set is sorted by recursion, and so set.c is compared with a set:
`SetKeepsMembers` says what each call does to `Members` and answers, although a deletion moves the last item into the gap.
The run checks the same of all containers as `KeepsItsPromise` and `StructuresSound`.

**Only model-checked**: everything about liveness (fairness and ENABLED are out of the prover's
reach); and the linked lists, the hash tables, the trees and the algorithms, most of which compute with recursive functions over arrays, trees and
graphs. What a recursive function computes is within reach only as far as `SetInduction` carries, and not at all for operators
declared RECURSIVE, which the modules that compose them use; the library's theorems with operator parameters cannot be used.

## Findings

* **`queue_stress`**: `enqueue` claims its slot with a plain load and publishes it with a plain
  store. The file is named "mrmw" and its `stressTest` runs five producers, but two producers may store to
  one slot; one item is lost and some consumer spins for ever.
* **`pc_binsema`**: `items` is a `BinarySemaphore`, so two signals before a wait are remembered
  as one, and the consumer of the last round waits for ever although items are there.
* **`fgl_bst_delete`**: when the node to delete has two children, `delete` keeps the mutex of its
  parent for ever; later calls that pass through the parent block, and so does the test's delete phase.
* **`wait_free_list_test`**: `delete` of `wait_free_list.c` frees its node at once. Another thread's search may stand on it; the next
  insert gets the same address from `malloc`, its new node has a null `next` until it is pushed, and the search takes that for the end of the list. So the
  assertion of `wait_free_list_test.c` that an inserted value is found (l. 22) fails, with two of the test's ten threads.
* **`list_remove`**: nodes are not marked before they are unlinked. Two removes of neighbours
  unlink one of them from a node that is itself out of the list, so that a value whose remove
  answered true stays reachable.
* **`deque_ends`**: the first insertion into an empty deque sets `front` and `rear` equal, although `rear`
  is the slot behind the last item: after `insertFront`, `getRear` answers with a slot that was
  never written, and after `insertRear` so does `getFront`. `main` of the file inserts at the
  front and then at the rear, which overwrites the first item.
* **`table_remove`**: `remove` of `hashtable_cache.hpp` frees its slot, but `search` and `insert` take a free slot
  for the end of a probe sequence: a key behind it is lost to searches, and stored twice by an insertion.

The models show more disagreements, for which there is no run of their own. In some of them the file claims the contrary:

* `ringbuffer.c`: the pseudocode has a ring full at `size-1` elements (l. 64-66), and `main`, with 4 elements in a ring of 5, expects
  the next insertion to be refused (`insert(rb, 6); ... // Buffer is full`, l. 280) and 6 not to be found (l. 292). The code refuses
  at `size` (l. 89, 125), so that 6 goes in, `is_full` answers no and the search finds it. `KeepsItsPromise` takes the code's bound, which uses every slot and is kept by all operations,
  and so passes; with the other bound it would fail at the insertion that fills the last slot.
* `ParallelHeapsort.cpp`: `buildHeapParallel` sifts parents down at once that must wait for each other, so that the
  values may come out of order under "Sorted array is" (l. 55). `ResultsSound` excuses that (`raced`).
* `MatrixMultiply.cpp`: `blockWiseMultiply` loses
  terms as soon as the matrix has more rows than a block (`main` takes 200 and more rows and blocks of 64), and `sharedMemoryMultiply`, whose sections share
  `temp1` and `temp2`, may add the wrong ones (`conflict`); that function and `strassenMultiply` ("Strassen's algorithm for matrix multiplication", l. 144) halve sizes down to 1 and are wrong
  for a size that is no power of two, such as the 200 of `main`.
* `lockfree_queue.cpp`: the comment before `main` (l. 95-101) says that its threads test the queue for the ABA problem. They are exposed to it: in the model with `main`'s
  threads a call reads deleted nodes and may be `misled`. `main` looks at no result and would not notice.
* `wait_free_stack.c`: the five popping threads of `main` read freed nodes and may take a new node for a freed one (`aba`); the file says nothing of it.
* `LockFreeLinkedList.hpp`: `remove` deletes the node it has unlinked when no hazard pointer names it (l. 128), but its own does, and the branch that would retire the node
  is not there: every removed node leaks. `HeapIsSound` states it.

In the others the file claims nothing to the contrary that a run could quote, and the properties except them by name: `coalesced_hash.c` loses keys by both of its deletions and by inserting
into a slot it freed; `cuckoo_hash.c` drops a key when it gives up; `quad_double_hash.c` counts insertions and
not deletions, and refuses for good after `size` of them; no constructor of the circular lists sets their size; and
`deleteNode` of `RBTree.cpp` empties the tree when it deletes the root, and may drop a part of it when it deletes a black node without a red child.

Each run that expects a violation checks one property that quotes the program's own claim.

## What is not modelled

* What the stack does after `aba`, the queue after it was `misled`, and the lists in C after a thread has come to a freed node: the code is then outside
  of what C and C++ define. The stack and the queue are modelled up to there and beyond (their types are kept, `AllReturn` excuses
  them), but nothing is promised.
* The promise `ListsInCHold` with two deleting threads (see the finding), and removes of neighbours
  on `NonBlockingLinkedList`, which has the flaw of `list_remove`: it never marks a node.
* `fgl_linkedlist.c` and `fgl_linkedlist_mutex.c`: they unlock locks that they do not hold, which
  POSIX leaves undefined. The mutex of a destroyed node that `FineGrainedLinkedList::remove` unlocks
  (line 102) is undefined too, but nobody else can hold it, and the model leaves it out.
* `retireNode`, `reclaimRetiredNodes` and the cleanup thread of the hazard pointers: nothing calls
  `retireNode`, so that the thread always finds an empty list.
* More than 512 threads on the hazard-pointer table.
* `lock_free_fifo_queue.cpp`: marked "not complete" in the file, with head and tail uninitialised.
* Memory orders weaker than sequential consistency, exceptions thrown by `new` in the C++ classes,
  destructors (they run alone).
* Single-threaded unit tests of the queues: the runs' clients include their behaviours.
* Of the sequential containers: displaying them, `calculateMemoryUsage` of `ringbuffer.c`, a resize of
  its ring to fewer slots than there are elements (which would drop some and keep the count; no
  caller does it), `get` of `doublyLinkedlist_smartptr.cpp` at the index behind the last (which reads through
  a null pointer; no caller asks for it), and `malloc` failing.
* `MPIRadixSort.cpp`: its `main` gives every process an empty array, whose largest element is undefined; the receive counts are those of
  the last round only.
* `cycleSort.cpp`, `radixSort.cpp` and `ParallelSampleSort.cpp` of an empty array (`size() - 2` wraps around; the largest element and samples of
  nothing): the model starts at the shortest array they can be called with.
* Of `distributed_bfs_2d.cpp`, `expandPhase`, `foldPhase` and `distributeGraph`, which `main` never calls; of `RBTree.cpp`, `fixInsertRBTree`,
  which nothing calls; of the BST in `BST_smartptr2.cpp`, the traversals but one and the Graphviz output.
* Indices out of range on `graph.c`, equal hashes in `hamt.cpp` (`insertHelper` then never ends), overflow of the products' sums.
* Random forest (floating-point statistics over random samples), benchmarks, vendored and generated files.

## Plan

Done, in this order: BFS, ring, blocking queues, synchronization, structures, lists; the sequential
queues, stacks, rings, linked lists and hash tables; skip lists and trees; sorts, graph programs,
searches over MPI and matrix products.

Left, in order of what it would tell:

1. **More proofs**: `BoundedBuffer` against `BoundedFIFO`, and the linked lists and the hash tables against `ContainerCalls`.
2. **Memory orders** weaker than sequential consistency for the ring and the lock-free lists.
3. **The phases of the 2D search**, once `main` calls them.
