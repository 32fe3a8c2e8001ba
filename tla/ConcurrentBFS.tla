---------------------------- MODULE ConcurrentBFS ----------------------------
(***************************************************************************)
(* class ConcurrentBFS of Concurrent_BFS.cpp: run() marks the start        *)
(* vertex, queues it and starts the workers; each worker takes a vertex    *)
(* off the shared queue and marks and queues its unvisited neighbours, and *)
(* the last one to find nothing left sets `done`.                          *)
(*                                                                         *)
(* queue, working and done are only touched with queue_mutex held, so a    *)
(* critical section is one action; visited is exchanged outside it, so     *)
(* marking a neighbour and queueing it are two.                            *)
(***************************************************************************)
EXTENDS Reachability, FiniteSets

CONSTANTS Node,      \* the vertices
          Graphs,    \* the adjacency lists the constructor may be given
          Worker,    \* the threads run() starts, hardware_concurrency() of them
          MaxRuns    \* how often the model calls run() on one object

ASSUME GraphsAssumption == Graphs \subseteq [Node -> Seq(Node)]
ASSUME WorkerAssumption == IsFiniteSet(Worker) /\ Worker # {}
ASSUME MaxRunsAssumption == MaxRuns \in Nat \ {0}

VARIABLES graph,     \* the member graph
          visited,   \* the vertices whose flag is set
          queue,     \* std::queue<int>
          working,   \* std::atomic<int>: vertices taken and not finished
          done,      \* std::atomic<bool>
          pc,        \* where each worker is
          node,      \* the worker's local `node`
          next,      \* the position its loop over graph[node] has reached
          main,      \* "idle" outside run(), "running" until its joins return
          start,     \* run()'s argument
          runs,      \* calls of run() so far
          expanded   \* history: the vertices handed to processNode by this run

vars == <<graph, visited, queue, working, done, pc, node, next,
          main, start, runs, expanded>>
-----------------------------------------------------------------------------
Waiting == {w \in Worker : pc[w] = "wait"}

\* The workers between working++ and working--.
Active == {w \in Worker : pc[w] \in {"scan", "push"}}

\* cv.notify_one(): some waiter, if there is one, goes back to the predicate.
NotifyOne(pcs) ==
    LET asleep == {w \in Worker : pcs[w] = "wait"} IN
    IF asleep = {} THEN pc' = pcs
    ELSE \E w \in asleep : pc' = [pcs EXCEPT ![w] = "check"]

\* cv.notify_all().
NotifyAll(pcs) ==
    pc' = [w \in Worker |-> IF pcs[w] = "wait" THEN "check" ELSE pcs[w]]

\* The neighbour the worker's loop is at.
Found(w) == graph[node[w]][next[w]]

Init == /\ graph \in Graphs
        /\ visited = {}
        /\ queue = <<>>
        /\ working = 0
        /\ done = FALSE
        /\ main = "idle"
        /\ start \in Node
        /\ pc = [w \in Worker |-> "exited"]
        /\ node = [w \in Worker |-> start]
        /\ next = [w \in Worker |-> 1]
        /\ runs = 0
        /\ expanded = {}

\* run(s) up to the joins: the flags are cleared and s is marked and queued
\* before the first thread exists.  `done` keeps its value.
Run(s) == /\ main = "idle"
          /\ runs < MaxRuns
          /\ visited' = {s}
          /\ queue' = Append(queue, s)
          /\ pc' = [w \in Worker |-> "check"]
          /\ main' = "running"
          /\ start' = s
          /\ runs' = runs + 1
          /\ expanded' = {}
          /\ UNCHANGED <<graph, working, done, node, next>>

\* The joins: run() returns when every thread has left its loop.
Join == /\ main = "running"
        /\ \A w \in Worker : pc[w] = "exited"
        /\ main' = "idle"
        /\ UNCHANGED <<graph, visited, queue, working, done, pc, node, next,
                       start, runs, expanded>>

\* working++, and the mutation that forgets it.
UncountedStart == working' = working
CountStart == working' = working + 1

\* visited[v].exchange(true), and the mutation that only loads the flag.
LoadOnly(v) == visited' = visited
SetFlag(v) == visited' = visited \cup {v}

\* The test by which a worker sets `done`, with the count it left behind.
\* The mutations look at the queue alone, or at the count before working--.
QueueEmptyOnly(count) == queue = <<>>
BeforeDecrement(count) == count + 1 = 0 /\ queue = <<>>
NothingLeft(count) == count = 0 /\ queue = <<>>

\* The test by which a worker leaves its loop; the mutation looks at `done`
\* before the queue.
DoneFirst == done
MayLeave == queue = <<>> /\ done

\* The predicate holds because the queue is not empty: take its front.
Take(w) == /\ pc[w] = "check"
           /\ queue # <<>>
           /\ node' = [node EXCEPT ![w] = Head(queue)]
           /\ queue' = Tail(queue)
           /\ CountStart
           /\ next' = [next EXCEPT ![w] = 1]
           /\ pc' = [pc EXCEPT ![w] = "scan"]
           /\ expanded' = expanded \cup {Head(queue)}
           /\ UNCHANGED <<graph, visited, done, main, start, runs>>

\* The predicate holds because of `done` alone: leave the loop.
Exit(w) == /\ pc[w] = "check"
           /\ MayLeave
           /\ pc' = [pc EXCEPT ![w] = "exited"]
           /\ UNCHANGED <<graph, visited, queue, working, done, node, next,
                          main, start, runs, expanded>>

\* The predicate is false: release the mutex and sleep.
Wait(w) == /\ pc[w] = "check"
           /\ queue = <<>>
           /\ ~done
           /\ pc' = [pc EXCEPT ![w] = "wait"]
           /\ UNCHANGED <<graph, visited, queue, working, done, node, next,
                          main, start, runs, expanded>>

\* cv.wait may return without a notification; the predicate is checked again.
WakeSpuriously(w) == /\ pc[w] = "wait"
                     /\ pc' = [pc EXCEPT ![w] = "check"]
                     /\ UNCHANGED <<graph, visited, queue, working, done, node,
                                    next, main, start, runs, expanded>>

\* visited[neighbor].exchange(true) found the flag set: next neighbour.
Skip(w) == /\ pc[w] = "scan"
           /\ next[w] <= Len(graph[node[w]])
           /\ Found(w) \in visited
           /\ next' = [next EXCEPT ![w] = @ + 1]
           /\ UNCHANGED <<graph, visited, queue, working, done, pc, node,
                          main, start, runs, expanded>>

\* ... or clear, and set it: this worker is the one that queues the neighbour.
Mark(w) == /\ pc[w] = "scan"
           /\ next[w] <= Len(graph[node[w]])
           /\ Found(w) \notin visited
           /\ SetFlag(Found(w))
           /\ pc' = [pc EXCEPT ![w] = "push"]
           /\ UNCHANGED <<graph, queue, working, done, node, next,
                          main, start, runs, expanded>>

\* The guarded block of processNode: push and notify_one.
Push(w) == /\ pc[w] = "push"
           /\ queue' = Append(queue, Found(w))
           /\ next' = [next EXCEPT ![w] = @ + 1]
           /\ NotifyOne([pc EXCEPT ![w] = "scan"])
           /\ UNCHANGED <<graph, visited, working, done, node,
                          main, start, runs, expanded>>

\* processNode returned: working--, and `done` if that leaves nothing to do.
Finish(w) == /\ pc[w] = "scan"
             /\ next[w] > Len(graph[node[w]])
             /\ working' = working - 1
             /\ IF NothingLeft(working')
                THEN done' = TRUE /\ NotifyAll([pc EXCEPT ![w] = "check"])
                ELSE done' = done /\ pc' = [pc EXCEPT ![w] = "check"]
             /\ UNCHANGED <<graph, visited, queue, node, next,
                            main, start, runs, expanded>>

\* The program has made its last call of run().
Terminated == main = "idle" /\ runs = MaxRuns /\ UNCHANGED vars

WorkerStep(w) == \/ Take(w) \/ Exit(w) \/ Wait(w)
                 \/ Skip(w) \/ Mark(w) \/ Push(w) \/ Finish(w)

Next == \/ \E s \in Node : Run(s)
        \/ Join
        \/ \E w \in Worker : WorkerStep(w) \/ WakeSpuriously(w)
        \/ Terminated

Spec == Init /\ [][Next]_vars

\* Every thread that can step is eventually scheduled; nothing is assumed of
\* spurious wakeups or of the caller.
FairSpec == Spec /\ WF_vars(Join) /\ \A w \in Worker : WF_vars(WorkerStep(w))
-----------------------------------------------------------------------------
TypeOK == /\ graph \in Graphs
          /\ visited \subseteq Node
          /\ queue \in Seq(Node)
          /\ working \in Nat
          /\ done \in BOOLEAN
          /\ pc \in [Worker -> {"check", "wait", "scan", "push", "exited"}]
          /\ node \in [Worker -> Node]
          /\ next \in [Worker -> Nat \ {0}]
          /\ main \in {"idle", "running"}
          /\ start \in Node
          /\ runs \in 0..MaxRuns
          /\ expanded \subseteq Node

\* No vertex is handed to processNode twice in one run, whichever workers
\* reach it at once: what is queued or about to be queued was never handed
\* out, and is queued once and by one worker.
EachVertexOnce ==
    /\ \A i \in 1..Len(queue) : queue[i] \notin expanded
    /\ \A i, j \in 1..Len(queue) : queue[i] = queue[j] => i = j
    /\ \A v \in Worker : pc[v] = "push" =>
          /\ Found(v) \notin expanded
          /\ \A i \in 1..Len(queue) : queue[i] # Found(v)
          /\ \A w \in Worker : pc[w] = "push" /\ Found(v) = Found(w) => v = w

\* When run() returns, the visited flags are exactly the vertices reachable
\* from its argument and each of them went through processNode, also when the
\* object has been run before and `done` is stale.
ReturnsReachable ==
    main = "idle" /\ runs > 0 => /\ visited = Reachable(graph, start)
                                 /\ expanded = visited
                                 /\ queue = <<>> /\ working = 0

\* `done` is only set when the whole traversal is over: no vertex is queued,
\* none is being scanned and none is between its flag and its push, and it
\* stays so.  This is true of the first run() only: `done` is never cleared.
DoneMeansFinished ==
    runs <= 1 /\ done => queue = <<>> /\ Active = {} /\ Closed(graph, visited)

\* The workers are never all asleep during a run: the last one to check
\* `working` sees either a vertex in the queue or the count at zero.
SomeWorkerAwake ==
    main = "running" /\ ~done => \E w \in Worker : pc[w] # "wait"

\* Every call of run() returns: no wakeup is lost and no worker waits for a
\* `done` that nobody will set.
EveryRunReturns == main = "running" ~> main = "idle"

-----------------------------------------------------------------------------
(* The inductive invariant behind the properties above. *)

\* `working` counts the workers between working++ and working--.
Counted == working = Cardinality(Active)

\* No thread outlives run(), and the last one to leave saw an empty queue.
Parked == /\ main = "running" => runs > 0
          /\ main = "idle" => \A w \in Worker : pc[w] = "exited"
          /\ (\A w \in Worker : pc[w] = "exited") => queue = <<>>

\* An active worker scans a vertex it took, and what it passed is marked.
ScansInOrder == \A w \in Active :
    /\ node[w] \in expanded
    /\ next[w] <= Len(graph[node[w]]) + 1
    /\ \A k \in 1..(next[w] - 1) : graph[node[w]][k] \in visited
    /\ pc[w] = "push" => next[w] <= Len(graph[node[w]]) /\ Found(w) \in visited

\* A marked vertex was taken, is queued, or is about to be pushed.
NothingDropped == \A v \in visited :
    \/ v \in expanded
    \/ \E i \in 1..Len(queue) : queue[i] = v
    \/ \E w \in Worker : pc[w] = "push" /\ Found(w) = v

\* A vertex that was taken is still being scanned or has no unmarked neighbour.
ScannedIsClosed == \A v \in expanded :
    \/ \A k \in 1..Len(graph[v]) : graph[v][k] \in visited
    \/ \E w \in Active : node[w] = v

\* Only vertices reachable from the argument are marked, taken or queued.
OnlyReachable == /\ visited \subseteq Reachable(graph, start)
                 /\ expanded \subseteq visited
                 /\ \A i \in 1..Len(queue) : queue[i] \in visited
                 /\ runs > 0 => start \in visited

\* While a run goes on somebody has work or will find some.
WorkInHand == main = "running" /\ ~done =>
    \/ Active # {}
    \/ queue # <<>> /\ \E w \in Worker : pc[w] = "check"

\* In the first run `done` comes last.
DoneComesLast == /\ runs = 0 => ~done
                 /\ runs <= 1 /\ done => queue = <<>> /\ Active = {}

IInv == /\ TypeOK /\ Counted /\ Parked /\ ScansInOrder /\ NothingDropped
        /\ ScannedIsClosed /\ OnlyReachable /\ EachVertexOnce
        /\ WorkInHand /\ DoneComesLast
-----------------------------------------------------------------------------
\* The traversal as its caller sees it.
Search == INSTANCE GraphSearch WITH seen <- visited, busy <- main = "running"
SearchSpec == Search!Spec
-----------------------------------------------------------------------------
(* Graphs for TLC; the vertices are numbers, as in the code. *)

\* The graph of main(), a square whose far corner two workers reach at once.
Square == [v \in 0..3 |-> << <<1, 2>>, <<0, 3>>, <<0, 3>>, <<1, 2>> >>[v + 1]]

\* A vertex listed twice by its neighbour, a self loop and a part that is out
\* of reach from the other.
Multi == [v \in 0..3 |-> << <<1, 1, 0>>, <<2>>, <<>>, <<2, 0>> >>[v + 1]]

SquareAndMulti == {Square, Multi}
=============================================================================
