------------------------- MODULE ConcurrentBFS_proofs -------------------------
(***************************************************************************)
(* Proofs about ConcurrentBFS, for every graph, every number of workers    *)
(* and every number of runs.                                               *)
(***************************************************************************)
EXTENDS ConcurrentBFS, FiniteSetTheorems, TLAPS

Places == {"check", "wait", "scan", "push", "exited"}

\* What notify_one and notify_all do to the program counters: sleepers may
\* wake, everybody else stays where pcs puts it.
Wakes(pcs) == /\ pc' \in [Worker -> Places]
              /\ \A w \in Worker : pc'[w] # pcs[w] =>
                                       pcs[w] = "wait" /\ pc'[w] = "check"

LEMMA NotifyWakes ==
    ASSUME NEW pcs \in [Worker -> Places], NotifyOne(pcs) \/ NotifyAll(pcs)
    PROVE  Wakes(pcs)
<1>1. CASE NotifyOne(pcs)
  BY <1>1 DEF NotifyOne, Wakes, Places
<1>2. CASE NotifyAll(pcs)
  BY <1>2 DEF NotifyAll, Wakes, Places
<1> QED BY <1>1, <1>2

LEMMA AppendFacts ==
    ASSUME NEW S, NEW q \in Seq(S), NEW e \in S
    PROVE  /\ Append(q, e) \in Seq(S)
           /\ Len(Append(q, e)) = Len(q) + 1 /\ Len(q) \in Nat
           /\ \A i \in 1..Len(q) : Append(q, e)[i] = q[i]
           /\ Append(q, e)[Len(q) + 1] = e
OBVIOUS

LEMMA TailFacts ==
    ASSUME NEW S, NEW q \in Seq(S), q # <<>>
    PROVE  /\ Tail(q) \in Seq(S) /\ Head(q) \in S
           /\ Len(Tail(q)) = Len(q) - 1 /\ Len(q) \in Nat \ {0}
           /\ \A i \in 1..Len(Tail(q)) : Tail(q)[i] = q[i + 1]
           /\ Head(q) = q[1]
OBVIOUS
-----------------------------------------------------------------------------
(* Reachability. *)

LEMMA ReachableStart ==
    ASSUME NEW g, NEW s \in DOMAIN g
    PROVE  s \in Reachable(g, s)
BY DEF Reachable

LEMMA ReachableStep ==
    ASSUME NEW g \in [Node -> Seq(Node)], NEW s, NEW v \in Reachable(g, s),
           NEW k \in 1..Len(g[v])
    PROVE  g[v][k] \in Reachable(g, s)
<1>1. v \in Node /\ DOMAIN g = Node
  BY DEF Reachable
<1>2. g[v] \in Seq(Node)
  BY <1>1
<1>3. g[v][k] \in Node /\ k \in DOMAIN g[v]
  BY <1>2
<1> QED BY <1>1, <1>3 DEF Reachable, Closed

LEMMA ClosedContainsReachable ==
    ASSUME NEW g, NEW s, NEW S \in SUBSET DOMAIN g, s \in S, Closed(g, S)
    PROVE  Reachable(g, s) \subseteq S
BY DEF Reachable
-----------------------------------------------------------------------------
(* Type correctness, with the counter and the joins it depends on. *)

LEMMA ActiveFinite == IsFiniteSet(Active)
<1>1. Active \subseteq Worker
  BY DEF Active
<1> QED BY <1>1, WorkerAssumption, FS_Subset

Base == TypeOK /\ Counted /\ Parked

LEMMA InitBase == Init => Base
<1> SUFFICES ASSUME Init PROVE Base
  OBVIOUS
<1>1. Active = {}
  BY DEF Init, Active
<1>2. Counted
  BY <1>1, FS_EmptySet DEF Counted, Init
<1>3. pc \in [Worker -> Places] /\ queue \in Seq(Node) /\ runs \in 0..MaxRuns
  BY MaxRunsAssumption DEF Init, Places
<1>4. node \in [Worker -> Node] /\ next \in [Worker -> Nat \ {0}]
  BY DEF Init
<1>5. TypeOK
  BY <1>3, <1>4 DEF Init, TypeOK, Places
<1> QED BY <1>2, <1>5 DEF Base, Parked, Init

LEMMA StepBase == IInv /\ [Next]_vars => Base'
<1> SUFFICES ASSUME TypeOK, Counted, Parked, ScansInOrder, [Next]_vars
             PROVE  Base'
  BY DEF IInv
<1> USE DEF Base
<1>0. /\ graph \in [Node -> Seq(Node)]
      /\ pc \in [Worker -> Places] /\ queue \in Seq(Node)
  BY GraphsAssumption DEF TypeOK, Places
<1>1. ASSUME NEW s \in Node, Run(s) PROVE Base'
  <2>1. Active = {} /\ Active' = {}
    BY <1>1 DEF Run, Parked, Active
  <2>2. Counted'
    BY <1>1, <2>1 DEF Run, Counted
  <2>3. queue' \in Seq(Node) /\ runs' \in 0..MaxRuns /\ pc' \in [Worker -> Places]
    BY <1>0, <1>1, MaxRunsAssumption DEF Run, TypeOK, Places
  <2>4. TypeOK'
    BY <1>1, <2>3 DEF Run, TypeOK, Places
  <2>5. Parked'
    BY <1>1, WorkerAssumption DEF Run, Parked, TypeOK
  <2> QED BY <2>2, <2>4, <2>5
<1>2. CASE Join
  BY <1>2 DEF Join, TypeOK, Counted, Active, Parked
<1>3. ASSUME NEW w \in Worker, Take(w) PROVE Base'
  <2>1. Active' = Active \cup {w} /\ w \notin Active
    BY <1>3 DEF Take, CountStart, TypeOK, Active
  <2>2. Counted'
    BY <1>3, <2>1, ActiveFinite, FS_AddElement DEF Take, CountStart, Counted, TypeOK
  <2>3. TypeOK'
    BY <1>3, TailFacts DEF Take, CountStart, TypeOK
  <2>4. Parked'
    BY <1>3 DEF Take, CountStart, Parked, TypeOK
  <2> QED BY <2>2, <2>3, <2>4
<1>4. ASSUME NEW w \in Worker, Exit(w) PROVE Base'
  <2>1. Active' = Active
    BY <1>4 DEF Exit, MayLeave, TypeOK, Active
  <2> QED BY <1>4, <2>1 DEF Exit, MayLeave, TypeOK, Counted, Parked
<1>5. ASSUME NEW w \in Worker, Wait(w) PROVE Base'
  <2>1. Active' = Active
    BY <1>5 DEF Wait, TypeOK, Active
  <2> QED BY <1>5, <2>1 DEF Wait, TypeOK, Counted, Parked
<1>6. ASSUME NEW w \in Worker, WakeSpuriously(w) PROVE Base'
  <2>1. Active' = Active
    BY <1>6 DEF WakeSpuriously, TypeOK, Active
  <2> QED BY <1>6, <2>1 DEF WakeSpuriously, TypeOK, Counted, Parked
<1>7. ASSUME NEW w \in Worker, Skip(w) PROVE Base'
  <2>1. Active' = Active
    BY <1>7 DEF Skip, TypeOK, Active
  <2> QED BY <1>7, <2>1 DEF Skip, TypeOK, Counted, Parked
<1>8. ASSUME NEW w \in Worker, Mark(w) PROVE Base'
  <2>1. Active' = Active
    BY <1>8 DEF Mark, SetFlag, TypeOK, Active
  <2>2. Found(w) \in Node
    BY <1>0, <1>8 DEF Mark, SetFlag, TypeOK, Found
  <2> QED BY <1>8, <2>1, <2>2 DEF Mark, SetFlag, TypeOK, Counted, Parked
<1>9. ASSUME NEW w \in Worker, Push(w) PROVE Base'
  <2>1. Wakes([pc EXCEPT ![w] = "scan"])
    BY <1>0, <1>9, NotifyWakes DEF Push, Places
  <2>2. Active' = Active
    BY <1>0, <1>9, <2>1 DEF Push, Active, Wakes
  <2>3. Found(w) \in Node
    BY <1>0, <1>9 DEF Push, ScansInOrder, Active, Found, TypeOK
  <2>4. queue' \in Seq(Node)
    BY <1>9, <2>3, AppendFacts DEF Push, TypeOK
  <2>5. TypeOK'
    <3>1. next' \in [Worker -> Nat \ {0}]
      BY <1>9 DEF Push, TypeOK
    <3>2. pc' \in [Worker -> Places]
      BY <2>1 DEF Wakes
    <3> QED BY <1>9, <2>4, <3>1, <3>2 DEF Push, TypeOK, Places
  <2>6. Parked'
    BY <1>0, <1>9, <2>1 DEF Push, Parked, Wakes, TypeOK
  <2> QED BY <1>9, <2>2, <2>5, <2>6 DEF Push, Counted
<1>10. ASSUME NEW w \in Worker, Finish(w) PROVE Base'
  <2>1. Wakes([pc EXCEPT ![w] = "check"])
    <3>1. CASE working' = 0 /\ queue = <<>>
      BY <1>0, <1>10, <3>1, NotifyWakes DEF Finish, NothingLeft, Places
    <3>2. CASE ~(working' = 0 /\ queue = <<>>)
      BY <1>0, <1>10, <3>2 DEF Finish, NothingLeft, Wakes, Places
    <3> QED BY <3>1, <3>2
  <2>2. Active' = Active \ {w} /\ w \in Active
    BY <1>0, <1>10, <2>1 DEF Finish, NothingLeft, Active, Wakes
  <2>3. Cardinality(Active') = Cardinality(Active) - 1
    BY <2>2, ActiveFinite, FS_RemoveElement
  <2>4. Cardinality(Active') \in Nat
    BY <2>2, ActiveFinite, FS_Subset, FS_CardinalityType
  <2>5. Counted' /\ working' \in Nat
    BY <1>10, <2>3, <2>4 DEF Finish, NothingLeft, Counted
  <2>6. done' \in BOOLEAN
    BY <1>10 DEF Finish, NothingLeft, TypeOK
  <2>7. TypeOK'
    BY <1>10, <2>1, <2>5, <2>6 DEF Finish, NothingLeft, TypeOK, Wakes, Places
  <2>8. Parked'
    BY <1>0, <1>10, <2>1 DEF Finish, NothingLeft, Parked, Wakes, TypeOK
  <2> QED BY <2>5, <2>7, <2>8
<1>11. CASE UNCHANGED vars
  BY <1>11 DEF vars, TypeOK, Counted, Active, Parked
<1> QED
  BY <1>1, <1>2, <1>3, <1>4, <1>5, <1>6, <1>7, <1>8, <1>9, <1>10, <1>11
     DEF Next, WorkerStep, Terminated
-----------------------------------------------------------------------------
(* The traversal: marking, queueing and scanning. *)

Traversal == /\ ScansInOrder /\ NothingDropped /\ ScannedIsClosed
             /\ OnlyReachable /\ EachVertexOnce

\* A step that moves no worker into or out of a scan and touches no vertex.
Quiet == /\ UNCHANGED <<graph, visited, queue, node, next, start, runs, expanded>>
         /\ \A w \in Worker : pc'[w] = "scan" <=> pc[w] = "scan"
         /\ \A w \in Worker : pc'[w] = "push" <=> pc[w] = "push"

LEMMA InitTraversal == Init => Traversal
<1> SUFFICES ASSUME Init PROVE Traversal
  OBVIOUS
<1>1. Active = {} /\ queue = <<>> /\ visited = {} /\ expanded = {} /\ runs = 0
  BY DEF Init, Active
<1>2. \A w \in Worker : pc[w] = "exited"
  BY DEF Init
<1>3. Len(queue) = 0
  BY <1>1
<1> QED BY <1>1, <1>2, <1>3 DEF Traversal, ScansInOrder, NothingDropped,
           ScannedIsClosed, OnlyReachable, EachVertexOnce

LEMMA StepQuiet == IInv /\ Quiet => Traversal'
<1> SUFFICES ASSUME IInv, Quiet PROVE Traversal'
  OBVIOUS
<1>0. /\ UNCHANGED <<graph, visited, queue, node, next, start, runs, expanded>>
      /\ \A w \in Worker : pc'[w] = "push" <=> pc[w] = "push"
      /\ \A w \in Worker : Found(w)' = Found(w)
  BY DEF Quiet, Found
<1>1. Active' = Active
  <2>1. \A w \in Worker : pc'[w] \in {"scan", "push"} <=> pc[w] \in {"scan", "push"}
    BY DEF Quiet
  <2> QED BY <2>1 DEF Active
<1>2. ScansInOrder'
  BY <1>0, <1>1 DEF IInv, ScansInOrder, Active
<1>3. NothingDropped'
  BY DEF Quiet, IInv, NothingDropped, Found
<1>4. ScannedIsClosed'
  BY <1>1 DEF Quiet, IInv, ScannedIsClosed
<1>5. OnlyReachable'
  BY DEF Quiet, IInv, OnlyReachable
<1>6. EachVertexOnce'
  BY <1>0 DEF IInv, EachVertexOnce
<1> QED BY <1>2, <1>3, <1>4, <1>5, <1>6 DEF Traversal

LEMMA StepRun == ASSUME IInv, NEW s \in Node, Run(s) PROVE Traversal'
<1>1. /\ Active' = {} /\ visited' = {s} /\ expanded' = {} /\ start' = s
      /\ \A w \in Worker : pc'[w] = "check"
  BY DEF Run, Active
<1>2. graph' \in [Node -> Seq(Node)] /\ DOMAIN graph' = Node
  BY GraphsAssumption DEF Run, IInv, TypeOK
<1>3. queue = <<>>
  BY DEF Run, IInv, Parked
<1>4. Len(queue') = 1 /\ queue'[1] = s
  BY <1>3 DEF Run
<1>5. s \in Reachable(graph', start')
  BY <1>1, <1>2, ReachableStart
<1>6. NothingDropped' /\ ScansInOrder' /\ ScannedIsClosed'
  BY <1>1, <1>4 DEF NothingDropped, ScansInOrder, ScannedIsClosed
<1>7. OnlyReachable' /\ EachVertexOnce'
  BY <1>1, <1>4, <1>5 DEF OnlyReachable, EachVertexOnce
<1> QED BY <1>6, <1>7 DEF Traversal

LEMMA StepTake == ASSUME IInv, NEW w \in Worker, Take(w) PROVE Traversal'
<1> USE DEF IInv
<1>0. /\ TypeOK /\ queue \in Seq(Node) /\ queue # <<>>
      /\ graph \in [Node -> Seq(Node)]
  BY GraphsAssumption DEF Take, CountStart, TypeOK
<1>1. /\ Len(queue') = Len(queue) - 1 /\ Len(queue) \in Nat \ {0}
      /\ \A i \in 1..Len(queue') : queue'[i] = queue[i + 1]
      /\ Head(queue) = queue[1] /\ Head(queue) \in Node
  BY <1>0, TailFacts DEF Take, CountStart
<1>2. Active' = Active \cup {w} /\ w \notin Active
  BY <1>0 DEF Take, CountStart, TypeOK, Active
<1>3. /\ node'[w] = queue[1] /\ next'[w] = 1
      /\ \A v \in Active : node'[v] = node[v] /\ next'[v] = next[v] /\ pc'[v] = pc[v]
      /\ \A v \in Worker : pc'[v] = "push" <=> pc[v] = "push"
      /\ expanded' = expanded \cup {queue[1]}
      /\ graph' = graph /\ visited' = visited /\ start' = start /\ runs' = runs
  BY <1>0, <1>1, <1>2 DEF Take, CountStart, TypeOK, Active
<1>4. \A v \in Worker : pc[v] = "push" => v \in Active /\ Found(v)' = Found(v)
  BY <1>3 DEF Active, Found
<1>5. ScansInOrder'
  <2>1. Len(graph[node'[w]]) \in Nat /\ pc'[w] = "scan"
    BY <1>0, <1>1, <1>3 DEF Take, CountStart, TypeOK
  <2> QED BY <1>2, <1>3, <1>4, <2>1 DEF ScansInOrder, Active
<1>6. NothingDropped'
  <2> SUFFICES ASSUME NEW v \in visited, v \notin expanded'
               PROVE  \/ \E i \in 1..Len(queue') : queue'[i] = v
                      \/ \E u \in Worker : pc'[u] = "push" /\ Found(u)' = v
    BY <1>3 DEF NothingDropped
  <2>1. CASE \E u \in Worker : pc[u] = "push" /\ Found(u) = v
    BY <1>3, <1>4, <2>1
  <2>2. ASSUME NEW i \in 1..Len(queue), queue[i] = v
        PROVE  \E j \in 1..Len(queue') : queue'[j] = v
    <3>1. i # 1
      BY <1>3, <2>2
    <3>2. i - 1 \in 1..Len(queue') /\ queue'[i - 1] = v
      BY <1>1, <2>2, <3>1
    <3> QED BY <3>2
  <2> QED BY <1>3, <2>1, <2>2 DEF NothingDropped
<1>7. ScannedIsClosed'
  BY <1>2, <1>3 DEF ScannedIsClosed
<1>8. OnlyReachable'
  BY <1>1, <1>3 DEF OnlyReachable
<1>9. EachVertexOnce'
  <2>1. \A i \in 1..Len(queue') : i + 1 \in 1..Len(queue) /\ i + 1 # 1
    BY <1>1
  <2>2. 1 \in 1..Len(queue)
    BY <1>1
  <2>3. \A i \in 1..Len(queue') : queue'[i] \notin expanded'
    BY <1>1, <1>3, <2>1, <2>2 DEF EachVertexOnce
  <2>4. \A i, j \in 1..Len(queue') : queue'[i] = queue'[j] => i = j
    BY <1>1, <2>1 DEF EachVertexOnce
  <2>5. ASSUME NEW v \in Worker, pc[v] = "push"
        PROVE  /\ Found(v) \notin expanded'
               /\ \A i \in 1..Len(queue') : queue'[i] # Found(v)
    BY <1>1, <1>3, <2>1, <2>2, <2>5 DEF EachVertexOnce
  <2>6. \A u, v \in Worker : pc[u] = "push" /\ pc[v] = "push" /\ Found(u) = Found(v)
                               => u = v
    BY DEF EachVertexOnce
  <2> QED BY <1>3, <1>4, <2>3, <2>4, <2>5, <2>6 DEF EachVertexOnce
<1> QED BY <1>5, <1>6, <1>7, <1>8, <1>9 DEF Traversal

LEMMA StepSkip == ASSUME IInv, NEW w \in Worker, Skip(w) PROVE Traversal'
<1> USE DEF IInv
<1>0. TypeOK /\ w \in Active
  BY DEF Skip, Active
<1>1. /\ Active' = Active /\ next'[w] = next[w] + 1 /\ node' = node
      /\ \A v \in Active : v # w => next'[v] = next[v]
      /\ pc' = pc /\ graph' = graph /\ visited' = visited /\ queue' = queue
      /\ expanded' = expanded /\ start' = start /\ runs' = runs
  BY <1>0 DEF Skip, Active, TypeOK
<1>2. \A v \in Worker : pc[v] = "push" => v # w /\ Found(v)' = Found(v)
  BY <1>0, <1>1 DEF Skip, Found, Active
<1>3. ScansInOrder'
  <2>1. ASSUME NEW v \in Active, v # w PROVE next'[v] = next[v] /\ pc'[v] = pc[v]
    BY <1>1, <2>1
  <2>2. /\ next[w] \in Nat /\ Len(graph[node[w]]) \in Nat
        /\ next[w] <= Len(graph[node[w]]) /\ graph[node[w]][next[w]] \in visited
        /\ pc[w] = "scan"
    <3>1. graph[node[w]] \in Seq(Node)
      BY <1>0, GraphsAssumption DEF TypeOK
    <3> QED BY <1>0, <3>1 DEF Skip, TypeOK, Found
  <2>3. \A k \in 1..(next'[w] - 1) : graph[node[w]][k] \in visited
    BY <1>0, <1>1, <2>2 DEF ScansInOrder
  <2>4. ASSUME NEW v \in Active, v # w
        PROVE  /\ node[v] \in expanded
               /\ next'[v] <= Len(graph[node[v]]) + 1
               /\ \A k \in 1..(next'[v] - 1) : graph[node[v]][k] \in visited
               /\ pc[v] = "push" =>
                      next'[v] <= Len(graph[node[v]]) /\ Found(v)' \in visited
    BY <1>1, <1>2, <2>1, <2>4 DEF ScansInOrder, Active
  <2>5. /\ node[w] \in expanded /\ next'[w] <= Len(graph[node[w]]) + 1
        /\ pc[w] # "push"
    BY <1>0, <1>1, <2>2 DEF ScansInOrder
  <2> QED BY <1>1, <2>3, <2>4, <2>5 DEF ScansInOrder
<1>4. NothingDropped'
  BY <1>1, <1>2 DEF NothingDropped
<1>5. ScannedIsClosed' /\ OnlyReachable'
  BY <1>1 DEF ScannedIsClosed, OnlyReachable
<1>6. EachVertexOnce'
  BY <1>1, <1>2 DEF EachVertexOnce
<1> QED BY <1>3, <1>4, <1>5, <1>6 DEF Traversal

LEMMA StepMark == ASSUME IInv, NEW w \in Worker, Mark(w) PROVE Traversal'
<1> USE DEF IInv
<1>0. TypeOK /\ w \in Active /\ graph \in [Node -> Seq(Node)]
  BY GraphsAssumption DEF Mark, SetFlag, Active, TypeOK
<1>1. /\ Active' = Active /\ next' = next /\ node' = node
      /\ pc'[w] = "push" /\ \A v \in Worker : v # w => pc'[v] = pc[v]
      /\ graph' = graph /\ visited' = visited \cup {Found(w)} /\ queue' = queue
      /\ expanded' = expanded /\ start' = start /\ runs' = runs
      /\ pc[w] = "scan" /\ Found(w) \notin visited
      /\ next[w] <= Len(graph[node[w]])
  BY <1>0 DEF Mark, SetFlag, Active, TypeOK
<1>2. \A v \in Worker : Found(v)' = Found(v)
  BY <1>1 DEF Found
<1>3. \A v \in Active : pc[v] = "push" => Found(v) \in visited
  BY DEF ScansInOrder
<1>4. ScansInOrder'
  BY <1>0, <1>1, <1>2 DEF ScansInOrder, Active
<1>5. NothingDropped'
  BY <1>1, <1>2 DEF NothingDropped
<1>6. ScannedIsClosed'
  BY <1>1 DEF ScannedIsClosed
<1>7. OnlyReachable'
  <2>1. node[w] \in Reachable(graph, start)
    BY <1>0 DEF ScansInOrder, OnlyReachable
  <2>2. next[w] \in 1..Len(graph[node[w]])
    BY <1>0, <1>1 DEF TypeOK
  <2>3. Found(w) \in Reachable(graph, start)
    BY <1>0, <2>1, <2>2, ReachableStep DEF Found
  <2> QED BY <1>1, <2>3 DEF OnlyReachable
<1>8. EachVertexOnce'
  <2>1. /\ Found(w) \notin expanded
        /\ \A i \in 1..Len(queue) : queue[i] # Found(w)
    BY <1>1 DEF OnlyReachable
  <2>2. \A v \in Worker : pc[v] = "push" => Found(v) # Found(w)
    BY <1>1, <1>3 DEF Active
  <2> QED BY <1>1, <1>2, <2>1, <2>2 DEF EachVertexOnce
<1> QED BY <1>4, <1>5, <1>6, <1>7, <1>8 DEF Traversal

LEMMA StepPush == ASSUME IInv, NEW w \in Worker, Push(w) PROVE Traversal'
<1> USE DEF IInv
<1>0. TypeOK /\ w \in Active /\ graph \in [Node -> Seq(Node)] /\ pc \in [Worker -> Places]
  BY GraphsAssumption DEF Push, Active, TypeOK, Places
<1>1. Wakes([pc EXCEPT ![w] = "scan"])
  BY <1>0, NotifyWakes DEF Push, Places
<1>2. /\ pc'[w] = "scan" /\ pc[w] = "push"
      /\ \A v \in Worker : v # w => /\ pc'[v] = "scan" <=> pc[v] = "scan"
                                    /\ pc'[v] = "push" <=> pc[v] = "push"
  BY <1>0, <1>1 DEF Wakes, Push
<1>3. Active' = Active
  <2>1. \A v \in Worker : pc'[v] \in {"scan", "push"} <=> pc[v] \in {"scan", "push"}
    BY <1>2
  <2> QED BY <2>1 DEF Active
<1>4. /\ next'[w] = next[w] + 1 /\ \A v \in Worker : v # w => next'[v] = next[v]
      /\ node' = node /\ graph' = graph /\ visited' = visited
      /\ expanded' = expanded /\ start' = start /\ runs' = runs
  BY <1>0 DEF Push, TypeOK
<1>5. \A v \in Worker : v # w => Found(v)' = Found(v)
  BY <1>4 DEF Found
<1>6. /\ next[w] \in Nat \ {0} /\ next[w] <= Len(graph[node[w]])
      /\ Len(graph[node[w]]) \in Nat
      /\ Found(w) \in visited /\ Found(w) = graph[node[w]][next[w]]
      /\ Found(w) \in Node /\ node[w] \in expanded
  BY <1>0, <1>2 DEF ScansInOrder, TypeOK, Found
<1>7. /\ Len(queue') = Len(queue) + 1 /\ Len(queue) \in Nat
      /\ \A i \in 1..Len(queue) : queue'[i] = queue[i]
      /\ queue'[Len(queue) + 1] = Found(w)
  BY <1>0, <1>6, AppendFacts DEF Push, TypeOK
<1>8. ScansInOrder'
  <2>1. \A k \in 1..(next'[w] - 1) : graph[node[w]][k] \in visited
    <3> SUFFICES ASSUME NEW k \in 1..next[w] PROVE graph[node[w]][k] \in visited
      BY <1>4, <1>6
    <3>1. CASE k = next[w]
      BY <1>6, <3>1
    <3>2. CASE k \in 1..(next[w] - 1)
      BY <1>0, <3>2 DEF ScansInOrder
    <3> QED BY <1>6, <3>1, <3>2
  <2>2. next'[w] <= Len(graph[node[w]]) + 1
    BY <1>4, <1>6
  <2>3. ASSUME NEW v \in Active, v # w
        PROVE  /\ node[v] \in expanded
               /\ next'[v] <= Len(graph[node[v]]) + 1
               /\ \A k \in 1..(next'[v] - 1) : graph[node[v]][k] \in visited
               /\ pc'[v] = "push" =>
                      next'[v] <= Len(graph[node[v]]) /\ Found(v)' \in visited
    BY <1>2, <1>4, <1>5, <2>3 DEF ScansInOrder, Active
  <2> QED BY <1>2, <1>3, <1>4, <1>6, <2>1, <2>2, <2>3 DEF ScansInOrder
<1>9. NothingDropped'
  <2> SUFFICES ASSUME NEW v \in visited, v \notin expanded
               PROVE  \/ \E i \in 1..Len(queue') : queue'[i] = v
                      \/ \E u \in Worker : pc'[u] = "push" /\ Found(u)' = v
    BY <1>4 DEF NothingDropped
  <2>1. CASE v = Found(w)
    <3>1. Len(queue) + 1 \in 1..Len(queue')
      BY <1>7
    <3> QED BY <1>7, <2>1, <3>1
  <2>2. CASE \E i \in 1..Len(queue) : queue[i] = v
    BY <1>7, <2>2
  <2>3. CASE \E u \in Worker : u # w /\ pc[u] = "push" /\ Found(u) = v
    BY <1>2, <1>5, <2>3
  <2> QED BY <2>1, <2>2, <2>3 DEF NothingDropped
<1>10. ScannedIsClosed'
  BY <1>3, <1>4 DEF ScannedIsClosed
<1>11. \A i \in 1..Len(queue') : \/ i \in 1..Len(queue)
                                 \/ queue'[i] = Found(w) /\ i = Len(queue) + 1
  BY <1>7
<1>12. OnlyReachable'
  BY <1>4, <1>6, <1>7, <1>11 DEF OnlyReachable
<1>13. EachVertexOnce'
  <2>1. /\ Found(w) \notin expanded
        /\ \A i \in 1..Len(queue) : queue[i] # Found(w)
    BY <1>2 DEF EachVertexOnce
  <2>2. \A i \in 1..Len(queue') : queue'[i] \notin expanded
    BY <1>7, <1>11, <2>1 DEF EachVertexOnce
  <2>3. \A i, j \in 1..Len(queue') : queue'[i] = queue'[j] => i = j
    BY <1>7, <1>11, <2>1 DEF EachVertexOnce
  <2>4. ASSUME NEW v \in Worker, pc'[v] = "push"
        PROVE  /\ v # w /\ pc[v] = "push" /\ Found(v)' = Found(v)
               /\ Found(v) # Found(w)
    BY <1>2, <1>5, <2>4 DEF EachVertexOnce
  <2>5. ASSUME NEW v \in Worker, pc'[v] = "push"
        PROVE  /\ Found(v)' \notin expanded
               /\ \A i \in 1..Len(queue') : queue'[i] # Found(v)'
    BY <1>7, <1>11, <2>4, <2>5 DEF EachVertexOnce
  <2>6. \A u, v \in Worker : pc'[u] = "push" /\ pc'[v] = "push" /\ Found(u)' = Found(v)'
                               => u = v
    BY <2>4 DEF EachVertexOnce
  <2> QED BY <1>4, <2>2, <2>3, <2>5, <2>6 DEF EachVertexOnce
<1> QED BY <1>8, <1>9, <1>10, <1>12, <1>13 DEF Traversal

LEMMA StepFinish == ASSUME IInv, NEW w \in Worker, Finish(w) PROVE Traversal'
<1> USE DEF IInv
<1>0. TypeOK /\ w \in Active /\ graph \in [Node -> Seq(Node)] /\ pc \in [Worker -> Places]
  BY GraphsAssumption DEF Finish, NothingLeft, Active, TypeOK, Places
<1>1. Wakes([pc EXCEPT ![w] = "check"])
  <2>1. CASE working' = 0 /\ queue = <<>>
    BY <1>0, <2>1, NotifyWakes DEF Finish, NothingLeft, Places
  <2>2. CASE ~(working' = 0 /\ queue = <<>>)
    BY <1>0, <2>2 DEF Finish, NothingLeft, Wakes, Places
  <2> QED BY <2>1, <2>2
<1>2. /\ pc'[w] = "check" /\ pc[w] = "scan"
      /\ \A v \in Worker : v # w => /\ pc'[v] = "scan" <=> pc[v] = "scan"
                                    /\ pc'[v] = "push" <=> pc[v] = "push"
  BY <1>0, <1>1 DEF Wakes, Finish, NothingLeft
<1>3. Active' = Active \ {w}
  <2>1. \A v \in Worker : pc'[v] \in {"scan", "push"} <=>
                              v # w /\ pc[v] \in {"scan", "push"}
    BY <1>2
  <2> QED BY <2>1 DEF Active
<1>4. UNCHANGED <<graph, visited, queue, node, next, start, runs, expanded>>
  BY DEF Finish, NothingLeft
<1>5. \A v \in Worker : Found(v)' = Found(v) /\ (pc'[v] = "push" <=> pc[v] = "push")
  BY <1>2, <1>4 DEF Found
<1>6. ScansInOrder'
  BY <1>3, <1>4, <1>5 DEF ScansInOrder, Active
<1>7. NothingDropped'
  BY <1>4, <1>5 DEF NothingDropped
<1>8. ScannedIsClosed'
  <2>1. next[w] - 1 >= Len(graph[node[w]]) /\ next[w] \in Nat
        /\ Len(graph[node[w]]) \in Nat
    BY <1>0 DEF Finish, NothingLeft, TypeOK
  <2>2. \A k \in 1..Len(graph[node[w]]) : graph[node[w]][k] \in visited
    BY <1>0, <2>1 DEF ScansInOrder
  <2>3. ASSUME NEW v \in expanded
        PROVE  \/ \A k \in 1..Len(graph[v]) : graph[v][k] \in visited
               \/ \E u \in Active' : node[u] = v
    BY <1>3, <2>2 DEF ScannedIsClosed
  <2> QED BY <1>4, <2>3 DEF ScannedIsClosed
<1>9. OnlyReachable' /\ EachVertexOnce'
  BY <1>4, <1>5 DEF OnlyReachable, EachVertexOnce
<1> QED BY <1>6, <1>7, <1>8, <1>9 DEF Traversal

LEMMA StepTraversal == IInv /\ [Next]_vars => Traversal'
<1> SUFFICES ASSUME IInv, [Next]_vars PROVE Traversal'
  OBVIOUS
<1>1. ASSUME NEW s \in Node, Run(s) PROVE Traversal'
  BY <1>1, StepRun
<1>2. CASE Join
  BY <1>2, StepQuiet DEF Join, Quiet
<1>3. ASSUME NEW w \in Worker, WakeSpuriously(w) \/ Exit(w) \/ Wait(w)
      PROVE  Traversal'
  <2>1. Quiet
    BY <1>3 DEF WakeSpuriously, Exit, MayLeave, Wait, Quiet, IInv, TypeOK
  <2> QED BY <2>1, StepQuiet
<1>4. ASSUME NEW w \in Worker, Take(w) \/ Skip(w) \/ Mark(w) \/ Push(w) \/ Finish(w)
      PROVE  Traversal'
  BY <1>4, StepTake, StepSkip, StepMark, StepPush, StepFinish
<1>5. CASE UNCHANGED vars
  BY <1>5, StepQuiet DEF vars, Quiet
<1> QED BY <1>1, <1>2, <1>3, <1>4, <1>5 DEF Next, WorkerStep, Terminated
-----------------------------------------------------------------------------
(* `done`: who sets it, and that nobody sleeps through the end. *)

LEMMA StepDone == IInv /\ [Next]_vars => WorkInHand' /\ DoneComesLast'
<1> SUFFICES ASSUME IInv, [Next]_vars PROVE WorkInHand' /\ DoneComesLast'
  OBVIOUS
<1> USE DEF IInv
<1>0. TypeOK /\ pc \in [Worker -> Places] /\ WorkInHand /\ DoneComesLast
  BY DEF TypeOK, Places
<1>1. ASSUME NEW s \in Node, Run(s) PROVE WorkInHand' /\ DoneComesLast'
  <2>1. PICK w \in Worker : TRUE
    BY WorkerAssumption
  <2>2. queue' # <<>> /\ pc'[w] = "check"
    BY <1>1, AppendFacts DEF Run, TypeOK
  <2>3. runs' <= 1 => runs = 0 /\ ~done'
    BY <1>0, <1>1 DEF Run, DoneComesLast, TypeOK
  <2>4. runs' # 0
    BY <1>0, <1>1 DEF Run, TypeOK
  <2> QED BY <2>2, <2>3, <2>4 DEF WorkInHand, DoneComesLast
<1>2. CASE Join
  BY <1>0, <1>2 DEF Join, WorkInHand, DoneComesLast, Active
<1>3. ASSUME NEW w \in Worker, Take(w) PROVE WorkInHand' /\ DoneComesLast'
  <2>1. w \in Active'
    BY <1>0, <1>3 DEF Take, CountStart, Active
  <2>2. runs <= 1 => ~done
    BY <1>0, <1>3 DEF Take, CountStart, DoneComesLast
  <2>3. runs' = runs /\ done' = done
    BY <1>3 DEF Take, CountStart
  <2> QED BY <1>0, <2>1, <2>2, <2>3 DEF WorkInHand, DoneComesLast
<1>4. ASSUME NEW w \in Worker, Exit(w) \/ Wait(w) \/ WakeSpuriously(w)
      PROVE  WorkInHand' /\ DoneComesLast'
  <2>1. \A v \in Worker : pc'[v] \in {"scan", "push"} <=> pc[v] \in {"scan", "push"}
    BY <1>0, <1>4 DEF Exit, MayLeave, Wait, WakeSpuriously
  <2>2. Active' = Active
    BY <2>1 DEF Active
  <2>3. UNCHANGED <<queue, done, main, runs>>
    BY <1>4 DEF Exit, MayLeave, Wait, WakeSpuriously
  <2>4. queue # <<>> /\ ~done => \A v \in Worker : pc[v] = "check" => pc'[v] = "check"
    BY <1>0, <1>4 DEF Exit, MayLeave, Wait, WakeSpuriously
  <2> QED BY <1>0, <2>2, <2>3, <2>4 DEF WorkInHand, DoneComesLast
<1>5. ASSUME NEW w \in Worker, Skip(w) \/ Mark(w)
      PROVE  WorkInHand' /\ DoneComesLast'
  <2>1. w \in Active /\ w \in Active' /\ UNCHANGED <<queue, done, main, runs>>
    BY <1>0, <1>5 DEF Skip, Mark, SetFlag, Active
  <2> QED BY <1>0, <2>1 DEF WorkInHand, DoneComesLast
<1>6. ASSUME NEW w \in Worker, Push(w) PROVE WorkInHand' /\ DoneComesLast'
  <2>1. Wakes([pc EXCEPT ![w] = "scan"])
    BY <1>0, <1>6, NotifyWakes DEF Push, Places
  <2>2. w \in Active /\ w \in Active' /\ UNCHANGED <<done, main, runs>>
    BY <1>0, <1>6, <2>1 DEF Push, Active, Wakes
  <2> QED BY <1>0, <2>2 DEF WorkInHand, DoneComesLast
<1>7. ASSUME NEW w \in Worker, Finish(w) PROVE WorkInHand' /\ DoneComesLast'
  <2>1. pc'[w] = "check"
    BY <1>0, <1>7 DEF Finish, NothingLeft, NotifyAll
  <2>2. Counted'
    BY StepBase DEF Base
  <2>3. IsFiniteSet(Active')
    <3>1. Active' \subseteq Worker
      BY DEF Active
    <3> QED BY <3>1, WorkerAssumption, FS_Subset
  <2>4. working' = 0 <=> Active' = {}
    BY <2>2, <2>3, FS_EmptySet DEF Counted
  <2>5. w \in Active /\ UNCHANGED <<queue, main, runs>>
    BY <1>0, <1>7 DEF Finish, NothingLeft, Active
  <2>6. done' <=> (done \/ (working' = 0 /\ queue = <<>>))
    BY <1>7 DEF Finish, NothingLeft
  <2>7. WorkInHand'
    BY <2>1, <2>4, <2>5, <2>6 DEF WorkInHand
  <2>8. runs <= 1 => ~done
    BY <1>0, <2>5 DEF DoneComesLast
  <2>9. runs # 0
    BY <1>0, <1>7 DEF Finish, NothingLeft, Parked, TypeOK
  <2> QED BY <2>4, <2>5, <2>6, <2>7, <2>8, <2>9 DEF DoneComesLast
<1>8. CASE UNCHANGED vars
  BY <1>0, <1>8 DEF vars, WorkInHand, DoneComesLast, Active
<1> QED BY <1>1, <1>2, <1>3, <1>4, <1>5, <1>6, <1>7, <1>8
        DEF Next, WorkerStep, Terminated
-----------------------------------------------------------------------------
(* The theorems. *)

LEMMA InitDone == Init => WorkInHand /\ DoneComesLast
BY DEF Init, WorkInHand, DoneComesLast

LEMMA IInvEqual == IInv <=> Base /\ Traversal /\ WorkInHand /\ DoneComesLast
BY DEF IInv, Base, Traversal

\* The invariant every theorem below rests on.
LEMMA Invariance == Spec => []IInv
<1>1. Init => IInv
  BY InitBase, InitTraversal, InitDone, IInvEqual
<1>2. IInv /\ [Next]_vars => IInv'
  <2> SUFFICES ASSUME IInv, [Next]_vars PROVE IInv'
    OBVIOUS
  <2>1. Base' /\ Traversal' /\ WorkInHand' /\ DoneComesLast'
    BY StepBase, StepTraversal, StepDone
  <2> QED BY <2>1 DEF IInv, Base, Traversal
<1> QED BY <1>1, <1>2, PTL DEF Spec

\* Every variable keeps its type; in particular working, which is decremented
\* without a check, is never negative.
THEOREM TypeCorrect == Spec => []TypeOK
<1>1. IInv => TypeOK
  BY DEF IInv
<1> QED BY <1>1, Invariance, PTL

\* visited[..].exchange(true) lets one worker through per vertex, so no vertex
\* is ever queued or handed to processNode twice.
THEOREM OncePerVertex == Spec => []EachVertexOnce
<1>1. IInv => EachVertexOnce
  BY DEF IInv
<1> QED BY <1>1, Invariance, PTL

\* No worker active and nothing queued: what is marked is closed.
LEMMA QuiescentIsClosed ==
    ASSUME IInv, Active = {}, queue = <<>>
    PROVE  Closed(graph, visited) /\ expanded = visited /\ working = 0
<1> USE DEF IInv
<1>1. \A w \in Worker : pc[w] # "push"
  BY DEF Active
<1>2. expanded = visited
  <2>1. 1..Len(queue) = {}
    OBVIOUS
  <2>2. \A v \in visited : v \in expanded
    BY <1>1, <2>1 DEF NothingDropped
  <2> QED BY <2>2 DEF OnlyReachable
<1>3. \A v \in visited : graph[v] \in Seq(Node)
  BY GraphsAssumption DEF TypeOK
<1>4. Closed(graph, visited)
  BY <1>2, <1>3 DEF ScannedIsClosed, Closed
<1>5. working = 0
  BY FS_EmptySet DEF Counted
<1> QED BY <1>2, <1>4, <1>5

LEMMA ReturnIsComplete ==
    ASSUME IInv, runs > 0, \A w \in Worker : pc[w] = "exited"
    PROVE  /\ Closed(graph, visited) /\ visited = Reachable(graph, start)
           /\ expanded = visited /\ queue = <<>> /\ working = 0
<1> USE DEF IInv
<1>1. Active = {} /\ queue = <<>>
  BY DEF Active, Parked
<1>2. Closed(graph, visited) /\ expanded = visited /\ working = 0
  BY <1>1, QuiescentIsClosed
<1>3. visited \in SUBSET DOMAIN graph /\ start \in visited
  BY GraphsAssumption DEF TypeOK, OnlyReachable
<1>4. visited = Reachable(graph, start)
  BY <1>2, <1>3, ClosedContainsReachable DEF OnlyReachable
<1> QED BY <1>1, <1>2, <1>4

\* run() returns with exactly the reachable vertices visited and processed, in
\* the first run and in every later one, where `done` is stale.
THEOREM RunIsComplete == Spec => []ReturnsReachable
<1>1. IInv => ReturnsReachable
  BY ReturnIsComplete DEF ReturnsReachable, IInv, Parked
<1> QED BY <1>1, Invariance, PTL

\* The workers are never all asleep while a run goes on.
THEOREM NeverAllAsleep == Spec => []SomeWorkerAwake
<1>1. IInv => SomeWorkerAwake
  BY DEF IInv, WorkInHand, SomeWorkerAwake, Active
<1> QED BY <1>1, Invariance, PTL

\* In the first run, `done` says that the whole traversal is over.
THEOREM FirstDoneIsFinal == Spec => []DoneMeansFinished
<1>1. IInv => DoneMeansFinished
  BY QuiescentIsClosed DEF IInv, DoneComesLast, DoneMeansFinished
<1> QED BY <1>1, Invariance, PTL

\* The concurrent traversal implements the abstract one: run() is a Start, the
\* exchange of a clear flag a Mark, the last join a Return, and every other
\* step is invisible to the caller.
THEOREM ImplementsSearch == Spec => SearchSpec
<1>1. Init => Search!Init
  BY DEF Init, Search!Init
<1>2. IInv /\ [Next]_vars => [Search!Next]_(Search!vars)
  <2> SUFFICES ASSUME IInv, [Next]_vars PROVE [Search!Next]_(Search!vars)
    OBVIOUS
  <2> USE DEF IInv
  <2>0. graph \in [Node -> Seq(Node)] /\ DOMAIN graph = Node
    BY GraphsAssumption DEF TypeOK
  <2>1. ASSUME NEW s \in Node, Run(s) PROVE Search!Next
    <3>1. Search!Start(s)
      BY <2>1 DEF Run, Search!Start
    <3> QED BY <2>0, <3>1 DEF Search!Next
  <2>2. CASE Join
    <3>1. runs > 0
      BY <2>2 DEF Join, Parked
    <3>2. Closed(graph, visited)
      BY <2>2, <3>1, ReturnIsComplete DEF Join
    <3>3. main = "running" /\ main' = "idle" /\ UNCHANGED <<graph, visited>>
      BY <2>2 DEF Join
    <3>4. Search!Return
      BY <3>2, <3>3 DEF Search!Return, Search!Closed, Closed
    <3> QED BY <3>4 DEF Search!Next
  <2>3. ASSUME NEW w \in Worker, Mark(w) PROVE Search!Next
    <3>1. /\ node[w] \in visited /\ next[w] \in DOMAIN graph[node[w]]
          /\ Found(w) \in Node
      BY <2>0, <2>3 DEF Mark, SetFlag, ScansInOrder, Active, OnlyReachable, TypeOK, Found
    <3>2. Edge(graph, node[w], Found(w))
      BY <3>1 DEF Edge, Found
    <3>3. main = "running"
      BY <2>3 DEF Mark, SetFlag, Parked, TypeOK
    <3>4. Search!Mark(Found(w))
      BY <2>3, <3>1, <3>2, <3>3 DEF Mark, SetFlag, Search!Mark, Search!Edge, Edge
    <3> QED BY <2>0, <3>1, <3>4 DEF Search!Next
  <2>4. CASE UNCHANGED <<graph, visited, main>>
    BY <2>4 DEF Search!vars
  <2> QED BY <2>1, <2>2, <2>3, <2>4 DEF Next, WorkerStep, Terminated, vars,
             Take, Exit, Wait, WakeSpuriously, Skip, Push, Finish
<1> QED BY <1>1, <1>2, Invariance, PTL DEF Spec, SearchSpec, Search!Spec
=============================================================================
