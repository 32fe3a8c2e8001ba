---------------------------- MODULE GraphPrograms ----------------------------
(***************************************************************************)
(* The graph programs: the adjacency lists of graph.c under all sequences  *)
(* of calls, the depth-first search of dfs.c, dijkstra.cpp, and the        *)
(* breadth-first searches over MPI.  A graph has the vertices 0, 1, ...,   *)
(* each with its list of edges, head first.  `at` says where each MPI      *)
(* process is; the other programs are process Root.                        *)
(***************************************************************************)
EXTENDS Integers, Sequences, FiniteSets, FiniteSetsExt, Reachability

CONSTANTS Programs,      \* the files checked
          Rank, Root,    \* the MPI processes, and the one with rank 0
          MaxVertices,   \* bound: the vertices of graph.c and dfs.c
          MaxEdges,      \* bound: the entries in their lists
          VertexValue, Weight,
          Searched,      \* bounds: the vertices and the edges of the graphs that
          SearchedEdges, \* dijkstra and distributed_bfs search
          numVertices, branchingFactor  \* of the tests of distributed_bfs_2d.cpp

VARIABLES file, graph,
          vertexValue,   \* graph.c: the value of each vertex
          at,
          distance,      \* what each process has found of the distances
          changed,       \* distributed_bfs: the flag of each process
          work,          \* the call stack of DFS, the queue of parallelBFS
          heap,          \* the pairs (distance, vertex) in dijkstra's queue
          visited, order \* dfs.c: the vertices marked, and those printed

searching == <<distance, changed, work, heap, visited, order>>

Edge1(d, w) == [dest |-> d, weight |-> w]
Vertices == DOMAIN graph
createGraph(size) == [v \in 0..(size - 1) |-> <<>>]
EdgeCount == Cardinality(UNION {{v} \X DOMAIN graph[v] : v \in Vertices})
Neighbours == [v \in Vertices |-> [k \in DOMAIN graph[v] |-> graph[v][k].dest]]
Only(s) == [r \in Rank |-> IF r = Root THEN s ELSE "none"]

\* More than any distance.
INF == 1000
Unreached == [v \in Vertices |-> INF]
-----------------------------------------------------------------------------
(* graph.c: a vertex is its index. *)

\* Whether the list of x has y; the mutation looks no further than the head.
HeadOnly(x, y) == graph[x] # <<>> /\ Head(graph[x]).dest = y
adjacent(x, y) == \E k \in DOMAIN graph[x] : graph[x][k].dest = y
FirstTo(x, y) == CHOOSE k \in DOMAIN graph[x] : /\ graph[x][k].dest = y
                                                /\ \A j \in 1..(k - 1) : graph[x][j].dest # y
Without(s, k) == SubSeq(s, 1, k - 1) \o SubSeq(s, k + 1, Len(s))
get_edge_value(x, y) == IF adjacent(x, y) THEN graph[x][FirstTo(x, y)].weight ELSE -1

add_edge(x, y, w) ==
    /\ graph' = IF adjacent(x, y) THEN graph ELSE [graph EXCEPT ![x] = <<Edge1(y, w)>> \o @]
    /\ UNCHANGED vertexValue
remove_edge(x, y) ==
    /\ graph' = IF adjacent(x, y) THEN [graph EXCEPT ![x] = Without(@, FirstTo(x, y))] ELSE graph
    /\ UNCHANGED vertexValue
set_edge_value(x, y, w) ==
    /\ graph' = IF adjacent(x, y) THEN [graph EXCEPT ![x][FirstTo(x, y)].weight = w] ELSE graph
    /\ UNCHANGED vertexValue
set_vertex_value(x, u) == vertexValue' = [vertexValue EXCEPT ![x] = u] /\ UNCHANGED graph
add_vertex(u) ==
    LET new == Cardinality(Vertices)
    IN /\ graph' = [v \in 0..new |-> IF v = new THEN <<>> ELSE graph[v]]
       /\ vertexValue' = [v \in 0..new |-> IF v = new THEN u ELSE vertexValue[v]]

\* The vertices behind the removed one move down; the edges to it are freed and those
\* to a vertex that moved follow it.  Above(x, v) is where vertex v was before.
Above(x, v) == IF v < x THEN v ELSE v + 1
LeftBehind(e, x) == e    \* the mutation leaves the edges as they are
Moved(e, x) == IF e.dest > x THEN [e EXCEPT !.dest = @ - 1] ELSE e
remove_vertex(x) ==
    LET rest == 0..(Cardinality(Vertices) - 2)
        kept(s) == SelectSeq(s, LAMBDA e : e.dest # x)
    IN /\ graph' = [v \in rest |-> LET s == kept(graph[Above(x, v)])
                                   IN [k \in DOMAIN s |-> Moved(s[k], x)]]
       /\ vertexValue' = [v \in rest |-> vertexValue[Above(x, v)]]

Calls == /\ file = "graph.c" /\ at[Root] = "call"
         /\ \/ \E x, y \in Vertices : \/ \E w \in Weight : \/ EdgeCount < MaxEdges /\ add_edge(x, y, w)
                                                           \/ set_edge_value(x, y, w)
                                      \/ remove_edge(x, y)
            \/ \E x \in Vertices : remove_vertex(x) \/ \E u \in VertexValue : set_vertex_value(x, u)
            \/ \E u \in VertexValue : Cardinality(Vertices) < MaxVertices /\ add_vertex(u)
         /\ UNCHANGED <<at, searching>>

\* freeGraph frees every list and the vertices; no call comes after it.
FreeGraph == /\ file = "graph.c" /\ at[Root] = "call"
             /\ at' = Only("done") /\ graph' = <<>> /\ vertexValue' = <<>>
             /\ UNCHANGED searching
-----------------------------------------------------------------------------
(* dfs.c: edges are added in both directions, then DFS is called for vertices that *)
(* are not visited yet.  A stack frame is a vertex and what follows in its list.    *)

addEdge(x, y) == LET once == [graph EXCEPT ![x] = <<Edge1(y, 1)>> \o @]
                 IN graph' = [once EXCEPT ![y] = <<Edge1(x, 1)>> \o @]
Build == /\ file = "dfs.c" /\ at[Root] = "call" /\ EdgeCount < 2 * MaxEdges
         /\ \E x, y \in Vertices : addEdge(x, y)
         /\ UNCHANGED <<vertexValue, at, searching>>

Enter(v, below) == /\ visited' = visited \cup {v}
                   /\ order' = Append(order, v)
                   /\ work' = <<[vertex |-> v, rest |-> Neighbours[v]]>> \o below
DFS(v) == /\ file = "dfs.c" /\ work = <<>> /\ v \notin visited
          /\ Enter(v, <<>>)
          /\ at' = Only("search")
          /\ UNCHANGED <<graph, vertexValue, distance, changed, heap>>

\* Whether DFS is called for a neighbour; the mutation does so only if it is the last.
OnlyTheLast(top) == Head(top.rest) \notin visited /\ Tail(top.rest) = <<>>
Recurs(top) == Head(top.rest) \notin visited

Neighbour == /\ file = "dfs.c" /\ work # <<>>
             /\ LET top == Head(work)
                IN IF top.rest = <<>>
                   THEN work' = Tail(work) /\ UNCHANGED <<visited, order>>
                   ELSE LET below == <<[top EXCEPT !.rest = Tail(@)]>> \o Tail(work)
                        IN IF Recurs(top) THEN Enter(Head(top.rest), below)
                           ELSE work' = below /\ UNCHANGED <<visited, order>>
             /\ UNCHANGED <<graph, vertexValue, at, distance, changed, heap>>
-----------------------------------------------------------------------------
(* dijkstra.cpp: one step per pair taken from the priority queue. *)

\* Whether edge e out of u shortens the way; the mutation settles a vertex once it is reached.
OnlyOnce(d, u, e) == d[e.dest] = INF
Shorter(d, u, e) == d[u] + e.weight < d[e.dest]
Relaxed(u) ==
    LET scan[k \in Nat, d \in [Vertices -> 0..INF], q \in SUBSET ((0..INF) \X Vertices)] ==
            LET e == graph[u][k]
            IN CASE k > Len(graph[u]) -> [d |-> d, q |-> q]
                 [] k <= Len(graph[u]) /\ Shorter(d, u, e) ->
                        scan[k + 1, [d EXCEPT ![e.dest] = d[u] + e.weight],
                             q \cup {<<d[u] + e.weight, e.dest>>}]
                 [] OTHER -> scan[k + 1, d, q]
    IN scan[1, distance[Root], heap \ {<<distance[Root][u], u>>}]

\* The pair that greater<> puts on top.
Smallest(S) == CHOOSE p \in S : \A q \in S : p[1] < q[1] \/ (p[1] = q[1] /\ p[2] <= q[2])
PopNearest ==
    /\ file = "dijkstra.cpp" /\ heap # {}
    /\ LET p == Smallest(heap)
           found == Relaxed(p[2])
       IN IF p[1] > distance[Root][p[2]]
          THEN heap' = heap \ {p} /\ UNCHANGED distance
          ELSE heap' = found.q /\ distance' = [distance EXCEPT ![Root] = found.d]
    /\ UNCHANGED <<graph, vertexValue, at, changed, work, visited, order>>
-----------------------------------------------------------------------------
(* distributed_bfs.cpp: every process has the whole graph and its own levels.  A     *)
(* round scans all vertices and then combines the levels and the flags of all.       *)

Reached(l, v) == l[v] # INF
Parents(l, v) == {u \in Vertices : Reached(l, u) /\ Edge(Neighbours, u, v)}
\* The last vertex scanned that has v in its list is the one whose level counts.
level_changes(l) == [v \in Vertices |-> IF ~Reached(l, v) /\ Parents(l, v) # {}
                                        THEN l[Max(Parents(l, v))] + 1 ELSE 0]
Scan(r) ==
    /\ file = "distributed_bfs.cpp" /\ at[r] = "scan"
    /\ LET changes == level_changes(distance[r])
       IN /\ distance' = [distance EXCEPT ![r] = [v \in Vertices |-> IF changes[v] # 0 THEN changes[v] ELSE @[v]]]
          /\ changed' = [changed EXCEPT ![r] = \E v \in Vertices : changes[v] # 0]
    /\ at' = [at EXCEPT ![r] = "levels"]
    /\ UNCHANGED <<graph, vertexValue, work, heap, visited, order>>

\* A collective call returns when every process has made it.
Collective(here, there) == (\A r \in Rank : at[r] = here) /\ at' = [r \in Rank |-> there]
AllreduceLevels ==
    /\ file = "distributed_bfs.cpp" /\ Collective("levels", "changed")
    /\ distance' = [r \in Rank |-> [v \in Vertices |-> Min({distance[s][v] : s \in Rank})]]
    /\ UNCHANGED <<graph, vertexValue, changed, work, heap, visited, order>>
AllreduceChanged ==
    LET any == \E r \in Rank : changed[r]
    IN /\ file = "distributed_bfs.cpp" /\ Collective("changed", IF any THEN "scan" ELSE "done")
       /\ changed' = [r \in Rank |-> any]
       /\ UNCHANGED <<graph, vertexValue, distance, work, heap, visited, order>>
-----------------------------------------------------------------------------
(* distributed_bfs_2d.cpp: the processes set up their communicators, the one with   *)
(* rank 0 runs the three tests alone, and all meet at the barrier.                   *)

Both(g, x, y) == LET once == [g EXCEPT ![x] = Append(@, Edge1(y, 1))]
                 IN [once EXCEPT ![y] = Append(@, Edge1(x, 1))]
createLinearGraph(size) ==
    LET g[i \in 0..(size - 1)] == IF i = 0 THEN createGraph(size) ELSE Both(g[i - 1], i - 1, i)
    IN g[size - 1]
createCompleteGraph(size) ==
    [v \in 0..(size - 1) |-> [k \in 1..(size - 1) |-> Edge1(IF k <= v THEN k - 1 ELSE k, 1)]]
\* Edge number c, from vertex c, goes to 1 + c \div branchingFactor, itself for c = 1.
createSparseGraph(size) ==
    LET g[c \in 0..(size - 1)] ==
            IF c = 0 THEN createGraph(size) ELSE Both(g[c - 1], c - 1, 1 + ((c - 1) \div branchingFactor))
    IN g[size - 1]

StartTest(next, g) == /\ at' = [at EXCEPT ![Root] = next]
                      /\ graph' = g
                      /\ distance' = [distance EXCEPT ![Root] = [v \in DOMAIN g |-> IF v = 0 THEN 0 ELSE -1]]
                      /\ work' = <<0>>
Setup == /\ file = "distributed_bfs_2d.cpp"
         /\ \/ Collective("cart", "row") \/ Collective("row", "col")
            \/ Collective("col", "main") \/ Collective("barrier", "done")
         /\ UNCHANGED <<graph, vertexValue, searching>>
RunTests == /\ file = "distributed_bfs_2d.cpp" /\ work = <<>>
            /\ \/ at[Root] = "main" /\ StartTest("linear", createLinearGraph(numVertices))
               \/ at[Root] = "linear" /\ StartTest("complete", createCompleteGraph(numVertices))
               \/ at[Root] = "complete" /\ StartTest("sparse", createSparseGraph(numVertices))
               \/ /\ at[Root] = "sparse" /\ at' = [at EXCEPT ![Root] = "barrier"]
                  /\ UNCHANGED <<graph, distance, work>>
            /\ UNCHANGED <<vertexValue, changed, heap, visited, order>>
SkipTests(r) == /\ file = "distributed_bfs_2d.cpp" /\ r # Root /\ at[r] = "main"
                /\ at' = [at EXCEPT ![r] = "barrier"]
                /\ UNCHANGED <<graph, vertexValue, searching>>

\* parallelBFS takes one vertex from its queue and marks those of its neighbours that
\* have no distance yet.
Fresh(d, s) == {k \in DOMAIN s : d[s[k]] = -1 /\ \A j \in 1..(k - 1) : s[j] # s[k]}
parallelBFS ==
    /\ file = "distributed_bfs_2d.cpp" /\ work # <<>>
    /\ LET current == Head(work)
           d == distance[Root]
           s == Neighbours[current]
           fresh == Fresh(d, s)
           found[k \in 0..Len(s)] == IF k = 0 THEN <<>>
                                     ELSE IF k \in fresh THEN Append(found[k - 1], s[k]) ELSE found[k - 1]
       IN /\ work' = Tail(work) \o found[Len(s)]
          /\ distance' = [distance EXCEPT ![Root] = [v \in Vertices |->
                             IF \E k \in fresh : s[k] = v THEN d[current] + 1 ELSE d[v]]]
    /\ UNCHANGED <<graph, vertexValue, at, changed, heap, visited, order>>
-----------------------------------------------------------------------------
\* The graphs that are searched: up to SearchedEdges edges between Searched vertices.
SomeGraphs(weights) ==
    LET V == 0..(Searched - 1)
        pairs == {p \in V \X V : p[1] # p[2]}
        list(w, v) == SelectSeq([k \in 1..Searched |->
                          Edge1(k - 1, IF <<v, k - 1>> \in DOMAIN w THEN w[<<v, k - 1>>] ELSE 0)],
                          LAMBDA e : e.weight > 0)
    IN {[v \in V |-> list(w, v)] :
           w \in UNION {UNION {[E -> weights] : E \in kSubset(k, pairs)} : k \in 0..SearchedEdges}}
GraphInit ==
    /\ file \in Programs
    /\ changed = [r \in Rank |-> FALSE]
    /\ work = <<>> /\ visited = {} /\ order = <<>>
    /\ \/ /\ file \in {"graph.c", "dfs.c"}
          /\ graph = createGraph(IF file = "graph.c" THEN 1 ELSE MaxVertices)
          /\ at = Only("call") /\ heap = {} /\ distance = [r \in Rank |-> <<>>]
       \/ /\ file = "dijkstra.cpp" /\ graph \in SomeGraphs(Weight)
          /\ at = Only("main") /\ heap = {<<0, 0>>}
          /\ distance = [r \in Rank |-> IF r = Root THEN [Unreached EXCEPT ![0] = 0] ELSE <<>>]
       \/ /\ file = "distributed_bfs.cpp" /\ graph \in SomeGraphs({1})
          /\ at = [r \in Rank |-> "scan"] /\ heap = {}
          /\ distance = [r \in Rank |-> [Unreached EXCEPT ![0] = 0]]
       \/ /\ file = "distributed_bfs_2d.cpp" /\ graph = <<>>
          /\ at = [r \in Rank |-> "cart"] /\ heap = {} /\ distance = [r \in Rank |-> <<>>]
    /\ vertexValue = IF file = "graph.c" THEN [v \in Vertices |-> 0] ELSE <<>>

GraphNext == /\ \/ Calls \/ FreeGraph
                \/ Build \/ (\E v \in Vertices : DFS(v)) \/ Neighbour
                \/ PopNearest
                \/ (\E r \in Rank : Scan(r) \/ SkipTests(r)) \/ AllreduceLevels \/ AllreduceChanged
                \/ Setup \/ RunTests \/ parallelBFS
             /\ UNCHANGED file

SearchedThrough == CASE file = "graph.c" -> at[Root] = "done"
                     [] file = "dfs.c" -> visited = Vertices /\ work = <<>>
                     [] file = "dijkstra.cpp" -> heap = {}
                     [] OTHER -> \A r \in Rank : at[r] = "done"
-----------------------------------------------------------------------------
GraphsTypeOK ==
    /\ \A v \in Vertices : \A k \in DOMAIN graph[v] :
          graph[v][k].dest \in Vertices /\ graph[v][k].weight \in Weight \cup {1}
    /\ file = "graph.c" => vertexValue \in [Vertices -> VertexValue \cup {0}]
    /\ at \in [Rank -> STRING] /\ changed \in [Rank -> BOOLEAN]
    /\ \A r \in Rank : distance[r] # <<>> => distance[r] \in [Vertices -> -1..INF]
    /\ visited \subseteq Vertices /\ heap \subseteq (0..INF) \X Vertices

\* d gives the lengths of the shortest paths from vertex 0: no edge shortens a path, and
\* every length is that of a path, as the weights are positive.
Shortest(d) ==
    /\ d[0] = 0
    /\ \A u \in Vertices : d[u] # INF => \A k \in DOMAIN graph[u] :
          d[graph[u][k].dest] <= d[u] + graph[u][k].weight
    /\ \A v \in Vertices \ {0} : d[v] # INF =>
          \E u \in Vertices, w \in Weight \cup {1} : /\ d[u] + w = d[v]
                                                     /\ \E k \in DOMAIN graph[u] : graph[u][k] = Edge1(v, w)

\* dijkstra and the searches over MPI end with the shortest distances, in every process
\* that searches, and the tests of distributed_bfs_2d.cpp find what they expect.
FindDistances ==
    LET d == distance[Root]
    IN CASE file = "dijkstra.cpp" -> heap = {} => Shortest(d)
         [] file = "distributed_bfs.cpp" -> \A r \in Rank : at[r] = "done" => Shortest(distance[r])
         [] file = "distributed_bfs_2d.cpp" ->
                work = <<>> /\ at[Root] \in {"linear", "complete", "sparse"} =>
                    /\ Shortest([v \in Vertices |-> IF d[v] = -1 THEN INF ELSE d[v]])
                    /\ at[Root] = "linear" => \A v \in Vertices : d[v] = v
                    /\ at[Root] = "complete" => \A v \in Vertices : v # 0 => d[v] = 1
         [] OTHER -> TRUE

\* DFS prints every vertex that it visits once, and leaves none of its neighbours out: those
\* of a vertex whose call has returned are visited, and those of a vertex on the stack are
\* visited or still to come.
VisitsAll ==
    /\ Len(order) = Cardinality(visited) /\ {order[k] : k \in DOMAIN order} = visited
    /\ \A v \in visited : \A k \in DOMAIN graph[v] :
          \/ graph[v][k].dest \in visited
          \/ \E j \in DOMAIN work : /\ work[j].vertex = v
                                    /\ \E i \in DOMAIN work[j].rest : work[j].rest[i] = graph[v][k].dest

\* The edges as a set of triples.
Edges == UNION {{<<v, graph[v][k].dest, graph[v][k].weight>> : k \in DOMAIN graph[v]} : v \in Vertices}
To(x, y) == {e \in Edges : e[1] = x /\ e[2] = y}

\* graph.c holds one edge at most from one vertex to another, every call changes the edge
\* it names and no other, and the vertices that stay when one is removed keep their values
\* and the edges between them.
ChangesAsAsked ==
    /\ [](file = "graph.c" => \A x, y \in Vertices : Cardinality({k \in DOMAIN graph[x] : graph[x][k].dest = y}) <= 1)
    /\ [][file = "graph.c" /\ at'[Root] = "call" =>
          /\ \A x, y \in Vertices, w \in Weight :
                /\ add_edge(x, y, w) => Edges' = IF To(x, y) = {} THEN Edges \cup {<<x, y, w>>} ELSE Edges
                /\ set_edge_value(x, y, w) =>
                      Edges' = IF To(x, y) = {} THEN Edges ELSE (Edges \ To(x, y)) \cup {<<x, y, w>>}
                /\ set_edge_value(x, y, w) /\ To(x, y) # {} => get_edge_value(x, y)' = w
                /\ remove_edge(x, y) => Edges' = Edges \ To(x, y)
          /\ \A x \in Vertices : remove_vertex(x) =>
                \A i, j \in Vertices' : /\ vertexValue'[i] = vertexValue[Above(x, i)]
                                        /\ \A w \in Weight : <<i, j, w>> \in Edges'
                                              <=> <<Above(x, i), Above(x, j), w>> \in Edges
          /\ \A u \in VertexValue : add_vertex(u) => Edges' = Edges]_<<graph, vertexValue>>
=============================================================================
