----------------------------- MODULE MCAlgorithms -----------------------------
(***************************************************************************)
(* The sorts, the graph programs, the matrix products and class            *)
(* ConcurrentBFS for TLC.  A behaviour is of one of them: one run of the   *)
(* sort `sort`, of the graph program `file` or of the product `method`, or *)
(* the calls of an object of ConcurrentBFS if all three are "none".        *)
(***************************************************************************)
EXTENDS Sorts, ConcurrentBFS

CONSTANTS Programs, Rank, Root, MaxVertices, MaxEdges, VertexValue, Weight,
          Searched, SearchedEdges, numVertices, branchingFactor,
          Methods, BlockSizes, Dimensions, SquareSizes, SharedSizes, UnitCells

\* Of the constants that GraphPrograms and MatrixMultiply are instantiated with.
ASSUME AlgorithmsAssumption ==
    /\ Root \in Rank /\ Weight \subseteq Nat \ {0}
    /\ MaxVertices > 0 /\ Searched > 0 /\ numVertices > 0
    /\ BlockSizes \cup Dimensions \cup SquareSizes \cup SharedSizes \subseteq Nat \ {0}

VARIABLES file, edges, vertexValue, at, distance, changed, work, heap, marked, order,
          method, matrix1, matrix2, result, outcome, block, iterations, threads, sections,
          parts, temp, conflict

G == INSTANCE GraphPrograms WITH graph <- edges, visited <- marked
graphs == <<file, edges, vertexValue, at, distance, changed, work, heap, marked, order>>
M == INSTANCE MatrixMultiply
matrices == <<method, matrix1, matrix2, result, outcome, block, iterations, threads, sections,
              parts, temp, conflict>>
all == <<sortVars, graphs, matrices, vars>>

NoSort == /\ sort = "none" /\ input = <<>> /\ arr = <<>> /\ ctl = <<>> /\ todo = {}
          /\ running = {} /\ tasks = {} /\ swapped = FALSE /\ buckets = <<>>
          /\ sortedArr = <<>> /\ raced = FALSE
NoGraph == /\ file = "none" /\ edges = <<>> /\ vertexValue = <<>> /\ at = <<>> /\ distance = <<>>
           /\ changed = <<>> /\ work = <<>> /\ heap = {} /\ marked = {} /\ order = <<>>
NoMatrix == /\ method = "none" /\ matrix1 = <<>> /\ matrix2 = <<>> /\ result = <<>>
            /\ outcome = "none" /\ block = 0 /\ iterations = {} /\ threads = {} /\ sections = <<>>
            /\ parts = <<>> /\ temp = <<>> /\ conflict = FALSE

NoSearch == /\ Init /\ graph = (CHOOSE g \in Graphs : TRUE) /\ start = (CHOOSE v \in Node : TRUE)
Searches == sort = "none" /\ file = "none" /\ method = "none"

Ended == CASE sort # "none" -> Returned
           [] file # "none" -> G!SearchedThrough
           [] method # "none" -> outcome \in {"returned", "empty", "invalid_argument"}
           [] OTHER -> FALSE

MCInit == \/ SortInit /\ NoGraph /\ NoMatrix /\ NoSearch
          \/ NoSort /\ G!GraphInit /\ NoMatrix /\ NoSearch
          \/ NoSort /\ NoGraph /\ M!MatricesInit /\ NoSearch
          \/ NoSort /\ NoGraph /\ NoMatrix /\ Init

ProgramNext == /\ \/ SortNext /\ UNCHANGED <<graphs, matrices>>
                  \/ G!GraphNext /\ UNCHANGED <<sortVars, matrices>>
                  \/ M!MatricesNext /\ UNCHANGED <<sortVars, graphs>>
               /\ UNCHANGED vars
MCNext == \/ ProgramNext
          \/ Ended /\ UNCHANGED all
          \/ Searches /\ Next /\ UNCHANGED <<sortVars, graphs, matrices>>

\* The threads of a loop, those that run tasks and the MPI processes are scheduled, and so
\* are the threads of ConcurrentBFS.
MCSpec == /\ MCInit /\ [][MCNext]_all
          /\ WF_all(ProgramNext)
          /\ WF_vars(Searches /\ Join) /\ \A w \in Worker : WF_vars(Searches /\ WorkerStep(w))
-----------------------------------------------------------------------------
\* Every variable of the sorts, the graph programs and the products keeps its type.
AlgorithmsTypeOK == /\ SortsTypeOK
                    /\ file # "none" => G!GraphsTypeOK
                    /\ method # "none" => M!MatricesTypeOK

\* Every sort returns its values in order, none lost and none made, in whatever order its
\* threads ran, and threads that run at once never work on one cell.  The exception is the
\* parallel heapsort, when a parent starts before a parent below it is done.  Every matrix
\* product is right, again unless threads worked on one cell, which only blockWiseMultiply
\* and sharedMemoryMultiply let happen, or the size cannot be halved down to 1.
ResultsSound == /\ ReturnsSorted /\ NoSharedCells
                /\ method # "none" => M!IsProduct /\ M!ConflictsOnly

\* The searches find the shortest distances and the tests over MPI what they expect, and
\* DFS visits everything in reach, once.
SearchesSound == file # "none" => G!FindDistances /\ G!VisitsAll

\* Every call of graph.c changes the edges and the vertices that it names and no others.
EdgesChangeAsAsked == G!ChangesAsAsked

\* Every sort and every product returns, whatever its flag and its loops do, and every
\* search ends: no MPI process waits in a collective call for one that never makes it.
AlgorithmsEnd == file # "graph.c" /\ ~Searches => <>Ended
=============================================================================
