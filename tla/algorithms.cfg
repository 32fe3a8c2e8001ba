CONSTANTS
    Sorts = {"oddEvenTranspositionSort.cpp", "ParallelBubbleSort.cpp", "IBRBitonicSort.cpp",
             "MultistepBitonicSort .cpp", "ParallelBitonicSort.cpp", "ParallelSampleSort.cpp",
             "parallelEnumerationSort.cpp", "ParallelHeapsort.cpp", "ParallelMergeSort.cpp",
             "ParallelCacheEfficientSort.cpp", "HyperQuickSort.cpp", "BubbleSort.cpp",
             "MergeSort.cpp", "Quicksort.cpp", "cycleSort.cpp", "heapsort.cpp",
             "radixSort.cpp", "shellsort.cpp"}
    Element = {1, 2, 3}
    Lengths = {0, 1, 2, 3, 5}
    BitonicElement = {1, 2}
    BitonicLengths = {0, 1, 2, 4, 8}
    EveryArray = 4
    Base = 2
    NumSamples = 2
    MaxDepth = 2
    Programs = {"graph.c", "dfs.c", "dijkstra.cpp", "distributed_bfs.cpp", "distributed_bfs_2d.cpp"}
    Rank = {r0, r1}
    Root = r0
    MaxVertices = 3
    MaxEdges = 3
    VertexValue = {1}
    Weight = {1, 3}
    Searched = 4
    SearchedEdges = 4
    Methods = {"multiplyMatrices", "multiplyMatricesCacheFriendly", "strassenMultiply",
               "parallelMatrixMultiply", "blockWiseMultiply", "sharedMemoryMultiply"}
    BlockSizes = {1, 2}
    Dimensions = {1, 3}
    SquareSizes = {1, 2, 3, 4}
    SharedSizes = {1, 2}
    UnitCells = 9
    numVertices = 10
    branchingFactor = 2
    Node = {0, 1, 2, 3}
    Graphs <- SquareAndMulti
    Worker = {w1, w2, w3}
    MaxRuns = 2
SPECIFICATION MCSpec
INVARIANT TypeOK
INVARIANT EachVertexOnce
INVARIANT DoneMeansFinished
INVARIANT ReturnsReachable
PROPERTY SearchSpec
PROPERTY EveryRunReturns
INVARIANT AlgorithmsTypeOK
INVARIANT ResultsSound
INVARIANT SearchesSound
PROPERTY EdgesChangeAsAsked
PROPERTY AlgorithmsEnd
