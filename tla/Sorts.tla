-------------------------------- MODULE Sorts --------------------------------
(***************************************************************************)
(* The sorts of Algorithms/CPP/Sorting, the parallel ones as the threads   *)
(* of OpenMP run them.  `arr` is indexed from 0.  A parallel for is a set  *)
(* `todo` of iterations that threads take in any order; what follows waits *)
(* for all of them.  Parallel sections and tasks are a set `tasks`: a task *)
(* that splits waits for the tasks within its cells.  `ctl` is the call    *)
(* stack of the thread that started it all.                                *)
(***************************************************************************)
EXTENDS Integers, Sequences, FiniteSets, TLC

CONSTANTS Sorts,         \* the files checked
          Element,       \* the values in the arrays, and their lengths
          Lengths,
          BitonicElement,  \* the same for the bitonic sorts: two values suffice to
          BitonicLengths,  \* test a network that compares; powers of two
          EveryArray,    \* bound: the length up to which tasks sort all of these arrays
          Base,          \* 10 in the code: the base of the digits
          NumSamples,    \* 3 in main() of ParallelSampleSort.cpp
          MaxDepth       \* 4 in the code: below it quickSortParallel forks

ASSUME SortsAssumption == /\ Element \subseteq Nat /\ BitonicElement \subseteq Element
                          /\ Base > 1 /\ NumSamples > 0 /\ MaxDepth \in Nat

VARIABLES sort, input, arr, ctl, todo, running, tasks, swapped, buckets, sortedArr, raced

sortVars == <<sort, input, arr, ctl, todo, running, tasks, swapped, buckets, sortedArr, raced>>

Transpositions == {"oddEvenTranspositionSort.cpp", "ParallelBubbleSort.cpp"}
Loops == {"IBRBitonicSort.cpp", "MultistepBitonicSort .cpp", "ParallelSampleSort.cpp",
          "parallelEnumerationSort.cpp", "ParallelHeapsort.cpp"}
Forks == {"ParallelBitonicSort.cpp", "ParallelMergeSort.cpp",
          "ParallelCacheEfficientSort.cpp", "HyperQuickSort.cpp"}
Sequential == {"BubbleSort.cpp", "MergeSort.cpp", "Quicksort.cpp", "cycleSort.cpp",
               "heapsort.cpp", "radixSort.cpp", "shellsort.cpp"}
Bitonic == {"IBRBitonicSort.cpp", "MultistepBitonicSort .cpp", "ParallelBitonicSort.cpp"}
SortKinds == (Transpositions \cup Loops \cup Forks \cup Sequential) \cap Sorts

-----------------------------------------------------------------------------
(* The functions on arrays that several sorts share. *)

n == Cardinality(DOMAIN arr)
Arrays(a) == [DOMAIN a -> Element]
Swap(a, i, j) == [a EXCEPT ![i] = a[j], ![j] = a[i]]
SortedIn(a, lo, hi) == \A i, j \in lo..hi : i < j => a[i] <= a[j]
Copies(a, v) == Cardinality({i \in DOMAIN a : a[i] = v})

\* The sorted runs left..middle and middle+1..right become one.
merge(a, left, middle, right) ==
    LET rest[i \in Int, j \in Int] ==   \* what follows when L[i] and R[j] are next
            CASE i > middle /\ j > right -> <<>>
              [] i <= middle /\ (j > right \/ a[i] <= a[j]) -> <<a[i]>> \o rest[i + 1, j]
              [] OTHER -> <<a[j]>> \o rest[i, j + 1]
        merged == rest[left, middle + 1]
    IN [c \in left..right |-> merged[c - left + 1]] @@ a

\* The cells low..high with those below the pivot a[high] first, and the pivot's cell.
partition(a, low, high) ==
    LET pass[b \in Arrays(a), i \in Int, j \in Int] ==
            CASE j = high -> [a |-> Swap(b, i + 1, high), pi |-> i + 1]
              [] j < high /\ b[j] < a[high] -> pass[Swap(b, i + 1, j), i + 1, j + 1]
              [] OTHER -> pass[b, i, j + 1]
    IN pass[a, low - 1, low]

\* The largest of i and its children in the heap of the first `size` cells.
Largest(a, size, i) ==
    LET l == 2 * i + 1
        r == 2 * i + 2
        larger == IF l < size /\ a[l] > a[i] THEN l ELSE i
    IN IF r < size /\ a[r] > a[larger] THEN r ELSE larger

heapify(a, size, i) ==
    LET sift[b \in Arrays(a), c \in DOMAIN a] ==
            LET largest == Largest(b, size, c)
            IN IF largest = c THEN b ELSE sift[Swap(b, c, largest), largest]
    IN sift[a, i]

\* The swaps of the maximum to the end, from the last cell down to cell 1.
Extracted(a) ==
    LET extract[b \in Arrays(a), i \in Int] ==
            IF i <= 0 THEN b ELSE extract[heapify(Swap(b, 0, i), i, 0), i - 1]
    IN extract[a, Cardinality(DOMAIN a) - 1]

\* The stable sort by the digit of weight exp.
Digit(v, exp) == (v \div exp) % Base
countingSort(a, exp) ==
    LET Place(i) == Cardinality({j \in DOMAIN a : \/ Digit(a[j], exp) < Digit(a[i], exp)
                                                  \/ Digit(a[j], exp) = Digit(a[i], exp) /\ j < i})
    IN [c \in DOMAIN a |-> a[CHOOSE i \in DOMAIN a : Place(i) = c]]

-----------------------------------------------------------------------------
(* The sequential sorts. *)

\* Pass i carries the largest of the cells before n - i up, comparing j and j + 1.
bubbleSort(a) ==
    LET size == Cardinality(DOMAIN a)
        pass[b \in Arrays(a), i \in Nat, j \in Nat] ==
            CASE i >= size - 1 -> b
              [] i < size - 1 /\ j >= size - i - 1 -> pass[b, i + 1, 0]
              [] i < size - 1 /\ j < size - i - 1 ->
                     pass[IF b[j] > b[j + 1] THEN Swap(b, j, j + 1) ELSE b, i, j + 1]
    IN pass[a, 0, 0]

mergeSort(a) ==
    LET merged[b \in Arrays(a), l \in Int, mid \in Int, r \in Int] == merge(b, l, mid, r)
        sorted[b \in Arrays(a), l \in Int, r \in Int] ==
            LET mid == l + ((r - l) \div 2)
            IN IF l < r THEN merged[sorted[sorted[b, l, mid], mid + 1, r], l, mid, r] ELSE b
    IN sorted[a, 0, Cardinality(DOMAIN a) - 1]

quickSort(a) ==
    LET sorted[b \in Arrays(a), low \in Int, high \in Int] ==
            LET p == partition(b, low, high)
            IN IF low < high THEN sorted[sorted[p.a, low, p.pi - 1], p.pi + 1, high] ELSE b
    IN sorted[a, 0, Cardinality(DOMAIN a) - 1]

\* From the last parent down to the root, then the extractions.
heapsort(a) ==
    LET size == Cardinality(DOMAIN a)
        heap[i \in 0..(size \div 2)] ==
            IF i = size \div 2 THEN a ELSE heapify(heap[i + 1], size, i)
    IN Extracted(heap[0])

radixSort(a) ==
    LET sorted[b \in Arrays(a), exp \in Nat] ==
            IF \E i \in DOMAIN b : b[i] \div exp > 0
            THEN sorted[countingSort(b, exp), exp * Base]
            ELSE b
    IN sorted[a, 1]

\* Cell i is moved down by gaps until no larger value is a gap before it.
Inserted(a, i, gap) ==
    LET moved[b \in Arrays(a), j \in Nat] ==
            IF j >= gap /\ b[j - gap] > b[j] THEN moved[Swap(b, j, j - gap), j - gap] ELSE b
    IN moved[a, i]
shellsort(a) ==
    LET size == Cardinality(DOMAIN a)
        sorted[b \in Arrays(a), gap \in Nat, i \in Nat] ==
            CASE gap = 0 -> b
              [] gap > 0 /\ i >= size -> sorted[b, gap \div 2, gap \div 2]
              [] gap > 0 /\ i < size -> sorted[Inserted(b, i, gap), gap, i + 1]
    IN sorted[a, size \div 2, size \div 2]

\* The cell of `item` among those from start: after the smaller ones and after the cells
\* that hold its value already.
Smaller(a, item, start) == start + Cardinality({i \in DOMAIN a : i > start /\ a[i] < item})
Past(a, item, pos) == CHOOSE c \in DOMAIN a : /\ c >= pos /\ a[c] # item
                                              /\ \A b \in pos..(c - 1) : a[b] = item

\* The item in hand goes to its cell and the one it finds there is the next in hand,
\* until the cycle is back at its start.
Rotated(a, start, first) ==
    LET turn[b \in Arrays(a), item \in Element, pos \in DOMAIN a] ==
            LET c == [b EXCEPT ![pos] = item]
            IN IF pos = start THEN c
               ELSE turn[c, b[pos], Past(c, b[pos], Smaller(c, b[pos], start))]
    IN turn[a, a[start], Past(a, a[start], first)]
cycleSort(a) ==
    LET sorted[b \in Arrays(a), start \in Nat] ==
            LET pos == Smaller(b, b[start], start)
            IN CASE start > Cardinality(DOMAIN a) - 2 -> b
                 [] start <= Cardinality(DOMAIN a) - 2 /\ pos = start -> sorted[b, start + 1]
                 [] OTHER -> sorted[Rotated(b, start, pos), start + 1]
    IN sorted[a, 0]

Result(a) == CASE sort = "BubbleSort.cpp" -> bubbleSort(a)
               [] sort = "MergeSort.cpp" -> mergeSort(a)
               [] sort = "Quicksort.cpp" -> quickSort(a)
               [] sort = "cycleSort.cpp" -> cycleSort(a)
               [] sort = "heapsort.cpp" -> heapsort(a)
               [] sort = "radixSort.cpp" -> radixSort(a)
               [] sort = "shellsort.cpp" -> shellsort(a)

-----------------------------------------------------------------------------
(* Where every sort starts. *)

\* One thing the calling thread still has to do, for cells lo .. lo + cnt - 1.
Frame(call, lo, cnt, dir) == [call |-> call, lo |-> lo, cnt |-> cnt, dir |-> dir]
Task(at, lo, hi, dir, depth) == [at |-> at, lo |-> lo, hi |-> hi, dir |-> dir,
                                 depth |-> depth, from |-> lo]

FirstFrame == CASE sort \in Transpositions -> <<Frame("do", 0, n, TRUE)>>
                [] sort = "IBRBitonicSort.cpp" -> <<Frame("size", 0, 2, TRUE)>>
                [] sort = "MultistepBitonicSort .cpp" -> <<Frame("sort", 0, n, TRUE)>>
                [] sort = "ParallelSampleSort.cpp" -> <<Frame("partition", 0, n, TRUE)>>
                [] sort = "parallelEnumerationSort.cpp" -> <<Frame("rank", 0, n, TRUE)>>
                [] sort = "ParallelHeapsort.cpp" -> <<Frame("build", 0, n, TRUE)>>
                [] sort \in Sequential -> <<Frame("call", 0, n, TRUE)>>
                [] OTHER -> <<>>

\* The lengths a sort is called with.  The code does not check them: a bitonic sort of
\* another length leaves its result unsorted or reads past the end; sampleSort,
\* cycleSort and radixSort read past the end of an array that is too short.
Shortest == CASE sort \in {"ParallelSampleSort.cpp", "radixSort.cpp"} -> 1
              [] sort = "cycleSort.cpp" -> 2
              [] OTHER -> 0
SortInit == /\ sort \in SortKinds
            /\ IF sort \in Bitonic
               THEN \E size \in BitonicLengths :
                        /\ input \in [0..(size - 1) -> BitonicElement]
                        /\ sort \in Forks /\ size > EveryArray
                              => SortedIn(input, size \div 2, size - 1)
               ELSE \E size \in Lengths : size >= Shortest /\ input \in [0..(size - 1) -> Element]
            /\ arr = input
            /\ ctl = FirstFrame
            /\ tasks = IF sort \in Forks THEN {Task("sort", 0, n - 1, TRUE, 0)} ELSE {}
            /\ todo = {} /\ running = {} /\ swapped = FALSE
            /\ buckets = <<>> /\ sortedArr = <<>> /\ raced = FALSE

\* No iteration of a parallel loop is left.
Barrier == todo = {} /\ running = {}
Returned == Barrier /\ ctl = <<>> /\ tasks = {}
At(call) == Barrier /\ ctl # <<>> /\ Head(ctl).call = call
Top == Head(ctl)

-----------------------------------------------------------------------------
(* The transposition sorts: two loops over pairs of neighbours, until no pair is *)
(* swapped.  Any iteration may store to the flag they share.                     *)

\* The pairs (i, i + 1) of the odd or of the even phase; the mutation takes all pairs in
\* each phase.
AllPairs(parity) == {i \in 0..(n - 2) : i >= parity}
Pairs(parity) == {i \in 0..(n - 2) : i % 2 = parity}
oddEvenPhase(first) == Pairs(IF first THEN 1 ELSE 0)
bubblePhase(first) == Pairs(IF first THEN 0 ELSE 1)
Phase(first) == IF sort = "ParallelBubbleSort.cpp" THEN bubblePhase(first)
                                                   ELSE oddEvenPhase(first)

DoRound == /\ At("do")
           /\ swapped' = FALSE
           /\ todo' = Phase(TRUE)
           /\ ctl' = <<Frame("second", 0, n, TRUE)>>
           /\ UNCHANGED <<arr, running, tasks, buckets, sortedArr, raced>>

SecondPhase == /\ At("second")
               /\ todo' = Phase(FALSE)
               /\ ctl' = <<Frame("while", 0, n, TRUE)>>
               /\ UNCHANGED <<arr, running, tasks, swapped, buckets, sortedArr, raced>>

WhileSwapped == /\ At("while")
                /\ ctl' = IF swapped THEN <<Frame("do", 0, n, TRUE)>> ELSE <<>>
                /\ UNCHANGED <<arr, todo, running, tasks, swapped, buckets, sortedArr, raced>>

-----------------------------------------------------------------------------
(* The bitonic sorts. *)

Half(a, low, k, dir) ==
    [c \in low..(low + 2 * k - 1) |->
        LET other == IF c < low + k THEN c + k ELSE c - k
            first == IF c < low + k THEN c ELSE c - k
        IN IF dir = (a[first] > a[first + k]) THEN a[other] ELSE a[c]]
    @@ a
bitonicMerge(a, low, cnt, dir) ==
    LET merged[b \in Arrays(a), l \in Nat, c \in Nat] ==
            LET k == c \div 2
            IN IF c > 1 THEN merged[merged[Half(b, l, k, dir), l, k], l + k, k] ELSE b
    IN merged[a, low, cnt]

\* IBRBitonicSort.cpp: the blocks of `size` cells, each merged by one iteration, up and
\* down by turns.
bitonicSortIterative ==
    /\ At("size")
    /\ IF Top.cnt <= n
       THEN /\ todo' = {i \in 0..(n - 1) : i % Top.cnt = 0}
            /\ ctl' = <<Frame("size", 0, 2 * Top.cnt, TRUE)>>
       ELSE ctl' = <<>> /\ UNCHANGED todo
    /\ UNCHANGED <<arr, running, tasks, swapped, buckets, sortedArr, raced>>

MergeBlock(i) == LET size == Top.cnt \div 2
                 IN arr' = bitonicMerge(arr, i, size, (i \div size) % 2 = 0)

\* MultistepBitonicSort.cpp: the thread that called recurs alone, and the loop of each
\* merge is a parallel one.
bitonicSort ==
    LET k == Top.cnt \div 2
    IN /\ At("sort")
       /\ ctl' = IF Top.cnt > 1
                 THEN <<Frame("sort", Top.lo, k, TRUE), Frame("sort", Top.lo + k, k, FALSE),
                        [Top EXCEPT !.call = "merge"]>> \o Tail(ctl)
                 ELSE Tail(ctl)
       /\ UNCHANGED <<arr, todo, running, tasks, swapped, buckets, sortedArr, raced>>

\* The frame "halves" stays below the loop: its two merges follow the loop.
multistep_bitonicMerge ==
    /\ At("merge")
    /\ IF Top.cnt > 1
       THEN /\ todo' = Top.lo..(Top.lo + (Top.cnt \div 2) - 1)
            /\ ctl' = <<[Top EXCEPT !.call = "halves"]>> \o Tail(ctl)
       ELSE ctl' = Tail(ctl) /\ UNCHANGED todo
    /\ UNCHANGED <<arr, running, tasks, swapped, buckets, sortedArr, raced>>

MergeHalves ==
    LET k == Top.cnt \div 2
    IN /\ At("halves")
       /\ ctl' = <<Frame("merge", Top.lo, k, Top.dir), Frame("merge", Top.lo + k, k, Top.dir)>>
                 \o Tail(ctl)
       /\ UNCHANGED <<arr, todo, running, tasks, swapped, buckets, sortedArr, raced>>

-----------------------------------------------------------------------------
(* Pairs that are compared by one iteration and then swapped. *)

\* The cell that iteration i compares with cell i, and whether they are swapped; the
\* mutation swaps equal values too.
EqualToo(i, j) == IF sort \in Transpositions \/ Top.dir THEN arr[i] >= arr[j] ELSE arr[i] <= arr[j]
Partner(i) == IF sort \in Transpositions THEN i + 1 ELSE i + (Top.cnt \div 2)
OutOfOrder(i, j) == IF sort \in Transpositions \/ Top.dir THEN arr[i] > arr[j] ELSE arr[i] < arr[j]
compAndSwap(i, j) == IF OutOfOrder(i, j) THEN {<<i, j>>} ELSE {}

Compare(i) ==
    /\ sort \in Transpositions \cup {"MultistepBitonicSort .cpp"}
    /\ i \in todo
    /\ todo' = todo \ {i}
    /\ running' = running \cup compAndSwap(i, Partner(i))
    /\ UNCHANGED <<arr, ctl, tasks, swapped, buckets, sortedArr, raced>>

-----------------------------------------------------------------------------
(* ParallelHeapsort.cpp: the loop that builds the heap sifts every parent down, in *)
(* any order and several at a time.                                               *)

buildHeapParallel ==
    /\ At("build")
    /\ todo' = 0..((n \div 2) - 1)
    /\ ctl' = <<Frame("extract", 0, n - 1, TRUE)>>
    /\ UNCHANGED <<arr, running, tasks, swapped, buckets, sortedArr, raced>>

RECURSIVE Below(_, _)
Below(i, c) == c >= i /\ (c = i \/ Below(i, (c - 1) \div 2))

\* The next swap of a value that is sifted down from cell i, if there is one.
Sift(a, i) == LET largest == Largest(a, n, i)
              IN IF largest = i THEN {} ELSE {<<i, largest>>}

\* `raced` remembers that a parent started before a parent below it was done.
SiftDown(i) ==
    /\ sort = "ParallelHeapsort.cpp"
    /\ i \in todo
    /\ todo' = todo \ {i}
    /\ running' = running \cup Sift(arr, i)
    /\ raced' = (raced \/ \E c \in todo' \cup {p[1] : p \in running} : Below(i, c))
    /\ UNCHANGED <<arr, ctl, tasks, swapped, buckets, sortedArr>>

\* A pair is swapped; a transposition sort then sets its flag, and heapify goes on below.
Exchange(p) ==
    /\ p \in running
    /\ arr' = Swap(arr, p[1], p[2])
    /\ running' = (running \ {p}) \cup (IF sort = "ParallelHeapsort.cpp" THEN Sift(arr', p[2]) ELSE {})
    /\ swapped' = (swapped \/ sort \in Transpositions)
    /\ UNCHANGED <<ctl, todo, tasks, buckets, sortedArr, raced>>

ExtractMaxima ==
    /\ At("extract")
    /\ arr' = Extracted(arr)
    /\ ctl' = <<>>
    /\ UNCHANGED <<todo, running, tasks, swapped, buckets, sortedArr, raced>>

-----------------------------------------------------------------------------
(* ParallelSampleSort.cpp and parallelEnumerationSort.cpp: every iteration writes to *)
(* a place of its own.                                                              *)

SortUp(s) == SortSeq(s, LAMBDA x, y : x < y)
selectSamples == LET spacing == n \div NumSamples
                 IN SortUp([i \in 1..NumSamples |-> arr[(i - 1) * spacing]])

\* The bucket of a value is behind the samples below it.
BucketOf(v) == 1 + Cardinality({i \in 1..NumSamples : v > selectSamples[i]})
partitionBySamples ==
    /\ At("partition")
    /\ buckets' = [b \in 1..(NumSamples + 1) |->
                      SelectSeq([i \in 1..n |-> arr[i - 1]], LAMBDA v : BucketOf(v) = b)]
    /\ todo' = 1..(NumSamples + 1)
    /\ ctl' = <<Frame("merge buckets", 0, n, TRUE)>>
    /\ UNCHANGED <<arr, running, tasks, swapped, sortedArr, raced>>

mergeBuckets ==
    /\ At("merge buckets")
    /\ LET joined[b \in 0..(NumSamples + 1)] == IF b = 0 THEN <<>> ELSE joined[b - 1] \o buckets[b]
       IN arr' = [c \in DOMAIN arr |-> joined[NumSamples + 1][c + 1]]
    /\ ctl' = <<>>
    /\ UNCHANGED <<todo, running, tasks, swapped, buckets, sortedArr, raced>>

parallelEnumerationSort ==
    /\ At("rank")
    /\ sortedArr' = [c \in DOMAIN arr |-> 0]
    /\ todo' = DOMAIN arr
    /\ ctl' = <<Frame("copy", 0, n, TRUE)>>
    /\ UNCHANGED <<arr, running, tasks, swapped, buckets, raced>>

rank(i) == Cardinality({j \in DOMAIN arr : arr[j] < arr[i] \/ (arr[j] = arr[i] /\ j < i)})

CopyBack ==
    /\ At("copy")
    /\ arr' = sortedArr
    /\ ctl' = <<>>
    /\ UNCHANGED <<todo, running, tasks, swapped, buckets, sortedArr, raced>>

\* An iteration that is one step: the cells it writes no other iteration reads.
Iterate(i) ==
    /\ sort \in {"IBRBitonicSort.cpp", "ParallelSampleSort.cpp", "parallelEnumerationSort.cpp"}
    /\ i \in todo
    /\ todo' = todo \ {i}
    /\ \/ sort = "IBRBitonicSort.cpp" /\ MergeBlock(i) /\ UNCHANGED <<buckets, sortedArr>>
       \/ /\ sort = "ParallelSampleSort.cpp"
          /\ buckets' = [buckets EXCEPT ![i] = SortUp(@)] /\ UNCHANGED <<arr, sortedArr>>
       \/ /\ sort = "parallelEnumerationSort.cpp"
          /\ sortedArr' = [sortedArr EXCEPT ![rank(i)] = arr[i]] /\ UNCHANGED <<arr, buckets>>
    /\ UNCHANGED <<ctl, running, tasks, swapped, raced>>

-----------------------------------------------------------------------------
(* The sorts that fork. *)

Within(s, t) == t.lo <= s.lo /\ s.hi <= t.hi
Joined(t) == \A s \in tasks \ {t} : ~ Within(s, t)
Middle(t) == t.lo + ((t.hi - t.lo) \div 2)

\* bitonic_sort_rec and parallelMergeSort: both halves, then the task itself.  Only the
\* bitonic sort has a direction.  The mutation gives the cell in the middle to both halves.
OverlappingHalves(t) == {[t EXCEPT !.at = "join"],
                         Task("sort", t.lo, Middle(t), TRUE, 0),
                         Task("sort", Middle(t), t.hi, TRUE, 0)}
bitonic_sort_rec(t) == {[t EXCEPT !.at = "join"],
                        Task("sort", t.lo, Middle(t), TRUE, 0),
                        Task("sort", Middle(t) + 1, t.hi, FALSE, 0)}
parallelMergeSort(t) == {[t EXCEPT !.at = "join"],
                         Task("sort", t.lo, Middle(t), TRUE, 0),
                         Task("sort", Middle(t) + 1, t.hi, TRUE, 0)}
\* The cells on both sides of the pivot: at once, or, from MaxDepth on, the lower ones first.
quickSortParallel(t, pi) ==
    {Task("sort", t.lo, pi - 1, TRUE, t.depth + 1),
     [Task(IF t.depth < MaxDepth THEN "sort" ELSE "later", pi + 1, t.hi, TRUE, t.depth + 1)
         EXCEPT !.from = t.lo]}

Fork(t) ==
    /\ t \in tasks /\ t.at = "sort"
    /\ IF t.lo >= t.hi THEN tasks' = tasks \ {t} /\ UNCHANGED arr
       ELSE \/ /\ sort = "ParallelBitonicSort.cpp" /\ UNCHANGED arr
               /\ tasks' = (tasks \ {t}) \cup bitonic_sort_rec(t)
            \/ /\ sort \in {"ParallelMergeSort.cpp", "ParallelCacheEfficientSort.cpp"}
               /\ UNCHANGED arr
               /\ tasks' = (tasks \ {t}) \cup parallelMergeSort(t)
            \/ /\ sort = "HyperQuickSort.cpp"
               /\ LET p == partition(arr, t.lo, t.hi)
                  IN arr' = p.a /\ tasks' = (tasks \ {t}) \cup quickSortParallel(t, p.pi)
    /\ UNCHANGED <<ctl, todo, running, swapped, buckets, sortedArr, raced>>

bitonic_merge(t) == bitonicMerge(arr, t.lo, t.hi - t.lo + 1, t.dir)
JoinTask(t) ==
    /\ t \in tasks /\ t.at = "join" /\ Joined(t)
    /\ arr' = IF sort = "ParallelBitonicSort.cpp"
              THEN bitonic_merge(t)
              ELSE merge(arr, t.lo, Middle(t), t.hi)
    /\ tasks' = tasks \ {t}
    /\ UNCHANGED <<ctl, todo, running, swapped, buckets, sortedArr, raced>>

\* The upper part of a deep quicksort starts when the lower part has returned.
Later(t) ==
    /\ t \in tasks /\ t.at = "later"
    /\ \A s \in tasks : ~ (t.from <= s.lo /\ s.hi < t.lo - 1)
    /\ tasks' = (tasks \ {t}) \cup {[t EXCEPT !.at = "sort"]}
    /\ UNCHANGED <<arr, ctl, todo, running, swapped, buckets, sortedArr, raced>>

SortAtOnce == /\ At("call")
              /\ arr' = Result(arr)
              /\ ctl' = <<>>
              /\ UNCHANGED <<todo, running, tasks, swapped, buckets, sortedArr, raced>>

-----------------------------------------------------------------------------
SortNext == /\ \/ DoRound \/ SecondPhase \/ WhileSwapped
               \/ bitonicSortIterative \/ bitonicSort \/ multistep_bitonicMerge \/ MergeHalves
               \/ buildHeapParallel \/ ExtractMaxima
               \/ partitionBySamples \/ mergeBuckets \/ parallelEnumerationSort \/ CopyBack
               \/ \E i \in todo : Compare(i) \/ SiftDown(i) \/ Iterate(i)
               \/ \E p \in running : Exchange(p)
               \/ \E t \in tasks : Fork(t) \/ JoinTask(t) \/ Later(t)
               \/ SortAtOnce
            /\ UNCHANGED <<sort, input>>

-----------------------------------------------------------------------------
SortsTypeOK ==
    /\ arr \in [DOMAIN input -> Element]
    /\ todo \subseteq 0..(n + NumSamples + 1) /\ running \subseteq (DOMAIN arr) \X (DOMAIN arr)
    /\ \A t \in tasks : t.at \in {"sort", "join", "later"} /\ t.lo \in 0..n /\ t.hi \in -1..(n - 1)
    /\ swapped \in BOOLEAN /\ raced \in BOOLEAN

\* A sort returns its values in order, and each as often as it was given, in whatever order
\* the threads took the iterations and the tasks.  The parallel heapsort promises it only
\* when no parent started before a parent below it was done.
ReturnsSorted ==
    Returned /\ ~raced => /\ SortedIn(arr, 0, n - 1)
                          /\ \A i \in DOMAIN input : Copies(arr, input[i]) = Copies(input, input[i])

\* Threads that run at once never work on one cell: neither two pairs about to be swapped,
\* nor two tasks of which neither waits for the other.
NoSharedCells ==
    /\ ~raced => \A p, q \in running : p # q => {p[1], p[2]} \cap {q[1], q[2]} = {}
    /\ \A s, t \in tasks :
          s # t => \/ s.hi < t.lo \/ t.hi < s.lo
                   \/ t.at = "join" /\ Within(s, t)
                   \/ s.at = "join" /\ Within(t, s)
=============================================================================
