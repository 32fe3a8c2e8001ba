----------------------------- MODULE MatrixMultiply -----------------------------
(***************************************************************************)
(* The six ways of MatrixMultiply.cpp to multiply two matrices.  Three are *)
(* functions; the other three run loops or sections of OpenMP, whose       *)
(* threads share the result and the temporary matrices.  A matrix is a     *)
(* function of its row to a function of its column, both from 0.           *)
(***************************************************************************)
EXTENDS Integers, Sequences, FiniteSets, FiniteSetsExt, SequencesExt

CONSTANTS Methods,
          BlockSizes,    \* BLOCK_SIZE: 128 and 64 in the code
          Dimensions,    \* bounds: those of the matrices in general, and those of
          SquareSizes,   \* the square ones, for the functions
          SharedSizes,   \* and for the threads
          UnitCells      \* larger matrices are not tried with one entry 1

VARIABLES method, matrix1, matrix2, result, outcome,
          block,       \* the BLOCK_SIZE of this run
          iterations,  \* the iterations of the parallel loop that no thread has taken
          threads,     \* those that run: [it, rest, loaded], rest the cells to come
          sections,    \* where each of the four sections is
          parts, temp, \* C11, C12, C21, C22, and temp1, temp2
          conflict     \* history: two threads have worked on one cell

matrices == <<method, matrix1, matrix2, result, outcome, block, iterations, threads, sections,
              parts, temp, conflict>>

Rows(M) == Cardinality(DOMAIN M)
Cols(M) == Cardinality(DOMAIN M[0])
Zeros(r, c) == [i \in 0..(r - 1) |-> [j \in 0..(c - 1) |-> 0]]
-----------------------------------------------------------------------------
(* The functions. *)

multiplyMatrices(M, N) ==
    [i \in DOMAIN M |-> [j \in DOMAIN N[0] |->
        MapThenSumSet(LAMBDA k : M[i][k] * N[k][j], DOMAIN N)]]

\* The tiles of a dimension, and the cells of one.
Starts(size) == {x \in 0..(size - 1) : x % block = 0}
Tile(x0, size) == x0..(Min({x0 + block, size}) - 1)
multiplyMatricesCacheFriendly(M, N) ==
    LET inTile(x, size) == \E x0 \in Starts(size) : x \in Tile(x0, size)
        ofTile(i, j, k0) == MapThenSumSet(LAMBDA k : M[i][k] * N[k][j], Tile(k0, Rows(N)))
    IN [i \in DOMAIN M |-> [j \in DOMAIN N[0] |->
           IF inTile(i, Rows(M)) /\ inTile(j, Cols(N))
           THEN MapThenSumSet(LAMBDA k0 : ofTile(i, j, k0), Starts(Rows(N)))
           ELSE 0]]

add(M, N) == [i \in DOMAIN M |-> [j \in DOMAIN M |-> M[i][j] + N[i][j]]]
subtract(M, N) == [i \in DOMAIN M |-> [j \in DOMAIN M |-> M[i][j] - N[i][j]]]

getSubmatrix(M, rowStart, colStart, size) ==
    [i \in 0..(size - 1) |-> [j \in 0..(size - 1) |-> M[rowStart + i][colStart + j]]]
\* Quarter <<r, c>> of a matrix; the last row and column of an odd one are in none.
Quarter(M, r, c) == LET k == Rows(M) \div 2 IN getSubmatrix(M, (r - 1) * k, (c - 1) * k, k)

\* Four quarters in a matrix of n rows that was zero.
Combined(q, n) ==
    LET k == n \div 2
        half(x) == 1 + (x \div k)
    IN [i \in 0..(n - 1) |-> [j \in 0..(n - 1) |->
           IF i < 2 * k /\ j < 2 * k THEN q[<<half(i), half(j)>>][i % k][j % k] ELSE 0]]

RECURSIVE strassenMultiply(_, _)
strassenMultiply(M, N) ==
    LET A(r, c) == Quarter(M, r, c)
        B(r, c) == Quarter(N, r, c)
        P1 == strassenMultiply(A(1, 1), subtract(B(1, 2), B(2, 2)))
        P2 == strassenMultiply(add(A(1, 1), A(1, 2)), B(2, 2))
        P3 == strassenMultiply(add(A(2, 1), A(2, 2)), B(1, 1))
        P4 == strassenMultiply(A(2, 2), subtract(B(2, 1), B(1, 1)))
        P5 == strassenMultiply(add(A(1, 1), A(2, 2)), add(B(1, 1), B(2, 2)))
        P6 == strassenMultiply(subtract(A(1, 2), A(2, 2)), add(B(2, 1), B(2, 2)))
        P7 == strassenMultiply(subtract(A(1, 1), A(2, 1)), add(B(1, 1), B(1, 2)))
    IN IF Rows(M) = 1 THEN multiplyMatrices(M, N)
       ELSE Combined([q \in {1, 2} \X {1, 2} |->
                         CASE q = <<1, 1>> -> add(subtract(add(P5, P4), P2), P6)
                           [] q = <<1, 2>> -> add(P1, P2)
                           [] q = <<2, 1>> -> add(P3, P4)
                           [] q = <<2, 2>> -> subtract(subtract(add(P1, P5), P3), P7)], Rows(M))

\* What multiplyRecursive gives to a thread that runs all sections by itself.
RECURSIVE multiplyRecursive(_, _)
multiplyRecursive(M, N) ==
    IF Rows(M) = 1 THEN multiplyMatrices(M, N)
    ELSE Combined([q \in {1, 2} \X {1, 2} |->
                      add(multiplyRecursive(Quarter(M, q[1], 1), Quarter(N, 1, q[2])),
                          multiplyRecursive(Quarter(M, q[1], 2), Quarter(N, 2, q[2])))], Rows(M))
-----------------------------------------------------------------------------
(* The calls. *)

Rectangular == {"multiplyMatrices", "multiplyMatricesCacheFriendly", "parallelMatrixMultiply"}
Blocked == {"multiplyMatricesCacheFriendly", "blockWiseMultiply"}
Shared == {"parallelMatrixMultiply", "blockWiseMultiply", "sharedMemoryMultiply"}
Called == outcome = "called"
Running == outcome = "running"

\* The rectangular ones return an empty result for an empty matrix and throw for others
\* that do not fit; the square ones ask nothing.
Empty == matrix1 = <<>> \/ matrix2 = <<>>
Rejected == method \in Rectangular /\ (IF Empty THEN TRUE ELSE Cols(matrix1) # Rows(matrix2))
Reject == /\ Called /\ Rejected
          /\ outcome' = IF Empty THEN "empty" ELSE "invalid_argument"
          /\ UNCHANGED <<method, matrix1, matrix2, result, block, iterations, threads, sections,
                         parts, temp, conflict>>

Compute == /\ Called /\ ~Rejected /\ method \notin Shared
           /\ result' \in {CASE method = "multiplyMatrices" -> multiplyMatrices(matrix1, matrix2)
                             [] method = "multiplyMatricesCacheFriendly" ->
                                    multiplyMatricesCacheFriendly(matrix1, matrix2)
                             [] method = "strassenMultiply" -> strassenMultiply(matrix1, matrix2)}
           /\ outcome' = "returned"
           /\ UNCHANGED <<method, matrix1, matrix2, block, iterations, threads, sections, parts,
                          temp, conflict>>
-----------------------------------------------------------------------------
(* parallelMatrixMultiply and blockWiseMultiply: a collapsed loop whose iterations add to *)
(* cells of the result, atomically in the first and by a load and a store in the second.  *)

\* The iterations (i, k) and (k0, i0), and the cells (i, k, j) that one goes through.
Iterations == IF method = "parallelMatrixMultiply" THEN (DOMAIN matrix1) \X (DOMAIN matrix2)
              ELSE Starts(Rows(matrix1)) \X Starts(Rows(matrix1))
Updates(it) ==
    LET n == Rows(matrix1)
        up(x0, size) == [x \in 1..Min({block, size - x0}) |-> x0 + x - 1]   \* one tile
        product(is, ks, js) ==   \* the nested loops over them
            FlattenSeq([a \in DOMAIN is |-> FlattenSeq([b \in DOMAIN ks |->
                [c \in DOMAIN js |-> <<is[a], ks[b], js[c]>>]])])
    IN IF method = "parallelMatrixMultiply"
       THEN [j \in 1..Cols(matrix2) |-> <<it[1], it[2], j - 1>>]
       ELSE FlattenSeq([t \in 1..Cardinality(Starts(n)) |->
                product(up(it[2], n), up(it[1], n), up((t - 1) * block, n))])

Start == /\ Called /\ ~Rejected /\ method \in Shared
         /\ outcome' = "running"
         /\ result' = Zeros(Rows(matrix1), Cols(matrix2))
         /\ iterations' = IF method = "sharedMemoryMultiply" THEN {} ELSE Iterations
         /\ sections' = IF method = "sharedMemoryMultiply" /\ Rows(matrix1) > 1
                        THEN [q \in {1, 2} \X {1, 2} |-> "first"] ELSE <<>>
         /\ UNCHANGED <<method, matrix1, matrix2, block, threads, parts, temp, conflict>>

Take(it) == /\ Running /\ it \in iterations
            /\ iterations' = iterations \ {it}
            /\ threads' = threads \cup {[it |-> it, rest |-> Updates(it), loaded |-> <<>>]}
            /\ UNCHANGED <<method, matrix1, matrix2, result, outcome, block, sections, parts, temp,
                           conflict>>

\* What the loop of parallelMatrixMultiply does; the mutation forgets the pragma.
NeverAtomic(m) == FALSE
Atomic(m) == m = "parallelMatrixMultiply"

Cell(t) == Head(t.rest)
Term(t) == matrix1[Cell(t)[1]][Cell(t)[2]] * matrix2[Cell(t)[2]][Cell(t)[3]]
Ahead(t) == IF Tail(t.rest) = <<>> THEN {} ELSE {[t EXCEPT !.rest = Tail(@), !.loaded = <<>>]}
Stored(t, v) == [result EXCEPT ![Cell(t)[1]][Cell(t)[3]] = v]
Old(t) == result[Cell(t)[1]][Cell(t)[3]]

AtomicAdd(t) == /\ t \in threads /\ Atomic(method)
                /\ result' = Stored(t, Old(t) + Term(t))
                /\ threads' = (threads \ {t}) \cup Ahead(t)
                /\ UNCHANGED <<method, matrix1, matrix2, outcome, block, iterations, sections, parts,
                               temp, conflict>>
Load(t) == /\ t \in threads /\ ~Atomic(method) /\ t.loaded = <<>>
           /\ threads' = (threads \ {t}) \cup {[t EXCEPT !.loaded = <<Old(t)>>]}
           /\ conflict' = (conflict \/ \E u \in threads : /\ u.loaded # <<>>
                                                          /\ Cell(u)[1] = Cell(t)[1]
                                                          /\ Cell(u)[3] = Cell(t)[3])
           /\ UNCHANGED <<method, matrix1, matrix2, result, outcome, block, iterations, sections,
                          parts, temp>>
Store(t) == /\ t \in threads /\ ~Atomic(method) /\ t.loaded # <<>>
            /\ result' = Stored(t, t.loaded[1] + Term(t))
            /\ threads' = (threads \ {t}) \cup Ahead(t)
            /\ UNCHANGED <<method, matrix1, matrix2, outcome, block, iterations, sections, parts,
                           temp, conflict>>
-----------------------------------------------------------------------------
(* sharedMemoryMultiply: section <<r, c>> computes quarter <<r, c>> and uses temp<c>.  What *)
(* its threads call is one step: exact for sizes below 4, where the quarters are cells.     *)

Factor(q, k) == multiplyRecursive(Quarter(matrix1, q[1], k), Quarter(matrix2, k, q[2]))
Section(q) ==
    /\ Running /\ q \in DOMAIN sections
    /\ \/ /\ sections[q] = "first"
          /\ parts' = [parts EXCEPT ![q] = Factor(q, 1)]
          /\ sections' = [sections EXCEPT ![q] = "second"]
          /\ UNCHANGED <<temp, conflict>>
       \/ /\ sections[q] = "second"
          /\ temp' = [temp EXCEPT ![q[2]] = Factor(q, 2)]
          /\ sections' = [sections EXCEPT ![q] = "add"]
          /\ conflict' = (conflict \/ sections[<<3 - q[1], q[2]>>] = "add")
          /\ UNCHANGED parts
       \/ /\ sections[q] = "add"
          /\ parts' = [parts EXCEPT ![q] = add(@, temp[q[2]])]
          /\ sections' = [sections EXCEPT ![q] = "done"]
          /\ UNCHANGED <<temp, conflict>>
    /\ UNCHANGED <<method, matrix1, matrix2, result, outcome, block, iterations, threads>>

\* The end of the parallel region, and the result.
Finish == /\ Running /\ method \in Shared
          /\ iterations = {} /\ threads = {} /\ \A q \in DOMAIN sections : sections[q] = "done"
          /\ result' = IF method # "sharedMemoryMultiply" THEN result
                       ELSE IF sections = <<>> THEN multiplyMatrices(matrix1, matrix2)
                       ELSE Combined(parts, Rows(matrix1))
          /\ outcome' = "returned"
          /\ UNCHANGED <<method, matrix1, matrix2, block, iterations, threads, sections, parts,
                         temp, conflict>>
-----------------------------------------------------------------------------
\* Every product is a sum of products of one entry each, so that the matrices with one
\* entry 1, with one that has all entries different, tell whether it is right.
Unit(r, c) == {[i \in 0..(r - 1) |-> [j \in 0..(c - 1) |-> IF <<i, j>> = x THEN 1 ELSE 0]] :
                  x \in (0..(r - 1)) \X (0..(c - 1))}
Counting(r, c) == [i \in 0..(r - 1) |-> [j \in 0..(c - 1) |-> 1 + i * c + j]]
Some(r, c) == IF r = 0 THEN {<<>>}
              ELSE IF method \in Shared \/ r * c > UnitCells THEN {Counting(r, c)}
              ELSE Unit(r, c) \cup {Counting(r, c)}

MatricesInit ==
    /\ method \in Methods
    /\ block \in IF method \in Blocked THEN BlockSizes ELSE {1}
    /\ \/ /\ method \in Rectangular
          /\ LET sizes == IF method \in Shared THEN SharedSizes ELSE Dimensions
             IN \E r1, r2 \in sizes \cup {0}, c1, c2 \in sizes :
                   matrix1 \in Some(r1, c1) /\ matrix2 \in Some(r2, c2)
       \/ /\ method \notin Rectangular
          /\ \E size \in IF method \in Shared THEN SharedSizes ELSE SquareSizes :
                matrix1 \in Some(size, size) /\ matrix2 \in Some(size, size)
    /\ result = <<>> /\ outcome = "called" /\ iterations = {} /\ threads = {}
    /\ sections = <<>> /\ conflict = FALSE
    /\ parts = [q \in {1, 2} \X {1, 2} |-> <<>>] /\ temp = [c \in {1, 2} |-> <<>>]

MatricesNext == \/ Reject \/ Compute \/ Start \/ (\E it \in iterations : Take(it))
                \/ (\E t \in threads : AtomicAdd(t) \/ Load(t) \/ Store(t))
                \/ (\E q \in DOMAIN sections : Section(q)) \/ Finish
-----------------------------------------------------------------------------
MatricesTypeOK ==
    /\ outcome \in {"called", "running", "returned", "empty", "invalid_argument"} /\ conflict \in BOOLEAN
    /\ \A t \in threads : t.rest # <<>> /\ t.it \in Iterations \ iterations

\* The result is the product of the matrices whenever the code computes it: that excludes
\* the sizes that strassenMultiply and multiplyRecursive cannot halve down to 1, and runs
\* in which threads conflicted.
PowerOfTwo(x) == \E e \in 0..10 : x = 2^e
IsProduct == outcome = "returned" /\ ~conflict =>
                \/ method \in {"strassenMultiply", "sharedMemoryMultiply"} /\ ~PowerOfTwo(Rows(matrix1))
                \/ result = [i \in DOMAIN matrix1 |-> [j \in DOMAIN matrix2[0] |->
                                MapThenSumSet(LAMBDA k : matrix1[i][k] * matrix2[k][j], DOMAIN matrix2)]]

\* Threads conflict over a cell only in blockWiseMultiply, when the matrix has more rows
\* than a block, and over a temporary matrix only in sharedMemoryMultiply.
ConflictsOnly == conflict => \/ method = "blockWiseMultiply" /\ Rows(matrix1) > block
                             \/ method = "sharedMemoryMultiply"
=============================================================================
