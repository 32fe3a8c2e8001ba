----------------------------- MODULE MutexLists -----------------------------
(***************************************************************************)
(* The linked lists whose calls hold one mutex throughout, so that a call  *)
(* (or its part up to a wait) is one step: nl_linkedlist.c and the Naive   *)
(* lists, which insert at the head; cvm_linkedlist.c and                   *)
(* ConditionVariableLinkedList.hpp, which also wait while the list is      *)
(* empty; FineGrainedLinkedList.hpp, which keeps the list in order and     *)
(* locks headMutex first, so that its node mutexes are never contended.    *)
(* The threads are those of the lists' tests.                              *)
(***************************************************************************)
EXTENDS Integers, SequencesExt, CondVar

CONSTANTS Inserters, Removers,   \* the threads, half of each in threadSafeTest
          Operations             \* how many values each thread goes through

Thread == Inserters \cup Removers
Value == 1..(Operations + Cardinality(Thread) * Operations)

VARIABLES kind,      \* "naive", "condvar" or "sorted"
          program,   \* the calls of each thread
          at,        \* how many of them have returned
          list,      \* the values, from the head on
          cv,        \* the threads asleep in remove
          missed     \* history: the calls that answered false

vars == <<kind, program, at, list, cv, missed>>
-----------------------------------------------------------------------------
(* The threads of the tests.  A call is an operation and its argument. *)

\* The same operations with one value after the other.
EachWith(operations, first) ==
    [k \in 1..(Len(operations) * Operations) |->
        <<operations[((k - 1) % Len(operations)) + 1], first + ((k - 1) \div Len(operations))>>]

\* performanceTest: all threads insert, search and remove equal values.
Shared == [t \in Thread |-> EachWith(<<"insert", "search", "remove">>, 1)]

\* nl_linkedlist_test.c, cvm_linkedlist_test.c: each thread has values of its
\* own and searches for them again when they are removed.
Own(base) == [t \in Thread |->
                 EachWith(<<"insert", "search", "remove", "search">>, base[t] * Operations + 1)]

\* threadSafeTest: half of the threads insert, the others remove.
Halves(argument) ==
    [t \in Thread |-> [j \in 1..Operations |->
        IF t \in Inserters THEN <<"insert", j>> ELSE <<"remove", argument[t][j]>>]]

\* ... what was inserted, or always some value that was never initialised.
SameValues == [t \in Removers |-> [j \in 1..Operations |-> j]]
Garbage == {[t \in Removers |-> [j \in 1..Operations |-> g[t]]] : g \in [Removers -> 1..(Operations + 1)]}

Workloads == LET base == CHOOSE b \in [Thread -> 1..Cardinality(Thread)] :
                             \A t, u \in Thread : b[t] = b[u] => t = u
             IN {Shared, Own(base)} \cup {Halves(g) : g \in {SameValues} \cup Garbage}

Init == /\ kind \in {"naive", "condvar", "sorted"}
        /\ program \in Workloads
        /\ at = [t \in Thread |-> 0]
        /\ list = <<>> /\ cv = {} /\ missed = {}
-----------------------------------------------------------------------------
(* The calls. *)

Runs(t, operation) == /\ t \notin cv
                      /\ at[t] < Len(program[t])
                      /\ program[t][at[t] + 1][1] = operation
Argument(t) == program[t][at[t] + 1][2]
Returns(t, answer) == /\ at' = [at EXCEPT ![t] = @ + 1]
                      /\ missed' = missed \cup (IF answer THEN {} ELSE {<<t, at[t] + 1>>})

\* Where v goes: before the first greater value, or at the end.
FirstAbove(v) == CHOOSE i \in 1..(Len(list) + 1) :
                    /\ i > Len(list) \/ list[i] > v
                    /\ \A j \in 1..(i - 1) : list[j] <= v

With(v) == IF kind = "sorted" THEN InsertAt(list, FirstAbove(v), v) ELSE <<v>> \o list

\* The first node with the value is unlinked.  The mutation unlinks them all.
AllGone(v) == SelectSeq(list, LAMBDA x : x # v)
Without(v) == RemoveAt(list, CHOOSE i \in DOMAIN list : /\ list[i] = v
                                                         /\ \A j \in 1..(i - 1) : list[j] # v)

Present(v) == \E i \in DOMAIN list : list[i] = v

\* insert signals at every insertion; the mutation, only when the list was
\* empty before.
SignalFirst == IF list = <<>> THEN NotifyOne(cv) ELSE {cv}
Signal == NotifyOne(cv)

Insert(t) == /\ Runs(t, "insert")
             /\ list' = With(Argument(t))
             /\ cv' \in Signal
             /\ Returns(t, TRUE)
             /\ UNCHANGED <<kind, program>>

Search(t) == /\ Runs(t, "search")
             /\ Returns(t, Present(Argument(t)))
             /\ UNCHANGED <<kind, program, list, cv>>

\* Only the lists with a condition variable wait.  (FineGrainedLinkedList gives
\* back the mutex of the node it has just destroyed: nobody else holds it.)
Waits == kind = "condvar" /\ list = <<>>

RemoveReturns(t) ==
    /\ Runs(t, "remove") /\ ~Waits
    /\ list' = IF Present(Argument(t)) THEN Without(Argument(t)) ELSE list
    /\ Returns(t, Present(Argument(t)))
    /\ UNCHANGED <<kind, program, cv>>

RemoveWaits(t) == /\ Runs(t, "remove") /\ Waits
                  /\ cv' = cv \cup {t}
                  /\ UNCHANGED <<kind, program, at, list, missed>>

WakeSpuriously == /\ cv' \in WakeOne(cv)
                  /\ UNCHANGED <<kind, program, at, list, missed>>
-----------------------------------------------------------------------------
Step(t) == Insert(t) \/ Search(t) \/ RemoveReturns(t) \/ RemoveWaits(t)

AllReturned == \A t \in Thread : at[t] = Len(program[t])

Next == \/ \E t \in Thread : Step(t)
        \/ WakeSpuriously
        \/ AllReturned /\ UNCHANGED vars

Spec == Init /\ [][Next]_vars
-----------------------------------------------------------------------------
TypeOK == /\ kind \in {"naive", "condvar", "sorted"}
          /\ at \in [Thread -> Nat]
          /\ list \in Seq(Value)
          /\ cv \subseteq Thread
          /\ cv # {} => kind = "condvar"

\* The calls that have returned and did an operation with v.
Returned == UNION {{t} \X (1..at[t]) : t \in Thread}
Done(operation, v) == {c \in Returned \ missed : program[c[1]][c[2]] = <<operation, v>>}

\* Every value is in the list as often as it was inserted and not removed, and
\* the sorted list is in order.
Copies == \A v \in Value :
    Cardinality({i \in DOMAIN list : list[i] = v}) + Cardinality(Done("remove", v))
      = Cardinality(Done("insert", v))
InOrder == kind = "sorted" => \A i \in 1..(Len(list) - 1) : list[i] <= list[i + 1]

\* A thread that removes only what it has inserted finds its value, however
\* many others insert and remove equal ones, and never waits for one.
Owned(t, i) == \E j \in 1..(i - 1) : /\ program[t][j] = <<"insert", program[t][i][2]>>
                                     /\ \A k \in (j + 1)..(i - 1) : program[t][k][1] # "remove"
FindsItsOwn == /\ \A call \in missed : ~Owned(call[1], call[2])
               /\ \A t \in cv : ~Owned(t, at[t] + 1)
=============================================================================
