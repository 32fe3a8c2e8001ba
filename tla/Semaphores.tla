----------------------------- MODULE Semaphores -----------------------------
(***************************************************************************)
(* BinarySemaphore (bin_sema.cpp) and CountingSemaphore (con_sema.cpp): a  *)
(* count, a mutex and a condition variable.  wait and signal hold the      *)
(* mutex from their beginning until they return or sleep, so that each     *)
(* such section is one step.                                               *)
(*                                                                         *)
(* Below, the programs that use them: the critical section of              *)
(* cs_bin_sema.cpp, the three threads of ioe_bin_sema.cpp that print in    *)
(* order, the producer and the consumer of pc_binsema.cpp, and a pool of   *)
(* permits for CountingSemaphore, which has no client in the repository.   *)
(***************************************************************************)
EXTENDS Integers, Sequences, FiniteSets, CondVar

CONSTANTS Workers,      \* the threads of cs_bin_sema, and those of the pool
          Permits,      \* how many permits the pool has
          Rounds        \* the bound of the loops of producer and consumer

BinarySems == {"sem", "sem1", "sem2", "sem3", "mutex", "items"}
Sems == BinarySems \cup {"pool"}
InitialCount(s) == CASE s \in {"sem", "sem1", "mutex"} -> 1
                     [] s = "pool" -> Permits
                     [] OTHER -> 0

VARIABLES client,       \* which program runs
          count,
          cv,           \* of each semaphore, the threads asleep in wait
          at, rounds,   \* where each thread is in its loop, and in which round
          buffer,       \* pc_binsema: how many items the queue holds
          printed       \* ioe_bin_sema: what was printed, in order

vars == <<client, count, cv, at, rounds, buffer, printed>>
-----------------------------------------------------------------------------
SemInit == /\ count = [s \in Sems |-> InitialCount(s)]
           /\ cv = [s \in Sems |-> {}]

\* The mutation lets everybody pass.
Open(s) == TRUE
Available(s) == count[s] > 0

\* The mutation forgets to take the permit.
NotTaken(s) == count[s]
Taken(s) == IF s \in BinarySems THEN 0 ELSE count[s] - 1
Given(s) == IF s \in BinarySems THEN 1 ELSE count[s] + 1

Wait(t, s) == /\ Available(s)
              /\ count' = [count EXCEPT ![s] = Taken(s)]
              /\ UNCHANGED cv

WaitSleeps(t, s) == /\ ~Available(s)
                    /\ cv' = [cv EXCEPT ![s] = @ \cup {t}]
                    /\ UNCHANGED count

\* The mutation notifies only those who came before the first permit.
NotifyFirst(s) == IF count[s] = 0 THEN NotifyOne(cv[s]) ELSE {cv[s]}
Notify(s) == NotifyOne(cv[s])

Signal(s) == /\ count' = [count EXCEPT ![s] = Given(s)]
             /\ \E asleep \in Notify(s) : cv' = [cv EXCEPT ![s] = asleep]

WakeSpuriously == /\ \E s \in Sems : \E asleep \in WakeOne(cv[s]) :
                        cv' = [cv EXCEPT ![s] = asleep]
                  /\ UNCHANGED count
-----------------------------------------------------------------------------
(* The threads' loop bodies, one call to a step. *)

accessCriticalSection == <<<<"wait", "sem">>, <<"signal", "sem">>>>

first == <<<<"wait", "sem1">>, <<"print", "First">>, <<"signal", "sem2">>>>

\* The mutation signals before it has printed.
hurried == <<<<"wait", "sem2">>, <<"signal", "sem3">>, <<"print", "Second">>>>
second == <<<<"wait", "sem2">>, <<"print", "Second">>, <<"signal", "sem3">>>>
third == <<<<"wait", "sem3">>, <<"print", "Third">>>>

producer == <<<<"wait", "mutex">>, <<"push", "buffer">>,
              <<"signal", "mutex">>, <<"signal", "items">>>>

\* The mutation does not wait for the item.
impatient == <<<<"wait", "mutex">>, <<"pop", "buffer">>, <<"signal", "mutex">>>>
consumer == <<<<"wait", "items">>, <<"wait", "mutex">>,
              <<"pop", "buffer">>, <<"signal", "mutex">>>>

usePermit == <<<<"wait", "pool">>, <<"signal", "pool">>>>

Program == CASE client = "cs" -> [t \in Workers |-> accessCriticalSection]
             [] client = "ioe" -> [first |-> first, second |-> second, third |-> third]
             [] client = "pc" -> [producer |-> producer, consumer |-> consumer]
             [] client = "pool" -> [t \in Workers |-> usePermit]

Thread == DOMAIN Program
RoundsOf(c) == IF c = "pc" THEN Rounds ELSE 1

Init(clients) == /\ client \in clients
                 /\ SemInit
                 /\ at = [t \in Thread |-> 1]
                 /\ rounds = [t \in Thread |-> 0]
                 /\ buffer = 0
                 /\ printed = <<>>
-----------------------------------------------------------------------------
Runs(t) == rounds[t] < RoundsOf(client)
Asleep(t) == \E s \in Sems : t \in cv[s]
Call(t) == Program[t][at[t]]

NextCall(t) == IF at[t] < Len(Program[t])
               THEN /\ at' = [at EXCEPT ![t] = @ + 1]
                    /\ UNCHANGED rounds
               ELSE /\ at' = [at EXCEPT ![t] = 1]
                    /\ rounds' = [rounds EXCEPT ![t] = @ + 1]

Passes(t, s) == /\ Call(t) = <<"wait", s>> /\ Wait(t, s) /\ NextCall(t)
                /\ UNCHANGED <<buffer, printed>>
Sleeps(t, s) == /\ Call(t) = <<"wait", s>> /\ WaitSleeps(t, s)
                /\ UNCHANGED <<at, rounds, buffer, printed>>
Signals(t, s) == /\ Call(t) = <<"signal", s>> /\ Signal(s) /\ NextCall(t)
                 /\ UNCHANGED <<buffer, printed>>
Pushes(t) == /\ Call(t) = <<"push", "buffer">> /\ buffer' = buffer + 1 /\ NextCall(t)
             /\ UNCHANGED <<count, cv, printed>>

\* front and pop of an empty std::queue are undefined: buffer goes below zero.
Pops(t) == /\ Call(t) = <<"pop", "buffer">> /\ buffer' = buffer - 1 /\ NextCall(t)
           /\ UNCHANGED <<count, cv, printed>>
Prints(t) == /\ Call(t)[1] = "print" /\ printed' = Append(printed, Call(t)[2]) /\ NextCall(t)
             /\ UNCHANGED <<count, cv, buffer>>

Step(t) == /\ Runs(t) /\ ~Asleep(t)
           /\ \/ \E s \in Sems : Passes(t, s) \/ Sleeps(t, s) \/ Signals(t, s)
              \/ Pushes(t) \/ Pops(t) \/ Prints(t)
           /\ UNCHANGED client

AllJoined == \A t \in Thread : ~Runs(t)

Next == \/ \E t \in Thread : Step(t)
        \/ WakeSpuriously /\ UNCHANGED <<client, at, rounds, buffer, printed>>
        \/ AllJoined /\ UNCHANGED vars
-----------------------------------------------------------------------------
TypeOK == /\ count \in [Sems -> Nat]
          /\ \A s \in BinarySems : count[s] \in {0, 1}
          /\ cv \in [Sems -> SUBSET Thread]
          /\ \A t \in Thread : at[t] \in 1..Len(Program[t]) /\ rounds[t] \in 0..RoundsOf(client)
          /\ buffer \in Int

\* The threads between their wait on s and their signal of it.
Holders(s) == {t \in Thread :
                 \E i \in 1..(at[t] - 1) :
                    /\ Program[t][i] = <<"wait", s>>
                    /\ \A j \in i..(at[t] - 1) : Program[t][j] # <<"signal", s>>}

\* No permit is made or lost: of a semaphore that guards a critical section or
\* a pool, what is not in the count is held.
PermitsConserved ==
    \A s \in {"sem", "mutex", "pool"} :
        count[s] + Cardinality(Holders(s)) = InitialCount(s)

\* A thread that sleeps beside a permit is not the only one to come for it: as
\* many awake threads are about to wait as there are permits.
NobodyMissed ==
    \A s \in Sems :
        cv[s] # {} =>
            count[s] <= Cardinality({t \in Thread : Runs(t) /\ ~Asleep(t) /\ Call(t) = <<"wait", s>>})

\* "In Order Execution": whatever order the threads start in, they print in
\* the order First, Second, Third.
PrintsInOrder == \E n \in 0..3 : printed = SubSeq(<<"First", "Second", "Third">>, 1, n)

\* The consumer of pc_binsema never takes from an empty queue.
PopsAnItem == buffer >= 0
-----------------------------------------------------------------------------
(* pc_binsema.cpp alone. *)

PCSpec == /\ Init({"pc"}) /\ [][Next]_vars
          /\ WF_vars(Step("producer")) /\ WF_vars(Step("consumer"))

\* "Wait for an item to be produced": an item that was produced ends the
\* consumer's wait.
ItemIsConsumed == buffer > 0 ~> buffer = 0
=============================================================================
