------------------------------ MODULE Spinlock -------------------------------
(***************************************************************************)
(* Spinlock of busywaiting_spinlock.cpp and the threads of its main, each  *)
(* of which increments the shared counter numIncrements times under it.    *)
(* The increment is a load and a store.                                    *)
(***************************************************************************)
EXTENDS Naturals, FiniteSets

CONSTANTS Thread, numIncrements

VARIABLES lockFlag, counter,
          expected,     \* lock's local variable
          loaded,       \* the value of the counter a thread is about to add to
          at, i         \* where each thread is, and the index of its loop

vars == <<lockFlag, counter, expected, loaded, at, i>>

Init == /\ lockFlag = FALSE /\ counter = 0
        /\ expected = [t \in Thread |-> FALSE]
        /\ loaded = [t \in Thread |-> 0]
        /\ at = [t \in Thread |-> "lock"]
        /\ i = [t \in Thread |-> 0]

Runs(t) == i[t] < numIncrements
-----------------------------------------------------------------------------
\* compare_exchange_weak succeeds ...
LockTaken(t) == /\ at[t] = "lock" /\ Runs(t)
                /\ lockFlag = expected[t]
                /\ lockFlag' = TRUE
                /\ at' = [at EXCEPT ![t] = "load"]
                /\ UNCHANGED <<counter, expected, loaded, i>>

\* ... or fails, even when it need not, and leaves what it found in expected,
\* which the body of the loop resets.  The mutation does not.
ExpectedIsFound == lockFlag
ExpectedIsReset == FALSE

LockFails(t) == /\ at[t] = "lock" /\ Runs(t)
                /\ expected' = [expected EXCEPT ![t] = ExpectedIsReset]
                /\ UNCHANGED <<lockFlag, counter, loaded, at, i>>

Load(t) == /\ at[t] = "load"
           /\ loaded' = [loaded EXCEPT ![t] = counter]
           /\ at' = [at EXCEPT ![t] = "store"]
           /\ UNCHANGED <<lockFlag, counter, expected, i>>

Store(t) == /\ at[t] = "store"
            /\ counter' = loaded[t] + 1
            /\ at' = [at EXCEPT ![t] = "unlock"]
            /\ UNCHANGED <<lockFlag, expected, loaded, i>>

\* lock declares a new `expected` in its next call.
unlock(t) == /\ at[t] = "unlock"
             /\ lockFlag' = FALSE
             /\ at' = [at EXCEPT ![t] = "lock"]
             /\ expected' = [expected EXCEPT ![t] = FALSE]
             /\ i' = [i EXCEPT ![t] = @ + 1]
             /\ UNCHANGED <<counter, loaded>>

incrementCounter(t) == LockTaken(t) \/ LockFails(t) \/ Load(t) \/ Store(t) \/ unlock(t)

AllJoined == \A t \in Thread : ~Runs(t)

Next == \/ \E t \in Thread : incrementCounter(t)
        \/ AllJoined /\ UNCHANGED vars

Spec == Init /\ [][Next]_vars
-----------------------------------------------------------------------------
TypeOK == /\ lockFlag \in BOOLEAN /\ counter \in Nat
          /\ expected \in [Thread -> BOOLEAN]
          /\ loaded \in [Thread -> Nat]
          /\ at \in [Thread -> {"lock", "load", "store", "unlock"}]
          /\ i \in [Thread -> 0..numIncrements]

\* What the critical section is for: no increment is lost, however the threads
\* interleave.
NoLostUpdate == AllJoined => counter = numIncrements * Cardinality(Thread)
=============================================================================
