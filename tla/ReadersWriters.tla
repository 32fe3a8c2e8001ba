--------------------------- MODULE ReadersWriters ----------------------------
(***************************************************************************)
(* ReadersWriters of readers_writers.cpp: a monitor with two condition     *)
(* variables, and the reader and writer threads that main starts, each of  *)
(* which enters and leaves once.  Each section under the mutex is a step.  *)
(***************************************************************************)
EXTENDS Integers, FiniteSets, CondVar

CONSTANTS Readers, Writers

Thread == Readers \cup Writers

VARIABLES readers_count, writer_active,
          readers_condition,    \* the threads asleep in startRead
          writer_condition,     \* the threads asleep in startWrite
          at                    \* where each thread is

vars == <<readers_count, writer_active, readers_condition, writer_condition, at>>

Init == /\ readers_count = 0
        /\ writer_active = FALSE
        /\ readers_condition = {} /\ writer_condition = {}
        /\ at = [t \in Thread |-> "outside"]

Asleep == readers_condition \cup writer_condition
Goes(t, place) == at' = [at EXCEPT ![t] = place]
-----------------------------------------------------------------------------
MayRead == ~writer_active

\* The mutation lets a writer in among readers.
NoWriter == ~writer_active
MayWrite == ~writer_active /\ readers_count = 0

startRead(r) == /\ at[r] = "outside" /\ r \notin Asleep
                /\ MayRead
                /\ readers_count' = readers_count + 1
                /\ Goes(r, "inside")
                /\ UNCHANGED <<writer_active, readers_condition, writer_condition>>

ReadWaits(r) == /\ at[r] = "outside" /\ r \notin Asleep
                /\ ~MayRead
                /\ readers_condition' = readers_condition \cup {r}
                /\ UNCHANGED <<readers_count, writer_active, writer_condition, at>>

\* The mutation tells when one reader is left.
TellBeforeLast(n) == IF n = 1 THEN writer_condition' \in NotifyOne(writer_condition)
                              ELSE UNCHANGED writer_condition
TellAfterLast(n) == IF n = 0 THEN writer_condition' \in NotifyOne(writer_condition)
                             ELSE UNCHANGED writer_condition

endRead(r) == /\ at[r] = "inside"
              /\ readers_count' = readers_count - 1
              /\ TellAfterLast(readers_count - 1)
              /\ Goes(r, "done")
              /\ UNCHANGED <<writer_active, readers_condition>>

startWrite(w) == /\ at[w] = "outside" /\ w \notin Asleep
                 /\ MayWrite
                 /\ writer_active' = TRUE
                 /\ Goes(w, "inside")
                 /\ UNCHANGED <<readers_count, readers_condition, writer_condition>>

WriteWaits(w) == /\ at[w] = "outside" /\ w \notin Asleep
                 /\ ~MayWrite
                 /\ writer_condition' = writer_condition \cup {w}
                 /\ UNCHANGED <<readers_count, writer_active, readers_condition, at>>

\* The mutation tells the writers only when no reader sleeps.
PrefersReaders == /\ readers_condition' = {}
                  /\ IF readers_condition = {} THEN writer_condition' \in NotifyOne(writer_condition)
                                               ELSE UNCHANGED writer_condition
TellEverybody == /\ readers_condition' = {}
                 /\ writer_condition' \in NotifyOne(writer_condition)

endWrite(w) == /\ at[w] = "inside"
               /\ writer_active' = FALSE
               /\ TellEverybody
               /\ Goes(w, "done")
               /\ UNCHANGED readers_count

WakeSpuriously ==
    /\ \/ readers_condition' \in WakeOne(readers_condition) /\ UNCHANGED writer_condition
       \/ writer_condition' \in WakeOne(writer_condition) /\ UNCHANGED readers_condition
    /\ UNCHANGED <<readers_count, writer_active, at>>

ReaderStep(r) == startRead(r) \/ ReadWaits(r) \/ endRead(r)
WriterStep(w) == startWrite(w) \/ WriteWaits(w) \/ endWrite(w)

AllJoined == \A t \in Thread : at[t] = "done"

Next == \/ \E r \in Readers : ReaderStep(r)
        \/ \E w \in Writers : WriterStep(w)
        \/ WakeSpuriously
        \/ AllJoined /\ UNCHANGED vars

Spec == Init /\ [][Next]_vars
-----------------------------------------------------------------------------
TypeOK == /\ readers_count \in 0..Cardinality(Readers)
          /\ writer_active \in BOOLEAN
          /\ readers_condition \in SUBSET Readers
          /\ writer_condition \in SUBSET Writers
          /\ at \in [Thread -> {"outside", "inside", "done"}]

Inside(S) == {t \in S : at[t] = "inside"}

\* A writer is alone inside, and the two fields say who is there.
WritersAlone == /\ Inside(Writers) # {} => Cardinality(Inside(Thread)) = 1
                /\ readers_count = Cardinality(Inside(Readers))
                /\ writer_active <=> Inside(Writers) # {}

\* Readers sleep only while a writer is inside; a writer sleeps only while
\* somebody is inside who will tell one, or a writer is awake who will.
SomebodyWillTell ==
    /\ readers_condition # {} => writer_active
    /\ writer_condition # {} =>
          \/ Inside(Thread) # {}
          \/ \E w \in Writers \ writer_condition : at[w] = "outside"
=============================================================================
