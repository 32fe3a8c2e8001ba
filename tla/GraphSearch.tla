----------------------------- MODULE GraphSearch -----------------------------
(***************************************************************************)
(* What a graph traversal promises its caller, with no queue and no        *)
(* thread: between start and return it marks vertices one at a time, each  *)
(* a neighbour of one already marked, and it returns only when no          *)
(* neighbour of a marked vertex is unmarked.                               *)
(***************************************************************************)
EXTENDS Reachability

VARIABLES graph,    \* the adjacency lists
          seen,     \* the vertices marked so far
          busy      \* TRUE from the start of a traversal to its return

vars == <<graph, seen, busy>>

Init == seen = {} /\ busy = FALSE

Start(s) == /\ ~busy
            /\ busy' = TRUE
            /\ seen' = {s}
            /\ UNCHANGED graph

Mark(v) == /\ busy
           /\ v \notin seen
           /\ \E u \in seen : Edge(graph, u, v)
           /\ seen' = seen \cup {v}
           /\ UNCHANGED <<graph, busy>>

Return == /\ busy
          /\ Closed(graph, seen)
          /\ busy' = FALSE
          /\ UNCHANGED <<graph, seen>>

Next == \/ \E v \in DOMAIN graph : Start(v) \/ Mark(v)
        \/ Return

Spec == Init /\ [][Next]_vars
=============================================================================
