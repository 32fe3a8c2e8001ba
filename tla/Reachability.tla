---------------------------- MODULE Reachability ----------------------------
(***************************************************************************)
(* Graphs as std::vector<std::vector<int>> holds them: one sequence of     *)
(* neighbours per vertex, in list order, self loops and repeated           *)
(* neighbours allowed.  Reachability is the least closed set, so that it   *)
(* needs no recursion.  Nodes linked by a pointer are a function from each *)
(* node to the next one, or to null after the last.                        *)
(***************************************************************************)
EXTENDS Naturals, Sequences, FiniteSets

\* w is one of the neighbours listed for v.
Edge(g, v, w) == \E k \in DOMAIN g[v] : g[v][k] = w

\* Every neighbour of a vertex of S is in S.
Closed(g, S) == \A v \in S : \A k \in DOMAIN g[v] : g[v][k] \in S

\* The vertices reachable from s: those in every closed set that contains s.
Reachable(g, s) ==
    {v \in DOMAIN g : \A S \in SUBSET DOMAIN g :
                          s \in S /\ Closed(g, S) => v \in S}
-----------------------------------------------------------------------------
\* The nodes that a walk from a visits, in order, for as many steps as there are nodes.
NodesFrom(next, null, a) ==
    LET onward(s) == IF s = <<>> THEN a ELSE next[s[Len(s)]]
        longer[s \in Seq(DOMAIN next)] == IF onward(s) = null THEN s ELSE Append(s, onward(s))
        walk[k \in 0..Cardinality(DOMAIN next)] == IF k = 0 THEN <<>> ELSE longer[walk[k - 1]]
    IN walk[Cardinality(DOMAIN next)]

\* The nodes that a walk from a visits, as a set.
Visited(next, null, a) ==
    IF a = null THEN {}
    ELSE Reachable([n \in DOMAIN next |-> IF next[n] = null THEN <<>> ELSE <<next[n]>>], a)
=============================================================================
