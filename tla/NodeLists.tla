------------------------------ MODULE NodeLists ------------------------------
(***************************************************************************)
(* What the linked lists share: nodes on a heap, a head, for some a tail   *)
(* and a size, and nodes owned by shared pointers, which live as long as   *)
(* the list or a live node refers to them.                                 *)
(***************************************************************************)
EXTENDS Integers, FiniteSets, SequencesExt, TLC

CONSTANTS Address,    \* where nodes can be
          Value,
          NULL,
          MaxLength   \* bound: the elements a caller keeps in a list

VARIABLES kind,       \* the file whose list this is
          list,       \* [head, tail, size, node: what is at each address in use]
          call        \* the call that came last: [op, at, values, answer]

Nothing == <<>>
NoList(size) == [head |-> NULL, tail |-> NULL, size |-> size, node |-> <<>>]
Node(v) == [data |-> v, next |-> NULL, prev |-> NULL]

\* A new node with value v at address a.
New(l, a, v) == [l EXCEPT !.node = (a :> Node(v)) @@ @]
Without(l, S) == [l EXCEPT !.node = [n \in DOMAIN @ \ S |-> @[n]]]
Fresh == Address \ DOMAIN list.node

\* The nodes from the head on, up to the end or back to the head.
Path(l) ==
    LET first[i \in 1..Cardinality(Address)] ==
            IF i = 1 THEN IF l.head = NULL THEN <<>> ELSE <<l.head>>
            ELSE LET s == first[i - 1]
                     n == IF s = <<>> THEN NULL ELSE l.node[Last(s)].next
                 IN  IF n \in DOMAIN l.node \ ToSet(s) THEN Append(s, n) ELSE s
    IN  first[Cardinality(Address)]

Contents(l) == LET p == Path(l) IN [i \in DOMAIN p |-> l.node[p[i]].data]
LastNode(l) == Last(Path(l))
At(l, i) == Path(l)[i]

\* The first node with value v, NULL when there is none.
Search(l, v) == LET i == SelectInSeq(Contents(l), LAMBDA x : x = v)
                IN  IF i = 0 THEN NULL ELSE At(l, i)
Before(l, n) == At(l, SelectInSeq(Path(l), LAMBDA m : m = n) - 1)

\* The nodes that stay alive when the links in `strong` own what they point to:
\* each is owned by one of `roots` or by a node that stays alive itself.
Held(l, roots, strong) ==
    UNION {S \in SUBSET DOMAIN l.node :
             \A n \in S : n \in roots \/ \E m \in S, f \in strong : l.node[m][f] = n}

Released(l, roots, strong) == Without(l, DOMAIN l.node \ Held(l, roots, strong))

\* The nodes in use that no call can reach any more.
Lost(l) == DOMAIN l.node \ ToSet(Path(l))

\* A new node between the nodes p and n.
Between(l, a, v, p, n) == [New(l, a, v) EXCEPT !.node[a].prev = p, !.node[a].next = n,
                                               !.node[n].prev = a, !.node[p].next = a]

\* The neighbours of n, those it has, are linked with each other.
Bypassed(l, n) ==
    LET before == l.node[n].prev
        behind == l.node[n].next
    IN  [l EXCEPT !.node = [m \in DOMAIN @ |->
            [@[m] EXCEPT !.prev = IF m = behind THEN before ELSE @,
                         !.next = IF m = before THEN behind ELSE @]]]
-----------------------------------------------------------------------------
\* A call of op that leaves the list l and answers r.
Did(op, i, s, r, l) == /\ list' = l
                       /\ call' = [op |-> op, at |-> i, values |-> s, answer |-> r]
                       /\ UNCHANGED kind

Does(op, i, s, l) == Did(op, i, s, Nothing, l)
Asked(op, i, s, r) == Did(op, i, s, r, list)
HasRoom(k) == Len(Contents(list)) + k <= MaxLength
-----------------------------------------------------------------------------
\* Every variable keeps its type.
TypeOK ==
    LET Link == Address \cup {NULL}
    IN  /\ list.head \in Link /\ list.tail \in Link /\ list.size \in Nat
        /\ DOMAIN list.node \subseteq Address
        /\ \A n \in DOMAIN list.node :
              list.node[n] \in [data : Value, next : Link, prev : Link]

\* No link leads to a node that was freed.
NoDangling == \A n \in DOMAIN list.node :
    {list.node[n].next, list.node[n].prev} \subseteq DOMAIN list.node \cup {NULL}

\* The list read backwards is the list read forwards, reversed.
Backwards == LET p == Path(list)
             IN  \A i \in DOMAIN p : list.node[p[i]].prev = IF i = 1 THEN NULL ELSE p[i - 1]
Ends == list.head # NULL => list.node[LastNode(list)].next = NULL
TailIsLast == list.tail = IF list.head = NULL THEN NULL ELSE LastNode(list)
SizeIsLength == list.size = Len(Path(list))

\* The nodes form one ring, in both directions.
RingCloses == LET p == Path(list)
              IN  \A i \in DOMAIN p :
                     LET j == (i % Len(p)) + 1
                     IN  list.node[p[i]].next = p[j] /\ list.node[p[j]].prev = p[i]
=============================================================================
