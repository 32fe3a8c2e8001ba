----------------------------- MODULE Lists_proofs -----------------------------
(***************************************************************************)
(* The lists inside MCConcurrentStructures, for any finite sets of threads *)
(* and any number of calls: LockFreeLinkedList, where whatever a pointer   *)
(* passes over was removed; the lists with one mutex, which hold the       *)
(* values inserted and not removed; the lists in C, whose nodes are ranked *)
(* by the order of their pushes as long as one thread deletes; and         *)
(* NonBlockingLinkedList, where a thread may stand at nodes that are no    *)
(* longer in the list.                                                     *)
(***************************************************************************)
EXTENDS MCConcurrentStructures, DataLemmas
-----------------------------------------------------------------------------
(* LockFreeLinkedList and its hazard pointers. *)

ListValue == Removers \X (1..Rounds)
ListPlaces == {"insert", "link", "search", "visit", "advance", "found", "remove", "next", "protect",
               "unlink", "reclaim", "return"}

\* Nothing is ever freed: whoever would free a node has a hazard pointer to it.
ListTypes ==
    /\ freed = {} /\ list_head \in ListValue \cup {NULL}
    /\ next \in [ListValue -> ListValue \cup {NULL}]
    /\ list_pc \in [Removers -> ListPlaces]
    /\ round \in [Removers -> 1..(Rounds + 1)]
    /\ expectedHead \in [Removers -> ListValue \cup {NULL}]
    /\ pointer \in [Removers -> ListValue \cup {NULL}]
    /\ prev \in [Removers -> ListValue \cup {NULL}]
    /\ list_current \in [Removers -> ListValue \cup {NULL}]
    /\ successor \in [Removers -> ListValue \cup {NULL}]
    /\ deleted \in [Removers -> BOOLEAN]
    /\ inserted \subseteq ListValue /\ removed \subseteq inserted

\* The values inserted are those of the rounds up to now.
Past(t) == list_pc[t] \notin {"insert", "link"}
ListRounds ==
    /\ \A t \in Removers :
          /\ list_pc[t] # "insert" => round[t] <= Rounds
          /\ Past(t) => List!data(t) \in inserted
          /\ list_pc[t] = "link" => next[List!data(t)] = expectedHead[t]
          /\ list_pc[t] \in {"unlink", "reclaim"} => pointer[t] = list_current[t]
          /\ list_pc[t] = "unlink" => list_current[t] = List!data(t)
          /\ list_pc[t] = "advance" => list_current[t] # NULL
    /\ \A t \in Removers, k \in 1..Rounds :
          /\ <<t, k>> \in inserted => k < round[t] \/ (k = round[t] /\ Past(t))
          /\ <<t, k>> \in removed => k < round[t]

\* Later inserted values have higher ranks, and whatever a pointer passes over was removed.
Alive == inserted \ (removed \cup List!InTransit)
Misses(rank, v, b) == b = NULL \/ rank[v] > rank[b]
FromHead(rank, live, b) == /\ b \in inserted \cup {NULL}
                           /\ \A v \in live : ~Misses(rank, v, b)
From(rank, live, a, b) == /\ b \in inserted \cup {NULL}
                          /\ b # NULL => rank[b] < rank[a]
                          /\ \A v \in live : rank[v] < rank[a] => ~Misses(rank, v, b)

ListHolds(rank, live, t) ==
    /\ list_pc[t] \in {"visit", "advance"} =>
          list_current[t] \in inserted /\ rank[list_current[t]] >= rank[List!data(t)]
    /\ list_pc[t] = "advance" => list_current[t] # List!data(t)
    /\ list_pc[t] \in {"next", "protect", "unlink"} =>
          {prev[t], list_current[t]} \subseteq inserted \cup {NULL}
    /\ list_pc[t] \in {"protect", "unlink"} =>
          list_current[t] \in inserted /\ From(rank, live, list_current[t], successor[t])

ListRanked(rank) ==
    /\ \E m \in Nat : \A n \in inserted : rank[n] <= m
    /\ \A a, b \in inserted : rank[a] = rank[b] => a = b
    /\ FromHead(rank, Alive, list_head)
    /\ \A n \in inserted : From(rank, Alive, n, next[n])
    /\ \A t \in Removers : ListHolds(rank, Alive, t)

ListInv == ListTypes /\ ListRounds /\ \E rank \in [ListValue -> Nat] : ListRanked(rank)

\* A thread at work has a value of the round.
LEMMA ListData ==
    ASSUME ListTypes, ListRounds, NEW t \in Removers
    PROVE  /\ list_pc[t] # "insert" => List!data(t) \in ListValue
           /\ List!Runs(t) => List!data(t) \in ListValue
<1> USE SizesAssumption
<1>1. round[t] \in 1..(Rounds + 1)
  BY DEF ListTypes
<1>2. round[t] <= Rounds => round[t] \in 1..Rounds
  BY <1>1
<1> QED BY <1>2 DEF ListRounds, List!data, List!Runs, ListValue

\* Every action keeps the types.
LEMMA ListTypesKept ==
    ASSUME ListTypes, ListRounds, NEW t \in Removers, List!Step(t)
    PROVE  ListTypes'
<1> USE SizesAssumption
<1>1. /\ list_pc[t] # "insert" => List!data(t) \in ListValue
      /\ List!Runs(t) => List!data(t) \in ListValue
  BY ListData
<1>2. CASE List!LoadHead(t)
  BY <1>1, <1>2 DEF List!LoadHead, List!Goto, ListTypes, ListPlaces
<1>3. CASE List!Link(t)
  BY <1>1, <1>3 DEF List!Link, List!Goto, ListTypes, ListPlaces
<1>4. CASE List!LinkFails(t)
  BY <1>1, <1>4 DEF List!LinkFails, List!Goto, ListTypes, ListPlaces
<1>5. CASE List!SearchBegins(t)
  BY <1>1, <1>5 DEF List!SearchBegins, List!Goto, ListTypes, ListPlaces
<1>6. CASE List!Visit(t)
  BY <1>1, <1>6 DEF List!Visit, List!Goto, ListTypes, ListPlaces
<1>7. CASE List!Advance(t)
  <2>1. next[list_current[t]] \in ListValue \cup {NULL}
    BY <1>7 DEF List!Advance, ListTypes, ListRounds
  <2> QED BY <1>1, <1>7, <2>1 DEF List!Advance, List!Goto, ListTypes, ListPlaces
<1>8. CASE List!SearchReturns(t)
  BY <1>1, <1>8 DEF List!SearchReturns, List!Goto, ListTypes, ListPlaces
<1>9. CASE List!RemoveBegins(t)
  BY <1>1, <1>9 DEF List!RemoveBegins, List!Goto, ListTypes, ListPlaces
<1>10. CASE List!LoadNext(t)
  <2>1. next[list_current[t]] \in ListValue \cup {NULL}
    BY <1>10 DEF List!LoadNext, ListTypes
  <2> QED BY <1>1, <1>10, <2>1 DEF List!LoadNext, List!Goto, ListTypes, ListPlaces
<1>11. CASE List!Protect(t)
  BY <1>1, <1>11 DEF List!Protect, List!Protected, List!Goto, ListTypes, ListPlaces
<1>12. CASE List!Unlink(t)
  BY <1>1, <1>12 DEF List!Unlink, List!Rest, List!Goto, ListTypes, ListPlaces
<1>13. CASE List!UnlinkFails(t)
  <2>1. List!Before(t) \in ListValue \cup {NULL}
    BY DEF List!Before, ListTypes
  <2> QED BY <1>1, <1>13, <2>1 DEF List!UnlinkFails, List!Goto, ListTypes, ListPlaces
<1>14. CASE List!Reclaim(t)
  <2>1. list_pc[t] = "reclaim" /\ pointer[t] = list_current[t]
    BY <1>14 DEF List!Reclaim, ListRounds
  <2>2. List!isPointerHazardous(list_current[t])
    BY <2>1 DEF List!isPointerHazardous
  <2> QED BY <1>1, <1>14, <2>2 DEF List!Reclaim, List!Goto, ListTypes, ListPlaces
<1>15. CASE List!RemoveReturns(t)
  <2>1. round[t] + 1 \in 1..(Rounds + 1) /\ List!data(t) \in inserted
    BY <1>15 DEF List!RemoveReturns, ListTypes, ListRounds, Past
  <2> QED BY <1>1, <1>15, <2>1 DEF List!RemoveReturns, List!Goto, ListTypes, ListPlaces
<1> QED BY <1>2, <1>3, <1>4, <1>5, <1>6, <1>7, <1>8, <1>9, <1>10, <1>11, <1>12, <1>13, <1>14,
           <1>15 DEF List!Step

\* Every action keeps what is inserted and removed to the rounds up to now.
LEMMA ListRoundsKept ==
    ASSUME ListTypes, ListRounds, NEW t \in Removers, List!Step(t),
           list_pc[t] = "unlink" => prev[t] \in inserted \cup {NULL}
    PROVE  ListRounds'
<1> USE SizesAssumption
<1> USE DEF List!data, List!Goto, List!Runs, ListRounds, Past, ListTypes, ListValue
<1>2. CASE List!LoadHead(t)
  BY <1>2 DEF List!LoadHead
<1>3. CASE List!Link(t)
  BY <1>3 DEF List!Link
<1>4. CASE List!LinkFails(t)
  BY <1>4 DEF List!LinkFails
<1>5. CASE List!SearchBegins(t)
  BY <1>5 DEF List!SearchBegins
<1>6. CASE List!Visit(t)
  BY <1>6 DEF List!Visit
<1>7. CASE List!Advance(t)
  BY <1>7 DEF List!Advance
<1>8. CASE List!SearchReturns(t)
  BY <1>8 DEF List!SearchReturns
<1>9. CASE List!RemoveBegins(t)
  BY <1>9 DEF List!RemoveBegins
<1>10. CASE List!LoadNext(t)
  BY <1>10 DEF List!LoadNext
<1>11. CASE List!Protect(t)
  BY <1>11 DEF List!Protect, List!Protected
<1>12. CASE List!Unlink(t)
  <2>1. ASSUME NEW u \in Removers, list_pc[u] = "link"
        PROVE  prev[t] # <<u, round[u]>>
    <3>1. <<u, round[u]>> \in ListValue /\ <<u, round[u]>> \notin inserted
      BY <2>1
    <3>2. NULL \notin ListValue
      BY NamesAssumption
    <3> QED BY <1>12, <3>1, <3>2 DEF List!Unlink
  <2> QED BY <1>12, <2>1 DEF List!Unlink
<1>13. CASE List!UnlinkFails(t)
  BY <1>13 DEF List!UnlinkFails
<1>14. CASE List!Reclaim(t)
  BY <1>14 DEF List!Reclaim
<1>15. CASE List!RemoveReturns(t)
  BY <1>15 DEF List!RemoveReturns
<1> QED BY <1>2, <1>3, <1>4, <1>5, <1>6, <1>7, <1>8, <1>9, <1>10, <1>11, <1>12, <1>13, <1>14,
           <1>15 DEF List!Step

\* A value that its thread is about to insert is not in the list.
LEMMA NotYetInserted ==
    ASSUME ListTypes, ListRounds, NEW t \in Removers, ~Past(t)
    PROVE  List!data(t) \notin inserted
<1> SUFFICES ASSUME List!data(t) \in inserted PROVE FALSE
  OBVIOUS
<1>1. round[t] \in 1..Rounds /\ <<t, round[t]>> \in inserted
  BY DEF List!data, ListTypes, ListValue
<1>2. round[t] < round[t]
  BY <1>1 DEF ListRounds
<1> QED BY <1>1, <1>2, SizesAssumption

\* A thread's value is in the list from the end of insert until remove unlinks it.
LEMMA OwnIsAlive ==
    ASSUME ListTypes, ListRounds, NEW t \in Removers, Past(t),
           list_pc[t] \notin {"reclaim", "return"}
    PROVE  List!data(t) \in Alive
<1>1. List!data(t) \in inserted
  BY DEF ListRounds
<1>2. List!data(t) \notin removed
  <2>1. round[t] \in 1..Rounds /\ ~(round[t] < round[t])
    BY SizesAssumption DEF ListRounds, ListTypes, Past
  <2> QED BY <2>1 DEF ListRounds, List!data
<1>3. ASSUME NEW u \in Removers, list_pc[u] \in {"reclaim", "return"}
      PROVE  List!data(t) # List!data(u)
  BY <1>3 DEF List!data
<1>4. List!data(t) \notin List!InTransit
  BY <1>3 DEF List!InTransit
<1> QED BY <1>1, <1>2, <1>4 DEF Alive

\* A thread that unlinks nothing puts no value back.
LEMMA AliveShrinks ==
    ASSUME NEW t \in Removers, inserted' = inserted, removed \subseteq removed',
           \A u \in Removers \ {t} : /\ list_pc'[u] = list_pc[u] /\ round'[u] = round[u]
                                     /\ deleted'[u] = deleted[u],
           list_pc[t] \in {"reclaim", "return"} /\ deleted[t] =>
              \/ List!data(t) \in removed'
              \/ list_pc'[t] \in {"reclaim", "return"} /\ deleted'[t] /\ round'[t] = round[t]
    PROVE  Alive' \subseteq Alive
<1> SUFFICES ASSUME NEW v, v \in Alive' PROVE v \in Alive
  OBVIOUS
<1>1. v \in inserted /\ v \notin removed /\ v \notin removed' /\ v \notin List!InTransit'
  BY DEF Alive
<1>2. ASSUME NEW u \in Removers, list_pc[u] \in {"reclaim", "return"}, deleted[u],
             v = List!data(u)
      PROVE  FALSE
  <2>1. CASE list_pc'[u] \in {"reclaim", "return"} /\ deleted'[u] /\ round'[u] = round[u]
    <3>1. v = List!data(u)'
      BY <1>2, <2>1 DEF List!data
    <3>2. v \in List!InTransit'
      BY <2>1, <3>1 DEF List!InTransit
    <3> QED BY <1>1, <3>2
  <2>2. CASE ~(list_pc'[u] \in {"reclaim", "return"} /\ deleted'[u] /\ round'[u] = round[u])
    <3>1. u = t
      BY <1>2, <2>2
    <3> QED BY <1>1, <1>2, <2>2, <3>1
  <2> QED BY <2>1, <2>2
<1>3. v \notin List!InTransit
  BY <1>2 DEF List!InTransit
<1> QED BY <1>1, <1>3 DEF Alive

\* Fewer values are harder to miss.
LEMMA FromShrinks ==
    ASSUME NEW rank, NEW live, NEW fewer, fewer \subseteq live
    PROVE  /\ \A b : FromHead(rank, live, b) => FromHead(rank, fewer, b)
           /\ \A a, b : From(rank, live, a, b) => From(rank, fewer, a, b)
           /\ \A u : ListHolds(rank, live, u) => ListHolds(rank, fewer, u)
<1>1. \A b : FromHead(rank, live, b) => FromHead(rank, fewer, b)
  BY DEF FromHead
<1>2. \A a, b : From(rank, live, a, b) => From(rank, fewer, a, b)
  BY DEF From
<1>3. \A u : ListHolds(rank, live, u) => ListHolds(rank, fewer, u)
  BY <1>2 DEF ListHolds
<1> QED BY <1>1, <1>2, <1>3

\* What a step of one thread has to keep.
LEMMA RanksKept ==
    ASSUME NEW rank, ListRanked(rank), NEW t \in Removers,
           inserted' = inserted, Alive' \subseteq Alive,
           list_head' = list_head \/ FromHead(rank, Alive', list_head'),
           \A n \in inserted : next'[n] = next[n] \/ From(rank, Alive', n, next'[n]),
           ListHolds(rank, Alive, t)',
           \A u \in Removers \ {t} : /\ list_pc'[u] = list_pc[u] /\ round'[u] = round[u]
                                     /\ list_current'[u] = list_current[u] /\ prev'[u] = prev[u]
                                     /\ successor'[u] = successor[u]
    PROVE  ListRanked(rank)'
<1>1. /\ \A b : FromHead(rank, Alive, b) => FromHead(rank, Alive', b)
      /\ \A a, b : From(rank, Alive, a, b) => From(rank, Alive', a, b)
      /\ \A u : ListHolds(rank, Alive, u) => ListHolds(rank, Alive', u)
  BY FromShrinks
<1>2. /\ \E m \in Nat : \A n \in inserted' : rank[n] <= m
      /\ \A a, b \in inserted' : rank[a] = rank[b] => a = b
  BY DEF ListRanked
<1>3. FromHead(rank, Alive, list_head)'
  <2>1. FromHead(rank, Alive', list_head')
    BY <1>1 DEF ListRanked
  <2> QED BY <2>1 DEF FromHead
<1>4. ASSUME NEW n \in inserted'
      PROVE  From(rank, Alive, n, next[n])'
  <2>1. From(rank, Alive', n, next'[n])
    BY <1>1 DEF ListRanked
  <2> QED BY <2>1 DEF From
<1>5. ASSUME NEW u \in Removers
      PROVE  ListHolds(rank, Alive, u)'
  <2>1. CASE u # t
    <3>1. ListHolds(rank, Alive', u)
      BY <1>1 DEF ListRanked
    <3> QED BY <2>1, <3>1 DEF ListHolds, From, List!data
  <2> QED BY <2>1
<1> QED BY <1>2, <1>3, <1>4, <1>5 DEF ListRanked

\* A step that changes no node of the list.
LEMMA ListAtWork ==
    ASSUME ListTypes, ListRounds, NEW rank \in [ListValue -> Nat], ListRanked(rank),
           NEW t \in Removers,
           \/ List!SearchBegins(t) \/ List!Visit(t) \/ List!Advance(t) \/ List!SearchReturns(t)
           \/ List!RemoveBegins(t) \/ List!LoadNext(t) \/ List!Protect(t) \/ List!UnlinkFails(t)
           \/ List!Reclaim(t) \/ List!RemoveReturns(t) \/ List!LoadHead(t) \/ List!LinkFails(t)
    PROVE  ListRanked(rank)'
<1> USE DEF List!Goto
<1>1. /\ inserted' = inserted /\ list_head' = list_head /\ removed \subseteq removed'
      /\ \A u \in Removers \ {t} : /\ list_pc'[u] = list_pc[u] /\ round'[u] = round[u]
                                   /\ deleted'[u] = deleted[u]
                                   /\ list_current'[u] = list_current[u] /\ prev'[u] = prev[u]
                                   /\ successor'[u] = successor[u]
  BY DEF ListTypes, List!SearchBegins, List!Visit, List!Advance, List!SearchReturns,
     List!RemoveBegins, List!LoadNext, List!Protect, List!UnlinkFails, List!Reclaim,
     List!RemoveReturns, List!LoadHead, List!LinkFails
<1>2. list_pc[t] \in {"reclaim", "return"} /\ deleted[t] =>
              \/ List!data(t) \in removed'
              \/ list_pc'[t] \in {"reclaim", "return"} /\ deleted'[t] /\ round'[t] = round[t]
  BY DEF ListTypes, List!SearchBegins, List!Visit, List!Advance, List!SearchReturns,
     List!RemoveBegins, List!LoadNext, List!Protect, List!UnlinkFails, List!Reclaim,
     List!RemoveReturns, List!LoadHead, List!LinkFails
<1>3. Alive' \subseteq Alive
  BY <1>1, <1>2, AliveShrinks
<1>4. \A n \in inserted : next'[n] = next[n]
  <2>1. CASE List!LoadHead(t) \/ List!LinkFails(t)
    <3>1. List!data(t) \notin inserted
      BY <2>1, NotYetInserted DEF List!LoadHead, List!LinkFails, Past
    <3> QED BY <2>1, <3>1 DEF List!LoadHead, List!LinkFails, ListTypes
  <2> QED BY <2>1 DEF List!SearchBegins, List!Visit, List!Advance, List!SearchReturns,
             List!RemoveBegins, List!LoadNext, List!Protect, List!UnlinkFails, List!Reclaim,
             List!RemoveReturns
<1>5. ListHolds(rank, Alive, t)'
  <2>0. \A b : FromHead(rank, Alive, b) => FromHead(rank, Alive', b)
    BY <1>3, FromShrinks
  <2>01. \A a, b : From(rank, Alive, a, b) => From(rank, Alive', a, b)
    BY <1>3, FromShrinks
  <2>02. FromHead(rank, Alive, list_head) /\ \A n \in inserted : From(rank, Alive, n, next[n])
    BY DEF ListRanked
  <2>03. ListHolds(rank, Alive, t)
    BY DEF ListRanked
  <2>1. CASE List!LoadHead(t) \/ List!LinkFails(t) \/ List!SearchReturns(t) \/ List!Reclaim(t)
             \/ List!RemoveReturns(t)
    <3>1. list_pc'[t] \in {"link", "remove", "return", "insert"}
      BY <2>1 DEF List!LoadHead, List!LinkFails, List!SearchReturns, List!Reclaim,
         List!RemoveReturns, ListTypes
    <3> QED BY <3>1 DEF ListHolds
  <2>2. CASE List!SearchBegins(t)
    <3>1. list_pc'[t] = "visit" /\ list_current'[t] = list_head /\ round' = round
      BY <2>2 DEF List!SearchBegins, ListTypes
    <3>2. List!data(t) \in Alive /\ List!data(t) \in ListValue
      BY <2>2, OwnIsAlive, ListData DEF List!SearchBegins, Past
    <3>3. list_head \in inserted /\ rank[list_head] >= rank[List!data(t)]
      BY <2>02, <3>2 DEF FromHead, Misses, ListTypes
    <3>4. List!data(t)' = List!data(t)
      BY <3>1 DEF List!data
    <3> QED BY <1>1, <3>1, <3>3, <3>4 DEF ListHolds
  <2>3. CASE List!Visit(t)
    <3>1. /\ list_pc[t] = "visit" /\ list_current'[t] = list_current[t] /\ round' = round
          /\ list_pc'[t] \in {"found", "advance"}
          /\ list_pc'[t] = "advance" => list_current[t] # List!data(t)
      BY <2>3 DEF List!Visit, ListTypes
    <3>4. List!data(t)' = List!data(t)
      BY <3>1 DEF List!data
    <3> QED BY <1>1, <2>03, <3>1, <3>4 DEF ListHolds
  <2>4. CASE List!Advance(t)
    <3>1. /\ list_pc[t] = "advance" /\ list_pc'[t] = "visit" /\ round' = round
          /\ list_current'[t] = next[list_current[t]]
      BY <2>4 DEF List!Advance, ListTypes
    <3>2. List!data(t) \in Alive /\ List!data(t) \in ListValue /\ List!data(t) \in inserted
      BY <3>1, OwnIsAlive, ListData DEF Past, Alive
    <3>3. /\ list_current[t] \in inserted /\ rank[list_current[t]] >= rank[List!data(t)]
          /\ list_current[t] # List!data(t)
      BY <2>03, <3>1 DEF ListHolds
    <3>4. rank[List!data(t)] < rank[list_current[t]]
      BY <3>2, <3>3 DEF ListRanked, ListTypes
    <3>5. From(rank, Alive, list_current[t], next[list_current[t]])
      BY <2>02, <3>3
    <3>6. ~Misses(rank, List!data(t), next[list_current[t]])
      BY <3>2, <3>4, <3>5 DEF From
    <3>7. /\ next[list_current[t]] \in inserted
          /\ rank[next[list_current[t]]] >= rank[List!data(t)]
      BY <3>2, <3>5, <3>6 DEF From, Misses, ListTypes
    <3>8. List!data(t)' = List!data(t)
      BY <3>1 DEF List!data
    <3> QED BY <1>1, <3>1, <3>7, <3>8 DEF ListHolds
  <2>5. CASE List!RemoveBegins(t)
    <3>1. list_pc'[t] = "next" /\ list_current'[t] = list_head /\ prev'[t] = NULL
      BY <2>5 DEF List!RemoveBegins, ListTypes
    <3> QED BY <1>1, <2>02, <3>1 DEF ListHolds, FromHead
  <2>6. CASE List!LoadNext(t)
    <3>1. /\ list_pc[t] = "next" /\ list_pc'[t] = "protect" /\ list_current[t] # NULL
          /\ list_current'[t] = list_current[t] /\ prev'[t] = prev[t]
          /\ successor'[t] = next[list_current[t]]
      BY <2>6 DEF List!LoadNext, ListTypes
    <3>2. list_current[t] \in inserted /\ prev[t] \in inserted \cup {NULL}
      BY <2>03, <3>1 DEF ListHolds
    <3>3. From(rank, Alive', list_current[t], next[list_current[t]])
      BY <2>01, <2>02, <3>2
    <3> QED BY <1>1, <3>1, <3>2, <3>3 DEF ListHolds, From
  <2>7. CASE List!Protect(t)
    <3>1. /\ list_pc[t] = "protect" /\ successor'[t] = successor[t]
          /\ \/ /\ list_pc'[t] = "unlink" /\ list_current'[t] = list_current[t]
                /\ prev'[t] = prev[t]
             \/ /\ list_pc'[t] = "next" /\ list_current'[t] = successor[t]
                /\ prev'[t] = list_current[t]
      BY <2>7 DEF List!Protect, ListTypes
    <3>2. /\ list_current[t] \in inserted /\ prev[t] \in inserted \cup {NULL}
          /\ From(rank, Alive, list_current[t], successor[t])
      BY <2>03, <3>1 DEF ListHolds
    <3>3. From(rank, Alive', list_current[t], successor[t])
      BY <2>01, <3>2
    <3> QED BY <1>1, <3>1, <3>2, <3>3 DEF ListHolds, From
  <2>8. CASE List!UnlinkFails(t)
    <3>1. /\ list_pc[t] = "unlink" /\ list_pc'[t] = "next"
          /\ prev'[t] = List!Before(t) /\ list_current'[t] = successor[t]
      BY <2>8 DEF List!UnlinkFails, ListTypes
    <3>2. /\ prev[t] \in inserted \cup {NULL}
          /\ From(rank, Alive, list_current[t], successor[t])
      BY <2>03, <3>1 DEF ListHolds
    <3>3. List!Before(t) \in inserted \cup {NULL}
      BY <2>02, <3>2 DEF List!Before, From, FromHead
    <3> QED BY <1>1, <3>1, <3>2, <3>3 DEF ListHolds, From
  <2> QED BY <2>1, <2>2, <2>3, <2>4, <2>5, <2>6, <2>7, <2>8
<1> QED BY <1>1, <1>3, <1>4, <1>5, RanksKept

\* A new value ranks above all others.
LEMMA ListLinks ==
    ASSUME ListTypes, ListRounds, NEW rank \in [ListValue -> Nat], ListRanked(rank),
           NEW t \in Removers, List!Link(t)
    PROVE  \E above \in [ListValue -> Nat] : ListRanked(above)'
<1> DEFINE d == List!data(t)
<1>1. /\ list_pc[t] = "link" /\ list_head = expectedHead[t] /\ next[d] = list_head
      /\ list_head' = d /\ inserted' = inserted \cup {d} /\ removed' = removed
      /\ next' = next /\ round' = round /\ deleted' = deleted /\ list_current' = list_current
      /\ prev' = prev /\ successor' = successor
      /\ list_pc' = [list_pc EXCEPT ![t] = "search"]
  BY DEF List!Link, List!HeadIsExpected, List!Goto, ListRounds
<1>2. d \in ListValue /\ d \notin inserted
  BY <1>1, ListData, NotYetInserted DEF Past
<1>3. PICK m \in Nat : \A n \in inserted : rank[n] <= m
  BY DEF ListRanked
<1>4. PICK above : above = [rank EXCEPT ![d] = m + 1]
  OBVIOUS
<1>5. /\ above \in [ListValue -> Nat] /\ above[d] = m + 1
      /\ \A n \in inserted : above[n] = rank[n] /\ above[n] \in Nat /\ above[n] <= m
  BY <1>2, <1>3, <1>4 DEF ListTypes
<1>6. PICK e : e = d
  OBVIOUS
<1>7. Alive' \subseteq Alive \cup {e}
  <2>1. ASSUME NEW u \in Removers, list_pc[u] \in {"reclaim", "return"}
        PROVE  list_pc'[u] = list_pc[u] /\ List!data(u)' = List!data(u)
    BY <1>1, <2>1 DEF List!data, ListTypes
  <2>2. List!InTransit \subseteq List!InTransit'
    BY <1>1, <2>1 DEF List!InTransit
  <2> QED BY <1>1, <1>6, <2>2 DEF Alive
<1>8. Alive \subseteq inserted
  BY DEF Alive
<1> HIDE DEF d
<1>9. FromHead(above, Alive, list_head)'
  <2>1. ASSUME NEW v \in Alive' PROVE ~(e = NULL \/ above[v] > above[e])
    BY <1>2, <1>5, <1>6, <1>7, <1>8, NamesAssumption DEF ListValue
  <2> QED BY <1>1, <1>6, <2>1 DEF FromHead, Misses
<1>10. ASSUME NEW n \in inserted'
       PROVE  From(above, Alive, n, next[n])'
  <2>1. CASE n = e
    <3>1. FromHead(rank, Alive, list_head)
      BY DEF ListRanked
    <3>2. list_head \in inserted \cup {NULL} /\ \A v \in Alive : ~Misses(rank, v, list_head)
      BY <3>1 DEF FromHead
    <3>3. list_head # NULL => above[list_head] < above[e]
      BY <1>5, <1>6, <3>2
    <3>4. ASSUME NEW v \in Alive', above[v] < above[e]
          PROVE  ~Misses(above, v, list_head)
      <4>1. v \in Alive /\ v \in inserted
        BY <1>5, <1>6, <1>7, <1>8, <3>4
      <4>2. list_head # NULL /\ ~(rank[v] > rank[list_head]) /\ list_head \in inserted
        BY <3>2, <4>1 DEF Misses
      <4> QED BY <1>5, <4>1, <4>2 DEF Misses
    <3>5. next'[n] = list_head
      BY <1>1, <1>6, <2>1
    <3> QED BY <1>1, <2>1, <3>2, <3>3, <3>4, <3>5 DEF From, Misses
  <2>2. CASE n # e
    <3>0. n \in inserted
      BY <1>1, <1>6, <2>2
    <3>1. From(rank, Alive, n, next[n])
      BY <3>0 DEF ListRanked
    <3>2. /\ next[n] \in inserted \cup {NULL} /\ (next[n] # NULL => rank[next[n]] < rank[n])
          /\ \A v \in Alive : rank[v] < rank[n] => ~Misses(rank, v, next[n])
      BY <3>1 DEF From
    <3>3. next[n] # NULL => above[next[n]] < above[n]
      BY <1>5, <3>0, <3>2
    <3>4. ASSUME NEW v \in Alive', above[v] < above[n]
          PROVE  ~Misses(above, v, next[n])
      <4>1. v \in Alive /\ v \in inserted
        BY <1>5, <1>6, <1>7, <1>8, <3>0, <3>4
      <4>2. rank[v] < rank[n]
        BY <1>5, <3>0, <3>4, <4>1
      <4>3. next[n] # NULL /\ ~(rank[v] > rank[next[n]]) /\ next[n] \in inserted
        BY <3>2, <4>1, <4>2 DEF Misses
      <4> QED BY <1>5, <4>1, <4>3 DEF Misses
    <3> QED BY <1>1, <3>2, <3>3, <3>4 DEF From, Misses
  <2> QED BY <2>1, <2>2
<1>11. ASSUME NEW u \in Removers
       PROVE  ListHolds(above, Alive, u)'
  <2>1. CASE u = t
    <3>1. list_pc'[u] = "search"
      BY <1>1, <2>1 DEF ListTypes
    <3> QED BY <3>1 DEF ListHolds
  <2>2. CASE u # t
    <3>0. list_pc'[u] = list_pc[u] /\ List!data(u)' = List!data(u)
      BY <1>1, <2>2 DEF List!data
    <3>1. ListHolds(rank, Alive, u)
      BY DEF ListRanked
    <3>2. ASSUME list_pc[u] \in {"visit", "advance"}
          PROVE  list_current[u] \in inserted /\ above[list_current[u]] >= above[List!data(u)]
      <4>1. List!data(u) \in inserted
        BY <3>2 DEF ListRounds, Past
      <4> QED BY <1>5, <3>1, <3>2, <4>1 DEF ListHolds
    <3>3. ASSUME list_pc[u] \in {"protect", "unlink"}
          PROVE  /\ list_current[u] \in inserted
                 /\ successor[u] \in inserted \cup {NULL}
                 /\ successor[u] # NULL => above[successor[u]] < above[list_current[u]]
                 /\ \A v \in Alive' : above[v] < above[list_current[u]] =>
                                         ~Misses(above, v, successor[u])
      <4>1. list_current[u] \in inserted /\ From(rank, Alive, list_current[u], successor[u])
        BY <3>1, <3>3 DEF ListHolds
      <4>2. /\ successor[u] \in inserted \cup {NULL}
            /\ successor[u] # NULL => rank[successor[u]] < rank[list_current[u]]
            /\ \A v \in Alive : rank[v] < rank[list_current[u]] =>
                                   ~Misses(rank, v, successor[u])
        BY <4>1 DEF From
      <4>3. successor[u] # NULL => above[successor[u]] < above[list_current[u]]
        BY <1>5, <4>1, <4>2
      <4>4. ASSUME NEW v \in Alive', above[v] < above[list_current[u]]
            PROVE  ~Misses(above, v, successor[u])
        <5>1. v \in Alive /\ v \in inserted
          BY <1>5, <1>6, <1>7, <1>8, <4>1, <4>4
        <5>2. rank[v] < rank[list_current[u]]
          BY <1>5, <4>1, <4>4, <5>1
        <5>3. successor[u] # NULL /\ ~(rank[v] > rank[successor[u]]) /\ successor[u] \in inserted
          BY <4>2, <5>1, <5>2 DEF Misses
        <5> QED BY <1>5, <5>1, <5>3 DEF Misses
      <4> QED BY <4>1, <4>2, <4>3, <4>4
    <3>4. ASSUME list_pc[u] \in {"next", "protect", "unlink"}
          PROVE  {prev[u], list_current[u]} \subseteq inserted \cup {NULL}
      BY <3>1, <3>4 DEF ListHolds
    <3>5. list_pc[u] = "advance" => list_current[u] # List!data(u)
      BY <3>1 DEF ListHolds
    <3> QED BY <1>1, <3>0, <3>2, <3>3, <3>4, <3>5 DEF ListHolds, From, Misses
  <2> QED BY <2>1, <2>2
<1>12. \E k \in Nat : \A n \in inserted' : above[n] <= k
  <2>1. \A n \in inserted' : above[n] <= m + 1
    BY <1>1, <1>5
  <2> QED BY <2>1
<1>13. ASSUME NEW a \in inserted', NEW b \in inserted', above[a] = above[b]
       PROVE  a = b
  BY <1>1, <1>5, <1>13 DEF ListRanked
<1> QED BY <1>5, <1>9, <1>10, <1>11, <1>12, <1>13 DEF ListRanked

\* The node unlinked is the only one that is passed over.
LEMMA ListUnlinks ==
    ASSUME ListTypes, ListRounds, NEW rank \in [ListValue -> Nat], ListRanked(rank),
           NEW t \in Removers, List!Unlink(t)
    PROVE  ListRanked(rank)'
<1> PICK d : d = List!data(t)
  OBVIOUS
<1>1. /\ list_pc[t] = "unlink" /\ list_current[t] = d /\ List!Before(t) = d
      /\ IF prev[t] = NULL THEN list_head' = successor[t] /\ next' = next
                           ELSE next' = [next EXCEPT ![prev[t]] = successor[t]] /\ list_head' = list_head
      /\ inserted' = inserted /\ removed' = removed
      /\ round' = round /\ deleted' = [deleted EXCEPT ![t] = TRUE] /\ list_current' = list_current
      /\ prev' = prev /\ successor' = successor
      /\ list_pc' = [list_pc EXCEPT ![t] = "reclaim"]
  BY DEF List!Unlink, List!Rest, List!Goto, ListRounds
<1>2. d \in inserted /\ d \in ListValue
  BY <1>1, ListData DEF ListRounds, Past
<1>3. /\ \A u \in Removers \ {t} : /\ list_pc'[u] = list_pc[u] /\ round'[u] = round[u]
                                   /\ deleted'[u] = deleted[u]
                                   /\ list_current'[u] = list_current[u] /\ prev'[u] = prev[u]
                                   /\ successor'[u] = successor[u]
      /\ list_pc'[t] = "reclaim" /\ deleted'[t]
  BY <1>1 DEF ListTypes
<1>4. Alive' \subseteq Alive
  BY <1>1, <1>3, AliveShrinks
<1>5. d \notin Alive'
  <2>1. d = List!data(t)'
    BY <1>1 DEF List!data
  <2>2. d \in List!InTransit'
    BY <1>3, <2>1 DEF List!InTransit
  <2> QED BY <2>2 DEF Alive
<1>6. /\ prev[t] \in inserted \cup {NULL}
      /\ From(rank, Alive, d, successor[t])
  BY <1>1 DEF ListRanked, ListHolds
<1>7. /\ successor[t] \in inserted \cup {NULL}
      /\ successor[t] # NULL => rank[successor[t]] < rank[d]
      /\ \A v \in Alive : rank[v] < rank[d] => ~Misses(rank, v, successor[t])
  BY <1>6 DEF From
<1>8. ASSUME NEW v \in Alive', ~Misses(rank, v, d)
      PROVE  ~Misses(rank, v, successor[t])
  <2>1. v \in Alive /\ v # d /\ v \in inserted
    BY <1>4, <1>5 DEF Alive
  <2>2. ~(rank[v] > rank[d]) /\ rank[v] # rank[d]
    BY <1>2, <1>8, <2>1 DEF Misses, ListRanked
  <2>3. v \in ListValue
    BY <2>1 DEF ListTypes
  <2>4. rank[v] \in Nat /\ rank[d] \in Nat
    BY <1>2, <2>3
  <2>5. rank[v] < rank[d]
    BY <2>2, <2>4
  <2> QED BY <1>7, <2>1, <2>5
<1>9. list_head' = list_head \/ FromHead(rank, Alive', list_head')
  <2>1. CASE prev[t] = NULL
    <3>1. list_head = d /\ list_head' = successor[t]
      BY <1>1, <2>1 DEF List!Before
    <3>2. \A v \in Alive : ~Misses(rank, v, d)
      BY <3>1 DEF ListRanked, FromHead
    <3> QED BY <1>4, <1>7, <1>8, <3>1, <3>2 DEF FromHead
  <2> QED BY <1>1, <2>1
<1>10. ASSUME NEW n \in inserted
       PROVE  next'[n] = next[n] \/ From(rank, Alive', n, next'[n])
  <2>1. CASE prev[t] # NULL /\ n = prev[t]
    <3>1. next[n] = d /\ next'[n] = successor[t]
      BY <1>1, <1>6, <2>1 DEF List!Before, ListTypes
    <3>2. From(rank, Alive, n, d)
      BY <3>1 DEF ListRanked
    <3>3. d # NULL /\ n \in ListValue
      BY <1>2, NamesAssumption DEF ListValue, ListTypes
    <3>4. rank[d] < rank[n] /\ \A v \in Alive : rank[v] < rank[n] => ~Misses(rank, v, d)
      BY <3>2, <3>3 DEF From
    <3>5. successor[t] # NULL => rank[successor[t]] < rank[n]
      BY <1>2, <1>7, <3>3, <3>4 DEF ListTypes
    <3> QED BY <1>4, <1>7, <1>8, <3>1, <3>4, <3>5 DEF From
  <2> QED BY <1>1, <2>1 DEF ListTypes
<1>11. ListHolds(rank, Alive, t)'
  BY <1>3 DEF ListHolds
<1> QED BY <1>1, <1>3, <1>4, <1>9, <1>10, <1>11, RanksKept

\* Nothing is inserted at first.
LEMMA ListInitially ==
    ASSUME List!Init
    PROVE  ListInv
<1> USE SizesAssumption
<1>1. ListTypes
  BY DEF List!Init, ListTypes, ListPlaces, List!Node, List!Value, ListValue
<1>2. ListRounds
  BY DEF List!Init, ListRounds, Past
<1>3. PICK rank : rank = [v \in ListValue |-> 0]
  OBVIOUS
<1>4. rank \in [ListValue -> Nat]
  BY <1>3
<1>5. Alive = {}
  BY DEF List!Init, Alive
<1>6. ListRanked(rank)
  BY <1>5 DEF List!Init, ListRanked, FromHead, ListHolds
<1> QED BY <1>1, <1>2, <1>4, <1>6 DEF ListInv

\* The invariant is about no variable of another structure.
LEMMA ListUntouched ==
    ASSUME ListInv, UNCHANGED list_vars
    PROVE  ListInv'
<1> USE DEF list_vars
<1>1. ListTypes' /\ ListRounds'
  BY DEF ListInv, ListTypes, ListRounds, Past, List!data
<1>2. Alive' = Alive
  BY DEF Alive, List!InTransit, List!data
<1>3. PICK rank \in [ListValue -> Nat] : ListRanked(rank)
  BY DEF ListInv
<1>4. ListRanked(rank)'
  BY <1>2, <1>3 DEF ListRanked, FromHead, From, ListHolds, List!data
<1> QED BY <1>1, <1>3, <1>4 DEF ListInv

\* Every step of the list keeps its invariant.
LEMMA ListStep ==
    ASSUME ListInv, [List!Next]_list_vars
    PROVE  ListInv'
<1>1. ListTypes /\ ListRounds
  BY DEF ListInv
<1>2. PICK rank \in [ListValue -> Nat] : ListRanked(rank)
  BY DEF ListInv
<1>3. ASSUME NEW t \in Removers, List!Step(t)
      PROVE  ListInv'
  <2>1. list_pc[t] = "unlink" => prev[t] \in inserted \cup {NULL}
    BY <1>2 DEF ListRanked, ListHolds
  <2>2. ListTypes'
    BY <1>1, <1>3, ListTypesKept
  <2>3. ListRounds'
    BY <1>1, <1>3, <2>1, ListRoundsKept
  <2>4. \E r \in [ListValue -> Nat] : ListRanked(r)'
    <3>1. CASE List!Link(t)
      BY <1>1, <1>2, <3>1, ListLinks
    <3>2. CASE List!Unlink(t)
      BY <1>1, <1>2, <3>2, ListUnlinks
    <3>3. CASE \/ List!SearchBegins(t) \/ List!Visit(t) \/ List!Advance(t) \/ List!SearchReturns(t)
               \/ List!RemoveBegins(t) \/ List!LoadNext(t) \/ List!Protect(t) \/ List!UnlinkFails(t)
               \/ List!Reclaim(t) \/ List!RemoveReturns(t) \/ List!LoadHead(t) \/ List!LinkFails(t)
      <4>1. ListRanked(rank)'
        BY <1>1, <1>2, <3>3, ListAtWork
      <4> QED BY <1>2, <4>1
    <3> QED BY <1>3, <3>1, <3>2, <3>3 DEF List!Step
  <2>5. (ListTypes /\ ListRounds)'
    BY <2>2, <2>3
  <2> QED BY <2>4, <2>5 DEF ListInv
<1>4. CASE UNCHANGED list_vars
  BY <1>4, ListUntouched
<1>5. UNCHANGED List!vars => UNCHANGED list_vars
  BY DEF List!vars, list_vars
<1> QED BY <1>3, <1>4, <1>5 DEF List!Next

\* No value is passed over, nothing is freed, and a thread finds what it inserted.
LEMMA ListSound ==
    ASSUME ListInv
    PROVE  List!NothingFreed /\ List!NothingLost /\ List!FindsItsOwn /\ List!TypeOK
<1>1. ListTypes /\ ListRounds
  BY DEF ListInv
<1>2. PICK rank \in [ListValue -> Nat] : ListRanked(rank)
  BY DEF ListInv
<1>3. List!NothingFreed
  BY <1>1 DEF ListTypes, List!NothingFreed
<1>4. List!TypeOK
  BY <1>1 DEF ListTypes, List!TypeOK, List!Node, List!Value, ListValue
<1>5. List!FindsItsOwn
  <2>1. ASSUME NEW t \in Removers, list_pc[t] = "visit", list_current[t] = NULL
        PROVE  FALSE
    <3>1. NULL \in inserted
      BY <1>2, <2>1 DEF ListRanked, ListHolds
    <3> QED BY <1>1, <3>1, NamesAssumption DEF ListTypes, ListValue
  <2> QED BY <2>1 DEF List!FindsItsOwn
<1>6. ASSUME NEW v \in Alive
      PROVE  v \in List!Nodes
  <2> PICK g : g = [n \in DOMAIN next |-> IF next[n] = NULL THEN <<>> ELSE <<next[n]>>]
    OBVIOUS
  <2>1. FromHead(rank, Alive, list_head) /\ v \in inserted /\ v \in ListValue
    BY <1>1, <1>2 DEF ListRanked, Alive, ListTypes
  <2>2. list_head \in inserted /\ rank[list_head] >= rank[v] /\ list_head # NULL
    <3>1. rank[v] \in Nat /\ \A n \in inserted : rank[n] \in Nat
      BY <1>1, <1>2, <2>1 DEF ListTypes
    <3> QED BY <2>1, <3>1 DEF FromHead, Misses
  <2>3. ASSUME NEW S \in SUBSET DOMAIN g, list_head \in S, List!Closed(g, S)
        PROVE  v \in S
    <3> SUFFICES ASSUME v \notin S PROVE FALSE
      OBVIOUS
    <3> PICK P : P = {rank[n] : n \in {k \in S : k \in inserted /\ rank[k] >= rank[v]}}
      OBVIOUS
    <3>1. P \subseteq Nat /\ rank[list_head] \in P
      BY <1>1, <1>2, <2>2, <2>3 DEF ListTypes
    <3>2. PICK r \in P : \A q \in P : r <= q
      BY <3>1, LeastNatural
    <3>3. PICK n \in S : n \in inserted /\ rank[n] >= rank[v] /\ r = rank[n]
      BY <3>2
    <3>4. n # v /\ n \in ListValue /\ rank[n] \in Nat /\ rank[v] \in Nat
      BY <1>1, <1>2, <2>1, <3>3 DEF ListTypes
    <3>5. rank[v] # rank[n]
      BY <1>2, <2>1, <3>3, <3>4 DEF ListRanked
    <3>6. rank[v] < rank[n]
      BY <3>3, <3>4, <3>5
    <3>7. From(rank, Alive, n, next[n])
      BY <1>2, <3>3 DEF ListRanked
    <3>8. /\ next[n] \in inserted /\ next[n] # NULL
          /\ rank[next[n]] < rank[n] /\ ~(rank[v] > rank[next[n]])
      BY <3>6, <3>7 DEF From, Misses
    <3>9. next[n] \in S
      <4>1. n \in DOMAIN next /\ g[n] = <<next[n]>>
        BY <1>1, <3>4, <3>8 DEF ListTypes
      <4>2. 1 \in DOMAIN g[n] /\ g[n][1] = next[n]
        BY <4>1
      <4>3. \A k \in DOMAIN g[n] : g[n][k] \in S
        BY <2>3, <3>3 DEF List!Closed
      <4> QED BY <4>2, <4>3
    <3>10. rank[next[n]] \in Nat
      BY <1>1, <1>2, <3>8 DEF ListTypes
    <3>11. rank[next[n]] \in P
      BY <3>4, <3>8, <3>9, <3>10
    <3>12. r <= rank[next[n]]
      BY <3>2, <3>11
    <3>13. rank[n] <= rank[next[n]] /\ rank[next[n]] < rank[n]
      BY <3>3, <3>8, <3>12
    <3> QED BY <3>4, <3>10, <3>13
  <2>4. v \in DOMAIN g
    BY <1>1, <2>1 DEF ListTypes
  <2>5. v \in List!Reachable(g, list_head)
    BY <2>3, <2>4 DEF List!Reachable
  <2> QED BY <2>2, <2>5 DEF List!Nodes, List!Visited
<1>7. List!NothingLost
  BY <1>6 DEF List!NothingLost, Alive
<1> QED BY <1>3, <1>4, <1>5, <1>7
-----------------------------------------------------------------------------
(* The lists with one mutex. *)

MThread == ListInserters \cup ListRemovers
MOperations == {"insert", "search", "remove"}

\* Whoever removes has inserted the value two calls before, or nobody both inserts and
\* looks for anything.
Paired(p) == \A t \in MThread : \A i \in 1..Len(p[t]) :
                p[t][i][1] = "remove" => i > 2 /\ p[t][i - 2] = <<"insert", p[t][i][2]>>
Divided(p) == \A t \in MThread : \/ \A i \in 1..Len(p[t]) : p[t][i][1] = "insert"
                                 \/ \A i \in 1..Len(p[t]) : p[t][i][1] # "insert"
Legal(p) == /\ p \in [MThread -> Seq(MOperations \X Mutex!Value)]
            /\ \A t \in MThread : Len(p[t]) <= 4 * Operations
            /\ Paired(p) \/ Divided(p)

\* A call that inserts always answers true.
MutexCalls == /\ \A t \in MThread : m_at[t] <= Len(m_program[t])
              /\ \A c \in missed : /\ c \in Mutex!Returned
                                   /\ m_program[c[1]][c[2]][1] # "insert"

MutexInv == /\ Legal(m_program) /\ Mutex!TypeOK /\ MutexCalls
            /\ Mutex!Copies /\ Mutex!InOrder /\ Mutex!FindsItsOwn

\* The cardinality of the instance is that of the library.
LEMMA MutexCardinality == \A S : Mutex!Cardinality(S) = Cardinality(S)
BY DEF Mutex!Cardinality, Cardinality

\* The values are those of every thread and those that all of them share.
LEMMA MutexValues ==
    /\ Operations \in Nat /\ IsFiniteSet(MThread) /\ Cardinality(MThread) \in Nat
    /\ Mutex!Thread = MThread
    /\ Mutex!Value = 1..(Operations + Cardinality(MThread) * Operations)
<1>1. Operations \in Nat /\ IsFiniteSet(MThread)
  BY SizesAssumption DEF MThread
<1>2. Mutex!Thread = MThread
  BY DEF Mutex!Thread, MThread
<1>3. Mutex!Cardinality(Mutex!Thread) = Cardinality(MThread)
  BY <1>2, MutexCardinality
<1>4. Cardinality(MThread) \in Nat
  BY <1>1, FS_CardinalityType
<1> QED BY <1>1, <1>2, <1>3, <1>4 DEF Mutex!Value

\* A row of calls with one value after the other removes what it has inserted.
LEMMA RowPaired ==
    ASSUME NEW ops, NEW n \in {3, 4}, Len(ops) = n,
           ops[1] = "insert", ops[2] = "search", ops[3] = "remove", n = 4 => ops[4] = "search",
           NEW first \in Nat \ {0}, \A k \in 0..(Operations - 1) : first + k \in Mutex!Value
    PROVE  LET row == Mutex!EachWith(ops, first)
           IN  /\ row \in Seq(MOperations \X Mutex!Value)
               /\ Len(row) <= 4 * Operations
               /\ \A i \in 1..Len(row) :
                     row[i][1] = "remove" => i > 2 /\ row[i - 2] = <<"insert", row[i][2]>>
<1>o. Operations \in Nat
  BY MutexValues
<1>1. PICK L \in Nat : L = n * Operations
  BY <1>o
<1>2. PICK row : row = Mutex!EachWith(ops, first)
  OBVIOUS
<1>3. row = [k \in 1..L |-> <<ops[((k - 1) % n) + 1], first + ((k - 1) \div n)>>]
  BY <1>1, <1>2 DEF Mutex!EachWith
<1>4. L <= 4 * Operations
  BY <1>1, <1>o
<1>5. ASSUME NEW i \in 1..L
      PROVE  /\ (i - 1) % n \in 0..(n - 1) /\ (i - 1) \div n \in 0..(Operations - 1)
             /\ (i - 1) % n = 2 => /\ i > 2 /\ (i - 3) % n = 0
                                   /\ (i - 3) \div n = (i - 1) \div n
  <2>1. CASE n = 3
    BY <1>1, <1>5, <1>o, <2>1
  <2>2. CASE n = 4
    BY <1>1, <1>5, <1>o, <2>2
  <2> QED BY <2>1, <2>2
<1>6. ASSUME NEW i \in 1..L
      PROVE  row[i] \in MOperations \X Mutex!Value
  <2>1. PICK m \in 0..(n - 1) : m = (i - 1) % n
    BY <1>5
  <2>2. PICK q \in 0..(Operations - 1) : q = (i - 1) \div n
    BY <1>5
  <2>3. row[i] = <<ops[m + 1], first + q>>
    BY <1>3, <2>1, <2>2
  <2>4. m + 1 \in {1, 2, 3, 4} /\ (m + 1 = 4 => n = 4)
    BY <2>1
  <2>5. ops[m + 1] \in MOperations
    BY <2>4 DEF MOperations
  <2>6. first + q \in Mutex!Value
    BY <2>2
  <2> QED BY <2>3, <2>5, <2>6
<1>7. row \in Seq(MOperations \X Mutex!Value) /\ Len(row) = L
  <2>1. row \in [1..L -> MOperations \X Mutex!Value]
    BY <1>3, <1>6
  <2> QED BY <1>1, <2>1
<1>8. ASSUME NEW i \in 1..L, row[i][1] = "remove"
      PROVE  i > 2 /\ row[i - 2] = <<"insert", row[i][2]>>
  <2>1. PICK m \in 0..(n - 1) : m = (i - 1) % n
    BY <1>5
  <2>2. row[i] = <<ops[m + 1], first + ((i - 1) \div n)>>
    BY <1>3, <2>1
  <2>3. ops[m + 1] = "remove" /\ row[i][2] = first + ((i - 1) \div n)
    BY <1>8, <2>2
  <2>4. m \in {0, 1, 2, 3} /\ (m = 3 => n = 4)
    BY <2>1
  <2>5. m = 2
    BY <2>3, <2>4
  <2>6. i > 2 /\ (i - 3) % n = 0 /\ (i - 3) \div n = (i - 1) \div n
    BY <1>5, <2>1, <2>5
  <2>7. PICK h : h = i - 2
    OBVIOUS
  <2>8. h \in 1..L /\ h - 1 = i - 3
    BY <2>6, <2>7
  <2>9. row[h] = <<ops[((h - 1) % n) + 1], first + ((h - 1) \div n)>>
    BY <1>3, <2>8
  <2>10. ((h - 1) % n) + 1 = 1 /\ (h - 1) \div n = (i - 1) \div n
    BY <2>6, <2>8
  <2> QED BY <2>3, <2>6, <2>7, <2>9, <2>10
<1> QED BY <1>2, <1>4, <1>7, <1>8

\* Threads can be numbered.
LEMMA Numbering ==
    ASSUME NEW S, IsFiniteSet(S)
    PROVE  \E b \in [S -> 1..Cardinality(S)] : \A t, u \in S : b[t] = b[u] => t = u
<1>1. PICK f : f \in Bijection(1..Cardinality(S), S)
  BY FS_CardinalityType DEF ExistsBijection
<1>2. /\ f \in [1..Cardinality(S) -> S]
      /\ \A t \in S : \E k \in 1..Cardinality(S) : f[k] = t
  BY <1>1 DEF Bijection, Surjection
<1>3. PICK b : b = [t \in S |-> CHOOSE k \in 1..Cardinality(S) : f[k] = t]
  OBVIOUS
<1>4. ASSUME NEW t \in S PROVE b[t] \in 1..Cardinality(S) /\ f[b[t]] = t
  BY <1>2, <1>3
<1>5. b \in [S -> 1..Cardinality(S)]
  BY <1>3, <1>4
<1>6. ASSUME NEW t \in S, NEW u \in S, b[t] = b[u] PROVE t = u
  BY <1>4, <1>6
<1> QED BY <1>5, <1>6

\* Every workload is legal.
LEMMA MutexPrograms ==
    ASSUME NEW p \in Mutex!Workloads
    PROVE  Legal(p)
<1>0. /\ Operations \in Nat /\ IsFiniteSet(MThread) /\ Cardinality(MThread) \in Nat
      /\ Mutex!Thread = MThread
      /\ Mutex!Value = 1..(Operations + Cardinality(MThread) * Operations)
  BY MutexValues
<1> PICK N \in Nat : N = Cardinality(MThread)
  BY <1>0
<1>v. Mutex!Value = 1..(Operations + N * Operations) /\ N * Operations \in Nat
  BY <1>0
<1>1. ASSUME NEW first \in [MThread -> Nat \ {0}], NEW ops, NEW n \in {3, 4}, Len(ops) = n,
             ops[1] = "insert", ops[2] = "search", ops[3] = "remove", n = 4 => ops[4] = "search",
             \A t \in MThread : \A k \in 0..(Operations - 1) : first[t] + k \in Mutex!Value,
             p = [t \in MThread |-> Mutex!EachWith(ops, first[t])]
      PROVE  Legal(p)
  <2>1. ASSUME NEW t \in MThread
        PROVE  /\ p[t] \in Seq(MOperations \X Mutex!Value)
               /\ Len(p[t]) <= 4 * Operations
               /\ \A i \in 1..Len(p[t]) :
                     p[t][i][1] = "remove" => i > 2 /\ p[t][i - 2] = <<"insert", p[t][i][2]>>
    <3>1. p[t] = Mutex!EachWith(ops, first[t]) /\ first[t] \in Nat \ {0}
      BY <1>1
    <3>2. LET row == Mutex!EachWith(ops, first[t])
          IN  /\ row \in Seq(MOperations \X Mutex!Value)
              /\ Len(row) <= 4 * Operations
              /\ \A i \in 1..Len(row) :
                     row[i][1] = "remove" => i > 2 /\ row[i - 2] = <<"insert", row[i][2]>>
      BY <1>1, <3>1, RowPaired
    <3> QED BY <3>1, <3>2
  <2>2. p \in [MThread -> Seq(MOperations \X Mutex!Value)]
    BY <1>1, <2>1
  <2>3. Paired(p)
    BY <2>1 DEF Paired
  <2> QED BY <2>1, <2>2, <2>3 DEF Legal
<1>2. CASE p = Mutex!Shared
  <2>1. PICK first : first = [t \in MThread |-> 1]
    OBVIOUS
  <2>2. p = [t \in MThread |-> Mutex!EachWith(<<"insert", "search", "remove">>, first[t])]
    BY <1>0, <1>2, <2>1 DEF Mutex!Shared
  <2>3. ASSUME NEW t \in MThread, NEW k \in 0..(Operations - 1)
        PROVE  first[t] + k \in Mutex!Value
    BY <1>0, <1>v, <2>1
  <2>4. PICK ops : ops = <<"insert", "search", "remove">>
    OBVIOUS
  <2>5. Len(ops) = 3 /\ ops[1] = "insert" /\ ops[2] = "search" /\ ops[3] = "remove"
    BY <2>4
  <2>6. first \in [MThread -> Nat \ {0}] /\ 3 \in {3, 4} /\ ~(3 = 4)
    BY <2>1
  <2>7. p = [t \in MThread |-> Mutex!EachWith(ops, first[t])]
    BY <2>2, <2>4
  <2> QED BY <1>1, <2>3, <2>5, <2>6, <2>7
<1>3. ASSUME NEW b \in [MThread -> 1..N], p = Mutex!Own(b)
      PROVE  Legal(p)
  <2>1. PICK first : first = [t \in MThread |-> b[t] * Operations + 1]
    OBVIOUS
  <2>2. p = [t \in MThread |-> Mutex!EachWith(<<"insert", "search", "remove", "search">>, first[t])]
    BY <1>0, <1>3, <2>1 DEF Mutex!Own
  <2>3. ASSUME NEW t \in MThread
        PROVE  /\ first[t] \in Nat \ {0}
               /\ \A k \in 0..(Operations - 1) : first[t] + k \in Mutex!Value
    <3>1. PICK x \in Nat : x = b[t] * Operations
      BY <1>0
    <3>2. x <= N * Operations
      <4>1. PICK y \in Nat : y = N - b[t]
        BY <1>3
      <4>2. N = b[t] + y /\ y * Operations \in Nat /\ b[t] \in Nat
        BY <1>0, <4>1
      <4>3. (b[t] + y) * Operations = b[t] * Operations + y * Operations
        BY <1>0, <4>1, <4>2
      <4> QED BY <3>1, <4>2, <4>3
    <3>3. first[t] = x + 1
      BY <2>1, <3>1
    <3> QED BY SMTT(20), <1>0, <1>v, <3>1, <3>2, <3>3
  <2>4. PICK ops : ops = <<"insert", "search", "remove", "search">>
    OBVIOUS
  <2>5. Len(ops) = 4 /\ ops[1] = "insert" /\ ops[2] = "search" /\ ops[3] = "remove" /\ ops[4] = "search"
    BY <2>4
  <2>6. first \in [MThread -> Nat \ {0}] /\ 4 \in {3, 4}
    BY <2>1, <2>3
  <2>7. p = [t \in MThread |-> Mutex!EachWith(ops, first[t])]
    BY <2>2, <2>4
  <2> QED BY <1>1, <2>3, <2>5, <2>6, <2>7
<1>4. ASSUME NEW g, p = Mutex!Halves(g),
             \A t \in ListRemovers : \A j \in 1..Operations : g[t][j] \in Mutex!Value
      PROVE  Legal(p)
  <2>1. p = [t \in MThread |-> [j \in 1..Operations |->
                IF t \in ListInserters THEN <<"insert", j>> ELSE <<"remove", g[t][j]>>]]
    BY <1>0, <1>4 DEF Mutex!Halves
  <2>2. ASSUME NEW t \in MThread, NEW j \in 1..Operations
        PROVE  p[t][j] \in MOperations \X Mutex!Value
    <3>1. j \in Mutex!Value
      BY <1>0, <1>v
    <3>2. CASE t \in ListInserters
      BY <2>1, <3>1, <3>2 DEF MOperations
    <3>3. CASE t \notin ListInserters
      <4>1. g[t][j] \in Mutex!Value
        BY <1>4, <3>3 DEF MThread
      <4> QED BY <2>1, <3>3, <4>1 DEF MOperations
    <3> QED BY <3>2, <3>3
  <2>3. ASSUME NEW t \in MThread
        PROVE  p[t] \in Seq(MOperations \X Mutex!Value) /\ Len(p[t]) = Operations
    <3>1. p[t] \in [1..Operations -> MOperations \X Mutex!Value]
      BY <2>1, <2>2
    <3> QED BY <1>0, <3>1
  <2>4. p \in [MThread -> Seq(MOperations \X Mutex!Value)]
    BY <2>1, <2>3
  <2>5. Divided(p)
    BY <2>1, <2>3 DEF Divided
  <2>6. \A t \in MThread : Len(p[t]) <= 4 * Operations
    BY <1>0, <2>3
  <2> QED BY <2>4, <2>5, <2>6 DEF Legal
<1>5. \/ p = Mutex!Shared
      \/ p = Mutex!Own(CHOOSE b \in [Mutex!Thread -> 1..Mutex!Cardinality(Mutex!Thread)] :
                           \A t, u \in Mutex!Thread : b[t] = b[u] => t = u)
      \/ p = Mutex!Halves(Mutex!SameValues)
      \/ \E g \in Mutex!Garbage : p = Mutex!Halves(g)
  BY DEF Mutex!Workloads
<1>6. (CHOOSE b \in [Mutex!Thread -> 1..Mutex!Cardinality(Mutex!Thread)] :
          \A t, u \in Mutex!Thread : b[t] = b[u] => t = u) \in [MThread -> 1..N]
  <2>0. Mutex!Cardinality(Mutex!Thread) = Cardinality(MThread)
    BY <1>0, MutexCardinality
  <2>1. \E b \in [MThread -> 1..Cardinality(MThread)] : \A t, u \in MThread : b[t] = b[u] => t = u
    BY <1>0, Numbering
  <2> QED BY <1>0, <2>0, <2>1
<1>7. CASE p = Mutex!Halves(Mutex!SameValues)
  <2>1. \A t \in ListRemovers : \A j \in 1..Operations : Mutex!SameValues[t][j] \in Mutex!Value
    BY <1>0, <1>v DEF Mutex!SameValues
  <2> QED BY <1>4, <1>7, <2>1
<1>8. ASSUME NEW g \in Mutex!Garbage, p = Mutex!Halves(g)
      PROVE  Legal(p)
  <2>1. ASSUME NEW t \in ListRemovers, NEW j \in 1..Operations
        PROVE  g[t][j] \in Mutex!Value
    <3>1. PICK x \in 1..(Operations + 1) : g[t][j] = x
      <4>1. PICK e \in [ListRemovers -> 1..(Operations + 1)] :
              g = [u \in ListRemovers |-> [k \in 1..Operations |-> e[u]]]
        BY <1>8 DEF Mutex!Garbage
      <4>2. g[t][j] = e[t] /\ e[t] \in 1..(Operations + 1)
        BY <2>1, <4>1
      <4> QED BY <4>2
    <3>2. N # 0
      BY <1>0, FS_EmptySet DEF MThread
    <3>3. N * Operations >= 1
      <4>1. PICK k \in Nat : N = k + 1
        BY <3>2
      <4>2. N * Operations = k * Operations + Operations /\ k * Operations \in Nat
        BY <1>0, <4>1
      <4> QED BY <1>0, <4>2
    <3> QED BY <1>0, <1>v, <3>1, <3>3
  <2> QED BY <1>4, <1>8, <2>1
<1> QED BY <1>2, <1>3, <1>5, <1>6, <1>7, <1>8

\* A sequence over a set is one over any larger set.
LEMMA WiderSeq ==
    ASSUME NEW S, NEW T, S \subseteq T, NEW s \in Seq(S)
    PROVE  s \in Seq(T)
<1>1. Len(s) \in Nat /\ s \in [1..Len(s) -> S]
  OBVIOUS
<1>2. s \in [1..Len(s) -> T]
  BY <1>1
<1> QED BY <1>1, <1>2

InIncreasingOrder(s) == \A k \in 1..(Len(s) - 1) : s[k] <= s[k + 1]

\* A sequence in order stays so when e is put in where it belongs, or any element taken out.
LEMMA SplicedInOrder ==
    ASSUME NEW s \in Seq(Nat), NEW r \in Seq(Nat), NEW i, NEW e \in Nat, Spliced(s, i, e, r)
    PROVE  /\ InIncreasingOrder(r) => InIncreasingOrder(s)
           /\ InIncreasingOrder(s) /\ (\A j \in 1..(i - 1) : s[j] <= e)
                                   /\ (i \in 1..Len(s) => e <= s[i]) => InIncreasingOrder(r)
<1> PICK L \in Nat : L = Len(s)
  OBVIOUS
<1>1. /\ i \in 1..(L + 1) /\ Len(r) = L + 1 /\ r[i] = e
      /\ \A k \in 1..(i - 1) : r[k] = s[k]
      /\ \A k \in i..L : r[k + 1] = s[k]
      /\ \A k \in 1..L : s[k] \in Nat
      /\ \A k \in 1..(L + 1) : r[k] \in Nat
  BY SMTT(20) DEF Spliced
<1>2. ASSUME InIncreasingOrder(r) PROVE InIncreasingOrder(s)
  <2>1. ASSUME NEW k \in 1..(L - 1) PROVE s[k] <= s[k + 1]
    <3>0. \A j \in 1..L : r[j] <= r[j + 1]
      BY <1>1, <1>2 DEF InIncreasingOrder
    <3>1. CASE k + 1 < i
      <4>1. k \in 1..(i - 1) /\ k + 1 \in 1..(i - 1) /\ k \in 1..L
        BY <1>1, <3>1
      <4> QED BY <1>1, <3>0, <4>1
    <3>2. CASE k >= i
      <4>1. k \in i..L /\ k + 1 \in i..L /\ k + 1 \in 1..L
        BY <1>1, <3>2
      <4>2. r[k + 1] = s[k] /\ r[(k + 1) + 1] = s[k + 1] /\ r[k + 1] <= r[(k + 1) + 1]
        BY <1>1, <3>0, <4>1
      <4> QED BY <4>2
    <3>3. CASE k + 1 = i
      <4>1. k \in 1..(i - 1) /\ k + 1 \in i..L /\ k \in 1..L /\ k + 1 \in 1..L /\ k + 2 \in 1..(L + 1)
        BY <1>1, <3>3
      <4>2. r[k] = s[k] /\ r[(k + 1) + 1] = s[k + 1] /\ r[k] <= r[k + 1] /\ r[k + 1] <= r[(k + 1) + 1]
        BY <1>1, <3>0, <4>1
      <4>3. s[k] \in Nat /\ s[k + 1] \in Nat /\ r[k + 1] \in Nat
        BY <1>1, <4>1
      <4> QED BY <4>2, <4>3
    <3> QED BY <1>1, <3>1, <3>2, <3>3
  <2> QED BY <2>1 DEF InIncreasingOrder
<1>3. ASSUME InIncreasingOrder(s), \A j \in 1..(i - 1) : s[j] <= e, i \in 1..L => e <= s[i]
      PROVE  InIncreasingOrder(r)
  <2>1. ASSUME NEW k \in 1..L PROVE r[k] <= r[k + 1]
    <3>0. \A j \in 1..(L - 1) : s[j] <= s[j + 1]
      BY <1>3 DEF InIncreasingOrder
    <3>1. CASE k + 1 < i
      <4>1. k \in 1..(i - 1) /\ k + 1 \in 1..(i - 1) /\ k \in 1..(L - 1)
        BY <1>1, <3>1
      <4> QED BY <1>1, <3>0, <4>1
    <3>2. CASE k + 1 = i
      <4>1. k \in 1..(i - 1)
        BY <1>1, <3>2
      <4> QED BY <1>1, <1>3, <3>2, <4>1
    <3>3. CASE k = i
      <4>1. k \in i..L /\ i \in 1..L
        BY <1>1, <3>3
      <4> QED BY <1>1, <1>3, <3>3, <4>1
    <3>4. CASE k > i
      <4>1. k \in i..L /\ k - 1 \in i..L /\ (k - 1) + 1 = k /\ k - 1 \in 1..(L - 1)
        BY <1>1, <3>4
      <4>2. r[(k - 1) + 1] = s[k - 1] /\ r[k + 1] = s[k] /\ s[k - 1] <= s[(k - 1) + 1]
        BY <1>1, <3>0, <4>1
      <4> QED BY <4>1, <4>2
    <3> QED BY <1>1, <3>1, <3>2, <3>3, <3>4
  <2>2. Len(r) - 1 = L
    BY <1>1
  <2> QED BY <2>1, <2>2 DEF InIncreasingOrder
<1> QED BY <1>2, <1>3

\* Where insert puts a value.
LEMMA MutexWith ==
    ASSUME Mutex!TypeOK, Mutex!InOrder, NEW v \in Mutex!Value
    PROVE  /\ Mutex!With(v) \in Seq(Mutex!Value)
           /\ \E i : Spliced(list, i, v, Mutex!With(v))
           /\ kind = "sorted" => InIncreasingOrder(Mutex!With(v))
<1> PICK V : V = Mutex!Value
  OBVIOUS
<1> PICK L \in Nat : L = Len(list)
  BY DEF Mutex!TypeOK
<1>0. /\ V \subseteq Nat /\ list \in Seq(V) /\ v \in V /\ v \in Nat
      /\ \A k \in 1..L : list[k] \in Nat
  BY MutexValues DEF Mutex!TypeOK
<1>1. CASE kind = "sorted"
  <2>1. PICK T : T = {i \in 1..(L + 1) : i > L \/ list[i] > v}
    OBVIOUS
  <2>2. T \in SUBSET Nat /\ T # {}
    <3>1. L + 1 \in T
      BY <2>1
    <3> QED BY <2>1, <3>1
  <2>3. PICK i \in T : \A k \in T : i <= k
    BY <2>2, LeastNatural
  <2>4. ASSUME NEW j \in 1..(i - 1) PROVE list[j] <= v
    <3>1. j \in 1..(L + 1) /\ j \notin T
      BY <2>1, <2>3
    <3>2. j \in 1..L /\ ~(list[j] > v)
      BY <2>1, <3>1
    <3> QED BY <1>0, <3>2
  <2>5. PICK f : f = Mutex!FirstAbove(v)
    OBVIOUS
  <2>6. /\ f \in 1..(L + 1) /\ (f > L \/ list[f] > v)
        /\ \A j \in 1..(f - 1) : list[j] <= v
    BY <2>1, <2>3, <2>4, <2>5 DEF Mutex!FirstAbove
  <2>7. PICK r : r = SubSeq(list, 1, f - 1) \o <<v>> \o SubSeq(list, f, Len(list))
    OBVIOUS
  <2>8. r \in Seq(V) /\ Spliced(list, f, v, r)
    <3>1. f \in 1..(Len(list) + 1)
      BY <2>6
    <3> QED BY <1>0, <2>7, <3>1, SplicedIn
  <2>9. Mutex!With(v) = r
    BY <1>1, <2>5, <2>7 DEF Mutex!With, Mutex!InsertAt
  <2>10. InIncreasingOrder(list)
    BY <1>1 DEF Mutex!InOrder, InIncreasingOrder
  <2>11. f \in 1..Len(list) => v <= list[f]
    BY <1>0, <2>6
  <2>12. list \in Seq(Nat) /\ r \in Seq(Nat)
    BY <1>0, <2>8, WiderSeq
  <2>13. InIncreasingOrder(r)
    BY <1>0, <2>6, <2>8, <2>10, <2>11, <2>12, SplicedInOrder
  <2> QED BY <2>8, <2>9, <2>13
<1>2. CASE kind # "sorted"
  <2>1. PICK r : r = <<v>> \o list
    OBVIOUS
  <2>2. PICK u : u = <<v>>
    OBVIOUS
  <2>3. u \in Seq(V) /\ Len(u) = 1 /\ u[1] = v
    BY <1>0, <2>2
  <2>4. /\ r \in Seq(V) /\ Len(r) = Len(u) + Len(list)
        /\ \A k \in 1..(Len(u) + Len(list)) : r[k] = IF k <= Len(u) THEN u[k] ELSE list[k - Len(u)]
    BY <1>0, <2>1, <2>2, <2>3, ConcatProperties
  <2>5. Len(r) = L + 1 /\ r[1] = v
    BY <2>3, <2>4
  <2>6. ASSUME NEW k \in 1..L PROVE r[k + 1] = list[k]
    <3>1. k + 1 \in 1..(Len(u) + Len(list)) /\ ~(k + 1 <= Len(u)) /\ k + 1 - Len(u) = k
      BY <2>3
    <3>2. r[k + 1] = IF k + 1 <= Len(u) THEN u[k + 1] ELSE list[k + 1 - Len(u)]
      BY <2>4, <3>1
    <3> QED BY <3>1, <3>2
  <2>7. Spliced(list, 1, v, r)
    BY <2>5, <2>6 DEF Spliced
  <2>8. Mutex!With(v) = r
    BY <1>2, <2>1 DEF Mutex!With
  <2> QED BY <1>2, <2>4, <2>7, <2>8
<1> QED BY <1>1, <1>2

\* What remove takes out.
LEMMA MutexWithout ==
    ASSUME Mutex!TypeOK, Mutex!InOrder, NEW v \in Mutex!Value, Mutex!Present(v)
    PROVE  /\ Mutex!Without(v) \in Seq(Mutex!Value)
           /\ \E i : Spliced(Mutex!Without(v), i, v, list)
           /\ kind = "sorted" => InIncreasingOrder(Mutex!Without(v))
<1> PICK V : V = Mutex!Value
  OBVIOUS
<1> PICK L \in Nat : L = Len(list)
  BY DEF Mutex!TypeOK
<1>0. /\ V \subseteq Nat /\ list \in Seq(V) /\ v \in V /\ v \in Nat /\ DOMAIN list = 1..L
  BY MutexValues DEF Mutex!TypeOK
<1>1. PICK T : T = {i \in 1..L : list[i] = v}
  OBVIOUS
<1>2. T \in SUBSET Nat /\ T # {}
  BY <1>0, <1>1 DEF Mutex!Present
<1>3. PICK i \in T : \A k \in T : i <= k
  BY <1>2, LeastNatural
<1>4. ASSUME NEW j \in 1..(i - 1) PROVE list[j] # v
  <2>1. j \in 1..L /\ j \notin T
    BY <1>1, <1>3
  <2> QED BY <1>1, <2>1
<1>5. PICK f : f = CHOOSE x \in DOMAIN list : list[x] = v /\ \A j \in 1..(x - 1) : list[j] # v
  OBVIOUS
<1>6. f \in 1..L /\ list[f] = v
  BY <1>0, <1>1, <1>3, <1>4, <1>5
<1>7. PICK s : s = SubSeq(list, 1, f - 1) \o SubSeq(list, f + 1, Len(list))
  OBVIOUS
<1>8. s \in Seq(V) /\ Spliced(s, f, v, list)
  <2>1. f \in 1..Len(list)
    BY <1>6
  <2> QED BY <1>0, <1>6, <1>7, <2>1, SplicedOut
<1>9. Mutex!Without(v) = s
  BY <1>5, <1>7 DEF Mutex!Without, Mutex!RemoveAt
<1>10. kind = "sorted" => InIncreasingOrder(s)
  <2>1. list \in Seq(Nat) /\ s \in Seq(Nat)
    BY <1>0, <1>8, WiderSeq
  <2>2. kind = "sorted" => InIncreasingOrder(list)
    BY DEF Mutex!InOrder, InIncreasingOrder
  <2> QED BY <1>0, <1>8, <2>1, <2>2, SplicedInOrder
<1> QED BY <1>8, <1>9, <1>10

\* A call that returns.
LEMMA MutexReturned ==
    ASSUME Legal(m_program), Mutex!TypeOK, MutexCalls, NEW t \in MThread, NEW good \in BOOLEAN,
           t \notin cv, m_at[t] < Len(m_program[t]), Mutex!Returns(t, good), m_program' = m_program,
           m_program[t][m_at[t] + 1][1] = "insert" => good
    PROVE  /\ m_at' \in [MThread -> Nat]
           /\ Mutex!Returned' = Mutex!Returned \cup {<<t, m_at[t] + 1>>}
           /\ <<t, m_at[t] + 1>> \notin Mutex!Returned
           /\ missed' = missed \cup {c \in {<<t, m_at[t] + 1>>} : ~good}
           /\ MutexCalls'
<1>0. /\ m_at \in [MThread -> Nat] /\ Mutex!Thread = MThread
      /\ m_at' = [m_at EXCEPT ![t] = m_at[t] + 1]
      /\ missed' = missed \cup (IF good THEN {} ELSE {<<t, m_at[t] + 1>>})
  BY MutexValues DEF Mutex!TypeOK, Mutex!Returns
<1>1. /\ m_at' \in [MThread -> Nat] /\ m_at'[t] = m_at[t] + 1
      /\ \A u \in MThread : u # t => m_at'[u] = m_at[u]
  BY <1>0
<1>2. \A c : c \in Mutex!Returned <=> \E u \in MThread : \E k \in 1..m_at[u] : c = <<u, k>>
  BY <1>0 DEF Mutex!Returned
<1>3. \A c : c \in Mutex!Returned' <=> \E u \in MThread : \E k \in 1..m_at'[u] : c = <<u, k>>
  BY <1>0 DEF Mutex!Returned, Mutex!Thread
<1>4. ASSUME NEW c PROVE c \in Mutex!Returned' <=> c \in Mutex!Returned \/ c = <<t, m_at[t] + 1>>
  <2>1. ASSUME c \in Mutex!Returned' PROVE c \in Mutex!Returned \/ c = <<t, m_at[t] + 1>>
    <3>1. PICK u \in MThread, k \in Nat : k \in 1..m_at'[u] /\ c = <<u, k>>
      BY <1>3, <2>1
    <3>2. k \in 1..m_at[u] \/ (u = t /\ k = m_at[t] + 1)
      BY <1>0, <1>1, <3>1
    <3> QED BY <1>2, <3>1, <3>2
  <2>2. ASSUME c \in Mutex!Returned PROVE c \in Mutex!Returned'
    <3>1. PICK u \in MThread, k \in Nat : k \in 1..m_at[u] /\ c = <<u, k>>
      BY <1>2, <2>2
    <3>2. k \in 1..m_at'[u]
      BY <1>0, <1>1, <3>1
    <3> QED BY <1>3, <3>1, <3>2
  <2>3. <<t, m_at[t] + 1>> \in Mutex!Returned'
    <3>1. m_at[t] + 1 \in 1..m_at'[t]
      BY <1>0, <1>1
    <3> QED BY <1>3, <3>1
  <2> QED BY <2>1, <2>2, <2>3
<1>5. <<t, m_at[t] + 1>> \notin Mutex!Returned
  <2>1. m_at[t] + 1 \notin 1..m_at[t]
    BY <1>0
  <2> QED BY <1>2, <2>1
<1>6. Mutex!Returned' = Mutex!Returned \cup {<<t, m_at[t] + 1>>}
  BY <1>4
<1>7. missed' = missed \cup {c \in {<<t, m_at[t] + 1>>} : ~good}
  BY <1>0
<1>8. MutexCalls'
  <2>1. ASSUME NEW u \in MThread PROVE m_at'[u] <= Len(m_program'[u])
    <3>1. m_at[u] <= Len(m_program[u]) /\ Len(m_program[u]) \in Nat /\ Len(m_program[t]) \in Nat
      BY DEF MutexCalls, Legal
    <3> QED BY <1>0, <1>1, <3>1
  <2>2. ASSUME NEW c \in missed'
        PROVE  c \in Mutex!Returned' /\ m_program'[c[1]][c[2]][1] # "insert"
    <3>1. CASE c \in missed
      BY <1>6, <3>1 DEF MutexCalls
    <3>2. CASE c \notin missed
      <4>1. c = <<t, m_at[t] + 1>> /\ ~good
        BY <1>7, <2>2, <3>2
      <4> QED BY <1>6, <4>1
    <3> QED BY <3>1, <3>2
  <2> QED BY <2>1, <2>2 DEF MutexCalls
<1> QED BY <1>1, <1>5, <1>6, <1>7, <1>8

\* There are finitely many calls.
LEMMA DoneFinite ==
    ASSUME Legal(m_program), Mutex!TypeOK, MutexCalls, NEW op, NEW v
    PROVE  IsFiniteSet(Mutex!Done(op, v)) /\ Cardinality(Mutex!Done(op, v)) \in Nat
<1>0. m_at \in [MThread -> Nat] /\ Mutex!Thread = MThread /\ IsFiniteSet(MThread) /\ Operations \in Nat
  BY MutexValues DEF Mutex!TypeOK
<1> PICK M \in Nat : M = 4 * Operations
  BY <1>0
<1>1. ASSUME NEW c \in Mutex!Done(op, v) PROVE c \in MThread \X (1..M)
  <2>1. PICK u \in MThread : c \in {u} \X (1..m_at[u])
    BY <1>0 DEF Mutex!Done, Mutex!Returned
  <2>2. m_at[u] <= Len(m_program[u]) /\ Len(m_program[u]) <= M /\ Len(m_program[u]) \in Nat
    BY DEF MutexCalls, Legal
  <2>3. 1..m_at[u] \subseteq 1..M
    BY <1>0, <2>2
  <2> QED BY <2>1, <2>3
<1>2. IsFiniteSet(1..M)
  BY FS_Interval
<1>3. IsFiniteSet(MThread \X (1..M))
  BY <1>0, <1>2, FS_Product
<1>4. Mutex!Done(op, v) \subseteq MThread \X (1..M)
  BY <1>1
<1> QED BY <1>3, <1>4, FS_Subset, FS_CardinalityType

\* The count of the calls that did an operation.
LEMMA DoneNext ==
    ASSUME Legal(m_program), Mutex!TypeOK, MutexCalls, NEW t \in MThread, NEW good \in BOOLEAN,
           t \notin cv, m_at[t] < Len(m_program[t]), Mutex!Returns(t, good), m_program' = m_program,
           m_program[t][m_at[t] + 1][1] = "insert" => good, NEW op, NEW v
    PROVE  Cardinality(Mutex!Done(op, v)')
             = Cardinality(Mutex!Done(op, v))
                 + (IF good /\ m_program[t][m_at[t] + 1] = <<op, v>> THEN 1 ELSE 0)
<1> PICK c : c = <<t, m_at[t] + 1>>
  OBVIOUS
<1>1. /\ Mutex!Returned' = Mutex!Returned \cup {c} /\ c \notin Mutex!Returned
      /\ missed' = missed \cup {d \in {c} : ~good}
  BY MutexReturned
<1>2. missed \subseteq Mutex!Returned
  BY DEF MutexCalls
<1>3. m_program[c[1]][c[2]] = m_program[t][m_at[t] + 1]
  OBVIOUS
<1> PICK D : D = Mutex!Done(op, v)
  OBVIOUS
<1> PICK E : E = Mutex!Done(op, v)'
  OBVIOUS
<1>4. D = {d \in Mutex!Returned \ missed : m_program[d[1]][d[2]] = <<op, v>>}
  BY DEF Mutex!Done
<1>5. E = {d \in Mutex!Returned' \ missed' : m_program[d[1]][d[2]] = <<op, v>>}
  BY DEF Mutex!Done
<1>6. IsFiniteSet(D) /\ Cardinality(D) \in Nat
  BY DoneFinite
<1>7. CASE good /\ m_program[t][m_at[t] + 1] = <<op, v>>
  <2>1. missed' = missed
    BY <1>1, <1>7
  <2>2. E = D \cup {c} /\ c \notin D
    BY <1>1, <1>2, <1>3, <1>4, <1>5, <1>7, <2>1
  <2>3. Cardinality(E) = Cardinality(D) + 1
    BY <1>6, <2>2, FS_AddElement
  <2> QED BY <1>7, <2>3
<1>8. CASE ~(good /\ m_program[t][m_at[t] + 1] = <<op, v>>)
  <2>1. E = D
    BY <1>1, <1>2, <1>3, <1>4, <1>5, <1>8
  <2>2. Cardinality(E) = Cardinality(D) + 0
    BY <1>6, <2>1
  <2>3. (IF good /\ m_program[t][m_at[t] + 1] = <<op, v>> THEN 1 ELSE 0) = 0
    BY <1>8
  <2> QED BY <2>2, <2>3
<1> QED BY <1>7, <1>8

\* A thread that owns a value finds it.
LEMMA MutexPresent ==
    ASSUME MutexInv, NEW t \in MThread, m_at[t] < Len(m_program[t]),
           m_program[t][m_at[t] + 1][1] # "insert", Mutex!Owned(t, m_at[t] + 1)
    PROVE  Mutex!Present(m_program[t][m_at[t] + 1][2])
<1>0. /\ m_at \in [MThread -> Nat] /\ Mutex!Thread = MThread /\ Legal(m_program)
      /\ Mutex!TypeOK /\ MutexCalls
  BY MutexValues DEF Mutex!TypeOK, MutexInv
<1> PICK p : p = m_program
  OBVIOUS
<1> PICK i \in Nat : i = m_at[t] + 1
  BY <1>0
<1> PICK v : v = p[t][i][2]
  OBVIOUS
<1>1. /\ p \in [MThread -> Seq(MOperations \X Mutex!Value)] /\ i \in 1..Len(p[t])
      /\ p[t] \in Seq(MOperations \X Mutex!Value) /\ Len(p[t]) \in Nat
  BY <1>0 DEF Legal
<1>2. p[t][i] \in MOperations \X Mutex!Value /\ v \in Mutex!Value
  BY <1>1, ElementOfSeq
<1>3. PICK j \in 1..(i - 1) : /\ p[t][j] = <<"insert", v>>
                              /\ \A k \in (j + 1)..(i - 1) : p[t][k][1] # "remove"
  BY DEF Mutex!Owned
<1>4. ~Divided(p)
  <2>1. j \in 1..Len(p[t]) /\ p[t][j][1] = "insert"
    BY <1>1, <1>3
  <2> QED BY <1>1, <2>1 DEF Divided
<1>5. Paired(p)
  BY <1>0, <1>4 DEF Legal
<1> PICK R : R = Mutex!Done("remove", v)
  OBVIOUS
<1> PICK I : I = Mutex!Done("insert", v)
  OBVIOUS
<1> PICK J : J = I \ {<<t, j>>}
  OBVIOUS
<1>6. ASSUME NEW c
      PROVE  /\ c \in R => \E u \in MThread : \E k \in 1..m_at[u] :
                              c = <<u, k>> /\ p[u][k] = <<"remove", v>>
             /\ \A u \in MThread : \A k \in 1..m_at[u] : p[u][k] = <<"insert", v>> => <<u, k>> \in I
  <2>1. \A d : d \in Mutex!Returned <=> \E u \in MThread : \E k \in 1..m_at[u] : d = <<u, k>>
    BY <1>0 DEF Mutex!Returned
  <2>2. c \in R => \E u \in MThread : \E k \in 1..m_at[u] : c = <<u, k>> /\ p[u][k] = <<"remove", v>>
    BY <2>1 DEF Mutex!Done
  <2>3. ASSUME NEW u \in MThread, NEW k \in 1..m_at[u], p[u][k] = <<"insert", v>>
        PROVE  <<u, k>> \in I
    <3>1. <<u, k>> \in Mutex!Returned
      BY <2>1
    <3>2. <<u, k>> \notin missed
      BY <1>0, <2>3 DEF MutexCalls
    <3> QED BY <2>3, <3>1, <3>2 DEF Mutex!Done
  <2> QED BY <2>2, <2>3
<1>7. IsFiniteSet(R) /\ IsFiniteSet(I) /\ Cardinality(R) \in Nat /\ Cardinality(I) \in Nat
  BY <1>0, DoneFinite
<1>8. <<t, j>> \in I
  <2>1. j \in 1..m_at[t]
    BY <1>0, <1>3
  <2> QED BY <1>3, <1>6, <2>1
<1>9. IsFiniteSet(J) /\ Cardinality(J) = Cardinality(I) - 1
  BY <1>7, <1>8, FS_RemoveElement
<1>10. PICK f : f = [c \in R |-> <<c[1], c[2] - 2>>]
  OBVIOUS
<1>11. ASSUME NEW c \in R PROVE f[c] \in J
  <2>1. PICK u \in MThread, k \in Nat : k \in 1..m_at[u] /\ c = <<u, k>> /\ p[u][k] = <<"remove", v>>
    <3>1. \E u \in MThread : \E k \in 1..m_at[u] : c = <<u, k>> /\ p[u][k] = <<"remove", v>>
      BY SMTT(20), <1>6
    <3>2. PICK u \in MThread : \E k \in 1..m_at[u] : c = <<u, k>> /\ p[u][k] = <<"remove", v>>
      BY <3>1
    <3>3. \A k \in 1..m_at[u] : k \in Nat
      OBVIOUS
    <3> QED BY <3>2, <3>3
  <2>2. k \in 1..Len(p[u])
    BY <1>0, <1>1, <2>1 DEF MutexCalls
  <2>3. k > 2 /\ p[u][k - 2] = <<"insert", v>>
    BY SMTT(20), <1>5, <2>1, <2>2 DEF Paired
  <2>4. k - 2 \in 1..m_at[u]
    BY <1>0, <2>1, <2>3
  <2>5. <<u, k - 2>> \in I
    BY <1>6, <2>3, <2>4
  <2>6. <<u, k - 2>> # <<t, j>>
    <3> SUFFICES ASSUME u = t, k - 2 = j PROVE FALSE
      OBVIOUS
    <3>1. k \in (j + 1)..(i - 1)
      BY <1>0, <1>3, <2>1
    <3> QED BY <1>3, <2>1, <3>1
  <2>7. f[c] = <<u, k - 2>>
    BY <1>10, <2>1
  <2> QED BY <2>5, <2>6, <2>7
<1>12. ASSUME NEW c \in R, NEW d \in R, f[c] = f[d] PROVE c = d
  <2>1. PICK u \in MThread, k \in Nat : k \in 1..m_at[u] /\ c = <<u, k>>
    BY <1>0, <1>6
  <2>2. PICK w \in MThread, l \in Nat : l \in 1..m_at[w] /\ d = <<w, l>>
    BY <1>0, <1>6
  <2>3. f[c] = <<u, k - 2>> /\ f[d] = <<w, l - 2>>
    BY <1>10, <2>1, <2>2
  <2>4. <<u, k - 2>> = <<w, l - 2>>
    BY <1>12, <2>3
  <2>5. u = w /\ k - 2 = l - 2
    BY <2>4
  <2> QED BY <2>1, <2>2, <2>5
<1>13. f \in Injection(R, J)
  <2>1. f \in [R -> J]
    BY <1>10, <1>11
  <2> QED BY <1>12, <2>1 DEF Injection, IsInjective
<1>14. Cardinality(R) <= Cardinality(J)
  BY <1>9, <1>13, FS_Injection
<1>15. Cardinality({k \in DOMAIN list : list[k] = v}) + Cardinality(R) = Cardinality(I)
  BY <1>2, MutexCardinality DEF MutexInv, Mutex!Copies
<1>16. ASSUME ~Mutex!Present(v) PROVE FALSE
  <2>1. {k \in DOMAIN list : list[k] = v} = {}
    BY <1>16 DEF Mutex!Present
  <2>2. Cardinality({k \in DOMAIN list : list[k] = v}) = 0
    BY <2>1, FS_EmptySet
  <2>3. Cardinality(R) = Cardinality(I)
    BY <1>7, <1>15, <2>2
  <2>4. Cardinality(I) <= Cardinality(I) - 1
    BY <1>9, <1>14, <2>3
  <2> QED BY <1>7, <2>4
<1> QED BY <1>16

\* Nothing but the list, what has returned and the sleepers counts.
LEMMA MutexUntouched ==
    ASSUME MutexInv, UNCHANGED <<kind, m_program, m_at, list, missed>>, cv' \subseteq cv
    PROVE  MutexInv'
<1>1. Legal(m_program)' /\ Mutex!TypeOK' /\ MutexCalls' /\ Mutex!InOrder'
  BY DEF MutexInv, Legal, Paired, Divided, Mutex!TypeOK, MutexCalls, Mutex!Returned, Mutex!InOrder
<1>2. Mutex!Copies'
  <2>1. Mutex!Returned' = Mutex!Returned
    BY DEF Mutex!Returned
  <2>2. \A op, v : Mutex!Done(op, v)' = Mutex!Done(op, v)
    BY <2>1 DEF Mutex!Done
  <2> QED BY <2>2, MutexCardinality DEF MutexInv, Mutex!Copies
<1>3. Mutex!FindsItsOwn'
  BY DEF MutexInv, Mutex!FindsItsOwn, Mutex!Owned
<1> QED BY <1>1, <1>2, <1>3 DEF MutexInv

\* What holds after a call that returns.
LEMMA MutexKept ==
    ASSUME MutexInv, NEW t \in MThread, NEW good \in BOOLEAN,
           t \notin cv, m_at[t] < Len(m_program[t]), Mutex!Returns(t, good),
           m_program' = m_program, kind' = kind, cv' \subseteq cv,
           NEW op, NEW v \in Mutex!Value, m_program[t][m_at[t] + 1] = <<op, v>>,
           op = "insert" => good, ~good => op # "insert" /\ ~Mutex!Present(v),
           NEW r, r = list', r \in Seq(Mutex!Value), kind = "sorted" => InIncreasingOrder(r),
           \A w \in Mutex!Value :
              Count(r, w)
                  + (IF good /\ op = "remove" /\ w = v THEN 1 ELSE 0)
                = Count(list, w)
                  + (IF good /\ op = "insert" /\ w = v THEN 1 ELSE 0),
           \A w \in Mutex!Value : Count(list, w) \in Nat,
           \A w \in Mutex!Value : Count(r, w) \in Nat
    PROVE  MutexInv'
<1>0. /\ Legal(m_program) /\ Mutex!TypeOK /\ MutexCalls /\ Mutex!Thread = MThread
      /\ m_program[t][m_at[t] + 1][1] = op /\ m_program[t][m_at[t] + 1][2] = v
  BY MutexValues DEF MutexInv
<1>1. /\ m_at' \in [MThread -> Nat] /\ MutexCalls'
      /\ missed' = missed \cup {c \in {<<t, m_at[t] + 1>>} : ~good}
  BY <1>0, MutexReturned
<1>2. Legal(m_program)' /\ Mutex!TypeOK' /\ Mutex!InOrder'
  <2>1. Legal(m_program)'
    BY <1>0 DEF Legal, Paired, Divided
  <2>2. Mutex!TypeOK'
    BY <1>0, <1>1 DEF Mutex!TypeOK, Mutex!Thread, Mutex!Value
  <2>3. Mutex!InOrder'
    BY DEF Mutex!InOrder, InIncreasingOrder
  <2> QED BY <2>1, <2>2, <2>3
<1>3. ASSUME NEW w \in Mutex!Value
      PROVE  Count(r, w) + Cardinality(Mutex!Done("remove", w)')
               = Cardinality(Mutex!Done("insert", w)')
  <2>1. Count(list, w) + Cardinality(Mutex!Done("remove", w))
          = Cardinality(Mutex!Done("insert", w))
    BY MutexCardinality DEF MutexInv, Mutex!Copies, Count
  <2>2. Cardinality(Mutex!Done("remove", w)')
          = Cardinality(Mutex!Done("remove", w))
              + (IF good /\ m_program[t][m_at[t] + 1] = <<"remove", w>> THEN 1 ELSE 0)
    BY <1>0, DoneNext
  <2>3. Cardinality(Mutex!Done("insert", w)')
          = Cardinality(Mutex!Done("insert", w))
              + (IF good /\ m_program[t][m_at[t] + 1] = <<"insert", w>> THEN 1 ELSE 0)
    BY <1>0, DoneNext
  <2>4. /\ m_program[t][m_at[t] + 1] = <<"remove", w>> <=> op = "remove" /\ w = v
        /\ m_program[t][m_at[t] + 1] = <<"insert", w>> <=> op = "insert" /\ w = v
    OBVIOUS
  <2>5. PICK x \in Nat : x = Count(r, w)
    OBVIOUS
  <2>6. PICK y \in Nat : y = Count(list, w)
    OBVIOUS
  <2>7. x + (IF good /\ op = "remove" /\ w = v THEN 1 ELSE 0)
          = y + (IF good /\ op = "insert" /\ w = v THEN 1 ELSE 0)
    BY <2>5, <2>6
  <2>8. /\ Cardinality(Mutex!Done("remove", w)) \in Nat
        /\ Cardinality(Mutex!Done("insert", w)) \in Nat
    BY <1>0, DoneFinite
  <2>9. PICK a \in Nat : a = Cardinality(Mutex!Done("remove", w))
    BY <2>8
  <2>10. PICK b \in Nat : b = Cardinality(Mutex!Done("insert", w))
    BY <2>8
  <2>11. y + a = b
    BY <2>1, <2>6, <2>9, <2>10
  <2>12. PICK c : c = Cardinality(Mutex!Done("remove", w)')
    OBVIOUS
  <2>13. PICK d : d = Cardinality(Mutex!Done("insert", w)')
    OBVIOUS
  <2>14. c = a + (IF good /\ op = "remove" /\ w = v THEN 1 ELSE 0)
    BY <2>2, <2>4, <2>9, <2>12
  <2>15. d = b + (IF good /\ op = "insert" /\ w = v THEN 1 ELSE 0)
    BY <2>3, <2>4, <2>10, <2>13
  <2>16. x + c = d
    BY <2>7, <2>11, <2>14, <2>15
  <2> QED BY <2>5, <2>12, <2>13, <2>16
<1>4. Mutex!Copies'
  BY <1>3, MutexCardinality DEF Mutex!Copies, Mutex!Value, Mutex!Thread, Count
<1>5. \A u, i : Mutex!Owned(u, i)' <=> Mutex!Owned(u, i)
  BY DEF Mutex!Owned
<1>6. ~good => ~Mutex!Owned(t, m_at[t] + 1)
  BY <1>0, MutexPresent
<1>7. ASSUME NEW call \in missed' PROVE ~Mutex!Owned(call[1], call[2])'
  <2>1. call \in missed => ~Mutex!Owned(call[1], call[2])
    BY DEF MutexInv, Mutex!FindsItsOwn
  <2>2. call \notin missed => call = <<t, m_at[t] + 1>> /\ ~good
    BY <1>1
  <2> QED BY <1>5, <1>6, <2>1, <2>2
<1>8. ASSUME NEW u \in cv' PROVE ~Mutex!Owned(u, m_at[u] + 1)'
  <2>1. m_at'[u] = m_at[u]
    BY <1>0 DEF Mutex!Returns, Mutex!TypeOK
  <2>2. ~Mutex!Owned(u, m_at[u] + 1)
    BY DEF MutexInv, Mutex!FindsItsOwn
  <2> QED BY <2>1, <2>2 DEF Mutex!Owned
<1>9. Mutex!FindsItsOwn'
  BY <1>7, <1>8 DEF Mutex!FindsItsOwn
<1> QED BY <1>1, <1>2, <1>4, <1>9 DEF MutexInv

\* A thread's next call is one of the operations, with a value.
LEMMA MutexCall ==
    ASSUME Legal(m_program), Mutex!TypeOK, NEW t \in MThread, NEW op, Mutex!Runs(t, op)
    PROVE  /\ t \notin cv /\ m_at[t] < Len(m_program[t])
           /\ Mutex!Argument(t) \in Mutex!Value
           /\ m_program[t][m_at[t] + 1] = <<op, Mutex!Argument(t)>>
<1>0. m_at[t] \in Nat /\ Mutex!Thread = MThread
  BY MutexValues DEF Mutex!TypeOK
<1>1. /\ t \notin cv /\ m_at[t] < Len(m_program[t]) /\ m_program[t][m_at[t] + 1][1] = op
  BY DEF Mutex!Runs
<1>2. m_program[t] \in Seq(MOperations \X Mutex!Value)
  BY DEF Legal
<1>3. m_at[t] + 1 \in 1..Len(m_program[t])
  BY <1>0, <1>1, <1>2
<1>4. m_program[t][m_at[t] + 1] \in MOperations \X Mutex!Value
  BY <1>2, <1>3, ElementOfSeq
<1> QED BY <1>1, <1>4 DEF Mutex!Argument

\* An insert adds a copy of its value.
LEMMA MutexInserts ==
    ASSUME MutexInv, NEW t \in MThread, Mutex!Insert(t)
    PROVE  MutexInv'
<1> PICK v : v = Mutex!Argument(t)
  OBVIOUS
<1>o. PICK op : op = "insert"
  OBVIOUS
<1>g. PICK good \in BOOLEAN : good = TRUE
  OBVIOUS
<1> PICK r : r = list'
  OBVIOUS
<1>0. Legal(m_program) /\ Mutex!TypeOK /\ MutexCalls /\ Mutex!InOrder
  BY DEF MutexInv
<1>1. /\ Mutex!Runs(t, "insert") /\ list' = Mutex!With(v) /\ Mutex!Returns(t, good)
      /\ kind' = kind /\ m_program' = m_program /\ cv' \subseteq cv
  BY <1>g DEF Mutex!Insert, Mutex!Signal, Mutex!NotifyOne
<1>2. /\ t \notin cv /\ m_at[t] < Len(m_program[t]) /\ v \in Mutex!Value
      /\ m_program[t][m_at[t] + 1] = <<"insert", v>>
  BY <1>0, <1>1, MutexCall
<1>3. /\ r \in Seq(Mutex!Value) /\ \E i : Spliced(list, i, v, r)
      /\ kind = "sorted" => InIncreasingOrder(r)
  BY <1>0, <1>1, <1>2, MutexWith
<1>4. list \in Seq(Mutex!Value)
  BY <1>0 DEF Mutex!TypeOK
<1>5. ASSUME NEW w \in Mutex!Value
      PROVE  /\ Count(list, w) \in Nat
             /\ Count(r, w) \in Nat
             /\ Count(r, w) + 0
                  = Count(list, w) + (IF w = v THEN 1 ELSE 0)
  <2>1. PICK i : Spliced(list, i, v, r)
    BY <1>3
  <2>2. Count(r, w) = Count(list, w) + (IF v = w THEN 1 ELSE 0)
    BY <1>3, <1>4, <2>1, SplicedCount
  <2>3. Count(r, w) \in Nat /\ Count(list, w) \in Nat
    BY <1>3, <1>4, CountIsNat
  <2> QED BY <2>2, <2>3
<1>6. \A w \in Mutex!Value :
              Count(r, w)
                  + (IF good /\ op = "remove" /\ w = v THEN 1 ELSE 0)
                = Count(list, w)
                  + (IF good /\ op = "insert" /\ w = v THEN 1 ELSE 0)
  BY <1>5, <1>o, <1>g
<1>7. /\ op = "insert" => good
      /\ ~good => op # "insert" /\ ~Mutex!Present(v)
  BY <1>g
<1>8. /\ t \notin cv /\ m_at[t] < Len(m_program[t]) /\ Mutex!Returns(t, good)
      /\ m_program' = m_program /\ kind' = kind /\ cv' \subseteq cv
      /\ m_program[t][m_at[t] + 1] = <<op, v>> /\ v \in Mutex!Value
  BY <1>1, <1>2, <1>o
<1>9. /\ r \in Seq(Mutex!Value) /\ (kind = "sorted" => InIncreasingOrder(r))
      /\ \A w \in Mutex!Value : Count(list, w) \in Nat
      /\ \A w \in Mutex!Value : Count(r, w) \in Nat
  BY <1>3, <1>5
<1> QED BY <1>6, <1>7, <1>8, <1>9, MutexKept

\* A search finds what its thread has inserted.
LEMMA MutexSearches ==
    ASSUME MutexInv, NEW t \in MThread, Mutex!Search(t)
    PROVE  MutexInv'
<1> PICK v : v = Mutex!Argument(t)
  OBVIOUS
<1> PICK r : r = list'
  OBVIOUS
<1> PICK good \in BOOLEAN : good = Mutex!Present(v)
  BY DEF Mutex!Present
<1>0. Legal(m_program) /\ Mutex!TypeOK /\ MutexCalls /\ Mutex!InOrder
  BY DEF MutexInv
<1>1. /\ Mutex!Runs(t, "search") /\ list' = list /\ Mutex!Returns(t, good)
      /\ kind' = kind /\ m_program' = m_program /\ cv' \subseteq cv
  BY DEF Mutex!Search
<1>2. /\ t \notin cv /\ m_at[t] < Len(m_program[t]) /\ v \in Mutex!Value
      /\ m_program[t][m_at[t] + 1] = <<"search", v>>
  BY <1>0, <1>1, MutexCall
<1>3. r \in Seq(Mutex!Value) /\ (kind = "sorted" => InIncreasingOrder(r))
  BY <1>0, <1>1 DEF Mutex!TypeOK, Mutex!InOrder, InIncreasingOrder
<1>5. ASSUME NEW w \in Mutex!Value
      PROVE  /\ Count(list, w) \in Nat
             /\ Count(r, w) \in Nat
             /\ Count(r, w) + 0
                  = Count(list, w) + 0
  <2>1. r = list
    BY <1>1
  <2>2. Count(r, w) \in Nat
    BY <1>3, CountIsNat
  <2> QED BY <2>1, <2>2
<1>6. \A w \in Mutex!Value :
              Count(r, w)
                  + (IF good /\ "search" = "remove" /\ w = v THEN 1 ELSE 0)
                = Count(list, w)
                  + (IF good /\ "search" = "insert" /\ w = v THEN 1 ELSE 0)
  BY <1>5
<1>7. ("search" = "insert" => good) /\ (~good => "search" # "insert" /\ ~Mutex!Present(v))
  OBVIOUS
<1> QED BY <1>1, <1>2, <1>3, <1>5, <1>6, <1>7, MutexKept

\* A remove takes one copy out, if there is one.
LEMMA MutexRemoves ==
    ASSUME MutexInv, NEW t \in MThread, Mutex!RemoveReturns(t)
    PROVE  MutexInv'
<1> PICK v : v = Mutex!Argument(t)
  OBVIOUS
<1> PICK r : r = list'
  OBVIOUS
<1> PICK good \in BOOLEAN : good = Mutex!Present(v)
  BY DEF Mutex!Present
<1>0. Legal(m_program) /\ Mutex!TypeOK /\ MutexCalls /\ Mutex!InOrder
  BY DEF MutexInv
<1>1. /\ Mutex!Runs(t, "remove") /\ Mutex!Returns(t, good)
      /\ list' = IF good THEN Mutex!Without(v) ELSE list
      /\ kind' = kind /\ m_program' = m_program /\ cv' \subseteq cv
  BY DEF Mutex!RemoveReturns
<1>2. /\ t \notin cv /\ m_at[t] < Len(m_program[t]) /\ v \in Mutex!Value
      /\ m_program[t][m_at[t] + 1] = <<"remove", v>>
  BY <1>0, <1>1, MutexCall
<1>4. list \in Seq(Mutex!Value) /\ (kind = "sorted" => InIncreasingOrder(list))
  BY <1>0, <1>1 DEF Mutex!TypeOK, Mutex!InOrder, InIncreasingOrder
<1>3. /\ r \in Seq(Mutex!Value) /\ (kind = "sorted" => InIncreasingOrder(r))
      /\ good => \E i : Spliced(r, i, v, list)
      /\ ~good => r = list
  <2>1. CASE good
    BY <1>0, <1>1, <1>2, <2>1, MutexWithout
  <2>2. CASE ~good
    BY <1>1, <1>4, <2>2
  <2> QED BY <2>1, <2>2
<1>5. ASSUME NEW w \in Mutex!Value
      PROVE  /\ Count(list, w) \in Nat
             /\ Count(r, w) \in Nat
             /\ Count(r, w) + (IF good /\ w = v THEN 1 ELSE 0)
                  = Count(list, w) + 0
  <2>0. /\ Count(list, w) \in Nat
        /\ Count(r, w) \in Nat
    BY <1>3, <1>4, CountIsNat
  <2>1. CASE good
    <3>1. PICK i : Spliced(r, i, v, list)
      BY <1>3, <2>1
    <3>2. Count(list, w)
            = Count(r, w) + (IF v = w THEN 1 ELSE 0)
      BY <1>3, <1>4, <3>1, SplicedCount
    <3>3. PICK x \in Nat : x = Count(list, w)
      BY <2>0
    <3>4. PICK y \in Nat : y = Count(r, w)
      BY <2>0
    <3>5. y + (IF good /\ w = v THEN 1 ELSE 0) = x + 0
      BY <2>1, <3>2, <3>3, <3>4
    <3> QED BY <2>0, <3>3, <3>4, <3>5
  <2>2. CASE ~good
    BY <1>3, <2>0, <2>2
  <2> QED BY <2>1, <2>2
<1>6. \A w \in Mutex!Value :
              Count(r, w)
                  + (IF good /\ "remove" = "remove" /\ w = v THEN 1 ELSE 0)
                = Count(list, w)
                  + (IF good /\ "remove" = "insert" /\ w = v THEN 1 ELSE 0)
  BY <1>5
<1>7. ("remove" = "insert" => good) /\ (~good => "remove" # "insert" /\ ~Mutex!Present(v))
  OBVIOUS
<1> QED BY <1>1, <1>2, <1>3, <1>5, <1>6, <1>7, MutexKept

\* A thread that waits for a value leaves the list as it is.
LEMMA MutexSleeps ==
    ASSUME MutexInv, NEW t \in MThread, Mutex!RemoveWaits(t)
    PROVE  MutexInv'
<1>0. Legal(m_program) /\ Mutex!TypeOK /\ Mutex!Thread = MThread
  BY MutexValues DEF MutexInv
<1>1. /\ Mutex!Runs(t, "remove") /\ kind = "condvar" /\ list = <<>> /\ cv' = cv \cup {t}
      /\ UNCHANGED <<kind, m_program, m_at, list, missed>>
  BY DEF Mutex!RemoveWaits, Mutex!Waits
<1>2. /\ t \notin cv /\ m_at[t] < Len(m_program[t])
      /\ m_program[t][m_at[t] + 1][1] = "remove"
  BY <1>0, <1>1, MutexCall
<1>3. ~Mutex!Present(m_program[t][m_at[t] + 1][2])
  BY <1>1 DEF Mutex!Present
<1>4. ~Mutex!Owned(t, m_at[t] + 1)
  BY <1>2, <1>3, MutexPresent
<1>5. Legal(m_program)' /\ Mutex!TypeOK' /\ MutexCalls' /\ Mutex!InOrder'
  BY <1>0, <1>1 DEF MutexInv, Legal, Paired, Divided, Mutex!TypeOK, MutexCalls, Mutex!Returned,
     Mutex!InOrder
<1>6. Mutex!Copies'
  <2>1. Mutex!Returned' = Mutex!Returned
    BY <1>1 DEF Mutex!Returned
  <2>2. \A op, v : Mutex!Done(op, v)' = Mutex!Done(op, v)
    BY <1>1, <2>1 DEF Mutex!Done
  <2> QED BY <1>1, <2>2, MutexCardinality DEF MutexInv, Mutex!Copies
<1>7. Mutex!FindsItsOwn'
  BY <1>1, <1>4 DEF MutexInv, Mutex!FindsItsOwn, Mutex!Owned
<1> QED BY <1>5, <1>6, <1>7 DEF MutexInv

\* The list is empty at first and no call has returned.
LEMMA MutexInitially == ASSUME Mutex!Init PROVE MutexInv
<1>0. Mutex!Thread = MThread /\ m_program \in Mutex!Workloads /\ m_at = [t \in MThread |-> 0]
  BY MutexValues DEF Mutex!Init
<1>1. Legal(m_program)
  BY <1>0, MutexPrograms
<1>2. Mutex!TypeOK
  BY <1>0 DEF Mutex!Init, Mutex!TypeOK
<1>3. MutexCalls
  <2>1. \A t \in MThread : Len(m_program[t]) \in Nat
    BY <1>1 DEF Legal
  <2> QED BY <1>0, <2>1 DEF MutexCalls, Mutex!Init
<1>4. Mutex!InOrder
  BY DEF Mutex!Init, Mutex!InOrder
<1>5. Mutex!FindsItsOwn
  BY DEF Mutex!Init, Mutex!FindsItsOwn
<1>6. ASSUME NEW op, NEW v PROVE Mutex!Done(op, v) = {}
  <2>1. \A t \in MThread : 1..m_at[t] = {}
    BY <1>0
  <2>2. Mutex!Returned = {}
    BY <1>0, <2>1 DEF Mutex!Returned
  <2> QED BY <2>2 DEF Mutex!Done
<1>7. Mutex!Copies
  <2>1. \A v : {i \in DOMAIN list : list[i] = v} = {}
    BY DEF Mutex!Init
  <2>2. Cardinality({}) = 0
    BY FS_EmptySet
  <2>3. \A v : Mutex!Cardinality({i \in DOMAIN list : list[i] = v}) = 0
    BY <2>1, <2>2, MutexCardinality
  <2>4. \A op, v : Mutex!Cardinality(Mutex!Done(op, v)) = 0
    BY <1>6, <2>2, MutexCardinality
  <2> QED BY <2>3, <2>4 DEF Mutex!Copies
<1> QED BY <1>1, <1>2, <1>3, <1>4, <1>5, <1>7 DEF MutexInv

\* Every step of the list keeps its invariant.
LEMMA MutexStep == ASSUME MutexInv, [Mutex!Next]_mutex_vars PROVE MutexInv'
<1>1. CASE UNCHANGED mutex_vars
  BY <1>1, MutexUntouched DEF mutex_vars
<1>2. CASE UNCHANGED Mutex!vars
  BY <1>2, MutexUntouched DEF Mutex!vars
<1>3. CASE Mutex!WakeSpuriously
  <2>1. UNCHANGED <<kind, m_program, m_at, list, missed>> /\ cv' \subseteq cv
    BY <1>3 DEF Mutex!WakeSpuriously, Mutex!WakeOne
  <2> QED BY <2>1, MutexUntouched
<1>4. ASSUME NEW t \in MThread, Mutex!Step(t) PROVE MutexInv'
  BY <1>4, MutexInserts, MutexSearches, MutexRemoves, MutexSleeps DEF Mutex!Step
<1> QED BY <1>1, <1>2, <1>3, <1>4, MutexValues DEF Mutex!Next
-----------------------------------------------------------------------------
(* The lock-free lists in C. *)

CValue == (Owners \cup ListPushers) \X (1..Rounds)
CPlaces == {"insert", "load", "push", "search", "visit", "delete", "next", "mark", "unlink", "free",
            "again", "revisit"}

CTypes ==
    /\ c_head \in Cells \cup {NULL}
    /\ c_node \in [Cells -> [data : CValue \cup {NULL}, next : Cells \cup {NULL}, marked : BOOLEAN]]
    /\ c_heap \subseteq Cells
    /\ c_pc \in [InC!Thread -> CPlaces]
    /\ c_round \in [InC!Thread -> 1..(Rounds + 1)]
    /\ c_new \in [InC!Thread -> Cells \cup {NULL}]
    /\ c_oldHead \in [InC!Thread -> Cells \cup {NULL}]
    /\ c_prev \in [InC!Thread -> Cells \cup {NULL}]
    /\ curr \in [InC!Thread -> Cells \cup {NULL}]
    /\ succ \in [InC!Thread -> Cells \cup {NULL}]
    /\ found \in [InC!Thread -> BOOLEAN]
    /\ c_inserted \subseteq CValue /\ c_removed \subseteq c_inserted
    /\ \A t \in ListPushers : c_pc[t] \in {"insert", "load", "push"}

\* A value is inserted by push, and removed by unlink: if one thread deletes, at every
\* delete.
CPushing(t) == c_pc[t] \in {"load", "push"}
CInserted(t) == c_pc[t] \notin {"insert", "load", "push"}
CRemoved(t) == c_pc[t] \in {"free", "again", "revisit"}
CRounds ==
    \A t \in InC!Thread :
       /\ c_pc[t] # "insert" => c_round[t] <= Rounds
       /\ \A k \in 1..Rounds :
          <<t, k>> \in c_inserted <=> k < c_round[t] \/ (k = c_round[t] /\ CInserted(t))
CRemovals ==
    \A t \in InC!Thread : \A k \in 1..Rounds :
       /\ t \in Owners =>
             (<<t, k>> \in c_removed <=> k < c_round[t] \/ (k = c_round[t] /\ CRemoved(t)))
       /\ t \notin Owners => <<t, k>> \notin c_removed

COwns(t, a) == (CPushing(t) /\ a = c_new[t]) \/ (c_pc[t] = "free" /\ a = curr[t])

\* S are the nodes of the list; a thread holds a node that it has not pushed yet, or has
\* unlinked.
CHeap(S) ==
    /\ S \subseteq c_heap
    /\ {c_node[a].data : a \in S} = c_inserted \ c_removed
    /\ \A a \in c_heap : a \in S \/ \E t \in InC!Thread : COwns(t, a)
    /\ \A a, b \in c_heap : c_node[a].data = c_node[b].data => a = b
    /\ \A a \in S : c_node[a].marked =>
          \E t \in Owners : /\ c_pc[t] \in {"next", "mark", "unlink"}
                            /\ c_node[a].data = InC!value(t)

CHolds(S, t) ==
    /\ CPushing(t) => /\ c_new[t] \in c_heap \ S
                      /\ c_node[c_new[t]].data = InC!value(t)
                      /\ ~c_node[c_new[t]].marked
    /\ c_pc[t] = "push" => c_node[c_new[t]].next = c_oldHead[t]
    /\ c_pc[t] = "free" => curr[t] \in c_heap \ S /\ c_node[curr[t]].data = InC!value(t)

\* The node that a thread looks for is ahead of it.
CAhead(S, rank, t) == /\ curr[t] \in S
                      /\ \A a \in S : c_node[a].data = InC!value(t) => rank[a] <= rank[curr[t]]

CWalks(S, rank, t) ==
    /\ c_pc[t] \in {"visit", "next"} => CAhead(S, rank, t)
    /\ c_pc[t] = "revisit" => curr[t] \in S \cup {NULL}
    /\ c_pc[t] \in {"next", "mark", "unlink"} => c_prev[t] \in S \cup {NULL}
    /\ c_pc[t] \in {"mark", "unlink"} =>
          /\ curr[t] \in S /\ c_node[curr[t]].data = InC!value(t)
          /\ succ[t] = c_node[curr[t]].next
    /\ c_pc[t] \in {"delete", "again"} => found[t]
    /\ c_pc[t] = "insert" => ~found[t]

CRanked(S, rank) == /\ Chain(InC!Links, NULL, c_head, S, rank)
                    /\ CHeap(S)
                    /\ \A t \in InC!Thread : CHolds(S, t)
                    /\ \A t \in Owners : CWalks(S, rank, t)

CState == CRemovals /\ \E S \in SUBSET Cells, rank \in [Cells -> Nat] : CRanked(S, rank)
CInv == CTypes /\ CRounds /\ (OneOwner => CState)

\* malloc finds a node, if there is one.
LEMMA CMalloc ==
    ASSUME CTypes, NEW t, InC!create_node(t)
    PROVE  InC!Malloc \in Cells \ c_heap
<1>1. \E a \in Cells : a \notin c_heap
  BY DEF CTypes, InC!create_node
<1> QED BY <1>1 DEF InC!Malloc

\* A thread at work has a value of the round.
LEMMA CHasValue ==
    ASSUME CTypes, CRounds, NEW t \in InC!Thread
    PROVE  /\ c_pc[t] # "insert" \/ InC!Runs(t) =>
                 c_round[t] \in 1..Rounds /\ InC!value(t) \in CValue
           /\ \A u \in InC!Thread : InC!value(u) = InC!value(t) => u = t
<1> USE SizesAssumption
<1>1. c_round[t] \in 1..(Rounds + 1)
  BY DEF CTypes
<1>2. c_round[t] <= Rounds => c_round[t] \in 1..Rounds
  BY <1>1
<1>3. c_pc[t] # "insert" \/ InC!Runs(t) => c_round[t] \in 1..Rounds
  BY <1>2 DEF CRounds, InC!Runs
<1>4. c_round[t] \in 1..Rounds => InC!value(t) \in CValue
  BY DEF InC!value, CValue, InC!Thread
<1> QED BY <1>3, <1>4 DEF InC!value

\* The value is inserted from push on, and an owner's removed from unlink on.
LEMMA CIsThere ==
    ASSUME CTypes, CRounds, NEW t \in InC!Thread, c_pc[t] # "insert" \/ InC!Runs(t)
    PROVE  InC!value(t) \in c_inserted <=> CInserted(t)
<1>1. c_round[t] \in 1..Rounds
  BY CHasValue
<1> QED BY <1>1, SizesAssumption DEF CRounds, InC!value

LEMMA CIsGone ==
    ASSUME CTypes, CRounds, CRemovals, NEW t \in Owners, c_pc[t] # "insert" \/ InC!Runs(t)
    PROVE  InC!value(t) \in c_removed <=> CRemoved(t)
<1>1. t \in InC!Thread
  BY DEF InC!Thread
<1>2. c_round[t] \in 1..Rounds
  BY <1>1, CHasValue
<1> QED BY <1>1, <1>2, SizesAssumption DEF CRemovals, InC!value

\* Every action keeps the types.
LEMMA CTypesKept ==
    ASSUME CTypes, CRounds, NEW t \in InC!Thread, InC!Step(t)
    PROVE  CTypes'
<1> USE SizesAssumption
<1>v. /\ c_pc[t] # "insert" \/ InC!Runs(t) =>
             InC!value(t) \in CValue /\ c_round[t] + 1 \in 1..(Rounds + 1)
  <2>1. c_pc[t] # "insert" \/ InC!Runs(t) =>
             c_round[t] \in 1..Rounds /\ InC!value(t) \in CValue
    BY CHasValue
  <2> QED BY <2>1
<1>o. t \in Owners => t \notin ListPushers
  BY NamesAssumption
<1>n. \A a \in Cells : c_node[a].next \in Cells \cup {NULL}
  BY DEF CTypes
<1>1. CASE InC!create_node(t)
  <2>1. PICK a \in Cells : a = InC!Malloc
    BY <1>1, CMalloc
  <2>2. c_node' = [c_node EXCEPT ![a] = [data |-> InC!value(t), next |-> NULL, marked |-> FALSE]]
    BY <1>1, <2>1 DEF InC!create_node
  <2>3. InC!value(t) \in CValue
    BY <1>1, <1>v DEF InC!create_node
  <2>4. c_node' \in [Cells -> [data : CValue \cup {NULL}, next : Cells \cup {NULL}, marked : BOOLEAN]]
    BY <2>2, <2>3 DEF CTypes
  <2>5. c_heap' \subseteq Cells /\ c_new' \in [InC!Thread -> Cells \cup {NULL}]
    BY <1>1, <2>1 DEF InC!create_node, CTypes
  <2> QED BY <1>1, <2>4, <2>5 DEF InC!create_node, InC!Goto, CTypes, CPlaces
<1>2. CASE InC!LoadHead(t) \/ InC!PushFails(t)
  <2>1. /\ c_pc' \in [InC!Thread -> CPlaces]
        /\ \A u \in ListPushers : c_pc'[u] \in {"insert", "load", "push"}
    <3>1. PICK place \in {"load", "push"} : c_pc' = [c_pc EXCEPT ![t] = place]
      <4>1. InC!LoadHead(t) => c_pc' = [c_pc EXCEPT ![t] = "push"]
        BY DEF InC!LoadHead, InC!Goto
      <4>2. InC!PushFails(t) /\ marks => c_pc' = [c_pc EXCEPT ![t] = "push"]
        BY DEF InC!PushFails, CTypes
      <4>3. InC!PushFails(t) /\ ~marks => c_pc' = [c_pc EXCEPT ![t] = "load"]
        BY DEF InC!PushFails, InC!Goto
      <4> QED BY <1>2, <4>1, <4>2, <4>3
    <3>2. place \in CPlaces
      BY DEF CPlaces
    <3> QED BY <3>1, <3>2 DEF CTypes
  <2>2. \/ InC!Expects(t)
        \/ UNCHANGED <<marks, c_head, c_node, c_heap, c_round, InC!locals, found, c_inserted, c_removed>>
    BY <1>2 DEF InC!LoadHead, InC!PushFails
  <2>3. CASE InC!Expects(t)
    <3>1. c_node' \in [Cells -> [data : CValue \cup {NULL}, next : Cells \cup {NULL}, marked : BOOLEAN]]
      BY <2>3 DEF InC!Expects, CTypes
    <3>2. c_oldHead' \in [InC!Thread -> Cells \cup {NULL}]
      BY <2>3 DEF InC!Expects, CTypes
    <3> QED BY <2>1, <2>3, <3>1, <3>2 DEF InC!Expects, CTypes
  <2>4. CASE UNCHANGED <<marks, c_head, c_node, c_heap, c_round, InC!locals, found, c_inserted, c_removed>>
    BY <2>1, <2>4 DEF InC!locals, CTypes
  <2> QED BY <2>2, <2>3, <2>4
<1>3. CASE InC!Push(t)
  <2>1. InC!value(t) \in CValue /\ c_round[t] + 1 \in 1..(Rounds + 1)
    BY <1>3, <1>v DEF InC!Push
  <2>2. c_head' \in Cells \cup {NULL} /\ c_inserted' \subseteq CValue /\ c_removed' \subseteq c_inserted'
    BY <1>3, <2>1 DEF InC!Push, CTypes
  <2>3. /\ c_pc' \in [InC!Thread -> CPlaces]
        /\ c_round' \in [InC!Thread -> 1..(Rounds + 1)]
        /\ \A u \in ListPushers : c_pc'[u] \in {"insert", "load", "push"}
    BY <1>3, <1>o, <2>1 DEF InC!Push, InC!Goto, CTypes, CPlaces, InC!Thread
  <2> QED BY <1>3, <2>2, <2>3 DEF InC!Push, InC!locals, CTypes
<1>4. CASE \/ InC!SearchBegins(t) \/ InC!DeleteBegins(t) \/ InC!MarkFails(t) \/ InC!UnlinkFails(t)
  <2>1. t \notin ListPushers
    BY <1>4 DEF InC!SearchBegins, InC!DeleteBegins, InC!MarkFails, InC!UnlinkFails, CTypes
  <2>2. PICK place \in CPlaces : c_pc' = [c_pc EXCEPT ![t] = place]
    BY <1>4 DEF InC!SearchBegins, InC!DeleteBegins, InC!MarkFails, InC!UnlinkFails, InC!Goto, CPlaces
  <2>3. /\ c_pc' \in [InC!Thread -> CPlaces]
        /\ \A u \in ListPushers : c_pc'[u] \in {"insert", "load", "push"}
    BY <2>1, <2>2 DEF CTypes
  <2>4. /\ InC!Unchanged /\ UNCHANGED <<succ, found, c_inserted, c_removed>>
        /\ curr' = curr \/ curr' = [curr EXCEPT ![t] = c_head]
        /\ c_prev' = c_prev \/ c_prev' = [c_prev EXCEPT ![t] = NULL]
    BY <1>4 DEF InC!SearchBegins, InC!DeleteBegins, InC!MarkFails, InC!UnlinkFails
  <2> QED BY <2>3, <2>4 DEF InC!Unchanged, CTypes
<1>5. CASE InC!SearchMoves(t)
  <2>1. c_node[curr[t]].next \in Cells \cup {NULL}
    BY <1>5, <1>n DEF InC!SearchMoves, CTypes
  <2> QED BY <1>5, <2>1 DEF InC!SearchMoves, InC!Unchanged, CTypes
<1>6. CASE InC!SearchReturns(t)
  <2>1. c_round[t] + 1 \in 1..(Rounds + 1)
    BY <1>6, <1>v DEF InC!SearchReturns, InC!Visiting
  <2>2. /\ c_pc' \in [InC!Thread -> CPlaces]
        /\ \A u \in ListPushers : c_pc'[u] \in {"insert", "load", "push"}
    <3>1. t \notin ListPushers
      BY <1>6 DEF InC!SearchReturns, InC!Visiting, CTypes
    <3>2. PICK place \in CPlaces : c_pc' = [c_pc EXCEPT ![t] = place]
      BY <1>6 DEF InC!SearchReturns, InC!Goto, CPlaces
    <3> QED BY <3>1, <3>2 DEF CTypes
  <2>3. c_round' \in [InC!Thread -> 1..(Rounds + 1)] /\ found' \in [InC!Thread -> BOOLEAN]
    <3>1. InC!Here(t) \in BOOLEAN
      BY DEF InC!Here
    <3> QED BY <1>6, <2>1, <3>1 DEF InC!SearchReturns, CTypes
  <2> QED BY <1>6, <2>2, <2>3 DEF InC!SearchReturns, InC!locals, CTypes
<1>7. CASE InC!LoadNext(t)
  <2>1. PICK n \in Cells \cup {NULL} : n = c_node[curr[t]].next
    BY <1>7, <1>n DEF InC!LoadNext, CTypes
  <2>2. /\ succ' = [succ EXCEPT ![t] = n] /\ InC!Unchanged
        /\ UNCHANGED <<found, c_inserted, c_removed>> /\ c_pc[t] = "next"
        /\ \/ /\ \E place \in CPlaces : c_pc' = [c_pc EXCEPT ![t] = place]
              /\ UNCHANGED <<c_prev, curr>>
           \/ /\ c_prev' = [c_prev EXCEPT ![t] = curr[t]]
              /\ curr' = [curr EXCEPT ![t] = n]
              /\ UNCHANGED c_pc
    <3>1. (IF marks THEN "mark" ELSE "unlink") \in CPlaces
      BY DEF CPlaces
    <3> QED BY <1>7, <2>1, <3>1 DEF InC!LoadNext, InC!Goto
  <2>3. /\ c_pc' \in [InC!Thread -> CPlaces]
        /\ \A u \in ListPushers : c_pc'[u] \in {"insert", "load", "push"}
    <3>1. t \notin ListPushers
      BY <2>2 DEF CTypes
    <3>2. PICK place \in CPlaces : c_pc' = [c_pc EXCEPT ![t] = place]
      <4>1. c_pc = [c_pc EXCEPT ![t] = "next"] /\ "next" \in CPlaces
        BY <2>2 DEF CTypes, CPlaces
      <4>2. CASE c_pc' = c_pc
        BY <4>1, <4>2
      <4> QED BY <2>2, <4>2
    <3> QED BY <3>1, <3>2 DEF CTypes
  <2>4. /\ succ' \in [InC!Thread -> Cells \cup {NULL}]
        /\ c_prev' \in [InC!Thread -> Cells \cup {NULL}]
        /\ curr' \in [InC!Thread -> Cells \cup {NULL}]
    BY <2>2 DEF CTypes
  <2> QED BY <2>2, <2>3, <2>4 DEF InC!Unchanged, CTypes
<1>8. CASE InC!Mark(t)
  <2>1. /\ c_pc' \in [InC!Thread -> CPlaces]
        /\ \A u \in ListPushers : c_pc'[u] \in {"insert", "load", "push"}
    BY <1>8 DEF InC!Mark, InC!Goto, CTypes, CPlaces
  <2>2. c_node' \in [Cells -> [data : CValue \cup {NULL}, next : Cells \cup {NULL}, marked : BOOLEAN]]
    <3>1. ASSUME NEW a \in Cells
          PROVE  c_node'[a] = c_node[a] \/ c_node'[a] = [c_node[a] EXCEPT !.marked = TRUE]
      BY <1>8 DEF InC!Mark, CTypes
    <3>2. ASSUME NEW a \in Cells
          PROVE  c_node'[a] \in [data : CValue \cup {NULL}, next : Cells \cup {NULL}, marked : BOOLEAN]
      BY <3>1 DEF CTypes
    <3>3. c_node' = [a \in Cells |-> c_node'[a]]
      BY <1>8 DEF InC!Mark, CTypes
    <3> QED BY <3>2, <3>3
  <2> QED BY <1>8, <2>1, <2>2 DEF InC!Mark, InC!locals, CTypes
<1>9. CASE InC!Unlink(t)
  <2>1. InC!value(t) \in c_inserted
    BY <1>9, CIsThere DEF InC!Unlink, CInserted
  <2>2. /\ c_head' \in Cells \cup {NULL}
        /\ c_node' \in [Cells -> [data : CValue \cup {NULL}, next : Cells \cup {NULL}, marked : BOOLEAN]]
    BY <1>9 DEF InC!Unlink, CTypes
  <2>3. /\ c_pc' \in [InC!Thread -> CPlaces]
        /\ \A u \in ListPushers : c_pc'[u] \in {"insert", "load", "push"}
    BY <1>9 DEF InC!Unlink, InC!Goto, CTypes, CPlaces
  <2>4. c_removed' \subseteq c_inserted'
    BY <1>9, <2>1 DEF InC!Unlink, CTypes
  <2> QED BY <1>9, <2>2, <2>3, <2>4 DEF InC!Unlink, InC!locals, CTypes
<1>10. CASE InC!DeleteReturns(t)
  BY <1>10 DEF InC!DeleteReturns, InC!Goto, InC!locals, CTypes, CPlaces
<1> QED BY <1>1, <1>2, <1>3, <1>4, <1>5, <1>6, <1>7, <1>8, <1>9, <1>10 DEF InC!Step

\* Every action keeps what is inserted to the rounds up to now.
LEMMA CRoundsKept ==
    ASSUME CTypes, CRounds, NEW t \in InC!Thread, InC!Step(t)
    PROVE  CRounds'
<1> USE SizesAssumption
<1>t. /\ c_pc \in [InC!Thread -> CPlaces] /\ c_round \in [InC!Thread -> 1..(Rounds + 1)]
      /\ t \in ListPushers => c_pc[t] \in {"insert", "load", "push"}
      /\ t \in Owners \cup ListPushers
  BY DEF CTypes, InC!Thread
<1> USE DEF InC!value, InC!Goto, InC!Runs, CRounds, CInserted
<1>1. CASE InC!create_node(t)
  BY <1>t, <1>1 DEF InC!create_node
<1>2. CASE InC!LoadHead(t) \/ InC!PushFails(t)
  BY <1>t, <1>2 DEF InC!LoadHead, InC!PushFails, InC!Expects
<1>3. CASE InC!Push(t)
  <2>1. CASE t \in Owners
    BY <1>t, <1>3, <2>1 DEF InC!Push
  <2>2. CASE t \notin Owners
    BY <1>t, <1>3, <2>2 DEF InC!Push
  <2> QED BY <2>1, <2>2
<1>4. CASE \/ InC!SearchBegins(t) \/ InC!DeleteBegins(t) \/ InC!MarkFails(t) \/ InC!UnlinkFails(t)
  BY <1>t, <1>4 DEF InC!SearchBegins, InC!DeleteBegins, InC!MarkFails, InC!UnlinkFails, InC!Unchanged
<1>5. CASE InC!SearchMoves(t)
  BY <1>5 DEF InC!SearchMoves, InC!Unchanged
<1>6. CASE InC!SearchReturns(t)
  BY <1>t, <1>6 DEF InC!SearchReturns, InC!Visiting
<1>7. CASE InC!LoadNext(t)
  <2>1. /\ c_round' = c_round /\ c_inserted' = c_inserted /\ c_removed' = c_removed
        /\ c_pc[t] = "next"
        /\ c_pc' = [c_pc EXCEPT ![t] = "mark"] \/ c_pc' = [c_pc EXCEPT ![t] = "unlink"] \/ c_pc' = c_pc
    BY <1>7 DEF InC!LoadNext, InC!Unchanged
  <2> QED BY <1>t, <2>1
<1>8. CASE InC!Mark(t)
  BY <1>t, <1>8 DEF InC!Mark
<1>9. CASE InC!Unlink(t)
  BY <1>t, <1>9 DEF InC!Unlink
<1>10. CASE InC!DeleteReturns(t)
  BY <1>t, <1>10 DEF InC!DeleteReturns
<1> QED BY <1>1, <1>2, <1>3, <1>4, <1>5, <1>6, <1>7, <1>8, <1>9, <1>10 DEF InC!Step

\* Every action keeps what is removed to the rounds up to now, if delete finds its value.
LEMMA CRemovalsKept ==
    ASSUME CTypes, CRounds, CRemovals, NEW t \in InC!Thread, InC!Step(t),
           InC!DeleteReturns(t) => c_pc[t] = "free"
    PROVE  CRemovals'
<1> USE SizesAssumption
<1>t. /\ c_pc \in [InC!Thread -> CPlaces] /\ c_round \in [InC!Thread -> 1..(Rounds + 1)]
      /\ t \in ListPushers => c_pc[t] \in {"insert", "load", "push"}
      /\ t \in Owners \cup ListPushers
  BY DEF CTypes, InC!Thread
<1> USE DEF InC!value, InC!Goto, InC!Runs, CRounds, CRemovals, CRemoved
<1>1. CASE InC!create_node(t)
  BY <1>t, <1>1 DEF InC!create_node
<1>2. CASE InC!LoadHead(t) \/ InC!PushFails(t)
  BY <1>t, <1>2 DEF InC!LoadHead, InC!PushFails, InC!Expects
<1>3. CASE InC!Push(t)
  <2>1. CASE t \in Owners
    BY <1>t, <1>3, <2>1 DEF InC!Push
  <2>2. CASE t \notin Owners
    BY <1>t, <1>3, <2>2 DEF InC!Push
  <2> QED BY <2>1, <2>2
<1>4. CASE \/ InC!SearchBegins(t) \/ InC!DeleteBegins(t) \/ InC!MarkFails(t) \/ InC!UnlinkFails(t)
  BY <1>t, <1>4 DEF InC!SearchBegins, InC!DeleteBegins, InC!MarkFails, InC!UnlinkFails, InC!Unchanged
<1>5. CASE InC!SearchMoves(t)
  BY <1>5 DEF InC!SearchMoves, InC!Unchanged
<1>6. CASE InC!SearchReturns(t)
  <2>1. c_inserted' = c_inserted /\ c_removed' = c_removed /\ t \in Owners
    BY <1>t, <1>6 DEF InC!SearchReturns, InC!Visiting
  <2>2. CASE c_pc[t] = "visit"
    <3>1. c_pc' = [c_pc EXCEPT ![t] = "delete"] /\ c_round' = c_round
      BY <1>6, <2>2 DEF InC!SearchReturns
    <3> QED BY <1>t, <2>1, <2>2, <3>1
  <2>3. CASE c_pc[t] = "revisit"
    <3>1. c_pc' = [c_pc EXCEPT ![t] = "insert"] /\ c_round' = [c_round EXCEPT ![t] = @ + 1]
      BY <1>6, <2>3 DEF InC!SearchReturns
    <3>2. ASSUME NEW u \in InC!Thread, NEW k \in 1..Rounds, u # t
          PROVE  c_round'[u] = c_round[u] /\ (CRemoved(u)' <=> CRemoved(u))
      BY <1>t, <3>1, <3>2
    <3>3. /\ c_round[t] \in Int /\ c_round'[t] = c_round[t] + 1
          /\ CRemoved(t) /\ ~CRemoved(t)'
      BY <1>t, <2>3, <3>1
    <3>4. ASSUME NEW k \in 1..Rounds
          PROVE  <<t, k>> \in c_removed' <=> k < c_round'[t]
      <4>1. <<t, k>> \in c_removed <=> k <= c_round[t]
        BY <2>1, <3>3
      <4> QED BY <2>1, <3>3, <4>1
    <3> QED BY <2>1, <3>2, <3>3, <3>4
  <2> QED BY <1>6, <2>2, <2>3 DEF InC!SearchReturns, InC!Visiting
<1>7. CASE InC!LoadNext(t)
  <2>1. /\ c_round' = c_round /\ c_inserted' = c_inserted /\ c_removed' = c_removed
        /\ c_pc[t] = "next"
        /\ c_pc' = [c_pc EXCEPT ![t] = "mark"] \/ c_pc' = [c_pc EXCEPT ![t] = "unlink"] \/ c_pc' = c_pc
    BY <1>7 DEF InC!LoadNext, InC!Unchanged
  <2> QED BY <1>t, <2>1
<1>8. CASE InC!Mark(t)
  BY <1>t, <1>8 DEF InC!Mark
<1>9. CASE InC!Unlink(t)
  BY <1>t, <1>9 DEF InC!Unlink
<1>10. CASE InC!DeleteReturns(t)
  BY <1>t, <1>10 DEF InC!DeleteReturns
<1> QED BY <1>1, <1>2, <1>3, <1>4, <1>5, <1>6, <1>7, <1>8, <1>9, <1>10 DEF InC!Step

\* The thread that deletes may be alone.
LEMMA CHasOneOwner ==
    ASSUME OneOwner, NEW t \in Owners
    PROVE  t \notin ListPushers /\ \A u \in Owners : u = t
BY NamesAssumption DEF OneOwner

\* What a step of one thread has to keep.
LEMMA CRanksKept ==
    ASSUME CTypes, CRounds, NEW S, NEW rank, CRanked(S, rank), NEW t \in InC!Thread,
           NEW T, NEW above, Chain(InC!Links', NULL, c_head', T, above),
           CHeap(T)', CHolds(T, t)', \A u \in Owners : CWalks(T, above, u)',
           \A u \in InC!Thread \ {t} : /\ c_pc'[u] = c_pc[u] /\ c_round'[u] = c_round[u]
                                       /\ c_new'[u] = c_new[u] /\ c_oldHead'[u] = c_oldHead[u]
                                       /\ curr'[u] = curr[u],
           \A a \in c_heap \ S : c_node[a].data # InC!value(t) =>
                                    a \in c_heap' \ T /\ c_node'[a] = c_node[a]
    PROVE  CRanked(T, above)'
<1>1. ASSUME NEW u \in InC!Thread \ {t}
      PROVE  CHolds(T, u)'
  <2>1. CHolds(S, u) /\ InC!value(u) # InC!value(t) /\ InC!value(u)' = InC!value(u)
    BY CHasValue DEF CRanked, InC!value
  <2>2. CPushing(u)' = CPushing(u) /\ (CPushing(u) \/ c_pc[u] = "push" => CPushing(u))
    BY DEF CPushing
  <2>3. CPushing(u) => c_new[u] \in c_heap' \ T /\ c_node'[c_new[u]] = c_node[c_new[u]]
    BY <2>1 DEF CHolds
  <2>4. c_pc[u] = "free" => curr[u] \in c_heap' \ T /\ c_node'[curr[u]] = c_node[curr[u]]
    BY <2>1 DEF CHolds
  <2>5. c_pc[u] = "push" => CPushing(u)
    BY DEF CPushing
  <2> QED BY <2>1, <2>2, <2>3, <2>4, <2>5 DEF CHolds
<1>2. \A u \in InC!Thread : CHolds(T, u)'
  BY <1>1
<1> QED BY <1>2 DEF CRanked

\* A node that is no longer in the list, or not yet, is one that its thread holds.
LEMMA CHeldData ==
    ASSUME NEW S, NEW rank, CRanked(S, rank), NEW t \in InC!Thread, NEW a, COwns(t, a)
    PROVE  a \in c_heap \ S /\ c_node[a].data = InC!value(t)
BY DEF CRanked, COwns, CHolds

\* An owner that has not removed its value finds it from the head on.
LEMMA CAheadOfAll ==
    ASSUME CTypes, CRounds, CRemovals, NEW S, NEW rank, CRanked(S, rank), NEW t \in Owners,
           CInserted(t), ~CRemoved(t)
    PROVE  /\ \E a \in S : c_node[a].data = InC!value(t)
           /\ c_head \in S /\ \A a \in S : rank[a] <= rank[c_head]
<1>1. InC!value(t) \in c_inserted \ c_removed
  BY CIsThere, CIsGone DEF CInserted, InC!Thread
<1>2. \E a \in S : c_node[a].data = InC!value(t)
  BY <1>1 DEF CRanked, CHeap
<1>3. \A a \in S : c_head # NULL /\ rank[a] <= rank[c_head]
  BY DEF CRanked, Chain
<1>4. c_head \in S \cup {NULL}
  BY DEF CRanked, Chain
<1> QED BY <1>2, <1>3, <1>4

\* It is not passed over.
LEMMA CAheadStill ==
    ASSUME CTypes, CRounds, CRemovals, NEW S, NEW rank, CRanked(S, rank), NEW t \in Owners,
           CInserted(t), ~CRemoved(t), CAhead(S, rank, t), c_node[curr[t]].data # InC!value(t)
    PROVE  /\ c_node[curr[t]].next \in S
           /\ \A a \in S : c_node[a].data = InC!value(t) => rank[a] <= rank[c_node[curr[t]].next]
<1>1. PICK c \in S : c = curr[t]
  BY DEF CAhead
<1>2. /\ S \subseteq Cells /\ InC!Links[c] = c_node[c].next
      /\ \A a \in S : rank[a] \in Nat
      /\ \A a \in S : rank[a] = rank[c] => a = c
      /\ InC!Links[c] \in S \cup {NULL}
      /\ \A v \in S : rank[v] < rank[c] => InC!Links[c] # NULL /\ rank[v] <= rank[InC!Links[c]]
  <2>1. DOMAIN InC!Links = Cells
    BY DEF InC!Links
  <2>2. S \subseteq Cells /\ Chain(InC!Links, NULL, c_head, S, rank)
    BY <2>1 DEF CRanked, Chain
  <2>3. InC!Links[c] = c_node[c].next
    BY <2>2 DEF InC!Links
  <2>4. \A a \in S : rank[a] \in Nat
    BY <2>1, <2>2 DEF Chain
  <2> QED BY <2>2, <2>3, <2>4 DEF Chain
<1>3. PICK v \in S : c_node[v].data = InC!value(t)
  BY CAheadOfAll
<1>4. ASSUME NEW a \in S, c_node[a].data = InC!value(t)
      PROVE  rank[a] < rank[c]
  <2>1. rank[a] <= rank[c] /\ a # c
    BY <1>1, <1>4 DEF CAhead
  <2> QED BY <1>2, <2>1
<1> QED BY <1>1, <1>2, <1>3, <1>4

\* The steps of search, and those of delete that change nothing that is shared.
LEMMA CAtWork ==
    ASSUME OneOwner, CTypes, CRounds, CRemovals, NEW S, NEW rank, CRanked(S, rank), NEW t \in InC!Thread,
           \/ InC!SearchBegins(t) \/ InC!SearchMoves(t) \/ InC!SearchReturns(t)
           \/ InC!DeleteBegins(t) \/ InC!LoadNext(t) \/ InC!MarkFails(t) \/ InC!UnlinkFails(t)
    PROVE  CRanked(S, rank)'
<1> USE DEF InC!Goto
<1>1. /\ c_head' = c_head /\ c_node' = c_node /\ c_heap' = c_heap /\ c_new' = c_new
      /\ c_oldHead' = c_oldHead /\ c_inserted' = c_inserted /\ c_removed' = c_removed
      /\ \A u \in InC!Thread \ {t} : /\ c_pc'[u] = c_pc[u] /\ c_round'[u] = c_round[u]
                                     /\ curr'[u] = curr[u]
  BY DEF CTypes, InC!SearchBegins, InC!SearchMoves, InC!SearchReturns, InC!Visiting,
         InC!DeleteBegins, InC!LoadNext, InC!MarkFails, InC!UnlinkFails, InC!Unchanged, InC!locals
<1>2. c_pc[t] \in {"search", "visit", "delete", "next", "mark", "unlink", "again", "revisit"}
  BY DEF InC!SearchBegins, InC!SearchMoves, InC!SearchReturns, InC!Visiting,
         InC!DeleteBegins, InC!LoadNext, InC!MarkFails, InC!UnlinkFails
<1>3. /\ c_pc[t] \in CPlaces /\ t \in Owners
      /\ \A u \in Owners : u = t
  BY <1>2, CHasOneOwner DEF CTypes, InC!Thread
<1>4. c_pc'[t] \in {"visit", "delete", "next", "mark", "unlink", "revisit", "insert"}
  BY <1>2 DEF CTypes, InC!SearchBegins, InC!SearchMoves, InC!SearchReturns, InC!Visiting,
         InC!DeleteBegins, InC!LoadNext, InC!MarkFails, InC!UnlinkFails, InC!Unchanged, InC!locals
<1>5. c_pc[t] \in {"next", "mark", "unlink"} =>
         c_pc'[t] \in {"next", "mark", "unlink"} /\ c_round'[t] = c_round[t]
  BY DEF CTypes, InC!SearchBegins, InC!SearchMoves, InC!SearchReturns, InC!Visiting,
         InC!DeleteBegins, InC!LoadNext, InC!MarkFails, InC!UnlinkFails, InC!Unchanged, InC!locals
<1>6. CHeap(S)'
  <2>0. CHeap(S)
    BY DEF CRanked
  <2>1. ASSUME NEW a \in c_heap, a \notin S
        PROVE  \E u \in InC!Thread : COwns(u, a)'
    <3>1. PICK u \in InC!Thread : COwns(u, a)
      BY <2>0, <2>1 DEF CHeap
    <3>2. u # t
      BY <1>2, <3>1 DEF COwns, CPushing
    <3>3. COwns(u, a)'
      BY <1>1, <3>1, <3>2 DEF COwns, CPushing
    <3> QED BY <3>3
  <2>2. ASSUME NEW a \in S, c_node[a].marked
        PROVE  \E u \in Owners : /\ c_pc'[u] \in {"next", "mark", "unlink"}
                                 /\ c_node[a].data = InC!value(u)'
    <3>1. c_pc[t] \in {"next", "mark", "unlink"} /\ c_node[a].data = InC!value(t)
      BY <1>3, <2>0, <2>2 DEF CHeap
    <3>2. c_node[a].data = InC!value(t)'
      BY <1>5, <3>1 DEF InC!value
    <3> QED BY <1>3, <1>5, <3>1, <3>2
  <2> QED BY <1>1, <2>0, <2>1, <2>2 DEF CHeap
<1>7. CHolds(S, t)'
  BY <1>4 DEF CHolds, CPushing
<1>8. CWalks(S, rank, t)'
  <2>0. CWalks(S, rank, t)
    BY <1>3 DEF CRanked
  <2>d. /\ S \subseteq Cells /\ \A a \in S : rank[a] \in Nat /\ c_node[a].next \in S \cup {NULL}
        /\ c_head \in S \cup {NULL}
    <3>1. DOMAIN InC!Links = Cells /\ \A a \in Cells : InC!Links[a] = c_node[a].next
      BY DEF InC!Links
    <3> QED BY <3>1 DEF CRanked, Chain
  <2>i. c_pc[t] # "insert" => CInserted(t)
    BY <1>2 DEF CInserted
  <2>1. CASE InC!SearchBegins(t)
    <3>1. /\ curr'[t] = c_head /\ c_round' = c_round /\ found' = found
          /\ \/ c_pc[t] = "search" /\ c_pc'[t] = "visit"
             \/ c_pc[t] = "again" /\ c_pc'[t] = "revisit"
      BY <2>1 DEF InC!SearchBegins, InC!Unchanged, CTypes
    <3>2. CASE c_pc[t] = "search"
      <4>1. c_head \in S /\ \A a \in S : rank[a] <= rank[c_head]
        BY <1>3, <2>i, <3>2, CAheadOfAll DEF CRemoved
      <4>2. CAhead(S, rank, t)'
        BY <3>1, <4>1 DEF CAhead
      <4> QED BY <3>1, <3>2, <4>2 DEF CWalks
    <3>3. CASE c_pc[t] = "again"
      BY <2>d, <3>1, <3>3 DEF CWalks
    <3> QED BY <3>1, <3>2, <3>3
  <2>2. CASE InC!SearchMoves(t)
    <3>1. /\ c_pc' = c_pc /\ c_round' = c_round /\ curr[t] # NULL
          /\ c_node[curr[t]].data # InC!value(t) /\ curr'[t] = c_node[curr[t]].next
          /\ c_pc[t] \in {"visit", "revisit"}
      BY <2>2 DEF InC!SearchMoves, InC!Here, InC!Visiting, InC!Unchanged, CTypes
    <3>2. CASE c_pc[t] = "visit"
      <4>1. CAhead(S, rank, t)
        BY <2>0, <3>2 DEF CWalks
      <4>2. /\ c_node[curr[t]].next \in S
            /\ \A a \in S : c_node[a].data = InC!value(t) => rank[a] <= rank[c_node[curr[t]].next]
        BY <1>3, <2>i, <3>1, <3>2, <4>1, CAheadStill DEF CRemoved
      <4>3. CAhead(S, rank, t)'
        BY <1>1, <3>1, <4>2 DEF CAhead, InC!value
      <4> QED BY <3>1, <3>2, <4>3 DEF CWalks
    <3>3. CASE c_pc[t] = "revisit"
      <4>1. curr[t] \in S
        BY <2>0, <3>1, <3>3 DEF CWalks
      <4> QED BY <2>d, <3>1, <3>3, <4>1 DEF CWalks
    <3> QED BY <3>1, <3>2, <3>3
  <2>3. CASE InC!SearchReturns(t)
    <3>1. /\ found'[t] = InC!Here(t) /\ (curr[t] = NULL \/ InC!Here(t))
          /\ \/ c_pc[t] = "visit" /\ c_pc'[t] = "delete"
             \/ c_pc[t] = "revisit" /\ c_pc'[t] = "insert"
      BY <2>3 DEF InC!SearchReturns, InC!Visiting, InC!locals, CTypes
    <3>2. CASE c_pc[t] = "visit"
      <4>1. curr[t] \in S /\ NULL \notin S
        BY <2>0, <2>d, <3>2, NamesAssumption DEF CWalks, CAhead
      <4>2. found'[t]
        BY <3>1, <4>1
      <4> QED BY <3>1, <3>2, <4>2 DEF CWalks
    <3>3. CASE c_pc[t] = "revisit"
      <4>1. ~InC!Here(t)
        <5> SUFFICES ASSUME InC!Here(t) PROVE FALSE
          OBVIOUS
        <5>1. curr[t] \in S /\ c_node[curr[t]].data = InC!value(t)
          BY <2>0, <3>3 DEF CWalks, InC!Here
        <5>2. InC!value(t) \in c_inserted \ c_removed
          BY <5>1 DEF CRanked, CHeap
        <5>3. InC!value(t) \in c_removed
          BY <1>3, <3>3, CIsGone DEF CRemoved
        <5> QED BY <5>2, <5>3
      <4>2. ~found'[t]
        BY <3>1, <4>1
      <4> QED BY <3>1, <3>3, <4>2 DEF CWalks
    <3> QED BY <3>1, <3>2, <3>3
  <2>4. CASE InC!DeleteBegins(t)
    <3>1. /\ c_pc[t] = "delete" /\ c_pc'[t] = "next" /\ c_prev'[t] = NULL /\ curr'[t] = c_head
      BY <2>4 DEF InC!DeleteBegins, CTypes
    <3>2. c_head \in S /\ \A a \in S : rank[a] <= rank[c_head]
      BY <1>3, <2>i, <3>1, CAheadOfAll DEF CRemoved
    <3>3. CAhead(S, rank, t)'
      BY <3>1, <3>2 DEF CAhead
    <3> QED BY <3>1, <3>3 DEF CWalks
  <2>5. CASE InC!LoadNext(t)
    <3>0. /\ c_pc[t] = "next" /\ c_round' = c_round /\ succ'[t] = c_node[curr[t]].next
          /\ curr[t] # NULL
      BY <2>5 DEF InC!LoadNext, InC!Unchanged, CTypes
    <3>1. CAhead(S, rank, t) /\ c_prev[t] \in S \cup {NULL}
      BY <2>0, <3>0 DEF CWalks
    <3>2. CASE InC!Here(t)
      <4>1. /\ curr'[t] = curr[t] /\ c_prev'[t] = c_prev[t] /\ c_pc'[t] \in {"mark", "unlink"}
        BY <2>5, <3>2 DEF InC!LoadNext, CTypes
      <4>2. curr[t] \in S /\ c_node[curr[t]].data = InC!value(t)
        BY <3>1, <3>2 DEF CAhead, InC!Here
      <4> QED BY <1>1, <3>0, <3>1, <4>1, <4>2 DEF CWalks, InC!value
    <3>3. CASE ~InC!Here(t)
      <4>1. /\ curr'[t] = c_node[curr[t]].next /\ c_prev'[t] = curr[t] /\ c_pc'[t] = "next"
        BY <2>5, <3>0, <3>3 DEF InC!LoadNext, CTypes
      <4>2. c_node[curr[t]].data # InC!value(t)
        BY <3>0, <3>3 DEF InC!Here
      <4>3. /\ c_node[curr[t]].next \in S
            /\ \A a \in S : c_node[a].data = InC!value(t) => rank[a] <= rank[c_node[curr[t]].next]
        BY <1>3, <2>i, <3>0, <3>1, <4>2, CAheadStill DEF CRemoved
      <4>4. CAhead(S, rank, t)'
        BY <1>1, <3>0, <4>1, <4>3 DEF CAhead, InC!value
      <4>5. curr[t] \in S
        BY <3>1 DEF CAhead
      <4> QED BY <4>1, <4>4, <4>5 DEF CWalks
    <3> QED BY <3>2, <3>3
  <2>6. CASE InC!MarkFails(t)
    <3>1. /\ c_pc[t] = "mark" /\ c_pc'[t] = "next" /\ c_round' = c_round
          /\ curr' = curr /\ c_prev' = c_prev
      BY <2>6 DEF InC!MarkFails, InC!Unchanged, CTypes
    <3>2. curr[t] \in S /\ c_node[curr[t]].data = InC!value(t) /\ c_prev[t] \in S \cup {NULL}
      BY <2>0, <3>1 DEF CWalks
    <3>3. \A a \in S : c_node[a].data = InC!value(t) => a = curr[t]
      BY <3>2 DEF CRanked, CHeap
    <3>4. rank[curr[t]] <= rank[curr[t]]
      BY <2>d, <3>2
    <3>5. CAhead(S, rank, t)'
      BY <1>1, <3>1, <3>2, <3>3, <3>4 DEF CAhead, InC!value
    <3> QED BY <3>1, <3>2, <3>5 DEF CWalks
  <2>7. CASE InC!UnlinkFails(t)
    <3>1. /\ c_pc[t] = "unlink" /\ c_pc'[t] = "next" /\ c_round' = c_round
          /\ curr'[t] = c_head /\ c_prev' = c_prev
      BY <2>7 DEF InC!UnlinkFails, InC!Unchanged, CTypes
    <3>2. c_prev[t] \in S \cup {NULL}
      BY <2>0, <3>1 DEF CWalks
    <3>3. c_head \in S /\ \A a \in S : rank[a] <= rank[c_head]
      BY <1>3, <2>i, <3>1, CAheadOfAll DEF CRemoved
    <3>4. CAhead(S, rank, t)'
      BY <3>1, <3>3 DEF CAhead
    <3> QED BY <3>1, <3>2, <3>4 DEF CWalks
  <2> QED BY <2>1, <2>2, <2>3, <2>4, <2>5, <2>6, <2>7
<1>9. Chain(InC!Links', NULL, c_head', S, rank)
  <2>1. InC!Links' = InC!Links
    BY <1>1 DEF InC!Links
  <2> QED BY <1>1, <2>1 DEF CRanked
<1>10. \A a \in c_heap \ S : a \in c_heap' \ S /\ c_node'[a] = c_node[a]
  BY <1>1
<1>11. \A u \in Owners : CWalks(S, rank, u)'
  BY <1>3, <1>8
<1> HIDE DEF InC!Goto
<1> QED BY <1>1, <1>6, <1>7, <1>9, <1>10, <1>11, CRanksKept

\* An owner keeps what it knows about the nodes, if others are pushed in front of them.
LEMMA CWalksKept ==
    ASSUME NEW S, NEW rank, NEW u, CWalks(S, rank, u),
           NEW T, NEW above, S \subseteq T, \A a \in S : above[a] = rank[a] /\ c_node'[a] = c_node[a],
           \A a \in T \ S : c_node'[a].data # InC!value(u),
           c_pc'[u] = c_pc[u], c_round'[u] = c_round[u], curr'[u] = curr[u],
           c_prev'[u] = c_prev[u], succ'[u] = succ[u], found'[u] = found[u]
    PROVE  CWalks(T, above, u)'
<1>1. InC!value(u)' = InC!value(u)
  BY DEF InC!value
<1>2. CAhead(S, rank, u) => CAhead(T, above, u)'
  <2> SUFFICES ASSUME CAhead(S, rank, u) PROVE CAhead(T, above, u)'
    OBVIOUS
  <2>1. curr[u] \in S /\ \A a \in S : c_node[a].data = InC!value(u) => rank[a] <= rank[curr[u]]
    BY DEF CAhead
  <2>2. ASSUME NEW a \in T, c_node'[a].data = InC!value(u)
        PROVE  above[a] <= above[curr[u]]
    <3>1. a \in S
      BY <2>2
    <3> QED BY <2>1, <2>2, <3>1
  <2> QED BY <1>1, <2>1, <2>2 DEF CAhead
<1>3. c_pc[u] \in {"mark", "unlink"} =>
          curr[u] \in S /\ c_node[curr[u]].data = InC!value(u) /\ succ[u] = c_node[curr[u]].next
  BY DEF CWalks
<1> QED BY <1>1, <1>2, <1>3 DEF CWalks

\* No node has the value of a thread that is about to insert it.
LEMMA CIsNew ==
    ASSUME CTypes, CRounds, NEW S, NEW rank, CRanked(S, rank), NEW t \in InC!Thread,
           c_pc[t] = "insert", InC!Runs(t)
    PROVE  \A a \in c_heap : c_node[a].data # InC!value(t)
<1>1. InC!value(t) \notin c_inserted
  BY CIsThere DEF CInserted
<1>2. ASSUME NEW a \in c_heap
      PROVE  c_node[a].data # InC!value(t)
  <2>1. CASE a \in S
    BY <1>1, <2>1 DEF CRanked, CHeap
  <2>2. CASE a \notin S
    <3>1. PICK u \in InC!Thread : COwns(u, a)
      BY <2>2 DEF CRanked, CHeap
    <3>2. c_node[a].data = InC!value(u)
      BY <3>1, CHeldData
    <3>3. u # t
      BY <3>1 DEF COwns, CPushing
    <3> QED BY <3>2, <3>3, CHasValue
  <2> QED BY <2>1, <2>2
<1> QED BY <1>2

\* A new node is in none of the ranks.
LEMMA CCreates ==
    ASSUME CTypes, CRounds, NEW S, NEW rank, CRanked(S, rank), NEW t \in InC!Thread,
           InC!create_node(t)
    PROVE  CRanked(S, rank)'
<1>0. PICK n : n = InC!Malloc
  OBVIOUS
<1>1. /\ c_pc[t] = "insert" /\ InC!Runs(t) /\ c_pc'[t] = "load"
      /\ c_new'[t] = n /\ c_heap' = c_heap \cup {n} /\ c_head' = c_head
      /\ c_round' = c_round /\ c_inserted' = c_inserted /\ c_removed' = c_removed
      /\ c_oldHead' = c_oldHead /\ curr' = curr /\ c_prev' = c_prev /\ succ' = succ /\ found' = found
      /\ \A u \in InC!Thread \ {t} : c_pc'[u] = c_pc[u] /\ c_new'[u] = c_new[u]
      /\ c_node' = [c_node EXCEPT ![n] = [data |-> InC!value(t), next |-> NULL, marked |-> FALSE]]
  BY <1>0 DEF InC!create_node, InC!Goto, CTypes
<1>2. n \in Cells /\ n \notin c_heap /\ \A a \in c_heap : c_node[a].data # InC!value(t)
  BY <1>0, <1>1, CMalloc, CIsNew
<1>3. /\ \A a \in c_heap : a # n /\ c_node'[a] = c_node[a]
      /\ c_node'[n].data = InC!value(t) /\ ~c_node'[n].marked
      /\ S \subseteq c_heap /\ S \subseteq Cells
  BY <1>1, <1>2 DEF CTypes, CRanked, CHeap
<1>4. \A u \in InC!Thread : InC!value(u)' = InC!value(u)
  BY <1>1 DEF InC!value
<1>5. CHeap(S)'
  <2>0. CHeap(S)
    BY DEF CRanked
  <2>1. S \subseteq c_heap'
    BY <1>1, <1>3
  <2>2. {c_node'[a].data : a \in S} = c_inserted' \ c_removed'
    <3>1. \A a \in S : c_node'[a].data = c_node[a].data
      BY <1>3
    <3> QED BY <1>1, <2>0, <3>1 DEF CHeap
  <2>3. ASSUME NEW a \in c_heap', a \notin S
        PROVE  \E u \in InC!Thread : COwns(u, a)'
    <3>1. CASE a = n
      BY <1>1, <3>1 DEF COwns, CPushing
    <3>2. CASE a # n
      <4>1. a \in c_heap
        BY <1>1, <3>2
      <4>2. PICK u \in InC!Thread : COwns(u, a)
        BY <2>0, <2>3, <4>1 DEF CHeap
      <4>3. u # t
        BY <1>1, <4>2 DEF COwns, CPushing
      <4>4. COwns(u, a)'
        BY <1>1, <4>2, <4>3 DEF COwns, CPushing
      <4> QED BY <4>4
    <3> QED BY <3>1, <3>2
  <2>4. ASSUME NEW a \in c_heap', NEW b \in c_heap', c_node'[a].data = c_node'[b].data
        PROVE  a = b
    <3>1. \A c \in c_heap' : c = n \/ c \in c_heap
      BY <1>1
    <3>2. \A c, d \in c_heap : c_node[c].data = c_node[d].data => c = d
      BY <2>0 DEF CHeap
    <3> QED BY <1>2, <1>3, <2>4, <3>1, <3>2
  <2>5. ASSUME NEW a \in S, c_node'[a].marked
        PROVE  \E u \in Owners : /\ c_pc'[u] \in {"next", "mark", "unlink"}
                                 /\ c_node'[a].data = InC!value(u)'
    <3>1. c_node[a].marked /\ c_node'[a] = c_node[a]
      BY <1>3, <2>5
    <3>2. PICK u \in Owners : /\ c_pc[u] \in {"next", "mark", "unlink"}
                              /\ c_node[a].data = InC!value(u)
      BY <2>0, <3>1 DEF CHeap
    <3>3. u \in InC!Thread /\ u # t
      BY <1>1, <3>2 DEF InC!Thread
    <3> QED BY <1>1, <1>4, <3>1, <3>2, <3>3
  <2> QED BY <2>1, <2>2, <2>3, <2>4, <2>5 DEF CHeap
<1>6. CHolds(S, t)'
  <2>1. n \notin S
    BY <1>2, <1>3
  <2> QED BY <1>1, <1>3, <1>4, <2>1 DEF CHolds
<1>7. ASSUME NEW u \in Owners
      PROVE  CWalks(S, rank, u)'
  <2>1. CASE u = t
    BY <1>1, <2>1 DEF CWalks
  <2>2. CASE u # t
    <3>1. c_pc'[u] = c_pc[u] /\ CWalks(S, rank, u)
      BY <1>1, <2>2 DEF CRanked, InC!Thread
    <3>2. \A a \in S : rank[a] = rank[a] /\ c_node'[a] = c_node[a]
      BY <1>3
    <3>3. \A a \in S \ S : c_node'[a].data # InC!value(u)
      OBVIOUS
    <3> QED BY <1>1, <3>1, <3>2, <3>3, CWalksKept
  <2> QED BY <2>1, <2>2
<1>8. Chain(InC!Links', NULL, c_head', S, rank)
  <2>0. PICK other : other = InC!Links'
    OBVIOUS
  <2>1. DOMAIN other = DOMAIN InC!Links /\ \A a \in S : other[a] = InC!Links[a]
    BY <1>3, <2>0 DEF InC!Links
  <2>2. Chain(InC!Links, NULL, c_head, S, rank)
    BY DEF CRanked
  <2>3. Chain(other, NULL, c_head, S, rank)
    BY <2>1, <2>2, ChainKept
  <2> QED BY <1>1, <2>0, <2>3
<1>9. \A a \in c_heap \ S : a \in c_heap' \ S /\ c_node'[a] = c_node[a]
  BY <1>1, <1>3
<1> QED BY <1>1, <1>5, <1>6, <1>7, <1>8, <1>9, CRanksKept

\* The node that is still private gets the head as its next.
LEMMA CExpects ==
    ASSUME CTypes, CRounds, NEW S, NEW rank, CRanked(S, rank), NEW t \in InC!Thread,
           InC!LoadHead(t) \/ InC!PushFails(t)
    PROVE  CRanked(S, rank)'
<1>0. PICK n : n = c_new[t]
  OBVIOUS
<1>1. /\ CPushing(t) /\ c_pc'[t] \in {"load", "push"}
      /\ c_new' = c_new /\ c_heap' = c_heap /\ c_head' = c_head
      /\ c_round' = c_round /\ c_inserted' = c_inserted /\ c_removed' = c_removed
      /\ curr' = curr /\ c_prev' = c_prev /\ succ' = succ /\ found' = found
      /\ \A u \in InC!Thread \ {t} : c_pc'[u] = c_pc[u] /\ c_oldHead'[u] = c_oldHead[u]
      /\ \/ /\ c_node' = [c_node EXCEPT ![n].next = c_head]
            /\ c_oldHead'[t] = c_head
         \/ c_node' = c_node /\ c_pc'[t] = "load"
  BY <1>0 DEF InC!LoadHead, InC!PushFails, InC!Expects, InC!locals, InC!Goto, CTypes, CPushing
<1>2. n \in c_heap \ S /\ c_node[n].data = InC!value(t) /\ ~c_node[n].marked
  BY <1>0, <1>1 DEF CRanked, CHolds
<1>3. /\ c_heap \subseteq Cells /\ S \subseteq c_heap
      /\ \A a \in Cells : c_node[a] \in [data : CValue \cup {NULL}, next : Cells \cup {NULL}, marked : BOOLEAN]
  BY DEF CTypes, CRanked, CHeap
<1>4. /\ \A a \in Cells : a # n => c_node'[a] = c_node[a]
      /\ \A a \in Cells : c_node'[a].data = c_node[a].data /\ c_node'[a].marked = c_node[a].marked
      /\ c_pc'[t] = "push" => c_node'[n].next = c_oldHead'[t]
  BY <1>1, <1>2, <1>3 DEF CTypes
<1>5. \A u \in InC!Thread : InC!value(u)' = InC!value(u)
  BY <1>1 DEF InC!value
<1>6. CHeap(S)'
  <2>0. CHeap(S)
    BY DEF CRanked
  <2>1. {c_node'[a].data : a \in S} = c_inserted' \ c_removed'
    <3>1. \A a \in S : c_node'[a].data = c_node[a].data
      BY <1>3, <1>4
    <3> QED BY <1>1, <2>0, <3>1 DEF CHeap
  <2>2. ASSUME NEW a \in c_heap, a \notin S
        PROVE  \E u \in InC!Thread : COwns(u, a)'
    <3>1. PICK u \in InC!Thread : COwns(u, a)
      BY <2>0, <2>2 DEF CHeap
    <3>2. COwns(u, a)'
      BY <1>1, <3>1 DEF COwns, CPushing
    <3> QED BY <3>2
  <2>3. \A a, b \in c_heap : c_node'[a].data = c_node'[b].data => a = b
    BY <1>3, <1>4, <2>0 DEF CHeap
  <2>4. ASSUME NEW a \in S, c_node'[a].marked
        PROVE  \E u \in Owners : /\ c_pc'[u] \in {"next", "mark", "unlink"}
                                 /\ c_node'[a].data = InC!value(u)'
    <3>1. c_node[a].marked /\ c_node'[a].data = c_node[a].data
      BY <1>3, <1>4, <2>4
    <3>2. PICK u \in Owners : /\ c_pc[u] \in {"next", "mark", "unlink"}
                              /\ c_node[a].data = InC!value(u)
      BY <2>0, <3>1 DEF CHeap
    <3>3. u \in InC!Thread /\ u # t
      BY <1>1, <3>2 DEF InC!Thread, CPushing
    <3> QED BY <1>1, <1>5, <3>1, <3>2, <3>3
  <2> QED BY <1>1, <1>3, <2>1, <2>2, <2>3, <2>4 DEF CHeap
<1>7. CHolds(S, t)'
  BY <1>0, <1>1, <1>2, <1>3, <1>4, <1>5 DEF CHolds
<1>8. ASSUME NEW u \in Owners
      PROVE  CWalks(S, rank, u)'
  <2>1. CASE u = t
    BY <1>1, <2>1 DEF CWalks
  <2>2. CASE u # t
    <3>1. c_pc'[u] = c_pc[u] /\ CWalks(S, rank, u)
      BY <1>1, <2>2 DEF CRanked, InC!Thread
    <3>2. \A a \in S : rank[a] = rank[a] /\ c_node'[a] = c_node[a]
      BY <1>2, <1>3, <1>4
    <3>3. \A a \in S \ S : c_node'[a].data # InC!value(u)
      OBVIOUS
    <3> QED BY <1>1, <3>1, <3>2, <3>3, CWalksKept
  <2> QED BY <2>1, <2>2
<1>9. Chain(InC!Links', NULL, c_head', S, rank)
  <2>0. PICK other : other = InC!Links'
    OBVIOUS
  <2>1. DOMAIN other = DOMAIN InC!Links /\ \A a \in S : other[a] = InC!Links[a]
    BY <1>2, <1>3, <1>4, <2>0 DEF InC!Links
  <2>2. Chain(InC!Links, NULL, c_head, S, rank)
    BY DEF CRanked
  <2>3. Chain(other, NULL, c_head, S, rank)
    BY <2>1, <2>2, ChainKept
  <2> QED BY <1>1, <2>0, <2>3
<1>10. ASSUME NEW a \in c_heap \ S, c_node[a].data # InC!value(t)
       PROVE  a \in c_heap' \ S /\ c_node'[a] = c_node[a]
  BY <1>1, <1>2, <1>3, <1>4, <1>10
<1> QED BY <1>1, <1>6, <1>7, <1>8, <1>9, <1>10, CRanksKept

\* A push puts its node above all others.
LEMMA CPushes ==
    ASSUME CTypes, CRounds, NEW S, NEW rank, CRanked(S, rank), NEW t \in InC!Thread, InC!Push(t)
    PROVE  \E T \in SUBSET Cells, above \in [Cells -> Nat] : CRanked(T, above)'
<1>0. PICK n : n = c_new[t]
  OBVIOUS
<1>1. /\ c_pc[t] = "push" /\ c_head = c_oldHead[t] /\ c_head' = n
      /\ c_pc'[t] \in {"search", "insert"}
      /\ c_new' = c_new /\ c_heap' = c_heap /\ c_node' = c_node
      /\ c_inserted' = c_inserted \cup {InC!value(t)} /\ c_removed' = c_removed
      /\ c_oldHead' = c_oldHead /\ curr' = curr /\ c_prev' = c_prev /\ succ' = succ /\ found' = found
      /\ \A u \in InC!Thread \ {t} : c_pc'[u] = c_pc[u] /\ c_round'[u] = c_round[u]
      /\ t \in Owners => c_pc'[t] = "search"
  BY <1>0 DEF InC!Push, InC!HeadIsExpected, InC!locals, InC!Goto, CTypes
<1>2. /\ n \in c_heap \ S /\ c_node[n].data = InC!value(t) /\ ~c_node[n].marked
      /\ c_node[n].next = c_head
  BY <1>0, <1>1 DEF CRanked, CHolds, CPushing
<1>3. /\ c_heap \subseteq Cells /\ S \subseteq c_heap
      /\ DOMAIN InC!Links = Cells /\ \A a \in Cells : InC!Links[a] = c_node[a].next
      /\ NULL \notin Cells
  BY NamesAssumption DEF CTypes, CRanked, CHeap, InC!Links
<1>4. Chain(InC!Links, NULL, c_head, S, rank)
  BY DEF CRanked
<1>5. n \in DOMAIN InC!Links /\ n \notin S /\ InC!Links[n] = c_head /\ NULL \notin DOMAIN InC!Links
  BY <1>2, <1>3
<1>6. PICK T : T = S \cup {n}
  OBVIOUS
<1>7. \E above : Chain(InC!Links, NULL, n, T, above) /\ \A a \in S : above[a] = rank[a]
  <2>1. PICK links : links = InC!Links
    OBVIOUS
  <2>2. /\ Chain(links, NULL, c_head, S, rank) /\ NULL \notin DOMAIN links
        /\ n \in DOMAIN links /\ n \notin S /\ links[n] = c_head /\ T = S \cup {n}
    BY <1>4, <1>5, <1>6, <2>1
  <2>3. \E above : Chain(links, NULL, n, T, above) /\ \A a \in S : above[a] = rank[a]
    BY <2>2, ChainPushed
  <2> QED BY <2>1, <2>3
<1>8. PICK above : Chain(InC!Links, NULL, n, T, above) /\ \A a \in S : above[a] = rank[a]
  BY <1>7
<1>9. InC!value(t) \notin c_inserted /\ InC!value(t) \notin c_removed
  <2>1. InC!value(t) \notin c_inserted
    BY <1>1, CIsThere DEF CInserted
  <2> QED BY <2>1 DEF CTypes
<1>10. \A u \in InC!Thread \ {t} : InC!value(u)' = InC!value(u) /\ InC!value(u) # InC!value(t)
  BY <1>1, CHasValue DEF InC!value
<1>11. CHeap(T)'
  <2>0. CHeap(S)
    BY DEF CRanked
  <2>1. {c_node[a].data : a \in T} = c_inserted' \ c_removed'
    <3>1. {c_node[a].data : a \in T} = {c_node[a].data : a \in S} \cup {InC!value(t)}
      BY <1>2, <1>6
    <3> QED BY <1>1, <1>9, <2>0, <3>1 DEF CHeap
  <2>2. ASSUME NEW a \in c_heap, a \notin T
        PROVE  \E u \in InC!Thread : COwns(u, a)'
    <3>1. PICK u \in InC!Thread : COwns(u, a)
      BY <1>6, <2>0, <2>2 DEF CHeap
    <3>2. u # t
      BY <1>0, <1>1, <1>6, <2>2, <3>1 DEF COwns, CPushing
    <3>3. COwns(u, a)'
      BY <1>1, <3>1, <3>2 DEF COwns, CPushing
    <3> QED BY <3>3
  <2>3. ASSUME NEW a \in T, c_node[a].marked
        PROVE  \E u \in Owners : /\ c_pc'[u] \in {"next", "mark", "unlink"}
                                 /\ c_node[a].data = InC!value(u)'
    <3>1. a \in S
      BY <1>2, <1>6, <2>3
    <3>2. PICK u \in Owners : /\ c_pc[u] \in {"next", "mark", "unlink"}
                              /\ c_node[a].data = InC!value(u)
      BY <2>0, <2>3, <3>1 DEF CHeap
    <3>3. u \in InC!Thread \ {t}
      BY <1>1, <3>2 DEF InC!Thread
    <3> QED BY <1>1, <1>10, <3>2, <3>3
  <2>4. T \subseteq c_heap
    BY <1>2, <1>3, <1>6
  <2> QED BY <1>1, <2>0, <2>1, <2>2, <2>3, <2>4 DEF CHeap
<1>12. CHolds(T, t)'
  BY <1>1 DEF CHolds, CPushing
<1>13. ASSUME NEW u \in Owners
       PROVE  CWalks(T, above, u)'
  <2>1. CASE u = t
    BY <1>1, <2>1 DEF CWalks
  <2>2. CASE u # t
    <3>1. /\ c_pc'[u] = c_pc[u] /\ c_round'[u] = c_round[u] /\ CWalks(S, rank, u)
          /\ InC!value(u) # InC!value(t)
      BY <1>1, <1>10, <2>2 DEF CRanked, InC!Thread
    <3>2. S \subseteq T /\ \A a \in S : above[a] = rank[a] /\ c_node'[a] = c_node[a]
      BY <1>1, <1>8, <1>6
    <3>3. \A a \in T \ S : c_node'[a].data # InC!value(u)
      BY <1>1, <1>2, <1>6, <3>1
    <3> QED BY <1>1, <3>1, <3>2, <3>3, CWalksKept
  <2> QED BY <2>1, <2>2
<1>14. Chain(InC!Links', NULL, c_head', T, above)
  <2>1. InC!Links' = InC!Links
    BY <1>1 DEF InC!Links
  <2> QED BY <1>1, <1>8, <1>6, <2>1
<1>15. ASSUME NEW a \in c_heap \ S, c_node[a].data # InC!value(t)
       PROVE  a \in c_heap' \ T /\ c_node'[a] = c_node[a]
  BY <1>1, <1>2, <1>6, <1>15
<1>16. \A u \in InC!Thread \ {t} : /\ c_pc'[u] = c_pc[u] /\ c_round'[u] = c_round[u]
                                   /\ c_new'[u] = c_new[u] /\ c_oldHead'[u] = c_oldHead[u]
                                   /\ curr'[u] = curr[u]
  BY <1>1
<1>17. CRanked(T, above)'
  BY <1>11, <1>12, <1>13, <1>14, <1>15, <1>16, CRanksKept
<1>18. T \in SUBSET Cells /\ above \in [Cells -> Nat]
  BY <1>2, <1>3, <1>8, <1>6 DEF Chain
<1> QED BY <1>17, <1>18

\* A mark leaves the links as they are.
LEMMA CMarks ==
    ASSUME OneOwner, CTypes, CRounds, CRemovals, NEW S, NEW rank, CRanked(S, rank), NEW t \in InC!Thread, InC!Mark(t)
    PROVE  CRanked(S, rank)'
<1>0. PICK n : n = curr[t]
  OBVIOUS
<1>1. /\ c_pc[t] = "mark" /\ c_pc'[t] = "unlink"
      /\ c_new' = c_new /\ c_heap' = c_heap /\ c_head' = c_head
      /\ c_round' = c_round /\ c_inserted' = c_inserted /\ c_removed' = c_removed
      /\ c_oldHead' = c_oldHead /\ curr' = curr /\ c_prev' = c_prev /\ succ' = succ /\ found' = found
      /\ \A u \in InC!Thread \ {t} : c_pc'[u] = c_pc[u]
      /\ c_node' = [c_node EXCEPT ![n].marked = TRUE]
  BY <1>0 DEF InC!Mark, InC!locals, InC!Goto, CTypes
<1>2. t \in Owners /\ \A u \in Owners : u = t
  BY <1>1, CHasOneOwner DEF CTypes, InC!Thread
<1>3. /\ n \in S /\ c_node[n].data = InC!value(t) /\ c_prev[t] \in S \cup {NULL}
      /\ succ[t] = c_node[n].next
  BY <1>0, <1>1, <1>2 DEF CRanked, CWalks
<1>4. /\ c_heap \subseteq Cells /\ S \subseteq c_heap
      /\ \A a \in Cells : c_node[a] \in [data : CValue \cup {NULL}, next : Cells \cup {NULL}, marked : BOOLEAN]
  BY DEF CTypes, CRanked, CHeap
<1>5. /\ \A a \in Cells : a # n => c_node'[a] = c_node[a]
      /\ \A a \in Cells : c_node'[a].data = c_node[a].data /\ c_node'[a].next = c_node[a].next
  BY <1>1, <1>4 DEF CTypes
<1>6. \A u \in InC!Thread : InC!value(u)' = InC!value(u)
  BY <1>1 DEF InC!value
<1>7. CHeap(S)'
  <2>0. CHeap(S)
    BY DEF CRanked
  <2>1. {c_node'[a].data : a \in S} = c_inserted' \ c_removed'
    <3>1. \A a \in S : c_node'[a].data = c_node[a].data
      BY <1>4, <1>5
    <3> QED BY <1>1, <2>0, <3>1 DEF CHeap
  <2>2. ASSUME NEW a \in c_heap, a \notin S
        PROVE  \E u \in InC!Thread : COwns(u, a)'
    <3>1. PICK u \in InC!Thread : COwns(u, a)
      BY <2>0, <2>2 DEF CHeap
    <3>2. COwns(u, a)'
      BY <1>1, <3>1 DEF COwns, CPushing
    <3> QED BY <3>2
  <2>3. \A a, b \in c_heap : c_node'[a].data = c_node'[b].data => a = b
    BY <1>4, <1>5, <2>0 DEF CHeap
  <2>4. ASSUME NEW a \in S, c_node'[a].marked
        PROVE  /\ c_pc'[t] \in {"next", "mark", "unlink"}
               /\ c_node'[a].data = InC!value(t)'
    <3>1. CASE a = n
      BY <1>1, <1>3, <1>4, <1>5, <1>6, <3>1
    <3>2. CASE a # n
      <4>1. c_node[a].marked /\ c_node'[a] = c_node[a]
        BY <1>4, <1>5, <2>4, <3>2
      <4>2. c_node[a].data = InC!value(t)
        BY <1>2, <2>0, <4>1 DEF CHeap
      <4> QED BY <1>1, <1>6, <4>1, <4>2
    <3> QED BY <3>1, <3>2
  <2>5. \A a \in S : c_node'[a].marked =>
          \E u \in Owners : /\ c_pc'[u] \in {"next", "mark", "unlink"}
                            /\ c_node'[a].data = InC!value(u)'
    BY <1>2, <2>4
  <2> QED BY <1>1, <1>4, <2>1, <2>2, <2>3, <2>5 DEF CHeap
<1>8. CHolds(S, t)'
  BY <1>1 DEF CHolds, CPushing
<1>9. CWalks(S, rank, t)'
  <2>1. n \in Cells
    BY <1>3, <1>4
  <2> QED BY <1>0, <1>1, <1>3, <1>5, <1>6, <2>1 DEF CWalks
<1>10. Chain(InC!Links', NULL, c_head', S, rank)
  <2>1. InC!Links' = InC!Links
    BY <1>5 DEF InC!Links
  <2> QED BY <1>1, <2>1 DEF CRanked
<1>11. ASSUME NEW a \in c_heap \ S
       PROVE  a \in c_heap' \ S /\ c_node'[a] = c_node[a]
  BY <1>1, <1>3, <1>4, <1>5
<1>12. \A u \in Owners : CWalks(S, rank, u)'
  BY <1>2, <1>9
<1> QED BY <1>1, <1>7, <1>8, <1>10, <1>11, <1>12, CRanksKept

\* The node is taken out where prev says, which the exchange has checked.
LEMMA CUnlinks ==
    ASSUME OneOwner, CTypes, CRounds, CRemovals, NEW S, NEW rank, CRanked(S, rank), NEW t \in InC!Thread,
           InC!Unlink(t), NEW n, n = curr[t]
    PROVE  CRanked(S \ {n}, rank)'
<1>0. n = curr[t]
  OBVIOUS
<1>1. /\ c_pc[t] = "unlink" /\ c_pc'[t] = "free"
      /\ c_new' = c_new /\ c_heap' = c_heap
      /\ c_round' = c_round /\ c_inserted' = c_inserted
      /\ c_removed' = c_removed \cup {InC!value(t)}
      /\ c_oldHead' = c_oldHead /\ curr' = curr
      /\ \A u \in InC!Thread \ {t} : c_pc'[u] = c_pc[u]
  BY DEF InC!Unlink, InC!locals, InC!Goto, CTypes
<1>2. t \in Owners /\ \A u \in Owners : u = t
  BY <1>1, CHasOneOwner DEF CTypes, InC!Thread
<1>3. /\ n \in S /\ c_node[n].data = InC!value(t) /\ c_prev[t] \in S \cup {NULL}
      /\ succ[t] = c_node[n].next
  BY <1>0, <1>1, <1>2 DEF CRanked, CWalks
<1>4. /\ c_heap \subseteq Cells /\ S \subseteq c_heap
      /\ \A a \in Cells : c_node[a] \in [data : CValue \cup {NULL}, next : Cells \cup {NULL}, marked : BOOLEAN]
      /\ DOMAIN InC!Links = Cells /\ \A a \in Cells : InC!Links[a] = c_node[a].next
      /\ NULL \notin Cells
  BY NamesAssumption DEF CTypes, CRanked, CHeap, InC!Links
<1>5. \/ /\ c_prev[t] = NULL /\ c_head = n /\ c_head' = InC!Links[n] /\ c_node' = c_node
      \/ /\ c_prev[t] \in S /\ InC!Links[c_prev[t]] = n /\ c_head' = c_head
         /\ c_node' = [c_node EXCEPT ![c_prev[t]].next = InC!Links[n]]
  <2>1. InC!Links[n] = succ[t] /\ NULL \notin S
    BY <1>3, <1>4
  <2>2. CASE c_prev[t] = NULL
    BY <1>0, <2>1, <2>2 DEF InC!Unlink, InC!StillThere
  <2>3. CASE c_prev[t] # NULL
    <3>1. c_prev[t] \in S /\ c_prev[t] \in Cells
      BY <1>3, <1>4, <2>3
    <3> QED BY <1>0, <1>4, <2>1, <2>3, <3>1 DEF InC!Unlink, InC!StillThere
  <2> QED BY <2>2, <2>3
<1>6. /\ \A a \in Cells : c_node'[a].data = c_node[a].data /\ c_node'[a].marked = c_node[a].marked
      /\ \A a \in Cells \ S : c_node'[a] = c_node[a]
  BY <1>4, <1>5 DEF CTypes
<1>7. PICK T : T = S \ {n}
  OBVIOUS
<1>8. \A u \in InC!Thread : InC!value(u)' = InC!value(u)
  BY <1>1 DEF InC!value
<1>9. Chain(InC!Links', NULL, c_head', T, rank)
  <2>0. Chain(InC!Links, NULL, c_head, S, rank)
    BY DEF CRanked
  <2>1. CASE c_prev[t] = NULL
    <3>0. PICK links : links = InC!Links
      OBVIOUS
    <3>1. c_head = n /\ c_head' = links[n] /\ c_node' = c_node /\ n # NULL
      BY <1>3, <1>4, <1>5, <2>1, <3>0
    <3>2. Chain(links, NULL, n, S, rank)
      BY <2>0, <3>0, <3>1
    <3>3. Chain(links, NULL, links[n], S \ {n}, rank)
      BY <3>1, <3>2, ChainPopped
    <3>4. InC!Links' = links
      BY <3>0, <3>1 DEF InC!Links
    <3> QED BY <1>7, <3>1, <3>3, <3>4
  <2>2. CASE c_prev[t] # NULL
    <3>0. PICK links : links = InC!Links
      OBVIOUS
    <3>1. PICK p \in S : p = c_prev[t]
      BY <1>3, <2>2
    <3>2. links[p] = n /\ c_head' = c_head
      BY <1>4, <1>5, <2>2, <3>0, <3>1
    <3>3. Chain(links, NULL, c_head, S, rank)
      BY <2>0, <3>0
    <3>4. Chain([links EXCEPT ![p] = links[n]], NULL, c_head, S \ {n}, rank)
      BY <1>3, <3>2, <3>3, ChainUnlinked
    <3>5. InC!Links' = [links EXCEPT ![p] = links[n]]
      <4>1. \A a \in Cells : c_node'[a].next = IF a = p THEN links[n] ELSE c_node[a].next
        BY <1>4, <1>5, <2>2, <3>0, <3>1 DEF CTypes
      <4>2. links = [a \in Cells |-> c_node[a].next]
        BY <3>0 DEF InC!Links
      <4>3. InC!Links' = [a \in Cells |-> c_node'[a].next]
        BY DEF InC!Links
      <4> QED BY <4>1, <4>2, <4>3
    <3> QED BY <1>7, <3>2, <3>4, <3>5
  <2> QED BY <2>1, <2>2
<1>10. CHeap(T)'
  <2>0. CHeap(S)
    BY DEF CRanked
  <2>1. {c_node'[a].data : a \in T} = c_inserted' \ c_removed'
    <3>1. \A a \in T : c_node'[a].data = c_node[a].data
      BY <1>4, <1>6, <1>7
    <3>2. \A a \in S : c_node[a].data = InC!value(t) <=> a = n
      BY <1>3, <1>4, <2>0 DEF CHeap
    <3>3. {c_node[a].data : a \in T} = {c_node[a].data : a \in S} \ {InC!value(t)}
      BY <1>7, <3>2
    <3>4. {c_node'[a].data : a \in T} = {c_node[a].data : a \in T}
      BY <3>1
    <3> QED BY <1>1, <2>0, <3>3, <3>4 DEF CHeap
  <2>2. ASSUME NEW a \in c_heap, a \notin T
        PROVE  \E u \in InC!Thread : COwns(u, a)'
    <3>1. CASE a = n
      BY <1>0, <1>1, <3>1 DEF COwns
    <3>2. CASE a # n
      <4>1. PICK u \in InC!Thread : COwns(u, a)
        BY <1>7, <2>0, <2>2, <3>2 DEF CHeap
      <4>2. u # t
        BY <1>1, <4>1 DEF COwns, CPushing
      <4>3. COwns(u, a)'
        BY <1>1, <4>1, <4>2 DEF COwns, CPushing
      <4> QED BY <4>3
    <3> QED BY <3>1, <3>2
  <2>3. \A a, b \in c_heap : c_node'[a].data = c_node'[b].data => a = b
    BY <1>4, <1>6, <2>0 DEF CHeap
  <2>4. ASSUME NEW a \in T, c_node'[a].marked
        PROVE  FALSE
    <3>1. a \in S /\ a # n /\ c_node[a].marked
      BY <1>4, <1>6, <1>7, <2>4
    <3>2. c_node[a].data = InC!value(t)
      BY <1>2, <2>0, <3>1 DEF CHeap
    <3> QED BY <1>3, <1>4, <2>0, <3>1, <3>2 DEF CHeap
  <2>5. T \subseteq c_heap
    BY <1>4, <1>7
  <2> QED BY <1>1, <2>1, <2>2, <2>3, <2>4, <2>5 DEF CHeap
<1>11. CHolds(T, t)'
  <2>1. n \in c_heap \ T /\ n \in Cells
    BY <1>3, <1>4, <1>7
  <2> QED BY <1>0, <1>1, <1>3, <1>6, <1>8, <2>1 DEF CHolds, CPushing
<1>12. \A u \in Owners : CWalks(T, rank, u)'
  BY <1>1, <1>2 DEF CWalks
<1>13. ASSUME NEW a \in c_heap \ S
       PROVE  a \in c_heap' \ T /\ c_node'[a] = c_node[a]
  BY <1>1, <1>4, <1>6, <1>7
<1>14. CRanked(T, rank)'
  BY <1>1, <1>9, <1>10, <1>11, <1>12, <1>13, CRanksKept
<1> QED BY <1>7, <1>14

\* A value that is still there is found by delete.
LEMMA CFindsIt ==
    ASSUME CTypes, NEW S, NEW rank, CRanked(S, rank), NEW t \in InC!Thread,
           InC!DeleteReturns(t)
    PROVE  c_pc[t] = "free"
<1> SUFFICES ASSUME c_pc[t] = "next", curr[t] = NULL PROVE FALSE
  BY DEF InC!DeleteReturns
<1>1. t \in Owners
  BY DEF CTypes, InC!Thread
<1>2. curr[t] \in S
  BY <1>1 DEF CRanked, CWalks, CAhead
<1>3. NULL \notin S
  BY DEF CRanked, Chain
<1> QED BY <1>2, <1>3

\* The node freed is no longer one of the list.
LEMMA CFrees ==
    ASSUME OneOwner, CTypes, CRounds, CRemovals, NEW S, NEW rank, CRanked(S, rank), NEW t \in InC!Thread,
           InC!DeleteReturns(t)
    PROVE  CRanked(S, rank)'
<1>0. PICK n : n = curr[t]
  OBVIOUS
<1>1. c_pc[t] = "free"
  BY CFindsIt
<1>2. /\ c_pc'[t] = "again" /\ found'[t] /\ c_heap' = c_heap \ {n}
      /\ c_new' = c_new /\ c_head' = c_head /\ c_node' = c_node
      /\ c_round' = c_round /\ c_inserted' = c_inserted /\ c_removed' = c_removed
      /\ c_oldHead' = c_oldHead /\ curr' = curr
      /\ \A u \in InC!Thread \ {t} : c_pc'[u] = c_pc[u]
  BY <1>0, <1>1 DEF InC!DeleteReturns, InC!locals, InC!Goto, CTypes
<1>3. t \in Owners /\ \A u \in Owners : u = t
  BY <1>1, CHasOneOwner DEF CTypes, InC!Thread
<1>4. n \in c_heap \ S /\ c_node[n].data = InC!value(t)
  BY <1>0, <1>1 DEF CRanked, CHolds
<1>5. CHeap(S)'
  <2>0. CHeap(S)
    BY DEF CRanked
  <2>1. ASSUME NEW a \in c_heap', a \notin S
        PROVE  \E u \in InC!Thread : COwns(u, a)'
    <3>1. PICK u \in InC!Thread : COwns(u, a)
      BY <1>2, <2>0, <2>1 DEF CHeap
    <3>2. u # t
      BY <1>0, <1>1, <1>2, <2>1, <3>1 DEF COwns, CPushing
    <3>3. COwns(u, a)'
      BY <1>2, <3>1, <3>2 DEF COwns, CPushing
    <3> QED BY <3>3
  <2>2. ASSUME NEW a \in S, c_node[a].marked
        PROVE  FALSE
    BY <1>1, <1>3, <2>0, <2>2 DEF CHeap
  <2> QED BY <1>2, <1>4, <2>0, <2>1, <2>2 DEF CHeap
<1>6. CHolds(S, t)'
  BY <1>2 DEF CHolds, CPushing
<1>7. \A u \in Owners : CWalks(S, rank, u)'
  BY <1>2, <1>3 DEF CWalks
<1>8. Chain(InC!Links', NULL, c_head', S, rank)
  <2>1. InC!Links' = InC!Links
    BY <1>2 DEF InC!Links
  <2> QED BY <1>2, <2>1 DEF CRanked
<1>9. ASSUME NEW a \in c_heap \ S, c_node[a].data # InC!value(t)
      PROVE  a \in c_heap' \ S /\ c_node'[a] = c_node[a]
  BY <1>2, <1>4, <1>9
<1> QED BY <1>2, <1>5, <1>6, <1>7, <1>8, <1>9, CRanksKept

\* The list is empty at first.
LEMMA CInitially ==
    ASSUME InC!Init
    PROVE  CInv
<1> USE SizesAssumption
<1>1. CTypes
  <2>1. c_node \in [Cells -> [data : CValue \cup {NULL}, next : Cells \cup {NULL}, marked : BOOLEAN]]
    BY DEF InC!Init
  <2>2. /\ c_pc \in [InC!Thread -> CPlaces]
        /\ \A t \in ListPushers : c_pc[t] \in {"insert", "load", "push"}
    <3>1. \A t \in ListPushers : t \in InC!Thread
      BY DEF InC!Thread
    <3> QED BY <3>1 DEF InC!Init, CPlaces
  <2>3. c_round \in [InC!Thread -> 1..(Rounds + 1)]
    BY DEF InC!Init
  <2> QED BY <2>1, <2>2, <2>3 DEF InC!Init, CTypes
<1>2. CRounds /\ CRemovals
  BY DEF InC!Init, CRounds, CRemovals, CInserted, CRemoved
<1>3. PICK rank : rank = [a \in Cells |-> 0]
  OBVIOUS
<1>4. Chain(InC!Links, NULL, c_head, {}, rank)
  <2>1. DOMAIN InC!Links = Cells /\ c_head = NULL
    BY DEF InC!Init, InC!Links
  <2> QED BY <1>3, <2>1 DEF Chain
<1>5. CRanked({}, rank)
  <2>1. CHeap({})
    BY DEF InC!Init, CHeap
  <2>2. \A t \in InC!Thread : CHolds({}, t)
    BY DEF InC!Init, CHolds, CPushing
  <2>3. \A t \in Owners : CWalks({}, rank, t)
    BY DEF InC!Init, CWalks, InC!Thread
  <2> QED BY <1>4, <2>1, <2>2, <2>3 DEF CRanked
<1>6. {} \in SUBSET Cells /\ rank \in [Cells -> Nat]
  BY <1>3
<1> QED BY <1>1, <1>2, <1>5, <1>6 DEF CInv, CState

\* The invariant is about no variable of another structure.
LEMMA CUntouched ==
    ASSUME CInv, UNCHANGED c_vars
    PROVE  CInv'
<1>1. CTypes' /\ CRounds'
  BY DEF CInv, CTypes, CRounds, CInserted, c_vars
<1> SUFFICES ASSUME CState PROVE CState'
  BY <1>1 DEF CInv
<1>c. CRemovals'
  BY DEF CState, CRemovals, CRemoved, c_vars
<1>2. PICK S \in SUBSET Cells, rank \in [Cells -> Nat] : CRanked(S, rank)
  BY DEF CState
<1>3. CRanked(S, rank)'
  <2> USE DEF c_vars
  <2>1. Chain(InC!Links, NULL, c_head, S, rank)'
    <3>1. InC!Links' = InC!Links
      BY DEF InC!Links
    <3>2. Chain(InC!Links, NULL, c_head, S, rank)
      BY <1>2 DEF CRanked
    <3> QED BY <3>1, <3>2 DEF Chain
  <2>2. CHeap(S)'
    BY <1>2 DEF CRanked, CHeap, COwns, CPushing, InC!value
  <2>3. ASSUME NEW t \in InC!Thread PROVE CHolds(S, t)'
    BY <1>2 DEF CRanked, CHolds, CPushing, InC!value
  <2>4. ASSUME NEW t \in Owners PROVE CWalks(S, rank, t)'
    BY <1>2 DEF CRanked, CWalks, CAhead, InC!value
  <2> QED BY <2>1, <2>2, <2>3, <2>4 DEF CRanked
<1> QED BY <1>c, <1>2, <1>3 DEF CState

\* Every step of the lists in C keeps their invariant.
LEMMA CStep ==
    ASSUME CInv, [InC!Next]_c_vars
    PROVE  CInv'
<1>1. CTypes /\ CRounds
  BY DEF CInv
<1>3. ASSUME NEW t \in InC!Thread, InC!Step(t)
      PROVE  CInv'
  <2>1. CTypes' /\ CRounds'
    BY <1>1, <1>3, CTypesKept, CRoundsKept
  <2>2. ASSUME OneOwner
        PROVE  CState'
    <3>1. CRemovals /\ OneOwner
      BY <2>2 DEF CInv, CState
    <3>2. PICK S \in SUBSET Cells, rank \in [Cells -> Nat] : CRanked(S, rank)
      BY <2>2 DEF CInv, CState
    <3>3. CRemovals'
      BY <1>1, <1>3, <3>1, <3>2, CFindsIt, CRemovalsKept
    <3>4. \E T \in SUBSET Cells, above \in [Cells -> Nat] : CRanked(T, above)'
      <4>1. CASE InC!create_node(t)
        <5>1. CRanked(S, rank)'
          BY <1>1, <3>1, <3>2, <4>1, CCreates
        <5> QED BY <3>2, <5>1
      <4>2. CASE InC!LoadHead(t) \/ InC!PushFails(t)
        <5>1. CRanked(S, rank)'
          BY <1>1, <3>1, <3>2, <4>2, CExpects
        <5> QED BY <3>2, <5>1
      <4>3. CASE InC!Push(t)
        BY <1>1, <3>1, <3>2, <4>3, CPushes
      <4>4. CASE \/ InC!SearchBegins(t) \/ InC!SearchMoves(t) \/ InC!SearchReturns(t)
                 \/ InC!DeleteBegins(t) \/ InC!LoadNext(t) \/ InC!MarkFails(t) \/ InC!UnlinkFails(t)
        <5>1. CRanked(S, rank)'
          BY <1>1, <3>1, <3>2, <4>4, CAtWork
        <5> QED BY <3>2, <5>1
      <4>5. CASE InC!Mark(t)
        <5>1. CRanked(S, rank)'
          BY <1>1, <3>1, <3>2, <4>5, CMarks
        <5> QED BY <3>2, <5>1
      <4>6. CASE InC!Unlink(t)
        <5>2. PICK n : n = curr[t]
          OBVIOUS
        <5>3. CRanked(S \ {n}, rank)'
          BY <1>1, <3>1, <3>2, <4>6, <5>2, CUnlinks
        <5>4. S \ {n} \in SUBSET Cells
          BY <3>2
        <5> QED BY <3>2, <5>3, <5>4
      <4>7. CASE InC!DeleteReturns(t)
        <5>1. CRanked(S, rank)'
          BY <1>1, <3>1, <3>2, <4>7, CFrees
        <5> QED BY <3>2, <5>1
      <4> QED BY <1>3, <4>1, <4>2, <4>3, <4>4, <4>5, <4>6, <4>7 DEF InC!Step
    <3> QED BY <3>3, <3>4 DEF CState
  <2> QED BY <2>1, <2>2 DEF CInv
<1>4. CASE UNCHANGED c_vars
  BY <1>4, CUntouched
<1>5. UNCHANGED InC!vars => UNCHANGED c_vars
  BY DEF InC!vars, c_vars
<1> QED BY <1>3, <1>4, <1>5 DEF InC!Next

\* The nodes that the instance visits are those of the lemmas.
LEMMA CVisits ==
    ASSUME NEW links, NEW h
    PROVE  InC!Visited(links, NULL, h) = Visited(links, NULL, h)
BY DEF InC!Visited, InC!Reachable, InC!Closed, Visited, Reachable, Closed

\* The variables keep their types, however many threads delete.
LEMMA CTyped ==
    ASSUME CInv
    PROVE  InC!TypeOK
BY DEF CInv, CTypes, InC!TypeOK

\* If one does, the list is what was pushed and not unlinked, no node of it is freed, and
\* the assertions of the tests hold.
LEMMA CSound ==
    ASSUME OneOwner, CInv
    PROVE  ListsInCHold
<1>1. CTypes /\ CRounds
  BY DEF CInv
<1>2. PICK S \in SUBSET Cells, rank \in [Cells -> Nat] : CRanked(S, rank)
  BY DEF CInv, CState
<1>3. InC!HoldsItsValues
  <2>1. PICK links : links = InC!Links
    OBVIOUS
  <2>2. Chain(links, NULL, c_head, S, rank) /\ NULL \notin DOMAIN links
    BY <1>2, <2>1, NamesAssumption DEF CRanked, InC!Links
  <2>3. Visited(links, NULL, c_head) = S
    BY <2>2, ChainVisited
  <2>4. InC!Nodes = S
    BY <2>1, <2>3, CVisits DEF InC!Nodes
  <2> QED BY <1>2, <2>4 DEF CRanked, CHeap, InC!HoldsItsValues
<1>4. ASSUME NEW t \in InC!Thread
      PROVE  /\ InC!Uses(t) \ {NULL} \subseteq c_heap
             /\ InC!Visiting(t) /\ curr[t] # NULL => ~c_node[curr[t]].marked
  <2>1. CASE t \notin Owners
    <3>1. c_pc[t] \in {"insert", "load", "push"}
      BY <1>1, <2>1 DEF CTypes, InC!Thread
    <3> QED BY <3>1 DEF InC!Uses, InC!Visiting
  <2>2. CASE t \in Owners
    <3>1. CWalks(S, rank, t) /\ S \subseteq c_heap
      BY <1>2, <2>2 DEF CRanked, CHeap
    <3>2. InC!Visiting(t) \/ c_pc[t] \in {"next", "mark", "unlink"} => curr[t] \in S \cup {NULL}
      BY <3>1 DEF CWalks, CAhead, InC!Visiting
    <3>3. c_pc[t] = "unlink" => c_prev[t] \in S \cup {NULL}
      BY <3>1 DEF CWalks
    <3>4. InC!Uses(t) \ {NULL} \subseteq c_heap
      BY <3>1, <3>2, <3>3 DEF InC!Uses, InC!Visiting
    <3>5. ASSUME InC!Visiting(t), curr[t] # NULL, c_node[curr[t]].marked
          PROVE  FALSE
      <4>1. curr[t] \in S
        BY <3>2, <3>5
      <4>2. c_pc[t] \in {"next", "mark", "unlink"}
        BY <1>2, <2>2, <3>5, <4>1, CHasOneOwner DEF CRanked, CHeap
      <4> QED BY <3>5, <4>2 DEF InC!Visiting
    <3> QED BY <3>4, <3>5
  <2> QED BY <2>1, <2>2
<1>5. InC!FoundAsAsserted /\ InC!NotFoundAgain
  BY <1>2 DEF InC!FoundAsAsserted, InC!NotFoundAgain, CRanked, CWalks
<1> QED BY <1>3, <1>4, <1>5 DEF ListsInCHold, InC!HeapIsSound, InC!Usable
-----------------------------------------------------------------------------
(* NonBlockingLinkedList.  S is the set of the nodes in the list, R[t] what   *)
(* thread t may come to from where it stands, which nodes can be that another *)
(* thread has unlinked meanwhile, and j the call that all threads join at.    *)

SNode == Sorted!Node
SKeys == [n \in SNode |-> Sorted!KeyOf(n)]
SOp(t) == Sorted!Operation(t)
Wanted(t) == Sorted!Key(t)

\* A node that was linked: its call of insert has returned.
WasLinked(n) == /\ n \in Caller \X (1..MaxCalls) /\ n[2] < s_at[n[1]]
                /\ n[2] \in DOMAIN s_program[n[1]] /\ s_program[n[1]][n[2]][1] = "insert"

\* The nodes of S are linked in the order of their keys.
SLinked(S) ==
    /\ First \in S /\ \A n \in S : n # First => WasLinked(n)
    /\ \A n, m \in S : n # First /\ m # First /\ SKeys[n] = SKeys[m] => n = m
    /\ \A n \in S : /\ s_next[n] \in (S \ {First}) \cup {Last}
                    /\ s_next[n] # Last /\ n # First => SKeys[n] < SKeys[s_next[n]]
                    /\ \A m \in S : m # First /\ (n = First \/ SKeys[n] < SKeys[m])
                                      => s_next[n] # Last /\ SKeys[s_next[n]] <= SKeys[m]

SortedTypes ==
    /\ s_next \in [SNode -> SNode \cup {Last}]
    /\ s_program \in SortedPrograms
    /\ s_at \in [Caller -> Nat] /\ \A t \in Caller : s_at[t] \in 1..(Len(s_program[t]) + 1)
    /\ s_pc \in [Caller -> {"idle", "walk", "check", "link", "load", "touch", "unlink"}]
    /\ left \in [Caller -> SNode] /\ right \in [Caller -> SNode \cup {Last}]
    /\ after \in [Caller -> SNode \cup {Last}]

\* When one thread has passed the join, all have come to it; what was inserted and is
\* removed by nobody is there.
Stays(k) == \A t \in Caller : \A i \in DOMAIN s_program[t] : s_program[t][i] # <<"remove", k>>
SortedPhases(j) ==
    /\ j \in Nat /\ Sorted!Joined(s_program, j) /\ Sorted!Apart(s_program, j)
    /\ (\E t \in Caller : s_at[t] > j) => \A t \in Caller : s_at[t] >= j
    /\ \A t \in Caller : \A i \in DOMAIN s_program[t] :
          i < s_at[t] /\ s_program[t][i][1] = "insert" /\ Stays(s_program[t][i][2])
             => s_program[t][i][2] \in s_keys

\* A node that thread t may come to though it is not in the list any more: another thread
\* has removed it during the call, without any post behind it.
GoneFor(j, t, k) == \E u \in Caller \ {t} : \E i \in DOMAIN s_program[u] :
                       j < i /\ i < s_at[u] /\ s_program[u][i] = <<"remove", k>>
LeftBehind(j, t, n) ==
    /\ GoneFor(j, t, SKeys[n])
    /\ \A k \in Sorted!Posts(s_program, j) :
          SKeys[n] < k => s_next[n] # Last /\ SKeys[s_next[n]] <= k
    /\ SKeys[n] < Wanted(t) /\ (s_next[n] = Last \/ SKeys[s_next[n]] > Wanted(t)) => FALSE \in seen[t]

\* What thread t may come to: R.
Sights(S, R, j, t) ==
    /\ S \subseteq R /\ \A n \in R : n # First => WasLinked(n)
    /\ \A n \in R : s_next[n] \in (R \ {First}) \cup {Last}
    /\ \A n \in R : n # First /\ SKeys[n] = Wanted(t) => TRUE \in seen[t]
    /\ Wanted(t) \in s_keys => TRUE \in seen[t]
    /\ Wanted(t) \notin s_keys => FALSE \in seen[t]
    /\ \A n \in R \ S : LeftBehind(j, t, n)

\* Where thread t stands.
Changing == {"load", "touch", "unlink"}
Stands(S, R, t) ==
    /\ s_pc[t] = "walk" => right[t] \in R /\ (right[t] = First \/ SKeys[right[t]] < Wanted(t))
    /\ s_pc[t] # "walk" => /\ left[t] \in R /\ (left[t] = First \/ SKeys[left[t]] < Wanted(t))
                           /\ right[t] \in (R \ {First}) \cup {Last}
                           /\ right[t] = Last \/ SKeys[right[t]] >= Wanted(t)
    /\ s_pc[t] = "link" => SOp(t) = "insert" /\ (right[t] = Last \/ SKeys[right[t]] # Wanted(t))
    /\ s_pc[t] \in Changing => /\ SOp(t) = "remove" /\ right[t] \in S /\ right[t] # First
                               /\ SKeys[right[t]] = Wanted(t)
                               /\ s_pc[t] # "load" => after[t] = s_next[right[t]]

SortedThread(S, R, j, t) ==
    s_pc[t] # "idle" => /\ Sorted!Calls(t) /\ SOp(t) \in {"insert", "remove", "search"}
                        /\ Sights(S, R, j, t) /\ Stands(S, R, t)

SortedList(S) == SLinked(S) /\ s_keys = {SKeys[n] : n \in S \ {First}}

SortedState(S, R, j) ==
    /\ SortedTypes /\ SortedList(S) /\ SortedPhases(j) /\ misfits = {}
    /\ \A t \in Caller : SortedThread(S, R[t], j, t)

SortedInv == \E S, R, j : SortedState(S, R, j)
-----------------------------------------------------------------------------
(* What the programs of the sorted list are. *)

SCall == {"insert", "remove", "search", "join"} \X Int

\* Every thread runs a sequence of calls.
LEMMA SortedProgram ==
    ASSUME SortedTypes
    PROVE  /\ s_program \in [Caller -> Seq(SCall)]
           /\ \A t \in Caller : Len(s_program[t]) <= MaxCalls /\ Len(s_program[t]) \in Nat
           /\ \E j \in 1..(MaxCalls + 1) : Sorted!Joined(s_program, j) /\ Sorted!Apart(s_program, j)
BY ProgramsAssumption DEF SortedTypes, Sorted!Orderly, Sorted!Written, SCall

\* A call is an operation and a key.
LEMMA SortedCalls ==
    ASSUME SortedTypes, NEW t \in Caller, NEW i \in DOMAIN s_program[t]
    PROVE  /\ i \in 1..MaxCalls /\ i \in Nat /\ s_program[t][i] \in SCall /\ s_program[t][i][2] \in Int
           /\ s_program[t][i] = <<s_program[t][i][1], s_program[t][i][2]>>
<1>1. s_program[t] \in Seq(SCall) /\ Len(s_program[t]) <= MaxCalls /\ Len(s_program[t]) \in Nat
  BY SortedProgram
<1>2. i \in 1..Len(s_program[t]) /\ MaxCalls \in Nat
  BY <1>1, SizesAssumption
<1>3. s_program[t][i] \in SCall
  BY <1>1, <1>2
<1> QED BY <1>2, <1>3, <1>1 DEF SCall

\* The call under way.
LEMMA SortedCall ==
    ASSUME SortedTypes, NEW t \in Caller, Sorted!Calls(t)
    PROVE  /\ s_at[t] \in DOMAIN s_program[t] /\ s_at[t] \in 1..MaxCalls /\ s_at[t] \in Nat
           /\ Wanted(t) \in Int /\ s_program[t][s_at[t]] = <<SOp(t), Wanted(t)>>
           /\ SOp(t) = s_program[t][s_at[t]][1] /\ Wanted(t) = s_program[t][s_at[t]][2]
           /\ <<t, s_at[t]>> \in SNode /\ SKeys[<<t, s_at[t]>>] = Wanted(t)
<1>1. s_program[t] \in Seq(SCall) /\ Len(s_program[t]) \in Nat /\ s_at[t] \in Nat /\ s_at[t] >= 1
  BY SortedProgram DEF SortedTypes
<1>2. s_at[t] \in DOMAIN s_program[t]
  BY <1>1 DEF Sorted!Calls
<1>3. SOp(t) = s_program[t][s_at[t]][1] /\ Wanted(t) = s_program[t][s_at[t]][2]
  BY DEF SOp, Wanted, Sorted!Operation, Sorted!Key
<1>4. <<t, s_at[t]>> \in SNode
  BY <1>2, SortedCalls DEF SNode, Sorted!Node
<1> QED BY <1>2, <1>3, <1>4, SortedCalls DEF SKeys, Sorted!KeyOf

\* The key of a node that was linked.
LEMMA LinkedNode ==
    ASSUME SortedTypes, NEW n, WasLinked(n)
    PROVE  /\ n \in SNode /\ n # First /\ n # Last /\ SKeys[n] \in Int
           /\ SKeys[n] = s_program[n[1]][n[2]][2]
<1>1. n \in Caller \X (1..MaxCalls) /\ n[1] \in Caller /\ n[2] \in DOMAIN s_program[n[1]]
  BY DEF WasLinked
<1>2. s_program[n[1]][n[2]][2] \in Int
  BY <1>1, SortedCalls
<1> QED BY <1>1, <1>2, NamesAssumption DEF SNode, Sorted!Node, SKeys, Sorted!KeyOf

\* A thread that updates after another one has passed the join has passed it too.
LEMMA PastJoin ==
    ASSUME SortedTypes, NEW j, SortedPhases(j), NEW t \in Caller, Sorted!Calls(t), SOp(t) # "join",
           NEW u \in Caller, s_at[u] > j
    PROVE  s_at[t] > j
<1>1. s_at[t] >= j /\ j \in Nat
  BY DEF SortedPhases
<1>2. s_at[t] # j
  BY SortedCall DEF SortedPhases, Sorted!Joined
<1>3. s_at[t] \in Nat
  BY DEF SortedTypes
<1> QED BY <1>1, <1>2, <1>3

\* Nothing is removed before.
LEMMA RemovesLate ==
    ASSUME SortedTypes, NEW j, SortedPhases(j), NEW t \in Caller, Sorted!Calls(t), SOp(t) = "remove"
    PROVE  s_at[t] > j
<1>1. s_at[t] \in DOMAIN s_program[t] /\ s_program[t][s_at[t]][1] = "remove"
  BY SortedCall
<1>2. ~(s_at[t] <= j) /\ j \in Nat
  BY <1>1 DEF SortedPhases, Sorted!Joined
<1>3. s_at[t] \in Nat
  BY DEF SortedTypes
<1> QED BY <1>2, <1>3

\* Afterwards the posts are in the list.
LEMMA PostsAreIn ==
    ASSUME SortedTypes, NEW j, SortedPhases(j), NEW u \in Caller, s_at[u] > j,
           NEW k \in Sorted!Posts(s_program, j)
    PROVE  k \in s_keys /\ k \in Int
<1>1. k \in Sorted!Before(s_program, j) /\ Stays(k)
  BY DEF Sorted!Posts, Stays
<1>2. PICK v \in Caller : k \in {s_program[v][i][2] : i \in {l \in DOMAIN s_program[v] :
                                                            l < j /\ s_program[v][l][1] = "insert"}}
  BY <1>1 DEF Sorted!Before
<1>3. PICK i \in DOMAIN s_program[v] : i < j /\ s_program[v][i][1] = "insert" /\ k = s_program[v][i][2]
  BY <1>2
<1>4. i < s_at[v] /\ k \in Int
  <2>1. s_at[v] >= j /\ j \in Nat /\ s_at[v] \in Nat
    BY DEF SortedPhases, SortedTypes
  <2>2. i \in Nat /\ k \in Int
    BY <1>3, SortedCalls
  <2> QED BY <1>3, <2>1, <2>2
<1> QED BY <1>1, <1>3, <1>4 DEF SortedPhases

\* A post stands between what a thread removes and what another one updates.
LEMMA PostBetween ==
    ASSUME SortedTypes, NEW j, SortedPhases(j), NEW t \in Caller, NEW u \in Caller, t # u,
           NEW i \in DOMAIN s_program[u], i > j, s_program[u][i][1] = "remove",
           Sorted!Calls(t), SOp(t) \in {"insert", "remove"}, s_at[t] > j
    PROVE  \E k \in Sorted!Posts(s_program, j) : Sorted!Between(s_program[u][i][2], k, Wanted(t))
<1>1. /\ s_at[t] \in DOMAIN s_program[t] /\ s_program[t][s_at[t]][1] \in {"insert", "remove"}
      /\ s_program[t][s_at[t]][2] = Wanted(t)
  BY SortedCall
<1> QED BY <1>1 DEF SortedPhases, Sorted!Apart

\* The nodes in the list and their keys.
LEMMA ListedNodes ==
    ASSUME SortedTypes, NEW S, SortedList(S)
    PROVE  /\ First \in S /\ S \subseteq SNode /\ Last \notin S
           /\ \A n \in S : n # First => WasLinked(n) /\ SKeys[n] \in Int /\ SKeys[n] \in s_keys
           /\ \A k \in s_keys : \E n \in S : n # First /\ SKeys[n] = k /\ k \in Int
<1>1. First \in S /\ \A n \in S : n # First => WasLinked(n)
  BY DEF SortedList, SLinked
<1>2. First \in SNode /\ First # Last
  BY NamesAssumption DEF SNode, Sorted!Node
<1>3. \A n \in S : n # First => n \in SNode /\ n # Last /\ SKeys[n] \in Int
  BY <1>1, LinkedNode
<1> QED BY <1>1, <1>2, <1>3 DEF SortedList

\* Behind a node comes the next greater key.
LEMMA NextGreater ==
    ASSUME SortedTypes, NEW S, SortedList(S), NEW l \in S, NEW k \in s_keys,
           l = First \/ SKeys[l] < k
    PROVE  s_next[l] # Last /\ s_next[l] \in S /\ s_next[l] # First /\ SKeys[s_next[l]] <= k
<1>1. PICK m \in S : m # First /\ SKeys[m] = k
  BY ListedNodes
<1> QED BY <1>1 DEF SortedList, SLinked

\* What a thread may come to has a key.
LEMMA SeenNodes ==
    ASSUME SortedTypes, NEW S, NEW R, NEW j, NEW t, Sights(S, R, j, t)
    PROVE  /\ S \subseteq R /\ \A n \in R : n # First => WasLinked(n) /\ SKeys[n] \in Int
           /\ R \subseteq SNode /\ Last \notin R
<1>1. S \subseteq R /\ \A n \in R : n # First => WasLinked(n)
  BY DEF Sights
<1>2. First \in SNode /\ First # Last
  BY NamesAssumption DEF SNode, Sorted!Node
<1>3. \A n \in R : n # First => n \in SNode /\ n # Last /\ SKeys[n] \in Int
  BY <1>1, LinkedNode
<1> QED BY <1>1, <1>2, <1>3

\* Thread t is about to link or to unlink where it stands.
Updates(t) == /\ s_pc[t] \in {"check", "link", "load", "touch", "unlink"} /\ Sorted!Calls(t)
              /\ SOp(t) \in {"insert", "remove"}

\* No node that another thread has unlinked meanwhile stands close before it.
LEMMA PostAfterGone ==
    ASSUME SortedTypes, NEW j, SortedPhases(j), NEW t \in Caller, Updates(t), NEW k, GoneFor(j, t, k)
    PROVE  /\ s_at[t] > j
           /\ \E q \in Sorted!Posts(s_program, j) : Sorted!Between(k, q, Wanted(t)) /\ q \in s_keys /\ q \in Int
<1>1. PICK u \in Caller \ {t} : \E i \in DOMAIN s_program[u] :
         j < i /\ i < s_at[u] /\ s_program[u][i] = <<"remove", k>>
  BY DEF GoneFor
<1>0. PICK i \in DOMAIN s_program[u] :
         j < i /\ i < s_at[u] /\ s_program[u][i] = <<"remove", k>>
  BY <1>1
<1>2. s_at[u] > j
  BY <1>0, SortedCalls DEF SortedTypes, SortedPhases
<1>3. s_at[t] > j
  BY <1>1, <1>2, PastJoin DEF Updates
<1>4. s_program[u][i][1] = "remove" /\ s_program[u][i][2] = k
  BY <1>0
<1>5. PICK q \in Sorted!Posts(s_program, j) : Sorted!Between(k, q, Wanted(t))
  <2>1. i > j
    BY <1>0
  <2> QED BY <2>1, <1>1, <1>3, <1>4, PostBetween DEF Updates
<1> QED BY <1>3, <1>5, PostsAreIn

\* A thread that has found its place to update there finds it in the list.
LEMMA LeftInList ==
    ASSUME NEW S, NEW R, NEW j, SortedState(S, R, j), NEW t \in Caller, Updates(t), Sorted!Adjacent(t)
    PROVE  left[t] \in S
<1>0. SortedTypes /\ SortedList(S) /\ SortedPhases(j) /\ SortedThread(S, R[t], j, t)
  BY DEF SortedState
<1>1. s_pc[t] # "idle" /\ s_pc[t] # "walk" /\ Wanted(t) \in Int
  BY <1>0, SortedCall DEF Updates
<1>2. Sights(S, R[t], j, t) /\ Stands(S, R[t], t)
  BY <1>0, <1>1 DEF SortedThread
<1>3. /\ left[t] \in R[t] /\ (left[t] = First \/ SKeys[left[t]] < Wanted(t))
      /\ right[t] = Last \/ SKeys[right[t]] >= Wanted(t)
      /\ right[t] = Last \/ SKeys[right[t]] \in Int
  BY <1>0, <1>1, <1>2, SeenNodes DEF Stands
<1> SUFFICES ASSUME left[t] \notin S PROVE FALSE
  OBVIOUS
<1>4. left[t] # First /\ SKeys[left[t]] < Wanted(t) /\ SKeys[left[t]] \in Int
  BY <1>0, <1>2, <1>3, ListedNodes, SeenNodes
<1>5. LeftBehind(j, t, left[t])
  BY <1>2, <1>3 DEF Sights
<1>6. PICK q \in Sorted!Posts(s_program, j) : Sorted!Between(SKeys[left[t]], q, Wanted(t)) /\ q \in Int
  BY <1>0, <1>5, PostAfterGone DEF LeftBehind
<1>7. SKeys[left[t]] < q /\ q < Wanted(t)
  BY <1>1, <1>4, <1>6 DEF Sorted!Between
<1>8. s_next[left[t]] # Last /\ SKeys[s_next[left[t]]] <= q
  BY <1>5, <1>7 DEF LeftBehind
<1>9. s_next[left[t]] = right[t]
  BY DEF Sorted!Adjacent
<1> QED BY <1>1, <1>3, <1>6, <1>7, <1>8, <1>9

\* What it found, it finds in the list.
LEMMA RightInList ==
    ASSUME NEW S, NEW R, NEW j, SortedState(S, R, j), NEW t \in Caller, Updates(t),
           right[t] # Last, SKeys[right[t]] = Wanted(t)
    PROVE  SOp(t) = "remove" => right[t] \in S
<1>0. SortedTypes /\ SortedList(S) /\ SortedPhases(j) /\ SortedThread(S, R[t], j, t)
  BY DEF SortedState
<1>1. s_pc[t] # "idle" /\ s_pc[t] # "walk" /\ Wanted(t) \in Int
  BY <1>0, SortedCall DEF Updates
<1>2. Sights(S, R[t], j, t) /\ right[t] \in R[t]
  BY <1>0, <1>1 DEF SortedThread, Stands
<1> SUFFICES ASSUME right[t] \notin S PROVE FALSE
  OBVIOUS
<1>3. GoneFor(j, t, Wanted(t))
  BY <1>2 DEF Sights, LeftBehind
<1>4. PICK q \in Int : Sorted!Between(Wanted(t), q, Wanted(t))
  BY <1>0, <1>3, PostAfterGone
<1> QED BY <1>1, <1>4 DEF Sorted!Between

\* Two threads that update, one of which removes: a key of the list lies between theirs.
LEMMA TwoUpdate ==
    ASSUME NEW S, NEW R, NEW j, SortedState(S, R, j), NEW t \in Caller, Updates(t),
           NEW u \in Caller, u # t, Updates(u), SOp(u) = "remove"
    PROVE  /\ s_at[u] > j /\ s_at[t] > j /\ Wanted(t) \in Int /\ Wanted(u) \in Int
           /\ \E q \in s_keys : q \in Int /\ Sorted!Between(Wanted(u), q, Wanted(t))
<1>0. SortedTypes /\ SortedPhases(j)
  BY DEF SortedState
<1>1. s_at[u] > j
  BY <1>0, RemovesLate DEF Updates
<1>2. s_at[t] > j
  BY <1>0, <1>1, PastJoin DEF Updates
<1>3. /\ s_at[u] \in DOMAIN s_program[u] /\ s_program[u][s_at[u]][1] = "remove"
      /\ s_program[u][s_at[u]][2] = Wanted(u) /\ Wanted(u) \in Int /\ Wanted(t) \in Int
  BY <1>0, SortedCall DEF Updates
<1>4. PICK q \in Sorted!Posts(s_program, j) : Sorted!Between(Wanted(u), q, Wanted(t))
  BY <1>0, <1>1, <1>2, <1>3, PostBetween DEF Updates
<1> QED BY <1>0, <1>1, <1>2, <1>3, <1>4, PostsAreIn

\* A thread that removes a node: no other one updates right behind that node, nor
\* removes it.
LEMMA NodeIsAlone ==
    ASSUME NEW S, NEW R, NEW j, SortedState(S, R, j), NEW t \in Caller, Updates(t), Sorted!Adjacent(t),
           NEW u \in Caller, u # t, s_pc[u] \in Changing
    PROVE  right[u] # left[t] /\ (s_pc[t] \in Changing => right[u] # right[t])
<1>0. SortedTypes /\ SortedList(S) /\ SortedThread(S, R[t], j, t) /\ SortedThread(S, R[u], j, u)
  BY DEF SortedState
<1>1. s_pc[u] # "idle" /\ s_pc[t] # "idle" /\ s_pc[t] # "walk"
  BY DEF Updates, Changing
<1>2. /\ SOp(u) = "remove" /\ right[u] \in S /\ right[u] # First /\ SKeys[right[u]] = Wanted(u)
      /\ Updates(u)
  BY <1>0, <1>1 DEF SortedThread, Stands, Updates, Changing
<1>3. PICK q \in s_keys : q \in Int /\ Sorted!Between(Wanted(u), q, Wanted(t))
  BY <1>2, TwoUpdate
<1>4. Wanted(u) \in Int /\ Wanted(t) \in Int
  BY <1>2, TwoUpdate
<1>5. /\ left[t] = First \/ SKeys[left[t]] < Wanted(t)
      /\ right[t] = Last \/ (SKeys[right[t]] >= Wanted(t) /\ SKeys[right[t]] \in Int)
      /\ s_pc[t] \in Changing => SKeys[right[t]] = Wanted(t)
  BY <1>0, <1>1, SeenNodes DEF SortedThread, Stands
<1>6. ASSUME right[u] = left[t] PROVE FALSE
  <2>1. Wanted(u) < q /\ q < Wanted(t)
    BY <1>2, <1>3, <1>4, <1>5, <1>6 DEF Sorted!Between
  <2>2. s_next[left[t]] # Last /\ SKeys[s_next[left[t]]] <= q
    BY <1>0, <1>2, <1>6, <2>1, NextGreater
  <2>3. s_next[left[t]] = right[t]
    BY DEF Sorted!Adjacent
  <2> QED BY <1>3, <1>4, <1>5, <2>1, <2>2, <2>3
<1>7. ASSUME s_pc[t] \in Changing, right[u] = right[t] PROVE FALSE
  BY <1>2, <1>3, <1>4, <1>5, <1>7 DEF Sorted!Between
<1> QED BY <1>6, <1>7
-----------------------------------------------------------------------------
(* What a step of one thread is to the others. *)

\* Thread t makes a step: calls go on, what is seen is kept, and the others stay
\* where they are.
Moves(t) ==
    /\ s_program' = s_program /\ Sorted!Sees
    /\ \A u \in Caller : s_at[u] \in Nat /\ s_at'[u] \in Nat /\ s_at'[u] >= s_at[u]
    /\ \A u \in Caller \ {t} : /\ s_at'[u] = s_at[u] /\ s_pc'[u] = s_pc[u] /\ left'[u] = left[u]
                               /\ right'[u] = right[u] /\ after'[u] = after[u]

LEMMA KeysStay == s_program' = s_program => SKeys' = SKeys
BY DEF SKeys, SNode, Sorted!Node, Sorted!KeyOf

\* The call of a thread that stays in it.
LEMMA CallStays ==
    ASSUME s_program' = s_program, NEW u, s_at'[u] = s_at[u]
    PROVE  /\ Wanted(u)' = Wanted(u) /\ SOp(u)' = SOp(u)
           /\ Sorted!Calls(u)' <=> Sorted!Calls(u)
BY DEF Wanted, SOp, Sorted!Key, Sorted!Operation, Sorted!Calls

\* It sees the set after the step, and keeps what it saw.
LEMMA SeesOn ==
    ASSUME Sorted!Sees, NEW u \in Caller, s_pc'[u] # "idle"
    PROVE  /\ seen[u] \subseteq seen'[u]
           /\ Wanted(u) \in s_keys' => TRUE \in seen'[u]
           /\ Wanted(u) \notin s_keys' => FALSE \in seen'[u]
<1>1. seen'[u] = seen[u] \cup {Sorted!Key(u) \in s_keys'}
  BY DEF Sorted!Sees
<1>2. ASSUME Wanted(u) \in s_keys' PROVE TRUE \in seen'[u]
  <2>1. (Sorted!Key(u) \in s_keys') = TRUE
    BY <1>2 DEF Wanted
  <2> QED BY <1>1, <2>1
<1>3. ASSUME Wanted(u) \notin s_keys' PROVE FALSE \in seen'[u]
  <2>1. (Sorted!Key(u) \in s_keys') = FALSE
    BY <1>3 DEF Wanted
  <2> QED BY <1>1, <2>1
<1> QED BY <1>1, <1>2, <1>3

\* What was linked and what was removed stay so.
LEMMA LinkedOn == ASSUME NEW t, Moves(t), NEW n, WasLinked(n) PROVE WasLinked(n)'
<1>1. /\ n \in Caller \X (1..MaxCalls) /\ n[2] < s_at[n[1]] /\ n[1] \in Caller /\ n[2] \in Nat
      /\ n[2] \in DOMAIN s_program[n[1]] /\ s_program[n[1]][n[2]][1] = "insert"
  BY DEF WasLinked
<1>2. s_program' = s_program /\ s_at[n[1]] \in Nat /\ s_at'[n[1]] \in Nat /\ s_at'[n[1]] >= s_at[n[1]]
  BY <1>1 DEF Moves
<1>3. n[2] < s_at'[n[1]]
  BY <1>1, <1>2
<1> QED BY <1>1, <1>2, <1>3 DEF WasLinked

LEMMA GoneOn ==
    ASSUME SortedTypes, NEW t, Moves(t), NEW j, NEW u, NEW k, GoneFor(j, u, k)
    PROVE  GoneFor(j, u, k)'
<1>1. PICK v \in Caller \ {u} : \E i \in DOMAIN s_program[v] :
         j < i /\ i < s_at[v] /\ s_program[v][i] = <<"remove", k>>
  BY DEF GoneFor
<1>2. PICK i \in DOMAIN s_program[v] : j < i /\ i < s_at[v] /\ s_program[v][i] = <<"remove", k>>
  BY <1>1
<1>3. s_program' = s_program /\ s_at[v] \in Nat /\ s_at'[v] \in Nat /\ s_at'[v] >= s_at[v] /\ i \in Nat
  BY SortedCalls DEF Moves
<1>4. i < s_at'[v]
  BY <1>2, <1>3
<1>5. i \in DOMAIN s_program'[v] /\ s_program'[v][i] = <<"remove", k>>
  BY <1>2, <1>3
<1> QED BY <1>2, <1>4, <1>5 DEF GoneFor

\* A node that was left behind stays so, unless its successor changes.
LEMMA BehindOn ==
    ASSUME SortedTypes, NEW t, Moves(t), NEW j, NEW u \in Caller, s_at'[u] = s_at[u],
           s_pc'[u] # "idle", NEW n, LeftBehind(j, u, n), s_next'[n] = s_next[n]
    PROVE  LeftBehind(j, u, n)'
<1>1. s_program' = s_program /\ Sorted!Sees
  BY DEF Moves
<1>2. SKeys' = SKeys /\ Wanted(u)' = Wanted(u) /\ seen[u] \subseteq seen'[u]
  BY <1>1, KeysStay, CallStays, SeesOn
<1>3. GoneFor(j, u, SKeys[n])'
  <2>1. PICK k : k = SKeys[n]
    OBVIOUS
  <2>2. GoneFor(j, u, k)'
    BY <2>1, GoneOn DEF LeftBehind
  <2> QED BY <1>2, <2>1, <2>2
<1> QED BY <1>1, <1>2, <1>3 DEF LeftBehind

\* What a thread may come to while the list stays as it is.
LEMMA SightsOn ==
    ASSUME SortedTypes, NEW t, Moves(t), NEW S, NEW R, NEW j, NEW u \in Caller, Sights(S, R, j, u),
           s_next' = s_next, s_keys' = s_keys, s_at'[u] = s_at[u], s_pc'[u] # "idle"
    PROVE  Sights(S, R, j, u)'
<1>1. s_program' = s_program /\ Sorted!Sees
  BY DEF Moves
<1>2. SKeys' = SKeys /\ Wanted(u)' = Wanted(u) /\ seen[u] \subseteq seen'[u]
  BY <1>1, KeysStay, CallStays, SeesOn
<1>3. ASSUME NEW n \in R \ S PROVE LeftBehind(j, u, n)'
  BY BehindOn DEF Sights
<1>4. ASSUME NEW n \in R, n # First PROVE WasLinked(n)'
  BY <1>4, LinkedOn DEF Sights
<1> QED BY <1>2, <1>3, <1>4 DEF Sights

\* The list itself.
LEMMA ListStays ==
    ASSUME NEW t, Moves(t), NEW S, SortedList(S), s_next' = s_next, s_keys' = s_keys
    PROVE  SortedList(S)'
<1>1. SKeys' = SKeys
  BY KeysStay DEF Moves
<1>2. ASSUME NEW n \in S, n # First PROVE WasLinked(n)'
  BY <1>2, LinkedOn DEF SortedList, SLinked
<1>3. SLinked(S)'
  BY <1>1, <1>2 DEF SortedList, SLinked
<1> QED BY <1>1, <1>3 DEF SortedList

\* The phases, while no thread comes to a further call.
LEMMA PhasesStay ==
    ASSUME NEW j, SortedPhases(j), s_program' = s_program, s_at' = s_at, s_keys' = s_keys
    PROVE  SortedPhases(j)'
BY DEF SortedPhases, Stays

\* Another thread, while the list stays as it is.
LEMMA OtherStays ==
    ASSUME SortedTypes, NEW t, Moves(t), NEW S, NEW R, NEW j, NEW u \in Caller, u # t,
           SortedThread(S, R, j, u), s_next' = s_next, s_keys' = s_keys
    PROVE  SortedThread(S, R, j, u)'
<1> SUFFICES ASSUME s_pc'[u] # "idle"
             PROVE  /\ Sorted!Calls(u)' /\ SOp(u)' \in {"insert", "remove", "search"}
                    /\ Sights(S, R, j, u)' /\ Stands(S, R, u)'
  BY DEF SortedThread
<1>1. /\ s_program' = s_program /\ s_at'[u] = s_at[u] /\ s_pc'[u] = s_pc[u] /\ left'[u] = left[u]
      /\ right'[u] = right[u] /\ after'[u] = after[u]
  BY DEF Moves
<1>2. SKeys' = SKeys /\ Wanted(u)' = Wanted(u) /\ SOp(u)' = SOp(u) /\ (Sorted!Calls(u)' <=> Sorted!Calls(u))
  BY <1>1, KeysStay, CallStays
<1>3. /\ Sorted!Calls(u) /\ SOp(u) \in {"insert", "remove", "search"}
      /\ Sights(S, R, j, u) /\ Stands(S, R, u)
  BY <1>1 DEF SortedThread
<1>4. Sights(S, R, j, u)'
  BY <1>1, <1>3, SightsOn
<1>5. Stands(S, R, u)'
  BY <1>1, <1>2, <1>3 DEF Stands
<1> QED BY <1>2, <1>3, <1>4, <1>5
-----------------------------------------------------------------------------
(* Steps that leave the list as it is. *)

\* Such a step, after which t may come to T.
LEMMA QuietStep ==
    ASSUME NEW S, NEW R, NEW j, SortedState(S, R, j), NEW t \in Caller, Moves(t), SortedTypes',
           SortedPhases(j)', s_next' = s_next, s_keys' = s_keys, misfits' = {},
           NEW T, SortedThread(S, T, j, t)'
    PROVE  SortedInv'
<1> PICK Q : Q = [u \in Caller |-> IF u = t THEN T ELSE R[u]]
  OBVIOUS
<1>1. ASSUME NEW u \in Caller PROVE SortedThread(S, Q[u], j, u)'
  <2>1. CASE u = t
    BY <2>1
  <2>2. CASE u # t
    <3>1. Q[u] = R[u] /\ SortedTypes /\ SortedThread(S, R[u], j, u)
      BY <2>2 DEF SortedState
    <3>2. SortedThread(S, R[u], j, u)'
      BY <2>2, <3>1, OtherStays
    <3> QED BY <3>1, <3>2
  <2> QED BY <2>1, <2>2
<1>2. SortedList(S)'
  BY ListStays DEF SortedState
<1>3. SortedState(S, Q, j)'
  BY <1>1, <1>2 DEF SortedState
<1> QED BY <1>3 DEF SortedInv

\* The thread that makes the step stays in its call.
Places == {"walk", "check", "link", "load", "touch", "unlink"}
Remains(t, place) ==
    /\ Sorted!GoesOn(t, place) /\ place \in Places
    /\ left' \in [Caller -> SNode] /\ right' \in [Caller -> SNode \cup {Last}]
    /\ after' \in [Caller -> SNode \cup {Last}]
    /\ \A u \in Caller \ {t} : left'[u] = left[u] /\ right'[u] = right[u] /\ after'[u] = after[u]

LEMMA RemainsMoves ==
    ASSUME NEW S, NEW R, NEW j, SortedState(S, R, j), NEW t \in Caller, NEW place, Remains(t, place)
    PROVE  /\ Moves(t) /\ SortedTypes' /\ SortedPhases(j)' /\ s_next' = s_next /\ s_keys' = s_keys
           /\ misfits' = {} /\ s_pc'[t] = place /\ place # "idle" /\ s_at'[t] = s_at[t]
           /\ Wanted(t)' = Wanted(t) /\ SOp(t)' = SOp(t) /\ (Sorted!Calls(t)' <=> Sorted!Calls(t))
           /\ SKeys' = SKeys
<1>1. /\ s_pc' = [s_pc EXCEPT ![t] = place] /\ Sorted!Sees /\ place \in Places
      /\ s_next' = s_next /\ s_program' = s_program /\ s_at' = s_at /\ s_keys' = s_keys /\ misfits' = misfits
  BY DEF Remains, Sorted!GoesOn, Sorted!Goto
<1>2. SortedTypes /\ SortedPhases(j) /\ misfits = {}
  BY DEF SortedState
<1>3. SortedPhases(j)'
  BY <1>1, <1>2, PhasesStay
<1>4. s_pc' \in [Caller -> {"idle", "walk", "check", "link", "load", "touch", "unlink"}]
      /\ s_pc'[t] = place /\ \A u \in Caller \ {t} : s_pc'[u] = s_pc[u]
  BY <1>1, <1>2 DEF SortedTypes, Places
<1>5. SNode' = SNode
  BY DEF SNode, Sorted!Node
<1>6. SortedTypes'
  BY <1>1, <1>2, <1>4, <1>5 DEF SortedTypes, Remains
<1>7. Moves(t)
  BY <1>1, <1>2, <1>4 DEF Moves, Remains, SortedTypes
<1>8. /\ Wanted(t)' = Wanted(t) /\ SOp(t)' = SOp(t) /\ (Sorted!Calls(t)' <=> Sorted!Calls(t))
      /\ SKeys' = SKeys
  BY <1>1, KeysStay, CallStays
<1> QED BY <1>1, <1>2, <1>3, <1>4, <1>6, <1>7, <1>8 DEF Places

\* From where it stands in a call.
LEMMA InCall ==
    ASSUME NEW S, NEW R, NEW j, SortedState(S, R, j), NEW t \in Caller, s_pc[t] # "idle"
    PROVE  /\ SortedTypes /\ SortedList(S) /\ Sights(S, R[t], j, t) /\ Stands(S, R[t], t)
           /\ Sorted!Calls(t) /\ SOp(t) \in {"insert", "remove", "search"}
           /\ Wanted(t) \in Int /\ First \in R[t] /\ First \in S /\ R[t] \subseteq SNode /\ Last \notin R[t]
           /\ \A n \in R[t] : n # First => SKeys[n] \in Int
           /\ \A n \in R[t] : s_next[n] \in (R[t] \ {First}) \cup {Last}
<1>1. /\ SortedTypes /\ SortedList(S) /\ Sights(S, R[t], j, t) /\ Stands(S, R[t], t)
      /\ Sorted!Calls(t) /\ SOp(t) \in {"insert", "remove", "search"}
  BY DEF SortedState, SortedThread
<1>2. Wanted(t) \in Int
  BY <1>1, SortedCall
<1>3. First \in S
  BY <1>1, ListedNodes
<1>4. /\ S \subseteq R[t] /\ \A n \in R[t] : n # First => SKeys[n] \in Int
      /\ R[t] \subseteq SNode /\ Last \notin R[t]
  BY <1>1, SeenNodes
<1> QED BY <1>1, <1>2, <1>3, <1>4 DEF Sights

\* What remains to be shown of such a step is where the thread stands after it.
LEMMA RemainsWell ==
    ASSUME NEW S, NEW R, NEW j, SortedState(S, R, j), NEW t \in Caller, NEW place, Remains(t, place),
           s_pc[t] # "idle", Stands(S, R[t], t)'
    PROVE  SortedInv'
<1>1. /\ Moves(t) /\ SortedTypes' /\ SortedPhases(j)' /\ s_next' = s_next /\ s_keys' = s_keys
      /\ misfits' = {} /\ s_pc'[t] # "idle" /\ s_at'[t] = s_at[t]
      /\ SOp(t)' = SOp(t) /\ (Sorted!Calls(t)' <=> Sorted!Calls(t))
  BY RemainsMoves
<1>2. /\ SortedTypes /\ Sights(S, R[t], j, t)
      /\ Sorted!Calls(t) /\ SOp(t) \in {"insert", "remove", "search"}
  BY InCall
<1>3. Sights(S, R[t], j, t)'
  BY <1>1, <1>2, SightsOn
<1>4. SortedThread(S, R[t], j, t)'
  BY <1>1, <1>2, <1>3 DEF SortedThread
<1> QED BY <1>1, <1>4, QuietStep

\* The walk starts over at the first node.
LEMMA StartsOverRemains ==
    ASSUME SortedTypes, NEW t \in Caller, Sorted!StartsOver(t)
    PROVE  Remains(t, "walk") /\ right'[t] = First
<1>1. /\ Sorted!GoesOn(t, "walk") /\ right' = [right EXCEPT ![t] = First]
      /\ left' = left /\ after' = after
  BY DEF Sorted!StartsOver
<1>2. First \in SNode
  BY DEF SNode, Sorted!Node
<1> QED BY <1>1, <1>2 DEF Remains, Places, SortedTypes

LEMMA StartsOverWell ==
    ASSUME SortedInv, NEW t \in Caller, Sorted!StartsOver(t), s_pc[t] # "idle"
    PROVE  SortedInv'
<1> PICK S, R, j : SortedState(S, R, j)
  BY DEF SortedInv
<1>1. Remains(t, "walk") /\ right'[t] = First
  BY StartsOverRemains DEF SortedState
<1>2. s_pc'[t] = "walk"
  BY <1>1, RemainsMoves
<1>3. First \in R[t]
  BY InCall
<1>4. Stands(S, R[t], t)'
  BY <1>1, <1>2, <1>3 DEF Stands, Changing
<1> QED BY <1>1, <1>4, RemainsWell

LEMMA BeginsWell == ASSUME SortedInv, NEW t \in Caller, Sorted!Begins(t) PROVE SortedInv'
<1> PICK S, R, j : SortedState(S, R, j)
  BY DEF SortedInv
<1>0. /\ SortedTypes /\ SortedList(S) /\ s_pc[t] = "idle" /\ Sorted!Calls(t) /\ SOp(t) # "join"
      /\ Sorted!StartsOver(t)
  BY DEF SortedState, Sorted!Begins, SOp
<1>1. Remains(t, "walk") /\ right'[t] = First
  BY <1>0, StartsOverRemains
<1>2. /\ Moves(t) /\ SortedTypes' /\ SortedPhases(j)' /\ s_next' = s_next /\ s_keys' = s_keys
      /\ misfits' = {} /\ s_pc'[t] = "walk" /\ s_at'[t] = s_at[t]
      /\ Wanted(t)' = Wanted(t) /\ SOp(t)' = SOp(t) /\ (Sorted!Calls(t)' <=> Sorted!Calls(t))
      /\ SKeys' = SKeys
  BY <1>1, RemainsMoves
<1>3. /\ Wanted(t) \in s_keys' => TRUE \in seen'[t]
      /\ Wanted(t) \notin s_keys' => FALSE \in seen'[t]
  BY <1>2, SeesOn DEF Moves
<1>4. SortedList(S)'
  BY <1>0, <1>2, ListStays
<1>5. /\ First \in S /\ \A n \in S : n # First => WasLinked(n)'
      /\ \A n \in S : s_next[n] \in (S \ {First}) \cup {Last}
      /\ \A n \in S : n # First => SKeys[n] \in s_keys
  <2>1. \A n \in S : n # First => WasLinked(n)'
    BY <1>4 DEF SortedList, SLinked
  <2> QED BY <2>1, <1>0 DEF SortedList, SLinked
<1>6. Sights(S, S, j, t)'
  <2>1. S \subseteq S /\ \A n \in S \ S : LeftBehind(j, t, n)'
    OBVIOUS
  <2>2. \A n \in S : s_next'[n] \in (S \ {First}) \cup {Last}
    BY <1>2, <1>5
  <2>3. \A n \in S : n # First /\ SKeys'[n] = Wanted(t)' => TRUE \in seen'[t]
    BY <1>2, <1>3, <1>5
  <2> QED BY <1>2, <1>3, <1>5, <2>1, <2>2, <2>3 DEF Sights
<1>7. Stands(S, S, t)'
  BY <1>1, <1>2, <1>5 DEF Stands, Changing
<1>8. SOp(t) \in {"insert", "remove", "search"}
  <2>1. s_program[t][s_at[t]] \in SCall /\ s_program[t][s_at[t]][1] = SOp(t)
    BY <1>0, SortedCall, SortedCalls
  <2> QED BY <1>0, <2>1 DEF SCall
<1>9. SortedThread(S, S, j, t)'
  BY <1>0, <1>2, <1>6, <1>7, <1>8 DEF SortedThread
<1> QED BY <1>2, <1>9, QuietStep

\* One node further.
LEMMA WalkWell == ASSUME SortedInv, NEW t \in Caller, Sorted!Walk(t) PROVE SortedInv'
<1> PICK S, R, j : SortedState(S, R, j)
  BY DEF SortedInv
<1> PICK r : r = right[t]
  OBVIOUS
<1>1. /\ s_pc[t] = "walk" /\ left' = [left EXCEPT ![t] = right[t]]
      /\ right' = [right EXCEPT ![t] = s_next[right[t]]] /\ after' = after
      /\ Sorted!GoesOn(t, IF right'[t] # Last /\ Sorted!Passes(right'[t], Sorted!Key(t))
                          THEN "walk" ELSE "check")
  BY DEF Sorted!Walk
<1>2. /\ SortedTypes /\ Stands(S, R[t], t) /\ Wanted(t) \in Int /\ First \in R[t]
      /\ R[t] \subseteq SNode /\ Last \notin R[t]
      /\ \A n \in R[t] : n # First => SKeys[n] \in Int
      /\ \A n \in R[t] : s_next[n] \in (R[t] \ {First}) \cup {Last}
  BY <1>1, InCall
<1>3. r \in R[t] /\ (r = First \/ SKeys[r] < Wanted(t))
  BY <1>1, <1>2 DEF Stands
<1>4. s_next[r] \in (R[t] \ {First}) \cup {Last} /\ r \in SNode /\ s_next[r] \in SNode \cup {Last}
  BY <1>2, <1>3
<1>5. left'[t] = r /\ right'[t] = s_next[r]
  BY <1>1, <1>2 DEF SortedTypes
<1>6. s_next[r] # Last => Sorted!KeyOf(s_next[r]) = SKeys[s_next[r]] /\ SKeys[s_next[r]] \in Int
  BY <1>2, <1>4 DEF SKeys
<1>7. PICK place \in {"walk", "check"} :
         /\ Sorted!GoesOn(t, place)
         /\ place = "walk" <=> s_next[r] # Last /\ SKeys[s_next[r]] < Wanted(t)
  <2>1. CASE s_next[r] # Last /\ SKeys[s_next[r]] < Wanted(t)
    <3>1. Sorted!GoesOn(t, "walk")
      BY <1>1, <1>5, <1>6, <2>1 DEF Sorted!Passes, Wanted
    <3> QED BY <2>1, <3>1
  <2>2. CASE ~(s_next[r] # Last /\ SKeys[s_next[r]] < Wanted(t))
    <3>1. Sorted!GoesOn(t, "check")
      BY <1>1, <1>5, <1>6, <2>2 DEF Sorted!Passes, Wanted
    <3> QED BY <2>2, <3>1
  <2> QED BY <2>1, <2>2
<1>8. Remains(t, place)
  <2>1. left' \in [Caller -> SNode] /\ right' \in [Caller -> SNode \cup {Last}]
    BY <1>1, <1>2, <1>4 DEF SortedTypes
  <2>2. \A u \in Caller \ {t} : left'[u] = left[u] /\ right'[u] = right[u] /\ after'[u] = after[u]
    BY <1>1, <1>2 DEF SortedTypes
  <2> QED BY <1>1, <1>2, <1>7, <2>1, <2>2 DEF Remains, Places, SortedTypes
<1>9. s_pc'[t] = place /\ Wanted(t)' = Wanted(t) /\ SKeys' = SKeys
  BY <1>8, RemainsMoves
<1>10. Stands(S, R[t], t)'
  <2>1. CASE place = "walk"
    BY <1>4, <1>5, <1>7, <1>9, <2>1 DEF Stands, Changing
  <2>2. CASE place = "check"
    BY <1>2, <1>3, <1>4, <1>5, <1>6, <1>7, <1>9, <2>2 DEF Stands, Changing
  <2> QED BY <1>7, <2>1, <2>2
<1> QED BY <1>1, <1>8, <1>10, RemainsWell

\* A thread that found its place decides to link or to unlink there.
LEMMA DecidesWell == ASSUME SortedInv, NEW t \in Caller, Sorted!Decides(t) PROVE SortedInv'
<1> PICK S, R, j : SortedState(S, R, j)
  BY DEF SortedInv
<1> PICK place : place = IF Sorted!Operation(t) = "insert" THEN "link" ELSE "load"
  OBVIOUS
<1>1. /\ s_pc[t] = "check" /\ SOp(t) # "search" /\ (Sorted!Found(t) <=> SOp(t) = "remove")
      /\ Sorted!GoesOn(t, place) /\ left' = left /\ right' = right /\ after' = after
  <2>1. Sorted!Found(t) = (SOp(t) = "remove")
    BY DEF Sorted!Decides, SOp
  <2>2. Sorted!Found(t) <=> SOp(t) = "remove"
    BY <2>1
  <2> QED BY <2>2 DEF Sorted!Decides, SOp
<1>2. /\ SortedTypes /\ Stands(S, R[t], t) /\ Sorted!Calls(t) /\ SOp(t) \in {"insert", "remove"}
  BY <1>1, InCall
<1>3. Remains(t, place)
  BY <1>1, <1>2 DEF Remains, Places, SortedTypes
<1>4. s_pc'[t] = place /\ Wanted(t)' = Wanted(t) /\ SOp(t)' = SOp(t) /\ SKeys' = SKeys
  BY <1>3, RemainsMoves
<1>5. right[t] \in SNode \cup {Last}
  BY <1>2 DEF SortedTypes
<1>6. Sorted!Found(t) <=> right[t] # Last /\ SKeys[right[t]] = Wanted(t)
  BY <1>5 DEF Sorted!Found, SKeys, Wanted
<1>7. SOp(t) = "remove" => right[t] \in S /\ right[t] # Last
  BY <1>1, <1>2, <1>6, RightInList DEF Updates
<1>8. place = "link" <=> SOp(t) = "insert"
  BY <1>2 DEF SOp
<1>9. Stands(S, R[t], t)'
  <2>1. CASE SOp(t) = "insert"
    BY <1>1, <1>2, <1>4, <1>6, <1>8, <2>1 DEF Stands, Changing
  <2>2. CASE SOp(t) = "remove"
    <3>1. place = "load"
      BY <1>8, <2>2 DEF SOp
    <3>2. right[t] # First
      BY <1>1, <1>2, <1>7, <2>2 DEF Stands
    <3> QED BY <1>1, <1>2, <1>4, <1>6, <1>7, <2>2, <3>1, <3>2 DEF Stands, Changing
  <2> QED BY <1>2, <2>1, <2>2
<1> QED BY <1>1, <1>3, <1>9, RemainsWell

LEMMA LoadNextWell == ASSUME SortedInv, NEW t \in Caller, Sorted!LoadNext(t) PROVE SortedInv'
<1> PICK S, R, j : SortedState(S, R, j)
  BY DEF SortedInv
<1>1. /\ s_pc[t] = "load" /\ after' = [after EXCEPT ![t] = s_next[right[t]]]
      /\ left' = left /\ right' = right /\ Sorted!GoesOn(t, "touch")
  BY DEF Sorted!LoadNext
<1>2. SortedTypes /\ SortedList(S) /\ Stands(S, R[t], t)
  BY <1>1, InCall
<1>3. right[t] \in S /\ right[t] \in SNode
  BY <1>1, <1>2, ListedNodes DEF Stands, Changing
<1>4. Remains(t, "touch") /\ after'[t] = s_next[right[t]]
  BY <1>1, <1>2, <1>3 DEF Remains, Places, SortedTypes
<1>5. /\ s_pc'[t] = "touch" /\ Wanted(t)' = Wanted(t) /\ SOp(t)' = SOp(t) /\ SKeys' = SKeys
      /\ s_next' = s_next
  BY <1>4, RemainsMoves
<1>6. Stands(S, R[t], t)'
  BY <1>1, <1>2, <1>4, <1>5 DEF Stands, Changing
<1> QED BY <1>1, <1>4, <1>6, RemainsWell

LEMMA TouchWell == ASSUME SortedInv, NEW t \in Caller, Sorted!Touch(t) PROVE SortedInv'
<1> PICK S, R, j : SortedState(S, R, j)
  BY DEF SortedInv
<1>1. /\ s_pc[t] = "touch" /\ left' = left /\ right' = right /\ after' = after
      /\ Sorted!GoesOn(t, "unlink")
  BY DEF Sorted!Touch
<1>2. SortedTypes /\ Stands(S, R[t], t)
  BY <1>1, InCall
<1>3. Remains(t, "unlink")
  BY <1>1, <1>2 DEF Remains, Places, SortedTypes
<1>4. /\ s_pc'[t] = "unlink" /\ Wanted(t)' = Wanted(t) /\ SOp(t)' = SOp(t) /\ SKeys' = SKeys
      /\ s_next' = s_next
  BY <1>3, RemainsMoves
<1>5. Stands(S, R[t], t)'
  BY <1>1, <1>2, <1>4 DEF Stands, Changing
<1> QED BY <1>1, <1>3, <1>5, RemainsWell
-----------------------------------------------------------------------------
(* Steps that return. *)

\* The thread comes to its next call.
LEMMA ReturnsMoves ==
    ASSUME NEW S, NEW R, NEW j, SortedState(S, R, j), NEW t \in Caller, Sorted!Calls(t),
           NEW answer_, NEW fits, Sorted!Returns(t, answer_, fits),
           s_next' \in [SNode -> SNode \cup {Last}]
    PROVE  /\ Moves(t) /\ SortedTypes' /\ s_pc'[t] = "idle" /\ s_at' = [s_at EXCEPT ![t] = @ + 1]
           /\ fits => misfits' = {}
<1>1. /\ s_pc' = [s_pc EXCEPT ![t] = "idle"] /\ s_at' = [s_at EXCEPT ![t] = @ + 1]
      /\ misfits' = misfits \cup (IF fits THEN {} ELSE {<<t, s_at[t], answer_>>})
      /\ Sorted!Sees /\ s_program' = s_program /\ left' = left /\ right' = right /\ after' = after
  BY DEF Sorted!Returns, Sorted!Goto
<1>2. SortedTypes /\ misfits = {}
  BY DEF SortedState
<1>3. /\ \A u \in Caller : s_at[u] \in Nat /\ s_at[u] \in 1..(Len(s_program[u]) + 1)
      /\ \A u \in Caller : Len(s_program[u]) \in Nat /\ s_at[t] <= Len(s_program[t])
  BY <1>2, SortedProgram DEF SortedTypes, Sorted!Calls
<1>4. /\ s_at'[t] = s_at[t] + 1 /\ \A u \in Caller \ {t} : s_at'[u] = s_at[u]
      /\ s_pc'[t] = "idle" /\ \A u \in Caller \ {t} : s_pc'[u] = s_pc[u]
  BY <1>1, <1>2 DEF SortedTypes
<1>5. \A u \in Caller : /\ s_at'[u] \in Nat /\ s_at'[u] >= s_at[u]
                        /\ s_at'[u] \in 1..(Len(s_program[u]) + 1)
  BY <1>3, <1>4
<1>6. SNode' = SNode
  BY DEF SNode, Sorted!Node
<1>7. SortedTypes'
  <2>1. s_at' \in [Caller -> Nat] /\ s_pc' \in [Caller -> {"idle", "walk", "check", "link", "load", "touch", "unlink"}]
    BY <1>1, <1>2 DEF SortedTypes
  <2> QED BY <1>1, <1>2, <1>5, <1>6, <2>1 DEF SortedTypes
<1>8. Moves(t)
  BY <1>1, <1>3, <1>4, <1>5 DEF Moves
<1> QED BY <1>1, <1>2, <1>4, <1>7, <1>8

\* The phases go on when what stays is kept.
LEMMA PhasesOn ==
    ASSUME NEW S, NEW R, NEW j, SortedState(S, R, j), NEW t \in Caller, Sorted!Calls(t), Moves(t),
           s_at' = [s_at EXCEPT ![t] = @ + 1],
           \A k \in s_keys : Stays(k) => k \in s_keys',
           SOp(t) = "insert" /\ Stays(Wanted(t)) => Wanted(t) \in s_keys',
           SOp(t) = "join" => \A u \in Caller : s_at[u] >= s_at[t]
    PROVE  SortedPhases(j)'
<1>1. SortedTypes /\ SortedPhases(j) /\ s_program' = s_program /\ j \in Nat
  BY DEF SortedState, Moves, SortedPhases
<1>2. /\ s_at'[t] = s_at[t] + 1 /\ \A u \in Caller \ {t} : s_at'[u] = s_at[u]
      /\ \A u \in Caller : s_at[u] \in Nat /\ s_at'[u] \in Nat /\ s_at'[u] >= s_at[u]
  BY <1>1 DEF SortedTypes, Moves
<1>3. ASSUME NEW v \in Caller, s_at'[v] > j PROVE \A u \in Caller : s_at'[u] >= j
  <2>1. CASE s_at[v] > j
    <3>1. \A u \in Caller : s_at[u] >= j
      BY <1>1, <2>1 DEF SortedPhases
    <3> QED BY <1>1, <1>2, <3>1
  <2>2. CASE ~(s_at[v] > j)
    <3>1. v = t /\ s_at[t] = j
      BY <1>1, <1>2, <1>3, <2>2
    <3>2. SOp(t) = "join"
      BY <1>1, <3>1, SortedCall DEF SortedPhases, Sorted!Joined
    <3>3. \A u \in Caller : s_at[u] >= j
      BY <3>1, <3>2
    <3> QED BY <1>1, <1>2, <3>3
  <2> QED BY <2>1, <2>2
<1>4. ASSUME NEW v \in Caller, NEW i \in DOMAIN s_program[v], i < s_at'[v],
             s_program[v][i][1] = "insert", Stays(s_program[v][i][2])
      PROVE  s_program[v][i][2] \in s_keys'
  <2>1. i \in Nat
    BY <1>1, SortedCalls
  <2>2. CASE i < s_at[v]
    BY <1>1, <1>4, <2>2 DEF SortedPhases
  <2>3. CASE ~(i < s_at[v])
    <3>1. v = t /\ i = s_at[t]
      BY <1>2, <1>4, <2>1, <2>3
    <3> QED BY <1>1, <1>4, <3>1, SortedCall
  <2> QED BY <2>2, <2>3
<1>5. \A k : Stays(k)' <=> Stays(k)
  BY <1>1 DEF Stays
<1>6. Sorted!Joined(s_program, j)' /\ Sorted!Apart(s_program, j)'
  BY <1>1 DEF SortedPhases
<1> QED BY <1>1, <1>3, <1>4, <1>5, <1>6 DEF SortedPhases

\* What a thread that looked for its place answers was right at a moment of its call.
LEMMA AnswerFits ==
    ASSUME NEW S, NEW R, NEW j, SortedState(S, R, j), NEW t \in Caller, s_pc[t] = "check",
           Sorted!Adjacent(t)
    PROVE  Sorted!Found(t) \in seen[t]
<1>1. /\ SortedTypes /\ SortedList(S) /\ Sights(S, R[t], j, t) /\ Stands(S, R[t], t)
      /\ Sorted!Calls(t) /\ Wanted(t) \in Int /\ R[t] \subseteq SNode
      /\ \A n \in R[t] : n # First => SKeys[n] \in Int
  BY InCall
<1>2. /\ left[t] \in R[t] /\ (left[t] = First \/ SKeys[left[t]] < Wanted(t))
      /\ right[t] \in (R[t] \ {First}) \cup {Last}
      /\ right[t] = Last \/ SKeys[right[t]] >= Wanted(t)
  BY <1>1 DEF Stands
<1>3. Sorted!Found(t) <=> right[t] # Last /\ SKeys[right[t]] = Wanted(t)
  <2>1. right[t] \in SNode \cup {Last}
    BY <1>1 DEF SortedTypes
  <2> QED BY <2>1 DEF Sorted!Found, SKeys, Wanted
<1>4. CASE Sorted!Found(t)
  <2>1. TRUE \in seen[t]
    BY <1>1, <1>2, <1>3, <1>4 DEF Sights
  <2>2. Sorted!Found(t) = TRUE
    BY <1>4 DEF Sorted!Found
  <2> QED BY <2>1, <2>2
<1>5. CASE ~Sorted!Found(t)
  <2>1. s_next[left[t]] = right[t] /\ (right[t] = Last \/ SKeys[right[t]] > Wanted(t))
    BY <1>1, <1>2, <1>3, <1>5 DEF Sorted!Adjacent
  <2>2. FALSE \in seen[t]
    <3>1. CASE left[t] \in S
      <4>1. Wanted(t) \notin s_keys
        <5> SUFFICES ASSUME Wanted(t) \in s_keys PROVE FALSE
          OBVIOUS
        <5>1. s_next[left[t]] # Last /\ s_next[left[t]] \in S /\ SKeys[s_next[left[t]]] <= Wanted(t)
          BY <1>1, <1>2, <3>1, NextGreater
        <5> QED BY <1>1, <1>2, <2>1, <5>1
      <4> QED BY <1>1, <4>1 DEF Sights
    <3>2. CASE left[t] \notin S
      <4>1. LeftBehind(j, t, left[t]) /\ left[t] # First
        BY <1>1, <1>2, <3>2, ListedNodes DEF Sights
      <4> QED BY <1>2, <2>1, <4>1 DEF LeftBehind
    <3> QED BY <3>1, <3>2
  <2>3. Sorted!Found(t) = FALSE
    BY <1>5 DEF Sorted!Found
  <2> QED BY <2>2, <2>3
<1> QED BY <1>4, <1>5

LEMMA AnswersWell == ASSUME SortedInv, NEW t \in Caller, Sorted!Answers(t) PROVE SortedInv'
<1> PICK S, R, j : SortedState(S, R, j)
  BY DEF SortedInv
<1> PICK fits : fits = (Sorted!Found(t) \in seen[t])
  OBVIOUS
<1> PICK ans : ans = (Sorted!Operation(t) = "search" /\ Sorted!Found(t))
  OBVIOUS
<1>1. /\ s_pc[t] = "check" /\ Sorted!Adjacent(t) /\ s_next' = s_next /\ s_keys' = s_keys
      /\ Sorted!Returns(t, ans, fits)
  BY DEF Sorted!Answers
<1>2. SOp(t) = "insert" => Sorted!Found(t)
  <2>1. SOp(t) = "insert" => Sorted!Found(t) = TRUE
    BY DEF Sorted!Answers, SOp
  <2> QED BY <2>1
<1>3. fits
  BY <1>1, AnswerFits
<1>4. /\ SortedTypes /\ SortedList(S) /\ Sights(S, R[t], j, t) /\ Stands(S, R[t], t)
      /\ Sorted!Calls(t) /\ SOp(t) \in {"insert", "remove", "search"}
  BY <1>1, InCall
<1>5. /\ Moves(t) /\ SortedTypes' /\ s_pc'[t] = "idle" /\ s_at' = [s_at EXCEPT ![t] = @ + 1]
      /\ misfits' = {}
  <2>1. s_next' \in [SNode -> SNode \cup {Last}]
    BY <1>1, <1>4 DEF SortedTypes
  <2> QED BY <1>1, <1>3, <1>4, <2>1, ReturnsMoves
<1>6. ASSUME SOp(t) = "insert", Stays(Wanted(t)) PROVE Wanted(t) \in s_keys
  <2>1. right[t] # Last /\ SKeys[right[t]] = Wanted(t) /\ right[t] \in R[t] /\ right[t] # First
    <3>1. right[t] \in SNode \cup {Last}
      BY <1>4 DEF SortedTypes
    <3>2. right[t] # Last /\ SKeys[right[t]] = Wanted(t)
      BY <1>2, <1>6, <3>1 DEF Sorted!Found, SKeys, Wanted
    <3> QED BY <1>1, <1>4, <3>2 DEF Stands
  <2>2. CASE right[t] \in S
    BY <1>4, <2>1, <2>2, ListedNodes
  <2>3. CASE right[t] \notin S
    <3>1. GoneFor(j, t, Wanted(t))
      BY <1>4, <2>1, <2>3 DEF Sights, LeftBehind
    <3> QED BY <1>6, <3>1 DEF GoneFor, Stays
  <2> QED BY <2>2, <2>3
<1>7. SortedPhases(j)'
  BY <1>1, <1>4, <1>5, <1>6, PhasesOn
<1>8. SortedThread(S, R[t], j, t)'
  BY <1>5 DEF SortedThread
<1> QED BY <1>1, <1>5, <1>7, <1>8, QuietStep

LEMMA JoinsWell == ASSUME SortedInv, NEW t \in Caller, Sorted!Joins(t) PROVE SortedInv'
<1> PICK S, R, j : SortedState(S, R, j)
  BY DEF SortedInv
<1>1. /\ Sorted!Calls(t) /\ SOp(t) = "join" /\ s_next' = s_next /\ s_keys' = s_keys
      /\ Sorted!Returns(t, TRUE, TRUE) /\ \A u \in Caller : s_at[u] >= s_at[t]
  BY DEF Sorted!Joins, SOp
<1>2. s_next' \in [SNode -> SNode \cup {Last}]
  BY <1>1 DEF SortedState, SortedTypes
<1>3. /\ Moves(t) /\ SortedTypes' /\ s_pc'[t] = "idle" /\ s_at' = [s_at EXCEPT ![t] = @ + 1]
      /\ misfits' = {}
  BY <1>1, <1>2, ReturnsMoves
<1>4. SortedPhases(j)'
  BY <1>1, <1>3, PhasesOn
<1>5. SortedThread(S, R[t], j, t)'
  BY <1>3 DEF SortedThread
<1> QED BY <1>1, <1>3, <1>4, <1>5, QuietStep
-----------------------------------------------------------------------------
(* Linking a node. *)

\* n is linked between l and what was behind it.
Linking(S, l, n, T) == /\ l \in S /\ n \notin S /\ n \in SNode /\ n # First /\ T = S \cup {n}
                       /\ s_next' = [s_next EXCEPT ![l] = n, ![n] = s_next[l]]
                       /\ l = First \/ SKeys[l] < SKeys[n]
                       /\ s_next[l] = Last \/ SKeys[s_next[l]] > SKeys[n]
                       /\ s_keys' = s_keys \cup {SKeys[n]}

LEMMA LinkKeepsList ==
    ASSUME SortedTypes, NEW t, Moves(t), NEW S, SortedList(S), NEW l, NEW n, NEW T,
           Linking(S, l, n, T), WasLinked(n)', SKeys[n] \in Int
    PROVE  SortedList(T)' /\ SKeys[n] \notin s_keys
<1>1. SKeys' = SKeys
  BY KeysStay DEF Moves
<1>2. /\ First \in S /\ S \subseteq SNode /\ Last \notin S
      /\ \A m \in S : m # First => SKeys[m] \in Int /\ SKeys[m] \in s_keys
  BY ListedNodes
<1>3. /\ l \in S /\ n \notin S /\ n \in SNode /\ n # First /\ T = S \cup {n} /\ n # l
      /\ l = First \/ SKeys[l] < SKeys[n]
      /\ s_next[l] = Last \/ SKeys[s_next[l]] > SKeys[n]
  BY DEF Linking
<1>4. s_next'[l] = n /\ s_next'[n] = s_next[l] /\ \A m \in S \ {l} : s_next'[m] = s_next[m]
  BY <1>2, <1>3 DEF Linking, SortedTypes
<1>5. /\ \A a, b \in S : a # First /\ b # First /\ SKeys[a] = SKeys[b] => a = b
      /\ \A a \in S : /\ s_next[a] \in (S \ {First}) \cup {Last}
                      /\ s_next[a] # Last /\ a # First => SKeys[a] < SKeys[s_next[a]]
                      /\ \A m \in S : m # First /\ (a = First \/ SKeys[a] < SKeys[m])
                                        => s_next[a] # Last /\ SKeys[s_next[a]] <= SKeys[m]
  BY DEF SortedList, SLinked
<1>6. SKeys[n] \notin s_keys
  <2> SUFFICES ASSUME SKeys[n] \in s_keys PROVE FALSE
    OBVIOUS
  <2>1. s_next[l] # Last /\ s_next[l] \in S /\ s_next[l] # First /\ SKeys[s_next[l]] <= SKeys[n]
    BY <1>3, NextGreater
  <2> QED BY <1>2, <1>3, <2>1
<1>7. \A m \in S : m # First => SKeys[m] # SKeys[n]
  BY <1>2, <1>6
<1>8. \A a, b \in T : a # First /\ b # First /\ SKeys[a] = SKeys[b] => a = b
  BY <1>3, <1>5, <1>7
<1>9. ASSUME NEW a \in T
      PROVE  /\ s_next'[a] \in (T \ {First}) \cup {Last}
             /\ s_next'[a] # Last /\ a # First => SKeys[a] < SKeys[s_next'[a]]
             /\ \A m \in T : m # First /\ (a = First \/ SKeys[a] < SKeys[m])
                               => s_next'[a] # Last /\ SKeys[s_next'[a]] <= SKeys[m]
  <2>0. n # Last
    BY NamesAssumption, <1>3 DEF SNode, Sorted!Node
  <2>1. CASE a = l
    <3>1. ASSUME NEW m \in T, m # First, a = First \/ SKeys[a] < SKeys[m]
          PROVE  SKeys[n] <= SKeys[m]
      <4>1. CASE m = n
        BY <4>1
      <4>2. CASE m \in S
        <5>1. s_next[l] # Last /\ SKeys[s_next[l]] <= SKeys[m] /\ s_next[l] \in S /\ s_next[l] # First
          BY <1>3, <1>5, <2>1, <3>1, <4>2
        <5> QED BY <1>2, <1>3, <3>1, <4>2, <5>1
      <4> QED BY <1>3, <4>1, <4>2
    <3> QED BY <1>3, <1>4, <2>0, <2>1, <3>1
  <2>2. CASE a = n
    <3>1. s_next'[a] = s_next[l] /\ s_next[l] \in (S \ {First}) \cup {Last}
      BY <1>3, <1>4, <1>5, <2>2
    <3>2. ASSUME NEW m \in T, m # First, SKeys[n] < SKeys[m]
          PROVE  s_next[l] # Last /\ SKeys[s_next[l]] <= SKeys[m]
      <4>1. m \in S
        BY <1>3, <3>2
      <4>2. l = First \/ SKeys[l] < SKeys[m]
        BY <1>2, <1>3, <3>2, <4>1
      <4> QED BY <1>3, <1>5, <3>2, <4>1, <4>2
    <3> QED BY <1>2, <1>3, <2>2, <3>1, <3>2
  <2>3. CASE a \in S /\ a # l
    <3>1. s_next'[a] = s_next[a] /\ s_next[a] \in (S \ {First}) \cup {Last}
      BY <1>4, <1>5, <2>3
    <3>2. ASSUME a = First \/ SKeys[a] < SKeys[n]
          PROVE  s_next[a] # Last /\ SKeys[s_next[a]] <= SKeys[n]
      <4>1. CASE l # First /\ (a = First \/ SKeys[a] < SKeys[l])
        <5>1. s_next[a] # Last /\ SKeys[s_next[a]] <= SKeys[l]
          BY <1>3, <1>5, <2>3, <4>1
        <5> QED BY <1>2, <1>3, <3>1, <4>1, <5>1
      <4>2. CASE l = First \/ ~(a = First \/ SKeys[a] < SKeys[l])
        <5>1. a # First /\ (l = First \/ SKeys[l] < SKeys[a])
          BY <1>2, <1>3, <1>5, <2>3, <4>2
        <5>2. s_next[l] # Last /\ SKeys[s_next[l]] <= SKeys[a] /\ s_next[l] \in S /\ s_next[l] # First
          BY <1>3, <1>5, <2>3, <5>1
        <5> QED BY <1>2, <1>3, <2>3, <3>2, <5>1, <5>2
      <4> QED BY <4>1, <4>2
    <3>3. ASSUME NEW m \in T, m # First, a = First \/ SKeys[a] < SKeys[m]
          PROVE  s_next[a] # Last /\ SKeys[s_next[a]] <= SKeys[m]
      BY <1>3, <1>5, <2>3, <3>2, <3>3
    <3> QED BY <1>3, <1>5, <2>3, <3>1, <3>3
  <2> QED BY <1>3, <2>1, <2>2, <2>3
<1>10. ASSUME NEW m \in T, m # First PROVE WasLinked(m)'
  <2>1. ASSUME m \in S PROVE WasLinked(m)
    BY <2>1, <1>10, ListedNodes
  <2> QED BY <1>3, <2>1, LinkedOn
<1>11. SLinked(T)'
  BY <1>1, <1>2, <1>3, <1>8, <1>9, <1>10 DEF SLinked
<1>12. s_keys' = {SKeys[m] : m \in T \ {First}}
  <2>1. s_keys' = s_keys \cup {SKeys[n]} /\ s_keys = {SKeys[m] : m \in S \ {First}}
    BY DEF Linking, SortedList
  <2> QED BY <1>3, <2>1
<1> QED BY <1>1, <1>6, <1>11, <1>12 DEF SortedList

\* Where another thread stands when a node is linked.
LEMMA LinkKeepsOther ==
    ASSUME NEW S, NEW R, NEW j, SortedState(S, R, j), NEW t \in Caller, Moves(t), Updates(t),
           Sorted!Adjacent(t), NEW n, NEW T, Linking(S, left[t], n, T), WasLinked(n)', ~WasLinked(n),
           SKeys[n] \in Int, NEW u \in Caller, u # t
    PROVE  SortedThread(T, R[u] \cup {n}, j, u)'
<1> SUFFICES ASSUME s_pc'[u] # "idle"
             PROVE  /\ Sorted!Calls(u)' /\ SOp(u)' \in {"insert", "remove", "search"}
                    /\ Sights(T, R[u] \cup {n}, j, u)' /\ Stands(T, R[u] \cup {n}, u)'
  BY DEF SortedThread
<1> PICK l : l = left[t]
  OBVIOUS
<1> PICK Q : Q = R[u] \cup {n}
  OBVIOUS
<1>1. /\ s_program' = s_program /\ s_at'[u] = s_at[u] /\ s_pc'[u] = s_pc[u] /\ left'[u] = left[u]
      /\ right'[u] = right[u] /\ after'[u] = after[u] /\ Sorted!Sees
  BY DEF Moves
<1>2. SKeys' = SKeys /\ Wanted(u)' = Wanted(u) /\ SOp(u)' = SOp(u) /\ (Sorted!Calls(u)' <=> Sorted!Calls(u))
  BY <1>1, KeysStay, CallStays
<1>3. /\ SortedTypes /\ SortedList(S) /\ Sights(S, R[u], j, u) /\ Stands(S, R[u], u)
      /\ Sorted!Calls(u) /\ SOp(u) \in {"insert", "remove", "search"}
      /\ First \in R[u] /\ First \in S /\ R[u] \subseteq SNode /\ Last \notin R[u]
  BY <1>1, InCall
<1>4. /\ S \subseteq R[u] /\ \A m \in R[u] : m # First => WasLinked(m)
      /\ \A m \in R[u] : s_next[m] \in (R[u] \ {First}) \cup {Last}
      /\ \A m \in R[u] : m # First /\ SKeys[m] = Wanted(u) => TRUE \in seen[u]
      /\ \A m \in R[u] \ S : LeftBehind(j, u, m)
  BY <1>3 DEF Sights
<1>5. /\ l \in S /\ n \notin S /\ n \in SNode /\ n # First /\ T = S \cup {n} /\ n # l
      /\ s_next' = [s_next EXCEPT ![l] = n, ![n] = s_next[l]] /\ s_keys' = s_keys \cup {SKeys[n]}
  BY DEF Linking
<1>6. n \notin R[u] /\ n # Last
  <2>1. n # Last
    BY NamesAssumption, <1>5 DEF SNode, Sorted!Node
  <2> QED BY <1>4, <1>5, <2>1
<1>7. s_next'[l] = n /\ s_next'[n] = s_next[l] /\ \A m \in R[u] \ {l} : s_next'[m] = s_next[m]
  BY <1>3, <1>5, <1>6 DEF SortedTypes
<1>8. /\ seen[u] \subseteq seen'[u]
      /\ Wanted(u) \in s_keys' => TRUE \in seen'[u]
      /\ Wanted(u) \notin s_keys' => FALSE \in seen'[u]
  BY <1>1, SeesOn
<1>9. \A m \in Q : m # First => WasLinked(m)'
  <2> SUFFICES ASSUME NEW m \in R[u], m # First PROVE WasLinked(m)'
    OBVIOUS
  <2>1. WasLinked(m)
    BY <1>4
  <2> QED BY <2>1, LinkedOn
<1>10. \A m \in Q : s_next'[m] \in (Q \ {First}) \cup {Last}
  <2> SUFFICES ASSUME NEW m \in Q PROVE s_next'[m] \in (Q \ {First}) \cup {Last}
    OBVIOUS
  <2>1. CASE m = l
    BY <1>5, <1>7, <2>1
  <2>2. CASE m = n
    <3>1. s_next[l] \in (R[u] \ {First}) \cup {Last}
      BY <1>4, <1>5
    <3> QED BY <1>7, <2>2, <3>1
  <2>3. CASE m \in R[u] \ {l}
    <3>1. s_next[m] \in (R[u] \ {First}) \cup {Last}
      BY <1>4, <2>3
    <3> QED BY <1>7, <2>3, <3>1
  <2> QED BY <2>1, <2>2, <2>3
<1>11. \A m \in Q : m # First /\ SKeys[m] = Wanted(u) => TRUE \in seen'[u]
  <2>1. \A m \in R[u] : m # First /\ SKeys[m] = Wanted(u) => TRUE \in seen'[u]
    BY <1>4, <1>8
  <2>2. SKeys[n] = Wanted(u) => TRUE \in seen'[u]
    BY <1>5, <1>8
  <2> QED BY <2>1, <2>2
<1>12. \A m \in Q \ T : LeftBehind(j, u, m)'
  <2> SUFFICES ASSUME NEW m \in R[u] \ S PROVE LeftBehind(j, u, m)'
    BY <1>5
  <2>1. s_next'[m] = s_next[m] /\ LeftBehind(j, u, m)
    BY <1>4, <1>5, <1>7
  <2> QED BY <1>1, <1>3, <2>1, BehindOn
<1>13. Sights(T, Q, j, u)'
  <2>1. T \subseteq Q
    BY <1>4, <1>5
  <2> QED BY <1>2, <1>8, <1>9, <1>10, <1>11, <1>12, <2>1 DEF Sights
<1>14. ASSUME s_pc[u] \in Changing PROVE right[u] \in S /\ s_next'[right[u]] = s_next[right[u]]
  <2>1. right[u] \in S
    BY <1>1, <1>3, <1>14 DEF Stands
  <2>2. right[u] # l
    BY <1>14, NodeIsAlone
  <2> QED BY <1>4, <1>7, <2>1, <2>2
<1>15. Stands(T, Q, u)'
  <2>1. S \subseteq T /\ R[u] \subseteq Q
    BY <1>5
  <2>2. s_pc[u] = "walk" => right[u] \in Q /\ (right[u] = First \/ SKeys[right[u]] < Wanted(u))
    BY <1>3, <2>1 DEF Stands
  <2>3. s_pc[u] # "walk" => /\ left[u] \in Q /\ (left[u] = First \/ SKeys[left[u]] < Wanted(u))
                            /\ right[u] \in (Q \ {First}) \cup {Last}
                            /\ right[u] = Last \/ SKeys[right[u]] >= Wanted(u)
    BY <1>3, <2>1 DEF Stands
  <2>4. s_pc[u] = "link" => SOp(u) = "insert" /\ (right[u] = Last \/ SKeys[right[u]] # Wanted(u))
    BY <1>3 DEF Stands
  <2>5. s_pc[u] \in Changing => /\ SOp(u) = "remove" /\ right[u] \in T /\ right[u] # First
                                /\ SKeys[right[u]] = Wanted(u)
                                /\ s_pc[u] # "load" => after[u] = s_next'[right[u]]
    BY <1>3, <1>14, <2>1 DEF Stands
  <2> QED BY <1>1, <1>2, <2>2, <2>3, <2>4, <2>5 DEF Stands
<1> QED BY <1>2, <1>3, <1>13, <1>15

\* After a change of the list, all that is left to say is what holds of every thread.
LEMMA ChangeStep ==
    ASSUME NEW T, NEW Q, NEW j, SortedTypes', SortedList(T)', SortedPhases(j)', misfits' = {},
           \A u \in Caller : SortedThread(T, Q[u], j, u)'
    PROVE  SortedInv'
<1>1. SortedState(T, Q, j)'
  BY DEF SortedState
<1> QED BY <1>1 DEF SortedInv

LEMMA LinkWell == ASSUME SortedInv, NEW t \in Caller, Sorted!Link(t) PROVE SortedInv'
<1> PICK S, R, j : SortedState(S, R, j)
  BY DEF SortedInv
<1> PICK n : n = <<t, s_at[t]>>
  OBVIOUS
<1> PICK l : l = left[t]
  OBVIOUS
<1> PICK fits : fits = (Sorted!Key(t) \notin s_keys)
  OBVIOUS
<1> PICK T : T = S \cup {n}
  OBVIOUS
<1>1. /\ s_pc[t] = "link" /\ Sorted!Adjacent(t) /\ s_keys' = s_keys \cup {Wanted(t)}
      /\ s_next' = [s_next EXCEPT ![l] = n, ![n] = right[t]]
      /\ Sorted!Returns(t, TRUE, fits) /\ s_next[l] = right[t]
  BY DEF Sorted!Link, Sorted!StillAdjacent, Sorted!Adjacent, Wanted
<1>2. /\ SortedTypes /\ SortedList(S) /\ Sights(S, R[t], j, t) /\ Stands(S, R[t], t)
      /\ Sorted!Calls(t) /\ Wanted(t) \in Int /\ \A m \in R[t] : m # First => SKeys[m] \in Int
  BY <1>1, InCall
<1>3. /\ SOp(t) = "insert" /\ (l = First \/ SKeys[l] < Wanted(t))
      /\ right[t] \in (R[t] \ {First}) \cup {Last}
      /\ right[t] = Last \/ (SKeys[right[t]] >= Wanted(t) /\ SKeys[right[t]] # Wanted(t))
  BY <1>1, <1>2 DEF Stands
<1>4. Updates(t)
  BY <1>1, <1>2, <1>3 DEF Updates
<1>5. l \in S
  BY <1>1, <1>4, LeftInList
<1>6. n \in SNode /\ SKeys[n] = Wanted(t) /\ s_at[t] \in DOMAIN s_program[t] /\ s_at[t] \in 1..MaxCalls
      /\ s_program[t][s_at[t]][1] = "insert" /\ s_at[t] \in Nat
  BY <1>2, <1>3, SortedCall
<1>7. ~WasLinked(n) /\ n # First /\ n \notin S
  <2>1. ~WasLinked(n)
    BY <1>6 DEF WasLinked
  <2>2. n # First
    BY NamesAssumption, <1>6
  <2> QED BY <1>2, <2>1, <2>2, ListedNodes
<1>8. /\ Moves(t) /\ SortedTypes' /\ s_pc'[t] = "idle" /\ s_at' = [s_at EXCEPT ![t] = @ + 1]
      /\ fits => misfits' = {}
  <2>1. s_next' \in [SNode -> SNode \cup {Last}]
    BY <1>1, <1>2, <1>6 DEF SortedTypes
  <2> QED BY <1>1, <1>2, <2>1, ReturnsMoves
<1>9. WasLinked(n)'
  <2>1. n \in Caller \X (1..MaxCalls) /\ n[1] = t /\ n[2] = s_at[t]
    BY <1>6
  <2>2. s_at'[t] = s_at[t] + 1
    BY <1>2, <1>8 DEF SortedTypes
  <2>3. s_program' = s_program
    BY <1>8 DEF Moves
  <2> QED BY <1>6, <2>1, <2>2, <2>3 DEF WasLinked
<1>10. Linking(S, l, n, T)
  <2>1. right[t] = Last \/ SKeys[right[t]] > SKeys[n]
    BY <1>2, <1>3, <1>6
  <2> QED BY <1>1, <1>3, <1>5, <1>6, <1>7, <2>1 DEF Linking
<1>11. SortedList(T)' /\ SKeys[n] \notin s_keys
  BY <1>2, <1>6, <1>8, <1>9, <1>10, LinkKeepsList
<1>12. fits
  BY <1>6, <1>11 DEF Wanted
<1>13. SortedPhases(j)'
  BY <1>1, <1>2, <1>3, <1>8, PhasesOn
<1> PICK Q : Q = [u \in Caller |-> IF u = t THEN S ELSE R[u] \cup {n}]
  OBVIOUS
<1>14. ASSUME NEW u \in Caller PROVE SortedThread(T, Q[u], j, u)'
  <2>1. CASE u = t
    BY <1>8, <2>1 DEF SortedThread
  <2>2. CASE u # t
    <3>1. SortedThread(T, R[u] \cup {n}, j, u)'
      BY <1>1, <1>2, <1>4, <1>6, <1>7, <1>8, <1>9, <1>10, <2>2, LinkKeepsOther
    <3>2. Q[u] = R[u] \cup {n}
      BY <2>2
    <3> QED BY <3>1, <3>2
  <2> QED BY <2>1, <2>2
<1> QED BY <1>8, <1>11, <1>12, <1>13, <1>14, ChangeStep
-----------------------------------------------------------------------------
(* Unlinking a node. *)

\* n, behind l, is unlinked.
Unlinking(S, l, n, T) == /\ l \in S /\ n \in S /\ n # First /\ s_next[l] = n /\ T = S \ {n}
                         /\ s_next' = [s_next EXCEPT ![l] = s_next[n]]
                         /\ l = First \/ SKeys[l] < SKeys[n]
                         /\ s_keys' = s_keys \ {SKeys[n]}

LEMMA UnlinkKeepsList ==
    ASSUME SortedTypes, NEW t, Moves(t), NEW S, SortedList(S), NEW l, NEW n, NEW T,
           Unlinking(S, l, n, T)
    PROVE  SortedList(T)'
<1>1. SKeys' = SKeys
  BY KeysStay DEF Moves
<1>2. /\ First \in S /\ S \subseteq SNode /\ Last \notin S
      /\ \A m \in S : m # First => SKeys[m] \in Int /\ WasLinked(m)
  BY ListedNodes
<1>3. /\ l \in S /\ n \in S /\ n # First /\ s_next[l] = n /\ T = S \ {n} /\ (l = First \/ SKeys[l] < SKeys[n])
      /\ s_keys' = s_keys \ {SKeys[n]} /\ s_keys = {SKeys[m] : m \in S \ {First}}
  BY DEF Unlinking, SortedList
<1>4. s_next'[l] = s_next[n] /\ \A m \in S \ {l} : s_next'[m] = s_next[m]
  BY <1>2, <1>3 DEF Unlinking, SortedTypes
<1>5. /\ \A a, b \in S : a # First /\ b # First /\ SKeys[a] = SKeys[b] => a = b
      /\ \A a \in S : /\ s_next[a] \in (S \ {First}) \cup {Last}
                      /\ s_next[a] # Last /\ a # First => SKeys[a] < SKeys[s_next[a]]
                      /\ \A m \in S : m # First /\ (a = First \/ SKeys[a] < SKeys[m])
                                        => s_next[a] # Last /\ SKeys[s_next[a]] <= SKeys[m]
  BY DEF SortedList, SLinked
<1>6. l # n
  BY <1>2, <1>3
<1>7. ASSUME NEW a \in T
      PROVE  /\ s_next'[a] \in (T \ {First}) \cup {Last}
             /\ s_next'[a] # Last /\ a # First => SKeys[a] < SKeys[s_next'[a]]
             /\ \A m \in T : m # First /\ (a = First \/ SKeys[a] < SKeys[m])
                               => s_next'[a] # Last /\ SKeys[s_next'[a]] <= SKeys[m]
  <2>1. CASE a = l
    <3>1. s_next'[a] = s_next[n] /\ s_next[n] \in (S \ {First}) \cup {Last}
      BY <1>3, <1>4, <1>5, <2>1
    <3>2. s_next[n] # Last => SKeys[n] < SKeys[s_next[n]] /\ SKeys[s_next[n]] \in Int
      BY <1>2, <1>3, <1>5, <3>1
    <3>3. s_next[n] # n
      BY <1>2, <1>3, <3>2
    <3>4. ASSUME NEW m \in T, m # First, a = First \/ SKeys[a] < SKeys[m]
          PROVE  s_next[n] # Last /\ SKeys[s_next[n]] <= SKeys[m]
      <4>1. m \in S /\ m # n /\ SKeys[n] <= SKeys[m]
        BY <1>3, <1>5, <2>1, <3>4
      <4>2. SKeys[n] # SKeys[m] /\ SKeys[n] \in Int /\ SKeys[m] \in Int
        BY <1>2, <1>3, <1>5, <3>4, <4>1
      <4>3. SKeys[n] < SKeys[m]
        BY <4>1, <4>2
      <4> QED BY <1>3, <1>5, <3>4, <4>1, <4>3
    <3>5. a # First /\ s_next[n] # Last => SKeys[a] < SKeys[s_next[n]]
      BY <1>2, <1>3, <2>1, <3>2
    <3> QED BY <1>3, <3>1, <3>3, <3>4, <3>5
  <2>2. CASE a # l
    <3>1. a \in S /\ s_next'[a] = s_next[a] /\ s_next[a] \in (S \ {First}) \cup {Last}
      BY <1>3, <1>4, <1>5, <2>2
    <3>2. s_next[a] # n
      <4> SUFFICES ASSUME s_next[a] = n PROVE FALSE
        OBVIOUS
      <4>0. n # Last /\ SKeys[n] \in Int
        BY <1>2, <1>3
      <4>1. CASE l # First /\ (a = First \/ SKeys[a] < SKeys[l])
        <5>1. SKeys[n] <= SKeys[l]
          BY <1>3, <1>5, <3>1, <4>1
        <5> QED BY <1>2, <1>3, <4>0, <4>1, <5>1
      <4>2. CASE l = First \/ ~(a = First \/ SKeys[a] < SKeys[l])
        <5>1. a # First /\ (l = First \/ SKeys[l] < SKeys[a])
          BY <1>2, <1>3, <1>5, <2>2, <3>1, <4>2
        <5>2. SKeys[n] <= SKeys[a]
          BY <1>3, <1>5, <3>1, <5>1
        <5>3. SKeys[a] < SKeys[n]
          BY <1>5, <3>1, <4>0, <5>1
        <5> QED BY <1>2, <3>1, <4>0, <5>1, <5>2, <5>3
      <4> QED BY <4>1, <4>2
    <3> QED BY <1>3, <1>5, <3>1, <3>2
  <2> QED BY <2>1, <2>2
<1>8. ASSUME NEW m \in T, m # First PROVE WasLinked(m)'
  <2>1. WasLinked(m)
    BY <1>2, <1>3, <1>8
  <2> QED BY <2>1, LinkedOn
<1>9. SLinked(T)'
  BY <1>1, <1>2, <1>3, <1>5, <1>7, <1>8 DEF SLinked
<1>10. s_keys' = {SKeys[m] : m \in T \ {First}}
  BY <1>3, <1>5
<1> QED BY <1>1, <1>9, <1>10 DEF SortedList

\* Where another thread stands when a node is unlinked: it may still come to the node.
LEMMA UnlinkKeepsOther ==
    ASSUME NEW S, NEW R, NEW j, SortedState(S, R, j), NEW t \in Caller, Moves(t), Updates(t),
           Sorted!Adjacent(t), NEW n, NEW T, Unlinking(S, left[t], n, T), n = right[t],
           s_pc[t] \in Changing, s_at'[t] = s_at[t] + 1, NEW u \in Caller, u # t
    PROVE  SortedThread(T, R[u], j, u)'
<1> SUFFICES ASSUME s_pc'[u] # "idle"
             PROVE  /\ Sorted!Calls(u)' /\ SOp(u)' \in {"insert", "remove", "search"}
                    /\ Sights(T, R[u], j, u)' /\ Stands(T, R[u], u)'
  BY DEF SortedThread
<1> PICK l : l = left[t]
  OBVIOUS
<1>1. /\ s_program' = s_program /\ s_at'[u] = s_at[u] /\ s_pc'[u] = s_pc[u] /\ left'[u] = left[u]
      /\ right'[u] = right[u] /\ after'[u] = after[u] /\ Sorted!Sees
  BY DEF Moves
<1>2. SKeys' = SKeys /\ Wanted(u)' = Wanted(u) /\ SOp(u)' = SOp(u) /\ (Sorted!Calls(u)' <=> Sorted!Calls(u))
  BY <1>1, KeysStay, CallStays
<1>3. /\ SortedTypes /\ SortedList(S) /\ SortedPhases(j) /\ Sights(S, R[u], j, u) /\ Stands(S, R[u], u)
      /\ Sorted!Calls(u) /\ SOp(u) \in {"insert", "remove", "search"} /\ Wanted(u) \in Int
      /\ First \in R[u] /\ First \in S /\ R[u] \subseteq SNode /\ Last \notin R[u]
      /\ \A m \in R[u] : m # First => SKeys[m] \in Int
  BY <1>1, InCall DEF SortedState
<1>4. /\ S \subseteq R[u] /\ \A m \in R[u] : m # First => WasLinked(m)
      /\ \A m \in R[u] : s_next[m] \in (R[u] \ {First}) \cup {Last}
      /\ \A m \in R[u] : m # First /\ SKeys[m] = Wanted(u) => TRUE \in seen[u]
      /\ \A m \in R[u] \ S : LeftBehind(j, u, m)
  BY <1>3 DEF Sights
<1>5. /\ l \in S /\ n \in S /\ n # First /\ s_next[l] = n /\ T = S \ {n}
      /\ s_next' = [s_next EXCEPT ![l] = s_next[n]] /\ (l = First \/ SKeys[l] < SKeys[n])
      /\ s_keys' = s_keys \ {SKeys[n]}
  BY DEF Unlinking
<1>6. l # n /\ SKeys[n] \in Int
  BY <1>3, <1>4, <1>5
<1>7. s_next'[l] = s_next[n] /\ \A m \in R[u] \ {l} : s_next'[m] = s_next[m]
  BY <1>3, <1>4, <1>5 DEF SortedTypes
<1>8. /\ seen[u] \subseteq seen'[u]
      /\ Wanted(u) \in s_keys' => TRUE \in seen'[u]
      /\ Wanted(u) \notin s_keys' => FALSE \in seen'[u]
  BY <1>1, SeesOn
<1>9. \A m \in R[u] : m # First => WasLinked(m)'
  <2> SUFFICES ASSUME NEW m \in R[u], m # First PROVE WasLinked(m)'
    OBVIOUS
  <2>1. WasLinked(m)
    BY <1>4
  <2> QED BY <2>1, LinkedOn
<1>10. \A m \in R[u] : s_next'[m] \in (R[u] \ {First}) \cup {Last}
  BY <1>4, <1>5, <1>7
<1>11. \A m \in R[u] : m # First /\ SKeys[m] = Wanted(u) => TRUE \in seen'[u]
  BY <1>4, <1>8
<1>12. LeftBehind(j, u, n)'
  <2>1. Sorted!Calls(t) /\ SOp(t) = "remove" /\ SKeys[n] = Wanted(t)
    <3>1. s_pc[t] # "idle"
      BY DEF Changing
    <3> QED BY <3>1, InCall DEF Stands
  <2>2. /\ s_at[t] \in DOMAIN s_program[t] /\ s_program[t][s_at[t]] = <<"remove", SKeys[n]>>
        /\ s_at[t] > j /\ s_at[t] \in Nat
    BY <1>3, <2>1, SortedCall, RemovesLate
  <2>3. GoneFor(j, u, SKeys[n])'
    <3>1. j < s_at[t] /\ s_at[t] < s_at'[t]
      BY <2>2, <1>3 DEF SortedPhases
    <3>2. PICK i : i = s_at[t]
      OBVIOUS
    <3>3. t \in Caller \ {u} /\ i \in DOMAIN s_program'[t] /\ j < i /\ i < s_at'[t] /\ s_program'[t][i] = <<"remove", SKeys'[n]>>
      BY <1>1, <1>2, <2>2, <3>1, <3>2
    <3> QED BY <3>3 DEF GoneFor
  <2>4. s_next'[n] = s_next[n]
    BY <1>4, <1>5, <1>6, <1>7
  <2>5. ASSUME NEW k \in Sorted!Posts(s_program, j), SKeys[n] < k
        PROVE  s_next[n] # Last /\ SKeys[s_next[n]] <= k
    <3>1. k \in s_keys
      BY <1>3, <2>2, PostsAreIn
    <3> QED BY <1>3, <1>5, <2>5, <3>1, NextGreater
  <2>6. ASSUME SKeys[n] < Wanted(u), s_next[n] = Last \/ SKeys[s_next[n]] > Wanted(u)
        PROVE  FALSE \in seen'[u]
    <3>1. Wanted(u) \notin s_keys
      <4> SUFFICES ASSUME Wanted(u) \in s_keys PROVE FALSE
        OBVIOUS
      <4>1. s_next[n] # Last /\ s_next[n] \in S /\ s_next[n] # First /\ SKeys[s_next[n]] <= Wanted(u)
        BY <1>3, <1>5, <2>6, NextGreater
      <4> QED BY <1>3, <1>4, <2>6, <4>1
    <3> QED BY <1>5, <1>8, <3>1
  <2> QED BY <1>1, <1>2, <2>3, <2>4, <2>5, <2>6 DEF LeftBehind
<1>13. \A m \in R[u] \ T : LeftBehind(j, u, m)'
  <2> SUFFICES ASSUME NEW m \in R[u] \ S PROVE LeftBehind(j, u, m)'
    BY <1>5, <1>12
  <2>1. s_next'[m] = s_next[m] /\ LeftBehind(j, u, m)
    BY <1>4, <1>5, <1>7
  <2> QED BY <1>1, <1>3, <2>1, BehindOn
<1>14. Sights(T, R[u], j, u)'
  <2>1. T \subseteq R[u]
    BY <1>4, <1>5
  <2> QED BY <1>2, <1>8, <1>9, <1>10, <1>11, <1>13, <2>1 DEF Sights
<1>15. ASSUME s_pc[u] \in Changing PROVE right[u] \in T /\ s_next'[right[u]] = s_next[right[u]]
  <2>1. right[u] \in S
    BY <1>1, <1>3, <1>15 DEF Stands
  <2>2. right[u] # l /\ right[u] # n
    BY <1>15, NodeIsAlone
  <2> QED BY <1>4, <1>5, <1>7, <2>1, <2>2
<1>16. Stands(T, R[u], u)'
  <2>1. s_pc[u] \in Changing => /\ SOp(u) = "remove" /\ right[u] \in T /\ right[u] # First
                                /\ SKeys[right[u]] = Wanted(u)
                                /\ s_pc[u] # "load" => after[u] = s_next'[right[u]]
    BY <1>3, <1>15 DEF Stands
  <2> QED BY <1>1, <1>2, <1>3, <2>1 DEF Stands
<1> QED BY <1>2, <1>3, <1>14, <1>16

LEMMA UnlinkWell == ASSUME SortedInv, NEW t \in Caller, Sorted!Unlink(t) PROVE SortedInv'
<1> PICK S, R, j : SortedState(S, R, j)
  BY DEF SortedInv
<1> PICK n : n = right[t]
  OBVIOUS
<1> PICK l : l = left[t]
  OBVIOUS
<1> PICK fits : fits = (Sorted!Key(t) \in s_keys)
  OBVIOUS
<1> PICK T : T = S \ {n}
  OBVIOUS
<1>1. /\ s_pc[t] = "unlink" /\ Sorted!Adjacent(t) /\ s_keys' = s_keys \ {Wanted(t)}
      /\ s_next' = [s_next EXCEPT ![l] = after[t]]
      /\ Sorted!Returns(t, TRUE, fits) /\ s_next[l] = n
  BY DEF Sorted!Unlink, Sorted!Adjacent, Wanted
<1>2. /\ SortedTypes /\ SortedList(S) /\ Stands(S, R[t], t) /\ Sorted!Calls(t) /\ Wanted(t) \in Int
  BY <1>1, InCall
<1>3. /\ SOp(t) = "remove" /\ (l = First \/ SKeys[l] < Wanted(t)) /\ s_pc[t] \in Changing
      /\ n \in S /\ n # First /\ SKeys[n] = Wanted(t) /\ after[t] = s_next[n]
  BY <1>1, <1>2 DEF Stands, Changing
<1>4. Updates(t)
  BY <1>1, <1>2, <1>3 DEF Updates
<1>5. l \in S
  BY <1>1, <1>4, LeftInList
<1>6. Unlinking(S, l, n, T)
  BY <1>1, <1>3, <1>5 DEF Unlinking
<1>7. fits
  <2>1. SKeys[n] \in s_keys
    BY <1>2, <1>3, ListedNodes
  <2> QED BY <1>3, <2>1 DEF Wanted
<1>8. /\ Moves(t) /\ SortedTypes' /\ s_pc'[t] = "idle" /\ s_at' = [s_at EXCEPT ![t] = @ + 1]
      /\ misfits' = {}
  <2>1. s_next' \in [SNode -> SNode \cup {Last}]
    BY <1>1, <1>2 DEF SortedTypes
  <2> QED BY <1>1, <1>2, <1>7, <2>1, ReturnsMoves
<1>9. SortedList(T)'
  BY <1>2, <1>6, <1>8, UnlinkKeepsList
<1>10. SortedPhases(j)'
  <2>1. ~Stays(Wanted(t))
    <3>1. s_at[t] \in DOMAIN s_program[t] /\ s_program[t][s_at[t]] = <<"remove", Wanted(t)>>
      BY <1>2, <1>3, SortedCall
    <3> QED BY <3>1 DEF Stays
  <2>2. \A k \in s_keys : Stays(k) => k \in s_keys'
    BY <1>1, <2>1
  <2> QED BY <1>2, <1>3, <1>8, <2>2, PhasesOn
<1>11. s_at'[t] = s_at[t] + 1
  BY <1>2, <1>8 DEF SortedTypes
<1> PICK Q : Q = [u \in Caller |-> R[u]]
  OBVIOUS
<1>12. ASSUME NEW u \in Caller PROVE SortedThread(T, Q[u], j, u)'
  <2>1. CASE u = t
    BY <1>8, <2>1 DEF SortedThread
  <2>2. CASE u # t
    <3>1. SortedThread(T, R[u], j, u)'
      BY <1>1, <1>3, <1>4, <1>6, <1>8, <1>11, <2>2, UnlinkKeepsOther
    <3> QED BY <3>1
  <2> QED BY <2>1, <2>2
<1> QED BY <1>8, <1>9, <1>10, <1>12, ChangeStep
-----------------------------------------------------------------------------
(* The invariant and what follows from it. *)

\* At first there is the first node alone.
LEMMA SortedInitially == ASSUME Sorted!Init PROVE SortedInv
<1>1. /\ s_next = [n \in SNode |-> Last] /\ s_program \in SortedPrograms
      /\ s_at = [t \in Caller |-> 1] /\ s_pc = [t \in Caller |-> "idle"]
      /\ left = [t \in Caller |-> First] /\ right = [t \in Caller |-> First]
      /\ after = [t \in Caller |-> Last] /\ s_keys = {} /\ misfits = {}
  BY DEF Sorted!Init, SNode
<1>2. First \in SNode
  BY DEF SNode, Sorted!Node
<1>3. SortedTypes
  <2>1. \A p \in SortedPrograms : \A t \in Caller : Len(p[t]) \in Nat
    BY ProgramsAssumption DEF Sorted!Orderly, Sorted!Written
  <2> QED BY <1>1, <1>2, <2>1 DEF SortedTypes
<1>4. PICK j \in 1..(MaxCalls + 1) : Sorted!Joined(s_program, j) /\ Sorted!Apart(s_program, j)
  BY <1>3, SortedProgram
<1>5. SortedPhases(j)
  <2>1. j \in Nat /\ j >= 1
    BY <1>4, SizesAssumption
  <2>2. \A t \in Caller : ~(s_at[t] > j)
    BY <1>1, <2>1
  <2>3. \A t \in Caller : \A i \in DOMAIN s_program[t] : ~(i < s_at[t])
    <3> SUFFICES ASSUME NEW t \in Caller, NEW i \in DOMAIN s_program[t] PROVE ~(i < s_at[t])
      OBVIOUS
    <3>1. i \in 1..MaxCalls
      BY <1>3, SortedCalls
    <3> QED BY <1>1, <3>1, SizesAssumption
  <2> QED BY <1>4, <2>1, <2>2, <2>3 DEF SortedPhases
<1>6. SortedList({First})
  BY <1>1, <1>2 DEF SortedList, SLinked
<1> PICK R : R = [t \in Caller |-> {First}]
  OBVIOUS
<1>7. \A t \in Caller : SortedThread({First}, R[t], j, t)
  BY <1>1 DEF SortedThread
<1>8. SortedState({First}, R, j)
  BY <1>1, <1>3, <1>5, <1>6, <1>7 DEF SortedState
<1> QED BY <1>8 DEF SortedInv

\* Every step keeps it.
LEMMA SortedStep == ASSUME SortedInv, [Sorted!Next]_sorted_vars PROVE SortedInv'
<1>1. CASE UNCHANGED sorted_vars
  <2> PICK S, R, j : SortedState(S, R, j)
    BY DEF SortedInv
  <2>1. /\ s_next' = s_next /\ s_program' = s_program /\ s_at' = s_at /\ s_pc' = s_pc /\ left' = left
        /\ right' = right /\ after' = after /\ s_keys' = s_keys /\ seen' = seen /\ misfits' = misfits
    BY <1>1 DEF sorted_vars
  <2>2. SKeys' = SKeys /\ SNode' = SNode
    BY <2>1, KeysStay DEF SNode, Sorted!Node
  <2>3. \A n : WasLinked(n)' <=> WasLinked(n)
    BY <2>1 DEF WasLinked
  <2>4. SortedTypes' /\ SortedList(S)' /\ SortedPhases(j)'
    <3>1. SortedTypes /\ SortedList(S) /\ SortedPhases(j)
      BY DEF SortedState
    <3>2. SortedTypes'
      BY <2>1, <2>2, <3>1 DEF SortedTypes
    <3>3. SortedList(S)'
      BY <2>1, <2>2, <2>3, <3>1 DEF SortedList, SLinked
    <3>4. SortedPhases(j)'
      BY <2>1, <3>1, PhasesStay
    <3> QED BY <3>2, <3>3, <3>4
  <2>5. ASSUME NEW t \in Caller PROVE SortedThread(S, R[t], j, t)'
    <3>1. SortedThread(S, R[t], j, t)
      BY DEF SortedState
    <3>2. Wanted(t)' = Wanted(t) /\ SOp(t)' = SOp(t) /\ (Sorted!Calls(t)' <=> Sorted!Calls(t))
      BY <2>1, CallStays
    <3>3. ASSUME NEW n, LeftBehind(j, t, n) PROVE LeftBehind(j, t, n)'
      BY <2>1, <2>2, <3>2, <3>3 DEF LeftBehind, GoneFor
    <3>4. Sights(S, R[t], j, t) => Sights(S, R[t], j, t)'
      BY <2>1, <2>2, <2>3, <3>2, <3>3 DEF Sights
    <3>5. Stands(S, R[t], t) => Stands(S, R[t], t)'
      BY <2>1, <2>2, <3>2 DEF Stands
    <3> QED BY <2>1, <3>1, <3>2, <3>4, <3>5 DEF SortedThread
  <2>6. SortedState(S, R, j)'
    BY <2>1, <2>4, <2>5 DEF SortedState
  <2> QED BY <2>6 DEF SortedInv
<1>2. ASSUME NEW t \in Caller, Sorted!Step(t) PROVE SortedInv'
  <2>1. CASE Sorted!Begins(t)
    BY <2>1, BeginsWell
  <2>2. CASE Sorted!Walk(t)
    BY <2>2, WalkWell
  <2>3. CASE Sorted!WalkAgain(t)
    BY <2>3, StartsOverWell DEF Sorted!WalkAgain
  <2>4. CASE Sorted!Answers(t)
    BY <2>4, AnswersWell
  <2>5. CASE Sorted!Decides(t)
    BY <2>5, DecidesWell
  <2>6. CASE Sorted!Link(t)
    BY <2>6, LinkWell
  <2>7. CASE Sorted!LoadNext(t)
    BY <2>7, LoadNextWell
  <2>8. CASE Sorted!Touch(t)
    BY <2>8, TouchWell
  <2>9. CASE Sorted!Unlink(t)
    BY <2>9, UnlinkWell
  <2>10. CASE Sorted!Retries(t)
    BY <2>10, StartsOverWell DEF Sorted!Retries
  <2>11. CASE Sorted!Joins(t)
    BY <2>11, JoinsWell
  <2> QED BY <1>2, <2>1, <2>2, <2>3, <2>4, <2>5, <2>6, <2>7, <2>8, <2>9, <2>10, <2>11 DEF Sorted!Step
<1>3. CASE Sorted!AllReturned /\ UNCHANGED Sorted!vars
  BY <1>1, <1>3 DEF Sorted!vars, sorted_vars
<1> QED BY <1>1, <1>2, <1>3 DEF Sorted!Next

\* The nodes of S with greater keys than n, which is in S.
Greater(S, n) == {m \in S \ {First} : n = First \/ SKeys[n] < SKeys[m]}
PathTo(S, n, s) == /\ IsPath(s_next, Last, n, s)
                   /\ {s[i] : i \in 1..Len(s)} = {n} \cup Greater(S, n)

LEMMA AfterNode ==
    ASSUME SortedTypes, NEW S, SortedList(S), NEW n \in S, Greater(S, n) # {}
    PROVE  /\ s_next[n] # Last /\ s_next[n] \in Greater(S, n) /\ s_next[n] \in S /\ n \notin Greater(S, n)
           /\ Greater(S, s_next[n]) = Greater(S, n) \ {s_next[n]}
<1>1. /\ S \subseteq SNode /\ \A m \in S : m # First => SKeys[m] \in Int
      /\ \A a, b \in S : a # First /\ b # First /\ SKeys[a] = SKeys[b] => a = b
      /\ s_next[n] \in (S \ {First}) \cup {Last}
      /\ s_next[n] # Last /\ n # First => SKeys[n] < SKeys[s_next[n]]
      /\ \A m \in S : m # First /\ (n = First \/ SKeys[n] < SKeys[m])
                        => s_next[n] # Last /\ SKeys[s_next[n]] <= SKeys[m]
  BY ListedNodes DEF SortedList, SLinked
<1>2. PICK m \in S : m # First /\ (n = First \/ SKeys[n] < SKeys[m])
  BY DEF Greater
<1>3. s_next[n] # Last /\ s_next[n] \in S /\ s_next[n] # First
  BY <1>1, <1>2
<1>4. s_next[n] \in Greater(S, n) /\ n \notin Greater(S, n)
  BY <1>1, <1>3 DEF Greater
<1>5. Greater(S, s_next[n]) = Greater(S, n) \ {s_next[n]}
  <2> PICK q : q = s_next[n]
    OBVIOUS
  <2>1. q \in S /\ q # First /\ SKeys[q] \in Int /\ (n = First \/ (SKeys[n] < SKeys[q] /\ SKeys[n] \in Int))
    BY <1>1, <1>3
  <2>2. ASSUME NEW a \in S, a # First, SKeys[q] < SKeys[a]
        PROVE  a # q /\ (n = First \/ SKeys[n] < SKeys[a])
    BY <1>1, <2>1, <2>2
  <2>3. ASSUME NEW a \in S, a # First, a # q, n = First \/ SKeys[n] < SKeys[a]
        PROVE  SKeys[q] < SKeys[a]
    <3>1. SKeys[q] <= SKeys[a] /\ SKeys[q] # SKeys[a] /\ SKeys[a] \in Int
      BY <1>1, <2>1, <2>3
    <3> QED BY <2>1, <3>1
  <2> QED BY <2>1, <2>2, <2>3 DEF Greater
<1> QED BY <1>3, <1>4, <1>5

\* From every node a path leads through all nodes with greater keys.
LEMMA PathExists ==
    ASSUME SortedTypes, NEW S, SortedList(S), NEW n \in S
    PROVE  \E s : PathTo(S, n, s)
<1>1. S \subseteq SNode /\ First \in S /\ Last \notin S /\ IsFiniteSet(S) /\ DOMAIN s_next = SNode
      /\ Last \notin SNode
  <2>1. IsFiniteSet(Caller \X (1..MaxCalls))
    <3>1. IsFiniteSet(1..MaxCalls) /\ IsFiniteSet(Caller)
      BY FS_Interval, SizesAssumption
    <3> QED BY <3>1, FS_Product
  <2>2. IsFiniteSet(SNode)
    <3>1. IsFiniteSet({First})
      BY FS_Singleton
    <3> QED BY <2>1, <3>1, FS_Union DEF SNode, Sorted!Node
  <2>3. Last \notin SNode
    BY NamesAssumption DEF SNode, Sorted!Node
  <2> QED BY <2>2, <2>3, ListedNodes, FS_Subset DEF SortedTypes
<1>2. \A a \in S : IsFiniteSet(Greater(S, a)) /\ Cardinality(Greater(S, a)) \in Nat
  <2> SUFFICES ASSUME NEW a \in S PROVE IsFiniteSet(Greater(S, a)) /\ Cardinality(Greater(S, a)) \in Nat
    OBVIOUS
  <2>1. Greater(S, a) \subseteq S
    BY DEF Greater
  <2>2. IsFiniteSet(Greater(S, a))
    BY <1>1, <2>1, FS_Subset
  <2> QED BY <2>2, FS_CardinalityType
<1> DEFINE W == {k \in Nat : \A a \in S : Cardinality(Greater(S, a)) = k => \E s : PathTo(S, a, s)}
<1>3. 0 \in W
  <2> SUFFICES ASSUME NEW a \in S, Cardinality(Greater(S, a)) = 0 PROVE \E s : PathTo(S, a, s)
    OBVIOUS
  <2>1. Greater(S, a) = {}
    BY <1>2, FS_EmptySet
  <2>2. s_next[a] = Last
    <3> SUFFICES ASSUME s_next[a] # Last PROVE FALSE
      OBVIOUS
    <3>1. s_next[a] \in S /\ s_next[a] # First /\ (a = First \/ SKeys[a] < SKeys[s_next[a]])
      BY DEF SortedList, SLinked
    <3> QED BY <2>1, <3>1 DEF Greater
  <2> PICK s : s = <<a>>
    OBVIOUS
  <2>3. s \in Seq(DOMAIN s_next) /\ Len(s) = 1 /\ s[1] = a
    BY <1>1
  <2>4. IsPath(s_next, Last, a, s)
    BY <1>1, <2>2, <2>3 DEF IsPath
  <2>5. {s[i] : i \in 1..Len(s)} = {a}
    BY <2>3
  <2> QED BY <2>1, <2>4, <2>5 DEF PathTo
<1>4. \A k \in Nat : k \in W => k + 1 \in W
  <2> SUFFICES ASSUME NEW k \in W, NEW a \in S, Cardinality(Greater(S, a)) = k + 1
               PROVE  \E s : PathTo(S, a, s)
    OBVIOUS
  <2> PICK q : q = s_next[a]
    OBVIOUS
  <2>1. Greater(S, a) # {}
    <3>1. Cardinality({}) = 0
      BY FS_EmptySet
    <3> QED BY <3>1
  <2>2. /\ q # Last /\ q \in Greater(S, a) /\ q \in S /\ a \notin Greater(S, a)
        /\ Greater(S, q) = Greater(S, a) \ {q}
    BY <2>1, AfterNode
  <2>3. Cardinality(Greater(S, q)) = k
    <3>1. Cardinality(Greater(S, a) \ {q}) = Cardinality(Greater(S, a)) - 1
      BY <1>2, <2>2, FS_RemoveElement
    <3> QED BY <2>2, <3>1
  <2>4. PICK s : PathTo(S, q, s)
    BY <2>2, <2>3
  <2>5. {s[i] : i \in 1..Len(s)} = Greater(S, a)
    BY <2>2, <2>4 DEF PathTo
  <2>6. \A i \in 1..Len(s) : s[i] # a
    BY <2>2, <2>5
  <2>7. a \in DOMAIN s_next
    BY <1>1
  <2> PICK z : z = <<a>> \o s
    OBVIOUS
  <2>8. IsPath(s_next, Last, a, z)
    BY <2>4, <2>6, <2>7, PathPushed DEF PathTo
  <2>9. {z[i] : i \in 1..Len(z)} = {a} \cup Greater(S, a)
    <3>1. /\ s \in Seq(SNode) /\ Len(s) \in Nat /\ <<a>> \in Seq(SNode) /\ Len(<<a>>) = 1
      BY <1>1, <2>4 DEF PathTo, IsPath
    <3>2. Len(z) = Len(s) + 1 /\ z[1] = a /\ \A i \in 1..Len(s) : z[i + 1] = s[i]
      BY <3>1, ConcatProperties
    <3>3. ASSUME NEW i \in 1..Len(z) PROVE z[i] = a \/ \E m \in 1..Len(s) : z[i] = s[m]
      <4>1. CASE i = 1
        BY <3>2, <4>1
      <4>2. CASE i # 1
        <5>1. i - 1 \in 1..Len(s) /\ (i - 1) + 1 = i
          BY <3>1, <3>2, <4>2
        <5> QED BY <3>2, <5>1
      <4> QED BY <4>1, <4>2
    <3>4. 1 \in 1..Len(z) /\ \A i \in 1..Len(s) : i + 1 \in 1..Len(z)
      BY <3>1, <3>2
    <3> QED BY <2>5, <3>2, <3>3, <3>4
  <2>10. PathTo(S, a, z)
    BY <2>8, <2>9 DEF PathTo
  <2> QED BY <2>10
<1>5. Nat \subseteq W
  <2> HIDE DEF W
  <2> QED BY <1>3, <1>4, SetInduction
<1> QED BY <1>2, <1>5

\* The list is the sorted set that its calls make.
LEMMA SortedSound ==
    ASSUME SortedInv
    PROVE  Sorted!ListIsTheSet /\ Sorted!TypeOK
<1> PICK S, R, j : SortedState(S, R, j)
  BY DEF SortedInv
<1>1. /\ SortedTypes /\ SortedList(S) /\ misfits = {} /\ s_keys = {SKeys[n] : n \in S \ {First}}
      /\ First \in S /\ S \subseteq SNode /\ \A n \in S : n # First => SKeys[n] \in Int
  BY ListedNodes DEF SortedState, SortedList
<1>2. PICK s : PathTo(S, First, s)
  BY <1>1, PathExists
<1>3. Greater(S, First) = S \ {First}
  BY DEF Greater
<1>4. {s[i] : i \in 1..Len(s)} = S
  BY <1>1, <1>2, <1>3 DEF PathTo
<1>5. /\ s \in Seq(SNode) /\ Len(s) \in Nat /\ Len(s) # 0 /\ s[1] = First
      /\ \A a, b \in 1..Len(s) : s[a] = s[b] => a = b
      /\ \A i \in 1..(Len(s) - 1) : s_next[s[i]] = s[i + 1]
  <2>1. First # Last /\ DOMAIN s_next = SNode
    BY <1>1, NamesAssumption DEF SortedTypes
  <2> QED BY <1>2, <2>1 DEF PathTo, IsPath
<1>6. Sorted!Chain = s
  <2>1. IsFiniteSet(DOMAIN s_next) /\ Last \notin DOMAIN s_next
    <3>1. IsFiniteSet(1..MaxCalls) /\ IsFiniteSet(Caller)
      BY FS_Interval, SizesAssumption
    <3>2. IsFiniteSet(Caller \X (1..MaxCalls)) /\ IsFiniteSet({First})
      BY <3>1, FS_Product, FS_Singleton
    <3>3. IsFiniteSet(SNode)
      BY <3>2, FS_Union DEF SNode, Sorted!Node
    <3>4. Last \notin SNode
      BY NamesAssumption DEF SNode, Sorted!Node
    <3> QED BY <1>1, <3>3, <3>4 DEF SortedTypes
  <2>2. NodesFrom(s_next, Last, First) = s
    BY <1>2, <2>1, PathIsWalked DEF PathTo
  <2>3. Sorted!NodesFrom(s_next, Last, First) = NodesFrom(s_next, Last, First)
    BY DEF Sorted!NodesFrom, NodesFrom, Sorted!Cardinality, Cardinality
  <2> QED BY <2>2, <2>3 DEF Sorted!Chain
<1> PICK ks : ks = [i \in 1..(Len(s) - 1) |-> SKeys[s[i + 1]]]
  OBVIOUS
<1>7. \A i \in 1..(Len(s) - 1) : /\ s[i + 1] \in S /\ s[i + 1] # First /\ i + 1 \in 1..Len(s)
                                 /\ s[i + 1] \in SNode /\ SKeys[s[i + 1]] \in Int
  <2> SUFFICES ASSUME NEW i \in 1..(Len(s) - 1)
               PROVE  /\ s[i + 1] \in S /\ s[i + 1] # First /\ i + 1 \in 1..Len(s)
                      /\ s[i + 1] \in SNode /\ SKeys[s[i + 1]] \in Int
    OBVIOUS
  <2>1. i + 1 \in 1..Len(s) /\ 1 \in 1..Len(s) /\ i + 1 # 1
    BY <1>5
  <2>2. s[i + 1] \in S /\ s[i + 1] # First
    BY <1>4, <1>5, <2>1
  <2> QED BY <1>1, <2>1, <2>2
<1>8. Sorted!Keys = ks
  BY <1>6, <1>7 DEF Sorted!Keys, SKeys
<1>9. ks \in Seq(Int) /\ Len(ks) = Len(s) - 1 /\ \A i \in 1..(Len(s) - 1) : ks[i] = SKeys[s[i + 1]]
  BY <1>5, <1>7
<1>10. ASSUME NEW i \in 1..(Len(ks) - 1) PROVE ks[i] < ks[i + 1]
  <2>1. i \in 1..(Len(s) - 1) /\ i + 1 \in 1..(Len(s) - 1)
    BY <1>5, <1>9
  <2>2. s_next[s[i + 1]] = s[(i + 1) + 1] /\ s[i + 1] \in S /\ s[i + 1] # First
    BY <1>5, <1>7, <2>1
  <2>3. s[(i + 1) + 1] # Last
    BY <1>7, <2>1, NamesAssumption DEF SNode, Sorted!Node
  <2>4. SKeys[s[i + 1]] < SKeys[s_next[s[i + 1]]]
    BY <1>1, <2>2, <2>3 DEF SortedList, SLinked
  <2> QED BY <1>9, <2>1, <2>2, <2>4
<1>11. {ks[i] : i \in 1..Len(ks)} = s_keys
  <2>1. ASSUME NEW n \in S \ {First} PROVE \E i \in 1..(Len(s) - 1) : n = s[i + 1]
    <3>1. PICK m \in 1..Len(s) : n = s[m]
      BY <1>4
    <3>2. m - 1 \in 1..(Len(s) - 1) /\ (m - 1) + 1 = m
      BY <1>5, <3>1
    <3> QED BY <3>1, <3>2
  <2>2. ASSUME NEW k \in s_keys PROVE k \in {ks[i] : i \in 1..Len(ks)}
    <3>1. PICK n \in S \ {First} : k = SKeys[n]
      BY <1>1
    <3>2. PICK i \in 1..(Len(s) - 1) : n = s[i + 1]
      BY <2>1
    <3>3. i \in 1..Len(ks) /\ ks[i] = k
      BY <1>9, <3>1, <3>2
    <3> QED BY <3>3
  <2>3. ASSUME NEW i \in 1..Len(ks) PROVE ks[i] \in s_keys
    <3>1. i \in 1..(Len(s) - 1) /\ ks[i] = SKeys[s[i + 1]]
      BY <1>9
    <3>2. s[i + 1] \in S \ {First}
      BY <1>7, <3>1
    <3> QED BY <1>1, <3>1, <3>2
  <2> QED BY <2>2, <2>3
<1>12. Sorted!ListIsTheSet
  BY <1>1, <1>8, <1>10, <1>11 DEF Sorted!ListIsTheSet
<1>13. Sorted!TypeOK
  <2>1. ASSUME NEW t \in Caller PROVE s_at[t] \in 1..(MaxCalls + 1)
    <3>1. s_at[t] \in 1..(Len(s_program[t]) + 1) /\ Len(s_program[t]) <= MaxCalls /\ Len(s_program[t]) \in Nat
      BY <1>1, SortedProgram DEF SortedTypes
    <3> QED BY <3>1, SizesAssumption
  <2>2. s_at \in [Caller -> 1..(MaxCalls + 1)]
    BY <1>1, <2>1 DEF SortedTypes
  <2> QED BY <1>1, <2>2 DEF Sorted!TypeOK, SortedTypes, SNode
<1> QED BY <1>12, <1>13
=============================================================================
