----------------------------- MODULE HashTables ------------------------------
(***************************************************************************)
(* The hash tables: separate chaining (chain_hash.c), open addressing with *)
(* tombstones (openAdd_hash.c, and quad_double_hash.c with three probe     *)
(* sequences) and without (hashtable_cache.hpp), coalesced chains          *)
(* (coalesced_hash.c) and two nests per key (cuckoo_hash.c).               *)
(***************************************************************************)
EXTENDS Integers, Sequences, SequencesExt, FiniteSets

CONSTANTS Key, Value, Size,
          MAX_LOOPS       \* of cuckoo_hash.c

VARIABLES kind, table,
          call            \* the call that came last: [op, at, values, answer]

TableKinds == {"chain_hash.c", "openAdd_hash.c", "quad_double_hash.c",
               "hashtable_cache.hpp", "coalesced_hash.c", "cuckoo_hash.c"}

TableOps == {"put", "add_copy", "take", "find", "refuse"}
Slot == 0..(Size - 1)
Nothing == <<>>

hashFunction(k) == k % Size

\* A table is its slots, its chains or its two rows of nests; a method is the way
\* in which the callers have a key probed for.
NewTable(m) == [slot |-> [i \in Slot |-> [key |-> 0, value |-> 0, status |-> "EMPTY", next |-> -1]],
                numItems |-> 0, method |-> m,
                chain |-> [i \in Slot |-> <<>>],
                nest |-> [r \in {1, 2} |-> [i \in Slot |-> -1]]]

Did(op, s, r, t) == /\ table' = t
                    /\ call' = [op |-> op, at |-> 0, values |-> s, answer |-> r]
                    /\ UNCHANGED kind
Does(op, s, t) == Did(op, s, Nothing, t)
Found(k, b) == Did("find", <<k>>, IF b THEN <<k>> ELSE Nothing, table)
-----------------------------------------------------------------------------
\* chain_hash.c
chainedHashInsert(k) ==
    Does("add_copy", <<k>>, [table EXCEPT !.chain[hashFunction(k)] = <<k>> \o @])
chainedHashSearch(k) == Found(k, k \in ToSet(table.chain[hashFunction(k)]))
chainedHashDelete(k) ==
    LET i == SelectInSeq(table.chain[hashFunction(k)], LAMBDA x : x = k)
    IN  Does("take", <<k>>, IF i = 0 THEN table
                            ELSE [table EXCEPT !.chain[hashFunction(k)] = RemoveAt(@, i)])
-----------------------------------------------------------------------------
\* The slots that are probed for key k, in order: one after the other, or by one
\* of the other two methods of quad_double_hash.c.
linearProbing(k, i) == (hashFunction(k) + i) % Size
quadraticProbing(k, i) == (hashFunction(k) + i + 3 * i * i) % Size
hashFunction2(k) == (Size - 1) - (k % (Size - 1))
doubleHashing(k, i) == (hashFunction(k) + i * hashFunction2(k)) % Size
Probes(k) == [n \in 1..Size |-> CASE table.method[k] = "linear" -> linearProbing(k, n - 1)
                                  [] table.method[k] = "quadratic" -> quadraticProbing(k, n - 1)
                                  [] table.method[k] = "double" -> doubleHashing(k, n - 1)]

Occupied(i) == table.slot[i].status = "OCCUPIED"
IsAt(k, i) == Occupied(i) /\ table.slot[i].key = k

\* The search stops at a slot that was never filled; a deletion leaves a tombstone.
Index(k) == LET n == SelectInSeq(Probes(k), LAMBDA i : table.slot[i].status = "EMPTY" \/ IsAt(k, i))
            IN  IF n # 0 /\ IsAt(k, Probes(k)[n]) THEN Probes(k)[n] ELSE -1
FreeFor(k) == LET n == SelectInSeq(Probes(k), LAMBDA i : ~Occupied(i))
              IN  IF n = 0 THEN -1 ELSE Probes(k)[n]
Filled(i, k) == [table EXCEPT !.slot[i].key = k, !.slot[i].status = "OCCUPIED", !.numItems = @ + 1]

\* openAdd_hash.c refuses above a load of 0.7 (which as a float is less than as a
\* double), quad_double_hash.c from `size` insertions on, for it does not count the
\* deletions.
isFull == IF kind = "openAdd_hash.c" THEN table.numItems * 10 > Size * 7
          ELSE table.numItems = Size
hashTableInsert(k) ==
    IF isFull \/ FreeFor(k) = -1 THEN Does("refuse", <<k>>, table)
    ELSE Does("add_copy", <<k>>, Filled(FreeFor(k), k))
hashTableSearch(k) == Found(k, Index(k) # -1)
hashTableDelete(k) ==
    Does("take", <<k>>,
         IF Index(k) = -1 THEN table
         ELSE [table EXCEPT !.slot[Index(k)].status = "DELETED",
                            !.numItems = IF kind = "openAdd_hash.c" THEN @ - 1 ELSE @])
-----------------------------------------------------------------------------
\* hashtable_cache.hpp: a deletion leaves the slot as if it had never been filled.
insert(k, v) ==
    LET n == SelectInSeq(Probes(k), LAMBDA i : ~Occupied(i) \/ IsAt(k, i))
        i == Probes(k)[n]
    IN  CASE n = 0 -> Does("refuse", <<k>>, table)
          [] n # 0 /\ IsAt(k, i) -> Does("put", <<k, v>>, [table EXCEPT !.slot[i].value = v])
          [] OTHER -> Does("put", <<k, v>>, [table EXCEPT !.slot[i].key = k, !.slot[i].value = v,
                                                          !.slot[i].status = "OCCUPIED"])
search(k) == Did("find", <<k>>,
                 IF Index(k) = -1 THEN Nothing ELSE <<table.slot[Index(k)].value>>, table)
remove(k) == Does("take", <<k>>, IF Index(k) = -1 THEN table
                                 ELSE [table EXCEPT !.slot[Index(k)].status = "EMPTY"])
-----------------------------------------------------------------------------
\* coalesced_hash.c.  A chain is what the links lead to from a slot.
Chain(i) == LET walk[n \in 1..Size] == IF n = 1 THEN <<i>>
                                       ELSE LET s == walk[n - 1]
                                                j == table.slot[Last(s)].next
                                            IN  IF j = -1 THEN s ELSE Append(s, j)
            IN  walk[Size]
InChain(k) == LET s == Chain(hashFunction(k))
                  n == SelectInSeq(s, LAMBDA i : IsAt(k, i))
              IN  [at |-> IF n = 0 THEN -1 ELSE s[n], before |-> IF n < 2 THEN -1 ELSE s[n - 1]]

\* A slot that holds no key any more starts a chain of its own, and forgets the one
\* it started before.
co_insert(k) ==
    LET index == hashFunction(k)
    IN  \/ /\ table.slot[index].status = "EMPTY"
           /\ Does("add_copy", <<k>>, Filled(index, k))
        \/ /\ table.slot[index].status # "EMPTY"
           /\ \E empty \in {i \in Slot : table.slot[i].status = "EMPTY"} :
                 LET from == IF Occupied(index) THEN Last(Chain(index)) ELSE index
                 IN  Does("add_copy", <<k>>, [Filled(empty, k) EXCEPT !.slot[from].next = empty])
        \/ /\ \A i \in Slot : table.slot[i].status # "EMPTY"
           /\ Does("refuse", <<k>>, table)
co_search(k) == Found(k, InChain(k).at # -1)

Cleared(t, i) == [t EXCEPT !.slot[i].status = "DELETED", !.slot[i].next = -1]
Linked(t, i, j) == IF i = -1 THEN t ELSE [t EXCEPT !.slot[i].next = j]
PulledBack(t, i, j) == Cleared([t EXCEPT !.slot[i].key = table.slot[j].key,
                                         !.slot[i].next = table.slot[j].next], j)
delete(k) ==
    LET i == InChain(k).at
        p == InChain(k).before
        j == table.slot[i].next
    IN  Does("take", <<k>>, CASE i = -1 -> table
                              [] i # -1 /\ j # -1 -> PulledBack(Linked(table, p, j), i, j)
                              [] OTHER -> Linked(Cleared(table, i), p, -1))
deleteImproved(k) ==
    LET i == InChain(k).at
        p == InChain(k).before
        j == table.slot[i].next
    IN  Does("take", <<k>>,
             CASE i = -1 -> table
               [] i # -1 /\ j # -1 ->
                    IF p # -1 \/ hashFunction(table.slot[j].key) = hashFunction(k)
                    THEN PulledBack(table, i, j) ELSE Cleared(table, i)
               [] OTHER -> Linked(Cleared(table, i), p, -1))
-----------------------------------------------------------------------------
\* cuckoo_hash.c
hash1(k) == k % Size
hash2(k) == (k \div Size) % Size

\* One round of displacements: s has the nests, the key in hand and whether it
\* found a place.
Round(s) ==
    LET p == hash1(s.hand)
        out == s.nest[1][p]
        q == hash2(out)
        first == [s.nest EXCEPT ![1][p] = s.hand]
        second == [first EXCEPT ![2][q] = out]
    IN  CASE s.placed -> s
          [] ~s.placed /\ out = -1 -> [nest |-> first, hand |-> -1, placed |-> TRUE]
          [] OTHER -> [nest |-> second, hand |-> s.nest[2][q], placed |-> s.nest[2][q] = -1]
Displaced(k) ==
    LET after[n \in 0..MAX_LOOPS] ==
            IF n = 0 THEN [nest |-> table.nest, hand |-> k, placed |-> FALSE]
            ELSE Round(after[n - 1])
    IN  after[MAX_LOOPS]

\* After MAX_LOOPS rounds the key in hand is dropped, whichever it is.
cuckooInsert(k) == Does(IF Displaced(k).placed THEN "add_copy" ELSE "refuse", <<k>>,
                        [table EXCEPT !.nest = Displaced(k).nest])
cuckooSearch(k) == Found(k, table.nest[1][hash1(k)] = k \/ table.nest[2][hash2(k)] = k)
cuckooDelete(k) ==
    Does("take", <<k>>,
         CASE table.nest[1][hash1(k)] = k -> [table EXCEPT !.nest[1][hash1(k)] = -1]
           [] table.nest[1][hash1(k)] # k /\ table.nest[2][hash2(k)] = k ->
                  [table EXCEPT !.nest[2][hash2(k)] = -1]
           [] OTHER -> table)
-----------------------------------------------------------------------------
Copies(k) == IF kind = "chain_hash.c" THEN Len(SelectSeq(table.chain[hashFunction(k)], LAMBDA x : x = k))
             ELSE IF kind = "cuckoo_hash.c"
             THEN Cardinality({n \in {1, 2} \X Slot : table.nest[n[1]][n[2]] = k})
             ELSE Cardinality({i \in Slot : IsAt(k, i)})
Total == LET sum[S \in SUBSET Key] ==
                 IF S = {} THEN 0
                 ELSE LET k == CHOOSE k \in S : TRUE IN Copies(k) + sum[S \ {k}]
         IN  sum[Key]

\* Only quad_double_hash.c has a choice: the same method for all keys, or one for
\* each as in its main.
Linear == [k \in Key |-> "linear"]
Methods == IF kind # "quad_double_hash.c" THEN {Linear}
           ELSE {m \in [Key -> {"linear", "quadratic", "double"}] :
                     Cardinality(Range(m)) \in {1, Cardinality(Key)}}
TableInit == \E m \in Methods : table = NewTable(m)

TableNext == \E k \in Key :
    \/ /\ kind = "chain_hash.c"
       /\ (Total < Size /\ chainedHashInsert(k)) \/ chainedHashSearch(k) \/ chainedHashDelete(k)
    \/ /\ kind \in {"openAdd_hash.c", "quad_double_hash.c"}
       /\ hashTableInsert(k) \/ hashTableSearch(k) \/ hashTableDelete(k)
    \/ /\ kind = "hashtable_cache.hpp"
       /\ (\E v \in Value : insert(k, v)) \/ search(k) \/ remove(k)
    \/ /\ kind = "coalesced_hash.c"
       /\ co_insert(k) \/ co_search(k) \/ delete(k) \/ deleteImproved(k)
    \/ /\ kind = "cuckoo_hash.c"
       /\ cuckooInsert(k) \/ cuckooSearch(k) \/ cuckooDelete(k)
-----------------------------------------------------------------------------
\* Every variable keeps its type.
TypeOK == /\ table.slot \in [Slot -> [key : Key \cup {0}, value : Value \cup {0},
                                      status : {"EMPTY", "OCCUPIED", "DELETED"},
                                      next : -1..(Size - 1)]]
          /\ table.numItems \in 0..Size
          /\ \A i \in Slot : table.chain[i] \in Seq(Key)
          /\ table.nest \in [{1, 2} -> [Slot -> Key \cup {-1}]]

\* The values held for key k, one per copy.
Held(k) ==
    IF kind = "hashtable_cache.hpp"
    THEN LET at == SelectSeq(Probes(k), LAMBDA i : IsAt(k, i))
         IN  [n \in 1..Len(at) |-> table.slot[at[n]].value]
    ELSE [n \in 1..Copies(k) |-> k]

\* A search of hashtable_cache.hpp that ends at a free slot is one for a key that is
\* not in the table.
FreeSlotMeansAbsent ==
    kind = "hashtable_cache.hpp" => \A k \in Key : Index(k) = -1 => Copies(k) = 0

\* A search for the key of any occupied slot can come to this slot: no slot that
\* ends the search is met before, and no link is missing.  In a map it comes to no
\* other slot with the key, and no link leads to a slot whose key was deleted (a
\* deletion behind it would pull this key back).
NothingHidden ==
    \A i \in {j \in Slot : Occupied(j)} :
        LET k == table.slot[i].key
            next == table.slot[i].next
        IN  IF kind = "coalesced_hash.c"
            THEN i \in ToSet(Chain(hashFunction(k))) /\ (next # -1 => Occupied(next))
            ELSE LET n == SelectInSeq(Probes(k), LAMBDA j : j = i)
                 IN  /\ n # 0 /\ \A m \in 1..n : table.slot[Probes(k)[m]].status # "EMPTY"
                     /\ kind = "hashtable_cache.hpp" => Index(k) = i

\* Nothing is promised of a key that the tables without tombstones, or with
\* links, have hidden; quad_double_hash.c may refuse a key for which its probes
\* find no place, or after deletions, and cuckoo_hash.c one that it keeps, for
\* another that it drops.
Vague == CASE kind \in {"hashtable_cache.hpp", "coalesced_hash.c"} /\ ~NothingHidden ->
                  TableOps
           [] kind \in {"quad_double_hash.c", "cuckoo_hash.c"} -> {"refuse"}
           [] kind = "coalesced_hash.c" /\ (\E i \in Slot : table.slot[i].status = "DELETED") ->
                  {"refuse"}
           [] OTHER -> {}
Places == IF kind = "openAdd_hash.c" THEN (Size * 7) \div 10 + 1 ELSE Size

\* Deletion with tombstones hides nothing; every chain of coalesced_hash.c ends, so
\* that its searches do; each key of the chained table is in its chain and each of
\* the cuckoo table in one of its two nests; openAdd_hash.c counts its items; and
\* no search finds a key that is not there.
TablesSound ==
    /\ kind \in {"openAdd_hash.c", "quad_double_hash.c"} => NothingHidden
    /\ kind = "openAdd_hash.c" => table.numItems = Total
    /\ kind = "coalesced_hash.c" => \A i \in Slot : table.slot[Last(Chain(i))].next = -1
    /\ \A i \in Slot : \A k \in ToSet(table.chain[i]) : hashFunction(k) = i
    /\ \A i \in Slot : /\ table.nest[1][i] # -1 => hash1(table.nest[1][i]) = i
                       /\ table.nest[2][i] # -1 => hash2(table.nest[2][i]) = i
    /\ call.op = "find" /\ call.answer # Nothing => call.answer[1] \in ToSet(Held(call.values[1]))
=============================================================================
