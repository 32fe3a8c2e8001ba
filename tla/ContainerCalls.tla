--------------------------- MODULE ContainerCalls ----------------------------
(***************************************************************************)
(* What the sequential containers promise their caller: each holds a       *)
(* sequence of values, and what a call does to it, and answers, depends on *)
(* the sequence and on the call alone.  A stack works at the front, a      *)
(* queue at both ends; a set is the sorted sequence of its members, and a  *)
(* tree that takes equal values the sorted sequence with repetitions.  A   *)
(* hash table holds copies of keys instead, one value per copy (the key    *)
(* itself where a table has no values).                                    *)
(***************************************************************************)
EXTENDS Integers, SequencesExt, FiniteSetsExt

VARIABLES elements,   \* the values held, the first one in front
          bound,      \* how many it has room for
          held,       \* the values that a table holds for each key
          places,     \* how many copies it has room for
          call,       \* the call that came last: [op, at, values, answer]
          vague       \* the operations of which nothing is promised for now

TableOps == {"put", "add_copy", "take", "find", "refuse"}

Nothing == <<>>
Truth(b) == IF b THEN <<1>> ELSE <<0>>
NoCall == [op |-> "create", at |-> 0, values |-> <<>>, answer |-> Nothing]

Sorted(S) == LET s[T \in SUBSET S] == IF T = {} THEN <<>> ELSE <<Min(T)>> \o s[T \ {Min(T)}]
             IN  s[S]
FirstOf(s, v) == SelectInSeq(s, LAMBDA x : x = v)
Into(s, i, t) == SubSeq(s, 1, i) \o t \o SubSeq(s, i + 1, Len(s))
HasRoom(s, t) == Len(s) + Len(t) <= bound

Inserted(s, c) ==
    CASE c.op = "push_front" -> c.values \o s
      [] c.op = "push_back" -> s \o c.values
      [] c.op = "add" -> Sorted(ToSet(s \o c.values))
      [] c.op = "place" -> SortSeq(s \o c.values, LAMBDA x, y : x < y)
      [] c.op = "insert" -> IF c.at \in 0..Len(s) THEN Into(s, c.at, c.values) ELSE s

Removed(s, c) ==
    CASE c.op \in {"delete_front", "pop_front"} -> Tail(s)
      [] c.op \in {"delete_back", "pop_back"} -> Front(s)
      [] c.op = "delete_at" -> RemoveAt(s, c.at)
      [] c.op = "discard" -> Sorted(ToSet(s) \ ToSet(c.values))
      [] c.op = "delete_node" -> LET i == FirstOf(s, c.values[1])
                                 IN  IF i = 0 THEN s ELSE RemoveAt(s, i)
      [] c.op = "clear" -> <<>>

\* The sequence after call c: a full one takes nothing in, an empty one gives
\* nothing, and a question changes nothing.
After(s, c) ==
    CASE c.op \in {"push_front", "push_back", "add", "place", "insert"} ->
             IF HasRoom(s, c.values) THEN Inserted(s, c) ELSE s
      [] c.op \in {"delete_front", "pop_front", "delete_back", "pop_back", "delete_at",
                   "discard", "delete_node", "clear"} ->
             IF s = <<>> THEN s ELSE Removed(s, c)
      [] c.op = "replace" /\ c.at \in 0..(Len(s) - 1) -> [s EXCEPT ![c.at + 1] = c.values[1]]
      [] OTHER -> s

\* What call c answers on sequence s.
Answer(s, c) ==
    CASE c.op \in {"pop_front", "get_front"} -> IF s = <<>> THEN Nothing ELSE <<Head(s)>>
      [] c.op \in {"pop_back", "get_back"} -> IF s = <<>> THEN Nothing ELSE <<Last(s)>>
      [] c.op = "get" -> IF c.at \in 0..(Len(s) - 1) THEN <<s[c.at + 1]>> ELSE Nothing
      [] c.op = "contains" -> Truth(c.values[1] \in ToSet(s))
      [] OTHER -> Nothing
-----------------------------------------------------------------------------
(* What a call does to a table. *)

KeyOf(c) == c.values[1]
Copies == LET sum[S \in SUBSET DOMAIN held] ==
                  IF S = {} THEN 0
                  ELSE LET k == CHOOSE k \in S : TRUE IN Len(held[k]) + sum[S \ {k}]
          IN  sum[DOMAIN held]

\* What is held after call c: a map replaces the value of its key, the other
\* tables add a copy, and a copy at most is taken out.
TableAfter(c) ==
    CASE c.op = "put" -> [held EXCEPT ![KeyOf(c)] = <<c.values[2]>>]
      [] c.op = "add_copy" -> [held EXCEPT ![KeyOf(c)] = Append(@, KeyOf(c))]
      [] c.op = "take" -> [held EXCEPT ![KeyOf(c)] = IF @ = <<>> THEN @ ELSE Tail(@)]
      [] OTHER -> held

\* A search answers the value found first.
TableAnswer(c) == IF c.op = "find" /\ held[KeyOf(c)] # <<>> THEN <<held[KeyOf(c)][1]>> ELSE Nothing
-----------------------------------------------------------------------------
Init == elements = <<>> /\ call = NoCall /\ \A k \in DOMAIN held : held[k] = <<>>

Next == call'.op \notin vague \cup TableOps =>
            /\ elements' = After(elements, call')
            /\ call'.answer = Answer(elements, call')
            /\ bound' = IF call'.op = "resize" THEN call'.at ELSE bound

\* A table refuses only what it has no room for.
TableNext == call'.op \in TableOps \ vague =>
                 /\ held' = TableAfter(call')
                 /\ call'.answer = TableAnswer(call')
                 /\ call'.op = "refuse" => Copies >= places

Spec == Init /\ [][Next /\ TableNext]_<<elements, bound, held, places, call, vague>>
=============================================================================
