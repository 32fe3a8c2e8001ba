----------------------------- MODULE DataLemmas ------------------------------
(***************************************************************************)
(* Facts about data that several proofs need: the arithmetic of rings,     *)
(* where h and t are the indices of the head and of the tail and C is the  *)
(* number of slots, rows of slots, induction, and linked nodes.            *)
(***************************************************************************)
EXTENDS Reachability, Integers, FunctionTheorems, FiniteSetTheorems, SequenceTheorems,
        WellFoundedInduction, TLAPS

\* How many slots lie between the head and the tail.
Held(h, t, C) == (t + C - h) % C

\* The k-th slot from the head on.
Slot(h, k, C) == (h + k - 1) % C

\* The number of slots held, without a remainder.
LEMMA HeldValue ==
    ASSUME NEW C \in Nat \ {0}, NEW h \in 0..(C - 1), NEW t \in 0..(C - 1)
    PROVE  Held(h, t, C) = IF h <= t THEN t - h ELSE t - h + C
BY DEF Held

\* The index after h, without a remainder.
LEMMA NextValue ==
    ASSUME NEW C \in Nat \ {0}, NEW h \in 0..(C - 1)
    PROVE  /\ (h + 1) % C = IF h + 1 < C THEN h + 1 ELSE 0
           /\ (h + 1) % C \in 0..(C - 1)
OBVIOUS

\* The index of the k-th slot, without a remainder.
LEMMA SlotValue ==
    ASSUME NEW C \in Nat \ {0}, NEW h \in 0..(C - 1), NEW k \in 1..C
    PROVE  /\ Slot(h, k, C) = IF h + k - 1 < C THEN h + k - 1 ELSE h + k - 1 - C
           /\ Slot(h, k, C) \in 0..(C - 1)
BY DEF Slot

\* One more is held after the tail moved on, unless that would meet the head.
LEMMA TailAdvances ==
    ASSUME NEW C \in Nat \ {0}, NEW h \in 0..(C - 1), NEW t \in 0..(C - 1),
           (t + 1) % C # h
    PROVE  Held(h, (t + 1) % C, C) = Held(h, t, C) + 1
<1>1. PICK u \in 0..(C - 1) : u = (t + 1) % C
  BY NextValue
<1>2. u = IF t + 1 < C THEN t + 1 ELSE 0
  BY <1>1, NextValue
<1>3. Held(h, u, C) = IF h <= u THEN u - h ELSE u - h + C
  BY HeldValue
<1>4. Held(h, t, C) = IF h <= t THEN t - h ELSE t - h + C
  BY HeldValue
<1> QED BY <1>1, <1>2, <1>3, <1>4

\* One slot less is held when the head moves on.
LEMMA HeadAdvances ==
    ASSUME NEW C \in Nat \ {0}, NEW h \in 0..(C - 1), NEW t \in 0..(C - 1),
           h # t
    PROVE  Held((h + 1) % C, t, C) = Held(h, t, C) - 1
<1>1. PICK u \in 0..(C - 1) : u = (h + 1) % C
  BY NextValue
<1>2. u = IF h + 1 < C THEN h + 1 ELSE 0
  BY <1>1, NextValue
<1>3. Held(u, t, C) = IF u <= t THEN t - u ELSE t - u + C
  BY HeldValue
<1>4. Held(h, t, C) = IF h <= t THEN t - h ELSE t - h + C
  BY HeldValue
<1> QED BY <1>1, <1>2, <1>3, <1>4

\* Counted from the head, the tail is the first slot that is not held.
LEMMA TailSlot ==
    ASSUME NEW C \in Nat \ {0}, NEW h \in 0..(C - 1), NEW t \in 0..(C - 1)
    PROVE  /\ Held(h, t, C) \in 0..(C - 1)
           /\ Slot(h, Held(h, t, C) + 1, C) = t
           /\ \A k \in 1..Held(h, t, C) : Slot(h, k, C) # t /\ Slot(h, k, C) \in 0..(C - 1)
<1> DEFINE n == Held(h, t, C)
<1>1. n = IF h <= t THEN t - h ELSE t - h + C
  BY HeldValue
<1>2. n \in 0..(C - 1) /\ n + 1 \in 1..C
  BY <1>1
<1> HIDE DEF n
<1>3. Slot(h, n + 1, C) = IF h + (n + 1) - 1 < C THEN h + (n + 1) - 1 ELSE h + (n + 1) - 1 - C
  BY <1>2, SlotValue
<1>4. Slot(h, n + 1, C) = t
  BY <1>1, <1>2, <1>3
<1>5. ASSUME NEW k \in 1..n PROVE Slot(h, k, C) # t /\ Slot(h, k, C) \in 0..(C - 1)
  <2>1. k \in 1..C
    BY <1>2
  <2>2. Slot(h, k, C) = IF h + k - 1 < C THEN h + k - 1 ELSE h + k - 1 - C
    BY <2>1, SlotValue
  <2> QED BY <1>1, <1>2, <2>1, <2>2
<1> QED BY <1>2, <1>4, <1>5 DEF n

\* Different places are different slots.
LEMMA SlotsDistinct ==
    ASSUME NEW C \in Nat \ {0}, NEW h \in 0..(C - 1),
           NEW j \in 1..C, NEW k \in 1..C, j # k
    PROVE  Slot(h, j, C) # Slot(h, k, C)
<1>1. Slot(h, j, C) = IF h + j - 1 < C THEN h + j - 1 ELSE h + j - 1 - C
  BY SlotValue
<1>2. Slot(h, k, C) = IF h + k - 1 < C THEN h + k - 1 ELSE h + k - 1 - C
  BY SlotValue
<1> QED BY <1>1, <1>2

\* The slot after the last one is the next one.
LEMMA NextSlot ==
    ASSUME NEW C \in Nat \ {0}, NEW h \in 0..(C - 1), NEW k \in 1..(C - 1)
    PROVE  Slot(h, k + 1, C) = (Slot(h, k, C) + 1) % C
<1>1. PICK u \in 0..(C - 1) : u = Slot(h, k, C)
  BY SlotValue
<1>2. u = IF h + k - 1 < C THEN h + k - 1 ELSE h + k - 1 - C
  BY <1>1, SlotValue
<1>3. (u + 1) % C = IF u + 1 < C THEN u + 1 ELSE 0
  BY NextValue
<1>4. k + 1 \in 1..C
  OBVIOUS
<1>5. Slot(h, k + 1, C) = IF h + (k + 1) - 1 < C THEN h + (k + 1) - 1
                          ELSE h + (k + 1) - 1 - C
  BY <1>4, SlotValue
<1> QED BY <1>1, <1>2, <1>3, <1>5

\* Only an empty ring holds nothing.
LEMMA HeldNothing ==
    ASSUME NEW C \in Nat \ {0}, NEW h \in 0..(C - 1), NEW t \in 0..(C - 1),
           Held(h, t, C) = 0
    PROVE  h = t
<1>1. Held(h, t, C) = IF h <= t THEN t - h ELSE t - h + C
  BY HeldValue
<1> QED BY <1>1

\* Different indices have different successors.
LEMMA NextInjective ==
    ASSUME NEW C \in Nat \ {0}, NEW h \in 0..(C - 1), NEW t \in 0..(C - 1),
           (h + 1) % C = (t + 1) % C
    PROVE  h = t
<1>1. (h + 1) % C = IF h + 1 < C THEN h + 1 ELSE 0
  BY NextValue
<1>2. (t + 1) % C = IF t + 1 < C THEN t + 1 ELSE 0
  BY NextValue
<1> QED BY <1>1, <1>2

\* The head is the first slot, and moving it on shifts the others by one.
LEMMA HeadSlot ==
    ASSUME NEW C \in Nat \ {0}, NEW h \in 0..(C - 1)
    PROVE  /\ Slot(h, 1, C) = h
           /\ \A k \in 1..(C - 1) : Slot((h + 1) % C, k, C) = Slot(h, k + 1, C)
<1>1. Slot(h, 1, C) = h
  BY DEF Slot
<1>2. ASSUME NEW k \in 1..(C - 1)
      PROVE  Slot((h + 1) % C, k, C) = Slot(h, k + 1, C)
  <2>1. PICK u \in 0..(C - 1) : u = (h + 1) % C
    BY NextValue
  <2>2. u = IF h + 1 < C THEN h + 1 ELSE 0
    BY <2>1, NextValue
  <2>3. k \in 1..C /\ k + 1 \in 1..C
    OBVIOUS
  <2>4. Slot(u, k, C) = IF u + k - 1 < C THEN u + k - 1 ELSE u + k - 1 - C
    BY <2>3, SlotValue
  <2>5. Slot(h, k + 1, C) = IF h + (k + 1) - 1 < C THEN h + (k + 1) - 1
                            ELSE h + (k + 1) - 1 - C
    BY <2>3, SlotValue
  <2> QED BY <2>1, <2>2, <2>3, <2>4, <2>5
<1> QED BY <1>1, <1>2
-----------------------------------------------------------------------------
(* Rows of slots. *)

\* A sequence with one more value at its end.
LEMMA AppendedRow ==
    ASSUME NEW S, NEW s \in Seq(S), NEW x \in S, NEW t \in [1..(Len(s) + 1) -> S],
           \A k \in 1..Len(s) : t[k] = s[k], t[Len(s) + 1] = x
    PROVE  t = Append(s, x)
<1>1. PICK u : u = Append(s, x)
  OBVIOUS
<1>2. /\ u \in Seq(S) /\ Len(u) = Len(s) + 1 /\ u[Len(s) + 1] = x
      /\ \A k \in 1..Len(s) : u[k] = s[k]
  BY <1>1, AppendProperties
<1>3. t \in Seq(S) /\ Len(t) = Len(s) + 1
  OBVIOUS
<1>4. ASSUME NEW k \in 1..(Len(s) + 1) PROVE t[k] = u[k]
  <2>1. k \in 1..Len(s) \/ k = Len(s) + 1
    OBVIOUS
  <2> QED BY <1>2, <2>1
<1> QED BY <1>1, <1>2, <1>3, <1>4, SeqEqual

\* A sequence whose values have all moved down by one place.
LEMMA RowWithoutHead ==
    ASSUME NEW S, NEW s \in Seq(S), Len(s) > 0, NEW t \in [1..(Len(s) - 1) -> S],
           \A k \in 1..(Len(s) - 1) : t[k] = s[k + 1]
    PROVE  s # <<>> /\ t = Tail(s)
<1>1. s # <<>>
  OBVIOUS
<1>2. PICK u : u = Tail(s)
  OBVIOUS
<1>3. /\ u \in Seq(S) /\ Len(u) = Len(s) - 1
      /\ \A k \in 1..(Len(s) - 1) : u[k] = s[k + 1]
  BY <1>1, <1>2, HeadTailProperties
<1>4. t \in Seq(S) /\ Len(t) = Len(s) - 1
  OBVIOUS
<1> QED BY <1>1, <1>2, <1>3, <1>4, SeqEqual
-----------------------------------------------------------------------------
(* Induction. *)

\* A set of natural numbers that is not empty has a least one.
LEMMA LeastNatural ==
    ASSUME NEW T \in SUBSET Nat, T # {}
    PROVE  \E n \in T : \A k \in T : n <= k
<1>0. PICK R : R = OpToRel(<, Nat)
  OBVIOUS
<1>1. R = {ss \in Nat \X Nat : ss[1] < ss[2]}
  BY <1>0 DEF OpToRel
<1>2. \E n \in T : \A k \in T : <<k, n>> \notin R
  BY <1>0, NatLessThanWellFounded, WFMin
<1>3. PICK n \in T : \A k \in T : <<k, n>> \notin R
  BY <1>2
<1>4. ASSUME NEW k \in T PROVE n <= k
  <2>1. /\ k \in Nat /\ n \in Nat /\ <<k, n>> \in Nat \X Nat
        /\ <<k, n>>[1] = k /\ <<k, n>>[2] = n
    OBVIOUS
  <2>2. ~(k < n)
    BY <1>1, <1>3, <2>1
  <2> QED BY <2>1, <2>2
<1> QED BY <1>4

\* Induction, for the members of a set instead of a predicate.
LEMMA SetInduction ==
    ASSUME NEW S, 0 \in S, \A n \in Nat : n \in S => n + 1 \in S
    PROVE  Nat \subseteq S
<1> DEFINE T == Nat \ S
<1> SUFFICES ASSUME T # {} PROVE FALSE
  OBVIOUS
<1>1. PICK n \in T : \A k \in T : n <= k
  BY LeastNatural
<1>2. n # 0 /\ n - 1 \in Nat /\ n - 1 \notin T
  BY <1>1
<1> QED BY <1>2
-----------------------------------------------------------------------------
(* Linked nodes. *)

\* s holds the nodes from a on, each once, up to the last.
IsPath(next, null, a, s) ==
    /\ s \in Seq(DOMAIN next)
    /\ IF Len(s) = 0 THEN a = null ELSE s[1] = a /\ next[s[Len(s)]] = null
    /\ \A i \in 1..(Len(s) - 1) : next[s[i]] = s[i + 1]
    /\ \A i, j \in 1..Len(s) : s[i] = s[j] => i = j

\* A sequence without repetition is not longer than its set is large.
LEMMA PathIsShort ==
    ASSUME NEW S, IsFiniteSet(S), NEW s \in Seq(S),
           \A i, j \in 1..Len(s) : s[i] = s[j] => i = j
    PROVE  Cardinality(S) \in Nat /\ Len(s) <= Cardinality(S)
<1>1. Cardinality(S) \in Nat /\ Len(s) \in Nat /\ s \in [1..Len(s) -> S]
  BY FS_CardinalityType
<1>2. IsFiniteSet(1..Len(s)) /\ Cardinality(1..Len(s)) = Len(s)
  <2>1. 1 \in Int /\ Len(s) \in Int
    BY <1>1
  <2>2. /\ IsFiniteSet(1..Len(s))
        /\ Cardinality(1..Len(s)) = IF 1 > Len(s) THEN 0 ELSE Len(s) - 1 + 1
    BY <2>1, FS_Interval
  <2> QED BY <1>1, <2>2
<1>3. s \in Injection(1..Len(s), S)
  BY <1>1 DEF Injection, IsInjective
<1> QED BY <1>1, <1>2, <1>3, FS_Injection DEF ExistsInjection

\* A walk along a path visits the nodes of the path.
LEMMA PathIsWalked ==
    ASSUME NEW next, NEW null, NEW a, NEW s, IsFiniteSet(DOMAIN next), null \notin DOMAIN next,
           IsPath(next, null, a, s)
    PROVE  NodesFrom(next, null, a) = s
<1> DEFINE N == Cardinality(DOMAIN next)
           L == Len(s)
           start(k) == [i \in 1..k |-> s[i]]
           onward(w) == IF w = <<>> THEN a ELSE next[w[Len(w)]]
<1>1. /\ N \in Nat /\ L \in 0..N /\ L \in Nat /\ s \in [1..L -> DOMAIN next]
  <2>1. s \in Seq(DOMAIN next) /\ \A i, j \in 1..Len(s) : s[i] = s[j] => i = j
    BY DEF IsPath
  <2> QED BY <2>1, PathIsShort
<1> HIDE DEF N
<1>2. PICK longer : longer = [w \in Seq(DOMAIN next) |->
                                IF onward(w) = null THEN w ELSE Append(w, onward(w))]
  OBVIOUS
<1>3. ASSUME NEW k \in 0..L PROVE start(k) \in Seq(DOMAIN next) /\ Len(start(k)) = k
  BY <1>1
<1>4. start(0) = <<>> /\ start(L) = s
  BY <1>1
<1>5. ASSUME NEW k \in 0..(L - 1) PROVE longer[start(k)] = start(k + 1)
  <2>1. k \in 0..L /\ k + 1 \in 0..L /\ k + 1 \in 1..L
    BY <1>1
  <2>2. start(k) \in Seq(DOMAIN next) /\ Len(start(k)) = k
    BY <1>3, <2>1
  <2>3. onward(start(k)) = s[k + 1]
    <3>1. CASE k = 0
      <4>1. start(k) = <<>> /\ a = s[1]
        BY <1>1, <1>4, <2>1, <3>1 DEF IsPath
      <4> QED BY <3>1, <4>1
    <3>2. CASE k # 0
      <4>1. k \in 1..(L - 1) /\ k \in 1..k
        BY <1>1, <3>2
      <4>2. start(k)[k] = s[k] /\ next[s[k]] = s[k + 1]
        BY <4>1 DEF IsPath
      <4>3. start(k) # <<>>
        BY <2>2, <3>2
      <4> QED BY <2>2, <4>2, <4>3
    <3> QED BY <3>1, <3>2
  <2>4. s[k + 1] \in DOMAIN next /\ s[k + 1] # null
    BY <1>1, <2>1
  <2>5. longer[start(k)] = Append(start(k), s[k + 1])
    BY <1>2, <2>2, <2>3, <2>4
  <2>6. Append(start(k), s[k + 1]) = start(k + 1)
    BY <1>1, <2>1, <2>2, <2>4
  <2> QED BY <2>5, <2>6
<1>6. longer[s] = s
  <2>1. s \in Seq(DOMAIN next)
    BY DEF IsPath
  <2>2. onward(s) = null
    BY <1>1, <2>1 DEF IsPath
  <2> QED BY <1>2, <2>1, <2>2
<1>7. PICK g : g = [k \in 0..N |-> IF k < L THEN start(k) ELSE s]
  OBVIOUS
<1>8. g = [k \in 0..N |-> IF k = 0 THEN <<>> ELSE longer[g[k - 1]]]
  <2>1. ASSUME NEW k \in 0..N, k = 0 PROVE g[k] = <<>>
    BY <1>1, <1>4, <1>7, <2>1
  <2>2. ASSUME NEW k \in 0..N, k # 0 PROVE g[k] = longer[g[k - 1]]
    <3>1. k - 1 \in 0..N /\ k \in Nat /\ (k - 1) + 1 = k
      BY <1>1, <2>2
    <3>2. CASE k - 1 < L
      <4>1. k - 1 \in 0..(L - 1)
        BY <1>1, <3>1, <3>2
      <4>2. g[k - 1] = start(k - 1) /\ longer[start(k - 1)] = start(k)
        BY <1>5, <1>7, <3>1, <3>2, <4>1
      <4>3. k = L \/ k < L
        <5>1. k \in Nat /\ L \in Nat
          BY <1>1, <3>1
        <5>2. \A m, n \in Nat : m - 1 < n => m = n \/ m < n
          OBVIOUS
        <5> HIDE DEF L
        <5> QED BY <3>2, <5>1, <5>2
      <4>4. g[k] = start(k)
        BY <1>4, <1>7, <4>3
      <4> QED BY <4>2, <4>4
    <3>3. CASE ~(k - 1 < L)
      <4>1. ~(k < L)
        BY <1>1, <3>1, <3>3
      <4>2. g[k - 1] = s /\ g[k] = s
        BY <1>7, <3>1, <3>3, <4>1
      <4> QED BY <1>6, <4>2
    <3> QED BY <3>2, <3>3
  <2>3. \A k \in 0..N : g[k] = IF k = 0 THEN <<>> ELSE longer[g[k - 1]]
    BY <2>1, <2>2
  <2>4. DOMAIN g = 0..N /\ g = [k \in 0..N |-> g[k]]
    BY <1>7
  <2> HIDE DEF start
  <2> QED BY <2>3, <2>4
<1>9. PICK walk : walk = CHOOSE f : f = [k \in 0..N |-> IF k = 0 THEN <<>> ELSE longer[f[k - 1]]]
  OBVIOUS
<1>10. walk = [k \in 0..N |-> IF k = 0 THEN <<>> ELSE longer[walk[k - 1]]]
  BY <1>8, <1>9
<1>11. \A k \in 0..N : walk[k] = g[k]
  <2> DEFINE S == {k \in Nat : k \in 0..N => walk[k] = g[k]}
  <2>1. 0 \in S
    BY <1>1, <1>8, <1>10
  <2>2. ASSUME NEW k \in Nat, k \in S PROVE k + 1 \in S
    <3> SUFFICES ASSUME k + 1 \in 0..N PROVE walk[k + 1] = g[k + 1]
      OBVIOUS
    <3>1. k \in 0..N /\ k + 1 # 0 /\ (k + 1) - 1 = k
      BY <1>1
    <3>2. walk[k] = g[k]
      BY <2>2, <3>1
    <3>3. walk[k + 1] = longer[walk[k]]
      BY <1>10, <3>1
    <3>4. g[k + 1] = longer[g[k]]
      BY <1>8, <3>1
    <3> QED BY <3>2, <3>3, <3>4
  <2> HIDE DEF S
  <2>3. Nat \subseteq S
    BY <2>1, <2>2, SetInduction
  <2> QED BY <2>3, <1>1 DEF S
<1>12. walk[N] = s
  <2>1. N \in 0..N /\ ~(N < L)
    BY <1>1
  <2> QED BY <1>7, <1>11, <2>1
<1>13. NodesFrom(next, null, a) = walk[N]
  BY <1>2, <1>9 DEF NodesFrom, N
<1> QED BY <1>12, <1>13

\* ... and these are all.
LEMMA PathIsVisited ==
    ASSUME NEW next, NEW null, NEW a, NEW s, null \notin DOMAIN next, IsPath(next, null, a, s)
    PROVE  Visited(next, null, a) = {s[i] : i \in 1..Len(s)}
<1> DEFINE P == {s[i] : i \in 1..Len(s)}
<1>1. s \in Seq(DOMAIN next) /\ Len(s) \in Nat
  BY DEF IsPath
<1>2. CASE a = null
  <2>1. Len(s) = 0
    <3> SUFFICES ASSUME Len(s) # 0 PROVE FALSE
      OBVIOUS
    <3>1. s[1] = a /\ s[1] \in DOMAIN next
      BY <1>1 DEF IsPath
    <3> QED BY <1>2, <3>1
  <2> QED BY <1>2, <2>1 DEF Visited
<1>3. CASE a # null
  <2>0. PICK g : g = [n \in DOMAIN next |-> IF next[n] = null THEN <<>> ELSE <<next[n]>>]
    OBVIOUS
  <2>1. Visited(next, null, a) = {v \in DOMAIN next : \A S \in SUBSET DOMAIN next :
                                     a \in S /\ Closed(g, S) => v \in S}
    BY <1>3, <2>0 DEF Visited, Reachable
  <2>2. Len(s) # 0 /\ s[1] = a
    BY <1>3 DEF IsPath
  <2>3. P \in SUBSET DOMAIN next /\ a \in P
    BY <1>1, <2>2
  <2>4. \A n \in DOMAIN next : next[n] # null => g[n] = <<next[n]>> /\ 1 \in DOMAIN g[n] /\ g[n][1] = next[n]
    BY <2>0
  <2>5. \A n \in DOMAIN next : \A k \in DOMAIN g[n] : next[n] # null /\ g[n][k] = next[n]
    <3> SUFFICES ASSUME NEW n \in DOMAIN next, NEW k \in DOMAIN g[n]
                 PROVE  next[n] # null /\ g[n][k] = next[n]
      OBVIOUS
    <3>1. next[n] # null
      BY <2>0
    <3>2. g[n] = <<next[n]>> /\ k = 1
      BY <2>0, <3>1
    <3> QED BY <3>1, <3>2
  <2>6. Closed(g, P)
    <3> SUFFICES ASSUME NEW i \in 1..Len(s), NEW k \in DOMAIN g[s[i]] PROVE g[s[i]][k] \in P
      BY DEF Closed
    <3>1. s[i] \in DOMAIN next
      BY <1>1
    <3>2. next[s[i]] # null /\ g[s[i]][k] = next[s[i]]
      BY <2>5, <3>1
    <3>3. i # Len(s)
      BY <2>2, <3>2 DEF IsPath
    <3>4. i \in 1..(Len(s) - 1) /\ i + 1 \in 1..Len(s)
      BY <1>1, <3>3
    <3>5. next[s[i]] = s[i + 1]
      BY <3>4 DEF IsPath
    <3> QED BY <3>2, <3>4, <3>5
  <2>7. ASSUME NEW S \in SUBSET DOMAIN next, a \in S, Closed(g, S) PROVE P \subseteq S
    <3> DEFINE T == {k \in Nat : k + 1 \in 1..Len(s) => s[k + 1] \in S}
    <3>1. 0 \in T
      BY <2>2, <2>7
    <3>2. ASSUME NEW k \in Nat, k \in T PROVE k + 1 \in T
      <4> SUFFICES ASSUME (k + 1) + 1 \in 1..Len(s) PROVE s[(k + 1) + 1] \in S
        OBVIOUS
      <4>1. k + 1 \in 1..(Len(s) - 1) /\ k + 1 \in 1..Len(s)
        BY <1>1
      <4>2. s[k + 1] \in S /\ next[s[k + 1]] = s[(k + 1) + 1]
        BY <3>2, <4>1 DEF IsPath
      <4>3. s[k + 1] \in DOMAIN next /\ s[(k + 1) + 1] \in DOMAIN next
        BY <1>1, <4>1
      <4>4. g[s[k + 1]][1] = s[(k + 1) + 1] /\ 1 \in DOMAIN g[s[k + 1]]
        BY <2>4, <4>2, <4>3
      <4>5. \A kk \in DOMAIN g[s[k + 1]] : g[s[k + 1]][kk] \in S
        BY <2>7, <4>2 DEF Closed
      <4> QED BY <4>4, <4>5
    <3> HIDE DEF T
    <3>3. Nat \subseteq T
      BY <3>1, <3>2, SetInduction
    <3>4. ASSUME NEW i \in 1..Len(s) PROVE s[i] \in S
      <4>1. i - 1 \in Nat /\ (i - 1) + 1 = i
        BY <1>1
      <4>2. i - 1 \in T
        BY <3>3, <4>1
      <4> QED BY <4>1, <4>2 DEF T
    <3> QED BY <3>4
  <2> QED BY <2>1, <2>3, <2>6, <2>7
<1> QED BY <1>2, <1>3

\* Every node of a path but the last is followed by one, which is not the first.
LEMMA PathNext ==
    ASSUME NEW next, NEW null, null \notin DOMAIN next, NEW a, NEW s, IsPath(next, null, a, s),
           NEW n \in {s[i] : i \in 1..Len(s)}
    PROVE  /\ n \in DOMAIN next
           /\ next[n] = null <=> n = s[Len(s)]
           /\ next[n] # null => next[n] \in {s[i] : i \in 1..Len(s)} /\ next[n] # a /\ next[n] # n
<1>1. s \in Seq(DOMAIN next) /\ Len(s) \in Nat
  BY DEF IsPath
<1>2. PICK i \in 1..Len(s) : n = s[i]
  OBVIOUS
<1>3. n \in DOMAIN next /\ next[s[Len(s)]] = null /\ s[1] = a /\ Len(s) \in 1..Len(s) /\ 1 \in 1..Len(s)
  BY <1>1, <1>2 DEF IsPath
<1>4. CASE i = Len(s)
  BY <1>2, <1>3, <1>4
<1>5. CASE i # Len(s)
  <2>1. i \in 1..(Len(s) - 1) /\ i + 1 \in 1..Len(s) /\ i + 1 # 1 /\ i + 1 # i
    BY <1>1, <1>2, <1>5
  <2>2. next[n] = s[i + 1]
    BY <1>2, <2>1 DEF IsPath
  <2>3. s[i + 1] \in DOMAIN next
    BY <1>1, <2>1
  <2>4. s[i + 1] # s[1] /\ s[i + 1] # s[i] /\ s[i] # s[Len(s)]
    BY <1>2, <1>3, <1>5, <2>1 DEF IsPath
  <2> QED BY <1>2, <1>3, <2>1, <2>2, <2>3, <2>4
<1> QED BY <1>4, <1>5

\* A link that no node of the path uses may change.
LEMMA PathKept ==
    ASSUME NEW next, NEW null, NEW a, NEW s, IsPath(next, null, a, s),
           NEW other, DOMAIN other = DOMAIN next,
           \A i \in 1..Len(s) : other[s[i]] = next[s[i]]
    PROVE  IsPath(other, null, a, s)
<1>1. s \in Seq(DOMAIN next) /\ Len(s) \in Nat
  BY DEF IsPath
<1>2. ASSUME Len(s) # 0 PROVE other[s[Len(s)]] = next[s[Len(s)]]
  BY <1>1, <1>2
<1>3. ASSUME NEW i \in 1..(Len(s) - 1) PROVE other[s[i]] = next[s[i]]
  BY <1>1, <1>3
<1> QED BY <1>1, <1>2, <1>3 DEF IsPath

\* A node pushed in front of a path.
LEMMA PathPushed ==
    ASSUME NEW next, NEW null, NEW a, NEW s, IsPath(next, null, a, s),
           NEW n \in DOMAIN next, next[n] = a, \A i \in 1..Len(s) : s[i] # n
    PROVE  IsPath(next, null, n, <<n>> \o s)
<1>1. s \in Seq(DOMAIN next) /\ Len(s) \in Nat /\ <<n>> \in Seq(DOMAIN next) /\ Len(<<n>>) = 1
  BY DEF IsPath
<1>2. PICK u : u = <<n>> \o s
  OBVIOUS
<1>3. /\ u \in Seq(DOMAIN next) /\ Len(u) = Len(s) + 1 /\ u[1] = n
      /\ \A k \in 1..Len(s) : u[k + 1] = s[k]
  BY <1>1, <1>2, ConcatProperties
<1>4. next[u[Len(u)]] = null
  <2>1. CASE Len(s) = 0
    BY <1>3, <2>1 DEF IsPath
  <2>2. CASE Len(s) # 0
    <3>1. Len(s) \in 1..Len(s) /\ next[s[Len(s)]] = null
      BY <1>1, <2>2 DEF IsPath
    <3> QED BY <1>3, <3>1
  <2> QED BY <2>1, <2>2
<1>5. ASSUME NEW i \in 1..(Len(u) - 1) PROVE next[u[i]] = u[i + 1]
  <2>1. CASE i = 1
    <3>1. Len(s) # 0 /\ 1 \in 1..Len(s) /\ u[1 + 1] = s[1]
      BY <1>1, <1>3, <2>1
    <3>2. s[1] = a
      BY <3>1 DEF IsPath
    <3> QED BY <1>3, <2>1, <3>1, <3>2
  <2>2. CASE i # 1
    <3>1. i - 1 \in 1..(Len(s) - 1) /\ i - 1 \in 1..Len(s) /\ i \in 1..Len(s) /\ (i - 1) + 1 = i
      BY <1>1, <1>3, <2>2
    <3>2. next[s[i - 1]] = s[(i - 1) + 1]
      BY <3>1 DEF IsPath
    <3>3. u[(i - 1) + 1] = s[i - 1] /\ u[i + 1] = s[i]
      BY <1>3, <3>1
    <3> QED BY <3>1, <3>2, <3>3
  <2> QED BY <2>1, <2>2
<1>6. ASSUME NEW i \in 1..Len(u), NEW j \in 1..Len(u), u[i] = u[j] PROVE i = j
  <2>1. ASSUME NEW k \in 1..Len(u), k # 1
        PROVE  k - 1 \in 1..Len(s) /\ u[k] = s[k - 1] /\ s[k - 1] # n
    <3>1. k - 1 \in 1..Len(s) /\ (k - 1) + 1 = k
      BY <1>1, <1>3, <2>1
    <3> QED BY <1>3, <3>1
  <2>2. CASE i = 1 \/ j = 1
    BY <1>3, <1>6, <2>1, <2>2
  <2>3. CASE i # 1 /\ j # 1
    <3>1. /\ i - 1 \in 1..Len(s) /\ u[i] = s[i - 1]
          /\ j - 1 \in 1..Len(s) /\ u[j] = s[j - 1]
      BY <2>1, <2>3
    <3>2. i - 1 = j - 1
      BY <1>6, <3>1 DEF IsPath
    <3> QED BY <1>1, <1>3, <3>2
  <2> QED BY <2>2, <2>3
<1>7. Len(u) # 0
  BY <1>1, <1>3
<1> QED BY <1>2, <1>3, <1>4, <1>5, <1>6, <1>7 DEF IsPath

\* What is left of a path without its first node.
LEMMA PathPopped ==
    ASSUME NEW next, NEW null, NEW a, NEW s, IsPath(next, null, a, s), a # null
    PROVE  /\ s # <<>> /\ Len(s) \in Nat \ {0} /\ s[1] = a /\ Head(s) = a
           /\ IsPath(next, null, next[a], Tail(s))
           /\ \A i \in 1..Len(Tail(s)) : Tail(s)[i] = s[i + 1] /\ Tail(s)[i] # a
           /\ {Tail(s)[i] : i \in 1..Len(Tail(s))} = {s[i] : i \in 1..Len(s)} \ {a}
<1>1. s \in Seq(DOMAIN next) /\ Len(s) \in Nat
  BY DEF IsPath
<1>2. Len(s) # 0 /\ s # <<>> /\ s[1] = a
  BY <1>1 DEF IsPath
<1>3. PICK u : u = Tail(s)
  OBVIOUS
<1>4. /\ u \in Seq(DOMAIN next) /\ Len(u) = Len(s) - 1
      /\ \A k \in 1..Len(u) : u[k] = s[k + 1]
  BY <1>1, <1>2, <1>3, HeadTailProperties
<1>5. Head(s) = a
  BY <1>1, <1>2
<1>6. \A i, j \in 1..Len(s) : s[i] = s[j] => i = j
  BY DEF IsPath
<1>7. ASSUME NEW k \in 1..Len(u) PROVE u[k] = s[k + 1] /\ k + 1 \in 1..Len(s) /\ u[k] # a
  <2>1. k + 1 \in 1..Len(s) /\ 1 \in 1..Len(s) /\ k + 1 # 1
    BY <1>1, <1>2, <1>4
  <2>2. s[k + 1] # s[1]
    BY <1>6, <2>1
  <2> QED BY <1>2, <1>4, <2>1, <2>2
<1>8. IsPath(next, null, next[a], u)
  <2>1. CASE Len(u) = 0
    <3>1. Len(s) = 1 /\ next[s[1]] = null
      <4>1. Len(s) = 1
        BY <1>1, <1>4, <2>1
      <4>2. next[s[Len(s)]] = null
        BY <1>2 DEF IsPath
      <4> QED BY <4>1, <4>2
    <3>2. \A i \in 1..(Len(u) - 1) : next[u[i]] = u[i + 1]
      BY <2>1
    <3>3. \A i, j \in 1..Len(u) : u[i] = u[j] => i = j
      BY <2>1
    <3> QED BY <1>2, <1>4, <2>1, <3>1, <3>2, <3>3 DEF IsPath
  <2>2. CASE Len(u) # 0
    <3>1. u[1] = next[a]
      <4>1. 1 \in 1..Len(u) /\ 1 \in 1..(Len(s) - 1)
        BY <1>1, <1>4, <2>2
      <4>2. next[s[1]] = s[1 + 1]
        BY <4>1 DEF IsPath
      <4> QED BY <1>2, <1>7, <4>1, <4>2
    <3>2. next[u[Len(u)]] = null
      <4>1. Len(u) \in 1..Len(u) /\ Len(u) + 1 = Len(s)
        BY <1>1, <1>4, <2>2
      <4>2. u[Len(u)] = s[Len(s)]
        BY <1>7, <4>1
      <4> QED BY <1>2, <4>2 DEF IsPath
    <3>3. ASSUME NEW i \in 1..(Len(u) - 1) PROVE next[u[i]] = u[i + 1]
      <4>1. i \in 1..Len(u) /\ i + 1 \in 1..Len(u) /\ i + 1 \in 1..(Len(s) - 1)
        BY <1>1, <1>4
      <4>2. next[s[i + 1]] = s[(i + 1) + 1]
        BY <4>1 DEF IsPath
      <4> QED BY <1>7, <4>1, <4>2
    <3>4. ASSUME NEW i \in 1..Len(u), NEW j \in 1..Len(u), u[i] = u[j] PROVE i = j
      <4>1. i + 1 = j + 1
        BY <1>6, <1>7, <3>4
      <4> QED BY <4>1
    <3> QED BY <1>4, <2>2, <3>1, <3>2, <3>3, <3>4 DEF IsPath
  <2> QED BY <2>1, <2>2
<1>9. {u[i] : i \in 1..Len(u)} = {s[i] : i \in 1..Len(s)} \ {a}
  <2>1. ASSUME NEW i \in 1..Len(s), s[i] # a PROVE \E k \in 1..Len(u) : u[k] = s[i]
    <3>1. i - 1 \in 1..Len(u) /\ (i - 1) + 1 = i
      BY <1>1, <1>2, <1>4, <2>1
    <3> QED BY <1>7, <3>1
  <2> QED BY <1>7, <2>1
<1> QED BY <1>1, <1>2, <1>3, <1>5, <1>7, <1>8, <1>9

\* A node appended to a path.
LEMMA PathAppended ==
    ASSUME NEW next, NEW null, NEW a, NEW s, IsPath(next, null, a, s), Len(s) # 0,
           NEW n \in DOMAIN next, next[n] = null, \A i \in 1..Len(s) : s[i] # n
    PROVE  IsPath([next EXCEPT ![s[Len(s)]] = n], null, a, Append(s, n))
<1>1. s \in Seq(DOMAIN next) /\ Len(s) \in Nat /\ Len(s) \in 1..Len(s)
  BY DEF IsPath
<1>2. PICK u : u = Append(s, n)
  OBVIOUS
<1>3. /\ u \in Seq(DOMAIN next) /\ Len(u) = Len(s) + 1 /\ u[Len(s) + 1] = n
      /\ \A k \in 1..Len(s) : u[k] = s[k]
  BY <1>1, <1>2, AppendProperties
<1>4. PICK other : other = [next EXCEPT ![s[Len(s)]] = n]
  OBVIOUS
<1>5. /\ DOMAIN other = DOMAIN next /\ other[s[Len(s)]] = n
      /\ \A m \in DOMAIN next : m # s[Len(s)] => other[m] = next[m]
  BY <1>1, <1>4
<1>6. other[u[Len(u)]] = null
  <2>1. n # s[Len(s)]
    BY <1>1
  <2> QED BY <1>3, <1>5, <2>1
<1>7. ASSUME NEW i \in 1..(Len(u) - 1) PROVE other[u[i]] = u[i + 1]
  <2>0. i \in 1..Len(s) /\ s[i] \in DOMAIN next /\ u[i] = s[i]
    BY <1>1, <1>3
  <2>1. CASE i = Len(s)
    BY <1>3, <1>5, <2>0, <2>1
  <2>2. CASE i # Len(s)
    <3>1. i \in 1..(Len(s) - 1) /\ i + 1 \in 1..Len(s)
      BY <1>1, <2>0, <2>2
    <3>2. next[s[i]] = s[i + 1] /\ s[i] # s[Len(s)]
      BY <1>1, <2>0, <2>2, <3>1 DEF IsPath
    <3> QED BY <1>3, <1>5, <2>0, <3>1, <3>2
  <2> QED BY <2>1, <2>2
<1>8. ASSUME NEW i \in 1..Len(u), NEW j \in 1..Len(u), u[i] = u[j] PROVE i = j
  <2>1. \A k \in 1..Len(u) : k \in 1..Len(s) \/ k = Len(s) + 1
    BY <1>1, <1>3
  <2>2. CASE i \in 1..Len(s) /\ j \in 1..Len(s)
    BY <1>3, <1>8, <2>2 DEF IsPath
  <2>3. CASE i = Len(s) + 1 \/ j = Len(s) + 1
    BY <1>3, <1>8, <2>1, <2>3
  <2> QED BY <2>1, <2>2, <2>3
<1>9. u[1] = a /\ Len(u) # 0
  <2>1. s[1] = a /\ 1 \in 1..Len(s)
    BY <1>1 DEF IsPath
  <2> QED BY <1>1, <1>3, <2>1
<1> QED BY <1>2, <1>3, <1>4, <1>5, <1>6, <1>7, <1>8, <1>9 DEF IsPath
-----------------------------------------------------------------------------
(* Linked nodes by rank. *)

\* From h on, the links lead through the nodes of S, each ranked below the one before.
Chain(links, null, h, S, rank) ==
    /\ S \subseteq DOMAIN links /\ null \notin S /\ rank \in [DOMAIN links -> Nat]
    /\ \E m \in Nat : \A n \in S : rank[n] <= m
    /\ \A a, b \in S : rank[a] = rank[b] => a = b
    /\ h \in S \cup {null}
    /\ \A v \in S : h # null /\ rank[v] <= rank[h]
    /\ \A n \in S : /\ links[n] \in S \cup {null}
                    /\ links[n] # null => rank[links[n]] < rank[n]
                    /\ \A v \in S : rank[v] < rank[n] => links[n] # null /\ rank[v] <= rank[links[n]]

\* A walk along a chain visits its nodes.
LEMMA ChainVisited ==
    ASSUME NEW links, NEW null, null \notin DOMAIN links, NEW h, NEW S, NEW rank,
           Chain(links, null, h, S, rank)
    PROVE  Visited(links, null, h) = S
<1>1. /\ S \subseteq DOMAIN links /\ null \notin S /\ \A n \in DOMAIN links : rank[n] \in Nat
      /\ \A a, b \in S : rank[a] = rank[b] => a = b
      /\ h \in S \cup {null} /\ \A v \in S : h # null /\ rank[v] <= rank[h]
      /\ \A n \in S : /\ links[n] \in S \cup {null}
                      /\ links[n] # null => rank[links[n]] < rank[n]
                      /\ \A v \in S : rank[v] < rank[n] =>
                                         links[n] # null /\ rank[v] <= rank[links[n]]
  BY DEF Chain
<1>2. CASE h = null
  BY <1>1, <1>2 DEF Visited
<1>3. CASE h # null
  <2>0. PICK g : g = [n \in DOMAIN links |-> IF links[n] = null THEN <<>> ELSE <<links[n]>>]
    OBVIOUS
  <2>1. Visited(links, null, h) = {v \in DOMAIN links : \A T \in SUBSET DOMAIN links :
                                      h \in T /\ Closed(g, T) => v \in T}
    BY <1>3, <2>0 DEF Visited, Reachable
  <2>2. \A n \in DOMAIN links : links[n] # null => g[n] = <<links[n]>>
    BY <2>0
  <2>3. Closed(g, S)
    <3> SUFFICES ASSUME NEW n \in S, NEW k \in DOMAIN g[n] PROVE g[n][k] \in S
      BY DEF Closed
    <3>1. n \in DOMAIN links /\ links[n] \in S \cup {null}
      BY <1>1
    <3>2. links[n] # null
      BY <2>0, <3>1
    <3>3. g[n] = <<links[n]>> /\ k = 1
      BY <2>2, <3>1, <3>2
    <3> QED BY <3>1, <3>2, <3>3
  <2>4. ASSUME NEW v \in S, NEW T \in SUBSET DOMAIN links, h \in T, Closed(g, T)
        PROVE  v \in T
    <3> SUFFICES ASSUME v \notin T PROVE FALSE
      OBVIOUS
    <3>0. PICK P : P = {rank[n] : n \in {k \in T : k \in S /\ rank[v] <= rank[k]}}
      OBVIOUS
    <3>1. P \subseteq Nat /\ rank[h] \in P
      BY <1>1, <1>3, <2>4, <3>0
    <3>2. PICK r \in P : \A q \in P : r <= q
      BY <3>1, LeastNatural
    <3>3. PICK n \in T : n \in S /\ rank[v] <= rank[n] /\ r = rank[n]
      BY <3>0, <3>2
    <3>4. /\ n # v /\ n \in DOMAIN links /\ rank[n] \in Nat /\ rank[v] \in Nat
          /\ rank[v] # rank[n]
      BY <1>1, <3>3
    <3>5. links[n] # null /\ links[n] \in S /\ rank[links[n]] < rank[n] /\ rank[v] <= rank[links[n]]
      BY <1>1, <3>3, <3>4
    <3>6. links[n] \in T
      <4>1. g[n] = <<links[n]>>
        BY <2>2, <3>4, <3>5
      <4>2. 1 \in DOMAIN g[n] /\ g[n][1] = links[n]
        BY <4>1
      <4>3. \A k \in DOMAIN g[n] : g[n][k] \in T
        BY <2>4, <3>3 DEF Closed
      <4> QED BY <4>2, <4>3
    <3>7. rank[links[n]] \in P /\ rank[links[n]] \in Nat
      BY <1>1, <3>0, <3>5, <3>6
    <3>8. rank[n] <= rank[links[n]]
      BY <3>2, <3>3, <3>7
    <3> QED BY <3>4, <3>5, <3>7, <3>8
  <2>5. S \in SUBSET DOMAIN links /\ h \in S
    BY <1>1, <1>3
  <2> QED BY <2>1, <2>3, <2>4, <2>5
<1> QED BY <1>2, <1>3

\* Links of other nodes may change.
LEMMA ChainKept ==
    ASSUME NEW links, NEW null, NEW h, NEW S, NEW rank, Chain(links, null, h, S, rank),
           NEW other, DOMAIN other = DOMAIN links, \A n \in S : other[n] = links[n]
    PROVE  Chain(other, null, h, S, rank)
BY DEF Chain

\* A node pushed in front gets a rank above all others.
LEMMA ChainPushed ==
    ASSUME NEW links, NEW null, null \notin DOMAIN links, NEW h, NEW S, NEW rank,
           Chain(links, null, h, S, rank),
           NEW n \in DOMAIN links, n \notin S, links[n] = h, NEW T, T = S \cup {n}
    PROVE  \E above : Chain(links, null, n, T, above) /\ \A a \in S : above[a] = rank[a]
<1>1. /\ S \subseteq DOMAIN links /\ null \notin S /\ rank \in [DOMAIN links -> Nat]
      /\ \A a, b \in S : rank[a] = rank[b] => a = b
      /\ h \in S \cup {null} /\ \A v \in S : h # null /\ rank[v] <= rank[h]
      /\ \A a \in S : /\ links[a] \in S \cup {null}
                      /\ links[a] # null => rank[links[a]] < rank[a]
                      /\ \A v \in S : rank[v] < rank[a] =>
                                         links[a] # null /\ rank[v] <= rank[links[a]]
  BY DEF Chain
<1>2. PICK m \in Nat : \A a \in S : rank[a] <= m
  BY DEF Chain
<1>3. PICK above : above = [rank EXCEPT ![n] = m + 1]
  OBVIOUS
<1>4. /\ above \in [DOMAIN links -> Nat] /\ above[n] = m + 1
      /\ \A a \in S : above[a] = rank[a] /\ above[a] \in Nat /\ above[a] < m + 1
  BY <1>1, <1>2, <1>3
<1>5. T = S \cup {n}
  OBVIOUS
<1>6. n # null /\ T \subseteq DOMAIN links /\ null \notin T
  BY <1>1, <1>5
<1>7. \A a \in T : above[a] <= m + 1
  BY <1>4, <1>5
<1>8. \A a, b \in T : above[a] = above[b] => a = b
  BY <1>1, <1>4, <1>5
<1>9. \A v \in T : n # null /\ above[v] <= above[n]
  BY <1>4, <1>6, <1>7
<1>10. ASSUME NEW a \in T
       PROVE  /\ links[a] \in T \cup {null}
              /\ links[a] # null => above[links[a]] < above[a]
              /\ \A v \in T : above[v] < above[a] =>
                                 links[a] # null /\ above[v] <= above[links[a]]
  <2>1. CASE a = n
    <3>1. \A v \in T : above[v] < above[n] => v \in S
      BY <1>4, <1>5
    <3> QED BY <1>1, <1>4, <1>5, <2>1, <3>1
  <2>2. CASE a # n
    <3>1. a \in S
      BY <1>5, <2>2
    <3>2. \A v \in T : above[v] < above[a] => v \in S
      BY <1>4, <1>5, <3>1
    <3> QED BY <1>1, <1>4, <1>5, <3>1, <3>2
  <2> QED BY <2>1, <2>2
<1>11. Chain(links, null, n, T, above)
  <2>1. m + 1 \in Nat
    OBVIOUS
  <2>2. n \in T \cup {null}
    BY <1>5
  <2> QED BY <1>4, <1>6, <1>7, <1>8, <1>9, <1>10, <2>1, <2>2 DEF Chain
<1> QED BY <1>4, <1>5, <1>11

\* The first node taken out.
LEMMA ChainPopped ==
    ASSUME NEW links, NEW null, NEW h, NEW S, NEW rank, Chain(links, null, h, S, rank), h # null
    PROVE  Chain(links, null, links[h], S \ {h}, rank)
<1>1. /\ S \subseteq DOMAIN links /\ null \notin S /\ rank \in [DOMAIN links -> Nat]
      /\ \A a, b \in S : rank[a] = rank[b] => a = b
      /\ h \in S /\ \A v \in S : rank[v] <= rank[h]
      /\ \A a \in S : /\ links[a] \in S \cup {null}
                      /\ links[a] # null => rank[links[a]] < rank[a]
                      /\ \A v \in S : rank[v] < rank[a] =>
                                         links[a] # null /\ rank[v] <= rank[links[a]]
  BY DEF Chain
<1>2. PICK m \in Nat : \A a \in S : rank[a] <= m
  BY DEF Chain
<1>3. PICK T : T = S \ {h}
  OBVIOUS
<1>4. \A v \in S : rank[v] \in Nat
  BY <1>1
<1>5. \A v \in T : v \in S /\ rank[v] < rank[h]
  BY <1>1, <1>3, <1>4
<1>6. \A a \in S : links[a] # h
  BY <1>1, <1>4
<1>7. Chain(links, null, links[h], T, rank)
  <2>1. T \subseteq DOMAIN links /\ null \notin T /\ \A n \in T : rank[n] <= m
    BY <1>1, <1>2, <1>3
  <2>2. links[h] \in T \cup {null} /\ \A v \in T : links[h] # null /\ rank[v] <= rank[links[h]]
    BY <1>1, <1>3, <1>5, <1>6
  <2>3. ASSUME NEW n \in T
        PROVE  /\ links[n] \in T \cup {null}
               /\ links[n] # null => rank[links[n]] < rank[n]
               /\ \A v \in T : rank[v] < rank[n] => links[n] # null /\ rank[v] <= rank[links[n]]
    BY <1>1, <1>3, <1>5, <1>6
  <2> QED BY <1>1, <1>3, <2>1, <2>2, <2>3 DEF Chain
<1> QED BY <1>3, <1>7

\* A node behind p taken out.
LEMMA ChainUnlinked ==
    ASSUME NEW links, NEW null, NEW h, NEW S, NEW rank, Chain(links, null, h, S, rank),
           NEW p \in S, NEW n \in S, links[p] = n
    PROVE  Chain([links EXCEPT ![p] = links[n]], null, h, S \ {n}, rank)
<1>1. /\ S \subseteq DOMAIN links /\ null \notin S /\ rank \in [DOMAIN links -> Nat]
      /\ \A a, b \in S : rank[a] = rank[b] => a = b
      /\ h \in S \cup {null} /\ \A v \in S : h # null /\ rank[v] <= rank[h]
      /\ \A a \in S : /\ links[a] \in S \cup {null}
                      /\ links[a] # null => rank[links[a]] < rank[a]
                      /\ \A v \in S : rank[v] < rank[a] =>
                                         links[a] # null /\ rank[v] <= rank[links[a]]
  BY DEF Chain
<1>2. PICK m \in Nat : \A a \in S : rank[a] <= m
  BY DEF Chain
<1>3. PICK T : T = S \ {n}
  OBVIOUS
<1>4. \A v \in S : rank[v] \in Nat
  BY <1>1
<1>5. PICK other : other = [links EXCEPT ![p] = links[n]]
  OBVIOUS
<1>6. /\ DOMAIN other = DOMAIN links /\ other[p] = links[n]
      /\ \A a \in S : a # p => other[a] = links[a]
  BY <1>1, <1>5
<1>7. rank[n] < rank[p] /\ p # n /\ n # null /\ p \in T
  BY <1>1, <1>3, <1>4
<1>8. ASSUME NEW a \in S, a # p PROVE links[a] # n
  <2> SUFFICES ASSUME links[a] = n PROVE FALSE
    OBVIOUS
  <2>1. rank[n] < rank[a] /\ rank[a] # rank[p]
    BY <1>1, <1>7, <1>8
  <2>2. CASE rank[a] < rank[p]
    BY <1>1, <1>4, <2>1, <2>2
  <2>3. CASE rank[p] < rank[a]
    BY <1>1, <1>4, <1>7, <2>3
  <2> QED BY <1>4, <2>1, <2>2, <2>3
<1>9. h # n
  BY <1>1, <1>4, <1>7
<1>10. ASSUME NEW a \in T
       PROVE  /\ other[a] \in T \cup {null}
              /\ other[a] # null => rank[other[a]] < rank[a]
              /\ \A v \in T : rank[v] < rank[a] => other[a] # null /\ rank[v] <= rank[other[a]]
  <2>0. a \in S /\ a # n
    BY <1>3
  <2>1. CASE a = p
    <3>1. links[n] \in S \cup {null} /\ links[n] # n /\ (links[n] # null => rank[links[n]] < rank[n])
      BY <1>1, <1>4
    <3>2. links[n] # null => rank[links[n]] < rank[p]
      BY <1>4, <1>7, <3>1
    <3>3. ASSUME NEW v \in T, rank[v] < rank[p]
          PROVE  links[n] # null /\ rank[v] <= rank[links[n]]
      <4>1. v \in S /\ v # n /\ rank[v] # rank[n] /\ rank[v] <= rank[n]
        BY <1>1, <1>3, <1>7, <3>3
      <4>2. rank[v] < rank[n]
        BY <1>4, <4>1
      <4> QED BY <1>1, <4>1, <4>2
    <3> QED BY <1>3, <1>6, <2>1, <3>1, <3>2, <3>3
  <2>2. CASE a # p
    <3>1. other[a] = links[a] /\ links[a] # n
      BY <1>6, <1>8, <2>0, <2>2
    <3> QED BY <1>1, <1>3, <2>0, <3>1
  <2> QED BY <2>1, <2>2
<1>11. Chain(other, null, h, T, rank)
  <2>1. T \subseteq DOMAIN other /\ null \notin T /\ \A a \in T : rank[a] <= m
    BY <1>1, <1>2, <1>3, <1>6
  <2>2. h \in T \cup {null} /\ \A v \in T : h # null /\ rank[v] <= rank[h]
    BY <1>1, <1>3, <1>9
  <2>3. \A a, b \in T : rank[a] = rank[b] => a = b
    BY <1>1, <1>3
  <2>4. rank \in [DOMAIN other -> Nat]
    BY <1>1, <1>6
  <2> QED BY <1>10, <2>1, <2>2, <2>3, <2>4 DEF Chain
<1> QED BY <1>3, <1>5, <1>11
-----------------------------------------------------------------------------
(* Sequences with one place more. *)

\* r is s with e put in at place i.
Spliced(s, i, e, r) == /\ i \in 1..(Len(s) + 1) /\ Len(r) = Len(s) + 1 /\ r[i] = e
                       /\ \A k \in 1..(i - 1) : r[k] = s[k]
                       /\ \A k \in i..Len(s) : r[k + 1] = s[k]

\* A sequence with one more value in the middle.
LEMMA SplicedIn ==
    ASSUME NEW S, NEW s \in Seq(S), NEW e \in S, NEW i \in 1..(Len(s) + 1)
    PROVE  LET r == SubSeq(s, 1, i - 1) \o <<e>> \o SubSeq(s, i, Len(s))
           IN  r \in Seq(S) /\ Spliced(s, i, e, r)
<1> PICK L \in Nat : L = Len(s)
  OBVIOUS
<1>a. PICK a : a = SubSeq(s, 1, i - 1)
  OBVIOUS
<1>b. PICK b : b = SubSeq(s, i, Len(s))
  OBVIOUS
<1>c. PICK c : c = <<e>>
  OBVIOUS
<1>d. PICK d : d = a \o c
  OBVIOUS
<1>r. PICK r : r = d \o b
  OBVIOUS
<1>0. i \in 1..(L + 1) /\ \A k \in 1..L : s[k] \in S
  BY ElementOfSeq
<1>1. a \in Seq(S) /\ Len(a) = i - 1 /\ \A k \in 1..(i - 1) : a[k] = s[k]
  <2>1. \A k \in 1..(i - 1) : s[k] \in S
    BY <1>0
  <2>2. i - 1 \in Int /\ 1 \in Int
    BY <1>0
  <2>3. /\ a \in Seq(S) /\ Len(a) = IF 1 <= i - 1 THEN (i - 1) - 1 + 1 ELSE 0
        /\ \A k \in 1..((i - 1) - 1 + 1) : a[k] = s[1 + k - 1]
    BY <1>a, <2>1, <2>2, SubSeqProperties
  <2>4. \A k \in 1..(i - 1) : k \in 1..((i - 1) - 1 + 1) /\ 1 + k - 1 = k
    BY <1>0
  <2> QED BY <1>0, <2>3, <2>4
<1>2. b \in Seq(S) /\ Len(b) = L - i + 1 /\ \A k \in 1..(L - i + 1) : b[k] = s[i + k - 1]
  <2>1. \A k \in i..L : s[k] \in S
    BY <1>0
  <2>2. i \in Int /\ L \in Int
    BY <1>0
  <2>3. /\ b \in Seq(S) /\ Len(b) = IF i <= L THEN L - i + 1 ELSE 0
        /\ \A k \in 1..(L - i + 1) : b[k] = s[i + k - 1]
    BY <1>b, <2>1, <2>2, SubSeqProperties
  <2> QED BY <1>0, <2>3
<1>3. c \in Seq(S) /\ Len(c) = 1 /\ c[1] = e
  BY <1>c
<1>4. d \in Seq(S) /\ Len(d) = i /\ \A k \in 1..i : d[k] = IF k < i THEN s[k] ELSE e
  <2>1. /\ d \in Seq(S) /\ Len(d) = Len(a) + Len(c)
        /\ \A k \in 1..(Len(a) + Len(c)) : d[k] = IF k <= Len(a) THEN a[k] ELSE c[k - Len(a)]
    BY <1>1, <1>3, <1>d, ConcatProperties
  <2>2. Len(a) + Len(c) = i
    BY <1>0, <1>1, <1>3
  <2>3. ASSUME NEW k \in 1..i PROVE d[k] = IF k < i THEN s[k] ELSE e
    <3>1. d[k] = IF k <= i - 1 THEN a[k] ELSE c[k - (i - 1)]
      BY <1>1, <2>1, <2>2
    <3>2. CASE k < i
      BY <1>0, <1>1, <3>1, <3>2
    <3>3. CASE ~(k < i)
      <4>1. k - (i - 1) = 1 /\ ~(k <= i - 1)
        BY <1>0, <3>3
      <4> QED BY <1>3, <3>1, <3>3, <4>1
    <3> QED BY <3>2, <3>3
  <2> QED BY <2>1, <2>2, <2>3
<1>6. /\ r \in Seq(S) /\ Len(r) = Len(d) + Len(b)
      /\ \A k \in 1..(Len(d) + Len(b)) : r[k] = IF k <= Len(d) THEN d[k] ELSE b[k - Len(d)]
  BY <1>2, <1>4, <1>r, ConcatProperties
<1>7. Len(r) = L + 1
  BY <1>0, <1>2, <1>4, <1>6
<1>8. ASSUME NEW k \in 1..i PROVE r[k] = IF k < i THEN s[k] ELSE e
  <2>1. k \in 1..(Len(d) + Len(b)) /\ k <= Len(d)
    BY <1>0, <1>2, <1>4
  <2> QED BY <1>4, <1>6, <2>1
<1>9. ASSUME NEW k \in i..L PROVE r[k + 1] = s[k]
  <2>1. /\ k + 1 \in 1..(Len(d) + Len(b)) /\ ~(k + 1 <= Len(d)) /\ k + 1 - Len(d) = k + 1 - i
        /\ k + 1 - i \in 1..(L - i + 1) /\ i + (k + 1 - i) - 1 = k
    BY <1>0, <1>2, <1>4
  <2>2. r[k + 1] = IF k + 1 <= Len(d) THEN d[k + 1] ELSE b[k + 1 - Len(d)]
    BY <1>6, <2>1
  <2>3. r[k + 1] = b[k + 1 - i]
    BY <2>1, <2>2
  <2> QED BY <1>2, <2>1, <2>3
<1>10. r[i] = e /\ \A k \in 1..(i - 1) : r[k] = s[k]
  BY <1>0, <1>8
<1>11. Spliced(s, i, e, r)
  BY <1>0, <1>7, <1>9, <1>10 DEF Spliced
<1> QED BY <1>6, <1>11, <1>a, <1>b, <1>c, <1>d, <1>r

\* A sequence with one value taken out of the middle.
LEMMA SplicedOut ==
    ASSUME NEW S, NEW r \in Seq(S), NEW i \in 1..Len(r)
    PROVE  LET s == SubSeq(r, 1, i - 1) \o SubSeq(r, i + 1, Len(r))
           IN  s \in Seq(S) /\ Spliced(s, i, r[i], r)
<1> PICK L \in Nat : L = Len(r)
  OBVIOUS
<1>a. PICK a : a = SubSeq(r, 1, i - 1)
  OBVIOUS
<1>b. PICK b : b = SubSeq(r, i + 1, Len(r))
  OBVIOUS
<1>s. PICK s : s = a \o b
  OBVIOUS
<1>0. i \in 1..L /\ \A k \in 1..L : r[k] \in S
  BY ElementOfSeq
<1>1. a \in Seq(S) /\ Len(a) = i - 1 /\ \A k \in 1..(i - 1) : a[k] = r[k]
  <2>1. \A k \in 1..(i - 1) : r[k] \in S
    BY <1>0
  <2>2. i - 1 \in Int /\ 1 \in Int
    BY <1>0
  <2>3. /\ a \in Seq(S) /\ Len(a) = IF 1 <= i - 1 THEN (i - 1) - 1 + 1 ELSE 0
        /\ \A k \in 1..((i - 1) - 1 + 1) : a[k] = r[1 + k - 1]
    BY <1>a, <2>1, <2>2, SubSeqProperties
  <2>4. \A k \in 1..(i - 1) : k \in 1..((i - 1) - 1 + 1) /\ 1 + k - 1 = k
    BY <1>0
  <2> QED BY <1>0, <2>3, <2>4
<1>2. b \in Seq(S) /\ Len(b) = L - i /\ \A k \in 1..(L - i) : b[k] = r[i + k]
  <2>1. \A k \in (i + 1)..L : r[k] \in S
    BY <1>0
  <2>2. i + 1 \in Int /\ L \in Int
    BY <1>0
  <2>3. /\ b \in Seq(S) /\ Len(b) = IF i + 1 <= L THEN L - (i + 1) + 1 ELSE 0
        /\ \A k \in 1..(L - (i + 1) + 1) : b[k] = r[(i + 1) + k - 1]
    BY <1>b, <2>1, <2>2, SubSeqProperties
  <2>4. L - (i + 1) + 1 = L - i
    BY <1>0
  <2>5. \A k \in 1..(L - i) : (i + 1) + k - 1 = i + k
    BY <1>0
  <2> QED BY <1>0, <2>3, <2>4, <2>5
<1>6. /\ s \in Seq(S) /\ Len(s) = Len(a) + Len(b)
      /\ \A k \in 1..(Len(a) + Len(b)) : s[k] = IF k <= Len(a) THEN a[k] ELSE b[k - Len(a)]
  BY <1>1, <1>2, <1>s, ConcatProperties
<1>7. Len(s) = L - 1
  BY <1>0, <1>1, <1>2, <1>6
<1>8. ASSUME NEW k \in 1..(i - 1) PROVE r[k] = s[k]
  <2>1. k \in 1..(Len(a) + Len(b)) /\ k <= Len(a)
    BY <1>0, <1>1, <1>2
  <2> QED BY <1>1, <1>6, <2>1
<1>9. ASSUME NEW k \in i..(L - 1) PROVE r[k + 1] = s[k]
  <2>1. /\ k \in 1..(Len(a) + Len(b)) /\ ~(k <= Len(a)) /\ k - Len(a) = k - i + 1
        /\ k - i + 1 \in 1..(L - i) /\ i + (k - i + 1) = k + 1
    BY <1>0, <1>1, <1>2
  <2>2. s[k] = b[k - i + 1]
    BY <1>6, <2>1
  <2> QED BY <1>2, <2>1, <2>2
<1>10. i \in 1..(Len(s) + 1) /\ Len(r) = Len(s) + 1
  BY <1>0, <1>7
<1>11. Spliced(s, i, r[i], r)
  <2>1. Len(s) = L - 1
    BY <1>7
  <2> QED BY <1>8, <1>9, <1>10, <2>1 DEF Spliced
<1> QED BY <1>6, <1>11, <1>a, <1>b, <1>s

\* How often v is in s.
Count(s, v) == Cardinality({k \in DOMAIN s : s[k] = v})

\* A value is held a number of times.
LEMMA CountIsNat ==
    ASSUME NEW S, NEW s \in Seq(S), NEW v
    PROVE  Count(s, v) \in Nat
<1>1. IsFiniteSet(1..Len(s)) /\ DOMAIN s = 1..Len(s)
  BY FS_Interval
<1> QED BY <1>1, FS_Subset, FS_CardinalityType DEF Count

\* One more e, and of anything else as many.
LEMMA SplicedCount ==
    ASSUME NEW S, NEW s \in Seq(S), NEW r \in Seq(S), NEW i, NEW e, Spliced(s, i, e, r), NEW v
    PROVE  Count(r, v) = Count(s, v) + (IF e = v THEN 1 ELSE 0)
<1> PICK L \in Nat : L = Len(s)
  OBVIOUS
<1> PICK A : A = {k \in DOMAIN s : s[k] = v}
  OBVIOUS
<1> PICK B : B = {k \in DOMAIN r : r[k] = v}
  OBVIOUS
<1> SUFFICES Cardinality(B) = Cardinality(A) + (IF e = v THEN 1 ELSE 0)
  BY DEF Count
<1> PICK C : C = B \ {i}
  OBVIOUS
<1>1. /\ i \in 1..(L + 1) /\ DOMAIN s = 1..L /\ DOMAIN r = 1..(L + 1) /\ r[i] = e
      /\ \A k \in 1..(i - 1) : r[k] = s[k]
      /\ \A k \in i..L : r[k + 1] = s[k]
  BY DEF Spliced
<1>2. PICK f : f = [k \in A |-> IF k < i THEN k ELSE k + 1]
  OBVIOUS
<1>3. ASSUME NEW k \in A PROVE f[k] \in C
  <2>1. k \in 1..L /\ s[k] = v
    BY <1>1
  <2>2. CASE k < i
    <3>1. k \in 1..(i - 1) /\ k \in 1..(L + 1) /\ k # i /\ f[k] = k
      BY <1>1, <1>2, <2>1, <2>2
    <3> QED BY <1>1, <2>1, <3>1
  <2>3. CASE ~(k < i)
    <3>1. k \in i..L /\ k + 1 \in 1..(L + 1) /\ k + 1 # i /\ f[k] = k + 1
      BY <1>1, <1>2, <2>1, <2>3
    <3> QED BY <1>1, <2>1, <3>1
  <2> QED BY <2>2, <2>3
<1>4. f \in [A -> C]
  BY <1>2, <1>3
<1>5. ASSUME NEW j \in A, NEW k \in A, f[j] = f[k] PROVE j = k
  BY <1>1, <1>2, <1>5
<1>6. ASSUME NEW m \in C PROVE \E k \in A : f[k] = m
  <2>1. m \in 1..(L + 1) /\ r[m] = v /\ m # i
    BY <1>1
  <2>2. CASE m < i
    <3>1. m \in 1..(i - 1) /\ m \in 1..L
      BY <1>1, <2>1, <2>2
    <3>2. m \in A
      BY <1>1, <2>1, <3>1
    <3> QED BY <1>2, <2>2, <3>2
  <2>3. CASE ~(m < i)
    <3>1. m - 1 \in i..L /\ m - 1 \in 1..L /\ (m - 1) + 1 = m /\ ~(m - 1 < i)
      BY <1>1, <2>1, <2>3
    <3>2. s[m - 1] = v
      BY <1>1, <2>1, <3>1
    <3>3. m - 1 \in A
      BY <1>1, <3>1, <3>2
    <3>4. f[m - 1] = m
      BY <1>2, <3>1, <3>3
    <3> QED BY <3>3, <3>4
  <2> QED BY <2>2, <2>3
<1>7. f \in Bijection(A, C)
  <2>1. f \in Injection(A, C)
    BY <1>4, <1>5 DEF Injection, IsInjective
  <2>2. f \in Surjection(A, C)
    BY <1>4, <1>6 DEF Surjection
  <2> QED BY <2>1, <2>2 DEF Bijection
<1>8. IsFiniteSet(A) /\ Cardinality(A) \in Nat
  <2>1. IsFiniteSet(1..L)
    BY FS_Interval
  <2>2. A \subseteq 1..L
    BY <1>1
  <2> QED BY <2>1, <2>2, FS_Subset, FS_CardinalityType
<1>9. ExistsBijection(A, C)
  BY <1>7 DEF ExistsBijection
<1>10. IsFiniteSet(C) /\ Cardinality(C) = Cardinality(A)
  BY <1>8, <1>9, FS_Bijection
<1>11. CASE e = v
  <2>1. i \in B /\ B = C \cup {i} /\ i \notin C
    BY <1>1, <1>11
  <2>2. Cardinality(C \cup {i}) = Cardinality(C) + 1
    BY <1>10, <2>1, FS_AddElement
  <2> QED BY <1>8, <1>10, <1>11, <2>1, <2>2
<1>12. CASE e # v
  <2>1. B = C
    BY <1>1, <1>12
  <2>2. Cardinality(B) = Cardinality(A)
    BY <1>10, <2>1
  <2>3. Cardinality(B) = Cardinality(A) + 0
    BY <1>8, <2>2
  <2>4. (IF e = v THEN 1 ELSE 0) = 0
    BY <1>12
  <2> QED BY <1>8, <2>3, <2>4
<1> QED BY <1>11, <1>12
=============================================================================
