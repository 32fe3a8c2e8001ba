------------------------ MODULE ArrayContainers_proofs ------------------------
(***************************************************************************)
(* The containers in an array for any capacity and any values: the indices *)
(* and the counter of each stay in agreement, and what its calls do and    *)
(* answer is what they do to a sequence, around the end of the array and   *)
(* through every resize; set.c, whose order is nobody's concern, is the    *)
(* set of the values put in and not taken out.                             *)
(***************************************************************************)
EXTENDS ArrayContainers, DataLemmas
-----------------------------------------------------------------------------
(* The slots of a ring, and of a stack, as a sequence. *)

Row(f, h, n, C) == [k \in 1..n |-> f[Slot(h, k, C)]]

\* An array f of C slots, of which n are in use from h on.
Fits(W, C, h, n, f) == /\ C \in Nat \ {0} /\ h \in 0..(C - 1) /\ n \in 0..C
                       /\ f \in [0..(C - 1) -> W]

LEMMA RowIs ==
    ASSUME NEW W, NEW C, NEW h, NEW n, NEW f, Fits(W, C, h, n, f)
    PROVE  /\ Row(f, h, n, C) \in Seq(W) /\ Len(Row(f, h, n, C)) = n
           /\ \A k \in 1..n : Row(f, h, n, C)[k] = f[Slot(h, k, C)]
<1> USE DEF Fits
<1>0. PICK s : s = Row(f, h, n, C)
  OBVIOUS
<1>1. ASSUME NEW k \in 1..n PROVE Slot(h, k, C) \in 0..(C - 1) /\ f[Slot(h, k, C)] \in W
  <2>1. k \in 1..C
    OBVIOUS
  <2>2. Slot(h, k, C) \in 0..(C - 1)
    BY <2>1, SlotValue
  <2> QED BY <2>2
<1>2. s \in [1..n -> W]
  BY <1>0, <1>1 DEF Row
<1>3. \A k \in 1..n : s[k] = f[Slot(h, k, C)]
  BY <1>0, <1>1 DEF Row
<1> QED BY <1>0, <1>2, <1>3

LEMMA EmptyRow == \A f, h, C : Row(f, h, 0, C) = <<>>
BY DEF Row

\* A sequence with one more value at its beginning.
LEMMA ConsedRow ==
    ASSUME NEW W, NEW s \in Seq(W), NEW x \in W, NEW t \in [1..(Len(s) + 1) -> W],
           t[1] = x, \A k \in 1..Len(s) : t[k + 1] = s[k]
    PROVE  t = <<x>> \o s
<1>1. PICK u : u = <<x>> \o s
  OBVIOUS
<1>2. <<x>> \in Seq(W) /\ Len(<<x>>) = 1 /\ <<x>>[1] = x
  OBVIOUS
<1>3. /\ u \in Seq(W) /\ Len(u) = Len(s) + 1
      /\ \A i \in 1..(Len(s) + 1) : u[i] = IF i <= 1 THEN <<x>>[i] ELSE s[i - 1]
  <2>1. Len(s) \in Nat
    OBVIOUS
  <2> QED BY <1>1, <1>2, <2>1, ConcatProperties
<1>4. t \in Seq(W) /\ Len(t) = Len(s) + 1
  OBVIOUS
<1>5. ASSUME NEW i \in 1..(Len(s) + 1) PROVE t[i] = u[i]
  <2>1. CASE i = 1
    BY <1>2, <1>3, <2>1
  <2>2. CASE i # 1
    <3>1. i - 1 \in 1..Len(s) /\ (i - 1) + 1 = i
      BY <2>2
    <3>2. t[(i - 1) + 1] = s[i - 1]
      BY <3>1
    <3>3. u[i] = s[i - 1]
      BY <1>3, <2>2
    <3> QED BY <3>1, <3>2, <3>3
  <2> QED BY <2>1, <2>2
<1> QED BY <1>1, <1>3, <1>4, <1>5, SeqEqual

\* What becomes of f when v is put at u.
Put(f, u, v, g) == g = [f EXCEPT ![u] = v]

LEMMA RowPutBack ==
    ASSUME NEW W, NEW C, NEW h, NEW n, NEW f, Fits(W, C, h, n, f), n # C, NEW v \in W,
           NEW u, u = Slot(h, n + 1, C), NEW g, Put(f, u, v, g)
    PROVE  Row(g, h, n + 1, C) = Row(f, h, n, C) \o <<v>>
<1> USE DEF Fits, Put
<1>1. PICK s : s = Row(f, h, n, C)
  OBVIOUS
<1>2. PICK t : t = Row(g, h, n + 1, C)
  OBVIOUS
<1>3. /\ n \in 0..C /\ n + 1 \in 0..C /\ n + 1 \in 1..C /\ Slot(h, n + 1, C) \in 0..(C - 1)
      /\ \A k \in 1..n : Slot(h, k, C) \in 0..(C - 1)
  <2>1. n \in 0..C /\ n + 1 \in 0..C /\ n + 1 \in 1..C /\ \A k \in 1..n : k \in 1..C
    BY DEF Fits
  <2> QED BY <2>1, SlotValue
<1>4. g \in [0..(C - 1) -> W]
  BY <1>3
<1>5. s \in Seq(W) /\ Len(s) = n /\ \A k \in 1..n : s[k] = f[Slot(h, k, C)]
  <2>1. \A k \in 1..n : Slot(h, k, C) \in 0..(C - 1)
    BY <1>1, <1>3, SlotValue
  <2>2. s \in [1..n -> W]
    BY <1>1, <1>3, <2>1 DEF Row
  <2> QED BY <1>1, <1>3, <2>2 DEF Row
<1>6. /\ t \in Seq(W) /\ Len(t) = n + 1
      /\ \A k \in 1..(n + 1) : t[k] = g[Slot(h, k, C)]
  <2>1. \A k \in 1..(n + 1) : Slot(h, k, C) \in 0..(C - 1)
    <3>1. \A k \in 1..(n + 1) : k \in 1..C
      BY <1>2, <1>3
    <3> QED BY <3>1, SlotValue
  <2>2. t \in [1..(n + 1) -> W]
    BY <1>2, <1>3, <1>4, <2>1 DEF Row
  <2> QED BY <1>2, <1>3, <1>4, <2>2 DEF Row
<1>7. t[n + 1] = v
  BY <1>3, <1>6
<1>8. ASSUME NEW k \in 1..n PROVE t[k] = s[k]
  <2>1. k \in 1..C /\ k \in 1..(n + 1) /\ k # n + 1
    OBVIOUS
  <2>2. Slot(h, k, C) # Slot(h, n + 1, C)
    BY <1>3, <2>1, SlotsDistinct
  <2> QED BY <1>3, <1>5, <1>6, <2>1, <2>2
<1>9. t = Append(s, v)
  BY <1>5, <1>6, <1>7, <1>8, AppendedRow
<1> QED BY <1>1, <1>2, <1>5, <1>9, AppendIsConcat

Precedes(u, h, C) == u \in 0..(C - 1) /\ (u + 1) % C = h
LEMMA RowPutFront ==
    ASSUME NEW W, NEW C, NEW h, NEW n, NEW f, Fits(W, C, h, n, f), n # C, NEW v \in W,
           NEW u, Precedes(u, h, C), NEW g, Put(f, u, v, g)
    PROVE  Row(g, u, n + 1, C) = <<v>> \o Row(f, h, n, C)
<1> USE DEF Fits, Precedes, Put
<1>1. PICK s : s = Row(f, h, n, C)
  OBVIOUS
<1>2. PICK t : t = Row(g, u, n + 1, C)
  OBVIOUS
<1>3. n \in 0..C /\ n + 1 \in 0..C /\ n + 1 \in 1..C
  OBVIOUS
<1>4. g \in [0..(C - 1) -> W]
  OBVIOUS
<1>5. s \in Seq(W) /\ Len(s) = n /\ \A k \in 1..n : s[k] = f[Slot(h, k, C)]
  <2>1. \A k \in 1..n : Slot(h, k, C) \in 0..(C - 1)
    <3>1. \A k \in 1..n : k \in 1..C
      BY <1>1, <1>3
    <3> QED BY <3>1, SlotValue
  <2>2. s \in [1..n -> W]
    BY <1>1, <1>3, <2>1 DEF Row
  <2> QED BY <1>1, <1>3, <2>2 DEF Row
<1>6. /\ t \in Seq(W) /\ Len(t) = n + 1
      /\ \A k \in 1..(n + 1) : t[k] = g[Slot(u, k, C)]
  <2>1. \A k \in 1..(n + 1) : Slot(u, k, C) \in 0..(C - 1)
    <3>1. \A k \in 1..(n + 1) : k \in 1..C
      BY <1>2, <1>3
    <3> QED BY <3>1, SlotValue
  <2>2. t \in [1..(n + 1) -> W]
    BY <1>2, <1>3, <1>4, <2>1 DEF Row
  <2> QED BY <1>2, <1>3, <1>4, <2>2 DEF Row
<1>7. t[1] = v
  <2>1. 1 \in 1..(n + 1) /\ Slot(u, 1, C) = u
    BY HeadSlot
  <2> QED BY <1>6, <2>1
<1>8. ASSUME NEW k \in 1..n PROVE t[k + 1] = s[k]
  <2>1. k \in 1..(C - 1) /\ k + 1 \in 1..C /\ k + 1 \in 1..(n + 1) /\ k + 1 # 1 /\ 1 \in 1..C
    OBVIOUS
  <2>2. Slot(h, k, C) = Slot(u, k + 1, C) /\ Slot(u, 1, C) = u
    BY <2>1, HeadSlot
  <2>3. Slot(u, k + 1, C) # u /\ Slot(u, k + 1, C) \in 0..(C - 1)
    BY <2>1, <2>2, SlotsDistinct, SlotValue
  <2> QED BY <1>5, <1>6, <2>1, <2>2, <2>3
<1>9. t \in [1..(Len(s) + 1) -> W]
  BY <1>5, <1>6
<1>10. \A k \in 1..Len(s) : t[k + 1] = s[k]
  BY <1>5, <1>8
<1>11. t = <<v>> \o s
  BY <1>5, <1>7, <1>9, <1>10, ConsedRow
<1> QED BY <1>1, <1>2, <1>11

LEMMA RowWithoutFirst ==
    ASSUME NEW W, NEW C, NEW h, NEW n, NEW f, Fits(W, C, h, n, f), n # 0
    PROVE  /\ Row(f, h, n, C) # <<>> /\ Head(Row(f, h, n, C)) = f[h]
           /\ Row(f, (h + 1) % C, n - 1, C) = Tail(Row(f, h, n, C))
<1> USE DEF Fits
<1>1. PICK s : s = Row(f, h, n, C)
  OBVIOUS
<1>2. PICK u \in 0..(C - 1) : u = (h + 1) % C
  BY NextValue
<1>3. PICK t : t = Row(f, u, n - 1, C)
  OBVIOUS
<1>4. n \in 0..C /\ n - 1 \in 0..C /\ 1 \in 1..n
  OBVIOUS
<1>5. s \in Seq(W) /\ Len(s) = n /\ \A k \in 1..n : s[k] = f[Slot(h, k, C)]
  <2>1. \A k \in 1..n : Slot(h, k, C) \in 0..(C - 1)
    <3>1. \A k \in 1..n : k \in 1..C
      BY <1>1, <1>4
    <3> QED BY <3>1, SlotValue
  <2>2. s \in [1..n -> W]
    BY <1>1, <1>4, <2>1 DEF Row
  <2> QED BY <1>1, <1>4, <2>2 DEF Row
<1>6. /\ t \in Seq(W) /\ Len(t) = n - 1
      /\ \A k \in 1..(n - 1) : t[k] = f[Slot(u, k, C)]
  <2>1. \A k \in 1..(n - 1) : Slot(u, k, C) \in 0..(C - 1)
    <3>1. \A k \in 1..(n - 1) : k \in 1..C
      BY <1>3, <1>4
    <3> QED BY <3>1, SlotValue, <1>2
  <2>2. t \in [1..(n - 1) -> W]
    BY <1>3, <1>4, <2>1 DEF Row
  <2> QED BY <1>3, <1>4, <2>2 DEF Row
<1>7. \A k \in 1..(n - 1) : t[k] = s[k + 1]
  <2> SUFFICES ASSUME NEW k \in 1..(n - 1) PROVE t[k] = s[k + 1]
    OBVIOUS
  <2>1. k \in 1..(C - 1) /\ k + 1 \in 1..n
    OBVIOUS
  <2>2. Slot(u, k, C) = Slot(h, k + 1, C)
    BY <1>2, <2>1, HeadSlot
  <2> QED BY <1>5, <1>6, <2>1, <2>2
<1>8. s # <<>> /\ t = Tail(s)
  <2>1. Len(s) > 0 /\ t \in [1..(Len(s) - 1) -> W]
    BY <1>5, <1>6
  <2> QED BY <1>5, <1>7, <2>1, RowWithoutHead
<1>9. Head(s) = f[h]
  <2>1. Slot(h, 1, C) = h
    BY HeadSlot
  <2> QED BY <1>4, <1>5, <1>8, <2>1
<1> QED BY <1>1, <1>2, <1>3, <1>8, <1>9

LEMMA RowReplaced ==
    ASSUME NEW W, NEW C, NEW h, NEW n, NEW f, Fits(W, C, h, n, f), NEW v \in W,
           NEW i \in Nat, i < n, NEW u, u = (h + i) % C, NEW g, Put(f, u, v, g)
    PROVE  Put(Row(f, h, n, C), i + 1, v, Row(g, h, n, C))
<1> USE DEF Fits, Put
<1>1. PICK s : s = Row(f, h, n, C)
  OBVIOUS
<1>2. PICK t : t = Row(g, h, n, C)
  OBVIOUS
<1>3. i + 1 \in 1..C /\ i + 1 \in 1..n /\ h + (i + 1) - 1 = h + i
  OBVIOUS
<1>4. Slot(h, i + 1, C) = (h + i) % C /\ (h + i) % C \in 0..(C - 1)
  BY <1>3, SlotValue DEF Slot
<1>5. g \in [0..(C - 1) -> W]
  OBVIOUS
<1>6. s \in Seq(W) /\ Len(s) = n /\ \A k \in 1..n : s[k] = f[Slot(h, k, C)]
  <2>1. \A k \in 1..n : Slot(h, k, C) \in 0..(C - 1)
    BY <1>1, SlotValue
  <2>2. s \in [1..n -> W]
    BY <1>1, <2>1 DEF Row
  <2> QED BY <1>1, <2>2 DEF Row
<1>7. t \in Seq(W) /\ Len(t) = n /\ \A k \in 1..n : t[k] = g[Slot(h, k, C)]
  <2>1. \A k \in 1..n : Slot(h, k, C) \in 0..(C - 1)
    BY <1>2, <1>5, SlotValue
  <2>2. t \in [1..n -> W]
    BY <1>2, <1>5, <2>1 DEF Row
  <2> QED BY <1>2, <1>5, <2>2 DEF Row
<1>8. ASSUME NEW k \in 1..n PROVE t[k] = [s EXCEPT ![i + 1] = v][k]
  <2>1. k \in 1..C /\ Slot(h, k, C) \in 0..(C - 1)
    BY SlotValue
  <2>2. CASE k = i + 1
    BY <1>4, <1>6, <1>7, <2>1, <2>2
  <2>3. CASE k # i + 1
    <3>1. Slot(h, k, C) # (h + i) % C
      BY <1>3, <1>4, <2>1, <2>3, SlotsDistinct
    <3> QED BY <1>6, <1>7, <2>1, <2>3, <3>1
  <2> QED BY <2>2, <2>3
<1>9. [s EXCEPT ![i + 1] = v] \in Seq(W) /\ Len([s EXCEPT ![i + 1] = v]) = n
  BY <1>6
<1>10. t = [s EXCEPT ![i + 1] = v]
  BY <1>7, <1>8, <1>9, SeqEqual
<1> QED BY <1>1, <1>2, <1>10

LEMMA RowMoved ==
    ASSUME NEW W, NEW C, NEW h, NEW n, NEW f, Fits(W, C, h, n, f), NEW D, NEW g, Fits(W, D, 0, n, g),
           \A i \in 0..(n - 1) : g[i] = f[(h + i) % C]
    PROVE  Row(g, 0, n, D) = Row(f, h, n, C)
<1> USE DEF Fits
<1>1. ASSUME NEW k \in 1..n PROVE g[Slot(0, k, D)] = f[Slot(h, k, C)]
  <2>1. k \in 1..D /\ k - 1 \in 0..(n - 1) /\ h + k - 1 = h + (k - 1) /\ 0 \in 0..(D - 1)
    OBVIOUS
  <2>2. Slot(0, k, D) = k - 1
    BY <2>1, SlotValue
  <2> QED BY <2>1, <2>2 DEF Slot
<1> QED BY <1>1 DEF Row

\* A stack: its first value lies highest.
StackRow(f, n) == [k \in 1..n |-> f[n - k]]

LEMMA StackRowIs ==
    ASSUME NEW W, NEW C, NEW n, NEW f, Fits(W, C, 0, n, f)
    PROVE  StackRow(f, n) \in Seq(W) /\ Len(StackRow(f, n)) = n
<1> USE DEF Fits
<1>1. StackRow(f, n) \in [1..n -> W]
  BY DEF StackRow
<1> QED BY <1>1

LEMMA StackRowPushed ==
    ASSUME NEW W, NEW C, NEW n, NEW f, Fits(W, C, 0, n, f), n # C, NEW v \in W,
           NEW g, Put(f, n, v, g)
    PROVE  StackRow(g, n + 1) = <<v>> \o StackRow(f, n)
<1> USE DEF Fits, Put
<1>1. PICK s : s = StackRow(f, n)
  OBVIOUS
<1>2. g = [f EXCEPT ![n] = v]
  OBVIOUS
<1>3. PICK t : t = StackRow(g, n + 1)
  OBVIOUS
<1>4. n \in 0..C /\ n + 1 \in 0..C /\ g \in [0..(C - 1) -> W]
  BY <1>2
<1>5. s \in Seq(W) /\ Len(s) = n /\ \A k \in 1..n : s[k] = f[n - k]
  <2>1. s \in [1..n -> W]
    BY <1>1, <1>4 DEF StackRow
  <2> QED BY <1>1, <1>4, <2>1 DEF StackRow
<1>6. t \in Seq(W) /\ Len(t) = n + 1 /\ \A k \in 1..(n + 1) : t[k] = g[n + 1 - k]
  <2>1. t \in [1..(n + 1) -> W]
    BY <1>3, <1>4 DEF StackRow
  <2> QED BY <1>3, <1>4, <2>1 DEF StackRow
<1>7. t[1] = v
  <2>1. 1 \in 1..(n + 1) /\ n + 1 - 1 = n
    OBVIOUS
  <2> QED BY <1>2, <1>6, <2>1
<1>8. ASSUME NEW k \in 1..n PROVE t[k + 1] = s[k]
  <2>1. k + 1 \in 1..(n + 1) /\ n + 1 - (k + 1) = n - k /\ n - k \in 0..(C - 1) /\ n - k # n
    OBVIOUS
  <2> QED BY <1>2, <1>5, <1>6, <2>1
<1>9. t \in [1..(Len(s) + 1) -> W]
  BY <1>5, <1>6
<1>10. \A k \in 1..Len(s) : t[k + 1] = s[k]
  BY <1>5, <1>8
<1>11. t = <<v>> \o s
  BY <1>5, <1>7, <1>9, <1>10, ConsedRow
<1> QED BY <1>1, <1>2, <1>3, <1>11

LEMMA StackRowPopped ==
    ASSUME NEW W, NEW C, NEW n, NEW f, Fits(W, C, 0, n, f), n # 0
    PROVE  /\ StackRow(f, n) # <<>> /\ Head(StackRow(f, n)) = f[n - 1]
           /\ StackRow(f, n - 1) = Tail(StackRow(f, n))
<1> USE DEF Fits
<1>1. PICK s : s = StackRow(f, n)
  OBVIOUS
<1>2. PICK t : t = StackRow(f, n - 1)
  OBVIOUS
<1>3. n \in 0..C /\ n - 1 \in 0..C /\ 1 \in 1..n
  OBVIOUS
<1>4. s \in Seq(W) /\ Len(s) = n /\ \A k \in 1..n : s[k] = f[n - k]
  <2>1. s \in [1..n -> W]
    BY <1>1, <1>3 DEF StackRow
  <2> QED BY <1>1, <1>3, <2>1 DEF StackRow
<1>5. t \in Seq(W) /\ Len(t) = n - 1 /\ \A k \in 1..(n - 1) : t[k] = f[(n - 1) - k]
  <2>1. t \in [1..(n - 1) -> W]
    BY <1>2, <1>3 DEF StackRow
  <2> QED BY <1>2, <1>3, <2>1 DEF StackRow
<1>6. \A k \in 1..(n - 1) : t[k] = s[k + 1]
  <2> SUFFICES ASSUME NEW k \in 1..(n - 1) PROVE t[k] = s[k + 1]
    OBVIOUS
  <2>1. k + 1 \in 1..n /\ n - (k + 1) = (n - 1) - k
    OBVIOUS
  <2> QED BY <1>4, <1>5, <2>1
<1>7. s # <<>> /\ t = Tail(s)
  <2>1. Len(s) > 0 /\ t \in [1..(Len(s) - 1) -> W]
    BY <1>4, <1>5
  <2> QED BY <1>4, <1>6, <2>1, RowWithoutHead
<1>8. Head(s) = f[n - 1]
  BY <1>3, <1>4, <1>7
<1> QED BY <1>1, <1>2, <1>7, <1>8
-----------------------------------------------------------------------------
(* What a call does to a sequence. *)

Promised == INSTANCE ContainerCalls
              WITH elements <- Elements, bound <- array.capacity, held <- <<>>, places <- 0,
                   vague <- Vague \cup {"crash"}

Room(s, t) == Len(s) + Len(t) <= array.capacity

LEMMA PutsFront ==
    ASSUME NEW s, NEW c, c.op = "push_front"
    PROVE  /\ Promised!After(s, c) = IF Room(s, c.values) THEN c.values \o s ELSE s
           /\ Promised!Answer(s, c) = <<>>
<1>1. Promised!After(s, c) = IF Promised!HasRoom(s, c.values) THEN Promised!Inserted(s, c) ELSE s
  BY Zenon DEF Promised!After
<1>2. Promised!Inserted(s, c) = c.values \o s
  BY Zenon DEF Promised!Inserted
<1>3. Promised!Answer(s, c) = <<>>
  BY Zenon DEF Promised!Answer, Promised!Nothing
<1> QED BY <1>1, <1>2, <1>3 DEF Promised!HasRoom, Room

LEMMA PutsBack ==
    ASSUME NEW s, NEW c, c.op = "push_back"
    PROVE  /\ Promised!After(s, c) = IF Room(s, c.values) THEN s \o c.values ELSE s
           /\ Promised!Answer(s, c) = <<>>
<1>1. Promised!After(s, c) = IF Promised!HasRoom(s, c.values) THEN Promised!Inserted(s, c) ELSE s
  BY Zenon DEF Promised!After
<1>2. Promised!Inserted(s, c) = s \o c.values
  BY Zenon DEF Promised!Inserted
<1>3. Promised!Answer(s, c) = <<>>
  BY Zenon DEF Promised!Answer, Promised!Nothing
<1> QED BY <1>1, <1>2, <1>3 DEF Promised!HasRoom, Room

LEMMA TakesFront ==
    ASSUME NEW s, NEW c, c.op \in {"pop_front", "delete_front"}
    PROVE  /\ Promised!After(s, c) = IF s = <<>> THEN s ELSE Tail(s)
           /\ Promised!Answer(s, c) = IF c.op = "pop_front" /\ s # <<>> THEN <<Head(s)>> ELSE <<>>
<1>1. Promised!After(s, c) = IF s = <<>> THEN s ELSE Promised!Removed(s, c)
  BY Zenon DEF Promised!After
<1>2. Promised!Removed(s, c) = Tail(s)
  BY Zenon DEF Promised!Removed
<1>3. CASE c.op = "pop_front"
  <2>1. Promised!Answer(s, c) = IF s = <<>> THEN <<>> ELSE <<Head(s)>>
    BY <1>3, Zenon DEF Promised!Answer, Promised!Nothing
  <2> QED BY <1>1, <1>2, <1>3, <2>1
<1>4. CASE c.op = "delete_front"
  <2>1. Promised!Answer(s, c) = <<>>
    BY <1>4, Zenon DEF Promised!Answer, Promised!Nothing
  <2> QED BY <1>1, <1>2, <1>4, <2>1
<1> QED BY <1>3, <1>4

LEMMA AsksFront ==
    ASSUME NEW s, NEW c, c.op = "get_front"
    PROVE  /\ Promised!After(s, c) = s
           /\ Promised!Answer(s, c) = IF s # <<>> THEN <<Head(s)>> ELSE <<>>
<1>1. Promised!After(s, c) = s
  BY Zenon DEF Promised!After
<1>2. Promised!Answer(s, c) = IF s = <<>> THEN <<>> ELSE <<Head(s)>>
  BY Zenon DEF Promised!Answer, Promised!Nothing
<1> QED BY <1>1, <1>2

LEMMA AsksMember ==
    ASSUME NEW s, NEW c, c.op = "contains"
    PROVE  /\ Promised!After(s, c) = s
           /\ Promised!Answer(s, c) = IF \E k \in DOMAIN s : s[k] = c.values[1] THEN <<1>> ELSE <<0>>
<1>1. Promised!After(s, c) = s
  BY Zenon DEF Promised!After
<1>2. Promised!Answer(s, c) = Promised!Truth(c.values[1] \in Promised!ToSet(s))
  BY Zenon DEF Promised!Answer
<1>3. Promised!Truth(c.values[1] \in Promised!ToSet(s)) =
         IF \E k \in DOMAIN s : s[k] = c.values[1] THEN <<1>> ELSE <<0>>
  BY DEF Promised!Truth, Promised!ToSet
<1> QED BY <1>1, <1>2, <1>3

LEMMA Replaces ==
    ASSUME NEW s, NEW c, c.op = "replace"
    PROVE  /\ Promised!After(s, c) = IF c.at \in 0..(Len(s) - 1)
                                     THEN [s EXCEPT ![c.at + 1] = c.values[1]] ELSE s
           /\ Promised!Answer(s, c) = <<>>
<1>1. CASE c.at \in 0..(Len(s) - 1)
  <2>1. Promised!After(s, c) = [s EXCEPT ![c.at + 1] = c.values[1]]
    BY <1>1, Zenon DEF Promised!After
  <2>2. Promised!Answer(s, c) = <<>>
    BY Zenon DEF Promised!Answer, Promised!Nothing
  <2> QED BY <1>1, <2>1, <2>2
<1>2. CASE c.at \notin 0..(Len(s) - 1)
  <2>1. Promised!After(s, c) = s
    BY <1>2, Zenon DEF Promised!After
  <2>2. Promised!Answer(s, c) = <<>>
    BY Zenon DEF Promised!Answer, Promised!Nothing
  <2> QED BY <1>2, <2>1, <2>2
<1> QED BY <1>1, <1>2

LEMMA Clears ==
    ASSUME NEW s, NEW c, c.op = "clear"
    PROVE  Promised!After(s, c) = <<>> /\ Promised!Answer(s, c) = <<>>
<1>1. Promised!After(s, c) = IF s = <<>> THEN s ELSE Promised!Removed(s, c)
  BY Zenon DEF Promised!After
<1>2. Promised!Removed(s, c) = <<>>
  BY Zenon DEF Promised!Removed
<1>3. Promised!Answer(s, c) = <<>>
  BY Zenon DEF Promised!Answer, Promised!Nothing
<1> QED BY <1>1, <1>2, <1>3

LEMMA Resizes ==
    ASSUME NEW s, NEW c, c.op = "resize"
    PROVE  Promised!After(s, c) = s /\ Promised!Answer(s, c) = <<>>
<1>1. Promised!After(s, c) = s
  BY Zenon DEF Promised!After
<1>2. Promised!Answer(s, c) = <<>>
  BY Zenon DEF Promised!Answer, Promised!Nothing
<1> QED BY <1>1, <1>2
-----------------------------------------------------------------------------
(* The invariant. *)

\* The constants are sizes, as a caller gives them.
Capacities == MaxCapacity \in Nat /\ Capacity \in 1..MaxCapacity

IsArray(b) == b = [items |-> b.items, front |-> b.front, rear |-> b.rear, size |-> b.size,
                   capacity |-> b.capacity]
IsCall(c) == c = [op |-> c.op, at |-> c.at, values |-> c.values, answer |-> c.answer]

\* The front of a container that holds something is one of its slots.
FrontInside ==
    /\ kind \in {"queue.c", "ringbuffer.c"} => array.front # -1
    /\ kind = "deque.c" /\ ~rearUsed /\ array.size > 0 => array.front # -1

Inv == TypeOK /\ IsArray(array) /\ IsCall(call) /\ FrontInside /\ IndicesAgree

\* A call does what it does to a sequence.
Kept == Promised!Next /\ Promised!TableNext

LEMMA KeptBy ==
    ASSUME call'.op \notin {"put", "add_copy", "take", "find", "refuse"},
           Elements' = Promised!After(Elements, call'),
           call'.answer = Promised!Answer(Elements, call'),
           array'.capacity = IF call'.op = "resize" THEN call'.at ELSE array.capacity
    PROVE  Kept
BY DEF Kept, Promised!Next, Promised!TableNext, Promised!TableOps

LEMMA KeptVaguely ==
    ASSUME call'.op \in Vague \cup {"crash"},
           call'.op \notin {"put", "add_copy", "take", "find", "refuse"}
    PROVE  Kept
BY DEF Kept, Promised!Next, Promised!TableNext, Promised!TableOps

RowKinds == {"queue.c", "deque.c", "ringbuffer.c"}

LEMMA ElementsAre ==
    /\ kind = "stack.c" => Elements = StackRow(array.items, array.size)
    /\ kind \in RowKinds =>
          Elements = Row(array.items, array.front, array.size, array.capacity)
    /\ kind' = "stack.c" => Elements' = StackRow(array'.items, array'.size)
    /\ kind' \in RowKinds =>
          Elements' = Row(array'.items, array'.front, array'.size, array'.capacity)
<1>1. kind = "stack.c" => Elements = [i \in 1..array.size |-> array.items[array.size - i]]
  BY Zenon DEF Elements
<1>2. kind' = "stack.c" => Elements' = [i \in 1..array'.size |-> array'.items[array'.size - i]]
  BY Zenon DEF Elements
<1>3. kind \in RowKinds =>
         Elements = [i \in 1..array.size |-> array.items[(array.front + i - 1) % array.capacity]]
  <2>1. kind \in RowKinds => kind # "stack.c" /\ kind # "set.c"
    BY DEF RowKinds
  <2> QED BY <2>1, Zenon DEF Elements
<1>4. kind' \in RowKinds =>
         Elements' = [i \in 1..array'.size |->
                         array'.items[(array'.front + i - 1) % array'.capacity]]
  <2>1. kind' \in RowKinds => kind' # "stack.c" /\ kind' # "set.c"
    BY DEF RowKinds
  <2> QED BY <2>1, Zenon DEF Elements
<1> QED BY <1>1, <1>2, <1>3, <1>4 DEF StackRow, Row, Slot

LEMMA VagueIs ==
    kind = "deque.c" =>
       /\ {"push_back", "pop_back", "get_back"} \subseteq Vague
       /\ rearUsed => {"push_front", "pop_front", "get_front"} \subseteq Vague
<1>1. CASE kind = "deque.c" /\ rearUsed
  <2>1. Vague = {"push_front", "pop_front", "get_front", "push_back", "pop_back", "get_back"}
    BY <1>1, Zenon DEF Vague
  <2> QED BY <2>1
<1>2. CASE kind = "deque.c" /\ ~rearUsed
  <2>1. Vague = {"push_back", "pop_back", "get_back"}
    BY <1>2, Zenon DEF Vague
  <2> QED BY <1>2, <2>1
<1> QED BY <1>1, <1>2

\* What every array is.
Cell == Value \cup {Garbage, -1}

LEMMA ArrayFacts ==
    ASSUME Inv
    PROVE  /\ array.capacity \in Nat \ {0} /\ array.size \in 0..array.capacity
           /\ array.items \in [0..(array.capacity - 1) -> Cell]
           /\ kind \in {"queue.c", "ringbuffer.c"} => array.front \in 0..(array.capacity - 1)
           /\ kind = "deque.c" /\ ~rearUsed /\ array.size > 0 =>
                 array.front \in 0..(array.capacity - 1)
BY DEF Inv, TypeOK, FrontInside, Cell

\* A call that only looks.
LEMMA Looks ==
    ASSUME Inv, UNCHANGED <<kind, rearUsed, array>>, IsCall(call')
    PROVE  Inv'
BY DEF Inv, TypeOK, FrontInside, IndicesAgree, top

\* The index before and after another, around the end.
LEMMA Around ==
    ASSUME NEW C \in Nat \ {0}, NEW a \in -1..(C - 1)
    PROVE  /\ (a + 1) % C \in 0..(C - 1)
           /\ (a - 1 + C) % C \in 0..(C - 1)
           /\ a # -1 => (((a - 1 + C) % C) + 1) % C = a
OBVIOUS

\* An index in a ring, without a remainder.
LEMMA Wraps ==
    ASSUME NEW C \in Nat \ {0}, NEW a \in Int, 0 <= a + C, a < C + C
    PROVE  a % C = IF a < 0 THEN a + C ELSE IF a < C THEN a ELSE a - C
OBVIOUS

\* The rear keeps its distance from the front, be it behind the last or at it.
Lagging(C, h, n, d) == C \in Nat \ {0} /\ h \in 0..(C - 1) /\ n \in 0..C /\ d \in {0, 1}
LEMMA RearFollows ==
    ASSUME NEW C, NEW h, NEW n, NEW d, Lagging(C, h, n, d)
    PROVE  /\ n # C => (((h + n - d) % C) + 1) % C = (h + (n + 1) - d) % C
           /\ n # 0 => (((h + 1) % C) + (n - 1) - d) % C = (h + n - d) % C
<1> USE DEF Lagging
<1>1. PICK a \in Int : a = h + n - d
  OBVIOUS
<1>2. PICK r : r = a % C
  OBVIOUS
<1>3. PICK u : u = (h + 1) % C
  OBVIOUS
<1>4. r = IF a < 0 THEN a + C ELSE IF a < C THEN a ELSE a - C
  <2>1. 0 <= a + C /\ a < C + C
    BY <1>1
  <2> QED BY <1>2, <2>1, Wraps
<1>5. u \in Int /\ u = IF h + 1 < C THEN h + 1 ELSE 0
  BY <1>3
<1>6. ASSUME n < C PROVE (r + 1) % C = (h + (n + 1) - d) % C
  <2>1. PICK b \in Int : b = h + (n + 1) - d
    OBVIOUS
  <2>2. b % C = IF b < C THEN b ELSE b - C
    <3>1. 0 <= b /\ 0 <= b + C /\ b < C + C
      BY <1>6, <2>1
    <3>2. b % C = IF b < 0 THEN b + C ELSE IF b < C THEN b ELSE b - C
      BY <3>1, Wraps
    <3> QED BY <3>1, <3>2
  <2>3. r \in 0..(C - 1)
    BY <1>1, <1>4
  <2>4. (r + 1) % C = IF r + 1 < C THEN r + 1 ELSE 0
    BY <2>3, NextValue
  <2> QED BY <1>1, <1>4, <1>6, <2>1, <2>2, <2>3, <2>4
<1>7. ASSUME n > 0 PROVE (u + (n - 1) - d) % C = r
  <2>1. PICK b \in Int : b = u + (n - 1) - d
    BY <1>5
  <2>2. b % C = IF b < 0 THEN b + C ELSE IF b < C THEN b ELSE b - C
    <3>1. 0 <= b + C /\ b < C + C
      BY <1>5, <1>7, <2>1
    <3> QED BY <3>1, Wraps
  <2> QED BY <1>1, <1>4, <1>5, <1>7, <2>1, <2>2
<1> QED BY <1>1, <1>2, <1>3, <1>6, <1>7
-----------------------------------------------------------------------------
(* The circular queue and the ring: a front, and a rear that the queue has at *)
(* the last item and the ring behind it.                                      *)

Rings == {"queue.c", "ringbuffer.c"}
Lag == IF kind = "queue.c" THEN 1 ELSE 0

\* The parts of a ring, by name.
RingIs(C, h, n, f, d, s) ==
    /\ Fits(Cell, C, h, n, f) /\ Lagging(C, h, n, d)
    /\ C = array.capacity /\ h = array.front /\ n = array.size /\ f = array.items /\ d = Lag
    /\ array.rear = (h + n - d) % C
    /\ s = Row(f, h, n, C) /\ s \in Seq(Cell) /\ Len(s) = n /\ Elements = s

LEMMA RingFacts ==
    ASSUME Inv, kind \in Rings
    PROVE  \E C, h, n, f, d, s : RingIs(C, h, n, f, d, s)
<1>1. PICK C, h, n, f, d, s :
         /\ C = array.capacity /\ h = array.front /\ n = array.size /\ f = array.items /\ d = Lag
         /\ s = Row(f, h, n, C)
  OBVIOUS
<1>2. Fits(Cell, C, h, n, f) /\ Lagging(C, h, n, d)
  BY <1>1, ArrayFacts DEF Inv, Rings, Lag, Fits, Lagging
<1>3. array.rear = (h + n - d) % C
  <2>1. CASE kind = "queue.c"
    BY <1>1, <2>1 DEF Inv, IndicesAgree, Lag
  <2>2. CASE kind = "ringbuffer.c"
    <3>1. d = 0 /\ array.rear = (h + n) % C
      BY <1>1, <2>2 DEF Inv, IndicesAgree, Lag
    <3>2. h + n = h + n - d
      BY <1>2, <3>1 DEF Lagging
    <3> QED BY <3>1, <3>2
  <2> QED BY <2>1, <2>2 DEF Rings
<1>4. s \in Seq(Cell) /\ Len(s) = n
  BY <1>1, <1>2, RowIs
<1>5. Elements = s
  BY <1>1, ElementsAre DEF Rings, RowKinds
<1> QED BY <1>1, <1>2, <1>3, <1>4, <1>5 DEF RingIs

\* The invariant of a ring after a step.
LEMMA RingStays ==
    ASSUME Inv, kind \in Rings, UNCHANGED <<kind, rearUsed>>, IsCall(call'), IsArray(array'),
           array'.capacity \in 1..MaxCapacity,
           Fits(Cell, array'.capacity, array'.front, array'.size, array'.items),
           array'.rear \in -1..(array'.capacity - 1),
           array'.rear = (array'.front + array'.size - Lag) % array'.capacity
    PROVE  Inv'
<1>1. /\ kind = "queue.c" => array'.rear = (array'.front + array'.size - 1) % array'.capacity
      /\ kind = "ringbuffer.c" => array'.rear = (array'.front + array'.size) % array'.capacity
  <2>1. CASE kind = "queue.c"
    BY <2>1 DEF Lag
  <2>2. CASE kind = "ringbuffer.c"
    <3>1. Lag = 0
      BY <2>2 DEF Lag
    <3>2. array'.front + array'.size - 0 = array'.front + array'.size
      BY DEF Fits
    <3> QED BY <2>2, <3>1, <3>2
  <2> QED BY <2>1, <2>2 DEF Rings
<1>2. TypeOK'
  BY DEF Inv, TypeOK, Cell, Fits
<1>3. FrontInside'
  BY DEF FrontInside, Rings, Fits
<1>4. IndicesAgree'
  BY <1>1 DEF IndicesAgree, Rings
<1> QED BY <1>2, <1>3, <1>4 DEF Inv

\* A value goes behind the last one.
LEMMA RingGrows ==
    ASSUME Inv, kind \in Rings, UNCHANGED <<kind, rearUsed>>, array.size # array.capacity, NEW v \in Value,
           IsCall(call'), call'.op = "push_back", call'.values = <<v>>, call'.answer = <<>>,
           IsArray(array'), array'.front = array.front, array'.rear = Up(array.rear),
           array'.size = array.size + 1, array'.capacity = array.capacity,
           array'.items = [array.items EXCEPT ![IF kind = "queue.c" THEN Up(array.rear)
                                                 ELSE array.rear] = v]
    PROVE  Inv' /\ Kept
<1>1. PICK C, h, n, f, d, s : RingIs(C, h, n, f, d, s)
  BY RingFacts
<1>2. /\ C = array.capacity /\ h = array.front /\ n = array.size /\ f = array.items /\ d = Lag
      /\ array.rear = (h + n - d) % C /\ s \in Seq(Cell) /\ Len(s) = n /\ s = Row(f, h, n, C) /\ Elements = s
      /\ Fits(Cell, C, h, n, f) /\ Lagging(C, h, n, d) /\ n # C /\ v \in Cell
  BY <1>1 DEF RingIs, Cell
<1>3. /\ C \in Nat \ {0} /\ h \in 0..(C - 1) /\ n \in 0..C /\ n + 1 \in 0..C
      /\ f \in [0..(C - 1) -> Cell] /\ d \in {0, 1}
  <2>1. Fits(Cell, C, h, n, f) /\ Lagging(C, h, n, d) /\ n # C
    BY <1>2
  <2> QED BY <2>1 DEF Fits, Lagging
<1>4. Up(array.rear) = (h + (n + 1) - d) % C
  BY <1>2, RearFollows DEF Up
<1>5. PICK g : g = array'.items
  OBVIOUS
<1>6. Put(f, Slot(h, n + 1, C), v, g)
  <2>1. CASE kind = "queue.c"
    <3>1. d = 1
      BY <1>2, <2>1 DEF Lag
    <3>2. Slot(h, n + 1, C) = Up(array.rear)
      BY <1>4, <3>1 DEF Slot
    <3> QED BY <1>2, <1>5, <2>1, <3>2 DEF Put
  <2>2. CASE kind = "ringbuffer.c"
    <3>1. d = 0 /\ h + n - d = h + (n + 1) - 1
      BY <1>2, <1>3, <2>2 DEF Lag
    <3>2. Slot(h, n + 1, C) = array.rear
      BY <1>2, <3>1 DEF Slot
    <3> QED BY <1>2, <1>5, <2>2, <3>2 DEF Put
  <2> QED BY <2>1, <2>2 DEF Rings
<1>7. Row(g, h, n + 1, C) = s \o <<v>>
  <2>1. Fits(Cell, C, h, n, f) /\ n # C /\ v \in Cell
    BY <1>2
  <2>2. Row(g, h, n + 1, C) = Row(f, h, n, C) \o <<v>>
    BY <1>6, <2>1, RowPutBack
  <2> QED BY <1>2, <2>2
<1>8. Elements' = s \o <<v>>
  <2>1. Elements' = Row(array'.items, array'.front, array'.size, array'.capacity)
    BY ElementsAre DEF Rings, RowKinds
  <2> QED BY <1>2, <1>5, <1>7, <2>1
<1>9. Kept
  <2>1. Promised!After(s, call') = s \o <<v>> /\ Promised!Answer(s, call') = <<>>
    <3>1. Room(s, call'.values)
      <4>1. Len(<<v>>) = 1 /\ n + 1 <= C
        BY <1>3
      <4> QED BY <1>2, <4>1 DEF Room
    <3> QED BY <3>1, PutsBack
  <2> QED BY <1>2, <1>8, <2>1, KeptBy
<1>10. Inv'
  <2>1. g \in [0..(C - 1) -> Cell]
    BY <1>2, <1>3, <1>6 DEF Put
  <2>2. Fits(Cell, array'.capacity, array'.front, array'.size, array'.items)
    BY <1>2, <1>3, <1>5, <2>1 DEF Fits
  <2>3. array'.capacity \in 1..MaxCapacity /\ array.rear \in -1..(C - 1)
    BY <1>2 DEF Inv, TypeOK
  <2>4. array'.rear \in -1..(array'.capacity - 1)
    <3>1. (array.rear + 1) % C \in 0..(C - 1)
      BY <1>3, <2>3, Around
    <3> QED BY <1>2, <1>3, <3>1 DEF Up
  <2>5. array'.rear = (array'.front + array'.size - Lag) % array'.capacity
    BY <1>2, <1>4
  <2> QED BY <2>2, <2>3, <2>4, <2>5, RingStays
<1> QED BY <1>9, <1>10

\* The first value goes.
LEMMA RingShrinks ==
    ASSUME Inv, kind \in Rings, UNCHANGED <<kind, rearUsed>>, array.size # 0,
           IsCall(call'), call'.op \in {"pop_front", "delete_front"},
           call'.answer = IF call'.op = "pop_front" THEN <<array.items[array.front]>> ELSE <<>>,
           IsArray(array'), array'.front = Up(array.front), array'.rear = array.rear,
           array'.size = array.size - 1, array'.capacity = array.capacity,
           array'.items = array.items
    PROVE  Inv' /\ Kept
<1>1. PICK C, h, n, f, d, s : RingIs(C, h, n, f, d, s)
  BY RingFacts
<1>2. /\ C = array.capacity /\ h = array.front /\ n = array.size /\ f = array.items /\ d = Lag
      /\ array.rear = (h + n - d) % C /\ s \in Seq(Cell) /\ Len(s) = n /\ s = Row(f, h, n, C) /\ Elements = s
      /\ Fits(Cell, C, h, n, f) /\ Lagging(C, h, n, d) /\ n # 0
  BY <1>1 DEF RingIs
<1>3. /\ C \in Nat \ {0} /\ h \in 0..(C - 1) /\ n \in 0..C /\ n - 1 \in 0..C
      /\ f \in [0..(C - 1) -> Cell] /\ d \in {0, 1}
  <2>1. Fits(Cell, C, h, n, f) /\ Lagging(C, h, n, d) /\ n # 0
    BY <1>2
  <2> QED BY <2>1 DEF Fits, Lagging
<1>4. PICK u : u = (h + 1) % C
  OBVIOUS
<1>5. u \in 0..(C - 1)
  BY <1>3, <1>4, NextValue
<1>6. (u + (n - 1) - d) % C = array.rear
  BY <1>2, <1>4, RearFollows
<1>7. s # <<>> /\ Head(s) = f[h] /\ Row(f, u, n - 1, C) = Tail(s)
  BY <1>2, <1>4, RowWithoutFirst
<1>8. Elements' = Tail(s)
  <2>1. Elements' = Row(array'.items, array'.front, array'.size, array'.capacity)
    BY ElementsAre DEF Rings, RowKinds
  <2> QED BY <1>2, <1>4, <1>7, <2>1 DEF Up
<1>9. Kept
  <2>1. Promised!After(s, call') = Tail(s) /\ Promised!Answer(s, call') = call'.answer
    BY <1>2, <1>7, TakesFront
  <2> QED BY <1>2, <1>8, <2>1, KeptBy
<1>10. Inv'
  <2>1. array'.capacity \in 1..MaxCapacity /\ array'.rear \in -1..(array'.capacity - 1)
    BY <1>2 DEF Inv, TypeOK
  <2>2. array'.front = u
    BY <1>2, <1>4 DEF Up
  <2>3. Fits(Cell, array'.capacity, array'.front, array'.size, array'.items)
    BY <1>2, <1>3, <1>5, <2>2 DEF Fits
  <2>4. array'.rear = (array'.front + array'.size - Lag) % array'.capacity
    BY <1>2, <1>6, <2>2
  <2> QED BY <2>1, <2>3, <2>4, RingStays
<1> QED BY <1>9, <1>10
-----------------------------------------------------------------------------
(* queue.c and ringbuffer.c, call by call. *)

\* A call to a full container that puts something at its end, to an empty one that takes
\* the first, and a question about the first.
LEMMA RefusesMore ==
    ASSUME Inv, kind \in Rings, UNCHANGED <<kind, rearUsed, array>>, IsCall(call'),
           array.size = array.capacity, NEW v, call'.values = <<v>>, call'.op = "push_back",
           call'.answer = <<>>
    PROVE  Inv' /\ Kept
<1>1. PICK C, h, n, f, d, s : RingIs(C, h, n, f, d, s)
  BY RingFacts
<1>2. Elements = s /\ Elements' = Elements /\ Len(s) = array.capacity /\ array.capacity \in Nat
  <2>1. Elements' = Elements
    BY ElementsAre DEF Rings, RowKinds
  <2> QED BY <1>1, <2>1, ArrayFacts DEF RingIs
<1>3. Promised!After(s, call') = s /\ Promised!Answer(s, call') = <<>>
  <2>1. Len(<<v>>) = 1 /\ ~Room(s, call'.values)
    BY <1>2 DEF Room
  <2> QED BY <2>1, PutsBack
<1> QED BY <1>2, <1>3, KeptBy, Looks

LEMMA GivesNone ==
    ASSUME Inv, kind \in Rings, UNCHANGED <<kind, rearUsed, array>>, IsCall(call'),
           array.size = 0, call'.op \in {"pop_front", "delete_front"}, call'.answer = <<>>
    PROVE  Inv' /\ Kept
<1>1. PICK C, h, n, f, d, s : RingIs(C, h, n, f, d, s)
  BY RingFacts
<1>2. Elements = s /\ Elements' = Elements /\ s = <<>>
  <2>1. Elements' = Elements
    BY ElementsAre DEF Rings, RowKinds
  <2> QED BY <1>1, <2>1, EmptyRow DEF RingIs
<1>3. Promised!After(s, call') = s /\ Promised!Answer(s, call') = <<>>
  BY <1>2, TakesFront
<1> QED BY <1>2, <1>3, KeptBy, Looks

LEMMA ShowsFirst ==
    ASSUME Inv, kind \in Rings, UNCHANGED <<kind, rearUsed, array>>, IsCall(call'),
           call'.op = "get_front",
           call'.answer = IF array.size = 0 THEN <<>> ELSE <<array.items[array.front]>>
    PROVE  Inv' /\ Kept
<1>1. PICK C, h, n, f, d, s : RingIs(C, h, n, f, d, s)
  BY RingFacts
<1>2. Elements = s /\ Elements' = Elements
  <2>1. Elements' = Elements
    BY ElementsAre DEF Rings, RowKinds
  <2> QED BY <1>1, <2>1 DEF RingIs
<1>3. Promised!After(s, call') = s /\ Promised!Answer(s, call') = call'.answer
  <2>1. CASE n = 0
    <3>1. s = <<>> /\ array.size = 0
      BY <1>1, <2>1, EmptyRow DEF RingIs
    <3> QED BY <3>1, AsksFront
  <2>2. CASE n # 0
    <3>1. s # <<>> /\ Head(s) = f[h]
      BY <1>1, <2>2, RowWithoutFirst DEF RingIs
    <3>2. array.size # 0 /\ f[h] = array.items[array.front]
      BY <1>1, <2>2 DEF RingIs
    <3> QED BY <3>1, <3>2, AsksFront
  <2> QED BY <2>1, <2>2
<1> QED BY <1>2, <1>3, KeptBy, Looks

LEMMA QueueSteps ==
    ASSUME Inv, kind = "queue.c", QueueNext
    PROVE  Inv' /\ Kept
<1>0. IsArray(array) /\ kind \in Rings
  BY DEF Inv, Rings
<1>1. ASSUME NEW v \in Value, enqueue(v) PROVE Inv' /\ Kept
  <2>1. /\ UNCHANGED <<kind, rearUsed>> /\ IsCall(call') /\ call'.op = "push_back"
        /\ call'.values = <<v>> /\ call'.answer = <<>>
    BY <1>1 DEF enqueue, Does, Did, Nothing, IsCall
  <2>2. CASE isFull
    BY <1>0, <1>1, <2>1, <2>2, RefusesMore DEF enqueue, Does, Did, isFull
  <2>3. CASE ~isFull
    <3>1. array' = [array EXCEPT !.rear = Up(@), !.items[Up(array.rear)] = v, !.size = @ + 1]
      BY <1>1, <2>3 DEF enqueue, Does, Did
    <3>2. /\ IsArray(array') /\ array'.front = array.front /\ array'.rear = Up(array.rear)
          /\ array'.size = array.size + 1 /\ array'.capacity = array.capacity
          /\ array'.items = [array.items EXCEPT ![Up(array.rear)] = v]
      BY <1>0, <3>1 DEF IsArray
    <3> QED BY <1>0, <2>1, <2>3, <3>2, RingGrows DEF isFull
  <2> QED BY <2>2, <2>3
<1>2. ASSUME dequeue PROVE Inv' /\ Kept
  <2>1. CASE isEmpty
    <3>1. /\ UNCHANGED <<kind, rearUsed, array>> /\ IsCall(call') /\ call'.op = "pop_front"
          /\ call'.answer = <<>>
      BY <1>2, <2>1 DEF dequeue, Did, Nothing, IsCall
    <3> QED BY <1>0, <2>1, <3>1, GivesNone DEF isEmpty
  <2>2. CASE ~isEmpty
    <3>1. /\ UNCHANGED <<kind, rearUsed>> /\ IsCall(call') /\ call'.op = "pop_front"
          /\ call'.answer = <<array.items[array.front]>>
          /\ array' = [array EXCEPT !.front = Up(@), !.size = @ - 1]
      BY <1>2, <2>2 DEF dequeue, Did, IsCall
    <3>2. /\ IsArray(array') /\ array'.front = Up(array.front) /\ array'.rear = array.rear
          /\ array'.size = array.size - 1 /\ array'.capacity = array.capacity
          /\ array'.items = array.items
      BY <1>0, <3>1 DEF IsArray
    <3> QED BY <1>0, <2>2, <3>1, <3>2, RingShrinks DEF isEmpty
  <2> QED BY <2>1, <2>2
<1>3. ASSUME front PROVE Inv' /\ Kept
  <2>1. /\ UNCHANGED <<kind, rearUsed, array>> /\ IsCall(call') /\ call'.op = "get_front"
        /\ call'.answer = IF array.size = 0 THEN <<>> ELSE <<array.items[array.front]>>
    BY <1>3 DEF front, Asked, Did, Nothing, IsCall, isEmpty
  <2> QED BY <1>0, <2>1, ShowsFirst
<1> QED BY <1>1, <1>2, <1>3 DEF QueueNext

\* The slots that search looks at are those of the values held.
LEMMA SearchedSlots ==
    ASSUME Inv, kind = "ringbuffer.c", array.size # 0,
           NEW C, NEW h, NEW n, NEW f, NEW d, NEW s, RingIs(C, h, n, f, d, s)
    PROVE  searched = {Slot(h, k, C) : k \in 1..n}
<1>1. /\ C \in Nat \ {0} /\ h \in 0..(C - 1) /\ n \in 0..C /\ n # 0 /\ d = 0
  BY DEF RingIs, Fits, Lag
<1>2. /\ C = array.capacity /\ h = array.front /\ n = array.size /\ array.rear = (h + n - d) % C
  BY DEF RingIs
<1>3. PICK m : m = (array.rear - array.front) % array.capacity
  OBVIOUS
<1>4. (IF m = 0 THEN C ELSE m) = n
  <2>1. array.rear = IF h + n < C THEN h + n ELSE h + n - C
    <3>1. PICK a \in Int : a = h + n - d
      BY <1>1
    <3>2. 0 <= a + C /\ a < C + C /\ a = h + n /\ a >= 0
      BY <1>1, <3>1
    <3>3. a % C = IF a < 0 THEN a + C ELSE IF a < C THEN a ELSE a - C
      BY <1>1, <3>2, Wraps
    <3> QED BY <1>1, <1>2, <3>1, <3>2, <3>3
  <2>2. PICK b \in Int : b = array.rear - h
    BY <1>1, <2>1
  <2>3. b % C = IF b < 0 THEN b + C ELSE IF b < C THEN b ELSE b - C
    <3>1. 0 <= b + C /\ b < C + C
      BY <1>1, <2>1, <2>2
    <3> QED BY <1>1, <3>1, Wraps
  <2>4. m = b % C
    BY <1>2, <1>3, <2>2
  <2> QED BY <1>1, <2>1, <2>2, <2>3, <2>4
<1>5. searched = {(h + i) % C : i \in 0..(n - 1)}
  BY <1>2, <1>3, <1>4 DEF searched
<1>6. \A i \in 0..(n - 1) : i + 1 \in 1..n /\ (h + i) % C = Slot(h, i + 1, C)
  <2> SUFFICES ASSUME NEW i \in 0..(n - 1) PROVE i + 1 \in 1..n /\ (h + i) % C = Slot(h, i + 1, C)
    OBVIOUS
  <2>1. h + (i + 1) - 1 = h + i /\ i + 1 \in 1..n
    BY <1>1
  <2> QED BY <2>1 DEF Slot
<1>7. \A k \in 1..n : k - 1 \in 0..(n - 1) /\ (h + (k - 1)) % C = Slot(h, k, C)
  <2> SUFFICES ASSUME NEW k \in 1..n PROVE k - 1 \in 0..(n - 1) /\ (h + (k - 1)) % C = Slot(h, k, C)
    OBVIOUS
  <2>1. h + k - 1 = h + (k - 1) /\ k - 1 \in 0..(n - 1)
    BY <1>1
  <2> QED BY <2>1 DEF Slot
<1> QED BY <1>5, <1>6, <1>7
LEMMA RingCalls ==
    ASSUME Inv, kind = "ringbuffer.c", NEW v \in Value, insert(v) \/ search(v)
    PROVE  Inv' /\ Kept
<1>0. IsArray(array) /\ kind \in Rings
  BY DEF Inv, Rings
<1>1. ASSUME insert(v) PROVE Inv' /\ Kept
  <2>1. /\ UNCHANGED <<kind, rearUsed>> /\ IsCall(call') /\ call'.op = "push_back"
        /\ call'.values = <<v>> /\ call'.answer = <<>>
    BY <1>1 DEF insert, Does, Did, Nothing, IsCall
  <2>2. CASE isFull
    BY <1>0, <1>1, <2>1, <2>2, RefusesMore DEF insert, Does, Did, isFull
  <2>3. CASE ~isFull
    <3>1. array' = [array EXCEPT !.items[array.rear] = v, !.rear = Up(@), !.size = @ + 1]
      BY <1>1, <2>3 DEF insert, Does, Did
    <3>2. /\ IsArray(array') /\ array'.front = array.front /\ array'.rear = Up(array.rear)
          /\ array'.size = array.size + 1 /\ array'.capacity = array.capacity
          /\ array'.items = [array.items EXCEPT ![array.rear] = v]
      BY <1>0, <3>1 DEF IsArray
    <3> QED BY <1>0, <2>1, <2>3, <3>2, RingGrows DEF isFull
  <2> QED BY <2>2, <2>3
<1>2. ASSUME search(v) PROVE Inv' /\ Kept
  <2>1. PICK C, h, n, f, d, s : RingIs(C, h, n, f, d, s)
    BY <1>0, RingFacts
  <2>2. /\ UNCHANGED <<kind, rearUsed, array>> /\ IsCall(call') /\ call'.op = "contains"
        /\ call'.values = <<v>>
        /\ call'.answer = IF array.size # 0 /\ \E i \in searched : array.items[i] = v
                          THEN <<1>> ELSE <<0>>
    BY <1>2 DEF search, Asked, Did, IsCall, isEmpty
  <2>3. Elements = s /\ Elements' = Elements
    <3>1. Elements' = Elements
      BY <1>0, <2>2, ElementsAre DEF Rings, RowKinds
    <3> QED BY <2>1, <3>1 DEF RingIs
  <2>4. /\ n = array.size /\ f = array.items /\ DOMAIN s = 1..n /\ n \in Nat
        /\ \A k \in 1..n : s[k] = f[Slot(h, k, C)]
    <3>1. /\ Row(f, h, n, C) \in Seq(Cell) /\ Len(Row(f, h, n, C)) = n
          /\ \A k \in 1..n : Row(f, h, n, C)[k] = f[Slot(h, k, C)]
      BY <2>1, RowIs DEF RingIs
    <3>2. n \in Nat /\ n = array.size /\ f = array.items /\ s = Row(f, h, n, C)
      BY <2>1 DEF RingIs, Fits
    <3> QED BY <3>1, <3>2
  <2>5. (array.size # 0 /\ \E i \in searched : array.items[i] = v) <=> \E k \in DOMAIN s : s[k] = v
    <3>1. CASE n = 0
      BY <2>4, <3>1
    <3>2. CASE n # 0
      <4>1. searched = {Slot(h, k, C) : k \in 1..n}
        BY <2>1, <2>4, <3>2, SearchedSlots
      <4> QED BY <2>4, <3>2, <4>1
    <3> QED BY <3>1, <3>2
  <2>6. Promised!After(s, call') = s /\ Promised!Answer(s, call') = call'.answer
    <3>1. call'.values[1] = v
      BY <2>2
    <3>2. /\ Promised!After(s, call') = s
          /\ Promised!Answer(s, call') = IF \E k \in DOMAIN s : s[k] = v THEN <<1>> ELSE <<0>>
      BY <2>2, <3>1, AsksMember
    <3> QED BY <2>2, <2>5, <3>2
  <2> QED BY <2>2, <2>3, <2>6, KeptBy, Looks
<1> QED BY <1>1, <1>2

LEMMA RingModifies ==
    ASSUME Inv, kind = "ringbuffer.c", NEW i \in -1..Capacity, NEW v \in Value, modifyData(i, v)
    PROVE  Inv' /\ Kept
<1>0. IsArray(array) /\ kind \in Rings
  BY DEF Inv, Rings
<1>1. PICK C, h, n, f, d, s : RingIs(C, h, n, f, d, s)
  BY <1>0, RingFacts
<1>2. /\ C = array.capacity /\ h = array.front /\ n = array.size /\ f = array.items /\ d = Lag
      /\ array.rear = (h + n - d) % C /\ s = Row(f, h, n, C) /\ Len(s) = n /\ Elements = s
      /\ Fits(Cell, C, h, n, f)
  BY <1>1 DEF RingIs
<1>3. /\ UNCHANGED <<kind, rearUsed>> /\ IsCall(call') /\ call'.op = "replace"
      /\ call'.at = i /\ call'.values = <<v>> /\ call'.answer = <<>>
      /\ array' = IF i < 0 \/ i >= array.size THEN array
                  ELSE [array EXCEPT !.items[(array.front + i) % array.capacity] = v]
  BY DEF modifyData, Does, Did, Nothing, IsCall
<1>4. /\ Promised!After(s, call') = IF i \in 0..(n - 1) THEN [s EXCEPT ![i + 1] = v] ELSE s
      /\ Promised!Answer(s, call') = <<>>
  <2>1. call'.values[1] = v
    BY <1>3
  <2> QED BY <1>2, <1>3, <2>1, Replaces
<1>5. n \in Nat /\ i \in Int
  <2>1. n \in Nat
    BY <1>2 DEF Fits
  <2> QED BY <2>1
<1>6. CASE i \notin 0..(n - 1)
  <2>1. i < 0 \/ i >= n
    BY <1>5, <1>6
  <2>2. array' = array
    BY <1>2, <1>3, <2>1
  <2>3. Elements' = Elements
    BY <1>0, <1>3, <2>2, ElementsAre DEF Rings, RowKinds
  <2> QED BY <1>2, <1>3, <1>4, <1>6, <2>2, <2>3, KeptBy, Looks
<1>7. CASE i \in 0..(n - 1)
  <2>1. i \in Nat /\ i < n /\ ~(i < 0 \/ i >= n)
    BY <1>5, <1>7
  <2>2. PICK u, g : u = (h + i) % C /\ g = array'.items
    OBVIOUS
  <2>3. /\ IsArray(array') /\ array'.front = h /\ array'.rear = array.rear
        /\ array'.size = n /\ array'.capacity = C
        /\ array'.items = [f EXCEPT ![u] = v]
    BY <1>0, <1>2, <1>3, <2>1, <2>2 DEF IsArray
  <2>4. v \in Cell /\ Put(f, u, v, g)
    BY <2>2, <2>3 DEF Cell, Put
  <2>5. Put(Row(f, h, n, C), i + 1, v, Row(g, h, n, C))
    BY <1>2, <2>1, <2>2, <2>4, RowReplaced
  <2>6. Elements' = Row(g, h, n, C)
    <3>1. Elements' = Row(array'.items, array'.front, array'.size, array'.capacity)
      BY <1>0, <1>3, ElementsAre DEF Rings, RowKinds
    <3> QED BY <2>2, <2>3, <3>1
  <2>7. Kept
    <3>1. Elements' = [s EXCEPT ![i + 1] = v]
      BY <1>2, <2>5, <2>6 DEF Put
    <3> QED BY <1>2, <1>3, <1>4, <1>7, <2>3, <3>1, KeptBy
  <2>8. Inv'
    <3>1. g \in [0..(C - 1) -> Cell]
      BY <1>2, <2>4 DEF Fits, Put
    <3>2. Fits(Cell, array'.capacity, array'.front, array'.size, array'.items)
      BY <1>2, <2>2, <2>3, <3>1 DEF Fits
    <3>3. array'.capacity \in 1..MaxCapacity /\ array'.rear \in -1..(array'.capacity - 1)
      BY <1>2, <2>3 DEF Inv, TypeOK
    <3>4. array'.rear = (array'.front + array'.size - Lag) % array'.capacity
      BY <1>2, <2>3
    <3> QED BY <1>0, <1>3, <2>3, <3>2, <3>3, <3>4, RingStays
  <2> QED BY <2>7, <2>8
<1> QED BY <1>6, <1>7

LEMMA RingFlushes ==
    ASSUME Inv, kind = "ringbuffer.c", flush
    PROVE  Inv' /\ Kept
<1>1. /\ UNCHANGED <<kind, rearUsed>> /\ IsCall(call') /\ call'.op = "clear" /\ call'.answer = <<>>
      /\ array' = [array EXCEPT !.front = 0, !.rear = 0, !.size = 0]
  BY DEF flush, Does, Did, Nothing, IsCall
<1>2. /\ IsArray(array') /\ array'.front = 0 /\ array'.rear = 0 /\ array'.size = 0
      /\ array'.capacity = array.capacity /\ array'.items = array.items
  BY <1>1 DEF IsArray, Inv
<1>3. kind \in Rings /\ Lag = 0
  BY DEF Rings, Lag
<1>4. Kept
  <2>1. Elements' = <<>>
    <3>1. Elements' = Row(array'.items, array'.front, array'.size, array'.capacity)
      BY <1>1, <1>3, ElementsAre DEF Rings, RowKinds
    <3> QED BY <1>2, <3>1, EmptyRow
  <2>2. Promised!After(Elements, call') = <<>> /\ Promised!Answer(Elements, call') = <<>>
    BY <1>1, Clears
  <2> QED BY <1>1, <1>2, <2>1, <2>2, KeptBy
<1>5. Inv'
  <2>1. /\ array.capacity \in Nat \ {0} /\ array.capacity \in 1..MaxCapacity
        /\ array.items \in [0..(array.capacity - 1) -> Cell]
    BY DEF Inv, TypeOK, Cell
  <2>2. Fits(Cell, array'.capacity, array'.front, array'.size, array'.items)
    BY <1>2, <2>1 DEF Fits
  <2>3. array'.rear = (array'.front + array'.size - Lag) % array'.capacity
    BY <1>2, <1>3, <2>1
  <2>4. array'.capacity \in 1..MaxCapacity /\ array'.rear \in -1..(array'.capacity - 1)
    BY <1>2, <2>1
  <2> QED BY <1>1, <1>2, <1>3, <2>2, <2>3, <2>4, RingStays
<1> QED BY <1>4, <1>5

LEMMA RingResizes ==
    ASSUME Capacities, Inv, kind = "ringbuffer.c", NEW D \in 1..MaxCapacity, resizeRingBuffer(D)
    PROVE  Inv' /\ Kept
<1>0. kind \in Rings /\ Lag = 0
  BY DEF Rings, Lag
<1>1. PICK C, h, n, f, d, s : RingIs(C, h, n, f, d, s)
  BY <1>0, RingFacts
<1>2. /\ C = array.capacity /\ h = array.front /\ n = array.size /\ f = array.items
      /\ s = Row(f, h, n, C) /\ Elements = s /\ Fits(Cell, C, h, n, f)
  BY <1>1 DEF RingIs
<1>3. /\ UNCHANGED <<kind, rearUsed>> /\ IsCall(call') /\ call'.op = "resize" /\ call'.at = D
      /\ call'.answer = <<>> /\ D >= n
      /\ array' = [items |-> [i \in 0..(D - 1) |-> IF i < n THEN f[(h + i) % C] ELSE Garbage],
                   front |-> 0, rear |-> n % D, size |-> n, capacity |-> D]
  BY <1>2 DEF resizeRingBuffer, Does, Did, Nothing, IsCall
<1>4. PICK g : g = array'.items
  OBVIOUS
<1>5. /\ IsArray(array') /\ array'.front = 0 /\ array'.rear = n % D
      /\ array'.size = n /\ array'.capacity = D
      /\ g = [i \in 0..(D - 1) |-> IF i < n THEN f[(h + i) % C] ELSE Garbage]
  BY <1>3, <1>4 DEF IsArray
<1>6. /\ C \in Nat \ {0} /\ h \in 0..(C - 1) /\ n \in 0..C /\ f \in [0..(C - 1) -> Cell]
      /\ D \in Nat \ {0} /\ n <= D
  <2>1. MaxCapacity \in Nat
    BY DEF Capacities
  <2> QED BY <1>2, <1>3, <2>1 DEF Fits
<1>7. g \in [0..(D - 1) -> Cell]
  <2> SUFFICES ASSUME NEW i \in 0..(D - 1) PROVE (IF i < n THEN f[(h + i) % C] ELSE Garbage) \in Cell
    BY <1>5
  <2>1. CASE i < n
    <3>1. (h + i) % C \in 0..(C - 1)
      <4>1. i + 1 \in 1..C /\ h + (i + 1) - 1 = h + i
        BY <1>6, <2>1
      <4> QED BY <1>6, <4>1, SlotValue DEF Slot
    <3> QED BY <1>6, <2>1, <3>1
  <2>2. CASE ~(i < n)
    BY <2>2 DEF Cell
  <2> QED BY <2>1, <2>2
<1>8. Fits(Cell, D, 0, n, g)
  BY <1>6, <1>7 DEF Fits
<1>9. Row(g, 0, n, D) = s
  <2>1. \A i \in 0..(n - 1) : g[i] = f[(h + i) % C]
    <3> SUFFICES ASSUME NEW i \in 0..(n - 1) PROVE g[i] = f[(h + i) % C]
      OBVIOUS
    <3>1. i < n /\ i \in 0..(D - 1)
      BY <1>6
    <3> QED BY <1>5, <3>1
  <2> QED BY <1>2, <1>8, <2>1, RowMoved
<1>10. Kept
  <2>1. Elements' = s
    <3>1. Elements' = Row(array'.items, array'.front, array'.size, array'.capacity)
      BY <1>0, <1>3, ElementsAre DEF Rings, RowKinds
    <3> QED BY <1>4, <1>5, <1>9, <3>1
  <2>2. Promised!After(s, call') = s /\ Promised!Answer(s, call') = <<>>
    BY <1>3, Resizes
  <2> QED BY <1>2, <1>3, <1>5, <2>1, <2>2, KeptBy
<1>11. Inv'
  <2>1. n % D = (0 + n - 0) % D /\ n % D \in 0..(D - 1)
    BY <1>6
  <2>2. array'.rear = (array'.front + array'.size - Lag) % array'.capacity
    BY <1>0, <1>5, <2>1
  <2>3. array'.rear \in -1..(array'.capacity - 1) /\ array'.capacity \in 1..MaxCapacity
    BY <1>5, <1>6, <2>1
  <2>4. Fits(Cell, array'.capacity, array'.front, array'.size, array'.items)
    BY <1>4, <1>5, <1>8
  <2> QED BY <1>0, <1>3, <1>5, <2>2, <2>3, <2>4, RingStays
<1> QED BY <1>10, <1>11

LEMMA RingSteps ==
    ASSUME Capacities, Inv, kind = "ringbuffer.c", RingNext
    PROVE  Inv' /\ Kept
<1>1. ASSUME ringBufferRemove PROVE Inv' /\ Kept
  <2>0. IsArray(array) /\ kind \in Rings
    BY DEF Inv, Rings
  <2>1. /\ UNCHANGED <<kind, rearUsed>> /\ IsCall(call') /\ call'.op = "delete_front"
        /\ call'.answer = <<>>
    BY <1>1 DEF ringBufferRemove, Does, Did, Nothing, IsCall
  <2>2. CASE isEmpty
    BY <1>1, <2>0, <2>1, <2>2, GivesNone DEF isEmpty, ringBufferRemove, Does, Did
  <2>3. CASE ~isEmpty
    <3>1. array' = [array EXCEPT !.front = Up(@), !.size = @ - 1]
      BY <1>1, <2>3 DEF ringBufferRemove, Does, Did
    <3>2. /\ IsArray(array') /\ array'.front = Up(array.front) /\ array'.rear = array.rear
          /\ array'.size = array.size - 1 /\ array'.capacity = array.capacity
          /\ array'.items = array.items
      BY <2>0, <3>1 DEF IsArray
    <3> QED BY <2>0, <2>1, <2>3, <3>2, RingShrinks DEF isEmpty
  <2> QED BY <2>2, <2>3
<1> QED BY <1>1, RingCalls, RingModifies, RingFlushes, RingResizes DEF RingNext
-----------------------------------------------------------------------------
(* stack.c *)

LEMMA StackFacts ==
    ASSUME Inv, kind = "stack.c"
    PROVE  /\ Fits(Cell, array.capacity, 0, array.size, array.items) /\ IsArray(array)
           /\ Elements = StackRow(array.items, array.size)
           /\ Elements \in Seq(Cell) /\ Len(Elements) = array.size
<1>1. Fits(Cell, array.capacity, 0, array.size, array.items) /\ IsArray(array)
  <2>1. /\ array.capacity \in Nat \ {0} /\ array.size \in 0..array.capacity
        /\ array.items \in [0..(array.capacity - 1) -> Cell]
    BY ArrayFacts
  <2>2. 0 \in 0..(array.capacity - 1)
    BY <2>1
  <2> QED BY <2>1, <2>2 DEF Inv, Fits
<1>2. Elements = StackRow(array.items, array.size)
  BY ElementsAre
<1> QED BY <1>1, <1>2, StackRowIs

\* The invariant of a stack after a step.
LEMMA StackStays ==
    ASSUME Inv, kind = "stack.c", UNCHANGED <<kind, rearUsed>>, IsCall(call'), IsArray(array'),
           array'.capacity = array.capacity, array'.front = array.front, array'.rear = array.rear,
           array'.size \in 0..array.capacity, array'.items \in [0..(array.capacity - 1) -> Cell]
    PROVE  Inv'
<1>1. TypeOK'
  BY DEF Inv, TypeOK, Cell
<1> QED BY <1>1 DEF Inv, FrontInside, IndicesAgree

LEMMA StackSteps ==
    ASSUME Inv, kind = "stack.c", StackNext
    PROVE  Inv' /\ Kept
<1> DEFINE C == array.capacity
           n == array.size
           f == array.items
<1>0. /\ C \in Nat \ {0} /\ n \in 0..C /\ f \in [0..(C - 1) -> Cell] /\ IsArray(array)
      /\ Fits(Cell, C, 0, n, f) /\ top = n - 1
  BY StackFacts DEF Fits, top
<1>1. ASSUME NEW v \in Value, push(v) PROVE Inv' /\ Kept
  <2>1. /\ UNCHANGED <<kind, rearUsed>> /\ IsCall(call') /\ call'.op = "push_front"
        /\ call'.values = <<v>> /\ call'.answer = <<>>
    BY <1>1 DEF push, Does, Did, Nothing, IsCall
  <2>2. Len(<<v>>) = 1 /\ Len(Elements) = n
    BY StackFacts
  <2>3. CASE isFull
    <3>1. array' = array
      BY <1>1, <2>3 DEF push, Does, Did
    <3>2. Elements' = Elements
      BY <2>1, <3>1, ElementsAre
    <3>3. ~Room(Elements, call'.values)
      BY <1>0, <2>1, <2>2, <2>3 DEF Room, isFull
    <3>4. Promised!After(Elements, call') = Elements /\ Promised!Answer(Elements, call') = <<>>
      BY <2>1, <3>3, PutsFront
    <3> QED BY <2>1, <3>1, <3>2, <3>4, KeptBy, Looks
  <2>4. CASE ~isFull
    <3>1. array' = [array EXCEPT !.items[n] = v, !.size = @ + 1]
      <4>1. top + 1 = n
        BY <1>0
      <4> QED BY <1>1, <2>4, <4>1 DEF push, Does, Did
    <3>2. PICK g : g = array'.items
      OBVIOUS
    <3>3. /\ IsArray(array') /\ array'.front = array.front /\ array'.rear = array.rear
          /\ array'.size = n + 1 /\ array'.capacity = C /\ g = [f EXCEPT ![n] = v]
      BY <1>0, <3>1, <3>2 DEF IsArray
    <3>4. v \in Cell /\ Put(f, n, v, g) /\ n # C
      BY <2>4, <3>3 DEF Cell, Put, isFull
    <3>5. StackRow(g, n + 1) = <<v>> \o StackRow(f, n)
      BY <1>0, <3>4, StackRowPushed
    <3>6. Elements' = <<v>> \o Elements
      <4>1. Elements' = StackRow(array'.items, array'.size)
        BY <2>1, ElementsAre
      <4> QED BY <3>2, <3>3, <3>5, <4>1, StackFacts
    <3>7. Promised!After(Elements, call') = <<v>> \o Elements /\ Promised!Answer(Elements, call') = <<>>
      <4>1. Room(Elements, call'.values)
        BY <1>0, <2>1, <2>2, <3>4 DEF Room
      <4> QED BY <2>1, <4>1, PutsFront
    <3>8. Kept
      BY <2>1, <3>3, <3>6, <3>7, KeptBy
    <3>9. Inv'
      <4>1. n + 1 \in 0..C /\ g \in [0..(C - 1) -> Cell]
        BY <1>0, <3>3, <3>4
      <4> QED BY <2>1, <3>2, <3>3, <4>1, StackStays
    <3> QED BY <3>8, <3>9
  <2> QED BY <2>3, <2>4
<1>2. ASSUME pop PROVE Inv' /\ Kept
  <2>1. CASE isEmpty
    <3>1. /\ UNCHANGED <<kind, rearUsed, array>> /\ IsCall(call') /\ call'.op = "pop_front"
          /\ call'.answer = <<>>
      BY <1>2, <2>1 DEF pop, Did, Nothing, IsCall
    <3>2. Elements' = Elements /\ Elements = <<>>
      BY <2>1, <3>1, ElementsAre, StackFacts DEF isEmpty, StackRow
    <3>3. Promised!After(Elements, call') = Elements /\ Promised!Answer(Elements, call') = <<>>
      BY <3>1, <3>2, TakesFront
    <3> QED BY <3>1, <3>2, <3>3, KeptBy, Looks
  <2>2. CASE ~isEmpty
    <3>1. /\ UNCHANGED <<kind, rearUsed>> /\ IsCall(call') /\ call'.op = "pop_front"
          /\ call'.answer = <<f[n - 1]>> /\ array' = [array EXCEPT !.size = @ - 1]
      BY <1>0, <1>2, <2>2 DEF pop, Did, IsCall
    <3>2. /\ IsArray(array') /\ array'.front = array.front /\ array'.rear = array.rear
          /\ array'.size = n - 1 /\ array'.capacity = C /\ array'.items = f
      BY <1>0, <3>1 DEF IsArray
    <3>3. /\ StackRow(f, n) # <<>> /\ Head(StackRow(f, n)) = f[n - 1]
          /\ StackRow(f, n - 1) = Tail(StackRow(f, n))
      BY <1>0, <2>2, StackRowPopped DEF isEmpty
    <3>4. Elements' = Tail(Elements) /\ Elements # <<>> /\ Head(Elements) = f[n - 1]
      <4>1. Elements' = StackRow(array'.items, array'.size)
        BY <3>1, ElementsAre
      <4> QED BY <3>2, <3>3, <4>1, StackFacts
    <3>5. Promised!After(Elements, call') = Tail(Elements) /\ Promised!Answer(Elements, call') = <<f[n - 1]>>
      BY <3>1, <3>4, TakesFront
    <3>6. Kept
      BY <3>1, <3>2, <3>4, <3>5, KeptBy
    <3>7. Inv'
      <4>1. n - 1 \in 0..C
        BY <1>0, <2>2 DEF isEmpty
      <4> QED BY <1>0, <3>1, <3>2, <4>1, StackStays
    <3> QED BY <3>6, <3>7
  <2> QED BY <2>1, <2>2
<1>3. ASSUME peek PROVE Inv' /\ Kept
  <2>1. /\ UNCHANGED <<kind, rearUsed, array>> /\ IsCall(call') /\ call'.op = "get_front"
        /\ call'.answer = IF n = 0 THEN <<>> ELSE <<f[n - 1]>>
    BY <1>0, <1>3 DEF peek, Asked, Did, Nothing, IsCall, isEmpty
  <2>2. Elements' = Elements /\ Elements = StackRow(f, n)
    BY <2>1, ElementsAre, StackFacts
  <2>3. Promised!After(Elements, call') = Elements /\ Promised!Answer(Elements, call') = call'.answer
    <3>1. CASE n = 0
      <4>1. Elements = <<>>
        BY <2>2, <3>1 DEF StackRow
      <4> QED BY <2>1, <3>1, <4>1, AsksFront
    <3>2. CASE n # 0
      <4>1. StackRow(f, n) # <<>> /\ Head(StackRow(f, n)) = f[n - 1]
        BY <1>0, <3>2, StackRowPopped
      <4> QED BY <2>1, <2>2, <3>2, <4>1, AsksFront
    <3> QED BY <3>1, <3>2
  <2> QED BY <2>1, <2>2, <2>3, KeptBy, Looks
<1> QED BY <1>1, <1>2, <1>3 DEF StackNext
-----------------------------------------------------------------------------
(* deque.c *)

\* The invariant of a deque after a step.
LEMMA DequeStays ==
    ASSUME Inv, kind = "deque.c", kind' = kind, rearUsed' \in BOOLEAN, IsCall(call'), IsArray(array'),
           array'.capacity = array.capacity, array'.front \in -1..(array.capacity - 1),
           array'.rear \in -1..(array.capacity - 1), array'.size \in 0..array.capacity,
           array'.items \in [0..(array.capacity - 1) -> Cell],
           ~rearUsed' /\ array'.size > 0 => array'.front # -1
    PROVE  Inv'
<1>1. TypeOK'
  BY DEF Inv, TypeOK, Cell
<1>2. FrontInside' /\ IndicesAgree'
  BY DEF FrontInside, IndicesAgree
<1> QED BY <1>1, <1>2 DEF Inv

\* What a deque is.
LEMMA DequeFacts ==
    ASSUME Inv, kind = "deque.c"
    PROVE  /\ array.capacity \in Nat \ {0} /\ array.size \in 0..array.capacity
           /\ array.items \in [0..(array.capacity - 1) -> Cell] /\ IsArray(array)
           /\ array.front \in -1..(array.capacity - 1) /\ array.rear \in -1..(array.capacity - 1)
           /\ rearUsed \in BOOLEAN
           /\ Elements = Row(array.items, array.front, array.size, array.capacity)
           /\ ~rearUsed /\ array.size # 0 =>
                 Fits(Cell, array.capacity, array.front, array.size, array.items)
<1>1. /\ array.capacity \in Nat \ {0} /\ array.size \in 0..array.capacity
      /\ array.items \in [0..(array.capacity - 1) -> Cell] /\ IsArray(array)
      /\ array.front \in -1..(array.capacity - 1) /\ array.rear \in -1..(array.capacity - 1)
      /\ rearUsed \in BOOLEAN
  BY ArrayFacts DEF Inv, TypeOK
<1>2. Elements = Row(array.items, array.front, array.size, array.capacity)
  BY ElementsAre DEF RowKinds
<1>3. ~rearUsed /\ array.size # 0 => array.front \in 0..(array.capacity - 1)
  BY <1>1, ArrayFacts
<1> QED BY <1>1, <1>2, <1>3 DEF Fits

\* The index before the front, and the one behind the rear, are in the array.
LEMMA DequeIndices ==
    ASSUME Inv, kind = "deque.c"
    PROVE  /\ Up(array.front) \in 0..(array.capacity - 1) /\ Down(array.front) \in 0..(array.capacity - 1)
           /\ Up(array.rear) \in 0..(array.capacity - 1) /\ Down(array.rear) \in 0..(array.capacity - 1)
           /\ array.front # -1 => Precedes(Down(array.front), array.front, array.capacity)
BY DequeFacts, Around DEF Up, Down, Precedes

LEMMA DequeInserts ==
    ASSUME Inv, kind = "deque.c", NEW v \in Value, insertFront(v)
    PROVE  Inv' /\ Kept
<1> DEFINE C == array.capacity
           n == array.size
           f == array.items
           h == array.front
<1>1. /\ kind' = kind /\ rearUsed' = rearUsed /\ IsCall(call') /\ call'.op = "push_front"
      /\ call'.values = <<v>> /\ call'.answer = <<>>
  BY DequeFacts DEF insertFront, DequeDid, Nothing, IsCall
<1>2. /\ C \in Nat \ {0} /\ n \in 0..C /\ f \in [0..(C - 1) -> Cell] /\ IsArray(array)
      /\ h \in -1..(C - 1) /\ array.rear \in -1..(C - 1)
      /\ Elements = Row(f, h, n, C) /\ rearUsed \in BOOLEAN
      /\ ~rearUsed /\ n # 0 => Fits(Cell, C, h, n, f)
  BY DequeFacts
<1>3. CASE isFull
  <2>1. array' = array
    BY <1>3 DEF insertFront, DequeDid
  <2>2. Inv'
    BY <1>1, <2>1, Looks
  <2>3. Kept
    <3>1. CASE rearUsed
      BY <1>1, <3>1, KeptVaguely, VagueIs
    <3>2. CASE ~rearUsed
      <4>1. Elements' = Elements
        BY <1>1, <2>1, ElementsAre DEF RowKinds
      <4>2. Len(Elements) = n
        BY <1>2, <1>3, <3>2, RowIs DEF isFull
      <4>3. ~Room(Elements, call'.values)
        BY <1>1, <1>2, <1>3, <4>2 DEF Room, isFull
      <4>4. Promised!After(Elements, call') = Elements /\ Promised!Answer(Elements, call') = <<>>
        BY <1>1, <4>3, PutsFront
      <4> QED BY <1>1, <2>1, <4>1, <4>4, KeptBy
    <3> QED BY <1>2, <3>1, <3>2
  <2> QED BY <2>2, <2>3
<1>4. CASE ~isFull
  <2>0. PICK u, g : u = Down(array.front) /\ g = array'.items
    OBVIOUS
  <2>1. array' = [array EXCEPT !.front = Down(@), !.items[Down(array.front)] = v,
                       !.rear = IF isEmpty THEN Down(array.front) ELSE @, !.size = @ + 1]
    BY <1>4 DEF insertFront, DequeDid
  <2>2. /\ IsArray(array') /\ array'.front = u /\ array'.size = n + 1 /\ array'.capacity = C
        /\ array'.rear = IF isEmpty THEN u ELSE array.rear
        /\ g = [f EXCEPT ![u] = v]
    BY <1>2, <2>0, <2>1 DEF IsArray
  <2>3. u \in 0..(C - 1) /\ (h # -1 => Precedes(u, h, C)) /\ v \in Cell /\ n # C
    BY <1>4, <2>0, DequeIndices DEF Cell, isFull
  <2>4. n + 1 \in 0..C /\ g \in [0..(C - 1) -> Cell] /\ u \in -1..(C - 1)
    BY <1>2, <2>2, <2>3
  <2>5. Inv'
    <3>1. array'.rear \in -1..(C - 1)
      BY <1>2, <2>2, <2>4
    <3>2. array'.front # -1
      BY <2>2, <2>3
    <3> QED BY <1>1, <1>2, <2>0, <2>2, <2>4, <3>1, <3>2, DequeStays
  <2>6. Kept
    <3>1. CASE rearUsed
      BY <1>1, <3>1, KeptVaguely, VagueIs
    <3>2. CASE ~rearUsed
      <4>1. PICK k, s : k = (IF n = 0 THEN (u + 1) % C ELSE h) /\ s = Row(f, k, n, C)
        OBVIOUS
      <4>2. Fits(Cell, C, k, n, f) /\ Precedes(u, k, C)
        <5>1. CASE n = 0
          <6>1. (u + 1) % C \in 0..(C - 1)
            BY <1>2, <2>3, NextValue
          <6> QED BY <1>2, <2>3, <4>1, <5>1, <6>1 DEF Fits, Precedes
        <5>2. CASE n # 0
          <6>1. Fits(Cell, C, h, n, f) /\ h # -1
            BY <1>2, <3>2, <5>2 DEF Fits
          <6> QED BY <2>3, <4>1, <5>2, <6>1
        <5> QED BY <5>1, <5>2
      <4>3. Elements = s /\ Len(s) = n
        <5>1. CASE n = 0
          BY <1>2, <4>1, <5>1, EmptyRow
        <5>2. CASE n # 0
          BY <1>2, <4>1, <4>2, <5>2, RowIs
        <5> QED BY <5>1, <5>2
      <4>4. Row(g, u, n + 1, C) = <<v>> \o s
        <5>1. Put(f, u, v, g)
          BY <2>2 DEF Put
        <5> QED BY <2>3, <4>1, <4>2, <5>1, RowPutFront
      <4>5. Elements' = <<v>> \o Elements
        <5>1. Elements' = Row(array'.items, array'.front, array'.size, array'.capacity)
          BY <1>1, ElementsAre DEF RowKinds
        <5> QED BY <2>0, <2>2, <4>3, <4>4, <5>1
      <4>6. Promised!After(Elements, call') = <<v>> \o Elements /\ Promised!Answer(Elements, call') = <<>>
        <5>1. Len(<<v>>) = 1 /\ n + 1 <= C
          BY <2>4
        <5>2. Room(Elements, call'.values)
          BY <1>1, <4>3, <5>1 DEF Room
        <5> QED BY <1>1, <5>2, PutsFront
      <4> QED BY <1>1, <2>2, <4>5, <4>6, KeptBy
    <3> QED BY <1>2, <3>1, <3>2
  <2> QED BY <2>5, <2>6
<1> QED BY <1>3, <1>4
LEMMA DequeDeletes ==
    ASSUME Inv, kind = "deque.c", deleteFront
    PROVE  Inv' /\ Kept
<1> DEFINE C == array.capacity
           n == array.size
           f == array.items
           h == array.front
<1>1. /\ kind' = kind /\ rearUsed' = rearUsed /\ IsCall(call') /\ call'.op = "pop_front"
      /\ call'.answer = IF n = 0 THEN <<>> ELSE <<f[h]>>
  BY DequeFacts DEF deleteFront, DequeDid, Nothing, IsCall, isEmpty
<1>2. /\ C \in Nat \ {0} /\ n \in 0..C /\ f \in [0..(C - 1) -> Cell] /\ IsArray(array)
      /\ h \in -1..(C - 1) /\ array.rear \in -1..(C - 1)
      /\ Elements = Row(f, h, n, C) /\ rearUsed \in BOOLEAN
      /\ ~rearUsed /\ n # 0 => Fits(Cell, C, h, n, f)
  BY DequeFacts
<1>3. CASE isEmpty
  <2>1. array' = array /\ n = 0
    BY <1>3 DEF deleteFront, DequeDid, isEmpty
  <2>2. Inv'
    BY <1>1, <2>1, Looks
  <2>3. Elements' = Elements /\ Elements = <<>>
    BY <1>1, <1>2, <2>1, ElementsAre, EmptyRow DEF RowKinds
  <2>4. Promised!After(Elements, call') = Elements /\ Promised!Answer(Elements, call') = <<>>
    BY <1>1, <2>3, TakesFront
  <2> QED BY <1>1, <2>1, <2>2, <2>3, <2>4, KeptBy
<1>4. CASE ~isEmpty
  <2>1. PICK u, b : u = Up(array.front) /\ b = [array EXCEPT !.front = Up(@), !.size = @ - 1]
    OBVIOUS
  <2>2. n # 0 /\ array' = Taken(b)
    BY <1>4, <2>1 DEF deleteFront, DequeDid, isEmpty
  <2>3. /\ IsArray(b) /\ b.front = u /\ b.rear = array.rear /\ b.size = n - 1 /\ b.capacity = C
        /\ b.items = f
    BY <1>2, <2>1 DEF IsArray
  <2>4. /\ IsArray(array') /\ array'.front = (IF n - 1 = 0 THEN -1 ELSE u)
        /\ array'.rear = (IF n - 1 = 0 THEN -1 ELSE array.rear)
        /\ array'.size = n - 1 /\ array'.capacity = C /\ array'.items = f
    BY <2>2, <2>3 DEF Taken, IsArray
  <2>5. u = (h + 1) % C /\ u \in 0..(C - 1)
    BY <2>1, DequeIndices DEF Up
  <2>6. Inv'
    <3>1. n - 1 \in 0..C /\ (n - 1 > 0 => array'.front # -1)
      BY <1>2, <2>2, <2>4, <2>5
    <3>2. array'.front \in -1..(C - 1) /\ array'.rear \in -1..(C - 1)
      BY <1>2, <2>4, <2>5
    <3> QED BY <1>1, <1>2, <2>4, <3>1, <3>2, DequeStays
  <2>7. Kept
    <3>1. CASE rearUsed
      BY <1>1, <3>1, KeptVaguely, VagueIs
    <3>2. CASE ~rearUsed
      <4>1. PICK s : s = Row(f, h, n, C)
        OBVIOUS
      <4>2. s # <<>> /\ Head(s) = f[h] /\ Row(f, u, n - 1, C) = Tail(s)
        BY <1>2, <2>2, <2>5, <3>2, <4>1, RowWithoutFirst
      <4>3. Elements = s /\ Elements' = Tail(s)
        <5>1. Elements' = Row(array'.items, array'.front, array'.size, array'.capacity)
          BY <1>1, ElementsAre DEF RowKinds
        <5>2. CASE n - 1 = 0
          <6>1. Row(f, u, 0, C) = <<>> /\ Row(f, -1, 0, C) = <<>>
            BY EmptyRow
          <6> QED BY <1>2, <2>4, <4>1, <4>2, <5>1, <5>2, <6>1
        <5>3. CASE n - 1 # 0
          BY <1>2, <2>4, <4>1, <4>2, <5>1, <5>3
        <5> QED BY <5>2, <5>3
      <4>4. Promised!After(s, call') = Tail(s) /\ Promised!Answer(s, call') = call'.answer
        BY <1>1, <2>2, <4>2, TakesFront
      <4> QED BY <1>1, <2>4, <4>3, <4>4, KeptBy
    <3> QED BY <1>2, <3>1, <3>2
  <2> QED BY <2>6, <2>7
<1> QED BY <1>3, <1>4

\* The rear promises nothing, but its indices stay inside.
LEMMA DequeRear ==
    ASSUME Inv, kind = "deque.c",
           (\E v \in Value : insertRear(v)) \/ deleteRear \/ getRear
    PROVE  Inv' /\ Kept
<1> DEFINE C == array.capacity
           n == array.size
           f == array.items
<1>1. /\ C \in Nat \ {0} /\ n \in 0..C /\ f \in [0..(C - 1) -> Cell] /\ IsArray(array)
      /\ array.front \in -1..(C - 1) /\ array.rear \in -1..(C - 1) /\ rearUsed \in BOOLEAN
      /\ ~rearUsed /\ n > 0 => array.front # -1
  <2>1. ~rearUsed /\ n > 0 => array.front # -1
    BY DEF Inv, FrontInside
  <2> QED BY <2>1, DequeFacts
<1>2. ASSUME NEW v \in Value, insertRear(v) PROVE Inv' /\ Kept
  <2>1. kind' = kind /\ rearUsed' = TRUE /\ IsCall(call') /\ call'.op = "push_back"
    BY <1>2 DEF insertRear, DequeDid, IsCall
  <2>2. Kept
    BY <2>1, KeptVaguely, VagueIs
  <2>3. CASE isFull
    <3>1. array' = array
      BY <1>2, <2>3 DEF insertRear, DequeDid
    <3> QED BY <1>1, <2>1, <2>2, <3>1, DequeStays
  <2>4. CASE ~isFull
    <3>1. array' = [array EXCEPT !.items[array.rear] = v, !.rear = Up(@),
                          !.front = IF isEmpty THEN Up(array.rear) ELSE @, !.size = @ + 1]
      BY <1>2, <2>4 DEF insertRear, DequeDid
    <3>2. /\ IsArray(array') /\ array'.size = n + 1 /\ array'.capacity = C
          /\ array'.rear = Up(array.rear)
          /\ array'.front = IF isEmpty THEN Up(array.rear) ELSE array.front
          /\ array'.items = [f EXCEPT ![array.rear] = v]
      BY <1>1, <3>1 DEF IsArray
    <3>3. Up(array.rear) \in 0..(C - 1) /\ v \in Cell /\ n + 1 \in 0..C
      BY <1>1, <2>4, DequeIndices DEF Cell, isFull
    <3>4. Up(array.rear) \in -1..(C - 1)
      BY <1>1, <3>3
    <3>5. array'.items \in [0..(C - 1) -> Cell]
      BY <1>1, <3>2, <3>3
    <3>6. array'.front \in -1..(C - 1) /\ array'.rear \in -1..(C - 1)
      BY <1>1, <3>2, <3>4
    <3> QED BY <2>1, <2>2, <3>2, <3>3, <3>5, <3>6, DequeStays
  <2> QED BY <2>3, <2>4
<1>3. ASSUME deleteRear PROVE Inv' /\ Kept
  <2>1. kind' = kind /\ rearUsed' = TRUE /\ IsCall(call') /\ call'.op = "pop_back"
    BY <1>3 DEF deleteRear, DequeDid, IsCall
  <2>2. Kept
    BY <2>1, KeptVaguely, VagueIs
  <2>3. CASE isEmpty
    <3>1. array' = array
      BY <1>3, <2>3 DEF deleteRear, DequeDid
    <3> QED BY <1>1, <2>1, <2>2, <3>1, DequeStays
  <2>4. CASE ~isEmpty
    <3>1. PICK u, b : u = Down(array.rear) /\ b = [array EXCEPT !.rear = Down(@), !.size = @ - 1]
      OBVIOUS
    <3>2. n # 0 /\ array' = Taken(b)
      BY <1>3, <2>4, <3>1 DEF deleteRear, DequeDid, isEmpty
    <3>3. /\ IsArray(b) /\ b.front = array.front /\ b.rear = u /\ b.size = n - 1 /\ b.capacity = C
          /\ b.items = f
      BY <1>1, <3>1 DEF IsArray
    <3>4. /\ IsArray(array') /\ array'.front = (IF n - 1 = 0 THEN -1 ELSE array.front)
          /\ array'.rear = (IF n - 1 = 0 THEN -1 ELSE u)
          /\ array'.size = n - 1 /\ array'.capacity = C /\ array'.items = f
      BY <3>2, <3>3 DEF Taken, IsArray
    <3>5. u \in -1..(C - 1) /\ n - 1 \in 0..C
      BY <1>1, <3>1, <3>2, DequeIndices
    <3>6. array'.front \in -1..(C - 1) /\ array'.rear \in -1..(C - 1)
      BY <1>1, <3>4, <3>5
    <3> QED BY <1>1, <2>1, <2>2, <3>4, <3>5, <3>6, DequeStays
  <2> QED BY <2>3, <2>4
<1>4. ASSUME getRear PROVE Inv' /\ Kept
  <2>1. /\ kind' = kind /\ rearUsed' \in BOOLEAN /\ (~rearUsed' => ~rearUsed) /\ IsCall(call')
        /\ call'.op = "get_back" /\ array' = array
    BY <1>1, <1>4 DEF getRear, DequeDid, IsCall
  <2>2. Kept
    BY <2>1, KeptVaguely, VagueIs
  <2> QED BY <1>1, <2>1, <2>2, DequeStays
<1> QED BY <1>2, <1>3, <1>4

LEMMA DequeSteps ==
    ASSUME Inv, kind = "deque.c", DequeNext
    PROVE  Inv' /\ Kept
<1>1. ASSUME getFront PROVE Inv' /\ Kept
  <2> DEFINE C == array.capacity
             n == array.size
             f == array.items
             h == array.front
  <2>1. /\ kind' = kind /\ rearUsed' = rearUsed /\ array' = array /\ IsCall(call')
        /\ call'.op = "get_front" /\ call'.answer = IF n = 0 THEN <<>> ELSE <<f[h]>>
    BY <1>1, DequeFacts DEF getFront, DequeDid, Nothing, IsCall, isEmpty
  <2>2. Inv'
    BY <2>1, Looks
  <2>3. Kept
    <3>1. CASE rearUsed
      BY <2>1, <3>1, KeptVaguely, VagueIs
    <3>2. CASE ~rearUsed
      <4>1. Elements' = Elements /\ Elements = Row(f, h, n, C)
        BY <2>1, ElementsAre, DequeFacts DEF RowKinds
      <4>2. Promised!After(Elements, call') = Elements /\ Promised!Answer(Elements, call') = call'.answer
        <5>1. CASE n = 0
          <6>1. Elements = <<>>
            BY <4>1, <5>1, EmptyRow
          <6> QED BY <2>1, <5>1, <6>1, AsksFront
        <5>2. CASE n # 0
          <6>1. Fits(Cell, C, h, n, f)
            BY <3>2, <5>2, DequeFacts
          <6>2. Row(f, h, n, C) # <<>> /\ Head(Row(f, h, n, C)) = f[h]
            BY <5>2, <6>1, RowWithoutFirst
          <6> QED BY <2>1, <4>1, <5>2, <6>2, AsksFront
        <5> QED BY <5>1, <5>2
      <4> QED BY <2>1, <4>1, <4>2, KeptBy
    <3> QED BY <3>1, <3>2, DequeFacts
  <2> QED BY <2>2, <2>3
<1>2. ASSUME insertRearOutside PROVE Inv' /\ Kept
  <2>1. /\ kind' = "crashed" /\ UNCHANGED <<array, rearUsed>> /\ call' = [call EXCEPT !.op = "crash"]
    BY <1>2 DEF insertRearOutside
  <2>2. call'.op = "crash" /\ IsCall(call')
    BY <2>1 DEF Inv, IsCall
  <2>3. Inv'
    BY <2>1, <2>2 DEF Inv, TypeOK, FrontInside, IndicesAgree
  <2> QED BY <2>2, <2>3, KeptVaguely
<1> QED BY <1>1, <1>2, DequeInserts, DequeDeletes, DequeRear DEF DequeNext
-----------------------------------------------------------------------------
(* set.c *)

Members == {array.items[i] : i \in 0..top}

\* What a call of a set does: a full set takes nothing in, and of equal values it holds one.
SetCalls ==
    kind = "set.c" =>
       /\ call'.op = "add" => Members' = IF isFull THEN Members ELSE Members \cup {call'.values[1]}
       /\ call'.op = "discard" => Members' = Members \ {call'.values[1]}
       /\ call'.op = "contains" =>
             /\ Members' = Members
             /\ call'.answer = IF call'.values[1] \in Members THEN <<1>> ELSE <<0>>
       /\ call'.op \in {"add", "discard", "contains"}

LEMMA SetSteps ==
    ASSUME Inv, kind = "set.c", SetNext
    PROVE  Inv' /\ SetCalls
<1> DEFINE C == array.capacity
           n == array.size
           f == array.items
<1>0. /\ C \in Nat \ {0} /\ n \in 0..C /\ f \in [0..(C - 1) -> Cell] /\ IsArray(array)
      /\ top = n - 1
      /\ \A i, j \in 0..(n - 1) : f[i] = f[j] => i = j
      /\ Members = {f[i] : i \in 0..(n - 1)}
  BY ArrayFacts DEF Inv, top, Members, IndicesAgree
<1>1. ASSUME NEW v \in Value, insertToSet(v) PROVE Inv' /\ SetCalls
  <2>1. /\ UNCHANGED <<kind, rearUsed>> /\ IsCall(call') /\ call'.op = "add" /\ call'.values[1] = v
    BY <1>1 DEF insertToSet, Does, Did, IsCall
  <2>2. isInSet(v) <=> v \in Members
    BY <1>0 DEF isInSet
  <2>3. CASE isFull \/ isInSet(v)
    <3>1. array' = array
      BY <1>1, <2>3 DEF insertToSet, Does, Did
    <3>2. Members' = Members
      BY <3>1 DEF Members, top
    <3>3. Members' = IF isFull THEN Members ELSE Members \cup {v}
      BY <2>2, <2>3, <3>2
    <3> QED BY <2>1, <3>1, <3>3, Looks DEF SetCalls
  <2>4. CASE ~isFull /\ ~isInSet(v)
    <3>1. array' = [array EXCEPT !.items[n] = v, !.size = @ + 1]
      <4>1. top + 1 = n
        BY <1>0
      <4> QED BY <1>1, <2>4, <4>1 DEF insertToSet, Does, Did
    <3>2. PICK g : g = array'.items
      OBVIOUS
    <3>3. /\ IsArray(array') /\ array'.front = array.front /\ array'.rear = array.rear
          /\ array'.size = n + 1 /\ array'.capacity = C /\ g = [f EXCEPT ![n] = v]
      BY <1>0, <3>1, <3>2 DEF IsArray
    <3>4. /\ n \in 0..(C - 1) /\ n + 1 \in 0..C /\ (n + 1) - 1 = n /\ v \in Cell
          /\ \A i \in 0..n : i \in 0..(n - 1) \/ i = n
          /\ \A i \in 0..(n - 1) : i \in 0..(C - 1) /\ i # n
      BY <1>0, <2>4 DEF Cell, isFull
    <3>5. /\ g \in [0..(C - 1) -> Cell] /\ g[n] = v
          /\ \A i \in 0..(n - 1) : g[i] = f[i]
      BY <1>0, <3>3, <3>4
    <3>6. \A i \in 0..(n - 1) : f[i] # v
      BY <1>0, <2>2, <2>4
    <3>7. Members' = {g[i] : i \in 0..n} /\ top' = n
      BY <1>0, <3>2, <3>3, <3>4 DEF Members, top
    <3>8. Members' = Members \cup {v}
      <4>1. PICK S : S = {g[i] : i \in 0..n}
        OBVIOUS
      <4>2. PICK R : R = {f[i] : i \in 0..(n - 1)}
        OBVIOUS
      <4>3. ASSUME NEW i \in 0..n PROVE g[i] \in R \cup {v}
        BY <3>4, <3>5, <4>2
      <4>4. ASSUME NEW i \in 0..(n - 1) PROVE i \in 0..n /\ f[i] = g[i]
        BY <1>0, <3>5
      <4>5. n \in 0..n
        BY <1>0
      <4>6. S = R \cup {v}
        BY <3>5, <4>1, <4>2, <4>3, <4>4, <4>5
      <4> QED BY <1>0, <3>7, <4>1, <4>2, <4>6
    <3>9. \A i, j \in 0..n : g[i] = g[j] => i = j
      BY <1>0, <3>4, <3>5, <3>6
    <3>10. Inv'
      <4>1. TypeOK'
        BY <2>1, <3>2, <3>3, <3>4, <3>5 DEF Inv, TypeOK, Cell
      <4>2. IndicesAgree' /\ FrontInside'
        BY <2>1, <3>2, <3>7, <3>9 DEF IndicesAgree, FrontInside
      <4> QED BY <2>1, <3>3, <4>1, <4>2 DEF Inv
    <3> QED BY <2>1, <2>4, <3>8, <3>10 DEF SetCalls
  <2> QED BY <2>3, <2>4
<1>2. ASSUME NEW v \in Value, deleteFromSet(v) PROVE Inv' /\ SetCalls
  <2>1. /\ UNCHANGED <<kind, rearUsed>> /\ IsCall(call') /\ call'.op = "discard" /\ call'.values[1] = v
    BY <1>2 DEF deleteFromSet, Does, Did, IsCall
  <2>2. isInSet(v) <=> v \in Members
    BY <1>0 DEF isInSet
  <2>3. CASE ~isInSet(v)
    <3>1. array' = array
      BY <1>2, <2>3 DEF deleteFromSet, Does, Did
    <3>2. Members' = Members
      BY <3>1 DEF Members, top
    <3>3. Members' = Members \ {v}
      BY <2>2, <2>3, <3>2
    <3> QED BY <2>1, <3>1, <3>3, Looks DEF SetCalls
  <2>4. CASE isInSet(v)
    <3>1. PICK k \in 0..(n - 1) : f[k] = v
      BY <1>0, <2>4 DEF isInSet
    <3>2. Min({j \in 0..top : array.items[j] = v}) = k
      <4>1. {j \in 0..top : array.items[j] = v} = {k}
        BY <1>0, <3>1
      <4>2. Min({k}) = k
        BY <1>0, <3>1 DEF Min
      <4> QED BY <4>1, <4>2
    <3>3. array' = [array EXCEPT !.items[k] = array.items[n - 1], !.size = @ - 1]
      BY <1>0, <1>2, <2>4, <3>2 DEF deleteFromSet, Does, Did
    <3>4. PICK g : g = array'.items
      OBVIOUS
    <3>5. /\ IsArray(array') /\ array'.front = array.front /\ array'.rear = array.rear
          /\ array'.size = n - 1 /\ array'.capacity = C /\ g = [f EXCEPT ![k] = f[n - 1]]
      BY <1>0, <3>3, <3>4 DEF IsArray
    <3>6. /\ n - 1 \in 0..(n - 1) /\ n - 1 \in 0..(C - 1) /\ n - 1 \in 0..C /\ k \in 0..(C - 1)
          /\ \A i \in 0..(n - 1) : i \in 0..(C - 1) /\ (i \in 0..(n - 2) \/ i = n - 1)
          /\ \A i \in 0..(n - 2) : i \in 0..(n - 1) /\ i # n - 1
          /\ (n - 1) - 1 = n - 2
      BY <1>0, <3>1
    <3>7. /\ g \in [0..(C - 1) -> Cell] /\ g[k] = f[n - 1]
          /\ \A i \in 0..(n - 1) : i # k => g[i] = f[i]
      BY <1>0, <3>5, <3>6
    <3>8. Members' = {g[i] : i \in 0..(n - 2)} /\ top' = n - 2
      BY <1>0, <3>4, <3>5, <3>6 DEF Members, top
    <3>9. Members' = Members \ {v}
      <4>1. ASSUME NEW i \in 0..(n - 2) PROVE g[i] \in Members \ {v}
        <5>1. CASE i = k
          BY <1>0, <3>1, <3>6, <3>7, <4>1, <5>1
        <5>2. CASE i # k
          BY <1>0, <3>1, <3>6, <3>7, <4>1, <5>2
        <5> QED BY <5>1, <5>2
      <4>2. ASSUME NEW i \in 0..(n - 1), f[i] # v PROVE \E j \in 0..(n - 2) : g[j] = f[i]
        <5>1. i # k
          BY <3>1, <4>2
        <5>2. CASE i = n - 1
          <6>1. k \in 0..(n - 2)
            BY <3>1, <3>6, <5>1, <5>2
          <6> QED BY <3>7, <5>2, <6>1
        <5>3. CASE i # n - 1
          <6>1. i \in 0..(n - 2)
            BY <3>6, <5>3
          <6> QED BY <3>7, <5>1, <6>1
        <5> QED BY <5>2, <5>3
      <4>3. PICK S : S = {g[i] : i \in 0..(n - 2)}
        OBVIOUS
      <4>4. PICK R : R = {f[i] : i \in 0..(n - 1)}
        OBVIOUS
      <4>5. \A i \in 0..(n - 2) : g[i] \in R \ {v}
        BY <1>0, <4>1, <4>4
      <4>6. \A x \in R \ {v} : \E i \in 0..(n - 1) : f[i] = x /\ f[i] # v
        BY <4>4
      <4>7. S = R \ {v}
        BY <4>2, <4>3, <4>5, <4>6
      <4> QED BY <1>0, <3>8, <4>3, <4>4, <4>7
    <3>10. \A i, j \in 0..(n - 2) : g[i] = g[j] => i = j
      <4> SUFFICES ASSUME NEW i \in 0..(n - 2), NEW j \in 0..(n - 2), g[i] = g[j] PROVE i = j
        OBVIOUS
      <4>1. i \in 0..(n - 1) /\ j \in 0..(n - 1) /\ i # n - 1 /\ j # n - 1 /\ n - 1 \in 0..(n - 1)
        BY <3>6
      <4>2. g[i] = (IF i = k THEN f[n - 1] ELSE f[i]) /\ g[j] = (IF j = k THEN f[n - 1] ELSE f[j])
        BY <3>7, <4>1
      <4> QED BY <1>0, <4>1, <4>2
    <3>11. Inv'
      <4>1. TypeOK'
        BY <2>1, <3>4, <3>5, <3>6, <3>7 DEF Inv, TypeOK, Cell
      <4>2. IndicesAgree' /\ FrontInside'
        BY <2>1, <3>4, <3>8, <3>10 DEF IndicesAgree, FrontInside
      <4> QED BY <2>1, <3>5, <4>1, <4>2 DEF Inv
    <3> QED BY <2>1, <3>9, <3>11 DEF SetCalls
  <2> QED BY <2>3, <2>4
<1>3. ASSUME NEW v \in Value, askSet(v) PROVE Inv' /\ SetCalls
  <2>1. /\ UNCHANGED <<kind, rearUsed, array>> /\ IsCall(call') /\ call'.op = "contains"
        /\ call'.values[1] = v /\ call'.answer = IF isInSet(v) THEN <<1>> ELSE <<0>>
    BY <1>3 DEF askSet, Asked, Did, IsCall
  <2>2. (isInSet(v) <=> v \in Members) /\ Members' = Members
    BY <1>0, <2>1 DEF isInSet, Members, top
  <2> QED BY <2>1, <2>2, Looks DEF SetCalls
<1> QED BY <1>1, <1>2, <1>3 DEF SetNext
-----------------------------------------------------------------------------
(* The containers. *)

LEMMA InvInitially == ASSUME Capacities, Init PROVE Inv
<1>0. MaxCapacity \in Nat /\ Capacity \in Nat \ {0} /\ Capacity \in 1..MaxCapacity
  BY DEF Capacities
<1>1. /\ kind \in ArrayKinds /\ rearUsed = FALSE /\ IsCall(call)
  BY DEF Init, IsCall
<1>2. /\ kind = "queue.c" => array = createQueue
      /\ kind = "deque.c" => array = createDeque
      /\ kind = "stack.c" => array = createStack
      /\ kind = "set.c" => array = initializeSet
      /\ kind = "ringbuffer.c" => array = initialize
  BY Zenon DEF Init
<1>3. /\ Cells(Capacity) \in [0..(Capacity - 1) -> Cell]
      /\ [i \in 0..(Capacity - 1) |-> -1] \in [0..(Capacity - 1) -> Cell]
  BY DEF Cells, Cell
<1>4. /\ IsArray(array) /\ array.capacity = Capacity /\ array.size = 0
      /\ array.front \in -1..(Capacity - 1) /\ array.rear \in -1..(Capacity - 1)
      /\ array.items \in [0..(Capacity - 1) -> Cell]
      /\ kind \in Rings => array.front = 0
      /\ kind = "queue.c" => array.rear = Capacity - 1
      /\ kind = "ringbuffer.c" => array.rear = 0
  <2>1. CASE kind = "queue.c"
    BY <1>0, <1>2, <1>3, <2>1 DEF createQueue, IsArray
  <2>2. CASE kind = "deque.c"
    BY <1>0, <1>2, <1>3, <2>2 DEF createDeque, IsArray, Rings
  <2>3. CASE kind = "stack.c"
    BY <1>0, <1>2, <1>3, <2>3 DEF createStack, IsArray, Rings
  <2>4. CASE kind = "set.c"
    BY <1>0, <1>2, <1>3, <2>4 DEF initializeSet, IsArray, Rings
  <2>5. CASE kind = "ringbuffer.c"
    BY <1>0, <1>2, <1>3, <2>5 DEF initialize, IsArray
  <2> QED BY <1>1, <2>1, <2>2, <2>3, <2>4, <2>5 DEF ArrayKinds
<1>5. TypeOK
  <2>1. array.size \in 0..array.capacity /\ array.capacity \in 1..MaxCapacity
    BY <1>0, <1>4
  <2>2. rearUsed \in BOOLEAN
    BY <1>1
  <2> QED BY <1>4, <2>1, <2>2 DEF TypeOK, Cell
<1>6. FrontInside
  BY <1>4 DEF FrontInside, Rings
<1>7. IndicesAgree
  <2>1. kind = "queue.c" => array.rear = (array.front + array.size - 1) % array.capacity
    <3>1. (0 + 0 - 1) % Capacity = Capacity - 1
      <4>1. PICK a \in Int : a = 0 + 0 - 1
        OBVIOUS
      <4>2. Capacity \in Nat \ {0} /\ 0 <= a + Capacity /\ a < Capacity + Capacity
        BY <1>0, <4>1
      <4>3. a % Capacity = IF a < 0 THEN a + Capacity ELSE IF a < Capacity THEN a ELSE a - Capacity
        BY <4>2, Wraps
      <4> QED BY <1>0, <4>1, <4>3
    <3> QED BY <1>4, <3>1 DEF Rings
  <2>2. kind = "ringbuffer.c" => array.rear = (array.front + array.size) % array.capacity
    <3>1. (0 + 0) % Capacity = 0
      BY <1>0
    <3> QED BY <1>4, <3>1 DEF Rings
  <2>3. \A i, j \in 0..top : FALSE
    BY <1>4 DEF top
  <2> QED BY <2>1, <2>2, <2>3 DEF IndicesAgree
<1> QED BY <1>1, <1>4, <1>5, <1>6, <1>7 DEF Inv

LEMMA InvStep ==
    ASSUME Capacities, Inv, [ArrayNext]_vars
    PROVE  /\ Inv' /\ (kind' = "set.c" => kind = "set.c")
           /\ kind # "set.c" => Kept \/ UNCHANGED vars
           /\ SetCalls \/ UNCHANGED vars
<1>1. CASE UNCHANGED vars
  <2>1. UNCHANGED <<kind, rearUsed, array>> /\ IsCall(call')
    BY <1>1 DEF vars, Inv
  <2> QED BY <1>1, <2>1, Looks
<1>2. CASE ArrayNext
  <2>1. kind' = "set.c" => kind = "set.c"
    BY <1>2 DEF ArrayNext, QueueNext, StackNext, DequeNext, RingNext, Does, Did, Asked, DequeDid, dequeue, front, enqueue, pop, peek, push, deleteFront, deleteRear, getFront, getRear, insertRearOutside, insertFront, insertRear, ringBufferRemove, flush, insert, search, modifyData, resizeRingBuffer
  <2>2. CASE kind = "set.c"
    BY <1>2, <2>2, SetSteps DEF ArrayNext
  <2>3. CASE kind # "set.c"
    <3>1. Inv' /\ Kept
      BY <1>2, <2>3, QueueSteps, StackSteps, DequeSteps, RingSteps DEF ArrayNext
    <3> QED BY <2>1, <2>3, <3>1 DEF SetCalls
  <2> QED BY <2>1, <2>2, <2>3
<1> QED BY <1>1, <1>2

LEMMA InvAlways == ASSUME Capacities PROVE Spec => []Inv
<1>1. Init => Inv
  BY InvInitially
<1>2. Inv /\ [ArrayNext]_vars => Inv'
  BY InvStep
<1> QED BY <1>1, <1>2, PTL DEF Spec

\* The front, the rear and the counter of the circular queue and of the ring agree at every
\* moment, and no index leaves its array, for any capacity, any values and any calls; a set
\* holds no value twice.
THEOREM ArraysStaySound == ASSUME Capacities PROVE Spec => [](TypeOK /\ IndicesAgree)
<1>1. Inv => TypeOK /\ IndicesAgree
  BY DEF Inv
<1> QED BY <1>1, InvAlways, PTL

\* queue.c, stack.c, ringbuffer.c and the front of deque.c do to the values they hold, and
\* answer, what the calls do to a sequence: around the end of the array, when full and when
\* empty, and through every resize, for any capacity and any values.
THEOREM ArraysKeepPromise == ASSUME Capacities PROVE Spec /\ kind # "set.c" => Promised!Spec
<1> DEFINE InOrder == kind # "set.c"
<1>1. Init /\ kind # "set.c" => Promised!Init /\ InOrder
  <2> SUFFICES ASSUME Init, kind # "set.c" PROVE Promised!Init
    OBVIOUS
  <2>1. Inv /\ kind \in ArrayKinds
    BY InvInitially DEF Init
  <2>2. array.size = 0
    <3>1. /\ kind = "queue.c" => array = createQueue
          /\ kind = "deque.c" => array = createDeque
          /\ kind = "stack.c" => array = createStack
          /\ kind = "ringbuffer.c" => array = initialize
      BY Zenon DEF Init
    <3> QED BY <2>1, <3>1 DEF ArrayKinds, createQueue, createDeque, createStack, initialize
  <2>3. Elements = <<>>
    <3>1. CASE kind = "stack.c"
      <4>1. Elements = StackRow(array.items, 0)
        BY <2>2, <3>1, ElementsAre
      <4> QED BY <4>1 DEF StackRow
    <3>2. CASE kind # "stack.c"
      <4>1. kind \in RowKinds
        BY <2>1, <3>2 DEF ArrayKinds, RowKinds
      <4>2. Elements = Row(array.items, array.front, array.size, array.capacity)
        BY <4>1, ElementsAre
      <4> QED BY <2>2, <4>2, EmptyRow
    <3> QED BY <3>1, <3>2
  <2>4. call = Promised!NoCall
    BY DEF Init, Promised!NoCall, Promised!Nothing, Nothing
  <2>5. \A k \in DOMAIN <<>> : <<>>[k] = <<>>
    OBVIOUS
  <2> QED BY <2>3, <2>4, <2>5 DEF Promised!Init
<1>2. Inv /\ InOrder /\ [ArrayNext]_vars =>
         /\ InOrder'
         /\ [Promised!Next /\ Promised!TableNext]_<<Elements, array.capacity, <<>>, 0, call, Vague \cup {"crash"}>>
  <2> SUFFICES ASSUME Inv, kind # "set.c", [ArrayNext]_vars
               PROVE  /\ kind' # "set.c"
                      /\ [Promised!Next /\ Promised!TableNext]_<<Elements, array.capacity, <<>>, 0, call, Vague \cup {"crash"}>>
    OBVIOUS
  <2>1. kind' # "set.c" /\ (Kept \/ UNCHANGED vars)
    BY InvStep
  <2>2. CASE Kept
    BY <2>1, <2>2 DEF Kept
  <2>3. CASE UNCHANGED vars
    <3>1. UNCHANGED <<kind, array, rearUsed, call>>
      BY <2>3 DEF vars
    <3>2. Elements' = Elements /\ Vague' = Vague /\ (array.capacity)' = array.capacity
      BY <3>1, Zenon DEF Elements, Vague, top
    <3> QED BY <2>1, <3>1, <3>2
  <2> QED BY <2>1, <2>2, <2>3
<1> HIDE DEF InOrder
<1> QED BY <1>1, <1>2, InvAlways, PTL DEF Spec, Promised!Spec

\* set.c is the set of the values put in and not taken out: a member is added once, leaves
\* with its deletion although the last one moves into its slot, and is found while it is
\* there; only a full set takes nothing in.
THEOREM SetKeepsMembers == ASSUME Capacities PROVE Spec => [][SetCalls]_vars
<1>1. Inv /\ [ArrayNext]_vars => [SetCalls]_vars
  BY InvStep
<1> QED BY <1>1, InvAlways, PTL DEF Spec
=============================================================================
