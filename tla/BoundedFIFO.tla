----------------------------- MODULE BoundedFIFO -----------------------------
(***************************************************************************)
(* What a bounded queue promises, whatever it is made of: it holds at most *)
(* Bound items, and delivers each accepted item once and in the order of   *)
(* acceptance.                                                             *)
(***************************************************************************)
EXTENDS Naturals, Sequences

CONSTANTS Item, Bound

VARIABLES items,      \* the accepted items not yet delivered, oldest first
          delivered   \* every item delivered so far, in order

Init == items = <<>> /\ delivered = <<>>

Put(x) == /\ Len(items) < Bound
          /\ items' = Append(items, x)
          /\ UNCHANGED delivered

Get == /\ items # <<>>
       /\ delivered' = Append(delivered, Head(items))
       /\ items' = Tail(items)

Next == Get \/ \E x \in Item : Put(x)

Spec == Init /\ [][Next]_<<items, delivered>>
=============================================================================
