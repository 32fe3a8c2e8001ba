-------------------------------- MODULE LIFO ---------------------------------
(***************************************************************************)
(* What a stack promises, whatever it is made of: a pop answers with the   *)
(* value pushed last among those still there, and fails only on an empty   *)
(* stack.                                                                  *)
(***************************************************************************)
EXTENDS Sequences

CONSTANTS Value, Nothing

VARIABLES stack,    \* the values pushed and not yet popped, the last one first
          answer    \* what the latest pop answered

Init == stack = <<>> /\ answer = Nothing

Push(v) == /\ stack' = <<v>> \o stack
           /\ UNCHANGED answer

Pop == /\ stack # <<>>
       /\ answer' = Head(stack)
       /\ stack' = Tail(stack)

PopFails == /\ stack = <<>>
            /\ answer' = Nothing
            /\ UNCHANGED stack

Next == Pop \/ PopFails \/ \E v \in Value : Push(v)

Spec == Init /\ [][Next]_<<stack, answer>>
=============================================================================
