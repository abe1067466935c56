----------------------------- MODULE ValueStack -----------------------------
(***************************************************************************)
(* The stack of values that crt_vstack.h promises, topmost value first.     *)
(***************************************************************************)
EXTENDS Sequences

CONSTANT Item

VARIABLE items

Init == items = <<>>

Push(item) == items' = <<item>> \o items

Pop == items # <<>> /\ items' = Tail(items)

Next == Pop \/ \E item \in Item : Push(item)

Spec == Init /\ [][Next]_items
=============================================================================
