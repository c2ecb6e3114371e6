-------------------------------- MODULE Deque --------------------------------
(***************************************************************************)
(* What a ring buffer promises: elements leave at either end, in the order *)
(* they were added at one, and an addition that fails changes nothing.     *)
(***************************************************************************)
EXTENDS Sequences, Integers

CONSTANT Elem

VARIABLES items,   \* oldest first
          result   \* what the last call returned

vars == <<items, result>>

Init == items = << >> /\ result = "none"

Put(e) == items' = Append(items, e) /\ result' = "ok"

PutFails == result' = "failed" /\ UNCHANGED items

Take == /\ items # << >>
        /\ result' = items[1]
        /\ items' = SubSeq(items, 2, Len(items))

TakeW == /\ items # << >>
         /\ result' = items[Len(items)]
         /\ items' = SubSeq(items, 1, Len(items) - 1)

Clear == items' = << >> /\ result' = "none"

Next == (\E e \in Elem : Put(e)) \/ PutFails \/ Take \/ TakeW \/ Clear

Spec == Init /\ [][Next]_vars

=============================================================================
