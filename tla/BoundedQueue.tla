---------------------------- MODULE BoundedQueue ----------------------------
(***************************************************************************)
(* What the ring buffer promises: a first-in first-out queue that holds up *)
(* to Capacity values.  result is the value popped last.                   *)
(***************************************************************************)
EXTENDS Naturals, Sequences

CONSTANTS Values, Capacity, NULL

VARIABLES items, result

qvars == <<items, result>>

Init == items = <<>> /\ result = NULL

Push == /\ Len(items) < Capacity
        /\ \E v \in Values : items' = Append(items, v)
        /\ UNCHANGED result

Pop == items # <<>> /\ items' = Tail(items) /\ result' = Head(items)

Next == Push \/ Pop

Spec == Init /\ [][Next]_qvars
=============================================================================
