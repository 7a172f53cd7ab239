--------------------------- MODULE PriorityQueue ---------------------------
(***************************************************************************)
(* What the heap promises: a bounded set of entries from which the one     *)
(* with the least key is taken first.                                      *)
(***************************************************************************)
EXTENDS Naturals, FiniteSets

CONSTANTS Keys, Values, Capacity

VARIABLE q

Entry == [key : Keys, value : Values]

Init == q = {}

Push == /\ Cardinality(q) < Capacity
        /\ \E e \in Entry : (\A f \in q : f.value # e.value) /\ q' = q \cup {e}

Pop == \E e \in q : (\A f \in q : e.key <= f.key) /\ q' = q \ {e}

Spec == Init /\ [][Push \/ Pop]_q
=============================================================================
