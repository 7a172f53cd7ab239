----------------------------- MODULE Dictionary -----------------------------
(***************************************************************************)
(* What the hash table promises: a partial function from keys to values.   *)
(***************************************************************************)
CONSTANTS Keys, Values

VARIABLE dict

Init == dict = [k \in {} |-> {}]

Put == \E k \in Keys, v \in Values :
         dict' = [x \in DOMAIN dict \cup {k} |-> IF x = k THEN v ELSE dict[x]]

Delete == \E k \in DOMAIN dict : dict' = [x \in DOMAIN dict \ {k} |-> dict[x]]

Clear == dict' = [k \in {} |-> {}]

Spec == Init /\ [][Put \/ Delete \/ Clear]_dict
=============================================================================
