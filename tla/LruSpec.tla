------------------------------ MODULE LruSpec ------------------------------
(***************************************************************************)
(* What an lrumap promises, in terms of the operators of module Lru that   *)
(* the users of the map are modelled with: a bounded map whose keys are    *)
(* kept in the order of their last use.  value[k] is the value of key k.   *)
(***************************************************************************)
EXTENDS Lru, Naturals

CONSTANTS Keys, Values, Capacity

VARIABLES order, value

lvars == <<order, value>>

Init == order = <<>> /\ value = <<>>

Put == \E k \in Keys \ LruKeys(order), v \in Values :
         /\ Len(order) < Capacity
         /\ order' = LruPut(order, k)
         /\ value' = [x \in LruKeys(order) \cup {k} |-> IF x = k THEN v ELSE value[x]]

Get == \E k \in LruKeys(order) : order' = LruGet(order, k) /\ UNCHANGED value

Delete == \E k \in LruKeys(order) :
            /\ order' = LruRemove(order, k)
            /\ value' = [x \in LruKeys(order) \ {k} |-> value[x]]

MakeEldest == \E k \in LruKeys(order) :
                order' = Append(LruRemove(order, k), k) /\ UNCHANGED value

Spec == Init /\ [][Put \/ Get \/ Delete \/ MakeEldest]_lvars
=============================================================================
