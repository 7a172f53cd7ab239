-------------------------------- MODULE Heap --------------------------------
(***************************************************************************)
(* The array heap of utils/heap.c, which keeps a dispatcher's timers by    *)
(* deadline.  heap[n] is the code's buffer[n - 1], so the children of n    *)
(* are 2n and 2n + 1 and its parent is n \div 2.                           *)
(*                                                                         *)
(* heap_push and heap_pop end with a loop, shift_up or shift_down, of      *)
(* which one action is one iteration.  A heap belongs to one thread: while *)
(* the loop runs nothing else is done with it.                             *)
(***************************************************************************)
EXTENDS Integers, Sequences, SequencesExt

CONSTANTS HeapKeys, HeapValues, HeapCapacity

ASSUME HeapAssumption == HeapKeys \subseteq Int /\ HeapCapacity \in Nat

VARIABLES heap,
          shifting,  \* the loop that runs: "up", "down" or "no"
          node       \* the loop's n, 0 when none runs

heapVars == <<heap, shifting, node>>

swap(h, n, m) == [h EXCEPT ![n] = h[m], ![m] = h[n]]

HeapInit == heap = <<>> /\ shifting = "no" /\ node = 0

\* Exchange the entry at node with the one at m, and go on from there.
ShiftTo(m) == heap' = swap(heap, node, m) /\ node' = m /\ UNCHANGED shifting

ShiftEnds == shifting' = "no" /\ node' = 0 /\ UNCHANGED heap

\* Mutant: the right child is not looked at.
minChildLeft == 2 * node

\* The child with the lesser key, the left one if they are equal.
minChild ==
  IF 2 * node + 1 <= Len(heap) /\ heap[2 * node + 1].key < heap[2 * node].key
  THEN 2 * node + 1 ELSE 2 * node

shift_down ==
  /\ shifting = "down"
  /\ IF 2 * node > Len(heap) \/ heap[node].key <= heap[minChild].key
     THEN ShiftEnds ELSE ShiftTo(minChild)

shift_up ==
  /\ shifting = "up"
  /\ IF node = 1 \/ heap[node \div 2].key <= heap[node].key
     THEN ShiftEnds ELSE ShiftTo(node \div 2)

\* heap_push; a full heap refuses the entry.
heap_push(key, value) ==
  /\ shifting = "no"
  /\ Len(heap) < HeapCapacity
  /\ heap' = Append(heap, [key |-> key, value |-> value])
  /\ shifting' = "up" /\ node' = Len(heap) + 1

\* heap_pop: the last entry moves to the top and sinks.
heap_pop ==
  /\ shifting = "no"
  /\ heap # <<>>
  /\ heap' = Front([heap EXCEPT ![1] = Last(heap)])
  /\ shifting' = "down" /\ node' = 1

UnusedValues == {v \in HeapValues : \A e \in ToSet(heap) : e.value # v}

HeapNext ==
  \/ heap_pop \/ \E key \in HeapKeys, value \in UnusedValues : heap_push(key, value)
  \/ shift_up \/ shift_down

HeapSpec == HeapInit /\ [][HeapNext]_heapVars
-----------------------------------------------------------------------------
(* Properties. *)

InOrder(n) == heap[n \div 2].key <= heap[n].key

\* Between two operations no entry has a lesser key than its parent, so that
\* heap_head returns an entry with the least key.
HeapOrder == shifting = "no" => \A n \in 2..Len(heap) : InOrder(n)

Timers == INSTANCE PriorityQueue WITH
            q <- ToSet(heap), Keys <- HeapKeys, Values <- HeapValues, Capacity <- HeapCapacity

\* heap.c implements a priority queue: pushing adds the entry and loses none,
\* popping removes an entry with the least key and no other.
ImplementsPriorityQueue == Timers!Spec
-----------------------------------------------------------------------------
(* What the properties need in order to be inductive. *)

HeapTypeOK ==
  /\ heap \in Seq([key : HeapKeys, value : HeapValues])
  /\ shifting \in {"no", "up", "down"}
  /\ shifting = "up" => node \in 1..Len(heap)
  /\ shifting = "down" => node \in Nat \ {0} /\ (node = 1 \/ node <= Len(heap))

\* While a loop runs, only the entry at node may be out of order, with its
\* parent or with its children; its parent and its children are in order.
AlmostOrdered ==
  /\ shifting = "up" => \A n \in 2..Len(heap) : n # node => InOrder(n)
  /\ shifting = "down" => \A n \in 2..Len(heap) : n \div 2 # node => InOrder(n)
  /\ shifting # "no" => \A n \in 2..Len(heap) :
       n \div 2 = node /\ node > 1 => heap[node \div 2].key <= heap[n].key

ValuesDiffer == \A i, j \in DOMAIN heap : heap[i].value = heap[j].value => i = j

HeapInv == HeapTypeOK /\ AlmostOrdered /\ ValuesDiffer /\ HeapOrder
=============================================================================
