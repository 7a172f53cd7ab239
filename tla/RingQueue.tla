----------------------------- MODULE RingQueue -----------------------------
(***************************************************************************)
(* The ring buffer of utils/queue.c, which every mailbox and every buffer  *)
(* pool is made of.  conqueue.c runs each operation under one mutex, so an *)
(* operation is one step.  The array has one entry more than the queue     *)
(* holds values: head = tail means empty.                                  *)
(***************************************************************************)
EXTENDS Naturals, Sequences

CONSTANTS QueueValues,   \* what is queued
          QueueCapacity, \* the capacity of the queue
          NULL           \* what new entries hold

ASSUME RingAssumption == QueueCapacity \in Nat /\ NULL \notin QueueValues

VARIABLES entries, head, tail,
          result    \* the value popped last

queueVars == <<entries, head, tail, result>>

entry_num == QueueCapacity + 1

NEXT(p) == (p + 1) % entry_num

\* Mutant: the difference is not taken modulo the size of the array.
queue_size_unwrapped == IF tail >= head THEN tail - head ELSE 0

queue_size == (entry_num + tail - head) % entry_num

QueueInit ==
  /\ entries = [i \in 0..QueueCapacity |-> NULL]
  /\ result = NULL
  /\ head = 0
  /\ tail = 0

\* queue_push; a full queue returns false.
queue_push(v) ==
  /\ queue_size < QueueCapacity
  /\ entries' = [entries EXCEPT ![tail] = v]
  /\ tail' = NEXT(tail)
  /\ UNCHANGED <<head, result>>

\* queue_pop; an empty queue returns false.
queue_pop ==
  /\ queue_size # 0
  /\ result' = entries[head]
  /\ head' = NEXT(head)
  /\ UNCHANGED <<entries, tail>>

QueueNext == queue_pop \/ \E v \in QueueValues : queue_push(v)

QueueSpec == QueueInit /\ [][QueueNext]_queueVars
-----------------------------------------------------------------------------
(* Properties. *)

\* The queued values, oldest first.
items == [i \in 1..queue_size |-> entries[(head + i - 1) % entry_num]]

Fifo == INSTANCE BoundedQueue WITH Values <- QueueValues, Capacity <- QueueCapacity

\* queue.c implements a bounded first-in first-out queue, across any number
\* of wrap-arounds: no value is lost, repeated or overwritten, and a full
\* queue is never taken for an empty one.
ImplementsQueue == Fifo!Spec
=============================================================================
