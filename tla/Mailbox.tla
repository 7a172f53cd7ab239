------------------------------ MODULE Mailbox ------------------------------
(***************************************************************************)
(* What a worker promises: a bounded first-in first-out mailbox.  A sender *)
(* first reserves one of Capacity slots, then enqueues its message; the    *)
(* receiver dequeues the oldest message and gives the slot back when it is *)
(* done with it.  busy counts the slots that are reserved by a sender or   *)
(* still occupied by the receiver.  Module Worker implements this; module  *)
(* Tunnel is built on it.                                                  *)
(***************************************************************************)
EXTENDS Naturals, Sequences

CONSTANTS Message, Capacity

VARIABLES queue, busy

mvars == <<queue, busy>>

Init == queue = <<>> /\ busy = 0

Reserve == Len(queue) + busy < Capacity /\ busy' = busy + 1 /\ UNCHANGED queue

Enqueue == /\ busy > 0
           /\ \E m \in Message : queue' = Append(queue, m)
           /\ busy' = busy - 1

Dequeue == queue # <<>> /\ queue' = Tail(queue) /\ busy' = busy + 1

Release == busy > 0 /\ busy' = busy - 1 /\ UNCHANGED queue

\* The mailbox is torn down: what is queued is dropped.
Drain == busy = 0 /\ queue' = <<>> /\ UNCHANGED busy

Next == Reserve \/ Enqueue \/ Dequeue \/ Release \/ Drain

\* Weak fairness of Dequeue, which is enabled exactly when the queue is not
\* empty, written without ENABLED: the receiver never leaves a message
\* waiting for ever.
Served == []<>(queue = <<>>) \/ []<><<Dequeue>>_mvars

\* Without that promise: what the mailbox may do.
SafeSpec == Init /\ [][Next]_mvars

Spec == SafeSpec /\ Served
=============================================================================
