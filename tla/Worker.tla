------------------------------- MODULE Worker -------------------------------
(***************************************************************************)
(* A worker (dispatcher/worker.c): a bounded mailbox between any number of *)
(* threads that call worker_send and the one thread whose dispatcher runs  *)
(* the worker's callback.  It is made of                                   *)
(*                                                                         *)
(*   pool  the message_t slots that are free (dispatcher/pool.c),          *)
(*   mq    the slots that are queued (utils/conqueue.c),                   *)
(*   efd   the eventfd counter that makes the callback run.                *)
(*                                                                         *)
(* Every step below is one critical section or one system call, so the     *)
(* steps of senders and of the consumer interleave exactly where the code  *)
(* lets them.  "aborted" records that an ensure() of the code failed.      *)
(*                                                                         *)
(* A message is <<p, n>>, the n-th message that sender p tries to send.    *)
(* freed and refused record who disposed of it: freed holds the messages   *)
(* on which the worker called msg->free, refused the ones that worker_send *)
(* gave back to the caller by returning false.                             *)
(***************************************************************************)
EXTENDS Naturals, Sequences, FiniteSets

CONSTANTS Producers,  \* the threads that call worker_send
          Slots,      \* the message_t buffers of the worker's pool
          NoSlot,     \* a NULL message_t pointer
          MaxSends    \* bound: how often each producer calls worker_send

ASSUME ProducersFinite == IsFiniteSet(Producers)
ASSUME SlotsFinite == IsFiniteSet(Slots)
ASSUME NoSlotIsNoSlot == NoSlot \notin Slots
ASSUME MaxSendsIsNat == MaxSends \in Nat

VARIABLES pool,     \* free slots
          mq,       \* queued slots, oldest first
          msg,      \* msg[s] is the data pointer stored in slot s
          efd,      \* the eventfd counter
          pc,       \* where each producer is in worker_send
          held,     \* the slot a producer has taken and not queued yet
          sends,    \* calls of worker_send so far, per producer
          cpc,      \* where the consumer is in callback
          num,      \* iterations the consumer's loop still has to start
          cur,      \* the slot the consumer is working on
          handled,  \* messages passed to on_message, oldest first
          freed,    \* messages whose data the worker has freed
          refused,  \* messages worker_send returned false for
          alive,    \* worker_destroy has not run
          aborted   \* an ensure() failed

senderVars   == <<pc, held, sends, refused>>
consumerVars == <<cpc, num, cur, handled, freed>>
vars == <<pool, mq, msg, efd, alive, aborted, senderVars, consumerVars>>

\* mq_capacity: the capacity of the queue and of the pool alike.
Capacity == Cardinality(Slots)

Message == Producers \X (1..MaxSends)

\* What m->data holds before the slot is first used.
NoMsg == <<>>

Busy == {"handle", "freedata", "freeslot"}

(***************************************************************************)
(* worker_init: every slot is in the pool, the queue and the eventfd are   *)
(* empty, and nobody is inside a call.                                     *)
(***************************************************************************)
Init ==
  /\ pool = Slots
  /\ mq = <<>>
  /\ msg = [s \in Slots |-> NoMsg]
  /\ efd = 0
  /\ pc = [p \in Producers |-> "idle"]
  /\ held = [p \in Producers |-> NoSlot]
  /\ sends = [p \in Producers |-> 0]
  /\ cpc = "wait"
  /\ num = 0
  /\ cur = NoSlot
  /\ handled = <<>>
  /\ freed = {}
  /\ refused = {}
  /\ alive = TRUE
  /\ aborted = FALSE

-----------------------------------------------------------------------------
(* worker_send, one action per step. *)

NextMsg(p) == <<p, sends[p] + 1>>

\* Mutant: the slot stays in the pool.
PoolNewKeepsSlot(p) ==
  /\ alive /\ pc[p] = "idle" /\ sends[p] < MaxSends
  /\ \E s \in pool :
       /\ held' = [held EXCEPT ![p] = s]
       /\ msg' = [msg EXCEPT ![s] = NextMsg(p)]
  /\ sends' = [sends EXCEPT ![p] = @ + 1]
  /\ pc' = [pc EXCEPT ![p] = "push"]
  /\ UNCHANGED <<pool, mq, efd, refused, alive, aborted, consumerVars>>

\* pool_new succeeds; the slot is filled before anyone else can see it.
\* The pool hands out its oldest slot.  Which one that is makes no
\* difference to anything below, so any free slot may be taken.
PoolNew(p) ==
  /\ alive /\ pc[p] = "idle" /\ sends[p] < MaxSends
  /\ \E s \in pool :
       /\ pool' = pool \ {s}
       /\ held' = [held EXCEPT ![p] = s]
       /\ msg' = [msg EXCEPT ![s] = NextMsg(p)]
  /\ sends' = [sends EXCEPT ![p] = @ + 1]
  /\ pc' = [pc EXCEPT ![p] = "push"]
  /\ UNCHANGED <<mq, efd, refused, alive, aborted, consumerVars>>

\* pool_new returns NULL: worker_send returns false, the caller keeps its data.
SendRefused(p) ==
  /\ alive /\ pc[p] = "idle" /\ sends[p] < MaxSends
  /\ pool = {}
  /\ refused' = refused \cup {NextMsg(p)}
  /\ sends' = [sends EXCEPT ![p] = @ + 1]
  /\ UNCHANGED <<pool, mq, msg, efd, pc, held, alive, aborted, consumerVars>>

\* ensure(conqueue_push(...)): the queue refuses when it is full.
Push(p) ==
  /\ pc[p] = "push"
  /\ aborted' = (Len(mq) >= Capacity)
  /\ mq' = IF Len(mq) < Capacity THEN Append(mq, held[p]) ELSE mq
  /\ held' = [held EXCEPT ![p] = NoSlot]
  /\ pc' = [pc EXCEPT ![p] = "notify"]
  /\ UNCHANGED <<pool, msg, efd, sends, refused, alive, consumerVars>>

\* Mutant: only the message that finds the queue empty wakes the consumer.
NotifyIfFirst(p) ==
  /\ pc[p] = "notify"
  /\ efd' = IF Len(mq) <= 1 THEN efd + 1 ELSE efd
  /\ pc' = [pc EXCEPT ![p] = "idle"]
  /\ UNCHANGED <<pool, mq, msg, held, sends, refused, alive, aborted, consumerVars>>

\* write(fd, 1): adds one to the eventfd counter; worker_send returns true.
Notify(p) ==
  /\ pc[p] = "notify"
  /\ efd' = efd + 1
  /\ pc' = [pc EXCEPT ![p] = "idle"]
  /\ UNCHANGED <<pool, mq, msg, held, sends, refused, alive, aborted, consumerVars>>

-----------------------------------------------------------------------------
(* callback, run by the dispatcher when the eventfd is readable. *)

\* Mutant: read as if the eventfd were a semaphore, one off the counter.
ReadEventDecrements ==
  /\ alive /\ cpc = "wait" /\ efd > 0
  /\ num' = efd
  /\ efd' = efd - 1
  /\ cpc' = "pop"
  /\ UNCHANGED <<pool, mq, msg, alive, aborted, senderVars, cur, handled, freed>>

\* Mutant: one message per wake-up, whatever the counter says.
ReadEventOnce ==
  /\ alive /\ cpc = "wait" /\ efd > 0
  /\ num' = 1
  /\ efd' = 0
  /\ cpc' = "pop"
  /\ UNCHANGED <<pool, mq, msg, alive, aborted, senderVars, cur, handled, freed>>

\* read(fd, &num): takes the whole counter and resets it to zero.
ReadEvent ==
  /\ alive /\ cpc = "wait" /\ efd > 0
  /\ num' = efd
  /\ efd' = 0
  /\ cpc' = "pop"
  /\ UNCHANGED <<pool, mq, msg, alive, aborted, senderVars, cur, handled, freed>>

\* Mutant: the newest message is taken first.
PopNewest ==
  /\ cpc = "pop"
  /\ aborted' = (mq = <<>>)
  /\ mq' = IF mq = <<>> THEN mq ELSE SubSeq(mq, 1, Len(mq) - 1)
  /\ cur' = IF mq = <<>> THEN NoSlot ELSE mq[Len(mq)]
  /\ num' = num - 1
  /\ cpc' = "handle"
  /\ UNCHANGED <<pool, msg, efd, alive, senderVars, handled, freed>>

\* ensure(conqueue_pop(...)).
Pop ==
  /\ cpc = "pop"
  /\ aborted' = (mq = <<>>)
  /\ mq' = IF mq = <<>> THEN mq ELSE Tail(mq)
  /\ cur' = IF mq = <<>> THEN NoSlot ELSE Head(mq)
  /\ num' = num - 1
  /\ cpc' = "handle"
  /\ UNCHANGED <<pool, msg, efd, alive, senderVars, handled, freed>>

\* worker->on_message(..., msg->data).
OnMessage ==
  /\ cpc = "handle"
  /\ handled' = Append(handled, msg[cur])
  /\ cpc' = "freedata"
  /\ UNCHANGED <<pool, mq, msg, efd, alive, aborted, senderVars, num, cur, freed>>

\* msg->free(msg->data).
FreeData ==
  /\ cpc = "freedata"
  /\ freed' = freed \cup {msg[cur]}
  /\ cpc' = "freeslot"
  /\ UNCHANGED <<pool, mq, msg, efd, alive, aborted, senderVars, num, cur, handled>>

\* Mutant: the loop runs once more than the counter said.
FreeSlotOnceMore ==
  /\ cpc = "freeslot"
  /\ aborted' = (Cardinality(pool) >= Capacity)
  /\ pool' = pool \cup {cur}
  /\ cur' = NoSlot
  /\ cpc' = "pop"
  /\ UNCHANGED <<mq, msg, efd, alive, senderVars, num, handled, freed>>

\* pool_free(msg), whose push must find room in the pool's queue; then the
\* next iteration of the loop, or back to the dispatcher.
FreeSlot ==
  /\ cpc = "freeslot"
  /\ aborted' = (Cardinality(pool) >= Capacity)
  /\ pool' = pool \cup {cur}
  /\ cur' = NoSlot
  /\ cpc' = IF num = 0 THEN "wait" ELSE "pop"
  /\ UNCHANGED <<mq, msg, efd, alive, senderVars, num, handled, freed>>

-----------------------------------------------------------------------------
(***************************************************************************)
(* worker_destroy, called when the dispatcher has stopped and no thread is *)
(* inside worker_send: every queued message is freed unhandled, its slot   *)
(* returns to the pool, and the pool releases its slots.                   *)
(***************************************************************************)
QueuedSlots == {mq[i] : i \in DOMAIN mq}

\* Mutant: the queue is drained without freeing the messages' data.
WorkerDestroyLeaks ==
  /\ alive /\ cpc = "wait" /\ \A p \in Producers : pc[p] = "idle"
  /\ alive' = FALSE
  /\ pool' = pool \cup QueuedSlots
  /\ mq' = <<>>
  /\ UNCHANGED <<msg, efd, aborted, senderVars, consumerVars>>

WorkerDestroy ==
  /\ alive /\ cpc = "wait" /\ \A p \in Producers : pc[p] = "idle"
  /\ alive' = FALSE
  /\ freed' = freed \cup {msg[s] : s \in QueuedSlots}
  /\ pool' = pool \cup QueuedSlots
  /\ mq' = <<>>
  /\ UNCHANGED <<msg, efd, aborted, senderVars, cpc, num, cur, handled>>

\* After worker_destroy nothing more happens.
Done == ~alive /\ UNCHANGED vars

Send(p) == PoolNew(p) \/ SendRefused(p) \/ Push(p) \/ Notify(p)

Callback == ReadEvent \/ Pop \/ OnMessage \/ FreeData \/ FreeSlot

Next ==
  \/ ~aborted /\ (Callback \/ WorkerDestroy \/ \E p \in Producers : Send(p))
  \/ Done

(***************************************************************************)
(* The dispatcher's loop keeps running the callback while its fd is        *)
(* readable, and a thread inside worker_send never waits for anything but  *)
(* a mutex held for a bounded time: both make progress once scheduled.     *)
(* Nothing obliges a producer to send, or anyone to destroy the worker.    *)
(***************************************************************************)
Fairness == WF_vars(Callback) /\ \A p \in Producers : WF_vars(Push(p) \/ Notify(p))

Spec == Init /\ [][Next]_vars /\ Fairness
-----------------------------------------------------------------------------
(* Properties. *)

\* Type invariant: every variable of the worker keeps its type.
TypeOK ==
  /\ pool \in SUBSET Slots
  /\ mq \in Seq(Slots)
  /\ msg \in [Slots -> Message \cup {NoMsg}]
  /\ efd \in Nat
  /\ pc \in [Producers -> {"idle", "push", "notify"}]
  /\ held \in [Producers -> Slots \cup {NoSlot}]
  /\ sends \in [Producers -> 0..MaxSends]
  /\ cpc \in {"wait", "pop"} \cup Busy
  /\ num \in Nat
  /\ cur \in Slots \cup {NoSlot}
  /\ handled \in Seq(Message)
  /\ freed \in SUBSET Message
  /\ refused \in SUBSET Message
  /\ alive \in BOOLEAN
  /\ aborted \in BOOLEAN

\* The three ensure() calls of worker.c and pool.c commented "Should not
\* fail" never fail, whatever the interleaving: callback never pops an empty
\* queue, worker_send never pushes to a full one, and pool_free never returns
\* a slot to a full pool.
EnsuresHold == ~aborted

Notifying == {p \in Producers : pc[p] = "notify"}

\* No wake-up is lost and none is spurious: the queued messages are exactly
\* those the eventfd still announces, those the running callback has still
\* to pop, and those whose sender is between its push and its write.
WakeupsMatchMessages == alive => Len(mq) = efd + num + Cardinality(Notifying)

Pushing   == {p \in Producers : pc[p] = "push"}
HeldSlots == {held[p] : p \in Pushing}
CurSlots  == IF cpc \in Busy THEN {cur} ELSE {}

\* Slot ownership: at every moment each message_t slot is in exactly one
\* place: the pool, the hands of one sender, one position of the queue, or
\* the hands of the consumer.  No slot leaks, none is freed twice, and no
\* two threads use one slot at once.
SlotInOnePlace ==
  /\ pool \cup HeldSlots \cup QueuedSlots \cup CurSlots = Slots
  /\ pool \cap (HeldSlots \cup QueuedSlots \cup CurSlots) = {}
  /\ HeldSlots \cap (QueuedSlots \cup CurSlots) = {}
  /\ QueuedSlots \cap CurSlots = {}
  /\ \A p, q \in Pushing : held[p] = held[q] => p = q
  /\ \A i, j \in DOMAIN mq : mq[i] = mq[j] => i = j

InHand(m)     == \E p \in Producers : pc[p] = "push" /\ msg[held[p]] = m
Queued(m)     == \E s \in QueuedSlots : msg[s] = m
AtConsumer(m) == cpc \in {"handle", "freedata"} /\ msg[cur] = m

\* Data ownership: a message handed to worker_send has exactly one party
\* responsible for freeing it: the sender inside worker_send, the queue, the
\* consumer, nobody any more because the worker freed it, or the caller
\* because worker_send returned false.
MessageHasOneOwner ==
  \A p \in Producers : \A n \in 1..sends[p] :
    LET m == <<p, n>>
        claims == <<InHand(m), Queued(m), AtConsumer(m), m \in freed, m \in refused>>
    IN  \E i \in 1..5 : \A j \in 1..5 : claims[j] <=> j = i

\* Every message that reaches the queue is eventually freed by the worker,
\* handled before unless worker_destroy dropped it.
QueuedIsEventuallyFreed == \A m \in Message : Queued(m) ~> m \in freed

\* The abstract mailbox: the queued messages, and how many slots are in the
\* hands of a sender or of the consumer.
MailQueue == [i \in DOMAIN mq |-> msg[mq[i]]]
MailBusy  == Cardinality(Slots \ (pool \cup QueuedSlots))

Box == INSTANCE Mailbox WITH queue <- MailQueue, busy <- MailBusy

\* worker.c implements a bounded first-in first-out mailbox: pool, queue and
\* eventfd together never lose, duplicate or reorder a message, refuse one
\* only for want of a slot, and never leave one waiting for ever.
ImplementsMailbox == Box!Spec

-----------------------------------------------------------------------------
(* What the invariants need in order to be inductive. *)

\* The control points determine what the consumer and the senders hold: the
\* consumer has iterations left exactly while it loops, a slot outside the
\* pool carries a message, and worker_destroy finds everybody idle.
ControlConsistent ==
  /\ cpc = "wait" => num = 0
  /\ cpc = "pop" => num > 0
  /\ cpc \in Busy => cur \in Slots
  /\ \A p \in Pushing : held[p] \in Slots
  /\ \A s \in Slots \ pool : msg[s] \in Message
  /\ ~alive => cpc = "wait" /\ \A p \in Producers : pc[p] = "idle"

IndInv == TypeOK /\ ControlConsistent /\ SlotInOnePlace /\ WakeupsMatchMessages /\ EnsuresHold

\* What MessageHasOneOwner needs besides: the messages handed to worker_send
\* so far are the ones in slots that somebody still has to free, each in one
\* slot, and the ones that were freed or refused, never both.
Loaded == HeldSlots \cup QueuedSlots \cup (IF cpc \in {"handle", "freedata"} THEN {cur} ELSE {})
Sent   == {m \in Message : m[2] <= sends[m[1]]}

MessagesAccounted ==
  /\ \A s \in Loaded : msg[s] \in Sent /\ msg[s] \notin freed /\ msg[s] \notin refused
  /\ \A s, t \in Loaded : msg[s] = msg[t] => s = t
  /\ freed \cap refused = {}
  /\ freed \cup refused \subseteq Sent
  /\ \A m \in Sent : m \in freed \/ m \in refused \/ \E s \in Loaded : msg[s] = m
=============================================================================
