---------------------------- MODULE WorkerProofs ----------------------------
(***************************************************************************)
(* Proofs about the worker, for any number of producers, any capacity and  *)
(* any number of sends.  IndInv (module Worker) is inductive: it ties the  *)
(* eventfd counter to the queue, and every slot to one place, which is     *)
(* what keeps the queue non-empty when the consumer pops and non-full when *)
(* a sender pushes.                                                        *)
(***************************************************************************)
EXTENDS Worker, SequenceFacts

-----------------------------------------------------------------------------
(* The initial state. *)

\* After worker_init the invariant holds.
LEMMA InitIndInv == Init => IndInv
<1> SUFFICES ASSUME Init PROVE IndInv
  OBVIOUS
<1>1. TypeOK
  <2>1. pool \in SUBSET Slots /\ mq \in Seq(Slots) /\ handled \in Seq(Message)
    BY DEF Init
  <2>2. alive \in BOOLEAN /\ aborted \in BOOLEAN
    BY DEF Init
  <2>3. msg \in [Slots -> Message \cup {NoMsg}] /\ held \in [Producers -> Slots \cup {NoSlot}]
    BY DEF Init
  <2>4. pc \in [Producers -> {"idle", "push", "notify"}] /\ sends \in [Producers -> 0..MaxSends]
    BY MaxSendsIsNat DEF Init
  <2> QED
    BY <2>1, <2>2, <2>3, <2>4 DEF Init, TypeOK
<1>2. Pushing = {} /\ HeldSlots = {} /\ CurSlots = {} /\ QueuedSlots = {} /\ Notifying = {}
  BY DEF Init, Pushing, HeldSlots, CurSlots, QueuedSlots, Notifying, Busy
<1>3. ControlConsistent
  BY <1>2 DEF Init, ControlConsistent, Busy
<1>4. SlotInOnePlace
  BY <1>2 DEF Init, SlotInOnePlace
<1>5. WakeupsMatchMessages
  BY <1>2, FS_EmptySet DEF Init, WakeupsMatchMessages
<1> QED
  BY <1>1, <1>3, <1>4, <1>5 DEF IndInv, EnsuresHold, Init

-----------------------------------------------------------------------------
(* Type correctness of each step. *)

\* Every step of worker_send, callback and worker_destroy keeps the types.
LEMMA TypeStep == IndInv /\ [Next]_vars => TypeOK'
<1> SUFFICES ASSUME IndInv, [Next]_vars PROVE TypeOK'
  OBVIOUS
<1> USE MaxSendsIsNat DEF IndInv, TypeOK
<1>1. ASSUME NEW p \in Producers, PoolNew(p) PROVE TypeOK'
  <2>1. NextMsg(p) \in Message
    BY <1>1 DEF PoolNew, NextMsg, Message
  <2> QED
    BY <1>1, <2>1 DEF PoolNew, consumerVars
<1>2. ASSUME NEW p \in Producers, SendRefused(p) PROVE TypeOK'
  <2>1. NextMsg(p) \in Message
    BY <1>2 DEF SendRefused, NextMsg, Message
  <2> QED
    BY <1>2, <2>1 DEF SendRefused, consumerVars
<1>3. ASSUME NEW p \in Producers, Push(p) PROVE TypeOK'
  <2>1. held[p] \in Slots
    BY <1>3 DEF ControlConsistent, Push, Pushing
  <2>2. mq' \in Seq(Slots)
    BY <1>3, <2>1, AppendElements DEF Push
  <2>3. aborted' \in BOOLEAN
    BY <1>3 DEF Push
  <2> QED
    BY <1>3, <2>2, <2>3 DEF Push, consumerVars
<1>4. ASSUME NEW p \in Producers, Notify(p) PROVE TypeOK'
  BY <1>4 DEF Notify, consumerVars
<1>5. CASE ReadEvent
  BY <1>5 DEF ReadEvent, senderVars, Busy
<1>6. CASE Pop
  <2>1. mq # <<>> => Tail(mq) \in Seq(Slots) /\ Head(mq) \in Slots
    BY TailElements
  <2>2. aborted' \in BOOLEAN /\ num' \in Nat
    BY <1>6 DEF Pop, ControlConsistent
  <2> QED
    BY <1>6, <2>1, <2>2 DEF Pop, senderVars, Busy
<1>7. CASE OnMessage
  <2>1. msg[cur] \in Message
    BY <1>7 DEF OnMessage, ControlConsistent, SlotInOnePlace, CurSlots, Busy
  <2>2. handled' \in Seq(Message)
    BY <1>7, <2>1 DEF OnMessage
  <2> QED
    BY <1>7, <2>2 DEF OnMessage, senderVars, Busy
<1>8. CASE FreeData
  <2>1. msg[cur] \in Message
    BY <1>8 DEF FreeData, ControlConsistent, SlotInOnePlace, CurSlots, Busy
  <2> QED
    BY <1>8, <2>1 DEF FreeData, senderVars, Busy
<1>9. CASE FreeSlot
  <2>1. cur \in Slots
    BY <1>9 DEF FreeSlot, ControlConsistent, Busy
  <2>2. aborted' \in BOOLEAN
    BY <1>9 DEF FreeSlot
  <2> QED
    BY <1>9, <2>1, <2>2 DEF FreeSlot, senderVars
<1>10. CASE WorkerDestroy
  <2>1. \A s \in QueuedSlots : s \in Slots /\ msg[s] \in Message
    BY DEF QueuedSlots, ControlConsistent, SlotInOnePlace
  <2>2. pool' \in SUBSET Slots /\ freed' \in SUBSET Message /\ mq' \in Seq(Slots)
    BY <1>10, <2>1 DEF WorkerDestroy
  <2> QED
    BY <1>10, <2>2 DEF WorkerDestroy, senderVars
<1>11. CASE UNCHANGED vars
  BY <1>11 DEF vars, senderVars, consumerVars
<1> QED
  BY <1>1, <1>2, <1>3, <1>4, <1>5, <1>6, <1>7, <1>8, <1>9, <1>10, <1>11
     DEF Next, Send, Callback, Done

-----------------------------------------------------------------------------
(* How each step moves a slot from one place to another. *)

\* The eventfd never announces more messages than are queued.
LEMMA PopFindsMessage == IndInv /\ cpc = "pop" => mq # <<>>
<1> SUFFICES ASSUME IndInv, cpc = "pop" PROVE mq # <<>>
  OBVIOUS
<1>1. alive /\ num > 0
  BY DEF IndInv, ControlConsistent
<1>2. Cardinality(Notifying) \in Nat
  BY ProducersFinite, FS_Subset, FS_CardinalityType DEF Notifying
<1>3. Len(mq) > 0
  BY <1>1, <1>2 DEF IndInv, TypeOK, WakeupsMatchMessages
<1> QED
  BY <1>3

\* Every step keeps the control state consistent: a thread holds a slot
\* exactly where the code between two calls has one in a local variable.
LEMMA ControlStep == IndInv /\ [Next]_vars => ControlConsistent'
<1> SUFFICES ASSUME IndInv, [Next]_vars PROVE ControlConsistent'
  OBVIOUS
<1> USE DEF IndInv, TypeOK, ControlConsistent, Pushing, Busy
<1>1. ASSUME NEW p \in Producers, PoolNew(p) PROVE ControlConsistent'
  <2>1. NextMsg(p) \in Message
    BY <1>1, MaxSendsIsNat DEF PoolNew, NextMsg, Message
  <2> QED
    BY <1>1, <2>1 DEF PoolNew, consumerVars
<1>2. ASSUME NEW p \in Producers, SendRefused(p) PROVE ControlConsistent'
  BY <1>2 DEF SendRefused, consumerVars
<1>3. ASSUME NEW p \in Producers, Push(p) PROVE ControlConsistent'
  BY <1>3 DEF Push, consumerVars
<1>4. ASSUME NEW p \in Producers, Notify(p) PROVE ControlConsistent'
  BY <1>4 DEF Notify, consumerVars
<1>5. CASE ReadEvent
  BY <1>5 DEF ReadEvent, senderVars
<1>6. CASE Pop
  <2>1. mq # <<>>
    BY <1>6, PopFindsMessage DEF Pop
  <2>2. Head(mq) \in Slots
    BY <2>1, TailElements
  <2> QED
    BY <1>6, <2>1, <2>2 DEF Pop, senderVars
<1>7. CASE OnMessage
  BY <1>7 DEF OnMessage, senderVars
<1>8. CASE FreeData
  BY <1>8 DEF FreeData, senderVars
<1>9. CASE FreeSlot
  BY <1>9 DEF FreeSlot, senderVars
<1>10. CASE WorkerDestroy
  BY <1>10 DEF WorkerDestroy, senderVars
<1>11. CASE UNCHANGED vars
  BY <1>11 DEF vars, senderVars, consumerVars
<1> QED
  BY <1>1, <1>2, <1>3, <1>4, <1>5, <1>6, <1>7, <1>8, <1>9, <1>10, <1>11
     DEF Next, Send, Callback, Done

\* The slot a sender holds is not queued, so the queue has room for it.
LEMMA PushFindsRoom ==
  ASSUME IndInv, NEW p \in Producers, pc[p] = "push"
  PROVE  held[p] \in Slots /\ Len(mq) < Capacity
<1>1. held[p] \in HeldSlots /\ held[p] \in Slots
  BY DEF HeldSlots, Pushing, IndInv, ControlConsistent
<1>2. mq \in Seq(Slots) /\ IsInjective(mq)
  BY DEF IndInv, TypeOK, SlotInOnePlace, IsInjective
<1>3. held[p] \notin ToSet(mq)
  BY <1>1 DEF IndInv, SlotInOnePlace, QueuedSlots, ToSet
<1> QED
  BY <1>1, <1>2, <1>3, SlotsFinite, MissingElementBoundsLength DEF Capacity

\* The slot the consumer frees is not in the pool, so the pool has room.
LEMMA FreeFindsRoom == IndInv /\ cpc = "freeslot" => Cardinality(pool) < Capacity
<1> SUFFICES ASSUME IndInv, cpc = "freeslot" PROVE Cardinality(pool) < Capacity
  OBVIOUS
<1>1. cur \in Slots /\ cur \notin pool /\ pool \in SUBSET (Slots \ {cur})
  BY DEF IndInv, TypeOK, ControlConsistent, SlotInOnePlace, CurSlots, Busy
<1>2. IsFiniteSet(Slots \ {cur}) /\ Cardinality(Slots \ {cur}) = Cardinality(Slots) - 1
  BY <1>1, SlotsFinite, FS_RemoveElement
<1>3. Cardinality(pool) <= Cardinality(Slots \ {cur})
  BY <1>1, <1>2, FS_Subset
<1>4. Cardinality(Slots) \in Nat /\ Cardinality(pool) \in Nat
  BY <1>1, SlotsFinite, FS_CardinalityType, FS_Subset
<1> QED
  BY <1>2, <1>3, <1>4 DEF Capacity

\* A step that moves no slot keeps every slot in its one place.
LEMMA SlotsUnmoved ==
  ASSUME SlotInOnePlace, pool' = pool, mq' = mq, held' = held,
         Pushing' = Pushing, CurSlots' = CurSlots
  PROVE  SlotInOnePlace'
<1>1. HeldSlots' = HeldSlots /\ QueuedSlots' = QueuedSlots
  BY DEF HeldSlots, QueuedSlots
<1> QED
  BY <1>1 DEF SlotInOnePlace

\* Every step keeps each slot in exactly one place: pool_new, conqueue_push,
\* conqueue_pop and pool_free each take it from one and put it into another.
LEMMA SlotStep == IndInv /\ [Next]_vars => SlotInOnePlace'
<1> SUFFICES ASSUME IndInv, [Next]_vars PROVE SlotInOnePlace'
  OBVIOUS
<1> USE DEF IndInv, TypeOK, SlotInOnePlace
<1>1. ASSUME NEW p \in Producers, PoolNew(p) PROVE SlotInOnePlace'
  <2> PICK s \in pool : /\ pool' = pool \ {s}
                        /\ held' = [held EXCEPT ![p] = s]
    BY <1>1 DEF PoolNew
  <2>1. Pushing' = Pushing \cup {p} /\ p \notin Pushing
    BY <1>1 DEF PoolNew, Pushing
  <2>2. HeldSlots' = HeldSlots \cup {s}
    BY <1>1, <2>1 DEF HeldSlots, Pushing
  <2>3. QueuedSlots' = QueuedSlots /\ CurSlots' = CurSlots /\ mq' = mq
    BY <1>1 DEF PoolNew, QueuedSlots, CurSlots, consumerVars
  <2>4. \A q \in Pushing : held'[q] = held[q] /\ held[q] \in HeldSlots
    BY <2>1 DEF HeldSlots, Pushing
  <2>5. held'[p] = s /\ s \notin HeldSlots
    OBVIOUS
  <2> QED
    BY <2>1, <2>2, <2>3, <2>4, <2>5
<1>2. ASSUME NEW p \in Producers, SendRefused(p) PROVE SlotInOnePlace'
  BY <1>2, SlotsUnmoved DEF SendRefused, consumerVars, Pushing, CurSlots
<1>3. ASSUME NEW p \in Producers, Push(p) PROVE SlotInOnePlace'
  <2>1. held[p] \in Slots /\ Len(mq) < Capacity
    BY <1>3, PushFindsRoom DEF Push
  <2>2. mq' = Append(mq, held[p])
    BY <1>3, <2>1 DEF Push
  <2>3. p \in Pushing /\ Pushing' = Pushing \ {p}
    BY <1>3 DEF Push, Pushing
  <2>4. HeldSlots' = HeldSlots \ {held[p]}
    BY <1>3, <2>3 DEF Push, HeldSlots, Pushing
  <2>5. QueuedSlots' = QueuedSlots \cup {held[p]}
    <3>1. DOMAIN mq' = 1..(Len(mq) + 1) /\ DOMAIN mq = 1..Len(mq) /\ Len(mq) \in Nat
      BY <2>1, <2>2, AppendElements, LenProperties
    <3>2. \A i \in DOMAIN mq : mq'[i] = mq[i]
      BY <2>1, <2>2, <3>1, AppendElements
    <3>3. mq'[Len(mq) + 1] = held[p]
      BY <2>1, <2>2, AppendElements
    <3>4. DOMAIN mq' = DOMAIN mq \cup {Len(mq) + 1}
      BY <3>1
    <3> QED
      BY <3>2, <3>3, <3>4 DEF QueuedSlots
  <2>6. pool' = pool /\ CurSlots' = CurSlots
    BY <1>3 DEF Push, CurSlots, consumerVars
  <2>7. held[p] \in HeldSlots /\ held[p] \notin QueuedSlots
    BY <2>3 DEF HeldSlots
  <2>8. \A i, j \in DOMAIN mq' : mq'[i] = mq'[j] => i = j
    BY <2>1, <2>2, <2>7, AppendElements DEF QueuedSlots
  <2>9. \A q, r \in Pushing' : held'[q] = held'[r] => q = r
    BY <1>3, <2>3 DEF Push, Pushing
  <2> QED
    BY <2>4, <2>5, <2>6, <2>7, <2>8, <2>9
<1>4. ASSUME NEW p \in Producers, Notify(p) PROVE SlotInOnePlace'
  <2>1. Pushing' = Pushing
    BY <1>4 DEF Notify, Pushing
  <2> QED
    BY <1>4, <2>1, SlotsUnmoved DEF Notify, consumerVars, CurSlots
<1>5. CASE ReadEvent
  BY <1>5, SlotsUnmoved DEF ReadEvent, senderVars, Pushing, CurSlots, Busy
<1>6. CASE Pop
  <2>1. mq # <<>>
    BY <1>6, PopFindsMessage DEF Pop
  <2>2. mq' = Tail(mq) /\ cur' = Head(mq) /\ cpc' \in Busy /\ cpc \notin Busy
    BY <1>6, <2>1 DEF Pop, Busy
  <2>3. CurSlots = {} /\ CurSlots' = {mq[1]}
    BY <2>1, <2>2, TailElements DEF CurSlots
  <2>4. QueuedSlots = QueuedSlots' \cup {mq[1]}
    <3>1. \A i \in DOMAIN mq : i = 1 \/ ((i - 1) \in DOMAIN mq' /\ mq'[i - 1] = mq[i])
      BY <2>1, <2>2, TailElements
    <3>2. \A i \in DOMAIN mq' : (i + 1) \in DOMAIN mq /\ mq'[i] = mq[i + 1]
      BY <2>1, <2>2, TailElements
    <3>3. 1 \in DOMAIN mq
      BY <2>1, TailElements
    <3> QED
      BY <3>1, <3>2, <3>3 DEF QueuedSlots
  <2>5. mq[1] \notin QueuedSlots'
    BY <2>1, <2>2, TailElements DEF QueuedSlots
  <2>6. \A i, j \in DOMAIN mq' : mq'[i] = mq'[j] => i = j
    BY <2>1, <2>2, TailElements
  <2>7. pool' = pool /\ Pushing' = Pushing /\ HeldSlots' = HeldSlots /\ held' = held
    BY <1>6 DEF Pop, senderVars, Pushing, HeldSlots
  <2> QED
    BY <2>3, <2>4, <2>5, <2>6, <2>7
<1>7. CASE OnMessage
  BY <1>7, SlotsUnmoved DEF OnMessage, senderVars, Pushing, CurSlots, Busy
<1>8. CASE FreeData
  BY <1>8, SlotsUnmoved DEF FreeData, senderVars, Pushing, CurSlots, Busy
<1>9. CASE FreeSlot
  <2>1. CurSlots = {cur} /\ CurSlots' = {} /\ pool' = pool \cup {cur}
    BY <1>9 DEF FreeSlot, CurSlots, Busy
  <2>2. /\ Pushing' = Pushing /\ HeldSlots' = HeldSlots /\ held' = held
        /\ QueuedSlots' = QueuedSlots /\ mq' = mq
    BY <1>9 DEF FreeSlot, senderVars, Pushing, HeldSlots, QueuedSlots
  <2> QED
    BY <2>1, <2>2
<1>10. CASE WorkerDestroy
  <2>1. Pushing = {} /\ HeldSlots = {} /\ CurSlots = {}
    BY <1>10 DEF WorkerDestroy, Pushing, HeldSlots, CurSlots, Busy
  <2>2. /\ Pushing' = {} /\ HeldSlots' = {} /\ CurSlots' = {}
        /\ QueuedSlots' = {} /\ DOMAIN mq' = {}
    BY <1>10 DEF WorkerDestroy, senderVars, Pushing, HeldSlots, CurSlots, QueuedSlots, Busy
  <2>3. pool' = pool \cup QueuedSlots
    BY <1>10 DEF WorkerDestroy
  <2> QED
    BY <2>1, <2>2, <2>3
<1>11. CASE UNCHANGED vars
  BY <1>11, SlotsUnmoved DEF vars, senderVars, consumerVars, Pushing, CurSlots
<1> QED
  BY <1>1, <1>2, <1>3, <1>4, <1>5, <1>6, <1>7, <1>8, <1>9, <1>10, <1>11
     DEF Next, Send, Callback, Done

-----------------------------------------------------------------------------
(* Wake-ups and messages stay in step. *)

\* Every step keeps the wake-ups equal to the messages: conqueue_push and the
\* write to the eventfd raise one side each, the read and conqueue_pop lower
\* one side each, and senders between push and notify make up the difference.
LEMMA WakeupStep == IndInv /\ [Next]_vars => WakeupsMatchMessages'
<1> SUFFICES ASSUME IndInv, [Next]_vars, alive' PROVE WakeupsMatchMessages'
  BY DEF WakeupsMatchMessages
<1> USE DEF IndInv, TypeOK, WakeupsMatchMessages
<1>a. IsFiniteSet(Notifying) /\ Cardinality(Notifying) \in Nat /\ Len(mq) \in Nat
  BY ProducersFinite, FS_Subset, FS_CardinalityType DEF Notifying
<1>1. ASSUME NEW p \in Producers, PoolNew(p) PROVE WakeupsMatchMessages'
  <2>1. Notifying' = Notifying
    BY <1>1 DEF PoolNew, Notifying
  <2> QED
    BY <1>1, <2>1 DEF PoolNew, consumerVars
<1>2. ASSUME NEW p \in Producers, SendRefused(p) PROVE WakeupsMatchMessages'
  BY <1>2 DEF SendRefused, consumerVars, Notifying
<1>3. ASSUME NEW p \in Producers, Push(p) PROVE WakeupsMatchMessages'
  <2>1. held[p] \in Slots /\ Len(mq) < Capacity
    BY <1>3, PushFindsRoom DEF Push
  <2>2. Len(mq') = Len(mq) + 1
    BY <1>3, <2>1, AppendElements DEF Push
  <2>3. Notifying' = Notifying \cup {p} /\ p \notin Notifying
    BY <1>3 DEF Push, Notifying
  <2>4. Cardinality(Notifying') = Cardinality(Notifying) + 1
    BY <1>a, <2>3, FS_AddElement
  <2> QED
    BY <1>3, <1>a, <2>2, <2>4 DEF Push, consumerVars
<1>4. ASSUME NEW p \in Producers, Notify(p) PROVE WakeupsMatchMessages'
  <2>1. Notifying' = Notifying \ {p} /\ p \in Notifying
    BY <1>4 DEF Notify, Notifying
  <2>2. Cardinality(Notifying') = Cardinality(Notifying) - 1
    BY <1>a, <2>1, FS_RemoveElement
  <2> QED
    BY <1>4, <1>a, <2>2 DEF Notify, consumerVars
<1>5. CASE ReadEvent
  <2>1. Notifying' = Notifying /\ num = 0
    BY <1>5 DEF ReadEvent, senderVars, Notifying, ControlConsistent
  <2> QED
    BY <1>5, <1>a, <2>1 DEF ReadEvent
<1>6. CASE Pop
  <2>1. mq # <<>> /\ num > 0
    BY <1>6, PopFindsMessage DEF Pop, ControlConsistent
  <2>2. Len(mq') = Len(mq) - 1
    BY <1>6, <2>1, TailElements DEF Pop
  <2>3. Notifying' = Notifying
    BY <1>6 DEF Pop, senderVars, Notifying
  <2> QED
    <3>1. alive /\ efd' = efd /\ num' = num - 1
      BY <1>6 DEF Pop
    <3>2. Len(mq) = efd + num + Cardinality(Notifying)
      BY <3>1
    <3> QED
      BY <1>a, <2>2, <2>3, <3>1, <3>2
<1>7. CASE OnMessage
  BY <1>7 DEF OnMessage, senderVars, Notifying
<1>8. CASE FreeData
  BY <1>8 DEF FreeData, senderVars, Notifying
<1>9. CASE FreeSlot
  BY <1>9 DEF FreeSlot, senderVars, Notifying
<1>10. CASE WorkerDestroy
  BY <1>10 DEF WorkerDestroy
<1>11. CASE UNCHANGED vars
  BY <1>11 DEF vars, senderVars, consumerVars, Notifying
<1> QED
  BY <1>1, <1>2, <1>3, <1>4, <1>5, <1>6, <1>7, <1>8, <1>9, <1>10, <1>11
     DEF Next, Send, Callback, Done

\* No step fails an ensure(): the queue has room for a slot that is in a
\* sender's hands, and a message for every wake-up that was read.
LEMMA EnsuresStep == IndInv /\ [Next]_vars => EnsuresHold'
<1> SUFFICES ASSUME IndInv, [Next]_vars PROVE EnsuresHold'
  OBVIOUS
<1> USE DEF IndInv, EnsuresHold
<1>1. ASSUME NEW p \in Producers, Send(p) PROVE EnsuresHold'
  <2>1. pc[p] = "push" => ~(Len(mq) >= Capacity)
    <3>1. Len(mq) \in Nat /\ Capacity \in Nat
      BY SlotsFinite, FS_CardinalityType DEF TypeOK, Capacity
    <3> QED
      BY <3>1, PushFindsRoom
  <2> QED
    BY <1>1, <2>1 DEF Send, PoolNew, SendRefused, Push, Notify
<1>2. CASE Callback
  <2>1. cpc = "pop" => mq # <<>>
    BY PopFindsMessage
  <2>2. cpc = "freeslot" => ~(Cardinality(pool) >= Capacity)
    <3>1. Cardinality(pool) \in Nat /\ Capacity \in Nat
      BY SlotsFinite, FS_CardinalityType, FS_Subset DEF TypeOK, Capacity
    <3> QED
      BY <3>1, FreeFindsRoom
  <2> QED
    BY <1>2, <2>1, <2>2 DEF Callback, ReadEvent, Pop, OnMessage, FreeData, FreeSlot
<1>3. CASE WorkerDestroy
  BY <1>3 DEF WorkerDestroy
<1>4. CASE UNCHANGED vars
  BY <1>4 DEF vars
<1> QED
  BY <1>1, <1>2, <1>3, <1>4 DEF Next, Done

-----------------------------------------------------------------------------
(* Who has to free a message. *)

\* Every step keeps one owner for the data of each message: FreeData and
\* WorkerDestroy free it, SendRefused leaves it with the caller, and no other
\* step changes which slots are loaded but PoolNew, which loads a new message.
LEMMA MessagesStep ==
  ASSUME IndInv, MessagesAccounted, [Next]_vars
  PROVE  MessagesAccounted'
<1>0. TypeOK /\ ControlConsistent /\ SlotInOnePlace
  BY DEF IndInv
<1>a. ASSUME Loaded' = Loaded, UNCHANGED <<msg, sends, freed, refused>> PROVE MessagesAccounted'
  BY <1>a DEF MessagesAccounted, Sent
<1>b. ASSUME NEW p \in Producers, sends[p] < MaxSends, sends' = [sends EXCEPT ![p] = @ + 1]
      PROVE  Sent' = Sent \cup {NextMsg(p)} /\ NextMsg(p) \notin Sent
  <2>1. NextMsg(p) \in Message /\ NextMsg(p)[1] = p /\ NextMsg(p)[2] = sends[p] + 1 /\ sends[p] \in Nat
    BY <1>0, <1>b, MaxSendsIsNat DEF NextMsg, Message, TypeOK
  <2>2. \A q \in Producers : sends'[q] = IF q = p THEN sends[q] + 1 ELSE sends[q]
    BY <1>0, <1>b DEF TypeOK
  <2>3. \A m \in Message : m[1] \in Producers /\ m[2] \in Nat /\ m = <<m[1], m[2]>>
    BY DEF Message
  <2>4. \A q \in Producers : sends[q] \in Nat
    BY <1>0 DEF TypeOK
  <2>5. ASSUME NEW m \in Message PROVE m[2] <= sends'[m[1]] <=> m[2] <= sends[m[1]] \/ m = NextMsg(p)
    <3>1. CASE m[1] # p
      BY <2>1, <2>2, <2>3, <3>1
    <3>2. CASE m[1] = p
      <4>1. m = NextMsg(p) <=> m[2] = sends[p] + 1
        BY <2>1, <2>3, <3>2 DEF NextMsg
      <4>2. sends'[m[1]] = sends[p] + 1 /\ m[2] \in Nat /\ sends[p] \in Nat
        BY <2>1, <2>2, <2>3, <3>2
      <4> QED
        BY <3>2, <4>1, <4>2
    <3> QED
      BY <3>1, <3>2
  <2>6. NextMsg(p) \notin Sent
    BY <2>1 DEF Sent
  <2>7. Sent' = Sent \cup {NextMsg(p)}
    BY <2>1, <2>5 DEF Sent
  <2> QED
    BY <2>6, <2>7
<1>1. ASSUME NEW p \in Producers, PoolNew(p) PROVE MessagesAccounted'
  <2>1. PICK s \in pool : /\ pool' = pool \ {s} /\ held' = [held EXCEPT ![p] = s]
                          /\ msg' = [msg EXCEPT ![s] = NextMsg(p)]
    BY <1>1 DEF PoolNew
  <2>2. Sent' = Sent \cup {NextMsg(p)} /\ NextMsg(p) \notin Sent
    BY <1>1, <1>b DEF PoolNew
  <2>3. HeldSlots' = HeldSlots \cup {s}
    <3>1. Pushing' = Pushing \cup {p} /\ p \notin Pushing
      BY <1>0, <1>1 DEF PoolNew, Pushing, TypeOK
    <3>2. held'[p] = s /\ \A q \in Pushing : held'[q] = held[q]
      BY <1>0, <2>1, <3>1 DEF Pushing, TypeOK
    <3> QED
      BY <3>1, <3>2 DEF HeldSlots
  <2>4. QueuedSlots' = QueuedSlots /\ cpc' = cpc /\ cur' = cur
    BY <1>1 DEF PoolNew, consumerVars, QueuedSlots
  <2>5. Loaded' = Loaded \cup {s}
    BY <2>3, <2>4 DEF Loaded
  <2>6. s \notin Loaded /\ Loaded \subseteq Slots /\ s \in Slots
    BY <1>0, <2>1 DEF SlotInOnePlace, TypeOK, Loaded, CurSlots, Busy
  <2>7. msg'[s] = NextMsg(p) /\ \A t \in Loaded : msg'[t] = msg[t]
    BY <1>0, <2>1, <2>6 DEF TypeOK
  <2>8. UNCHANGED <<freed, refused>>
    BY <1>1 DEF PoolNew, consumerVars
  <2> QED
    BY <2>2, <2>5, <2>6, <2>7, <2>8 DEF MessagesAccounted
<1>2. ASSUME NEW p \in Producers, SendRefused(p) PROVE MessagesAccounted'
  <2>1. Sent' = Sent \cup {NextMsg(p)} /\ NextMsg(p) \notin Sent
    BY <1>2, <1>b DEF SendRefused
  <2>2. Loaded' = Loaded
    BY <1>2 DEF SendRefused, consumerVars, Loaded, HeldSlots, Pushing, QueuedSlots
  <2>3. UNCHANGED <<freed, msg>> /\ refused' = refused \cup {NextMsg(p)}
    BY <1>2 DEF SendRefused, consumerVars
  <2> QED
    BY <2>1, <2>2, <2>3 DEF MessagesAccounted
<1>3. ASSUME NEW p \in Producers, Push(p) PROVE MessagesAccounted'
  <2>1. held[p] \in Slots /\ Len(mq) < Capacity
    BY <1>3, PushFindsRoom DEF Push
  <2>2. mq' = Append(mq, held[p]) /\ mq \in Seq(Slots)
    BY <1>0, <1>3, <2>1 DEF Push, TypeOK
  <2>3. QueuedSlots' = QueuedSlots \cup {held[p]}
    BY <2>1, <2>2, AppendSet DEF QueuedSlots, ToSet
  <2>4. p \in Pushing /\ Pushing' = Pushing \ {p}
    BY <1>0, <1>3 DEF Push, Pushing, TypeOK
  <2>5. \A q \in Pushing \ {p} : held'[q] = held[q]
    BY <1>0, <1>3 DEF Push, Pushing, TypeOK
  <2>6. HeldSlots = HeldSlots' \cup {held[p]}
    BY <2>4, <2>5 DEF HeldSlots
  <2>7. Loaded' = Loaded
    BY <1>3, <2>3, <2>6 DEF Loaded, Push, consumerVars
  <2> QED
    BY <1>3, <1>a, <2>7 DEF Push, consumerVars
<1>4. ASSUME NEW p \in Producers, Notify(p) PROVE MessagesAccounted'
  <2>1. Pushing' = Pushing
    BY <1>0, <1>4 DEF Notify, Pushing, TypeOK
  <2>2. Loaded' = Loaded
    BY <1>4, <2>1 DEF Notify, consumerVars, Loaded, HeldSlots, QueuedSlots
  <2> QED
    BY <1>4, <1>a, <2>2 DEF Notify, consumerVars
<1>5. CASE ReadEvent
  <2>1. Loaded' = Loaded
    BY <1>5 DEF ReadEvent, senderVars, Loaded, HeldSlots, Pushing, QueuedSlots
  <2> QED
    BY <1>5, <1>a, <2>1 DEF ReadEvent, senderVars
<1>6. CASE Pop
  <2>1. mq # <<>> /\ mq \in Seq(Slots)
    BY <1>0, <1>6, PopFindsMessage DEF Pop, TypeOK
  <2>2. mq' = Tail(mq) /\ cur' = Head(mq) /\ cpc' = "handle" /\ cpc = "pop"
    BY <1>6, <2>1 DEF Pop
  <2>3. QueuedSlots = QueuedSlots' \cup {cur'}
    BY <2>1, <2>2, TailSet DEF QueuedSlots, ToSet
  <2>4. HeldSlots' = HeldSlots
    BY <1>6 DEF Pop, senderVars, HeldSlots, Pushing
  <2>5. Loaded' = Loaded
    BY <2>2, <2>3, <2>4 DEF Loaded
  <2> QED
    BY <1>6, <1>a, <2>5 DEF Pop, senderVars
<1>7. CASE OnMessage
  <2>1. Loaded' = Loaded
    BY <1>7 DEF OnMessage, senderVars, Loaded, HeldSlots, Pushing, QueuedSlots
  <2> QED
    BY <1>7, <1>a, <2>1 DEF OnMessage, senderVars
<1>8. CASE FreeData
  <2>1. cur \in Loaded /\ cur \notin HeldSlots \cup QueuedSlots
    BY <1>0, <1>8 DEF FreeData, Loaded, SlotInOnePlace, CurSlots, Busy
  <2>2. Loaded' = Loaded \ {cur}
    BY <1>8, <2>1 DEF FreeData, senderVars, Loaded, HeldSlots, Pushing, QueuedSlots
  <2>3. UNCHANGED <<msg, sends, refused>> /\ freed' = freed \cup {msg[cur]}
    BY <1>8 DEF FreeData, senderVars
  <2>4. Sent' = Sent
    BY <2>3 DEF Sent
  <2> QED
    BY <2>1, <2>2, <2>3, <2>4 DEF MessagesAccounted
<1>9. CASE FreeSlot
  <2>1. Loaded' = Loaded
    BY <1>9 DEF FreeSlot, senderVars, Loaded, HeldSlots, Pushing, QueuedSlots
  <2> QED
    BY <1>9, <1>a, <2>1 DEF FreeSlot, senderVars
<1>10. CASE WorkerDestroy
  <2>1. Loaded = QueuedSlots
    BY <1>10 DEF WorkerDestroy, Loaded, HeldSlots, Pushing
  <2>2. Loaded' = {}
    BY <1>10 DEF WorkerDestroy, senderVars, Loaded, HeldSlots, Pushing, QueuedSlots
  <2>3. UNCHANGED <<msg, sends, refused>> /\ freed' = freed \cup {msg[s] : s \in Loaded}
    BY <1>10, <2>1 DEF WorkerDestroy, senderVars
  <2>4. Sent' = Sent
    BY <2>3 DEF Sent
  <2> QED
    BY <2>2, <2>3, <2>4 DEF MessagesAccounted
<1>11. CASE UNCHANGED vars
  <2>1. Loaded' = Loaded
    BY <1>11 DEF vars, senderVars, consumerVars, Loaded, HeldSlots, Pushing, QueuedSlots
  <2> QED
    BY <1>11, <1>a, <2>1 DEF vars, senderVars, consumerVars
<1> QED
  BY <1>1, <1>2, <1>3, <1>4, <1>5, <1>6, <1>7, <1>8, <1>9, <1>10, <1>11
     DEF Next, Send, Callback, Done

\* The five parties of MessageHasOneOwner are the loaded slots, by where they
\* are, and the two final states of a message.
LEMMA OneOwnerEach == IndInv /\ MessagesAccounted => MessageHasOneOwner
<1> SUFFICES ASSUME IndInv, MessagesAccounted, NEW p \in Producers, NEW n \in 1..sends[p]
             PROVE  LET m == <<p, n>>
                        claims == <<InHand(m), Queued(m), AtConsumer(m), m \in freed, m \in refused>>
                    IN  \E i \in 1..5 : \A j \in 1..5 : claims[j] <=> j = i
  BY DEF MessageHasOneOwner
<1> DEFINE m == <<p, n>>
           claims == <<InHand(m), Queued(m), AtConsumer(m), m \in freed, m \in refused>>
<1>0. TypeOK /\ ControlConsistent /\ SlotInOnePlace
  BY DEF IndInv
<1>1. m \in Sent
  BY <1>0, MaxSendsIsNat DEF Sent, Message, TypeOK
<1>2. InHand(m) <=> \E s \in HeldSlots : msg[s] = m
  BY DEF InHand, HeldSlots, Pushing
<1>3. Queued(m) <=> \E s \in QueuedSlots : msg[s] = m
  BY DEF Queued
<1> DEFINE C == IF cpc \in {"handle", "freedata"} THEN {cur} ELSE {}
<1>4. AtConsumer(m) <=> \E s \in C : msg[s] = m
  BY DEF AtConsumer
<1>5. Loaded = HeldSlots \cup QueuedSlots \cup C
  BY DEF Loaded
<1>6. HeldSlots \cap QueuedSlots = {} /\ HeldSlots \cap C = {} /\ QueuedSlots \cap C = {}
  BY <1>0 DEF SlotInOnePlace, CurSlots, Busy
<1> HIDE DEF C, m
<1>7. \/ InHand(m) \/ Queued(m) \/ AtConsumer(m) \/ m \in freed \/ m \in refused
  BY <1>1, <1>2, <1>3, <1>4, <1>5 DEF MessagesAccounted
<1>8. /\ InHand(m) => ~Queued(m) /\ ~AtConsumer(m) /\ m \notin freed /\ m \notin refused
      /\ Queued(m) => ~AtConsumer(m) /\ m \notin freed /\ m \notin refused
      /\ AtConsumer(m) => m \notin freed /\ m \notin refused
      /\ m \in freed => m \notin refused
  BY <1>2, <1>3, <1>4, <1>5, <1>6 DEF MessagesAccounted
<1>9. /\ claims[1] <=> InHand(m)
      /\ claims[2] <=> Queued(m)
      /\ claims[3] <=> AtConsumer(m)
      /\ claims[4] <=> m \in freed
      /\ claims[5] <=> m \in refused
  OBVIOUS
<1>10. \A j \in 1..5 : j = 1 \/ j = 2 \/ j = 3 \/ j = 4 \/ j = 5
  OBVIOUS
<1> HIDE DEF claims
<1>11. CASE InHand(m)
  <2>1. \A j \in 1..5 : claims[j] <=> j = 1
    BY <1>8, <1>9, <1>10, <1>11
  <2> QED
    BY <2>1 DEF claims, m
<1>12. CASE Queued(m)
  <2>1. \A j \in 1..5 : claims[j] <=> j = 2
    BY <1>8, <1>9, <1>10, <1>12
  <2> QED
    BY <2>1 DEF claims, m
<1>13. CASE AtConsumer(m)
  <2>1. \A j \in 1..5 : claims[j] <=> j = 3
    BY <1>8, <1>9, <1>10, <1>13
  <2> QED
    BY <2>1 DEF claims, m
<1>14. CASE m \in freed
  <2>1. \A j \in 1..5 : claims[j] <=> j = 4
    BY <1>8, <1>9, <1>10, <1>14
  <2> QED
    BY <2>1 DEF claims, m
<1>15. CASE m \in refused
  <2>1. \A j \in 1..5 : claims[j] <=> j = 5
    BY <1>8, <1>9, <1>10, <1>15
  <2> QED
    BY <2>1 DEF claims, m
<1> QED
  BY <1>7, <1>11, <1>12, <1>13, <1>14, <1>15

-----------------------------------------------------------------------------
(* The refinement of the mailbox. *)

\* The slots of the worker are its pool, its queue, and those in somebody's
\* hands, which the mailbox counts as busy.
LEMMA SlotsCounted ==
  ASSUME IndInv
  PROVE  /\ IsFiniteSet(Slots \ (pool \cup QueuedSlots)) /\ MailBusy \in Nat
         /\ Len(mq) \in Nat /\ Len(mq) + MailBusy = Cardinality(Slots \ pool)
<1> DEFINE R == Slots \ (pool \cup QueuedSlots)
<1>1. mq \in Seq(Slots) /\ IsInjective(mq) /\ QueuedSlots = ToSet(mq)
  BY DEF IndInv, TypeOK, SlotInOnePlace, IsInjective, QueuedSlots, ToSet
<1>2. IsFiniteSet(QueuedSlots) /\ Cardinality(QueuedSlots) = Len(mq) /\ Len(mq) \in Nat
  BY <1>1, DistinctLength, LenProperties
<1>3. IsFiniteSet(R) /\ Cardinality(R) \in Nat
  BY SlotsFinite, FS_Subset, FS_CardinalityType
<1>4. R \cap QueuedSlots = {} /\ R \cup QueuedSlots = Slots \ pool
  BY DEF IndInv, SlotInOnePlace
<1>5. Cardinality(R \cup QueuedSlots) = Cardinality(R) + Cardinality(QueuedSlots) - Cardinality(R \cap QueuedSlots)
  BY <1>2, <1>3, FS_Union
<1>6. Cardinality(R \cap QueuedSlots) = 0
  BY <1>4, FS_EmptySet
<1>7. MailBusy = Cardinality(R)
  BY DEF MailBusy
<1> HIDE DEF R
<1>8. Cardinality(Slots \ pool) = Cardinality(R) + Len(mq)
  <2>1. Cardinality(Slots \ pool) = Cardinality(R) + Len(mq) - 0
    BY <1>2, <1>4, <1>5, <1>6, Zenon
  <2> QED
    BY <1>2, <1>3, <2>1
<1>9. Len(mq) + MailBusy = Cardinality(Slots \ pool) /\ MailBusy \in Nat
  BY <1>2, <1>3, <1>7, <1>8
<1> QED
  BY <1>2, <1>3, <1>9 DEF R

\* worker_init makes an empty mailbox.
LEMMA MailboxInit == Init => Box!Init
<1> SUFFICES ASSUME Init PROVE MailQueue = <<>> /\ MailBusy = 0
  BY DEF Box!Init
<1>1. DOMAIN mq = {} /\ Slots \ (pool \cup QueuedSlots) = {}
  BY DEF Init
<1>2. MailBusy = 0
  BY <1>1, FS_EmptySet DEF MailBusy
<1>3. MailQueue = <<>>
  BY DEF Init, MailQueue
<1> QED
  BY <1>2, <1>3

\* Every step of the worker is one of the mailbox or changes nothing there:
\* pool_new reserves, conqueue_push enqueues, conqueue_pop dequeues and
\* pool_free releases; system calls and callbacks in between are invisible.
LEMMA MailboxStep == IndInv /\ [Next]_vars => [Box!Next]_Box!mvars
<1> SUFFICES ASSUME IndInv, [Next]_vars PROVE [Box!Next]_Box!mvars
  OBVIOUS
<1>0. TypeOK /\ ControlConsistent /\ SlotInOnePlace
  BY DEF IndInv
<1>a. ASSUME UNCHANGED <<pool, mq, msg>> PROVE [Box!Next]_Box!mvars
  <2>1. UNCHANGED <<MailQueue, MailBusy>>
    BY <1>a DEF MailQueue, MailBusy, QueuedSlots
  <2> QED
    BY <2>1 DEF Box!mvars
<1>b. mq \in Seq(Slots) /\ DOMAIN mq = 1..Len(mq) /\ Len(mq) \in Nat
  BY <1>0, LenProperties DEF TypeOK
<1>c. MailQueue \in Seq(Message) /\ Len(MailQueue) = Len(mq)
  <2>1. \A i \in 1..Len(mq) : msg[mq[i]] \in Message
    BY <1>0, <1>b DEF ControlConsistent, SlotInOnePlace, QueuedSlots
  <2>2. MailQueue = [i \in 1..Len(mq) |-> msg[mq[i]]]
    BY <1>b DEF MailQueue
  <2> QED
    BY <1>b, <2>1, <2>2, IsASeq
<1> DEFINE R == Slots \ (pool \cup QueuedSlots)
<1>1. ASSUME NEW p \in Producers, PoolNew(p) PROVE Box!Reserve
  <2>1. PICK s \in pool : /\ pool' = pool \ {s}
                          /\ msg' = [msg EXCEPT ![s] = NextMsg(p)]
    BY <1>1 DEF PoolNew
  <2>2. mq' = mq /\ QueuedSlots' = QueuedSlots /\ s \in Slots /\ s \notin QueuedSlots
    BY <1>0, <1>1, <2>1 DEF PoolNew, QueuedSlots, SlotInOnePlace, TypeOK
  <2>3. R' = R \cup {s} /\ s \notin R
    BY <2>1, <2>2
  <2>4. MailBusy' = MailBusy + 1
    BY <2>3, SlotsCounted, FS_AddElement DEF MailBusy
  <2>5. MailQueue' = MailQueue
    BY <1>0, <2>1, <2>2 DEF MailQueue, QueuedSlots, TypeOK
  <2>6. Len(mq) + MailBusy < Capacity
    <3>1. /\ Slots \ pool \subseteq Slots \ {s}
          /\ IsFiniteSet(Slots \ {s}) /\ Cardinality(Slots \ {s}) = Cardinality(Slots) - 1
      BY <2>1, <2>2, SlotsFinite, FS_RemoveElement
    <3>2. Cardinality(Slots \ pool) <= Cardinality(Slots \ {s})
      BY <3>1, FS_Subset
    <3> QED
      BY <3>1, <3>2, SlotsFinite, FS_CardinalityType, SlotsCounted DEF Capacity
  <2> QED
    BY <1>c, <2>4, <2>5, <2>6 DEF Box!Reserve
<1>2. ASSUME NEW p \in Producers, Push(p) PROVE Box!Enqueue
  <2>1. held[p] \in Slots /\ Len(mq) < Capacity
    BY <1>2, PushFindsRoom DEF Push
  <2>2. mq' = Append(mq, held[p]) /\ pool' = pool /\ msg' = msg
    BY <1>2, <2>1 DEF Push
  <2>3. QueuedSlots' = QueuedSlots \cup {held[p]}
    BY <1>b, <2>1, <2>2, AppendSet DEF QueuedSlots, ToSet
  <2>4. held[p] \in R /\ msg[held[p]] \in Message
    BY <1>0, <1>2, <2>1 DEF Push, HeldSlots, Pushing, SlotInOnePlace, ControlConsistent
  <2>5. R' = R \ {held[p]}
    BY <2>2, <2>3
  <2>6. MailBusy' = MailBusy - 1 /\ MailBusy > 0
    <3>1. MailBusy' = MailBusy - 1
      BY <2>4, <2>5, SlotsCounted, FS_RemoveElement DEF MailBusy
    <3>2. MailBusy # 0
      BY <2>4, SlotsCounted, FS_EmptySet DEF MailBusy
    <3> QED
      BY <3>1, <3>2, SlotsCounted
  <2>7. MailQueue' = Append(MailQueue, msg[held[p]])
    <3>1. DOMAIN mq' = 1..(Len(mq) + 1) /\ mq'[Len(mq) + 1] = held[p] /\ \A i \in 1..Len(mq) : mq'[i] = mq[i]
      BY <1>b, <2>1, <2>2, AppendElements
    <3>2. MailQueue' = [i \in 1..(Len(mq) + 1) |-> msg[mq'[i]]]
      BY <2>2, <3>1 DEF MailQueue
    <3>3. \A i \in 1..Len(mq) : MailQueue[i] = msg[mq[i]]
      BY <1>b DEF MailQueue
    <3>4. /\ DOMAIN Append(MailQueue, msg[held[p]]) = 1..(Len(mq) + 1)
          /\ \A i \in 1..Len(mq) : Append(MailQueue, msg[held[p]])[i] = MailQueue[i]
          /\ Append(MailQueue, msg[held[p]])[Len(mq) + 1] = msg[held[p]]
          /\ Append(MailQueue, msg[held[p]]) \in Seq(Message)
          /\ Len(Append(MailQueue, msg[held[p]])) = Len(mq) + 1
      BY <1>c, <2>4, AppendElements
    <3>5. \A i \in 1..(Len(mq) + 1) : Append(MailQueue, msg[held[p]])[i] = msg[mq'[i]]
      BY <1>b, <3>1, <3>3, <3>4
    <3> QED
      BY <3>2, <3>4, <3>5
  <2> QED
    BY <2>4, <2>6, <2>7 DEF Box!Enqueue
<1>3. CASE Pop
  <2>1. mq # <<>>
    BY <1>3, PopFindsMessage DEF Pop
  <2>2. mq' = Tail(mq) /\ pool' = pool /\ msg' = msg
    BY <1>3, <2>1 DEF Pop
  <2>3. IsInjective(mq)
    BY <1>0 DEF SlotInOnePlace, IsInjective
  <2>4. QueuedSlots' = QueuedSlots \ {Head(mq)} /\ Head(mq) \in QueuedSlots /\ Head(mq) \in Slots
    <3>1. QueuedSlots = ToSet(mq) /\ QueuedSlots' = ToSet(Tail(mq))
      BY <2>2 DEF QueuedSlots, ToSet
    <3> QED
      BY <1>b, <2>1, <2>3, <3>1, TailSet, TailElements
  <2>5. R' = R \cup {Head(mq)} /\ Head(mq) \notin R
    BY <1>0, <2>2, <2>4 DEF SlotInOnePlace
  <2>6. MailBusy' = MailBusy + 1
    BY <2>5, SlotsCounted, FS_AddElement DEF MailBusy
  <2>7. MailQueue # <<>>
    BY <1>b, <1>c, <2>1, EmptySeq
  <2>8. MailQueue' = Tail(MailQueue)
    <3>1. DOMAIN mq' = 1..(Len(mq) - 1) /\ \A i \in 1..(Len(mq) - 1) : mq'[i] = mq[i + 1]
      BY <1>b, <2>1, <2>2, TailElements
    <3>2. MailQueue' = [i \in 1..(Len(mq) - 1) |-> msg[mq'[i]]]
      BY <2>2, <3>1 DEF MailQueue
    <3>3. \A i \in 1..Len(mq) : MailQueue[i] = msg[mq[i]]
      BY <1>b DEF MailQueue
    <3>4. /\ Tail(MailQueue) \in Seq(Message) /\ Len(Tail(MailQueue)) = Len(mq) - 1
          /\ DOMAIN Tail(MailQueue) = 1..(Len(mq) - 1)
          /\ \A i \in 1..(Len(mq) - 1) : Tail(MailQueue)[i] = MailQueue[i + 1]
      BY <1>c, <2>7, TailElements
    <3>5. \A i \in 1..(Len(mq) - 1) : Tail(MailQueue)[i] = msg[mq'[i]]
      BY <1>b, <3>1, <3>3, <3>4
    <3>6. Tail(MailQueue) = [i \in 1..(Len(mq) - 1) |-> Tail(MailQueue)[i]]
      BY <3>4, LenProperties
    <3> QED
      BY <3>2, <3>5, <3>6
  <2> QED
    BY <2>6, <2>7, <2>8 DEF Box!Next, Box!Dequeue
<1>4. CASE FreeSlot
  <2>1. cur \in R /\ mq' = mq /\ msg' = msg /\ pool' = pool \cup {cur}
    BY <1>0, <1>4 DEF FreeSlot, ControlConsistent, SlotInOnePlace, CurSlots, Busy
  <2>2. R' = R \ {cur}
    BY <2>1 DEF QueuedSlots
  <2>3. MailBusy' = MailBusy - 1 /\ MailBusy > 0
    <3>1. MailBusy' = MailBusy - 1
      BY <2>1, <2>2, SlotsCounted, FS_RemoveElement DEF MailBusy
    <3>2. MailBusy # 0
      BY <2>1, SlotsCounted, FS_EmptySet DEF MailBusy
    <3> QED
      BY <3>1, <3>2, SlotsCounted
  <2>4. MailQueue' = MailQueue
    BY <2>1 DEF MailQueue
  <2> QED
    BY <2>3, <2>4 DEF Box!Next, Box!Release
<1>5. CASE WorkerDestroy
  <2>1. R = {} /\ R' = {}
    BY <1>0, <1>5 DEF WorkerDestroy, SlotInOnePlace, HeldSlots, Pushing, CurSlots, Busy, QueuedSlots
  <2>2. MailBusy = 0 /\ MailBusy' = 0
    BY <2>1, FS_EmptySet DEF MailBusy
  <2>3. MailQueue' = <<>>
    BY <1>5 DEF WorkerDestroy, MailQueue
  <2> QED
    BY <2>2, <2>3 DEF Box!Next, Box!Drain
<1>6. ASSUME NEW p \in Producers, SendRefused(p) \/ Notify(p) PROVE [Box!Next]_Box!mvars
  BY <1>6, <1>a DEF SendRefused, Notify
<1>7. CASE ReadEvent \/ OnMessage \/ FreeData
  BY <1>7, <1>a DEF ReadEvent, OnMessage, FreeData
<1>8. CASE UNCHANGED vars
  BY <1>8, <1>a DEF vars
<1>9. ASSUME NEW p \in Producers, Send(p) PROVE [Box!Next]_Box!mvars
  BY <1>1, <1>2, <1>6, <1>9 DEF Send, Box!Next
<1>10. CASE Callback
  BY <1>3, <1>4, <1>7, <1>10 DEF Callback
<1> QED
  BY <1>5, <1>8, <1>9, <1>10 DEF Next, Done

-----------------------------------------------------------------------------
(* The theorems. *)

\* IndInv holds in every reachable state of the worker.
THEOREM WorkerInvariant == Spec => []IndInv
<1>1. IndInv /\ [Next]_vars => IndInv'
  BY TypeStep, ControlStep, SlotStep, WakeupStep, EnsuresStep DEF IndInv
<1> QED
  BY InitIndInv, <1>1, PTL DEF Spec

\* Type correctness of the worker's state.
THEOREM WorkerTypeCorrect == Spec => []TypeOK
<1>1. IndInv => TypeOK
  BY DEF IndInv
<1> QED
  BY WorkerInvariant, <1>1, PTL

\* The "Should not fail" comments of worker.c are right: with any number of
\* sending threads and any mq_capacity, callback never pops an empty queue,
\* worker_send never pushes to a full one and pool_free never overfills the
\* pool.
THEOREM WorkerEnsuresHold == Spec => []EnsuresHold
<1>1. IndInv => EnsuresHold
  BY DEF IndInv
<1> QED
  BY WorkerInvariant, <1>1, PTL

\* No message_t slot leaks, is freed twice or is shared by two threads.
THEOREM WorkerSlotOwnership == Spec => []SlotInOnePlace
<1>1. IndInv => SlotInOnePlace
  BY DEF IndInv
<1> QED
  BY WorkerInvariant, <1>1, PTL

\* The eventfd counter announces exactly the messages that are queued.
THEOREM WorkerWakeups == Spec => []WakeupsMatchMessages
<1>1. IndInv => WakeupsMatchMessages
  BY DEF IndInv
<1> QED
  BY WorkerInvariant, <1>1, PTL

\* The data of every message handed to worker_send is freed exactly once, by
\* the worker or, when worker_send returns false, by its caller.
THEOREM WorkerMessageOwnership == Spec => []MessageHasOneOwner
<1>1. Init => MessagesAccounted
  <2> SUFFICES ASSUME Init PROVE MessagesAccounted
    OBVIOUS
  <2>1. Loaded = {} /\ freed = {} /\ refused = {}
    BY DEF Init, Loaded, HeldSlots, Pushing, QueuedSlots
  <2>2. Sent = {}
    <3>1. \A m \in Message : m[1] \in Producers /\ m[2] \in Nat /\ m[2] >= 1
      BY MaxSendsIsNat DEF Message
    <3> QED
      BY <3>1 DEF Init, Sent
  <2> QED
    BY <2>1, <2>2 DEF MessagesAccounted
<1>2. IndInv /\ MessagesAccounted /\ [Next]_vars => MessagesAccounted'
  BY MessagesStep
<1>3. IndInv /\ MessagesAccounted => MessageHasOneOwner
  BY OneOwnerEach
<1> QED
  BY WorkerInvariant, <1>1, <1>2, <1>3, PTL DEF Spec

\* worker.c implements a bounded first-in first-out mailbox: seen through
\* MailQueue and MailBusy, every step is a step of module Mailbox or none, for
\* any number of senders, any capacity and any interleaving.
THEOREM WorkerRefinesMailbox == Spec => Box!SafeSpec
<1>1. Init => Box!Init
  BY MailboxInit
<1>2. IndInv /\ [Next]_vars => [Box!Next]_Box!mvars
  BY MailboxStep
<1> QED
  BY WorkerInvariant, <1>1, <1>2, PTL DEF Spec, Box!SafeSpec
=============================================================================
