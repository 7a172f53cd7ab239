---------------------------- MODULE TunnelProofs ----------------------------
(***************************************************************************)
(* Proofs about the threads of a tunnel node, for any number of            *)
(* processors, any pool size and any range of block ids.  IndInv (module   *)
(* Tunnel) is inductive: it puts every receive buffer in one place, ties   *)
(* the message slots of each worker to its queue, and every routed packet  *)
(* to the decoder its block id names.                                      *)
(***************************************************************************)
EXTENDS Tunnel, SequenceFacts

-----------------------------------------------------------------------------
(* Numbers. *)

\* The remainder and the quotient that nt_tun_handle_read computes are a
\* processor and a block id, and determine the id they come from.
LEMMA Division ==
  ASSUME NEW n \in Nat \ {0}, NEW a \in Nat
  PROVE  /\ a % n \in 0..(n - 1)
         /\ a \div n \in 0..a
         /\ a = n * (a \div n) + (a % n)
<1>1. a % n \in 0..(n - 1) /\ a \div n \in Nat /\ a = n * (a \div n) + (a % n)
  OBVIOUS
<1> DEFINE q == a \div n
<1>2. n * q >= q
  <2> HIDE DEF q
  <2>1. q \in Nat
    BY <1>1 DEF q
  <2> QED
    BY <2>1
<1> QED
  BY <1>1, <1>2

\* mq_capacity is a number, and a pool with a buffer in use is not empty.
LEMMA CapacityIsNat == Capacity \in Nat
BY BuffersAssumption, FS_CardinalityType DEF Capacity

\* Two packets with the same remainder and the same quotient have the same
\* block id.
LEMMA RoutedTogether ==
  ASSUME NEW a \in BlockId, NEW b \in BlockId,
         a % ProcessorNum = b % ProcessorNum, a \div ProcessorNum = b \div ProcessorNum
  PROVE  a = b
<1>1. a \in Nat /\ b \in Nat /\ ProcessorNum \in Nat \ {0}
  BY MaxBlockAssumption, ProcessorAssumption DEF BlockId
<1> QED
  BY <1>1, Division

-----------------------------------------------------------------------------
(* The initial state. *)

\* After the node's start-up every buffer is in its pool.
LEMMA InitIndInv == Init => IndInv
<1> SUFFICES ASSUME Init PROVE IndInv
  OBVIOUS
<1> USE ProcessorAssumption, BuffersAssumption, MaxBlockAssumption, CapacityIsNat
<1>1. TypeOK
  <2>1. 0 \in Processor /\ 0 \in BlockId /\ "api" \in Listener /\ Capacity \in 0..Capacity
    BY DEF Processor, BlockId, Listener
  <2>2. <<>> \in Seq(Buffers)
    OBVIOUS
  <2>3. stay \in BOOLEAN
    BY DEF Init
  <2> QED
    BY <2>1, <2>2, <2>3 DEF Init, TypeOK
<1>2. \A l \in Listener, p \in Processor : queue[l][p] = <<>> /\ Queued(l, p) = {} /\ Handled(l, p) = {}
  BY DEF Init, Queued, Handled, ToSet
<1>3. \A l \in Listener : InHand(l) = {} /\ free[l] = Buffers
  BY DEF Init, InHand
<1>4. ControlConsistent
  BY DEF Init, ControlConsistent
<1>5. QueuesInjective /\ PlacesDisjoint /\ PlacesExhaust
  BY <1>2, <1>3 DEF QueuesInjective, PlacesDisjoint, PlacesExhaust, IsInjective
<1>6. SlotsAccounted
  BY DEF Init, SlotsAccounted, Reserved, InService
<1>7. RoutedByBlock
  BY <1>2 DEF Init, RoutedByBlock, AtDecoder, Listener
<1>8. SameEncoderOnlyWhenIdle
  BY DEF Init, SameEncoderOnlyWhenIdle, Listener
<1> QED
  BY <1>1, <1>4, <1>5, <1>6, <1>7, <1>8 DEF IndInv

-----------------------------------------------------------------------------
(* Types and control. *)

\* What RouteTun computes is of the right type.
LEMMA RouteTypes ==
  /\ \A id \in BlockId : id % ProcessorNum \in Processor /\ id \div ProcessorNum \in BlockId
  /\ \A p \in Processor : (p + 1) % ProcessorNum \in Processor
<1> USE ProcessorAssumption, MaxBlockAssumption DEF Processor, BlockId
<1>1. ASSUME NEW id \in BlockId
      PROVE  id % ProcessorNum \in Processor /\ id \div ProcessorNum \in BlockId
  <2>1. id \in Nat
    OBVIOUS
  <2>2. id % ProcessorNum \in 0..(ProcessorNum - 1) /\ id \div ProcessorNum \in 0..id
    BY <2>1, Division
  <2> QED
    BY <2>2
<1>2. ASSUME NEW p \in Processor PROVE (p + 1) % ProcessorNum \in Processor
  <2>1. p + 1 \in Nat
    OBVIOUS
  <2> QED
    BY <2>1, Division
<1> QED
  BY <1>1, <1>2

\* Every step of a handler and of a callback keeps the types.
LEMMA TypeStep == IndInv /\ [Next]_vars => TypeOK'
<1> SUFFICES ASSUME IndInv, [Next]_vars PROVE TypeOK'
  OBVIOUS
<1>a. \A c \in 0..Capacity : c > 0 => c - 1 \in 0..Capacity
  BY CapacityIsNat
<1>b. \A c \in 0..Capacity, r, n \in Nat : c + r + n + 1 = Capacity => c + 1 \in 0..Capacity
  BY CapacityIsNat
<1> USE CapacityIsNat, ProcessorAssumption, MaxBlockAssumption DEF IndInv, TypeOK
<1>0. 0 \in Processor /\ 0 \in BlockId /\ "api" \in Listener /\ "tun" \in Listener
  BY DEF Processor, BlockId, Listener
<1>1. ASSUME NEW l \in Listener, TakeBuffer(l) PROVE TypeOK'
  <2>1. PICK b \in free[l] : free' = [free EXCEPT ![l] = @ \ {b}] /\ lbuf' = [lbuf EXCEPT ![l] = b]
    BY <1>1 DEF TakeBuffer
  <2>2. b \in Buffers /\ free' \in [Listener -> SUBSET Buffers] /\ lbuf' \in [Listener -> Buffers \cup {NoBuffer}]
    BY <2>1
  <2> QED
    BY <1>1, <2>2 DEF TakeBuffer, workVars
<1>2. ASSUME NEW l \in Listener, lpc[l] # "idle", GiveBack(l), UNCHANGED <<last, workVars>>
      PROVE TypeOK'
  <2>1. lbuf[l] \in Buffers
    BY <1>2 DEF ControlConsistent
  <2> QED
    BY <1>0, <1>2, <2>1 DEF GiveBack, Forget, Return, workVars
<1>3. ASSUME NEW l \in Listener, Reject(l) PROVE TypeOK'
  BY <1>2, <1>3 DEF Reject
<1>4. CASE RouteApi
  <2>1. (last + 1) % ProcessorNum \in Processor
    BY RouteTypes
  <2>2. stay' \in BOOLEAN
    BY <1>4 DEF RouteApi
  <2> QED
    BY <1>0, <1>4, <2>1, <2>2 DEF RouteApi, workVars
<1>5. ASSUME NEW id \in BlockId, RouteTun(id) PROVE TypeOK'
  <2>1. id % ProcessorNum \in Processor /\ id \div ProcessorNum \in BlockId
    BY RouteTypes
  <2> QED
    BY <1>0, <1>5, <2>1 DEF RouteTun, workVars
<1>6. ASSUME NEW l \in Listener, Reserve(l) PROVE TypeOK'
  <2>0. credit[l][lproc[l]] \in 0..Capacity /\ credit[l][lproc[l]] > 0
    BY <1>6 DEF Reserve
  <2>1. credit[l][lproc[l]] - 1 \in 0..Capacity
    BY <1>a, <2>0
  <2>2. credit' \in [Listener -> [Processor -> 0..Capacity]]
    BY <1>6, <2>1 DEF Reserve
  <2> QED
    BY <1>6, <2>2 DEF Reserve
<1>7. ASSUME NEW l \in Listener, BusyDrop(l) PROVE TypeOK'
  BY <1>2, <1>7 DEF BusyDrop
<1>8. ASSUME NEW l \in Listener, Enqueue(l) PROVE TypeOK'
  <2>1. lbuf[l] \in Buffers
    BY <1>8 DEF ControlConsistent, Enqueue
  <2>2. Append(queue[l][lproc[l]], lbuf[l]) \in Seq(Buffers)
    BY <2>1, AppendElements
  <2>3. stay' \in BOOLEAN
    BY <1>8 DEF Enqueue, Return
  <2> QED
    BY <1>0, <1>8, <2>2, <2>3 DEF Enqueue, Return
<1>9. ASSUME NEW l \in Listener, NEW p \in Processor, Dequeue(l, p) PROVE TypeOK'
  <2>1. Tail(queue[l][p]) \in Seq(Buffers) /\ Head(queue[l][p]) \in Buffers
    BY <1>9, TailElements DEF Dequeue
  <2> QED
    BY <1>9, <2>1 DEF Dequeue, listenVars
<1>10. ASSUME NEW p \in Processor, Handle(p) PROVE TypeOK'
  <2>1. pbuf[p] \in Buffers
    BY <1>10 DEF ControlConsistent, Handle
  <2> QED
    BY <1>0, <1>10, <2>1 DEF Handle, Forget
<1>11. ASSUME NEW p \in Processor, Release(p) PROVE TypeOK'
  <2>1. credit[pjob[p]][p] + 1 \in 0..Capacity
    <3>1. credit[pjob[p]][p] + Reserved(pjob[p], p) + Len(queue[pjob[p]][p]) + 1 = Capacity
      BY <1>11 DEF SlotsAccounted, InService, Release
    <3>2. Reserved(pjob[p], p) \in Nat /\ Len(queue[pjob[p]][p]) \in Nat
      BY LenProperties DEF Reserved
    <3>3. credit[pjob[p]][p] \in 0..Capacity
      OBVIOUS
    <3> QED
      BY <1>b, <3>1, <3>2, <3>3
  <2> QED
    BY <1>0, <1>11, <2>1 DEF Release, listenVars
<1>12. CASE UNCHANGED vars
  BY <1>12 DEF vars, listenVars, workVars
<1> QED
  BY <1>1, <1>3, <1>4, <1>5, <1>6, <1>7, <1>8, <1>9, <1>10, <1>11, <1>12
  DEF Next, ListenerStep, Route

\* Whoever is inside a handler keeps a buffer until it has passed it on.
LEMMA ControlStep == IndInv /\ [Next]_vars => ControlConsistent'
<1> SUFFICES ASSUME IndInv, [Next]_vars PROVE ControlConsistent'
  OBVIOUS
<1> USE DEF IndInv, TypeOK, ControlConsistent
<1>1. ASSUME NEW l \in Listener, TakeBuffer(l) PROVE ControlConsistent'
  BY <1>1 DEF TakeBuffer, workVars
<1>2. ASSUME NEW l \in Listener, Reject(l) PROVE ControlConsistent'
  BY <1>2 DEF Reject, GiveBack, Return, workVars
<1>3. CASE RouteApi
  BY <1>3 DEF RouteApi, workVars, Listener
<1>4. ASSUME NEW id \in BlockId, RouteTun(id) PROVE ControlConsistent'
  BY <1>4 DEF RouteTun, workVars, Listener
<1>5. ASSUME NEW l \in Listener, Reserve(l) PROVE ControlConsistent'
  BY <1>5 DEF Reserve
<1>6. ASSUME NEW l \in Listener, BusyDrop(l) PROVE ControlConsistent'
  BY <1>6 DEF BusyDrop, GiveBack, Return, workVars
<1>7. ASSUME NEW l \in Listener, Enqueue(l) PROVE ControlConsistent'
  BY <1>7 DEF Enqueue, Return
<1>8. ASSUME NEW l \in Listener, NEW p \in Processor, Dequeue(l, p) PROVE ControlConsistent'
  <2>1. Head(queue[l][p]) \in Buffers
    BY <1>8, TailElements DEF Dequeue
  <2> QED
    BY <1>8, <2>1 DEF Dequeue, listenVars
<1>9. ASSUME NEW p \in Processor, Handle(p) PROVE ControlConsistent'
  BY <1>9 DEF Handle
<1>10. ASSUME NEW p \in Processor, Release(p) PROVE ControlConsistent'
  BY <1>10 DEF Release, listenVars
<1>11. CASE UNCHANGED vars
  BY <1>11 DEF vars, listenVars, workVars
<1> QED
  BY <1>1, <1>2, <1>3, <1>4, <1>5, <1>6, <1>7, <1>8, <1>9, <1>10, <1>11
  DEF Next, ListenerStep, Route

-----------------------------------------------------------------------------
(* Every buffer stays in one place. *)

\* The buffer that is moved by a step is in the place it is taken from: a
\* listener takes it from its pool and returns it there or queues it; a
\* processor takes it off the queue and gives it back to the pool it is from.
LEMMA PlacesStep ==
  IndInv /\ [Next]_vars => (QueuesInjective /\ PlacesDisjoint /\ PlacesExhaust)'
<1> DEFINE Places == QueuesInjective /\ PlacesDisjoint /\ PlacesExhaust
<1> SUFFICES ASSUME IndInv, [Next]_vars PROVE Places'
  OBVIOUS
<1>0. TypeOK /\ ControlConsistent /\ QueuesInjective /\ PlacesDisjoint /\ PlacesExhaust
  BY DEF IndInv
<1>1. ASSUME NEW l \in Listener, TakeBuffer(l) PROVE Places'
  <2>1. PICK b \in free[l] : free' = [free EXCEPT ![l] = @ \ {b}] /\ lbuf' = [lbuf EXCEPT ![l] = b]
    BY <1>1 DEF TakeBuffer
  <2>2. \A m \in Listener : InHand(m)' = IF m = l THEN {b} ELSE InHand(m)
    BY <1>0, <1>1, <2>1 DEF TakeBuffer, InHand, TypeOK
  <2>3. InHand(l) = {}
    BY <1>1 DEF TakeBuffer, InHand
  <2>4. \A m \in Listener, p \in Processor : Queued(m, p)' = Queued(m, p) /\ Handled(m, p)' = Handled(m, p)
    BY <1>1 DEF TakeBuffer, workVars, Queued, Handled
  <2>5. \A m \in Listener : free'[m] = IF m = l THEN free[m] \ {b} ELSE free[m]
    BY <1>0, <2>1 DEF TypeOK
  <2>6. QueuesInjective'
    BY <1>0, <1>1 DEF TakeBuffer, workVars, QueuesInjective
  <2>7. PlacesDisjoint'
    BY <1>0, <2>1, <2>2, <2>3, <2>4, <2>5 DEF PlacesDisjoint
  <2>8. PlacesExhaust'
    BY <1>0, <2>2, <2>3, <2>4, <2>5 DEF PlacesExhaust
  <2> QED
    BY <2>6, <2>7, <2>8
<1>2. ASSUME NEW l \in Listener, lpc[l] # "idle", GiveBack(l), UNCHANGED <<last, workVars>>
      PROVE Places'
  <2>1. PICK b : /\ InHand(l) = {b}
                 /\ \A m \in Listener : \A x : x \in free'[m] <=> x \in free[m] \/ (m = l /\ x = b)
    BY <1>0, <1>2 DEF GiveBack, InHand, TypeOK
  <2>2. \A m \in Listener : InHand(m)' = IF m = l THEN {} ELSE InHand(m)
    BY <1>0, <1>2 DEF GiveBack, Return, InHand, TypeOK
  <2>3. \A m \in Listener, p \in Processor : Queued(m, p)' = Queued(m, p) /\ Handled(m, p)' = Handled(m, p)
    BY <1>2 DEF workVars, Queued, Handled
  <2>4. QueuesInjective'
    BY <1>0, <1>2 DEF workVars, QueuesInjective
  <2>m. \A p \in Processor : b \notin Queued(l, p) \cup Handled(l, p)
    BY <1>0, <2>1 DEF PlacesDisjoint
  <2>5. PlacesDisjoint'
    BY <1>0, <2>1, <2>2, <2>3, <2>m DEF PlacesDisjoint
  <2>6. PlacesExhaust'
    BY <1>0, <2>1, <2>2, <2>3 DEF PlacesExhaust
  <2> QED
    BY <2>4, <2>5, <2>6
<1>3. ASSUME NEW l \in Listener, Reject(l) PROVE Places'
  BY <1>2, <1>3 DEF Reject
<1>4. ASSUME UNCHANGED <<free, lbuf, queue>>,
             \A l \in Listener : lpc'[l] = "idle" <=> lpc[l] = "idle",
             \A l \in Listener, p \in Processor : Handled(l, p)' = Handled(l, p)
      PROVE  Places'
  <2>1. \A m \in Listener : InHand(m)' = InHand(m) /\ free'[m] = free[m]
    BY <1>4 DEF InHand
  <2>2. \A m \in Listener, p \in Processor : Queued(m, p)' = Queued(m, p) /\ Handled(m, p)' = Handled(m, p)
    BY <1>4 DEF Queued
  <2>3. QueuesInjective'
    BY <1>0, <1>4 DEF QueuesInjective
  <2>4. PlacesDisjoint'
    BY <1>0, <2>1, <2>2 DEF PlacesDisjoint
  <2>5. PlacesExhaust'
    BY <1>0, <2>1, <2>2 DEF PlacesExhaust
  <2> QED
    BY <2>3, <2>4, <2>5
<1>5. CASE RouteApi
  BY <1>0, <1>4, <1>5 DEF RouteApi, workVars, Handled, TypeOK
<1>6. ASSUME NEW id \in BlockId, RouteTun(id) PROVE Places'
  BY <1>0, <1>4, <1>6 DEF RouteTun, workVars, Handled, TypeOK
<1>7. ASSUME NEW l \in Listener, Reserve(l) PROVE Places'
  BY <1>0, <1>4, <1>7 DEF Reserve, Handled, TypeOK
<1>8. ASSUME NEW l \in Listener, BusyDrop(l) PROVE Places'
  BY <1>2, <1>8 DEF BusyDrop
<1>9. ASSUME NEW l \in Listener, Enqueue(l) PROVE Places'
  <2> DEFINE b == lbuf[l]
             r == lproc[l]
             s == queue[l][r]
  <2>1. InHand(l) = {b} /\ b \in Buffers /\ r \in Processor
    BY <1>0, <1>9 DEF Enqueue, InHand, ControlConsistent, TypeOK
  <2>2. b \notin ToSet(s) /\ s \in Seq(Buffers) /\ IsInjective(s) /\ Queued(l, r) = ToSet(s)
    <3>1. b \notin Queued(l, r)
      BY <1>0, <2>1 DEF PlacesDisjoint
    <3>2. s \in Seq(Buffers) /\ IsInjective(s) /\ Queued(l, r) = ToSet(s)
      BY <1>0, <2>1 DEF QueuesInjective, TypeOK, Queued
    <3> QED
      BY <3>1, <3>2
  <2>3. \A m \in Listener : InHand(m)' = IF m = l THEN {} ELSE InHand(m)
    BY <1>0, <1>9 DEF Enqueue, Return, InHand, TypeOK
  <2>4. \A m \in Listener, p \in Processor :
           queue'[m][p] = IF m = l /\ p = r THEN Append(s, b) ELSE queue[m][p]
    BY <1>0, <1>9 DEF Enqueue, TypeOK
  <2>5. ToSet(Append(s, b)) = ToSet(s) \cup {b} /\ IsInjective(Append(s, b))
    <3> HIDE DEF s, b
    <3> QED
      BY <2>1, <2>2, AppendSet
  <2>6. \A m \in Listener, p \in Processor :
           Queued(m, p)' = IF m = l /\ p = r THEN Queued(m, p) \cup {b} ELSE Queued(m, p)
    BY <2>2, <2>4, <2>5 DEF Queued
  <2>7. \A m \in Listener, p \in Processor : Handled(m, p)' = Handled(m, p)
    BY <1>9 DEF Enqueue, Handled
  <2>8. QueuesInjective'
    BY <1>0, <2>4, <2>5 DEF QueuesInjective
  <2>9. free' = free
    BY <1>9 DEF Enqueue
  <2> HIDE DEF b, r, s
  <2>10. PlacesDisjoint'
    BY <1>0, <2>1, <2>3, <2>6, <2>7, <2>9 DEF PlacesDisjoint
  <2>11. PlacesExhaust'
    BY <1>0, <2>1, <2>3, <2>6, <2>7, <2>9 DEF PlacesExhaust
  <2> QED
    BY <2>8, <2>10, <2>11
<1>10. ASSUME NEW l \in Listener, NEW r \in Processor, Dequeue(l, r) PROVE Places'
  <2> DEFINE s == queue[l][r]
             b == Head(s)
  <2>1. s \in Seq(Buffers) /\ s # <<>> /\ IsInjective(s) /\ Queued(l, r) = ToSet(s)
    BY <1>0, <1>10 DEF QueuesInjective, Dequeue, TypeOK, Queued
  <2>2. ToSet(Tail(s)) = ToSet(s) \ {b} /\ b \in ToSet(s) /\ IsInjective(Tail(s))
    <3> HIDE DEF s
    <3> QED
      BY <2>1, TailSet
  <2>3. \A m \in Listener, p \in Processor :
           queue'[m][p] = IF m = l /\ p = r THEN Tail(s) ELSE queue[m][p]
    BY <1>0, <1>10 DEF Dequeue, TypeOK
  <2>4. \A m \in Listener, p \in Processor :
           Handled(m, p)' = IF m = l /\ p = r THEN {b} ELSE Handled(m, p)
    BY <1>0, <1>10 DEF Dequeue, Handled, TypeOK
  <2> HIDE DEF b, s
  <2>5. \A m \in Listener, p \in Processor :
           Queued(m, p)' = IF m = l /\ p = r THEN Queued(m, p) \ {b} ELSE Queued(m, p)
    BY <2>1, <2>2, <2>3 DEF Queued
  <2>6. \A m \in Listener : Handled(m, r) = {}
    BY <1>10 DEF Dequeue, Handled
  <2>7. free' = free /\ \A m \in Listener : InHand(m)' = InHand(m)
    BY <1>10 DEF Dequeue, listenVars, InHand
  <2>8. QueuesInjective'
    BY <1>0, <2>2, <2>3 DEF QueuesInjective
  <2>9. b \in Queued(l, r)
    BY <2>1, <2>2
  <2>10. PlacesDisjoint'
    BY <1>0, <2>4, <2>5, <2>6, <2>7, <2>9 DEF PlacesDisjoint
  <2>11. PlacesExhaust'
    BY <1>0, <2>4, <2>5, <2>6, <2>7, <2>9 DEF PlacesExhaust
  <2> QED
    BY <2>8, <2>10, <2>11
<1>11. ASSUME NEW r \in Processor, Handle(r) PROVE Places'
  <2>0. PICK l \in Listener, b \in Buffers : l = pjob[r] /\ b = pbuf[r]
    BY <1>0, <1>11 DEF TypeOK, ControlConsistent, Handle
  <2>1. Handled(l, r) = {b} /\ \A m \in Listener \ {l} : Handled(m, r) = {}
    BY <1>0, <1>11, <2>0 DEF Handle, Handled, TypeOK
  <2>2. \A m \in Listener, p \in Processor : Handled(m, p)' = IF p = r THEN {} ELSE Handled(m, p)
    BY <1>0, <1>11 DEF Handle, Handled, TypeOK
  <2>3. \A m \in Listener : \A x : x \in free'[m] <=> x \in free[m] \/ (m = l /\ x = b)
    BY <1>0, <1>11, <2>0 DEF Handle, TypeOK
  <2>4. \A m \in Listener : InHand(m)' = InHand(m)
    BY <1>11 DEF Handle, InHand
  <2>5. \A m \in Listener, p \in Processor : Queued(m, p)' = Queued(m, p)
    BY <1>11 DEF Handle, Queued
  <2>6. QueuesInjective'
    BY <1>0, <1>11 DEF Handle, QueuesInjective
  <2>m. b \notin InHand(l) /\ \A p \in Processor : b \notin Queued(l, p) /\ (p # r => b \notin Handled(l, p))
    BY <1>0, <2>1 DEF PlacesDisjoint
  <2>7. PlacesDisjoint'
    BY <1>0, <2>1, <2>2, <2>3, <2>4, <2>5, <2>m DEF PlacesDisjoint
  <2>8. PlacesExhaust'
    <3> SUFFICES ASSUME NEW m \in Listener, NEW c \in Buffers
                 PROVE  c \in (free[m] \cup InHand(m))' \/ \E p \in Processor : c \in (Queued(m, p) \cup Handled(m, p))'
      BY DEF PlacesExhaust
    <3>1. c \in free[m] \cup InHand(m) \/ \E p \in Processor : c \in Queued(m, p) \cup Handled(m, p)
      BY <1>0 DEF PlacesExhaust
    <3> QED
      BY <3>1, <2>1, <2>2, <2>3, <2>4, <2>5
  <2> QED
    BY <2>6, <2>7, <2>8
<1>12. ASSUME NEW r \in Processor, Release(r) PROVE Places'
  BY <1>0, <1>4, <1>12 DEF Release, listenVars, Handled, TypeOK
<1>13. CASE UNCHANGED vars
  BY <1>4, <1>13 DEF vars, listenVars, workVars, Handled
<1> QED
  BY <1>1, <1>3, <1>5, <1>6, <1>7, <1>8, <1>9, <1>10, <1>11, <1>12, <1>13
  DEF Next, ListenerStep, Route

-----------------------------------------------------------------------------
(* The message slots of the workers. *)

\* A slot is reserved before a message is queued and comes back after the
\* message has been handled: nothing is lost on the way.
LEMMA SlotsStep == IndInv /\ [Next]_vars => SlotsAccounted'
<1> SUFFICES ASSUME IndInv, [Next]_vars PROVE SlotsAccounted'
  OBVIOUS
<1>0. TypeOK /\ ControlConsistent /\ SlotsAccounted
  BY DEF IndInv
<1>a. \A l \in Listener, p \in Processor :
        /\ credit[l][p] \in Int /\ Len(queue[l][p]) \in Int
        /\ Reserved(l, p) \in Int /\ InService(l, p) \in Int
  BY <1>0, LenProperties, CapacityIsNat DEF Reserved, InService, TypeOK
<1>1. ASSUME UNCHANGED <<queue, credit, ppc, pjob>>,
             \A l \in Listener : (lpc'[l] = "push" <=> lpc[l] = "push")
                              /\ (lpc[l] = "push" => lproc'[l] = lproc[l])
      PROVE  SlotsAccounted'
  <2>1. \A l \in Listener, p \in Processor :
          Reserved(l, p)' = Reserved(l, p) /\ InService(l, p)' = InService(l, p)
    BY <1>1 DEF Reserved, InService
  <2> QED
    BY <1>0, <1>1, <2>1 DEF SlotsAccounted
<1>2. ASSUME NEW l \in Listener, TakeBuffer(l) PROVE SlotsAccounted'
  BY <1>0, <1>1, <1>2 DEF TakeBuffer, workVars, TypeOK
<1>3. ASSUME NEW l \in Listener, Reject(l) PROVE SlotsAccounted'
  BY <1>0, <1>1, <1>3 DEF Reject, GiveBack, Return, workVars, TypeOK
<1>4. CASE RouteApi
  BY <1>0, <1>1, <1>4 DEF RouteApi, workVars, TypeOK
<1>5. ASSUME NEW id \in BlockId, RouteTun(id) PROVE SlotsAccounted'
  BY <1>0, <1>1, <1>5 DEF RouteTun, workVars, TypeOK
<1>6. ASSUME NEW l \in Listener, Reserve(l) PROVE SlotsAccounted'
  <2>1. PICK r \in Processor : r = lproc[l]
    BY <1>0 DEF TypeOK
  <2>2. /\ Reserved(l, r) = 0 /\ Reserved(l, r)' = 1
        /\ \A m \in Listener, p \in Processor : m # l \/ p # r => Reserved(m, p)' = Reserved(m, p)
    BY <1>0, <1>6, <2>1 DEF Reserve, Reserved, TypeOK
  <2>3. \A m \in Listener, p \in Processor :
          credit'[m][p] = IF m = l /\ p = r THEN credit[m][p] - 1 ELSE credit[m][p]
    BY <1>0, <1>6, <2>1 DEF Reserve, TypeOK
  <2>4. queue' = queue /\ \A m \in Listener, p \in Processor : InService(m, p)' = InService(m, p)
    BY <1>6 DEF Reserve, InService
  <2>7. credit[l][r] + Reserved(l, r) + Len(queue[l][r]) + InService(l, r) = Capacity
    BY <1>0 DEF SlotsAccounted
  <2>8. credit'[l][r] + Reserved(l, r)' + Len(queue'[l][r]) + InService(l, r)' = Capacity
    <3>1. \A a, b, c \in Int : a + 0 + b + c = Capacity => (a - 1) + 1 + b + c = Capacity
      BY CapacityIsNat
    <3>2. credit'[l][r] = credit[l][r] - 1 /\ queue'[l][r] = queue[l][r] /\ InService(l, r)' = InService(l, r)
      BY <2>3, <2>4
    <3>3. credit[l][r] \in Int /\ Len(queue[l][r]) \in Int /\ InService(l, r) \in Int
      BY <1>a
    <3>4. Reserved(l, r) = 0 /\ Reserved(l, r)' = 1
      BY <2>2
    <3>5. credit[l][r] + 0 + Len(queue[l][r]) + InService(l, r) = Capacity
      BY <2>7, <3>4
    <3>6. (credit[l][r] - 1) + 1 + Len(queue[l][r]) + InService(l, r) = Capacity
      BY <3>1, <3>3, <3>5
    <3> QED
      BY <3>2, <3>4, <3>6
  <2>9. ASSUME NEW m \in Listener, NEW p \in Processor, m # l \/ p # r
        PROVE  credit'[m][p] + Reserved(m, p)' + Len(queue'[m][p]) + InService(m, p)' = Capacity
    BY <1>0, <1>a, <2>2, <2>3, <2>4, <2>9 DEF SlotsAccounted
  <2> QED
    BY <2>8, <2>9 DEF SlotsAccounted
<1>7. ASSUME NEW l \in Listener, BusyDrop(l) PROVE SlotsAccounted'
  BY <1>0, <1>1, <1>7 DEF BusyDrop, GiveBack, Return, workVars, TypeOK
<1>8. ASSUME NEW l \in Listener, Enqueue(l) PROVE SlotsAccounted'
  <2>1. PICK r \in Processor : r = lproc[l]
    BY <1>0 DEF TypeOK
  <2>2. lbuf[l] \in Buffers /\ queue[l][r] \in Seq(Buffers)
    BY <1>0, <1>8 DEF ControlConsistent, Enqueue, TypeOK
  <2>3. Len(Append(queue[l][r], lbuf[l])) = Len(queue[l][r]) + 1
    BY <2>2, AppendElements
  <2>4. \A m \in Listener, p \in Processor :
          Len(queue'[m][p]) = IF m = l /\ p = r THEN Len(queue[m][p]) + 1 ELSE Len(queue[m][p])
    BY <1>0, <1>8, <2>1, <2>3 DEF Enqueue, TypeOK
  <2>5. /\ Reserved(l, r) = 1 /\ Reserved(l, r)' = 0
        /\ \A m \in Listener, p \in Processor : m # l \/ p # r => Reserved(m, p)' = Reserved(m, p)
    BY <1>0, <1>8, <2>1 DEF Enqueue, Return, Reserved, TypeOK
  <2>6. credit' = credit /\ \A m \in Listener, p \in Processor : InService(m, p)' = InService(m, p)
    BY <1>8 DEF Enqueue, InService
  <2>7. credit[l][r] + Reserved(l, r) + Len(queue[l][r]) + InService(l, r) = Capacity
    BY <1>0 DEF SlotsAccounted
  <2>8. credit'[l][r] + Reserved(l, r)' + Len(queue'[l][r]) + InService(l, r)' = Capacity
    <3>1. \A a, b, c \in Int : a + 1 + b + c = Capacity => a + 0 + (b + 1) + c = Capacity
      BY CapacityIsNat
    <3>2. /\ Len(queue'[l][r]) = Len(queue[l][r]) + 1
          /\ credit'[l][r] = credit[l][r] /\ InService(l, r)' = InService(l, r)
      BY <2>4, <2>6
    <3>3. credit[l][r] \in Int /\ Len(queue[l][r]) \in Int /\ InService(l, r) \in Int
      BY <1>a
    <3>4. Reserved(l, r) = 1 /\ Reserved(l, r)' = 0
      BY <2>5
    <3>5. credit[l][r] + 1 + Len(queue[l][r]) + InService(l, r) = Capacity
      BY <2>7, <3>4
    <3>6. credit[l][r] + 0 + (Len(queue[l][r]) + 1) + InService(l, r) = Capacity
      BY <3>1, <3>3, <3>5
    <3> QED
      BY <3>2, <3>4, <3>6
  <2>9. ASSUME NEW m \in Listener, NEW p \in Processor, m # l \/ p # r
        PROVE  credit'[m][p] + Reserved(m, p)' + Len(queue'[m][p]) + InService(m, p)' = Capacity
    BY <1>0, <1>a, <2>4, <2>5, <2>6, <2>9 DEF SlotsAccounted
  <2> QED
    BY <2>8, <2>9 DEF SlotsAccounted
<1>9. ASSUME NEW l \in Listener, NEW r \in Processor, Dequeue(l, r) PROVE SlotsAccounted'
  <2>1. queue[l][r] \in Seq(Buffers) /\ queue[l][r] # <<>>
    BY <1>0, <1>9 DEF Dequeue, TypeOK
  <2>2. Len(Tail(queue[l][r])) = Len(queue[l][r]) - 1
    BY <2>1, TailElements
  <2>3. \A m \in Listener, p \in Processor :
          Len(queue'[m][p]) = IF m = l /\ p = r THEN Len(queue[m][p]) - 1 ELSE Len(queue[m][p])
    BY <1>0, <1>9, <2>2 DEF Dequeue, TypeOK
  <2>4. /\ InService(l, r) = 0 /\ InService(l, r)' = 1
        /\ \A m \in Listener, p \in Processor : m # l \/ p # r => InService(m, p)' = InService(m, p)
    BY <1>0, <1>9 DEF Dequeue, InService, TypeOK
  <2>5. credit' = credit /\ \A m \in Listener, p \in Processor : Reserved(m, p)' = Reserved(m, p)
    BY <1>9 DEF Dequeue, listenVars, Reserved
  <2>7. credit[l][r] + Reserved(l, r) + Len(queue[l][r]) + InService(l, r) = Capacity
    BY <1>0 DEF SlotsAccounted
  <2>8. credit'[l][r] + Reserved(l, r)' + Len(queue'[l][r]) + InService(l, r)' = Capacity
    <3>1. \A a, b, c \in Int : a + b + c + 0 = Capacity => a + b + (c - 1) + 1 = Capacity
      BY CapacityIsNat
    <3>2. /\ Len(queue'[l][r]) = Len(queue[l][r]) - 1
          /\ credit'[l][r] = credit[l][r] /\ Reserved(l, r)' = Reserved(l, r)
      BY <2>3, <2>5
    <3>3. credit[l][r] \in Int /\ Len(queue[l][r]) \in Int /\ Reserved(l, r) \in Int
      BY <1>a
    <3>4. InService(l, r) = 0 /\ InService(l, r)' = 1
      BY <2>4
    <3>5. credit[l][r] + Reserved(l, r) + Len(queue[l][r]) + 0 = Capacity
      BY <2>7, <3>4
    <3>6. credit[l][r] + Reserved(l, r) + (Len(queue[l][r]) - 1) + 1 = Capacity
      BY <3>1, <3>3, <3>5
    <3> QED
      BY <3>2, <3>4, <3>6
  <2>9. ASSUME NEW m \in Listener, NEW p \in Processor, m # l \/ p # r
        PROVE  credit'[m][p] + Reserved(m, p)' + Len(queue'[m][p]) + InService(m, p)' = Capacity
    BY <1>0, <1>a, <2>3, <2>4, <2>5, <2>9 DEF SlotsAccounted
  <2> QED
    BY <2>8, <2>9 DEF SlotsAccounted
<1>10. ASSUME NEW r \in Processor, Handle(r) PROVE SlotsAccounted'
  <2>1. \A m \in Listener, p \in Processor :
          Reserved(m, p)' = Reserved(m, p) /\ InService(m, p)' = InService(m, p)
    BY <1>0, <1>10 DEF Handle, Reserved, InService, TypeOK
  <2> QED
    BY <1>0, <1>10, <2>1 DEF Handle, SlotsAccounted
<1>11. ASSUME NEW r \in Processor, Release(r) PROVE SlotsAccounted'
  <2>1. PICK l \in Listener : l = pjob[r]
    BY <1>0 DEF TypeOK
  <2>2. /\ InService(l, r) = 1 /\ InService(l, r)' = 0
        /\ \A m \in Listener, p \in Processor : m # l \/ p # r => InService(m, p)' = InService(m, p)
    BY <1>0, <1>11, <2>1 DEF Release, InService, TypeOK
  <2>3. \A m \in Listener, p \in Processor :
          credit'[m][p] = IF m = l /\ p = r THEN credit[m][p] + 1 ELSE credit[m][p]
    BY <1>0, <1>11, <2>1 DEF Release, TypeOK
  <2>4. queue' = queue /\ \A m \in Listener, p \in Processor : Reserved(m, p)' = Reserved(m, p)
    BY <1>11 DEF Release, listenVars, Reserved
  <2>7. credit[l][r] + Reserved(l, r) + Len(queue[l][r]) + InService(l, r) = Capacity
    BY <1>0 DEF SlotsAccounted
  <2>8. credit'[l][r] + Reserved(l, r)' + Len(queue'[l][r]) + InService(l, r)' = Capacity
    <3>1. \A a, b, c \in Int : a + b + c + 1 = Capacity => (a + 1) + b + c + 0 = Capacity
      BY CapacityIsNat
    <3>2. credit'[l][r] = credit[l][r] + 1 /\ queue'[l][r] = queue[l][r] /\ Reserved(l, r)' = Reserved(l, r)
      BY <2>3, <2>4
    <3>3. credit[l][r] \in Int /\ Len(queue[l][r]) \in Int /\ Reserved(l, r) \in Int
      BY <1>a
    <3>4. InService(l, r) = 1 /\ InService(l, r)' = 0
      BY <2>2
    <3>5. credit[l][r] + Reserved(l, r) + Len(queue[l][r]) + 1 = Capacity
      BY <2>7, <3>4
    <3>6. (credit[l][r] + 1) + Reserved(l, r) + Len(queue[l][r]) + 0 = Capacity
      BY <3>1, <3>3, <3>5
    <3> QED
      BY <3>2, <3>4, <3>6
  <2>9. ASSUME NEW m \in Listener, NEW p \in Processor, m # l \/ p # r
        PROVE  credit'[m][p] + Reserved(m, p)' + Len(queue'[m][p]) + InService(m, p)' = Capacity
    BY <1>0, <1>a, <2>2, <2>3, <2>4, <2>9 DEF SlotsAccounted
  <2> QED
    BY <2>8, <2>9 DEF SlotsAccounted
<1>12. CASE UNCHANGED vars
  BY <1>1, <1>12 DEF vars, listenVars, workVars
<1> QED
  BY <1>2, <1>3, <1>4, <1>5, <1>6, <1>7, <1>8, <1>9, <1>10, <1>11, <1>12
  DEF Next, ListenerStep, Route

-----------------------------------------------------------------------------
(* Routing. *)

\* A packet keeps its block id and the rewritten header from RouteTun until
\* its buffer is given back: the steps that write a buffer have it in hand.
LEMMA RoutedStep == IndInv /\ [Next]_vars => RoutedByBlock'
<1> SUFFICES ASSUME IndInv, [Next]_vars PROVE RoutedByBlock'
  OBVIOUS
<1>0. TypeOK /\ ControlConsistent /\ PlacesDisjoint /\ RoutedByBlock
  BY DEF IndInv
<1>a. "tun" \in Listener /\ "api" \in Listener
  BY DEF Listener
<1>1. ASSUME \A b \in Buffers, p \in Processor : AtDecoder(b, p)' => AtDecoder(b, p),
             \A b \in Buffers, p \in Processor :
               AtDecoder(b, p)' => block'[b] = block[b] /\ header'[b] = header[b]
      PROVE  \A b \in Buffers, p \in Processor : AtDecoder(b, p)' => Routed(b, p)'
  BY <1>0, <1>1 DEF RoutedByBlock, Routed
<1>2. ASSUME NEW l \in Listener, TakeBuffer(l) PROVE RoutedByBlock'
  <2>1. \A b \in Buffers, p \in Processor : AtDecoder(b, p)' => AtDecoder(b, p)
    BY <1>2 DEF TakeBuffer, workVars, AtDecoder, Queued, Handled
  <2>2. block' = block /\ header' = header
    BY <1>2 DEF TakeBuffer
  <2>3. lpc'["tun"] \in {"send", "push"} => l # "tun" /\ lpc["tun"] = lpc'["tun"] /\ UNCHANGED <<lbuf["tun"], lproc["tun"]>>
    BY <1>0, <1>a, <1>2 DEF TakeBuffer, TypeOK
  <2> QED
    BY <1>0, <1>1, <2>1, <2>2, <2>3 DEF RoutedByBlock, Routed
<1>3. ASSUME NEW l \in Listener, lpc[l] # "idle", GiveBack(l), UNCHANGED <<last, workVars>>
      PROVE RoutedByBlock'
  <2>1. \A b \in Buffers, p \in Processor : AtDecoder(b, p)' => AtDecoder(b, p)
    BY <1>3 DEF workVars, AtDecoder, Queued, Handled
  <2>2. lbuf[l] \in InHand(l) /\ lbuf[l] \in Buffers
    BY <1>0, <1>3 DEF InHand, ControlConsistent
  <2>3. \A p \in Processor : l = "tun" => ~AtDecoder(lbuf[l], p)
    BY <1>0, <1>a, <2>2 DEF PlacesDisjoint, AtDecoder
  <2>4. \A b \in Buffers : l # "tun" \/ b # lbuf[l] => block'[b] = block[b] /\ header'[b] = header[b]
    BY <1>0, <1>3 DEF GiveBack, Forget, TypeOK
  <2>5. lpc'["tun"] \in {"send", "push"} => l # "tun" /\ lpc["tun"] = lpc'["tun"] /\ UNCHANGED <<lbuf["tun"], lproc["tun"]>>
    BY <1>0, <1>a, <1>3 DEF GiveBack, Return, TypeOK
  <2>6. \A b \in Buffers, p \in Processor : AtDecoder(b, p)' => block'[b] = block[b] /\ header'[b] = header[b]
    BY <2>1, <2>3, <2>4
  <2>7. lpc["tun"] \in {"send", "push"} => lbuf["tun"] \in Buffers
    BY <1>0, <1>a DEF ControlConsistent
  <2> QED
    BY <1>0, <1>1, <2>1, <2>4, <2>5, <2>6, <2>7 DEF RoutedByBlock, Routed
<1>4. ASSUME NEW l \in Listener, Reject(l) PROVE RoutedByBlock'
  BY <1>3, <1>4 DEF Reject
<1>5. CASE RouteApi
  <2>1. \A b \in Buffers, p \in Processor : AtDecoder(b, p)' => AtDecoder(b, p)
    BY <1>5 DEF RouteApi, workVars, AtDecoder, Queued, Handled
  <2>2. block' = block /\ header' = header
    BY <1>5 DEF RouteApi
  <2>3. UNCHANGED <<lpc["tun"], lbuf["tun"], lproc["tun"]>>
    BY <1>0, <1>a, <1>5 DEF RouteApi, TypeOK
  <2> QED
    BY <1>0, <1>1, <2>1, <2>2, <2>3 DEF RoutedByBlock, Routed
<1>6. ASSUME NEW id \in BlockId, RouteTun(id) PROVE RoutedByBlock'
  <2>1. \A b \in Buffers, p \in Processor : AtDecoder(b, p)' => AtDecoder(b, p)
    BY <1>6 DEF RouteTun, workVars, AtDecoder, Queued, Handled
  <2>2. lbuf["tun"] \in InHand("tun") /\ lbuf["tun"] \in Buffers
    BY <1>0, <1>a, <1>6 DEF InHand, ControlConsistent, RouteTun
  <2>3. \A p \in Processor : ~AtDecoder(lbuf["tun"], p)
    BY <1>0, <1>a, <2>2 DEF PlacesDisjoint, AtDecoder
  <2>4. \A b \in Buffers : b # lbuf["tun"] => block'[b] = block[b] /\ header'[b] = header[b]
    BY <1>0, <1>6 DEF RouteTun, TypeOK
  <2>5. Routed(lbuf["tun"], lproc["tun"])'
    BY <1>0, <1>a, <1>6, <2>2 DEF RouteTun, Routed, TypeOK
  <2> QED
    BY <1>0, <1>1, <2>1, <2>3, <2>4, <2>5 DEF RoutedByBlock
<1>7. ASSUME NEW l \in Listener, Reserve(l) PROVE RoutedByBlock'
  <2>1. \A b \in Buffers, p \in Processor : AtDecoder(b, p)' => AtDecoder(b, p)
    BY <1>7 DEF Reserve, AtDecoder, Queued, Handled
  <2>2. UNCHANGED <<block, header, lbuf, lproc>>
    BY <1>7 DEF Reserve
  <2>3. lpc'["tun"] \in {"send", "push"} => lpc["tun"] \in {"send", "push"}
    BY <1>0, <1>a, <1>7 DEF Reserve, TypeOK
  <2> QED
    BY <1>0, <1>1, <2>1, <2>2, <2>3 DEF RoutedByBlock, Routed
<1>8. ASSUME NEW l \in Listener, BusyDrop(l) PROVE RoutedByBlock'
  BY <1>3, <1>8 DEF BusyDrop
<1>9. ASSUME NEW l \in Listener, Enqueue(l) PROVE RoutedByBlock'
  <2>1. PICK r \in Processor : r = lproc[l]
    BY <1>0 DEF TypeOK
  <2>2. lbuf[l] \in Buffers /\ queue[l][r] \in Seq(Buffers)
    BY <1>0, <1>9 DEF ControlConsistent, Enqueue, TypeOK
  <2>3. ToSet(Append(queue[l][r], lbuf[l])) = ToSet(queue[l][r]) \cup {lbuf[l]}
    BY <2>2, AppendSet
  <2>4. \A p \in Processor :
          queue'["tun"][p] = IF l = "tun" /\ p = r THEN Append(queue[l][r], lbuf[l]) ELSE queue["tun"][p]
    BY <1>0, <1>a, <1>9, <2>1 DEF Enqueue, TypeOK
  <2>5. \A p \in Processor : Handled("tun", p)' = Handled("tun", p)
    BY <1>9 DEF Enqueue, Handled
  <2>6. \A b \in Buffers, p \in Processor :
          AtDecoder(b, p)' => AtDecoder(b, p) \/ (l = "tun" /\ b = lbuf["tun"] /\ p = lproc["tun"])
    BY <2>1, <2>3, <2>4, <2>5 DEF AtDecoder, Queued
  <2>7. block' = block /\ header' = header
    BY <1>9 DEF Enqueue
  <2>8. lpc'["tun"] \in {"send", "push"} => l # "tun" /\ lpc["tun"] = lpc'["tun"] /\ UNCHANGED <<lbuf["tun"], lproc["tun"]>>
    BY <1>0, <1>a, <1>9 DEF Enqueue, Return, TypeOK
  <2>9. l = "tun" => lpc["tun"] = "push"
    BY <1>9 DEF Enqueue
  <2> QED
    BY <1>0, <2>6, <2>7, <2>8, <2>9 DEF RoutedByBlock, Routed
<1>10. ASSUME NEW l \in Listener, NEW r \in Processor, Dequeue(l, r) PROVE RoutedByBlock'
  <2>1. queue[l][r] \in Seq(Buffers) /\ queue[l][r] # <<>>
    BY <1>0, <1>10 DEF Dequeue, TypeOK
  <2>2. ToSet(queue[l][r]) = ToSet(Tail(queue[l][r])) \cup {Head(queue[l][r])}
    BY <2>1, TailSet
  <2>3. \A p \in Processor :
          queue'["tun"][p] = IF l = "tun" /\ p = r THEN Tail(queue[l][r]) ELSE queue["tun"][p]
    BY <1>0, <1>a, <1>10 DEF Dequeue, TypeOK
  <2>4. \A p \in Processor :
          Handled("tun", p)' = IF l = "tun" /\ p = r THEN {Head(queue[l][r])} ELSE Handled("tun", p)
    BY <1>0, <1>10 DEF Dequeue, Handled, TypeOK
  <2>5. \A b \in Buffers, p \in Processor : AtDecoder(b, p)' => AtDecoder(b, p)
    BY <2>2, <2>3, <2>4 DEF AtDecoder, Queued
  <2>6. UNCHANGED <<block, header, lpc, lbuf, lproc>>
    BY <1>10 DEF Dequeue, listenVars
  <2> QED
    BY <1>0, <1>1, <2>5, <2>6 DEF RoutedByBlock, Routed
<1>11. ASSUME NEW r \in Processor, Handle(r) PROVE RoutedByBlock'
  <2>1. pbuf[r] \in Buffers /\ pjob[r] \in Listener
    BY <1>0, <1>11 DEF ControlConsistent, Handle, TypeOK
  <2>2. pjob[r] = "tun" => pbuf[r] \in Handled("tun", r)
    BY <1>11 DEF Handle, Handled
  <2>3. \A p \in Processor : Handled("tun", p)' = IF p = r THEN {} ELSE Handled("tun", p)
    BY <1>0, <1>11 DEF Handle, Handled, TypeOK
  <2>4. \A p \in Processor : Queued("tun", p)' = Queued("tun", p)
    BY <1>11 DEF Handle, Queued
  <2>5. \A b \in Buffers, p \in Processor : AtDecoder(b, p)' => AtDecoder(b, p)
    BY <2>3, <2>4 DEF AtDecoder
  <2>6. \A p \in Processor : pjob[r] = "tun" => pbuf[r] \notin Queued("tun", p)' \cup Handled("tun", p)'
    BY <1>0, <1>a, <2>2, <2>3, <2>4 DEF PlacesDisjoint
  <2>7. \A b \in Buffers : pjob[r] # "tun" \/ b # pbuf[r] => block'[b] = block[b] /\ header'[b] = header[b]
    BY <1>0, <1>11 DEF Handle, Forget, TypeOK
  <2>8. \A b \in Buffers, p \in Processor : AtDecoder(b, p)' => block'[b] = block[b] /\ header'[b] = header[b]
    BY <2>6, <2>7 DEF AtDecoder
  <2>9. UNCHANGED <<lpc, lbuf, lproc>>
    BY <1>11 DEF Handle
  <2>10. lpc["tun"] \in {"send", "push"} => lbuf["tun"] \in Buffers /\ lbuf["tun"] \in InHand("tun")
    BY <1>0, <1>a DEF ControlConsistent, InHand
  <2>11. lpc["tun"] \in {"send", "push"} /\ pjob[r] = "tun" => lbuf["tun"] # pbuf[r]
    BY <1>0, <1>a, <2>2, <2>10 DEF PlacesDisjoint
  <2> QED
    BY <1>0, <1>1, <2>5, <2>7, <2>8, <2>9, <2>10, <2>11 DEF RoutedByBlock, Routed
<1>12. ASSUME NEW r \in Processor, Release(r) PROVE RoutedByBlock'
  <2>1. \A b \in Buffers, p \in Processor : AtDecoder(b, p)' => AtDecoder(b, p)
    BY <1>0, <1>12 DEF Release, AtDecoder, Queued, Handled, TypeOK
  <2> QED
    BY <1>0, <1>1, <1>12, <2>1 DEF Release, listenVars, RoutedByBlock, Routed
<1>13. CASE UNCHANGED vars
  <2>1. \A b \in Buffers, p \in Processor : AtDecoder(b, p)' => AtDecoder(b, p)
    BY <1>13 DEF vars, workVars, AtDecoder, Queued, Handled
  <2> QED
    BY <1>0, <1>1, <1>13, <2>1 DEF vars, listenVars, RoutedByBlock, Routed
<1> QED
  BY <1>2, <1>4, <1>5, <1>6, <1>7, <1>8, <1>9, <1>10, <1>11, <1>12, <1>13
  DEF Next, ListenerStep, Route

\* Nobody but the API listener feeds the encoders, so an encoder that was idle
\* when the listener chose it still is when the message is queued.
LEMMA SameEncoderStep == IndInv /\ [Next]_vars => SameEncoderOnlyWhenIdle'
<1> SUFFICES ASSUME IndInv, [Next]_vars,
                    lpc'["api"] \in {"send", "push"}, stay'
             PROVE  queue'["api"][lproc'["api"]] = <<>>
  BY DEF SameEncoderOnlyWhenIdle
<1>0. TypeOK /\ SameEncoderOnlyWhenIdle
  BY DEF IndInv
<1>a. "tun" \in Listener /\ "api" \in Listener
  BY DEF Listener
<1> DEFINE Goal == queue'["api"][lproc'["api"]] = <<>>
<1>1. ASSUME NEW l \in Listener, TakeBuffer(l) PROVE Goal
  BY <1>0, <1>a, <1>1 DEF TakeBuffer, workVars, TypeOK, SameEncoderOnlyWhenIdle
<1>2. ASSUME NEW l \in Listener, Reject(l) PROVE Goal
  BY <1>0, <1>a, <1>2 DEF Reject, GiveBack, Return, workVars, TypeOK, SameEncoderOnlyWhenIdle
<1>3. CASE RouteApi
  <2>1. Len(queue["api"][last]) = 0 /\ lproc'["api"] = last /\ queue' = queue
    BY <1>0, <1>a, <1>3 DEF RouteApi, workVars, TypeOK
  <2>2. queue["api"][last] \in Seq(Buffers)
    BY <1>0, <1>a DEF TypeOK
  <2> QED
    BY <2>1, <2>2, EmptySeq
<1>4. ASSUME NEW id \in BlockId, RouteTun(id) PROVE Goal
  BY <1>0, <1>a, <1>4 DEF RouteTun, workVars, TypeOK, SameEncoderOnlyWhenIdle
<1>5. ASSUME NEW l \in Listener, Reserve(l) PROVE Goal
  BY <1>0, <1>a, <1>5 DEF Reserve, TypeOK, SameEncoderOnlyWhenIdle
<1>6. ASSUME NEW l \in Listener, BusyDrop(l) PROVE Goal
  BY <1>0, <1>a, <1>6 DEF BusyDrop, GiveBack, Return, workVars, TypeOK, SameEncoderOnlyWhenIdle
<1>7. ASSUME NEW l \in Listener, Enqueue(l) PROVE Goal
  <2>1. l # "api" /\ lproc'["api"] = lproc["api"] /\ lpc["api"] = lpc'["api"] /\ stay
    BY <1>0, <1>a, <1>7 DEF Enqueue, Return, TypeOK
  <2>2. queue'["api"] = queue["api"]
    BY <1>0, <1>a, <1>7, <2>1 DEF Enqueue, TypeOK
  <2> QED
    BY <1>0, <2>1, <2>2 DEF SameEncoderOnlyWhenIdle
<1>8. ASSUME NEW l \in Listener, NEW p \in Processor, Dequeue(l, p) PROVE Goal
  <2>1. UNCHANGED <<lpc, lproc, stay>> /\ queue[l][p] # <<>>
    BY <1>8 DEF Dequeue, listenVars
  <2>2. queue["api"][lproc["api"]] = <<>> /\ lproc["api"] \in Processor
    BY <1>0, <1>a, <2>1 DEF SameEncoderOnlyWhenIdle, TypeOK
  <2> QED
    BY <1>0, <1>a, <1>8, <2>1, <2>2 DEF Dequeue, TypeOK
<1>9. ASSUME NEW p \in Processor, Handle(p) PROVE Goal
  BY <1>0, <1>9 DEF Handle, SameEncoderOnlyWhenIdle
<1>10. ASSUME NEW p \in Processor, Release(p) PROVE Goal
  BY <1>0, <1>10 DEF Release, listenVars, SameEncoderOnlyWhenIdle
<1>11. CASE UNCHANGED vars
  BY <1>0, <1>11 DEF vars, listenVars, workVars, SameEncoderOnlyWhenIdle
<1> QED
  BY <1>1, <1>2, <1>3, <1>4, <1>5, <1>6, <1>7, <1>8, <1>9, <1>10, <1>11
  DEF Next, ListenerStep, Route

-----------------------------------------------------------------------------
(* What the invariant implies. *)

\* The sets of PlacesDisjoint and PlacesExhaust are the places of
\* BufferInOnePlace: one of them has the buffer, and no other.
LEMMA OnePlaceEach == IndInv => BufferInOnePlace
<1> SUFFICES ASSUME IndInv, NEW l \in Listener, NEW b \in Buffers
             PROVE  Cardinality({<<"pool">> : x \in free[l] \cap {b}}
                      \cup {<<"listener">> : x \in InHand(l) \cap {b}}
                      \cup {<<"processor", p>> : p \in {q \in Processor : b \in Handled(l, q)}}
                      \cup UNION {{<<"queue", p, i>> : i \in {j \in DOMAIN queue[l][p] : queue[l][p][j] = b}}
                                  : p \in Processor}) = 1
  BY DEF BufferInOnePlace
<1>0. TypeOK /\ QueuesInjective /\ PlacesDisjoint /\ PlacesExhaust
  BY DEF IndInv
<1> DEFINE A == {<<"pool">> : x \in free[l] \cap {b}}
           B == {<<"listener">> : x \in InHand(l) \cap {b}}
           H == {q \in Processor : b \in Handled(l, q)}
           C == {<<"processor", p>> : p \in H}
           J(p) == {j \in DOMAIN queue[l][p] : queue[l][p][j] = b}
           D == UNION {{<<"queue", p, i>> : i \in J(p)} : p \in Processor}
<1>1. /\ b \notin free[l] => A = {}
      /\ b \in free[l] => A = {<<"pool">>}
  OBVIOUS
<1>2. /\ b \notin InHand(l) => B = {}
      /\ b \in InHand(l) => B = {<<"listener">>}
  OBVIOUS
<1>3. \A p \in Processor : J(p) # {} => b \in Queued(l, p)
  BY DEF Queued, ToSet
<1>4. H = {} => C = {}
  OBVIOUS
<1>5. (\A p \in Processor : J(p) = {}) => D = {}
  OBVIOUS
<1> SUFFICES \E x : A \cup B \cup C \cup D = {x}
  BY FS_Singleton
<1>6. CASE b \in free[l]
  <2>1. b \notin InHand(l) /\ H = {} /\ \A p \in Processor : J(p) = {}
    <3>1. \A p \in Processor : b \notin InHand(l) /\ b \notin Handled(l, p) /\ b \notin Queued(l, p)
      BY <1>0, <1>6 DEF PlacesDisjoint
    <3>2. 0 \in Processor
      BY ProcessorAssumption DEF Processor
    <3> QED
      BY <1>3, <3>1, <3>2
  <2> HIDE DEF A, B, C, D, H, J
  <2> QED
    BY <1>1, <1>2, <1>4, <1>5, <1>6, <2>1
<1>7. CASE b \in InHand(l)
  <2>1. b \notin free[l] /\ H = {} /\ \A p \in Processor : J(p) = {}
    <3>1. \A p \in Processor : b \notin free[l] /\ b \notin Handled(l, p) /\ b \notin Queued(l, p)
      BY <1>0, <1>7 DEF PlacesDisjoint
    <3>2. 0 \in Processor
      BY ProcessorAssumption DEF Processor
    <3> QED
      BY <1>3, <3>1, <3>2
  <2> HIDE DEF A, B, C, D, H, J
  <2> QED
    BY <1>1, <1>2, <1>4, <1>5, <1>7, <2>1
<1>8. ASSUME NEW r \in Processor, b \in Handled(l, r) PROVE \E x : A \cup B \cup C \cup D = {x}
  <2>1. \A p \in Processor :
          /\ b \notin free[l] /\ b \notin InHand(l) /\ b \notin Queued(l, p)
          /\ p # r => b \notin Handled(l, p)
    BY <1>0, <1>8 DEF PlacesDisjoint
  <2>2. b \notin free[l] /\ b \notin InHand(l) /\ H = {r} /\ \A p \in Processor : J(p) = {}
    BY <1>3, <1>8, <2>1
  <2>3. C = {<<"processor", r>>}
    BY <2>2
  <2> HIDE DEF A, B, C, D, H, J
  <2> QED
    BY <1>1, <1>2, <1>5, <2>2, <2>3
<1>9. ASSUME NEW r \in Processor, b \in Queued(l, r) PROVE \E x : A \cup B \cup C \cup D = {x}
  <2>1. \A p \in Processor :
          /\ b \notin free[l] /\ b \notin InHand(l) /\ b \notin Handled(l, p)
          /\ p # r => b \notin Queued(l, p)
    BY <1>0, <1>9 DEF PlacesDisjoint
  <2>2. b \notin free[l] /\ b \notin InHand(l) /\ H = {} /\ \A p \in Processor \ {r} : J(p) = {}
    BY <1>3, <2>1
  <2>3. PICK i \in DOMAIN queue[l][r] : queue[l][r][i] = b
    BY <1>9 DEF Queued, ToSet
  <2>4. J(r) = {i}
    BY <1>0, <2>3 DEF QueuesInjective, IsInjective
  <2>5. D = {<<"queue", r, i>>}
    <3> HIDE DEF J
    <3> QED
      BY <2>2, <2>4
  <2> HIDE DEF A, B, C, D, H, J
  <2> QED
    BY <1>1, <1>2, <1>4, <2>2, <2>5
<1>10. b \in free[l] \/ b \in InHand(l) \/ \E r \in Processor : b \in Queued(l, r) \/ b \in Handled(l, r)
  BY <1>0 DEF PlacesExhaust
<1> QED
  BY <1>6, <1>7, <1>8, <1>9, <1>10

\* A listener that finds no free message slot accounts for every other buffer
\* of its pool: they are all queued at that worker, whose thread is between
\* giving back a buffer and giving back its slot.
LEMMA BusyMeansReleasing == IndInv => BusyOnlyWhileReleasing
<1> SUFFICES ASSUME IndInv, NEW l \in Listener, lpc[l] = "send", credit[l][lproc[l]] = 0
             PROVE  /\ ppc[lproc[l]] = "release" /\ pjob[lproc[l]] = l
                    /\ Queued(l, lproc[l]) = Buffers \ {lbuf[l]}
  BY DEF BusyOnlyWhileReleasing
<1>0. TypeOK /\ ControlConsistent /\ QueuesInjective /\ PlacesDisjoint /\ SlotsAccounted
  BY DEF IndInv
<1> DEFINE p == lproc[l]
           q == queue[l][p]
           rest == Buffers \ {lbuf[l]}
<1>1. p \in Processor /\ q \in Seq(Buffers) /\ IsInjective(q) /\ Queued(l, p) = ToSet(q)
  BY <1>0 DEF TypeOK, QueuesInjective, Queued
<1>2. lbuf[l] \in Buffers /\ lbuf[l] \in InHand(l)
  BY <1>0 DEF ControlConsistent, InHand
<1>3. IsFiniteSet(rest) /\ Cardinality(rest) = Capacity - 1 /\ Cardinality(rest) \in Nat
  BY <1>2, BuffersAssumption, FS_RemoveElement, FS_CardinalityType DEF Capacity
<1>4. ToSet(q) \subseteq rest
  <2>1. lbuf[l] \notin ToSet(q)
    BY <1>0, <1>1, <1>2 DEF PlacesDisjoint
  <2>2. ToSet(q) \subseteq Buffers
    BY <1>1 DEF ToSet
  <2> QED
    BY <2>1, <2>2
<1>5. Len(q) = Cardinality(ToSet(q)) /\ IsFiniteSet(ToSet(q)) /\ Len(q) \in Nat
  BY <1>1, DistinctLength, LenProperties
<1>6. Len(q) <= Capacity - 1 /\ (Len(q) = Capacity - 1 => ToSet(q) = rest)
  <2> HIDE DEF rest, q
  <2>1. ToSet(q) \in SUBSET rest
    BY <1>4
  <2>2. /\ Cardinality(ToSet(q)) <= Cardinality(rest)
        /\ Cardinality(rest) = Cardinality(ToSet(q)) => rest = ToSet(q)
    BY <1>3, <2>1, FS_Subset
  <2> QED
    BY <1>3, <1>5, <2>2
<1>7. Len(q) + InService(l, p) = Capacity
  <2>1. credit[l][p] = 0 /\ Reserved(l, p) = 0
    BY DEF Reserved
  <2>2. credit[l][p] + Reserved(l, p) + Len(q) + InService(l, p) = Capacity
    BY <1>0, <1>1 DEF SlotsAccounted
  <2>3. InService(l, p) \in Nat
    BY DEF InService
  <2> QED
    BY <1>5, <2>1, <2>2, <2>3, CapacityIsNat
<1>8. InService(l, p) = 1 /\ ppc[p] # "idle" /\ pjob[p] = l
  <2>1. InService(l, p) # 0
    BY <1>5, <1>6, <1>7, CapacityIsNat
  <2> QED
    BY <2>1 DEF InService
<1>9. ToSet(q) = rest
  BY <1>5, <1>6, <1>7, <1>8, CapacityIsNat
<1>10. ppc[p] # "handle"
  <2> SUFFICES ASSUME ppc[p] = "handle" PROVE FALSE
    OBVIOUS
  <2>1. pbuf[p] \in Handled(l, p) /\ pbuf[p] \in Buffers
    BY <1>0, <1>1, <1>8 DEF Handled, ControlConsistent
  <2>2. pbuf[p] \notin Queued(l, p) /\ pbuf[p] # lbuf[l]
    BY <1>0, <1>1, <1>2, <2>1 DEF PlacesDisjoint
  <2> QED
    BY <1>1, <1>9, <2>1, <2>2
<1>11. ppc[p] = "release"
  BY <1>0, <1>1, <1>8, <1>10 DEF TypeOK
<1> QED
  BY <1>1, <1>8, <1>9, <1>11

\* Two packets at the same decoder with the same header come from one block.
LEMMA DecodersTrustIds == IndInv => BlocksKeptApart
<1> SUFFICES ASSUME IndInv, NEW b \in Buffers, NEW c \in Buffers,
                    NEW p \in Processor, NEW q \in Processor, AtDecoder(b, p), AtDecoder(c, q)
             PROVE  block[b] = block[c] <=> p = q /\ header[b] = header[c]
  BY DEF BlocksKeptApart
<1>1. Routed(b, p) /\ Routed(c, q) /\ block[b] \in BlockId /\ block[c] \in BlockId
  BY DEF IndInv, RoutedByBlock, TypeOK
<1>2. block[b] = block[c] => p = q /\ header[b] = header[c]
  BY <1>1 DEF Routed
<1>3. p = q /\ header[b] = header[c] => block[b] = block[c]
  BY <1>1, RoutedTogether DEF Routed
<1> QED
  BY <1>2, <1>3

-----------------------------------------------------------------------------
(* The theorems. *)

\* Every step of the listeners and of the processors preserves the invariant.
LEMMA IndInvStep == IndInv /\ [Next]_vars => IndInv'
BY TypeStep, ControlStep, PlacesStep, SlotsStep, RoutedStep, SameEncoderStep DEF IndInv

\* The inductive invariant holds in every reachable state.
THEOREM NodeInvariant == Spec => []IndInv
BY InitIndInv, IndInvStep, PTL DEF Spec

\* Type correctness of the node's threads.
THEOREM TunnelTypeCorrect == Spec => []TypeOK
<1>1. IndInv => TypeOK
  BY DEF IndInv
<1> QED
  BY <1>1, NodeInvariant, PTL

\* Whatever path a packet takes through nt_api_handle_read, nt_tun_handle_read
\* and the workers of any number of processors, its receive buffer is in
\* exactly one place: none leaks and none is freed twice.
THEOREM ReceiveBuffersAreConserved == Spec => []BufferInOnePlace
BY OnePlaceEach, NodeInvariant, PTL

\* ENCODER_BUSY and DECODER_BUSY are counted only in the interval between
\* msg->free and pool_free(msg), with every other buffer of the pool queued at
\* that one worker.
THEOREM BusyIsTransient == Spec => []BusyOnlyWhileReleasing
BY BusyMeansReleasing, NodeInvariant, PTL

\* The check of worker_message_count in nt_api_handle_read is not stale when
\* the message is queued.
THEOREM IdleEncoderStaysIdle == Spec => []SameEncoderOnlyWhenIdle
<1>1. IndInv => SameEncoderOnlyWhenIdle
  BY DEF IndInv
<1> QED
  BY <1>1, NodeInvariant, PTL

\* Rewriting the block id to id / processor_num after choosing decoder
\* id % processor_num confuses no two blocks, for any number of processors.
THEOREM BlockIdsSurviveRouting == Spec => []BlocksKeptApart
BY DecodersTrustIds, NodeInvariant, PTL
=============================================================================
