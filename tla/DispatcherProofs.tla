------------------------- MODULE DispatcherProofs --------------------------
(***************************************************************************)
(* The safety properties of the event loop, for every number of timers and *)
(* descriptors, every queue capacity and every max_events_per_wait.        *)
(*                                                                         *)
(* IndInv is the invariant.  That a timer has one owner needs to know when *)
(* the current timer is set (CurrentTimer); that epoll_wait does not sleep *)
(* past a deadline needs that the queue is finite, so that it has a first  *)
(* timer at all; that a removed handler is not called needs that neither   *)
(* the kernel's list nor what was reported repeats a descriptor            *)
(* (ReportedOnce).                                                         *)
(***************************************************************************)
EXTENDS Dispatcher, SequenceFacts

(* The timer queue. *)

\* One tick makes every queued timer due one tick sooner and changes nothing
\* else of it.
LEMMA AgedTimers ==
  ASSUME queue \in SUBSET [timer : Timers, left : Int]
  PROVE  \A e \in queue :
           /\ [e EXCEPT !.left = @ - 1] \in [timer : Timers, left : Int]
           /\ [e EXCEPT !.left = @ - 1].timer = e.timer
           /\ [e EXCEPT !.left = @ - 1].left = e.left - 1
  OBVIOUS

\* A queue has a first timer, so wait_timeout is well defined: when no timer is
\* due it is a time, and no longer than any timer has left.
LEMMA WaitTimeoutIsLeast ==
  ASSUME TypeOK, \A e \in queue : ~Due(e)
  PROVE  WaitTimeout \in Nat /\ \A e \in queue : WaitTimeout <= e.left
<1>1. CASE queue = {}
  BY <1>1, DispatcherAssumption DEF WaitTimeout
<1>2. CASE queue # {}
  <2>1. \A e \in queue : e.left \in Nat
    BY DEF TypeOK, Due
  <2> DEFINE L == {e.left : e \in queue}
  <2>2. L \in SUBSET Nat /\ L # {}
    BY <1>2, <2>1
  <2>3. \E x \in L : \A y \in L : x <= y
    BY <2>2, LeastNatural
  <2>4. \E e \in queue : First(e)
    BY <2>3 DEF First
  <2> DEFINE e0 == CHOOSE e \in queue : First(e)
  <2>5. e0 \in queue /\ First(e0)
    BY <2>4
  <2>6. WaitTimeout = e0.left
    BY <1>2 DEF WaitTimeout
  <2> HIDE DEF e0
  <2> QED
    BY <2>1, <2>5, <2>6 DEF First
<1> QED
  BY <1>1, <1>2

\* While every timer is queued once, there are as many entries in the queue as
\* timers.
LEMMA QueuedTimersCount ==
  ASSUME TypeOK, \A e, f \in queue : e.timer = f.timer => e = f
  PROVE  /\ IsFiniteSet({e.timer : e \in queue})
         /\ Cardinality({e.timer : e \in queue}) = Cardinality(queue)
<1> DEFINE T == {e.timer : e \in queue}
           f == [e \in queue |-> e.timer]
<1>1. f \in Surjection(queue, T)
  BY DEF Surjection
<1>2. f \in Injection(queue, T)
  BY DEF Injection, IsInjective
<1>3. ExistsBijection(queue, T)
  BY <1>1, <1>2 DEF ExistsBijection, Bijection
<1> QED
  BY <1>3, FS_Bijection DEF TypeOK

\* Every step leaves a finite queue of timers.
LEMMA QueueStep ==
  ASSUME IndInv, Next
  PROVE  queue' \in SUBSET [timer : Timers, left : Int] /\ IsFiniteSet(queue')
<1>0. TypeOK /\ CurrentTimer
  BY DEF IndInv
<1>1. ASSUME NEW t \in Timers, NEW d \in Delays, AddTimer(t, d)
      PROVE  queue' \in SUBSET [timer : Timers, left : Int] /\ IsFiniteSet(queue')
  <2> DEFINE x == [timer |-> t, left |-> d]
  <2>1. queue' = queue \cup {x} /\ x \in [timer : Timers, left : Int]
    BY <1>1, DispatcherAssumption DEF AddTimer
  <2> HIDE DEF x
  <2> QED
    BY <1>0, <2>1, FS_AddElement DEF TypeOK
<1>2. CASE Destroy
  BY <1>2, FS_EmptySet DEF Destroy
<1>3. CASE PopTimer
  BY <1>0, <1>3, FS_RemoveElement DEF TypeOK, PopTimer
<1>4. CASE PermanentReturns
  <2> DEFINE x == [timer |-> cur, left |-> delay[cur]]
  <2>1. (queue' = queue \/ queue' = queue \cup {x}) /\ x \in [timer : Timers, left : Int]
    BY <1>0, <1>4, DispatcherAssumption DEF TypeOK, PermanentReturns, Rearmed
  <2> HIDE DEF x
  <2>2. IsFiniteSet(queue) /\ IsFiniteSet(queue \cup {x})
    BY <1>0, FS_AddElement DEF TypeOK
  <2>3. queue \in SUBSET [timer : Timers, left : Int]
    BY <1>0 DEF TypeOK
  <2> QED
    BY <2>1, <2>2, <2>3
<1>5. CASE Tick
  <2> DEFINE f == [e \in queue |-> [e EXCEPT !.left = @ - 1]]
  <2>1. queue' = {[e EXCEPT !.left = @ - 1] : e \in queue}
    BY <1>5 DEF Tick
  <2>2. queue' \in SUBSET [timer : Timers, left : Int]
    BY <1>0, <2>1, AgedTimers DEF TypeOK
  <2>3. f \in Surjection(queue, queue')
    BY <2>1 DEF Surjection
  <2>4. IsFiniteSet(queue')
    BY <1>0, <2>3, FS_Surjection DEF TypeOK
  <2> QED
    BY <2>2, <2>4
<1>6. CASE queue' = queue
  BY <1>0, <1>6 DEF TypeOK
<1> QED
  BY <1>1, <1>2, <1>3, <1>4, <1>5, <1>6
  DEF Next, Loop, vars, timerVars, Run, Stop, CheckStop, TimerReturns, StartWait, EpollEvents,
      EpollTimeout, EpollInterrupted, EpollFails, CallHandler, HandlerReturns, EventsDone,
      AddHandler, RemoveHandler, BecomeReady

-----------------------------------------------------------------------------
(* The list of ready descriptors and the events reported. *)

\* What epoll_wait reports is a list of watched descriptors, and the kernel's
\* list keeps its contents.
LEMMA ReportedEvents ==
  ASSUME TypeOK, ReportedOnce, EpollEvents
  PROVE  /\ pending' \in Seq(Handlers) /\ IsInjective(pending')
         /\ ToSet(pending') \subseteq registered
         /\ ready' \in Seq(Handlers) /\ IsInjective(ready') /\ ToSet(ready') = ToSet(ready)
<1> DEFINE n == IF Len(ready) < MaxEvents THEN Len(ready) ELSE MaxEvents
<1>1. n \in 0..Len(ready)
  BY DispatcherAssumption, LenProperties DEF TypeOK
<1>2. pending' = SubSeq(ready, 1, n) /\ ready' = SubSeq(ready, n + 1, Len(ready)) \o SubSeq(ready, 1, n)
  BY DEF EpollEvents, Requeued
<1> HIDE DEF n
<1>3. ready \in Seq(Handlers) /\ IsInjective(ready) /\ ToSet(ready) \subseteq registered
  BY DEF TypeOK, ReportedOnce
<1> QED
  BY <1>1, <1>2, <1>3, PrefixSet, RotationSet

\* Every step leaves a list of distinct watched descriptors.
LEMMA ReadyStep ==
  ASSUME IndInv, Next
  PROVE  /\ ready' \in Seq(Handlers) /\ IsInjective(ready')
         /\ ToSet(ready') \subseteq registered'
<1>0. TypeOK /\ ReportedOnce
  BY DEF IndInv
<1>1. ready \in Seq(Handlers) /\ IsInjective(ready) /\ ToSet(ready) \subseteq registered
  BY <1>0 DEF TypeOK, ReportedOnce
<1>2. CASE EpollEvents
  BY <1>0, <1>1, <1>2, ReportedEvents DEF EpollEvents
<1>3. ASSUME NEW h \in Handlers, BecomeReady(h)
      PROVE  ready' \in Seq(Handlers) /\ IsInjective(ready') /\ ToSet(ready') \subseteq registered'
  BY <1>1, <1>3, AppendSet DEF BecomeReady
<1>4. ASSUME NEW h \in Handlers, RemoveHandler(h)
      PROVE  ready' \in Seq(Handlers) /\ IsInjective(ready') /\ ToSet(ready') \subseteq registered'
  BY <1>1, <1>4, RemoveSet DEF RemoveHandler
<1>5. ASSUME NEW drained \in BOOLEAN, HandlerReturns(drained)
      PROVE  ready' \in Seq(Handlers) /\ IsInjective(ready') /\ ToSet(ready') \subseteq registered'
  <2>1. registered' = registered /\ (ready' = ready \/ ready' = RemoveFirst(ready, Head(pending)))
    BY <1>5 DEF HandlerReturns
  <2> QED
    BY <1>1, <2>1, RemoveSet
<1>6. CASE Destroy
  <2>1. ready' = <<>>
    BY <1>6 DEF Destroy
  <2> QED
    BY <2>1 DEF IsInjective, ToSet
<1>7. CASE ready' = ready /\ registered \subseteq registered'
  BY <1>1, <1>7
<1> QED
  BY <1>2, <1>3, <1>4, <1>5, <1>6, <1>7
  DEF Next, Loop, vars, eventVars, Run, Stop, CheckStop, PopTimer, PermanentReturns, TimerReturns,
      StartWait, EpollTimeout, EpollInterrupted, EpollFails, CallHandler, EventsDone,
      AddTimer, AddHandler, Tick

\* Every step leaves a list of pending events; while they are handled they are
\* distinct and watched, but for the one whose handler runs.
LEMMA PendingStep ==
  ASSUME IndInv, Next
  PROVE  /\ pending' \in Seq(Handlers)
         /\ phase' \in {"events", "handle"} => IsInjective(pending')
         /\ phase' = "handle" => pending' # <<>> /\ ToSet(Tail(pending')) \subseteq registered'
         /\ phase' = "events" => ToSet(pending') \subseteq registered'
<1> DEFINE Q == /\ pending' \in Seq(Handlers)
                /\ phase' \in {"events", "handle"} => IsInjective(pending')
                /\ phase' = "handle" => pending' # <<>> /\ ToSet(Tail(pending')) \subseteq registered'
                /\ phase' = "events" => ToSet(pending') \subseteq registered'
<1> SUFFICES Q
  OBVIOUS
<1>0. TypeOK /\ ReportedOnce /\ RemovedIsNotCalled
  BY DEF IndInv
<1>1. pending \in Seq(Handlers)
  BY <1>0 DEF TypeOK
<1>2. CASE EpollEvents
  BY <1>0, <1>2, ReportedEvents DEF EpollEvents
<1>3. CASE CallHandler
  <2>1. /\ pending' = pending /\ registered' = registered /\ phase' = "handle" /\ pending # <<>>
        /\ IsInjective(pending) /\ ToSet(pending) \subseteq registered
    BY <1>0, <1>3 DEF CallHandler, eventVars, ReportedOnce, RemovedIsNotCalled
  <2>2. ToSet(Tail(pending)) \subseteq ToSet(pending)
    BY <1>1, <2>1, TailSet
  <2> QED
    BY <1>1, <2>1, <2>2
<1>4. ASSUME NEW drained \in BOOLEAN, HandlerReturns(drained) PROVE Q
  <2>1. /\ pending' = Tail(pending) /\ registered' = registered /\ phase' = "events" /\ pending # <<>>
        /\ IsInjective(pending) /\ ToSet(Tail(pending)) \subseteq registered
    BY <1>0, <1>4 DEF HandlerReturns, ReportedOnce
  <2> QED
    BY <1>1, <2>1, TailSet
<1>5. ASSUME NEW h \in Handlers, RemoveHandler(h) PROVE Q
  <2>1. CASE phase = "idle"
    BY <1>1, <1>5, <2>1 DEF RemoveHandler
  <2>2. CASE phase = "handle" /\ h = Head(pending)
    <3>1. /\ pending' = pending /\ registered' = registered \ {h} /\ phase' = "handle" /\ pending # <<>>
          /\ IsInjective(pending) /\ ToSet(Tail(pending)) \subseteq registered
      BY <1>0, <1>5, <2>2 DEF RemoveHandler, ReportedOnce
    <3>2. h \notin ToSet(Tail(pending))
      BY <1>1, <2>2, <3>1, TailSet
    <3> QED
      BY <1>1, <3>1, <3>2
  <2> QED
    BY <1>5, <2>1, <2>2 DEF RemoveHandler, MayRemove
<1>6. CASE pending' = pending /\ registered \subseteq registered' /\ phase' = phase
  BY <1>0, <1>1, <1>6 DEF ReportedOnce, RemovedIsNotCalled
<1>7. CASE pending' = pending /\ phase' \notin {"events", "handle"}
  BY <1>1, <1>7
<1> HIDE DEF Q
<1> QED
  <2>1. CASE Loop
    BY <2>1, <1>2, <1>3, <1>4, <1>7
    DEF Loop, eventVars, CheckStop, PopTimer, PermanentReturns, TimerReturns, StartWait,
        EpollTimeout, EventsDone
  <2>2. CASE EpollInterrupted \/ EpollFails \/ Run \/ Destroy
    BY <2>2, <1>7 DEF EpollInterrupted, EpollFails, Run, Destroy, eventVars
  <2>3. CASE Stop \/ Tick \/ (phase \in {"destroyed", "aborted"} /\ UNCHANGED vars)
    BY <2>3, <1>6 DEF Stop, Tick, vars, eventVars
  <2>4. ASSUME NEW t \in Timers, NEW d \in Delays, AddTimer(t, d) PROVE Q
    BY <2>4, <1>6 DEF AddTimer, eventVars
  <2>5. ASSUME NEW h \in Handlers, AddHandler(h) \/ BecomeReady(h) PROVE Q
    BY <2>5, <1>6 DEF AddHandler, BecomeReady
  <2> QED
    BY <2>1, <2>2, <2>3, <2>4, <2>5, <1>5 DEF Next


-----------------------------------------------------------------------------
(* The conjuncts of the invariant, step by step. *)

\* Every step leaves a well-typed state.
LEMMA TypeStep ==
  ASSUME IndInv, Next
  PROVE  TypeOK'
<1>0. TypeOK /\ CurrentTimer
  BY DEF IndInv
<1>1. /\ queue' \in SUBSET [timer : Timers, left : Int] /\ IsFiniteSet(queue')
      /\ ready' \in Seq(Handlers) /\ pending' \in Seq(Handlers)
  BY QueueStep, ReadyStep, PendingStep
<1>2. alloc' \in SUBSET Timers /\ cur' \in Timers \cup {NoTimer}
  BY <1>0 DEF TypeOK, Next, Loop, vars, timerVars, Run, Stop, CheckStop, PopTimer,
     PermanentReturns, TimerReturns, StartWait, EpollEvents, EpollTimeout, EpollInterrupted,
     EpollFails, CallHandler, HandlerReturns, EventsDone, AddTimer, AddHandler, RemoveHandler,
     BecomeReady, Destroy, Tick
<1>3. delay' \in [Timers -> Nat \ {0}]
  BY <1>0, DispatcherAssumption DEF TypeOK, Next, Loop, vars, timerVars, Run, Stop, CheckStop,
     PopTimer, PermanentReturns, TimerReturns, StartWait, EpollEvents, EpollTimeout,
     EpollInterrupted, EpollFails, CallHandler, HandlerReturns, EventsDone, AddTimer, AddHandler,
     RemoveHandler, BecomeReady, Destroy, Tick
<1>4. spent' \in 0..MaxCallback
  BY <1>0, DispatcherAssumption DEF TypeOK, Next, Loop, vars, timerVars, Run, Stop, CheckStop,
     PopTimer, PermanentReturns, TimerReturns, StartWait, EpollEvents, EpollTimeout,
     EpollInterrupted, EpollFails, CallHandler, HandlerReturns, EventsDone, AddTimer, AddHandler,
     RemoveHandler, BecomeReady, Destroy, Tick
<1>5. registered' \in SUBSET Handlers
  BY <1>0 DEF TypeOK, Next, Loop, vars, eventVars, Run, Stop, CheckStop, PopTimer,
     PermanentReturns, TimerReturns, StartWait, EpollEvents, EpollTimeout, EpollInterrupted,
     EpollFails, CallHandler, HandlerReturns, EventsDone, AddTimer, AddHandler, RemoveHandler,
     BecomeReady, Destroy, Tick
<1>6. wait' \in Nat
  <2>1. CASE StartWait
    BY <1>0, <2>1, WaitTimeoutIsLeast DEF StartWait
  <2>2. CASE Tick
    BY <1>0, <2>2 DEF Tick, TypeOK
  <2>3. CASE wait' = wait \/ wait' = 0
    BY <1>0, <2>3 DEF TypeOK
  <2> QED
    BY <2>1, <2>2, <2>3 DEF Next, Loop, vars, Run, Stop, CheckStop, PopTimer,
       PermanentReturns, TimerReturns, EpollEvents, EpollTimeout, EpollInterrupted, EpollFails,
       CallHandler, HandlerReturns, EventsDone, AddTimer, AddHandler, RemoveHandler, BecomeReady,
       Destroy
<1>7. toStop' \in BOOLEAN
  BY <1>0 DEF TypeOK, Next, Loop, vars, Run, Stop, CheckStop, PopTimer,
     PermanentReturns, TimerReturns, StartWait, EpollEvents, EpollTimeout, EpollInterrupted,
     EpollFails, CallHandler, HandlerReturns, EventsDone, AddTimer, AddHandler, RemoveHandler,
     BecomeReady, Destroy, Tick
<1>8. phase' \in {"idle", "loop", "timers", "fire", "wait", "events", "handle", "destroyed", "aborted"}
  BY <1>0 DEF TypeOK, Next, Loop, vars, Run, Stop, CheckStop, PopTimer,
     PermanentReturns, TimerReturns, StartWait, EpollEvents, EpollTimeout, EpollInterrupted,
     EpollFails, CallHandler, HandlerReturns, EventsDone, AddTimer, AddHandler, RemoveHandler,
     BecomeReady, Destroy, Tick
<1> QED
  BY <1>1, <1>2, <1>3, <1>4, <1>5, <1>6, <1>7, <1>8 DEF TypeOK

\* The current timer is set exactly while its callback runs.
LEMMA CurrentStep ==
  ASSUME IndInv, Next
  PROVE  CurrentTimer'
<1>0. TypeOK /\ CurrentTimer
  BY DEF IndInv
<1>1. CASE PopTimer
  BY <1>0, <1>1, DispatcherAssumption DEF TypeOK, CurrentTimer, PopTimer
<1>2. CASE PermanentReturns
  BY <1>0, <1>2 DEF CurrentTimer, PermanentReturns
<1>3. CASE TimerReturns
  BY <1>3 DEF CurrentTimer, TimerReturns
<1>4. CASE cur' = cur /\ (phase' \in {"fire", "aborted"} <=> phase \in {"fire", "aborted"})
  BY <1>0, <1>4 DEF CurrentTimer
<1> QED
  BY <1>1, <1>2, <1>3, <1>4 DEF Next, Loop, vars, timerVars, Run, Stop, CheckStop, StartWait,
     EpollEvents, EpollTimeout, EpollInterrupted, EpollFails, CallHandler, HandlerReturns,
     EventsDone, AddTimer, AddHandler, RemoveHandler, BecomeReady, Destroy, Tick

\* Every timer entry keeps its one owner; when pushing a permanent timer again
\* fails, more timers are alive than the queue has room for.
LEMMA OwnerStep ==
  ASSUME IndInv, Next
  PROVE  TimerHasOneOwner'
<1>0. TypeOK /\ CurrentTimer /\ TimerHasOneOwner
  BY DEF IndInv
<1> DEFINE Queued == {e.timer : e \in queue}
<1>a. /\ \A e, f \in queue : e.timer = f.timer => e = f
      /\ cur # NoTimer => cur \notin Queued
      /\ alloc = Queued \cup ({cur} \ {NoTimer})
      /\ phase = "aborted" => Cardinality(alloc) > TimerCapacity
  BY <1>0 DEF TimerHasOneOwner
<1>1. ASSUME NEW t \in Timers, NEW d \in Delays, AddTimer(t, d)
      PROVE  TimerHasOneOwner'
  <2> DEFINE x == [timer |-> t, left |-> d]
  <2>1. /\ queue' = queue \cup {x} /\ x.timer = t /\ alloc' = alloc \cup {t} /\ t \notin alloc
        /\ cur' = cur /\ phase' # "aborted"
    BY <1>1 DEF AddTimer, InCallback
  <2> HIDE DEF x
  <2>2. \A e \in queue : e.timer # t
    BY <1>a, <2>1
  <2>3. {e.timer : e \in queue'} = Queued \cup {t}
    BY <2>1
  <2>4. \A e, f \in queue' : e.timer = f.timer => e = f
    BY <1>a, <2>1, <2>2
  <2>5. cur' # NoTimer => cur' \notin Queued \cup {t}
    BY <1>a, <2>1
  <2> QED
    BY <1>a, <2>1, <2>3, <2>4, <2>5 DEF TimerHasOneOwner
<1>2. CASE Destroy
  <2>1. cur = NoTimer /\ phase' # "aborted" /\ queue' = {} /\ alloc' = {} /\ cur' = cur
    BY <1>0, <1>2, <1>a DEF Destroy, CurrentTimer
  <2> QED
    BY <2>1 DEF TimerHasOneOwner
<1>3. CASE PopTimer
  <2>1. PICK x \in queue : queue' = queue \ {x} /\ cur' = x.timer
    BY <1>3 DEF PopTimer
  <2>2. cur = NoTimer /\ phase' # "aborted" /\ alloc' = alloc
    BY <1>0, <1>3 DEF PopTimer, CurrentTimer
  <2>3. {e.timer : e \in queue'} = Queued \ {x.timer}
    BY <1>a, <2>1
  <2>4. x.timer # NoTimer
    BY <1>0, DispatcherAssumption DEF TypeOK
  <2> QED
    BY <1>a, <2>1, <2>2, <2>3, <2>4 DEF TimerHasOneOwner
<1>4. CASE PermanentReturns
  <2>1. cur # NoTimer /\ alloc' = alloc
    BY <1>0, <1>4 DEF PermanentReturns, CurrentTimer
  <2>2. CASE Cardinality(queue) < TimerCapacity
    <3> DEFINE x == [timer |-> cur, left |-> delay[cur]]
    <3>1. /\ queue' = queue \cup {x} /\ x.timer = cur /\ cur' = NoTimer /\ phase' # "aborted"
      BY <1>4, <2>2 DEF PermanentReturns, Rearmed
    <3> HIDE DEF x
    <3>2. \A e \in queue : e.timer # cur
      BY <1>a, <2>1
    <3>3. {e.timer : e \in queue'} = Queued \cup {cur}
      BY <3>1
    <3>4. \A e, f \in queue' : e.timer = f.timer => e = f
      BY <1>a, <3>1, <3>2
    <3> QED
      BY <1>a, <2>1, <3>1, <3>3, <3>4 DEF TimerHasOneOwner
  <2>3. CASE ~(Cardinality(queue) < TimerCapacity)
    <3>1. queue' = queue /\ cur' = cur
      BY <1>4, <2>3 DEF PermanentReturns
    <3>2. IsFiniteSet(Queued) /\ Cardinality(Queued) = Cardinality(queue)
      BY <1>0, <1>a, QueuedTimersCount
    <3> HIDE DEF Queued
    <3>3. alloc = Queued \cup {cur} /\ cur \notin Queued
      BY <1>a, <2>1
    <3>4. Cardinality(alloc) = Cardinality(Queued) + 1
      BY <3>2, <3>3, FS_AddElement
    <3>5. Cardinality(queue) \in Nat
      BY <1>0, FS_CardinalityType DEF TypeOK
    <3>6. Cardinality(alloc) > TimerCapacity
      BY <2>3, <3>2, <3>4, <3>5, DispatcherAssumption
    <3> QED
      BY <1>a, <2>1, <3>1, <3>6 DEF TimerHasOneOwner, Queued
  <2> QED
    BY <2>2, <2>3
<1>5. CASE TimerReturns
  <2>1. cur # NoTimer /\ alloc' = alloc \ {cur} /\ cur' = NoTimer /\ queue' = queue /\ phase' # "aborted"
    BY <1>0, <1>5 DEF TimerReturns, CurrentTimer
  <2> QED
    BY <1>a, <2>1 DEF TimerHasOneOwner
<1>6. CASE Tick
  <2>1. /\ queue' = {[e EXCEPT !.left = @ - 1] : e \in queue}
        /\ alloc' = alloc /\ cur' = cur /\ phase' = phase /\ phase # "aborted"
    BY <1>6 DEF Tick
  <2>2. queue \in SUBSET [timer : Timers, left : Int]
    BY <1>0 DEF TypeOK
  <2>3. {e.timer : e \in queue'} = Queued
    <3>1. \A e \in queue : \E f \in queue' : f.timer = e.timer
      BY <2>1, <2>2, AgedTimers
    <3>2. \A f \in queue' : \E e \in queue : f.timer = e.timer
      BY <2>1, <2>2, AgedTimers
    <3> QED
      BY <3>1, <3>2
  <2>4. \A e, f \in queue' : e.timer = f.timer => e = f
    BY <1>a, <2>1, <2>2, AgedTimers
  <2> QED
    BY <1>a, <2>1, <2>3, <2>4 DEF TimerHasOneOwner
<1>7. CASE UNCHANGED <<queue, alloc, cur>> /\ (phase' = "aborted" => phase = "aborted")
  BY <1>a, <1>7 DEF TimerHasOneOwner
<1> QED
  BY <1>1, <1>2, <1>3, <1>4, <1>5, <1>6, <1>7
  DEF Next, Loop, vars, timerVars, Run, Stop, CheckStop, StartWait, EpollEvents, EpollTimeout,
      EpollInterrupted, EpollFails, CallHandler, HandlerReturns, EventsDone, AddHandler,
      RemoveHandler, BecomeReady

\* epoll_wait is entered with the time the first timer has left, and nothing
\* but time changes either while it lasts.
LEMMA SleepStep ==
  ASSUME IndInv, Next
  PROVE  NeverSleepsPastDeadline'
<1>0. TypeOK /\ NeverSleepsPastDeadline
  BY DEF IndInv
<1>1. CASE StartWait
  <2>1. queue' = queue /\ wait' = WaitTimeout /\ \A e \in queue : WaitTimeout <= e.left
    BY <1>0, <1>1, WaitTimeoutIsLeast DEF StartWait, timerVars
  <2>2. \A e \in queue : e.left > 0
    BY <1>0, <1>1 DEF StartWait, Due, TypeOK
  <2> QED
    BY <2>1, <2>2 DEF NeverSleepsPastDeadline
<1>2. CASE Tick /\ phase = "wait"
  <2>1. /\ queue' = {[e EXCEPT !.left = @ - 1] : e \in queue}
        /\ wait' = IF wait > 0 THEN wait - 1 ELSE 0
    BY <1>2 DEF Tick
  <2>2. /\ queue \in SUBSET [timer : Timers, left : Int] /\ wait \in Nat
        /\ \A e \in queue : wait <= IF e.left > 0 THEN e.left ELSE 0
    BY <1>0, <1>2 DEF TypeOK, NeverSleepsPastDeadline
  <2>3. ASSUME NEW e \in queue PROVE wait' <= IF e.left - 1 > 0 THEN e.left - 1 ELSE 0
    <3>1. e.left \in Int
      BY <2>2
    <3> QED
      BY <2>1, <2>2, <3>1
  <2> QED
    BY <2>1, <2>2, <2>3, AgedTimers DEF NeverSleepsPastDeadline
<1>3. CASE phase' # "wait"
  BY <1>3 DEF NeverSleepsPastDeadline
<1>4. CASE UNCHANGED <<queue, wait, phase>>
  BY <1>0, <1>4 DEF NeverSleepsPastDeadline
<1> QED
  BY <1>1, <1>2, <1>3, <1>4
  DEF Next, Loop, vars, timerVars, Run, Stop, CheckStop, PopTimer, PermanentReturns, TimerReturns,
      EpollEvents, EpollTimeout, EpollInterrupted, EpollFails, CallHandler, HandlerReturns,
      EventsDone, AddTimer, InCallback, AddHandler, RemoveHandler, MayRemove, BecomeReady, Destroy, Tick

-----------------------------------------------------------------------------
(* The theorems. *)

\* The dispatcher starts with an empty queue and nothing watched.
LEMMA InitInv == Init => IndInv
<1> SUFFICES ASSUME Init PROVE IndInv
  OBVIOUS
<1> USE DEF Init
<1>1. TypeOK
  <2>1. queue \in SUBSET [timer : Timers, left : Int] /\ IsFiniteSet(queue)
    BY FS_EmptySet
  <2>2. spent \in 0..MaxCallback /\ wait \in Nat /\ delay \in [Timers -> Nat \ {0}]
    BY DispatcherAssumption
  <2>3. toStop \in BOOLEAN
    OBVIOUS
  <2> QED
    BY <2>1, <2>2, <2>3 DEF TypeOK
<1>2. CurrentTimer /\ NeverSleepsPastDeadline /\ RemovedIsNotCalled
  BY DEF CurrentTimer, NeverSleepsPastDeadline, RemovedIsNotCalled
<1>3. TimerHasOneOwner
  BY DEF TimerHasOneOwner
<1>4. ReportedOnce
  BY DEF ReportedOnce, ToSet, IsInjective
<1> QED
  BY <1>1, <1>2, <1>3, <1>4 DEF IndInv

\* Every step of the loop, of a callback or of the kernel keeps the invariant.
LEMMA NextInv == IndInv /\ [Next]_vars => IndInv'
<1> SUFFICES ASSUME IndInv, [Next]_vars PROVE IndInv'
  OBVIOUS
<1>1. CASE Next
  <2>1. TypeOK' /\ CurrentTimer' /\ TimerHasOneOwner' /\ NeverSleepsPastDeadline'
    BY <1>1, TypeStep, CurrentStep, OwnerStep, SleepStep
  <2>2. ReportedOnce' /\ RemovedIsNotCalled'
    BY <1>1, ReadyStep, PendingStep DEF ReportedOnce, RemovedIsNotCalled
  <2> QED
    BY <2>1, <2>2 DEF IndInv
<1>2. CASE UNCHANGED vars
  BY <1>2 DEF vars, timerVars, eventVars, IndInv, TypeOK, CurrentTimer, TimerHasOneOwner,
     NeverSleepsPastDeadline, ReportedOnce, RemovedIsNotCalled, First, Due
<1> QED
  BY <1>1, <1>2

\* The invariant of the event loop.
THEOREM DispatcherInvariant == Spec => []IndInv
  BY InitInv, NextInv, PTL DEF Spec

\* The state of the dispatcher is always well-typed.
THEOREM DispatcherTypeCorrect == Spec => []TypeOK
<1>1. IndInv => TypeOK
  BY DEF IndInv
<1> QED
  BY <1>1, DispatcherInvariant, PTL

\* No timer entry leaks, is freed while queued or is queued twice, whatever the
\* callbacks do: the ensure() of dispatcher_run on pushing a permanent timer
\* again fails only when more timers are alive than timer_queue_capacity.
THEOREM TimersHaveOneOwner == Spec => []TimerHasOneOwner
<1>1. IndInv => TimerHasOneOwner
  BY DEF IndInv
<1> QED
  BY <1>1, DispatcherInvariant, PTL

\* The timeout given to epoll_wait never runs past the deadline of a timer, for
\* every set of delays.
THEOREM DispatcherNeverOversleeps == Spec => []NeverSleepsPastDeadline
<1>1. IndInv => NeverSleepsPastDeadline
  BY DEF IndInv
<1> QED
  BY <1>1, DispatcherInvariant, PTL

\* While the events of one epoll_wait are worked off, no handler that has been
\* removed is called, for every number of descriptors and of events per wait.
THEOREM RemovedHandlersAreNotCalled == Spec => []RemovedIsNotCalled
<1>1. IndInv => RemovedIsNotCalled
  BY DEF IndInv
<1> QED
  BY <1>1, DispatcherInvariant, PTL
=============================================================================
