----------------------------- MODULE Dispatcher -----------------------------
(***************************************************************************)
(* The event loop of dispatcher/dispatcher.c: it runs the timers that are  *)
(* due, waits in epoll_wait until the next one is, and calls the handlers  *)
(* of the file descriptors that are ready.                                 *)
(*                                                                         *)
(* The timer queue is the priority queue that module Heap implements.  A   *)
(* queued timer is [timer, left]: left is its deadline minus the current   *)
(* time, in ticks.  The callbacks are the program's: a callback may add    *)
(* timers and stop the dispatcher, any number of times, before it returns. *)
(* A callback may also remove its own handler, as those of the client tool *)
(* and of the echo client do.  The kernel's list of ready descriptors is   *)
(* level-triggered: what was reported and is still ready goes to its end.  *)
(* Time passes in callbacks and in epoll_wait.                             *)
(***************************************************************************)
EXTENDS Integers, FiniteSets, Sequences, SequencesExt

CONSTANTS Handlers,       \* file descriptors with a handler
          Timers,         \* timer entries that may be allocated
          NoTimer,
          Permanent,      \* the timers added with is_permanent
          Delays,         \* delays of timers
          TimerCapacity,  \* timer_queue_capacity
          MaxEvents,      \* max_events_per_wait
          DefaultWait,    \* default_wait_timeout
          MaxCallback,    \* how many ticks the callback of a timer may take
          MaxLate         \* bound: how late, in ticks, a timer may be

ASSUME DispatcherAssumption ==
  /\ IsFiniteSet(Handlers) /\ IsFiniteSet(Timers) /\ NoTimer \notin Timers
  /\ Permanent \subseteq Timers
  /\ Delays \subseteq Nat \ {0}
  /\ TimerCapacity \in Nat /\ MaxEvents \in Nat \ {0} /\ DefaultWait \in Nat
  /\ MaxCallback \in Nat /\ MaxLate \in Nat

\* No program of the repository has timers whose callbacks together take
\* longer than the delay of another one.  With such timers dispatcher_run
\* would run nothing but timers: whenever one returns, another is due.
ASSUME TimersAreQuick == \A d \in Delays : (Cardinality(Timers) - 1) * MaxCallback < d

VARIABLES queue,    \* the timer queue
          alloc,    \* timer entries allocated and not freed
          delay,    \* delay[t], the delay of timer t
          phase,    \* where dispatcher_run is
          cur,      \* the timer whose callback runs
          spent,    \* the time this callback has taken
          registered,  \* descriptors in the epoll set
          ready,    \* the kernel's list of those that are ready
          pending,  \* events reported by epoll_wait and not handled yet
          wait,     \* how long epoll_wait still waits
          toStop    \* to_stop

timerVars == <<queue, alloc, delay, cur, spent>>
eventVars == <<registered, ready, pending>>
vars == <<timerVars, eventVars, phase, wait, toStop>>

Init ==
  /\ queue = {}
  /\ alloc = {}
  /\ delay = [t \in Timers |-> 1]
  /\ phase = "idle"
  /\ cur = NoTimer
  /\ spent = 0
  /\ registered = {}
  /\ ready = <<>>
  /\ pending = <<>>
  /\ wait = 0
  /\ toStop = FALSE

Due(e) == e.left <= 0
First(e) == \A f \in queue : e.left <= f.left

\* dispatcher_run has returned, or the process has died of a failed ensure().
NotRunning == phase \in {"idle", "destroyed", "aborted"}

-----------------------------------------------------------------------------
(* What callbacks, and the program before dispatcher_run, may do. *)

InCallback == phase \in {"fire", "handle"}

\* dispatcher_add_timer: a full queue refuses the timer, which is freed again.
AddTimer(t, d) ==
  /\ InCallback \/ phase = "idle"
  /\ t \notin alloc
  /\ Cardinality(queue) < TimerCapacity
  /\ queue' = queue \cup {[timer |-> t, left |-> d]}
  /\ alloc' = alloc \cup {t}
  /\ delay' = [delay EXCEPT ![t] = d]
  /\ UNCHANGED <<cur, spent, eventVars, phase, wait, toStop>>

\* dispatcher_stop.
Stop ==
  /\ InCallback
  /\ toStop' = TRUE
  /\ UNCHANGED <<timerVars, eventVars, phase, wait>>

\* dispatcher_add_handler, before the dispatcher runs.
AddHandler(h) ==
  /\ phase = "idle"
  /\ h \notin registered
  /\ registered' = registered \cup {h}
  /\ UNCHANGED <<timerVars, ready, pending, phase, wait, toStop>>

MayRemove(h) == h \in registered /\ (phase = "idle" \/ (phase = "handle" /\ h = Head(pending)))

\* Mutant: the descriptor is still watched.
RemoveHandlerWatched(h) ==
  /\ MayRemove(h)
  /\ registered' = registered \ {h}
  /\ UNCHANGED <<timerVars, ready, pending, phase, wait, toStop>>

\* dispatcher_remove_handler: by the handler itself, or while nothing runs.
RemoveHandler(h) ==
  /\ MayRemove(h)
  /\ registered' = registered \ {h}
  /\ ready' = RemoveFirst(ready, h)
  /\ UNCHANGED <<timerVars, pending, phase, wait, toStop>>

\* dispatcher_destroy, after dispatcher_run has returned.
Destroy ==
  /\ phase = "idle"
  /\ phase' = "destroyed"
  /\ queue' = {}
  /\ alloc' = alloc \ {e.timer : e \in queue}
  /\ registered' = {}
  /\ ready' = <<>>
  /\ toStop' = FALSE
  /\ UNCHANGED <<delay, cur, spent, pending, wait>>

-----------------------------------------------------------------------------
(* dispatcher_run. *)

Run ==
  /\ phase = "idle"
  /\ phase' = "loop"
  /\ toStop' = FALSE
  /\ UNCHANGED <<timerVars, eventVars, wait>>

\* Mutant: to_stop is looked at only when no timer is queued.
CheckStopLate ==
  /\ phase = "loop"
  /\ phase' = IF toStop /\ queue = {} THEN "idle" ELSE "timers"
  /\ toStop' = IF queue = {} THEN FALSE ELSE toStop
  /\ UNCHANGED <<timerVars, eventVars, wait>>

\* The top of the loop: return if to_stop is set.
CheckStop ==
  /\ phase = "loop"
  /\ phase' = IF toStop THEN "idle" ELSE "timers"
  /\ toStop' = FALSE
  /\ UNCHANGED <<timerVars, eventVars, wait>>

\* The earliest timer is due: it is popped and its callback called.
PopTimer ==
  /\ phase = "timers"
  /\ \E e \in queue :
       /\ First(e) /\ Due(e)
       /\ queue' = queue \ {e}
       /\ cur' = e.timer
  /\ spent' = 0
  /\ phase' = "fire"
  /\ UNCHANGED <<alloc, delay, eventVars, wait, toStop>>

\* Mutant: a permanent timer is not pushed again.
RearmedNever == queue

\* A permanent timer is due again its delay after its callback has returned.
Rearmed == queue \cup {[timer |-> cur, left |-> delay[cur]]}

\* The callback of a permanent timer returns, and the timer is pushed again.
\* That "must succeed"; there is no room for it when the callback has filled
\* the place the timer left.
PermanentReturns ==
  /\ phase = "fire" /\ cur \in Permanent
  /\ IF Cardinality(queue) < TimerCapacity
     THEN queue' = Rearmed /\ cur' = NoTimer /\ phase' = "timers"
     ELSE UNCHANGED <<queue, cur>> /\ phase' = "aborted"
  /\ spent' = 0
  /\ UNCHANGED <<alloc, delay, eventVars, wait, toStop>>

\* Any other timer is freed.
TimerReturns ==
  /\ phase = "fire" /\ cur \notin Permanent
  /\ alloc' = alloc \ {cur}
  /\ cur' = NoTimer
  /\ spent' = 0
  /\ phase' = "timers"
  /\ UNCHANGED <<queue, delay, eventVars, wait, toStop>>

\* Mutant: the wait does not depend on the timers.
WaitTimeoutDefault == DefaultWait

\* wait_timeout: until the earliest timer is due.
WaitTimeout == IF queue = {} THEN DefaultWait ELSE (CHOOSE e \in queue : First(e)).left

\* No timer is due: epoll_wait.
StartWait ==
  /\ phase = "timers"
  /\ \A e \in queue : ~Due(e)
  /\ wait' = WaitTimeout
  /\ phase' = "wait"
  /\ UNCHANGED <<timerVars, eventVars, toStop>>

\* Mutant: the descriptors reported first stay first.
RequeuedFirst(n) == ready

\* What was reported goes to the end of the kernel's list.
Requeued(n) == SubSeq(ready, n + 1, Len(ready)) \o SubSeq(ready, 1, n)

\* epoll_wait reports up to max_events_per_wait descriptors, in the order of
\* the kernel's list.
EpollEvents ==
  /\ phase = "wait" /\ ready # <<>>
  /\ LET n == IF Len(ready) < MaxEvents THEN Len(ready) ELSE MaxEvents
     IN  /\ pending' = SubSeq(ready, 1, n)
         /\ ready' = Requeued(n)
  /\ phase' = "events"
  /\ wait' = 0
  /\ UNCHANGED <<timerVars, registered, toStop>>

\* epoll_wait times out, or is interrupted by a signal (EINTR).
EpollTimeout ==
  /\ phase = "wait" /\ wait = 0 /\ ready = <<>>
  /\ phase' = "loop"
  /\ UNCHANGED <<timerVars, eventVars, wait, toStop>>

EpollInterrupted ==
  /\ phase = "wait"
  /\ phase' = "loop"
  /\ wait' = 0
  /\ UNCHANGED <<timerVars, eventVars, toStop>>

\* Any other error ends dispatcher_run.
EpollFails ==
  /\ phase = "wait"
  /\ phase' = "idle"
  /\ wait' = 0
  /\ UNCHANGED <<timerVars, eventVars, toStop>>

\* The next event's handler is called ...
CallHandler ==
  /\ phase = "events" /\ pending # <<>>
  /\ phase' = "handle"
  /\ UNCHANGED <<timerVars, eventVars, wait, toStop>>

\* ... and returns, having drained its descriptor or not.
HandlerReturns(drained) ==
  /\ phase = "handle"
  /\ ready' = IF drained THEN RemoveFirst(ready, Head(pending)) ELSE ready
  /\ pending' = Tail(pending)
  /\ phase' = "events"
  /\ UNCHANGED <<timerVars, registered, wait, toStop>>

EventsDone ==
  /\ phase = "events" /\ pending = <<>>
  /\ phase' = "loop"
  /\ UNCHANGED <<timerVars, eventVars, wait, toStop>>

-----------------------------------------------------------------------------
(* The environment. *)

BecomeReady(h) ==
  /\ h \in registered /\ h \notin ToSet(ready)
  /\ ready' = Append(ready, h)
  /\ UNCHANGED <<timerVars, registered, pending, phase, wait, toStop>>

\* Time passes in epoll_wait and in callbacks.
Tick ==
  /\ phase \in {"wait", "handle"} \/ (phase = "fire" /\ spent < MaxCallback)
  /\ \A e \in queue : e.left > -MaxLate
  /\ queue' = {[e EXCEPT !.left = @ - 1] : e \in queue}
  /\ spent' = IF phase = "fire" THEN spent + 1 ELSE 0
  /\ wait' = IF wait > 0 THEN wait - 1 ELSE 0
  /\ UNCHANGED <<alloc, delay, cur, eventVars, phase, toStop>>

-----------------------------------------------------------------------------
Loop ==
  \/ CheckStop \/ PopTimer \/ PermanentReturns \/ TimerReturns \/ StartWait
  \/ EpollEvents \/ EpollTimeout \/ CallHandler \/ EventsDone
  \/ \E drained \in BOOLEAN : HandlerReturns(drained)

Next ==
  \/ Loop \/ EpollInterrupted \/ EpollFails \/ Run \/ Stop \/ Destroy \/ Tick
  \/ \E t \in Timers, d \in Delays : AddTimer(t, d)
  \/ \E h \in Handlers : AddHandler(h) \/ RemoveHandler(h) \/ BecomeReady(h)
  \/ phase \in {"destroyed", "aborted"} /\ UNCHANGED vars

(***************************************************************************)
(* The loop keeps going and callbacks return; time goes on in every wait;  *)
(* and signals do not interrupt every single epoll_wait.  Nothing obliges  *)
(* anyone to run the dispatcher, to stop it, or to send.                   *)
(***************************************************************************)
Fairness == WF_vars(Loop) /\ SF_vars(Tick) /\ SF_vars(EpollEvents)

Spec == Init /\ [][Next]_vars /\ Fairness
-----------------------------------------------------------------------------
(* Properties. *)

\* A timer entry is allocated exactly while it is queued once or its callback
\* runs: none leaks, none is freed while queued, and a permanent timer is
\* never lost.  The ensure() on pushing it again fails only in a program with
\* more timers alive than the queue has room for.
TimerHasOneOwner ==
  /\ \A e, f \in queue : e.timer = f.timer => e = f
  /\ cur # NoTimer => cur \notin {e.timer : e \in queue}
  /\ alloc = {e.timer : e \in queue} \cup ({cur} \ {NoTimer})
  /\ phase = "aborted" => Cardinality(alloc) > TimerCapacity

\* epoll_wait never sleeps past the deadline of a timer.
NeverSleepsPastDeadline ==
  phase = "wait" => \A e \in queue : wait <= IF e.left > 0 THEN e.left ELSE 0

\* The events of one epoll_wait are handled one after the other while earlier
\* handlers may remove themselves: no handler is called after its removal,
\* when its owner may have freed it.
RemovedIsNotCalled ==
  phase = "events" => ToSet(pending) \subseteq registered

\* Once a callback has stopped the dispatcher, dispatcher_run returns.
StopIsHonoured == toStop ~> NotRunning

\* Every timer of a running dispatcher fires, whatever else happens.
TimersFire == \A t \in Timers : (t \in alloc /\ ~NotRunning) ~> (cur = t \/ NotRunning)

\* A descriptor that is ready is reported, even when there are more ready
\* ones than max_events_per_wait and timers keep firing, unless it is removed.
ReadyIsReported ==
  \A h \in Handlers :
    (h \in ToSet(ready) /\ ~NotRunning)
      ~> (h \in ToSet(pending) \/ h \notin registered \/ NotRunning)

-----------------------------------------------------------------------------
(* What the invariants need in order to be inductive. *)

\* Type invariant.
TypeOK ==
  /\ queue \in SUBSET [timer : Timers, left : Int]
  /\ IsFiniteSet(queue)
  /\ alloc \in SUBSET Timers
  /\ delay \in [Timers -> Nat \ {0}]
  /\ phase \in {"idle", "loop", "timers", "fire", "wait", "events", "handle", "destroyed", "aborted"}
  /\ cur \in Timers \cup {NoTimer}
  /\ spent \in 0..MaxCallback
  /\ registered \in SUBSET Handlers
  /\ ready \in Seq(Handlers)
  /\ pending \in Seq(Handlers)
  /\ wait \in Nat
  /\ toStop \in BOOLEAN

\* A timer's callback runs, or the process has died in it.
CurrentTimer == cur # NoTimer <=> phase \in {"fire", "aborted"}

\* The kernel's list has each watched descriptor at most once, and so has what
\* was reported; while a handler runs, it is the first of what is pending, and
\* the others are still watched.
ReportedOnce ==
  /\ ToSet(ready) \subseteq registered /\ IsInjective(ready)
  /\ phase \in {"events", "handle"} => IsInjective(pending)
  /\ phase = "handle" => pending # <<>> /\ ToSet(Tail(pending)) \subseteq registered

IndInv ==
  /\ TypeOK
  /\ CurrentTimer
  /\ TimerHasOneOwner
  /\ NeverSleepsPastDeadline
  /\ ReportedOnce
  /\ RemovedIsNotCalled
=============================================================================
