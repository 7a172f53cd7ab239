SPECIFICATION Spec
CONSTANTS
  Handlers = {h1, h2, h3}
  Timers = {t1, t2, t3}
  NoTimer = NoTimer
  Permanent = {t1}
  Delays = {3}
  TimerCapacity = 2
  MaxEvents = 2
  DefaultWait = 2
  MaxCallback = 1
  MaxLate = 1
INVARIANTS
  TimerHasOneOwner
  NeverSleepsPastDeadline
  RemovedIsNotCalled
PROPERTIES
  StopIsHonoured
  TimersFire
  ReadyIsReported
