SPECIFICATION Spec
CONSTANTS
  Producers = {p1, p2}
  Slots = {s1, s2}
  NoSlot = NoSlot
  MaxSends = 3
INVARIANTS
  TypeOK
  EnsuresHold
  WakeupsMatchMessages
  SlotInOnePlace
  MessageHasOneOwner
PROPERTIES
  QueuedIsEventuallyFreed
  ImplementsMailbox
