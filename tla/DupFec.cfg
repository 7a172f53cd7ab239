SPECIFICATION Spec
CONSTANTS
  Capacity = 3
  Timeout = 1
  MaxId = 4
INVARIANT
  DeduplicatesExactly
