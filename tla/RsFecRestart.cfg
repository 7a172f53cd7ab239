SPECIFICATION Spec
CONSTANTS
  N = 3
  K = 2
  EncoderNum = 1
  BufferNum = 2
  Timeout = 1
  Sizes = {1}
  MaxDataSize = 1
  MaxId = 2
  MaxFaults = 1
INVARIANT
  DroppedOnlyWhenProcessed
