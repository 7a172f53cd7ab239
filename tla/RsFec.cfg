SPECIFICATION Spec
CONSTANTS
  N = 3
  K = 2
  EncoderNum = 2
  BufferNum = 2
  Timeout = 1
  Sizes = {1, 2}
  MaxDataSize = 1
  MaxId = 2
  MaxFaults = 1
INVARIANTS
  CacheHoldsAllBuffers
  ErasuresFitTheCode
  BlockDeliveredOnce
  OnlySentMessagesDelivered
  BlockCountersBalance
PROPERTIES
  LiveBlockNeverDropped
CHECK_DEADLOCK FALSE
