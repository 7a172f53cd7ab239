SPECIFICATION Spec
CONSTANTS
  ProcessorNum = 2
  Buffers = {b1, b2}
  NoBuffer = NoBuffer
  MaxBlockId = 2
INVARIANTS
  BufferInOnePlace
  BusyOnlyWhileReleasing
  SameEncoderOnlyWhenIdle
  BlocksKeptApart
PROPERTIES
  BuffersReturn
