SPECIFICATION Spec
CONSTANTS
  HeapKeys = {1, 2, 3}
  HeapValues = {1, 2, 3, 4, 5}
  HeapCapacity = 5
  QueueValues = {1, 2, 3}
  QueueCapacity = 3
  NULL = NULL
  LruMapKeys = {1, 2, 3, 4}
  LruMapValues = {5, 6}
  LruMapCapacity = 3
  HashKeys = {0, 1, 3, 4, 6}
  HashValues = {7, 8}
  InitialCapacity = 2
  Degree = 8
  GenPoly = 285
  T = 3
  K = 3
  MaxDataSize = 2
  Symbols = {0, 143}
  Degrees = {0, 1, 30, 31, 64, 95, 128, 159, 192, 223}
  EchoKeys = {k1, k2, k3, k4}
  NoKey = NoKey
  KeyBuffers = {x1, x2}
  DedupTimeout = 1
  SeqNum = 2
  DupNum = 2
  PathNum = 2
  Below = 1
  Above = 2
  MaxIndex = 4
  Times = {1, 2, 3}
  MetricCapacity = 4
  Percents = {50, 90}
  MaxRecords = 6
INVARIANTS
  ContainersConsistent
  AnyKPacketsRestoreTheBlock
  MaskIsExact
  KeyBufferInOnePlace
  EchoedOncePerTimeout
  EveryPacketHasItsPaths
  StatisticsAreExact
PROPERTIES
  ImplementsPriorityQueue
  ImplementsQueue
  ImplementsLru
  ImplementsDictionary
