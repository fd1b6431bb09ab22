SPECIFICATION SharedAccessSpec
CONSTANTS
  Producers = {producer}
  Values = {x, y}
  Size = 4
  UInt32 = 8
  NoValue = NoValue
  rx = rx
  CacheThreads = {rx, tx}
  PoolSlots = 1
  SlabSize = 2
  MpscProducers = {p1, p2}
  MpscMax = 2
INVARIANTS TypeOK RingChecksHold CacheTypeOK CacheSlabAvailable CacheBufferOnce MpscAssertsHold
PROPERTIES RingImplementsFifo CacheImplementsCalls MpscImplementsFifo
CHECK_DEADLOCK FALSE
