SPECIFICATION PathSpec
CONSTANTS
  SlabSize = 2
  PoolSlabs = 2
  RxSize = 2
  TxSize = 1
  CompSize = 1
  MaxBurstRx = 2
  MaxBurstTx = 1
  QueueSize = 1
  MaxPackets = 6
  s1 = s1
  s2 = s2
  s3 = s3
  Sources = {s1, s2, s3}
  Tokens = 4
  TokensBurst = 2
INVARIANTS SentAsQueued
CHECK_DEADLOCK FALSE
