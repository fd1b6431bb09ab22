SPECIFICATION Spec
CONSTANTS
  rx = rx
  tx = tx
  Threads = {rx, tx}
  HalfOf <- SharedHalf
  Takers = {rx}
  PoolSlots = 2
  SlabSize = 2
INVARIANTS EmptySlabAvailable
CHECK_DEADLOCK FALSE
