SPECIFICATION PoolsSpec
CONSTANTS
  NPorts = 1
  NSlabs = 4
  SlabSize = 2
  FillSize = 2
  RxSize = 2
  MaxBurst = 2
  SharedPorts = 2
  SharedSlabs = 6
  SharedSlabSize = 1
INVARIANTS TypeOK EmptySlabAvailable SlabPartition RefillNeverSpins NoBufferTwice
PROPERTIES ImplementsCalls SharedImplementsCalls
CHECK_DEADLOCK FALSE
