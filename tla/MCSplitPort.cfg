SPECIFICATION FairSpec
CONSTANTS
  NSlabs = 9
  SlabSize = 2
  FillSize = 2
  CompSize = 2
  RxSize = 2
  TxSize = 2
  MaxBurstRx = 2
  MaxBurstTx = 2
INVARIANTS TypeOK BuffersCirculate EmptySlabLeft NeverStarved
PROPERTIES TransmitterReturns
CHECK_DEADLOCK FALSE
