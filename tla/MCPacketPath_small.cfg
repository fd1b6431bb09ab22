SPECIFICATION FairSpec
CONSTANTS
  nic = nic
  veth = veth
  Ports = {nic, veth}
  Nic = {nic}
  Dest <- Across
  NonLocal = {nic}
  NSlabs = 6
  SlabSize = 2
  FillSize = 2
  RxSize = 2
  MaxBurst = 2
  QueueSize = 1
  TxSize = 1
  CompSize = 1
  MaxBurstTx = 1
INVARIANTS TypeOK BuffersAccountedFor
PROPERTIES TxSpinEnds QueueDrains
CHECK_DEADLOCK FALSE
