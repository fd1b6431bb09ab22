SPECIFICATION FairSpec
CONSTANTS
  nic = nic
  veth = veth
  Ports = {nic, veth}
  Nic = {nic}
  Dest <- Across
  NonLocal = {}
  NSlabs = 18
  SlabSize = 1
  FillSize = 1
  RxSize = 1
  MaxBurst = 1
  QueueSize = 1
  TxSize = 1
  CompSize = 1
  MaxBurstTx = 1
INVARIANTS StarvedOnlyWhileBusy
PROPERTIES ReceiverServed
