SPECIFICATION Spec
CONSTANTS
  NPorts = 16
  NSlabs = 16
  SlabSize = 1
  FillSize = 1
  RxSize = 1
  MaxBurst = 1
INVARIANTS EveryPortFindsSlabs
CHECK_DEADLOCK FALSE
