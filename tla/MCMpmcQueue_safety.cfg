SPECIFICATION Spec
CONSTANTS
  p1 = p1
  p2 = p2
  c1 = c1
  c2 = c2
  Producers = {p1, p2}
  Consumers = {c1, c2}
  Size = 2
  SizeT = 32
  Start = 30
  MaxPush = 2
  NoValue = NoValue
SYMMETRY ThreadSymmetry
INVARIANTS TypeOK CellExclusive
PROPERTIES RefusedOnlyWhenFull EmptyOnlyWhenNothingReady ImplementsFifo
CHECK_DEADLOCK FALSE
