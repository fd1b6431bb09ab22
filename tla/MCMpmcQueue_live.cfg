SPECIFICATION FairSpec
CONSTANTS
  p1 = p1
  p2 = p2
  c1 = c1
  c2 = c2
  Producers = {p1, p2}
  Consumers = {c1}
  Size = 2
  SizeT = 32
  Start = 0
  MaxPush = 2
  NoValue = NoValue
PROPERTIES EveryCallReturns EventuallyDrained
CHECK_DEADLOCK FALSE
