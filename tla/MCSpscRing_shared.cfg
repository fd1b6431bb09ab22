SPECIFICATION Spec
CONSTANTS
  Producers = {p1, p2}
  Values = {x, y}
  Size = 4
  UInt32 = 16
  NoValue = NoValue
PROPERTIES SuccessMeansQueued
CHECK_DEADLOCK FALSE
