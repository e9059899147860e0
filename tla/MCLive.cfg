SPECIFICATION LiveSpec
CONSTANTS
  w1 = w1
  w2 = w2
  a1 = a1
  a2 = a2
  NoAssignment = NoAssignment
  p1 = p1
  ann = ann
  bob = bob
  None = None
  nobody = nobody
CHECK_DEADLOCK FALSE
PROPERTIES
  WaitsEnd
  NothingLeftOver
