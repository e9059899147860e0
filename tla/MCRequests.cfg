SPECIFICATION RequestsSpec
CONSTANTS
  r1 = r1
  r2 = r2
  Callers = {1, 2}
  Keys = {1, 2}
  Requests <- MCRequestIds
  Images = {1}
  Bodies <- MCBodies
  Suspended = {}
  Disabled = {}
  MaxRecent = 1
  MaxOrders = 2
  MaxFaults = 1
SYMMETRY RequestsSymmetry
INVARIANTS
  OneOrderPerKey
  ImagesKept
  RecordsAgree
PROPERTIES
  PastIsKept
CHECK_DEADLOCK FALSE
