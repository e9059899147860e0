SPECIFICATION EventsSpec
CONSTANTS
  r1 = r1
  r2 = r2
  o1 = o1
  o2 = o2
  q1 = q1
  q2 = q2
  ann = ann
  bob = bob
  None = None
  Nobody = Nobody
  Orders = {1}
  Revisions = 2
  Relays = {1, 2}
  Unencodable = {}
  BatchLimit = 2
  MaxFaults = 3
SYMMETRY EventsSymmetry
INVARIANTS
  CommittedIsSettled
  CommittedIsOpened
  CommittedIsTold
  StopsCleanly
PROPERTIES
  KeysCurrent
  PacingKept
  ImplementsOrderedFacts
CHECK_DEADLOCK FALSE
