SPECIFICATION DeliverySpec
CONSTANTS
  p1 = p1
  p2 = p2
  w1 = w1
  w2 = w2
  q1 = q1
  q2 = q2
  Proofs = {p1, p2}
  Workers = {w1, w2}
  Probers = {q1, q2}
  Deadline = 3
  Lifetime = 1
  OutageAge = 2
  ProbeTimeout = 1
  MaxStaged = 2
  MaxReceipts = 2
  MaxTime = 4
  MaxGenerations = 2
  MaxPuts = 2
  MaxOutages = 1
  MaxPublications = 3
  MaxFaults = 1
SYMMETRY DeliverySymmetry
INVARIANTS
  AdmittedIsKept
  DeliveredOnce
  ReadsAgree
PROPERTIES
  ExceptionIsCertified
CHECK_DEADLOCK FALSE
