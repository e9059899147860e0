SPECIFICATION SupplierSpec
CONSTANTS
  u1 = u1
  u2 = u2
  a1 = a1
  q1 = q1
  l1 = l1
  l2 = l2
  k1 = k1
  k2 = k2
  s1 = s1
  s2 = s2
  None = None
SYMMETRY SupplierSymmetry
INVARIANTS
  ApprovedAsReviewed
  StatesAgree
PROPERTIES
  ChangesExact
CHECK_DEADLOCK FALSE
