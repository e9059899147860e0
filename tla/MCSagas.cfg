SPECIFICATION SagasSpec
CONSTANTS
  w1 = w1
  w2 = w2
  a1 = a1
  a2 = a2
  NoAssignment = NoAssignment
  OrderCount = 1
  UserCount = 3
  Assignments = {a1, a2}
  Amounts = {2, 4}
  StartingCredits = 3
  Allowed = 1
  Elapsed = {1}
  Workers = {w1, w2}
  Reward = 1
  MaxFaults = 2
SYMMETRY SagasSymmetry
INVARIANTS
  SagasPaidFor
  AssignmentsAgree
  OutcomeAccepted
PROPERTIES
  CommandsOnce
CHECK_DEADLOCK FALSE
