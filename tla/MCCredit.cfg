SPECIFICATION CreditSpec
CONSTANTS
  a1 = a1
  a2 = a2
  OrderCount = 2
  UserCount = 2
  Assignments <- MCAssignments
  NoAssignment = NoAssignment
  Amounts <- MCAmounts
  StartingCredits = 3
  Allowed = 2
  Elapsed <- MCElapsed
  Reader = 1
  PageSize = 2
  MaxWaits = 1
INVARIANTS
  TypeOK
  Solvent
  HoldsBacked
  OffersAgree
  BooksBalance
  ReplayTruthful
  LedgerAgrees
PROPERTIES
  DecisionsFinal
  ImplementsEscrow
CHECK_DEADLOCK FALSE
