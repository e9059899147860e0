SPECIFICATION UsersSpec
CONSTANTS
  u1 = u1
  u2 = u2
  u3 = u3
  s1 = s1
  s2 = s2
  x1 = x1
  x2 = x2
  None = None
  NoChat = NoChat
  Users <- MCSignedIn
  Requests <- MCRequests
  MaxLinks = 2
  MaxSessions = 3
  MaxRoles = 2
  MaxPolicies = 1
INVARIANT SuspensionEndsSessions
CHECK_DEADLOCK FALSE
