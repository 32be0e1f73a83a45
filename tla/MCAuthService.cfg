SPECIFICATION Spec
CONSTANTS
  u1 = u1  u2 = u2  u3 = u3  p1 = p1  p2 = p2
  Username <- MCUsername
  Password <- MCPassword
  Master = Master
  MaxUsers = 2
  AccessLifetime = 1
  RefreshLifetime = 2
  TickModulus = 4
  MaxTime = 4
  MaxTokens = 3
SYMMETRY MCSymmetry
CONSTRAINT MCTimeBound
INVARIANTS
  SessionsMatchUsers
  SessionTableSuffices
  RetiredStayRetired
  LifetimesHold
