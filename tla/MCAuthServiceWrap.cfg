SPECIFICATION Spec
CONSTANTS
  u1 = u1  u2 = u2  u3 = u3  p1 = p1  p2 = p2
  Username <- MCOneName
  Password <- MCOnePassword
  Master = Master
  MaxUsers = 1
  AccessLifetime = 1
  RefreshLifetime = 2
  TickModulus = 5
  MaxTime = 6
  MaxTokens = 3
INVARIANTS
  TokensExpire
