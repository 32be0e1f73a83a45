SPECIFICATION FairTimeSpec
CONSTANTS
  RetrySeconds = 1
  ResyncSeconds = 2
  TimeoutSeconds = 2
  MaxInFlight = 2
  MaxAge = 2
  Seconds = {0, 86399}
INVARIANTS
  FreshUnlessOffline
  ClocksAgree
PROPERTIES
  KeepsAsking
