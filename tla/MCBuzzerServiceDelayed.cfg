SPECIFICATION FairSpec
CONSTANTS
  healthCheck = healthCheck  api = api
  Client <- MCClient
  Resource <- MCResource
  PromptCaller = TRUE
  MaxRequests = 3
CHECK_DEADLOCK FALSE
INVARIANTS
  LateCompletionIgnored
