CONSTANTS
  r1 = r1
  Req = {r1, r2}
  Stream = {s1}
  MaxConcurrent = 1
  MaxSize = 1
  MaxRetries <- OneRateLimitRetry
  Priority <- SamePriority
  StreamBody = {}
  Stateful = {}
  Throwing <- SurvivableHooks
SPECIFICATION FairSpec
PROPERTIES
  EveryRequestSettles
CHECK_DEADLOCK FALSE
