CONSTANTS
  r1 = r1
  Req = {r1}
  Stream = {}
  MaxConcurrent = 1
  MaxSize = 1
  MaxRetries <- OneRetry
  Priority <- SamePriority
  StreamBody = {}
  Stateful = {}
  Throwing = {"onRequestComplete"}
SPECIFICATION Spec
PROPERTIES
  NoResendAfterSuccess
CHECK_DEADLOCK FALSE
