CONSTANTS
  Req = {r1, r2}
  Batch = {b1}
  MaxBatch = 2
  Fault <- EveryFault
  MaxCrashes = 1
  LcServers <- LmServers
  LcBound = {"google"}
  LcRetention = 0
  LcTurns = 3
  LcClock = 1
  LcRepairs = 1
  MdStrategies = {"post", "buffer", "parallel"}
  MdLength = 4
  MdInterval = 2
  WiDeltas <- WxDeltas
  WiSpecIds <- WxSpecIds
  WiFlavors <- WxFlavors
  WiRequests <- WxRequests
  WiBuilds = 1
  SaApis = {"completions", "responses", "messages", "generate", "interactions"}
  SaLength = 3
  CgStrategies = {"truncate", "anchored", "layered", "off"}
  CgWindow = 8
  CgRecent = 2
  CgMaxRetries = 1
  CgSizes = {1, 3}
  CgSystem = {1}
  CgTurns = 4
  CrRegistries = {g, h, k}
  CrNames = {n1}
  CrTexts = {"a"}
  CrOps = 4
  AdUserTurns <- LmUserTurns
  AdAssistantTurns <- LmAssistantTurns
  AdResultBodies <- LmResultBodies
  AdLength = 4
  BjJobs <- LmJobs
  BjPolls = 1
  BjReadings = 2
SPECIFICATION LlmSpec
INVARIANTS
  EveryJobHasAPoll
  EveryCallerHasAKeeper
  LlmTypeOK
  CallsAreWhole
  RequestsFaithful
  AnswersFaithful
  ContextFaithful
PROPERTIES
  EveryCallerSettlesUnlessLost
  EveryJobIsAnnounced
CHECK_DEADLOCK FALSE
