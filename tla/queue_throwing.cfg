CONSTANTS
  r1 = r1
  Req = {r1, r2}
  Stream = {s1}
  MaxConcurrent = 1
  MaxSize = 2
  MaxRetries <- UnevenRetries
  Priority <- SamePriority
  StreamBody = {s1}
  Stateful = {r2}
  Throwing <- AllHooksButRetry
  NeBuckets = {"rpm", "tpm"}
  NeCapacity = 2
  NeMinute = 2
  NeEnd = 3
  NePause = 2
  NeStreams = {"stream"}
  NeRequests = {n1, n2}
  NeQueueLives = 2
  TpCalls = {c1, c2}
  TpSubs = {u1}
  TpAsks = {q1}
  TpKinds = {"stdio", "ws", "http"}
  MAX_RESUME_ATTEMPTS = 2
  McCalls = {c1, c2}
  McLists = {l1, l2}
  McFetches = {"engine", "plain"}
  McRestarts = 1
  McChanges = 2
  McMaxRounds = 1
  OaUsers = {v1, v2}
  OaGrants = 3
  OaRedirects = 2
  StLetters = {"d", "z", "e"}
  StLength = 5
  RtCalls = {c1, c2}
  RtKinds = {"openai", "google"}
  RtFrames = 2
  TlTraces = {t1}
  TlRuns = {r1, r2}
  TlTools = {k1}
  TlRequests = {q1}
  TlLlmCalls = 2
  TlSpans = 4
  TlAttempts = 2
  TlMaxLineage = 4
  TlTypes = {"agent", "llm", "message"}
  CcCalls <- NwCalls
  CcBudgets <- NwBudgets
  CcAgents = {a1}
  CcLength = 3
  CaModels = {m1, m2}
  CaSamples = {a, b}
  CaStrategies = {"tiktoken", "count_api", "heuristic"}
  CaMeasures = {x}
SPECIFICATION NetworkSpec
INVARIANTS
  ConcurrencyCap
  NetworkTypeOK
  LimitsHold
  McpDelivers
  McpClientHolds
  StreamsFaithful
  ObserversFaithful
PROPERTIES
  TpCloseEndsAll
CHECK_DEADLOCK FALSE
