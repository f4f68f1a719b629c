CONSTANTS
  SvWorkloads <- PgWorkloads
  SvModels = {"m1"}
  SvAuth = TRUE
  SvAgentLoader = FALSE
  SvIds = {i1, i2}
  SvCapacity = 1
  SvPuts = 3
  SvReads = 2
  ToCalls <- PgToolCalls
  ToNames = {"in", "out"}
  ToExternal = {"out"}
  ToScopes <- PgScopes
  ToChanges = 1
  AbOrder <- PgOrder
  AbTroubles = 1
  LzTools <- PgLazy
  LzQueries = {{"file"}, {"url"}, {"read", "file"}, {"none"}}
  LzLimit = 2
  LzMaxSearches = 2
  MeCalls <- PgMediaCalls
  MeItems = 2
  MePolls = 2
  FiFiles <- PgFiles
  FiRequests <- PgRequests
  FiMessages <- PgMessages
  FiProviders = {"google", "xai", "openai"}
  FiAdapters = {"google", "xai"}
  FiThreshold = 10
  FiAsked = FALSE
  FiLifetime = 0
  FiEnd = 1
  FiDeletions = 1
  ChStores = {"memory", "file"}
  ChNames <- PgCacheNames
  ChKeys <- PgCacheKeys
  ChWide = {"w"}
  ChTtl = 0
  ChEnd = 1
  ChOps = 3
  CfNames = {"p", "q", "r"}
  CfSettings <- PgSettings
  CfOps = 3
  RvLength = 9
  RvMaxChars = 4
  RvOverlapChars = 2
  VsCorpora = {"c1", "c2"}
  VsJobs <- PgVectorJobs
  VsStored <- PgStored
  VsScore <- PgScore
  VsRestarts = 1
  HrDocs = {h1, h2, h3}
  RgBackends = {"b1", "b2"}
  RgTools = {"t1", "t2"}
  RgLookups <- PgLookups
  RgChanges = 4
  ItRuns <- PgRuns
  ItProvider <- PgProvider
  ItKeys = {"openai"}
  ItDedicated = {"m2"}
  MgData <- PgCatalogs
  MgNames <- PgModelNames
  MgPrices = {1, 3}
  MgLoads = 4
  MgEnd = 2
SPECIFICATION PluginsSpec
INVARIANTS
  PluginsTypeOK
  ServicesFaithful
  LookupsFindTheBest
CHECK_DEADLOCK FALSE
