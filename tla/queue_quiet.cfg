CONSTANTS
  r1 = r1
  Req = {r1, r2, r3}
  Stream = {s1}
  MaxConcurrent = 2
  MaxSize = 2
  MaxRetries <- OneRateLimitRetry
  Priority <- MixedPriority
  StreamBody = {}
  Stateful = {r2}
  Throwing <- NoHook
SPECIFICATION Spec
INVARIANTS
  TypeOK
  SlotAccounting
  NoIdleSlot
  NoStrandedEntry
  EveryEntryHasAKeeper
PROPERTIES
  ImplementsLifecycle
CHECK_DEADLOCK FALSE
