CONSTANTS
  Once = {o1}
  Periodic = {p1}
  Registered = {o1, p1}
  AtomicWrites = TRUE
  MaxStarts = 2
SPECIFICATION FairSpec
INVARIANTS
  TypeOK
  NoTaskLost
  EveryTaskTended
PROPERTIES
  EveryTaskRuns
CHECK_DEADLOCK FALSE
