CONSTANTS
  Run = {r1, s1}
  Streamed = {s1}
  Call = {c1, c2}
  Args = {safe, risky}
  Gated = {risky}
  Nobody = Nobody
  Parallel = TRUE
  MaxSteps = 2
  Reflects = TRUE
  MaxRetries = 1
  ThrowIfExceeded = FALSE
  Checkpointed = FALSE
  Throwing <- MostThrowers
  Reissues = FALSE
  MaxStaged = 0
  MaxCrashes = 0
SPECIFICATION FairSpec
INVARIANTS
  TypeOK
  OneRunAtATime
  RunsAreSound
PROPERTIES
  EveryRunEndsReported
CHECK_DEADLOCK FALSE
