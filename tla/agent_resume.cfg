CONSTANTS
  Run = {r1, r2}
  Streamed = {r2}
  Call = {c1}
  Args = {a1, a2}
  Gated = {a1, a2}
  Nobody = Nobody
  Parallel = FALSE
  MaxSteps = 2
  Reflects = TRUE
  MaxRetries = 0
  ThrowIfExceeded = TRUE
  Checkpointed = TRUE
  Throwing <- AllThrowers
  Reissues = TRUE
  MaxStaged = 1
  MaxCrashes = 1
SPECIFICATION Spec
INVARIANTS
  NoRogueExecution
  GateIsDurable
  NoToolOutlivesItsRun
  StagedInputSaidOnce
CHECK_DEADLOCK FALSE
