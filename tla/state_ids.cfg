CONSTANTS
  LcServers <- LmServers
  LcBound = {"google"}
  LcRetention = 0
  LcTurns = 2
  LcClock = 0
  LcRepairs = 0
SPECIFICATION LcSpec
INVARIANTS
  LcStateIdsAreIssued
CHECK_DEADLOCK FALSE
