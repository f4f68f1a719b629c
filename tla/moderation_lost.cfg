CONSTANTS
  MdStrategies = {"parallel"}
  MdLength = 4
  MdInterval = 2
SPECIFICATION MdSpec
INVARIANTS
  MdEveryVerdictSurfaces
CHECK_DEADLOCK FALSE
