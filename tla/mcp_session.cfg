CONSTANTS
  McCalls = {c1}
  McLists = {}
  McFetches = {"engine"}
  McRestarts = 1
  McChanges = 0
  McMaxRounds = 0
SPECIFICATION McSpec
PROPERTIES
  McForgottenIsRebuilt
CHECK_DEADLOCK FALSE
