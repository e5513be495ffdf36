SPECIFICATION FairSpec
CONSTANTS
  NoPath = NoPath
  BuiltIn = BuiltIn
  NoUpdate = NoUpdate
  Paths = {PathA}
  MaxReloads = 1
  MaxVersion = 2
  MaxCrashes = 1
INVARIANTS CacheTruthful ShownIsConfigured
PROPERTIES ComesToRest
CHECK_DEADLOCK FALSE
