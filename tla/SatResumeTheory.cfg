SPECIFICATION FairSpec
CONSTANTS
  NumVars = 3
  Pool <- ImplyPool
  AssumptionLists <- NoAssumptions
  ConflictLimits = {0, 9}
  TheoryModels <- ImplyModels
  TheoryLits <- ImplyLits
  MaxImplied = 1
  EmptyReasons = FALSE
  TheoryCalls = {TRUE}
  WatchAll = FALSE
  WatchedVars = {1, 2}
  Resumable = TRUE
  ChronoLevels = 0
  RestartUnit = 1
  InitialMaxLearnt = 0
  MaxMkVar = 0
  MaxSolves = 3
  MaxPending = 1
INVARIANTS
  StablePrefix
  TheoryRight
CHECK_DEADLOCK FALSE
