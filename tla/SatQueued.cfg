SPECIFICATION Spec
CONSTANTS
  NumVars = 2
  Pool <- QueuePool
  AssumptionLists <- NoAssumptions
  ConflictLimits = {9}
  TheoryModels <- NoTheory
  TheoryLits = {}
  MaxImplied = 0
  EmptyReasons = FALSE
  TheoryCalls = {FALSE}
  WatchAll = TRUE
  WatchedVars = {}
  Resumable = TRUE
  ChronoLevels = 0
  RestartUnit = 1
  InitialMaxLearnt = 0
  MaxMkVar = 2
  MaxSolves = 2
  MaxPending = 2
INVARIANTS
  SatIsModel
CHECK_DEADLOCK FALSE
