SPECIFICATION Spec
CONSTANTS
  NumVars = 3
  Pool <- AssumedPool
  AssumptionLists <- OneAssumption
  ConflictLimits = {9}
  TheoryModels <- NoTheory
  TheoryLits = {}
  MaxImplied = 0
  EmptyReasons = FALSE
  TheoryCalls = {FALSE}
  WatchAll = TRUE
  WatchedVars = {}
  Resumable = FALSE
  ChronoLevels = 100
  RestartUnit = 1
  InitialMaxLearnt = 0
  MaxMkVar = 0
  MaxSolves = 1
  MaxPending = 0
INVARIANTS
  UnsatUnderAssumptions
CHECK_DEADLOCK FALSE
