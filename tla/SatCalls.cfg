SPECIFICATION Spec
CONSTANTS
  NumVars = 3
  Pool <- CallsPool
  AssumptionLists <- CallsAssumptions
  ConflictLimits = {0, 3}
  TheoryModels <- ValidModels
  TheoryLits <- ValidLits
  MaxImplied = 2
  EmptyReasons = TRUE
  TheoryCalls = {TRUE, FALSE}
  WatchAll = TRUE
  WatchedVars = {}
  Resumable = FALSE
  ChronoLevels = 100
  RestartUnit = 1
  InitialMaxLearnt = 0
  MaxMkVar = 3
  MaxSolves = 1
  MaxPending = 0
INVARIANTS
  VerdictsRight
CHECK_DEADLOCK FALSE
