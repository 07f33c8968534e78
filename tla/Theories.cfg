SPECIFICATION TheoriesSpec
CONSTANTS
  NumNodes = 7
  Decl <- PredDecl
  Args <- PredArgs
  Val <- PredVal
  NoVal = NoVal
  ArithNodes <- PredArith
  Atoms <- PredAtoms
  NumVars = 4
  Stages <- PredStages
  MaxTrail = 3
  MaxPasses = 2
  NumStruct = 3
  Forms <- OnlineForms
  Bounds <- DiffBounds
  MaxScopes = 1
  SatVars = 3
  AtomBounds <- OnlineAtoms
  ArithEquations <- OnlineEquations
  MaxArithTrail = 3
  MaxArithPasses = 3
INVARIANTS
  GraphExact
  UndoExact
  GraphTells
  SimplexExact
  SimplexRight
  HookRight
CHECK_DEADLOCK FALSE
