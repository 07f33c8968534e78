SPECIFICATION SmtSpec
CONSTANTS
    Atoms <- AllAtoms
    EufKind <- EufAtoms
    ArithKind <- Arith
    Worlds <- Both
    EufWorlds <- Euf
    OnlineWorlds <- Online
    Formulas <- Combine
    SplitOf <- Splits
    Branches <- Lower
    NewEqs <- Eq0
    Eager = FALSE
    Resume = TRUE
    RoundLimit = 2
    CoreAfter = 1
    Unlimited = Unlimited
    Limit = 2
    PerConflict = 1
    MaxConflicts = 1
    MaxChecks = 2
    x = x y = y rec = rec con = con rel = rel
    la = la lb = lb lu = lu le = le g = g conj = conj every = every some = some
    axiom = axiom value = value goal = goal unnamed = unnamed
    Names <- MCNames
    CmdFormulas <- MCFormulas
    CmdWorlds <- MCWorlds
    ModelsOf <- MCModelsOf
    Uses <- MCUses
    Kind <- MCKind
    Parts <- MCParts
    Label <- MCLabel
    NoLabel = unnamed
    NoModel = nomodel
    Axiom <- MCAxiom
    Mutual <- MCMutual
    RelGoal <- MCRelGoal
    Ids <- MCIds
    Preamble <- OneDeclared
    Asserts = {la, lb, lu, conj}
    Literals = {la, lb}
    Commands = {"push", "pop", "reset", "reset-assertions", "declare-fun", "define-fun", "define-fun-rec", "define-funs-rec", "declare-rel", "assert", "assert-soft", "check-sat", "query", "get-unsat-core"}
    MaxCommands = 5
INVARIANTS
    NoModelLost
    SatModelReal
    OnlineComplete
    StackExact
    AnswersCurrent
PROPERTIES
    Decides
    RoundsProgress
CHECK_DEADLOCK FALSE
