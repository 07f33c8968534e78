SPECIFICATION ClausesSpec
CONSTANTS
    a = a
    b = b
    x = x
    Vars = {a, b, x}
    Cnf <- Open
    Clauses <- OpenSteps
    MaxSteps = 4
    Ops <- AllOps
    Nodes = 4
    AtomNodes = 2
    MaxRoots = 2
    RuleVars = {"X", "Y", "Z"}
    Consts = {"a", "b"}
    Preds = {"p", "e"}
    Programs <- ThreeRules
    Queries <- AskedAtoms
    Base <- AllFacts
INVARIANTS
    KeepsSatisfiable
    Certified
    EncodingExact
    LeastModel
PROPERTIES
    AnswersRight
CHECK_DEADLOCK FALSE
