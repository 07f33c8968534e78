SPECIFICATION Spec
CONSTANTS
    Points = 2
    NumVars = 2
    NumBools = 1
    Atoms <- Atoms2
    Problems <- AllProblems
    Ints = {1}
    Zero = 1
INVARIANTS
    NlsatRight
