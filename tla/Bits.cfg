SPECIFICATION BitsSpec
CONSTANTS
    MaxVars = 4
    MaxGates = 2
    Widths = {1, 2, 3, 4}
    Depth = 1
    NumVars = 2
    Constraints <- Curves
    MaxCount = 2
    RootUnit = 4
    MaxRoot = 40
    Grid <- Halves
    MaxSearch = 30
    CooperVars = {1, 2}
    Formulas <- CubesUpToTwo
    MaxSpan = 10
    Near = 8
    Far = 20
INVARIANTS
    GatesRight
    BlastExact
    BoxRight
    Exact
CHECK_DEADLOCK FALSE
