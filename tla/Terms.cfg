SPECIFICATION TermsSpec
CONSTANTS
    WalkHeads <- FewHeads
    WalkNodes = 4
    Heads <- AllHeads
    Arity <- ArityOf
    Hash <- HashOf
    Slots = 1
    MaxEpoch = 2
    MaxNodes = 8
    Names <- FamilyNames
    Sources <- Managers
    Own <- OwnTerms
    MaxCalls = 3
    Roots <- SimplifyRoots
    Subjects <- SubstRoots
    Formulas <- NnfRoots
    Maps <- SubstMaps
    RewriterEnvs <- Values
    Goals <- SomeGoals
    Tactics <- EveryTactic
    TacticEnvs <- TruthValues
    TacticMaxCalls = 2
INVARIANTS
    HashConsed
    WalkRight
    CopiesRight
    RewritesRight
    TacticsRight
CHECK_DEADLOCK FALSE
