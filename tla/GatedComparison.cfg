SPECIFICATION Spec
CONSTANTS
    Missing = Missing
    Bad = Bad
    One = 4
    Measured <- MCMeasured
    Constructed <- MCConstructed
    Policies <- MCPolicies
    Tolerances <- MCTolerances
    MaxBytes = 2
    FileSizes = {2, 3}
INVARIANTS
    GatesInv
    NothingSkipped
    SwapMirrors
    CulpritShown
    DropGatesMatchComparison
    BetterNeverFails
    ReloadsAsSaved
CHECK_DEADLOCK FALSE
