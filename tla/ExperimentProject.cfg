SPECIFICATION Spec
CONSTANTS
    Missing = Missing
    Bad = Bad
    Null = Null
    Wrong = Wrong
    One = 4
    SupportedMetrics = {"recall", "ndcg"}
    Paths <- MCPaths
    Template <- Plain
    Cuts <- MCCuts
    Projects <- MCProjects
    Edits <- MCEdits
    Policies <- MCPolicies
    Options <- MCOptions
    Queries = {1, 2}
    MaxEdits = 1
    MaxRuns = 2
INVARIANTS
    ProjectInv
    GatedByOwnPolicy
    HalfTemplateNotRun
    ReportsFollowResult
CHECK_DEADLOCK FALSE
