SPECIFICATION Spec
CONSTANTS
    Deliverables = {d1, d2}
    Activities = {a1}
    Procs = {p1, p2}
    NoDeliverable = NoDeliverable
    MaxBudgets = 3
    Births = {"approved"}
    FirstOnly = FALSE
SYMMETRY Symm
INVARIANT TypeOK
INVARIANT LatestIsCurrent
INVARIANT VersionsGrowFromApproved
INVARIANT ReleaseRestsOnApproval
PROPERTY WorkflowsKept
CHECK_DEADLOCK FALSE
