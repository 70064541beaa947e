\* One decision: every view of Inputs with every one to four targets of Pool.
SPECIFICATION Spec
CONSTANTS
    Config <- DefaultConfig
    Estimate <- Heuristic
    NoEstimate = NoEstimate
    Infeasible = Infeasible
    Idle = Idle
    Views <- Inputs
    TargetSets <- Sets
INVARIANTS
    SuccessComesFirst
    CostComesSecond
    RiskIsGuarded
    DowngradesWait
CHECK_DEADLOCK FALSE
