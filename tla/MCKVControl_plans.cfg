SPECIFICATION Spec
CONSTANTS
    Unknown = Unknown
    Malformed = Malformed
    NoOwner = NoOwner
    Threads = {t1}
    Bundles <- MCBundles
    Outcomes <- MCOutcomes
    Observations <- MCObservations
    Requests <- MCRequests
    Policies <- MCPolicies
    Registrations <- MCRegistrations
    StateOwners = {"engine", "cache"}
    FirstOwner = "engine"
    AllowedActions = {"keep", "offload", "prefetch"}
    BinCount = 10
    MinConfidence = 50
    MinCompleteness = 50
    PlanConfidence = 50
    OffloadPressure = 90
    OffloadMaxReuse = 30
    PrefetchMinReuse = 60
    PrefetchHorizon = 5
    PrefetchGuard = 98
    OffloadPhases = {"TOOL_WAITING", "BLOCKED", "PAUSED"}
    StableStates = {"idle", "resident", "ready"}
    MaxJournal = 2
    MaxRetained = 1
    MaxTaken = 2
    MaxPredicted = 5
    MaxOwnerChanges = 1
INVARIANTS PlansAreSound SameKeySameMove ReplayReproduces JournalIsCoherent ReportAddsUp
    ReplaysAreSound
CHECK_DEADLOCK FALSE
