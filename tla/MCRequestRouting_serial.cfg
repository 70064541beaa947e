SPECIFICATION RoutingSpec
CONSTANTS
    s1 = s1
    s2 = s2
    g1 = g1
    g2 = g2
    Malformed = Malformed
    NoName = NoName
    Absent = Absent
    NoTarget = NoTarget
    NoEstimate = NoEstimate
    Infeasible = Infeasible
    Idle = Idle
    Threads = {g1, g2, h}
    Handlers = {g1, g2}
    Callbacks = {}
    Sessions = {s1, s2}
    Events <- Reports
    Decisions = {}
    Requests <- Conversation
    Targets <- Both
    Config <- DefaultConfig
    Estimate <- Profile
    Unreported <- Seen
    SerialClients = TRUE
    MaxDecisions = 1
    MaxLog = 11
    MaxIssued = 7
SYMMETRY Symmetric
INVARIANTS RoutedWithinConstraints RefusedOnlyIfUnmet NoCheapRetryAfterFailure NoRequestIsLost
PROPERTIES DowngradesAreStable
CHECK_DEADLOCK FALSE
