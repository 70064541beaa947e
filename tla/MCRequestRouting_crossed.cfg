SPECIFICATION RoutingSpec
CONSTANTS
    s1 = s1
    s2 = s2
    g1 = g1
    g2 = g2
    Malformed = Malformed
    NoName = NoName
    Absent = Absent
    NoTarget = NoTarget
    NoEstimate = NoEstimate
    Infeasible = Infeasible
    Idle = Idle
    Threads = {g1, g2}
    Handlers = {g1, g2}
    Callbacks = {}
    Sessions = {s1}
    Events = {}
    Decisions = {}
    Requests <- Opposed
    Targets <- Both
    Config <- DefaultConfig
    Estimate <- Profile
    Unreported <- Seen
    SerialClients = FALSE
    MaxDecisions = 1
    MaxLog = 10
    MaxIssued = 14
INVARIANTS RoutedWithinConstraints
CHECK_DEADLOCK FALSE
