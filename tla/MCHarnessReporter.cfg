SPECIFICATION ReporterSpec
CONSTANTS
    s1 = s1
    toolA = toolA
    Malformed = Malformed
    NoName = NoName
    Absent = Absent
    NoTarget = NoTarget
    Threads = {t1, t2}
    Callbacks = {c1, c2}
    Sessions = {s1}
    Events <- AllEvents
    Decisions <- OneDecision
    MaxDecisions = 1
    Worker = t1
    Harnesses = {h1}
    NativeCalls <- MCNativeCalls
    Direct <- DirectEvents
    Bodies = {"messages", "result"}
    MaxQueue = 1
    MaxReports = 2
    MaxDropped = 1
    MaxLog = 2
    MaxIssued = 2
INVARIANTS TypeOK VersionsHandedOutInOrder EventsHeardOnce ReportsConserved
PROPERTIES EveryEventIsHeard AcceptedIsHandled
CHECK_DEADLOCK FALSE
