SPECIFICATION Spec
CONSTANTS
    s1 = s1
    s2 = s2
    toolA = toolA
    toolB = toolB
    toolC = toolC
    Malformed = Malformed
    NoName = NoName
    Absent = Absent
    NoTarget = NoTarget
    Threads = {t1}
    Callbacks = {c1}
    Sessions = {s1}
    Events <- AllEvents
    Decisions <- NoDecisions
    MaxDecisions = 1
    MaxLog = 4
    MaxIssued = 5
INVARIANTS SnapshotIsReplay SectionsMatchLog NumberedEventsAppliedOnce
CONSTRAINT ObserverComesFirst
CHECK_DEADLOCK FALSE
