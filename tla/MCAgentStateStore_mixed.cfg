SPECIFICATION Spec
CONSTANTS
    s1 = s1
    s2 = s2
    toolA = toolA
    toolB = toolB
    toolC = toolC
    Malformed = Malformed
    NoName = NoName
    Absent = Absent
    NoTarget = NoTarget
    Threads = {t1}
    Callbacks = {}
    Sessions = {s1}
    Events <- GatewayAndHarness
    Decisions <- OneDecision
    MaxDecisions = 1
    MaxLog = 3
    MaxIssued = 4
INVARIANTS OnlyRepeatsAreDuplicates
CHECK_DEADLOCK FALSE
