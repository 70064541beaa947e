SPECIFICATION Spec
CONSTANTS
    NoLimit = NoLimit
    Unset = Unset
    NoKey = NoKey
    Absent = Absent
    Threads = {t1, t2}
    Callbacks = {}
    Entities = {"i1", "n1", "c1"}
    EntityType <- MCEntityType
    Lifecycles = {"ready", "draining"}
    EventIds = {"x", "y", "z"}
    SetUp <- MCSetUp
    IdempotencyKeys = {"a", "b"}
    Relations = {"deployed_on", "manages"}
    UnknownKeys = {"unknown"}
    Keys = {"load", "health"}
    KeyTypes <- MCKeyTypes
    KeyTtl <- MCKeyTtl
    Batches <- WriteBatches
    Requests = {}
    Samples <- MCSamples
    Beats <- MCBeats
    Descriptors <- MCDescriptors
    MaxSnapshots = 1
    MaxChanges = 2
    MaxMetrics = 1
    MaxEvents = 1
    MaxTime = 3
    MaxRevision = 8
    MaxTokens = 0
    MaxSkew = 0
INVARIANTS CasWinsOnce AppliedOnce LogExplainsState
PROPERTIES VersionsIncrease FreshAuthorityKept
CHECK_DEADLOCK FALSE
