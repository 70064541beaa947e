SPECIFICATION Spec
CONSTANTS
    NoLimit = NoLimit
    Unset = Unset
    NoKey = NoKey
    Absent = Absent
    Threads = {t1, t2}
    Callbacks = {k1, k2}
    Entities = {"i1", "c1"}
    EntityType <- MCEntityType
    Lifecycles = {"ready", "draining"}
    EventIds = {"x", "y", "z"}
    SetUp <- OneSetUp
    IdempotencyKeys = {}
    Relations = {"deployed_on", "manages"}
    UnknownKeys = {"unknown"}
    Keys = {"load", "health"}
    KeyTypes <- MCKeyTypes
    KeyTtl <- MCKeyTtl
    Batches <- ReaderBatches
    Requests <- ReaderRequests
    Samples = {}
    Beats = {}
    Descriptors = {}
    MaxSnapshots = 1
    MaxChanges = 2
    MaxMetrics = 1
    MaxEvents = 2
    MaxTime = 1
    MaxRevision = 5
    MaxTokens = 1
    MaxSkew = 0
INVARIANTS TypeOK SnapshotsAreConsistent FeedIsRecentLog CallbacksAreServed
    EventOncePerWindow
PROPERTIES EveryChangeDelivered BatchesAreAtomic
CHECK_DEADLOCK FALSE
