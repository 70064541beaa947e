SPECIFICATION FeedSpec
CONSTANTS
    NoLimit = NoLimit
    Unset = Unset
    NoKey = NoKey
    Absent = Absent
    Threads = {t1}
    Callbacks = {}
    Entities = {"i1"}
    EntityType <- MCEntityType
    Lifecycles = {"ready", "draining"}
    EventIds = {"x", "y", "z"}
    SetUp <- MCSetUp
    IdempotencyKeys = {}
    Relations = {}
    UnknownKeys = {"unknown"}
    Keys = {"load", "health"}
    KeyTypes <- MCKeyTypes
    KeyTtl <- MCKeyTtl
    Batches <- MCBatches
    Requests = {}
    Samples = {}
    Beats = {}
    Descriptors = {}
    MaxSnapshots = 1
    MaxChanges = 3
    MaxMetrics = 1
    MaxEvents = 1
    MaxTime = 0
    MaxRevision = 6
    MaxTokens = 0
    MaxSkew = 0
    Watchers = {"all", "one"}
    Wanted <- MCWanted
    BatchSize = 2
    MaxBreaks = 1
INVARIANTS FeedIsFollowed
PROPERTIES EveryChangeReachesWatchers
CHECK_DEADLOCK FALSE
