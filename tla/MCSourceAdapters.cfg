SPECIFICATION Spec
CONSTANTS
    NoLimit = NoLimit
    Unset = Unset
    NoKey = NoKey
    Absent = Absent
    Nodes = {"n1"}
    Pods = {"p1", "p2"}
    NodeOf <- MCNodeOf
    RuntimeOf <- MCRuntimeOf
    Found <- MCFound
    Changes <- MCChanges
    Pollers = {"runtime", "dcgm", "kv"}
    Windows = {"unhealthy"}
    MaxEvents = 3
INVARIANTS PlaneFollowsCluster
PROPERTIES WatchCatchesUp
