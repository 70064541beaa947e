--------------------------- MODULE SourceAdapters ---------------------------
(***************************************************************************)
(* The adapter processes (stateflow/adapters): one follows a Kubernetes    *)
(* cluster by list and watch, the others poll a runtime, a GPU exporter    *)
(* and a KV metadata service.  Each publishes what it observes as a series *)
(* of calls to one State Plane; calls of different processes interleave,   *)
(* and any of them, or its answer, may be lost.                            *)
(*                                                                         *)
(* A process does one operation after another (PollingAdapterRunner).  An  *)
(* exception ends the operation with whatever it had published; what the   *)
(* next one does depends only on the cursor, which collect_kubernetes      *)
(* moves after its last observation.                                       *)
(*                                                                         *)
(* cluster, the API server's history, is external: entry v is the change   *)
(* that made resourceVersion v.  Up to compacted the server has forgotten  *)
(* the history, though not the objects.                                    *)
(***************************************************************************)
EXTENDS Admission, Sequences, FiniteSets

CONSTANTS
    Nodes, Pods, NodeOf,   \* the cluster: NodeOf[p] is where pod p runs
    RuntimeOf,             \* RuntimeOf[p] is the runtime that pod p is labelled with
    Found, Changes,        \* its history so far, what may happen: [object, ready, deleted]
    Pollers,               \* of "runtime", "dcgm" and "kv", those that run
    Windows,               \* what a polled source may show
    MaxEvents              \* bound of the model

Objects == Nodes \cup Pods
Sources == {"runtime", "dcgm", "kv"}
Lives == {"unset", "active", "ready", "healthy", "degraded", "unavailable", "deleted"}
Change == [object : Objects, ready : BOOLEAN, deleted : BOOLEAN]

ASSUME AdapterBounds == MaxEvents \in Nat
ASSUME NodesAndPods == Nodes \cap Pods = {} /\ NodeOf \in [Pods -> Nodes]
ASSUME OtherNames ==
    Objects \cap ({"gpu", "kv", "descriptor", "cluster"} \cup {RuntimeOf[p] : p \in Pods}) = {}
\* No resourceVersion is zero: what is listed first has a history.
ASSUME ClusterHistory == Found \in Seq(Change) /\ Found # <<>> /\ Changes \subseteq Change
ASSUME KnownPollers == Pollers \subseteq Sources
ASSUME AbsentIsNoLife == Absent \notin ({"k8s"} \cup Sources) \X Lives

VARIABLES
    cluster, compacted,    \* the API server
    now,                   \* utcnow() of every process
    cursor,                \* KubernetesWatchCursor, 0 for its empty strings
    stage, next,           \* what a collection has fetched, and the cursor it will leave
    listed,                \* history: the versions of the newest lists
    applied,               \* history: the versions of each object the plane accepted
    todo, done, missing,   \* per process: the observations ahead, how many calls of the
                           \* first are made, and what get_entity answered
    events,                \* changes, compactions, ticks, failures and, twice, polls: the bound
    entities, cells, idempotency, watermarks   \* the State Plane

planeVars == <<entities, cells, idempotency, watermarks, applied>>
clusterVars == <<cluster, compacted>>
watchVars == <<cursor, stage, next, listed>>
processVars == <<todo, done, missing>>
vars == <<clusterVars, now, watchVars, processVars, events, planeVars>>

Adapters == {"k8s"} \cup Pollers

(***************************************************************************)
(* What the sources show                                                   *)
(***************************************************************************)
Kinds == {"nodes", "pods"}
KindOf(o) == IF o \in Nodes THEN "nodes" ELSE "pods"

Versions(o, upTo) == {v \in 1..upTo : cluster[v].object = o}
Latest(o, upTo) ==
    IF Versions(o, upTo) = {} THEN 0
    ELSE CHOOSE v \in Versions(o, upTo) : \A w \in Versions(o, upTo) : w <= v

Happens(weight) == events' = events + weight /\ events' <= MaxEvents

Exists(o) == LET v == Latest(o, Len(cluster)) IN v # 0 /\ ~ cluster[v].deleted

\* Only fetches read the cluster: it need not change while a batch is published.
Observed == stage # "publish"

\* A pod runs on a node that exists; a node outlives its pods.
ChangeCluster(change) ==
    /\ Observed /\ Happens(1)
    /\ change.deleted => Exists(change.object)
    /\ IF change.object \in Pods THEN Exists(NodeOf[change.object])
       ELSE change.deleted => \A p \in Pods : NodeOf[p] = change.object => ~ Exists(p)
    /\ cluster' = Append(cluster, change)
    /\ UNCHANGED <<compacted, now, watchVars, processVars, planeVars>>

Compact ==
    /\ compacted < Len(cluster) /\ Observed /\ Happens(1)
    /\ compacted' = Len(cluster)
    /\ UNCHANGED <<cluster, now, watchVars, processVars, planeVars>>

Tick ==
    /\ Happens(1)
    /\ now' = now + 1
    /\ UNCHANGED <<clusterVars, watchVars, processVars, planeVars>>

(***************************************************************************)
(* The calls an observation becomes (the publish method of each adapter)   *)
(*   upsert_entity   [op, ref, life]                                       *)
(*   ensure_entity   [op, ref], which asks, and [op, ref, life], which     *)
(*                   creates the entity if it was missing                  *)
(*   publish_state   [op, updates]                                         *)
(*   upsert_relations and the heartbeat that ends a publish                *)
(*                   [op, updates, mark]                                   *)
(* upsert_entity replaces the whole entity, so life tells who wrote it;    *)
(* one that is only ensured has no lifecycle.                              *)
(* register_component after list_components is an ensure of its own.       *)
(* Left out, as nobody else writes them or they are written together with  *)
(* what is here: the cluster's entity, node.allocatable,                   *)
(* instance.allocated_gpu, further metrics, and parts that are optional.   *)
(***************************************************************************)
Upsert(a, ref, life) == [op |-> "upsert", ref |-> ref, life |-> <<a, life>>]
Ask(ref) == [op |-> "get", ref |-> ref]
Create(a, ref) == [op |-> "create", ref |-> ref, life |-> <<a, "unset">>]
Publish(updates) == [op |-> "publish", updates |-> updates]
Conclude(updates, mark) == [op |-> "conclude", updates |-> updates, mark |-> mark]

\* What was observed, its observation_id, and observed_at.
Observation(of, id) == [of |-> of, id |-> id, at |-> now]

Lifecycle == 0   \* the ttl of values; relations have none

Update(a, ob, slot, value, authority, ttl) ==
    [slot |-> slot, value |-> value, authority |-> authority, ttl |-> ttl, timestamp |-> ob.at,
     key |-> <<a, ob.id, slot>>, expected |-> Unset, version |-> 0]

StateOf(a, ob, slot, value, authority) == Update(a, ob, slot, value, authority, Lifecycle)
RelationOf(a, ob, slot, authority) == Update(a, ob, slot, "", authority, NoLimit)

Health(n) == <<"node.health", n>>
Ready(p) == <<"instance.ready", p>>
MainSlot(o) == IF o \in Nodes THEN Health(o) ELSE Ready(o)
Placed(x, y) == <<"contains", x, y>>
DeployedOn(p) == <<"deployed_on", RuntimeOf[p], p>>

\* decode: what version v of an object says of its health or readiness, and of
\* its lifecycle.
ShownValue(v) ==
    CASE cluster[v].deleted /\ cluster[v].object \in Nodes -> "deleted"
      [] ~ cluster[v].deleted /\ cluster[v].ready          -> "healthy"
      [] OTHER                                             -> "unhealthy"

ShownLife(v) ==
    CASE cluster[v].deleted -> "deleted"
      [] ~ cluster[v].deleted /\ cluster[v].ready -> "ready"
      [] OTHER -> IF cluster[v].object \in Nodes THEN "degraded" ELSE "unavailable"

\* decode, of version v of an object: observation_id names both.
Decoded(v) == Observation(cluster[v].object, <<cluster[v].object, v>>)
VersionIn(ob) == ob.id[2]

\* KubernetesStateAdapter.publish.  The observation of a pod says nothing of its
\* node's health, and upserts the node all the same.
KubernetesCalls(ob) ==
    LET o == ob.of
        v == VersionIn(ob)
        node == IF o \in Nodes THEN o ELSE NodeOf[o]
        relation(slot) == RelationOf("k8s", ob, slot, 4)
        inCluster == relation(Placed("cluster", node))
        publish == Publish({StateOf("k8s", ob, MainSlot(o), ShownValue(v), 4)})
    IN  IF o \in Nodes
        THEN <<Upsert("k8s", node, ShownLife(v)), publish, Conclude({inCluster}, ob.id)>>
        ELSE <<Upsert("k8s", node, IF cluster[v].deleted THEN "deleted" ELSE "ready"),
               Upsert("k8s", o, ShownLife(v)), Ask(RuntimeOf[o]), Create("k8s", RuntimeOf[o]),
               publish,
               Conclude({inCluster, relation(Placed(node, o)), relation(DeployedOn(o))}, ob.id)>>

\* RuntimeStateAdapter.publish of what PrometheusRuntimeSourceClient.collect
\* makes of a metrics page: an endpoint that answers is healthy and ready.  The
\* observation_id is the page's hash, here the window itself.
RuntimeCalls(ob) ==
    LET p == ob.of
        r == RuntimeOf[p]
        value(slot, v, authority) == StateOf("runtime", ob, slot, v, authority)
        relation(slot) == RelationOf("runtime", ob, slot, 3)
    IN  <<Ask("descriptor"), Create("runtime", "descriptor"),
          Upsert("runtime", r, "ready"), Upsert("runtime", p, "ready"),
          Ask(NodeOf[p]), Create("runtime", NodeOf[p]),
          Publish({value(<<"runtime.queue_depth", r>>, ob.id[1], 2), value(Ready(p), "healthy", 3)}),
          Conclude({relation(DeployedOn(p)), relation(Placed(NodeOf[p], p))}, ob.id)>>

\* DCGMStateAdapter.publish of a GPU of node n; XID errors in the window make
\* the node unhealthy.
DCGMCalls(ob) ==
    LET n == ob.of
        life == IF ob.id[1] = "unhealthy" THEN "degraded" ELSE "healthy"
        value(slot) == StateOf("dcgm", ob, slot, ob.id[1], 2)
    IN  <<Ask(n), Create("dcgm", n), Upsert("dcgm", "gpu", life),
          Publish({value(<<"resource.hbm.used", "gpu">>), value(Health(n))}),
          Conclude({RelationOf("dcgm", ob, Placed(n, "gpu"), 2)}, ob.id)>>

\* KVStateAdapter.publish of an object that lies on the GPU.
KVCalls(ob) ==
    <<Upsert("kv", "kv", "active"), Ask("gpu"), Create("kv", "gpu"),
      Publish({StateOf("kv", ob, <<"kv.size", "kv">>, ob.id[1], 4)}),
      Conclude({RelationOf("kv", ob, <<"located_on", "kv", "gpu">>, 4)}, ob.id)>>

Calls(a, ob) ==
    CASE a = "k8s"     -> KubernetesCalls(ob)
      [] a = "runtime" -> RuntimeCalls(ob)
      [] a = "dcgm"    -> DCGMCalls(ob)
      [] a = "kv"      -> KVCalls(ob)

\* What a poll may observe of a source that shows this window.
Polled(a, window) ==
    {Observation(of, <<window, 0>>) :
        of \in CASE a = "runtime" -> Pods [] a = "dcgm" -> Nodes [] a = "kv" -> {"kv"}}

(***************************************************************************)
(* The State Plane as its callers see it: one call is one step             *)
(***************************************************************************)
Refs == Objects \cup {"gpu", "kv", "descriptor"} \cup {RuntimeOf[p] : p \in Pods}

Slots ==
    {MainSlot(o) : o \in Objects} \cup {DeployedOn(p) : p \in Pods}
        \cup {Placed("cluster", n) : n \in Nodes} \cup {Placed(n, "gpu") : n \in Nodes}
        \cup {Placed(NodeOf[p], p) : p \in Pods}
        \cup {<<"runtime.queue_depth", RuntimeOf[p]>> : p \in Pods}
        \cup {<<"resource.hbm.used", "gpu">>, <<"kv.size", "kv">>, <<"located_on", "kv", "gpu">>}

\* What a slot names, its first element aside, must be registered.
Registered(slot) == \A i \in 2..Len(slot) : slot[i] \in Refs => entities[slot[i]] # Absent

\* Mutant: an observation that was published before is published again.
AdmittedAgain(updates) ==
    {u \in updates : Registered(u.slot) /\ Admits(u, cells[u.slot])}

\* _publish_one and _upsert_relation.  The updates of one call have different
\* slots, so that none sees what another wrote.
Admitted(updates) ==
    {u \in updates :
        u.key \notin idempotency /\ Registered(u.slot) /\ Admits(u, cells[u.slot])}

Filled(u, cell) ==
    [version |-> NextVersion(u, cell), authority |-> u.authority, timestamp |-> u.timestamp,
     ttl |-> u.ttl, value |-> u.value]

FillCells(updates) ==
    cells' = [slot \in Slots |->
                 IF \E u \in updates : u.slot = slot
                 THEN Filled(CHOOSE u \in updates : u.slot = slot, cells[slot])
                 ELSE cells[slot]]

\* What the Kubernetes process says of object o itself.
Says(u, o) == u.key[1] = "k8s" /\ u.slot = MainSlot(o)

NoteApplied(updates) ==
    applied' = [o \in Objects |->
                   IF \E u \in updates : Says(u, o)
                   THEN Append(applied[o], (CHOOSE u \in updates : Says(u, o)).key[2][2])
                   ELSE applied[o]]

Idle(a) == todo[a] = <<>>

\* The next call of process a is carried out; after the last of an observation
\* comes the next observation.
Call(a) ==
    /\ ~ Idle(a) /\ (a = "k8s" => stage = "publish")
    /\ LET calls == Calls(a, Head(todo[a]))
           call == calls[done[a] + 1]
           isLast == done[a] + 1 = Len(calls)
       IN
       /\ \/ /\ call.op = "upsert" \/ (call.op = "create" /\ missing[a])
             /\ entities' = [entities EXCEPT ![call.ref] = call.life]
             /\ missing' = [missing EXCEPT ![a] = FALSE]
             /\ UNCHANGED <<cells, idempotency, applied, watermarks>>
          \/ /\ call.op = "create" /\ ~ missing[a]
             /\ UNCHANGED <<missing, planeVars>>
          \/ /\ call.op = "get"
             /\ missing' = [missing EXCEPT ![a] = entities[call.ref] = Absent]
             /\ UNCHANGED planeVars
          \/ /\ call.op \in {"publish", "conclude"}
             /\ LET admitted == Admitted(call.updates) IN
                /\ FillCells(admitted) /\ NoteApplied(admitted)
                /\ idempotency' = idempotency \cup {u.key : u \in admitted}
             /\ watermarks' = IF call.op = "publish" THEN watermarks
                              ELSE [watermarks EXCEPT ![a] = call.mark]
             /\ UNCHANGED <<entities, missing>>
       /\ done' = [done EXCEPT ![a] = IF isLast THEN 0 ELSE @ + 1]
       /\ todo' = [todo EXCEPT ![a] = IF isLast THEN Tail(@) ELSE @]
    /\ UNCHANGED <<clusterVars, now, watchVars, events>>

(***************************************************************************)
(* collect_kubernetes                                                      *)
(***************************************************************************)
NoVersions == [kind \in Kinds |-> 0]
Initialized == \A kind \in Kinds : cursor[kind] # 0
Expired(kind) == cursor[kind] < compacted

\* The changes of one kind after version from.
After(kind, from) == {v \in from + 1..Len(cluster) : KindOf(cluster[v].object) = kind}

\* A finite watch: the server sends what it has, at least the next change, and
\* may add a bookmark, which names a version it has sent everything up to.
WatchEnds(ahead, from) == ahead \cup {Len(cluster)} \cup (IF ahead = {} THEN {from} ELSE {})

\* The versions of a set, in their order.
InOrder(versions) ==
    LET upTo[v \in 0..Len(cluster)] ==
            IF v = 0 THEN <<>>
            ELSE IF v \in versions THEN Append(upTo[v - 1], v) ELSE upTo[v - 1]
    IN  upTo[Len(cluster)]

\* What is fetched and decoded now is published after the last fetch, behind
\* what was fetched earlier.
Fetched(earlier, versions) ==
    LET batch == InOrder(versions) IN earlier \o [i \in DOMAIN batch |-> Decoded(batch[i])]

\* _watch_resource of nodes, then of pods.  An ERROR event or an HTTP status 410
\* sends the collection to relist, whatever it had collected.
Watch(kind) ==
    /\ stage = (IF kind = "nodes" THEN "idle" ELSE "watch") /\ Initialized
    /\ \/ /\ Expired(kind)
          /\ stage' = "list" /\ next' = NoVersions /\ todo' = [todo EXCEPT !["k8s"] = <<>>]
       \/ /\ ~ Expired(kind)
          /\ LET ahead == After(kind, cursor[kind]) IN
             \E upTo \in WatchEnds(ahead, cursor[kind]) :
                /\ todo' = [todo EXCEPT !["k8s"] = Fetched(todo["k8s"], {v \in ahead : v <= upTo})]
                /\ next' = [next EXCEPT ![kind] = upTo]
          /\ stage' = IF kind = "nodes" THEN "watch" ELSE "publish"
    /\ UNCHANGED <<clusterVars, now, cursor, listed, done, missing, events, planeVars>>

\* What a list shows: every object of the kind as it is.
Listing(kind) ==
    {Latest(o, Len(cluster)) : o \in {x \in Objects : KindOf(x) = kind /\ Exists(x)}}

\* decode gives all it is handed one observed_at.
Stamped(observations) == [i \in DOMAIN observations |-> [observations[i] EXCEPT !.at = now]]

\* relist: nodes, then pods, each with the version of its own list.  Both are
\* decoded together, when the second has come.
List(kind) ==
    /\ stage = (IF kind = "pods" THEN "relist" ELSE IF Initialized THEN "list" ELSE "idle")
    /\ todo' = [todo EXCEPT !["k8s"] = Fetched(Stamped(todo["k8s"]), Listing(kind))]
    /\ next' = [next EXCEPT ![kind] = Len(cluster)]
    /\ listed' = [listed EXCEPT ![kind] = Len(cluster)]
    /\ stage' = IF kind = "nodes" THEN "relist" ELSE "publish"
    /\ UNCHANGED <<clusterVars, now, cursor, done, missing, events, planeVars>>

\* The last observation is published: the operation succeeds.
MoveCursor ==
    /\ stage = "publish" /\ Idle("k8s")
    /\ cursor' = next /\ stage' = "idle" /\ next' = NoVersions
    /\ UNCHANGED <<clusterVars, now, listed, processVars, events, planeVars>>

(***************************************************************************)
(* PollingAdapterRunner                                                    *)
(***************************************************************************)

\* One operation of a poller: its source answers, and it begins to publish.
Poll(a) ==
    /\ Idle(a) /\ Happens(2)
    /\ \E window \in Windows : \E ob \in Polled(a, window) : todo' = [todo EXCEPT ![a] = <<ob>>]
    /\ UNCHANGED <<clusterVars, now, watchVars, done, missing, planeVars>>

\* Mutant: the cursor moves when the batch was fetched.
RaiseAfterMove(a) ==
    /\ Happens(1)
    /\ IF a = "k8s" THEN stage # "idle" ELSE ~ Idle(a)
    /\ todo' = [todo EXCEPT ![a] = <<>>] /\ done' = [done EXCEPT ![a] = 0]
    /\ IF a = "k8s"
       THEN /\ stage' = "idle" /\ next' = NoVersions
            /\ cursor' = IF stage = "publish" THEN next ELSE cursor
       ELSE UNCHANGED <<stage, next, cursor>>
    /\ UNCHANGED <<clusterVars, now, listed, missing, planeVars>>

\* run_once: a source or the plane raises, or the answer to a call is lost.
Raise(a) ==
    /\ Happens(1)
    /\ IF a = "k8s" THEN stage # "idle" ELSE ~ Idle(a)
    /\ todo' = [todo EXCEPT ![a] = <<>>] /\ done' = [done EXCEPT ![a] = 0]
    /\ IF a = "k8s" THEN stage' = "idle" /\ next' = NoVersions ELSE UNCHANGED <<stage, next>>
    /\ UNCHANGED <<clusterVars, now, cursor, listed, missing, planeVars>>

(***************************************************************************)
(* The specification                                                       *)
(***************************************************************************)
Init ==
    /\ cluster = Found /\ compacted = 0 /\ now = 0
    /\ cursor = NoVersions /\ stage = "idle" /\ next = NoVersions /\ listed = NoVersions
    /\ todo = [a \in Adapters |-> <<>>] /\ done = [a \in Adapters |-> 0]
    /\ missing = [a \in Adapters |-> FALSE] /\ events = 0
    /\ entities = [r \in Refs |-> Absent] /\ cells = [s \in Slots |-> Absent]
    /\ idempotency = {} /\ watermarks = [a \in Adapters |-> <<>>]
    /\ applied = [o \in Objects |-> <<>>]

KubernetesStep ==
    \/ \E kind \in Kinds : Watch(kind) \/ List(kind)
    \/ Call("k8s") \/ MoveCursor

Next ==
    \/ \E change \in Changes : ChangeCluster(change)
    \/ Compact \/ Tick
    \/ KubernetesStep
    \/ \E a \in Pollers : Poll(a) \/ Call(a)
    \/ \E a \in Adapters : Raise(a)

\* serve() runs one operation after another; the pollers need not.
Spec == Init /\ [][Next]_vars /\ WF_vars(KubernetesStep)

(***************************************************************************)
(* Properties                                                              *)
(***************************************************************************)
Newest(o) == applied[o][Len(applied[o])]

\* An object that was deleted before a list is in no list and in no watch that
\* starts from it: the plane is never told.
Lost(v) == cluster[v].deleted /\ v <= listed[KindOf(cluster[v].object)]

\* IdOf, _publish_one: of an object the plane takes each version once and never
\* an older one after a newer, whatever is retried, listed or watched again.
VersionsInOrder ==
    \A o \in Objects : \A i, j \in DOMAIN applied[o] : i < j => applied[o][i] < applied[o][j]

\* The value the plane holds on the cluster's authority is the newest it took.
ValueIsNewest ==
    \A o \in Objects :
        LET cell == cells[MainSlot(o)] IN
        cell # Absent /\ cell.authority = 4 => applied[o] # <<>> /\ cell.value = ShownValue(Newest(o))

\* collect_kubernetes: nothing up to the cursor was passed over, by a failure in
\* the middle of a batch, by a bookmark, by a relist or between the two lists;
\* and the lifecycle of an instance, unless the runtime's adapter wrote it, is
\* that of a version no older than the cursor.  It need not be the value's: after
\* a failure a pod is upserted again with versions the plane already has.
NothingPassedOver ==
    stage = "idle" /\ Initialized =>
        \A o \in Objects :
            LET v == Latest(o, cursor[KindOf(o)]) IN
            v # 0 /\ ~ Lost(v) =>
                /\ applied[o] # <<>> /\ Newest(o) >= v
                /\ o \in Pods /\ entities[o][1] = "k8s" =>
                       \E w \in Versions(o, Len(cluster)) : w >= v /\ entities[o][2] = ShownLife(w)

\* What the State Plane shows of a cluster, through failures, expired versions,
\* retries and the calls of other adapters.
PlaneFollowsCluster == VersionsInOrder /\ ValueIsNewest /\ NothingPassedOver

\* serve, collect, relist: every change of the cluster, or a newer one of the same
\* object, reaches the plane in the end, unless its deletion fell into a gap.  As
\* the changes are bounded and what the plane took stays taken, it is enough
\* that again and again nothing is missing.
CaughtUp ==
    \A n \in 1..Len(cluster) : \E v \in n..Len(cluster) :
        cluster[v].object = cluster[n].object /\ 
        (Lost(v) \/ \E i \in DOMAIN applied[cluster[n].object] : applied[cluster[n].object][i] = v)

WatchCatchesUp == []<>CaughtUp
=============================================================================
