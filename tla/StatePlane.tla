----------------------------- MODULE StatePlane -----------------------------
(***************************************************************************)
(* InMemoryStatePlane (stateflow/state/plane.py): the canonical store that *)
(* HTTP, gRPC, gateway and adapter threads write and read.                 *)
(*                                                                         *)
(* Every method runs under one re-entrant lock.  A write call takes the    *)
(* lock, applies its batch one item at a time, captures the subscribers,   *)
(* releases the lock and only then calls them; a snapshot reads the clock  *)
(* before it waits for the lock.  Those are the points where threads meet, *)
(* so each is an action here: Call, the item actions, Commit, Deliver,     *)
(* SnapshotCall and SnapshotTake.                                          *)
(***************************************************************************)
EXTENDS Admission, Sequences, FiniteSets

CONSTANTS
    Threads, Callbacks,      \* callers, and the functions they subscribe
    Entities, EntityType,    \* entity refs and the type each ref spells
    Lifecycles, EventIds,    \* what an entity may be in, what events are called
    SetUp,                   \* the entities registered before the model starts
    Relations,               \* the relation types the callers use
    UnknownKeys,             \* key names the registry does not hold
    IdempotencyKeys,
    Keys, KeyTypes, KeyTtl,  \* the registry: entity types and ttl of each key
    Batches,                 \* what a write call may be given
    Requests,                \* what a snapshot call may be given
    Samples, Beats,          \* metric samples and heartbeats
    Descriptors,             \* component descriptors
    MaxSnapshots, MaxChanges, MaxMetrics, MaxEvents,   \* the code's limits
    MaxTime, MaxRevision, MaxTokens,   \* bounds of the model
    MaxSkew                  \* how far a producer's clock may run ahead

ASSUME LimitsArePositive ==   \* __init__ clamps these three, not MaxChanges
    /\ MaxSnapshots \in Nat \ {0} /\ MaxMetrics \in Nat \ {0}
    /\ MaxEvents \in Nat \ {0} /\ MaxChanges \in Nat
ASSUME BoundsAreNatural ==
    MaxTime \in Nat /\ MaxRevision \in Nat /\ MaxTokens \in Nat /\ MaxSkew \in Nat
ASSUME RegistryIsTyped ==
    /\ EntityType \in [Entities -> EntityTypes]
    /\ KeyTypes \in [Keys -> SUBSET EntityTypes]
    /\ KeyTtl \in [Keys -> Limits]

VARIABLES
    now,          \* utcnow()
    lock,         \* _lock: the thread holding it, or Free
    entities,     \* _entities: lifecycle of each registered entity, or Absent
    cells,        \* _state and _relations
    idempotency,  \* _idempotency: slot and version of the result stored per key
    events,       \* _events: retained event ids, oldest first
    changes,      \* _changes: the retained change feed, oldest first
    revision,     \* _revision
    snapshots,    \* _snapshots, oldest first
    subscribers,  \* _subscribers
    components, heartbeats, metrics,   \* _components, _heartbeats, _metrics
    pc,           \* where each thread is
    queue,        \* the items of its batch still to apply
    notes,        \* the changes its batch has made (notifications)
    pending,      \* the callback calls it still owes
    asked,        \* the snapshot request it waits with, and the time it read
    log,          \* history: every change ever recorded, and what asked for it
    commits,      \* history: revisions at which a write call released the lock
    since,        \* history: revision at which each callback subscribed
    delivered     \* history: cursors each callback was called with

lockVars == <<lock, pc, queue, notes, pending>>
telemetry == <<components, heartbeats, metrics>>
stored == <<entities, cells, idempotency, events, changes, revision, log>>
readVars == <<snapshots, asked>>
watchers == <<subscribers, since, delivered>>
vars == <<now, lockVars, telemetry, stored, readVars, watchers, commits>>

Free == "free"   \* of the lock

(***************************************************************************)
(* The data                                                                *)
(***************************************************************************)
StateSlots == {"state"} \X Entities \X Keys
RelationSlots == {"relation"} \X Entities \X Relations \X Entities
Slots == StateSlots \cup RelationSlots

\* StateUpdate and RelationUpdate; a state update may name an unknown key.
CellWrites ==
    [slot : Slots \cup ({"state"} \X Entities \X UnknownKeys),
     timestamp : Int, ttl : Limits, authority : Authorities, version : Int,
     expected : Int \cup {Unset}, idem : IdempotencyKeys \cup {NoKey}, wellTyped : BOOLEAN]
EntityWrites == [slot : {"entity"} \X Entities, lifecycle : Lifecycles]
EventWrites == [slot : {"event"} \X EventIds, subject : Entities]

Items == CellWrites \cup EntityWrites \cup EventWrites

\* SnapshotRequest; maxAge is what max_age_ms says of each key.
SnapshotQueries ==
    [entities : SUBSET Entities, keys : SUBSET (Keys \cup UnknownKeys),
     maxAge : [Keys -> Limits], minAuthority : Authorities, withRelations : BOOLEAN]

ASSUME InputsAreTyped ==
    /\ SetUp \in Seq(Entities)
    /\ Batches \subseteq Seq(Items)
    /\ Requests \subseteq SnapshotQueries
    /\ Beats \subseteq [subject : Entities \cup {d.id : d \in Descriptors}, timestamp : Int]
ASSUME NamesAreApart ==
    /\ Free \notin Threads /\ NoKey \notin IdempotencyKeys
    /\ Absent \notin [slot : Slots, version : Int]
    /\ Absent \notin [request : Requests, at : Nat]
    /\ Keys \cap UnknownKeys = {}
    /\ "ready" \in Lifecycles /\ Absent \notin Lifecycles

ComponentIds == {d.id : d \in Descriptors}

IsEntity(item) == item.slot[1] = "entity"
IsEvent(item) == item.slot[1] = "event"
IsCellWrite(item) == item.slot[1] \in {"state", "relation"}

\* Mutant: a store without a limit.
PushUnlimited(s, x, max) == Append(s, x)

\* Mutant: a full store refuses the newest instead of evicting the oldest.
PushOldestKept(s, x, max) == IF Len(s) < max THEN Append(s, x) ELSE s

Push(s, x, max) ==   \* append to a deque or OrderedDict of bounded length
    LET grown == Append(s, x) IN IF Len(grown) > max THEN Tail(grown) ELSE grown

(***************************************************************************)
(* A write call: publish_state, upsert_relations, publish_events,          *)
(* upsert_entity                                                           *)
(***************************************************************************)
Call(t, batch) ==
    /\ pc[t] = "idle" /\ lock = Free
    /\ revision + Len(batch) <= MaxRevision
    /\ \A i \in DOMAIN batch :
          IsCellWrite(batch[i]) => batch[i].timestamp <= now + MaxSkew
    /\ lock' = t
    /\ pc' = [pc EXCEPT ![t] = "writing"]
    /\ queue' = [queue EXCEPT ![t] = batch]
    /\ UNCHANGED <<now, notes, pending, telemetry, stored, readVars, watchers, commits>>

Applying(t) == pc[t] = "writing" /\ queue[t] # <<>>

Applied(t) ==
    /\ queue' = [queue EXCEPT ![t] = Tail(@)]
    /\ UNCHANGED <<now, lock, pc, pending, telemetry, readVars, watchers, commits>>

\* _record_change: the next cursor, the feed, the notification.
RecordChange(t, slot, version, idem, expected) ==
    LET change == [cursor |-> revision + 1, slot |-> slot, version |-> version]
    IN  /\ revision' = revision + 1
        /\ changes' = Push(changes, change, MaxChanges)
        /\ notes' = [notes EXCEPT ![t] = Append(@, change)]
        /\ log' = Append(log, [slot |-> slot, version |-> version,
                               idem |-> idem, expected |-> expected])

\* Mutant: keys are remembered per slot.
DuplicateOfSlot(u) ==
    u.idem # NoKey /\ idempotency[u.idem] # Absent /\ idempotency[u.idem].slot = u.slot

Duplicate(u) == u.idem # NoKey /\ idempotency[u.idem] # Absent

\* The checks made before the slot is looked at.
WellPlaced(u) ==
    LET place == u.slot IN
    /\ entities[place[2]] # Absent
    /\ \/ /\ place[1] = "state"
          /\ place[3] \in Keys
          /\ EntityType[place[2]] \in KeyTypes[place[3]]
          /\ u.wellTyped
       \/ /\ place[1] = "relation"
          /\ entities[place[4]] # Absent
          /\ RelationAllowed(EntityType[place[2]], place[3], EntityType[place[4]])

\* A state update without a ttl takes its key's; such a relation never expires.
WithTtl(u) ==
    IF u.slot[1] = "state" /\ u.ttl = NoLimit
    THEN [u EXCEPT !.ttl = KeyTtl[u.slot[3]]] ELSE u

Accepts(u) == ~ Duplicate(u) /\ WellPlaced(u) /\ Admits(u, cells[u.slot])

WriteCell(t) ==
    LET u == Head(queue[t])
        version == NextVersion(u, cells[u.slot])
    IN  /\ Applying(t) /\ IsCellWrite(u) /\ Accepts(u)
        /\ cells' = [cells EXCEPT ![u.slot] = Written(WithTtl(u), @)]
        /\ RecordChange(t, u.slot, version, u.idem, u.expected)
        /\ idempotency' =
              IF u.idem = NoKey THEN idempotency
              ELSE [idempotency EXCEPT ![u.idem] = [slot |-> u.slot, version |-> version]]
        /\ UNCHANGED <<entities, events>>
        /\ Applied(t)

\* A duplicate or a refused update answers without touching anything.
RefuseCell(t) ==
    /\ Applying(t) /\ IsCellWrite(Head(queue[t])) /\ ~ Accepts(Head(queue[t]))
    /\ UNCHANGED <<stored, notes>>
    /\ Applied(t)

UpsertEntity(t) ==
    LET e == Head(queue[t]) IN
    /\ Applying(t) /\ IsEntity(e)
    /\ \/ /\ entities[e.slot[2]] = e.lifecycle   \* unchanged: nothing happens
          /\ UNCHANGED <<stored, notes>>
       \/ /\ entities[e.slot[2]] # e.lifecycle
          /\ entities' = [entities EXCEPT ![e.slot[2]] = e.lifecycle]
          /\ RecordChange(t, e.slot, 1, NoKey, Unset)
          /\ UNCHANGED <<cells, idempotency, events>>
    /\ Applied(t)

\* Mutant: only an immediate repetition is recognised.
StoresEventUnlessLast(e) ==
    /\ events # <<>> => events[Len(events)] # e.slot[2]
    /\ entities[e.subject] # Absent

StoresEvent(e) ==
    /\ \A i \in DOMAIN events : events[i] # e.slot[2]
    /\ entities[e.subject] # Absent

PublishEvent(t) ==
    LET e == Head(queue[t]) IN
    /\ Applying(t) /\ IsEvent(e)
    /\ \/ /\ StoresEvent(e)
          /\ events' = Push(events, e.slot[2], MaxEvents)
          /\ RecordChange(t, e.slot, 1, NoKey, Unset)
          /\ UNCHANGED <<entities, cells, idempotency>>
       \/ /\ ~ StoresEvent(e)
          /\ UNCHANGED <<stored, notes>>
    /\ Applied(t)

\* Mutant: a batch notifies its last change only.
NotificationsOfLast(t) ==
    LET n == Len(subscribers)
        last == IF notes[t] = <<>> THEN 0 ELSE n
    IN  [i \in 1..last |->
            [change |-> notes[t][Len(notes[t])], callback |-> subscribers[i]]]

\* One call per change and callback, change by change.
Notifications(t) ==
    LET n == Len(subscribers) IN
    [i \in 1..(Len(notes[t]) * n) |->
        [change   |-> notes[t][((i - 1) \div n) + 1],
         callback |-> subscribers[((i - 1) % n) + 1]]]

\* The batch is done: the callbacks are captured and the lock released.
Commit(t) ==
    /\ pc[t] = "writing" /\ queue[t] = <<>>
    /\ pending' = [pending EXCEPT ![t] = Notifications(t)]
    /\ notes' = [notes EXCEPT ![t] = <<>>]
    /\ pc' = [pc EXCEPT ![t] = IF Notifications(t) = <<>> THEN "idle" ELSE "notifying"]
    /\ lock' = Free
    /\ commits' = commits \cup {revision}
    /\ UNCHANGED <<now, queue, telemetry, stored, readVars, watchers>>

\* _notify calls one callback; what the callback raises is swallowed.
Deliver(t) ==
    LET call == Head(pending[t]) IN
    /\ pc[t] = "notifying"
    /\ delivered' = [delivered EXCEPT ![call.callback] = Append(@, call.change.cursor)]
    /\ pending' = [pending EXCEPT ![t] = Tail(@)]
    /\ pc' = [pc EXCEPT ![t] = IF Len(pending[t]) = 1 THEN "idle" ELSE @]
    /\ UNCHANGED <<now, lock, queue, notes, telemetry, stored, readVars,
                   subscribers, since, commits>>

\* Mutant: subscribe does not take the lock.
SubscribeUnlocked(c) ==
    /\ \A i \in DOMAIN subscribers : subscribers[i] # c
    /\ subscribers' = Append(subscribers, c)
    /\ since' = [since EXCEPT ![c] = revision]
    /\ UNCHANGED <<now, lockVars, telemetry, stored, readVars, delivered, commits>>

Subscribe(c) ==
    /\ lock = Free
    /\ \A i \in DOMAIN subscribers : subscribers[i] # c
    /\ subscribers' = Append(subscribers, c)
    /\ since' = [since EXCEPT ![c] = revision]
    /\ UNCHANGED <<now, lockVars, telemetry, stored, readVars, delivered, commits>>

(***************************************************************************)
(* get_snapshot, and get_state without a token                             *)
(***************************************************************************)

NextToken == IF snapshots = <<>> THEN 1 ELSE snapshots[Len(snapshots)].token + 1

\* The call reads the clock, then waits for the lock.
SnapshotCall(t, request) ==
    /\ pc[t] = "idle"
    /\ NextToken <= MaxTokens
    /\ pc' = [pc EXCEPT ![t] = "reading"]
    /\ asked' = [asked EXCEPT ![t] = [request |-> request, at |-> now]]
    /\ UNCHANGED <<now, lock, queue, notes, pending, telemetry, stored, snapshots,
                   watchers, commits>>

\* The slots a request expands to: keys of the registry that apply to the
\* entity's type, on the entities that are registered.
Sought(r) ==
    {s \in StateSlots : /\ s[2] \in r.entities /\ entities[s[2]] # Absent
                        /\ s[3] \in r.keys /\ EntityType[s[2]] \in KeyTypes[s[3]]}

Readable(r) ==
    {s \in Sought(r) : cells[s] # Absent /\ cells[s].authority >= r.minAuthority}

Selected(r, at) == {s \in Readable(r) : IsFreshFor(cells[s], at, r.maxAge[s[3]])}

\* Unregistered entities, unknown keys of registered ones, unreadable slots.
Missing(r) ==
    LET known == {e \in r.entities : entities[e] # Absent}
    IN  {<<e>> : e \in r.entities \ known} \cup (known \X (r.keys \ Keys))
            \cup (Sought(r) \ Readable(r))

RelationsInScope(r, at) ==
    IF ~ r.withRelations THEN {}
    ELSE {s \in RelationSlots : /\ cells[s] # Absent /\ IsFresh(cells[s], at)
                                /\ s[2] \in r.entities \/ s[4] \in r.entities}

\* Mutant: the snapshot is read without the lock.
MayReadUnlocked(t) == pc[t] = "reading"

MayRead(t) == pc[t] = "reading" /\ lock = Free

SnapshotTake(t) ==
    LET r == asked[t].request
        at == asked[t].at
        shown == Selected(r, at) \cup RelationsInScope(r, at)
    IN  /\ MayRead(t)
        /\ snapshots' = Push(snapshots,
              [token |-> NextToken, logicalTime |-> revision, createdAt |-> at,
               shown |-> {<<s, cells[s].version>> : s \in shown},
               stale |-> Readable(r) \ Selected(r, at), missing |-> Missing(r)],
              MaxSnapshots)
        /\ pc' = [pc EXCEPT ![t] = "idle"]
        /\ asked' = [asked EXCEPT ![t] = Absent]
        /\ UNCHANGED <<now, lock, queue, notes, pending, telemetry, stored,
                       watchers, commits>>

(***************************************************************************)
(* Telemetry: no revision, no notification                                 *)
(***************************************************************************)
PublishMetric(m) ==
    /\ lock = Free
    /\ entities[m.entity] # Absent /\ m.key \in Keys /\ m.numeric
    /\ EntityType[m.entity] \in KeyTypes[m.key]
    /\ metrics' = Push(metrics, m, MaxMetrics)
    /\ UNCHANGED <<now, lockVars, components, heartbeats, stored, readVars, watchers, commits>>

\* The last heartbeat wins, whatever time it carries.
Heartbeat(b) ==
    /\ lock = Free
    /\ \/ b.subject \in Entities /\ entities[b.subject] # Absent
       \/ b.subject \in ComponentIds /\ components[b.subject] # Absent
    /\ heartbeats' = [heartbeats EXCEPT ![b.subject] = b.timestamp]
    /\ UNCHANGED <<now, lockVars, components, metrics, stored, readVars, watchers, commits>>

\* A descriptor that differs from the registered one is refused.
RegisterComponent(d) ==
    /\ lock = Free
    /\ components[d.id] = Absent
    /\ components' = [components EXCEPT ![d.id] = d]
    /\ UNCHANGED <<now, lockVars, heartbeats, metrics, stored, readVars, watchers, commits>>

Tick ==
    /\ now < MaxTime
    /\ now' = now + 1
    /\ UNCHANGED <<lockVars, telemetry, stored, readVars, watchers, commits>>

(***************************************************************************)
(* The specification                                                       *)
(***************************************************************************)
Registration(e) == [slot |-> <<"entity", e>>, version |-> 1, idem |-> NoKey, expected |-> Unset]

ChangeAt(i) == [cursor |-> i, slot |-> log[i].slot, version |-> log[i].version]

\* The last n recorded changes.
Recent(n) == [i \in 1..n |-> ChangeAt(Len(log) - n + i)]

FeedLength == IF Len(log) < MaxChanges THEN Len(log) ELSE MaxChanges

\* A plane on which upsert_entity has registered the entities of SetUp.
Init ==
    /\ now = 0 /\ lock = Free
    /\ entities = [e \in Entities |->
                      IF \E i \in DOMAIN SetUp : SetUp[i] = e THEN "ready" ELSE Absent]
    /\ cells = [s \in Slots |-> Absent]
    /\ idempotency = [k \in IdempotencyKeys |-> Absent]
    /\ events = <<>> /\ snapshots = <<>> /\ subscribers = <<>> /\ metrics = <<>>
    /\ log = [i \in DOMAIN SetUp |-> Registration(SetUp[i])]
    /\ revision = Len(SetUp)
    /\ changes = Recent(FeedLength)
    /\ commits = 0..Len(SetUp)
    /\ components = [c \in ComponentIds |-> Absent]
    /\ heartbeats = [s \in Entities \cup ComponentIds |-> Absent]
    /\ pc = [t \in Threads |-> "idle"]
    /\ queue = [t \in Threads |-> <<>>]
    /\ notes = [t \in Threads |-> <<>>]
    /\ pending = [t \in Threads |-> <<>>]
    /\ asked = [t \in Threads |-> Absent]
    /\ since = [c \in Callbacks |-> 0]
    /\ delivered = [c \in Callbacks |-> <<>>]

\* What a write call does once it holds the lock, up to its return.
WriteStep(t) ==
    WriteCell(t) \/ RefuseCell(t) \/ UpsertEntity(t) \/ PublishEvent(t)
        \/ Commit(t) \/ Deliver(t)

Next ==
    \/ \E t \in Threads :
          \/ \E batch \in Batches : Call(t, batch)
          \/ WriteStep(t)
          \/ \E r \in Requests : SnapshotCall(t, r)
          \/ SnapshotTake(t)
    \/ \E c \in Callbacks : Subscribe(c)
    \/ \E m \in Samples : PublishMetric(m)
    \/ \E b \in Beats : Heartbeat(b)
    \/ \E d \in Descriptors : RegisterComponent(d)
    \/ Tick

\* A thread that holds the lock waits for nothing, and callbacks return; a
\* client owes no further call, and the lock promises a waiting thread nothing.
Fairness == \A t \in Threads : WF_vars(WriteStep(t))

Spec == Init /\ [][Next]_vars /\ Fairness

(***************************************************************************)
(* Properties                                                              *)
(***************************************************************************)
Subscribed(c) == \E i \in DOMAIN subscribers : subscribers[i] = c

Change ==
    [cursor : Nat, slot : Slots \cup ({"entity"} \X Entities) \cup ({"event"} \X EventIds),
     version : Int]
LogEntry ==
    [slot : Slots \cup ({"entity"} \X Entities) \cup ({"event"} \X EventIds), version : Int,
     idem : IdempotencyKeys \cup {NoKey}, expected : Int \cup {Unset}]
Snapshot ==
    [token : Nat, logicalTime : Nat, createdAt : Nat, shown : SUBSET (Slots \X Int),
     stale : SUBSET StateSlots,
     missing : SUBSET ({<<e>> : e \in Entities} \cup (Entities \X UnknownKeys) \cup StateSlots)]

StoreTypes ==
    /\ now \in Nat /\ revision \in Nat /\ commits \subseteq Nat
    /\ entities \in [Entities -> Lifecycles \cup {Absent}]
    /\ cells \in [Slots -> Cell \cup {Absent}]
    /\ idempotency \in [IdempotencyKeys -> [slot : Slots, version : Int] \cup {Absent}]
    /\ events \in Seq(EventIds) /\ changes \in Seq(Change) /\ log \in Seq(LogEntry)
    /\ snapshots \in Seq(Snapshot)
    /\ subscribers \in Seq(Callbacks)
    /\ since \in [Callbacks -> Nat] /\ delivered \in [Callbacks -> Seq(Nat)]
    /\ metrics \in Seq(Samples)
    /\ components \in [ComponentIds -> Descriptors \cup {Absent}]
    /\ heartbeats \in [Entities \cup ComponentIds -> Int \cup {Absent}]

ThreadTypes ==
    /\ lock \in Threads \cup {Free}
    /\ pc \in [Threads -> {"idle", "writing", "notifying", "reading"}]
    /\ queue \in [Threads -> Seq(Items)]
    /\ notes \in [Threads -> Seq(Change)]
    /\ pending \in [Threads -> Seq([change : Change, callback : Callbacks])]
    /\ asked \in [Threads -> [request : Requests, at : Nat] \cup {Absent}]

Limited ==
    /\ Len(events) <= MaxEvents /\ Len(metrics) <= MaxMetrics
    /\ Len(snapshots) <= MaxSnapshots /\ Len(changes) <= MaxChanges

\* The lock is held by the one thread that is inside a write call, and only
\* there does a thread have items to apply or notifications to make up.
LockDiscipline ==
    \A t \in Threads :
        /\ pc[t] = "writing" <=> lock = t
        /\ pc[t] # "writing" => queue[t] = <<>> /\ notes[t] = <<>>
        /\ pc[t] = "notifying" <=> pending[t] # <<>>
        /\ pc[t] = "reading" <=> asked[t] # Absent

\* Every variable of the plane holds a value of its kind, every bounded store
\* keeps its limit, and the lock is held by exactly the thread that is inside a
\* write call.
TypeOK == StoreTypes /\ ThreadTypes /\ Limited /\ LockDiscipline

\* _publish_one and _upsert_relation: whatever mixture of chosen and explicit
\* versions, authorities and clocks the writers use, the version a slot shows
\* only ever grows, and no slot is emptied.
VersionsIncrease ==
    [][\A s \in Slots :
          cells'[s] # cells[s] /\ cells[s] # Absent =>
             cells'[s] # Absent /\ cells'[s].version > cells[s].version]_vars

\* expected_version: of all the writers that ever expect one version of one
\* slot at most one is accepted, so a read-modify-write loses no update.  Writers
\* that choose a negative version are left out: with one, a slot can be at 0 again.
CasWinsOnce ==
    \A i, j \in DOMAIN log :
        i # j /\ log[i].slot = log[j].slot /\ log[i].expected # Unset =>
            log[i].expected # log[j].expected

\* idempotency_key: however often a write is retried, under whichever slot, the
\* key changes the plane at most once, and a remembered answer names the write
\* it stands for.
AppliedOnce ==
    \A k \in IdempotencyKeys :
        LET uses == {i \in DOMAIN log : log[i].idem = k} IN
        IF idempotency[k] = Absent THEN uses = {}
        ELSE \E i \in uses :
                /\ uses = {i}
                /\ log[i].slot = idempotency[k].slot
                /\ log[i].version = idempotency[k].version

\* The authority rule: a value that is still fresh is never replaced by a
\* source of lower authority.
FreshAuthorityKept ==
    [][\A s \in Slots :
          cells'[s] # cells[s] /\ cells[s] # Absent =>
             \/ ~ IsFresh(cells[s], now)
             \/ cells'[s].authority >= cells[s].authority]_vars

\* _record_change: the feed is the gapless tail of everything recorded.
FeedIsRecentLog == revision = Len(log) /\ changes = Recent(FeedLength)

\* The first n changes leave slot s at version v (0 if they leave it alone).
LeftAt(s, n, v) ==
    IF \E i \in 1..n : log[i].slot = s
    THEN \E i \in 1..n : /\ log[i].slot = s /\ log[i].version = v
                         /\ \A j \in i+1..n : log[j].slot # s
    ELSE v = 0

\* A client that replays the changes arrives at the versions the plane holds.
LogExplainsState == \A s \in Slots : LeftAt(s, Len(log), VersionOf(cells[s]))

\* get_snapshot: a snapshot shows the plane between two write calls, never half
\* a batch: what it shows is what the changes up to its logical time left.
SnapshotsAreConsistent ==
    \A i \in DOMAIN snapshots :
        LET snap == snapshots[i] IN
        /\ snap.logicalTime \in commits
        /\ \A item \in snap.shown : LeftAt(item[1], snap.logicalTime, item[2])

\* The places a notification of change n to callback c is at.
Places(c, n) ==
    LET owed(seq) == {i \in DOMAIN seq : seq[i].callback = c /\ seq[i].change.cursor = n}
        noted(seq) == {i \in DOMAIN seq : Subscribed(c) /\ seq[i].cursor = n}
    IN  ({"called"} \X {i \in DOMAIN delivered[c] : delivered[c][i] = n})
          \cup (UNION {{"owed"} \X {t} \X owed(pending[t]) : t \in Threads})
          \cup (UNION {{"noted"} \X {t} \X noted(notes[t]) : t \in Threads})

\* publish_*, subscribe and _notify: every change made after a callback
\* subscribed is at exactly one place on its way to it, none is lost between
\* the lock and the call and none is called twice; no earlier one is called.
NotificationsConserved ==
    \A c \in Callbacks, n \in 1..revision :
        Cardinality(Places(c, n)) = IF Subscribed(c) /\ n > since[c] THEN 1 ELSE 0

\* Callbacks run after the lock is released and threads overtake one another,
\* so a callback may be called with change 2 before change 1; but the plane it
\* reads then always holds the change it is told of, or a later one.
CallbackSeesItsWrite ==
    \A t \in Threads : \A i \in DOMAIN pending[t] :
        LET change == pending[t][i].change IN
        change.slot \in Slots => VersionOf(cells[change.slot]) >= change.version

\* Between the lock and the call a change is neither lost nor doubled, and the
\* plane is never behind what the callback is about to be told.
CallbacksAreServed == NotificationsConserved /\ CallbackSeesItsWrite

\* Every change made after a callback subscribed is eventually delivered to it.
EveryChangeDelivered ==
    \A c \in Callbacks, n \in 1..MaxRevision :
        (Subscribed(c) /\ since[c] < n /\ n <= revision)
            ~> (\E i \in DOMAIN delivered[c] : delivered[c][i] = n)

IsEventEntry(i) == log[i].slot[1] = "event"

\* publish_events: an event id is stored again only after at least max_events
\* other events have been.
EventOncePerWindow ==
    \A i, j \in DOMAIN log :
        i < j /\ IsEventEntry(i) /\ log[i].slot = log[j].slot =>
            Cardinality({k \in i+1..j-1 : IsEventEntry(k)}) >= MaxEvents
============================================================================
