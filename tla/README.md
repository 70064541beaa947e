# StateFlow: a TLA+ verification project

StateFlow keeps the observed state of an LLM serving system (agents, requests,
runtimes, nodes, KV blocks) in one *State Plane*, fills it from adapters and a
gateway, and lets schedulers, predictors and controllers decide from consistent
snapshots of it.  This directory holds TLA+ specifications of the parts whose
correctness depends on the order in which things happen, TLC configurations that
check them on small instances, and TLAPS proofs for every value of the
constants.  All paths below are relative to the repository.

## 1. Inventory

| Component | State it keeps | Operations | What makes it correct |
| --- | --- | --- | --- |
| **State Plane** `stateflow/state/plane.py` | components, entities, state values, relations, metrics, events, heartbeats, idempotency results, snapshots, change feed, subscribers, revision; one re-entrant lock | register_component, upsert_entity, publish_state, upsert_relations, publish_metrics, publish_events, heartbeat, get_state, get_snapshot, subscribe, changes | no lost update, no double application, versions grow, fresh authority kept, batches atomic to readers, feed gapless, each notification delivered once |
| **Contracts** `state/contracts.py` | none | freshness, authority order, entity typing | used by every rule above |
| **Key registry** `state/registry.py` | canonical keys, aliases | register, resolve, validate_value | one meaning per name |
| **HTTP and gRPC service** `state/api.py`, `state/http_client.py`, `rpc/server.py`, `rpc/client.py` | stream cursors | unary calls onto the plane, WatchState | a watcher sees each retained change once, in order, across reconnects |
| **Agent state store** `state/store/in_memory.py`, `state/event.py` | per agent: state sections, event log, epoch and sequence, active tools, routing history | append_event, subscribe, get_or_create, get_scheduling_view, record_routing_decision | the state is the replay of its log, numbered events are applied once, versions never repeat, subscribers hear each event once |
| **Success-first scheduler** `scheduler/harness/success_first` | none (reads the view) | schedule | success before cost, critical override, no tier flapping |
| **Gateway** `gateway/service.py`, `adapters/gateway.py` | active requests in the projector | handle, projection of request, session and tool state | a request always reaches a terminal state |
| **Harness** `harness/base/reporter.py`, `harness/generic_proxy` | bounded report queue, worker thread, counters | the hooks, publish, close | an accepted report reaches the sink once and in order, also across close |
| **Source adapters** `adapters/*` | watermarks, resource versions, failure count | poll, list, watch, relist, serve | the plane shows what the source has, no change is passed over by a failure |
| **Control** `control/*` | decision journal, outcomes | plan, record_decision, record_outcome, evaluation report, controlled_replay | one decision per action, an outcome joins the prediction that was acted on, a move is only planned when it is safe |
| **Prediction** `prediction/*` | registered models, recorded predictions | predict, predict_many, register_model, replay | a prediction rests on the snapshot it names and can be made again |
| Normaliser, profiles, schema, CLI, backends, generated code | none or I/O | conversions | out of scope, see section 7 |

How they interact.  Adapters (each on a polling thread) and the gateway (one
thread per HTTP request) call the plane's write methods, directly or over HTTP
or gRPC.  The plane calls subscribers back on the writing thread, after its lock
is released.  Watchers poll the change feed over a stream.  Schedulers,
predictors and controllers read snapshots, which the plane keeps under a token.
The gateway also writes agent events to the agent state store and asks the
scheduler for a decision on a view of it.

What is hard here: threads meet at one lock, but the clock is read before it,
callbacks run after it and streams live outside it; producers have clocks and
version numbers of their own; calls are retried; every store is bounded and
forgets.

## 2. Plan

1. *(done)* The plane: `Admission`, `StatePlane`; its watch streams: `ChangeFeed`;
   proofs `StatePlaneProofs`, `ChangeFeedProofs`.
2. *(done)* The agent state store: `AgentSections`, `AgentStateStore`; proofs
   `AgentStoreProofs`.
3. *(done)* The scheduler's decision as pure operators, `SuccessFirst`, checked by
   what it promises target against target, `SchedulerCalls`; its composition with
   the gateway and the store, `RequestRouting` (a decision made on a stale view,
   failure streaks, hysteresis).  Proofs `SuccessFirstProofs`, `SchedulerProofs`,
   `RoutingProofs`.
4. *(done)* The adapters: Kubernetes list and watch with expired versions and relist,
   the polling adapters and their runner, against one plane: `SourceAdapters`; proofs
   `AdapterProofs`.
5. *(done)* The asynchronous reporter with the store as its sink: `HarnessReporter`.
   The gateway projector remains.
6. *(done)* `Prediction`, `Evaluation`, `ControlJournal`, `PolicyReplay`, and the KV
   controller that uses them, `KVControl`.
7. *(done)* An abstract store, `VersionedStore`, that `StatePlane` refines
   (`StatePlaneRefinement`).  Restart of the plane under watchers remains.
8. *(done)* Proofs beyond type correctness: history, snapshots and refinement of the
   plane, delivery to subscribers and watchers, the reporter, the control journal and
   the plans, the scheduler's promises for every configuration and predictor, what
   of them survives the shared state of a session, and what the plane shows of a cluster.

## 3. Modules

| Module | Models |
| --- | --- |
| `Admission` | the admission rules of `_publish_one` and `_upsert_relation`, freshness, the relation vocabulary |
| `StatePlane` | `InMemoryStatePlane` and the threads inside it |
| `ChangeFeed` | `StatePlane` plus WatchState servers and clients |
| `AgentSections` | what one event does to the sections of an `AgentState`: `_apply_event` and its helpers |
| `AgentStateStore` | `InMemoryStateStore`: the threads that append events, read views and record decisions |
| `SuccessFirst` | one decision: `SuccessFirstScheduler.schedule`, its filter, gates and placement; pure |
| `SchedulerCalls` | one call of it with any view and targets; the heuristic predictor |
| `RequestRouting` | `RequestGateway.handle`: gateway threads over `AgentStateStore` and `SuccessFirst` |
| `VersionedStore` | abstract: a store whose batches and views happen at once |
| `StatePlaneRefinement` | how `StatePlane` implements it |
| `HarnessReporter` | hooks, queue, worker and `close` of a harness over `AgentStateStore` |
| `SourceAdapters` | the adapter processes, the cluster they follow, the plane they write to |
| `Prediction` | `AnalyticalPredictionModel` and its features; pure |
| `Evaluation` | `build_feedback`, `materialize_evaluation_report`; pure |
| `ControlJournal` | `InMemoryControlJournal` and the bundles that are recorded in it |
| `PolicyReplay` | `controlled_replay`: constraints and gates over recorded decisions; pure |
| `KVControl` | `AgentAwareKVController.plan` over snapshots, `PredictionService` and the journal |
| `MCStatePlane`, `MCChangeFeed`, `MCAgentStateStore`, `MCHarnessReporter`, `MCSchedulerCalls`, `MCRequestRouting`, `MCKVControl`, `MCSourceAdapters` | the instances TLC checks |
| `StatePlaneProofs` | type correctness; versions, idempotency, compare-and-set, authority; change feed, events and snapshots against the history; the refinement of `VersionedStore` |
| `ChangeFeedProofs` | the delivery of changes to subscribers and to watchers |
| `AgentStoreProofs` | the agent store: types, versions, de-duplication, replay, tools and context, subscribers; the reporter |
| `SuccessFirstProofs` | lemmas about the scheduler's operators: least members, estimates, gates, placement |
| `SchedulerProofs` | what one decision promises |
| `RoutingProofs` | what the gateway promises |
| `KVControlProofs` | the control journal; the plans of the KV controller, their idempotency keys and predictions; replays and reports of what is recorded |
| `AdapterProofs` | what the plane shows of the cluster that the adapters follow |

### State Plane

`cells` joins `_state` and `_relations`: both are maps from a *slot* to a record
with version, authority, timestamp and ttl, and both go through the same checks
in the same order.  The value itself is only looked at by the type check, so an
update carries the outcome of that check (`wellTyped`).  An entity's type is part
of its ref (`GraphEntity.__post_init__` enforces that), so `EntityType` is a
constant function; its lifecycle stands for all the fields of which a change
makes `upsert_entity` record a change.

The actions cut the code where another thread can come in:

| Action | Code |
| --- | --- |
| `Call` | a write method takes the lock with its batch |
| `WriteCell`, `RefuseCell` | one iteration of `publish_state` or `upsert_relations`: all checks, the store, `_record_change`, the idempotency result |
| `UpsertEntity`, `PublishEvent` | the same for entities and events |
| `Commit` | subscribers captured, lock released |
| `Deliver` | one `callback(change)` of `_notify` |
| `SnapshotCall`, `SnapshotTake` | `get_snapshot`: the clock is read, then everything else under the lock |
| `Subscribe`, `PublishMetric`, `Heartbeat`, `RegisterComponent` | short critical sections |
| `Tick` | the clock |

One batch of mixed items may be given to `Call`; the code has one method per kind
of item, so a real batch is a special case.  `log`, `commits`, `since` and
`delivered` are history variables: no guard reads them.  `MaxSkew` says how far a
producer's timestamp may lie ahead of the plane's clock.

### Atomic batches

`VersionedStore` has no lock, no queue and no history: `Write` moves some slots to
later versions in one step, `View` shows some slots as they are at one instant.  In
`StatePlaneRefinement` the abstract store is what replaying the changes up to
`Published` gives, the number of changes recorded when the lock was last free.  So
`Commit` is the step in which a batch takes effect, however many items it had and
whatever happened between them, `SnapshotTake` is `View`, and every other action of
`StatePlane` is a step that the abstract store does not see.

### Watch streams

A watcher has at most one stream.  `Connect` opens it at the last cursor the
client received, `Poll` is one call of `plane.changes`, whose answer is kept as the
set of changes still to be yielded (the smallest cursor is next), `Yield` moves the server's
cursor and puts one message on the wire, `Receive` hands it to the client,
`Break` loses the outbox and whatever is on the wire.

### Agent state store

`AgentSections` is pure.  It keeps the fields of an agent's state that a later
event or the scheduling view depends on: phase, progress, turn, context sizes,
tools, failures.  A payload is a record of the keys the producer sent; scores are
percentages.  The helpers of the code assign one field after the other, so an
event whose payload does not convert (`Malformed`) leaves half of its effect
behind: `Applied` gives that state and `Raises` says that the call then ends in an
exception.  Event types that share a branch of `_apply_event` share a name.

`header` is the pair of epoch and sequence number in the state's header, `order`
the entry of `_last_order` the next event is judged by.

| Action | Code |
| --- | --- |
| `AppendEvent` | `append_event` up to the release of the lock, event accepted |
| `RefuseEvent` | the early returns for a duplicate or stale event |
| `AbortEvent` | `_apply_event` raises inside `append_event` |
| `Observe` | one `callback(event, state)` after the lock is released |
| `Subscribe`, `GetOrCreate` | short critical sections |
| `GetSchedulingView` | `get_scheduling_view`; the thread keeps the view |
| `RecordDecision` | `record_routing_decision` with the view the thread holds |

A view and the decision made on it lie in two critical sections, with events and
other decisions between them.  `issued`, `answer`, `since` and `heard` are history
variables.  `MaxLog` and `MaxIssued` bound the history in guards; `MaxDecisions`
is the code's limit of 1000 kept decisions.

### Harness

A hook call becomes an event (`ReportOf`), which the hook's thread puts on the queue
and then counts; the queue is safe by itself, the counters, `_stop` and the two tests
of the loop are under no lock and are steps of their own.

| Action | Code |
| --- | --- |
| `Publish` | `publish`: `put_nowait`, or `queue.Full` |
| `Count` | its `stats.published += 1` or `stats.dropped += 1` |
| `SetStop`, `WakeWorker` | `close`: `_stop.set()`, then `put_nowait(None)`, which a full queue refuses |
| `TestLoop`, `Take`, `GetTimesOut`, `Sink` | one round of `_run` |
| `DirectStep` | anything another thread may do to the store meanwhile |

`close` joins the worker with a timeout and nothing follows from it, so it is no
step.  `accepted`, `handled` and `atStop` are history variables.

### Scheduler

Targets are a set.  The code's candidate lists keep the order of the registry and
break ties by it; a target's `place` is its position there, and `Least` picks the
first of the best.  A predictor is an operator `Estimate` of view and target, which
may also give `NoEstimate` (it raised).  Probabilities are counted in parts of
`Whole`, scores, margins and factors in percent, costs and times in integer units;
division rounds down where the code has a fraction.  The four flags
ready, healthy, available and compatible are one, `ready`; one `domain` stands for
region, cache domain and security domain, which the filter treats alike.

| Definition | Code |
| --- | --- |
| `Eligible` | `hard_filter` |
| `Override`, `NeedsSafeMode`, `Considered` | `critical_override`, `_predictor_requires_safe_mode`, `capable_only` |
| `SuccessGate` | `success_gate`, with its fallback to the best |
| `EffectiveCost`, `WithinBudget`, `CostGate` | `effective_cost`, the budget check in `schedule`, `cost_gate` |
| `Placement` | `choose_placement` |
| `HoldsTier` | `_should_hold_tier` |
| `Decision` | `schedule` |

The promises in `SchedulerCalls` do not mention the gates: they compare the chosen
target with each of its rivals.

### Request routing

`handle` runs through four critical sections of the store.  The stage of a thread
says which comes next.

| Action | Code |
| --- | --- |
| `Receive` (to `received`) | `_record_model_request` |
| `ReadView` (to `viewed`) | `get_scheduling_view` |
| `Decide` (to `sent`) | the request's own sizes put into the view, `schedule`, its sink `record_routing_decision` |
| `GiveUp` (to `refused`) | `NoFeasibleTarget` |
| `Answer` | the backend's answer, `_record_model_response` |
| `Fail` | `NoFeasibleTarget` or `BackendError`, `_record_failure` |
| `BreakOff` | any other exception, answered by the HTTP handler |
| `Report` | an event of a harness by `/v1/state/events` |

Of a request's constraints only the sizes and capabilities are put into the view
by `handle` itself.  The allowed models and the budget travel through the
session's shared state: written by `Receive`, read by `ReadView`.
`chosen` and `outcome` are history variables.  Whose constraints count for a request
is `InForce`: its own, unless its harness restarted.  `SerialClients` says that a client
sends a session's next request after the answer to the last.

The model shows a latch.  The gateway's events only ever raise the severity in a session's
state (`_apply_failure`), so after one failed request all later ones of the session
are guarded; and a session of which only the gateway reports has so few of its
fields filled in that its completeness lies below the threshold, so it is guarded
from the start.  The instance therefore sets the completeness to 100, as a
session with a reporting harness has it: otherwise no tier would ever be left.

### Source adapters

A publish method is a series of calls to the plane, and each call is one step of
its process: `Call` carries out the first of `todo`.  What the calls are is given by
`KubernetesCalls`, `RuntimeCalls`, `DCGMCalls` and `KVCalls`; an entity is looked up
in one call and created in the next, so two adapters can both find it missing.  The
plane's rules are those of `Admission`, with the idempotency keys that the adapters
derive from an observation.

The cluster is external.  Its history `cluster` numbers the changes of all objects,
as a resourceVersion does; `Compact` makes the server forget the history up to now,
after which a watch from an older cursor fails with 410.

| Action | Code |
| --- | --- |
| `Watch` | one finite watch of nodes or of pods in `collect_kubernetes`, an ERROR event or a 410 included |
| `List` | one list of `relist` or of the initialization; both are decoded, and dated, when the second has come |
| `MoveCursor` | the cursor takes the fetched versions, after the last observation |
| `Poll` | a source answers `run_once` of another adapter |
| `Raise` | a source or the plane raises, or the answer of a call is lost; the operation ends where it is |

`Observed` leaves the cluster alone while a batch is published: only fetches read it,
so a change during the publication cannot be told from one after it.

### Prediction and control

`Prediction`, `Evaluation` and `PolicyReplay` are pure.  Values are integers, with
`Unknown` for None and `Malformed` for what is no finite number; probabilities,
confidence and pressure are percentages, and quotients round down.

`plan()` holds no lock and touches shared state several times.  The stage of a thread
says which comes next.

| Action | Code |
| --- | --- |
| `Begin` | `plan` reads the snapshot by its token |
| `RefuseRequest`, `ValidateOwnership` | `_validate_ownership` on the entities as they are by then, and the checks of targets and values |
| `PredictNext`, `LoseSnapshot` | one round of `predict_many`: the snapshot is read again, and may be gone |
| `Decide` | `_select`, `_action`, `record_decision` |
| `RecordDecision`, `RecordOutcome` | other callers of the journal: a bridged routing decision sent again, changed or contradicted; outcomes that repeat, conflict or cannot be scored |
| `RegisterModel` | `register_model` |
| `TakeSnapshot`, `ChangeOwner` | the plane moves on, and evicts |

`ReplaysAreSound` and `ReportAddsUp` apply the pure operators to what the journal
holds in every reachable state, with four policies.

## 4. Runs

| Run | Instance | Shows |
| --- | --- | --- |
| `plane_writes` | 2 threads; single updates by sources of authority 2 and 3 with times 0..3, compare-and-set on 0..2, explicit versions, a keyed batch and a reuse of its key elsewhere, a relation with a ttl, a misplaced update; 8 revisions | `CasWinsOnce`, `AppliedOnce`, `LogExplainsState`, `VersionsIncrease`, `FreshAuthorityKept` |
| `plane_readers` | 2 threads with batches of up to 3 items; a request with unknown key, max_age, authority floor and relations; 2 callbacks that subscribe at any moment; repeated event ids; feed, events and snapshots retained shorter than the history | `TypeOK`, `SnapshotsAreConsistent`, `FeedIsRecentLog`, `CallbacksAreServed`, `EventOncePerWindow`, the refinement `BatchesAreAtomic`, liveness `EveryChangeDelivered` |
| `plane_clock_skew` | as `plane_writes` with skew 1 | *violation* of `FreshAuthorityKept` |
| `feed` | 2 watchers (one key, all keys), feed of 3, batches of 2, one break | `FeedIsFollowed`, liveness `EveryChangeReachesWatchers` |
| `agent_replay` | one session; 21 events of a harness that numbers them and restarts with new epochs, in any order, one that does not convert; two tools, one of them called a second time under another id; up to 4 accepted; an observer from the start | `SnapshotIsReplay`, `SectionsMatchLog`, `NumberedEventsAppliedOnce` |
| `agent_reporting` | a reporter with a queue of 1, two kinds of hook calls (numbered; with a token count that does not convert), close at any moment; another thread that appends, reads views and records decisions; 2 callbacks that subscribe at any moment; 2 versions and 2 accepted events | `TypeOK`, `VersionsHandedOutInOrder`, `EventsHeardOnce`, `ReportsConserved`, liveness `EveryEventIsHeard`, `AcceptedIsHandled` |
| `agent_mixed` | gateway events, decisions and a harness that numbers its own | *violation* of `OnlyRepeatsAreDuplicates` |
| `scheduler` | 28 views around the thresholds; every 1 to 4 of 8 targets of all tiers, with a replica, with KV near and far, unsure, unknown to the predictor | `SuccessComesFirst`, `CostComesSecond`, `RiskIsGuarded`, `DowngradesWait` |
| `routing` | 2 gateway threads, 2 sessions, 2 targets; 5 requests: in the first session two plain ones and one that no target can serve, in the second two that want different models; a harness that may begin a later epoch in the second before, between and after them; 7 versions | `RoutedWithinConstraints`, `RefusedOnlyIfUnmet`, `DowngradesAreStable`, `NoCheapRetryAfterFailure`, `NoRequestIsLost` |
| `routing_crossed` | two requests of one session at once, with different allowed models | *violation* of `RoutedWithinConstraints` |
| `control` | one planning thread; 4 observations around every threshold, 2 snapshots of which 1 is retained, 2 owners; two routing bundles for one action, one of which names no candidate, and three wrong variants, 5 outcomes, 4 policies; 5 predictions, 2 decisions | `PlansAreSound`, `SameKeySameMove`, `ReplayReproduces`, `JournalIsCoherent`, `ReportAddsUp`, `ReplaysAreSound` |
| `adapters` | a node and its two pods, of one runtime, that become unready, are deleted and come back; the three polling adapters; 3 changes, compactions, ticks or failures, a poll counting as two | `PlaneFollowsCluster`, liveness `WatchCatchesUp` |

The bounds.  Two threads suffice for every interleaving of two critical sections with
one waiting reader; the rules compare two versions, two authorities and two times, and
the instances hold every ordering of each.  `MaxTime`, `MaxRevision` and `MaxTokens`
bound the clock, the history and the snapshot tokens in guards.  The retained limits are
set to 1..3 so that eviction happens in every run that is about it.  Deadlock checking
is off: clients may stop calling, and a bounded model ends when its revisions are used
up.  Four accepted events let a tool start, make progress and return beside another one,
or be called again after it returned, and let an epoch begin with a late event of the
old one still to come; two versions let an event and a decision, or two of either,
follow each other in every order; nothing in the store relates two sessions, so one is
enough for the threads.  Seven versions are enough for a session of the routing instance
to move to the frontier tier, be held there, and move down after the window, or to fail
and try again, or to be routed before and after a restart of its harness.  The two
gateway threads do the same, so the instance is symmetric in them; the harness logs each
of its events once.  In the replay instance `ObserverComesFirst` lets the observer
subscribe before the first event only; the reporting instance lets it join at any
moment.  Its partial effects apart, an event that raises would make the state differ
from the replay of the log, so the replay instance has one that raises before anything
is assigned, and the reporting instance one that raises in the middle.  One planning
thread is enough in `control`: `plan()` writes nothing before its last step but
predictions of its own, so another thread appears to it as the other callers of the
journal do; five predictions are two plans of two or three candidates.  The adapter
instance's bound counts events: three let a collection fail in the middle, the cluster
change and its history be compacted, or a poller run through a collection with a change
or failure beside it.  Two pods share a node and a runtime, so that the observation of
one rewrites what that of the other wrote.

The three violations are disagreements between the code and what its documents
say: a low-authority producer with a fast clock replaces fresh state; a harness
event the store has never seen is dropped as a duplicate when the gateway or a
routing decision took its sequence number first; and a request is routed by the
constraints of another request of its session when both are under way, where
the filter's documentation says that no target violating a constraint can win.

What the passing runs leave out.  `CasWinsOnce` is about writers whose explicit versions
are not negative: with one that is, a slot can be at version 0 again.
`SnapshotIsReplay` and `SectionsMatchLog` are about events that either convert or raise
before anything is assigned.  Of the tools, `SectionsMatchLog` promises nothing in a
session with a report that does not tell which tool it means (`NamesItsTools`): a start
without an id, for which the code makes one up that another tool may have, or a report
by the id of one tool while another one is the last that was started, whose name the
code then looks for as well.  `AcceptedIsHandled` is about reports accepted before
`close`.  `NoRequestIsLost` excepts requests that break off with an exception other than
`BackendError`.  The routing promises ask for clients that wait for their answers.

Two limits of bounded stores are stated as part of the properties rather than as
violations: an event id counts as known only while it is in the retained window
(`EventOncePerWindow`), and a watcher that lags behind the bounded feed misses
the changes evicted meanwhile without notice (`RetainedIsNeverSkipped` is about
the others).

## 5. Fairness

`Fairness` is weak fairness of what a thread does inside a write call, up to its
return: nothing there waits, and a callback's exception is swallowed.  That a
callback returns at all is assumed.  Nothing is assumed of clients (they need not
call) nor of the lock (a waiting thread may starve).  `FeedSpec` adds that a
watcher reconnects and that the serving loop, the network and the client run
while the stream is open; streams break finitely often (`MaxBreaks`).  The agent
store's `Fairness` is the same for the callback loop of `append_event`.
`ReporterFairness` adds the worker thread of the reporter, whose
loop never waits for longer than 0.05 s; hooks, `close` and other threads are not
assumed to do anything.  `SourceAdapters` assumes that the Kubernetes process goes on
(`serve` runs one operation after another and catches what they raise) and nothing of
the pollers and the cluster; its changes and failures are bounded by `MaxEvents`, so
`WatchCatchesUp` is about what happens once they have ceased.
`RequestRouting` assumes none: a backend may take for ever.  Instead of saying that
every request ends, `NoRequestIsLost` says in which states a request without an
outcome is still in the hands of a thread.

## 6. Proofs

All theorems hold for arbitrary constants that satisfy the named assumptions of the
component's modules.

The plane:

* `TypeCorrect`: `Spec => []TypeOK`.  `TypeOK` is inductive: it contains the lock
  discipline (the thread that is writing holds the lock), which is what keeps the
  batches of two threads apart, and the limits of the bounded stores.
* `VersionsGrow`: from `TypeOK` alone; the check on explicit versions and the
  choice of the next one together make the written version larger.
* `IdempotentWrites`: `AppliedOnce` is inductive over `TypeOK`.
* `CompareAndSet`: needs `NaturalVersions` (no writer chooses a negative
  version; with one, the check `expected = 0` could pass twice).  The
  strengthening `ExpectationsAreSpent` says that an expectation that was ever met
  lies below the present version of its slot.
* `AuthorityHolds`: needs `MaxSkew = 0`; the run `plane_clock_skew` shows that it
  fails otherwise.  `QueuesAreSound` carries the bound on timestamps from the call
  to the check.
* `FeedFaithful`: `FeedIsRecentLog` is inductive over `TypeOK`.
* `ReplayableHistory`: `LogExplainsState` says that the last change recorded of a slot
  names the version the slot is at.  It needs `VersionsAreLogged`: no recorded change
  is of a later version than its slot has, and a slot that has one was recorded.
* `SnapshotConsistency`: a snapshot names the number of changes recorded when it was
  taken.  `ReleasesAreRecorded` says which of these numbers are ends of write calls:
  whenever the lock is free, the present one is.
* `Atomicity`: `Spec => BatchesAreAtomic`, step by step.  `PublishedInPast` (the holder
  of the lock has made up no more changes than were recorded) keeps `Published` in
  place while a batch is applied; at `Commit` it moves to the present, and
  `VersionsAreLogged` makes the versions of the slots that changed go up.
* `CallbackDelivery`: `CallbacksAreServed` counts the places of a change on its way to
  a callback; `NotifyInv` says which places they can be.  Only the holder of the lock
  has notes and only threads without it owe calls, no callback is subscribed twice
  (`SubscribersAreApart`), and everything on its way is a recorded change (`OnTheWay`);
  so `Commit`, which lays the calls out change by change, turns one note into one
  call for each subscriber (`OwedOnCommit`, over the `div` and `mod` of `CallPlaces`
  and `PlaceOfCall`), and a first subscription finds no change half made.
* `EventDeduplication`: `EventsAreRetained` says that a recorded event is retained, at
  its distance from the newest, until `MaxEvents` others follow it; an id that is not
  retained was therefore recorded that long ago or never.
* `WatchersFollow`: `FeedSpec => []FeedIsFollowed`.  In `FeedInv`, what a watcher has
  received, what is on the wire and what is in the outbox follow each other by cursor
  (`InLine`); the server's cursor lies between what was yielded and what was not
  (`StreamIsSound`); and of the retained changes the watcher wants, none before the
  server's cursor or between the changes of the batch was left out
  (`NothingLeftOut`).  `FirstOf` takes the smallest cursors, so a batch that is cut
  off leaves out only later ones.

The agent store, under `NoHeaderPatches`: no event patches the section `header`
(an aborted one that did would leave a header that no order was taken for):

* `TypeCorrect`: besides the types, `TypeOK` says that the header of a session is
  the order its next event is judged by; that is what lets a routing decision,
  which counts on from the header, stay above every event.
* `VersionsInOrder`: `VersionsHandedOutInOrder` alone is not inductive; the
  strengthening `VersionsReached` says that no version handed out lies above the
  present order of its session.  `HandOut` is the step common to events and
  decisions.
* `Deduplication`: `LogReached` says the same of the log, and that a numbered
  event was logged under its own number.

What the log has to do with the state it is kept with:

* `StateIsReplay`, under `RaisesCleanly`: an event whose application raises is a model
  response with an unreadable token count, which raises before anything is assigned.  Of
  any other the code keeps the half that was assigned, so its state is no replay.
  `Replay` is a recursive function of the log, and what such a function computes would be
  an induction; the invariant does without.  `LeadsTo` says that there is one list of
  states, and only one, through which the log leads from a new state to the sections the
  session has; `LogGrows` is the step from a log to the log with one entry more.
* `SectionsMatchReports`, under `NoHeaderPatches`, `RaisesCleanly` and `PayloadFits`
  (token counts are integers or do not convert, and patches replace no list of tools).
  Which tool a report means is part of the property: the tool it names, or the one that
  was started last before it.  `_find_tool` takes the first entry that has the id or the name,
  so the calls of one tool under many ids are one entry; the property says so, and
  that its id is the newest start's and its status the one reported last, in the order
  of arrival, whatever it was.
  The invariant `SectionsInv` says that the context covers the prompt (`Covers`) and, while
  the reports of a session tell their tools, that what is listed is what they named
  (`Lists`): no two entries share a name, every id was reported of its entry
  (`IdReported`), and the last start is remembered (`LastIsStarted`).  From that,
  the entry that a report finds is the entry it means (`MeansOne`, `FoundAt`), and the log
  with one more report says the same of all others (`OtherEntries`).

The calls of its subscribers and the reporter, without those assumptions:

* `CallbacksHearOnce`: `EventsHeardOnce` counts the calls of a callback for an event,
  made or owed.  `HeardInv` says where they are: a call that is due has been made at
  exactly one place in what the callback heard, or is owed at exactly one place by
  exactly one thread (`CallsAreKept`), and nothing is heard or owed of an event that is
  not in the log (`CallsAreOfLog`).  `CallbacksHearReports` is the same under
  `ReporterSpec`, whose worker appends in the background.
* `ReportsKeepOrder`: the handled reports, the one in the worker's hand and the queue
  are one line, which `ReporterInv` keeps: the worker's hand is empty unless it sinks,
  so `Take` and `Sink` move a report from one part of the line to the next, and the
  entry that `close` adds to wake the worker is none.

The scheduler, under the assumptions on one call in `SuccessFirst` and `SchedulerCalls`
(numbers are integers, margins are not negative, a pool is finite and its targets have
places of their own, the predictor raises or answers with numbers):

* `SuccessIsFirst`, `CostIsSecond`, `RiskIsHeeded`, `DowngradesAreHeld`, for every view,
  pool, configuration and predictor.  What they rest on is that the orders by which the
  gates choose are total, so that a non-empty finite set has a `Least` member, that
  estimates, costs and latencies of such inputs are integers, and that every gate passes
  on a non-empty subset.  `DecisionStands` sums up what a decision satisfies.

The routing of requests, under the named assumptions on targets, requests and events in
`RequestRouting`:

* `RequestsAreKept`: `NoRequestIsLost` is inductive over types: a handler leaves a
  request only after it has posted its outcome, and a post that is refused as stale
  means that the session is in a later epoch.
* `DowngradesAreEarned`, an action property.  `_should_hold_tier` judges by the view,
  the promise by the store.  `DowngradeInv` closes the gap: if clients wait for their
  answers (`SerialClients`), one handler at most has a session's request (`Exclusive`),
  so the model, tier and number of stable steps in its view are still those of the store
  when its decision is recorded (`SeesRouting`).  `TiersAreOfModels` (a model has one
  tier) is needed because the hold compares models and not tiers.
* `RequestsGoWhereTheyMay`, `RefusalsAreEarned`, `RetriesAreCapable` share
  `ConstraintInv`: between its request and its decision a handler finds in the session's
  state, and then in its view, the constraints that are in force for it (`Asks`, `Sees`); the
  severity that a logged failure left never falls (`FailuresRemembered`).  In force are
  the request's own constraints (`InForce`), or, when a harness has begun an epoch in which
  the gateway's events are refused as stale, those of the last request that the session was
  told of; that is where the log comes in, and `SectionsSound` ties it to the state.
  They assume `PredictorSpeaks` (for a target of the pool the predictor raises or answers
  with numbers), `SerialClients` (the run `routing_crossed` shows the first to fail
  without it) and `HarnessesAreQuiet`: no harness patches constraints or severity.  A
  harness may begin an epoch at any moment, in any session.
  `RefusalsAreEarned` adds `TargetsAreOpen` (every target is up and in reach of a session
  that reports nothing), `RetriesAreCapable` adds `FailuresAreHeeded`: the failures
  in the log are the gateway's own, and the override's threshold is at most the severity
  of 80 it gives them.  A failure that a harness reports while a handler holds its view
  comes too late for the decision made from that view, so the promise cannot be kept
  to it; TLC's instance has no such report.

The instance of the run `routing` satisfies all of these assumptions.

The control journal and the KV controller:

* `JournalCoherence`: under the assumption that no bundle recorded by other callers
  gives two predictions one id and different contents (`Unambiguous`).
  `_validate_bundle` does not look for that, and with such a bundle the journal would
  hold a prediction with two meanings; `controlled_replay` and the bridge never make
  one.  `JournalInv` adds that the predictions of a plan under way carry numbers of
  the prediction journal, all different, so that the plan's own bundle is unambiguous
  too.
* `OneMovePerKey`: under `OthersNumberTheirs`, no other caller records a bundle under
  a decision id of the controller.  The key holds a snapshot's token and a candidate's
  id, which holds the move and its target; the invariant ties the candidates of every
  plan, under way or recorded, to the snapshot they were made from.
* `ReplaysReproduce`: snapshots that were taken and predictions that were made stay, each
  prediction is what the model makes of the snapshot with the token it is recorded with
  (`PredictionsHold`), and the plane gives every snapshot a token of its own.
* `PlansHold`, under `OthersNumberTheirs`, is the result about `plan()` as a whole.
  `PlanInv` says of a thread that is planning what it has found out and still relies on
  (`IsPlanning`): its candidates are those of the snapshot it named first, whether or not
  the plane still has it, each of its predictions is one the service made for that
  candidate and that snapshot, and its owner is none that was replaced before the
  snapshot was taken (`OwnersStay`).  That no move is quicker needs
  `EtaIsNumber`: the time of a transfer is a number where it is known, which follows
  from what `KVTarget` and `_optional_number` let through (`TargetsAreMeasured`,
  `ObservationsAreMeasured`).  That staying is not taken for moving needs that targets
  differ in their places, which `plan()` checks by counting (`OneTargetPerPlace`).

* `ReplaysHold`: `MeasureInv` says that what is recorded is measured, the controller's
  plans because its model makes numbers or nothing of the features (`ModelIsMeasured`),
  the bundles of others by `BundlesAreMeasured` (the types of `Prediction`);
  `PoliciesAreChecked` is what the policy's `__post_init__` refuses to violate.  About one
  record the argument is an induction over the gates: each keeps some candidate, the best
  of those whose value is known, and whoever is as good as one it keeps (`GateKeeps`), so
  what is left after the last turn is left after every turn (`LeftShrinks`), and whoever
  would dominate the selection was left with it (`EquallyGoodIsLeft`).
* `ReportsHold`: `ReportInv` says that the entries are finitely many and that each was
  scored as `build_feedback` does it (`Scored`); that an action has one decision is part
  of it, since an outcome is scored against the decision it finds.  `OutcomesAreMeasured`
  is asked of outcomes (a measurement is a number or `None`).  The rest is induction over
  the set of entries: a new one joins one bin (`JoinsOneBin`), there adds to the gap at
  most its own error (`DistanceAdds`), and adds its own fields (`FieldsAdd`).

The adapters, for any cluster (`NodesAndPods`, `ClusterHistory`) in which no object is
called like a thing the other adapters name (`OtherNames`):

* `PlaneFollows`: `Spec => []PlaneFollowsCluster`.  `AdapterInv` says, besides types:
  - the observations ahead of the Kubernetes process are versions of objects, those of an
    object in their order (`PendingInOrder`), and of the first of them the entity is there
    and the value taken once the calls that do this are made (`FirstUnderWay`);
  - the idempotency keys of the process are those of the versions the plane took
    (`KeysMatch`), and a value on its authority is that of the newest, with a timestamp no
    later than any ahead, so that the next is admitted (`CellsMatch`);
  - either the next collection must list (`Stale`: no cursor yet, or an expired one), or
    what was taken and what is ahead leave no gap after the cursor (`Resumable`).  This is
    `CanGoOn`.  It is why a retry, a relist and a resumed watch can only bring versions
    that the plane took before or that are newer than all it took (`Fits`);
  - what the cursor covers was taken, and what the fetched cursor covers was taken or is
    ahead (`CursorCovered`, `NextCovered`); likewise for the pods' lifecycles
    (`CursorShown`, `NextShown`), which a call of its own writes.
  `InOrder` is a recursive function on the length of the history; `ScanExists` and
  `ScanLists` say what it gives, by the same induction over sets as below.
  The lifecycle of a pod need not be that of the newest version: after a failure the
  retry upserts a pod again with versions the plane already has.  TLC found this with two
  pods in the batch, and the property says what remains: it is that of a version no
  older than the cursor.

The prover takes no induction over a property given as an operator.  Where a proof above
needs one it is made over a set: a set of numbers that holds 0 and with each number the
next (`UpTo`), or a set of sets that holds the empty one and with each set the larger
ones (`BySize`, `ByAdding`).  What the library's `SumFunction` computes follows in the
same way: such a sum exists, it is unique, and a new argument adds its value
(`SumsExist`, `SumsAgree`, `SumAdds`).

Only model-checked are the liveness properties (`EveryChangeDelivered`,
`EveryChangeReachesWatchers`, `EveryEventIsHeard`, `AcceptedIsHandled`,
`WatchCatchesUp`), which are out of the prover's reach.

## 7. Not modelled

Pure conversions and I/O (request normaliser, metric profiles, HTTP clients, JSON,
schema records, generated gRPC code, command line, demonstration).  Of the plane:
the pure reads `query_graph`, `query_metrics`, `freshness`; re-entrant calls from
inside a callback; a callback that never returns; restart, which loses the
in-memory store.  Of the agent store: sections no modelled field depends on, field
metadata with its ttl, timestamps, identity, events whose nested values do not
convert.  Of the scheduler: the predictor that counts outcomes
(`BetaPosteriorSuccessPredictor` stands behind `Estimate` like any other), the trace
of rejected candidates, decision ids, the ttl of a decision.  Of the gateway: the projection of
requests and decisions onto the State Plane, which is one more writer to it, and the
backends.  Of the adapters: pods without a node, the lengths of backoff and the count of failures
they follow, the resolver
of names, the cluster's own entity, `node.allocatable`, `instance.allocated_gpu`, the
restart of a process, which begins with an empty cursor as `Init` does.  Of control
and prediction: times, tenants, energy and time to first token, the texts of reasons;
nothing in the repository executes an action yet, so no step does.  What section 2
says remains.
