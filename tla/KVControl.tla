----------------------------- MODULE KVControl -----------------------------
(***************************************************************************)
(* AgentAwareKVController (stateflow/control/kv.py) planning where one KV  *)
(* object should be, over the snapshots the State Plane retains, with      *)
(* PredictionService (prediction/service.py) and the control journal.      *)
(*                                                                         *)
(* plan() runs outside every lock and touches shared state five times: it  *)
(* reads the snapshot, the entities, the snapshot again for every          *)
(* candidate it predicts (each prediction is journaled at once), and the   *)
(* control journal.  In between the plane may evict the snapshot and the   *)
(* object may change owner.                                                *)
(*                                                                         *)
(* A target is [location, hbm, bandwidth, setup, capacity, networkCost,    *)
(* storageCost, usable]; usable is available and healthy.  kv is the ref   *)
(* of the object, owner the component that may move it.                    *)
(***************************************************************************)
EXTENDS ControlJournal, TLC

CONSTANTS
    Threads,
    Observations,      \* what a snapshot may contain
    Requests,          \* [managed, targets, expectedOwner, agent]
    Registrations,     \* models that are registered: [version, runs, replace]
    StateOwners,       \* the components that may own the KV state
    FirstOwner,        \* the one it starts with
    NoOwner,           \* an entity without owner_component_ref
    AllowedActions,    \* KVActionOwner.allowed_actions
    MinCompleteness, PlanConfidence, OffloadPressure, OffloadMaxReuse,
    PrefetchMinReuse, PrefetchHorizon, PrefetchGuard,   \* KVControllerConfig
    OffloadPhases, StableStates,
    MaxRetained,       \* snapshots the plane keeps
    MaxTaken, MaxPredicted, MaxOwnerChanges   \* bounds of the model

ASSUME KeepIsAllowed == "keep" \in AllowedActions   \* KVActionOwner.__post_init__
ASSUME KVBounds == /\ MaxRetained \in Nat \ {0}
                   /\ MaxTaken \in Nat /\ MaxPredicted \in Nat /\ MaxOwnerChanges \in Nat

\* KVTarget.__post_init__: what is measured of a target is not negative.
ASSUME TargetsAreMeasured ==
    \A r \in Requests :
        /\ Len(r.targets) \in Nat /\ DOMAIN r.targets = 1..Len(r.targets)
        /\ \A i \in DOMAIN r.targets :
              {r.targets[i].setup, r.targets[i].bandwidth, r.targets[i].capacity,
               r.targets[i].networkCost, r.targets[i].storageCost} \subseteq Nat

\* A value of a snapshot is a number that _optional_number takes, or Malformed.
ASSUME ObservationsAreMeasured ==
    /\ MinCompleteness \in Int
    /\ \A o \in Observations :
          /\ o.completeness \in Int
          /\ \A m \in DOMAIN o.values : o.values[m] \in Nat \cup {Malformed}

VARIABLES
    taken,       \* every snapshot taken; the last MaxRetained are retained.
                 \* history: owners, how many there had been until then
    stateOwner,  \* owner_component_ref of the KV entity
    ownerships,  \* history: the owners so far, oldest first
    work,        \* what each thread is doing in plan()
    predicted,   \* InMemoryPredictionJournal
    models       \* PredictionService._models: what each version runs now

kvVars == <<taken, stateOwner, ownerships, work, predicted, models>>
vars == <<kvVars, journalVars>>

Idle == [stage |-> "idle"]

(***************************************************************************)
(* The snapshot                                                            *)
(***************************************************************************)
TakeSnapshot(o) ==
    /\ Len(taken) < MaxTaken
    /\ LET n == Len(taken) + 1
           time == IF n = 1 THEN 1
                   ELSE IF o = taken[n - 1].seen THEN taken[n - 1].time ELSE taken[n - 1].time + 1
       IN  taken' = Append(taken, [token |-> n, time |-> time, seen |-> o,
                                   completeness |-> o.completeness, values |-> o.values,
                                   owners |-> Len(ownerships)])
    /\ UNCHANGED <<stateOwner, ownerships, work, predicted, models, journalVars>>

Retained(token) == token \in DOMAIN taken /\ token > Len(taken) - MaxRetained

ChangeOwner(o) ==
    /\ o # stateOwner /\ Len(ownerships) <= MaxOwnerChanges
    /\ stateOwner' = o
    /\ ownerships' = Append(ownerships, o)
    /\ UNCHANGED <<taken, work, predicted, models, journalVars>>

\* _optional_number
ValueAt(s, ref, key) ==
    IF <<ref, key>> \in DOMAIN s.values THEN s.values[<<ref, key>>] ELSE Unknown

(***************************************************************************)
(* Candidates                                                              *)
(***************************************************************************)
TargetsOf(r) == {r.targets[i] : i \in DOMAIN r.targets}
AtLocation(r, location) == {t \in TargetsOf(r) : t.location = location}
Current(r, s) == CHOOSE t \in AtLocation(r, s.seen.location) : TRUE

\* _action_type
ActionType(current, target) ==
    IF current.location = target.location THEN "keep"
    ELSE CASE current.hbm /\ ~ target.hbm -> "offload"
           [] ~ current.hbm /\ target.hbm -> "prefetch"
           [] OTHER -> "migrate"

\* The HBM that a move frees or fills, if any.
HbmResource(current, target) ==
    IF target.hbm THEN {target} ELSE IF current.hbm THEN {current} ELSE {}

\* The parameters _candidates gives the predictor: what is unknown is left out.
Parameters(r, s, target) ==
    LET current == Current(r, s)
        size == ValueAt(s, "kv", "kv.size")
        moved == IF target = current THEN 0 ELSE size
        resource == HbmResource(current, target)
        usage(key) == {ValueAt(s, t.location, key) : t \in resource} \ {Unknown}
        given ==
            [transfer_bytes |-> {moved}, transfer_setup |-> {target.setup},
             network_cost |-> {target.networkCost}, storage_cost |-> {target.storageCost},
             storage_io |-> {IF target.hbm THEN 0 ELSE moved},
             kv_growth |-> {IF target.hbm /\ target # current THEN size ELSE 0},
             hbm_release |-> {IF current.hbm /\ ~ target.hbm THEN size ELSE 0},
             base_success |-> {100},
             effective_bw |-> {b \in {target.bandwidth} : moved = 0 \/ b > 0},
             hbm_capacity |-> {t.capacity : t \in resource} \ {0},
             hbm_used |-> usage("resource.hbm.used"),
             hbm_reserved |-> usage("resource.hbm.reserved")]
    IN  [p \in {q \in DOMAIN given : given[q] # {}} |-> CHOOSE v \in given[p] : TRUE]

Offered(r, s, target) ==
    /\ ActionType(Current(r, s), target) \in AllowedActions
    /\ target = Current(r, s) \/ target.usable

Candidate(r, s, target) ==
    [id |-> <<s.time, ActionType(Current(r, s), target), target.location>>,
     component |-> "controller", target |-> target, parameters |-> Parameters(r, s, target)]

\* The n-th smallest member of a set of numbers.
Nth(S, n) == CHOOSE i \in S : Cardinality({j \in S : j < i}) = n - 1

\* _candidates, in the order of the targets.
Candidates(r, s) ==
    LET offered == {i \in DOMAIN r.targets : Offered(r, s, r.targets[i])}
    IN  [n \in 1..Cardinality(offered) |-> Candidate(r, s, r.targets[Nth(offered, n)])]

(***************************************************************************)
(* plan(): the steps of thread t                                           *)
(***************************************************************************)
Begin(t, r, token) ==
    /\ work[t].stage = "idle" /\ Retained(token)
    /\ work' = [work EXCEPT ![t] = [stage |-> "read", request |-> r, token |-> token]]
    /\ UNCHANGED <<taken, stateOwner, ownerships, predicted, models, journalVars>>

Abandon(t) ==
    /\ work' = [work EXCEPT ![t] = Idle]
    /\ UNCHANGED <<taken, stateOwner, ownerships, predicted, models, journalVars>>

\* The numbers that _optional_number looks at, and raises on: those of the KV
\* object, and the use of the HBM that a candidate is about.
Consulted(r, s) ==
    LET asked == UNION {HbmResource(Current(r, s), t) :
                           t \in {u \in TargetsOf(r) : Offered(r, s, u)}}
    IN  {<<"kv", "kv.size">>, <<"kv", "kv.reuse_probability">>} \cup
        {<<t.location, key>> : t \in asked,
                               key \in {"resource.hbm.used", "resource.hbm.reserved"}}

\* _validate_ownership, and what plan() then asks of targets and snapshot.
Plannable(r, s) ==
    /\ r.managed /\ stateOwner # NoOwner /\ r.expectedOwner \in {NoOwner, stateOwner}
    /\ r.targets # <<>> /\ Cardinality({t.location : t \in TargetsOf(r)}) = Len(r.targets)
    /\ ValueAt(s, "kv", "kv.size") # Unknown
    /\ AtLocation(r, s.seen.location) # {}
    /\ \A m \in Consulted(r, s) : ValueAt(s, m[1], m[2]) # Malformed

RefuseRequest(t) ==
    /\ work[t].stage = "read" /\ ~ Plannable(work[t].request, taken[work[t].token])
    /\ Abandon(t)

ValidateOwnership(t) ==
    LET w == work[t] IN
    /\ w.stage = "read" /\ Plannable(w.request, taken[w.token])
    /\ work' = [work EXCEPT ![t] =
                  [stage |-> "predicting", request |-> w.request, token |-> w.token,
                   owner |-> stateOwner, candidates |-> Candidates(w.request, taken[w.token]),
                   predictions |-> <<>>]]
    /\ UNCHANGED <<taken, stateOwner, ownerships, predicted, models, journalVars>>

ToPredict(t) ==
    /\ work[t].stage = "predicting"
    /\ Len(work[t].predictions) < Len(work[t].candidates)

\* read_snapshot
SnapshotToPredict(w) == taken[w.token]

\* The prediction a model version makes, with its id.
Identified(p, id, version) ==
    [f \in DOMAIN p \cup {"id", "model"} |->
        CASE f = "id" -> id [] f = "model" -> version [] OTHER -> p[f]]

\* PredictionService.predict: reads the snapshot anew and journals the result.
PredictNext(t) ==
    LET w == work[t]
        c == w.candidates[Len(w.predictions) + 1]
        p == Identified(Evaluate(SnapshotToPredict(w), c), <<"kv", Len(predicted) + 1>>, "analytical")
    IN  /\ ToPredict(t) /\ Retained(w.token) /\ Len(predicted) < MaxPredicted
        /\ predicted' = Append(predicted, [request |-> c, token |-> SnapshotToPredict(w).token, prediction |-> p])
        /\ work' = [work EXCEPT ![t].predictions = Append(@, p)]
        /\ UNCHANGED <<taken, stateOwner, ownerships, models, journalVars>>

\* The snapshot is gone: KeyError, and the predictions made so far stay.
LoseSnapshot(t) ==
    /\ ToPredict(t) /\ ~ Retained(work[t].token)
    /\ Abandon(t)

(***************************************************************************)
(* _select                                                                 *)
(***************************************************************************)
HbmPressureNow(r, s) ==   \* _hbm_pressure of the current target
    LET current == Current(r, s)
        used == ValueAt(s, current.location, "resource.hbm.used")
        reserved == ValueAt(s, current.location, "resource.hbm.reserved")
    IN  IF ~ current.hbm \/ current.capacity = 0 \/ Unknown \in {used, reserved} THEN Unknown
        ELSE (100 * (used + reserved)) \div current.capacity

OffloadWanted(r, s) ==
    /\ Current(r, s).hbm
    /\ r.agent /\ s.seen.phase \in OffloadPhases
    /\ HbmPressureNow(r, s) # Unknown /\ HbmPressureNow(r, s) >= OffloadPressure
    /\ LET reuse == ValueAt(s, "kv", "kv.reuse_probability")
       IN  reuse # Unknown /\ reuse <= OffloadMaxReuse

PrefetchWanted(r, s) ==
    /\ ~ Current(r, s).hbm
    /\ r.agent /\ s.seen.resume # Unknown /\ s.seen.resume <= PrefetchHorizon
    /\ LET reuse == ValueAt(s, "kv", "kv.reuse_probability")
       IN  reuse # Unknown /\ reuse >= PrefetchMinReuse

\* Mutant: an unsettled transfer does not forbid another move.
SettledAlways(s) == TRUE

Settled(s) == s.seen.transfer \in StableStates

Desired(r, s) ==
    IF s.completeness < MinCompleteness \/ ~ Settled(s) THEN {}
    ELSE IF OffloadWanted(r, s) THEN {"offload"}
    ELSE IF PrefetchWanted(r, s) THEN {"prefetch"} ELSE {}

Trusted(p) == p.confidence >= PlanConfidence /\ p.fallback = "none" /\ p.eta # Unknown

WithinGuard(p) == p.pressure # Unknown /\ p.pressure <= PrefetchGuard

\* Quicker, then cheaper; a tie is left to the order of location names.
Better(p, q) ==
    \/ p.eta < q.eta
    \/ p.eta = q.eta /\ p.cost # Unknown /\ (q.cost = Unknown \/ p.cost < q.cost)

Eligible(w) ==
    {i \in DOMAIN w.candidates :
        /\ ActionType(Current(w.request, taken[w.token]), w.candidates[i].target)
              \in Desired(w.request, taken[w.token])
        /\ Trusted(w.predictions[i])
        /\ "prefetch" \in Desired(w.request, taken[w.token]) => WithinGuard(w.predictions[i])}

Keep(w) == {i \in DOMAIN w.candidates :
               w.candidates[i].target = Current(w.request, taken[w.token])}

Selectable(w) ==
    IF Eligible(w) = {} THEN Keep(w)
    ELSE {i \in Eligible(w) :
             \A j \in Eligible(w) : ~ Better(w.predictions[j], w.predictions[i])}

(***************************************************************************)
(* _action and the decision                                                *)
(***************************************************************************)

RollbackTo(w, i) ==
    IF w.candidates[i].target = Current(w.request, taken[w.token]) THEN Unknown
    ELSE taken[w.token].seen.location

\* Mutant: the key forgets what is moved where.
KeyOfSnapshot(w, i) == w.token

\* idempotency_key
ActionKey(w, i) == <<w.token, w.candidates[i].id>>

\* action_id and decision_id are fresh.
PlanNumber(w) == Len(journal) + 1

\* The bundle plan() records when it selects candidate i.
PlanBundle(w, i) ==
    LET s == taken[w.token]
        c == w.candidates[i]
        number == PlanNumber(w)
    IN  [decision |->
           [id |-> <<"kv", number>>, snapshot |-> s.token,
            candidates |-> [j \in DOMAIN w.candidates |-> w.candidates[j].id],
            predictions |-> [j \in DOMAIN w.predictions |-> w.predictions[j].id],
            models |-> {w.predictions[j].model : j \in DOMAIN w.predictions},
            action |->
               [id |-> <<"kv", number>>, candidate |-> c.id, key |-> ActionKey(w, i),
                type |-> ActionType(Current(w.request, s), c.target), target |-> c.target.location,
                expectedLocation |-> s.seen.location, expectedOwner |-> w.owner,
                expectedTransfer |-> s.seen.transfer, bytes |-> ValueAt(s, "kv", "kv.size"),
                reserves |-> IF c.target.hbm /\ c.target # Current(w.request, s)
                             THEN ValueAt(s, "kv", "kv.size") ELSE 0,
                rollback |-> RollbackTo(w, i)]],
         predictions |-> w.predictions]

Decide(t, i) ==
    LET w == work[t] IN
    /\ w.stage = "predicting" /\ Len(w.predictions) = Len(w.candidates)
    /\ i \in Selectable(w)
    /\ RecordDecision(PlanBundle(w, i))
    /\ work' = [work EXCEPT ![t] = Idle]
    /\ UNCHANGED <<taken, stateOwner, ownerships, predicted, models>>

(***************************************************************************)
(* Models and replay                                                       *)
(***************************************************************************)
Versions == {"analytical", "next"}

\* register_model: a version is taken once, or replaced on request; what the
\* service predicts with (self.model) stays the model it was built with.
RegisterModel(version, runs, replace) ==
    /\ models[version] = "none" \/ replace
    /\ models' = [models EXCEPT ![version] = runs]
    /\ UNCHANGED <<taken, stateOwner, ownerships, work, predicted, journalVars>>

\* Mutant: the replay reads the newest snapshot.
ReplayedSnapshotNow(record) == taken[Len(taken)]

ReplayedSnapshot(record) == taken[record.token]

\* replay: the recorded request on the recorded snapshot.
Replay(record, version) ==
    LET s == ReplayedSnapshot(record) IN
    Identified(IF models[version] = "analytical" THEN Evaluate(s, record.request)
               ELSE Unavailable(s, record.request), record.prediction.id, version)

(***************************************************************************)
(* The specification                                                       *)
(***************************************************************************)
Init ==
    /\ JournalInit
    /\ taken = <<>> /\ predicted = <<>>
    /\ stateOwner = FirstOwner /\ ownerships = <<FirstOwner>>
    /\ work = [t \in Threads |-> Idle]
    /\ models = [v \in Versions |-> IF v = "analytical" THEN "analytical" ELSE "none"]

Next ==
    \/ \E o \in Observations : TakeSnapshot(o)
    \/ \E o \in StateOwners \cup {NoOwner} : ChangeOwner(o)
    \/ \E t \in Threads :
          \/ \E r \in Requests, token \in 1..MaxTaken : Begin(t, r, token)
          \/ RefuseRequest(t) \/ ValidateOwnership(t)
          \/ PredictNext(t) \/ LoseSnapshot(t)
          \/ /\ work[t].stage = "predicting"
             /\ \E i \in DOMAIN work[t].predictions : Decide(t, i)
    \/ \E g \in Registrations : RegisterModel(g.version, g.runs, g.replace)
    \/ JournalNext /\ UNCHANGED kvVars

Spec == Init /\ [][Next]_vars

(***************************************************************************)
(* Properties                                                              *)
(***************************************************************************)
Plans == {r \in Recorded : r.decision.id[1] = "kv"}
SnapshotOf(r) == taken[r.decision.snapshot]

\* The candidate a prediction of a plan was made for.
CandidateOf(p) == predicted[p.id[2]].request

\* _select, docs/KV_CONTROL_DRY_RUN_V1_1.md: whatever happened to plane, owner
\* and models meanwhile, a move is only ever recorded for a complete snapshot, a
\* settled object and a usable target the owner may move to, on a prediction that
\* is neither a fallback nor unsure, and into HBM only where it will fit.
MoveIsSafe(r) ==
    LET a == r.decision.action
        p == SelectedPrediction(r)
    IN  a.type # "keep" =>
          /\ SnapshotOf(r).completeness >= MinCompleteness
          /\ a.expectedTransfer \in StableStates
          /\ a.type \in AllowedActions \cap {"offload", "prefetch"}
          /\ CandidateOf(p).target.usable
          /\ p.fallback = "none" /\ p.confidence >= PlanConfidence /\ p.confidence >= MinConfidence
          /\ a.type = "prefetch" => p.pressure # Unknown /\ p.pressure <= PrefetchGuard

\* _select: of the moves of one kind that were predicted for the same decision
\* and could be trusted, none was quicker than the one selected.
NoMoveIsQuicker(r) ==
    \A q \in PredictionsOf(r) :
        LET p == SelectedPrediction(r) IN
        /\ p.candidate[2] # "keep" /\ q.candidate[2] = p.candidate[2]
        /\ Trusted(q) /\ (q.candidate[2] = "prefetch" => WithinGuard(q))
        => p.eta <= q.eta

\* _action: what the executor will verify before it moves anything is what the
\* snapshot showed, and undoing the move leads back there.  The owner is read later
\* than the rest (_validate_ownership): it is none that was replaced before the
\* snapshot was taken.
EnvelopeFitsSnapshot(r) ==
    LET a == r.decision.action IN
    /\ a.expectedLocation = SnapshotOf(r).seen.location
    /\ \E i \in SnapshotOf(r).owners..Len(ownerships) : ownerships[i] = a.expectedOwner
    /\ a.expectedOwner # NoOwner
    /\ IF a.type = "keep" THEN a.target = a.expectedLocation /\ a.reserves = 0
       ELSE a.target # a.expectedLocation /\ a.rollback = a.expectedLocation
    /\ a.type = "prefetch" => a.reserves = a.bytes

\* plan(): a recorded plan is safe, optimal within its kind, and what it tells the
\* executor is what the snapshot it was made from showed.
PlansAreSound == \A r \in Plans : MoveIsSafe(r) /\ NoMoveIsQuicker(r) /\ EnvelopeFitsSnapshot(r)

\* idempotency_key: an executor that takes an action with a key it knows for a
\* repetition loses nothing, the two propose the same move.
SameKeySameMove ==
    \A r1, r2 \in Plans :
        LET a == r1.decision.action
            b == r2.decision.action
        IN  a.key = b.key =>
              /\ a.type = b.type /\ a.target = b.target
              /\ a.expectedLocation = b.expectedLocation /\ a.bytes = b.bytes

\* replay: a recorded prediction can be made again as it was, after the snapshot
\* was evicted and the plane went on, unless its model version was replaced.
ReplayReproduces ==
    models["analytical"] = "analytical" =>
        \A i \in DOMAIN predicted : Replay(predicted[i], "analytical") = predicted[i].prediction
=============================================================================
