--------------------------- MODULE RequestRouting ---------------------------
(***************************************************************************)
(* RequestGateway.handle (stateflow/gateway/service.py): gateway threads   *)
(* that each take one request through the agent state store, the           *)
(* success-first scheduler and a backend, while harnesses report events of *)
(* the same sessions.                                                      *)
(*                                                                         *)
(* A request passes four critical sections of the store: its               *)
(* MODEL_REQUESTED event, the scheduling view, the decision, and its       *)
(* response or failure.  Between them other threads come in.               *)
(***************************************************************************)
EXTENDS AgentStateStore, SuccessFirst

CONSTANTS
    Handlers,       \* the threads of the gateway; the others are harnesses'
    Requests,       \* what clients send, each once
    Targets,        \* TargetRegistry
    Unreported,     \* a view of a session nothing was reported of
    SerialClients,  \* a client of a session waits for each answer
    Idle            \* a gateway thread without a request

ASSUME RoutingSwitches == SerialClients \in BOOLEAN /\ Handlers \subseteq Threads

ASSUME TargetsArePool == IsPool(Targets)

ASSUME UnreportedIsView ==
    /\ {"prompt", "output", "worth", "required", "models", "budget", "severity", "domains",
        "remoteAllowed", "model", "tier", "stable"} \subseteq DOMAIN Unreported
    /\ Unreported.worth \in Int

VARIABLES
    handling,   \* the request of each gateway thread and how far it is
    chosen,     \* history: the decisions, in order, with the view of each
    outcome     \* what became of each request

routingVars == <<storeVars, handling, chosen, outcome>>

Waiting == "waiting"   \* the outcome of a request that has none yet

Handles(t, stage) == handling[t] # Idle /\ handling[t].stage = stage
RequestOf(t) == handling[t].request
Advance(t, stage) == handling' = [handling EXCEPT ![t].stage = stage]

(***************************************************************************)
(* The gateway's events: epoch 0, numbered by the store                    *)
(***************************************************************************)
EventOf(r, type, payload) ==
    [session |-> r.session, type |-> type, epoch |-> 0, sequence |-> 0,
     turn |-> r.turn, payload |-> payload]

\* _record_model_request; to_state_payload leaves out an absent budget.
RequestedEvent(r) ==
    LET constraints == [required |-> r.required, models |-> r.models, budget |-> r.budget]
        present == IF r.budget = {} THEN {"required", "models"} ELSE DOMAIN constraints
    IN EventOf(r, "MODEL_REQUESTED",
               [prompt |-> r.prompt, constraints |-> [f \in present |-> constraints[f]]])

\* _record_model_response, _record_failure
AnsweredEvent(r) == EventOf(r, "MODEL_RESPONSE", [output |-> r.output])
FailedEvent(r) == EventOf(r, "FAILED", [severity |-> 80])

\* An event names its request and its source (request_id, source), so requests
\* and harnesses do not send each other's.
ASSUME RequestsAreApart ==
    /\ \A r \in Requests : r.session \in Sessions /\ {r.prompt, r.output} \subseteq Int
    /\ \A r \in Requests : RequestedEvent(r) \notin Events
    /\ \A r, q \in Requests : RequestedEvent(r) = RequestedEvent(q) => r = q

ASSUME OthersAreApart ==
    /\ Idle \notin [request : Requests, stage : {"received", "viewed", "sent", "refused"}]
    /\ Infeasible \notin [target : Targets, guarded : BOOLEAN,
                          survivors : SUBSET {t.model : t \in Targets}, reason : Reasons]

\* The gateway does not look at the result of append_event.
Post(t, e) == AppendEvent(t, e) \/ RefuseEvent(t, e)

(***************************************************************************)
(* handle                                                                  *)
(***************************************************************************)
Receive(t, r) ==
    /\ handling[t] = Idle /\ outcome[r] = Waiting
    /\ \A u \in Handlers : handling[u] # Idle =>
          RequestOf(u) # r /\ (SerialClients => RequestOf(u).session # r.session)
    /\ Post(t, RequestedEvent(r))
    /\ handling' = [handling EXCEPT ![t] = [request |-> r, stage |-> "received"]]
    /\ UNCHANGED <<chosen, outcome>>

ReadView(t) ==
    /\ Handles(t, "received")
    /\ GetSchedulingView(t, RequestOf(t).session)
    /\ Advance(t, "viewed")
    /\ UNCHANGED <<chosen, outcome>>

\* The view with the request's own sizes and capabilities; what the request
\* says of models and budget comes by way of the session's state.
AskedView(v, r) ==
    LET known == [f \in DOMAIN Unreported |-> IF f \in DOMAIN v THEN v[f] ELSE Unreported[f]]
    IN [known EXCEPT !.prompt = r.prompt, !.output = r.output,
                     !.required = @ \cup r.required]

Verdict(t) == Decision(AskedView(view[t], RequestOf(t)), Targets)

\* What the sink records of a decision.
Recorded(d) ==
    [model |-> d.target.model, tier |-> d.target.tier, endpoint |-> d.target.endpoint,
     replica |-> d.target.replica, guarded |-> d.guarded, survivors |-> d.survivors]

\* schedule, with record_routing_decision as its sink.
Decide(t) ==
    /\ Handles(t, "viewed")
    /\ LET d == Verdict(t) IN
          /\ d # Infeasible
          /\ RecordDecision(t, Recorded(d))
          /\ chosen' = Append(chosen, [request |-> RequestOf(t), target |-> d.target,
                                       eligible |-> EligibleOf(AskedView(view[t], RequestOf(t)), Targets),
                                       logged |-> Len(log)])
    /\ Advance(t, "sent")
    /\ UNCHANGED outcome

\* Mutant: the thread returns without a failure event.
GiveUpSilently(t) ==
    /\ Handles(t, "viewed") /\ Verdict(t) = Infeasible
    /\ view' = [view EXCEPT ![t] = Absent]
    /\ handling' = [handling EXCEPT ![t] = Idle]
    /\ UNCHANGED <<states, log, observers, owed, issued, answer, chosen, outcome>>

\* NoFeasibleTarget
GiveUp(t) ==
    /\ Handles(t, "viewed") /\ Verdict(t) = Infeasible
    /\ view' = [view EXCEPT ![t] = Absent]
    /\ Advance(t, "refused")
    /\ UNCHANGED <<states, log, observers, owed, issued, answer, chosen, outcome>>

Finish(t, result) ==
    /\ handling' = [handling EXCEPT ![t] = Idle]
    /\ outcome' = [outcome EXCEPT ![RequestOf(t)] = result]
    /\ UNCHANGED chosen

Answer(t) ==
    /\ Handles(t, "sent")
    /\ Post(t, AnsweredEvent(RequestOf(t)))
    /\ Finish(t, "answered")

\* The scheduler found no target, or the backend raised BackendError.
Fail(t) ==
    /\ Handles(t, "sent") \/ Handles(t, "refused")
    /\ Post(t, FailedEvent(RequestOf(t)))
    /\ Finish(t, "failed")

\* The backend raised something else, which the HTTP handler answers.
BreakOff(t) ==
    /\ Handles(t, "sent") /\ Free(t)
    /\ Finish(t, "broken")
    /\ UNCHANGED storeVars

(***************************************************************************)
(* The specification                                                       *)
(***************************************************************************)
RoutingInit ==
    /\ Init
    /\ handling = [t \in Handlers |-> Idle]
    /\ chosen = <<>>
    /\ outcome = [r \in Requests |-> Waiting]

\* A harness reports.  Bound of the model: each of Events is logged once.
Report(t, e) ==
    /\ \A i \in DOMAIN log : log[i].event # e
    /\ Post(t, e)
    /\ UNCHANGED <<handling, chosen, outcome>>

Handle(t) ==
    \/ ReadView(t)
    \/ Decide(t)
    \/ GiveUp(t)
    \/ Answer(t)
    \/ Fail(t)
    \/ BreakOff(t)

RoutingNext ==
    \/ \E t \in Handlers, r \in Requests : Receive(t, r)
    \/ \E t \in Handlers : Handle(t)
    \/ \E t \in Threads \ Handlers, e \in Events : Report(t, e)

RoutingSpec == RoutingInit /\ [][RoutingNext]_routingVars

(***************************************************************************)
(* What the gateway promises                                               *)
(***************************************************************************)

\* What the state was told of a request, and of which request of the session
\* last, in the first n events of the log.
Told(r, n) == \E i \in 1..n : log[i].event = RequestedEvent(r)

LastTold(q, n) ==
    \E i \in 1..n :
        /\ log[i].event = RequestedEvent(q)
        /\ \A j \in (i + 1)..n, p \in Requests :
              p.session = q.session => log[j].event # RequestedEvent(p)

\* The request whose constraints are to be in force for r: its own, or, once a
\* harness has begun an epoch in which the gateway's events are stale, the last
\* one of the session that the state was told of, if there is one.
InForce(r, n) ==
    IF Told(r, n) THEN {r}
    ELSE {q \in Requests : q.session = r.session /\ LastTold(q, n)}

\* A target meets a request: what it asks of capabilities and context itself,
\* and the models and capabilities of the constraints in force.
Meets(t, r, n) ==
    /\ r.required \subseteq t.capabilities
    /\ r.prompt + r.output <= t.window
    /\ \A q \in InForce(r, n) :
          /\ q.models = {} \/ t.model \in q.models
          /\ q.required \subseteq t.capabilities

\* A request goes to a target that meets it: its own models, capabilities and
\* context, wherever other requests of the session had been limited to
\* (hard_filter on the view handle() read).  After a harness restart its event
\* is refused and its models never reach the state: its own capabilities and
\* context count, and the constraints of the last request before the restart.
RoutedWithinConstraints ==
    \A i \in DOMAIN chosen : Meets(chosen[i].target, chosen[i].request, chosen[i].logged)

\* A request is refused only if no target meets it; what earlier requests of
\* the session were limited to is gone, but for the last one before a harness
\* restart (to_state_payload, _apply_model_request, append_event).  Sessions
\* with a budget are left out: it is the task's and stays.
RefusedOnlyIfUnmet ==
    \A h \in Handlers :
        Handles(h, "refused") /\ sections[RequestOf(h).session].budget = {}
            => \A t \in Targets : ~ Meets(t, RequestOf(h), Len(log))

\* The session moves to a lower tier only if the higher one was stable for the
\* configured number of decisions, lost a gate, or the state called for it
\* (_should_hold_tier on the view, record_routing_decision on the history).
DowngradesAreStable ==
    [][\A s \in Sessions :
          TierRank(routing'[s].tier) < TierRank(routing[s].tier) =>
              LET d == Last(routing'[s].decisions)
              IN \/ routing[s].stable >= Config.stable
                 \/ d.guarded
                 \/ routing[s].model \notin d.survivors]_routingVars

\* After a failed request the session's next one goes to a capable target if
\* any can serve it (_apply_failure, critical_override).
FailedBefore(c) ==
    \E i \in 1..c.logged :
        /\ log[i].event.session = c.request.session /\ log[i].event.type = "FAILED"
        /\ \A j \in i..c.logged :
              log[j].event.session = c.request.session => log[j].event.type # "MODEL_RESPONSE"

NoCheapRetryAfterFailure ==
    \A i \in DOMAIN chosen :
        FailedBefore(chosen[i]) =>
            \/ IsCapable(chosen[i].target)
            \/ \A t \in chosen[i].eligible : ~ IsCapable(t)

\* A request the session's state knows of is being handled or has an outcome,
\* and an answer or a failure is in the state before the client has it, unless
\* a harness has moved the session to an epoch in which the gateway's events
\* are stale (handle and each of its ways out).
Logged(e) == \E i \in DOMAIN log : log[i].event = e

NoRequestIsLost ==
    \A r \in Requests :
        /\ Logged(RequestedEvent(r)) /\ outcome[r] = Waiting
               => \E t \in Handlers : handling[t] # Idle /\ RequestOf(t) = r
        /\ outcome[r] = "answered" => Logged(AnsweredEvent(r)) \/ order[r.session][1] > 0
        /\ outcome[r] = "failed" => Logged(FailedEvent(r)) \/ order[r.session][1] > 0
=============================================================================
