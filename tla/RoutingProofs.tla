---------------------------- MODULE RoutingProofs ----------------------------
(***************************************************************************)
(* What RequestGateway.handle promises of every request, for any number of *)
(* gateway threads, harnesses, sessions and targets.                       *)
(***************************************************************************)
EXTENDS RequestRouting, SuccessFirstProofs, SequenceTheorems

(***************************************************************************)
(* Events and orders                                                       *)
(***************************************************************************)
Posted == {RequestedEvent(r) : r \in Requests} \cup {AnsweredEvent(r) : r \in Requests}
          \cup {FailedEvent(r) : r \in Requests}
Offered == Events \cup Posted

LEMMA PostedEvents ==
    ASSUME NEW r \in Requests, NEW e \in {RequestedEvent(r), AnsweredEvent(r), FailedEvent(r)}
    PROVE  /\ e \in Offered /\ e.session = r.session /\ r.session \in Sessions
           /\ e.epoch = 0 /\ e.sequence = 0
           /\ e = RequestedEvent(r) \/ e.type # "MODEL_REQUESTED"
BY RequestsAreApart DEF Offered, Posted, RequestedEvent, AnsweredEvent, FailedEvent, EventOf

LEMMA OfferedTypes ==
    ASSUME NEW e \in Offered
    PROVE  e.session \in Sessions /\ e.epoch \in Int /\ e.sequence \in Int
<1>1. CASE e \in Events
    BY <1>1, EventsAreTyped
<1>2. CASE e \in Posted
    BY <1>2, PostedEvents DEF Posted
<1> QED BY <1>1, <1>2 DEF Offered

LEMMA OrderOfType ==
    ASSUME NEW e \in Offered, order[e.session] \in Orders
    PROVE  OrderOf(e) \in Orders
BY OfferedTypes DEF OrderOf, Orders

\* The gateway's event is refused only in an epoch that a harness began.
LEMMA GatewayIsStale ==
    ASSUME NEW e \in Offered, e.epoch = 0, e.sequence = 0,
           order[e.session] \in Orders, ~ Advances(e)
    PROVE  order[e.session][1] > 0
BY DEF Advances, OrderOf, Before, Orders

(***************************************************************************)
(* Types                                                                   *)
(***************************************************************************)
Stages == {"received", "viewed", "sent", "refused"}

\* The part of the store's TypeOK that the gateway's events keep.
StoreTypes ==
    /\ header \in [Sessions -> Orders \cup {Absent}]
    /\ order \in [Sessions -> Orders]
    /\ log \in Seq([event : Offered, order : Orders])
    /\ DOMAIN sections = Sessions /\ DOMAIN routing = Sessions
    /\ DOMAIN view = Threads
    /\ \A t \in Threads : view[t] # Absent => view[t].session \in Sessions
    /\ \A s \in Sessions :
          \/ header[s] = order[s]
          \/ order[s] = NoOrder /\ header[s] \in {Absent, <<0, 0>>}

RoutingTypes ==
    /\ StoreTypes
    /\ handling \in [Handlers -> {Idle} \cup [request : Requests, stage : Stages]]
    /\ outcome \in [Requests -> {Waiting, "answered", "failed", "broken"}]

LEMMA AppendKeepsTypes ==
    ASSUME StoreTypes, NEW t \in Threads, NEW e \in Offered, AppendEvent(t, e)
    PROVE  /\ StoreTypes'
           /\ log' = Append(log, [event |-> e, order |-> OrderOf(e)])
           /\ \A s \in Sessions : order[s][1] > 0 => order'[s][1] > 0
<1>1. e.session \in Sessions /\ order[e.session] \in Orders /\ OrderOf(e) \in Orders
    BY OfferedTypes, OrderOfType DEF StoreTypes
<1>2. /\ header' = [header EXCEPT ![e.session] = OrderOf(e)]
      /\ order' = [order EXCEPT ![e.session] = OrderOf(e)]
      /\ log' = Append(log, [event |-> e, order |-> OrderOf(e)])
      /\ view' = view /\ Before(order[e.session], OrderOf(e))
      /\ DOMAIN sections' = Sessions /\ DOMAIN routing' = Sessions
    BY DEF AppendEvent, Advances, StoreTypes
<1>3. [event |-> e, order |-> OrderOf(e)] \in [event : Offered, order : Orders]
    BY <1>1
<1>4. log' \in Seq([event : Offered, order : Orders])
    BY <1>2, <1>3, AppendProperties DEF StoreTypes
<1>5. /\ header' \in [Sessions -> Orders \cup {Absent}] /\ order' \in [Sessions -> Orders]
      /\ \A s \in Sessions : \/ header'[s] = order'[s]
                             \/ order'[s] = NoOrder /\ header'[s] \in {Absent, <<0, 0>>}
    BY <1>1, <1>2 DEF StoreTypes
<1>6. \A s \in Sessions : order[s][1] > 0 => order'[s][1] > 0
    BY <1>1, <1>2 DEF StoreTypes, Before, Orders
<1> QED BY <1>2, <1>4, <1>5, <1>6 DEF StoreTypes

\* Where a call leaves the state of the store and the views alone.
StoreKept == UNCHANGED <<states, log, view>>

LEMMA PostKeepsTypes ==
    ASSUME StoreTypes, NEW t \in Threads, NEW e \in Offered, Post(t, e)
    PROVE  /\ StoreTypes'
           /\ \/ StoreKept /\ ~ Advances(e)
              \/ log' = Append(log, [event |-> e, order |-> OrderOf(e)]) /\ AppendEvent(t, e)
           /\ \A s \in Sessions : order[s][1] > 0 => order'[s][1] > 0
<1>1. CASE AppendEvent(t, e)
    BY <1>1, AppendKeepsTypes
<1>2. CASE RefuseEvent(t, e)
    BY <1>2 DEF RefuseEvent, StoreTypes, states, StoreKept
<1> QED BY <1>1, <1>2 DEF Post

LEMMA DecisionKeepsTypes ==
    ASSUME StoreTypes, NEW t \in Threads, NEW d, RecordDecision(t, d)
    PROVE  /\ StoreTypes' /\ log' = log
           /\ \A s \in Sessions : order[s][1] > 0 => order'[s][1] > 0
<1> DEFINE s == view[t].session
           o == DecisionOrder(s)
<1>1. /\ s \in Sessions
      /\ header' = [header EXCEPT ![s] = o] /\ order' = [order EXCEPT ![s] = o]
      /\ view' = [view EXCEPT ![t] = Absent] /\ log' = log
      /\ DOMAIN sections' = Sessions /\ DOMAIN routing' = Sessions
    BY DEF RecordDecision, StoreTypes
<1>2. o \in Orders /\ (order[s][1] > 0 => o[1] > 0)
    <2>1. CASE header[s] = Absent
        BY <1>1, <2>1, AbsentIsNoOrder DEF DecisionOrder, StoreTypes, Orders, NoOrder
    <2>2. CASE header[s] # Absent
        BY <1>1, <2>2 DEF DecisionOrder, StoreTypes, Orders, NoOrder
    <2> QED BY <2>1, <2>2
<1> HIDE DEF o
<1> QED BY <1>1, <1>2 DEF StoreTypes

LEMMA ReadKeepsTypes ==
    ASSUME StoreTypes, NEW t \in Threads, NEW s \in Sessions, GetSchedulingView(t, s)
    PROVE  StoreTypes' /\ log' = log /\ order' = order
<1>1. view' = [view EXCEPT ![t] = ViewOf(s)] /\ UNCHANGED <<states, log>>
    BY DEF GetSchedulingView
<1>2. ViewOf(s).session = s
    BY DEF ViewOf
<1> HIDE DEF ViewOf
<1> QED BY <1>1, <1>2 DEF StoreTypes, states

LEMMA RoutingTypesInit == RoutingInit => RoutingTypes
<1> SUFFICES ASSUME RoutingInit PROVE RoutingTypes
    OBVIOUS
<1>1. StoreTypes
    BY DEF RoutingInit, Init, StoreTypes, Orders, NoOrder
<1> QED BY <1>1 DEF RoutingInit, RoutingTypes

\* The requests a thread has, and the threads a request has.
LEMMA HandledRequest ==
    ASSUME RoutingTypes, NEW t \in Handlers, handling[t] # Idle
    PROVE  /\ t \in Threads /\ RequestOf(t) \in Requests
           /\ RequestOf(t).session \in Sessions
           /\ handling[t] = [request |-> RequestOf(t), stage |-> handling[t].stage]
           /\ handling[t].stage \in Stages
BY RoutingSwitches, RequestsAreApart DEF RoutingTypes, RequestOf

LEMMA AdvanceTypes ==
    ASSUME RoutingTypes, NEW t \in Handlers, NEW stage \in Stages, handling[t] # Idle,
           Advance(t, stage)
    PROVE  /\ handling' \in [Handlers -> {Idle} \cup [request : Requests, stage : Stages]]
           /\ handling'[t] = [request |-> RequestOf(t), stage |-> stage]
           /\ handling'[t].request = RequestOf(t) /\ handling'[t].stage = stage
           /\ \A u \in Handlers \ {t} : handling'[u] = handling[u]
<1>1. handling[t] \in [request : Requests, stage : Stages]
    BY DEF RoutingTypes
<1> QED BY <1>1 DEF RoutingTypes, Advance, RequestOf

LEMMA RequestIsNotIdle ==
    ASSUME NEW r \in Requests, NEW stage \in Stages
    PROVE  [request |-> r, stage |-> stage] # Idle
BY OthersAreApart DEF Stages

\* The log only grows.
LEMMA LogGrows ==
    ASSUME StoreTypes, NEW entry \in [event : Offered, order : Orders],
           log' = log \/ log' = Append(log, entry)
    PROVE  \A e : Logged(e) => Logged(e)'
<1>1. CASE log' = log
    BY <1>1 DEF Logged
<1>2. CASE log' = Append(log, entry)
    <2>1. /\ Len(log') = Len(log) + 1 /\ Len(log) \in Nat
          /\ DOMAIN log = 1..Len(log) /\ DOMAIN log' = 1..Len(log')
          /\ \A i \in 1..Len(log) : log'[i] = log[i]
        BY <1>2, AppendProperties, LenProperties DEF StoreTypes
    <2>2. \A i \in DOMAIN log : i \in DOMAIN log' /\ log'[i] = log[i]
        BY <2>1
    <2> QED BY <2>2 DEF Logged
<1> QED BY <1>1, <1>2

\* What every step does to types, log and epochs.
Grows ==
    /\ RoutingTypes'
    /\ \A e : Logged(e) => Logged(e)'
    /\ \A s \in Sessions : order[s][1] > 0 => order'[s][1] > 0

LEMMA PostGrows ==
    ASSUME RoutingTypes, NEW t \in Threads, NEW e \in Offered, Post(t, e),
           handling' \in [Handlers -> {Idle} \cup [request : Requests, stage : Stages]],
           outcome' \in [Requests -> {Waiting, "answered", "failed", "broken"}]
    PROVE  Grows
<1>1. StoreTypes' /\ \A s \in Sessions : order[s][1] > 0 => order'[s][1] > 0
    BY PostKeepsTypes DEF RoutingTypes
<1>2. log' = log \/ log' = Append(log, [event |-> e, order |-> OrderOf(e)])
    BY PostKeepsTypes DEF RoutingTypes, StoreKept
<1>3. [event |-> e, order |-> OrderOf(e)] \in [event : Offered, order : Orders]
    BY OfferedTypes, OrderOfType DEF RoutingTypes, StoreTypes
<1>4. \A x : Logged(x) => Logged(x)'
    BY <1>2, <1>3, LogGrows DEF RoutingTypes
<1> QED BY <1>1, <1>4 DEF RoutingTypes, Grows

LEMMA FinishTypes ==
    ASSUME RoutingTypes, NEW t \in Handlers, handling[t] # Idle,
           NEW result \in {"answered", "failed", "broken"}, Finish(t, result)
    PROVE  /\ handling' \in [Handlers -> {Idle} \cup [request : Requests, stage : Stages]]
           /\ outcome' \in [Requests -> {Waiting, "answered", "failed", "broken"}]
           /\ handling'[t] = Idle /\ (\A u \in Handlers \ {t} : handling'[u] = handling[u])
           /\ outcome'[RequestOf(t)] = result
           /\ \A r \in Requests \ {RequestOf(t)} : outcome'[r] = outcome[r]
<1>1. RequestOf(t) \in Requests
    BY HandledRequest
<1> QED BY <1>1 DEF RoutingTypes, Finish

LEMMA ReceiveGrows ==
    ASSUME RoutingTypes, NEW t \in Handlers, NEW r \in Requests, Receive(t, r)
    PROVE  Grows /\ handling'[t] = [request |-> r, stage |-> "received"]
                 /\ (\A u \in Handlers \ {t} : handling'[u] = handling[u])
                 /\ handling[t] = Idle
<1>1. t \in Threads /\ RequestedEvent(r) \in Offered
    BY RoutingSwitches, PostedEvents
<1>2. handling' \in [Handlers -> {Idle} \cup [request : Requests, stage : Stages]]
    BY DEF Receive, RoutingTypes, Stages
<1>3. Post(t, RequestedEvent(r)) /\ outcome' = outcome
    BY DEF Receive
<1>4. Grows
    BY <1>1, <1>2, <1>3, PostGrows DEF RoutingTypes
<1> QED BY <1>4 DEF Receive, RoutingTypes

LEMMA ReportGrows ==
    ASSUME RoutingTypes, NEW t \in Threads, NEW e \in Events, Report(t, e)
    PROVE  Grows
BY PostGrows DEF Report, RoutingTypes, Offered

\* A step of a thread that has a request.
LEMMA HandleGrows ==
    ASSUME RoutingTypes, NEW t \in Handlers, Handle(t)
    PROVE  Grows /\ handling[t] # Idle
<1>1. handling[t] # Idle
    BY DEF Handle, ReadView, Decide, GiveUp, Answer, Fail, BreakOff, Handles
<1>2. t \in Threads /\ RequestOf(t) \in Requests /\ RequestOf(t).session \in Sessions
    BY <1>1, HandledRequest
<1>3. CASE ReadView(t)
    <2>1. StoreTypes' /\ log' = log /\ order' = order
        BY <1>2, <1>3, ReadKeepsTypes DEF ReadView, RoutingTypes
    <2>2. Advance(t, "viewed") /\ outcome' = outcome
        BY <1>3 DEF ReadView
    <2>3. handling' \in [Handlers -> {Idle} \cup [request : Requests, stage : Stages]]
        BY <1>1, <2>2, AdvanceTypes DEF Stages
    <2> QED BY <1>1, <2>1, <2>2, <2>3 DEF Grows, RoutingTypes, Logged
<1>4. CASE Decide(t)
    <2>1. /\ StoreTypes' /\ log' = log
          /\ \A s \in Sessions : order[s][1] > 0 => order'[s][1] > 0
        BY <1>2, <1>4, DecisionKeepsTypes DEF Decide, RoutingTypes
    <2>2. Advance(t, "sent") /\ outcome' = outcome
        BY <1>4 DEF Decide
    <2>3. handling' \in [Handlers -> {Idle} \cup [request : Requests, stage : Stages]]
        BY <1>1, <2>2, AdvanceTypes DEF Stages
    <2> QED BY <1>1, <2>1, <2>2, <2>3 DEF Grows, RoutingTypes, Logged
<1>5. CASE GiveUp(t)
    <2>1. StoreTypes' /\ log' = log /\ order' = order
        BY <1>5 DEF GiveUp, RoutingTypes, StoreTypes, states
    <2>2. Advance(t, "refused") /\ outcome' = outcome
        BY <1>5 DEF GiveUp
    <2>3. handling' \in [Handlers -> {Idle} \cup [request : Requests, stage : Stages]]
        BY <1>1, <2>2, AdvanceTypes DEF Stages
    <2> QED BY <1>1, <2>1, <2>2, <2>3 DEF Grows, RoutingTypes, Logged
<1>6. CASE Answer(t)
    <2>1. Post(t, AnsweredEvent(RequestOf(t))) /\ Finish(t, "answered")
        BY <1>6 DEF Answer
    <2> QED BY <1>1, <1>2, <2>1, PostedEvents, PostGrows, FinishTypes
<1>7. CASE Fail(t)
    <2>1. Post(t, FailedEvent(RequestOf(t))) /\ Finish(t, "failed")
        BY <1>7 DEF Fail
    <2> QED BY <1>1, <1>2, <2>1, PostedEvents, PostGrows, FinishTypes
<1>8. CASE BreakOff(t)
    <2>1. UNCHANGED storeVars /\ Finish(t, "broken")
        BY <1>8 DEF BreakOff
    <2>2. StoreTypes' /\ log' = log /\ order' = order
        BY <2>1 DEF storeVars, states, StoreTypes, RoutingTypes
    <2> QED BY <1>1, <2>1, <2>2, FinishTypes DEF Grows, RoutingTypes, Logged
<1> QED BY <1>1, <1>3, <1>4, <1>5, <1>6, <1>7, <1>8 DEF Handle

LEMMA RoutingGrows == RoutingTypes /\ [RoutingNext]_routingVars => Grows
<1> SUFFICES ASSUME RoutingTypes, [RoutingNext]_routingVars PROVE Grows
    OBVIOUS
<1>1. CASE UNCHANGED routingVars
    BY <1>1 DEF routingVars, storeVars, states, RoutingTypes, StoreTypes, Grows, Logged
<1>2. CASE RoutingNext
    BY <1>2, ReceiveGrows, HandleGrows, ReportGrows DEF RoutingNext
<1> QED BY <1>1, <1>2

LEMMA RoutingTypeCorrect == RoutingSpec => []RoutingTypes
<1>1. RoutingTypes /\ [RoutingNext]_routingVars => RoutingTypes'
    BY RoutingGrows DEF Grows
<1> QED BY <1>1, RoutingTypesInit, PTL DEF RoutingSpec

(***************************************************************************)
(* No request is lost                                                      *)
(***************************************************************************)
LEMMA PostLogs ==
    ASSUME RoutingTypes, NEW t \in Threads, NEW e \in Offered, Post(t, e)
    PROVE  /\ \A x : Logged(x)' => Logged(x) \/ x = e
           /\ Logged(e)' \/ (log' = log /\ order' = order /\ ~ Advances(e))
<1>1. CASE log' = log /\ order' = order /\ ~ Advances(e)
    BY <1>1 DEF Logged
<1>2. CASE log' = Append(log, [event |-> e, order |-> OrderOf(e)])
    <2>1. [event |-> e, order |-> OrderOf(e)] \in [event : Offered, order : Orders]
        BY OfferedTypes, OrderOfType DEF RoutingTypes, StoreTypes
    <2>2. /\ Len(log') = Len(log) + 1 /\ Len(log) \in Nat
          /\ DOMAIN log = 1..Len(log) /\ DOMAIN log' = 1..Len(log')
          /\ \A i \in 1..Len(log) : log'[i] = log[i]
          /\ log'[Len(log) + 1] = [event |-> e, order |-> OrderOf(e)]
        BY <1>2, <2>1, AppendProperties, LenProperties DEF RoutingTypes, StoreTypes
    <2>3. Logged(e)'
        BY <2>2 DEF Logged
    <2>4. ASSUME NEW x, Logged(x)' PROVE Logged(x) \/ x = e
        <3>1. PICK i \in DOMAIN log' : log'[i].event = x
            BY <2>4 DEF Logged
        <3>2. CASE i = Len(log) + 1
            BY <3>1, <3>2, <2>2
        <3>3. CASE i # Len(log) + 1
            <4>1. i \in DOMAIN log
                BY <3>1, <3>3, <2>2
            <4> QED BY <3>1, <4>1, <2>2 DEF Logged
        <3> QED BY <3>2, <3>3
    <2> QED BY <2>3, <2>4
<1> QED BY <1>1, <1>2, PostKeepsTypes DEF RoutingTypes, StoreKept, states

\* An event that the gateway posts is in the state, or stale in its epoch.
LEMMA GatewayPosts ==
    ASSUME RoutingTypes, NEW t \in Threads, NEW r \in Requests,
           NEW e \in {AnsweredEvent(r), FailedEvent(r)}, Post(t, e)
    PROVE  /\ \A x \in Requests : Logged(RequestedEvent(x))' => Logged(RequestedEvent(x))
           /\ Logged(e)' \/ order'[r.session][1] > 0
<1>1. /\ e \in Offered /\ e.session = r.session /\ r.session \in Sessions
      /\ e.epoch = 0 /\ e.sequence = 0
    BY PostedEvents
<1>2. \A x \in Requests : RequestedEvent(x) # e
    BY DEF RequestedEvent, AnsweredEvent, FailedEvent, EventOf
<1>3. order[r.session] \in Orders
    BY <1>1 DEF RoutingTypes, StoreTypes
<1> QED BY <1>1, <1>2, <1>3, PostLogs, GatewayIsStale

Held(r) == \E t \in Handlers : handling[t] # Idle /\ RequestOf(t) = r

LEMMA ReceiveLosesNone ==
    ASSUME RoutingTypes, NoRequestIsLost, NEW t \in Handlers, NEW q \in Requests, Receive(t, q)
    PROVE  NoRequestIsLost'
<1>1. /\ Grows /\ handling'[t] = [request |-> q, stage |-> "received"]
      /\ (\A u \in Handlers \ {t} : handling'[u] = handling[u]) /\ handling[t] = Idle
    BY ReceiveGrows
<1>2. t \in Threads /\ RequestedEvent(q) \in Offered /\ Post(t, RequestedEvent(q))
    BY RoutingSwitches, PostedEvents DEF Receive
<1>3. \A x : Logged(x)' => Logged(x) \/ x = RequestedEvent(q)
    BY <1>2, PostLogs
<1>4. outcome' = outcome
    BY DEF Receive
<1>5. Held(q)'
    BY <1>1, RequestIsNotIdle DEF Held, RequestOf, Stages
<1>6. \A r \in Requests : Held(r) => Held(r)'
    BY <1>1 DEF Held, RequestOf
<1>7. ASSUME NEW r \in Requests
      PROVE  /\ Logged(RequestedEvent(r))' /\ outcome'[r] = Waiting => Held(r)'
             /\ outcome'[r] = "answered" => Logged(AnsweredEvent(r))' \/ order'[r.session][1] > 0
             /\ outcome'[r] = "failed" => Logged(FailedEvent(r))' \/ order'[r.session][1] > 0
    <2>1. r.session \in Sessions /\ (RequestedEvent(r) = RequestedEvent(q) => r = q)
        BY RequestsAreApart
    <2>2. /\ Logged(RequestedEvent(r)) /\ outcome[r] = Waiting => Held(r)
          /\ outcome[r] = "answered" => Logged(AnsweredEvent(r)) \/ order[r.session][1] > 0
          /\ outcome[r] = "failed" => Logged(FailedEvent(r)) \/ order[r.session][1] > 0
        BY DEF NoRequestIsLost, Held
    <2> QED BY <2>1, <2>2, <1>1, <1>3, <1>4, <1>5, <1>6 DEF Grows
<1> QED BY <1>7 DEF NoRequestIsLost, Held

LEMMA ReportLosesNone ==
    ASSUME RoutingTypes, NoRequestIsLost, NEW t \in Threads, NEW e \in Events, Report(t, e)
    PROVE  NoRequestIsLost'
<1>1. Grows /\ handling' = handling /\ outcome' = outcome
    BY ReportGrows DEF Report
<1>2. \A x : Logged(x)' => Logged(x) \/ x = e
    BY PostLogs DEF Report, Offered
<1>3. \A r \in Requests : r.session \in Sessions /\ RequestedEvent(r) # e
    BY RequestsAreApart
<1>4. ASSUME NEW r \in Requests
      PROVE  /\ Logged(RequestedEvent(r))' /\ outcome'[r] = Waiting => Held(r)'
             /\ outcome'[r] = "answered" => Logged(AnsweredEvent(r))' \/ order'[r.session][1] > 0
             /\ outcome'[r] = "failed" => Logged(FailedEvent(r))' \/ order'[r.session][1] > 0
    <2>1. Held(r)' <=> Held(r)
        BY <1>1 DEF Held, RequestOf
    <2> QED BY <2>1, <1>1, <1>2, <1>3 DEF Grows, NoRequestIsLost, Held
<1> QED BY <1>4 DEF NoRequestIsLost, Held

\* The ways on: the thread keeps its request, the log is as it was.
LEMMA GoOnLosesNone ==
    ASSUME RoutingTypes, NoRequestIsLost, NEW t \in Handlers, handling[t] # Idle, Grows,
           NEW stage \in Stages, Advance(t, stage), log' = log, outcome' = outcome
    PROVE  NoRequestIsLost'
<1>1. /\ handling'[t] = [request |-> RequestOf(t), stage |-> stage]
      /\ \A u \in Handlers \ {t} : handling'[u] = handling[u]
    BY AdvanceTypes
<1>2. RequestOf(t) \in Requests /\ handling'[t] # Idle
    BY <1>1, HandledRequest, RequestIsNotIdle
<1>3. \A r \in Requests : Held(r) => Held(r)'
    BY <1>1, <1>2 DEF Held, RequestOf
<1>4. ASSUME NEW r \in Requests
      PROVE  /\ Logged(RequestedEvent(r))' /\ outcome'[r] = Waiting => Held(r)'
             /\ outcome'[r] = "answered" => Logged(AnsweredEvent(r))' \/ order'[r.session][1] > 0
             /\ outcome'[r] = "failed" => Logged(FailedEvent(r))' \/ order'[r.session][1] > 0
    <2>1. r.session \in Sessions /\ (Logged(RequestedEvent(r))' <=> Logged(RequestedEvent(r)))
        BY RequestsAreApart DEF Logged
    <2> QED BY <2>1, <1>3 DEF Grows, NoRequestIsLost, Held
<1> QED BY <1>4 DEF NoRequestIsLost, Held

\* The ways out: what the client gets is in the state.
LEMMA FinishLosesNone ==
    ASSUME RoutingTypes, NoRequestIsLost, NEW t \in Handlers, handling[t] # Idle, Grows,
           NEW q \in Requests, q = RequestOf(t), NEW result \in {"answered", "failed", "broken"}, Finish(t, result),
           \A x \in Requests : Logged(RequestedEvent(x))' => Logged(RequestedEvent(x)),
           result = "answered" => Logged(AnsweredEvent(q))' \/ order'[q.session][1] > 0,
           result = "failed" => Logged(FailedEvent(q))' \/ order'[q.session][1] > 0
    PROVE  NoRequestIsLost'
<1>1. /\ handling'[t] = Idle /\ (\A u \in Handlers \ {t} : handling'[u] = handling[u])
      /\ outcome'[q] = result
      /\ \A r \in Requests \ {q} : outcome'[r] = outcome[r]
    BY FinishTypes
<1>2. \A r \in Requests \ {q} : Held(r) => Held(r)'
    BY <1>1 DEF Held, RequestOf
<1>3. ASSUME NEW r \in Requests
      PROVE  /\ Logged(RequestedEvent(r))' /\ outcome'[r] = Waiting => Held(r)'
             /\ outcome'[r] = "answered" => Logged(AnsweredEvent(r))' \/ order'[r.session][1] > 0
             /\ outcome'[r] = "failed" => Logged(FailedEvent(r))' \/ order'[r.session][1] > 0
    <2>1. CASE r = q
        BY <2>1, <1>1 DEF Waiting
    <2>2. CASE r # q
        <3>1. r.session \in Sessions /\ outcome'[r] = outcome[r]
            BY <2>2, <1>1, RequestsAreApart
        <3>2. /\ Logged(RequestedEvent(r)) /\ outcome[r] = Waiting => Held(r)
              /\ outcome[r] = "answered" => Logged(AnsweredEvent(r)) \/ order[r.session][1] > 0
              /\ outcome[r] = "failed" => Logged(FailedEvent(r)) \/ order[r.session][1] > 0
            BY DEF NoRequestIsLost, Held
        <3> QED BY <3>1, <3>2, <2>2, <1>2 DEF Grows
    <2> QED BY <2>1, <2>2
<1> QED BY <1>3 DEF NoRequestIsLost, Held

LEMMA HandleLosesNone ==
    ASSUME RoutingTypes, NoRequestIsLost, NEW t \in Handlers, Handle(t)
    PROVE  NoRequestIsLost'
<1>1. Grows /\ handling[t] # Idle /\ t \in Threads /\ RequestOf(t) \in Requests
    BY HandleGrows, HandledRequest
<1>2. CASE ReadView(t)
    <2>1. Advance(t, "viewed") /\ log' = log /\ outcome' = outcome
        BY <1>2 DEF ReadView, GetSchedulingView
    <2> QED BY <1>1, <2>1, GoOnLosesNone DEF Stages
<1>3. CASE Decide(t)
    <2>1. Advance(t, "sent") /\ log' = log /\ outcome' = outcome
        BY <1>3 DEF Decide, RecordDecision
    <2> QED BY <1>1, <2>1, GoOnLosesNone DEF Stages
<1>4. CASE GiveUp(t)
    <2>1. Advance(t, "refused") /\ log' = log /\ outcome' = outcome
        BY <1>4 DEF GiveUp
    <2> QED BY <1>1, <2>1, GoOnLosesNone DEF Stages
<1>5. CASE Answer(t)
    <2>1. Post(t, AnsweredEvent(RequestOf(t))) /\ Finish(t, "answered")
        BY <1>5 DEF Answer
    <2>2. PICK r \in Requests : r = RequestOf(t)
        BY <1>1
    <2>3. /\ \A x \in Requests : Logged(RequestedEvent(x))' => Logged(RequestedEvent(x))
          /\ Logged(AnsweredEvent(r))' \/ order'[r.session][1] > 0
        BY <1>1, <2>1, <2>2, GatewayPosts
    <2> QED BY <1>1, <2>1, <2>2, <2>3, FinishLosesNone
<1>6. CASE Fail(t)
    <2>1. Post(t, FailedEvent(RequestOf(t))) /\ Finish(t, "failed")
        BY <1>6 DEF Fail
    <2>2. PICK r \in Requests : r = RequestOf(t)
        BY <1>1
    <2>3. /\ \A x \in Requests : Logged(RequestedEvent(x))' => Logged(RequestedEvent(x))
          /\ Logged(FailedEvent(r))' \/ order'[r.session][1] > 0
        BY <1>1, <2>1, <2>2, GatewayPosts
    <2> QED BY <1>1, <2>1, <2>2, <2>3, FinishLosesNone
<1>7. CASE BreakOff(t)
    <2>1. log' = log /\ Finish(t, "broken")
        BY <1>7 DEF BreakOff, storeVars
    <2>2. \A x \in Requests : Logged(RequestedEvent(x))' => Logged(RequestedEvent(x))
        BY <2>1 DEF Logged
    <2> QED BY <1>1, <2>1, <2>2, FinishLosesNone
<1> QED BY <1>2, <1>3, <1>4, <1>5, <1>6, <1>7 DEF Handle

\* A request the state knows of is in a thread's hands or has its outcome; an
\* outcome the client has is in the state, unless a harness began an epoch in
\* which the gateway's events are stale (handle, _record_model_response,
\* _record_failure, append_event).
THEOREM RequestsAreKept == RoutingSpec => []NoRequestIsLost
<1>1. RoutingInit => NoRequestIsLost
    BY DEF RoutingInit, Init, NoRequestIsLost, Logged, Waiting
<1>2. RoutingTypes /\ NoRequestIsLost /\ [RoutingNext]_routingVars => NoRequestIsLost'
    <2> SUFFICES ASSUME RoutingTypes, NoRequestIsLost, [RoutingNext]_routingVars
                 PROVE  NoRequestIsLost'
        OBVIOUS
    <2>1. CASE UNCHANGED routingVars
        BY <2>1 DEF routingVars, storeVars, states, NoRequestIsLost, Logged, RequestOf
    <2>2. CASE RoutingNext
        BY <2>2, ReceiveLosesNone, HandleLosesNone, ReportLosesNone DEF RoutingNext
    <2> QED BY <2>1, <2>2
<1> QED BY <1>1, <1>2, RoutingTypeCorrect, PTL DEF RoutingSpec

(***************************************************************************)
(* What a thread decides from                                              *)
(***************************************************************************)
\* The predictor raises or answers with numbers, whatever measured view it is
\* asked about.
PredictorSpeaks == \A v : IsMeasured(v) => Speaks(v, Targets)

Verdicts == [target : Targets, guarded : BOOLEAN,
             survivors : SUBSET {t.model : t \in Targets}, reason : Reasons]

ViewFields == {"session", "version", "phase", "runnable", "turn", "severity", "critical",
               "streak", "failures", "compaction", "required", "models", "budget",
               "endpoint", "replica", "model", "tier", "stable"}

LEMMA ViewOfFields ==
    ASSUME NEW s
    PROVE  /\ DOMAIN ViewOf(s) = ViewFields /\ ViewOf(s).session = s
           /\ ViewOf(s).model = Routing(s).model /\ ViewOf(s).tier = Routing(s).tier
           /\ ViewOf(s).stable = Routing(s).stable
           /\ ViewOf(s).required = Sections(s).required /\ ViewOf(s).models = Sections(s).models
           /\ ViewOf(s).budget = Sections(s).budget /\ ViewOf(s).severity = Sections(s).severity
BY DEF ViewOf, ViewFields

\* handle() puts the request's sizes and capabilities into the view, no more.
LEMMA AskedFields ==
    ASSUME NEW v, DOMAIN v = ViewFields, NEW r \in Requests
    PROVE  LET a == AskedView(v, r) IN
           /\ a.prompt = r.prompt /\ a.output = r.output /\ a.worth = Unreported.worth
           /\ a.model = v.model /\ a.tier = v.tier /\ a.stable = v.stable
           /\ a.required = v.required \cup r.required /\ a.models = v.models
           /\ a.budget = v.budget /\ a.severity = v.severity
           /\ a.domains = Unreported.domains /\ a.remoteAllowed = Unreported.remoteAllowed
           /\ IsMeasured(a)
<1> DEFINE known == [f \in DOMAIN Unreported |-> IF f \in DOMAIN v THEN v[f] ELSE Unreported[f]]
           a == AskedView(v, r)
<1>1. a = [known EXCEPT !.prompt = r.prompt, !.output = r.output, !.required = @ \cup r.required]
    BY DEF AskedView
<1>2. \A f \in DOMAIN Unreported :
        known[f] = IF f \in ViewFields THEN v[f] ELSE Unreported[f]
    OBVIOUS
<1>3. DOMAIN known = DOMAIN Unreported
    OBVIOUS
<1>4. known.worth = Unreported.worth /\ known.model = v.model /\ known.tier = v.tier
      /\ known.stable = v.stable /\ known.required = v.required /\ known.models = v.models
      /\ known.budget = v.budget /\ known.severity = v.severity
      /\ known.domains = Unreported.domains /\ known.remoteAllowed = Unreported.remoteAllowed
    BY <1>2, UnreportedIsView DEF ViewFields
<1> HIDE DEF known, a
<1>5. /\ a.prompt = r.prompt /\ a.output = r.output /\ a.worth = known.worth
      /\ a.model = known.model /\ a.tier = known.tier /\ a.stable = known.stable
      /\ a.required = known.required \cup r.required /\ a.models = known.models
      /\ a.budget = known.budget /\ a.severity = known.severity
      /\ a.domains = known.domains /\ a.remoteAllowed = known.remoteAllowed
    BY <1>1, <1>3, UnreportedIsView
<1>6. IsMeasured(a)
    BY <1>4, <1>5, UnreportedIsView, RequestsAreApart DEF IsMeasured
<1> QED BY <1>4, <1>5, <1>6 DEF a

LEMMA VerdictStands ==
    ASSUME PredictorSpeaks, RoutingTypes, NEW t \in Handlers, handling[t] # Idle,
           DOMAIN view[t] = ViewFields, Verdict(t) # Infeasible
    PROVE  /\ Verdict(t) \in Verdicts
           /\ Stands(AskedView(view[t], RequestOf(t)), Targets, Verdict(t))
<1> DEFINE a == AskedView(view[t], RequestOf(t))
<1>1. IsMeasured(a)
    BY HandledRequest, AskedFields
<1>2. Affordable(a, Targets) # {}
    BY DEF Verdict, Decision, Affordable
<1>3. IsPool(Targets) /\ Speaks(a, Targets)
    BY <1>1, TargetsArePool DEF PredictorSpeaks, a
<1> HIDE DEF a
<1>4. Verdict(t) = Decision(a, Targets)
    BY DEF Verdict, a
<1> QED BY <1>1, <1>2, <1>3, <1>4, DecisionStands DEF Verdicts, a

(***************************************************************************)
(* One request of a session at a time                                      *)
(***************************************************************************)
Exclusive ==
    \A t, u \in Handlers : handling[t] # Idle /\ handling[u] # Idle /\ t # u
                               => RequestOf(t).session # RequestOf(u).session

\* What a thread's own step does to the requests in hand.
LEMMA HandleHolds ==
    ASSUME RoutingTypes, NEW t \in Handlers, Handle(t)
    PROVE  /\ \A u \in Handlers \ {t} : handling'[u] = handling[u]
           /\ handling'[t] = Idle \/ handling'[t].request = RequestOf(t)
<1>1. handling[t] # Idle
    BY HandleGrows
<1>2. \A stage : Advance(t, stage) => handling'[t].request = RequestOf(t)
                                      /\ \A u \in Handlers \ {t} : handling'[u] = handling[u]
    <2>1. handling[t] \in [request : Requests, stage : Stages]
        BY <1>1 DEF RoutingTypes
    <2> QED BY <2>1 DEF RoutingTypes, Advance, RequestOf
<1>3. \A result : Finish(t, result) => handling'[t] = Idle
                                       /\ \A u \in Handlers \ {t} : handling'[u] = handling[u]
    BY DEF RoutingTypes, Finish
<1> QED BY <1>2, <1>3 DEF Handle, ReadView, Decide, GiveUp, Answer, Fail, BreakOff

LEMMA ExclusiveStep ==
    ASSUME SerialClients, RoutingTypes, Exclusive, [RoutingNext]_routingVars
    PROVE  Exclusive'
<1>1. CASE UNCHANGED routingVars
    BY <1>1 DEF routingVars, Exclusive, RequestOf
<1>2. ASSUME NEW t \in Handlers, NEW r \in Requests, Receive(t, r) PROVE Exclusive'
    <2>1. /\ handling'[t] = [request |-> r, stage |-> "received"]
          /\ \A u \in Handlers \ {t} : handling'[u] = handling[u]
        BY <1>2, ReceiveGrows
    <2>2. \A u \in Handlers : handling[u] # Idle => RequestOf(u).session # r.session
        BY <1>2 DEF Receive
    <2> QED BY <2>1, <2>2 DEF Exclusive, RequestOf
<1>3. ASSUME NEW t \in Handlers, Handle(t) PROVE Exclusive'
    <2>1. /\ \A u \in Handlers \ {t} : handling'[u] = handling[u]
          /\ handling'[t] = Idle \/ handling'[t].request = RequestOf(t)
          /\ handling[t] # Idle
        BY <1>3, HandleHolds, HandleGrows
    <2> QED BY <2>1 DEF Exclusive, RequestOf
<1>4. ASSUME NEW t \in Threads \ Handlers, NEW e \in Events, Report(t, e) PROVE Exclusive'
    BY <1>4 DEF Report, Exclusive, RequestOf
<1> QED BY <1>1, <1>2, <1>3, <1>4 DEF RoutingNext

(***************************************************************************)
(* Downgrades                                                              *)
(***************************************************************************)
Records == {Recorded(d) : d \in Verdicts}

\* The routing history of every session: it changes with decisions alone, and
\* its tier is the one of its model.
RoutingHistory ==
    \A s \in Sessions :
        /\ header[s] = Absent => routing[s] = NewRouting
        /\ routing[s].stable \in Int /\ routing[s].decisions \in Seq(Records)
        /\ \/ routing[s].tier = NoTarget
           \/ \E u \in Targets : u.model = routing[s].model /\ u.tier = routing[s].tier

\* The view a thread decides from still says what the session runs on.
SeesRouting(t) ==
    LET s == RequestOf(t).session IN
    /\ DOMAIN view[t] = ViewFields /\ view[t].session = s
    /\ view[t].model = routing[s].model /\ view[t].tier = routing[s].tier
    /\ view[t].stable = routing[s].stable

DowngradeInv ==
    /\ Exclusive
    /\ RoutingHistory
    /\ \A t \in Handlers : Handles(t, "viewed") => SeesRouting(t)

LEMMA RoutingIsCurrent ==
    ASSUME RoutingHistory, NEW s \in Sessions
    PROVE  Routing(s) = routing[s]
BY DEF RoutingHistory, Routing

LEMMA PostKeepsRouting ==
    ASSUME RoutingTypes, RoutingHistory, NEW t \in Threads, NEW e \in Offered, Post(t, e)
    PROVE  RoutingHistory' /\ view' = view /\ \A s \in Sessions : routing'[s] = routing[s]
<1>1. CASE RefuseEvent(t, e)
    BY <1>1 DEF RefuseEvent, states, RoutingHistory
<1>2. CASE AppendEvent(t, e)
    <2>1. e.session \in Sessions /\ OrderOf(e) \in Orders
        BY OfferedTypes, OrderOfType DEF RoutingTypes, StoreTypes
    <2>2. /\ routing' = [routing EXCEPT ![e.session] = Routing(e.session)]
          /\ header' = [header EXCEPT ![e.session] = OrderOf(e)] /\ view' = view
        BY <1>2 DEF AppendEvent
    <2>3. \A s \in Sessions : routing'[s] = routing[s]
        BY <2>1, <2>2, RoutingIsCurrent DEF RoutingTypes, StoreTypes
    <2>4. \A s \in Sessions : header'[s] = Absent => header[s] = Absent
        BY <2>1, <2>2, AbsentIsNoOrder DEF RoutingTypes, StoreTypes
    <2> QED BY <2>2, <2>3, <2>4 DEF RoutingHistory
<1> QED BY <1>1, <1>2 DEF Post

LEMMA LastOfAppend ==
    ASSUME NEW S, NEW seq \in Seq(S), NEW x \in S
    PROVE  /\ LastOf(Append(seq, x), MaxDecisions) \in Seq(S)
           /\ Last(LastOf(Append(seq, x), MaxDecisions)) = x
<1> DEFINE long == Append(seq, x)
           first == IF Len(long) > MaxDecisions THEN Len(long) - MaxDecisions + 1 ELSE 1
<1>1. long \in Seq(S) /\ Len(long) = Len(seq) + 1 /\ Len(seq) \in Nat /\ long[Len(long)] = x
    BY AppendProperties, LenProperties
<1>2. first \in 1..Len(long)
    BY <1>1, StoreBounds
<1> HIDE DEF long, first
<1>3. /\ SubSeq(long, first, Len(long)) \in Seq(S)
      /\ Len(SubSeq(long, first, Len(long))) = Len(long) - first + 1
      /\ \A i \in 1..(Len(long) - first + 1) :
            SubSeq(long, first, Len(long))[i] = long[first + i - 1]
    BY <1>1, <1>2, SubSeqProperties
<1>4. Len(long) - first + 1 \in 1..(Len(long) - first + 1)
      /\ first + (Len(long) - first + 1) - 1 = Len(long)
    BY <1>1, <1>2
<1>5. SubSeq(long, first, Len(long))[Len(long) - first + 1] = x
    BY <1>1, <1>3, <1>4
<1> QED BY <1>3, <1>5 DEF LastOf, Last, long, first

\* What Decide does, once the view is known to be of the thread's session.
LEMMA DecideRoutes ==
    ASSUME PredictorSpeaks, RoutingTypes, DowngradeInv, NEW t \in Handlers, Decide(t),
           NEW s, s = RequestOf(t).session
    PROVE  /\ s \in Sessions
           /\ Verdict(t) \in Verdicts
           /\ Stands(AskedView(view[t], RequestOf(t)), Targets, Verdict(t))
           /\ routing' = [routing EXCEPT ![s] = Routed(routing[s], view[t], Recorded(Verdict(t)))]
           /\ header' = [header EXCEPT ![s] = DecisionOrder(s)]
           /\ view' = [view EXCEPT ![t] = Absent]
           /\ SeesRouting(t)
<1>1. handling[t] # Idle /\ Handles(t, "viewed")
    BY DEF Decide, Handles
<1>2. SeesRouting(t) /\ s \in Sessions
    BY <1>1, HandledRequest DEF DowngradeInv
<1>3. Verdict(t) # Infeasible /\ RecordDecision(t, Recorded(Verdict(t)))
    BY DEF Decide
<1>4. view[t].session = s /\ DOMAIN view[t] = ViewFields
    BY <1>2 DEF SeesRouting
<1>5. Verdict(t) \in Verdicts /\ Stands(AskedView(view[t], RequestOf(t)), Targets, Verdict(t))
    BY <1>1, <1>3, <1>4, VerdictStands
<1>6. Routing(s) = routing[s]
    BY <1>2, RoutingIsCurrent DEF DowngradeInv
<1> HIDE DEF Verdict
<1> QED BY <1>2, <1>3, <1>4, <1>5, <1>6 DEF RecordDecision

LEMMA DecideKeepsHistory ==
    ASSUME PredictorSpeaks, RoutingTypes, DowngradeInv, NEW t \in Handlers, Decide(t)
    PROVE  RoutingHistory'
<1> DEFINE s == RequestOf(t).session
           d == Verdict(t)
           r == Routed(routing[s], view[t], Recorded(d))
<1>1. /\ s \in Sessions /\ d \in Verdicts
      /\ routing' = [routing EXCEPT ![s] = r]
      /\ header' = [header EXCEPT ![s] = DecisionOrder(s)]
    BY DecideRoutes
<1>2. r.stable \in Int
    <2>1. r.stable = IF Recorded(d).tier = routing[s].tier THEN routing[s].stable + 1 ELSE 1
        BY DEF Routed
    <2> QED BY <2>1, <1>1 DEF DowngradeInv, RoutingHistory
<1>3. r.decisions \in Seq(Records)
    <2>1. r.decisions = LastOf(Append(routing[s].decisions, Recorded(d)), MaxDecisions)
        BY DEF Routed
    <2>2. Recorded(d) \in Records /\ routing[s].decisions \in Seq(Records)
        BY <1>1 DEF Records, DowngradeInv, RoutingHistory
    <2> QED BY <2>1, <2>2, LastOfAppend
<1>4. d.target \in Targets /\ d.target.model = r.model /\ d.target.tier = r.tier
    BY <1>1 DEF Verdicts, Routed, Recorded
<1>5. DecisionOrder(s) # Absent
    <2>1. header[s] = Absent \/ header[s] \in Orders
        BY <1>1 DEF RoutingTypes, StoreTypes
    <2>2. DecisionOrder(s) \in Orders
        BY <2>1 DEF DecisionOrder, Orders
    <2> QED BY <2>2, AbsentIsNoOrder
<1> HIDE DEF r, d, s
<1>6. ASSUME NEW q \in Sessions
      PROVE  /\ header'[q] = Absent => routing'[q] = NewRouting
             /\ routing'[q].stable \in Int /\ routing'[q].decisions \in Seq(Records)
             /\ \/ routing'[q].tier = NoTarget
                \/ \E u \in Targets : u.model = routing'[q].model /\ u.tier = routing'[q].tier
    <2>1. CASE q = s
        <3>1. routing'[q] = r /\ header'[q] = DecisionOrder(s)
            BY <2>1, <1>1 DEF RoutingTypes, StoreTypes
        <3> QED BY <3>1, <1>2, <1>3, <1>4, <1>5
    <2>2. CASE q # s
        <3>1. routing'[q] = routing[q] /\ header'[q] = header[q]
            BY <2>2, <1>1 DEF RoutingTypes, StoreTypes
        <3> QED BY <3>1 DEF DowngradeInv, RoutingHistory
    <2> QED BY <2>1, <2>2
<1> QED BY <1>6 DEF RoutingHistory

\* A thread sees what it saw before while its view and routing are kept.
LEMMA StillSees ==
    ASSUME NEW u \in Handlers, SeesRouting(u), handling'[u] = handling[u], view'[u] = view[u],
           NEW s, s = RequestOf(u).session, routing'[s] = routing[s]
    PROVE  SeesRouting(u)'
BY DEF SeesRouting, RequestOf

LEMMA ViewsStayCurrent ==
    ASSUME PredictorSpeaks, RoutingTypes, DowngradeInv, NEW t \in Handlers, Handle(t)
    PROVE  RoutingHistory' /\ \A u \in Handlers : Handles(u, "viewed")' => SeesRouting(u)'
<1> DEFINE Sees(u) == Handles(u, "viewed")' => SeesRouting(u)'
<1>1. /\ handling[t] # Idle /\ t \in Threads /\ RequestOf(t) \in Requests
      /\ RequestOf(t).session \in Sessions /\ RoutingHistory
    BY HandleGrows, HandledRequest DEF DowngradeInv
<1>2. \A u \in Handlers \ {t} : handling'[u] = handling[u]
    BY HandleHolds
\* The other threads.
<1>3. ASSUME NEW u \in Handlers \ {t}, view'[u] = view[u],
             \A q \in Sessions : q # RequestOf(t).session => routing'[q] = routing[q]
      PROVE  Sees(u)
    <2> SUFFICES ASSUME Handles(u, "viewed")' PROVE SeesRouting(u)'
        OBVIOUS
    <2>1. Handles(u, "viewed") /\ handling[u] # Idle
        BY <1>2 DEF Handles
    <2>2. RequestOf(u).session # RequestOf(t).session /\ RequestOf(u).session \in Sessions
        BY <2>1, <1>1, HandledRequest DEF DowngradeInv, Exclusive
    <2>3. SeesRouting(u)
        BY <2>1 DEF DowngradeInv
    <2> QED BY <2>2, <2>3, <1>2, <1>3, StillSees
<1>4. CASE ReadView(t)
    <2> DEFINE s == RequestOf(t).session
    <2>1. /\ view' = [view EXCEPT ![t] = ViewOf(s)] /\ UNCHANGED states /\ Advance(t, "viewed")
        BY <1>4 DEF ReadView, GetSchedulingView
    <2>2. routing' = routing /\ RoutingHistory'
        BY <1>1, <2>1 DEF states, RoutingHistory
    <2>3. view'[t] = ViewOf(s) /\ (\A u \in Handlers \ {t} : view'[u] = view[u])
        BY <1>1, <2>1, RoutingSwitches DEF RoutingTypes, StoreTypes
    <2>4. handling'[t].request = RequestOf(t)
        BY <1>1, <2>1, AdvanceTypes DEF Stages
    <2>5. Routing(s) = routing[s]
        BY <1>1, RoutingIsCurrent
    <2>6. SeesRouting(t)'
        BY <2>2, <2>3, <2>4, <2>5, ViewOfFields DEF SeesRouting, RequestOf
    <2> QED BY <1>3, <2>2, <2>3, <2>6
<1>5. CASE Decide(t)
    <2> DEFINE s == RequestOf(t).session
    <2>1. RoutingHistory'
        BY <1>5, DecideKeepsHistory
    <2>2. /\ routing' = [routing EXCEPT ![s] = Routed(routing[s], view[t], Recorded(Verdict(t)))]
          /\ view' = [view EXCEPT ![t] = Absent]
        BY <1>5, DecideRoutes
    <2>3. /\ \A q \in Sessions : q # s => routing'[q] = routing[q]
          /\ \A u \in Handlers \ {t} : view'[u] = view[u]
        BY <2>2, RoutingSwitches DEF RoutingTypes, StoreTypes
    <2>4. handling'[t].stage = "sent"
        BY <1>1, <1>5, AdvanceTypes DEF Decide, Stages
    <2> QED BY <1>3, <2>1, <2>3, <2>4 DEF Handles
<1>6. CASE GiveUp(t)
    <2>1. UNCHANGED states /\ view' = [view EXCEPT ![t] = Absent] /\ Advance(t, "refused")
        BY <1>6 DEF GiveUp
    <2>2. routing' = routing /\ RoutingHistory'
        BY <1>1, <2>1 DEF states, RoutingHistory
    <2>3. \A u \in Handlers \ {t} : view'[u] = view[u]
        BY <2>1, RoutingSwitches DEF RoutingTypes, StoreTypes
    <2>4. handling'[t].stage = "refused"
        BY <1>1, <2>1, AdvanceTypes DEF Stages
    <2> QED BY <1>3, <2>2, <2>3, <2>4 DEF Handles
<1>7. CASE Answer(t) \/ Fail(t) \/ BreakOff(t)
    <2>1. RoutingHistory' /\ view' = view /\ \A q \in Sessions : routing'[q] = routing[q]
        <3>1. CASE Answer(t)
            BY <1>1, <3>1, PostedEvents, PostKeepsRouting DEF Answer
        <3>2. CASE Fail(t)
            BY <1>1, <3>2, PostedEvents, PostKeepsRouting DEF Fail
        <3>3. CASE BreakOff(t)
            BY <1>1, <3>3 DEF BreakOff, storeVars, states, RoutingHistory
        <3> QED BY <1>7, <3>1, <3>2, <3>3
    <2>2. handling'[t] = Idle
        BY <1>1, <1>7, FinishTypes DEF Answer, Fail, BreakOff
    <2> QED BY <1>3, <2>1, <2>2 DEF Handles
<1> QED BY <1>4, <1>5, <1>6, <1>7 DEF Handle

LEMMA DowngradeStep ==
    ASSUME SerialClients, PredictorSpeaks, RoutingTypes, DowngradeInv, [RoutingNext]_routingVars
    PROVE  DowngradeInv'
<1>1. Exclusive'
    BY ExclusiveStep DEF DowngradeInv
<1>2. CASE UNCHANGED routingVars
    <2>1. RoutingHistory'
        BY <1>2 DEF routingVars, storeVars, states, DowngradeInv, RoutingHistory
    <2>2. \A u \in Handlers : Handles(u, "viewed")' => SeesRouting(u)'
        BY <1>2 DEF routingVars, storeVars, states, DowngradeInv, SeesRouting, Handles, RequestOf
    <2> QED BY <1>1, <2>1, <2>2 DEF DowngradeInv
<1>3. ASSUME NEW t \in Handlers, NEW r \in Requests, Receive(t, r)
      PROVE  RoutingHistory' /\ \A u \in Handlers : Handles(u, "viewed")' => SeesRouting(u)'
    <2>1. /\ handling'[t] = [request |-> r, stage |-> "received"]
          /\ \A u \in Handlers \ {t} : handling'[u] = handling[u]
        BY <1>3, ReceiveGrows
    <2>2. RoutingHistory' /\ view' = view /\ \A s \in Sessions : routing'[s] = routing[s]
        BY <1>3, PostedEvents, PostKeepsRouting, RoutingSwitches DEF Receive, DowngradeInv
    <2>3. ASSUME NEW u \in Handlers, Handles(u, "viewed")' PROVE SeesRouting(u)'
        <3>1. handling'[u].stage = "viewed"
            BY <2>3 DEF Handles
        <3>2. u # t /\ handling'[u] = handling[u]
            BY <2>1, <3>1
        <3>3. SeesRouting(u) /\ handling[u] # Idle
            BY <2>3, <3>2 DEF DowngradeInv, Handles
        <3>4. RequestOf(u).session \in Sessions
            BY <3>3, HandledRequest
        <3> QED BY <2>2, <3>2, <3>3, <3>4, StillSees
    <2> QED BY <2>2, <2>3
<1>4. ASSUME NEW t \in Handlers, Handle(t)
      PROVE  RoutingHistory' /\ \A u \in Handlers : Handles(u, "viewed")' => SeesRouting(u)'
    BY <1>4, ViewsStayCurrent
<1>5. ASSUME NEW t \in Threads \ Handlers, NEW e \in Events, Report(t, e)
      PROVE  RoutingHistory' /\ \A u \in Handlers : Handles(u, "viewed")' => SeesRouting(u)'
    <2>1. RoutingHistory' /\ view' = view /\ \A s \in Sessions : routing'[s] = routing[s]
        BY <1>5, PostKeepsRouting DEF Report, DowngradeInv, Offered
    <2>2. handling' = handling
        BY <1>5 DEF Report
    <2>3. ASSUME NEW u \in Handlers, Handles(u, "viewed")' PROVE SeesRouting(u)'
        <3>1. SeesRouting(u) /\ handling[u] # Idle
            BY <2>2, <2>3 DEF DowngradeInv, Handles
        <3>2. RequestOf(u).session \in Sessions
            BY <3>1, HandledRequest
        <3> QED BY <2>1, <2>2, <3>1, <3>2, StillSees
    <2> QED BY <2>1, <2>3
<1> QED BY <1>1, <1>2, <1>3, <1>4, <1>5 DEF RoutingNext, DowngradeInv

\* A model has one tier, whatever serves it, and no tier is none.
TiersAreOfModels ==
    /\ \A t, u \in Targets : t.model = u.model => t.tier = u.tier
    /\ TierRank(NoTarget) = 0

\* What DowngradesAreStable says of one session.
DowngradeIsStable(s) ==
    TierRank(routing'[s].tier) < TierRank(routing[s].tier) =>
        LET d == Last(routing'[s].decisions)
        IN \/ routing[s].stable >= Config.stable
           \/ d.guarded
           \/ routing[s].model \notin d.survivors

LEMMA DecideIsStable ==
    ASSUME PredictorSpeaks, TiersAreOfModels, RoutingTypes, DowngradeInv,
           NEW t \in Handlers, Decide(t), NEW s \in Sessions
    PROVE  DowngradeIsStable(s)
<1> DEFINE q == RequestOf(t).session
           d == Verdict(t)
           r == Routed(routing[q], view[t], Recorded(d))
           a == AskedView(view[t], RequestOf(t))
<1>0. \A tier : TierRank(tier) \in Nat
    BY DEF TierRank
<1>1. /\ q \in Sessions /\ d \in Verdicts /\ Stands(a, Targets, d) /\ SeesRouting(t)
      /\ routing' = [routing EXCEPT ![q] = r]
    BY DecideRoutes
<1>2. CASE s # q
    <2>1. routing'[s] = routing[s]
        BY <1>1, <1>2 DEF RoutingTypes, StoreTypes
    <2> QED BY <1>0, <2>1 DEF DowngradeIsStable
<1>3. CASE s = q
    <2>1. routing'[s] = r
        BY <1>1, <1>3 DEF RoutingTypes, StoreTypes
    <2>2. Last(r.decisions) = Recorded(d) /\ r.tier = d.target.tier
        <3>1. Recorded(d) \in Records /\ routing[q].decisions \in Seq(Records)
            BY <1>1 DEF Records, DowngradeInv, RoutingHistory
        <3>2. r.decisions = LastOf(Append(routing[q].decisions, Recorded(d)), MaxDecisions)
              /\ r.tier = Recorded(d).tier
            BY DEF Routed
        <3>3. Recorded(d).tier = d.target.tier
            BY DEF Recorded
        <3> QED BY <3>1, <3>2, <3>3, LastOfAppend
    <2>3. Recorded(d).guarded = d.guarded /\ Recorded(d).survivors = d.survivors
        BY DEF Recorded
    <2>4. a.model = routing[s].model /\ a.tier = routing[s].tier /\ a.stable = routing[s].stable
        <3>1. RequestOf(t) \in Requests
            BY HandledRequest DEF Decide, Handles
        <3> QED BY <1>1, <1>3, <3>1, AskedFields DEF SeesRouting
    <2>5. routing[s].stable \in Int /\ Config.stable \in Int
        BY ConfigAssumption DEF DowngradeInv, RoutingHistory
    <2>6. d.target \in Targets
        BY <1>1 DEF Verdicts
    <2> HIDE DEF a, d, r
    <2> SUFFICES ASSUME TierRank(d.target.tier) < TierRank(routing[s].tier)
                 PROVE  \/ routing[s].stable >= Config.stable
                        \/ d.guarded
                        \/ routing[s].model \notin d.survivors
        BY <2>1, <2>2, <2>3 DEF DowngradeIsStable
    <2>7. d.target.model # routing[s].model
        <3> SUFFICES ASSUME d.target.model = routing[s].model PROVE FALSE
            OBVIOUS
        <3>1. CASE routing[s].tier = NoTarget
            BY <3>1, <1>0 DEF TiersAreOfModels
        <3>2. ASSUME NEW u \in Targets, u.model = routing[s].model, u.tier = routing[s].tier
              PROVE  FALSE
            <4>1. d.target.tier = u.tier
                BY <3>2, <2>6 DEF TiersAreOfModels
            <4> QED BY <4>1, <3>2, <1>0
        <3> QED BY <3>1, <3>2 DEF DowngradeInv, RoutingHistory
    <2>8. PICK survivors : /\ d.survivors = {v.model : v \in survivors}
                           /\ d.guarded \/ d.target.model = a.model
                                        \/ ~ HoldsTier(a, d.target, survivors)
        BY <1>1 DEF Stands
    <2>9. ~ HoldsTier(a, d.target, survivors) =>
              routing[s].stable >= Config.stable \/ routing[s].model \notin d.survivors
        <3>1. TierRank(a.tier) > TierRank(d.target.tier)
            BY <2>4, <1>0
        <3> QED BY <3>1, <2>4, <2>5, <2>8 DEF HoldsTier
    <2> QED BY <2>4, <2>7, <2>8, <2>9
<1> QED BY <1>2, <1>3

LEMMA EveryStepIsStable ==
    ASSUME PredictorSpeaks, TiersAreOfModels, RoutingTypes, DowngradeInv,
           [RoutingNext]_routingVars, NEW s \in Sessions
    PROVE  DowngradeIsStable(s)
<1>0. \A tier : TierRank(tier) \in Nat
    BY DEF TierRank
<1>1. CASE routing'[s] = routing[s]
    BY <1>0, <1>1 DEF DowngradeIsStable
<1>2. CASE UNCHANGED routingVars
    BY <1>1, <1>2 DEF routingVars, storeVars, states
<1>3. ASSUME NEW t \in Handlers, NEW r \in Requests, Receive(t, r) PROVE routing'[s] = routing[s]
    BY <1>3, PostedEvents, PostKeepsRouting, RoutingSwitches DEF Receive, DowngradeInv
<1>4. ASSUME NEW t \in Handlers, Handle(t), ~ Decide(t) PROVE routing'[s] = routing[s]
    <2>1. t \in Threads /\ RequestOf(t) \in Requests
        BY <1>4, HandleGrows, HandledRequest
    <2>2. CASE ReadView(t) \/ GiveUp(t) \/ BreakOff(t)
        BY <2>2 DEF ReadView, GetSchedulingView, GiveUp, BreakOff, storeVars, states
    <2>3. CASE Answer(t)
        BY <2>1, <2>3, PostedEvents, PostKeepsRouting DEF Answer, DowngradeInv
    <2>4. CASE Fail(t)
        BY <2>1, <2>4, PostedEvents, PostKeepsRouting DEF Fail, DowngradeInv
    <2> QED BY <1>4, <2>2, <2>3, <2>4 DEF Handle
<1>5. ASSUME NEW t \in Threads \ Handlers, NEW e \in Events, Report(t, e)
      PROVE  routing'[s] = routing[s]
    BY <1>5, PostKeepsRouting DEF Report, DowngradeInv, Offered
<1> QED BY <1>1, <1>2, <1>3, <1>4, <1>5, DecideIsStable DEF RoutingNext

LEMMA DowngradeInvHolds ==
    ASSUME SerialClients, PredictorSpeaks
    PROVE  RoutingSpec => []DowngradeInv
<1>1. RoutingInit => DowngradeInv
    <2> SUFFICES ASSUME RoutingInit PROVE DowngradeInv
        OBVIOUS
    <2>1. RoutingHistory
        <3>1. /\ NewRouting.stable = 0 /\ NewRouting.decisions = <<>>
              /\ NewRouting.tier = NoTarget
            BY DEF NewRouting
        <3>2. <<>> \in Seq(Records)
            BY EmptySeq
        <3>3. \A s \in Sessions : routing[s] = NewRouting
            BY DEF RoutingInit, Init
        <3>4. 0 \in Int
            OBVIOUS
        <3>5. NewRouting.stable \in Int /\ NewRouting.decisions \in Seq(Records)
            BY <3>1, <3>2, <3>4, Zenon
        <3> HIDE DEF NewRouting
        <3> QED BY <3>1, <3>3, <3>5, Zenon DEF RoutingHistory
    <2>2. \A t \in Handlers : handling[t] = Idle
        BY DEF RoutingInit
    <2> QED BY <2>1, <2>2 DEF DowngradeInv, Exclusive, Handles
<1>2. RoutingTypes /\ DowngradeInv /\ [RoutingNext]_routingVars => DowngradeInv'
    BY DowngradeStep
<1> QED BY <1>1, <1>2, RoutingTypeCorrect, PTL DEF RoutingSpec

\* While a session's client waits for each answer, the session leaves a tier
\* for a lower one only after the stable window, guarded, or when its model is
\* no longer a choice: no decision is made from a view that another decision
\* has made stale (_should_hold_tier, record_routing_decision).
THEOREM DowngradesAreEarned ==
    ASSUME SerialClients, PredictorSpeaks, TiersAreOfModels
    PROVE  RoutingSpec => DowngradesAreStable
<1>1. RoutingTypes /\ DowngradeInv /\ [RoutingNext]_routingVars =>
          [\A s \in Sessions :
              TierRank(routing'[s].tier) < TierRank(routing[s].tier) =>
                  LET d == Last(routing'[s].decisions)
                  IN \/ routing[s].stable >= Config.stable
                     \/ d.guarded
                     \/ routing[s].model \notin d.survivors]_routingVars
    BY EveryStepIsStable DEF DowngradeIsStable
<1> QED BY <1>1, RoutingTypeCorrect, DowngradeInvHolds, PTL DEF RoutingSpec, DowngradesAreStable

(***************************************************************************)
(* What an event leaves alone                                              *)
(***************************************************************************)
Watched == {"required", "models", "budget", "severity"}

IsSections(q) == DOMAIN q = DOMAIN NewSections /\ q.severity \in Int

\* Constraints are kept and severity is not lowered.
Kept(q, p) ==
    /\ IsSections(p)
    /\ p.required = q.required /\ p.models = q.models /\ p.budget = q.budget
    /\ p.severity >= q.severity

\* An event that sends no constraints and patches none, nor the severity.
Quiet(e) ==
    /\ ~ Has(e, "constraints")
    /\ Watched \cap DOMAIN Sent(e, "patch", <<>>) = {}
    /\ Watched \cap DOMAIN Sent(e, "context", <<>>) = {}
    /\ Sent(e, "severity", 0) \in Int

LEMMA WatchedFields == Watched \subseteq DOMAIN NewSections /\ "total" \in DOMAIN NewSections
BY DEF Watched, NewSections

LEMMA KeptSelf ==
    ASSUME NEW q, IsSections(q)
    PROVE  Kept(q, q)
BY DEF Kept, IsSections

LEMMA KeptTrans ==
    ASSUME NEW q, NEW p, NEW o, IsSections(q), Kept(q, p), Kept(p, o)
    PROVE  Kept(q, o)
BY DEF Kept, IsSections

\* An assignment to a field that is not watched.
LEMMA KeptPut ==
    ASSUME NEW q, IsSections(q), NEW f, f \notin Watched, NEW x
    PROVE  Kept(q, [q EXCEPT ![f] = x])
<1>1. Watched \subseteq DOMAIN q
    BY WatchedFields DEF IsSections
<1>2. "required" # f /\ "models" # f /\ "budget" # f /\ "severity" # f
    BY DEF Watched
<1> QED BY <1>1, <1>2 DEF Kept, IsSections, Watched

LEMMA KeptPhase ==
    ASSUME NEW q, IsSections(q), NEW phase, NEW runnable
    PROVE  Kept(q, InPhase(q, phase, runnable))
<1>1. Kept(q, [q EXCEPT !["phase"] = phase])
    BY KeptPut DEF Watched
<1>2. Kept([q EXCEPT !["phase"] = phase],
           [[q EXCEPT !["phase"] = phase] EXCEPT !["runnable"] = runnable])
    BY <1>1, KeptPut DEF Watched, Kept
<1> QED BY <1>1, <1>2, KeptTrans DEF InPhase

LEMMA KeptOverlay ==
    ASSUME NEW q, IsSections(q), NEW patch, Watched \cap DOMAIN patch = {}
    PROVE  Kept(q, Overlaid(q, patch))
<1>1. Watched \subseteq DOMAIN q
    BY WatchedFields DEF IsSections
<1> QED BY <1>1 DEF Kept, IsSections, Overlaid, Watched

LEMMA KeptContext ==
    ASSUME NEW q, IsSections(q), NEW patch, Watched \cap DOMAIN patch = {}
    PROVE  Kept(q, ContextPatched(q, patch))
<1>1. Kept(q, Overlaid(q, patch))
    BY KeptOverlay
<1>2. Kept(Overlaid(q, patch), [Overlaid(q, patch) EXCEPT !["total"] = AtLeast(@, Overlaid(q, patch).prompt)])
    BY <1>1, KeptPut DEF Watched, Kept
<1> QED BY <1>1, <1>2, KeptTrans DEF ContextPatched

LEMMA KeptProgress ==
    ASSUME NEW q, IsSections(q), NEW percent
    PROVE  Kept(q, Progressed(q, percent))
<1>1. Watched \subseteq DOMAIN q
    BY WatchedFields DEF IsSections
<1> QED BY <1>1 DEF Progressed, Kept, IsSections, Watched

LEMMA KeptFailed ==
    ASSUME NEW q, IsSections(q), NEW e, Quiet(e)
    PROVE  Kept(q, Failed(q, e))
<1>1. Watched \subseteq DOMAIN q
    BY WatchedFields DEF IsSections
<1> DEFINE counted == [q EXCEPT !.retries = @ + 1, !.streak = @ + 1]
           worse == [counted EXCEPT
                        !.severity = AtLeast(@, Clamped(Sent(e, "severity", 0))),
                        !.critical = Sent(e, "critical", FALSE),
                        !.failures = counted.streak]
<1>2. Kept(q, counted)
    BY <1>1 DEF Kept, IsSections, Watched
<1>3. AtLeast(counted.severity, Clamped(Sent(e, "severity", 0))) \in Int
      /\ AtLeast(counted.severity, Clamped(Sent(e, "severity", 0))) >= counted.severity
    <2>1. Clamped(Sent(e, "severity", 0)) \in Int /\ counted.severity \in Int
        BY <1>2 DEF Clamped, Quiet, Kept, IsSections
    <2> HIDE DEF counted
    <2> QED BY <2>1 DEF AtLeast
<1> HIDE DEF counted
<1>4. Kept(counted, worse)
    BY <1>1, <1>2, <1>3 DEF Kept, IsSections, Watched
<1> HIDE DEF worse
<1>5. Kept(q, worse)
    BY <1>2, <1>4, KeptTrans
<1>6. Kept(q, InPhase(worse, "REPLANNING", TRUE))
    BY <1>5, KeptPhase, KeptTrans DEF Kept
<1> QED BY <1>2, <1>6 DEF Failed, counted, worse

LEMMA KeptRequest ==
    ASSUME NEW q, IsSections(q), NEW e, Quiet(e)
    PROVE  Kept(q, Requested(q, e))
<1> DEFINE queued == InPhase(q, "MODEL_QUEUED", TRUE)
           tokens == AtLeast(Sent(e, "prompt", 0), 0)
           asked  == IF Has(e, "prompt")
                     THEN [queued EXCEPT !.prompt = tokens, !.total = AtLeast(@, tokens)]
                     ELSE queued
           grown  == IF Has(e, "context")
                     THEN ContextPatched(asked, e.payload.context) ELSE asked
<1>1. Kept(q, queued)
    BY KeptPhase
<1>2. IsSections(queued) /\ Watched \subseteq DOMAIN queued
    BY <1>1, WatchedFields DEF Kept, IsSections
<1> HIDE DEF queued, tokens
<1>3. Kept(queued, asked)
    BY <1>2, KeptSelf DEF Kept, IsSections, Watched
<1>4. Kept(q, asked) /\ IsSections(asked)
    BY <1>1, <1>3, KeptTrans DEF Kept
<1> HIDE DEF asked
<1>5. Kept(asked, grown)
    BY <1>4, KeptSelf, KeptContext DEF Quiet, Sent, Has
<1>6. Kept(q, grown) /\ IsSections(grown)
    BY <1>4, <1>5, KeptTrans DEF Kept
<1> HIDE DEF grown
<1>7. Kept(grown, Constrained(grown, e))
    <2>1. Constrained(grown, e) = Overlaid(grown, <<>>) /\ DOMAIN <<>> = {}
        BY DEF Constrained, Sent, Quiet
    <2> QED BY <2>1, <1>6, KeptOverlay
<1>8. Kept(q, Constrained(grown, e))
    BY <1>6, <1>7, KeptTrans
<1>9. Requested(q, e) = queued \/ Requested(q, e) = Constrained(grown, e)
    BY DEF Requested, queued, tokens, asked, grown
<1> QED BY <1>1, <1>8, <1>9

LEMMA KeptResponse ==
    ASSUME NEW q, IsSections(q), NEW e, Quiet(e)
    PROVE  Kept(q, Responded(q, e))
<1> DEFINE grown  == [q EXCEPT !.total = @ + AtLeast(Sent(e, "output", 0), 0)]
           moved  == IF Has(e, "progress")
                     THEN Progressed(grown, e.payload.progress) ELSE grown
           next   == Sent(e, "next", "")
           done   == [moved EXCEPT !.progress = 100]
           placed == IF next = "TERMINATE" THEN InPhase(done, "COMPLETED", FALSE)
                     ELSE IF next = "TOOL" THEN InPhase(moved, "TOOL_PREPARING", FALSE)
                     ELSE InPhase(moved, "PLANNING", TRUE)
           cleared == [placed EXCEPT !.streak = 0, !.failures = 0]
<1>0. Watched \subseteq DOMAIN q
    BY WatchedFields DEF IsSections
<1>1. Kept(q, grown)
    BY <1>0 DEF Kept, IsSections, Watched
<1>2. IsSections(grown)
    BY <1>1 DEF Kept
<1> HIDE DEF grown
<1>3. Kept(grown, moved)
    BY <1>2, KeptSelf, KeptProgress
<1>4. Kept(q, moved) /\ IsSections(moved)
    BY <1>1, <1>3, KeptTrans DEF Kept
<1> HIDE DEF moved, next
<1>5. Kept(moved, done) /\ IsSections(done)
    BY <1>4, WatchedFields DEF Kept, IsSections, Watched
<1> HIDE DEF done
<1>6. Kept(moved, placed)
    <2>1. \A phase, runnable : Kept(moved, InPhase(moved, phase, runnable))
        BY <1>4, KeptPhase
    <2>2. Kept(done, InPhase(done, "COMPLETED", FALSE))
        BY <1>5, KeptPhase
    <2> QED BY <2>1, <2>2, <1>4, <1>5, KeptTrans
<1>7. Kept(q, placed) /\ IsSections(placed)
    BY <1>4, <1>6, KeptTrans DEF Kept
<1> HIDE DEF placed
<1>8. Kept(placed, cleared)
    BY <1>7, WatchedFields DEF Kept, IsSections, Watched
<1> HIDE DEF cleared
<1>9. Kept(q, cleared) /\ Kept(q, Failed(placed, e))
    BY <1>7, <1>8, KeptFailed, KeptTrans
<1>10. Responded(q, e) \in {q, grown, cleared, Failed(placed, e)}
    BY DEF Responded, grown, moved, next, done, placed, cleared
<1> QED BY <1>1, <1>9, <1>10, KeptSelf

LEMMA KeptTools ==
    ASSUME NEW q, IsSections(q), NEW tools, NEW last, NEW phase, NEW runnable
    PROVE  /\ Kept(q, [q EXCEPT !.tools = tools])
           /\ Kept(q, InPhase([q EXCEPT !.tools = tools, !.lastTool = last], phase, runnable))
<1>0. Watched \subseteq DOMAIN q
    BY WatchedFields DEF IsSections
<1> DEFINE p == [q EXCEPT !.tools = tools, !.lastTool = last]
<1>1. Kept(q, [q EXCEPT !.tools = tools]) /\ Kept(q, p)
    BY <1>0 DEF Kept, IsSections, Watched
<1> HIDE DEF p
<1>2. Kept(q, InPhase(p, phase, runnable))
    BY <1>1, KeptPhase, KeptTrans DEF Kept
<1> QED BY <1>1, <1>2 DEF p

LEMMA KeptToolEvents ==
    ASSUME NEW q, IsSections(q), NEW e
    PROVE  /\ Kept(q, ToolStarted(q, e))
           /\ Kept(q, ToolProgressed(q, e))
           /\ Kept(q, ToolReturned(q, e))
<1>1. Kept(q, ToolStarted(q, e))
    BY KeptTools DEF ToolStarted
<1>2. Kept(q, ToolProgressed(q, e))
    <2> DEFINE meant == ToolMeant(q, e)
               status == Sent(e, "status", meant.tool.status)
               tools == WithTool(q.tools, meant.place, [meant.tool EXCEPT !.status = status])
               tracked == [q EXCEPT !.tools = tools]
               moved == IF Has(e, "progress")
                        THEN Progressed(tracked, e.payload.progress) ELSE tracked
    <2>1. Kept(q, tracked) /\ IsSections(tracked)
        BY KeptTools DEF Kept
    <2> HIDE DEF tracked, status
    <2>2. Kept(tracked, moved) /\ IsSections(moved)
        BY <2>1, KeptSelf, KeptProgress DEF Kept
    <2> HIDE DEF moved
    <2>3. \A phase : Kept(q, InPhase(moved, phase, FALSE))
        BY <2>1, <2>2, KeptPhase, KeptTrans
    <2>4. ToolProgressed(q, e) = tracked
          \/ \E phase : ToolProgressed(q, e) = InPhase(moved, phase, FALSE)
        BY DEF ToolProgressed, tracked, moved, status
    <2> QED BY <2>1, <2>3, <2>4
<1>3. Kept(q, ToolReturned(q, e))
    <2> DEFINE meant == ToolMeant(q, e)
               status == Sent(e, "status", "RESULT_READY")
               tools == WithTool(q.tools, meant.place, [meant.tool EXCEPT !.status = status])
               returned == [q EXCEPT !.tools = tools]
               total == q.total + AtLeast(Sent(e, "tokens", 0), 0)
               filled == [returned EXCEPT !.total = total, !.prompt = AtLeast(@, total)]
    <2>1. Kept(q, returned) /\ IsSections(returned)
        BY KeptTools DEF Kept
    <2> HIDE DEF returned, total
    <2>2. Kept(returned, filled)
        BY <2>1, WatchedFields DEF Kept, IsSections, Watched
    <2> HIDE DEF filled
    <2>3. Kept(q, InPhase(filled, "TOOL_RESULT_READY", TRUE))
        BY <2>1, <2>2, KeptPhase, KeptTrans DEF Kept
    <2>4. ToolReturned(q, e) \in {returned, InPhase(filled, "TOOL_RESULT_READY", TRUE)}
        BY DEF ToolReturned, returned, filled, total, status
    <2> QED BY <2>1, <2>3, <2>4
<1> QED BY <1>1, <1>2, <1>3

LEMMA KeptPatch ==
    ASSUME NEW q, IsSections(q), NEW e, Quiet(e)
    PROVE  Kept(q, Patched(q, e))
BY KeptOverlay, KeptContext DEF Patched, Quiet

LEMMA KeptEffect ==
    ASSUME NEW q, IsSections(q), NEW e, Quiet(e)
    PROVE  Kept(q, Effect(q, e))
<1> DEFINE patched == Patched(q, e)
           turned == [patched EXCEPT !.turn = e.turn]
           compacted == [patched EXCEPT !.compaction = FALSE]
           done == [q EXCEPT !.progress = 100]
<1>1. Kept(q, patched) /\ IsSections(patched)
    BY KeptPatch DEF Kept
<1> HIDE DEF patched
<1>2. Kept(patched, turned) /\ Kept(patched, compacted) /\ Kept(q, done)
    BY <1>1, WatchedFields DEF Kept, IsSections, Watched
<1>3. Kept(q, turned) /\ Kept(q, compacted)
    BY <1>1, <1>2, KeptTrans
<1> HIDE DEF turned, compacted, done
<1>4. \A phase, runnable : /\ Kept(q, InPhase(q, phase, runnable))
                           /\ Kept(q, InPhase(turned, phase, runnable))
                           /\ Kept(q, InPhase(done, phase, runnable))
    BY <1>2, <1>3, KeptPhase, KeptTrans DEF Kept
<1>5. \/ Effect(q, e) \in {patched, compacted, Requested(q, e), Responded(q, e), Failed(q, e),
                          ToolStarted(q, e), ToolProgressed(q, e), ToolReturned(q, e)}
      \/ \E phase, runnable : Effect(q, e) \in {InPhase(q, phase, runnable),
                InPhase(turned, phase, runnable), InPhase(done, phase, runnable)}
    BY DEF Effect, patched, turned, compacted, done
<1> QED BY <1>1, <1>3, <1>4, <1>5, KeptRequest, KeptResponse, KeptFailed, KeptToolEvents

\* Every quiet event keeps constraints and severity, whatever its type.
LEMMA KeptApplied ==
    ASSUME NEW q, IsSections(q), NEW e, Quiet(e)
    PROVE  Kept(q, Applied(q, e))
<1> DEFINE p == Effect(q, e)
           turned == [p EXCEPT !.turn = AtLeast(@, e.turn)]
<1>1. Kept(q, p) /\ IsSections(p)
    BY KeptEffect DEF Kept
<1> HIDE DEF p
<1>2. Kept(p, turned)
    BY <1>1, WatchedFields DEF Kept, IsSections, Watched
<1>3. Kept(q, turned)
    BY <1>1, <1>2, KeptTrans
<1> HIDE DEF turned
<1>4. Applied(q, e) \in {p, turned}
    BY DEF Applied, p, turned
<1> QED BY <1>1, <1>3, <1>4

(***************************************************************************)
(* Constraints and failures                                                *)
(***************************************************************************)
\* Harnesses leave the constraints to the gateway and report severities as
\* numbers; what else they report, and which epochs they begin, is theirs.
HarnessesAreQuiet == \A e \in Events : Quiet(e)

LEMMA AnswerIsQuiet ==
    ASSUME NEW r \in Requests
    PROVE  Quiet(AnsweredEvent(r)) /\ Quiet(FailedEvent(r))
           /\ AnsweredEvent(r).type = "MODEL_RESPONSE" /\ FailedEvent(r).type = "FAILED"
<1>1. DOMAIN <<>> = {}
    OBVIOUS
<1> QED BY <1>1 DEF Quiet, Has, Sent, AnsweredEvent, FailedEvent, EventOf

LEMMA NewIsSections == IsSections(NewSections)
BY DEF IsSections, NewSections

\* _apply_model_request puts the request's constraints into the state.
LEMMA RequestApplied ==
    ASSUME NEW q, IsSections(q), NEW r \in Requests, ~ Raises(RequestedEvent(r))
    PROVE  LET p == Applied(q, RequestedEvent(r)) IN
           /\ IsSections(p)
           /\ p.models = r.models /\ p.required = r.required
           /\ p.severity >= q.severity
<1> DEFINE e == RequestedEvent(r)
           sent == e.payload.constraints
           queued == InPhase(q, "MODEL_QUEUED", TRUE)
           tokens == AtLeast(Sent(e, "prompt", 0), 0)
           asked == [queued EXCEPT !.prompt = tokens, !.total = AtLeast(@, tokens)]
           laid == Overlaid(asked, sent)
           p == [laid EXCEPT !.turn = AtLeast(@, e.turn)]
<1>1. /\ e.type = "MODEL_REQUESTED" /\ Has(e, "prompt") /\ ~ Has(e, "context")
      /\ Has(e, "constraints")
    BY DEF RequestedEvent, EventOf, Has
<1>2. /\ {"required", "models"} \subseteq DOMAIN sent /\ "severity" \notin DOMAIN sent
      /\ sent["required"] = r.required /\ sent["models"] = r.models
    BY DEF RequestedEvent, EventOf
<1>3. ~ IsMalformed(e, "prompt")
    BY <1>1 DEF Raises, Converts
<1> HIDE DEF e
<1>4. Applied(q, e) = p
    <2>1. Requested(q, e) = Constrained(asked, e)
        BY <1>1, <1>3 DEF Requested
    <2>2. Constrained(asked, e) = laid
        BY <1>1 DEF Constrained, Sent
    <2>3. Effect(q, e) = Requested(q, e)
        BY <1>1 DEF Effect
    <2> HIDE DEF asked, laid
    <2> QED BY <2>1, <2>2, <2>3 DEF Applied, e
<1> HIDE DEF sent
<1>5. Kept(q, queued) /\ IsSections(queued)
    BY KeptPhase DEF Kept
<1> HIDE DEF queued, tokens
<1>6. Kept(queued, asked) /\ IsSections(asked)
    BY <1>5, WatchedFields DEF Kept, IsSections, Watched
<1> HIDE DEF asked
<1>7. /\ IsSections(laid) /\ laid.severity = asked.severity
      /\ laid.models = r.models /\ laid.required = r.required
    BY <1>2, <1>6, WatchedFields DEF Overlaid, IsSections, Watched
<1> HIDE DEF laid
<1>8. Kept(laid, p)
    BY <1>7, WatchedFields DEF Kept, IsSections, Watched
<1> HIDE DEF p
<1>9. IsSections(p) /\ p.models = r.models /\ p.required = r.required /\ p.severity >= laid.severity
    BY <1>7, <1>8 DEF Kept
<1>10. p.severity >= q.severity
    BY <1>5, <1>6, <1>7, <1>9 DEF Kept, IsSections
<1> QED BY <1>4, <1>9, <1>10 DEF e

\* A failure as severe as the gateway's leaves a severity of at least 80.
LEMMA FailureApplied ==
    ASSUME NEW q, IsSections(q), NEW e, e.type = "FAILED", ~ Raises(e),
           Sent(e, "severity", 0) \in Int, Sent(e, "severity", 0) >= 80
    PROVE  Applied(q, e).severity >= 80
<1> DEFINE counted == [q EXCEPT !.retries = @ + 1, !.streak = @ + 1]
           worse == [counted EXCEPT
                        !.severity = AtLeast(@, Clamped(Sent(e, "severity", 0))),
                        !.critical = Sent(e, "critical", FALSE),
                        !.failures = counted.streak]
           fails == InPhase(worse, "REPLANNING", TRUE)
           p == [fails EXCEPT !.turn = AtLeast(@, e.turn)]
<1>2. ~ IsMalformed(e, "severity")
    BY DEF Raises, Converts
<1>3. Applied(q, e) = p
    <2>1. Failed(q, e) = fails
        BY <1>2 DEF Failed
    <2>2. Effect(q, e) = Failed(q, e)
        BY DEF Effect
    <2> HIDE DEF fails
    <2> QED BY <2>1, <2>2 DEF Applied
<1>4. Kept(q, counted) /\ IsSections(counted)
    BY WatchedFields DEF Kept, IsSections, Watched
<1> HIDE DEF counted
<1>5. Clamped(Sent(e, "severity", 0)) \in Int /\ Clamped(Sent(e, "severity", 0)) >= 80
    BY DEF Clamped
<1> DEFINE sent == Clamped(Sent(e, "severity", 0))
<1> HIDE DEF sent
<1>6. IsSections(worse) /\ worse.severity >= 80
    BY <1>4, <1>5, WatchedFields DEF AtLeast, IsSections, Watched
<1> HIDE DEF worse
<1>7. Kept(worse, fails) /\ IsSections(fails)
    BY <1>6, KeptPhase DEF Kept
<1> HIDE DEF fails
<1>8. Kept(fails, p)
    BY <1>7, WatchedFields DEF Kept, IsSections, Watched
<1> HIDE DEF p
<1>9. p.severity >= 80
    BY <1>6, <1>7, <1>8 DEF Kept, IsSections
<1> QED BY <1>3, <1>9

\* The request of a session the state was told of last, if any.
LastOfSession(s) == {q \in Requests : q.session = s /\ LastTold(q, Len(log))}

\* Sections or a view say what the requests R asked for, or nothing.
Shows(q, R) ==
    /\ \A r \in R : q.models = r.models /\ q.required = r.required
    /\ R = {} => q.models = {} /\ q.required = {}

\* The sections of every session: its constraints are those of the last request
\* the state was told of.
SectionsSound ==
    \A s \in Sessions :
        /\ IsSections(sections[s])
        /\ header[s] = Absent => sections[s] = NewSections
        /\ Shows(sections[s], LastOfSession(s))

FailureLogged(s) ==
    \E i \in DOMAIN log : log[i].event.session = s /\ log[i].event.type = "FAILED"

\* The failures in the log are the gateway's, and critical_override heeds their
\* severity.  One that a harness reports between a thread's view and its decision
\* would come too late for that decision.
FailuresAreHeeded ==
    /\ \A e \in Events : e.type # "FAILED"
    /\ Config.severity \in Int /\ Config.severity <= 80

FailuresRemembered ==
    FailuresAreHeeded =>
        \A s \in Sessions : FailureLogged(s) => sections[s].severity >= 80

\* Targets that a request can only be kept from by what it asks for.
TargetsAreOpen ==
    \A u \in Targets :
        /\ u.ready
        /\ Unreported.domains = {} \/ u.domain \in Unreported.domains
        /\ u.requiresRemote => Unreported.remoteAllowed

\* Between its request and its decision a thread finds the constraints in force:
\* no request of the session came after its own.
Asks(t) ==
    LET r == RequestOf(t) IN InForce(r, Len(log)) = LastOfSession(r.session)

Sees(t) ==
    LET r == RequestOf(t) IN
    /\ DOMAIN view[t] = ViewFields /\ view[t].session = r.session
    /\ Shows(view[t], InForce(r, Len(log)))
    /\ view[t].budget = sections[r.session].budget /\ view[t].severity \in Int
    /\ FailuresAreHeeded /\ FailureLogged(r.session) => view[t].severity >= 80

Refuses(t) ==
    LET r == RequestOf(t) IN
    TargetsAreOpen /\ sections[r.session].budget = {} => \A u \in Targets : ~ Meets(u, r, Len(log))

Agrees(t) ==
    /\ Handles(t, "received") => Asks(t)
    /\ Handles(t, "viewed") => Sees(t)
    /\ Handles(t, "refused") => Refuses(t)

ChosenSoFar == [request : Requests, target : Targets, eligible : SUBSET Targets, logged : Nat]

ChoiceIsSound(c) ==
    /\ Meets(c.target, c.request, c.logged)
    /\ c.logged \in 0..Len(log)
    /\ FailuresAreHeeded /\ FailedBefore(c)
           => IsCapable(c.target) \/ \A t \in c.eligible : ~ IsCapable(t)

ChoicesAreSound ==
    /\ chosen \in Seq(ChosenSoFar)
    /\ \A i \in DOMAIN chosen : ChoiceIsSound(chosen[i])

ConstraintInv ==
    /\ Exclusive /\ SectionsSound /\ FailuresRemembered /\ ChoicesAreSound
    /\ \A t \in Handlers : Agrees(t)

(***************************************************************************)
(* What an event does to the sessions                                      *)
(***************************************************************************)
LEMMA SectionsAreCurrent ==
    ASSUME SectionsSound, NEW s \in Sessions
    PROVE  Sections(s) = sections[s]
BY DEF SectionsSound, Sections

LEMMA FailureLoggedNow ==
    ASSUME StoreTypes, NEW entry \in [event : Offered, order : Orders],
           log' = Append(log, entry), NEW s
    PROVE  FailureLogged(s)' =>
               FailureLogged(s) \/ (entry.event.session = s /\ entry.event.type = "FAILED")
<1> SUFFICES ASSUME FailureLogged(s)'
             PROVE  FailureLogged(s) \/ (entry.event.session = s /\ entry.event.type = "FAILED")
    OBVIOUS
<1>1. /\ Len(log') = Len(log) + 1 /\ Len(log) \in Nat
      /\ DOMAIN log = 1..Len(log) /\ DOMAIN log' = 1..Len(log')
      /\ \A i \in 1..Len(log) : log'[i] = log[i]
      /\ log'[Len(log) + 1] = entry
    BY AppendProperties, LenProperties DEF StoreTypes
<1>2. PICK i \in DOMAIN log' : log'[i].event.session = s /\ log'[i].event.type = "FAILED"
    BY DEF FailureLogged
<1>3. CASE i = Len(log) + 1
    BY <1>1, <1>2, <1>3
<1>4. CASE i # Len(log) + 1
    <2>1. i \in DOMAIN log /\ log'[i] = log[i]
        BY <1>1, <1>2, <1>4
    <2> QED BY <1>2, <2>1 DEF FailureLogged
<1> QED BY <1>3, <1>4

\* What is in force by a place in the log depends on the log up to there.
LEMMA InForceOfPrefix ==
    ASSUME NEW r, NEW n \in Nat, \A i \in 1..n : log'[i] = log[i]
    PROVE  /\ InForce(r, n)' = InForce(r, n)
           /\ \A q : LastTold(q, n)' <=> LastTold(q, n)
<1>1. Told(r, n)' <=> Told(r, n)
    BY DEF Told
<1>2. ASSUME NEW q PROVE LastTold(q, n)' <=> LastTold(q, n)
    <2>1. \A i \in 1..n : \A j \in (i + 1)..n : log'[j] = log[j]
        OBVIOUS
    <2> QED BY <2>1 DEF LastTold
<1> QED BY <1>1, <1>2 DEF InForce

\* An event that is no request of a session leaves what it was told of last.
LEMMA ToldNothing ==
    ASSUME StoreTypes, NEW entry \in [event : Offered, order : Orders],
           log' = Append(log, entry), NEW s,
           \A p \in Requests : p.session = s => entry.event # RequestedEvent(p)
    PROVE  /\ LastOfSession(s)' = LastOfSession(s)
           /\ \A r \in Requests : r.session = s => InForce(r, Len(log))' = InForce(r, Len(log))
<1>1. /\ Len(log') = Len(log) + 1 /\ Len(log) \in Nat
      /\ \A i \in 1..Len(log) : log'[i] = log[i]
      /\ log'[Len(log) + 1] = entry
    BY AppendProperties, LenProperties DEF StoreTypes
<1> DEFINE n == Len(log)
<1>2. ASSUME NEW q \in Requests, q.session = s
      PROVE  /\ Told(q, n)' <=> Told(q, n)
             /\ LastTold(q, n)' <=> LastTold(q, n)
    <2>1. Told(q, n)' <=> Told(q, n)
        BY <1>1, <1>2 DEF Told
    <2>2. ASSUME LastTold(q, n) PROVE LastTold(q, n)'
        <3>1. PICK i \in 1..n : /\ log[i].event = RequestedEvent(q)
                                /\ \A j \in (i + 1)..n, p \in Requests :
                                      p.session = q.session => log[j].event # RequestedEvent(p)
            BY <2>2 DEF LastTold
        <3>2. i \in 1..Len(log') /\ log'[i].event = RequestedEvent(q)
            BY <1>1, <3>1
        <3>3. ASSUME NEW j \in (i + 1)..Len(log'), NEW p \in Requests, p.session = q.session
              PROVE  log'[j].event # RequestedEvent(p)
            <4>1. CASE j = n + 1
                BY <1>1, <1>2, <3>3, <4>1
            <4>2. CASE j # n + 1
                <5>1. j \in (i + 1)..n /\ log'[j] = log[j]
                    BY <1>1, <3>1, <4>2
                <5> QED BY <3>1, <3>3, <5>1
            <4> QED BY <4>1, <4>2
        <3> QED BY <3>2, <3>3 DEF LastTold
    <2>3. ASSUME LastTold(q, n)' PROVE LastTold(q, n)
        <3>1. PICK i \in 1..Len(log') :
                 /\ log'[i].event = RequestedEvent(q)
                 /\ \A j \in (i + 1)..Len(log'), p \in Requests :
                       p.session = q.session => log'[j].event # RequestedEvent(p)
            BY <2>3 DEF LastTold
        <3>2. i # n + 1
            BY <1>1, <1>2, <3>1
        <3>3. i \in 1..n /\ log[i].event = RequestedEvent(q)
            BY <1>1, <3>1, <3>2
        <3>4. ASSUME NEW j \in (i + 1)..n, NEW p \in Requests, p.session = q.session
              PROVE  log[j].event # RequestedEvent(p)
            <4>1. j \in (i + 1)..Len(log') /\ log'[j] = log[j]
                BY <1>1, <3>3
            <4> QED BY <3>1, <3>4, <4>1
        <3> QED BY <3>3, <3>4 DEF LastTold
    <2> QED BY <2>1, <2>2, <2>3
<1> HIDE DEF n
<1>3. LastOfSession(s)' = LastOfSession(s)
    BY <1>2 DEF LastOfSession, n
<1>4. ASSUME NEW r \in Requests, r.session = s
      PROVE  InForce(r, Len(log))' = InForce(r, Len(log))
    BY <1>2, <1>4 DEF InForce, n
<1> QED BY <1>3, <1>4

\* After a request's event it is the one its session was told of last.
LEMMA ToldNow ==
    ASSUME StoreTypes, NEW r \in Requests, NEW entry \in [event : Offered, order : Orders],
           log' = Append(log, entry), entry.event = RequestedEvent(r)
    PROVE  LastOfSession(r.session)' = {r} /\ InForce(r, Len(log))' = {r}
<1>1. /\ Len(log') = Len(log) + 1 /\ Len(log) \in Nat
      /\ log'[Len(log) + 1] = entry
    BY AppendProperties, LenProperties DEF StoreTypes
<1>2. Told(r, Len(log))' /\ LastTold(r, Len(log))'
    <2>1. Len(log') \in 1..Len(log') /\ (Len(log') + 1)..Len(log') = {}
        BY <1>1
    <2> QED BY <1>1, <2>1 DEF Told, LastTold
<1>3. ASSUME NEW q \in Requests, q.session = r.session, LastTold(q, Len(log))'
      PROVE  q = r
    <2>1. PICK i \in 1..Len(log') :
             /\ log'[i].event = RequestedEvent(q)
             /\ \A j \in (i + 1)..Len(log'), p \in Requests :
                   p.session = q.session => log'[j].event # RequestedEvent(p)
        BY <1>3 DEF LastTold
    <2>2. i = Len(log')
        <3> SUFFICES ASSUME i # Len(log') PROVE FALSE
            OBVIOUS
        <3>1. Len(log') \in (i + 1)..Len(log')
            BY <1>1, <2>1
        <3> QED BY <1>1, <1>3, <2>1, <3>1
    <2>3. RequestedEvent(q) = RequestedEvent(r)
        BY <1>1, <2>1, <2>2
    <2> QED BY <2>3, RequestsAreApart
<1> QED BY <1>2, <1>3 DEF LastOfSession, InForce

\* A choice that was sound stays so: the log before it does not change.
LEMMA ChoicesStay ==
    ASSUME StoreTypes, NEW entry \in [event : Offered, order : Orders],
           log' = log \/ log' = Append(log, entry), NEW c, c.logged \in Nat, ChoiceIsSound(c)
    PROVE  ChoiceIsSound(c)'
<1>1. CASE log' = log
    BY <1>1 DEF ChoiceIsSound, FailedBefore, Meets, InForce, Told, LastTold
<1>2. CASE log' = Append(log, entry)
    <2>1. /\ Len(log') = Len(log) + 1 /\ Len(log) \in Nat
          /\ \A i \in 1..Len(log) : log'[i] = log[i]
        BY <1>2, AppendProperties, LenProperties DEF StoreTypes
    <2>2. \A i \in 1..c.logged : log'[i] = log[i] /\ \A j \in i..c.logged : log'[j] = log[j]
        BY <2>1 DEF ChoiceIsSound
    <2>3. FailedBefore(c)' => FailedBefore(c)
        BY <2>2 DEF FailedBefore
    <2>4. c.logged \in 0..Len(log')
        BY <2>1 DEF ChoiceIsSound
    <2>5. InForce(c.request, c.logged)' = InForce(c.request, c.logged)
        BY <2>1, InForceOfPrefix DEF ChoiceIsSound
    <2> QED BY <2>3, <2>4, <2>5 DEF ChoiceIsSound, Meets
<1> QED BY <1>1, <1>2

\* What a quiet event, or none, leaves of every session: its budget and what
\* its state was told of.
Undisturbed(s) ==
    /\ sections'[s].budget = sections[s].budget
    /\ LastOfSession(s)' = LastOfSession(s)
    /\ \A r \in Requests : r.session = s => InForce(r, Len(log))' = InForce(r, Len(log))

\* A step that leaves sections and log alone disturbs nothing.
LEMMA NothingDisturbed ==
    ASSUME NEW s, sections'[s] = sections[s], log' = log
    PROVE  Undisturbed(s) /\ (FailureLogged(s)' <=> FailureLogged(s))
BY DEF Undisturbed, FailureLogged, LastOfSession, InForce, Told, LastTold

LEMMA SectionsStaySound ==
    ASSUME SectionsSound, sections' = sections, header' = header, log' = log
    PROVE  SectionsSound'
<1>1. \A s : LastOfSession(s)' = LastOfSession(s)
    BY NothingDisturbed DEF Undisturbed
<1> QED BY <1>1 DEF SectionsSound, Shows

LEMMA StillAgrees ==
    ASSUME NEW u \in Handlers, Agrees(u), handling'[u] = handling[u], view'[u] = view[u],
           NEW s, s = RequestOf(u).session,
           handling[u] # Idle => Undisturbed(s) /\ RequestOf(u) \in Requests,
           handling[u] # Idle /\ FailuresAreHeeded /\ FailureLogged(s)' => FailureLogged(s)
    PROVE  Agrees(u)'
<1>1. /\ RequestOf(u)' = RequestOf(u)
      /\ \A stage : Handles(u, stage)' <=> Handles(u, stage)
    BY DEF RequestOf, Handles
<1>2. \A stage : Handles(u, stage) => handling[u] # Idle
    BY DEF Handles
<1>3. handling[u] # Idle => /\ InForce(RequestOf(u), Len(log))' = InForce(RequestOf(u), Len(log))
                             /\ LastOfSession(s)' = LastOfSession(s)
                             /\ sections'[s].budget = sections[s].budget
    BY <1>1, <1>2 DEF Undisturbed
<1>4. Handles(u, "received") => Asks(u)'
    BY <1>1, <1>2, <1>3 DEF Agrees, Asks
<1>5. Handles(u, "viewed") => Sees(u)'
    BY <1>1, <1>2, <1>3 DEF Agrees, Sees, Shows
<1>6. Handles(u, "refused") => Refuses(u)'
    BY <1>1, <1>2, <1>3 DEF Agrees, Refuses, Meets
<1> QED BY <1>1, <1>4, <1>5, <1>6 DEF Agrees

LEMMA OfferedApplied ==
    ASSUME HarnessesAreQuiet, NEW e \in Offered, ~ Raises(e), NEW q, IsSections(q)
    PROVE  LET p == Applied(q, e) IN
           /\ IsSections(p) /\ p.severity >= q.severity
           /\ FailuresAreHeeded /\ e.type = "FAILED" => p.severity >= 80
           /\ \/ Quiet(e) /\ Kept(q, p) /\ \A r \in Requests : e # RequestedEvent(r)
              \/ \E r \in Requests : /\ e = RequestedEvent(r)
                                     /\ p.models = r.models /\ p.required = r.required
<1> DEFINE p == Applied(q, e)
<1>1. CASE e \in Events
    <2>1. Quiet(e) /\ \A r \in Requests : e # RequestedEvent(r)
        BY <1>1, RequestsAreApart DEF HarnessesAreQuiet
    <2>2. Kept(q, p)
        BY <2>1, KeptApplied
    <2>3. FailuresAreHeeded /\ e.type = "FAILED" => p.severity >= 80
        BY <1>1 DEF FailuresAreHeeded
    <2> QED BY <2>1, <2>2, <2>3 DEF Kept
<1>2. ASSUME NEW r \in Requests, e = RequestedEvent(r)
      PROVE  /\ IsSections(p) /\ p.severity >= q.severity /\ e.type # "FAILED"
             /\ p.models = r.models /\ p.required = r.required
    <2>1. e.type # "FAILED"
        BY <1>2 DEF RequestedEvent, EventOf
    <2>2. IsSections(p) /\ p.severity >= q.severity /\ p.models = r.models /\ p.required = r.required
        BY <1>2, RequestApplied
    <2> QED BY <2>1, <2>2
<1>3. ASSUME NEW r \in Requests, e \in {AnsweredEvent(r), FailedEvent(r)}
      PROVE  /\ Quiet(e) /\ Kept(q, p) /\ (e.type = "FAILED" => p.severity >= 80)
             /\ \A x \in Requests : e # RequestedEvent(x)
    <2>1. Quiet(e)
        BY <1>3, AnswerIsQuiet
    <2>2. Kept(q, p)
        BY <2>1, KeptApplied
    <2>3. e.type = "FAILED" => e = FailedEvent(r)
        BY <1>3, AnswerIsQuiet
    <2>4. Sent(FailedEvent(r), "severity", 0) = 80
        BY DEF FailedEvent, EventOf, Sent, Has
    <2>5. \A x \in Requests : ~ Quiet(RequestedEvent(x))
        BY DEF RequestedEvent, EventOf, Quiet, Has
    <2> QED BY <2>1, <2>2, <2>3, <2>4, <2>5, FailureApplied
<1> QED BY <1>1, <1>2, <1>3 DEF Offered, Posted, Kept

\* An event reaches one session, and what it changes there depends on it.
LEMMA PostReaches ==
    ASSUME HarnessesAreQuiet, RoutingTypes, SectionsSound, FailuresRemembered,
           NEW t \in Threads, NEW e \in Offered, Post(t, e)
    PROVE  /\ SectionsSound' /\ FailuresRemembered' /\ view' = view
           /\ \A s \in Sessions :
                 \/ s # e.session
                 \/ \A r \in Requests : e # RequestedEvent(r)
                 => Undisturbed(s)
           /\ \A s \in Sessions : s # e.session \/ e.type # "FAILED"
                                      => (FailureLogged(s)' => FailureLogged(s))
<1>1. CASE RefuseEvent(t, e)
    <2>1. UNCHANGED <<sections, header, log, view>>
        BY <1>1 DEF RefuseEvent, states
    <2>2. SectionsSound'
        BY <2>1, SectionsStaySound
    <2>3. \A s : Undisturbed(s) /\ (FailureLogged(s)' <=> FailureLogged(s))
        BY <2>1, NothingDisturbed
    <2> QED BY <2>1, <2>2, <2>3 DEF FailuresRemembered
<1>2. CASE AppendEvent(t, e)
    <2> DEFINE p == Applied(sections[e.session], e)
               entry == [event |-> e, order |-> OrderOf(e)]
    <2>1. e.session \in Sessions /\ OrderOf(e) \in Orders /\ IsSections(sections[e.session])
        BY OfferedTypes, OrderOfType DEF RoutingTypes, StoreTypes, SectionsSound
    <2>2. /\ sections' = [sections EXCEPT ![e.session] = p]
          /\ header' = [header EXCEPT ![e.session] = OrderOf(e)]
          /\ log' = Append(log, entry) /\ view' = view /\ ~ Raises(e)
        BY <1>2, <2>1, SectionsAreCurrent DEF AppendEvent
    <2>3. /\ IsSections(p) /\ p.severity >= sections[e.session].severity
          /\ FailuresAreHeeded /\ e.type = "FAILED" => p.severity >= 80
          /\ \/ /\ Quiet(e) /\ Kept(sections[e.session], p)
                /\ \A r \in Requests : e # RequestedEvent(r)
             \/ \E r \in Requests : /\ e = RequestedEvent(r)
                                    /\ p.models = r.models /\ p.required = r.required
        BY <2>1, <2>2, OfferedApplied
    <2>4. OrderOf(e) # Absent
        BY <2>1, AbsentIsNoOrder
    <2>5. entry \in [event : Offered, order : Orders] /\ entry.event = e
        BY <2>1
    <2> HIDE DEF p, entry
    <2>6. \A s \in Sessions :
            /\ sections'[s] = IF s = e.session THEN p ELSE sections[s]
            /\ header'[s] = IF s = e.session THEN OrderOf(e) ELSE header[s]
        BY <2>1, <2>2 DEF RoutingTypes, StoreTypes
    <2>7. ASSUME NEW s \in Sessions, s # e.session \/ \A r \in Requests : e # RequestedEvent(r)
          PROVE  /\ Undisturbed(s)
                 /\ sections'[s].models = sections[s].models
                 /\ sections'[s].required = sections[s].required
        <3>1. \A r \in Requests : r.session = s => e # RequestedEvent(r)
            BY <2>7, PostedEvents
        <3>2. /\ LastOfSession(s)' = LastOfSession(s)
              /\ \A r \in Requests : r.session = s
                    => InForce(r, Len(log))' = InForce(r, Len(log))
            BY <2>2, <2>5, <3>1, ToldNothing DEF RoutingTypes
        <3>3. s = e.session => Kept(sections[s], p)
            BY <2>3, <2>7
        <3> QED BY <2>6, <3>2, <3>3 DEF Undisturbed, Kept
    <2>8. ASSUME NEW s \in Sessions PROVE Shows(sections'[s], LastOfSession(s)')
        <3>1. CASE s # e.session \/ \A r \in Requests : e # RequestedEvent(r)
            BY <2>7, <3>1 DEF SectionsSound, Undisturbed, Shows
        <3>2. ASSUME NEW r \in Requests, s = e.session, e = RequestedEvent(r)
              PROVE  Shows(sections'[s], LastOfSession(s)')
            <4>1. s = r.session /\ p.models = r.models /\ p.required = r.required
                BY <2>3, <3>2, PostedEvents, RequestsAreApart
            <4>2. LastOfSession(s)' = {r}
                BY <2>2, <2>5, <3>2, <4>1, ToldNow DEF RoutingTypes
            <4> QED BY <2>6, <3>2, <4>1, <4>2 DEF Shows
        <3> QED BY <3>1, <3>2
    <2>9. SectionsSound'
        BY <2>3, <2>4, <2>6, <2>8 DEF SectionsSound
    <2>10. \A s : FailureLogged(s)' => FailureLogged(s) \/ (e.session = s /\ e.type = "FAILED")
        BY <2>2, <2>5, FailureLoggedNow DEF RoutingTypes
    <2>11. FailuresRemembered'
        <3> SUFFICES ASSUME FailuresAreHeeded, NEW s \in Sessions, FailureLogged(s)'
                     PROVE  sections'[s].severity >= 80
            BY DEF FailuresRemembered
        <3>1. CASE FailureLogged(s)
            <4>1. sections[s].severity >= 80 /\ sections[s].severity \in Int
                BY <3>1 DEF FailuresRemembered, SectionsSound, IsSections
            <4>2. sections'[s].severity \in Int /\ sections'[s].severity >= sections[s].severity
                BY <2>3, <2>6, <4>1 DEF IsSections
            <4> QED BY <4>1, <4>2
        <3>2. CASE e.session = s /\ e.type = "FAILED"
            BY <2>3, <2>6, <3>2
        <3> QED BY <2>10, <3>1, <3>2
    <2> QED BY <2>2, <2>7, <2>9, <2>10, <2>11
<1> QED BY <1>1, <1>2 DEF Post

LEMMA PostKeepsChoices ==
    ASSUME RoutingTypes, ChoicesAreSound, NEW t \in Threads, NEW e \in Offered, Post(t, e),
           chosen' = chosen
    PROVE  ChoicesAreSound'
<1>1. log' = log \/ log' = Append(log, [event |-> e, order |-> OrderOf(e)])
    BY PostKeepsTypes DEF RoutingTypes, StoreKept
<1>2. [event |-> e, order |-> OrderOf(e)] \in [event : Offered, order : Orders]
    BY OfferedTypes, OrderOfType DEF RoutingTypes, StoreTypes
<1>3. \A i \in DOMAIN chosen : chosen[i].logged \in Nat
    <2>1. \A i \in DOMAIN chosen : chosen[i] \in ChosenSoFar
        BY ElementOfSeq, LenProperties DEF ChoicesAreSound
    <2> QED BY <2>1 DEF ChosenSoFar
<1>4. \A i \in DOMAIN chosen : ChoiceIsSound(chosen[i])'
    BY <1>1, <1>2, <1>3, ChoicesStay DEF ChoicesAreSound, RoutingTypes
<1> QED BY <1>4 DEF ChoicesAreSound

\* A step that leaves log and chosen alone.
LEMMA ChoicesKept ==
    ASSUME ChoicesAreSound, log' = log, chosen' = chosen
    PROVE  ChoicesAreSound'
BY DEF ChoicesAreSound, ChoiceIsSound, FailedBefore, Meets, InForce, Told, LastTold

(***************************************************************************)
(* Every step keeps the invariant                                          *)
(***************************************************************************)
\* What a thread asks the scheduler for is what its request asked for, under the
\* constraints in force.
LEMMA AskedMeets ==
    ASSUME NEW t \in Handlers, NEW r \in Requests, r = RequestOf(t), Sees(t), NEW u \in Targets
    PROVE  LET a == AskedView(view[t], r) IN
           /\ a.severity = view[t].severity /\ IsMeasured(a)
           /\ Eligible(a, u) => Meets(u, r, Len(log))
           /\ TargetsAreOpen /\ view[t].budget = {} /\ Meets(u, r, Len(log)) => Eligible(a, u)
           /\ a.budget = view[t].budget
<1> DEFINE a == AskedView(view[t], r)
           R == InForce(r, Len(log))
<1>1. DOMAIN view[t] = ViewFields /\ Shows(view[t], R)
    BY DEF Sees
<1>2. /\ a.prompt = r.prompt /\ a.output = r.output
      /\ a.required = view[t].required \cup r.required /\ a.models = view[t].models
      /\ a.budget = view[t].budget /\ a.severity = view[t].severity
      /\ a.domains = Unreported.domains /\ a.remoteAllowed = Unreported.remoteAllowed
      /\ IsMeasured(a)
    BY <1>1, AskedFields
<1> HIDE DEF a, R
<1>3. /\ \A q \in R : a.models = q.models /\ a.required = q.required \cup r.required
      /\ R = {} => a.models = {} /\ a.required = r.required
    <2>1. R = {} => {} \cup r.required = r.required
        OBVIOUS
    <2> QED BY <1>1, <1>2, <2>1 DEF Shows
<1>4. Meets(u, r, Len(log)) <=>
        /\ a.required \subseteq u.capabilities
        /\ r.prompt + r.output <= u.window
        /\ a.models = {} \/ u.model \in a.models
    <2>1. CASE R = {}
        BY <1>3, <2>1 DEF Meets, R
    <2>2. ASSUME NEW q \in R
          PROVE  Meets(u, r, Len(log)) <=>
                    /\ a.required \subseteq u.capabilities
                    /\ r.prompt + r.output <= u.window
                    /\ a.models = {} \/ u.model \in a.models
        <3>1. a.models = q.models /\ a.required = q.required \cup r.required
              /\ \A x \in R : x.models = q.models /\ x.required \cup r.required = a.required
            BY <1>3
        <3> QED BY <3>1 DEF Meets, R
    <2> QED BY <2>1, <2>2
<1>5. Eligible(a, u) => Meets(u, r, Len(log))
    BY <1>2, <1>4 DEF Eligible
<1>6. TargetsAreOpen /\ view[t].budget = {} /\ Meets(u, r, Len(log)) => Eligible(a, u)
    BY <1>2, <1>4 DEF Eligible, TargetsAreOpen
<1> QED BY <1>2, <1>5, <1>6 DEF a

\* Threads with other sessions keep what they agreed on.
LEMMA OthersAgree ==
    ASSUME RoutingTypes, NEW t \in Handlers, NEW s,
           \A u \in Handlers \ {t} : /\ Agrees(u)
                                     /\ handling'[u] = handling[u] /\ view'[u] = view[u]
                                     /\ handling[u] # Idle => RequestOf(u).session # s,
           \A q \in Sessions : q # s => Undisturbed(q) /\ (FailureLogged(q)' => FailureLogged(q))
    PROVE  \A u \in Handlers \ {t} : Agrees(u)'
<1> SUFFICES ASSUME NEW u \in Handlers \ {t} PROVE Agrees(u)'
    OBVIOUS
<1>1. PICK q : q = RequestOf(u).session
    OBVIOUS
<1>2. handling[u] # Idle => q \in Sessions /\ q # s /\ RequestOf(u) \in Requests
    BY <1>1, HandledRequest
<1> QED BY <1>1, <1>2, StillAgrees

\* The state carries the constraints of the request that has just come in, or
\* its event was refused.
LEMMA ReceiveConstrains ==
    ASSUME SerialClients, HarnessesAreQuiet, RoutingTypes, NoRequestIsLost, ConstraintInv,
           NEW t \in Handlers, NEW r \in Requests, Receive(t, r)
    PROVE  /\ SectionsSound' /\ FailuresRemembered' /\ ChoicesAreSound'
           /\ \A u \in Handlers : Agrees(u)'
<1> DEFINE e == RequestedEvent(r)
<1>1. /\ t \in Threads /\ e \in Offered /\ e.session = r.session /\ r.session \in Sessions
      /\ e.epoch = 0 /\ e.sequence = 0
    BY RoutingSwitches, PostedEvents
<1>2. /\ Post(t, e) /\ chosen' = chosen
      /\ handling'[t] = [request |-> r, stage |-> "received"]
      /\ (\A u \in Handlers \ {t} : handling'[u] = handling[u])
      /\ \A u \in Handlers : handling[u] # Idle => RequestOf(u).session # r.session
    BY ReceiveGrows DEF Receive
<1>3. e.type = "MODEL_REQUESTED"
    BY DEF RequestedEvent, EventOf
<1> HIDE DEF e
<1>4. /\ SectionsSound' /\ FailuresRemembered' /\ view' = view
      /\ \A s \in Sessions : s # r.session => Undisturbed(s)
      /\ \A s \in Sessions : FailureLogged(s)' => FailureLogged(s)
    BY <1>1, <1>2, <1>3, PostReaches DEF ConstraintInv
<1>5. ChoicesAreSound'
    BY <1>1, <1>2, PostKeepsChoices DEF ConstraintInv
<1>6. \A u \in Handlers \ {t} : Agrees(u)'
    BY <1>2, <1>4, OthersAgree DEF ConstraintInv
<1>7. InForce(r, Len(log))' = LastOfSession(r.session)'
    <2>1. CASE AppendEvent(t, e)
        <3>1. log' = Append(log, [event |-> e, order |-> OrderOf(e)])
            BY <2>1 DEF AppendEvent
        <3>2. [event |-> e, order |-> OrderOf(e)] \in [event : Offered, order : Orders]
            BY <1>1, OrderOfType DEF RoutingTypes, StoreTypes
        <3>3. LastOfSession(r.session)' = {r} /\ InForce(r, Len(log))' = {r}
            BY <3>1, <3>2, ToldNow DEF RoutingTypes, e
        <3> QED BY <3>3
    <2>2. CASE RefuseEvent(t, e)
        <3>1. log' = log
            BY <2>2 DEF RefuseEvent
        <3>2. ~ Told(r, Len(log))
            <4> SUFFICES ASSUME Told(r, Len(log)) PROVE FALSE
                OBVIOUS
            <4>1. DOMAIN log = 1..Len(log)
                BY LenProperties DEF RoutingTypes, StoreTypes
            <4>2. Logged(RequestedEvent(r)) /\ outcome[r] = Waiting
                BY <4>1 DEF Told, Logged, Receive
            <4>3. \A u \in Handlers : handling[u] # Idle => RequestOf(u) # r
                BY DEF Receive
            <4> QED BY <4>2, <4>3 DEF NoRequestIsLost
        <3>3. InForce(r, Len(log)) = LastOfSession(r.session)
            BY <3>2 DEF InForce, LastOfSession
        <3>4. /\ InForce(r, Len(log))' = InForce(r, Len(log))
              /\ LastOfSession(r.session)' = LastOfSession(r.session)
            BY <1>1, <3>1 DEF InForce, LastOfSession, Told, LastTold
        <3> QED BY <3>3, <3>4
    <2> QED BY <1>2, <2>1, <2>2 DEF Post
<1>8. RequestOf(t)' = r /\ handling'[t].stage = "received"
    BY <1>2 DEF RequestOf
<1>9. Agrees(t)'
    BY <1>7, <1>8 DEF Agrees, Handles, Asks
<1> QED BY <1>4, <1>5, <1>6, <1>9

LEMMA ReportConstrains ==
    ASSUME HarnessesAreQuiet, RoutingTypes, ConstraintInv,
           NEW t \in Threads, NEW e \in Events, Report(t, e)
    PROVE  /\ SectionsSound' /\ FailuresRemembered' /\ ChoicesAreSound'
           /\ \A u \in Handlers : Agrees(u)'
<1>1. /\ e \in Offered /\ Post(t, e) /\ chosen' = chosen /\ handling' = handling
      /\ \A r \in Requests : e # RequestedEvent(r)
    BY RequestsAreApart DEF Offered, Report
<1>2. /\ SectionsSound' /\ FailuresRemembered' /\ view' = view
      /\ \A s \in Sessions : Undisturbed(s)
      /\ \A s \in Sessions : e.type # "FAILED" => (FailureLogged(s)' => FailureLogged(s))
    BY <1>1, PostReaches DEF ConstraintInv
<1>3. ChoicesAreSound'
    BY <1>1, PostKeepsChoices DEF ConstraintInv
<1>4. ASSUME NEW u \in Handlers PROVE Agrees(u)'
    <2>1. PICK q : q = RequestOf(u).session
        OBVIOUS
    <2>2. handling[u] # Idle => q \in Sessions /\ RequestOf(u) \in Requests
        BY <2>1, HandledRequest
    <2>3. FailuresAreHeeded => e.type # "FAILED"
        BY DEF FailuresAreHeeded
    <2>4. Agrees(u)
        BY DEF ConstraintInv
    <2> QED BY <1>1, <1>2, <2>1, <2>2, <2>3, <2>4, StillAgrees
<1> QED BY <1>2, <1>3, <1>4

\* What a thread's own step says of the other threads.
LEMMA OthersHold ==
    ASSUME RoutingTypes, ConstraintInv, NEW t \in Handlers, Handle(t), NEW s,
           s = RequestOf(t).session,
           \A u \in Handlers \ {t} : view'[u] = view[u],
           \A q \in Sessions : q # s => Undisturbed(q) /\ (FailureLogged(q)' => FailureLogged(q))
    PROVE  \A u \in Handlers \ {t} : Agrees(u)'
<1>1. handling[t] # Idle /\ \A u \in Handlers \ {t} : handling'[u] = handling[u]
    BY HandleGrows, HandleHolds
<1>2. \A u \in Handlers \ {t} : handling[u] # Idle => RequestOf(u).session # s
    BY <1>1 DEF ConstraintInv, Exclusive
<1> QED BY <1>1, <1>2, OthersAgree DEF ConstraintInv

LEMMA ReadConstrains ==
    ASSUME RoutingTypes, ConstraintInv, NEW t \in Handlers, ReadView(t)
    PROVE  /\ SectionsSound' /\ FailuresRemembered' /\ ChoicesAreSound'
           /\ \A u \in Handlers : Agrees(u)'
<1>0. PICK r : r = RequestOf(t)
    OBVIOUS
<1> DEFINE s == r.session
<1>1. /\ Handle(t) /\ handling[t] # Idle /\ t \in Threads /\ r \in Requests /\ s \in Sessions
    BY <1>0, HandledRequest DEF Handle, ReadView, Handles
<1>2. /\ view' = [view EXCEPT ![t] = ViewOf(s)] /\ UNCHANGED <<states, log>>
      /\ Advance(t, "viewed") /\ chosen' = chosen /\ Handles(t, "received")
    BY <1>0 DEF ReadView, GetSchedulingView
<1>3. sections' = sections /\ header' = header /\ order' = order /\ log' = log
    BY <1>2 DEF states
<1>4. SectionsSound' /\ FailuresRemembered' /\ ChoicesAreSound'
    BY <1>2, <1>3, ChoicesKept, SectionsStaySound DEF ConstraintInv, FailuresRemembered, FailureLogged
<1>5. view'[t] = ViewOf(s) /\ \A u \in Handlers \ {t} : view'[u] = view[u]
    BY <1>1, <1>2, RoutingSwitches DEF RoutingTypes, StoreTypes
<1>6. \A u \in Handlers \ {t} : Agrees(u)'
    BY <1>0, <1>1, <1>3, <1>5, OthersHold, NothingDisturbed
<1>7. handling'[t].request = r /\ handling'[t].stage = "viewed"
    BY <1>0, <1>1, <1>2, AdvanceTypes DEF Stages
<1>8. Sections(s) = sections[s] /\ IsSections(sections[s])
    BY <1>1, SectionsAreCurrent DEF ConstraintInv, SectionsSound
<1>9. Shows(sections[s], InForce(r, Len(log)))
    <2>1. InForce(r, Len(log)) = LastOfSession(s)
        BY <1>0, <1>2 DEF ConstraintInv, Agrees, Asks
    <2> QED BY <1>1, <2>1 DEF ConstraintInv, SectionsSound
<1>10. FailuresAreHeeded /\ FailureLogged(s) => sections[s].severity >= 80
    BY <1>1 DEF ConstraintInv, FailuresRemembered
<1>11. sections[s].severity \in Int
    BY <1>8 DEF IsSections
<1>12. /\ DOMAIN ViewOf(s) = ViewFields /\ ViewOf(s).session = s
       /\ Shows(ViewOf(s), InForce(r, Len(log)))
       /\ ViewOf(s).budget = sections[s].budget /\ ViewOf(s).severity = sections[s].severity
    BY <1>8, <1>9, ViewOfFields DEF Shows
<1>13. Sees(t)'
    <2>1. RequestOf(t)' = r
        BY <1>7 DEF RequestOf
    <2>2. FailureLogged(s)' <=> FailureLogged(s)
        BY <1>3 DEF FailureLogged
    <2>3. InForce(r, Len(log))' = InForce(r, Len(log))
        BY <1>1, <1>3, NothingDisturbed DEF Undisturbed
    <2>4. Shows(view[t], InForce(r, Len(log)))'
        BY <1>5, <1>12, <2>3 DEF Shows
    <2> QED BY <2>1, <2>2, <2>4, <1>3, <1>5, <1>10, <1>11, <1>12 DEF Sees
<1>14. Agrees(t)'
    BY <1>7, <1>13 DEF Agrees, Handles
<1> QED BY <1>4, <1>6, <1>14

LEMMA FinishConstrains ==
    ASSUME HarnessesAreQuiet, RoutingTypes, ConstraintInv, NEW t \in Handlers,
           Answer(t) \/ Fail(t) \/ BreakOff(t)
    PROVE  /\ SectionsSound' /\ FailuresRemembered' /\ ChoicesAreSound'
           /\ \A u \in Handlers : Agrees(u)'
<1>1. /\ Handle(t) /\ handling[t] # Idle /\ t \in Threads /\ RequestOf(t) \in Requests
      /\ chosen' = chosen
    BY HandledRequest DEF Handle, Answer, Fail, BreakOff, Handles, Finish
<1>2. handling'[t] = Idle
    BY <1>1, FinishTypes DEF Answer, Fail, BreakOff
<1>3. PICK r \in Requests : r = RequestOf(t)
    BY <1>1
<1>4. ASSUME NEW e \in {AnsweredEvent(r), FailedEvent(r)}, Post(t, e)
      PROVE  /\ SectionsSound' /\ FailuresRemembered' /\ ChoicesAreSound' /\ view' = view
             /\ \A s \in Sessions : s # r.session =>
                   Undisturbed(s) /\ (FailureLogged(s)' => FailureLogged(s))
    <2>1. e \in Offered /\ e.session = r.session
        BY <1>4, PostedEvents
    <2> QED BY <2>1, <1>1, <1>4, PostReaches, PostKeepsChoices DEF ConstraintInv
<1>5. /\ SectionsSound' /\ FailuresRemembered' /\ ChoicesAreSound' /\ view' = view
      /\ \A s \in Sessions : s # r.session =>
            Undisturbed(s) /\ (FailureLogged(s)' => FailureLogged(s))
    <2>1. CASE Answer(t)
        BY <1>3, <1>4, <2>1 DEF Answer
    <2>2. CASE Fail(t)
        BY <1>3, <1>4, <2>2 DEF Fail
    <2>3. CASE BreakOff(t)
        <3>1. UNCHANGED <<sections, header, log, view>>
            BY <2>3 DEF BreakOff, storeVars, states
        <3>2. \A s : Undisturbed(s) /\ (FailureLogged(s)' <=> FailureLogged(s))
            BY <3>1, NothingDisturbed
        <3> QED BY <1>1, <3>1, <3>2, ChoicesKept, SectionsStaySound
                DEF ConstraintInv, FailuresRemembered
    <2> QED BY <2>1, <2>2, <2>3
<1>6. \A u \in Handlers \ {t} : Agrees(u)'
    BY <1>1, <1>3, <1>5, OthersHold
<1>7. Agrees(t)'
    BY <1>2 DEF Agrees, Handles
<1> QED BY <1>5, <1>6, <1>7

\* The chosen target is one of those that passed every gate.
LEMMA ChosenIsConsidered ==
    ASSUME NEW v, NEW d, Stands(v, Targets, d)
    PROVE  /\ d.target \in Considered(v, EligibleOf(v, Targets))
           /\ Considered(v, EligibleOf(v, Targets)) \subseteq EligibleOf(v, Targets)
           /\ EligibleOf(v, Targets) \subseteq Targets
BY DEF Stands, CostGate, Affordable, WithinBudget, SuccessGate, SuccessEquals, Considered,
       CapableOnly, EligibleOf

\* A view as severe as a failure leaves it gets a capable target if there is one.
LEMMA SevereIsCapable ==
    ASSUME NEW v, NEW d, Stands(v, Targets, d), v.severity >= Config.severity
    PROVE  IsCapable(d.target) \/ \A t \in EligibleOf(v, Targets) : ~ IsCapable(t)
<1> DEFINE E == EligibleOf(v, Targets)
<1>1. d.target \in Considered(v, E)
    BY ChosenIsConsidered
<1>2. Considered(v, E) = CapableOnly(E)
    BY DEF Considered, Guarded, Override
<1> HIDE DEF E
<1>3. IsCapable(d.target) \/ \A t \in E : ~ IsCapable(t)
    BY <1>1, <1>2 DEF CapableOnly
<1> QED BY <1>3 DEF E

LEMMA ChoiceOfDecision ==
    ASSUME PredictorSpeaks, RoutingTypes, NEW t \in Handlers, Handles(t, "viewed"), Sees(t),
           NEW r \in Requests, r = RequestOf(t), Verdict(t) # Infeasible,
           NEW c, c = [request |-> r, target |-> Verdict(t).target,
                       eligible |-> EligibleOf(AskedView(view[t], r), Targets),
                       logged |-> Len(log)]
    PROVE  c \in ChosenSoFar /\ ChoiceIsSound(c)
<1> DEFINE a == AskedView(view[t], r)
           d == Verdict(t)
<1>1. handling[t] # Idle /\ DOMAIN view[t] = ViewFields
    BY DEF Handles, Sees
<1>2. d \in Verdicts /\ Stands(a, Targets, d)
    BY <1>1, VerdictStands
<1>3. /\ d.target \in EligibleOf(a, Targets) /\ EligibleOf(a, Targets) \subseteq Targets
      /\ a.severity = view[t].severity
    BY <1>2, ChosenIsConsidered, AskedMeets DEF Verdicts
<1>4. Meets(d.target, r, Len(log))
    <2>1. d.target \in Targets /\ Eligible(a, d.target)
        BY <1>3 DEF EligibleOf
    <2> QED BY <2>1, AskedMeets
<1>5. Len(log) \in Nat /\ DOMAIN log = 1..Len(log)
    BY LenProperties DEF RoutingTypes, StoreTypes
<1> HIDE DEF a, d
<1>6. /\ c.request = r /\ c.target = d.target /\ c.eligible = EligibleOf(a, Targets)
      /\ c.logged = Len(log)
    BY DEF a, d
<1>7. c \in ChosenSoFar
    BY <1>3, <1>5 DEF ChosenSoFar, a, d
<1>8. ASSUME FailuresAreHeeded, FailedBefore(c)
      PROVE  IsCapable(d.target) \/ \A u \in EligibleOf(a, Targets) : ~ IsCapable(u)
    <2>1. FailureLogged(r.session)
        BY <1>5, <1>6, <1>8 DEF FailedBefore, FailureLogged
    <2>2. view[t].severity >= 80 /\ view[t].severity \in Int
        BY <1>8, <2>1 DEF Sees
    <2>3. a.severity >= Config.severity
        BY <1>3, <1>8, <2>2 DEF FailuresAreHeeded
    <2> QED BY <1>2, <2>3, SevereIsCapable
<1>9. c.logged \in 0..Len(log)
    BY <1>5, <1>6
<1> QED BY <1>4, <1>6, <1>7, <1>8, <1>9 DEF ChoiceIsSound

LEMMA DecideConstrains ==
    ASSUME PredictorSpeaks, RoutingTypes, ConstraintInv, NEW t \in Handlers, Decide(t)
    PROVE  /\ SectionsSound' /\ FailuresRemembered' /\ ChoicesAreSound'
           /\ \A u \in Handlers : Agrees(u)'
<1>0. PICK r : r = RequestOf(t)
    OBVIOUS
<1> DEFINE s == r.session
<1>c. PICK c : c = [request |-> r, target |-> Verdict(t).target,
                    eligible |-> EligibleOf(AskedView(view[t], r), Targets), logged |-> Len(log)]
    OBVIOUS
<1>1. /\ Handle(t) /\ handling[t] # Idle /\ t \in Threads /\ r \in Requests /\ s \in Sessions
      /\ Handles(t, "viewed")
    BY <1>0, HandledRequest DEF Handle, Decide, Handles
<1>2. Sees(t)
    BY <1>1 DEF ConstraintInv, Agrees
<1>3. /\ Verdict(t) # Infeasible /\ RecordDecision(t, Recorded(Verdict(t)))
      /\ chosen' = Append(chosen, c) /\ Advance(t, "sent")
    BY <1>0, <1>c DEF Decide
<1>4. c \in ChosenSoFar /\ ChoiceIsSound(c)
    BY <1>0, <1>c, <1>1, <1>2, <1>3, ChoiceOfDecision
<1>5. view[t].session = s
    BY <1>0, <1>2 DEF Sees
<1> HIDE DEF Verdict
<1>6. /\ sections' = [sections EXCEPT ![s] = Sections(s)] /\ log' = log
      /\ header' = [header EXCEPT ![s] = DecisionOrder(s)]
      /\ view' = [view EXCEPT ![t] = Absent]
    BY <1>3, <1>5 DEF RecordDecision
<1>7. Sections(s) = sections[s]
    BY <1>1, SectionsAreCurrent DEF ConstraintInv
<1>8. \A q \in Sessions : sections'[q] = sections[q]
    BY <1>1, <1>6, <1>7 DEF RoutingTypes, StoreTypes
<1>9. DecisionOrder(s) # Absent
    <2>1. header[s] = Absent \/ header[s] \in Orders
        BY <1>1 DEF RoutingTypes, StoreTypes
    <2>2. DecisionOrder(s) \in Orders
        BY <2>1 DEF DecisionOrder, Orders
    <2> QED BY <2>2, AbsentIsNoOrder
<1>10. SectionsSound'
    <2>1. \A q \in Sessions : header'[q] = Absent => header[q] = Absent
        BY <1>1, <1>6, <1>9 DEF RoutingTypes, StoreTypes
    <2>2. \A q \in Sessions : LastOfSession(q)' = LastOfSession(q)
        BY <1>6, <1>8, NothingDisturbed DEF Undisturbed
    <2> QED BY <1>8, <2>1, <2>2 DEF ConstraintInv, SectionsSound, Shows
<1>11. FailuresRemembered'
    BY <1>6, <1>8 DEF ConstraintInv, FailuresRemembered, FailureLogged
<1>12. ChoicesAreSound'
    <2>1. /\ chosen' \in Seq(ChosenSoFar) /\ chosen \in Seq(ChosenSoFar)
          /\ Len(chosen') = Len(chosen) + 1 /\ Len(chosen) \in Nat
          /\ DOMAIN chosen = 1..Len(chosen) /\ DOMAIN chosen' = 1..Len(chosen')
          /\ \A i \in 1..Len(chosen) : chosen'[i] = chosen[i]
          /\ chosen'[Len(chosen) + 1] = c
        BY <1>3, <1>4, AppendProperties, LenProperties DEF ConstraintInv, ChoicesAreSound
    <2>2. \A x : ChoiceIsSound(x) => ChoiceIsSound(x)'
        BY <1>6 DEF ChoiceIsSound, FailedBefore, Meets, InForce, Told, LastTold
    <2>3. ASSUME NEW i \in DOMAIN chosen' PROVE ChoiceIsSound(chosen[i])'
        <3>1. PICK x : x = chosen'[i]
            OBVIOUS
        <3>2. ChoiceIsSound(x)
            <4>1. CASE i = Len(chosen) + 1
                BY <1>4, <2>1, <3>1, <4>1
            <4>2. CASE i # Len(chosen) + 1
                <5>1. i \in DOMAIN chosen /\ chosen'[i] = chosen[i]
                    BY <2>1, <4>2
                <5> QED BY <3>1, <5>1 DEF ConstraintInv, ChoicesAreSound
            <4> QED BY <4>1, <4>2
        <3>3. ChoiceIsSound(x)'
            BY <2>2, <3>2
        <3> QED BY <3>1, <3>3
    <2> QED BY <2>1, <2>3 DEF ChoicesAreSound
<1>13. \A u \in Handlers \ {t} : view'[u] = view[u]
    BY <1>6, RoutingSwitches DEF RoutingTypes, StoreTypes
<1>14. \A u \in Handlers \ {t} : Agrees(u)'
    BY <1>0, <1>1, <1>6, <1>8, <1>13, OthersHold, NothingDisturbed
<1>15. handling'[t].stage = "sent"
    BY <1>1, <1>3, AdvanceTypes DEF Stages
<1>16. Agrees(t)'
    BY <1>15 DEF Agrees, Handles
<1> QED BY <1>10, <1>11, <1>12, <1>14, <1>16

\* schedule raises NoFeasibleTarget only when no target passes the gates.
LEMMA RefusedIsUnmet ==
    ASSUME PredictorSpeaks, TargetsAreOpen, NEW t \in Handlers, Sees(t),
           NEW r \in Requests, r = RequestOf(t), Verdict(t) = Infeasible, view[t].budget = {},
           NEW u \in Targets
    PROVE  ~ Meets(u, r, Len(log))
<1> DEFINE a == AskedView(view[t], r)
           R == Considered(a, EligibleOf(a, Targets))
<1> SUFFICES ASSUME Meets(u, r, Len(log)) PROVE FALSE
    OBVIOUS
<1>1. IsMeasured(a) /\ Eligible(a, u) /\ a.budget = {}
    BY AskedMeets
<1>2. IsPool(Targets) /\ Speaks(a, Targets)
    BY <1>1, TargetsArePool DEF PredictorSpeaks, a
<1>3. Verdict(t) = Decision(a, Targets)
    BY DEF Verdict
<1> HIDE DEF a
<1>4. u \in EligibleOf(a, Targets)
    BY <1>1 DEF EligibleOf
<1>5. IsPool(R) /\ Speaks(a, R) /\ R # {}
    BY <1>2, <1>4, ConsideredIsPool
<1>6. SuccessGate(a, R) # {}
    BY <1>5, SuccessGateLeavesSome
<1>7. Affordable(a, Targets) # {}
    BY <1>1, <1>6 DEF Affordable, WithinBudget
<1>8. Decision(a, Targets) \in Verdicts
    BY <1>1, <1>2, <1>7, DecisionStands DEF Verdicts
<1> QED BY <1>3, <1>8, OthersAreApart DEF Verdicts

LEMMA GiveUpConstrains ==
    ASSUME PredictorSpeaks, RoutingTypes, ConstraintInv, NEW t \in Handlers, GiveUp(t)
    PROVE  /\ SectionsSound' /\ FailuresRemembered' /\ ChoicesAreSound'
           /\ \A u \in Handlers : Agrees(u)'
<1> DEFINE r == RequestOf(t)
           s == r.session
<1>1. /\ Handle(t) /\ handling[t] # Idle /\ t \in Threads /\ r \in Requests /\ s \in Sessions
      /\ Handles(t, "viewed")
    BY HandledRequest DEF Handle, GiveUp, Handles
<1>2. Sees(t) /\ Verdict(t) = Infeasible
    BY <1>1 DEF ConstraintInv, Agrees, GiveUp
<1>3. /\ view' = [view EXCEPT ![t] = Absent] /\ Advance(t, "refused") /\ chosen' = chosen
      /\ sections' = sections /\ header' = header /\ log' = log
    BY DEF GiveUp, states
<1>4. SectionsSound' /\ FailuresRemembered' /\ ChoicesAreSound'
    BY <1>3, ChoicesKept, SectionsStaySound DEF ConstraintInv, FailuresRemembered, FailureLogged
<1>5. \A u \in Handlers \ {t} : view'[u] = view[u]
    BY <1>3, RoutingSwitches DEF RoutingTypes, StoreTypes
<1>6. \A u \in Handlers \ {t} : Agrees(u)'
    BY <1>1, <1>3, <1>5, OthersHold, NothingDisturbed
<1>7. handling'[t].request = r /\ handling'[t].stage = "refused"
    BY <1>1, <1>3, AdvanceTypes DEF Stages
<1>8. TargetsAreOpen /\ sections[s].budget = {} => \A u \in Targets : ~ Meets(u, r, Len(log))
    <2>1. view[t].budget = sections[s].budget
        BY <1>2 DEF Sees
    <2> QED BY <2>1, <1>1, <1>2, RefusedIsUnmet
<1>9. Refuses(t)'
    <2>1. RequestOf(t)' = r
        BY <1>7 DEF RequestOf
    <2>2. ASSUME NEW q \in Requests, NEW u
          PROVE  Meets(u, q, Len(log))' <=> Meets(u, q, Len(log))
        <3>1. InForce(q, Len(log))' = InForce(q, Len(log))
            BY <1>3, NothingDisturbed DEF Undisturbed
        <3> QED BY <3>1 DEF Meets
    <2>3. PICK q \in Requests : q = r
        BY <1>1
    <2> QED BY <2>1, <2>2, <2>3, <1>3, <1>8 DEF Refuses
<1>10. Agrees(t)'
    BY <1>7, <1>9 DEF Agrees, Handles
<1> QED BY <1>4, <1>6, <1>10

LEMMA ConstraintStep ==
    ASSUME SerialClients, PredictorSpeaks, HarnessesAreQuiet, RoutingTypes, NoRequestIsLost,
           ConstraintInv, [RoutingNext]_routingVars
    PROVE  ConstraintInv'
<1> DEFINE Rest == /\ SectionsSound' /\ FailuresRemembered' /\ ChoicesAreSound'
                   /\ \A u \in Handlers : Agrees(u)'
<1>1. Exclusive'
    BY ExclusiveStep DEF ConstraintInv
<1>2. CASE UNCHANGED routingVars
    <2>1. /\ sections' = sections /\ header' = header /\ order' = order /\ log' = log
          /\ view' = view /\ handling' = handling /\ chosen' = chosen
        BY <1>2 DEF routingVars, storeVars, states
    <2>2. SectionsSound' /\ FailuresRemembered' /\ ChoicesAreSound'
        BY <2>1, ChoicesKept, SectionsStaySound DEF ConstraintInv, FailuresRemembered, FailureLogged
    <2>3. ASSUME NEW u \in Handlers PROVE Agrees(u)'
        <3>1. PICK q : q = RequestOf(u).session
            OBVIOUS
        <3>2. Undisturbed(q) /\ (FailureLogged(q)' <=> FailureLogged(q))
            BY <2>1, NothingDisturbed
        <3> QED BY <2>1, <3>1, <3>2, HandledRequest, StillAgrees DEF ConstraintInv
    <2> QED BY <1>1, <2>2, <2>3 DEF ConstraintInv
<1>3. ASSUME NEW t \in Handlers, NEW r \in Requests, Receive(t, r) PROVE Rest
    BY <1>3, ReceiveConstrains
<1>4. ASSUME NEW t \in Handlers, Handle(t) PROVE Rest
    BY <1>4, ReadConstrains, DecideConstrains, GiveUpConstrains, FinishConstrains DEF Handle
<1>5. ASSUME NEW t \in Threads \ Handlers, NEW e \in Events, Report(t, e) PROVE Rest
    BY <1>5, ReportConstrains
<1> QED BY <1>1, <1>2, <1>3, <1>4, <1>5 DEF RoutingNext, ConstraintInv

LEMMA ConstraintInit == RoutingInit => ConstraintInv
<1> SUFFICES ASSUME RoutingInit PROVE ConstraintInv
    OBVIOUS
<1>1. /\ \A s \in Sessions : sections[s] = NewSections
      /\ log = <<>> /\ chosen = <<>> /\ \A t \in Handlers : handling[t] = Idle
    BY DEF RoutingInit, Init
<1>2. SectionsSound
    <2>1. NewSections.models = {} /\ NewSections.required = {}
        BY DEF NewSections
    <2>2. Len(log) = 0 /\ 1..0 = {}
        BY <1>1
    <2>3. \A s : LastOfSession(s) = {}
        BY <2>2 DEF LastOfSession, LastTold
    <2> QED BY <1>1, <2>1, <2>3, NewIsSections DEF SectionsSound, Shows
<1>3. DOMAIN <<>> = {}
    OBVIOUS
<1>4. \A s : ~ FailureLogged(s)
    BY <1>1, <1>3 DEF FailureLogged
<1>5. <<>> \in Seq(ChosenSoFar)
    BY EmptySeq
<1>6. ChoicesAreSound
    BY <1>1, <1>3, <1>5 DEF ChoicesAreSound
<1>7. \A t \in Handlers : Agrees(t)
    BY <1>1 DEF Agrees, Handles
<1>8. Exclusive
    BY <1>1 DEF Exclusive
<1> QED BY <1>2, <1>4, <1>6, <1>7, <1>8 DEF ConstraintInv, FailuresRemembered

LEMMA ConstraintInvHolds ==
    ASSUME SerialClients, PredictorSpeaks, HarnessesAreQuiet
    PROVE  RoutingSpec => []ConstraintInv
<1>1. RoutingTypes /\ NoRequestIsLost /\ ConstraintInv /\ [RoutingNext]_routingVars
          => ConstraintInv'
    BY ConstraintStep
<1> QED BY <1>1, ConstraintInit, RoutingTypeCorrect, RequestsAreKept, PTL DEF RoutingSpec

\* Every request is sent to a target that has the capabilities and the context
\* this very request asked for, and the models: while clients wait for their
\* answers, no other request of the session comes between its MODEL_REQUESTED
\* event and its scheduling view.  A harness may begin an epoch whenever it
\* likes; from then on the request's event is refused, and the models are those
\* of the last request of the session before it, or any if there was none
\* (_record_model_request, append_event, get_scheduling_view, hard_filter).
THEOREM RequestsGoWhereTheyMay ==
    ASSUME SerialClients, PredictorSpeaks, HarnessesAreQuiet
    PROVE  RoutingSpec => []RoutedWithinConstraints
<1>1. ConstraintInv => RoutedWithinConstraints
    BY DEF ConstraintInv, ChoicesAreSound, ChoiceIsSound, RoutedWithinConstraints
<1> QED BY <1>1, ConstraintInvHolds, PTL

\* NoFeasibleTarget answers a request only if no target meets it, as far as
\* targets are up, local or reachable, and the session has no budget: what an
\* earlier request of the session was limited to limits no later one, but for
\* the last one the state was told of before a harness began another epoch
\* (to_state_payload, _apply_model_request, append_event, success_gate).
THEOREM RefusalsAreEarned ==
    ASSUME SerialClients, PredictorSpeaks, HarnessesAreQuiet, TargetsAreOpen
    PROVE  RoutingSpec => []RefusedOnlyIfUnmet
<1>1. ConstraintInv => RefusedOnlyIfUnmet
    BY DEF ConstraintInv, Agrees, Refuses, RefusedOnlyIfUnmet
<1> QED BY <1>1, ConstraintInvHolds, PTL

\* After a failure and before an answer, the session's requests go to a capable
\* target if one is eligible: the severity the failure left is in every view
\* read since, and above the threshold of critical_override (_record_failure,
\* _apply_failure, capable_only).
THEOREM RetriesAreCapable ==
    ASSUME SerialClients, PredictorSpeaks, HarnessesAreQuiet, FailuresAreHeeded
    PROVE  RoutingSpec => []NoCheapRetryAfterFailure
<1>1. ConstraintInv => NoCheapRetryAfterFailure
    BY DEF ConstraintInv, ChoicesAreSound, ChoiceIsSound, NoCheapRetryAfterFailure
<1> QED BY <1>1, ConstraintInvHolds, PTL
=============================================================================
