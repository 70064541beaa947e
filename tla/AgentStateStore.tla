-------------------------- MODULE AgentStateStore --------------------------
(***************************************************************************)
(* InMemoryStateStore (stateflow/state/store/in_memory.py): the agent      *)
(* state that harnesses and the gateway report to and the scheduler reads. *)
(*                                                                         *)
(* Every method is one critical section of _lock.  append_event calls the  *)
(* subscribers after it has released the lock; a routing decision is       *)
(* recorded in a later call than the one that read the view it was made    *)
(* from.  Those are the points where threads meet.                         *)
(***************************************************************************)
EXTENDS AgentSections, FiniteSets, SequencesExt

CONSTANTS
    Threads, Callbacks, Sessions,
    Events,         \* what producers may append
    Decisions,      \* what the scheduler may decide: model, tier, place
    Absent,         \* a session without a state, a thread without a view
    NoTarget,       \* no model or tier chosen yet
    MaxDecisions,   \* the decisions kept per session (the code keeps 1000)
    MaxLog, MaxIssued   \* bounds of the model

ASSUME StoreBounds ==
    MaxDecisions \in Nat \ {0} /\ MaxLog \in Nat /\ MaxIssued \in Nat

\* An order is <<epoch, sequence>>.
Orders == Int \X Int
Before(a, b) == a[1] < b[1] \/ (a[1] = b[1] /\ a[2] < b[2])
NoOrder == <<-1, -1>>

\* Sequence 0 asks the store to choose one.
ASSUME EventsAreTyped ==
    \A e \in Events :
        /\ e.session \in Sessions /\ e.epoch \in Int /\ e.sequence \in Int
        /\ Has(e, "header") => e.payload.header \in Orders
ASSUME AbsentIsNoOrder == Absent \notin Orders

VARIABLES
    header,       \* AgentState.header: epoch and sequence_number, or Absent
    sections,     \* the other sections an event may change
    routing,      \* AgentState.scheduling
    order,        \* _last_order
    log,          \* _events, with the order each event was applied under
    subscribers,  \* _subscribers
    owed,         \* the callback calls each thread still has to make
    view,         \* the view each thread read last and holds
    issued,       \* history: every state version handed out, in order
    answer,       \* history: the last AppendResult: its event and what became of it
    since,        \* history: length of the log when each callback subscribed
    heard         \* history: places in the log each callback was called with

states == <<header, sections, routing, order>>
observers == <<subscribers, since, heard>>
storeVars == <<states, log, observers, owed, view, issued, answer>>

NewRouting ==
    [model |-> NoTarget, tier |-> NoTarget, endpoint |-> NoTarget, replica |-> NoTarget,
     stable |-> 0, escalations |-> 0, streak |-> 0, decisions |-> <<>>]

\* A thread is inside append_event while it owes callback calls.
Free(t) == owed[t] = <<>>

(***************************************************************************)
(* append_event                                                            *)
(***************************************************************************)

\* The order under which an event is judged.
OrderOf(e) ==
    LET last == order[e.session]
    IN IF e.sequence > 0 THEN <<e.epoch, e.sequence>>
       ELSE IF e.epoch = last[1] THEN <<e.epoch, last[2] + 1>>
       ELSE <<e.epoch, 1>>

\* Mutant: an event with the order of the last one is applied again.
AdvancesOrRepeats(e) == ~ Before(OrderOf(e), order[e.session])

\* Whether the order is new; otherwise the event is refused.
Advances(e) == Before(order[e.session], OrderOf(e))

Sections(s) == IF header[s] = Absent THEN NewSections ELSE sections[s]
Routing(s) == IF header[s] = Absent THEN NewRouting ELSE routing[s]

AppendEvent(t, e) ==
    /\ Free(t) /\ Advances(e) /\ ~ Raises(e)
    /\ Len(log) < MaxLog /\ Len(issued) < MaxIssued
    /\ sections' = [sections EXCEPT ![e.session] = Applied(Sections(e.session), e)]
    /\ routing' = [routing EXCEPT ![e.session] = Routing(e.session)]
    /\ header' = [header EXCEPT ![e.session] = OrderOf(e)]
    /\ order' = [order EXCEPT ![e.session] = OrderOf(e)]
    /\ log' = Append(log, [event |-> e, order |-> OrderOf(e)])
    /\ issued' = Append(issued, [session |-> e.session, order |-> OrderOf(e)])
    /\ owed' = [owed EXCEPT ![t] = [i \in DOMAIN subscribers |->
                                       [callback |-> subscribers[i], at |-> Len(log) + 1]]]
    /\ answer' = [event |-> e, outcome |-> "accepted"]
    /\ UNCHANGED <<observers, view>>

Refusal(e) == IF OrderOf(e) = order[e.session] THEN "duplicate" ELSE "stale"

\* Mutant: the event is applied before its order is looked at.
RefuseTooLate(t, e) ==
    /\ Free(t) /\ ~ Advances(e)
    /\ sections' = [sections EXCEPT ![e.session] = Applied(@, e)]
    /\ answer' = [event |-> e, outcome |-> Refusal(e)]
    /\ UNCHANGED <<header, routing, order, log, observers, owed, view, issued>>

\* A duplicate or stale event changes nothing.
RefuseEvent(t, e) ==
    /\ Free(t) /\ ~ Advances(e)
    /\ answer' = [event |-> e, outcome |-> Refusal(e)]
    /\ UNCHANGED <<states, log, observers, owed, view, issued>>

\* _apply_event raises: the state keeps what was assigned before, a header
\* patch included, but the event is not logged and its order not taken.
AbortEvent(t, e) ==
    /\ Free(t) /\ Advances(e) /\ Raises(e)
    /\ sections' = [sections EXCEPT ![e.session] = Applied(Sections(e.session), e)]
    /\ routing' = [routing EXCEPT ![e.session] = Routing(e.session)]
    /\ header' = [header EXCEPT ![e.session] =
                     Sent(e, "header", IF @ = Absent THEN <<0, 0>> ELSE @)]
    /\ answer' = [event |-> e, outcome |-> "raised"]
    /\ UNCHANGED <<order, log, observers, owed, view, issued>>

\* get_or_create
GetOrCreate(s) ==
    /\ header[s] = Absent
    /\ header' = [header EXCEPT ![s] = <<0, 0>>]
    /\ sections' = [sections EXCEPT ![s] = NewSections]
    /\ routing' = [routing EXCEPT ![s] = NewRouting]
    /\ UNCHANGED <<order, log, observers, owed, view, issued, answer>>

\* Mutant: the first observer that raises ends the loop.
ObserveStopsAtFirst(t) ==
    /\ owed[t] # <<>>
    /\ owed' = [owed EXCEPT ![t] = <<>>]
    /\ heard' = [heard EXCEPT ![Head(owed[t]).callback] = Append(@, Head(owed[t]).at)]
    /\ UNCHANGED <<states, log, subscribers, since, view, issued, answer>>

\* callback(event, state_copy); an exception of the callback is swallowed.
Observe(t) ==
    /\ owed[t] # <<>>
    /\ owed' = [owed EXCEPT ![t] = Tail(@)]
    /\ heard' = [heard EXCEPT ![Head(owed[t]).callback] = Append(@, Head(owed[t]).at)]
    /\ UNCHANGED <<states, log, subscribers, since, view, issued, answer>>

Subscribed(c) == \E i \in DOMAIN subscribers : subscribers[i] = c

\* Each callback value stands for one subscription.
Subscribe(c) ==
    /\ ~ Subscribed(c)
    /\ subscribers' = Append(subscribers, c)
    /\ since' = [since EXCEPT ![c] = Len(log)]
    /\ UNCHANGED <<states, log, heard, owed, view, issued, answer>>

(***************************************************************************)
(* The scheduler's view and its decision                                   *)
(***************************************************************************)

\* build_scheduling_view; a session without a state reads as a new one.
ViewOf(s) ==
    LET q == Sections(s)
        r == Routing(s)
    IN [session  |-> s,
        version  |-> IF header[s] = Absent THEN 0 ELSE header[s][2],
        phase    |-> q.phase,
        runnable |-> q.runnable,
        turn     |-> q.turn,
        severity |-> q.severity,
        critical |-> q.critical,
        streak   |-> AtLeast(q.streak, r.streak),
        failures |-> q.failures,
        compaction |-> q.compaction,
        required |-> q.required,
        models   |-> q.models,
        budget   |-> q.budget,
        endpoint |-> r.endpoint,
        replica  |-> r.replica,
        model    |-> r.model,
        tier     |-> r.tier,
        stable   |-> r.stable]

GetSchedulingView(t, s) ==
    /\ Free(t) /\ view[t] = Absent
    /\ view' = [view EXCEPT ![t] = ViewOf(s)]
    /\ UNCHANGED <<states, log, observers, owed, issued, answer>>

LastOf(seq, n) == SubSeq(seq, IF Len(seq) > n THEN Len(seq) - n + 1 ELSE 1, Len(seq))

\* The routing history after a decision made from view v.
Routed(r, v, d) ==
    [model       |-> d.model,
     tier        |-> d.tier,
     endpoint    |-> d.endpoint,
     replica     |-> d.replica,
     stable      |-> IF d.tier = r.tier THEN r.stable + 1 ELSE 1,
     escalations |-> IF r.tier \notin {NoTarget, d.tier} THEN r.escalations + 1 ELSE r.escalations,
     streak      |-> v.streak,
     decisions   |-> LastOf(Append(r.decisions, d), MaxDecisions)]

\* The version a decision takes.
DecisionOrder(s) ==
    IF header[s] = Absent THEN <<0, 1>> ELSE <<header[s][1], header[s][2] + 1>>

\* Mutant: the decision's version is not reserved in the order tracker.
RecordUnreserved(t, d) ==
    /\ Free(t) /\ view[t] # Absent
    /\ Len(issued) < MaxIssued
    /\ LET s == view[t].session IN
          /\ sections' = [sections EXCEPT ![s] = Sections(s)]
          /\ routing' = [routing EXCEPT ![s] = Routed(Routing(s), view[t], d)]
          /\ header' = [header EXCEPT ![s] = DecisionOrder(s)]
          /\ issued' = Append(issued, [session |-> s, order |-> DecisionOrder(s)])
    /\ view' = [view EXCEPT ![t] = Absent]
    /\ UNCHANGED <<order, log, observers, owed, answer>>

\* record_routing_decision takes a version of its own and reserves it.
RecordDecision(t, d) ==
    /\ Free(t) /\ view[t] # Absent
    /\ Len(issued) < MaxIssued
    /\ LET s == view[t].session IN
          /\ sections' = [sections EXCEPT ![s] = Sections(s)]
          /\ routing' = [routing EXCEPT ![s] = Routed(Routing(s), view[t], d)]
          /\ header' = [header EXCEPT ![s] = DecisionOrder(s)]
          /\ order' = [order EXCEPT ![s] = DecisionOrder(s)]
          /\ issued' = Append(issued, [session |-> s, order |-> DecisionOrder(s)])
    /\ view' = [view EXCEPT ![t] = Absent]
    /\ UNCHANGED <<log, observers, owed, answer>>

(***************************************************************************)
(* The specification                                                       *)
(***************************************************************************)
Init ==
    /\ header = [s \in Sessions |-> Absent]
    /\ sections = [s \in Sessions |-> NewSections]
    /\ routing = [s \in Sessions |-> NewRouting]
    /\ order = [s \in Sessions |-> NoOrder]
    /\ log = <<>> /\ issued = <<>> /\ answer = Absent
    /\ subscribers = <<>>
    /\ owed = [t \in Threads |-> <<>>]
    /\ view = [t \in Threads |-> Absent]
    /\ since = [c \in Callbacks |-> 0]
    /\ heard = [c \in Callbacks |-> <<>>]

\* What a thread that calls the store may do next, given events to append.
ThreadStep(t, offered) ==
    \/ \E e \in offered : AppendEvent(t, e)
    \/ \E e \in offered : RefuseEvent(t, e)
    \/ \E e \in offered : AbortEvent(t, e)
    \/ Observe(t)
    \/ \E s \in Sessions : GetSchedulingView(t, s)
    \/ \E d \in Decisions : RecordDecision(t, d)

\* The calls that leave the calling thread as it is.
SharedStep == (\E s \in Sessions : GetOrCreate(s)) \/ (\E c \in Callbacks : Subscribe(c))

Next == (\E t \in Threads : ThreadStep(t, Events)) \/ SharedStep

\* A thread inside append_event makes its callback calls.
Fairness == \A t \in Threads : WF_storeVars(Observe(t))

Spec == Init /\ [][Next]_storeVars /\ Fairness

(***************************************************************************)
(* What the store promises                                                 *)
(***************************************************************************)

\* Types, and that the header of a state carries the order the next event is
\* judged by, once there is one (append_event, record_routing_decision).
TypeOK ==
    /\ header \in [Sessions -> Orders \cup {Absent}]
    /\ order \in [Sessions -> Orders]
    /\ log \in Seq([event : Events, order : Orders])
    /\ issued \in Seq([session : Sessions, order : Orders])
    /\ answer \in {Absent} \cup
          [event : Events, outcome : {"accepted", "duplicate", "stale", "raised"}]
    /\ subscribers \in Seq(Callbacks)
    /\ owed \in [Threads -> Seq([callback : Callbacks, at : Nat])]
    /\ heard \in [Callbacks -> Seq(Nat)] /\ since \in [Callbacks -> Nat]
    /\ DOMAIN sections = Sessions /\ DOMAIN routing = Sessions
    /\ DOMAIN view = Threads
    /\ \A t \in Threads : view[t] # Absent => view[t].session \in Sessions
    /\ \A s \in Sessions :
          \/ header[s] = order[s]
          \/ order[s] = NoOrder /\ header[s] \in {Absent, <<0, 0>>}

\* Every state version the store hands out, for an event or for a routing
\* decision, lies above all it handed out for the session before: a version
\* names one state, whatever mixture of self-numbered events, auto-numbered
\* events and decisions made it (append_event, record_routing_decision).
VersionsHandedOutInOrder ==
    \A i, j \in DOMAIN issued :
        i < j /\ issued[i].session = issued[j].session
            => Before(issued[i].order, issued[j].order)

\* An event its producer numbered is applied at most once however often it
\* is sent again (the de-duplication of append_event).
NumberedEventsAppliedOnce ==
    \A i, j \in DOMAIN log :
        i # j /\ log[i].event = log[j].event => log[i].event.sequence <= 0

\* The state of a session is what replaying its event log from a new state
\* gives: refused events left no trace, and no logged event lacks its effect
\* (append_event, _apply_event).  Events that raise when half of their effect is
\* assigned are left out: the state keeps that half, and the log has no such event.
Replay(s) ==
    LET made[n \in 0..Len(log)] ==
            IF n = 0 THEN NewSections
            ELSE IF log[n].event.session = s THEN Applied(made[n - 1], log[n].event)
            ELSE made[n - 1]
    IN made[Len(log)]

SnapshotIsReplay ==
    \A s \in Sessions : header[s] # Absent => sections[s] = Replay(s)

\* The reports on tools in log l of session s, and those that start one.
ToolTypes == {"TOOL_STARTED", "TOOL_PROGRESS", "TOOL_RESULT"}

IsReport(l, s, n) ==
    n \in DOMAIN l /\ l[n].event.session = s /\ l[n].event.type \in ToolTypes

IsStart(l, s, n) == IsReport(l, s, n) /\ l[n].event.type = "TOOL_STARTED"

StartedLast(l, s, m, n) ==
    IsStart(l, s, m) /\ m <= n /\ \A k \in (m + 1)..n : ~ IsStart(l, s, k)

\* Report n means the tool it names, or the one started last before it.
Means(l, s, n, name) ==
    /\ IsReport(l, s, n)
    /\ IF Has(l[n].event, "name") THEN name = l[n].event.payload.name
       ELSE \E m \in 1..(n - 1) : /\ StartedLast(l, s, m, n - 1)
                                  /\ name = Sent(l[m].event, "name", NoName)

ToolNames(l, s) ==
    {l[n].event.payload.name :
        n \in {m \in DOMAIN l : IsReport(l, s, m) /\ Has(l[m].event, "name")}}

\* A harness names its tools: a start gives an id and a name, other reports mean
\* a tool by an id, or one that was reported of before; an id is of one tool, but
\* a tool may be called under many ids.
NamesItsTools(l, s) ==
    \A n \in DOMAIN l : IsReport(l, s, n) =>
        LET e == l[n].event IN
        /\ IsStart(l, s, n) => Has(e, "tool") /\ Has(e, "name")
        /\ Has(e, "tool") => e.payload.tool # NoName
        /\ \E name \in ToolNames(l, s) \ {NoName} :
              /\ Means(l, s, n, name)
              /\ Has(e, "tool") \/ \E m \in 1..(n - 1) : Means(l, s, m, name)
              /\ \A m \in DOMAIN l :
                    /\ IsReport(l, s, m) /\ Has(e, "tool") /\ Has(l[m].event, "tool")
                    /\ l[m].event.payload.tool = e.payload.tool
                    => Means(l, s, m, name)

SaysStatus(e) == e.type # "TOOL_PROGRESS" \/ Has(e, "status")
StatusOf(e) == Sent(e, "status", IF e.type = "TOOL_STARTED" THEN "RUNNING" ELSE "RESULT_READY")

\* A listed tool has the status that was reported of it last, and the id it was
\* started under last.
ToldOf(tool, l, s) ==
    \A n \in {m \in DOMAIN l : Means(l, s, m, tool.name)} :
        LET later == {m \in (n + 1)..Len(l) : Means(l, s, m, tool.name)} IN
        /\ SaysStatus(l[n].event) /\ (\A m \in later : ~ SaysStatus(l[m].event))
               => tool.status = StatusOf(l[n].event)
        /\ IsStart(l, s, n) /\ (\A m \in later : ~ IsStart(l, s, m))
               => tool.id = l[n].event.payload.tool

\* Every tool that was named is listed once, in the state its reports left it
\* in, whatever reports of other tools came between (_find_tool, its callers).
\* Calls of one tool under different ids are one entry: the newest start's.
\* Left out are sessions with reports that do not tell which tool they mean: a
\* start without an id, a report by the id of one tool while another is the last
\* that was started.
ToolsMatchLog ==
    \A s \in Sessions : NamesItsTools(log, s) =>
        LET tools == sections[s].tools IN
        /\ \A i, j \in DOMAIN tools : tools[i].name = tools[j].name => i = j
        /\ {tools[i].name : i \in DOMAIN tools} = ToolNames(log, s)
        /\ \A i \in DOMAIN tools : ToldOf(tools[i], log, s)

\* The context of a session is never smaller than the prompt it sends, which
\* the scheduler checks context windows by (_set_section, _apply_model_request,
\* _apply_tool_result).
ContextCoversPrompt == \A s \in Sessions : sections[s].total >= sections[s].prompt

\* What the scheduler and the harnesses read of a session after its tools ran in
\* parallel and its context was patched in parts.
SectionsMatchLog == ToolsMatchLog /\ ContextCoversPrompt

\* What append_event calls a duplicate was applied before.
OnlyRepeatsAreDuplicates ==
    answer # Absent /\ answer.outcome = "duplicate"
        => \E i \in DOMAIN log : log[i].event = answer.event

\* Every subscriber is called once for each event logged since it subscribed,
\* or the appending thread still owes it the call (append_event).
CallsFor(c, n) ==
    Cardinality({i \in DOMAIN heard[c] : heard[c][i] = n})
        + Cardinality({t \in Threads : \E i \in DOMAIN owed[t] :
                          owed[t][i] = [callback |-> c, at |-> n]})

EventsHeardOnce ==
    \A c \in Callbacks, n \in DOMAIN log :
        CallsFor(c, n) = IF Subscribed(c) /\ n > since[c] THEN 1 ELSE 0

\* Whoever else raises, every subscriber hears of every event logged since it
\* subscribed (append_event's loop over the captured callbacks).
EveryEventIsHeard ==
    \A n \in 1..MaxLog :
        (Len(log) >= n) ~> (\A c \in Callbacks :
            Subscribed(c) /\ since[c] < n => \E i \in DOMAIN heard[c] : heard[c][i] = n)
============================================================================
