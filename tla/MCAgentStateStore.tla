------------------------- MODULE MCAgentStateStore -------------------------
(***************************************************************************)
(* Instances of AgentStateStore for TLC.                                   *)
(***************************************************************************)
EXTENDS AgentStateStore

CONSTANTS s1, s2, toolA, toolB, toolC

Ev(type, epoch, sequence, payload) ==
    [session |-> s1, type |-> type, epoch |-> epoch, sequence |-> sequence,
     turn |-> 0, payload |-> payload]

None == <<>>   \* the empty payload

\* A harness that numbers its events and restarts once with a new epoch; it calls
\* one of its tools twice, and tells the second result by its id alone.
HarnessEvents ==
    {Ev("MODEL_REQUESTED", 0, 1, [prompt |-> 2, context |-> [prompt |-> 3, total |-> 1]]),
     Ev("TOOL_STARTED", 0, 2, [tool |-> toolA, name |-> "read"]),
     Ev("TOOL_STARTED", 0, 3, [tool |-> toolB, name |-> "search"]),
     Ev("TOOL_PROGRESS", 0, 4, [tool |-> toolA, name |-> "read", progress |-> 50, status |-> "WAITING_IO"]),
     Ev("TOOL_RESULT", 0, 5, [tool |-> toolA, name |-> "read", tokens |-> 2]),
     Ev("TOOL_STARTED", 0, 6, [tool |-> toolC, name |-> "read"]),
     Ev("TOOL_RESULT", 0, 7, [tool |-> toolC, tokens |-> 1]),
     Ev("MODEL_RESPONSE", 1, 1, [success |-> FALSE, output |-> 1, severity |-> 40]),
     Ev("PATCH", 1, 2, [patch |-> [phase |-> "BLOCKED", prompt |-> 9]]),
     Ev("FAILED", 1, 3, [severity |-> 80, critical |-> TRUE]),
     Ev("MODEL_RESPONSE", 1, 4, [output |-> 2, next |-> "TERMINATE"])}

\* A response whose token count does not convert: append_event raises before any
\* section has changed.
UnreadableEvents == {Ev("MODEL_RESPONSE", 1, 5, [output |-> Malformed])}

\* The rest of its vocabulary, after another restart.
LifeEvents ==
    {Ev("TASK_STARTED", 2, 1, None),
     [Ev("TURN_STARTED", 2, 2, [patch |-> [prompt |-> 4]]) EXCEPT !.turn = 2],
     Ev("MODEL_PREFILL", 2, 3, None), Ev("MODEL_DECODE", 2, 4, None),
     Ev("MODEL_RESPONSE", 2, 5, [next |-> "TOOL", progress |-> 40]),
     Ev("TOOL_PROGRESS", 2, 6, [progress |-> 30]),
     [Ev("TURN_STARTED", 3, 1, None) EXCEPT !.turn = 1],
     Ev("CONTEXT_COMPACTED", 3, 2, [patch |-> [total |-> 1]]),
     Ev("TASK_COMPLETED", 3, 3, None)}

AllEvents == HarnessEvents \cup LifeEvents \cup UnreadableEvents

\* The gateway and a harness that both report to one session.
GatewayAndHarness ==
    {Ev("MODEL_REQUESTED", 0, 0, [prompt |-> 1]),
     Ev("TASK_STARTED", 0, 1, None), Ev("TOOL_STARTED", 0, 2, [tool |-> toolA, name |-> "read"])}

\* A bound of the replay instance: its observer subscribes before the first event.
ObserverComesFirst == \A c \in Callbacks : log # <<>> => Subscribed(c) /\ since[c] = 0

OneDecision == {[model |-> "small", tier |-> "efficient", endpoint |-> "e1", replica |-> "r1"]}
NoDecisions == {}
============================================================================
