--------------------------- MODULE AgentSections ---------------------------
(***************************************************************************)
(* What one event does to the sections of an AgentState:                   *)
(* InMemoryStateStore._apply_event and its helpers                         *)
(* (stateflow/state/store/in_memory.py).                                   *)
(*                                                                         *)
(* Only the fields a scheduling view is built from and that depend on      *)
(* earlier events are kept.  A payload is a record with the keys the       *)
(* producer sent; Malformed is a value int() or float() rejects.  The      *)
(* helpers assign field by field, so an event that raises leaves behind    *)
(* what it had assigned before: Applied gives that state, Raises says      *)
(* whether the call then ends in an exception.                             *)
(***************************************************************************)
EXTENDS Integers, Sequences

CONSTANTS
    Malformed,   \* a payload value that does not convert
    NoName       \* the empty tool id or tool name

Has(event, key) == key \in DOMAIN event.payload
Sent(event, key, default) == IF Has(event, key) THEN event.payload[key] ELSE default
IsMalformed(event, key) == Has(event, key) /\ event.payload[key] = Malformed

AtLeast(a, b) == IF a >= b THEN a ELSE b
Clamped(percent) == IF percent < 0 THEN 0 ELSE IF percent > 100 THEN 100 ELSE percent

\* AgentState(), as far as it is modelled; scores are percentages.
NewSections ==
    [phase |-> "CREATED", runnable |-> FALSE, progress |-> 0, turn |-> 0,
     prompt |-> 0, total |-> 0, compaction |-> FALSE,
     tools |-> <<>>, lastTool |-> NoName,
     retries |-> 0, streak |-> 0, severity |-> 0, critical |-> FALSE,
     failures |-> 0, noProgress |-> 0,
     required |-> {}, models |-> {}, budget |-> {}]

InPhase(s, phase, runnable) == [s EXCEPT !.phase = phase, !.runnable = runnable]

(***************************************************************************)
(* Context and progress                                                    *)
(***************************************************************************)

\* _set_section: fields the section does not have are ignored.
Overlaid(s, patch) == [f \in DOMAIN s |-> IF f \in DOMAIN patch THEN patch[f] ELSE s[f]]

\* _set_section of "context": the prompt is a lower bound of the context.
ContextPatched(s, patch) ==
    LET t == Overlaid(s, patch) IN [t EXCEPT !.total = AtLeast(@, t.prompt)]

\* _set_progress
Progressed(s, percent) ==
    [s EXCEPT !.progress = Clamped(percent),
              !.noProgress = IF Clamped(percent) > s.progress THEN 0 ELSE @ + 1]

(***************************************************************************)
(* Failures                                                                *)
(***************************************************************************)

\* _apply_failure; the streak is counted before the severity is converted.
Failed(s, event) ==
    LET counted == [s EXCEPT !.retries = @ + 1, !.streak = @ + 1]
    IN IF IsMalformed(event, "severity") THEN counted
       ELSE InPhase([counted EXCEPT
                        !.severity = AtLeast(@, Clamped(Sent(event, "severity", 0))),
                        !.critical = Sent(event, "critical", FALSE),
                        !.failures = counted.streak],
                    "REPLANNING", TRUE)

(***************************************************************************)
(* The model                                                               *)
(***************************************************************************)

\* Mutant: a request without constraints leaves those of the one before.
ConstrainedIfAny(s, event) ==
    LET sent == Sent(event, "constraints", <<>>)
        kept == {f \in DOMAIN sent : sent[f] # {}}
    IN Overlaid(s, [f \in kept |-> sent[f]])

\* The capabilities, allowed models and budget a request brings along; a
\* request without a budget leaves the one before.
Constrained(s, event) == Overlaid(s, Sent(event, "constraints", <<>>))

\* _apply_model_request
Requested(s, event) ==
    LET queued == InPhase(s, "MODEL_QUEUED", TRUE)
        tokens == AtLeast(Sent(event, "prompt", 0), 0)
        asked  == IF Has(event, "prompt")
                  THEN [queued EXCEPT !.prompt = tokens, !.total = AtLeast(@, tokens)]
                  ELSE queued
        grown  == IF Has(event, "context")
                  THEN ContextPatched(asked, event.payload.context) ELSE asked
    IN IF IsMalformed(event, "prompt") THEN queued ELSE Constrained(grown, event)

Succeeded(event) == Sent(event, "success", TRUE)

\* _apply_model_response
Responded(s, event) ==
    LET grown  == [s EXCEPT !.total = @ + AtLeast(Sent(event, "output", 0), 0)]
        moved  == IF Has(event, "progress")
                  THEN Progressed(grown, event.payload.progress) ELSE grown
        next   == Sent(event, "next", "")
        placed == IF next = "TERMINATE"
                  THEN InPhase([moved EXCEPT !.progress = 100], "COMPLETED", FALSE)
                  ELSE IF next = "TOOL" THEN InPhase(moved, "TOOL_PREPARING", FALSE)
                  ELSE InPhase(moved, "PLANNING", TRUE)
    IN IF IsMalformed(event, "output") THEN s
       ELSE IF IsMalformed(event, "progress") THEN grown
       ELSE IF Succeeded(event) THEN [placed EXCEPT !.streak = 0, !.failures = 0]
       ELSE Failed(placed, event)

(***************************************************************************)
(* Tools                                                                   *)
(***************************************************************************)
Tool(id, name, status) == [id |-> id, name |-> name, status |-> status]

\* The id of a tool whose event names none.
FreshId(tools) == <<"tool", Len(tools) + 1>>

Matches(tool, id, name) ==
    \/ id # NoName /\ tool.id = id
    \/ name # NoName /\ tool.name = name

\* _find_tool: the place of the first match, or the place after the last tool.
ToolAt(tools, id, name) ==
    LET found == {i \in DOMAIN tools : Matches(tools[i], id, name)}
    IN IF found = {} THEN Len(tools) + 1
       ELSE CHOOSE i \in found : \A j \in found : i <= j

\* The tools with the one at place i, new or not, replaced.
WithTool(tools, i, tool) == [j \in 1..AtLeast(Len(tools), i) |->
                                IF j = i THEN tool ELSE tools[j]]

\* _apply_tool_started
ToolStarted(s, event) ==
    LET id == Sent(event, "tool", FreshId(s.tools))
        i  == ToolAt(s.tools, id, Sent(event, "name", "unknown"))
        name == IF Has(event, "name") \/ i > Len(s.tools)
                THEN Sent(event, "name", "unknown") ELSE s.tools[i].name
    IN InPhase([s EXCEPT !.tools = WithTool(@, i, Tool(id, name, Sent(event, "status", "RUNNING"))),
                         !.lastTool = name],
               "TOOL_RUNNING", FALSE)

\* Mutant: an event is about the tool started last, whatever its id.
ToolMeantLast(s, event) ==
    LET i == ToolAt(s.tools, NoName, s.lastTool)
    IN [place |-> i,
        tool  |-> IF i <= Len(s.tools) THEN s.tools[i] ELSE Tool(NoName, "unknown", "PREPARING")]

\* The tool a progress or result event is about, created when unknown.
ToolMeant(s, event) ==
    LET id   == Sent(event, "tool", NoName)
        name == Sent(event, "name", s.lastTool)
        i    == ToolAt(s.tools, id, name)
    IN [place |-> i,
        tool  |-> IF i <= Len(s.tools) THEN s.tools[i]
                  ELSE Tool(IF id = NoName THEN FreshId(s.tools) ELSE id,
                          IF name = NoName THEN "unknown" ELSE name, "PREPARING")]

\* _apply_tool_progress
ToolProgressed(s, event) ==
    LET meant   == ToolMeant(s, event)
        status  == Sent(event, "status", meant.tool.status)
        tracked == [s EXCEPT !.tools = WithTool(@, meant.place, [meant.tool EXCEPT !.status = status])]
        moved   == IF Has(event, "progress")
                   THEN Progressed(tracked, event.payload.progress) ELSE tracked
    IN IF IsMalformed(event, "progress") THEN tracked
       ELSE InPhase(moved, IF status = "WAITING_IO" THEN "TOOL_WAITING" ELSE "TOOL_RUNNING", FALSE)

\* _apply_tool_result
ToolReturned(s, event) ==
    LET meant    == ToolMeant(s, event)
        status   == Sent(event, "status", "RESULT_READY")
        returned == [s EXCEPT !.tools = WithTool(@, meant.place, [meant.tool EXCEPT !.status = status])]
        total    == s.total + AtLeast(Sent(event, "tokens", 0), 0)
    IN IF IsMalformed(event, "tokens") THEN returned
       ELSE InPhase([returned EXCEPT !.total = total, !.prompt = AtLeast(@, total)],
                    "TOOL_RESULT_READY", TRUE)

(***************************************************************************)
(* Every event                                                             *)
(***************************************************************************)

\* _apply_patch, and the section updates of the other events.
Patched(s, event) ==
    LET patch == Sent(event, "patch", <<>>)
    IN IF DOMAIN patch \cap {"prompt", "total", "compaction"} = {}
       THEN Overlaid(s, patch) ELSE ContextPatched(s, patch)

\* _apply_event; types that share a branch of the code share a name here.
Effect(s, event) ==
    CASE event.type = "TASK_STARTED"      -> InPhase(s, "RUNNABLE", TRUE)
      [] event.type = "TURN_STARTED"      ->
            InPhase([Patched(s, event) EXCEPT !.turn = event.turn], "RUNNABLE", TRUE)
      [] event.type = "MODEL_REQUESTED"   -> Requested(s, event)
      [] event.type = "MODEL_PREFILL"     -> InPhase(s, "MODEL_PREFILL", TRUE)
      [] event.type = "MODEL_DECODE"      -> InPhase(s, "MODEL_DECODE", TRUE)
      [] event.type = "MODEL_RESPONSE"    -> Responded(s, event)
      [] event.type = "TOOL_STARTED"      -> ToolStarted(s, event)
      [] event.type = "TOOL_PROGRESS"     -> ToolProgressed(s, event)
      [] event.type = "TOOL_RESULT"       -> ToolReturned(s, event)
      [] event.type = "CONTEXT_COMPACTED" -> [Patched(s, event) EXCEPT !.compaction = FALSE]
      [] event.type = "FAILED"            -> Failed(s, event)
      [] event.type = "TASK_COMPLETED"    -> InPhase([s EXCEPT !.progress = 100], "COMPLETED", FALSE)
      [] OTHER                            -> Patched(s, event)

\* The keys an event of each type has converted, in no order.
Converts(event) ==
    CASE event.type = "MODEL_REQUESTED" -> {"prompt"}
      [] event.type = "MODEL_RESPONSE"  ->
            {"output", "progress"} \cup (IF Succeeded(event) THEN {} ELSE {"severity"})
      [] event.type = "TOOL_PROGRESS"   -> {"progress"}
      [] event.type = "TOOL_RESULT"     -> {"tokens"}
      [] event.type = "FAILED"          -> {"severity"}
      [] event.type = "PATCH"           -> {"fields"}
      [] OTHER                          -> {}

Raises(event) == \E key \in Converts(event) : IsMalformed(event, key)

\* append_event, after _apply_event: only TURN_STARTED moves the turn back.
Applied(s, event) ==
    LET t == Effect(s, event)
    IN IF Raises(event) THEN t ELSE [t EXCEPT !.turn = AtLeast(@, event.turn)]
============================================================================
