------------------------- MODULE MCHarnessReporter -------------------------
(***************************************************************************)
(* An instance of HarnessReporter for TLC: one session that a harness      *)
(* reports to in the background and the gateway appends to directly.       *)
(***************************************************************************)
EXTENDS HarnessReporter

CONSTANTS s1, toolA

\* What the gateway appends itself.
DirectEvents ==
    {[session |-> s1, type |-> "MODEL_REQUESTED", epoch |-> 0, sequence |-> 0, turn |-> 0,
      payload |-> <<>>]}

\* A numbered call, and one without a number whose token count does not convert.
MCNativeCalls ==
    {[hook |-> "on_task_start", session |-> s1, epoch |-> 0, sequence |-> 2, turn |-> 0,
      fields |-> [messages |-> "text"]],
     [hook |-> "on_tool_result", session |-> s1, epoch |-> 1, sequence |-> 0, turn |-> 1,
      fields |-> [tool |-> toolA, tokens |-> Malformed, result |-> "text"]]}

AllEvents == DirectEvents \cup {ReportOf(call) : call \in MCNativeCalls}

OneDecision == {[model |-> "small", tier |-> "efficient", endpoint |-> "e1", replica |-> "r1"]}
=============================================================================
