-------------------------- MODULE MCRequestRouting --------------------------
(***************************************************************************)
(* Instances of RequestRouting for TLC: an efficient target and a frontier *)
(* one that is slower, within the margins of success and cost, and         *)
(* requests that fit one, both or neither.                                 *)
(***************************************************************************)
EXTENDS RequestRouting

CONSTANTS s1, s2, g1, g2

\* The handlers do the same.
Symmetric == Permutations({g1, g2})

DefaultConfig ==
    [sMin |-> 90000, epsilonSuccess |-> 3000, beta |-> 100, epsilonCost |-> 5,
     lambda |-> 100, severity |-> 75, streak |-> 2, spinning |-> 70,
     completeness |-> 50, uncertainty |-> 25000, stable |-> 2]

Efficient ==
    [place |-> 1, model |-> "small", endpoint |-> 1, replica |-> 1,
     tier |-> "efficient", rank |-> 0,
     ready |-> TRUE, window |-> 20, capabilities |-> {"chat"}, domain |-> 1,
     requiresRemote |-> FALSE, supportsRemote |-> FALSE,
     cost |-> 94, perPrompt |-> 0, perOutput |-> 0, fetch |-> 0, recompute |-> 0,
     overhead |-> 0, retry |-> 50, reuse |-> 0, local |-> 0, remote |-> 0,
     queue |-> 1, fetchTime |-> 0, recomputeTime |-> 0, prefillTime |-> 0, decodeTime |-> 0,
     load |-> 1, sessionLocal |-> FALSE, success |-> 96000, uncertainty |-> 1000,
     strange |-> FALSE, broken |-> FALSE]

Frontier ==
    [Efficient EXCEPT !.place = 2, !.model = "large", !.endpoint = 2, !.replica = 2,
                      !.tier = "frontier", !.capabilities = {"chat", "tools"},
                      !.cost = 99, !.queue = 9, !.success = 98000]

Both == {Efficient, Frontier}

\* Profile: the predictor says what the target's profile says.
Profile(v, t) == [success |-> t.success, uncertainty |-> t.uncertainty, strange |-> t.strange]

\* A session whose harness lets everything be seen.
Seen ==
    [prompt |-> 0, output |-> 0, required |-> {}, models |-> {}, domains |-> {},
     remoteAllowed |-> TRUE, budget |-> {}, turn |-> 0, phase |-> "CREATED",
     severity |-> 0, streak |-> 0, failures |-> 0, critical |-> FALSE, compaction |-> FALSE,
     criticalStep |-> FALSE, sensitive |-> FALSE, spinning |-> 0, recovery |-> 0,
     completeness |-> 100, exploring |-> 0, production |-> 0, verification |-> 0,
     stability |-> 0, truncation |-> 0, worth |-> 0, penalty |-> 3,
     model |-> NoTarget, tier |-> NoTarget, stable |-> 0, replica |-> NoTarget,
     endpoint |-> NoTarget]

Request(s, turn) ==
    [session |-> s, turn |-> turn, prompt |-> 4, output |-> 2,
     required |-> {}, models |-> {}, budget |-> {}]

\* Plain requests and one that no target can serve; and a session whose
\* harness may move to another epoch than the gateway's before, between and after
\* two requests that want different models.
Conversation ==
    {Request(s1, 1), Request(s1, 2),
     [Request(s1, 3) EXCEPT !.models = {"small"}, !.required = {"tools"}],
     [Request(s2, 1) EXCEPT !.models = {"small"}],
     [Request(s2, 2) EXCEPT !.models = {"large"}, !.required = {"tools"}]}

Tell(type, payload) ==
    [session |-> s1, type |-> type, epoch |-> 0, sequence |-> 0, turn |-> 0, payload |-> payload]

\* A harness restarts.
Reports == {[Tell("TASK_STARTED", <<>>) EXCEPT !.session = s2, !.epoch = 1, !.sequence = 1]}

\* Two requests of one session that want different models.
Opposed ==
    {[Request(s1, 1) EXCEPT !.models = {"small"}], [Request(s1, 2) EXCEPT !.models = {"large"}]}
=============================================================================
