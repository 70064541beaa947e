-------------------------- MODULE MCSchedulerCalls --------------------------
(***************************************************************************)
(* An instance of SchedulerCalls for TLC: the default SchedulerConfig, a   *)
(* pool of targets of every tier with and without replicas, and views      *)
(* around every threshold.                                                 *)
(***************************************************************************)
EXTENDS SchedulerCalls, FiniteSets

DefaultConfig ==
    [sMin |-> 90000, epsilonSuccess |-> 3000, beta |-> 100, epsilonCost |-> 5,
     lambda |-> 100, severity |-> 75, streak |-> 2, spinning |-> 70,
     completeness |-> 50, uncertainty |-> 25000, stable |-> 2]

\* An efficient target without a cache; the others differ from it.
Plain ==
    [place |-> 1, model |-> 1, endpoint |-> 1, replica |-> 1, tier |-> "efficient", rank |-> 0,
     ready |-> TRUE, window |-> 20, capabilities |-> {"chat"}, domain |-> 1,
     requiresRemote |-> FALSE, supportsRemote |-> FALSE,
     cost |-> 90, perPrompt |-> 1, perOutput |-> 1, fetch |-> 1, recompute |-> 1,
     overhead |-> 0, retry |-> 1000, reuse |-> 50, local |-> 0, remote |-> 0,
     queue |-> 1, fetchTime |-> 1, recomputeTime |-> 1, prefillTime |-> 1, decodeTime |-> 1,
     load |-> 1, sessionLocal |-> FALSE, success |-> 96000, uncertainty |-> 1000,
     strange |-> FALSE, broken |-> FALSE]

Pool ==
    {Plain,
     \* its replica, with the session's KV
     [Plain EXCEPT !.place = 2, !.replica = 2, !.endpoint = 2, !.local = 8,
                   !.sessionLocal = TRUE, !.queue = 9],
     \* nearly as cheap, a tier higher, a better bound, KV elsewhere
     [Plain EXCEPT !.place = 3, !.model = 2, !.replica = 3, !.tier = "capable", !.success = 98500,
                   !.cost = 93, !.remote = 6, !.supportsRemote = TRUE, !.load = 3],
     \* dearer and surer
     [Plain EXCEPT !.place = 4, !.model = 3, !.replica = 4, !.tier = "frontier", !.success = 99900,
                   !.cost = 100, !.capabilities = {"chat", "tools"}, !.window = 40],
     \* cheap, but not sure enough, or unsure
     [Plain EXCEPT !.place = 5, !.model = 4, !.replica = 5, !.success = 91500, !.cost = 20],
     [Plain EXCEPT !.place = 6, !.model = 5, !.replica = 6, !.tier = "strong", !.success = 99000,
                   !.uncertainty = 30000],
     \* no tier to speak of, trusted by its rank; not known to the predictor
     [Plain EXCEPT !.place = 7, !.model = 6, !.replica = 7, !.tier = "none", !.rank = 2, !.cost = 60,
                   !.requiresRemote = TRUE, !.supportsRemote = TRUE, !.remote = 12],
     [Plain EXCEPT !.place = 8, !.model = 7, !.replica = 8, !.broken = TRUE, !.domain = 2]}

Sets == {T \in SUBSET Pool : Cardinality(T) \in 1..4}

Calm ==
    [prompt |-> 10, output |-> 4, required |-> {}, models |-> {}, domains |-> {},
     remoteAllowed |-> TRUE, budget |-> {}, turn |-> 1, phase |-> "EXECUTING",
     severity |-> 0, streak |-> 0, failures |-> 0, critical |-> FALSE, compaction |-> FALSE,
     criticalStep |-> FALSE, sensitive |-> FALSE, spinning |-> 0, recovery |-> 0,
     completeness |-> 100, exploring |-> 0, production |-> 0, verification |-> 0,
     stability |-> 0, truncation |-> 0, worth |-> 0, penalty |-> 3,
     model |-> 0, tier |-> "none", stable |-> 0, replica |-> 0, endpoint |-> 0]

\* The session runs on a tier that has become unnecessary.
Climbed(model, tier, stable) ==
    [Calm EXCEPT !.model = model, !.tier = tier, !.stable = stable,
                 !.production = 80, !.stability = 60]

Inputs ==
    {Calm, [Calm EXCEPT !.turn = 0], [Calm EXCEPT !.replica = 1],
     \* progress and its phases
     [Calm EXCEPT !.severity = 74], [Calm EXCEPT !.severity = 75],
     [Calm EXCEPT !.spinning = 70], [Calm EXCEPT !.streak = 2], [Calm EXCEPT !.failures = 1],
     [Calm EXCEPT !.phase = "PLANNING"], [Calm EXCEPT !.phase = "BLOCKED"],
     [Calm EXCEPT !.verification = 80, !.truncation = 80],
     [Calm EXCEPT !.completeness = 49], [Calm EXCEPT !.completeness = 50],
     \* money: a budget, and credit for KV that will be used again
     [Calm EXCEPT !.budget = {135}], [Calm EXCEPT !.budget = {135}, !.severity = 80],
     [Calm EXCEPT !.worth = 200], [Calm EXCEPT !.worth = 200, !.budget = {120}],
     [Calm EXCEPT !.remoteAllowed = FALSE],
     \* what the request needs
     [Calm EXCEPT !.required = {"tools"}, !.sensitive = TRUE],
     [Calm EXCEPT !.prompt = 18], [Calm EXCEPT !.models = {1, 4}], [Calm EXCEPT !.domains = {2}]}
    \cup {Climbed(2, "capable", n) : n \in 0..2}
    \cup {Climbed(3, "frontier", n) : n \in 1..2}
    \cup {[Climbed(0, "none", 0) EXCEPT !.turn = 0]}
=============================================================================
