----------------------------- MODULE MCKVControl -----------------------------
(***************************************************************************)
(* The instances of KVControl that TLC checks: two GPUs, host memory and a *)
(* disk, snapshots on either side of every threshold, and beside the       *)
(* controller a routing decision that is bridged into the same journal.    *)
(***************************************************************************)
EXTENDS KVControl, PolicyReplay

Target(location, hbm, bandwidth, usable) ==
    [location |-> location, hbm |-> hbm, bandwidth |-> bandwidth, setup |-> 0,
     capacity |-> IF hbm THEN 100 ELSE 0, networkCost |-> 1, storageCost |-> 0, usable |-> usable]

Gpu0 == Target("gpu0", TRUE, 10, TRUE)
Gpu1 == Target("gpu1", TRUE, 20, TRUE)
Dram == Target("dram", FALSE, 10, TRUE)
Ssd == [Target("ssd", FALSE, 5, TRUE) EXCEPT !.networkCost = 0]

Request(targets) == [managed |-> TRUE, targets |-> targets, expectedOwner |-> NoOwner, agent |-> TRUE]
MCRequests ==
    {Request(<<Gpu0, Dram, Ssd>>),
     [Request(<<[Dram EXCEPT !.usable = FALSE], Gpu1, [Gpu1 EXCEPT !.location = "gpu2", !.usable = FALSE]>>)
        EXCEPT !.expectedOwner = "engine"]}

Usage(gpu, used) == (<<gpu, "resource.hbm.used">> :> used) @@ (<<gpu, "resource.hbm.reserved">> :> 5)
Kv(size, reuse) == (<<"kv", "kv.size">> :> size) @@ (<<"kv", "kv.reuse_probability">> :> reuse)
Seen(location, values) ==
    [location |-> location, transfer |-> "idle", phase |-> "TOOL_WAITING", resume |-> 2,
     completeness |-> 90, values |-> values]

\* Full GPU and little reuse; reuse soon with room on gpu1, gpu0 full and a value
\* of gpu2 that does not convert, where only plans that may go there look.
CrowdedGpu == Seen("gpu0", Kv(40, 10) @@ Usage("gpu0", 90))
ReuseSoon == Seen("dram", Kv(40, 80) @@ Usage("gpu0", 90) @@ Usage("gpu1", 30)
                              @@ Usage("gpu2", Malformed))
MCObservations ==
    {CrowdedGpu, [CrowdedGpu EXCEPT !.transfer = "moving"],
     ReuseSoon, [ReuseSoon EXCEPT !.completeness = 45]}

\* Registering the same model again, and one in its place without saying so.
MCRegistrations ==
    {[version |-> "analytical", runs |-> "analytical", replace |-> TRUE],
     [version |-> "analytical", runs |-> "other", replace |-> FALSE]}

Estimate(latency, cost, success) ==
    [latency |-> latency, cost |-> cost, success |-> success, confidence |-> 70]
Routing ==
    [id |-> <<"route", 1>>, view |-> "view1", selected |-> 2,
     candidates |-> <<Estimate(4, 2, 60), Estimate(6, Unknown, 100), Estimate(4, 1, 60)>>]

First == RoutingBundle(Routing, 1)

\* Another decision for the same action, with one candidate, which the action need
\* not name.
Only == RoutingBundle([Routing EXCEPT !.view = "view2", !.selected = 1,
                                      !.candidates = <<Estimate(6, Unknown, 100)>>], 2)
Unnamed == [Only EXCEPT !.decision.id = <<"route", 2>>, !.decision.action.candidate = Unknown]

MCBundles ==
    {First, Unnamed, [First EXCEPT !.decision.action.candidate = Unknown],
     [First EXCEPT !.decision.id = <<"route", 3>>, !.decision.action.id = <<"route", 3>>,
                   !.predictions[1].e2e = 5],
     [First EXCEPT !.decision.id = <<"route", 4>>, !.predictions = <<First.predictions[2]>>]}

\* PolicyIntent.critical() with its default tolerance, interactive() and batch()
\* with constraints, and a policy for what nobody predicts.
Policy(objectives, minConfidence, minSuccess, maxLatency, maxCost) ==
    [objectives |-> objectives,
     tolerance |-> [o \in {"success", "latency", "cost", "throughput", "energy"} |-> 0],
     minConfidence |-> minConfidence, minSuccess |-> minSuccess, maxLatency |-> maxLatency,
     maxCost |-> maxCost, model |-> Unknown, fallbackAllowed |-> TRUE]
MCPolicies ==
    {[Policy(<<"success", "latency", "cost">>, 0, Unknown, Unknown, Unknown)
        EXCEPT !.tolerance["success"] = 40, !.tolerance["latency"] = 30],
     Policy(<<"latency", "success", "cost">>, 0, Unknown, Unknown, Unknown),
     Policy(<<"success", "latency">>, 50, 50, Unknown, 1),
     Policy(<<"energy">>, 0, Unknown, Unknown, Unknown)}

Outcome(action, latency, success) ==
    [action |-> action, started |-> 1, completed |-> 2, latency |-> latency, cost |-> 0,
     success |-> success]
MCOutcomes ==
    {Outcome(<<"route", 1>>, 8, 0), Outcome(<<"route", 1>>, 8, 100), Outcome(<<"route", 1>>, -1, 100),
     Outcome(<<"kv", 1>>, Unknown, 100),
     [Outcome(<<"route", 1>>, 8, 0) EXCEPT !.completed = 0]}
=============================================================================
