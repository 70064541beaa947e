----------------------------- MODULE Prediction -----------------------------
(***************************************************************************)
(* AnalyticalPredictionModel (stateflow/prediction/model.py) and the       *)
(* evaluation of a model by PredictionService: what a candidate action is  *)
(* predicted to do, from a snapshot of the State Plane.  Pure operators.   *)
(*                                                                         *)
(* A snapshot s has a token, a completeness and values, a function on      *)
(* pairs <<entity, key>>.  A candidate c has a component, parameters (a    *)
(* function on names) and an id.  Probabilities, confidence and pressure   *)
(* are percentages; a quotient is rounded down where the code has a        *)
(* fraction.                                                               *)
(***************************************************************************)
EXTENDS Integers, FiniteSets

CONSTANTS
    Unknown,        \* None: a missing feature, and what follows from one
    Malformed,      \* a value that is no finite non-negative number
    MinConfidence   \* PredictionService.min_confidence

ASSUME UnknownIsNoNumber == Unknown \notin Int /\ Malformed \notin Int /\ Unknown # Malformed
ASSUME ConfidenceIsPercent == MinConfidence \in 0..100

(***************************************************************************)
(* Features: _FeatureResolver                                              *)
(***************************************************************************)

\* The canonical key a parameter falls back to.
CanonicalKey ==
    [queue_seconds |-> "request.queue_time", transfer_bytes |-> "kv.size",
     effective_bw |-> "link.effective_bw", prompt_tokens |-> "request.context_tokens",
     prefill_tps |-> "runtime.prefill_tps", decode_tps |-> "runtime.decode_tps",
     output_tokens |-> "request.expected_output_tokens",
     hbm_used |-> "resource.hbm.used", hbm_reserved |-> "resource.hbm.reserved",
     allocated_gpu |-> "instance.allocated_gpu", queue_depth |-> "runtime.queue_depth"]

Rates == {"effective_bw", "prefill_tps", "decode_tps", "hbm_capacity"}
Optional == {"deadline", "base_success", "queue_depth"}
ZeroByDefault ==
    {"queue_seconds", "transfer_bytes", "transfer_setup", "prompt_tokens", "cached_tokens",
     "output_tokens", "hbm_used", "hbm_reserved", "kv_growth", "hbm_release",
     "allocated_gpu", "storage_io", "fixed_cost", "gpu_cost", "network_cost",
     "storage_cost", "queue_delta"}
Features == Rates \cup Optional \cup ZeroByDefault

\* The values a key may be read from: that of the target component, else the
\* only one there is; several of other entities are ambiguous.
Matches(s, c, p) ==
    LET all == {m \in DOMAIN s.values : m[2] = CanonicalKey[p]}
        exact == {m \in all : m[1] = c.component}
    IN  IF exact # {} THEN exact ELSE IF Cardinality(all) = 1 THEN all ELSE {}

Resolve(s, c, p) ==
    IF p \in DOMAIN c.parameters THEN c.parameters[p]
    ELSE IF p \notin DOMAIN CanonicalKey \/ Matches(s, c, p) = {} THEN Unknown
    ELSE s.values[CHOOSE m \in Matches(s, c, p) : TRUE]

\* A rate of zero is as good as none.
Number(s, c, p) ==
    LET v == Resolve(s, c, p) IN
    CASE v = Unknown /\ p \in ZeroByDefault -> 0
      [] v = 0 /\ p \in Rates -> Unknown
      [] OTHER -> v

(***************************************************************************)
(* The model, for a function f from features to numbers                    *)
(***************************************************************************)
AtLeastZero(x) == IF x > 0 THEN x ELSE 0
Percent(x) == IF x > 100 THEN 100 ELSE AtLeastZero(x)

PrefillTokens(f) == AtLeastZero(f["prompt_tokens"] - f["cached_tokens"])

PredictedHbm(f) ==
    AtLeastZero(f["hbm_used"] + f["hbm_reserved"]
                  + f["kv_growth"] - f["hbm_release"])

\* What has to be divided by each rate; a rate is required if that is not zero.
Amount(f, p) ==
    CASE p = "effective_bw" -> f["transfer_bytes"]
      [] p = "prefill_tps" -> PrefillTokens(f)
      [] p = "decode_tps" -> f["output_tokens"]
      [] p = "hbm_capacity" -> PredictedHbm(f)

Required(f) == {p \in Rates : Amount(f, p) > 0}
Available(f) == {p \in Required(f) : f[p] # Unknown}

\* _rate_duration
RateDuration(f, p, setup) ==
    IF Amount(f, p) = 0 THEN setup
    ELSE IF f[p] = Unknown THEN Unknown
    ELSE setup + Amount(f, p) \div f[p]

\* A sum with an unknown part is unknown.
Total(parts) ==
    IF \E i \in DOMAIN parts : parts[i] = Unknown THEN Unknown
    ELSE parts[1] + parts[2] + parts[3] + parts[4]

TransferSeconds(f) == RateDuration(f, "effective_bw", f["transfer_setup"])

E2eSeconds(f) ==
    Total(<<f["queue_seconds"], TransferSeconds(f),
            RateDuration(f, "prefill_tps", 0), RateDuration(f, "decode_tps", 0)>>)

HbmPressure(f) ==
    IF f["hbm_capacity"] = Unknown THEN Unknown
    ELSE (100 * PredictedHbm(f)) \div f["hbm_capacity"]

OomProbability(pressure) == IF pressure = Unknown THEN Unknown ELSE Percent(2 * (pressure - 90))

\* _deadline_risk: from 80 percent of the deadline on.
DeadlineRisk(e2e, deadline) ==
    IF Unknown \in {e2e, deadline} THEN Unknown
    ELSE IF deadline = 0 THEN 100
    ELSE Percent(5 * ((100 * e2e) \div deadline - 80))

\* _success_probability
SuccessProbability(base, oom, timeout) ==
    LET spared(p, risk) == IF risk = Unknown THEN p ELSE (p * (100 - risk)) \div 100 IN
    IF base = Unknown /\ oom = Unknown /\ timeout = Unknown THEN Unknown
    ELSE spared(spared(Percent(IF base = Unknown THEN 100 ELSE base), oom), timeout)

\* _monetary_cost
MonetaryCost(f, e2e) ==
    IF e2e = Unknown THEN Unknown
    ELSE f["fixed_cost"]
           + e2e * f["allocated_gpu"] * f["gpu_cost"]
           + f["transfer_bytes"] * f["network_cost"]
           + f["storage_io"] * f["storage_cost"]

\* Missing features lower the confidence to 35 percent of the completeness.
Confidence(s, f) ==
    LET r == Cardinality(Required(f)) IN
    IF r = 0 THEN (35 * s.completeness) \div 100
    ELSE (s.completeness * (35 * r + 65 * Cardinality(Available(f)))) \div (100 * r)

PredictFrom(s, c, f, e2e, pressure, confidence) ==
    [snapshot |-> s.token, candidate |-> c.id, e2e |-> e2e, pressure |-> pressure,
     throughput |-> f["decode_tps"], eta |-> TransferSeconds(f), cost |-> MonetaryCost(f, e2e),
     success |-> SuccessProbability(f["base_success"], OomProbability(pressure),
                                    DeadlineRisk(e2e, f["deadline"])),
     confidence |-> confidence,
     fallback |-> IF confidence >= 50 /\ Available(f) = Required(f) THEN "none" ELSE "baseline"]

Predict(s, c) ==
    LET f == [p \in Features |-> Number(s, c, p)]
    IN  PredictFrom(s, c, f, E2eSeconds(f), HbmPressure(f), Confidence(s, f))

(***************************************************************************)
(* PredictionService._evaluate                                             *)
(***************************************************************************)

\* The model reads every feature, so one malformed value makes it raise.
Raises(s, c) == \E p \in Features : Resolve(s, c, p) = Malformed

Unavailable(s, c) ==
    [snapshot |-> s.token, candidate |-> c.id, eta |-> Unknown, e2e |-> Unknown, throughput |-> Unknown,
     success |-> Unknown, cost |-> Unknown, pressure |-> Unknown, confidence |-> 0,
     fallback |-> "success-first-heuristic"]

WithFallback(p) ==
    IF p.confidence >= MinConfidence THEN p ELSE [p EXCEPT !.fallback = "success-first-heuristic"]

Evaluate(s, c) ==
    IF Raises(s, c) THEN Unavailable(s, c)
    ELSE WithFallback(Predict(s, c))
=============================================================================
