----------------------------- MODULE Evaluation -----------------------------
(***************************************************************************)
(* What shadow evaluation (stateflow/control/evaluation.py) makes of a     *)
(* prediction and the outcome observed for it: the errors of one pair, and *)
(* the report over many.  Pure operators; probabilities are percentages,   *)
(* an outcome's success is 100 or 0.                                       *)
(***************************************************************************)
EXTENDS Prediction, Functions

CONSTANT BinCount   \* calibration_bin_count

ASSUME BinsExist == BinCount \in Nat \ {0}
ASSUME UnknownIsNoSample == Unknown \notin [probability : Int, observed : Int]

Distance(x, y) == IF x > y THEN x - y ELSE y - x

(***************************************************************************)
(* build_feedback                                                          *)
(***************************************************************************)

\* _continuous_error: a negative measurement is refused, on either side.
Measurable(predicted, actual) ==
    actual # Unknown => actual >= 0 /\ (predicted # Unknown => predicted >= 0)

AbsoluteError(predicted, actual) ==
    IF Unknown \in {predicted, actual} THEN Unknown ELSE Distance(predicted, actual)

\* In percent of the actual value, which therefore may not be zero.
RelativeError(predicted, actual) ==
    IF Unknown \in {predicted, actual} \/ actual = 0 THEN Unknown
    ELSE (100 * Distance(predicted, actual)) \div actual

CalibrationSample(prediction, outcome) ==
    IF Unknown \in {prediction.success, outcome.success} THEN Unknown
    ELSE [probability |-> prediction.success, observed |-> outcome.success]

\* An outcome that cannot be scored makes build_feedback raise.
Scorable(prediction, outcome) ==
    /\ Measurable(prediction.e2e, outcome.latency)
    /\ Measurable(prediction.cost, outcome.cost)
    /\ Unknown \notin {prediction.success, outcome.success} => prediction.success \in 0..100

Feedback(decision, prediction, outcome) ==
    [decision |-> decision.id, prediction |-> prediction.id, outcome |-> outcome,
     latencyError |-> AbsoluteError(prediction.e2e, outcome.latency),
     latencyPercent |-> RelativeError(prediction.e2e, outcome.latency),
     costError |-> AbsoluteError(prediction.cost, outcome.cost),
     costPercent |-> RelativeError(prediction.cost, outcome.cost),
     calibration |-> CalibrationSample(prediction, outcome)]

(***************************************************************************)
(* materialize_evaluation_report: entries are [prediction, feedback]       *)
(***************************************************************************)
Pairs(e) ==
    <<<<e.feedback.outcome.latency, e.prediction.e2e>>,
      <<e.feedback.outcome.cost, e.prediction.cost>>,
      <<e.feedback.outcome.success, e.prediction.success>>>>

ObservedFields(entries) ==
    SumFunction([e \in entries |-> Cardinality({i \in 1..3 : Pairs(e)[i][1] # Unknown})])
PredictedFields(entries) ==
    SumFunction([e \in entries |->
        Cardinality({i \in 1..3 : Unknown \notin {Pairs(e)[i][1], Pairs(e)[i][2]}})])

SuccessSamples(entries) == {e \in entries : e.feedback.calibration # Unknown}

\* Mutant: a probability of one opens a bin of its own.
BinWithoutClamp(p) == (p * BinCount) \div 100

\* The bin a probability falls in; the last one includes its upper bound.
Bin(p) ==
    LET index == (p * BinCount) \div 100 IN IF index > BinCount - 1 THEN BinCount - 1 ELSE index

InBin(entries, i) ==
    {e \in SuccessSamples(entries) : Bin(e.feedback.calibration.probability) = i}

SumOfConfidence(entries) == SumFunction([e \in entries |-> e.feedback.calibration.probability])
SumOfSuccess(entries) == SumFunction([e \in entries |-> e.feedback.calibration.observed])

\* samples * absolute_gap of a bin
WeightedGap(entries, i) ==
    Distance(SumOfConfidence(InBin(entries, i)), SumOfSuccess(InBin(entries, i)))

Report(entries) ==
    [samples |-> Cardinality(entries),
     observedFields |-> ObservedFields(entries),
     predictedFields |-> PredictedFields(entries),
     latencySamples |-> Cardinality({e \in entries : e.feedback.latencyError # Unknown}),
     latencyPercentSamples |-> Cardinality({e \in entries : e.feedback.latencyPercent # Unknown}),
     costSamples |-> Cardinality({e \in entries : e.feedback.costError # Unknown}),
     costPercentSamples |-> Cardinality({e \in entries : e.feedback.costPercent # Unknown}),
     successSamples |-> Cardinality(SuccessSamples(entries)),
     bins |-> [i \in 0..BinCount - 1 |-> Cardinality(InBin(entries, i))],
     expectedCalibrationError |->   \* times the number of success samples
        SumFunction([i \in 0..BinCount - 1 |-> WeightedGap(entries, i)]),
     fallbacks |-> Cardinality({e \in entries : e.prediction.fallback # "none"})]
=============================================================================
