---------------------------- MODULE PolicyReplay ----------------------------
(***************************************************************************)
(* controlled_replay (stateflow/control/replay.py): which candidate of a   *)
(* recorded decision another policy would have selected.  Hard constraints *)
(* come first, then one gate per objective in the order of the policy,     *)
(* until one candidate is left; several that pass every gate are decided   *)
(* by their order in the record.                                           *)
(*                                                                         *)
(* A policy is its intent with constraints and tolerances: [objectives,    *)
(* tolerance, minConfidence, minSuccess, maxLatency, maxCost, model,       *)
(* fallbackAllowed]; a constraint that is Unknown is not set.              *)
(***************************************************************************)
EXTENDS ControlJournal

CONSTANT Policies

Objectives == {"success", "latency", "cost", "throughput", "energy"}

\* ReplayPolicyConfig.__post_init__, ReplayConstraints.__post_init__
ASSUME PoliciesAreChecked ==
    \A p \in Policies :
        /\ p.objectives \in Seq(Objectives) /\ p.tolerance \in [Objectives -> 0..100]
        /\ {p.maxLatency, p.maxCost} \subseteq Nat \cup {Unknown}
        /\ p.minSuccess \in (0..100) \cup {Unknown}

Maximized == {"success", "throughput"}

\* _objective_value; energy is in the vocabulary, no prediction has it.
ObjectiveValue(p, o) ==
    CASE o = "success" -> p.success
      [] o = "latency" -> p.e2e
      [] o = "cost" -> p.cost
      [] o = "throughput" -> p.throughput
      [] OTHER -> Unknown

\* A value controlled_replay raises on.
Improper(p, o) ==
    LET v == ObjectiveValue(p, o) IN v # Unknown /\ (v < 0 \/ (o = "success" /\ v > 100))

(***************************************************************************)
(* Hard constraints                                                        *)
(***************************************************************************)

\* _maximum_constraint
Within(v, maximum) == maximum = Unknown \/ (v # Unknown /\ v <= maximum)

\* _passes_constraints
Passes(p, policy) ==
    /\ p.confidence >= policy.minConfidence
    /\ policy.model \in {Unknown, p.model}
    /\ policy.fallbackAllowed \/ p.fallback = "none"
    /\ Within(p.e2e, policy.maxLatency) /\ Within(p.cost, policy.maxCost)
    /\ policy.minSuccess # Unknown => p.success # Unknown /\ p.success >= policy.minSuccess

\* The objectives a constraint is set for.
Constrained(policy) ==
    {o \in {"latency", "cost", "success"} :
        CASE o = "latency" -> policy.maxLatency # Unknown
          [] o = "cost" -> policy.maxCost # Unknown
          [] OTHER -> policy.minSuccess # Unknown}

(***************************************************************************)
(* Objective gates.  A candidate is its position in the record; the code   *)
(* keeps its lists in the order of the record, as sets of positions are.   *)
(***************************************************************************)
ValueOf(r, i, o) == ObjectiveValue(r.predictions[i], o)

NoWorse(v, w, o) == IF o \in Maximized THEN v >= w ELSE v <= w

Best(r, available, o) ==
    ValueOf(r, CHOOSE i \in available :
                  \A j \in available : NoWorse(ValueOf(r, i, o), ValueOf(r, j, o), o), o)

\* _objective_survivors keeps v beside the best: the tolerance is in points for
\* success and in percent of the best value for every other objective.
NearBest(v, best, o, tolerance) ==
    LET slack == IF o = "success" THEN 100 * tolerance ELSE best * tolerance
    IN  IF o \in Maximized THEN 100 * v >= 100 * best - slack ELSE 100 * v <= 100 * best + slack

FirstOf(S) == CHOOSE i \in S : \A j \in S : i <= j

\* Mutant: whoever is better than the first candidate stays.
SurvivorsOfFirst(r, available, o, policy) ==
    {i \in available :
        NearBest(ValueOf(r, i, o), ValueOf(r, FirstOf(available), o), o, policy.tolerance[o])}

Survivors(r, available, o, policy) ==
    {i \in available :
        NearBest(ValueOf(r, i, o), Best(r, available, o), o, policy.tolerance[o])}

\* One turn of the loop over the objectives; nobody is left where it raises.
Gate(r, left, o, policy) ==
    IF \E i \in left : Improper(r.predictions[i], o) THEN {}
    ELSE Survivors(r, {i \in left : ValueOf(r, i, o) # Unknown}, o, policy)

Qualified(r, policy) == {i \in DOMAIN r.predictions : Passes(r.predictions[i], policy)}

\* Who is left after n turns; the loop ends at the first that leaves one.
Gated(r, policy) ==
    LET left[n \in 0..Len(policy.objectives)] ==
            IF n = 0 THEN Qualified(r, policy)
            ELSE IF n > 1 /\ Cardinality(left[n - 1]) = 1 THEN left[n - 1]
            ELSE Gate(r, left[n - 1], policy.objectives[n], policy)
    IN  left

(***************************************************************************)
(* controlled_replay                                                       *)
(***************************************************************************)
Refused == [ok |-> FALSE]

\* _potential_gain, of one objective: positive if the selection does better.
Gain(selected, baseline, o) ==
    LET s == ObjectiveValue(selected, o)
        b == ObjectiveValue(baseline, o)
    IN  IF Unknown \in {s, b} THEN Unknown ELSE IF o \in Maximized THEN s - b ELSE b - s

ControlledReplay(r, policy) ==
    LET candidates == {p.candidate : p \in PredictionsOf(r)}
        left == Gated(r, policy)[Len(policy.objectives)]
        selected == r.predictions[FirstOf(left)]
        baseline == SelectedPrediction(r)
    IN  IF \/ policy.objectives = <<>>
           \/ Cardinality(candidates) # Len(r.predictions)
           \/ \E p \in PredictionsOf(r), o \in Constrained(policy) : Improper(p, o)
           \/ left = {}
           \/ \E n \in DOMAIN policy.objectives : Improper(selected, policy.objectives[n])
        THEN Refused
        ELSE [ok |-> TRUE, selected |-> selected, baseline |-> baseline,
              rejected |-> candidates \ {r.predictions[i].candidate : i \in left},
              gain |-> [o \in {"success", "latency", "cost", "throughput"} |-> Gain(selected, baseline, o)],
              changed |-> selected.candidate # baseline.candidate]

(***************************************************************************)
(* Properties                                                              *)
(***************************************************************************)

Exact(policy) == \A o \in DOMAIN policy.tolerance : policy.tolerance[o] = 0

\* q is known to be as good as p for every objective and better for one.
Dominates(q, p, policy) ==
    LET gain(o) == Gain(q, p, o)
        all == {policy.objectives[i] : i \in DOMAIN policy.objectives}
    IN  /\ \A o \in all : gain(o) # Unknown /\ gain(o) >= 0
        /\ \E o \in all : gain(o) > 0

\* Without tolerances the selection is not dominated by any candidate the
\* constraints leave, whatever the order of record and objectives and whichever
\* gate ended the loop.
IsUndominated(r, policy, replay) ==
    Exact(policy) =>
        \A p \in PredictionsOf(r) : Passes(p, policy) => ~ Dominates(p, replay.selected, policy)

\* docs/SHADOW_EVALUATION_V1_1.md: hard constraints run before the gates and
\* unknown primary objectives fail closed, so nothing is selected on a value that
\* nobody predicted, be it limited or the first to be optimised.
FailsClosed(r, policy, replay) ==
    LET known(o) == ObjectiveValue(replay.selected, o) # Unknown IN
    /\ known(policy.objectives[1]) /\ \A o \in Constrained(policy) : known(o)
    /\ policy.maxLatency # Unknown => replay.selected.e2e <= policy.maxLatency
    /\ policy.maxCost # Unknown => replay.selected.cost <= policy.maxCost

\* For its first objective a policy never selects worse than the recorded decision
\* did, beyond its tolerance, if that was open to it; and what it neither selects
\* nor rejects it did not tell apart from the selection.
IsNoWorse(r, policy, replay) ==
    LET first == policy.objectives[1]
        near(p) == NearBest(ObjectiveValue(replay.selected, first), ObjectiveValue(p, first),
                            first, policy.tolerance[first])
    IN  /\ Passes(replay.baseline, policy) /\ ObjectiveValue(replay.baseline, first) # Unknown
              => near(replay.baseline)
        /\ \A p \in PredictionsOf(r) :
              Exact(policy) /\ p.candidate \notin replay.rejected =>
                  \A i \in DOMAIN policy.objectives :
                      Gain(p, replay.selected, policy.objectives[i]) \in {0, Unknown}

Sound(r, policy, replay) ==
    replay.ok => /\ IsUndominated(r, policy, replay)
                 /\ FailsClosed(r, policy, replay)
                 /\ IsNoWorse(r, policy, replay)

\* controlled_replay: what a policy would have selected is open to it, known, not
\* worse than the recorded choice, and no candidate is known to be better.
ReplaysAreSound ==
    \A r \in Recorded, policy \in Policies : Sound(r, policy, ControlledReplay(r, policy))
=============================================================================
