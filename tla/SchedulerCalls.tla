--------------------------- MODULE SchedulerCalls ---------------------------
(***************************************************************************)
(* A call of SuccessFirstScheduler.schedule with any view and any targets, *)
(* and what is promised of the answer.  The scheduler keeps nothing from   *)
(* one call to the next.  The promises are stated target against target,   *)
(* not through the gates.                                                  *)
(*                                                                         *)
(* Heuristic is HeuristicSuccessPredictor                                  *)
(* (stateflow/scheduler/harness/success_first/success_predictor.py).       *)
(***************************************************************************)
EXTENDS SuccessFirst

CONSTANTS
    Views, TargetSets,   \* the inputs
    Idle                 \* before the call

(***************************************************************************)
(* What the inputs are                                                     *)
(***************************************************************************)
ASSUME InputAssumption ==
    /\ \A v \in Views : IsView(v)
    /\ \A T \in TargetSets : IsPool(T)

ASSUME EstimateAssumption == \A v \in Views, T \in TargetSets : Speaks(v, T)

\* The exception is not a decision.
ASSUME RefusalAssumption ==
    Infeasible \notin [target : UNION TargetSets, guarded : BOOLEAN,
                       survivors : SUBSET {t.model : t \in UNION TargetSets}, reason : Reasons]

(***************************************************************************)
(* HeuristicSuccessPredictor.estimate                                      *)
(***************************************************************************)
Risk(view) ==
    CHOOSE r \in {view.severity, view.spinning, view.recovery} :
        r >= view.severity /\ r >= view.spinning /\ r >= view.recovery

\* What the risk of the state does to a target of the given rank.
RiskShift(view, rank) ==
    CASE rank = 2 -> 40 * Risk(view)
      [] rank = 1 -> 15 * Risk(view)
      [] rank = 0 -> -100 * Risk(view)

\* What the phase of the work does to it.
WorkShift(view, rank) ==
    (IF view.exploring > 65 \/ view.phase \in {"PLANNING", "REPLANNING"} THEN 1000 * rank ELSE 0)
    + (IF rank = 0 /\ view.production > 65 /\ view.stability > 55 THEN 2000 ELSE 0)
    - (IF rank = 0 /\ view.verification > 65 THEN 3000 ELSE 0)
    - (IF rank = 0 /\ view.truncation > 70 THEN 50 * view.truncation ELSE 0)

Heuristic(view, t) ==
    LET rank == TierRank(t.tier)
        unsure == t.uncertainty + 180 * (100 - view.completeness) + 50 * view.truncation
                  + (IF t.strange THEN 10000 ELSE 0)
    IN IF t.broken THEN NoEstimate
       ELSE [success     |-> Bounded(t.success + RiskShift(view, rank) + WorkShift(view, rank), 0, Whole),
             uncertainty |-> Bounded(unsure, 0, Whole \div 2),
             strange     |-> FALSE]

(***************************************************************************)
(* The call                                                                *)
(***************************************************************************)
VARIABLES view, targets, decision
callVars == <<view, targets, decision>>

Init == view = Idle /\ targets = {} /\ decision = Idle

Schedule(v, T) ==
    /\ view = Idle
    /\ view' = v /\ targets' = T
    /\ decision' = Decision(v, T)

Next == \E v \in Views, T \in TargetSets : Schedule(v, T)

Spec == Init /\ [][Next]_callVars

(***************************************************************************)
(* Promises                                                                *)
(***************************************************************************)
Decided == decision \notin {Idle, Infeasible}

\* The targets the decision is between, and the bound of each.
Rivals == Considered(view, EligibleOf(view, targets))
Bound(t) == Lcb(view, Rivals, t)
Cost(t) == EffectiveCost(view, Rivals, t)

\* Success comes first: no target beats the chosen one by more than the
\* margin, and none reaches the minimum if the chosen one does not
\* (success_gate, before any cost is looked at).
SuccessComesFirst ==
    Decided => \A u \in Rivals :
        /\ Bound(u) - Bound(decision.target) <= Config.epsilonSuccess
        /\ Bound(u) >= Config.sMin => Bound(decision.target) >= Config.sMin

\* Cost comes second: a target as safe as the best, within the budget, is not
\* cheaper than the chosen one by more than the margin (effective_cost,
\* cost_gate, the budget check between them).
AsSafeAsAny(u) == Bound(u) >= Config.sMin /\ \A w \in Rivals : Bound(u) >= Bound(w)

CostComesSecond ==
    Decided =>
        /\ \A limit \in view.budget : Cost(decision.target) <= limit
        /\ \A u \in Rivals :
              AsSafeAsAny(u) /\ (\A limit \in view.budget : Cost(u) <= limit)
                  => 100 * Cost(decision.target) <= (100 + Config.epsilonCost) * Cost(u)

\* In a risky or unknown state, or with a predictor that is unsure, a capable
\* target is chosen whenever one can serve the request; and the guard never
\* leaves a request without a target that could be served without it
\* (critical_override, capable_only, Unknown -> Safe).
RiskIsGuarded ==
    LET eligible == EligibleOf(view, targets) IN
    view # Idle =>
        /\ Decided /\ Guarded(view, eligible) /\ (\E t \in eligible : IsCapable(t))
               => IsCapable(decision.target)
        /\ decision = Infeasible =>
               \/ eligible = {}
               \/ \E t \in Rivals, limit \in view.budget : Cost(t) > limit

\* A lower tier replaces the current one only after a stable window, unless
\* the current model lost a gate or the state is guarded (_should_hold_tier).
DowngradesWait ==
    Decided /\ ~ decision.guarded /\ TierRank(decision.target.tier) < TierRank(view.tier)
        => \/ view.stable >= Config.stable
           \/ view.model \notin decision.survivors
           \/ decision.target.model = view.model
=============================================================================
