--------------------------- MODULE SchedulerProofs ---------------------------
(***************************************************************************)
(* The four promises of SuccessFirstScheduler.schedule, for any views, any *)
(* finite pools of targets, any predictor and any configuration.           *)
(***************************************************************************)
EXTENDS SchedulerCalls, SuccessFirstProofs

(***************************************************************************)
(* The promises                                                            *)
(***************************************************************************)
\* Nothing is decided, or what was decided was decided of the inputs.
Answered ==
    \/ decision = Idle /\ view = Idle
    \/ view \in Views /\ targets \in TargetSets /\ decision = Decision(view, targets)

\* schedule keeps nothing between calls.
LEMMA AnsweredHolds == Spec => []Answered
<1>1. Init => Answered
    BY DEF Init, Answered
<1>2. Answered /\ [Next]_callVars => Answered'
    <2> SUFFICES ASSUME Answered, [Next]_callVars PROVE Answered'
        OBVIOUS
    <2>1. CASE UNCHANGED callVars
        BY <2>1 DEF Answered, callVars
    <2>2. CASE Next
        BY <2>2 DEF Answered, Next, Schedule
    <2> QED BY <2>1, <2>2
<1> QED BY <1>1, <1>2, PTL DEF Spec

\* A decision that stands is not the exception.
LEMMA RefusalIsFar ==
    ASSUME NEW v \in Views, NEW T \in TargetSets, Affordable(v, T) # {}
    PROVE  Stands(v, T, Decision(v, T)) /\ Decision(v, T) # Infeasible
<1> DEFINE all == UNION TargetSets
<1>1. /\ Stands(v, T, Decision(v, T))
      /\ Decision(v, T) \in [target : T, guarded : BOOLEAN,
                             survivors : SUBSET {t.model : t \in T}, reason : Reasons]
    BY DecisionStands, InputAssumption, EstimateAssumption DEF IsView
<1>2. T \in SUBSET all /\ SUBSET {t.model : t \in T} \in SUBSET SUBSET {t.model : t \in all}
    OBVIOUS
<1>3. Decision(v, T) \in [target : all, guarded : BOOLEAN,
                          survivors : SUBSET {t.model : t \in all}, reason : Reasons]
    <2> HIDE DEF all
    <2> QED BY <1>1, <1>2
<1> QED BY <1>1, <1>3, RefusalAssumption

LEMMA DecidedStands ==
    ASSUME Answered, Decided
    PROVE  /\ view \in Views /\ targets \in TargetSets
           /\ Stands(view, targets, decision)
<1>1. view \in Views /\ targets \in TargetSets /\ decision = Decision(view, targets)
    BY DEF Answered, Decided
<1>2. Affordable(view, targets) # {}
    BY <1>1 DEF Decided, Decision, Affordable
<1> QED BY <1>1, <1>2, RefusalIsFar

LEMMA SuccessFirstOfAll == Answered => SuccessComesFirst
<1> SUFFICES ASSUME Answered, Decided, NEW u \in Rivals
             PROVE  /\ Bound(u) - Bound(decision.target) <= Config.epsilonSuccess
                    /\ Bound(u) >= Config.sMin => Bound(decision.target) >= Config.sMin
    BY DEF SuccessComesFirst
<1> DEFINE t == decision.target
<1>1. view \in Views /\ targets \in TargetSets /\ Stands(view, targets, decision)
    BY DecidedStands
<1>2. IsPool(Rivals) /\ Speaks(view, Rivals)
    BY <1>1, ConsideredIsPool, InputAssumption, EstimateAssumption DEF Rivals
<1>3. t \in SuccessGate(view, Rivals)
    BY <1>1 DEF Stands, Affordable, Rivals, CostGate, WithinBudget
<1>4. t \in Rivals
    BY <1>3 DEF SuccessGate, SuccessEquals
<1>5. Bound(u) \in Int /\ Bound(t) \in Int
    BY <1>2, <1>4, LcbType DEF Bound
<1>6. Config.sMin \in Int /\ Config.epsilonSuccess \in Nat
    BY ConfigAssumption
<1>7. CASE t \in SuccessEquals(view, Rivals)
    <2>1. Bound(t) >= Config.sMin /\ Bound(t) >= Bound(u) - Config.epsilonSuccess
        BY <1>7 DEF SuccessEquals, IsSafest, Bound
    <2> QED BY <2>1, <1>5, <1>6
<1>8. CASE IsSafest(view, Rivals, t, 0)
    <2>1. Bound(t) >= Bound(u) - 0
        BY <1>8 DEF IsSafest, Bound
    <2> QED BY <2>1, <1>5, <1>6
<1> QED BY <1>3, <1>7, <1>8 DEF SuccessGate

\* No target considered beats the chosen one by more than the margin, and none
\* reaches the minimum that the chosen one misses (success_gate comes before
\* cost, placement and hysteresis, and none of them goes back on it).
THEOREM SuccessIsFirst == Spec => []SuccessComesFirst
BY AnsweredHolds, SuccessFirstOfAll, PTL

LEMMA CostAfterSuccess == Answered => CostComesSecond
<1> SUFFICES ASSUME Answered, Decided
             PROVE  /\ \A limit \in view.budget : Cost(decision.target) <= limit
                    /\ \A u \in Rivals :
                          AsSafeAsAny(u) /\ (\A limit \in view.budget : Cost(u) <= limit)
                          => 100 * Cost(decision.target) <= (100 + Config.epsilonCost) * Cost(u)
    BY DEF CostComesSecond
<1> DEFINE affordable == WithinBudget(view, Rivals, SuccessGate(view, Rivals))
<1>1. view \in Views /\ targets \in TargetSets /\ Stands(view, targets, decision)
    BY DecidedStands
<1>2. IsPool(Rivals) /\ Speaks(view, Rivals)
    BY <1>1, ConsideredIsPool, InputAssumption, EstimateAssumption DEF Rivals
<1>3. decision.target \in CostGate(view, Rivals, affordable)
    BY <1>1 DEF Stands, Affordable, Rivals
<1>4. \A limit \in view.budget : Cost(decision.target) <= limit
    BY <1>3 DEF CostGate, WithinBudget, Cost
<1>5. ASSUME NEW u \in Rivals, AsSafeAsAny(u), \A limit \in view.budget : Cost(u) <= limit
      PROVE  100 * Cost(decision.target) <= (100 + Config.epsilonCost) * Cost(u)
    <2>1. ASSUME NEW w \in Rivals PROVE Bound(u) >= Bound(w) - Config.epsilonSuccess
        <3>1. Bound(u) \in Int /\ Bound(w) \in Int
            BY <1>2, LcbType DEF Bound
        <3>2. Bound(u) >= Bound(w)
            BY <1>5 DEF AsSafeAsAny
        <3>3. Config.epsilonSuccess \in Nat
            BY ConfigAssumption
        <3> QED BY <3>1, <3>2, <3>3
    <2>2. u \in SuccessEquals(view, Rivals)
        BY <1>5, <2>1 DEF SuccessEquals, IsSafest, Bound, AsSafeAsAny
    <2>3. u \in affordable
        BY <1>5, <2>2 DEF SuccessGate, WithinBudget, Cost
    <2> QED BY <2>3, <1>3 DEF CostGate, Cost
<1> QED BY <1>4, <1>5

\* Among the targets as safe as the best and within the budget, none is cheaper
\* than the chosen one by more than the margin (effective_cost, cost_gate).
THEOREM CostIsSecond == Spec => []CostComesSecond
BY AnsweredHolds, CostAfterSuccess, PTL

LEMMA GuardIsHeeded == Answered => RiskIsGuarded
<1> DEFINE eligible == EligibleOf(view, targets)
           gated == SuccessGate(view, Rivals)
<1> SUFFICES ASSUME Answered, view # Idle
             PROVE  /\ Decided /\ Guarded(view, eligible) /\ (\E t \in eligible : IsCapable(t))
                           => IsCapable(decision.target)
                    /\ decision = Infeasible =>
                           \/ eligible = {}
                           \/ \E t \in Rivals, limit \in view.budget : Cost(t) > limit
    BY DEF RiskIsGuarded
<1>1. view \in Views /\ targets \in TargetSets /\ decision = Decision(view, targets)
    BY DEF Answered
<1>2. /\ Rivals \in SUBSET targets /\ IsPool(Rivals) /\ Speaks(view, Rivals) /\ IsView(view)
      /\ eligible # {} => Rivals # {}
    BY <1>1, ConsideredIsPool, InputAssumption, EstimateAssumption DEF Rivals
<1>3. ASSUME Decided, Guarded(view, eligible), \E t \in eligible : IsCapable(t)
      PROVE  IsCapable(decision.target)
    <2>1. decision.target \in Rivals
        BY <1>3, DecidedStands
           DEF Stands, Affordable, Rivals, CostGate, WithinBudget, SuccessGate, SuccessEquals
    <2> QED BY <1>3, <2>1 DEF Rivals, Considered, CapableOnly
<1>4. ASSUME decision = Infeasible, eligible # {}
      PROVE  \E t \in Rivals, limit \in view.budget : Cost(t) > limit
    <2>1. WithinBudget(view, Rivals, gated) = {}
        <3>1. Affordable(view, targets) = {}
            BY <1>1, <1>4, RefusalIsFar
        <3> QED BY <3>1 DEF Affordable, Rivals
    <2>2. PICK t \in gated : TRUE
        BY <1>2, <1>4, SuccessGateLeavesSome
    <2>3. t \in Rivals
        BY <2>2 DEF SuccessGate, SuccessEquals
    <2>4. PICK limit \in view.budget : ~ (Cost(t) <= limit)
        BY <2>1, <2>2 DEF WithinBudget, Cost
    <2>5. Cost(t) \in Int /\ limit \in Int
        BY <1>2, <2>3, CostType DEF Cost, IsView
    <2> QED BY <2>3, <2>4, <2>5
<1> QED BY <1>3, <1>4

\* A guarded call chooses a capable target if one is eligible, and schedule
\* refuses only what no target can serve or afford (critical_override,
\* _predictor_requires_safe_mode, capable_only).
THEOREM RiskIsHeeded == Spec => []RiskIsGuarded
BY AnsweredHolds, GuardIsHeeded, PTL

LEMMA WaitIsKept == Answered => DowngradesWait
<1> SUFFICES ASSUME Answered, Decided, ~ decision.guarded,
                    TierRank(decision.target.tier) < TierRank(view.tier)
             PROVE  \/ view.stable >= Config.stable
                    \/ view.model \notin decision.survivors
                    \/ decision.target.model = view.model
    BY DEF DowngradesWait
<1>1. view \in Views /\ Stands(view, targets, decision)
    BY DecidedStands
<1>2. view.stable \in Int /\ Config.stable \in Int
    BY <1>1, InputAssumption, ConfigAssumption DEF IsView
<1>3. \A tier : TierRank(tier) \in Int
    BY DEF TierRank
<1>4. TierRank(view.tier) > TierRank(decision.target.tier)
    BY <1>3
<1> QED BY <1>1, <1>2, <1>4 DEF Stands, HoldsTier

\* A lower tier is chosen only after the stable window, or when the current
\* model is no longer a choice (_should_hold_tier).
THEOREM DowngradesAreHeld == Spec => []DowngradesWait
BY AnsweredHolds, WaitIsKept, PTL
=============================================================================
