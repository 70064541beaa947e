---------------------------- MODULE SuccessFirst ----------------------------
(***************************************************************************)
(* One routing decision: SuccessFirstScheduler.schedule and the gates it   *)
(* applies (stateflow/scheduler/harness/success_first).                    *)
(*                                                                         *)
(* Targets are a set; a target's place is its position in the registry,    *)
(* by which the code's lists break ties.  Probabilities are counted in     *)
(* parts of Whole, scores, factors and margins in percent, costs and times *)
(* in integer units; a budget is a set, empty when there is none.  Inputs  *)
(* are natural numbers, as the code's max(0, x) makes them.                *)
(***************************************************************************)
EXTENDS Integers, Sequences, FiniteSets

CONSTANTS
    Config,           \* SchedulerConfig
    Estimate(_, _),   \* what the predictor says of a target in a view
    NoEstimate,       \* the predictor raised
    Infeasible        \* NoFeasibleTarget was raised

(***************************************************************************)
(* What the inputs are.  Any integers will do, because costs are clamped   *)
(* where the code clamps them; margins are max(0, x).  A pool is a finite  *)
(* list, so its members have places.                                       *)
(***************************************************************************)
ASSUME ConfigAssumption ==
    /\ {Config.sMin, Config.beta, Config.lambda, Config.stable} \subseteq Int
    /\ {Config.epsilonSuccess, Config.epsilonCost} \subseteq Nat

\* What costs and times are computed from.
IsMeasured(v) == {v.prompt, v.output, v.worth} \subseteq Int
IsView(v) == IsMeasured(v) /\ {v.stable} \cup v.budget \subseteq Int

IsTarget(t) ==
    {t.place, t.endpoint, t.replica, t.load, t.queue, t.local, t.remote, t.reuse, t.rank,
     t.cost, t.perPrompt, t.perOutput, t.fetch, t.recompute, t.overhead, t.retry,
     t.fetchTime, t.recomputeTime, t.prefillTime, t.decodeTime} \subseteq Int

IsPool(T) ==
    /\ IsFiniteSet(T)
    /\ \A t \in T : IsTarget(t)
    /\ \A t, u \in T : t.place = u.place => t = u

\* The predictor raises or answers with numbers, whatever it is.
Speaks(v, T) ==
    \A t \in T : Estimate(v, t) = NoEstimate
                  \/ {Estimate(v, t).success, Estimate(v, t).uncertainty} \subseteq Int

(***************************************************************************)
(* Numbers and orders                                                      *)
(***************************************************************************)
Whole == 100000

Bounded(x, low, high) == IF x < low THEN low ELSE IF x > high THEN high ELSE x
Smaller(a, b) == IF a <= b THEN a ELSE b

\* The member of S with the smallest key, keys being tuples of integers.
LexLess(a, b) ==
    \E i \in DOMAIN a : a[i] < b[i] /\ \A j \in 1..(i - 1) : a[j] = b[j]
Least(S, Key(_)) == CHOOSE t \in S : \A u \in S \ {t} : LexLess(Key(t), Key(u))

TierRank(tier) ==
    CASE tier \in {"frontier", "premium"} -> 2
      [] tier \in {"capable", "strong"} -> 1
      [] OTHER -> 0

(***************************************************************************)
(* Hard constraints                                                        *)
(***************************************************************************)

\* _kv_breakdown: the prompt tokens found locally, remotely and not at all.
LocalTokens(view, t) == Smaller(view.prompt, t.local)
RemoteTokens(view, t) ==
    IF view.remoteAllowed /\ t.supportsRemote
    THEN Smaller(view.prompt - LocalTokens(view, t), t.remote) ELSE 0
MissTokens(view, t) == view.prompt - LocalTokens(view, t) - RemoteTokens(view, t)

\* What serving the request costs for certain.
BaseCost(view, t) ==
    t.cost + view.prompt * t.perPrompt + view.output * t.perOutput
    + RemoteTokens(view, t) * t.fetch + MissTokens(view, t) * t.recompute + t.overhead

\* Mutant: the allowed models do not bind a session that runs already.
EligibleWhereItRuns(view, t) ==
    /\ t.ready
    /\ view.prompt + view.output <= t.window
    /\ view.required \subseteq t.capabilities
    /\ view.models = {} \/ t.model \in view.models \cup {view.model}

\* hard_filter.  ready joins available, healthy and compatible; domains stand
\* for the allowed regions, cache domains and the security domain.
Eligible(view, t) ==
    /\ t.ready
    /\ view.prompt + view.output <= t.window
    /\ view.required \subseteq t.capabilities
    /\ view.models = {} \/ t.model \in view.models
    /\ view.domains = {} \/ t.domain \in view.domains
    /\ t.requiresRemote => view.remoteAllowed
    /\ \A limit \in view.budget : BaseCost(view, t) <= limit

EligibleOf(view, targets) == {t \in targets : Eligible(view, t)}

(***************************************************************************)
(* Estimates and overrides                                                 *)
(***************************************************************************)

\* Mutant: severity is left to the failure streak.
OverrideByStreak(view) == view.critical \/ view.compaction \/ view.streak >= Config.streak

\* critical_override
Override(view) ==
    \/ view.critical \/ view.compaction \/ view.criticalStep \/ view.sensitive
    \/ view.severity >= Config.severity
    \/ view.streak >= Config.streak
    \/ view.failures >= Config.streak
    \/ view.spinning >= Config.spinning
    \/ view.recovery >= Config.severity
    \/ view.phase \in {"REPLANNING", "BLOCKED"}
    \/ view.completeness < Config.completeness

IsCapable(t) == t.tier \in {"capable", "frontier", "strong", "premium"} \/ t.rank >= 2

\* Mutant: no capable target, no target.
CapableOrNone(targets) == {t \in targets : IsCapable(t)}

\* capable_only
CapableOnly(targets) ==
    LET capable == {t \in targets : IsCapable(t)}
    IN IF capable = {} THEN targets ELSE capable

\* _estimate_by_model: a model's first target speaks for all its replicas; an
\* estimate says how likely success is, how unsure that is and whether it is
\* out of distribution (strange).
EstimateIn(view, targets, t) ==
    LET replicas == {u \in targets : u.model = t.model}
        estimate == Estimate(view, Least(replicas, LAMBDA u : <<u.place>>))
    IN IF estimate = NoEstimate
       THEN [success |-> 0, uncertainty |-> Whole, strange |-> TRUE] ELSE estimate

\* _predictor_requires_safe_mode
NeedsSafeMode(view, targets) ==
    \E t \in targets :
        LET estimate == EstimateIn(view, targets, t)
        IN estimate.uncertainty >= Config.uncertainty \/ estimate.strange

\* Whether only capable targets are considered, for either reason.
Guarded(view, eligible) == Override(view) \/ NeedsSafeMode(view, eligible)

Considered(view, eligible) ==
    IF Guarded(view, eligible) THEN CapableOnly(eligible) ELSE eligible

\* with_lcb: the lower confidence bound of success.
Lcb(view, targets, t) ==
    LET estimate == EstimateIn(view, targets, t)
    IN Bounded(estimate.success - (Config.beta * estimate.uncertainty) \div 100, 0, Whole)

(***************************************************************************)
(* Gates                                                                   *)
(***************************************************************************)

IsSafest(view, targets, t, margin) ==
    \A u \in targets : Lcb(view, targets, t) >= Lcb(view, targets, u) - margin

\* Mutant: whatever reaches the minimum is as good as the best.
SufficientlySafe(view, targets) ==
    {t \in targets : Lcb(view, targets, t) >= Config.sMin}

SuccessEquals(view, targets) ==
    {t \in targets : /\ Lcb(view, targets, t) >= Config.sMin
                     /\ IsSafest(view, targets, t, Config.epsilonSuccess)}

\* success_gate; when no model reaches the minimum, the best remain.
SuccessGate(view, targets) ==
    IF SuccessEquals(view, targets) # {} THEN SuccessEquals(view, targets)
    ELSE {t \in targets : IsSafest(view, targets, t, 0)}

\* future_kv_value; worth is the product of its factors that depend on the
\* view alone: continuation, reuse, remaining turns and decay.
FutureValue(view, t) ==
    (view.worth * (100 * LocalTokens(view, t) + t.reuse * RemoteTokens(view, t)) * t.recompute)
    \div 10000

\* effective_cost
EffectiveCost(view, targets, t) ==
    LET retry == ((Whole - EstimateIn(view, targets, t).success) * t.retry) \div Whole
        credit == (Config.lambda * FutureValue(view, t)) \div 100
        raw == BaseCost(view, t) + retry - credit
    IN IF raw < 0 THEN 0 ELSE raw

WithinBudget(view, targets, gated) ==
    {t \in gated : \A limit \in view.budget : EffectiveCost(view, targets, t) <= limit}

\* Mutant: targets are compared by what they cost for certain.
CostGateByBase(view, targets, gated) ==
    {t \in gated : \A u \in gated :
        100 * BaseCost(view, t) <= (100 + Config.epsilonCost) * BaseCost(view, u)}

\* cost_gate
CostGate(view, targets, gated) ==
    {t \in gated : \A u \in gated :
        100 * EffectiveCost(view, targets, t)
            <= (100 + Config.epsilonCost) * EffectiveCost(view, targets, u)}

(***************************************************************************)
(* Placement                                                               *)
(***************************************************************************)

\* predicted_latency, with times per token.
Latency(view, t) ==
    t.queue + RemoteTokens(view, t) * t.fetchTime
    + MissTokens(view, t) * (t.recomputeTime + t.prefillTime) + view.output * t.decodeTime

\* _is_local
IsLocal(view, t) ==
    t.replica = view.replica \/ t.endpoint = view.endpoint \/ t.sessionLocal

Fastest(view, targets) == Least(targets, LAMBDA t : <<Latency(view, t), t.place>>)

\* The order of the first turn: load first.
Balanced(view, targets) ==
    Least(targets, LAMBDA t : <<-t.load, Latency(view, t), -LocalTokens(view, t),
                                t.endpoint, t.replica, t.place>>)

\* choose_placement
Placement(view, targets) ==
    LET near == {t \in targets : IsLocal(view, t)}
        far == targets \ near
        local == Fastest(view, near)
        stays == far = {} \/ Latency(view, local) <= Latency(view, Fastest(view, far)) + view.penalty
    IN IF view.turn <= 0
       THEN [target |-> Balanced(view, targets),
             reason |-> IF Balanced(view, targets) # Fastest(view, targets)
                        THEN "LOAD_BALANCE" ELSE "LATENCY_TIEBREAK"]
       ELSE IF near # {} /\ stays THEN [target |-> local, reason |-> "KV_AFFINITY"]
       ELSE [target |-> Fastest(view, far), reason |-> "LATENCY_TIEBREAK"]

\* Mutant: the tier is given up one step too early.
HoldsTierBriefly(view, placed, survivors) ==
    /\ TierRank(view.tier) > TierRank(placed.tier)
    /\ view.stable + 1 < Config.stable
    /\ \E t \in survivors : t.model = view.model

\* _should_hold_tier
HoldsTier(view, placed, survivors) ==
    /\ TierRank(view.tier) > TierRank(placed.tier)
    /\ view.stable < Config.stable
    /\ \E t \in survivors : t.model = view.model

(***************************************************************************)
(* The decision                                                            *)
(***************************************************************************)

\* DecisionReason
Reasons == {"SUCCESS_DOMINANT", "CRITICAL_OVERRIDE", "COST_DOMINANT", "KV_AFFINITY",
            "LATENCY_TIEBREAK", "HYSTERESIS_HOLD", "FALLBACK", "LOAD_BALANCE"}

\* _decision_reason
ReasonFor(view, guarded, fallback, affordable, survivors, placed) ==
    IF guarded THEN "CRITICAL_OVERRIDE"
    ELSE IF fallback THEN "FALLBACK"
    ELSE IF \A t, u \in affordable : t.model = u.model THEN "SUCCESS_DOMINANT"
    ELSE IF placed.reason \in {"KV_AFFINITY", "LOAD_BALANCE"} THEN placed.reason
    ELSE IF survivors # affordable THEN "COST_DOMINANT"
    ELSE "LATENCY_TIEBREAK"

\* schedule
Decision(view, targets) ==
    LET eligible   == EligibleOf(view, targets)
        guarded    == Guarded(view, eligible)
        considered == Considered(view, eligible)
        affordable == WithinBudget(view, considered, SuccessGate(view, considered))
        survivors  == CostGate(view, considered, affordable)
        placed     == Placement(view, survivors)
        held       == ~ guarded /\ HoldsTier(view, placed.target, survivors)
        target     == IF held
                      THEN Placement(view, {t \in survivors : t.model = view.model}).target
                      ELSE placed.target
    IN IF affordable = {} THEN Infeasible
       ELSE [target    |-> target,
             guarded   |-> guarded,
             survivors |-> {t.model : t \in survivors},
             reason    |-> IF held THEN "HYSTERESIS_HOLD"
                           ELSE ReasonFor(view, guarded, SuccessEquals(view, considered) = {},
                                          affordable, survivors, placed)]
=============================================================================
