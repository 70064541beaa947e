------------------------- MODULE SuccessFirstProofs -------------------------
(***************************************************************************)
(* What the operators of SuccessFirst return, for any view, any finite     *)
(* pool of targets, any predictor and any configuration.                   *)
(*                                                                         *)
(* The scheduler's choices are members of what they choose from:           *)
(* success_gate and cost_gate never empty a pool, and min() over keys that *)
(* tell the targets apart (a finite set under a strict lexicographic       *)
(* order) has an answer.                                                   *)
(***************************************************************************)
EXTENDS SuccessFirst, TLAPS, FiniteSetTheorems, WellFoundedInduction

(***************************************************************************)
(* Least members                                                           *)
(***************************************************************************)
LEMMA NaturalsHaveLeast ==
    ASSUME NEW S \in SUBSET Nat, S # {}
    PROVE  \E m \in S : \A n \in S : m <= n
<1>1. PICK m \in S : \A n \in S : ~ (<<n, m>> \in OpToRel(<, Nat))
    BY WFMin, NatLessThanWellFounded
<1>2. \A n \in S : ~ (n < m)
    BY <1>1 DEF OpToRel
<1>3. \A n \in S : n \in Int
    OBVIOUS
<1> QED BY <1>2, <1>3

\* Tuples of n integers.
Keys(n) == [1..n -> Int]

\* Python's order of tuples: of two different ones, one is less.
LEMMA LexTotal ==
    ASSUME NEW n \in Nat, NEW a \in Keys(n), NEW b \in Keys(n), a # b
    PROVE  LexLess(a, b) \/ LexLess(b, a)
<1> DEFINE D == {i \in 1..n : a[i] # b[i]}
<1>1. D # {}
    BY DEF Keys
<1>2. D \in SUBSET Nat
    OBVIOUS
<1>3. PICK i \in D : \A j \in D : i <= j
    BY <1>1, <1>2, NaturalsHaveLeast
<1>4. \A j \in 1..(i - 1) : a[j] = b[j]
    BY <1>3
<1>5. a[i] \in Int /\ b[i] \in Int /\ a[i] # b[i] /\ i \in DOMAIN a /\ i \in DOMAIN b
    BY DEF Keys
<1> QED BY <1>4, <1>5 DEF LexLess

LEMMA LexTransitive ==
    ASSUME NEW n \in Nat, NEW a \in Keys(n), NEW b \in Keys(n), NEW c \in Keys(n),
           LexLess(a, b), LexLess(b, c)
    PROVE  LexLess(a, c)
<1>1. PICK i \in 1..n : a[i] < b[i] /\ \A j \in 1..(i - 1) : a[j] = b[j]
    BY DEF LexLess, Keys
<1>2. PICK k \in 1..n : b[k] < c[k] /\ \A j \in 1..(k - 1) : b[j] = c[j]
    BY DEF LexLess, Keys
<1>3. \A j \in 1..n : a[j] \in Int /\ b[j] \in Int /\ c[j] \in Int
    BY DEF Keys
<1>4. DOMAIN a = 1..n
    BY DEF Keys
<1>5. CASE i < k
    <2>1. a[i] < c[i] /\ i \in 1..n
        BY <1>1, <1>2, <1>3, <1>5
    <2>2. \A j \in 1..(i - 1) : a[j] = c[j]
        BY <1>1, <1>2, <1>5
    <2> QED BY <2>1, <2>2, <1>4 DEF LexLess
<1>6. CASE i >= k
    <2>1. a[k] < c[k]
        BY <1>1, <1>2, <1>3, <1>6
    <2>2. \A j \in 1..(k - 1) : a[j] = c[j]
        BY <1>1, <1>2, <1>6
    <2> QED BY <2>1, <2>2, <1>4 DEF LexLess
<1> QED BY <1>5, <1>6

\* A finite set whose members have distinct keys has a least member.
LEMMA LeastExists ==
    ASSUME NEW S, IsFiniteSet(S), S # {}, NEW n \in Nat, NEW key \in [S -> Keys(n)],
           \A t, u \in S : t # u => key[t] # key[u]
    PROVE  \E t \in S : \A u \in S \ {t} : LexLess(key[t], key[u])
<1> DEFINE
      HasLeast(T) == \E t \in T : \A u \in T \ {t} : LexLess(key[t], key[u])
      Bad == {T \in SUBSET S : T # {} /\ ~ HasLeast(T)}
      Sizes == {Cardinality(T) : T \in Bad}
<1>1. SUFFICES ASSUME Bad # {} PROVE FALSE
    OBVIOUS
<1>2. \A T \in SUBSET S : IsFiniteSet(T) /\ Cardinality(T) \in Nat
    BY FS_Subset, FS_CardinalityType
<1>3. PICK m \in Sizes : \A k \in Sizes : m <= k
    <2>1. Sizes \in SUBSET Nat /\ Sizes # {}
        BY <1>1, <1>2
    <2> QED BY <2>1, NaturalsHaveLeast
<1>4. PICK T \in Bad : \A U \in Bad : Cardinality(T) <= Cardinality(U)
    BY <1>3
<1>5. PICK t \in T : TRUE
    OBVIOUS
<1>6. T \ {t} \in SUBSET S /\ Cardinality(T \ {t}) = Cardinality(T) - 1
    BY <1>2, <1>5, FS_RemoveElement
<1>7. T \ {t} \notin Bad
    <2>1. Cardinality(T) \in Nat
        BY <1>2
    <2>2. ~ (Cardinality(T) <= Cardinality(T \ {t}))
        BY <2>1, <1>6
    <2> HIDE DEF Bad
    <2> QED BY <2>2, <1>4
<1>8. T # {t}
    <2>1. T = {t} => HasLeast(T)
        OBVIOUS
    <2> QED BY <2>1
<1>9. PICK v \in T \ {t} : \A u \in (T \ {t}) \ {v} : LexLess(key[v], key[u])
    BY <1>5, <1>6, <1>7, <1>8
<1>10. key[t] \in Keys(n) /\ key[v] \in Keys(n) /\ key[t] # key[v] /\ t \in S /\ v \in S
    BY <1>5, <1>9
<1>11. CASE LexLess(key[v], key[t])
    <2>1. \A u \in T \ {v} : LexLess(key[v], key[u])
        BY <1>9, <1>11
    <2> QED BY <2>1, <1>9
<1>12. CASE LexLess(key[t], key[v])
    <2>1. ASSUME NEW u \in T \ {t} PROVE LexLess(key[t], key[u])
        <3>1. CASE u = v
            BY <3>1, <1>12
        <3>2. CASE u # v
            <4>1. LexLess(key[v], key[u])
                BY <3>2, <1>9
            <4>2. key[u] \in Keys(n)
                OBVIOUS
            <4> QED BY <4>1, <4>2, <1>10, <1>12, LexTransitive
        <3> QED BY <3>1, <3>2
    <2> QED BY <2>1, <1>5
<1> QED BY <1>10, <1>11, <1>12, LexTotal

(***************************************************************************)
(* What the scheduler's operators return                                   *)
(***************************************************************************)
LEMMA PoolSubset ==
    ASSUME NEW T, IsPool(T), NEW U \in SUBSET T
    PROVE  IsPool(U)
BY FS_Subset DEF IsPool

LEMMA TokensType ==
    ASSUME NEW v, IsMeasured(v), NEW t, IsTarget(t)
    PROVE  /\ LocalTokens(v, t) \in Int
           /\ RemoteTokens(v, t) \in Int
           /\ MissTokens(v, t) \in Int
<1>1. v.prompt \in Int /\ t.local \in Int /\ t.remote \in Int
    BY DEF IsMeasured, IsTarget
<1>2. LocalTokens(v, t) \in Int
    BY <1>1 DEF LocalTokens, Smaller
<1>3. RemoteTokens(v, t) \in Int
    BY <1>1, <1>2 DEF RemoteTokens, Smaller
<1> QED BY <1>1, <1>2, <1>3 DEF MissTokens

LEMMA LatencyType ==
    ASSUME NEW v, IsMeasured(v), NEW t, IsTarget(t)
    PROVE  Latency(v, t) \in Int
<1>1. /\ v.output \in Int /\ t.queue \in Int /\ t.fetchTime \in Int
      /\ t.recomputeTime \in Int /\ t.prefillTime \in Int /\ t.decodeTime \in Int
    BY DEF IsMeasured, IsTarget
<1> QED BY <1>1, TokensType DEF Latency

\* _estimate_by_model finds a first replica of every model.
LEMMA FirstIsMember ==
    ASSUME NEW T, IsPool(T), T # {}
    PROVE  Least(T, LAMBDA u : <<u.place>>) \in T
<1> DEFINE key == [u \in T |-> <<u.place>>]
<1>1. \A u \in T : u.place \in Int
    BY DEF IsPool, IsTarget
<1>2. key \in [T -> Keys(1)]
    BY <1>1 DEF Keys
<1>3. \A t, u \in T : t # u => key[t] # key[u]
    BY DEF IsPool
<1>4. PICK t \in T : \A u \in T \ {t} : LexLess(key[t], key[u])
    <2> HIDE DEF key
    <2> QED BY <1>2, <1>3, LeastExists DEF IsPool
<1>5. \A u \in T \ {t} : LexLess(<<t.place>>, <<u.place>>)
    BY <1>4
<1> QED BY <1>5 DEF Least

LEMMA FastestIsMember ==
    ASSUME NEW v, IsMeasured(v), NEW T, IsPool(T), T # {}
    PROVE  Fastest(v, T) \in T
<1> DEFINE key == [u \in T |-> <<Latency(v, u), u.place>>]
<1>1. \A u \in T : u.place \in Int /\ Latency(v, u) \in Int
    BY LatencyType DEF IsPool, IsTarget
<1>2. key \in [T -> Keys(2)]
    BY <1>1 DEF Keys
<1>3. \A t, u \in T : t # u => key[t] # key[u]
    BY DEF IsPool
<1>4. PICK t \in T : \A u \in T \ {t} : LexLess(key[t], key[u])
    <2> HIDE DEF key
    <2> QED BY <1>2, <1>3, LeastExists DEF IsPool
<1>5. \A u \in T \ {t} : LexLess(<<Latency(v, t), t.place>>, <<Latency(v, u), u.place>>)
    BY <1>4
<1> QED BY <1>5 DEF Fastest, Least

LEMMA BalancedIsMember ==
    ASSUME NEW v, IsMeasured(v), NEW T, IsPool(T), T # {}
    PROVE  Balanced(v, T) \in T
<1> DEFINE key == [u \in T |-> <<-u.load, Latency(v, u), -LocalTokens(v, u),
                                 u.endpoint, u.replica, u.place>>]
<1>1. \A u \in T : /\ u.place \in Int /\ Latency(v, u) \in Int /\ -u.load \in Int
                   /\ -LocalTokens(v, u) \in Int /\ u.endpoint \in Int /\ u.replica \in Int
    BY LatencyType, TokensType DEF IsPool, IsTarget
<1>2. key \in [T -> Keys(6)]
    BY <1>1 DEF Keys
<1>3. \A t, u \in T : t # u => key[t] # key[u]
    BY DEF IsPool
<1>4. PICK t \in T : \A u \in T \ {t} : LexLess(key[t], key[u])
    <2> HIDE DEF key
    <2> QED BY <1>2, <1>3, LeastExists DEF IsPool
<1>5. \A u \in T \ {t} :
          LexLess(<<-t.load, Latency(v, t), -LocalTokens(v, t), t.endpoint, t.replica, t.place>>,
                  <<-u.load, Latency(v, u), -LocalTokens(v, u), u.endpoint, u.replica, u.place>>)
    BY <1>4
<1> QED BY <1>5 DEF Balanced, Least

\* choose_placement chooses among what it is given.
LEMMA PlacementIsMember ==
    ASSUME NEW v, IsMeasured(v), NEW T, IsPool(T), T # {}
    PROVE  Placement(v, T).target \in T
<1> DEFINE near == {t \in T : IsLocal(v, t)}
           far == T \ near
<1>1. IsPool(near) /\ IsPool(far)
    BY PoolSubset
<1>2. near # {} => Fastest(v, near) \in T
    BY <1>1, FastestIsMember
<1>3. far # {} => Fastest(v, far) \in T
    BY <1>1, FastestIsMember
<1>4. Balanced(v, T) \in T
    BY BalancedIsMember
<1> QED BY <1>2, <1>3, <1>4 DEF Placement

\* Every target has numbers, those of the predictor or those of its failure.
LEMMA EstimateType ==
    ASSUME NEW v, NEW T, IsPool(T), Speaks(v, T), NEW t \in T
    PROVE  EstimateIn(v, T, t).success \in Int /\ EstimateIn(v, T, t).uncertainty \in Int
<1> DEFINE replicas == {u \in T : u.model = t.model}
           first == Least(replicas, LAMBDA u : <<u.place>>)
<1>1. IsPool(replicas) /\ replicas # {}
    BY PoolSubset
<1>2. first \in T
    BY <1>1, FirstIsMember
<1>3. \/ Estimate(v, first) = NoEstimate
      \/ {Estimate(v, first).success, Estimate(v, first).uncertainty} \subseteq Int
    BY <1>2 DEF Speaks
<1> HIDE DEF first
<1>4. EstimateIn(v, T, t) = IF Estimate(v, first) = NoEstimate
                            THEN [success |-> 0, uncertainty |-> Whole, strange |-> TRUE]
                            ELSE Estimate(v, first)
    BY DEF EstimateIn, first
<1> QED BY <1>3, <1>4 DEF Whole

LEMMA LcbType ==
    ASSUME NEW v, NEW T, IsPool(T), Speaks(v, T), NEW t \in T
    PROVE  Lcb(v, T, t) \in Int /\ Lcb(v, T, t) <= Whole
<1>1. EstimateIn(v, T, t).success \in Int /\ EstimateIn(v, T, t).uncertainty \in Int
    BY EstimateType
<1>2. (Config.beta * EstimateIn(v, T, t).uncertainty) \div 100 \in Int
    BY <1>1, ConfigAssumption
<1>3. \A x \in Int : Bounded(x, 0, Whole) \in Int /\ Bounded(x, 0, Whole) <= Whole
    BY DEF Bounded, Whole
<1>4. EstimateIn(v, T, t).success
          - (Config.beta * EstimateIn(v, T, t).uncertainty) \div 100 \in Int
    BY <1>1, <1>2
<1>5. Lcb(v, T, t) = Bounded(EstimateIn(v, T, t).success
          - (Config.beta * EstimateIn(v, T, t).uncertainty) \div 100, 0, Whole)
    BY DEF Lcb
<1> QED BY <1>3, <1>4, <1>5

LEMMA BaseCostType ==
    ASSUME NEW v, IsMeasured(v), NEW t, IsTarget(t)
    PROVE  BaseCost(v, t) \in Int
<1>1. /\ v.prompt \in Int /\ v.output \in Int /\ t.cost \in Int /\ t.perPrompt \in Int
      /\ t.perOutput \in Int /\ t.fetch \in Int /\ t.recompute \in Int /\ t.overhead \in Int
    BY DEF IsMeasured, IsTarget
<1> QED BY <1>1, TokensType DEF BaseCost

\* effective_cost is never negative, which is why cost_gate keeps the cheapest.
LEMMA CostType ==
    ASSUME NEW v, IsMeasured(v), NEW T, IsPool(T), Speaks(v, T), NEW t \in T
    PROVE  EffectiveCost(v, T, t) \in Nat
<1>1. IsTarget(t)
    BY DEF IsPool
<1>2. v.worth \in Int /\ t.reuse \in Int /\ t.recompute \in Int /\ t.retry \in Int
    BY <1>1 DEF IsMeasured, IsTarget
<1>3. FutureValue(v, t) \in Int
    <2>1. v.worth * (100 * LocalTokens(v, t) + t.reuse * RemoteTokens(v, t)) * t.recompute \in Int
        BY <1>1, <1>2, TokensType
    <2> QED BY <2>1 DEF FutureValue
<1>4. ((Whole - EstimateIn(v, T, t).success) * t.retry) \div Whole \in Int
    BY <1>2, EstimateType DEF Whole
<1>5. (Config.lambda * FutureValue(v, t)) \div 100 \in Int
    BY <1>3, ConfigAssumption
<1>6. BaseCost(v, t) \in Int
    BY <1>1, BaseCostType
<1> QED BY <1>4, <1>5, <1>6 DEF EffectiveCost

\* success_gate leaves something: the best, if nothing reaches the minimum.
LEMMA SuccessGateLeavesSome ==
    ASSUME NEW v, NEW T, IsPool(T), Speaks(v, T), T # {}
    PROVE  SuccessGate(v, T) # {}
<1> DEFINE gaps == {Whole - Lcb(v, T, t) : t \in T}
<1>1. \A t \in T : Lcb(v, T, t) \in Int /\ Whole - Lcb(v, T, t) \in Nat
    <2>1. \A t \in T : Lcb(v, T, t) \in Int /\ Lcb(v, T, t) <= Whole
        BY LcbType
    <2> QED BY <2>1 DEF Whole
<1>2. PICK gap \in gaps : \A other \in gaps : gap <= other
    <2>1. gaps \in SUBSET Nat /\ gaps # {}
        BY <1>1
    <2> QED BY <2>1, NaturalsHaveLeast
<1>3. PICK t \in T : gap = Whole - Lcb(v, T, t)
    BY <1>2
<1>4. \A u \in T : Whole - Lcb(v, T, t) <= Whole - Lcb(v, T, u)
    BY <1>2, <1>3
<1>5. \A u \in T : Lcb(v, T, t) >= Lcb(v, T, u) - 0
    BY <1>1, <1>4 DEF Whole
<1> QED BY <1>5 DEF SuccessGate, IsSafest

\* cost_gate leaves the cheapest of what it is given.
LEMMA CostGateLeavesSome ==
    ASSUME NEW v, IsMeasured(v), NEW T, IsPool(T), Speaks(v, T), NEW S \in SUBSET T, S # {}
    PROVE  CostGate(v, T, S) # {}
<1> DEFINE costs == {EffectiveCost(v, T, t) : t \in S}
<1>1. \A t \in S : EffectiveCost(v, T, t) \in Nat
    BY CostType
<1>2. PICK cost \in costs : \A other \in costs : cost <= other
    <2>1. costs \in SUBSET Nat /\ costs # {}
        BY <1>1
    <2> QED BY <2>1, NaturalsHaveLeast
<1>3. PICK t \in S : cost = EffectiveCost(v, T, t)
    BY <1>2
<1>4. \A u \in S : EffectiveCost(v, T, t) <= EffectiveCost(v, T, u)
    BY <1>2, <1>3
<1>5. ASSUME NEW u \in S
      PROVE  100 * EffectiveCost(v, T, t) <= (100 + Config.epsilonCost) * EffectiveCost(v, T, u)
    <2> DEFINE c == EffectiveCost(v, T, t)
               d == EffectiveCost(v, T, u)
               e == Config.epsilonCost
    <2>1. c \in Nat /\ d \in Nat /\ c <= d
        BY <1>1, <1>4
    <2>2. e \in Nat
        BY ConfigAssumption
    <2> HIDE DEF c, d, e
    <2>3. e * d \in Nat
        BY <2>1, <2>2
    <2>4. (100 + e) * d = 100 * d + e * d
        BY <2>1, <2>2
    <2>5. 100 * c <= (100 + e) * d
        BY <2>1, <2>3, <2>4
    <2> QED BY <2>5 DEF c, d, e
<1> QED BY <1>5 DEF CostGate

\* What a call considers is part of what it was given.
LEMMA ConsideredIsPool ==
    ASSUME NEW v, NEW T, IsPool(T), Speaks(v, T)
    PROVE  LET R == Considered(v, EligibleOf(v, T)) IN
           /\ R \in SUBSET T
           /\ IsPool(R)
           /\ Speaks(v, R)
           /\ EligibleOf(v, T) # {} => R # {}
<1> DEFINE R == Considered(v, EligibleOf(v, T))
<1>1. R \in SUBSET EligibleOf(v, T) /\ (EligibleOf(v, T) # {} => R # {})
    BY DEF Considered, CapableOnly
<1>2. R \in SUBSET T
    BY <1>1 DEF EligibleOf
<1>3. IsPool(R)
    BY <1>2, PoolSubset
<1>4. Speaks(v, R)
    BY <1>2 DEF Speaks
<1> QED BY <1>1, <1>2, <1>3, <1>4

(***************************************************************************)
(* The decision                                                            *)
(***************************************************************************)

\* What is left when cost is first looked at and the budget has been kept.
Affordable(v, T) ==
    LET R == Considered(v, EligibleOf(v, T)) IN WithinBudget(v, R, SuccessGate(v, R))

\* What a decision rests on: the chosen target went through every gate.
Stands(v, T, d) ==
    LET survivors == CostGate(v, Considered(v, EligibleOf(v, T)), Affordable(v, T))
    IN /\ d.target \in survivors
       /\ d.guarded = Guarded(v, EligibleOf(v, T))
       /\ d.survivors = {t.model : t \in survivors}
       /\ \/ d.guarded
          \/ d.target.model = v.model
          \/ ~ HoldsTier(v, d.target, survivors)

\* schedule raises only if nothing is affordable; else its choice stands.
LEMMA DecisionStands ==
    ASSUME NEW v, NEW T, IsMeasured(v), IsPool(T), Speaks(v, T), Affordable(v, T) # {}
    PROVE  /\ Stands(v, T, Decision(v, T))
           /\ Decision(v, T) \in [target : T, guarded : BOOLEAN,
                                  survivors : SUBSET {t.model : t \in T}, reason : Reasons]
<1> DEFINE eligible == EligibleOf(v, T)
           guarded == Guarded(v, eligible)
           R == Considered(v, eligible)
           affordable == Affordable(v, T)
           survivors == CostGate(v, R, affordable)
           placed == Placement(v, survivors)
           held == ~ guarded /\ HoldsTier(v, placed.target, survivors)
           own == {t \in survivors : t.model = v.model}
<1>1. R \in SUBSET T /\ IsPool(R) /\ Speaks(v, R)
    BY ConsideredIsPool
<1>2. affordable # {}
    OBVIOUS
<1>3. affordable \in SUBSET R
    BY DEF Affordable, WithinBudget, SuccessGate, SuccessEquals
<1>4. survivors # {} /\ survivors \in SUBSET R
    <2>1. survivors \in SUBSET affordable
        BY DEF CostGate
    <2>2. survivors # {}
        <3> HIDE DEF affordable, R
        <3> QED BY <1>1, <1>2, <1>3, CostGateLeavesSome
    <2> QED BY <2>1, <2>2, <1>3
<1>5. IsPool(survivors) /\ IsPool(own)
    BY <1>1, <1>4, PoolSubset
<1>6. placed.target \in survivors
    BY <1>1, <1>4, <1>5, PlacementIsMember
<1>7. held => own # {}
    BY DEF HoldsTier
<1>8. held => Placement(v, own).target \in own
    BY <1>1, <1>5, <1>7, PlacementIsMember
<1>9. Decision(v, T) =
        [target    |-> IF held THEN Placement(v, own).target ELSE placed.target,
         guarded   |-> guarded,
         survivors |-> {t.model : t \in survivors},
         reason    |-> IF held THEN "HYSTERESIS_HOLD"
                       ELSE ReasonFor(v, guarded, SuccessEquals(v, R) = {},
                                      affordable, survivors, placed)]
    BY <1>2 DEF Decision, Affordable
<1> DEFINE reason == Decision(v, T).reason
           target == Decision(v, T).target
<1>10. guarded \in BOOLEAN
    BY DEF Guarded, Override, NeedsSafeMode
<1>11. reason \in Reasons
    <2> HIDE DEF placed, guarded, R, affordable, survivors, held
    <2> QED BY <1>9 DEF ReasonFor, Reasons
<1> HIDE DEF eligible, guarded, R, affordable, survivors, placed, held, own
<1>12. target \in survivors /\ (held => target \in own)
    BY <1>6, <1>8, <1>9 DEF own
<1>13. Decision(v, T) \in [target : T, guarded : BOOLEAN,
                            survivors : SUBSET {t.model : t \in T}, reason : Reasons]
    <2>1. target \in T
        BY <1>1, <1>4, <1>12
    <2>2. {t.model : t \in survivors} \in SUBSET {t.model : t \in T}
        BY <1>1, <1>4
    <2>3. Decision(v, T) = [target |-> target, guarded |-> guarded,
                            survivors |-> {t.model : t \in survivors}, reason |-> reason]
        BY <1>9
    <2> HIDE DEF target, reason
    <2> QED BY <2>1, <2>2, <2>3, <1>10, <1>11
<1>14. Stands(v, T, Decision(v, T)) <=>
         /\ target \in survivors
         /\ Decision(v, T).guarded = guarded
         /\ Decision(v, T).survivors = {t.model : t \in survivors}
         /\ \/ Decision(v, T).guarded
            \/ target.model = v.model
            \/ ~ HoldsTier(v, target, survivors)
    BY DEF Stands, eligible, guarded, R, affordable, survivors
<1>15. Decision(v, T).guarded = guarded /\ Decision(v, T).survivors = {t.model : t \in survivors}
    BY <1>9
<1>16. CASE held
    <2>1. target.model = v.model
        BY <1>12, <1>16 DEF own
    <2> QED BY <2>1, <1>12, <1>13, <1>14, <1>15
<1>17. CASE ~ held
    <2>1. target = placed.target
        BY <1>9, <1>17
    <2>2. guarded \/ ~ HoldsTier(v, target, survivors)
        BY <2>1, <1>17 DEF held
    <2> QED BY <2>2, <1>12, <1>13, <1>14, <1>15
<1> QED BY <1>16, <1>17
=============================================================================
