-------------------------- MODULE KVControlProofs --------------------------
(***************************************************************************)
(* KVControl for every value of its constants.  The control journal stays  *)
(* coherent under every bundle, outcome and interleaving of planning       *)
(* threads, provided that no single bundle contradicts itself; plans with  *)
(* one idempotency key propose one move; recorded predictions can be made  *)
(* again; every recorded plan is sound, every replay of a record under     *)
(* another policy too, and every report of the outcomes adds up.           *)
(***************************************************************************)
EXTENDS KVControl, PolicyReplay, FiniteSetTheorems, SequenceTheorems, TLAPS

\* The predictions of one bundle do not contradict each other.  _validate_bundle
\* does not look at this, so it is asked of the callers.
Unambiguous(b) == \A p, q \in PredictionsOf(b) : p.id = q.id => p = q

(***************************************************************************)
(* Sequences of elements of no particular set                              *)
(***************************************************************************)
IsSeq(s) == s \in Seq({s[i] : i \in DOMAIN s})

LEMMA EmptyIsSeq == IsSeq(<<>>)
  BY DEF IsSeq

\* What Append does to a sequence.
LEMMA AppendToSeq ==
  ASSUME NEW s, NEW e, IsSeq(s)
  PROVE  /\ Len(s) \in Nat /\ DOMAIN s = 1..Len(s)
         /\ IsSeq(Append(s, e)) /\ Len(Append(s, e)) = Len(s) + 1
         /\ DOMAIN Append(s, e) = 1..(Len(s) + 1)
         /\ \A i \in 1..Len(s) : Append(s, e)[i] = s[i]
         /\ Append(s, e)[Len(s) + 1] = e
<1> DEFINE S == {s[i] : i \in DOMAIN s} \cup {e}
           r == Append(s, e)
           R == {r[i] : i \in DOMAIN r}
<1>1. s \in Seq(S) /\ e \in S
  <2>1. {s[i] : i \in DOMAIN s} \subseteq S  OBVIOUS
  <2> QED BY <2>1, SeqDef DEF IsSeq
<1> HIDE DEF S
<1>2. /\ Len(s) \in Nat /\ DOMAIN s = 1..Len(s)
      /\ r \in Seq(S) /\ Len(r) = Len(s) + 1
      /\ \A i \in 1..Len(s) : r[i] = s[i]
      /\ r[Len(s) + 1] = e
  BY <1>1, AppendProperties, LenProperties
<1>3. r \in [1..Len(r) -> S] /\ DOMAIN r = 1..Len(r)
  BY <1>2, LenProperties
<1>4. r \in [1..Len(r) -> R]
  BY <1>3
<1>5. r \in Seq(R)
  BY <1>2, <1>4, SeqDef
<1> QED BY <1>2, <1>3, <1>5 DEF IsSeq

(***************************************************************************)
(* The inductive invariant                                                 *)
(***************************************************************************)

\* PredictionService numbers its predictions, so those of one plan have ids of
\* their own.
PlansNumberTheirs ==
    \A t \in Threads : work[t].stage = "predicting" =>
        LET ps == work[t].predictions IN
        /\ {"stage", "predictions"} \subseteq DOMAIN work[t]
        /\ IsSeq(ps)
        /\ \A i \in DOMAIN ps : \E n \in 1..Len(predicted) : ps[i].id = <<"kv", n>>
        /\ \A i, j \in DOMAIN ps : ps[i].id = ps[j].id => i = j

\* What record_decision has checked of every bundle it took.
RecordedAreValid == \A r \in Recorded : Unambiguous(r) /\ HasSelection(r)

PlansOK ==
    /\ DOMAIN work = Threads /\ IsSeq(predicted)
    /\ PlansNumberTheirs

JournalOK == IsSeq(journal) /\ RecordedAreValid /\ JournalIsCoherent

JournalInv == PlansOK /\ JournalOK

\* Init: nothing is recorded and nobody is planning.
LEMMA JournalInit1 == Init => JournalInv
<1> SUFFICES ASSUME Init PROVE JournalInv  OBVIOUS
<1>1. Recorded = {} /\ outcomes = {} /\ IsSeq(journal) /\ IsSeq(predicted)
  BY EmptyIsSeq DEF Init, JournalInit, Recorded
<1>2. DOMAIN work = Threads /\ PlansNumberTheirs
  BY DEF Init, Idle, PlansNumberTheirs
<1>3. DOMAIN journal = {}
  BY DEF Init, JournalInit
<1> QED BY <1>1, <1>2, <1>3 DEF JournalInv, PlansOK, JournalOK, RecordedAreValid, JournalIsCoherent,
           OneDecisionPerAction, PredictionsAgree, FeedbackJoinsSelection

(***************************************************************************)
(* The journal's own steps                                                 *)
(***************************************************************************)

\* _selected_prediction finds a prediction of the bundle.
LEMMA SelectionExists ==
  ASSUME NEW r, HasSelection(r)
  PROVE  /\ SelectedPrediction(r) \in PredictionsOf(r)
         /\ MayBeMeant(r, SelectedPrediction(r))
<1>1. \E p \in PredictionsOf(r) : MayBeMeant(r, p)
  <2> DEFINE S == {i \in DOMAIN r.predictions : MayBeMeant(r, r.predictions[i])}
  <2>1. S # {}
    BY FS_EmptySet DEF HasSelection
  <2> QED BY <2>1 DEF PredictionsOf
<1> QED BY <1>1 DEF SelectedPrediction

\* record_decision: a bundle that is taken joins the others.
LEMMA DecisionKeepsJournal ==
  ASSUME JournalOK, NEW b, Unambiguous(b), RecordDecision(b)
  PROVE  JournalOK'
<1>1. CASE ~ AcceptsBundle(b)
  <2>1. UNCHANGED <<journal, outcomes>>
    BY <1>1 DEF RecordDecision
  <2> QED BY <2>1 DEF JournalOK, RecordedAreValid, Recorded, JournalIsCoherent,
             OneDecisionPerAction, PredictionsAgree, FeedbackJoinsSelection, Decided
<1>2. CASE AcceptsBundle(b)
  <2>1. journal' = Append(journal, b) /\ outcomes' = outcomes /\ IsSeq(journal)
    BY <1>2 DEF RecordDecision, JournalOK
  <2>2. /\ Len(journal) \in Nat /\ DOMAIN journal = 1..Len(journal)
        /\ IsSeq(journal') /\ DOMAIN journal' = 1..(Len(journal) + 1)
        /\ \A i \in 1..Len(journal) : journal'[i] = journal[i]
        /\ journal'[Len(journal) + 1] = b
    BY <2>1, AppendToSeq
  <2>3. Recorded' = Recorded \cup {b}
    BY <2>2 DEF Recorded
  <2>4. RecordedAreValid'
    BY <1>2, <2>3 DEF RecordedAreValid, JournalOK, AcceptsBundle
  <2>5. OneDecisionPerAction'
    <3> SUFFICES ASSUME NEW i \in DOMAIN journal', NEW j \in DOMAIN journal',
                        \/ journal'[i].decision.id = journal'[j].decision.id
                        \/ journal'[i].decision.action.id = journal'[j].decision.action.id
                 PROVE  i = j
      BY DEF OneDecisionPerAction
    <3>1. \A k \in DOMAIN journal : journal[k].decision.id # b.decision.id
                                 /\ journal[k].decision.action.id # b.decision.action.id
      BY <1>2 DEF AcceptsBundle, DecisionIsNew, ActionIsNew, Recorded
    <3>2. CASE i \in 1..Len(journal) /\ j \in 1..Len(journal)
      <4>1. journal'[i] = journal[i] /\ journal'[j] = journal[j]
        BY <2>2, <3>2
      <4> QED BY <2>2, <3>2, <4>1 DEF JournalOK, JournalIsCoherent, OneDecisionPerAction
    <3>3. CASE i = Len(journal) + 1 /\ j \in 1..Len(journal)
      BY <2>2, <3>1, <3>3
    <3>4. CASE i \in 1..Len(journal) /\ j = Len(journal) + 1
      BY <2>2, <3>1, <3>4
    <3>5. i \in 1..Len(journal) \/ i = Len(journal) + 1
      BY <2>2
    <3>6. j \in 1..Len(journal) \/ j = Len(journal) + 1
      BY <2>2
    <3> QED BY <3>2, <3>3, <3>4, <3>5, <3>6
  <2>6. PredictionsAgree'
    BY <1>2, <2>3 DEF JournalOK, JournalIsCoherent, PredictionsAgree, AcceptsBundle,
       PredictionsFit, Unambiguous
  <2>7. FeedbackJoinsSelection'
    BY <2>1, <2>3 DEF JournalOK, JournalIsCoherent, FeedbackJoinsSelection, Decided
  <2> QED BY <2>2, <2>4, <2>5, <2>6, <2>7 DEF JournalOK, JournalIsCoherent
<1> QED BY <1>1, <1>2

\* record_outcome: an outcome that is taken joins the one decision for its action.
LEMMA OutcomeKeepsJournal ==
  ASSUME JournalOK, NEW o, RecordOutcome(o)
  PROVE  JournalOK'
<1>1. journal' = journal /\ Recorded' = Recorded
  BY DEF RecordOutcome, Recorded
<1>2. /\ IsSeq(journal') /\ RecordedAreValid' /\ OneDecisionPerAction' /\ PredictionsAgree'
  BY <1>1 DEF JournalOK, RecordedAreValid, JournalIsCoherent, OneDecisionPerAction, PredictionsAgree
<1>3. FeedbackJoinsSelection'
  <2>1. CASE ~ AcceptsOutcome(o)
    BY <1>1, <2>1 DEF RecordOutcome, JournalOK, JournalIsCoherent, FeedbackJoinsSelection, Decided
  <2>2. CASE AcceptsOutcome(o)
    <3>1. PICK r \in Decided(o.action) : TRUE
      BY <2>2 DEF AcceptsOutcome
    <3>2. Decided(o.action) = {r}
      BY <3>1 DEF JournalOK, JournalIsCoherent, OneDecisionPerAction, Decided, Recorded
    <3>3. outcomes' = {e \in outcomes : e.feedback.outcome.action # o.action} \cup {Entry(r, o)}
      BY <2>2, <3>2 DEF RecordOutcome
    <3>4. /\ Entry(r, o).prediction = SelectedPrediction(r)
          /\ Entry(r, o).feedback.outcome = o
          /\ Entry(r, o).feedback.decision = r.decision.id
          /\ Entry(r, o).feedback.prediction = SelectedPrediction(r).id
      BY DEF Entry, Feedback
    <3>5. /\ SelectedPrediction(r) \in PredictionsOf(r)
          /\ MayBeMeant(r, SelectedPrediction(r))
      BY <3>1, SelectionExists DEF JournalOK, RecordedAreValid, Decided
    <3> DEFINE new == Entry(r, o)
    <3> HIDE DEF new
    <3>6. \A e1, e2 \in outcomes' :
             e1.feedback.outcome.action = e2.feedback.outcome.action => e1 = e2
      BY <3>3, <3>4 DEF JournalOK, JournalIsCoherent, FeedbackJoinsSelection, new
    <3>7. ASSUME NEW e \in outcomes'
          PROVE  \E q \in Decided(e.feedback.outcome.action)' :
                    /\ e.feedback.decision = q.decision.id
                    /\ e.feedback.prediction = e.prediction.id
                    /\ e.prediction \in PredictionsOf(q)
                    /\ MayBeMeant(q, e.prediction)
      <4>1. \A a : Decided(a)' = Decided(a)
        BY <1>1 DEF Decided
      <4>2. CASE e = new
        BY <3>1, <3>4, <3>5, <4>1, <4>2 DEF new
      <4>3. CASE e \in outcomes
        BY <4>1, <4>3 DEF JournalOK, JournalIsCoherent, FeedbackJoinsSelection
      <4> QED BY <3>3, <4>2, <4>3 DEF new
    <3> QED BY <3>6, <3>7 DEF FeedbackJoinsSelection
  <2> QED BY <2>1, <2>2
<1> QED BY <1>2, <1>3 DEF JournalOK, JournalIsCoherent

(***************************************************************************)
(* The steps of the planning threads                                       *)
(***************************************************************************)

\* What does not touch the journal leaves it coherent.
LEMMA JournalStays ==
  ASSUME JournalOK, UNCHANGED journalVars
  PROVE  JournalOK'
  BY DEF JournalOK, RecordedAreValid, Recorded, JournalIsCoherent, OneDecisionPerAction,
     PredictionsAgree, FeedbackJoinsSelection, Decided, journalVars

\* A thread that starts, stops or has predicted nothing yet owns no ids.
LEMMA FreshWork ==
  ASSUME PlansOK, NEW t \in Threads, NEW w,
         work' = [work EXCEPT ![t] = w], predicted' = predicted,
         w.stage = "predicting" =>
            {"stage", "predictions"} \subseteq DOMAIN w /\ w.predictions = <<>>
  PROVE  PlansOK'
<1>1. PlansNumberTheirs'
  <2> SUFFICES ASSUME NEW u \in Threads, work'[u].stage = "predicting"
               PROVE  LET ps == work'[u].predictions IN
                      /\ {"stage", "predictions"} \subseteq DOMAIN work'[u]
                      /\ IsSeq(ps)
                      /\ \A i \in DOMAIN ps : \E n \in 1..Len(predicted') : ps[i].id = <<"kv", n>>
                      /\ \A i, j \in DOMAIN ps : ps[i].id = ps[j].id => i = j
    BY DEF PlansNumberTheirs
  <2>1. CASE u = t
    <3>1. work'[u] = w /\ DOMAIN <<>> = {}
      BY <2>1 DEF PlansOK
    <3> QED BY <3>1, EmptyIsSeq
  <2>2. CASE u # t
    <3>1. work'[u] = work[u]
      BY <2>2 DEF PlansOK
    <3> QED BY <3>1 DEF PlansOK, PlansNumberTheirs
  <2> QED BY <2>1, <2>2
<1> QED BY <1>1 DEF PlansOK

\* PredictionService.predict: the new id is larger than any before it.
LEMMA PredictNextKeepsPlans ==
  ASSUME PlansOK, NEW t \in Threads, PredictNext(t)
  PROVE  PlansOK'
<1> DEFINE w == work[t]
           c == w.candidates[Len(w.predictions) + 1]
           p == Identified(Evaluate(SnapshotToPredict(w), c), <<"kv", Len(predicted) + 1>>,
                           "analytical")
<1>1. /\ w.stage = "predicting"
      /\ predicted' = Append(predicted, [request |-> c, token |-> SnapshotToPredict(w).token,
                                         prediction |-> p])
      /\ work' = [work EXCEPT ![t].predictions = Append(@, p)]
  BY DEF PredictNext, ToPredict
<1>2. p.id = <<"kv", Len(predicted) + 1>>
  BY DEF Identified
<1> HIDE DEF p, c
<1>3. /\ Len(predicted) \in Nat /\ Len(predicted') = Len(predicted) + 1 /\ IsSeq(predicted')
  BY <1>1, AppendToSeq DEF PlansOK
<1>4. /\ {"stage", "predictions"} \subseteq DOMAIN w /\ IsSeq(w.predictions)
      /\ \A i \in DOMAIN w.predictions :
            \E n \in 1..Len(predicted) : w.predictions[i].id = <<"kv", n>>
      /\ \A i, j \in DOMAIN w.predictions : w.predictions[i].id = w.predictions[j].id => i = j
  BY <1>1 DEF PlansOK, PlansNumberTheirs
<1>5. /\ work'[t] = [w EXCEPT !.predictions = Append(w.predictions, p)]
      /\ \A u \in Threads : u # t => work'[u] = work[u]
      /\ DOMAIN work' = Threads
  BY <1>1 DEF PlansOK
<1>6. work'[t].predictions = Append(w.predictions, p) /\ DOMAIN work'[t] = DOMAIN w
  BY <1>4, <1>5
<1>7. PlansNumberTheirs'
  <2> SUFFICES ASSUME NEW u \in Threads, work'[u].stage = "predicting"
               PROVE  LET ps == work'[u].predictions IN
                      /\ {"stage", "predictions"} \subseteq DOMAIN work'[u]
                      /\ IsSeq(ps)
                      /\ \A i \in DOMAIN ps : \E n \in 1..Len(predicted') : ps[i].id = <<"kv", n>>
                      /\ \A i, j \in DOMAIN ps : ps[i].id = ps[j].id => i = j
    BY DEF PlansNumberTheirs
  <2>1. CASE u = t
    <3> DEFINE old == w.predictions
               ps == Append(old, p)
    <3>1. /\ Len(old) \in Nat /\ DOMAIN old = 1..Len(old)
          /\ IsSeq(ps) /\ DOMAIN ps = 1..(Len(old) + 1)
          /\ \A i \in 1..Len(old) : ps[i] = old[i]
          /\ ps[Len(old) + 1] = p
      BY <1>4, AppendToSeq
    <3>2. /\ \A i \in 1..Len(old) : \E n \in 1..Len(predicted) : ps[i].id = <<"kv", n>>
          /\ \A i, j \in 1..Len(old) : ps[i].id = ps[j].id => i = j
      <4>1. /\ \A i \in DOMAIN old : \E n \in 1..Len(predicted) : old[i].id = <<"kv", n>>
            /\ \A i, j \in DOMAIN old : old[i].id = old[j].id => i = j
        BY <1>4
      <4> HIDE DEF ps, old
      <4> QED BY <3>1, <4>1
    <3> HIDE DEF ps, old
    <3>3. \A i \in 1..Len(old) : ps[i].id # ps[Len(old) + 1].id
      <4> SUFFICES ASSUME NEW i \in 1..Len(old) PROVE ps[i].id # <<"kv", Len(predicted) + 1>>
        BY <1>2, <3>1
      <4>1. PICK n \in 1..Len(predicted) : ps[i].id = <<"kv", n>>
        BY <3>2
      <4>2. n # Len(predicted) + 1
        BY <1>3
      <4> QED BY <4>1, <4>2
    <3>4. \A i, j \in 1..(Len(old) + 1) : ps[i].id = ps[j].id => i = j
      BY <3>1, <3>2, <3>3
    <3>5. \A i \in 1..(Len(old) + 1) : \E n \in 1..(Len(predicted) + 1) : ps[i].id = <<"kv", n>>
      BY <1>2, <1>3, <3>1, <3>2
    <3>6. work'[u].predictions = ps
      BY <1>6, <2>1 DEF ps, old
    <3> QED BY <1>3, <1>4, <1>6, <2>1, <3>1, <3>4, <3>5, <3>6
  <2>2. CASE u # t
    <3>1. work'[u] = work[u]
      BY <1>5, <2>2
    <3>2. \A n \in 1..Len(predicted) : n \in 1..Len(predicted')
      BY <1>3
    <3> QED BY <3>1, <3>2 DEF PlansOK, PlansNumberTheirs
  <2> QED BY <2>1, <2>2
<1> QED BY <1>3, <1>5, <1>7 DEF PlansOK

\* plan(): the bundle of a plan does not contradict itself.
LEMMA PlansAreUnambiguous ==
  ASSUME PlansOK, NEW t \in Threads, work[t].stage = "predicting", NEW i
  PROVE  Unambiguous(PlanBundle(work[t], i))
<1>1. PlanBundle(work[t], i).predictions = work[t].predictions
  BY DEF PlanBundle
<1>2. \A j, k \in DOMAIN work[t].predictions :
         work[t].predictions[j].id = work[t].predictions[k].id => j = k
  BY DEF PlansOK, PlansNumberTheirs
<1> HIDE DEF PlanBundle
<1> QED BY <1>1, <1>2 DEF Unambiguous, PredictionsOf

(***************************************************************************)
(* The theorem                                                             *)
(***************************************************************************)
LEMMA JournalStep ==
  ASSUME \A b \in Bundles : Unambiguous(b), JournalInv, [Next]_vars
  PROVE  JournalInv'
<1> USE DEF JournalInv
<1>1. ASSUME NEW o, TakeSnapshot(o) \/ ChangeOwner(o) PROVE JournalInv'
  <2>1. UNCHANGED <<work, predicted, journalVars>>
    BY <1>1 DEF TakeSnapshot, ChangeOwner
  <2>2. PlansOK'
    BY <2>1 DEF PlansOK, PlansNumberTheirs
  <2> QED BY <2>1, <2>2, JournalStays
<1>2. ASSUME NEW t \in Threads, NEW r, NEW token, Begin(t, r, token) PROVE JournalInv'
  BY <1>2, FreshWork, JournalStays DEF Begin
<1>3. ASSUME NEW t \in Threads, RefuseRequest(t) \/ LoseSnapshot(t) PROVE JournalInv'
  BY <1>3, FreshWork, JournalStays DEF RefuseRequest, LoseSnapshot, Abandon, Idle
<1>4. ASSUME NEW t \in Threads, ValidateOwnership(t) PROVE JournalInv'
  <2> DEFINE w == work[t]
             new == [stage |-> "predicting", request |-> w.request, token |-> w.token,
                     owner |-> stateOwner, candidates |-> Candidates(w.request, taken[w.token]),
                     predictions |-> <<>>]
  <2>1. work' = [work EXCEPT ![t] = new] /\ UNCHANGED <<predicted, journalVars>>
    BY <1>4 DEF ValidateOwnership
  <2>2. {"stage", "predictions"} \subseteq DOMAIN new /\ new.predictions = <<>>
    OBVIOUS
  <2> HIDE DEF new
  <2> QED BY <2>1, <2>2, FreshWork, JournalStays
<1>5. ASSUME NEW t \in Threads, PredictNext(t) PROVE JournalInv'
  BY <1>5, PredictNextKeepsPlans, JournalStays DEF PredictNext
<1>6. ASSUME NEW t \in Threads, work[t].stage = "predicting", NEW i, Decide(t, i)
      PROVE  JournalInv'
  <2>1. RecordDecision(PlanBundle(work[t], i)) /\ work' = [work EXCEPT ![t] = Idle]
        /\ predicted' = predicted
    BY <1>6 DEF Decide
  <2>2. JournalOK'
    BY <1>6, <2>1, PlansAreUnambiguous, DecisionKeepsJournal
  <2>3. PlansOK'
    BY <2>1, FreshWork DEF Idle
  <2> QED BY <2>2, <2>3
<1>7. ASSUME NEW v, NEW runs, NEW replace, RegisterModel(v, runs, replace) PROVE JournalInv'
  <2>1. UNCHANGED <<work, predicted, journalVars>>
    BY <1>7 DEF RegisterModel
  <2>2. PlansOK'
    BY <2>1 DEF PlansOK, PlansNumberTheirs
  <2> QED BY <2>1, <2>2, JournalStays
<1>8. ASSUME JournalNext, UNCHANGED kvVars PROVE JournalInv'
  <2>1. UNCHANGED <<work, predicted>>
    BY <1>8 DEF kvVars
  <2>2. PlansOK'
    BY <2>1 DEF PlansOK, PlansNumberTheirs
  <2>3. JournalOK'
    BY <1>8, DecisionKeepsJournal, OutcomeKeepsJournal DEF JournalNext
  <2> QED BY <2>2, <2>3
<1>9. CASE UNCHANGED vars
  <2>1. UNCHANGED <<work, predicted, journalVars>>
    BY <1>9 DEF vars, kvVars
  <2>2. PlansOK'
    BY <2>1 DEF PlansOK, PlansNumberTheirs
  <2> QED BY <2>1, <2>2, JournalStays
<1> QED BY <1>1, <1>2, <1>3, <1>4, <1>5, <1>6, <1>7, <1>8, <1>9 DEF Next

\* record_decision, record_outcome: whatever is retried, corrected or in conflict,
\* an action is decided once, its outcome joins the selected prediction, and no
\* recorded prediction changes its meaning, if no bundle contradicts itself.
THEOREM JournalCoherence ==
  ASSUME \A b \in Bundles : Unambiguous(b)
  PROVE  Spec => []JournalIsCoherent
<1>1. JournalInv => JournalIsCoherent
  BY DEF JournalInv, JournalOK
<1>2. JournalInv /\ [Next]_vars => JournalInv'
  BY JournalStep
<1> QED BY <1>1, <1>2, JournalInit1, PTL DEF Spec

(***************************************************************************)
(* Idempotency keys                                                        *)
(***************************************************************************)

\* The other controllers do not take the decision ids of this one.
OthersNumberTheirs == \A b \in Bundles : b.decision.id[1] # "kv"

\* A thread that plans has a snapshot that was taken, and its candidates are
\* named after it.
WorkIsKeyed ==
    \A t \in Threads :
        LET w == work[t]
            s == taken[w.token]
        IN  /\ w.stage \in {"read", "predicting"} =>
                  {"stage", "request", "token"} \subseteq DOMAIN w /\ w.token \in DOMAIN taken
            /\ w.stage = "predicting" =>
                  /\ {"candidates", "predictions"} \subseteq DOMAIN w
                  /\ \A i \in DOMAIN w.candidates :
                        LET target == w.candidates[i].target IN
                        w.candidates[i].id =
                           <<s.time, ActionType(Current(w.request, s), target), target.location>>

\* What the action of a plan says of the snapshot in its key.
PlansAreKeyed ==
    \A r \in Plans : \E token \in DOMAIN taken :
        LET a == r.decision.action
            s == taken[token]
        IN  /\ a.key = <<token, <<s.time, a.type, a.target>>>>
            /\ a.expectedLocation = s.seen.location
            /\ a.bytes = ValueAt(s, "kv", "kv.size")

KeyInv == DOMAIN work = Threads /\ IsSeq(taken) /\ IsSeq(journal) /\ WorkIsKeyed /\ PlansAreKeyed

LEMMA KeyInit == Init => KeyInv
<1> SUFFICES ASSUME Init PROVE KeyInv  OBVIOUS
<1>1. Recorded = {}
  BY DEF Init, JournalInit, Recorded
<1>2. PlansAreKeyed
  BY <1>1 DEF PlansAreKeyed, Plans
<1>3. DOMAIN work = Threads /\ WorkIsKeyed /\ IsSeq(taken) /\ IsSeq(journal)
  BY EmptyIsSeq DEF Init, JournalInit, Idle, WorkIsKeyed
<1> QED BY <1>2, <1>3 DEF KeyInv

\* Snapshots that were taken stay as they are.
LEMMA TakenStays ==
  ASSUME KeyInv, UNCHANGED <<work, journal>>,
         UNCHANGED taken \/ \E o : TakeSnapshot(o)
  PROVE  KeyInv'
<1>1. IsSeq(taken')
      /\ \A token \in DOMAIN taken : token \in DOMAIN taken' /\ taken'[token] = taken[token]
  <2>1. CASE UNCHANGED taken
    BY <2>1 DEF KeyInv
  <2>2. ASSUME NEW o, TakeSnapshot(o)
        PROVE  IsSeq(taken') /\ \A token \in DOMAIN taken :
                                 token \in DOMAIN taken' /\ taken'[token] = taken[token]
    <3>1. PICK e : taken' = Append(taken, e)
      BY <2>2 DEF TakeSnapshot
    <3> QED BY <3>1, AppendToSeq DEF KeyInv
  <2> QED BY <2>1, <2>2
<1>2. WorkIsKeyed'
  <2> SUFFICES ASSUME NEW t \in Threads
               PROVE  LET w == work[t]
                          s == taken'[w.token]
                      IN  /\ w.stage \in {"read", "predicting"} =>
                                {"stage", "request", "token"} \subseteq DOMAIN w
                                /\ w.token \in DOMAIN taken'
                          /\ w.stage = "predicting" =>
                                /\ {"candidates", "predictions"} \subseteq DOMAIN w
                                /\ \A i \in DOMAIN w.candidates :
                                      LET target == w.candidates[i].target IN
                                      w.candidates[i].id =
                                         <<s.time, ActionType(Current(w.request, s), target),
                                           target.location>>
    BY DEF WorkIsKeyed
  <2>1. CASE work[t].stage \in {"read", "predicting"}
    <3>1. work[t].token \in DOMAIN taken /\ taken'[work[t].token] = taken[work[t].token]
          /\ work[t].token \in DOMAIN taken'
      BY <1>1, <2>1 DEF KeyInv, WorkIsKeyed
    <3> QED BY <3>1 DEF KeyInv, WorkIsKeyed
  <2>2. CASE work[t].stage \notin {"read", "predicting"}
    BY <2>2
  <2> QED BY <2>1, <2>2
<1>3. PlansAreKeyed'
  <2>1. Plans' = Plans
    BY DEF Plans, Recorded
  <2> SUFFICES ASSUME NEW r \in Plans
               PROVE  \E token \in DOMAIN taken' :
                         LET a == r.decision.action
                             s == taken'[token]
                         IN  /\ a.key = <<token, <<s.time, a.type, a.target>>>>
                             /\ a.expectedLocation = s.seen.location
                             /\ a.bytes = ValueAt(s, "kv", "kv.size")
    BY <2>1 DEF PlansAreKeyed
  <2>2. PICK token \in DOMAIN taken :
               LET a == r.decision.action
                   s == taken[token]
               IN  /\ a.key = <<token, <<s.time, a.type, a.target>>>>
                   /\ a.expectedLocation = s.seen.location
                   /\ a.bytes = ValueAt(s, "kv", "kv.size")
    BY DEF KeyInv, PlansAreKeyed
  <2>3. token \in DOMAIN taken' /\ taken'[token] = taken[token]
    BY <1>1
  <2> QED BY <2>2, <2>3
<1> QED BY <1>1, <1>2, <1>3 DEF KeyInv

\* One thread moves on: its new work has to be keyed, the others' is.
LEMMA OneThreadWorks ==
  ASSUME KeyInv, NEW t \in Threads, NEW w, work' = [work EXCEPT ![t] = w], taken' = taken,
         w.stage \in {"read", "predicting"} =>
            {"stage", "request", "token"} \subseteq DOMAIN w /\ w.token \in DOMAIN taken,
         w.stage = "predicting" =>
            /\ {"candidates", "predictions"} \subseteq DOMAIN w
            /\ \A i \in DOMAIN w.candidates :
                  LET target == w.candidates[i].target
                      s == taken[w.token]
                  IN  w.candidates[i].id =
                         <<s.time, ActionType(Current(w.request, s), target), target.location>>
  PROVE  DOMAIN work' = Threads /\ WorkIsKeyed'
<1>1. DOMAIN work' = Threads /\ work'[t] = w /\ \A u \in Threads : u # t => work'[u] = work[u]
  BY DEF KeyInv
<1> QED BY <1>1 DEF KeyInv, WorkIsKeyed

\* A bundle joins the journal; if it is a plan, its action has to be keyed.
LEMMA BundleIsKeyed ==
  ASSUME KeyInv, NEW b, RecordDecision(b), taken' = taken,
         b.decision.id[1] = "kv" =>
            \E token \in DOMAIN taken :
                LET a == b.decision.action
                    s == taken[token]
                IN  /\ a.key = <<token, <<s.time, a.type, a.target>>>>
                    /\ a.expectedLocation = s.seen.location
                    /\ a.bytes = ValueAt(s, "kv", "kv.size")
  PROVE  IsSeq(journal') /\ PlansAreKeyed'
<1>1. CASE journal' = journal
  <2>1. Plans' = Plans
    BY <1>1 DEF Plans, Recorded
  <2> QED BY <1>1, <2>1 DEF KeyInv, PlansAreKeyed
<1>2. CASE journal' = Append(journal, b)
  <2>1. /\ Len(journal) \in Nat /\ DOMAIN journal = 1..Len(journal)
        /\ IsSeq(journal') /\ DOMAIN journal' = 1..(Len(journal) + 1)
        /\ \A i \in 1..Len(journal) : journal'[i] = journal[i]
        /\ journal'[Len(journal) + 1] = b
    BY <1>2, AppendToSeq DEF KeyInv
  <2>2. Recorded' = Recorded \cup {b}
    BY <2>1 DEF Recorded
  <2>3. \A r \in Plans' : r \in Plans \/ (r = b /\ b.decision.id[1] = "kv")
    BY <2>2 DEF Plans
  <2> QED BY <2>1, <2>3 DEF KeyInv, PlansAreKeyed
<1> QED BY <1>1, <1>2 DEF RecordDecision

\* Each step keeps the keys of plans and of the work they come from.
LEMMA KeyStep ==
  ASSUME OthersNumberTheirs, KeyInv, [Next]_vars
  PROVE  KeyInv'
<1>1. ASSUME UNCHANGED <<work, journal>>, UNCHANGED taken \/ \E o : TakeSnapshot(o) PROVE KeyInv'
  BY <1>1, TakenStays
<1>2. ASSUME UNCHANGED <<taken, journal>>, DOMAIN work' = Threads, WorkIsKeyed' PROVE KeyInv'
  <2>1. Plans' = Plans
    BY <1>2 DEF Plans, Recorded
  <2> QED BY <1>2, <2>1 DEF KeyInv, PlansAreKeyed
<1>3. ASSUME NEW o, TakeSnapshot(o) PROVE KeyInv'
  BY <1>1, <1>3 DEF TakeSnapshot, journalVars
<1>4. ASSUME NEW o, ChangeOwner(o) PROVE KeyInv'
  BY <1>1, <1>4 DEF ChangeOwner, journalVars
<1>5. ASSUME NEW v, NEW runs, NEW replace, RegisterModel(v, runs, replace) PROVE KeyInv'
  BY <1>1, <1>5 DEF RegisterModel, journalVars
<1>6. ASSUME NEW t \in Threads, NEW r, NEW token, Begin(t, r, token) PROVE KeyInv'
  <2> DEFINE new == [stage |-> "read", request |-> r, token |-> token]
  <2>1. work' = [work EXCEPT ![t] = new] /\ UNCHANGED <<taken, journal>> /\ token \in DOMAIN taken
    BY <1>6 DEF Begin, Retained, journalVars
  <2>2. {"stage", "request", "token"} \subseteq DOMAIN new
        /\ new.stage = "read" /\ new.token = token
    OBVIOUS
  <2> HIDE DEF new
  <2> QED BY <1>2, <2>1, <2>2, OneThreadWorks
<1>7. ASSUME NEW t \in Threads, RefuseRequest(t) \/ LoseSnapshot(t) PROVE KeyInv'
  <2>1. work' = [work EXCEPT ![t] = Idle] /\ UNCHANGED <<taken, journal>> /\ Idle.stage = "idle"
    BY <1>7 DEF RefuseRequest, LoseSnapshot, Abandon, journalVars, Idle
  <2> QED BY <1>2, <2>1, OneThreadWorks
<1>8. ASSUME NEW t \in Threads, ValidateOwnership(t) PROVE KeyInv'
  <2> DEFINE w == work[t]
             s == taken[w.token]
             cs == Candidates(w.request, s)
             new == [stage |-> "predicting", request |-> w.request, token |-> w.token,
                     owner |-> stateOwner, candidates |-> cs, predictions |-> <<>>]
  <2>1. work' = [work EXCEPT ![t] = new] /\ UNCHANGED <<taken, journal>> /\ w.token \in DOMAIN taken
    BY <1>8 DEF ValidateOwnership, journalVars, KeyInv, WorkIsKeyed
  <2>2. \A i \in DOMAIN cs :
           cs[i].id =
              <<s.time, ActionType(Current(w.request, s), cs[i].target), cs[i].target.location>>
    BY DEF Candidates, Candidate
  <2> HIDE DEF cs
  <2>3. /\ {"stage", "request", "token", "candidates", "predictions"} \subseteq DOMAIN new
        /\ new.request = w.request /\ new.token = w.token /\ new.candidates = cs
    OBVIOUS
  <2> HIDE DEF new
  <2> QED BY <1>2, <2>1, <2>2, <2>3, OneThreadWorks
<1>9. ASSUME NEW t \in Threads, PredictNext(t) PROVE KeyInv'
  <2> DEFINE w == work[t]
  <2>1. PICK p : work' = [work EXCEPT ![t].predictions = Append(w.predictions, p)]
    BY <1>9 DEF PredictNext
  <2> DEFINE new == [w EXCEPT !.predictions = Append(w.predictions, p)]
  <2>2. work' = [work EXCEPT ![t] = new] /\ UNCHANGED <<taken, journal>> /\ w.stage = "predicting"
    BY <1>9, <2>1 DEF PredictNext, ToPredict, journalVars
  <2>3. /\ DOMAIN new = DOMAIN w /\ new.stage = w.stage /\ new.request = w.request
        /\ new.token = w.token /\ new.candidates = w.candidates
    BY <2>2 DEF KeyInv, WorkIsKeyed
  <2> HIDE DEF new
  <2> QED BY <1>2, <2>2, <2>3, OneThreadWorks DEF KeyInv, WorkIsKeyed
<1>10. ASSUME NEW t \in Threads, work[t].stage = "predicting", NEW i, Decide(t, i) PROVE KeyInv'
  <2> DEFINE w == work[t]
             s == taken[w.token]
             b == PlanBundle(w, i)
             a == b.decision.action
  <2>1. /\ RecordDecision(b) /\ work' = [work EXCEPT ![t] = Idle] /\ taken' = taken
        /\ Idle.stage = "idle"
    BY <1>10 DEF Decide, Idle
  <2>2. w.token \in DOMAIN taken /\ i \in DOMAIN w.candidates
    BY <1>10 DEF KeyInv, WorkIsKeyed, Decide, Selectable, Eligible, Keep
  <2>3. w.candidates[i].id = <<s.time, ActionType(Current(w.request, s), w.candidates[i].target),
                               w.candidates[i].target.location>>
    BY <1>10, <2>2 DEF KeyInv, WorkIsKeyed
  <2>4. /\ a.key = <<w.token, <<s.time, a.type, a.target>>>>
        /\ a.expectedLocation = s.seen.location
        /\ a.bytes = ValueAt(s, "kv", "kv.size")
    BY <2>3 DEF PlanBundle, ActionKey
  <2> HIDE DEF b
  <2>5. IsSeq(journal') /\ PlansAreKeyed'
    BY <2>1, <2>2, <2>4, BundleIsKeyed
  <2>6. DOMAIN work' = Threads /\ WorkIsKeyed'
    BY <2>1, OneThreadWorks
  <2> QED BY <2>1, <2>5, <2>6 DEF KeyInv
<1>11. ASSUME JournalNext, UNCHANGED kvVars PROVE KeyInv'
  <2>1. ASSUME NEW b \in Bundles, RecordDecision(b) PROVE KeyInv'
    <3>1. IsSeq(journal') /\ PlansAreKeyed'
      BY <1>11, <2>1, BundleIsKeyed DEF kvVars, OthersNumberTheirs
    <3> QED BY <1>11, <3>1 DEF KeyInv, WorkIsKeyed, kvVars
  <2>2. ASSUME NEW o, RecordOutcome(o) PROVE KeyInv'
    BY <1>1, <1>11, <2>2 DEF RecordOutcome, kvVars
  <2> QED BY <1>11, <2>1, <2>2 DEF JournalNext
<1>12. CASE UNCHANGED vars
  BY <1>1, <1>12 DEF vars, kvVars, journalVars
<1> QED BY <1>3, <1>4, <1>5, <1>6, <1>7, <1>8, <1>9, <1>10, <1>11, <1>12 DEF Next

\* idempotency_key: plans with one key propose one move, whatever the targets,
\* snapshots and models, if no other controller takes this one's decision ids.
THEOREM OneMovePerKey ==
  ASSUME OthersNumberTheirs
  PROVE  Spec => []SameKeySameMove
<1>1. KeyInv => SameKeySameMove
  <2> SUFFICES ASSUME KeyInv, NEW r1 \in Plans, NEW r2 \in Plans,
                      r1.decision.action.key = r2.decision.action.key
               PROVE  LET a == r1.decision.action
                          b == r2.decision.action
                      IN  /\ a.type = b.type /\ a.target = b.target
                          /\ a.expectedLocation = b.expectedLocation /\ a.bytes = b.bytes
    BY DEF SameKeySameMove
  <2> DEFINE keyed(a, token) ==
               /\ a.key = <<token, <<taken[token].time, a.type, a.target>>>>
               /\ a.expectedLocation = taken[token].seen.location
               /\ a.bytes = ValueAt(taken[token], "kv", "kv.size")
  <2>1. PICK m \in DOMAIN taken : keyed(r1.decision.action, m)
    BY DEF KeyInv, PlansAreKeyed
  <2>2. PICK n \in DOMAIN taken : keyed(r2.decision.action, n)
    BY DEF KeyInv, PlansAreKeyed
  <2> DEFINE a == r1.decision.action
             b == r2.decision.action
  <2>3. /\ a.key = <<m, <<taken[m].time, a.type, a.target>>>>
        /\ b.key = <<n, <<taken[n].time, b.type, b.target>>>>
        /\ a.key = b.key
    BY <2>1, <2>2
  <2>4. m = n /\ a.type = b.type /\ a.target = b.target
    <3> HIDE DEF a, b
    <3> QED BY <2>3
  <2> QED BY <2>1, <2>2, <2>4
<1>2. KeyInv /\ [Next]_vars => KeyInv'
  BY KeyStep
<1> QED BY <1>1, <1>2, KeyInit, PTL DEF Spec

(***************************************************************************)
(* Candidates                                                              *)
(***************************************************************************)

\* The members of a set below one of them: fewer the smaller it is, so one of
\* them has any given number below it.
LEMMA NthIsMember ==
  ASSUME NEW m \in Nat, NEW S \in SUBSET (1..m), NEW n \in 1..Cardinality(S)
  PROVE  Nth(S, n) \in S
<1> DEFINE k == Cardinality(S)
           below(i) == {j \in S : j < i}
           rank == [i \in S |-> Cardinality(below(i))]
<1>1. IsFiniteSet(S) /\ k \in Nat /\ \A i \in S : i \in Nat
  <2>1. IsFiniteSet(1..m)
    BY FS_Interval
  <2>2. IsFiniteSet(S)
    BY <2>1, FS_Subset
  <2>3. Cardinality(S) \in Nat
    BY <2>2, FS_CardinalityType
  <2> QED BY <2>2, <2>3
<1>2. ASSUME NEW i \in S
      PROVE  IsFiniteSet(below(i)) /\ Cardinality(below(i)) \in 0..(k - 1)
  <2>1. below(i) \in SUBSET S /\ i \in S /\ i \notin below(i)
    BY <1>1
  <2> HIDE DEF below
  <2>2. IsFiniteSet(below(i)) /\ Cardinality(below(i)) <= k /\ Cardinality(below(i)) # k
    BY <1>1, <2>1, FS_Subset
  <2> QED BY <1>1, <2>2, FS_CardinalityType
<1>3. ASSUME NEW i \in S, NEW j \in S, i < j
      PROVE  rank[i] < rank[j]
  <2>1. below(i) \in SUBSET below(j) /\ i \in below(j) /\ i \notin below(i)
    <3>1. i \in Nat /\ j \in Nat /\ \A l \in S : l \in Nat
      BY <1>1
    <3>2. \A l \in S : l < i => l < j
      BY <1>3, <3>1
    <3>3. ~ (i < i)
      BY <3>1
    <3> QED BY <1>3, <3>2, <3>3
  <2>2. rank[i] = Cardinality(below(i)) /\ rank[j] = Cardinality(below(j))
    OBVIOUS
  <2>3. IsFiniteSet(below(j)) /\ Cardinality(below(i)) \in Int /\ Cardinality(below(j)) \in Int
    BY <1>2
  <2> HIDE DEF below, rank
  <2>4. Cardinality(below(i)) <= Cardinality(below(j))
        /\ Cardinality(below(i)) # Cardinality(below(j))
    BY <2>1, <2>3, FS_Subset
  <2> QED BY <2>2, <2>3, <2>4
<1>4. rank \in Injection(S, 0..(k - 1))
  <2>1. rank \in [S -> 0..(k - 1)]
    BY <1>2
  <2>2. \A i, j \in S : rank[i] = rank[j] => i = j
    <3> SUFFICES ASSUME NEW i \in S, NEW j \in S, i # j PROVE rank[i] # rank[j]
      OBVIOUS
    <3>1. rank[i] \in Int /\ rank[j] \in Int
      BY <2>1
    <3> HIDE DEF rank, below
    <3>2. i < j \/ j < i
      BY <1>1
    <3> QED BY <1>3, <3>1, <3>2
  <2> HIDE DEF rank
  <2> QED BY <2>1, <2>2 DEF Injection, IsInjective
<1>5. IsFiniteSet(0..(k - 1)) /\ Cardinality(0..(k - 1)) = k
  <2>1. k \in Nat /\ k - 1 \in Int /\ 0 \in Int
    BY <1>1
  <2> HIDE DEF k
  <2>2. /\ IsFiniteSet(0..(k - 1))
        /\ Cardinality(0..(k - 1)) = IF 0 > k - 1 THEN 0 ELSE (k - 1) - 0 + 1
    BY <2>1, FS_Interval
  <2> QED BY <2>1, <2>2
<1>6. rank \in Surjection(S, 0..(k - 1))
  <2> HIDE DEF rank
  <2> QED BY <1>4, <1>5, FS_Injection
<1>7. \E i \in S : rank[i] = n - 1
  <2>1. n - 1 \in 0..(k - 1)
    BY <1>1
  <2> HIDE DEF rank
  <2> QED BY <1>6, <2>1 DEF Surjection
<1>8. PICK i \in S : Cardinality({j \in S : j < i}) = n - 1
  BY <1>7
<1> QED BY <1>8 DEF Nth

\* _candidates: one for every target that is offered, and no other.
LEMMA CandidatesAreOffered ==
  ASSUME NEW r \in Requests, NEW s
  PROVE  /\ Len(Candidates(r, s)) \in Nat
         /\ DOMAIN Candidates(r, s) = 1..Len(Candidates(r, s))
         /\ \A n \in DOMAIN Candidates(r, s) :
               \E t \in TargetsOf(r) : Offered(r, s, t) /\ Candidates(r, s)[n] = Candidate(r, s, t)
<1> DEFINE offered == {i \in DOMAIN r.targets : Offered(r, s, r.targets[i])}
           k == Cardinality(offered)
           C(n) == Candidate(r, s, r.targets[Nth(offered, n)])
<1>1. Len(r.targets) \in Nat /\ DOMAIN r.targets = 1..Len(r.targets)
  BY TargetsAreMeasured
<1>2. offered \in SUBSET (1..Len(r.targets)) /\ k \in Nat
  <2>1. offered \in SUBSET (1..Len(r.targets))
    BY <1>1
  <2> HIDE DEF offered
  <2>2. IsFiniteSet(1..Len(r.targets))
    BY <1>1, FS_Interval
  <2>3. IsFiniteSet(offered)
    BY <2>1, <2>2, FS_Subset
  <2>4. Cardinality(offered) \in Nat
    BY <2>3, FS_CardinalityType
  <2> QED BY <2>1, <2>4
<1>3. Candidates(r, s) = [n \in 1..k |-> C(n)]
  BY DEF Candidates
<1>4. ASSUME NEW n \in 1..k
      PROVE  \E t \in TargetsOf(r) : Offered(r, s, t) /\ C(n) = Candidate(r, s, t)
  <2>1. Nth(offered, n) \in offered
    <3> HIDE DEF offered
    <3> QED BY <1>1, <1>2, NthIsMember
  <2>2. r.targets[Nth(offered, n)] \in TargetsOf(r) /\ Offered(r, s, r.targets[Nth(offered, n)])
    BY <2>1 DEF TargetsOf
  <2> QED BY <2>2
<1> HIDE DEF k, C
<1>5. Candidates(r, s) \in [1..k -> {C(n) : n \in 1..k}]
  BY <1>3
<1>6. Len(Candidates(r, s)) = k
  BY <1>2, <1>5, SeqDef, LenProperties
<1> QED BY <1>2, <1>3, <1>4, <1>6

(***************************************************************************)
(* What a prediction says                                                  *)
(***************************************************************************)
IsSnapshot(s) ==
    /\ s.completeness \in Int
    /\ \A m \in DOMAIN s.values : s.values[m] \in Nat \cup {Malformed}

\* _current_target: the target of the KV's location, or none.
LEMMA CurrentIsTarget ==
  ASSUME NEW r, NEW s, AtLocation(r, s.seen.location) # {}
  PROVE  Current(r, s) \in TargetsOf(r) /\ Current(r, s).location = s.seen.location
  BY DEF Current, AtLocation

\* What is given to the predictor with a candidate: numbers, as far as they are
\* known and read as numbers.
LEMMA ParametersAreNumbers ==
  ASSUME NEW r \in Requests, NEW s, IsSnapshot(s), AtLocation(r, s.seen.location) # {},
         NEW t \in TargetsOf(r), NEW q \in DOMAIN Parameters(r, s, t)
  PROVE  Parameters(r, s, t)[q] \in Nat \cup {Unknown, Malformed}
<1> DEFINE current == Current(r, s)
           size == ValueAt(s, "kv", "kv.size")
           moved == IF t = current THEN 0 ELSE size
           resource == HbmResource(current, t)
           usage(key) == {ValueAt(s, u.location, key) : u \in resource} \ {Unknown}
           given ==
             [transfer_bytes |-> {moved}, transfer_setup |-> {t.setup},
              network_cost |-> {t.networkCost}, storage_cost |-> {t.storageCost},
              storage_io |-> {IF t.hbm THEN 0 ELSE moved},
              kv_growth |-> {IF t.hbm /\ t # current THEN size ELSE 0},
              hbm_release |-> {IF current.hbm /\ ~ t.hbm THEN size ELSE 0},
              base_success |-> {100},
              effective_bw |-> {b \in {t.bandwidth} : moved = 0 \/ b > 0},
              hbm_capacity |-> {u.capacity : u \in resource} \ {0},
              hbm_used |-> usage("resource.hbm.used"),
              hbm_reserved |-> usage("resource.hbm.reserved")]
           Numbers == Nat \cup {Unknown, Malformed}
<1>1. Parameters(r, s, t) =
         [p \in {x \in DOMAIN given : given[x] # {}} |-> CHOOSE v \in given[p] : TRUE]
  BY DEF Parameters
<1>2. \A ref, key : ValueAt(s, ref, key) \in Numbers
  BY DEF ValueAt, IsSnapshot
<1>3. ASSUME NEW u \in TargetsOf(r)
      PROVE  {u.setup, u.bandwidth, u.capacity, u.networkCost, u.storageCost} \subseteq Nat
  BY TargetsAreMeasured DEF TargetsOf
<1>4. resource \subseteq TargetsOf(r)
  BY CurrentIsTarget DEF HbmResource
<1>5. size \in Numbers /\ moved \in Numbers
  BY <1>2
<1>6. \A key : usage(key) \subseteq Numbers
  BY <1>2
<1>7. {u.capacity : u \in resource} \subseteq Numbers
  BY <1>3, <1>4
<1>8. ASSUME NEW x \in DOMAIN given PROVE given[x] \subseteq Numbers
  <2>1. {moved, t.setup, t.networkCost, t.storageCost, t.bandwidth, 0, 100, size} \subseteq Numbers
    BY <1>3, <1>5
  <2>2. /\ usage("resource.hbm.used") \subseteq Numbers
        /\ usage("resource.hbm.reserved") \subseteq Numbers
        /\ {u.capacity : u \in resource} \subseteq Numbers
    BY <1>6, <1>7
  <2> HIDE DEF moved, size, resource, usage, Numbers
  <2> QED BY <2>1, <2>2
<1> HIDE DEF given, Numbers
<1>9. q \in DOMAIN given /\ given[q] # {} /\ Parameters(r, s, t)[q] \in given[q]
  BY <1>1
<1> QED BY <1>8, <1>9 DEF Numbers

\* What a feature is read as, if the model does not raise.
LEMMA FeaturesAreNumbers ==
  ASSUME NEW s, IsSnapshot(s), NEW c, ~ Raises(s, c),
         \A q \in DOMAIN c.parameters : c.parameters[q] \in Nat \cup {Unknown, Malformed}
  PROVE  /\ \A p \in ZeroByDefault : Number(s, c, p) \in Nat
         /\ \A p \in Rates : Number(s, c, p) \in (Nat \ {0}) \cup {Unknown}
         /\ \A p \in Optional : Number(s, c, p) \in Nat \cup {Unknown}
<1>1. ASSUME NEW p \in Features PROVE Resolve(s, c, p) \in Nat \cup {Unknown}
  <2>1. Resolve(s, c, p) # Malformed
    BY DEF Raises
  <2>2. CASE p \in DOMAIN c.parameters
    BY <2>1, <2>2 DEF Resolve
  <2>3. CASE p \notin DOMAIN c.parameters
    <3> DEFINE m == CHOOSE x \in Matches(s, c, p) : TRUE
    <3>1. Resolve(s, c, p) = Unknown \/ (Matches(s, c, p) # {} /\ Resolve(s, c, p) = s.values[m])
      BY <2>3 DEF Resolve
    <3>2. Matches(s, c, p) \subseteq DOMAIN s.values
      BY DEF Matches
    <3>3. Matches(s, c, p) # {} => m \in DOMAIN s.values
      BY <3>2
    <3> HIDE DEF m
    <3> QED BY <2>1, <3>1, <3>3 DEF IsSnapshot
  <2> QED BY <2>2, <2>3
<1>2. /\ Rates \cup Optional \cup ZeroByDefault = Features
      /\ \A p \in ZeroByDefault : p \notin Rates
      /\ \A p \in Optional : p \notin Rates
      /\ \A p \in Rates \cup Optional : p \notin ZeroByDefault
  BY DEF Features, Rates, ZeroByDefault, Optional
<1> HIDE DEF Rates, ZeroByDefault, Optional
<1> QED BY <1>1, <1>2, UnknownIsNoNumber DEF Number

\* The fields of a prediction that _select and its properties look at.
Judged ==
    {"candidate", "eta", "cost", "pressure", "fallback", "confidence", "e2e", "success", "throughput"}

Maybe == Int \cup {Unknown}

\* AnalyticalPredictionModel.predict: sums, products and quotients of numbers.
LEMMA ModelIsMeasured ==
  ASSUME NEW f, \A p \in ZeroByDefault : f[p] \in Nat,
         \A p \in Rates : f[p] \in (Nat \ {0}) \cup {Unknown},
         \A p \in Optional : f[p] \in Nat \cup {Unknown}
  PROVE  /\ TransferSeconds(f) \in Maybe /\ E2eSeconds(f) \in Maybe
         /\ \A e \in Maybe : MonetaryCost(f, e) \in Maybe
         /\ \A e \in Maybe : SuccessProbability(f["base_success"], OomProbability(HbmPressure(f)),
                                                DeadlineRisk(e, f["deadline"])) \in Maybe
<1>1. /\ f["queue_seconds"] \in Nat /\ f["transfer_bytes"] \in Nat /\ f["transfer_setup"] \in Nat
      /\ f["prompt_tokens"] \in Nat /\ f["cached_tokens"] \in Nat /\ f["output_tokens"] \in Nat
      /\ f["hbm_used"] \in Nat /\ f["hbm_reserved"] \in Nat /\ f["kv_growth"] \in Nat
      /\ f["hbm_release"] \in Nat /\ f["allocated_gpu"] \in Nat /\ f["storage_io"] \in Nat
      /\ f["fixed_cost"] \in Nat /\ f["gpu_cost"] \in Nat /\ f["network_cost"] \in Nat
      /\ f["storage_cost"] \in Nat
  BY DEF ZeroByDefault
<1>2. \A p \in Rates : f[p] = Unknown \/ (f[p] \in Nat /\ f[p] > 0)
  OBVIOUS
<1>3. f["deadline"] \in Nat \cup {Unknown} /\ f["base_success"] \in Nat \cup {Unknown}
  BY DEF Optional
<1>4. PrefillTokens(f) \in Nat /\ PredictedHbm(f) \in Nat
  BY <1>1 DEF PrefillTokens, PredictedHbm, AtLeastZero
<1>5. \A p \in Rates : Amount(f, p) \in Nat
  BY <1>1, <1>4 DEF Amount, Rates
<1>6. ASSUME NEW p \in Rates, NEW setup \in Nat PROVE RateDuration(f, p, setup) \in Maybe
  <2>1. CASE Amount(f, p) = 0 \/ f[p] = Unknown
    BY <2>1 DEF RateDuration, Maybe
  <2>2. CASE Amount(f, p) # 0 /\ f[p] # Unknown
    <3>1. f[p] \in Nat /\ f[p] > 0 /\ Amount(f, p) \in Nat
      BY <1>2, <1>5, <2>2
    <3>2. RateDuration(f, p, setup) = setup + Amount(f, p) \div f[p]
      BY <2>2 DEF RateDuration
    <3>3. PICK a \in Nat, d \in Nat : a = Amount(f, p) /\ d = f[p] /\ d > 0
      BY <3>1
    <3>4. a \div d \in Int
      BY <3>3
    <3> QED BY <3>2, <3>3, <3>4 DEF Maybe
  <2> QED BY <2>1, <2>2
<1>7. {"effective_bw", "prefill_tps", "decode_tps", "hbm_capacity"} \subseteq Rates
  BY DEF Rates
<1>8. TransferSeconds(f) \in Maybe
  BY <1>1, <1>6, <1>7 DEF TransferSeconds
<1>9. E2eSeconds(f) \in Maybe
  <2>1. ASSUME NEW a \in Maybe, NEW b \in Maybe, NEW c \in Maybe, NEW d \in Maybe
        PROVE  Total(<<a, b, c, d>>) \in Maybe
    <3>1. CASE Unknown \in {a, b, c, d}
      BY <3>1 DEF Total, Maybe
    <3>2. CASE a \in Int /\ b \in Int /\ c \in Int /\ d \in Int
      BY <3>2 DEF Total, Maybe
    <3> QED BY <3>1, <3>2 DEF Maybe
  <2>2. f["queue_seconds"] \in Maybe
    BY <1>1 DEF Maybe
  <2>3. RateDuration(f, "prefill_tps", 0) \in Maybe /\ RateDuration(f, "decode_tps", 0) \in Maybe
    BY <1>6, <1>7
  <2> QED BY <1>8, <2>1, <2>2, <2>3 DEF E2eSeconds
<1>10. ASSUME NEW e \in Maybe PROVE MonetaryCost(f, e) \in Maybe
  <2>1. CASE e = Unknown
    BY <2>1 DEF MonetaryCost, Maybe
  <2>2. CASE e \in Int
    <3>1. /\ e * f["allocated_gpu"] * f["gpu_cost"] \in Int
          /\ f["transfer_bytes"] * f["network_cost"] \in Int
          /\ f["storage_io"] * f["storage_cost"] \in Int
      BY <1>1, <2>2
    <3>2. f["fixed_cost"] + e * f["allocated_gpu"] * f["gpu_cost"]
            + f["transfer_bytes"] * f["network_cost"] + f["storage_io"] * f["storage_cost"] \in Int
      BY <1>1, <3>1
    <3>3. e # Unknown
      BY <2>2, UnknownIsNoNumber
    <3> QED BY <3>2, <3>3 DEF MonetaryCost, Maybe
  <2> QED BY <2>1, <2>2 DEF Maybe
<1>11. \A x \in Int : Percent(x) \in 0..100
  BY DEF Percent, AtLeastZero
<1>12. OomProbability(HbmPressure(f)) \in (0..100) \cup {Unknown}
  <2>1. HbmPressure(f) \in Int \cup {Unknown}
    <3>1. PICK a \in Nat : a = PredictedHbm(f)
      BY <1>4
    <3>2. CASE f["hbm_capacity"] = Unknown
      BY <3>2 DEF HbmPressure
    <3>3. CASE f["hbm_capacity"] # Unknown
      <4>1. PICK d \in Nat : d = f["hbm_capacity"] /\ d > 0
        BY <1>2, <1>7, <3>3
      <4>2. (100 * a) \div d \in Int
        BY <4>1
      <4> QED BY <3>1, <3>3, <4>1, <4>2 DEF HbmPressure
    <3> QED BY <3>2, <3>3
  <2> QED BY <1>11, <2>1 DEF OomProbability
<1>13. ASSUME NEW e \in Maybe PROVE DeadlineRisk(e, f["deadline"]) \in (0..100) \cup {Unknown}
  <2>1. PICK d : d = f["deadline"]
    OBVIOUS
  <2>2. CASE Unknown \in {e, d}
    BY <2>1, <2>2 DEF DeadlineRisk
  <2>3. CASE d = 0 /\ Unknown \notin {e, d}
    BY <2>1, <2>3 DEF DeadlineRisk
  <2>4. CASE d # 0 /\ Unknown \notin {e, d}
    <3>1. d \in Nat /\ d > 0 /\ e \in Int
      BY <1>3, <2>1, <2>4 DEF Maybe
    <3>2. (100 * e) \div d \in Int
      BY <3>1
    <3>3. DeadlineRisk(e, d) = Percent(5 * ((100 * e) \div d - 80))
      BY <2>4 DEF DeadlineRisk
    <3> QED BY <1>11, <2>1, <3>2, <3>3
  <2> QED BY <2>2, <2>3, <2>4
<1>14. ASSUME NEW base \in Nat \cup {Unknown}, NEW oom \in (0..100) \cup {Unknown},
              NEW risk \in (0..100) \cup {Unknown}
       PROVE  SuccessProbability(base, oom, risk) \in Maybe
  <2> DEFINE spared(p, x) == IF x = Unknown THEN p ELSE (p * (100 - x)) \div 100
  <2>1. ASSUME NEW p \in Int, NEW x \in (0..100) \cup {Unknown} PROVE spared(p, x) \in Int
    <3>1. CASE x = Unknown
      BY <3>1
    <3>2. CASE x # Unknown
      <4>1. p * (100 - x) \in Int
        BY <3>2
      <4>2. \A y \in Int : y \div 100 \in Int
        OBVIOUS
      <4> QED BY <3>2, <4>1, <4>2
    <3> QED BY <3>1, <3>2
  <2>2. PICK p \in Int : p = Percent(IF base = Unknown THEN 100 ELSE base)
    BY <1>11
  <2>3. SuccessProbability(base, oom, risk) \in {Unknown, spared(spared(p, oom), risk)}
    BY <2>2 DEF SuccessProbability
  <2> HIDE DEF spared
  <2> QED BY <2>1, <2>3 DEF Maybe
<1> QED BY <1>3, <1>8, <1>9, <1>10, <1>12, <1>13, <1>14

\* PredictionService._evaluate keeps what the model predicts.
LEMMA EvaluationFields ==
  ASSUME NEW s, NEW c
  PROVE  LET p == Evaluate(s, c)
             f == [q \in Features |-> Number(s, c, q)]
             e == E2eSeconds(f)
         IN
         /\ Judged \subseteq DOMAIN p
         /\ p.candidate = c.id
         /\ p.fallback = "none" => p.confidence >= MinConfidence
         /\ IF Raises(s, c) THEN \A x \in {p.eta, p.e2e, p.cost, p.success, p.throughput} : x = Unknown
            ELSE /\ p.eta = TransferSeconds(f) /\ p.e2e = e /\ p.cost = MonetaryCost(f, e)
                 /\ p.throughput = f["decode_tps"]
                 /\ p.success = SuccessProbability(f["base_success"], OomProbability(HbmPressure(f)),
                                                   DeadlineRisk(e, f["deadline"]))
<1> DEFINE p == Predict(s, c)
           f == [q \in Features |-> Number(s, c, q)]
           e == E2eSeconds(f)
           success == SuccessProbability(f["base_success"], OomProbability(HbmPressure(f)),
                                         DeadlineRisk(e, f["deadline"]))
<1>1. /\ Judged \subseteq DOMAIN p
      /\ p.candidate = c.id /\ p.eta = TransferSeconds(f)
      /\ p.e2e = e /\ p.cost = MonetaryCost(f, e) /\ p.throughput = f["decode_tps"]
      /\ p.success = success
  <2>1. p = PredictFrom(s, c, f, E2eSeconds(f), HbmPressure(f), Confidence(s, f))
    BY DEF Predict
  <2> HIDE DEF f, p
  <2> QED BY <2>1 DEF PredictFrom, Judged
<1> HIDE DEF p, f, e, success
<1>2. CASE Raises(s, c)
  <2>1. Evaluate(s, c) = Unavailable(s, c)
    BY <1>2 DEF Evaluate
  <2> QED BY <1>2, <2>1 DEF Unavailable, Judged
<1>3. CASE ~ Raises(s, c)
  <2>1. Evaluate(s, c) = WithFallback(p)
    BY <1>3 DEF Evaluate, p
  <2> DEFINE w == WithFallback(p)
  <2>2. /\ Judged \subseteq DOMAIN w
        /\ w.candidate = p.candidate /\ w.eta = p.eta
        /\ w.e2e = p.e2e /\ w.cost = p.cost /\ w.success = p.success /\ w.throughput = p.throughput
        /\ w.fallback = "none" => w.confidence >= MinConfidence
    <3>1. CASE p.confidence >= MinConfidence
      BY <1>1, <3>1 DEF WithFallback
    <3>2. CASE ~ (p.confidence >= MinConfidence)
      BY <1>1, <3>2 DEF WithFallback, Judged
    <3> QED BY <3>1, <3>2
  <2> HIDE DEF w
  <2>3. Evaluate(s, c) = w
    BY <2>1 DEF w
  <2>4. /\ w.candidate = c.id /\ w.eta = TransferSeconds(f)
        /\ w.e2e = e /\ w.cost = MonetaryCost(f, e) /\ w.throughput = f["decode_tps"]
        /\ w.success = success
    BY <1>1, <2>2
  <2> QED BY <1>3, <2>2, <2>3, <2>4 DEF f, e, success
<1> QED BY <1>2, <1>3

\* What is predicted is a number, where it is known.
LEMMA PredictionIsMeasured ==
  ASSUME NEW r \in Requests, NEW s, IsSnapshot(s), AtLocation(r, s.seen.location) # {},
         NEW t \in TargetsOf(r)
  PROVE  LET p == Evaluate(s, Candidate(r, s, t)) IN
         {p.eta, p.e2e, p.cost, p.success, p.throughput} \subseteq Int \cup {Unknown}
<1> DEFINE c == Candidate(r, s, t)
           f == [q \in Features |-> Number(s, c, q)]
           e == E2eSeconds(f)
<1>1. c.parameters = Parameters(r, s, t)
  BY DEF Candidate
<1>2. \A q \in DOMAIN c.parameters : c.parameters[q] \in Nat \cup {Unknown, Malformed}
  BY <1>1, ParametersAreNumbers
<1> HIDE DEF c
<1>3. PICK p : p = Evaluate(s, c)
  OBVIOUS
<1>4. CASE Raises(s, c)
  BY <1>3, <1>4, EvaluationFields DEF c
<1>5. CASE ~ Raises(s, c)
  <2>1. /\ \A q \in ZeroByDefault : f[q] \in Nat
        /\ \A q \in Rates : f[q] \in (Nat \ {0}) \cup {Unknown}
        /\ \A q \in Optional : f[q] \in Nat \cup {Unknown}
    BY <1>2, <1>5, FeaturesAreNumbers DEF Features
  <2>2. /\ p.eta = TransferSeconds(f) /\ p.e2e = e /\ p.cost = MonetaryCost(f, e)
        /\ p.throughput = f["decode_tps"]
        /\ p.success = SuccessProbability(f["base_success"], OomProbability(HbmPressure(f)),
                                          DeadlineRisk(e, f["deadline"]))
    BY <1>3, <1>5, EvaluationFields
  <2>3. "decode_tps" \in Rates
    BY DEF Rates
  <2> HIDE DEF f
  <2>4. e \in Maybe /\ TransferSeconds(f) \in Maybe
    BY <2>1, ModelIsMeasured
  <2>5. f["decode_tps"] \in Maybe
    BY <2>1, <2>3 DEF Maybe
  <2> HIDE DEF e
  <2>6. /\ MonetaryCost(f, e) \in Maybe
        /\ SuccessProbability(f["base_success"], OomProbability(HbmPressure(f)),
                              DeadlineRisk(e, f["deadline"])) \in Maybe
    BY <2>1, <2>4, ModelIsMeasured
  <2>7. {p.eta, p.e2e, p.cost, p.success, p.throughput} \subseteq Maybe
    BY <2>2, <2>4, <2>5, <2>6
  <2> QED BY <1>3, <2>7 DEF c, Maybe
<1> QED BY <1>4, <1>5
\* A prediction with its id is the evaluation, and has an id.
LEMMA IdentifiedFields ==
  ASSUME NEW p, NEW id, NEW version, Judged \subseteq DOMAIN p
  PROVE  LET q == Identified(p, id, version) IN
         /\ q.id = id
         /\ q.candidate = p.candidate /\ q.eta = p.eta /\ q.fallback = p.fallback
         /\ q.confidence = p.confidence
         /\ q.e2e = p.e2e /\ q.cost = p.cost /\ q.success = p.success /\ q.throughput = p.throughput
  BY DEF Identified, Judged

(***************************************************************************)
(* Targets                                                                 *)
(***************************************************************************)

\* plan() has looked whether the places of the targets differ.
PlacesDiffer(r) == Cardinality({t.location : t \in TargetsOf(r)}) = Len(r.targets)

\* A location names one target of a request.
LEMMA OneTargetPerPlace ==
  ASSUME NEW r \in Requests, PlacesDiffer(r),
         NEW t \in TargetsOf(r), NEW u \in TargetsOf(r), t.location = u.location
  PROVE  t = u
<1> DEFINE m == Len(r.targets)
           place == [i \in 1..m |-> r.targets[i].location]
           places == {v.location : v \in TargetsOf(r)}
<1>1. m \in Nat /\ DOMAIN r.targets = 1..m
  BY TargetsAreMeasured
<1>2. place \in Surjection(1..m, places)
  BY <1>1 DEF TargetsOf, Surjection
<1>3. IsFiniteSet(1..m) /\ Cardinality(1..m) = m
  <2> HIDE DEF m
  <2>1. 1 \in Int /\ m \in Int
    BY <1>1
  <2>2. IsFiniteSet(1..m) /\ Cardinality(1..m) = IF 1 > m THEN 0 ELSE m - 1 + 1
    BY <2>1, FS_Interval
  <2> QED BY <1>1, <2>2
<1>4. Cardinality(places) = m
  BY DEF PlacesDiffer
<1>5. place \in Injection(1..m, places)
  <2> HIDE DEF place, places, m
  <2> QED BY <1>2, <1>3, <1>4, FS_Surjection
<1>6. PICK i \in 1..m : t = r.targets[i]
  BY <1>1 DEF TargetsOf
<1>7. PICK j \in 1..m : u = r.targets[j]
  BY <1>1 DEF TargetsOf
<1>8. place[i] = t.location /\ place[j] = u.location
  BY <1>6, <1>7
<1>9. i = j
  <2> HIDE DEF place, places
  <2> QED BY <1>5, <1>8 DEF Injection, IsInjective
<1> QED BY <1>6, <1>7, <1>9

\* _action_type: what a target makes of the location the KV has.
LEMMA ActionTypes ==
  ASSUME NEW c, NEW t
  PROVE  /\ ActionType(c, t) = "keep" <=> c.location = t.location
         /\ ActionType(c, t) = "prefetch" => t.hbm
  BY DEF ActionType

(***************************************************************************)
(* What is recorded stays, and was made from what is recorded              *)
(***************************************************************************)
SnapshotsHold ==
    /\ IsSeq(taken)
    /\ \A n \in DOMAIN taken :
          /\ taken[n].token = n /\ IsSnapshot(taken[n])
          /\ taken[n].owners \in 1..Len(ownerships)

\* A prediction of the service is what the model makes of the snapshot whose
\* token it is recorded with.
PredictionsHold ==
    /\ IsSeq(predicted)
    /\ \A n \in DOMAIN predicted :
          /\ predicted[n].token \in DOMAIN taken
          /\ predicted[n].prediction =
                Identified(Evaluate(taken[predicted[n].token], predicted[n].request),
                           <<"kv", n>>, "analytical")

OwnersHold ==
    /\ IsSeq(ownerships) /\ Len(ownerships) > 0
    /\ ownerships[Len(ownerships)] = stateOwner

StoresHold == SnapshotsHold /\ PredictionsHold /\ OwnersHold

StoresGrow ==
    /\ \A n \in DOMAIN taken : n \in DOMAIN taken' /\ taken'[n] = taken[n]
    /\ \A n \in DOMAIN predicted : n \in DOMAIN predicted' /\ predicted'[n] = predicted[n]
    /\ \A n \in 1..Len(ownerships) : n \in 1..Len(ownerships') /\ ownerships'[n] = ownerships[n]

LEMMA StoresInit == Init => StoresHold
  BY EmptyIsSeq, AppendToSeq DEF Init, StoresHold, SnapshotsHold, PredictionsHold, OwnersHold, IsSeq

\* A new snapshot leaves those that were taken.
LEMMA SnapshotJoins ==
  ASSUME StoresHold, NEW o \in Observations, TakeSnapshot(o)
  PROVE  StoresHold' /\ StoresGrow
<1> DEFINE n == Len(taken) + 1
<1>1. PICK e : /\ taken' = Append(taken, e)
               /\ e.token = n /\ e.completeness = o.completeness /\ e.values = o.values
               /\ e.owners = Len(ownerships)
  BY DEF TakeSnapshot
<1>2. predicted' = predicted /\ ownerships' = ownerships /\ stateOwner' = stateOwner
  BY DEF TakeSnapshot
<1>3. IsSnapshot(e)
  BY <1>1, ObservationsAreMeasured DEF IsSnapshot
<1>4. /\ Len(taken) \in Nat /\ DOMAIN taken = 1..Len(taken)
      /\ IsSeq(taken') /\ DOMAIN taken' = 1..(Len(taken) + 1)
      /\ \A i \in 1..Len(taken) : taken'[i] = taken[i]
      /\ taken'[Len(taken) + 1] = e
  BY <1>1, AppendToSeq DEF StoresHold, SnapshotsHold
<1>5. \A i \in DOMAIN taken' : /\ taken'[i].token = i /\ IsSnapshot(taken'[i])
                               /\ taken'[i].owners \in 1..Len(ownerships)
  <2> SUFFICES ASSUME NEW i \in DOMAIN taken'
               PROVE  /\ taken'[i].token = i /\ IsSnapshot(taken'[i])
                      /\ taken'[i].owners \in 1..Len(ownerships)
    OBVIOUS
  <2>1. CASE i = Len(taken) + 1
    <3>1. Len(ownerships) \in 1..Len(ownerships)
      BY DEF StoresHold, OwnersHold, IsSeq
    <3> QED BY <1>1, <1>3, <1>4, <2>1, <3>1
  <2>2. CASE i # Len(taken) + 1
    <3>1. i \in DOMAIN taken /\ taken'[i] = taken[i]
      BY <1>4, <2>2
    <3> QED BY <3>1 DEF StoresHold, SnapshotsHold
  <2> QED BY <2>1, <2>2
<1>6. SnapshotsHold'
  BY <1>2, <1>4, <1>5 DEF SnapshotsHold, IsSnapshot
<1>7. \A i \in DOMAIN taken : i \in DOMAIN taken' /\ taken'[i] = taken[i]
  BY <1>4
<1>8. PredictionsHold'
  <2> SUFFICES ASSUME NEW i \in DOMAIN predicted
               PROVE  /\ predicted[i].token \in DOMAIN taken'
                      /\ predicted[i].prediction =
                            Identified(Evaluate(taken'[predicted[i].token], predicted[i].request),
                                       <<"kv", i>>, "analytical")
    BY <1>2 DEF StoresHold, PredictionsHold
  <2>1. predicted[i].token \in DOMAIN taken
    BY DEF StoresHold, PredictionsHold
  <2>2. taken'[predicted[i].token] = taken[predicted[i].token]
    BY <1>7, <2>1
  <2> QED BY <1>7, <2>1, <2>2 DEF StoresHold, PredictionsHold
<1>9. OwnersHold'
  BY <1>2 DEF StoresHold, OwnersHold
<1> QED BY <1>2, <1>6, <1>7, <1>8, <1>9 DEF StoresHold, StoresGrow

\* A change of owner is added to the ones before it.
LEMMA OwnerJoins ==
  ASSUME StoresHold, NEW o, ChangeOwner(o)
  PROVE  StoresHold' /\ StoresGrow
<1>1. /\ ownerships' = Append(ownerships, o) /\ stateOwner' = o
      /\ taken' = taken /\ predicted' = predicted
  BY DEF ChangeOwner
<1>2. /\ Len(ownerships) \in Nat /\ DOMAIN ownerships = 1..Len(ownerships)
      /\ IsSeq(ownerships') /\ DOMAIN ownerships' = 1..(Len(ownerships) + 1)
      /\ \A i \in 1..Len(ownerships) : ownerships'[i] = ownerships[i]
      /\ ownerships'[Len(ownerships) + 1] = o
  BY <1>1, AppendToSeq DEF StoresHold, OwnersHold
<1>3. Len(ownerships') = Len(ownerships) + 1
  BY <1>2 DEF IsSeq
<1>4. OwnersHold'
  BY <1>1, <1>2, <1>3 DEF OwnersHold
<1>5. SnapshotsHold'
  BY <1>1, <1>2, <1>3 DEF StoresHold, SnapshotsHold, IsSnapshot
<1> QED BY <1>1, <1>2, <1>3, <1>4, <1>5 DEF StoresHold, PredictionsHold, StoresGrow

\* A new prediction leaves those that were made.
LEMMA PredictionJoins ==
  ASSUME StoresHold, NEW t \in Threads, PredictNext(t)
  PROVE  StoresHold' /\ StoresGrow
<1> DEFINE w == work[t]
<1>1. PICK c : c = w.candidates[Len(w.predictions) + 1]
  OBVIOUS
<1>2. PICK p :
         p = Identified(Evaluate(taken[w.token], c), <<"kv", Len(predicted) + 1>>, "analytical")
  OBVIOUS
<1>3. PICK e : e = [request |-> c, token |-> taken[w.token].token, prediction |-> p]
  OBVIOUS
<1>4. /\ predicted' = Append(predicted, e) /\ w.token \in DOMAIN taken
      /\ taken' = taken /\ ownerships' = ownerships /\ stateOwner' = stateOwner
  BY <1>1, <1>2, <1>3 DEF PredictNext, SnapshotToPredict, Retained
<1>5. e.request = c /\ e.token = w.token /\ e.prediction = p
  BY <1>3, <1>4 DEF StoresHold, SnapshotsHold
<1>6. /\ Len(predicted) \in Nat /\ DOMAIN predicted = 1..Len(predicted)
      /\ IsSeq(predicted') /\ DOMAIN predicted' = 1..(Len(predicted) + 1)
      /\ \A i \in 1..Len(predicted) : predicted'[i] = predicted[i]
      /\ predicted'[Len(predicted) + 1] = e
  BY <1>4, AppendToSeq DEF StoresHold, PredictionsHold
<1>7. PredictionsHold'
  <2> SUFFICES ASSUME NEW i \in DOMAIN predicted'
               PROVE  /\ predicted'[i].token \in DOMAIN taken
                      /\ predicted'[i].prediction =
                            Identified(Evaluate(taken[predicted'[i].token], predicted'[i].request),
                                       <<"kv", i>>, "analytical")
    BY <1>4, <1>6 DEF PredictionsHold
  <2>1. CASE i = Len(predicted) + 1
    BY <1>2, <1>4, <1>5, <1>6, <2>1
  <2>2. CASE i # Len(predicted) + 1
    <3>1. i \in DOMAIN predicted /\ predicted'[i] = predicted[i]
      BY <1>6, <2>2
    <3> QED BY <3>1 DEF StoresHold, PredictionsHold
  <2> QED BY <2>1, <2>2
<1> QED BY <1>4, <1>6, <1>7 DEF StoresHold, SnapshotsHold, OwnersHold, StoresGrow

\* Nothing that was stored is changed or taken back.
LEMMA StoresStep ==
  ASSUME StoresHold, [Next]_vars
  PROVE  StoresHold' /\ StoresGrow
<1>1. ASSUME UNCHANGED <<taken, predicted, ownerships, stateOwner>> PROVE StoresHold' /\ StoresGrow
  BY <1>1 DEF StoresHold, SnapshotsHold, PredictionsHold, OwnersHold, StoresGrow
<1>2. ASSUME NEW t \in Threads, NEW r, NEW token,
             \/ Begin(t, r, token) \/ RefuseRequest(t) \/ ValidateOwnership(t) \/ LoseSnapshot(t)
      PROVE  StoresHold' /\ StoresGrow
  BY <1>1, <1>2 DEF Begin, RefuseRequest, ValidateOwnership, LoseSnapshot, Abandon
<1>3. ASSUME NEW t \in Threads, NEW i, Decide(t, i) PROVE StoresHold' /\ StoresGrow
  BY <1>1, <1>3 DEF Decide
<1>4. ASSUME NEW v, NEW runs, NEW replace, RegisterModel(v, runs, replace)
      PROVE  StoresHold' /\ StoresGrow
  BY <1>1, <1>4 DEF RegisterModel
<1>5. ASSUME UNCHANGED kvVars PROVE StoresHold' /\ StoresGrow
  BY <1>1, <1>5 DEF kvVars
<1> QED BY <1>2, <1>3, <1>4, <1>5, SnapshotJoins, OwnerJoins, PredictionJoins DEF Next, vars

\* replay: what was predicted can be predicted again, however many snapshots
\* were taken since and whichever the plane has evicted, unless the model is
\* another.
THEOREM ReplaysReproduce == Spec => []ReplayReproduces
<1>1. StoresHold => ReplayReproduces
  <2> SUFFICES ASSUME StoresHold, models["analytical"] = "analytical", NEW n \in DOMAIN predicted
               PROVE  Replay(predicted[n], "analytical") = predicted[n].prediction
    BY DEF ReplayReproduces
  <2> DEFINE record == predicted[n]
             p == Evaluate(taken[record.token], record.request)
  <2>1. record.prediction = Identified(p, <<"kv", n>>, "analytical")
    BY DEF StoresHold, PredictionsHold
  <2>2. Replay(record, "analytical") = Identified(p, record.prediction.id, "analytical")
    BY DEF Replay, ReplayedSnapshot
  <2> HIDE DEF p, record
  <2>3. record.prediction.id = <<"kv", n>>
    BY <2>1 DEF Identified
  <2> QED BY <2>1, <2>2, <2>3 DEF record
<1> QED BY <1>1, StoresInit, StoresStep, PTL DEF Spec

(***************************************************************************)
(* Plans                                                                   *)
(***************************************************************************)

\* The n-th prediction of the service was made for c on the snapshot of token.
MadeFor(n, token, c, p) ==
    predicted[n].request = c /\ predicted[n].token = token /\ predicted[n].prediction = p

IsReading(w) == w.request \in Requests /\ w.token \in DOMAIN taken

\* What plan() has found out, and still relies on when it decides.
IsPlanning(w) ==
    /\ "predictions" \in DOMAIN w /\ IsReading(w)
    /\ PlacesDiffer(w.request) /\ AtLocation(w.request, taken[w.token].seen.location) # {}
    /\ w.owner # NoOwner
    /\ \E i \in taken[w.token].owners..Len(ownerships) : ownerships[i] = w.owner
    /\ w.candidates = Candidates(w.request, taken[w.token])
    /\ IsSeq(w.predictions)
    /\ \A i \in DOMAIN w.predictions :
          /\ i \in DOMAIN w.candidates
          /\ \E n \in DOMAIN predicted :
                MadeFor(n, w.token, w.candidates[i], w.predictions[i])

WorkHolds ==
    /\ DOMAIN work = Threads
    /\ \A t \in Threads :
          /\ work[t].stage = "read" => IsReading(work[t])
          /\ work[t].stage = "predicting" => IsPlanning(work[t])

\* A sound plan keeps the snapshot and the prediction it is judged by.
PlanHolds(r) ==
    /\ r.decision.snapshot \in DOMAIN taken
    /\ SelectedPrediction(r).id[2] \in DOMAIN predicted
    /\ MoveIsSafe(r) /\ NoMoveIsQuicker(r) /\ EnvelopeFitsSnapshot(r)

PlanInv == StoresHold /\ WorkHolds /\ IsSeq(journal) /\ \A r \in Plans : PlanHolds(r)

\* An owner since the snapshot remains one.
LEMMA OwnersStay ==
  ASSUME StoresHold, StoresGrow, NEW n \in DOMAIN taken, NEW owner,
         \E i \in taken[n].owners..Len(ownerships) : ownerships[i] = owner
  PROVE  \E i \in taken[n].owners..Len(ownerships') : ownerships'[i] = owner
<1>1. taken[n].owners \in 1..Len(ownerships) /\ Len(ownerships) \in Nat
  BY DEF StoresHold, SnapshotsHold, OwnersHold, IsSeq
<1>2. PICK i \in taken[n].owners..Len(ownerships) : ownerships[i] = owner
  OBVIOUS
<1>3. i \in 1..Len(ownerships)
  BY <1>1, <1>2
<1>4. i \in 1..Len(ownerships') /\ ownerships'[i] = owner
  BY <1>2, <1>3 DEF StoresGrow
<1>5. i \in taken[n].owners..Len(ownerships')
  BY <1>1, <1>2, <1>4
<1> QED BY <1>4, <1>5

\* Work is not disturbed by what is only added to the stores.
LEMMA WorkStays ==
  ASSUME StoresHold, StoresGrow, NEW w
  PROVE  (IsReading(w) => IsReading(w)') /\ (IsPlanning(w) => IsPlanning(w)')
<1>1. IsReading(w) => IsReading(w)'
  BY DEF StoresGrow, IsReading
<1>2. ASSUME IsPlanning(w) PROVE IsPlanning(w)'
  <2>1. w.token \in DOMAIN taken /\ taken'[w.token] = taken[w.token]
    BY <1>2 DEF IsPlanning, IsReading, StoresGrow
  <2>2. \E i \in taken[w.token].owners..Len(ownerships') : ownerships'[i] = w.owner
    BY <1>2, OwnersStay DEF IsPlanning, IsReading
  <2>3. ASSUME NEW i \in DOMAIN w.predictions
        PROVE  /\ i \in DOMAIN w.candidates
               /\ \E n \in DOMAIN predicted' :
                     MadeFor(n, w.token, w.candidates[i], w.predictions[i])'
    <3>1. PICK n \in DOMAIN predicted : MadeFor(n, w.token, w.candidates[i], w.predictions[i])
      BY <1>2 DEF IsPlanning
    <3>2. n \in DOMAIN predicted' /\ predicted'[n] = predicted[n]
      BY DEF StoresGrow
    <3> QED BY <1>2, <3>1, <3>2 DEF IsPlanning, MadeFor
  <2> QED BY <1>1, <1>2, <2>1, <2>2, <2>3 DEF IsPlanning
<1> QED BY <1>1, <1>2

\* Nor are the plans.
LEMMA PlansStay ==
  ASSUME StoresHold, StoresGrow, NEW r, PlanHolds(r)
  PROVE  PlanHolds(r)'
<1>1. /\ r.decision.snapshot \in DOMAIN taken' /\ SnapshotOf(r)' = SnapshotOf(r)
      /\ SelectedPrediction(r).id[2] \in DOMAIN predicted'
      /\ CandidateOf(SelectedPrediction(r))' = CandidateOf(SelectedPrediction(r))
  BY DEF StoresGrow, PlanHolds, SnapshotOf, CandidateOf
<1>2. MoveIsSafe(r)'
  BY <1>1 DEF PlanHolds, MoveIsSafe
<1>3. NoMoveIsQuicker(r)'
  BY DEF PlanHolds, NoMoveIsQuicker
<1>4. EnvelopeFitsSnapshot(r)'
  <2>1. \A o : (\E i \in SnapshotOf(r).owners..Len(ownerships) : ownerships[i] = o)
                  => \E i \in SnapshotOf(r).owners..Len(ownerships') : ownerships'[i] = o
    BY OwnersStay DEF PlanHolds, SnapshotOf
  <2> QED BY <1>1, <2>1 DEF PlanHolds, EnvelopeFitsSnapshot
<1> QED BY <1>1, <1>2, <1>3, <1>4 DEF PlanHolds

\* What the candidates and predictions of a thread are, when it decides.
LEMMA PlanIsFounded ==
  ASSUME StoresHold, NEW w, IsPlanning(w), Len(w.predictions) = Len(w.candidates)
  PROVE  LET r == w.request
             s == taken[w.token]
             c(i) == w.candidates[i]
             p(i) == w.predictions[i]
         IN  /\ DOMAIN w.candidates = 1..Len(w.candidates) /\ Len(w.candidates) \in Nat
             /\ DOMAIN w.predictions = DOMAIN w.candidates
             /\ \A i \in DOMAIN w.candidates :
                   /\ c(i).target \in TargetsOf(r) /\ Offered(r, s, c(i).target)
                   /\ c(i).id = <<s.time, ActionType(Current(r, s), c(i).target),
                                  c(i).target.location>>
                   /\ p(i).candidate = c(i).id
                   /\ p(i).fallback = "none" => p(i).confidence >= MinConfidence
                   /\ p(i).eta \in Int \cup {Unknown} /\ Measures(p(i)) \subseteq Int \cup {Unknown}
                   /\ p(i).id[2] \in DOMAIN predicted /\ CandidateOf(p(i)) = c(i)
<1> DEFINE r == w.request
           s == taken[w.token]
<1>1. /\ r \in Requests /\ w.token \in DOMAIN taken /\ IsSnapshot(s)
      /\ AtLocation(r, s.seen.location) # {}
  BY DEF IsPlanning, IsReading, StoresHold, SnapshotsHold
<1>2. /\ Len(w.candidates) \in Nat /\ DOMAIN w.candidates = 1..Len(w.candidates)
      /\ \A i \in DOMAIN w.candidates :
            \E t \in TargetsOf(r) : Offered(r, s, t) /\ w.candidates[i] = Candidate(r, s, t)
  BY <1>1, CandidatesAreOffered DEF IsPlanning
<1>3. DOMAIN w.predictions = DOMAIN w.candidates
  <2>1. DOMAIN w.predictions = 1..Len(w.predictions)
    BY AppendToSeq DEF IsPlanning
  <2> QED BY <1>2, <2>1
<1>4. ASSUME NEW i \in DOMAIN w.candidates
      PROVE  LET c == w.candidates[i]
                 p == w.predictions[i]
             IN  /\ c.target \in TargetsOf(r) /\ Offered(r, s, c.target)
                 /\ c.id = <<s.time, ActionType(Current(r, s), c.target), c.target.location>>
                 /\ p.candidate = c.id
                 /\ p.fallback = "none" => p.confidence >= MinConfidence
                 /\ p.eta \in Int \cup {Unknown} /\ Measures(p) \subseteq Int \cup {Unknown}
                 /\ p.id[2] \in DOMAIN predicted /\ CandidateOf(p) = c
  <2>1. PICK t \in TargetsOf(r) : Offered(r, s, t) /\ w.candidates[i] = Candidate(r, s, t)
    BY <1>2
  <2>2. PICK n \in DOMAIN predicted : MadeFor(n, w.token, w.candidates[i], w.predictions[i])
    BY <1>3 DEF IsPlanning
  <2>3. PICK c : c = w.candidates[i]
    OBVIOUS
  <2>4. PICK p : p = w.predictions[i]
    OBVIOUS
  <2>5. PICK e : e = Evaluate(s, c)
    OBVIOUS
  <2>6. p = Identified(e, <<"kv", n>>, "analytical") /\ predicted[n].request = c
    BY <2>2, <2>3, <2>4, <2>5 DEF MadeFor, StoresHold, PredictionsHold
  <2>7. /\ Judged \subseteq DOMAIN e /\ e.candidate = c.id
        /\ e.fallback = "none" => e.confidence >= MinConfidence
    BY <2>5, EvaluationFields
  <2>8. {e.eta, e.e2e, e.cost, e.success, e.throughput} \subseteq Int \cup {Unknown}
    <3>1. e = Evaluate(s, Candidate(r, s, t))
      BY <2>1, <2>3, <2>5
    <3> HIDE DEF r, s
    <3> QED BY <1>1, <2>1, <3>1, PredictionIsMeasured
  <2>9. /\ p.id = <<"kv", n>>
        /\ p.candidate = e.candidate /\ p.eta = e.eta /\ p.fallback = e.fallback
        /\ p.confidence = e.confidence
        /\ p.e2e = e.e2e /\ p.cost = e.cost /\ p.success = e.success /\ p.throughput = e.throughput
    BY <2>6, <2>7, IdentifiedFields
  <2>10. /\ c.target = t
         /\ c.id = <<s.time, ActionType(Current(r, s), t), t.location>>
    BY <2>1, <2>3 DEF Candidate
  <2>11. p.id[2] = n /\ CandidateOf(p) = c
    BY <2>6, <2>9 DEF CandidateOf
  <2>12. p.eta \in Int \cup {Unknown} /\ Measures(p) \subseteq Int \cup {Unknown}
    BY <2>8, <2>9 DEF Measures
  <2> HIDE DEF r, s
  <2> QED BY <2>1, <2>3, <2>4, <2>7, <2>9, <2>10, <2>11, <2>12
<1> QED BY <1>2, <1>3, <1>4

\* The one prediction the bundle has of the candidate its action names.
LEMMA SelectionIsUnique ==
  ASSUME NEW b, HasSelection(b), NEW n \in Nat, DOMAIN b.predictions = 1..n,
         NEW i \in 1..n, b.predictions[i].candidate = b.decision.action.candidate
  PROVE  SelectedPrediction(b) = b.predictions[i]
<1> DEFINE S == {j \in DOMAIN b.predictions : MayBeMeant(b, b.predictions[j])}
<1>1. IsFiniteSet(S)
  <2>1. IsFiniteSet(1..n) /\ S \in SUBSET (1..n)
    BY FS_Interval
  <2> HIDE DEF S
  <2> QED BY <2>1, FS_Subset
<1>2. \E x : S = {x}
  <2>1. Cardinality(S) = 1
    BY DEF HasSelection
  <2> HIDE DEF S
  <2> QED BY <1>1, <2>1, FS_Singleton
<1>3. i \in S
  BY DEF MayBeMeant
<1>4. PICK j \in DOMAIN b.predictions : SelectedPrediction(b) = b.predictions[j]
  BY SelectionExists DEF PredictionsOf
<1>5. j \in S
  BY <1>4, SelectionExists
<1> HIDE DEF S
<1> QED BY <1>2, <1>3, <1>4, <1>5

\* _select, _action: a plan that is recorded is sound when it is recorded.
LEMMA DecisionIsSound ==
  ASSUME StoresHold, NEW w, IsPlanning(w), Len(w.predictions) = Len(w.candidates),
         NEW i \in Selectable(w), NEW b, b = PlanBundle(w, i), HasSelection(b)
  PROVE  PlanHolds(b)
<1>1. PICK r : r = w.request
  OBVIOUS
<1>2. PICK s : s = taken[w.token]
  OBVIOUS
<1>3. PICK current : current = Current(r, s)
  OBVIOUS
<1> DEFINE a == b.decision.action
           c(j) == w.candidates[j]
           p(j) == w.predictions[j]
           type(j) == ActionType(current, c(j).target)
<1>4. /\ r \in Requests /\ w.token \in DOMAIN taken /\ s.token = w.token /\ s.completeness \in Int
      /\ PlacesDiffer(r) /\ current \in TargetsOf(r) /\ current.location = s.seen.location
  <2>1. r \in Requests /\ w.token \in DOMAIN taken /\ PlacesDiffer(r)
        /\ AtLocation(r, s.seen.location) # {}
    BY <1>1, <1>2 DEF IsPlanning, IsReading
  <2>2. s.token = w.token /\ s.completeness \in Int
    BY <1>2, <2>1 DEF StoresHold, SnapshotsHold, IsSnapshot
  <2> QED BY <1>3, <2>1, <2>2, CurrentIsTarget
<1>5. /\ DOMAIN w.candidates = 1..Len(w.candidates) /\ Len(w.candidates) \in Nat
      /\ DOMAIN w.predictions = DOMAIN w.candidates
  BY PlanIsFounded
<1>6. ASSUME NEW j \in DOMAIN w.candidates
      PROVE  /\ c(j).target \in TargetsOf(r)
             /\ type(j) \in AllowedActions /\ (c(j).target = current \/ c(j).target.usable)
             /\ c(j).id = <<s.time, type(j), c(j).target.location>>
             /\ p(j).candidate = c(j).id
             /\ p(j).fallback = "none" => p(j).confidence >= MinConfidence
             /\ p(j).eta \in Int \cup {Unknown}
             /\ p(j).id[2] \in DOMAIN predicted /\ CandidateOf(p(j)) = c(j)
  <2>1. Offered(r, s, c(j).target) => type(j) \in AllowedActions
                                      /\ (c(j).target = current \/ c(j).target.usable)
    BY <1>3 DEF Offered
  <2> QED BY <1>1, <1>2, <1>3, <2>1, PlanIsFounded
<1>7. /\ a.candidate = c(i).id /\ a.type = type(i) /\ a.target = c(i).target.location
      /\ a.expectedLocation = s.seen.location /\ a.expectedOwner = w.owner
      /\ a.expectedTransfer = s.seen.transfer /\ a.bytes = ValueAt(s, "kv", "kv.size")
      /\ a.reserves = IF c(i).target.hbm /\ c(i).target # current
                      THEN ValueAt(s, "kv", "kv.size") ELSE 0
      /\ a.rollback = RollbackTo(w, i)
      /\ b.decision.snapshot = s.token /\ b.predictions = w.predictions
  BY <1>1, <1>2, <1>3 DEF PlanBundle
<1>8. RollbackTo(w, i) = IF c(i).target = current THEN Unknown ELSE s.seen.location
  BY <1>1, <1>2, <1>3 DEF RollbackTo
<1>9. /\ i \in Eligible(w) \/ c(i).target = current
      /\ i \in DOMAIN w.candidates
      /\ i \in Eligible(w) => \A j \in Eligible(w) : ~ Better(p(j), p(i))
  BY <1>1, <1>2, <1>3 DEF Selectable, Keep, Eligible
<1>10. \A j \in DOMAIN w.candidates :
          j \in Eligible(w) <=> /\ type(j) \in Desired(r, s) /\ Trusted(p(j))
                                /\ "prefetch" \in Desired(r, s) => WithinGuard(p(j))
  BY <1>1, <1>2, <1>3 DEF Eligible
<1>11. c(i).target = current <=> type(i) = "keep"
  <2>1. type(i) = "keep" <=> current.location = c(i).target.location
    BY ActionTypes
  <2>2. c(i).target.location = current.location => c(i).target = current
    BY <1>4, <1>6, <1>9, OneTargetPerPlace
  <2> QED BY <2>1, <2>2
<1>12. SelectedPrediction(b) = p(i)
  <2>1. b.predictions[i].candidate = a.candidate
    BY <1>6, <1>7, <1>9
  <2>2. DOMAIN b.predictions = 1..Len(w.candidates) /\ i \in 1..Len(w.candidates)
    BY <1>5, <1>7, <1>9
  <2> HIDE DEF a, p
  <2>3. SelectedPrediction(b) = b.predictions[i]
    BY <1>5, <2>1, <2>2, SelectionIsUnique DEF a
  <2> QED BY <1>7, <2>3 DEF p
<1>13. /\ Desired(r, s) \in {{}, {"offload"}, {"prefetch"}}
       /\ Desired(r, s) # {} => s.completeness >= MinCompleteness /\ Settled(s)
  <2>1. Desired(r, s) # {} => ~ (s.completeness < MinCompleteness) /\ Settled(s)
    BY DEF Desired
  <2>2. Desired(r, s) \in {{}, {"offload"}, {"prefetch"}}
    BY DEF Desired
  <2> QED BY <1>4, <2>1, <2>2, ObservationsAreMeasured
<1> HIDE DEF a, c, p, type
<1>14. MoveIsSafe(b)
  <2> SUFFICES ASSUME type(i) # "keep"
               PROVE  /\ SnapshotOf(b).completeness >= MinCompleteness
                      /\ s.seen.transfer \in StableStates
                      /\ type(i) \in AllowedActions \cap {"offload", "prefetch"}
                      /\ CandidateOf(p(i)).target.usable
                      /\ p(i).fallback = "none" /\ p(i).confidence >= PlanConfidence
                      /\ p(i).confidence >= MinConfidence
                      /\ type(i) = "prefetch" => /\ p(i).pressure # Unknown
                                                 /\ p(i).pressure <= PrefetchGuard
    BY <1>7, <1>12 DEF MoveIsSafe, a
  <2>1. SnapshotOf(b) = s
    BY <1>2, <1>4, <1>7 DEF SnapshotOf
  <2>2. /\ type(i) \in Desired(r, s) /\ Trusted(p(i))
        /\ "prefetch" \in Desired(r, s) => WithinGuard(p(i))
    BY <1>9, <1>10, <1>11
  <2>3. c(i).target.usable /\ type(i) \in AllowedActions /\ CandidateOf(p(i)) = c(i)
    BY <1>6, <1>9, <1>11
  <2>4. type(i) \in {"offload", "prefetch"} /\ s.completeness >= MinCompleteness /\ Settled(s)
    BY <1>13, <2>2
  <2> QED BY <1>6, <1>9, <2>1, <2>2, <2>3, <2>4 DEF Settled, Trusted, WithinGuard
<1>15. NoMoveIsQuicker(b)
  <2> SUFFICES ASSUME NEW j \in DOMAIN w.candidates,
                      p(i).candidate[2] # "keep", p(j).candidate[2] = p(i).candidate[2],
                      Trusted(p(j)), p(j).candidate[2] = "prefetch" => WithinGuard(p(j))
               PROVE  p(i).eta <= p(j).eta
    BY <1>5, <1>7, <1>12 DEF NoMoveIsQuicker, PredictionsOf, p
  <2>1. type(i) # "keep" /\ type(j) = type(i) /\ (type(j) = "prefetch" => WithinGuard(p(j)))
    BY <1>6, <1>9
  <2>2. i \in Eligible(w) /\ type(i) \in Desired(r, s)
    BY <1>9, <1>10, <1>11, <2>1
  <2>3. "prefetch" \in Desired(r, s) => WithinGuard(p(j))
    BY <1>13, <2>1, <2>2
  <2>4. j \in Eligible(w)
    BY <1>10, <2>1, <2>2, <2>3
  <2>5. ~ Better(p(j), p(i))
    BY <1>9, <2>2, <2>4
  <2>6. p(i).eta \in Int /\ p(j).eta \in Int
    BY <1>6, <1>9, <1>10, <2>2 DEF Trusted
  <2> QED BY <2>5, <2>6 DEF Better
<1>16. EnvelopeFitsSnapshot(b)
  <2>1. SnapshotOf(b) = s
    BY <1>2, <1>4, <1>7 DEF SnapshotOf
  <2>2. w.owner # NoOwner /\ \E o \in s.owners..Len(ownerships) : ownerships[o] = w.owner
    BY <1>2 DEF IsPlanning
  <2>3. IF type(i) = "keep" THEN a.target = a.expectedLocation /\ a.reserves = 0
        ELSE a.target # a.expectedLocation /\ a.rollback = a.expectedLocation
    <3>1. type(i) = "keep" <=> current.location = c(i).target.location
      BY ActionTypes DEF type
    <3> QED BY <1>4, <1>7, <1>8, <1>11, <3>1
  <2>4. type(i) = "prefetch" => a.reserves = a.bytes
    <3>1. type(i) = "prefetch" => c(i).target.hbm
      BY ActionTypes DEF type
    <3> QED BY <1>7, <1>11, <3>1
  <2> QED BY <1>7, <2>1, <2>2, <2>3, <2>4 DEF EnvelopeFitsSnapshot, a
<1> QED BY <1>4, <1>6, <1>7, <1>9, <1>12, <1>14, <1>15, <1>16 DEF PlanHolds

LEMMA PlanInit == Init => PlanInv
<1> SUFFICES ASSUME Init PROVE PlanInv  OBVIOUS
<1>1. Recorded = {} /\ IsSeq(journal)
  BY EmptyIsSeq DEF Init, JournalInit, Recorded
<1>2. WorkHolds
  BY DEF Init, Idle, WorkHolds
<1> QED BY <1>1, <1>2, StoresInit DEF PlanInv, Plans

\* A thread's work changes, and is founded as its stage demands.
LEMMA OneWorkHolds ==
  ASSUME StoresHold, WorkHolds, StoresGrow, NEW t \in Threads, NEW w, work' = [work EXCEPT ![t] = w],
         w.stage = "read" => IsReading(w)', w.stage = "predicting" => IsPlanning(w)'
  PROVE  WorkHolds'
<1>1. DOMAIN work' = Threads /\ work'[t] = w /\ \A u \in Threads : u # t => work'[u] = work[u]
  BY DEF WorkHolds
<1>2. ASSUME NEW u \in Threads
      PROVE  /\ work'[u].stage = "read" => IsReading(work[u])'
             /\ work'[u].stage = "predicting" => IsPlanning(work[u])'
  <2>1. PICK x : x = work'[u]
    OBVIOUS
  <2>2. (x.stage = "read" => IsReading(x)') /\ (x.stage = "predicting" => IsPlanning(x)')
    <3>1. CASE u = t
      BY <1>1, <2>1, <3>1
    <3>2. CASE u # t
      BY <1>1, <2>1, <3>2, WorkStays DEF WorkHolds
    <3> QED BY <3>1, <3>2
  <2> QED BY <2>1, <2>2
<1> QED BY <1>1, <1>2 DEF WorkHolds

\* read_snapshot and predict: the prediction joins those of its plan.
LEMMA PredictionIsFounded ==
  ASSUME StoresHold, WorkHolds, StoresGrow, StoresHold', NEW t \in Threads, PredictNext(t)
  PROVE  WorkHolds'
<1>1. PICK w : w = work[t]
  OBVIOUS
<1>2. PICK old : old = w.predictions
  OBVIOUS
<1>3. PICK c : c = w.candidates[Len(old) + 1]
  OBVIOUS
<1>4. PICK p :
         p = Identified(Evaluate(taken[w.token], c), <<"kv", Len(predicted) + 1>>, "analytical")
  OBVIOUS
<1>5. PICK ps : ps = Append(old, p)
  OBVIOUS
<1>6. PICK new : new = [w EXCEPT !.predictions = ps]
  OBVIOUS
<1>7. /\ w.stage = "predicting" /\ IsPlanning(w) /\ Len(old) < Len(w.candidates)
      /\ predicted' = Append(predicted, [request |-> c, token |-> taken[w.token].token,
                                         prediction |-> p])
      /\ work' = [work EXCEPT ![t] = new]
  BY <1>1, <1>2, <1>3, <1>4, <1>5, <1>6
     DEF PredictNext, ToPredict, SnapshotToPredict, WorkHolds
<1>8. /\ "predictions" \in DOMAIN new /\ new.predictions = ps /\ new.stage = w.stage
      /\ new.request = w.request /\ new.token = w.token /\ new.owner = w.owner
      /\ new.candidates = w.candidates
  BY <1>6, <1>7 DEF IsPlanning
<1>9. IsPlanning(w)'
  BY <1>7, WorkStays
<1>10. /\ Len(old) \in Nat /\ DOMAIN old = 1..Len(old)
       /\ IsSeq(ps) /\ DOMAIN ps = 1..(Len(old) + 1)
       /\ \A i \in 1..Len(old) : ps[i] = old[i]
       /\ ps[Len(old) + 1] = p
  BY <1>2, <1>5, <1>7, AppendToSeq DEF IsPlanning
<1>11. Len(w.candidates) \in Nat /\ DOMAIN w.candidates = 1..Len(w.candidates)
  BY <1>7, CandidatesAreOffered DEF IsPlanning, IsReading
<1>12. \E n \in DOMAIN predicted' : MadeFor(n, w.token, c, p)'
  <2>1. taken[w.token].token = w.token
    BY <1>7 DEF StoresHold, SnapshotsHold, IsPlanning, IsReading
  <2>2. /\ DOMAIN predicted' = 1..(Len(predicted) + 1) /\ Len(predicted) \in Nat
        /\ predicted'[Len(predicted) + 1] = [request |-> c, token |-> w.token, prediction |-> p]
    BY <1>7, <2>1, AppendToSeq DEF StoresHold, PredictionsHold
  <2>3. PICK n : n = Len(predicted) + 1
    OBVIOUS
  <2>4. n \in DOMAIN predicted' /\ MadeFor(n, w.token, c, p)'
    BY <2>2, <2>3 DEF MadeFor
  <2> QED BY <2>4
<1>13. ASSUME NEW i \in DOMAIN ps
       PROVE  /\ i \in DOMAIN w.candidates
              /\ \E n \in DOMAIN predicted' : MadeFor(n, w.token, w.candidates[i], ps[i])'
  <2>1. CASE i = Len(old) + 1
    <3>1. w.candidates[i] = c /\ ps[i] = p /\ i \in DOMAIN w.candidates
      BY <1>3, <1>7, <1>10, <1>11, <2>1
    <3> QED BY <1>12, <3>1
  <2>2. CASE i # Len(old) + 1
    <3>1. i \in DOMAIN old /\ ps[i] = old[i]
      BY <1>10, <2>2
    <3> QED BY <1>2, <1>9, <3>1 DEF IsPlanning, MadeFor
  <2> QED BY <2>1, <2>2
<1>14. IsPlanning(new)'
  BY <1>8, <1>9, <1>10, <1>13 DEF IsPlanning, IsReading
<1> QED BY <1>7, <1>8, <1>14, OneWorkHolds

\* Each step keeps what a planning thread may rely on.
LEMMA WorkStep ==
  ASSUME StoresHold, WorkHolds, StoresGrow, StoresHold', [Next]_vars
  PROVE  WorkHolds'
<1>1. ASSUME work' = work PROVE WorkHolds'
  <2>1. ASSUME NEW u \in Threads
        PROVE  /\ work'[u].stage = "read" => IsReading(work[u])'
               /\ work'[u].stage = "predicting" => IsPlanning(work[u])'
    <3>1. PICK x : x = work[u]
      OBVIOUS
    <3>2. (x.stage = "read" => IsReading(x)') /\ (x.stage = "predicting" => IsPlanning(x)')
      BY <3>1, WorkStays DEF WorkHolds
    <3> QED BY <1>1, <3>1, <3>2
  <2> QED BY <1>1, <2>1 DEF WorkHolds
<1>2. ASSUME NEW t \in Threads, work' = [work EXCEPT ![t] = Idle] PROVE WorkHolds'
  <2>1. Idle.stage = "idle"
    BY DEF Idle
  <2> QED BY <1>2, <2>1, OneWorkHolds
<1>3. ASSUME NEW t \in Threads, NEW r \in Requests, NEW token, Begin(t, r, token) PROVE WorkHolds'
  <2>1. PICK new : new = [stage |-> "read", request |-> r, token |-> token]
    OBVIOUS
  <2>2. work' = [work EXCEPT ![t] = new] /\ token \in DOMAIN taken
    BY <1>3, <2>1 DEF Begin, Retained
  <2>3. new.stage = "read" /\ IsReading(new)
    BY <2>1, <2>2 DEF IsReading
  <2> QED BY <2>2, <2>3, OneWorkHolds, WorkStays
<1>4. ASSUME NEW t \in Threads, ValidateOwnership(t) PROVE WorkHolds'
  <2>1. PICK w : w = work[t]
    OBVIOUS
  <2>2. PICK new :
           new = [stage |-> "predicting", request |-> w.request, token |-> w.token,
                  owner |-> stateOwner, candidates |-> Candidates(w.request, taken[w.token]),
                  predictions |-> <<>>]
    OBVIOUS
  <2>3. /\ w.stage = "read" /\ IsReading(w) /\ Plannable(w.request, taken[w.token])
        /\ work' = [work EXCEPT ![t] = new]
    BY <1>4, <2>1, <2>2 DEF ValidateOwnership, WorkHolds
  <2>4. /\ PlacesDiffer(w.request) /\ AtLocation(w.request, taken[w.token].seen.location) # {}
        /\ stateOwner # NoOwner
    BY <2>3 DEF Plannable, PlacesDiffer
  <2>5. \E i \in taken[w.token].owners..Len(ownerships) : ownerships[i] = stateOwner
    <3>1. /\ taken[w.token].owners \in 1..Len(ownerships) /\ Len(ownerships) \in Nat
          /\ ownerships[Len(ownerships)] = stateOwner
      BY <2>3 DEF StoresHold, SnapshotsHold, OwnersHold, IsReading, IsSeq
    <3> QED BY <3>1
  <2>6. /\ new.stage = "predicting" /\ new.request = w.request /\ new.token = w.token
        /\ new.owner = stateOwner /\ new.candidates = Candidates(w.request, taken[w.token])
        /\ new.predictions = <<>> /\ "predictions" \in DOMAIN new
    BY <2>2
  <2>7. IsPlanning(new)
    BY <2>3, <2>4, <2>5, <2>6, EmptyIsSeq DEF IsPlanning, IsReading
  <2> QED BY <2>3, <2>6, <2>7, OneWorkHolds, WorkStays
<1>5. ASSUME NEW t \in Threads, RefuseRequest(t) \/ LoseSnapshot(t) PROVE WorkHolds'
  BY <1>2, <1>5 DEF RefuseRequest, LoseSnapshot, Abandon
<1>6. ASSUME NEW t \in Threads, NEW i, Decide(t, i) PROVE WorkHolds'
  BY <1>2, <1>6 DEF Decide
<1>7. ASSUME NEW o, TakeSnapshot(o) \/ ChangeOwner(o) PROVE WorkHolds'
  BY <1>1, <1>7 DEF TakeSnapshot, ChangeOwner
<1>8. ASSUME NEW v, NEW runs, NEW replace, RegisterModel(v, runs, replace) PROVE WorkHolds'
  BY <1>1, <1>8 DEF RegisterModel
<1>9. ASSUME UNCHANGED kvVars PROVE WorkHolds'
  BY <1>1, <1>9 DEF kvVars
<1> QED BY <1>3, <1>4, <1>5, <1>6, <1>7, <1>8, <1>9, PredictionIsFounded DEF Next, vars

\* record_decision: a plan that joins the journal has to hold, the others do.
LEMMA JournalHolds ==
  ASSUME PlanInv, StoresGrow, NEW b, RecordDecision(b),
         HasSelection(b) /\ b.decision.id[1] = "kv" => PlanHolds(b)'
  PROVE  IsSeq(journal') /\ \A r \in Plans' : PlanHolds(r)'
<1>1. \A r \in Plans : PlanHolds(r)'
  BY PlansStay DEF PlanInv
<1>2. CASE ~ AcceptsBundle(b)
  <2>1. journal' = journal
    BY <1>2 DEF RecordDecision
  <2>2. Plans' = Plans
    BY <2>1 DEF Plans, Recorded
  <2> QED BY <1>1, <2>1, <2>2 DEF PlanInv
<1>3. CASE AcceptsBundle(b)
  <2>1. journal' = Append(journal, b) /\ HasSelection(b)
    BY <1>3 DEF RecordDecision, AcceptsBundle
  <2>2. /\ Len(journal) \in Nat /\ DOMAIN journal = 1..Len(journal)
        /\ IsSeq(journal') /\ DOMAIN journal' = 1..(Len(journal) + 1)
        /\ \A i \in 1..Len(journal) : journal'[i] = journal[i]
        /\ journal'[Len(journal) + 1] = b
    BY <2>1, AppendToSeq DEF PlanInv
  <2>3. Recorded' = Recorded \cup {b}
    BY <2>2 DEF Recorded
  <2>4. \A r \in Plans' : r \in Plans \/ (r = b /\ b.decision.id[1] = "kv")
    BY <2>3 DEF Plans
  <2> QED BY <1>1, <2>1, <2>2, <2>4
<1> QED BY <1>2, <1>3

\* Each step keeps every recorded plan sound.
LEMMA PlanStep ==
  ASSUME OthersNumberTheirs, PlanInv, [Next]_vars
  PROVE  PlanInv'
<1>1. StoresHold' /\ StoresGrow
  BY StoresStep DEF PlanInv
<1>2. WorkHolds'
  BY <1>1, WorkStep DEF PlanInv
<1>3. ASSUME journal' = journal PROVE IsSeq(journal') /\ \A r \in Plans' : PlanHolds(r)'
  <2>1. Plans' = Plans
    BY <1>3 DEF Plans, Recorded
  <2>2. \A r \in Plans : PlanHolds(r)'
    BY <1>1, PlansStay DEF PlanInv
  <2> QED BY <1>3, <2>1, <2>2 DEF PlanInv
<1>4. ASSUME NEW t \in Threads, NEW i, Decide(t, i)
      PROVE  IsSeq(journal') /\ \A r \in Plans' : PlanHolds(r)'
  <2>1. PICK w : w = work[t]
    OBVIOUS
  <2>2. PICK b : b = PlanBundle(w, i)
    OBVIOUS
  <2>3. /\ w.stage = "predicting" /\ Len(w.predictions) = Len(w.candidates)
        /\ i \in Selectable(w) /\ RecordDecision(b)
    BY <1>4, <2>1, <2>2 DEF Decide
  <2>4. StoresHold /\ IsPlanning(w)
    BY <2>1, <2>3 DEF PlanInv, WorkHolds
  <2>5. HasSelection(b) => PlanHolds(b)
    BY <2>2, <2>3, <2>4, DecisionIsSound
  <2>6. HasSelection(b) => PlanHolds(b)'
    BY <1>1, <2>4, <2>5, PlansStay
  <2> QED BY <1>1, <2>3, <2>6, JournalHolds
<1>5. ASSUME NEW b \in Bundles, RecordDecision(b)
      PROVE  IsSeq(journal') /\ \A r \in Plans' : PlanHolds(r)'
  BY <1>1, <1>5, JournalHolds DEF OthersNumberTheirs
<1>6. ASSUME NEW o, RecordOutcome(o) PROVE IsSeq(journal') /\ \A r \in Plans' : PlanHolds(r)'
  BY <1>3, <1>6 DEF RecordOutcome
<1>7. ASSUME NEW t \in Threads, NEW r, NEW token,
             \/ Begin(t, r, token) \/ RefuseRequest(t) \/ ValidateOwnership(t)
             \/ PredictNext(t) \/ LoseSnapshot(t)
      PROVE  journal' = journal
  BY <1>7 DEF Begin, RefuseRequest, ValidateOwnership, PredictNext, LoseSnapshot, Abandon,
              journalVars
<1>8. ASSUME NEW o, TakeSnapshot(o) \/ ChangeOwner(o) PROVE journal' = journal
  BY <1>8 DEF TakeSnapshot, ChangeOwner, journalVars
<1>9. ASSUME NEW v, NEW runs, NEW replace, RegisterModel(v, runs, replace) PROVE journal' = journal
  BY <1>9 DEF RegisterModel, journalVars
<1>10. IsSeq(journal') /\ \A r \in Plans' : PlanHolds(r)'
  <2>1. CASE UNCHANGED vars
    BY <1>3, <2>1 DEF vars, journalVars
  <2>2. CASE JournalNext
    BY <1>5, <1>6, <2>2 DEF JournalNext
  <2>3. CASE journal' = journal
    BY <1>3, <2>3
  <2>4. Next => JournalNext \/ journal' = journal \/ \E t \in Threads : \E i : Decide(t, i)
    BY <1>7, <1>8, <1>9 DEF Next
  <2> QED BY <1>4, <2>1, <2>2, <2>3, <2>4
<1> QED BY <1>1, <1>2, <1>10 DEF PlanInv

\* plan(): while a thread plans, snapshots are taken and evicted, the object
\* changes owner, models are registered and other threads record theirs; a plan
\* that gets recorded is safe, the quickest of its kind, and true to the one
\* snapshot it was made from, whatever the targets, observations and limits.
THEOREM PlansHold ==
  ASSUME OthersNumberTheirs
  PROVE  Spec => []PlansAreSound
<1>1. PlanInv => PlansAreSound
  BY DEF PlanInv, PlanHolds, PlansAreSound
<1>2. PlanInv /\ [Next]_vars => PlanInv'
  BY PlanStep
<1> QED BY <1>1, <1>2, PlanInit, PTL DEF Spec

(***************************************************************************)
(* Induction, for a set                                                    *)
(***************************************************************************)
LEMMA NaturalsHaveLeast ==
  ASSUME NEW S \in SUBSET Nat, S # {}
  PROVE  \E m \in S : \A n \in S : m <= n
<1>1. PICK m \in S : \A n \in S : ~ (<<n, m>> \in OpToRel(<, Nat))
  BY WFMin, NatLessThanWellFounded
<1>2. \A n \in S : ~ (n < m)
  BY <1>1 DEF OpToRel
<1>3. \A n \in S : n \in Int
  OBVIOUS
<1> QED BY <1>2, <1>3

\* Induction over the numbers up to m, for a set.
LEMMA UpTo ==
  ASSUME NEW m \in Nat, NEW S, 0 \in S, \A n \in 1..m : n - 1 \in S => n \in S
  PROVE  \A n \in 0..m : n \in S
<1> DEFINE rest == {n \in 0..m : n \notin S}
<1> SUFFICES ASSUME rest # {} PROVE FALSE
  OBVIOUS
<1>1. rest \in SUBSET Nat
  OBVIOUS
<1>2. PICK n \in rest : \A k \in rest : n <= k
  <2> HIDE DEF rest
  <2> QED BY <1>1, NaturalsHaveLeast
<1>3. n \in 1..m
  BY <1>2
<1>4. n - 1 \in 0..m /\ ~ (n <= n - 1)
  BY <1>3
<1>5. n - 1 \in S
  BY <1>2, <1>4
<1> QED BY <1>2, <1>3, <1>5

(***************************************************************************)
(* Gates                                                                   *)
(***************************************************************************)

\* max and min of some known values
LEMMA BestExists ==
  ASSUME NEW m \in Nat, NEW S, S # {}, NEW v, \A i \in S : i \in 1..m /\ v[i] \in Int, NEW o
  PROVE  \E i \in S : \A j \in S : NoWorse(v[i], v[j], o)
<1> DEFINE upTo(k) == {i \in S : i <= k}
           done == {k \in 0..m : upTo(k) # {} =>
                       \E i \in upTo(k) : \A j \in upTo(k) : NoWorse(v[i], v[j], o)}
<1>1. 0 \in done
  <2>1. \A i \in S : ~ (i <= 0)
    OBVIOUS
  <2>2. upTo(0) = {}
    BY <2>1
  <2> QED BY <2>2
<1>2. ASSUME NEW k \in 1..m, k - 1 \in done PROVE k \in done
  <2>1. upTo(k) = upTo(k - 1) \cup {i \in S : i = k}
    <3>1. \A i \in S : i <= k <=> i <= k - 1 \/ i = k
      OBVIOUS
    <3> QED BY <3>1
  <2>2. \A i \in upTo(k) : v[i] \in Int
    OBVIOUS
  <2>3. upTo(k - 1) # {} => \E i \in upTo(k - 1) : \A j \in upTo(k - 1) : NoWorse(v[i], v[j], o)
    BY <1>2
  <2>4. upTo(k) # {} => \E i \in upTo(k) : \A j \in upTo(k) : NoWorse(v[i], v[j], o)
    <3> SUFFICES ASSUME upTo(k) # {}
                 PROVE  \E i \in upTo(k) : \A j \in upTo(k) : NoWorse(v[i], v[j], o)
      OBVIOUS
    <3>1. PICK old : old = upTo(k - 1)
      OBVIOUS
    <3>2. PICK all : all = upTo(k)
      OBVIOUS
    <3>3. /\ all # {} /\ all \subseteq old \cup {k} /\ old \subseteq all
          /\ \A i \in all : v[i] \in Int
          /\ old # {} => \E i \in old : \A j \in old : NoWorse(v[i], v[j], o)
      BY <2>1, <2>2, <2>3, <3>1, <3>2
    <3> HIDE DEF upTo, done
    <3>4. CASE k \notin all
      BY <3>2, <3>3, <3>4
    <3>5. CASE k \in all /\ old = {}
      BY <3>2, <3>3, <3>5 DEF NoWorse
    <3>6. CASE k \in all /\ old # {}
      <4>1. PICK i \in old : \A j \in old : NoWorse(v[i], v[j], o)
        BY <3>3, <3>6
      <4>2. CASE NoWorse(v[i], v[k], o)
        BY <3>2, <3>3, <4>1, <4>2
      <4>3. CASE ~ NoWorse(v[i], v[k], o)
        <5>1. \A j \in all : NoWorse(v[k], v[j], o)
          <6>1. \A x, y, z \in Int : ~ NoWorse(x, y, o) /\ NoWorse(x, z, o) => NoWorse(y, z, o)
            BY DEF NoWorse
          <6>2. NoWorse(v[k], v[k], o)
            BY <3>3, <3>6 DEF NoWorse
          <6>3. v[k] \in Int /\ v[i] \in Int /\ \A j \in old : v[j] \in Int
            BY <3>3, <3>6
          <6> QED BY <3>3, <4>1, <4>3, <6>1, <6>2, <6>3
        <5> QED BY <3>2, <3>6, <5>1
      <4> QED BY <4>2, <4>3
    <3> QED BY <3>3, <3>4, <3>5, <3>6
  <2> QED BY <2>4
<1>3. m \in done
  <2> HIDE DEF done
  <2> QED BY <1>1, <1>2, UpTo
<1>4. upTo(m) = S
  <2>1. \A i \in S : i <= m
    OBVIOUS
  <2> QED BY <2>1
<1> QED BY <1>3, <1>4

\* Nobody is better than the best.
LEMMA BestIsBest ==
  ASSUME NEW r, IsMeasured(r), NEW S \in SUBSET DOMAIN r.predictions, S # {}, NEW o,
         \A i \in S : ValueOf(r, i, o) # Unknown
  PROVE  /\ \A i \in S : ValueOf(r, i, o) \in Int
         /\ Best(r, S, o) \in Int
         /\ \A i \in S : NoWorse(Best(r, S, o), ValueOf(r, i, o), o)
         /\ \E i \in S : Best(r, S, o) = ValueOf(r, i, o)
<1> DEFINE v == [i \in S |-> ValueOf(r, i, o)]
<1>1. Len(r.predictions) \in Nat /\ DOMAIN r.predictions = 1..Len(r.predictions)
  BY DEF IsMeasured
<1>2. \A i \in S : ValueOf(r, i, o) \in Int
  BY DEF IsMeasured, Measures, ValueOf, ObjectiveValue
<1>3. \E i \in S : \A j \in S : NoWorse(v[i], v[j], o)
  <2>1. PICK m \in Nat : m = Len(r.predictions)
    BY <1>1
  <2>2. \A i \in S : i \in 1..m /\ v[i] \in Int
    BY <1>1, <1>2, <2>1
  <2> HIDE DEF v
  <2> QED BY <2>2, BestExists
<1>4. \E i \in S : \A j \in S : NoWorse(ValueOf(r, i, o), ValueOf(r, j, o), o)
  BY <1>3
<1>5. \E i \in S : /\ Best(r, S, o) = ValueOf(r, i, o)
                   /\ \A j \in S : NoWorse(ValueOf(r, i, o), ValueOf(r, j, o), o)
  BY <1>4 DEF Best
<1> QED BY <1>2, <1>5

\* Tolerances are compared as products.
LEMMA Products == \A x, y, z \in Nat : x <= y => x * z <= y * z
  OBVIOUS

\* What is near the best is near every other.
LEMMA NearBestOfAll ==
  ASSUME NEW v \in Nat, NEW best \in Nat, NEW w \in Nat, NEW o, NEW tol \in 0..100,
         NearBest(v, best, o, tol), NoWorse(best, w, o)
  PROVE  NearBest(v, w, o, tol)
<1>1. CASE o = "success"
  BY <1>1 DEF NearBest, NoWorse, Maximized
<1>2. CASE o # "success" /\ o \in Maximized
  <2>1. 100 * v >= 100 * best - best * tol /\ w <= best
    BY <1>2 DEF NearBest, NoWorse
  <2>2. w * (100 - tol) <= best * (100 - tol)
    BY <2>1, Products
  <2>3. 100 * v >= 100 * w - w * tol
    BY <2>1, <2>2
  <2> QED BY <1>2, <2>3 DEF NearBest
<1>3. CASE o # "success" /\ o \notin Maximized
  <2>1. 100 * v <= 100 * best + best * tol /\ best <= w
    BY <1>3 DEF NearBest, NoWorse
  <2>2. best * (100 + tol) <= w * (100 + tol)
    BY <2>1, Products
  <2>3. 100 * v <= 100 * w + w * tol
    BY <2>1, <2>2
  <2> QED BY <1>3, <2>3 DEF NearBest
<1> QED BY <1>1, <1>2, <1>3

\* Without a tolerance, near the best is as good as the best.
LEMMA NearBestExactly ==
  ASSUME NEW v \in Int, NEW best \in Int, NEW o
  PROVE  NearBest(v, best, o, 0) <=> NoWorse(v, best, o)
  BY DEF NearBest, NoWorse

\* One gate: it keeps some, the best among them, and whoever is as good.
LEMMA GateKeeps ==
  ASSUME NEW r, IsMeasured(r), NEW policy \in Policies, NEW o \in Objectives,
         NEW left \in SUBSET DOMAIN r.predictions,
         Gate(r, left, o, policy) # {}
  PROVE  LET kept == Gate(r, left, o, policy)
             v(i) == ValueOf(r, i, o)
             tol == policy.tolerance[o]
         IN  /\ \A i \in kept : i \in left /\ v(i) \in Int
             /\ \A i \in kept, j \in left : v(j) # Unknown => NearBest(v(i), v(j), o, tol)
             /\ tol = 0 =>
                  /\ \A i \in kept, j \in left : v(j) # Unknown /\ NoWorse(v(j), v(i), o) => j \in kept
                  /\ \A i, j \in kept : v(i) = v(j)
<1> DEFINE kept == Gate(r, left, o, policy)
           v(i) == ValueOf(r, i, o)
           tol == policy.tolerance[o]
           available == {i \in left : v(i) # Unknown}
           best == Best(r, available, o)
<1>1. tol \in 0..100
  BY PoliciesAreChecked
<1>2. \A i \in left : ~ Improper(r.predictions[i], o)
  BY DEF Gate
<1>3. kept = {i \in available : NearBest(v(i), best, o, tol)}
  BY <1>2 DEF Gate, Survivors
<1>4. available # {} /\ available \in SUBSET DOMAIN r.predictions
  BY <1>3
<1>5. /\ \A i \in available : v(i) \in Int
      /\ best \in Int /\ \A i \in available : NoWorse(best, v(i), o)
      /\ \E i \in available : best = v(i)
  <2>1. \A i \in available : ValueOf(r, i, o) # Unknown
    OBVIOUS
  <2> HIDE DEF available
  <2>2. /\ \A i \in available : v(i) \in Int
        /\ best \in Int /\ \A i \in available : NoWorse(best, v(i), o)
        /\ \E i \in available : best = v(i)
    BY <1>4, <2>1, BestIsBest
  <2> QED BY <2>2
<1>6. \A i \in available : v(i) \in Nat
  BY <1>2, <1>5 DEF Improper, ValueOf
<1>7. best \in Nat
  BY <1>5, <1>6
<1> HIDE DEF kept, v, tol, best
<1>8. \A i \in kept : i \in left /\ v(i) \in Int
  BY <1>3, <1>5
<1>9. \A i \in kept, j \in left : v(j) # Unknown => NearBest(v(i), v(j), o, tol)
  BY <1>1, <1>3, <1>5, <1>6, <1>7, NearBestOfAll
<1>10. ASSUME tol = 0
       PROVE  /\ \A i \in kept, j \in left : v(j) # Unknown /\ NoWorse(v(j), v(i), o) => j \in kept
              /\ \A i, j \in kept : v(i) = v(j)
  <2>1. kept = {i \in available : NoWorse(v(i), best, o)}
    BY <1>3, <1>5, <1>10, NearBestExactly
  <2>2. \A x, y \in Int : NoWorse(x, y, o) /\ NoWorse(y, x, o) => x = y
    BY DEF NoWorse
  <2>3. \A x, y, z \in Int : NoWorse(x, y, o) /\ NoWorse(y, z, o) => NoWorse(x, z, o)
    BY DEF NoWorse
  <2>4. \A i \in kept : v(i) = best
    BY <1>5, <2>1, <2>2
  <2>5. \A i \in kept, j \in left : v(j) # Unknown /\ NoWorse(v(j), v(i), o) => j \in kept
    BY <2>1, <2>4
  <2> QED BY <2>4, <2>5
<1> QED BY <1>8, <1>9, <1>10 DEF kept, v, tol

\* The turns of the loop.
LEMMA LoopTurns ==
  ASSUME NEW r, NEW policy, NEW m \in Nat, m = Len(policy.objectives)
  PROVE  LET left == Gated(r, policy) IN
         /\ left[0] = Qualified(r, policy)
         /\ \A n \in 1..m :
               left[n] = IF n > 1 /\ Cardinality(left[n - 1]) = 1 THEN left[n - 1]
                         ELSE Gate(r, left[n - 1], policy.objectives[n], policy)
<1> DEFINE Turn(n, before) ==
             IF n > 1 /\ Cardinality(before) = 1 THEN before
             ELSE Gate(r, before, policy.objectives[n], policy)
           Next1(f, n) == IF n = 0 THEN Qualified(r, policy) ELSE Turn(n, f[n - 1])
           runs == {k \in 0..m : \E f : \A n \in 0..k : f[n] = Next1(f, n)}
<1>1. 0 \in runs
  <2>1. PICK f : f = [n \in 0..0 |-> Qualified(r, policy)]
    OBVIOUS
  <2>2. \A n \in 0..0 : f[n] = Next1(f, n)
    BY <2>1
  <2> QED BY <2>2
<1>2. ASSUME NEW k \in 1..m, k - 1 \in runs PROVE k \in runs
  <2>1. PICK f : \A n \in 0..(k - 1) : f[n] = Next1(f, n)
    BY <1>2
  <2> HIDE DEF Turn
  <2>2. PICK g : g = [n \in 0..k |-> IF n = k THEN Turn(k, f[k - 1]) ELSE f[n]]
    OBVIOUS
  <2>3. \A n \in 0..(k - 1) : g[n] = f[n]
    BY <2>2
  <2>4. g[k] = Turn(k, g[k - 1])
    BY <2>2, <2>3
  <2>5. ASSUME NEW n \in 0..k PROVE g[n] = Next1(g, n)
    <3>1. CASE n = k
      BY <2>4, <3>1
    <3>2. CASE n \in 0..(k - 1)
      <4>1. g[n] = f[n] /\ f[n] = Next1(f, n)
        BY <2>1, <2>3, <3>2
      <4>2. n # 0 => g[n - 1] = f[n - 1]
        BY <2>3, <3>2
      <4> QED BY <4>1, <4>2
    <3> QED BY <3>1, <3>2
  <2> QED BY <2>5
<1>3. m \in runs
  <2> HIDE DEF runs
  <2>1. \A n \in 1..m : n - 1 \in runs => n \in runs
    BY <1>2
  <2>2. \A n \in 0..m : n \in runs
    BY <1>1, <2>1, UpTo
  <2> QED BY <2>2
<1>4. PICK f : \A n \in 0..m : f[n] = Next1(f, n)
  BY <1>3
<1> DEFINE g == [n \in 0..m |-> f[n]]
<1>5. g = [n \in 0..m |-> Next1(g, n)]
  <2>1. \A n \in 0..m : g[n] = f[n]
    OBVIOUS
  <2>2. \A n \in 0..m : n # 0 => n - 1 \in 0..m
    OBVIOUS
  <2> HIDE DEF Turn
  <2>3. \A n \in 0..m : f[n] = Next1(g, n)
    BY <1>4, <2>1, <2>2
  <2> QED BY <2>3
<1>6. Gated(r, policy) = CHOOSE h : h = [n \in 0..m |-> Next1(h, n)]
  BY Zenon DEF Gated
<1>7. PICK h : h = Gated(r, policy) /\ h = [n \in 0..m |-> Next1(h, n)]
  <2> HIDE DEF g, Next1
  <2> QED BY <1>5, <1>6
<1>8. \A n \in 0..m : h[n] = Next1(h, n)
  BY <1>7
<1> HIDE DEF g
<1>9. /\ h[0] = Qualified(r, policy)
      /\ \A n \in 1..m : h[n] = Turn(n, h[n - 1])
  <2> HIDE DEF Turn
  <2>1. 0 \in 0..m /\ \A n \in 1..m : n \in 0..m /\ n # 0
    OBVIOUS
  <2> QED BY <1>8, <2>1
<1> HIDE DEF Next1
<1> QED BY <1>7, <1>9

\* Nobody comes back, so a turn the loop did not make had one candidate left.
LEMMA LeftShrinks ==
  ASSUME NEW r, IsMeasured(r), NEW policy, NEW m \in Nat, m = Len(policy.objectives)
  PROVE  LET left == Gated(r, policy) IN
         /\ \A n \in 0..m : left[n] \subseteq DOMAIN r.predictions
         /\ \A n \in 1..m : left[n] \subseteq left[n - 1]
         /\ \A n \in 0..m : left[m] \subseteq left[n]
         /\ \A n \in 1..m : \/ \E x : left[m] \subseteq {x}
                           \/ left[n] = Gate(r, left[n - 1], policy.objectives[n], policy)
<1> PICK left : left = Gated(r, policy)
  OBVIOUS
<1>1. left[0] \subseteq DOMAIN r.predictions
  BY LoopTurns DEF Qualified
<1>2. \A n \in 1..m :
        left[n] = IF n > 1 /\ Cardinality(left[n - 1]) = 1 THEN left[n - 1]
                  ELSE Gate(r, left[n - 1], policy.objectives[n], policy)
  BY LoopTurns
<1>3. \A n \in 1..m : left[n] \subseteq left[n - 1]
  BY <1>2 DEF Gate, Survivors
<1>4. \A n \in 0..m : left[n] \subseteq DOMAIN r.predictions
  <2> DEFINE good == {n \in 0..m : left[n] \subseteq DOMAIN r.predictions}
  <2>1. 0 \in good
    BY <1>1
  <2>2. \A n \in 1..m : n - 1 \in good => n \in good
    BY <1>3
  <2>3. \A n \in 0..m : n \in good
    <3> HIDE DEF good
    <3> QED BY <2>1, <2>2, UpTo
  <2> QED BY <2>3
<1>5. \A n \in 0..m : left[m] \subseteq left[n]
  <2> DEFINE good == {k \in 0..m : \A n \in 0..k : left[k] \subseteq left[n]}
  <2>1. 0 \in good
    OBVIOUS
  <2>2. ASSUME NEW k \in 1..m, k - 1 \in good PROVE k \in good
    <3> SUFFICES ASSUME NEW n \in 0..k PROVE left[k] \subseteq left[n]
      OBVIOUS
    <3>1. CASE n = k
      BY <3>1
    <3>2. CASE n \in 0..(k - 1)
      BY <1>3, <2>2, <3>2
    <3> QED BY <3>1, <3>2
  <2>3. \A k \in 0..m : k \in good
    <3> HIDE DEF good
    <3>1. \A n \in 1..m : n - 1 \in good => n \in good
      BY <2>2
    <3> QED BY <2>1, <3>1, UpTo
  <2> QED BY <2>3
<1>6. ASSUME NEW n \in 1..m, Cardinality(left[n - 1]) = 1
      PROVE  \E x : left[m] \subseteq {x}
  <2>1. IsFiniteSet(DOMAIN r.predictions)
    <3>1. PICK k \in Nat : DOMAIN r.predictions = 1..k
      BY DEF IsMeasured
    <3> QED BY <3>1, FS_Interval
  <2>2. n - 1 \in 0..m
    OBVIOUS
  <2>3. IsFiniteSet(left[n - 1])
    BY <1>4, <2>1, <2>2, FS_Subset
  <2>4. \E x : left[n - 1] = {x}
    BY <1>6, <2>3, FS_Singleton
  <2> QED BY <1>5, <2>2, <2>4
<1>7. \A n \in 1..m : \/ \E x : left[m] \subseteq {x}
                    \/ left[n] = Gate(r, left[n - 1], policy.objectives[n], policy)
  BY <1>2, <1>6
<1> QED BY <1>3, <1>4, <1>5, <1>7

(***************************************************************************)
(* controlled_replay                                                       *)
(***************************************************************************)

\* What is known of a replay that was not refused: left is who each turn leaves,
\* s the position of the selection.
Replayed(r, policy, replay, m, left, s) ==
    /\ m \in Nat /\ m > 0 /\ m = Len(policy.objectives) /\ DOMAIN policy.objectives = 1..m
    /\ \A n \in 1..m : policy.objectives[n] \in Objectives
    /\ left = Gated(r, policy) /\ s \in left[m] /\ replay.selected = r.predictions[s]
    /\ replay.baseline = SelectedPrediction(r)
    /\ replay.rejected = {p.candidate : p \in PredictionsOf(r)}
                           \ {r.predictions[i].candidate : i \in left[m]}
    /\ \A i, j \in DOMAIN r.predictions :
          r.predictions[i].candidate = r.predictions[j].candidate => i = j

\* _selected_prediction: one position of the record has the action's candidate.
LEMMA CandidatesDiffer ==
  ASSUME NEW r, IsMeasured(r),
         Cardinality({p.candidate : p \in PredictionsOf(r)}) = Len(r.predictions),
         NEW i \in DOMAIN r.predictions, NEW j \in DOMAIN r.predictions,
         r.predictions[i].candidate = r.predictions[j].candidate
  PROVE  i = j
<1> DEFINE m == Len(r.predictions)
           name == [k \in 1..m |-> r.predictions[k].candidate]
           names == {p.candidate : p \in PredictionsOf(r)}
<1>1. m \in Nat /\ DOMAIN r.predictions = 1..m
  BY DEF IsMeasured
<1>2. name \in Surjection(1..m, names)
  BY <1>1 DEF PredictionsOf, Surjection
<1>3. IsFiniteSet(1..m) /\ Cardinality(1..m) = m
  <2> HIDE DEF m
  <2>1. 1 \in Int /\ m \in Int
    BY <1>1
  <2>2. IsFiniteSet(1..m) /\ Cardinality(1..m) = IF 1 > m THEN 0 ELSE m - 1 + 1
    BY <2>1, FS_Interval
  <2> QED BY <1>1, <2>2
<1>4. Cardinality(names) = m
  OBVIOUS
<1>5. name \in Injection(1..m, names)
  <2> HIDE DEF name, names, m
  <2> QED BY <1>2, <1>3, <1>4, FS_Surjection
<1>6. name[i] = name[j] /\ i \in 1..m /\ j \in 1..m
  BY <1>1
<1> HIDE DEF name, names, m
<1> QED BY <1>5, <1>6 DEF Injection, IsInjective

\* controlled_replay: what it makes of the positions the gates leave.
LEMMA ReplayIs ==
  ASSUME NEW r, IsMeasured(r), NEW policy \in Policies, ControlledReplay(r, policy).ok
  PROVE  \E m, left, s : Replayed(r, policy, ControlledReplay(r, policy), m, left, s)
<1> DEFINE candidates == {p.candidate : p \in PredictionsOf(r)}
           replay == ControlledReplay(r, policy)
           m == Len(policy.objectives)
           left == Gated(r, policy)
           s == FirstOf(left[m])
<1>1. Refused.ok = FALSE
  BY DEF Refused
<1>2. /\ policy.objectives # <<>>
      /\ Cardinality(candidates) = Len(r.predictions)
      /\ left[m] # {}
      /\ replay.selected = r.predictions[s] /\ replay.baseline = SelectedPrediction(r)
      /\ replay.rejected = candidates \ {r.predictions[i].candidate : i \in left[m]}
  <2> HIDE DEF left
  <2> QED BY <1>1, Zenon DEF ControlledReplay, left
<1>3. /\ m \in Nat /\ DOMAIN policy.objectives = 1..m /\ m > 0
      /\ \A n \in 1..m : policy.objectives[n] \in Objectives
  <2>1. policy.objectives \in Seq(Objectives)
    BY PoliciesAreChecked
  <2> QED BY <1>2, <2>1
<1>4. s \in left[m]
  <2>1. left[m] \subseteq DOMAIN r.predictions
    BY <1>3, LeftShrinks
  <2>2. left[m] \in SUBSET Nat
    BY <2>1 DEF IsMeasured
  <2> HIDE DEF left, m
  <2>3. \E i \in left[m] : \A j \in left[m] : i <= j
    BY <1>2, <2>2, NaturalsHaveLeast
  <2> QED BY <2>3 DEF FirstOf
<1>5. \A i, j \in DOMAIN r.predictions :
          r.predictions[i].candidate = r.predictions[j].candidate => i = j
  BY <1>2, CandidatesDiffer
<1> HIDE DEF left, s, replay, candidates
<1>6. Replayed(r, policy, replay, m, left, s)
  BY <1>2, <1>3, <1>4, <1>5 DEF Replayed, left, candidates
<1> QED BY <1>6 DEF replay

\* Without tolerances those who are left at the end did equally well in every
\* turn that was made.
LEMMA LeftAreEqual ==
  ASSUME NEW r, IsMeasured(r), NEW policy \in Policies, Exact(policy),
         NEW replay, NEW m, NEW left, NEW s,
         Replayed(r, policy, replay, m, left, s),
         NEW i \in left[m], NEW j \in left[m], i # j, NEW n \in 1..m
  PROVE  LET o == policy.objectives[n] IN
         ValueOf(r, i, o) \in Int /\ ValueOf(r, i, o) = ValueOf(r, j, o)
<1> DEFINE o == policy.objectives[n]
<1>1. m \in Nat /\ m = Len(policy.objectives) /\ o \in Objectives /\ left = Gated(r, policy)
  BY DEF Replayed
<1>2. n - 1 \in 0..m /\ n \in 0..m
  BY <1>1
<1>3. /\ left[n - 1] \subseteq DOMAIN r.predictions /\ left[m] \subseteq left[n]
      /\ left[n] = Gate(r, left[n - 1], o, policy)
  BY <1>1, <1>2, LeftShrinks
<1>4. policy.tolerance[o] = 0
  BY <1>1, PoliciesAreChecked DEF Exact
<1> HIDE DEF o
<1>5. i \in Gate(r, left[n - 1], o, policy) /\ j \in Gate(r, left[n - 1], o, policy)
  BY <1>3
<1> QED BY <1>1, <1>3, <1>4, <1>5, GateKeeps DEF o

\* Who does as well as the selection for every objective is left at the end.
LEMMA EquallyGoodIsLeft ==
  ASSUME NEW r, IsMeasured(r), NEW policy \in Policies, Exact(policy),
         NEW replay, NEW m, NEW left, NEW s,
         Replayed(r, policy, replay, m, left, s),
         NEW q \in Qualified(r, policy),
         \A n \in 1..m : LET o == policy.objectives[n] IN
            ValueOf(r, q, o) # Unknown /\ NoWorse(ValueOf(r, q, o), ValueOf(r, s, o), o)
  PROVE  q \in left[m]
<1>1. m \in Nat /\ m = Len(policy.objectives) /\ left = Gated(r, policy) /\ s \in left[m]
  BY DEF Replayed
<1> DEFINE stays == {n \in 0..m : q \in left[n]}
<1>2. 0 \in stays
  BY <1>1, LoopTurns
<1>3. ASSUME NEW n \in 1..m, n - 1 \in stays PROVE n \in stays
  <2> DEFINE o == policy.objectives[n]
  <2>1. /\ left[n - 1] \subseteq DOMAIN r.predictions
        /\ s \in left[n] /\ q \in left[n - 1]
    <3>1. n - 1 \in 0..m /\ n \in 0..m
      BY <1>1
    <3> QED BY <1>1, <1>3, <3>1, LeftShrinks
  <2>2. CASE n > 1 /\ Cardinality(left[n - 1]) = 1
    BY <1>1, <2>1, <2>2, LoopTurns
  <2>3. CASE ~ (n > 1 /\ Cardinality(left[n - 1]) = 1)
    <3>1. left[n] = Gate(r, left[n - 1], o, policy)
      BY <1>1, <2>3, LoopTurns
    <3>2. o \in Objectives /\ policy.tolerance[o] = 0
      BY PoliciesAreChecked DEF Exact, Replayed
    <3>3. ValueOf(r, q, o) # Unknown /\ NoWorse(ValueOf(r, q, o), ValueOf(r, s, o), o)
      OBVIOUS
    <3> HIDE DEF o
    <3>4. q \in left[n]
      BY <2>1, <3>1, <3>2, <3>3, GateKeeps
    <3> QED BY <3>4
  <2> QED BY <2>2, <2>3
<1>4. \A n \in 0..m : n \in stays
  <2> HIDE DEF stays
  <2>1. \A n \in 1..m : n - 1 \in stays => n \in stays
    BY <1>3
  <2> QED BY <1>1, <1>2, <2>1, UpTo
<1> QED BY <1>1, <1>4

\* _objective_value is a number or None.
LEMMA ValuesAreMeasured ==
  ASSUME NEW r, IsMeasured(r), NEW i \in DOMAIN r.predictions, NEW o
  PROVE  ValueOf(r, i, o) \in Int \cup {Unknown}
  BY DEF IsMeasured, Measures, ValueOf, ObjectiveValue

\* The gain compares the selected and the recorded value, if both are known.
LEMMA GainOf ==
  ASSUME NEW r, IsMeasured(r), NEW i \in DOMAIN r.predictions, NEW j \in DOMAIN r.predictions, NEW o
  PROVE  LET g == Gain(r.predictions[i], r.predictions[j], o)
             v == ValueOf(r, i, o)
             w == ValueOf(r, j, o)
         IN  /\ g # Unknown => v \in Int /\ w \in Int /\ g \in Int
             /\ g # Unknown /\ g >= 0 => NoWorse(v, w, o)
             /\ v = w => g \in {0, Unknown}
<1> DEFINE g == Gain(r.predictions[i], r.predictions[j], o)
           v == ValueOf(r, i, o)
           w == ValueOf(r, j, o)
<1>1. v \in Int \cup {Unknown} /\ w \in Int \cup {Unknown}
  BY ValuesAreMeasured
<1>2. g = IF Unknown \in {v, w} THEN Unknown ELSE IF o \in Maximized THEN v - w ELSE w - v
  BY DEF Gain, ValueOf
<1> HIDE DEF g, v, w
<1>3. CASE Unknown \in {v, w}
  BY <1>2, <1>3 DEF g, v, w
<1>4. CASE v \in Int /\ w \in Int
  <2>1. g = IF o \in Maximized THEN v - w ELSE w - v
    BY <1>2, <1>4, UnknownIsNoNumber
  <2>2. g \in Int /\ (g >= 0 => NoWorse(v, w, o)) /\ (v = w => g = 0)
    BY <1>4, <2>1 DEF NoWorse
  <2> QED BY <1>4, <2>2 DEF g, v, w
<1> QED BY <1>1, <1>3, <1>4

\* Without tolerances, whoever is left is not known to be worse than another.
LEMMA SelectionIsUndominated ==
  ASSUME NEW r, IsMeasured(r), NEW policy \in Policies, NEW replay, NEW m, NEW left, NEW s,
         Replayed(r, policy, replay, m, left, s)
  PROVE  IsUndominated(r, policy, replay)
<1> SUFFICES ASSUME Exact(policy), NEW q \in DOMAIN r.predictions, Passes(r.predictions[q], policy),
                    Dominates(r.predictions[q], replay.selected, policy)
             PROVE  FALSE
  BY DEF IsUndominated, PredictionsOf
<1>1. /\ m \in Nat /\ m = Len(policy.objectives) /\ DOMAIN policy.objectives = 1..m
      /\ left = Gated(r, policy) /\ s \in left[m] /\ replay.selected = r.predictions[s]
  BY DEF Replayed
<1>2. s \in DOMAIN r.predictions
  BY <1>1, LeftShrinks
<1> DEFINE g(o) == Gain(r.predictions[q], r.predictions[s], o)
<1>3. /\ \A n \in 1..m : g(policy.objectives[n]) # Unknown /\ g(policy.objectives[n]) >= 0
      /\ \E n \in 1..m : g(policy.objectives[n]) > 0
  BY <1>1 DEF Dominates
<1>4. ASSUME NEW n \in 1..m
      PROVE  LET o == policy.objectives[n] IN
             ValueOf(r, q, o) # Unknown /\ NoWorse(ValueOf(r, q, o), ValueOf(r, s, o), o)
  <2> DEFINE o == policy.objectives[n]
  <2>1. g(o) # Unknown /\ g(o) >= 0
    BY <1>3
  <2> HIDE DEF o
  <2> QED BY <1>2, <2>1, GainOf, UnknownIsNoNumber DEF o
<1>5. q \in left[m]
  <2>1. q \in Qualified(r, policy)
    BY DEF Qualified
  <2> QED BY <1>4, <2>1, EquallyGoodIsLeft
<1>6. PICK n \in 1..m : g(policy.objectives[n]) > 0
  BY <1>3
<1> DEFINE o == policy.objectives[n]
<1>7. ValueOf(r, q, o) = ValueOf(r, s, o)
  BY <1>1, <1>5, LeftAreEqual
<1>8. g(o) # Unknown /\ g(o) > 0
  BY <1>3, <1>6
<1> HIDE DEF o
<1>9. g(o) = 0
  BY <1>2, <1>7, <1>8, GainOf
<1> QED BY <1>8, <1>9

\* Nobody is selected whom the policy refuses or whose value is unknown.
LEMMA SelectionFailsClosed ==
  ASSUME NEW r, IsMeasured(r), NEW policy \in Policies, NEW replay, NEW m, NEW left, NEW s,
         Replayed(r, policy, replay, m, left, s)
  PROVE  FailsClosed(r, policy, replay)
<1>1. /\ m \in Nat /\ 1 \in 1..m /\ m = Len(policy.objectives)
      /\ policy.objectives[1] \in Objectives
      /\ left = Gated(r, policy) /\ s \in left[m] /\ replay.selected = r.predictions[s]
  BY DEF Replayed
<1> DEFINE o == policy.objectives[1]
<1>2. s \in left[0] /\ s \in left[1] /\ left[0] \subseteq DOMAIN r.predictions
  BY <1>1, LeftShrinks
<1>3. left[1] = Gate(r, left[0], o, policy)
  <2>1. left[1] = IF 1 > 1 /\ Cardinality(left[1 - 1]) = 1 THEN left[1 - 1]
                  ELSE Gate(r, left[1 - 1], policy.objectives[1], policy)
    BY <1>1, LoopTurns
  <2> QED BY <2>1
<1>4. ObjectiveValue(replay.selected, o) # Unknown
  <2> HIDE DEF o
  <2>1. o \in Objectives
    BY <1>1 DEF o
  <2>2. ValueOf(r, s, o) \in Int
    BY <1>2, <1>3, <2>1, GateKeeps
  <2> QED BY <1>1, <2>2, UnknownIsNoNumber DEF ValueOf
<1>5. Passes(replay.selected, policy)
  BY <1>1, <1>2, LoopTurns DEF Qualified
<1>6. \A c \in Constrained(policy) : ObjectiveValue(replay.selected, c) # Unknown
  BY <1>5 DEF Constrained, Passes, Within, ObjectiveValue
<1>7. /\ policy.maxLatency # Unknown => replay.selected.e2e <= policy.maxLatency
      /\ policy.maxCost # Unknown => replay.selected.cost <= policy.maxCost
  BY <1>5 DEF Passes, Within
<1> QED BY <1>4, <1>6, <1>7 DEF FailsClosed

\* For the first objective the selection keeps up with the recorded choice.
LEMMA SelectionIsNoWorse ==
  ASSUME NEW r, IsMeasured(r), SelectedPrediction(r) \in PredictionsOf(r),
         NEW policy \in Policies, NEW replay, NEW m, NEW left, NEW s,
         Replayed(r, policy, replay, m, left, s)
  PROVE  IsNoWorse(r, policy, replay)
<1>1. /\ m \in Nat /\ 1 \in 1..m /\ m = Len(policy.objectives) /\ DOMAIN policy.objectives = 1..m
      /\ policy.objectives[1] \in Objectives
      /\ left = Gated(r, policy) /\ s \in left[m] /\ replay.selected = r.predictions[s]
      /\ replay.baseline = SelectedPrediction(r)
  BY DEF Replayed
<1> DEFINE first == policy.objectives[1]
<1>2. s \in left[1] /\ left[0] = Qualified(r, policy) /\ left[m] \subseteq DOMAIN r.predictions
  BY <1>1, LeftShrinks, LoopTurns
<1>3. left[1] = Gate(r, left[0], first, policy)
  <2>1. left[1] = IF 1 > 1 /\ Cardinality(left[1 - 1]) = 1 THEN left[1 - 1]
                  ELSE Gate(r, left[1 - 1], policy.objectives[1], policy)
    BY <1>1, LoopTurns
  <2> QED BY <2>1
<1>4. ASSUME Passes(replay.baseline, policy), ObjectiveValue(replay.baseline, first) # Unknown
      PROVE  NearBest(ObjectiveValue(replay.selected, first), ObjectiveValue(replay.baseline, first),
                      first, policy.tolerance[first])
  <2>1. PICK b \in DOMAIN r.predictions : replay.baseline = r.predictions[b]
    BY <1>1 DEF PredictionsOf
  <2>2. b \in left[0] /\ left[0] \subseteq DOMAIN r.predictions
    BY <1>2, <1>4, <2>1 DEF Qualified
  <2>3. ValueOf(r, b, first) # Unknown
    BY <1>4, <2>1 DEF ValueOf
  <2>4. first \in Objectives
    BY <1>1
  <2> HIDE DEF first
  <2>5. NearBest(ValueOf(r, s, first), ValueOf(r, b, first), first, policy.tolerance[first])
    BY <1>2, <1>3, <2>2, <2>3, <2>4, GateKeeps
  <2> QED BY <1>1, <2>1, <2>5 DEF ValueOf
<1>5. ASSUME NEW p \in PredictionsOf(r), Exact(policy), p.candidate \notin replay.rejected,
             NEW n \in 1..m
      PROVE  Gain(p, replay.selected, policy.objectives[n]) \in {0, Unknown}
  <2> DEFINE o == policy.objectives[n]
  <2>1. PICK i \in left[m] : p.candidate = r.predictions[i].candidate
    BY <1>5 DEF Replayed
  <2>2. PICK j \in DOMAIN r.predictions : p = r.predictions[j]
    BY DEF PredictionsOf
  <2>3. i = j
    BY <1>2, <2>1, <2>2 DEF Replayed
  <2>4. ValueOf(r, i, o) = ValueOf(r, s, o)
    <3>1. CASE i = s
      BY <3>1
    <3>2. CASE i # s
      BY <1>1, <1>5, <3>2, LeftAreEqual
    <3> QED BY <3>1, <3>2
  <2> HIDE DEF o
  <2>5. Gain(r.predictions[i], r.predictions[s], o) \in {0, Unknown}
    BY <1>1, <1>2, <2>4, GainOf
  <2> QED BY <1>1, <2>2, <2>3, <2>5 DEF o
<1> QED BY <1>1, <1>4, <1>5 DEF IsNoWorse

\* controlled_replay, of one record and one policy.
LEMMA ReplayIsSound ==
  ASSUME NEW r, IsMeasured(r), HasSelection(r), NEW policy \in Policies
  PROVE  Sound(r, policy, ControlledReplay(r, policy))
<1> SUFFICES ASSUME ControlledReplay(r, policy).ok
             PROVE  LET replay == ControlledReplay(r, policy) IN
                    /\ IsUndominated(r, policy, replay)
                    /\ FailsClosed(r, policy, replay) /\ IsNoWorse(r, policy, replay)
  BY DEF Sound
<1>1. PICK replay : replay = ControlledReplay(r, policy)
  OBVIOUS
<1>2. PICK m, left, s : Replayed(r, policy, replay, m, left, s)
  BY <1>1, ReplayIs
<1>3. SelectedPrediction(r) \in PredictionsOf(r)
  BY SelectionExists
<1> QED BY <1>1, <1>2, <1>3, SelectionIsUndominated, SelectionFailsClosed, SelectionIsNoWorse

(***************************************************************************)
(* The records                                                             *)
(***************************************************************************)

\* What other controllers record is measured by assumption, a plan because the
\* model predicts numbers.
MeasureInv ==
    /\ StoresHold /\ WorkHolds /\ IsSeq(journal)
    /\ \A r \in Recorded : IsMeasured(r) /\ HasSelection(r)

LEMMA MeasureInit == Init => MeasureInv
<1> SUFFICES ASSUME Init PROVE MeasureInv  OBVIOUS
<1>1. Recorded = {} /\ IsSeq(journal)
  BY EmptyIsSeq DEF Init, JournalInit, Recorded
<1>2. WorkHolds
  BY DEF Init, Idle, WorkHolds
<1> QED BY <1>1, <1>2, StoresInit DEF MeasureInv

\* record_decision has looked for the selection.
LEMMA MeasuredJoins ==
  ASSUME MeasureInv, NEW b, IsMeasured(b), RecordDecision(b)
  PROVE  IsSeq(journal') /\ \A r \in Recorded' : IsMeasured(r) /\ HasSelection(r)
<1>1. CASE ~ AcceptsBundle(b)
  BY <1>1 DEF RecordDecision, Recorded, MeasureInv
<1>2. CASE AcceptsBundle(b)
  <2>1. journal' = Append(journal, b) /\ HasSelection(b)
    BY <1>2 DEF RecordDecision, AcceptsBundle
  <2>2. /\ Len(journal) \in Nat /\ DOMAIN journal = 1..Len(journal)
        /\ IsSeq(journal') /\ DOMAIN journal' = 1..(Len(journal) + 1)
        /\ \A i \in 1..Len(journal) : journal'[i] = journal[i]
        /\ journal'[Len(journal) + 1] = b
    BY <2>1, AppendToSeq DEF MeasureInv
  <2>3. Recorded' = Recorded \cup {b}
    BY <2>2 DEF Recorded
  <2> QED BY <2>1, <2>2, <2>3 DEF MeasureInv
<1> QED BY <1>1, <1>2

\* The steps that reach the journal.
LEMMA JournalMoves ==
  ASSUME [Next]_vars
  PROVE  \/ UNCHANGED journalVars
         \/ \E b \in Bundles : RecordDecision(b)
         \/ \E o \in Outcomes : RecordOutcome(o)
         \/ \E t \in Threads : \E i : Decide(t, i)
<1>1. ASSUME NEW t \in Threads, NEW r, NEW token,
             \/ Begin(t, r, token) \/ RefuseRequest(t) \/ ValidateOwnership(t)
             \/ PredictNext(t) \/ LoseSnapshot(t)
      PROVE  UNCHANGED journalVars
  BY <1>1 DEF Begin, RefuseRequest, ValidateOwnership, PredictNext, LoseSnapshot, Abandon
<1>2. ASSUME NEW o, TakeSnapshot(o) \/ ChangeOwner(o) PROVE UNCHANGED journalVars
  BY <1>2 DEF TakeSnapshot, ChangeOwner
<1>3. ASSUME NEW v, NEW runs, NEW replace, RegisterModel(v, runs, replace)
      PROVE  UNCHANGED journalVars
  BY <1>3 DEF RegisterModel
<1>4. CASE UNCHANGED vars
  BY <1>4 DEF vars
<1>5. Next => JournalNext \/ UNCHANGED journalVars \/ \E t \in Threads : \E i : Decide(t, i)
  BY <1>1, <1>2, <1>3 DEF Next
<1> QED BY <1>4, <1>5 DEF JournalNext

\* Each step keeps what is recorded measured.
LEMMA MeasureStep == MeasureInv /\ [Next]_vars => MeasureInv'
<1> SUFFICES ASSUME MeasureInv, [Next]_vars PROVE MeasureInv'  OBVIOUS
<1>1. StoresHold' /\ StoresGrow
  BY StoresStep DEF MeasureInv
<1>2. WorkHolds'
  BY <1>1, WorkStep DEF MeasureInv
<1> DEFINE Holds == IsSeq(journal') /\ \A r \in Recorded' : IsMeasured(r) /\ HasSelection(r)
<1>3. ASSUME journal' = journal PROVE Holds
  BY <1>3 DEF Recorded, MeasureInv
<1>4. ASSUME NEW t \in Threads, NEW i, Decide(t, i) PROVE Holds
  <2>1. PICK w : w = work[t]
    OBVIOUS
  <2>2. /\ w.stage = "predicting" /\ Len(w.predictions) = Len(w.candidates)
        /\ RecordDecision(PlanBundle(w, i))
    BY <1>4, <2>1 DEF Decide
  <2>3. StoresHold /\ IsPlanning(w)
    BY <2>1, <2>2 DEF MeasureInv, WorkHolds
  <2>4. PlanBundle(w, i).predictions = w.predictions
    BY DEF PlanBundle
  <2>5. IsMeasured(PlanBundle(w, i))
    BY <2>2, <2>3, <2>4, PlanIsFounded DEF IsMeasured
  <2> QED BY <2>2, <2>5, MeasuredJoins
<1>5. ASSUME NEW b \in Bundles, RecordDecision(b) PROVE Holds
  BY <1>5, BundlesAreMeasured, MeasuredJoins
<1>6. Holds
  <2> HIDE DEF Holds
  <2>1. ASSUME NEW o, RecordOutcome(o) PROVE journal' = journal
    BY <2>1 DEF RecordOutcome
  <2> QED BY <1>3, <1>4, <1>5, <2>1, JournalMoves DEF journalVars
<1> QED BY <1>1, <1>2, <1>6 DEF MeasureInv

\* controlled_replay: of every record in the journal, whoever recorded it and
\* whatever the policy, its tolerances, limits and the order of its objectives: the
\* selection is open to the policy and known; for the first objective it is not
\* worse than the recorded choice, beyond the tolerance; and without tolerances no
\* candidate that the limits leave is known to be better.
THEOREM ReplaysHold == Spec => []ReplaysAreSound
<1>1. MeasureInv => ReplaysAreSound
  BY ReplayIsSound DEF MeasureInv, ReplaysAreSound
<1> QED BY <1>1, MeasureInit, MeasureStep, PTL DEF Spec

(***************************************************************************)
(* Sums                                                                    *)
(***************************************************************************)

\* A part of a finite set is finite, and one smaller without one of its members.
LEMMA OneLess ==
  ASSUME NEW S, IsFiniteSet(S), NEW s \in SUBSET S
  PROVE  /\ IsFiniteSet(s) /\ Cardinality(s) \in 0..Cardinality(S)
         /\ Cardinality(s) = 0 <=> s = {}
         /\ \A x \in s : Cardinality(s \ {x}) = Cardinality(s) - 1
<1>1. IsFiniteSet(s) /\ Cardinality(s) <= Cardinality(S)
  BY FS_Subset
<1>2. Cardinality(s) \in Nat /\ Cardinality(S) \in Nat
  BY <1>1, FS_CardinalityType
<1>3. Cardinality(s) = 0 <=> s = {}
  BY <1>1, FS_EmptySet
<1>4. \A x \in s : Cardinality(s \ {x}) = Cardinality(s) - 1
  BY <1>1, FS_RemoveElement
<1> QED BY <1>1, <1>2, <1>3, <1>4

\* Induction over the subsets of a finite set, by their size.
LEMMA BySize ==
  ASSUME NEW S, IsFiniteSet(S), NEW good, {} \in good,
         \A s \in SUBSET S : s # {} /\ (\A x \in s : s \ {x} \in good) => s \in good
  PROVE  \A s \in SUBSET S : s \in good
<1> DEFINE m == Cardinality(S)
           sizes == {n \in 0..m : \A s \in SUBSET S : Cardinality(s) = n => s \in good}
<1>1. m \in Nat
  BY FS_CardinalityType
<1>2. 0 \in sizes
  <2>1. \A s \in SUBSET S : Cardinality(s) = 0 => s = {}
    BY OneLess
  <2>2. 0 \in 0..m
    BY <1>1
  <2>3. \A s \in SUBSET S : Cardinality(s) = 0 => s \in good
    BY <2>1
  <2> QED BY <2>2, <2>3
<1>3. ASSUME NEW n \in 1..m, n - 1 \in sizes PROVE n \in sizes
  <2> SUFFICES ASSUME NEW s \in SUBSET S, Cardinality(s) = n PROVE s \in good
    BY <1>1
  <2>1. s # {} /\ \A x \in s : Cardinality(s \ {x}) = n - 1 /\ s \ {x} \in SUBSET S
    BY <1>1, OneLess
  <2> QED BY <1>3, <2>1
<1>4. \A n \in 0..m : n \in sizes
  <2> HIDE DEF sizes, m
  <2>1. \A n \in 1..m : n - 1 \in sizes => n \in sizes
    BY <1>3
  <2> QED BY <1>1, <1>2, <2>1, UpTo
<1>5. \A s \in SUBSET S : Cardinality(s) \in 0..m
  BY OneLess
<1> QED BY <1>4, <1>5

AnyOf(s) == CHOOSE x \in s : TRUE

\* F has the sum of f over every part of S.
SumsUp(F, f, S) ==
    \A s \in SUBSET S : F[s] = IF s = {} THEN 0 ELSE f[AnyOf(s)] + F[s \ {AnyOf(s)}]

\* Recursion over the parts of a finite set: such a function exists.
LEMMA SumsExist ==
  ASSUME NEW S, IsFiniteSet(S), NEW f
  PROVE  \E F : SumsUp(F, f, S)
<1> DEFINE m == Cardinality(S)
           One(F, s) == IF s = {} THEN 0 ELSE f[AnyOf(s)] + F[s \ {AnyOf(s)}]
           done == {n \in 0..m : \E F : \A s \in SUBSET S : Cardinality(s) <= n => F[s] = One(F, s)}
<1>1. m \in Nat
  BY FS_CardinalityType
<1>2. \A s \in SUBSET S : s # {} => AnyOf(s) \in s
  BY DEF AnyOf
<1>3. 0 \in done
  <2>1. PICK F : F = [s \in SUBSET S |-> 0]
    OBVIOUS
  <2>2. ASSUME NEW s \in SUBSET S, Cardinality(s) <= 0 PROVE F[s] = One(F, s)
    <3>1. s = {}
      BY <1>1, <2>2, OneLess
    <3> QED BY <2>1, <3>1
  <2>3. 0 \in 0..m
    BY <1>1
  <2>4. \E H : \A s \in SUBSET S : Cardinality(s) <= 0 => H[s] = One(H, s)
    BY <2>2
  <2> HIDE DEF m, One
  <2> QED BY <2>3, <2>4
<1>4. ASSUME NEW n \in 1..m, n - 1 \in done PROVE n \in done
  <2>1. PICK F : \A s \in SUBSET S : Cardinality(s) <= n - 1 => F[s] = One(F, s)
    BY <1>4
  <2>2. PICK G : G = [s \in SUBSET S |-> IF Cardinality(s) <= n - 1 THEN F[s] ELSE One(F, s)]
    OBVIOUS
  <2>3. ASSUME NEW s \in SUBSET S, Cardinality(s) <= n PROVE G[s] = One(G, s)
    <3>1. G[s] = One(F, s)
      BY <2>1, <2>2
    <3>2. CASE s = {}
      BY <3>1, <3>2
    <3>3. CASE s # {}
      <4>1. PICK x \in s : x = AnyOf(s)
        BY <1>2, <3>3
      <4>2. s \ {x} \in SUBSET S /\ Cardinality(s \ {x}) = Cardinality(s) - 1
        BY OneLess
      <4>3. Cardinality(s \ {x}) <= n - 1
        BY <1>1, <2>3, <4>2, OneLess
      <4>4. G[s \ {x}] = F[s \ {x}]
        BY <2>2, <4>2, <4>3
      <4> QED BY <3>1, <4>1, <4>4
    <3> QED BY <3>2, <3>3
  <2>4. n \in 0..m
    BY <1>1
  <2>5. \E H : \A s \in SUBSET S : Cardinality(s) <= n => H[s] = One(H, s)
    BY <2>3
  <2> HIDE DEF m, One
  <2> QED BY <2>4, <2>5
<1>5. \A n \in 0..m : n \in done
  <2> HIDE DEF done, m
  <2>1. \A n \in 1..m : n - 1 \in done => n \in done
    BY <1>4
  <2> QED BY <1>1, <1>3, <2>1, UpTo
<1>6. PICK F : \A s \in SUBSET S : Cardinality(s) <= m => F[s] = One(F, s)
  <2>1. m \in done
    <3> HIDE DEF done, m
    <3> QED BY <1>1, <1>5
  <2> QED BY <2>1
<1>7. \A s \in SUBSET S : Cardinality(s) <= m
  BY <1>1, OneLess
<1> QED BY <1>6, <1>7 DEF SumsUp

\* What the library computes is such a sum.
LEMMA SumIs ==
  ASSUME NEW S, IsFiniteSet(S), NEW f
  PROVE  \E F : SumsUp(F, f, S) /\ SumFunctionOnSet(f, S) = F[S]
<1> DEFINE One(F, s) == IF s = {} THEN 0 ELSE f[AnyOf(s)] + F[s \ {AnyOf(s)}]
<1>1. PICK F : SumsUp(F, f, S)
  BY SumsExist
<1> DEFINE G == [s \in SUBSET S |-> F[s]]
<1>2. G = [s \in SUBSET S |-> One(G, s)]
  <2>1. \A s \in SUBSET S : G[s] = F[s] /\ G[s \ {AnyOf(s)}] = F[s \ {AnyOf(s)}]
    OBVIOUS
  <2>2. \A s \in SUBSET S : F[s] = One(F, s)
    BY <1>1 DEF SumsUp
  <2>3. \A s \in SUBSET S : F[s] = One(G, s)
    BY <2>1, <2>2
  <2> QED BY <2>3
<1>3. SumFunctionOnSet(f, S) = (CHOOSE H : H = [s \in SUBSET S |-> One(H, s)])[S]
  BY Zenon DEF SumFunctionOnSet, FoldFunctionOnSet, MapThenFoldSet, AnyOf
<1>4. PICK H : H = [s \in SUBSET S |-> One(H, s)] /\ SumFunctionOnSet(f, S) = H[S]
  <2> HIDE DEF G, One
  <2> QED BY <1>2, <1>3
<1>5. SumsUp(H, f, S)
  BY <1>4 DEF SumsUp
<1> QED BY <1>4, <1>5

\* Sums of equal values are equal.
LEMMA SumsAgree ==
  ASSUME NEW S, IsFiniteSet(S), NEW f, NEW g, \A x \in S : f[x] = g[x],
         NEW F, SumsUp(F, f, S), NEW G, SumsUp(G, g, S)
  PROVE  \A s \in SUBSET S : F[s] = G[s]
<1> DEFINE good == {s \in SUBSET S : F[s] = G[s]}
<1>1. {} \in good
  BY DEF SumsUp
<1>2. ASSUME NEW s \in SUBSET S, s # {}, \A x \in s : s \ {x} \in good PROVE s \in good
  <2>1. PICK x \in s : x = AnyOf(s)
    BY <1>2 DEF AnyOf
  <2>2. F[s] = f[x] + F[s \ {x}] /\ G[s] = g[x] + G[s \ {x}]
    BY <1>2, <2>1 DEF SumsUp
  <2> QED BY <1>2, <2>2
<1>3. \A s \in SUBSET S : s \in good
  <2> HIDE DEF good
  <2> QED BY <1>1, <1>2, BySize
<1> QED BY <1>3

\* Sums of numbers are numbers.
LEMMA SumsAreNumbers ==
  ASSUME NEW S, IsFiniteSet(S), NEW f, \A x \in S : f[x] \in Int, NEW F, SumsUp(F, f, S)
  PROVE  \A s \in SUBSET S : F[s] \in Int
<1> DEFINE good == {s \in SUBSET S : F[s] \in Int}
<1>1. {} \in good
  BY DEF SumsUp
<1>2. ASSUME NEW s \in SUBSET S, s # {}, \A x \in s : s \ {x} \in good PROVE s \in good
  <2>1. PICK y \in s : y = AnyOf(s)
    BY <1>2 DEF AnyOf
  <2>2. F[s] = f[y] + F[s \ {y}] /\ F[s \ {y}] \in Int
    BY <1>2, <2>1 DEF SumsUp
  <2> QED BY <2>2
<1>3. \A s \in SUBSET S : s \in good
  <2> HIDE DEF good
  <2> QED BY <1>1, <1>2, BySize
<1> QED BY <1>3

\* Any member may be added last.
LEMMA AnyIsLast ==
  ASSUME NEW S, IsFiniteSet(S), NEW f, \A x \in S : f[x] \in Int, NEW F, SumsUp(F, f, S)
  PROVE  \A s \in SUBSET S : \A x \in s : F[s] = f[x] + F[s \ {x}]
<1> DEFINE good == {s \in SUBSET S : \A x \in s : F[s] = f[x] + F[s \ {x}]}
<1>1. {} \in good
  OBVIOUS
<1>2. ASSUME NEW s \in SUBSET S, s # {}, \A x \in s : s \ {x} \in good PROVE s \in good
  <2>1. PICK y \in s : y = AnyOf(s)
    BY <1>2 DEF AnyOf
  <2>2. F[s] = f[y] + F[s \ {y}]
    BY <1>2, <2>1 DEF SumsUp
  <2>3. ASSUME NEW x \in s, x # y PROVE F[s] = f[x] + F[s \ {x}]
    <3>1. PICK rest \in SUBSET S : rest = (s \ {y}) \ {x}
      OBVIOUS
    <3>2. rest = (s \ {x}) \ {y}
      BY <3>1
    <3>3. F[s \ {y}] = f[x] + F[rest]
      <4>1. x \in s \ {y} /\ s \ {y} \in good
        BY <1>2, <2>3
      <4> QED BY <3>1, <4>1
    <3>4. F[s \ {x}] = f[y] + F[rest]
      <4>1. y \in s \ {x} /\ s \ {x} \in good
        BY <1>2, <2>3
      <4> QED BY <3>2, <4>1
    <3>5. F[rest] \in Int
      BY SumsAreNumbers
    <3> QED BY <2>2, <3>3, <3>4, <3>5
  <2> QED BY <2>2, <2>3
<1>3. \A s \in SUBSET S : s \in good
  <2> HIDE DEF good
  <2> QED BY <1>1, <1>2, BySize
<1> QED BY <1>3

\* A new member adds its value to the sum.
LEMMA SumAdds ==
  ASSUME NEW S, IsFiniteSet(S), NEW x, x \notin S, NEW f, \A y \in S \cup {x} : f[y] \in Int
  PROVE  /\ SumFunctionOnSet(f, S) \in Int
         /\ SumFunctionOnSet(f, S \cup {x}) = f[x] + SumFunctionOnSet(f, S)
<1> DEFINE T == S \cup {x}
<1>1. IsFiniteSet(T)
  BY FS_AddElement
<1>2. PICK F : SumsUp(F, f, T) /\ SumFunctionOnSet(f, T) = F[T]
  <2> HIDE DEF T
  <2> QED BY <1>1, SumIs
<1>3. PICK G : SumsUp(G, f, S) /\ SumFunctionOnSet(f, S) = G[S]
  BY SumIs
<1>4. SumsUp(F, f, S)
  BY <1>2 DEF SumsUp
<1>5. F[S] = G[S]
  BY <1>3, <1>4, SumsAgree
<1>6. \A y \in T : f[y] \in Int
  OBVIOUS
<1>7. T \in SUBSET T /\ S \in SUBSET T /\ x \in T /\ T \ {x} = S
  OBVIOUS
<1> HIDE DEF T
<1>8. F[S] \in Int /\ F[T] = f[x] + F[T \ {x}]
  BY <1>1, <1>2, <1>4, <1>6, <1>7, AnyIsLast, SumsAreNumbers
<1> QED BY <1>2, <1>3, <1>5, <1>7, <1>8 DEF T

\* Of nothing, the sum is zero.
LEMMA SumOfNone ==
  ASSUME NEW f
  PROVE  SumFunctionOnSet(f, {}) = 0
<1>1. IsFiniteSet({})
  BY FS_EmptySet
<1>2. PICK F : SumsUp(F, f, {}) /\ SumFunctionOnSet(f, {}) = F[{}]
  BY <1>1, SumIs
<1> QED BY <1>2 DEF SumsUp

\* The sum depends on the values it adds only.
LEMMA SumOfSame ==
  ASSUME NEW S, IsFiniteSet(S), NEW f, NEW g, \A x \in S : f[x] = g[x]
  PROVE  SumFunctionOnSet(f, S) = SumFunctionOnSet(g, S)
<1>1. PICK F : SumsUp(F, f, S) /\ SumFunctionOnSet(f, S) = F[S]
  BY SumIs
<1>2. PICK G : SumsUp(G, g, S) /\ SumFunctionOnSet(g, S) = G[S]
  BY SumIs
<1> QED BY <1>1, <1>2, SumsAgree

\* Induction over a finite set, one member at a time.
LEMMA ByAdding ==
  ASSUME NEW S, IsFiniteSet(S), NEW good, {} \in good,
         \A s \in SUBSET S : \A x \in S \ s : s \in good => s \cup {x} \in good
  PROVE  S \in good
<1>1. ASSUME NEW s \in SUBSET S, s # {}, \A x \in s : s \ {x} \in good PROVE s \in good
  <2>1. PICK x \in s : TRUE
    BY <1>1
  <2>2. PICK rest \in SUBSET S : rest = s \ {x}
    OBVIOUS
  <2>3. x \in S \ rest /\ rest \cup {x} = s
    BY <2>2
  <2>4. rest \in good
    BY <1>1, <2>2
  <2> QED BY <2>3, <2>4
<1> QED BY <1>1, BySize

MoreBy(f, g, S, x) ==
    /\ DOMAIN f = S \cup {x} /\ DOMAIN g = S /\ x \notin S
    /\ \A y \in S \cup {x} : f[y] \in Int
    /\ \A y \in S : g[y] = f[y]

\* A function with one argument more adds its value there.
LEMMA SumOfMore ==
  ASSUME NEW S, IsFiniteSet(S), NEW x, NEW f, NEW g, MoreBy(f, g, S, x)
  PROVE  SumFunction(g) \in Int /\ SumFunction(f) = f[x] + SumFunction(g)
<1> USE DEF MoreBy
<1>1. SumFunctionOnSet(f, S) = SumFunctionOnSet(g, S)
  BY SumOfSame
<1>2. /\ SumFunctionOnSet(f, S) \in Int
      /\ SumFunctionOnSet(f, S \cup {x}) = f[x] + SumFunctionOnSet(f, S)
  BY SumAdds
<1>3. SumFunction(f) = SumFunctionOnSet(f, S \cup {x}) /\ SumFunction(g) = SumFunctionOnSet(g, S)
  BY DEF SumFunction
<1> QED BY <1>1, <1>2, <1>3

\* The sum of a function into the numbers is one.
LEMMA SumIsNumber ==
  ASSUME NEW S, IsFiniteSet(S), NEW f, DOMAIN f = S, \A y \in S : f[y] \in Int
  PROVE  SumFunction(f) \in Int
<1>1. PICK F : SumsUp(F, f, S) /\ SumFunctionOnSet(f, S) = F[S]
  BY SumIs
<1>2. F[S] \in Int
  BY <1>1, SumsAreNumbers
<1> QED BY <1>1, <1>2 DEF SumFunction

DifferAt(f, g, S, j) ==
    /\ DOMAIN f = S /\ DOMAIN g = S /\ j \in S
    /\ \A y \in S : f[y] \in Int /\ g[y] \in Int /\ (y # j => f[y] = g[y])

\* Where one value changes, the sum changes by as much.
LEMMA SumChanges ==
  ASSUME NEW S, IsFiniteSet(S), NEW j, NEW f, NEW g, DifferAt(f, g, S, j)
  PROVE  /\ SumFunction(f) \in Int /\ SumFunction(g) \in Int
         /\ SumFunction(f) = SumFunction(g) + f[j] - g[j]
<1> USE DEF DifferAt
<1>1. PICK rest : rest = S \ {j} /\ IsFiniteSet(rest)
  BY FS_RemoveElement
<1>2. rest \cup {j} = S /\ j \notin rest
  BY <1>1
<1>3. \A y \in rest : f[y] \in Int /\ g[y] \in Int /\ f[y] = g[y]
  BY <1>1
<1>4. SumFunctionOnSet(f, rest) = SumFunctionOnSet(g, rest)
  BY <1>1, <1>3, SumOfSame
<1>5. SumFunctionOnSet(f, rest) \in Int /\ SumFunctionOnSet(f, S) = f[j] + SumFunctionOnSet(f, rest)
  <2>1. \A y \in rest \cup {j} : f[y] \in Int
    BY <1>2
  <2> QED BY <1>1, <1>2, <2>1, SumAdds
<1>6. SumFunctionOnSet(g, S) = g[j] + SumFunctionOnSet(g, rest)
  <2>1. \A y \in rest \cup {j} : g[y] \in Int
    BY <1>2
  <2> QED BY <1>1, <1>2, <2>1, SumAdds
<1>7. SumFunction(f) = SumFunctionOnSet(f, S) /\ SumFunction(g) = SumFunctionOnSet(g, S)
  BY DEF SumFunction
<1> QED BY <1>4, <1>5, <1>6, <1>7

\* Zeros add up to zero.
LEMMA SumOfZeros ==
  ASSUME NEW S, IsFiniteSet(S), NEW f, DOMAIN f = S, \A x \in S : f[x] = 0
  PROVE  SumFunction(f) = 0
<1> DEFINE good == {s \in SUBSET S : SumFunctionOnSet(f, s) = 0}
<1>1. {} \in good
  BY SumOfNone
<1>2. ASSUME NEW s \in SUBSET S, NEW x \in S \ s, s \in good PROVE s \cup {x} \in good
  <2>1. IsFiniteSet(s) /\ \A y \in s \cup {x} : f[y] \in Int
    BY FS_Subset
  <2>2. SumFunctionOnSet(f, s \cup {x}) = f[x] + SumFunctionOnSet(f, s)
    BY <2>1, SumAdds
  <2> QED BY <1>2, <2>2
<1>3. S \in good
  <2> HIDE DEF good
  <2> QED BY <1>1, <1>2, ByAdding
<1> QED BY <1>3 DEF SumFunction

(***************************************************************************)
(* Reports                                                                 *)
(***************************************************************************)

\* What build_feedback leaves in an entry of the report.
Scored(e) ==
    LET f == e.feedback
        o == e.feedback.outcome
        p == e.prediction
    IN  /\ f.latencyError # Unknown <=> o.latency # Unknown /\ p.e2e # Unknown
        /\ f.costError # Unknown <=> o.cost # Unknown /\ p.cost # Unknown
        /\ f.calibration # Unknown <=> o.success # Unknown /\ p.success # Unknown
        /\ f.latencyPercent # Unknown => f.latencyError # Unknown
        /\ f.costPercent # Unknown => f.costError # Unknown
        /\ f.calibration # Unknown =>
              f.calibration.probability \in 0..100 /\ f.calibration.observed \in Int

\* build_feedback, of an outcome that it does not refuse.
LEMMA FeedbackIsScored ==
  ASSUME NEW r, NEW o \in Outcomes, Measures(SelectedPrediction(r)) \subseteq Int \cup {Unknown},
         Scorable(SelectedPrediction(r), o)
  PROVE  Scored(Entry(r, o))
<1> DEFINE p == SelectedPrediction(r)
           f == Feedback(r.decision, p, o)
<1>1. Entry(r, o).prediction = p /\ Entry(r, o).feedback = f
  BY DEF Entry
<1>2. /\ f.outcome = o
      /\ f.latencyError = AbsoluteError(p.e2e, o.latency)
      /\ f.latencyPercent = RelativeError(p.e2e, o.latency)
      /\ f.costError = AbsoluteError(p.cost, o.cost)
      /\ f.costPercent = RelativeError(p.cost, o.cost)
      /\ f.calibration = CalibrationSample(p, o)
  BY DEF Feedback
<1>3. {p.e2e, p.cost, p.success, o.latency, o.cost} \subseteq Int \cup {Unknown}
      /\ o.success \in {0, 100, Unknown} /\ Scorable(p, o)
  BY OutcomesAreMeasured DEF Measures
<1> HIDE DEF p, f
<1>4. ASSUME NEW x \in Int \cup {Unknown}, NEW y \in Int \cup {Unknown}
      PROVE  /\ AbsoluteError(x, y) # Unknown <=> x # Unknown /\ y # Unknown
             /\ RelativeError(x, y) # Unknown => AbsoluteError(x, y) # Unknown
  BY UnknownIsNoNumber DEF AbsoluteError, RelativeError, Distance
<1>5. /\ f.latencyError # Unknown <=> o.latency # Unknown /\ p.e2e # Unknown
      /\ f.latencyPercent # Unknown => f.latencyError # Unknown
  BY <1>2, <1>3, <1>4
<1>6. /\ f.costError # Unknown <=> o.cost # Unknown /\ p.cost # Unknown
      /\ f.costPercent # Unknown => f.costError # Unknown
  <2>1. p.cost \in Int \cup {Unknown} /\ o.cost \in Int \cup {Unknown}
    BY <1>3
  <2>2. /\ AbsoluteError(p.cost, o.cost) # Unknown <=> p.cost # Unknown /\ o.cost # Unknown
        /\ RelativeError(p.cost, o.cost) # Unknown => AbsoluteError(p.cost, o.cost) # Unknown
    BY <1>4, <2>1
  <2> QED BY <1>2, <2>2
<1>7. /\ f.calibration # Unknown <=> o.success # Unknown /\ p.success # Unknown
      /\ f.calibration # Unknown =>
              f.calibration.probability \in 0..100 /\ f.calibration.observed \in Int
  <2>1. CASE o.success = Unknown \/ p.success = Unknown
    <3>1. CalibrationSample(p, o) = Unknown
      BY <2>1 DEF CalibrationSample
    <3> QED BY <1>2, <2>1, <3>1
  <2>2. CASE o.success # Unknown /\ p.success # Unknown
    <3>1. p.success \in 0..100 /\ o.success \in Int
      BY <1>3, <2>2 DEF Scorable
    <3>2. /\ CalibrationSample(p, o) \in [probability : Int, observed : Int]
          /\ CalibrationSample(p, o).probability = p.success
          /\ CalibrationSample(p, o).observed = o.success
      BY <2>2, <3>1 DEF CalibrationSample
    <3>3. CalibrationSample(p, o) # Unknown
      BY <3>2, UnknownIsNoSample
    <3> QED BY <1>2, <2>2, <3>1, <3>2, <3>3
  <2> QED BY <2>1, <2>2
<1>8. PICK e : e = Entry(r, o)
  OBVIOUS
<1>9. e.prediction = p /\ e.feedback = f /\ e.feedback.outcome = o
  BY <1>1, <1>2, <1>8
<1>10. Scored(e)
  BY <1>5, <1>6, <1>7, <1>9 DEF Scored
<1> QED BY <1>8, <1>10

\* The upper bound of the scale falls in the last bin, not beyond it.
LEMMA BinIsThere ==
  ASSUME NEW p \in 0..100
  PROVE  Bin(p) \in 0..BinCount - 1
<1>1. PICK x : x = p * BinCount
  OBVIOUS
<1>2. x \in Nat
  BY <1>1, BinsExist
<1>3. x \div 100 \in Nat
  BY <1>2
<1>4. PICK q \in Nat : q = x \div 100
  BY <1>3
<1>5. Bin(p) = IF q > BinCount - 1 THEN BinCount - 1 ELSE q
  BY <1>1, <1>4 DEF Bin
<1> QED BY <1>4, <1>5, BinsExist

\* A new entry without a sample leaves the bins alone.
LEMMA JoinsNoBin ==
  ASSUME NEW E, NEW x, x.feedback.calibration = Unknown
  PROVE  /\ SuccessSamples(E \cup {x}) = SuccessSamples(E)
         /\ \A i : InBin(E \cup {x}, i) = InBin(E, i)
<1>1. SuccessSamples(E \cup {x}) = SuccessSamples(E)
  BY DEF SuccessSamples
<1> QED BY <1>1 DEF InBin

\* A new entry with a sample joins the one bin of its probability.
JoinsOnly(E, x, j) ==
    /\ InBin(E \cup {x}, j) = InBin(E, j) \cup {x}
    /\ \A i : i # j => InBin(E \cup {x}, i) = InBin(E, i)

LEMMA JoinsOneBin ==
  ASSUME NEW E, NEW x, Scored(x), x.feedback.calibration # Unknown
  PROVE  /\ SuccessSamples(E \cup {x}) = SuccessSamples(E) \cup {x}
         /\ \E j \in 0..BinCount - 1 : JoinsOnly(E, x, j)
<1>1. SuccessSamples(E \cup {x}) = SuccessSamples(E) \cup {x}
  BY DEF SuccessSamples
<1>2. PICK j \in 0..BinCount - 1 : j = Bin(x.feedback.calibration.probability)
  BY BinIsThere DEF Scored
<1>3. InBin(E \cup {x}, j) = InBin(E, j) \cup {x}
  BY <1>1, <1>2 DEF InBin
<1>4. ASSUME NEW i, i # j PROVE InBin(E \cup {x}, i) = InBin(E, i)
  BY <1>1, <1>2, <1>4 DEF InBin
<1> QED BY <1>1, <1>3, <1>4 DEF JoinsOnly

\* Samples and bins are finite parts of the entries.
LEMMA PartsAreFinite ==
  ASSUME NEW E, IsFiniteSet(E)
  PROVE  /\ SuccessSamples(E) \subseteq E /\ IsFiniteSet(SuccessSamples(E))
         /\ Cardinality(SuccessSamples(E)) \in Nat
         /\ \A i : /\ InBin(E, i) \subseteq SuccessSamples(E) /\ IsFiniteSet(InBin(E, i))
                   /\ Cardinality(InBin(E, i)) \in Nat
<1>1. SuccessSamples(E) \subseteq E
  BY DEF SuccessSamples
<1>2. IsFiniteSet(SuccessSamples(E)) /\ Cardinality(SuccessSamples(E)) \in Nat
  BY <1>1, FS_Subset, FS_CardinalityType
<1>3. ASSUME NEW i
      PROVE  /\ InBin(E, i) \subseteq SuccessSamples(E) /\ IsFiniteSet(InBin(E, i))
             /\ Cardinality(InBin(E, i)) \in Nat
  <2>1. InBin(E, i) \subseteq SuccessSamples(E)
    BY DEF InBin
  <2> QED BY <1>2, <2>1, FS_Subset, FS_CardinalityType
<1> QED BY <1>1, <1>2, <1>3

\* There are finitely many bins.
LEMMA BinsAreFinite == IsFiniteSet(0..BinCount - 1)
  BY BinsExist, FS_Interval

BinSizes(E) == [i \in 0..BinCount - 1 |-> Cardinality(InBin(E, i))]

\* Every sample is in one bin.
LEMMA BinsAddUp ==
  ASSUME NEW S, IsFiniteSet(S), \A e \in S : Scored(e)
  PROVE  SumFunction(BinSizes(S)) = Cardinality(SuccessSamples(S))
<1> DEFINE good == {E \in SUBSET S : SumFunction(BinSizes(E)) = Cardinality(SuccessSamples(E))}
<1>1. {} \in good
  <2>1. SuccessSamples({}) = {} /\ \A i : InBin({}, i) = {}
    BY DEF SuccessSamples, InBin
  <2>2. Cardinality({}) = 0
    BY FS_EmptySet
  <2>3. SumFunction(BinSizes({})) = 0
    <3>1. DOMAIN BinSizes({}) = 0..BinCount - 1 /\ \A i \in 0..BinCount - 1 : BinSizes({})[i] = 0
      BY <2>1, <2>2 DEF BinSizes
    <3> QED BY <3>1, BinsAreFinite, SumOfZeros
  <2> QED BY <2>1, <2>2, <2>3
<1>2. ASSUME NEW E \in SUBSET S, NEW x \in S \ E, E \in good PROVE E \cup {x} \in good
  <2>1. PICK T \in SUBSET S : T = E \cup {x}
    OBVIOUS
  <2>2. IsFiniteSet(E) /\ IsFiniteSet(T)
    BY FS_Subset
  <2>3. SumFunction(BinSizes(E)) = Cardinality(SuccessSamples(E))
    BY <1>2
  <2>4. CASE x.feedback.calibration = Unknown
    <3>1. SuccessSamples(T) = SuccessSamples(E) /\ \A i : InBin(T, i) = InBin(E, i)
      BY <2>1, <2>4, JoinsNoBin
    <3>2. BinSizes(T) = BinSizes(E)
      BY <3>1 DEF BinSizes
    <3> QED BY <2>1, <2>3, <3>1, <3>2
  <2>5. CASE x.feedback.calibration # Unknown
    <3>1. SuccessSamples(T) = SuccessSamples(E) \cup {x}
      BY <2>1, <2>5, JoinsOneBin
    <3>2. PICK j \in 0..BinCount - 1 : JoinsOnly(E, x, j)
      BY <2>5, JoinsOneBin
    <3>21. InBin(T, j) = InBin(E, j) \cup {x} /\ \A i : i # j => InBin(T, i) = InBin(E, i)
      BY <2>1, <3>2 DEF JoinsOnly
    <3>3. x \notin SuccessSamples(E) /\ x \notin InBin(E, j)
      BY <2>2, PartsAreFinite
    <3>4. /\ Cardinality(SuccessSamples(T)) = Cardinality(SuccessSamples(E)) + 1
          /\ Cardinality(InBin(T, j)) = Cardinality(InBin(E, j)) + 1
      BY <2>2, <3>1, <3>21, <3>3, PartsAreFinite, FS_AddElement
    <3>5. PICK f, g, I : f = BinSizes(T) /\ g = BinSizes(E) /\ I = 0..BinCount - 1
      OBVIOUS
    <3>6. /\ DOMAIN f = I /\ DOMAIN g = I /\ IsFiniteSet(I) /\ j \in I
          /\ \A i \in I : f[i] = Cardinality(InBin(T, i)) /\ g[i] = Cardinality(InBin(E, i))
      BY <3>5, BinsAreFinite DEF BinSizes
    <3>7. \A i \in I : f[i] \in Int /\ g[i] \in Int /\ (i # j => f[i] = g[i])
      <4>1. ASSUME NEW i \in I PROVE f[i] \in Nat /\ g[i] \in Nat
        <5>1. Cardinality(InBin(T, i)) \in Nat /\ Cardinality(InBin(E, i)) \in Nat
          BY <2>2, PartsAreFinite
        <5> QED BY <3>6, <5>1
      <4> QED BY <3>21, <3>6, <4>1
    <3>8. SumFunction(g) \in Int /\ SumFunction(f) = SumFunction(g) + f[j] - g[j]
      <4>1. DifferAt(f, g, I, j)
        BY <3>6, <3>7 DEF DifferAt
      <4> QED BY <3>6, <4>1, SumChanges
    <3>9. f[j] = g[j] + 1 /\ g[j] \in Int
      BY <3>4, <3>6, <3>7
    <3>10. SumFunction(f) = SumFunction(g) + 1
      BY <3>8, <3>9
    <3> QED BY <2>1, <2>3, <3>4, <3>5, <3>10
  <2> QED BY <2>4, <2>5
<1>3. S \in good
  <2> HIDE DEF good
  <2> QED BY <1>1, <1>2, ByAdding
<1> QED BY <1>3

IsSample(e) ==
    e.feedback.calibration.probability \in Int /\ e.feedback.calibration.observed \in Int

\* The sums over a bin are numbers.
LEMMA SumsOfSamples ==
  ASSUME NEW T, IsFiniteSet(T), \A e \in T : IsSample(e)
  PROVE  SumOfConfidence(T) \in Int /\ SumOfSuccess(T) \in Int
<1> DEFINE f == [e \in T |-> e.feedback.calibration.probability]
           g == [e \in T |-> e.feedback.calibration.observed]
<1>1. DOMAIN f = T /\ \A y \in T : f[y] \in Int
  BY DEF IsSample
<1>2. DOMAIN g = T /\ \A y \in T : g[y] \in Int
  BY DEF IsSample
<1>3. SumOfConfidence(T) = SumFunction(f) /\ SumOfSuccess(T) = SumFunction(g)
  BY DEF SumOfConfidence, SumOfSuccess
<1> HIDE DEF f, g
<1>4. SumFunction(f) \in Int
  BY <1>1, SumIsNumber
<1>5. SumFunction(g) \in Int
  BY <1>2, SumIsNumber
<1> QED BY <1>3, <1>4, <1>5

\* A new sample adds its probability and its outcome.
LEMMA SamplesAdd ==
  ASSUME NEW T, IsFiniteSet(T), NEW x, x \notin T, \A e \in T \cup {x} : IsSample(e)
  PROVE  /\ SumOfConfidence(T \cup {x}) = x.feedback.calibration.probability + SumOfConfidence(T)
         /\ SumOfSuccess(T \cup {x}) = x.feedback.calibration.observed + SumOfSuccess(T)
<1>1. PICK U : U = T \cup {x}
  OBVIOUS
<1>2. SumOfConfidence(U) = x.feedback.calibration.probability + SumOfConfidence(T)
  <2>1. PICK f : f = [e \in U |-> e.feedback.calibration.probability]
    OBVIOUS
  <2>2. PICK g : g = [e \in T |-> e.feedback.calibration.probability]
    OBVIOUS
  <2>3. MoreBy(f, g, T, x) /\ f[x] = x.feedback.calibration.probability
    BY <1>1, <2>1, <2>2 DEF IsSample, MoreBy
  <2>4. SumFunction(f) = f[x] + SumFunction(g)
    BY <2>3, SumOfMore
  <2> QED BY <2>1, <2>2, <2>3, <2>4 DEF SumOfConfidence
<1>3. SumOfSuccess(U) = x.feedback.calibration.observed + SumOfSuccess(T)
  <2>1. PICK f : f = [e \in U |-> e.feedback.calibration.observed]
    OBVIOUS
  <2>2. PICK g : g = [e \in T |-> e.feedback.calibration.observed]
    OBVIOUS
  <2>3. MoreBy(f, g, T, x) /\ f[x] = x.feedback.calibration.observed
    BY <1>1, <2>1, <2>2 DEF IsSample, MoreBy
  <2>4. SumFunction(f) = f[x] + SumFunction(g)
    BY <2>3, SumOfMore
  <2> QED BY <2>1, <2>2, <2>3, <2>4 DEF SumOfSuccess
<1> QED BY <1>1, <1>2, <1>3

Gaps(E) == [i \in 0..BinCount - 1 |-> WeightedGap(E, i)]
Miss(e) == Distance(e.feedback.calibration.probability, e.feedback.calibration.observed)
Misses(E) == [e \in SuccessSamples(E) |-> Miss(e)]

\* The triangle inequality.
LEMMA DistanceAdds ==
  \A a, b, p, o \in Int :
     /\ Distance(a, b) \in Nat
     /\ Distance(p + a, o + b) <= Distance(a, b) + Distance(p, o)
  BY DEF Distance

\* The error of one case is a number.
LEMMA MissIsNumber ==
  ASSUME NEW e, IsSample(e)
  PROVE  Miss(e) \in Int
<1>1. PICK p, o \in Int :
         p = e.feedback.calibration.probability /\ o = e.feedback.calibration.observed
  BY DEF IsSample
<1> QED BY <1>1 DEF Miss, Distance

\* What counts as a sample has both its numbers.
LEMMA SamplesAreScored ==
  ASSUME NEW E, \A e \in E : Scored(e)
  PROVE  \A e \in SuccessSamples(E) : IsSample(e)
  BY DEF Scored, IsSample, SuccessSamples

\* The gap of a bin is a number.
LEMMA GapIsNumber ==
  ASSUME NEW E, IsFiniteSet(E), \A e \in E : Scored(e), NEW i
  PROVE  WeightedGap(E, i) \in Int
<1>1. IsFiniteSet(InBin(E, i)) /\ \A e \in InBin(E, i) : IsSample(e)
  BY PartsAreFinite, SamplesAreScored
<1>2. PICK T : T = InBin(E, i)
  OBVIOUS
<1>3. SumOfConfidence(T) \in Int /\ SumOfSuccess(T) \in Int
  BY <1>1, <1>2, SumsOfSamples
<1> QED BY <1>2, <1>3, DistanceAdds DEF WeightedGap

\* In bins, errors of opposite sign may cancel; they never grow.
LEMMA BinsAreNoWorse ==
  ASSUME NEW S, IsFiniteSet(S), \A e \in S : Scored(e)
  PROVE  SumFunction(Gaps(S)) <= SumFunction(Misses(S))
<1> DEFINE good == {E \in SUBSET S : SumFunction(Gaps(E)) <= SumFunction(Misses(E))}
<1>1. {} \in good
  <2>1. SuccessSamples({}) = {} /\ \A i : InBin({}, i) = {}
    BY DEF SuccessSamples, InBin
  <2>2. SumFunction(Misses({})) = 0
    <3>1. PICK f : f = Misses({})
      OBVIOUS
    <3>2. DOMAIN f = {}
      BY <2>1, <3>1 DEF Misses
    <3> QED BY <3>1, <3>2, SumOfNone DEF SumFunction
  <2>3. SumOfConfidence({}) = 0 /\ SumOfSuccess({}) = 0
    <3>1. DOMAIN [e \in {} |-> e.feedback.calibration.probability] = {}
          /\ DOMAIN [e \in {} |-> e.feedback.calibration.observed] = {}
      OBVIOUS
    <3> QED BY <3>1, SumOfNone DEF SumFunction, SumOfConfidence, SumOfSuccess
  <2>4. SumFunction(Gaps({})) = 0
    <3>1. ASSUME NEW i PROVE WeightedGap({}, i) = 0
      BY <2>1, <2>3 DEF WeightedGap, Distance
    <3>2. DOMAIN Gaps({}) = 0..BinCount - 1 /\ \A i \in 0..BinCount - 1 : Gaps({})[i] = 0
      BY <3>1 DEF Gaps
    <3> QED BY <3>2, BinsAreFinite, SumOfZeros
  <2> QED BY <2>2, <2>4
<1>2. ASSUME NEW E \in SUBSET S, NEW x \in S \ E, E \in good PROVE E \cup {x} \in good
  <2>1. PICK T \in SUBSET S : T = E \cup {x}
    OBVIOUS
  <2>2. IsFiniteSet(E) /\ IsFiniteSet(T)
    BY FS_Subset
  <2>3. SumFunction(Gaps(E)) <= SumFunction(Misses(E))
    BY <1>2
  <2> HIDE DEF good
  <2>4. CASE x.feedback.calibration = Unknown
    <3>1. SuccessSamples(T) = SuccessSamples(E) /\ \A i : InBin(T, i) = InBin(E, i)
      BY <2>1, <2>4, JoinsNoBin
    <3>2. Gaps(T) = Gaps(E) /\ Misses(T) = Misses(E)
      BY <3>1 DEF Gaps, Misses, WeightedGap
    <3> QED BY <2>1, <2>3, <3>2 DEF good
  <2>5. CASE x.feedback.calibration # Unknown
    <3>1. SuccessSamples(T) = SuccessSamples(E) \cup {x}
      BY <2>1, <2>5, JoinsOneBin
    <3>2. PICK j \in 0..BinCount - 1 : JoinsOnly(E, x, j)
      BY <2>5, JoinsOneBin
    <3>3. InBin(T, j) = InBin(E, j) \cup {x} /\ \A i : i # j => InBin(T, i) = InBin(E, i)
      BY <2>1, <3>2 DEF JoinsOnly
    <3>4. x \notin SuccessSamples(E) /\ x \notin InBin(E, j) /\ IsFiniteSet(InBin(E, j))
          /\ IsFiniteSet(SuccessSamples(E))
      BY <2>2, PartsAreFinite
    <3>5. PICK p, o : p = x.feedback.calibration.probability /\ o = x.feedback.calibration.observed
      OBVIOUS
    <3>6. IsSample(x) /\ p \in Int /\ o \in Int /\ Miss(x) = Distance(p, o) /\ Miss(x) \in Int
      <4>1. IsSample(x)
        BY <2>5 DEF Scored, IsSample
      <4> QED BY <3>5, <4>1, MissIsNumber DEF IsSample, Miss
    <3>7. WeightedGap(T, j) <= WeightedGap(E, j) + Miss(x)
      <4>1. PICK B : B = InBin(E, j)
        OBVIOUS
      <4>2. \A e \in B \cup {x} : IsSample(e)
        BY <3>6, <4>1, PartsAreFinite, SamplesAreScored, <2>2
      <4>3. SumOfConfidence(B) \in Int /\ SumOfSuccess(B) \in Int
        BY <3>4, <4>1, <4>2, SumsOfSamples
      <4>4. /\ SumOfConfidence(B \cup {x}) = p + SumOfConfidence(B)
            /\ SumOfSuccess(B \cup {x}) = o + SumOfSuccess(B)
        BY <3>4, <3>5, <4>1, <4>2, SamplesAdd
      <4>5. WeightedGap(E, j) = Distance(SumOfConfidence(B), SumOfSuccess(B))
        BY <4>1 DEF WeightedGap
      <4>6. WeightedGap(T, j) = Distance(p + SumOfConfidence(B), o + SumOfSuccess(B))
        BY <3>3, <4>1, <4>4 DEF WeightedGap
      <4> QED BY <3>6, <4>3, <4>5, <4>6, DistanceAdds
    <3>8. PICK f, g, I : f = Gaps(T) /\ g = Gaps(E) /\ I = 0..BinCount - 1
      OBVIOUS
    <3>9. /\ DOMAIN f = I /\ DOMAIN g = I /\ IsFiniteSet(I) /\ j \in I
          /\ \A i \in I : f[i] = WeightedGap(T, i) /\ g[i] = WeightedGap(E, i)
      BY <3>8, BinsAreFinite DEF Gaps
    <3>10. \A i \in I : i # j => f[i] = g[i]
      BY <3>3, <3>9 DEF WeightedGap
    <3>11. ASSUME NEW i \in I PROVE f[i] \in Int /\ g[i] \in Int
      <4>1. WeightedGap(T, i) \in Int
        BY <2>2, GapIsNumber
      <4>2. WeightedGap(E, i) \in Int
        BY <2>2, GapIsNumber
      <4> QED BY <3>9, <4>1, <4>2
    <3>12. /\ SumFunction(f) \in Int /\ SumFunction(g) \in Int
           /\ SumFunction(f) = SumFunction(g) + f[j] - g[j]
      <4>1. DifferAt(f, g, I, j)
        BY <3>9, <3>10, <3>11 DEF DifferAt
      <4> QED BY <3>9, <4>1, SumChanges
    <3>13. SumFunction(Misses(E)) \in Int
           /\ SumFunction(Misses(T)) = Miss(x) + SumFunction(Misses(E))
      <4>1. PICK h, k, A : h = Misses(T) /\ k = Misses(E) /\ A = SuccessSamples(E)
        OBVIOUS
      <4>2. /\ DOMAIN h = A \cup {x} /\ \A y \in A \cup {x} : h[y] = Miss(y)
            /\ DOMAIN k = A /\ \A y \in A : k[y] = h[y]
        BY <3>1, <4>1 DEF Misses
      <4>3. ASSUME NEW y \in A \cup {x} PROVE h[y] \in Int
        <5>1. IsSample(y)
          BY <2>2, <3>6, <4>1, PartsAreFinite, SamplesAreScored
        <5>2. Miss(y) \in Int
          BY <5>1, MissIsNumber
        <5> QED BY <4>2, <5>2
      <4>4. IsFiniteSet(A) /\ x \notin A
        BY <3>4, <4>1
      <4>5. SumFunction(k) \in Int /\ SumFunction(h) = h[x] + SumFunction(k)
        <5>1. MoreBy(h, k, A, x)
          BY <4>2, <4>3, <4>4 DEF MoreBy
        <5> QED BY <4>4, <5>1, SumOfMore
      <4> QED BY <4>1, <4>2, <4>5
    <3>14. SumFunction(f) <= SumFunction(g) + Miss(x)
      BY <3>6, <3>7, <3>9, <3>11, <3>12
    <3>15. SumFunction(Gaps(T)) <= SumFunction(Misses(T))
      BY <2>3, <3>6, <3>8, <3>12, <3>13, <3>14
    <3> QED BY <2>1, <3>15 DEF good
  <2> QED BY <2>4, <2>5
<1>3. S \in good
  <2> HIDE DEF good
  <2> QED BY <1>1, <1>2, ByAdding
<1> QED BY <1>3

One(b) == IF b THEN 1 ELSE 0

\* Counting the fields of an entry, one by one.
LEMMA CountOfThree ==
  ASSUME NEW T \in SUBSET (1..3)
  PROVE  Cardinality(T) = One(1 \in T) + One(2 \in T) + One(3 \in T)
<1>1. IsFiniteSet(T)
  <2>1. PICK a, b \in Int : a = 1 /\ b = 3
    OBVIOUS
  <2>2. IsFiniteSet(a..b)
    BY FS_Interval
  <2> QED BY <2>1, <2>2, FS_Subset
<1>2. PICK A, B, C : A = T \ {1} /\ B = A \ {2} /\ C = B \ {3}
  OBVIOUS
<1>3. IsFiniteSet(A) /\ IsFiniteSet(B) /\ C = {}
  BY <1>1, <1>2, FS_RemoveElement
<1>4. Cardinality(C) = 0
  BY <1>3, FS_EmptySet
<1>5. Cardinality(B) \in Nat /\ Cardinality(A) \in Nat /\ Cardinality(T) \in Nat
  BY <1>1, <1>3, FS_CardinalityType
<1>6. Cardinality(C) = IF 3 \in B THEN Cardinality(B) - 1 ELSE Cardinality(B)
  BY <1>2, <1>3, FS_RemoveElement
<1>7. Cardinality(B) = IF 2 \in A THEN Cardinality(A) - 1 ELSE Cardinality(A)
  BY <1>2, <1>3, FS_RemoveElement
<1>8. Cardinality(A) = IF 1 \in T THEN Cardinality(T) - 1 ELSE Cardinality(T)
  BY <1>1, <1>2, FS_RemoveElement
<1>9. (3 \in B <=> 3 \in T) /\ (2 \in A <=> 2 \in T)
  BY <1>2
<1> QED BY <1>4, <1>5, <1>6, <1>7, <1>8, <1>9 DEF One

ObservedOf(e) == Cardinality({i \in 1..3 : Pairs(e)[i][1] # Unknown})
PredictedOf(e) == Cardinality({i \in 1..3 : Unknown \notin {Pairs(e)[i][1], Pairs(e)[i][2]}})

\* Of an entry as many fields are predicted as have an error, and no more than
\* are observed.
LEMMA FieldsOfEntry ==
  ASSUME NEW e, Scored(e)
  PROVE  /\ PredictedOf(e) = One(e.feedback.latencyError # Unknown)
                + One(e.feedback.costError # Unknown) + One(e.feedback.calibration # Unknown)
         /\ PredictedOf(e) \in Nat /\ ObservedOf(e) \in Nat
         /\ PredictedOf(e) <= ObservedOf(e) /\ ObservedOf(e) <= 3
<1> DEFINE o == e.feedback.outcome
           p == e.prediction
<1>1. PICK O \in SUBSET (1..3) : O = {i \in 1..3 : Pairs(e)[i][1] # Unknown}
  OBVIOUS
<1>2. PICK P \in SUBSET (1..3) : P = {i \in 1..3 : Unknown \notin {Pairs(e)[i][1], Pairs(e)[i][2]}}
  OBVIOUS
<1>3. /\ Pairs(e)[1][1] = o.latency /\ Pairs(e)[1][2] = p.e2e
      /\ Pairs(e)[2][1] = o.cost /\ Pairs(e)[2][2] = p.cost
      /\ Pairs(e)[3][1] = o.success /\ Pairs(e)[3][2] = p.success
  BY DEF Pairs
<1>4. /\ 1 \in P <=> e.feedback.latencyError # Unknown
      /\ 2 \in P <=> e.feedback.costError # Unknown
      /\ 3 \in P <=> e.feedback.calibration # Unknown
      /\ (1 \in P => 1 \in O) /\ (2 \in P => 2 \in O) /\ (3 \in P => 3 \in O)
  BY <1>1, <1>2, <1>3 DEF Scored
<1>5. PredictedOf(e) = One(1 \in P) + One(2 \in P) + One(3 \in P)
  BY <1>2, CountOfThree DEF PredictedOf
<1>6. ObservedOf(e) = One(1 \in O) + One(2 \in O) + One(3 \in O)
  BY <1>1, CountOfThree DEF ObservedOf
<1> QED BY <1>4, <1>5, <1>6 DEF One

\* Counting a class of entries when one more arrives.
LEMMA CountOneMore ==
  ASSUME NEW E, IsFiniteSet(E), NEW x, x \notin E, NEW P
  PROVE  /\ Cardinality(E \cap P) \in Nat
         /\ Cardinality((E \cup {x}) \cap P) = Cardinality(E \cap P) + One(x \in P)
<1>1. IsFiniteSet(E \cap P) /\ x \notin E \cap P
  BY FS_Subset
<1>2. Cardinality(E \cap P) \in Nat
  BY <1>1, FS_CardinalityType
<1>3. CASE x \in P
  <2>1. (E \cup {x}) \cap P = (E \cap P) \cup {x}
    BY <1>3
  <2> QED BY <1>1, <1>2, <1>3, <2>1, FS_AddElement DEF One
<1>4. CASE x \notin P
  <2>1. (E \cup {x}) \cap P = E \cap P
    BY <1>4
  <2>2. One(x \in P) = 0
    BY <1>4 DEF One
  <2>3. PICK n \in Nat : n = Cardinality(E \cap P)
    BY <1>2
  <2>4. Cardinality((E \cup {x}) \cap P) = n
    BY <2>1, <2>3
  <2>5. n = n + One(x \in P)
    BY <2>2
  <2> QED BY <2>3, <2>4, <2>5
<1> QED BY <1>3, <1>4

\* The entries with an error, by what it is an error of.
LatencyErrors(E) == {e \in E : e.feedback.latencyError # Unknown}
CostErrors(E) == {e \in E : e.feedback.costError # Unknown}

FieldsHold(E) ==
    /\ PredictedFields(E) = Cardinality(LatencyErrors(E)) + Cardinality(CostErrors(E))
                               + Cardinality(SuccessSamples(E))
    /\ PredictedFields(E) \in Nat /\ ObservedFields(E) \in Nat
    /\ PredictedFields(E) <= ObservedFields(E)
    /\ ObservedFields(E) <= 3 * Cardinality(E)

\* A new entry adds its own fields.
LEMMA FieldsAdd ==
  ASSUME NEW E, IsFiniteSet(E), NEW x, x \notin E, \A e \in E \cup {x} : Scored(e)
  PROVE  /\ PredictedFields(E \cup {x}) = PredictedOf(x) + PredictedFields(E)
         /\ ObservedFields(E \cup {x}) = ObservedOf(x) + ObservedFields(E)
<1>1. PICK T : T = E \cup {x}
  OBVIOUS
<1>2. PredictedFields(T) = PredictedOf(x) + PredictedFields(E)
  <2>1. PICK f, g : f = [e \in T |-> PredictedOf(e)] /\ g = [e \in E |-> PredictedOf(e)]
    OBVIOUS
  <2>2. \A e \in T : PredictedOf(e) \in Int
    BY <1>1, FieldsOfEntry
  <2>3. MoreBy(f, g, E, x) /\ f[x] = PredictedOf(x)
    BY <1>1, <2>1, <2>2 DEF MoreBy
  <2>4. SumFunction(f) = f[x] + SumFunction(g)
    BY <2>3, SumOfMore
  <2>5. PredictedFields(T) = SumFunction(f) /\ PredictedFields(E) = SumFunction(g)
    BY <2>1 DEF PredictedFields, PredictedOf
  <2> QED BY <2>3, <2>4, <2>5
<1>3. ObservedFields(T) = ObservedOf(x) + ObservedFields(E)
  <2>1. PICK f, g : f = [e \in T |-> ObservedOf(e)] /\ g = [e \in E |-> ObservedOf(e)]
    OBVIOUS
  <2>2. \A e \in T : ObservedOf(e) \in Int
    BY <1>1, FieldsOfEntry
  <2>3. MoreBy(f, g, E, x) /\ f[x] = ObservedOf(x)
    BY <1>1, <2>1, <2>2 DEF MoreBy
  <2>4. SumFunction(f) = f[x] + SumFunction(g)
    BY <2>3, SumOfMore
  <2>5. ObservedFields(T) = SumFunction(f) /\ ObservedFields(E) = SumFunction(g)
    BY <2>1 DEF ObservedFields, ObservedOf
  <2> QED BY <2>3, <2>4, <2>5
<1> QED BY <1>1, <1>2, <1>3

\* So fields and errors agree over any set of entries.
LEMMA FieldsAddUp ==
  ASSUME NEW S, IsFiniteSet(S), \A e \in S : Scored(e)
  PROVE  FieldsHold(S)
<1> DEFINE good == {E \in SUBSET S : FieldsHold(E)}
           L == {e \in S : e.feedback.latencyError # Unknown}
           C == {e \in S : e.feedback.costError # Unknown}
           K == {e \in S : e.feedback.calibration # Unknown}
<1>1. {} \in good
  <2>1. LatencyErrors({}) = {} /\ CostErrors({}) = {} /\ SuccessSamples({}) = {}
    BY DEF LatencyErrors, CostErrors, SuccessSamples
  <2>2. Cardinality({}) = 0
    BY FS_EmptySet
  <2>3. PredictedFields({}) = 0 /\ ObservedFields({}) = 0
    <3>1. ASSUME NEW f, DOMAIN f = {} PROVE SumFunction(f) = 0
      BY <3>1, SumOfNone DEF SumFunction
    <3>2. PredictedFields({}) = 0
      BY <3>1 DEF PredictedFields
    <3>3. ObservedFields({}) = 0
      BY <3>1 DEF ObservedFields
    <3> QED BY <3>2, <3>3
  <2>4. PICK none \in SUBSET S : none = {}
    OBVIOUS
  <2>5. Cardinality(none) = 0 /\ Cardinality(LatencyErrors(none)) = 0
        /\ Cardinality(CostErrors(none)) = 0 /\ Cardinality(SuccessSamples(none)) = 0
        /\ PredictedFields(none) = 0 /\ ObservedFields(none) = 0
    BY <2>1, <2>2, <2>3, <2>4
  <2>6. FieldsHold(none)
    BY <2>5 DEF FieldsHold
  <2> QED BY <2>4, <2>6
<1>2. ASSUME NEW E \in SUBSET S, NEW x \in S \ E, E \in good PROVE E \cup {x} \in good
  <2>1. PICK T \in SUBSET S : T = E \cup {x}
    OBVIOUS
  <2>2. IsFiniteSet(E) /\ FieldsHold(E) /\ x \notin E
    BY <1>2, FS_Subset
  <2>3. \A U \in SUBSET S : LatencyErrors(U) = U \cap L /\ CostErrors(U) = U \cap C
                            /\ SuccessSamples(U) = U \cap K
    BY DEF LatencyErrors, CostErrors, SuccessSamples
  <2>4. /\ x \in L <=> x.feedback.latencyError # Unknown
        /\ x \in C <=> x.feedback.costError # Unknown
        /\ x \in K <=> x.feedback.calibration # Unknown
    OBVIOUS
  <2> HIDE DEF L, C, K, good
  <2>5. /\ Cardinality(LatencyErrors(E)) \in Nat
        /\ Cardinality(LatencyErrors(T)) = Cardinality(LatencyErrors(E)) + One(x \in L)
    BY <2>1, <2>2, <2>3, CountOneMore
  <2>6. /\ Cardinality(CostErrors(E)) \in Nat
        /\ Cardinality(CostErrors(T)) = Cardinality(CostErrors(E)) + One(x \in C)
    BY <2>1, <2>2, <2>3, CountOneMore
  <2>7. /\ Cardinality(SuccessSamples(E)) \in Nat
        /\ Cardinality(SuccessSamples(T)) = Cardinality(SuccessSamples(E)) + One(x \in K)
    BY <2>1, <2>2, <2>3, CountOneMore
  <2>8. Cardinality(E) \in Nat /\ Cardinality(T) = Cardinality(E) + 1
    BY <2>1, <2>2, FS_AddElement, FS_CardinalityType
  <2>9. Scored(x)
    OBVIOUS
  <2>10. /\ PredictedOf(x) = One(x \in L) + One(x \in C) + One(x \in K)
         /\ PredictedOf(x) \in Nat /\ ObservedOf(x) \in Nat
         /\ PredictedOf(x) <= ObservedOf(x) /\ ObservedOf(x) <= 3
    BY <2>4, <2>9, FieldsOfEntry
  <2>11. /\ PredictedFields(T) = PredictedOf(x) + PredictedFields(E)
         /\ ObservedFields(T) = ObservedOf(x) + ObservedFields(E)
    BY <2>1, <2>2, FieldsAdd
  <2>12. One(x \in L) \in Int /\ One(x \in C) \in Int /\ One(x \in K) \in Int
    BY DEF One
  <2>13. FieldsHold(T)
    BY <2>2, <2>5, <2>6, <2>7, <2>8, <2>10, <2>11, <2>12 DEF FieldsHold
  <2> QED BY <2>1, <2>13 DEF good
<1>3. S \in good
  <2> HIDE DEF good
  <2> QED BY <1>1, <1>2, ByAdding
<1> QED BY <1>3

\* The report of entries that were all scored.
LEMMA ReportOfScored ==
  ASSUME IsFiniteSet(outcomes), \A e \in outcomes : Scored(e)
  PROVE  ReportAddsUp
<1>1. PICK r : r = Report(outcomes)
  OBVIOUS
<1>2. /\ r.samples = Cardinality(outcomes)
      /\ r.observedFields = ObservedFields(outcomes)
      /\ r.predictedFields = PredictedFields(outcomes)
      /\ r.latencySamples = Cardinality(LatencyErrors(outcomes))
      /\ r.costSamples = Cardinality(CostErrors(outcomes))
      /\ r.successSamples = Cardinality(SuccessSamples(outcomes))
      /\ r.bins = BinSizes(outcomes)
      /\ r.expectedCalibrationError = SumFunction(Gaps(outcomes))
  BY <1>1 DEF Report, LatencyErrors, CostErrors, BinSizes, Gaps
<1>3. r.latencyPercentSamples <= r.latencySamples
  <2>1. PICK A : A = {e \in outcomes : e.feedback.latencyPercent # Unknown}
    OBVIOUS
  <2>2. A \in SUBSET LatencyErrors(outcomes) /\ IsFiniteSet(LatencyErrors(outcomes))
    BY <2>1, FS_Subset DEF LatencyErrors, Scored
  <2>3. r.latencyPercentSamples = Cardinality(A)
    BY <1>1, <2>1 DEF Report
  <2> QED BY <1>2, <2>2, <2>3, FS_Subset
<1>4. r.costPercentSamples <= r.costSamples
  <2>1. PICK A : A = {e \in outcomes : e.feedback.costPercent # Unknown}
    OBVIOUS
  <2>2. A \in SUBSET CostErrors(outcomes) /\ IsFiniteSet(CostErrors(outcomes))
    BY <2>1, FS_Subset DEF CostErrors, Scored
  <2>3. r.costPercentSamples = Cardinality(A)
    BY <1>1, <2>1 DEF Report
  <2> QED BY <1>2, <2>2, <2>3, FS_Subset
<1>5. SumFunction(r.bins) = r.successSamples
  BY <1>2, BinsAddUp
<1>6. /\ r.latencySamples + r.costSamples + r.successSamples = r.predictedFields
      /\ r.predictedFields <= r.observedFields /\ r.observedFields <= 3 * r.samples
  BY <1>2, FieldsAddUp DEF FieldsHold
<1>7. r.expectedCalibrationError <= SumFunction(Misses(outcomes))
  BY <1>2, BinsAreNoWorse
<1> QED BY <1>1, <1>3, <1>4, <1>5, <1>6, <1>7 DEF ReportAddsUp, Misses, Miss

(***************************************************************************)
(* What the report rests on: every entry was scored as build_feedback does *)
(* it, and an action names one decision.                                   *)
(***************************************************************************)
ReportInv ==
    /\ MeasureInv
    /\ \A r, q \in Recorded : r.decision.action.id = q.decision.action.id => r = q
    /\ IsFiniteSet(outcomes) /\ \A e \in outcomes : Scored(e)

LEMMA ReportInit == Init => ReportInv
<1> SUFFICES ASSUME Init PROVE ReportInv  OBVIOUS
<1>1. Recorded = {} /\ outcomes = {}
  BY DEF Init, JournalInit, Recorded
<1>2. IsFiniteSet({})
  BY FS_EmptySet
<1> QED BY <1>1, <1>2, MeasureInit DEF ReportInv

\* record_decision: an action that was decided is not decided again.
LEMMA ActionsStayNew ==
  ASSUME ReportInv, NEW b, RecordDecision(b)
  PROVE  /\ \A r, q \in Recorded' : r.decision.action.id = q.decision.action.id => r = q
         /\ outcomes' = outcomes
<1>1. outcomes' = outcomes
  BY DEF RecordDecision
<1>2. CASE ~ AcceptsBundle(b)
  BY <1>1, <1>2 DEF RecordDecision, Recorded, ReportInv
<1>3. CASE AcceptsBundle(b)
  <2>1. journal' = Append(journal, b) /\ ActionIsNew(b)
    BY <1>3 DEF RecordDecision, AcceptsBundle
  <2>2. /\ DOMAIN journal = 1..Len(journal) /\ DOMAIN journal' = 1..(Len(journal) + 1)
        /\ \A i \in 1..Len(journal) : journal'[i] = journal[i]
        /\ journal'[Len(journal) + 1] = b
    BY <2>1, AppendToSeq DEF ReportInv, MeasureInv
  <2>3. Recorded' \subseteq Recorded \cup {b}
    BY <2>2 DEF Recorded
  <2> QED BY <1>1, <2>1, <2>3 DEF ActionIsNew, ReportInv
<1> QED BY <1>2, <1>3

\* record_outcome: what it adds is one entry, scored against the one decision.
LEMMA EntryJoins ==
  ASSUME ReportInv, NEW o \in Outcomes, RecordOutcome(o)
  PROVE  IsFiniteSet(outcomes') /\ \A e \in outcomes' : Scored(e)
<1>1. CASE ~ AcceptsOutcome(o)
  BY <1>1 DEF RecordOutcome, ReportInv
<1>2. CASE AcceptsOutcome(o)
  <2>1. PICK r \in Decided(o.action) : Scorable(SelectedPrediction(r), o)
    BY <1>2 DEF AcceptsOutcome
  <2>2. r \in Recorded /\ \A q \in Decided(o.action) : q = r
    BY <2>1 DEF Decided, ReportInv
  <2>3. Measures(SelectedPrediction(r)) \subseteq Int \cup {Unknown}
    <3>1. IsMeasured(r) /\ HasSelection(r)
      BY <2>2 DEF ReportInv, MeasureInv
    <3> QED BY <3>1, SelectionExists DEF IsMeasured, PredictionsOf
  <2>4. Scored(Entry(r, o))
    BY <2>1, <2>3, FeedbackIsScored
  <2>5. PICK kept \in SUBSET outcomes : outcomes' = kept \cup {Entry(r, o)}
    <3>1. {Entry(q, o) : q \in Decided(o.action)} = {Entry(r, o)}
      BY <2>1, <2>2
    <3> QED BY <1>2, <3>1 DEF RecordOutcome
  <2>6. IsFiniteSet(kept) /\ \A e \in kept : Scored(e)
    BY FS_Subset DEF ReportInv
  <2> QED BY <2>4, <2>5, <2>6, FS_AddElement
<1> QED BY <1>1, <1>2

\* Each step keeps the entries scored and the actions apart.
LEMMA ReportStep == ReportInv /\ [Next]_vars => ReportInv'
<1> SUFFICES ASSUME ReportInv, [Next]_vars PROVE ReportInv'  OBVIOUS
<1>1. MeasureInv'
  BY MeasureStep DEF ReportInv
<1>2. CASE UNCHANGED journalVars
  BY <1>1, <1>2 DEF ReportInv, journalVars, Recorded
<1>3. ASSUME NEW b, RecordDecision(b) PROVE ReportInv'
  BY <1>1, <1>3, ActionsStayNew DEF ReportInv
<1>4. ASSUME NEW o \in Outcomes, RecordOutcome(o) PROVE ReportInv'
  <2>1. Recorded' = Recorded
    BY <1>4 DEF RecordOutcome, Recorded
  <2> QED BY <1>1, <1>4, <2>1, EntryJoins DEF ReportInv
<1>5. ASSUME NEW t, NEW i, Decide(t, i) PROVE \E b : RecordDecision(b)
  BY <1>5 DEF Decide
<1> QED BY <1>2, <1>3, <1>4, <1>5, JournalMoves

\* materialize_evaluation_report: of any outcomes, joined in any order to any
\* decisions, with any number of bins: the bins hold every scored success once, an
\* error is counted for each field that was both predicted and observed and for no
\* other, and the calibration error by bins is at most the error case by case.
THEOREM ReportsHold == Spec => []ReportAddsUp
<1>1. ReportInv => ReportAddsUp
  BY ReportOfScored DEF ReportInv
<1> QED BY <1>1, ReportInit, ReportStep, PTL DEF Spec
=============================================================================
