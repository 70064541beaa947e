--------------------------- MODULE ControlJournal ---------------------------
(***************************************************************************)
(* InMemoryControlJournal (stateflow/control/journal.py): the decisions of *)
(* controllers with the predictions they rest on, and the outcomes that    *)
(* are joined to them later.  Each method is one critical section, and all *)
(* its checks come before its first assignment.                            *)
(*                                                                         *)
(* A bundle is a decision with its predictions, as record_decision takes   *)
(* it.  Callers may send a bundle again, and may send a wrong one.  The    *)
(* maps of the code from action to decision and to selected prediction are *)
(* functions of the journal here: journal is _order with what it names.    *)
(***************************************************************************)
EXTENDS Evaluation, Sequences

CONSTANTS
    Bundles,      \* what callers other than the KV controller may record
    Outcomes,     \* what may be reported: [action, started, completed, latency, cost, success]
    MaxJournal    \* bound of the model

ASSUME JournalBound == MaxJournal \in Nat

\* Prediction (prediction/contracts.py): what is predicted is a number or None.
Measures(p) == {p.success, p.e2e, p.cost, p.throughput}
IsMeasured(b) ==
    /\ Len(b.predictions) \in Nat /\ DOMAIN b.predictions = 1..Len(b.predictions)
    /\ \A i \in DOMAIN b.predictions : Measures(b.predictions[i]) \subseteq Int \cup {Unknown}
ASSUME BundlesAreMeasured == \A b \in Bundles : IsMeasured(b)

\* Outcome (control/contracts.py): the measurements are numbers or None.
ASSUME OutcomesAreMeasured ==
    \A o \in Outcomes :
       {o.latency, o.cost} \subseteq Int \cup {Unknown} /\ o.success \in {0, 100, Unknown}

VARIABLES journal, outcomes
journalVars == <<journal, outcomes>>

(***************************************************************************)
(* routing_control_bundle (scheduler/contract_bridge.py): each call makes  *)
(* candidates and predictions with new ids for the same routing decision.  *)
(***************************************************************************)
RoutingBundle(routing, attempt) ==
    LET n == DOMAIN routing.candidates
        id(i) == <<routing.id, attempt, i>>
        prediction(i) ==
            [id |-> id(i), snapshot |-> routing.view, candidate |-> id(i),
             model |-> "success-first", fallback |-> "baseline",
             confidence |-> routing.candidates[i].confidence, throughput |-> Unknown,
             e2e |-> routing.candidates[i].latency, cost |-> routing.candidates[i].cost,
             success |-> routing.candidates[i].success]
    IN  [decision |->
            [id |-> routing.id, snapshot |-> routing.view,
             candidates |-> [i \in n |-> id(i)], predictions |-> [i \in n |-> id(i)],
             models |-> {"success-first"},
             action |-> [id |-> routing.id, candidate |-> id(routing.selected)]],
         predictions |-> [i \in n |-> prediction(i)]]

(***************************************************************************)
(* record_decision                                                         *)
(***************************************************************************)
PredictionsOf(b) == {b.predictions[i] : i \in DOMAIN b.predictions}

\* The prediction may be meant by the action, which may name no candidate.
MayBeMeant(b, p) == b.decision.action.candidate \in {Unknown, p.candidate}

\* _validate_bundle
ValidBundle(b) ==
    /\ b.predictions # <<>>
    /\ b.decision.predictions = [i \in DOMAIN b.predictions |-> b.predictions[i].id]
    /\ b.decision.candidates = [i \in DOMAIN b.predictions |-> b.predictions[i].candidate]
    /\ \A p \in PredictionsOf(b) : p.snapshot = b.decision.snapshot
    /\ b.decision.models = {p.model : p \in PredictionsOf(b)}

\* _selected_prediction: there is one prediction that the action may mean.
HasSelection(b) ==
    Cardinality({i \in DOMAIN b.predictions : MayBeMeant(b, b.predictions[i])}) = 1

SelectedPrediction(b) == CHOOSE p \in PredictionsOf(b) : MayBeMeant(b, p)

Recorded == {journal[i] : i \in DOMAIN journal}

DecisionIsNew(b) == \A r \in Recorded : r.decision.id # b.decision.id
ActionIsNew(b) == \A r \in Recorded : r.decision.action.id # b.decision.action.id

\* Mutant: only the predictions the decisions selected are compared.
PredictionsFitSelected(b) ==
    \A r \in Recorded : \A p \in PredictionsOf(b) :
        SelectedPrediction(r).id = p.id => SelectedPrediction(r) = p

PredictionsFit(b) ==
    \A r \in Recorded : \A q \in PredictionsOf(r), p \in PredictionsOf(b) : q.id = p.id => q = p

AcceptsBundle(b) ==
    /\ ValidBundle(b) /\ HasSelection(b)
    /\ DecisionIsNew(b) /\ ActionIsNew(b) /\ PredictionsFit(b)

\* A bundle that is already there, in conflict or wrong changes nothing.
RecordDecision(b) ==
    /\ Len(journal) < MaxJournal
    /\ journal' = IF AcceptsBundle(b) THEN Append(journal, b) ELSE journal
    /\ UNCHANGED outcomes

(***************************************************************************)
(* record_outcome                                                          *)
(***************************************************************************)
Decided(action) == {r \in Recorded : r.decision.action.id = action}
HasOutcome(action) == \E e \in outcomes : e.feedback.outcome.action = action

AcceptsOutcome(o) ==
    /\ o.completed >= o.started
    /\ ~ HasOutcome(o.action)
    /\ \E r \in Decided(o.action) : Scorable(SelectedPrediction(r), o)

\* What the report will take of an action: its selected prediction and feedback.
Entry(r, o) ==
    [prediction |-> SelectedPrediction(r),
     feedback |-> Feedback(r.decision, SelectedPrediction(r), o)]

\* The same outcome again is answered from the store, another one refused.
RecordOutcome(o) ==
    /\ outcomes' = IF AcceptsOutcome(o)
                   THEN {e \in outcomes : e.feedback.outcome.action # o.action}
                          \cup {Entry(r, o) : r \in Decided(o.action)}
                   ELSE outcomes
    /\ UNCHANGED journal

JournalInit == journal = <<>> /\ outcomes = {}

JournalNext ==
    \/ \E b \in Bundles : RecordDecision(b)
    \/ \E o \in Outcomes : RecordOutcome(o)

JournalSpec == JournalInit /\ [][JournalNext]_journalVars

(***************************************************************************)
(* Properties                                                              *)
(***************************************************************************)

\* record_decision: a decision, and the action it selects, are in the journal
\* once, however often they are sent and in which company.
OneDecisionPerAction ==
    \A i, j \in DOMAIN journal :
        \/ journal[i].decision.id = journal[j].decision.id
        \/ journal[i].decision.action.id = journal[j].decision.action.id
        => i = j

\* _predictions: decisions that name the same prediction mean the same one, so
\* a later decision never changes what an earlier one was based on.
PredictionsAgree ==
    \A r1, r2 \in Recorded : \A p \in PredictionsOf(r1), q \in PredictionsOf(r2) :
        p.id = q.id => p = q

\* record_outcome: an action has at most one outcome, it belongs to a recorded
\* decision, and it is scored against the prediction of the selected candidate;
\* an action may leave the candidate out if there is only one.
FeedbackJoinsSelection ==
    /\ \A e1, e2 \in outcomes :
          e1.feedback.outcome.action = e2.feedback.outcome.action => e1 = e2
    /\ \A e \in outcomes :
          \E r \in Decided(e.feedback.outcome.action) :
             /\ e.feedback.decision = r.decision.id
             /\ e.feedback.prediction = e.prediction.id
             /\ e.prediction \in PredictionsOf(r)
             /\ MayBeMeant(r, e.prediction)

\* The journal as its readers may rely on it, whatever retries, conflicts and
\* corrections arrive from several controllers in any order.
JournalIsCoherent == OneDecisionPerAction /\ PredictionsAgree /\ FeedbackJoinsSelection

\* report: what is counted adds up.  Every scored success is in one bin, errors
\* exist only of fields that were both predicted and observed, and calibration
\* in bins is never worse than case by case.
ReportAddsUp ==
    LET r == Report(outcomes)
        scored == SuccessSamples(outcomes)
    IN  /\ SumFunction(r.bins) = r.successSamples
        /\ r.latencySamples + r.costSamples + r.successSamples = r.predictedFields
        /\ r.predictedFields <= r.observedFields /\ r.observedFields <= 3 * r.samples
        /\ r.latencyPercentSamples <= r.latencySamples
        /\ r.costPercentSamples <= r.costSamples
        /\ r.expectedCalibrationError <=
              SumFunction([e \in scored |-> Distance(e.feedback.calibration.probability,
                                                     e.feedback.calibration.observed)])
=============================================================================
