-------------------------- MODULE HarnessReporter --------------------------
(***************************************************************************)
(* A harness that reports to the agent state store in the background:      *)
(* GenericProxyHarnessAdapter turns a hook call into an event, and         *)
(* AsyncStateReporter (stateflow/harness/base/reporter.py) queues it for a *)
(* worker thread whose sink is the store's append_event.                   *)
(*                                                                         *)
(* The queue is safe by itself, the rest is not under any lock: a hook     *)
(* thread counts after it has queued, the worker tests _stop and the queue *)
(* before it waits, and close sets _stop before it wakes the worker.       *)
(***************************************************************************)
EXTENDS AgentStateStore

CONSTANTS
    Worker,        \* the thread of the reporter, one of Threads
    Harnesses,     \* threads that call the adapter's hooks
    NativeCalls,   \* what they call them with
    Direct,        \* the events other threads append themselves
    Bodies,        \* fields that carry prompts and results
    MaxQueue,      \* max_queue
    MaxReports, MaxDropped   \* bounds of the model

ASSUME ReporterBounds ==
    /\ MaxQueue \in Nat \ {0} /\ MaxReports \in Nat /\ MaxDropped \in Nat
    /\ Worker \in Threads

VARIABLES
    waiting,    \* _queue: places in accepted, or Wake for close's None
    stopping,   \* _stop
    closing,    \* where close is: before it sets _stop, before it wakes, done
    stage,      \* where _run is
    hand,       \* the report _run has taken off the queue, if any
    counting,   \* the counter a hook thread is about to add to, if any
    stats,      \* ReporterStats
    accepted,   \* history: the events put on the queue
    handled,    \* history: places of those the sink returned from or raised at
    atStop      \* history: how many were accepted when _stop was set

reporterVars == <<waiting, stopping, closing, stage, hand, counting, stats,
                  accepted, handled, atStop>>
allVars == <<storeVars, reporterVars>>

Wake == 0
NoCounter == "none"

(***************************************************************************)
(* The adapter's hooks                                                     *)
(***************************************************************************)

\* The event each hook reports, and the fields it takes along.
Everything == {"everything"}
HookEvents ==
    [on_task_start         |-> <<"TASK_STARTED", {}>>,
     on_turn_start         |-> <<"TURN_STARTED", {}>>,
     on_model_request      |-> <<"MODEL_REQUESTED", {"prompt", "context", "constraints"}>>,
     on_model_response     |-> <<"MODEL_RESPONSE", {"success", "output", "progress", "next"}>>,
     on_tool_start         |-> <<"TOOL_STARTED", Everything>>,
     on_tool_progress      |-> <<"TOOL_PROGRESS", Everything>>,
     on_tool_result        |-> <<"TOOL_RESULT", Everything>>,
     on_context_compaction |-> <<"CONTEXT_COMPACTED", Everything>>,
     on_subagent_start     |-> <<"PATCH", Everything>>,
     on_task_complete      |-> <<"TASK_COMPLETED", Everything>>]

\* A hook that takes nothing along reports the snapshot, which has no bodies.
Payload(call) ==
    LET sent == DOMAIN call.fields
        keys == HookEvents[call.hook][2]
        kept == IF keys = Everything THEN sent
                ELSE IF sent \cap keys = {} THEN sent \ Bodies ELSE sent \cap keys
    IN Restrict(call.fields, kept)

\* _event and to_event
ReportOf(call) ==
    [session |-> call.session, type |-> HookEvents[call.hook][1], epoch |-> call.epoch,
     sequence |-> call.sequence, turn |-> call.turn, payload |-> Payload(call)]

(***************************************************************************)
(* publish                                                                 *)
(***************************************************************************)
Reserved == Len(accepted) - Len(handled)   \* log entries the queue may still need

Queued(h, call) ==
    /\ Len(waiting) < MaxQueue
    /\ Len(accepted) < MaxReports
    /\ Len(log) + Reserved < MaxLog /\ Len(issued) + Reserved < MaxIssued
    /\ accepted' = Append(accepted, ReportOf(call))
    /\ waiting' = Append(waiting, Len(accepted) + 1)
    /\ counting' = [counting EXCEPT ![h] = "published"]

\* queue.Full
Dropped(h) ==
    /\ Len(waiting) >= MaxQueue
    /\ stats.dropped < MaxDropped
    /\ counting' = [counting EXCEPT ![h] = "dropped"]
    /\ UNCHANGED <<accepted, waiting>>

Publish(h, call) ==
    /\ counting[h] = NoCounter
    /\ Queued(h, call) \/ Dropped(h)
    /\ UNCHANGED <<stopping, closing, stage, hand, stats, handled, atStop, storeVars>>

\* "+= 1" on an attribute, which CPython does not interrupt between its read and
\* its write; a free-threaded build would need two steps here.
Count(h) ==
    /\ counting[h] # NoCounter
    /\ stats' = [stats EXCEPT ![counting[h]] = @ + 1]
    /\ counting' = [counting EXCEPT ![h] = NoCounter]
    /\ UNCHANGED <<waiting, stopping, closing, stage, hand, accepted, handled, atStop,
                   storeVars>>

(***************************************************************************)
(* close; its join changes nothing, with or without a timeout              *)
(***************************************************************************)
SetStop ==
    /\ closing = "open"
    /\ closing' = "waking" /\ stopping' = TRUE /\ atStop' = Len(accepted)
    /\ UNCHANGED <<waiting, stage, hand, counting, stats, accepted, handled, storeVars>>

\* Mutant: a full queue makes room for the wake-up call.
WakeWorkerForSure ==
    /\ closing = "waking"
    /\ closing' = "closed"
    /\ waiting' = Append(IF Len(waiting) < MaxQueue THEN waiting ELSE Tail(waiting), Wake)
    /\ UNCHANGED <<stopping, stage, hand, counting, stats, accepted, handled, atStop, storeVars>>

\* put_nowait(None), which a full queue refuses.
WakeWorker ==
    /\ closing = "waking"
    /\ closing' = "closed"
    /\ waiting' = IF Len(waiting) < MaxQueue THEN Append(waiting, Wake) ELSE waiting
    /\ UNCHANGED <<stopping, stage, hand, counting, stats, accepted, handled, atStop, storeVars>>

(***************************************************************************)
(* _run                                                                    *)
(***************************************************************************)

\* Mutant: the loop ends as soon as it is told to.
AgainUnlessStopped == ~ stopping

\* _stop is never cleared, so the two tests amount to one at the second.
Again == ~ stopping \/ waiting # <<>>

TestLoop ==
    /\ stage = "testing" /\ Free(Worker)
    /\ stage' = IF Again THEN "getting" ELSE "ended"
    /\ UNCHANGED <<waiting, stopping, closing, hand, counting, stats, accepted, handled,
                   atStop, storeVars>>

\* get(timeout=0.05)
Take ==
    /\ stage = "getting" /\ waiting # <<>>
    /\ waiting' = Tail(waiting)
    /\ hand' = IF Head(waiting) = Wake THEN hand ELSE <<Head(waiting)>>
    /\ stage' = IF Head(waiting) = Wake THEN "testing" ELSE "sinking"
    /\ UNCHANGED <<stopping, closing, counting, stats, accepted, handled, atStop, storeVars>>

GetTimesOut ==
    /\ stage = "getting" /\ waiting = <<>>
    /\ stage' = "testing"
    /\ UNCHANGED <<waiting, stopping, closing, hand, counting, stats, accepted, handled,
                   atStop, storeVars>>

\* The sink returns or raises; either way the loop goes on.
Sink ==
    /\ stage = "sinking"
    /\ LET event == accepted[hand[1]] IN
          \/ AppendEvent(Worker, event) /\ UNCHANGED stats
          \/ RefuseEvent(Worker, event) /\ UNCHANGED stats
          \/ AbortEvent(Worker, event) /\ stats' = [stats EXCEPT !.failed = @ + 1]
    /\ handled' = handled \o hand
    /\ hand' = <<>> /\ stage' = "testing"
    /\ UNCHANGED <<waiting, stopping, closing, counting, accepted, atStop>>

WorkerStep ==
    TestLoop \/ Take \/ GetTimesOut \/ Sink \/ (Observe(Worker) /\ UNCHANGED reporterVars)

(***************************************************************************)
(* The store with its reporter                                             *)
(***************************************************************************)

\* Other threads call the store directly; they leave the queue its room.
DirectStep ==
    /\ (\E t \in Threads \ {Worker} : ThreadStep(t, Direct)) \/ SharedStep
    /\ Len(log') + Reserved <= MaxLog /\ Len(issued') + Reserved <= MaxIssued
    /\ UNCHANGED reporterVars

ReporterInit ==
    /\ Init
    /\ waiting = <<>> /\ stopping = FALSE /\ closing = "open" /\ stage = "testing"
    /\ hand = <<>> /\ accepted = <<>> /\ handled = <<>> /\ atStop = 0
    /\ counting = [h \in Harnesses |-> NoCounter]
    /\ stats = [published |-> 0, dropped |-> 0, failed |-> 0]

ReporterNext ==
    \/ \E h \in Harnesses, call \in NativeCalls : Publish(h, call)
    \/ \E h \in Harnesses : Count(h)
    \/ SetStop \/ WakeWorker
    \/ WorkerStep
    \/ DirectStep

\* The worker runs, and threads inside append_event make their calls; nobody
\* has to report, close or call the store.
ReporterFairness ==
    /\ WF_allVars(WorkerStep)
    /\ \A t \in Threads \ {Worker} : WF_allVars(Observe(t) /\ UNCHANGED reporterVars)

ReporterSpec == ReporterInit /\ [][ReporterNext]_allVars /\ ReporterFairness

(***************************************************************************)
(* What the reporter promises                                              *)
(***************************************************************************)

\* In the line are the places 1..n, each once and in their order, and Wakes.
Conserved(line, n) ==
    /\ {line[i] : i \in DOMAIN line} \ {Wake} = 1..n
    /\ \A i, j \in DOMAIN line : i < j /\ Wake \notin {line[i], line[j]} => line[i] < line[j]

\* publish, close, _run: the accepted events, and nothing else, are on their way
\* to the sink in the order they were accepted, each at one place, whether the
\* sink raises, the queue is full or close wakes the worker.
ReportsConserved == Conserved(handled \o hand \o waiting, Len(accepted))

\* _run: every event accepted before close is handed to the sink in the end,
\* also if earlier ones raised and if the queue was full when close came.
AcceptedIsHandled ==
    \A n \in 1..MaxReports :
        (Len(accepted) >= n /\ (stopping => n <= atStop)) ~> (Len(handled) >= n)
============================================================================
