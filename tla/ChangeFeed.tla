----------------------------- MODULE ChangeFeed -----------------------------
(***************************************************************************)
(* WatchState: clients that follow the change feed of the State Plane over *)
(* a gRPC stream (stateflow/rpc/server.py, stateflow/rpc/client.py) and    *)
(* resume it from the last cursor they received when the stream breaks.    *)
(*                                                                         *)
(* The server side polls InMemoryStatePlane.changes and yields the batch   *)
(* one message at a time; gRPC delivers the messages of one stream in      *)
(* order, and loses those in flight when the stream breaks.                *)
(***************************************************************************)
EXTENDS StatePlane

CONSTANTS
    Watchers,
    Wanted,       \* the slots each watcher's entity_prefix and keys match
    BatchSize,    \* the server's clamp makes it at least 1
    MaxBreaks     \* bound of the model: how often a stream breaks

ASSUME BatchSizeIsPositive == BatchSize \in Nat \ {0}
ASSUME MaxBreaksIsNatural == MaxBreaks \in Nat

VARIABLES
    open,       \* whether the watcher has a stream
    cursor,     \* the server's cursor of the stream
    outbox,     \* changes of the polled batch not yet yielded
    wire,       \* messages yielded and in flight
    received,   \* the cursors the client was handed, in order
    breaks

feedVars == <<open, cursor, outbox, wire, received, breaks>>

\* A batch is a set: its changes are yielded by their cursors, in the order in
\* which the feed has them.
Later(c) == {change \in {changes[i] : i \in DOMAIN changes} : change.cursor > c}

\* The first BatchSize of S.
FirstOf(S) ==
    {change \in S : Cardinality({earlier \in S : earlier.cursor < change.cursor}) < BatchSize}

\* Mutant: cut off at the limit, then filtered.
ChangesAfterLimitFirst(c, w) == {change \in FirstOf(Later(c)) : change.slot \in Wanted[w]}

\* InMemoryStatePlane.changes: filtered, then cut off at the limit.
ChangesAfter(c, w) == FirstOf({change \in Later(c) : change.slot \in Wanted[w]})

\* The cursor a client resumes from.
LastReceived(w) == IF received[w] = <<>> THEN 0 ELSE received[w][Len(received[w])]

\* Mutant: the stream resumes where the server left off.
ConnectAtServerCursor(w) ==
    /\ ~ open[w]
    /\ open' = [open EXCEPT ![w] = TRUE]
    /\ UNCHANGED <<cursor, outbox, wire, received, breaks, vars>>

Connect(w) ==
    /\ ~ open[w]
    /\ open' = [open EXCEPT ![w] = TRUE]
    /\ cursor' = [cursor EXCEPT ![w] = LastReceived(w)]
    /\ UNCHANGED <<outbox, wire, received, breaks, vars>>

\* The read of the feed waits for the plane's lock.
Poll(w) ==
    /\ open[w] /\ outbox[w] = {} /\ lock = Free
    /\ outbox' = [outbox EXCEPT ![w] = ChangesAfter(cursor[w], w)]
    /\ UNCHANGED <<open, cursor, wire, received, breaks, vars>>

Yield(w) ==
    /\ open[w]
    /\ \E change \in outbox[w] :
          /\ \A other \in outbox[w] : change.cursor <= other.cursor
          /\ cursor' = [cursor EXCEPT ![w] = change.cursor]
          /\ wire' = [wire EXCEPT ![w] = Append(@, change.cursor)]
          /\ outbox' = [outbox EXCEPT ![w] = @ \ {change}]
    /\ UNCHANGED <<open, received, breaks, vars>>

Receive(w) ==
    /\ wire[w] # <<>>
    /\ received' = [received EXCEPT ![w] = Append(@, Head(wire[w]))]
    /\ wire' = [wire EXCEPT ![w] = Tail(@)]
    /\ UNCHANGED <<open, cursor, outbox, breaks, vars>>

\* The client cancels, a deadline passes or the connection is lost.  (A stream
\* without follow ends after one batch: a break with nothing in flight.)
Break(w) ==
    /\ open[w] /\ breaks < MaxBreaks
    /\ breaks' = breaks + 1
    /\ open' = [open EXCEPT ![w] = FALSE]
    /\ outbox' = [outbox EXCEPT ![w] = {}]
    /\ wire' = [wire EXCEPT ![w] = <<>>]
    /\ UNCHANGED <<cursor, received, vars>>

FeedInit ==
    /\ Init
    /\ open = [w \in Watchers |-> FALSE]
    /\ cursor = [w \in Watchers |-> 0]
    /\ outbox = [w \in Watchers |-> {}]
    /\ wire = [w \in Watchers |-> <<>>]
    /\ received = [w \in Watchers |-> <<>>]
    /\ breaks = 0

WatchStep(w) == Connect(w) \/ Poll(w) \/ Yield(w) \/ Receive(w)

FeedNext ==
    \/ Next /\ UNCHANGED feedVars
    \/ \E w \in Watchers : WatchStep(w) \/ Break(w)

\* The serving loop runs while the stream is open and a client reconnects; a
\* stream breaks only finitely often.
FeedSpec ==
    /\ FeedInit /\ [][FeedNext]_<<vars, feedVars>>
    /\ Fairness
    /\ \A w \in Watchers : WF_feedVars(WatchStep(w))

(***************************************************************************)
(* Properties                                                              *)
(***************************************************************************)
Got(w, n) == \E i \in DOMAIN received[w] : received[w][i] = n

\* Whatever breaks and resumes, a watcher is handed the changes it wants in
\* cursor order and none of them twice.
ReceivedInOrder ==
    \A w \in Watchers : \A i, j \in DOMAIN received[w] :
        i < j => received[w][i] < received[w][j]

\* InMemoryStatePlane.changes and the resume cursor: a change that the plane
\* still retains is never passed over, not by the limit, the filter or a break.
RetainedIsNeverSkipped ==
    \A w \in Watchers : \A i \in DOMAIN changes :
        (changes[i].slot \in Wanted[w] /\ changes[i].cursor < LastReceived(w))
            => Got(w, changes[i].cursor)

\* A watcher's view of what the plane retained is the feed itself, in order and
\* without gaps, however often its streams broke.
FeedIsFollowed == ReceivedInOrder /\ RetainedIsNeverSkipped

\* WatchState: every change a watcher wants reaches it, unless the plane
\* evicted it first.
EveryChangeReachesWatchers ==
    \A w \in Watchers, n \in 1..MaxRevision :
        (n <= revision /\ log[n].slot \in Wanted[w])
            ~> (Got(w, n) \/ n <= revision - MaxChanges)
=============================================================================
