--------------------------- MODULE VersionedStore ---------------------------
(***************************************************************************)
(* What the State Plane promises a client that writes batches and reads    *)
(* snapshots, with no lock, no queue and no history: a store of versioned  *)
(* slots in which a whole batch takes effect in one step, and a view is of *)
(* one instant, which the logical time names.                              *)
(***************************************************************************)
EXTENDS Integers

CONSTANTS Slots, Empty   \* Empty: what a slot holds that was never written

VARIABLES
    time,    \* logical time
    store,   \* the version each slot is at
    view     \* at most one, the view taken last: its time, the versions it shows

Contents == [Slots -> Int \cup {Empty}]

Init ==
    /\ time \in Nat
    /\ store = [s \in Slots |-> Empty]
    /\ view = {}

\* A batch: time passes, and the slots it changes move to later versions.
Write ==
    /\ time' \in Nat /\ time' > time
    /\ store' \in Contents
    /\ \A s \in Slots :
          store'[s] # store[s] =>
             store'[s] # Empty /\ (store[s] = Empty \/ store'[s] > store[s])
    /\ UNCHANGED view

\* A view shows some of the slots that were written, all as they are now.
View ==
    /\ \E v \in view' :
          /\ view' = {v} /\ v = [time |-> time, shown |-> v.shown]
          /\ \A item \in v.shown : \E s \in Slots : store[s] # Empty /\ item = <<s, store[s]>>
    /\ UNCHANGED <<time, store>>

Next == Write \/ View

Spec == Init /\ [][Next]_<<time, store, view>>
=============================================================================
