------------------------ MODULE StatePlaneRefinement ------------------------
(***************************************************************************)
(* StatePlane implements VersionedStore: although a batch is applied item  *)
(* by item, other threads run meanwhile and snapshots wait for the lock,   *)
(* a client sees batches and snapshots that happen at once.  A batch takes *)
(* effect when its call releases the lock.                                 *)
(***************************************************************************)
EXTENDS StatePlane

\* The logical time at which the lock was last free; notes holds what the
\* thread inside a write call has changed since.
Published == IF lock = Free THEN revision ELSE revision - Len(notes[lock])

\* The newest of the first n changes that was made to slot s, if any was.
LastWrites(s, n) == {i \in 1..n : log[i].slot = s /\ \A j \in i+1..n : log[j].slot # s}

\* The versions the first n changes leave behind.
After(n) ==
    [s \in Slots |-> IF LastWrites(s, n) = {} THEN Unset
                     ELSE log[CHOOSE i \in LastWrites(s, n) : TRUE].version]

LastView ==
    IF snapshots = <<>> THEN {}
    ELSE {[time  |-> snapshots[Len(snapshots)].logicalTime,
           shown |-> snapshots[Len(snapshots)].shown]}

Store == INSTANCE VersionedStore
    WITH Empty <- Unset, time <- Published, store <- After(Published), view <- LastView

\* publish_state, upsert_relations, get_snapshot: a client cannot tell the plane
\* from a store whose batches take effect at once, each slot they write moving to
\* a later version, and whose snapshots are all of one instant between batches,
\* the one their logicalTime names.
BatchesAreAtomic == Store!Spec
=============================================================================
