---------------------------- MODULE MCStatePlane ----------------------------
(***************************************************************************)
(* The instances of StatePlane that TLC checks: an inference instance with *)
(* a slow and a fast key, the node it is deployed on, and the calls that   *)
(* each run lets the threads make.                                         *)
(***************************************************************************)
EXTENDS StatePlaneRefinement, TLC

MCEntityType ==
    [e \in Entities |-> CASE e = "i1" -> "instance" [] e = "n1" -> "node" [] e = "c1" -> "component"]
MCKeyTypes == "load" :> {"instance"} @@ "health" :> {"node", "instance"}
MCSetUp == <<"i1", "n1", "c1">>
MCKeyTtl == "load" :> 1 @@ "health" :> 2

Load == <<"state", "i1", "load">>
Health == <<"state", "n1", "health">>
Deployed == <<"relation", "c1", "deployed_on", "n1">>

Update(slot, time, authority, version, expected, idem) ==
    [slot |-> slot, timestamp |-> time, ttl |-> NoLimit, authority |-> authority,
     version |-> version, expected |-> expected, idem |-> idem, wellTyped |-> TRUE]

Observe(slot, time, authority) == Update(slot, time, authority, 0, Unset, NoKey)

Entity(e, lifecycle) == [slot |-> <<"entity", e>>, lifecycle |-> lifecycle]
Event(id, e) == [slot |-> <<"event", id>>, subject |-> e]

(***************************************************************************)
(* writes: competing sources, compare-and-set writers, retries             *)
(***************************************************************************)
WriteBatches ==
    \* two sources of different authority, each with its own clock
    {<<Observe(Load, time, authority)>> : time \in 0..3, authority \in {2, 3}}
    \* writers that read a version and set the next one
    \cup {<<Update(Load, 2, 3, 0, expected, NoKey)>> : expected \in 0..2}
    \* a writer that numbers its own updates
    \cup {<<Update(Load, 2, 3, version, Unset, NoKey)>> : version \in {1, 3}}
    \* a relation from a third source, and a batch that is retried with its keys
    \cup {<<[Observe(Deployed, 1, 3) EXCEPT !.ttl = 1, !.expected = 0]>>,
          <<Update(Load, 1, 4, 0, Unset, "a"), Update(Health, 1, 3, 0, Unset, "b")>>,
          <<Update(Health, 2, 4, 0, Unset, "a")>>}
    \* an update the plane has no place for
    \cup {<<[Observe(<<"state", "n1", "load">>, 0, 4) EXCEPT !.wellTyped = FALSE]>>}

(***************************************************************************)
(* readers: two threads write batches of state and events while snapshots  *)
(* wait for the lock and callbacks subscribe; events are retried before    *)
(* and after their id is forgotten                                         *)
(***************************************************************************)
HealthHere == <<"state", "i1", "health">>
ReaderBatches ==
    {<<Observe(Load, 0, 3), Observe(HealthHere, 0, 2), Observe(Load, 0, 3)>>,
     <<Entity("i1", "draining")>>,
     <<Event("x", "i1"), Event("y", "i1"), Event("x", "i1")>>,
     <<Event("z", "i1"), Event("x", "i1")>>}
ReaderRequests ==
    {[entities |-> {"i1", "c1"}, keys |-> {"load", "health", "unknown"},
      maxAge |-> ("load" :> 0 @@ "health" :> NoLimit), minAuthority |-> 2, withRelations |-> TRUE]}

OneSetUp == <<"i1">>

\* telemetry beside the competing writers of the run "writes"
MCSamples == {[entity |-> e, key |-> "load", numeric |-> TRUE] : e \in {"i1", "c1"}}
MCDescriptors == {[id |-> "agent", kind |-> "adapter"], [id |-> "agent", kind |-> "runtime"]}
MCBeats == {[subject |-> "agent", timestamp |-> 0]}
=============================================================================
