---------------------------- MODULE MCChangeFeed ----------------------------
(***************************************************************************)
(* Two watchers, one of a single key and one of everything, follow a plane *)
(* whose feed retains fewer changes than are made.                         *)
(***************************************************************************)
EXTENDS ChangeFeed, TLC

MCEntityType == [e \in Entities |-> "instance"]
MCKeyTypes == [k \in Keys |-> {"instance"}]
MCKeyTtl == [k \in Keys |-> 1]
MCSetUp == <<"i1">>

Load == <<"state", "i1", "load">>
Health == <<"state", "i1", "health">>
MCWanted == "all" :> {Load, Health, <<"entity", "i1">>} @@ "one" :> {Health}

Observe(slot) ==
    [slot |-> slot, timestamp |-> 0, ttl |-> NoLimit, authority |-> 3, version |-> 0,
     expected |-> Unset, idem |-> NoKey, wellTyped |-> TRUE]
MCBatches == {<<Observe(Load), Observe(Health)>>, <<Observe(Load)>>}
=============================================================================
