----------------------------- MODULE Admission -----------------------------
(***************************************************************************)
(* The rules by which the State Plane admits a write, shared by            *)
(* publish_state and upsert_relations (stateflow/state/plane.py), and the  *)
(* data they are about (stateflow/state/contracts.py).                     *)
(*                                                                         *)
(* A slot is what a write addresses:                                       *)
(*   <<"state", entity, key>>              an entry of _state              *)
(*   <<"relation", source, type, target>>  an entry of _relations          *)
(* A cell is what a slot holds.  The value itself is never looked at by a  *)
(* rule, so a cell keeps only the fields the rules compare.  Time is an    *)
(* integer clock, authority the IntEnum 0..4.                              *)
(***************************************************************************)
EXTENDS Integers

CONSTANTS
    NoLimit,    \* ttl or max_age that is None
    Unset,      \* expected_version that is None
    NoKey,      \* the empty idempotency key
    Absent      \* a slot or an entity that was never written

Authorities == 0..4   \* LOG_HINT .. AUTHORITATIVE_DOMAIN
Limits == Nat \cup {NoLimit}

Cell == [version : Int, authority : Authorities, timestamp : Int, ttl : Limits]

ASSUME AbsentIsNoCell == Absent \notin Cell
ASSUME UnsetIsNoVersion == Unset \notin Int
ASSUME NoLimitIsNoTime == NoLimit \notin Int

(***************************************************************************)
(* Freshness                                                               *)
(***************************************************************************)

\* StateValue.age: an observation from the future has age zero.
Age(cell, at) == IF at > cell.timestamp THEN at - cell.timestamp ELSE 0

\* StateValue.is_fresh without max_age, and GraphRelation.is_fresh.
IsFresh(cell, at) == cell.ttl = NoLimit \/ Age(cell, at) <= cell.ttl

\* StateValue.is_fresh with the reader's max_age.
IsFreshFor(cell, at, maxAge) ==
    IsFresh(cell, at) /\ (maxAge = NoLimit \/ Age(cell, at) <= maxAge)

(***************************************************************************)
(* The admission of an update over the cell its slot holds                 *)
(***************************************************************************)

VersionOf(cell) == IF cell = Absent THEN 0 ELSE cell.version

\* Mutant: "if update.expected_version", which takes 0 for None.
CasHoldsByTruth(update, cell) ==
    update.expected \notin {Unset, 0} => update.expected = VersionOf(cell)

\* Optimistic concurrency: an absent slot has version 0.
CasHolds(update, cell) ==
    update.expected # Unset => update.expected = VersionOf(cell)

\* Mutant: a value is given up one instant before it expires.
OutrankedStrictly(update, cell) ==
    /\ cell # Absent
    /\ update.authority < cell.authority
    /\ cell.ttl = NoLimit \/ Age(cell, update.timestamp) < cell.ttl

\* Whether the slot is held by a fresher authority is judged at the time the
\* update carries, not at the plane's own clock.
Outranked(update, cell) ==
    /\ cell # Absent
    /\ update.authority < cell.authority
    /\ IsFresh(cell, update.timestamp)

OutOfOrder(update, cell) ==
    /\ cell # Absent
    /\ update.authority = cell.authority
    /\ update.timestamp < cell.timestamp

\* Mutant: a writer may repeat the current version.
VersionGrowsOrStays(update, cell) ==
    cell # Absent /\ update.version # 0 => update.version >= cell.version

\* version 0 asks the plane to choose the next one.
VersionGrows(update, cell) ==
    cell # Absent /\ update.version # 0 => update.version > cell.version

Admits(update, cell) ==
    /\ CasHolds(update, cell)
    /\ ~ Outranked(update, cell)
    /\ ~ OutOfOrder(update, cell)
    /\ VersionGrows(update, cell)

NextVersion(update, cell) ==
    IF update.version # 0 THEN update.version
    ELSE IF cell = Absent THEN 1
    ELSE cell.version + 1

\* Mutant: the cell keeps the version asked for, not the one chosen.
WrittenAsAsked(update, cell) ==
    [version   |-> update.version,
     authority |-> update.authority,
     timestamp |-> update.timestamp,
     ttl       |-> update.ttl]

Written(update, cell) ==
    [version   |-> NextVersion(update, cell),
     authority |-> update.authority,
     timestamp |-> update.timestamp,
     ttl       |-> update.ttl]

(***************************************************************************)
(* The relation vocabulary                                                 *)
(***************************************************************************)

\* The entity type fixes the graph (GraphEntity.__post_init__).
ComponentTypes == {"component", "agent", "session", "task", "request", "tool_call",
                   "stateful_object", "runtime_object", "state_key_catalog"}
DeploymentTypes == {"cluster", "node", "instance", "resource", "link"}
EntityTypes == ComponentTypes \cup DeploymentTypes

Executions == {"request", "tool_call"}
Origins == {"agent", "session", "task", "request", "tool_call"}

\* <<source type, relation, target type>>
Vocabulary ==
    UNION {
        {"component"} \X {"manages"} \X ComponentTypes,
        Origins \X {"parent_of", "depends_on"} \X ComponentTypes,
        {"component"} \X {"serves", "executes"} \X Executions,
        ComponentTypes \X {"owns", "uses"} \X {"stateful_object"},
        {"component"} \X {"produces_state"} \X {"state_key_catalog"},
        Executions \X {"executing_on"} \X {"component", "instance"},
        {"cluster", "node"} \X {"contains"} \X {"node", "instance", "resource"},
        {"instance"} \X {"allocated_to"} \X {"resource"},
        {"node", "resource"} \X {"connected_to"} \X {"node", "resource"},
        {"component"} \X {"deployed_on"} \X {"instance", "node"},
        {"stateful_object"} \X {"located_on"} \X {"resource", "node"}}

RelationAllowed(sourceType, relation, targetType) ==
    <<sourceType, relation, targetType>> \in Vocabulary
============================================================================
