-------------------------- MODULE StatePlaneProofs --------------------------
(***************************************************************************)
(* What holds of StatePlane for every set of threads, entities, keys,      *)
(* batches and limits: its type, the write guarantees (what can happen to  *)
(* a slot, what the history records of it), and what its readers are told: *)
(* the change feed, the snapshots and the retained events all agree with   *)
(* the history of accepted writes, and batches and snapshots happen at     *)
(* once as far as a client can tell.                                       *)
(***************************************************************************)
EXTENDS StatePlaneRefinement, SequenceTheorems, FiniteSetTheorems, TLAPS

\* A bounded store keeps its type and its bound.
LEMMA PushTyped ==
    ASSUME NEW S, NEW s \in Seq(S), NEW x \in S, NEW max \in Nat, Len(s) <= max
    PROVE  Push(s, x, max) \in Seq(S) /\ Len(Push(s, x, max)) <= max
<1>1. Append(s, x) \in Seq(S) /\ Len(Append(s, x)) = Len(s) + 1
  OBVIOUS
<1>2. CASE Len(Append(s, x)) > max
  <2>1. Append(s, x) # <<>>
    BY <1>1, EmptySeq
  <2>2. Tail(Append(s, x)) \in Seq(S) /\ Len(Tail(Append(s, x))) = Len(s)
    BY <1>1, <2>1
  <2> QED
    BY <1>2, <2>2 DEF Push
<1>3. CASE ~ (Len(Append(s, x)) > max)
  BY <1>1, <1>3 DEF Push
<1> QED
  BY <1>2, <1>3

\* The slot of an item decides which kind of item it is.
LEMMA ItemKinds ==
    ASSUME NEW u \in Items
    PROVE  /\ IsCellWrite(u) => u \in CellWrites
           /\ IsEntity(u) => u \in EntityWrites
           /\ IsEvent(u) => u \in EventWrites
BY DEF Items, CellWrites, EntityWrites, EventWrites, IsCellWrite, IsEntity, IsEvent,
       Slots, StateSlots, RelationSlots

\* An update that passes the placement checks addresses a slot of the plane.
LEMMA WellPlacedInSlots ==
    ASSUME NEW u \in CellWrites, WellPlaced(u)
    PROVE  u.slot \in Slots
BY NamesAreApart DEF WellPlaced, CellWrites, Slots, StateSlots, RelationSlots

\* What an admitted update writes is a cell, of a version above the old one.
LEMMA WrittenIsCell ==
    ASSUME NEW u \in CellWrites, u.slot \in Slots,
           NEW cell \in Cell \cup {Absent}
    PROVE  /\ Written(WithTtl(u), cell) \in Cell
           /\ Written(WithTtl(u), cell) # Absent
           /\ Written(WithTtl(u), cell).version = NextVersion(u, cell)
           /\ Written(WithTtl(u), cell).authority = u.authority
           /\ NextVersion(u, cell) \in Int
           /\ Admits(u, cell) /\ cell # Absent => NextVersion(u, cell) > cell.version
<1>1. NextVersion(u, cell) \in Int
  BY DEF CellWrites, NextVersion, Cell
<1>2. WithTtl(u) \in [slot : {u.slot}, timestamp : Int, ttl : Limits, authority : Authorities,
                      version : {u.version}, expected : Int \cup {Unset},
                      idem : IdempotencyKeys \cup {NoKey}, wellTyped : BOOLEAN]
      /\ WithTtl(u).authority = u.authority
  <2>1. u.slot[1] = "state" => u.slot[3] \in Keys
    BY DEF Slots, StateSlots, RelationSlots
  <2> QED
    BY <2>1, RegistryIsTyped DEF WithTtl, CellWrites, Limits
<1>3. NextVersion(WithTtl(u), cell) = NextVersion(u, cell)
  BY <1>2 DEF NextVersion
<1>4. Written(WithTtl(u), cell) \in Cell
  BY <1>1, <1>2, <1>3 DEF Written, Cell
<1>5. Admits(u, cell) /\ cell # Absent => NextVersion(u, cell) > cell.version
  BY DEF Admits, VersionGrows, NextVersion, Cell, CellWrites
<1> QED
  BY <1>1, <1>2, <1>3, <1>4, <1>5, AbsentIsNoCell DEF Written

AnySlot == Slots \cup ({"entity"} \X Entities) \cup ({"event"} \X EventIds)

\* _record_change keeps the types of all it appends to.
LEMMA RecordChangeTyped ==
    ASSUME TypeOK, NEW t \in Threads, NEW slot \in AnySlot, NEW version \in Int,
           NEW idem \in IdempotencyKeys \cup {NoKey}, NEW expected \in Int \cup {Unset},
           RecordChange(t, slot, version, idem, expected)
    PROVE  /\ revision' \in Nat
           /\ changes' \in Seq(Change) /\ Len(changes') <= MaxChanges
           /\ notes' \in [Threads -> Seq(Change)]
           /\ \A u \in Threads : u # t => notes'[u] = notes[u]
           /\ log' \in Seq(LogEntry)
<1> DEFINE change == [cursor |-> revision + 1, slot |-> slot, version |-> version]
           entry == [slot |-> slot, version |-> version, idem |-> idem, expected |-> expected]
<1>1. /\ revision' = revision + 1 /\ changes' = Push(changes, change, MaxChanges)
      /\ notes' = [notes EXCEPT ![t] = Append(@, change)]
      /\ log' = Append(log, entry)
  BY DEF RecordChange
<1>2. change \in Change /\ entry \in LogEntry
  BY DEF TypeOK, StoreTypes, Change, LogEntry, AnySlot
<1> HIDE DEF change, entry
<1>3. changes' \in Seq(Change) /\ Len(changes') <= MaxChanges
  BY <1>1, <1>2, PushTyped, LimitsArePositive DEF TypeOK, StoreTypes, Limited
<1>4. log' \in Seq(LogEntry)
  BY <1>1, <1>2 DEF TypeOK, StoreTypes
<1>5. notes' \in [Threads -> Seq(Change)] /\ \A u \in Threads : u # t => notes'[u] = notes[u]
  BY <1>1, <1>2 DEF TypeOK, ThreadTypes
<1> QED
  BY <1>1, <1>3, <1>4, <1>5 DEF TypeOK, StoreTypes

\* The plane starts well typed.
LEMMA InitTyped == Init => TypeOK
<1> SUFFICES ASSUME Init PROVE TypeOK
  OBVIOUS
<1>1. log \in Seq(LogEntry) /\ Len(log) = Len(SetUp)
  <2>1. SetUp \in Seq(Entities) /\ DOMAIN SetUp = 1..Len(SetUp) /\ Len(SetUp) \in Nat
    BY InputsAreTyped
  <2>2. \A i \in 1..Len(SetUp) : Registration(SetUp[i]) \in LogEntry
    BY <2>1 DEF Registration, LogEntry
  <2>3. log = [i \in 1..Len(SetUp) |-> Registration(SetUp[i])]
    BY <2>1 DEF Init
  <2> QED
    BY <2>1, <2>2, <2>3, IsASeq
<1>2. FeedLength \in Nat /\ FeedLength <= MaxChanges /\ FeedLength <= Len(log)
  BY <1>1, LimitsArePositive, InputsAreTyped DEF FeedLength
<1>3. changes \in Seq(Change) /\ Len(changes) = FeedLength
  <2>1. \A i \in 1..FeedLength : ChangeAt(Len(log) - FeedLength + i) \in Change
    <3> TAKE i \in 1..FeedLength
    <3>1. Len(log) - FeedLength + i \in 1..Len(log) /\ Len(log) - FeedLength + i \in Nat
      BY <1>1, <1>2
    <3>2. log[Len(log) - FeedLength + i] \in LogEntry
      BY <1>1, <3>1
    <3> QED
      BY <3>1, <3>2 DEF ChangeAt, Change, LogEntry
  <2> QED
    BY <1>2, <2>1, IsASeq DEF Init, Recent
<1>4. StoreTypes
  <2>1. /\ now \in Nat /\ revision \in Nat /\ commits \subseteq Nat
        /\ entities \in [Entities -> Lifecycles \cup {Absent}]
    <3>1. Len(SetUp) \in Nat
      BY InputsAreTyped
    <3>2. entities \in [Entities -> Lifecycles \cup {Absent}]
      BY NamesAreApart DEF Init
    <3> QED
      BY <3>1, <3>2 DEF Init
  <2>2. /\ cells \in [Slots -> Cell \cup {Absent}]
        /\ idempotency \in [IdempotencyKeys -> [slot : Slots, version : Int] \cup {Absent}]
    BY DEF Init
  <2>3. /\ events \in Seq(EventIds) /\ snapshots \in Seq(Snapshot)
        /\ subscribers \in Seq(Callbacks) /\ metrics \in Seq(Samples)
    BY EmptySeq DEF Init
  <2>4. /\ since \in [Callbacks -> Nat] /\ delivered \in [Callbacks -> Seq(Nat)]
        /\ components \in [ComponentIds -> Descriptors \cup {Absent}]
        /\ heartbeats \in [Entities \cup ComponentIds -> Int \cup {Absent}]
    BY DEF Init
  <2> QED
    BY <1>1, <1>3, <2>1, <2>2, <2>3, <2>4 DEF StoreTypes
<1>5. ThreadTypes
  BY DEF Init, ThreadTypes
<1>6. Limited
  BY <1>2, <1>3, LimitsArePositive, EmptySeq DEF Init, Limited
<1>7. LockDiscipline
  BY NamesAreApart DEF Init, LockDiscipline
<1> QED
  BY <1>4, <1>5, <1>6, <1>7 DEF TypeOK

\* Taking the lock with a batch.
LEMMA CallTyped ==
    ASSUME TypeOK, NEW t \in Threads, NEW batch \in Batches, Call(t, batch)
    PROVE  TypeOK'
<1>1. batch \in Seq(Items)
  BY InputsAreTyped
<1>2. StoreTypes' /\ Limited'
  BY DEF Call, TypeOK, StoreTypes, Limited, telemetry, stored, readVars, watchers
<1>3. ThreadTypes'
  BY <1>1 DEF Call, TypeOK, ThreadTypes, readVars
<1>4. LockDiscipline'
  BY NamesAreApart DEF Call, TypeOK, ThreadTypes, LockDiscipline, readVars
<1> QED
  BY <1>2, <1>3, <1>4 DEF TypeOK

\* Inside a batch the lock holder consumes one item of its queue.
LEMMA AppliedTyped ==
    ASSUME TypeOK, NEW t \in Threads, Applying(t), Applied(t),
           StoreTypes', Len(changes') <= MaxChanges, Len(events') <= MaxEvents,
           notes' \in [Threads -> Seq(Change)], \A u \in Threads : u # t => notes'[u] = notes[u]
    PROVE  TypeOK'
<1>1. Tail(queue[t]) \in Seq(Items)
  BY DEF TypeOK, ThreadTypes, Applying
<1>2. ThreadTypes'
  BY <1>1 DEF TypeOK, ThreadTypes, Applied, readVars
<1>3. Limited'
  BY DEF TypeOK, Limited, Applied, telemetry, readVars
<1>4. LockDiscipline'
  BY DEF TypeOK, ThreadTypes, LockDiscipline, Applied, Applying, readVars
<1> QED
  BY <1>2, <1>3, <1>4 DEF TypeOK

LEMMA WriteCellTyped ==
    ASSUME TypeOK, NEW t \in Threads, WriteCell(t)
    PROVE  TypeOK'
<1> DEFINE u == Head(queue[t])
           version == NextVersion(u, cells[u.slot])
<1>1. u \in CellWrites /\ Applying(t) /\ Applied(t)
  BY ItemKinds DEF WriteCell, Applying, TypeOK, ThreadTypes
<1>2. u.slot \in Slots /\ Accepts(u)
  BY <1>1, WellPlacedInSlots DEF WriteCell, Accepts
<1>3. cells[u.slot] \in Cell \cup {Absent}
  BY <1>2 DEF TypeOK, StoreTypes
<1>4. Written(WithTtl(u), cells[u.slot]) \in Cell /\ version \in Int
  BY <1>1, <1>2, <1>3, WrittenIsCell
<1>5. RecordChange(t, u.slot, version, u.idem, u.expected)
  BY DEF WriteCell
<1>6. u.idem \in IdempotencyKeys \cup {NoKey} /\ u.expected \in Int \cup {Unset}
  BY <1>1 DEF CellWrites
<1> HIDE DEF version
<1>7. /\ revision' \in Nat /\ changes' \in Seq(Change) /\ Len(changes') <= MaxChanges
      /\ notes' \in [Threads -> Seq(Change)] /\ \A v \in Threads : v # t => notes'[v] = notes[v]
      /\ log' \in Seq(LogEntry)
  BY <1>2, <1>4, <1>5, <1>6, RecordChangeTyped DEF AnySlot
<1>8. cells' \in [Slots -> Cell \cup {Absent}]
  BY <1>2, <1>4 DEF WriteCell, TypeOK, StoreTypes
<1>9. idempotency' \in [IdempotencyKeys -> [slot : Slots, version : Int] \cup {Absent}]
  <2>1. [slot |-> u.slot, version |-> version] \in [slot : Slots, version : Int]
    BY <1>2, <1>4
  <2>2. idempotency' = IF u.idem = NoKey THEN idempotency
           ELSE [idempotency EXCEPT ![u.idem] = [slot |-> u.slot, version |-> version]]
    BY DEF WriteCell, version
  <2> QED
    BY <2>1, <2>2, <1>6 DEF TypeOK, StoreTypes
<1>10. StoreTypes' /\ Len(events') <= MaxEvents
  BY <1>7, <1>8, <1>9
     DEF WriteCell, Applied, TypeOK, StoreTypes, Limited, telemetry, readVars, watchers
<1> QED
  BY <1>1, <1>7, <1>10, AppliedTyped

LEMMA RefuseCellTyped ==
    ASSUME TypeOK, NEW t \in Threads, RefuseCell(t)
    PROVE  TypeOK'
<1>1. StoreTypes' /\ Len(changes') <= MaxChanges /\ Len(events') <= MaxEvents
  BY DEF RefuseCell, Applied, TypeOK, StoreTypes, Limited, telemetry, readVars, watchers, stored
<1>2. notes' = notes /\ Applying(t) /\ Applied(t)
  BY DEF RefuseCell
<1> QED
  BY <1>1, <1>2, AppliedTyped DEF TypeOK, ThreadTypes

LEMMA UpsertEntityTyped ==
    ASSUME TypeOK, NEW t \in Threads, UpsertEntity(t)
    PROVE  TypeOK'
<1> DEFINE e == Head(queue[t])
<1>1. e \in EntityWrites /\ Applying(t) /\ Applied(t)
  BY ItemKinds DEF UpsertEntity, Applying, TypeOK, ThreadTypes
<1>2. CASE UNCHANGED <<stored, notes>>
  <2>1. StoreTypes' /\ Len(changes') <= MaxChanges /\ Len(events') <= MaxEvents
    BY <1>1, <1>2 DEF Applied, TypeOK, StoreTypes, Limited, telemetry, readVars, watchers, stored
  <2> QED
    BY <1>1, <1>2, <2>1, AppliedTyped DEF TypeOK, ThreadTypes
<1>3. CASE /\ entities' = [entities EXCEPT ![e.slot[2]] = e.lifecycle]
           /\ RecordChange(t, e.slot, 1, NoKey, Unset)
           /\ UNCHANGED <<cells, idempotency, events>>
  <2>1. e.slot \in AnySlot /\ e.slot[2] \in Entities /\ e.lifecycle \in Lifecycles
    BY <1>1 DEF EntityWrites, AnySlot
  <2>2. /\ revision' \in Nat /\ changes' \in Seq(Change) /\ Len(changes') <= MaxChanges
        /\ notes' \in [Threads -> Seq(Change)] /\ \A v \in Threads : v # t => notes'[v] = notes[v]
        /\ log' \in Seq(LogEntry)
    <3>1. 1 \in Int /\ NoKey \in IdempotencyKeys \cup {NoKey} /\ Unset \in Int \cup {Unset}
      OBVIOUS
    <3> HIDE DEF e
    <3> QED
      BY <1>3, <2>1, <3>1, RecordChangeTyped
  <2>3. StoreTypes' /\ Len(events') <= MaxEvents
    BY <1>1, <1>3, <2>1, <2>2
       DEF Applied, TypeOK, StoreTypes, Limited, telemetry, readVars, watchers
  <2> QED
    BY <1>1, <2>2, <2>3, AppliedTyped
<1> QED
  BY <1>2, <1>3 DEF UpsertEntity

LEMMA PublishEventTyped ==
    ASSUME TypeOK, NEW t \in Threads, PublishEvent(t)
    PROVE  TypeOK'
<1> DEFINE e == Head(queue[t])
<1>1. e \in EventWrites /\ Applying(t) /\ Applied(t)
  BY ItemKinds DEF PublishEvent, Applying, TypeOK, ThreadTypes
<1>2. CASE UNCHANGED <<stored, notes>>
  <2>1. StoreTypes' /\ Len(changes') <= MaxChanges /\ Len(events') <= MaxEvents
    BY <1>1, <1>2 DEF Applied, TypeOK, StoreTypes, Limited, telemetry, readVars, watchers, stored
  <2> QED
    BY <1>1, <1>2, <2>1, AppliedTyped DEF TypeOK, ThreadTypes
<1>3. CASE /\ events' = Push(events, e.slot[2], MaxEvents)
           /\ RecordChange(t, e.slot, 1, NoKey, Unset)
           /\ UNCHANGED <<entities, cells, idempotency>>
  <2>1. e.slot \in AnySlot /\ e.slot[2] \in EventIds
    BY <1>1 DEF EventWrites, AnySlot
  <2>2. /\ revision' \in Nat /\ changes' \in Seq(Change) /\ Len(changes') <= MaxChanges
        /\ notes' \in [Threads -> Seq(Change)] /\ \A v \in Threads : v # t => notes'[v] = notes[v]
        /\ log' \in Seq(LogEntry)
    <3>1. 1 \in Int /\ NoKey \in IdempotencyKeys \cup {NoKey} /\ Unset \in Int \cup {Unset}
      OBVIOUS
    <3> HIDE DEF e
    <3> QED
      BY <1>3, <2>1, <3>1, RecordChangeTyped
  <2>3. events' \in Seq(EventIds) /\ Len(events') <= MaxEvents
    BY <1>3, <2>1, PushTyped, LimitsArePositive DEF TypeOK, StoreTypes, Limited
  <2>4. StoreTypes'
    BY <1>1, <1>3, <2>2, <2>3 DEF Applied, TypeOK, StoreTypes, telemetry, readVars, watchers
  <2> QED
    BY <1>1, <2>2, <2>3, <2>4, AppliedTyped
<1> QED
  BY <1>2, <1>3 DEF PublishEvent

\* The calls a batch still owes name its changes and the subscribers.
LEMMA NotificationsTyped ==
    ASSUME TypeOK, NEW t \in Threads
    PROVE  Notifications(t) \in Seq([change : Change, callback : Callbacks])
<1> DEFINE n == Len(subscribers)
           m == Len(notes[t])
           call(i) == [change   |-> notes[t][((i - 1) \div n) + 1],
                       callback |-> subscribers[((i - 1) % n) + 1]]
<1>1. /\ subscribers \in Seq(Callbacks) /\ notes[t] \in Seq(Change)
      /\ n \in Nat /\ m \in Nat /\ m * n \in Nat
  BY DEF TypeOK, StoreTypes, ThreadTypes
<1>2. \A i \in 1..(m * n) : call(i) \in [change : Change, callback : Callbacks]
  <2> TAKE i \in 1..(m * n)
  <2>1. n > 0
    BY <1>1
  <2>2. ((i - 1) % n) + 1 \in 1..n
    BY <1>1, <2>1
  <2>3. ((i - 1) \div n) + 1 \in 1..m
    <3> DEFINE q == (i - 1) \div n
    <3>1. q \in Int /\ i - 1 = n * q + ((i - 1) % n) /\ (i - 1) % n \in 0..(n - 1)
      BY <1>1, <2>1
    <3> HIDE DEF q
    <3>2. q >= 0
      BY <1>1, <2>1, <3>1, SMT
    <3>3. q < m
      <4>1. SUFFICES ASSUME q >= m PROVE FALSE
        BY <1>1, <3>1
      <4>2. n * q = n * m + n * (q - m) /\ n * (q - m) >= 0
        BY <1>1, <2>1, <3>1, <4>1, SMT
      <4>3. n * m = m * n
        BY <1>1
      <4> QED
        BY <1>1, <2>1, <3>1, <4>2, <4>3
    <3> QED
      BY <1>1, <3>1, <3>2, <3>3 DEF q
  <2> QED
    BY <1>1, <2>2, <2>3
<1> HIDE DEF call
<1>3. [i \in 1..(m * n) |-> call(i)] \in Seq([change : Change, callback : Callbacks])
  BY <1>1, <1>2, IsASeq
<1> QED
  BY <1>3 DEF Notifications, call

LEMMA CommitTyped ==
    ASSUME TypeOK, NEW t \in Threads, Commit(t)
    PROVE  TypeOK'
<1>1. StoreTypes' /\ Limited'
  BY DEF Commit, TypeOK, StoreTypes, Limited, telemetry, stored, readVars, watchers
<1>2. ThreadTypes'
  BY NotificationsTyped, EmptySeq DEF Commit, TypeOK, ThreadTypes, readVars
<1>3. LockDiscipline'
  <2>1. lock = t /\ lock' = Free /\ pc' = [pc EXCEPT ![t] = IF Notifications(t) = <<>>
                                               THEN "idle" ELSE "notifying"]
    BY DEF Commit, TypeOK, LockDiscipline
  <2> QED
    BY <2>1, NamesAreApart DEF Commit, TypeOK, ThreadTypes, LockDiscipline, readVars
<1> QED
  BY <1>1, <1>2, <1>3 DEF TypeOK

\* Taking the head of a sequence of length one leaves nothing.
LEMMA OneLeft ==
    ASSUME NEW S, NEW s \in Seq(S), s # <<>>
    PROVE  Head(s) \in S /\ Tail(s) \in Seq(S) /\ (Len(s) = 1 <=> Tail(s) = <<>>)
<1>1. Head(s) \in S /\ Tail(s) \in Seq(S) /\ Len(Tail(s)) = Len(s) - 1
  OBVIOUS
<1>2. Tail(s) = <<>> <=> Len(Tail(s)) = 0
  BY <1>1, EmptySeq
<1> QED
  BY <1>1, <1>2

LEMMA DeliverTyped ==
    ASSUME TypeOK, NEW t \in Threads, Deliver(t)
    PROVE  TypeOK'
<1> DEFINE call == Head(pending[t])
<1>1. /\ pending[t] # <<>> /\ pending[t] \in Seq([change : Change, callback : Callbacks])
      /\ call \in [change : Change, callback : Callbacks]
      /\ Tail(pending[t]) \in Seq([change : Change, callback : Callbacks])
      /\ Len(pending[t]) = 1 <=> Tail(pending[t]) = <<>>
  <2>1. pending[t] # <<>> /\ pending[t] \in Seq([change : Change, callback : Callbacks])
    BY DEF Deliver, TypeOK, ThreadTypes, LockDiscipline
  <2> QED
    BY <2>1, OneLeft
<1>2. call.callback \in Callbacks /\ call.change.cursor \in Nat
  BY <1>1 DEF Change
<1> HIDE DEF call
<1>3. delivered' \in [Callbacks -> Seq(Nat)]
  BY <1>2 DEF Deliver, TypeOK, StoreTypes, call
<1>4. StoreTypes' /\ Limited'
  BY <1>3 DEF Deliver, TypeOK, StoreTypes, Limited, telemetry, stored, readVars
<1>5. ThreadTypes'
  BY <1>1 DEF Deliver, TypeOK, ThreadTypes, readVars
<1>6. LockDiscipline'
  BY <1>1 DEF Deliver, TypeOK, ThreadTypes, LockDiscipline, readVars
<1> QED
  BY <1>4, <1>5, <1>6 DEF TypeOK

LEMMA SubscribeTyped ==
    ASSUME TypeOK, NEW c \in Callbacks, Subscribe(c)
    PROVE  TypeOK'
<1>1. StoreTypes' /\ Limited'
  BY DEF Subscribe, TypeOK, StoreTypes, Limited, telemetry, stored, readVars
<1>2. ThreadTypes' /\ LockDiscipline'
  BY DEF Subscribe, TypeOK, ThreadTypes, LockDiscipline, lockVars, readVars
<1> QED
  BY <1>1, <1>2 DEF TypeOK

LEMMA SnapshotCallTyped ==
    ASSUME TypeOK, NEW t \in Threads, NEW r \in Requests, SnapshotCall(t, r)
    PROVE  TypeOK'
<1>1. StoreTypes' /\ Limited'
  BY DEF SnapshotCall, TypeOK, StoreTypes, Limited, telemetry, stored, watchers
<1>2. [request |-> r, at |-> now] \in [request : Requests, at : Nat]
  BY DEF TypeOK, StoreTypes
<1>3. ThreadTypes'
  BY <1>2 DEF SnapshotCall, TypeOK, ThreadTypes
<1>4. LockDiscipline'
  BY <1>2, NamesAreApart DEF SnapshotCall, TypeOK, ThreadTypes, LockDiscipline
<1> QED
  BY <1>1, <1>3, <1>4 DEF TypeOK

\* What get_snapshot hands out is a snapshot.
\* It shows slots that were written, at the version they are at.
LEMMA TakenSnapshot ==
    ASSUME TypeOK, NEW t \in Threads, SnapshotTake(t)
    PROVE  \E snap \in Snapshot :
              /\ snapshots' = Push(snapshots, snap, MaxSnapshots)
              /\ snap.logicalTime = revision
              /\ \A item \in snap.shown : \E s \in Slots :
                    cells[s] # Absent /\ item = <<s, cells[s].version>>
<1> DEFINE r == asked[t].request
           at == asked[t].at
           shown == Selected(r, at) \cup RelationsInScope(r, at)
           snap == [token |-> NextToken, logicalTime |-> revision, createdAt |-> at,
                    shown |-> {<<s, cells[s].version>> : s \in shown},
                    stale |-> Readable(r) \ Selected(r, at), missing |-> Missing(r)]
<1>1. asked[t] \in [request : Requests, at : Nat]
  BY DEF SnapshotTake, MayRead, TypeOK, ThreadTypes, LockDiscipline
<1>2. r \in SnapshotQueries /\ at \in Nat
  BY <1>1, InputsAreTyped
<1>3. /\ Selected(r, at) \subseteq Readable(r) /\ Readable(r) \subseteq StateSlots
      /\ RelationsInScope(r, at) \subseteq RelationSlots
      /\ \A s \in shown : s \in Slots /\ cells[s] # Absent
  BY DEF Selected, Readable, Sought, RelationsInScope, Slots
<1>4. {<<s, cells[s].version>> : s \in shown} \subseteq Slots \X Int
  <2>1. \A s \in shown : cells[s].version \in Int
    BY <1>3 DEF TypeOK, StoreTypes, Cell
  <2> QED
    BY <1>3, <2>1
<1>5. Missing(r) \subseteq {<<e>> : e \in Entities} \cup (Entities \X UnknownKeys) \cup StateSlots
  <2>1. r.entities \subseteq Entities /\ r.keys \ Keys \subseteq UnknownKeys
    BY <1>2 DEF SnapshotQueries
  <2> QED
    BY <2>1 DEF Missing, Sought
<1>6. NextToken \in Nat
  <2>1. CASE snapshots = <<>>
    BY <2>1 DEF NextToken
  <2>2. CASE snapshots # <<>>
    <3>1. snapshots[Len(snapshots)] \in Snapshot
      BY <2>2, EmptySeq DEF TypeOK, StoreTypes
    <3> QED
      BY <2>2, <3>1 DEF NextToken, Snapshot
  <2> QED
    BY <2>1, <2>2
<1>7. snap \in Snapshot
  <2>1. revision \in Nat
    BY DEF TypeOK, StoreTypes
  <2> HIDE DEF shown, r, at
  <2> QED
    BY <1>2, <1>3, <1>4, <1>5, <1>6, <2>1 DEF Snapshot
<1>8. snapshots' = Push(snapshots, snap, MaxSnapshots)
  BY DEF SnapshotTake
<1>9. snap.logicalTime = revision /\ snap.shown = {<<s, cells[s].version>> : s \in shown}
  OBVIOUS
<1> HIDE DEF snap, shown
<1> QED
  BY <1>3, <1>7, <1>8, <1>9

LEMMA SnapshotTakeTyped ==
    ASSUME TypeOK, NEW t \in Threads, SnapshotTake(t)
    PROVE  TypeOK'
<1>1. snapshots' \in Seq(Snapshot) /\ Len(snapshots') <= MaxSnapshots
  BY TakenSnapshot, PushTyped, LimitsArePositive DEF TypeOK, StoreTypes, Limited
<1>2. StoreTypes' /\ Limited'
  BY <1>1 DEF SnapshotTake, TypeOK, StoreTypes, Limited, telemetry, stored, watchers
<1>3. ThreadTypes' /\ LockDiscipline'
  BY DEF SnapshotTake, MayRead, TypeOK, ThreadTypes, LockDiscipline
<1> QED
  BY <1>2, <1>3 DEF TypeOK

\* Metrics, heartbeats and components touch nothing but their own stores.
LEMMA TelemetryTyped ==
    ASSUME TypeOK,
           \/ \E m \in Samples : PublishMetric(m)
           \/ \E b \in Beats : Heartbeat(b)
           \/ \E d \in Descriptors : RegisterComponent(d)
    PROVE  TypeOK'
<1>1. metrics' \in Seq(Samples) /\ Len(metrics') <= MaxMetrics
  BY PushTyped, LimitsArePositive
     DEF PublishMetric, Heartbeat, RegisterComponent, TypeOK, StoreTypes, Limited
<1>2. components' \in [ComponentIds -> Descriptors \cup {Absent}]
  BY DEF PublishMetric, Heartbeat, RegisterComponent, TypeOK, StoreTypes
<1>3. heartbeats' \in [Entities \cup ComponentIds -> Int \cup {Absent}]
  BY InputsAreTyped DEF PublishMetric, Heartbeat, RegisterComponent, TypeOK, StoreTypes
<1>4. UNCHANGED <<now, lockVars, stored, readVars, watchers, commits>>
  BY DEF PublishMetric, Heartbeat, RegisterComponent
<1>5. StoreTypes' /\ Limited'
  BY <1>1, <1>2, <1>3, <1>4 DEF TypeOK, StoreTypes, Limited, stored, readVars, watchers
<1>6. ThreadTypes' /\ LockDiscipline'
  BY <1>4 DEF TypeOK, ThreadTypes, LockDiscipline, lockVars, readVars
<1> QED
  BY <1>5, <1>6 DEF TypeOK

LEMMA IdleTyped ==
    ASSUME TypeOK, Tick \/ UNCHANGED vars
    PROVE  TypeOK'
<1>1. /\ now' \in Nat
      /\ UNCHANGED <<lockVars, telemetry, stored, readVars, watchers, commits>>
  BY DEF Tick, vars, TypeOK, StoreTypes
<1> QED
  BY <1>1 DEF TypeOK, StoreTypes, ThreadTypes, Limited, LockDiscipline,
              lockVars, telemetry, stored, readVars, watchers

LEMMA StepTyped == TypeOK /\ [Next]_vars => TypeOK'
BY CallTyped, WriteCellTyped, RefuseCellTyped, UpsertEntityTyped, PublishEventTyped,
   CommitTyped, DeliverTyped, SubscribeTyped, SnapshotCallTyped, SnapshotTakeTyped,
   TelemetryTyped, IdleTyped
   DEF Next, WriteStep

\* Every behaviour of the plane is well typed, keeps every bounded store within
\* its limit, and has the lock held by exactly the thread inside a write call.
THEOREM TypeCorrect == Spec => []TypeOK
BY InitTyped, StepTyped, PTL DEF Spec

(***************************************************************************)
(* What a step can do to the store                                         *)
(***************************************************************************)

\* An entry for an entity or an event: no slot, no key, nothing expected.
Marks == [slot : ({"entity"} \X Entities) \cup ({"event"} \X EventIds), version : Int,
          idem : {NoKey}, expected : {Unset}]

Entry(u, version) ==
    [slot |-> u.slot, version |-> version, idem |-> u.idem, expected |-> u.expected]

\* What an accepted update does, with everything its admission knew.
LEMMA WriteCellDoes ==
    ASSUME TypeOK, NEW t \in Threads, WriteCell(t)
    PROVE  \E u \in CellWrites :
              LET version == NextVersion(u, cells[u.slot]) IN
              /\ queue[t] # <<>> /\ u = Head(queue[t])
              /\ u.slot \in Slots /\ ~ Duplicate(u) /\ Admits(u, cells[u.slot])
              /\ version \in Int
              /\ cells' = [cells EXCEPT ![u.slot] = Written(WithTtl(u), cells[u.slot])]
              /\ log' = Append(log, Entry(u, version))
              /\ revision' = revision + 1
              /\ notes' = [notes EXCEPT ![t] = Append(@,
                     [cursor |-> revision + 1, slot |-> u.slot, version |-> version])]
              /\ idempotency' = IF u.idem = NoKey THEN idempotency
                    ELSE [idempotency EXCEPT ![u.idem] = [slot |-> u.slot, version |-> version]]
<1> DEFINE u == Head(queue[t])
           version == NextVersion(u, cells[u.slot])
<1>1. u \in CellWrites /\ queue[t] # <<>>
  BY ItemKinds DEF WriteCell, Applying, TypeOK, ThreadTypes
<1>2. u.slot \in Slots /\ ~ Duplicate(u) /\ Admits(u, cells[u.slot])
  BY <1>1, WellPlacedInSlots DEF WriteCell, Accepts
<1>3. version \in Int
  BY <1>1, <1>2, WrittenIsCell DEF TypeOK, StoreTypes
<1>4. /\ cells' = [cells EXCEPT ![u.slot] = Written(WithTtl(u), cells[u.slot])]
      /\ RecordChange(t, u.slot, version, u.idem, u.expected)
      /\ idempotency' = IF u.idem = NoKey THEN idempotency
            ELSE [idempotency EXCEPT ![u.idem] = [slot |-> u.slot, version |-> version]]
  BY DEF WriteCell
<1> HIDE DEF u
<1> QED
  BY <1>1, <1>2, <1>3, <1>4 DEF RecordChange, Entry, u

\* Recording an entity or an event appends a mark to the history.
LEMMA RecordMark ==
    ASSUME TypeOK, NEW t \in Threads, UpsertEntity(t) \/ PublishEvent(t)
    PROVE  /\ UNCHANGED <<cells, idempotency>>
           /\ \/ UNCHANGED <<log, revision, notes>>
              \/ /\ \E m \in Marks : log' = Append(log, m)
                 /\ revision' = revision + 1
                 /\ \E c \in Change :
                       /\ c.slot \notin Slots
                       /\ notes' = [notes EXCEPT ![t] = Append(@, c)]
<1> DEFINE e == Head(queue[t])
<1>1. e \in Items /\ UNCHANGED <<cells, idempotency>>
  BY DEF UpsertEntity, PublishEvent, Applying, TypeOK, ThreadTypes, stored
<1>2. CASE UNCHANGED <<stored, notes>>
  BY <1>1, <1>2 DEF stored
<1>3. CASE RecordChange(t, e.slot, 1, NoKey, Unset)
  <2>1. e.slot \in ({"entity"} \X Entities) \cup ({"event"} \X EventIds)
    BY <1>1, ItemKinds DEF UpsertEntity, PublishEvent, EntityWrites, EventWrites
  <2>2. e.slot \notin Slots
    BY <2>1 DEF Slots, StateSlots, RelationSlots
  <2>3. [slot |-> e.slot, version |-> 1, idem |-> NoKey, expected |-> Unset] \in Marks
    BY <2>1 DEF Marks
  <2>4. [cursor |-> revision + 1, slot |-> e.slot, version |-> 1] \in Change
    BY <2>1 DEF Change, TypeOK, StoreTypes
  <2> HIDE DEF e
  <2> QED
    BY <1>1, <1>3, <2>2, <2>3, <2>4 DEF RecordChange
<1> QED
  BY <1>2, <1>3 DEF UpsertEntity, PublishEvent

\* Only accepted updates, entities and events reach the store.
LEMMA StoreSteps ==
    ASSUME TypeOK, [Next]_vars
    PROVE  \/ \E t \in Threads : WriteCell(t)
           \/ \E t \in Threads : UpsertEntity(t) \/ PublishEvent(t)
           \/ UNCHANGED stored
<1>1. CASE UNCHANGED vars
  BY <1>1 DEF vars
<1>2. CASE Next
  <2>1. ASSUME NEW t \in Threads, WriteStep(t), ~ WriteCell(t), ~ UpsertEntity(t), ~ PublishEvent(t)
        PROVE UNCHANGED stored
    BY <2>1 DEF WriteStep, RefuseCell, Commit, Deliver
  <2>2. ASSUME NEW t \in Threads,
               (\E batch \in Batches : Call(t, batch)) \/ (\E r \in Requests : SnapshotCall(t, r))
                  \/ SnapshotTake(t)
        PROVE UNCHANGED stored
    BY <2>2 DEF Call, SnapshotCall, SnapshotTake
  <2>3. ASSUME \/ \E c \in Callbacks : Subscribe(c)
               \/ \E m \in Samples : PublishMetric(m)
               \/ \E b \in Beats : Heartbeat(b)
               \/ \E d \in Descriptors : RegisterComponent(d)
               \/ Tick
        PROVE UNCHANGED stored
    BY <2>3 DEF Subscribe, PublishMetric, Heartbeat, RegisterComponent, Tick
  <2> QED
    BY <1>2, <2>1, <2>2, <2>3 DEF Next
<1> QED
  BY <1>1, <1>2

(***************************************************************************)
(* Versions                                                                *)
(***************************************************************************)
LEMMA VersionStep ==
    ASSUME TypeOK, [Next]_vars, NEW s \in Slots
    PROVE  /\ cells'[s] # cells[s] /\ cells[s] # Absent =>
                 cells'[s] # Absent /\ cells'[s].version > cells[s].version
           /\ cells[s] # Absent => cells'[s] # Absent
<1>1. CASE \E t \in Threads : WriteCell(t)
  <2>1. PICK u \in CellWrites :
           /\ u.slot \in Slots /\ Admits(u, cells[u.slot])
           /\ cells' = [cells EXCEPT ![u.slot] = Written(WithTtl(u), cells[u.slot])]
    BY <1>1, WriteCellDoes
  <2>2. cells[u.slot] \in Cell \cup {Absent}
    BY <2>1 DEF TypeOK, StoreTypes
  <2>3. /\ Written(WithTtl(u), cells[u.slot]) # Absent
        /\ cells[u.slot] # Absent =>
              Written(WithTtl(u), cells[u.slot]).version > cells[u.slot].version
    BY <2>1, <2>2, WrittenIsCell
  <2> QED
    BY <2>1, <2>3 DEF TypeOK, StoreTypes
<1>2. CASE ~ \E t \in Threads : WriteCell(t)
  BY <1>2, StoreSteps, RecordMark DEF stored
<1> QED
  BY <1>1, <1>2

\* The version of a slot only grows, whoever writes it and however.
THEOREM VersionsGrow == Spec => VersionsIncrease
<1>1. TypeOK /\ [Next]_vars =>
        [\A s \in Slots : cells'[s] # cells[s] /\ cells[s] # Absent =>
            cells'[s] # Absent /\ cells'[s].version > cells[s].version]_vars
  BY VersionStep
<1> QED
  BY <1>1, TypeCorrect, PTL DEF Spec, VersionsIncrease

(***************************************************************************)
(* Idempotency                                                             *)
(***************************************************************************)
LEMMA AppliedOnceInit == Init => AppliedOnce
<1> SUFFICES ASSUME Init PROVE AppliedOnce
  OBVIOUS
<1>1. \A i \in DOMAIN log : log[i].idem = NoKey
  BY InputsAreTyped DEF Init, Registration
<1>2. \A k \in IdempotencyKeys : idempotency[k] = Absent /\ k # NoKey
  BY NamesAreApart DEF Init
<1> QED
  BY <1>1, <1>2 DEF AppliedOnce

\* The entries of a grown history.
LEMMA AppendedLog ==
    ASSUME TypeOK, NEW e, log' = Append(log, e)
    PROVE  /\ Len(log) \in Nat /\ DOMAIN log = 1..Len(log)
           /\ DOMAIN log' = 1..(Len(log) + 1) /\ Len(log') = Len(log) + 1
           /\ \A i \in DOMAIN log : log'[i] = log[i] /\ i \in DOMAIN log' /\ i # Len(log) + 1
           /\ log'[Len(log) + 1] = e
<1>1. log \in Seq(LogEntry)
  BY DEF TypeOK, StoreTypes
<1> QED
  BY <1>1

LEMMA AppliedOnceStep ==
    ASSUME TypeOK, AppliedOnce, [Next]_vars
    PROVE  AppliedOnce'
<1> DEFINE Uses(k) == {i \in DOMAIN log : log[i].idem = k}
<1>1. CASE UNCHANGED <<log, idempotency>>
  BY <1>1 DEF AppliedOnce
<1>2. ASSUME NEW m \in Marks, log' = Append(log, m), UNCHANGED idempotency
      PROVE AppliedOnce'
  <2>1. m.idem = NoKey
    BY DEF Marks
  <2>2. \A k \in IdempotencyKeys : Uses(k)' = Uses(k)
    BY <1>2, <2>1, AppendedLog, NamesAreApart
  <2> QED
    BY <1>2, <2>2, AppendedLog DEF AppliedOnce
<1>3. ASSUME NEW u \in CellWrites, NEW version \in Int,
             u.slot \in Slots, ~ Duplicate(u), log' = Append(log, Entry(u, version)),
             idempotency' = IF u.idem = NoKey THEN idempotency
                ELSE [idempotency EXCEPT ![u.idem] = [slot |-> u.slot, version |-> version]]
      PROVE AppliedOnce'
  <2> DEFINE n == Len(log) + 1
  <2>1. /\ log'[n].idem = u.idem /\ log'[n].slot = u.slot /\ log'[n].version = version
        /\ u.idem \in IdempotencyKeys \cup {NoKey}
    BY <1>3, AppendedLog DEF Entry, CellWrites
  <2>2. ASSUME NEW k \in IdempotencyKeys, k # u.idem
        PROVE  Uses(k)' = Uses(k) /\ idempotency'[k] = idempotency[k]
    BY <1>3, <2>1, <2>2, AppendedLog DEF TypeOK, StoreTypes
  <2>3. ASSUME u.idem \in IdempotencyKeys
        PROVE  /\ Uses(u.idem)' = {n} /\ n \in DOMAIN log'
               /\ idempotency'[u.idem] = [slot |-> u.slot, version |-> version]
               /\ idempotency'[u.idem] # Absent
    <3>1. u.idem # NoKey /\ idempotency[u.idem] = Absent
      BY <1>3, <2>3, NamesAreApart DEF Duplicate
    <3>2. Uses(u.idem) = {}
      BY <2>3, <3>1 DEF AppliedOnce
    <3>3. idempotency'[u.idem] = [slot |-> u.slot, version |-> version]
      BY <1>3, <2>3, <3>1 DEF TypeOK, StoreTypes
    <3>4. idempotency'[u.idem] # Absent
      BY <1>3, <3>3, NamesAreApart
    <3> QED
      BY <1>3, <2>1, <3>2, <3>3, <3>4, AppendedLog
  <2>4. ASSUME NEW k \in IdempotencyKeys
        PROVE  IF idempotency'[k] = Absent THEN Uses(k)' = {}
               ELSE \E i \in Uses(k)' :
                       /\ Uses(k)' = {i}
                       /\ log'[i].slot = idempotency'[k].slot
                       /\ log'[i].version = idempotency'[k].version
    <3>1. CASE k = u.idem
      BY <2>1, <2>3, <3>1
    <3>2. CASE k # u.idem
      <4>1. \A i \in Uses(k) : log'[i] = log[i]
        BY <1>3, AppendedLog
      <4> QED
        BY <2>2, <3>2, <4>1 DEF AppliedOnce
    <3> QED
      BY <3>1, <3>2
  <2> QED
    BY <2>4 DEF AppliedOnce
<1>4. CASE \E t \in Threads : WriteCell(t)
  <2>1. PICK u \in CellWrites :
           /\ u.slot \in Slots /\ ~ Duplicate(u) /\ NextVersion(u, cells[u.slot]) \in Int
           /\ log' = Append(log, Entry(u, NextVersion(u, cells[u.slot])))
           /\ idempotency' = IF u.idem = NoKey THEN idempotency
                 ELSE [idempotency EXCEPT ![u.idem] =
                          [slot |-> u.slot, version |-> NextVersion(u, cells[u.slot])]]
    BY <1>4, WriteCellDoes
  <2> QED
    BY <1>3, <2>1
<1> QED
  BY <1>1, <1>2, <1>4, StoreSteps, RecordMark DEF stored

\* An idempotency key changes the plane at most once, in every execution, and
\* its remembered answer names the one write it stands for.
THEOREM IdempotentWrites == Spec => []AppliedOnce
BY AppliedOnceInit, AppliedOnceStep, TypeCorrect, PTL DEF Spec

(***************************************************************************)
(* Compare and set                                                         *)
(***************************************************************************)

\* What makes CasWinsOnce inductive: an expectation that was met lies below the
\* version its slot has now.
ExpectationsAreSpent ==
    \A i \in DOMAIN log :
        log[i].expected # Unset =>
            /\ log[i].slot \in Slots /\ cells[log[i].slot] # Absent
            /\ log[i].expected < cells[log[i].slot].version

\* No caller asks for a negative version (the interfaces would let it).
NaturalVersions ==
    \A b \in Batches : \A i \in DOMAIN b : IsCellWrite(b[i]) => b[i].version >= 0

\* What Call checks of a batch stays true of the items still to apply.
QueuesAreSound ==
    \A t \in Threads : \A i \in DOMAIN queue[t] :
        IsCellWrite(queue[t][i]) =>
            /\ queue[t][i].timestamp <= now + MaxSkew
            /\ NaturalVersions => queue[t][i].version >= 0

LEMMA QueuesInit == Init => QueuesAreSound
BY DEF Init, QueuesAreSound

\* How a step changes the queues.
LEMMA QueueSteps ==
    ASSUME TypeOK, [Next]_vars
    PROVE  \/ UNCHANGED <<queue, now>>
           \/ UNCHANGED queue /\ now' = now + 1
           \/ \E t \in Threads, batch \in Batches :
                 /\ queue' = [queue EXCEPT ![t] = batch] /\ UNCHANGED now
                 /\ \A i \in DOMAIN batch :
                       IsCellWrite(batch[i]) => batch[i].timestamp <= now + MaxSkew
           \/ \E t \in Threads :
                 /\ queue[t] # <<>> /\ UNCHANGED now
                 /\ queue' = [queue EXCEPT ![t] = Tail(@)]
<1>1. CASE UNCHANGED vars
  BY <1>1 DEF vars, lockVars
<1>2. CASE Next
  <2>1. ASSUME NEW t \in Threads, NEW batch \in Batches, Call(t, batch)
        PROVE  /\ queue' = [queue EXCEPT ![t] = batch] /\ UNCHANGED now
               /\ \A i \in DOMAIN batch :
                     IsCellWrite(batch[i]) => batch[i].timestamp <= now + MaxSkew
    BY <2>1 DEF Call
  <2>2. ASSUME NEW t \in Threads, WriteStep(t)
        PROVE  \/ UNCHANGED <<queue, now>>
               \/ queue[t] # <<>> /\ UNCHANGED now /\ queue' = [queue EXCEPT ![t] = Tail(@)]
    BY <2>2 DEF WriteStep, WriteCell, RefuseCell, UpsertEntity, PublishEvent, Commit, Deliver,
                Applying, Applied
  <2>3. ASSUME \/ \E t \in Threads : SnapshotTake(t) \/ \E r \in Requests : SnapshotCall(t, r)
               \/ \E c \in Callbacks : Subscribe(c)
               \/ \E m \in Samples : PublishMetric(m)
               \/ \E b \in Beats : Heartbeat(b)
               \/ \E d \in Descriptors : RegisterComponent(d)
        PROVE UNCHANGED <<queue, now>>
    BY <2>3 DEF SnapshotTake, SnapshotCall, Subscribe, PublishMetric, Heartbeat,
                RegisterComponent, lockVars
  <2>4. ASSUME Tick PROVE UNCHANGED queue /\ now' = now + 1
    BY <2>4 DEF Tick, lockVars
  <2> QED
    BY <1>2, <2>1, <2>2, <2>3, <2>4 DEF Next
<1> QED
  BY <1>1, <1>2

LEMMA QueuesStep ==
    ASSUME TypeOK, QueuesAreSound, [Next]_vars
    PROVE  QueuesAreSound'
<1> USE DEF QueuesAreSound, NaturalVersions, IsCellWrite
<1>1. queue \in [Threads -> Seq(Items)] /\ now \in Nat /\ MaxSkew \in Nat
  BY BoundsAreNatural DEF TypeOK, ThreadTypes, StoreTypes
<1>2. CASE UNCHANGED <<queue, now>>
  BY <1>2
<1>3. CASE UNCHANGED queue /\ now' = now + 1
  <2> SUFFICES ASSUME NEW t \in Threads, NEW i \in DOMAIN queue[t], IsCellWrite(queue[t][i])
               PROVE  queue[t][i].timestamp <= now + 1 + MaxSkew
    BY <1>3
  <2>1. queue[t][i] \in CellWrites
    BY <1>1, ItemKinds
  <2> QED
    BY <1>1, <2>1 DEF CellWrites
<1>4. ASSUME NEW t \in Threads, NEW batch \in Batches,
             queue' = [queue EXCEPT ![t] = batch], UNCHANGED now,
             \A i \in DOMAIN batch : IsCellWrite(batch[i]) => batch[i].timestamp <= now + MaxSkew
      PROVE  QueuesAreSound'
  BY <1>1, <1>4
<1>5. ASSUME NEW t \in Threads, queue[t] # <<>>, UNCHANGED now,
             queue' = [queue EXCEPT ![t] = Tail(@)]
      PROVE  QueuesAreSound'
  <2>1. \A i \in DOMAIN Tail(queue[t]) :
           Tail(queue[t])[i] = queue[t][i + 1] /\ i + 1 \in DOMAIN queue[t]
    BY <1>1, <1>5
  <2> QED
    BY <1>1, <1>5, <2>1
<1> QED
  BY <1>2, <1>3, <1>4, <1>5, QueueSteps

CasInv == CasWinsOnce /\ ExpectationsAreSpent

LEMMA CasInit == Init => CasInv
BY InputsAreTyped DEF Init, Registration, CasInv, CasWinsOnce, ExpectationsAreSpent

LEMMA CasStep ==
    ASSUME NaturalVersions, TypeOK, QueuesAreSound, CasInv, [Next]_vars
    PROVE  CasInv'
<1>1. \A s \in Slots : cells[s] # Absent =>
         cells'[s] # Absent /\ (cells'[s] # cells[s] => cells'[s].version > cells[s].version)
  BY VersionStep
<1>2. \A s \in Slots : cells[s] # Absent => cells[s].version \in Int /\ cells'[s].version \in Int
  <2>1. cells' \in [Slots -> Cell \cup {Absent}]
    BY StepTyped DEF TypeOK, StoreTypes
  <2> QED
    BY <1>1, <2>1 DEF TypeOK, StoreTypes, Cell
<1>3. \A i \in DOMAIN log : log[i].expected # Unset => log[i].expected \in Int
  <2>1. \A i \in DOMAIN log : log[i] \in LogEntry
    BY DEF TypeOK, StoreTypes
  <2> QED
    BY <2>1 DEF LogEntry
<1>4. \A i \in DOMAIN log : log[i].expected # Unset =>
         /\ log[i].slot \in Slots /\ cells'[log[i].slot] # Absent
         /\ log[i].expected < cells'[log[i].slot].version
  BY <1>1, <1>2, <1>3 DEF CasInv, ExpectationsAreSpent
<1>5. CASE UNCHANGED log
  BY <1>4, <1>5 DEF CasInv, CasWinsOnce, ExpectationsAreSpent
<1>6. ASSUME NEW m \in Marks, log' = Append(log, m)
      PROVE CasInv'
  <2>1. m.expected = Unset
    BY DEF Marks
  <2> QED
    <3>1. \A i \in DOMAIN log' : (i \in DOMAIN log /\ log'[i] = log[i]) \/ log'[i] = m
      BY <1>6, AppendedLog
    <3>2. ExpectationsAreSpent'
      BY <1>4, <2>1, <3>1 DEF ExpectationsAreSpent
    <3>3. CasWinsOnce'
      BY <2>1, <3>1 DEF CasInv, CasWinsOnce
    <3> QED
      BY <3>2, <3>3 DEF CasInv
<1>7. CASE \E t \in Threads : WriteCell(t)
  <2>1. PICK t \in Threads, u \in CellWrites :
           /\ queue[t] # <<>> /\ u = Head(queue[t])
           /\ u.slot \in Slots /\ Admits(u, cells[u.slot])
           /\ cells' = [cells EXCEPT ![u.slot] = Written(WithTtl(u), cells[u.slot])]
           /\ log' = Append(log, Entry(u, NextVersion(u, cells[u.slot])))
    BY <1>7, WriteCellDoes
  <2> DEFINE n == Len(log) + 1
             cell == cells[u.slot]
  <2>2. u.version >= 0 /\ u.version \in Int
    <3>1. IsCellWrite(u)
      BY DEF CellWrites, IsCellWrite, Slots, StateSlots, RelationSlots
    <3>2. 1 \in DOMAIN queue[t] /\ u = queue[t][1]
      BY <2>1, EmptySeq DEF TypeOK, ThreadTypes
    <3> QED
      BY <3>1, <3>2 DEF QueuesAreSound, CellWrites
  <2>3. cell \in Cell \cup {Absent}
    BY <2>1 DEF TypeOK, StoreTypes
  <2>4. cells'[u.slot] # Absent /\ cells'[u.slot].version = NextVersion(u, cell)
    BY <2>1, <2>3, WrittenIsCell DEF TypeOK, StoreTypes
  <2>5. VersionOf(cell) \in Int /\ VersionOf(cell) < NextVersion(u, cell)
    <3>1. CASE cell = Absent
      BY <2>2, <3>1 DEF VersionOf, NextVersion
    <3>2. CASE cell # Absent
      <4>1. cell \in Cell /\ NextVersion(u, cell) > cell.version
        BY <2>1, <2>3, <3>2, WrittenIsCell
      <4>2. NextVersion(u, cell) \in Int
        BY <2>1, <2>3, WrittenIsCell
      <4> HIDE DEF cell
      <4> QED
        BY <3>2, <4>1, <4>2 DEF VersionOf, Cell
    <3> QED
      BY <3>1, <3>2
  <2>6. u.expected # Unset => u.expected = VersionOf(cell)
    BY <2>1 DEF Admits, CasHolds
  <2>7. log'[n].slot = u.slot /\ log'[n].expected = u.expected
    BY <2>1, AppendedLog DEF Entry
  <2>8. \A i \in DOMAIN log : log[i].slot = u.slot /\ log[i].expected # Unset =>
           log[i].expected < VersionOf(cell)
    BY DEF CasInv, ExpectationsAreSpent, VersionOf
  <2>9. ExpectationsAreSpent'
    <3>1. \A i \in DOMAIN log' : (i \in DOMAIN log /\ log'[i] = log[i]) \/ i = n
      BY <2>1, AppendedLog
    <3>2. u.expected # Unset =>
             /\ u.slot \in Slots /\ cells'[u.slot] # Absent
             /\ u.expected < cells'[u.slot].version
      BY <2>1, <2>4, <2>5, <2>6
    <3> HIDE DEF n
    <3>3. ASSUME NEW i \in DOMAIN log', log'[i].expected # Unset
          PROVE  /\ log'[i].slot \in Slots /\ cells'[log'[i].slot] # Absent
                 /\ log'[i].expected < cells'[log'[i].slot].version
      BY <1>4, <2>7, <3>1, <3>2, <3>3
    <3> QED
      BY <3>3 DEF ExpectationsAreSpent
  <2>10. CasWinsOnce'
    <3>1. \A i \in DOMAIN log : log[i].slot = u.slot /\ u.expected # Unset =>
             log[i].expected # u.expected
      BY <1>3, <2>5, <2>6, <2>8, UnsetIsNoVersion
    <3> QED
      BY <2>1, <2>7, <3>1, AppendedLog DEF CasInv, CasWinsOnce
  <2> QED
    BY <2>9, <2>10 DEF CasInv
<1> QED
  BY <1>5, <1>6, <1>7, StoreSteps, RecordMark DEF stored

\* If no caller asks for a negative version, at most one of the writers that
\* expect a version of a slot is ever accepted.
THEOREM CompareAndSet == ASSUME NaturalVersions PROVE Spec => []CasWinsOnce
<1>1. CasInv => CasWinsOnce
  BY DEF CasInv
<1>2. TypeOK /\ QueuesAreSound /\ CasInv /\ [Next]_vars => CasInv'
  BY CasStep
<1>3. TypeOK /\ QueuesAreSound /\ [Next]_vars => QueuesAreSound'
  BY QueuesStep
<1> QED
  BY <1>1, <1>2, <1>3, CasInit, QueuesInit, TypeCorrect, PTL DEF Spec

(***************************************************************************)
(* Authority                                                               *)
(***************************************************************************)

\* A value that is fresh now was fresh at every earlier time.
LEMMA FreshEarlier ==
    ASSUME NEW cell \in Cell, NEW at \in Int, NEW later \in Int, at <= later, IsFresh(cell, later)
    PROVE  IsFresh(cell, at)
BY NoLimitIsNoTime DEF IsFresh, Age, Cell, Limits

\* If no producer's clock runs ahead of the plane's, a value that is still
\* fresh is never replaced by a source of lower authority.
THEOREM AuthorityHolds == ASSUME MaxSkew = 0 PROVE Spec => FreshAuthorityKept
<1>1. ASSUME TypeOK, QueuesAreSound, [Next]_vars, NEW s \in Slots,
             cells'[s] # cells[s], cells[s] # Absent, IsFresh(cells[s], now)
      PROVE  cells'[s].authority >= cells[s].authority
  <2>1. PICK t \in Threads : WriteCell(t)
    BY <1>1, StoreSteps, RecordMark DEF stored
  <2>2. PICK u \in CellWrites :
           /\ queue[t] # <<>> /\ u = Head(queue[t])
           /\ u.slot \in Slots /\ Admits(u, cells[u.slot])
           /\ cells' = [cells EXCEPT ![u.slot] = Written(WithTtl(u), cells[u.slot])]
    BY <1>1, <2>1, WriteCellDoes
  <2>3. s = u.slot /\ cells[s] \in Cell
    BY <1>1, <2>2 DEF TypeOK, StoreTypes
  <2>4. cells'[s].authority = u.authority
    BY <1>1, <2>2, <2>3, WrittenIsCell DEF TypeOK, StoreTypes
  <2>5. u.timestamp <= now /\ u.timestamp \in Int /\ now \in Int
    <3>1. IsCellWrite(u)
      BY <2>2 DEF CellWrites, IsCellWrite, Slots, StateSlots, RelationSlots
    <3>2. 1 \in DOMAIN queue[t] /\ u = queue[t][1]
      BY <1>1, <2>2, EmptySeq DEF TypeOK, ThreadTypes
    <3>3. now + 0 = now
      BY <1>1 DEF TypeOK, StoreTypes
    <3> QED
      BY <1>1, <3>1, <3>2, <3>3 DEF QueuesAreSound, CellWrites, TypeOK, StoreTypes
  <2>6. IsFresh(cells[s], u.timestamp)
    BY <1>1, <2>3, <2>5, FreshEarlier
  <2>7. ~ (u.authority < cells[s].authority)
    BY <2>2, <2>3, <2>6, <1>1 DEF Admits, Outranked
  <2> QED
    BY <2>3, <2>4, <2>7 DEF Cell, Authorities, CellWrites
<1>2. TypeOK /\ QueuesAreSound /\ [Next]_vars =>
        [\A s \in Slots : cells'[s] # cells[s] /\ cells[s] # Absent =>
            \/ ~ IsFresh(cells[s], now)
            \/ cells'[s].authority >= cells[s].authority]_vars
  BY <1>1
<1>3. TypeOK /\ QueuesAreSound /\ [Next]_vars => QueuesAreSound'
  BY QueuesStep
<1> QED
  BY <1>2, <1>3, QueuesInit, TypeCorrect, PTL DEF Spec, FreshAuthorityKept

(***************************************************************************)
(* The change feed                                                         *)
(***************************************************************************)
Announced(n, e) == [cursor |-> n, slot |-> e.slot, version |-> e.version]

\* A step records at most one change, in the history and in the feed alike.
LEMMA HistorySteps ==
    ASSUME TypeOK, [Next]_vars
    PROVE  \/ UNCHANGED <<log, revision, changes>>
           \/ \E e \in LogEntry :
                 /\ log' = Append(log, e) /\ revision' = revision + 1
                 /\ changes' = Push(changes, Announced(revision + 1, e), MaxChanges)
<1> DEFINE Recorded ==
       \E e \in LogEntry :
          /\ log' = Append(log, e) /\ revision' = revision + 1
          /\ changes' = Push(changes, Announced(revision + 1, e), MaxChanges)
<1>1. ASSUME NEW t \in Threads, NEW slot \in AnySlot, NEW version \in Int,
             NEW idem \in IdempotencyKeys \cup {NoKey}, NEW expected \in Int \cup {Unset},
             RecordChange(t, slot, version, idem, expected)
      PROVE  Recorded
  <2> DEFINE e == [slot |-> slot, version |-> version, idem |-> idem, expected |-> expected]
  <2>1. e \in LogEntry /\ Announced(revision + 1, e) =
                             [cursor |-> revision + 1, slot |-> slot, version |-> version]
    BY DEF LogEntry, AnySlot, Announced
  <2> QED
    BY <1>1, <2>1 DEF RecordChange
<1>2. ASSUME NEW t \in Threads, WriteCell(t) PROVE Recorded
  <2> DEFINE u == Head(queue[t])
  <2>1. u \in CellWrites /\ u.slot \in Slots
    BY <1>2, ItemKinds, WellPlacedInSlots
       DEF WriteCell, Accepts, Applying, TypeOK, ThreadTypes
  <2>2. NextVersion(u, cells[u.slot]) \in Int
    BY <2>1, WrittenIsCell DEF TypeOK, StoreTypes
  <2>3. RecordChange(t, u.slot, NextVersion(u, cells[u.slot]), u.idem, u.expected)
    BY <1>2 DEF WriteCell
  <2>4. u.idem \in IdempotencyKeys \cup {NoKey} /\ u.expected \in Int \cup {Unset}
        /\ u.slot \in AnySlot
    BY <2>1 DEF CellWrites, AnySlot
  <2> HIDE DEF u
  <2> QED
    BY <1>1, <2>2, <2>3, <2>4
<1>3. ASSUME NEW t \in Threads, UpsertEntity(t) \/ PublishEvent(t)
      PROVE  Recorded \/ UNCHANGED <<log, revision, changes>>
  <2> DEFINE e == Head(queue[t])
  <2>1. CASE UNCHANGED <<stored, notes>>
    BY <2>1 DEF stored
  <2>2. CASE RecordChange(t, e.slot, 1, NoKey, Unset)
    <3>1. e \in Items
      BY <1>3 DEF UpsertEntity, PublishEvent, Applying, TypeOK, ThreadTypes
    <3>2. e.slot \in AnySlot
      BY <1>3, <3>1, ItemKinds DEF UpsertEntity, PublishEvent, EntityWrites, EventWrites, AnySlot
    <3>3. 1 \in Int /\ NoKey \in IdempotencyKeys \cup {NoKey} /\ Unset \in Int \cup {Unset}
      OBVIOUS
    <3> HIDE DEF e
    <3> QED
      BY <1>1, <2>2, <3>2, <3>3
  <2> QED
    BY <1>3, <2>1, <2>2 DEF UpsertEntity, PublishEvent
<1> QED
  BY <1>2, <1>3, StoreSteps DEF stored

LEMMA FeedInitially == Init => FeedIsRecentLog
<1> SUFFICES ASSUME Init PROVE FeedIsRecentLog
  OBVIOUS
<1>1. Len(log) = Len(SetUp)
  BY InputsAreTyped DEF Init
<1> QED
  BY <1>1 DEF Init, FeedIsRecentLog

LEMMA FeedStep ==
    ASSUME TypeOK, FeedIsRecentLog, [Next]_vars
    PROVE  FeedIsRecentLog'
<1>1. CASE UNCHANGED <<log, revision, changes>>
  BY <1>1 DEF FeedIsRecentLog, Recent, FeedLength, ChangeAt
<1>2. ASSUME NEW e \in LogEntry, log' = Append(log, e), revision' = revision + 1,
             changes' = Push(changes, Announced(revision + 1, e), MaxChanges)
      PROVE  FeedIsRecentLog'
  <2> DEFINE n == Len(log)
             F == FeedLength
             c == Announced(n + 1, e)
             grown == Append(changes, c)
  <2>1. /\ n \in Nat /\ revision = n /\ Len(log') = n + 1 /\ MaxChanges \in Nat
        /\ F \in Nat /\ F <= n /\ F <= MaxChanges /\ (F < MaxChanges => F = n)
        /\ FeedLength' = IF n + 1 < MaxChanges THEN n + 1 ELSE MaxChanges
    BY <1>2, AppendedLog, LimitsArePositive DEF FeedIsRecentLog, FeedLength
  <2>2. /\ \A i \in 1..n : Announced(i, log'[i]) = ChangeAt(i)
        /\ Announced(n + 1, log'[n + 1]) = c
    BY <1>2, AppendedLog DEF ChangeAt, Announced
  <2>3. /\ changes \in Seq(Change) /\ Len(changes) = F
        /\ \A i \in 1..F : changes[i] = ChangeAt(n - F + i)
    <3>1. changes = Recent(F) /\ changes \in Seq(Change)
      BY DEF FeedIsRecentLog, TypeOK, StoreTypes
    <3>2. Len(changes) = F
      BY <2>1, <3>1 DEF Recent
    <3> QED
      BY <3>1, <3>2 DEF Recent
  <2>4. c \in Change
    BY <2>1 DEF Announced, Change, LogEntry
  <2> HIDE DEF c, F, n
  <2>5. /\ grown \in Seq(Change) /\ Len(grown) = F + 1
        /\ \A i \in 1..F : grown[i] = changes[i]
        /\ grown[F + 1] = c
    BY <2>1, <2>3, <2>4
  <2>c. n = Len(log) /\ c = Announced(n + 1, e) /\ grown = Append(changes, c)
    BY DEF c, n
  <2> HIDE DEF grown
  <2>6. \A i \in 1..F+1 : grown[i] = Announced(n - F + i, log'[n - F + i])
    <3> TAKE i \in 1..F+1
    <3>1. CASE i \in 1..F
      <4>1. n - F + i \in 1..n
        BY <2>1, <3>1
      <4> QED
        BY <2>2, <2>3, <2>5, <3>1, <4>1
    <3>2. CASE i = F + 1
      <4>1. n - F + i = n + 1
        BY <2>1, <3>2
      <4> QED
        BY <2>2, <2>5, <3>2, <4>1
    <3>3. i \in 1..F \/ i = F + 1
      BY <2>1
    <3> QED
      BY <3>1, <3>2, <3>3
  <2>7. changes' = IF F + 1 > MaxChanges THEN Tail(grown) ELSE grown
    BY <1>2, <2>1, <2>5, <2>c DEF Push
  <2>8. ASSUME NEW G \in Nat, FeedLength' = G, changes' \in Seq(Change), Len(changes') = G,
               \A i \in 1..G : changes'[i] = Announced(n + 1 - G + i, log'[n + 1 - G + i])
        PROVE  FeedIsRecentLog'
    <3>1. changes' = [i \in 1..G |-> Announced(n + 1 - G + i, log'[n + 1 - G + i])]
      BY <2>8, LenProperties
    <3>2. Recent(G)' = [i \in 1..G |-> Announced(n + 1 - G + i, log'[n + 1 - G + i])]
      BY <2>1, <2>8 DEF Recent, ChangeAt, Announced
    <3>3. Recent(FeedLength)' = Recent(G)'
      BY <2>8 DEF Recent, ChangeAt
    <3>4. revision' = Len(log')
      BY <1>2, <2>1
    <3> QED
      BY <3>1, <3>2, <3>3, <3>4 DEF FeedIsRecentLog
  <2>9. CASE F + 1 > MaxChanges
    <3>1. F = MaxChanges /\ FeedLength' = F
      BY <2>1, <2>9
    <3>2. grown # <<>>
      BY <2>1, <2>5, EmptySeq
    <3>3. /\ Tail(grown) \in Seq(Change) /\ Len(Tail(grown)) = F
          /\ \A i \in 1..F : Tail(grown)[i] = grown[i + 1]
      BY <2>1, <2>5, <3>2
    <3>4. \A i \in 1..F : Tail(grown)[i] = Announced(n + 1 - F + i, log'[n + 1 - F + i])
      <4> TAKE i \in 1..F
      <4>1. i + 1 \in 1..F+1 /\ n - F + (i + 1) = n + 1 - F + i
        BY <2>1
      <4> QED
        BY <2>6, <3>3, <4>1
    <3> QED
      BY <2>1, <2>7, <2>8, <2>9, <3>1, <3>3, <3>4
  <2>10. CASE ~ (F + 1 > MaxChanges)
    <3>1. F = n /\ FeedLength' = F + 1 /\ F + 1 \in Nat /\ n - F = n + 1 - (F + 1)
      BY <2>1, <2>10
    <3> QED
      BY <2>5, <2>6, <2>7, <2>8, <2>10, <3>1
  <2> QED
    BY <2>9, <2>10
<1> QED
  BY <1>1, <1>2, HistorySteps

\* The feed is, at every moment, the gapless tail of the recorded history.
THEOREM FeedFaithful == Spec => []FeedIsRecentLog
BY FeedInitially, FeedStep, TypeCorrect, PTL DEF Spec

(***************************************************************************)
(* The history explains the state                                          *)
(***************************************************************************)

\* What makes LogExplainsState inductive: the entries of a slot climb to the
\* version the slot is at.
VersionsAreLogged ==
    /\ \A i \in DOMAIN log : log[i].slot \in Slots =>
          cells[log[i].slot] # Absent /\ log[i].version <= cells[log[i].slot].version
    /\ \A s \in Slots : cells[s] # Absent =>
          \E i \in DOMAIN log : log[i].slot = s /\ log[i].version = cells[s].version
    /\ \A i, j \in DOMAIN log :
          i < j /\ log[i].slot = log[j].slot /\ log[i].slot \in Slots =>
             log[i].version < log[j].version

LEMMA LoggedInit == Init => VersionsAreLogged
<1> SUFFICES ASSUME Init PROVE VersionsAreLogged
  OBVIOUS
<1>1. \A i \in DOMAIN log : log[i].slot \notin Slots
  BY InputsAreTyped DEF Init, Registration, Slots, StateSlots, RelationSlots
<1>2. \A s \in Slots : cells[s] = Absent
  BY DEF Init
<1> QED
  BY <1>1, <1>2 DEF VersionsAreLogged

LEMMA Numbers ==
    ASSUME TypeOK
    PROVE  /\ \A i \in DOMAIN log : log[i].version \in Int
           /\ \A s \in Slots : cells[s] # Absent => cells[s] \in Cell /\ cells[s].version \in Int
<1>1. \A i \in DOMAIN log : log[i] \in LogEntry
  BY DEF TypeOK, StoreTypes
<1>2. \A s \in Slots : cells[s] \in Cell \cup {Absent}
  BY DEF TypeOK, StoreTypes
<1> QED
  BY <1>1, <1>2 DEF LogEntry, Cell

LEMMA LoggedStep ==
    ASSUME TypeOK, VersionsAreLogged, [Next]_vars
    PROVE  VersionsAreLogged'
<1>1. CASE UNCHANGED <<log, cells>>
  BY <1>1 DEF VersionsAreLogged
<1>2. ASSUME NEW m \in Marks, log' = Append(log, m), UNCHANGED cells
      PROVE  VersionsAreLogged'
  <2>1. m.slot \notin Slots
    BY DEF Marks, Slots, StateSlots, RelationSlots
  <2>2. \A i \in DOMAIN log' : (i \in DOMAIN log /\ log'[i] = log[i]) \/ log'[i] = m
    BY <1>2, AppendedLog
  <2>3. \A i \in DOMAIN log : i \in DOMAIN log' /\ log'[i] = log[i]
    BY <1>2, AppendedLog
  <2> QED
    BY <1>2, <2>1, <2>2, <2>3 DEF VersionsAreLogged
<1>3. CASE \E t \in Threads : WriteCell(t)
  <2>1. PICK u \in CellWrites :
           /\ u.slot \in Slots /\ Admits(u, cells[u.slot])
           /\ NextVersion(u, cells[u.slot]) \in Int
           /\ cells' = [cells EXCEPT ![u.slot] = Written(WithTtl(u), cells[u.slot])]
           /\ log' = Append(log, Entry(u, NextVersion(u, cells[u.slot])))
    BY <1>3, WriteCellDoes
  <2> DEFINE s == u.slot
             v == NextVersion(u, cells[s])
             n == Len(log) + 1
  <2>2. /\ \A r \in Slots : r # s => cells'[r] = cells[r]
        /\ cells'[s] # Absent /\ cells'[s].version = v
        /\ cells[s] # Absent => cells[s].version < v
    <3>1. cells \in [Slots -> Cell \cup {Absent}] /\ cells[s] \in Cell \cup {Absent}
      BY <2>1 DEF TypeOK, StoreTypes
    <3>2. cells[s] # Absent => cells[s].version < v
      BY <2>1, <3>1, WrittenIsCell, Numbers
    <3> QED
      BY <2>1, <3>1, <3>2, WrittenIsCell
  <2>3. /\ Len(log) \in Nat /\ DOMAIN log = 1..Len(log) /\ DOMAIN log' = 1..n
        /\ \A i \in DOMAIN log : i \in DOMAIN log' /\ log'[i] = log[i]
        /\ n \in DOMAIN log' /\ log'[n].slot = s /\ log'[n].version = v
    BY <2>1, AppendedLog DEF Entry
  <2>4. s \in Slots /\ v \in Int
    BY <2>1
  <2>5. \A i \in DOMAIN log : log[i].slot = s => log[i].version < v
    BY <2>2, <2>4, Numbers DEF VersionsAreLogged
  <2> HIDE DEF s, v, n
  <2>n. n = Len(log) + 1
    BY DEF n
  <2>6. ASSUME NEW i \in DOMAIN log', log'[i].slot \in Slots
        PROVE  cells'[log'[i].slot] # Absent /\ log'[i].version <= cells'[log'[i].slot].version
    <3>1. CASE i = n
      BY <2>2, <2>3, <2>4, <3>1
    <3>2. CASE i # n
      <4>1. i \in DOMAIN log /\ log'[i] = log[i]
        BY <2>3, <2>n, <3>2
      <4>2. CASE log[i].slot = s
        BY <2>2, <2>4, <2>5, <4>1, <4>2, Numbers
      <4>3. CASE log[i].slot # s
        BY <2>2, <2>6, <4>1, <4>3 DEF VersionsAreLogged
      <4> QED
        BY <4>2, <4>3
    <3> QED
      BY <3>1, <3>2
  <2>7. ASSUME NEW r \in Slots, cells'[r] # Absent
        PROVE  \E i \in DOMAIN log' : log'[i].slot = r /\ log'[i].version = cells'[r].version
    <3>1. CASE r = s
      BY <2>2, <2>3, <3>1
    <3>2. CASE r # s
      BY <2>2, <2>3, <2>7, <3>2 DEF VersionsAreLogged
    <3> QED
      BY <3>1, <3>2
  <2>8. ASSUME NEW i \in DOMAIN log', NEW j \in DOMAIN log', i < j,
               log'[i].slot = log'[j].slot, log'[i].slot \in Slots
        PROVE  log'[i].version < log'[j].version
    <3>1. i \in DOMAIN log /\ log'[i] = log[i]
      BY <2>3, <2>8, <2>n
    <3>2. CASE j = n
      BY <2>3, <2>5, <2>8, <3>1, <3>2
    <3>3. CASE j # n
      <4>1. j \in DOMAIN log /\ log'[j] = log[j]
        BY <2>3, <2>n, <3>3
      <4> QED
        BY <2>8, <3>1, <4>1 DEF VersionsAreLogged
    <3> QED
      BY <3>2, <3>3
  <2> QED
    BY <2>6, <2>7, <2>8 DEF VersionsAreLogged
<1> QED
  BY <1>1, <1>2, <1>3, StoreSteps, RecordMark DEF stored

LEMMA LoggedExplains ==
    ASSUME TypeOK, VersionsAreLogged
    PROVE  LogExplainsState
<1> SUFFICES ASSUME NEW s \in Slots PROVE LeftAt(s, Len(log), VersionOf(cells[s]))
  BY DEF LogExplainsState
<1>1. Len(log) \in Nat /\ DOMAIN log = 1..Len(log)
  BY DEF TypeOK, StoreTypes
<1>2. CASE cells[s] = Absent
  BY <1>1, <1>2 DEF VersionsAreLogged, LeftAt, VersionOf
<1>3. CASE cells[s] # Absent
  <2>1. PICK i \in 1..Len(log) : log[i].slot = s /\ log[i].version = cells[s].version
    BY <1>1, <1>3 DEF VersionsAreLogged
  <2>2. ASSUME NEW j \in i+1..Len(log), log[j].slot = s PROVE FALSE
    <3>1. j \in DOMAIN log /\ i \in DOMAIN log /\ i < j
      BY <1>1
    <3>2. log[i].version < log[j].version /\ log[j].version <= cells[s].version
      BY <2>1, <2>2, <3>1 DEF VersionsAreLogged
    <3> QED
      BY <1>3, <2>1, <3>1, <3>2, Numbers
  <2> QED
    BY <1>3, <2>1, <2>2 DEF LeftAt, VersionOf
<1> QED
  BY <1>2, <1>3

\* A client that replays the changes arrives at the versions the plane holds.
THEOREM ReplayableHistory == Spec => []LogExplainsState
<1>1. TypeOK /\ VersionsAreLogged => LogExplainsState
  BY LoggedExplains
<1>2. TypeOK /\ VersionsAreLogged /\ [Next]_vars => VersionsAreLogged'
  BY LoggedStep
<1> QED
  BY <1>1, <1>2, LoggedInit, TypeCorrect, PTL DEF Spec

(***************************************************************************)
(* Snapshots                                                               *)
(***************************************************************************)

\* The history only grows.
LEMMA HistoryGrows ==
    ASSUME TypeOK, FeedIsRecentLog, [Next]_vars
    PROVE  /\ revision \in Nat /\ revision' \in Nat /\ revision <= revision'
           /\ DOMAIN log = 1..revision
           /\ \A i \in 1..revision : log'[i] = log[i]
<1>1. revision \in Nat /\ revision = Len(log) /\ DOMAIN log = 1..revision
  BY DEF TypeOK, StoreTypes, FeedIsRecentLog
<1>2. CASE UNCHANGED <<log, revision>>
  BY <1>1, <1>2
<1>3. ASSUME NEW e, log' = Append(log, e), revision' = revision + 1
      PROVE  revision' \in Nat /\ revision <= revision' /\ \A i \in 1..revision : log'[i] = log[i]
  BY <1>1, <1>3, AppendedLog
<1> QED
  BY <1>1, <1>2, <1>3, HistorySteps

\* What is left by changes already made stays so.
LEMMA PastIsFixed ==
    ASSUME TypeOK, FeedIsRecentLog, [Next]_vars, NEW s, NEW v, NEW n \in 0..revision
    PROVE  LeftAt(s, n, v)' <=> LeftAt(s, n, v)
<1>1. \A i \in 1..n : log'[i] = log[i]
  BY HistoryGrows
<1>2. \A i \in 1..n : \A j \in i+1..n : j \in 1..n
  BY HistoryGrows
<1> QED
  BY <1>1, <1>2 DEF LeftAt

\* Every revision at which the lock is free is one at which a call released it.
ReleasesAreRecorded ==
    /\ commits \subseteq 0..revision
    /\ lock = Free => revision \in commits

LEMMA ReleasesInit == Init => ReleasesAreRecorded
<1> SUFFICES ASSUME Init PROVE ReleasesAreRecorded
  OBVIOUS
<1>1. Len(SetUp) \in Nat
  BY InputsAreTyped
<1> QED
  BY <1>1 DEF Init, ReleasesAreRecorded

\* While the lock is free, and until its holder is done, nothing is recorded.
LEMMA LockSteps ==
    ASSUME TypeOK, [Next]_vars
    PROVE  \/ \E t \in Threads : Commit(t)
           \/ /\ commits' = commits /\ lock' = lock
              /\ lock = Free => UNCHANGED stored
           \/ /\ commits' = commits /\ lock = Free /\ UNCHANGED stored
              /\ \E t \in Threads : lock' = t
<1> DEFINE Quiet == /\ commits' = commits /\ lock' = lock
                    /\ lock = Free => UNCHANGED stored
<1>1. CASE UNCHANGED vars
  BY <1>1 DEF vars, lockVars
<1>2. ASSUME NEW t \in Threads,
             WriteCell(t) \/ RefuseCell(t) \/ UpsertEntity(t) \/ PublishEvent(t)
      PROVE  Quiet
  <2>1. lock = t /\ t # Free
    BY <1>2, NamesAreApart
       DEF WriteCell, RefuseCell, UpsertEntity, PublishEvent, Applying, TypeOK, LockDiscipline
  <2> QED
    BY <1>2, <2>1 DEF WriteCell, RefuseCell, UpsertEntity, PublishEvent, Applied
<1>3. ASSUME NEW t \in Threads,
             Deliver(t) \/ (\E r \in Requests : SnapshotCall(t, r)) \/ SnapshotTake(t)
      PROVE  Quiet
  BY <1>3 DEF Deliver, SnapshotCall, SnapshotTake
<1>4. ASSUME \/ \E c \in Callbacks : Subscribe(c)
             \/ \E m \in Samples : PublishMetric(m)
             \/ \E b \in Beats : Heartbeat(b)
             \/ \E d \in Descriptors : RegisterComponent(d)
             \/ Tick
      PROVE  Quiet
  BY <1>4 DEF Subscribe, PublishMetric, Heartbeat, RegisterComponent, Tick, lockVars
<1>5. ASSUME NEW t \in Threads, NEW batch \in Batches, Call(t, batch)
      PROVE  commits' = commits /\ lock = Free /\ UNCHANGED stored /\ lock' = t
  BY <1>5 DEF Call
<1> HIDE DEF Quiet
<1>6. ASSUME Next
      PROVE  \/ \E t \in Threads : Commit(t)
             \/ Quiet
             \/ /\ commits' = commits /\ lock = Free /\ UNCHANGED stored
                /\ \E t \in Threads : lock' = t
  BY <1>2, <1>3, <1>4, <1>5, <1>6 DEF Next, WriteStep
<1> QED
  BY <1>1, <1>6 DEF Quiet

LEMMA ReleasesStep ==
    ASSUME TypeOK, FeedIsRecentLog, ReleasesAreRecorded, [Next]_vars
    PROVE  ReleasesAreRecorded'
<1>1. revision \in Nat /\ revision' \in Nat /\ revision <= revision'
  BY HistoryGrows
<1>2. CASE \E t \in Threads : Commit(t)
  <2>1. revision' = revision /\ commits' = commits \cup {revision}
    BY <1>2 DEF Commit, stored
  <2> QED
    BY <1>1, <2>1 DEF ReleasesAreRecorded
<1>3. CASE commits' = commits /\ lock' = lock /\ (lock = Free => UNCHANGED stored)
  BY <1>1, <1>3 DEF ReleasesAreRecorded, stored
<1>4. CASE commits' = commits /\ lock = Free /\ UNCHANGED stored /\ \E t \in Threads : lock' = t
  BY <1>1, <1>4, NamesAreApart DEF ReleasesAreRecorded, stored
<1> QED
  BY <1>2, <1>3, <1>4, LockSteps

\* A bounded store holds what it held and what was added, which is its last.
LEMMA PushContents ==
    ASSUME NEW S, NEW q \in Seq(S), NEW x \in S, NEW max \in Nat \ {0}
    PROVE  LET p == Push(q, x, max) IN
           /\ p \in Seq(S) /\ p # <<>> /\ p[Len(p)] = x
           /\ \A i \in DOMAIN p : p[i] = x \/ \E j \in DOMAIN q : p[i] = q[j]
<1> DEFINE grown == Append(q, x)
           n == Len(q)
<1>1. /\ n \in Nat /\ grown \in Seq(S) /\ Len(grown) = n + 1 /\ grown[n + 1] = x
      /\ DOMAIN grown = 1..n+1 /\ DOMAIN q = 1..n
      /\ \A i \in 1..n : grown[i] = q[i]
  OBVIOUS
<1> HIDE DEF grown, n
<1>2. CASE n + 1 > max
  <2>1. n >= 1 /\ grown # <<>>
    BY <1>1, <1>2, EmptySeq
  <2>2. /\ Tail(grown) \in Seq(S) /\ Len(Tail(grown)) = n /\ DOMAIN Tail(grown) = 1..n
        /\ \A i \in 1..n : Tail(grown)[i] = grown[i + 1]
    <3>1. Tail(grown) \in Seq(S) /\ Len(Tail(grown)) = n
      BY <1>1, <2>1
    <3>2. DOMAIN Tail(grown) = 1..n
      BY <3>1
    <3>3. \A i \in 1..n : Tail(grown)[i] = grown[i + 1]
      BY <1>1, <2>1
    <3> QED
      BY <3>1, <3>2, <3>3
  <2>3. \A i \in 1..n : Tail(grown)[i] = x \/ \E j \in 1..n : Tail(grown)[i] = q[j]
    <3> TAKE i \in 1..n
    <3>1. i + 1 = n + 1 \/ i + 1 \in 1..n
      BY <1>1
    <3> QED
      BY <1>1, <2>2, <3>1
  <2>4. Tail(grown) # <<>> /\ Tail(grown)[n] = x
    <3>1. Tail(grown) # <<>>
      <4>1. Len(Tail(grown)) # 0
        BY <1>1, <2>1, <2>2
      <4> QED
        BY <2>2, <4>1, EmptySeq
    <3>2. n \in 1..n
      BY <1>1, <2>1
    <3> QED
      BY <1>1, <2>2, <3>1, <3>2
  <2>5. Push(q, x, max) = Tail(grown)
    BY <1>1, <1>2 DEF Push, grown
  <2> QED
    BY <1>1, <2>2, <2>3, <2>4, <2>5
<1>3. CASE ~ (n + 1 > max)
  <2>1. Push(q, x, max) = grown
    BY <1>1, <1>3 DEF Push, grown
  <2>2. grown # <<>>
    BY <1>1, EmptySeq
  <2>3. \A i \in 1..n+1 : i = n + 1 \/ i \in 1..n
    BY <1>1
  <2> QED
    BY <1>1, <2>1, <2>2, <2>3
<1> QED
  BY <1>2, <1>3

LEMMA SnapshotSteps ==
    ASSUME TypeOK, [Next]_vars, snapshots' # snapshots
    PROVE  \E t \in Threads : SnapshotTake(t)
<1>1. ASSUME NEW t \in Threads, NEW batch \in Batches, Call(t, batch) PROVE snapshots' = snapshots
  BY <1>1 DEF Call, readVars
<1>2. ASSUME NEW t \in Threads, WriteStep(t) PROVE snapshots' = snapshots
  BY <1>2 DEF WriteStep, WriteCell, RefuseCell, UpsertEntity, PublishEvent, Applied, Commit, Deliver,
             readVars
<1>3. ASSUME NEW t \in Threads, NEW r \in Requests, SnapshotCall(t, r) PROVE snapshots' = snapshots
  BY <1>3 DEF SnapshotCall
<1>4. ASSUME \/ \E c \in Callbacks : Subscribe(c)
             \/ \E m \in Samples : PublishMetric(m)
             \/ \E b \in Beats : Heartbeat(b)
             \/ \E d \in Descriptors : RegisterComponent(d)
             \/ Tick
      PROVE  snapshots' = snapshots
  BY <1>4 DEF Subscribe, PublishMetric, Heartbeat, RegisterComponent, Tick, readVars
<1> QED
  BY <1>1, <1>2, <1>3, <1>4 DEF Next, vars, readVars

LEMMA ConsistentInit == Init => SnapshotsAreConsistent
BY DEF Init, SnapshotsAreConsistent

LEMMA ConsistentStep ==
    ASSUME TypeOK, FeedIsRecentLog, ReleasesAreRecorded, LogExplainsState,
           SnapshotsAreConsistent, [Next]_vars
    PROVE  SnapshotsAreConsistent'
<1> DEFINE Sound(snap) ==
       snap.logicalTime \in commits /\ \A item \in snap.shown : LeftAt(item[1], snap.logicalTime, item[2])
<1>1. commits \subseteq commits' /\ commits \subseteq 0..revision
  BY LockSteps DEF Commit, ReleasesAreRecorded
<1>2. \A snap : Sound(snap) => Sound(snap)'
  BY <1>1, PastIsFixed
<1>3. CASE snapshots' = snapshots
  BY <1>2, <1>3 DEF SnapshotsAreConsistent
<1>4. CASE \E t \in Threads : SnapshotTake(t)
  <2>1. PICK t \in Threads : SnapshotTake(t)
    BY <1>4
  <2>2. PICK snap \in Snapshot :
           /\ snapshots' = Push(snapshots, snap, MaxSnapshots)
           /\ snap.logicalTime = revision
           /\ \A item \in snap.shown : \E s \in Slots :
                 cells[s] # Absent /\ item = <<s, cells[s].version>>
    BY <2>1, TakenSnapshot
  <2>3. Sound(snap)
    <3>1. revision \in commits /\ revision = Len(log)
      BY <2>1 DEF SnapshotTake, MayRead, ReleasesAreRecorded, FeedIsRecentLog
    <3>2. \A s \in Slots : cells[s] # Absent => LeftAt(s, revision, cells[s].version)
      BY <3>1 DEF LogExplainsState, VersionOf
    <3> QED
      BY <2>2, <3>1, <3>2
  <2>4. \A i \in DOMAIN snapshots' :
           snapshots'[i] = snap \/ \E j \in DOMAIN snapshots : snapshots'[i] = snapshots[j]
    <3>1. snapshots \in Seq(Snapshot) /\ MaxSnapshots \in Nat \ {0}
      BY LimitsArePositive DEF TypeOK, StoreTypes
    <3> HIDE DEF Sound
    <3> QED
      BY <2>2, <3>1, PushContents
  <2>5. \A i \in DOMAIN snapshots : Sound(snapshots[i])
    BY DEF SnapshotsAreConsistent
  <2> HIDE DEF Sound
  <2>6. \A i \in DOMAIN snapshots' : Sound(snapshots'[i])
    BY <2>3, <2>4, <2>5
  <2>7. \A i \in DOMAIN snapshots' : Sound(snapshots[i])'
    BY <1>2, <2>6
  <2> QED
    BY <2>7 DEF SnapshotsAreConsistent, Sound
<1> QED
  BY <1>3, <1>4, SnapshotSteps

\* A snapshot shows the plane between two write calls, never half a batch.
THEOREM SnapshotConsistency == Spec => []SnapshotsAreConsistent
<1>1. TypeOK /\ FeedIsRecentLog /\ ReleasesAreRecorded /\ LogExplainsState
        /\ SnapshotsAreConsistent /\ [Next]_vars => SnapshotsAreConsistent'
  BY ConsistentStep
<1>2. TypeOK /\ FeedIsRecentLog /\ ReleasesAreRecorded /\ [Next]_vars => ReleasesAreRecorded'
  BY ReleasesStep
<1> QED
  BY <1>1, <1>2, ConsistentInit, ReleasesInit, FeedFaithful, ReplayableHistory, TypeCorrect,
     PTL DEF Spec
(***************************************************************************)
(* De-duplication of events: an event id is forgotten only when max_events *)
(* others have followed it.                                                *)
(***************************************************************************)
\* The events recorded in l from place a to place b, and after place i.
EventsIn(l, a, b) == {k \in a..b : l[k].slot[1] = "event"}
EventsAfter(l, i) == Cardinality(EventsIn(l, i + 1, Len(l)))

\* Counted from the newest, every recorded event is retained at its place until
\* MaxEvents others have been recorded.
RetainedAt(l, ids, i) ==
    LET n == EventsAfter(l, i) IN
    n >= MaxEvents \/ (n < Len(ids) /\ ids[Len(ids) - n] = l[i].slot[2])

EventsAreRetained == \A i \in DOMAIN log : IsEventEntry(i) => RetainedAt(log, events, i)

EventInv == EventsAreRetained /\ EventOncePerWindow

LEMMA EventInit == Init => EventInv
<1> SUFFICES ASSUME Init PROVE \A i \in DOMAIN log : ~ IsEventEntry(i)
  BY DEF EventInv, EventsAreRetained, EventOncePerWindow
<1> QED
  BY InputsAreTyped DEF Init, Registration, IsEventEntry

\* Appending an entry counts it if it is an event.
LEMMA CountAppended ==
    ASSUME TypeOK, NEW e, log' = Append(log, e), NEW i \in DOMAIN log
    PROVE  /\ EventsAfter(log, i) \in Nat
           /\ e.slot[1] = "event" => EventsAfter(log', i) = EventsAfter(log, i) + 1
           /\ e.slot[1] # "event" => EventsAfter(log', i) = EventsAfter(log, i)
<1> DEFINE n == Len(log)
           old == EventsIn(log, i + 1, n)
           new == EventsIn(log', i + 1, n + 1)
<1>1. /\ n \in Nat /\ i \in 1..n /\ Len(log') = n + 1 /\ log'[n + 1] = e
      /\ \A k \in 1..n : log'[k] = log[k]
  BY AppendedLog
<1> HIDE DEF n
<1>2. /\ \A k : k \in (i + 1)..(n + 1) <=> k \in (i + 1)..n \/ k = n + 1
      /\ n + 1 \notin (i + 1)..n /\ \A k \in (i + 1)..n : k \in 1..n
  BY <1>1
<1>3. IsFiniteSet(old) /\ Cardinality(old) \in Nat
  <2>1. IsFiniteSet((i + 1)..n)
    BY <1>1, FS_Interval
  <2>2. old \in SUBSET ((i + 1)..n)
    BY DEF EventsIn
  <2> QED
    BY <2>1, <2>2, FS_Subset, FS_CardinalityType
<1>4. CASE e.slot[1] = "event"
  <2>1. new = old \cup {n + 1}
    BY <1>1, <1>2, <1>4, Zenon DEF EventsIn
  <2>2. n + 1 \notin old
    BY <1>2 DEF EventsIn
  <2>3. Cardinality(new) = Cardinality(old) + 1
    BY <1>3, <2>1, <2>2, FS_AddElement
  <2> QED
    BY <1>1, <1>3, <1>4, <2>3 DEF EventsAfter, n
<1>5. CASE e.slot[1] # "event"
  <2>1. new = old
    BY <1>1, <1>2, <1>5, Zenon DEF EventsIn
  <2> QED
    BY <1>1, <1>3, <1>5, <2>1 DEF EventsAfter, n
<1> QED
  BY <1>4, <1>5

\* Nothing follows the last entry.
LEMMA NoneAfterLast ==
    ASSUME TypeOK, NEW e, log' = Append(log, e)
    PROVE  EventsAfter(log', Len(log) + 1) = 0
<1>1. Len(log) \in Nat /\ Len(log') = Len(log) + 1
  BY AppendedLog
<1>2. EventsIn(log', Len(log) + 1 + 1, Len(log')) = {}
  BY <1>1 DEF EventsIn
<1> QED
  BY <1>2, FS_EmptySet DEF EventsAfter

\* A bounded store keeps its contents at their distance from its end.
LEMMA PushKeepsPlaces ==
    ASSUME NEW S, NEW q \in Seq(S), NEW x \in S, NEW max \in Nat \ {0}, Len(q) <= max,
           NEW p, p = Push(q, x, max), NEW m, m = Len(p), NEW n, n = Len(q)
    PROVE  /\ m \in Nat /\ n \in Nat /\ m > 0 /\ p[m] = x
           /\ \A k \in Nat : k < n /\ k + 1 < max => k + 1 < m /\ p[m - (k + 1)] = q[n - k]
<1> DEFINE grown == Append(q, x)
<1>1. /\ n \in Nat /\ grown \in Seq(S) /\ Len(grown) = n + 1 /\ grown[n + 1] = x
      /\ \A i \in 1..n : grown[i] = q[i]
  OBVIOUS
<1> HIDE DEF grown
<1>2. CASE n + 1 > max
  <2>1. grown # <<>> /\ n = max
    BY <1>1, <1>2, EmptySeq
  <2>2. p = Tail(grown)
    BY <1>1, <1>2 DEF Push, grown
  <2>3. m = n /\ \A i \in 1..n : p[i] = grown[i + 1]
    BY <1>1, <2>1, <2>2
  <2>4. n \in 1..n /\ p[m] = x
    BY <1>1, <2>1, <2>3
  <2>5. ASSUME NEW k \in Nat, k < n, k + 1 < max
        PROVE  k + 1 < m /\ p[m - (k + 1)] = q[n - k]
    <3>1. n - (k + 1) \in 1..n /\ (n - (k + 1)) + 1 = n - k /\ n - k \in 1..n
      BY <1>1, <2>1, <2>5
    <3>2. p[n - (k + 1)] = grown[n - k]
      BY <2>3, <3>1
    <3> QED
      BY <1>1, <2>1, <2>3, <2>5, <3>1, <3>2
  <2> QED
    BY <1>1, <2>1, <2>3, <2>4, <2>5
<1>3. CASE ~ (n + 1 > max)
  <2>1. p = grown /\ m = n + 1
    BY <1>1, <1>3 DEF Push, grown
  <2>2. ASSUME NEW k \in Nat, k < n
        PROVE  k + 1 < m /\ p[m - (k + 1)] = q[n - k]
    <3>1. (n + 1) - (k + 1) = n - k /\ n - k \in 1..n /\ k + 1 < n + 1
      BY <1>1, <2>2
    <3> QED
      BY <1>1, <2>1, <3>1
  <2> QED
    BY <1>1, <2>1, <2>2
<1> QED
  BY <1>2, <1>3

\* A step records no event, or one whose id is not retained.
LEMMA EventSteps ==
    ASSUME TypeOK, [Next]_vars
    PROVE  \/ UNCHANGED <<log, events>>
           \/ \E e : log' = Append(log, e) /\ e.slot[1] # "event" /\ events' = events
           \/ \E e, id :
                 /\ log' = Append(log, e) /\ e.slot = <<"event", id>> /\ id \in EventIds
                 /\ \A i \in DOMAIN events : events[i] # id
                 /\ events' = Push(events, id, MaxEvents)
<1> DEFINE Entry5(t, v) == [slot |-> Head(queue[t]).slot, version |-> v,
                            idem |-> Head(queue[t]).idem, expected |-> Head(queue[t]).expected]
<1>1. ASSUME NEW t \in Threads, WriteCell(t)
      PROVE  \E e : log' = Append(log, e) /\ e.slot[1] # "event" /\ events' = events
  <2> DEFINE e == Entry5(t, NextVersion(Head(queue[t]), cells[Head(queue[t]).slot]))
  <2>1. log' = Append(log, e) /\ events' = events
    BY <1>1 DEF WriteCell, RecordChange
  <2>2. e.slot[1] # "event"
    BY <1>1 DEF WriteCell, IsCellWrite
  <2> QED
    BY <2>1, <2>2
<1>2. ASSUME NEW t \in Threads, UpsertEntity(t)
      PROVE  \/ UNCHANGED <<log, events>>
             \/ \E e : log' = Append(log, e) /\ e.slot[1] # "event" /\ events' = events
  <2> DEFINE e == [slot |-> Head(queue[t]).slot, version |-> 1, idem |-> NoKey, expected |-> Unset]
  <2>1. e.slot[1] # "event"
    BY <1>2 DEF UpsertEntity, IsEntity
  <2>2. UNCHANGED <<log, events>> \/ (log' = Append(log, e) /\ events' = events)
    BY <1>2 DEF UpsertEntity, RecordChange, stored
  <2> QED
    BY <2>1, <2>2
<1>3. ASSUME NEW t \in Threads, PublishEvent(t), ~ UNCHANGED <<log, events>>
      PROVE  \E e, id : /\ log' = Append(log, e) /\ e.slot = <<"event", id>> /\ id \in EventIds
                        /\ \A i \in DOMAIN events : events[i] # id
                        /\ events' = Push(events, id, MaxEvents)
  <2> DEFINE item == Head(queue[t])
             e == [slot |-> item.slot, version |-> 1, idem |-> NoKey, expected |-> Unset]
  <2>1. item \in EventWrites
    BY <1>3, ItemKinds DEF PublishEvent, Applying, TypeOK, ThreadTypes
  <2>2. item.slot[2] \in EventIds /\ item.slot = <<"event", item.slot[2]>>
    BY <2>1 DEF EventWrites
  <2>3. StoresEvent(item) /\ events' = Push(events, item.slot[2], MaxEvents)
        /\ log' = Append(log, e)
    BY <1>3 DEF PublishEvent, RecordChange, stored
  <2>4. \A i \in DOMAIN events : events[i] # item.slot[2]
    BY <2>3 DEF StoresEvent
  <2>5. e.slot = item.slot
    OBVIOUS
  <2> HIDE DEF e, item
  <2> QED
    BY <2>2, <2>3, <2>4, <2>5
<1> QED
  BY <1>1, <1>2, <1>3, StoreSteps DEF stored

LEMMA EventStep == TypeOK /\ EventInv /\ [Next]_vars => EventInv'
<1> SUFFICES ASSUME TypeOK, EventInv, [Next]_vars PROVE EventInv'
  OBVIOUS
<1>1. CASE UNCHANGED <<log, events>>
  BY <1>1 DEF EventInv, EventsAreRetained, EventOncePerWindow, IsEventEntry
\* What was recorded before the step.
<1>2. ASSUME NEW e, log' = Append(log, e), NEW j \in DOMAIN log', j # Len(log) + 1
      PROVE  /\ j \in DOMAIN log /\ IsEventEntry(j)' = IsEventEntry(j)
             /\ \A i \in DOMAIN log' :
                  i < j /\ IsEventEntry(i)' /\ log'[i].slot = log'[j].slot =>
                    Cardinality({k \in i+1..j-1 : IsEventEntry(k)'}) >= MaxEvents
  <2> DEFINE n == Len(log)
  <2>1. /\ n \in Nat /\ DOMAIN log = 1..n /\ DOMAIN log' = 1..(n + 1)
        /\ \A k \in 1..n : log'[k] = log[k]
    BY <1>2, AppendedLog
  <2> HIDE DEF n
  <2>2. j \in 1..n
    BY <1>2, <2>1 DEF n
  <2>3. \A k \in 1..n : IsEventEntry(k)' = IsEventEntry(k)
    BY <2>1 DEF IsEventEntry
  <2>4. ASSUME NEW i \in DOMAIN log', i < j, IsEventEntry(i)', log'[i].slot = log'[j].slot
        PROVE  Cardinality({k \in i+1..j-1 : IsEventEntry(k)'}) >= MaxEvents
    <3>1. i \in 1..n /\ \A k \in i+1..j-1 : k \in 1..n
      BY <2>1, <2>2, <2>4
    <3>2. {k \in i+1..j-1 : IsEventEntry(k)'} = {k \in i+1..j-1 : IsEventEntry(k)}
      BY <2>3, <3>1
    <3>3. Cardinality({k \in i+1..j-1 : IsEventEntry(k)}) >= MaxEvents
      BY <2>1, <2>2, <2>3, <2>4, <3>1 DEF EventInv, EventOncePerWindow
    <3> QED
      BY <3>2, <3>3
  <2> QED
    BY <2>1, <2>2, <2>3, <2>4
<1>3. ASSUME NEW e, log' = Append(log, e), e.slot[1] # "event", events' = events
      PROVE  EventInv'
  <2> DEFINE n == Len(log)
  <2>0. /\ n \in Nat /\ DOMAIN log = 1..n /\ DOMAIN log' = 1..(n + 1) /\ log'[n + 1] = e
        /\ \A i \in 1..n : log'[i] = log[i]
    BY <1>3, AppendedLog
  <2> HIDE DEF n
  <2>1. \A i \in DOMAIN log' : log'[i].slot[1] = "event" =>
           i # n + 1 /\ i \in DOMAIN log /\ log'[i] = log[i]
    BY <1>3, <2>0
  <2>2. EventsAreRetained'
    <3> SUFFICES ASSUME NEW i \in DOMAIN log', IsEventEntry(i)'
                 PROVE  RetainedAt(log', events', i)
      BY DEF EventsAreRetained
    <3>1. i \in DOMAIN log /\ IsEventEntry(i) /\ log'[i] = log[i]
      BY <2>1 DEF IsEventEntry
    <3>2. EventsAfter(log', i) = EventsAfter(log, i)
      BY <1>3, <3>1, CountAppended
    <3>3. RetainedAt(log, events, i)
      BY <3>1 DEF EventInv, EventsAreRetained
    <3> QED
      BY <1>3, <3>1, <3>2, <3>3, Zenon DEF RetainedAt
  <2>3. EventOncePerWindow'
    <3> SUFFICES ASSUME NEW i \in DOMAIN log', NEW j \in DOMAIN log',
                        i < j, IsEventEntry(i)', log'[i].slot = log'[j].slot
                 PROVE  Cardinality({k \in i+1..j-1 : IsEventEntry(k)'}) >= MaxEvents
      BY DEF EventOncePerWindow
    <3>1. j # Len(log) + 1
      BY <2>1 DEF IsEventEntry, n
    <3> QED
      BY <1>2, <1>3, <3>1
  <2> QED
    BY <2>2, <2>3 DEF EventInv
<1>4. ASSUME NEW e, NEW id \in EventIds, log' = Append(log, e), e.slot = <<"event", id>>,
             \A i \in DOMAIN events : events[i] # id, events' = Push(events, id, MaxEvents)
      PROVE  EventInv'
  <2> DEFINE n == Len(log)
             m == Len(events)
  <2>1. /\ n \in Nat /\ DOMAIN log = 1..n /\ DOMAIN log' = 1..(n + 1) /\ log'[n + 1] = e
        /\ \A i \in 1..n : log'[i] = log[i]
    BY <1>4, AppendedLog
  <2>2. /\ events \in Seq(EventIds) /\ m \in Nat /\ m <= MaxEvents /\ DOMAIN events = 1..m
        /\ MaxEvents \in Nat \ {0}
    BY LimitsArePositive DEF TypeOK, StoreTypes, Limited
  <2>3. /\ Len(events') \in Nat /\ Len(events') > 0 /\ events'[Len(events')] = id
        /\ \A k \in Nat : k < m /\ k + 1 < MaxEvents =>
              k + 1 < Len(events') /\ events'[Len(events') - (k + 1)] = events[m - k]
    BY <1>4, <2>2, PushKeepsPlaces
  <2>4. e.slot[1] = "event" /\ e.slot[2] = id
    BY <1>4
  <2>5. \A i \in 1..n : EventsAfter(log, i) \in Nat
                        /\ EventsAfter(log', i) = EventsAfter(log, i) + 1
    BY <1>4, <2>1, <2>4, CountAppended
  <2>6. EventsAfter(log', n + 1) = 0
    BY <1>4, NoneAfterLast
  <2> HIDE DEF n, m
  <2>7. EventsAreRetained'
    <3> SUFFICES ASSUME NEW i \in 1..(n + 1), IsEventEntry(i)'
                 PROVE  RetainedAt(log', events', i)
      BY <2>1 DEF EventsAreRetained
    <3>1. CASE i = n + 1
      BY <2>1, <2>3, <2>4, <2>6, <3>1 DEF RetainedAt
    <3>2. CASE i # n + 1
      <4>1. i \in 1..n /\ IsEventEntry(i) /\ log'[i] = log[i]
        BY <2>1, <3>2 DEF IsEventEntry
      <4> DEFINE k == EventsAfter(log, i)
      <4>2. k >= MaxEvents \/ (k < m /\ events[m - k] = log[i].slot[2])
        BY <2>1, <4>1 DEF EventInv, EventsAreRetained, RetainedAt, m
      <4>3. k \in Nat /\ EventsAfter(log', i) = k + 1
        BY <2>5, <4>1
      <4> HIDE DEF k
      <4> QED
        BY <2>2, <2>3, <4>1, <4>2, <4>3 DEF RetainedAt
    <3> QED
      BY <3>1, <3>2
  <2>8. EventOncePerWindow'
    <3> SUFFICES ASSUME NEW i \in DOMAIN log', NEW j \in DOMAIN log',
                        i < j, IsEventEntry(i)', log'[i].slot = log'[j].slot
                 PROVE  Cardinality({k \in i+1..j-1 : IsEventEntry(k)'}) >= MaxEvents
      BY DEF EventOncePerWindow
    <3>1. CASE j # Len(log) + 1
      BY <1>2, <1>4, <3>1
    <3>2. CASE j = n + 1
      <4>1. i \in 1..n /\ j - 1 = n /\ log'[i] = log[i] /\ log'[j] = e
        BY <2>1, <3>2
      <4>2. IsEventEntry(i) /\ log[i].slot[2] = id
        BY <2>4, <4>1 DEF IsEventEntry
      <4>3. RetainedAt(log, events, i)
        BY <2>1, <4>1, <4>2 DEF EventInv, EventsAreRetained
      <4>4. EventsAfter(log, i) >= MaxEvents
        <5> DEFINE k == EventsAfter(log, i)
        <5>1. k >= MaxEvents \/ (k < m /\ events[m - k] = id)
          BY <4>2, <4>3 DEF RetainedAt, m
        <5>2. k \in Nat
          BY <2>5, <4>1
        <5> HIDE DEF k
        <5>3. k < m => m - k \in 1..m
          BY <2>2, <5>2
        <5>4. k >= MaxEvents
          BY <1>4, <2>2, <5>1, <5>3
        <5> QED
          BY <5>4 DEF k
      <4>5. {k \in i+1..j-1 : IsEventEntry(k)'} = EventsIn(log, i + 1, Len(log))
        <5>1. \A k \in i+1..n : k \in 1..n
          BY <2>1, <4>1
        <5>2. \A k \in i+1..n : IsEventEntry(k)' <=> log[k].slot[1] = "event"
          BY <2>1, <5>1 DEF IsEventEntry
        <5> QED
          BY <4>1, <5>2 DEF EventsIn, n
      <4> QED
        BY <4>4, <4>5 DEF EventsAfter
    <3> QED
      BY <3>1, <3>2 DEF n
  <2> QED
    BY <2>7, <2>8 DEF EventInv
<1> QED
  BY <1>1, <1>3, <1>4, EventSteps

\* publish_events: whatever the limit and the order of the calls, an id is stored
\* again only after at least max_events other events have been, since the ids of
\* the last max_events events are all retained.
THEOREM EventDeduplication == Spec => []EventOncePerWindow
<1>1. EventInv => EventOncePerWindow
  BY DEF EventInv
<1> QED
  BY <1>1, EventInit, EventStep, TypeCorrect, PTL DEF Spec

(***************************************************************************)
(* Atomicity: StatePlane implements VersionedStore.  Only Commit and       *)
(* SnapshotTake are steps of the store; every other step leaves alone what *)
(* it shows, because Published does not move while the lock is held and    *)
(* the changes before it are never rewritten.                              *)
(***************************************************************************)

\* The holder of the lock has made up no more changes than were recorded.
PublishedInPast == lock # Free => Len(notes[lock]) <= revision

StoreInv ==
    TypeOK /\ FeedIsRecentLog /\ VersionsAreLogged /\ PublishedInPast

LEMMA PublishedRange ==
    ASSUME StoreInv
    PROVE  Published \in 0..revision /\ revision \in Nat /\ revision = Len(log)
<1>1. revision \in Nat /\ revision = Len(log)
  BY DEF StoreInv, TypeOK, StoreTypes, FeedIsRecentLog
<1>2. CASE lock = Free
  BY <1>1, <1>2 DEF Published
<1>3. CASE lock # Free
  <2>1. notes[lock] \in Seq(Change)
    BY <1>3 DEF StoreInv, TypeOK, ThreadTypes
  <2>2. Len(notes[lock]) \in 0..revision
    BY <1>1, <1>3, <2>1 DEF StoreInv, PublishedInPast
  <2> QED
    BY <1>1, <1>3, <2>2 DEF Published
<1> QED
  BY <1>2, <1>3

(***************************************************************************)
(* Published moves only when a write call ends                             *)
(***************************************************************************)

\* Recording a change moves the revision and the holder's notes alike.
LEMMA RecordingIsUnseen ==
    ASSUME StoreInv, NEW t \in Threads, lock = t, lock' = lock,
           \/ UNCHANGED <<revision, notes>>
           \/ /\ revision' = revision + 1
              /\ \E c : notes' = [notes EXCEPT ![t] = Append(@, c)]
    PROVE  Published' = Published /\ PublishedInPast'
<1>1. /\ t # Free /\ notes \in [Threads -> Seq(Change)] /\ notes[t] \in Seq(Change)
      /\ revision \in Nat /\ Len(notes[t]) <= revision
  BY NamesAreApart, PublishedRange DEF StoreInv, TypeOK, ThreadTypes, PublishedInPast
<1>2. CASE UNCHANGED <<revision, notes>>
  BY <1>1, <1>2 DEF Published, PublishedInPast
<1>3. ASSUME NEW c, revision' = revision + 1, notes' = [notes EXCEPT ![t] = Append(@, c)]
      PROVE  Published' = Published /\ PublishedInPast'
  <2>1. notes'[t] = Append(notes[t], c)
    BY <1>1, <1>3
  <2>2. Len(notes'[t]) = Len(notes[t]) + 1 /\ Len(notes[t]) \in Nat
    BY <1>1, <2>1
  <2> QED
    BY <1>1, <1>3, <2>2 DEF Published, PublishedInPast
<1> QED
  BY <1>2, <1>3

LEMMA PublishedSteps ==
    ASSUME StoreInv, [Next]_vars, ~ \E t \in Threads : Commit(t)
    PROVE  Published' = Published /\ PublishedInPast'
<1> DEFINE Unseen == Published' = Published /\ PublishedInPast'
<1>1. ASSUME UNCHANGED <<lock, revision, notes>> PROVE Unseen
  BY <1>1 DEF Published, PublishedInPast, StoreInv
<1>2. ASSUME NEW t \in Threads, WriteCell(t) PROVE Unseen
  <2>1. lock = t /\ lock' = lock
    BY <1>2 DEF WriteCell, Applying, Applied, StoreInv, TypeOK, LockDiscipline
  <2>2. revision' = revision + 1 /\ \E c : notes' = [notes EXCEPT ![t] = Append(@, c)]
    BY <1>2 DEF WriteCell, RecordChange
  <2> QED
    BY <2>1, <2>2, RecordingIsUnseen
<1>3. ASSUME NEW t \in Threads, UpsertEntity(t) \/ PublishEvent(t) PROVE Unseen
  <2>1. lock = t /\ lock' = lock
    BY <1>3 DEF UpsertEntity, PublishEvent, Applying, Applied, StoreInv, TypeOK, LockDiscipline
  <2>2. \/ UNCHANGED <<revision, notes>>
        \/ revision' = revision + 1 /\ \E c : notes' = [notes EXCEPT ![t] = Append(@, c)]
    BY <1>3, RecordMark DEF StoreInv
  <2> QED
    BY <2>1, <2>2, RecordingIsUnseen
<1>4. ASSUME NEW t \in Threads,
             RefuseCell(t) \/ Deliver(t) \/ (\E r \in Requests : SnapshotCall(t, r)) \/ SnapshotTake(t)
      PROVE  Unseen
  <2>1. UNCHANGED <<lock, revision, notes>>
    BY <1>4 DEF RefuseCell, Applied, Deliver, SnapshotCall, SnapshotTake, stored
  <2> QED
    BY <1>1, <2>1
<1>5. ASSUME NEW t \in Threads, NEW batch \in Batches, Call(t, batch) PROVE Unseen
  <2>1. lock = Free /\ lock' = t /\ t # Free /\ UNCHANGED <<notes, revision>> /\ notes[t] = <<>>
    BY <1>5, NamesAreApart DEF Call, stored, StoreInv, TypeOK, LockDiscipline
  <2>2. Len(notes'[t]) = 0 /\ revision \in Nat
    BY <2>1, PublishedRange
  <2> QED
    BY <2>1, <2>2 DEF Published, PublishedInPast
<1>6. ASSUME \/ \E c \in Callbacks : Subscribe(c)
             \/ \E m \in Samples : PublishMetric(m)
             \/ \E b \in Beats : Heartbeat(b)
             \/ \E d \in Descriptors : RegisterComponent(d)
             \/ Tick \/ UNCHANGED vars
      PROVE  Unseen
  <2>1. UNCHANGED <<lock, revision, notes>>
    BY <1>6 DEF Subscribe, PublishMetric, Heartbeat, RegisterComponent, Tick, vars, lockVars, stored
  <2> QED
    BY <1>1, <2>1
<1> HIDE DEF Unseen
<1>7. Unseen
  BY <1>2, <1>3, <1>4, <1>5, <1>6 DEF Next, WriteStep
<1> QED
  BY <1>7 DEF Unseen

LEMMA PublishedStep ==
    ASSUME StoreInv, [Next]_vars
    PROVE  PublishedInPast'
<1>1. CASE \E t \in Threads : Commit(t)
  BY <1>1 DEF Commit, PublishedInPast
<1> QED
  BY <1>1, PublishedSteps

(***************************************************************************)
(* The store                                                               *)
(***************************************************************************)

\* What the first n changes left is not touched by later ones.
LEMMA AfterIsFixed ==
    ASSUME StoreInv, [Next]_vars, NEW n \in 0..revision
    PROVE  After(n)' = After(n)
<1>1. \A i \in 1..n : log'[i] = log[i]
  BY HistoryGrows DEF StoreInv
<1>2. \A i \in 1..n : \A j \in i+1..n : j \in 1..n
  BY PublishedRange
<1>3. \A s \in Slots : LastWrites(s, n)' = LastWrites(s, n)
  BY <1>1, <1>2 DEF LastWrites
<1>4. ASSUME NEW s \in Slots PROVE After(n)'[s] = After(n)[s]
  <2> DEFINE W == LastWrites(s, n)
             last == CHOOSE i \in W : TRUE
  <2>1. After(n)[s] = IF W = {} THEN Unset ELSE log[last].version
    BY DEF After
  <2>2. After(n)'[s] = IF W = {} THEN Unset ELSE log'[last].version
    <3>1. After(n)'[s] = IF LastWrites(s, n)' = {} THEN Unset
                         ELSE log'[CHOOSE i \in LastWrites(s, n)' : TRUE].version
      BY DEF After
    <3> QED
      BY <1>3, <3>1
  <2>3. W # {} => last \in 1..n
    <3>1. W # {} => last \in W
      OBVIOUS
    <3> QED
      BY <3>1 DEF LastWrites
  <2> HIDE DEF W, last
  <2> QED
    BY <1>1, <2>1, <2>2, <2>3
<1>5. /\ After(n) = [s \in Slots |-> After(n)[s]]
      /\ After(n)' = [s \in Slots |-> After(n)'[s]]
  BY DEF After
<1> QED
  BY <1>4, <1>5

\* All the changes together leave what the plane holds.
LEMMA AfterAll ==
    ASSUME StoreInv, NEW s \in Slots
    PROVE  After(revision)[s] = IF cells[s] = Absent THEN Unset ELSE cells[s].version
<1>1. revision \in Nat /\ revision = Len(log) /\ DOMAIN log = 1..revision
  BY PublishedRange DEF StoreInv, TypeOK, StoreTypes
<1>2. CASE cells[s] = Absent
  <2>1. LastWrites(s, revision) = {}
    BY <1>1, <1>2 DEF LastWrites, StoreInv, VersionsAreLogged
  <2> QED
    BY <1>2, <2>1 DEF After
<1>3. CASE cells[s] # Absent
  <2>1. PICK i \in 1..revision : log[i].slot = s /\ log[i].version = cells[s].version
    BY <1>1, <1>3 DEF StoreInv, VersionsAreLogged
  <2>2. ASSUME NEW j \in 1..revision, i < j, log[j].slot = s PROVE FALSE
    <3>1. log[i].version < log[j].version /\ log[j].version <= cells[s].version
      BY <1>1, <2>1, <2>2 DEF StoreInv, VersionsAreLogged
    <3> QED
      BY <1>1, <1>3, <2>1, <3>1, Numbers DEF StoreInv
  <2>3. i \in LastWrites(s, revision)
    BY <1>1, <2>1, <2>2 DEF LastWrites
  <2>4. \A k \in LastWrites(s, revision) : k = i
    BY <1>1, <2>1, <2>2 DEF LastWrites
  <2>5. (CHOOSE k \in LastWrites(s, revision) : TRUE) = i
    BY <2>3, <2>4
  <2> QED
    BY <1>3, <2>1, <2>3, <2>5 DEF After
<1> QED
  BY <1>2, <1>3

\* What was published of a slot is not above what the plane holds.
LEMMA AfterBelow ==
    ASSUME StoreInv, NEW s \in Slots, NEW n \in 0..revision, After(n)[s] # Unset
    PROVE  /\ cells[s] # Absent /\ After(n)[s] \in Int /\ cells[s].version \in Int
           /\ After(n)[s] <= cells[s].version
<1>1. revision \in Nat /\ DOMAIN log = 1..revision
  BY PublishedRange DEF StoreInv, TypeOK, StoreTypes
<1>2. LastWrites(s, n) # {}
  BY DEF After
<1>3. PICK i \in 1..n : log[i].slot = s /\ After(n)[s] = log[i].version
  <2>1. (CHOOSE k \in LastWrites(s, n) : TRUE) \in LastWrites(s, n)
    BY <1>2
  <2> QED
    BY <1>2, <2>1 DEF After, LastWrites
<1>4. i \in DOMAIN log
  BY <1>1
<1> QED
  BY <1>3, <1>4, Numbers DEF StoreInv, VersionsAreLogged

(***************************************************************************)
(* The refinement                                                          *)
(***************************************************************************)
LEMMA StoreInit == Init => Store!Init
<1> SUFFICES ASSUME Init PROVE Store!Init
  OBVIOUS
<1>1. Published = Len(SetUp) /\ Len(SetUp) \in Nat /\ LastView = {}
  BY InputsAreTyped DEF Init, Published, LastView
<1>2. \A i \in 1..Published : log[i].slot \notin Slots
  BY <1>1, InputsAreTyped DEF Init, Registration, Slots, StateSlots, RelationSlots
<1>3. After(Published) = [s \in Slots |-> Unset]
  <2>1. \A s \in Slots : LastWrites(s, Published) = {}
    BY <1>2 DEF LastWrites
  <2> QED
    BY <2>1 DEF After
<1> QED
  BY <1>1, <1>3 DEF Store!Init

\* The end of a write call is the step at which its whole batch takes effect.
LEMMA CommitIsWrite ==
    ASSUME StoreInv, StoreInv', NEW t \in Threads, Commit(t)
    PROVE  [Store!Next]_<<Published, After(Published), LastView>>
<1>1. /\ Published' = revision /\ UNCHANGED <<revision, cells, log, snapshots>>
  BY DEF Commit, Published, stored, readVars
<1>2. Published \in 0..revision /\ revision \in Nat
  BY PublishedRange
<1>3. LastView' = LastView
  BY <1>1 DEF LastView
<1>4. After(Published)' = After(revision)
  BY <1>1 DEF After, LastWrites
<1>5. CASE Published = revision
  BY <1>1, <1>3, <1>4, <1>5
<1>6. CASE Published < revision
  <2>1. \A s \in Slots : After(revision)[s] = IF cells[s] = Absent THEN Unset ELSE cells[s].version
    BY AfterAll
  <2>2. \A s \in Slots : cells[s] # Absent => cells[s].version \in Int
    BY Numbers DEF StoreInv
  <2>3. After(revision) \in [Slots -> Int \cup {Unset}]
    <3>1. After(revision) = [s \in Slots |-> After(revision)[s]]
      BY DEF After
    <3> QED
      BY <2>1, <2>2, <3>1
  <2>4. ASSUME NEW s \in Slots, After(revision)[s] # After(Published)[s]
        PROVE  /\ After(revision)[s] # Unset
               /\ After(Published)[s] = Unset \/ After(revision)[s] > After(Published)[s]
    <3>1. CASE After(Published)[s] = Unset
      BY <2>4, <3>1
    <3>2. CASE After(Published)[s] # Unset
      <4>1. /\ cells[s] # Absent /\ After(Published)[s] \in Int /\ cells[s].version \in Int
            /\ After(Published)[s] <= cells[s].version
        BY <1>2, <3>2, AfterBelow
      <4> QED
        BY <2>1, <2>4, <4>1, UnsetIsNoVersion
    <3> QED
      BY <3>1, <3>2
  <2>5. Store!Write
    BY <1>1, <1>2, <1>3, <1>4, <1>6, <2>3, <2>4 DEF Store!Write, Store!Contents
  <2> QED
    BY <2>5 DEF Store!Next
<1> QED
  BY <1>2, <1>5, <1>6

\* A snapshot is a view of the store at the time it names.
LEMMA SnapshotIsView ==
    ASSUME StoreInv, NEW t \in Threads, SnapshotTake(t)
    PROVE  Store!Next
<1>1. PICK snap \in Snapshot :
         /\ snapshots' = Push(snapshots, snap, MaxSnapshots)
         /\ snap.logicalTime = revision
         /\ \A item \in snap.shown : \E s \in Slots :
               cells[s] # Absent /\ item = <<s, cells[s].version>>
  BY TakenSnapshot DEF StoreInv
<1>2. lock = Free /\ UNCHANGED <<lock, revision, notes, log>>
  BY DEF SnapshotTake, MayRead, stored
<1>3. Published = revision /\ Published' = Published /\ After(Published)' = After(Published)
  BY <1>2 DEF Published, After, LastWrites
<1>4. snapshots' # <<>> /\ snapshots'[Len(snapshots')] = snap
  <2>1. snapshots \in Seq(Snapshot)
    BY DEF StoreInv, TypeOK, StoreTypes
  <2>2. MaxSnapshots \in Nat \ {0}
    BY LimitsArePositive
  <2> QED
    BY <1>1, <2>1, <2>2, PushContents
<1>5. LastView' = {[time |-> Published, shown |-> snap.shown]}
  BY <1>1, <1>3, <1>4 DEF LastView
<1>6. \A item \in snap.shown : \E s \in Slots :
         After(Published)[s] # Unset /\ item = <<s, After(Published)[s]>>
  <2>1. \A s \in Slots : cells[s] # Absent =>
           After(Published)[s] = cells[s].version /\ cells[s].version # Unset
    BY <1>3, AfterAll, Numbers, UnsetIsNoVersion DEF StoreInv
  <2> QED
    BY <1>1, <2>1
<1> DEFINE v == [time |-> Published, shown |-> snap.shown]
<1>7. v \in LastView' /\ LastView' = {v} /\ v.shown = snap.shown
  BY <1>5
<1> QED
  BY <1>3, <1>6, <1>7 DEF Store!Next, Store!View

LEMMA StoreStep ==
    ASSUME StoreInv, StoreInv', [Next]_vars
    PROVE  [Store!Next]_<<Published, After(Published), LastView>>
<1>1. CASE \E t \in Threads : Commit(t)
  BY <1>1, CommitIsWrite
<1>2. CASE \E t \in Threads : SnapshotTake(t)
  BY <1>2, SnapshotIsView
<1>3. CASE ~ (\E t \in Threads : Commit(t)) /\ ~ (\E t \in Threads : SnapshotTake(t))
  <2>1. Published' = Published /\ Published \in 0..revision
    BY <1>3, PublishedSteps, PublishedRange
  <2>2. After(Published)' = After(Published)
    <3>1. \A n \in 0..revision : After(n)' = After(n)
      BY AfterIsFixed
    <3> QED
      BY <2>1, <3>1 DEF After, LastWrites
  <2>3. LastView' = LastView
    BY <1>3, SnapshotSteps DEF StoreInv, LastView
  <2> QED
    BY <2>1, <2>2, <2>3
<1> QED
  BY <1>1, <1>2, <1>3

\* A client cannot tell the plane from a store in which batches and snapshots
\* happen at once.
THEOREM Atomicity == Spec => BatchesAreAtomic
<1>1. Init => PublishedInPast
  BY DEF Init, PublishedInPast
<1>2. StoreInv /\ [Next]_vars => PublishedInPast'
  BY PublishedStep
<1>3. TypeOK /\ VersionsAreLogged /\ [Next]_vars => VersionsAreLogged'
  BY LoggedStep
<1>4. TypeOK /\ FeedIsRecentLog /\ VersionsAreLogged /\ PublishedInPast <=> StoreInv
  BY DEF StoreInv
<1>5. StoreInv /\ StoreInv' /\ [Next]_vars => [Store!Next]_<<Published, After(Published), LastView>>
  BY StoreStep
<1>6. Spec => []StoreInv
  BY <1>1, <1>2, <1>3, <1>4, LoggedInit, FeedFaithful, TypeCorrect, PTL DEF Spec
<1> QED
  BY <1>5, <1>6, StoreInit, PTL DEF Spec, BatchesAreAtomic, Store!Spec

=============================================================================
