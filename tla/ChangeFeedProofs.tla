-------------------------- MODULE ChangeFeedProofs --------------------------
(***************************************************************************)
(* Those who are told of changes, proved for every value of the constants. *)
(* Subscribers are called once with each change since they subscribed.     *)
(* Watchers, whatever breaks, resumes, is cut off or is evicted, are       *)
(* handed the retained changes they want, in order and without gaps.       *)
(***************************************************************************)
EXTENDS ChangeFeed, StatePlaneProofs

(***************************************************************************)
(* Subscribers: from the lock to the call, a change is at exactly one      *)
(* place for each callback that subscribed before it, and at none for the  *)
(* others.                                                                 *)
(***************************************************************************)

\* The places in a sequence of calls made, calls owed, changes noted.
Calls(made, n) == {i \in DOMAIN made : made[i] = n}
Owed(calls, c, n) == {i \in DOMAIN calls : calls[i].callback = c /\ calls[i].change.cursor = n}
Noted(changed, n) == {i \in DOMAIN changed : changed[i].cursor = n}

Unheard(made, p, c, n) == Calls(made, n) = {} /\ \A t \in Threads : Owed(p[t], c, n) = {}

Unnoted(m, n) == \A t \in Threads : Noted(m[t], n) = {}

CalledOnce(made, p, m, c, n) ==
    /\ \E i : Calls(made, n) = {i}
    /\ Unnoted(m, n) /\ \A t \in Threads : Owed(p[t], c, n) = {}

OwedOnce(made, p, m, c, n) ==
    /\ Calls(made, n) = {} /\ Unnoted(m, n)
    /\ \E t \in Threads : /\ \E i : Owed(p[t], c, n) = {i}
                          /\ \A u \in Threads : u # t => Owed(p[u], c, n) = {}

NotedOnce(made, p, m, c, n) ==
    /\ Unheard(made, p, c, n)
    /\ \E t \in Threads : /\ \E i : Noted(m[t], n) = {i}
                          /\ \A u \in Threads : u # t => Noted(m[u], n) = {}

AtOnePlace(made, p, m, c, n) ==
    CalledOnce(made, p, m, c, n) \/ OwedOnce(made, p, m, c, n) \/ NotedOnce(made, p, m, c, n)

\* What is on its way is a recorded change, under its own number.
RecordedIn(l, change) ==
    /\ change.cursor \in DOMAIN l
    /\ change.slot = l[change.cursor].slot /\ change.version = l[change.cursor].version

OnTheWay ==
    /\ \A t \in Threads : \A i \in DOMAIN notes[t] : RecordedIn(log, notes[t][i])
    /\ \A t \in Threads : \A i \in DOMAIN pending[t] : RecordedIn(log, pending[t][i].change)
    /\ \A c \in Callbacks : \A i \in DOMAIN delivered[c] : delivered[c][i] \in DOMAIN log

SubscribersAreApart ==
    /\ \A i, j \in DOMAIN subscribers : subscribers[i] = subscribers[j] => i = j
    /\ \A c \in Callbacks : since[c] <= revision

PlacesAreKept ==
    \A c \in Callbacks, n \in 1..revision :
        IF ~ Subscribed(c) THEN Unheard(delivered[c], pending, c, n)
        ELSE IF n > since[c] THEN AtOnePlace(delivered[c], pending, notes, c, n)
        ELSE Unheard(delivered[c], pending, c, n) /\ Unnoted(notes, n)

NotifyInv == OnTheWay /\ SubscribersAreApart /\ PlacesAreKept

(***************************************************************************)
(* What the invariant says of the property                                 *)
(***************************************************************************)
LEMMA PlacesInParts ==
    ASSUME NEW c, NEW n, NEW p
    PROVE  p \in Places(c, n) <=>
              \/ \E i \in Calls(delivered[c], n) : p = <<"called", i>>
              \/ \E t \in Threads : \E i \in Owed(pending[t], c, n) : p = <<"owed", t, i>>
              \/ \E t \in Threads : \E i \in Noted(notes[t], n) : Subscribed(c) /\ p = <<"noted", t, i>>
<1> DEFINE called == {i \in DOMAIN delivered[c] : delivered[c][i] = n}
           owed(t) == {i \in DOMAIN pending[t] : pending[t][i].callback = c
                                                  /\ pending[t][i].change.cursor = n}
           noted(t) == {i \in DOMAIN notes[t] : Subscribed(c) /\ notes[t][i].cursor = n}
           allCalled == {"called"} \X called
           allOwed == UNION {{"owed"} \X {t} \X owed(t) : t \in Threads}
           allNoted == UNION {{"noted"} \X {t} \X noted(t) : t \in Threads}
<1>1. Places(c, n) = allCalled \cup (allOwed \cup allNoted)
  BY DEF Places
<1>2. called = Calls(delivered[c], n) /\ \A t : owed(t) = Owed(pending[t], c, n)
  BY DEF Calls, Owed
<1>3. \A t, i : i \in noted(t) <=> i \in Noted(notes[t], n) /\ Subscribed(c)
  BY DEF Noted
<1> HIDE DEF called, owed, noted
<1>4. p \in allCalled <=> \E i \in called : p = <<"called", i>>
  OBVIOUS
<1>5. p \in allOwed <=> \E t \in Threads : \E i \in owed(t) : p = <<"owed", t, i>>
  <2>1. ASSUME NEW t PROVE p \in {"owed"} \X {t} \X owed(t)
                              <=> \E i \in owed(t) : p = <<"owed", t, i>>
    OBVIOUS
  <2>2. p \in allOwed <=> \E t \in Threads : p \in {"owed"} \X {t} \X owed(t)
    OBVIOUS
  <2> QED
    BY <2>1, <2>2, Zenon
<1>6. p \in allNoted <=> \E t \in Threads : \E i \in noted(t) : p = <<"noted", t, i>>
  <2>1. ASSUME NEW t PROVE p \in {"noted"} \X {t} \X noted(t)
                              <=> \E i \in noted(t) : p = <<"noted", t, i>>
    OBVIOUS
  <2>2. p \in allNoted <=> \E t \in Threads : p \in {"noted"} \X {t} \X noted(t)
    OBVIOUS
  <2> QED
    BY <2>1, <2>2, Zenon
<1> HIDE DEF allCalled, allOwed, allNoted
<1>7. p \in Places(c, n) <=> p \in allCalled \/ p \in allOwed \/ p \in allNoted
  BY <1>1
<1>8. p \in Places(c, n) <=>
         \/ \E i \in called : p = <<"called", i>>
         \/ \E t \in Threads : \E i \in owed(t) : p = <<"owed", t, i>>
         \/ \E t \in Threads : \E i \in noted(t) : p = <<"noted", t, i>>
  BY <1>4, <1>5, <1>6, <1>7, Zenon
<1> QED
  BY <1>2, <1>3, <1>8

LEMMA PlacesAreCounted == PlacesAreKept => NotificationsConserved
<1> SUFFICES ASSUME PlacesAreKept, NEW c \in Callbacks, NEW n \in 1..revision
             PROVE  Cardinality(Places(c, n)) = IF Subscribed(c) /\ n > since[c] THEN 1 ELSE 0
  BY DEF NotificationsConserved
<1>1. CASE Subscribed(c) /\ n > since[c]
  <2>1. \E p : Places(c, n) = {p}
    <3>1. ASSUME NEW i, Calls(delivered[c], n) = {i}, Unnoted(notes, n),
                 \A t \in Threads : Owed(pending[t], c, n) = {}
          PROVE  Places(c, n) = {<<"called", i>>}
      <4>1. \A p : p \in Places(c, n) <=> p = <<"called", i>>
        BY <3>1, PlacesInParts DEF Unnoted
      <4> QED
        BY <4>1, Zenon
    <3>2. ASSUME Calls(delivered[c], n) = {}, Unnoted(notes, n),
                 NEW t \in Threads, NEW i, Owed(pending[t], c, n) = {i},
                 \A u \in Threads : u # t => Owed(pending[u], c, n) = {}
          PROVE  Places(c, n) = {<<"owed", t, i>>}
      <4>1. \A p : p \in Places(c, n) <=> p = <<"owed", t, i>>
        BY <3>2, PlacesInParts DEF Unnoted
      <4> QED
        BY <4>1, Zenon
    <3>3. ASSUME Unheard(delivered[c], pending, c, n),
                 NEW t \in Threads, NEW i, Noted(notes[t], n) = {i},
                 \A u \in Threads : u # t => Noted(notes[u], n) = {}
          PROVE  Places(c, n) = {<<"noted", t, i>>}
      <4>1. \A p : p \in Places(c, n) <=> p = <<"noted", t, i>>
        BY <1>1, <3>3, PlacesInParts DEF Unheard
      <4> QED
        BY <4>1, Zenon
    <3>4. AtOnePlace(delivered[c], pending, notes, c, n)
      BY <1>1 DEF PlacesAreKept
    <3> QED
      BY <3>1, <3>2, <3>3, <3>4, Zenon DEF AtOnePlace, CalledOnce, OwedOnce, NotedOnce
  <2>2. PICK p : Places(c, n) = {p}
    BY <2>1
  <2>3. Cardinality({p}) = 1
    BY FS_Singleton
  <2> QED
    BY <1>1, <2>2, <2>3
<1>2. CASE ~ (Subscribed(c) /\ n > since[c])
  <2>1. Unheard(delivered[c], pending, c, n) /\ (~ Subscribed(c) \/ Unnoted(notes, n))
    BY <1>2 DEF PlacesAreKept
  <2>2. Places(c, n) = {}
    BY <2>1, PlacesInParts, Zenon DEF Unheard, Unnoted
  <2> QED
    BY <1>2, <2>2, FS_EmptySet
<1> QED
  BY <1>1, <1>2

\* A change on its way was recorded, and its slot is at that version or later.
LEMMA RecordedIsSeen ==
    ASSUME TypeOK, VersionsAreLogged, OnTheWay
    PROVE  CallbackSeesItsWrite
<1> SUFFICES ASSUME NEW t \in Threads, NEW i \in DOMAIN pending[t],
                    pending[t][i].change.slot \in Slots
             PROVE  VersionOf(cells[pending[t][i].change.slot]) >= pending[t][i].change.version
  BY DEF CallbackSeesItsWrite
<1> DEFINE change == pending[t][i].change
           n == change.cursor
<1>1. n \in DOMAIN log /\ change.slot = log[n].slot /\ change.version = log[n].version
  BY DEF OnTheWay, RecordedIn
<1> HIDE DEF n, change
<1>2. cells[log[n].slot] # Absent /\ log[n].version <= cells[log[n].slot].version
  BY <1>1 DEF VersionsAreLogged, change
<1>3. log[n].version \in Int /\ cells[log[n].slot].version \in Int
  BY <1>1, <1>2, Numbers DEF change
<1> QED
  BY <1>1, <1>2, <1>3 DEF VersionOf, change

(***************************************************************************)
(* What a step does to the notifications                                   *)
(***************************************************************************)
Quiet == UNCHANGED <<log, revision, notes, pending, subscribers, since, delivered>>

Records(t, change) ==
    /\ lock = t
    /\ change = [cursor |-> revision + 1, slot |-> change.slot, version |-> change.version]
    /\ revision' = revision + 1
    /\ \E e : log' = Append(log, e) /\ e.slot = change.slot /\ e.version = change.version
    /\ notes' = [notes EXCEPT ![t] = Append(@, change)]
    /\ UNCHANGED <<pending, subscribers, since, delivered>>

LEMMA NotifySteps ==
    ASSUME TypeOK, [Next]_vars
    PROVE  \/ Quiet
           \/ \E t \in Threads, change \in Change : Records(t, change)
           \/ \E t \in Threads : Commit(t) \/ Deliver(t)
           \/ \E c \in Callbacks : Subscribe(c)
<1>1. ASSUME NEW t \in Threads, NEW slot \in AnySlot, NEW version \in Int, NEW idem, NEW expected,
             RecordChange(t, slot, version, idem, expected), lock = t,
             UNCHANGED <<pending, subscribers, since, delivered>>
      PROVE  \E change \in Change : Records(t, change)
  <2> DEFINE change == [cursor |-> revision + 1, slot |-> slot, version |-> version]
             e == [slot |-> slot, version |-> version, idem |-> idem, expected |-> expected]
  <2>1. change \in Change /\ change.slot = slot /\ change.version = version
    BY DEF Change, AnySlot, TypeOK, StoreTypes
  <2>2. e.slot = slot /\ e.version = version /\ log' = Append(log, e)
    BY <1>1 DEF RecordChange
  <2>3. revision' = revision + 1 /\ notes' = [notes EXCEPT ![t] = Append(@, change)]
    BY <1>1 DEF RecordChange
  <2> HIDE DEF e
  <2> QED
    BY <1>1, <2>1, <2>2, <2>3 DEF Records
<1>2. ASSUME NEW t \in Threads, WriteCell(t) PROVE \E change \in Change : Records(t, change)
  <2> DEFINE u == Head(queue[t])
  <2>1. u \in CellWrites /\ u.slot \in Slots
    BY <1>2, ItemKinds, WellPlacedInSlots
       DEF WriteCell, Accepts, Applying, TypeOK, ThreadTypes
  <2>2. NextVersion(u, cells[u.slot]) \in Int /\ u.slot \in AnySlot
    BY <2>1, WrittenIsCell DEF TypeOK, StoreTypes, AnySlot
  <2>3. /\ RecordChange(t, u.slot, NextVersion(u, cells[u.slot]), u.idem, u.expected)
        /\ lock = t /\ UNCHANGED <<pending, subscribers, since, delivered>>
    BY <1>2 DEF WriteCell, Applying, Applied, watchers, TypeOK, LockDiscipline
  <2> HIDE DEF u
  <2> QED
    BY <1>1, <2>2, <2>3
<1>3. ASSUME NEW t \in Threads, UpsertEntity(t) \/ PublishEvent(t)
      PROVE  Quiet \/ \E change \in Change : Records(t, change)
  <2> DEFINE e == Head(queue[t])
  <2>1. lock = t /\ UNCHANGED <<pending, subscribers, since, delivered>>
    BY <1>3 DEF UpsertEntity, PublishEvent, Applying, Applied, watchers, TypeOK, LockDiscipline
  <2>2. CASE UNCHANGED <<stored, notes>>
    BY <2>1, <2>2 DEF stored, Quiet
  <2>3. CASE RecordChange(t, e.slot, 1, NoKey, Unset)
    <3>1. e \in Items
      BY <1>3 DEF UpsertEntity, PublishEvent, Applying, TypeOK, ThreadTypes
    <3>2. e.slot \in AnySlot /\ 1 \in Int
      BY <1>3, <3>1, ItemKinds DEF UpsertEntity, PublishEvent, EntityWrites, EventWrites, AnySlot
    <3> HIDE DEF e
    <3> QED
      BY <1>1, <2>1, <2>3, <3>2
  <2> QED
    BY <1>3, <2>2, <2>3 DEF UpsertEntity, PublishEvent
<1>4. ASSUME NEW t \in Threads,
             RefuseCell(t) \/ (\E batch \in Batches : Call(t, batch))
                \/ (\E r \in Requests : SnapshotCall(t, r)) \/ SnapshotTake(t)
      PROVE  Quiet
  BY <1>4 DEF RefuseCell, Applied, Call, SnapshotCall, SnapshotTake, stored, watchers, Quiet
<1>5. ASSUME \/ \E m \in Samples : PublishMetric(m)
             \/ \E b \in Beats : Heartbeat(b)
             \/ \E d \in Descriptors : RegisterComponent(d)
             \/ Tick \/ UNCHANGED vars
      PROVE  Quiet
  BY <1>5 DEF PublishMetric, Heartbeat, RegisterComponent, Tick, vars, lockVars, stored, watchers, Quiet
<1> QED
  BY <1>2, <1>3, <1>4, <1>5 DEF Next, WriteStep

(***************************************************************************)
(* Steps that leave the notifications alone                                *)
(***************************************************************************)
LEMMA QuietKeeps ==
    ASSUME NotifyInv, Quiet
    PROVE  NotifyInv'
BY DEF Quiet, NotifyInv, OnTheWay, SubscribersAreApart, PlacesAreKept, Subscribed

(***************************************************************************)
(* Recording a change                                                      *)
(***************************************************************************)

\* A recorded change stays one.
LEMMA RecordedStays ==
    ASSUME TypeOK, NEW e, log' = Append(log, e), NEW change, RecordedIn(log, change)
    PROVE  RecordedIn(log', change)
BY AppendedLog DEF RecordedIn

LEMMA NotedAppend ==
    ASSUME TypeOK, NEW t \in Threads, NEW change \in Change,
           notes'[t] = Append(notes[t], change), NEW n
    PROVE  /\ n # change.cursor => Noted(notes'[t], n) = Noted(notes[t], n)
           /\ n = change.cursor /\ Noted(notes[t], n) = {} =>
                 Noted(notes'[t], n) = {Len(notes[t]) + 1}
<1> DEFINE s == notes[t]
           r == notes'[t]
<1>s. s \in Seq(Change) /\ r = Append(s, change)
  BY DEF TypeOK, ThreadTypes
<1> HIDE DEF s, r
<1>0. /\ Len(s) \in Nat /\ DOMAIN s = 1..Len(s) /\ DOMAIN r = 1..(Len(s) + 1)
      /\ Len(s) + 1 \notin DOMAIN s /\ r[Len(s) + 1] = change
      /\ \A i : i \in DOMAIN r <=> i \in DOMAIN s \/ i = Len(s) + 1
      /\ \A i \in DOMAIN s : r[i] = s[i]
  BY <1>s
<1>1. \A i : i \in Noted(r, n) <=> (i \in Noted(s, n) \/ (i = Len(s) + 1 /\ change.cursor = n))
  BY <1>0, Zenon DEF Noted
<1> QED
  BY <1>1, Zenon DEF s, r

LEMMA CallsAppend ==
    ASSUME TypeOK, NEW c \in Callbacks, NEW m \in Nat,
           delivered'[c] = Append(delivered[c], m), NEW n
    PROVE  /\ n # m => Calls(delivered'[c], n) = Calls(delivered[c], n)
           /\ n = m /\ Calls(delivered[c], n) = {} =>
                 Calls(delivered'[c], n) = {Len(delivered[c]) + 1}
<1> DEFINE s == delivered[c]
           r == delivered'[c]
<1>s. s \in Seq(Nat) /\ r = Append(s, m)
  BY DEF TypeOK, StoreTypes
<1> HIDE DEF s, r
<1>0. /\ Len(s) \in Nat /\ DOMAIN s = 1..Len(s) /\ DOMAIN r = 1..(Len(s) + 1)
      /\ Len(s) + 1 \notin DOMAIN s /\ r[Len(s) + 1] = m
      /\ \A i : i \in DOMAIN r <=> i \in DOMAIN s \/ i = Len(s) + 1
      /\ \A i \in DOMAIN s : r[i] = s[i]
  BY <1>s
<1>1. \A i : i \in Calls(r, n) <=> (i \in Calls(s, n) \/ (i = Len(s) + 1 /\ m = n))
  BY <1>0, Zenon DEF Calls
<1> QED
  BY <1>1, Zenon DEF s, r

LEMMA RecordKeeps ==
    ASSUME TypeOK, FeedIsRecentLog, NotifyInv, NEW t \in Threads, NEW change \in Change,
           Records(t, change)
    PROVE  NotifyInv'
<1> DEFINE next == revision + 1
<1>1. PICK e : log' = Append(log, e) /\ e.slot = change.slot /\ e.version = change.version
  BY DEF Records
<1>2. revision \in Nat /\ revision = Len(log) /\ revision' = next /\ change.cursor = next
  BY DEF Records, FeedIsRecentLog, TypeOK, StoreTypes
<1>3. /\ DOMAIN log = 1..revision /\ next \notin DOMAIN log
      /\ DOMAIN log' = 1..next /\ log'[next] = e
  BY <1>1, <1>2, AppendedLog
<1>4. /\ notes[t] \in Seq(Change) /\ notes'[t] = Append(notes[t], change)
      /\ \A u \in Threads : u # t => notes'[u] = notes[u] /\ notes[u] = <<>>
  BY DEF Records, TypeOK, ThreadTypes, LockDiscipline
<1>5. UNCHANGED <<pending, subscribers, since, delivered>>
  BY DEF Records
<1>6. OnTheWay'
  <2>1. RecordedIn(log', change)
    BY <1>1, <1>2, <1>3 DEF RecordedIn
  <2>2. ASSUME NEW u \in Threads, NEW i \in DOMAIN notes'[u]
        PROVE  RecordedIn(log', notes'[u][i])
    <3>1. CASE u = t
      <4>1. notes'[u][i] = change \/ (i \in DOMAIN notes[t] /\ notes'[u][i] = notes[t][i])
        BY <1>4, <2>2, <3>1
      <4> QED
        BY <1>1, <2>1, <4>1, RecordedStays DEF NotifyInv, OnTheWay
    <3>2. CASE u # t
      BY <1>1, <1>4, <2>2, <3>2, RecordedStays DEF NotifyInv, OnTheWay
    <3> QED
      BY <3>1, <3>2
  <2>3. \A u \in Threads : \A i \in DOMAIN pending'[u] : RecordedIn(log', pending'[u][i].change)
    BY <1>1, <1>5, RecordedStays DEF NotifyInv, OnTheWay
  <2>4. \A c \in Callbacks : \A i \in DOMAIN delivered'[c] : delivered'[c][i] \in DOMAIN log'
    BY <1>2, <1>3, <1>5 DEF NotifyInv, OnTheWay
  <2> QED
    BY <2>2, <2>3, <2>4 DEF OnTheWay
<1>7. SubscribersAreApart'
  BY <1>2, <1>5 DEF NotifyInv, SubscribersAreApart, TypeOK, StoreTypes
<1>8. \A c \in Callbacks : Subscribed(c)' = Subscribed(c) /\ since'[c] <= revision
  BY <1>5 DEF Subscribed, NotifyInv, SubscribersAreApart
<1>9. ASSUME NEW n, n # next, NEW u \in Threads PROVE Noted(notes'[u], n) = Noted(notes[u], n)
  <2>1. CASE u = t
    <3>1. n # change.cursor
      BY <1>2, <1>9
    <3> QED
      BY <1>4, <2>1, <3>1, NotedAppend, Zenon
  <2>2. CASE u # t
    BY <1>4, <2>2, Zenon
  <2> QED
    BY <2>1, <2>2
<1>10. /\ Noted(notes'[t], next) = {Len(notes[t]) + 1}
       /\ \A u \in Threads : u # t => Noted(notes'[u], next) = {}
  <2>1. \A i \in DOMAIN notes[t] : notes[t][i].cursor \in DOMAIN log
    BY DEF NotifyInv, OnTheWay, RecordedIn
  <2>2. Noted(notes[t], next) = {}
    BY <1>3, <2>1 DEF Noted
  <2>3. Noted(notes'[t], next) = {Len(notes[t]) + 1}
    BY <1>2, <1>4, <2>2, NotedAppend, Zenon
  <2>4. \A u \in Threads : u # t => Noted(notes'[u], next) = {}
    BY <1>4 DEF Noted
  <2> QED
    BY <2>3, <2>4
<1>11. ASSUME NEW c \in Callbacks PROVE Unheard(delivered'[c], pending', c, next)
  <2>1. \A i \in DOMAIN delivered[c] : delivered[c][i] # next
    BY <1>3 DEF NotifyInv, OnTheWay
  <2>2. \A u \in Threads : \A i \in DOMAIN pending[u] : pending[u][i].change.cursor # next
    BY <1>3 DEF NotifyInv, OnTheWay, RecordedIn
  <2> QED
    BY <1>5, <2>1, <2>2 DEF Unheard, Calls, Owed
<1>12. ASSUME NEW c \in Callbacks, NEW n \in 1..next
       PROVE  IF ~ Subscribed(c)' THEN Unheard(delivered'[c], pending', c, n)
              ELSE IF n > since'[c] THEN AtOnePlace(delivered'[c], pending', notes', c, n)
              ELSE Unheard(delivered'[c], pending', c, n) /\ Unnoted(notes', n)
  <2>1. CASE n = next
    <3>1. since'[c] < n
      BY <1>2, <1>5, <1>8, <2>1 DEF TypeOK, StoreTypes
    <3>2. NotedOnce(delivered'[c], pending', notes', c, n)
      BY <1>10, <1>11, <2>1 DEF NotedOnce
    <3> QED
      BY <1>2, <1>5, <1>11, <2>1, <3>1, <3>2 DEF AtOnePlace, TypeOK, StoreTypes
  <2>2. CASE n # next
    <3>1. n \in 1..revision
      BY <1>2, <2>2
    <3>2. \A u \in Threads : Noted(notes'[u], n) = Noted(notes[u], n)
      BY <1>9, <2>2
    <3>3. /\ Unnoted(notes', n) <=> Unnoted(notes, n)
          /\ AtOnePlace(delivered[c], pending, notes', c, n)
                <=> AtOnePlace(delivered[c], pending, notes, c, n)
      BY <3>2, Zenon DEF Unnoted, AtOnePlace, CalledOnce, OwedOnce, NotedOnce
    <3> QED
      BY <1>5, <1>8, <3>1, <3>3 DEF NotifyInv, PlacesAreKept
  <2> QED
    BY <2>1, <2>2
<1>13. PlacesAreKept'
  BY <1>2, <1>12 DEF PlacesAreKept
<1> QED
  BY <1>6, <1>7, <1>13 DEF NotifyInv

(***************************************************************************)
(* Subscribing                                                             *)
(***************************************************************************)
LEMMA SubscribeKeeps ==
    ASSUME TypeOK, NotifyInv, NEW c \in Callbacks, Subscribe(c)
    PROVE  NotifyInv'
<1>1. /\ UNCHANGED <<log, revision, notes, pending, delivered>>
      /\ since' = [since EXCEPT ![c] = revision] /\ since \in [Callbacks -> Nat]
      /\ revision \in Nat /\ ~ Subscribed(c)
  BY DEF Subscribe, lockVars, stored, Subscribed, TypeOK, StoreTypes
<1>2. /\ subscribers \in Seq(Callbacks) /\ subscribers' = Append(subscribers, c)
      /\ DOMAIN subscribers = 1..Len(subscribers) /\ Len(subscribers) \in Nat
      /\ DOMAIN subscribers' = 1..(Len(subscribers) + 1)
      /\ subscribers'[Len(subscribers) + 1] = c
      /\ \A i \in DOMAIN subscribers : subscribers'[i] = subscribers[i]
  <2>1. subscribers \in Seq(Callbacks) /\ subscribers' = Append(subscribers, c)
    BY DEF Subscribe, TypeOK, StoreTypes
  <2> DEFINE n == Len(subscribers)
  <2>2. n \in Nat /\ DOMAIN subscribers = 1..n
    BY <2>1
  <2>3. DOMAIN Append(subscribers, c) = 1..(n + 1) /\ Append(subscribers, c)[n + 1] = c
        /\ \A i \in 1..n : Append(subscribers, c)[i] = subscribers[i]
    BY <2>1, <2>2
  <2> QED
    BY <2>1, <2>2, <2>3, Zenon
<1>3. Subscribed(c)' /\ \A d \in Callbacks : d # c => Subscribed(d)' = Subscribed(d)
  BY <1>2 DEF Subscribed
<1>4. \A n : Unnoted(notes, n)
  <2>1. \A t \in Threads : notes[t] = <<>>
    BY NamesAreApart DEF Subscribe, TypeOK, LockDiscipline
  <2> QED
    BY <2>1 DEF Unnoted, Noted
<1>5. OnTheWay'
  BY <1>1 DEF NotifyInv, OnTheWay
<1>6. SubscribersAreApart'
  <2>1. ASSUME NEW i \in DOMAIN subscribers', NEW j \in DOMAIN subscribers',
               subscribers'[i] = subscribers'[j]
        PROVE  i = j
    <3>1. i \in DOMAIN subscribers \/ i = Len(subscribers) + 1
      BY <1>2
    <3>2. j \in DOMAIN subscribers \/ j = Len(subscribers) + 1
      BY <1>2
    <3> QED
      BY <1>1, <1>2, <2>1, <3>1, <3>2 DEF NotifyInv, SubscribersAreApart, Subscribed
  <2>2. \A d \in Callbacks : since'[d] <= revision'
    BY <1>1 DEF NotifyInv, SubscribersAreApart
  <2> QED
    BY <2>1, <2>2 DEF SubscribersAreApart
<1>7. ASSUME NEW d \in Callbacks, NEW n \in 1..revision
      PROVE  IF ~ Subscribed(d)' THEN Unheard(delivered[d], pending, d, n)
             ELSE IF n > since'[d] THEN AtOnePlace(delivered[d], pending, notes, d, n)
             ELSE Unheard(delivered[d], pending, d, n) /\ Unnoted(notes, n)
  <2>1. CASE d = c
    <3>1. since'[d] = revision /\ ~ (n > revision)
      BY <1>1, <2>1
    <3> QED
      BY <1>1, <1>3, <1>4, <2>1, <3>1 DEF NotifyInv, PlacesAreKept
  <2>2. CASE d # c
    BY <1>1, <1>3, <2>2 DEF NotifyInv, PlacesAreKept
  <2> QED
    BY <2>1, <2>2
<1>8. PlacesAreKept'
  BY <1>1, <1>7 DEF PlacesAreKept
<1> QED
  BY <1>5, <1>6, <1>8 DEF NotifyInv

(***************************************************************************)
(* Releasing the lock                                                      *)
(***************************************************************************)

\* The calls are laid out change by change, n callbacks to a change.
LEMMA CallPlaces ==
    ASSUME NEW m \in Nat, NEW n \in Nat, NEW i \in 1..(m * n)
    PROVE  /\ ((i - 1) \div n) + 1 \in 1..m /\ ((i - 1) % n) + 1 \in 1..n
           /\ i = n * ((i - 1) \div n) + ((i - 1) % n) + 1
<1>1. n > 0 /\ m * n \in Nat
  OBVIOUS
<1> DEFINE q == (i - 1) \div n
           r == (i - 1) % n
<1>2. q \in Int /\ i - 1 = n * q + r /\ r \in 0..(n - 1)
  BY <1>1
<1> HIDE DEF q, r
<1>3. q >= 0
  <2>1. SUFFICES ASSUME q <= -1 PROVE FALSE
    BY <1>2
  <2>2. n * q <= -n
    BY <1>1, <1>2, <2>1, SMT
  <2> QED
    BY <1>1, <1>2, <2>2
<1>4. q < m
  <2>1. SUFFICES ASSUME q >= m PROVE FALSE
    BY <1>2
  <2>2. n * q = n * m + n * (q - m) /\ n * (q - m) >= 0
    BY <1>1, <1>2, <2>1, SMT
  <2>3. n * m = m * n
    OBVIOUS
  <2> QED
    BY <1>1, <1>2, <2>2, <2>3
<1> QED
  BY <1>2, <1>3, <1>4 DEF q, r

LEMMA PlaceOfCall ==
    ASSUME NEW m \in Nat, NEW n \in Nat, NEW j \in 1..m, NEW k \in 1..n,
           NEW i, i = n * (j - 1) + k
    PROVE  i \in 1..(m * n) /\ ((i - 1) \div n) + 1 = j /\ ((i - 1) % n) + 1 = k
<1> DEFINE q == (i - 1) \div n
           r == (i - 1) % n
<1>1. n > 0 /\ i \in Int
  OBVIOUS
<1>2. n * (j - 1) >= 0
  BY <1>1, SMT
<1>3. n * (j - 1) + n <= m * n
  <2>1. m * n = n * (j - 1) + n + n * (m - j) /\ n * (m - j) >= 0
    BY <1>1, SMT
  <2> QED
    BY <2>1
<1>4. i \in 1..(m * n)
  BY <1>1, <1>2, <1>3
<1>5. q \in Int /\ i - 1 = n * q + r /\ r \in 0..(n - 1)
  BY <1>1
<1>6. i - 1 = n * (j - 1) + (k - 1)
  OBVIOUS
<1> HIDE DEF q, r
<1>7. n * (j - 1 - q) = r - (k - 1)
  <2>1. n * (j - 1 - q) = n * (j - 1) - n * q
    BY <1>5, SMT
  <2> QED
    BY <1>1, <1>5, <1>6, <2>1
<1>8. ~ (j - 1 - q >= 1)
  <2>1. SUFFICES ASSUME j - 1 - q >= 1 PROVE FALSE
    OBVIOUS
  <2>2. n * (j - 1 - q) >= n
    BY <1>1, <1>5, <2>1, SMT
  <2> QED
    BY <1>5, <1>7, <2>2
<1>9. ~ (j - 1 - q <= -1)
  <2>1. SUFFICES ASSUME j - 1 - q <= -1 PROVE FALSE
    OBVIOUS
  <2>2. n * (j - 1 - q) <= -n
    BY <1>1, <1>5, <2>1, SMT
  <2> QED
    BY <1>5, <1>7, <2>2
<1>10. q = j - 1
  BY <1>5, <1>8, <1>9
<1>11. r = k - 1
  BY <1>5, <1>6, <1>10
<1> QED
  BY <1>4, <1>10, <1>11 DEF q, r

\* The call at each place: whose it is and which change it names.
LEMMA CallsAt ==
    ASSUME TypeOK, NEW t \in Threads
    PROVE  LET m == Len(notes[t])
               n == Len(subscribers)
               calls == Notifications(t)
           IN  /\ m \in Nat /\ n \in Nat
               /\ DOMAIN notes[t] = 1..m /\ DOMAIN subscribers = 1..n
               /\ DOMAIN calls = 1..(m * n)
               /\ \A i \in 1..(m * n) :
                     /\ calls[i].change = notes[t][((i - 1) \div n) + 1]
                     /\ calls[i].callback = subscribers[((i - 1) % n) + 1]
<1>1. subscribers \in Seq(Callbacks) /\ notes[t] \in Seq(Change)
  BY DEF TypeOK, StoreTypes, ThreadTypes
<1>2. Len(subscribers) \in Nat /\ Len(notes[t]) \in Nat
  BY <1>1
<1> QED
  BY <1>1, <1>2 DEF Notifications

\* A change noted once is owed once to each subscriber, and nothing else is owed.
LEMMA OwedOnCommit ==
    ASSUME TypeOK, SubscribersAreApart, NEW t \in Threads, NEW c, NEW x
    PROVE  LET owed == Owed(Notifications(t), c, x)
           IN  /\ ~ Subscribed(c) \/ Noted(notes[t], x) = {} => owed = {}
               /\ Subscribed(c) => \A j : Noted(notes[t], x) = {j} => \E i : owed = {i}
<1> DEFINE m == Len(notes[t])
           n == Len(subscribers)
           calls == Notifications(t)
           at(i) == ((i - 1) \div n) + 1
           of(i) == ((i - 1) % n) + 1
<1>1. /\ m \in Nat /\ n \in Nat
      /\ DOMAIN notes[t] = 1..m /\ DOMAIN subscribers = 1..n
      /\ DOMAIN calls = 1..(m * n)
      /\ \A i \in 1..(m * n) :
            calls[i].change = notes[t][at(i)] /\ calls[i].callback = subscribers[of(i)]
  BY CallsAt
<1> HIDE DEF m, n, calls
<1>2. ASSUME NEW i \in 1..(m * n)
      PROVE  at(i) \in 1..m /\ of(i) \in 1..n /\ i = n * (at(i) - 1) + of(i)
  <2>1. /\ at(i) \in 1..m /\ of(i) \in 1..n
        /\ i = n * ((i - 1) \div n) + ((i - 1) % n) + 1
    BY <1>1, CallPlaces
  <2> DEFINE q == (i - 1) \div n
             r == (i - 1) % n
  <2>2. q \in Int /\ r \in Int /\ i = n * q + r + 1
    BY <1>1, <2>1
  <2>3. at(i) = q + 1 /\ of(i) = r + 1
    OBVIOUS
  <2> HIDE DEF q, r
  <2>4. q = (q + 1) - 1 /\ n * q \in Int
    BY <1>1, <2>2
  <2>5. i = n * ((q + 1) - 1) + (r + 1)
    BY <2>2, <2>4
  <2> QED
    BY <2>1, <2>3, <2>5, Zenon
<1>3. ASSUME NEW j \in 1..m, NEW k \in 1..n, NEW i, i = n * (j - 1) + k
      PROVE  i \in 1..(m * n) /\ at(i) = j /\ of(i) = k
  <2>1. m \in Nat /\ n \in Nat
    BY <1>1
  <2>2. i \in 1..(m * n) /\ ((i - 1) \div n) + 1 = j /\ ((i - 1) % n) + 1 = k
    BY <1>3, <2>1, PlaceOfCall
  <2> QED
    BY <2>2
<1> HIDE DEF at, of
<1>4. \A i : i \in Owed(calls, c, x)
                <=> i \in 1..(m * n) /\ subscribers[of(i)] = c /\ notes[t][at(i)].cursor = x
  BY <1>1, Zenon DEF Owed
<1>5. ASSUME ~ Subscribed(c) \/ Noted(notes[t], x) = {} PROVE Owed(calls, c, x) = {}
  BY <1>1, <1>2, <1>4, <1>5, Zenon DEF Subscribed, Noted
<1>6. ASSUME Subscribed(c), NEW j, Noted(notes[t], x) = {j}
      PROVE  \E i : Owed(calls, c, x) = {i}
  <2>1. PICK k \in 1..n : subscribers[k] = c
    BY <1>1, <1>6 DEF Subscribed
  <2>2. j \in 1..m /\ notes[t][j].cursor = x
        /\ \A l \in 1..m : notes[t][l].cursor = x => l = j
    BY <1>1, <1>6, Zenon DEF Noted
  <2>3. \A l \in 1..n : subscribers[l] = c => l = k
    BY <1>1, <2>1, Zenon DEF SubscribersAreApart
  <2> DEFINE i == n * (j - 1) + k
  <2>4. i \in 1..(m * n) /\ at(i) = j /\ of(i) = k
    BY <1>3, <2>1, <2>2, Zenon
  <2>5. ASSUME NEW l \in Owed(calls, c, x) PROVE l = i
    <3>1. at(l) = j /\ of(l) = k /\ l = n * (at(l) - 1) + of(l)
      BY <1>2, <1>4, <2>2, <2>3, <2>5, Zenon
    <3> QED
      BY <3>1, Zenon
  <2>6. i \in Owed(calls, c, x)
    BY <1>4, <2>1, <2>2, <2>4, Zenon
  <2> HIDE DEF i
  <2>7. Owed(calls, c, x) = {i}
    BY <2>5, <2>6, Zenon
  <2> QED
    BY <2>7
<1> QED
  BY <1>5, <1>6, Zenon DEF calls

LEMMA CommitKeeps ==
    ASSUME TypeOK, NotifyInv, NEW t \in Threads, Commit(t)
    PROVE  NotifyInv'
<1> DEFINE calls == Notifications(t)
<1>1. /\ UNCHANGED <<log, revision, subscribers, since, delivered>>
      /\ \A u \in Threads : notes'[u] = <<>>
      /\ \A u \in Threads : u # t => notes[u] = <<>>
  BY DEF Commit, stored, watchers, TypeOK, ThreadTypes, LockDiscipline
<1>2. /\ pending'[t] = calls /\ pending[t] = <<>>
      /\ \A u \in Threads : u # t => pending'[u] = pending[u]
  BY DEF Commit, TypeOK, ThreadTypes, LockDiscipline
<1>3. OnTheWay'
  <2>1. \A i \in DOMAIN calls : \E j \in DOMAIN notes[t] : calls[i].change = notes[t][j]
    <3> DEFINE m == Len(notes[t])
               n == Len(subscribers)
    <3>1. /\ m \in Nat /\ n \in Nat /\ DOMAIN notes[t] = 1..m /\ DOMAIN calls = 1..(m * n)
          /\ \A i \in 1..(m * n) : calls[i].change = notes[t][((i - 1) \div n) + 1]
      BY CallsAt
    <3> HIDE DEF m, n, calls
    <3>2. ASSUME NEW i \in 1..(m * n) PROVE ((i - 1) \div n) + 1 \in 1..m
      BY <3>1, CallPlaces
    <3> QED
      BY <3>1, <3>2, Zenon
  <2> HIDE DEF calls
  <2>2. \A i \in DOMAIN calls : RecordedIn(log, calls[i].change)
    BY <2>1, Zenon DEF NotifyInv, OnTheWay
  <2>3. \A u \in Threads : \A i \in DOMAIN pending'[u] : RecordedIn(log', pending'[u][i].change)
    <3> SUFFICES ASSUME NEW u \in Threads, NEW i \in DOMAIN pending'[u]
                 PROVE  RecordedIn(log, pending'[u][i].change)
      BY <1>1, Zenon
    <3>1. CASE u = t
      BY <1>2, <2>2, <3>1, Zenon
    <3>2. CASE u # t
      BY <1>2, <3>2, Zenon DEF NotifyInv, OnTheWay
    <3> QED
      BY <3>1, <3>2
  <2>4. \A u \in Threads : \A i \in DOMAIN notes'[u] : RecordedIn(log', notes'[u][i])
    BY <1>1
  <2> QED
    BY <1>1, <2>3, <2>4 DEF NotifyInv, OnTheWay
<1>4. SubscribersAreApart'
  BY <1>1 DEF NotifyInv, SubscribersAreApart
<1>5. \A n : Unnoted(notes', n) /\ \A u \in Threads : u # t => Noted(notes[u], n) = {}
  BY <1>1 DEF Unnoted, Noted
<1> HIDE DEF calls
<1>6. ASSUME NEW c \in Callbacks, NEW n \in 1..revision
      PROVE  IF ~ Subscribed(c) THEN Unheard(delivered[c], pending', c, n)
             ELSE IF n > since[c] THEN AtOnePlace(delivered[c], pending', notes', c, n)
             ELSE Unheard(delivered[c], pending', c, n) /\ Unnoted(notes', n)
  <2>1. /\ ~ Subscribed(c) \/ Noted(notes[t], n) = {} => Owed(calls, c, n) = {}
        /\ Subscribed(c) => \A j : Noted(notes[t], n) = {j} => \E i : Owed(calls, c, n) = {i}
    BY OwedOnCommit DEF NotifyInv, calls
  <2>2. /\ Owed(pending'[t], c, n) = Owed(calls, c, n) /\ Owed(pending[t], c, n) = {}
        /\ \A u \in Threads : u # t => Owed(pending'[u], c, n) = Owed(pending[u], c, n)
    <3>1. Owed(<<>>, c, n) = {}
      BY DEF Owed
    <3> QED
      BY <1>2, <3>1, Zenon
  <2>3. ASSUME Unheard(delivered[c], pending, c, n), ~ Subscribed(c) \/ Unnoted(notes, n)
        PROVE  Unheard(delivered[c], pending', c, n)
    BY <2>1, <2>2, <2>3, Zenon DEF Unheard, Unnoted
  <2>4. ASSUME CalledOnce(delivered[c], pending, notes, c, n)
        PROVE  CalledOnce(delivered[c], pending', notes', c, n)
    BY <1>5, <2>1, <2>2, <2>4, Zenon DEF CalledOnce, Unnoted
  <2>5. ASSUME OwedOnce(delivered[c], pending, notes, c, n)
        PROVE  OwedOnce(delivered[c], pending', notes', c, n)
    <3>1. Owed(calls, c, n) = {}
      BY <2>1, <2>5, Zenon DEF OwedOnce, Unnoted
    <3>2. PICK u \in Threads : /\ \E i : Owed(pending[u], c, n) = {i}
                               /\ \A v \in Threads : v # u => Owed(pending[v], c, n) = {}
      BY <2>5, Zenon DEF OwedOnce
    <3>3. u # t
      BY <2>2, <3>2
    <3>4. /\ \E i : Owed(pending'[u], c, n) = {i}
          /\ \A v \in Threads : v # u => Owed(pending'[v], c, n) = {}
      BY <2>2, <3>1, <3>2, <3>3, Zenon
    <3> QED
      BY <1>5, <2>5, <3>4, Zenon DEF OwedOnce
  <2>6. ASSUME NotedOnce(delivered[c], pending, notes, c, n), Subscribed(c)
        PROVE  OwedOnce(delivered[c], pending', notes', c, n)
    <3>1. PICK u \in Threads : \E j : Noted(notes[u], n) = {j}
      BY <2>6, Zenon DEF NotedOnce
    <3>2. u = t
      BY <1>5, <3>1
    <3>3. \E i : Owed(pending'[t], c, n) = {i}
      BY <2>1, <2>2, <2>6, <3>1, <3>2, Zenon
    <3>4. Calls(delivered[c], n) = {} /\ \A v \in Threads : v # t => Owed(pending'[v], c, n) = {}
      BY <2>2, <2>6, Zenon DEF NotedOnce, Unheard
    <3> QED
      BY <1>5, <3>3, <3>4, Zenon DEF OwedOnce
  <2> QED
    BY <1>5, <2>3, <2>4, <2>5, <2>6, Zenon DEF NotifyInv, PlacesAreKept, AtOnePlace
<1>7. PlacesAreKept'
  <2>1. \A c : Subscribed(c)' <=> Subscribed(c)
    BY <1>1 DEF Subscribed
  <2> QED
    BY <1>1, <1>6, <2>1 DEF PlacesAreKept
<1> QED
  BY <1>3, <1>4, <1>7 DEF NotifyInv

(***************************************************************************)
(* Calling a callback                                                      *)
(***************************************************************************)

\* Making the first call leaves the others owed.
LEMMA OwedTail ==
    ASSUME NEW S, NEW s \in Seq(S), s # <<>>, NEW c, NEW n
    PROVE  /\ Owed(s, c, n) = {} => Owed(Tail(s), c, n) = {}
           /\ \A i : Owed(s, c, n) = {i} =>
                IF Head(s).callback = c /\ Head(s).change.cursor = n
                THEN Owed(Tail(s), c, n) = {}
                ELSE \E j : Owed(Tail(s), c, n) = {j}
           /\ Head(s).callback = c /\ Head(s).change.cursor = n => 1 \in Owed(s, c, n)
<1> DEFINE r == Tail(s)
           m == Len(s)
<1>1. /\ m \in Nat /\ DOMAIN s = 1..m /\ 1 \in 1..m /\ Head(s) = s[1]
      /\ DOMAIN r = 1..(m - 1) /\ \A i \in 1..(m - 1) : r[i] = s[i + 1]
  BY EmptySeq
<1> HIDE DEF r, m
<1>2. \A i \in 1..(m - 1) : i + 1 \in 1..m /\ i + 1 # 1
  BY <1>1
<1>3. \A i \in 1..m : i # 1 => i - 1 \in 1..(m - 1) /\ (i - 1) + 1 = i
  BY <1>1
<1>4. \A i \in 1..(m - 1) : (i + 1) - 1 = i
  BY <1>1
<1>5. \A i : i \in Owed(s, c, n) <=> i \in 1..m /\ s[i].callback = c /\ s[i].change.cursor = n
  BY <1>1, Zenon DEF Owed
<1>6. \A i : i \in Owed(r, c, n)
                <=> i \in 1..(m - 1) /\ s[i + 1].callback = c /\ s[i + 1].change.cursor = n
  BY <1>1, Zenon DEF Owed
<1>7. \A i : i \in Owed(r, c, n) <=> i \in 1..(m - 1) /\ i + 1 \in Owed(s, c, n)
  BY <1>2, <1>5, <1>6, Zenon
<1>8. 1 \in Owed(s, c, n) <=> Head(s).callback = c /\ Head(s).change.cursor = n
  BY <1>1, <1>5, Zenon
<1>9. ASSUME Owed(s, c, n) = {} PROVE Owed(r, c, n) = {}
  BY <1>7, <1>9, Zenon
<1>10. ASSUME NEW k, Owed(s, c, n) = {k}
       PROVE  IF Head(s).callback = c /\ Head(s).change.cursor = n
              THEN Owed(r, c, n) = {} ELSE \E j : Owed(r, c, n) = {j}
  <2>1. k \in Owed(s, c, n) /\ \A i : i \in Owed(s, c, n) => i = k
    BY <1>10, Zenon
  <2>2. CASE Head(s).callback = c /\ Head(s).change.cursor = n
    <3>1. k = 1
      BY <1>8, <2>1, <2>2, Zenon
    <3> QED
      BY <1>2, <1>7, <2>1, <2>2, <3>1, Zenon
  <2>3. CASE ~ (Head(s).callback = c /\ Head(s).change.cursor = n)
    <3>1. k # 1 /\ k \in 1..m
      BY <1>5, <1>8, <2>1, <2>3, Zenon
    <3>2. k - 1 \in Owed(r, c, n)
      BY <1>3, <1>7, <2>1, <3>1, Zenon
    <3>3. ASSUME NEW i \in Owed(r, c, n) PROVE i = k - 1
      <4>1. i \in 1..(m - 1) /\ i + 1 = k
        BY <1>7, <2>1, <3>3, Zenon
      <4> QED
        BY <1>4, <4>1, Zenon
    <3>4. Owed(r, c, n) = {k - 1}
      BY <3>2, <3>3, Zenon
    <3> QED
      BY <2>3, <3>4, Zenon
  <2> QED
    BY <2>2, <2>3
<1> QED
  BY <1>8, <1>9, <1>10, Zenon DEF r

LEMMA DeliverKeeps ==
    ASSUME TypeOK, FeedIsRecentLog, NotifyInv, NEW t \in Threads, Deliver(t)
    PROVE  NotifyInv'
<1> DEFINE S == [change : Change, callback : Callbacks]
           call == Head(pending[t])
           d == call.callback
           m == call.change.cursor
<1>1. /\ pending[t] \in Seq(S) /\ pending[t] # <<>>
      /\ pending'[t] = Tail(pending[t])
      /\ \A u \in Threads : u # t => pending'[u] = pending[u]
  BY DEF Deliver, TypeOK, ThreadTypes, LockDiscipline
<1>2. call \in S /\ d \in Callbacks /\ m \in Nat
  <2>1. call \in S
    BY <1>1, OneLeft
  <2> QED
    BY <2>1 DEF Change
<1>3. /\ UNCHANGED <<log, revision, notes, subscribers, since>>
      /\ delivered'[d] = Append(delivered[d], m)
      /\ \A c \in Callbacks : c # d => delivered'[c] = delivered[c]
  BY <1>2 DEF Deliver, stored, TypeOK, StoreTypes
<1>4. RecordedIn(log, call.change) /\ \A i \in DOMAIN pending'[t] : RecordedIn(log, pending'[t][i].change)
  <2> DEFINE s == pending[t]
  <2>1. /\ 1 \in DOMAIN s /\ call = s[1]
        /\ \A i \in DOMAIN Tail(s) : i + 1 \in DOMAIN s /\ Tail(s)[i] = s[i + 1]
    <3>1. s \in Seq(S) /\ s # <<>>
      BY <1>1
    <3> HIDE DEF s, S
    <3>2. Len(s) \in Nat /\ Len(s) # 0
      BY <3>1, EmptySeq
    <3> QED
      BY <3>1, <3>2 DEF s
  <2>2. \A i \in DOMAIN s : RecordedIn(log, s[i].change)
    BY DEF NotifyInv, OnTheWay
  <2> HIDE DEF s, call
  <2> QED
    BY <1>1, <2>1, <2>2, Zenon DEF s
<1> HIDE DEF S, call, d, m
<1>5. m \in DOMAIN log
  BY <1>4 DEF RecordedIn, m
<1>6. OnTheWay'
  <2>1. \A u \in Threads : \A i \in DOMAIN pending'[u] : RecordedIn(log', pending'[u][i].change)
    <3> SUFFICES ASSUME NEW u \in Threads, NEW i \in DOMAIN pending'[u]
                 PROVE  RecordedIn(log, pending'[u][i].change)
      BY <1>3, Zenon
    <3> QED
      BY <1>1, <1>4, Zenon DEF NotifyInv, OnTheWay
  <2>2. ASSUME NEW c \in Callbacks, NEW i \in DOMAIN delivered'[c]
        PROVE  delivered'[c][i] \in DOMAIN log
    <3>1. CASE c = d
      <4>1. delivered[d] \in Seq(Nat)
        BY <1>2 DEF TypeOK, StoreTypes
      <4>2. \A k \in DOMAIN delivered[d] : delivered[d][k] \in DOMAIN log
        BY <1>2 DEF NotifyInv, OnTheWay
      <4>3. \/ i \in DOMAIN delivered[d] /\ delivered'[d][i] = delivered[d][i]
            \/ delivered'[d][i] = m
        BY <1>2, <1>3, <2>2, <3>1, <4>1
      <4> QED
        BY <1>5, <3>1, <4>2, <4>3
    <3>2. CASE c # d
      BY <1>3, <2>2, <3>2 DEF NotifyInv, OnTheWay
    <3> QED
      BY <3>1, <3>2
  <2> QED
    BY <1>3, <2>1, <2>2 DEF NotifyInv, OnTheWay
<1>7. SubscribersAreApart'
  BY <1>3 DEF NotifyInv, SubscribersAreApart
<1>8. ASSUME NEW c, NEW n
      PROVE  /\ Owed(pending[t], c, n) = {} => Owed(pending'[t], c, n) = {}
             /\ \A i : Owed(pending[t], c, n) = {i} =>
                  IF c = d /\ n = m THEN Owed(pending'[t], c, n) = {}
                  ELSE \E j : Owed(pending'[t], c, n) = {j}
             /\ c = d /\ n = m => Owed(pending[t], c, n) # {}
             /\ \A u \in Threads : u # t => Owed(pending'[u], c, n) = Owed(pending[u], c, n)
  <2>1. /\ Owed(pending[t], c, n) = {} => Owed(Tail(pending[t]), c, n) = {}
        /\ \A i : Owed(pending[t], c, n) = {i} =>
             IF call.callback = c /\ call.change.cursor = n
             THEN Owed(Tail(pending[t]), c, n) = {}
             ELSE \E j : Owed(Tail(pending[t]), c, n) = {j}
        /\ call.callback = c /\ call.change.cursor = n => 1 \in Owed(pending[t], c, n)
    BY <1>1, OwedTail, Zenon DEF call
  <2> QED
    BY <1>1, <2>1, Zenon DEF d, m
<1>9. ASSUME NEW c \in Callbacks, NEW n \in 1..revision
      PROVE  IF ~ Subscribed(c) THEN Unheard(delivered'[c], pending', c, n)
             ELSE IF n > since[c] THEN AtOnePlace(delivered'[c], pending', notes, c, n)
             ELSE Unheard(delivered'[c], pending', c, n) /\ Unnoted(notes, n)
  <2>1. CASE c = d /\ n = m
    <3>1. ~ Unheard(delivered[c], pending, c, n)
      BY <1>8, <2>1, Zenon DEF Unheard
    <3>2. Subscribed(c) /\ n > since[c] /\ AtOnePlace(delivered[c], pending, notes, c, n)
      BY <3>1, Zenon DEF NotifyInv, PlacesAreKept
    <3>3. OwedOnce(delivered[c], pending, notes, c, n)
      BY <1>8, <2>1, <3>1, <3>2, Zenon DEF AtOnePlace, NotedOnce, CalledOnce
    <3>4. /\ \E i : Owed(pending[t], c, n) = {i}
          /\ \A u \in Threads : u # t => Owed(pending[u], c, n) = {}
      BY <1>8, <2>1, <3>3, Zenon DEF OwedOnce
    <3>5. \A u \in Threads : Owed(pending'[u], c, n) = {}
      BY <1>8, <2>1, <3>4, Zenon
    <3>6. Calls(delivered'[c], n) = {Len(delivered[c]) + 1}
      BY <1>2, <1>3, <2>1, <3>3, CallsAppend, Zenon DEF OwedOnce
    <3>7. CalledOnce(delivered'[c], pending', notes, c, n)
      BY <3>3, <3>5, <3>6, Zenon DEF CalledOnce, OwedOnce
    <3> QED
      BY <3>2, <3>7, Zenon DEF AtOnePlace
  <2>2. CASE ~ (c = d /\ n = m)
    <3>1. Calls(delivered'[c], n) = Calls(delivered[c], n)
      BY <1>2, <1>3, <2>2, CallsAppend, Zenon
    <3>2. ASSUME NEW u \in Threads
          PROVE  /\ Owed(pending[u], c, n) = {} => Owed(pending'[u], c, n) = {}
                 /\ \A i : Owed(pending[u], c, n) = {i} => \E j : Owed(pending'[u], c, n) = {j}
      BY <1>8, <2>2, Zenon
    <3>3. Unheard(delivered[c], pending, c, n) => Unheard(delivered'[c], pending', c, n)
      BY <3>1, <3>2, Zenon DEF Unheard
    <3>4. AtOnePlace(delivered[c], pending, notes, c, n) =>
             AtOnePlace(delivered'[c], pending', notes, c, n)
      <4>1. CalledOnce(delivered[c], pending, notes, c, n) =>
               CalledOnce(delivered'[c], pending', notes, c, n)
        BY <3>1, <3>2, Zenon DEF CalledOnce
      <4>2. OwedOnce(delivered[c], pending, notes, c, n) =>
               OwedOnce(delivered'[c], pending', notes, c, n)
        BY <3>1, <3>2, Zenon DEF OwedOnce
      <4>3. NotedOnce(delivered[c], pending, notes, c, n) =>
               NotedOnce(delivered'[c], pending', notes, c, n)
        BY <3>3, Zenon DEF NotedOnce
      <4> QED
        BY <4>1, <4>2, <4>3, Zenon DEF AtOnePlace
    <3> QED
      BY <3>3, <3>4, Zenon DEF NotifyInv, PlacesAreKept
  <2> QED
    BY <2>1, <2>2
<1>10. PlacesAreKept'
  <2>1. \A c : Subscribed(c)' <=> Subscribed(c)
    BY <1>3 DEF Subscribed
  <2> QED
    BY <1>3, <1>9, <2>1 DEF PlacesAreKept
<1> QED
  BY <1>6, <1>7, <1>10 DEF NotifyInv

(***************************************************************************)
(* The theorem                                                             *)
(***************************************************************************)
LEMMA NotifyInit == Init => NotifyInv
<1> SUFFICES ASSUME Init PROVE NotifyInv
  OBVIOUS
<1>1. /\ \A t \in Threads : notes[t] = <<>> /\ pending[t] = <<>>
      /\ subscribers = <<>>
      /\ \A c \in Callbacks : delivered[c] = <<>> /\ since[c] = 0
      /\ revision \in Nat
  BY InputsAreTyped DEF Init
<1>2. OnTheWay
  BY <1>1 DEF OnTheWay
<1>3. SubscribersAreApart
  BY <1>1 DEF SubscribersAreApart
<1>4. PlacesAreKept
  BY <1>1 DEF PlacesAreKept, Subscribed, Unheard, Calls, Owed
<1> QED
  BY <1>2, <1>3, <1>4 DEF NotifyInv

LEMMA NotifyStep == TypeOK /\ FeedIsRecentLog /\ NotifyInv /\ [Next]_vars => NotifyInv'
BY NotifySteps, QuietKeeps, RecordKeeps, SubscribeKeeps, CommitKeeps, DeliverKeeps, Zenon

\* _publish, _notify and subscribe: for any number of threads, callbacks and
\* changes, a change made after a callback subscribed is at exactly one place on
\* its way to it (noted, owed or called), one made earlier is at none, and the
\* plane is never behind what a callback is about to be told.
THEOREM CallbackDelivery == Spec => []CallbacksAreServed
<1>1. TypeOK /\ VersionsAreLogged /\ NotifyInv => CallbacksAreServed
  BY PlacesAreCounted, RecordedIsSeen DEF CallbacksAreServed, NotifyInv
<1>2. TypeOK /\ VersionsAreLogged /\ [Next]_vars => VersionsAreLogged'
  BY LoggedStep
<1> QED
  BY <1>1, <1>2, LoggedInit, NotifyInit, NotifyStep, FeedFaithful, TypeCorrect, PTL DEF Spec

(***************************************************************************)
(* Watchers: the invariant                                                 *)
(***************************************************************************)

\* Change n is retained and wanted by w.
Offered(w, n) == \E i \in DOMAIN changes : changes[i].cursor = n /\ changes[i].slot \in Wanted[w]

OnWire(w, n) == \E j \in DOMAIN wire[w] : wire[w][j] = n

FeedTypes ==
    /\ open \in [Watchers -> BOOLEAN]
    /\ cursor \in [Watchers -> Nat]
    /\ outbox \in [Watchers -> SUBSET Change]
    /\ wire \in [Watchers -> Seq(Nat)]
    /\ received \in [Watchers -> Seq(Nat)]

\* What was received, what is in flight and what is still to be yielded follow
\* each other, and nothing is ahead of the plane.
InLine(w) ==
    /\ \A i, j \in DOMAIN received[w] : i < j => received[w][i] < received[w][j]
    /\ \A i, j \in DOMAIN wire[w] : i < j => wire[w][i] < wire[w][j]
    /\ \A i \in DOMAIN received[w] : received[w][i] \in 1..revision
    /\ \A i \in DOMAIN received[w], j \in DOMAIN wire[w] : received[w][i] < wire[w][j]
    /\ \A x, y \in outbox[w] : x.cursor = y.cursor => x = y
    /\ \A x \in outbox[w] : x.cursor <= revision

\* The stream of a watcher: its cursor lies between what was yielded and what
\* was not; without a stream nothing is under way.
StreamIsSound(w) ==
    IF open[w]
    THEN /\ cursor[w] <= revision
         /\ \A i \in DOMAIN received[w] : received[w][i] <= cursor[w]
         /\ \A j \in DOMAIN wire[w] : wire[w][j] \in 1..cursor[w]
         /\ \A x \in outbox[w] : cursor[w] < x.cursor
    ELSE outbox[w] = {} /\ wire[w] = <<>>

\* Nothing that is offered was left out before the cursor, or will be before the
\* end of the batch.
NothingLeftOut(w) ==
    /\ \A n \in Nat : Offered(w, n) /\ n < LastReceived(w) => Got(w, n)
    /\ open[w] => \A n \in Nat : Offered(w, n) =>
          /\ n <= cursor[w] => Got(w, n) \/ OnWire(w, n)
          /\ \A x \in outbox[w] : cursor[w] < n /\ n < x.cursor
                => \E y \in outbox[w] : y.cursor = n

FeedInv == FeedTypes /\ \A w \in Watchers : InLine(w) /\ StreamIsSound(w) /\ NothingLeftOut(w)

Sound(w) == InLine(w) /\ StreamIsSound(w) /\ NothingLeftOut(w)

(***************************************************************************)
(* Sequences of cursors                                                    *)
(***************************************************************************)
LEMMA AppendCursor ==
    ASSUME NEW s \in Seq(Nat), NEW n \in Nat
    PROVE  /\ Append(s, n) \in Seq(Nat)
           /\ DOMAIN s = 1..Len(s) /\ Len(s) \in Nat
           /\ DOMAIN Append(s, n) = 1..(Len(s) + 1)
           /\ \A i \in 1..Len(s) : Append(s, n)[i] = s[i]
           /\ Append(s, n)[Len(s) + 1] = n
           /\ Len(Append(s, n)) = Len(s) + 1
OBVIOUS

LEMMA TailCursors ==
    ASSUME NEW s \in Seq(Nat), s # <<>>
    PROVE  /\ Tail(s) \in Seq(Nat)
           /\ DOMAIN s = 1..Len(s) /\ Len(s) \in Nat /\ Len(s) >= 1
           /\ DOMAIN Tail(s) = 1..(Len(s) - 1)
           /\ \A i \in 1..(Len(s) - 1) : Tail(s)[i] = s[i + 1]
           /\ Head(s) = s[1] /\ s[1] \in Nat
<1>1. Len(s) \in Nat /\ Len(s) >= 1
  BY EmptySeq
<1> QED
  BY <1>1

(***************************************************************************)
(* Steps of the plane                                                      *)
(***************************************************************************)
LEMMA PushedMembers ==
    ASSUME NEW S, NEW s \in Seq(S), NEW x \in S, NEW max \in Nat,
           NEW j \in DOMAIN Push(s, x, max)
    PROVE  Push(s, x, max)[j] = x \/ \E i \in DOMAIN s : Push(s, x, max)[j] = s[i]
<1> DEFINE r == Append(s, x)
<1>1. /\ r \in Seq(S) /\ r # <<>> /\ Len(r) = Len(s) + 1 /\ Len(s) \in Nat
      /\ \A i \in 1..Len(s) : r[i] = s[i]
      /\ r[Len(s) + 1] = x
      /\ DOMAIN s = 1..Len(s)
  BY EmptySeq
<1>2. \A i \in 1..Len(r) : r[i] = x \/ \E k \in DOMAIN s : r[i] = s[k]
  BY <1>1
<1> HIDE DEF r
<1>3. Push(s, x, max) = IF Len(r) > max THEN Tail(r) ELSE r
  BY DEF Push, r
<1>4. CASE Push(s, x, max) = r
  <2>1. j \in 1..Len(r)
    BY <1>1, <1>4
  <2> QED
    BY <2>1, <1>2, <1>4
<1>5. CASE Push(s, x, max) = Tail(r)
  <2>1. /\ DOMAIN Tail(r) = 1..(Len(r) - 1)
        /\ \A i \in 1..(Len(r) - 1) : Tail(r)[i] = r[i + 1]
    BY <1>1
  <2>2. j \in 1..(Len(r) - 1) /\ j + 1 \in 1..Len(r)
    BY <1>1, <1>5, <2>1
  <2> QED
    BY <2>1, <2>2, <1>2, <1>5
<1> QED
  BY <1>3, <1>4, <1>5

\* A step of the plane offers at most one change more, later than all others.
LEMMA OffersGrow ==
    ASSUME TypeOK, FeedIsRecentLog, [Next]_vars
    PROVE  /\ revision \in Nat /\ revision' \in Nat /\ revision <= revision'
           /\ \A j \in DOMAIN changes' :
                 \/ changes'[j].cursor > revision
                 \/ \E i \in DOMAIN changes : changes'[j] = changes[i]
<1>1. revision \in Nat /\ changes \in Seq(Change) /\ MaxChanges \in Nat
  BY LimitsArePositive DEF TypeOK, StoreTypes
<1>2. CASE UNCHANGED <<log, revision, changes>>
  BY <1>1, <1>2
<1>3. ASSUME NEW e \in LogEntry, revision' = revision + 1,
             changes' = Push(changes, Announced(revision + 1, e), MaxChanges)
      PROVE  /\ revision' \in Nat /\ revision <= revision'
             /\ \A j \in DOMAIN changes' :
                 \/ changes'[j].cursor > revision
                 \/ \E i \in DOMAIN changes : changes'[j] = changes[i]
  <2> DEFINE c == Announced(revision + 1, e)
  <2>1. c \in Change /\ c.cursor = revision + 1
    BY <1>1 DEF Announced, Change, LogEntry
  <2> HIDE DEF c
  <2>2. ASSUME NEW j \in DOMAIN changes'
        PROVE  \/ changes'[j].cursor > revision
               \/ \E i \in DOMAIN changes : changes'[j] = changes[i]
    <3>1. changes' = Push(changes, c, MaxChanges)
      BY <1>3 DEF c
    <3>2. changes'[j] = c \/ \E i \in DOMAIN changes : changes'[j] = changes[i]
      BY <1>1, <2>1, <2>2, <3>1, PushedMembers
    <3> QED
      BY <1>1, <2>1, <3>2
  <2> QED
    BY <1>1, <1>3, <2>2
<1> QED
  BY <1>1, <1>2, <1>3, HistorySteps

\* Retained changes have positive cursors of their own.
LEMMA RetainedCursors ==
    ASSUME TypeOK, FeedIsRecentLog
    PROVE  /\ \A i \in DOMAIN changes : changes[i].cursor \in 1..revision
           /\ \A i, j \in DOMAIN changes : changes[i].cursor = changes[j].cursor => i = j
<1>1. MaxChanges \in Nat /\ Len(log) \in Nat /\ revision = Len(log)
  BY LimitsArePositive DEF TypeOK, StoreTypes, FeedIsRecentLog
<1>2. FeedLength \in Nat /\ FeedLength <= Len(log)
  BY <1>1 DEF FeedLength
<1>3. DOMAIN changes = 1..FeedLength
      /\ \A i \in 1..FeedLength : changes[i].cursor = Len(log) - FeedLength + i
  BY DEF FeedIsRecentLog, Recent, ChangeAt
<1> QED
  BY <1>1, <1>2, <1>3

LEMMA PlaneKeepsWatchers ==
    ASSUME TypeOK, FeedIsRecentLog, FeedInv, [Next]_vars, UNCHANGED feedVars
    PROVE  FeedInv'
<1>1. FeedTypes'
  BY DEF FeedInv, FeedTypes, feedVars
<1>2. ASSUME NEW w \in Watchers PROVE Sound(w)'
  <2>1. /\ open'[w] = open[w] /\ cursor'[w] = cursor[w] /\ outbox'[w] = outbox[w]
        /\ wire'[w] = wire[w] /\ received'[w] = received[w]
    BY DEF feedVars
  <2>2. Sound(w)
    BY DEF FeedInv, Sound
  <2>3. /\ received[w] \in Seq(Nat) /\ wire[w] \in Seq(Nat) /\ cursor[w] \in Nat
        /\ outbox[w] \subseteq Change
    BY DEF FeedInv, FeedTypes
  <2>4. revision \in Nat /\ revision' \in Nat /\ revision <= revision'
    BY OffersGrow
  <2>5. \A x \in outbox[w] : x.cursor \in Nat
    BY <2>3 DEF Change
  <2>6. InLine(w)'
    <3>1. \A i \in DOMAIN received[w] : received[w][i] \in 1..revision'
      BY <2>2, <2>4 DEF Sound, InLine
    <3>2. \A x \in outbox[w] : x.cursor <= revision'
      BY <2>2, <2>4, <2>5 DEF Sound, InLine
    <3> QED
      BY <2>1, <2>2, <3>1, <3>2 DEF Sound, InLine
  <2>7. StreamIsSound(w)'
    BY <2>1, <2>2, <2>3, <2>4 DEF Sound, StreamIsSound
  <2>8. ASSUME NEW n \in Nat, Offered(w, n)', n <= revision PROVE Offered(w, n)
    <3>1. PICK j \in DOMAIN changes' : changes'[j].cursor = n /\ changes'[j].slot \in Wanted[w]
      BY <2>8 DEF Offered
    <3>2. ~ (changes'[j].cursor > revision)
      BY <2>4, <2>8, <3>1
    <3> QED
      BY <3>1, <3>2, OffersGrow DEF Offered
  <2>9. LastReceived(w) <= revision /\ LastReceived(w) \in Nat /\ LastReceived(w)' = LastReceived(w)
    <3>1. received[w] # <<>> => Len(received[w]) \in DOMAIN received[w]
      BY <2>3, EmptySeq
    <3> QED
      BY <2>1, <2>2, <2>4, <3>1 DEF LastReceived, Sound, InLine
  <2>10. NothingLeftOut(w)'
    <3>1. ASSUME NEW n \in Nat, Offered(w, n)', n < LastReceived(w) PROVE Got(w, n)'
      <4>1. n <= revision
        BY <2>4, <2>9, <3>1
      <4> QED
        BY <2>1, <2>2, <2>8, <3>1, <4>1 DEF Sound, NothingLeftOut, Got
    <3>2. ASSUME open[w], NEW n \in Nat, Offered(w, n)', n <= cursor[w]
          PROVE  Got(w, n)' \/ OnWire(w, n)'
      <4>1. n <= revision
        BY <2>2, <2>3, <2>4, <3>2 DEF Sound, StreamIsSound
      <4> QED
        BY <2>1, <2>2, <2>8, <3>2, <4>1 DEF Sound, NothingLeftOut, Got, OnWire
    <3>3. ASSUME open[w], NEW n \in Nat, Offered(w, n)', NEW x \in outbox[w],
                 cursor[w] < n, n < x.cursor
          PROVE  \E y \in outbox[w] : y.cursor = n
      <4>1. n <= revision
        BY <2>2, <2>4, <2>5, <3>3 DEF Sound, InLine
      <4> QED
        BY <2>2, <2>8, <3>3, <4>1 DEF Sound, NothingLeftOut
    <3> QED
      BY <2>1, <2>9, <3>1, <3>2, <3>3 DEF NothingLeftOut
  <2> QED
    BY <2>6, <2>7, <2>10 DEF Sound
<1> QED
  BY <1>1, <1>2 DEF FeedInv, Sound

(***************************************************************************)
(* Steps of a watcher                                                      *)
(***************************************************************************)
WatcherTypes(w) ==
    /\ received[w] \in Seq(Nat) /\ wire[w] \in Seq(Nat) /\ cursor[w] \in Nat
    /\ outbox[w] \subseteq Change /\ \A x \in outbox[w] : x.cursor \in Nat

LEMMA TypesOfWatcher ==
    ASSUME FeedInv, TypeOK, NEW w \in Watchers
    PROVE  WatcherTypes(w) /\ Sound(w) /\ revision \in Nat
BY DEF FeedInv, FeedTypes, WatcherTypes, Sound, Change, TypeOK, StoreTypes

LEMMA LastReceivedIs ==
    ASSUME NEW w, received[w] \in Seq(Nat)
    PROVE  /\ LastReceived(w) \in Nat
           /\ received[w] = <<>> => LastReceived(w) = 0
           /\ received[w] # <<>> => \E i \in DOMAIN received[w] :
                 i = Len(received[w]) /\ LastReceived(w) = received[w][i]
<1>1. received[w] # <<>> => Len(received[w]) \in DOMAIN received[w]
  BY EmptySeq
<1> QED
  BY <1>1 DEF LastReceived

\* A step of one watcher does not touch the others.
LEMMA OthersStaySound ==
    ASSUME NEW w, Sound(w), UNCHANGED vars,
           open'[w] = open[w], cursor'[w] = cursor[w], outbox'[w] = outbox[w],
           wire'[w] = wire[w], received'[w] = received[w]
    PROVE  Sound(w)'
<1>1. changes' = changes /\ revision' = revision
  BY DEF vars, stored
<1> QED
  BY <1>1 DEF Sound, InLine, StreamIsSound, NothingLeftOut, Offered, Got, OnWire, LastReceived

LEMMA ConnectKeeps ==
    ASSUME TypeOK, FeedIsRecentLog, FeedInv, NEW w \in Watchers, Connect(w)
    PROVE  FeedInv'
<1>1. WatcherTypes(w) /\ Sound(w) /\ revision \in Nat
  BY TypesOfWatcher
<1>2. changes' = changes /\ revision' = revision
  BY DEF Connect, vars, stored
<1>3. /\ LastReceived(w) \in Nat
      /\ received[w] = <<>> => LastReceived(w) = 0
      /\ received[w] # <<>> => \E i \in DOMAIN received[w] :
            i = Len(received[w]) /\ LastReceived(w) = received[w][i]
  BY <1>1, LastReceivedIs DEF WatcherTypes
<1>4. FeedTypes'
  BY <1>3 DEF FeedInv, FeedTypes, Connect
<1>5. ASSUME NEW v \in Watchers, v # w PROVE Sound(v)'
  BY <1>5, OthersStaySound DEF FeedInv, Sound, FeedTypes, Connect
<1>6. /\ open'[w] /\ cursor'[w] = LastReceived(w) /\ outbox'[w] = {} /\ wire'[w] = <<>>
      /\ received'[w] = received[w]
  BY <1>1 DEF Connect, FeedInv, FeedTypes, Sound, StreamIsSound
<1>7. InLine(w)'
  BY <1>1, <1>2, <1>6 DEF InLine, Sound
<1>8. StreamIsSound(w)'
  <2>1. LastReceived(w) <= revision
    BY <1>1, <1>3 DEF Sound, InLine
  <2>2. \A i \in DOMAIN received[w] : received[w][i] <= LastReceived(w)
    <3> TAKE i \in DOMAIN received[w]
    <3>1. DOMAIN received[w] = 1..Len(received[w]) /\ Len(received[w]) \in Nat
          /\ received[w][i] \in Nat /\ i \in Nat /\ received[w] # <<>>
      BY <1>1 DEF WatcherTypes
    <3>2. CASE i = Len(received[w])
      BY <1>3, <3>1, <3>2
    <3>3. CASE i < Len(received[w])
      BY <1>1, <1>3, <3>1, <3>3 DEF Sound, InLine
    <3> QED
      BY <3>1, <3>2, <3>3
  <2> QED
    BY <1>2, <1>6, <2>1, <2>2 DEF StreamIsSound
<1>9. NothingLeftOut(w)'
  <2>1. LastReceived(w)' = LastReceived(w)
    BY <1>6 DEF LastReceived
  <2>2. \A n \in Nat : /\ Offered(w, n)' <=> Offered(w, n)
                       /\ Got(w, n)' <=> Got(w, n)
    BY <1>2, <1>6 DEF Offered, Got
  <2>3. ASSUME NEW n \in Nat, Offered(w, n), n <= LastReceived(w) PROVE Got(w, n)
    <3>1. CASE n < LastReceived(w)
      BY <1>1, <2>3, <3>1 DEF Sound, NothingLeftOut
    <3>2. CASE n = LastReceived(w) /\ received[w] # <<>>
      BY <1>3, <3>2 DEF Got
    <3>3. CASE n = LastReceived(w) /\ received[w] = <<>>
      <4>1. n = 0
        BY <1>3, <3>3
      <4>2. PICK i \in DOMAIN changes : changes[i].cursor = n
        BY <2>3 DEF Offered
      <4> QED
        BY <1>1, <4>1, <4>2, RetainedCursors
    <3> QED
      BY <1>3, <2>3, <3>1, <3>2, <3>3
  <2> QED
    BY <1>1, <1>6, <2>1, <2>2, <2>3 DEF Sound, NothingLeftOut
<1> QED
  BY <1>4, <1>5, <1>7, <1>8, <1>9 DEF FeedInv, Sound

LEMMA PollKeeps ==
    ASSUME TypeOK, FeedIsRecentLog, FeedInv, NEW w \in Watchers, Poll(w)
    PROVE  FeedInv'
<1> DEFINE matching == {c \in Later(cursor[w]) : c.slot \in Wanted[w]}
           batch == ChangesAfter(cursor[w], w)
<1>1. WatcherTypes(w) /\ Sound(w) /\ revision \in Nat
  BY TypesOfWatcher
<1>2. changes' = changes /\ revision' = revision
  BY DEF Poll, vars, stored
<1>3. /\ changes \in Seq(Change)
      /\ IsFiniteSet(matching) /\ matching \subseteq {changes[i] : i \in DOMAIN changes}
  <2>1. changes \in Seq(Change)
    BY DEF TypeOK, StoreTypes
  <2>2. IsFiniteSet(DOMAIN changes)
    BY <2>1, FS_Interval
  <2>3. IsFiniteSet({changes[i] : i \in DOMAIN changes})
    <3>1. changes \in Surjection(DOMAIN changes, {changes[i] : i \in DOMAIN changes})
      BY <2>1 DEF Surjection
    <3> QED
      BY <2>2, <3>1, FS_Surjection
  <2> QED
    BY <2>1, <2>3, FS_Subset DEF Later
<1>4. /\ \A x \in matching : x.cursor \in 1..revision /\ cursor[w] < x.cursor
      /\ \A x, y \in matching : x.cursor = y.cursor => x = y
  <2>1. \A x \in matching : cursor[w] < x.cursor /\ \E i \in DOMAIN changes : x = changes[i]
    BY <1>1, RetainedCursors DEF Later, WatcherTypes
  <2> QED
    BY <2>1, RetainedCursors
<1>5. batch \subseteq matching
  BY DEF ChangesAfter, FirstOf
<1>6. ASSUME NEW x \in batch, NEW y \in matching, y.cursor < x.cursor PROVE y \in batch
  <2> DEFINE before(c) == {e \in matching : e.cursor < c.cursor}
  <2>1. before(y) \subseteq before(x)
    BY <1>4, <1>5, <1>6
  <2>2. IsFiniteSet(before(x)) /\ before(x) \subseteq matching
    BY <1>3, FS_Subset
  <2>3. /\ Cardinality(before(y)) \in Nat /\ Cardinality(before(x)) \in Nat
        /\ Cardinality(before(y)) <= Cardinality(before(x))
    BY <2>1, <2>2, FS_Subset, FS_CardinalityType
  <2>4. Cardinality(before(x)) < BatchSize
    BY <1>6 DEF ChangesAfter, FirstOf
  <2>5. Cardinality(before(y)) < BatchSize
    BY <2>3, <2>4, BatchSizeIsPositive
  <2> QED
    BY <1>6, <2>5 DEF ChangesAfter, FirstOf
<1> HIDE DEF matching, batch
<1>7. /\ open'[w] /\ open[w] /\ cursor'[w] = cursor[w] /\ outbox'[w] = batch /\ wire'[w] = wire[w]
      /\ received'[w] = received[w]
  BY DEF Poll, FeedInv, FeedTypes, batch
<1>8. FeedTypes'
  <2>1. batch \subseteq Change
    BY <1>3, <1>5
  <2> QED
    BY <2>1 DEF FeedInv, FeedTypes, Poll, batch
<1>9. ASSUME NEW v \in Watchers, v # w PROVE Sound(v)'
  BY <1>9, OthersStaySound DEF FeedInv, Sound, FeedTypes, Poll
<1>10. InLine(w)'
  BY <1>1, <1>2, <1>4, <1>5, <1>7 DEF Sound, InLine
<1>11. StreamIsSound(w)'
  BY <1>1, <1>2, <1>4, <1>5, <1>7 DEF Sound, StreamIsSound
<1>12. NothingLeftOut(w)'
  <2>1. LastReceived(w)' = LastReceived(w)
    BY <1>7 DEF LastReceived
  <2>2. \A n \in Nat : /\ Offered(w, n)' <=> Offered(w, n)
                       /\ Got(w, n)' <=> Got(w, n)
                       /\ OnWire(w, n)' <=> OnWire(w, n)
    BY <1>2, <1>7 DEF Offered, Got, OnWire
  <2>3. ASSUME NEW n \in Nat, Offered(w, n), NEW x \in batch, cursor[w] < n, n < x.cursor
        PROVE  \E y \in batch : y.cursor = n
    <3>1. PICK i \in DOMAIN changes : changes[i].cursor = n /\ changes[i].slot \in Wanted[w]
      BY <2>3 DEF Offered
    <3>2. changes[i] \in matching
      BY <2>3, <3>1 DEF matching, Later
    <3> QED
      BY <1>6, <2>3, <3>1, <3>2
  <2> QED
    BY <1>1, <1>7, <2>1, <2>2, <2>3 DEF Sound, NothingLeftOut
<1> QED
  BY <1>8, <1>9, <1>10, <1>11, <1>12 DEF FeedInv, Sound

LEMMA BreakKeeps ==
    ASSUME TypeOK, FeedInv, NEW w \in Watchers, Break(w)
    PROVE  FeedInv'
<1>1. WatcherTypes(w) /\ Sound(w)
  BY TypesOfWatcher
<1>2. changes' = changes /\ revision' = revision
  BY DEF Break, vars, stored
<1>3. /\ ~ open'[w] /\ outbox'[w] = {} /\ wire'[w] = <<>> /\ received'[w] = received[w]
  BY DEF Break, FeedInv, FeedTypes
<1>4. FeedTypes'
  BY DEF Break, FeedInv, FeedTypes
<1>5. ASSUME NEW v \in Watchers, v # w PROVE Sound(v)'
  BY <1>5, OthersStaySound DEF FeedInv, Sound, FeedTypes, Break
<1>6. Sound(w)'
  <2>1. InLine(w)'
    BY <1>1, <1>2, <1>3 DEF Sound, InLine
  <2>2. StreamIsSound(w)'
    BY <1>3 DEF StreamIsSound
  <2>3. NothingLeftOut(w)'
    BY <1>1, <1>2, <1>3 DEF Sound, NothingLeftOut, Offered, Got, LastReceived
  <2> QED
    BY <2>1, <2>2, <2>3 DEF Sound
<1> QED
  BY <1>4, <1>5, <1>6 DEF FeedInv, Sound

LEMMA YieldKeeps ==
    ASSUME TypeOK, FeedInv, NEW w \in Watchers, Yield(w)
    PROVE  FeedInv'
<1>1. WatcherTypes(w) /\ Sound(w) /\ revision \in Nat
  BY TypesOfWatcher
<1>2. changes' = changes /\ revision' = revision
  BY DEF Yield, vars, stored
<1>3. PICK c \in outbox[w] :
          /\ \A other \in outbox[w] : c.cursor <= other.cursor
          /\ cursor' = [cursor EXCEPT ![w] = c.cursor]
          /\ wire' = [wire EXCEPT ![w] = Append(@, c.cursor)]
          /\ outbox' = [outbox EXCEPT ![w] = @ \ {c}]
  BY DEF Yield
<1>4. c.cursor \in Nat /\ c.cursor <= revision /\ cursor[w] < c.cursor /\ open[w]
  BY <1>1, <1>3 DEF WatcherTypes, Sound, InLine, StreamIsSound, Yield
<1>5. /\ open'[w] /\ cursor'[w] = c.cursor /\ outbox'[w] = outbox[w] \ {c}
      /\ wire'[w] = Append(wire[w], c.cursor) /\ received'[w] = received[w]
  BY <1>3, <1>4 DEF Yield, FeedInv, FeedTypes
<1>6. FeedTypes'
  BY <1>3, <1>4 DEF Yield, FeedInv, FeedTypes
<1>7. ASSUME NEW v \in Watchers, v # w PROVE Sound(v)'
  BY <1>3, <1>7, OthersStaySound DEF FeedInv, Sound, FeedTypes, Yield
<1>8. /\ DOMAIN wire[w] = 1..Len(wire[w]) /\ Len(wire[w]) \in Nat
      /\ DOMAIN wire'[w] = 1..(Len(wire[w]) + 1)
      /\ \A i \in 1..Len(wire[w]) : wire'[w][i] = wire[w][i]
      /\ wire'[w][Len(wire[w]) + 1] = c.cursor
  BY <1>1, <1>4, <1>5, AppendCursor DEF WatcherTypes
<1>9. \A i \in DOMAIN wire[w] : wire[w][i] \in 1..cursor[w] /\ wire[w][i] < c.cursor
  BY <1>1, <1>4 DEF Sound, StreamIsSound, WatcherTypes
<1>10. \A i \in DOMAIN received[w] : received[w][i] \in Nat /\ received[w][i] <= cursor[w]
                                    /\ received[w][i] < c.cursor
  BY <1>1, <1>4 DEF Sound, StreamIsSound, WatcherTypes
<1>11. InLine(w)'
  <2>1. \A i, j \in DOMAIN wire'[w] : i < j => wire'[w][i] < wire'[w][j]
    <3> TAKE i, j \in DOMAIN wire'[w]
    <3>1. CASE j \in 1..Len(wire[w])
      BY <1>1, <1>8, <3>1 DEF Sound, InLine
    <3>2. CASE j = Len(wire[w]) + 1
      BY <1>8, <1>9, <3>2
    <3> QED
      BY <1>8, <3>1, <3>2
  <2>2. \A i \in DOMAIN received[w], j \in DOMAIN wire'[w] : received[w][i] < wire'[w][j]
    <3> TAKE i \in DOMAIN received[w], j \in DOMAIN wire'[w]
    <3>1. CASE j \in 1..Len(wire[w])
      BY <1>1, <1>8, <3>1 DEF Sound, InLine
    <3>2. CASE j = Len(wire[w]) + 1
      BY <1>8, <1>10, <3>2
    <3> QED
      BY <1>8, <3>1, <3>2
  <2> QED
    BY <1>1, <1>2, <1>5, <2>1, <2>2 DEF Sound, InLine
<1>12. StreamIsSound(w)'
  <2>1. \A j \in DOMAIN wire'[w] : wire'[w][j] \in 1..c.cursor
    <3> TAKE j \in DOMAIN wire'[w]
    <3>1. CASE j \in 1..Len(wire[w])
      BY <1>1, <1>4, <1>8, <1>9, <3>1 DEF WatcherTypes
    <3>2. CASE j = Len(wire[w]) + 1
      BY <1>1, <1>4, <1>8, <3>2 DEF WatcherTypes
    <3> QED
      BY <1>8, <3>1, <3>2
  <2>2. \A x \in outbox[w] \ {c} : c.cursor < x.cursor
    <3> TAKE x \in outbox[w] \ {c}
    <3>1. x.cursor \in Nat /\ c.cursor <= x.cursor /\ x.cursor # c.cursor
      BY <1>1, <1>3 DEF WatcherTypes, Sound, InLine
    <3> QED
      BY <1>4, <3>1
  <2>3. \A i \in DOMAIN received[w] : received[w][i] <= c.cursor
    BY <1>4, <1>10
  <2> QED
    BY <1>2, <1>4, <1>5, <2>1, <2>2, <2>3 DEF StreamIsSound
<1>13. NothingLeftOut(w)'
  <2>1. LastReceived(w)' = LastReceived(w)
    BY <1>5 DEF LastReceived
  <2>2. \A n \in Nat : /\ Offered(w, n)' <=> Offered(w, n)
                       /\ Got(w, n)' <=> Got(w, n)
                       /\ OnWire(w, n) => OnWire(w, n)'
    BY <1>2, <1>5, <1>8 DEF Offered, Got, OnWire
  <2>3. ASSUME NEW n \in Nat, Offered(w, n), n <= c.cursor PROVE Got(w, n) \/ OnWire(w, n)'
    <3>1. CASE n <= cursor[w]
      BY <1>1, <1>4, <2>2, <2>3, <3>1 DEF Sound, NothingLeftOut
    <3>2. CASE cursor[w] < n /\ n < c.cursor
      <4>1. PICK y \in outbox[w] : y.cursor = n
        BY <1>1, <1>4, <2>3, <3>2 DEF Sound, NothingLeftOut
      <4> QED
        BY <1>3, <1>4, <2>3, <3>2, <4>1
    <3>3. CASE n = c.cursor
      <4>1. Len(wire[w]) + 1 \in DOMAIN wire'[w]
        BY <1>8
      <4> QED
        BY <1>8, <3>3, <4>1 DEF OnWire
    <3> QED
      BY <1>1, <1>4, <2>3, <3>1, <3>2, <3>3 DEF WatcherTypes
  <2>4. ASSUME NEW n \in Nat, Offered(w, n), NEW x \in outbox[w] \ {c}, c.cursor < n, n < x.cursor
        PROVE  \E y \in outbox[w] \ {c} : y.cursor = n
    <3>1. cursor[w] < n
      BY <1>1, <1>4, <2>4 DEF WatcherTypes
    <3>2. PICK y \in outbox[w] : y.cursor = n
      BY <1>1, <1>4, <2>4, <3>1 DEF Sound, NothingLeftOut
    <3> QED
      BY <1>4, <2>4, <3>2
  <2> QED
    BY <1>1, <1>5, <2>1, <2>2, <2>3, <2>4 DEF Sound, NothingLeftOut
<1> QED
  BY <1>6, <1>7, <1>11, <1>12, <1>13 DEF FeedInv, Sound

LEMMA ReceiveKeeps ==
    ASSUME TypeOK, FeedInv, NEW w \in Watchers, Receive(w)
    PROVE  FeedInv'
<1> DEFINE h == Head(wire[w])
<1>1. WatcherTypes(w) /\ Sound(w) /\ revision \in Nat /\ wire[w] # <<>>
  BY TypesOfWatcher DEF Receive
<1>2. changes' = changes /\ revision' = revision
  BY DEF Receive, vars, stored
<1>3. open[w]
  BY <1>1 DEF Sound, StreamIsSound
<1>4. /\ wire' = [wire EXCEPT ![w] = Tail(wire[w])]
      /\ received' = [received EXCEPT ![w] = Append(received[w], h)]
      /\ UNCHANGED <<open, cursor, outbox, breaks, vars>>
  BY DEF Receive
<1>5. /\ open'[w] /\ cursor'[w] = cursor[w] /\ outbox'[w] = outbox[w]
      /\ wire'[w] = Tail(wire[w]) /\ received'[w] = Append(received[w], h)
  BY <1>3, <1>4 DEF FeedInv, FeedTypes
<1>6. /\ Tail(wire[w]) \in Seq(Nat)
      /\ DOMAIN wire[w] = 1..Len(wire[w]) /\ Len(wire[w]) \in Nat /\ Len(wire[w]) >= 1
      /\ DOMAIN wire'[w] = 1..(Len(wire[w]) - 1)
      /\ \A i \in 1..(Len(wire[w]) - 1) : wire'[w][i] = wire[w][i + 1]
      /\ h = wire[w][1] /\ h \in Nat
  BY <1>1, <1>5, TailCursors DEF WatcherTypes
<1> HIDE DEF h
<1>7. /\ Append(received[w], h) \in Seq(Nat)
      /\ DOMAIN received[w] = 1..Len(received[w]) /\ Len(received[w]) \in Nat
      /\ DOMAIN received'[w] = 1..(Len(received[w]) + 1)
      /\ \A i \in 1..Len(received[w]) : received'[w][i] = received[w][i]
      /\ received'[w][Len(received[w]) + 1] = h
      /\ Len(received'[w]) = Len(received[w]) + 1
  BY <1>1, <1>5, <1>6, AppendCursor DEF WatcherTypes
<1>8. /\ h \in 1..cursor[w] /\ cursor[w] \in Nat /\ cursor[w] <= revision
      /\ \A i \in 1..Len(received[w]) : received[w][i] \in 1..revision /\ received[w][i] < h
                                        /\ received[w][i] <= cursor[w]
      /\ \A j \in 1..(Len(wire[w]) - 1) : wire'[w][j] \in 1..cursor[w] /\ h < wire'[w][j]
  <2>1. h \in 1..cursor[w] /\ cursor[w] \in Nat /\ cursor[w] <= revision /\ 1 \in DOMAIN wire[w]
    <3>1. 1 \in DOMAIN wire[w]
      BY <1>6
    <3> QED
      BY <1>1, <1>3, <1>6, <3>1 DEF WatcherTypes, Sound, StreamIsSound
  <2>2. ASSUME NEW i \in 1..Len(received[w])
        PROVE  received[w][i] \in 1..revision /\ received[w][i] < h /\ received[w][i] <= cursor[w]
    BY <1>1, <1>3, <1>6, <1>7, <2>1 DEF Sound, InLine, StreamIsSound
  <2>3. ASSUME NEW j \in 1..(Len(wire[w]) - 1)
        PROVE  wire'[w][j] \in 1..cursor[w] /\ h < wire'[w][j]
    <3>1. j + 1 \in DOMAIN wire[w] /\ 1 < j + 1
      BY <1>6
    <3>2. wire[w][j + 1] \in 1..cursor[w] /\ wire[w][1] < wire[w][j + 1]
      BY <1>1, <1>3, <2>1, <3>1 DEF Sound, InLine, StreamIsSound
    <3> QED
      BY <1>6, <3>2
  <2> QED
    BY <2>1, <2>2, <2>3
<1>9. FeedTypes'
  BY <1>4, <1>6, <1>7 DEF FeedInv, FeedTypes
<1>10. ASSUME NEW v \in Watchers, v # w PROVE Sound(v)'
  <2>1. /\ open'[v] = open[v] /\ cursor'[v] = cursor[v] /\ outbox'[v] = outbox[v]
        /\ wire'[v] = wire[v] /\ received'[v] = received[v] /\ UNCHANGED vars
    BY <1>4, <1>10 DEF FeedInv, FeedTypes
  <2> QED
    BY <2>1, <1>10, OthersStaySound DEF FeedInv, Sound
<1>11. InLine(w)'
  <2>1. \A i, j \in DOMAIN received'[w] : i < j => received'[w][i] < received'[w][j]
    <3> TAKE i, j \in DOMAIN received'[w]
    <3>1. CASE j \in 1..Len(received[w])
      BY <1>1, <1>7, <3>1 DEF Sound, InLine
    <3>2. CASE j = Len(received[w]) + 1
      BY <1>7, <1>8, <3>2
    <3> QED
      BY <1>7, <3>1, <3>2
  <2>2. \A i \in DOMAIN received'[w] : received'[w][i] \in 1..revision
    <3> TAKE i \in DOMAIN received'[w]
    <3>1. CASE i \in 1..Len(received[w])
      BY <1>7, <1>8, <3>1
    <3>2. CASE i = Len(received[w]) + 1
      BY <1>1, <1>7, <1>8, <3>2
    <3> QED
      BY <1>7, <3>1, <3>2
  <2>3. \A i, j \in DOMAIN wire'[w] : i < j => wire'[w][i] < wire'[w][j]
    <3> TAKE i, j \in DOMAIN wire'[w]
    <3>1. i + 1 \in DOMAIN wire[w] /\ j + 1 \in DOMAIN wire[w] /\ (i < j => i + 1 < j + 1)
      <4>1. i \in 1..(Len(wire[w]) - 1) /\ j \in 1..(Len(wire[w]) - 1)
        BY <1>6
      <4>2. i + 1 \in 1..Len(wire[w]) /\ j + 1 \in 1..Len(wire[w])
        BY <1>6, <4>1
      <4> QED
        BY <1>6, <4>1, <4>2
    <3>2. wire'[w][i] = wire[w][i + 1] /\ wire'[w][j] = wire[w][j + 1]
      BY <1>6
    <3>3. i + 1 < j + 1 => wire[w][i + 1] < wire[w][j + 1]
      BY <1>1, <3>1 DEF Sound, InLine
    <3> QED
      BY <3>1, <3>2, <3>3
  <2>4. \A i \in DOMAIN received'[w], j \in DOMAIN wire'[w] : received'[w][i] < wire'[w][j]
    <3> TAKE i \in DOMAIN received'[w], j \in DOMAIN wire'[w]
    <3>1. CASE i \in 1..Len(received[w])
      <4>1. j + 1 \in DOMAIN wire[w] /\ wire'[w][j] = wire[w][j + 1]
        BY <1>6
      <4> QED
        BY <1>1, <1>7, <3>1, <4>1 DEF Sound, InLine
    <3>2. CASE i = Len(received[w]) + 1
      BY <1>6, <1>7, <1>8, <3>2
    <3> QED
      BY <1>7, <3>1, <3>2
  <2> QED
    BY <1>1, <1>2, <1>5, <2>1, <2>2, <2>3, <2>4 DEF Sound, InLine
<1>12. StreamIsSound(w)'
  <2>1. \A i \in DOMAIN received'[w] : received'[w][i] <= cursor[w]
    <3> TAKE i \in DOMAIN received'[w]
    <3>1. h <= cursor[w]
      BY <1>8
    <3> QED
      BY <1>7, <1>8, <3>1
  <2> QED
    BY <1>1, <1>2, <1>3, <1>5, <1>6, <1>8, <2>1 DEF Sound, StreamIsSound
<1>13. NothingLeftOut(w)'
  <2>1. LastReceived(w)' = h
    BY <1>7 DEF LastReceived
  <2>2. ASSUME NEW n \in Nat
        PROVE  /\ Offered(w, n)' <=> Offered(w, n)
               /\ Got(w, n) => Got(w, n)'
    <3>1. Offered(w, n)' <=> Offered(w, n)
      BY <1>2 DEF Offered
    <3>2. ASSUME NEW i \in DOMAIN received[w]
          PROVE  i \in DOMAIN received'[w] /\ received'[w][i] = received[w][i]
      BY <1>7
    <3> QED
      BY <3>1, <3>2 DEF Got
  <2>3. ASSUME NEW n \in Nat, n = h PROVE Got(w, n)'
    <3>1. Len(received[w]) + 1 \in DOMAIN received'[w]
      BY <1>7
    <3> QED
      BY <1>7, <2>3, <3>1 DEF Got
  <2>4. ASSUME NEW n \in Nat, OnWire(w, n) PROVE n >= h /\ (n = h \/ OnWire(w, n)')
    <3>1. PICK j \in DOMAIN wire[w] : wire[w][j] = n
      BY <2>4 DEF OnWire
    <3>2. CASE j = 1
      <4>1. n = h
        BY <1>6, <3>1, <3>2
      <4> QED
        BY <2>4, <4>1
    <3>3. CASE j > 1
      <4>1. j - 1 \in 1..(Len(wire[w]) - 1) /\ (j - 1) + 1 = j
        BY <1>6, <3>1, <3>3
      <4>2. wire'[w][j - 1] = n /\ j - 1 \in DOMAIN wire'[w]
        BY <1>6, <3>1, <4>1
      <4>3. OnWire(w, n)'
        BY <4>2 DEF OnWire
      <4>4. h < n
        BY <1>8, <4>1, <4>2
      <4> QED
        BY <1>6, <2>4, <4>3, <4>4
    <3> QED
      BY <1>6, <3>1, <3>2, <3>3
  <2>5. ASSUME NEW n \in Nat, Offered(w, n), n <= cursor[w] PROVE Got(w, n)' \/ OnWire(w, n)'
    <3>1. Got(w, n) \/ OnWire(w, n)
      BY <1>1, <1>3, <2>5 DEF Sound, NothingLeftOut
    <3>2. CASE Got(w, n)
      BY <2>2, <3>2
    <3>3. CASE OnWire(w, n)
      <4>1. CASE n = h
        BY <2>3, <4>1
      <4> QED
        BY <2>4, <3>3, <4>1
    <3> QED
      BY <3>1, <3>2, <3>3
  <2>6. ASSUME NEW n \in Nat, Offered(w, n), n < h PROVE Got(w, n)'
    <3>1. n <= cursor[w]
      BY <1>8, <2>6
    <3>2. Got(w, n) \/ OnWire(w, n)
      BY <1>1, <1>3, <2>6, <3>1 DEF Sound, NothingLeftOut
    <3>3. ~ OnWire(w, n)
      BY <1>6, <2>4, <2>6
    <3> QED
      BY <2>2, <3>2, <3>3
  <2> QED
    BY <1>1, <1>3, <1>5, <2>1, <2>2, <2>5, <2>6 DEF Sound, NothingLeftOut
<1> QED
  BY <1>9, <1>10, <1>11, <1>12, <1>13 DEF FeedInv, Sound

(***************************************************************************)
(* The theorem                                                             *)
(***************************************************************************)
LEMMA WatchersStart == FeedInit => FeedInv
<1> SUFFICES ASSUME FeedInit PROVE FeedInv
  OBVIOUS
<1>1. FeedTypes
  BY DEF FeedInit, FeedTypes
<1>2. ASSUME NEW w \in Watchers PROVE Sound(w)
  <2>1. ~ open[w] /\ outbox[w] = {} /\ wire[w] = <<>> /\ received[w] = <<>>
    BY DEF FeedInit
  <2>2. LastReceived(w) = 0
    BY <2>1 DEF LastReceived
  <2> QED
    BY <2>1, <2>2 DEF Sound, InLine, StreamIsSound, NothingLeftOut
<1> QED
  BY <1>1, <1>2 DEF FeedInv, Sound

LEMMA FeedInvStep ==
    ASSUME TypeOK, FeedIsRecentLog, FeedInv, [FeedNext]_<<vars, feedVars>>
    PROVE  FeedInv'
<1>1. CASE [Next]_vars /\ UNCHANGED feedVars
  BY <1>1, PlaneKeepsWatchers
<1>2. ASSUME NEW w \in Watchers, WatchStep(w) \/ Break(w) PROVE FeedInv'
  BY <1>2, ConnectKeeps, PollKeeps, YieldKeeps, ReceiveKeeps, BreakKeeps DEF WatchStep
<1> QED
  BY <1>1, <1>2 DEF FeedNext

\* The plane goes about its work, watched or not.
LEMMA PlaneUnderWatch == FeedSpec => Spec
<1>1. FeedInit => Init
  BY DEF FeedInit
<1>2. [FeedNext]_<<vars, feedVars>> => [Next]_vars
  BY DEF FeedNext, WatchStep, Connect, Poll, Yield, Receive, Break
<1> QED
  BY <1>1, <1>2, PTL DEF FeedSpec, Spec

\* Whatever the limit of a batch, the size of the feed and the breaks: a watcher
\* is handed what it wants in order, once, and nothing the plane still retains
\* is passed over.
THEOREM WatchersFollow == FeedSpec => []FeedIsFollowed
<1>1. TypeOK /\ FeedInv => FeedIsFollowed
  <2> SUFFICES ASSUME TypeOK, FeedInv PROVE FeedIsFollowed
    OBVIOUS
  <2>1. ReceivedInOrder
    BY DEF FeedInv, InLine, ReceivedInOrder
  <2>2. ASSUME NEW w \in Watchers, NEW i \in DOMAIN changes, changes[i].slot \in Wanted[w],
               changes[i].cursor < LastReceived(w)
        PROVE  Got(w, changes[i].cursor)
    <3>1. changes[i] \in Change
      BY DEF TypeOK, StoreTypes
    <3>2. changes[i].cursor \in Nat
      BY <3>1 DEF Change
    <3> QED
      BY <2>2, <3>2 DEF FeedInv, NothingLeftOut, Offered
  <2> QED
    BY <2>1, <2>2 DEF FeedIsFollowed, RetainedIsNeverSkipped
<1> QED
  BY <1>1, WatchersStart, FeedInvStep, PlaneUnderWatch, TypeCorrect, FeedFaithful, PTL DEF FeedSpec
=============================================================================
