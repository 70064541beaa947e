---------------------------- MODULE AdapterProofs ----------------------------
(***************************************************************************)
(* SourceAdapters for every value of its constants: what the State Plane   *)
(* shows of a cluster follows it, whatever fails, expires or is retried.   *)
(***************************************************************************)
EXTENDS SourceAdapters, SequenceTheorems, WellFoundedInduction, TLAPS

Stages == {"idle", "watch", "list", "relist", "publish"}
Pending == todo["k8s"]

\* How many calls of an observation upsert its object, and which publishes.
UpsertOf(o) == IF o \in Nodes THEN 1 ELSE 2
PublishOf(o) == IF o \in Nodes THEN 2 ELSE 5

Applied(o, v) == \E i \in DOMAIN applied[o] : applied[o][i] = v
Reached(o, v) == \E i \in DOMAIN applied[o] : applied[o][i] >= v
Fits(o, v) == Applied(o, v) \/ \A i \in DOMAIN applied[o] : applied[o][i] < v

SourcesTyped ==
    /\ cluster \in Seq(Change) /\ cluster # <<>>
    /\ compacted \in Nat /\ now \in Nat /\ stage \in Stages
    /\ cursor \in [Kinds -> 0..Len(cluster)] /\ next \in [Kinds -> 0..Len(cluster)]
    /\ listed \in [Kinds -> Nat]
    /\ \A kind \in Kinds : next[kind] # 0 => cursor[kind] <= next[kind]
    /\ stage \in {"idle", "list"} => next = NoVersions /\ Pending = <<>>
    /\ stage \in {"watch", "relist"} => next["pods"] = 0
    /\ stage # "publish" => done["k8s"] = 0

CallCount(a, ob) ==
    IF a = "k8s" THEN PublishOf(ob.of) + 1 ELSE IF a = "runtime" THEN 8 ELSE 5

Observations ==
    [of : Objects \cup {"kv"}, id : {<<w, 0>> : w \in Windows} \cup (Objects \X Nat), at : Nat]

ProcessesTyped ==
    /\ todo \in [Adapters -> Seq(Observations)]
    /\ done \in [Adapters -> Nat]
    /\ \A a \in Adapters :
          IF todo[a] = <<>> THEN done[a] = 0 ELSE done[a] < CallCount(a, todo[a][1])

PendingTyped ==
    \A i \in DOMAIN Pending :
        LET o == Pending[i].of v == VersionIn(Pending[i]) IN
        /\ o \in Objects /\ v \in Versions(o, Len(cluster)) /\ Pending[i].id = <<o, v>>
        /\ Pending[i].at \in 0..now
        /\ v <= next[KindOf(o)] /\ Latest(o, cursor[KindOf(o)]) <= v

PendingInOrder ==
    \A i, j \in DOMAIN Pending :
        i < j => /\ Pending[i].at <= Pending[j].at
                 /\ Pending[i].of = Pending[j].of => VersionIn(Pending[i]) < VersionIn(Pending[j])

FirstUnderWay ==
    Pending # <<>> =>
        LET o == Pending[1].of IN
        /\ done["k8s"] >= UpsertOf(o) => entities[o] # Absent
        /\ done["k8s"] >= PublishOf(o) => Applied(o, VersionIn(Pending[1]))

PlaneTyped ==
    /\ entities \in [Refs -> {Absent} \cup (Adapters \X Lives)]
    /\ applied \in [Objects -> Seq(Nat)]
    /\ \A o \in Objects : \A i \in DOMAIN applied[o] : applied[o][i] \in Versions(o, Len(cluster))

KeysMatch ==
    \A o \in Objects : \A v \in Nat :
        <<"k8s", <<o, v>>, MainSlot(o)>> \in idempotency <=> Applied(o, v)

CellsMatch ==
    \A o \in Objects :
        LET cell == cells[MainSlot(o)] IN
        cell # Absent =>
            /\ cell.authority \in Authorities
            /\ cell.authority = 4 =>
                  /\ applied[o] # <<>> /\ cell.value = ShownValue(Newest(o))
                  /\ cell.timestamp \in 0..now
                  /\ \A i \in DOMAIN Pending : cell.timestamp <= Pending[i].at

\* Order of what is applied
GapFree(kind, from) ==
    \A o \in Objects : \A v \in Versions(o, Len(cluster)) :
        KindOf(o) = kind /\ v > from => Fits(o, v)

NoneSkipped ==
    \A i \in DOMAIN Pending :
        LET o == Pending[i].of IN
        \A v \in Versions(o, Len(cluster)) :
            cursor[KindOf(o)] < v /\ v < VersionIn(Pending[i]) =>
                Applied(o, v) \/ \E j \in 1..i - 1 : Pending[j].of = o /\ VersionIn(Pending[j]) = v

AllFit == \A i \in DOMAIN Pending : Fits(Pending[i].of, VersionIn(Pending[i]))

Resumable == (\A kind \in Kinds : GapFree(kind, cursor[kind])) /\ NoneSkipped
Stale == ~ Initialized \/ \E kind \in Kinds : Expired(kind)

CanGoOn ==
    /\ Stale \/ Resumable
    /\ stage \in {"list", "relist"} => Stale
    /\ stage = "watch" => Initialized /\ (Expired("pods") \/ (Resumable /\ AllFit))
    /\ stage \in {"relist", "publish"} =>
          /\ AllFit
          /\ \A kind \in Kinds : next[kind] # 0 => GapFree(kind, next[kind])
    /\ stage \in {"watch", "relist", "publish"} => next["nodes"] # 0
    /\ stage = "publish" => next["pods"] # 0

\* Nothing is passed over
Known(o, versions) == Latest(o, versions[KindOf(o)]) # 0 /\ ~ Lost(Latest(o, versions[KindOf(o)]))

CursorCovered == \A o \in Objects : Known(o, cursor) => Reached(o, Latest(o, cursor[KindOf(o)]))

NextCovered ==
    \A o \in Objects : Known(o, next) =>
        \/ Reached(o, Latest(o, next[KindOf(o)]))
        \/ \E i \in DOMAIN Pending :
              Pending[i].of = o /\ VersionIn(Pending[i]) >= Latest(o, next[KindOf(o)])

Shows(p, v) ==
    entities[p][1] = "k8s" =>
        \E w \in Versions(p, Len(cluster)) : w >= v /\ entities[p][2] = ShownLife(w)

ToUpsert(p) == {i \in DOMAIN Pending : Pending[i].of = p /\ (i = 1 => done["k8s"] < 2)}

CursorShown == \A p \in Pods : Known(p, cursor) => Shows(p, Latest(p, cursor[KindOf(p)]))

NextShown ==
    \A p \in Pods : Known(p, next) =>
        IF ToUpsert(p) = {} THEN Shows(p, Latest(p, next[KindOf(p)]))
        ELSE \E i \in ToUpsert(p) : VersionIn(Pending[i]) >= Latest(p, next[KindOf(p)])

AdapterInv ==
    /\ SourcesTyped /\ ProcessesTyped /\ PendingTyped /\ PendingInOrder /\ FirstUnderWay
    /\ PlaneTyped /\ KeysMatch /\ CellsMatch /\ VersionsInOrder
    /\ CanGoOn /\ CursorCovered /\ NextCovered /\ CursorShown /\ NextShown

(***************************************************************************)
(* Numbers                                                                 *)
(***************************************************************************)

\* Every nonempty set of naturals has a least element.
LEMMA NaturalsHaveLeast ==
  ASSUME NEW S \in SUBSET Nat, S # {}
  PROVE  \E m \in S : \A n \in S : m <= n
<1>1. PICK m \in S : \A n \in S : ~ (<<n, m>> \in OpToRel(<, Nat))
  BY WFMin, NatLessThanWellFounded
<1>2. \A n \in S : ~ (n < m)
  BY <1>1 DEF OpToRel
<1>3. \A n \in S : n \in Int
  OBVIOUS
<1> QED BY <1>2, <1>3

\* Every nonempty set of naturals with a bound has a greatest element.
LEMMA BoundedHaveGreatest ==
  ASSUME NEW m \in Nat, NEW S \in SUBSET (0..m), S # {}
  PROVE  \E v \in S : \A w \in S : w <= v
<1> DEFINE above == {n \in Nat : \A w \in S : w <= n}
<1>1. m \in above
  OBVIOUS
<1>2. PICK v \in above : \A n \in above : v <= n
  <2>1. above \in SUBSET Nat /\ above # {}
    BY <1>1
  <2> HIDE DEF above
  <2> QED BY <2>1, NaturalsHaveLeast
<1>3. v \in S
  <2> SUFFICES ASSUME v \notin S PROVE FALSE
    OBVIOUS
  <2>1. \A w \in S : w < v
    BY <1>2
  <2>2. v # 0
    <3>1. PICK w : w \in S
      OBVIOUS
    <3>2. v \in Nat /\ w \in Nat /\ w < v
      BY <2>1, <3>1
    <3> QED BY <3>1, <3>2
  <2>3. v - 1 \in above
    BY <1>2, <2>1, <2>2
  <2> QED BY <1>2, <2>3
<1> QED BY <1>2, <1>3

\* Induction over the numbers up to m, for a set.
LEMMA UpTo ==
  ASSUME NEW m \in Nat, NEW S, 0 \in S, \A n \in 1..m : n - 1 \in S => n \in S
  PROVE  \A n \in 0..m : n \in S
<1> DEFINE rest == {n \in 0..m : n \notin S}
<1> SUFFICES ASSUME rest # {} PROVE FALSE
  OBVIOUS
<1>1. rest \in SUBSET Nat
  OBVIOUS
<1>2. PICK n \in rest : \A k \in rest : n <= k
  <2> HIDE DEF rest
  <2> QED BY <1>1, NaturalsHaveLeast
<1>3. n \in 1..m
  BY <1>2
<1>4. n - 1 \in 0..m /\ ~ (n <= n - 1)
  BY <1>3
<1>5. n - 1 \in S
  BY <1>2, <1>4
<1> QED BY <1>2, <1>3, <1>5

(***************************************************************************)
(* The history of the cluster                                              *)
(***************************************************************************)

Greatest(S) == IF S = {} THEN 0 ELSE CHOOSE v \in S : \A w \in S : w <= v

\* Latest is the newest version up to a point, 0 if there is none.
LEMMA LatestIs ==
  ASSUME NEW o, NEW k \in Nat
  PROVE  /\ Latest(o, k) \in 0..k
         /\ Latest(o, k) # 0 => Latest(o, k) \in Versions(o, k)
         /\ \A w \in Versions(o, k) : w <= Latest(o, k)
<1>1. Versions(o, k) \in SUBSET (0..k)
  BY DEF Versions
<1>2. CASE Versions(o, k) = {}
  BY <1>2 DEF Latest
<1>3. CASE Versions(o, k) # {}
  <2>1. \E v \in Versions(o, k) : \A w \in Versions(o, k) : w <= v
    BY <1>1, <1>3, BoundedHaveGreatest
  <2>2. Latest(o, k) \in Versions(o, k) /\ \A w \in Versions(o, k) : w <= Latest(o, k)
    BY <1>3, <2>1 DEF Latest
  <2> QED BY <1>1, <2>2
<1> QED BY <1>2, <1>3

\* The newest version up to a later point is the same, or lies between the two.
LEMMA LatestGrows ==
  ASSUME NEW o, NEW k \in Nat, NEW m \in Nat, k <= m
  PROVE  /\ Latest(o, k) <= Latest(o, m)
         /\ Latest(o, m) <= k => Latest(o, m) = Latest(o, k)
<1>1. \A v \in Nat : v \in Versions(o, k) <=> v \in Versions(o, m) /\ v <= k
  BY DEF Versions
<1>2. /\ Latest(o, k) \in Nat /\ Latest(o, m) \in Nat
      /\ Latest(o, k) # 0 => Latest(o, k) \in Versions(o, k)
      /\ Latest(o, m) # 0 => Latest(o, m) \in Versions(o, m)
      /\ \A w \in Versions(o, k) : w <= Latest(o, k)
      /\ \A w \in Versions(o, m) : w <= Latest(o, m)
  BY LatestIs
<1>3. Latest(o, k) <= Latest(o, m)
  BY <1>1, <1>2
<1>4. Latest(o, m) <= k => Latest(o, m) <= Latest(o, k)
  BY <1>1, <1>2
<1> QED BY <1>2, <1>3, <1>4

\* What a scan of the history up to n collects of a set of versions.
Scan(f, versions, n) ==
    f = [v \in 0..n |->
            IF v = 0 THEN <<>> ELSE IF v \in versions THEN Append(f[v - 1], v) ELSE f[v - 1]]

LEMMA ScanExists ==
  ASSUME NEW versions, NEW n \in Nat
  PROVE  \E f : Scan(f, versions, n)
<1> DEFINE S == {k \in 0..n : \E f : Scan(f, versions, k)}
<1>1. 0 \in S
  <2>1. PICK f : f = [v \in 0..0 |-> <<>>]
    OBVIOUS
  <2>2. Scan(f, versions, 0)
    BY <2>1 DEF Scan
  <2> QED BY <2>2
<1>2. ASSUME NEW k \in 1..n, k - 1 \in S PROVE k \in S
  <2>1. PICK f : Scan(f, versions, k - 1)
    BY <1>2
  <2>2. PICK g : g = [v \in 0..k |->
                         IF v <= k - 1 THEN f[v]
                         ELSE IF v \in versions THEN Append(f[v - 1], v) ELSE f[v - 1]]
    OBVIOUS
  <2>3. ASSUME NEW v \in 0..k
        PROVE  g[v] = IF v = 0 THEN <<>>
                      ELSE IF v \in versions THEN Append(g[v - 1], v) ELSE g[v - 1]
    <3>1. \A w \in 0..k - 1 : g[w] = f[w]
      BY <2>2
    <3>2. CASE v <= k - 1
      <4>1. v \in 0..k - 1 /\ (v # 0 => v - 1 \in 0..k - 1)
        BY <3>2
      <4>2. f[v] = IF v = 0 THEN <<>>
                   ELSE IF v \in versions THEN Append(f[v - 1], v) ELSE f[v - 1]
        BY <2>1, <4>1 DEF Scan
      <4> QED BY <3>1, <4>1, <4>2
    <3>3. CASE v = k
      <4>1. k - 1 \in 0..k - 1 /\ ~ (k <= k - 1) /\ k # 0 /\ k \in 0..k
        OBVIOUS
      <4>2. g[k] = IF k \in versions THEN Append(f[k - 1], k) ELSE f[k - 1]
        BY <2>2, <4>1
      <4> QED BY <3>1, <3>3, <4>1, <4>2
    <3> QED BY <3>2, <3>3
  <2>4. Scan(g, versions, k)
    BY <2>2, <2>3 DEF Scan
  <2> QED BY <2>4
<1>3. \A k \in 0..n : k \in S
  <2>1. \A k \in 1..n : k - 1 \in S => k \in S
    BY <1>2
  <2> HIDE DEF S
  <2> QED BY <1>1, <2>1, UpTo
<1> QED BY <1>3

\* s lists a set of versions, each once and in order.
Lists(s, versions) ==
    /\ s \in Seq(versions)
    /\ \A v \in versions : \E i \in DOMAIN s : s[i] = v
    /\ \A i, j \in DOMAIN s : i < j => s[i] < s[j]

LEMMA ScanLists ==
  ASSUME NEW n \in Nat, NEW versions \in SUBSET (1..n), NEW f, Scan(f, versions, n)
  PROVE  Lists(f[n], versions)
<1> DEFINE upTo(k) == {v \in versions : v <= k}
           S == {k \in 0..n : Lists(f[k], upTo(k))}
<1>0. \A v \in versions : v \in Nat /\ 1 <= v /\ v <= n
  OBVIOUS
<1>1. 0 \in S
  <2>1. f[0] = <<>>
    BY DEF Scan
  <2>2. upTo(0) = {}
    <3>1. \A v \in versions : ~ (v <= 0)
      BY <1>0
    <3> QED BY <3>1
  <2>3. Lists(<<>>, {})
    BY DEF Lists
  <2>4. 0 \in 0..n
    OBVIOUS
  <2> HIDE DEF upTo
  <2> QED BY <2>1, <2>2, <2>3, <2>4
<1>2. ASSUME NEW k \in 1..n, k - 1 \in S PROVE k \in S
  <2>1. /\ f[k - 1] \in Seq(upTo(k - 1))
        /\ \A v \in upTo(k - 1) : \E i \in DOMAIN f[k - 1] : f[k - 1][i] = v
        /\ \A i, j \in DOMAIN f[k - 1] : i < j => f[k - 1][i] < f[k - 1][j]
    BY <1>2 DEF Lists
  <2>2. f[k] = IF k \in versions THEN Append(f[k - 1], k) ELSE f[k - 1]
    <3>1. k \in 0..n /\ k # 0
      OBVIOUS
    <3> QED BY <3>1 DEF Scan
  <2>3. CASE k \notin versions
    <3>1. upTo(k) = upTo(k - 1)
      <4>1. \A v \in versions : v <= k <=> v <= k - 1
        BY <1>0, <2>3
      <4> QED BY <4>1
    <3> QED BY <1>2, <2>2, <2>3, <3>1
  <2>4. CASE k \in versions
    <3>1. upTo(k) = upTo(k - 1) \cup {k} /\ \A v \in upTo(k - 1) : v < k
      <4>1. \A v \in versions : v <= k <=> v <= k - 1 \/ v = k
        BY <1>0
      <4>2. \A v \in versions : v <= k - 1 => v < k
        BY <1>0
      <4> QED BY <2>4, <4>1, <4>2
    <3>2. PICK s : s = f[k - 1]
      OBVIOUS
    <3>3. PICK t : t = Append(s, k)
      OBVIOUS
    <3> DEFINE A == upTo(k - 1) B == upTo(k)
    <3>4. /\ s \in Seq(A) /\ \A v \in A : \E i \in DOMAIN s : s[i] = v
          /\ \A i, j \in DOMAIN s : i < j => s[i] < s[j]
      BY <2>1, <3>2
    <3>5. B = A \cup {k} /\ \A v \in A : v < k
      BY <3>1
    <3> HIDE DEF A, B, upTo
    <3>6. s \in Seq(B)
      BY <3>4, <3>5, SeqMonotonic
    <3>7. t \in Seq(B) /\ DOMAIN t = 1..Len(s) + 1 /\ DOMAIN s = 1..Len(s) /\ Len(s) \in Nat
      BY <3>3, <3>5, <3>6
    <3>8. \A i \in 1..Len(s) : t[i] = s[i] /\ s[i] \in A
      BY <3>3, <3>4, <3>6
    <3>9. t[Len(s) + 1] = k
      BY <3>3, <3>6
    <3>10. \A v \in B : \E i \in DOMAIN t : t[i] = v
      <4> SUFFICES ASSUME NEW v \in B PROVE \E i \in DOMAIN t : t[i] = v
        OBVIOUS
      <4>1. CASE v \in A
        <5>1. PICK i \in DOMAIN s : s[i] = v
          BY <3>4, <4>1
        <5> QED BY <3>7, <3>8, <5>1
      <4>2. CASE v = k
        BY <3>7, <3>9, <4>2
      <4> QED BY <3>5, <4>1, <4>2
    <3>11. \A i, j \in DOMAIN t : i < j => t[i] < t[j]
      <4> SUFFICES ASSUME NEW i \in DOMAIN t, NEW j \in DOMAIN t, i < j PROVE t[i] < t[j]
        OBVIOUS
      <4>1. i \in 1..Len(s) /\ (j \in 1..Len(s) \/ j = Len(s) + 1)
        BY <3>7
      <4> QED BY <3>4, <3>5, <3>7, <3>8, <3>9, <4>1
    <3>12. Lists(t, B)
      BY <3>7, <3>10, <3>11 DEF Lists
    <3>13. f[k] = t
      BY <2>2, <2>4, <3>2, <3>3
    <3> QED BY <3>12, <3>13 DEF B
  <2> QED BY <2>3, <2>4
<1>3. n \in S
  <2>1. \A k \in 1..n : k - 1 \in S => k \in S
    BY <1>2
  <2> HIDE DEF S
  <2>2. \A k \in 0..n : k \in S
    BY <1>1, <2>1, UpTo
  <2> QED BY <2>2
<1>4. upTo(n) = versions
  BY <1>0
<1> QED BY <1>3, <1>4

\* What InOrder gives.
LEMMA InOrderLists ==
  ASSUME Len(cluster) \in Nat, NEW versions \in SUBSET (1..Len(cluster))
  PROVE  Lists(InOrder(versions), versions)
<1>1. PICK n \in Nat : n = Len(cluster)
  OBVIOUS
<1> DEFINE f == CHOOSE f : Scan(f, versions, n)
<1>2. Scan(f, versions, n)
  BY ScanExists, <1>1
<1>3. InOrder(versions) = f[n]
  BY <1>1, Zenon DEF InOrder, Scan
<1> HIDE DEF f
<1> QED BY <1>1, <1>2, <1>3, ScanLists

(***************************************************************************)
(* The calls of an observation                                             *)
(***************************************************************************)
Operations == {"upsert", "get", "create", "publish", "conclude"}

LEMMA SlotsDiffer ==
  /\ \A o, x \in Objects : MainSlot(o) = MainSlot(x) => o = x
  /\ \A o \in Objects : Len(MainSlot(o)) = 2 /\ MainSlot(o)[2] = o
  /\ \A o \in Objects : MainSlot(o)[1] \in {"node.health", "instance.ready"}
  /\ \A o \in Objects : MainSlot(o) \in Slots
  BY DEF MainSlot, Health, Ready, Slots

\* What a poller writes: never as the Kubernetes process, and on the health or
\* readiness of an object never with its authority.
PollerWrites(a, call) ==
    /\ call.op \in Operations
    /\ call.op \in {"upsert", "create"} => call.life \in {a} \X Lives
    /\ call.op \in {"publish", "conclude"} =>
          \A u \in call.updates :
             u.key[1] = a /\ \A o \in Objects : u.slot = MainSlot(o) => u.authority \in 0..3

LEMMA EntityCalls ==
  ASSUME NEW a, NEW ref, NEW life \in Lives
  PROVE  /\ PollerWrites(a, Upsert(a, ref, life)) /\ PollerWrites(a, Ask(ref))
         /\ PollerWrites(a, Create(a, ref)) /\ Create(a, ref).life \in {a} \X Lives
<1>1. "unset" \in Lives
  BY DEF Lives
<1>2. PollerWrites(a, Upsert(a, ref, life))
  BY DEF PollerWrites, Upsert, Operations
<1>3. PollerWrites(a, Ask(ref))
  BY DEF PollerWrites, Ask, Operations
<1>4. Create(a, ref).op = "create" /\ Create(a, ref).life = <<a, "unset">>
  BY DEF Create
<1>5. Create(a, ref).life \in {a} \X Lives
  BY <1>1, <1>4
<1>6. PollerWrites(a, Create(a, ref))
  BY <1>4, <1>5 DEF PollerWrites, Operations
<1> QED BY <1>2, <1>3, <1>5, <1>6

LEMMA PollerCalls ==
  ASSUME NEW a \in Sources, NEW ob, NEW k \in 1..CallCount(a, ob)
  PROVE  Len(Calls(a, ob)) = CallCount(a, ob) /\ PollerWrites(a, Calls(a, ob)[k])
<1>1. CASE a = "runtime"
  <2>1. Calls(a, ob) = RuntimeCalls(ob)
    BY <1>1 DEF Calls
  <2>2. Len(RuntimeCalls(ob)) = 8 /\ CallCount(a, ob) = 8
    BY <1>1 DEF RuntimeCalls, CallCount
  <2>3. k \in {1, 2, 3, 4, 5, 6, 7, 8}
    BY <2>2
  <2>4. ASSUME k \in {1, 2, 3, 4, 5, 6} PROVE PollerWrites(a, Calls(a, ob)[k])
    <3>1. \A j \in {1, 2, 3, 4, 5, 6} : PollerWrites("runtime", RuntimeCalls(ob)[j])
      <4>1. "ready" \in Lives
        BY DEF Lives
      <4>2. PICK call : call = RuntimeCalls(ob)
        OBVIOUS
      <4>3. /\ call[1] = Ask("descriptor") /\ call[2] = Create("runtime", "descriptor")
            /\ call[3] = Upsert("runtime", RuntimeOf[ob.of], "ready")
            /\ call[4] = Upsert("runtime", ob.of, "ready")
            /\ call[5] = Ask(NodeOf[ob.of]) /\ call[6] = Create("runtime", NodeOf[ob.of])
        BY <4>2 DEF RuntimeCalls
      <4>4. \A ref : /\ PollerWrites("runtime", Ask(ref))
                      /\ PollerWrites("runtime", Create("runtime", ref))
                      /\ PollerWrites("runtime", Upsert("runtime", ref, "ready"))
        BY <4>1, EntityCalls
      <4> QED BY <4>2, <4>3, <4>4
    <3> QED BY <1>1, <2>1, <2>4, <3>1
  <2>5. ASSUME k = 7 PROVE PollerWrites(a, Calls(a, ob)[k])
    <3> DEFINE p == ob.of
               depth == StateOf("runtime", ob, <<"runtime.queue_depth", RuntimeOf[p]>>, ob.id[1], 2)
               ready == StateOf("runtime", ob, Ready(p), "healthy", 3)
    <3>1. RuntimeCalls(ob)[7] = Publish({depth, ready})
      BY DEF RuntimeCalls
    <3>2. /\ depth.key[1] = "runtime" /\ depth.slot[1] = "runtime.queue_depth"
          /\ ready.key[1] = "runtime" /\ ready.authority = 3
      BY DEF StateOf, Update
    <3> HIDE DEF depth, ready
    <3> QED BY <1>1, <2>1, <2>5, <3>1, <3>2, SlotsDiffer DEF PollerWrites, Publish, Operations
  <2>6. ASSUME k = 8 PROVE PollerWrites(a, Calls(a, ob)[k])
    <3> DEFINE p == ob.of
               first == RelationOf("runtime", ob, DeployedOn(p), 3)
               second == RelationOf("runtime", ob, Placed(NodeOf[p], p), 3)
    <3>1. RuntimeCalls(ob)[8] = Conclude({first, second}, ob.id)
      BY DEF RuntimeCalls
    <3>2. /\ first.key[1] = "runtime" /\ first.authority = 3
          /\ second.key[1] = "runtime" /\ second.authority = 3
      BY DEF RelationOf, Update
    <3> HIDE DEF first, second
    <3> QED BY <1>1, <2>1, <2>6, <3>1, <3>2 DEF PollerWrites, Conclude, Operations
  <2> QED BY <2>1, <2>2, <2>3, <2>4, <2>5, <2>6
<1>2. CASE a = "dcgm"
  <2>1. Calls(a, ob) = DCGMCalls(ob)
    BY <1>2 DEF Calls
  <2>2. Len(DCGMCalls(ob)) = 5 /\ CallCount(a, ob) = 5
    BY <1>2 DEF DCGMCalls, CallCount
  <2>3. k \in {1, 2, 3, 4, 5}
    BY <2>2
  <2>4. ASSUME k \in {1, 2, 3} PROVE PollerWrites(a, Calls(a, ob)[k])
    <3>1. \A j \in {1, 2, 3} : PollerWrites("dcgm", DCGMCalls(ob)[j])
      <4>1. {"unset", "healthy", "degraded"} \subseteq Lives
        BY DEF Lives
      <4> QED BY <4>1, EntityCalls DEF DCGMCalls
    <3> QED BY <1>2, <2>1, <2>4, <3>1
  <2>5. ASSUME k = 4 PROVE PollerWrites(a, Calls(a, ob)[k])
    <3> DEFINE used == StateOf("dcgm", ob, <<"resource.hbm.used", "gpu">>, ob.id[1], 2)
               health == StateOf("dcgm", ob, Health(ob.of), ob.id[1], 2)
    <3>1. DCGMCalls(ob)[4] = Publish({used, health})
      BY DEF DCGMCalls
    <3>2. used.key[1] = "dcgm" /\ used.authority = 2 /\ health.key[1] = "dcgm" /\ health.authority = 2
      BY DEF StateOf, Update
    <3> HIDE DEF used, health
    <3> QED BY <1>2, <2>1, <2>5, <3>1, <3>2 DEF PollerWrites, Publish, Operations
  <2>6. ASSUME k = 5 PROVE PollerWrites(a, Calls(a, ob)[k])
    <3> DEFINE placed == RelationOf("dcgm", ob, Placed(ob.of, "gpu"), 2)
    <3>1. DCGMCalls(ob)[5] = Conclude({placed}, ob.id)
      BY DEF DCGMCalls
    <3>2. placed.key[1] = "dcgm" /\ placed.authority = 2
      BY DEF RelationOf, Update
    <3> HIDE DEF placed
    <3> QED BY <1>2, <2>1, <2>6, <3>1, <3>2 DEF PollerWrites, Conclude, Operations
  <2> QED BY <2>1, <2>2, <2>3, <2>4, <2>5, <2>6
<1>3. CASE a = "kv"
  <2>1. Calls(a, ob) = KVCalls(ob)
    BY <1>3 DEF Calls
  <2>2. Len(KVCalls(ob)) = 5 /\ CallCount(a, ob) = 5
    BY <1>3 DEF KVCalls, CallCount
  <2>3. k \in {1, 2, 3, 4, 5}
    BY <2>2
  <2>4. ASSUME k \in {1, 2, 3} PROVE PollerWrites(a, Calls(a, ob)[k])
    <3>1. \A j \in {1, 2, 3} : PollerWrites("kv", KVCalls(ob)[j])
      <4>1. {"unset", "active"} \subseteq Lives
        BY DEF Lives
      <4> QED BY <4>1, EntityCalls DEF KVCalls
    <3> QED BY <1>3, <2>1, <2>4, <3>1
  <2>5. ASSUME k = 4 PROVE PollerWrites(a, Calls(a, ob)[k])
    <3> DEFINE size == StateOf("kv", ob, <<"kv.size", "kv">>, ob.id[1], 4)
    <3>1. KVCalls(ob)[4] = Publish({size})
      BY DEF KVCalls
    <3>2. size.key[1] = "kv" /\ size.slot[1] = "kv.size"
      BY DEF StateOf, Update
    <3> HIDE DEF size
    <3> QED BY <1>3, <2>1, <2>5, <3>1, <3>2, SlotsDiffer DEF PollerWrites, Publish, Operations
  <2>6. ASSUME k = 5 PROVE PollerWrites(a, Calls(a, ob)[k])
    <3> DEFINE located == RelationOf("kv", ob, <<"located_on", "kv", "gpu">>, 4)
    <3>1. KVCalls(ob)[5] = Conclude({located}, ob.id)
      BY DEF KVCalls
    <3>2. located.key[1] = "kv" /\ located.slot[1] = "located_on"
      BY DEF RelationOf, Update
    <3> HIDE DEF located
    <3> QED BY <1>3, <2>1, <2>6, <3>1, <3>2, SlotsDiffer DEF PollerWrites, Conclude, Operations
  <2> QED BY <2>1, <2>2, <2>3, <2>4, <2>5, <2>6
<1> QED BY <1>1, <1>2, <1>3 DEF Sources

\* What the Kubernetes process writes of an object, besides what it says of it.
Report(ob) == StateOf("k8s", ob, MainSlot(ob.of), ShownValue(VersionIn(ob)), 4)

KubernetesWrites(ob, k, call) ==
    /\ call.op \in Operations
    /\ k = UpsertOf(ob.of) =>
          call.op = "upsert" /\ call.ref = ob.of /\ call.life = <<"k8s", ShownLife(VersionIn(ob))>>
    /\ k = PublishOf(ob.of) => call.op = "publish" /\ call.updates = {Report(ob)}
    /\ k \notin {UpsertOf(ob.of), PublishOf(ob.of)} =>
          /\ call.op # "publish"
          /\ call.op \in {"upsert", "create"} =>
                call.ref \notin Pods /\ call.ref # ob.of /\ call.life \in {"k8s"} \X Lives
          /\ call.op = "conclude" =>
                \A u \in call.updates :
                   u.key[3] = u.slot /\ \A o \in Objects : u.slot # MainSlot(o)

LEMMA KubernetesCallsAre ==
  ASSUME NEW ob, ob.of \in Objects
  PROVE  /\ Len(Calls("k8s", ob)) = PublishOf(ob.of) + 1
         /\ \A k \in 1..PublishOf(ob.of) + 1 : KubernetesWrites(ob, k, Calls("k8s", ob)[k])
<1> DEFINE o == ob.of
           v == VersionIn(ob)
           node == IF o \in Nodes THEN o ELSE NodeOf[o]
           inCluster == RelationOf("k8s", ob, Placed("cluster", node), 4)
           placed == RelationOf("k8s", ob, Placed(node, o), 4)
           deployed == RelationOf("k8s", ob, DeployedOn(o), 4)
<1>1. Calls("k8s", ob) = KubernetesCalls(ob)
  BY DEF Calls
<1>2. \A u \in {inCluster, placed, deployed} :
         u.key[3] = u.slot /\ \A x \in Objects : u.slot # MainSlot(x)
  <2>1. /\ inCluster.key[3] = inCluster.slot /\ inCluster.slot[1] = "contains"
        /\ placed.key[3] = placed.slot /\ placed.slot[1] = "contains"
        /\ deployed.key[3] = deployed.slot /\ deployed.slot[1] = "deployed_on"
    BY DEF RelationOf, Update, Placed, DeployedOn
  <2> HIDE DEF inCluster, placed, deployed
  <2> QED BY <2>1, SlotsDiffer
<1>3. ShownLife(v) \in Lives
  BY DEF ShownLife, Lives
<1>4. CASE o \in Nodes
  <2>1. KubernetesCalls(ob) =
          <<Upsert("k8s", o, ShownLife(v)), Publish({Report(ob)}), Conclude({inCluster}, ob.id)>>
    BY <1>4 DEF KubernetesCalls, Report
  <2>2. UpsertOf(o) = 1 /\ PublishOf(o) = 2
    BY <1>4 DEF UpsertOf, PublishOf
  <2> HIDE DEF inCluster
  <2>3. KubernetesWrites(ob, 1, Upsert("k8s", o, ShownLife(v)))
    BY <2>2 DEF KubernetesWrites, Upsert, Operations
  <2>4. KubernetesWrites(ob, 2, Publish({Report(ob)}))
    BY <2>2 DEF KubernetesWrites, Publish, Operations
  <2>5. KubernetesWrites(ob, 3, Conclude({inCluster}, ob.id))
    BY <1>2, <2>2 DEF KubernetesWrites, Conclude, Operations
  <2> QED BY <1>1, <2>1, <2>2, <2>3, <2>4, <2>5
<1>5. CASE o \notin Nodes
  <2> DEFINE life == IF cluster[v].deleted THEN "deleted" ELSE "ready"
  <2>1. KubernetesCalls(ob) =
          <<Upsert("k8s", NodeOf[o], life), Upsert("k8s", o, ShownLife(v)), Ask(RuntimeOf[o]),
            Create("k8s", RuntimeOf[o]), Publish({Report(ob)}),
            Conclude({inCluster, placed, deployed}, ob.id)>>
    BY <1>5 DEF KubernetesCalls, Report
  <2>2. UpsertOf(o) = 2 /\ PublishOf(o) = 5 /\ life \in Lives /\ o \in Pods
    BY <1>5 DEF UpsertOf, PublishOf, Lives, Objects
  <2>3. /\ NodeOf[o] \notin Pods /\ NodeOf[o] # o
        /\ RuntimeOf[o] \notin Pods /\ RuntimeOf[o] # o
    BY <2>2, NodesAndPods, OtherNames DEF Objects
  <2> HIDE DEF inCluster, placed, deployed, life
  <2>4. KubernetesWrites(ob, 1, Upsert("k8s", NodeOf[o], life))
    BY <2>2, <2>3 DEF KubernetesWrites, Upsert, Operations
  <2>5. KubernetesWrites(ob, 2, Upsert("k8s", o, ShownLife(v)))
    BY <2>2 DEF KubernetesWrites, Upsert, Operations
  <2>6. KubernetesWrites(ob, 3, Ask(RuntimeOf[o]))
    BY <2>2 DEF KubernetesWrites, Ask, Operations
  <2>7. KubernetesWrites(ob, 4, Create("k8s", RuntimeOf[o]))
    <3>1. Create("k8s", RuntimeOf[o]).life \in {"k8s"} \X Lives
      BY <2>2, EntityCalls
    <3>2. Create("k8s", RuntimeOf[o]).op = "create" /\ Create("k8s", RuntimeOf[o]).ref = RuntimeOf[o]
      BY DEF Create
    <3> QED BY <2>2, <2>3, <3>1, <3>2 DEF KubernetesWrites, Operations
  <2>8. KubernetesWrites(ob, 5, Publish({Report(ob)}))
    BY <2>2 DEF KubernetesWrites, Publish, Operations
  <2>9. KubernetesWrites(ob, 6, Conclude({inCluster, placed, deployed}, ob.id))
    BY <1>2, <2>2 DEF KubernetesWrites, Conclude, Operations
  <2> QED BY <1>1, <2>1, <2>2, <2>4, <2>5, <2>6, <2>7, <2>8, <2>9
<1> QED BY <1>4, <1>5

(***************************************************************************)
(* Steps that leave what the Kubernetes process has done alone             *)
(***************************************************************************)

\* Whatever other processes, the clock or a compaction may do.
Quiet ==
    /\ UNCHANGED <<cluster, cursor, next, listed, stage, applied>>
    /\ Pending' = Pending /\ done'["k8s"] = done["k8s"]
    /\ compacted' \in Nat /\ compacted <= compacted' /\ now' \in Nat /\ now <= now'
    /\ ProcessesTyped'
    /\ entities' \in [Refs -> {Absent} \cup (Adapters \X Lives)]
    /\ \A o \in Objects : entities'[o] = entities[o] \/ entities'[o] \in Pollers \X Lives
    /\ \A o \in Objects : \A v \in Nat :
          <<"k8s", <<o, v>>, MainSlot(o)>> \in idempotency' <=>
             <<"k8s", <<o, v>>, MainSlot(o)>> \in idempotency
    /\ \A o \in Objects :
          \/ cells'[MainSlot(o)] = cells[MainSlot(o)]
          \/ cells'[MainSlot(o)].authority \in 0..3

LEMMA HistoryStays ==
  ASSUME cluster' = cluster
  PROVE  /\ \A o, k : Versions(o, k)' = Versions(o, k)
         /\ \A o, k : Latest(o, k)' = Latest(o, k)
         /\ \A v : ShownValue(v)' = ShownValue(v) /\ ShownLife(v)' = ShownLife(v)
  BY DEF Versions, Latest, ShownValue, ShownLife

LEMMA AppliedStays ==
  ASSUME applied' = applied
  PROVE  \A o, v : /\ Applied(o, v)' = Applied(o, v) /\ Reached(o, v)' = Reached(o, v)
                   /\ Fits(o, v)' = Fits(o, v) /\ Newest(o)' = Newest(o)
  BY DEF Applied, Reached, Fits, Newest

LEMMA PendingIsSeq ==
  ASSUME ProcessesTyped
  PROVE  /\ Pending \in Seq(Observations) /\ Len(Pending) \in Nat /\ DOMAIN Pending = 1..Len(Pending)
         /\ Pending # <<>> => 1 \in DOMAIN Pending /\ Head(Pending) = Pending[1]
<1>1. Pending \in Seq(Observations)
  BY DEF ProcessesTyped, Pending, Adapters
<1> HIDE DEF Pending
<1> QED BY <1>1

LEMMA QuietKeeps ==
  ASSUME AdapterInv, Quiet
  PROVE  AdapterInv'
<1> USE DEF Quiet
<1>1. /\ \A o, k : Versions(o, k)' = Versions(o, k)
      /\ \A o, k : Latest(o, k)' = Latest(o, k)
      /\ \A v : ShownValue(v)' = ShownValue(v) /\ ShownLife(v)' = ShownLife(v)
  BY HistoryStays
<1>2. \A o, v : /\ Applied(o, v)' = Applied(o, v) /\ Reached(o, v)' = Reached(o, v)
                /\ Fits(o, v)' = Fits(o, v) /\ Newest(o)' = Newest(o)
  BY AppliedStays
<1>3. SourcesTyped'
  BY DEF AdapterInv, SourcesTyped
<1>4. PendingTyped'
  <2> SUFFICES ASSUME NEW i \in DOMAIN Pending
               PROVE  LET o == Pending[i].of v == VersionIn(Pending[i]) IN
                      /\ o \in Objects /\ v \in Versions(o, Len(cluster)) /\ Pending[i].id = <<o, v>>
                      /\ Pending[i].at \in 0..now'
                      /\ v <= next[KindOf(o)] /\ Latest(o, cursor[KindOf(o)]) <= v
    BY <1>1 DEF PendingTyped, VersionIn
  <2>1. now \in Nat
    BY DEF AdapterInv, SourcesTyped
  <2> QED BY <2>1 DEF AdapterInv, PendingTyped
<1>5. PendingInOrder'
  BY DEF AdapterInv, PendingInOrder, VersionIn
<1>6. FirstUnderWay'
  <2>1. ASSUME NEW o \in Objects, entities[o] # Absent PROVE entities'[o] # Absent
    BY <2>1, AbsentIsNoLife, KnownPollers DEF Sources
  <2>2. Pending # <<>> => Pending[1].of \in Objects
    <3>1. Pending # <<>> => 1 \in DOMAIN Pending
      BY PendingIsSeq DEF AdapterInv
    <3> QED BY <3>1 DEF AdapterInv, PendingTyped
  <2> QED BY <1>2, <2>1, <2>2 DEF AdapterInv, FirstUnderWay, VersionIn, UpsertOf, PublishOf
<1>7. PlaneTyped'
  BY <1>1 DEF AdapterInv, PlaneTyped
<1>8. KeysMatch'
  <2>1. \A o : Versions(o, Len(cluster)) \subseteq Nat
    BY DEF Versions
  <2> QED BY <1>1, <1>2, <2>1 DEF AdapterInv, KeysMatch
<1>9. CellsMatch'
  <2> SUFFICES ASSUME NEW o \in Objects, cells'[MainSlot(o)] # Absent
               PROVE  /\ cells'[MainSlot(o)].authority \in Authorities
                      /\ cells'[MainSlot(o)].authority = 4 =>
                            /\ applied[o] # <<>> /\ cells'[MainSlot(o)].value = ShownValue(Newest(o))
                            /\ cells'[MainSlot(o)].timestamp \in 0..now'
                            /\ \A i \in DOMAIN Pending : cells'[MainSlot(o)].timestamp <= Pending[i].at
    BY <1>1, <1>2 DEF CellsMatch, MainSlot, Health, Ready
  <2>1. CASE cells'[MainSlot(o)] = cells[MainSlot(o)]
    <3>1. now \in Nat
      BY DEF AdapterInv, SourcesTyped
    <3> QED BY <2>1, <3>1 DEF AdapterInv, CellsMatch
  <2>2. CASE cells'[MainSlot(o)].authority \in 0..3
    BY <2>2 DEF Authorities
  <2> QED BY <2>1, <2>2
<1>10. VersionsInOrder'
  BY DEF AdapterInv, VersionsInOrder
<1>11. CanGoOn'
  <2>1. Stale => Stale'
    BY DEF Stale, Expired, Initialized, AdapterInv, SourcesTyped, Kinds
  <2>2. Expired("pods") => Expired("pods")'
    BY DEF Expired, AdapterInv, SourcesTyped, Kinds
  <2>3. Resumable' = Resumable
    BY <1>1, <1>2 DEF Resumable, GapFree, NoneSkipped, VersionIn
  <2>4. AllFit' = AllFit
    BY <1>2 DEF AllFit, VersionIn
  <2>5. \A kind \in Kinds : GapFree(kind, next[kind])' = GapFree(kind, next[kind])
    BY <1>1, <1>2 DEF GapFree
  <2>6. Initialized' = Initialized
    BY DEF Initialized
  <2> QED BY <2>1, <2>2, <2>3, <2>4, <2>5, <2>6 DEF AdapterInv, CanGoOn
<1>12. \A o : /\ Known(o, cursor)' = Known(o, cursor) /\ Known(o, next)' = Known(o, next)
  BY <1>1 DEF Known, Lost
<1>13. CursorCovered'
  BY <1>1, <1>2, <1>12 DEF AdapterInv, CursorCovered
<1>14. NextCovered'
  BY <1>1, <1>2, <1>12 DEF AdapterInv, NextCovered, VersionIn
<1>15. ASSUME NEW p \in Pods, NEW v, Shows(p, v) PROVE Shows(p, v)'
  <2>1. CASE entities'[p] = entities[p]
    BY <1>1, <1>15, <2>1 DEF Shows
  <2>2. CASE entities'[p] \in Pollers \X Lives
    <3>1. entities'[p][1] # "k8s"
      BY <2>2, KnownPollers DEF Sources
    <3> QED BY <3>1 DEF Shows
  <2> QED BY <2>1, <2>2 DEF Objects
<1>16. CursorShown'
  BY <1>1, <1>12, <1>15 DEF AdapterInv, CursorShown
<1>17. NextShown'
  <2>1. \A p : ToUpsert(p)' = ToUpsert(p)
    BY DEF ToUpsert
  <2> QED BY <1>1, <1>12, <1>15, <2>1 DEF AdapterInv, NextShown, VersionIn
<1> QED BY <1>3, <1>4, <1>5, <1>6, <1>7, <1>8, <1>9, <1>10, <1>11, <1>13, <1>14, <1>16, <1>17
        DEF AdapterInv, Quiet

LEMMA EnvironmentIsQuiet ==
  ASSUME AdapterInv, Compact \/ Tick
  PROVE  Quiet
<1>1. /\ Len(cluster) \in Nat /\ compacted \in Nat /\ now \in Nat
      /\ entities \in [Refs -> {Absent} \cup (Adapters \X Lives)]
  BY DEF AdapterInv, SourcesTyped, PlaneTyped
<1>2. UNCHANGED <<cluster, watchVars, processVars, planeVars>>
  BY DEF Compact, Tick, clusterVars
<1>3. compacted' \in Nat /\ compacted <= compacted' /\ now' \in Nat /\ now <= now'
  <2>1. CASE Compact
    BY <1>1, <2>1 DEF Compact
  <2>2. CASE Tick
    BY <1>1, <2>2 DEF Tick, clusterVars
  <2> QED BY <2>1, <2>2
<1>4. ProcessesTyped'
  BY <1>2 DEF AdapterInv, ProcessesTyped, processVars
<1> QED BY <1>1, <1>2, <1>3, <1>4 DEF Quiet, watchVars, processVars, planeVars, Pending

\* What holds of a poller's step, whatever it does.
LEMMA PollersAreAlone ==
  ASSUME AdapterInv, NEW a \in Pollers
  PROVE  /\ a \in Adapters /\ a \in Sources /\ a # "k8s" /\ "k8s" \in Adapters
         /\ todo[a] \in Seq(Observations) /\ done[a] \in Nat
         /\ todo[a] = <<>> => done[a] = 0
         /\ todo[a] # <<>> => done[a] < CallCount(a, todo[a][1])
  BY KnownPollers DEF Sources, Adapters, AdapterInv, ProcessesTyped

LEMMA RaisingIsQuiet ==
  ASSUME AdapterInv, NEW a \in Pollers, Raise(a)
  PROVE  Quiet
<1>1. /\ Len(cluster) \in Nat /\ compacted \in Nat /\ now \in Nat
      /\ entities \in [Refs -> {Absent} \cup (Adapters \X Lives)]
  BY DEF AdapterInv, SourcesTyped, PlaneTyped
<1>2. /\ UNCHANGED <<clusterVars, now, watchVars, planeVars>>
      /\ todo' = [todo EXCEPT ![a] = <<>>] /\ done' = [done EXCEPT ![a] = 0]
  BY PollersAreAlone DEF Raise, watchVars
<1>3. ProcessesTyped'
  BY <1>2, PollersAreAlone DEF AdapterInv, ProcessesTyped
<1>4. todo'["k8s"] = todo["k8s"] /\ done'["k8s"] = done["k8s"]
  BY <1>2, PollersAreAlone DEF AdapterInv, ProcessesTyped
<1> QED BY <1>1, <1>2, <1>3, <1>4 DEF Quiet, watchVars, planeVars, clusterVars, Pending

LEMMA PollingIsQuiet ==
  ASSUME AdapterInv, NEW a \in Pollers, Poll(a)
  PROVE  Quiet
<1>1. /\ Len(cluster) \in Nat /\ compacted \in Nat /\ now \in Nat
      /\ entities \in [Refs -> {Absent} \cup (Adapters \X Lives)]
  BY DEF AdapterInv, SourcesTyped, PlaneTyped
<1>a. PICK window \in Windows : \E ob \in Polled(a, window) : todo' = [todo EXCEPT ![a] = <<ob>>]
  BY DEF Poll
<1>2. PICK ob \in Polled(a, window) : todo' = [todo EXCEPT ![a] = <<ob>>]
  BY <1>a
<1>3. UNCHANGED <<clusterVars, now, watchVars, done, planeVars>> /\ todo[a] = <<>>
  BY DEF Poll, Idle
<1>4. ob \in Observations
  <2>1. PICK of \in Objects \cup {"kv"} : ob = [of |-> of, id |-> <<window, 0>>, at |-> now]
    BY <1>2, PollersAreAlone DEF Polled, Observation, Sources, Objects
  <2> QED BY <1>1, <2>1 DEF Observations
<1>5. ProcessesTyped'
  <2>1. todo' \in [Adapters -> Seq(Observations)]
    BY <1>2, <1>4, PollersAreAlone DEF AdapterInv, ProcessesTyped
  <2>2. done' \in [Adapters -> Nat]
    BY <1>3 DEF AdapterInv, ProcessesTyped
  <2>3. todo'[a] = <<ob>> /\ todo'[a] # <<>> /\ \A b \in Adapters \ {a} : todo'[b] = todo[b]
    BY <1>2, PollersAreAlone DEF AdapterInv, ProcessesTyped
  <2>4. done'[a] < CallCount(a, todo'[a][1])
    BY <1>3, PollersAreAlone DEF CallCount
  <2> QED BY <1>3, <2>1, <2>2, <2>3, <2>4 DEF AdapterInv, ProcessesTyped
<1>6. todo'["k8s"] = todo["k8s"]
  BY <1>2, PollersAreAlone DEF AdapterInv, ProcessesTyped
<1> QED BY <1>1, <1>3, <1>5, <1>6 DEF Quiet, watchVars, planeVars, clusterVars, Pending

\* After a call a process has one call more behind it, or the next observation ahead.
LEMMA CallsProceed ==
  ASSUME ProcessesTyped, NEW a \in Adapters, todo[a] # <<>>,
         NEW isLast \in BOOLEAN, isLast <=> done[a] + 1 = CallCount(a, todo[a][1]),
         done' = [done EXCEPT ![a] = IF isLast THEN 0 ELSE @ + 1],
         todo' = [todo EXCEPT ![a] = IF isLast THEN Tail(@) ELSE @]
  PROVE  ProcessesTyped'
<1>1. PICK s \in Seq(Observations) : s = todo[a]
  BY DEF ProcessesTyped
<1>2. s # <<>> /\ done[a] \in Nat /\ done[a] < CallCount(a, s[1])
  BY <1>1 DEF ProcessesTyped
<1>3. PICK t \in Seq(Observations) : t = IF isLast THEN Tail(s) ELSE s
  <2>1. Tail(s) \in Seq(Observations)
    BY <1>2
  <2> QED BY <2>1
<1>4. /\ todo'[a] = t /\ todo' \in [Adapters -> Seq(Observations)]
      /\ \A b \in Adapters \ {a} : todo'[b] = todo[b] /\ done'[b] = done[b]
  BY <1>1, <1>3 DEF ProcessesTyped
<1>5. done'[a] = IF isLast THEN 0 ELSE done[a] + 1
  BY DEF ProcessesTyped
<1>6. done' \in [Adapters -> Nat]
  BY <1>2, <1>5 DEF ProcessesTyped
<1>7. ASSUME NEW ob PROVE CallCount(a, ob) \in Nat /\ CallCount(a, ob) > 0
  BY DEF CallCount, PublishOf
<1>8. IF t = <<>> THEN done'[a] = 0 ELSE done'[a] < CallCount(a, t[1])
  <2>1. CASE isLast
    BY <1>5, <1>7, <2>1
  <2>2. CASE ~ isLast
    <3>1. t = s
      BY <1>3, <2>2
    <3>2. PICK n \in Nat : n = CallCount(a, s[1])
      BY <1>7
    <3>3. done[a] + 1 < n
      BY <1>1, <1>2, <2>2, <3>2
    <3> QED BY <1>2, <1>5, <2>2, <3>1, <3>2, <3>3
  <2> QED BY <2>1, <2>2
<1> QED BY <1>4, <1>6, <1>8 DEF ProcessesTyped

LEMMA CallingIsQuiet ==
  ASSUME AdapterInv, NEW a \in Pollers, Call(a)
  PROVE  Quiet
<1>1. /\ Len(cluster) \in Nat /\ compacted \in Nat /\ now \in Nat
      /\ entities \in [Refs -> {Absent} \cup (Adapters \X Lives)]
      /\ applied \in [Objects -> Seq(Nat)] /\ Objects \subseteq Refs
  BY DEF AdapterInv, SourcesTyped, PlaneTyped, Refs
<1>2. PICK ob : ob = todo[a][1]
  OBVIOUS
<1>3. todo[a] # <<>> /\ Head(todo[a]) = ob
  BY <1>2, PollersAreAlone DEF Call, Idle
<1>4. PICK k \in 1..CallCount(a, ob) : k = done[a] + 1
  <2>1. done[a] \in Nat /\ done[a] < CallCount(a, ob) /\ CallCount(a, ob) \in Nat
    BY <1>2, <1>3, PollersAreAlone DEF CallCount
  <2> QED BY <2>1
<1>5. PICK call : call = Calls(a, ob)[k]
  OBVIOUS
<1>6. Len(Calls(a, ob)) = CallCount(a, ob) /\ PollerWrites(a, call)
  BY <1>5, PollerCalls, PollersAreAlone
<1>7. PICK isLast \in BOOLEAN : isLast <=> k = CallCount(a, ob)
  OBVIOUS
<1>8. /\ UNCHANGED <<clusterVars, now, watchVars>>
      /\ \/ call.op \in {"upsert", "create"} /\ entities' = [entities EXCEPT ![call.ref] = call.life]
            /\ UNCHANGED <<cells, idempotency, applied>>
         \/ UNCHANGED planeVars
         \/ /\ call.op \in {"publish", "conclude"} /\ UNCHANGED entities
            /\ FillCells(Admitted(call.updates)) /\ NoteApplied(Admitted(call.updates))
            /\ idempotency' = idempotency \cup {u.key : u \in Admitted(call.updates)}
      /\ done' = [done EXCEPT ![a] = IF isLast THEN 0 ELSE @ + 1]
      /\ todo' = [todo EXCEPT ![a] = IF isLast THEN Tail(@) ELSE @]
  <2>1. call = Calls(a, Head(todo[a]))[done[a] + 1]
    BY <1>3, <1>4, <1>5
  <2>2. isLast <=> done[a] + 1 = Len(Calls(a, Head(todo[a])))
    BY <1>3, <1>4, <1>6, <1>7
  <2> QED BY <2>1, <2>2 DEF Call, planeVars
<1>9. ProcessesTyped'
  <2>1. isLast <=> done[a] + 1 = CallCount(a, todo[a][1])
    BY <1>2, <1>4, <1>7
  <2> QED BY <1>3, <1>8, <2>1, CallsProceed, PollersAreAlone DEF AdapterInv
<1>10. todo'["k8s"] = todo["k8s"] /\ done'["k8s"] = done["k8s"]
  BY <1>8, PollersAreAlone DEF AdapterInv, ProcessesTyped
<1>11. /\ entities' \in [Refs -> {Absent} \cup (Adapters \X Lives)]
       /\ \A o \in Objects : entities'[o] = entities[o] \/ entities'[o] \in Pollers \X Lives
  <2>1. CASE call.op \in {"upsert", "create"} /\ entities' = [entities EXCEPT ![call.ref] = call.life]
    <3>1. PICK life \in Pollers \X Lives : life = call.life
      BY <1>6, <2>1 DEF PollerWrites
    <3>2. life \in Adapters \X Lives
      BY DEF Adapters
    <3> QED BY <1>1, <2>1, <3>1, <3>2
  <2>2. CASE UNCHANGED entities
    BY <1>1, <2>2
  <2> QED BY <1>8, <2>1, <2>2 DEF planeVars
<1>12. /\ UNCHANGED applied
       /\ \A o \in Objects : \A v \in Nat :
             <<"k8s", <<o, v>>, MainSlot(o)>> \in idempotency' <=>
                <<"k8s", <<o, v>>, MainSlot(o)>> \in idempotency
       /\ \A o \in Objects :
             \/ cells'[MainSlot(o)] = cells[MainSlot(o)]
             \/ cells'[MainSlot(o)].authority \in 0..3
  <2>1. CASE UNCHANGED <<cells, idempotency, applied>>
    BY <2>1
  <2>2. CASE /\ call.op \in {"publish", "conclude"}
             /\ FillCells(Admitted(call.updates)) /\ NoteApplied(Admitted(call.updates))
             /\ idempotency' = idempotency \cup {u.key : u \in Admitted(call.updates)}
    <3>1. PICK A : A = Admitted(call.updates)
      OBVIOUS
    <3>2. \A u \in A : u.key[1] = a /\ u.key[1] # "k8s"
      BY <1>6, <2>2, <3>1, PollersAreAlone DEF PollerWrites, Admitted
    <3>3. \A u \in A : \A o \in Objects : u.slot = MainSlot(o) => u.authority \in 0..3
      BY <1>6, <2>2, <3>1 DEF PollerWrites, Admitted
    <3>4. applied' = applied
      <4>1. \A o \in Objects : ~ \E u \in A : Says(u, o)
        BY <3>2 DEF Says
      <4>2. applied' = [o \in Objects |-> applied[o]]
        BY <2>2, <3>1, <4>1 DEF NoteApplied
      <4> QED BY <1>1, <4>2
    <3>5. ASSUME NEW o \in Objects, NEW v \in Nat
          PROVE  <<"k8s", <<o, v>>, MainSlot(o)>> \in idempotency' <=>
                    <<"k8s", <<o, v>>, MainSlot(o)>> \in idempotency
      <4>1. PICK key : key = <<"k8s", <<o, v>>, MainSlot(o)>>
        OBVIOUS
      <4>2. key[1] = "k8s"
        BY <4>1
      <4>3. key \in idempotency' <=> key \in idempotency
        BY <2>2, <3>1, <3>2, <4>2
      <4>4. MainSlot(o)' = MainSlot(o)
        BY DEF MainSlot, Health, Ready
      <4> QED BY <4>1, <4>3, <4>4
    <3>6. ASSUME NEW o \in Objects
          PROVE  \/ cells'[MainSlot(o)] = cells[MainSlot(o)]
                 \/ cells'[MainSlot(o)].authority \in 0..3
      <4>1. PICK slot \in Slots : slot = MainSlot(o)
        BY SlotsDiffer
      <4>2. cells'[slot] = IF \E u \in A : u.slot = slot
                           THEN Filled(CHOOSE u \in A : u.slot = slot, cells[slot])
                           ELSE cells[slot]
        BY <2>2, <3>1 DEF FillCells
      <4>3. CASE \E u \in A : u.slot = slot
        <5>1. PICK u \in A : u.slot = slot /\ cells'[slot] = Filled(u, cells[slot])
          BY <4>2, <4>3
        <5>2. cells'[slot].authority = u.authority
          BY <5>1 DEF Filled
        <5> QED BY <3>3, <4>1, <5>1, <5>2
      <4> QED BY <4>1, <4>2, <4>3
    <3> QED BY <3>4, <3>5, <3>6
  <2> QED BY <1>8, <2>1, <2>2 DEF planeVars
<1> QED BY <1>1, <1>8, <1>9, <1>10, <1>11, <1>12 DEF Quiet, watchVars, clusterVars, Pending

(***************************************************************************)
(* A change of the cluster                                                 *)
(***************************************************************************)
LEMMA ChangeKeeps ==
  ASSUME AdapterInv, NEW change \in Changes, ChangeCluster(change)
  PROVE  AdapterInv'
<1>1. PICK n \in Nat : n = Len(cluster) /\ n # 0
  BY DEF AdapterInv, SourcesTyped
<1>2. /\ cluster' \in Seq(Change) /\ Len(cluster') = n + 1 /\ cluster' # <<>>
      /\ \A v \in 1..n : cluster'[v] = cluster[v]
  <2>1. PICK s \in Seq(Change) : s = cluster
    BY DEF AdapterInv, SourcesTyped
  <2>2. change \in Change /\ cluster' = Append(s, change)
    BY <2>1, ClusterHistory DEF ChangeCluster
  <2> QED BY <1>1, <2>1, <2>2
<1>3. UNCHANGED <<compacted, now, watchVars, processVars, planeVars>> /\ stage # "publish"
  BY DEF ChangeCluster, Observed
<1>4. \A o : \A k \in 0..n : Versions(o, k)' = Versions(o, k)
  BY <1>2 DEF Versions
<1>5. \A o : \A k \in 0..n : Latest(o, k)' = Latest(o, k)
  <2> SUFFICES ASSUME NEW o, NEW k \in 0..n PROVE Latest(o, k)' = Latest(o, k)
    OBVIOUS
  <2>1. Latest(o, k) = Greatest(Versions(o, k)) /\ Latest(o, k)' = Greatest(Versions(o, k)')
    BY DEF Latest, Greatest
  <2> QED BY <1>4, <2>1
<1>6. \A v \in 1..n : ShownValue(v)' = ShownValue(v) /\ ShownLife(v)' = ShownLife(v)
  BY <1>2 DEF ShownValue, ShownLife
<1>7. \A o : /\ Versions(o, Len(cluster)) \subseteq Versions(o, Len(cluster))'
             /\ Versions(o, Len(cluster))' \subseteq Versions(o, Len(cluster)) \cup {n + 1}
             /\ Versions(o, Len(cluster)) \subseteq 1..n
  BY <1>1, <1>2 DEF Versions
<1>8. \A o, v : /\ Applied(o, v)' = Applied(o, v) /\ Reached(o, v)' = Reached(o, v)
                /\ Fits(o, v)' = Fits(o, v) /\ Newest(o)' = Newest(o)
  BY <1>3, AppliedStays DEF planeVars
<1>9. SourcesTyped'
  BY <1>1, <1>2, <1>3 DEF AdapterInv, SourcesTyped, watchVars, processVars, Pending
<1>10. ProcessesTyped'
  BY <1>3 DEF AdapterInv, ProcessesTyped, processVars
<1>11. \A kind \in Kinds : cursor[kind] \in 0..n /\ next[kind] \in 0..n
  BY <1>1 DEF AdapterInv, SourcesTyped
<1>12. \A o : KindOf(o) \in Kinds
  BY DEF KindOf, Kinds
<1>13. PendingTyped'
  <2> SUFFICES ASSUME NEW i \in DOMAIN Pending, NEW o, o = Pending[i].of,
                      NEW v, v = VersionIn(Pending[i])
               PROVE  /\ o \in Objects /\ v \in Versions(o, Len(cluster))' /\ Pending[i].id = <<o, v>>
                      /\ Pending[i].at \in 0..now
                      /\ v <= next[KindOf(o)] /\ Latest(o, cursor[KindOf(o)])' <= v
    BY <1>3 DEF PendingTyped, VersionIn, processVars, Pending, watchVars
  <2>1. UNCHANGED cursor
    BY <1>3 DEF watchVars
  <2>2. \A x : Latest(x, cursor[KindOf(x)])' = Latest(x, cursor[KindOf(x)])
    BY <1>5, <1>11, <1>12, <2>1
  <2>4. /\ o \in Objects /\ v \in Versions(o, Len(cluster)) /\ Pending[i].id = <<o, v>>
        /\ Pending[i].at \in 0..now
        /\ v <= next[KindOf(o)] /\ Latest(o, cursor[KindOf(o)]) <= v
    BY DEF AdapterInv, PendingTyped
  <2>5. v \in Versions(o, Len(cluster))'
    BY <1>7, <2>4
  <2>6. Latest(o, cursor[KindOf(o)])' <= v
    BY <2>2, <2>4
  <2> QED BY <2>4, <2>5, <2>6
<1>14. PendingInOrder'
  BY <1>3 DEF AdapterInv, PendingInOrder, VersionIn, processVars, Pending
<1>15. FirstUnderWay'
  BY <1>3, <1>8 DEF AdapterInv, FirstUnderWay, VersionIn, UpsertOf, PublishOf, processVars, Pending, planeVars
<1>16. PlaneTyped'
  BY <1>3, <1>7 DEF AdapterInv, PlaneTyped, planeVars
<1>17. KeysMatch'
  BY <1>3, <1>8 DEF AdapterInv, KeysMatch, planeVars
<1>18. CellsMatch'
  <2> SUFFICES ASSUME NEW o \in Objects, cells[MainSlot(o)] # Absent, cells[MainSlot(o)].authority = 4
               PROVE  cells[MainSlot(o)].value = ShownValue(Newest(o))'
    BY <1>3, <1>8 DEF AdapterInv, CellsMatch, planeVars, processVars, Pending, MainSlot, Health, Ready
  <2>1. applied[o] # <<>> /\ cells[MainSlot(o)].value = ShownValue(Newest(o))
    BY DEF AdapterInv, CellsMatch
  <2>2. Newest(o) \in 1..n
    <3>1. PICK s \in Seq(Nat) : s = applied[o]
      BY DEF AdapterInv, PlaneTyped
    <3>2. Len(s) \in DOMAIN s
      BY <2>1, <3>1
    <3>3. s[Len(s)] \in Versions(o, Len(cluster))
      BY <3>1, <3>2 DEF AdapterInv, PlaneTyped
    <3> QED BY <1>7, <3>1, <3>3 DEF Newest
  <2>3. PICK v \in 1..n : v = Newest(o)
    BY <2>2
  <2>4. Newest(o)' = v
    BY <1>8, <2>3
  <2>5. ShownValue(Newest(o))' = ShownValue(v)'
    BY <2>4 DEF ShownValue
  <2> QED BY <1>6, <2>1, <2>3, <2>5
<1>19. VersionsInOrder'
  BY <1>3 DEF AdapterInv, VersionsInOrder, planeVars
<1>20. ASSUME NEW o \in Objects, NEW v \in Versions(o, Len(cluster))', v \notin Versions(o, Len(cluster))
       PROVE  Fits(o, v)
  <2>1. v = n + 1
    BY <1>7, <1>20
  <2>2. \A i \in DOMAIN applied[o] : applied[o][i] \in 1..n
    BY <1>7 DEF AdapterInv, PlaneTyped
  <2> QED BY <2>1, <2>2 DEF Fits
<1>21. CanGoOn'
  <2>1. Stale' = Stale /\ Expired("pods")' = Expired("pods") /\ Initialized' = Initialized
    BY <1>3 DEF Stale, Expired, Initialized, watchVars
  <2>2. ASSUME NEW kind \in Kinds, NEW from \in Nat, GapFree(kind, from) PROVE GapFree(kind, from)'
    BY <1>8, <1>20, <2>2 DEF GapFree
  <2>3. (\A kind \in Kinds : GapFree(kind, cursor[kind])) => (\A kind \in Kinds : GapFree(kind, cursor[kind])')
    <3>1. UNCHANGED cursor
      BY <1>3 DEF watchVars
    <3> QED BY <1>8, <1>20, <3>1 DEF GapFree
  <2>4. NoneSkipped => NoneSkipped'
    <3>1. \A i \in DOMAIN Pending : VersionIn(Pending[i]) \in 1..n
      BY <1>7 DEF AdapterInv, PendingTyped
    <3>2. UNCHANGED <<cursor, Pending>>
      BY <1>3 DEF watchVars, processVars, Pending
    <3> SUFFICES ASSUME NoneSkipped, NEW i \in DOMAIN Pending, NEW o, o = Pending[i].of,
                        NEW v \in Versions(o, Len(cluster))',
                        cursor[KindOf(o)] < v, v < VersionIn(Pending[i])
                 PROVE  \/ Applied(o, v)
                        \/ \E j \in 1..i - 1 : Pending[j].of = o /\ VersionIn(Pending[j]) = v
      BY <1>8, <3>2 DEF NoneSkipped, VersionIn
    <3>3. v \in Versions(o, Len(cluster))
      <4>1. PICK w \in 1..n : w = VersionIn(Pending[i])
        BY <3>1
      <4>2. v # n + 1
        BY <4>1
      <4> QED BY <1>7, <4>2
    <3> QED BY <3>3 DEF NoneSkipped
  <2>5. AllFit' = AllFit
    BY <1>3, <1>8 DEF AllFit, VersionIn, processVars, Pending
  <2>6. \A kind \in Kinds : GapFree(kind, next[kind]) => GapFree(kind, next[kind])'
    <3>1. UNCHANGED next
      BY <1>3 DEF watchVars
    <3> QED BY <1>8, <1>20, <3>1 DEF GapFree
  <2>7. UNCHANGED <<stage, next>>
    BY <1>3 DEF watchVars
  <2>8. Resumable => Resumable'
    BY <2>3, <2>4 DEF Resumable
  <2> QED BY <2>1, <2>5, <2>6, <2>7, <2>8 DEF AdapterInv, CanGoOn
<1>22. ASSUME NEW o \in Objects
       PROVE  /\ Latest(o, cursor[KindOf(o)])' = Latest(o, cursor[KindOf(o)])
              /\ Latest(o, next[KindOf(o)])' = Latest(o, next[KindOf(o)])
              /\ Known(o, cursor)' = Known(o, cursor) /\ Known(o, next)' = Known(o, next)
  <2>1. UNCHANGED <<cursor, next, listed>>
    BY <1>3 DEF watchVars
  <2>2. /\ Latest(o, cursor[KindOf(o)])' = Latest(o, cursor[KindOf(o)])
        /\ Latest(o, next[KindOf(o)])' = Latest(o, next[KindOf(o)])
    BY <1>5, <1>11, <1>12, <2>1
  <2>3. Latest(o, cursor[KindOf(o)]) \in 0..n /\ Latest(o, next[KindOf(o)]) \in 0..n
    BY <1>11, <1>12, LatestIs
  <2>4. \A v \in 1..n : Lost(v)' = Lost(v)
    BY <1>2, <2>1 DEF Lost
  <2>5. PICK v \in 0..n, w \in 0..n : v = Latest(o, cursor[KindOf(o)]) /\ w = Latest(o, next[KindOf(o)])
    BY <2>3
  <2>6. Known(o, cursor) = (v # 0 /\ ~ Lost(v)) /\ Known(o, cursor)' = (v # 0 /\ ~ Lost(v)')
    BY <2>2, <2>5 DEF Known, Lost
  <2>7. Known(o, next) = (w # 0 /\ ~ Lost(w)) /\ Known(o, next)' = (w # 0 /\ ~ Lost(w)')
    BY <2>2, <2>5 DEF Known, Lost
  <2> QED BY <2>2, <2>4, <2>6, <2>7
<1>23. CursorCovered'
  BY <1>8, <1>22 DEF AdapterInv, CursorCovered
<1>24. NextCovered'
  <2>1. UNCHANGED Pending
    BY <1>3 DEF processVars, Pending
  <2> QED BY <1>8, <1>22, <2>1 DEF AdapterInv, NextCovered, VersionIn
<1>25. ASSUME NEW p \in Pods, NEW v, Shows(p, v) PROVE Shows(p, v)'
  <2>1. UNCHANGED entities
    BY <1>3 DEF planeVars
  <2> SUFFICES ASSUME entities[p][1] = "k8s"
               PROVE  \E w \in Versions(p, Len(cluster))' : w >= v /\ entities[p][2] = ShownLife(w)'
    BY <2>1 DEF Shows
  <2>2. PICK w \in Versions(p, Len(cluster)) : w >= v /\ entities[p][2] = ShownLife(w)
    BY <1>25 DEF Shows
  <2> QED BY <1>6, <1>7, <2>2
<1>26. CursorShown'
  BY <1>22, <1>25 DEF AdapterInv, CursorShown, Objects
<1>27. NextShown'
  <2>1. UNCHANGED <<Pending, done>>
    BY <1>3 DEF processVars, Pending
  <2>2. \A p : ToUpsert(p)' = ToUpsert(p)
    BY <2>1 DEF ToUpsert
  <2> QED BY <1>22, <1>25, <2>1, <2>2 DEF AdapterInv, NextShown, VersionIn, Objects
<1> QED BY <1>9, <1>10, <1>13, <1>14, <1>15, <1>16, <1>17, <1>18, <1>19, <1>21, <1>23, <1>24, <1>26,
           <1>27 DEF AdapterInv

(***************************************************************************)
(* Steps of a collection before anything is published, or after            *)
(***************************************************************************)
Fetching ==
    /\ UNCHANGED <<cluster, compacted, now, planeVars>>
    /\ done'["k8s"] = 0 /\ ProcessesTyped'
    /\ \A i \in DOMAIN Pending' :
          Pending'[i].at = now \/ \E j \in DOMAIN Pending : Pending'[i].at = Pending[j].at

\* What such a step does not disturb.
LEMMA FetchingKeeps ==
  ASSUME AdapterInv, Fetching
  PROVE  /\ \A o, k : Versions(o, k)' = Versions(o, k)
         /\ \A o, k : Latest(o, k)' = Latest(o, k)
         /\ \A o, v : /\ Applied(o, v)' = Applied(o, v) /\ Reached(o, v)' = Reached(o, v)
                      /\ Fits(o, v)' = Fits(o, v)
         /\ \A p, v : Shows(p, v)' = Shows(p, v)
         /\ \A kind, from : GapFree(kind, from)' = GapFree(kind, from)
         /\ \A p : ToUpsert(p)' = {i \in DOMAIN Pending' : Pending'[i].of = p}
         /\ FirstUnderWay' /\ PlaneTyped' /\ KeysMatch' /\ CellsMatch' /\ VersionsInOrder'
<1> USE DEF Fetching
<1>1. /\ \A o, k : Versions(o, k)' = Versions(o, k)
      /\ \A o, k : Latest(o, k)' = Latest(o, k)
      /\ \A v : ShownValue(v)' = ShownValue(v) /\ ShownLife(v)' = ShownLife(v)
  BY HistoryStays
<1>2. \A o, v : /\ Applied(o, v)' = Applied(o, v) /\ Reached(o, v)' = Reached(o, v)
                /\ Fits(o, v)' = Fits(o, v) /\ Newest(o)' = Newest(o)
  BY AppliedStays DEF planeVars
<1>3. UNCHANGED <<entities, cells, idempotency, applied>>
  BY DEF planeVars
<1>4. \A p, v : Shows(p, v)' = Shows(p, v)
  BY <1>1, <1>3 DEF Shows
<1>5. \A kind, from : GapFree(kind, from)' = GapFree(kind, from)
  BY <1>1, <1>2 DEF GapFree
<1>6. \A p : ToUpsert(p)' = {i \in DOMAIN Pending' : Pending'[i].of = p}
  BY DEF ToUpsert
<1>7. FirstUnderWay'
  BY DEF FirstUnderWay, UpsertOf, PublishOf
<1>8. PlaneTyped'
  BY <1>1, <1>3 DEF AdapterInv, PlaneTyped
<1>9. KeysMatch'
  BY <1>2, <1>3 DEF AdapterInv, KeysMatch
<1>10. CellsMatch'
  <2> SUFFICES ASSUME NEW o \in Objects, cells[MainSlot(o)] # Absent
               PROVE  /\ cells[MainSlot(o)].authority \in Authorities
                      /\ cells[MainSlot(o)].authority = 4 =>
                            /\ applied[o] # <<>> /\ cells[MainSlot(o)].value = ShownValue(Newest(o))
                            /\ cells[MainSlot(o)].timestamp \in 0..now
                            /\ \A i \in DOMAIN Pending' : cells[MainSlot(o)].timestamp <= Pending'[i].at
    BY <1>1, <1>2, <1>3 DEF CellsMatch, MainSlot, Health, Ready
  <2>1. now \in Nat
    BY DEF AdapterInv, SourcesTyped
  <2> QED BY <2>1 DEF AdapterInv, CellsMatch
<1>11. VersionsInOrder'
  BY <1>3 DEF AdapterInv, VersionsInOrder
<1> QED BY <1>1, <1>2, <1>4, <1>5, <1>6, <1>7, <1>8, <1>9, <1>10, <1>11

\* A failure leaves the cursor where it was and forgets what was ahead.
LEMMA RaiseKeeps ==
  ASSUME AdapterInv, Raise("k8s")
  PROVE  AdapterInv'
<1>1. /\ UNCHANGED <<cluster, compacted, now, planeVars, cursor, listed>>
      /\ stage' = "idle" /\ next' = NoVersions
      /\ todo' = [todo EXCEPT !["k8s"] = <<>>] /\ done' = [done EXCEPT !["k8s"] = 0]
  BY DEF Raise, clusterVars
<1>2. Pending' = <<>> /\ done'["k8s"] = 0
  BY <1>1 DEF AdapterInv, ProcessesTyped, Adapters, Pending
<1>3. ProcessesTyped'
  BY <1>1 DEF AdapterInv, ProcessesTyped, Adapters
<1>4. DOMAIN Pending' = {}
  BY <1>2
<1>5. Fetching
  BY <1>1, <1>2, <1>3, <1>4 DEF Fetching
<1>6. SourcesTyped'
  <2>1. 0 \in 0..Len(cluster)
    BY DEF AdapterInv, SourcesTyped
  <2> QED BY <1>1, <1>2, <2>1 DEF AdapterInv, SourcesTyped, Stages, NoVersions
<1>7. PendingTyped' /\ PendingInOrder'
  BY <1>4 DEF PendingTyped, PendingInOrder
<1>8. CanGoOn'
  <2>1. (\A kind \in Kinds : GapFree(kind, cursor[kind])) =>
           (\A kind \in Kinds : GapFree(kind, cursor[kind])')
    BY <1>1, <1>5, FetchingKeeps
  <2>2. NoneSkipped'
    BY <1>4 DEF NoneSkipped
  <2>3. Stale' = Stale
    BY <1>1 DEF Stale, Initialized, Expired
  <2> QED BY <1>1, <2>1, <2>2, <2>3 DEF AdapterInv, CanGoOn, Resumable
<1>9. \A o : Known(o, cursor)' = Known(o, cursor)
  <2>1. \A v : Lost(v)' = Lost(v)
    BY <1>1 DEF Lost
  <2> QED BY <1>1, <1>5, <2>1, FetchingKeeps DEF Known, Lost
<1>10. CursorCovered' /\ CursorShown'
  BY <1>1, <1>5, <1>9, FetchingKeeps DEF AdapterInv, CursorCovered, CursorShown
<1>11. \A o : ~ Known(o, next)'
  <2>1. \A o : Latest(o, 0) = 0
    BY LatestIs
  <2>2. \A o : KindOf(o) \in Kinds
    BY DEF KindOf, Kinds
  <2>3. \A o : Latest(o, next[KindOf(o)])' = 0
    BY <1>1, <1>5, <2>1, <2>2, FetchingKeeps DEF NoVersions
  <2> QED BY <2>3 DEF Known
<1>12. NextCovered' /\ NextShown'
  BY <1>11 DEF NextCovered, NextShown
<1> QED BY <1>3, <1>5, <1>6, <1>7, <1>8, <1>10, <1>12, FetchingKeeps DEF AdapterInv

\* After the last observation the cursor covers what the fetch covered.
LEMMA MoveKeeps ==
  ASSUME AdapterInv, MoveCursor
  PROVE  AdapterInv'
<1>1. /\ UNCHANGED <<cluster, compacted, now, planeVars, listed, todo, done>>
      /\ stage = "publish" /\ stage' = "idle" /\ next' = NoVersions /\ cursor' = next
      /\ Pending = <<>>
  BY DEF MoveCursor, clusterVars, processVars, Idle, Pending
<1>2. Pending' = <<>> /\ done'["k8s"] = 0
  BY <1>1 DEF AdapterInv, ProcessesTyped, Adapters, Pending
<1>3. ProcessesTyped'
  BY <1>1 DEF AdapterInv, ProcessesTyped
<1>4. DOMAIN Pending' = {} /\ DOMAIN Pending = {}
  BY <1>1, <1>2
<1>5. Fetching
  BY <1>1, <1>2, <1>3, <1>4 DEF Fetching
<1>6. SourcesTyped'
  <2>1. 0 \in 0..Len(cluster)
    BY DEF AdapterInv, SourcesTyped
  <2> QED BY <1>1, <1>2, <2>1 DEF AdapterInv, SourcesTyped, Stages, NoVersions
<1>7. PendingTyped' /\ PendingInOrder'
  BY <1>4 DEF PendingTyped, PendingInOrder
<1>8. CanGoOn'
  <2>1. \A kind \in Kinds : GapFree(kind, next[kind])
    BY <1>1 DEF AdapterInv, CanGoOn, Kinds
  <2>2. \A kind \in Kinds : GapFree(kind, cursor[kind])'
    BY <1>1, <1>5, <2>1, FetchingKeeps
  <2>3. NoneSkipped'
    BY <1>4 DEF NoneSkipped
  <2> QED BY <1>1, <2>2, <2>3 DEF CanGoOn, Resumable
<1>9. \A o : Known(o, cursor)' = Known(o, next)
  <2>1. \A v : Lost(v)' = Lost(v)
    BY <1>1 DEF Lost
  <2> QED BY <1>1, <1>5, <2>1, FetchingKeeps DEF Known, Lost
<1>10. CursorCovered'
  BY <1>1, <1>4, <1>5, <1>9, FetchingKeeps DEF AdapterInv, NextCovered, CursorCovered
<1>11. CursorShown'
  <2>1. \A p : ToUpsert(p) = {}
    BY <1>4 DEF ToUpsert
  <2> QED BY <1>1, <1>5, <1>9, <2>1, FetchingKeeps DEF AdapterInv, NextShown, CursorShown
<1>12. \A o : ~ Known(o, next)'
  <2>1. \A o : Latest(o, 0) = 0
    BY LatestIs
  <2>2. \A o : KindOf(o) \in Kinds
    BY DEF KindOf, Kinds
  <2>3. \A o : Latest(o, next[KindOf(o)])' = 0
    BY <1>1, <1>5, <2>1, <2>2, FetchingKeeps DEF NoVersions
  <2> QED BY <2>3 DEF Known
<1>13. NextCovered' /\ NextShown'
  BY <1>12 DEF NextCovered, NextShown
<1> QED BY <1>3, <1>5, <1>6, <1>7, <1>8, <1>10, <1>11, <1>13, FetchingKeeps DEF AdapterInv

\* A fetch of one kind up to version upTo that brings these versions.
Batch(kind, versions, upTo) ==
    /\ kind \in Kinds /\ versions \subseteq 1..Len(cluster)
    /\ upTo \in 1..Len(cluster) /\ cursor[kind] <= upTo
    /\ \A v \in versions : /\ KindOf(cluster[v].object) = kind /\ v <= upTo
                           /\ Latest(cluster[v].object, cursor[kind]) <= v
    /\ stage \in IF kind = "nodes" THEN {"idle", "list"} ELSE {"watch", "relist"}
    /\ stage' \in IF kind = "nodes" THEN {"watch", "relist"} ELSE {"publish"}
    /\ next' = [next EXCEPT ![kind] = upTo]
    /\ \E earlier \in {Pending, Stamped(Pending)} :
          todo' = [todo EXCEPT !["k8s"] = Fetched(earlier, versions)]
    /\ UNCHANGED <<cluster, compacted, now, cursor, done, planeVars>>
    /\ listed' \in [Kinds -> Nat] /\ \A o : \A v \in Versions(o, Len(cluster)) : Lost(v) => Lost(v)'

\* It tells what the plane may not know yet.
Tells(kind, versions, upTo) ==
    \A o \in Objects : \A v \in Versions(o, upTo) :
        KindOf(o) = kind /\ v = Latest(o, upTo) /\ ~ Lost(v)' =>
            \/ v \in versions
            \/ /\ \A w \in versions : cluster[w].object # o
               /\ Reached(o, v) /\ (o \in Pods => Shows(o, v))

\* They may differ in when they were observed.
Alike(one, other) == one.of = other.of /\ one.id = other.id

\* What is ahead after a fetch: what was, then the new versions in their order.
LEMMA BatchIsAppended ==
  ASSUME AdapterInv, NEW kind, NEW versions, NEW upTo, Batch(kind, versions, upTo),
         NEW n \in Nat, n = Len(Pending)
  PROVE  /\ Pending' \in Seq(Observations)
         /\ \A i \in 1..n : i \in DOMAIN Pending' /\ Alike(Pending'[i], Pending[i])
         /\ \/ \A i \in 1..n : Pending'[i].at = Pending[i].at
            \/ \A i \in 1..n : Pending'[i].at = now
         /\ \A i \in DOMAIN Pending' :
               i \in 1..n \/ (i > n /\ \E v \in versions : Pending'[i] = Decoded(v))
         /\ \A v \in versions : \E i \in DOMAIN Pending' : i > n /\ Pending'[i] = Decoded(v)
         /\ \A i, j \in DOMAIN Pending' :
               n < i /\ i < j => VersionIn(Pending'[i]) < VersionIn(Pending'[j])
<1>0. Pending \in Seq(Observations) /\ DOMAIN Pending = 1..n
  BY PendingIsSeq DEF AdapterInv
<1>1. PICK s \in Seq(Observations) :
         /\ todo' = [todo EXCEPT !["k8s"] = Fetched(s, versions)]
         /\ Len(s) = n /\ DOMAIN s = 1..n /\ \A i \in 1..n : Alike(s[i], Pending[i])
         /\ (\A i \in 1..n : s[i].at = Pending[i].at) \/ (\A i \in 1..n : s[i].at = now)
  <2>1. PICK s \in {Pending, Stamped(Pending)} : todo' = [todo EXCEPT !["k8s"] = Fetched(s, versions)]
    BY DEF Batch
  <2>2. CASE s = Pending
    BY <1>0, <2>1, <2>2 DEF Alike
  <2>3. CASE s = Stamped(Pending)
    <3>1. ASSUME NEW i \in 1..n
          PROVE  s[i] \in Observations /\ Alike(s[i], Pending[i]) /\ s[i].at = now
      <4>1. Pending[i] \in Observations /\ s[i] = [Pending[i] EXCEPT !.at = now]
        BY <1>0, <2>3 DEF Stamped
      <4>2. now \in Nat
        BY DEF AdapterInv, SourcesTyped
      <4> QED BY <4>1, <4>2 DEF Observations, Alike
    <3>2. s = [i \in 1..n |-> s[i]]
      BY <1>0, <2>3 DEF Stamped
    <3>3. s \in Seq(Observations) /\ Len(s) = n /\ DOMAIN s = 1..n
      BY <3>1, <3>2
    <3> QED BY <2>1, <3>1, <3>3
  <2> QED BY <2>1, <2>2, <2>3
<1>2. /\ Len(cluster) \in Nat /\ cluster \in Seq(Change) /\ now \in Nat
      /\ versions \in SUBSET (1..Len(cluster))
  BY DEF AdapterInv, SourcesTyped, Batch
<1>3. PICK batch : batch = InOrder(versions)
  OBVIOUS
<1>4. Lists(batch, versions)
  BY <1>2, <1>3, InOrderLists
<1>5. batch \in Seq(versions)
  BY <1>4 DEF Lists
<1>6. PICK m \in Nat : m = Len(batch) /\ DOMAIN batch = 1..m /\ \A i \in 1..m : batch[i] \in versions
  BY <1>5
<1>7. PICK t : t = [i \in DOMAIN batch |-> Decoded(batch[i])]
  OBVIOUS
<1>8. \A v \in versions : Decoded(v) \in Observations /\ VersionIn(Decoded(v)) = v
  <2> SUFFICES ASSUME NEW v \in versions
               PROVE  Decoded(v) \in Observations /\ VersionIn(Decoded(v)) = v
    OBVIOUS
  <2>1. v \in Nat /\ v \in 1..Len(cluster)
    BY <1>2
  <2>2. cluster[v] \in Change
    BY <1>2, <2>1
  <2>3. cluster[v].object \in Objects
    BY <2>2 DEF Change
  <2> QED BY <1>2, <2>1, <2>3 DEF Decoded, Observation, Observations, VersionIn
<1>9. t \in Seq(Observations) /\ Len(t) = m /\ DOMAIN t = 1..m
  <2>1. \A i \in 1..m : t[i] \in Observations
    BY <1>5, <1>6, <1>7, <1>8
  <2> QED BY <1>6, <1>7, <2>1
<1>10. Pending' = s \o t
  <2>1. todo'["k8s"] = Fetched(s, versions)
    BY <1>1 DEF AdapterInv, ProcessesTyped, Adapters
  <2>2. Fetched(s, versions) = s \o t
    BY <1>3, <1>7 DEF Fetched
  <2> QED BY <2>1, <2>2 DEF Pending
<1>11. /\ s \o t \in Seq(Observations) /\ DOMAIN (s \o t) = 1..n + m
       /\ \A i \in 1..n : (s \o t)[i] = s[i]
       /\ \A i \in n + 1..n + m : (s \o t)[i] = t[i - n] /\ i - n \in 1..m
  <2>1. s \in Seq(Observations) /\ Len(s) = n /\ DOMAIN s = 1..n
    BY <1>1
  <2> QED BY <1>9, <2>1
<1>12. PICK p : p = s \o t
  OBVIOUS
<1>13. \A i \in n + 1..n + m : p[i] = Decoded(batch[i - n]) /\ batch[i - n] \in versions
  BY <1>5, <1>6, <1>7, <1>11, <1>12
<1>14. \A i \in 1..n : i \in 1..n + m
  OBVIOUS
<1>15. ASSUME NEW i \in 1..n + m PROVE i \in 1..n \/ (i > n /\ \E v \in versions : p[i] = Decoded(v))
  <2>1. i \in 1..n \/ i \in n + 1..n + m
    OBVIOUS
  <2> QED BY <1>13, <2>1
<1>16. ASSUME NEW v \in versions PROVE \E i \in 1..n + m : i > n /\ p[i] = Decoded(v)
  <2>1. PICK i \in 1..m : batch[i] = v
    BY <1>4, <1>6 DEF Lists
  <2>2. n + i \in n + 1..n + m /\ n + i - n = i /\ n + i \in 1..n + m /\ n + i > n
    OBVIOUS
  <2>3. p[n + i] = Decoded(v)
    BY <1>13, <2>1, <2>2
  <2> QED BY <2>2, <2>3
<1>17. ASSUME NEW i \in 1..n + m, NEW j \in 1..n + m, n < i, i < j
       PROVE  VersionIn(p[i]) < VersionIn(p[j])
  <2>1. i \in n + 1..n + m /\ j \in n + 1..n + m
    BY <1>17
  <2>2. VersionIn(p[i]) = batch[i - n] /\ VersionIn(p[j]) = batch[j - n]
    BY <1>8, <1>13, <2>1
  <2>3. PICK k \in 1..m : k = i - n
    BY <1>17, <2>1
  <2>4. PICK l \in 1..m : l = j - n
    BY <1>17, <2>1
  <2>5. k < l
    BY <1>17, <2>1, <2>3, <2>4
  <2>6. batch[k] < batch[l]
    BY <1>4, <1>6, <2>5 DEF Lists
  <2> QED BY <2>2, <2>3, <2>4, <2>6
<1>18. Pending' = p /\ DOMAIN p = 1..n + m /\ p \in Seq(Observations) /\ \A i \in 1..n : p[i] = s[i]
  BY <1>10, <1>11, <1>12
<1> QED BY <1>1, <1>14, <1>15, <1>16, <1>17, <1>18

\* What every fetch that succeeds keeps.
LEMMA BatchKeeps ==
  ASSUME AdapterInv, NEW kind, NEW versions, NEW upTo, Batch(kind, versions, upTo),
         Tells(kind, versions, upTo)
  PROVE  /\ Fetching /\ SourcesTyped' /\ ProcessesTyped' /\ PendingTyped' /\ PendingInOrder'
         /\ AllFit /\ (\A v \in versions : Fits(cluster[v].object, v)) => AllFit'
         /\ CursorCovered' /\ NextCovered' /\ CursorShown' /\ NextShown'
<1>1. PICK n \in Nat : n = Len(Pending) /\ DOMAIN Pending = 1..n
  BY PendingIsSeq DEF AdapterInv
<1>2. /\ Pending' \in Seq(Observations)
      /\ \A i \in 1..n : /\ i \in DOMAIN Pending' /\ Alike(Pending'[i], Pending[i])
                          /\ Pending'[i].of = Pending[i].of /\ Pending'[i].id = Pending[i].id
                          /\ VersionIn(Pending'[i]) = VersionIn(Pending[i])
      /\ \/ \A i \in 1..n : Pending'[i].at = Pending[i].at
         \/ \A i \in 1..n : Pending'[i].at = now
      /\ \A i \in DOMAIN Pending' :
            i \in 1..n \/ (i > n /\ \E v \in versions : Pending'[i] = Decoded(v))
      /\ \A v \in versions : \E i \in DOMAIN Pending' : i > n /\ Pending'[i] = Decoded(v)
      /\ \A i, j \in DOMAIN Pending' :
            n < i /\ i < j => VersionIn(Pending'[i]) < VersionIn(Pending'[j])
  BY <1>1, BatchIsAppended DEF Alike, VersionIn
<1>3. PICK len \in Nat : len = Len(cluster) /\ len # 0
  BY DEF AdapterInv, SourcesTyped
<1>4. /\ cluster \in Seq(Change) /\ now \in Nat
      /\ cursor \in [Kinds -> 0..len] /\ next \in [Kinds -> 0..len]
      /\ stage # "publish" /\ done["k8s"] = 0
      /\ UNCHANGED <<cluster, compacted, now, cursor, done, planeVars>>
      /\ kind \in Kinds /\ next' = [next EXCEPT ![kind] = upTo]
      /\ versions \subseteq 1..len /\ upTo \in 1..len /\ cursor[kind] <= upTo
  BY <1>3 DEF AdapterInv, SourcesTyped, Batch
<1>5. ASSUME NEW v \in versions
      PROVE  /\ v \in 1..len /\ cluster[v].object \in Objects /\ KindOf(cluster[v].object) = kind
             /\ v \in Versions(cluster[v].object, len)
             /\ Decoded(v).of = cluster[v].object /\ VersionIn(Decoded(v)) = v
             /\ Decoded(v).id = <<cluster[v].object, v>> /\ Decoded(v).at = now
             /\ v <= upTo /\ Latest(cluster[v].object, cursor[kind]) <= v
  <2>1. v \in 1..len
    BY <1>4
  <2>2. cluster[v] \in Change
    BY <1>3, <1>4, <2>1
  <2>3. cluster[v].object \in Objects
    BY <2>2 DEF Change
  <2> QED BY <2>1, <2>3 DEF Decoded, Observation, VersionIn, Versions, Batch
<1>6. \A i \in 1..n : KindOf(Pending[i].of) # kind
  <2> SUFFICES ASSUME NEW i \in 1..n, KindOf(Pending[i].of) = kind PROVE FALSE
    OBVIOUS
  <2>1. PICK o \in Objects : o = Pending[i].of
    BY <1>1 DEF AdapterInv, PendingTyped
  <2>2. VersionIn(Pending[i]) \in Versions(o, len) /\ VersionIn(Pending[i]) <= next[kind]
    BY <1>1, <1>3, <2>1 DEF AdapterInv, PendingTyped
  <2>3. next[kind] = 0
    <3>1. CASE kind = "nodes"
      <4>1. stage \in {"idle", "list"}
        BY <3>1 DEF Batch
      <4> QED BY <1>4, <4>1 DEF AdapterInv, SourcesTyped, NoVersions
    <3>2. CASE kind = "pods"
      <4>1. stage \in {"watch", "relist"}
        BY <3>2 DEF Batch
      <4> QED BY <3>2, <4>1 DEF AdapterInv, SourcesTyped
    <3> QED BY <1>4, <3>1, <3>2 DEF Kinds
  <2> QED BY <2>2, <2>3 DEF Versions
<1>7. ProcessesTyped'
  <2>1. todo' \in [Adapters -> Seq(Observations)]
    <3>1. todo' = [todo EXCEPT !["k8s"] = Pending'] /\ "k8s" \in Adapters
      BY DEF Batch, AdapterInv, ProcessesTyped, Adapters, Pending
    <3> QED BY <1>2, <3>1 DEF AdapterInv, ProcessesTyped
  <2>2. done' \in [Adapters -> Nat] /\ done'["k8s"] = 0
    BY <1>4 DEF AdapterInv, ProcessesTyped
  <2>3. \A a \in Adapters \ {"k8s"} : todo'[a] = todo[a] /\ done'[a] = done[a]
    BY <1>4 DEF AdapterInv, ProcessesTyped, Batch
  <2>4. \A ob : CallCount("k8s", ob) \in Nat /\ 0 < CallCount("k8s", ob)
    BY DEF CallCount, PublishOf
  <2> QED BY <2>1, <2>2, <2>3, <2>4 DEF AdapterInv, ProcessesTyped
<1>8. Fetching
  <2>1. \A i \in DOMAIN Pending' :
           Pending'[i].at = now \/ \E j \in DOMAIN Pending : Pending'[i].at = Pending[j].at
    BY <1>1, <1>2, <1>5
  <2> QED BY <1>4, <1>7, <2>1 DEF Fetching
<1>9. next' \in [Kinds -> 0..len] /\ next'[kind] = upTo /\ \A k \in Kinds \ {kind} : next'[k] = next[k]
  BY <1>4
<1>10. SourcesTyped'
  <2>1. \A k \in Kinds : next'[k] # 0 => cursor[k] <= next'[k]
    BY <1>4, <1>9 DEF AdapterInv, SourcesTyped
  <2>2. stage' \in {"watch", "relist", "publish"} /\ (stage' # "publish" => kind = "nodes")
    BY DEF Batch
  <2>3. stage' # "publish" => next'["pods"] = 0
    <3> SUFFICES ASSUME kind = "nodes" PROVE next'["pods"] = 0
      BY <2>2
    <3>1. stage \in {"idle", "list"}
      BY DEF Batch
    <3>2. next["pods"] = 0
      BY <3>1 DEF AdapterInv, SourcesTyped, NoVersions, Kinds
    <3> QED BY <1>9, <3>2 DEF Kinds
  <2>4. listed' \in [Kinds -> Nat]
    BY DEF Batch
  <2> QED BY <1>3, <1>4, <1>9, <2>1, <2>2, <2>3, <2>4 DEF AdapterInv, SourcesTyped, Stages
<1>11. /\ \A o, k : Versions(o, k)' = Versions(o, k)
       /\ \A o, k : Latest(o, k)' = Latest(o, k)
       /\ \A o, v : /\ Applied(o, v)' = Applied(o, v) /\ Reached(o, v)' = Reached(o, v)
                    /\ Fits(o, v)' = Fits(o, v)
       /\ \A p, v : Shows(p, v)' = Shows(p, v)
       /\ \A p : ToUpsert(p)' = {i \in DOMAIN Pending' : Pending'[i].of = p}
  BY <1>8, FetchingKeeps
<1>12. PendingTyped'
  <2> SUFFICES ASSUME NEW i \in DOMAIN Pending', NEW o, o = Pending'[i].of,
                      NEW v, v = VersionIn(Pending'[i])
               PROVE  /\ o \in Objects /\ v \in Versions(o, len) /\ Pending'[i].id = <<o, v>>
                      /\ Pending'[i].at \in 0..now
                      /\ v <= next'[KindOf(o)] /\ Latest(o, cursor[KindOf(o)]) <= v
    BY <1>3, <1>4, <1>11 DEF PendingTyped, VersionIn, KindOf
  <2>1. CASE i \in 1..n
    <3>1. i \in DOMAIN Pending /\ (Pending'[i].at = Pending[i].at \/ Pending'[i].at = now)
      BY <1>1, <1>2, <2>1
    <3>2. v = VersionIn(Pending[i]) /\ o = Pending[i].of /\ Pending'[i].id = Pending[i].id
      BY <1>2, <2>1
    <3>3. /\ o \in Objects /\ v \in Versions(o, len) /\ Pending[i].id = <<o, v>>
          /\ Pending[i].at \in 0..now
          /\ v <= next[KindOf(o)] /\ Latest(o, cursor[KindOf(o)]) <= v
      BY <1>3, <3>1, <3>2 DEF AdapterInv, PendingTyped
    <3>4. next'[KindOf(o)] = next[KindOf(o)]
      BY <1>6, <1>9, <2>1, <3>2 DEF KindOf, Kinds
    <3> QED BY <1>4, <3>1, <3>2, <3>3, <3>4
  <2>2. CASE \E w \in versions : Pending'[i] = Decoded(w)
    <3>1. PICK w \in versions : Pending'[i] = Decoded(w)
      BY <2>2
    <3>2. v = w
      BY <1>5, <3>1 DEF VersionIn
    <3> QED BY <1>4, <1>5, <1>9, <3>1, <3>2
  <2> QED BY <1>2, <2>1, <2>2
<1>13. \A i \in DOMAIN Pending' : i \in 1..n \/ (i > n /\ \E v \in versions : Pending'[i] = Decoded(v) /\ VersionIn(Pending'[i]) = v)
  <2>1. \A v \in versions, i \in DOMAIN Pending' :
           Pending'[i] = Decoded(v) => VersionIn(Pending'[i]) = v
    BY <1>5 DEF VersionIn
  <2> QED BY <1>2, <2>1
<1>14. PendingInOrder'
  <2>1. DOMAIN Pending' \subseteq Nat \ {0}
    BY <1>2
  <2> SUFFICES ASSUME NEW i \in DOMAIN Pending', NEW j \in DOMAIN Pending', i < j
               PROVE  /\ Pending'[i].at <= Pending'[j].at
                      /\ Pending'[i].of = Pending'[j].of => VersionIn(Pending'[i]) < VersionIn(Pending'[j])
    BY DEF PendingInOrder, VersionIn
  <2>2. CASE j \in 1..n
    <3>1. i \in 1..n
      BY <2>1, <2>2
    <3>2. /\ Pending[i].at <= Pending[j].at
          /\ Pending[i].of = Pending[j].of => VersionIn(Pending[i]) < VersionIn(Pending[j])
      BY <1>1, <2>2, <3>1 DEF AdapterInv, PendingInOrder
    <3> QED BY <1>2, <1>4, <2>2, <3>1, <3>2
  <2>3. CASE i \in 1..n /\ j \notin 1..n
    <3>1. PICK v \in versions : Pending'[j] = Decoded(v)
      BY <1>2, <2>3
    <3>2. /\ Pending'[i].of = Pending[i].of /\ Pending[i].at \in 0..now
          /\ Pending'[i].at = Pending[i].at \/ Pending'[i].at = now
      BY <1>1, <1>2, <2>3 DEF AdapterInv, PendingTyped
    <3>3. Pending[i].of # cluster[v].object
      BY <1>5, <1>6, <2>3
    <3> QED BY <1>4, <1>5, <3>1, <3>2, <3>3
  <2>4. CASE i \notin 1..n
    <3>1. i > n
      BY <1>13, <2>4
    <3>2. j \notin 1..n
      BY <2>1, <3>1
    <3>3. PICK v \in versions : Pending'[i] = Decoded(v)
      BY <1>13, <2>4
    <3>4. PICK w \in versions : Pending'[j] = Decoded(w)
      BY <1>13, <3>2
    <3>5. Pending'[i].at = now /\ Pending'[j].at = now
      BY <1>5, <3>3, <3>4
    <3> QED BY <1>2, <1>4, <3>1, <3>5
  <2> QED BY <2>2, <2>3, <2>4
<1>15. ASSUME AllFit, \A v \in versions : Fits(cluster[v].object, v) PROVE AllFit'
  <2> SUFFICES ASSUME NEW i \in DOMAIN Pending' PROVE Fits(Pending'[i].of, VersionIn(Pending'[i]))
    BY <1>11 DEF AllFit, VersionIn
  <2>1. CASE i \in 1..n
    <3>1. Pending'[i].of = Pending[i].of /\ VersionIn(Pending'[i]) = VersionIn(Pending[i])
      BY <1>2, <2>1
    <3> QED BY <1>1, <1>15, <2>1, <3>1 DEF AllFit
  <2>2. CASE \E v \in versions : Pending'[i] = Decoded(v)
    BY <1>5, <1>15, <2>2
  <2> QED BY <1>2, <2>1, <2>2
<1>16. \A o, k : Latest(o, k)' = Latest(o, k)
  BY <1>11
<1>17. ASSUME NEW o \in Objects, NEW k \in 0..len, NEW v, v = Latest(o, k), ~ (v # 0 => Lost(v)')
       PROVE  v \in Versions(o, k) /\ v \in 0..len /\ v # 0 /\ ~ Lost(v)
  <2>1. v \in Versions(o, k) /\ v # 0
    BY <1>17, LatestIs
  <2>2. v \in Versions(o, len)
    BY <2>1 DEF Versions
  <2>3. Lost(v) => Lost(v)'
    BY <1>3, <2>2 DEF Batch
  <2> QED BY <1>17, <2>1, <2>2, <2>3 DEF Versions
<1>18. \A o : KindOf(o) \in Kinds
  BY DEF KindOf, Kinds
<1>19. ASSUME NEW o \in Objects, Known(o, cursor)' PROVE Known(o, cursor)
  <2>1. PICK v : v = Latest(o, cursor[KindOf(o)])
    OBVIOUS
  <2>2. v # 0 /\ ~ Lost(v)'
    BY <1>4, <1>16, <1>19, <2>1 DEF Known, Lost
  <2>3. cursor[KindOf(o)] \in 0..len
    BY <1>4, <1>18
  <2> QED BY <1>17, <2>1, <2>2, <2>3 DEF Known
<1>20. CursorCovered'
  BY <1>4, <1>11, <1>19 DEF AdapterInv, CursorCovered
<1>21. CursorShown'
  BY <1>4, <1>11, <1>19 DEF AdapterInv, CursorShown, Objects
<1>22. ASSUME NEW o \in Objects, NEW v, v = Latest(o, next'[KindOf(o)]), Known(o, next)'
       PROVE  v # 0 /\ ~ Lost(v)' /\ next'[KindOf(o)] \in 0..len /\ Latest(o, next[KindOf(o)])' = v
  <2>1. Latest(o, next[KindOf(o)])' = v
    BY <1>16, <1>22
  <2>2. v # 0 /\ ~ Lost(v)'
    BY <1>22, <2>1 DEF Known, Lost
  <2>3. next'[KindOf(o)] \in 0..len
    BY <1>9, <1>18
  <2> QED BY <2>1, <2>2, <2>3
<1>23. NextCovered'
  <2> SUFFICES ASSUME NEW o \in Objects, Known(o, next)', NEW v, v = Latest(o, next'[KindOf(o)])
               PROVE  \/ Reached(o, v)
                      \/ \E i \in DOMAIN Pending' : Pending'[i].of = o /\ VersionIn(Pending'[i]) >= v
    BY <1>11, <1>22 DEF NextCovered, VersionIn
  <2>1. /\ v # 0 /\ ~ Lost(v)' /\ v \in Versions(o, next'[KindOf(o)]) /\ ~ Lost(v) /\ v \in 0..len
    BY <1>17, <1>22
  <2>2. CASE KindOf(o) = kind
    <3>1. v \in Versions(o, upTo) /\ v = Latest(o, upTo)
      BY <1>9, <2>1, <2>2
    <3>2. v \in versions \/ Reached(o, v)
      BY <2>1, <2>2, <3>1 DEF Tells
    <3>3. ASSUME v \in versions
          PROVE  \E i \in DOMAIN Pending' : Pending'[i].of = o /\ VersionIn(Pending'[i]) >= v
      <4>1. PICK i \in DOMAIN Pending' : Pending'[i] = Decoded(v)
        BY <1>2, <3>3
      <4>2. VersionIn(Pending'[i]) = v /\ Pending'[i].of = cluster[v].object
        BY <1>5, <3>3, <4>1
      <4>3. cluster[v].object = o
        BY <3>1 DEF Versions
      <4> QED BY <2>1, <4>2, <4>3
    <3> QED BY <3>2, <3>3
  <2>3. CASE KindOf(o) # kind
    <3>1. v = Latest(o, next[KindOf(o)])
      BY <1>9, <1>18, <2>3
    <3>2. Known(o, next)
      BY <2>1, <3>1 DEF Known
    <3>3. CASE Reached(o, v)
      BY <3>3
    <3>4. CASE \E i \in DOMAIN Pending : Pending[i].of = o /\ VersionIn(Pending[i]) >= v
      <4>1. PICK i \in DOMAIN Pending : Pending[i].of = o /\ VersionIn(Pending[i]) >= v
        BY <3>4
      <4> QED BY <1>1, <1>2, <4>1
    <3> QED BY <3>1, <3>2, <3>3, <3>4 DEF AdapterInv, NextCovered
  <2> QED BY <2>2, <2>3
<1>24. NextShown'
  <2> SUFFICES ASSUME NEW p \in Pods, Known(p, next)', NEW v, v = Latest(p, next'[KindOf(p)]),
                      NEW up, up = {i \in DOMAIN Pending' : Pending'[i].of = p}
               PROVE  IF up = {} THEN Shows(p, v) ELSE \E i \in up : VersionIn(Pending'[i]) >= v
    BY <1>11, <1>22 DEF NextShown, VersionIn, Objects
  <2>1. p \in Objects /\ KindOf(p) = "pods"
    BY NodesAndPods DEF Objects, KindOf
  <2>2. v # 0 /\ ~ Lost(v)' /\ v \in Versions(p, next'["pods"]) /\ ~ Lost(v) /\ v \in 0..len
    BY <1>17, <1>22, <2>1
  <2>3. kind = "pods"
    <3> SUFFICES ASSUME kind = "nodes" PROVE FALSE
      BY <1>4 DEF Kinds
    <3>1. stage \in {"idle", "list"}
      BY DEF Batch
    <3>2. next["pods"] = 0
      BY <3>1 DEF AdapterInv, SourcesTyped, NoVersions, Kinds
    <3>3. next'["pods"] = 0
      BY <1>9, <3>2 DEF Kinds
    <3> QED BY <2>2, <3>3 DEF Versions
  <2>4. v \in Versions(p, upTo) /\ v = Latest(p, upTo)
    BY <1>9, <2>1, <2>2, <2>3
  <2>5. CASE v \in versions
    <3>1. PICK i \in DOMAIN Pending' : Pending'[i] = Decoded(v)
      BY <1>2, <2>5
    <3>2. VersionIn(Pending'[i]) = v /\ Pending'[i].of = cluster[v].object
      BY <1>5, <2>5, <3>1
    <3>3. cluster[v].object = p
      BY <2>4 DEF Versions
    <3> QED BY <2>2, <3>1, <3>2, <3>3
  <2>6. CASE (\A w \in versions : cluster[w].object # p) /\ Shows(p, v)
    <3>1. up = {}
      <4> SUFFICES ASSUME NEW i \in DOMAIN Pending', Pending'[i].of = p PROVE FALSE
        OBVIOUS
      <4>1. CASE i \in 1..n
        <5>1. KindOf(Pending[i].of) # "pods" /\ Pending'[i].of = Pending[i].of
          BY <1>2, <1>6, <2>3, <4>1
        <5> QED BY <2>1, <5>1
      <4>2. CASE \E w \in versions : Pending'[i] = Decoded(w)
        BY <1>5, <2>6, <4>2
      <4> QED BY <1>2, <4>1, <4>2
    <3> QED BY <2>6, <3>1
  <2> QED BY <2>1, <2>2, <2>3, <2>4, <2>5, <2>6 DEF Tells
<1> QED BY <1>7, <1>8, <1>10, <1>12, <1>14, <1>15, <1>20, <1>21, <1>23, <1>24

\* A watch of one kind: it has expired, or brings all there is up to some version.
LEMMA WatchKeeps ==
  ASSUME AdapterInv, NEW kind \in Kinds, Watch(kind)
  PROVE  AdapterInv'
<1>1. /\ UNCHANGED <<cluster, compacted, now, cursor, listed, done, planeVars>>
      /\ stage = (IF kind = "nodes" THEN "idle" ELSE "watch") /\ Initialized
      /\ stage # "publish" /\ done["k8s"] = 0
  BY DEF Watch, clusterVars, AdapterInv, SourcesTyped
<1>2. PICK len \in Nat : len = Len(cluster) /\ len # 0
  BY DEF AdapterInv, SourcesTyped
<1>3. ASSUME NEW o PROVE KindOf(o) \in Kinds
  BY DEF KindOf, Kinds
<1>4. CASE /\ Expired(kind)
           /\ stage' = "list" /\ next' = NoVersions /\ todo' = [todo EXCEPT !["k8s"] = <<>>]
  <2>1. Pending' = <<>> /\ done'["k8s"] = 0
    BY <1>1, <1>4 DEF AdapterInv, ProcessesTyped, Adapters, Pending
  <2>2. ProcessesTyped'
    BY <1>1, <1>4 DEF AdapterInv, ProcessesTyped, Adapters
  <2>3. DOMAIN Pending' = {}
    BY <2>1
  <2>4. Fetching
    BY <1>1, <2>1, <2>2, <2>3 DEF Fetching
  <2>5. SourcesTyped'
    <3>1. 0 \in 0..Len(cluster)
      BY <1>2
    <3> QED BY <1>1, <1>4, <2>1, <3>1 DEF AdapterInv, SourcesTyped, Stages, NoVersions
  <2>6. PendingTyped' /\ PendingInOrder'
    BY <2>3 DEF PendingTyped, PendingInOrder
  <2>7. CanGoOn'
    <3>1. Stale'
      BY <1>1, <1>4 DEF Stale, Expired
    <3> QED BY <1>4, <3>1 DEF CanGoOn
  <2>8. \A o : Known(o, cursor)' = Known(o, cursor)
    <3>1. \A v : Lost(v)' = Lost(v)
      BY <1>1 DEF Lost
    <3> QED BY <1>1, <2>4, <3>1, FetchingKeeps DEF Known, Lost
  <2>9. CursorCovered' /\ CursorShown'
    BY <1>1, <2>4, <2>8, FetchingKeeps DEF AdapterInv, CursorCovered, CursorShown
  <2>10. \A o : ~ Known(o, next)'
    <3>1. \A o : Latest(o, 0) = 0
      BY LatestIs
    <3>2. \A o : Latest(o, next[KindOf(o)])' = 0
      BY <1>3, <1>4, <2>4, <3>1, FetchingKeeps DEF NoVersions
    <3> QED BY <3>2 DEF Known
  <2>11. NextCovered' /\ NextShown'
    BY <2>10 DEF NextCovered, NextShown
  <2> QED BY <2>2, <2>4, <2>5, <2>6, <2>7, <2>9, <2>11, FetchingKeeps DEF AdapterInv
<1>5. CASE ~ Expired(kind) /\ stage' # "list"
  <2>1. PICK ahead : ahead = After(kind, cursor[kind])
    OBVIOUS
  <2>2. PICK upTo \in WatchEnds(ahead, cursor[kind]) :
            /\ todo' = [todo EXCEPT !["k8s"] = Fetched(Pending, {v \in ahead : v <= upTo})]
            /\ next' = [next EXCEPT ![kind] = upTo]
    BY <1>5, <2>1 DEF Watch, Pending
  <2>3. stage' = IF kind = "nodes" THEN "watch" ELSE "publish"
    BY <1>5 DEF Watch
  <2>4. PICK versions : versions = {v \in ahead : v <= upTo}
    OBVIOUS
  <2>5. PICK from \in 1..len : from = cursor[kind]
    BY <1>1, <1>2 DEF Initialized, AdapterInv, SourcesTyped
  <2>6. /\ upTo \in 1..len /\ from <= upTo
        /\ \A v : v \in versions <=> v \in from + 1..len /\ KindOf(cluster[v].object) = kind /\ v <= upTo
    BY <1>2, <2>1, <2>2, <2>4, <2>5 DEF After, WatchEnds
  <2>7. ASSUME NEW v \in versions
        PROVE  /\ v \in 1..len /\ cluster[v].object \in Objects
               /\ v \in Versions(cluster[v].object, len) /\ v > from
               /\ Latest(cluster[v].object, from) <= v
    <3>1. v \in 1..len /\ v > from
      BY <2>5, <2>6
    <3>2. cluster[v] \in Change
      BY <1>2, <3>1 DEF AdapterInv, SourcesTyped
    <3>3. cluster[v].object \in Objects
      BY <3>2 DEF Change
    <3>4. Latest(cluster[v].object, from) \in 0..from
      BY LatestIs
    <3> QED BY <3>1, <3>3, <3>4 DEF Versions
  <2>8. Batch(kind, versions, upTo)
    <3>1. versions \subseteq 1..len
      BY <2>7
    <3>2. listed' \in [Kinds -> Nat] /\ \A v : Lost(v)' = Lost(v)
      BY <1>1 DEF AdapterInv, SourcesTyped, Lost
    <3> QED BY <1>1, <1>2, <2>2, <2>3, <2>4, <2>5, <2>6, <2>7, <3>1, <3>2, <1>3 DEF Batch, Kinds
  <2>9. Tells(kind, versions, upTo)
    <3> SUFFICES ASSUME NEW o \in Objects, KindOf(o) = kind, NEW v \in Versions(o, upTo),
                        v = Latest(o, upTo), ~ Lost(v)', v \notin versions
                 PROVE  /\ \A w \in versions : cluster[w].object # o
                        /\ Reached(o, v) /\ (o \in Pods => Shows(o, v))
      BY DEF Tells
    <3>1. v \in 1..upTo /\ v \in 1..len /\ cluster[v].object = o
      BY <2>6 DEF Versions
    <3>2. v <= from
      BY <2>5, <2>6, <3>1
    <3>3. v = Latest(o, from)
      BY <2>6, <3>2, LatestGrows
    <3>4. ~ Lost(v)
      BY <1>1 DEF Lost
    <3>5. Known(o, cursor)
      BY <2>5, <3>1, <3>3, <3>4 DEF Known
    <3>6. Reached(o, v) /\ (o \in Pods => Shows(o, v))
      BY <2>5, <3>3, <3>5 DEF AdapterInv, CursorCovered, CursorShown
    <3>7. ASSUME NEW w \in versions, cluster[w].object = o PROVE FALSE
      <4>1. w \in Versions(o, upTo) /\ w > from
        BY <2>5, <2>6, <3>7 DEF Versions
      <4>2. w <= v
        BY <2>6, <4>1, LatestIs
      <4> QED BY <2>5, <2>6, <3>1, <3>2, <4>1, <4>2 DEF Versions
    <3> QED BY <3>6, <3>7
  <2>10. (Resumable /\ AllFit) \/ (kind = "nodes" /\ Expired("pods"))
    <3>1. CASE kind = "nodes"
      <4>1. Stale => Expired("pods")
        BY <1>1, <1>5, <3>1 DEF Stale, Kinds
      <4>2. Pending = <<>>
        BY <1>1, <3>1 DEF AdapterInv, SourcesTyped
      <4>3. AllFit
        BY <4>2 DEF AllFit
      <4> QED BY <3>1, <4>1, <4>3 DEF AdapterInv, CanGoOn
    <3>2. CASE kind = "pods"
      BY <1>1, <1>5, <3>2 DEF AdapterInv, CanGoOn
    <3> QED BY <3>1, <3>2 DEF Kinds
  <2>11. Fetching /\ (AllFit /\ (\A v \in versions : Fits(cluster[v].object, v)) => AllFit')
    BY <2>8, <2>9, BatchKeeps
  <2>12. ASSUME Resumable, AllFit PROVE Resumable' /\ AllFit'
    <3>1. \A v \in versions : Fits(cluster[v].object, v)
      BY <1>2, <2>5, <2>6, <2>7, <2>12 DEF Resumable, GapFree
    <3>2. \A k \in Kinds : GapFree(k, cursor[k])'
      BY <1>1, <2>11, <2>12, FetchingKeeps DEF Resumable
    <3>3. PICK n \in Nat : n = Len(Pending) /\ DOMAIN Pending = 1..n
      BY PendingIsSeq DEF AdapterInv
    <3>4. /\ Pending' \in Seq(Observations)
          /\ \A i \in 1..n : /\ i \in DOMAIN Pending'
                              /\ Pending'[i].of = Pending[i].of /\ Pending'[i].id = Pending[i].id
          /\ \A i \in DOMAIN Pending' :
                i \in 1..n \/ (i > n /\ \E v \in versions : Pending'[i] = Decoded(v))
          /\ \A v \in versions : \E i \in DOMAIN Pending' : i > n /\ Pending'[i] = Decoded(v)
          /\ \A i, j \in DOMAIN Pending' :
                n < i /\ i < j => VersionIn(Pending'[i]) < VersionIn(Pending'[j])
      BY <2>8, <3>3, BatchIsAppended DEF Alike
    <3>5. PICK m \in Nat : DOMAIN Pending' = 1..m
      BY <3>4
    <3>6. \A v \in versions : Decoded(v).of = cluster[v].object /\ VersionIn(Decoded(v)) = v
      BY DEF Decoded, Observation, VersionIn
    <3>7. ASSUME NEW i \in 1..m, NEW o, o = Pending'[i].of, NEW v \in Versions(o, len),
                 NEW w, w = VersionIn(Pending'[i]), cursor[KindOf(o)] < v, v < w
          PROVE  \/ Applied(o, v)
                 \/ \E j \in 1..i - 1 : Pending'[j].of = o /\ VersionIn(Pending'[j]) = v
      <4>1. CASE i \in 1..n
        <5>1. \A j \in 1..i : j \in 1..n
          BY <4>1
        <5>2. \A j \in 1..i : /\ Pending'[j].of = Pending[j].of
                               /\ VersionIn(Pending'[j]) = VersionIn(Pending[j])
          BY <3>4, <5>1 DEF VersionIn
        <5>3. \A j \in 1..i - 1 : j \in 1..i
          OBVIOUS
        <5>4. i \in 1..i
          OBVIOUS
        <5>5. o = Pending[i].of /\ v < VersionIn(Pending[i])
          BY <3>7, <5>2, <5>4
        <5>6. Applied(o, v) \/ \E j \in 1..i - 1 : Pending[j].of = o /\ VersionIn(Pending[j]) = v
          BY <1>2, <2>12, <3>3, <3>7, <4>1, <5>5 DEF Resumable, NoneSkipped
        <5> QED BY <5>2, <5>3, <5>6
      <4>2. CASE i > n
        <5>1. PICK u \in versions : Pending'[i] = Decoded(u)
          BY <3>4, <3>5, <4>2
        <5>2. u = w /\ cluster[u].object = o
          BY <3>6, <3>7, <5>1 DEF VersionIn
        <5>3. KindOf(o) = kind /\ w <= upTo /\ w \in 1..len
          BY <2>6, <2>7, <5>1, <5>2
        <5>4. v \in 1..len /\ cluster[v].object = o
          BY DEF Versions
        <5>5. v \in versions
          BY <2>5, <2>6, <3>7, <5>3, <5>4
        <5>6. PICK j \in 1..m : j > n /\ Pending'[j] = Decoded(v)
          BY <3>4, <3>5, <5>5
        <5>7. VersionIn(Pending'[j]) = v /\ Pending'[j].of = o
          BY <3>6, <5>4, <5>5, <5>6 DEF VersionIn
        <5>8. i < j => w < v
          BY <3>4, <3>5, <3>7, <4>2, <5>7
        <5>9. i # j
          BY <3>7, <5>3, <5>4, <5>7
        <5>10. j < i
          BY <3>7, <5>3, <5>4, <5>8, <5>9
        <5>11. j \in 1..i - 1
          BY <5>10
        <5> QED BY <5>7, <5>11
      <4> QED BY <4>1, <4>2
    <3>8. NoneSkipped'
      <4>1. /\ \A o, k : Versions(o, k)' = Versions(o, k)
            /\ \A o, v : Applied(o, v)' = Applied(o, v)
        BY <2>11, FetchingKeeps
      <4> SUFFICES ASSUME NEW i \in DOMAIN Pending', NEW o, o = Pending'[i].of,
                          NEW v \in Versions(o, Len(cluster)),
                          cursor[KindOf(o)] < v, v < VersionIn(Pending'[i])
                   PROVE  \/ Applied(o, v)
                          \/ \E j \in 1..i - 1 : Pending'[j].of = o /\ VersionIn(Pending'[j]) = v
        BY <1>1, <4>1 DEF NoneSkipped, VersionIn
      <4> QED BY <1>2, <3>5, <3>7
    <3> QED BY <2>11, <2>12, <3>1, <3>2, <3>8 DEF Resumable
  <2>13. CanGoOn'
    <3>1. next'["nodes"] # 0 /\ (kind = "pods" => next'["pods"] # 0)
      <4>1. kind = "pods" => next["nodes"] # 0
        BY <1>1 DEF AdapterInv, CanGoOn
      <4> QED BY <1>3, <2>2, <2>6, <4>1 DEF Kinds, AdapterInv, SourcesTyped
    <3>2. CASE kind = "nodes"
      <4>1. Initialized' /\ (Expired("pods") => Expired("pods")')
        BY <1>1 DEF Initialized, Expired
      <4>2. Expired("pods") => Stale'
        BY <4>1 DEF Stale, Kinds
      <4> QED BY <2>3, <2>10, <2>12, <3>1, <3>2, <4>1, <4>2 DEF CanGoOn
    <3>3. CASE kind = "pods"
      <4>1. Resumable /\ AllFit
        BY <2>10, <3>3
      <4>2. Resumable' /\ AllFit'
        BY <2>12, <4>1
      <4>3. \A k \in Kinds : GapFree(k, next[k])'
        <5>1. next' \in [Kinds -> 0..len] /\ \A k \in Kinds : cursor[k] <= next'[k]
          <6>1. SourcesTyped'
            BY <2>8, <2>9, BatchKeeps
          <6>2. \A k \in Kinds : next'[k] # 0
            BY <3>1, <3>3 DEF Kinds
          <6> QED BY <1>1, <1>2, <6>1, <6>2 DEF SourcesTyped
        <5>2. ASSUME NEW k \in Kinds, NEW o \in Objects, NEW v \in Versions(o, len),
                     KindOf(o) = k, v > next'[k]
              PROVE  Fits(o, v)
          <6>1. v \in Nat /\ cursor[k] \in Nat /\ next'[k] \in Nat /\ cursor[k] <= next'[k]
            BY <1>2, <5>1 DEF Versions, AdapterInv, SourcesTyped
          <6>2. v > cursor[k]
            BY <5>2, <6>1
          <6> QED BY <1>2, <4>1, <5>2, <6>2 DEF Resumable, GapFree
        <5> QED BY <1>1, <1>2, <2>11, <5>2, FetchingKeeps DEF GapFree, KindOf
      <4> QED BY <2>3, <3>1, <3>3, <4>2, <4>3 DEF CanGoOn
    <3> QED BY <3>2, <3>3 DEF Kinds
  <2> QED BY <2>8, <2>9, <2>13, BatchKeeps, FetchingKeeps DEF AdapterInv
<1> QED BY <1>4, <1>5 DEF Watch

\* A list of one kind brings what exists, at its newest version.
LEMMA ListKeeps ==
  ASSUME AdapterInv, NEW kind \in Kinds, List(kind)
  PROVE  AdapterInv'
<1>1. PICK len \in Nat : len = Len(cluster) /\ len # 0
  BY DEF AdapterInv, SourcesTyped
<1>2. PICK versions : versions = Listing(kind)
  OBVIOUS
<1>3. /\ UNCHANGED <<cluster, compacted, now, cursor, done, planeVars>>
      /\ stage = (IF kind = "pods" THEN "relist" ELSE IF Initialized THEN "list" ELSE "idle")
      /\ stage' = IF kind = "nodes" THEN "relist" ELSE "publish"
      /\ todo' = [todo EXCEPT !["k8s"] = Fetched(Stamped(Pending), versions)]
      /\ next' = [next EXCEPT ![kind] = len] /\ listed' = [listed EXCEPT ![kind] = len]
  BY <1>1, <1>2 DEF List, clusterVars, Pending
<1>4. ASSUME NEW v \in versions
      PROVE  \E o \in Objects : /\ KindOf(o) = kind /\ v = Latest(o, len) /\ v \in Versions(o, len)
                                /\ v \in 1..len /\ cluster[v].object = o
  <2>1. PICK o \in Objects : KindOf(o) = kind /\ Exists(o) /\ v = Latest(o, len)
    BY <1>1, <1>2 DEF Listing
  <2>2. v \in Versions(o, len)
    BY <1>1, <2>1, LatestIs DEF Exists
  <2> QED BY <2>1, <2>2 DEF Versions
<1>5. cursor \in [Kinds -> 0..len] /\ listed \in [Kinds -> Nat] /\ next \in [Kinds -> 0..len]
  BY <1>1 DEF AdapterInv, SourcesTyped
<1>6. ASSUME NEW o, NEW v \in Versions(o, len), Lost(v) PROVE Lost(v)'
  <2>1. v \in 1..len /\ cluster[v].deleted /\ v <= listed[KindOf(cluster[v].object)]
    BY <1>6 DEF Lost, Versions
  <2>2. KindOf(cluster[v].object) \in Kinds
    BY DEF KindOf, Kinds
  <2>3. v <= listed'[KindOf(cluster[v].object)]
    BY <1>3, <1>5, <2>1, <2>2
  <2> QED BY <1>3, <2>1, <2>3 DEF Lost, KindOf
<1>7. Batch(kind, versions, len)
  <2>1. versions \subseteq 1..len
    BY <1>4
  <2>2. len \in 1..len /\ cursor[kind] <= len
    BY <1>1, <1>5
  <2>3. ASSUME NEW v \in versions
        PROVE  /\ KindOf(cluster[v].object) = kind /\ v <= len
               /\ Latest(cluster[v].object, cursor[kind]) <= v
    <3>1. PICK o \in Objects : /\ KindOf(o) = kind /\ v = Latest(o, len) /\ v \in 1..len
                               /\ cluster[v].object = o
      BY <1>4
    <3>2. cursor[kind] \in Nat /\ cursor[kind] <= len
      BY <1>5, <2>2
    <3>3. Latest(o, cursor[kind]) <= v
      BY <3>1, <3>2, LatestGrows
    <3> QED BY <3>1, <3>3
  <2>4. listed' \in [Kinds -> Nat]
    BY <1>3, <1>5
  <2>5. stage \in IF kind = "nodes" THEN {"idle", "list"} ELSE {"watch", "relist"}
    BY <1>3 DEF Kinds
  <2>6. stage' \in IF kind = "nodes" THEN {"watch", "relist"} ELSE {"publish"}
    BY <1>3
  <2> QED BY <1>1, <1>3, <1>6, <2>1, <2>2, <2>3, <2>4, <2>5, <2>6 DEF Batch
<1>8. Tells(kind, versions, len)
  <2> SUFFICES ASSUME NEW o \in Objects, KindOf(o) = kind, NEW v \in Versions(o, len),
                      v = Latest(o, len), ~ Lost(v)'
               PROVE  v \in versions
    BY DEF Tells
  <2>1. v \in 1..len /\ cluster[v].object = o
    BY DEF Versions
  <2>2. v <= listed'[kind]
    BY <1>3, <1>5, <2>1
  <2>3. ~ cluster[v].deleted
    BY <1>3, <2>1, <2>2 DEF Lost, KindOf
  <2>4. Exists(o)
    BY <1>1, <2>1, <2>3 DEF Exists
  <2> QED BY <1>1, <1>2, <2>4 DEF Listing
<1>9. \A v \in versions : Fits(cluster[v].object, v)
  <2> SUFFICES ASSUME NEW v \in versions PROVE Fits(cluster[v].object, v)
    OBVIOUS
  <2>1. PICK o \in Objects : v = Latest(o, len) /\ v \in 1..len /\ cluster[v].object = o
    BY <1>4
  <2>2. \A i \in DOMAIN applied[o] : applied[o][i] \in Versions(o, len)
    BY <1>1 DEF AdapterInv, PlaneTyped
  <2>3. \A i \in DOMAIN applied[o] : applied[o][i] <= v /\ applied[o][i] \in Nat
    BY <2>1, <2>2, LatestIs DEF Versions
  <2> QED BY <2>1, <2>3 DEF Fits, Applied
<1>10. Fetching /\ (AllFit => AllFit')
  BY <1>7, <1>8, <1>9, BatchKeeps
<1>11. CanGoOn'
  <2>1. Stale'
    <3>1. Stale
      BY <1>3 DEF AdapterInv, CanGoOn, Stale
    <3> QED BY <1>3, <3>1 DEF Stale, Initialized, Expired
  <2>2. AllFit
    <3>1. CASE kind = "pods"
      BY <1>3, <3>1 DEF AdapterInv, CanGoOn
    <3>2. CASE kind = "nodes"
      <4>1. Pending = <<>>
        BY <1>3, <3>2 DEF AdapterInv, SourcesTyped
      <4> QED BY <4>1 DEF AllFit
    <3> QED BY <3>1, <3>2 DEF Kinds
  <2>3. GapFree(kind, len)
    <3>1. \A o : \A v \in Versions(o, len) : ~ (v > len)
      BY DEF Versions
    <3> QED BY <1>1, <3>1 DEF GapFree
  <2>4. ASSUME NEW k \in Kinds, next'[k] # 0 PROVE GapFree(k, next'[k])
    <3>1. CASE k = kind
      BY <1>3, <1>5, <2>3, <3>1
    <3>2. CASE k # kind
      <4>1. next'[k] = next[k] /\ (stage = "relist" \/ k = "pods")
        BY <1>3, <1>5, <2>4, <3>2 DEF Kinds
      <4>2. stage = "relist"
        <5>1. next = NoVersions => next[k] = 0
          BY DEF NoVersions
        <5> QED BY <1>3, <2>4, <4>1, <5>1 DEF AdapterInv, SourcesTyped
      <4> QED BY <2>4, <4>1, <4>2 DEF AdapterInv, CanGoOn
    <3> QED BY <3>1, <3>2
  <2>5. \A k \in Kinds : next'[k] # 0 => GapFree(k, next[k])'
    BY <1>10, <2>4, FetchingKeeps
  <2>6. next'["nodes"] # 0 /\ (kind = "pods" => next'["pods"] # 0)
    <3>1. kind = "pods" => next["nodes"] # 0
      BY <1>3 DEF AdapterInv, CanGoOn
    <3> QED BY <1>1, <1>3, <1>5, <3>1 DEF Kinds
  <2> QED BY <1>3, <1>10, <2>1, <2>2, <2>5, <2>6 DEF CanGoOn, Kinds
<1> QED BY <1>7, <1>8, <1>10, <1>11, BatchKeeps, FetchingKeeps DEF AdapterInv

(***************************************************************************)
(* A call of the Kubernetes process                                        *)
(***************************************************************************)

\* The k-th call, about version v of o, is carried out.
UnderWay(ob, o, v, k) ==
    /\ Pending # <<>> /\ ob = Pending[1] /\ o = ob.of /\ v = VersionIn(ob)
    /\ k = done["k8s"] + 1 /\ k \in 1..PublishOf(o) + 1
    /\ o \in Objects /\ v \in Versions(o, Len(cluster)) /\ v \in Nat /\ ob.id = <<o, v>>
    /\ ob.at \in 0..now

Key(o, v) == <<"k8s", <<o, v>>, MainSlot(o)>>

\* What the plane holds of o, unless the call publishes it.
Untouched(o) ==
    /\ applied'[o] = applied[o] /\ cells'[MainSlot(o)] = cells[MainSlot(o)]
    /\ \A w \in Nat : Key(o, w) \in idempotency' <=> Key(o, w) \in idempotency

Taken(ob, o, v) ==
    /\ \A i \in DOMAIN applied[o] : applied[o][i] < v
    /\ applied'[o] = Append(applied[o], v)
    /\ \A w \in Nat : Key(o, w) \in idempotency' <=> (Key(o, w) \in idempotency \/ w = v)
    /\ cells'[MainSlot(o)].authority = 4 /\ cells'[MainSlot(o)].timestamp = ob.at
    /\ cells'[MainSlot(o)].value = ShownValue(v)

LEMMA PublishTakes ==
  ASSUME AdapterInv, NEW ob, NEW o, NEW v, UnderWay(ob, o, v, PublishOf(o)), stage = "publish",
         NEW A, A = Admitted({Report(ob)}), FillCells(A), NoteApplied(A),
         idempotency' = idempotency \cup {u.key : u \in A}
  PROVE  /\ applied' \in [Objects -> Seq(Nat)]
         /\ \A x \in Objects \ {o} : Untouched(x)
         /\ Taken(ob, o, v) \/ (Untouched(o) /\ Applied(o, v))
<1>1. /\ o \in Objects /\ o = ob.of /\ v = VersionIn(ob) /\ v \in Nat /\ ob.id = <<o, v>>
      /\ done["k8s"] = PublishOf(o) - 1 /\ ob = Pending[1] /\ Pending # <<>> /\ ob.at \in Nat
      /\ applied \in [Objects -> Seq(Nat)]
  <2>1. done["k8s"] \in Nat
    BY DEF AdapterInv, ProcessesTyped, Adapters
  <2> QED BY <2>1 DEF UnderWay, AdapterInv, PlaneTyped, PublishOf
<1>2. 1 \in DOMAIN Pending
  BY <1>1, PendingIsSeq DEF AdapterInv
<1>3. PICK u : u = Report(ob)
  OBVIOUS
<1>4. PICK slot : slot = MainSlot(o)
  OBVIOUS
<1>5. /\ u.slot = slot /\ u.key = Key(o, v) /\ u.value = ShownValue(v) /\ u.authority = 4
      /\ u.timestamp = ob.at /\ u.expected = Unset /\ u.version = 0
  BY <1>1, <1>3, <1>4 DEF Report, StateOf, Update, Key
<1>6. /\ slot \in Slots /\ \A x \in Objects \ {o} : MainSlot(x) \in Slots /\ MainSlot(x) # slot
  BY <1>1, <1>4, SlotsDiffer
<1>7. Key(o, v) \in idempotency <=> Applied(o, v)
  BY <1>1 DEF AdapterInv, KeysMatch, Key
<1>8. Key(o, v)[1] = "k8s" /\ Key(o, v)[2][2] = v /\ Key(o, v)[3] = slot
  BY <1>4 DEF Key
<1>9. \A x \in Objects, w \in Nat : Key(x, w) = Key(o, v) <=> x = o /\ w = v
  <2>1. \A x, w : Key(x, w)[2][1] = x /\ Key(x, w)[2][2] = w
    BY DEF Key
  <2> QED BY <2>1
<1>10. \A x, w : Key(x, w)' = Key(x, w)
  BY DEF Key, MainSlot, Health, Ready
<1>11. \A x \in Objects : Says(u, x) <=> x = o
  BY <1>4, <1>5, <1>6, <1>8 DEF Says
<1>12. CASE Key(o, v) \in idempotency
  <2>1. A = {}
    <3>1. \A w \in A : w = u /\ w.key \notin idempotency
      BY <1>3 DEF Admitted
    <3> QED BY <1>5, <1>12, <3>1
  <2>2. applied' = [x \in Objects |-> applied[x]]
    BY <2>1 DEF NoteApplied
  <2>3. \A s \in Slots : cells'[s] = cells[s]
    BY <2>1 DEF FillCells
  <2>4. idempotency' = idempotency
    BY <2>1
  <2>5. ASSUME NEW x \in Objects PROVE Untouched(x)
    <3>1. MainSlot(x) \in Slots
      BY SlotsDiffer
    <3> QED BY <2>2, <2>3, <2>4, <3>1 DEF Untouched
  <2> QED BY <1>1, <1>7, <1>12, <2>2, <2>5
<1>13. CASE Key(o, v) \notin idempotency
  <2>1. \A i \in DOMAIN applied[o] : applied[o][i] < v
    <3>1. Fits(o, v)
      BY <1>1, <1>2 DEF AdapterInv, CanGoOn, AllFit
    <3> QED BY <1>7, <1>13, <3>1 DEF Fits
  <2>2. Registered(slot)
    <3>1. entities[o] # Absent
      BY <1>1 DEF AdapterInv, FirstUnderWay, UpsertOf, PublishOf
    <3>2. Len(slot) = 2 /\ slot[2] = o
      BY <1>1, <1>4, SlotsDiffer
    <3>3. \A i \in 2..2 : i = 2
      OBVIOUS
    <3> QED BY <3>1, <3>2, <3>3 DEF Registered
  <2>3. Admits(u, cells[slot])
    <3>1. ASSUME cells[slot] # Absent
          PROVE  /\ cells[slot].authority \in 0..4
                 /\ cells[slot].authority = 4 => cells[slot].timestamp \in Nat /\ cells[slot].timestamp <= ob.at
      BY <1>1, <1>2, <1>4, <3>1 DEF AdapterInv, CellsMatch, Authorities
    <3>2. CasHolds(u, cells[slot]) /\ VersionGrows(u, cells[slot])
      BY <1>5 DEF CasHolds, VersionGrows
    <3>3. ~ Outranked(u, cells[slot])
      BY <1>5, <3>1 DEF Outranked
    <3>4. ~ OutOfOrder(u, cells[slot])
      BY <1>1, <1>5, <3>1 DEF OutOfOrder
    <3> QED BY <3>2, <3>3, <3>4 DEF Admits
  <2>4. A = {u}
    BY <1>3, <1>5, <1>13, <2>2, <2>3 DEF Admitted
  <2>5. applied' = [x \in Objects |-> IF x = o THEN Append(applied[o], v) ELSE applied[x]]
    <3>1. ASSUME NEW x \in Objects
          PROVE  (IF \E w \in A : Says(w, x)
                  THEN Append(applied[x], (CHOOSE w \in A : Says(w, x)).key[2][2])
                  ELSE applied[x])
                 = IF x = o THEN Append(applied[o], v) ELSE applied[x]
      <4>1. CASE x = o
        <5>1. (CHOOSE w \in A : Says(w, x)) = u
          BY <1>11, <2>4, <4>1
        <5> QED BY <1>5, <1>8, <1>11, <2>4, <4>1, <5>1
      <4>2. CASE x # o
        BY <1>11, <2>4, <4>2
      <4> QED BY <4>1, <4>2
    <3> QED BY <3>1 DEF NoteApplied
  <2>6. cells'[slot] = Filled(u, cells[slot]) /\ \A s \in Slots \ {slot} : cells'[s] = cells[s]
    <3>1. (CHOOSE w \in A : w.slot = slot) = u
      BY <1>5, <2>4
    <3>2. cells'[slot] = Filled(u, cells[slot])
      BY <1>5, <1>6, <2>4, <3>1 DEF FillCells
    <3>3. \A s \in Slots \ {slot} : cells'[s] = cells[s]
      BY <1>5, <2>4 DEF FillCells
    <3> QED BY <3>2, <3>3
  <2>7. idempotency' = idempotency \cup {Key(o, v)}
    BY <1>5, <2>4
  <2>8. ASSUME NEW x \in Objects \ {o} PROVE Untouched(x)
    <3>1. \A w \in Nat : Key(x, w) \in idempotency' <=> Key(x, w) \in idempotency
      BY <1>9, <2>7
    <3> QED BY <1>6, <2>5, <2>6, <3>1 DEF Untouched, Key, MainSlot, Health, Ready
  <2>9. Taken(ob, o, v)
    <3>1. /\ cells'[slot].authority = 4 /\ cells'[slot].timestamp = ob.at
          /\ cells'[slot].value = ShownValue(v)
      BY <1>5, <2>6 DEF Filled
    <3>2. \A w \in Nat : Key(o, w) \in idempotency' <=> (Key(o, w) \in idempotency \/ w = v)
      BY <1>1, <1>9, <2>7
    <3> QED BY <1>1, <1>4, <2>1, <2>5, <3>1, <3>2 DEF Taken
  <2> QED BY <1>1, <2>5, <2>8, <2>9
<1> QED BY <1>12, <1>13

\* What a call does to the plane: it upserts, it publishes, or it leaves both alone.
LEMMA CallOnPlane ==
  ASSUME AdapterInv, NEW ob, NEW o, NEW v, NEW k, UnderWay(ob, o, v, k), Call("k8s")
  PROVE  /\ UNCHANGED <<cluster, compacted, now, watchVars>> /\ stage = "publish"
         /\ done' = [done EXCEPT !["k8s"] = IF k = PublishOf(o) + 1 THEN 0 ELSE @ + 1]
         /\ todo' = [todo EXCEPT !["k8s"] = IF k = PublishOf(o) + 1 THEN Tail(@) ELSE @]
         /\ entities' \in [Refs -> {Absent} \cup (Adapters \X Lives)]
         /\ \A x \in Objects : entities[x] # Absent => entities'[x] # Absent
         /\ \A p \in Pods : entities'[p] = entities[p] \/ (k = UpsertOf(o) /\ p = o)
         /\ k = UpsertOf(o) => entities'[o] = <<"k8s", ShownLife(v)>> /\ entities'[o] # Absent
         /\ applied' \in [Objects -> Seq(Nat)]
         /\ \A x \in Objects \ {o} : Untouched(x)
         /\ \/ k = PublishOf(o) /\ Taken(ob, o, v)
            \/ Untouched(o) /\ (k = PublishOf(o) => Applied(o, v))
<1>1. /\ Pending # <<>> /\ ob = Pending[1] /\ o = ob.of /\ v = VersionIn(ob) /\ o \in Objects
      /\ k = done["k8s"] + 1 /\ k \in 1..PublishOf(o) + 1
      /\ entities \in [Refs -> {Absent} \cup (Adapters \X Lives)] /\ applied \in [Objects -> Seq(Nat)]
      /\ Objects \subseteq Refs /\ UpsertOf(o) # PublishOf(o)
  BY DEF UnderWay, AdapterInv, PlaneTyped, Refs, UpsertOf, PublishOf
<1>2. Head(todo["k8s"]) = ob
  BY <1>1, PendingIsSeq DEF AdapterInv, Pending
<1>3. PICK call : call = Calls("k8s", ob)[k]
  OBVIOUS
<1>4. Len(Calls("k8s", ob)) = PublishOf(o) + 1 /\ KubernetesWrites(ob, k, call)
  BY <1>1, <1>3, KubernetesCallsAre
<1>5. PICK isLast \in BOOLEAN : isLast <=> k = PublishOf(o) + 1
  OBVIOUS
<1>6. /\ UNCHANGED <<clusterVars, now, watchVars>> /\ stage = "publish"
      /\ \/ call.op \in {"upsert", "create"} /\ entities' = [entities EXCEPT ![call.ref] = call.life]
            /\ UNCHANGED <<cells, idempotency, applied>>
         \/ call.op \in {"create", "get"} /\ UNCHANGED planeVars
         \/ /\ call.op \in {"publish", "conclude"} /\ UNCHANGED entities
            /\ FillCells(Admitted(call.updates)) /\ NoteApplied(Admitted(call.updates))
            /\ idempotency' = idempotency \cup {u.key : u \in Admitted(call.updates)}
      /\ done' = [done EXCEPT !["k8s"] = IF isLast THEN 0 ELSE @ + 1]
      /\ todo' = [todo EXCEPT !["k8s"] = IF isLast THEN Tail(@) ELSE @]
  <2>1. call = Calls("k8s", Head(todo["k8s"]))[done["k8s"] + 1]
    BY <1>1, <1>2, <1>3
  <2>2. isLast <=> done["k8s"] + 1 = Len(Calls("k8s", Head(todo["k8s"])))
    BY <1>1, <1>2, <1>4, <1>5
  <2> QED BY <2>1, <2>2 DEF Call, planeVars
<1>7. /\ entities' \in [Refs -> {Absent} \cup (Adapters \X Lives)]
      /\ \A x \in Objects : entities[x] # Absent => entities'[x] # Absent
      /\ \A p \in Pods : entities'[p] = entities[p] \/ (k = UpsertOf(o) /\ p = o)
      /\ k = UpsertOf(o) => entities'[o] = <<"k8s", ShownLife(v)>> /\ entities'[o] # Absent
  <2>1. CASE call.op \in {"upsert", "create"} /\ entities' = [entities EXCEPT ![call.ref] = call.life]
    <3>1. k # PublishOf(o)
      BY <1>1, <1>4, <2>1 DEF KubernetesWrites
    <3>2. call.life \in {"k8s"} \X Lives
      <4>1. ShownLife(v) \in Lives
        BY DEF ShownLife, Lives
      <4>2. CASE k = UpsertOf(o)
        <5>1. call.life = <<"k8s", ShownLife(v)>>
          BY <1>1, <1>4, <4>2 DEF KubernetesWrites
        <5> QED BY <4>1, <5>1
      <4>3. CASE k # UpsertOf(o)
        BY <1>1, <1>4, <2>1, <3>1, <4>3 DEF KubernetesWrites
      <4> QED BY <4>2, <4>3
    <3>3. PICK life : life = call.life /\ life \in Adapters \X Lives /\ life # Absent
      BY <3>2, AbsentIsNoLife DEF Adapters
    <3>4. k = UpsertOf(o) => call.ref = o /\ life = <<"k8s", ShownLife(v)>>
      BY <1>1, <1>4, <3>3 DEF KubernetesWrites
    <3>5. k # UpsertOf(o) => call.ref \notin Pods
      BY <1>1, <1>4, <2>1, <3>1 DEF KubernetesWrites
    <3> QED BY <1>1, <2>1, <3>3, <3>4, <3>5 DEF Objects
  <2>2. CASE UNCHANGED entities /\ call.op # "upsert"
    <3>1. k # UpsertOf(o)
      BY <1>1, <1>4, <2>2 DEF KubernetesWrites
    <3> QED BY <1>1, <2>2, <3>1
  <2> QED BY <1>6, <2>1, <2>2 DEF planeVars
<1>8. /\ applied' \in [Objects -> Seq(Nat)]
      /\ \A x \in Objects \ {o} : Untouched(x)
      /\ \/ k = PublishOf(o) /\ Taken(ob, o, v)
         \/ Untouched(o) /\ (k = PublishOf(o) => Applied(o, v))
  <2>1. CASE UNCHANGED <<cells, idempotency, applied>> /\ call.op # "publish"
    <3>1. k # PublishOf(o)
      BY <1>1, <1>4, <2>1 DEF KubernetesWrites
    <3>2. \A x : Untouched(x)
      BY <2>1 DEF Untouched
    <3> QED BY <1>1, <2>1, <3>1, <3>2
  <2>2. CASE /\ call.op \in {"publish", "conclude"}
             /\ FillCells(Admitted(call.updates)) /\ NoteApplied(Admitted(call.updates))
             /\ idempotency' = idempotency \cup {u.key : u \in Admitted(call.updates)}
    <3>1. k # UpsertOf(o)
      BY <1>1, <1>4, <2>2 DEF KubernetesWrites
    <3>2. CASE k = PublishOf(o)
      <4>1. call.updates = {Report(ob)}
        BY <1>1, <1>4, <3>2 DEF KubernetesWrites
      <4> QED BY <1>6, <2>2, <3>2, <4>1, PublishTakes
    <3>3. CASE k # PublishOf(o)
      <4>1. \A u \in call.updates : u.key[3] = u.slot /\ \A x \in Objects : u.slot # MainSlot(x)
        BY <1>1, <1>4, <2>2, <3>1, <3>3 DEF KubernetesWrites
      <4>2. PICK A : A = Admitted(call.updates)
        OBVIOUS
      <4>3. \A u \in A : u.key[3] = u.slot /\ \A x \in Objects : u.slot # MainSlot(x)
        BY <4>1, <4>2 DEF Admitted
      <4>4. applied' = applied
        <5>1. \A x \in Objects : ~ \E u \in A : Says(u, x)
          BY <4>3 DEF Says
        <5>2. applied' = [x \in Objects |-> applied[x]]
          BY <2>2, <4>2, <5>1 DEF NoteApplied
        <5> QED BY <1>1, <5>2
      <4>5. ASSUME NEW x \in Objects PROVE Untouched(x)
        <5>1. PICK slot \in Slots : slot = MainSlot(x)
          BY SlotsDiffer
        <5>2. cells'[slot] = cells[slot]
          BY <2>2, <4>2, <4>3, <5>1 DEF FillCells
        <5>3. ASSUME NEW w \in Nat PROVE Key(x, w) \in idempotency' <=> Key(x, w) \in idempotency
          <6>1. Key(x, w)[3] = MainSlot(x)
            BY DEF Key
          <6>2. \A u \in A : u.key # Key(x, w)
            BY <4>3, <6>1
          <6> QED BY <2>2, <4>2, <6>2
        <5> QED BY <4>4, <5>1, <5>2, <5>3 DEF Untouched, Key, MainSlot, Health, Ready
      <4> QED BY <1>1, <3>3, <4>4, <4>5
    <3> QED BY <3>2, <3>3
  <2> QED BY <1>6, <2>1, <2>2 DEF planeVars
<1>9. UNCHANGED <<cluster, compacted, now, watchVars>>
  BY <1>6 DEF clusterVars
<1> QED BY <1>5, <1>6, <1>7, <1>8, <1>9

\* A call brings its observation forward; the last one leaves it behind.
LEMMA CallKeeps ==
  ASSUME AdapterInv, Call("k8s")
  PROVE  AdapterInv'
<1>1. stage = "publish" /\ Pending # <<>>
  BY DEF Call, Idle, Pending
<1>2. PICK n \in Nat : n = Len(Pending) /\ DOMAIN Pending = 1..n /\ n # 0 /\ Pending \in Seq(Observations)
  <2>1. PICK s \in Seq(Observations) : s = Pending
    BY PendingIsSeq DEF AdapterInv
  <2>2. Len(s) # 0 /\ DOMAIN s = 1..Len(s) /\ Len(s) \in Nat
    BY <1>1, <2>1
  <2> QED BY <2>1, <2>2
<1>3. 1 \in DOMAIN Pending
  BY <1>2
<1>4. PICK ob : ob = Pending[1]
  OBVIOUS
<1>5. PICK o : o = ob.of
  OBVIOUS
<1>6. PICK v : v = VersionIn(ob)
  OBVIOUS
<1>7. PICK len \in Nat : len = Len(cluster)
  BY DEF AdapterInv, SourcesTyped
<1>8. /\ o \in Objects /\ v \in Versions(o, len) /\ v \in Nat /\ ob.id = <<o, v>> /\ ob.at \in 0..now
      /\ v <= next[KindOf(o)] /\ Latest(o, cursor[KindOf(o)]) <= v /\ v \in 1..len
  BY <1>3, <1>4, <1>5, <1>6, <1>7 DEF AdapterInv, PendingTyped, Versions
<1>9. PICK k \in 1..PublishOf(o) + 1 : k = done["k8s"] + 1
  <2>1. done["k8s"] \in Nat /\ done["k8s"] < PublishOf(o) + 1 /\ PublishOf(o) \in Nat
    BY <1>1, <1>4, <1>5 DEF AdapterInv, ProcessesTyped, Adapters, CallCount, Pending, PublishOf
  <2> QED BY <2>1
<1>10. UnderWay(ob, o, v, k)
  BY <1>1, <1>4, <1>5, <1>6, <1>7, <1>8, <1>9 DEF UnderWay
<1>11. /\ UNCHANGED <<cluster, compacted, now, cursor, stage, next, listed>>
       /\ done' = [done EXCEPT !["k8s"] = IF k = PublishOf(o) + 1 THEN 0 ELSE @ + 1]
       /\ todo' = [todo EXCEPT !["k8s"] = IF k = PublishOf(o) + 1 THEN Tail(@) ELSE @]
       /\ entities' \in [Refs -> {Absent} \cup (Adapters \X Lives)]
       /\ \A x \in Objects : entities[x] # Absent => entities'[x] # Absent
       /\ \A p \in Pods : entities'[p] = entities[p] \/ (k = UpsertOf(o) /\ p = o)
       /\ k = UpsertOf(o) => entities'[o] = <<"k8s", ShownLife(v)>> /\ entities'[o] # Absent
       /\ applied' \in [Objects -> Seq(Nat)]
       /\ \A x \in Objects \ {o} : Untouched(x)
       /\ \/ k = PublishOf(o) /\ Taken(ob, o, v)
          \/ Untouched(o) /\ (k = PublishOf(o) => Applied(o, v))
  BY <1>10, CallOnPlane DEF watchVars
<1>12. PICK d \in {0, 1} : d = 1 <=> k = PublishOf(o) + 1
  <2>1. CASE k = PublishOf(o) + 1
    BY <2>1
  <2>2. CASE k # PublishOf(o) + 1
    BY <2>2
  <2> QED BY <2>1, <2>2
<1>13. ProcessesTyped'
  <2>1. PICK isLast \in BOOLEAN : isLast <=> k = PublishOf(o) + 1
    OBVIOUS
  <2>2. isLast <=> done["k8s"] + 1 = CallCount("k8s", todo["k8s"][1])
    BY <1>4, <1>5, <1>9, <2>1 DEF CallCount, Pending
  <2>3. "k8s" \in Adapters /\ todo["k8s"] # <<>> /\ ProcessesTyped
    BY <1>1 DEF Adapters, Pending, AdapterInv
  <2>4. /\ done' = [done EXCEPT !["k8s"] = IF isLast THEN 0 ELSE @ + 1]
        /\ todo' = [todo EXCEPT !["k8s"] = IF isLast THEN Tail(@) ELSE @]
    BY <1>11, <2>1
  <2> QED BY <2>2, <2>3, <2>4, CallsProceed
<1>14. /\ DOMAIN Pending' = 1..n - d /\ done'["k8s"] = IF d = 1 THEN 0 ELSE k
       /\ \A i \in 1..n - d : i + d \in 1..n /\ Pending'[i] = Pending[i + d]
  <2>1. Pending' = IF d = 1 THEN Tail(Pending) ELSE Pending
    BY <1>11, <1>12 DEF AdapterInv, ProcessesTyped, Adapters, Pending
  <2>2. done'["k8s"] = IF d = 1 THEN 0 ELSE k
    BY <1>9, <1>11, <1>12 DEF AdapterInv, ProcessesTyped, Adapters
  <2>3. PICK s \in Seq(Observations) : s = Pending
    BY <1>2
  <2>4. CASE d = 1
    <3>1. Len(Tail(s)) = n - 1 /\ \A i \in 1..n - 1 : Tail(s)[i] = s[i + 1]
      BY <1>1, <1>2, <2>3
    <3>2. DOMAIN Tail(s) = 1..n - 1
      BY <1>1, <2>3, <3>1
    <3> QED BY <2>1, <2>2, <2>3, <2>4, <3>1, <3>2
  <2>5. CASE d = 0
    <3>1. n - d = n /\ \A i \in 1..n : i + d = i
      BY <2>5
    <3> QED BY <1>2, <2>1, <2>2, <2>5, <3>1
  <2> QED BY <2>2, <2>4, <2>5
<1>15. \A i \in 1..n - d : /\ Pending'[i].of = Pending[i + d].of /\ Pending'[i].at = Pending[i + d].at
                           /\ Pending'[i].id = Pending[i + d].id
                           /\ VersionIn(Pending'[i]) = VersionIn(Pending[i + d])
  BY <1>14 DEF VersionIn
<1>16. /\ \A x, j : Versions(x, j)' = Versions(x, j)
       /\ \A x, j : Latest(x, j)' = Latest(x, j)
       /\ \A w : ShownValue(w)' = ShownValue(w) /\ ShownLife(w)' = ShownLife(w)
  BY <1>11, HistoryStays
<1>17. d = 1 => Applied(o, v)
  <2>1. d = 1 => done["k8s"] >= PublishOf(o)
    BY <1>9, <1>12 DEF PublishOf, AdapterInv, ProcessesTyped, Adapters
  <2> QED BY <1>1, <1>4, <1>5, <1>6, <2>1 DEF AdapterInv, FirstUnderWay
<1>18. SourcesTyped'
  BY <1>1, <1>11 DEF AdapterInv, SourcesTyped
<1>19. PendingTyped'
  <2> SUFFICES ASSUME NEW i \in 1..n - d, NEW x, x = Pending'[i].of, NEW w, w = VersionIn(Pending'[i])
               PROVE  /\ x \in Objects /\ w \in Versions(x, len) /\ Pending'[i].id = <<x, w>>
                      /\ Pending'[i].at \in 0..now
                      /\ w <= next[KindOf(x)] /\ Latest(x, cursor[KindOf(x)]) <= w
    BY <1>7, <1>11, <1>14, <1>16 DEF PendingTyped, VersionIn
  <2>1. PICK j \in 1..n : j = i + d
    BY <1>14
  <2>2. x = Pending[j].of /\ w = VersionIn(Pending[j])
    BY <1>15, <2>1
  <2> QED BY <1>2, <1>7, <1>15, <2>1, <2>2 DEF AdapterInv, PendingTyped
<1>20. PendingInOrder'
  <2> SUFFICES ASSUME NEW i \in 1..n - d, NEW j \in 1..n - d, i < j
               PROVE  /\ Pending'[i].at <= Pending'[j].at
                      /\ Pending'[i].of = Pending'[j].of => VersionIn(Pending'[i]) < VersionIn(Pending'[j])
    BY <1>14 DEF PendingInOrder, VersionIn
  <2>1. PICK a \in 1..n : a = i + d
    BY <1>14
  <2>2. PICK b \in 1..n : b = j + d
    BY <1>14
  <2>3. a < b
    BY <2>1, <2>2
  <2> QED BY <1>2, <1>15, <2>1, <2>2, <2>3 DEF AdapterInv, PendingInOrder
<1>21. ASSUME NEW x \in Objects
       PROVE  \/ applied'[x] = applied[x]
              \/ /\ x = o /\ k = PublishOf(o) /\ d = 0 /\ applied'[o] = Append(applied[o], v)
                 /\ \A i \in DOMAIN applied[o] : applied[o][i] < v
  <2>1. PublishOf(o) # PublishOf(o) + 1
    BY DEF PublishOf
  <2> QED BY <1>11, <1>12, <2>1 DEF Untouched, Taken
<1>22. PICK s \in Seq(Nat) : s = applied[o]
  BY <1>8 DEF AdapterInv, PlaneTyped
<1>23. /\ Append(s, v) \in Seq(Nat) /\ Len(Append(s, v)) = Len(s) + 1 /\ Append(s, v) # <<>>
       /\ DOMAIN s = 1..Len(s) /\ DOMAIN Append(s, v) = 1..Len(s) + 1
       /\ \A i \in 1..Len(s) : Append(s, v)[i] = s[i] /\ i \in 1..Len(s) + 1
       /\ Append(s, v)[Len(s) + 1] = v
  BY <1>8, <1>22
<1>24. ASSUME applied'[o] = Append(s, v)
       PROVE  /\ \A w : Applied(o, w)' <=> (Applied(o, w) \/ w = v)
              /\ \A w : Reached(o, w) => Reached(o, w)'
              /\ Newest(o)' = v
  <2>1. \A i \in 1..Len(s) + 1 : i \in 1..Len(s) \/ i = Len(s) + 1
    BY <1>23
  <2>2. Len(s) + 1 \in 1..Len(s) + 1
    BY <1>23
  <2> QED BY <1>22, <1>23, <1>24, <2>1, <2>2 DEF Applied, Reached, Newest
<1>25. ASSUME NEW x, applied'[x] = applied[x]
       PROVE  \A w : /\ Applied(x, w)' = Applied(x, w) /\ Reached(x, w)' = Reached(x, w)
                     /\ Fits(x, w)' = Fits(x, w) /\ Newest(x)' = Newest(x)
  BY <1>25 DEF Applied, Reached, Fits, Newest
<1>26. \A x \in Objects : \A w : (Applied(x, w) => Applied(x, w)') /\ (Reached(x, w) => Reached(x, w)')
  BY <1>21, <1>22, <1>24, <1>25
<1>27. ASSUME NEW x \in Objects, NEW w \in Nat, Fits(x, w), x = o => v <= w
       PROVE  Fits(x, w)'
  <2>1. CASE applied'[x] = applied[x]
    BY <1>25, <1>27, <2>1
  <2>2. CASE /\ x = o /\ applied'[o] = Append(applied[o], v)
             /\ \A i \in DOMAIN applied[o] : applied[o][i] < v
    <3>1. CASE w = v
      BY <1>22, <1>24, <2>2, <3>1 DEF Fits
    <3>2. CASE v < w
      <4>1. \A i \in 1..Len(s) + 1 : i \in 1..Len(s) \/ i = Len(s) + 1
        BY <1>23
      <4>2. \A i \in 1..Len(s) : s[i] < w
        <5>1. \A i \in 1..Len(s) : s[i] \in Nat
          BY <1>22
        <5>2. \A i \in 1..Len(s) : s[i] < v
          <6>1. DOMAIN s = 1..Len(s)
            BY <1>23
          <6> QED BY <1>22, <2>2, <6>1
        <5> QED BY <1>8, <3>2, <5>1, <5>2
      <4>3. \A i \in DOMAIN applied'[o] : applied'[o][i] < w
        BY <1>22, <1>23, <2>2, <3>2, <4>1, <4>2
      <4> QED BY <2>2, <4>3 DEF Fits
    <3> QED BY <1>8, <1>27, <2>2, <3>1, <3>2
  <2> QED BY <1>21, <2>1, <2>2
<1>28. ASSUME NEW i \in 1..n, Pending[i].of = o PROVE v <= VersionIn(Pending[i]) /\ VersionIn(Pending[i]) \in Nat
  <2>1. VersionIn(Pending[i]) \in Nat
    BY <1>2, <1>28 DEF AdapterInv, PendingTyped, Versions
  <2>2. i # 1 => VersionIn(Pending[1]) < VersionIn(Pending[i])
    <3>1. ASSUME i # 1 PROVE 1 \in DOMAIN Pending /\ i \in DOMAIN Pending /\ 1 < i
      BY <1>2, <1>4, <3>1
    <3>2. Pending[1].of = o
      BY <1>3, <1>4, <1>5
    <3> QED BY <1>28, <3>1, <3>2 DEF AdapterInv, PendingInOrder
  <2> QED BY <1>4, <1>6, <1>8, <2>1, <2>2
<1>29. FirstUnderWay'
  <2> SUFFICES ASSUME d = 0, Pending' # <<>>
               PROVE  /\ k >= UpsertOf(o) => entities'[o] # Absent
                      /\ k >= PublishOf(o) => Applied(o, v)'
    <3>1. d = 1 => done'["k8s"] = 0
      BY <1>14
    <3>2. d = 0 => done'["k8s"] = k /\ Pending'[1] = ob /\ Pending'[1].of = o /\ VersionIn(Pending'[1]) = v
      BY <1>2, <1>4, <1>5, <1>6, <1>14 DEF VersionIn
    <3>3. \A x : UpsertOf(x) > 0 /\ PublishOf(x) > 0
      BY DEF UpsertOf, PublishOf
    <3> QED BY <1>12, <3>1, <3>2, <3>3 DEF FirstUnderWay, UpsertOf, PublishOf, VersionIn
  <2>1. k > UpsertOf(o) => entities[o] # Absent
    BY <1>1, <1>4, <1>5, <1>9 DEF AdapterInv, FirstUnderWay, UpsertOf, PublishOf, ProcessesTyped, Adapters
  <2>2. k > PublishOf(o) => Applied(o, v)
    BY <1>1, <1>4, <1>5, <1>6, <1>9 DEF AdapterInv, FirstUnderWay, UpsertOf, PublishOf, ProcessesTyped, Adapters
  <2>3. k = PublishOf(o) => Applied(o, v)'
    <3>1. CASE Taken(ob, o, v)
      BY <1>22, <1>24, <3>1 DEF Taken
    <3>2. CASE Applied(o, v)
      BY <1>8, <1>26, <3>2
    <3> QED BY <1>11, <3>1, <3>2
  <2>4. k \in Nat /\ UpsertOf(o) \in Nat /\ PublishOf(o) \in Nat
    BY <1>9 DEF UpsertOf, PublishOf
  <2> QED BY <1>8, <1>11, <1>26, <2>1, <2>2, <2>3, <2>4
<1>30. PlaneTyped'
  <2>1. ASSUME NEW x \in Objects PROVE \A i \in DOMAIN applied'[x] : applied'[x][i] \in Versions(x, len)
    <3>1. CASE applied'[x] = applied[x]
      BY <1>7, <3>1 DEF AdapterInv, PlaneTyped
    <3>2. CASE x = o /\ applied'[o] = Append(s, v)
      <4>1. \A i \in 1..Len(s) + 1 : i \in 1..Len(s) \/ i = Len(s) + 1
        BY <1>23
      <4>2. \A i \in 1..Len(s) : s[i] \in Versions(o, len)
        BY <1>7, <1>8, <1>22, <1>23 DEF AdapterInv, PlaneTyped
      <4> QED BY <1>8, <1>23, <3>2, <4>1, <4>2
    <3> QED BY <1>21, <1>22, <3>1, <3>2
  <2> QED BY <1>7, <1>11, <1>16, <2>1 DEF PlaneTyped
<1>31. KeysMatch'
  <2> SUFFICES ASSUME NEW x \in Objects, NEW w \in Nat
               PROVE  Key(x, w) \in idempotency' <=> Applied(x, w)'
    BY DEF KeysMatch, Key, MainSlot, Health, Ready
  <2>1. Key(x, w) \in idempotency <=> Applied(x, w)
    BY DEF AdapterInv, KeysMatch, Key
  <2>2. CASE Untouched(x)
    <3>1. Applied(x, w)' = Applied(x, w)
      BY <1>25, <2>2 DEF Untouched
    <3> QED BY <2>1, <2>2, <3>1 DEF Untouched
  <2>3. CASE x = o /\ Taken(ob, o, v)
    <3>1. Applied(o, w)' <=> (Applied(o, w) \/ w = v)
      BY <1>22, <1>24, <2>3 DEF Taken
    <3>2. Key(o, w) \in idempotency' <=> (Key(o, w) \in idempotency \/ w = v)
      BY <2>3 DEF Taken
    <3> QED BY <2>1, <2>3, <3>1, <3>2
  <2> QED BY <1>11, <2>2, <2>3
<1>32. CellsMatch'
  <2> SUFFICES ASSUME NEW x \in Objects, cells'[MainSlot(x)] # Absent
               PROVE  /\ cells'[MainSlot(x)].authority \in Authorities
                      /\ cells'[MainSlot(x)].authority = 4 =>
                            /\ applied'[x] # <<>> /\ cells'[MainSlot(x)].value = ShownValue(Newest(x))'
                            /\ cells'[MainSlot(x)].timestamp \in 0..now
                            /\ \A i \in 1..n - d : cells'[MainSlot(x)].timestamp <= Pending'[i].at
    BY <1>11, <1>14 DEF CellsMatch, MainSlot, Health, Ready
  <2>1. CASE Untouched(x)
    <3>1. cells'[MainSlot(x)] = cells[MainSlot(x)] /\ applied'[x] = applied[x]
      BY <2>1 DEF Untouched
    <3>2. ShownValue(Newest(x))' = ShownValue(Newest(x))
      BY <1>11, <3>1 DEF ShownValue, Newest
    <3> QED BY <1>2, <1>14, <1>15, <3>1, <3>2 DEF AdapterInv, CellsMatch
  <2>2. CASE x = o /\ Taken(ob, o, v)
    <3>1. /\ applied'[o] = Append(s, v) /\ Newest(o)' = v
          /\ cells'[MainSlot(o)].authority = 4 /\ cells'[MainSlot(o)].timestamp = ob.at
          /\ cells'[MainSlot(o)].value = ShownValue(v)
      BY <1>22, <1>24, <2>2 DEF Taken
    <3>2. ShownValue(Newest(o))' = ShownValue(v)
      BY <1>11, <3>1 DEF ShownValue
    <3>3. \A i \in 1..n : ob.at <= Pending[i].at
      <4> SUFFICES ASSUME NEW i \in 1..n PROVE ob.at <= Pending[i].at
        OBVIOUS
      <4>1. CASE i = 1
        BY <1>4, <1>8, <4>1
      <4>2. CASE 1 < i
        BY <1>2, <1>3, <1>4, <4>2 DEF AdapterInv, PendingInOrder
      <4> QED BY <4>1, <4>2
    <3>4. \A i \in 1..n - d : ob.at <= Pending'[i].at
      BY <1>14, <1>15, <3>3
    <3> QED BY <1>8, <1>23, <2>2, <3>1, <3>2, <3>4 DEF Authorities
  <2> QED BY <1>11, <2>1, <2>2
<1>33. VersionsInOrder'
  <2> SUFFICES ASSUME NEW x \in Objects, NEW i \in DOMAIN applied'[x], NEW j \in DOMAIN applied'[x], i < j
               PROVE  applied'[x][i] < applied'[x][j]
    BY DEF VersionsInOrder
  <2>1. CASE applied'[x] = applied[x]
    BY <2>1 DEF AdapterInv, VersionsInOrder
  <2>2. CASE /\ x = o /\ applied'[o] = Append(s, v)
             /\ \A a \in DOMAIN applied[o] : applied[o][a] < v
    <3>1. i \in 1..Len(s) /\ (j \in 1..Len(s) \/ j = Len(s) + 1)
      BY <1>22, <1>23, <2>2
    <3>2. Append(s, v)[i] = s[i] /\ s[i] < v
      BY <1>22, <1>23, <2>2, <3>1
    <3>3. j \in 1..Len(s) => Append(s, v)[j] = s[j] /\ s[i] < s[j]
      BY <1>8, <1>22, <1>23, <3>1 DEF AdapterInv, VersionsInOrder
    <3> QED BY <1>23, <2>2, <3>1, <3>2, <3>3
  <2> QED BY <1>21, <1>22, <2>1, <2>2
<1>34. CanGoOn'
  <2>1. Stale' = Stale
    BY <1>11 DEF Stale, Expired, Initialized
  <2>2. AllFit'
    <3> SUFFICES ASSUME NEW i \in 1..n - d, NEW x, x = Pending'[i].of, NEW w, w = VersionIn(Pending'[i])
                 PROVE  Fits(x, w)'
      BY <1>14 DEF AllFit, Fits, Applied, VersionIn
    <3>1. PICK j \in 1..n : j = i + d
      BY <1>14
    <3>2. x = Pending[j].of /\ w = VersionIn(Pending[j])
      BY <1>15, <3>1
    <3>3. Fits(x, w)
      BY <1>1, <1>2, <3>2 DEF AdapterInv, CanGoOn, AllFit
    <3>4. x \in Objects /\ w \in Nat
      BY <1>2, <3>2 DEF AdapterInv, PendingTyped, Versions
    <3>5. x = o => v <= w
      BY <1>28, <3>2
    <3> QED BY <1>27, <3>3, <3>4, <3>5
  <2>3. ASSUME NEW kind \in Kinds, NEW from, GapFree(kind, from), from \in Nat,
               \A w \in Versions(o, len) : KindOf(o) = kind /\ from < w /\ w < v => Applied(o, w)
        PROVE  GapFree(kind, from)'
    <3> SUFFICES ASSUME NEW x \in Objects, NEW w \in Versions(x, len), KindOf(x) = kind, w > from
                 PROVE  Fits(x, w)'
      BY <1>7, <1>11, <1>16 DEF GapFree, Fits, Applied, KindOf
    <3>1. Fits(x, w)
      BY <1>7, <2>3 DEF GapFree
    <3>2. w \in Nat
      BY DEF Versions
    <3>3. CASE x = o /\ w < v
      <4>1. Applied(o, w)'
        BY <1>8, <1>26, <2>3, <3>2, <3>3
      <4> QED BY <3>3, <4>1 DEF Fits
    <3>4. CASE x = o => v <= w
      BY <1>27, <3>1, <3>2, <3>4
    <3> QED BY <1>8, <3>2, <3>3, <3>4
  <2>4. /\ \A kind \in Kinds : next[kind] # 0 /\ GapFree(kind, next[kind]) /\ next[kind] \in Nat
        /\ \A kind \in Kinds : cursor[kind] \in Nat
    BY <1>1, <1>7 DEF AdapterInv, CanGoOn, Kinds, SourcesTyped
  <2>5. \A kind \in Kinds : GapFree(kind, next[kind])'
    <3> SUFFICES ASSUME NEW kind \in Kinds, NEW from \in Nat, from = next[kind]
                 PROVE  GapFree(kind, from)'
      BY <1>11, <2>4 DEF GapFree
    <3>1. \A w \in Versions(o, len) : ~ (KindOf(o) = kind /\ from < w /\ w < v)
      BY <1>8 DEF Versions
    <3> QED BY <2>3, <2>4, <3>1
  <2>6. ASSUME Resumable PROVE Resumable'
    <3>1. ASSUME NEW kind \in Kinds, NEW from \in Nat, from = cursor[kind] PROVE GapFree(kind, from)'
      <4>1. GapFree(kind, from)
        BY <2>6, <3>1 DEF Resumable
      <4>2. \A w \in Versions(o, len) : KindOf(o) = kind /\ from < w /\ w < v => Applied(o, w)
        <5>1. \A j \in 1..1 - 1 : FALSE
          OBVIOUS
        <5> QED BY <1>3, <1>4, <1>5, <1>6, <1>7, <2>6, <3>1, <5>1 DEF Resumable, NoneSkipped
      <4> QED BY <2>3, <4>1, <4>2
    <3>2. \A kind \in Kinds : GapFree(kind, cursor[kind])'
      <4>1. \A kind \in Kinds : \A from \in Nat : from = cursor[kind] => GapFree(kind, from)'
        BY <3>1
      <4> QED BY <1>11, <2>4, <4>1 DEF GapFree
    <3>3. NoneSkipped'
      <4>0. /\ \A x, j : Versions(x, j)' = Versions(x, j)
            /\ UNCHANGED <<cluster, cursor>>
        BY <1>11, <1>16
      <4> SUFFICES ASSUME NEW i \in DOMAIN Pending', NEW x, x = Pending'[i].of,
                          NEW w \in Versions(x, Len(cluster)),
                          cursor[KindOf(x)] < w, w < VersionIn(Pending'[i])
                   PROVE  \/ \E j \in DOMAIN applied'[x] : applied'[x][j] = w
                          \/ \E j \in 1..i - 1 : Pending'[j].of = x /\ VersionIn(Pending'[j]) = w
        BY <4>0 DEF NoneSkipped, VersionIn, Applied
      <4>1. PICK a \in 1..n : a = i + d /\ i \in 1..n - d
        BY <1>14
      <4>2. x = Pending[a].of /\ w < VersionIn(Pending[a]) /\ x \in Objects
        BY <1>2, <1>15, <4>1 DEF AdapterInv, PendingTyped
      <4>3. CASE Applied(x, w)
        BY <1>26, <4>2, <4>3 DEF Applied
      <4>4. CASE \E j \in 1..a - 1 : Pending[j].of = x /\ VersionIn(Pending[j]) = w
        <5>1. PICK j \in 1..a - 1 : Pending[j].of = x /\ VersionIn(Pending[j]) = w
          BY <4>4
        <5>2. CASE j = 1 /\ d = 1
          <6>1. x = o /\ w = v
            BY <1>4, <1>5, <1>6, <5>1, <5>2
          <6>2. Applied(o, v)'
            BY <1>8, <1>17, <1>26, <5>2
          <6> QED BY <6>1, <6>2 DEF Applied
        <5>3. CASE ~ (j = 1 /\ d = 1)
          <6>1. j - d \in 1..i - 1 /\ j - d \in 1..n - d /\ (j - d) + d = j
            BY <4>1, <5>3
          <6> QED BY <1>15, <5>1, <6>1
        <5> QED BY <5>2, <5>3
      <4> QED BY <1>2, <1>7, <2>6, <4>1, <4>2, <4>3, <4>4 DEF Resumable, NoneSkipped
    <3> QED BY <3>2, <3>3 DEF Resumable
  <2> QED BY <1>1, <1>11, <2>1, <2>2, <2>4, <2>5, <2>6 DEF AdapterInv, CanGoOn, Kinds
<1>35. ASSUME NEW x \in Objects
       PROVE  /\ Known(x, cursor)' = Known(x, cursor) /\ Known(x, next)' = Known(x, next)
              /\ Latest(x, cursor[KindOf(x)])' = Latest(x, cursor[KindOf(x)])
              /\ Latest(x, next[KindOf(x)])' = Latest(x, next[KindOf(x)])
  <2>1. \A w : Lost(w)' = Lost(w)
    BY <1>11 DEF Lost
  <2>2. /\ Latest(x, cursor[KindOf(x)])' = Latest(x, cursor[KindOf(x)])
        /\ Latest(x, next[KindOf(x)])' = Latest(x, next[KindOf(x)])
    BY <1>11, <1>16
  <2> QED BY <2>1, <2>2 DEF Known, Lost
<1>36. CursorCovered'
  <2> SUFFICES ASSUME NEW x \in Objects, Known(x, cursor), NEW w, w = Latest(x, cursor[KindOf(x)])
               PROVE  Reached(x, w)'
    BY <1>35 DEF CursorCovered, Reached
  <2> QED BY <1>26 DEF AdapterInv, CursorCovered
<1>37. NextCovered'
  <2> SUFFICES ASSUME NEW x \in Objects, Known(x, next), NEW w, w = Latest(x, next[KindOf(x)])
               PROVE  \/ Reached(x, w)'
                      \/ \E i \in 1..n - d : Pending'[i].of = x /\ VersionIn(Pending'[i]) >= w
    BY <1>14, <1>35 DEF NextCovered, Reached, VersionIn
  <2>1. CASE Reached(x, w)
    BY <1>26, <2>1
  <2>2. CASE \E i \in 1..n : Pending[i].of = x /\ VersionIn(Pending[i]) >= w
    <3>1. PICK i \in 1..n : Pending[i].of = x /\ VersionIn(Pending[i]) >= w
      BY <2>2
    <3>2. CASE i = 1 /\ d = 1
      <4>1. x = o /\ v >= w
        BY <1>4, <1>5, <1>6, <3>1, <3>2
      <4>2. Reached(o, w)
        BY <1>17, <3>2, <4>1 DEF Applied, Reached
      <4> QED BY <1>26, <4>1, <4>2
    <3>3. CASE ~ (i = 1 /\ d = 1)
      <4>1. i - d \in 1..n - d /\ (i - d) + d = i
        BY <3>3
      <4> QED BY <1>15, <3>1, <4>1
    <3> QED BY <3>2, <3>3
  <2> QED BY <1>2, <2>1, <2>2 DEF AdapterInv, NextCovered
<1>38. ASSUME NEW p \in Pods, entities'[p] = entities[p]
       PROVE  \A w : Shows(p, w)' = Shows(p, w)
  BY <1>11, <1>16, <1>38 DEF Shows
<1>39. ASSUME k = UpsertOf(o), NEW w \in Nat, v >= w
       PROVE  Shows(o, w)'
  <2>1. entities'[o][2] = ShownLife(v)' /\ v \in Versions(o, Len(cluster))'
    BY <1>7, <1>8, <1>11, <1>16, <1>39
  <2> QED BY <1>39, <2>1 DEF Shows
<1>40. CursorShown'
  <2> SUFFICES ASSUME NEW p \in Pods, Known(p, cursor), NEW w, w = Latest(p, cursor[KindOf(p)])
               PROVE  Shows(p, w)'
    BY <1>35 DEF CursorShown, Shows, Objects
  <2>1. CASE entities'[p] = entities[p]
    BY <1>38, <2>1 DEF AdapterInv, CursorShown
  <2>2. CASE k = UpsertOf(o) /\ p = o
    <3>1. w \in Nat
      <4>1. cursor[KindOf(p)] \in Nat
        BY <1>7 DEF AdapterInv, SourcesTyped, KindOf, Kinds
      <4>2. w \in 0..cursor[KindOf(p)]
        BY <4>1, LatestIs
      <4> QED BY <4>1, <4>2
    <3> QED BY <1>8, <1>39, <2>2, <3>1
  <2> QED BY <1>11, <2>1, <2>2
<1>41. NextShown'
  <2> SUFFICES ASSUME NEW p \in Pods, Known(p, next), NEW w, w = Latest(p, next[KindOf(p)]),
                      NEW up, up = {i \in 1..n - d : Pending'[i].of = p /\ (i = 1 => done'["k8s"] < 2)}
               PROVE  IF up = {} THEN Shows(p, w)' ELSE \E i \in up : VersionIn(Pending'[i]) >= w
    BY <1>14, <1>35 DEF NextShown, ToUpsert, Shows, VersionIn, Objects
  <2>1. w \in Nat
    <3>1. next[KindOf(p)] \in Nat
      BY <1>7 DEF AdapterInv, SourcesTyped, KindOf, Kinds
    <3>2. w \in 0..next[KindOf(p)]
      BY <3>1, LatestIs
    <3> QED BY <3>1, <3>2
  <2>2. \/ ToUpsert(p) = {} /\ Shows(p, w)
        \/ \E i \in ToUpsert(p) : VersionIn(Pending[i]) >= w
    BY DEF AdapterInv, NextShown
  <2>3. \A i : i \in ToUpsert(p) <=> i \in 1..n /\ Pending[i].of = p /\ (i = 1 => k < 3)
    <3>1. done["k8s"] \in Nat
      BY DEF AdapterInv, ProcessesTyped, Adapters
    <3> QED BY <1>2, <1>9, <3>1 DEF ToUpsert
  <2>4. p = o => UpsertOf(o) = 2 /\ PublishOf(o) = 5
    BY NodesAndPods DEF UpsertOf, PublishOf
  <2>5. CASE p = o /\ k = 2
    <3>1. d = 0
      BY <1>12, <2>4, <2>5
    <3>2. \A i \in 1..n : i \in up <=> Pending[i].of = o /\ i # 1
      BY <1>14, <1>15, <2>5, <3>1
    <3>3. CASE up = {}
      <4>1. PICK i \in ToUpsert(p) : VersionIn(Pending[i]) >= w
        <5>1. 1 \in ToUpsert(p)
          BY <1>2, <1>4, <1>5, <2>3, <2>5
        <5> QED BY <2>2, <5>1
      <4>2. i = 1
        BY <2>3, <2>5, <3>2, <3>3, <4>1
      <4>3. v >= w
        BY <1>4, <1>6, <4>1, <4>2
      <4> QED BY <1>39, <2>1, <2>4, <2>5, <3>3, <4>3
    <3>4. CASE up # {}
      <4>1. PICK j : j \in up
        BY <3>4
      <4>2. j \in 1..n /\ Pending[j].of = o /\ j # 1 /\ VersionIn(Pending'[j]) = VersionIn(Pending[j])
        <5>1. j \in 1..n
          BY <3>1, <4>1
        <5> QED BY <1>15, <3>1, <3>2, <4>1, <5>1
      <4>3. PICK i \in ToUpsert(p) : VersionIn(Pending[i]) >= w
        <5>1. j \in ToUpsert(p)
          BY <2>3, <2>5, <4>2
        <5> QED BY <2>2, <5>1
      <4>4. CASE i = 1
        <5>1. v >= w /\ v <= VersionIn(Pending[j]) /\ VersionIn(Pending[j]) \in Nat
          BY <1>4, <1>6, <1>28, <4>2, <4>3, <4>4
        <5> QED BY <1>8, <2>1, <3>4, <4>1, <4>2, <5>1
      <4>5. CASE i # 1
        <5>1. i \in up /\ VersionIn(Pending'[i]) = VersionIn(Pending[i])
          BY <1>15, <2>3, <2>5, <3>1, <3>2, <4>3, <4>5
        <5> QED BY <3>4, <4>3, <5>1
      <4> QED BY <4>4, <4>5
    <3> QED BY <3>3, <3>4
  <2>6. CASE ~ (p = o /\ k = 2)
    <3>1. entities'[p] = entities[p]
      BY <1>11, <2>4, <2>6
    <3>2. 1 \in ToUpsert(p) => d = 0
      <4> SUFFICES ASSUME 1 \in ToUpsert(p), d = 1 PROVE FALSE
        OBVIOUS
      <4>1. p = o /\ k < 3
        BY <1>4, <1>5, <2>3
      <4> QED BY <1>12, <2>4, <4>1
    <3>3. ASSUME NEW i \in 1..n - d PROVE i \in up <=> i + d \in ToUpsert(p)
      <4>1. i + d \in 1..n /\ Pending'[i].of = Pending[i + d].of
        BY <1>14, <1>15
      <4>2. CASE i = 1 /\ d = 0
        <5>1. Pending[1].of = p => p = o
          BY <1>4, <1>5
        <5>2. i + d = 1 /\ done'["k8s"] = k
          BY <1>14, <4>2
        <5> QED BY <2>3, <2>6, <4>1, <4>2, <5>1, <5>2
      <4>3. CASE d = 1
        <5>1. done'["k8s"] < 2 /\ i + d # 1
          BY <1>14, <4>3
        <5> QED BY <2>3, <4>1, <5>1
      <4>4. CASE i # 1 /\ d = 0
        <5>1. i + d = i
          BY <4>4
        <5> QED BY <2>3, <4>1, <4>4, <5>1
      <4> QED BY <4>2, <4>3, <4>4
    <3>4. ASSUME NEW i \in ToUpsert(p)
          PROVE  i - d \in up /\ VersionIn(Pending'[i - d]) = VersionIn(Pending[i])
      <4>1. i \in 1..n /\ (i = 1 => d = 0)
        BY <2>3, <3>2
      <4>2. i - d \in 1..n - d /\ (i - d) + d = i
        BY <4>1
      <4> QED BY <1>15, <3>3, <4>2
    <3>5. CASE ToUpsert(p) = {} /\ Shows(p, w)
      <4>1. up = {}
        BY <3>3, <3>5
      <4> QED BY <1>38, <3>1, <3>5, <4>1
    <3>6. CASE \E i \in ToUpsert(p) : VersionIn(Pending[i]) >= w
      <4>1. PICK i \in ToUpsert(p) : VersionIn(Pending[i]) >= w
        BY <3>6
      <4> QED BY <3>4, <4>1
    <3> QED BY <2>2, <3>5, <3>6
  <2> QED BY <2>5, <2>6
<1> QED BY <1>13, <1>18, <1>19, <1>20, <1>29, <1>30, <1>31, <1>32, <1>33, <1>34, <1>36, <1>37, <1>40,
           <1>41 DEF AdapterInv

(***************************************************************************)
(* The theorem                                                             *)
(***************************************************************************)

LEMMA InitEstablishes ==
  ASSUME Init
  PROVE  AdapterInv
<1>1. PICK len \in Nat : len = Len(cluster) /\ len # 0 /\ cluster \in Seq(Change) /\ cluster # <<>>
  BY ClusterHistory DEF Init
<1>2. Pending = <<>> /\ DOMAIN Pending = {} /\ stage = "idle" /\ done["k8s"] = 0 /\ ~ Initialized
  BY DEF Init, Pending, Adapters, Initialized, NoVersions, Kinds
<1>3. SourcesTyped
  BY <1>1, <1>2 DEF Init, SourcesTyped, Stages, NoVersions
<1>4. ProcessesTyped
  BY DEF Init, ProcessesTyped
<1>5. PlaneTyped
  BY DEF Init, PlaneTyped
<1>6. \A o \in Objects : \A v : ~ Applied(o, v)
  BY DEF Init, Applied
<1>7. KeysMatch
  BY <1>6 DEF Init, KeysMatch
<1>8. \A o \in Objects : cells[MainSlot(o)] = Absent
  BY SlotsDiffer DEF Init
<1>9. CellsMatch
  BY <1>8 DEF CellsMatch
<1>10. VersionsInOrder
  BY DEF Init, VersionsInOrder
<1>11. CanGoOn
  BY <1>2 DEF CanGoOn, Stale
<1>12. \A o : ~ Known(o, cursor) /\ ~ Known(o, next)
  <2>1. \A o : Latest(o, 0) = 0 /\ KindOf(o) \in Kinds
    BY LatestIs DEF KindOf, Kinds
  <2> QED BY <2>1 DEF Init, Known, NoVersions
<1>13. PendingTyped /\ PendingInOrder /\ FirstUnderWay
  BY <1>2 DEF PendingTyped, PendingInOrder, FirstUnderWay
<1>14. CursorCovered /\ NextCovered /\ CursorShown /\ NextShown
  BY <1>12 DEF CursorCovered, NextCovered, CursorShown, NextShown, Objects
<1> QED BY <1>3, <1>4, <1>5, <1>7, <1>9, <1>10, <1>11, <1>13, <1>14 DEF AdapterInv

LEMMA StepsKeep ==
  ASSUME AdapterInv, [Next]_vars
  PROVE  AdapterInv'
<1>1. CASE \E change \in Changes : ChangeCluster(change)
  BY <1>1, ChangeKeeps
<1>2. CASE Compact \/ Tick
  BY <1>2, EnvironmentIsQuiet, QuietKeeps
<1>3. CASE KubernetesStep
  <2>1. CASE \E kind \in Kinds : Watch(kind)
    BY <2>1, WatchKeeps
  <2>2. CASE \E kind \in Kinds : List(kind)
    BY <2>2, ListKeeps
  <2> QED BY <1>3, <2>1, <2>2, CallKeeps, MoveKeeps DEF KubernetesStep
<1>4. CASE \E a \in Pollers : Poll(a) \/ Call(a)
  BY <1>4, PollingIsQuiet, CallingIsQuiet, QuietKeeps
<1>5. CASE \E a \in Adapters : Raise(a)
  BY <1>5, RaiseKeeps, RaisingIsQuiet, QuietKeeps DEF Adapters
<1>6. CASE UNCHANGED vars
  <2>1. Quiet
    <3>1. UNCHANGED <<cluster, compacted, now, cursor, stage, next, listed, todo, done, planeVars>>
      BY <1>6 DEF vars, clusterVars, watchVars, processVars
    <3>2. ProcessesTyped'
      BY <3>1 DEF AdapterInv, ProcessesTyped
    <3> QED BY <3>1, <3>2 DEF Quiet, planeVars, Pending, AdapterInv, SourcesTyped, PlaneTyped
  <2> QED BY <2>1, QuietKeeps
<1> QED BY <1>1, <1>2, <1>3, <1>4, <1>5, <1>6 DEF Next

\* What is covered is the newest the plane took, or older.
LEMMA ShownIsNewest ==
  ASSUME AdapterInv
  PROVE  PlaneFollowsCluster
<1>1. ASSUME NEW o \in Objects, NEW v, Reached(o, v), v \in Nat
      PROVE  applied[o] # <<>> /\ Newest(o) >= v
  <2>1. PICK s \in Seq(Nat) : s = applied[o]
    BY DEF AdapterInv, PlaneTyped
  <2>2. PICK i \in 1..Len(s) : s[i] >= v
    BY <1>1, <2>1 DEF Reached
  <2>3. Len(s) \in 1..Len(s) /\ s # <<>> /\ s[i] \in Nat /\ s[Len(s)] \in Nat
    BY <2>1
  <2>4. i < Len(s) => s[i] < s[Len(s)]
    BY <2>1, <2>3 DEF AdapterInv, VersionsInOrder
  <2>5. s[Len(s)] >= v
    BY <1>1, <2>2, <2>3, <2>4
  <2> QED BY <2>1, <2>3, <2>5 DEF Newest
<1>2. ValueIsNewest
  BY DEF AdapterInv, CellsMatch, ValueIsNewest
<1>3. NothingPassedOver
  <2> SUFFICES ASSUME NEW o \in Objects, NEW v, v = Latest(o, cursor[KindOf(o)]), v # 0, ~ Lost(v)
               PROVE  /\ applied[o] # <<>> /\ Newest(o) >= v
                      /\ o \in Pods /\ entities[o][1] = "k8s" =>
                             \E w \in Versions(o, Len(cluster)) : w >= v /\ entities[o][2] = ShownLife(w)
    BY DEF NothingPassedOver
  <2>1. Known(o, cursor)
    BY DEF Known
  <2>2. v \in Nat
    <3>1. cursor[KindOf(o)] \in Nat
      BY DEF AdapterInv, SourcesTyped, KindOf, Kinds
    <3>2. v \in 0..cursor[KindOf(o)]
      BY <3>1, LatestIs
    <3> QED BY <3>1, <3>2
  <2>3. Reached(o, v)
    BY <2>1 DEF AdapterInv, CursorCovered
  <2>4. o \in Pods => Shows(o, v)
    BY <2>1 DEF AdapterInv, CursorShown
  <2> QED BY <1>1, <2>2, <2>3, <2>4 DEF Shows
<1> QED BY <1>2, <1>3 DEF AdapterInv, PlaneFollowsCluster

\* Whatever fails, expires, is retried or is called in between, the plane takes the
\* versions of an object in their order and each once, holds the newest it took,
\* and has taken all there is up to the cursor (collect_kubernetes, relist,
\* KubernetesStateAdapter.publish, _publish_one).
THEOREM PlaneFollows == Spec => []PlaneFollowsCluster
<1>1. Init => AdapterInv
  BY InitEstablishes
<1>2. AdapterInv /\ [Next]_vars => AdapterInv'
  BY StepsKeep
<1>3. AdapterInv => PlaneFollowsCluster
  BY ShownIsNewest
<1> QED BY <1>1, <1>2, <1>3, PTL DEF Spec
=============================================================================
