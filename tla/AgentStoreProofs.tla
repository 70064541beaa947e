-------------------------- MODULE AgentStoreProofs --------------------------
(***************************************************************************)
(* The ordering guarantees of AgentStateStore, proved for every set of     *)
(* events, sessions, threads and decisions, provided that no producer      *)
(* patches the header of a state; that the sections of a session agree     *)
(* with its log, if events that raise do so before anything is assigned;   *)
(* what its callbacks hear, and what the reporter in front of it keeps,    *)
(* proved without a proviso.                                               *)
(***************************************************************************)
EXTENDS HarnessReporter, SequenceTheorems, FiniteSetTheorems, TLAPS

NoHeaderPatches == \A e \in Events : ~ Has(e, "header")

(***************************************************************************)
(* Orders                                                                  *)
(***************************************************************************)
LEMMA BeforeIsTransitive ==
    ASSUME NEW a \in Orders, NEW b \in Orders, NEW c \in Orders, Before(a, b), Before(b, c)
    PROVE  Before(a, c)
BY DEF Orders, Before

LEMMA BeforeIsIrreflexive ==
    ASSUME NEW a \in Orders
    PROVE  ~ Before(a, a)
BY DEF Orders, Before

LEMMA OrderOfIsOrder ==
    ASSUME TypeOK, NEW e \in Events
    PROVE  /\ e.session \in Sessions /\ OrderOf(e) \in Orders
           /\ e.sequence > 0 => OrderOf(e) = <<e.epoch, e.sequence>>
BY EventsAreTyped DEF TypeOK, OrderOf, Orders

\* A decision's version lies above the last order of its session.
LEMMA DecisionAdvances ==
    ASSUME TypeOK, NEW s \in Sessions
    PROVE  DecisionOrder(s) \in Orders /\ Before(order[s], DecisionOrder(s))
<1>1. header[s] \in Orders \cup {Absent} /\ order[s] \in Orders
  BY DEF TypeOK
<1>2. CASE header[s] = order[s]
  <2>1. header[s] # Absent
    BY <1>1, <1>2, AbsentIsNoOrder
  <2> QED
    BY <1>1, <1>2, <2>1 DEF DecisionOrder, Orders, Before
<1>3. CASE order[s] = NoOrder /\ header[s] \in {Absent, <<0, 0>>}
  <2>2. DecisionOrder(s) = <<0, 1>>
    BY <1>3, AbsentIsNoOrder DEF DecisionOrder, Orders
  <2> QED
    BY <1>3, <2>2 DEF NoOrder, Orders, Before
<1> QED
  BY <1>2, <1>3 DEF TypeOK

(***************************************************************************)
(* Types                                                                   *)
(***************************************************************************)
LEMMA TypeInit == Init => TypeOK
BY DEF Init, TypeOK, Orders, NoOrder

LEMMA AppendTypes ==
    ASSUME TypeOK, NEW t \in Threads, NEW e \in Events, AppendEvent(t, e)
    PROVE  TypeOK'
<1>1. e.session \in Sessions /\ OrderOf(e) \in Orders
  BY OrderOfIsOrder
<1>3. order' \in [Sessions -> Orders] /\ header' \in [Sessions -> Orders \cup {Absent}]
  BY <1>1 DEF AppendEvent, TypeOK
<1>4. log' \in Seq([event : Events, order : Orders])
  BY <1>1 DEF AppendEvent, TypeOK
<1>5. issued' \in Seq([session : Sessions, order : Orders])
  BY <1>1 DEF AppendEvent, TypeOK
<1>6. answer' \in [event : Events, outcome : {"accepted", "duplicate", "stale", "raised"}]
  BY DEF AppendEvent
<1>7. owed' \in [Threads -> Seq([callback : Callbacks, at : Nat])]
  <2> DEFINE calls == [i \in DOMAIN subscribers |->
                          [callback |-> subscribers[i], at |-> Len(log) + 1]]
  <2>1. Len(subscribers) \in Nat /\ DOMAIN subscribers = 1..Len(subscribers) /\ Len(log) \in Nat
    BY DEF TypeOK
  <2>2. calls \in [1..Len(subscribers) -> [callback : Callbacks, at : Nat]]
    BY <2>1 DEF TypeOK
  <2>3. calls \in Seq([callback : Callbacks, at : Nat])
    BY <2>1, <2>2
  <2> QED
    BY <2>3 DEF AppendEvent, TypeOK
<1>8. \A s \in Sessions :
        \/ header'[s] = order'[s]
        \/ order'[s] = NoOrder /\ header'[s] \in {Absent, <<0, 0>>}
  BY <1>1 DEF AppendEvent, TypeOK
<1>9. DOMAIN sections' = Sessions /\ DOMAIN routing' = Sessions
  BY DEF AppendEvent, TypeOK
<1>10. UNCHANGED <<subscribers, since, heard, view>>
  BY DEF AppendEvent, observers
<1> QED
  BY <1>3, <1>4, <1>5, <1>6, <1>7, <1>8, <1>9, <1>10 DEF TypeOK

LEMMA AbortTypes ==
    ASSUME NoHeaderPatches, TypeOK, NEW t \in Threads, NEW e \in Events, AbortEvent(t, e)
    PROVE  TypeOK'
<1>1. e.session \in Sessions /\ ~ Has(e, "header")
  BY OrderOfIsOrder DEF NoHeaderPatches
<1>2. header' = [header EXCEPT ![e.session] = IF @ = Absent THEN <<0, 0>> ELSE @]
  BY <1>1 DEF AbortEvent, Sent
<1>3. header' \in [Sessions -> Orders \cup {Absent}]
  BY <1>1, <1>2 DEF TypeOK, Orders
<1>4. \A s \in Sessions :
        \/ header'[s] = order[s]
        \/ order[s] = NoOrder /\ header'[s] \in {Absent, <<0, 0>>}
  BY <1>1, <1>2, AbsentIsNoOrder DEF TypeOK
<1>5. answer' \in [event : Events, outcome : {"accepted", "duplicate", "stale", "raised"}]
  BY DEF AbortEvent
<1>6. DOMAIN sections' = Sessions /\ DOMAIN routing' = Sessions
  BY DEF AbortEvent, TypeOK
<1>7. UNCHANGED <<order, log, subscribers, since, heard, owed, view, issued>>
  BY DEF AbortEvent, observers
<1> QED
  BY <1>3, <1>4, <1>5, <1>6, <1>7 DEF TypeOK

LEMMA DecisionTypes ==
    ASSUME TypeOK, NEW t \in Threads, NEW d \in Decisions, RecordDecision(t, d)
    PROVE  TypeOK'
<1> DEFINE s == view[t].session
<1>1. s \in Sessions /\ DecisionOrder(s) \in Orders
  BY DecisionAdvances DEF RecordDecision, TypeOK
<1>2. /\ header' = [header EXCEPT ![s] = DecisionOrder(s)]
      /\ order' = [order EXCEPT ![s] = DecisionOrder(s)]
      /\ issued' = Append(issued, [session |-> s, order |-> DecisionOrder(s)])
      /\ view' = [view EXCEPT ![t] = Absent]
      /\ DOMAIN sections' = DOMAIN sections /\ DOMAIN routing' = DOMAIN routing
      /\ UNCHANGED <<log, subscribers, since, heard, owed, answer>>
  BY DEF RecordDecision, observers, TypeOK
<1> HIDE DEF s
<1>3. /\ header' \in [Sessions -> Orders \cup {Absent}] /\ order' \in [Sessions -> Orders]
      /\ issued' \in Seq([session : Sessions, order : Orders])
  BY <1>1, <1>2 DEF TypeOK
<1>4. \A r \in Sessions :
        \/ header'[r] = order'[r]
        \/ order'[r] = NoOrder /\ header'[r] \in {Absent, <<0, 0>>}
  BY <1>1, <1>2 DEF TypeOK
<1>5. /\ DOMAIN view' = Threads
      /\ \A r \in Threads : view'[r] # Absent => view'[r].session \in Sessions
  BY <1>2 DEF TypeOK
<1> QED
  BY <1>2, <1>3, <1>4, <1>5 DEF TypeOK

LEMMA OtherTypes ==
    ASSUME TypeOK,
           \/ \E t \in Threads, e \in Events : RefuseEvent(t, e)
           \/ \E t \in Threads : Observe(t)
           \/ \E c \in Callbacks : Subscribe(c)
           \/ \E s \in Sessions : GetOrCreate(s)
           \/ \E t \in Threads, s \in Sessions : GetSchedulingView(t, s)
    PROVE  TypeOK' /\ UNCHANGED <<order, issued, log>>
<1>1. ASSUME NEW t \in Threads, NEW e \in Events, RefuseEvent(t, e)
      PROVE TypeOK' /\ UNCHANGED <<order, issued, log>>
  BY <1>1 DEF RefuseEvent, Refusal, TypeOK, states, observers
<1>2. ASSUME NEW t \in Threads, Observe(t)
      PROVE TypeOK' /\ UNCHANGED <<order, issued, log>>
  <2>1. owed[t] \in Seq([callback : Callbacks, at : Nat]) /\ owed[t] # <<>>
    BY <1>2 DEF Observe, TypeOK
  <2> DEFINE call == [callback : Callbacks, at : Nat]
  <2>2. Head(owed[t]) \in call
    BY <2>1, HeadTailProperties
  <2>3. Tail(owed[t]) \in Seq([callback : Callbacks, at : Nat])
    BY <2>1
  <2>4. owed' \in [Threads -> Seq([callback : Callbacks, at : Nat])]
    BY <1>2, <2>3 DEF Observe, TypeOK
  <2>5. heard' \in [Callbacks -> Seq(Nat)]
    <3>1. Head(owed[t]).callback \in Callbacks /\ Head(owed[t]).at \in Nat
      BY <2>2
    <3> QED
      BY <1>2, <3>1 DEF Observe, TypeOK
  <2>6. UNCHANGED <<states, log, subscribers, since, view, issued, answer>>
    BY <1>2 DEF Observe
  <2> QED
    BY <2>4, <2>5, <2>6 DEF TypeOK, states
<1>3. ASSUME NEW c \in Callbacks, Subscribe(c)
      PROVE TypeOK' /\ UNCHANGED <<order, issued, log>>
  BY <1>3 DEF Subscribe, TypeOK, states
<1>4. ASSUME NEW s \in Sessions, GetOrCreate(s)
      PROVE TypeOK' /\ UNCHANGED <<order, issued, log>>
  <2>1. order[s] = NoOrder /\ <<0, 0>> \in Orders
    BY <1>4, AbsentIsNoOrder DEF GetOrCreate, TypeOK, Orders
  <2>2. header' = [header EXCEPT ![s] = <<0, 0>>] /\ UNCHANGED order
    BY <1>4 DEF GetOrCreate
  <2>3. header' \in [Sessions -> Orders \cup {Absent}]
    BY <2>1, <2>2 DEF TypeOK
  <2>4. \A r \in Sessions :
          \/ header'[r] = order[r]
          \/ order[r] = NoOrder /\ header'[r] \in {Absent, <<0, 0>>}
    BY <2>1, <2>2 DEF TypeOK
  <2>5. DOMAIN sections' = Sessions /\ DOMAIN routing' = Sessions
    BY <1>4 DEF GetOrCreate, TypeOK
  <2>6. UNCHANGED <<log, subscribers, since, heard, owed, view, issued, answer>>
    BY <1>4 DEF GetOrCreate, observers
  <2> QED
    BY <2>2, <2>3, <2>4, <2>5, <2>6 DEF TypeOK
<1>5. ASSUME NEW t \in Threads, NEW s \in Sessions, GetSchedulingView(t, s)
      PROVE TypeOK' /\ UNCHANGED <<order, issued, log>>
  <2>1. ViewOf(s).session = s
    BY DEF ViewOf
  <2> QED
    BY <1>5, <2>1 DEF GetSchedulingView, TypeOK, states, observers
<1> QED
  BY <1>1, <1>2, <1>3, <1>4, <1>5

LEMMA TypeStep ==
    ASSUME NoHeaderPatches, TypeOK, [Next]_storeVars
    PROVE  TypeOK'
<1>1. CASE UNCHANGED storeVars
  BY <1>1 DEF storeVars, states, observers, TypeOK
<1>2. CASE Next
  BY <1>2, AppendTypes, AbortTypes, DecisionTypes, OtherTypes DEF Next, ThreadStep, SharedStep
<1> QED
  BY <1>1, <1>2

\* The store's variables keep their types, and the header of a state always
\* carries the order its next event is judged by.
THEOREM TypeCorrect ==
    ASSUME NoHeaderPatches
    PROVE  Spec => []TypeOK
<1>1. TypeOK /\ [Next]_storeVars => TypeOK'
  BY TypeStep
<1> QED
  BY <1>1, TypeInit, PTL DEF Spec

(***************************************************************************)
(* Versions                                                                *)
(***************************************************************************)

\* No version handed out lies above the order its session has reached, and
\* they were handed out in order.
VersionsReached ==
    \A i \in DOMAIN issued :
        LET reached == order[issued[i].session]
        IN issued[i].order = reached \/ Before(issued[i].order, reached)

VersionInv == VersionsReached /\ VersionsHandedOutInOrder

\* Appending a version above the order of its session keeps both.
LEMMA HandOut ==
    ASSUME TypeOK, VersionInv, NEW s \in Sessions, NEW o \in Orders, Before(order[s], o),
           order' = [order EXCEPT ![s] = o],
           issued' = Append(issued, [session |-> s, order |-> o])
    PROVE  VersionInv'
<1> DEFINE n == Len(issued) + 1
           entry == [session |-> s, order |-> o]
<1>1. /\ issued \in Seq([session : Sessions, order : Orders]) /\ Len(issued) \in Nat
      /\ order \in [Sessions -> Orders]
  BY DEF TypeOK
<1>2. DOMAIN issued' = 1..n /\ DOMAIN issued = 1..(n - 1) /\ issued'[n] = entry
  BY <1>1
<1>3. \A i \in 1..(n - 1) : issued'[i] = issued[i] /\ issued[i].session \in Sessions
                              /\ issued[i].order \in Orders
  <2> TAKE i \in 1..(n - 1)
  <2>0. i \in 1..Len(issued)
    BY <1>1
  <2>1. issued[i] \in [session : Sessions, order : Orders]
    BY <1>1, <2>0, ElementOfSeq
  <2>2. issued'[i] = issued[i]
    BY <1>1, <1>2
  <2> QED
    BY <2>1, <2>2
<1>4. order'[s] = o /\ \A r \in Sessions : r # s => order'[r] = order[r]
  BY <1>1
<1>5. \A i \in 1..(n - 1) : issued[i].session = s => Before(issued[i].order, o)
  <2> TAKE i \in 1..(n - 1)
  <2> HAVE issued[i].session = s
  <2>1. issued[i].order = order[s] \/ Before(issued[i].order, order[s])
    BY <1>2 DEF VersionInv, VersionsReached
  <2>2. issued[i].order \in Orders /\ order[s] \in Orders
    BY <1>1, <1>3
  <2> QED
    BY <2>1, <2>2, BeforeIsTransitive
<1>6. VersionsReached'
  <2> SUFFICES ASSUME NEW i \in 1..n
               PROVE  LET reached == order'[issued'[i].session]
                      IN issued'[i].order = reached \/ Before(issued'[i].order, reached)
    BY <1>2 DEF VersionsReached
  <2>1. CASE i = n
    BY <1>2, <1>4, <2>1
  <2>2. CASE i # n /\ issued[i].session = s
    <3>1. i \in 1..(n - 1)
      BY <1>1, <2>2
    <3> QED
      BY <1>3, <1>4, <1>5, <2>2, <3>1
  <2>3. CASE i # n /\ issued[i].session # s
    <3>1. i \in 1..(n - 1)
      BY <1>1, <2>3
    <3> QED
      BY <1>2, <1>3, <1>4, <2>3, <3>1 DEF VersionInv, VersionsReached
  <2> QED
    BY <2>1, <2>2, <2>3
<1>7. VersionsHandedOutInOrder'
  <2> SUFFICES ASSUME NEW i \in 1..n, NEW j \in 1..n, i < j,
                      issued'[i].session = issued'[j].session
               PROVE  Before(issued'[i].order, issued'[j].order)
    BY <1>2 DEF VersionsHandedOutInOrder
  <2>1. i \in 1..(n - 1)
    BY <1>1
  <2>2. CASE j = n
    BY <1>2, <1>3, <1>5, <2>1, <2>2
  <2>3. CASE j # n
    <3>1. j \in 1..(n - 1)
      BY <1>1, <2>3
    <3> QED
      BY <1>2, <1>3, <2>1, <3>1 DEF VersionInv, VersionsHandedOutInOrder
  <2> QED
    BY <2>2, <2>3
<1> QED
  BY <1>6, <1>7 DEF VersionInv

LEMMA VersionStep ==
    ASSUME TypeOK, VersionInv, [Next]_storeVars
    PROVE  VersionInv'
<1>1. ASSUME UNCHANGED <<order, issued>>
      PROVE VersionInv'
  BY <1>1 DEF VersionInv, VersionsReached, VersionsHandedOutInOrder
<1>2. ASSUME NEW t \in Threads, NEW e \in Events, AppendEvent(t, e)
      PROVE VersionInv'
  <2>1. e.session \in Sessions /\ OrderOf(e) \in Orders
    BY OrderOfIsOrder
  <2>2. Before(order[e.session], OrderOf(e))
    BY <1>2 DEF AppendEvent, Advances
  <2>3. /\ order' = [order EXCEPT ![e.session] = OrderOf(e)]
        /\ issued' = Append(issued, [session |-> e.session, order |-> OrderOf(e)])
    BY <1>2 DEF AppendEvent
  <2> QED
    BY <2>1, <2>2, <2>3, HandOut
<1>3. ASSUME NEW t \in Threads, NEW d \in Decisions, RecordDecision(t, d)
      PROVE VersionInv'
  <2> DEFINE s == view[t].session
  <2>1. s \in Sessions
    BY <1>3 DEF RecordDecision, TypeOK
  <2>2. /\ order' = [order EXCEPT ![s] = DecisionOrder(s)]
        /\ issued' = Append(issued, [session |-> s, order |-> DecisionOrder(s)])
    BY <1>3 DEF RecordDecision
  <2> HIDE DEF s
  <2>3. DecisionOrder(s) \in Orders /\ Before(order[s], DecisionOrder(s))
    BY <2>1, DecisionAdvances
  <2> QED
    BY <2>1, <2>2, <2>3, HandOut
<1>4. ASSUME NEW t \in Threads, NEW e \in Events, AbortEvent(t, e)
      PROVE VersionInv'
  BY <1>1, <1>4 DEF AbortEvent
<1>5. CASE UNCHANGED storeVars
  BY <1>1, <1>5 DEF storeVars, states
<1> QED
  BY <1>1, <1>2, <1>3, <1>4, <1>5, OtherTypes DEF Next, ThreadStep, SharedStep

\* Every version the store hands out for a session, for an event or for a
\* decision, lies above all it handed out before.
THEOREM VersionsInOrder ==
    ASSUME NoHeaderPatches
    PROVE  Spec => []VersionsHandedOutInOrder
<1>1. Init => VersionInv
  BY DEF Init, VersionInv, VersionsReached, VersionsHandedOutInOrder
<1>2. TypeOK /\ VersionInv /\ [Next]_storeVars => VersionInv'
  BY VersionStep
<1>3. VersionInv => VersionsHandedOutInOrder
  BY DEF VersionInv
<1> QED
  BY <1>1, <1>2, <1>3, TypeCorrect, PTL DEF Spec

(***************************************************************************)
(* De-duplication                                                          *)
(***************************************************************************)

\* What was logged was logged under the order of its event, which its session
\* has reached.
LogReached ==
    \A i \in DOMAIN log :
        /\ log[i].event.sequence > 0 => log[i].order = <<log[i].event.epoch, log[i].event.sequence>>
        /\ LET reached == order[log[i].event.session]
           IN log[i].order = reached \/ Before(log[i].order, reached)

DedupInv == LogReached /\ NumberedEventsAppliedOnce

\* The orders of the log only fall behind when a session advances.
LEMMA Advance ==
    ASSUME TypeOK, DedupInv, NEW s \in Sessions, NEW o \in Orders, Before(order[s], o),
           order' = [order EXCEPT ![s] = o], NEW i \in DOMAIN log
    PROVE  /\ log[i].event.session = s => Before(log[i].order, o)
           /\ LET reached == order'[log[i].event.session]
              IN log[i].order = reached \/ Before(log[i].order, reached)
<1>1. log[i].event \in Events /\ log[i].order \in Orders /\ log[i].event.session \in Sessions
  <2>1. log \in Seq([event : Events, order : Orders]) /\ i \in 1..Len(log)
    BY DEF TypeOK
  <2>2. log[i] \in [event : Events, order : Orders]
    BY <2>1, ElementOfSeq
  <2> QED
    BY <2>2, EventsAreTyped
<1>2. order[s] \in Orders /\ order \in [Sessions -> Orders]
  BY DEF TypeOK
<1>3. log[i].event.session = s => Before(log[i].order, o)
  BY <1>1, <1>2, BeforeIsTransitive DEF DedupInv, LogReached
<1>4. CASE log[i].event.session = s
  BY <1>2, <1>3, <1>4
<1>5. CASE log[i].event.session # s
  BY <1>1, <1>2, <1>5 DEF DedupInv, LogReached
<1> QED
  BY <1>3, <1>4, <1>5

LEMMA DedupAppend ==
    ASSUME TypeOK, DedupInv, NEW t \in Threads, NEW e \in Events, AppendEvent(t, e)
    PROVE  DedupInv'
<1> DEFINE n == Len(log) + 1
<1>1. /\ e.session \in Sessions /\ OrderOf(e) \in Orders
      /\ e.sequence > 0 => OrderOf(e) = <<e.epoch, e.sequence>>
      /\ Before(order[e.session], OrderOf(e))
      /\ order' = [order EXCEPT ![e.session] = OrderOf(e)]
  BY OrderOfIsOrder DEF AppendEvent, Advances
<1>2. /\ log \in Seq([event : Events, order : Orders]) /\ Len(log) \in Nat
      /\ log' = Append(log, [event |-> e, order |-> OrderOf(e)])
  BY DEF AppendEvent, TypeOK
<1>3. /\ DOMAIN log' = 1..n /\ DOMAIN log = 1..(n - 1)
      /\ log'[n].event = e /\ log'[n].order = OrderOf(e)
      /\ \A i \in 1..(n - 1) : log'[i] = log[i]
  BY <1>2
<1>4. order'[e.session] = OrderOf(e)
  BY <1>1 DEF TypeOK
<1>5. LogReached'
  <2> SUFFICES ASSUME NEW i \in 1..n
               PROVE  /\ log'[i].event.sequence > 0 =>
                            log'[i].order = <<log'[i].event.epoch, log'[i].event.sequence>>
                      /\ LET reached == order'[log'[i].event.session]
                         IN log'[i].order = reached \/ Before(log'[i].order, reached)
    BY <1>3 DEF LogReached
  <2>1. CASE i = n
    BY <1>1, <1>3, <1>4, <2>1
  <2>2. CASE i # n
    <3>1. i \in DOMAIN log /\ log'[i] = log[i]
      BY <1>2, <1>3, <2>2
    <3> QED
      BY <1>1, <3>1, Advance DEF DedupInv, LogReached
  <2> QED
    BY <2>1, <2>2
<1>6. \A i \in DOMAIN log : log[i].event = e => e.sequence <= 0
  <2> SUFFICES ASSUME NEW i \in DOMAIN log, log[i].event = e, e.sequence > 0
               PROVE  FALSE
    BY EventsAreTyped
  <2>1. Before(log[i].order, OrderOf(e))
    BY <1>1, Advance
  <2>2. log[i].order = OrderOf(e)
    BY <1>1 DEF DedupInv, LogReached
  <2> QED
    BY <1>1, <2>1, <2>2, BeforeIsIrreflexive
<1>7. NumberedEventsAppliedOnce'
  <2> SUFFICES ASSUME NEW i \in 1..n, NEW j \in 1..n, i # j, log'[i].event = log'[j].event
               PROVE  log'[i].event.sequence <= 0
    BY <1>3 DEF NumberedEventsAppliedOnce
  <2>1. CASE i = n
    BY <1>2, <1>3, <1>6, <2>1
  <2>2. CASE j = n
    BY <1>2, <1>3, <1>6, <2>2
  <2>3. CASE i # n /\ j # n
    BY <1>2, <1>3, <2>3 DEF DedupInv, NumberedEventsAppliedOnce
  <2> QED
    BY <2>1, <2>2, <2>3
<1> QED
  BY <1>5, <1>7 DEF DedupInv

LEMMA DedupStep ==
    ASSUME TypeOK, DedupInv, [Next]_storeVars
    PROVE  DedupInv'
<1>1. ASSUME UNCHANGED <<order, log>>
      PROVE DedupInv'
  BY <1>1 DEF DedupInv, LogReached, NumberedEventsAppliedOnce
<1>2. ASSUME NEW t \in Threads, NEW d \in Decisions, RecordDecision(t, d)
      PROVE DedupInv'
  <2> DEFINE s == view[t].session
  <2>1. s \in Sessions
    BY <1>2 DEF RecordDecision, TypeOK
  <2>2. order' = [order EXCEPT ![s] = DecisionOrder(s)] /\ log' = log
    BY <1>2 DEF RecordDecision
  <2> HIDE DEF s
  <2>3. DecisionOrder(s) \in Orders /\ Before(order[s], DecisionOrder(s))
    BY <2>1, DecisionAdvances
  <2>4. LogReached'
    BY <2>1, <2>2, <2>3, Advance DEF LogReached, DedupInv
  <2> QED
    BY <2>2, <2>4 DEF DedupInv, NumberedEventsAppliedOnce
<1>3. ASSUME NEW t \in Threads, NEW e \in Events, AbortEvent(t, e)
      PROVE DedupInv'
  BY <1>1, <1>3 DEF AbortEvent
<1>4. CASE UNCHANGED storeVars
  BY <1>1, <1>4 DEF storeVars, states
<1> QED
  BY <1>1, <1>2, <1>3, <1>4, DedupAppend, OtherTypes DEF Next, ThreadStep, SharedStep

\* An event that carries its own number is applied at most once, however
\* often and among whatever other events and decisions it is sent.
THEOREM Deduplication ==
    ASSUME NoHeaderPatches
    PROVE  Spec => []NumberedEventsAppliedOnce
<1>1. Init => DedupInv
  BY DEF Init, DedupInv, LogReached, NumberedEventsAppliedOnce
<1>2. TypeOK /\ DedupInv /\ [Next]_storeVars => DedupInv'
  BY DedupStep
<1>3. DedupInv => NumberedEventsAppliedOnce
  BY DEF DedupInv
<1> QED
  BY <1>1, <1>2, <1>3, TypeCorrect, PTL DEF Spec

(***************************************************************************)
(* The log and what replaying it gives                                     *)
(***************************************************************************)

\* An append that raises does so before it has assigned anything.
RaisesCleanly ==
    \A e \in Events : Raises(e) => e.type = "MODEL_RESPONSE" /\ IsMalformed(e, "output")

\* What entry makes of the sections q of session s.
Retold(q, entry, s) == IF entry.event.session = s THEN Applied(q, entry.event) ELSE q

\* The sections f[0], f[1], ... through which log l leads session s.
LeadsThrough(f, l, s) ==
    f = [n \in 0..Len(l) |-> IF n = 0 THEN NewSections ELSE Retold(f[n - 1], l[n], s)]

\* Log l leads session s to sections q, and through one list of states only.
LeadsTo(l, s, q) ==
    \E f : /\ LeadsThrough(f, l, s) /\ f[Len(l)] = q
           /\ \A g : LeadsThrough(g, l, s) => g = f

LEMMA LogLeads ==
    ASSUME NEW s, NEW q, LeadsTo(log, s, q)
    PROVE  Replay(s) = q
<1>1. PICK f : /\ LeadsThrough(f, log, s) /\ f[Len(log)] = q
               /\ \A g : LeadsThrough(g, log, s) => g = f
  BY DEF LeadsTo
<1> DEFINE made == CHOOSE g : g = [n \in 0..Len(log) |->
                        IF n = 0 THEN NewSections
                        ELSE IF log[n].event.session = s THEN Applied(g[n - 1], log[n].event)
                        ELSE g[n - 1]]
<1>2. Replay(s) = made[Len(log)]
  BY Zenon DEF Replay
<1>3. made = CHOOSE g : LeadsThrough(g, log, s)
  BY Zenon DEF LeadsThrough, Retold
<1> HIDE DEF made
<1>4. made = f
  BY <1>1, <1>3
<1> QED
  BY <1>1, <1>2, <1>4

\* A log that grows by an entry leads through one state more.
LEMMA LogGrows ==
    ASSUME NEW S, NEW l \in Seq(S), NEW entry \in S, NEW s, NEW q, LeadsTo(l, s, q)
    PROVE  LeadsTo(Append(l, entry), s, Retold(q, entry, s))
<1> DEFINE m == Len(l)
           lx == Append(l, entry)
           Step(g, n) == IF n = 0 THEN NewSections ELSE Retold(g[n - 1], l[n], s)
           StepX(g, n) == IF n = 0 THEN NewSections ELSE Retold(g[n - 1], lx[n], s)
<1>1. PICK f : /\ LeadsThrough(f, l, s) /\ f[m] = q
               /\ \A g : LeadsThrough(g, l, s) => g = f
  BY DEF LeadsTo
<1>2. m \in Nat /\ Len(lx) = m + 1 /\ lx[m + 1] = entry /\ \A n \in 1..m : lx[n] = l[n]
  OBVIOUS
<1>3. \A g : LeadsThrough(g, l, s) <=> g = [n \in 0..m |-> Step(g, n)]
  BY DEF LeadsThrough
<1>4. \A g : LeadsThrough(g, lx, s) <=> g = [n \in 0..(m + 1) |-> StepX(g, n)]
  BY <1>2 DEF LeadsThrough
<1> HIDE DEF m, lx
<1>5. \A g : \A n \in 0..m : StepX(g, n) = Step(g, n)
  BY <1>2
<1>6. \A g : StepX(g, m + 1) = Retold(g[m], entry, s)
  BY <1>2
<1>7. f = [n \in 0..m |-> Step(f, n)] /\ f[m] = q
  BY <1>1, <1>3
<1>8. \A g, h : \A n \in 0..m : (\A k \in 0..m : g[k] = h[k]) => Step(g, n) = Step(h, n)
  BY <1>2
<1> HIDE DEF Step, StepX
<1> DEFINE x == [n \in 0..(m + 1) |-> IF n = m + 1 THEN Retold(q, entry, s) ELSE f[n]]
<1>9. LeadsThrough(x, lx, s)
  <2>1. \A k \in 0..m : x[k] = f[k]
    BY <1>2
  <2>2. x[m + 1] = Retold(q, entry, s) /\ x = [n \in 0..(m + 1) |-> x[n]]
    BY <1>2
  <2> HIDE DEF x
  <2>3. \A n \in 0..m : f[n] = Step(f, n)
    BY <1>7
  <2>4. \A n \in 0..m : Step(x, n) = Step(f, n)
    BY <1>8, <2>1
  <2>5. \A n \in 0..m : x[n] = StepX(x, n)
    BY <1>5, <2>1, <2>3, <2>4
  <2>6. x[m + 1] = StepX(x, m + 1)
    <3>1. x[m] = q
      BY <1>2, <1>7, <2>1
    <3>2. StepX(x, m + 1) = Retold(x[m], entry, s)
      BY <1>6
    <3> QED
      BY <2>2, <3>1, <3>2
  <2>7. \A n \in 0..(m + 1) : x[n] = StepX(x, n)
    BY <1>2, <2>5, <2>6
  <2>8. x = [n \in 0..(m + 1) |-> StepX(x, n)]
    BY <2>2, <2>7
  <2> QED
    BY <1>4, <2>8
<1>10. ASSUME NEW g, LeadsThrough(g, lx, s) PROVE g = x
  <2> DEFINE h == [n \in 0..m |-> g[n]]
  <2>1. g = [n \in 0..(m + 1) |-> StepX(g, n)]
    BY <1>4, <1>10
  <2>2. \A n \in 0..(m + 1) : g[n] = StepX(g, n)
    BY <2>1
  <2>3. \A n \in 0..m : h[n] = g[n] /\ n \in 0..(m + 1)
    BY <1>2
  <2>4. h = [n \in 0..m |-> h[n]]
    OBVIOUS
  <2> HIDE DEF h
  <2>5. \A n \in 0..m : Step(h, n) = Step(g, n)
    BY <1>8, <2>3
  <2>6. \A n \in 0..m : h[n] = Step(h, n)
    BY <1>5, <2>2, <2>3, <2>5
  <2>7. h = [n \in 0..m |-> Step(h, n)]
    BY <2>4, <2>6
  <2>8. h = f
    BY <1>1, <1>3, <2>7
  <2>9. \A n \in 0..m : g[n] = f[n]
    BY <2>3, <2>8
  <2>10. g[m + 1] = Retold(q, entry, s)
    BY <1>2, <1>6, <1>7, <2>2, <2>9
  <2>11. \A n \in 0..(m + 1) : g[n] = x[n]
    BY <1>2, <2>9, <2>10
  <2>12. g = [n \in 0..(m + 1) |-> g[n]] /\ x = [n \in 0..(m + 1) |-> x[n]]
    BY <2>1
  <2> QED
    BY <2>11, <2>12
<1>11. x[m + 1] = Retold(q, entry, s)
  BY <1>2
<1> HIDE DEF x
<1> QED
  BY <1>2, <1>9, <1>10, <1>11 DEF LeadsTo, lx

LoggedTypes ==
    /\ log \in Seq([event : Events, order : Orders])
    /\ order \in [Sessions -> Orders] /\ header \in [Sessions -> Orders \cup {Absent}]
    /\ DOMAIN sections = Sessions /\ DOMAIN view = Threads
    /\ \A t \in Threads : view[t] # Absent => view[t].session \in Sessions

ReplayInv ==
    /\ LoggedTypes
    /\ \A s \in Sessions : LeadsTo(log, s, Sections(s))

LEMMA ReplayInit == Init => ReplayInv
<1> SUFFICES ASSUME Init PROVE ReplayInv
  OBVIOUS
<1>1. LoggedTypes
  BY DEF Init, LoggedTypes, Orders, NoOrder
<1>2. ASSUME NEW s \in Sessions PROVE LeadsTo(log, s, Sections(s))
  <2> DEFINE f == [n \in 0..0 |-> NewSections]
  <2>1. Len(log) = 0 /\ Sections(s) = NewSections
    BY <1>1, <1>2 DEF Init, Sections
  <2>2. \A g : LeadsThrough(g, log, s) <=> g = f
    <3>1. \A n \in 0..0 : n = 0
      OBVIOUS
    <3>2. \A g : [n \in 0..0 |-> IF n = 0 THEN NewSections ELSE Retold(g[n - 1], log[n], s)] = f
      BY <3>1
    <3> QED
      BY <2>1, <3>2 DEF LeadsThrough
  <2>3. f[0] = NewSections
    OBVIOUS
  <2> HIDE DEF f
  <2> QED
    BY <2>1, <2>2, <2>3 DEF LeadsTo
<1> QED
  BY <1>1, <1>2 DEF ReplayInv

\* What an appended event is judged by.
LEMMA LoggedOrders ==
    ASSUME LoggedTypes, NEW e \in Events
    PROVE  e.session \in Sessions /\ OrderOf(e) \in Orders /\ OrderOf(e) # Absent
BY EventsAreTyped, AbsentIsNoOrder DEF LoggedTypes, OrderOf, Orders

LEMMA AppendIsReplayed ==
    ASSUME ReplayInv, NEW t \in Threads, NEW e \in Events, AppendEvent(t, e)
    PROVE  ReplayInv'
<1> DEFINE entry == [event |-> e, order |-> OrderOf(e)]
<1>1. LoggedTypes
  BY DEF ReplayInv
<1>2. e.session \in Sessions /\ OrderOf(e) \in Orders /\ OrderOf(e) # Absent
  BY <1>1, LoggedOrders
<1>3. entry \in [event : Events, order : Orders] /\ log' = Append(log, entry)
  BY <1>2 DEF AppendEvent
<1>4. LoggedTypes'
  BY <1>1, <1>2, <1>3 DEF AppendEvent, LoggedTypes
<1>5. ASSUME NEW s \in Sessions PROVE LeadsTo(log, s, Sections(s))'
  <2>1. Sections(s)' = Retold(Sections(s), entry, s)
    <3>1. CASE s = e.session
      <4>1. header'[s] # Absent /\ sections'[s] = Applied(Sections(s), e)
        BY <1>1, <1>2, <3>1 DEF AppendEvent, LoggedTypes
      <4> QED
        BY <3>1, <4>1 DEF Sections, Retold
    <3>2. CASE s # e.session
      <4>1. header'[s] = header[s] /\ sections'[s] = sections[s]
        BY <1>1, <3>2 DEF AppendEvent, LoggedTypes
      <4> QED
        BY <3>2, <4>1 DEF Sections, Retold
    <3> QED
      BY <3>1, <3>2
  <2>2. LeadsTo(log, s, Sections(s))
    BY DEF ReplayInv
  <2>3. LeadsTo(Append(log, entry), s, Retold(Sections(s), entry, s))
    BY <1>1, <1>3, <2>2, LogGrows DEF LoggedTypes
  <2> HIDE DEF entry
  <2>4. LeadsTo(log', s, Sections(s)')
    BY <1>3, <2>1, <2>3
  <2> QED
    BY <2>4 DEF LeadsTo, LeadsThrough
<1> QED
  BY <1>4, <1>5 DEF ReplayInv

\* A step that leaves the log, and what every session reads as, leaves the replay.
LEMMA LogStays ==
    ASSUME ReplayInv, LoggedTypes', log' = log,
           \A s \in Sessions : Sections(s)' = Sections(s)
    PROVE  ReplayInv'
BY DEF ReplayInv, LeadsTo, LeadsThrough

\* An append that raises cleanly leaves the sections as they were.
LEMMA AbortKeeps ==
    ASSUME RaisesCleanly, NEW e \in Events, Raises(e), NEW q
    PROVE  Applied(q, e) = q
<1>1. e.type = "MODEL_RESPONSE" /\ IsMalformed(e, "output")
  BY DEF RaisesCleanly
<1>2. Effect(q, e) = Responded(q, e)
  BY <1>1 DEF Effect
<1>3. Responded(q, e) = q
  BY <1>1 DEF Responded
<1> QED
  BY <1>1, <1>2, <1>3 DEF Applied

LEMMA AbortLeavesSections ==
    ASSUME RaisesCleanly, ReplayInv, NEW t \in Threads, NEW e \in Events, AbortEvent(t, e)
    PROVE  ReplayInv'
<1>1. LoggedTypes /\ e.session \in Sessions
  BY LoggedOrders DEF ReplayInv
<1>2. Applied(Sections(e.session), e) = Sections(e.session)
  BY AbortKeeps DEF AbortEvent
<1>3. header' \in [Sessions -> Orders \cup {Absent}] /\ header'[e.session] # Absent
  <2>1. Sent(e, "header", IF header[e.session] = Absent THEN <<0, 0>> ELSE header[e.session])
            \in Orders
    BY <1>1, EventsAreTyped DEF LoggedTypes, Sent, Orders
  <2> QED
    BY <1>1, <2>1, AbsentIsNoOrder DEF AbortEvent, LoggedTypes
<1>4. LoggedTypes'
  BY <1>1, <1>3 DEF AbortEvent, LoggedTypes
<1>5. ASSUME NEW s \in Sessions PROVE Sections(s)' = Sections(s)
  <2>1. CASE s = e.session
    BY <1>1, <1>2, <1>3, <2>1 DEF AbortEvent, LoggedTypes, Sections
  <2>2. CASE s # e.session
    BY <1>1, <2>2 DEF AbortEvent, LoggedTypes, Sections
  <2> QED
    BY <2>1, <2>2
<1>6. log' = log
  BY DEF AbortEvent
<1> QED
  BY <1>4, <1>5, <1>6, LogStays

\* get_or_create and record_routing_decision store the sections they read.
LEMMA OthersLeaveSections ==
    ASSUME ReplayInv, NEW s \in Sessions, NEW t, NEW d,
           GetOrCreate(s) \/ (t \in Threads /\ RecordDecision(t, d))
    PROVE  ReplayInv'
<1>1. LoggedTypes
  BY DEF ReplayInv
<1> DEFINE q == IF GetOrCreate(s) THEN s ELSE view[t].session
<1>2. /\ q \in Sessions /\ log' = log
      /\ \E o \in Orders : header' = [header EXCEPT ![q] = o]
      /\ sections' = [sections EXCEPT ![q] = Sections(q)]
  <2>1. CASE GetOrCreate(s)
    <3>1. <<0, 0>> \in Orders /\ Sections(s) = NewSections
      BY <2>1 DEF GetOrCreate, Orders, Sections
    <3> QED
      BY <2>1, <3>1 DEF GetOrCreate
  <2>2. CASE ~ GetOrCreate(s) /\ t \in Threads /\ RecordDecision(t, d)
    <3>1. view[t].session \in Sessions
      BY <1>1, <2>2 DEF RecordDecision, LoggedTypes
    <3>2. DecisionOrder(view[t].session) \in Orders
      BY <1>1, <3>1 DEF LoggedTypes, DecisionOrder, Orders
    <3> QED
      BY <2>2, <3>1, <3>2 DEF RecordDecision
  <2> QED
    BY <2>1, <2>2
<1>3. LoggedTypes'
  <2>1. order' \in [Sessions -> Orders]
    <3>1. CASE GetOrCreate(s)
      BY <1>1, <3>1 DEF GetOrCreate, LoggedTypes
    <3>2. CASE t \in Threads /\ RecordDecision(t, d)
      <4>1. view[t].session \in Sessions
        BY <1>1, <3>2 DEF RecordDecision, LoggedTypes
      <4>2. DecisionOrder(view[t].session) \in Orders
        BY <1>1, <4>1 DEF LoggedTypes, DecisionOrder, Orders
      <4> QED
        BY <1>1, <3>2, <4>1, <4>2 DEF RecordDecision, LoggedTypes
    <3> QED
      BY <3>1, <3>2
  <2>2. /\ DOMAIN view' = Threads
        /\ \A u \in Threads : view'[u] # Absent => view'[u].session \in Sessions
    BY <1>1 DEF GetOrCreate, RecordDecision, LoggedTypes
  <2> QED
    BY <1>1, <1>2, <2>1, <2>2 DEF LoggedTypes
<1>4. ASSUME NEW r \in Sessions PROVE Sections(r)' = Sections(r)
  <2> HIDE DEF q
  <2>1. CASE r = q
    <3>1. header'[r] # Absent /\ sections'[r] = Sections(r)
      BY <1>1, <1>2, <2>1, AbsentIsNoOrder DEF LoggedTypes
    <3> QED
      BY <3>1 DEF Sections
  <2>2. CASE r # q
    <3>1. header'[r] = header[r] /\ sections'[r] = sections[r]
      BY <1>1, <1>2, <2>2 DEF LoggedTypes
    <3> QED
      BY <3>1 DEF Sections
  <2> QED
    BY <2>1, <2>2
<1> QED
  BY <1>2, <1>3, <1>4, LogStays

LEMMA ReplayStep == RaisesCleanly /\ ReplayInv /\ [Next]_storeVars => ReplayInv'
<1> SUFFICES ASSUME RaisesCleanly, ReplayInv, [Next]_storeVars PROVE ReplayInv'
  OBVIOUS
<1>0. LoggedTypes
  BY DEF ReplayInv
<1>1. ASSUME UNCHANGED <<states, log, view>> PROVE ReplayInv'
  <2>1. LoggedTypes' /\ log' = log
    BY <1>0, <1>1 DEF states, LoggedTypes
  <2>2. \A s \in Sessions : Sections(s)' = Sections(s)
    BY <1>1 DEF states, Sections
  <2> QED
    BY <2>1, <2>2, LogStays
<1>2. ASSUME NEW t \in Threads, NEW s \in Sessions, GetSchedulingView(t, s) PROVE ReplayInv'
  <2>1. log' = log /\ \A r \in Sessions : Sections(r)' = Sections(r)
    BY <1>2 DEF GetSchedulingView, states, Sections
  <2>2. ViewOf(s).session = s
    BY DEF ViewOf
  <2>3. LoggedTypes'
    BY <1>0, <1>2, <2>2 DEF GetSchedulingView, states, LoggedTypes
  <2> QED
    BY <2>1, <2>3, LogStays
<1>3. ASSUME NEW t \in Threads, ThreadStep(t, Events) PROVE ReplayInv'
  <2>1. ASSUME NEW e \in Events, RefuseEvent(t, e) \/ Observe(t) PROVE ReplayInv'
    BY <1>1, <2>1 DEF RefuseEvent, Observe
  <2>2. CASE Observe(t)
    BY <1>1, <2>2 DEF Observe
  <2>3. ASSUME NEW d \in Decisions, RecordDecision(t, d) PROVE ReplayInv'
    <3>1. view[t].session \in Sessions
      BY <1>0, <2>3 DEF RecordDecision, LoggedTypes
    <3> QED
      BY <2>3, <3>1, OthersLeaveSections
  <2> QED
    BY <1>2, <1>3, <2>1, <2>2, <2>3, AppendIsReplayed, AbortLeavesSections DEF ThreadStep
<1>4. CASE SharedStep
  <2>1. ASSUME NEW c \in Callbacks, Subscribe(c) PROVE ReplayInv'
    BY <1>1, <2>1 DEF Subscribe
  <2>2. ASSUME NEW s \in Sessions, GetOrCreate(s) PROVE ReplayInv'
    BY <2>2, OthersLeaveSections
  <2> QED
    BY <1>4, <2>1, <2>2 DEF SharedStep
<1>5. CASE UNCHANGED storeVars
  BY <1>1, <1>5 DEF storeVars
<1> QED
  BY <1>3, <1>4, <1>5 DEF Next

\* append_event logs an event exactly if it has applied it, and nothing else than
\* an event changes these sections: the state of a session is at every moment what
\* its logged events make of a new state, in the order of the log.
THEOREM StateIsReplay ==
    ASSUME RaisesCleanly
    PROVE  Spec => []SnapshotIsReplay
<1>1. ReplayInv => SnapshotIsReplay
  BY LogLeads DEF ReplayInv, SnapshotIsReplay, Sections
<1>2. ReplayInv /\ [Next]_storeVars => ReplayInv'
  BY ReplayStep
<1> QED
  BY <1>1, <1>2, ReplayInit, PTL DEF Spec

(***************************************************************************)
(* What an event does to the context and to the tools of a session         *)
(***************************************************************************)
\* Token counts are integers, or do not convert; a patch is of the fields it is
\* meant for.
PatchFits(patch) ==
    /\ {"tools", "lastTool"} \cap DOMAIN patch = {}
    /\ "prompt" \in DOMAIN patch => patch.prompt \in Int
    /\ "total" \in DOMAIN patch => patch.total \in Int

PayloadFits(e) ==
    /\ \A key \in {"prompt", "output", "tokens"} :
          Has(e, key) => e.payload[key] \in Int \/ e.payload[key] = Malformed
    /\ PatchFits(Sent(e, "patch", <<>>)) /\ PatchFits(Sent(e, "context", <<>>))
    /\ {"tools", "lastTool", "prompt", "total"} \cap DOMAIN Sent(e, "constraints", <<>>) = {}

Fields == DOMAIN NewSections
IsSections(q) == q = [f \in Fields |-> q[f]] /\ q.total \in Int /\ q.prompt \in Int

\* Sections whose context covers their prompt.
Covers(q) == IsSections(q) /\ q.total >= q.prompt

\* Sections r that cover their prompt and have the tools of q.
Follows(q, r) == Covers(r) /\ r.tools = q.tools /\ r.lastTool = q.lastTool

LEMMA FieldsAre ==
    Fields = {"phase", "runnable", "progress", "turn", "prompt", "total", "compaction",
              "tools", "lastTool", "retries", "streak", "severity", "critical",
              "failures", "noProgress", "required", "models", "budget"}
BY DEF Fields, NewSections

LEMMA NewCovers == Covers(NewSections)
<1>1. NewSections.total = 0 /\ NewSections.prompt = 0
  BY DEF NewSections
<1>2. NewSections = [f \in DOMAIN NewSections |-> NewSections[f]]
  BY DEF NewSections
<1> QED
  BY <1>1, <1>2 DEF Covers, IsSections, Fields

LEMMA PhaseFollows ==
    ASSUME NEW q, NEW r, Follows(q, r), NEW phase, NEW runnable
    PROVE  Follows(q, InPhase(r, phase, runnable))
BY FieldsAre DEF Follows, Covers, IsSections, InPhase

LEMMA ProgressFollows ==
    ASSUME NEW q, NEW r, Follows(q, r), NEW percent
    PROVE  Follows(q, Progressed(r, percent)) /\ Follows(q, [r EXCEPT !.progress = percent])
BY FieldsAre DEF Follows, Covers, IsSections, Progressed

LEMMA FailureFollows ==
    ASSUME NEW q, NEW r, Follows(q, r), NEW e
    PROVE  Follows(q, Failed(r, e))
<1> DEFINE counted == [r EXCEPT !.retries = @ + 1, !.streak = @ + 1]
           rated == [counted EXCEPT
                        !.severity = AtLeast(@, Clamped(Sent(e, "severity", 0))),
                        !.critical = Sent(e, "critical", FALSE),
                        !.failures = counted.streak]
<1>1. Follows(q, counted)
  BY FieldsAre DEF Follows, Covers, IsSections
<1>2. Failed(r, e) = IF IsMalformed(e, "severity") THEN counted
                     ELSE InPhase(rated, "REPLANNING", TRUE)
  BY DEF Failed
<1> HIDE DEF counted
<1>3. Follows(q, rated)
  BY <1>1, FieldsAre DEF Follows, Covers, IsSections
<1> HIDE DEF rated
<1>4. Follows(q, InPhase(rated, "REPLANNING", TRUE))
  BY <1>3, PhaseFollows
<1> QED
  BY <1>1, <1>2, <1>4

LEMMA PatchFollows ==
    ASSUME NEW q, NEW r, Follows(q, r), NEW patch, PatchFits(patch)
    PROVE  /\ Follows(q, ContextPatched(r, patch))
           /\ {"prompt", "total"} \cap DOMAIN patch = {} => Follows(q, Overlaid(r, patch))
<1> DEFINE t == Overlaid(r, patch)
<1>1. /\ t = [f \in Fields |-> t[f]] /\ t.total \in Int /\ t.prompt \in Int
      /\ t.tools = q.tools /\ t.lastTool = q.lastTool
  BY FieldsAre DEF Overlaid, Follows, Covers, IsSections, PatchFits
<1>2. ASSUME {"prompt", "total"} \cap DOMAIN patch = {}
      PROVE  t.total = r.total /\ t.prompt = r.prompt
  BY <1>2, FieldsAre DEF Overlaid, Follows, Covers, IsSections
<1>3. ContextPatched(r, patch) = [t EXCEPT !.total = AtLeast(@, t.prompt)]
  BY DEF ContextPatched
<1> HIDE DEF t
<1>4. Follows(q, [t EXCEPT !.total = AtLeast(@, t.prompt)])
  BY <1>1, FieldsAre DEF Follows, Covers, IsSections, AtLeast
<1> QED
  BY <1>1, <1>2, <1>3, <1>4 DEF Follows, Covers, IsSections, t

LEMMA RequestFollows ==
    ASSUME NEW q, Covers(q), NEW e, PayloadFits(e)
    PROVE  Follows(q, Requested(q, e))
<1> DEFINE queued == InPhase(q, "MODEL_QUEUED", TRUE)
           tokens == AtLeast(Sent(e, "prompt", 0), 0)
           told   == [queued EXCEPT !.prompt = tokens, !.total = AtLeast(@, tokens)]
           asked  == IF Has(e, "prompt") THEN told ELSE queued
           grown  == IF Has(e, "context")
                     THEN ContextPatched(asked, e.payload.context) ELSE asked
<1>1. Requested(q, e) = IF IsMalformed(e, "prompt") THEN queued ELSE Constrained(grown, e)
  BY DEF Requested
<1>0. Follows(q, q)
  BY DEF Follows
<1>2. Follows(q, queued)
  BY <1>0, PhaseFollows
<1>3. ASSUME ~ IsMalformed(e, "prompt") PROVE Follows(q, asked)
  <2>1. Has(e, "prompt") => tokens \in Int
    BY <1>3 DEF PayloadFits, IsMalformed, Sent, AtLeast
  <2> HIDE DEF queued, tokens
  <2>2. ASSUME tokens \in Int PROVE Follows(q, told)
    <3> DEFINE high == AtLeast(queued.total, tokens)
    <3>1. high \in Int /\ high >= tokens
      BY <1>2, <2>2 DEF Follows, Covers, IsSections, AtLeast
    <3>2. told = [queued EXCEPT !.prompt = tokens, !.total = high]
      OBVIOUS
    <3> HIDE DEF high, told
    <3>3. IsSections(queued) /\ queued.tools = q.tools /\ queued.lastTool = q.lastTool
      BY <1>2 DEF Follows, Covers
    <3> QED
      BY <2>2, <3>1, <3>2, <3>3, FieldsAre DEF Follows, Covers, IsSections
  <2> HIDE DEF told
  <2> QED
    BY <1>2, <2>1, <2>2
<1> HIDE DEF queued, asked
<1>4. ASSUME ~ IsMalformed(e, "prompt") PROVE Follows(q, grown)
  <2>1. Has(e, "context") => PatchFits(e.payload.context)
    BY DEF PayloadFits, Sent
  <2> QED
    BY <1>3, <1>4, <2>1, PatchFollows
<1> HIDE DEF grown
<1>5. ASSUME ~ IsMalformed(e, "prompt") PROVE Follows(q, Constrained(grown, e))
  <2> DEFINE sent == Sent(e, "constraints", <<>>)
  <2>1. PatchFits(sent) /\ {"prompt", "total"} \cap DOMAIN sent = {}
    BY DEF PayloadFits, PatchFits
  <2>2. Constrained(grown, e) = Overlaid(grown, sent)
    BY DEF Constrained
  <2> HIDE DEF sent
  <2> QED
    BY <1>4, <1>5, <2>1, <2>2, PatchFollows
<1> QED
  BY <1>1, <1>2, <1>5

LEMMA ResponseFollows ==
    ASSUME NEW q, Covers(q), NEW e, PayloadFits(e)
    PROVE  Follows(q, Responded(q, e))
<1> DEFINE more   == AtLeast(Sent(e, "output", 0), 0)
           grown  == [q EXCEPT !.total = @ + more]
           moved  == IF Has(e, "progress")
                     THEN Progressed(grown, e.payload.progress) ELSE grown
           full   == [moved EXCEPT !.progress = 100]
           next   == Sent(e, "next", "")
           placed == IF next = "TERMINATE"
                     THEN InPhase(full, "COMPLETED", FALSE)
                     ELSE IF next = "TOOL" THEN InPhase(moved, "TOOL_PREPARING", FALSE)
                     ELSE InPhase(moved, "PLANNING", TRUE)
           over   == [placed EXCEPT !.streak = 0, !.failures = 0]
<1>1. Responded(q, e) = IF IsMalformed(e, "output") THEN q
                        ELSE IF IsMalformed(e, "progress") THEN grown
                        ELSE IF Succeeded(e) THEN over ELSE Failed(placed, e)
  BY DEF Responded
<1>2. ASSUME ~ IsMalformed(e, "output") PROVE Follows(q, grown)
  <2>1. more \in Int /\ more >= 0
    BY <1>2 DEF PayloadFits, IsMalformed, Sent, AtLeast
  <2> HIDE DEF more
  <2> QED
    BY <2>1, FieldsAre DEF Follows, Covers, IsSections
<1> HIDE DEF grown
<1>3. ASSUME ~ IsMalformed(e, "output")
      PROVE  Follows(q, over) /\ Follows(q, Failed(placed, e))
  <2>1. Follows(q, moved)
    BY <1>2, <1>3, ProgressFollows
  <2> HIDE DEF moved
  <2>2. Follows(q, full)
    BY <2>1, ProgressFollows
  <2> HIDE DEF full, next
  <2>3. Follows(q, placed)
    <3>1. /\ Follows(q, InPhase(full, "COMPLETED", FALSE))
          /\ Follows(q, InPhase(moved, "TOOL_PREPARING", FALSE))
          /\ Follows(q, InPhase(moved, "PLANNING", TRUE))
      BY <2>1, <2>2, PhaseFollows
    <3> QED
      BY <3>1
  <2> HIDE DEF placed
  <2>4. Follows(q, over)
    BY <2>3, FieldsAre DEF Follows, Covers, IsSections
  <2> HIDE DEF over
  <2> QED
    BY <2>3, <2>4, FailureFollows
<1>4. Follows(q, q)
  BY DEF Follows
<1> HIDE DEF placed, over
<1> QED
  BY <1>1, <1>2, <1>3, <1>4

LEMMA PatchedFollows ==
    ASSUME NEW q, Covers(q), NEW e, PayloadFits(e)
    PROVE  Follows(q, Patched(q, e))
<1> DEFINE patch == Sent(e, "patch", <<>>)
<1>1. PatchFits(patch) /\ Follows(q, q)
  BY DEF PayloadFits, Follows
<1>2. Patched(q, e) = IF DOMAIN patch \cap {"prompt", "total", "compaction"} = {}
                      THEN Overlaid(q, patch) ELSE ContextPatched(q, patch)
  BY DEF Patched
<1> HIDE DEF patch
<1>3. Follows(q, ContextPatched(q, patch))
  BY <1>1, PatchFollows
<1>4. CASE DOMAIN patch \cap {"prompt", "total", "compaction"} = {}
  <2>1. {"prompt", "total"} \cap DOMAIN patch = {}
    BY <1>4
  <2> QED
    BY <1>1, <1>2, <1>4, <2>1, PatchFollows
<1> QED
  BY <1>2, <1>3, <1>4

\* Events that are about no tool leave the tools, and keep the context.
LEMMA OtherEventsFollow ==
    ASSUME NEW q, Covers(q), NEW e, PayloadFits(e), e.type \notin ToolTypes
    PROVE  Follows(q, Applied(q, e))
<1> DEFINE p == Patched(q, e)
<1>1. Follows(q, p) /\ Follows(q, q)
  BY PatchedFollows DEF Follows
<1>2. Follows(q, Effect(q, e))
  <2>1. CASE e.type = "TURN_STARTED"
    <3> DEFINE r == [p EXCEPT !.turn = e.turn]
    <3>1. Effect(q, e) = InPhase(r, "RUNNABLE", TRUE)
      BY <2>1 DEF Effect
    <3> HIDE DEF p
    <3>2. Follows(q, r)
      BY <1>1, FieldsAre DEF Follows, Covers, IsSections
    <3> HIDE DEF r
    <3> QED
      BY <3>1, <3>2, PhaseFollows
  <2>2. CASE e.type = "CONTEXT_COMPACTED"
    <3>1. Effect(q, e) = [p EXCEPT !.compaction = FALSE]
      BY <2>2 DEF Effect
    <3> HIDE DEF p
    <3> QED
      BY <1>1, <3>1, FieldsAre DEF Follows, Covers, IsSections
  <2>3. CASE e.type = "TASK_COMPLETED"
    <3> DEFINE r == [q EXCEPT !.progress = 100]
    <3>1. Effect(q, e) = InPhase(r, "COMPLETED", FALSE)
      BY <2>3 DEF Effect
    <3>2. Follows(q, r)
      BY <1>1, ProgressFollows
    <3> HIDE DEF r
    <3> QED
      BY <3>1, <3>2, PhaseFollows
  <2>4. CASE e.type \in {"TASK_STARTED", "MODEL_PREFILL", "MODEL_DECODE"}
    <3>1. \E phase : Effect(q, e) = InPhase(q, phase, TRUE)
      BY <2>4 DEF Effect
    <3> QED
      BY <1>1, <3>1, PhaseFollows
  <2>5. CASE e.type = "MODEL_REQUESTED"
    BY <2>5, RequestFollows DEF Effect
  <2>6. CASE e.type = "MODEL_RESPONSE"
    BY <2>6, ResponseFollows DEF Effect
  <2>7. CASE e.type = "FAILED"
    BY <1>1, <2>7, FailureFollows DEF Effect
  <2>8. CASE e.type \notin {"TURN_STARTED", "CONTEXT_COMPACTED", "TASK_COMPLETED",
                            "TASK_STARTED", "MODEL_PREFILL", "MODEL_DECODE",
                            "MODEL_REQUESTED", "MODEL_RESPONSE", "FAILED"}
    <3>1. Effect(q, e) = p
      BY <2>8 DEF Effect, ToolTypes
    <3> QED
      BY <1>1, <3>1
  <2> QED
    BY <2>1, <2>2, <2>3, <2>4, <2>5, <2>6, <2>7, <2>8
<1> DEFINE t == Effect(q, e)
<1>3. Applied(q, e) = IF Raises(e) THEN t ELSE [t EXCEPT !.turn = AtLeast(@, e.turn)]
  BY DEF Applied
<1> HIDE DEF t
<1>4. Follows(q, t)
  BY <1>2 DEF t
<1>5. Follows(q, [t EXCEPT !.turn = AtLeast(@, e.turn)])
  BY <1>4, FieldsAre DEF Follows, Covers, IsSections
<1> QED
  BY <1>3, <1>4, <1>5

(***************************************************************************)
(* Tools                                                                   *)
(***************************************************************************)

\* Tools of different names.
IsList(tools) ==
    /\ \E S : tools \in Seq(S)
    /\ \A i \in DOMAIN tools : tools[i] = Tool(tools[i].id, tools[i].name, tools[i].status)
    /\ \A i, j \in DOMAIN tools : tools[i].name = tools[j].name => i = j

\* Event e tells sections q which tool it means.
Tells(e, q, name) ==
    /\ name # NoName
    /\ IF Has(e, "name") THEN e.payload.name = name ELSE q.lastTool = name
    /\ e.type = "TOOL_STARTED" => Has(e, "tool") /\ Has(e, "name")
    /\ IF Has(e, "tool")
       THEN /\ e.payload.tool # NoName
            /\ \A i \in DOMAIN q.tools :
                  q.tools[i].id = e.payload.tool => q.tools[i].name = name
       ELSE \E i \in DOMAIN q.tools : q.tools[i].name = name

\* _find_tool by a name, and an id that no tool of another name has: the tool of
\* that name, or the place after the last tool.
LEMMA FoundAt ==
    ASSUME NEW tools, IsList(tools), NEW id, NEW name, name # NoName,
           id = NoName \/ \A i \in DOMAIN tools : tools[i].id = id => tools[i].name = name
    PROVE  LET p == ToolAt(tools, id, name) IN
           /\ p \in DOMAIN tools \/ p = Len(tools) + 1
           /\ \A i \in DOMAIN tools : tools[i].name = name <=> i = p
<1> DEFINE found == {i \in DOMAIN tools : Matches(tools[i], id, name)}
           p == ToolAt(tools, id, name)
<1>1. \A i : i \in found <=> i \in DOMAIN tools /\ tools[i].name = name
  BY DEF Matches
<1>2. p = IF found = {} THEN Len(tools) + 1
          ELSE CHOOSE i \in found : \A j \in found : i <= j
  BY DEF ToolAt
<1>3. DOMAIN tools = 1..Len(tools) /\ Len(tools) \in Nat
  BY DEF IsList
<1> HIDE DEF found, p
<1>4. CASE found = {}
  <2>1. p = Len(tools) + 1 /\ p \notin DOMAIN tools
    BY <1>2, <1>3, <1>4
  <2> QED
    BY <1>1, <1>4, <2>1 DEF p
<1>5. ASSUME NEW k \in found PROVE k = p
  <2>1. \A i \in found : i = k
    BY <1>1, <1>5 DEF IsList
  <2>2. k \in Int
    BY <1>1, <1>3
  <2>3. \A j \in found : k <= j
    BY <2>1, <2>2
  <2>4. (CHOOSE i \in found : \A j \in found : i <= j) \in found
    BY <1>5, <2>3
  <2> QED
    BY <1>2, <1>5, <2>1, <2>4
<1> QED
  BY <1>1, <1>4, <1>5 DEF p

\* A tool put among tools replaces one or follows the last.
LEMMA PlacedTool ==
    ASSUME NEW tools, IsList(tools), NEW p, p \in DOMAIN tools \/ p = Len(tools) + 1, NEW tool
    PROVE  LET r == WithTool(tools, p, tool) IN
           /\ \E S : r \in Seq(S)
           /\ \A i : i \in DOMAIN r <=> i \in DOMAIN tools \/ i = p
           /\ r[p] = tool
           /\ \A i \in DOMAIN tools : i # p => r[i] = tools[i]
<1> DEFINE r == WithTool(tools, p, tool)
           m == AtLeast(Len(tools), p)
<1>1. DOMAIN tools = 1..Len(tools) /\ Len(tools) \in Nat
  BY DEF IsList
<1>2. m \in Nat /\ p \in 1..m /\ \A i : i \in 1..m <=> i \in DOMAIN tools \/ i = p
  BY <1>1 DEF AtLeast
<1>3. r = [j \in 1..m |-> IF j = p THEN tool ELSE tools[j]]
  BY DEF WithTool
<1> HIDE DEF m, r
<1>4. DOMAIN r = 1..m /\ r[p] = tool /\ \A i \in DOMAIN tools : i # p => r[i] = tools[i]
  BY <1>2, <1>3
<1>5. \E S : r \in Seq(S)
  <2> DEFINE S == {r[i] : i \in 1..m}
  <2>1. r \in [1..m -> S]
    BY <1>3
  <2> HIDE DEF S
  <2>2. r \in Seq(S)
    BY <1>2, <2>1
  <2> QED
    BY <2>2
<1> QED
  BY <1>2, <1>4, <1>5 DEF r

\* The tool a report is about, as the report leaves it, and its place.
Reported(q, e) ==
    IF e.type = "TOOL_STARTED"
    THEN LET id == Sent(e, "tool", FreshId(q.tools))
             i == ToolAt(q.tools, id, Sent(e, "name", "unknown"))
             name == IF Has(e, "name") \/ i > Len(q.tools)
                     THEN Sent(e, "name", "unknown") ELSE q.tools[i].name
         IN [place |-> i, tool |-> Tool(id, name, Sent(e, "status", "RUNNING"))]
    ELSE LET meant == ToolMeant(q, e)
             status == Sent(e, "status", IF e.type = "TOOL_RESULT" THEN "RESULT_READY"
                                         ELSE meant.tool.status)
         IN [place |-> meant.place, tool |-> [meant.tool EXCEPT !.status = status]]

\* A report replaces the tool it is about, or adds it, and keeps the context.
Moved(q, r, e) ==
    /\ Covers(r)
    /\ r.tools = WithTool(q.tools, Reported(q, e).place, Reported(q, e).tool)
    /\ r.lastTool = IF e.type = "TOOL_STARTED" THEN Reported(q, e).tool.name ELSE q.lastTool

LEMMA StartedMoves ==
    ASSUME NEW e, e.type = "TOOL_STARTED", NEW q, Covers(q)
    PROVE  Moved(q, ToolStarted(q, e), e)
<1> DEFINE tools == WithTool(q.tools, Reported(q, e).place, Reported(q, e).tool)
           name == Reported(q, e).tool.name
           r == InPhase([q EXCEPT !.tools = tools, !.lastTool = name], "TOOL_RUNNING", FALSE)
<1>1. ToolStarted(q, e) = r
  BY DEF ToolStarted, Reported, Tool
<1> HIDE DEF tools, name
<1>2. Covers(r) /\ r.tools = tools /\ r.lastTool = name
  BY FieldsAre DEF Covers, IsSections, InPhase
<1> HIDE DEF r
<1> QED
  BY <1>1, <1>2 DEF Moved, tools, name

LEMMA ProgressedMoves ==
    ASSUME NEW e, e.type = "TOOL_PROGRESS", ~ IsMalformed(e, "progress"), NEW q, Covers(q)
    PROVE  Moved(q, ToolProgressed(q, e), e)
<1> DEFINE meant == ToolMeant(q, e)
           status == Sent(e, "status", meant.tool.status)
           tools == WithTool(q.tools, meant.place, [meant.tool EXCEPT !.status = status])
           tracked == [q EXCEPT !.tools = tools]
           moved == IF Has(e, "progress")
                    THEN Progressed(tracked, e.payload.progress) ELSE tracked
           phase == IF status = "WAITING_IO" THEN "TOOL_WAITING" ELSE "TOOL_RUNNING"
           r == InPhase(moved, phase, FALSE)
<1>1. ToolProgressed(q, e) = r
  BY Zenon DEF ToolProgressed
<1>2. tools = WithTool(q.tools, Reported(q, e).place, Reported(q, e).tool)
  BY DEF Reported
<1> HIDE DEF tools, phase, meant
<1>3. Covers(tracked) /\ tracked.tools = tools /\ tracked.lastTool = q.lastTool
  BY FieldsAre DEF Covers, IsSections
<1> HIDE DEF tracked
<1>4. Follows(tracked, tracked)
  BY <1>3 DEF Follows
<1>5. Follows(tracked, moved)
  BY <1>4, ProgressFollows
<1> HIDE DEF moved
<1>6. Follows(tracked, r)
  BY <1>5, PhaseFollows
<1> HIDE DEF r
<1> QED
  BY <1>1, <1>2, <1>3, <1>6 DEF Moved, Follows

LEMMA ReturnedMoves ==
    ASSUME NEW e, e.type = "TOOL_RESULT", ~ IsMalformed(e, "tokens"), PayloadFits(e),
           NEW q, Covers(q)
    PROVE  Moved(q, ToolReturned(q, e), e)
<1> DEFINE meant == ToolMeant(q, e)
           status == Sent(e, "status", "RESULT_READY")
           tools == WithTool(q.tools, meant.place, [meant.tool EXCEPT !.status = status])
           more == AtLeast(Sent(e, "tokens", 0), 0)
           total == q.total + more
           prompt == AtLeast(q.prompt, total)
           grown == [q EXCEPT !.tools = tools, !.total = total, !.prompt = prompt]
           r == InPhase(grown, "TOOL_RESULT_READY", TRUE)
<1>1. ToolReturned(q, e) = r
  <2> DEFINE returned == [q EXCEPT !.tools = tools]
             later == [returned EXCEPT !.total = total, !.prompt = AtLeast(@, total)]
  <2>1. ToolReturned(q, e) = InPhase(later, "TOOL_RESULT_READY", TRUE)
    BY Zenon DEF ToolReturned
  <2> HIDE DEF tools, total
  <2>2. later = grown
    BY FieldsAre DEF Covers, IsSections
  <2> HIDE DEF later, grown
  <2> QED
    BY <2>1, <2>2
<1>2. tools = WithTool(q.tools, Reported(q, e).place, Reported(q, e).tool)
  BY DEF Reported
<1>3. more \in Int /\ more >= 0
  BY DEF PayloadFits, IsMalformed, Sent, AtLeast
<1> HIDE DEF more, tools, meant
<1>4. total \in Int /\ prompt \in Int /\ total >= prompt
  BY <1>3 DEF Covers, IsSections, AtLeast
<1> HIDE DEF total, prompt
<1>5. Covers(grown) /\ grown.tools = tools /\ grown.lastTool = q.lastTool
  BY <1>4, FieldsAre DEF Covers, IsSections
<1> HIDE DEF grown
<1>6. Follows(grown, r)
  <2>1. Follows(grown, grown)
    BY <1>5 DEF Follows
  <2> QED
    BY <2>1, PhaseFollows
<1> HIDE DEF r
<1> QED
  BY <1>1, <1>2, <1>5, <1>6 DEF Moved, Follows

LEMMA ReportsMove ==
    ASSUME NEW e, e.type \in ToolTypes, PayloadFits(e), ~ Raises(e), NEW q, Covers(q)
    PROVE  Moved(q, Applied(q, e), e)
<1> DEFINE t == Effect(q, e)
           r == [t EXCEPT !.turn = AtLeast(@, e.turn)]
<1>1. Moved(q, t, e)
  <2>1. CASE e.type = "TOOL_STARTED"
    BY <2>1, StartedMoves DEF Effect
  <2>2. CASE e.type = "TOOL_PROGRESS"
    <3>1. ~ IsMalformed(e, "progress")
      BY <2>2 DEF Raises, Converts
    <3> QED
      BY <2>2, <3>1, ProgressedMoves DEF Effect
  <2>3. CASE e.type = "TOOL_RESULT"
    <3>1. ~ IsMalformed(e, "tokens")
      BY <2>3 DEF Raises, Converts
    <3> QED
      BY <2>3, <3>1, ReturnedMoves DEF Effect
  <2> QED
    BY <2>1, <2>2, <2>3 DEF ToolTypes
<1>2. Applied(q, e) = r
  BY DEF Applied
<1> HIDE DEF t
<1>3. Covers(r) /\ r.tools = t.tools /\ r.lastTool = t.lastTool
  BY <1>1, FieldsAre DEF Moved, Covers, IsSections
<1> QED
  BY <1>1, <1>2, <1>3 DEF Moved

\* What a report that tells its tool does: the tool of that name, new or not, is
\* at its place with what the report says of it.
ToolPut(tools, r, p, name, e) ==
    /\ \E S : r \in Seq(S)
    /\ \A i : i \in DOMAIN r <=> i \in DOMAIN tools \/ i = p
    /\ \A i \in DOMAIN tools : (i # p => r[i] = tools[i]) /\ (tools[i].name = name <=> i = p)
    /\ r[p] = Tool(r[p].id, name, r[p].status)
    /\ IF p \in DOMAIN tools /\ e.type # "TOOL_STARTED" THEN r[p].id = tools[p].id
       ELSE Has(e, "tool") /\ r[p].id = e.payload.tool
    /\ SaysStatus(e) => r[p].status = StatusOf(e)
    /\ ~ SaysStatus(e) /\ p \in DOMAIN tools => r[p].status = tools[p].status

LEMMA StartedToolPut ==
    ASSUME NEW e, e.type = "TOOL_STARTED", NEW q, IsList(q.tools),
           NEW name, Tells(e, q, name)
    PROVE  LET put == Reported(q, e)
           IN  /\ put.tool.name = name
               /\ ToolPut(q.tools, WithTool(q.tools, put.place, put.tool), put.place, name, e)
<1> DEFINE id == e.payload.tool
           status == Sent(e, "status", "RUNNING")
           p == ToolAt(q.tools, id, name)
           tool == Tool(id, name, status)
           r == WithTool(q.tools, p, tool)
<1>1. Has(e, "tool") /\ Has(e, "name") /\ e.payload.name = name /\ id # NoName /\ name # NoName
  BY DEF Tells
<1>2. Reported(q, e).place = p /\ Reported(q, e).tool = tool
  <2>1. Sent(e, "tool", FreshId(q.tools)) = id /\ Sent(e, "name", "unknown") = name
    BY <1>1 DEF Sent
  <2> QED
    BY <1>1, <2>1 DEF Reported
<1>3. /\ p \in DOMAIN q.tools \/ p = Len(q.tools) + 1
      /\ \A i \in DOMAIN q.tools : q.tools[i].name = name <=> i = p
  BY <1>1, FoundAt DEF Tells
<1>4. tool.id = id /\ tool.name = name /\ tool.status = status
  BY DEF Tool
<1>5. SaysStatus(e) /\ StatusOf(e) = status
  BY DEF SaysStatus, StatusOf
<1>6. tool = Tool(tool.id, name, tool.status)
  BY <1>4
<1> HIDE DEF p, tool, status
<1>7. /\ \E S : r \in Seq(S)
      /\ \A i : i \in DOMAIN r <=> i \in DOMAIN q.tools \/ i = p
      /\ r[p] = tool
      /\ \A i \in DOMAIN q.tools : i # p => r[i] = q.tools[i]
  BY <1>3, PlacedTool
<1> HIDE DEF r
<1>8. ToolPut(q.tools, r, p, name, e)
  BY <1>1, <1>3, <1>4, <1>5, <1>6, <1>7 DEF ToolPut
<1> QED
  BY <1>2, <1>4, <1>8 DEF r

LEMMA MeantToolPut ==
    ASSUME NEW e, e.type \in {"TOOL_PROGRESS", "TOOL_RESULT"},
           NEW q, IsList(q.tools), NEW name, Tells(e, q, name)
    PROVE  LET put == Reported(q, e)
           IN  ToolPut(q.tools, WithTool(q.tools, put.place, put.tool), put.place, name, e)
<1> DEFINE id == Sent(e, "tool", NoName)
           p == ToolAt(q.tools, id, name)
           new == Tool(IF id = NoName THEN FreshId(q.tools) ELSE id,
                       IF name = NoName THEN "unknown" ELSE name, "PREPARING")
           old == IF p <= Len(q.tools) THEN q.tools[p] ELSE new
           status == Sent(e, "status", IF e.type = "TOOL_RESULT" THEN "RESULT_READY"
                                       ELSE old.status)
           tool == [old EXCEPT !.status = status]
           r == WithTool(q.tools, p, tool)
<1>1. Sent(e, "name", q.lastTool) = name /\ name # NoName
  BY DEF Tells, Sent
<1>2. ToolMeant(q, e) = [place |-> p, tool |-> old]
  BY <1>1 DEF ToolMeant
<1>3. DOMAIN q.tools = 1..Len(q.tools) /\ Len(q.tools) \in Nat
  BY DEF IsList
<1>4. /\ p \in DOMAIN q.tools \/ p = Len(q.tools) + 1
      /\ \A i \in DOMAIN q.tools : q.tools[i].name = name <=> i = p
  <2>1. id = NoName \/ \A i \in DOMAIN q.tools : q.tools[i].id = id => q.tools[i].name = name
    BY DEF Tells, Sent
  <2> QED
    BY <1>1, <2>1, FoundAt
<1>5. p \notin DOMAIN q.tools => Has(e, "tool") /\ id = e.payload.tool /\ id # NoName
  BY <1>4 DEF Tells, Sent
<1>6. Reported(q, e).place = p /\ Reported(q, e).tool = tool
  <2> HIDE DEF old, p
  <2> QED
    BY <1>2 DEF Reported
<1> HIDE DEF p, id
<1>7. /\ old = Tool(old.id, name, old.status)
      /\ p \in DOMAIN q.tools => old = q.tools[p]
      /\ p \notin DOMAIN q.tools => old.id = id
  <2>1. CASE p \in DOMAIN q.tools
    <3>1. old = q.tools[p]
      BY <1>3, <2>1
    <3> HIDE DEF old
    <3> QED
      BY <1>4, <2>1, <3>1 DEF IsList
  <2>2. CASE p \notin DOMAIN q.tools
    <3>1. old = Tool(id, name, "PREPARING")
      BY <1>1, <1>3, <1>4, <1>5, <2>2
    <3> HIDE DEF old
    <3> QED
      BY <2>2, <3>1 DEF Tool
  <2> QED
    BY <2>1, <2>2
<1> HIDE DEF old
<1>8. /\ SaysStatus(e) => status = StatusOf(e)
      /\ ~ SaysStatus(e) => status = old.status
  BY DEF SaysStatus, StatusOf, Sent
<1> HIDE DEF status
<1>9. tool = Tool(old.id, name, status) /\ tool.id = old.id /\ tool.status = status
  BY <1>7 DEF Tool
<1> HIDE DEF tool
<1>10. /\ \E S : r \in Seq(S)
       /\ \A i : i \in DOMAIN r <=> i \in DOMAIN q.tools \/ i = p
       /\ r[p] = tool
       /\ \A i \in DOMAIN q.tools : i # p => r[i] = q.tools[i]
  BY <1>4, PlacedTool
<1> HIDE DEF r
<1>11. ToolPut(q.tools, r, p, name, e)
  <2>1. IF p \in DOMAIN q.tools /\ e.type # "TOOL_STARTED" THEN r[p].id = q.tools[p].id
        ELSE Has(e, "tool") /\ r[p].id = e.payload.tool
    BY <1>5, <1>7, <1>9, <1>10
  <2>2. r[p] = Tool(r[p].id, name, r[p].status) /\ r[p].status = status
    BY <1>9, <1>10
  <2> QED
    BY <1>4, <1>7, <1>8, <1>10, <2>1, <2>2 DEF ToolPut
<1> QED
  BY <1>6, <1>11 DEF r

(***************************************************************************)
(* The log and the sections                                                *)
(***************************************************************************)

\* Log k is log l with one more entry.
IsNext(l, k) ==
    /\ Len(l) \in Nat /\ DOMAIN l = 1..Len(l)
    /\ Len(k) = Len(l) + 1 /\ DOMAIN k = 1..Len(k)
    /\ \A n \in 1..Len(l) : k[n] = l[n]

LEMMA EarlierReports ==
    ASSUME NEW l, NEW k, IsNext(l, k), NEW s
    PROVE  /\ \A n \in 1..Len(l) : /\ IsReport(k, s, n) <=> IsReport(l, s, n)
                                   /\ IsStart(k, s, n) <=> IsStart(l, s, n)
           /\ \A n \in 0..Len(l) : \A m :
                  StartedLast(k, s, m, n) <=> StartedLast(l, s, m, n)
           /\ \A n \in 1..Len(l) : \A name : Means(k, s, n, name) <=> Means(l, s, n, name)
<1>1. \A n \in 1..Len(l) : /\ IsReport(k, s, n) <=> IsReport(l, s, n)
                           /\ IsStart(k, s, n) <=> IsStart(l, s, n)
  BY DEF IsNext, IsReport, IsStart
<1>2. ASSUME NEW n \in 0..Len(l), NEW m
      PROVE  StartedLast(k, s, m, n) <=> StartedLast(l, s, m, n)
  <2>1. IsStart(k, s, m) \/ IsStart(l, s, m) => m \in 1..(Len(l) + 1)
    BY DEF IsStart, IsReport, IsNext
  <2>2. m \in 1..(Len(l) + 1) /\ m <= n => m \in 1..Len(l) /\ (m + 1)..n \subseteq 1..Len(l)
    BY DEF IsNext
  <2>3. CASE m \in 1..(Len(l) + 1) /\ m <= n
    BY <1>1, <2>2, <2>3 DEF StartedLast
  <2> QED
    BY <2>1, <2>3 DEF StartedLast
<1>3. ASSUME NEW n \in 1..Len(l), NEW name
      PROVE  Means(k, s, n, name) <=> Means(l, s, n, name)
  <2>1. /\ n - 1 \in 0..Len(l) /\ 1..(n - 1) \subseteq 1..Len(l) /\ k[n] = l[n]
        /\ \A m \in 1..Len(l) : k[m] = l[m]
    BY DEF IsNext
  <2>2. \A m : StartedLast(k, s, m, n - 1) <=> StartedLast(l, s, m, n - 1)
    BY <1>2, <2>1
  <2>3. IsReport(k, s, n) <=> IsReport(l, s, n)
    BY <1>1
  <2> HIDE DEF StartedLast, IsReport
  <2> QED
    BY <2>1, <2>2, <2>3 DEF Means
<1> QED
  BY <1>1, <1>2, <1>3

LEMMA MeansOne ==
    ASSUME NEW l, Len(l) \in Nat, DOMAIN l = 1..Len(l), NEW s, NEW n,
           NEW name, Means(l, s, n, name), NEW other, Means(l, s, n, other)
    PROVE  name = other
<1>1. n \in 1..Len(l)
  BY DEF Means, IsReport
<1>2. CASE Has(l[n].event, "name")
  BY <1>2 DEF Means
<1>3. CASE ~ Has(l[n].event, "name")
  <2>1. PICK m \in 1..(n - 1) : /\ StartedLast(l, s, m, n - 1)
                                /\ name = Sent(l[m].event, "name", NoName)
    BY <1>3 DEF Means
  <2>2. PICK j \in 1..(n - 1) : /\ StartedLast(l, s, j, n - 1)
                                /\ other = Sent(l[j].event, "name", NoName)
    BY <1>3 DEF Means
  <2>3. ~ m < j /\ ~ j < m
    BY <1>1, <2>1, <2>2 DEF StartedLast
  <2>4. m = j
    BY <1>1, <2>3
  <2> QED
    BY <2>1, <2>2, <2>4
<1> QED
  BY <1>2, <1>3

StartsHaveNames(l, s) == \A n : IsStart(l, s, n) => Has(l[n].event, "name")

\* What a report means was named by it or by a start.
LEMMA MeantIsNamed ==
    ASSUME NEW l, NEW s, StartsHaveNames(l, s), NEW n, NEW name, Means(l, s, n, name)
    PROVE  name \in ToolNames(l, s)
<1>1. CASE Has(l[n].event, "name")
  BY <1>1 DEF Means, IsReport, ToolNames
<1>2. CASE ~ Has(l[n].event, "name")
  <2>1. PICK m : StartedLast(l, s, m, n - 1) /\ name = Sent(l[m].event, "name", NoName)
    BY <1>2 DEF Means
  <2>2. IsReport(l, s, m) /\ Has(l[m].event, "name")
    BY <2>1 DEF StartedLast, IsStart, StartsHaveNames
  <2> QED
    BY <2>1, <2>2 DEF IsReport, ToolNames, Sent
<1> QED
  BY <1>1, <1>2

LEMMA NamingStarts ==
    ASSUME NEW l, NEW s, NamesItsTools(l, s)
    PROVE  StartsHaveNames(l, s)
BY DEF NamesItsTools, StartsHaveNames, IsStart, IsReport

LEMMA StillNames ==
    ASSUME NEW l, NEW k, IsNext(l, k), NEW s, NamesItsTools(k, s)
    PROVE  NamesItsTools(l, s)
<1>1. StartsHaveNames(l, s)
  <2> SUFFICES ASSUME NEW n, IsStart(l, s, n) PROVE Has(l[n].event, "name")
    BY DEF StartsHaveNames
  <2>1. n \in 1..Len(l)
    BY DEF IsStart, IsReport, IsNext
  <2>2. IsStart(k, s, n) /\ k[n] = l[n]
    BY <2>1, EarlierReports DEF IsNext
  <2> QED
    BY <2>2, NamingStarts DEF StartsHaveNames
<1> SUFFICES ASSUME NEW n \in DOMAIN l, IsReport(l, s, n)
             PROVE  LET e == l[n].event IN
                    /\ IsStart(l, s, n) => Has(e, "tool") /\ Has(e, "name")
                    /\ Has(e, "tool") => e.payload.tool # NoName
                    /\ \E name \in ToolNames(l, s) \ {NoName} :
                          /\ Means(l, s, n, name)
                          /\ Has(e, "tool") \/ \E m \in 1..(n - 1) : Means(l, s, m, name)
                          /\ \A m \in DOMAIN l :
                                /\ IsReport(l, s, m) /\ Has(e, "tool") /\ Has(l[m].event, "tool")
                                /\ l[m].event.payload.tool = e.payload.tool
                                => Means(l, s, m, name)
  BY DEF NamesItsTools
<1> DEFINE e == l[n].event
<1>2. /\ n \in 1..Len(l) /\ n \in DOMAIN k /\ k[n] = l[n] /\ 1..(n - 1) \subseteq 1..Len(l)
      /\ DOMAIN l = 1..Len(l) /\ 1..Len(l) \subseteq DOMAIN k
      /\ \A m \in 1..Len(l) : k[m] = l[m]
  BY DEF IsNext
<1>3. /\ \A m \in 1..Len(l) : /\ IsReport(k, s, m) <=> IsReport(l, s, m)
                              /\ IsStart(k, s, m) <=> IsStart(l, s, m)
      /\ \A m \in 1..Len(l) : \A name : Means(k, s, m, name) <=> Means(l, s, m, name)
  BY EarlierReports
<1>4. IsReport(k, s, n)
  BY <1>2, <1>3
<1>5. IsStart(k, s, n) => Has(e, "tool") /\ Has(e, "name")
  BY <1>2, <1>4 DEF NamesItsTools
<1>6. Has(e, "tool") => e.payload.tool # NoName
  BY <1>2, <1>4 DEF NamesItsTools
<1>7. PICK name \in ToolNames(k, s) \ {NoName} :
          /\ Means(k, s, n, name)
          /\ Has(e, "tool") \/ \E m \in 1..(n - 1) : Means(k, s, m, name)
          /\ \A m \in DOMAIN k :
                /\ IsReport(k, s, m) /\ Has(e, "tool") /\ Has(k[m].event, "tool")
                /\ k[m].event.payload.tool = e.payload.tool
                => Means(k, s, m, name)
  BY <1>2, <1>4 DEF NamesItsTools
<1> HIDE DEF e
<1>8. Means(l, s, n, name)
  BY <1>2, <1>3, <1>7
<1>9. name \in ToolNames(l, s) \ {NoName}
  BY <1>1, <1>7, <1>8, MeantIsNamed
<1>10. Has(e, "tool") \/ \E m \in 1..(n - 1) : Means(l, s, m, name)
  BY <1>2, <1>3, <1>7
<1>11. \A m \in DOMAIN l :
          /\ IsReport(l, s, m) /\ Has(e, "tool") /\ Has(l[m].event, "tool")
          /\ l[m].event.payload.tool = e.payload.tool
          => Means(l, s, m, name)
  BY <1>2, <1>3, <1>7
<1>12. IsStart(l, s, n) => Has(e, "tool") /\ Has(e, "name")
  BY <1>2, <1>3, <1>5
<1> QED
  BY <1>6, <1>8, <1>9, <1>10, <1>11, <1>12 DEF e

\* What sections hold of the tools of a log: besides what is checked, that the id
\* of a listed tool was reported of it, and the tool that was started last.
IdReported(tool, l, s) ==
    \E n : Means(l, s, n, tool.name) /\ Has(l[n].event, "tool")
                                     /\ l[n].event.payload.tool = tool.id

LastIsStarted(last, l, s) ==
    \A m : StartedLast(l, s, m, Len(l)) => last = Sent(l[m].event, "name", NoName)

Lists(q, l, s) ==
    /\ IsList(q.tools)
    /\ \A i \in DOMAIN q.tools : IdReported(q.tools[i], l, s) /\ ToldOf(q.tools[i], l, s)
    /\ {q.tools[i].name : i \in DOMAIN q.tools} = ToolNames(l, s)
    /\ LastIsStarted(q.lastTool, l, s)

Fit(q, l, s) == Covers(q) /\ (NamesItsTools(l, s) => Lists(q, l, s))

SectionsInv ==
    \A s \in Sessions :
        /\ header[s] = Absent => sections[s] = NewSections
        /\ Fit(sections[s], log, s)

LEMMA SectionsMatch == SectionsInv => SectionsMatchLog
BY DEF SectionsInv, Fit, Covers, Lists, IsList, SectionsMatchLog, ContextCoversPrompt,
       ToolsMatchLog

LEMMA SectionsInit == Init => SectionsInv
<1> SUFFICES ASSUME Init, NEW s \in Sessions
             PROVE  sections[s] = NewSections /\ Fit(sections[s], log, s)
  BY DEF SectionsInv
<1>1. sections[s] = NewSections /\ log = <<>>
  BY DEF Init
<1>2. NewSections.tools = <<>> /\ NewSections.lastTool = NoName
  BY DEF NewSections
<1>3. IsList(<<>>)
  <2>1. <<>> \in Seq({}) /\ DOMAIN <<>> = {}
    OBVIOUS
  <2> QED
    BY <2>1 DEF IsList
<1>4. DOMAIN <<>> = {} /\ \A n : ~ IsReport(<<>>, s, n)
  BY DEF IsReport
<1>5. ToolNames(<<>>, s) = {}
  BY <1>4 DEF ToolNames
<1>6. LastIsStarted(NoName, <<>>, s)
  BY <1>4 DEF LastIsStarted, StartedLast, IsStart
<1> QED
  BY <1>1, <1>2, <1>3, <1>4, <1>5, <1>6, NewCovers DEF Fit, Lists

\* A listed tool that the new entry does not mean stays as it is.
LEMMA ToldEarlier ==
    ASSUME NEW l, NEW k, IsNext(l, k), NEW s, NEW tool,
           IdReported(tool, l, s), ToldOf(tool, l, s), ~ Means(k, s, Len(k), tool.name)
    PROVE  IdReported(tool, k, s) /\ ToldOf(tool, k, s)
<1> DEFINE About(j) == {n \in DOMAIN j : Means(j, s, n, tool.name)}
<1>1. /\ \A n \in 1..Len(l) : /\ IsStart(k, s, n) <=> IsStart(l, s, n)
                              /\ Means(k, s, n, tool.name) <=> Means(l, s, n, tool.name)
      /\ DOMAIN l = 1..Len(l) /\ DOMAIN k = 1..(Len(l) + 1) /\ Len(k) = Len(l) + 1
      /\ Len(l) \in Nat /\ \A n \in 1..Len(l) : k[n] = l[n]
  BY EarlierReports DEF IsNext
<1>2. IdReported(tool, k, s)
  <2>1. PICK n : Means(l, s, n, tool.name) /\ Has(l[n].event, "tool")
                                           /\ l[n].event.payload.tool = tool.id
    BY DEF IdReported
  <2>2. n \in 1..Len(l)
    BY <1>1, <2>1 DEF Means, IsReport
  <2> QED
    BY <1>1, <2>1, <2>2 DEF IdReported
<1>3. ASSUME NEW n \in DOMAIN k, Means(k, s, n, tool.name)
      PROVE  LET later == {m \in (n + 1)..Len(k) : Means(k, s, m, tool.name)} IN
             /\ SaysStatus(k[n].event) /\ (\A m \in later : ~ SaysStatus(k[m].event))
                    => tool.status = StatusOf(k[n].event)
             /\ IsStart(k, s, n) /\ (\A m \in later : ~ IsStart(k, s, m))
                    => tool.id = k[n].event.payload.tool
  <2>1. n \in 1..Len(l) /\ Means(l, s, n, tool.name)
    BY <1>1, <1>3
  <2>2. ASSUME NEW m \in (n + 1)..Len(k), Means(k, s, m, tool.name)
        PROVE  /\ m \in (n + 1)..Len(l) /\ Means(l, s, m, tool.name) /\ k[m] = l[m]
               /\ IsStart(k, s, m) <=> IsStart(l, s, m)
    BY <1>1, <2>1, <2>2
  <2>3. ASSUME NEW m \in (n + 1)..Len(l), Means(l, s, m, tool.name)
        PROVE  /\ m \in (n + 1)..Len(k) /\ Means(k, s, m, tool.name) /\ k[m] = l[m]
               /\ IsStart(k, s, m) <=> IsStart(l, s, m)
    BY <1>1, <2>1, <2>3
  <2>4. k[n] = l[n] /\ (IsStart(k, s, n) <=> IsStart(l, s, n)) /\ n \in DOMAIN l
    BY <1>1, <2>1
  <2> QED
    BY <2>1, <2>2, <2>3, <2>4 DEF ToldOf
<1> QED
  BY <1>2, <1>3 DEF ToldOf

\* An entry that is no report of a session leaves what its sections list.
LEMMA OtherEntries ==
    ASSUME NEW l, NEW k, IsNext(l, k), NEW s, ~ IsReport(k, s, Len(k)),
           NEW q, NEW r, r.tools = q.tools, r.lastTool = q.lastTool, Lists(q, l, s)
    PROVE  Lists(r, k, s)
<1>1. /\ DOMAIN l = 1..Len(l) /\ DOMAIN k = 1..(Len(l) + 1) /\ Len(k) = Len(l) + 1
      /\ Len(l) \in Nat /\ \A n \in 1..Len(l) : k[n] = l[n]
  BY DEF IsNext
<1>2. ToolNames(k, s) = ToolNames(l, s)
  <2>1. \A n \in 1..Len(l) : IsReport(k, s, n) <=> IsReport(l, s, n)
    BY EarlierReports
  <2>2. {n \in DOMAIN k : IsReport(k, s, n) /\ Has(k[n].event, "name")}
            = {n \in DOMAIN l : IsReport(l, s, n) /\ Has(l[n].event, "name")}
    BY <1>1, <2>1
  <2> QED
    BY <1>1, <2>2 DEF ToolNames
<1>3. LastIsStarted(r.lastTool, k, s)
  <2> SUFFICES ASSUME NEW m, StartedLast(k, s, m, Len(k))
               PROVE  r.lastTool = Sent(k[m].event, "name", NoName)
    BY DEF LastIsStarted
  <2>1. m \in 1..Len(l)
    BY <1>1 DEF StartedLast, IsStart, IsReport
  <2>2. StartedLast(k, s, m, Len(l))
    BY <1>1, <2>1 DEF StartedLast
  <2>3. StartedLast(l, s, m, Len(l))
    BY <1>1, <2>2, EarlierReports
  <2> QED
    BY <1>1, <2>1, <2>3 DEF Lists, LastIsStarted
<1>4. \A name : ~ Means(k, s, Len(k), name)
  BY DEF Means
<1>5. ASSUME NEW i \in DOMAIN q.tools
      PROVE  IdReported(q.tools[i], k, s) /\ ToldOf(q.tools[i], k, s)
  BY <1>4, <1>5, ToldEarlier DEF Lists
<1> QED
  BY <1>2, <1>3, <1>5 DEF Lists

\* A report of a session whose harness names its tools tells the sections which
\* tool it means.
LEMMA ReportTells ==
    ASSUME NEW l, NEW k, IsNext(l, k), NEW s, NamesItsTools(k, s),
           IsReport(k, s, Len(k)), NEW q, Lists(q, l, s)
    PROVE  \E name : Means(k, s, Len(k), name) /\ Tells(k[Len(k)].event, q, name)
<1> DEFINE top == Len(k)
           e == k[top].event
<1>1. /\ DOMAIN l = 1..Len(l) /\ DOMAIN k = 1..top /\ top = Len(l) + 1 /\ top \in DOMAIN k
      /\ Len(l) \in Nat /\ \A n \in 1..Len(l) : k[n] = l[n] /\ n \in DOMAIN k
  BY DEF IsNext
<1>2. /\ \A n \in 1..Len(l) : IsReport(k, s, n) <=> IsReport(l, s, n)
      /\ \A m : StartedLast(k, s, m, Len(l)) <=> StartedLast(l, s, m, Len(l))
      /\ \A n \in 1..Len(l) : \A name : Means(k, s, n, name) <=> Means(l, s, n, name)
  BY <1>1, EarlierReports
<1>3. /\ IsStart(k, s, top) => Has(e, "tool") /\ Has(e, "name")
      /\ Has(e, "tool") => e.payload.tool # NoName
  BY <1>1 DEF NamesItsTools
<1>4. PICK name \in ToolNames(k, s) \ {NoName} :
          /\ Means(k, s, top, name)
          /\ Has(e, "tool") \/ \E m \in 1..(top - 1) : Means(k, s, m, name)
          /\ \A m \in DOMAIN k :
                /\ IsReport(k, s, m) /\ Has(e, "tool") /\ Has(k[m].event, "tool")
                /\ k[m].event.payload.tool = e.payload.tool
                => Means(k, s, m, name)
  BY <1>1 DEF NamesItsTools
<1>5. StartsHaveNames(l, s)
  BY StillNames, NamingStarts
<1> HIDE DEF e
<1>6. IF Has(e, "name") THEN e.payload.name = name ELSE q.lastTool = name
  <2>1. CASE Has(e, "name")
    BY <1>4, <2>1 DEF Means, e
  <2>2. CASE ~ Has(e, "name")
    <3>1. PICK m \in 1..(top - 1) : /\ StartedLast(k, s, m, top - 1)
                                    /\ name = Sent(k[m].event, "name", NoName)
      BY <1>4, <2>2 DEF Means, e
    <3>2. top - 1 = Len(l) /\ m \in 1..Len(l)
      BY <1>1
    <3>3. StartedLast(l, s, m, Len(l)) /\ name = Sent(l[m].event, "name", NoName)
      BY <1>1, <1>2, <3>1, <3>2
    <3> QED
      BY <2>2, <3>3 DEF Lists, LastIsStarted
  <2> QED
    BY <2>1, <2>2
<1>7. ASSUME Has(e, "tool"), NEW i \in DOMAIN q.tools, q.tools[i].id = e.payload.tool
      PROVE  q.tools[i].name = name
  <2>1. PICK n : /\ Means(l, s, n, q.tools[i].name) /\ Has(l[n].event, "tool")
                 /\ l[n].event.payload.tool = e.payload.tool
    BY <1>7 DEF Lists, IdReported
  <2>2. n \in 1..Len(l) /\ IsReport(l, s, n)
    BY <1>1, <2>1 DEF Means, IsReport
  <2>3. Means(k, s, n, name)
    BY <1>1, <1>2, <1>4, <1>7, <2>1, <2>2
  <2>4. Means(l, s, n, name)
    BY <1>2, <2>2, <2>3
  <2> QED
    BY <1>1, <2>1, <2>4, MeansOne
<1>8. ASSUME ~ Has(e, "tool")
      PROVE  \E i \in DOMAIN q.tools : q.tools[i].name = name
  <2>1. PICK m \in 1..(top - 1) : Means(k, s, m, name)
    BY <1>4, <1>8
  <2>2. Means(l, s, m, name)
    BY <1>1, <1>2, <2>1
  <2>3. name \in ToolNames(l, s)
    BY <1>5, <2>2, MeantIsNamed
  <2> QED
    BY <2>3 DEF Lists
<1>9. e.type = "TOOL_STARTED" => Has(e, "tool") /\ Has(e, "name")
  BY <1>3 DEF IsStart, e
<1>10. Tells(e, q, name)
  BY <1>3, <1>4, <1>6, <1>7, <1>8, <1>9 DEF Tells
<1> QED
  BY <1>4, <1>10 DEF e

\* After such a report the sections list what the longer log tells.
LEMMA ReportListed ==
    ASSUME NEW l, NEW k, IsNext(l, k), NEW s, NamesItsTools(k, s),
           IsReport(k, s, Len(k)), NEW q, Lists(q, l, s), NEW name,
           Means(k, s, Len(k), name), NEW p, NEW r,
           ToolPut(q.tools, r.tools, p, name, k[Len(k)].event),
           r.lastTool = IF k[Len(k)].event.type = "TOOL_STARTED" THEN name ELSE q.lastTool
    PROVE  Lists(r, k, s)
<1> DEFINE top == Len(k)
           e == k[top].event
<1>1. /\ DOMAIN l = 1..Len(l) /\ DOMAIN k = 1..top /\ top = Len(l) + 1 /\ top \in DOMAIN k
      /\ Len(l) \in Nat /\ top \in Nat
      /\ \A n \in 1..Len(l) : k[n] = l[n] /\ n \in DOMAIN k
  BY DEF IsNext
<1>2. /\ \A n \in 1..Len(l) : /\ IsReport(k, s, n) <=> IsReport(l, s, n)
                              /\ IsStart(k, s, n) <=> IsStart(l, s, n)
      /\ \A m : StartedLast(k, s, m, Len(l)) <=> StartedLast(l, s, m, Len(l))
      /\ \A n \in 1..Len(l) : \A x : Means(k, s, n, x) <=> Means(l, s, n, x)
  BY <1>1, EarlierReports
<1>3. StartsHaveNames(l, s) /\ StartsHaveNames(k, s)
  BY StillNames, NamingStarts
<1>4. \A x : Means(k, s, top, x) => x = name
  BY <1>1, MeansOne
<1> HIDE DEF e
<1>5. /\ \E S : r.tools \in Seq(S)
      /\ \A i : i \in DOMAIN r.tools <=> i \in DOMAIN q.tools \/ i = p
      /\ \A i \in DOMAIN q.tools : /\ i # p => r.tools[i] = q.tools[i]
                                   /\ q.tools[i].name = name <=> i = p
      /\ r.tools[p] = Tool(r.tools[p].id, name, r.tools[p].status)
      /\ IF p \in DOMAIN q.tools /\ e.type # "TOOL_STARTED" THEN r.tools[p].id = q.tools[p].id
         ELSE Has(e, "tool") /\ r.tools[p].id = e.payload.tool
      /\ SaysStatus(e) => r.tools[p].status = StatusOf(e)
      /\ ~ SaysStatus(e) /\ p \in DOMAIN q.tools => r.tools[p].status = q.tools[p].status
  BY DEF ToolPut, e
<1>6. r.tools[p].name = name
  <2>1. \A id, status : Tool(id, name, status).name = name
    BY DEF Tool
  <2>2. r.tools[p] = Tool(r.tools[p].id, name, r.tools[p].status)
    BY <1>5
  <2> DEFINE id == r.tools[p].id
             status == r.tools[p].status
  <2>3. Tool(id, name, status).name = name
    BY <2>1
  <2> QED
    BY <2>2, <2>3, Zenon
<1>7. IsList(r.tools)
  <2>1. \A i \in DOMAIN r.tools :
            r.tools[i] = Tool(r.tools[i].id, r.tools[i].name, r.tools[i].status)
    <3> TAKE i \in DOMAIN r.tools
    <3>1. CASE i = p
      BY <1>5, <1>6, <3>1
    <3>2. CASE i # p
      BY <1>5, <3>2 DEF Lists, IsList
    <3> QED
      BY <3>1, <3>2
  <2>2. \A i, j \in DOMAIN r.tools : r.tools[i].name = r.tools[j].name => i = j
    BY <1>5, <1>6 DEF Lists, IsList
  <2> QED
    BY <1>5, <2>1, <2>2 DEF IsList
<1>8. ToolNames(k, s) = ToolNames(l, s) \cup {name}
  <2>1. name \in ToolNames(k, s)
    BY <1>3, MeantIsNamed
  <2>2. ToolNames(l, s) \subseteq ToolNames(k, s)
    BY <1>1, <1>2 DEF ToolNames
  <2>3. ASSUME NEW n \in DOMAIN k, IsReport(k, s, n), Has(k[n].event, "name")
        PROVE  k[n].event.payload.name \in ToolNames(l, s) \cup {name}
    <3>1. CASE n = top
      BY <2>3, <3>1 DEF Means
    <3>2. CASE n # top
      BY <1>1, <1>2, <2>3, <3>2 DEF ToolNames
    <3> QED
      BY <3>1, <3>2
  <2>4. ToolNames(k, s) \subseteq ToolNames(l, s) \cup {name}
    BY <2>3 DEF ToolNames
  <2> QED
    BY <2>1, <2>2, <2>4
<1>9. {r.tools[i].name : i \in DOMAIN r.tools} = ToolNames(k, s)
  <2>1. {q.tools[i].name : i \in DOMAIN q.tools} = ToolNames(l, s)
    BY DEF Lists
  <2> QED
    BY <1>5, <1>6, <1>8, <2>1
<1>10. LastIsStarted(r.lastTool, k, s)
  <2> SUFFICES ASSUME NEW m, StartedLast(k, s, m, top)
               PROVE  r.lastTool = Sent(k[m].event, "name", NoName)
    BY DEF LastIsStarted
  <2>1. m \in 1..top
    BY <1>1 DEF StartedLast, IsStart, IsReport
  <2>2. CASE e.type = "TOOL_STARTED"
    <3>1. IsStart(k, s, top)
      BY <2>2 DEF IsStart, e
    <3>2. m = top
      BY <1>1, <2>1, <3>1 DEF StartedLast
    <3>3. Has(e, "name")
      BY <1>3, <3>1 DEF StartsHaveNames, e
    <3>4. e.payload.name = name
      BY <3>3 DEF Means, e
    <3> QED
      BY <2>2, <3>2, <3>3, <3>4 DEF Sent, e
  <2>3. CASE e.type # "TOOL_STARTED"
    <3>1. m # top
      BY <2>3 DEF StartedLast, IsStart, e
    <3>2. m \in 1..Len(l) /\ StartedLast(k, s, m, Len(l))
      BY <1>1, <2>1, <3>1 DEF StartedLast
    <3> QED
      BY <1>1, <1>2, <2>3, <3>2 DEF Lists, LastIsStarted, e
  <2> QED
    BY <2>2, <2>3
<1>11. ASSUME NEW i \in DOMAIN r.tools, i # p
       PROVE  IdReported(r.tools[i], k, s) /\ ToldOf(r.tools[i], k, s)
  <2>1. i \in DOMAIN q.tools /\ r.tools[i] = q.tools[i] /\ q.tools[i].name # name
    BY <1>5, <1>11
  <2> QED
    BY <1>4, <2>1, ToldEarlier DEF Lists
<1>12. IdReported(r.tools[p], k, s)
  <2>1. CASE p \in DOMAIN q.tools /\ e.type # "TOOL_STARTED"
    <3>1. r.tools[p].id = q.tools[p].id /\ q.tools[p].name = name
      BY <1>5, <2>1
    <3>2. PICK n : /\ Means(l, s, n, name) /\ Has(l[n].event, "tool")
                   /\ l[n].event.payload.tool = q.tools[p].id
      BY <2>1, <3>1 DEF Lists, IdReported
    <3>3. n \in 1..Len(l)
      BY <1>1, <3>2 DEF Means, IsReport
    <3>4. Means(k, s, n, name) /\ k[n] = l[n]
      BY <1>1, <1>2, <3>2, <3>3
    <3> QED
      BY <1>6, <3>1, <3>2, <3>4 DEF IdReported
  <2>2. CASE ~ (p \in DOMAIN q.tools /\ e.type # "TOOL_STARTED")
    <3>1. Has(e, "tool") /\ e.payload.tool = r.tools[p].id
      BY <1>5, <2>2
    <3> QED
      BY <1>6, <3>1 DEF IdReported, e
  <2> QED
    BY <2>1, <2>2
<1>13. ToldOf(r.tools[p], k, s)
  <2> SUFFICES ASSUME NEW n \in DOMAIN k, Means(k, s, n, name)
               PROVE  LET later == {m \in (n + 1)..Len(k) : Means(k, s, m, name)} IN
                      /\ SaysStatus(k[n].event) /\ (\A m \in later : ~ SaysStatus(k[m].event))
                             => r.tools[p].status = StatusOf(k[n].event)
                      /\ IsStart(k, s, n) /\ (\A m \in later : ~ IsStart(k, s, m))
                             => r.tools[p].id = k[n].event.payload.tool
    BY <1>6 DEF ToldOf
  <2>1. CASE n = top
    BY <1>5, <2>1 DEF e, IsStart
  <2>2. CASE n # top
    <3>1. n \in 1..Len(l) /\ Means(l, s, n, name) /\ k[n] = l[n] /\ top \in (n + 1)..Len(k)
      BY <1>1, <1>2, <2>2
    <3>2. p \in DOMAIN q.tools /\ q.tools[p].name = name
      <4>1. name \in ToolNames(l, s)
        BY <1>3, <3>1, MeantIsNamed
      <4> QED
        BY <1>5, <4>1 DEF Lists
    <3>3. ToldOf(q.tools[p], l, s)
      BY <3>2 DEF Lists
    <3>4. ASSUME NEW m \in (n + 1)..Len(l), Means(l, s, m, name)
          PROVE  /\ m \in (n + 1)..Len(k) /\ Means(k, s, m, name) /\ k[m] = l[m]
                 /\ IsStart(k, s, m) <=> IsStart(l, s, m)
      BY <1>1, <1>2, <3>1, <3>4
    <3>5. ASSUME SaysStatus(k[n].event),
                 \A m \in (n + 1)..Len(k) : Means(k, s, m, name) => ~ SaysStatus(k[m].event)
          PROVE  r.tools[p].status = StatusOf(k[n].event)
      <4>1. ~ SaysStatus(e)
        BY <3>1, <3>5 DEF e
      <4>2. r.tools[p].status = q.tools[p].status
        BY <1>5, <3>2, <4>1
      <4> QED
        BY <1>1, <3>1, <3>2, <3>3, <3>4, <3>5, <4>2 DEF ToldOf
    <3>6. ASSUME IsStart(k, s, n),
                 \A m \in (n + 1)..Len(k) : Means(k, s, m, name) => ~ IsStart(k, s, m)
          PROVE  r.tools[p].id = k[n].event.payload.tool
      <4>1. e.type # "TOOL_STARTED"
        BY <3>1, <3>6 DEF e, IsStart
      <4>2. r.tools[p].id = q.tools[p].id /\ IsStart(l, s, n)
        BY <1>2, <1>5, <3>1, <3>2, <3>6, <4>1
      <4> QED
        BY <1>1, <3>1, <3>2, <3>3, <3>4, <3>6, <4>2 DEF ToldOf
    <3> QED
      BY <3>5, <3>6
  <2> QED
    BY <2>1, <2>2
<1> QED
  BY <1>7, <1>9, <1>10, <1>11, <1>12, <1>13 DEF Lists

LEMMA AppendMatches ==
    ASSUME \A x \in Events : PayloadFits(x), TypeOK, SectionsInv,
           NEW t \in Threads, NEW e \in Events, AppendEvent(t, e)
    PROVE  SectionsInv'
<1> DEFINE entry == [event |-> e, order |-> OrderOf(e)]
           S == [event : Events, order : Orders]
           q == sections[e.session]
           r == Applied(q, e)
           k == Append(log, entry)
<1>1. e.session \in Sessions /\ OrderOf(e) \in Orders
  BY OrderOfIsOrder
<1>2. log \in Seq(S) /\ entry \in S /\ log' = k /\ entry.event = e
  BY <1>1 DEF AppendEvent, TypeOK
<1>3. q = Sections(e.session) /\ Fit(q, log, e.session)
  BY <1>1 DEF SectionsInv, Sections
<1>4. sections' = [sections EXCEPT ![e.session] = r] /\ header' = [header EXCEPT ![e.session] = OrderOf(e)]
  BY <1>3 DEF AppendEvent
<1>5. PayloadFits(e) /\ ~ Raises(e)
  BY DEF AppendEvent
<1> HIDE DEF entry, S, q, r
<1>6. IsNext(log, k) /\ k[Len(k)] = entry /\ Len(k) \in DOMAIN k
  BY <1>2 DEF IsNext
<1> HIDE DEF k
<1>7. IsReport(k, e.session, Len(k)) <=> e.type \in ToolTypes
  BY <1>2, <1>6 DEF IsReport
<1>8. Fit(r, k, e.session)
  <2>1. CASE e.type \notin ToolTypes
    <3>1. Follows(q, r)
      BY <1>3, <1>5, <2>1, OtherEventsFollow DEF Fit, r
    <3>2. ASSUME NamesItsTools(k, e.session) PROVE Lists(r, k, e.session)
      <4>1. Lists(q, log, e.session)
        BY <1>3, <1>6, <3>2, StillNames DEF Fit
      <4> QED
        BY <1>6, <1>7, <2>1, <3>1, <4>1, OtherEntries DEF Follows
    <3> QED
      BY <3>1, <3>2 DEF Fit, Follows
  <2>2. CASE e.type \in ToolTypes
    <3>1. Moved(q, r, e)
      BY <1>3, <1>5, <2>2, ReportsMove DEF Fit, r
    <3>2. ASSUME NamesItsTools(k, e.session) PROVE Lists(r, k, e.session)
      <4>1. Lists(q, log, e.session)
        BY <1>3, <1>6, <3>2, StillNames DEF Fit
      <4>2. PICK name : Means(k, e.session, Len(k), name) /\ Tells(e, q, name)
        BY <1>2, <1>6, <1>7, <2>2, <3>2, <4>1, ReportTells
      <4>3. /\ ToolPut(q.tools, r.tools, Reported(q, e).place, name, e)
            /\ e.type = "TOOL_STARTED" => Reported(q, e).tool.name = name
        BY <2>2, <3>1, <4>1, <4>2, StartedToolPut, MeantToolPut DEF Moved, Lists, ToolTypes
      <4>4. r.lastTool = IF e.type = "TOOL_STARTED" THEN name ELSE q.lastTool
        BY <3>1, <4>3 DEF Moved
      <4> QED
        BY <1>2, <1>6, <1>7, <2>2, <3>2, <4>1, <4>2, <4>3, <4>4, ReportListed
    <3> QED
      BY <3>1, <3>2 DEF Fit, Moved
  <2> QED
    BY <2>1, <2>2
<1>9. ASSUME NEW s \in Sessions
      PROVE  (header'[s] = Absent => sections'[s] = NewSections) /\ Fit(sections'[s], k, s)
  <2>1. CASE s = e.session
    <3>1. sections'[s] = r /\ header'[s] = OrderOf(e)
      BY <1>1, <1>4, <2>1 DEF TypeOK
    <3> QED
      BY <1>1, <1>8, <2>1, <3>1, AbsentIsNoOrder
  <2>2. CASE s # e.session
    <3>1. sections'[s] = sections[s] /\ header'[s] = header[s]
      BY <1>1, <1>4, <2>2 DEF TypeOK
    <3>2. Fit(sections[s], log, s) /\ (header[s] = Absent => sections[s] = NewSections)
      BY DEF SectionsInv
    <3>3. ~ IsReport(k, s, Len(k))
      BY <1>2, <1>6, <2>2 DEF IsReport
    <3>4. ASSUME NamesItsTools(k, s) PROVE Lists(sections[s], k, s)
      <4>1. Lists(sections[s], log, s)
        BY <1>6, <3>2, <3>4, StillNames DEF Fit
      <4> QED
        BY <1>6, <3>3, <4>1, OtherEntries
    <3> QED
      BY <3>1, <3>2, <3>4 DEF Fit
  <2> QED
    BY <2>1, <2>2
<1>10. \A s \in Sessions :
          (header'[s] = Absent => sections'[s] = NewSections) /\ Fit(sections'[s], log', s)
  BY <1>2, <1>9
<1> QED
  BY <1>10 DEF SectionsInv

LEMMA OthersMatch ==
    ASSUME SectionsInv, log' = log,
           \A s \in Sessions : /\ sections'[s] = sections[s]
                               /\ header'[s] = Absent => header[s] = Absent
    PROVE  SectionsInv'
BY DEF SectionsInv

LEMMA SectionsStep ==
    ASSUME RaisesCleanly, \A e \in Events : PayloadFits(e), TypeOK, SectionsInv,
           [Next]_storeVars
    PROVE  SectionsInv'
<1>1. ASSUME NEW s \in Sessions, NEW o, log' = log, o \in Orders,
             sections' = [sections EXCEPT ![s] = Sections(s)],
             header' = [header EXCEPT ![s] = o]
      PROVE  SectionsInv'
  <2>1. Sections(s) = sections[s]
    BY <1>1 DEF SectionsInv, Sections
  <2>2. \A q \in Sessions : sections'[q] = sections[q]
    BY <1>1, <2>1 DEF TypeOK
  <2>3. \A q \in Sessions : header'[q] = Absent => header[q] = Absent
    BY <1>1, AbsentIsNoOrder DEF TypeOK
  <2> QED
    BY <1>1, <2>2, <2>3, OthersMatch
<1>2. ASSUME UNCHANGED <<header, sections, log>> PROVE SectionsInv'
  BY <1>2, OthersMatch
<1>3. ASSUME NEW t \in Threads, ThreadStep(t, Events) PROVE SectionsInv'
  <2>1. ASSUME NEW e \in Events, AbortEvent(t, e) PROVE SectionsInv'
    <3> DEFINE s == e.session
               o == Sent(e, "header", IF header[s] = Absent THEN <<0, 0>> ELSE header[s])
    <3>1. Applied(Sections(s), e) = Sections(s)
      BY <2>1, AbortKeeps DEF AbortEvent
    <3>2. s \in Sessions /\ o \in Orders
      BY EventsAreTyped DEF TypeOK, Sent, Orders
    <3>3. header' = [header EXCEPT ![s] = o]
      BY <2>1 DEF AbortEvent
    <3>4. log' = log /\ sections' = [sections EXCEPT ![s] = Sections(s)]
      BY <2>1, <3>1 DEF AbortEvent
    <3> HIDE DEF s, o
    <3> QED
      BY <1>1, <3>2, <3>3, <3>4
  <2>2. ASSUME NEW d \in Decisions, RecordDecision(t, d) PROVE SectionsInv'
    <3>1. view[t].session \in Sessions
      BY <2>2 DEF RecordDecision, TypeOK
    <3>2. DecisionOrder(view[t].session) \in Orders
      BY <3>1, DecisionAdvances
    <3> QED
      BY <1>1, <2>2, <3>1, <3>2 DEF RecordDecision
  <2>3. ASSUME NEW e, NEW s, RefuseEvent(t, e) \/ Observe(t) \/ GetSchedulingView(t, s)
        PROVE  SectionsInv'
    BY <1>2, <2>3 DEF RefuseEvent, Observe, GetSchedulingView, states
  <2> QED
    BY <1>3, <2>1, <2>2, <2>3, AppendMatches DEF ThreadStep
<1>4. CASE SharedStep
  <2>1. ASSUME NEW s \in Sessions, GetOrCreate(s) PROVE SectionsInv'
    <3>1. Sections(s) = NewSections /\ <<0, 0>> \in Orders
      BY <2>1 DEF GetOrCreate, Sections, Orders
    <3> QED
      BY <1>1, <2>1, <3>1 DEF GetOrCreate
  <2>2. ASSUME NEW c, Subscribe(c) PROVE SectionsInv'
    BY <1>2, <2>2 DEF Subscribe, states
  <2> QED
    BY <1>4, <2>1, <2>2 DEF SharedStep
<1>5. CASE UNCHANGED storeVars
  BY <1>2, <1>5 DEF storeVars, states
<1> QED
  BY <1>3, <1>4, <1>5 DEF Next

\* _find_tool, its callers and _set_section: what the scheduler reads of a session
\* agrees with what was reported of it, whichever of its tools runs, progresses and
\* returns between the events of the others, under one id or many, and in however
\* many parts its context is patched.  Nothing is assumed of the reports on tools but
\* what SectionsMatchLog says of the sessions it is about.
THEOREM SectionsMatchReports ==
    ASSUME NoHeaderPatches, RaisesCleanly, \A e \in Events : PayloadFits(e)
    PROVE  Spec => []SectionsMatchLog
<1>1. TypeOK /\ SectionsInv /\ [Next]_storeVars => SectionsInv'
  BY SectionsStep
<1> QED
  BY <1>1, SectionsInit, SectionsMatch, TypeCorrect, PTL DEF Spec

(***************************************************************************)
(* Subscribers                                                             *)
(***************************************************************************)

\* The places of the calls with event n that a callback had, or that a thread
\* owes callback c.
Had(calls, n) == {i \in DOMAIN calls : calls[i] = n}
OwedTo(calls, c, n) == {i \in DOMAIN calls : calls[i] = [callback |-> c, at |-> n]}

CallTypes ==
    /\ \E S : log \in Seq(S)
    /\ subscribers \in Seq(Callbacks)
    /\ owed \in [Threads -> Seq([callback : Callbacks, at : Nat])]
    /\ heard \in [Callbacks -> Seq(Nat)] /\ since \in [Callbacks -> Nat]

\* A callback subscribes once, and calls are of logged events.
CallsAreOfLog ==
    /\ \A i, j \in DOMAIN subscribers : subscribers[i] = subscribers[j] => i = j
    /\ \A c \in Callbacks : since[c] <= Len(log)
    /\ \A c \in Callbacks : \A i \in DOMAIN heard[c] : heard[c][i] <= Len(log)
    /\ \A t \in Threads : \A i \in DOMAIN owed[t] : owed[t][i].at <= Len(log)

NotCalled(h, o, c, n) == Had(h, n) = {} /\ \A t \in Threads : OwedTo(o[t], c, n) = {}

CalledOnce(h, o, c, n) ==
    (\E i : Had(h, n) = {i}) /\ \A t \in Threads : OwedTo(o[t], c, n) = {}

OwedOnce(h, o, c, n) ==
    /\ Had(h, n) = {}
    /\ \E t \in Threads : /\ \E i : OwedTo(o[t], c, n) = {i}
                          /\ \A u \in Threads : u # t => OwedTo(o[u], c, n) = {}

CallsAreKept ==
    \A c \in Callbacks, n \in 1..Len(log) :
        IF Subscribed(c) /\ n > since[c]
        THEN CalledOnce(heard[c], owed, c, n) \/ OwedOnce(heard[c], owed, c, n)
        ELSE NotCalled(heard[c], owed, c, n)

HeardInv == CallTypes /\ CallsAreOfLog /\ CallsAreKept

\* The invariant says of each call what the property counts.
LEMMA CallsAreCounted == HeardInv => EventsHeardOnce
<1> SUFFICES ASSUME HeardInv, NEW c \in Callbacks, NEW n \in DOMAIN log
             PROVE  CallsFor(c, n) = IF Subscribed(c) /\ n > since[c] THEN 1 ELSE 0
  BY DEF EventsHeardOnce
<1> DEFINE had == Had(heard[c], n)
           owing == {t \in Threads : OwedTo(owed[t], c, n) # {}}
<1>1. n \in 1..Len(log)
  BY DEF HeardInv, CallTypes
<1>2. CallsFor(c, n) = Cardinality(had) + Cardinality(owing)
  <2>1. {t \in Threads : \E i \in DOMAIN owed[t] : owed[t][i] = [callback |-> c, at |-> n]} = owing
    BY DEF OwedTo
  <2> QED
    BY <2>1 DEF CallsFor, Had
<1>3. Cardinality({}) = 0 /\ \A x : Cardinality({x}) = 1
  BY FS_EmptySet, FS_Singleton
<1> HIDE DEF had, owing
<1>4. ASSUME CalledOnce(heard[c], owed, c, n) PROVE CallsFor(c, n) = 1
  <2>1. owing = {} /\ \E i : had = {i}
    BY <1>4, Zenon DEF CalledOnce, had, owing
  <2>2. Cardinality(owing) = 0 /\ Cardinality(had) = 1
    BY <1>3, <2>1, Zenon
  <2> QED
    BY <1>2, <2>2
<1>5. ASSUME OwedOnce(heard[c], owed, c, n) PROVE CallsFor(c, n) = 1
  <2>1. had = {}
    BY <1>5 DEF OwedOnce, had
  <2>2. PICK t \in Threads : /\ \E i : OwedTo(owed[t], c, n) = {i}
                             /\ \A u \in Threads : u # t => OwedTo(owed[u], c, n) = {}
    BY <1>5, Zenon DEF OwedOnce
  <2>3. OwedTo(owed[t], c, n) # {}
    BY <2>2
  <2>4. \A u : u \in owing <=> u = t
    BY <2>2, <2>3, Zenon DEF owing
  <2>5. owing = {t}
    BY <2>4, Zenon
  <2>6. Cardinality(had) = 0 /\ Cardinality(owing) = 1
    BY <1>3, <2>1, <2>5, Zenon
  <2> QED
    BY <1>2, <2>6
<1>6. ASSUME NotCalled(heard[c], owed, c, n) PROVE CallsFor(c, n) = 0
  <2>1. had = {} /\ owing = {}
    BY <1>6, Zenon DEF NotCalled, had, owing
  <2> QED
    BY <1>2, <1>3, <2>1
<1> QED
  BY <1>1, <1>4, <1>5, <1>6 DEF HeardInv, CallsAreKept

LEMMA HeardInit == Init => HeardInv
<1> SUFFICES ASSUME Init PROVE HeardInv
  OBVIOUS
<1>1. CallTypes
  <2>1. log \in Seq({})
    BY DEF Init
  <2> QED
    BY <2>1 DEF Init, CallTypes
<1>2. CallsAreOfLog
  BY DEF Init, CallsAreOfLog
<1>3. CallsAreKept
  BY DEF Init, CallsAreKept
<1> QED
  BY <1>1, <1>2, <1>3 DEF HeardInv

\* Taking up a first call leaves the others owed.
LEMMA OwedTail ==
    ASSUME NEW S, NEW s \in Seq(S), s # <<>>, NEW c, NEW n
    PROVE  LET call == [callback |-> c, at |-> n] IN
           /\ OwedTo(s, c, n) = {} => OwedTo(Tail(s), c, n) = {}
           /\ \A i : OwedTo(s, c, n) = {i} =>
                IF Head(s) = call THEN OwedTo(Tail(s), c, n) = {}
                ELSE \E j : OwedTo(Tail(s), c, n) = {j}
           /\ Head(s) = call => 1 \in OwedTo(s, c, n)
<1> DEFINE call == [callback |-> c, at |-> n]
           r == Tail(s)
           m == Len(s)
<1>1. /\ m \in Nat /\ DOMAIN s = 1..m /\ 1 \in 1..m /\ Head(s) = s[1]
      /\ DOMAIN r = 1..(m - 1) /\ \A i \in 1..(m - 1) : r[i] = s[i + 1]
  BY EmptySeq
<1>2. \A i : i \in OwedTo(s, c, n) <=> i \in DOMAIN s /\ s[i] = call
  BY DEF OwedTo
<1>3. \A i : i \in OwedTo(r, c, n) <=> i \in DOMAIN r /\ r[i] = call
  BY DEF OwedTo
<1> HIDE DEF r, m, call
<1>4. \A i : i \in OwedTo(r, c, n) <=> i \in 1..(m - 1) /\ i + 1 \in OwedTo(s, c, n)
  BY <1>1, <1>2, <1>3
<1>5. 1 \in OwedTo(s, c, n) <=> Head(s) = call
  BY <1>1, <1>2
<1>6. OwedTo(s, c, n) = {} => OwedTo(r, c, n) = {}
  BY <1>4
<1>7. ASSUME NEW k, OwedTo(s, c, n) = {k}
      PROVE  IF Head(s) = call THEN OwedTo(r, c, n) = {} ELSE \E j : OwedTo(r, c, n) = {j}
  <2>0. k \in 1..m
    BY <1>1, <1>2, <1>7
  <2>1. CASE Head(s) = call
    <3>1. k = 1
      BY <1>5, <1>7, <2>1
    <3>2. ASSUME NEW i \in OwedTo(r, c, n) PROVE FALSE
      <4>1. i \in 1..(m - 1) /\ i + 1 = 1
        BY <1>4, <1>7, <3>1, <3>2
      <4> QED
        BY <4>1
    <3> QED
      BY <2>1, <3>2
  <2>2. CASE Head(s) # call
    <3>1. k # 1
      BY <1>5, <1>7, <2>2
    <3>2. k - 1 \in 1..(m - 1) /\ (k - 1) + 1 = k
      BY <1>1, <2>0, <3>1
    <3>3. k - 1 \in OwedTo(r, c, n)
      BY <1>4, <1>7, <3>2
    <3>4. ASSUME NEW i \in OwedTo(r, c, n) PROVE i = k - 1
      <4>1. i \in 1..(m - 1) /\ i + 1 = k
        BY <1>4, <1>7, <3>4
      <4> QED
        BY <4>1
    <3>5. OwedTo(r, c, n) = {k - 1}
      BY <3>3, <3>4
    <3> QED
      BY <2>2, <3>5
  <2> QED
    BY <2>1, <2>2
<1> QED
  BY <1>5, <1>6, <1>7 DEF call, r

LEMMA HadAppend ==
    ASSUME NEW s \in Seq(Nat), NEW m \in Nat, NEW n
    PROVE  /\ n # m => Had(Append(s, m), n) = Had(s, n)
           /\ n = m /\ Had(s, n) = {} => Had(Append(s, m), n) = {Len(s) + 1}
<1> DEFINE r == Append(s, m)
<1>1. /\ Len(s) \in Nat /\ DOMAIN s = 1..Len(s) /\ Len(s) + 1 \notin 1..Len(s)
      /\ \A i : i \in DOMAIN r <=> i \in 1..Len(s) \/ i = Len(s) + 1
      /\ r[Len(s) + 1] = m /\ \A i \in 1..Len(s) : r[i] = s[i]
  OBVIOUS
<1> HIDE DEF r
<1>2. \A i : i \in Had(r, n) <=> i \in Had(s, n) \/ (i = Len(s) + 1 /\ m = n)
  BY <1>1, Zenon DEF Had
<1> QED
  BY <1>2, Zenon DEF r

\* append_event captures the subscribers and owes each of them one call.
LEMMA AppendIsOwed ==
    ASSUME HeardInv, NEW t \in Threads, NEW e, AppendEvent(t, e)
    PROVE  HeardInv'
<1> DEFINE n == Len(log) + 1
           calls == [i \in DOMAIN subscribers |-> [callback |-> subscribers[i], at |-> n]]
<1>1. PICK S : log \in Seq(S)
  BY DEF HeardInv, CallTypes
<1>2. /\ Len(log) \in Nat /\ n \in Nat /\ \E T : log' \in Seq(T)
      /\ Len(log') = n
  <2> DEFINE entry == [event |-> e, order |-> OrderOf(e)]
             T == S \cup {entry}
  <2>1. log \in Seq(T) /\ entry \in T
    <3>1. S \subseteq T
      OBVIOUS
    <3> QED
      BY <1>1, <3>1, SeqDef
  <2>2. log' = Append(log, entry)
    BY DEF AppendEvent
  <2> HIDE DEF T, entry
  <2>3. log' \in Seq(T) /\ Len(log') = Len(log) + 1 /\ Len(log) \in Nat
    BY <2>1, <2>2
  <2> QED
    BY <2>3
<1>3. /\ UNCHANGED <<subscribers, since, heard>>
      /\ owed[t] = <<>> /\ owed' = [owed EXCEPT ![t] = calls]
  BY DEF AppendEvent, observers, Free
<1>4. /\ subscribers \in Seq(Callbacks) /\ since \in [Callbacks -> Nat]
      /\ owed \in [Threads -> Seq([callback : Callbacks, at : Nat])]
      /\ heard \in [Callbacks -> Seq(Nat)]
  BY DEF HeardInv, CallTypes
<1>5. calls \in Seq([callback : Callbacks, at : Nat])
  <2>1. Len(subscribers) \in Nat /\ DOMAIN subscribers = 1..Len(subscribers)
    BY <1>4
  <2>2. calls \in [1..Len(subscribers) -> [callback : Callbacks, at : Nat]]
    BY <1>2, <1>4, <2>1
  <2> QED
    BY <2>1, <2>2
<1>6. owed'[t] = calls /\ \A u \in Threads : u # t => owed'[u] = owed[u]
  BY <1>3, <1>4
<1>7. /\ DOMAIN calls = DOMAIN subscribers
      /\ \A i \in DOMAIN subscribers : calls[i] = [callback |-> subscribers[i], at |-> n]
  OBVIOUS
<1> HIDE DEF calls
<1>8. CallTypes'
  BY <1>2, <1>3, <1>4, <1>5 DEF CallTypes
<1>9. CallsAreOfLog'
  <2>1. \A c \in Callbacks : since[c] <= n
    BY <1>2, <1>4 DEF HeardInv, CallsAreOfLog
  <2>2. ASSUME NEW c \in Callbacks, NEW i \in DOMAIN heard[c] PROVE heard[c][i] <= n
    <3>1. heard[c][i] \in Nat /\ heard[c][i] <= Len(log)
      BY <1>4 DEF HeardInv, CallsAreOfLog
    <3> QED
      BY <1>2, <3>1
  <2>3. ASSUME NEW u \in Threads, NEW i \in DOMAIN owed'[u] PROVE owed'[u][i].at <= n
    <3>1. CASE u = t
      <4>1. owed'[u][i].at = n
        BY <1>6, <1>7, <2>3, <3>1
      <4> QED
        BY <1>2, <4>1
    <3>2. CASE u # t
      <4>1. owed[u] \in Seq([callback : Callbacks, at : Nat]) /\ i \in DOMAIN owed[u]
        BY <1>4, <1>6, <2>3, <3>2, Zenon
      <4>2. owed[u][i] \in [callback : Callbacks, at : Nat]
        <5> DEFINE theirs == owed[u]
                   Calls == [callback : Callbacks, at : Nat]
        <5>1. theirs \in Seq(Calls) /\ i \in DOMAIN theirs
          BY <4>1
        <5> HIDE DEF theirs, Calls
        <5> QED
          BY <5>1, ElementOfSeq, LenProperties DEF theirs, Calls
      <4>3. owed[u][i].at \in Nat /\ owed[u][i].at <= Len(log)
        BY <4>1, <4>2 DEF HeardInv, CallsAreOfLog
      <4> QED
        BY <1>2, <1>6, <3>2, <4>3
    <3> QED
      BY <3>1, <3>2
  <2> QED
    BY <1>2, <1>3, <2>1, <2>2, <2>3 DEF HeardInv, CallsAreOfLog
<1>10. ASSUME NEW c \in Callbacks, NEW k \in 1..Len(log)
       PROVE  \A u \in Threads : OwedTo(owed'[u], c, k) = OwedTo(owed[u], c, k)
  <2>1. OwedTo(calls, c, k) = {}
    <3>1. k # n
      BY <1>2
    <3> QED
      BY <1>7, <3>1 DEF OwedTo
  <2>2. OwedTo(owed[t], c, k) = {}
    BY <1>3 DEF OwedTo
  <2> QED
    BY <1>6, <2>1, <2>2
<1>11. ASSUME NEW c \in Callbacks
       PROVE  IF Subscribed(c) THEN OwedOnce(heard[c], owed', c, n)
              ELSE NotCalled(heard[c], owed', c, n)
  <2>1. Had(heard[c], n) = {}
    <3> SUFFICES ASSUME NEW i \in DOMAIN heard[c], heard[c][i] = n PROVE FALSE
      BY DEF Had
    <3>1. heard[c][i] <= Len(log)
      BY DEF HeardInv, CallsAreOfLog
    <3> QED
      BY <1>2, <3>1
  <2>2. ASSUME NEW u \in Threads, u # t PROVE OwedTo(owed'[u], c, n) = {}
    <3> SUFFICES ASSUME NEW i \in DOMAIN owed[u], owed[u][i] = [callback |-> c, at |-> n]
                 PROVE  FALSE
      BY <1>6, <2>2 DEF OwedTo
    <3>1. owed[u][i].at <= Len(log) /\ owed[u][i].at = n
      BY DEF HeardInv, CallsAreOfLog
    <3> QED
      BY <1>2, <3>1
  <2>3. \A i : i \in OwedTo(calls, c, n) <=> i \in DOMAIN subscribers /\ subscribers[i] = c
    BY <1>7 DEF OwedTo
  <2>4. CASE Subscribed(c)
    <3>1. PICK i \in DOMAIN subscribers : subscribers[i] = c
      BY <2>4 DEF Subscribed
    <3>2. \A j \in DOMAIN subscribers : subscribers[j] = c => j = i
      BY <3>1 DEF HeardInv, CallsAreOfLog
    <3>3. OwedTo(calls, c, n) = {i}
      BY <2>3, <3>1, <3>2, Zenon
    <3> QED
      BY <1>6, <2>1, <2>2, <2>4, <3>3 DEF OwedOnce
  <2>5. CASE ~ Subscribed(c)
    <3>1. OwedTo(calls, c, n) = {}
      BY <2>3, <2>5 DEF Subscribed
    <3> QED
      BY <1>6, <2>1, <2>2, <2>5, <3>1 DEF NotCalled
  <2> QED
    BY <2>4, <2>5
<1>12. CallsAreKept'
  <2> SUFFICES ASSUME NEW c \in Callbacks, NEW k \in 1..n
               PROVE  IF Subscribed(c) /\ k > since[c]
                      THEN CalledOnce(heard[c], owed', c, k) \/ OwedOnce(heard[c], owed', c, k)
                      ELSE NotCalled(heard[c], owed', c, k)
    BY <1>2, <1>3 DEF CallsAreKept, Subscribed
  <2>1. CASE k = n
    <3>1. k > since[c]
      BY <1>2, <1>4, <2>1 DEF HeardInv, CallsAreOfLog
    <3> QED
      BY <1>11, <2>1, <3>1
  <2>2. CASE k # n
    <3>1. k \in 1..Len(log)
      BY <1>2, <2>2
    <3>2. \A u \in Threads : OwedTo(owed'[u], c, k) = OwedTo(owed[u], c, k)
      BY <1>10, <3>1
    <3>3. IF Subscribed(c) /\ k > since[c]
          THEN CalledOnce(heard[c], owed, c, k) \/ OwedOnce(heard[c], owed, c, k)
          ELSE NotCalled(heard[c], owed, c, k)
      BY <3>1 DEF HeardInv, CallsAreKept
    <3> QED
      BY <3>2, <3>3, Zenon DEF CalledOnce, OwedOnce, NotCalled
  <2> QED
    BY <2>1, <2>2
<1> QED
  BY <1>8, <1>9, <1>12 DEF HeardInv

\* A call moves from what the thread owes to what the callback had.
LEMMA ObserveIsCall ==
    ASSUME HeardInv, NEW t \in Threads, Observe(t)
    PROVE  HeardInv'
<1> DEFINE S == [callback : Callbacks, at : Nat]
           call == Head(owed[t])
           d == call.callback
           m == call.at
<1>1. /\ subscribers \in Seq(Callbacks) /\ since \in [Callbacks -> Nat]
      /\ owed \in [Threads -> Seq(S)] /\ heard \in [Callbacks -> Seq(Nat)]
  BY DEF HeardInv, CallTypes
<1>2. owed[t] \in Seq(S) /\ owed[t] # <<>>
  BY <1>1 DEF Observe
<1>3. call \in S /\ Tail(owed[t]) \in Seq(S)
  BY <1>2, HeadTailProperties
<1>4. d \in Callbacks /\ m \in Nat /\ call = [callback |-> d, at |-> m]
  BY <1>3
<1>5. /\ UNCHANGED <<log, subscribers, since>>
      /\ owed' = [owed EXCEPT ![t] = Tail(@)]
      /\ heard' = [heard EXCEPT ![d] = Append(@, m)]
  BY DEF Observe, states
<1>6. /\ owed'[t] = Tail(owed[t]) /\ \A u \in Threads : u # t => owed'[u] = owed[u]
      /\ heard'[d] = Append(heard[d], m) /\ \A c \in Callbacks : c # d => heard'[c] = heard[c]
  BY <1>1, <1>4, <1>5
<1>7. m <= Len(log) /\ \A i \in DOMAIN owed'[t] : owed'[t][i].at <= Len(log)
  <2> DEFINE s == owed[t]
  <2>1. \A i \in DOMAIN s : s[i].at <= Len(log)
    BY DEF HeardInv, CallsAreOfLog
  <2>2. /\ 1 \in DOMAIN s /\ Head(s) = s[1]
        /\ \A i \in DOMAIN Tail(s) : i + 1 \in DOMAIN s /\ Tail(s)[i] = s[i + 1]
    <3>1. s \in Seq(S) /\ s # <<>>
      BY <1>2
    <3> HIDE DEF s, S
    <3>2. Len(s) \in Nat /\ Len(s) # 0
      BY <3>1, EmptySeq
    <3> QED
      BY <3>1, <3>2
  <2>3. m = Head(s).at
    OBVIOUS
  <2> HIDE DEF s, m
  <2> QED
    BY <1>6, <2>1, <2>2, <2>3 DEF s
<1> HIDE DEF S, call, d, m
<1>8. CallTypes'
  BY <1>1, <1>3, <1>4, <1>5 DEF HeardInv, CallTypes
<1>9. CallsAreOfLog'
  <2>1. ASSUME NEW c \in Callbacks, NEW i \in DOMAIN heard'[c] PROVE heard'[c][i] <= Len(log)
    <3>1. CASE c = d
      <4>1. heard[d] \in Seq(Nat) /\ \A k \in DOMAIN heard[d] : heard[d][k] <= Len(log)
        BY <1>1, <1>4 DEF HeardInv, CallsAreOfLog
      <4>2. (i \in DOMAIN heard[d] /\ heard'[d][i] = heard[d][i]) \/ heard'[d][i] = m
        BY <1>4, <1>6, <2>1, <3>1, <4>1
      <4> QED
        BY <1>7, <3>1, <4>1, <4>2
    <3>2. CASE c # d
      BY <1>6, <2>1, <3>2 DEF HeardInv, CallsAreOfLog
    <3> QED
      BY <3>1, <3>2
  <2>2. ASSUME NEW u \in Threads, NEW i \in DOMAIN owed'[u] PROVE owed'[u][i].at <= Len(log)
    <3>1. CASE u = t
      BY <1>7, <2>2, <3>1
    <3>2. CASE u # t
      BY <1>6, <2>2, <3>2 DEF HeardInv, CallsAreOfLog
    <3> QED
      BY <3>1, <3>2
  <2> QED
    BY <1>5, <2>1, <2>2 DEF HeardInv, CallsAreOfLog
<1>10. ASSUME NEW c, NEW n
       PROVE  /\ OwedTo(owed[t], c, n) = {} => OwedTo(owed'[t], c, n) = {}
              /\ \A i : OwedTo(owed[t], c, n) = {i} =>
                   IF c = d /\ n = m THEN OwedTo(owed'[t], c, n) = {}
                   ELSE \E j : OwedTo(owed'[t], c, n) = {j}
              /\ c = d /\ n = m => OwedTo(owed[t], c, n) # {}
              /\ \A u \in Threads : u # t => OwedTo(owed'[u], c, n) = OwedTo(owed[u], c, n)
  <2>1. /\ OwedTo(owed[t], c, n) = {} => OwedTo(Tail(owed[t]), c, n) = {}
        /\ \A i : OwedTo(owed[t], c, n) = {i} =>
             IF Head(owed[t]) = [callback |-> c, at |-> n]
             THEN OwedTo(Tail(owed[t]), c, n) = {}
             ELSE \E j : OwedTo(Tail(owed[t]), c, n) = {j}
        /\ Head(owed[t]) = [callback |-> c, at |-> n] => 1 \in OwedTo(owed[t], c, n)
    BY <1>2, OwedTail, Zenon
  <2>2. Head(owed[t]) = [callback |-> c, at |-> n] <=> c = d /\ n = m
    BY <1>4 DEF call
  <2> QED
    BY <1>6, <2>1, <2>2, Zenon
<1>11. ASSUME NEW c \in Callbacks, NEW n \in 1..Len(log)
       PROVE  IF Subscribed(c) /\ n > since[c]
              THEN CalledOnce(heard'[c], owed', c, n) \/ OwedOnce(heard'[c], owed', c, n)
              ELSE NotCalled(heard'[c], owed', c, n)
  <2>0. IF Subscribed(c) /\ n > since[c]
        THEN CalledOnce(heard[c], owed, c, n) \/ OwedOnce(heard[c], owed, c, n)
        ELSE NotCalled(heard[c], owed, c, n)
    BY DEF HeardInv, CallsAreKept
  <2>1. CASE c = d /\ n = m
    <3>1. OwedTo(owed[t], c, n) # {}
      BY <1>10, <2>1, Zenon
    <3>2. Subscribed(c) /\ n > since[c] /\ OwedOnce(heard[c], owed, c, n)
      BY <2>0, <3>1, Zenon DEF CalledOnce, NotCalled
    <3>3. /\ Had(heard[c], n) = {} /\ \E i : OwedTo(owed[t], c, n) = {i}
          /\ \A u \in Threads : u # t => OwedTo(owed[u], c, n) = {}
      BY <3>1, <3>2, Zenon DEF OwedOnce
    <3>4. \A u \in Threads : OwedTo(owed'[u], c, n) = {}
      BY <1>10, <2>1, <3>3, Zenon
    <3>5. Had(heard'[c], n) = {Len(heard[c]) + 1}
      <4>1. heard[c] \in Seq(Nat) /\ heard'[c] = Append(heard[c], m)
        BY <1>1, <1>6, <2>1
      <4> QED
        BY <1>4, <2>1, <3>3, <4>1, HadAppend
    <3> QED
      BY <3>2, <3>4, <3>5, Zenon DEF CalledOnce
  <2>2. CASE ~ (c = d /\ n = m)
    <3>1. Had(heard'[c], n) = Had(heard[c], n)
      <4>1. CASE c = d
        <5>1. heard[c] \in Seq(Nat) /\ heard'[c] = Append(heard[c], m) /\ n # m
          BY <1>1, <1>6, <2>2, <4>1
        <5> QED
          BY <1>4, <5>1, HadAppend
      <4>2. CASE c # d
        BY <1>6, <4>2
      <4> QED
        BY <4>1, <4>2
    <3>2. ASSUME NEW u \in Threads
          PROVE  /\ OwedTo(owed[u], c, n) = {} => OwedTo(owed'[u], c, n) = {}
                 /\ \A i : OwedTo(owed[u], c, n) = {i} => \E j : OwedTo(owed'[u], c, n) = {j}
      BY <1>10, <2>2, Zenon
    <3>3. NotCalled(heard[c], owed, c, n) => NotCalled(heard'[c], owed', c, n)
      BY <3>1, <3>2, Zenon DEF NotCalled
    <3>4. CalledOnce(heard[c], owed, c, n) => CalledOnce(heard'[c], owed', c, n)
      BY <3>1, <3>2, Zenon DEF CalledOnce
    <3>5. OwedOnce(heard[c], owed, c, n) => OwedOnce(heard'[c], owed', c, n)
      BY <3>1, <3>2, Zenon DEF OwedOnce
    <3> QED
      BY <2>0, <3>3, <3>4, <3>5, Zenon
  <2> QED
    BY <2>1, <2>2
<1>12. CallsAreKept'
  BY <1>5, <1>11 DEF CallsAreKept, Subscribed
<1> QED
  BY <1>8, <1>9, <1>12 DEF HeardInv

\* subscribe: what is logged already is not for the new subscriber.
LEMMA SubscribeIsFromNow ==
    ASSUME HeardInv, NEW d \in Callbacks, Subscribe(d)
    PROVE  HeardInv'
<1>1. /\ ~ Subscribed(d) /\ subscribers' = Append(subscribers, d)
      /\ since' = [since EXCEPT ![d] = Len(log)]
      /\ UNCHANGED <<log, owed, heard>>
  BY DEF Subscribe
<1>2. /\ subscribers \in Seq(Callbacks) /\ since \in [Callbacks -> Nat] /\ Len(log) \in Nat
  BY DEF HeardInv, CallTypes
<1>3. CallTypes'
  <2>1. subscribers' \in Seq(Callbacks) /\ since' \in [Callbacks -> Nat]
    BY <1>1, <1>2
  <2> QED
    BY <1>1, <2>1, Zenon DEF HeardInv, CallTypes
<1>4. /\ since'[d] = Len(log) /\ \A c \in Callbacks : c # d => since'[c] = since[c]
      /\ \A c : c # d => (Subscribed(c)' <=> Subscribed(c))
  <2> DEFINE n == Len(subscribers)
  <2>1. /\ DOMAIN subscribers = 1..n /\ DOMAIN subscribers' = 1..(n + 1)
        /\ \A i : i \in 1..(n + 1) <=> i \in 1..n \/ i = n + 1
        /\ \A i \in 1..n : subscribers'[i] = subscribers[i]
        /\ subscribers'[n + 1] = d
    BY <1>1, <1>2
  <2> HIDE DEF n
  <2>2. \A c : c # d => (Subscribed(c)' <=> Subscribed(c))
    BY <2>1, Zenon DEF Subscribed
  <2> QED
    BY <1>1, <1>2, <2>2
<1>5. CallsAreOfLog'
  <2>1. \A i, j \in DOMAIN subscribers' : subscribers'[i] = subscribers'[j] => i = j
    BY <1>1, <1>2 DEF HeardInv, CallsAreOfLog, Subscribed
  <2>2. \A c \in Callbacks : since'[c] <= Len(log)
    BY <1>2, <1>4 DEF HeardInv, CallsAreOfLog
  <2> QED
    BY <1>1, <2>1, <2>2 DEF HeardInv, CallsAreOfLog
<1>6. CallsAreKept'
  <2> SUFFICES ASSUME NEW c \in Callbacks, NEW n \in 1..Len(log)
               PROVE  IF Subscribed(c)' /\ n > since'[c]
                      THEN CalledOnce(heard[c], owed, c, n) \/ OwedOnce(heard[c], owed, c, n)
                      ELSE NotCalled(heard[c], owed, c, n)
    BY <1>1 DEF CallsAreKept
  <2>1. CASE c = d
    <3>1. ~ (n > since'[c])
      BY <1>2, <1>4, <2>1
    <3> QED
      BY <1>1, <2>1, <3>1 DEF HeardInv, CallsAreKept
  <2>2. CASE c # d
    BY <1>4, <2>2 DEF HeardInv, CallsAreKept
  <2> QED
    BY <2>1, <2>2
<1> QED
  BY <1>3, <1>5, <1>6 DEF HeardInv

LEMMA HeardUnchanged ==
    ASSUME HeardInv, UNCHANGED <<log, subscribers, owed, since, heard>>
    PROVE  HeardInv'
BY DEF HeardInv, CallTypes, CallsAreOfLog, CallsAreKept, Subscribed

\* Whatever is offered to the store, its steps keep the calls.
LEMMA HeardStep ==
    ASSUME HeardInv, NEW t \in Threads, NEW offered, ThreadStep(t, offered) \/ SharedStep
    PROVE  HeardInv'
<1>1. ASSUME NEW e, AppendEvent(t, e) PROVE HeardInv'
  BY <1>1, AppendIsOwed
<1>2. ASSUME NEW e, RefuseEvent(t, e) \/ AbortEvent(t, e) PROVE HeardInv'
  BY <1>2, HeardUnchanged DEF RefuseEvent, AbortEvent, observers
<1>3. CASE Observe(t)
  BY <1>3, ObserveIsCall
<1>4. ASSUME NEW s, NEW d, GetSchedulingView(t, s) \/ RecordDecision(t, d) \/ GetOrCreate(s)
      PROVE  HeardInv'
  BY <1>4, HeardUnchanged DEF GetSchedulingView, RecordDecision, GetOrCreate, observers
<1>5. ASSUME NEW c \in Callbacks, Subscribe(c) PROVE HeardInv'
  BY <1>5, SubscribeIsFromNow
<1> QED
  BY <1>1, <1>2, <1>3, <1>4, <1>5 DEF ThreadStep, SharedStep

\* append_event's loop over the subscribers it captured: every callback is
\* called once with each event logged since it subscribed, or some one thread
\* still owes it that call, and with no other event; whatever is appended,
\* refused or raised, and by however many threads.
THEOREM CallbacksHearOnce == Spec => []EventsHeardOnce
<1>1. HeardInv /\ [Next]_storeVars => HeardInv'
  <2>1. ASSUME HeardInv, UNCHANGED storeVars PROVE HeardInv'
    BY <2>1, HeardUnchanged DEF storeVars, observers
  <2>2. ASSUME HeardInv, SharedStep PROVE HeardInv'
    <3>1. ASSUME NEW s, GetOrCreate(s) PROVE HeardInv'
      BY <2>2, <3>1, HeardUnchanged DEF GetOrCreate, observers
    <3> QED
      BY <2>2, <3>1, SubscribeIsFromNow DEF SharedStep
  <2> QED
    BY <2>1, <2>2, HeardStep DEF Next
<1> QED
  BY <1>1, HeardInit, CallsAreCounted, PTL DEF Spec

(***************************************************************************)
(* The reporter                                                            *)
(***************************************************************************)

\* Places in an ordered line rise, so a new one at the end keeps it in order.
LEMMA LineGrows ==
    ASSUME NEW line \in Seq(Nat), NEW n \in Nat, Conserved(line, n)
    PROVE  /\ Conserved(Append(line, n + 1), n + 1)
           /\ Conserved(Append(line, Wake), n)
<1> DEFINE m == Len(line)
<1>1. /\ m \in Nat /\ DOMAIN line = 1..m
      /\ \A i \in 1..m : line[i] \in Nat
  OBVIOUS
<1>2. \A x : /\ DOMAIN Append(line, x) = 1..(m + 1)
             /\ Append(line, x)[m + 1] = x
             /\ \A i \in 1..m : Append(line, x)[i] = line[i]
  OBVIOUS
<1>3. \A i : i \in 1..(m + 1) <=> i \in 1..m \/ i = m + 1
  BY <1>1
<1> HIDE DEF m
<1>4. \A k : (\E i \in 1..m : line[i] = k) /\ k # Wake <=> k \in 1..n
  BY <1>1 DEF Conserved
<1>5. ASSUME NEW x PROVE \A k : (\E i \in 1..(m + 1) : Append(line, x)[i] = k)
                                   <=> (\E i \in 1..m : line[i] = k) \/ k = x
  BY <1>2, <1>3, Zenon
<1>6. \A i, j \in 1..m : i < j /\ Wake \notin {line[i], line[j]} => line[i] < line[j]
  BY <1>1 DEF Conserved
<1>7. Conserved(Append(line, n + 1), n + 1)
  <2> DEFINE r == Append(line, n + 1)
  <2>1. \A k : k \in {r[i] : i \in DOMAIN r} \ {Wake} <=> k \in 1..(n + 1)
    <3>1. \A k : k \in 1..(n + 1) <=> k \in 1..n \/ k = n + 1
      OBVIOUS
    <3>2. n + 1 # Wake
      BY DEF Wake
    <3>3. \A k : k \in {r[i] : i \in DOMAIN r} <=> \E i \in 1..(m + 1) : r[i] = k
      BY <1>2
    <3> HIDE DEF r
    <3> QED
      BY <1>4, <1>5, <3>1, <3>2, <3>3, Zenon DEF r
  <2>2. ASSUME NEW i \in 1..(m + 1), NEW j \in 1..(m + 1), i < j, Wake \notin {r[i], r[j]}
        PROVE  r[i] < r[j]
    <3>1. i \in 1..m
      BY <1>1, <2>2
    <3>2. CASE j \in 1..m
      <4>1. r[i] = line[i] /\ r[j] = line[j]
        BY <1>2, <3>1, <3>2
      <4> QED
        BY <1>6, <2>2, <3>1, <3>2, <4>1
    <3>3. CASE j = m + 1
      <4>1. r[i] = line[i] /\ r[j] = n + 1
        BY <1>2, <3>1, <3>3
      <4>2. line[i] \in 1..n
        BY <1>4, <2>2, <3>1, <4>1
      <4>3. line[i] < n + 1
        BY <4>2
      <4> HIDE DEF r
      <4> QED
        BY <4>1, <4>3
    <3> QED
      BY <1>3, <3>2, <3>3
  <2>3. DOMAIN r = 1..(m + 1) /\ {r[i] : i \in DOMAIN r} \ {Wake} = 1..(n + 1)
    BY <1>2, <2>1
  <2> HIDE DEF r
  <2>4. Conserved(r, n + 1)
    BY <2>2, <2>3 DEF Conserved
  <2> QED
    BY <2>4 DEF r
<1>8. Conserved(Append(line, Wake), n)
  <2> DEFINE r == Append(line, Wake)
  <2>1. \A k : k \in {r[i] : i \in DOMAIN r} \ {Wake} <=> k \in 1..n
    <3>1. \A k : k \in {r[i] : i \in DOMAIN r} <=> \E i \in 1..(m + 1) : r[i] = k
      BY <1>2
    <3> HIDE DEF r
    <3> QED
      BY <1>4, <1>5, <3>1, Zenon DEF r
  <2>2. ASSUME NEW i \in 1..(m + 1), NEW j \in 1..(m + 1), i < j, Wake \notin {r[i], r[j]}
        PROVE  r[i] < r[j]
    <3>1. r[m + 1] = Wake
      BY <1>2
    <3>2. i \in 1..m /\ j \in 1..m
      BY <1>3, <2>2, <3>1
    <3>3. r[i] = line[i] /\ r[j] = line[j]
      BY <1>2, <3>2
    <3> QED
      BY <1>6, <2>2, <3>2, <3>3
  <2>3. DOMAIN r = 1..(m + 1) /\ {r[i] : i \in DOMAIN r} \ {Wake} = 1..n
    BY <1>2, <2>1
  <2> HIDE DEF r
  <2>4. Conserved(r, n)
    BY <2>2, <2>3 DEF Conserved
  <2> QED
    BY <2>4 DEF r
<1> QED
  BY <1>7, <1>8

\* Taking the wake-up call out of the line.
LEMMA WakeIsTaken ==
    ASSUME NEW a \in Seq(Nat), NEW b \in Seq(Nat), b # <<>>, Head(b) = Wake,
           NEW n \in Nat, Conserved(a \o b, n)
    PROVE  Conserved(a \o Tail(b), n)
<1> DEFINE p == Len(a)
           q == Len(b)
           line == a \o b
           rest == a \o Tail(b)
           from(i) == IF i <= p THEN i ELSE i + 1
<1>1. /\ p \in Nat /\ q \in Nat /\ q >= 1
      /\ DOMAIN line = 1..(p + q) /\ DOMAIN rest = 1..(p + q - 1)
      /\ line[p + 1] = Wake
  BY EmptySeq
<1>2. \A i \in 1..(p + q - 1) : rest[i] = line[from(i)] /\ from(i) \in 1..(p + q)
  <2> SUFFICES ASSUME NEW i \in 1..(p + q - 1)
               PROVE  rest[i] = line[from(i)] /\ from(i) \in 1..(p + q)
    OBVIOUS
  <2>1. CASE i <= p
    <3>1. rest[i] = a[i] /\ line[i] = a[i]
      BY <1>1, <2>1
    <3> QED
      BY <1>1, <2>1, <3>1
  <2>2. CASE ~ (i <= p)
    <3>1. rest[i] = Tail(b)[i - p]
      BY <1>1, <2>2
    <3>2. line[i + 1] = b[i + 1 - p]
      BY <1>1, <2>2
    <3>3. Tail(b)[i - p] = b[(i - p) + 1]
      <4>1. i - p \in 1..(q - 1)
        BY <1>1, <2>2
      <4> QED
        BY <4>1
    <3> QED
      BY <1>1, <2>2, <3>1, <3>2, <3>3
  <2> QED
    BY <2>1, <2>2
<1>3. \A j \in 1..(p + q) : j # p + 1 => \E i \in 1..(p + q - 1) : j = from(i)
  <2> SUFFICES ASSUME NEW j \in 1..(p + q), j # p + 1
               PROVE  \E i \in 1..(p + q - 1) : j = from(i)
    OBVIOUS
  <2>1. CASE j <= p
    <3>1. j \in 1..(p + q - 1) /\ j = from(j)
      BY <1>1, <2>1
    <3> QED
      BY <3>1
  <2>2. CASE ~ (j <= p)
    <3>1. j - 1 \in 1..(p + q - 1) /\ j = from(j - 1)
      BY <1>1, <2>2
    <3> QED
      BY <3>1
  <2> QED
    BY <2>1, <2>2
<1>4. \A i, j \in 1..(p + q - 1) : i < j => from(i) < from(j)
  BY <1>1
<1> HIDE DEF p, q, line, rest, from
<1>5. \A i, j \in 1..(p + q) :
          i < j /\ Wake \notin {line[i], line[j]} => line[i] < line[j]
  BY <1>1 DEF Conserved, line
<1>6. {line[i] : i \in 1..(p + q)} \ {Wake} = 1..n
  BY <1>1 DEF Conserved, line
<1>7. {rest[i] : i \in 1..(p + q - 1)} \ {Wake} = {line[i] : i \in 1..(p + q)} \ {Wake}
  <2>1. \A k : k \in {rest[i] : i \in 1..(p + q - 1)} \ {Wake}
                  => k \in {line[i] : i \in 1..(p + q)}
    BY <1>2
  <2>2. ASSUME NEW j \in 1..(p + q), line[j] # Wake
        PROVE  line[j] \in {rest[i] : i \in 1..(p + q - 1)}
    <3>1. j # p + 1
      BY <1>1, <2>2
    <3>2. PICK i \in 1..(p + q - 1) : j = from(i)
      BY <1>3, <3>1
    <3> QED
      BY <1>2, <3>2
  <2> QED
    BY <2>1, <2>2
<1>8. \A i, j \in 1..(p + q - 1) :
          i < j /\ Wake \notin {rest[i], rest[j]} => rest[i] < rest[j]
  BY <1>2, <1>4, <1>5
<1>9. Conserved(rest, n)
  BY <1>1, <1>6, <1>7, <1>8 DEF Conserved
<1> QED
  BY <1>9 DEF rest

LEMMA HeadMoves ==
    ASSUME NEW a \in Seq(Nat), NEW b \in Seq(Nat), b # <<>>
    PROVE  (a \o <<Head(b)>>) \o Tail(b) = a \o b
<1> DEFINE p == Len(a)
           q == Len(b)
           x == (a \o <<Head(b)>>) \o Tail(b)
           y == a \o b
<1>1. /\ p \in Nat /\ q \in Nat /\ q >= 1 /\ Head(b) \in Nat /\ Tail(b) \in Seq(Nat)
      /\ Head(b) = b[1] /\ Len(Tail(b)) = q - 1
  BY EmptySeq
<1>2. <<Head(b)>> \in Seq(Nat) /\ Len(<<Head(b)>>) = 1
  BY <1>1
<1>3. a \o <<Head(b)>> \in Seq(Nat) /\ Len(a \o <<Head(b)>>) = p + 1
  BY <1>2
<1>4. x \in Seq(Nat) /\ y \in Seq(Nat) /\ Len(x) = p + q /\ Len(y) = p + q
  BY <1>1, <1>3
<1>5. \A i \in 1..(p + q) : x[i] = y[i]
  <2> SUFFICES ASSUME NEW i \in 1..(p + q) PROVE x[i] = y[i]
    OBVIOUS
  <2>1. CASE i <= p
    <3>1. x[i] = (a \o <<Head(b)>>)[i]
      BY <1>1, <1>3, <2>1
    <3>2. (a \o <<Head(b)>>)[i] = a[i] /\ y[i] = a[i]
      BY <1>1, <1>2, <2>1
    <3> QED
      BY <3>1, <3>2
  <2>2. CASE i = p + 1
    <3>1. x[i] = (a \o <<Head(b)>>)[i]
      BY <1>1, <1>3, <2>2
    <3>2. (a \o <<Head(b)>>)[i] = Head(b)
      BY <1>1, <1>2, <2>2
    <3>3. y[i] = b[1]
      BY <1>1, <2>2
    <3> QED
      BY <1>1, <3>1, <3>2, <3>3
  <2>3. CASE i > p + 1
    <3>1. i - (p + 1) \in 1..(q - 1) /\ i - p \in 1..q
      BY <1>1, <2>3
    <3>2. x[i] = Tail(b)[i - (p + 1)]
      BY <1>1, <1>3, <2>3
    <3>3. Tail(b)[i - (p + 1)] = b[i - (p + 1) + 1]
      BY <1>1, <3>1
    <3>4. y[i] = b[i - p]
      BY <1>1, <2>3
    <3> QED
      BY <1>1, <3>2, <3>3, <3>4
  <2> QED
    BY <1>1, <2>1, <2>2, <2>3
<1> HIDE DEF x, y, p, q
<1>6. x = y
  BY <1>4, <1>5, SeqEqual
<1> QED
  BY <1>6 DEF x, y

\* The worker holds a report only while it sinks it.
ReporterInv ==
    /\ waiting \in Seq(Nat) /\ hand \in Seq(Nat) /\ handled \in Seq(Nat)
    /\ \E S : accepted \in Seq(S)
    /\ stage # "sinking" => hand = <<>>
    /\ ReportsConserved

LEMMA ReporterUnchanged ==
    ASSUME ReporterInv, UNCHANGED <<waiting, hand, handled, accepted>>,
           stage' # "sinking" => hand = <<>>
    PROVE  ReporterInv'
BY DEF ReporterInv, ReportsConserved

\* publish: the new place is the highest, and goes to the end of the line.
LEMMA PublishQueues ==
    ASSUME ReporterInv, NEW h, NEW call, Publish(h, call)
    PROVE  ReporterInv'
<1>1. UNCHANGED <<stage, hand, handled>>
  BY DEF Publish
<1>2. CASE Dropped(h)
  BY <1>1, <1>2, ReporterUnchanged DEF Dropped, ReporterInv
<1>3. CASE Queued(h, call)
  <2> DEFINE line == handled \o hand \o waiting
             n == Len(accepted)
  <2>1. PICK S : accepted \in Seq(S)
    BY DEF ReporterInv
  <2>2. accepted' = Append(accepted, ReportOf(call)) /\ waiting' = Append(waiting, n + 1)
    BY <1>3 DEF Queued
  <2>3. n \in Nat /\ Len(accepted') = n + 1 /\ accepted' \in Seq(S \cup {ReportOf(call)})
    <3> DEFINE T == S \cup {ReportOf(call)}
               report == ReportOf(call)
    <3>1. accepted \in Seq(T) /\ report \in T /\ accepted' = Append(accepted, report)
      <4>1. S \subseteq T
        OBVIOUS
      <4> QED
        BY <2>1, <2>2, <4>1, SeqDef
    <3> HIDE DEF T, report
    <3>2. Len(accepted) \in Nat /\ Len(accepted') = Len(accepted) + 1 /\ accepted' \in Seq(T)
      BY <3>1
    <3> QED
      BY <3>2 DEF T, report
  <2>4. /\ waiting \in Seq(Nat) /\ handled \o hand \in Seq(Nat) /\ line \in Seq(Nat)
        /\ Conserved(line, n)
    BY DEF ReporterInv, ReportsConserved
  <2>5. waiting' \in Seq(Nat)
    BY <2>2, <2>3, <2>4
  <2>6. handled' \o hand' \o waiting' = Append(line, n + 1)
    <3> DEFINE before == handled \o hand
    <3>1. before \in Seq(Nat) /\ n + 1 \in Nat
      BY <2>3, <2>4
    <3>2. before \o Append(waiting, n + 1) = Append(before \o waiting, n + 1)
      <4> HIDE DEF before, n
      <4> QED
        BY <2>4, <3>1
    <3> QED
      BY <1>1, <2>2, <3>2
  <2> HIDE DEF line, n
  <2>7. Conserved(handled' \o hand' \o waiting', Len(accepted'))
    BY <2>3, <2>4, <2>6, LineGrows
  <2> QED
    BY <1>1, <2>3, <2>5, <2>7 DEF ReporterInv, ReportsConserved
<1> QED
  BY <1>2, <1>3 DEF Publish

\* close: a full queue refuses the wake-up call, another takes it at its end.
LEMMA WakingIsNoReport ==
    ASSUME ReporterInv, WakeWorker
    PROVE  ReporterInv'
<1>1. UNCHANGED <<stage, hand, handled, accepted>>
  BY DEF WakeWorker
<1>2. CASE waiting' = waiting
  BY <1>1, <1>2, ReporterUnchanged DEF ReporterInv
<1>3. CASE waiting' = Append(waiting, Wake)
  <2> DEFINE before == handled \o hand
             line == before \o waiting
             n == Len(accepted)
  <2>1. n \in Nat
    BY DEF ReporterInv
  <2>2. waiting \in Seq(Nat) /\ before \in Seq(Nat) /\ line \in Seq(Nat) /\ Conserved(line, n)
    BY DEF ReporterInv, ReportsConserved
  <2>3. Wake \in Nat
    BY DEF Wake
  <2>4. before \o waiting' = Append(line, Wake) /\ waiting' \in Seq(Nat)
    <3> HIDE DEF before
    <3> QED
      BY <1>3, <2>2, <2>3
  <2> HIDE DEF line, n
  <2>5. Conserved(before \o waiting', n)
    BY <2>1, <2>2, <2>4, LineGrows
  <2> QED
    BY <1>1, <2>4, <2>5 DEF ReporterInv, ReportsConserved, n
<1> QED
  BY <1>2, <1>3 DEF WakeWorker

\* get: a report goes from the head of the queue into the worker's hand.
LEMMA TakeMoves ==
    ASSUME ReporterInv, Take
    PROVE  ReporterInv'
<1>1. /\ stage = "getting" /\ waiting # <<>> /\ waiting' = Tail(waiting)
      /\ UNCHANGED <<handled, accepted>>
  BY DEF Take
<1>2. /\ hand = <<>> /\ waiting \in Seq(Nat) /\ handled \in Seq(Nat)
      /\ Conserved(handled \o hand \o waiting, Len(accepted)) /\ Len(accepted) \in Nat
  BY <1>1 DEF ReporterInv, ReportsConserved
<1>3. handled \o hand = handled
  BY <1>2
<1>4. Head(waiting) \in Nat /\ waiting' \in Seq(Nat)
  BY <1>1, <1>2, HeadTailProperties
<1>5. CASE Head(waiting) = Wake
  <2>1. hand' = <<>> /\ stage' = "testing"
    BY <1>2, <1>5 DEF Take
  <2>2. Conserved(handled \o waiting', Len(accepted))
    BY <1>1, <1>2, <1>3, <1>5, WakeIsTaken
  <2>3. handled' \o hand' \o waiting' = handled \o waiting'
    BY <1>1, <1>2, <1>3, <2>1
  <2> QED
    BY <1>1, <1>2, <1>4, <2>1, <2>2, <2>3 DEF ReporterInv, ReportsConserved
<1>6. CASE Head(waiting) # Wake
  <2>1. hand' = <<Head(waiting)>> /\ stage' = "sinking"
    BY <1>6 DEF Take
  <2>2. handled' \o hand' \o waiting' = handled \o waiting
    BY <1>1, <1>2, <2>1, HeadMoves
  <2>3. hand' \in Seq(Nat)
    BY <1>4, <2>1
  <2> QED
    BY <1>1, <1>2, <1>3, <1>4, <2>1, <2>2, <2>3 DEF ReporterInv, ReportsConserved
<1> QED
  BY <1>5, <1>6

\* The sink takes the report out of the hand, whether it returns or raises.
LEMMA SinkMoves ==
    ASSUME ReporterInv, Sink
    PROVE  ReporterInv'
<1>1. /\ handled' = handled \o hand /\ hand' = <<>> /\ stage' = "testing"
      /\ UNCHANGED <<waiting, accepted>>
  BY DEF Sink
<1>2. handled \in Seq(Nat) /\ hand \in Seq(Nat) /\ handled \o hand \in Seq(Nat)
  BY DEF ReporterInv
<1>3. handled' \o hand' = handled \o hand
  BY <1>1, <1>2
<1> QED
  BY <1>1, <1>2, <1>3 DEF ReporterInv, ReportsConserved

LEMMA ReporterStep == ReporterInv /\ [ReporterNext]_allVars => ReporterInv'
<1> SUFFICES ASSUME ReporterInv, [ReporterNext]_allVars PROVE ReporterInv'
  OBVIOUS
<1>1. ASSUME UNCHANGED reporterVars PROVE ReporterInv'
  BY <1>1, ReporterUnchanged DEF reporterVars, ReporterInv
<1>2. ASSUME NEW h, Count(h) PROVE ReporterInv'
  BY <1>2, ReporterUnchanged DEF Count, ReporterInv
<1>3. CASE SetStop
  BY <1>3, ReporterUnchanged DEF SetStop, ReporterInv
<1>4. CASE TestLoop \/ GetTimesOut
  BY <1>4, ReporterUnchanged DEF TestLoop, GetTimesOut, ReporterInv
<1>5. CASE WorkerStep
  BY <1>1, <1>4, <1>5, TakeMoves, SinkMoves DEF WorkerStep
<1>6. CASE UNCHANGED allVars
  BY <1>1, <1>6 DEF allVars
<1> QED
  BY <1>1, <1>2, <1>3, <1>5, <1>6, PublishQueues, WakingIsNoReport DEF ReporterNext, DirectStep

\* AsyncStateReporter: whatever is published, by however many hook threads and
\* into a queue of whatever length, the reports it accepted are on their way to
\* the sink in their order, each at exactly one place.
THEOREM ReportsKeepOrder == ReporterSpec => []ReportsConserved
<1>1. ReporterInit => ReporterInv
  <2> SUFFICES ASSUME ReporterInit PROVE ReporterInv
    OBVIOUS
  <2>1. /\ waiting = <<>> /\ hand = <<>> /\ handled = <<>> /\ accepted = <<>>
        /\ <<>> \in Seq(Nat)
    BY DEF ReporterInit
  <2>2. Conserved(<<>>, 0)
    BY DEF Conserved
  <2>3. handled \o hand \o waiting = <<>> /\ Len(accepted) = 0
    BY <2>1
  <2> QED
    BY <2>1, <2>2, <2>3 DEF ReporterInv, ReportsConserved
<1>2. ReporterInv => ReportsConserved
  BY DEF ReporterInv
<1> QED
  BY <1>1, <1>2, ReporterStep, PTL DEF ReporterSpec

\* The same with a reporter that appends in the background.
THEOREM CallbacksHearReports == ReporterSpec => []EventsHeardOnce
<1>1. ASSUME HeardInv, [ReporterNext]_allVars PROVE HeardInv'
  <2>1. ASSUME UNCHANGED storeVars PROVE HeardInv'
    BY <1>1, <2>1, HeardUnchanged DEF storeVars, observers
  <2>2. CASE Sink
    <3> DEFINE e == accepted[hand[1]]
    <3>1. Worker \in Threads /\ ThreadStep(Worker, {e})
      BY <2>2, ReporterBounds DEF Sink, ThreadStep
    <3> QED
      BY <1>1, <3>1, HeardStep
  <2>3. CASE Observe(Worker)
    BY <1>1, <2>3, ReporterBounds, ObserveIsCall
  <2>4. CASE WorkerStep
    BY <2>1, <2>2, <2>3, <2>4 DEF WorkerStep, TestLoop, Take, GetTimesOut
  <2>5. CASE DirectStep
    BY <1>1, <2>5, HeardStep, ReporterBounds DEF DirectStep
  <2>6. ASSUME NEW h, NEW call, Publish(h, call) \/ Count(h) PROVE HeardInv'
    BY <2>1, <2>6 DEF Publish, Count
  <2>7. CASE SetStop \/ WakeWorker \/ UNCHANGED allVars
    BY <2>1, <2>7 DEF SetStop, WakeWorker, allVars
  <2> QED
    BY <1>1, <2>4, <2>5, <2>6, <2>7 DEF ReporterNext
<1>2. ReporterInit => HeardInv
  BY HeardInit DEF ReporterInit
<1> QED
  BY <1>1, <1>2, CallsAreCounted, PTL DEF ReporterSpec
============================================================================
