---------------------- MODULE InvocationRegistryProofs ----------------------
(***************************************************************************)
(* Proofs about InvocationRegistry for every value of its bounds: its      *)
(* types, that active_count and terminal_order are exact whatever races,   *)
(* that dropping the runtime leaves no invocation behind, and that the     *)
(* stream of an invocation's events is ordered, ends in its terminal event *)
(* and shows every loss, whatever is coalesced and dropped.                *)
(***************************************************************************)
EXTENDS InvocationRegistry, FiniteSetTheorems, TLAPS

-----------------------------------------------------------------------------
(* The event queue *)

(* Trimming a queue from the front (push_event, evict_old_terminal_entries)*)
(* yields a queue of the same elements, no longer than its bound.          *)
LEMMA NewestType ==
  ASSUME NEW S, NEW q \in Seq(S), NEW n \in Nat
  PROVE  /\ Newest(q, n) \in Seq(S)
         /\ Len(Newest(q, n)) <= n
BY DEF Newest

(* The elements of a channel after a send and after a receive.             *)
LEMMA ChannelElements ==
  ASSUME NEW S, NEW q \in Seq(S)
  PROVE  /\ Elements(q) \subseteq S
         /\ \A x \in S : Elements(Append(q, x)) = Elements(q) \cup {x}
         /\ q # <<>> => /\ Elements(q) = {Head(q)} \cup Elements(Tail(q))
                        /\ Head(q) \in S /\ Tail(q) \in Seq(S)
         /\ Distinct(q) =>
              /\ \A x \in S \ Elements(q) : Distinct(Append(q, x))
              /\ q # <<>> => Distinct(Tail(q)) /\ Head(q) \notin Elements(Tail(q))
<1>1. Elements(q) \subseteq S
  BY DEF Elements
<1>2. ASSUME NEW x \in S
      PROVE  Elements(Append(q, x)) = Elements(q) \cup {x}
  BY DEF Elements
<1>3. ASSUME q # <<>>
      PROVE  Elements(q) = {Head(q)} \cup Elements(Tail(q))
  <2>1. /\ Len(q) \in Nat \ {0} /\ Len(Tail(q)) = Len(q) - 1 /\ Head(q) = q[1]
        /\ \A i \in 1..Len(Tail(q)) : Tail(q)[i] = q[i + 1]
    BY <1>3
  <2>2. \A i \in 2..Len(q) : i - 1 \in 1..Len(Tail(q)) /\ Tail(q)[i - 1] = q[i]
    BY <2>1
  <2>3. ASSUME NEW i \in 1..Len(q)
        PROVE  q[i] \in {Head(q)} \cup Elements(Tail(q))
    BY <2>1, <2>2 DEF Elements
  <2>4. ASSUME NEW i \in 1..Len(Tail(q))
        PROVE  Tail(q)[i] \in Elements(q)
    BY <2>1 DEF Elements
  <2>5. Head(q) \in Elements(q)
    BY <2>1 DEF Elements
  <2> QED
    BY <2>3, <2>4, <2>5 DEF Elements
<1>4. ASSUME Distinct(q), NEW x \in S \ Elements(q)
      PROVE  Distinct(Append(q, x))
  BY <1>4 DEF Distinct, Elements
<1>5. ASSUME Distinct(q), q # <<>>
      PROVE  Distinct(Tail(q)) /\ Head(q) \notin Elements(Tail(q))
  <2>1. /\ Len(q) \in Nat \ {0} /\ Len(Tail(q)) = Len(q) - 1 /\ Head(q) = q[1]
        /\ \A i \in 1..Len(Tail(q)) : Tail(q)[i] = q[i + 1]
    BY <1>5
  <2>2. \A i \in 1..Len(Tail(q)) : i + 1 \in 1..Len(q) /\ 1 \in 1..Len(q)
    BY <2>1
  <2>3. ASSUME NEW i \in 1..Len(Tail(q)), NEW j \in 1..Len(Tail(q)),
               Tail(q)[i] = Tail(q)[j]
        PROVE  i = j
    <3>1. i + 1 = j + 1
      BY <1>5, <2>1, <2>2, <2>3 DEF Distinct
    <3> QED
      BY <3>1
  <2>4. ASSUME NEW i \in 1..Len(Tail(q))
        PROVE  Tail(q)[i] # Head(q)
    <3>1. i + 1 # 1
      OBVIOUS
    <3> QED
      BY <1>5, <2>1, <2>2, <3>1 DEF Distinct
  <2> QED
    BY <2>3, <2>4 DEF Distinct, Elements
<1> QED
  BY <1>1, <1>2, <1>3, <1>4, <1>5

(* push_event keeps a queue a queue of events.                             *)
LEMMA PushEventType ==
  ASSUME NEW q \in Seq(Event), NEW e \in Event
  PROVE  PushEvent(q, e) \in Seq(Event) /\ PushSeq(q, e) \in Nat \ {0}
<1>1. PushSeq(q, e) \in Nat \ {0}
  BY DEF PushSeq, Event
<1>2. CASE Coalesces(q, e)
  <2>1. Len(q) \in 1..Len(q)
    BY <1>2 DEF Coalesces
  <2>2. q[Len(q)] \in Event
    BY <2>1
  <2>3. q[Len(q)].units \o e.units \in Seq(Nat \ {0})
    BY <2>2 DEF Event
  <2>4. Extended(q[Len(q)], e) \in Event
    BY <2>2, <2>3 DEF Event, Extended
  <2>5. [q EXCEPT ![Len(q)] = Extended(q[Len(q)], e)] \in Seq(Event)
    BY <2>1, <2>4
  <2> QED
    BY <1>1, <1>2, <2>5 DEF PushEvent
<1>3. CASE ~Coalesces(q, e)
  <2>1. Append(q, e) \in Seq(Event)
    OBVIOUS
  <2>2. MaxEvents \in Nat
    BY CapacityAssumption
  <2>3. Newest(Append(q, e), MaxEvents) \in Seq(Event)
    BY <2>1, <2>2, NewestType
  <2> QED
    BY <1>1, <1>3, <2>3 DEF PushEvent
<1> QED
  BY <1>2, <1>3

(* Events made by the registry are events.                                 *)
LEMMA MadeEvents ==
  ASSUME TypeOK, NEW h \in Handles
  PROVE  /\ \A s \in Terminal \cup {"running"} : StatusEvent(h, s) \in Event
         /\ \A f \in Forms : DeltaEvent(h, f) \in Event
<1>1. nextSeq[h] \in Nat \ {0} /\ emitted[h] + 1 \in Nat \ {0}
  BY DEF TypeOK
<1>2. ASSUME NEW s \in Terminal \cup {"running"}
      PROVE  StatusEvent(h, s) \in Event
  <2>1. <<>> \in Seq(Nat \ {0})
    OBVIOUS
  <2>2. (IF s = "running" THEN "started" ELSE s) \in Kinds
    BY DEF Kinds, Terminal
  <2> QED
    BY <1>1, <2>1, <2>2 DEF StatusEvent, Event
<1>3. ASSUME NEW f \in Forms
      PROVE  DeltaEvent(h, f) \in Event
  <2>1. <<emitted[h] + 1>> \in Seq(Nat \ {0})
    BY <1>1
  <2>2. "outputDelta" \in Kinds
    BY DEF Kinds
  <2> QED
    BY <1>1, <2>1, <2>2 DEF DeltaEvent, Event
<1> QED
  BY <1>2, <1>3

-----------------------------------------------------------------------------
(* The operations of the registry *)

RegistryTypeOK ==
  /\ status \in [Handles -> Statuses]
  /\ events \in [Handles -> Seq(Event)]
  /\ nextSeq \in [Handles -> Nat \ {0}]
  /\ terminalOrder \in Seq(Handles)
  /\ activeCount \in Nat

(* update keeps the registry well typed, whatever the state of the entry.  *)
LEMMA UpdateType ==
  ASSUME TypeOK, NEW h \in Handles, NEW s \in Terminal \cup {"running"},
         Update(h, s)
  PROVE  RegistryTypeOK'
<1>1. CASE status[h] \notin Active /\ UNCHANGED registryVars
  BY <1>1 DEF TypeOK, RegistryTypeOK, registryVars
<1>2. CASE status[h] \in Active /\ UpdateActive(h, s)
  <2> DEFINE order == IF s \in Terminal THEN Append(terminalOrder, h)
                                        ELSE terminalOrder
  <2>1. order \in Seq(Handles)
    BY DEF TypeOK
  <2>2. Retained(order) \in Seq(Handles)
    BY <2>1, NewestType, CapacityAssumption DEF Retained
  <2>3. s \in Statuses /\ "absent" \in Statuses
    BY DEF Statuses, Active, Terminal
  <2>4. /\ PushEvent(events[h], StatusEvent(h, s)) \in Seq(Event)
        /\ PushSeq(events[h], StatusEvent(h, s)) \in Nat \ {0}
    BY MadeEvents, PushEventType DEF TypeOK
  <2>5. status' \in [Handles -> Statuses]
    BY <1>2, <2>3 DEF UpdateActive, TypeOK
  <2>6. events' \in [Handles -> Seq(Event)]
    BY <1>2, <2>4 DEF UpdateActive, TypeOK
  <2>7. nextSeq' \in [Handles -> Nat \ {0}]
    BY <1>2, <2>4 DEF UpdateActive, TypeOK
  <2>8. terminalOrder' \in Seq(Handles)
    BY <1>2, <2>2 DEF UpdateActive
  <2>9. activeCount' \in Nat
    BY <1>2 DEF UpdateActive, SaturatingDec, TypeOK
  <2> QED
    BY <2>5, <2>6, <2>7, <2>8, <2>9 DEF RegistryTypeOK
<1> QED
  BY <1>1, <1>2 DEF Update

(* retain: only the handle disappears from the order.                      *)
LEMMA WithoutFacts ==
  ASSUME NEW order \in Seq(Handles), NEW h \in Handles
  PROVE  /\ Without(order, h) \in Seq(Handles)
         /\ Len(Without(order, h)) <= Len(order)
         /\ Distinct(order) =>
              /\ Distinct(Without(order, h))
              /\ Elements(Without(order, h)) = Elements(order) \ {h}
<1>1. CASE \E i \in 1..Len(order) : order[i] = h
  <2> DEFINE at == CHOOSE i \in 1..Len(order) : order[i] = h
             w  == [i \in 1..(Len(order) - 1) |-> IF i < at THEN order[i]
                                                            ELSE order[i + 1]]
  <2>1. Without(order, h) = w
    BY <1>1 DEF Without
  <2>2. at \in 1..Len(order) /\ order[at] = h
    BY <1>1
  <2> HIDE DEF at
  <2>3. \A i \in 1..(Len(order) - 1) : w[i] \in Handles
    BY <2>2
  <2>4. w \in [1..(Len(order) - 1) -> Handles] /\ Len(order) - 1 \in Nat
    BY <2>2, <2>3
  <2>5. w \in Seq(Handles) /\ Len(w) = Len(order) - 1
    BY <2>4
  <2>6. ASSUME Distinct(order)
        PROVE  Distinct(w)
    BY <2>2, <2>5, <2>6 DEF Distinct
  <2>7. ASSUME Distinct(order)
        PROVE  Elements(w) = Elements(order) \ {h}
    <3>1. ASSUME NEW k \in Elements(w)
          PROVE  k \in Elements(order) /\ k # h
      <4>1. PICK i \in 1..(Len(order) - 1) : w[i] = k
        BY <2>5 DEF Elements
      <4>2. PICK j \in 1..Len(order) : j # at /\ order[j] = k
        BY <2>2, <4>1
      <4> QED
        BY <2>2, <2>7, <4>2 DEF Distinct, Elements
    <3>2. ASSUME NEW k \in Elements(order), k # h
          PROVE  k \in Elements(w)
      <4>1. PICK i \in 1..Len(order) : order[i] = k
        BY DEF Elements
      <4>2. CASE i < at
        BY <2>2, <2>5, <4>1, <4>2, SMTT(30) DEF Elements
      <4>3. CASE i > at
        <5>1. i - 1 \in 1..Len(w) /\ w[i - 1] = k
          BY <2>2, <2>5, <4>1, <4>3
        <5> QED
          BY <5>1 DEF Elements
      <4> QED
        BY <2>2, <3>2, <4>1, <4>2, <4>3
    <3> QED
      BY <3>1, <3>2
  <2> HIDE DEF w
  <2> QED
    BY <2>1, <2>5, <2>6, <2>7
<1>2. CASE ~ \E i \in 1..Len(order) : order[i] = h
  BY <1>2 DEF Without, Elements
<1> QED
  BY <1>1, <1>2

(* evict_old_terminal_entries: the order keeps what is not evicted.        *)
LEMMA RetainedFacts ==
  ASSUME NEW order \in Seq(Handles), Distinct(order)
  PROVE  /\ Retained(order) \in Seq(Handles)
         /\ Len(Retained(order)) <= MaxRetained
         /\ Distinct(Retained(order))
         /\ Elements(Retained(order)) = Elements(order) \ Evicted(order)
         /\ Evicted(order) \subseteq Elements(order)
<1> DEFINE n == Len(order)
           m == MaxRetained
           r == SubSeq(order, n - m + 1, n)
<1>0. m \in Nat /\ n \in Nat
  BY CapacityAssumption
<1>1. CASE n > m
  <2>1. Retained(order) = r
    BY <1>1 DEF Retained, Newest
  <2>2. /\ r \in Seq(Handles) /\ Len(r) = m
        /\ \A i \in 1..m : r[i] = order[n - m + i]
    BY <1>0, <1>1
  <2> HIDE DEF r
  <2>3. Distinct(r)
    <3>1. SUFFICES ASSUME NEW i \in 1..m, NEW j \in 1..m, r[i] = r[j]
                   PROVE  i = j
      BY <2>2 DEF Distinct
    <3>2. /\ n - m + i \in 1..n /\ n - m + j \in 1..n
          /\ order[n - m + i] = order[n - m + j]
      BY <1>0, <1>1, <2>2, <3>1
    <3>3. n - m + i = n - m + j
      BY <3>2 DEF Distinct
    <3> QED
      BY <1>0, <3>3
  <2>4. Evicted(order) = {order[i] : i \in 1..(n - m)}
    BY DEF Evicted
  <2>5. Evicted(order) \subseteq Elements(order)
    BY <1>0, <1>1, <2>4 DEF Elements
  <2>6. \A k \in Elements(r) : k \in Elements(order) /\ k \notin Evicted(order)
    BY <1>0, <1>1, <2>2, <2>4, SMTT(30) DEF Elements, Distinct
  <2>7. ASSUME NEW k \in Elements(order), k \notin Evicted(order)
        PROVE  k \in Elements(r)
    <3>1. PICK i \in 1..n : order[i] = k
      BY DEF Elements
    <3>2. i > n - m
      BY <1>0, <1>1, <2>4, <2>7, <3>1
    <3>3. i - (n - m) \in 1..Len(r) /\ r[i - (n - m)] = k
      BY <1>0, <1>1, <2>2, <3>1, <3>2
    <3> QED
      BY <3>3 DEF Elements
  <2> QED
    BY <2>1, <2>2, <2>3, <2>5, <2>6, <2>7
<1>2. CASE ~(n > m)
  <2>1. Retained(order) = order
    BY <1>2 DEF Retained, Newest
  <2>2. Evicted(order) = {}
    BY <1>0, <1>2 DEF Evicted
  <2> QED
    BY <1>0, <1>2, <2>1, <2>2
<1> QED
  BY <1>1, <1>2

(* take and the roll-back of start_invoke keep the registry well typed.    *)
LEMMA RemoveType ==
  ASSUME TypeOK, NEW h \in Handles, Remove(h)
  PROVE  RegistryTypeOK'
<1>1. Without(terminalOrder, h) \in Seq(Handles)
  BY WithoutFacts DEF TypeOK
<1>2. <<>> \in Seq(Event) /\ "absent" \in Statuses
  BY DEF Statuses
<1> QED
  BY <1>1, <1>2 DEF Remove, TypeOK, RegistryTypeOK, SaturatingDec

-----------------------------------------------------------------------------
(* Counters and retention *)

ActiveSet == {h \in Handles : status[h] \in Active}

LEMMA HandlesFinite == IsFiniteSet(Handles) /\ IsFiniteSet(ActiveSet)
<1>1. IsFiniteSet(Handles)
  BY FS_Interval, CapacityAssumption DEF Handles
<1>2. ActiveSet \subseteq Handles
  BY DEF ActiveSet
<1> QED
  BY <1>1, <1>2, FS_Subset

(* Taking an active handle out of the active set is what the saturating    *)
(* decrement of active_count counts.                                       *)
LEMMA OneLessActive ==
  ASSUME TypeOK, ActiveCountExact, NEW h \in Handles, status[h] \in Active,
         ActiveSet' = ActiveSet \ {h}, activeCount' = SaturatingDec(activeCount)
  PROVE  ActiveCountExact'
<1>1. h \in ActiveSet /\ IsFiniteSet(ActiveSet)
  BY HandlesFinite DEF ActiveSet
<1>2. /\ Cardinality(ActiveSet \ {h}) = Cardinality(ActiveSet) - 1
      /\ Cardinality(ActiveSet) \in Nat
  BY <1>1, FS_RemoveElement, FS_CardinalityType
<1>3. Cardinality(ActiveSet \ {h}) \in Nat
  BY <1>1, FS_RemoveElement, FS_CardinalityType, FS_Subset
<1>4. activeCount = Cardinality(ActiveSet) /\ activeCount <= MaxInFlight
  BY DEF ActiveCountExact, ActiveSet
<1>5. activeCount' = Cardinality(ActiveSet') /\ activeCount' <= MaxInFlight
  BY <1>2, <1>3, <1>4, CapacityAssumption DEF SaturatingDec, TypeOK
<1> QED
  BY <1>5 DEF ActiveCountExact, ActiveSet

Exact == ActiveCountExact /\ RetentionExact

(* A step that leaves the registry alone leaves its counters exact.        *)
LEMMA SameRegistryExact ==
  ASSUME Exact, UNCHANGED <<status, terminalOrder, activeCount>>
  PROVE  Exact'
BY DEF Exact, ActiveCountExact, RetentionExact

(* update: a result moves a handle from the active set to the order, which *)
(* then evicts only terminal entries.                                      *)
LEMMA UpdateExact ==
  ASSUME TypeOK, Exact, NEW h \in Handles,
         NEW s \in Terminal \cup {"running"}, Update(h, s)
  PROVE  Exact'
<1>1. CASE status[h] \notin Active /\ UNCHANGED registryVars
  BY <1>1, SameRegistryExact DEF registryVars
<1>2. CASE status[h] \in Active /\ UpdateActive(h, s) /\ s = "running"
  <2>0. s \notin Terminal /\ s \in Active
    BY <1>2 DEF Terminal, Active
  <2>1. terminalOrder \in Seq(Handles) /\ Len(terminalOrder) <= MaxRetained
    BY DEF TypeOK, Exact, RetentionExact
  <2>2. Evicted(terminalOrder) = {} /\ Retained(terminalOrder) = terminalOrder
    BY <2>1, CapacityAssumption DEF Evicted, Retained, Newest
  <2>3. UNCHANGED <<terminalOrder, activeCount>>
    BY <1>2, <2>0, <2>2 DEF UpdateActive
  <2>4. status' = [k \in Handles |-> IF k = h THEN s ELSE status[k]]
    BY <1>2, <2>0, <2>2 DEF UpdateActive
  <2>5. \A k \in Handles : /\ status'[k] \in Active <=> status[k] \in Active
                           /\ status'[k] \in Terminal <=> status[k] \in Terminal
    BY <1>2, <2>0, <2>4 DEF Active, Terminal
  <2>6. ActiveCountExact'
    BY <2>3, <2>5 DEF Exact, ActiveCountExact
  <2>7. RetentionExact'
    BY <2>3, <2>5 DEF Exact, RetentionExact
  <2> QED
    BY <2>6, <2>7 DEF Exact
<1>3. CASE status[h] \in Active /\ UpdateActive(h, s) /\ s \in Terminal
  <2> DEFINE order == Append(terminalOrder, h)
  <2>1. /\ terminalOrder \in Seq(Handles)
        /\ Distinct(terminalOrder)
        /\ Elements(terminalOrder) = {k \in Handles : status[k] \in Terminal}
    BY DEF TypeOK, Exact, RetentionExact
  <2>2. h \notin Elements(terminalOrder)
    BY <1>3, <2>1 DEF Active, Terminal
  <2>3. order \in Seq(Handles) /\ Distinct(order)
    BY <2>1, <2>2 DEF Distinct, Elements
  <2>4. Elements(order) = Elements(terminalOrder) \cup {h}
    BY <2>1 DEF Elements
  <2>5. terminalOrder' = Retained(order)
    BY <1>3 DEF UpdateActive
  <2>6. status' = [k \in Handles |-> IF k \in Evicted(order) THEN "absent"
                                     ELSE IF k = h THEN s ELSE status[k]]
    BY <1>3 DEF UpdateActive
  <2> HIDE DEF order
  <2>7. /\ Len(terminalOrder') <= MaxRetained
        /\ Distinct(terminalOrder')
        /\ Elements(terminalOrder') = Elements(order) \ Evicted(order)
        /\ Evicted(order) \subseteq Elements(order)
    BY <2>3, <2>5, RetainedFacts
  <2>8. "absent" \notin Active /\ "absent" \notin Terminal /\ s \notin Active
    BY <1>3 DEF Active, Terminal
  <2>9. {k \in Handles : status'[k] \in Terminal} = Elements(order) \ Evicted(order)
    BY <1>3, <2>1, <2>4, <2>6, <2>8
  <2>10. RetentionExact'
    BY <2>7, <2>9 DEF RetentionExact
  <2>11. ActiveSet' = ActiveSet \ {h}
    <3>1. \A k \in Evicted(order) : k = h \/ status[k] \in Terminal
      BY <2>1, <2>4, <2>7
    <3>2. \A k \in Handles : status[k] \in Terminal => status[k] \notin Active
      BY DEF Active, Terminal
    <3> QED
      BY <2>6, <2>8, <3>1, <3>2 DEF ActiveSet
  <2>12. activeCount' = SaturatingDec(activeCount)
    BY <1>3 DEF UpdateActive
  <2>13. ActiveCountExact'
    BY <1>3, <2>11, <2>12, OneLessActive DEF Exact
  <2> QED
    BY <2>10, <2>13 DEF Exact
<1> QED
  BY <1>1, <1>2, <1>3 DEF Update

(* insert: the new entry is active, and it was refused at the limit.       *)
LEMMA InsertExact ==
  ASSUME TypeOK, Exact, NEW h \in Handles, status[h] = "absent",
         activeCount < MaxInFlight, Insert(h)
  PROVE  Exact'
<1>1. status' = [status EXCEPT ![h] = "pending"]
  BY DEF Insert
<1>2. h \notin ActiveSet /\ ActiveSet' = ActiveSet \cup {h}
  BY <1>1 DEF ActiveSet, Active, TypeOK
<1>3. Cardinality(ActiveSet \cup {h}) = Cardinality(ActiveSet) + 1
  BY <1>2, HandlesFinite, FS_AddElement
<1>4. activeCount' = Cardinality(ActiveSet')
  BY <1>2, <1>3 DEF Insert, Exact, ActiveCountExact, ActiveSet
<1>5. activeCount' <= MaxInFlight
  BY CapacityAssumption DEF Insert, TypeOK
<1>6. ActiveCountExact'
  BY <1>4, <1>5 DEF ActiveCountExact, ActiveSet
<1>7. {k \in Handles : status'[k] \in Terminal} = {k \in Handles : status[k] \in Terminal}
  BY <1>1 DEF Terminal, TypeOK
<1>8. RetentionExact'
  BY <1>7 DEF Insert, Exact, RetentionExact
<1> QED
  BY <1>6, <1>8 DEF Exact

(* take: the handle leaves the entries and the order together.             *)
LEMMA RemoveExact ==
  ASSUME TypeOK, Exact, NEW h \in Handles, status[h] \in Terminal, Remove(h)
  PROVE  Exact'
<1>1. status[h] \notin Active /\ activeCount' = activeCount
  BY DEF Remove, Active, Terminal
<1>2. status' = [status EXCEPT ![h] = "absent"]
  BY DEF Remove
<1>3. /\ Len(terminalOrder') <= Len(terminalOrder)
      /\ Distinct(terminalOrder')
      /\ Elements(terminalOrder') = Elements(terminalOrder) \ {h}
      /\ Len(terminalOrder') \in Nat
  BY WithoutFacts, SMTT(30) DEF Remove, TypeOK, Exact, RetentionExact
<1>4. Len(terminalOrder) <= MaxRetained /\ Len(terminalOrder) \in Nat
  BY DEF TypeOK, Exact, RetentionExact
<1>5. {k \in Handles : status'[k] \in Terminal}
        = {k \in Handles : status[k] \in Terminal} \ {h}
  BY <1>2 DEF Terminal, TypeOK
<1>6. RetentionExact'
  BY <1>3, <1>4, <1>5, CapacityAssumption DEF Exact, RetentionExact
<1>7. {k \in Handles : status'[k] \in Active} = {k \in Handles : status[k] \in Active}
  BY <1>1, <1>2 DEF Active, TypeOK
<1>8. ActiveCountExact'
  BY <1>1, <1>7 DEF Exact, ActiveCountExact
<1> QED
  BY <1>6, <1>8 DEF Exact

-----------------------------------------------------------------------------
(* The inductive invariant.  TaskTracked adds to the stated properties how *)
(* a handle travels from the counter through the channel to its task: it   *)
(* is what shows that a fresh handle has no entry, and that joining the    *)
(* worker's tasks finds every active invocation.                           *)

TaskTracked ==
  /\ \A h \in Handles : status[h] \in Active =>
                           task[h] \in {"queued", "spawned", "invoking", "panicked", "lost"}
  /\ \A h \in Handles : task[h] = "queued" <=> h \in Elements(queue)
  /\ Distinct(queue)
  /\ \A h \in Handles : h >= nextHandle => task[h] = "none" /\ status[h] = "absent"
  /\ worker = "none" => \A h \in Handles : task[h] = "none"
  /\ worker = "broken" => \A h \in Handles : task[h] \in {"none", "lost"}
  /\ worker = "joined" => \A h \in Handles : task[h] \in {"none", "done", "panicked", "lost"}

SignalTracked ==
  /\ \A h \in Handles : canceller[h] = "signalled" => token[h]
  /\ CancelledIsSignalled

IInv == TypeOK /\ Exact /\ TaskTracked /\ SignalTracked

(* Every variable keeps its type: the initial state.                       *)
LEMMA InitInv == Init => IInv
<1> SUFFICES ASSUME Init PROVE IInv
  OBVIOUS
<1>1. TypeOK
  BY CapacityAssumption DEF Init, TypeOK, Statuses, Tasks
<1>2. ActiveSet = {}
  BY DEF Init, ActiveSet, Active
<1>3. ActiveCountExact
  <2>1. Cardinality(ActiveSet) = 0
    BY <1>2, FS_EmptySet
  <2>2. activeCount = 0 /\ activeCount <= MaxInFlight
    BY CapacityAssumption DEF Init
  <2> QED
    BY <2>1, <2>2 DEF ActiveCountExact, ActiveSet
<1>4. RetentionExact
  BY CapacityAssumption DEF Init, RetentionExact, Elements, Distinct, Terminal
<1>5. TaskTracked
  BY DEF Init, TaskTracked, Active, Elements, Distinct
<1>6. SignalTracked
  BY DEF Init, SignalTracked, CancelledIsSignalled
<1> QED
  BY <1>1, <1>3, <1>4, <1>5, <1>6 DEF IInv, Exact

(* Every action keeps every variable in its type.                          *)
LEMMA NextType == IInv /\ [Next]_vars => TypeOK'
<1> SUFFICES ASSUME IInv, [Next]_vars PROVE TypeOK'
  OBVIOUS
<1>0. TypeOK
  BY DEF IInv
<1> USE <1>0
<1>1. CASE StartInvoke
  <2>1. nextHandle \in Handles /\ nextHandle + 1 \in 1..(MaxHandle + 1)
    BY <1>1, CapacityAssumption DEF StartInvoke, Handles
  <2>2. Append(queue, nextHandle) \in Seq(Handles)
    BY <2>1 DEF TypeOK
  <2>3. <<>> \in Seq(Event)
    OBVIOUS
  <2>4. /\ status' \in [Handles -> Statuses] /\ events' \in [Handles -> Seq(Event)]
        /\ nextSeq' \in [Handles -> Nat \ {0}] /\ terminalOrder' \in Seq(Handles)
        /\ activeCount' \in Nat
    BY <1>1, <2>1, <2>3 DEF StartInvoke, Insert, TypeOK, Statuses, Active
  <2>5. /\ nextHandle' \in 1..(MaxHandle + 1) /\ queue' \in Seq(Handles)
        /\ task' \in [Handles -> Tasks] /\ worker' \in {"none", "running", "broken"}
        /\ UNCHANGED <<token, canceller, emitted, delivered>>
    BY <1>1, <2>1, <2>2 DEF StartInvoke, TypeOK, Tasks, Spawned, ApiOpen
  <2> QED
    BY <2>4, <2>5 DEF TypeOK
<1>2. CASE StartBackpressure \/ StartRefused \/ StartSpawnFails
  <2>1. nextHandle' \in 1..(MaxHandle + 1)
    BY <1>2, CapacityAssumption
       DEF StartBackpressure, StartRefused, StartSpawnFails, Handles
  <2> QED
    BY <1>2, <2>1
       DEF StartBackpressure, StartRefused, StartSpawnFails, Spawned, TypeOK,
           registryVars
<1>3. CASE DropRuntime
  BY <1>3 DEF DropRuntime, TypeOK, registryVars
<1>4. ASSUME NEW h \in Handles, CancelLookup(h) \/ CancelSignal(h)
      PROVE  TypeOK'
  BY <1>4 DEF CancelLookup, CancelSignal, TypeOK, registryVars
<1>5. ASSUME NEW h \in Handles, CancelMark(h)
      PROVE  TypeOK'
  <2>1. RegistryTypeOK'
    BY <1>5, UpdateType DEF CancelMark, Terminal
  <2> QED
    BY <1>5, <2>1 DEF CancelMark, RegistryTypeOK, TypeOK
<1>6. ASSUME NEW h \in Handles, DrainEvents(h)
      PROVE  TypeOK'
  <2>1. delivered[h] \o events[h] \in Seq(Event) /\ <<>> \in Seq(Event)
    BY DEF TypeOK
  <2> QED
    BY <1>6, <2>1 DEF DrainEvents, TypeOK
<1>7. ASSUME NEW h \in Handles, TakeInvocation(h)
      PROVE  TypeOK'
  <2>1. RegistryTypeOK'
    BY <1>7, RemoveType DEF TakeInvocation
  <2> QED
    BY <1>7, <2>1 DEF TakeInvocation, RegistryTypeOK, TypeOK
<1>8. CASE WorkerReceive
  <2>1. Head(queue) \in Handles /\ Tail(queue) \in Seq(Handles)
    BY <1>8 DEF WorkerReceive, TypeOK
  <2> QED
    BY <1>8, <2>1 DEF WorkerReceive, TypeOK, Tasks, registryVars
<1>9. CASE WorkerExit
  BY <1>9 DEF WorkerExit, TypeOK, registryVars
<1>10. ASSUME NEW h \in Handles, TaskBegin(h)
       PROVE  TypeOK'
  <2>1. RegistryTypeOK'
    BY <1>10, UpdateType DEF TaskBegin
  <2> QED
    BY <1>10, <2>1 DEF TaskBegin, RegistryTypeOK, TypeOK, Tasks
<1>11. ASSUME NEW h \in Handles, NEW s \in Terminal, TaskEnd(h, s)
       PROVE  TypeOK'
  <2>1. RegistryTypeOK'
    BY <1>11, UpdateType DEF TaskEnd
  <2> QED
    BY <1>11, <2>1 DEF TaskEnd, RegistryTypeOK, TypeOK, Tasks
<1>12. ASSUME NEW h \in Handles, NEW f \in Forms, AcceptDelta(h, f)
       PROVE  TypeOK'
  <2>1. /\ PushEvent(events[h], DeltaEvent(h, f)) \in Seq(Event)
        /\ PushSeq(events[h], DeltaEvent(h, f)) \in Nat \ {0}
    BY MadeEvents, PushEventType DEF TypeOK
  <2>2. emitted[h] + 1 \in 0..MaxDeltas
    BY <1>12, CapacityAssumption DEF AcceptDelta, TypeOK
  <2> QED
    BY <1>12, <2>1, <2>2 DEF AcceptDelta, TypeOK
<1>13. CASE UNCHANGED vars
  BY <1>13 DEF vars, registryVars, TypeOK
<1>14. CASE WorkerBuildFails
  BY <1>14 DEF WorkerBuildFails, TypeOK, Tasks, registryVars
<1>15. ASSUME NEW h \in Handles, TaskPanic(h)
       PROVE  TypeOK'
  BY <1>15 DEF TaskPanic, TypeOK, Tasks, registryVars
<1> QED
  BY <1>1, <1>2, <1>3, <1>4, <1>5, <1>6, <1>7, <1>8, <1>9, <1>10, <1>11, <1>12, <1>13,
     <1>14, <1>15
     DEF Next, Application, WorkerStep, Provider, Stopped, IgnoreDelta

(* Every action keeps active_count and terminal_order exact.               *)
LEMMA NextExact == IInv /\ [Next]_vars => Exact'
<1> SUFFICES ASSUME IInv, [Next]_vars PROVE Exact'
  OBVIOUS
<1>0. TypeOK /\ Exact /\ TaskTracked
  BY DEF IInv
<1> USE <1>0
<1>1. CASE StartInvoke
  <2>1. status[nextHandle] = "absent" /\ nextHandle \in Handles
    BY <1>1, CapacityAssumption DEF StartInvoke, TaskTracked, Handles
  <2> QED
    BY <1>1, <2>1, InsertExact DEF StartInvoke
<1>2. CASE StartBackpressure \/ StartRefused \/ StartSpawnFails \/ DropRuntime
  BY <1>2, SameRegistryExact
     DEF StartBackpressure, StartRefused, StartSpawnFails, DropRuntime, registryVars
<1>3. ASSUME NEW h \in Handles, CancelLookup(h) \/ CancelSignal(h) \/ DrainEvents(h)
      PROVE  Exact'
  BY <1>3, SameRegistryExact DEF CancelLookup, CancelSignal, DrainEvents, registryVars
<1>4. ASSUME NEW h \in Handles, CancelMark(h)
      PROVE  Exact'
  BY <1>4, UpdateExact DEF CancelMark, Terminal
<1>5. ASSUME NEW h \in Handles, TakeInvocation(h)
      PROVE  Exact'
  BY <1>5, RemoveExact DEF TakeInvocation
<1>6. CASE WorkerBuildFails \/ WorkerReceive \/ WorkerExit
  BY <1>6, SameRegistryExact DEF WorkerBuildFails, WorkerReceive, WorkerExit, registryVars
<1>7. ASSUME NEW h \in Handles, TaskBegin(h)
      PROVE  Exact'
  BY <1>7, UpdateExact DEF TaskBegin
<1>8. ASSUME NEW h \in Handles, NEW s \in Terminal, TaskEnd(h, s)
      PROVE  Exact'
  BY <1>8, UpdateExact DEF TaskEnd
<1>9. ASSUME NEW h \in Handles, NEW f \in Forms, AcceptDelta(h, f)
      PROVE  Exact'
  BY <1>9, SameRegistryExact DEF AcceptDelta
<1>10. CASE UNCHANGED vars
  BY <1>10, SameRegistryExact DEF vars, registryVars
<1>11. ASSUME NEW h \in Handles, TaskPanic(h)
       PROVE  Exact'
  BY <1>11, SameRegistryExact DEF TaskPanic, registryVars
<1> QED
  BY <1>1, <1>2, <1>3, <1>4, <1>5, <1>6, <1>7, <1>8, <1>9, <1>10, <1>11
     DEF Next, Application, WorkerStep, Provider, Stopped, IgnoreDelta

(* What update may do to a status: an active one becomes s or disappears,  *)
(* any other one only disappears.                                          *)
LEMMA UpdateStatus ==
  ASSUME TypeOK, NEW h \in Handles, NEW s \in Terminal \cup {"running"}, Update(h, s)
  PROVE  /\ \A k \in Handles : status'[k] \in {status[k], s, "absent"}
         /\ \A k \in Handles \ {h} : status'[k] \in {status[k], "absent"}
         /\ status[h] \notin Active => UNCHANGED status
         /\ s \in Terminal => status'[h] \notin Active
BY DEF Update, UpdateActive, registryVars, Active, Terminal, TypeOK

(* Every action keeps track of where each active invocation's task is.     *)
LEMMA NextTask == IInv /\ [Next]_vars => TaskTracked'
<1> SUFFICES ASSUME IInv, [Next]_vars PROVE TaskTracked'
  OBVIOUS
<1>0. TypeOK /\ TaskTracked
  BY DEF IInv
<1> USE <1>0
<1>1. CASE StartInvoke
  <2>1. /\ nextHandle \in Handles /\ nextHandle' = nextHandle + 1
        /\ queue' = Append(queue, nextHandle) /\ worker' = "running"
        /\ task' = [task EXCEPT ![nextHandle] = "queued"]
        /\ status' = [status EXCEPT ![nextHandle] = "pending"]
    BY <1>1 DEF StartInvoke, Insert, Spawned, ApiOpen
  <2>2. Elements(queue') = Elements(queue) \cup {nextHandle}
    BY <2>1, ChannelElements DEF TypeOK
  <2>3. \A h \in Handles : h >= nextHandle + 1 => h >= nextHandle /\ h # nextHandle
    BY <2>1 DEF Handles
  <2>4. nextHandle \notin Elements(queue)
    BY <2>1, CapacityAssumption DEF TaskTracked, Handles
  <2>5. Distinct(queue')
    BY <2>1, <2>4, ChannelElements DEF TaskTracked, TypeOK
  <2> QED
    BY <2>1, <2>2, <2>3, <2>5 DEF TaskTracked, TypeOK, Active
<1>2. CASE StartBackpressure \/ StartRefused \/ StartSpawnFails
  <2>1. /\ nextHandle \in Handles /\ nextHandle' = nextHandle + 1
        /\ UNCHANGED <<status, queue, task>>
        /\ worker' \in {"running", worker}
    BY <1>2 DEF StartBackpressure, StartRefused, StartSpawnFails, Spawned, registryVars
  <2>2. \A h \in Handles : h >= nextHandle + 1 => h >= nextHandle
    BY <2>1 DEF Handles
  <2> QED
    BY <2>1, <2>2 DEF TaskTracked
<1>3. CASE DropRuntime
  BY <1>3 DEF DropRuntime, TaskTracked, ApiOpen, registryVars
<1>4. ASSUME NEW h \in Handles,
             CancelLookup(h) \/ CancelSignal(h) \/ DrainEvents(h)
      PROVE  TaskTracked'
  BY <1>4 DEF CancelLookup, CancelSignal, DrainEvents, TaskTracked, registryVars
<1>5. ASSUME NEW h \in Handles, CancelMark(h)
      PROVE  TaskTracked'
  <2>1. \A k \in Handles : /\ status'[k] \in Active => status[k] \in Active
                           /\ status[k] = "absent" => status'[k] = "absent"
    BY <1>5, UpdateStatus DEF CancelMark, Active, Terminal
  <2> QED
    BY <1>5, <2>1 DEF CancelMark, TaskTracked
<1>6. ASSUME NEW h \in Handles, TakeInvocation(h)
      PROVE  TaskTracked'
  BY <1>6 DEF TakeInvocation, Remove, TaskTracked, TypeOK, Active
<1>7. CASE WorkerReceive
  <2>1. /\ queue # <<>> /\ queue' = Tail(queue)
        /\ task' = [task EXCEPT ![Head(queue)] = "spawned"]
        /\ UNCHANGED <<status, nextHandle, worker>>
        /\ worker \in {"running", "closing"}
    BY <1>7 DEF WorkerReceive, registryVars
  <2>2. /\ Elements(queue) = {Head(queue)} \cup Elements(Tail(queue))
        /\ Head(queue) \in Handles
    BY <2>1, ChannelElements DEF TypeOK
  <2>3. Distinct(Tail(queue)) /\ Head(queue) \notin Elements(Tail(queue))
    BY <2>1, ChannelElements DEF TaskTracked, TypeOK
  <2>4. task[Head(queue)] = "queued" /\ ~(Head(queue) >= nextHandle)
    BY <2>2 DEF TaskTracked
  <2> QED
    BY <2>1, <2>2, <2>3, <2>4 DEF TaskTracked, TypeOK
<1>8. CASE WorkerExit
  BY <1>8 DEF WorkerExit, TaskTracked, registryVars
<1>9. ASSUME NEW h \in Handles, TaskBegin(h)
      PROVE  TaskTracked'
  <2>1. \A k \in Handles \ {h} : status'[k] \in {status[k], "absent"}
    BY <1>9, UpdateStatus DEF TaskBegin
  <2>2. task' = [task EXCEPT ![h] = "invoking"] /\ UNCHANGED <<queue, nextHandle, worker>>
    BY <1>9 DEF TaskBegin
  <2>3. task[h] = "spawned"
    BY <1>9 DEF TaskBegin
  <2>4. ~(h >= nextHandle) /\ worker \notin {"none", "broken", "joined"}
    BY <2>3 DEF TaskTracked
  <2> QED
    BY <2>1, <2>2, <2>3, <2>4 DEF TaskTracked, TypeOK, Active
<1>10. ASSUME NEW h \in Handles, NEW s \in Terminal, TaskEnd(h, s)
       PROVE  TaskTracked'
  <2>1. /\ \A k \in Handles \ {h} : status'[k] \in {status[k], "absent"}
        /\ status'[h] \notin Active
    BY <1>10, UpdateStatus DEF TaskEnd
  <2>2. task' = [task EXCEPT ![h] = "done"] /\ UNCHANGED <<queue, nextHandle, worker>>
    BY <1>10 DEF TaskEnd
  <2>3. task[h] = "invoking"
    BY <1>10 DEF TaskEnd
  <2>4. ~(h >= nextHandle) /\ worker \notin {"none", "broken", "joined"}
    BY <2>3 DEF TaskTracked
  <2> QED
    BY <2>1, <2>2, <2>3, <2>4 DEF TaskTracked, TypeOK, Active
<1>11. ASSUME NEW h \in Handles, NEW f \in Forms, AcceptDelta(h, f)
       PROVE  TaskTracked'
  BY <1>11 DEF AcceptDelta, TaskTracked
<1>12. CASE UNCHANGED vars
  BY <1>12 DEF vars, registryVars, TaskTracked
<1>13. CASE WorkerBuildFails
  <2>1. /\ \A h \in Handles : task[h] \in {"none", "queued"}
        /\ task' = [h \in Handles |-> IF task[h] = "queued" THEN "lost" ELSE task[h]]
        /\ queue' = <<>> /\ worker' \in {"broken", "joined"}
        /\ UNCHANGED <<status, nextHandle>>
    BY <1>13 DEF WorkerBuildFails, registryVars
  <2>2. Elements(queue') = {} /\ Distinct(queue')
    BY <2>1 DEF Elements, Distinct
  <2> QED
    BY <2>1, <2>2 DEF TaskTracked
<1>14. ASSUME NEW h \in Handles, TaskPanic(h)
       PROVE  TaskTracked'
  <2>1. /\ task[h] = "invoking" /\ task' = [task EXCEPT ![h] = "panicked"]
        /\ UNCHANGED <<status, queue, nextHandle, worker>>
    BY <1>14 DEF TaskPanic, registryVars
  <2>2. ~(h >= nextHandle) /\ worker \notin {"none", "broken", "joined"}
    BY <2>1 DEF TaskTracked
  <2> QED
    BY <2>1, <2>2 DEF TaskTracked, TypeOK
<1> QED
  BY <1>1, <1>2, <1>3, <1>4, <1>5, <1>6, <1>7, <1>8, <1>9, <1>10, <1>11, <1>12,
     <1>13, <1>14
     DEF Next, Application, WorkerStep, Provider, Stopped, IgnoreDelta

(* Every action signals a token before the status says cancelled.          *)
LEMMA NextSignal == IInv /\ [Next]_vars => SignalTracked'
<1> SUFFICES ASSUME IInv, [Next]_vars PROVE SignalTracked'
  OBVIOUS
<1>0. TypeOK /\ TaskTracked /\ SignalTracked
  BY DEF IInv
<1> USE <1>0
<1>1. CASE StartInvoke
  BY <1>1 DEF StartInvoke, Insert, SignalTracked, CancelledIsSignalled, TypeOK
<1>2. CASE \/ StartBackpressure \/ StartRefused \/ StartSpawnFails
           \/ DropRuntime \/ WorkerExit
  BY <1>2 DEF StartBackpressure, StartRefused, StartSpawnFails, DropRuntime,
              WorkerExit, SignalTracked, CancelledIsSignalled, registryVars
<1>3. ASSUME NEW h \in Handles, CancelLookup(h) \/ DrainEvents(h)
      PROVE  SignalTracked'
  BY <1>3 DEF CancelLookup, DrainEvents, SignalTracked, CancelledIsSignalled,
              registryVars, TypeOK
<1>4. ASSUME NEW h \in Handles, CancelSignal(h)
      PROVE  SignalTracked'
  BY <1>4 DEF CancelSignal, SignalTracked, CancelledIsSignalled, registryVars, TypeOK
<1>5. ASSUME NEW h \in Handles, CancelMark(h)
      PROVE  SignalTracked'
  <2>1. \A k \in Handles \ {h} : status'[k] \in {status[k], "absent"}
    BY <1>5, UpdateStatus DEF CancelMark, Terminal
  <2>2. token[h] /\ UNCHANGED <<token, task>>
    BY <1>5 DEF CancelMark, SignalTracked
  <2>3. canceller' = [canceller EXCEPT ![h] = "idle"]
    BY <1>5 DEF CancelMark
  <2> QED
    BY <2>1, <2>2, <2>3 DEF SignalTracked, CancelledIsSignalled, TypeOK
<1>6. ASSUME NEW h \in Handles, TakeInvocation(h)
      PROVE  SignalTracked'
  BY <1>6 DEF TakeInvocation, Remove, SignalTracked, CancelledIsSignalled, TypeOK
<1>7. CASE WorkerReceive
  <2>1. /\ task' = [task EXCEPT ![Head(queue)] = "spawned"]
        /\ UNCHANGED <<status, token, canceller>>
    BY <1>7 DEF WorkerReceive, registryVars
  <2>2. task[Head(queue)] = "queued" /\ Head(queue) \in Handles
    BY <1>7, ChannelElements DEF WorkerReceive, TaskTracked, TypeOK
  <2> QED
    BY <2>1, <2>2 DEF SignalTracked, CancelledIsSignalled, TypeOK
<1>8. ASSUME NEW h \in Handles, TaskBegin(h)
      PROVE  SignalTracked'
  <2>1. /\ \A k \in Handles \ {h} : status'[k] \in {status[k], "absent"}
        /\ status'[h] \in {status[h], "running", "absent"}
    BY <1>8, UpdateStatus DEF TaskBegin
  <2> QED
    BY <1>8, <2>1 DEF TaskBegin, SignalTracked, CancelledIsSignalled, TypeOK
<1>9. ASSUME NEW h \in Handles, NEW s \in Terminal, TaskEnd(h, s)
      PROVE  SignalTracked'
  <2>1. \A k \in Handles \ {h} : status'[k] \in {status[k], "absent"}
    BY <1>9, UpdateStatus DEF TaskEnd
  <2>2. /\ task' = [task EXCEPT ![h] = "done"] /\ UNCHANGED canceller
        /\ \A k \in Handles : token[k] => token'[k]
    BY <1>9 DEF TaskEnd, TypeOK
  <2> QED
    BY <2>1, <2>2 DEF SignalTracked, CancelledIsSignalled, TypeOK
<1>10. ASSUME NEW h \in Handles, NEW f \in Forms, AcceptDelta(h, f)
       PROVE  SignalTracked'
  BY <1>10 DEF AcceptDelta, SignalTracked, CancelledIsSignalled
<1>11. CASE UNCHANGED vars
  BY <1>11 DEF vars, registryVars, SignalTracked, CancelledIsSignalled
<1>12. CASE WorkerBuildFails
  BY <1>12 DEF WorkerBuildFails, SignalTracked, CancelledIsSignalled, registryVars
<1>13. ASSUME NEW h \in Handles, TaskPanic(h)
       PROVE  SignalTracked'
  BY <1>13 DEF TaskPanic, SignalTracked, CancelledIsSignalled, registryVars, TypeOK
<1> QED
  BY <1>1, <1>2, <1>3, <1>4, <1>5, <1>6, <1>7, <1>8, <1>9, <1>10, <1>11, <1>12, <1>13
     DEF Next, Application, WorkerStep, Provider, Stopped, IgnoreDelta

-----------------------------------------------------------------------------
(* Theorems *)

LEMMA Invariance == Spec => []IInv
<1>1. IInv /\ [Next]_vars => IInv'
  BY NextType, NextExact, NextTask, NextSignal DEF IInv
<1> QED
  BY <1>1, InitInv, PTL DEF Spec

(* The type invariant of the registry, the channel and the worker, for any *)
(* limits.                                                                 *)
THEOREM RegistryTypes == Spec => []TypeOK
<1>1. IInv => TypeOK
  BY DEF IInv
<1> QED
  BY <1>1, Invariance, PTL

(* active_count is the number of pending and running entries and respects  *)
(* MAX_IN_FLIGHT_INVOCATIONS, although cancel_invocation, the task and     *)
(* start_invoke all change it in critical sections of their own.           *)
THEOREM ActiveCountIsExact == Spec => []ActiveCountExact
<1>1. IInv => ActiveCountExact
  BY DEF IInv, Exact
<1> QED
  BY <1>1, Invariance, PTL

(* terminal_order lists exactly the terminal entries, each once, within    *)
(* MAX_RETAINED_INVOCATIONS: take and eviction never disagree.             *)
THEOREM RetentionIsExact == Spec => []RetentionExact
<1>1. IInv => RetentionExact
  BY DEF IInv, Exact
<1> QED
  BY <1>1, Invariance, PTL

(* A cancelled invocation whose task still runs has its token cancelled.   *)
THEOREM CancellationSignalled == Spec => []CancelledIsSignalled
<1>1. IInv => CancelledIsSignalled
  BY DEF IInv, SignalTracked
<1> QED
  BY <1>1, Invariance, PTL

(* Drop joins every invocation that start_invoke accepted and whose task   *)
(* is not gone.                                                            *)
THEOREM DropJoinsAll == Spec => []DropWaitsForAll
<1>1. IInv => DropWaitsForAll
  BY DEF IInv, TaskTracked, DropWaitsForAll, Orphaned
<1> QED
  BY <1>1, Invariance, PTL

(* No step changes a terminal status or brings a removed handle back.      *)
LEMMA NextFinal == IInv /\ [Next]_vars => [FinalStep]_vars
<1> SUFFICES ASSUME IInv, Next PROVE FinalStep
  BY DEF vars
<1>0. TypeOK
  BY DEF IInv
<1> USE <1>0
<1>1. CASE StartInvoke
  <2>1. status' = [status EXCEPT ![nextHandle] = "pending"] /\ nextHandle \in Handles
    BY <1>1 DEF StartInvoke, Insert
  <2>2. status[nextHandle] = "absent"
    BY <2>1, CapacityAssumption DEF IInv, TaskTracked, Handles
  <2>3. ~(nextHandle < nextHandle)
    BY <2>1 DEF Handles
  <2> QED
    BY <2>1, <2>2, <2>3 DEF FinalStep, TypeOK, Terminal
<1>2. CASE UNCHANGED status
  BY <1>2 DEF FinalStep
<1>3. ASSUME NEW h \in Handles, NEW s \in Terminal \cup {"running"}, Update(h, s)
      PROVE  FinalStep
  <2>1. \A k \in Handles : status[k] \notin Active => status'[k] \in {status[k], "absent"}
    BY <1>3, UpdateStatus
  <2>2. \A k \in Handles : status[k] \in Terminal \cup {"absent"} => status[k] \notin Active
    BY DEF Active, Terminal
  <2> QED
    BY <2>1, <2>2 DEF FinalStep
<1>4. ASSUME NEW h \in Handles, TakeInvocation(h)
      PROVE  FinalStep
  BY <1>4 DEF TakeInvocation, Remove, FinalStep, TypeOK
<1> QED
  BY <1>1, <1>2, <1>3, <1>4
     DEF Next, Application, WorkerStep, Provider, Stopped, IgnoreDelta,
         StartBackpressure, StartRefused, StartSpawnFails, DropRuntime,
         CancelLookup, CancelSignal, CancelMark, DrainEvents, WorkerBuildFails,
         WorkerReceive, WorkerExit, TaskBegin, TaskEnd, TaskPanic, AcceptDelta, vars,
         registryVars, Terminal

(* A result that was reported is never revised, whichever of cancellation  *)
(* and completion came second.                                             *)
THEOREM ResultsAreFinal == Spec => ResultIsFinal
<1>1. IInv /\ [Next]_vars => [FinalStep]_vars
  BY NextFinal
<1> QED
  BY <1>1, Invariance, PTL DEF Spec, ResultIsFinal

-----------------------------------------------------------------------------
(* The stream of events.  StreamOf is the invariant of one invocation, of  *)
(* what was delivered d, what is queued q, the next sequence number n and  *)
(* the status st.  It is stated of d and q apart because a drain, a push   *)
(* and a trimmed queue each move the border between them; and an active    *)
(* invocation without terminal event, and a pending one without any, are   *)
(* what shows that a terminal event is the last and `started` the first.   *)

StreamOf(d, q, n, st) ==
  /\ \A i, j \in 1..Len(d) : i < j => d[i].sequence < d[j].sequence
  /\ \A i, j \in 1..Len(q) : i < j => q[i].sequence < q[j].sequence
  /\ \A i \in 1..Len(d), j \in 1..Len(q) : d[i].sequence < q[j].sequence
  /\ \A i \in 1..Len(d) : d[i].kind = "started" => d[i].sequence = 1
  /\ \A i \in 1..Len(q) : q[i].kind = "started" => q[i].sequence = 1
  /\ \A i \in 1..Len(d) : d[i].kind \in Terminal => i = Len(d) /\ q = <<>>
  /\ \A i \in 1..Len(q) : q[i].kind \in Terminal => i = Len(q)
  /\ st # "absent" => /\ \A i \in 1..Len(d) : d[i].sequence < n
                      /\ \A i \in 1..Len(q) : q[i].sequence < n
  /\ st = "absent" => q = <<>>
  /\ st \in Active => /\ \A i \in 1..Len(d) : d[i].kind \notin Terminal
                      /\ \A i \in 1..Len(q) : q[i].kind \notin Terminal
  /\ st \in Terminal => \/ q # <<>> /\ q[Len(q)].kind = st
                        \/ q = <<>> /\ d # <<>> /\ d[Len(d)].kind = st
  /\ st = "pending" => d = <<>> /\ q = <<>> /\ n = 1

StreamTracked ==
  /\ \A h \in Handles : StreamOf(delivered[h], events[h], nextSeq[h], status[h])
  /\ \A h \in Handles : status[h] = "running" => task[h] \in {"invoking", "panicked"}
  /\ \A h \in Handles : h >= nextHandle => delivered[h] = <<>>

(* What push_event does to a queue: it either extends the data of the last *)
(* event and consumes no number, or appends and drops some of the oldest,  *)
(* never the new one.                                                      *)
LEMMA PushEventFacts ==
  ASSUME NEW q \in Seq(Event), NEW e \in Event, Coalesces(q, e)
  PROVE  /\ e.kind = "outputDelta" /\ PushSeq(q, e) = e.sequence
         /\ q # <<>> /\ q[Len(q)].kind = "outputDelta"
         /\ Len(PushEvent(q, e)) = Len(q)
         /\ \A i \in 1..Len(q) : /\ PushEvent(q, e)[i].sequence = q[i].sequence
                                 /\ PushEvent(q, e)[i].kind = q[i].kind
         /\ \A i \in 1..(Len(q) - 1) : PushEvent(q, e)[i] = q[i]
         /\ PushEvent(q, e)[Len(q)].units = q[Len(q)].units \o e.units
<1>1. Len(q) \in 1..Len(q) /\ q[Len(q)] \in Event
  BY DEF Coalesces
<1>2. /\ Extended(q[Len(q)], e).sequence = q[Len(q)].sequence
      /\ Extended(q[Len(q)], e).kind = q[Len(q)].kind
      /\ Extended(q[Len(q)], e).units = q[Len(q)].units \o e.units
  BY <1>1 DEF Extended, Event
<1>3. PushEvent(q, e) = [q EXCEPT ![Len(q)] = Extended(q[Len(q)], e)]
  BY DEF PushEvent
<1>4. e.kind = "outputDelta" /\ PushSeq(q, e) = e.sequence /\ q # <<>>
      /\ q[Len(q)].kind = "outputDelta"
  BY DEF Coalesces, PushSeq
<1>5. Len(PushEvent(q, e)) = Len(q)
  BY <1>3
<1>6. \A i \in 1..Len(q) :
        PushEvent(q, e)[i] = IF i = Len(q) THEN Extended(q[Len(q)], e) ELSE q[i]
  BY <1>3
<1>7. \A i \in 1..(Len(q) - 1) : i \in 1..Len(q) /\ i # Len(q)
  BY <1>1
<1> QED
  BY <1>1, <1>2, <1>4, <1>5, <1>6, <1>7

LEMMA PushEventAppends ==
  ASSUME NEW q \in Seq(Event), NEW e \in Event, ~Coalesces(q, e)
  PROVE  /\ PushSeq(q, e) = e.sequence + 1
         /\ PushEvent(q, e) \in Seq(Event)
         /\ \E k \in 0..Len(q) :
              /\ Len(PushEvent(q, e)) = Len(q) + 1 - k
              /\ PushEvent(q, e)[Len(q) + 1 - k] = e
              /\ \A i \in 1..(Len(q) - k) : PushEvent(q, e)[i] = q[i + k]
<1> DEFINE a == Append(q, e)
           l == Len(q)
           m == MaxEvents
<1>1. m \in Nat \ {0} /\ l \in Nat
  BY CapacityAssumption
<1>2. /\ a \in Seq(Event) /\ Len(a) = l + 1 /\ a[l + 1] = e
      /\ \A i \in 1..l : a[i] = q[i]
  BY <1>1
<1>3. PushEvent(q, e) = Newest(a, m) /\ PushSeq(q, e) = e.sequence + 1
  BY DEF PushEvent, PushSeq
<1>4. PushEvent(q, e) \in Seq(Event)
  BY PushEventType
<1> HIDE DEF a, m
<1>5. CASE l + 1 > m
  <2> DEFINE k == l + 1 - m
  <2>1. k \in 0..l /\ k \in Nat /\ k < l + 1
    BY <1>1, <1>5
  <2>2. Newest(a, m) = SubSeq(a, k + 1, l + 1)
    <3>1. Len(a) - m + 1 = k + 1 /\ Len(a) = l + 1 /\ Len(a) > m
      BY <1>1, <1>2, <1>5
    <3> HIDE DEF k, l
    <3> QED
      BY <3>1 DEF Newest
  <2> HIDE DEF k, l
  <2>3. /\ Len(SubSeq(a, k + 1, l + 1)) = l + 1 - k
        /\ \A i \in 1..(l + 1 - k) : SubSeq(a, k + 1, l + 1)[i] = a[i + k]
    <3>1. /\ k \in Int /\ l \in Int /\ k + 1 <= l + 1
          /\ (l + 1) - (k + 1) + 1 = l + 1 - k
      BY <1>1, <2>1
    <3>2. Len(SubSeq(a, k + 1, l + 1)) = l + 1 - k
      BY <3>1
    <3>3. ASSUME NEW i \in 1..(l + 1 - k)
          PROVE  SubSeq(a, k + 1, l + 1)[i] = a[i + k]
      <4>1. i \in Int /\ (k + 1) + i - 1 = i + k
        BY <3>1
      <4> QED
        BY <3>1, <4>1
    <3> QED
      BY <3>2, <3>3
  <2>4. /\ SubSeq(a, k + 1, l + 1)[l + 1 - k] = e
        /\ \A i \in 1..(l - k) : SubSeq(a, k + 1, l + 1)[i] = q[i + k]
    <3> DEFINE w == SubSeq(a, k + 1, l + 1)
    <3>1. \A i \in 1..(l + 1 - k) : w[i] = a[i + k]
      BY <2>3
    <3> HIDE DEF w
    <3>2. l + 1 - k \in 1..(l + 1 - k) /\ (l + 1 - k) + k = l + 1
      BY <1>1, <2>1
    <3>3. w[l + 1 - k] = e
      BY <1>2, <3>1, <3>2
    <3>4. ASSUME NEW i \in 1..(l - k) PROVE w[i] = q[i + k]
      <4>1. i \in 1..(l + 1 - k) /\ i + k \in 1..l
        BY <1>1, <2>1
      <4> QED
        BY <1>2, <3>1, <4>1
    <3> QED
      BY <3>3, <3>4 DEF w
  <2> QED
    BY <1>3, <1>4, <2>1, <2>2, <2>3, <2>4, ZenonT(40) DEF l
<1>6. CASE ~(l + 1 > m)
  <2>1. Newest(a, m) = a
    BY <1>2, <1>6 DEF Newest
  <2>2. /\ Len(a) = l + 1 - 0 /\ a[l + 1 - 0] = e
        /\ \A i \in 1..(l - 0) : a[i] = q[i + 0]
    BY <1>1, <1>2
  <2>3. 0 \in 0..l
    BY <1>1
  <2> HIDE DEF l
  <2> QED
    BY <1>3, <1>4, <2>1, <2>2, <2>3 DEF l
<1> QED
  BY <1>5, <1>6

(* The event a status update or a provider makes, and what follows: a new  *)
(* number, larger than all; `started` for a pending entry only.            *)
LEMMA PushKeepsStream ==
  ASSUME NEW d \in Seq(Event), NEW q \in Seq(Event), NEW n \in Nat \ {0}, NEW st, NEW s,
         NEW e \in Event, st \in Active, StreamOf(d, q, n, st), e.sequence = n,
         \/ st = "pending" /\ s = "running" /\ e.kind = "started"
         \/ s \in Terminal /\ e.kind = s
         \/ st = "running" /\ s = "running" /\ e.kind = "outputDelta"
  PROVE  StreamOf(d, PushEvent(q, e), PushSeq(q, e), s)
<1> DEFINE r == PushEvent(q, e)
<1>0. /\ s \in Terminal \cup {"running"} /\ st # "absent"
      /\ \A x \in Terminal : x \notin {"started", "outputDelta", "pending", "running", "absent"}
      /\ r \in Seq(Event) /\ Len(d) \in Nat /\ Len(q) \in Nat
  BY PushEventType, SMTT(30) DEF Terminal, Active
<1>1. CASE Coalesces(q, e)
  <2>1. /\ e.kind = "outputDelta" /\ PushSeq(q, e) = n
        /\ q # <<>> /\ Len(r) = Len(q) /\ r # <<>>
        /\ \A i \in 1..Len(q) : r[i].sequence = q[i].sequence /\ r[i].kind = q[i].kind
    <3>1. /\ e.kind = "outputDelta" /\ PushSeq(q, e) = e.sequence
          /\ q # <<>> /\ Len(r) = Len(q)
          /\ \A i \in 1..Len(q) : r[i].sequence = q[i].sequence /\ r[i].kind = q[i].kind
      BY <1>1, PushEventFacts
    <3> HIDE DEF r
    <3>2. r # <<>>
      BY <1>0, <3>1
    <3> QED
      BY <3>1, <3>2
  <2>2. st = "running" /\ s = "running"
    BY <1>0, <2>1
  <2> HIDE DEF r
  <2>3. StreamOf(d, r, n, s)
    BY <2>1, <2>2 DEF StreamOf, Active, Terminal
  <2> QED
    BY <2>1, <2>3 DEF r
<1>2. CASE ~Coalesces(q, e)
  <2>1. /\ PushSeq(q, e) = n + 1
        /\ \E k \in 0..Len(q) : /\ Len(r) = Len(q) + 1 - k
                                /\ r[Len(q) + 1 - k] = e
                                /\ \A i \in 1..(Len(q) - k) : r[i] = q[i + k]
    BY <1>2, PushEventAppends
  <2> HIDE DEF r
  <2>2. PICK k \in 0..Len(q) : /\ Len(r) = Len(q) + 1 - k
                               /\ r[Len(q) + 1 - k] = e
                               /\ \A i \in 1..(Len(q) - k) : r[i] = q[i + k]
    BY <2>1
  <2> DEFINE m == Len(q) + 1 - k
  <2>3. /\ m \in Nat \ {0} /\ Len(r) = m /\ r[m] = e /\ r # <<>>
        /\ \A i \in 1..m : i # m => i + k \in 1..Len(q) /\ r[i] = q[i + k]
    <3>1. m \in Nat \ {0} /\ Len(r) = m /\ r[m] = e
      BY <1>0, <2>2
    <3>2. r # <<>>
      BY <3>1
    <3>3. ASSUME NEW i \in 1..m, i # m
          PROVE  i + k \in 1..Len(q) /\ r[i] = q[i + k]
      <4>0. Len(q) \in Nat /\ k \in Nat /\ i \in Nat \ {0}
        BY <1>0
      <4>1. i <= Len(q) - k
        BY <3>3, <4>0
      <4>2. i \in 1..(Len(q) - k)
        BY <4>0, <4>1
      <4>3. i + k \in 1..Len(q)
        BY <4>0, <4>1
      <4> QED
        BY <2>2, <4>1
    <3> QED
      BY <3>1, <3>2, <3>3
  <2> HIDE DEF m
  <2>4. /\ \A i \in 1..Len(d) : d[i].sequence < n /\ d[i].kind \notin Terminal
        /\ \A i \in 1..Len(q) : q[i].sequence < n /\ q[i].kind \notin Terminal
    BY <1>0 DEF StreamOf
  <2>5. /\ \A i \in 1..Len(d) : d[i].sequence \in Nat
        /\ \A i \in 1..Len(q) : q[i].sequence \in Nat
        /\ \A i \in 1..Len(r) : r[i].sequence \in Nat
    <3>1. \A x \in Event : x.sequence \in Nat
      BY DEF Event
    <3>2. /\ \A i \in 1..Len(d) : d[i] \in Event
          /\ \A i \in 1..Len(q) : q[i] \in Event
          /\ \A i \in 1..Len(r) : r[i] \in Event
      BY <1>0
    <3> QED
      BY <3>1, <3>2
  <2>6. \A i, j \in 1..Len(r) : i < j => r[i].sequence < r[j].sequence
    <3>1. SUFFICES ASSUME NEW i \in 1..m, NEW j \in 1..m, i < j
                   PROVE  r[i].sequence < r[j].sequence
      BY <2>3
    <3>2. i # m /\ i + k \in 1..Len(q) /\ r[i] = q[i + k]
      BY <2>3, <3>1
    <3>3. CASE j = m
      BY <2>3, <2>4, <3>2, <3>3
    <3>4. CASE j # m
      <4>1. j + k \in 1..Len(q) /\ r[j] = q[j + k] /\ i + k < j + k
        BY <2>2, <2>3, <3>1, <3>4
      <4> QED
        BY <3>2, <4>1 DEF StreamOf
    <3> QED
      BY <3>3, <3>4
  <2>7. \A i \in 1..Len(d), j \in 1..Len(r) : d[i].sequence < r[j].sequence
    BY <2>3, <2>4 DEF StreamOf
  <2>8. \A i \in 1..Len(r) : r[i].kind = "started" => r[i].sequence = 1
    <3>1. e.kind = "started" => e.sequence = 1
      BY <1>0 DEF StreamOf
    <3> QED
      BY <2>3, <3>1 DEF StreamOf
  <2>9. \A i \in 1..Len(r) : r[i].kind \in Terminal => i = Len(r) /\ e.kind \in Terminal
    BY <2>3, <2>4
  <2>10. ASSUME NEW i \in 1..Len(r)
         PROVE  r[i].sequence < n + 1
    <3>1. r[i].sequence \in Nat
      BY <2>5
    <3>2. CASE i = m
      BY <2>3, <3>2
    <3>3. CASE i # m
      <4>1. r[i].sequence < n
        BY <2>3, <2>4, <3>3
      <4> QED
        BY <3>1, <4>1
    <3> QED
      BY <3>2, <3>3
  <2>11. \A i \in 1..Len(d) : d[i].sequence < n + 1
    BY <2>4, <2>5, SMTT(30)
  <2>12. s \in Active => e.kind \notin Terminal
    BY <1>0 DEF Active
  <2>13. StreamOf(d, r, n + 1, s)
    BY <1>0, <2>3, <2>4, <2>6, <2>7, <2>8, <2>9, <2>10, <2>11, <2>12 DEF StreamOf
  <2> QED
    BY <2>1, <2>13 DEF r
<1> QED
  BY <1>1, <1>2

(* A drain moves what is queued to what was delivered.                     *)
LEMMA DrainKeepsStream ==
  ASSUME NEW d \in Seq(Event), NEW q \in Seq(Event), NEW n \in Nat, NEW st,
         StreamOf(d, q, n, st)
  PROVE  StreamOf(d \o q, <<>>, n, st)
<1> DEFINE c == d \o q
           l == Len(d)
<1>1. /\ c \in Seq(Event) /\ Len(c) = l + Len(q) /\ l \in Nat /\ Len(q) \in Nat
      /\ \A i \in 1..Len(c) : c[i] = IF i <= l THEN d[i] ELSE q[i - l]
      /\ c = <<>> <=> (d = <<>> /\ q = <<>>)
  OBVIOUS
<1>2. \A i \in 1..Len(c) : i > l => i - l \in 1..Len(q) /\ c[i] = q[i - l]
  BY <1>1
<1>3. \A i \in 1..Len(c) : i <= l => i \in 1..Len(d) /\ c[i] = d[i]
  BY <1>1
<1> HIDE DEF c
<1>4. \A i, j \in 1..Len(c) : i < j => c[i].sequence < c[j].sequence
  <2>1. SUFFICES ASSUME NEW i \in 1..Len(c), NEW j \in 1..Len(c), i < j
                 PROVE  c[i].sequence < c[j].sequence
    OBVIOUS
  <2>2. CASE j <= l
    BY <1>1, <1>3, <2>1, <2>2, SMTT(30) DEF StreamOf
  <2>3. CASE i <= l /\ j > l
    BY <1>1, <1>2, <1>3, <2>1, <2>3 DEF StreamOf
  <2>4. CASE i > l /\ j > l
    <3>1. i - l < j - l
      BY <1>1, <2>1
    <3> QED
      BY <1>2, <2>4, <3>1 DEF StreamOf
  <2> QED
    BY <1>1, <2>1, <2>2, <2>3, <2>4
<1>5. \A i \in 1..Len(c) : \/ i \in 1..Len(d) /\ c[i] = d[i]
                           \/ \E j \in 1..Len(q) : i = j + l /\ c[i] = q[j]
  BY <1>1, <1>2, <1>3
<1>6. ASSUME NEW i \in 1..Len(c), c[i].kind \in Terminal
      PROVE  i = Len(c)
  <2>1. CASE i \in 1..Len(d) /\ c[i] = d[i]
    <3>1. i = Len(d) /\ q = <<>>
      BY <1>6, <2>1 DEF StreamOf
    <3> QED
      BY <1>1, <3>1
  <2>2. ASSUME NEW j \in 1..Len(q), i = j + l, c[i] = q[j]
        PROVE  i = Len(c)
    <3>1. j = Len(q)
      BY <1>6, <2>2 DEF StreamOf
    <3> QED
      BY <1>1, <2>2, <3>1
  <2> QED
    BY <1>5, <2>1, <2>2
<1>7. /\ q # <<>> => c # <<>> /\ c[Len(c)] = q[Len(q)]
      /\ q = <<>> => c = d
  BY <1>1, <1>2 DEF c
<1>8. st = "pending" => c = <<>> /\ n = 1
  BY <1>1 DEF StreamOf
<1>9. \A i \in 1..Len(c) : c[i].kind = "started" => c[i].sequence = 1
  BY <1>5, ZenonT(40) DEF StreamOf
<1>10. st # "absent" => \A i \in 1..Len(c) : c[i].sequence < n
  BY <1>5 DEF StreamOf
<1>11. st \in Active => \A i \in 1..Len(c) : c[i].kind \notin Terminal
  BY <1>5 DEF StreamOf
<1>12. st \in Terminal => c # <<>> /\ c[Len(c)].kind = st
  BY <1>7 DEF StreamOf
<1>13. StreamOf(c, <<>>, n, st)
  <2>1. \A i \in 1..Len(<<>>) : FALSE
    OBVIOUS
  <2> QED
    BY <1>4, <1>6, <1>8, <1>9, <1>10, <1>11, <1>12, <2>1 DEF StreamOf
<1> QED
  BY <1>13 DEF c

(* A removed entry leaves the events that were delivered.                  *)
LEMMA RemoveKeepsStream ==
  ASSUME NEW d \in Seq(Event), NEW q, NEW n, NEW st, StreamOf(d, q, n, st)
  PROVE  StreamOf(d, <<>>, 1, "absent")
BY DEF StreamOf, Active, Terminal

(* A fresh entry has no events.                                            *)
LEMMA FreshStream == StreamOf(<<>>, <<>>, 1, "pending")
BY DEF StreamOf, Active, Terminal

(* update keeps every stream in order, also those of entries it evicts.    *)
LEMMA UpdateStream ==
  ASSUME TypeOK, StreamTracked, NEW h \in Handles,
         NEW s \in Terminal \cup {"running"}, Update(h, s),
         s = "running" => status[h] # "running", UNCHANGED delivered,
         NEW k \in Handles
  PROVE  StreamOf(delivered[k], events[k], nextSeq[k], status[k])'
<1>1. CASE UNCHANGED registryVars
  BY <1>1 DEF registryVars, StreamTracked
<1>2. CASE status[h] \in Active /\ UpdateActive(h, s)
  <2> DEFINE e == StatusEvent(h, s)
             gone == Evicted(IF s \in Terminal THEN Append(terminalOrder, h)
                                               ELSE terminalOrder)
  <2>1. /\ status'[k] = IF k \in gone THEN "absent" ELSE IF k = h THEN s ELSE status[k]
        /\ events'[k] = IF k \in gone THEN <<>>
                        ELSE IF k = h THEN PushEvent(events[h], e) ELSE events[k]
        /\ nextSeq'[k] = IF k \in gone THEN 1
                         ELSE IF k = h THEN PushSeq(events[h], e) ELSE nextSeq[k]
    BY <1>2 DEF UpdateActive
  <2>2. /\ e \in Event /\ e.sequence = nextSeq[h]
        /\ e.kind = IF s = "running" THEN "started" ELSE s
    BY MadeEvents DEF StatusEvent
  <2> HIDE DEF e, gone
  <2>3. /\ StreamOf(delivered[k], events[k], nextSeq[k], status[k])
        /\ delivered[k] \in Seq(Event) /\ events[k] \in Seq(Event)
        /\ nextSeq[k] \in Nat \ {0} /\ delivered' = delivered
    BY DEF StreamTracked, TypeOK
  <2>4. CASE k \in gone
    <3>1. StreamOf(delivered[k], <<>>, 1, "absent")
      BY <2>3, RemoveKeepsStream
    <3> QED
      BY <2>1, <2>3, <2>4, <3>1
  <2>5. CASE k \notin gone /\ k = h
    <3>1. \/ status[h] = "pending" /\ s = "running" /\ e.kind = "started"
          \/ s \in Terminal /\ e.kind = s
      BY <1>2, <2>2 DEF Active, Terminal
    <3>2. StreamOf(delivered[h], PushEvent(events[h], e), PushSeq(events[h], e), s)
      BY <1>2, <2>2, <2>3, <2>5, <3>1, PushKeepsStream
    <3> QED
      BY <2>1, <2>3, <2>5, <3>2
  <2>6. CASE k \notin gone /\ k # h
    BY <2>1, <2>3, <2>6
  <2> QED
    BY <2>4, <2>5, <2>6
<1> QED
  BY <1>1, <1>2 DEF Update

(* Every action keeps the streams in order.                                *)
LEMMA NextStream == IInv /\ StreamTracked /\ [Next]_vars => StreamTracked'
<1> SUFFICES ASSUME IInv, StreamTracked, [Next]_vars PROVE StreamTracked'
  OBVIOUS
<1>0. TypeOK /\ TaskTracked
  BY DEF IInv
<1> USE <1>0
<1>1. CASE StartInvoke
  <2>1. /\ nextHandle \in Handles /\ nextHandle' = nextHandle + 1
        /\ status' = [status EXCEPT ![nextHandle] = "pending"]
        /\ events' = [events EXCEPT ![nextHandle] = <<>>]
        /\ nextSeq' = [nextSeq EXCEPT ![nextHandle] = 1]
        /\ task' = [task EXCEPT ![nextHandle] = "queued"]
        /\ UNCHANGED delivered
    BY <1>1 DEF StartInvoke, Insert
  <2>2. /\ delivered[nextHandle] = <<>>
        /\ \A h \in Handles : h >= nextHandle + 1 => h >= nextHandle
    BY <2>1 DEF StreamTracked, Handles
  <2>3. ASSUME NEW k \in Handles
        PROVE  StreamOf(delivered[k], events[k], nextSeq[k], status[k])'
    BY <2>1, <2>2, FreshStream DEF StreamTracked, TypeOK
  <2> QED
    BY <2>1, <2>2, <2>3 DEF StreamTracked, TypeOK
<1>2. CASE \/ StartBackpressure \/ StartRefused \/ StartSpawnFails
           \/ DropRuntime \/ WorkerExit
  <2>1. UNCHANGED <<registryVars, task, delivered>>
    BY <1>2 DEF StartBackpressure, StartRefused, StartSpawnFails, DropRuntime, WorkerExit
  <2>2. nextHandle' \in {nextHandle, nextHandle + 1} /\ nextHandle \in Nat
    BY <1>2 DEF StartBackpressure, StartRefused, StartSpawnFails, DropRuntime,
                WorkerExit, TypeOK
  <2>3. \A h \in Handles : h >= nextHandle' => h >= nextHandle
    BY <2>2 DEF Handles
  <2> QED
    BY <2>1, <2>3 DEF StreamTracked, registryVars
<1>3. ASSUME NEW h \in Handles, CancelLookup(h) \/ CancelSignal(h)
      PROVE  StreamTracked'
  BY <1>3 DEF CancelLookup, CancelSignal, StreamTracked, registryVars
<1>4. ASSUME NEW h \in Handles, CancelMark(h)
      PROVE  StreamTracked'
  <2>1. /\ Update(h, "cancelled") /\ "cancelled" \in Terminal
        /\ UNCHANGED <<delivered, task, nextHandle>>
    BY <1>4 DEF CancelMark, Terminal
  <2>2. \A k \in Handles : StreamOf(delivered[k], events[k], nextSeq[k], status[k])'
    BY <2>1, UpdateStream
  <2>3. \A k \in Handles : status'[k] \in {status[k], "cancelled", "absent"}
    BY <2>1, UpdateStatus
  <2> QED
    BY <2>1, <2>2, <2>3 DEF StreamTracked
<1>5. ASSUME NEW h \in Handles, DrainEvents(h)
      PROVE  StreamTracked'
  <2>1. /\ delivered' = [delivered EXCEPT ![h] = @ \o events[h]]
        /\ events' = [events EXCEPT ![h] = <<>>]
        /\ UNCHANGED <<status, nextSeq, task, nextHandle>> /\ status[h] # "absent"
    BY <1>5 DEF DrainEvents
  <2>2. ~(h >= nextHandle)
    BY <2>1 DEF TaskTracked
  <2>3. StreamOf(delivered[h] \o events[h], <<>>, nextSeq[h], status[h])
    BY DrainKeepsStream DEF StreamTracked, TypeOK
  <2>4. \A k \in Handles : StreamOf(delivered[k], events[k], nextSeq[k], status[k])'
    BY <2>1, <2>3 DEF StreamTracked, TypeOK
  <2> QED
    BY <2>1, <2>2, <2>4 DEF StreamTracked, TypeOK
<1>6. ASSUME NEW h \in Handles, TakeInvocation(h)
      PROVE  StreamTracked'
  <2>1. /\ status' = [status EXCEPT ![h] = "absent"]
        /\ events' = [events EXCEPT ![h] = <<>>]
        /\ nextSeq' = [nextSeq EXCEPT ![h] = 1]
        /\ UNCHANGED <<delivered, task, nextHandle>>
    BY <1>6 DEF TakeInvocation, Remove
  <2>2. StreamOf(delivered[h], <<>>, 1, "absent")
    BY RemoveKeepsStream DEF StreamTracked, TypeOK
  <2>3. \A k \in Handles : StreamOf(delivered[k], events[k], nextSeq[k], status[k])'
    BY <2>1, <2>2 DEF StreamTracked, TypeOK
  <2> QED
    BY <2>1, <2>3 DEF StreamTracked, TypeOK
<1>7. CASE WorkerReceive
  <2>1. /\ task' = [task EXCEPT ![Head(queue)] = "spawned"]
        /\ UNCHANGED <<registryVars, delivered, nextHandle>>
    BY <1>7 DEF WorkerReceive
  <2>2. task[Head(queue)] = "queued" /\ Head(queue) \in Handles
    BY <1>7, ChannelElements DEF WorkerReceive, TaskTracked, TypeOK
  <2> QED
    BY <2>1, <2>2 DEF StreamTracked, registryVars, TypeOK
<1>8. ASSUME NEW h \in Handles, TaskBegin(h)
      PROVE  StreamTracked'
  <2>1. /\ Update(h, "running") /\ task[h] = "spawned"
        /\ task' = [task EXCEPT ![h] = "invoking"]
        /\ UNCHANGED <<delivered, nextHandle>>
    BY <1>8 DEF TaskBegin
  <2>2. status[h] # "running"
    BY <2>1 DEF StreamTracked
  <2>3. \A k \in Handles : StreamOf(delivered[k], events[k], nextSeq[k], status[k])'
    BY <2>1, <2>2, UpdateStream
  <2>4. \A k \in Handles \ {h} : status'[k] \in {status[k], "absent"}
    BY <2>1, UpdateStatus
  <2> QED
    BY <2>1, <2>3, <2>4 DEF StreamTracked, TypeOK
<1>9. ASSUME NEW h \in Handles, NEW s \in Terminal, TaskEnd(h, s)
      PROVE  StreamTracked'
  <2>1. /\ Update(h, s) /\ task' = [task EXCEPT ![h] = "done"] /\ s # "running"
        /\ UNCHANGED <<delivered, nextHandle>>
    BY <1>9 DEF TaskEnd, Terminal
  <2>2. \A k \in Handles : StreamOf(delivered[k], events[k], nextSeq[k], status[k])'
    BY <2>1, UpdateStream
  <2>3. /\ \A k \in Handles \ {h} : status'[k] \in {status[k], "absent"}
        /\ status'[h] \notin Active
    BY <2>1, UpdateStatus
  <2> QED
    BY <2>1, <2>2, <2>3 DEF StreamTracked, TypeOK, Active
<1>10. ASSUME NEW h \in Handles, NEW f \in Forms, AcceptDelta(h, f)
       PROVE  StreamTracked'
  <2> DEFINE e == DeltaEvent(h, f)
  <2>1. /\ events' = [events EXCEPT ![h] = PushEvent(events[h], e)]
        /\ nextSeq' = [nextSeq EXCEPT ![h] = PushSeq(events[h], e)]
        /\ status[h] = "running"
        /\ UNCHANGED <<status, delivered, task, nextHandle>>
    BY <1>10 DEF AcceptDelta
  <2>2. e \in Event /\ e.sequence = nextSeq[h] /\ e.kind = "outputDelta"
    BY MadeEvents DEF DeltaEvent
  <2> HIDE DEF e
  <2>3. StreamOf(delivered[h], PushEvent(events[h], e), PushSeq(events[h], e), "running")
    BY <2>1, <2>2, PushKeepsStream DEF StreamTracked, TypeOK, Active
  <2>4. \A k \in Handles : StreamOf(delivered[k], events[k], nextSeq[k], status[k])'
    BY <2>1, <2>3 DEF StreamTracked, TypeOK
  <2> QED
    BY <2>1, <2>4 DEF StreamTracked
<1>11. CASE UNCHANGED vars
  BY <1>11 DEF vars, registryVars, StreamTracked
<1>12. CASE WorkerBuildFails
  <2>1. /\ \A h \in Handles : task[h] \in {"none", "queued"}
        /\ UNCHANGED <<registryVars, delivered, nextHandle>>
    BY <1>12 DEF WorkerBuildFails
  <2> QED
    BY <2>1 DEF StreamTracked, registryVars
<1>13. ASSUME NEW h \in Handles, TaskPanic(h)
       PROVE  StreamTracked'
  BY <1>13 DEF TaskPanic, StreamTracked, registryVars, TypeOK
<1> QED
  BY <1>1, <1>2, <1>3, <1>4, <1>5, <1>6, <1>7, <1>8, <1>9, <1>10, <1>11, <1>12, <1>13
     DEF Next, Application, WorkerStep, Provider, Stopped, IgnoreDelta

LEMMA StreamInvariance == Spec => []StreamTracked
<1>1. Init => StreamTracked
  BY DEF Init, StreamTracked, StreamOf, Active, Terminal
<1> QED
  BY <1>1, NextStream, Invariance, PTL DEF Spec

(* What StreamOf says of the delivered and the queued events, said of the  *)
(* two together.                                                           *)
LEMMA WholeStream ==
  ASSUME TypeOK, StreamTracked, NEW h \in Handles
  PROVE  /\ Stream(h) \in Seq(Event)
         /\ StreamOf(Stream(h), <<>>, nextSeq[h], status[h])
BY DrainKeepsStream DEF StreamTracked, TypeOK, Stream

(* Numbers increase over all drains, `started` is number 1 and a terminal  *)
(* event is the last, whatever is coalesced, trimmed, cancelled or late.   *)
THEOREM StreamsAreOrdered == Spec => []StreamOrdered
<1>1. TypeOK /\ StreamTracked => StreamOrdered
  <2> SUFFICES ASSUME TypeOK, StreamTracked, NEW h \in Handles
               PROVE  LET s == Stream(h) IN
                      /\ \A i \in 1..(Len(s) - 1) : s[i].sequence < s[i + 1].sequence
                      /\ \A i \in 1..Len(s) : s[i].kind = "started" => s[i].sequence = 1
                      /\ \A i \in 1..(Len(s) - 1) : s[i].kind \notin Terminal
    BY DEF StreamOrdered
  <2> DEFINE s == Stream(h)
  <2>1. s \in Seq(Event) /\ StreamOf(s, <<>>, nextSeq[h], status[h])
    BY WholeStream
  <2> HIDE DEF s
  <2>2. \A i \in 1..(Len(s) - 1) :
          i \in 1..Len(s) /\ i + 1 \in 1..Len(s) /\ i < i + 1 /\ i # Len(s)
    BY <2>1
  <2>3. \A i \in 1..(Len(s) - 1) : s[i].sequence < s[i + 1].sequence
    BY <2>1, <2>2 DEF StreamOf
  <2>4. \A i \in 1..(Len(s) - 1) : s[i].kind \notin Terminal
    BY <2>1, <2>2 DEF StreamOf
  <2>5. \A i \in 1..Len(s) : s[i].kind = "started" => s[i].sequence = 1
    BY <2>1 DEF StreamOf
  <2> QED
    BY <2>3, <2>4, <2>5 DEF s
<1> QED
  BY <1>1, RegistryTypes, StreamInvariance, PTL

(* The terminal event of a finished entry is in the stream and agrees with *)
(* its status: the bounded queue drops older events, never this one.       *)
THEOREM TerminalEventsAreKept == Spec => []TerminalEventKept
<1>1. TypeOK /\ StreamTracked => TerminalEventKept
  BY WholeStream DEF TerminalEventKept, StreamOf
<1> QED
  BY <1>1, RegistryTypes, StreamInvariance, PTL

-----------------------------------------------------------------------------
(* Deltas.  DeltasOf is the invariant of one stream s with the number m of *)
(* deltas accepted so far: any part of s that starts at 1 without gap is   *)
(* complete, and if nothing at all was lost it holds every delta.  That a  *)
(* loss shows for good follows from event i having a number of at least i: *)
(* an event that overflow moved forward has one that is too large.         *)

Covered(s, j, u) == \E i \in 1..j : u \in Elements(s[i].units)

GapFree(s, j) == \A i \in 1..j : s[i].sequence = i

DeltasOf(s, n, m, st) ==
  /\ \A i \in 1..Len(s) : \A a, b \in 1..Len(s[i].units) :
       a < b => s[i].units[a] < s[i].units[b]
  /\ \A i, j \in 1..Len(s) : i < j =>
       \A u \in Elements(s[i].units), v \in Elements(s[j].units) : u < v
  /\ \A i \in 1..Len(s) : \A u \in Elements(s[i].units) : u <= m
  /\ \A i \in 1..Len(s) : s[i].sequence >= i
  /\ \A j \in 1..Len(s) : GapFree(s, j) =>
       \A u \in Elements(s[j].units) : \A v \in 1..u : Covered(s, j, v)
  /\ st # "absent" =>
       /\ n > Len(s)
       /\ n = Len(s) + 1 /\ GapFree(s, Len(s)) => \A v \in 1..m : Covered(s, Len(s), v)

(* ... and the last event of the queue has the last number                 *)
DeltasAt(h) ==
  /\ DeltasOf(delivered[h] \o events[h], nextSeq[h], emitted[h], status[h])
  /\ status[h] # "absent" /\ events[h] # <<>> =>
       events[h][Len(events[h])].sequence = nextSeq[h] - 1

DeltasTracked ==
  /\ \A h \in Handles : DeltasAt(h)
  /\ \A h \in Handles : h >= nextHandle => emitted[h] = 0

(* The numbers in an event.                                                *)
LEMMA EventNumbers ==
  ASSUME NEW x \in Event
  PROVE  x.sequence \in Nat /\ \A u \in Elements(x.units) : u \in Nat
<1>1. x.sequence \in Nat /\ x.units \in Seq(Nat \ {0})
  BY DEF Event
<1>2. \A i \in 1..Len(x.units) : x.units[i] \in Nat
  BY <1>1
<1> QED
  BY <1>1, <1>2 DEF Elements

(* Appending an event numbered n to a stream, after k of its events beyond *)
(* the first l were dropped.                                               *)
LEMMA AppendKeepsDeltas ==
  ASSUME NEW s \in Seq(Event), NEW t \in Seq(Event), NEW e \in Event,
         NEW n \in Nat, NEW m \in Nat, NEW m1 \in Nat, NEW st, NEW st1,
         NEW l \in 0..Len(s), NEW k \in 0..(Len(s) - l),
         DeltasOf(s, n, m, st), st # "absent",
         Len(t) = Len(s) + 1 - k, t[Len(s) + 1 - k] = e, e.sequence = n,
         \A i \in 1..(Len(s) - k) : t[i] = IF i <= l THEN s[i] ELSE s[i + k],
         \/ e.units = <<m + 1>> /\ m1 = m + 1
         \/ e.units = <<>> /\ m1 = m
  PROVE  DeltasOf(t, n + 1, m1, st1)
<1> DEFINE L == Len(s)
           T == Len(t)
           g(i) == IF i <= l THEN i ELSE i + k
<1>0. L \in Nat /\ T \in Nat \ {0} /\ T = L + 1 - k /\ t[T] = e
  OBVIOUS
<1>1. \A i \in 1..T : i # T =>
        i \in 1..(L - k) /\ g(i) \in 1..L /\ g(i) >= i /\ t[i] = s[g(i)]
  BY SMTT(30)
<1>2. \A i, j \in 1..T : i < j => g(i) < g(j)
  OBVIOUS
<1>3. /\ \A i \in 1..L : s[i].sequence \in Nat
      /\ \A i \in 1..L : \A u \in Elements(s[i].units) : u \in Nat
  BY EventNumbers, SMTT(30)
<1>4. /\ \A u \in Elements(e.units) : u = m + 1 /\ m1 = m + 1
      /\ \A a, b \in 1..Len(e.units) : ~(a < b)
      /\ m1 = m + 1 => m + 1 \in Elements(e.units)
  <2>1. CASE e.units = <<m + 1>> /\ m1 = m + 1
    BY <2>1 DEF Elements
  <2>2. CASE e.units = <<>> /\ m1 = m
    BY <2>2 DEF Elements
  <2> QED
    BY <2>1, <2>2
<1>5. k = 0 => L = T - 1 /\ \A i \in 1..L : t[i] = s[i]
  OBVIOUS
<1>6. n > L /\ n \in Nat
  BY DEF DeltasOf
<1> HIDE DEF L, T, g
<1>7. \A i \in 1..T : \A a, b \in 1..Len(t[i].units) :
        a < b => t[i].units[a] < t[i].units[b]
  BY <1>0, <1>1, <1>4 DEF DeltasOf, L
<1>8. \A i, j \in 1..T : i < j =>
        \A u \in Elements(t[i].units), v \in Elements(t[j].units) : u < v
  <2> SUFFICES ASSUME NEW i \in 1..T, NEW j \in 1..T, i < j,
                      NEW u \in Elements(t[i].units), NEW v \in Elements(t[j].units)
               PROVE  u < v
    OBVIOUS
  <2>1. i # T /\ g(i) \in 1..L /\ t[i] = s[g(i)]
    BY <1>0, <1>1, SMTT(30)
  <2>2. CASE j = T
    <3>1. u \in Nat /\ u <= m /\ v = m + 1
      BY <1>0, <1>3, <1>4, <2>1, <2>2 DEF DeltasOf, L
    <3> QED
      BY <3>1
  <2>3. CASE j # T
    BY <1>1, <1>2, <2>1, <2>3 DEF DeltasOf, L
  <2> QED
    BY <2>2, <2>3
<1>9. \A i \in 1..T : \A u \in Elements(t[i].units) : u <= m1
  <2> SUFFICES ASSUME NEW i \in 1..T, NEW u \in Elements(t[i].units) PROVE u <= m1
    OBVIOUS
  <2>1. CASE i = T
    <3>1. u = m + 1 /\ m1 = m + 1
      BY <1>0, <1>4, <2>1
    <3> QED
      BY <3>1
  <2>2. CASE i # T
    <3>1. u \in Nat /\ u <= m
      BY <1>1, <1>3, <2>2 DEF DeltasOf, L
    <3>2. m <= m1
      OBVIOUS
    <3> QED
      BY <3>1, <3>2
  <2> QED
    BY <2>1, <2>2
<1>10. \A i \in 1..T : t[i].sequence >= i
  <2> SUFFICES ASSUME NEW i \in 1..T PROVE t[i].sequence >= i
    OBVIOUS
  <2>1. CASE i = T
    BY <1>0, <1>6, <2>1
  <2>2. CASE i # T
    <3>1. /\ t[i] = s[g(i)] /\ g(i) \in 1..L /\ g(i) >= i
          /\ s[g(i)].sequence \in Nat /\ s[g(i)].sequence >= g(i)
      BY <1>1, <1>3, <2>2 DEF DeltasOf, L
    <3> QED
      BY <1>0, <3>1, SMTT(30)
  <2> QED
    BY <2>1, <2>2
(* a stream without gap up to the new event has lost nothing *)
<1>11. T = n => k = 0 /\ n = L + 1
  BY <1>0, <1>6
<1>12. ASSUME k = 0, n = L + 1, GapFree(t, T)
       PROVE  \A v \in 1..m1 : Covered(t, T, v)
  <2>1. GapFree(s, L)
    BY <1>0, <1>5, <1>12 DEF GapFree
  <2>2. \A v \in 1..m : Covered(s, L, v)
    BY <1>12, <2>1 DEF DeltasOf, L
  <2>3. ASSUME NEW v \in 1..m1
        PROVE  Covered(t, T, v)
    <3>1. CASE v \in 1..m
      <4>1. PICK i \in 1..L : v \in Elements(s[i].units)
        BY <2>2, <3>1 DEF Covered
      <4> QED
        BY <1>0, <1>5, <1>12, <4>1 DEF Covered
    <3>2. CASE v \notin 1..m
      <4>1. m1 = m + 1 /\ v = m + 1
        BY <3>2
      <4> QED
        BY <1>0, <1>4, <4>1 DEF Covered
    <3> QED
      BY <3>1, <3>2
  <2> QED
    BY <2>3
<1>13. ASSUME NEW j \in 1..T, GapFree(t, j), NEW u \in Elements(t[j].units), NEW v \in 1..u
       PROVE  Covered(t, j, v)
  <2>1. CASE j = T
    <3>1. T = n /\ u = m + 1 /\ m1 = m + 1
      BY <1>0, <1>4, <1>13, <2>1 DEF GapFree
    <3> QED
      BY <1>11, <1>12, <1>13, <2>1, <3>1
  <2>2. CASE j # T /\ (k = 0 \/ j <= l)
    <3>1. j \in 1..L /\ \A i \in 1..j : t[i] = s[i] /\ i \in 1..L
      BY <1>0, <1>1, <1>5, <2>2, SMTT(30) DEF g
    <3>2. GapFree(s, j)
      BY <1>13, <3>1 DEF GapFree
    <3>3. Covered(s, j, v)
      BY <1>13, <3>1, <3>2, SMTT(30) DEF DeltasOf, L
    <3> QED
      BY <3>1, <3>3 DEF Covered
  <2>3. CASE j # T /\ k # 0 /\ ~(j <= l)
    <3>1. g(j) = j + k /\ g(j) \in 1..L /\ t[j] = s[g(j)]
      BY <1>1, <2>3 DEF g
    <3>2. s[g(j)].sequence >= g(j) /\ t[j].sequence = j
      BY <1>13, <3>1, SMTT(30) DEF DeltasOf, GapFree, L
    <3> QED
      BY <2>3, <3>1, <3>2
  <2> QED
    BY <2>1, <2>2, <2>3
<1>14. n + 1 > T
  BY <1>0, <1>6
<1>15. n + 1 = T + 1 /\ GapFree(t, T) => \A v \in 1..m1 : Covered(t, T, v)
  BY <1>0, <1>6, <1>11, <1>12
<1> QED
  BY <1>7, <1>8, <1>9, <1>10, <1>13, <1>14, <1>15 DEF DeltasOf, T

(* A sequence with one more element.                                       *)
LEMMA OneMore ==
  ASSUME NEW S, NEW q \in Seq(S), NEW x \in S
  PROVE  /\ Len(q \o <<x>>) = Len(q) + 1 /\ Len(q) \in Nat
         /\ (q \o <<x>>)[Len(q) + 1] = x
         /\ \A a \in 1..Len(q) : (q \o <<x>>)[a] = q[a]
         /\ \A a \in 1..Len(q \o <<x>>) : a # Len(q) + 1 => a \in 1..Len(q)
OBVIOUS

(* Extending the last event, which has the last number, by the next delta. *)
LEMMA ExtendKeepsDeltas ==
  ASSUME NEW s \in Seq(Event), NEW t \in Seq(Event),
         NEW n \in Nat, NEW m \in Nat, NEW st, NEW st1,
         DeltasOf(s, n, m, st), st # "absent",
         Len(s) # 0, Len(t) = Len(s), \A i \in 1..(Len(s) - 1) : t[i] = s[i],
         t[Len(s)].sequence = s[Len(s)].sequence, s[Len(s)].sequence = n - 1,
         t[Len(s)].units = s[Len(s)].units \o <<m + 1>>
  PROVE  DeltasOf(t, n, m + 1, st1)
<1> DEFINE L == Len(s)
           su == s[L].units
           tu == t[L].units
<1>1. /\ L \in Nat \ {0} /\ L \in 1..L /\ Len(t) = L
      /\ \A i \in 1..L : i # L => t[i] = s[i]
  OBVIOUS
<1>2. /\ \A i \in 1..L : s[i].sequence \in Nat
      /\ \A i \in 1..L : \A u \in Elements(s[i].units) : u \in Nat
  BY EventNumbers
<1>3. su \in Seq(Nat \ {0}) /\ tu = su \o <<m + 1>>
  <2>1. s[L] \in Event
    BY <1>1
  <2> QED
    BY <2>1 DEF Event
<1>4. /\ Len(tu) = Len(su) + 1 /\ Len(su) \in Nat /\ tu[Len(su) + 1] = m + 1
      /\ \A a \in 1..Len(su) : tu[a] = su[a]
      /\ \A a \in 1..Len(tu) : a # Len(su) + 1 => a \in 1..Len(su)
  <2> HIDE DEF su, tu
  <2>1. m + 1 \in Nat \ {0}
    OBVIOUS
  <2> QED
    BY <1>3, <2>1, OneMore
<1>5. s[L].sequence = n - 1 /\ t[L].sequence = n - 1
  OBVIOUS
<1> HIDE DEF L
<1>6. Elements(t[L].units) = Elements(s[L].units) \cup {m + 1}
  <2> HIDE DEF su, tu
  <2>1. Elements(tu) \subseteq Elements(su) \cup {m + 1}
    BY <1>4 DEF Elements
  <2>2. Elements(su) \subseteq Elements(tu)
    <3>1. \A a \in 1..Len(su) : a \in 1..Len(tu)
      BY <1>4
    <3> QED
      BY <1>4, <3>1 DEF Elements
  <2>3. m + 1 \in Elements(tu)
    <3>1. Len(su) + 1 \in 1..Len(tu)
      BY <1>4
    <3> QED
      BY <1>4, <3>1 DEF Elements
  <2> QED
    BY <2>1, <2>2, <2>3 DEF su, tu
<1>7. /\ \A i \in 1..L : Elements(s[i].units) \subseteq Elements(t[i].units)
      /\ \A i \in 1..L : t[i].sequence = s[i].sequence
      /\ \A i \in 1..L : \A u \in Elements(t[i].units) :
           u \in Elements(s[i].units) \/ (i = L /\ u = m + 1)
  BY <1>1, <1>5, <1>6
<1>8. \A i \in 1..L : \A u \in Elements(s[i].units) : u \in Nat /\ u <= m
  BY <1>2 DEF DeltasOf, L
<1>9. \A i \in 1..L : \A a, b \in 1..Len(t[i].units) :
        a < b => t[i].units[a] < t[i].units[b]
  <2> SUFFICES ASSUME NEW i \in 1..L, NEW a \in 1..Len(t[i].units),
                      NEW b \in 1..Len(t[i].units), a < b
               PROVE  t[i].units[a] < t[i].units[b]
    OBVIOUS
  <2>1. CASE i # L
    BY <1>1, <2>1 DEF DeltasOf, L
  <2>2. CASE i = L
    <3> HIDE DEF su, tu
    <3>1. a \in 1..Len(su) /\ tu[a] = su[a]
      BY <1>4, <2>2, SMTT(30) DEF tu
    <3>2. CASE b = Len(su) + 1
      <4>1. su[a] \in Elements(s[L].units)
        BY <3>1 DEF Elements, su
      <4>2. su[a] \in Nat /\ su[a] <= m
        BY <1>1, <1>8, <4>1
      <4>3. tu[a] < m + 1
        BY <3>1, <4>2
      <4> QED
        BY <1>4, <2>2, <3>2, <4>3 DEF tu
    <3>3. CASE b # Len(su) + 1
      <4>1. b \in 1..Len(su) /\ tu[b] = su[b]
        BY <1>4, <2>2, <3>3 DEF tu
      <4>2. su[a] < su[b]
        BY <1>1, <3>1, <4>1 DEF DeltasOf, L, su
      <4> QED
        BY <2>2, <3>1, <4>1, <4>2 DEF tu
    <3> QED
      BY <3>2, <3>3
  <2> QED
    BY <2>1, <2>2
<1> HIDE DEF su, tu
<1>10. \A i, j \in 1..L : i < j =>
         \A u \in Elements(t[i].units), v \in Elements(t[j].units) : u < v
  <2> SUFFICES ASSUME NEW i \in 1..L, NEW j \in 1..L, i < j,
                      NEW u \in Elements(t[i].units), NEW v \in Elements(t[j].units)
               PROVE  u < v
    OBVIOUS
  <2>1. i # L
    BY <1>1
  <2>2. u \in Elements(s[i].units) /\ u \in Nat /\ u <= m
    BY <1>7, <1>8, <2>1
  <2>3. CASE v \in Elements(s[j].units)
    BY <2>2, <2>3 DEF DeltasOf, L
  <2>4. CASE v = m + 1
    BY <2>2, <2>4
  <2> QED
    BY <1>7, <2>3, <2>4
<1>11. \A i \in 1..L : \A u \in Elements(t[i].units) : u <= m + 1
  <2> SUFFICES ASSUME NEW i \in 1..L, NEW u \in Elements(t[i].units) PROVE u <= m + 1
    OBVIOUS
  <2>1. CASE u = m + 1
    BY <2>1
  <2>2. CASE u \in Elements(s[i].units)
    <3>1. u \in Nat /\ u <= m
      BY <1>8, <2>2
    <3> QED
      BY <3>1
  <2> QED
    BY <1>7, <2>1, <2>2
<1>12. \A i \in 1..L : t[i].sequence >= i
  BY <1>7 DEF DeltasOf, L
<1>13. \A j \in 1..L : GapFree(t, j) => GapFree(s, j)
  BY <1>1, <1>7 DEF GapFree
<1>14. ASSUME NEW j \in 1..L, NEW v, Covered(s, j, v)
       PROVE  Covered(t, j, v)
  <2>1. PICK i \in 1..j : v \in Elements(s[i].units)
    BY <1>14 DEF Covered
  <2>2. i \in 1..L
    BY <1>1
  <2>3. v \in Elements(t[i].units)
    BY <1>7, <2>1, <2>2
  <2> QED
    BY <2>3 DEF Covered
(* the last event has the last number: without gap nothing was lost *)
<1>15. ASSUME GapFree(t, L)
       PROVE  \A v \in 1..(m + 1) : Covered(t, L, v)
  <2>1. t[L].sequence = L
    BY <1>1, <1>15 DEF GapFree
  <2>2. n = L + 1
    BY <1>1, <1>5, <2>1
  <2>3. \A v \in 1..m : Covered(s, L, v)
    BY <1>1, <1>13, <1>15, <2>2 DEF DeltasOf, L
  <2>4. Covered(t, L, m + 1)
    BY <1>1, <1>6 DEF Covered
  <2>5. \A v \in 1..(m + 1) : v \in 1..m \/ v = m + 1
    OBVIOUS
  <2> QED
    BY <1>1, <1>14, <2>3, <2>4, <2>5
<1>16. ASSUME NEW j \in 1..L, GapFree(t, j), NEW u \in Elements(t[j].units), NEW v \in 1..u
       PROVE  Covered(t, j, v)
  <2>1. CASE u \in Elements(s[j].units)
    <3>1. Covered(s, j, v)
      BY <1>13, <1>16, <2>1 DEF DeltasOf, L
    <3> QED
      BY <1>14, <3>1
  <2>2. CASE j = L /\ u = m + 1
    BY <1>15, <1>16, <2>2
  <2> QED
    BY <1>7, <2>1, <2>2
<1>17. n > L
  BY DEF DeltasOf, L
<1>18. Len(t) = L
  BY <1>1
<1> QED
  BY <1>9, <1>10, <1>11, <1>12, <1>15, <1>16, <1>17, <1>18 DEF DeltasOf

(* What is left of a stream when the entry and its queue are removed.      *)
LEMMA PrefixKeepsDeltas ==
  ASSUME NEW d \in Seq(Event), NEW q \in Seq(Event), NEW n, NEW m, NEW st,
         DeltasOf(d \o q, n, m, st)
  PROVE  DeltasOf(d \o <<>>, 1, m, "absent")
<1>1. /\ d \o <<>> = d /\ Len(d) \in Nat
      /\ \A i \in 1..Len(d) : i \in 1..Len(d \o q) /\ (d \o q)[i] = d[i]
  OBVIOUS
<1> DEFINE s == d \o q
<1> HIDE DEF s
<1>2. \A i \in 1..Len(d) : i \in 1..Len(s) /\ s[i] = d[i]
  BY <1>1 DEF s
<1>3. DeltasOf(s, n, m, st)
  BY DEF s
<1>4. \A j \in 1..Len(d) : \A i \in 1..j : i \in 1..Len(d)
  BY <1>1
<1>5. \A j \in 1..Len(d) : /\ GapFree(d, j) <=> GapFree(s, j)
                           /\ \A v : Covered(s, j, v) <=> Covered(d, j, v)
  BY <1>2, <1>4 DEF GapFree, Covered
<1>6. DeltasOf(d, 1, m, "absent")
  BY <1>2, <1>3, <1>5 DEF DeltasOf
<1> QED
  BY <1>1, <1>6

(* The elements of two sequences in one.                                   *)
LEMMA Joined ==
  ASSUME NEW S, NEW a \in Seq(S), NEW b \in Seq(S)
  PROVE  /\ a \o b \in Seq(S) /\ Len(a \o b) = Len(a) + Len(b)
         /\ \A i \in 1..Len(a) : (a \o b)[i] = a[i]
         /\ \A i \in 1..Len(b) : (a \o b)[Len(a) + i] = b[i]
OBVIOUS

(* An accepted delta and a status event keep the stream of deltas honest.  *)
LEMMA PushKeepsDeltas ==
  ASSUME NEW d \in Seq(Event), NEW q \in Seq(Event), NEW e \in Event,
         NEW n \in Nat \ {0}, NEW m \in Nat, NEW m1 \in Nat, NEW st, NEW st1,
         st # "absent", DeltasOf(d \o q, n, m, st), e.sequence = n,
         q # <<>> => q[Len(q)].sequence = n - 1,
         \/ e.kind = "outputDelta" /\ e.units = <<m + 1>> /\ m1 = m + 1
         \/ e.kind # "outputDelta" /\ e.units = <<>> /\ m1 = m
  PROVE  /\ DeltasOf(d \o PushEvent(q, e), PushSeq(q, e), m1, st1)
         /\ PushEvent(q, e) # <<>>
         /\ PushEvent(q, e)[Len(PushEvent(q, e))].sequence = PushSeq(q, e) - 1
<1> DEFINE r == PushEvent(q, e)
           s == d \o q
           t == d \o r
           l == Len(d)
           z == Len(q)
<1>0. /\ r \in Seq(Event) /\ l \in Nat /\ z \in Nat
      /\ s \in Seq(Event) /\ Len(s) = l + z /\ t \in Seq(Event) /\ Len(t) = l + Len(r)
      /\ \A i \in 1..l : s[i] = d[i] /\ t[i] = d[i]
      /\ \A i \in 1..z : s[l + i] = q[i]
      /\ \A i \in 1..Len(r) : t[l + i] = r[i]
  <2>1. r \in Seq(Event)
    BY PushEventType
  <2> HIDE DEF r
  <2> QED
    BY <2>1, Joined
<1> HIDE DEF s, t
<1>1. CASE Coalesces(q, e)
  <2>1. /\ PushSeq(q, e) = n /\ m1 = m + 1 /\ q # <<>> /\ Len(r) = z
        /\ r[z].sequence = q[z].sequence
        /\ r[z].units = q[z].units \o <<m + 1>>
        /\ \A i \in 1..(z - 1) : r[i] = q[i]
    <3>1. z \in 1..z
      BY <1>1 DEF Coalesces
    <3>2. /\ e.kind = "outputDelta" /\ PushSeq(q, e) = e.sequence
          /\ q # <<>> /\ Len(r) = z
          /\ \A i \in 1..z : r[i].sequence = q[i].sequence
          /\ \A i \in 1..(z - 1) : r[i] = q[i]
          /\ r[z].units = q[z].units \o e.units
      BY <1>1, PushEventFacts
    <3>3. e.units = <<m + 1>> /\ m1 = m + 1
      BY <3>2
    <3> HIDE DEF z
    <3> QED
      BY <3>1, <3>2, <3>3
  <2> HIDE DEF r
  <2>2. z \in Nat \ {0} /\ l \in Nat
    BY <2>1
  <2>3. /\ s \in Seq(Event) /\ Len(s) = l + z /\ s[l + z] = q[z]
        /\ t \in Seq(Event) /\ Len(t) = l + z /\ t[l + z] = r[z]
    <3> HIDE DEF l, z
    <3>1. z \in 1..z /\ Len(r) = z
      BY <2>1, <2>2
    <3>2. s[l + z] = q[z]
      BY <1>0, <3>1
    <3>3. t[l + z] = r[z]
      BY <1>0, <3>1
    <3> QED
      BY <1>0, <3>1, <3>2, <3>3
  <2> HIDE DEF l, z
  <2>4. ASSUME NEW i \in 1..(l + z - 1)
        PROVE  t[i] = s[i]
    <3>1. CASE i <= l
      <4>1. i \in 1..l
        BY <2>2, <3>1
      <4> QED
        BY <1>0, <4>1
    <3>2. CASE i > l
      <4> DEFINE c == i - l
      <4>1. c \in 1..(z - 1) /\ c \in 1..z /\ i = l + c
        BY <2>2, <3>2
      <4> HIDE DEF c
      <4> QED
        BY <1>0, <2>1, <4>1
    <3> QED
      BY <2>2, <3>1, <3>2
  <2>5. DeltasOf(s, n, m, st)
    BY DEF s
  <2>6. Len(s) # 0 /\ s[Len(s)].sequence = n - 1
    BY <2>1, <2>2, <2>3 DEF z
  <2>7. DeltasOf(t, n, m + 1, st1)
    <3>1. /\ Len(t) = Len(s) /\ \A i \in 1..(Len(s) - 1) : t[i] = s[i]
          /\ t[Len(s)].sequence = s[Len(s)].sequence
          /\ t[Len(s)].units = s[Len(s)].units \o <<m + 1>>
      <4>1. /\ t[l + z].sequence = s[l + z].sequence
            /\ t[l + z].units = s[l + z].units \o <<m + 1>>
        BY <2>1, <2>3
      <4>2. Len(s) = l + z /\ Len(t) = l + z
        BY <2>3
      <4>3. \A i \in 1..(Len(s) - 1) : t[i] = s[i]
        BY <2>2, <2>4, <4>2
      <4> QED
        BY <4>1, <4>2, <4>3
    <3> QED
      BY <2>3, <2>5, <2>6, <3>1, ExtendKeepsDeltas
  <2>8. r # <<>> /\ r[Len(r)].sequence = n - 1
    BY <1>0, <2>1, <2>2 DEF z
  <2> QED
    BY <2>1, <2>7, <2>8 DEF r, t
<1>2. CASE ~Coalesces(q, e)
  <2>1. /\ PushSeq(q, e) = n + 1
        /\ \E k \in 0..z : /\ Len(r) = z + 1 - k
                           /\ r[z + 1 - k] = e
                           /\ \A i \in 1..(z - k) : r[i] = q[i + k]
    BY <1>2, PushEventAppends
  <2> HIDE DEF r
  <2>2. PICK k \in 0..z : /\ Len(r) = z + 1 - k
                          /\ r[z + 1 - k] = e
                          /\ \A i \in 1..(z - k) : r[i] = q[i + k]
    BY <2>1
  <2>3. z \in Nat /\ l \in Nat /\ k \in Nat
    OBVIOUS
  <2>4. /\ s \in Seq(Event) /\ Len(s) = l + z
        /\ t \in Seq(Event) /\ Len(t) = l + z + 1 - k /\ t[l + z + 1 - k] = e
    <3>1. z + 1 - k \in 1..Len(r) /\ l + z + 1 - k = l + (z + 1 - k)
      BY <2>2, <2>3
    <3>2. t[l + (z + 1 - k)] = e
      BY <1>0, <2>2, <3>1
    <3> QED
      BY <1>0, <2>2, <2>3, <3>1, <3>2
  <2>5. ASSUME NEW i \in 1..(l + z - k)
        PROVE  t[i] = IF i <= l THEN s[i] ELSE s[i + k]
    <3> HIDE DEF l, z
    <3>1. CASE i <= l
      <4>1. i \in 1..l
        BY <2>3, <3>1
      <4> QED
        BY <1>0, <3>1, <4>1
    <3>2. CASE i > l
      <4> DEFINE c == i - l
      <4>1. /\ i = l + c /\ i + k = l + (c + k) /\ ~(i <= l)
            /\ c \in 1..(z - k)
        BY <2>3, <3>2
      <4>2. c + k \in 1..z /\ c \in 1..(z + 1 - k)
        BY <2>3, <4>1
      <4>3. c \in 1..Len(r)
        BY <2>2, <4>2
      <4> HIDE DEF c
      <4>4. t[l + c] = r[c] /\ r[c] = q[c + k] /\ s[l + (c + k)] = q[c + k]
        BY <1>0, <2>2, <4>1, <4>2, <4>3
      <4> QED
        BY <4>1, <4>4
    <3> QED
      BY <2>3, <3>1, <3>2
  <2>6. /\ l \in 0..Len(s) /\ k \in 0..(Len(s) - l) /\ n \in Nat
        /\ Len(t) = Len(s) + 1 - k /\ t[Len(s) + 1 - k] = e
        /\ \A i \in 1..(Len(s) - k) : t[i] = IF i <= l THEN s[i] ELSE s[i + k]
    <3> HIDE DEF l, z, s, t
    <3>1. Len(s) = l + z /\ Len(t) = l + z + 1 - k /\ t[l + z + 1 - k] = e
      BY <2>4
    <3>2. \A i \in 1..(l + z - k) : t[i] = IF i <= l THEN s[i] ELSE s[i + k]
      BY <2>5
    <3>3. ASSUME NEW i \in 1..(Len(s) - k)
          PROVE  t[i] = IF i <= l THEN s[i] ELSE s[i + k]
      <4>1. i \in 1..(l + z - k)
        BY <2>3, <3>1
      <4> QED
        BY <3>2, <4>1
    <3>4. l \in 0..Len(s) /\ k \in 0..(Len(s) - l)
      BY <2>3, <3>1
    <3>5. Len(t) = Len(s) + 1 - k /\ t[Len(s) + 1 - k] = e
      BY <2>3, <3>1
    <3> QED
      BY <3>3, <3>4, <3>5
  <2>7. DeltasOf(s, n, m, st)
    BY DEF s
  <2> HIDE DEF l
  <2>8. DeltasOf(t, n + 1, m1, st1)
    BY <2>4, <2>6, <2>7, AppendKeepsDeltas
  <2>9. r # <<>> /\ r[Len(r)].sequence = n + 1 - 1
    BY <2>2, <2>3
  <2> QED
    BY <2>1, <2>8, <2>9 DEF r, t
<1> QED
  BY <1>1, <1>2

(* An entry that disappears leaves what was delivered of its deltas.       *)
LEMMA RemoveDeltas ==
  ASSUME TypeOK, NEW k \in Handles, DeltasAt(k), status'[k] = "absent",
         events'[k] = <<>>, nextSeq'[k] = 1, UNCHANGED <<delivered, emitted>>
  PROVE  DeltasAt(k)'
<1>1. DeltasOf(delivered[k] \o <<>>, 1, emitted[k], "absent")
  BY PrefixKeepsDeltas DEF DeltasAt, TypeOK
<1> QED
  BY <1>1 DEF DeltasAt

(* update keeps the deltas of every invocation, also of those it evicts.   *)
LEMMA UpdateDeltas ==
  ASSUME TypeOK, DeltasTracked, NEW h \in Handles,
         NEW s \in Terminal \cup {"running"}, Update(h, s),
         UNCHANGED <<delivered, emitted>>, NEW k \in Handles
  PROVE  DeltasAt(k)'
<1>0. DeltasAt(k)
  BY DEF DeltasTracked
<1>1. CASE UNCHANGED registryVars
  BY <1>0, <1>1 DEF registryVars, DeltasAt
<1>2. CASE status[h] \in Active /\ UpdateActive(h, s)
  <2> DEFINE e == StatusEvent(h, s)
             gone == Evicted(IF s \in Terminal THEN Append(terminalOrder, h)
                                               ELSE terminalOrder)
  <2>1. /\ status'[k] = IF k \in gone THEN "absent" ELSE IF k = h THEN s ELSE status[k]
        /\ events'[k] = IF k \in gone THEN <<>>
                        ELSE IF k = h THEN PushEvent(events[h], e) ELSE events[k]
        /\ nextSeq'[k] = IF k \in gone THEN 1
                         ELSE IF k = h THEN PushSeq(events[h], e) ELSE nextSeq[k]
    BY <1>2 DEF UpdateActive
  <2>2. /\ e \in Event /\ e.sequence = nextSeq[h]
        /\ e.kind # "outputDelta" /\ e.units = <<>>
    BY MadeEvents DEF StatusEvent, Terminal
  <2> HIDE DEF e, gone
  <2>3. CASE k \in gone
    BY <1>0, <2>1, <2>3, RemoveDeltas
  <2>4. CASE k \notin gone /\ k = h
    <3>1. /\ delivered[h] \in Seq(Event) /\ events[h] \in Seq(Event)
          /\ nextSeq[h] \in Nat \ {0} /\ emitted[h] \in Nat /\ status[h] # "absent"
      BY <1>2, CapacityAssumption DEF TypeOK, Active
    <3>2. /\ DeltasOf(delivered[h] \o events[h], nextSeq[h], emitted[h], status[h])
          /\ events[h] # <<>> => events[h][Len(events[h])].sequence = nextSeq[h] - 1
      BY <1>0, <2>4, <3>1 DEF DeltasAt
    <3> DEFINE r == PushEvent(events[h], e)
               n == PushSeq(events[h], e)
    <3>3. DeltasOf(delivered[h] \o r, n, emitted[h], s) /\ r[Len(r)].sequence = n - 1
      BY <2>2, <3>1, <3>2, PushKeepsDeltas
    <3> HIDE DEF r, n
    <3>4. status'[k] = s /\ events'[k] = r /\ nextSeq'[k] = n
      BY <2>1, <2>4 DEF r, n
    <3> QED
      BY <2>4, <3>3, <3>4 DEF DeltasAt
  <2>5. CASE k \notin gone /\ k # h
    BY <1>0, <2>1, <2>5 DEF DeltasAt
  <2> QED
    BY <2>3, <2>4, <2>5
<1> QED
  BY <1>1, <1>2 DEF Update

(* Every action keeps the deltas honest.                                   *)
LEMMA NextDeltas ==
  IInv /\ StreamTracked /\ DeltasTracked /\ [Next]_vars => DeltasTracked'
<1> SUFFICES ASSUME IInv, StreamTracked, DeltasTracked, [Next]_vars PROVE DeltasTracked'
  OBVIOUS
<1>0. TypeOK /\ TaskTracked
  BY DEF IInv
<1> USE <1>0
<1>1. CASE StartInvoke
  <2>1. /\ nextHandle \in Handles /\ nextHandle' = nextHandle + 1
        /\ status' = [status EXCEPT ![nextHandle] = "pending"]
        /\ events' = [events EXCEPT ![nextHandle] = <<>>]
        /\ nextSeq' = [nextSeq EXCEPT ![nextHandle] = 1]
        /\ UNCHANGED <<delivered, emitted>>
    BY <1>1 DEF StartInvoke, Insert
  <2>2. /\ delivered[nextHandle] = <<>> /\ emitted[nextHandle] = 0
        /\ \A h \in Handles : h >= nextHandle + 1 => h >= nextHandle
    BY <2>1 DEF StreamTracked, DeltasTracked, Handles
  <2>3. DeltasOf(<<>> \o <<>>, 1, 0, "pending")
    <3>1. <<>> \o <<>> = <<>> /\ 1..0 = {}
      OBVIOUS
    <3> QED
      BY <3>1 DEF DeltasOf
  <2>4. ASSUME NEW k \in Handles
        PROVE  DeltasAt(k)'
    <3>1. CASE k = nextHandle
      <4>1. /\ status'[k] = "pending" /\ events'[k] = <<>> /\ nextSeq'[k] = 1
            /\ delivered'[k] = <<>> /\ emitted'[k] = 0
        BY <2>1, <2>2, <3>1 DEF TypeOK
      <4> QED
        BY <2>3, <4>1 DEF DeltasAt
    <3>2. CASE k # nextHandle
      BY <2>1, <3>2 DEF DeltasTracked, DeltasAt, TypeOK
    <3> QED
      BY <3>1, <3>2
  <2> QED
    BY <2>1, <2>2, <2>4 DEF DeltasTracked
<1>2. CASE UNCHANGED <<registryVars, delivered, emitted>>
  <2>1. nextHandle' \in {nextHandle, nextHandle + 1} /\ nextHandle \in Nat
    BY DEF Next, Application, WorkerStep, Provider, Stopped, IgnoreDelta, StartInvoke,
           StartBackpressure, StartRefused, StartSpawnFails, DropRuntime,
           CancelLookup, CancelSignal, CancelMark, DrainEvents, TakeInvocation,
           WorkerBuildFails, WorkerReceive, WorkerExit, TaskBegin, TaskEnd, TaskPanic,
           AcceptDelta, vars, TypeOK
  <2>2. \A h \in Handles : h >= nextHandle' => h >= nextHandle
    BY <2>1 DEF Handles
  <2> QED
    BY <1>2, <2>2 DEF DeltasTracked, DeltasAt, registryVars
<1>3. ASSUME NEW h \in Handles, NEW s \in Terminal \cup {"running"}, Update(h, s),
             UNCHANGED <<delivered, emitted, nextHandle>>
      PROVE  DeltasTracked'
  BY <1>3, UpdateDeltas DEF DeltasTracked
<1>4. ASSUME NEW h \in Handles, DrainEvents(h)
      PROVE  DeltasTracked'
  <2>1. /\ delivered' = [delivered EXCEPT ![h] = @ \o events[h]]
        /\ events' = [events EXCEPT ![h] = <<>>]
        /\ UNCHANGED <<status, nextSeq, emitted, nextHandle>>
    BY <1>4 DEF DrainEvents
  <2>2. (delivered[h] \o events[h]) \o <<>> = delivered[h] \o events[h]
    BY DEF TypeOK
  <2>3. ASSUME NEW k \in Handles
        PROVE  DeltasAt(k)'
    <3>1. CASE k = h
      BY <2>1, <2>2, <3>1 DEF DeltasTracked, DeltasAt, TypeOK
    <3>2. CASE k # h
      BY <2>1, <3>2 DEF DeltasTracked, DeltasAt, TypeOK
    <3> QED
      BY <3>1, <3>2
  <2> QED
    BY <2>1, <2>3 DEF DeltasTracked
<1>5. ASSUME NEW h \in Handles, TakeInvocation(h)
      PROVE  DeltasTracked'
  <2>1. /\ status' = [status EXCEPT ![h] = "absent"]
        /\ events' = [events EXCEPT ![h] = <<>>]
        /\ nextSeq' = [nextSeq EXCEPT ![h] = 1]
        /\ UNCHANGED <<delivered, emitted, nextHandle>>
    BY <1>5 DEF TakeInvocation, Remove
  <2>2. ASSUME NEW k \in Handles
        PROVE  DeltasAt(k)'
    <3>1. CASE k = h
      BY <2>1, <3>1, RemoveDeltas DEF DeltasTracked, TypeOK
    <3>2. CASE k # h
      BY <2>1, <3>2 DEF DeltasTracked, DeltasAt, TypeOK
    <3> QED
      BY <3>1, <3>2
  <2> QED
    BY <2>1, <2>2 DEF DeltasTracked
<1>6. ASSUME NEW h \in Handles, NEW f \in Forms, AcceptDelta(h, f)
      PROVE  DeltasTracked'
  <2> DEFINE e == DeltaEvent(h, f)
             r == PushEvent(events[h], e)
             n == PushSeq(events[h], e)
  <2>1. /\ events' = [events EXCEPT ![h] = r]
        /\ nextSeq' = [nextSeq EXCEPT ![h] = n]
        /\ emitted' = [emitted EXCEPT ![h] = emitted[h] + 1]
        /\ status[h] = "running"
        /\ UNCHANGED <<status, delivered, nextHandle>>
    BY <1>6 DEF AcceptDelta
  <2>2. /\ e \in Event /\ e.sequence = nextSeq[h]
        /\ e.kind = "outputDelta" /\ e.units = <<emitted[h] + 1>>
    BY MadeEvents DEF DeltaEvent
  <2> HIDE DEF e
  <2>3. /\ delivered[h] \in Seq(Event) /\ events[h] \in Seq(Event)
        /\ nextSeq[h] \in Nat \ {0} /\ emitted[h] \in Nat /\ emitted[h] + 1 \in Nat
    BY CapacityAssumption DEF TypeOK
  <2>4. /\ DeltasOf(delivered[h] \o events[h], nextSeq[h], emitted[h], status[h])
        /\ events[h] # <<>> => events[h][Len(events[h])].sequence = nextSeq[h] - 1
    BY <2>1 DEF DeltasTracked, DeltasAt
  <2>5. /\ DeltasOf(delivered[h] \o r, n, emitted[h] + 1, status[h])
        /\ r[Len(r)].sequence = n - 1
    <3> DEFINE d  == delivered[h]
               q  == events[h]
               m  == emitted[h]
               m1 == m + 1
               st == status[h]
               k  == nextSeq[h]
    <3>1. /\ st # "absent" /\ m \in Nat /\ m1 \in Nat /\ k \in Nat \ {0}
          /\ d \in Seq(Event) /\ q \in Seq(Event)
      BY <2>1, <2>3
    <3>2. /\ e \in Event /\ e.sequence = k /\ DeltasOf(d \o q, k, m, st)
          /\ q # <<>> => q[Len(q)].sequence = k - 1
      BY <2>2, <2>4
    <3>3. e.kind = "outputDelta" /\ e.units = <<m + 1>> /\ m1 = m + 1
      BY <2>2
    <3> HIDE DEF d, q, m, m1, st, k
    <3>4. /\ DeltasOf(d \o PushEvent(q, e), PushSeq(q, e), m1, st)
          /\ PushEvent(q, e)[Len(PushEvent(q, e))].sequence = PushSeq(q, e) - 1
      BY <3>1, <3>2, <3>3, PushKeepsDeltas
    <3> QED
      BY <3>4 DEF d, q, m, m1, st
  <2> HIDE DEF r, n
  <2>6. ASSUME NEW k \in Handles
        PROVE  DeltasAt(k)'
    <3>1. CASE k = h
      <4>1. /\ events'[k] = r /\ nextSeq'[k] = n /\ emitted'[k] = emitted[h] + 1
            /\ status'[k] = status[h] /\ delivered'[k] = delivered[h]
        BY <2>1, <3>1 DEF TypeOK
      <4> QED
        BY <2>5, <4>1 DEF DeltasAt
    <3>2. CASE k # h
      BY <2>1, <3>2 DEF DeltasTracked, DeltasAt, TypeOK
    <3> QED
      BY <3>1, <3>2
  <2>7. ~(h >= nextHandle)
    BY <2>1 DEF TaskTracked
  <2> QED
    BY <2>1, <2>6, <2>7 DEF DeltasTracked, TypeOK
<1>7. CASE UNCHANGED vars
  BY <1>2, <1>7 DEF vars
<1>8. ASSUME NEW h \in Handles, CancelMark(h)
      PROVE  DeltasTracked'
  BY <1>3, <1>8 DEF CancelMark, Terminal
<1>9. ASSUME NEW h \in Handles, TaskBegin(h)
      PROVE  DeltasTracked'
  BY <1>3, <1>9 DEF TaskBegin
<1>10. ASSUME NEW h \in Handles, NEW s \in Terminal, TaskEnd(h, s)
       PROVE  DeltasTracked'
  BY <1>3, <1>10 DEF TaskEnd
<1>11. ASSUME \/ StartBackpressure \/ StartRefused \/ StartSpawnFails \/ DropRuntime
              \/ WorkerBuildFails \/ WorkerReceive \/ WorkerExit
       PROVE  DeltasTracked'
  BY <1>2, <1>11 DEF StartBackpressure, StartRefused, StartSpawnFails, DropRuntime,
                     WorkerBuildFails, WorkerReceive, WorkerExit
<1>12. ASSUME NEW h \in Handles, CancelLookup(h) \/ CancelSignal(h) \/ TaskPanic(h)
       PROVE  DeltasTracked'
  BY <1>2, <1>12 DEF CancelLookup, CancelSignal, TaskPanic
<1> QED
  BY <1>1, <1>4, <1>5, <1>6, <1>7, <1>8, <1>9, <1>10, <1>11, <1>12
     DEF Next, Application, WorkerStep, Provider, Stopped, IgnoreDelta

LEMMA DeltasInvariance == Spec => []DeltasTracked
<1>1. Init => DeltasTracked
  <2>1. <<>> \o <<>> = <<>> /\ 1..0 = {}
    OBVIOUS
  <2> QED
    BY <2>1 DEF Init, DeltasTracked, DeltasAt, DeltasOf
<1> QED
  BY <1>1, NextDeltas, Invariance, StreamInvariance, PTL DEF Spec

(* Deltas come in the order they were emitted, each once, and a stream     *)
(* without a gap in its numbers has every delta up to its last one.        *)
THEOREM GapsAlwaysRevealLoss == Spec => []GapsRevealLoss
<1>1. DeltasTracked => GapsRevealLoss
  <2> SUFFICES ASSUME DeltasTracked, NEW h \in Handles
               PROVE  LET s == Stream(h) IN
         /\ \A i \in 1..Len(s) : \A a, b \in 1..Len(s[i].units) :
              a < b => s[i].units[a] < s[i].units[b]
         /\ \A i, j \in 1..Len(s) : i < j =>
              \A u \in Elements(s[i].units), v \in Elements(s[j].units) : u < v
         /\ (\A i \in 1..Len(s) : s[i].sequence = i)
              => \A u \in Deltas(s) : 1..u \subseteq Deltas(s)
    BY DEF GapsRevealLoss
  <2> DEFINE s == Stream(h)
  <2>1. DeltasOf(s, nextSeq[h], emitted[h], status[h])
    BY DEF DeltasTracked, DeltasAt, Stream
  <2> HIDE DEF s
  <2>2. ASSUME \A i \in 1..Len(s) : s[i].sequence = i,
               NEW u \in Deltas(s), NEW v \in 1..u
        PROVE  v \in Deltas(s)
    <3>1. PICK j \in 1..Len(s) : u \in Elements(s[j].units)
      BY DEF Deltas
    <3>2. \A i \in 1..j : i \in 1..Len(s)
      OBVIOUS
    <3>3. Covered(s, j, v)
      BY <2>1, <2>2, <3>1, <3>2 DEF DeltasOf, GapFree
    <3> QED
      BY <3>2, <3>3 DEF Covered, Deltas
  <2>3. /\ \A i \in 1..Len(s) : \A a, b \in 1..Len(s[i].units) :
             a < b => s[i].units[a] < s[i].units[b]
        /\ \A i, j \in 1..Len(s) : i < j =>
             \A u \in Elements(s[i].units), v \in Elements(s[j].units) : u < v
    BY <2>1 DEF DeltasOf
  <2> QED
    BY <2>2, <2>3 DEF s
<1> QED
  BY <1>1, DeltasInvariance, PTL

-----------------------------------------------------------------------------
(* The refinement of InvocationLifecycle *)

(* A task that has begun has an entry that is not pending any more, so the *)
(* result a task reports is the result of a running invocation.            *)
Begun ==
  \A h \in Handles : task[h] \in {"invoking", "done"} => status[h] # "pending"

LEMMA NextBegun == IInv /\ Begun /\ [Next]_vars => Begun'
<1> SUFFICES ASSUME IInv, Begun, [Next]_vars PROVE Begun'
  OBVIOUS
<1>0. TypeOK /\ TaskTracked
  BY DEF IInv
<1> USE <1>0
<1>1. CASE StartInvoke
  BY <1>1 DEF StartInvoke, Insert, Begun, TypeOK
<1>2. CASE UNCHANGED <<status, task>>
  BY <1>2 DEF Begun
<1>3. CASE WorkerReceive
  <2>1. PICK k \in Handles : task' = [task EXCEPT ![k] = "spawned"] /\ UNCHANGED status
    BY <1>3, ChannelElements DEF WorkerReceive, TypeOK, registryVars
  <2> QED
    BY <2>1 DEF Begun, TypeOK
<1>4. ASSUME NEW h \in Handles, NEW s \in Terminal \cup {"running"}, Update(h, s),
             \A k \in Handles : task'[k] # task[k] => k = h /\ task[h] # "none"
      PROVE  Begun'
  <2>1. /\ \A k \in Handles \ {h} : status'[k] \in {status[k], "absent"}
        /\ \A k \in Handles : status'[k] \in {status[k], s, "absent"}
        /\ s # "pending"
    BY <1>4, UpdateStatus DEF Terminal
  <2>2. status'[h] # "pending"
    BY <1>4, <2>1 DEF Update, UpdateActive, registryVars, TypeOK, Active, Terminal
  <2> QED
    BY <1>4, <2>1, <2>2 DEF Begun
<1>5. ASSUME NEW h \in Handles, TakeInvocation(h)
      PROVE  Begun'
  BY <1>5 DEF TakeInvocation, Remove, Begun, TypeOK
<1>6. CASE WorkerBuildFails
  BY <1>6 DEF WorkerBuildFails, Begun, registryVars
<1>7. ASSUME NEW h \in Handles, TaskPanic(h)
      PROVE  Begun'
  BY <1>7 DEF TaskPanic, Begun, registryVars, TypeOK
<1> QED
  BY <1>1, <1>2, <1>3, <1>4, <1>5, <1>6, <1>7
     DEF Next, Application, WorkerStep, Provider, Stopped, IgnoreDelta,
         StartBackpressure, StartRefused, StartSpawnFails, DropRuntime,
         CancelLookup, CancelSignal, CancelMark, DrainEvents,
         WorkerExit, TaskBegin, TaskEnd, AcceptDelta, vars, registryVars, Terminal,
         TypeOK

LEMMA BegunInvariance == Spec => []Begun
<1>1. Init => Begun
  BY DEF Init, Begun
<1> QED
  BY <1>1, NextBegun, Invariance, PTL DEF Spec

(* An update with a result, seen from outside: one invocation finishes and *)
(* results may be forgotten.                                               *)
LEMMA UpdateFinishes ==
  ASSUME IInv, NEW h \in Handles, NEW r \in Terminal, Update(h, r),
         status[h] = "pending" => r = "cancelled",
         UNCHANGED <<nextHandle, delivered>>
  PROVE  Life!Finish(h, r) \/ UNCHANGED <<stage, delivered>>
<1>0. TypeOK /\ Exact /\ TaskTracked
  BY DEF IInv
<1>1. CASE UNCHANGED registryVars
  BY <1>1 DEF registryVars, stage
<1>2. CASE status[h] \in Active /\ UpdateActive(h, r)
  <2> DEFINE order == Append(terminalOrder, h)
             gone == Evicted(order)
  <2>1. status' = [k \in Handles |-> IF k \in gone THEN "absent"
                                     ELSE IF k = h THEN r ELSE status[k]]
    BY <1>2 DEF UpdateActive
  <2>2. gone \subseteq {k \in Handles : k = h \/ stage[k] \in Terminal}
    <3>1. /\ terminalOrder \in Seq(Handles)
          /\ Elements(terminalOrder) = {k \in Handles : status[k] \in Terminal}
      BY <1>0 DEF TypeOK, Exact, RetentionExact
    <3>2. gone \subseteq Elements(terminalOrder) \cup {h}
      BY <3>1, CapacityAssumption DEF Evicted, Elements
    <3>3. \A k \in Handles : status[k] \in Terminal => stage[k] \in Terminal
      BY DEF stage, Terminal
    <3> QED
      BY <3>1, <3>2, <3>3
  <2>3. \A k \in Handles : k >= nextHandle => status[k] = "absent"
    BY <1>0 DEF TaskTracked
  <2>4. \A k \in gone : k < nextHandle
    <3> SUFFICES ASSUME NEW k \in gone, ~(k < nextHandle) PROVE FALSE
      OBVIOUS
    <3>1. k \in Handles /\ k >= nextHandle
      BY <1>0, <2>2 DEF TypeOK, Handles
    <3>2. k = h \/ stage[k] \in Terminal
      BY <2>2
    <3> QED
      BY <1>2, <2>3, <3>1, <3>2 DEF stage, Terminal, Active
  <2>5. stage' = [k \in Handles |-> IF k \in gone THEN "gone"
                                    ELSE IF k = h THEN r ELSE stage[k]]
    BY <2>1, <2>4 DEF stage, Terminal
  <2>6. stage[h] = status[h]
    BY <1>2 DEF stage, Active
  <2> HIDE DEF gone
  <2> QED
    BY <1>2, <2>2, <2>5, <2>6 DEF Life!Finish, Life!Results, Terminal, Active
<1> QED
  BY <1>1, <1>2 DEF Update

(* What has been drained of a handle is proper at the handle's stage.      *)
LEMMA StreamIsProper ==
  ASSUME NEW s \in Seq(Event), NEW n, NEW st, StreamOf(s, <<>>, n, st),
         st \in Active \cup Terminal
  PROVE  Life!Proper(s, st)
<1>1. \A i \in 1..Len(s) : s[i].kind \in Terminal => i = Len(s)
  BY DEF StreamOf
<1>2. st \in Terminal => s # <<>> /\ s[Len(s)].kind = st
  BY DEF StreamOf
<1>3. \A i \in 1..Len(s) : s[i].kind \in Terminal => s[i].kind = st
  BY <1>1, <1>2 DEF StreamOf
<1>4. st = "pending" => s = <<>>
  BY DEF StreamOf
<1> QED
  BY <1>1, <1>2, <1>3, <1>4 DEF StreamOf, Life!Proper, Life!Results, Terminal

(* Every step of the registry is a step of InvocationLifecycle or none.    *)
LEMMA StepIsLife ==
  IInv /\ Begun /\ StreamTracked /\ StreamTracked' /\ TypeOK' /\ [Next]_vars
    => [Life!Next]_<<stage, delivered>>
<1> SUFFICES ASSUME IInv, Begun, StreamTracked, StreamTracked', TypeOK', [Next]_vars
             PROVE  Life!Next \/ UNCHANGED <<stage, delivered>>
  OBVIOUS
<1>0. TypeOK /\ Exact /\ TaskTracked
  BY DEF IInv
<1>00. /\ \A h \in Handles : h >= nextHandle => status[h] = "absent"
       /\ \A h \in Handles : h < nextHandle \/ h >= nextHandle
       /\ nextHandle \in Nat /\ \A h \in Handles : h \in Nat
  BY <1>0 DEF TaskTracked, TypeOK, Handles
<1>01. ASSUME nextHandle' = nextHandle + 1, nextHandle \in Handles,
              NEW v \in {"pending", "gone"},
              v = "pending" => status'[nextHandle] = "pending",
              v = "gone" => status'[nextHandle] = "absent",
              \A k \in Handles : k # nextHandle => status'[k] = status[k]
       PROVE  stage[nextHandle] = "new" /\ stage' = [stage EXCEPT ![nextHandle] = v]
  <2>1. stage[nextHandle] = "new"
    BY <1>00, <1>01 DEF stage
  <2>2. /\ \A k \in Handles : k # nextHandle => (k < nextHandle' <=> k < nextHandle)
        /\ nextHandle < nextHandle'
    BY <1>00, <1>01
  <2>3. stage' = [k \in Handles |-> IF k = nextHandle THEN v ELSE stage[k]]
    BY <1>01, <2>2 DEF stage
  <2> QED
    BY <2>1, <2>3 DEF stage
<1>1. CASE UNCHANGED <<status, nextHandle, delivered>>
  BY <1>1 DEF stage
<1>2. CASE StartInvoke
  <2>1. /\ nextHandle \in Handles /\ nextHandle' = nextHandle + 1
        /\ status' = [status EXCEPT ![nextHandle] = "pending"] /\ UNCHANGED delivered
    BY <1>2 DEF StartInvoke, Insert
  <2>2. /\ status'[nextHandle] = "pending"
        /\ \A k \in Handles : k # nextHandle => status'[k] = status[k]
    BY <1>0, <2>1 DEF TypeOK
  <2>3. stage[nextHandle] = "new" /\ stage' = [stage EXCEPT ![nextHandle] = "pending"]
    BY <1>01, <2>1, <2>2
  <2> QED
    BY <2>1, <2>3 DEF Life!Next, Life!Start
<1>3. CASE StartBackpressure \/ StartRefused \/ StartSpawnFails
  <2>1. /\ nextHandle \in Handles /\ nextHandle' = nextHandle + 1
        /\ UNCHANGED <<status, delivered>>
    BY <1>3 DEF StartBackpressure, StartRefused, StartSpawnFails, registryVars
  <2>2. status'[nextHandle] = "absent"
    BY <1>00, <2>1
  <2>3. stage[nextHandle] = "new" /\ stage' = [stage EXCEPT ![nextHandle] = "gone"]
    BY <1>01, <2>1, <2>2
  <2> QED
    BY <2>1, <2>3 DEF Life!Next, Life!Refuse
<1>4. ASSUME NEW h \in Handles, NEW r \in Terminal, Update(h, r),
             status[h] = "pending" => r = "cancelled", UNCHANGED <<nextHandle, delivered>>
      PROVE  Life!Next \/ UNCHANGED <<stage, delivered>>
  BY <1>4, UpdateFinishes DEF Life!Next, Life!Results, Terminal
<1>5. ASSUME NEW h \in Handles, CancelMark(h)
      PROVE  Life!Next \/ UNCHANGED <<stage, delivered>>
  BY <1>4, <1>5 DEF CancelMark, Terminal
<1>6. ASSUME NEW h \in Handles, NEW r \in Terminal, TaskEnd(h, r)
      PROVE  Life!Next \/ UNCHANGED <<stage, delivered>>
  <2>1. status[h] # "pending"
    BY <1>6 DEF TaskEnd, Begun
  <2> QED
    BY <1>4, <1>6, <2>1 DEF TaskEnd
<1>7. ASSUME NEW h \in Handles, TaskBegin(h)
      PROVE  Life!Next \/ UNCHANGED <<stage, delivered>>
  <2>0. task[h] = "spawned" /\ Update(h, "running") /\ UNCHANGED <<nextHandle, delivered>>
    BY <1>7 DEF TaskBegin
  <2>1. CASE status[h] \notin Active
    BY <1>1, <2>0, <2>1 DEF Update, registryVars
  <2>2. CASE status[h] \in Active
    <3>1. status[h] = "pending"
      BY <2>0, <2>2 DEF StreamTracked, Active
    <3>2. UpdateActive(h, "running") /\ "running" \notin Terminal
      BY <2>0, <2>2 DEF Update, Terminal
    <3>3. Evicted(terminalOrder) = {}
      BY <1>0, CapacityAssumption DEF Evicted, TypeOK, Exact, RetentionExact
    <3>4. status' = [k \in Handles |-> IF k = h THEN "running" ELSE status[k]]
      BY <3>2, <3>3 DEF UpdateActive
    <3>5. stage' = [stage EXCEPT ![h] = "running"] /\ stage[h] = "pending"
      BY <2>0, <3>1, <3>4 DEF stage
    <3> QED
      BY <2>0, <3>5 DEF Life!Next, Life!Begin
  <2> QED
    BY <2>1, <2>2
<1>8. ASSUME NEW h \in Handles, TakeInvocation(h)
      PROVE  Life!Next \/ UNCHANGED <<stage, delivered>>
  <2>1. /\ status[h] \in Terminal /\ status' = [status EXCEPT ![h] = "absent"]
        /\ UNCHANGED <<nextHandle, delivered>>
    BY <1>8 DEF TakeInvocation, Remove
  <2>2. h < nextHandle
    BY <1>00, <2>1 DEF Terminal
  <2>3. stage' = [stage EXCEPT ![h] = "gone"] /\ stage[h] \in Life!Results
    BY <1>0, <2>1, <2>2 DEF stage, Life!Results, Terminal, TypeOK
  <2> QED
    BY <2>1, <2>3 DEF Life!Next, Life!Take
<1>9. ASSUME NEW h \in Handles, DrainEvents(h)
      PROVE  Life!Next \/ UNCHANGED <<stage, delivered>>
  <2>1. /\ status[h] # "absent" /\ UNCHANGED <<status, nextHandle>>
        /\ delivered' = [delivered EXCEPT ![h] = @ \o events[h]]
        /\ events' = [events EXCEPT ![h] = <<>>]
    BY <1>9 DEF DrainEvents
  <2>2. /\ delivered'[h] = delivered[h] \o events[h] /\ events'[h] = <<>>
        /\ delivered' = [delivered EXCEPT ![h] = delivered'[h]]
    BY <1>0, <2>1 DEF TypeOK
  <2>3. Life!Continues(delivered'[h], delivered[h])
    BY <1>0, <2>2 DEF Life!Continues, TypeOK
  <2>4. stage[h] = status[h] /\ UNCHANGED stage
    BY <2>1 DEF stage
  <2>5. StreamOf(delivered'[h], <<>>, nextSeq'[h], status[h])
    BY <2>1, <2>2 DEF StreamTracked
  <2>6. delivered'[h] \in Seq(Event)
    BY DEF TypeOK
  <2>7. status[h] \in Active \cup Terminal
    BY <1>0, <2>1 DEF TypeOK, Statuses
  <2>8. Life!Proper(delivered'[h], stage[h])
    BY <2>4, <2>5, <2>6, <2>7, StreamIsProper
  <2>9. stage[h] \notin {"new", "gone"}
    BY <2>4, <2>7 DEF Active, Terminal
  <2> QED
    BY <2>2, <2>3, <2>4, <2>8, <2>9 DEF Life!Next, Life!Drain
<1> QED
  BY <1>1, <1>2, <1>3, <1>5, <1>6, <1>7, <1>8, <1>9
     DEF Next, Application, WorkerStep, Provider, Stopped, IgnoreDelta, DropRuntime,
         CancelLookup, CancelSignal, WorkerBuildFails, WorkerReceive, WorkerExit,
         TaskPanic, AcceptDelta, vars, registryVars

(* An application sees of an invocation what the documents promise: no     *)
(* events before it begins, one result, which the poll and the events agree*)
(* on, and nothing after it, whatever races in the registry.               *)
THEOREM InvocationsKeepTheirLifecycle == Spec => ImplementsLifecycle
<1>1. Init => Life!Init
  <2> SUFFICES ASSUME Init PROVE Life!Init
    OBVIOUS
  <2>1. \A h \in Handles : ~(h < 1)
    BY DEF Handles
  <2> QED
    BY <2>1 DEF Init, Life!Init, stage
<1>2. IInv => TypeOK
  BY DEF IInv
<1> QED
  BY <1>1, <1>2, StepIsLife, Invariance, BegunInvariance, StreamInvariance, PTL
     DEF Spec, Life!Spec, ImplementsLifecycle

=============================================================================
