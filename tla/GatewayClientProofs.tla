------------------------- MODULE GatewayClientProofs -------------------------
(***************************************************************************)
(* Proofs about GatewayClient for any limits and any number of calls: the  *)
(* telemetry batch of every call that has ended is in exactly one place,   *)
(* queued batches have somebody who uploads them, and no task outlives a   *)
(* connection that ended in order.                                         *)
(***************************************************************************)
EXTENDS GatewayClient, FiniteSetTheorems, SequenceTheorems, TLAPS

Elements(q) == {q[n] : n \in DOMAIN q}

NoRepeats(q) == \A m, n \in DOMAIN q : q[m] = q[n] => m = n

(* Calls that have handed their batch on.                                  *)
Ended == {i \in Calls : call[i].at \in {"triggering", "done"}}

(* Sets that have no element in common and together are the set all.       *)
Split(q, b, d, all) ==
  /\ q \cap b = {}
  /\ (q \cup b) \cap d = {}
  /\ q \cup b \cup d = all

(* Backlog, flusher and outcome share the batches of the ended calls.      *)
Shared ==
  /\ NoRepeats(pending)
  /\ Split(Elements(pending), flusher.batch, settled, Ended)

(* The flusher holds a batch while it sends it, and only then.             *)
FlusherHolds ==
  /\ flusher.at = "sending" => \E i \in Calls : flusher.batch = {i}
  /\ flusher.at # "sending" => flusher.batch = {}

Inv == TypeOK /\ Shared /\ FlusherHolds /\ FlushRuns /\ NoOrphans

-----------------------------------------------------------------------------
(* Tasks *)

TaskT == [at : States, of : {"none", "current", "broken", "ended"},
          kind : {"none", "provider", "unavailable", "rejected"},
          cancelled : BOOLEAN]

LEMMA OverType ==
  ASSUME NEW at \in States
  PROVE  Over(at) \in TaskT /\ Over(at).at = at
BY DEF Over, NoCall, TaskT, States

LEMMA AtType ==
  ASSUME call \in [Calls -> TaskT], NEW i \in Calls, NEW at \in States, At(i, at)
  PROVE  /\ call' \in [Calls -> TaskT]
         /\ call'[i].at = at /\ call'[i].of = call[i].of
         /\ \A j \in Calls : j # i => call'[j] = call[j]
<1>1. /\ [call[i] EXCEPT !.at = at] \in TaskT
      /\ [call[i] EXCEPT !.at = at].at = at
      /\ [call[i] EXCEPT !.at = at].of = call[i].of
  BY DEF TaskT
<1>2. call' = [call EXCEPT ![i] = [call[i] EXCEPT !.at = at]]
  BY DEF At
<1> QED
  BY <1>1, <1>2

LEMMA TaskTypes ==
  ASSUME NEW c \in TaskT
  PROVE  /\ Signalled(c) \in TaskT /\ Answered(c) \in TaskT
         /\ Left(c, "broken") \in TaskT
         /\ Answered(c).at = IF c.at = "queued" THEN "answered" ELSE c.at
         /\ Answered(c).of = c.of
         /\ Left(c, "broken").at = Answered(c).at /\ Left(c, "broken").of = "broken"
         /\ Signalled(c).at \in {c.at, "aborted"}
         /\ Signalled(c).at # "aborted" => Signalled(c).of = c.of
<1>1. /\ Answered(c) \in TaskT
      /\ Answered(c).at = IF c.at = "queued" THEN "answered" ELSE c.at
      /\ Answered(c).of = c.of
  BY DEF Answered, TaskT, States
<1>2. ASSUME NEW d \in TaskT
      PROVE  /\ [d EXCEPT !.of = "broken"] \in TaskT
             /\ [d EXCEPT !.of = "broken"].at = d.at /\ [d EXCEPT !.of = "broken"].of = "broken"
             /\ [d EXCEPT !.cancelled = TRUE] \in TaskT
             /\ [d EXCEPT !.cancelled = TRUE].at = d.at /\ [d EXCEPT !.cancelled = TRUE].of = d.of
  BY DEF TaskT
<1>3. Over("aborted") \in TaskT /\ Over("aborted").at = "aborted"
  BY OverType DEF States
<1> QED
  BY <1>1, <1>2, <1>3 DEF Left, Signalled

(* A step of tasks that hands no batch on.                                 *)
Quiet ==
  /\ UNCHANGED batches
  /\ \A i \in Calls : call'[i].at = call[i].at
                        \/ (/\ call[i].at \notin {"triggering", "done"}
                            /\ call'[i].at \notin {"triggering", "done"})

(* A call that has not handed its batch on does so.                        *)
HandsOn(i) == i \in Calls \ Ended /\ Leave(i, "triggering") /\ UNCHANGED flusher

Settles(i) == HandsOn(i) /\ settled' = settled \cup {i} /\ UNCHANGED pending

Queues(i) == HandsOn(i) /\ Enqueue(i)

-----------------------------------------------------------------------------
(* Sequences *)

LEMMA AppendType ==
  ASSUME NEW S, NEW q \in Seq(S), NEW x \in S
  PROVE  /\ Append(q, x) \in Seq(S) /\ Len(Append(q, x)) = Len(q) + 1
         /\ \A n \in 1..Len(q) : Append(q, x)[n] = q[n]
         /\ Append(q, x)[Len(q) + 1] = x
OBVIOUS

LEMMA TailType ==
  ASSUME NEW S, NEW q \in Seq(S), q # <<>>
  PROVE  /\ Tail(q) \in Seq(S) /\ Len(Tail(q)) = Len(q) - 1 /\ Len(q) \in Nat \ {0}
         /\ \A n \in 1..(Len(q) - 1) : Tail(q)[n] = q[n + 1]
         /\ Head(q) \in S /\ Head(q) = q[1]
BY HeadTailProperties, EmptySeq

LEMMA EnqueueType ==
  ASSUME TypeOK, NEW i \in Calls, Enqueue(i)
  PROVE  /\ pending' \in Seq(Calls) /\ Len(pending') <= MaxBacklog
         /\ settled' \subseteq Calls
         /\ pending' # <<>>
<1>1. pending \in Seq(Calls) /\ Len(pending) <= MaxBacklog /\ Len(pending) \in Nat
      /\ settled \subseteq Calls /\ MaxBacklog \in Nat \ {0}
  BY ClientAssumption DEF TypeOK
<1>2. CASE Len(pending) = MaxBacklog
  <2>1. pending # <<>>
    BY <1>1, <1>2
  <2>2. Tail(pending) \in Seq(Calls) /\ Len(Tail(pending)) = Len(pending) - 1 /\ Head(pending) \in Calls
    BY <1>1, <2>1, TailType
  <2>3. /\ Append(Tail(pending), i) \in Seq(Calls)
        /\ Len(Append(Tail(pending), i)) = Len(pending)
    BY <1>1, <2>2, AppendType
  <2> QED
    BY <1>1, <1>2, <2>2, <2>3 DEF Enqueue
<1>3. CASE Len(pending) # MaxBacklog
  <2>1. Append(pending, i) \in Seq(Calls) /\ Len(Append(pending, i)) = Len(pending) + 1
    BY <1>1, AppendType
  <2> QED
    BY <1>1, <1>3, <2>1 DEF Enqueue
<1> QED
  BY <1>2, <1>3

-----------------------------------------------------------------------------
(* Steps *)

(* What a step does, seen from the backlog.                                *)
BacklogStep ==
  \/ Quiet
  \/ \E i \in Calls : Settles(i) \/ Queues(i)
  \/ \E i \in Calls : Triggered(i)
  \/ Trigger /\ UNCHANGED <<call, pending, settled>>
  \/ Flush

LEMMA BacklogSteps ==
  ASSUME TypeOK, [Next]_vars PROVE BacklogStep
<1>0. call \in [Calls -> TaskT] /\ out \in Seq(Calls)
  BY DEF TypeOK, TaskT
<1>1. ASSUME UNCHANGED batches,
             \A i \in Calls : \/ call'[i].at = call[i].at
                              \/ /\ call[i].at \notin {"triggering", "done"}
                                 /\ call'[i].at \notin {"triggering", "done"}
      PROVE  BacklogStep
  BY <1>1 DEF BacklogStep, Quiet
<1>2. ASSUME NEW i \in Calls, Deliver(i), call[i].at \notin {"triggering", "done"}
      PROVE  BacklogStep
  <2>1. CASE UploadPermit
    BY <1>0, <1>2, <1>1, <2>1, AtType DEF Deliver, States
  <2>2. CASE ~UploadPermit
    BY <1>2, <2>2 DEF Deliver, BacklogStep, Queues, HandsOn, Ended
  <2> QED
    BY <2>1, <2>2
<1>3. ASSUME NEW i \in Calls,
             CancelledEnds(i) \/ Finish(i) \/ Uploaded(i) \/ Triggered(i)
      PROVE  BacklogStep
  BY <1>2, <1>3 DEF CancelledEnds, Finish, Uploaded, BacklogStep, Settles, Queues, HandsOn, Ended
<1>4. ASSUME NEW i \in Calls, ProviderEnds(i) \/ QueueAnswer(i) PROVE BacklogStep
  BY <1>0, <1>1, <1>4, AtType DEF ProviderEnds, QueueAnswer, States
<1>5. ASSUME NEW i \in Calls, Invoke(i) \/ Reject(i) PROVE BacklogStep
  <2>1. ASSUME NEW kind, NEW at \in {"running", "answer"}, Start(i, kind, at), Fresh(i),
               UNCHANGED batches
        PROVE  BacklogStep
    BY <1>0, <1>1, <2>1 DEF Start, Fresh, NoCall
  <2>2. ASSUME Leave(i, "triggering"), Enqueue(i), UNCHANGED flusher, Fresh(i)
        PROVE  BacklogStep
    BY <2>2 DEF BacklogStep, Queues, HandsOn, Ended, Fresh, NoCall
  <2> QED
    BY <1>5, <2>1, <2>2 DEF Invoke, Reject, batches
<1>6. ASSUME NEW i \in Calls, Cancel(i) PROVE BacklogStep
  <2>1. call[i].at \notin {"triggering", "done"} /\ call' = [call EXCEPT ![i] = Signalled(call[i])]
    BY <1>6 DEF Cancel, OfConnection, Waiting
  <2>2. Signalled(call[i]).at \notin {"triggering", "done"}
    BY <1>0, <2>1, TaskTypes
  <2> QED
    BY <1>0, <1>1, <1>6, <2>1, <2>2 DEF Cancel
<1>7. CASE SendOutbound
  <2>1. Head(out) \in Calls
    BY <1>0, <1>7, TailType DEF SendOutbound
  <2>2. call' = [call EXCEPT ![Head(out)] = Answered(call[Head(out)])]
    BY <1>0, <1>7, <2>1 DEF SendOutbound
  <2>3. \A i \in Calls : Answered(call[i]).at = IF call[i].at = "queued" THEN "answered" ELSE call[i].at
    BY <1>0, TaskTypes
  <2>4. \A i \in Calls : call'[i] \in {call[i], Answered(call[i])}
    BY <1>0, <2>1, <2>2
  <2>5. \A i \in Calls : \/ call'[i].at = call[i].at
                         \/ call[i].at = "queued" /\ call'[i].at = "answered"
    BY <2>3, <2>4
  <2> QED
    BY <1>1, <1>7, <2>5 DEF SendOutbound
<1>8. CASE EndEarly \/ EndOrdered \/ Closed
  <2>1. ASSUME NEW i \in Calls
        PROVE  \/ call'[i].at = call[i].at
               \/ /\ call[i].at \notin {"triggering", "done"}
                  /\ call'[i].at \notin {"triggering", "done"}
    <3>1. CASE i \in OfConnection
      <4>1. call[i].at \notin {"triggering", "done"}
        BY <3>1 DEF OfConnection, Waiting
      <4>2. call'[i] \in {Left(call[i], "broken"), Signalled(call[i]), Over("aborted")}
        BY <1>8, <3>1 DEF EndEarly, EndOrdered, Closed
      <4> QED
        BY <1>0, <4>1, <4>2, TaskTypes, OverType DEF States
    <3>2. CASE i \notin OfConnection
      BY <1>8, <3>2 DEF EndEarly, EndOrdered, Closed
    <3> QED
      BY <3>1, <3>2
  <2> QED
    BY <1>1, <1>8, <2>1 DEF EndEarly, EndOrdered, Closed
<1>9. CASE Connect
  BY <1>9 DEF Connect, BacklogStep
<1>10. CASE UNCHANGED vars
  BY <1>1, <1>10 DEF vars, batches
<1> QED
  BY <1>3, <1>4, <1>5, <1>6, <1>7, <1>8, <1>9, <1>10 DEF Next, Task, BacklogStep

-----------------------------------------------------------------------------
(* Types *)

LEMMA InitInv == Init => Inv
<1> SUFFICES ASSUME Init PROVE Inv
  OBVIOUS
<1>1. TypeOK
  <2>1. NoCall \in TaskT
    BY DEF NoCall, TaskT, States
  <2> QED
    BY <2>1, ClientAssumption DEF Init, TypeOK, TaskT
<1>2. Shared /\ FlusherHolds
  BY DEF Init, Shared, Split, FlusherHolds, NoRepeats, Elements, Ended, NoCall
<1> QED
  BY <1>1, <1>2 DEF Init, Inv, FlushRuns, NoOrphans, Waiting, NoCall

LEMMA LeaveType ==
  ASSUME call \in [Calls -> TaskT], NEW i \in Calls, NEW at \in States, Leave(i, at)
  PROVE  /\ call' \in [Calls -> TaskT]
         /\ call'[i].at = at
         /\ \A j \in Calls : j # i => call'[j] = call[j]
BY OverType DEF Leave

LEMMA TriggerType ==
  ASSUME TypeOK, Trigger
  PROVE  /\ flusher' \in [at : {"off", "acquiring", "sending"}, batch : SUBSET Calls]
         /\ flusher'.batch = flusher.batch
         /\ flusher'.at = IF flusher.at = "off" /\ pending # <<>> THEN "acquiring" ELSE flusher.at
BY DEF TypeOK, Trigger

LEMMA FlushType ==
  ASSUME TypeOK, Flush
  PROVE  /\ pending' \in Seq(Calls) /\ Len(pending') <= MaxBacklog
         /\ flusher' \in [at : {"off", "acquiring", "sending"}, batch : SUBSET Calls]
         /\ settled' \subseteq Calls
<1>0. /\ pending \in Seq(Calls) /\ Len(pending) <= MaxBacklog /\ Len(pending) \in Nat
      /\ flusher.batch \subseteq Calls /\ settled \subseteq Calls /\ MaxBacklog \in Nat \ {0}
  BY ClientAssumption DEF TypeOK
<1>1. CASE FlushTake /\ pending = <<>>
  BY <1>0, <1>1 DEF FlushTake
<1>2. CASE FlushTake /\ pending # <<>>
  BY <1>0, <1>2, TailType DEF FlushTake
<1>3. CASE FlushDone
  BY <1>0, <1>3 DEF FlushDone, FlushGo
<1>4. CASE FlushRetry
  <2>1. ASSUME NEW i \in flusher.batch, Len(pending) # MaxBacklog, pending' = <<i>> \o pending
        PROVE  pending' \in Seq(Calls) /\ Len(pending') <= MaxBacklog
    BY <1>0, <2>1
  <2> QED
    BY <1>0, <1>4, <2>1 DEF FlushRetry, FlushGo
<1> QED
  BY <1>1, <1>2, <1>3, <1>4 DEF Flush

LEMMA NextType ==
  ASSUME TypeOK, [Next]_vars PROVE TypeOK'
<1> DEFINE Loop == /\ conn' \in {"down", "up", "closing"}
                   /\ call' \in [Calls -> TaskT]
                   /\ out' \in Seq(Calls) /\ Len(out') <= QueueCapacity
           Backlog == /\ pending' \in Seq(Calls) /\ Len(pending') <= MaxBacklog
                      /\ flusher' \in [at : {"off", "acquiring", "sending"}, batch : SUBSET Calls]
                      /\ settled' \subseteq Calls
<1> SUFFICES Loop /\ Backlog
  BY DEF TypeOK, TaskT
<1>0. /\ conn \in {"down", "up", "closing"} /\ call \in [Calls -> TaskT]
      /\ out \in Seq(Calls) /\ Len(out) <= QueueCapacity /\ Len(out) \in Nat
      /\ pending \in Seq(Calls) /\ Len(pending) <= MaxBacklog
      /\ flusher \in [at : {"off", "acquiring", "sending"}, batch : SUBSET Calls]
      /\ settled \subseteq Calls /\ QueueCapacity \in Nat \ {0}
  BY ClientAssumption DEF TypeOK, TaskT
<1>1. Backlog
  <2>1. CASE Quiet
    BY <1>0, <2>1 DEF Quiet, batches
  <2>2. ASSUME NEW i \in Calls, Settles(i) \/ Queues(i) PROVE Backlog
    BY <1>0, <2>2, EnqueueType DEF Settles, Queues, HandsOn
  <2>3. ASSUME NEW i \in Calls, Triggered(i) PROVE Backlog
    BY <1>0, <2>3, TriggerType DEF Triggered
  <2>4. CASE Trigger /\ UNCHANGED <<call, pending, settled>>
    BY <1>0, <2>4, TriggerType
  <2> QED
    BY BacklogSteps, FlushType, <2>1, <2>2, <2>3, <2>4 DEF BacklogStep
<1> SUFFICES Loop
  BY <1>1
<1>01. ASSUME NEW i \in Calls,
              out' = out \/ (Len(out) < QueueCapacity /\ out' = Append(out, i))
       PROVE  out' \in Seq(Calls) /\ Len(out') <= QueueCapacity
  <2>1. CASE out' = out
    BY <1>0, <2>1
  <2>2. CASE Len(out) < QueueCapacity /\ out' = Append(out, i)
    <3>1. Append(out, i) \in Seq(Calls) /\ Len(Append(out, i)) = Len(out) + 1
      BY <1>0, AppendType
    <3>2. Len(out) + 1 <= QueueCapacity
      BY <1>0, <2>2
    <3> QED
      BY <2>2, <3>1, <3>2
  <2> QED
    BY <1>01, <2>1, <2>2
<1>2. ASSUME NEW i \in Calls, Task(i) \/ ProviderEnds(i) PROVE Loop
  <2>1. ASSUME Deliver(i), UNCHANGED <<conn, out>> PROVE Loop
    BY <1>0, <2>1, AtType, LeaveType DEF Deliver, States
  <2>2. CASE Uploaded(i) \/ Triggered(i)
    BY <1>0, <2>2, LeaveType DEF Uploaded, Triggered, States
  <2>3. CASE ProviderEnds(i)
    BY <1>0, <2>3, AtType DEF ProviderEnds, States
  <2>4. CASE QueueAnswer(i)
    <3>1. call' \in [Calls -> TaskT] /\ conn' = conn
      BY <1>0, <2>4, AtType DEF QueueAnswer, States
    <3>2. out' = out \/ (Len(out) < QueueCapacity /\ out' = Append(out, i))
      BY <2>4 DEF QueueAnswer
    <3> QED
      BY <1>0, <1>01, <3>1, <3>2
  <2> QED
    BY <1>2, <2>1, <2>2, <2>3, <2>4 DEF Task, CancelledEnds, Finish
<1>3. ASSUME NEW i \in Calls, Invoke(i) \/ Reject(i) PROVE Loop
  <2>1. ASSUME NEW kind \in {"provider", "unavailable", "rejected"}, NEW at \in {"running", "answer"},
               Start(i, kind, at)
        PROVE  call' \in [Calls -> TaskT]
    <3>1. [NoCall EXCEPT !.at = at, !.of = "current", !.kind = kind] \in TaskT
      BY DEF NoCall, TaskT, States
    <3> QED
      BY <1>0, <2>1, <3>1 DEF Start
  <2>2. call' \in [Calls -> TaskT] /\ conn' = conn
    BY <1>0, <1>3, <2>1, LeaveType DEF Invoke, Reject, States
  <2>3. out' = out \/ (Len(out) < QueueCapacity /\ out' = Append(out, i))
    BY <1>3 DEF Invoke, Reject
  <2> QED
    BY <1>0, <1>01, <2>2, <2>3
<1>4. ASSUME NEW i \in Calls, Cancel(i) PROVE Loop
  BY <1>0, <1>4, TaskTypes DEF Cancel
<1>5. CASE SendOutbound
  <2>1. Head(out) \in Calls /\ Tail(out) \in Seq(Calls) /\ Len(Tail(out)) = Len(out) - 1
    BY <1>0, <1>5, TailType DEF SendOutbound
  <2>2. Answered(call[Head(out)]) \in TaskT
    BY <1>0, <2>1, TaskTypes
  <2>3. call' = [call EXCEPT ![Head(out)] = Answered(call[Head(out)])]
    BY <1>0, <1>5, <2>1 DEF SendOutbound
  <2> QED
    BY <1>0, <1>5, <2>1, <2>2, <2>3 DEF SendOutbound
<1>6. CASE EndEarly \/ EndOrdered \/ Closed
  <2>1. \A i \in Calls : {call[i], Left(call[i], "broken"), Signalled(call[i]), Over("aborted")} \subseteq TaskT
    BY <1>0, TaskTypes, OverType DEF States
  <2>2. CASE EndEarly
    BY <1>0, <2>1, <2>2 DEF EndEarly
  <2>3. CASE EndOrdered
    BY <1>0, <2>1, <2>3 DEF EndOrdered
  <2>4. CASE Closed
    BY <1>0, <2>1, <2>4 DEF Closed
  <2> QED
    BY <1>6, <2>2, <2>3, <2>4
<1>7. CASE Connect \/ Flush \/ UNCHANGED vars
  BY <1>0, <1>7 DEF Connect, Flush, FlushTake, FlushDone, FlushRetry, vars
<1> QED
  BY <1>2, <1>3, <1>4, <1>5, <1>6, <1>7 DEF Next

-----------------------------------------------------------------------------
(* The batches *)

LEMMA ElementsAppend ==
  ASSUME NEW q \in Seq(Calls), NoRepeats(q), NEW i \in Calls, i \notin Elements(q)
  PROVE  /\ Elements(Append(q, i)) = Elements(q) \cup {i}
         /\ NoRepeats(Append(q, i))
<1>1. /\ DOMAIN q = 1..Len(q) /\ Len(q) \in Nat
      /\ Append(q, i) \in Seq(Calls) /\ DOMAIN Append(q, i) = 1..(Len(q) + 1)
      /\ \A n \in 1..Len(q) : Append(q, i)[n] = q[n]
      /\ Append(q, i)[Len(q) + 1] = i
  BY AppendType, LenProperties
<1> QED
  BY <1>1 DEF Elements, NoRepeats

LEMMA ElementsTail ==
  ASSUME NEW q \in Seq(Calls), NoRepeats(q), q # <<>>
  PROVE  /\ Elements(q) = Elements(Tail(q)) \cup {Head(q)}
         /\ Head(q) \notin Elements(Tail(q))
         /\ NoRepeats(Tail(q))
<1>1. /\ DOMAIN q = 1..Len(q) /\ Len(q) \in Nat \ {0}
      /\ DOMAIN Tail(q) = 1..(Len(q) - 1)
      /\ \A n \in 1..(Len(q) - 1) : Tail(q)[n] = q[n + 1]
      /\ Head(q) = q[1]
  BY TailType, LenProperties
<1>2. Elements(q) \subseteq Elements(Tail(q)) \cup {Head(q)}
  <2>1. ASSUME NEW n \in 1..Len(q) PROVE q[n] \in Elements(Tail(q)) \cup {Head(q)}
    <3>1. CASE n = 1
      BY <1>1, <3>1
    <3>2. CASE n # 1
      <4>1. n - 1 \in 1..(Len(q) - 1) /\ Tail(q)[n - 1] = q[n]
        BY <1>1, <3>2
      <4> QED
        BY <1>1, <4>1 DEF Elements
    <3> QED
      BY <3>1, <3>2
  <2> QED
    BY <1>1, <2>1 DEF Elements
<1>3. Elements(Tail(q)) \cup {Head(q)} \subseteq Elements(q)
  BY <1>1 DEF Elements
<1>4. Head(q) \notin Elements(Tail(q)) /\ NoRepeats(Tail(q))
  BY <1>1 DEF Elements, NoRepeats
<1> QED
  BY <1>2, <1>3, <1>4

LEMMA ElementsPush ==
  ASSUME NEW q \in Seq(Calls), NoRepeats(q), NEW i \in Calls, i \notin Elements(q)
  PROVE  /\ Elements(<<i>> \o q) = Elements(q) \cup {i}
         /\ NoRepeats(<<i>> \o q)
<1> DEFINE p == <<i>> \o q
<1>1. p \in Seq(Calls) /\ p # <<>> /\ Head(p) = i /\ Tail(p) = q /\ Len(p) = Len(q) + 1
  OBVIOUS
<1>2. /\ DOMAIN p = 1..(Len(q) + 1) /\ Len(q) \in Nat /\ DOMAIN q = 1..Len(q)
      /\ p[1] = i /\ \A n \in 1..Len(q) : p[n + 1] = q[n]
  BY <1>1, TailType, LenProperties
<1> HIDE DEF p
<1>3. \A n \in 1..(Len(q) + 1) : n = 1 \/ (n - 1 \in 1..Len(q) /\ p[n] = q[n - 1])
  BY <1>2
<1>4. Elements(p) = Elements(q) \cup {i}
  <2>1. \A x : x \in Elements(p) <=> \E n \in 1..(Len(q) + 1) : p[n] = x
    BY <1>2 DEF Elements
  <2>2. \A x : x \in Elements(q) <=> \E n \in 1..Len(q) : q[n] = x
    BY <1>2 DEF Elements
  <2>3. ASSUME NEW x \in Elements(p) PROVE x \in Elements(q) \cup {i}
    BY <1>2, <1>3, <2>1, <2>2
  <2>4. ASSUME NEW n \in 1..Len(q) PROVE q[n] \in Elements(p)
    BY <1>2, <2>1, n + 1 \in 1..(Len(q) + 1)
  <2>5. i \in Elements(p)
    BY <1>2, <2>1, 1 \in 1..(Len(q) + 1)
  <2> QED
    BY <2>2, <2>3, <2>4, <2>5
<1>5. ASSUME NEW m \in 1..(Len(q) + 1), NEW n \in 1..(Len(q) + 1), p[m] = p[n]
      PROVE  m = n
  <2>1. \A k \in 1..Len(q) : q[k] # i
    BY <1>2 DEF Elements
  <2>2. \A k, l \in 1..Len(q) : q[k] = q[l] => k = l
    BY <1>2 DEF NoRepeats
  <2>3. CASE m = 1 \/ n = 1
    BY <1>2, <1>3, <1>5, <2>1, <2>3
  <2>4. CASE m # 1 /\ n # 1
    <3>1. m - 1 \in 1..Len(q) /\ n - 1 \in 1..Len(q) /\ q[m - 1] = q[n - 1]
      BY <1>3, <1>5, <2>4
    <3>2. m - 1 = n - 1
      BY <2>2, <3>1
    <3> QED
      BY <3>2
  <2> QED
    BY <2>3, <2>4
<1>6. NoRepeats(p)
  BY <1>2, <1>5 DEF NoRepeats
<1> QED
  BY <1>4, <1>6 DEF p

(* A call that ends owns a batch that is nowhere yet; it is given to the   *)
(* backlog, which drops its oldest one if it is full.                      *)
LEMMA EnqueueShares ==
  ASSUME TypeOK, Shared, NEW i \in Calls \ Ended, Enqueue(i)
  PROVE  /\ NoRepeats(pending')
         /\ Split(Elements(pending'), flusher.batch, settled', Ended \cup {i})
<1>0. /\ pending \in Seq(Calls) /\ MaxBacklog \in Nat \ {0}
      /\ NoRepeats(pending) /\ Split(Elements(pending), flusher.batch, settled, Ended)
      /\ i \notin Elements(pending) /\ i \notin flusher.batch /\ i \notin settled
  BY ClientAssumption DEF TypeOK, Shared, Split
<1>1. CASE Len(pending) = MaxBacklog
  <2>1. pending # <<>>
    BY <1>0, <1>1
  <2>2. /\ Tail(pending) \in Seq(Calls) /\ NoRepeats(Tail(pending))
        /\ Elements(pending) = Elements(Tail(pending)) \cup {Head(pending)}
        /\ Head(pending) \notin Elements(Tail(pending))
    BY <1>0, <2>1, TailType, ElementsTail
  <2>3. /\ NoRepeats(Append(Tail(pending), i))
        /\ Elements(Append(Tail(pending), i)) = Elements(Tail(pending)) \cup {i}
    BY <1>0, <2>2, ElementsAppend
  <2>4. pending' = Append(Tail(pending), i) /\ settled' = settled \cup {Head(pending)}
    BY <1>1 DEF Enqueue
  <2>5. i \notin Elements(Tail(pending)) /\ i # Head(pending)
    BY <1>0, <2>2
  <2> QED
    BY <1>0, <2>2, <2>3, <2>4, <2>5 DEF Split
<1>2. CASE Len(pending) # MaxBacklog
  <2>1. pending' = Append(pending, i) /\ settled' = settled
    BY <1>2 DEF Enqueue
  <2>2. NoRepeats(pending') /\ Elements(pending') = Elements(pending) \cup {i}
    BY <1>0, <2>1, ElementsAppend
  <2> QED
    BY <1>0, <2>1, <2>2 DEF Split
<1> QED
  BY <1>1, <1>2

LEMMA FlushShares ==
  ASSUME TypeOK, Shared, FlusherHolds, Flush
  PROVE  /\ NoRepeats(pending') /\ FlusherHolds'
         /\ Split(Elements(pending'), flusher'.batch, settled', Ended)
<1>0. /\ pending \in Seq(Calls) /\ flusher.batch \subseteq Calls
      /\ NoRepeats(pending) /\ Split(Elements(pending), flusher.batch, settled, Ended)
  BY DEF TypeOK, Shared
<1>1. CASE FlushTake
  <2>1. flusher.batch = {}
    BY <1>1 DEF FlushTake, FlusherHolds
  <2>2. CASE pending = <<>>
    BY <1>0, <1>1, <2>1, <2>2 DEF FlushTake, FlusherHolds, Split
  <2>3. CASE pending # <<>>
    <3>1. /\ pending' = Tail(pending) /\ settled' = settled
          /\ flusher'.at = "sending" /\ flusher'.batch = {Head(pending)}
      BY <1>1, <2>3 DEF FlushTake
    <3>2. Head(pending) \in Calls
      BY <1>0, <2>3, TailType
    <3>3. FlusherHolds'
      BY <3>1, <3>2 DEF FlusherHolds
    <3> QED
      BY <1>0, <2>1, <2>3, <3>1, <3>3, ElementsTail DEF Split
  <2> QED
    BY <2>2, <2>3
<1>2. CASE FlushDone
  BY <1>0, <1>2 DEF FlushDone, FlushGo, FlusherHolds, Split
<1>3. CASE FlushRetry
  <2>1. PICK i \in Calls : flusher.batch = {i}
    BY <1>3 DEF FlushRetry, FlusherHolds
  <2>2. flusher'.at = "acquiring" /\ flusher'.batch = {}
    BY <1>3 DEF FlushRetry, FlushGo
  <2>3. CASE pending' = pending /\ settled' = settled \cup flusher.batch
    BY <1>0, <2>2, <2>3 DEF FlusherHolds, Split
  <2>4. CASE pending' = <<i>> \o pending /\ settled' = settled
    <3>1. i \notin Elements(pending)
      BY <1>0, <2>1 DEF Split
    <3>2. NoRepeats(pending') /\ Elements(pending') = Elements(pending) \cup {i}
      BY <1>0, <2>4, <3>1, ElementsPush
    <3> QED
      BY <1>0, <2>1, <2>2, <2>4, <3>2 DEF FlusherHolds, Split
  <2> QED
    BY <1>3, <2>1, <2>3, <2>4 DEF FlushRetry
<1> QED
  BY <1>1, <1>2, <1>3 DEF Flush

LEMMA NextShared ==
  ASSUME TypeOK, Shared, FlusherHolds, [Next]_vars
  PROVE  Shared' /\ FlusherHolds'
<1>0. call \in [Calls -> TaskT]
  BY DEF TypeOK, TaskT
<1>1. CASE Quiet
  <2>1. Ended' = Ended
    BY <1>1 DEF Quiet, Ended
  <2> QED
    BY <1>1, <2>1 DEF Quiet, batches, Shared, FlusherHolds
<1>2. ASSUME NEW i \in Calls, Settles(i) \/ Queues(i) PROVE Shared' /\ FlusherHolds'
  <2>1. Ended' = Ended \cup {i} /\ i \notin Ended /\ flusher' = flusher
    BY <1>0, <1>2, LeaveType DEF Settles, Queues, HandsOn, Ended, States
  <2>2. CASE Settles(i)
    BY <2>1, <2>2 DEF Settles, Shared, FlusherHolds, Split
  <2>3. CASE Queues(i)
    BY <2>1, <2>3, EnqueueShares DEF Queues, Shared, FlusherHolds
  <2> QED
    BY <1>2, <2>2, <2>3
<1>3. ASSUME Trigger, UNCHANGED <<pending, settled>>, Ended' = Ended
      PROVE  Shared' /\ FlusherHolds'
  BY <1>3, TriggerType DEF Shared, FlusherHolds
<1>4. ASSUME NEW i \in Calls, Triggered(i) PROVE Shared' /\ FlusherHolds'
  <2>1. Ended' = Ended
    BY <1>0, <1>4, LeaveType DEF Triggered, Ended, States
  <2> QED
    BY <1>3, <1>4, <2>1 DEF Triggered
<1>5. CASE Trigger /\ UNCHANGED <<call, pending, settled>>
  BY <1>3, <1>5 DEF Ended
<1>6. CASE Flush
  <2>1. Ended' = Ended
    BY <1>6 DEF Flush, FlushTake, FlushDone, FlushRetry, Ended
  <2> QED
    BY <1>6, <2>1, FlushShares DEF Shared
<1> QED
  BY BacklogSteps, <1>1, <1>2, <1>4, <1>5, <1>6 DEF BacklogStep

-----------------------------------------------------------------------------
(* The flusher and the tasks *)

LEMMA NextFlushRuns ==
  ASSUME TypeOK, FlushRuns, [Next]_vars
  PROVE  FlushRuns'
<1> DEFINE Starts == \E j \in Calls : call'[j].at = "triggering"
<1> SUFFICES pending' # <<>> => flusher'.at # "off" \/ Starts
  BY DEF FlushRuns
<1>0. call \in [Calls -> TaskT]
  BY DEF TypeOK, TaskT
<1>1. CASE Quiet
  BY <1>1 DEF Quiet, batches, FlushRuns
<1>2. ASSUME NEW i \in Calls, Settles(i) \/ Queues(i) PROVE Starts
  BY <1>0, <1>2, LeaveType DEF Settles, Queues, HandsOn, States
<1>3. ASSUME Trigger, UNCHANGED pending PROVE pending' # <<>> => flusher'.at # "off"
  BY <1>3, TriggerType
<1>4. CASE Flush
  BY <1>4 DEF Flush, FlushTake, FlushDone, FlushRetry, FlushGo
<1> QED
  BY BacklogSteps, <1>1, <1>2, <1>3, <1>4 DEF BacklogStep, Triggered

LEMMA NextNoOrphans ==
  ASSUME TypeOK, NoOrphans, [Next]_vars
  PROVE  NoOrphans'
<1> DEFINE Live == {"running", "answer", "queued", "answered", "uploading"}
           Fine(i) == call'[i].at \in Live =>
                        call'[i].of = "broken" \/ (call'[i].of = "current" /\ conn' # "down")
<1> SUFFICES \A i \in Calls : Fine(i)
  BY DEF NoOrphans, Waiting
<1>0. /\ call \in [Calls -> TaskT] /\ out \in Seq(Calls)
      /\ \A i \in Calls : call[i].at \in Live =>
           call[i].of = "broken" \/ (call[i].of = "current" /\ conn # "down")
  BY DEF TypeOK, TaskT, NoOrphans, Waiting
<1>1. ASSUME NEW i \in Calls, \/ call'[i] = call[i]
                              \/ call[i].at \in Live /\ call'[i].of = call[i].of,
             conn # "down" => conn' # "down"
      PROVE  Fine(i)
  BY <1>0, <1>1
<1>2. ASSUME NEW i \in Calls, Task(i) \/ ProviderEnds(i), NEW j \in Calls PROVE Fine(j)
  <2>1. conn' = conn
    BY <1>2 DEF Task, CancelledEnds, QueueAnswer, Finish, Uploaded, Triggered, ProviderEnds
  <2>2. ASSUME NEW at \in States, At(i, at), call[i].at \in Live PROVE Fine(j)
    BY <1>0, <1>1, <2>1, <2>2, AtType
  <2>3. ASSUME NEW at \in {"triggering", "done"}, Leave(i, at) PROVE Fine(j)
    BY <1>0, <1>1, <2>1, <2>3, LeaveType DEF States
  <2>4. \/ \E at \in States : At(i, at) /\ call[i].at \in Live
        \/ \E at \in {"triggering", "done"} : Leave(i, at)
    BY <1>2 DEF Task, CancelledEnds, QueueAnswer, Finish, Uploaded, Triggered, ProviderEnds,
                Deliver, States
  <2> QED
    BY <2>2, <2>3, <2>4
<1>3. ASSUME NEW i \in Calls, Invoke(i) \/ Reject(i), NEW j \in Calls PROVE Fine(j)
  <2>1. conn' = conn /\ conn = "up"
    BY <1>3 DEF Invoke, Reject
  <2>2. ASSUME NEW kind, NEW at, Start(i, kind, at) PROVE Fine(j)
    BY <1>0, <1>1, <2>1, <2>2 DEF Start, NoCall
  <2>3. ASSUME Leave(i, "triggering") PROVE Fine(j)
    BY <1>0, <1>1, <2>1, <2>3, LeaveType DEF States
  <2> QED
    BY <1>3, <2>2, <2>3 DEF Invoke, Reject
<1>4. ASSUME NEW i \in Calls, Cancel(i), NEW j \in Calls PROVE Fine(j)
  <2>1. i \in OfConnection /\ call[i].at \in Live /\ conn' = conn
    BY <1>4 DEF Cancel, OfConnection, Waiting
  <2>2. call' = [call EXCEPT ![i] = Signalled(call[i])]
    BY <1>4 DEF Cancel
  <2>3. Signalled(call[i]).at # "aborted" => Signalled(call[i]).of = call[i].of
    BY <1>0, TaskTypes
  <2> QED
    BY <1>0, <1>1, <2>1, <2>2, <2>3
<1>5. ASSUME SendOutbound, NEW j \in Calls PROVE Fine(j)
  <2>1. Head(out) \in Calls /\ conn' = conn
    BY <1>0, <1>5, TailType DEF SendOutbound
  <2>2. call' = [call EXCEPT ![Head(out)] = Answered(call[Head(out)])]
    BY <1>0, <1>5, <2>1 DEF SendOutbound
  <2>3. call'[j] \in {call[j], Answered(call[j])}
    BY <1>0, <2>1, <2>2
  <2>4. /\ Answered(call[j]).of = call[j].of
        /\ Answered(call[j]).at = IF call[j].at = "queued" THEN "answered" ELSE call[j].at
    BY <1>0, TaskTypes
  <2> QED
    BY <1>0, <1>1, <2>1, <2>3, <2>4
<1>6. ASSUME EndEarly \/ EndOrdered \/ Closed, NEW j \in Calls PROVE Fine(j)
  <2>1. CASE j \notin OfConnection
    <3>1. call'[j] = call[j]
      BY <1>6, <2>1 DEF EndEarly, EndOrdered, Closed
    <3>2. call[j].at \in Live => call[j].of = "broken"
      BY <1>0, <2>1 DEF OfConnection, Waiting
    <3> QED
      BY <3>1, <3>2
  <2>2. CASE j \in OfConnection
    <3>1. call[j].at \in Live /\ call[j].of = "current"
      BY <2>2 DEF OfConnection, Waiting
    <3>2. CASE EndEarly
      <4>1. call'[j] = Left(call[j], "broken")
        BY <2>2, <3>2 DEF EndEarly
      <4> QED
        BY <1>0, <4>1, TaskTypes
    <3>3. CASE EndOrdered
      <4>1. call'[j] = Signalled(call[j]) /\ conn' = "closing"
        BY <2>2, <3>3 DEF EndOrdered
      <4> QED
        BY <1>0, <3>1, <4>1, TaskTypes
    <3>4. CASE Closed
      <4>1. call'[j] = Over("aborted")
        BY <2>2, <3>4 DEF Closed
      <4> QED
        BY <4>1, OverType DEF States
    <3> QED
      BY <1>6, <3>2, <3>3, <3>4
  <2> QED
    BY <2>1, <2>2
<1>7. ASSUME Connect \/ Flush \/ UNCHANGED vars, NEW j \in Calls PROVE Fine(j)
  BY <1>0, <1>7 DEF Connect, Flush, FlushTake, FlushDone, FlushRetry, vars
<1> QED
  BY <1>2, <1>3, <1>4, <1>5, <1>6, <1>7 DEF Next

-----------------------------------------------------------------------------
(* Theorems *)

LEMMA Invariance == Spec => []Inv
<1>1. Inv /\ [Next]_vars => Inv'
  BY NextType, NextShared, NextFlushRuns, NextNoOrphans DEF Inv
<1> QED
  BY InitInv, <1>1, PTL DEF Spec

(* The outbound queue and the backlog keep to their limits.                *)
THEOREM ClientTypes == Spec => []TypeOK
<1>1. Inv => TypeOK
  BY DEF Inv
<1> QED
  BY Invariance, <1>1, PTL

(* In a sequence without repetitions a call is at one index or none.       *)
LEMMA CountOfOne ==
  ASSUME NEW q \in Seq(Calls), NoRepeats(q), NEW i
  PROVE  Cardinality({n \in DOMAIN q : q[n] = i}) = IF i \in Elements(q) THEN 1 ELSE 0
<1>1. CASE i \in Elements(q)
  <2>1. PICK m \in DOMAIN q : q[m] = i
    BY <1>1 DEF Elements
  <2>2. {n \in DOMAIN q : q[n] = i} = {m}
    BY <2>1 DEF NoRepeats
  <2> QED
    BY <1>1, <2>2, FS_Singleton
<1>2. CASE i \notin Elements(q)
  <2>1. {n \in DOMAIN q : q[n] = i} = {}
    BY <1>2 DEF Elements
  <2> QED
    BY <1>2, <2>1, FS_EmptySet
<1> QED
  BY <1>1, <1>2

(* The batch of an ended call is queued, with the flusher or settled, once;*)
(* that of any other call is nowhere.                                      *)
THEOREM BatchesAreAccounted == Spec => []BatchesAccounted
<1>1. Inv => BatchesAccounted
  <2> SUFFICES ASSUME Inv, NEW i \in Calls
               PROVE  Places(i) = IF i \in Ended THEN 1 ELSE 0
    BY DEF BatchesAccounted, Ended
  <2>1. Cardinality({n \in DOMAIN pending : pending[n] = i})
          = IF i \in Elements(pending) THEN 1 ELSE 0
    BY CountOfOne DEF Inv, TypeOK, Shared
  <2>2. Split(Elements(pending), flusher.batch, settled, Ended)
    BY DEF Inv, Shared
  <2> QED
    BY <2>1, <2>2 DEF Split, Places
<1> QED
  BY Invariance, <1>1, PTL

(* The backlog is never left with batches and nobody to flush it.          *)
THEOREM BacklogHasFlusher == Spec => []FlushRuns
<1>1. Inv => FlushRuns
  BY DEF Inv
<1> QED
  BY Invariance, <1>1, PTL

(* The orderly end of a connection leaves no task of it behind.            *)
THEOREM NoTaskOrphaned == Spec => []NoOrphans
<1>1. Inv => NoOrphans
  BY DEF Inv
<1> QED
  BY Invariance, <1>1, PTL
=============================================================================
