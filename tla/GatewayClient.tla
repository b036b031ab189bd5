----------------------------- MODULE GatewayClient -----------------------------
(* The Gateway's side of a connection: the select loop of run_connection,    *)
(* the tasks of its calls (InvocationDelivery) and the telemetry backlog,    *)
(* which outlives the connections.                                           *)
(*                                                                           *)
(* A request id names a call and its telemetry batch; ids are numbers in the *)
(* order of their requests.  What lies between two awaits of a task is one   *)
(* action, unless another thread can tell.  RelayHub has the server's side   *)
(* of the calls.                                                             *)
EXTENDS Integers, Sequences, FiniteSets

CONSTANTS
  MaxRequests,      \* bound: requests
  MaxCalls,         \* MAX_CONCURRENT_CALLS
  MaxRejections,    \* MAX_CONCURRENT_REJECTION_DELIVERIES
  QueueCapacity,    \* OUTBOUND_QUEUE_CAPACITY
  MaxUploads,       \* MAX_CONCURRENT_TELEMETRY_UPLOADS
  MaxBacklog        \* MAX_PENDING_TELEMETRY_BATCHES

ASSUME ClientAssumption ==
  /\ MaxRequests \in Nat /\ MaxCalls \in Nat /\ MaxRejections \in Nat
  /\ QueueCapacity \in Nat \ {0}
  /\ MaxUploads \in Nat \ {0}
  /\ MaxBacklog \in Nat \ {0}

VARIABLES
  conn,         \* the loop of the current connection
  call,         \* call[i]: the task of the call (see NoCall)
  out,          \* outbound queue of the current connection
  pending,      \* TelemetryBacklogState::pending
  flusher,      \* flush_telemetry_backlog; it runs iff flushing is set
  settled       \* batches the server acknowledged, and those counted as dropped

vars == <<conn, call, out, pending, flusher, settled>>

batches == <<pending, flusher, settled>>

Calls == 1..MaxRequests

(* A task: where it is; whether its connection is the current one, broke or  *)
(* ended in order; what kind of call it is; whether its CancellationToken is *)
(* cancelled.  Nothing but the first matters once it has uploaded its batch. *)
NoCall == [at |-> "none", of |-> "none", kind |-> "none", cancelled |-> FALSE]

Init ==
  /\ conn = "down"
  /\ call = [i \in Calls |-> NoCall]
  /\ out = <<>>
  /\ pending = <<>>
  /\ flusher = [at |-> "off", batch |-> {}]
  /\ settled = {}

-----------------------------------------------------------------------------
(* Tasks.                                                                    *)

(* Tasks that can still be aborted: those at an await.                       *)
Waiting ==
  {i \in Calls : call[i].at \in {"running", "answer", "queued", "answered", "uploading"}}

OfConnection == {i \in Waiting : call[i].of = "current"}

(* The semaphores: of the connection for calls and for rejections, of the    *)
(* process for uploads.                                                      *)
CallPermit ==
  Cardinality({i \in OfConnection : call[i].kind \in {"provider", "unavailable"}
                                    /\ call[i].at # "uploading"}) < MaxCalls
RejectionSlot ==
  Cardinality({i \in OfConnection : call[i].kind = "rejected"}) < MaxRejections
UploadPermit ==
  Cardinality({i \in Calls : call[i].at = "uploading"})
    + (IF flusher.at = "sending" THEN 1 ELSE 0) < MaxUploads

At(i, at) == call' = [call EXCEPT ![i].at = at]

Over(at) == [NoCall EXCEPT !.at = at]

Leave(i, at) == call' = [call EXCEPT ![i] = Over(at)]

-----------------------------------------------------------------------------
(* The backlog.                                                              *)

(* Mutation: the batch that makes room is not counted.                       *)
Enqueue_Forget(i) ==
  /\ pending' = Append(IF Len(pending) = MaxBacklog THEN Tail(pending) ELSE pending, i)
  /\ UNCHANGED settled

(* enqueue_telemetry_batch.                                                  *)
Enqueue(i) ==
  IF Len(pending) = MaxBacklog
  THEN /\ pending' = Append(Tail(pending), i)
       /\ settled' = settled \cup {Head(pending)}
  ELSE /\ pending' = Append(pending, i)
       /\ UNCHANGED settled

(* trigger_telemetry_flush.                                                  *)
Trigger ==
  flusher' = IF flusher.at = "off" /\ pending # <<>>
             THEN [flusher EXCEPT !.at = "acquiring"] ELSE flusher

(* The end of finish, finish_cancelled and finish_shed: the permit of the    *)
(* call is dropped, and the batch is uploaded or goes to the backlog.        *)
Deliver(i) ==
  IF UploadPermit
  THEN /\ At(i, "uploading")
       /\ UNCHANGED batches
  ELSE /\ Enqueue(i)
       /\ Leave(i, "triggering")
       /\ UNCHANGED flusher

(* The upload of a call's batch is acknowledged or refused for good, or fails *)
(* so that it is worth another try; the request has a timeout.               *)
Uploaded(i) ==
  /\ call[i].at = "uploading"
  /\ Leave(i, "triggering")
  /\ \/ settled' = settled \cup {i} /\ UNCHANGED pending
     \/ Enqueue(i)
  /\ UNCHANGED <<conn, out, flusher>>

(* Mutation: only the tasks that found no upload permit start a flush.       *)
Triggered_Sometimes(i) ==
  /\ call[i].at = "triggering"
  /\ IF UploadPermit THEN UNCHANGED flusher ELSE Trigger
  /\ Leave(i, "done")
  /\ UNCHANGED <<conn, out, pending, settled>>

Triggered(i) ==
  /\ call[i].at = "triggering"
  /\ Trigger
  /\ Leave(i, "done")
  /\ UNCHANGED <<conn, out, pending, settled>>

FlushTake ==
  /\ flusher.at = "acquiring"
  /\ UploadPermit
  /\ IF pending = <<>>
     THEN /\ flusher' = [at |-> "off", batch |-> {}]
          /\ UNCHANGED pending
     ELSE /\ flusher' = [at |-> "sending", batch |-> {Head(pending)}]
          /\ pending' = Tail(pending)
  /\ UNCHANGED <<conn, call, out, settled>>

FlushGo == flusher' = [at |-> "acquiring", batch |-> {}]

(* The batch is acknowledged, or refused for good.                           *)
FlushDone ==
  /\ flusher.at = "sending"
  /\ settled' = settled \cup flusher.batch
  /\ FlushGo
  /\ UNCHANGED <<conn, call, out, pending>>

(* Mutation: the flusher leaves it to the next trigger.                      *)
FlushRetry_Stop ==
  /\ flusher.at = "sending"
  /\ IF Len(pending) = MaxBacklog
     THEN settled' = settled \cup flusher.batch /\ UNCHANGED pending
     ELSE \E i \in flusher.batch : pending' = <<i>> \o pending /\ UNCHANGED settled
  /\ flusher' = [at |-> "off", batch |-> {}]
  /\ UNCHANGED <<conn, call, out>>

(* A retryable failure: the batch goes back to the front, or is dropped if   *)
(* the backlog has filled up meanwhile; the flusher sleeps before it goes on. *)
FlushRetry ==
  /\ flusher.at = "sending"
  /\ IF Len(pending) = MaxBacklog
     THEN settled' = settled \cup flusher.batch /\ UNCHANGED pending
     ELSE \E i \in flusher.batch : pending' = <<i>> \o pending /\ UNCHANGED settled
  /\ FlushGo
  /\ UNCHANGED <<conn, call, out>>

-----------------------------------------------------------------------------
(* The tasks of the calls.                                                   *)

(* The provider returns, and the call was not cancelled before that.         *)
ProviderEnds(i) ==
  /\ call[i].at = "running"
  /\ ~call[i].cancelled
  /\ At(i, "answer")
  /\ UNCHANGED <<conn, out, batches>>

(* finish_cancelled, after at most PROVIDER_CANCELLATION_GRACE.              *)
CancelledEnds(i) ==
  /\ call[i].at = "running"
  /\ call[i].cancelled
  /\ Deliver(i)
  /\ UNCHANGED <<conn, out>>

(* Mutation: a task waits for room in the queue of a connection that is gone. *)
QueueAnswer_Wait(i) ==
  /\ call[i].at = "answer"
  /\ call[i].of = "current"
  /\ Len(out) < QueueCapacity
  /\ out' = Append(out, i)
  /\ At(i, "queued")
  /\ UNCHANGED <<conn, batches>>

(* finish: the answer is queued when there is room, or the queue is gone.    *)
QueueAnswer(i) ==
  /\ call[i].at = "answer"
  /\ IF call[i].of = "current"
     THEN /\ Len(out) < QueueCapacity
          /\ out' = Append(out, i)
          /\ At(i, "queued")
     ELSE /\ At(i, "answered")
          /\ UNCHANGED out
  /\ UNCHANGED <<conn, batches>>

(* finish goes on when it knows whether the answer was sent.                 *)
Finish(i) ==
  /\ call[i].at = "answered"
  /\ Deliver(i)
  /\ UNCHANGED <<conn, out>>

-----------------------------------------------------------------------------
(* The connection.                                                           *)

(* The Welcome is accepted and the loop starts.                              *)
Connect ==
  /\ conn = "down"
  /\ conn' = "up"
  /\ Trigger
  /\ UNCHANGED <<call, out, pending, settled>>

Fresh(i) == call[i] = NoCall /\ \A j \in 1..(i - 1) : call[j] # NoCall

Start(i, kind, at) ==
  call' = [call EXCEPT ![i] = [NoCall EXCEPT !.at = at, !.of = "current", !.kind = kind]]

(* Invoke, with a permit: the provider is called, or there is none.          *)
Invoke(i) ==
  /\ conn = "up"
  /\ Fresh(i)
  /\ CallPermit
  /\ Start(i, "provider", "running") \/ Start(i, "unavailable", "answer")
  /\ UNCHANGED <<conn, out, batches>>

(* Invoke at the limit: BACKPRESSURE is delivered by a task of its own, or   *)
(* by finish_shed, which does not wait for anything.                         *)
Reject(i) ==
  /\ conn = "up"
  /\ Fresh(i)
  /\ ~CallPermit
  /\ \/ /\ RejectionSlot
        /\ Start(i, "rejected", "answer")
        /\ UNCHANGED <<out, pending, settled>>
     \/ /\ ~RejectionSlot
        /\ out' = IF Len(out) < QueueCapacity THEN Append(out, i) ELSE out
        /\ Enqueue(i)
        /\ Leave(i, "triggering")
  /\ UNCHANGED <<conn, flusher>>

(* A call of a provider is signalled, a preflight failure aborted.           *)
Signalled(c) ==
  IF c.kind = "provider" THEN [c EXCEPT !.cancelled = TRUE] ELSE Over("aborted")

(* Cancel, for a call in the table of this connection.                       *)
Cancel(i) ==
  /\ conn = "up"
  /\ i \in OfConnection
  /\ call' = [call EXCEPT ![i] = Signalled(call[i])]
  /\ UNCHANGED <<conn, out, batches>>

Answered(c) == [c EXCEPT !.at = IF @ = "queued" THEN "answered" ELSE @]

(* The loop sends what was queued first.                                     *)
SendOutbound ==
  /\ conn = "up"
  /\ out # <<>>
  /\ out' = Tail(out)
  /\ call' = [call EXCEPT ![Head(out)] = Answered(@)]
  /\ UNCHANGED <<conn, batches>>

(* The queue is gone, and the connection of task c.                          *)
Left(c, of) == [Answered(c) EXCEPT !.of = of]

(* An error returns from the loop at once (a frame that cannot be sent, a    *)
(* bad frame, a missing heartbeat): the queue is dropped, and so are the     *)
(* handles of the calls, which detaches their tasks.                         *)
EndEarly ==
  /\ conn = "up"
  /\ conn' = "down"
  /\ call' = [i \in Calls |->
                IF i \in OfConnection THEN Left(call[i], "broken") ELSE call[i]]
  /\ out' = <<>>
  /\ UNCHANGED batches

(* The server closes the connection, replaces or revokes it, or the process  *)
(* is told to stop: calls of providers are signalled, the others aborted.    *)
EndOrdered ==
  /\ conn = "up"
  /\ conn' = "closing"
  /\ call' = [i \in Calls |-> IF i \in OfConnection THEN Signalled(call[i]) ELSE call[i]]
  /\ UNCHANGED <<out, batches>>

(* Mutation: the calls that do not end in time are left alone.               *)
Closed_Detach ==
  /\ conn = "closing"
  /\ conn' = "down"
  /\ call' = [i \in Calls |->
                IF i \in OfConnection THEN Left(call[i], "ended") ELSE call[i]]
  /\ out' = <<>>
  /\ UNCHANGED batches

(* All calls have ended, or a second has passed: what is left is aborted.    *)
Closed ==
  /\ conn = "closing"
  /\ conn' = "down"
  /\ call' = [i \in Calls |-> IF i \in OfConnection THEN Over("aborted") ELSE call[i]]
  /\ out' = <<>>
  /\ UNCHANGED batches

Flush == FlushTake \/ FlushDone \/ FlushRetry

(* A step of a task that no one else is needed for.                          *)
Task(i) == CancelledEnds(i) \/ QueueAnswer(i) \/ Finish(i) \/ Uploaded(i) \/ Triggered(i)

Next ==
  \/ Connect \/ SendOutbound \/ EndEarly \/ EndOrdered \/ Closed \/ Flush
  \/ \E i \in Calls : Invoke(i) \/ Reject(i) \/ Cancel(i) \/ ProviderEnds(i) \/ Task(i)

(* Tasks run, requests and the grace period have timeouts, the loop sends    *)
(* what is queued.  Providers and the server owe nothing.                    *)
Fairness ==
  /\ WF_vars(SendOutbound) /\ WF_vars(Closed) /\ WF_vars(Flush)
  /\ \A i \in Calls : WF_vars(Task(i))

Spec == Init /\ [][Next]_vars /\ Fairness

-----------------------------------------------------------------------------
States == {"none", "running", "answer", "queued", "answered", "uploading",
           "triggering", "done", "aborted"}

(* Every variable keeps its kind of value; the queue and the backlog keep to *)
(* their limits.                                                             *)
TypeOK ==
  /\ conn \in {"down", "up", "closing"}
  /\ call \in [Calls -> [at : States, of : {"none", "current", "broken", "ended"},
                         kind : {"none", "provider", "unavailable", "rejected"},
                         cancelled : BOOLEAN]]
  /\ out \in Seq(Calls) /\ Len(out) <= QueueCapacity
  /\ pending \in Seq(Calls) /\ Len(pending) <= MaxBacklog
  /\ flusher \in [at : {"off", "acquiring", "sending"}, batch : SUBSET Calls]
  /\ settled \subseteq Calls

Places(i) ==
  Cardinality({n \in DOMAIN pending : pending[n] = i})
    + (IF i \in flusher.batch THEN 1 ELSE 0) + (IF i \in settled THEN 1 ELSE 0)

(* The batch of a call that has ended is in one place: queued, in flight,    *)
(* acknowledged or counted as dropped, however uploads, retries and a full   *)
(* backlog interleave; that of any other call is in none.                    *)
BatchesAccounted ==
  \A i \in Calls : Places(i) = IF call[i].at \in {"triggering", "done"} THEN 1 ELSE 0

(* Queued batches have a flusher, or a task that is about to start it: none  *)
(* waits for the next connection.                                            *)
FlushRuns ==
  pending # <<>> => flusher.at # "off" \/ \E i \in Calls : call[i].at = "triggering"

(* After a connection has ended in order none of its calls goes on; only an  *)
(* error leaves tasks behind, which no Cancel reaches.                       *)
NoOrphans ==
  \A i \in Waiting : call[i].of = "broken" \/ (call[i].of = "current" /\ conn # "down")

(* The task of a call ends once its provider has, or once it is cancelled,   *)
(* whatever the provider, the queue, the server and the connection do: its   *)
(* permit comes back.                                                        *)
TasksEnd ==
  \A i \in Calls :
    i \in Waiting /\ (call[i].at # "running" \/ call[i].cancelled)
      ~> call[i].at \in {"done", "aborted"}

(* Once uploads stop failing retryably, the backlog drains.                  *)
BacklogDrains == <>[][~FlushRetry]_vars => (pending # <<>> ~> pending = <<>>)
=============================================================================
