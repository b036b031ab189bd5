------------------------- MODULE InvocationRegistry -------------------------
(***************************************************************************)
(* The invocation registry of the embedded runtime, together with the      *)
(* bounded command queue and the tasks of its worker thread               *)
(* (crates/vifu-runtime/src/application.rs).                               *)
(*                                                                         *)
(* Three kinds of threads meet here: application threads (start_invoke,    *)
(* cancel_invocation, drain_invocation_events, take_invocation), the       *)
(* worker thread with one task per invocation, and provider threads that   *)
(* push events through the sink they were given.  Each action is one       *)
(* critical section of the registry mutex, so the steps of a call that     *)
(* takes the mutex twice (cancel_invocation) are separate actions.         *)
(*                                                                         *)
(* The map `entries` is split into one function per field.  The output     *)
(* and error of a poll are abstracted away; an output delta carries the    *)
(* numbers of the provider's deltas it holds, so that loss, duplication    *)
(* and reordering are visible.                                             *)
(***************************************************************************)
EXTENDS Integers, Sequences, FiniteSets

CONSTANTS
  MaxHandle,       \* bound: how many handles next_invocation hands out
  MaxInFlight,     \* MAX_IN_FLIGHT_INVOCATIONS
  MaxRetained,     \* MAX_RETAINED_INVOCATIONS
  MaxEvents,       \* MAX_RETAINED_INVOCATION_EVENTS
  MaxCoalesced,    \* MAX_COALESCED_EVENT_BYTES, counted in provider deltas
  QueueCapacity,   \* WORKER_QUEUE_CAPACITY
  MaxDeltas,       \* bound: deltas any two provider calls emit together
  Forms            \* data forms of deltas, among "text", "binary", "json"

ASSUME CapacityAssumption ==
  /\ MaxHandle \in Nat
  /\ MaxInFlight \in Nat
  /\ MaxRetained \in Nat
  /\ MaxEvents \in Nat \ {0}
  /\ MaxCoalesced \in Nat
  /\ QueueCapacity \in Nat \ {0}
  /\ MaxDeltas \in Nat

ASSUME FormsAssumption == Forms \subseteq {"text", "binary", "json"}

Handles == 1..MaxHandle

VARIABLES
  status,        \* entries[h].poll.status, "absent" when h has no entry
  events,        \* entries[h].events
  nextSeq,       \* entries[h].next_event_sequence
  terminalOrder, \* terminal_order
  activeCount,   \* active_count
  nextHandle,    \* next_invocation
  token,         \* the cancellation flag of h, shared by entry and task
  queue,         \* commands in the worker's channel
  task,          \* the task of h on the worker thread
  worker,        \* the worker thread
  canceller,     \* where a call of cancel_invocation(h) stands
  emitted,       \* history: deltas of h that were accepted
  delivered      \* history: events of h handed out by drain_events

registryVars == <<status, events, nextSeq, terminalOrder, activeCount>>
vars == <<registryVars, nextHandle, token, queue, task, worker, canceller,
          emitted, delivered>>

Active   == {"pending", "running"}
Terminal == {"completed", "failed", "cancelled"}
Statuses == Active \cup Terminal \cup {"absent"}
Kinds    == Terminal \cup {"started", "outputDelta"}
Tasks    == {"none", "queued", "spawned", "invoking", "done", "panicked", "lost"}

Event == [sequence : Nat \ {0}, kind : Kinds, form : Forms \cup {"none"},
          units : Seq(Nat \ {0})]

-----------------------------------------------------------------------------
(* InvocationEntry::push_event *)

MergeableForms == {"text", "binary"}

(* merge_invocation_data: two strings or two byte vectors, within the limit *)
Merges(previous, next) ==
  /\ previous.form = next.form
  /\ next.form \in MergeableForms
  /\ Len(previous.units) + Len(next.units) <= MaxCoalesced

(* ... which extends the data already queued *)
Extended(previous, next) ==
  [previous EXCEPT !.units = previous.units \o next.units]

Coalesces(q, e) ==
  /\ e.kind = "outputDelta"
  /\ q # <<>>
  /\ q[Len(q)].kind = "outputDelta"
  /\ Merges(q[Len(q)], e)

(* Mutation: a full queue refuses the new element instead of the oldest.   *)
Newest_KeepOldest(q, n) == IF Len(q) > n THEN SubSeq(q, 1, n) ELSE q

(* the newest n elements of a queue trimmed from the front *)
Newest(q, n) == IF Len(q) > n THEN SubSeq(q, Len(q) - n + 1, Len(q)) ELSE q

(* Mutation: coalescing replaces the queued data instead of extending it.  *)
PushEvent_Replace(q, e) ==
  IF Coalesces(q, e)
  THEN [q EXCEPT ![Len(q)] = [q[Len(q)] EXCEPT !.units = e.units]]
  ELSE Newest(Append(q, e), MaxEvents)

PushEvent(q, e) ==
  IF Coalesces(q, e)
  THEN [q EXCEPT ![Len(q)] = Extended(q[Len(q)], e)]
  ELSE Newest(Append(q, e), MaxEvents)

PushSeq(q, e) == IF Coalesces(q, e) THEN e.sequence ELSE e.sequence + 1

StatusEvent(h, s) ==
  [sequence |-> nextSeq[h], kind |-> IF s = "running" THEN "started" ELSE s,
   form |-> "none", units |-> <<>>]

DeltaEvent(h, f) ==
  [sequence |-> nextSeq[h], kind |-> "outputDelta", form |-> f,
   units |-> <<emitted[h] + 1>>]

-----------------------------------------------------------------------------
(* InvocationRegistry *)

Init ==
  /\ status = [h \in Handles |-> "absent"]
  /\ events = [h \in Handles |-> <<>>]
  /\ nextSeq = [h \in Handles |-> 1]
  /\ terminalOrder = <<>>
  /\ activeCount = 0
  /\ nextHandle = 1
  /\ token = [h \in Handles |-> FALSE]
  /\ queue = <<>>
  /\ task = [h \in Handles |-> "none"]
  /\ worker = "none"
  /\ canceller = [h \in Handles |-> "idle"]
  /\ emitted = [h \in Handles |-> 0]
  /\ delivered = [h \in Handles |-> <<>>]

SaturatingDec(n) == IF n = 0 THEN 0 ELSE n - 1

(* evict_old_terminal_entries: what it keeps of the order, and what it     *)
(* removes from the entries                                                *)
Retained(order) == Newest(order, MaxRetained)
Evicted(order)  == {order[i] : i \in 1..(Len(order) - MaxRetained)}

Insert(h) ==
  /\ status' = [status EXCEPT ![h] = "pending"]
  /\ events' = [events EXCEPT ![h] = <<>>]
  /\ nextSeq' = [nextSeq EXCEPT ![h] = 1]
  /\ activeCount' = activeCount + 1
  /\ UNCHANGED terminalOrder

UpdateActive(h, s) ==
  LET order == IF s \in Terminal THEN Append(terminalOrder, h)
                                 ELSE terminalOrder
      gone  == Evicted(order)
      e     == StatusEvent(h, s)
  IN /\ status' = [k \in Handles |->
                     IF k \in gone THEN "absent"
                     ELSE IF k = h THEN s ELSE status[k]]
     /\ events' = [k \in Handles |->
                     IF k \in gone THEN <<>>
                     ELSE IF k = h THEN PushEvent(events[h], e) ELSE events[k]]
     /\ nextSeq' = [k \in Handles |->
                     IF k \in gone THEN 1
                     ELSE IF k = h THEN PushSeq(events[h], e) ELSE nextSeq[k]]
     /\ activeCount' = IF s \in Terminal THEN SaturatingDec(activeCount)
                                         ELSE activeCount
     /\ terminalOrder' = Retained(order)

(* Mutation: an entry that is already terminal is updated again.           *)
Update_NoTerminalGuard(h, s) ==
  \/ status[h] # "absent" /\ UpdateActive(h, s)
  \/ status[h] = "absent" /\ UNCHANGED registryVars

(* update: nothing happens to an absent or a terminal entry *)
Update(h, s) ==
  \/ status[h] \in Active /\ UpdateActive(h, s)
  \/ status[h] \notin Active /\ UNCHANGED registryVars

(* terminal_order.retain(|stored| stored != handle), for an order that     *)
(* holds a handle at most once (RetentionExact)                            *)
Without(order, h) ==
  IF \E i \in 1..Len(order) : order[i] = h
  THEN LET at == CHOOSE i \in 1..Len(order) : order[i] = h
       IN [i \in 1..(Len(order) - 1) |-> IF i < at THEN order[i]
                                                   ELSE order[i + 1]]
  ELSE order

(* Mutation: the handle stays in terminal_order.                           *)
Remove_KeepOrder(h) ==
  /\ status' = [status EXCEPT ![h] = "absent"]
  /\ events' = [events EXCEPT ![h] = <<>>]
  /\ nextSeq' = [nextSeq EXCEPT ![h] = 1]
  /\ activeCount' = IF status[h] \in Active THEN SaturatingDec(activeCount)
                                            ELSE activeCount
  /\ UNCHANGED terminalOrder

Remove(h) ==
  /\ status' = [status EXCEPT ![h] = "absent"]
  /\ events' = [events EXCEPT ![h] = <<>>]
  /\ nextSeq' = [nextSeq EXCEPT ![h] = 1]
  /\ activeCount' = IF status[h] \in Active THEN SaturatingDec(activeCount)
                                            ELSE activeCount
  /\ terminalOrder' = Without(terminalOrder, h)

-----------------------------------------------------------------------------
(* Application threads.  The runtime handle is alive until DropRuntime.    *)

ApiOpen == worker \in {"none", "running", "broken"}

(* start_invoke spawns the worker thread if there is none yet              *)
Spawned == IF worker = "none" THEN "running" ELSE worker

(* start_invoke: the worker mutex is held across insert and try_send, and  *)
(* nobody knows the handle before the call returns.                        *)
StartInvoke ==
  /\ ApiOpen /\ worker # "broken"
  /\ nextHandle \in Handles
  /\ activeCount < MaxInFlight
  /\ Len(queue) < QueueCapacity
  /\ Insert(nextHandle)
  /\ queue' = Append(queue, nextHandle)
  /\ task' = [task EXCEPT ![nextHandle] = "queued"]
  /\ nextHandle' = nextHandle + 1
  /\ worker' = Spawned
  /\ UNCHANGED <<token, canceller, emitted, delivered>>

(* insert refuses: too many invocations are active.  The worker thread may *)
(* have been spawned by then.                                              *)
StartBackpressure ==
  /\ ApiOpen
  /\ nextHandle \in Handles
  /\ activeCount >= MaxInFlight
  /\ nextHandle' = nextHandle + 1
  /\ worker' = Spawned
  /\ UNCHANGED <<registryVars, token, queue, task, canceller, emitted, delivered>>

(* try_send refuses after insert succeeded, because the queue is full or   *)
(* the worker thread is gone (Closed): the entry is removed again          *)
StartRefused ==
  /\ ApiOpen
  /\ nextHandle \in Handles
  /\ activeCount < MaxInFlight
  /\ worker = "broken" \/ Len(queue) >= QueueCapacity
  /\ nextHandle' = nextHandle + 1
  /\ worker' = Spawned
  /\ UNCHANGED <<registryVars, token, queue, task, canceller, emitted, delivered>>

(* spawning the worker thread fails before anything is inserted *)
StartSpawnFails ==
  /\ worker = "none"
  /\ nextHandle \in Handles
  /\ nextHandle' = nextHandle + 1
  /\ UNCHANGED <<registryVars, token, queue, task, worker, canceller, emitted,
                 delivered>>

(* Mutation: the status is recorded although the token was not cancelled.  *)
CancelLookup_NoSignal(h) ==
  /\ ApiOpen
  /\ canceller[h] = "idle"
  /\ status[h] # "absent"
  /\ canceller' = [canceller EXCEPT ![h] = "signalled"]
  /\ UNCHANGED <<registryVars, nextHandle, token, queue, task, worker, emitted,
                 delivered>>

(* cancel_invocation: look the token up under the lock, ...                *)
CancelLookup(h) ==
  /\ ApiOpen
  /\ canceller[h] = "idle"
  /\ status[h] # "absent"
  /\ canceller' = [canceller EXCEPT ![h] = "found"]
  /\ UNCHANGED <<registryVars, nextHandle, token, queue, task, worker, emitted,
                 delivered>>

(* ... cancel it with no lock held, ...                                    *)
CancelSignal(h) ==
  /\ canceller[h] = "found"
  /\ token' = [token EXCEPT ![h] = TRUE]
  /\ canceller' = [canceller EXCEPT ![h] = "signalled"]
  /\ UNCHANGED <<registryVars, nextHandle, queue, task, worker, emitted,
                 delivered>>

(* ... and take the lock again to record the status                        *)
CancelMark(h) ==
  /\ canceller[h] = "signalled"
  /\ Update(h, "cancelled")
  /\ canceller' = [canceller EXCEPT ![h] = "idle"]
  /\ UNCHANGED <<nextHandle, token, queue, task, worker, emitted, delivered>>

DrainEvents(h) ==
  /\ ApiOpen
  /\ status[h] # "absent"
  /\ delivered' = [delivered EXCEPT ![h] = @ \o events[h]]
  /\ events' = [events EXCEPT ![h] = <<>>]
  /\ UNCHANGED <<status, nextSeq, terminalOrder, activeCount, nextHandle, token,
                 queue, task, worker, canceller, emitted>>

(* take_invocation removes only what is terminal; otherwise it is a poll   *)
TakeInvocation(h) ==
  /\ ApiOpen
  /\ status[h] \in Terminal
  /\ Remove(h)
  /\ UNCHANGED <<nextHandle, token, queue, task, worker, canceller, emitted,
                 delivered>>

(* the last clone of the runtime is dropped: no call is in progress and no *)
(* call follows; the channel closes and drop joins the worker thread, if   *)
(* it still runs                                                           *)
DropRuntime ==
  /\ ApiOpen
  /\ \A h \in Handles : canceller[h] = "idle"
  /\ worker' = IF worker = "running" THEN "closing" ELSE "joined"
  /\ UNCHANGED <<registryVars, nextHandle, token, queue, task, canceller,
                 emitted, delivered>>

-----------------------------------------------------------------------------
(* The worker thread *)

(* The thread cannot build its tokio runtime and returns before it has     *)
(* received anything: what is in the channel is dropped with it.           *)
WorkerBuildFails ==
  /\ worker \in {"running", "closing"}
  /\ \A h \in Handles : task[h] \in {"none", "queued"}
  /\ task' = [h \in Handles |-> IF task[h] = "queued" THEN "lost" ELSE task[h]]
  /\ queue' = <<>>
  /\ worker' = IF worker = "running" THEN "broken" ELSE "joined"
  /\ UNCHANGED <<registryVars, nextHandle, token, canceller, emitted, delivered>>

(* Mutation: a closed channel is not drained.                              *)
WorkerReceive_NoDrain ==
  /\ worker = "running"
  /\ queue # <<>>
  /\ task' = [task EXCEPT ![Head(queue)] = "spawned"]
  /\ queue' = Tail(queue)
  /\ UNCHANGED <<registryVars, nextHandle, token, worker, canceller, emitted,
                 delivered>>

WorkerReceive ==
  /\ worker \in {"running", "closing"}
  /\ queue # <<>>
  /\ task' = [task EXCEPT ![Head(queue)] = "spawned"]
  /\ queue' = Tail(queue)
  /\ UNCHANGED <<registryVars, nextHandle, token, worker, canceller, emitted,
                 delivered>>

TaskBegin(h) ==
  /\ task[h] = "spawned"
  /\ Update(h, "running")
  /\ task' = [task EXCEPT ![h] = "invoking"]
  /\ UNCHANGED <<nextHandle, token, queue, worker, canceller, emitted, delivered>>

(* RuntimeCore::invoke returned.  An idle timeout cancels the token itself *)
(* and fails; the output of a provider that finished before it was told to *)
(* stop, or after the last check of the token, is still Ok.                *)
TaskEnd(h, s) ==
  /\ task[h] = "invoking"
  /\ Update(h, s)
  /\ task' = [task EXCEPT ![h] = "done"]
  /\ \/ UNCHANGED token
     \/ s = "failed" /\ token' = [token EXCEPT ![h] = TRUE]
  /\ UNCHANGED <<nextHandle, queue, worker, canceller, emitted, delivered>>

(* The provider panics and unwinds the task.  The worker takes the         *)
(* JoinError for an end like any other: nobody updates the entry.          *)
TaskPanic(h) ==
  /\ task[h] = "invoking"
  /\ task' = [task EXCEPT ![h] = "panicked"]
  /\ UNCHANGED <<registryVars, nextHandle, token, queue, worker, canceller,
                 emitted, delivered>>

(* Mutation: the worker does not join its tasks.                           *)
WorkerExit_NoJoin ==
  /\ worker = "closing"
  /\ queue = <<>>
  /\ worker' = "joined"
  /\ UNCHANGED <<registryVars, nextHandle, token, queue, task, canceller,
                 emitted, delivered>>

(* the channel is closed and drained and every task has been joined *)
WorkerExit ==
  /\ worker = "closing"
  /\ queue = <<>>
  /\ \A h \in Handles : task[h] \in {"none", "done", "panicked"}
  /\ worker' = "joined"
  /\ UNCHANGED <<registryVars, nextHandle, token, queue, task, canceller,
                 emitted, delivered>>

-----------------------------------------------------------------------------
(* Provider threads.  The event sink may outlive the call it was made for. *)

(* Mutation: a delta is queued for any entry, also for a terminal one.     *)
AcceptDelta_AnyStatus(h, f) ==
  /\ task[h] \in {"invoking", "done", "panicked"}
  /\ status[h] # "absent"
  /\ emitted[h] < MaxDeltas
  /\ \A g \in Handles \ {h} : emitted[h] + emitted[g] < MaxDeltas
  /\ events' = [events EXCEPT ![h] = PushEvent(@, DeltaEvent(h, f))]
  /\ nextSeq' = [nextSeq EXCEPT ![h] = PushSeq(events[h], DeltaEvent(h, f))]
  /\ emitted' = [emitted EXCEPT ![h] = @ + 1]
  /\ UNCHANGED <<status, terminalOrder, activeCount, nextHandle, token, queue,
                 task, worker, canceller, delivered>>

AcceptDelta(h, f) ==
  /\ task[h] \in {"invoking", "done", "panicked"}
  /\ status[h] = "running"
  /\ emitted[h] < MaxDeltas
  /\ \A g \in Handles \ {h} : emitted[h] + emitted[g] < MaxDeltas
  /\ events' = [events EXCEPT ![h] = PushEvent(@, DeltaEvent(h, f))]
  /\ nextSeq' = [nextSeq EXCEPT ![h] = PushSeq(events[h], DeltaEvent(h, f))]
  /\ emitted' = [emitted EXCEPT ![h] = @ + 1]
  /\ UNCHANGED <<status, terminalOrder, activeCount, nextHandle, token, queue,
                 task, worker, canceller, delivered>>

(* push_provider_event ignores an entry that is not running *)
IgnoreDelta(h) ==
  /\ task[h] \in {"invoking", "done", "panicked"}
  /\ status[h] # "running"
  /\ UNCHANGED vars

-----------------------------------------------------------------------------
Stopped == worker = "joined" /\ UNCHANGED vars

Application ==
  \/ StartInvoke \/ StartBackpressure \/ StartRefused \/ StartSpawnFails
  \/ DropRuntime
  \/ \E h \in Handles : \/ CancelLookup(h) \/ CancelSignal(h) \/ CancelMark(h)
                        \/ DrainEvents(h)  \/ TakeInvocation(h)

WorkerStep ==
  \/ WorkerBuildFails \/ WorkerReceive \/ WorkerExit
  \/ \E h \in Handles :
       TaskBegin(h) \/ TaskPanic(h) \/ \E s \in Terminal : TaskEnd(h, s)

Provider ==
  \E h \in Handles : IgnoreDelta(h) \/ \E f \in Forms : AcceptDelta(h, f)

Next == Application \/ WorkerStep \/ Provider \/ Stopped

Spec == Init /\ [][Next]_vars

-----------------------------------------------------------------------------
(* Every variable holds a value of its kind; the history variables too.    *)
TypeOK ==
  /\ status \in [Handles -> Statuses]
  /\ events \in [Handles -> Seq(Event)]
  /\ nextSeq \in [Handles -> Nat \ {0}]
  /\ terminalOrder \in Seq(Handles)
  /\ activeCount \in Nat
  /\ nextHandle \in 1..(MaxHandle + 1)
  /\ token \in [Handles -> BOOLEAN]
  /\ queue \in Seq(Handles)
  /\ task \in [Handles -> Tasks]
  /\ worker \in {"none", "running", "broken", "closing", "joined"}
  /\ canceller \in [Handles -> {"idle", "found", "signalled"}]
  /\ emitted \in [Handles -> 0..MaxDeltas]
  /\ delivered \in [Handles -> Seq(Event)]

(* active_count, kept by increments and saturating decrements on five      *)
(* paths, is exactly the number of entries that are pending or running,    *)
(* and it never exceeds MAX_IN_FLIGHT_INVOCATIONS.                         *)
ActiveCountExact ==
  /\ activeCount = Cardinality({h \in Handles : status[h] \in Active})
  /\ activeCount <= MaxInFlight

Elements(q) == {q[i] : i \in 1..Len(q)}
Distinct(q) == \A i, j \in 1..Len(q) : q[i] = q[j] => i = j

(* terminal_order holds each terminal entry exactly once and nothing else, *)
(* so eviction can neither leak an entry nor remove a live one, and no     *)
(* more than MAX_RETAINED_INVOCATIONS results are kept.                    *)
RetentionExact ==
  /\ Len(terminalOrder) <= MaxRetained
  /\ Distinct(terminalOrder)
  /\ Elements(terminalOrder) = {h \in Handles : status[h] \in Terminal}

(* What a consumer that drains h from now on will have seen in all.        *)
Stream(h) == delivered[h] \o events[h]

(* The events of an invocation have increasing sequence numbers across all *)
(* drains, `started` can only be the first and a terminal event only the   *)
(* last, whatever late provider events, cancellations and results race.    *)
StreamOrdered ==
  \A h \in Handles :
    LET s == Stream(h) IN
    /\ \A i \in 1..(Len(s) - 1) : s[i].sequence < s[i + 1].sequence
    /\ \A i \in 1..Len(s) : s[i].kind = "started" => s[i].sequence = 1
    /\ \A i \in 1..(Len(s) - 1) : s[i].kind \notin Terminal

(* As long as the entry exists, its terminal event is in the stream        *)
(* exactly when its poll status is terminal, and says the same: the bounded*)
(* queue never drops a terminal event.                                     *)
TerminalEventKept ==
  \A h \in Handles :
    LET s == Stream(h) IN
    /\ status[h] \in Terminal => s # <<>> /\ s[Len(s)].kind = status[h]
    /\ status[h] \in Active => \A i \in 1..Len(s) : s[i].kind \notin Terminal

Deltas(s) == UNION {Elements(s[i].units) : i \in 1..Len(s)}

(* Coalescing and overflow are honest: the deltas come in the order the    *)
(* provider emitted them, and a consumer that has seen no gap in the       *)
(* sequence numbers has seen every delta up to the last one.               *)
GapsRevealLoss ==
  \A h \in Handles :
    LET s == Stream(h) IN
    /\ \A i \in 1..Len(s) : \A a, b \in 1..Len(s[i].units) :
         a < b => s[i].units[a] < s[i].units[b]
    /\ \A i, j \in 1..Len(s) : i < j =>
         \A u \in Elements(s[i].units), v \in Elements(s[j].units) : u < v
    /\ (\A i \in 1..Len(s) : s[i].sequence = i)
         => \A u \in Deltas(s) : 1..u \subseteq Deltas(s)

(* While the task of a cancelled invocation still runs, its provider has   *)
(* been told to stop: cancel_invocation signals before it reports.  (The   *)
(* status is also set to cancelled by the task itself, when it ends.)      *)
CancelledIsSignalled ==
  \A h \in Handles :
    status[h] = "cancelled" /\ task[h] # "done" => token[h]

(* The task of h is gone and its entry is not finished: its provider       *)
(* panicked, or the worker thread never came up.                           *)
Orphaned(h) == task[h] \in {"panicked", "lost"} /\ status[h] \in Active

(* Dropping the runtime returns only once every accepted invocation has    *)
(* run to its end, the ones still in the channel included, or has lost its *)
(* task.                                                                   *)
DropWaitsForAll ==
  worker = "joined" => \A h \in Handles : status[h] \in Active => Orphaned(h)

FinalStep ==
  \A h \in Handles :
    /\ status[h] \in Terminal => status'[h] \in {status[h], "absent"}
    /\ status[h] = "absent" /\ h < nextHandle => status'[h] = "absent"

(* A reported result is final: a terminal status is only ever followed by  *)
(* the removal of the entry, and a removed handle never comes back.        *)
ResultIsFinal == [][FinalStep]_vars

(* What an application can tell of h: the status of its entry, or that it  *)
(* has no entry yet or no longer.                                          *)
stage ==
  [h \in Handles |-> IF status[h] # "absent" THEN status[h]
                     ELSE IF h < nextHandle THEN "gone" ELSE "new"]

Life == INSTANCE InvocationLifecycle WITH heard <- delivered

(* Whatever is refused, cancelled, evicted, coalesced or drained when, each*)
(* invocation goes through the stages of InvocationLifecycle, and what is  *)
(* drained of it agrees with what is polled: nothing before it begins, its *)
(* one result last, never another result after the first.                  *)
ImplementsLifecycle == Life!Spec

(* Every accepted invocation comes to an end, also when it is cancelled    *)
(* while queued or when the runtime is dropped, and whatever the others do *)
(* -- unless the call of its provider never returns (ProviderCall says     *)
(* when), or its task is gone.                                             *)
AcceptedTerminates ==
  \A h \in Handles :
    \/ <>[](task[h] = "invoking")
    \/ status[h] = "pending" ~> (status[h] \notin Active \/ Orphaned(h))
=============================================================================
