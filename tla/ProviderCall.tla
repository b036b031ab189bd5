---------------------------- MODULE ProviderCall ----------------------------
(***************************************************************************)
(* One invocation from end to end: RuntimeCore::invoke, invoke_provider    *)
(* and load_snapshot, with the cancellation token, the session locks, the  *)
(* snapshot cache and the snapshot store                                   *)
(* (crates/vifu-runtime/src/application.rs).                               *)
(*                                                                         *)
(* Invocations run as tasks of the worker thread or as futures a host      *)
(* polls and may drop.  A session lock is a tokio mutex: waiters get it in *)
(* the order they asked, here by ticket.  The select loop is biased        *)
(* (cancellation, response, activity, idle deadline); a provider is an     *)
(* external future that may answer, report activity, fail or stay silent   *)
(* at any poll.  A cancel between the poll of one branch and the next is   *)
(* the cancel after the step that follows.  A snapshot's state is the      *)
(* sequence of the calls that wrote it, so an overwritten update shows.    *)
(* Poisoned locks (a panic while one is held) are left out.                *)
(***************************************************************************)
EXTENDS Naturals, Sequences, FiniteSets

CONSTANTS
  Calls, Sessions, SessionOf,
  NoCall,        \* nobody holds the lock
  NoSnapshot     \* the cache has no entry

ASSUME CallAssumption ==
  /\ SessionOf \in [Calls -> Sessions]
  /\ NoCall \notin Calls

VARIABLES
  pc,         \* where each invocation stands
  token,      \* its cancellation flag
  woken,      \* its waiter was notified
  base,       \* the snapshot it works from, then the one it saves
  writes,     \* the provider's response carries a state
  result,     \* what invoke returned
  trace,      \* status of its record in the trace outbox
  ticket,     \* when it asked for its session lock
  nextTicket,
  holder,     \* who holds each session lock
  cache,      \* RuntimeCore.sessions
  store,      \* the durable RuntimeStore
  saved,      \* history: calls whose snapshot reached the store
  backup,     \* a portable snapshot the host has exported
  restorer    \* where a call of restore_snapshot stands

callVars == <<pc, token, woken, base, writes, result, trace, ticket, nextTicket>>
restoreVars == <<backup, restorer>>
vars == <<callVars, holder, cache, store, saved, restoreVars>>

Log == INSTANCE SessionLog WITH session <- store, committed <- saved

Snapshot == [revision : Nat, state : Seq(Calls)]

(* steps at which an invocation holds its session lock *)
Inside == {"resolving", "loading", "filling", "select", "checked", "armed",
           "cancelGrace", "idleGrace", "responded", "saving", "caching"}
(* ... at which it has read its snapshot *)
Based == Inside \ {"resolving", "loading"}
(* ... at which its future is suspended and may be dropped by the host *)
Suspended == {"waiting", "armed", "cancelGrace", "idleGrace"}

NotRestoring ==
  [at |-> "rest", todo |-> {}, snapshot |-> [s \in Sessions |-> NoSnapshot]]

Init ==
  /\ pc = [c \in Calls |-> "idle"]
  /\ token = [c \in Calls |-> FALSE]
  /\ woken = [c \in Calls |-> FALSE]
  /\ base = [c \in Calls |-> Log!Fresh]
  /\ writes = [c \in Calls |-> FALSE]
  /\ result = [c \in Calls |-> "none"]
  /\ trace = [c \in Calls |-> "none"]
  /\ ticket = [c \in Calls |-> 0]
  /\ nextTicket = 0
  /\ holder = [s \in Sessions |-> NoCall]
  /\ cache = [s \in Sessions |-> NoSnapshot]
  /\ store = [s \in Sessions |-> Log!Fresh]
  /\ saved = {}
  /\ backup = [s \in Sessions |-> NoSnapshot]
  /\ restorer = NotRestoring

-----------------------------------------------------------------------------
(* Moving on, and ending with a result: the guard is released on return    *)
(* from invoke_provider, then invoke enqueues the trace.                   *)

Goto(c, label) == pc' = [pc EXCEPT ![c] = label]

TraceStatus(r) ==
  IF r = "ok" THEN "completed" ELSE IF r = "cancelled" THEN "cancelled" ELSE "error"

(* self.store.enqueue_trace, whose failure is ignored *)
Enqueue(c, r) == trace' \in {trace, [trace EXCEPT ![c] = TraceStatus(r)]}

End(c, r) ==
  /\ Goto(c, "ended")
  /\ result' = [result EXCEPT ![c] = r]
  /\ Enqueue(c, r)
  /\ holder' = [holder EXCEPT ![SessionOf[c]] = NoCall]

unchangedEnd == <<token, woken, base, writes, ticket, nextTicket,
                  restoreVars>>

-----------------------------------------------------------------------------
(* CancellationToken::cancel: set the flag once and wake whoever waits now *)
Cancel(c) ==
  /\ ~token[c]
  /\ pc[c] # "ended"
  /\ token' = [token EXCEPT ![c] = TRUE]
  /\ woken' = [woken EXCEPT ![c] = pc[c] = "armed"]
  /\ UNCHANGED <<pc, base, writes, result, trace, ticket, nextTicket,
                 holder, cache, store, saved, restoreVars>>

Invoke(c) ==
  /\ pc[c] = "idle"
  /\ Goto(c, "waiting")
  /\ ticket' = [ticket EXCEPT ![c] = nextTicket]
  /\ nextTicket' = nextTicket + 1
  /\ UNCHANGED <<token, woken, base, writes, result, trace, holder,
                 cache, store, saved, restoreVars>>

(* validate_identifier refuses the endpoint or the session name *)
Reject(c) ==
  /\ pc[c] = "idle"
  /\ Goto(c, "ended")
  /\ result' = [result EXCEPT ![c] = "error"]
  /\ Enqueue(c, "error")
  /\ UNCHANGED <<unchangedEnd, holder, cache, store, saved>>

FirstInLine(c) ==
  \A d \in Calls :
    pc[d] = "waiting" /\ SessionOf[d] = SessionOf[c] => ticket[c] <= ticket[d]

(* Mutation: the session lock is shared.                                   *)
Acquire_Shared(c) ==
  /\ pc[c] = "waiting"
  /\ FirstInLine(c)
  /\ Goto(c, "resolving")
  /\ holder' = [holder EXCEPT ![SessionOf[c]] = c]
  /\ UNCHANGED <<token, woken, base, writes, result, trace, ticket,
                 nextTicket, cache, store, saved, restoreVars>>

(* session_lock.lock().await: cancellation is not looked at here           *)
Acquire(c) ==
  /\ pc[c] = "waiting"
  /\ holder[SessionOf[c]] = NoCall
  /\ FirstInLine(c)
  /\ Goto(c, "resolving")
  /\ holder' = [holder EXCEPT ![SessionOf[c]] = c]
  /\ UNCHANGED <<token, woken, base, writes, result, trace, ticket,
                 nextTicket, cache, store, saved, restoreVars>>

(* the endpoint, its agent, its provider or the capability is missing      *)
ResolveFails(c) ==
  /\ pc[c] = "resolving"
  /\ End(c, "error")
  /\ UNCHANGED <<unchangedEnd, cache, store, saved>>

Resolve(c) ==
  /\ pc[c] = "resolving"
  /\ \/ /\ token[c]
        /\ End(c, "cancelled")
     \/ /\ ~token[c]
        /\ Goto(c, "loading")
        /\ UNCHANGED <<result, trace, holder>>
  /\ UNCHANGED <<unchangedEnd, cache, store, saved>>

(* load_snapshot: from the cache, ...                                      *)
LoadCached(c) ==
  /\ pc[c] = "loading"
  /\ cache[SessionOf[c]] # NoSnapshot
  /\ base' = [base EXCEPT ![c] = cache[SessionOf[c]]]
  /\ Goto(c, "select")
  /\ UNCHANGED <<token, woken, writes, result, trace, ticket, nextTicket,
                 holder, cache, store, saved, restoreVars>>

(* Mutation: a snapshot is taken from the cache or, if there is none, made *)
(* up: what the store holds from before a restart is not read.             *)
LoadStored_Default(c) ==
  /\ pc[c] = "loading"
  /\ cache[SessionOf[c]] = NoSnapshot
  /\ base' = [base EXCEPT ![c] = Log!Fresh]
  /\ Goto(c, "filling")
  /\ UNCHANGED <<token, woken, writes, result, trace, ticket, nextTicket,
                 holder, cache, store, saved, restoreVars>>

(* ... or from the store, ...                                              *)
LoadStored(c) ==
  /\ pc[c] = "loading"
  /\ cache[SessionOf[c]] = NoSnapshot
  /\ base' = [base EXCEPT ![c] = store[SessionOf[c]]]
  /\ Goto(c, "filling")
  /\ UNCHANGED <<token, woken, writes, result, trace, ticket, nextTicket,
                 holder, cache, store, saved, restoreVars>>

LoadFails(c) ==
  /\ pc[c] = "loading"
  /\ cache[SessionOf[c]] = NoSnapshot
  /\ End(c, "error")
  /\ UNCHANGED <<unchangedEnd, cache, store, saved>>

(* ... which fills the cache                                               *)
FillCache(c) ==
  /\ pc[c] = "filling"
  /\ cache' = [cache EXCEPT ![SessionOf[c]] = base[c]]
  /\ Goto(c, "select")
  /\ UNCHANGED <<token, woken, base, writes, result, trace, ticket,
                 nextTicket, holder, store, saved, restoreVars>>

-----------------------------------------------------------------------------
(* The select loop.  Each turn makes a new cancelled() future, which reads *)
(* the flag and only then becomes a waiter: a cancel in between wakes      *)
(* nobody, and is noticed at the next turn or after the response.          *)

CheckFlag(c) ==
  /\ pc[c] = "select"
  /\ Goto(c, IF token[c] THEN "cancelGrace" ELSE "checked")
  /\ UNCHANGED <<token, woken, base, writes, result, trace, ticket,
                 nextTicket, holder, cache, store, saved, restoreVars>>

Arm(c) ==
  /\ pc[c] = "checked"
  /\ Goto(c, "armed")
  /\ woken' = [woken EXCEPT ![c] = FALSE]
  /\ UNCHANGED <<token, base, writes, result, trace, ticket, nextTicket,
                 holder, cache, store, saved, restoreVars>>

PollCancelled(c) ==
  /\ pc[c] = "armed"
  /\ woken[c]
  /\ Goto(c, "cancelGrace")
  /\ UNCHANGED <<token, woken, base, writes, result, trace, ticket,
                 nextTicket, holder, cache, store, saved, restoreVars>>

PollResponse(c) ==
  /\ pc[c] = "armed"
  /\ ~woken[c]
  /\ writes' \in {[writes EXCEPT ![c] = w] : w \in BOOLEAN}
  /\ Goto(c, "responded")
  /\ UNCHANGED <<token, woken, base, result, trace, ticket, nextTicket,
                 holder, cache, store, saved, restoreVars>>

(* the provider fails, possibly with RuntimeError::Cancelled *)
PollError(c) ==
  /\ pc[c] = "armed"
  /\ ~woken[c]
  /\ \E r \in {"error", "cancelled"} : End(c, r)
  /\ UNCHANGED <<unchangedEnd, cache, store, saved>>

(* activity restarts the idle deadline, as often as the provider reports it *)
PollActivity(c) ==
  /\ pc[c] = "armed"
  /\ ~woken[c]
  /\ Goto(c, "select")
  /\ UNCHANGED <<token, woken, base, writes, result, trace, ticket, nextTicket,
                 holder, cache, store, saved, restoreVars>>

PollIdle(c) ==
  /\ pc[c] = "armed"
  /\ ~woken[c]
  /\ token' = [token EXCEPT ![c] = TRUE]
  /\ Goto(c, "idleGrace")
  /\ UNCHANGED <<woken, base, writes, result, trace, ticket, nextTicket,
                 holder, cache, store, saved, restoreVars>>

(* Mutation: after a cancellation the provider is awaited without limit.   *)
GraceEnds_Unbounded(c) ==
  /\ pc[c] = "idleGrace"
  /\ End(c, "timeout")
  /\ UNCHANGED <<unchangedEnd, cache, store, saved>>

(* the provider finished or the grace period of 5 s is over *)
GraceEnds(c) ==
  /\ \/ pc[c] = "cancelGrace" /\ End(c, "cancelled")
     \/ pc[c] = "idleGrace" /\ End(c, "timeout")
  /\ UNCHANGED <<unchangedEnd, cache, store, saved>>

-----------------------------------------------------------------------------
(* Mutation: the token is not looked at once the provider has answered.    *)
CheckResponse_NoCheck(c) ==
  /\ pc[c] = "responded"
  /\ Goto(c, "saving")
  /\ UNCHANGED <<result, trace, holder, unchangedEnd, cache, store, saved>>

(* is_cancelled after the response *)
CheckResponse(c) ==
  /\ pc[c] = "responded"
  /\ \/ /\ token[c]
        /\ End(c, "cancelled")
     \/ /\ ~token[c]
        /\ Goto(c, "saving")
        /\ UNCHANGED <<result, trace, holder>>
  /\ UNCHANGED <<unchangedEnd, cache, store, saved>>

(* Mutation: the save overwrites the state instead of extending it.        *)
Save_NoRevision(c) ==
  /\ pc[c] = "saving"
  /\ store' = [store EXCEPT ![SessionOf[c]] = [base[c] EXCEPT !.state = <<c>>]]
  /\ base' = [base EXCEPT ![c] = [base[c] EXCEPT !.state = <<c>>]]
  /\ saved' = saved \cup {c}
  /\ Goto(c, "caching")
  /\ UNCHANGED <<token, woken, writes, result, trace, ticket, nextTicket,
                 holder, cache, restoreVars>>

(* store.save of the next snapshot *)
Save(c) ==
  /\ pc[c] = "saving"
  /\ LET next == Log!Advance(base[c], c, writes[c]) IN
     /\ store' = [store EXCEPT ![SessionOf[c]] = next]
     /\ base' = [base EXCEPT ![c] = next]
  /\ saved' = saved \cup {c}
  /\ Goto(c, "caching")
  /\ UNCHANGED <<token, woken, writes, result, trace, ticket, nextTicket,
                 holder, cache, restoreVars>>

(* Mutation: an error of store.save is not returned.                       *)
SaveFails_Ignored(c) ==
  /\ pc[c] = "saving"
  /\ Goto(c, "caching")
  /\ base' = [base EXCEPT ![c] = Log!Advance(base[c], c, writes[c])]
  /\ UNCHANGED <<token, woken, writes, result, trace, ticket, nextTicket,
                 holder, cache, store, saved, restoreVars>>

(* Mutation: the error is returned although the store kept the snapshot.   *)
SaveFails_Kept(c) ==
  /\ pc[c] = "saving"
  /\ store' = [store EXCEPT ![SessionOf[c]] = Log!Advance(base[c], c, writes[c])]
  /\ saved' = saved \cup {c}
  /\ End(c, "error")
  /\ UNCHANGED <<unchangedEnd, cache>>

SaveFails(c) ==
  /\ pc[c] = "saving"
  /\ End(c, "error")
  /\ UNCHANGED <<unchangedEnd, cache, store, saved>>

CacheAndReturn(c) ==
  /\ pc[c] = "caching"
  /\ cache' = [cache EXCEPT ![SessionOf[c]] = base[c]]
  /\ End(c, "ok")
  /\ UNCHANGED <<unchangedEnd, store, saved>>

-----------------------------------------------------------------------------
(* The host drops the future of an invocation, or its provider panics and  *)
(* unwinds it: its lock is released, no trace is written.                  *)
Abandon(c) ==
  /\ pc[c] \in Suspended
  /\ Goto(c, "ended")
  /\ result' = [result EXCEPT ![c] = "dropped"]
  /\ holder' = IF holder[SessionOf[c]] = c
               THEN [holder EXCEPT ![SessionOf[c]] = NoCall] ELSE holder
  /\ UNCHANGED <<unchangedEnd, trace, cache, store, saved>>

(* The process dies and a new runtime opens the same durable store.        *)
Restart ==
  /\ \E c \in Calls : pc[c] # "idle"
  /\ pc' = [c \in Calls |-> IF pc[c] = "idle" THEN "idle" ELSE "ended"]
  /\ result' = [c \in Calls |-> IF pc[c] \in {"idle", "ended"} THEN result[c]
                                                               ELSE "dropped"]
  /\ holder' = [s \in Sessions |-> NoCall]
  /\ cache' = [s \in Sessions |-> NoSnapshot]
  /\ restorer' = NotRestoring
  /\ UNCHANGED <<token, woken, base, writes, trace, ticket, nextTicket,
                 store, saved, backup>>

-----------------------------------------------------------------------------
(* export_snapshot and restore_snapshot: the latter takes no session lock. *)

Export ==
  /\ backup' = cache
  /\ UNCHANGED <<callVars, holder, cache, store, saved, restorer>>

RestoreBegin ==
  /\ restorer.at = "rest"
  /\ restorer' = [at |-> "saving", snapshot |-> backup,
                  todo |-> {s \in Sessions : backup[s] # NoSnapshot}]
  /\ UNCHANGED <<callVars, holder, cache, store, saved, backup>>

RestoreSave(s) ==
  /\ restorer.at = "saving"
  /\ s \in restorer.todo
  /\ store' = [store EXCEPT ![s] = restorer.snapshot[s]]
  /\ restorer' = [restorer EXCEPT !.todo = @ \ {s}]
  /\ UNCHANGED <<callVars, holder, cache, saved, backup>>

(* a save fails: the sessions restored so far stay, the cache does too     *)
RestoreFails ==
  /\ restorer.at = "saving"
  /\ restorer.todo # {}
  /\ restorer' = NotRestoring
  /\ UNCHANGED <<callVars, holder, cache, store, saved, backup>>

RestoreSwap ==
  /\ restorer.at = "saving"
  /\ restorer.todo = {}
  /\ cache' = restorer.snapshot
  /\ restorer' = NotRestoring
  /\ UNCHANGED <<callVars, holder, store, saved, backup>>

-----------------------------------------------------------------------------
CallStep(c) ==
  \/ Acquire(c) \/ ResolveFails(c) \/ Resolve(c)
  \/ LoadCached(c) \/ LoadStored(c) \/ LoadFails(c) \/ FillCache(c)
  \/ CheckFlag(c) \/ Arm(c)
  \/ PollCancelled(c) \/ PollResponse(c) \/ PollError(c) \/ PollActivity(c) \/ PollIdle(c)
  \/ GraceEnds(c) \/ CheckResponse(c) \/ Save(c) \/ SaveFails(c) \/ CacheAndReturn(c)

Next ==
  \/ \E c \in Calls : Invoke(c) \/ Reject(c) \/ Cancel(c) \/ CallStep(c) \/ Abandon(c)
  \/ Restart
  \/ Export

RestoreNext ==
  \/ RestoreBegin \/ RestoreFails \/ RestoreSwap
  \/ \E s \in Sessions : RestoreSave(s)

(* a runtime on which restore_snapshot is not called *)
Spec == Init /\ [][Next]_vars

(* ... and one on which it is, at any time *)
RestoreSpec == Init /\ [][Next \/ RestoreNext]_vars

(* The executor polls every task and timers fire. *)
FairSpec == Spec /\ \A c \in Calls : WF_vars(CallStep(c))

-----------------------------------------------------------------------------
(* Every variable holds a value of its kind.                               *)
TypeOK ==
  /\ pc \in [Calls -> Inside \cup {"idle", "waiting", "ended"}]
  /\ token \in [Calls -> BOOLEAN]
  /\ woken \in [Calls -> BOOLEAN]
  /\ base \in [Calls -> Snapshot]
  /\ writes \in [Calls -> BOOLEAN]
  /\ result \in [Calls -> {"none", "ok", "cancelled", "timeout", "error", "dropped"}]
  /\ trace \in [Calls -> {"none", "completed", "cancelled", "error"}]
  /\ ticket \in [Calls -> Nat]
  /\ nextTicket \in Nat
  /\ holder \in [Sessions -> Calls \cup {NoCall}]
  /\ cache \in [Sessions -> Snapshot \cup {NoSnapshot}]
  /\ store \in [Sessions -> Snapshot]
  /\ saved \subseteq Calls
  /\ backup \in [Sessions -> Snapshot \cup {NoSnapshot}]
  /\ restorer \in [at : {"rest", "saving"}, todo : SUBSET Sessions,
                   snapshot : [Sessions -> Snapshot \cup {NoSnapshot}]]

(* A session's lock is held by exactly the one invocation that is between  *)
(* lock().await and its return, also after dropped futures and restarts.   *)
SessionExclusive ==
  \A c \in Calls : pc[c] \in Inside <=> holder[SessionOf[c]] = c

(* From the moment an invocation has its snapshot to the moment it         *)
(* returns, nobody else changes the session in the store.                  *)
BaseIsCurrent ==
  \A c \in Calls : pc[c] \in Based => base[c] = store[SessionOf[c]]

(* docs/runtime-embedding.md: "updates to the same session are serialized  *)
(* so snapshot revisions cannot overwrite one another".  An invocation     *)
(* about to save replaces the very snapshot its next one was computed from.*)
NothingOverwritten ==
  \A c \in Calls : pc[c] = "saving" => base[c] = store[SessionOf[c]]

(* The cache never serves an old snapshot: outside the window between      *)
(* store.save and the insert into the cache it agrees with the store.      *)
CacheIsCurrent ==
  \A s \in Sessions :
    \/ cache[s] \in {NoSnapshot, store[s]}
    \/ \E c \in Calls : holder[s] = c /\ pc[c] = "caching"

(* An invocation that reports cancellation, timeout or an error has left   *)
(* the session as it was, and one that reports success has its snapshot in *)
(* the durable store.                                                      *)
ResultMatchesStore ==
  \A c \in Calls :
    /\ result[c] \in {"cancelled", "timeout", "error"} => c \notin saved
    /\ result[c] = "ok" => c \in saved

(* A cancellation that comes before the check after the response wins: the *)
(* invocation never succeeds, even if the waiter missed the notification.  *)
CancelWins ==
  \A c \in Calls :
    [](token[c] /\ pc[c] \notin {"saving", "caching", "ended"}
       => [](result[c] # "ok"))

(* An invocation ends: silent providers meet the idle deadline, deaf ones  *)
(* the grace period, and waiting ones get the lock -- unless a provider of *)
(* its session reports activity for ever: the deadline limits inactivity,  *)
(* not the time of a call.  Even such a provider does not outlast a        *)
(* cancellation: each report goes back to the check of the flag.           *)
CallsEnd ==
  \A c \in Calls :
    /\ token[c] /\ pc[c] \in Inside ~> pc[c] = "ended"
    /\ \/ \E d \in Calls :
            SessionOf[d] = SessionOf[c] /\ []<><<PollActivity(d)>>_vars
       \/ pc[c] = "waiting" ~> pc[c] = "ended"

(* Without restore_snapshot, the store goes through serial commits only.   *)
CommitsAreSerial == Log!Spec
=============================================================================
