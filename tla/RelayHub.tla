------------------------------ MODULE RelayHub ------------------------------
(***************************************************************************)
(* The server's side of a gateway connection                               *)
(* (crates/vifu-server/src/relay.rs, and the socket task of websocket.rs   *)
(* that feeds it): calls are multiplexed over the current connection of    *)
(* their gateway, answered, cancelled, timed out, dropped or failed with   *)
(* the connection.                                                         *)
(*                                                                         *)
(* Tasks run on several threads.  The hub's mutex covers one critical      *)
(* section each; a call's oneshot and watch channels, the command queues   *)
(* and the spawned tasks are outside it.  The answering task removes the   *)
(* entry, sends, and only then drops the entry's watch sender; the waiting *)
(* call polls its branches one after the other (biased select).            *)
(* Request ids are fresh UUIDs: a call is made once, and the channel id    *)
(* that goes with each request id decides nothing and is left out.  So is  *)
(* a message from the gateway that matches no entry: it changes nothing.   *)
(***************************************************************************)
EXTENDS Naturals, Sequences, FiniteSets

CONSTANTS
  Gateways, Connections, Requests,
  GatewayOf,     \* the gateway each connection authenticates as
  RouteOf,       \* the gateway each request is routed to
  Negotiated,    \* connections with the invocation-activity feature
  NoConnection,
  Capacity,      \* queue_capacity
  MaxNotices     \* bound: disconnect, configuration and feedback commands

ASSUME RelayAssumption ==
  /\ GatewayOf \in [Connections -> Gateways]
  /\ RouteOf \in [Requests -> Gateways]
  /\ Negotiated \subseteq Connections
  /\ NoConnection \notin Connections
  /\ Capacity \in Nat \ {0}
  /\ MaxNotices \in Nat

VARIABLES
  current,      \* RelayState.connections
  pending,      \* RelayState.pending: the connection an entry belongs to
  link,         \* the connection a call was sent over
  call,         \* where each call stands
  signal,       \* its cancellation or its idle deadline has come
  answer,       \* its oneshot channel
  activity,     \* its watch channel
  hand,         \* an entry taken out of pending and not yet dropped
  result,
  parked,       \* calls whose Cancel a spawned task wants to send
  queue,        \* command queue of each connection
  socket,       \* where each connection's socket task stands
  replaced,     \* the connection it took the place of
  newest,       \* history: the last connection registered per gateway
  seen, told,   \* history: calls whose Invoke, Cancel reached the gateway
  answeredBy,   \* history: the connection whose message completed a call
  notices

stateVars == <<current, pending>>
callVars == <<link, call, signal, result>>
watchVars == <<answer, activity, hand>>
socketVars == <<queue, socket, replaced, newest, seen, told, notices>>
vars == <<stateVars, callVars, watchVars, socketVars, parked, answeredBy>>

Command(kind, r) == [kind |-> kind, request |-> r]

Idle == [stage |-> "none", value |-> "none", by |-> NoConnection]

Init ==
  /\ current = [g \in Gateways |-> NoConnection]
  /\ pending = [r \in Requests |-> NoConnection]
  /\ link = [r \in Requests |-> NoConnection]
  /\ call = [r \in Requests |-> "idle"]
  /\ signal = [r \in Requests |-> "none"]
  /\ answer = [r \in Requests |-> "none"]
  /\ activity = [r \in Requests |-> "none"]
  /\ hand = [r \in Requests |-> Idle]
  /\ result = [r \in Requests |-> "none"]
  /\ parked = {}
  /\ queue = [c \in Connections |-> <<>>]
  /\ socket = [c \in Connections |-> "new"]
  /\ replaced = [c \in Connections |-> NoConnection]
  /\ newest = [g \in Gateways |-> NoConnection]
  /\ seen = {}
  /\ told = {}
  /\ answeredBy = [r \in Requests |-> NoConnection]
  /\ notices = 0

HasRoom(c) == Len(queue[c]) < Capacity
Open(c) == socket[c] # "dead"

-----------------------------------------------------------------------------
(* invoke_with_provider_events *)

Goto(r, label) == call' = [call EXCEPT ![r] = label]

Return(r, value) ==
  /\ Goto(r, "done")
  /\ result' = [result EXCEPT ![r] = value]

(* the gateway has no connection *)
InvokeUnavailable(r) ==
  /\ call[r] = "idle"
  /\ current[RouteOf[r]] = NoConnection
  /\ Return(r, "unavailable")
  /\ UNCHANGED <<stateVars, link, signal, watchVars, socketVars, parked, answeredBy>>

(* under the lock: pick the connection and a channel, insert the entry *)
InvokeEnter(r) ==
  /\ call[r] = "idle"
  /\ current[RouteOf[r]] # NoConnection
  /\ LET c == current[RouteOf[r]] IN
     /\ pending' = [pending EXCEPT ![r] = c]
     /\ link' = [link EXCEPT ![r] = c]
  /\ Goto(r, "entered")
  /\ UNCHANGED <<current, signal, result, watchVars, socketVars, parked, answeredBy>>

(* try_send of the Invoke command *)
InvokeSend(r) ==
  /\ call[r] = "entered"
  /\ Open(link[r])
  /\ HasRoom(link[r])
  /\ queue' = [queue EXCEPT ![link[r]] = Append(@, Command("invoke", r))]
  /\ Goto(r, "waiting")
  /\ UNCHANGED <<stateVars, link, signal, result, watchVars, socket, replaced,
                 newest, seen, told, notices, parked, answeredBy>>

InvokeRefused(r) ==
  /\ call[r] = "entered"
  /\ ~(Open(link[r]) /\ HasRoom(link[r]))
  /\ Goto(r, "refused")
  /\ signal' = [signal EXCEPT ![r] = IF Open(link[r]) THEN "backpressure" ELSE "unavailable"]
  /\ UNCHANGED <<stateVars, link, result, watchVars, socketVars, parked, answeredBy>>

(* remove_pending after a refusal; the answer, if any, is dropped *)
InvokeWithdraw(r) ==
  /\ call[r] = "refused"
  /\ pending' = [pending EXCEPT ![r] = NoConnection]
  /\ Return(r, signal[r])
  /\ UNCHANGED <<current, link, signal, watchVars, socketVars,
                 parked, answeredBy>>

-----------------------------------------------------------------------------
(* The select loop: one pass polls the response, then the activity channel *)
(* if negotiated, then cancellation and deadline; if none is ready the     *)
(* call is suspended until it is woken.                                    *)

Fire(r, what) ==
  /\ call[r] \in {"peeked", "suspended"}
  /\ signal[r] = "none"
  /\ signal' = [signal EXCEPT ![r] = what]
  /\ UNCHANGED <<stateVars, link, call, result, watchVars, socketVars, parked,
                 answeredBy>>

Cancel(r) == Fire(r, "cancelled")

Expire(r) == Fire(r, "timeout")

PollResponse(r) ==
  /\ call[r] = "waiting"
  /\ \/ answer[r] # "none" /\ Return(r, answer[r])
     \/ answer[r] = "none" /\ Goto(r, "peeked") /\ UNCHANGED result
  /\ UNCHANGED <<stateVars, link, signal, watchVars, socketVars, parked, answeredBy>>

(* Mutation: the activity channel is polled for every connection.          *)
ActivityReady_Always(r) == activity[r] # "none"

ActivityReady(r) == link[r] \in Negotiated /\ activity[r] # "none"

(* activity restarts the deadline *)
PollActivity(r) ==
  /\ call[r] = "peeked"
  /\ ActivityReady(r)
  /\ activity[r] = "changed"
  /\ activity' = [activity EXCEPT ![r] = "none"]
  /\ signal' = [signal EXCEPT ![r] = IF @ = "timeout" THEN "none" ELSE @]
  /\ Goto(r, "waiting")
  /\ UNCHANGED <<stateVars, link, result, answer, hand, socketVars, parked,
                 answeredBy>>

(* the entry was dropped: give up *)
PollActivityClosed(r) ==
  /\ call[r] = "peeked"
  /\ ActivityReady(r)
  /\ activity[r] = "closed"
  /\ signal' = [signal EXCEPT ![r] = "unavailable"]
  /\ Goto(r, "aborting")
  /\ UNCHANGED <<stateVars, link, result, watchVars, socketVars, parked, answeredBy>>

PollSignal(r) ==
  /\ call[r] = "peeked"
  /\ ~ActivityReady(r)
  /\ signal[r] # "none"
  /\ Goto(r, "aborting")
  /\ UNCHANGED <<stateVars, link, signal, result, watchVars, socketVars, parked,
                 answeredBy>>

Suspend(r) ==
  /\ call[r] = "peeked"
  /\ ~ActivityReady(r)
  /\ signal[r] = "none"
  /\ Goto(r, "suspended")
  /\ UNCHANGED <<stateVars, link, signal, result, watchVars, socketVars, parked,
                 answeredBy>>

(* Mutation: the deadline does not wake the call.                          *)
Wake_NoSignal(r) ==
  /\ call[r] = "suspended"
  /\ answer[r] # "none" \/ ActivityReady(r)
  /\ Goto(r, "waiting")
  /\ UNCHANGED <<stateVars, link, signal, result, watchVars, socketVars, parked, answeredBy>>

Wake(r) ==
  /\ call[r] = "suspended"
  /\ answer[r] # "none" \/ ActivityReady(r) \/ signal[r] # "none"
  /\ Goto(r, "waiting")
  /\ UNCHANGED <<stateVars, link, signal, result, watchVars, socketVars, parked,
                 answeredBy>>

-----------------------------------------------------------------------------
(* PendingInvocation::abort, and the task that its drop spawns *)

AbortRemove(r) ==
  /\ call[r] = "aborting"
  /\ pending' = [pending EXCEPT ![r] = NoConnection]
  /\ Goto(r, "cancelling")
  /\ UNCHANGED <<current, link, signal, result, watchVars, socketVars,
                 parked, answeredBy>>

(* Mutation: a full queue loses the Cancel.                                *)
AbortCancel_TryOnly(r) ==
  /\ call[r] = "cancelling"
  /\ queue' = IF Open(link[r]) /\ HasRoom(link[r])
              THEN [queue EXCEPT ![link[r]] = Append(@, Command("cancel", r))] ELSE queue
  /\ Return(r, signal[r])
  /\ UNCHANGED <<stateVars, link, signal, watchVars, socket, replaced, newest, seen,
                 told, notices, parked, answeredBy>>

(* queue_invocation_cancel *)
AbortCancel(r) ==
  /\ call[r] = "cancelling"
  /\ \/ /\ Open(link[r]) /\ HasRoom(link[r])
        /\ queue' = [queue EXCEPT ![link[r]] = Append(@, Command("cancel", r))]
        /\ UNCHANGED parked
     \/ /\ Open(link[r]) /\ ~HasRoom(link[r])
        /\ parked' = parked \cup {r}
        /\ UNCHANGED queue
     \/ /\ ~Open(link[r])
        /\ UNCHANGED <<queue, parked>>
  /\ Return(r, signal[r])
  /\ UNCHANGED <<stateVars, link, signal, watchVars, socket, replaced, newest, seen,
                 told, notices, answeredBy>>

(* Mutation: the Cancel jumps the queue.                                   *)
ParkedSend_First(r) ==
  /\ r \in parked
  /\ Open(link[r])
  /\ queue' = [queue EXCEPT ![link[r]] = <<Command("cancel", r)>> \o @]
  /\ parked' = parked \ {r}
  /\ UNCHANGED <<stateVars, callVars, watchVars, socket, replaced, newest, seen, told, notices,
                 answeredBy>>

(* the spawned task: sender.send(command).await *)
ParkedSend(r) ==
  /\ r \in parked
  /\ \/ /\ Open(link[r]) /\ HasRoom(link[r])
        /\ queue' = [queue EXCEPT ![link[r]] = Append(@, Command("cancel", r))]
     \/ ~Open(link[r]) /\ UNCHANGED queue
  /\ parked' = parked \ {r}
  /\ UNCHANGED <<stateVars, callVars, watchVars, socket, replaced, newest, seen, told, notices,
                 answeredBy>>

(* The caller drops the future.  While it waits for an answer the guard is *)
(* armed and its drop spawns the same clean-up; while it awaits the lock   *)
(* in remove_pending there is no armed guard and nothing more happens.     *)
DropCall(r) ==
  /\ \/ /\ call[r] = "suspended"
        /\ Goto(r, "aborting")
        /\ signal' = [signal EXCEPT ![r] = "dropped"]
        /\ UNCHANGED result
     \/ /\ call[r] \in {"refused", "aborting"}
        /\ signal[r] # "dropped"
        /\ Return(r, "dropped")
        /\ UNCHANGED signal
  /\ UNCHANGED <<stateVars, link, watchVars, socketVars, parked, answeredBy>>

-----------------------------------------------------------------------------
(* The socket task of a connection *)

(* register: insert under the lock, ...                                    *)
Register(c) ==
  LET g == GatewayOf[c] IN
  /\ socket[c] = "new"
  /\ current' = [current EXCEPT ![g] = c]
  /\ newest' = [newest EXCEPT ![g] = c]
  /\ socket' = [socket EXCEPT ![c] = "registered"]
  /\ replaced' = [replaced EXCEPT ![c] = current[g]]
  /\ UNCHANGED <<pending, callVars, watchVars, queue, seen, told, notices, parked,
                 answeredBy>>

(* ... tell the connection it replaced, unless that one's queue is full,   *)
(* and go on to the loop                                                   *)
RegisterNotify(c) ==
  LET old == replaced[c] IN
  /\ socket[c] = "registered"
  /\ \/ /\ old # NoConnection
        /\ Open(old) /\ HasRoom(old)
        /\ queue' = [queue EXCEPT ![old] = Append(@, [kind |-> "replaced"])]
     \/ /\ old # NoConnection => ~(Open(old) /\ HasRoom(old))
        /\ UNCHANGED queue
  /\ socket' = [socket EXCEPT ![c] = "serving"]
  /\ UNCHANGED <<stateVars, callVars, watchVars, newest, seen, told, notices, replaced, parked,
                 answeredBy>>

HandsFree(c) == \A r \in Requests : hand[r].stage # "none" => hand[r].by # c

(* the task is in its loop and not in the middle of a message *)
Serving(c) == socket[c] = "serving" /\ HandsFree(c)

(* the socket breaks, a heartbeat is missed, a message is not valid *)
Break(c) ==
  /\ Serving(c)
  /\ socket' = [socket EXCEPT ![c] = "leaving"]
  /\ UNCHANGED <<stateVars, callVars, watchVars, queue, newest, seen, told, notices, replaced,
                 parked, answeredBy>>

(* `?` on Welcome or on a HeartbeatAck returns from run_socket at once     *)
BreakEarly(c) ==
  /\ Serving(c)
  /\ socket' = [socket EXCEPT ![c] = "dead"]
  /\ UNCHANGED <<stateVars, callVars, watchVars, queue, newest, seen, told, notices, replaced,
                 parked, answeredBy>>

(* forward a command; after SESSION_REPLACED or CREDENTIAL_REVOKED, leave  *)
Forward(c) ==
  /\ Serving(c)
  /\ queue[c] # <<>>
  /\ LET command == Head(queue[c]) IN
     /\ seen' = IF command.kind = "invoke" THEN seen \cup {command.request} ELSE seen
     /\ told' = IF command.kind = "cancel" THEN told \cup {command.request} ELSE told
     /\ socket' = IF command.kind \in {"replaced", "revoked"}
                  THEN [socket EXCEPT ![c] = "leaving"] ELSE socket
  /\ queue' = [queue EXCEPT ![c] = Tail(@)]
  /\ UNCHANGED <<stateVars, callVars, watchVars, newest, notices, replaced, parked, answeredBy>>

(* disconnect, notify_runtime_config and notify_application_feedback       *)
Notify(g, kind) ==
  LET c == current[g] IN
  /\ notices < MaxNotices
  /\ c # NoConnection
  /\ Open(c) /\ HasRoom(c)
  /\ queue' = [queue EXCEPT ![c] = Append(@, [kind |-> kind])]
  /\ notices' = notices + 1
  /\ UNCHANGED <<stateVars, callVars, watchVars, socket, newest, seen, told, replaced, parked,
                 answeredBy>>

(* Mutation: an entry is found by its request id alone.                    *)
Complete_AnyConnection(c, r, value) ==
  /\ Serving(c)
  /\ r \in seen
  /\ GatewayOf[c] = RouteOf[r]
  /\ pending[r] # NoConnection
  /\ pending' = [pending EXCEPT ![r] = NoConnection]
  /\ hand' = [hand EXCEPT ![r] = [stage |-> "removed", value |-> value, by |-> c]]
  /\ answeredBy' = [answeredBy EXCEPT ![r] = c]
  /\ UNCHANGED <<current, callVars, answer, activity, socketVars, parked>>

(* The gateway answers a call it was sent, also after it reconnected.      *)
(* complete: remove the matching entry under the lock, ...                 *)
Complete(c, r, value) ==
  /\ Serving(c)
  /\ r \in seen
  /\ GatewayOf[c] = RouteOf[r]
  /\ pending[r] = c
  /\ pending' = [pending EXCEPT ![r] = NoConnection]
  /\ hand' = [hand EXCEPT ![r] = [stage |-> "removed", value |-> value, by |-> c]]
  /\ answeredBy' = [answeredBy EXCEPT ![r] = c]
  /\ UNCHANGED <<current, callVars, answer, activity, socketVars, parked>>

(* ... send the result, which fails if the call has returned, ...          *)
HandSend(r) ==
  /\ hand[r].stage = "removed"
  /\ answer' = IF call[r] # "done" /\ signal[r] # "dropped"
               THEN [answer EXCEPT ![r] = hand[r].value] ELSE answer
  /\ hand' = [hand EXCEPT ![r].stage = "sent"]
  /\ UNCHANGED <<stateVars, callVars, activity, socketVars, parked, answeredBy>>

(* ... and drop the rest of the entry, which closes the activity channel   *)
HandDrop(r) ==
  /\ hand[r].stage = "sent"
  /\ activity' = [activity EXCEPT ![r] = "closed"]
  /\ hand' = [hand EXCEPT ![r] = Idle]
  /\ UNCHANGED <<stateVars, callVars, answer, socketVars, parked, answeredBy>>

(* record_invocation_activity, as often as the gateway likes               *)
RecordActivity(c, r) ==
  /\ Serving(c)
  /\ c \in Negotiated
  /\ r \in seen
  /\ pending[r] = c
  /\ activity' = [activity EXCEPT ![r] = "changed"]
  /\ UNCHANGED <<stateVars, callVars, answer, hand, socketVars, parked, answeredBy>>

(* Mutation: the gateway is forgotten whoever is connected.              *)
Unregister_Always(c) ==
  LET g == GatewayOf[c]
      mine == {r \in Requests : pending[r] = c}
  IN
  /\ socket[c] = "leaving"
  /\ current' = [current EXCEPT ![g] = NoConnection]
  /\ pending' = [r \in Requests |-> IF r \in mine THEN NoConnection ELSE pending[r]]
  /\ hand' = [r \in Requests |->
       IF r \in mine THEN [stage |-> "removed", value |-> "unavailable", by |-> c] ELSE hand[r]]
  /\ socket' = [socket EXCEPT ![c] = "closing"]
  /\ UNCHANGED <<callVars, answer, activity, queue, newest, seen, told,
                 notices, replaced, parked, answeredBy>>

(* Mutation: the entries are dropped without an answer.                  *)
Unregister_Silent(c) ==
  LET g == GatewayOf[c]
      mine == {r \in Requests : pending[r] = c}
  IN
  /\ socket[c] = "leaving"
  /\ current' = IF current[g] = c THEN [current EXCEPT ![g] = NoConnection] ELSE current
  /\ pending' = [r \in Requests |-> IF r \in mine THEN NoConnection ELSE pending[r]]
  /\ UNCHANGED hand
  /\ socket' = [socket EXCEPT ![c] = "closing"]
  /\ UNCHANGED <<callVars, answer, activity, queue, newest, seen, told,
                 notices, replaced, parked, answeredBy>>

(* unregister: under the lock, forget the connection if it is still the    *)
(* current one and take out its entries; they are then failed one by one   *)
Unregister(c) ==
  LET g == GatewayOf[c]
      mine == {r \in Requests : pending[r] = c}
  IN
  /\ socket[c] = "leaving"
  /\ current' = IF current[g] = c THEN [current EXCEPT ![g] = NoConnection] ELSE current
  /\ pending' = [r \in Requests |-> IF r \in mine THEN NoConnection ELSE pending[r]]
  /\ hand' = [r \in Requests |->
       IF r \in mine THEN [stage |-> "removed", value |-> "unavailable", by |-> c] ELSE hand[r]]
  /\ socket' = [socket EXCEPT ![c] = "closing"]
  /\ UNCHANGED <<callVars, answer, activity, queue, newest, seen, told,
                 notices, replaced, parked, answeredBy>>

(* run_socket returns and drops the receiver *)
Close(c) ==
  /\ socket[c] = "closing"
  /\ HandsFree(c)
  /\ socket' = [socket EXCEPT ![c] = "dead"]
  /\ UNCHANGED <<stateVars, callVars, watchVars, queue, newest, seen, told, notices, replaced,
                 parked, answeredBy>>

-----------------------------------------------------------------------------
Task(r) ==
  \/ InvokeSend(r) \/ InvokeRefused(r) \/ InvokeWithdraw(r)
  \/ PollResponse(r) \/ PollActivity(r) \/ PollActivityClosed(r) \/ PollSignal(r)
  \/ Suspend(r) \/ Wake(r) \/ AbortRemove(r) \/ AbortCancel(r)

Socket(c) ==
  \/ RegisterNotify(c) \/ Forward(c) \/ Unregister(c) \/ Close(c)

Next ==
  \/ \E r \in Requests :
       \/ InvokeUnavailable(r) \/ InvokeEnter(r) \/ Task(r) \/ Cancel(r) \/ Expire(r)
       \/ DropCall(r) \/ ParkedSend(r) \/ HandSend(r) \/ HandDrop(r)
  \/ \E c \in Connections :
       \/ Register(c) \/ Socket(c) \/ Break(c) \/ BreakEarly(c)
       \/ \E r \in Requests :
            \/ RecordActivity(c, r)
            \/ \E value \in {"ok", "error"} : Complete(c, r, value)
  \/ \E g \in Gateways, kind \in {"revoked", "notice"} : Notify(g, kind)

Spec == Init /\ [][Next]_vars

(* Tasks are scheduled, deadlines come, waiting senders get a permit in    *)
(* the order they asked.                                                   *)
Fairness ==
  /\ \A r \in Requests :
       /\ WF_vars(Task(r)) /\ WF_vars(Expire(r))
       /\ SF_vars(ParkedSend(r))
       /\ WF_vars(HandSend(r)) /\ WF_vars(HandDrop(r))
  /\ \A c \in Connections : WF_vars(Socket(c))

FairSpec == Spec /\ Fairness

-----------------------------------------------------------------------------
Waiting == {"waiting", "peeked", "suspended"}

Commands == [kind : {"invoke", "cancel"}, request : Requests]
              \cup [kind : {"replaced", "revoked", "notice"}]

(* Every variable holds a value of its kind, and no queue grows past its   *)
(* capacity, whichever task sends.                                         *)
TypeOK ==
  /\ current \in [Gateways -> Connections \cup {NoConnection}]
  /\ pending \in [Requests -> Connections \cup {NoConnection}]
  /\ link \in [Requests -> Connections \cup {NoConnection}]
  /\ call \in [Requests -> Waiting \cup {"idle", "entered", "refused", "aborting",
                                         "cancelling", "done"}]
  /\ signal \in [Requests -> {"none", "cancelled", "timeout", "unavailable", "backpressure",
                              "dropped"}]
  /\ answer \in [Requests -> {"none", "ok", "error", "unavailable"}]
  /\ activity \in [Requests -> {"none", "changed", "closed"}]
  /\ result \in [Requests -> {"none", "ok", "error", "unavailable", "backpressure", "timeout",
                              "cancelled", "dropped"}]
  /\ parked \subseteq Requests
  /\ seen \subseteq Requests /\ told \subseteq Requests
  /\ socket \in [Connections -> {"new", "registered", "serving", "leaving", "closing", "dead"}]
  /\ newest \in [Gateways -> Connections \cup {NoConnection}]
  /\ replaced \in [Connections -> Connections \cup {NoConnection}]
  /\ answeredBy \in [Requests -> Connections \cup {NoConnection}]
  /\ hand \in [Requests -> [stage : {"none", "removed", "sent"},
                             value : {"none", "ok", "error", "unavailable"},
                             by : Connections \cup {NoConnection}]]
  /\ queue \in [Connections -> Seq(Commands)]
  /\ \A c \in Connections : Len(queue[c]) <= Capacity
  /\ notices \in 0..MaxNotices

(* A call is only ever completed over the connection it was sent on: a     *)
(* gateway that reconnects and repeats an answer changes nothing.          *)
NoCrossTalk ==
  \A r \in Requests :
    /\ result[r] \in {"ok", "error"} => answeredBy[r] = link[r]
    /\ answeredBy[r] # NoConnection => answeredBy[r] = link[r]

(* A call that waits has its entry in the hub, or somebody is about to     *)
(* answer it, or it has its answer: none waits for nothing but its         *)
(* deadline because its entry got lost.  And the hub forgets every call    *)
(* that returned, unless the caller dropped it: abort disarms its guard    *)
(* before it awaits the hub's lock, and a drop there leaks the entry.      *)
PendingMatchesCalls ==
  \A r \in Requests :
    /\ call[r] \in Waiting =>
         pending[r] = link[r] \/ hand[r].stage = "removed" \/ answer[r] # "none"
    /\ call[r] = "done" /\ result[r] # "dropped" => pending[r] = NoConnection

(* The gateway is told to cancel exactly calls that were given up, and     *)
(* never before it was given the call.                                     *)
CancelFollowsInvoke ==
  \A r \in Requests :
    LET Has(c, kind) == \E i \in 1..Len(queue[c]) : queue[c][i] = Command(kind, r)
    IN /\ r \in told => r \in seen
       /\ (\E c \in Connections : Has(c, "cancel")) \/ r \in told \/ r \in parked
            => signal[r] \in {"cancelled", "timeout", "unavailable", "dropped"}
       /\ \A c \in Connections : \A i, j \in 1..Len(queue[c]) :
            queue[c][i] = Command("cancel", r) /\ queue[c][j] = Command("invoke", r) => j < i

(* A late unregister of a replaced connection does not take the new one    *)
(* away: the newest connection is the one calls are routed to until it     *)
(* leaves itself.                                                          *)
NewestIsCurrent ==
  \A c \in Connections :
    socket[c] \in {"registered", "serving", "leaving"} /\ newest[GatewayOf[c]] = c
      => current[GatewayOf[c]] = c

(* An answer the hub has accepted is what the call returns, unless it      *)
(* timed out, was cancelled or dropped: neither an unregister that fails   *)
(* the other calls, nor the closing of the entry's channels takes it away. *)
(* With the activity feature this is not so: a call that has just polled   *)
(* its response may find the activity channel closed by the same answer    *)
(* and give up as unavailable.                                             *)
AnswerReachesCaller ==
  \A r \in Requests :
    call[r] = "done" /\ answer[r] \in {"ok", "error"} =>
      \/ result[r] \in {answer[r], "timeout", "cancelled", "dropped"}
      \/ result[r] = "unavailable" /\ link[r] \in Negotiated

(* Every call returns: answered, refused, failed, or at its deadline --    *)
(* unless its gateway reports activity for ever.  Each report restarts the *)
(* deadline, which limits inactivity and not the time a call may take.     *)
CallsReturn ==
  \A r \in Requests :
    \/ []<><<PollActivity(r)>>_vars
    \/ call[r] = "entered" ~> call[r] = "done"

Reachable(r) == link[r] \in Connections /\ socket[link[r]] = "serving"

(* A gateway that works on a call its caller gave up is told so, as long   *)
(* as its connection lasts, even if the queue was full at the time.        *)
GivenUpIsTold ==
  \A r \in Requests :
    result[r] \in {"timeout", "cancelled"} /\ Reachable(r) ~> (r \in told \/ ~Reachable(r))
=============================================================================
